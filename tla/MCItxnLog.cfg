SPECIFICATION Spec
CONSTANTS
  Types = {Payment, AssetConfig, AssetTransfer}
  AssetConfig = AssetConfig
  AssetTransfer = AssetTransfer
  Default = Payment
  NoHandler = NoHandler
  app = app
  other = other
  Senders = {app, other}
  Inputs <- MCInputs
  AppAddress = app
  NoSender = NoSender
  MaxGroupSize = 2
  MaxHeap = 4
  MaxGroups = 2
PROPERTIES
  RecordsItxns
  StagedAreRecorded
INVARIANTS
  TypeOK
