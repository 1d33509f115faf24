SPECIFICATION Spec
CONSTANTS
  FirstId = 1001
  LastId = 1002
  alice = alice
  blob = blob
  Addresses <- OneAddress
  Balances = {0, 1}
  MaxWanted = 2
  Missing = Missing
  Error = Error
  Global = Global
  Letters <- OneLetter
  MaxKey = 1
  NoKey = NoKey
  NoObject = NoObject
  Uints <- Numbers
  Blobs <- OneBlob
  Types <- OnlyNumbers
  MaxEntries = 2
CONSTRAINT OneSide

PROPERTY KeyingKeepsValue
