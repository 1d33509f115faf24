SPECIFICATION Spec
CONSTANTS
  Apps = {a1}
  NoApp = NoApp
  CreateApps = {a1}
  create = create
  vote = vote
  NoOpCall = NoOpCall
  OptIn = OptIn
  Methods = {create, vote}
  NoMethod = NoMethod
  Create <- MCCreate
  AllowActions <- MCAllowActions
  Actions = {NoOpCall, OptIn}
  NoOp = NoOpCall
  Unset = Unset
  TestOverrides <- MCOverrides
  MaxGroupSize = 1
  MaxLogs = 1
  MaxTxns = 3
  MaxDepth = 3
INVARIANTS
  TypeOK
  RunningMethodsAreRouted
PROPERTIES
  CreationIsFinal
  ExceptionsCloseTheirGroup
