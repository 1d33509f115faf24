SPECIFICATION Spec
CONSTANTS
  Apps = {a1}
  NoApp = NoApp
  CreateApps = {a1}
  create = create
  vote = vote
  NoOpCall = NoOpCall
  OptIn = OptIn
  Methods = {create, vote}
  NoMethod = NoMethod
  Create <- MCCreate
  AllowActions <- MCAllowActions
  Actions = {NoOpCall}
  NoOp = NoOpCall
  Unset = Unset
  TestOverrides <- MCNoOverrides
  MaxGroupSize = 2
  MaxLogs = 1
  MaxTxns = 2
  MaxDepth = 2
INVARIANTS
  CreatingUntilCreated
