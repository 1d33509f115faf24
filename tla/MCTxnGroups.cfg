SPECIFICATION Spec
CONSTANTS
  Apps = {a1, a2}
  NoApp = NoApp
  CreateApps = {}
  create = create
  vote = vote
  NoOpCall = NoOpCall
  OptIn = OptIn
  Methods = {vote}
  NoMethod = NoMethod
  Create <- MCCreate
  AllowActions <- MCAllowActions
  Actions = {NoOpCall}
  NoOp = NoOpCall
  Unset = Unset
  TestOverrides <- MCNoOverrides
  MaxGroupSize = 2
  MaxLogs = 1
  MaxTxns = 3
  MaxDepth = 3
INVARIANTS
  GroupHasOneOwner
  ActivatedOnce
  RunsUnderItsOwnTxn
PROPERTIES
  RecordedGroupsAreFinal
SYMMETRY MCSymmetry
