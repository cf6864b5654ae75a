CONSTANTS
  root = root
  alice = alice
  bob = bob
  k1 = k1
  Root = root
  Uid = {root, alice, bob}
  MAX_SIZE_ARRAY = 2
  ARRAY_DEFAULT_CAPACITY = 1
  ListBound = 2
  Data <- Strings
  NoData = NoData
  PrefixOf <- Prefixes
  Hooks = {k1}
  Unfit = Unfit
  Length <- Lengths
  MaxSize = 3
  Commands <- AddCommands
  Calls <- UserCalls
  MaxSockets = 1
  MaxLoads = 2
SPECIFICATION Spec
INVARIANTS CycleTypeOK NoDanglingHook OriginalsReachKernel HandlersInLiveModule DecidedOnWhole HandlerMatchesOperator
PROPERTIES PageProtected 
CHECK_DEADLOCK FALSE
