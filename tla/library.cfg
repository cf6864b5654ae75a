CONSTANTS
  root = root
  alice = alice
  bob = bob
  p1 = p1
  p2 = p2
  Root = root
  Uid = {root, alice, bob}
  MAX_SIZE_ARRAY = 3
  ARRAY_DEFAULT_CAPACITY = 1
  ListBound = 1
  Data <- Strings
  NoData = NoData
  PrefixOf <- Prefixes
  PasswdFile = "/t"
  Ipv4 = {}
  Requests <- Messages
  Calls = {}
  Process = {p1, p2}
  ApiCalls <- AllCalls
  Empty = ""
  NoUser = NoUser
  Utmp <- LoggedIn
  MaxSockets = 1
SPECIFICATION FocusedSpec
INVARIANTS LibTypeOK CallsGiveBack
PROPERTIES EveryApiCallReturns ExceptSpares
