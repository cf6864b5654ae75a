CONSTANTS
  root = root
  alice = alice
  bob = bob
  carol = carol
  Root = root
  Uid = {root, alice, bob, carol}
  MAX_SIZE_ARRAY = 3
  ARRAY_DEFAULT_CAPACITY = 1
  ListBound = 2
  Data <- Strings
  NoData = NoData
  PrefixOf <- Prefixes
  PasswdFile = "/e/passwd"
  Ipv4 <- Addresses4
  Requests <- AllRequests
  Calls <- AllCalls
SPECIFICATION FocusedSpec
INVARIANTS TypeOK OnePlacePerUid PushInBounds DoneMeansDone
PROPERTY ImplementsPolicy
