CONSTANTS
  root = root
  alice = alice
  bob = bob
  carol = carol
  Root = root
  Uid = {root, alice, bob}
  MAX_SIZE_ARRAY = 2
  ARRAY_DEFAULT_CAPACITY = 1
  ListBound = 1
  Data <- Strings
  NoData = NoData
  PrefixOf <- Prefixes
  PasswdFile = "/e/passwd"
  Ipv4 <- Addresses4
  Requests <- TwoLocks
  Calls <- LockCalls
SPECIFICATION Spec
INVARIANT DoneUnlockIsUnlocked
