CONSTANTS
  root = root
  alice = alice
  bob = bob
  carol = carol
  h1 = h1
  h2 = h2
  k1 = k1
  k2 = k2
  Root = root
  Uid = {root, alice, bob}
  MAX_SIZE_ARRAY = 3
  Handlers = {h1}
  Hooks = {k1}
  Commands <- OneHandler
SPECIFICATION Spec
INVARIANT HookedUserIsSeen
