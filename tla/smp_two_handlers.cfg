CONSTANTS
  root = root
  alice = alice
  bob = bob
  carol = carol
  h1 = h1
  h2 = h2
  k1 = k1
  k2 = k2
  Root = root
  Uid = {root, alice}
  MAX_SIZE_ARRAY = 2
  Handlers = {h1, h2}
  Hooks = {}
  Commands <- TwoHandlers
SPECIFICATION Spec
PROPERTY EveryCallReturns
CHECK_DEADLOCK FALSE
