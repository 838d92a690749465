SPECIFICATION FairSpec

CONSTANTS
  timer = timer
  hook = hook
  client = client
  Threads = {timer, hook, client}
  NoOne = NoOne
  Stopper = Stopper

INVARIANTS
  MutualExclusion

PROPERTIES
  PromiseKept
  NestedGetsIn
  Drains

CHECK_DEADLOCK FALSE
