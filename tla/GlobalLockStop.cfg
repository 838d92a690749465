SPECIFICATION Spec

CONSTANTS
  timer = timer
  hook = hook
  client = client
  Threads = {timer, hook, client}
  NoOne = NoOne
  Stopper = Stopper

SYMMETRY Symmetry

INVARIANTS
  InactiveAfterDestroy
