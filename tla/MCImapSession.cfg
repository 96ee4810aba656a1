CONSTANTS
  c1 = c1
  c2 = c2
  NoOp = NoOp
  Coro = {c1, c2}
  Clicks = {"SelectMailbox", "LoadEmail"}
  MaxClicks = 2
  MaxPushes = 1
  MaxStops = 1
  MaxPosts = 2
  MayThrow = FALSE
SYMMETRY CoroSymmetry
SPECIFICATION Spec
INVARIANTS OneCoroutineEach FlagsTellTheWire QueueHasConsumer
CHECK_DEADLOCK FALSE
