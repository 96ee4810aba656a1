CONSTANTS
  c1 = c1
  c2 = c2
  NoOp = NoOp
  Coro = {c1, c2}
  Clicks = {"SelectMailbox", "LoadEmail", "MarkRead"}
  MaxClicks = 2
  MaxPushes = 1
  MaxStops = 1
  MaxPosts = 2
  MayThrow = TRUE
SYMMETRY CoroSymmetry
SPECIFICATION Spec
INVARIANTS TypeOK LatestClickWaits PhaseIsCurrent
PROPERTY OperationStartsOffIdle
CHECK_DEADLOCK FALSE
