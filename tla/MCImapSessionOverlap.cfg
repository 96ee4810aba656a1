CONSTANTS
  c1 = c1
  c2 = c2
  NoOp = NoOp
  Coro = {c1, c2}
  Clicks = {"SelectMailbox", "LoadEmail"}
  MaxClicks = 2
  MaxPushes = 0
  MaxStops = 0
  MaxPosts = 2
  MayThrow = FALSE
SPECIFICATION Spec
INVARIANT ExclusiveStream
CHECK_DEADLOCK FALSE
