CONSTANTS
  c1 = c1
  c2 = c2
  NoOp = NoOp
  Coro = {c1, c2}
  Clicks = {"SelectMailbox"}
  MaxClicks = 1
  MaxPushes = 0
  MaxStops = 1
  MaxPosts = 2
  MayThrow = FALSE
SPECIFICATION Spec
INVARIANT TeardownQuiesces
CHECK_DEADLOCK FALSE
