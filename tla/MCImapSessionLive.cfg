CONSTANTS
  c1 = c1
  NoOp = NoOp
  Coro = {c1}
  Clicks = {"SelectMailbox"}
  MaxClicks = 1
  MaxPushes = 1
  MaxStops = 1
  MaxPosts = 2
  MayThrow = FALSE
SPECIFICATION FairSpec
PROPERTIES StopHonoured QueueServed PushResyncs IdleAllowedAgain
CHECK_DEADLOCK FALSE
