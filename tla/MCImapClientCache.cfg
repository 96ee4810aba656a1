SPECIFICATION Spec
CONSTANTS
  mb1 = mb1
  mb2 = mb2
  Mailboxes = {mb1, mb2}
  Home = mb1
  Ports = {143, 993}
  Starts = {"selected", "closed"}
  CliOps = {"examine", "headers", "move", "idle"}
  UidSets <- Star
  FlagSets = {FALSE}
  Offers <- Offered
  DoneLines = 2
  MaxUid = 4
  Faults = {}
  MaxOps = 2
  MaxChanges = 1
  MaxFaults = 0
INVARIANTS EntriesBelong VanishedStaysAway NotifiedIsGone
CHECK_DEADLOCK FALSE
