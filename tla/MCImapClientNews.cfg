SPECIFICATION Spec
CONSTANTS
  mb1 = mb1
  mb2 = mb2
  Mailboxes = {mb1, mb2}
  Home = mb1
  Ports = {143, 993}
  Starts = {"selected"}
  CliOps = {"noop"}
  UidSets <- One
  FlagSets = {TRUE}
  Offers <- Offered
  DoneLines = 2
  MaxUid = 4
  Faults = {"refuse"}
  MaxOps = 2
  MaxChanges = 1
  MaxFaults = 1
INVARIANT ToldAsAnswered
CHECK_DEADLOCK FALSE
