SPECIFICATION Spec
CONSTANTS
  mb1 = mb1
  mb2 = mb2
  Mailboxes = {mb1, mb2}
  Home = mb1
  Ports = {143, 993}
  Starts = {"selected"}
  CliOps = {"select", "noop"}
  UidSets <- One
  FlagSets = {FALSE}
  Offers <- Offered
  DoneLines = 2
  MaxUid = 4
  Faults = {"late", "refuse"}
  MaxOps = 2
  MaxChanges = 1
  MaxFaults = 2
INVARIANT StatusIsItsOwn
CHECK_DEADLOCK FALSE
