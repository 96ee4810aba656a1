SPECIFICATION Spec
CONSTANTS
  mb1 = mb1
  mb2 = mb2
  Mailboxes = {mb1, mb2}
  Home = mb1
  Ports = {143, 993}
  Starts = {"selected"}
  CliOps = {"store"}
  UidSets <- One
  FlagSets = {FALSE}
  Offers <- Offered
  DoneLines = 2
  MaxUid = 4
  Faults = {}
  MaxOps = 1
  MaxChanges = 1
  MaxFaults = 0
PROPERTY StoreKeepsTheRest
CHECK_DEADLOCK FALSE
