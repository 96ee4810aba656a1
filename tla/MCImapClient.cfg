SPECIFICATION Spec
CONSTANTS
  mb1 = mb1
  mb2 = mb2
  Mailboxes = {mb1, mb2}
  Home = mb1
  Ports = {143, 993}
  Starts = {"fresh", "selected", "closed"}
  CliOps <- AllOps
  UidSets <- One
  FlagSets = {FALSE}
  Offers <- Offered
  DoneLines = 2
  MaxUid = 4
  Faults = {"connect", "tls", "silent", "refuse", "cut", "late", "impatient", "crlf"}
  MaxOps = 2
  MaxChanges = 1
  MaxFaults = 1
INVARIANTS TypeOK EntriesBelong KnownRangesExact ToldAsAnswered VanishedStaysAway NothingInIdle AnswersInStep
CHECK_DEADLOCK FALSE
PROPERTY OperationEnds
