SPECIFICATION Spec
CONSTANTS
  Drivers = {"desktop", "cli"}
  Modes = {"STARTTLS"}
  Recipients = {r1, r2}
  Bodies = {"plain", "dotted"}
  CliOps = {"connect", "send", "login", "RSET", "quit"}
  MaxLines = 2
  Faults = {"connect", "tls", "cut", "hang", "silent_tls", "lines", "token", "refresh", "impatient"}
  MaxSends = 2
  MaxOps = 3
  MaxLate = 1
  MaxFaults = 1
INVARIANTS TypeOK AcceptedMeansDelivered NothingMixed InStep
PROPERTY SendEnds
CHECK_DEADLOCK FALSE
