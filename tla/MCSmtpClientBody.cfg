SPECIFICATION Spec
CONSTANTS
  Drivers = {"desktop"}
  Modes = {"STARTTLS"}
  Recipients = {r1, r2}
  Bodies = {"plain", "dotted", "lostfile"}
  CliOps = {"connect", "send", "login", "HELP", "RSET", "quit"}
  MaxLines = 2
  Faults = {}
  MaxSends = 1
  MaxOps = 3
  MaxLate = 1
  MaxFaults = 0
INVARIANT ReportedMeansDelivered
CHECK_DEADLOCK FALSE
