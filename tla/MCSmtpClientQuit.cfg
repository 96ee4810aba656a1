SPECIFICATION Spec
CONSTANTS
  Drivers = {"cli"}
  Modes = {"STARTTLS"}
  Recipients = {r1, r2}
  Bodies = {"plain"}
  CliOps = {"connect", "send", "login", "HELP", "RSET", "quit"}
  MaxLines = 2
  Faults = {"cut"}
  MaxSends = 2
  MaxOps = 3
  MaxLate = 0
  MaxFaults = 1
PROPERTY QuitCloses
CHECK_DEADLOCK FALSE
