SPECIFICATION Spec
CONSTANTS
  Drivers = {"desktop"}
  Modes = {"STARTTLS"}
  Recipients = {r1, r2}
  Bodies = {"plain"}
  CliOps = {"connect", "send", "login", "HELP", "RSET", "quit"}
  MaxLines = 2
  Faults = {"hang", "silent_tls"}
  MaxSends = 1
  MaxOps = 3
  MaxLate = 0
  MaxFaults = 1
PROPERTY HandshakeEndsInTime
CHECK_DEADLOCK FALSE
