SPECIFICATION Spec
CONSTANTS
  Drivers = {"desktop"}
  Modes = {"SSL_TLS"}
  Recipients = {r1, r2}
  Bodies = {"plain"}
  CliOps = {"connect", "send", "login", "HELP", "RSET", "quit"}
  MaxLines = 2
  Faults = {"tls"}
  MaxSends = 2
  MaxOps = 2
  MaxLate = 0
  MaxFaults = 1
INVARIANT ClosesCleanly
CHECK_DEADLOCK FALSE
