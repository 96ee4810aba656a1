SPECIFICATION Spec
CONSTANTS
  Drivers = {"cli"}
  Modes = {"STARTTLS"}
  Recipients = {r1}
  Bodies = {"plain"}
  CliOps = {"connect", "NOOP", "send"}
  MaxLines = 2
  Faults = {}
  MaxSends = 2
  MaxOps = 6
  MaxLate = 3
  MaxFaults = 0
INVARIANT ReportedMeansDelivered
CHECK_DEADLOCK FALSE
