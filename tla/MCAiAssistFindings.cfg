SPECIFICATION Spec
CONSTANTS
  d1 = d1
  d2 = d2
  p = p
  q = q
  k1 = k1
  Dialogs = {d1, d2}
  Bodies = {p, q}
  Keys = {k1}
  Users = {FALSE}
  Faults = {"keychain"}
  MaxRequests = 2
  MaxEdits = 2
  MaxFaults = 1
INVARIANTS NoCrossing OneRequestEach KeyIsKept
CHECK_DEADLOCK FALSE
