SPECIFICATION Spec
CONSTANTS
  a = a
  b = b
  Account = {a, b}
  NoAccount = NoAccount
  Key <- MCKey
  Size <- MCSize
  MaxEntries = 2
  MaxBytes = 2
  MaxDiskBytes = 4
  EvictionBatch = 2
  MaxCiphers = 2
  MaxCalls = 8
  Faults = {"keychain", "open", "insert"}
INVARIANTS TypeOK BudgetsHold
PROPERTY KeepsPromise
CHECK_DEADLOCK FALSE
