SPECIFICATION Spec
CONSTANTS
  anna = anna
  bert = bert
  Account = {anna, bert}
  None = None
  Legacy = Legacy
  MaxClicks = 2
  MaxOverlaps = 1
  Faults = {"refresh"}
INVARIANTS OwnMail TokensNeverMix
PROPERTIES ResumeBegins SignOutRevokes
CHECK_DEADLOCK FALSE
