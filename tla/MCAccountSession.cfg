SPECIFICATION Spec
CONSTANTS
  anna = anna
  bert = bert
  Account = {anna, bert}
  None = None
  Legacy = Legacy
  MaxClicks = 2
  MaxOverlaps = 1
  Faults = {"exchange", "server", "keychain", "silent"}
INVARIANTS TypeOK OwnMail TokensApart Resumable
PROPERTY UiComesBack
CHECK_DEADLOCK FALSE
