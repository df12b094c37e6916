SPECIFICATION Spec
CONSTANTS
  s1 = s1
  s2 = s2
  k = k
  Sessions = {s1, s2}
  Keys = {k}
  NoKey = NoKey
  Keep = Keep
  Amounts = {0, 1, 2}
  Adjustments <- MCAdjustments
  MaxLedger = 2
  MaxEmails = 2
  MaxEdits = 2
SYMMETRY MCSymmetry
INVARIANTS
  NoMoneyInvented
  CollectedWasEmailed
  SerialConsistency
PROPERTIES
  SerialLifecycle
CHECK_DEADLOCK FALSE
