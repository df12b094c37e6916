SPECIFICATION Spec
CONSTANTS
  s1 = s1
  s2 = s2
  ann = ann
  Sends <- MCSends
  Addresses <- MCAddresses
  To <- MCTo
  TopicArn = TRUE
  MaxAttempts = 2
SYMMETRY Symmetry
INVARIANTS NoMailToReported SendsAreTracked
PROPERTIES EventLifecycle
