SPECIFICATION Spec
CONSTANTS
  c1 = c1
  c2 = c2
  i1 = i1
  i2 = i2
  i3 = i3
  alice = alice
  bob = bob
  Calls <- MCCalls
  Ids <- MCIds
  Senders = {alice, bob}
  Items <- MCItems
  Sender <- MCSender
  None = None
  MaxReceiveCount = 2
  MaxBatch = 2
INVARIANTS
  OnceEach
  AnnouncedUnlessInterrupted
PROPERTIES
  ImplementsIntake
  EventuallyOffTheQueue
CHECK_DEADLOCK FALSE
