SPECIFICATION RealtimeSpec
CONSTANTS
  a = a
  b = b
  org = org
  ua = ua
  ub = ub
  Streams <- MCStreams
  Channels = {org, ua, ub}
  ChannelsOf <- MCChannelsOf
  MaxSize = 2
  MaxUpdates = 4
INVARIANTS
  RegistryExact
  FeedInOrder
  LostOnlyWhenBehind
PROPERTIES
  QueuedIsRelayed
CHECK_DEADLOCK FALSE
