SPECIFICATION MCSpec
CONSTANTS
  Conversations = {1, 2, 3, 4}
  Limits = {0, 1, 9}
  DefaultLimit = 2
  MaxLimit = 3
  MaxTime = 3
  Messages = {1, 2, 3}
  PageLimits = {0, 9}
  DefaultPage = 1
  MaxPage = 2
  SignExpiry = 3
  UrlTtl = 2
  Attached = {2}
  Sessions = {1, 4}
  NoPage = NoPage
  MaxClock = 3
  MaxRestarts = 1
INVARIANTS
  PagesInOrder
  WalkComplete
  ThreadIsRead
  UrlsLastAndAreShared
CHECK_DEADLOCK FALSE
