SPECIFICATION MCSpec
CONSTANTS
  r1 = r1
  r2 = r2
  shared = shared
  nokey = nokey
  Conns <- MCConns
  ChannelOf <- MCChannelOf
  Shared = shared
  NoKey = nokey
  Readers <- MCReaders
  CacheTtl = 2
  MaxLag = 1
  MaxVersion = 2
SYMMETRY Symmetry
INVARIANTS NoHalfConnection SecretInUseIsRecent FreshAfterPut
