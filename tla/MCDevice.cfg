SPECIFICATION FairSpec
CONSTANTS
  k1 = k1
  NoKey = NoKey
  MaxConns = 2
  HeaderSize = 1
  TagSize = 1
  MaxRecord = 1
  SeqMax = 1
  LineMax = 3
  HandshakeTimeout = 1
  MillisMod = 3
  AuthKeys = {k1}
  DropBytesMax = 1
  DropWritesMax = 1
  WriteSizes = {1}
  ReadSizes = {0}
  MaxAccepted = 1
  MaxInbox = 1
  PeerUnits <- MCHandshakeUnits
INVARIANTS NoConnectionLeak
PROPERTIES HandshakeResolves
