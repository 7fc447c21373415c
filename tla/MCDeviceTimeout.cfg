SPECIFICATION Spec
CONSTANTS
  k1 = k1
  NoKey = NoKey
  MaxConns = 2
  HeaderSize = 1
  TagSize = 1
  MaxRecord = 1
  SeqMax = 2
  LineMax = 3
  HandshakeTimeout = 2
  MillisMod = 4
  AuthKeys = {k1}
  DropBytesMax = 1
  DropWritesMax = 1
  WriteSizes = {}
  ReadSizes = {}
  MaxAccepted = 0
  MaxInbox = 1
  PeerUnits <- MCHandshakeUnits
PROPERTIES DocumentedTimeout
