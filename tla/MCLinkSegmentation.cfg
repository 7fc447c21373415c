SPECIFICATION DataSpec
CONSTANTS
  k1 = k1
  NoKey = NoKey
  k2 = k2
  HeaderSize = 1
  TagSize = 1
  MaxRecord = 1
  SeqMax = 1
  LineMax = 3
  HandshakeTimeout = 1
  MillisMod = 2
  PeerUnits = {}
  MaxConns = 1
  AuthKeys = {k1}
  WriteSizes = {}
  HostReadSizes = {1}
  MaxAccepted = 0
  DropBytesMax = 1
  DropWritesMax = 1
  ReadSizes = {1}
  MaxInbox = 3
  HostWriteSizes = {1}
  MaxHostSent = 1
PROPERTIES RecordsAccepted
