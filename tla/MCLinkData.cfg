SPECIFICATION DataSpec
CONSTANTS
  k1 = k1
  NoKey = NoKey
  k2 = k2
  HeaderSize = 1
  TagSize = 1
  MaxRecord = 2
  SeqMax = 2
  LineMax = 3
  HandshakeTimeout = 1
  MillisMod = 2
  PeerUnits = {}
  MaxConns = 1
  AuthKeys = {k1}
  WriteSizes = {3}
  HostReadSizes = {1}
  MaxAccepted = 5
  DropBytesMax = 2
  DropWritesMax = 1
  ReadSizes = {1}
  MaxInbox = 4
  HostWriteSizes = {1, 2}
  MaxHostSent = 2
INVARIANTS StreamIntegrity AcceptedBytesOnce HostReadsPrefix DeviceReadsPrefix BuffersFit
PROPERTIES ShortWriteCounted OnlySpoiledRefused
