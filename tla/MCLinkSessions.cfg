SPECIFICATION LinkSpec
CONSTANTS
  k1 = k1
  NoKey = NoKey
  k2 = k2
  HeaderSize = 1
  TagSize = 1
  MaxRecord = 1
  SeqMax = 1
  LineMax = 3
  HandshakeTimeout = 1
  MillisMod = 2
  DropBytesMax = 1
  DropWritesMax = 1
  PeerUnits = {}
  MaxConns = 2
  AuthKeys = {k1, k2}
  WriteSizes = {1}
  ReadSizes = {}
  MaxAccepted = 2
  MaxInbox = 2
  HostWriteSizes = {}
  HostReadSizes = {1}
  MaxHostSent = 0
INVARIANTS AuthCurrent EndsAgree NoDowngrade NonceFresh CleanHandshake HostAcceptsRecords
