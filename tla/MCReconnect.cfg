SPECIFICATION FairSpec
CONSTANTS
  Grace = 2
  MaxConns = 3
  MaxBreaks = 2
  NoProc = NoProc
INVARIANTS NoSocketLeak ClosedForGood
PROPERTIES WorkingConnKept FirstOutageGrace ReconnectEnds ImplementsBoardConnection
