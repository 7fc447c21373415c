SPECIFICATION Spec
CONSTANTS
  Grace = 2
  MaxConns = 3
  MaxBreaks = 2
  NoProc = NoProc
PROPERTIES GraceHonoured
