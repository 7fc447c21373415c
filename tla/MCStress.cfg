SPECIFICATION Spec
CONSTANTS
  Cycles = 2
  Bytes = 2
  Buffer = 2
  MaxConns = 2
INVARIANTS WriterAlone MismatchExplained
PROPERTIES TransferEnds
