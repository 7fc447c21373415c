SPECIFICATION Spec
CONSTANTS
  Cycles = 1
  Bytes = 2
  Buffer = 2
  MaxConns = 2
INVARIANTS EchoOfThisAttempt
