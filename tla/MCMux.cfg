SPECIFICATION Spec
CONSTANTS
  Net = Net
  Serial = Serial
  Others = {a}
  MaxStreams = 3
  MaxIn = 1
  MaxPos = 2
  SketchKeys = {"none", "valid", "invalid"}
  Defaults = {"present", "disabled"}
INVARIANTS TypeOK NoStreamRepeats TrustDomain
PROPERTIES EveryStreamRead
