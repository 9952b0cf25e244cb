SPECIFICATION Spec
CONSTANTS
  Process = {p1, p2, p3}
  Binary <- MCBinary
  Embedded <- MCEmbedded
SYMMETRY Processes
INVARIANTS AppliedOnce NoCollision ServesCompleteSchema
