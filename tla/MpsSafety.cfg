SPECIFICATION Spec
CONSTANTS
  Callers = {c1, c2}
  c1 = c1
  c2 = c2
  ScanThread = scanner
  MainThread = main
  FpsValues <- ContinuousOrTwo
  MaxFrame = 3
SYMMETRY CallersAlike
INVARIANT TypeOK
INVARIANT AtMostOneLateFrame
INVARIANT StatusIsTruthful
INVARIANT FiniteScanBounded
PROPERTY SerialStepsAreAtomic
