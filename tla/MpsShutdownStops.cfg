SPECIFICATION FairSpec
CONSTANTS
  Callers = {c1}
  c1 = c1
  ScanThread = scanner
  MainThread = main
  FpsValues <- ContinuousOrTwo
  MaxFrame = 3
PROPERTY ShutdownStopsScanThread
