SPECIFICATION Spec
CONSTANTS
  c1 = c1
  Conns = {c1}
  MaxLives = 2
  MaxFails = 1
  UnitNames = {"PA", "RAW"}
  Short = 4
  Long = 8
  PadBit = 2
  Grain = 32
  FullRate = 128
  OwnRate = 64
  NaN = NaN
  Printable <- PrintableRates
  Keys <- KeysTyped
  Segments <- SegmentsSent
  Budgets <- KeysOrSegments
  Commands <- CommandsSent
  Configs <- ConfigsLeft
  Devices = {16, 32, 64, 8}
  Unknown = 8
  MaxCommands = 4
  MaxFrames = 2
CHECK_DEADLOCK FALSE
INVARIANT EmulatorTypeOK
INVARIANT OldLifeIsOver
INVARIANT RunningServersListen
INVARIANT DiesOnlyInDetach
PROPERTY NoLifeAfterShutdown
PROPERTY StartsAreRetried
PROPERTY RestartCompletes
INVARIANT EachLineOnce
INVARIANT ListReplays
PROPERTY RefusalChangesLittle
INVARIANT FramesAsPromised
INVARIANT PacketsAreWhole
INVARIANT AveragesAreAverages
INVARIANT DiesOnlyOfBadRate
PROPERTY QueuedIsSent
