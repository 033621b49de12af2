CONSTANTS
  SampleSize    = 2
  HistorySize   = 2
  Offsets      <- MCOffsets
  Delays       <- MCDelays
  Second        = 4
  CrashLimit    = 2
  MinSampleSize = 3

SPECIFICATION Spec

INVARIANT SyncTypeOK
INVARIANT CrashOnFreshSample
INVARIANT StepWithinMeasured
PROPERTY  LockIsFinal
PROPERTY  WaitEnds
