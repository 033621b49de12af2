CONSTANTS
  SampleSize  = 2
  HistorySize = 4
  Offsets <- MCOffsets
  Delays  <- MCDelays

SPECIFICATION StatsSpec

INVARIANT StatsTypeOK
 
 
INVARIANT RunningTotal
INVARIANT MinMaxReference
INVARIANT OffsetsWithinMeasured
