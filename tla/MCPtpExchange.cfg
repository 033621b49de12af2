CONSTANTS
  SampleSize    = 2
  HistorySize   = 2
  SeqSpace      = 2
  Residue      <- MCResidue
  Offset        = 3
  MinDelay      = 1
  MaxDelay      = 2
  MaxTxError    = 1
  MaxTurnaround = 0
  Gaps         <- MCGaps
  MaxTime       = 16

SPECIFICATION Spec

INVARIANT TypeOK
INVARIANT SampleAccuracy
INVARIANT WindowAccuracy
INVARIANT PtpTimeLag
INVARIANT OneSamplePerRequest
INVARIANT StaleNeedsWrap

\* Nothing is sent after MaxTime.
CHECK_DEADLOCK FALSE
