CONSTANTS
  get       = get
  Messages <- MCMessages
  Rates     = {0, 1}
  kNever    = 127
  ConfiguredRate = 0
  Gap      <- MCGap
  SeqIds    = 2
  TimestampEnabled = TRUE
  Unset     = Unset
  Management = Management
  MaxMessages = 2
  MaxSends  = 2
  MaxStamps = 2

SPECIFICATION Spec

INVARIANT TypeOK
INVARIANT OwnTimestamp
PROPERTY  AcceptedIsSent
PROPERTY  RequestsKeepComing
