CONSTANTS
  None     = None
  Waits    = Waits
  Paths    = {"ptpsync.ini"}
  Words   <- MCWords
  Texts   <- MCTexts
  Names   <- MCNames
  Keys    <- MCKeys
  Values  <- MCValues
  Lower   <- MCLower
  NumberOf <- MCNumberOf
  MaxEntries = 2

SPECIFICATION Spec

INVARIANT TypeOK
INVARIANT LastValueWins
INVARIANT SavedIsRead
INVARIANT DaemonRunsAsSaved
