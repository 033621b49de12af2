CONSTANTS
  self      = self
  master1   = master1
  master2   = master2
  Ids      <- MCIds
  Self      = self
  Domains  <- MCDomains
  m_nDomain = 0
  Multicast = FALSE
  None      = None
  MaxClocks = 4

SPECIFICATION Spec

INVARIANT TypeOK
INVARIANT MasterIsAnnounced
 
INVARIANT ClocksAreReported
 
PROPERTY  CallsReturn

\* Restart runs the context in the caller, and clocks are bounded.
CHECK_DEADLOCK FALSE
