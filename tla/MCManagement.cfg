CONSTANTS
  None      = None
  Second    = 1000
  MaxDescription = 8
  Self     <- MCSelf
  Ports    <- MCPorts
  Master   <- MCMaster
  m_nDomain = 0
  Domains   = {0, 1}
  Multicast = TRUE
  SequenceIds = {300}
  Hops      = {3}
  Targets  <- MCTargets
  Numbers   = {5, 200}
  Texts    <- MCTexts
  FlagSets <- MCFlagSets
  Times     = {1500}
  Settings <- MCSettings
  Thresholds = {5, 70000}
  Announces <- MCAnnounces
  Devices   = {1, 2}
  Errors    = {3}
  Extra     = {90}
  Garbage   = {85}

SPECIFICATION Spec

INVARIANT TypeOK
INVARIANT SettingsComeBack
 
INVARIANT LengthsAgree
INVARIANT SetsReachOnePort
 
