SPECIFICATION Spec
CONSTANTS
  Tickets = {1, 2}
  Slices = {"2023", "2024"}
  NoSlice = NoSlice
  Redactors = {}
  BatchSize = 1
  Limits = {1}
  PassLimits = {}
  MaxChanges = 0
  Analyzers = {1, 2}
  Texts = {1, 2}
  Facts = {1, 2}
  Versions = {1, 2}
  Rotated = {2}
  District <- MCDistrict
  Window <- MCWindow
  Salt <- MCSalt
  Identities <- NoIdentities
  Bands <- MCBands
  Alike <- MCAlike
  Cap = 3
  AnchorCount = 1
  Origins <- MCOrigins
  Filings <- MCFilings
  Redact <- MCRedact
  Earlier <- BothEarlier
  Before <- BothBefore
  Legacy = {2}
  Scopes <- SliceScope
INVARIANTS SliceRunsFindText
CHECK_DEADLOCK FALSE
