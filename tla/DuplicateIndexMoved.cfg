SPECIFICATION Spec
CONSTANTS
  Tickets = {1, 2}
  Slices = {"2023", "2024", "2025"}
  NoSlice = NoSlice
  Redactors = {}
  BatchSize = 1
  Limits = {}
  PassLimits = {}
  MaxChanges = 1
  Analyzers = {1}
  Texts = {1}
  Facts = {1}
  Versions = {1, 2}
  Rotated = {1, 2}
  District <- MCDistrict
  Window <- MCWindow
  Salt <- MCSalt
  Identities <- MCIdentities
  Bands <- MCBands
  Alike <- MCAlike
  Cap = 3
  AnchorCount = 1
  Origins <- MCOrigins
  Filings <- MovedFilings
  Redact <- MCRedact
  Earlier <- BothEarlier
  Before <- BothBefore
  Legacy = {}
  Scopes <- AnyScope
INVARIANTS AcceptedGroupsWhole
CHECK_DEADLOCK FALSE
