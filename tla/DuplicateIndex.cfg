SPECIFICATION Spec
CONSTANTS
  Tickets = {1, 2}
  Slices = {"2023", "2024"}
  NoSlice = NoSlice
  Redactors = {r1, r2}
  BatchSize = 1
  Limits = {1}
  PassLimits = {}
  MaxChanges = 2
  Analyzers = {1, 2}
  Texts = {1, 2}
  Facts = {1, 2}
  Versions = {1, 2}
  Rotated = {2}
  District <- MCDistrict
  Window <- MCWindow
  Salt <- MCSalt
  Identities <- MCIdentities
  Bands <- MCBands
  Alike <- MCAlike
  Cap = 3
  AnchorCount = 1
  Origins <- MCOrigins
  Filings <- MCFilings
  Redact <- MCRedact
  Earlier <- MCEarlier
  Before <- MCBefore
  Legacy = {1}
  Scopes <- AnyScope
SYMMETRY TwoRedactors
INVARIANTS TypeOK ConsumerSound GroupsWhole
PROPERTIES CompletedRunCertifies RewrittenByRefresh
CHECK_DEADLOCK FALSE
