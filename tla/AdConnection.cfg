\* Three components share the connection; one renders itself, and the two
\* others, which are alike, are main components of the ad.
SPECIFICATION Spec
CONSTANTS
  Component = {c1, c2, c3}
  Ad = {a1}
  AdOf <- OneAd
  MainType = {c2, c3}
  SelfRendering = {c1}
  Sensor = {c1}
  ReplyCode <- Codes
  MaxLinks = 2
  MaxUses = 2
SYMMETRY MainAlike
ACTION_CONSTRAINT UsesAlone
INVARIANTS EventsAccounted NoStaleRemote ShownAfterInit OneMainUntilOneLeaves
CHECK_DEADLOCK FALSE
