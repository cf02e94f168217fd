\* One component under a fair thread and provider.
SPECIFICATION FairSpec
CONSTANTS
  Component = {c1}
  Ad = {a1}
  AdOf <- OneAd
  MainType <- Nobody
  SelfRendering <- Everyone
  Sensor <- Nobody
  ReplyCode <- Codes
  MaxLinks = 2
  MaxUses = 2
PROPERTY LoopEnds
CHECK_DEADLOCK FALSE
