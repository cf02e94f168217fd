\* One component whose reconnections overlap, a fair thread and provider; and
\* an extension that draws its ad, while there are two connections at most.
SPECIFICATION FairComponentSpec
CONSTANTS
  Component = {c1}
  Ad = {a1}
  AdOf <- OneAd
  MainType <- Nobody
  SelfRendering <- Everyone
  Sensor <- Nobody
  ReplyCode <- Codes
  MaxLinks = 3
  MaxUses = 1
  Watched = c1
ACTION_CONSTRAINT TwoConnections
INVARIANTS QueueIsServed RemoteSeesArea
PROPERTY LeavingEnds
CHECK_DEADLOCK FALSE
