\* Three main components of one ad, none of which renders itself.
SPECIFICATION Spec
CONSTANTS
  Component = {c1, c2, c3}
  Ad = {a1}
  AdOf <- OneAd
  MainType <- Everyone
  SelfRendering <- Nobody
  Sensor <- Nobody
  ReplyCode <- Codes
  MaxLinks = 3
  MaxUses = 0
INVARIANT OneMain
CHECK_DEADLOCK FALSE
