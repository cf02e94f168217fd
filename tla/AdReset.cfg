\* Two components and a provider that always succeeds.
SPECIFICATION Spec
CONSTANTS
  Component = {c1, c2}
  Ad = {a1}
  AdOf <- OneAd
  MainType <- Nobody
  SelfRendering <- Everyone
  Sensor <- Nobody
  ReplyCode = {200}
  MaxLinks = 1
  MaxUses = 0
PROPERTY ResetWhenUnused
CHECK_DEADLOCK FALSE
