SPECIFICATION Spec
CONSTANTS
  single = single
  multi = multi
  body = body
  Request = {single}
  Kind <- KindOf
  KitCode = {200, 401}
  MaxReplies = 1
  ConfigFile <- Files
  ServiceName = {"provider", "AdsCoreService", "AdsApiService"}
INVARIANT DocumentedConfigIsUsed
CHECK_DEADLOCK FALSE
