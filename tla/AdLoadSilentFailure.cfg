SPECIFICATION FairSpec
CONSTANTS
  single = single
  multi = multi
  body = body
  Request = {single}
  Kind <- KindOf
  KitCode = {200, 401}
  MaxReplies = 1
  ConfigFile <- OneFile
  ServiceName = {"provider", "AdsCoreService", "AdsApiService"}
PROPERTY EveryFailureReported
CHECK_DEADLOCK FALSE
