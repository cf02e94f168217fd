\* A load of either kind and a body request, the provider answering at most
\* once: through the handler of the service extension, or in its own way.
SPECIFICATION FairSystemSpec
CONSTANTS
  single = single
  multi = multi
  body = body
  Request = {single, multi, body}
  Kind <- KindOf
  KitCode = {200, 401, 801, 100001, 100003}
  MaxReplies = 1
  ConfigFile <- UsableFiles
  ServiceName = {"provider", "AdsCoreService", "AdsApiService"}
  u1 = u1
  u2 = u2
  Uid = {u1, u2}
  UidOf <- Callers
  Message <- Messages
  Ad <- Ads
  RespData <- Answers
  None = None
  Parsable <- ParsableReplies
ACTION_CONSTRAINT MultiAlone
INVARIANTS OneVerdict VerdictHasCause SilenceIsExplained ToldWhatServiceDid
PROPERTY KeepsPromise
PROPERTY EveryCauseIsReported
CHECK_DEADLOCK FALSE
