\* A load, or a call of getAdRequestBody, which the provider may answer
\* three times; fair threads.
SPECIFICATION FairSpec
CONSTANTS
  Request = {r1, r2}
  Body = {r2}
  Found <- Elements
  KitCode = {200, 100003}
  ConnectCode = {2097152}
  MaxReplies = 3
  ServiceName = {"provider", "AdsCoreService", "AdsApiService"}
ACTION_CONSTRAINT OneIsMade
INVARIANTS EachCauseToldOnce VerdictHasCause
PROPERTIES SettledOnce BodyKeepsPromise
PROPERTY EndIsReported
CHECK_DEADLOCK FALSE
