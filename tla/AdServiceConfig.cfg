\* Three worker threads; the file may be replaced by any other at any time.
SPECIFICATION FairSpec
CONSTANTS
  Thread = {t1, t2, t3}
  Nobody = Nobody
  ConfigFile <- Files
  ServiceName = {"provider", "AdsCoreService", "AdsApiService", "other", "OtherService"}
INVARIANT CopyIsComplete
PROPERTIES ReadsAtOnce EveryThreadCopies
