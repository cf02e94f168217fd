\* Two threads; the file may be replaced by any other at any time.
SPECIFICATION Spec
CONSTANTS
  Thread = {t1, t2}
  Nobody = Nobody
  ConfigFile <- Files
  ServiceName = {"provider", "AdsCoreService", "AdsApiService", "other", "OtherService"}
INVARIANT ReaderSeesPublished
PROPERTY FrozenOnceReady
