\* A call of parseAdResponse or one of invokeAsync, answered up to twice.
SPECIFICATION OneShotSpec
CONSTANTS
  Call = {c1, c2}
  Page = {c2}
  Disk <- Disks
  RespCode <- Codes
  MaxReplies = 2
ACTION_CONSTRAINT OneIsMade
INVARIANTS PageFollowsController RefusedIsFinal AnswersHeard SilenceHasCause
CHECK_DEADLOCK FALSE
