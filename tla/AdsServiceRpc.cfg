\* Messages of two callers, of every kind, the service answers twice at most,
\* or once with what toJSON cannot write.
SPECIFICATION Spec
CONSTANTS
  r1 = r1
  r2 = r2
  u1 = u1
  u2 = u2
  Request = {r1, r2}
  Uid = {u1, u2}
  UidOf <- Callers
  Message <- Messages
  Ad <- AdsOrNull
  RespData <- Answers
  Tree <- Trees
  None = None
  MaxAnswers = 2
ACTION_CONSTRAINT UnreadableAlone
INVARIANTS OwnPackage RefusedOrAnswered SuccessHasAds ReplyParses
CHECK_DEADLOCK FALSE
