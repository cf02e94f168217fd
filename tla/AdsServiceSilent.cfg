\* One message; the exceptions outside the service's function.
SPECIFICATION Spec
CONSTANTS
  r1 = r1
  r2 = r2
  u1 = u1
  u2 = u2
  Request = {r1, r2}
  Uid = {u1, u2}
  UidOf <- Callers
  Message <- Messages
  Ad <- AdsOrNull
  RespData <- Answers
  Tree <- Trees
  None = None
  MaxAnswers = 1
INVARIANT InternalErrorReported
CHECK_DEADLOCK FALSE
