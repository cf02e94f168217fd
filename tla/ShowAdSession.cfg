\* One ad shown from JavaScript and one from CJ; a fair UI thread.
SPECIFICATION FairSpec
CONSTANTS
  Show = {s1, s2}
  Cj = {s2}
  File <- Files
INVARIANT ClosedOnceHeard
PROPERTIES ClosedByOwnCallback PageIsClosed
CHECK_DEADLOCK FALSE
