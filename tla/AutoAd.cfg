\* A component that loads up to three times; a fair timer.
SPECIFICATION FairSpec
CONSTANTS
  RefreshTime <- Times
  MaxLoads = 3
  MaxTimers = 4
  MaxAnswers = 2
INVARIANT OneTimer
PROPERTIES ToldOneWay LoadsAgain
CHECK_DEADLOCK FALSE
