CONSTANTS
  w1 = w1
  t1 = t1
  t2 = t2
  e1 = e1
  e2 = e2
  e3 = e3
  NULL = NULL
  Watches <- MCWatches
  Timers <- MCTimers
  EventIds <- MCEventIds
SPECIFICATION PollSpec
CHECK_DEADLOCK FALSE
INVARIANT PollTypeOK
INVARIANT NoDispatchAfterFree
INVARIANT OneEventPerWatch
PROPERTY ImmediateTimerFires
