SPECIFICATION FairSpec
CONSTANTS
  a = a
  b = b
  None = None
  Dir <- Dirs
  View = {v1}
  Worker = {w1, w2}
  Start = a
  Armable <- AnyWatch
  Remote <- OnlyB
  Quiet = 1
  Cap = 2
  MaxChanges = 1
  MaxMoves = 1
INVARIANT MonitorTypeOK NoLostWakeup
PROPERTY   Debounced ThreadsEnd
CHECK_DEADLOCK FALSE
