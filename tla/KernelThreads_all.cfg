SPECIFICATION ThreadsSpec
CONSTANTS
  Users = {u1, u2}
  CanFail = TRUE
  None = none
  Works = {w1}
  Flushers = {f1, f2}
  MaxQueued = 2
  IntRange = 6
  FirstSeq = 5
  CanStop = TRUE
  NoWork = nothing
INVARIANTS NoLateAccess StopReturnsResult WakeUpsPending FlushComplete
PROPERTIES CallsReturn WorkerAnswers
CHECK_DEADLOCK FALSE
