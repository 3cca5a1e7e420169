SPECIFICATION FairSpec
CONSTANTS
  Clients = {c1, c2}
  Fds = {3, 4, 5}
  Lines = {"text"}
  NUM_THREADS_AVAL = 1
  CanDie = FALSE
  CanFailCreate = FALSE
  None = None
INVARIANT OwnConnection
CHECK_DEADLOCK FALSE
