SPECIFICATION FairSpec
CONSTANTS
  Clients = {c1, c2}
  Fds = {3, 4, 5}
  Lines = {"text", "empty"}
  NUM_THREADS_AVAL = 1
  CanDie = TRUE
  CanFailCreate = TRUE
  None = None
INVARIANT PlacesCounted
PROPERTIES OneInFlight ClientsServed
CHECK_DEADLOCK FALSE
