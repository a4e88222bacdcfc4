SPECIFICATION Spec
CONSTANTS
  Callers = {"main", "event"}
  Fds = {1, 2, 3}
  BufferSize = 4
  Requests = {}
  MaxFields = 1
  KeyLen = 2
  ValLen = 2
INVARIANT ServerIsUp
CHECK_DEADLOCK FALSE
