SPECIFICATION PortalSpec
CONSTANTS
  Callers = {"main", "event"}
  Starters = {"main", "event"}
  Stoppers = {"first"}
  Fds = {1, 2, 3}
  BufferSize = 15
  MaxFields = 2
  KeyLen = 2
  ValLen = 3
CONSTANTS
  Requests <- MCAllRequests
  Queries <- MCQueries
CONSTRAINT Followed
INVARIANTS
  PortalTypeOK
  ServerStaysUp
  DnsStaysUp
  NoLeak
  OwnSockets
  Answered
  FormAsSent
  AnswerIsWhole
PROPERTIES
  CutOnlyWhenLate
  ClientIsDone
  DnsStops
