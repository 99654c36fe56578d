SPECIFICATION TSpec
CONSTANTS
  f1 = f1
  r1 = r1
  r2 = r2
  r3 = r3
  r4 = r4
  NoRequest = NoRequest
  Fds <- MCFds
  Socket = f1
  MaxBatch = 2
  SendBuf = 1
  Length = 2
  Requests <- MCRequests
  Platforms = {"epoll", "kqueue"}
  Disciplines = {TRUE}
  Count = 2
INVARIANTS
  ReadIsExact
  WriteIsExact
  WaiterIsRegistered
PROPERTIES
  ReadAnswered
  WriteAnswered
CHECK_DEADLOCK FALSE
