SPECIFICATION Spec
CONSTANTS
  f1 = f1
  f2 = f2
  r1 = r1
  r2 = r2
  NoRequest = NoRequest
  Fds <- MCFds
  Requests <- MCTwoRequests
  MaxBatch = 2
  Platforms = {"epoll", "kqueue"}
  Disciplines = {TRUE, FALSE}
INVARIANTS
  TypeOK
  CalledAtMostOnce
  TimerOnlyIfAsked
  RightDirection
  QueuedIsWatched
  NothingLeftBehind
  SpentIsBeingHandled
PROPERTIES
  TimedIsCalled
