SPECIFICATION WSpec
CONSTANTS
  w1 = w1
  w2 = w2
  w3 = w3
  a = a
  b = b
  NoTask = NoTask
  Writers <- MCWriters
  Tasks <- MCTasks
  Length = 2
  Workers <- MCThreeWorkers
  MaxRounds = 2
INVARIANTS
  TypeOK
  NoClosureBehindSleeper
  RunsOnce
  SleepingWriterIsWatched
  TrueMeansSent
PROPERTIES
  Refinement
  DispatchedRuns
  WritesReturn
