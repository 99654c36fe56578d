SPECIFICATION Spec
CONSTANTS
  Scripts <- MCScripts
  ReadSize = 3
  ChunkSize = 2
  MaxBody = 4
INVARIANTS
  RequestAsSent
  ResponseIsFramed
  NoShortResponse
PROPERTIES
  RequestAnswered
CHECK_DEADLOCK FALSE
