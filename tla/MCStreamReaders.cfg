SPECIFICATION Spec
CONSTANTS
  Boundary <- MCBoundary
  Forms <- MCForms
  PlainBodies <- MCPlainBodies
  Conversations <- MCConversations
  SmallPayload = 3
  Max16 = 4
  MaxSends = 3
INVARIANTS
  BodyAsSent
  FramesAsSent
  MessagesAsAsked
PROPERTIES
  EverySessionEnds
CHECK_DEADLOCK FALSE
