SPECIFICATION Spec
CONSTANTS
  NoField = NoField
  StaticTable <- MCStaticTable
  HeaderFields <- MCFields
  Fields <- MCFields
  Secrets <- MCSecrets
  Plain <- MCPlain
  Capacity = 70
  Capacities = {0, 34, 70, 90, 100}
  MaxHeaderSize = 10
  StringPrefix = 2
  IndexPrefix = 4
  Foreign <- MCForeign
INVARIANTS
  EncodedIsAccepted
