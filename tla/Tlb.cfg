CONSTANTS
  ENTRIES = 2
  PtrSize = 2
  Leaves <- MC_Leaves
  FirstTables <- MC_FirstTables
  Requests <- MC_Requests
  Fences <- MC_Fences
  MaxEdits = 2
SPECIFICATION Spec
INVARIANTS
  TypeOK
  NoStaleTranslation
  KeepsRecent
PROPERTIES
  RetryIsAnswered
