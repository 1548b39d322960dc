CONSTANTS
  a = a
  b = b
  Ids <- MCIds
  NoId = NoId
  MaxMessages = 4
  MaxCalls = 2
SPECIFICATION Spec
INVARIANTS
  TypeOK
  RepairedIsPaired
  KeepsMessages
  SyntheticAnswersACall
  AddsOnlyWhatIsMissing
  RepairIsStable
CHECK_DEADLOCK FALSE
