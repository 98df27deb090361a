SPECIFICATION Spec
CONSTANTS
  MaxPattern = 3
  MaxName = 4
  Sections <- MCSections
  Asterisked <- MCAsterisked
  Patterns <- MCPatterns
  Names <- MCNames
INVARIANTS
  TypeOK
  LeavesAreSplits
  MatchIsCorrect
CHECK_DEADLOCK FALSE
