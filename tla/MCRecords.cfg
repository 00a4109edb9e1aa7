SPECIFICATION Spec
CONSTANTS
  WordSize = 4
  MaxFields = 2
  MaxFieldBytes = 3
  TextFiles <- MCTextFiles
  NewRows <- MCNewRows
  MaxBytes = 30
  MaxTears = 1
  MaxStray = 1
INVARIANTS TypeOK RowsComeBack OffsetsHold GuessIsRight RefusedForCause
