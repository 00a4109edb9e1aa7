SPECIFICATION Spec
CONSTRAINT SoonMadeAnew
CONSTANTS
  MaxKeys = 3
  Keys = {1, 2, 3, 4, 5, 6, 7, 8, 9, 10}
  Entries <- MCEntries
  Addresses = {1, 2, 3, 4, 5, 6, 7, 8, 9}
  Null = Null
  Free = Free
  NoArg = NoArg
  AllocMayFail = TRUE
INVARIANTS
  TypeOK FreeIsSafe FindAgreesWithChain RangeScansAreExact Balanced NothingLeaks
PROPERTIES ImplementsMap ChainForgetsNothing
