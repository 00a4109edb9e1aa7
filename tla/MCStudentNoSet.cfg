SPECIFICATION Spec
CONSTANTS
  n1 = n1
  n2 = n2
  n3 = n3
  n4 = n4
  n5 = n5
  n6 = n6
  Names = {n1, n2, n3, n4, n5, n6}
  Hash <- MCHash
  InitialCapacity = 2
  AllocMayFail = TRUE
  Nil = Nil
INVARIANTS TypeOK ContainsIsMembership CountIsExact LoadIsLow ProbingEnds
PROPERTIES ImplementsSet
