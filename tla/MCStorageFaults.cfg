SPECIFICATION Spec
CONSTANTS
  students = students
  courses = courses
  Tables = {students, courses}
  IdTables = {students, courses}
  StudentTables = {students}
  Texts <- MCTwoTexts
  MaxId = 1
  IdRank <- MCIdRank
  MaxRows = 2
  InitFiles <- MCMisreadFiles
  Statements <- MCFewStatements
  Faults = {"alloc", "io"}
  NaN = NaN
  Absent = Absent
  Torn = Torn
  NoTable = NoTable
  NoStmt = NoStmt
INVARIANTS TypeOK ActiveTableIsLive ConfirmedInsertIsFound
PROPERTIES NoRowLost
