SPECIFICATION Spec
CONSTANTS
  students = students
  courses = courses
  Tables = {students, courses}
  IdTables = {students, courses}
  StudentTables = {students}
  Texts <- MCTexts
  MaxId = 6
  IdRank <- MCIdRank
  MaxRows = 3
  InitFiles <- MCValidFiles
  Statements <- MCFewStatements
  Faults = {"crash"}
  NaN = NaN
  Absent = Absent
  Torn = Torn
  NoTable = NoTable
  NoStmt = NoStmt
INVARIANTS MigrationKeepsRows
