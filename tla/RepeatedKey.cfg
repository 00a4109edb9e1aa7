SPECIFICATION Spec
CONSTANTS
  students = students
  courses = courses
  Tables = {students, courses}
  IdTables = {students, courses}
  StudentTables = {students}
  Texts <- MCTexts
  MaxId = 6
  IdRank <- MCIdRank
  MaxRows = 5
  InitFiles <- MCBadRowFiles
  Statements <- MCFewStatements
  Faults = {}
  NaN = NaN
  Absent = Absent
  Torn = Torn
  NoTable = NoTable
  NoStmt = NoStmt
INVARIANTS ConfirmedKeysAreNew
