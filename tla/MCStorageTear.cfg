SPECIFICATION Spec
CONSTANTS
  students = students
  courses = courses
  Tables = {students, courses}
  IdTables = {students, courses}
  StudentTables = {students}
  Texts <- MCFewTexts
  MaxId = 2
  IdRank <- MCIdRank
  MaxRows = 2
  InitFiles <- MCTornFiles
  Statements <- MCFewStatements
  Faults = {"tear", "crash"}
  NaN = NaN
  Absent = Absent
  Torn = Torn
  NoTable = NoTable
  NoStmt = NoStmt
PROPERTIES AppendOnly NoRowLost
