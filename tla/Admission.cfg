SPECIFICATION Spec
CONSTANTS
  d1 = d1
  d2 = d2
  d3 = d3
  d4 = d4
  r1 = r1
  r2 = r2
  c1 = c1
  c2 = c2
  course = course
  Documents = {d1, d2, d3, d4}
  Legacy = {d1, d2}
  Requests = {r1, r2}
  Contents = {c1, c2}
  Courses = {course}
  NoContent = NoContent
  NoDocument = NoDocument
  CourseOf <- MCCourseOf
  PagesOf <- MCPagesOf
  MaxPagesPerDocument = 2
  MaxChunksPerDocument = 3
  ChunkReservationPerPage = 2
  MaxPages = 3
  MaxChunks = 5
  MaxPending = 1
  MaxDocuments = 2
SYMMETRY Symmetry
INVARIANTS
  OneRowPerContent
  SourceKept
  NothingLeftBehind
PROPERTIES
  BudgetsKept
CHECK_DEADLOCK FALSE
