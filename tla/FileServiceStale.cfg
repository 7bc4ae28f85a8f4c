SPECIFICATION Spec
CONSTANTS
  Clients = {c1, c2}
  Paths <- MCPaths
  Glued = Glued
  Length <- MCLength
  FileSize <- MCFileSize
  Chunk = 2
  Backlog = 2
  NULL = NULL
CHECK_DEADLOCK FALSE
INVARIANT ActsOnRequest
