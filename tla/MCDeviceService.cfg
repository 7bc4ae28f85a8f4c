SPECIFICATION Spec
CONSTANTS
  Clients = {c1, c2}
  Main = Main
  Shapes <- MCShapes
  Killable = {c1}
  Buffer = 2
  MaxFd = 4
  Backlog = 2
  NULL = NULL
CHECK_DEADLOCK FALSE
INVARIANT TypeOK
INVARIANT DescriptorsOwned
INVARIANT AnswersReachAsker
PROPERTY ComesToRest
