CONSTANTS
  a = a
  b = b
  i1 = i1
  i2 = i2
  s1 = s1
  Main = Main
  ServerThread = ServerThread
  Server = Server
  MainId = MainId
  ServerId = ServerId
  NoId = NoId
  Unnamed = Unnamed
  Clients = {a, b}
  ThreadIds = {MainId, ServerId, i1, i2}
  Sinks = {s1}
  Capacity = 2
  Names <- MCNames
  MaxCalls = 3
  Reporters = {{a, b}}
  Joining = {TRUE}
SPECIFICATION Spec
INVARIANTS TypeOK Attribution OnlyParentsAreLeaked NothingLeftBehind
PROPERTY NoCallAfterDestruction
SYMMETRY Symmetry
CHECK_DEADLOCK FALSE
