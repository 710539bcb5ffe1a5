SPECIFICATION FairSpec
CONSTANTS
  NoHandler = NoHandler
  VoidHandler = VoidHandler
  ValueHandler = ValueHandler
  NoMember = NoMember
  Void = Void
  NoCall = NoCall
  NoMessage = NoMessage
  Declarations <- MCDeclarations
  ServiceSize = 3
  MaxPolicies = 3
  Capacity = 1
  MaxCalls = 2
INVARIANTS TypeOK NumberingAgrees ResponseMatchesCall
PROPERTIES ImplementsRemoteObject EveryCallReturns KillEndsServer
CHECK_DEADLOCK FALSE
