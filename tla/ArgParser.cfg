CONSTANTS
  Stamp = 2
  Specs <- SomeSpecs
  CommandLines <- WithProgram
  MaxWords = 4
  NoName = "none"
  NoHandle = NoHandle
SPECIFICATION FairSpec
INVARIANTS TypeOK ReadOnce RunsInOrder OnlyCompleteCalls DefinedBehaviour AcceptsTheGrammar
PROPERTY Terminates
CHECK_DEADLOCK FALSE
