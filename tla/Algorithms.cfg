CONSTANTS
  Modulus = 65536
  MaxHeight = 3
  Arity = 1
  WordLists <- Lists
  Strings <- Lookups
  Expectations <- Trees
  Arguments <- Values
  Members <- MemberNames
  Bad = Bad
  Subjects = {"trie", "format", "expect"}
  MaxLetters = 3
  MaxWords = 3
  MaxSegments = 3
  MaxArgs = 3
SPECIFICATION Spec
INVARIANTS NeverOverreads LookupExact FormatExact ChainsMeanConjunctions RefusalExplained
CHECK_DEADLOCK FALSE
