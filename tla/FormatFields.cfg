CONSTANTS
  Modulus = 65536
  MaxHeight = 3
  Arity = 1
  WordLists <- Lists
  Strings <- Lookups
  Expectations <- Trees
  Arguments <- Values
  Members <- MemberNames
  Bad = Bad
  Subjects = {"format"}
  MaxLetters = 1
  MaxWords = 1
  MaxSegments = 2
  MaxArgs = 2
SPECIFICATION Spec
INVARIANT FieldsNameTheirArguments
CHECK_DEADLOCK FALSE
