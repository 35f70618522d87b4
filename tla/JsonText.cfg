\* Every text of three alphabets: for numbers, for lines, for containers.
SPECIFICATION Spec
CONSTANTS
  Names = {"a", "b"}
  Words = {"null"}
  DigitValue <- MCDigitValue
  MaxUnsigned = 15
  MinInteger <- MCMinInteger
  MaxExponent = 3
  Bounds <- MCBounds
INVARIANTS
  AcceptsOnlyJson
  GoodTextIsRead
  StacksAgree
CHECK_DEADLOCK FALSE
