CONSTANTS
  Keys <- MCKeys
  OtherPaths = {"other"}
  TypeOf <- MCTypeOf
  Allowed <- MCAllowed
  ProcessType = "process.type"
  ServerType = 1
  Port = "port"
  PortModulus = 4
  Option = "-f"
  Help = "-h"
  Blank = ""
  Words = {"x"}
  Trim <- MCTrim
  ToLower <- MCToLower
  MaxTokens = 2
  BraceCopies = TRUE
  Wrapped <- MCWrapped
  Values <- MCValues
  MaxLeaves = 3
SPECIFICATION Spec
CHECK_DEADLOCK FALSE
INVARIANT
  ConfiguredPortIsBound
