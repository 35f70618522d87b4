CONSTANTS
  Keys <- MCKeys
  OtherPaths = {"other"}
  TypeOf <- MCTypeOf
  Allowed <- MCAllowed
  ProcessType = "process.type"
  ServerType = 1
  Port = "port"
  PortModulus = 4
  Option = "-f"
  Help = "-h"
  Blank = ""
  Words = {"x"}
  Trim <- MCTrim
  ToLower <- MCToLower
  MaxTokens = 2
  BraceCopies = FALSE
  Wrapped <- MCWrapped
  Values <- MCValues
  MaxLeaves = 3
SPECIFICATION FairSpec
CHECK_DEADLOCK FALSE
INVARIANTS
  TypeOK
  OnlyGoodTextServes
  AbortsOnlyOnAccepted
PROPERTY
  GoodTextIsServed
