CONSTANTS
  Keys <- MCKeys
  OtherPaths = {"other"}
  TypeOf <- MCTypeOf
  Allowed <- MCAllowed
  ProcessType = "process.type"
  ServerType = 1
  Port = "port"
  PortModulus = 4
  Option = "-f"
  Help = "-h"
  Blank = ""
  Words = {"-F", " -h"}
  Trim <- MCTrim
  ToLower <- MCToLower
  MaxTokens = 4
  BraceCopies = TRUE
  Wrapped <- MCWrapped
  Values <- MCValues
  MaxLeaves = 3
SPECIFICATION FairSpec
CHECK_DEADLOCK FALSE
INVARIANTS
  OnlyGoodTextServes
  AbortsOnlyOnAccepted
  ReadsTheNamedFile
PROPERTIES
  GoodTextIsServed
