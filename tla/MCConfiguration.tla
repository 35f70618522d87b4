--------------------------- MODULE MCConfiguration ---------------------------
(***************************************************************************)
(* Instances of Configuration: two keys of different types (the type of    *)
(* process and the port), a path nobody declared, and a command line of up *)
(* to MaxTokens tokens.  A file of MaxLeaves = 3 leaves can be complete    *)
(* and say one thing twice, or say one thing too many.                     *)
(***************************************************************************)
EXTENDS Configuration

MCKeys == {"process.type", "port"}
MCTypeOf == [k \in MCKeys |-> IF k = "port" THEN "integer" ELSE "string"]

(* 1 is "server" and 2 is "client", ports are 1..6 over a modulus of 4.    *)
MCAllowed == [k \in MCKeys |-> IF k = "port" THEN 1..6 ELSE {1, 2}]

(* Values each key accepts and values it does not, of its own type and of  *)
(* others, and one of a type that is no type of a setting.                 *)
MCValues == [type : {"string"}, datum : {1, 2, 3}]
              \union [type : {"integer"}, datum : {0, 1, 5}]
              \union [type : {"boolean"}, datum : {1}]
              \union [type : {"null"}, datum : {1}]

(* A padded -h is -h among other tokens, and alone it is not.              *)
MCTrim == [t \in Tokens |-> IF t = " -h" THEN "-h" ELSE t]

MCToLower == [t \in Tokens |-> IF t = "-F" THEN "-f" ELSE t]

MCWrapped == [p \in MCKeys \union {"other"} |-> "0." \o p]

=============================================================================
