----------------------------- MODULE MCJsonText -----------------------------
(***************************************************************************)
(* The parser against the grammar, for all texts over small alphabets: two *)
(* digits, one or two names, one word.                                     *)
(***************************************************************************)
EXTENDS JsonText, JsonGrammar

MCDigitValue == [d \in {"0", "1"} |-> IF d = "0" THEN 0 ELSE 1]

MCMinInteger == -8

MCBounds ==
  {[alphabet |-> {"[", ",", "]", "newline", "0", "1", "-", "+", ".", "e"}, length |-> 7],
   [alphabet |-> Marks \cup {"space", "newline", "junk", "null", "a", "b", "1"}, length |-> 7],
   [alphabet |-> Marks \cup {"a", "null"}, length |-> 11]}
-----------------------------------------------------------------------------
(* What is accepted is a JSON text once its lines are joined, and the      *)
(* document says what it says: with the last of members of one name, with  *)
(* integers that fit as integers, and nothing lost or in another place.    *)
AcceptsOnlyJson ==
  verdict = "accepted" =>
    \E d \in Denotations(SelectSeq(text, LAMBDA c : c # "newline")) :
      SameDocument(document, d)

(* A text with line ends where JSON allows white space is understood as    *)
(* it is written: joining its lines changes neither what it says nor       *)
(* whether it is refused, and it is refused nowhere before its first error.*)
GoodTextIsRead ==
  /\ verdict = "refused" =>
       \/ ~IsBeginning(text)
       \/ current = End /\ Denotations(text) = {}
  /\ verdict = "accepted" =>
       \A d \in Denotations(text) : SameDocument(document, d)
=============================================================================
