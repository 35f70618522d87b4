------------------------- MODULE MCServerLifecycle -------------------------
(* Small instances of ServerLifecycle for TLC: the listener's pool and one *)
(* pool of two workers, which stands for the three that are alike.         *)
EXTENDS ServerLifecycle

CONSTANTS o1, o2, o3, o4, o5, o6

ThreeObjects == {o1, o2, o3}
FourObjects == {o1, o2, o3, o4}
SixObjects == {o1, o2, o3, o4, o5, o6}

TwoPools == <<"listener", "reader">>
OneAndTwo == [p \in {"listener", "reader"} |-> IF p = "listener" THEN 1 ELSE 2]
OneAndOne == [p \in {"listener", "reader"} |-> 1]

(* An address, one with a number too large, and a text that is no address. *)
Named == <<127, -1, 0, -1, 0, -1, 1>>
TooLarge == <<127, -1, 0, -1, 0, -1, 256>>
Malformed == <<127, -1, -2>>

MCSettings ==
  {[bindIp |-> Named, logged |-> TRUE], [bindIp |-> Malformed, logged |-> TRUE],
   [bindIp |-> Malformed, logged |-> FALSE]}

(* An address that is nobody's, so that bind may fail whenever it is tried.*)
WithTooLarge ==
  {[bindIp |-> TooLarge, logged |-> l] : l \in BOOLEAN}
=============================================================================
