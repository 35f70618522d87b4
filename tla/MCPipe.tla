------------------------------- MODULE MCPipe -------------------------------
(* Small instances of Pipe for TLC.                                        *)
EXTENDS Pipe, TLC

CONSTANTS g1, g2, p1, p2, e1, e2, e3

TwoGetters == {g1, g2}
TwoPushers == {p1, p2}
TimedPusher == {p2}
TwoElements == {e1, e2}
ThreeElements == {e1, e2, e3}

(* Getters and elements are interchangeable, and the run that uses this    *)
(* checks invariants and steps only.                                       *)
Symmetry == Permutations(TwoGetters) \cup Permutations(ThreeElements)
=============================================================================
