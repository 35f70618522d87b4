-------------------------- MODULE MCRequestReader --------------------------
(* Small instances of RequestReader for TLC: a header of two bytes, all    *)
(* streams of five bytes and fewer with a NUL or a letter at most twice.   *)
EXTENDS RequestReader, FiniteSets

SmallStreams ==
  UNION {{s \in [1..n -> Classes] :
            Cardinality({i \in 1..n : s[i] # "digit"}) <= 2} : n \in 0..5}

FewStreams == {<<>>, <<"digit", "digit", "other">>}

(* Too short, empty, three sizes of payload, too long, beyond an int.      *)
SmallClaims == {0, 1, 2, 3, 4, 5, 8}
=============================================================================
