----------------------------- MODULE MCSendLoop -----------------------------
(* Small instances of SendLoop for TLC.                                    *)
EXTENDS SendLoop

(* Empty, one byte, less than, exactly and more than two pieces.           *)
SmallLengths == {0, 1, 3, 4, 5}
=============================================================================
