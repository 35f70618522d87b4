------------------------- MODULE MCServerPipeline --------------------------
(* Small instances of ServerPipeline for TLC.                              *)
EXTENDS ServerPipeline, TLC

(* Connections are interchangeable, and so are the threads of one pool.    *)
Symmetry ==
  Permutations(Conns) \cup Permutations(Readers)
    \cup Permutations(Datamodels) \cup Permutations(Writers)
=============================================================================
