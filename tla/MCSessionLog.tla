---------------------------- MODULE MCSessionLog ----------------------------
(* Small instances of SessionLog for TLC. *)
EXTENDS SessionLog, TLC

\* Entry ids are opaque and only compared, and so are the emitting tasks.
Symmetry == Permutations(Ids) \union Permutations(Emitters)

=============================================================================
