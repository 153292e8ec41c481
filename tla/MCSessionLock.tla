--------------------------- MODULE MCSessionLock ---------------------------
(* Small instances of SessionLock for TLC. *)
EXTENDS SessionLock, TLC

\* Nothing distinguishes one pid from another.
Symmetry == Permutations(Procs)

=============================================================================
