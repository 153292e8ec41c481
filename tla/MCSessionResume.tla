-------------------------- MODULE MCSessionResume --------------------------
(* Small instances of SessionResume for TLC. *)
EXTENDS SessionResume, TLC

\* Nothing distinguishes one pid, or one message, from another.
Symmetry == Permutations(Procs) \union Permutations(Messages)

=============================================================================
