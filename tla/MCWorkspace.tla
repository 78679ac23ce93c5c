---------------------------- MODULE MCWorkspace ----------------------------
(* Instances of Workspace for TLC. *)
EXTENDS Workspace, TLC

\* Nothing in the specification tells two goroutines, two names or two
\* contents apart.
Symmetry == Permutations(Procs) \cup Permutations(Names) \cup Permutations(Contents)
=============================================================================
