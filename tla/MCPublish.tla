------------------------------ MODULE MCPublish ------------------------------
(* Instances of Publish for TLC.                                           *)
EXTENDS Publish, TLC

Symmetry == Permutations(Ids) \cup Permutations(Files) \cup Permutations(Months)

==============================================================================
