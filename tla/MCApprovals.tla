---------------------------- MODULE MCApprovals ----------------------------
(* Small instances of Approvals.                                           *)
EXTENDS Approvals, TLC

\* Symmetry is sound: no property is temporal beyond one step, and the model
\* values of Procs and of Ids are never told apart.
Symmetry == Permutations(Procs) \cup Permutations(Ids)
=============================================================================
