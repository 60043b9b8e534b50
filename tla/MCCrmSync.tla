----------------------------- MODULE MCCrmSync ------------------------------
(* Instances of CrmSync for TLC. *)
EXTENDS CrmSync, TLC

Symmetry == Permutations(Worker) \cup Permutations(Folder) \cup Permutations(Run)
            \cup Permutations(Client)
=============================================================================
