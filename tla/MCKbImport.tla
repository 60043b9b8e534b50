----------------------------- MODULE MCKbImport -----------------------------
(* Instances of KbImport for TLC. *)
EXTENDS KbImportQueue, TLC

Symmetry == Permutations(Worker) \cup Permutations(Queue) \cup Permutations(Request)
=============================================================================
