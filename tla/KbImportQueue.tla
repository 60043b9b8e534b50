--------------------------- MODULE KbImportQueue ----------------------------
(* The import pipeline as an implementation of WorkQueue: the row's status *)
(* is the item's, and the holder is the owner named by a PROCESSING row as *)
(* long as that worker is still at work on the document.                   *)
EXTENDS KbImport

Holds(w, d) == work[w].doc = d /\ AtWork(w)

HolderOf(d) ==
  IF row[d].status = "PROCESSING" /\ \E w \in Worker : row[d].owner = w /\ Holds(w, d)
  THEN row[d].owner ELSE None

WQ == INSTANCE WorkQueue WITH
        Item <- Doc,
        status <- [d \in Doc |-> row[d].status],
        holder <- [d \in Doc |-> HolderOf(d)]

\* The registry is such a work queue: every step of a worker, a request or the
\* clock is a step of WorkQueue or leaves statuses and holders alone.
ImplementsWorkQueue == WQ!Spec
=============================================================================
