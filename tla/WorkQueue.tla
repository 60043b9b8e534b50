----------------------------- MODULE WorkQueue ------------------------------
(***************************************************************************)
(* What the registry promises as a work queue: an item is processed by one *)
(* worker at a time, only being processed can get it PUBLISHED, an item    *)
(* whose worker is gone can only fail, a withdrawn item never comes back.  *)
(* The names are the document statuses of the registry.                    *)
(***************************************************************************)
CONSTANTS Item, Worker, None

VARIABLES status,  \* Item -> the item's status
          holder   \* Item -> the worker at work on it, or None

wqVars == <<status, holder>>

Ended == {"PUBLISHED", "FAILED"}

Init ==
  /\ status = [i \in Item |-> "ABSENT"]
  /\ holder = [i \in Item |-> None]

\* One item changes its status and its holder.
Change(i, from, st, h) ==
  /\ status[i] \in from
  /\ status' = [status EXCEPT ![i] = st]
  /\ holder' = [holder EXCEPT ![i] = h]

Enqueue(i) == \E st \in {"QUEUED", "FAILED"} : Change(i, {"ABSENT"}, st, None)

Take(i, w) == (\A j \in Item : holder[j] # w) /\ Change(i, {"QUEUED"}, "PROCESSING", w)

End(i) == holder[i] # None /\ \E st \in Ended : Change(i, {"PROCESSING"}, st, None)

LetGo(i) == holder[i] # None /\ Change(i, {"PROCESSING"}, "PROCESSING", None)

Interrupt(i) == holder[i] = None /\ Change(i, {"PROCESSING"}, "FAILED", None)

Requeue(i) == Change(i, Ended, "QUEUED", None)

Withdraw(i) == Change(i, Ended, "UNPUBLISHED", None)

Next ==
  \E i \in Item :
    \/ Enqueue(i) \/ End(i) \/ LetGo(i) \/ Interrupt(i) \/ Requeue(i) \/ Withdraw(i)
    \/ \E w \in Worker : Take(i, w)

Spec == Init /\ [][Next]_wqVars
=============================================================================
