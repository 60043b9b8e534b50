------------------------------ MODULE CrmMirror ------------------------------
(***************************************************************************)
(* What the synchronization of a source promises of the CRM store: one     *)
(* worker at a time acts on the items of the library, the store goes from  *)
(* a content of an item to a later one only, an item it has mirrored is    *)
(* left alone until a newer content of it was seen, and an item that is    *)
(* dropped, or whose source is closed, leaves nothing behind.  Runs, rows  *)
(* and listings are not seen here.                                         *)
(***************************************************************************)
EXTENDS Naturals

CONSTANTS Item, Worker

VARIABLES atWork,   \* the workers at work
          stage,    \* Item -> how far the mirroring of it has come
          noted,    \* Item -> the content it was last seen with, 0 for none
          stored,   \* Item -> the content the store has, 0 for none
          content,  \* Item -> its content in the library
          closed    \* the source is deleted

mirrorVars == <<atWork, stage, noted, stored, content, closed>>

Init ==
  /\ atWork = {}
  /\ stage = [i \in Item |-> "unknown"]
  /\ noted = [i \in Item |-> 0]
  /\ stored = [i \in Item |-> 0]
  /\ content = [i \in Item |-> 1]
  /\ closed = FALSE

Take(w) ==
  /\ atWork = {}
  /\ atWork' = {w}
  /\ UNCHANGED <<stage, noted, stored, content, closed>>

Leave(w) ==
  /\ w \in atWork
  /\ atWork' = atWork \ {w}
  /\ UNCHANGED <<stage, noted, stored, content, closed>>

\* An item was seen with content v and is due for the store.
Note(i, v) ==
  /\ atWork # {} /\ ~closed
  /\ v \in 1..content[i] /\ v >= noted[i]
  /\ stage[i] = "mirrored" => v > noted[i]
  /\ stage' = [stage EXCEPT ![i] = "waiting"]
  /\ noted' = [noted EXCEPT ![i] = v]
  /\ UNCHANGED <<atWork, stored, content, closed>>

Begin(i) ==
  /\ atWork # {} /\ ~closed
  /\ stage[i] = "waiting"
  /\ stage' = [stage EXCEPT ![i] = "syncing"]
  /\ UNCHANGED <<atWork, noted, stored, content, closed>>

Mirror(i, v) ==
  /\ atWork # {} /\ ~closed
  /\ stage[i] = "syncing"
  /\ v \in noted[i]..content[i] /\ v >= stored[i]
  /\ stage' = [stage EXCEPT ![i] = "mirrored"]
  /\ stored' = [stored EXCEPT ![i] = v]
  /\ UNCHANGED <<atWork, noted, content, closed>>

Fail(i) ==
  /\ atWork # {} /\ ~closed
  /\ stage[i] = "syncing"
  /\ stage' = [stage EXCEPT ![i] = "failed"]
  /\ UNCHANGED <<atWork, noted, stored, content, closed>>

\* Items are no longer in the library.
Drop(S) ==
  /\ atWork # {} /\ ~closed
  /\ \A i \in S : stage[i] # "unknown"
  /\ stage' = [i \in Item |-> IF i \in S THEN "gone" ELSE stage[i]]
  /\ stored' = [i \in Item |-> IF i \in S THEN 0 ELSE stored[i]]
  /\ UNCHANGED <<atWork, noted, content, closed>>

\* What a worker was at when it went away.
Interrupt(S) ==
  /\ atWork = {}
  /\ \A i \in S : stage[i] = "syncing"
  /\ stage' = [i \in Item |-> IF i \in S THEN "failed" ELSE stage[i]]
  /\ UNCHANGED <<atWork, noted, stored, content, closed>>

\* By hand.
Retry(i) ==
  /\ stage[i] = "failed"
  /\ stage' = [stage EXCEPT ![i] = "waiting"]
  /\ UNCHANGED <<atWork, noted, stored, content, closed>>

Close ==
  /\ atWork = {} /\ ~closed
  /\ closed' = TRUE
  /\ stored' = [i \in Item |-> 0]
  /\ UNCHANGED <<atWork, stage, noted, content>>

Grow(i) ==
  /\ content' = [content EXCEPT ![i] = @ + 1]
  /\ UNCHANGED <<atWork, stage, noted, stored, closed>>

Next ==
  \/ \E w \in Worker : Take(w) \/ Leave(w)
  \/ \E i \in Item : Begin(i) \/ Fail(i) \/ Retry(i) \/ Grow(i)
  \/ \E i \in Item : \E v \in 0..content[i] : Note(i, v) \/ Mirror(i, v)
  \/ \E S \in SUBSET Item : Drop(S) \/ Interrupt(S)
  \/ Close

Spec == Init /\ [][Next]_mirrorVars
=============================================================================
