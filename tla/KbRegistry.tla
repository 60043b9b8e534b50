----------------------------- MODULE KbRegistry -----------------------------
(***************************************************************************)
(* One row of the registry table AIVA_kb_documents and the conditional     *)
(* updates of backend/doc_intel/kb_repo.py, as functions from a row to the *)
(* row the update leaves.  The table is also the work queue of the import  *)
(* pipeline.  Columns no decision reads (sizes, token counts, timestamps   *)
(* other than updated_at, messages) are left out; updated_at is reduced to *)
(* "fresh", whether it lies within the stale threshold of the recovery.    *)
(***************************************************************************)
EXTENDS Naturals

CONSTANTS Queue,       \* queues of the corpus a document can be published to
          Worker,      \* worker_id values: one per start of an import worker
          Content,     \* what a file can contain (its SHA-256)
          MaxAttempts, \* bound: claims of one document
          None         \* the NULL of a column

ASSUME RegistryAssumption ==
  /\ MaxAttempts \in Nat \ {0}
  /\ None \notin Worker \cup Content \cup Queue
                 \cup {"upload", "extraction", "chunking", "embedding", "publishing"}

-----------------------------------------------------------------------------
(* Stages in pipeline order, and the values of the status columns.         *)

KB_STAGES == <<"upload", "extraction", "chunking", "embedding", "publishing">>
Stage == {KB_STAGES[i] : i \in 1..5}
StageNo == [upload |-> 1, extraction |-> 2, chunking |-> 3,
            embedding |-> 4, publishing |-> 5]

StageStatus == {"PENDING", "RUNNING", "COMPLETED", "FAILED", "SKIPPED"}
DocStatus == {"QUEUED", "PROCESSING", "PUBLISHED", "FAILED", "UNPUBLISHED"}
ActiveStatus == {"QUEUED", "PROCESSING", "PUBLISHED"}

Row == [status   : DocStatus \cup {"ABSENT"},
        stage    : [Stage -> StageStatus],
        failed   : Stage \cup {None},
        keys     : SUBSET Queue,
        owner    : Worker \cup {None},
        content  : Content \cup {None},
        attempts : 0..MaxAttempts,
        fresh    : BOOLEAN]

NoRow == [status |-> "ABSENT", stage |-> [s \in Stage |-> "PENDING"],
          failed |-> None, keys |-> {}, owner |-> None, content |-> None,
          attempts |-> 0, fresh |-> TRUE]

-----------------------------------------------------------------------------
(* Inserts: an accepted upload is QUEUED, a rejected one is FAILED with    *)
(* every later stage SKIPPED.                                              *)

AcceptedRow(c, K) ==
  [NoRow EXCEPT !.status = "QUEUED", !.keys = K, !.content = c,
                !.stage["upload"] = "COMPLETED"]

RejectedRow(c, K) ==
  [NoRow EXCEPT !.status = "FAILED", !.keys = K, !.content = c,
                !.failed = "upload",
                !.stage = [s \in Stage |-> IF s = "upload" THEN "FAILED" ELSE "SKIPPED"]]

(* Updates.  Every one of them refreshes updated_at.                       *)

WithStages(r, S, st) ==
  [r EXCEPT !.fresh = TRUE,
            !.stage = [s \in Stage |-> IF s \in S THEN st ELSE r.stage[s]]]

ClaimedRow(r, w) ==
  [r EXCEPT !.status = "PROCESSING", !.owner = w,
            !.attempts = r.attempts + 1, !.fresh = TRUE]

PublishedRow(r) ==
  [WithStages(r, {"publishing"}, "COMPLETED") EXCEPT !.status = "PUBLISHED", !.failed = None]

FailedRow(r, s) ==
  [WithStages(r, {s}, "FAILED") EXCEPT !.status = "FAILED", !.failed = s]

(* FAILED/PUBLISHED -> QUEUED: the stage to resume at and every later one  *)
(* go back to PENDING.                                                     *)
FromStage(s) == {t \in Stage : StageNo[t] >= StageNo[s]}

\* Mutant: only the stage itself goes back to PENDING.
RequeuedAtStage(r, s) ==
  [WithStages(r, {s}, "PENDING") EXCEPT !.status = "QUEUED", !.failed = None]

RequeuedRow(r, s) ==
  [WithStages(r, FromStage(s), "PENDING") EXCEPT !.status = "QUEUED", !.failed = None]

UnpublishedRow(r) == [r EXCEPT !.status = "UNPUBLISHED", !.fresh = TRUE]

RekeyedRow(r, K) == [r EXCEPT !.keys = K, !.fresh = TRUE]

(* The stage an interruption is charged to: the first RUNNING one, else    *)
(* the first that is still PENDING or FAILED, else the last.               *)
InStatus(st, V) == {s \in Stage : st[s] \in V}
FirstStage(S) == CHOOSE s \in S : \A t \in S : StageNo[s] <= StageNo[t]

InterruptedStage(st) ==
  IF InStatus(st, {"RUNNING"}) # {} THEN FirstStage(InStatus(st, {"RUNNING"}))
  ELSE IF InStatus(st, {"PENDING", "FAILED"}) # {}
       THEN FirstStage(InStatus(st, {"PENDING", "FAILED"}))
       ELSE "publishing"
=============================================================================
