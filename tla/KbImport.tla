------------------------------ MODULE KbImport ------------------------------
(***************************************************************************)
(* Flow 1 of backend/doc_intel: a knowledge document goes from an upload   *)
(* through the import worker (extraction, chunking, embedding, publishing) *)
(* to the knowledge base, and administrators retry, republish, unpublish   *)
(* it or change its queues meanwhile.                                      *)
(*                                                                         *)
(* Three stores take part and no transaction spans two of them: the        *)
(* registry rows (kb_repo.py), the knowledge base (kb_store.py) and the    *)
(* document's directory on disk.  Workers (KbImportWorker) and requests    *)
(* (KbImportService) are processes whose steps are the code between two    *)
(* awaits, so everything can happen between any two of them.               *)
(*                                                                         *)
(* "Hazard" selects what may go wrong in a run:                            *)
(*   "stall"  a live worker misses its heartbeats past the stale threshold *)
(*   "crash"  a worker's process dies between two steps                    *)
(*   "fault"  a registry call of a worker raises and changes nothing       *)
(*   "abort"  a request dies between two steps (process killed, registry   *)
(*            unavailable, client gone)                                    *)
(*   "orphan" a publishing thread outlives the stop of its worker while    *)
(*            other processes run (more than one backend process)          *)
(***************************************************************************)
EXTENDS KbRegistry

CONSTANTS Doc,       \* registry ids; claims go by created_at, id: the id order
          Request,   \* administrators' requests being served
          Hazard     \* the failures in play, see above

ASSUME ImportAssumption ==
  /\ Doc \subseteq Nat
  /\ None \notin Doc
  /\ Hazard \subseteq {"stall", "crash", "fault", "abort", "orphan"}

VARIABLES row,         \* the registry: Doc -> Row
          work,        \* the import workers
          req,         \* the requests
          kb,          \* knowledge base: the document's chunks, and the queues
                       \* whose verticals list holds kbdoc-<id>
          disk,        \* documents whose directory (original file) exists
          normalized,  \* documents whose normalized.json exists
          orphans      \* publish calls whose worker was stopped

vars == <<row, work, req, kb, disk, normalized, orphans>>

-----------------------------------------------------------------------------
(* What a worker holds in memory: the claimed document, the queue keys of  *)
(* the row as it was claimed, and where it is in the loop or pipeline.     *)

CLAIM_ATTEMPTS == 3
Pipeline == {"begin", "run", "done", "results", "failing"}
WorkPhase == {"off", "poll", "recover", "claim", "pick", "reread", "idle",
              "release", "dead"} \cup Pipeline

DocPhase == Pipeline \cup {"pick", "reread", "release"}

\* A worker in a DocPhase has a document; claim_next tries CLAIM_ATTEMPTS times;
\* publishing ends with finish(), not with results.
WorkState == {s \in [phase : WorkPhase,
                     stage : Stage,
                     doc   : Doc \cup {None},
                     keys  : SUBSET Queue,
                     todo  : SUBSET Doc,
                     tries : 0..CLAIM_ATTEMPTS] :
                /\ s.phase \in DocPhase => s.doc \in Doc
                /\ s.phase = "pick" => s.tries < CLAIM_ATTEMPTS
                /\ s.phase = "results" => s.stage # "publishing"}

Loop(phase) == [phase |-> phase, stage |-> "extraction", doc |-> None,
                keys |-> {}, todo |-> {}, tries |-> 0]

(* A request: the phase names the operation and the call it is about to    *)
(* make; the rest is what it read before.                                  *)
UploadPhase == {"upload_check", "upload_insert", "upload_reject"}
AdminPhase == {"retry", "republish", "unpublish_kb", "unpublish_row", "queues_kb",
               "queues_row_published", "queues_row"}
ReqPhase == {"idle"} \cup UploadPhase \cup AdminPhase

\* An administrator's action names a document, a retry also where to resume.
ReqState == {s \in [phase   : ReqPhase,
                    doc     : Doc \cup {None},
                    keys    : SUBSET Queue,
                    from    : Stage \cup {None},
                    content : Content \cup {None}] :
               /\ s.phase \in AdminPhase => s.doc \in Doc
               /\ s.phase = "retry" => s.from \in Stage}

IdleReq == [phase |-> "idle", doc |-> None, keys |-> {}, from |-> None, content |-> None]

Kb == [chunks : BOOLEAN, queues : SUBSET Queue]
Publish == [doc : Doc, keys : SUBSET Queue]

TypeOK ==
  /\ row \in [Doc -> Row]
  /\ work \in [Worker -> WorkState]
  /\ req \in [Request -> ReqState]
  /\ kb \in [Doc -> Kb]
  /\ disk \subseteq Doc
  /\ normalized \subseteq Doc
  /\ orphans \subseteq Publish

Init ==
  /\ row = [d \in Doc |-> NoRow]
  /\ work = [w \in Worker |-> Loop("off")]
  /\ req = [r \in Request |-> IdleReq]
  /\ kb = [d \in Doc |-> [chunks |-> FALSE, queues |-> {}]]
  /\ disk = {}
  /\ normalized = {}
  /\ orphans = {}

-----------------------------------------------------------------------------
(* Building blocks.                                                        *)

\* KbRepo._update: the row is locked and must be in an expected status.
Expect(d, statuses) == row[d].status \in statuses
Put(d, r) == row' = [row EXCEPT ![d] = r]

Goto(w, phase) == work' = [work EXCEPT ![w].phase = phase]
\* process_document is over, whatever its result: the loop claims again.
Leave(w) == work' = [work EXCEPT ![w] = Loop("claim")]

\* Mutant: the status the row is expected in is not compared.
UpdateAlways(w, r, next) == Put(work[w].doc, r) /\ next

\* A worker's update of its document: r if the row is still PROCESSING,
\* otherwise _Abandoned.  The claim itself is not compared.
UpdateOrAbandon(w, r, next) ==
  \/ /\ Expect(work[w].doc, {"PROCESSING"})
     /\ Put(work[w].doc, r)
     /\ next
  \/ /\ ~Expect(work[w].doc, {"PROCESSING"})
     /\ UNCHANGED row
     /\ Leave(w)

Working(w) == work[w].phase \in Pipeline
\* From the UPDATE that claims the document until it is let go.
AtWork(w) == Working(w) \/ work[w].phase = "reread"

Queued == {d \in Doc : row[d].status = "QUEUED"}
IsOldest(d, S) == d \in S /\ \A e \in S : d <= e

\* Mutant: the vertical stays in the queues it was in before.
KbPublishAdding(d, K) ==
  kb' = [kb EXCEPT ![d] = [chunks |-> TRUE, queues |-> kb[d].queues \cup K]]

\* KbStore.publish: replace the chunks and put the vertical in exactly these queues.
KbPublish(d, K) == kb' = [kb EXCEPT ![d] = [chunks |-> TRUE, queues |-> K]]
\* Mutants: one half of the transaction is forgotten.
KbDropChunks(d) == kb' = [kb EXCEPT ![d].chunks = FALSE]
KbDropVertical(d) == kb' = [kb EXCEPT ![d].queues = {}]

\* KbStore.unpublish: out of every queue, chunks deleted.
KbUnpublish(d) == kb' = [kb EXCEPT ![d] = [chunks |-> FALSE, queues |-> {}]]
\* KbStore.set_queues: the configuration only, chunks untouched.
KbSetQueues(d, K) == kb' = [kb EXCEPT ![d].queues = K]

stores == <<kb, disk, normalized, orphans>>

-----------------------------------------------------------------------------
(* The worker's loop: recover interrupted rows, then claim and process     *)
(* documents until none is queued, then wait for a wake-up or the timeout. *)

Start(w) ==
  /\ work[w].phase = "off"
  /\ Goto(w, "poll")
  /\ UNCHANGED <<row, req, stores>>

\* Mutant: only rows of this worker id, which is a new one after a restart.
FindOwnStale(w) ==
  /\ work[w].phase = "poll"
  /\ work' = [work EXCEPT ![w].phase = "recover",
                          ![w].todo = {d \in Doc : /\ row[d].status = "PROCESSING"
                                                   /\ ~row[d].fresh /\ row[d].owner = w}]
  /\ UNCHANGED <<row, req, stores>>

\* recover_stale, the SELECT.
FindStale(w) ==
  /\ work[w].phase = "poll"
  /\ work' = [work EXCEPT ![w].phase = "recover",
                          ![w].todo = {d \in Doc : row[d].status = "PROCESSING" /\ ~row[d].fresh}]
  /\ UNCHANGED <<row, req, stores>>

\* recover_stale, one row: re-checked under the row lock.
RecoverOne(w, d) ==
  /\ work[w].phase = "recover"
  /\ d \in work[w].todo
  /\ IF Expect(d, {"PROCESSING"}) /\ ~row[d].fresh
     THEN Put(d, FailedRow(row[d], InterruptedStage(row[d].stage)))
     ELSE UNCHANGED row
  /\ work' = [work EXCEPT ![w].todo = @ \ {d}]
  /\ UNCHANGED <<req, stores>>

Recovered(w) ==
  /\ work[w].phase = "recover"
  /\ work[w].todo = {}
  /\ Goto(w, "claim")
  /\ UNCHANGED <<row, req, stores>>

\* claim_next, the SELECT of the oldest QUEUED row.
Pick(w) ==
  /\ work[w].phase = "claim"
  /\ \/ /\ Queued = {} \/ work[w].tries = CLAIM_ATTEMPTS
        /\ work' = [work EXCEPT ![w] = Loop("idle")]
     \/ /\ work[w].tries < CLAIM_ATTEMPTS
        /\ \E d \in Doc : /\ IsOldest(d, Queued)
                          /\ work' = [work EXCEPT ![w].phase = "pick", ![w].doc = d]
  /\ UNCHANGED <<row, req, stores>>

\* Mutant: the claim does not compare the status.
ClaimAnyway(w) ==
  LET d == work[w].doc IN
  /\ work[w].phase = "pick"
  /\ row[d].attempts < MaxAttempts
  /\ Put(d, ClaimedRow(row[d], w))
  /\ Goto(w, "reread")
  /\ UNCHANGED <<req, stores>>

\* claim_next, the conditional UPDATE.
Claim(w) ==
  LET d == work[w].doc IN
  /\ work[w].phase = "pick"
  /\ \/ /\ Expect(d, {"QUEUED"})
        /\ row[d].attempts < MaxAttempts
        /\ Put(d, ClaimedRow(row[d], w))
        /\ Goto(w, "reread")
     \/ /\ ~Expect(d, {"QUEUED"})
        /\ UNCHANGED row
        /\ work' = [work EXCEPT ![w] = [Loop("claim") EXCEPT !.tries = work[w].tries + 1]]
  /\ UNCHANGED <<req, stores>>

\* claim_next, the row as the pipeline will see it.  Extraction is skipped when
\* an earlier run completed it and normalized.json can be loaded.
Reread(w) ==
  LET d == work[w].doc IN
  /\ work[w].phase = "reread"
  /\ \E s \in {"extraction", "chunking"} :
       /\ s = "chunking" => row[d].stage["extraction"] = "COMPLETED" /\ d \in normalized
       /\ work' = [work EXCEPT ![w].phase = "begin", ![w].stage = s,
                               ![w].keys = row[d].keys]
  /\ UNCHANGED <<row, req, stores>>

Wake(w) ==
  /\ work[w].phase = "idle"
  /\ Goto(w, "poll")
  /\ UNCHANGED <<row, req, stores>>

-----------------------------------------------------------------------------
(* The pipeline.  Each stage is begun (RUNNING), run in a thread, recorded *)
(* (COMPLETED) and its results written; publishing ends with finish().     *)

NextStage(s) == KB_STAGES[StageNo[s] + 1]

BeginStage(w) ==
  LET d == work[w].doc IN
  /\ work[w].phase = "begin"
  /\ UpdateOrAbandon(w, WithStages(row[d], {work[w].stage}, "RUNNING"), Goto(w, "run"))
  /\ UNCHANGED <<req, stores>>

\* Mutant: normalized.json is not written.
RunStageUnsaved(w) ==
  /\ work[w].phase = "run"
  /\ work[w].stage # "publishing"
  /\ work[w].stage = "extraction" => work[w].doc \in disk
  /\ Goto(w, "done")
  /\ UNCHANGED <<row, req, stores>>

\* The stage's own work in asyncio.to_thread.  Extraction needs the original
\* and leaves normalized.json; any stage may fail instead (StageFails).
RunStage(w) ==
  LET d == work[w].doc IN
  /\ work[w].phase = "run"
  /\ work[w].stage # "publishing"
  /\ IF work[w].stage = "extraction"
     THEN d \in disk /\ normalized' = normalized \cup {d}
     ELSE UNCHANGED normalized
  /\ Goto(w, "done")
  /\ UNCHANGED <<row, req, kb, disk, orphans>>

\* Publishing: one knowledge-base transaction, with the keys read at the claim.
PublishStage(w) ==
  /\ work[w].phase = "run"
  /\ work[w].stage = "publishing"
  /\ work[w].keys # {}
  /\ KbPublish(work[w].doc, work[w].keys)
  /\ Goto(w, "done")
  /\ UNCHANGED <<row, req, disk, normalized, orphans>>

StageFails(w) ==
  /\ work[w].phase = "run"
  /\ Goto(w, "failing")
  /\ UNCHANGED <<row, req, stores>>

\* Mutant: publishing is completed like the stages before it.
CompleteAnyStage(w) ==
  /\ work[w].phase = "done"
  /\ UpdateOrAbandon(w, WithStages(row[work[w].doc], {work[w].stage}, "COMPLETED"),
                     Goto(w, "results"))
  /\ UNCHANGED <<req, stores>>

CompleteStage(w) ==
  LET d == work[w].doc IN
  /\ work[w].phase = "done"
  /\ work[w].stage # "publishing"
  /\ UpdateOrAbandon(w, WithStages(row[d], {work[w].stage}, "COMPLETED"), Goto(w, "results"))
  /\ UNCHANGED <<req, stores>>

\* set_results (page, chunk and token counts), then on to the next stage.
Results(w) ==
  LET d == work[w].doc IN
  /\ work[w].phase = "results"
  /\ UpdateOrAbandon(w, WithStages(row[d], {}, "COMPLETED"),
       work' = [work EXCEPT ![w].phase = "begin", ![w].stage = NextStage(work[w].stage)])
  /\ UNCHANGED <<req, stores>>

FinishPublished(w) ==
  LET d == work[w].doc IN
  /\ work[w].phase = "done"
  /\ work[w].stage = "publishing"
  /\ UpdateOrAbandon(w, PublishedRow(row[d]), Leave(w))
  /\ UNCHANGED <<req, stores>>

FinishFailed(w) ==
  LET d == work[w].doc IN
  /\ work[w].phase = "failing"
  /\ UpdateOrAbandon(w, FailedRow(row[d], work[w].stage), Leave(w))
  /\ UNCHANGED <<req, stores>>

\* A registry call raises.  Inside the pipeline process_document tries to record
\* the failure; when that fails too, or right after the claim, the row stays
\* PROCESSING and only the recovery of stale rows will find it.
RegistryFault(w) ==
  /\ "fault" \in Hazard
  /\ \/ /\ work[w].phase \in {"begin", "done", "results"}
        /\ Goto(w, "failing")
     \/ /\ work[w].phase = "failing"
        /\ Leave(w)
     \/ /\ work[w].phase \in {"poll", "recover", "claim", "pick", "reread"}
        /\ work' = [work EXCEPT ![w] = Loop("idle")]
  /\ UNCHANGED <<row, req, stores>>

-----------------------------------------------------------------------------
(* The end of a worker: an orderly stop or a crash.  Worker ids are fresh  *)
(* per start, so a stopped worker does not come back; the last one stays.  *)

MayEnd(w) ==
  /\ work[w].phase \notin {"off", "release", "dead"}
  /\ \E v \in Worker \ {w} : work[v].phase \notin {"release", "dead"}

PublishInFlight(w) == work[w].phase = "run" /\ work[w].stage = "publishing" /\ work[w].keys # {}

\* stop(): the loop is cancelled; _current_doc is only set once the claim has
\* returned, so a claim cut short is not released.  The publishing thread is not
\* cancelled: it has committed, never will, or ("orphan") is still running.
Stop(w) ==
  /\ MayEnd(w)
  /\ work' = [work EXCEPT ![w] = IF Working(w) THEN [@ EXCEPT !.phase = "release"]
                                               ELSE Loop("dead")]
  /\ \/ UNCHANGED <<kb, orphans>>
     \/ /\ PublishInFlight(w)
        /\ KbPublish(work[w].doc, work[w].keys)
        /\ UNCHANGED orphans
     \/ /\ PublishInFlight(w)
        /\ "orphan" \in Hazard
        /\ orphans' = orphans \cup {[doc |-> work[w].doc, keys |-> work[w].keys]}
        /\ UNCHANGED kb
  /\ UNCHANGED <<row, req, disk, normalized>>

\* Mutant: the row is released whoever owns it by now.
ReleaseAnyClaim(w) ==
  LET d == work[w].doc IN
  /\ work[w].phase = "release"
  /\ IF Expect(d, {"PROCESSING"})
     THEN Put(d, FailedRow(row[d], InterruptedStage(row[d].stage)))
     ELSE UNCHANGED row
  /\ work' = [work EXCEPT ![w] = Loop("dead")]
  /\ UNCHANGED <<req, stores>>

\* release_interrupted: only the row this worker still owns.
Release(w) ==
  LET d == work[w].doc IN
  /\ work[w].phase = "release"
  /\ IF Expect(d, {"PROCESSING"}) /\ row[d].owner = w
     THEN Put(d, FailedRow(row[d], InterruptedStage(row[d].stage)))
     ELSE UNCHANGED row
  /\ work' = [work EXCEPT ![w] = Loop("dead")]
  /\ UNCHANGED <<req, stores>>

ReleaseFails(w) ==
  /\ "fault" \in Hazard
  /\ work[w].phase = "release"
  /\ work' = [work EXCEPT ![w] = Loop("dead")]
  /\ UNCHANGED <<row, req, stores>>

Crash(w) ==
  /\ "crash" \in Hazard
  /\ MayEnd(w)
  /\ work' = [work EXCEPT ![w] = Loop("dead")]
  /\ UNCHANGED <<row, req, stores>>

OrphanPublishes(p) ==
  /\ p \in orphans
  /\ KbPublish(p.doc, p.keys)
  /\ orphans' = orphans \ {p}
  /\ UNCHANGED <<row, work, req, disk, normalized>>

-----------------------------------------------------------------------------
(* Time.  A PROCESSING row goes stale when nothing updated it for the      *)
(* threshold (twice the heartbeat at least).  A live claim is refreshed by *)
(* its heartbeat unless its worker stalls.  A pass over stale rows is short *)
(* against the threshold: a row refreshed during the pass outlives it.     *)

\* Mutant: no heartbeat while a stage runs.
GoStaleAtWork(d) ==
  /\ row[d].status = "PROCESSING"
  /\ row[d].fresh
  /\ \A w \in Worker : d \notin work[w].todo
  /\ Put(d, [row[d] EXCEPT !.fresh = FALSE])
  /\ UNCHANGED <<work, req, stores>>

GoStale(d) ==
  /\ row[d].status = "PROCESSING"
  /\ row[d].fresh
  /\ \A w \in Worker : d \notin work[w].todo
  /\ \/ "stall" \in Hazard
     \/ \A w \in Worker : ~(AtWork(w) /\ work[w].doc = d)
  /\ Put(d, [row[d] EXCEPT !.fresh = FALSE])
  /\ UNCHANGED <<work, req, stores>>

\* _heartbeat / touch: refreshes the row only for the worker that claimed it.
Heartbeat(w) ==
  LET d == work[w].doc IN
  /\ Working(w)
  /\ Expect(d, {"PROCESSING"})
  /\ row[d].owner = w
  /\ ~row[d].fresh
  /\ Put(d, [row[d] EXCEPT !.fresh = TRUE])
  /\ UNCHANGED <<work, req, stores>>

-----------------------------------------------------------------------------
(* Requests.  A request that is refused at its first read changes nothing  *)
(* and is left out; one that is refused later ends (Done).                 *)

Ask(r, st) == req[r].phase = "idle" /\ req' = [req EXCEPT ![r] = st]
Done(r) == req' = [req EXCEPT ![r] = IdleReq]
Advance(r, phase) == req' = [req EXCEPT ![r].phase = phase]

\* _update with expect_status on behalf of a request: either way the request ends.
UpdateOrConflict(r, d, statuses, new) ==
  /\ IF Expect(d, statuses) THEN Put(d, new) ELSE UNCHANGED row
  /\ Done(r)

Free == {d \in Doc : row[d].status = "ABSENT"}

\* upload: the file is in its own new directory, or was refused while saving.
UploadFile(r, c, K) ==
  /\ K # {}
  /\ Free # {}
  /\ \/ Ask(r, [IdleReq EXCEPT !.phase = "upload_check", !.content = c, !.keys = K])
     \/ Ask(r, [IdleReq EXCEPT !.phase = "upload_reject", !.keys = K])
  /\ UNCHANGED <<row, work, stores>>

ActiveDuplicate(c) == \E d \in Doc : row[d].content = c /\ row[d].status \in ActiveStatus

\* find_active_duplicate; a duplicate's directory is removed again.
CheckDuplicate(r) ==
  /\ req[r].phase = "upload_check"
  /\ Advance(r, IF ActiveDuplicate(req[r].content) THEN "upload_reject" ELSE "upload_insert")
  /\ UNCHANGED <<row, work, stores>>

InsertQueued(r) == \E d \in Doc :
  /\ req[r].phase = "upload_insert"
  /\ IsOldest(d, Free)
  /\ Put(d, AcceptedRow(req[r].content, req[r].keys))
  /\ Done(r)
  /\ disk' = disk \cup {d}
  /\ UNCHANGED <<work, kb, normalized, orphans>>

\* The insert commits but the request is cut off before it learns so: the
\* cleanup of the except branch removes the directory of a QUEUED row.
InsertCutOff(r) == \E d \in Doc :
  /\ "abort" \in Hazard
  /\ req[r].phase = "upload_insert"
  /\ IsOldest(d, Free)
  /\ Put(d, AcceptedRow(req[r].content, req[r].keys))
  /\ Done(r)
  /\ UNCHANGED <<work, stores>>

InsertRejected(r) == \E d \in Doc :
  /\ req[r].phase = "upload_reject"
  /\ IsOldest(d, Free)
  /\ Put(d, RejectedRow(req[r].content, req[r].keys))
  /\ Done(r)
  /\ UNCHANGED <<work, stores>>

\* retry: FAILED only; at chunking when the extracted text is still there, else
\* at extraction when the original is.
RetryRead(r, d) ==
  /\ row[d].status = "FAILED"
  /\ row[d].stage["upload"] # "FAILED"
  /\ LET extracted == row[d].stage["extraction"] = "COMPLETED" /\ d \in normalized
     IN /\ extracted \/ d \in disk
        /\ Ask(r, [IdleReq EXCEPT !.phase = "retry", !.doc = d,
                     !.from = IF extracted THEN "chunking" ELSE "extraction"])
  /\ UNCHANGED <<row, work, stores>>

\* reset_for_retry.  MaxAttempts bounds the number of rounds.
RetryWrite(r) ==
  LET d == req[r].doc IN
  /\ req[r].phase = "retry"
  /\ row[d].attempts < MaxAttempts
  /\ UpdateOrConflict(r, d, {"FAILED"}, RequeuedRow(row[d], req[r].from))
  /\ UNCHANGED <<work, stores>>

RepublishRead(r, d) ==
  /\ \/ row[d].status = "PUBLISHED"
     \/ row[d].status = "FAILED" /\ row[d].stage["extraction"] = "COMPLETED"
  /\ d \in normalized
  /\ Ask(r, [IdleReq EXCEPT !.phase = "republish", !.doc = d])
  /\ UNCHANGED <<row, work, stores>>

\* reset_for_republish: from chunking on.
RepublishWrite(r) ==
  LET d == req[r].doc IN
  /\ req[r].phase = "republish"
  /\ row[d].attempts < MaxAttempts
  /\ UpdateOrConflict(r, d, {"PUBLISHED", "FAILED"}, RequeuedRow(row[d], "chunking"))
  /\ UNCHANGED <<work, stores>>

\* The bound of the model, as one more reason for a conflict.
RoundsUsedUp(r) ==
  /\ req[r].phase \in {"retry", "republish"}
  /\ row[req[r].doc].attempts = MaxAttempts
  /\ Done(r)
  /\ UNCHANGED <<row, work, stores>>

\* unpublish: the status is read, then the knowledge base changed, then the row.
UnpublishRead(r, d) ==
  /\ row[d].status \in {"PUBLISHED", "FAILED"}
  /\ Ask(r, [IdleReq EXCEPT !.phase = "unpublish_kb", !.doc = d])
  /\ UNCHANGED <<row, work, stores>>

UnpublishKb(r) ==
  /\ req[r].phase = "unpublish_kb"
  /\ KbUnpublish(req[r].doc)
  /\ Advance(r, "unpublish_row")
  /\ UNCHANGED <<row, work, disk, normalized, orphans>>

UnpublishRow(r) ==
  LET d == req[r].doc IN
  /\ req[r].phase = "unpublish_row"
  /\ UpdateOrConflict(r, d, {"PUBLISHED", "FAILED"}, UnpublishedRow(row[d]))
  /\ UNCHANGED <<work, stores>>

\* change_queues: a PUBLISHED document's knowledge base first, then the row; a
\* QUEUED or FAILED one's row only.  An empty selection is refused.
QueuesRead(r, d, K) ==
  /\ K # {}
  /\ row[d].status \in {"QUEUED", "FAILED", "PUBLISHED"}
  /\ Ask(r, [IdleReq EXCEPT !.doc = d, !.keys = K,
               !.phase = IF row[d].status = "PUBLISHED" THEN "queues_kb" ELSE "queues_row"])
  /\ UNCHANGED <<row, work, stores>>

QueuesKb(r) ==
  /\ req[r].phase = "queues_kb"
  /\ KbSetQueues(req[r].doc, req[r].keys)
  /\ Advance(r, "queues_row_published")
  /\ UNCHANGED <<row, work, disk, normalized, orphans>>

QueuesRow(r) ==
  LET d == req[r].doc IN
  /\ \/ /\ req[r].phase = "queues_row_published"
        /\ UpdateOrConflict(r, d, {"PUBLISHED"}, RekeyedRow(row[d], req[r].keys))
     \/ /\ req[r].phase = "queues_row"
        /\ UpdateOrConflict(r, d, {"QUEUED", "FAILED"}, RekeyedRow(row[d], req[r].keys))
  /\ UNCHANGED <<work, stores>>

\* The knowledge base refuses the transaction (locked, unknown queue, down): 503/409.
KbRefuses(r) ==
  /\ req[r].phase \in {"unpublish_kb", "queues_kb"}
  /\ Done(r)
  /\ UNCHANGED <<row, work, stores>>

\* A request dies between two of its steps; what it wrote stays.
Abort(r) ==
  /\ "abort" \in Hazard
  /\ req[r].phase # "idle"
  /\ Done(r)
  /\ UNCHANGED <<row, work, stores>>

-----------------------------------------------------------------------------
WorkerStep(w) ==
  \/ Start(w) \/ FindStale(w) \/ (\E d \in Doc : RecoverOne(w, d)) \/ Recovered(w)
  \/ Pick(w) \/ Claim(w) \/ Reread(w) \/ Wake(w)
  \/ BeginStage(w) \/ RunStage(w) \/ PublishStage(w) \/ StageFails(w)
  \/ CompleteStage(w) \/ Results(w) \/ FinishPublished(w) \/ FinishFailed(w)
  \/ Release(w) \/ ReleaseFails(w)

WorkerTrouble(w) == RegistryFault(w) \/ Stop(w) \/ Crash(w)

RequestStep(r) ==
  \/ \E c \in Content, K \in SUBSET Queue : UploadFile(r, c, K)
  \/ CheckDuplicate(r) \/ InsertQueued(r) \/ InsertRejected(r) \/ InsertCutOff(r)
  \/ \E d \in Doc : RetryRead(r, d) \/ RepublishRead(r, d) \/ UnpublishRead(r, d)
  \/ \E d \in Doc, K \in SUBSET Queue : QueuesRead(r, d, K)
  \/ RetryWrite(r) \/ RepublishWrite(r) \/ RoundsUsedUp(r)
  \/ UnpublishKb(r) \/ UnpublishRow(r) \/ QueuesKb(r) \/ QueuesRow(r)
  \/ KbRefuses(r) \/ Abort(r)

Next ==
  \/ \E w \in Worker : WorkerStep(w) \/ WorkerTrouble(w) \/ Heartbeat(w)
  \/ \E p \in orphans : OrphanPublishes(p)
  \/ \E d \in Doc : GoStale(d)
  \/ \E r \in Request : RequestStep(r)

\* The event loop runs a worker's task until it blocks, and time passes.  A call
\* to the registry that may fail is not assumed to fail every time it is repeated.
Fairness ==
  /\ \A w \in Worker :
       /\ WF_vars(WorkerStep(w))
       /\ SF_vars(FindStale(w)) /\ SF_vars(Recovered(w)) /\ SF_vars(Pick(w)) /\ SF_vars(Claim(w))
       /\ \A d \in Doc : SF_vars(RecoverOne(w, d))
  /\ \A d \in Doc : WF_vars(GoStale(d))

Spec == Init /\ [][Next]_vars
FairSpec == Spec /\ Fairness

-----------------------------------------------------------------------------
(* Properties.                                                             *)

\* Some request or stopped worker's thread is in the middle of changing d.
InHand(d) == (\E r \in Request : req[r].doc = d) \/ (\E p \in orphans : p.doc = d)

\* A worker that has claimed a document and not let go of it is the owner of a
\* PROCESSING row that is not stale: two workers never process one document, and
\* no recovery pass, stop or request takes a row away from a worker that is alive
\* and on time.
OwnsDocument ==
  \A w \in Worker : AtWork(w) =>
    LET r == row[work[w].doc] IN r.status = "PROCESSING" /\ r.owner = w /\ r.fresh

\* The stages of an accepted document are complete up to the current one and
\* untouched after it, so PUBLISHED means that all five are COMPLETED, and a
\* retry that resumes at a stage never skips one that has not been done.
StagesInOrder ==
  \A d \in Doc : row[d].stage["upload"] = "COMPLETED" =>
    \A s, t \in Stage :
      StageNo[s] < StageNo[t] /\ row[d].stage[t] # "PENDING" => row[d].stage[s] = "COMPLETED"

\* A PUBLISHED document nobody is changing has its chunks in the knowledge base
\* and its vertical in exactly the queues the row names.
PublishedIsSearchable ==
  \A d \in Doc : row[d].status = "PUBLISHED" /\ ~InHand(d) =>
    kb[d] = [chunks |-> TRUE, queues |-> row[d].keys]

\* No queue offers a document that has no chunks.
NoEmptyVertical == \A d \in Doc : kb[d].queues # {} => kb[d].chunks

\* An UNPUBLISHED document has no chunk and is in no queue.
UnpublishedIsGone ==
  \A d \in Doc : row[d].status = "UNPUBLISHED" => kb[d] = [chunks |-> FALSE, queues |-> {}]

\* What the pipeline needs to go on is on disk for every document that waits in
\* the queue or can be put back there: an interruption is always retryable.
CanResume ==
  \A d \in Doc : row[d].status \in DocStatus /\ row[d].stage["upload"] = "COMPLETED" =>
    d \in (IF row[d].stage["extraction"] = "COMPLETED" THEN normalized ELSE disk)

\* UNPUBLISHED is final, whatever requests and workers were already under way.
UnpublishedIsFinal ==
  [][\A d \in Doc : row[d].status = "UNPUBLISHED" => row'[d].status = "UNPUBLISHED"]_vars

\* A worker whose claim was taken away stops working on the document: the row is
\* only changed by the steps of the worker that owns it.
OnlyOwnerWrites ==
  [][\A w \in Worker :
       Working(w) /\ work'[w] # work[w] /\ row'[work[w].doc] # row[work[w].doc]
         => row[work[w].doc].owner = w]_vars

\* An upload is not queued while a document with the same content is active.
NoActiveDuplicateQueued ==
  [][\A d \in Doc : row[d].status = "ABSENT" /\ row'[d].status = "QUEUED"
                      => ~ActiveDuplicate(row'[d].content)]_vars

\* Every queued or claimed document is eventually published or failed: crashes,
\* lost claims and failing registry calls leave nothing PROCESSING for ever.
EventuallySettled ==
  \A d \in Doc : row[d].status \in {"QUEUED", "PROCESSING"}
                   ~> row[d].status \in {"PUBLISHED", "FAILED", "UNPUBLISHED"}
=============================================================================
