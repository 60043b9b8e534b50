--------------------------- MODULE KbStoreProofs ---------------------------
(* What the registry says of a document and what the knowledge base and    *)
(* the disk hold of it: the stages are done in order, what the pipeline    *)
(* needs to resume is on disk, and the knowledge base follows the status.  *)
(* At the end, that the pipeline implements the abstract work queue.       *)
EXTENDS KbImportQueue, KbImportProofs

-----------------------------------------------------------------------------
(* What the updates of kb_repo.py do to the columns "stage" and "status".  *)
LEMMA StageColumns ==
  ASSUME NEW r \in Row
  PROVE  /\ \A S, v : \A t \in Stage :
              WithStages(r, S, v).stage[t] = IF t \in S THEN v ELSE r.stage[t]
         /\ \A S, v : WithStages(r, S, v).keys = r.keys
         /\ \A w : ClaimedRow(r, w).stage = r.stage /\ ClaimedRow(r, w).keys = r.keys
         /\ \A b : /\ [r EXCEPT !.fresh = b].stage = r.stage
                   /\ [r EXCEPT !.fresh = b].status = r.status
                   /\ [r EXCEPT !.fresh = b].keys = r.keys
         /\ UnpublishedRow(r).stage = r.stage /\ UnpublishedRow(r).status = "UNPUBLISHED"
         /\ \A K : /\ RekeyedRow(r, K).stage = r.stage
                   /\ RekeyedRow(r, K).status = r.status
                   /\ RekeyedRow(r, K).keys = K
  BY DEF Row, WithStages, ClaimedRow, UnpublishedRow, RekeyedRow

LEMMA EndColumns ==
  ASSUME NEW r \in Row
  PROVE  /\ \A t \in Stage : PublishedRow(r).stage[t] =
                               IF t = "publishing" THEN "COMPLETED" ELSE r.stage[t]
         /\ PublishedRow(r).status = "PUBLISHED" /\ PublishedRow(r).keys = r.keys
         /\ \A s : /\ \A t \in Stage : FailedRow(r, s).stage[t] =
                                         IF t = s THEN "FAILED" ELSE r.stage[t]
                   /\ FailedRow(r, s).status = "FAILED" /\ FailedRow(r, s).keys = r.keys
         /\ \A s : /\ \A t \in Stage : RequeuedRow(r, s).stage[t] =
                                         IF t \in FromStage(s) THEN "PENDING" ELSE r.stage[t]
                   /\ RequeuedRow(r, s).status = "QUEUED" /\ RequeuedRow(r, s).keys = r.keys
<1>1. ASSUME NEW S, NEW v
      PROVE  /\ \A t \in Stage : WithStages(r, S, v).stage[t] = IF t \in S THEN v ELSE r.stage[t]
             /\ WithStages(r, S, v).keys = r.keys
  BY StageColumns
<1> QED BY <1>1 DEF PublishedRow, FailedRow, RequeuedRow, WithStages, Row

LEMMA InsertColumns ==
  ASSUME NEW c, NEW K
  PROVE  /\ \A t \in Stage : AcceptedRow(c, K).stage[t] =
                               IF t = "upload" THEN "COMPLETED" ELSE "PENDING"
         /\ AcceptedRow(c, K).status = "QUEUED"
         /\ \A t \in Stage : RejectedRow(c, K).stage[t] =
                               IF t = "upload" THEN "FAILED" ELSE "SKIPPED"
         /\ RejectedRow(c, K).status = "FAILED"
  BY StageSet DEF AcceptedRow, RejectedRow, NoRow

-----------------------------------------------------------------------------
(* What the pipeline needs to resume.  Nothing is ever taken from disk but *)
(* by an upload that is cut off, so this needs no ownership: it also holds *)
(* of workers that have lost their claim.                                  *)
Saved(r, d, D, N) ==
  /\ r.stage["upload"] = "COMPLETED" => d \in D
  /\ r.stage["extraction"] = "COMPLETED" => d \in N

\* The upload is no stage of the pipeline, and text is saved before it is recorded.
HasText(wk, N) ==
  /\ wk.phase \in Pipeline => wk.stage # "upload"
  /\ wk.phase = "done" /\ wk.stage = "extraction" => wk.doc \in N

ResumeInv ==
  /\ \A d \in Doc : Saved(row[d], d, disk, normalized)
  /\ \A w \in Worker : HasText(work[w], normalized)

(* A step that writes one row at most, whose stages are backed by the disk. *)
LEMMA ResumeStep ==
  ASSUME TypeOK, ResumeInv, NEW d \in Doc, NEW new, Put(d, new) \/ UNCHANGED row,
         Put(d, new) => Saved(new, d, disk', normalized'),
         disk \subseteq disk', normalized \subseteq normalized',
         \A w \in Worker : work'[w] = work[w] \/ HasText(work'[w], normalized')
  PROVE  ResumeInv'
<1>1. ASSUME NEW e \in Doc PROVE Saved(row[e], e, disk, normalized)'
  <2>1. Saved(row[e], e, disk', normalized') BY DEF ResumeInv, Saved
  <2>2. CASE UNCHANGED row BY <2>1, <2>2 DEF Saved
  <2>3. CASE Put(d, new)
    <3>1. row'[e] = IF e = d THEN new ELSE row[e] BY <2>3 DEF Put, TypeOK
    <3> QED BY <2>1, <2>3, <3>1 DEF Saved
  <2> QED BY <2>2, <2>3
<1>2. ASSUME NEW w \in Worker PROVE HasText(work[w], normalized)'
  BY DEF ResumeInv, HasText
<1> QED BY <1>1, <1>2 DEF ResumeInv

(* Updates that complete neither the upload nor the extraction.            *)
LEMMA SavedRows ==
  ASSUME NEW r \in Row, NEW d, NEW D, NEW N, Saved(r, d, D, N)
  PROVE  /\ \A S : Saved(WithStages(r, S, "RUNNING"), d, D, N)
         /\ Saved(WithStages(r, {}, "COMPLETED"), d, D, N)
         /\ \A s : s # "upload" /\ (s = "extraction" => d \in N)
                     => Saved(WithStages(r, {s}, "COMPLETED"), d, D, N)
         /\ \A w : Saved(ClaimedRow(r, w), d, D, N)
         /\ \A b : Saved([r EXCEPT !.fresh = b], d, D, N)
         /\ Saved(UnpublishedRow(r), d, D, N)
         /\ \A K : Saved(RekeyedRow(r, K), d, D, N)
         /\ Saved(PublishedRow(r), d, D, N)
         /\ \A s : Saved(FailedRow(r, s), d, D, N) /\ Saved(RequeuedRow(r, s), d, D, N)
<1>0. "upload" \in Stage /\ "extraction" \in Stage BY StageSet
<1>1. /\ \A S : Saved(WithStages(r, S, "RUNNING"), d, D, N)
      /\ Saved(WithStages(r, {}, "COMPLETED"), d, D, N)
  BY <1>0, StageColumns DEF Saved
<1>2. ASSUME NEW s, s # "upload", s = "extraction" => d \in N
      PROVE  Saved(WithStages(r, {s}, "COMPLETED"), d, D, N)
  BY <1>0, <1>2, StageColumns DEF Saved
<1>3. /\ \A w : Saved(ClaimedRow(r, w), d, D, N)
      /\ \A b : Saved([r EXCEPT !.fresh = b], d, D, N)
      /\ Saved(UnpublishedRow(r), d, D, N)
      /\ \A K : Saved(RekeyedRow(r, K), d, D, N)
  BY StageColumns DEF Saved
<1>4. /\ Saved(PublishedRow(r), d, D, N)
      /\ \A s : Saved(FailedRow(r, s), d, D, N) /\ Saved(RequeuedRow(r, s), d, D, N)
  BY <1>0, EndColumns DEF Saved
<1> QED BY <1>1, <1>2, <1>3, <1>4

LEMMA ResumeFrame ==
  ASSUME ResumeInv, UNCHANGED row, disk \subseteq disk', normalized \subseteq normalized',
         \A w \in Worker : work'[w] = work[w] \/ HasText(work'[w], normalized')
  PROVE  ResumeInv'
  BY DEF ResumeInv, Saved, HasText

(* A worker's steps.                                                       *)
LEMMA ResumeLoop ==
  ASSUME TypeOK, ResumeInv, NEW w \in Worker,
         \/ Start(w) \/ FindStale(w) \/ (\E d \in Doc : RecoverOne(w, d)) \/ Recovered(w)
         \/ Pick(w) \/ Claim(w) \/ Reread(w) \/ Wake(w) \/ RegistryFault(w)
         \/ Stop(w) \/ Release(w) \/ ReleaseFails(w) \/ Crash(w) \/ Heartbeat(w)
  PROVE  ResumeInv'
<1> DEFINE d == work[w].doc
<1>0. row \in [Doc -> Row] /\ work \in [Worker -> WorkState] /\ work[w] \in WorkState
  BY DEF TypeOK
<1>1. HasText(work[w], normalized)
  BY DEF ResumeInv
<1>2. UNCHANGED <<disk, normalized>>
  BY DEF Start, FindStale, RecoverOne, Recovered, Pick, Claim, Reread, Wake, RegistryFault,
         Stop, Release, ReleaseFails, Crash, Heartbeat, stores
<1>3. \A v \in Worker : work'[v] = work[v] \/ HasText(work'[v], normalized)
  <2>1. \A p : p \notin Pipeline => HasText(Loop(p), normalized)
    BY DEF Loop, HasText, Pipeline
  <2>2. {"poll", "claim", "idle", "dead", "recover", "pick", "reread", "release"} \cap Pipeline = {}
    BY DEF Pipeline
  <2>3. \A v \in Worker \ {w} : work'[v] = work[v]
    BY <1>0 DEF Start, FindStale, RecoverOne, Recovered, Pick, Claim, Reread, Wake, RegistryFault,
           Stop, Release, ReleaseFails, Crash, Heartbeat, Goto, Leave
  <2>4. CASE \/ Start(w) \/ FindStale(w) \/ (\E e \in Doc : RecoverOne(w, e)) \/ Recovered(w)
             \/ Wake(w) \/ Heartbeat(w)
    <3>1. work'[w] = work[w] \/ work'[w].phase \notin Pipeline
      BY <1>0, <2>2, <2>4 DEF Start, FindStale, RecoverOne, Recovered, Wake, Heartbeat, Goto, WorkState
    <3> QED BY <2>3, <3>1 DEF HasText, Pipeline
  <2>5. CASE Pick(w) \/ Claim(w) \/ Release(w) \/ ReleaseFails(w) \/ Crash(w)
    <3>1. work'[w] = work[w] \/ work'[w].phase \notin Pipeline
      BY <1>0, <2>2, <2>5 DEF Pick, Claim, Release, ReleaseFails, Crash, Goto, Loop, WorkState
    <3> QED BY <2>3, <3>1 DEF HasText, Pipeline
  <2>6. CASE Stop(w)
    <3>1. work'[w].phase \notin Pipeline
      BY <1>0, <2>2, <2>6 DEF Stop, Loop, WorkState
    <3> QED BY <2>3, <3>1 DEF HasText, Pipeline
  <2>7. CASE Reread(w)
    <3>1. work'[w].phase = "begin" /\ work'[w].stage \in {"extraction", "chunking"}
      BY <1>0, <2>7 DEF Reread, WorkState
    <3> QED BY <2>3, <3>1 DEF HasText
  <2>8. CASE RegistryFault(w)
    <3>1. \/ /\ work[w].phase \in Pipeline
             /\ work'[w] = [work[w] EXCEPT !.phase = "failing"]
          \/ work'[w].phase \notin Pipeline
      BY <1>0, <2>2, <2>8 DEF RegistryFault, Goto, Leave, Loop, Pipeline
    <3>2. HasText(work'[w], normalized)
      BY <1>0, <1>1, <3>1 DEF HasText, WorkState, Pipeline
    <3> QED BY <2>3, <3>2
  <2> QED BY <2>3, <2>4, <2>5, <2>6, <2>7, <2>8
<1>4. UNCHANGED row => ResumeInv'
  BY <1>2, <1>3, ResumeFrame
<1>5. ASSUME NEW e \in Doc, NEW new, Put(e, new), Saved(new, e, disk, normalized)
      PROVE  ResumeInv'
  <2>1. Saved(new, e, disk', normalized') BY <1>2, <1>5
  <2>2. \A v \in Worker : work'[v] = work[v] \/ HasText(work'[v], normalized')
    BY <1>2, <1>3
  <2> QED BY <1>2, <1>5, <2>1, <2>2, ResumeStep
<1>6. \A e \in Doc : row[e] \in Row /\ Saved(row[e], e, disk, normalized)
  BY <1>0 DEF ResumeInv
<1>7. work[w].phase \in DocPhase => d \in Doc
  BY <1>0 DEF WorkState
<1>8. CASE \/ Start(w) \/ FindStale(w) \/ Recovered(w) \/ Pick(w) \/ Reread(w) \/ Wake(w)
           \/ RegistryFault(w) \/ Stop(w) \/ ReleaseFails(w) \/ Crash(w)
  BY <1>4, <1>8 DEF Start, FindStale, Recovered, Pick, Reread, Wake, RegistryFault,
         Stop, ReleaseFails, Crash
<1>9. CASE Claim(w)
  <2>1. d \in Doc BY <1>7, <1>9 DEF Claim, DocPhase
  <2>2. Saved(ClaimedRow(row[d], w), d, disk, normalized) BY <1>6, <2>1, SavedRows
  <2>3. UNCHANGED row \/ Put(d, ClaimedRow(row[d], w)) BY <1>9 DEF Claim
  <2> HIDE DEF d
  <2> QED BY <1>4, <1>5, <2>1, <2>2, <2>3
<1>10. ASSUME NEW e \in Doc, RecoverOne(w, e) PROVE ResumeInv'
  <2>1. Saved(FailedRow(row[e], InterruptedStage(row[e].stage)), e, disk, normalized)
    BY <1>6, SavedRows
  <2> QED BY <1>4, <1>5, <1>10, <2>1 DEF RecoverOne
<1>11. CASE Release(w)
  <2>1. d \in Doc BY <1>7, <1>11 DEF Release, DocPhase
  <2>2. Saved(FailedRow(row[d], InterruptedStage(row[d].stage)), d, disk, normalized)
    BY <1>6, <2>1, SavedRows
  <2>3. UNCHANGED row \/ Put(d, FailedRow(row[d], InterruptedStage(row[d].stage)))
    BY <1>11 DEF Release
  <2> HIDE DEF d
  <2> QED BY <1>4, <1>5, <2>1, <2>2, <2>3
<1>12. CASE Heartbeat(w)
  <2>1. d \in Doc BY <1>7, <1>12 DEF Heartbeat, Working, DocPhase
  <2>2. Saved([row[d] EXCEPT !.fresh = TRUE], d, disk, normalized) BY <1>6, <2>1, SavedRows
  <2>3. Put(d, [row[d] EXCEPT !.fresh = TRUE]) BY <1>12 DEF Heartbeat
  <2> HIDE DEF d
  <2> QED BY <1>5, <2>1, <2>2, <2>3
<1> QED BY <1>8, <1>9, <1>10, <1>11, <1>12

LEMMA ResumePipeline ==
  ASSUME TypeOK, ResumeInv, NEW w \in Worker,
         \/ BeginStage(w) \/ RunStage(w) \/ PublishStage(w) \/ StageFails(w)
         \/ CompleteStage(w) \/ Results(w) \/ FinishPublished(w) \/ FinishFailed(w)
  PROVE  ResumeInv'
<1> DEFINE d == work[w].doc
<1>0. /\ row \in [Doc -> Row] /\ work \in [Worker -> WorkState] /\ work[w] \in WorkState
      /\ d \in Doc /\ row[d] \in Row /\ work[w].phase \in Pipeline
  BY DEF TypeOK, WorkState, DocPhase, Pipeline, BeginStage, RunStage, PublishStage, StageFails,
         CompleteStage, Results, FinishPublished, FinishFailed
<1>1. HasText(work[w], normalized) /\ Saved(row[d], d, disk, normalized)
  BY <1>0 DEF ResumeInv
<1>2. /\ UNCHANGED disk /\ normalized \subseteq normalized'
      /\ \A v \in Worker \ {w} : work'[v] = work[v]
  BY <1>0 DEF BeginStage, RunStage, PublishStage, StageFails, CompleteStage, Results,
         FinishPublished, FinishFailed, UpdateOrAbandon, Goto, Leave, stores
<1>3. ASSUME UNCHANGED row, HasText(work'[w], normalized') PROVE ResumeInv'
  BY <1>2, <1>3, ResumeFrame
<1>4. ASSUME NEW new, NEW next, UpdateOrAbandon(w, new, next), UNCHANGED normalized,
             Saved(new, d, disk, normalized), next => HasText(work'[w], normalized)
      PROVE  ResumeInv'
  <2>1. Leave(w) => HasText(work'[w], normalized)
    BY <1>0 DEF Leave, Loop, HasText, Pipeline
  <2>2. HasText(work'[w], normalized') /\ (UNCHANGED row \/ Put(d, new))
    BY <1>4, <2>1 DEF UpdateOrAbandon
  <2>3. \A v \in Worker : work'[v] = work[v] \/ HasText(work'[v], normalized')
    BY <1>2, <2>2
  <2>4. Saved(new, d, disk', normalized') BY <1>2, <1>4
  <2> HIDE DEF d
  <2> QED BY <1>0, <1>2, <2>2, <2>3, <2>4, ResumeStep
<1>5. CASE BeginStage(w)
  <2>1. Saved(WithStages(row[d], {work[w].stage}, "RUNNING"), d, disk, normalized)
    BY <1>0, <1>1, SavedRows
  <2>2. Goto(w, "run") => HasText(work'[w], normalized)
    BY <1>0, <1>1 DEF Goto, HasText, WorkState
  <2> QED BY <1>4, <1>5, <2>1, <2>2 DEF BeginStage, stores
<1>6. CASE RunStage(w)
  <2>1. work[w].stage = "extraction" => d \in normalized' BY <1>6 DEF RunStage
  <2>2. HasText(work'[w], normalized')
    BY <1>0, <1>1, <1>6, <2>1 DEF RunStage, Goto, HasText, WorkState
  <2> QED BY <1>3, <1>6, <2>2 DEF RunStage
<1>7. CASE PublishStage(w)
  <2>1. HasText(work'[w], normalized')
    BY <1>0, <1>1, <1>7 DEF PublishStage, Goto, HasText, WorkState
  <2> QED BY <1>3, <1>7, <2>1 DEF PublishStage
<1>8. CASE StageFails(w)
  <2>1. HasText(work'[w], normalized')
    BY <1>0, <1>1, <1>8 DEF StageFails, Goto, HasText, WorkState, stores
  <2> QED BY <1>3, <1>8, <2>1 DEF StageFails
<1>9. CASE CompleteStage(w)
  <2>1. work[w].stage # "upload" /\ (work[w].stage = "extraction" => d \in normalized)
    BY <1>0, <1>1, <1>9 DEF CompleteStage, HasText
  <2>2. Saved(WithStages(row[d], {work[w].stage}, "COMPLETED"), d, disk, normalized)
    BY <1>0, <1>1, <2>1, SavedRows
  <2>3. Goto(w, "results") => HasText(work'[w], normalized)
    BY <1>0, <1>1 DEF Goto, HasText, WorkState
  <2> QED BY <1>4, <1>9, <2>2, <2>3 DEF CompleteStage, stores
<1>10. CASE Results(w)
  <2>1. Saved(WithStages(row[d], {}, "COMPLETED"), d, disk, normalized)
    BY <1>0, <1>1, SavedRows
  <2>2. NextStage(work[w].stage) # "upload"
    <3>1. work[w].stage \in Stage \ {"publishing"} BY <1>0, <1>10 DEF Results, WorkState
    <3> QED BY <3>1, StageSet DEF NextStage, StageNo, KB_STAGES
  <2>3. ASSUME work' = [work EXCEPT ![w].phase = "begin", ![w].stage = NextStage(work[w].stage)]
        PROVE  HasText(work'[w], normalized)
    BY <1>0, <2>2, <2>3 DEF HasText, WorkState
  <2> QED BY <1>4, <1>10, <2>1, <2>3 DEF Results, stores
<1>11. CASE FinishPublished(w)
  <2>1. Saved(PublishedRow(row[d]), d, disk, normalized) BY <1>0, <1>1, SavedRows
  <2>2. Leave(w) => HasText(work'[w], normalized)
    BY <1>0 DEF Leave, Loop, HasText, Pipeline
  <2> QED BY <1>4, <1>11, <2>1, <2>2 DEF FinishPublished, stores
<1>12. CASE FinishFailed(w)
  <2>1. Saved(FailedRow(row[d], work[w].stage), d, disk, normalized) BY <1>0, <1>1, SavedRows
  <2>2. Leave(w) => HasText(work'[w], normalized)
    BY <1>0 DEF Leave, Loop, HasText, Pipeline
  <2> QED BY <1>4, <1>12, <2>1, <2>2 DEF FinishFailed, stores
<1> QED BY <1>5, <1>6, <1>7, <1>8, <1>9, <1>10, <1>11, <1>12

(* A request's steps: an upload comes with its file.                       *)
LEMMA ResumeRequest ==
  ASSUME "abort" \notin Hazard, TypeOK, ResumeInv, NEW r \in Request, RequestStep(r)
  PROVE  ResumeInv'
<1>0. /\ row \in [Doc -> Row] /\ req[r] \in ReqState
      /\ \A e \in Doc : row[e] \in Row /\ Saved(row[e], e, disk, normalized)
  BY DEF TypeOK, ResumeInv
<1>1. ASSUME UNCHANGED <<row, work, disk, normalized>> PROVE ResumeInv'
  BY <1>1, ResumeFrame
<1>2. ASSUME NEW e \in Doc, NEW new, Put(e, new) \/ UNCHANGED row, Saved(new, e, disk', normalized),
             UNCHANGED <<work, normalized>>, disk \subseteq disk'
      PROVE  ResumeInv'
  BY <1>2, ResumeStep
<1>3. CASE \/ \E c \in Content, K \in SUBSET Queue : UploadFile(r, c, K)
           \/ CheckDuplicate(r)
           \/ \E d \in Doc : RetryRead(r, d) \/ RepublishRead(r, d) \/ UnpublishRead(r, d)
           \/ \E d \in Doc, K \in SUBSET Queue : QueuesRead(r, d, K)
           \/ RoundsUsedUp(r) \/ UnpublishKb(r) \/ QueuesKb(r) \/ KbRefuses(r) \/ Abort(r)
  BY <1>1, <1>3 DEF UploadFile, CheckDuplicate, RetryRead, RepublishRead, UnpublishRead, QueuesRead,
         RoundsUsedUp, UnpublishKb, QueuesKb, KbRefuses, Abort, stores
<1>4. CASE InsertQueued(r)
  <2>1. PICK d \in Doc : /\ Put(d, AcceptedRow(req[r].content, req[r].keys))
                         /\ disk' = disk \cup {d} /\ UNCHANGED <<work, normalized>>
    BY <1>4 DEF InsertQueued
  <2>2. Saved(AcceptedRow(req[r].content, req[r].keys), d, disk', normalized)
    BY <2>1, InsertColumns, StageSet DEF Saved
  <2> QED BY <1>2, <2>1, <2>2
<1>5. CASE InsertRejected(r)
  <2>1. PICK d \in Doc : /\ Put(d, RejectedRow(req[r].content, req[r].keys))
                         /\ UNCHANGED <<disk, work, normalized>>
    BY <1>5 DEF InsertRejected, stores
  <2>2. Saved(RejectedRow(req[r].content, req[r].keys), d, disk', normalized)
    BY <2>1, InsertColumns, StageSet DEF Saved
  <2> QED BY <1>2, <2>1, <2>2
<1>6. CASE InsertCutOff(r)
  BY <1>6 DEF InsertCutOff
<1>7. CASE RetryWrite(r) \/ RepublishWrite(r) \/ UnpublishRow(r) \/ QueuesRow(r)
  <2> DEFINE d == req[r].doc
  <2>1. d \in Doc
    BY <1>0, <1>7 DEF ReqState, AdminPhase, RetryWrite, RepublishWrite, UnpublishRow, QueuesRow
  <2>2. /\ \A s : Saved(RequeuedRow(row[d], s), d, disk, normalized)
        /\ Saved(UnpublishedRow(row[d]), d, disk, normalized)
        /\ \A K : Saved(RekeyedRow(row[d], K), d, disk, normalized)
    BY <1>0, <2>1, SavedRows
  <2>3. /\ UNCHANGED <<work, disk, normalized>>
        /\ \E new : Saved(new, d, disk, normalized) /\ (Put(d, new) \/ UNCHANGED row)
    BY <1>7, <2>2 DEF RetryWrite, RepublishWrite, UnpublishRow, QueuesRow, UpdateOrConflict, stores
  <2> HIDE DEF d
  <2>4. PICK new : Saved(new, d, disk, normalized) /\ (Put(d, new) \/ UNCHANGED row)
    BY <2>3
  <2>5. Saved(new, d, disk', normalized) /\ disk \subseteq disk' BY <2>3, <2>4
  <2> QED BY <1>2, <2>1, <2>3, <2>4, <2>5
<1> QED BY <1>3, <1>4, <1>5, <1>6, <1>7 DEF RequestStep

LEMMA ResumeNext ==
  ASSUME "abort" \notin Hazard, TypeOK, ResumeInv, [Next]_vars
  PROVE  ResumeInv'
<1>1. ASSUME NEW w \in Worker, WorkerStep(w) \/ WorkerTrouble(w) \/ Heartbeat(w) PROVE ResumeInv'
  BY <1>1, ResumeLoop, ResumePipeline DEF WorkerStep, WorkerTrouble
<1>2. ASSUME NEW p \in orphans, OrphanPublishes(p) PROVE ResumeInv'
  BY <1>2, ResumeFrame DEF OrphanPublishes
<1>3. ASSUME NEW d \in Doc, GoStale(d) PROVE ResumeInv'
  <2>1. Put(d, [row[d] EXCEPT !.fresh = FALSE]) /\ UNCHANGED <<work, disk, normalized>>
    BY <1>3 DEF GoStale, stores
  <2>2. row[d] \in Row /\ Saved(row[d], d, disk, normalized) BY DEF TypeOK, ResumeInv
  <2>3. Saved([row[d] EXCEPT !.fresh = FALSE], d, disk, normalized) BY <2>2, SavedRows
  <2>4. Saved([row[d] EXCEPT !.fresh = FALSE], d, disk', normalized') BY <2>1, <2>3
  <2> QED BY <2>1, <2>4, ResumeStep
<1>4. ASSUME NEW r \in Request, RequestStep(r) PROVE ResumeInv'
  BY <1>4, ResumeRequest
<1>5. CASE UNCHANGED vars
  BY <1>5, ResumeFrame DEF vars
<1> QED BY <1>1, <1>2, <1>3, <1>4, <1>5 DEF Next

(* What the pipeline needs to go on is on disk for every document that     *)
(* waits in the queue or can be put back there, whatever stalls, crashes,  *)
(* faults and orphaned threads there are: only an upload that is cut off   *)
(* after its insert leaves a row without its file.                         *)
THEOREM Resumable == "abort" \notin Hazard => (Spec => []CanResume)
<1> SUFFICES ASSUME "abort" \notin Hazard PROVE Spec => []CanResume
  OBVIOUS
<1>1. Init => ResumeInv
  BY StageSet DEF Init, ResumeInv, Saved, HasText, NoRow, Loop, Pipeline
<1>2. TypeOK /\ ResumeInv /\ [Next]_vars => ResumeInv'
  BY ResumeNext
<1>3. ResumeInv => CanResume
  BY DEF ResumeInv, Saved, CanResume
<1> QED BY <1>1, <1>2, <1>3, TypeCorrect, PTL DEF Spec

-----------------------------------------------------------------------------
(* The stages are done in order.  A document has come up to a stage when   *)
(* the stages before it are complete and the ones after it are untouched;  *)
(* the stage itself may be in any state.                                   *)
InOrder(st) ==
  \A s, t \in Stage : StageNo[s] < StageNo[t] /\ st[t] # "PENDING" => st[s] = "COMPLETED"

UpTo(st, s) ==
  \A t \in Stage : /\ StageNo[t] < StageNo[s] => st[t] = "COMPLETED"
                   /\ StageNo[s] < StageNo[t] => st[t] = "PENDING"

\* The stages of a row, by its status: a rejected upload has none left to do.
Ordered(r) ==
  /\ r.status = "ABSENT" => r.stage["upload"] = "PENDING"
  /\ r.status # "ABSENT" => r.stage["upload"] \in {"COMPLETED", "FAILED"}
  /\ r.status \in {"QUEUED", "PROCESSING", "PUBLISHED"} => r.stage["upload"] = "COMPLETED"
  /\ r.stage["extraction"] = "COMPLETED" => r.stage["upload"] = "COMPLETED"
  /\ r.stage["upload"] = "COMPLETED" =>
       InOrder(r.stage) /\ \A s \in Stage : r.stage[s] # "SKIPPED"
  /\ r.status = "QUEUED" => UpTo(r.stage, "extraction")
  /\ r.status = "PUBLISHED" => r.stage["publishing"] = "COMPLETED"

\* A worker is at the stage the row has come up to.
InPlace(wk, st) ==
  /\ wk.phase = "reread" => UpTo(st, "extraction")
  /\ wk.phase \in Pipeline => wk.stage # "upload" /\ UpTo(st, wk.stage)
  /\ wk.phase = "results" => st[wk.stage] = "COMPLETED"

\* A document is only put back where its upload was accepted.
Resumes(rq) ==
  rq.phase \in {"retry", "republish"} =>
    /\ row[rq.doc].stage["upload"] = "COMPLETED"
    /\ rq.phase = "retry" => rq.from \in {"extraction", "chunking"}

StageInv ==
  /\ \A d \in Doc : Ordered(row[d])
  /\ \A w \in Worker : AtWork(w) => InPlace(work[w], row[work[w].doc].stage)
  /\ \A r \in Request : Resumes(req[r])

LEMMA StageNumbers ==
  /\ StageNo["upload"] = 1 /\ StageNo["extraction"] = 2 /\ StageNo["chunking"] = 3
  /\ StageNo["embedding"] = 4 /\ StageNo["publishing"] = 5
  /\ \A s \in Stage : StageNo[s] = 1 => s = "upload"
  /\ \A s, t \in Stage : StageNo[s] = StageNo[t] => s = t
  /\ "upload" \in Stage /\ "extraction" \in Stage /\ "chunking" \in Stage
  /\ "embedding" \in Stage /\ "publishing" \in Stage
  BY StageSet DEF StageNo

(* Coming up to a stage is being in order, and is kept by a change of the  *)
(* stage itself.                                                           *)
LEMMA UpToInOrder ==
  ASSUME NEW st, NEW s \in Stage, UpTo(st, s)
  PROVE  InOrder(st)
<1>1. ASSUME NEW a \in Stage, NEW b \in Stage, StageNo[a] < StageNo[b], st[b] # "PENDING"
      PROVE  st[a] = "COMPLETED"
  <2>1. StageNo[a] \in 1..5 /\ StageNo[b] \in 1..5 /\ StageNo[s] \in 1..5 BY StageSet
  <2>2. ~(StageNo[s] < StageNo[b]) BY <1>1 DEF UpTo
  <2>3. StageNo[a] < StageNo[s] BY <1>1, <2>1, <2>2
  <2> QED BY <2>3 DEF UpTo
<1> QED BY <1>1 DEF InOrder

LEMMA UpToKept ==
  ASSUME NEW st, NEW new, NEW s \in Stage, UpTo(st, s),
         \A t \in Stage : t # s => new[t] = st[t]
  PROVE  UpTo(new, s)
<1>1. \A t \in Stage : StageNo[t] < StageNo[s] \/ StageNo[s] < StageNo[t] => t # s
  BY StageSet
<1> QED BY <1>1 DEF UpTo

(* A completed stage is a step up.                                         *)
LEMMA UpToNext ==
  ASSUME NEW st, NEW s \in Stage, UpTo(st, s), st[s] = "COMPLETED", s # "publishing"
  PROVE  NextStage(s) \in Stage /\ NextStage(s) # "upload" /\ UpTo(st, NextStage(s))
<1>1. NextStage(s) \in Stage /\ StageNo[NextStage(s)] = StageNo[s] + 1 /\ NextStage(s) # "upload"
  BY StageSet DEF NextStage, StageNo, KB_STAGES
<1>2. ASSUME NEW t \in Stage
      PROVE  /\ StageNo[t] < StageNo[NextStage(s)] => st[t] = "COMPLETED"
             /\ StageNo[NextStage(s)] < StageNo[t] => st[t] = "PENDING"
  <2>1. StageNo[t] \in 1..5 /\ StageNo[s] \in 1..5 BY StageSet
  <2>2. StageNo[t] < StageNo[NextStage(s)] => StageNo[t] < StageNo[s] \/ t = s
    BY <1>1, <2>1, StageNumbers
  <2>3. StageNo[NextStage(s)] < StageNo[t] => StageNo[s] < StageNo[t]
    BY <1>1, <2>1
  <2> QED BY <2>2, <2>3 DEF UpTo
<1> QED BY <1>1, <1>2 DEF UpTo

(* Where an interruption finds stages in order they have come up to the    *)
(* stage it is charged to, which is never the upload.                      *)
LEMMA InterruptedUpTo ==
  ASSUME NEW st \in [Stage -> StageStatus], InOrder(st), st["upload"] = "COMPLETED",
         \A s \in Stage : st[s] # "SKIPPED"
  PROVE  InterruptedStage(st) # "upload" /\ UpTo(st, InterruptedStage(st))
<1> DEFINE R == InStatus(st, {"RUNNING"})
           P == InStatus(st, {"PENDING", "FAILED"})
           i == InterruptedStage(st)
<1>1. R \in SUBSET Stage /\ P \in SUBSET Stage
  BY DEF InStatus
<1>2. \A t \in Stage : StageNo[t] \in 1..5 /\ st[t] \in StageStatus
  BY StageSet
<1>3. CASE R # {}
  <2>1. i \in R BY <1>1, <1>3, FirstStageIn DEF InterruptedStage
  <2>2. i \in Stage /\ st[i] = "RUNNING" BY <2>1 DEF InStatus
  <2>3. UpTo(st, i) BY <2>2 DEF InOrder, UpTo
  <2> QED BY <2>2, <2>3
<1>4. CASE R = {} /\ P # {}
  <2>1. i \in P /\ \A t \in P : StageNo[i] <= StageNo[t]
    BY <1>1, <1>4, FirstStageIn DEF InterruptedStage
  <2>2. i \in Stage /\ st[i] \in {"PENDING", "FAILED"} BY <2>1 DEF InStatus
  <2>3. ASSUME NEW t \in Stage, StageNo[t] < StageNo[i] PROVE st[t] = "COMPLETED"
    <3>1. t \notin P BY <1>2, <2>1, <2>2, <2>3
    <3>2. t \notin R BY <1>4
    <3> QED BY <1>2, <3>1, <3>2 DEF InStatus, StageStatus
  <2>4. ASSUME NEW t \in Stage, StageNo[i] < StageNo[t] PROVE st[t] = "PENDING"
    BY <2>2, <2>4 DEF InOrder
  <2> QED BY <2>2, <2>3, <2>4 DEF UpTo
<1>5. CASE R = {} /\ P = {}
  <2>1. i = "publishing" BY <1>5 DEF InterruptedStage
  <2>2. \A t \in Stage : st[t] = "COMPLETED"
    BY <1>2, <1>5 DEF InStatus, StageStatus
  <2> QED BY <1>2, <2>1, <2>2, StageNumbers DEF UpTo
<1> QED BY <1>3, <1>4, <1>5

(* The updates keep rows in order.                                         *)
LEMMA OrderedWorkRows ==
  ASSUME NEW r \in Row, Ordered(r), r.status = "PROCESSING",
         NEW s \in Stage, s # "upload", UpTo(r.stage, s)
  PROVE  /\ \A v \in {"RUNNING", "COMPLETED"} :
              /\ Ordered(WithStages(r, {s}, v)) /\ UpTo(WithStages(r, {s}, v).stage, s)
              /\ WithStages(r, {s}, v).stage[s] = v
         /\ Ordered(FailedRow(r, s))
         /\ s = "publishing" => Ordered(PublishedRow(r))
<1>1. r.stage["upload"] = "COMPLETED" /\ \A t \in Stage : r.stage[t] # "SKIPPED"
  BY DEF Ordered
<1>2. ASSUME NEW q, \A t \in Stage : t # s => q.stage[t] = r.stage[t], q.stage[s] # "SKIPPED",
             q.status \in {"PROCESSING", "FAILED"} \/ (q.status = "PUBLISHED" /\ q.stage["publishing"] = "COMPLETED")
      PROVE  Ordered(q) /\ UpTo(q.stage, s)
  <2>1. UpTo(q.stage, s) BY <1>2, UpToKept
  <2>2. InOrder(q.stage) BY <2>1, UpToInOrder
  <2>3. q.stage["upload"] = "COMPLETED" /\ \A t \in Stage : q.stage[t] # "SKIPPED"
    BY <1>1, <1>2, StageNumbers
  <2> QED BY <1>2, <2>1, <2>2, <2>3 DEF Ordered
<1>3. ASSUME NEW v \in {"RUNNING", "COMPLETED"}
      PROVE  /\ Ordered(WithStages(r, {s}, v)) /\ UpTo(WithStages(r, {s}, v).stage, s)
             /\ WithStages(r, {s}, v).stage[s] = v
  <2>1. WithStages(r, {s}, v).status = "PROCESSING" BY ClaimColumns
  <2>2. \A t \in Stage : WithStages(r, {s}, v).stage[t] = IF t \in {s} THEN v ELSE r.stage[t]
    BY StageColumns
  <2> DEFINE q == WithStages(r, {s}, v)
  <2>3. q.stage[s] = v /\ q.stage[s] # "SKIPPED" /\ (\A t \in Stage : t # s => q.stage[t] = r.stage[t])
        /\ q.status \in {"PROCESSING", "FAILED"}
    BY <2>1, <2>2
  <2> HIDE DEF q
  <2> QED BY <1>2, <2>3 DEF q
<1>4. Ordered(FailedRow(r, s))
  <2> DEFINE q == FailedRow(r, s)
  <2>1. q.stage[s] # "SKIPPED" /\ (\A t \in Stage : t # s => q.stage[t] = r.stage[t])
        /\ q.status = "FAILED"
    BY EndColumns
  <2> HIDE DEF q
  <2>2. Ordered(q) BY <1>2, <2>1
  <2> QED BY <2>2 DEF q
<1>5. ASSUME s = "publishing" PROVE Ordered(PublishedRow(r))
  <2> DEFINE q == PublishedRow(r)
  <2>1. q.stage[s] = "COMPLETED" /\ (\A t \in Stage : t # s => q.stage[t] = r.stage[t])
        /\ q.status = "PUBLISHED"
    BY <1>5, EndColumns
  <2> HIDE DEF q
  <2>2. Ordered(q) BY <1>2, <1>5, <2>1
  <2> QED BY <2>2 DEF q
<1> QED BY <1>3, <1>4, <1>5

LEMMA OrderedRows ==
  ASSUME NEW r \in Row, Ordered(r)
  PROVE  /\ \A b : Ordered([r EXCEPT !.fresh = b])
         /\ \A w : r.status = "QUEUED" => /\ Ordered(ClaimedRow(r, w))
                                          /\ UpTo(ClaimedRow(r, w).stage, "extraction")
         /\ r.status = "PROCESSING" =>
              /\ Ordered(WithStages(r, {}, "COMPLETED"))
              /\ Ordered(FailedRow(r, InterruptedStage(r.stage)))
         /\ r.status # "ABSENT" => Ordered(UnpublishedRow(r))
         /\ \A K : Ordered(RekeyedRow(r, K))
         /\ \A s \in {"extraction", "chunking"} :
              r.stage["upload"] = "COMPLETED" => Ordered(RequeuedRow(r, s))
<1>0. r.stage \in [Stage -> StageStatus] BY DEF Row
<1>1. /\ \A b : Ordered([r EXCEPT !.fresh = b])
      /\ \A K : Ordered(RekeyedRow(r, K))
      /\ r.status # "ABSENT" => Ordered(UnpublishedRow(r))
  BY StageColumns DEF Ordered
<1>2. ASSUME NEW w, r.status = "QUEUED"
      PROVE  Ordered(ClaimedRow(r, w)) /\ UpTo(ClaimedRow(r, w).stage, "extraction")
  BY <1>2, StageColumns, ClaimColumns DEF Ordered
<1>3. ASSUME r.status = "PROCESSING" PROVE Ordered(WithStages(r, {}, "COMPLETED"))
  <2> DEFINE q == WithStages(r, {}, "COMPLETED")
  <2>1. q.status = "PROCESSING" /\ \A t \in Stage : q.stage[t] = r.stage[t]
    BY <1>3, ClaimColumns, StageColumns
  <2> HIDE DEF q
  <2>2. Ordered(q) BY <1>3, <2>1, StageNumbers DEF Ordered, InOrder
  <2> QED BY <2>2 DEF q
<1>4. ASSUME r.status = "PROCESSING" PROVE Ordered(FailedRow(r, InterruptedStage(r.stage)))
  <2>1. /\ InOrder(r.stage) /\ r.stage["upload"] = "COMPLETED"
        /\ \A s \in Stage : r.stage[s] # "SKIPPED"
    BY <1>4 DEF Ordered
  <2>2. /\ InterruptedStage(r.stage) # "upload" /\ UpTo(r.stage, InterruptedStage(r.stage))
        /\ InterruptedStage(r.stage) \in Stage
    BY <1>0, <2>1, InterruptedUpTo, InterruptedStageType
  <2> QED BY <1>4, <2>2, OrderedWorkRows
<1>5. ASSUME NEW s \in {"extraction", "chunking"}, r.stage["upload"] = "COMPLETED"
      PROVE  Ordered(RequeuedRow(r, s))
  <2> DEFINE q == RequeuedRow(r, s)
  <2>1. /\ \A t \in Stage : q.stage[t] = IF t \in FromStage(s) THEN "PENDING" ELSE r.stage[t]
        /\ q.status = "QUEUED"
    BY EndColumns
  <2> HIDE DEF q
  <2>2. \A t \in Stage : t = "upload" \/ t = "extraction" \/ StageNo[t] >= 3
    BY StageSet DEF StageNo
  <2>3. {t \in Stage : StageNo[t] >= 3} \subseteq FromStage(s) /\ "upload" \notin FromStage(s)
    <3>1. StageNo[s] \in {2, 3} /\ \A t \in Stage : StageNo[t] \in 1..5 BY StageNumbers, StageSet
    <3> QED BY <3>1, StageNumbers DEF FromStage
  <2>4. q.stage["upload"] = "COMPLETED" /\ \A t \in Stage : StageNo[t] >= 3 => q.stage[t] = "PENDING"
    BY <1>5, <2>1, <2>3, StageNumbers
  <2>5. UpTo(q.stage, "extraction")
    <3>1. \A t \in Stage : StageNo[t] < 2 => t = "upload" BY StageSet DEF StageNo
    <3>2. \A t \in Stage : 2 < StageNo[t] => StageNo[t] >= 3 BY StageSet
    <3> QED BY <2>4, <3>1, <3>2, StageNumbers DEF UpTo
  <2>6. InOrder(q.stage) BY <2>5, UpToInOrder, StageNumbers
  <2>7. \A t \in Stage : q.stage[t] # "SKIPPED" BY <1>5, <2>1 DEF Ordered
  <2>8. Ordered(q) BY <2>1, <2>4, <2>5, <2>6, <2>7 DEF Ordered
  <2> QED BY <2>8 DEF q
<1> QED BY <1>1, <1>2, <1>3, <1>4, <1>5

LEMMA OrderedInserts ==
  ASSUME NEW c, NEW K
  PROVE  Ordered(NoRow) /\ Ordered(AcceptedRow(c, K)) /\ Ordered(RejectedRow(c, K))
<1>1. Ordered(NoRow)
  BY StageNumbers DEF Ordered, NoRow
<1>2. Ordered(RejectedRow(c, K))
  BY InsertColumns, StageNumbers DEF Ordered
<1>3. Ordered(AcceptedRow(c, K))
  <2> DEFINE q == AcceptedRow(c, K)
  <2>1. /\ \A t \in Stage : q.stage[t] = IF t = "upload" THEN "COMPLETED" ELSE "PENDING"
        /\ q.status = "QUEUED"
    BY InsertColumns
  <2> HIDE DEF q
  <2>2. UpTo(q.stage, "extraction")
    <3>1. \A t \in Stage : StageNo[t] < 2 => t = "upload" BY StageSet DEF StageNo
    <3>2. \A t \in Stage : 2 < StageNo[t] => t # "upload" BY StageNumbers
    <3> QED BY <2>1, <3>1, <3>2, StageNumbers DEF UpTo
  <2>3. InOrder(q.stage) BY <2>2, UpToInOrder, StageNumbers
  <2>4. Ordered(q) BY <2>1, <2>2, <2>3, StageNumbers DEF Ordered
  <2> QED BY <2>4 DEF q
<1> QED BY <1>1, <1>2, <1>3

(* A step that writes at most one row, and whoever is at work afterwards   *)
(* has either not moved, and not seen its row change, or is in place.      *)
LEMMA OrderStep ==
  ASSUME TypeOK, StageInv, NEW d \in Doc, NEW new, Put(d, new), Ordered(new),
         row[d].stage["upload"] = "COMPLETED" => new.stage["upload"] = "COMPLETED",
         \A w \in Worker : AtWork(w)' =>
           \/ work'[w] = work[w] /\ (work[w].doc # d \/ new.stage = row[d].stage)
           \/ InPlace(work'[w], row'[work'[w].doc].stage),
         \A r \in Request : req'[r] = req[r] \/ req'[r] = IdleReq
  PROVE  StageInv'
<1>1. \A e \in Doc : row'[e] = IF e = d THEN new ELSE row[e]
  BY DEF Put, TypeOK
<1>2. \A e \in Doc : Ordered(row[e])'
  <2> SUFFICES ASSUME NEW e \in Doc PROVE Ordered(row'[e])
    BY DEF Ordered
  <2> QED BY <1>1 DEF StageInv
<1>3. ASSUME NEW w \in Worker, AtWork(w)' PROVE InPlace(work'[w], row'[work'[w].doc].stage)
  <2>1. CASE work'[w] = work[w] /\ (work[w].doc # d \/ new.stage = row[d].stage)
    <3>1. AtWork(w) BY <1>3, <2>1 DEF AtWork, Working
    <3>2. work[w].doc \in Doc
      BY <3>1 DEF AtWork, Working, Pipeline, DocPhase, TypeOK, WorkState
    <3>3. row'[work[w].doc].stage = row[work[w].doc].stage BY <1>1, <2>1, <3>2
    <3>4. InPlace(work[w], row[work[w].doc].stage) BY <3>1 DEF StageInv
    <3> QED BY <2>1, <3>3, <3>4
  <2> QED BY <1>3, <2>1
<1>4. ASSUME NEW r \in Request PROVE Resumes(req[r])'
  <2>1. CASE req'[r] = IdleReq BY <2>1 DEF Resumes, IdleReq
  <2>2. CASE req'[r] = req[r] /\ req[r].phase \in {"retry", "republish"}
    <3>1. Resumes(req[r]) BY DEF StageInv
    <3>2. req[r].doc \in Doc BY <2>2 DEF TypeOK, ReqState, AdminPhase
    <3>3. row'[req[r].doc].stage["upload"] = "COMPLETED"
      BY <1>1, <2>2, <3>1, <3>2 DEF Resumes
    <3> QED BY <2>2, <3>1, <3>3 DEF Resumes
  <2>3. CASE req'[r] = req[r] /\ req[r].phase \notin {"retry", "republish"}
    BY <2>3 DEF Resumes
  <2> QED BY <2>1, <2>2, <2>3
<1>5. \A w \in Worker : (AtWork(w) => InPlace(work[w], row[work[w].doc].stage))'
  BY <1>3 DEF InPlace, UpTo
<1> QED BY <1>2, <1>4, <1>5 DEF StageInv

LEMMA OrderFrame ==
  ASSUME StageInv, UNCHANGED row,
         \A w \in Worker : AtWork(w)' =>
           work'[w] = work[w] \/ InPlace(work'[w], row'[work'[w].doc].stage),
         \A r \in Request : req'[r] = req[r] \/ Resumes(req[r])'
  PROVE  StageInv'
<1>1. \A d \in Doc : Ordered(row[d])'
  BY DEF StageInv, Ordered, InOrder, UpTo
<1>2. ASSUME NEW w \in Worker, AtWork(w)' PROVE InPlace(work'[w], row'[work'[w].doc].stage)
  <2>1. CASE work'[w] = work[w]
    <3>1. AtWork(w) BY <1>2, <2>1 DEF AtWork, Working
    <3> QED BY <2>1, <3>1 DEF StageInv
  <2> QED BY <1>2, <2>1
<1>3. \A w \in Worker : (AtWork(w) => InPlace(work[w], row[work[w].doc].stage))'
  BY <1>2 DEF InPlace, UpTo
<1>4. \A r \in Request : Resumes(req[r])'
  BY DEF StageInv, Resumes
<1> QED BY <1>1, <1>3, <1>4 DEF StageInv

(* A worker's loop and its end.                                            *)
LEMMA OrderLoop ==
  ASSUME TypeOK, OwnsDocument, StageInv, NEW w \in Worker,
         \/ Start(w) \/ FindStale(w) \/ (\E d \in Doc : RecoverOne(w, d)) \/ Recovered(w)
         \/ Pick(w) \/ Claim(w) \/ Reread(w) \/ Wake(w) \/ RegistryFault(w)
         \/ Stop(w) \/ Release(w) \/ ReleaseFails(w) \/ Crash(w) \/ Heartbeat(w)
  PROVE  StageInv'
<1> DEFINE d == work[w].doc
<1>0. /\ row \in [Doc -> Row] /\ work \in [Worker -> WorkState] /\ work[w] \in WorkState
      /\ \A e \in Doc : row[e] \in Row /\ Ordered(row[e])
      /\ work[w].phase \in DocPhase => d \in Doc
  BY DEF TypeOK, WorkState, StageInv
<1>1. \A v \in Worker \ {w} : work'[v] = work[v]
  BY <1>0 DEF Start, FindStale, RecoverOne, Recovered, Pick, Claim, Reread, Wake, RegistryFault,
         Stop, Release, ReleaseFails, Crash, Heartbeat, Goto, Leave
<1>2. UNCHANGED req
  BY DEF Start, FindStale, RecoverOne, Recovered, Pick, Claim, Reread, Wake, RegistryFault,
         Stop, Release, ReleaseFails, Crash, Heartbeat, stores
<1>3. ASSUME UNCHANGED row,
             AtWork(w)' => work'[w] = work[w] \/ InPlace(work'[w], row'[work'[w].doc].stage)
      PROVE  StageInv'
  BY <1>1, <1>2, <1>3, OrderFrame
<1>4. ASSUME NEW e \in Doc, NEW new, Put(e, new), Ordered(new), ~AtWork(w)',
             \A v \in Worker \ {w} : AtWork(v) => work[v].doc # e,
             row[e].stage["upload"] = "COMPLETED" => new.stage["upload"] = "COMPLETED"
      PROVE  StageInv'
  <2>1. ASSUME NEW v \in Worker, AtWork(v)' PROVE work'[v] = work[v] /\ work[v].doc # e
    <3>1. v # w /\ work'[v] = work[v] BY <1>1, <1>4, <2>1
    <3>2. AtWork(v) BY <2>1, <3>1 DEF AtWork, Working
    <3> QED BY <1>4, <3>1, <3>2
  <2> QED BY <1>2, <1>4, <2>1, OrderStep
<1>5. CASE Start(w) \/ FindStale(w) \/ Recovered(w) \/ Wake(w)
  <2>1. UNCHANGED row /\ ~AtWork(w)'
    BY <1>0, <1>5 DEF Start, FindStale, Recovered, Wake, Goto, AtWork, Working, Pipeline, WorkState
  <2> QED BY <1>3, <2>1
<1>6. CASE Pick(w) \/ ReleaseFails(w) \/ Crash(w)
  <2>1. UNCHANGED row /\ ~AtWork(w)'
    BY <1>0, <1>6 DEF Pick, ReleaseFails, Crash, Loop, AtWork, Working, Pipeline, WorkState
  <2> QED BY <1>3, <2>1
<1>7. CASE Stop(w)
  <2>1. UNCHANGED row /\ ~AtWork(w)'
    BY <1>0, <1>7 DEF Stop, Loop, AtWork, Working, Pipeline, WorkState
  <2> QED BY <1>3, <2>1
<1>8. CASE Reread(w)
  <2>1. /\ UNCHANGED row /\ work'[w].phase = "begin" /\ work'[w].doc = d /\ d \in Doc
        /\ work'[w].stage \in {"extraction", "chunking"}
        /\ work'[w].stage = "chunking" => row[d].stage["extraction"] = "COMPLETED"
    BY <1>0, <1>8 DEF Reread, WorkState, DocPhase
  <2>2. UpTo(row[d].stage, "extraction")
    BY <1>8 DEF StageInv, AtWork, InPlace, Reread
  <2>3. NextStage("extraction") = "chunking"
    BY DEF NextStage, StageNo, KB_STAGES
  <2>4. UpTo(row[d].stage, work'[w].stage)
    BY <2>1, <2>2, <2>3, UpToNext, StageNumbers
  <2>5. InPlace(work'[w], row[d].stage)
    BY <2>1, <2>4 DEF InPlace
  <2> QED BY <1>3, <2>1, <2>5
<1>9. CASE RegistryFault(w)
  <2>1. CASE work[w].phase \in Pipeline /\ AtWork(w)'
    <3>1. UNCHANGED row /\ work'[w] = [work[w] EXCEPT !.phase = "failing"]
      BY <1>0, <1>9, <2>1 DEF RegistryFault, Goto, Leave, Loop, AtWork, Working, Pipeline
    <3>2. AtWork(w) /\ InPlace(work[w], row[d].stage)
      BY <2>1 DEF StageInv, AtWork, Working
    <3>3. work'[w].phase = "failing" /\ work'[w].doc = d /\ work'[w].stage = work[w].stage
      BY <1>0, <3>1 DEF WorkState
    <3>4. InPlace(work'[w], row'[work'[w].doc].stage)
      BY <2>1, <3>1, <3>2, <3>3 DEF InPlace
    <3> QED BY <1>3, <3>1, <3>4
  <2>2. CASE ~(work[w].phase \in Pipeline /\ AtWork(w)')
    <3>1. UNCHANGED row /\ ~AtWork(w)'
      BY <1>0, <1>9, <2>2 DEF RegistryFault, Goto, Leave, Loop, AtWork, Working, Pipeline
    <3> QED BY <1>3, <3>1
  <2> QED BY <2>1, <2>2
<1>10. CASE Claim(w)
  <2>1. d \in Doc BY <1>0, <1>10 DEF Claim, DocPhase
  <2>2. CASE Expect(d, {"QUEUED"}) /\ Put(d, ClaimedRow(row[d], w)) /\ Goto(w, "reread")
    <3>1. row[d].status = "QUEUED" BY <2>2 DEF Expect
    <3>2. Ordered(ClaimedRow(row[d], w)) /\ UpTo(ClaimedRow(row[d], w).stage, "extraction")
      BY <1>0, <2>1, <3>1, OrderedRows
    <3>3. ClaimedRow(row[d], w).stage = row[d].stage BY <1>0, <2>1, StageColumns
    <3>4. work'[w].phase = "reread" /\ work'[w].doc = d
      BY <1>0, <2>2 DEF Goto, WorkState
    <3>5. row'[d] = ClaimedRow(row[d], w) BY <1>0, <2>1, <2>2 DEF Put
    <3>6. InPlace(work'[w], row'[work'[w].doc].stage)
      BY <3>2, <3>4, <3>5 DEF InPlace, Pipeline
    <3>7. \A v \in Worker : AtWork(v)' =>
            \/ work'[v] = work[v] /\ (work[v].doc # d \/ ClaimedRow(row[d], w).stage = row[d].stage)
            \/ InPlace(work'[v], row'[work'[v].doc].stage)
      BY <1>1, <3>3, <3>6
    <3> HIDE DEF d
    <3> QED BY <1>2, <2>1, <2>2, <3>2, <3>3, <3>7, OrderStep
  <2>3. CASE UNCHANGED row /\ work' = [work EXCEPT ![w] =
                                         [Loop("claim") EXCEPT !.tries = work[w].tries + 1]]
    <3>1. ~AtWork(w)' BY <1>0, <2>3 DEF Loop, AtWork, Working, Pipeline
    <3> QED BY <1>3, <2>3, <3>1
  <2> QED BY <1>10, <2>2, <2>3 DEF Claim
<1>11. ASSUME NEW e \in Doc, RecoverOne(w, e) PROVE StageInv'
  <2>1. ~AtWork(w)'
    BY <1>0, <1>11 DEF RecoverOne, AtWork, Working, Pipeline, WorkState
  <2>2. CASE Expect(e, {"PROCESSING"}) /\ ~row[e].fresh
    <3> DEFINE new == FailedRow(row[e], InterruptedStage(row[e].stage))
    <3>1. row[e].status = "PROCESSING" /\ Put(e, new) BY <1>11, <2>2 DEF RecoverOne, Expect
    <3>2. Ordered(new) BY <1>0, <3>1, OrderedRows
    <3>3. \A v \in Worker : AtWork(v) => work[v].doc # e BY <2>2 DEF OwnsDocument
    <3>4. new.stage["upload"] = "COMPLETED"
      <4>1. /\ InOrder(row[e].stage) /\ row[e].stage["upload"] = "COMPLETED"
            /\ \A s \in Stage : row[e].stage[s] # "SKIPPED" /\ row[e].stage \in [Stage -> StageStatus]
        BY <1>0, <3>1 DEF Ordered, Row
      <4>2. InterruptedStage(row[e].stage) # "upload" BY <4>1, InterruptedUpTo, StageNumbers
      <4> QED BY <1>0, <4>1, <4>2, EndColumns, StageNumbers
    <3> HIDE DEF new
    <3> QED BY <1>4, <2>1, <3>1, <3>2, <3>3, <3>4
  <2>3. CASE ~(Expect(e, {"PROCESSING"}) /\ ~row[e].fresh)
    BY <1>3, <1>11, <2>1, <2>3 DEF RecoverOne
  <2> QED BY <2>2, <2>3
<1>12. CASE Release(w)
  <2>1. ~AtWork(w)' /\ d \in Doc
    BY <1>0, <1>12 DEF Release, Loop, AtWork, Working, Pipeline, WorkState, DocPhase
  <2>2. CASE Expect(d, {"PROCESSING"}) /\ row[d].owner = w
    <3> DEFINE new == FailedRow(row[d], InterruptedStage(row[d].stage))
    <3>1. row[d].status = "PROCESSING" /\ Put(d, new) BY <1>12, <2>2 DEF Release, Expect
    <3>2. Ordered(new) BY <1>0, <2>1, <3>1, OrderedRows
    <3>3. \A v \in Worker \ {w} : AtWork(v) => work[v].doc # d BY <2>2 DEF OwnsDocument
    <3>4. new.stage["upload"] = "COMPLETED"
      <4>1. /\ InOrder(row[d].stage) /\ row[d].stage["upload"] = "COMPLETED"
            /\ \A s \in Stage : row[d].stage[s] # "SKIPPED" /\ row[d].stage \in [Stage -> StageStatus]
        BY <1>0, <2>1, <3>1 DEF Ordered, Row
      <4>2. InterruptedStage(row[d].stage) # "upload" BY <4>1, InterruptedUpTo, StageNumbers
      <4> QED BY <1>0, <2>1, <4>1, <4>2, EndColumns, StageNumbers
    <3> HIDE DEF new, d
    <3> QED BY <1>4, <2>1, <3>1, <3>2, <3>3, <3>4
  <2>3. CASE ~(Expect(d, {"PROCESSING"}) /\ row[d].owner = w)
    BY <1>3, <1>12, <2>1, <2>3 DEF Release
  <2> QED BY <2>2, <2>3
<1>13. CASE Heartbeat(w)
  <2>1. Put(d, [row[d] EXCEPT !.fresh = TRUE]) /\ UNCHANGED work /\ d \in Doc
    BY <1>0, <1>13 DEF Heartbeat, Working, DocPhase
  <2>2. Ordered([row[d] EXCEPT !.fresh = TRUE]) /\ [row[d] EXCEPT !.fresh = TRUE].stage = row[d].stage
    BY <1>0, <2>1, OrderedRows, StageColumns
  <2> HIDE DEF d
  <2> QED BY <1>2, <2>1, <2>2, OrderStep
<1> QED BY <1>5, <1>6, <1>7, <1>8, <1>9, <1>10, <1>11, <1>12, <1>13

(* A worker's pipeline: it is in place, and its row is its own.            *)
LEMMA OrderPipeline ==
  ASSUME TypeOK, OwnsDocument, StageInv, NEW w \in Worker,
         \/ BeginStage(w) \/ RunStage(w) \/ PublishStage(w) \/ StageFails(w)
         \/ CompleteStage(w) \/ Results(w) \/ FinishPublished(w) \/ FinishFailed(w)
  PROVE  StageInv'
<1> DEFINE d == work[w].doc
           s == work[w].stage
<1>0. /\ row \in [Doc -> Row] /\ work \in [Worker -> WorkState] /\ work[w] \in WorkState
      /\ AtWork(w) /\ work[w].phase \in Pipeline /\ s \in Stage
  BY DEF TypeOK, WorkState, AtWork, Working, Pipeline, BeginStage, RunStage, PublishStage, StageFails,
         CompleteStage, Results, FinishPublished, FinishFailed
<1>1. /\ d \in Doc /\ row[d] \in Row /\ Ordered(row[d]) /\ row[d].status = "PROCESSING"
      /\ s # "upload" /\ UpTo(row[d].stage, s)
      /\ work[w].phase = "results" => row[d].stage[s] = "COMPLETED"
      /\ row[d].stage["upload"] = "COMPLETED"
  BY <1>0, OneAtWork DEF OwnsDocument, StageInv, InPlace, Ordered
<1>2. UNCHANGED req /\ \A v \in Worker \ {w} : work'[v] = work[v]
  BY <1>0 DEF BeginStage, RunStage, PublishStage, StageFails, CompleteStage, Results,
         FinishPublished, FinishFailed, UpdateOrAbandon, Goto, Leave, stores
<1>3. ASSUME UNCHANGED row, InPlace(work'[w], row[work'[w].doc].stage) PROVE StageInv'
  <2>1. InPlace(work'[w], row'[work'[w].doc].stage) BY <1>3
  <2> QED BY <1>2, <1>3, <2>1, OrderFrame
<1>4. ASSUME NEW new, NEW next, UpdateOrAbandon(w, new, next), Ordered(new),
             \A t \in Stage : t # s => new.stage[t] = row[d].stage[t],
             next => ~AtWork(w)' \/ (work'[w].doc = d /\ InPlace(work'[w], new.stage))
      PROVE  StageInv'
  <2>1. Put(d, new) /\ next BY <1>1, <1>4 DEF UpdateOrAbandon, Expect
  <2>2. row'[d] = new BY <1>0, <1>1, <2>1 DEF Put
  <2>3. ASSUME NEW v \in Worker, AtWork(v)'
        PROVE  \/ work'[v] = work[v] /\ (work[v].doc # d \/ new.stage = row[d].stage)
               \/ InPlace(work'[v], row'[work'[v].doc].stage)
    <3>1. CASE v = w
      <4>1. work'[w].doc = d /\ InPlace(work'[w], new.stage) BY <1>4, <2>1, <2>3, <3>1
      <4> QED BY <2>2, <3>1, <4>1
    <3>2. CASE v # w
      <4>1. AtWork(v) BY <1>2, <2>3, <3>2 DEF AtWork, Working
      <4> QED BY <1>0, <1>2, <3>2, <4>1, OneAtWork
    <3> QED BY <3>1, <3>2
  <2>4. new.stage["upload"] = "COMPLETED" BY <1>1, <1>4, StageNumbers
  <2> HIDE DEF d, s
  <2> QED BY <1>1, <1>2, <1>4, <2>1, <2>3, <2>4, OrderStep
<1>5. CASE BeginStage(w)
  <2> DEFINE new == WithStages(row[d], {s}, "RUNNING")
  <2>1. Ordered(new) /\ UpTo(new.stage, s) BY <1>0, <1>1, OrderedWorkRows
  <2>2. \A t \in Stage : t # s => new.stage[t] = row[d].stage[t] BY <1>1, StageColumns
  <2>3. Goto(w, "run") => work'[w].doc = d /\ work'[w].phase = "run" /\ work'[w].stage = s
    BY <1>0 DEF Goto, WorkState
  <2>4. UpdateOrAbandon(w, new, Goto(w, "run")) BY <1>5 DEF BeginStage
  <2> HIDE DEF new
  <2>5. Goto(w, "run") => work'[w].doc = d /\ InPlace(work'[w], new.stage)
    BY <1>1, <2>1, <2>3 DEF InPlace
  <2> QED BY <1>4, <2>1, <2>2, <2>4, <2>5
<1>6. CASE RunStage(w) \/ PublishStage(w) \/ StageFails(w)
  <2>1. /\ UNCHANGED row /\ work'[w].doc = d /\ work'[w].stage = s
        /\ work'[w].phase \in {"done", "failing"}
    BY <1>0, <1>6 DEF RunStage, PublishStage, StageFails, Goto, WorkState
  <2>2. InPlace(work'[w], row[work'[w].doc].stage)
    BY <1>1, <2>1 DEF InPlace
  <2> QED BY <1>3, <2>1, <2>2
<1>7. CASE CompleteStage(w)
  <2> DEFINE new == WithStages(row[d], {s}, "COMPLETED")
  <2>1. Ordered(new) /\ UpTo(new.stage, s) /\ new.stage[s] = "COMPLETED"
    BY <1>0, <1>1, OrderedWorkRows
  <2>2. \A t \in Stage : t # s => new.stage[t] = row[d].stage[t] BY <1>1, StageColumns
  <2>3. Goto(w, "results") => work'[w].doc = d /\ work'[w].phase = "results" /\ work'[w].stage = s
    BY <1>0 DEF Goto, WorkState
  <2>4. UpdateOrAbandon(w, new, Goto(w, "results")) BY <1>7 DEF CompleteStage
  <2> HIDE DEF new
  <2>5. Goto(w, "results") => work'[w].doc = d /\ InPlace(work'[w], new.stage)
    BY <1>1, <2>1, <2>3 DEF InPlace
  <2> QED BY <1>4, <2>1, <2>2, <2>4, <2>5
<1>8. CASE Results(w)
  <2> DEFINE new == WithStages(row[d], {}, "COMPLETED")
             next == work' = [work EXCEPT ![w].phase = "begin", ![w].stage = NextStage(work[w].stage)]
  <2>1. Ordered(new) /\ \A t \in Stage : new.stage[t] = row[d].stage[t]
    BY <1>1, OrderedRows, StageColumns
  <2>2. s # "publishing" /\ row[d].stage[s] = "COMPLETED"
    BY <1>0, <1>1, <1>8 DEF Results, WorkState
  <2>3. NextStage(s) \in Stage /\ NextStage(s) # "upload" /\ UpTo(row[d].stage, NextStage(s))
    BY <1>0, <1>1, <2>2, UpToNext
  <2>4. next => work'[w].doc = d /\ work'[w].phase = "begin" /\ work'[w].stage = NextStage(s)
    BY <1>0 DEF WorkState
  <2>5. UpdateOrAbandon(w, new, next) BY <1>8 DEF Results
  <2> HIDE DEF new, next
  <2>6. UpTo(new.stage, NextStage(s)) BY <2>1, <2>3, UpToKept
  <2>7. next => work'[w].doc = d /\ InPlace(work'[w], new.stage)
    BY <2>3, <2>4, <2>6 DEF InPlace
  <2> QED BY <1>4, <2>1, <2>5, <2>7
<1>9. CASE FinishPublished(w)
  <2> DEFINE new == PublishedRow(row[d])
  <2>1. s = "publishing" /\ UpdateOrAbandon(w, new, Leave(w)) BY <1>9 DEF FinishPublished
  <2>2. Ordered(new) BY <1>0, <1>1, <2>1, OrderedWorkRows
  <2>3. \A t \in Stage : t # s => new.stage[t] = row[d].stage[t] BY <1>1, <2>1, EndColumns
  <2>4. Leave(w) => ~AtWork(w)' BY <1>0 DEF Leave, Loop, AtWork, Working, Pipeline
  <2> HIDE DEF new
  <2> QED BY <1>4, <2>1, <2>2, <2>3, <2>4
<1>10. CASE FinishFailed(w)
  <2> DEFINE new == FailedRow(row[d], s)
  <2>1. UpdateOrAbandon(w, new, Leave(w)) BY <1>10 DEF FinishFailed
  <2>2. Ordered(new) BY <1>0, <1>1, OrderedWorkRows
  <2>3. \A t \in Stage : t # s => new.stage[t] = row[d].stage[t] BY <1>1, EndColumns
  <2>4. Leave(w) => ~AtWork(w)' BY <1>0 DEF Leave, Loop, AtWork, Working, Pipeline
  <2> HIDE DEF new
  <2> QED BY <1>4, <2>1, <2>2, <2>3, <2>4
<1> QED BY <1>5, <1>6, <1>7, <1>8, <1>9, <1>10

(* Requests write to rows nobody is at work on, and keep them in order.    *)
LEMMA OrderRequest ==
  ASSUME TypeOK, OwnsDocument, StageInv, NEW r \in Request, RequestStep(r)
  PROVE  StageInv'
<1>0. /\ row \in [Doc -> Row] /\ req \in [Request -> ReqState] /\ req[r] \in ReqState
      /\ \A e \in Doc : row[e] \in Row /\ Ordered(row[e])
      /\ Resumes(req[r])
  BY DEF TypeOK, StageInv
<1>1. UNCHANGED work /\ \A q \in Request \ {r} : req'[q] = req[q]
  BY <1>0 DEF RequestStep, UploadFile, CheckDuplicate, InsertQueued, InsertRejected, InsertCutOff,
         RetryRead, RepublishRead, UnpublishRead, QueuesRead, RetryWrite, RepublishWrite,
         RoundsUsedUp, UnpublishKb, UnpublishRow, QueuesKb, QueuesRow, KbRefuses, Abort,
         Ask, Done, Advance, UpdateOrConflict
<1>2. ASSUME UNCHANGED row, Resumes(req[r])' PROVE StageInv'
  <2>1. \A q \in Request : req'[q] = req[q] \/ Resumes(req[q])' BY <1>1, <1>2
  <2>2. \A w \in Worker : work'[w] = work[w] BY <1>1
  <2> QED BY <1>2, <2>1, <2>2, OrderFrame
<1>3. ASSUME NEW e \in Doc, NEW new, Put(e, new) \/ UNCHANGED row, Put(e, new) => Ordered(new),
             \A w \in Worker : AtWork(w) => work[w].doc # e \/ UNCHANGED row,
             row[e].stage["upload"] = "COMPLETED" => new.stage["upload"] = "COMPLETED",
             Done(r)
      PROVE  StageInv'
  <2>1. req'[r] = IdleReq BY <1>0, <1>3 DEF Done
  <2>2. CASE UNCHANGED row
    <3>1. Resumes(req[r])' BY <2>1 DEF Resumes, IdleReq
    <3> QED BY <1>2, <2>2, <3>1
  <2>3. CASE Put(e, new) /\ ~UNCHANGED row
    <3>1. ASSUME NEW w \in Worker, AtWork(w)' PROVE work'[w] = work[w] /\ work[w].doc # e
      <4>1. work'[w] = work[w] /\ AtWork(w) BY <1>1, <3>1 DEF AtWork, Working
      <4> QED BY <1>3, <2>3, <4>1
    <3>2. \A q \in Request : req'[q] = req[q] \/ req'[q] = IdleReq BY <1>1, <2>1
    <3> QED BY <1>3, <2>3, <3>1, <3>2, OrderStep
  <2> QED BY <1>3, <2>2, <2>3
<1>4. ASSUME NEW e \in Doc, row[e].status # "PROCESSING"
      PROVE  \A w \in Worker : AtWork(w) => work[w].doc # e
  BY <1>4 DEF OwnsDocument
<1>5. CASE \/ \E c \in Content, K \in SUBSET Queue : UploadFile(r, c, K)
           \/ CheckDuplicate(r)
           \/ \E d \in Doc : UnpublishRead(r, d)
           \/ \E d \in Doc, K \in SUBSET Queue : QueuesRead(r, d, K)
           \/ RoundsUsedUp(r) \/ UnpublishKb(r) \/ QueuesKb(r) \/ KbRefuses(r) \/ Abort(r)
  <2>1. UNCHANGED row
    BY <1>5 DEF UploadFile, CheckDuplicate, UnpublishRead, QueuesRead,
           RoundsUsedUp, UnpublishKb, QueuesKb, KbRefuses, Abort
  <2>2. req'[r].phase \notin {"retry", "republish"}
    <3>1. CASE \/ \E c \in Content, K \in SUBSET Queue : UploadFile(r, c, K)
               \/ \E d \in Doc : UnpublishRead(r, d)
               \/ \E d \in Doc, K \in SUBSET Queue : QueuesRead(r, d, K)
      BY <1>0, <3>1 DEF UploadFile, UnpublishRead, QueuesRead, Ask, IdleReq
    <3>2. CASE CheckDuplicate(r) \/ UnpublishKb(r) \/ QueuesKb(r)
      BY <1>0, <3>2 DEF CheckDuplicate, UnpublishKb, QueuesKb, Advance, ReqState
    <3>3. CASE RoundsUsedUp(r) \/ KbRefuses(r) \/ Abort(r)
      BY <1>0, <3>3 DEF RoundsUsedUp, KbRefuses, Abort, Done, IdleReq
    <3> QED BY <1>5, <3>1, <3>2, <3>3
  <2>3. Resumes(req[r])' BY <2>2 DEF Resumes
  <2> QED BY <1>2, <2>1, <2>3
<1>6. ASSUME NEW d \in Doc, RetryRead(r, d) PROVE StageInv'
  <2>1. /\ UNCHANGED row /\ row[d].status = "FAILED" /\ row[d].stage["upload"] # "FAILED"
        /\ req'[r].phase = "retry" /\ req'[r].doc = d /\ req'[r].from \in {"extraction", "chunking"}
    BY <1>0, <1>6 DEF RetryRead, Ask, IdleReq
  <2>2. row[d].stage["upload"] = "COMPLETED" BY <1>0, <2>1 DEF Ordered
  <2>3. Resumes(req[r])' BY <2>1, <2>2 DEF Resumes
  <2> QED BY <1>2, <2>1, <2>3
<1>7. ASSUME NEW d \in Doc, RepublishRead(r, d) PROVE StageInv'
  <2>1. /\ UNCHANGED row /\ req'[r].phase = "republish" /\ req'[r].doc = d
        /\ row[d].status = "PUBLISHED" \/ row[d].stage["extraction"] = "COMPLETED"
    BY <1>0, <1>7 DEF RepublishRead, Ask, IdleReq
  <2>2. row[d].stage["upload"] = "COMPLETED" BY <1>0, <2>1 DEF Ordered
  <2>3. Resumes(req[r])' BY <2>1, <2>2 DEF Resumes
  <2> QED BY <1>2, <2>1, <2>3
<1>8. CASE InsertQueued(r) \/ InsertRejected(r) \/ InsertCutOff(r)
  <2>1. PICK d \in Doc : /\ row[d].status = "ABSENT" /\ Done(r)
                         /\ \/ Put(d, AcceptedRow(req[r].content, req[r].keys))
                            \/ Put(d, RejectedRow(req[r].content, req[r].keys))
    BY <1>8 DEF InsertQueued, InsertRejected, InsertCutOff, IsOldest, Free
  <2>2. /\ Ordered(AcceptedRow(req[r].content, req[r].keys))
        /\ Ordered(RejectedRow(req[r].content, req[r].keys))
    BY OrderedInserts
  <2>3. row[d].stage["upload"] # "COMPLETED" BY <1>0, <2>1 DEF Ordered
  <2>4. \A w \in Worker : AtWork(w) => work[w].doc # d BY <1>4, <2>1
  <2>5. PICK new : Put(d, new) /\ Ordered(new) BY <2>1, <2>2
  <2> QED BY <1>3, <2>1, <2>3, <2>4, <2>5
<1>9. ASSUME NEW d \in Doc, NEW new, NEW S, UpdateOrConflict(r, d, S, new), "PROCESSING" \notin S,
             row[d].status \in S => Ordered(new), new.stage["upload"] = row[d].stage["upload"]
      PROVE  StageInv'
  <2>1. Done(r) BY <1>9 DEF UpdateOrConflict
  <2>2. CASE Expect(d, S)
    <3>1. Put(d, new) /\ Ordered(new) /\ row[d].status # "PROCESSING"
      BY <1>9, <2>2 DEF UpdateOrConflict, Expect
    <3>2. \A w \in Worker : AtWork(w) => work[w].doc # d BY <1>4, <3>1
    <3> QED BY <1>3, <1>9, <2>1, <3>1, <3>2
  <2>3. CASE ~Expect(d, S)
    <3>1. UNCHANGED row BY <1>9, <2>3 DEF UpdateOrConflict
    <3>2. Resumes(req[r])' BY <1>0, <2>1 DEF Resumes, Done, IdleReq
    <3> QED BY <1>2, <3>1, <3>2
  <2> QED BY <2>2, <2>3
<1>10. req[r].phase \in AdminPhase => req[r].doc \in Doc
  BY <1>0 DEF ReqState
<1>11. ASSUME NEW d \in Doc, NEW s \in {"extraction", "chunking"}, row[d].stage["upload"] = "COMPLETED"
       PROVE  /\ Ordered(RequeuedRow(row[d], s))
              /\ RequeuedRow(row[d], s).stage["upload"] = row[d].stage["upload"]
  <2>1. "upload" \notin FromStage(s) BY StageNumbers DEF FromStage
  <2> QED BY <1>0, <1>11, <2>1, OrderedRows, EndColumns, StageNumbers
<1>12. CASE RetryWrite(r)
  <2> DEFINE d == req[r].doc
             new == RequeuedRow(row[d], req[r].from)
  <2>1. /\ d \in Doc /\ row[d].stage["upload"] = "COMPLETED"
        /\ req[r].from \in {"extraction", "chunking"}
    BY <1>0, <1>10, <1>12 DEF RetryWrite, AdminPhase, Resumes
  <2>2. Ordered(new) /\ new.stage["upload"] = row[d].stage["upload"] BY <1>11, <2>1
  <2>3. UpdateOrConflict(r, d, {"FAILED"}, new) BY <1>12 DEF RetryWrite
  <2> HIDE DEF d, new
  <2> QED BY <1>9, <2>1, <2>2, <2>3
<1>13. CASE RepublishWrite(r)
  <2> DEFINE d == req[r].doc
             new == RequeuedRow(row[d], "chunking")
  <2>1. d \in Doc /\ row[d].stage["upload"] = "COMPLETED"
    BY <1>0, <1>10, <1>13 DEF RepublishWrite, AdminPhase, Resumes
  <2>2. Ordered(new) /\ new.stage["upload"] = row[d].stage["upload"] BY <1>11, <2>1
  <2>3. UpdateOrConflict(r, d, {"PUBLISHED", "FAILED"}, new) BY <1>13 DEF RepublishWrite
  <2> HIDE DEF d, new
  <2> QED BY <1>9, <2>1, <2>2, <2>3
<1>14. CASE UnpublishRow(r)
  <2> DEFINE d == req[r].doc
             new == UnpublishedRow(row[d])
  <2>1. d \in Doc BY <1>10, <1>14 DEF UnpublishRow, AdminPhase
  <2>2. /\ row[d].status \in {"PUBLISHED", "FAILED"} => Ordered(new)
        /\ new.stage["upload"] = row[d].stage["upload"]
    BY <1>0, <2>1, OrderedRows, StageColumns
  <2>3. UpdateOrConflict(r, d, {"PUBLISHED", "FAILED"}, new) BY <1>14 DEF UnpublishRow
  <2> HIDE DEF d, new
  <2> QED BY <1>9, <2>1, <2>2, <2>3
<1>15. CASE QueuesRow(r)
  <2> DEFINE d == req[r].doc
             new == RekeyedRow(row[d], req[r].keys)
  <2>1. d \in Doc BY <1>10, <1>15 DEF QueuesRow, AdminPhase
  <2>2. Ordered(new) /\ new.stage["upload"] = row[d].stage["upload"]
    BY <1>0, <2>1, OrderedRows, StageColumns
  <2>3. \E S : UpdateOrConflict(r, d, S, new) /\ "PROCESSING" \notin S BY <1>15 DEF QueuesRow
  <2> HIDE DEF d, new
  <2> QED BY <1>9, <2>1, <2>2, <2>3
<1> QED BY <1>5, <1>6, <1>7, <1>8, <1>12, <1>13, <1>14, <1>15 DEF RequestStep

LEMMA OrderNext ==
  ASSUME "stall" \notin Hazard, TypeOK, OwnsDocument, StageInv, [Next]_vars
  PROVE  StageInv'
<1>1. ASSUME NEW w \in Worker, WorkerStep(w) \/ WorkerTrouble(w) \/ Heartbeat(w) PROVE StageInv'
  BY <1>1, OrderLoop, OrderPipeline DEF WorkerStep, WorkerTrouble
<1>2. ASSUME NEW p \in orphans, OrphanPublishes(p) PROVE StageInv'
  BY <1>2, OrderFrame DEF OrphanPublishes
<1>3. ASSUME NEW d \in Doc, GoStale(d) PROVE StageInv'
  <2>1. Put(d, [row[d] EXCEPT !.fresh = FALSE]) /\ UNCHANGED <<work, req>>
    BY <1>3 DEF GoStale
  <2>2. row[d] \in Row /\ Ordered(row[d]) BY DEF TypeOK, StageInv
  <2>3. Ordered([row[d] EXCEPT !.fresh = FALSE]) /\ [row[d] EXCEPT !.fresh = FALSE].stage = row[d].stage
    BY <2>2, OrderedRows, StageColumns
  <2> QED BY <2>1, <2>3, OrderStep
<1>4. ASSUME NEW r \in Request, RequestStep(r) PROVE StageInv'
  BY <1>4, OrderRequest
<1>5. CASE UNCHANGED vars
  BY <1>5, OrderFrame DEF vars
<1> QED BY <1>1, <1>2, <1>3, <1>4, <1>5 DEF Next

(* The stages of every accepted document are complete up to the current    *)
(* one and untouched after it, with any number of workers and requests,    *)
(* whatever crashes, fails, is cut off or outlives its worker, as long as  *)
(* no live worker loses its claim.                                         *)
THEOREM StagesFollow == "stall" \notin Hazard => (Spec => []StagesInOrder)
<1> SUFFICES ASSUME "stall" \notin Hazard PROVE Spec => []StagesInOrder
  OBVIOUS
<1>1. Init => StageInv
  <2> SUFFICES ASSUME Init PROVE StageInv
    OBVIOUS
  <2>1. \A d \in Doc : Ordered(row[d]) BY OrderedInserts DEF Init
  <2> QED BY <2>1 DEF Init, StageInv, AtWork, Working, Pipeline, Loop, Resumes, IdleReq
<1>2. TypeOK /\ OwnsDocument /\ StageInv /\ [Next]_vars => StageInv'
  BY OrderNext
<1>3. StageInv => StagesInOrder
  BY DEF StageInv, Ordered, InOrder, StagesInOrder
<1>4. Spec => []OwnsDocument
  BY Ownership
<1> QED BY <1>1, <1>2, <1>3, <1>4, TypeCorrect, PTL DEF Spec

-----------------------------------------------------------------------------
(* The knowledge base follows the registry.  No transaction spans the two, *)
(* so a request changes one after the other, and in between the rest of    *)
(* the system must leave its document alone.                               *)
Gone == [chunks |-> FALSE, queues |-> {}]
Offered(K) == [chunks |-> TRUE, queues |-> K]

\* The request has changed the knowledge base and not yet the row.
Changes(rq, d) == rq.doc = d /\ rq.phase \in {"unpublish_row", "queues_row_published"}
Changing(d) == \E r \in Request : Changes(req[r], d)

Follows(R, k, changing) ==
  /\ R.status = "PUBLISHED" /\ ~changing => k = Offered(R.keys)
  /\ R.status = "UNPUBLISHED" => k = Gone
  /\ k.queues # {} => k.chunks

\* What a request has read still holds when it writes.
Sure(rq, R, k) ==
  /\ rq.phase \in {"unpublish_kb", "unpublish_row"} => R.status \in {"PUBLISHED", "FAILED"}
  /\ rq.phase \in {"queues_kb", "queues_row_published"} => R.status = "PUBLISHED"
  /\ rq.phase = "unpublish_row" => k = Gone
  /\ rq.phase = "queues_row_published" => k = Offered(rq.keys)

\* What a worker has read and published still holds when it finishes.
Carries(wk, R, k) ==
  /\ wk.phase \in Pipeline => wk.keys = R.keys
  /\ wk.phase = "done" /\ wk.stage = "publishing" => k = Offered(wk.keys)

StoreInv ==
  /\ orphans = {}
  /\ \A d \in Doc : Follows(row[d], kb[d], Changing(d))
  /\ \A r \in Request : Sure(req[r], row[req[r].doc], kb[req[r].doc])
  /\ \A w \in Worker : Carries(work[w], row[work[w].doc], kb[work[w].doc])

\* The hypotheses of the theorems about the knowledge base: claims are kept, no
\* thread outlives its worker, and one administrator at a time, never cut off.
Orderly ==
  /\ Hazard \cap {"stall", "orphan", "abort"} = {}
  /\ \A r, s \in Request : r = s

(* A request that is about to write has its document to itself.            *)
LEMMA Apart ==
  ASSUME StoreInv, NEW d \in Doc, row[d].status \notin {"PUBLISHED", "FAILED"}
  PROVE  /\ ~Changing(d)
         /\ \A r \in Request : req[r].doc = d =>
              req[r].phase \notin {"unpublish_kb", "unpublish_row", "queues_kb", "queues_row_published"}
  BY DEF StoreInv, Sure, Changing, Changes

(* A step of a worker, or of time, at a document that is queued or being   *)
(* processed.                                                              *)
LEMMA StoreWork ==
  ASSUME TypeOK, StoreInv, NEW d \in Doc, UNCHANGED req, orphans' = {},
         row[d].status \notin {"PUBLISHED", "FAILED"},
         \A e \in Doc : e # d => row'[e] = row[e] /\ kb'[e] = kb[e],
         Follows(row'[d], kb'[d], FALSE),
         \A w \in Worker :
           \/ work'[w] = work[w] /\ (work[w].phase \in Pipeline => work[w].doc # d)
           \/ Carries(work'[w], row'[work'[w].doc], kb'[work'[w].doc])
  PROVE  StoreInv'
<1>1. ASSUME NEW e \in Doc PROVE Follows(row[e], kb[e], Changing(e))'
  <2>1. Changing(e)' <=> Changing(e) BY DEF Changing
  <2>2. CASE e = d
    <3>1. ~Changing(d)' BY <2>1, <2>2, Apart
    <3> QED BY <2>2, <3>1 DEF Follows
  <2>3. CASE e # d
    <3>1. Follows(row[e], kb[e], Changing(e)) BY DEF StoreInv
    <3> QED BY <2>1, <2>3, <3>1 DEF Follows
  <2> QED BY <2>2, <2>3
<1>2. ASSUME NEW r \in Request PROVE Sure(req[r], row[req[r].doc], kb[req[r].doc])'
  <2> DEFINE e == req[r].doc
             Busy == {"unpublish_kb", "unpublish_row", "queues_kb", "queues_row_published"}
  <2>1. CASE req[r].phase \in Busy
    <3>1. e \in Doc BY <2>1 DEF TypeOK, ReqState, AdminPhase
    <3>2. e # d BY <2>1, Apart
    <3>3. Sure(req[r], row[e], kb[e]) BY DEF StoreInv
    <3>4. row'[e] = row[e] /\ kb'[e] = kb[e] BY <3>1, <3>2
    <3> QED BY <3>3, <3>4 DEF Sure
  <2>2. CASE req[r].phase \notin Busy BY <2>2 DEF Sure
  <2> QED BY <2>1, <2>2
<1>3. ASSUME NEW w \in Worker PROVE Carries(work[w], row[work[w].doc], kb[work[w].doc])'
  <2>1. CASE work'[w] = work[w] /\ work[w].phase \in Pipeline /\ work[w].doc # d
    <3>1. work[w].doc \in Doc BY <2>1 DEF TypeOK, WorkState, DocPhase
    <3>2. row'[work[w].doc] = row[work[w].doc] /\ kb'[work[w].doc] = kb[work[w].doc]
      BY <2>1, <3>1
    <3>3. Carries(work[w], row[work[w].doc], kb[work[w].doc]) BY DEF StoreInv
    <3> QED BY <2>1, <3>2, <3>3 DEF Carries
  <2>2. CASE work'[w] = work[w] /\ work[w].phase \notin Pipeline
    BY <2>2 DEF Carries, Pipeline
  <2>3. CASE Carries(work'[w], row'[work'[w].doc], kb'[work'[w].doc])
    BY <2>3 DEF Carries
  <2> QED BY <2>1, <2>2, <2>3
<1> QED BY <1>1, <1>2, <1>3 DEF StoreInv

LEMMA StoreIdle ==
  ASSUME StoreInv, UNCHANGED <<row, kb, req>>, orphans' = {},
         \A w \in Worker : work'[w] = work[w] \/ Carries(work'[w], row[work'[w].doc], kb[work'[w].doc])
  PROVE  StoreInv'
<1>1. \A e \in Doc : Follows(row[e], kb[e], Changing(e))'
  BY DEF StoreInv, Follows, Changing
<1>2. \A r \in Request : Sure(req[r], row[req[r].doc], kb[req[r].doc])'
  BY DEF StoreInv, Sure
<1>3. \A w \in Worker : Carries(work[w], row[work[w].doc], kb[work[w].doc])'
  BY DEF StoreInv, Carries
<1> QED BY <1>1, <1>2, <1>3 DEF StoreInv

(* A step of the one request there is, at a document nobody is working on. *)
LEMMA StoreWrite ==
  ASSUME Orderly, TypeOK, StoreInv, NEW r \in Request, NEW d \in Doc, UNCHANGED <<work, orphans>>,
         \A w \in Worker : work[w].phase \in Pipeline => work[w].doc # d,
         \A e \in Doc : e # d => row'[e] = row[e] /\ kb'[e] = kb[e] /\ ~Changes(req[r], e),
         Follows(row'[d], kb'[d], Changes(req'[r], d)),
         Sure(req'[r], row'[req'[r].doc], kb'[req'[r].doc])
  PROVE  StoreInv'
<1>1. \A q \in Request : q = r BY DEF Orderly
<1>2. ASSUME NEW e \in Doc PROVE Follows(row[e], kb[e], Changing(e))'
  <2>1. CASE e = d
    <3>1. Changing(d)' <=> Changes(req'[r], d) BY <1>1 DEF Changing, Changes
    <3> QED BY <2>1, <3>1 DEF Follows
  <2>2. CASE e # d
    <3>1. ~Changing(e) BY <1>1, <2>2 DEF Changing
    <3>2. Follows(row[e], kb[e], Changing(e)) BY DEF StoreInv
    <3> QED BY <2>2, <3>1, <3>2 DEF Follows
  <2> QED BY <2>1, <2>2
<1>3. ASSUME NEW q \in Request PROVE Sure(req[q], row[req[q].doc], kb[req[q].doc])'
  BY <1>1 DEF Sure
<1>4. ASSUME NEW w \in Worker PROVE Carries(work[w], row[work[w].doc], kb[work[w].doc])'
  <2>1. CASE work[w].phase \in Pipeline
    <3>1. work[w].doc \in Doc /\ work[w].doc # d BY <2>1 DEF TypeOK, WorkState, DocPhase
    <3>2. row'[work[w].doc] = row[work[w].doc] /\ kb'[work[w].doc] = kb[work[w].doc] BY <3>1
    <3>3. Carries(work[w], row[work[w].doc], kb[work[w].doc]) BY DEF StoreInv
    <3> QED BY <3>2, <3>3 DEF Carries
  <2>2. CASE work[w].phase \notin Pipeline BY <2>2 DEF Carries, Pipeline
  <2> QED BY <2>1, <2>2
<1> QED BY <1>2, <1>3, <1>4 DEF StoreInv

LEMMA StoreRead ==
  ASSUME Orderly, StoreInv, NEW r \in Request, UNCHANGED <<work, orphans, row, kb>>,
         \A e \in Doc : ~Changes(req[r], e),
         Sure(req'[r], row[req'[r].doc], kb[req'[r].doc])
  PROVE  StoreInv'
<1>1. \A q \in Request : q = r BY DEF Orderly
<1>2. ASSUME NEW e \in Doc PROVE Follows(row[e], kb[e], Changing(e))'
  <2>1. ~Changing(e) BY <1>1 DEF Changing
  <2>2. Follows(row[e], kb[e], Changing(e)) BY DEF StoreInv
  <2> QED BY <2>1, <2>2 DEF Follows
<1>3. ASSUME NEW q \in Request PROVE Sure(req[q], row[req[q].doc], kb[req[q].doc])'
  BY <1>1 DEF Sure
<1>4. \A w \in Worker : Carries(work[w], row[work[w].doc], kb[work[w].doc])'
  BY DEF StoreInv, Carries
<1> QED BY <1>2, <1>3, <1>4 DEF StoreInv

(* A worker's loop and its end.                                            *)
LEMMA StoreLoop ==
  ASSUME Orderly, TypeOK, OwnsDocument, StoreInv, NEW w \in Worker,
         \/ Start(w) \/ FindStale(w) \/ (\E d \in Doc : RecoverOne(w, d)) \/ Recovered(w)
         \/ Pick(w) \/ Claim(w) \/ Reread(w) \/ Wake(w) \/ RegistryFault(w)
         \/ Stop(w) \/ Release(w) \/ ReleaseFails(w) \/ Crash(w) \/ Heartbeat(w)
  PROVE  StoreInv'
<1> DEFINE d == work[w].doc
<1>0. /\ row \in [Doc -> Row] /\ work \in [Worker -> WorkState] /\ work[w] \in WorkState
      /\ kb \in [Doc -> Kb]
      /\ \A e \in Doc : row[e] \in Row /\ Follows(row[e], kb[e], Changing(e))
      /\ work[w].phase \in DocPhase => d \in Doc
      /\ Carries(work[w], row[d], kb[d])
      /\ orphans = {} /\ "orphan" \notin Hazard
  BY DEF TypeOK, WorkState, StoreInv, Orderly
<1>1. \A v \in Worker \ {w} : work'[v] = work[v]
  BY <1>0 DEF Start, FindStale, RecoverOne, Recovered, Pick, Claim, Reread, Wake, RegistryFault,
         Stop, Release, ReleaseFails, Crash, Heartbeat, Goto, Leave
<1>2. UNCHANGED req /\ orphans' = {}
  BY <1>0 DEF Start, FindStale, RecoverOne, Recovered, Pick, Claim, Reread, Wake, RegistryFault,
         Stop, Release, ReleaseFails, Crash, Heartbeat, stores
<1>3. ASSUME UNCHANGED <<row, kb>>, Carries(work'[w], row[work'[w].doc], kb[work'[w].doc])
      PROVE  StoreInv'
  <2>1. \A v \in Worker : work'[v] = work[v] \/ Carries(work'[v], row[work'[v].doc], kb[work'[v].doc])
    BY <1>1, <1>3
  <2> QED BY <1>2, <1>3, <2>1, StoreIdle
<1>4. ASSUME work'[w].phase \notin Pipeline
      PROVE  \A R, k : Carries(work'[w], R, k)
  BY <1>4 DEF Carries, Pipeline
<1>5. ASSUME NEW e \in Doc, NEW new, Put(e, new), UNCHANGED kb, row[e].status \in {"QUEUED", "PROCESSING"},
             new.status \in {"PROCESSING", "FAILED"}, new.keys = row[e].keys,
             \A v \in Worker \ {w} : AtWork(v) => work[v].doc # e,
             work'[w].phase \in Pipeline => work'[w] = work[w] /\ d = e
      PROVE  StoreInv'
  <2>1. row'[e] = new /\ \A f \in Doc : f # e => row'[f] = row[f] /\ kb'[f] = kb[f]
    BY <1>0, <1>5 DEF Put
  <2>2. Follows(row[e], kb[e], Changing(e)) BY <1>0
  <2>3. Follows(row'[e], kb'[e], FALSE) BY <1>5, <2>1, <2>2 DEF Follows
  <2>4. ASSUME work'[w].phase \in Pipeline
        PROVE  Carries(work'[w], row'[work'[w].doc], kb'[work'[w].doc])
    <3>1. work'[w] = work[w] /\ d = e BY <1>5, <2>4
    <3>2. Carries(work[w], row[e], kb[e]) BY <1>0, <3>1
    <3>3. Carries(work[w], row'[e], kb'[e]) BY <1>5, <2>1, <3>2 DEF Carries
    <3> QED BY <3>1, <3>3
  <2>5. \A v \in Worker :
           \/ work'[v] = work[v] /\ (work[v].phase \in Pipeline => work[v].doc # e)
           \/ Carries(work'[v], row'[work'[v].doc], kb'[work'[v].doc])
    BY <1>1, <1>4, <1>5, <2>4 DEF AtWork, Working
  <2>6. row[e].status \notin {"PUBLISHED", "FAILED"} BY <1>5
  <2> HIDE DEF d
  <2> QED BY <1>2, <1>5, <2>1, <2>3, <2>5, <2>6, StoreWork
<1>6. CASE Start(w) \/ FindStale(w) \/ Recovered(w) \/ Wake(w)
  <2>1. UNCHANGED <<row, kb>> /\ work'[w].phase \notin Pipeline
    BY <1>0, <1>6 DEF Start, FindStale, Recovered, Wake, Goto, Pipeline, WorkState, stores
  <2> QED BY <1>3, <1>4, <2>1
<1>7. CASE Pick(w) \/ ReleaseFails(w) \/ Crash(w)
  <2>1. UNCHANGED <<row, kb>> /\ work'[w].phase \notin Pipeline
    BY <1>0, <1>7 DEF Pick, ReleaseFails, Crash, Loop, Pipeline, stores, WorkState
  <2> QED BY <1>3, <1>4, <2>1
<1>8. CASE Reread(w)
  <2>1. /\ UNCHANGED <<row, kb>> /\ work'[w].phase = "begin" /\ work'[w].doc = d
        /\ work'[w].keys = row[d].keys
    BY <1>0, <1>8 DEF Reread, WorkState, stores
  <2>2. Carries(work'[w], row[work'[w].doc], kb[work'[w].doc]) BY <2>1 DEF Carries
  <2> QED BY <1>3, <2>1, <2>2
<1>9. CASE RegistryFault(w)
  <2>1. UNCHANGED <<row, kb>> BY <1>9 DEF RegistryFault, stores
  <2>2. CASE work'[w].phase \notin Pipeline BY <1>3, <1>4, <2>1, <2>2
  <2>3. CASE work'[w].phase \in Pipeline
    <3>1. work[w].phase \in Pipeline /\ work'[w] = [work[w] EXCEPT !.phase = "failing"]
      BY <1>0, <1>9, <2>3 DEF RegistryFault, Goto, Leave, Loop, Pipeline
    <3>2. work'[w].phase = "failing" /\ work'[w].doc = d /\ work'[w].keys = work[w].keys
      BY <1>0, <3>1 DEF WorkState
    <3>3. Carries(work'[w], row[work'[w].doc], kb[work'[w].doc])
      BY <1>0, <3>1, <3>2 DEF Carries
    <3> QED BY <1>3, <2>1, <3>3
  <2> QED BY <2>2, <2>3
<1>10. CASE Claim(w)
  <2>1. d \in Doc /\ UNCHANGED kb /\ work'[w].phase \notin Pipeline
    BY <1>0, <1>10 DEF Claim, DocPhase, stores, Goto, Loop, Pipeline, WorkState
  <2>2. CASE Expect(d, {"QUEUED"}) /\ Put(d, ClaimedRow(row[d], w))
    <3> DEFINE new == ClaimedRow(row[d], w)
    <3>1. new.status = "PROCESSING" /\ new.keys = row[d].keys BY <1>0, <2>1, ClaimColumns, StageColumns
    <3>2. row[d].status = "QUEUED" BY <2>2 DEF Expect
    <3>3. \A v \in Worker \ {w} : AtWork(v) => work[v].doc # d BY <3>2 DEF OwnsDocument
    <3>4. Put(d, new) BY <2>2
    <3> HIDE DEF new
    <3> QED BY <1>5, <2>1, <3>1, <3>2, <3>3, <3>4
  <2>3. CASE UNCHANGED row BY <1>3, <1>4, <2>1, <2>3
  <2> QED BY <1>10, <2>2, <2>3 DEF Claim
<1>11. ASSUME NEW e \in Doc, RecoverOne(w, e) PROVE StoreInv'
  <2>1. UNCHANGED kb /\ work'[w].phase \notin Pipeline
    BY <1>0, <1>11 DEF RecoverOne, stores, Pipeline, WorkState
  <2>2. CASE Expect(e, {"PROCESSING"}) /\ ~row[e].fresh
    <3> DEFINE new == FailedRow(row[e], InterruptedStage(row[e].stage))
    <3>1. new.status = "FAILED" /\ new.keys = row[e].keys BY <1>0, EndColumns
    <3>2. row[e].status = "PROCESSING" /\ Put(e, new) BY <1>11, <2>2 DEF Expect, RecoverOne
    <3>3. \A v \in Worker \ {w} : AtWork(v) => work[v].doc # e BY <2>2 DEF OwnsDocument
    <3> HIDE DEF new
    <3> QED BY <1>5, <2>1, <3>1, <3>2, <3>3
  <2>3. CASE ~(Expect(e, {"PROCESSING"}) /\ ~row[e].fresh)
    BY <1>3, <1>4, <1>11, <2>1, <2>3 DEF RecoverOne
  <2> QED BY <2>2, <2>3
<1>12. CASE Release(w)
  <2>1. d \in Doc /\ UNCHANGED kb /\ work'[w].phase \notin Pipeline
    BY <1>0, <1>12 DEF Release, DocPhase, stores, Loop, Pipeline
  <2>2. CASE Expect(d, {"PROCESSING"}) /\ row[d].owner = w
    <3> DEFINE new == FailedRow(row[d], InterruptedStage(row[d].stage))
    <3>1. new.status = "FAILED" /\ new.keys = row[d].keys BY <1>0, <2>1, EndColumns
    <3>2. row[d].status = "PROCESSING" /\ Put(d, new) BY <1>12, <2>2 DEF Expect, Release
    <3>3. \A v \in Worker \ {w} : AtWork(v) => work[v].doc # d BY <2>2 DEF OwnsDocument
    <3> HIDE DEF new
    <3> QED BY <1>5, <2>1, <3>1, <3>2, <3>3
  <2>3. CASE ~(Expect(d, {"PROCESSING"}) /\ row[d].owner = w)
    BY <1>3, <1>4, <1>12, <2>1, <2>3 DEF Release
  <2> QED BY <2>2, <2>3
<1>13. CASE Heartbeat(w)
  <2> DEFINE new == [row[d] EXCEPT !.fresh = TRUE]
  <2>1. /\ d \in Doc /\ UNCHANGED <<kb, work>> /\ AtWork(w)
        /\ row[d].status = "PROCESSING" /\ Put(d, new)
    BY <1>0, <1>13 DEF Heartbeat, Working, AtWork, DocPhase, stores, Expect
  <2>2. new.status = "PROCESSING" /\ new.keys = row[d].keys BY <1>0, <2>1, StageColumns
  <2>3. \A v \in Worker \ {w} : AtWork(v) => work[v].doc # d BY <2>1, OneAtWork
  <2>4. work'[w] = work[w] BY <2>1
  <2> HIDE DEF new
  <2> QED BY <1>5, <2>1, <2>2, <2>3, <2>4
<1>14. CASE Stop(w)
  <2>1. UNCHANGED row /\ work'[w].phase \notin Pipeline
    BY <1>0, <1>14 DEF Stop, Loop, Pipeline, WorkState
  <2>2. CASE UNCHANGED kb BY <1>3, <1>4, <2>1, <2>2
  <2>3. CASE PublishInFlight(w) /\ KbPublish(d, work[w].keys)
    <3>1. AtWork(w) /\ d \in Doc
      BY <1>0, <2>3 DEF PublishInFlight, AtWork, Working, Pipeline, DocPhase
    <3>2. row[d].status = "PROCESSING" BY <3>1 DEF OwnsDocument
    <3>3. \A v \in Worker \ {w} : AtWork(v) => work[v].doc # d BY <3>1, OneAtWork
    <3>4. kb'[d] = Offered(work[w].keys) /\ \A f \in Doc : f # d => row'[f] = row[f] /\ kb'[f] = kb[f]
      BY <1>0, <2>1, <2>3, <3>1 DEF KbPublish, Offered
    <3>5. Follows(row'[d], kb'[d], FALSE)
      BY <2>1, <3>2, <3>4 DEF Follows, Offered
    <3>6. \A v \in Worker :
           \/ work'[v] = work[v] /\ (work[v].phase \in Pipeline => work[v].doc # d)
           \/ Carries(work'[v], row'[work'[v].doc], kb'[work'[v].doc])
      BY <1>1, <1>4, <2>1, <3>3 DEF AtWork, Working
    <3> HIDE DEF d
    <3> QED BY <1>2, <3>1, <3>2, <3>4, <3>5, <3>6, StoreWork
  <2> QED BY <1>0, <1>14, <2>2, <2>3 DEF Stop
<1> QED BY <1>6, <1>7, <1>8, <1>9, <1>10, <1>11, <1>12, <1>13, <1>14

(* A worker's pipeline: what it publishes are the queues of its row.       *)
LEMMA StorePipeline ==
  ASSUME Orderly, TypeOK, OwnsDocument, StoreInv, NEW w \in Worker,
         \/ BeginStage(w) \/ RunStage(w) \/ PublishStage(w) \/ StageFails(w)
         \/ CompleteStage(w) \/ Results(w) \/ FinishPublished(w) \/ FinishFailed(w)
  PROVE  StoreInv'
<1> DEFINE d == work[w].doc
<1>0. /\ row \in [Doc -> Row] /\ work \in [Worker -> WorkState] /\ work[w] \in WorkState
      /\ kb \in [Doc -> Kb]
      /\ AtWork(w) /\ work[w].phase \in Pipeline
  BY DEF TypeOK, AtWork, Working, Pipeline, BeginStage, RunStage, PublishStage, StageFails,
         CompleteStage, Results, FinishPublished, FinishFailed
<1>1. /\ d \in Doc /\ row[d] \in Row /\ row[d].status = "PROCESSING"
      /\ \A v \in Worker \ {w} : AtWork(v) => work[v].doc # d
      /\ Carries(work[w], row[d], kb[d]) /\ work[w].keys = row[d].keys
      /\ Follows(row[d], kb[d], Changing(d))
  BY <1>0, OneAtWork DEF OwnsDocument, StoreInv, Carries
<1>2. UNCHANGED req /\ orphans' = {} /\ \A v \in Worker \ {w} : work'[v] = work[v]
  BY <1>0 DEF BeginStage, RunStage, PublishStage, StageFails, CompleteStage, Results,
         FinishPublished, FinishFailed, UpdateOrAbandon, Goto, Leave, stores, StoreInv
<1>3. ASSUME \A e \in Doc : e # d => row'[e] = row[e] /\ kb'[e] = kb[e],
             Follows(row'[d], kb'[d], FALSE),
             work'[w].phase \notin Pipeline \/ (work'[w].doc = d /\ Carries(work'[w], row'[d], kb'[d]))
      PROVE  StoreInv'
  <2>1. Carries(work'[w], row'[work'[w].doc], kb'[work'[w].doc])
    BY <1>3 DEF Carries, Pipeline
  <2>2. \A v \in Worker :
           \/ work'[v] = work[v] /\ (work[v].phase \in Pipeline => work[v].doc # d)
           \/ Carries(work'[v], row'[work'[v].doc], kb'[work'[v].doc])
    BY <1>1, <1>2, <2>1 DEF AtWork, Working
  <2>3. row[d].status \notin {"PUBLISHED", "FAILED"} BY <1>1
  <2> HIDE DEF d
  <2> QED BY <1>1, <1>2, <1>3, <2>2, <2>3, StoreWork
<1>4. ASSUME NEW new, NEW next, UpdateOrAbandon(w, new, next), UNCHANGED kb,
             Follows(new, kb[d], FALSE),
             next => work'[w].phase \notin Pipeline \/ (work'[w].doc = d /\ Carries(work'[w], new, kb[d]))
      PROVE  StoreInv'
  <2>1. Put(d, new) /\ next BY <1>1, <1>4 DEF UpdateOrAbandon, Expect
  <2>2. row'[d] = new /\ \A e \in Doc : e # d => row'[e] = row[e] BY <1>0, <1>1, <2>1 DEF Put
  <2> HIDE DEF d
  <2> QED BY <1>3, <1>4, <2>1, <2>2
<1>5. ASSUME NEW S, NEW v, NEW next, UpdateOrAbandon(w, WithStages(row[d], S, v), next), UNCHANGED kb,
             next => /\ work'[w].doc = d /\ work'[w].keys = work[w].keys
                     /\ work'[w].phase \in {"run", "results", "begin"}
      PROVE  StoreInv'
  <2> DEFINE new == WithStages(row[d], S, v)
  <2>1. new.status = "PROCESSING" /\ new.keys = row[d].keys BY <1>1, ClaimColumns, StageColumns
  <2>2. UpdateOrAbandon(w, new, next) BY <1>5
  <2> HIDE DEF new
  <2>3. Follows(new, kb[d], FALSE) BY <1>1, <2>1 DEF Follows
  <2>4. next => work'[w].doc = d /\ Carries(work'[w], new, kb[d])
    BY <1>1, <1>5, <2>1 DEF Carries
  <2> QED BY <1>4, <1>5, <2>2, <2>3, <2>4
<1>6. CASE BeginStage(w)
  <2>1. Goto(w, "run") => /\ work'[w].doc = d /\ work'[w].keys = work[w].keys
                          /\ work'[w].phase \in {"run", "results", "begin"}
    BY <1>0 DEF Goto, WorkState
  <2> QED BY <1>5, <1>6, <2>1 DEF BeginStage, stores
<1>7. CASE CompleteStage(w)
  <2>1. Goto(w, "results") => /\ work'[w].doc = d /\ work'[w].keys = work[w].keys
                              /\ work'[w].phase \in {"run", "results", "begin"}
    BY <1>0 DEF Goto, WorkState
  <2> QED BY <1>5, <1>7, <2>1 DEF CompleteStage, stores
<1>8. CASE Results(w)
  <2> DEFINE next == work' = [work EXCEPT ![w].phase = "begin", ![w].stage = NextStage(work[w].stage)]
  <2>1. next => /\ work'[w].doc = d /\ work'[w].keys = work[w].keys
                /\ work'[w].phase \in {"run", "results", "begin"}
    BY <1>0 DEF WorkState
  <2>2. UpdateOrAbandon(w, WithStages(row[d], {}, "COMPLETED"), next) /\ UNCHANGED kb
    BY <1>8 DEF Results, stores
  <2> HIDE DEF next
  <2> QED BY <1>5, <2>1, <2>2
<1>9. CASE RunStage(w) \/ StageFails(w)
  <2>1. /\ UNCHANGED <<row, kb>> /\ work'[w].doc = d /\ work'[w].keys = work[w].keys
        /\ work'[w].phase \in {"done", "failing"} /\ work'[w].stage = work[w].stage
        /\ work'[w].phase = "done" => work[w].stage # "publishing"
    BY <1>0, <1>9 DEF RunStage, StageFails, Goto, WorkState, stores
  <2>2. Carries(work'[w], row'[d], kb'[d]) BY <1>1, <2>1 DEF Carries
  <2>3. Follows(row'[d], kb'[d], FALSE) BY <1>1, <2>1 DEF Follows
  <2> QED BY <1>3, <2>1, <2>2, <2>3
<1>10. CASE PublishStage(w)
  <2>1. /\ UNCHANGED row /\ work'[w].doc = d /\ work'[w].keys = work[w].keys
        /\ kb'[d] = Offered(work[w].keys) /\ \A e \in Doc : e # d => kb'[e] = kb[e]
    BY <1>0, <1>1, <1>10 DEF PublishStage, Goto, WorkState, KbPublish, Offered
  <2>2. Carries(work'[w], row'[d], kb'[d]) BY <1>1, <2>1 DEF Carries
  <2>3. Follows(row'[d], kb'[d], FALSE) BY <1>1, <2>1 DEF Follows, Offered
  <2> QED BY <1>3, <2>1, <2>2, <2>3
<1>11. CASE FinishPublished(w)
  <2> DEFINE new == PublishedRow(row[d])
  <2>1. new.status = "PUBLISHED" /\ new.keys = row[d].keys BY <1>1, EndColumns
  <2>2. UpdateOrAbandon(w, new, Leave(w)) /\ UNCHANGED kb BY <1>11 DEF FinishPublished, stores
  <2> HIDE DEF new
  <2>3. kb[d] = Offered(row[d].keys) BY <1>1, <1>11 DEF FinishPublished, Carries
  <2>4. Follows(new, kb[d], FALSE) BY <2>1, <2>3 DEF Follows, Offered
  <2>5. Leave(w) => work'[w].phase \notin Pipeline BY <1>0 DEF Leave, Loop, Pipeline
  <2> QED BY <1>4, <2>2, <2>4, <2>5
<1>12. CASE FinishFailed(w)
  <2> DEFINE new == FailedRow(row[d], work[w].stage)
  <2>1. new.status = "FAILED" BY <1>1, EndColumns
  <2>2. UpdateOrAbandon(w, new, Leave(w)) /\ UNCHANGED kb BY <1>12 DEF FinishFailed, stores
  <2> HIDE DEF new
  <2>3. Follows(new, kb[d], FALSE) BY <1>1, <2>1 DEF Follows
  <2>4. Leave(w) => work'[w].phase \notin Pipeline BY <1>0 DEF Leave, Loop, Pipeline
  <2> QED BY <1>4, <2>2, <2>3, <2>4
<1> QED BY <1>6, <1>7, <1>8, <1>9, <1>10, <1>11, <1>12

(* The request: it reads, changes the knowledge base, then the row.        *)
LEMMA StoreRequest ==
  ASSUME Orderly, TypeOK, OwnsDocument, StoreInv, NEW r \in Request, RequestStep(r)
  PROVE  StoreInv'
<1> DEFINE d == req[r].doc
           p == req[r].phase
<1>0. /\ row \in [Doc -> Row] /\ kb \in [Doc -> Kb]
      /\ req \in [Request -> ReqState] /\ req[r] \in ReqState
      /\ \A e \in Doc : row[e] \in Row /\ Follows(row[e], kb[e], Changing(e))
      /\ Sure(req[r], row[d], kb[d])
      /\ "abort" \notin Hazard /\ \A q \in Request : q = r
      /\ p \in AdminPhase => d \in Doc
  BY DEF TypeOK, StoreInv, Orderly, ReqState
<1>1. \A e \in Doc : Changing(e) <=> Changes(req[r], e)
  BY <1>0 DEF Changing
<1>2. \A e \in Doc : row[e].status # "PROCESSING" =>
        \A w \in Worker : work[w].phase \in Pipeline => work[w].doc # e
  BY DEF OwnsDocument, AtWork, Working
<1>3. UNCHANGED <<work, orphans>>
  BY DEF RequestStep, UploadFile, CheckDuplicate, InsertQueued, InsertRejected, InsertCutOff,
         RetryRead, RepublishRead, UnpublishRead, QueuesRead, RetryWrite, RepublishWrite,
         RoundsUsedUp, UnpublishKb, UnpublishRow, QueuesKb, QueuesRow, KbRefuses, Abort, stores
<1>4. p \notin {"unpublish_row", "queues_row_published"} => \A e \in Doc : ~Changes(req[r], e)
  BY DEF Changes
<1>5. \A R, k : Sure(IdleReq, R, k) /\ \A e : ~Changes(IdleReq, e)
  BY DEF Sure, Changes, IdleReq
<1>6. ASSUME UNCHANGED <<row, kb>>, \A e \in Doc : ~Changes(req[r], e),
             Sure(req'[r], row[req'[r].doc], kb[req'[r].doc])
      PROVE  StoreInv'
  BY <1>3, <1>6, StoreRead
<1>7. ASSUME NEW e \in Doc, NEW new, Put(e, new), UNCHANGED kb, Done(r), row[e].status # "PROCESSING",
             \A f \in Doc : f # e => ~Changes(req[r], f), Follows(new, kb[e], FALSE)
      PROVE  StoreInv'
  <2>1. row'[e] = new /\ \A f \in Doc : f # e => row'[f] = row[f] BY <1>0, <1>7 DEF Put
  <2>2. req'[r] = IdleReq BY <1>0, <1>7 DEF Done
  <2>3. /\ Follows(row'[e], kb'[e], Changes(req'[r], e))
        /\ Sure(req'[r], row'[req'[r].doc], kb'[req'[r].doc])
    BY <1>5, <1>7, <2>1, <2>2 DEF Follows
  <2>4. \A f \in Doc : f # e => row'[f] = row[f] /\ kb'[f] = kb[f] /\ ~Changes(req[r], f)
    BY <1>7, <2>1
  <2>5. \A w \in Worker : work[w].phase \in Pipeline => work[w].doc # e BY <1>2, <1>7
  <2> QED BY <1>3, <2>3, <2>4, <2>5, StoreWrite
<1>8. CASE \/ \E c \in Content, K \in SUBSET Queue : UploadFile(r, c, K)
           \/ CheckDuplicate(r)
           \/ \E e \in Doc : RetryRead(r, e) \/ RepublishRead(r, e)
           \/ RoundsUsedUp(r) \/ KbRefuses(r) \/ Abort(r)
  <2>1. UNCHANGED <<row, kb>> /\ p \notin {"unpublish_row", "queues_row_published"}
    BY <1>0, <1>8 DEF UploadFile, CheckDuplicate, RetryRead, RepublishRead, RoundsUsedUp,
           KbRefuses, Abort, Ask, stores
  <2>2. req'[r].phase \notin {"unpublish_kb", "unpublish_row", "queues_kb", "queues_row_published"}
    <3>1. CASE \/ \E c \in Content, K \in SUBSET Queue : UploadFile(r, c, K)
               \/ \E e \in Doc : RepublishRead(r, e)
      BY <1>0, <3>1 DEF UploadFile, RepublishRead, Ask, IdleReq
    <3>2. CASE CheckDuplicate(r)
      BY <1>0, <3>2 DEF CheckDuplicate, Advance, ReqState
    <3>3. CASE RoundsUsedUp(r) \/ KbRefuses(r) \/ Abort(r)
      BY <1>0, <3>3 DEF RoundsUsedUp, KbRefuses, Abort, Done, IdleReq
    <3>4. CASE \E e \in Doc : RetryRead(r, e)
      <4>1. req'[r].phase = "retry" BY <1>0, <3>4 DEF RetryRead, Ask, IdleReq
      <4> QED BY <4>1
    <3> QED BY <1>8, <3>1, <3>2, <3>3, <3>4
  <2>3. Sure(req'[r], row[req'[r].doc], kb[req'[r].doc]) BY <2>2 DEF Sure
  <2> QED BY <1>4, <1>6, <2>1, <2>3
<1>9. ASSUME NEW e \in Doc, UnpublishRead(r, e) PROVE StoreInv'
  <2>1. /\ UNCHANGED <<row, kb>> /\ p = "idle" /\ row[e].status \in {"PUBLISHED", "FAILED"}
        /\ req'[r].phase = "unpublish_kb" /\ req'[r].doc = e
    BY <1>0, <1>9 DEF UnpublishRead, Ask, IdleReq, stores
  <2>2. Sure(req'[r], row[req'[r].doc], kb[req'[r].doc]) BY <2>1 DEF Sure
  <2> QED BY <1>4, <1>6, <2>1, <2>2
<1>10. ASSUME NEW e \in Doc, NEW K \in SUBSET Queue, QueuesRead(r, e, K) PROVE StoreInv'
  <2>1. /\ UNCHANGED <<row, kb>> /\ p = "idle" /\ req'[r].doc = e
        /\ \/ row[e].status = "PUBLISHED" /\ req'[r].phase = "queues_kb"
           \/ req'[r].phase = "queues_row"
    BY <1>0, <1>10 DEF QueuesRead, Ask, IdleReq, stores
  <2>2. Sure(req'[r], row[req'[r].doc], kb[req'[r].doc]) BY <2>1 DEF Sure
  <2> QED BY <1>4, <1>6, <2>1, <2>2
<1>11. CASE InsertQueued(r) \/ InsertRejected(r) \/ InsertCutOff(r)
  <2>1. PICK e \in Doc : /\ row[e].status = "ABSENT" /\ Done(r) /\ UNCHANGED kb
                         /\ \/ Put(e, AcceptedRow(req[r].content, req[r].keys))
                            \/ Put(e, RejectedRow(req[r].content, req[r].keys))
    BY <1>11 DEF InsertQueued, InsertRejected, InsertCutOff, IsOldest, Free, stores
  <2>2. PICK new : Put(e, new) /\ new.status \in {"QUEUED", "FAILED"}
    BY <2>1, InsertColumns
  <2>3. p \in {"upload_insert", "upload_reject"}
    BY <1>11 DEF InsertQueued, InsertRejected, InsertCutOff
  <2>4. \A f \in Doc : ~Changes(req[r], f) BY <1>4, <2>3
  <2>5. Follows(new, kb[e], FALSE) BY <1>0, <2>2 DEF Follows
  <2> QED BY <1>7, <2>1, <2>2, <2>4, <2>5
<1>12. \A f \in Doc : f # d => ~Changes(req[r], f)
  BY DEF Changes
<1>13. ASSUME NEW new, NEW S, UpdateOrConflict(r, d, S, new), "PROCESSING" \notin S, d \in Doc,
              UNCHANGED kb, row[d].status \in S => Follows(new, kb[d], FALSE),
              p \in {"unpublish_row", "queues_row_published"} => row[d].status \in S
       PROVE  StoreInv'
  <2>1. CASE Expect(d, S)
    <3>1. Put(d, new) /\ Done(r) /\ row[d].status \in S
      BY <1>13, <2>1 DEF UpdateOrConflict, Expect
    <3> HIDE DEF d
    <3> QED BY <1>7, <1>12, <1>13, <3>1
  <2>2. CASE ~Expect(d, S)
    <3>1. UNCHANGED row /\ Done(r) BY <1>13, <2>2 DEF UpdateOrConflict
    <3>2. req'[r] = IdleReq BY <1>0, <3>1 DEF Done
    <3>3. \A e \in Doc : ~Changes(req[r], e) BY <1>4, <1>13, <2>2 DEF Expect
    <3> QED BY <1>5, <1>6, <1>13, <3>1, <3>2, <3>3
  <2> QED BY <2>1, <2>2
<1>14. CASE RetryWrite(r) \/ RepublishWrite(r)
  <2>1. d \in Doc /\ UNCHANGED kb /\ p \notin {"unpublish_row", "queues_row_published"}
    BY <1>0, <1>14 DEF RetryWrite, RepublishWrite, AdminPhase, stores
  <2>2. \A s : Follows(RequeuedRow(row[d], s), kb[d], FALSE)
    BY <1>0, <2>1, EndColumns DEF Follows
  <2>3. \E s, S : UpdateOrConflict(r, d, S, RequeuedRow(row[d], s)) /\ "PROCESSING" \notin S
    BY <1>14 DEF RetryWrite, RepublishWrite
  <2> HIDE DEF d, p
  <2> QED BY <1>13, <2>1, <2>2, <2>3
<1>15. CASE UnpublishRow(r)
  <2>1. d \in Doc /\ UNCHANGED kb /\ p = "unpublish_row"
    BY <1>0, <1>15 DEF UnpublishRow, AdminPhase, stores
  <2>2. row[d].status \in {"PUBLISHED", "FAILED"} /\ kb[d] = Gone
    BY <1>0, <2>1 DEF Sure
  <2>3. Follows(UnpublishedRow(row[d]), kb[d], FALSE)
    BY <1>0, <2>1, <2>2, StageColumns DEF Follows, Gone
  <2>4. UpdateOrConflict(r, d, {"PUBLISHED", "FAILED"}, UnpublishedRow(row[d]))
    BY <1>15 DEF UnpublishRow
  <2> HIDE DEF d, p
  <2> QED BY <1>13, <2>1, <2>2, <2>3, <2>4
<1>16. CASE QueuesRow(r)
  <2> DEFINE new == RekeyedRow(row[d], req[r].keys)
  <2>1. d \in Doc /\ UNCHANGED kb
    BY <1>0, <1>16 DEF QueuesRow, AdminPhase, stores
  <2>2. new.status = row[d].status /\ new.keys = req[r].keys
    BY <1>0, <2>1, StageColumns
  <2>3. CASE p = "queues_row_published" /\ UpdateOrConflict(r, d, {"PUBLISHED"}, new)
    <3>1. row[d].status = "PUBLISHED" /\ kb[d] = Offered(req[r].keys)
      BY <1>0, <2>3 DEF Sure
    <3>2. Follows(new, kb[d], FALSE) BY <2>2, <3>1 DEF Follows, Offered
    <3> HIDE DEF d, p, new
    <3> QED BY <1>13, <2>1, <2>3, <3>1, <3>2
  <2>4. CASE p = "queues_row" /\ UpdateOrConflict(r, d, {"QUEUED", "FAILED"}, new)
    <3>1. row[d].status \in {"QUEUED", "FAILED"} => Follows(new, kb[d], FALSE)
      BY <1>0, <2>1, <2>2 DEF Follows
    <3> HIDE DEF d, p, new
    <3> QED BY <1>13, <2>1, <2>4, <3>1
  <2> QED BY <1>16, <2>3, <2>4 DEF QueuesRow
<1>17. ASSUME NEW k, kb' = [kb EXCEPT ![d] = k], UNCHANGED row, d \in Doc, row[d].status # "PROCESSING",
              Follows(row[d], k, TRUE), req'[r].doc = d, Changes(req'[r], d),
              Sure(req'[r], row[d], k)
       PROVE  StoreInv'
  <2>1. kb'[d] = k /\ \A f \in Doc : f # d => kb'[f] = kb[f] BY <1>0, <1>17
  <2>2. /\ Follows(row'[d], kb'[d], Changes(req'[r], d))
        /\ Sure(req'[r], row'[req'[r].doc], kb'[req'[r].doc])
    BY <1>17, <2>1 DEF Follows
  <2>3. \A f \in Doc : f # d => row'[f] = row[f] /\ kb'[f] = kb[f] /\ ~Changes(req[r], f)
    BY <1>12, <1>17, <2>1
  <2>4. \A w \in Worker : work[w].phase \in Pipeline => work[w].doc # d BY <1>2, <1>17
  <2> HIDE DEF d
  <2> QED BY <1>3, <1>17, <2>2, <2>3, <2>4, StoreWrite
<1>18. CASE UnpublishKb(r)
  <2>1. /\ d \in Doc /\ UNCHANGED row /\ kb' = [kb EXCEPT ![d] = Gone]
        /\ p = "unpublish_kb" /\ req'[r].phase = "unpublish_row" /\ req'[r].doc = d
    BY <1>0, <1>18 DEF UnpublishKb, AdminPhase, KbUnpublish, Gone, Advance, ReqState
  <2>2. row[d].status \in {"PUBLISHED", "FAILED"} BY <1>0, <2>1 DEF Sure
  <2>3. Follows(row[d], Gone, TRUE) /\ Sure(req'[r], row[d], Gone) /\ Changes(req'[r], d)
    BY <2>1, <2>2 DEF Follows, Sure, Changes, Gone
  <2> HIDE DEF d, p
  <2> QED BY <1>17, <2>1, <2>2, <2>3
<1>19. CASE QueuesKb(r)
  <2>1. /\ d \in Doc /\ UNCHANGED row /\ kb' = [kb EXCEPT ![d].queues = req[r].keys]
        /\ p = "queues_kb" /\ req'[r].phase = "queues_row_published" /\ req'[r].doc = d
        /\ req'[r].keys = req[r].keys
    BY <1>0, <1>19 DEF QueuesKb, AdminPhase, KbSetQueues, Advance, ReqState
  <2>2. row[d].status = "PUBLISHED" BY <1>0, <2>1 DEF Sure
  <2>3. kb[d] = Offered(row[d].keys)
    BY <1>0, <1>1, <1>4, <2>1, <2>2 DEF Follows
  <2>4. [kb[d] EXCEPT !.queues = req[r].keys] = Offered(req[r].keys)
    <3> DEFINE a == [kb[d] EXCEPT !.queues = req[r].keys]
               b == Offered(req[r].keys)
    <3>1. kb[d] \in Kb /\ req[r].keys \in SUBSET Queue /\ kb[d].chunks = TRUE
      <4>1. kb[d] \in Kb BY <1>0, <2>1
      <4>2. req[r].keys \in SUBSET Queue BY <1>0 DEF ReqState
      <4>3. kb[d].chunks = TRUE BY <2>3 DEF Offered
      <4> QED BY <4>1, <4>2, <4>3
    <3>2. a \in Kb /\ a.chunks = TRUE /\ a.queues = req[r].keys BY <3>1 DEF Kb
    <3>3. b \in Kb /\ b.chunks = TRUE /\ b.queues = req[r].keys BY <3>1 DEF Kb, Offered
    <3> HIDE DEF a, b
    <3>4. a = b BY <3>2, <3>3 DEF Kb
    <3> QED BY <3>4 DEF a, b
  <2>5. kb' = [kb EXCEPT ![d] = Offered(req[r].keys)] BY <1>0, <2>1, <2>4
  <2>6. /\ Follows(row[d], Offered(req[r].keys), TRUE) /\ Changes(req'[r], d)
        /\ Sure(req'[r], row[d], Offered(req[r].keys))
    BY <2>1, <2>2 DEF Follows, Sure, Changes, Offered
  <2> HIDE DEF d, p
  <2> QED BY <1>17, <2>1, <2>2, <2>5, <2>6
<1> QED BY <1>8, <1>9, <1>10, <1>11, <1>14, <1>15, <1>16, <1>18, <1>19 DEF RequestStep

LEMMA StoreNext ==
  ASSUME Orderly, TypeOK, OwnsDocument, StoreInv, [Next]_vars
  PROVE  StoreInv'
<1>1. ASSUME NEW w \in Worker, WorkerStep(w) \/ WorkerTrouble(w) \/ Heartbeat(w) PROVE StoreInv'
  BY <1>1, StoreLoop, StorePipeline DEF WorkerStep, WorkerTrouble
<1>2. orphans = {} BY DEF StoreInv
<1>3. ASSUME NEW d \in Doc, GoStale(d) PROVE StoreInv'
  <2> DEFINE new == [row[d] EXCEPT !.fresh = FALSE]
  <2>1. /\ row \in [Doc -> Row] /\ row[d] \in Row /\ Put(d, new) /\ UNCHANGED <<work, req, kb, orphans>>
        /\ row[d].status = "PROCESSING" /\ \A w \in Worker : ~(AtWork(w) /\ work[w].doc = d)
    BY <1>3 DEF GoStale, stores, TypeOK, Orderly
  <2>2. new.status = "PROCESSING" BY <2>1, StageColumns
  <2> HIDE DEF new
  <2>3. row'[d] = new /\ \A e \in Doc : e # d => row'[e] = row[e] /\ kb'[e] = kb[e]
    BY <2>1 DEF Put
  <2>4. Follows(row'[d], kb'[d], FALSE) BY <2>1, <2>2, <2>3 DEF StoreInv, Follows
  <2>5. \A w \in Worker : work'[w] = work[w] /\ (work[w].phase \in Pipeline => work[w].doc # d)
    BY <2>1 DEF AtWork, Working
  <2>6. row[d].status \notin {"PUBLISHED", "FAILED"} /\ orphans' = {} BY <1>2, <2>1
  <2> QED BY <2>1, <2>3, <2>4, <2>5, <2>6, StoreWork
<1>4. ASSUME NEW r \in Request, RequestStep(r) PROVE StoreInv'
  BY <1>4, StoreRequest
<1>5. CASE UNCHANGED vars
  <2>1. UNCHANGED <<row, kb, req>> /\ orphans' = {} /\ \A w \in Worker : work'[w] = work[w]
    BY <1>2, <1>5 DEF vars
  <2> QED BY <2>1, StoreIdle
<1> QED BY <1>1, <1>2, <1>3, <1>4, <1>5 DEF Next

(* The knowledge base follows the registry, as the invariant that carries  *)
(* the three theorems below.                                               *)
THEOREM StoreInvariant == Orderly => (Spec => []StoreInv)
<1> SUFFICES ASSUME Orderly PROVE Spec => []StoreInv
  OBVIOUS
<1>1. Init => StoreInv
  BY DEF Init, StoreInv, Follows, Sure, Carries, NoRow, IdleReq, Loop, Pipeline
<1>2. TypeOK /\ OwnsDocument /\ StoreInv /\ [Next]_vars => StoreInv'
  BY StoreNext
<1>3. Spec => []OwnsDocument
  BY Ownership DEF Orderly
<1> QED BY <1>1, <1>2, <1>3, TypeCorrect, PTL DEF Spec

(* A PUBLISHED document nobody is changing can be found in exactly the     *)
(* queues its row names, for any number of documents, workers and queues   *)
(* and whatever crashes and failing calls, with one administrator.         *)
THEOREM PublishedSearchable == Orderly => (Spec => []PublishedIsSearchable)
<1> SUFFICES ASSUME Orderly PROVE Spec => []PublishedIsSearchable
  OBVIOUS
<1>1. StoreInv => PublishedIsSearchable
  BY DEF StoreInv, Follows, PublishedIsSearchable, InHand, Changing, Changes, Offered
<1> QED BY <1>1, StoreInvariant, PTL

(* No queue ever offers a document without chunks, not even between the    *)
(* two writes of a request.                                                *)
THEOREM OffersHaveChunks == Orderly => (Spec => []NoEmptyVertical)
<1> SUFFICES ASSUME Orderly PROVE Spec => []NoEmptyVertical
  OBVIOUS
<1>1. StoreInv => NoEmptyVertical
  BY DEF StoreInv, Follows, NoEmptyVertical
<1> QED BY <1>1, StoreInvariant, PTL

(* An UNPUBLISHED document has left the knowledge base, and no worker that *)
(* was under way brings it back.                                           *)
THEOREM UnpublishedGone == Orderly => (Spec => []UnpublishedIsGone)
<1> SUFFICES ASSUME Orderly PROVE Spec => []UnpublishedIsGone
  OBVIOUS
<1>1. StoreInv => UnpublishedIsGone
  BY DEF StoreInv, Follows, UnpublishedIsGone, Gone
<1> QED BY <1>1, StoreInvariant, PTL

-----------------------------------------------------------------------------
(* The work queue.  As long as no live worker misses its heartbeats past   *)
(* the threshold, the import pipeline implements it, for every number of   *)
(* workers, documents and requests: every step maps to a step of WorkQueue *)
(* on one document, or to a stutter.                                       *)

(* A row that changes its status and holder alone maps to Change.          *)
LEMMA MapsToChange ==
  ASSUME NEW d \in Doc, NEW from, NEW h,
         \A e \in Doc \ {d} : row'[e].status = row[e].status /\ HolderOf(e)' = HolderOf(e),
         row[d].status \in from, HolderOf(d)' = h
  PROVE  WQ!Change(d, from, row'[d].status, h)
BY DEF WQ!Change

(* Every row keeps its status and its holder: a stutter.                   *)
LEMMA MapsToStutter ==
  ASSUME \A e \in Doc : row'[e].status = row[e].status /\ HolderOf(e)' = HolderOf(e)
  PROVE  UNCHANGED WQ!wqVars
BY DEF WQ!wqVars

(* Holders follow the claims: they stay where neither the row nor a claim  *)
(* on it changes.                                                          *)
LEMMA SameHolder ==
  ASSUME NEW e, row'[e] = row[e], \A v \in Worker : Holds(v, e)' = Holds(v, e)
  PROVE  HolderOf(e)' = HolderOf(e)
BY DEF HolderOf

(* The holder of a document is the worker at work on it, if there is one.  *)
LEMMA HolderIsAtWork ==
  ASSUME TypeOK, OwnsDocument, NEW d \in Doc
  PROVE  /\ \A w \in Worker : Holds(w, d) => HolderOf(d) = w
         /\ (\A w \in Worker : ~Holds(w, d)) => HolderOf(d) = None
         /\ row[d].status # "PROCESSING" => \A w \in Worker : ~Holds(w, d)
BY DEF HolderOf, Holds, OwnsDocument

LEMMA HolderIsAtWorkNext ==
  ASSUME OwnsDocument', NEW d \in Doc
  PROVE  /\ \A w \in Worker : Holds(w, d)' => HolderOf(d)' = w /\ row'[d].status = "PROCESSING"
         /\ (\A w \in Worker : ~Holds(w, d)') => HolderOf(d)' = None
BY DEF HolderOf, Holds, OwnsDocument

(* A step of worker w that changes at most the row d, of which w is the    *)
(* only worker before and after if it is at work at all, maps to a step of *)
(* WorkQueue on d: taking it, ending it, letting it go, or failing it when *)
(* nobody is at work on it.                                                *)
LEMMA WorkerStepMaps ==
  ASSUME TypeOK, OwnsDocument, OwnsDocument', NEW w \in Worker, NEW d \in Doc,
         \A v \in Worker \ {w} : work'[v] = work[v],
         \A e \in Doc \ {d} : row'[e] = row[e],
         AtWork(w) => work[w].doc = d,
         AtWork(w)' => work'[w].doc = d,
         \/ AtWork(w) /\ AtWork(w)'
         \/ AtWork(w) /\ ~AtWork(w)' /\ row'[d].status \in {"PROCESSING", "PUBLISHED", "FAILED"}
         \/ ~AtWork(w) /\ AtWork(w)' /\ row[d].status = "QUEUED"
         \/ ~AtWork(w) /\ ~AtWork(w)' /\ row'[d] = row[d]
         \/ /\ ~AtWork(w) /\ ~AtWork(w)'
            /\ \A v \in Worker : AtWork(v) => work[v].doc # d
            /\ row[d].status = "PROCESSING" /\ row'[d].status = "FAILED"
  PROVE  [WQ!Next]_WQ!wqVars
<1>1. \A v \in Worker \ {w}, e \in Doc : Holds(v, e)' = Holds(v, e)
  BY DEF Holds, AtWork, Working
<1>2. \A e \in Doc \ {d} : Holds(w, e)' = Holds(w, e)
  BY DEF Holds
<1>3. \A e \in Doc \ {d} : row'[e].status = row[e].status /\ HolderOf(e)' = HolderOf(e)
  BY <1>1, <1>2, SameHolder
<1>4. AtWork(w) => /\ Holds(w, d) /\ HolderOf(d) = w /\ row[d].status = "PROCESSING"
                   /\ \A v \in Worker \ {w} : ~Holds(v, d)
  BY HolderIsAtWork DEF Holds, OwnsDocument
<1>5. AtWork(w)' => HolderOf(d)' = w /\ row'[d].status = "PROCESSING"
  BY HolderIsAtWorkNext DEF Holds
<1>6. ~AtWork(w)' /\ (\A v \in Worker \ {w} : ~Holds(v, d)) => HolderOf(d)' = None
  BY <1>1, HolderIsAtWorkNext DEF Holds
<1>7. None \notin Worker
  BY RegistryAssumption
<1>8. CASE AtWork(w) /\ AtWork(w)'
  <2>1. row'[d].status = row[d].status /\ HolderOf(d)' = HolderOf(d)
    BY <1>4, <1>5, <1>8
  <2> QED BY <1>3, <2>1, MapsToStutter
<1>9. CASE AtWork(w) /\ ~AtWork(w)' /\ row'[d].status \in {"PROCESSING", "PUBLISHED", "FAILED"}
  <2>1. HolderOf(d) = w /\ row[d].status \in {"PROCESSING"} /\ HolderOf(d)' = None
    BY <1>4, <1>6, <1>9
  <2>2. WQ!Change(d, {"PROCESSING"}, row'[d].status, None)
    BY <1>3, <2>1, MapsToChange
  <2>3. WQ!End(d) \/ WQ!LetGo(d)
    BY <1>7, <1>9, <2>1, <2>2 DEF WQ!End, WQ!LetGo, WQ!Ended
  <2> QED BY <2>3 DEF WQ!Next
<1>10. CASE ~AtWork(w) /\ AtWork(w)' /\ row[d].status = "QUEUED"
  <2>1. WQ!Change(d, {"QUEUED"}, "PROCESSING", w)
    BY <1>3, <1>5, <1>10, MapsToChange
  <2>2. \A e \in Doc : HolderOf(e) # w
    BY <1>7, <1>10 DEF HolderOf, Holds
  <2>3. WQ!Take(d, w)
    BY <2>1, <2>2 DEF WQ!Take
  <2> QED BY <2>3 DEF WQ!Next
<1>11. CASE ~AtWork(w) /\ ~AtWork(w)' /\ row'[d] = row[d]
  <2>1. HolderOf(d)' = HolderOf(d)
    BY <1>1, <1>11, SameHolder DEF Holds
  <2> QED BY <1>3, <1>11, <2>1, MapsToStutter
<1>12. CASE /\ ~AtWork(w) /\ ~AtWork(w)'
            /\ \A v \in Worker : AtWork(v) => work[v].doc # d
            /\ row[d].status = "PROCESSING" /\ row'[d].status = "FAILED"
  <2>1. HolderOf(d) = None /\ HolderOf(d)' = None
    BY <1>6, <1>12, HolderIsAtWork DEF Holds
  <2>2. WQ!Change(d, {"PROCESSING"}, "FAILED", None)
    BY <1>3, <1>12, <2>1, MapsToChange
  <2> QED BY <2>1, <2>2 DEF WQ!Next, WQ!Interrupt
<1> QED BY <1>8, <1>9, <1>10, <1>11, <1>12

(* A step that leaves the workers alone and changes at most the row d,     *)
(* which nobody has claimed before or after, maps to whatever WorkQueue    *)
(* allows for the change of status, or to a stutter.                       *)
LEMMA RequestStepMaps ==
  ASSUME TypeOK, OwnsDocument, OwnsDocument', NEW d \in Doc, UNCHANGED work,
         \A e \in Doc \ {d} : row'[e] = row[e],
         \/ row[d].status = "ABSENT" /\ row'[d].status \in {"QUEUED", "FAILED"}
         \/ row[d].status \in {"PUBLISHED", "FAILED"} /\ row'[d].status \in {"QUEUED", "UNPUBLISHED"}
         \/ row[d].status # "PROCESSING" /\ row'[d].status = row[d].status
  PROVE  [WQ!Next]_WQ!wqVars
<1>1. \A v \in Worker, e \in Doc : Holds(v, e)' = Holds(v, e)
  BY DEF Holds, AtWork, Working
<1>2. \A e \in Doc \ {d} : row'[e].status = row[e].status /\ HolderOf(e)' = HolderOf(e)
  BY <1>1, SameHolder
<1>3. HolderOf(d) = None /\ HolderOf(d)' = None
  <2>1. \A v \in Worker : ~Holds(v, d)
    BY HolderIsAtWork
  <2> QED BY <1>1, <2>1, HolderIsAtWork, HolderIsAtWorkNext
<1>4. CASE row[d].status = "ABSENT" /\ row'[d].status \in {"QUEUED", "FAILED"}
  <2>1. WQ!Change(d, {"ABSENT"}, row'[d].status, None)
    BY <1>2, <1>3, <1>4, MapsToChange
  <2> QED BY <1>4, <2>1 DEF WQ!Next, WQ!Enqueue
<1>5. CASE /\ row[d].status \in {"PUBLISHED", "FAILED"}
           /\ row'[d].status \in {"QUEUED", "UNPUBLISHED"}
  <2>1. WQ!Change(d, WQ!Ended, row'[d].status, None)
    BY <1>2, <1>3, <1>5, MapsToChange DEF WQ!Ended
  <2> QED BY <1>5, <2>1 DEF WQ!Next, WQ!Requeue, WQ!Withdraw
<1>6. CASE row'[d].status = row[d].status
  BY <1>2, <1>3, <1>6, MapsToStutter
<1> QED BY <1>4, <1>5, <1>6

-----------------------------------------------------------------------------
(* The status each update of a row leaves.                                 *)
LEMMA StatusColumn ==
  /\ \A c, K : AcceptedRow(c, K).status = "QUEUED" /\ RejectedRow(c, K).status = "FAILED"
  /\ \A r \in Row :
       /\ PublishedRow(r).status = "PUBLISHED" /\ UnpublishedRow(r).status = "UNPUBLISHED"
       /\ \A s : FailedRow(r, s).status = "FAILED" /\ RequeuedRow(r, s).status = "QUEUED"
       /\ \A K : RekeyedRow(r, K).status = r.status
<1>1. \A c, K : AcceptedRow(c, K).status = "QUEUED" /\ RejectedRow(c, K).status = "FAILED"
  BY DEF AcceptedRow, RejectedRow, NoRow
<1>2. ASSUME NEW r \in Row, NEW S, NEW st, NEW v, NEW f
      PROVE  [WithStages(r, S, st) EXCEPT !.status = v, !.failed = f].status = v
  BY DEF WithStages, Row
<1>3. \A r \in Row :
        /\ PublishedRow(r).status = "PUBLISHED"
        /\ \A s : FailedRow(r, s).status = "FAILED" /\ RequeuedRow(r, s).status = "QUEUED"
  BY <1>2 DEF PublishedRow, FailedRow, RequeuedRow
<1>4. \A r \in Row : /\ UnpublishedRow(r).status = "UNPUBLISHED"
                     /\ \A K : RekeyedRow(r, K).status = r.status
  BY DEF UnpublishedRow, RekeyedRow, Row
<1> QED BY <1>1, <1>3, <1>4

(* The worker's loop maps: a claim is Take, a recovered row is Interrupt.  *)
LEMMA LoopMaps ==
  ASSUME TypeOK, OwnsDocument, OwnsDocument', NEW w \in Worker,
         \/ Start(w) \/ FindStale(w) \/ (\E d \in Doc : RecoverOne(w, d)) \/ Recovered(w)
         \/ Pick(w) \/ Claim(w) \/ Reread(w) \/ Wake(w)
  PROVE  [WQ!Next]_WQ!wqVars
<1> USE DEF TypeOK, WorkState, Goto
<1>1. \A v \in Worker \ {w} : work'[v] = work[v]
  BY DEF Start, FindStale, RecoverOne, Recovered, Pick, Claim, Reread, Wake
<1>2. CASE Start(w) \/ FindStale(w) \/ Recovered(w) \/ Pick(w) \/ Wake(w)
  <2>1. UNCHANGED row
    BY <1>2 DEF Start, FindStale, Recovered, Pick, Wake
  <2>2. ~AtWork(w) /\ ~AtWork(w)'
    BY <1>2 DEF Start, FindStale, Recovered, Pick, Wake, Loop, AtWork, Working, Pipeline
  <2>3. \A v \in Worker, e \in Doc : Holds(v, e)' = Holds(v, e)
    BY <1>1, <2>2 DEF Holds, AtWork, Working
  <2> QED BY <2>1, <2>3, SameHolder, MapsToStutter
<1>3. ASSUME NEW d \in Doc, RecoverOne(w, d) PROVE [WQ!Next]_WQ!wqVars
  <2>1. ~AtWork(w) /\ ~AtWork(w)'
    BY <1>3 DEF RecoverOne, AtWork, Working, Pipeline
  <2>2. \A e \in Doc \ {d} : row'[e] = row[e]
    BY <1>3 DEF RecoverOne, Put
  <2>3. CASE Expect(d, {"PROCESSING"}) /\ ~row[d].fresh
    <3>1. row'[d].status = "FAILED"
      BY <1>3, <2>3, StatusColumn DEF RecoverOne, Put
    <3>2. \A v \in Worker : AtWork(v) => work[v].doc # d
      BY <2>3 DEF OwnsDocument
    <3>3. row[d].status = "PROCESSING"
      BY <2>3 DEF Expect
    <3> HIDE DEF TypeOK, WorkState, Goto
    <3> QED BY <1>1, <2>1, <2>2, <3>1, <3>2, <3>3, WorkerStepMaps
  <2>4. CASE ~(Expect(d, {"PROCESSING"}) /\ ~row[d].fresh)
    <3>1. row'[d] = row[d]
      BY <1>3, <2>4 DEF RecoverOne
    <3> HIDE DEF TypeOK, WorkState, Goto
    <3> QED BY <1>1, <2>1, <2>2, <3>1, WorkerStepMaps
  <2> QED BY <2>3, <2>4
<1>4. CASE Claim(w)
  <2> DEFINE d == work[w].doc
  <2>1. d \in Doc /\ ~AtWork(w)
    BY <1>4 DEF Claim, DocPhase, AtWork, Working, Pipeline
  <2>2. \A e \in Doc \ {d} : row'[e] = row[e]
    BY <1>4, <2>1 DEF Claim, Put
  <2>3. \/ AtWork(w)' /\ work'[w].doc = d /\ row[d].status = "QUEUED"
        \/ ~AtWork(w)' /\ row'[d] = row[d]
    BY <1>4, <2>1 DEF Claim, Expect, Loop, AtWork, Working, Pipeline
  <2> HIDE DEF TypeOK, WorkState, Goto, d
  <2> QED BY <1>1, <2>1, <2>2, <2>3, WorkerStepMaps
<1>5. CASE Reread(w)
  <2> DEFINE d == work[w].doc
  <2>1. d \in Doc /\ AtWork(w)
    BY <1>5 DEF Reread, DocPhase, AtWork
  <2>2. AtWork(w)' /\ work'[w].doc = d /\ UNCHANGED row
    BY <1>5 DEF Reread, AtWork, Working, Pipeline
  <2> HIDE DEF TypeOK, WorkState, Goto, d
  <2>3. \A e \in Doc \ {d} : row'[e] = row[e]
    BY <2>2
  <2> QED BY <1>1, <2>1, <2>2, <2>3, WorkerStepMaps DEF d
<1> QED BY <1>2, <1>3, <1>4, <1>5

(* The pipeline maps: stages and their results are stutters, finish is End *)
(* and a call that fails for good is LetGo.                                *)
LEMMA PipelineMaps ==
  ASSUME TypeOK, OwnsDocument, OwnsDocument', NEW w \in Worker,
         \/ BeginStage(w) \/ RunStage(w) \/ PublishStage(w) \/ StageFails(w)
         \/ CompleteStage(w) \/ Results(w) \/ FinishPublished(w) \/ FinishFailed(w)
  PROVE  [WQ!Next]_WQ!wqVars
<1> DEFINE d == work[w].doc
<1> USE DEF TypeOK, WorkState, Goto
<1>1. AtWork(w)
  BY DEF BeginStage, RunStage, PublishStage, StageFails, CompleteStage, Results, FinishPublished,
         FinishFailed, AtWork, Working, Pipeline
<1>2. d \in Doc /\ row[d] \in Row /\ Expect(d, {"PROCESSING"})
  BY <1>1, OneAtWork DEF OwnsDocument, Expect
<1>3. CASE \/ BeginStage(w) \/ RunStage(w) \/ PublishStage(w) \/ StageFails(w)
           \/ CompleteStage(w) \/ Results(w)
  <2>1. /\ \A v \in Worker \ {w} : work'[v] = work[v]
        /\ AtWork(w)' /\ work'[w].doc = d
    BY <1>2, <1>3 DEF BeginStage, RunStage, PublishStage, StageFails, CompleteStage, Results,
                      UpdateOrAbandon, AtWork, Working, Pipeline
  <2>2. \A e \in Doc \ {d} : row'[e] = row[e]
    BY <1>2, <1>3 DEF BeginStage, RunStage, PublishStage, StageFails, CompleteStage, Results,
                      UpdateOrAbandon, Put, stores
  <2> HIDE DEF TypeOK, WorkState, Goto, d
  <2> QED BY <1>1, <1>2, <2>1, <2>2, WorkerStepMaps DEF d
<1>4. CASE FinishPublished(w) \/ FinishFailed(w)
  <2>1. Leave(w) /\ (Put(d, PublishedRow(row[d])) \/ \E s : Put(d, FailedRow(row[d], s)))
    BY <1>2, <1>4 DEF FinishPublished, FinishFailed, UpdateOrAbandon
  <2>2. (\A v \in Worker \ {w} : work'[v] = work[v]) /\ ~AtWork(w)'
    BY <2>1 DEF Leave, Loop, AtWork, Working, Pipeline
  <2>3. \A e \in Doc \ {d} : row'[e] = row[e]
    BY <2>1 DEF Put
  <2>4. row'[d].status \in {"PUBLISHED", "FAILED"}
    BY <1>2, <2>1, StatusColumn DEF Put
  <2> HIDE DEF TypeOK, WorkState, Goto, d
  <2> QED BY <1>1, <1>2, <2>2, <2>3, <2>4, WorkerStepMaps DEF d
<1> QED BY <1>3, <1>4

(* A failing call, a stop or a crash lets the document go, and the row a   *)
(* stopped worker releases is interrupted.                                 *)
LEMMA TroubleMaps ==
  ASSUME TypeOK, OwnsDocument, OwnsDocument', NEW w \in Worker,
         WorkerTrouble(w) \/ Release(w) \/ ReleaseFails(w)
  PROVE  [WQ!Next]_WQ!wqVars
<1> DEFINE d == work[w].doc
<1> USE DEF TypeOK, WorkState, Goto
<1>1. CASE WorkerTrouble(w) \/ ReleaseFails(w)
  <2>1. UNCHANGED row /\ \A v \in Worker \ {w} : work'[v] = work[v]
    BY <1>1 DEF WorkerTrouble, ReleaseFails, RegistryFault, Stop, Crash, Leave
  <2>2. AtWork(w)' => AtWork(w) /\ work'[w].doc = d
    BY <1>1 DEF WorkerTrouble, ReleaseFails, RegistryFault, Stop, Crash, Leave, Loop, AtWork,
                Working, Pipeline
  <2>3. CASE AtWork(w)
    <3>1. d \in Doc /\ row[d].status = "PROCESSING"
      BY <2>3, OneAtWork DEF OwnsDocument
    <3>2. row'[d].status = "PROCESSING" /\ \A e \in Doc \ {d} : row'[e] = row[e]
      BY <2>1, <3>1
    <3> HIDE DEF TypeOK, WorkState, Goto, d
    <3> QED BY <2>1, <2>2, <2>3, <3>1, <3>2, WorkerStepMaps DEF d
  <2>4. CASE ~AtWork(w)
    <3>1. \A v \in Worker, e \in Doc : Holds(v, e)' = Holds(v, e)
      BY <2>1, <2>2, <2>4 DEF Holds, AtWork, Working
    <3> QED BY <2>1, <3>1, SameHolder, MapsToStutter
  <2> QED BY <2>3, <2>4
<1>2. CASE Release(w)
  <2>1. /\ d \in Doc /\ ~AtWork(w) /\ ~AtWork(w)'
        /\ \A v \in Worker \ {w} : work'[v] = work[v]
        /\ \A e \in Doc \ {d} : row'[e] = row[e]
    BY <1>2 DEF Release, DocPhase, Put, Loop, AtWork, Working, Pipeline
  <2>2. CASE Expect(d, {"PROCESSING"}) /\ row[d].owner = w
    <3>1. row[d].status = "PROCESSING" /\ \A v \in Worker : AtWork(v) => work[v].doc # d
      BY <2>1, <2>2 DEF OwnsDocument, Expect
    <3>2. row'[d].status = "FAILED"
      BY <1>2, <2>1, <2>2, StatusColumn DEF Release, Put
    <3> HIDE DEF TypeOK, WorkState, Goto, d
    <3> QED BY <2>1, <3>1, <3>2, WorkerStepMaps
  <2>3. CASE ~(Expect(d, {"PROCESSING"}) /\ row[d].owner = w)
    <3>1. row'[d] = row[d]
      BY <1>2, <2>3 DEF Release
    <3> HIDE DEF TypeOK, WorkState, Goto, d
    <3> QED BY <2>1, <3>1, WorkerStepMaps
  <2> QED BY <2>2, <2>3
<1> QED BY <1>1, <1>2

(* The clock and orphaned publish calls are stutters.                      *)
LEMMA ClockMaps ==
  ASSUME TypeOK, OwnsDocument, OwnsDocument',
         \/ \E d \in Doc : GoStale(d)
         \/ \E w \in Worker : Heartbeat(w)
         \/ \E p \in orphans : OrphanPublishes(p)
  PROVE  [WQ!Next]_WQ!wqVars
<1>1. UNCHANGED work
  BY DEF GoStale, Heartbeat, OrphanPublishes
<1>2. \A e \in Doc : row'[e].status = row[e].status /\ row'[e].owner = row[e].owner
  <2>1. UNCHANGED row \/ \E d, b : Put(d, [row[d] EXCEPT !.fresh = b])
    BY DEF GoStale, Heartbeat, OrphanPublishes
  <2>2. ASSUME NEW d, NEW b, Put(d, [row[d] EXCEPT !.fresh = b]), NEW e \in Doc
        PROVE  row'[e].status = row[e].status /\ row'[e].owner = row[e].owner
    <3>1. CASE e = d
      BY <2>2, <3>1 DEF Put, TypeOK, Row
    <3>2. CASE e # d
      BY <2>2, <3>2 DEF Put, TypeOK
    <3> QED BY <3>1, <3>2
  <2> QED BY <2>1, <2>2
<1>3. \A e \in Doc : HolderOf(e)' = HolderOf(e)
  BY <1>1, <1>2 DEF HolderOf, Holds, AtWork, Working
<1> QED BY <1>2, <1>3, MapsToStutter

(* Requests enqueue, requeue and withdraw, or change no status.            *)
LEMMA RequestMaps ==
  ASSUME TypeOK, OwnsDocument, OwnsDocument', NEW r \in Request, RequestStep(r)
  PROVE  [WQ!Next]_WQ!wqVars
<1> DEFINE d == req[r].doc
<1> USE DEF TypeOK
<1>1. CASE UNCHANGED <<row, work>>
  <2>1. \A v \in Worker, e \in Doc : Holds(v, e)' = Holds(v, e)
    BY <1>1 DEF Holds, AtWork, Working
  <2> QED BY <1>1, <2>1, SameHolder, MapsToStutter
<1>2. ASSUME NEW e \in Doc, NEW new, UNCHANGED work, Put(e, new),
             \/ row[e].status = "ABSENT" /\ new.status \in {"QUEUED", "FAILED"}
             \/ row[e].status \in {"PUBLISHED", "FAILED"} /\ new.status \in {"QUEUED", "UNPUBLISHED"}
             \/ row[e].status # "PROCESSING" /\ new.status = row[e].status
      PROVE  [WQ!Next]_WQ!wqVars
  <2>1. row'[e] = new /\ \A f \in Doc \ {e} : row'[f] = row[f]
    BY <1>2 DEF Put
  <2> HIDE DEF TypeOK
  <2> QED BY <1>2, <2>1, RequestStepMaps
<1>3. CASE \/ \E c \in Content, K \in SUBSET Queue : UploadFile(r, c, K)
           \/ CheckDuplicate(r)
           \/ \E e \in Doc : RetryRead(r, e) \/ RepublishRead(r, e) \/ UnpublishRead(r, e)
           \/ \E e \in Doc, K \in SUBSET Queue : QueuesRead(r, e, K)
           \/ RoundsUsedUp(r) \/ UnpublishKb(r) \/ QueuesKb(r) \/ KbRefuses(r) \/ Abort(r)
  <2>1. UNCHANGED <<row, work>>
    BY <1>3 DEF UploadFile, CheckDuplicate, RetryRead, RepublishRead, UnpublishRead, QueuesRead,
                RoundsUsedUp, UnpublishKb, QueuesKb, KbRefuses, Abort
  <2> QED BY <1>1, <2>1
<1>4. CASE InsertQueued(r) \/ InsertRejected(r) \/ InsertCutOff(r)
  <2>1. PICK e \in Doc : /\ row[e].status = "ABSENT" /\ UNCHANGED work
                         /\ \E new : Put(e, new) /\ new.status \in {"QUEUED", "FAILED"}
    BY <1>4, StatusColumn DEF InsertQueued, InsertRejected, InsertCutOff, IsOldest, Free
  <2> QED BY <1>2, <2>1
<1>5. CASE RetryWrite(r) \/ RepublishWrite(r) \/ UnpublishRow(r) \/ QueuesRow(r)
  <2>1. d \in Doc /\ row[d] \in Row /\ UNCHANGED work
    BY <1>5 DEF ReqState, AdminPhase, RetryWrite, RepublishWrite, UnpublishRow, QueuesRow
  <2>2. \/ UNCHANGED row
        \/ \E new : /\ Put(d, new)
                    /\ \/ /\ row[d].status \in {"PUBLISHED", "FAILED"}
                          /\ new.status \in {"QUEUED", "UNPUBLISHED"}
                       \/ row[d].status # "PROCESSING" /\ new.status = row[d].status
    BY <1>5, <2>1, StatusColumn DEF RetryWrite, RepublishWrite, UnpublishRow, QueuesRow,
                                    UpdateOrConflict, Expect
  <2> QED BY <1>1, <1>2, <2>1, <2>2
<1> QED BY <1>3, <1>4, <1>5 DEF RequestStep

(* The refinement: the initial states map to initial states and every step *)
(* of the pipeline to a step or a stutter of the work queue.               *)
THEOREM ImplementsQueue == "stall" \notin Hazard => (Spec => ImplementsWorkQueue)
<1> SUFFICES ASSUME "stall" \notin Hazard PROVE Spec => ImplementsWorkQueue
  OBVIOUS
<1>1. Init => WQ!Init
  BY DEF Init, WQ!Init, NoRow, HolderOf
<1>2. TypeOK /\ OwnsDocument /\ OwnsDocument' /\ [Next]_vars => [WQ!Next]_WQ!wqVars
  <2> SUFFICES ASSUME TypeOK, OwnsDocument, OwnsDocument', [Next]_vars
               PROVE  [WQ!Next]_WQ!wqVars
    OBVIOUS
  <2>1. ASSUME NEW w \in Worker, WorkerStep(w) \/ WorkerTrouble(w) PROVE [WQ!Next]_WQ!wqVars
    BY <2>1, LoopMaps, PipelineMaps, TroubleMaps DEF WorkerStep
  <2>2. CASE (\E d \in Doc : GoStale(d)) \/ (\E w \in Worker : Heartbeat(w))
             \/ (\E p \in orphans : OrphanPublishes(p))
    BY <2>2, ClockMaps
  <2>3. ASSUME NEW r \in Request, RequestStep(r) PROVE [WQ!Next]_WQ!wqVars
    BY <2>3, RequestMaps
  <2>4. CASE UNCHANGED vars
    <3>1. \A e \in Doc : row'[e].status = row[e].status /\ HolderOf(e)' = HolderOf(e)
      BY <2>4 DEF vars, HolderOf, Holds, AtWork, Working
    <3> QED BY <3>1, MapsToStutter
  <2> QED BY <2>1, <2>2, <2>3, <2>4 DEF Next
<1>3. Spec => []TypeOK /\ []OwnsDocument
  BY TypeCorrect, Ownership
<1> QED BY <1>1, <1>2, <1>3, PTL DEF Spec, ImplementsWorkQueue, WQ!Spec
=============================================================================
