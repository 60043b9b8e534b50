--------------------------- MODULE KbImportProofs ---------------------------
(* What holds of the import pipeline for every set of documents, workers,  *)
(* requests and queues, proved with TLAPS.                                 *)
EXTENDS KbImport, TLAPS

(* The stages, enumerated and numbered.                                    *)
LEMMA StageSet ==
  /\ Stage = {"upload", "extraction", "chunking", "embedding", "publishing"}
  /\ \A s \in Stage : StageNo[s] \in 1..5
  /\ \A s \in Stage : s # "publishing" => NextStage(s) \in Stage
<1>1. Stage = {"upload", "extraction", "chunking", "embedding", "publishing"}
  <2>1. \A i \in 1..5 : i = 1 \/ i = 2 \/ i = 3 \/ i = 4 \/ i = 5
    OBVIOUS
  <2>2. /\ KB_STAGES[1] = "upload" /\ KB_STAGES[2] = "extraction" /\ KB_STAGES[3] = "chunking"
        /\ KB_STAGES[4] = "embedding" /\ KB_STAGES[5] = "publishing"
    BY DEF KB_STAGES
  <2>3. 1 \in 1..5 /\ 2 \in 1..5 /\ 3 \in 1..5 /\ 4 \in 1..5 /\ 5 \in 1..5
    OBVIOUS
  <2> QED BY <2>1, <2>2, <2>3 DEF Stage
<1>2. \A s \in Stage : StageNo[s] \in 1..5
  BY <1>1 DEF StageNo
<1>3. \A s \in Stage : s # "publishing" => NextStage(s) \in Stage
  BY <1>1 DEF StageNo, NextStage, KB_STAGES
<1> QED BY <1>1, <1>2, <1>3

(* The first stage of a nonempty set of stages exists and is in the set.   *)
LEMMA FirstStageIn ==
  ASSUME NEW S \in SUBSET Stage, S # {}
  PROVE  FirstStage(S) \in S /\ \A t \in S : StageNo[FirstStage(S)] <= StageNo[t]
<1>1. \E s \in S : \A t \in S : StageNo[s] <= StageNo[t]
  <2>1. /\ StageNo["upload"] = 1 /\ StageNo["extraction"] = 2 /\ StageNo["chunking"] = 3
        /\ StageNo["embedding"] = 4 /\ StageNo["publishing"] = 5
    BY DEF StageNo
  <2>2. \A t \in S : t \in {"upload", "extraction", "chunking", "embedding", "publishing"}
    BY StageSet
  <2>3. CASE "upload" \in S BY <2>1, <2>2, <2>3
  <2>4. CASE "upload" \notin S /\ "extraction" \in S BY <2>1, <2>2, <2>4
  <2>5. CASE "upload" \notin S /\ "extraction" \notin S /\ "chunking" \in S BY <2>1, <2>2, <2>5
  <2>6. CASE /\ "upload" \notin S /\ "extraction" \notin S /\ "chunking" \notin S
             /\ "embedding" \in S
    BY <2>1, <2>2, <2>6
  <2>7. CASE /\ "upload" \notin S /\ "extraction" \notin S /\ "chunking" \notin S
             /\ "embedding" \notin S
    BY <2>1, <2>2, <2>7
  <2> QED BY <2>3, <2>4, <2>5, <2>6, <2>7
<1> QED BY <1>1 DEF FirstStage

(* An interruption is charged to a stage that was not complete, unless all *)
(* were; and to a running one when there is one.                           *)
LEMMA InterruptedStageType ==
  ASSUME NEW st
  PROVE  /\ InterruptedStage(st) \in Stage
         /\ (\E s \in Stage : st[s] = "RUNNING") => st[InterruptedStage(st)] = "RUNNING"
<1> DEFINE R == InStatus(st, {"RUNNING"})
           P == InStatus(st, {"PENDING", "FAILED"})
<1>1. R \in SUBSET Stage /\ P \in SUBSET Stage
  BY DEF InStatus
<1>2. CASE R # {}
  <2>1. FirstStage(R) \in R BY <1>1, <1>2, FirstStageIn
  <2> QED BY <2>1, <1>2 DEF InterruptedStage, InStatus
<1>3. CASE R = {} /\ P # {}
  <2>1. FirstStage(P) \in P BY <1>1, <1>3, FirstStageIn
  <2> QED BY <2>1, <1>3 DEF InterruptedStage, InStatus
<1>4. CASE R = {} /\ P = {}
  BY <1>4, StageSet DEF InterruptedStage, InStatus
<1> QED BY <1>2, <1>3, <1>4

-----------------------------------------------------------------------------
(* The updates of kb_repo.py take rows to rows.                            *)
LEMMA RowTypes ==
  /\ NoRow \in Row
  /\ \A c \in Content \cup {None}, K \in SUBSET Queue :
       AcceptedRow(c, K) \in Row /\ RejectedRow(c, K) \in Row
  /\ \A r \in Row :
       /\ \A S, st : st \in StageStatus => WithStages(r, S, st) \in Row
       /\ \A w \in Worker : r.attempts < MaxAttempts => ClaimedRow(r, w) \in Row
       /\ PublishedRow(r) \in Row
       /\ \A s \in Stage : FailedRow(r, s) \in Row /\ RequeuedRow(r, s) \in Row
       /\ UnpublishedRow(r) \in Row
       /\ \A K \in SUBSET Queue : RekeyedRow(r, K) \in Row
       /\ \A b \in BOOLEAN : [r EXCEPT !.fresh = b] \in Row
<1> USE RegistryAssumption
<1>1. NoRow \in Row
  BY DEF NoRow, Row, StageStatus, DocStatus
<1>2. ASSUME NEW c \in Content \cup {None}, NEW K \in SUBSET Queue
      PROVE  AcceptedRow(c, K) \in Row /\ RejectedRow(c, K) \in Row
  <2>1. AcceptedRow(c, K) \in Row
    <3>1. [NoRow.stage EXCEPT !["upload"] = "COMPLETED"] \in [Stage -> StageStatus]
      BY DEF NoRow, StageStatus
    <3>2. AcceptedRow(c, K) = [NoRow EXCEPT !.status = "QUEUED", !.keys = K, !.content = c,
                                 !.stage = [NoRow.stage EXCEPT !["upload"] = "COMPLETED"]]
      BY DEF AcceptedRow, NoRow
    <3> QED BY <1>1, <3>1, <3>2 DEF Row, DocStatus
  <2>2. RejectedRow(c, K) \in Row
    BY <1>1, StageSet DEF RejectedRow, Row, DocStatus, StageStatus
  <2> QED BY <2>1, <2>2
<1>3. ASSUME NEW r \in Row
      PROVE  /\ \A S, st : st \in StageStatus => WithStages(r, S, st) \in Row
             /\ \A w \in Worker : r.attempts < MaxAttempts => ClaimedRow(r, w) \in Row
             /\ PublishedRow(r) \in Row
             /\ \A s \in Stage : FailedRow(r, s) \in Row /\ RequeuedRow(r, s) \in Row
             /\ UnpublishedRow(r) \in Row
             /\ \A K \in SUBSET Queue : RekeyedRow(r, K) \in Row
             /\ \A b \in BOOLEAN : [r EXCEPT !.fresh = b] \in Row
  <2>1. ASSUME NEW S, NEW st \in StageStatus PROVE WithStages(r, S, st) \in Row
    BY DEF WithStages, Row
  <2>2. {"PENDING", "COMPLETED", "FAILED"} \subseteq StageStatus
    BY DEF StageStatus
  <2>3. ASSUME NEW w \in Worker, r.attempts < MaxAttempts PROVE ClaimedRow(r, w) \in Row
    <3>1. r.attempts + 1 \in 0..MaxAttempts BY <2>3 DEF Row
    <3> QED BY <3>1 DEF ClaimedRow, Row, DocStatus
  <2>4. PublishedRow(r) \in Row
    <3>1. WithStages(r, {"publishing"}, "COMPLETED") \in Row BY <2>1, <2>2
    <3> QED BY <3>1 DEF PublishedRow, Row, DocStatus
  <2>5. ASSUME NEW s \in Stage PROVE FailedRow(r, s) \in Row /\ RequeuedRow(r, s) \in Row
    <3>1. WithStages(r, {s}, "FAILED") \in Row /\ WithStages(r, FromStage(s), "PENDING") \in Row
      BY <2>1, <2>2
    <3> QED BY <3>1 DEF FailedRow, RequeuedRow, Row, DocStatus
  <2>6. UnpublishedRow(r) \in Row BY DEF UnpublishedRow, Row, DocStatus
  <2>7. ASSUME NEW K \in SUBSET Queue PROVE RekeyedRow(r, K) \in Row
    BY DEF RekeyedRow, Row
  <2>8. ASSUME NEW b \in BOOLEAN PROVE [r EXCEPT !.fresh = b] \in Row
    BY DEF Row
  <2> QED BY <2>1, <2>3, <2>4, <2>5, <2>6, <2>7, <2>8
<1> QED BY <1>1, <1>2, <1>3

(* What a worker or a request may remember.                                *)
LEMMA LoopType == \A p \in WorkPhase \ DocPhase : Loop(p) \in WorkState
  BY StageSet DEF Loop, WorkState, CLAIM_ATTEMPTS

LEMMA IdleReqType == IdleReq \in ReqState
  BY DEF IdleReq, ReqState, ReqPhase, AdminPhase

LEMMA PutType ==
  ASSUME TypeOK, NEW d \in Doc, NEW r \in Row, Put(d, r)
  PROVE  row' \in [Doc -> Row]
  BY DEF TypeOK, Put

(* The worker steps that move it within its loop or pipeline.              *)
LEMMA WorkType ==
  ASSUME TypeOK, NEW w \in Worker
  PROVE  /\ \A p \in WorkPhase \ {"pick", "results"} :
              Goto(w, p) /\ (p \in DocPhase => work[w].doc \in Doc) => work' \in [Worker -> WorkState]
         /\ Leave(w) => work' \in [Worker -> WorkState]
         /\ \A p \in WorkPhase \ DocPhase :
              work' = [work EXCEPT ![w] = Loop(p)] => work' \in [Worker -> WorkState]
<1>1. work \in [Worker -> WorkState] BY DEF TypeOK
<1>2. ASSUME NEW p \in WorkPhase \ {"pick", "results"}, Goto(w, p), p \in DocPhase => work[w].doc \in Doc
      PROVE  work' \in [Worker -> WorkState]
  <2>1. [work[w] EXCEPT !.phase = p] \in WorkState BY <1>1, <1>2 DEF WorkState
  <2> QED BY <1>1, <1>2, <2>1 DEF Goto
<1>3. "claim" \in WorkPhase \ DocPhase BY DEF WorkPhase, DocPhase, Pipeline
<1>4. ASSUME NEW p \in WorkPhase \ DocPhase, work' = [work EXCEPT ![w] = Loop(p)]
      PROVE  work' \in [Worker -> WorkState]
  BY <1>1, <1>4, LoopType
<1>5. Leave(w) => work' \in [Worker -> WorkState]
  BY <1>3, <1>4 DEF Leave
<1> QED BY <1>2, <1>4, <1>5

LEMMA ReqType ==
  ASSUME TypeOK, NEW r \in Request
  PROVE  /\ \A st \in ReqState : Ask(r, st) => req' \in [Request -> ReqState]
         /\ Done(r) => req' \in [Request -> ReqState]
         /\ \A p \in ReqPhase \ {"retry"} :
              Advance(r, p) /\ (p \in AdminPhase => req[r].doc \in Doc) => req' \in [Request -> ReqState]
<1>1. req \in [Request -> ReqState] BY DEF TypeOK
<1>2. ASSUME NEW p \in ReqPhase \ {"retry"}, Advance(r, p), p \in AdminPhase => req[r].doc \in Doc
      PROVE  req' \in [Request -> ReqState]
  <2>1. [req[r] EXCEPT !.phase = p] \in ReqState BY <1>1, <1>2 DEF ReqState
  <2> QED BY <1>1, <1>2, <2>1 DEF Advance
<1> QED BY <1>1, <1>2, IdleReqType DEF Ask, Done

LEMMA KbType ==
  ASSUME TypeOK, NEW d \in Doc
  PROVE  /\ \A K \in SUBSET Queue : KbPublish(d, K) \/ KbSetQueues(d, K) => kb' \in [Doc -> Kb]
         /\ KbUnpublish(d) => kb' \in [Doc -> Kb]
<1>1. kb \in [Doc -> Kb] BY DEF TypeOK
<1>2. ASSUME NEW K \in SUBSET Queue, KbSetQueues(d, K) PROVE kb' \in [Doc -> Kb]
  <2>1. [kb[d] EXCEPT !.queues = K] \in Kb BY <1>1 DEF Kb
  <2> QED BY <1>1, <1>2, <2>1 DEF KbSetQueues
<1>3. ASSUME NEW K \in SUBSET Queue, KbPublish(d, K) PROVE kb' \in [Doc -> Kb]
  BY <1>1, <1>3 DEF KbPublish, Kb
<1>4. ASSUME KbUnpublish(d) PROVE kb' \in [Doc -> Kb]
  BY <1>1, <1>4 DEF KbUnpublish, Kb
<1> QED BY <1>2, <1>3, <1>4

-----------------------------------------------------------------------------
(* Type correctness, one step per action.                                  *)
LEMMA LoopTypes ==
  ASSUME TypeOK, NEW w \in Worker,
         \/ Start(w) \/ FindStale(w) \/ Recovered(w) \/ Pick(w) \/ Claim(w) \/ Reread(w) \/ Wake(w)
         \/ \E d \in Doc : RecoverOne(w, d)
  PROVE  TypeOK'
<1>0. /\ row \in [Doc -> Row] /\ work \in [Worker -> WorkState] /\ req \in [Request -> ReqState]
      /\ work[w] \in WorkState
  BY DEF TypeOK
<1>1. CASE Start(w)
  <2>1. "poll" \in WorkPhase \ DocPhase BY DEF WorkPhase, DocPhase, Pipeline
  <2>2. work' \in [Worker -> WorkState] BY <1>1, <2>1, WorkType DEF Start
  <2> QED BY <1>1, <2>2 DEF Start, TypeOK, stores
<1>2. CASE FindStale(w)
  <2>1. [work[w] EXCEPT !.phase = "recover",
           !.todo = {d \in Doc : row[d].status = "PROCESSING" /\ ~row[d].fresh}] \in WorkState
    BY <1>0 DEF WorkState, WorkPhase, DocPhase, Pipeline
  <2>2. work' \in [Worker -> WorkState] BY <1>0, <1>2, <2>1 DEF FindStale
  <2> QED BY <1>2, <2>2 DEF FindStale, TypeOK, stores
<1>3. CASE Recovered(w)
  <2>1. "claim" \in WorkPhase \ DocPhase BY DEF WorkPhase, DocPhase, Pipeline
  <2>2. work' \in [Worker -> WorkState] BY <1>3, <2>1, WorkType DEF Recovered
  <2> QED BY <1>3, <2>2 DEF Recovered, TypeOK, stores
<1>4. CASE Pick(w)
  <2>1. "idle" \in WorkPhase \ DocPhase /\ "pick" \in WorkPhase
    BY DEF WorkPhase, DocPhase, Pipeline
  <2>2. ASSUME NEW d \in Doc, work[w].tries < CLAIM_ATTEMPTS
        PROVE  [work[w] EXCEPT !.phase = "pick", !.doc = d] \in WorkState
    BY <1>0, <2>1, <2>2 DEF WorkState
  <2>3. work' \in [Worker -> WorkState] BY <1>0, <1>4, <2>1, <2>2, WorkType DEF Pick
  <2> QED BY <1>4, <2>3 DEF Pick, TypeOK, stores
<1>5. CASE Claim(w)
  <2>1. work[w].doc \in Doc
    BY <1>0, <1>5 DEF Claim, WorkState, DocPhase
  <2>2. row' \in [Doc -> Row]
    <3>1. CASE UNCHANGED row BY <1>0, <3>1
    <3>2. CASE row[work[w].doc].attempts < MaxAttempts /\ Put(work[w].doc, ClaimedRow(row[work[w].doc], w))
      BY <1>0, <2>1, <3>2, RowTypes, PutType
    <3> QED BY <1>5, <3>1, <3>2 DEF Claim
  <2>3. work' \in [Worker -> WorkState]
    <3>1. "reread" \in WorkPhase BY DEF WorkPhase
    <3>2. CASE Goto(w, "reread") BY <2>1, <3>1, <3>2, WorkType
    <3>3. CASE work' = [work EXCEPT ![w] = [Loop("claim") EXCEPT !.tries = work[w].tries + 1]]
      <4>1. "claim" \in WorkPhase \ DocPhase BY DEF WorkPhase, DocPhase, Pipeline
      <4>2. Loop("claim") \in WorkState BY <4>1, LoopType
      <4>3. work[w].tries + 1 \in 0..CLAIM_ATTEMPTS
        BY <1>0, <1>5 DEF Claim, WorkState, CLAIM_ATTEMPTS
      <4>4. [Loop("claim") EXCEPT !.tries = work[w].tries + 1] \in WorkState
        BY <4>2, <4>3 DEF WorkState, Loop
      <4> QED BY <1>0, <3>3, <4>4
    <3> QED BY <1>5, <3>2, <3>3 DEF Claim
  <2> QED BY <1>5, <2>2, <2>3 DEF Claim, TypeOK, stores
<1>6. CASE Reread(w)
  <2>1. work[w].doc \in Doc BY <1>0, <1>6 DEF Reread, WorkState, DocPhase
  <2>2. row[work[w].doc].keys \in SUBSET Queue BY <1>0, <2>1 DEF Row
  <2>3. ASSUME NEW s \in {"extraction", "chunking"}
        PROVE  [work[w] EXCEPT !.phase = "begin", !.stage = s, !.keys = row[work[w].doc].keys] \in WorkState
    BY <1>0, <2>1, <2>2, StageSet DEF WorkState, WorkPhase, Pipeline
  <2>4. work' \in [Worker -> WorkState] BY <1>0, <1>6, <2>3 DEF Reread
  <2> QED BY <1>6, <2>4 DEF Reread, TypeOK, stores
<1>7. CASE Wake(w)
  <2>1. "poll" \in WorkPhase \ DocPhase BY DEF WorkPhase, DocPhase, Pipeline
  <2>2. work' \in [Worker -> WorkState] BY <1>7, <2>1, WorkType DEF Wake
  <2> QED BY <1>7, <2>2 DEF Wake, TypeOK, stores
<1>8. ASSUME NEW d \in Doc, RecoverOne(w, d) PROVE TypeOK'
  <2>1. FailedRow(row[d], InterruptedStage(row[d].stage)) \in Row
    BY <1>0, InterruptedStageType, RowTypes
  <2>2. row' \in [Doc -> Row] BY <1>0, <1>8, <2>1, PutType DEF RecoverOne
  <2>3. [work[w] EXCEPT !.todo = work[w].todo \ {d}] \in WorkState BY <1>0 DEF WorkState
  <2>4. work' \in [Worker -> WorkState] BY <1>0, <1>8, <2>3 DEF RecoverOne
  <2> QED BY <1>8, <2>2, <2>4 DEF RecoverOne, TypeOK, stores
<1> QED BY <1>1, <1>2, <1>3, <1>4, <1>5, <1>6, <1>7, <1>8

(* The row a pipeline step leaves, whether it updates or abandons it.      *)
LEMMA UpdateTypes ==
  ASSUME TypeOK, NEW w \in Worker, work[w].phase \in DocPhase, NEW r \in Row,
         Put(work[w].doc, r) \/ UNCHANGED row
  PROVE  row' \in [Doc -> Row]
  BY PutType DEF TypeOK, WorkState

LEMMA PipelineTypes ==
  ASSUME TypeOK, NEW w \in Worker,
         \/ BeginStage(w) \/ RunStage(w) \/ PublishStage(w) \/ StageFails(w)
         \/ CompleteStage(w) \/ Results(w) \/ FinishPublished(w) \/ FinishFailed(w)
         \/ RegistryFault(w) \/ Heartbeat(w)
  PROVE  TypeOK'
<1>0. /\ row \in [Doc -> Row] /\ work \in [Worker -> WorkState]
      /\ work[w] \in WorkState
      /\ work[w].phase \in DocPhase => work[w].doc \in Doc /\ row[work[w].doc] \in Row
      /\ kb \in [Doc -> Kb] /\ normalized \subseteq Doc
  BY DEF TypeOK, WorkState
<1>a. /\ Pipeline \ {"results"} \subseteq WorkPhase \ {"pick", "results"} /\ Pipeline \subseteq DocPhase
      /\ {"claim", "idle"} \subseteq WorkPhase \ DocPhase
  BY DEF WorkPhase, DocPhase, Pipeline
<1>b. {"begin", "run", "done", "results", "failing"} = Pipeline BY DEF Pipeline
<1>c. \A S, st : st \in StageStatus /\ work[w].phase \in DocPhase => WithStages(row[work[w].doc], S, st) \in Row
  BY <1>0, RowTypes
<1>d. {"RUNNING", "COMPLETED"} \subseteq StageStatus BY DEF StageStatus
<1>e. work[w].stage \in Stage BY <1>0 DEF WorkState
<1>1. CASE BeginStage(w)
  <2>1. work[w].phase \in DocPhase BY <1>1, <1>a, <1>b DEF BeginStage
  <2>2. row' \in [Doc -> Row]
    BY <1>1, <2>1, <1>c, <1>d, UpdateTypes DEF BeginStage, UpdateOrAbandon
  <2>3. work' \in [Worker -> WorkState]
    BY <1>0, <1>1, <2>1, <1>a, <1>b, WorkType DEF BeginStage, UpdateOrAbandon
  <2> QED BY <1>1, <2>2, <2>3 DEF BeginStage, TypeOK, stores
<1>2. CASE RunStage(w)
  <2>1. work[w].phase \in DocPhase BY <1>2, <1>a, <1>b DEF RunStage
  <2>2. work' \in [Worker -> WorkState] BY <1>0, <1>2, <2>1, <1>a, <1>b, WorkType DEF RunStage
  <2>3. normalized' \subseteq Doc BY <1>0, <1>2, <2>1 DEF RunStage
  <2> QED BY <1>2, <2>2, <2>3 DEF RunStage, TypeOK
<1>3. CASE PublishStage(w)
  <2>1. work[w].phase \in DocPhase BY <1>3, <1>a, <1>b DEF PublishStage
  <2>2. work' \in [Worker -> WorkState] BY <1>0, <1>3, <2>1, <1>a, <1>b, WorkType DEF PublishStage
  <2>3. work[w].doc \in Doc /\ work[w].keys \in SUBSET Queue BY <1>0, <2>1 DEF WorkState
  <2>4. kb' \in [Doc -> Kb] BY <1>3, <2>3, KbType DEF PublishStage
  <2> QED BY <1>3, <2>2, <2>4 DEF PublishStage, TypeOK
<1>4. CASE StageFails(w)
  <2>1. work[w].phase \in DocPhase BY <1>4, <1>a, <1>b DEF StageFails
  <2>2. work' \in [Worker -> WorkState] BY <1>0, <1>4, <2>1, <1>a, <1>b, WorkType DEF StageFails
  <2> QED BY <1>4, <2>2 DEF StageFails, TypeOK, stores
<1>5. CASE CompleteStage(w)
  <2>1. work[w].phase \in DocPhase BY <1>5, <1>a, <1>b DEF CompleteStage
  <2>2. row' \in [Doc -> Row]
    BY <1>5, <2>1, <1>c, <1>d, UpdateTypes DEF CompleteStage, UpdateOrAbandon
  <2>3. work' \in [Worker -> WorkState]
    <3>1. [work[w] EXCEPT !.phase = "results"] \in WorkState
      BY <1>0, <1>5, <2>1 DEF CompleteStage, WorkState, WorkPhase, Pipeline
    <3>2. CASE Goto(w, "results") BY <1>0, <3>1, <3>2 DEF Goto
    <3>3. CASE Leave(w) BY <3>3, WorkType
    <3> QED BY <1>5, <3>2, <3>3 DEF CompleteStage, UpdateOrAbandon
  <2> QED BY <1>5, <2>2, <2>3 DEF CompleteStage, TypeOK, stores
<1>6. CASE Results(w)
  <2>1. work[w].phase \in DocPhase BY <1>6, <1>a, <1>b DEF Results
  <2>2. row' \in [Doc -> Row]
    BY <1>6, <2>1, <1>c, <1>d, UpdateTypes DEF Results, UpdateOrAbandon
  <2>3. work' \in [Worker -> WorkState]
    <3>1. NextStage(work[w].stage) \in Stage
      BY <1>0, <1>6, StageSet DEF Results, WorkState
    <3>2. [work[w] EXCEPT !.phase = "begin", !.stage = NextStage(work[w].stage)] \in WorkState
      BY <1>0, <2>1, <3>1 DEF WorkState, WorkPhase, Pipeline
    <3>3. CASE Leave(w) BY <3>3, WorkType
    <3>4. CASE work' = [work EXCEPT ![w].phase = "begin", ![w].stage = NextStage(work[w].stage)]
      BY <1>0, <3>2, <3>4
    <3> QED BY <1>6, <3>3, <3>4 DEF Results, UpdateOrAbandon
  <2> QED BY <1>6, <2>2, <2>3 DEF Results, TypeOK, stores
<1>7. CASE FinishPublished(w)
  <2>1. work[w].phase \in DocPhase BY <1>7, <1>a, <1>b DEF FinishPublished
  <2>2. PublishedRow(row[work[w].doc]) \in Row BY <1>0, <2>1, RowTypes
  <2>3. row' \in [Doc -> Row]
    BY <1>7, <2>1, <2>2, UpdateTypes DEF FinishPublished, UpdateOrAbandon
  <2>4. work' \in [Worker -> WorkState]
    BY <1>7, WorkType DEF FinishPublished, UpdateOrAbandon
  <2> QED BY <1>7, <2>3, <2>4 DEF FinishPublished, TypeOK, stores
<1>8. CASE FinishFailed(w)
  <2>1. work[w].phase \in DocPhase BY <1>8, <1>a, <1>b DEF FinishFailed
  <2>2. FailedRow(row[work[w].doc], work[w].stage) \in Row BY <1>0, <1>e, <2>1, RowTypes
  <2>3. row' \in [Doc -> Row]
    BY <1>8, <2>1, <2>2, UpdateTypes DEF FinishFailed, UpdateOrAbandon
  <2>4. work' \in [Worker -> WorkState]
    BY <1>8, WorkType DEF FinishFailed, UpdateOrAbandon
  <2> QED BY <1>8, <2>3, <2>4 DEF FinishFailed, TypeOK, stores
<1>9. CASE RegistryFault(w)
  <2>1. work' \in [Worker -> WorkState]
    BY <1>0, <1>9, <1>a, <1>b, WorkType DEF RegistryFault
  <2> QED BY <1>9, <2>1 DEF RegistryFault, TypeOK, stores
<1>10. CASE Heartbeat(w)
  <2>1. work[w].phase \in DocPhase BY <1>10, <1>a DEF Heartbeat, Working
  <2>2. [row[work[w].doc] EXCEPT !.fresh = TRUE] \in Row BY <1>0, <2>1, RowTypes
  <2>3. row' \in [Doc -> Row] BY <1>10, <2>1, <2>2, UpdateTypes DEF Heartbeat
  <2> QED BY <1>10, <2>3 DEF Heartbeat, TypeOK, stores
<1> QED BY <1>1, <1>2, <1>3, <1>4, <1>5, <1>6, <1>7, <1>8, <1>9, <1>10

LEMMA EndTypes ==
  ASSUME TypeOK, NEW w \in Worker, Stop(w) \/ Release(w) \/ ReleaseFails(w) \/ Crash(w)
  PROVE  TypeOK'
<1>0. /\ row \in [Doc -> Row] /\ work \in [Worker -> WorkState]
      /\ work[w] \in WorkState
      /\ work[w].phase \in DocPhase => work[w].doc \in Doc /\ row[work[w].doc] \in Row
  BY DEF TypeOK, WorkState
<1>1. "dead" \in WorkPhase \ DocPhase /\ "release" \in DocPhase /\ Pipeline \subseteq DocPhase
  BY DEF WorkPhase, DocPhase, Pipeline
<1>2. work' = [work EXCEPT ![w] = Loop("dead")] => work' \in [Worker -> WorkState]
  BY <1>1, WorkType
<1>3. CASE Stop(w)
  <2>1. work' \in [Worker -> WorkState]
    <3>1. CASE Working(w)
      <4>1. [work[w] EXCEPT !.phase = "release"] \in WorkState
        BY <1>0, <1>1, <3>1 DEF Working, WorkState, WorkPhase
      <4> QED BY <1>0, <1>3, <3>1, <4>1 DEF Stop
    <3>2. CASE ~Working(w) BY <1>2, <1>3, <3>2 DEF Stop
    <3> QED BY <3>1, <3>2
  <2>2. PublishInFlight(w) => work[w].doc \in Doc /\ work[w].keys \in SUBSET Queue
    BY <1>0, <1>1 DEF PublishInFlight, WorkState, DocPhase, Pipeline
  <2>3. kb' \in [Doc -> Kb] BY <1>3, <2>2, KbType DEF Stop, TypeOK
  <2>4. orphans' \subseteq Publish BY <1>3, <2>2 DEF Stop, TypeOK, Publish
  <2> QED BY <1>3, <2>1, <2>3, <2>4 DEF Stop, TypeOK
<1>4. CASE Release(w)
  <2>1. work[w].phase \in DocPhase BY <1>1, <1>4 DEF Release
  <2>2. FailedRow(row[work[w].doc], InterruptedStage(row[work[w].doc].stage)) \in Row
    BY <1>0, <2>1, InterruptedStageType, RowTypes
  <2>3. row' \in [Doc -> Row] BY <1>4, <2>1, <2>2, UpdateTypes DEF Release
  <2> QED BY <1>2, <1>4, <2>3 DEF Release, TypeOK, stores
<1>5. CASE ReleaseFails(w) BY <1>2, <1>5 DEF ReleaseFails, TypeOK, stores
<1>6. CASE Crash(w) BY <1>2, <1>6 DEF Crash, TypeOK, stores
<1> QED BY <1>3, <1>4, <1>5, <1>6

LEMMA RequestTypes ==
  ASSUME TypeOK, NEW r \in Request, RequestStep(r)
  PROVE  TypeOK'
<1>0. /\ row \in [Doc -> Row] /\ req \in [Request -> ReqState] /\ req[r] \in ReqState
      /\ IdleReq \in ReqState
      /\ req[r].keys \in SUBSET Queue /\ req[r].content \in Content \cup {None}
  BY IdleReqType DEF TypeOK, ReqState
<1>1. ASSUME NEW d \in Doc PROVE row[d] \in Row BY <1>0
<1>2. ReqPhase = {"idle", "upload_check", "upload_insert", "upload_reject", "retry", "republish",
                  "unpublish_kb", "unpublish_row", "queues_kb", "queues_row_published", "queues_row"}
  BY DEF ReqPhase, UploadPhase, AdminPhase
<1>3. Done(r) => req' \in [Request -> ReqState] BY ReqType
<1>4. ASSUME NEW d \in Doc, NEW new \in Row, NEW statuses, UpdateOrConflict(r, d, statuses, new)
      PROVE  row' \in [Doc -> Row] /\ req' \in [Request -> ReqState]
  BY <1>0, <1>3, <1>4, PutType DEF UpdateOrConflict
<1>5. ASSUME NEW c \in Content, NEW K \in SUBSET Queue, UploadFile(r, c, K) PROVE TypeOK'
  <2>1. /\ [IdleReq EXCEPT !.phase = "upload_check", !.content = c, !.keys = K] \in ReqState
        /\ [IdleReq EXCEPT !.phase = "upload_reject", !.keys = K] \in ReqState
    BY <1>0, <1>2 DEF ReqState, AdminPhase
  <2>2. req' \in [Request -> ReqState] BY <1>5, <2>1, ReqType DEF UploadFile
  <2> QED BY <1>5, <2>2 DEF UploadFile, TypeOK, stores
<1>6. CASE CheckDuplicate(r)
  <2>1. {"upload_reject", "upload_insert"} \subseteq ReqPhase \ {"retry"} /\ "upload_reject" \notin AdminPhase
        /\ "upload_insert" \notin AdminPhase
    BY <1>2 DEF AdminPhase
  <2>2. req' \in [Request -> ReqState] BY <1>6, <2>1, ReqType DEF CheckDuplicate
  <2> QED BY <1>6, <2>2 DEF CheckDuplicate, TypeOK, stores
<1>7. AcceptedRow(req[r].content, req[r].keys) \in Row /\ RejectedRow(req[r].content, req[r].keys) \in Row
  BY <1>0, RowTypes
<1>8. CASE InsertQueued(r)
  BY <1>3, <1>7, <1>8, PutType DEF InsertQueued, TypeOK
<1>9. CASE InsertCutOff(r)
  BY <1>3, <1>7, <1>9, PutType DEF InsertCutOff, TypeOK, stores
<1>10. CASE InsertRejected(r)
  BY <1>3, <1>7, <1>10, PutType DEF InsertRejected, TypeOK, stores
<1>11. ASSUME NEW d \in Doc, RetryRead(r, d) PROVE TypeOK'
  <2>1. \A s \in {"chunking", "extraction"} :
          [IdleReq EXCEPT !.phase = "retry", !.doc = d, !.from = s] \in ReqState
    BY <1>0, <1>2, StageSet DEF ReqState
  <2>2. req' \in [Request -> ReqState] BY <1>11, <2>1, ReqType DEF RetryRead
  <2> QED BY <1>11, <2>2 DEF RetryRead, TypeOK, stores
<1>12. ASSUME NEW d \in Doc, NEW p \in ReqPhase \ {"retry"}, NEW K \in SUBSET Queue
       PROVE  [IdleReq EXCEPT !.phase = p, !.doc = d, !.keys = K] \in ReqState
  BY <1>0, <1>12 DEF ReqState
<1>13. ASSUME NEW d \in Doc, RepublishRead(r, d) \/ UnpublishRead(r, d) PROVE TypeOK'
  <2>1. \A p \in ReqPhase \ {"retry"} : [IdleReq EXCEPT !.phase = p, !.doc = d] \in ReqState
    BY <1>0 DEF ReqState
  <2>2. req' \in [Request -> ReqState]
    BY <1>2, <1>13, <2>1, ReqType DEF RepublishRead, UnpublishRead
  <2> QED BY <1>13, <2>2 DEF RepublishRead, UnpublishRead, TypeOK, stores
<1>14. ASSUME NEW d \in Doc, NEW K \in SUBSET Queue, QueuesRead(r, d, K) PROVE TypeOK'
  <2>1. \A p \in ReqPhase \ {"retry"} : [IdleReq EXCEPT !.doc = d, !.keys = K, !.phase = p] \in ReqState
    BY <1>0 DEF ReqState
  <2>2. req' \in [Request -> ReqState] BY <1>2, <1>14, <2>1, ReqType DEF QueuesRead
  <2> QED BY <1>14, <2>2 DEF QueuesRead, TypeOK, stores
<1>15. req[r].phase \in AdminPhase => req[r].doc \in Doc BY <1>0 DEF ReqState
<1>16. CASE RetryWrite(r)
  <2>1. req[r].doc \in Doc /\ req[r].from \in Stage BY <1>0, <1>16 DEF RetryWrite, ReqState, AdminPhase
  <2>2. RequeuedRow(row[req[r].doc], req[r].from) \in Row BY <1>1, <2>1, RowTypes
  <2>3. row' \in [Doc -> Row] /\ req' \in [Request -> ReqState] BY <1>4, <1>16, <2>1, <2>2 DEF RetryWrite
  <2> QED BY <1>16, <2>3 DEF RetryWrite, TypeOK, stores
<1>17. CASE RepublishWrite(r)
  <2>1. req[r].doc \in Doc BY <1>15, <1>17 DEF RepublishWrite, AdminPhase
  <2>2. RequeuedRow(row[req[r].doc], "chunking") \in Row BY <1>1, <2>1, StageSet, RowTypes
  <2>3. row' \in [Doc -> Row] /\ req' \in [Request -> ReqState]
    BY <1>4, <1>17, <2>1, <2>2 DEF RepublishWrite
  <2> QED BY <1>17, <2>3 DEF RepublishWrite, TypeOK, stores
<1>18. CASE RoundsUsedUp(r) BY <1>3, <1>18 DEF RoundsUsedUp, TypeOK, stores
<1>19. CASE UnpublishKb(r)
  <2>1. req[r].doc \in Doc BY <1>15, <1>19 DEF UnpublishKb, AdminPhase
  <2>2. req' \in [Request -> ReqState] BY <1>2, <1>19, <2>1, ReqType DEF UnpublishKb
  <2> QED BY <1>19, <2>1, <2>2, KbType DEF UnpublishKb, TypeOK
<1>20. CASE UnpublishRow(r)
  <2>1. req[r].doc \in Doc BY <1>15, <1>20 DEF UnpublishRow, AdminPhase
  <2>2. UnpublishedRow(row[req[r].doc]) \in Row BY <1>1, <2>1, RowTypes
  <2>3. row' \in [Doc -> Row] /\ req' \in [Request -> ReqState]
    BY <1>4, <1>20, <2>1, <2>2 DEF UnpublishRow
  <2> QED BY <1>20, <2>3 DEF UnpublishRow, TypeOK, stores
<1>21. CASE QueuesKb(r)
  <2>1. req[r].doc \in Doc BY <1>15, <1>21 DEF QueuesKb, AdminPhase
  <2>2. req' \in [Request -> ReqState] BY <1>2, <1>21, <2>1, ReqType DEF QueuesKb
  <2> QED BY <1>0, <1>21, <2>1, <2>2, KbType DEF QueuesKb, TypeOK
<1>22. CASE QueuesRow(r)
  <2>1. req[r].doc \in Doc BY <1>15, <1>22 DEF QueuesRow, AdminPhase
  <2>2. RekeyedRow(row[req[r].doc], req[r].keys) \in Row BY <1>0, <1>1, <2>1, RowTypes
  <2>3. row' \in [Doc -> Row] /\ req' \in [Request -> ReqState]
    BY <1>4, <1>22, <2>1, <2>2 DEF QueuesRow
  <2> QED BY <1>22, <2>3 DEF QueuesRow, TypeOK, stores
<1>23. CASE KbRefuses(r) \/ Abort(r) BY <1>3, <1>23 DEF KbRefuses, Abort, TypeOK, stores
<1> QED
  BY <1>5, <1>6, <1>8, <1>9, <1>10, <1>11, <1>13, <1>14, <1>16, <1>17, <1>18, <1>19, <1>20,
     <1>21, <1>22, <1>23 DEF RequestStep

LEMMA ClockTypes ==
  ASSUME TypeOK, (\E d \in Doc : GoStale(d)) \/ (\E p \in orphans : OrphanPublishes(p))
  PROVE  TypeOK'
<1>1. ASSUME NEW d \in Doc, GoStale(d) PROVE TypeOK'
  <2>1. [row[d] EXCEPT !.fresh = FALSE] \in Row BY RowTypes DEF TypeOK
  <2>2. row' \in [Doc -> Row] BY <1>1, <2>1, PutType DEF GoStale
  <2> QED BY <1>1, <2>2 DEF GoStale, TypeOK, stores
<1>2. ASSUME NEW p \in orphans, OrphanPublishes(p) PROVE TypeOK'
  <2>1. p.doc \in Doc /\ p.keys \in SUBSET Queue BY DEF TypeOK, Publish
  <2> QED BY <1>2, <2>1, KbType DEF OrphanPublishes, TypeOK
<1> QED BY <1>1, <1>2

LEMMA TypeNext == TypeOK /\ [Next]_vars => TypeOK'
<1> SUFFICES ASSUME TypeOK, [Next]_vars PROVE TypeOK'
  OBVIOUS
<1>1. CASE UNCHANGED vars BY <1>1 DEF vars, TypeOK
<1>2. ASSUME NEW w \in Worker, WorkerStep(w) \/ WorkerTrouble(w) \/ Heartbeat(w) PROVE TypeOK'
  BY <1>2, LoopTypes, PipelineTypes, EndTypes DEF WorkerStep, WorkerTrouble
<1>3. ASSUME NEW r \in Request, RequestStep(r) PROVE TypeOK'
  BY <1>3, RequestTypes
<1> QED BY <1>1, <1>2, <1>3, ClockTypes DEF Next

LEMMA TypeInit == Init => TypeOK
<1> SUFFICES ASSUME Init PROVE TypeOK
  OBVIOUS
<1>1. "off" \in WorkPhase \ DocPhase BY DEF WorkPhase, DocPhase, Pipeline
<1>2. work \in [Worker -> WorkState] BY <1>1, LoopType DEF Init
<1> QED BY <1>2, RowTypes, IdleReqType DEF Init, TypeOK, Kb, Publish

(* Every reachable state is well typed: in particular no step of a worker  *)
(* or a request ever acts on a document it does not have, a retry always   *)
(* knows its stage, and results are never written for publishing.          *)
THEOREM TypeCorrect == Spec => []TypeOK
<1>1. Init => TypeOK BY TypeInit
<1>2. TypeOK /\ [Next]_vars => TypeOK' BY TypeNext
<1> QED BY <1>1, <1>2, PTL DEF Spec

-----------------------------------------------------------------------------
(* One worker per document.  Needs that a live worker keeps its claim      *)
(* fresh; crashes, failing calls, stops and any requests are allowed.      *)

(* What the updates do to the columns a claim consists of.                 *)
LEMMA ClaimColumns ==
  ASSUME NEW r \in Row
  PROVE  /\ \A S, st : /\ WithStages(r, S, st).status = r.status
                       /\ WithStages(r, S, st).owner = r.owner
                       /\ WithStages(r, S, st).fresh
         /\ \A w : /\ ClaimedRow(r, w).status = "PROCESSING"
                   /\ ClaimedRow(r, w).owner = w
                   /\ ClaimedRow(r, w).fresh
  BY DEF WithStages, ClaimedRow, Row

(* A step that changes at most one row, which no worker is at work on, and *)
(* no worker's claim keeps the claims of all workers.                      *)
LEMMA OwnsFrame ==
  ASSUME TypeOK, OwnsDocument, NEW d \in Doc, NEW new, Put(d, new) \/ UNCHANGED row,
         \A w \in Worker : AtWork(w) => work[w].doc # d,
         \A w \in Worker : AtWork(w)' => AtWork(w) /\ work'[w].doc = work[w].doc
  PROVE  OwnsDocument'
<1>1. \A w \in Worker : AtWork(w)' => row'[work'[w].doc] = row[work[w].doc] /\ AtWork(w)
  <2> SUFFICES ASSUME NEW w \in Worker, AtWork(w)'
               PROVE  row'[work'[w].doc] = row[work[w].doc] /\ AtWork(w)
    OBVIOUS
  <2>1. AtWork(w) /\ work'[w].doc = work[w].doc /\ work[w].doc # d
    OBVIOUS
  <2>2. work[w].doc \in Doc
    BY <2>1 DEF AtWork, Working, Pipeline, TypeOK, WorkState, DocPhase
  <2> QED BY <2>1, <2>2 DEF Put, TypeOK
<1> QED BY <1>1 DEF OwnsDocument

(* The same for a step of worker w that changes at most the row d, when no *)
(* other worker is at work on d: w is at work afterwards only on d, and    *)
(* only as the owner of a fresh PROCESSING row.                            *)
LEMMA OwnsStep ==
  ASSUME TypeOK, OwnsDocument, NEW w \in Worker, NEW d \in Doc, NEW new,
         Put(d, new) \/ UNCHANGED row,
         \A v \in Worker \ {w} : work'[v] = work[v] /\ (AtWork(v) => work[v].doc # d),
         AtWork(w)' => /\ work'[w].doc = d /\ row'[d].status = "PROCESSING"
                       /\ row'[d].owner = w /\ row'[d].fresh
  PROVE  OwnsDocument'
<1>1. ASSUME NEW v \in Worker \ {w}, AtWork(v)'
      PROVE  row'[work'[v].doc] = row[work[v].doc] /\ AtWork(v)
  <2>1. AtWork(v) /\ work'[v] = work[v]
    BY <1>1 DEF AtWork, Working
  <2>2. work[v].doc \in Doc /\ work[v].doc # d
    BY <2>1 DEF AtWork, Working, Pipeline, TypeOK, WorkState, DocPhase
  <2> QED BY <2>1, <2>2 DEF Put, TypeOK
<1> QED BY <1>1 DEF OwnsDocument

(* A worker at work on a document is the only one.                         *)
LEMMA OneAtWork ==
  ASSUME TypeOK, OwnsDocument, NEW w \in Worker, AtWork(w)
  PROVE  /\ work[w].doc \in Doc
         /\ \A v \in Worker \ {w} : AtWork(v) => work[v].doc # work[w].doc
  BY DEF OwnsDocument, AtWork, Working, Pipeline, TypeOK, WorkState, DocPhase

(* The claims of the workers survive the steps of a worker's loop ...      *)
LEMMA LoopOwns ==
  ASSUME TypeOK, OwnsDocument, NEW w \in Worker,
         \/ Start(w) \/ FindStale(w) \/ (\E d \in Doc : RecoverOne(w, d)) \/ Recovered(w)
         \/ Pick(w) \/ Claim(w) \/ Reread(w) \/ Wake(w)
  PROVE  OwnsDocument'
<1> USE DEF TypeOK, AtWork, Working, Pipeline
<1>1. ASSUME Start(w) \/ FindStale(w) \/ Recovered(w) \/ Pick(w) \/ Wake(w)
      PROVE  OwnsDocument'
  <2>1. UNCHANGED row
    BY <1>1 DEF Start, FindStale, Recovered, Pick, Wake
  <2>2. \A v \in Worker \ {w} : work'[v] = work[v]
    BY <1>1 DEF Start, FindStale, Recovered, Pick, Wake, Goto
  <2>3. ~AtWork(w)'
    BY <1>1 DEF Start, FindStale, Recovered, Pick, Wake, Goto, Loop, WorkState
  <2> QED BY <2>1, <2>2, <2>3 DEF OwnsDocument
<1>2. ASSUME NEW d \in Doc, RecoverOne(w, d) PROVE OwnsDocument'
  <2>1. CASE Expect(d, {"PROCESSING"}) /\ ~row[d].fresh
    <3>1. \A v \in Worker : AtWork(v) => work[v].doc # d
      BY <2>1 DEF OwnsDocument
    <3>2. \A v \in Worker : work'[v].phase = work[v].phase /\ work'[v].doc = work[v].doc
      BY <1>2 DEF RecoverOne, WorkState
    <3>3. Put(d, FailedRow(row[d], InterruptedStage(row[d].stage)))
      BY <1>2, <2>1 DEF RecoverOne
    <3>4. \A v \in Worker : AtWork(v)' => AtWork(v) /\ work'[v].doc = work[v].doc
      BY <3>2
    <3> HIDE DEF TypeOK, AtWork, Working, Pipeline
    <3> QED BY <3>1, <3>3, <3>4, OwnsFrame
  <2>2. CASE ~(Expect(d, {"PROCESSING"}) /\ ~row[d].fresh)
    BY <1>2, <2>2 DEF RecoverOne, WorkState, OwnsDocument
  <2> QED BY <2>1, <2>2
<1>3. ASSUME Claim(w) PROVE OwnsDocument'
  <2> DEFINE d == work[w].doc
  <2>0. d \in Doc
    BY <1>3 DEF Claim, WorkState, DocPhase
  <2>1. CASE Expect(d, {"QUEUED"}) /\ Put(d, ClaimedRow(row[d], w)) /\ Goto(w, "reread")
    <3>1. \A v \in Worker \ {w} : work'[v] = work[v] /\ (AtWork(v) => work[v].doc # d)
      BY <2>1 DEF Goto, OwnsDocument, Expect
    <3>2. work'[w].doc = d
      BY <2>1 DEF Goto, WorkState
    <3>3. row[d] \in Row /\ row'[d] = ClaimedRow(row[d], w)
      BY <2>0, <2>1 DEF Put
    <3>4. row'[d].status = "PROCESSING" /\ row'[d].owner = w /\ row'[d].fresh
      BY <3>3, ClaimColumns
    <3> HIDE DEF TypeOK, AtWork, Working, Pipeline
    <3> QED BY <2>0, <2>1, <3>1, <3>2, <3>4, OwnsStep
  <2>2. CASE UNCHANGED row /\ work' = [work EXCEPT ![w] =
                                         [Loop("claim") EXCEPT !.tries = work[w].tries + 1]]
    BY <2>2 DEF OwnsDocument, Loop
  <2> QED BY <1>3, <2>1, <2>2 DEF Claim
<1>4. ASSUME Reread(w) PROVE OwnsDocument'
  <2>1. /\ UNCHANGED row /\ \A v \in Worker \ {w} : work'[v] = work[v]
        /\ AtWork(w) /\ work'[w].doc = work[w].doc
    BY <1>4 DEF Reread, WorkState
  <2> QED BY <2>1 DEF OwnsDocument
<1> QED BY <1>1, <1>2, <1>3, <1>4

(* ... of its pipeline and its failures, ...                               *)
LEMMA PipelineOwns ==
  ASSUME TypeOK, OwnsDocument, NEW w \in Worker,
         \/ BeginStage(w) \/ RunStage(w) \/ PublishStage(w) \/ StageFails(w)
         \/ CompleteStage(w) \/ Results(w) \/ FinishPublished(w) \/ FinishFailed(w)
         \/ RegistryFault(w)
  PROVE  OwnsDocument'
<1> DEFINE d == work[w].doc
<1>1. ASSUME NEW r, NEW next, UpdateOrAbandon(w, r, next), AtWork(w),
             r.status = "PROCESSING", r.owner = row[d].owner, r.fresh,
             next => /\ \A v \in Worker \ {w} : work'[v] = work[v]
                     /\ work'[w].doc = work[w].doc
      PROVE  OwnsDocument'
  <2>1. d \in Doc /\ \A v \in Worker \ {w} : AtWork(v) => work[v].doc # d
    BY <1>1, OneAtWork
  <2>2. Expect(d, {"PROCESSING"}) /\ row[d].owner = w
    BY <1>1 DEF OwnsDocument, Expect
  <2>3. Put(d, r) /\ next
    BY <1>1, <2>2 DEF UpdateOrAbandon
  <2>4. row'[d] = r
    BY <2>1, <2>3 DEF Put, TypeOK
  <2> QED BY <1>1, <2>1, <2>2, <2>3, <2>4, OwnsStep
<1>2. ASSUME NEW r, UpdateOrAbandon(w, r, Leave(w)), AtWork(w)
      PROVE  OwnsDocument'
  <2>1. d \in Doc /\ \A v \in Worker \ {w} : AtWork(v) => work[v].doc # d
    BY <1>2, OneAtWork
  <2>2. Leave(w) /\ (Put(d, r) \/ UNCHANGED row)
    BY <1>2 DEF UpdateOrAbandon
  <2>3. ~AtWork(w)' /\ \A v \in Worker \ {w} : work'[v] = work[v]
    BY <2>2 DEF Leave, Loop, AtWork, Working, Pipeline, TypeOK
  <2> QED BY <2>1, <2>2, <2>3, OwnsStep
<1>3. ASSUME UNCHANGED row, \A v \in Worker \ {w} : work'[v] = work[v],
             AtWork(w)' => AtWork(w) /\ work'[w].doc = work[w].doc
      PROVE  OwnsDocument'
  BY <1>3 DEF OwnsDocument, AtWork, Working
<1> USE DEF TypeOK, WorkState, Goto
<1>4. CASE BeginStage(w)
  <2>1. AtWork(w)
    BY <1>4 DEF BeginStage, AtWork, Working, Pipeline
  <2>2. row[d] \in Row /\ row[d].status = "PROCESSING"
    BY <2>1, OneAtWork DEF OwnsDocument
  <2> DEFINE r == WithStages(row[d], {work[w].stage}, "RUNNING")
  <2>3. r.status = "PROCESSING" /\ r.owner = row[d].owner /\ r.fresh
    BY <2>2, ClaimColumns
  <2>4. \E next : /\ UpdateOrAbandon(w, r, next)
                  /\ next => /\ \A v \in Worker \ {w} : work'[v] = work[v]
                             /\ work'[w].doc = work[w].doc
    BY <1>4 DEF BeginStage
  <2> HIDE DEF r
  <2> QED BY <1>1, <2>1, <2>3, <2>4
<1>5. CASE CompleteStage(w)
  <2>1. AtWork(w)
    BY <1>5 DEF CompleteStage, AtWork, Working, Pipeline
  <2>2. row[d] \in Row /\ row[d].status = "PROCESSING"
    BY <2>1, OneAtWork DEF OwnsDocument
  <2> DEFINE r == WithStages(row[d], {work[w].stage}, "COMPLETED")
  <2>3. r.status = "PROCESSING" /\ r.owner = row[d].owner /\ r.fresh
    BY <2>2, ClaimColumns
  <2>4. \E next : /\ UpdateOrAbandon(w, r, next)
                  /\ next => /\ \A v \in Worker \ {w} : work'[v] = work[v]
                             /\ work'[w].doc = work[w].doc
    BY <1>5 DEF CompleteStage
  <2> HIDE DEF r
  <2> QED BY <1>1, <2>1, <2>3, <2>4
<1>6. CASE Results(w)
  <2>1. AtWork(w)
    BY <1>6 DEF Results, AtWork, Working, Pipeline
  <2>2. row[d] \in Row /\ row[d].status = "PROCESSING"
    BY <2>1, OneAtWork DEF OwnsDocument
  <2> DEFINE r == WithStages(row[d], {}, "COMPLETED")
  <2>3. r.status = "PROCESSING" /\ r.owner = row[d].owner /\ r.fresh
    BY <2>2, ClaimColumns
  <2>4. \E next : /\ UpdateOrAbandon(w, r, next)
                  /\ next => /\ \A v \in Worker \ {w} : work'[v] = work[v]
                             /\ work'[w].doc = work[w].doc
    BY <1>6 DEF Results
  <2> HIDE DEF r
  <2> QED BY <1>1, <2>1, <2>3, <2>4
<1>7. CASE RunStage(w) \/ PublishStage(w) \/ StageFails(w)
  <2>1. UNCHANGED row /\ AtWork(w) /\ work'[w].doc = work[w].doc
    BY <1>7 DEF RunStage, PublishStage, StageFails, AtWork, Working, Pipeline, stores
  <2>2. \A v \in Worker \ {w} : work'[v] = work[v]
    BY <1>7 DEF RunStage, PublishStage, StageFails
  <2> QED BY <1>3, <2>1, <2>2
<1>8. CASE FinishPublished(w)
  BY <1>2, <1>8 DEF FinishPublished, AtWork, Working, Pipeline
<1>9. CASE FinishFailed(w)
  BY <1>2, <1>9 DEF FinishFailed, AtWork, Working, Pipeline
<1>10. CASE RegistryFault(w)
  <2>1. UNCHANGED row /\ \A v \in Worker \ {w} : work'[v] = work[v]
    BY <1>10 DEF RegistryFault, Leave
  <2>2. AtWork(w)' => AtWork(w) /\ work'[w].doc = work[w].doc
    BY <1>10 DEF RegistryFault, Leave, Loop, AtWork, Working, Pipeline
  <2> QED BY <1>3, <2>1, <2>2
<1> QED BY <1>4, <1>5, <1>6, <1>7, <1>8, <1>9, <1>10

(* ... the end of a worker and the passing of time, ...                    *)
LEMMA EndOwns ==
  ASSUME TypeOK, OwnsDocument, NEW w \in Worker,
         Stop(w) \/ Release(w) \/ ReleaseFails(w) \/ Crash(w)
  PROVE  OwnsDocument'
<1> USE DEF TypeOK, WorkState
<1>1. /\ ~AtWork(w)'
      /\ \A v \in Worker \ {w} : work'[v] = work[v]
  BY DEF Stop, Release, ReleaseFails, Crash, Loop, AtWork, Working, Pipeline
<1>2. CASE Stop(w) \/ ReleaseFails(w) \/ Crash(w)
  <2>1. UNCHANGED row
    BY <1>2 DEF Stop, ReleaseFails, Crash
  <2> QED BY <1>1, <2>1 DEF OwnsDocument, AtWork, Working
<1>3. CASE Release(w)
  <2> DEFINE d == work[w].doc
  <2>1. d \in Doc
    BY <1>3 DEF Release, DocPhase
  <2>2. CASE Expect(d, {"PROCESSING"}) /\ row[d].owner = w
    <3>1. \A v \in Worker \ {w} : AtWork(v) => work[v].doc # d
      BY <2>2 DEF OwnsDocument
    <3>2. Put(d, FailedRow(row[d], InterruptedStage(row[d].stage)))
      BY <1>3, <2>2 DEF Release
    <3> QED BY <1>1, <2>1, <3>1, <3>2, OwnsStep
  <2>3. CASE ~(Expect(d, {"PROCESSING"}) /\ row[d].owner = w)
    <3>1. UNCHANGED row
      BY <1>3, <2>3 DEF Release
    <3> QED BY <1>1, <3>1 DEF OwnsDocument, AtWork, Working
  <2> QED BY <2>2, <2>3
<1> QED BY <1>2, <1>3

LEMMA ClockOwns ==
  ASSUME TypeOK, OwnsDocument, "stall" \notin Hazard,
         (\E d \in Doc : GoStale(d)) \/ (\E w \in Worker : Heartbeat(w))
         \/ (\E p \in orphans : OrphanPublishes(p))
  PROVE  OwnsDocument'
<1> USE DEF TypeOK, AtWork, Working
<1>1. ASSUME NEW d \in Doc, GoStale(d) PROVE OwnsDocument'
  <2>1. \A w \in Worker : AtWork(w) => work[w].doc # d
    BY <1>1 DEF GoStale
  <2>2. Put(d, [row[d] EXCEPT !.fresh = FALSE]) /\ UNCHANGED work
    BY <1>1 DEF GoStale
  <2>3. \A w \in Worker : AtWork(w)' => AtWork(w) /\ work'[w].doc = work[w].doc
    BY <2>2
  <2> HIDE DEF TypeOK, AtWork, Working
  <2> QED BY <2>1, <2>2, <2>3, OwnsFrame
<1>2. ASSUME NEW w \in Worker, Heartbeat(w) PROVE OwnsDocument'
  <2>1. AtWork(w) /\ ~row[work[w].doc].fresh
    BY <1>2 DEF Heartbeat
  <2> QED BY <2>1 DEF OwnsDocument
<1>3. ASSUME NEW p \in orphans, OrphanPublishes(p) PROVE OwnsDocument'
  BY <1>3 DEF OrphanPublishes, OwnsDocument
<1> QED BY <1>1, <1>2, <1>3

(* ... and the requests, which only change rows that nobody has claimed.   *)
LEMMA RequestOwns ==
  ASSUME TypeOK, OwnsDocument, NEW r \in Request, RequestStep(r)
  PROVE  OwnsDocument'
<1>1. ASSUME NEW d \in Doc, NEW new, UNCHANGED work, Put(d, new) \/ UNCHANGED row,
             row[d].status # "PROCESSING" \/ UNCHANGED row
      PROVE  OwnsDocument'
  <2>1. CASE UNCHANGED row
    BY <1>1, <2>1 DEF OwnsDocument, AtWork, Working
  <2>2. CASE row[d].status # "PROCESSING"
    <3>1. \A w \in Worker : AtWork(w) => work[w].doc # d
      BY <2>2 DEF OwnsDocument
    <3>2. \A w \in Worker : AtWork(w)' => AtWork(w) /\ work'[w].doc = work[w].doc
      BY <1>1 DEF AtWork, Working
    <3> QED BY <1>1, <3>1, <3>2, OwnsFrame
  <2> QED BY <1>1, <2>1, <2>2
<1>2. CASE \/ \E c \in Content, K \in SUBSET Queue : UploadFile(r, c, K)
           \/ CheckDuplicate(r)
           \/ \E d \in Doc : RetryRead(r, d) \/ RepublishRead(r, d) \/ UnpublishRead(r, d)
           \/ \E d \in Doc, K \in SUBSET Queue : QueuesRead(r, d, K)
           \/ RoundsUsedUp(r) \/ UnpublishKb(r) \/ QueuesKb(r) \/ KbRefuses(r) \/ Abort(r)
  <2>1. UNCHANGED <<row, work>>
    BY <1>2 DEF UploadFile, CheckDuplicate, RetryRead, RepublishRead, UnpublishRead, QueuesRead,
                RoundsUsedUp, UnpublishKb, QueuesKb, KbRefuses, Abort
  <2> QED BY <2>1 DEF OwnsDocument, AtWork, Working
<1>3. CASE InsertQueued(r) \/ InsertRejected(r) \/ InsertCutOff(r)
  <2>1. PICK d \in Doc : row[d].status = "ABSENT" /\ UNCHANGED work /\ \E new : Put(d, new)
    BY <1>3 DEF InsertQueued, InsertRejected, InsertCutOff, IsOldest, Free
  <2> QED BY <1>1, <2>1
<1>4. CASE RetryWrite(r) \/ RepublishWrite(r) \/ UnpublishRow(r) \/ QueuesRow(r)
  <2> DEFINE d == req[r].doc
  <2>1. d \in Doc
    BY <1>4 DEF TypeOK, ReqState, AdminPhase, RetryWrite, RepublishWrite, UnpublishRow, QueuesRow
  <2>2. \E new, S : UpdateOrConflict(r, d, S, new) /\ "PROCESSING" \notin S /\ UNCHANGED work
    BY <1>4 DEF RetryWrite, RepublishWrite, UnpublishRow, QueuesRow
  <2>3. UNCHANGED work /\ \E new : /\ Put(d, new) \/ UNCHANGED row
                                   /\ row[d].status # "PROCESSING" \/ UNCHANGED row
    BY <2>2 DEF UpdateOrConflict, Expect
  <2> QED BY <1>1, <2>1, <2>3
<1> QED BY <1>2, <1>3, <1>4 DEF RequestStep

LEMMA OwnsNext ==
  ASSUME "stall" \notin Hazard, TypeOK, OwnsDocument, [Next]_vars
  PROVE  OwnsDocument'
<1>1. ASSUME NEW w \in Worker, WorkerStep(w) \/ WorkerTrouble(w) PROVE OwnsDocument'
  BY <1>1, LoopOwns, PipelineOwns, EndOwns DEF WorkerStep, WorkerTrouble
<1>2. CASE (\E d \in Doc : GoStale(d)) \/ (\E w \in Worker : Heartbeat(w))
           \/ (\E p \in orphans : OrphanPublishes(p))
  BY <1>2, ClockOwns
<1>3. ASSUME NEW r \in Request, RequestStep(r) PROVE OwnsDocument'
  BY <1>3, RequestOwns
<1>4. CASE UNCHANGED vars
  BY <1>4 DEF vars, OwnsDocument, AtWork, Working
<1> QED BY <1>1, <1>2, <1>3, <1>4 DEF Next

(* As long as no live worker misses its heartbeats past the threshold, a   *)
(* worker at work on a document owns its row: no other worker, recovery    *)
(* pass or request takes it away, whatever crashes, stops and fails.       *)
THEOREM Ownership == "stall" \notin Hazard => (Spec => []OwnsDocument)
<1> SUFFICES ASSUME "stall" \notin Hazard PROVE Spec => []OwnsDocument
  OBVIOUS
<1>1. Init => OwnsDocument
  BY DEF Init, OwnsDocument, AtWork, Working, Pipeline, Loop
<1>2. TypeOK /\ OwnsDocument /\ [Next]_vars => OwnsDocument'
  BY OwnsNext
<1> QED BY <1>1, <1>2, TypeCorrect, PTL DEF Spec

(* Hence a worker only ever writes to a row it owns.                       *)
THEOREM OwnerWrites == "stall" \notin Hazard => (Spec => OnlyOwnerWrites)
<1> SUFFICES ASSUME "stall" \notin Hazard PROVE Spec => OnlyOwnerWrites
  OBVIOUS
<1> DEFINE Writes == \A w \in Worker :
             Working(w) /\ work'[w] # work[w] /\ row'[work[w].doc] # row[work[w].doc]
               => row[work[w].doc].owner = w
<1>1. OwnsDocument => Writes
  BY DEF OwnsDocument, AtWork
<1>2. Spec => []OwnsDocument
  BY Ownership
<1> QED BY <1>1, <1>2, PTL DEF OnlyOwnerWrites

-----------------------------------------------------------------------------
(* A step changes at most one row, and never that of an UNPUBLISHED        *)
(* document.                                                               *)
LEMMA WorkerSpares ==
  ASSUME TypeOK, NEW w \in Worker, WorkerStep(w) \/ WorkerTrouble(w) \/ Heartbeat(w)
  PROVE  \/ UNCHANGED row
         \/ \E d \in Doc : \E new : Put(d, new) /\ row[d].status \in {"QUEUED", "PROCESSING"}
<1> DEFINE d == work[w].doc
           Spares == \/ UNCHANGED row
                     \/ \E e \in Doc : \E new : Put(e, new) /\ row[e].status \in {"QUEUED", "PROCESSING"}
<1>1. ASSUME NEW new, NEW next, UpdateOrAbandon(w, new, next), d \in Doc
      PROVE  Spares
  BY <1>1 DEF UpdateOrAbandon, Expect
<1>2. work[w].phase \in DocPhase => d \in Doc
  BY DEF TypeOK, WorkState
<1>3. CASE \/ Start(w) \/ FindStale(w) \/ Recovered(w) \/ Pick(w) \/ Reread(w) \/ Wake(w)
           \/ RunStage(w) \/ PublishStage(w) \/ StageFails(w) \/ ReleaseFails(w)
           \/ WorkerTrouble(w)
  BY <1>3 DEF Start, FindStale, Recovered, Pick, Reread, Wake, RunStage, PublishStage, StageFails,
              ReleaseFails, WorkerTrouble, RegistryFault, Stop, Crash, stores
<1>4. CASE Claim(w) \/ Release(w) \/ Heartbeat(w)
  BY <1>2, <1>4 DEF Claim, Release, Heartbeat, Working, Pipeline, DocPhase, Expect
<1>5. CASE \E e \in Doc : RecoverOne(w, e)
  BY <1>5 DEF RecoverOne, Expect
<1>6. CASE \/ BeginStage(w) \/ CompleteStage(w) \/ Results(w)
           \/ FinishPublished(w) \/ FinishFailed(w)
  <2>1. d \in Doc
    BY <1>2, <1>6 DEF BeginStage, CompleteStage, Results, FinishPublished, FinishFailed,
                      DocPhase, Pipeline
  <2>2. \E new, next : UpdateOrAbandon(w, new, next)
    BY <1>6 DEF BeginStage, CompleteStage, Results, FinishPublished, FinishFailed
  <2> QED BY <1>1, <2>1, <2>2
<1> QED BY <1>3, <1>4, <1>5, <1>6 DEF WorkerStep

LEMMA RequestSpares ==
  ASSUME TypeOK, NEW r \in Request, RequestStep(r)
  PROVE  \/ UNCHANGED row
         \/ \E d \in Doc : \E new : Put(d, new) /\ row[d].status # "UNPUBLISHED"
<1>1. CASE \/ \E c \in Content, K \in SUBSET Queue : UploadFile(r, c, K)
           \/ CheckDuplicate(r)
           \/ \E d \in Doc : RetryRead(r, d) \/ RepublishRead(r, d) \/ UnpublishRead(r, d)
           \/ \E d \in Doc, K \in SUBSET Queue : QueuesRead(r, d, K)
           \/ RoundsUsedUp(r) \/ UnpublishKb(r) \/ QueuesKb(r) \/ KbRefuses(r) \/ Abort(r)
  BY <1>1 DEF UploadFile, CheckDuplicate, RetryRead, RepublishRead, UnpublishRead, QueuesRead,
              RoundsUsedUp, UnpublishKb, QueuesKb, KbRefuses, Abort
<1>2. CASE InsertQueued(r) \/ InsertRejected(r) \/ InsertCutOff(r)
  BY <1>2 DEF InsertQueued, InsertRejected, InsertCutOff, IsOldest, Free
<1>3. CASE RetryWrite(r) \/ RepublishWrite(r) \/ UnpublishRow(r) \/ QueuesRow(r)
  <2> DEFINE d == req[r].doc
  <2>1. d \in Doc
    BY <1>3 DEF TypeOK, ReqState, AdminPhase, RetryWrite, RepublishWrite, UnpublishRow, QueuesRow
  <2>2. \E new, S : UpdateOrConflict(r, d, S, new) /\ "UNPUBLISHED" \notin S
    BY <1>3 DEF RetryWrite, RepublishWrite, UnpublishRow, QueuesRow
  <2> QED BY <2>1, <2>2 DEF UpdateOrConflict, Expect
<1> QED BY <1>1, <1>2, <1>3 DEF RequestStep

(* UNPUBLISHED is final for every number of workers, requests and failures *)
(* of every kind: stalled workers and late requests included.              *)
THEOREM UnpublishedFinal == Spec => UnpublishedIsFinal
<1> DEFINE Final == \A d \in Doc : row[d].status = "UNPUBLISHED" => row'[d].status = "UNPUBLISHED"
<1>1. TypeOK /\ [Next]_vars => Final
  <2> SUFFICES ASSUME TypeOK, [Next]_vars PROVE Final
    OBVIOUS
  <2>1. \/ UNCHANGED row
        \/ \E d \in Doc : \E new : Put(d, new) /\ row[d].status # "UNPUBLISHED"
    <3>1. CASE UNCHANGED vars
      BY <3>1 DEF vars
    <3>2. ASSUME NEW w \in Worker, WorkerStep(w) \/ WorkerTrouble(w) \/ Heartbeat(w)
          PROVE  \/ UNCHANGED row
                 \/ \E d \in Doc : \E new : Put(d, new) /\ row[d].status # "UNPUBLISHED"
      BY <3>2, WorkerSpares
    <3>3. CASE (\E p \in orphans : OrphanPublishes(p)) \/ (\E d \in Doc : GoStale(d))
      BY <3>3 DEF OrphanPublishes, GoStale
    <3>4. ASSUME NEW r \in Request, RequestStep(r)
          PROVE  \/ UNCHANGED row
                 \/ \E d \in Doc : \E new : Put(d, new) /\ row[d].status # "UNPUBLISHED"
      BY <3>4, RequestSpares
    <3> QED BY <3>1, <3>2, <3>3, <3>4 DEF Next
  <2> QED BY <2>1 DEF Put, TypeOK
<1> QED BY <1>1, TypeCorrect, PTL DEF Spec, UnpublishedIsFinal
=============================================================================
