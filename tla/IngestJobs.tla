----------------------------- MODULE IngestJobs -----------------------------
(* The embedding service (embedding_service/): jobs that bring the lines of a  *)
(* request into the corpus.  A job is queued in Redis or run inside its        *)
(* request; it merges its lines, committing in between, and then embeds every  *)
(* chunk of the corpus that has no embedding.  A line is one chunk here, and   *)
(* the 50 lines between two commits are one.  Patching a corpus's              *)
(* configuration is left out.                                                  *)
EXTENDS Naturals, SequencesExt, FiniteSetsExt

CONSTANTS Job, Chunk, Text,
          Absent,    \* no such row
          NoVector,  \* embedding IS NULL
          Queued,    \* jobs asked for where REDIS_URL is set
          MaxLines,  \* lines of a request
          BatchSize  \* ingest_batch_embed_size

VARIABLES chunk,   \* kb_chunk of the corpus
          status,  \* kb_ingest_job
          queue,   \* the Redis list
          work,    \* what the processes do
          overlap  \* two jobs have been at work at once

ingestVars == <<chunk, status, queue, work, overlap>>

NoRow == "none"
Statuses == {NoRow, "QUEUED", "RUNNING", "EMBEDDING", "COMPLETED", "FAILED"}
Lines == UNION {[1..n -> Chunk \X Text] : n \in 1..MaxLines}
Idle == [at |-> "idle", reindex |-> FALSE, begun |-> FALSE, lines |-> <<>>, batch |-> {}]
Over == [Idle EXCEPT !.at = "over"]

IngestTypeOK ==
  /\ chunk \in [Chunk -> {Absent} \cup [text : Text, vector : Text \cup {NoVector}]]
  /\ status \in [Job -> Statuses]
  /\ ToSet(queue) \subseteq Job /\ IsInjective(queue)
  /\ \A j \in Job : /\ work[j].at \in {"idle", "push", "queued", "parse", "mark", "embed", "over"}
                    /\ Cardinality(work[j].batch) <= BatchSize
                    /\ status[j] = NoRow <=> work[j].at = "idle"

At(j, place) == work[j].at = place
Busy == {j \in Job : work[j].at \in {"parse", "mark", "embed"}}

IngestInit ==
  /\ chunk = [c \in Chunk |-> Absent]
  /\ status = [j \in Job |-> NoRow]
  /\ queue = <<>>
  /\ work = [j \in Job |-> Idle]
  /\ overlap = FALSE

-----------------------------------------------------------------------------
(* The corpus.                                                             *)

\* Mutant: a chunk with new text keeps its embedding.
MergeKeeping(rows, c, text) ==
  [rows EXCEPT ![c] = [text |-> text, vector |-> IF @ = Absent THEN NoVector ELSE @.vector]]

\* merge_chunk_row: the embedding goes when the hash of the text changes.
Merge(rows, c, text) ==
  [rows EXCEPT ![c] = [text |-> text,
                       vector |-> IF rows[c] # Absent /\ rows[c].text = text THEN rows[c].vector ELSE NoVector]]

\* delete_chunks_for_corpus.
Emptied == [c \in Chunk |-> Absent]

\* fetch_chunks_missing_embedding: of the whole corpus, the jobs of others included.
Missing == {c \in Chunk : chunk[c] # Absent /\ chunk[c].vector = NoVector}

\* update_chunk_embedding: by the id of the row alone.
Embedded(c, batch) ==
  IF chunk[c] # Absent /\ \E t \in batch : t[1] = c
  THEN [chunk[c] EXCEPT !.vector = (CHOOSE t \in batch : t[1] = c)[2]]
  ELSE chunk[c]

\* search_similar: what a search can find.
Searchable == {c \in Chunk : chunk[c] # Absent /\ chunk[c].vector # NoVector}

-----------------------------------------------------------------------------
(* A request (service.ingest, service.reindex, routers/ingestion.py).      *)

Start(j) ==
  /\ work' = [work EXCEPT ![j].at = "parse"]
  /\ overlap' = (overlap \/ Busy # {})

\* The job is inserted; without Redis it is run in the request.
Ask(j, reindex) ==
  /\ At(j, "idle")
  /\ \E lines \in Lines :
       work' = [work EXCEPT ![j] = [Idle EXCEPT !.reindex = reindex, !.lines = lines, !.at = "push"]]
  /\ status' = [status EXCEPT ![j] = "QUEUED"]
  /\ UNCHANGED <<chunk, queue, overlap>>

Ingest(j) == Ask(j, FALSE)
Reindex(j) == Ask(j, TRUE)

\* push_json_job; when Redis does not answer the row stays behind.
Push(j) ==
  /\ At(j, "push") /\ j \in Queued
  /\ \/ queue' = Append(queue, j) /\ work' = [work EXCEPT ![j].at = "queued"]
     \/ work' = [work EXCEPT ![j] = Over] /\ UNCHANGED queue
  /\ UNCHANGED <<chunk, status, overlap>>

\* _run_ingest_inline.
Inline(j) ==
  /\ At(j, "push") /\ j \notin Queued
  /\ Start(j)
  /\ UNCHANGED <<chunk, status, queue>>

\* blocking_pop_json of a worker; what is popped is in no list any more.
Pop ==
  /\ queue # <<>>
  /\ Start(Head(queue))
  /\ queue' = Tail(queue)
  /\ UNCHANGED <<chunk, status>>

-----------------------------------------------------------------------------
(* A job (services/pipeline.py).                                           *)

\* A line is merged and committed; the first commit carries RUNNING, and the deletion of a
\* reindex (run_reindex_job), with it.
ParseLine(j) ==
  /\ At(j, "parse") /\ work[j].lines # <<>>
  /\ LET rows == IF work[j].reindex /\ ~work[j].begun THEN Emptied ELSE chunk
         line == Head(work[j].lines)
     IN chunk' = Merge(rows, line[1], line[2])
  /\ status' = [status EXCEPT ![j] = "RUNNING"]
  /\ work' = [work EXCEPT ![j].lines = Tail(@), ![j].begun = TRUE,
                          ![j].at = IF Len(work[j].lines) = 1 THEN "mark" ELSE "parse"]
  /\ UNCHANGED <<queue, overlap>>

\* update_job(status="EMBEDDING").
Mark(j) ==
  /\ At(j, "mark")
  /\ status' = [status EXCEPT ![j] = "EMBEDDING"]
  /\ work' = [work EXCEPT ![j].at = "embed"]
  /\ UNCHANGED <<chunk, queue, overlap>>

\* Mutant: everything that is missing, in one request.
FetchAll(j) ==
  /\ At(j, "embed") /\ work[j].batch = {} /\ Missing # {}
  /\ work' = [work EXCEPT ![j].batch = {<<c, chunk[c].text>> : c \in Missing}]
  /\ UNCHANGED <<chunk, status, queue, overlap>>

\* A batch is read; its texts go to the embedder.
Fetch(j) ==
  /\ At(j, "embed") /\ work[j].batch = {} /\ Missing # {}
  /\ \E cs \in SUBSET Missing :
       /\ Cardinality(cs) = IF Cardinality(Missing) < BatchSize THEN Cardinality(Missing) ELSE BatchSize
       /\ work' = [work EXCEPT ![j].batch = {<<c, chunk[c].text>> : c \in cs}]
  /\ UNCHANGED <<chunk, status, queue, overlap>>

\* Its vectors are written and committed.
Vectors(j) ==
  /\ At(j, "embed") /\ work[j].batch # {}
  /\ chunk' = [c \in Chunk |-> Embedded(c, work[j].batch)]
  /\ work' = [work EXCEPT ![j].batch = {}]
  /\ UNCHANGED <<status, queue, overlap>>

\* Nothing is left to embed.
Complete(j) ==
  /\ At(j, "embed") /\ work[j].batch = {} /\ Missing = {}
  /\ status' = [status EXCEPT ![j] = "COMPLETED"]
  /\ work' = [work EXCEPT ![j] = Over]
  /\ UNCHANGED <<chunk, queue, overlap>>

\* A line that cannot be read, an embedder or a database that fails: what is not committed
\* is rolled back, FAILED recorded in a transaction of its own, if that works.  When the
\* process dies nobody takes its job up again.
Fails(j) ==
  /\ j \in Busy
  /\ \E s \in {"FAILED", status[j]} : status' = [status EXCEPT ![j] = s]
  /\ work' = [work EXCEPT ![j] = Over]
  /\ UNCHANGED <<chunk, queue, overlap>>

JobStep(j) == ParseLine(j) \/ Mark(j) \/ Fetch(j) \/ Vectors(j) \/ Complete(j)

IngestNext ==
  \/ Pop
  \/ \E j \in Job : Ingest(j) \/ Reindex(j) \/ Push(j) \/ Inline(j) \/ JobStep(j) \/ Fails(j)

IngestSpec ==
  /\ IngestInit /\ [][IngestNext]_ingestVars
  /\ WF_ingestVars(Pop)
  /\ \A j \in Job : WF_ingestVars(Push(j) \/ Inline(j)) /\ WF_ingestVars(JobStep(j))

-----------------------------------------------------------------------------
(* Properties.                                                             *)

\* Whatever jobs failed or died half-way before, a search compares with the vector of the
\* text it returns, as long as no two jobs were at work at once (pipeline.py: "MERGE chunks,
\* embed NULL embeddings").
VectorsAreCurrent == ~overlap => \A c \in Searchable : chunk[c].vector = chunk[c].text

\* With two jobs at once the vector of a replaced text can stay for good.
VectorsAreCurrentAnyway == \A c \in Searchable : chunk[c].vector = chunk[c].text

JobIsOver(j) == At(j, "idle") \/ At(j, "over")

\* Every job comes to its end, or its process dies.
JobsEnd == \A j \in Job : []<>JobIsOver(j)
=============================================================================
