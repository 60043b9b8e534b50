---------------------------- MODULE Extraction ----------------------------
(***************************************************************************)
(* Extraction in child processes (extraction, extraction_worker,           *)
(* crm_extraction) of one backend: threads of the import worker, the sync  *)
(* worker and the health check compete for one slot, start a child, wait   *)
(* for it with a deadline and read its files; the shutdown of the runtime  *)
(* kills what runs (runtime.stop_doc_intel).                               *)
(*                                                                         *)
(* Document content is left out: of a job's result file matters whether it *)
(* is there and which attempt made it.  A killed process tree is gone.     *)
(***************************************************************************)
EXTENDS Naturals, FiniteSets

CONSTANTS Import,    \* threads of run_extraction
          Sync,      \* threads of run_crm_extraction
          Smoke,     \* threads of run_smoke_test
          HasSync    \* SharePoint sync is installed: a second kill is sent

VARIABLES slot,     \* who holds _EXTRACTION_SLOT
          thread,   \* each thread: where it is
          child,    \* its child process: the stage it is in, or how it ended
          tracked,  \* _ACTIVE_CHILDREN
          result,   \* the job's result file: none, of an earlier attempt, of this one
          stopping  \* how far the shutdown is

extractVars == <<slot, thread, child, tracked, result, stopping>>

-----------------------------------------------------------------------------
Thread == Import \cup Sync \cup Smoke
Free == "free"
Resting == {"idle", "document", "failed", "refused", "skipped"}
Results == {"none", "old", "new"}
Stages == {"extraction", "page ocr", "intelligence", "entities", "saving", "saved"}
Ended == {"none", "ok", "failed", "killed"}
Alive(t) == child[t] \in Stages

ExtractTypeOK ==
  /\ slot \in Thread \cup {Free}
  /\ thread \in [Thread -> Resting \cup {"wait", "prepare", "spawn", "track", "communicate", "read"}]
  /\ child \in [Thread -> Stages \cup Ended]
  /\ tracked \subseteq Thread
  /\ result \in [Thread -> Results]
  /\ stopping \in {"no", "requested", "killed", "scheduler", "sync", "import", "done"}
  /\ Cardinality({t \in Thread : Alive(t)}) <= 1

ExtractInit ==
  /\ slot = Free
  /\ thread = [t \in Thread |-> "idle"]
  /\ child = [t \in Thread |-> "none"]
  /\ tracked = {}
  /\ result = [t \in Thread |-> "none"]
  /\ stopping = "no"

Goes(t, place) == thread' = [thread EXCEPT ![t] = place]

-----------------------------------------------------------------------------
(* The waiting thread.                                                     *)

\* Each worker takes a new document until it is told to stop; the scheduler's health
\* checks end with the scheduler.
MayAsk(t) ==
  \/ t \in Import /\ stopping \notin {"import", "done"}
  \/ t \in Sync /\ stopping = "no"
  \/ t \in Smoke /\ stopping \in {"no", "requested", "killed"}

\* The smoke test does not queue behind a document.  A document that was imported before may
\* have a result; the others work in a new directory of their own.
Ask(t) ==
  /\ thread[t] \in Resting /\ MayAsk(t)
  /\ \/ Goes(t, IF t \in Smoke /\ slot # Free THEN "skipped" ELSE "wait")
     \/ t \in Sync /\ Goes(t, "refused")  \* a CRM job that cannot run does not wait either
  /\ \E found \in IF t \in Import THEN {"none", "old"} ELSE {"none"} : result' = [result EXCEPT ![t] = found]
  /\ UNCHANGED <<slot, child, tracked, stopping>>

\* Mutant: an extraction does not wait for the one under way.
TakeAnyway(t) ==
  /\ thread[t] = "wait"
  /\ slot' = t
  /\ Goes(t, "prepare")
  /\ UNCHANGED <<child, tracked, result, stopping>>

Take(t) ==
  /\ thread[t] = "wait" /\ slot = Free
  /\ slot' = t
  /\ Goes(t, "prepare")
  /\ UNCHANGED <<child, tracked, result, stopping>>

\* No extractor, no stored file, or no type this server reads: _run_child raises before it
\* has touched a file, so the result of an earlier attempt stays.
RefuseEarly(t) ==
  /\ thread[t] = "prepare" /\ t \notin Sync
  /\ slot' = Free
  /\ Goes(t, "refused")
  /\ UNCHANGED <<child, tracked, result, stopping>>

\* Otherwise a stale result or error of an earlier attempt is removed first.
Prepare(t) ==
  /\ thread[t] = "prepare"
  /\ result' = [result EXCEPT ![t] = "none"]
  /\ Goes(t, "spawn")
  /\ UNCHANGED <<slot, child, tracked, stopping>>

\* The job's files cannot be written, or its process cannot be started.
CannotSpawn(t) ==
  /\ thread[t] = "spawn"
  /\ slot' = Free
  /\ Goes(t, "failed")
  /\ UNCHANGED <<child, tracked, result, stopping>>

\* Popen, then the registration under _ACTIVE_LOCK: two steps.
Spawn(t) ==
  /\ thread[t] = "spawn"
  /\ child' = [child EXCEPT ![t] = "extraction"]
  /\ Goes(t, "track")
  /\ UNCHANGED <<slot, tracked, result, stopping>>

Track(t) ==
  /\ thread[t] = "track"
  /\ tracked' = tracked \cup {t}
  /\ Goes(t, "communicate")
  /\ UNCHANGED <<slot, child, result, stopping>>

\* Mutant: no deadline, the thread waits until the child ends.
CommunicateForever(t) ==
  /\ thread[t] = "communicate" /\ ~Alive(t)
  /\ tracked' = tracked \ {t}
  /\ Goes(t, "read")
  /\ UNCHANGED <<slot, child, result, stopping>>

\* communicate returns when the child has ended; past the deadline its tree is killed.
Communicate(t) ==
  /\ thread[t] = "communicate"
  /\ child' = [child EXCEPT ![t] = IF Alive(t) THEN "killed" ELSE @]
  /\ tracked' = tracked \ {t}
  /\ Goes(t, "read")
  /\ UNCHANGED <<slot, result, stopping>>

\* A process that ended well has left a result that can be loaded.
Loads(t) == child[t] = "ok" /\ result[t] # "none"

\* Mutant: a failed extraction leaves the result file where it is.
ReadAndKeep(t) ==
  /\ thread[t] = "read"
  /\ Goes(t, IF Loads(t) THEN "document" ELSE "failed")
  /\ slot' = Free
  /\ child' = [child EXCEPT ![t] = "none"]
  /\ UNCHANGED <<tracked, result, stopping>>

\* The outcome; the slot is given back.  On a failure the result is removed; that of a CRM
\* job goes with the directory of its caller.
Read(t) ==
  /\ thread[t] = "read"
  /\ Goes(t, IF Loads(t) THEN "document" ELSE "failed")
  /\ result' = [result EXCEPT ![t] = IF Loads(t) \/ t \in Sync THEN @ ELSE "none"]
  /\ slot' = Free
  /\ child' = [child EXCEPT ![t] = "none"]
  /\ UNCHANGED <<tracked, stopping>>

-----------------------------------------------------------------------------
(* The child process.                                                      *)

\* A PDF whose Arabic text layer is broken is read again page by page; a CRM job goes on to
\* find entities.  Then the result is saved, and the process ends.
NextStage(t) ==
  /\ Alive(t) /\ child[t] # "saved"
  /\ child' \in {[child EXCEPT ![t] = s] : s \in
       (CASE child[t] = "extraction" -> {"page ocr", IF t \in Sync THEN "intelligence" ELSE "saving"}
         [] child[t] = "page ocr" -> {IF t \in Sync THEN "intelligence" ELSE "saving"}
         [] child[t] = "intelligence" -> {"entities"}
         [] child[t] = "entities" -> {"saving"}
         [] child[t] = "saving" -> {"saved"})}
  /\ result' = IF child[t] = "saving" THEN [result EXCEPT ![t] = "new"] ELSE result
  /\ UNCHANGED <<slot, thread, tracked, stopping>>

Exit(t) ==
  /\ child[t] = "saved"
  /\ child' = [child EXCEPT ![t] = "ok"]
  /\ UNCHANGED <<slot, thread, tracked, result, stopping>>

\* No text, too many pages, a password, its own earlier deadline, a full disk: the child
\* writes its error file, if it can, and ends; or a parser brings it down.  Either way the
\* parent reports a failure.
Refuse(t) ==
  /\ Alive(t) /\ child[t] # "saved"
  /\ child' = [child EXCEPT ![t] = "failed"]
  /\ UNCHANGED <<slot, thread, tracked, result, stopping>>

-----------------------------------------------------------------------------
(* stop_doc_intel.                                                         *)

Killed == [t \in Thread |-> IF t \in tracked /\ Alive(t) THEN "killed" ELSE child[t]]

\* The sync worker is told to stop; tracked children are killed; the scheduler, the sync
\* worker and the import worker are stopped, their threads live on; with SharePoint sync,
\* tracked children are killed once more.
StopStep ==
  /\ stopping # "done"
  /\ stopping' = CASE stopping = "no" -> "requested"
                   [] stopping = "requested" -> "killed"
                   [] stopping = "killed" -> "scheduler"
                   [] stopping = "scheduler" -> "sync"
                   [] stopping = "sync" -> "import"
                   [] stopping = "import" -> "done"
  /\ child' = IF stopping = "requested" \/ (stopping = "import" /\ HasSync) THEN Killed ELSE child
  /\ UNCHANGED <<slot, thread, tracked, result>>

ThreadStep(t) ==
  \/ RefuseEarly(t) \/ Prepare(t) \/ CannotSpawn(t) \/ Spawn(t)
  \/ Track(t) \/ Communicate(t) \/ Read(t)

ExtractNext ==
  \/ StopStep
  \/ \E t \in Thread : Ask(t) \/ Take(t) \/ ThreadStep(t) \/ NextStage(t) \/ Exit(t) \/ Refuse(t)

ExtractSpec ==
  /\ ExtractInit /\ [][ExtractNext]_extractVars
  /\ \A t \in Thread : WF_extractVars(ThreadStep(t)) /\ SF_extractVars(Take(t))

-----------------------------------------------------------------------------
(* Properties.                                                             *)

\* A document comes from the process this attempt started, and an attempt that fails leaves
\* no result, its own or an older one, however the deadline, a kill and the save interleave.
\* An attempt that is refused before it starts makes none; there the older one may stay.
ResultIsOfThisAttempt ==
  \A t \in Thread :
    /\ thread[t] = "document" => result[t] = "new"
    /\ thread[t] = "failed" /\ t \notin Sync => result[t] = "none"
    /\ thread[t] = "refused" => result[t] # "new"

JobIsOver(t) == thread[t] \in Resting

\* A document waiting for the slot is extracted or refused in the end, also when the child
\* before it hangs.
EveryJobEnds == \A t \in Thread : []<>JobIsOver(t)

\* runtime.stop_doc_intel: "nothing re-spawns an extraction child after the kill below".
NoChildOutlivesStop == stopping = "done" => \A t \in Thread : ~Alive(t)
=============================================================================
