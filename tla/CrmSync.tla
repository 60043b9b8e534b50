------------------------------ MODULE CrmSync -------------------------------
(***************************************************************************)
(* Flow 2 of backend/doc_intel for one SharePoint source: sync runs are    *)
(* queued by administrators and the scheduler, claimed by a SyncWorker,    *)
(* list the source's folder, compare the listing with the tracked files    *)
(* and bring new, changed and failed files into the CRM store.  Runs and   *)
(* files of different sources never meet, so a second source would only    *)
(* keep the workers busy.                                                  *)
(*                                                                         *)
(* The content of a file is a version number, which SharePoint only ever   *)
(* increases; the stored tags (cTag, eTag, hash) are the version of the    *)
(* last listing that was acted on; the entities of a file are the version  *)
(* they were extracted from.  The five stage columns of a file are left    *)
(* out: no decision of a sync reads them.                                  *)
(*                                                                         *)
(* "Hazard" selects what may go wrong in a run, as in KbImport:            *)
(*   "stall"  a live worker misses its heartbeats past the stale threshold *)
(*   "crash"  a worker's process dies between two steps                    *)
(*   "fault"  a registry call of a worker raises and changes nothing       *)
(*   "abort"  a request or scheduler pass dies between two steps           *)
(*   "edit"   administrators disable, enable, relocate and delete the      *)
(*            source                                                       *)
(***************************************************************************)
EXTENDS Naturals

CONSTANTS File,       \* items of the SharePoint library
          Folder,     \* folders a source can point to
          Worker,     \* worker_id values: one per start of a sync worker
          Run,        \* rows of AIVA_crm_sync_runs, see Unused
          Client,     \* administrators and schedulers being served
          MaxVersion, \* bound: contents of one item
          MAX_FILE_ATTEMPTS,
          None,       \* the NULL of a column
          Hazard      \* the failures in play, see above

ASSUME SyncAssumption ==
  /\ MaxVersion \in Nat \ {0}
  /\ MAX_FILE_ATTEMPTS \in Nat \ {0}
  /\ None \notin File \cup Folder \cup Worker \cup Run
  /\ Hazard \subseteq {"stall", "crash", "fault", "abort", "edit"}

VARIABLES source,  \* the row of AIVA_crm_sources
          run,     \* AIVA_crm_sync_runs
          file,    \* AIVA_crm_source_files, with the version of the ACTIVE entities
          remote,  \* SharePoint: where an item is and its version
          work,    \* the sync workers
          req      \* the requests and scheduler passes

vars == <<source, run, file, remote, work, req>>

-----------------------------------------------------------------------------
ActiveRun == {"QUEUED", "RUNNING"}
Ended == {"COMPLETED", "PARTIAL", "FAILED"}

Version == 1..MaxVersion
Source == [status : {"ACTIVE", "DISABLED", "DELETED"}, folder : Folder, resolved : Folder \cup {None}]
RunRow == [status : ActiveRun \cup Ended, owner : Worker \cup {None}, fresh : BOOLEAN]

\* tags and entities are 0 while there are none.  An attempt is only begun with
\* budget left, or once more by a worker that lost its run.
FileRow == [state    : {"ABSENT", "ACTIVE", "DELETED"},
            status   : {"PENDING", "PROCESSING", "FAILED", "COMPLETED"},
            attempts : 0..MAX_FILE_ATTEMPTS,
            run      : Run \cup {None},
            tags     : 0..MaxVersion,
            entities : 0..MaxVersion]

NoFile == [state |-> "ABSENT", status |-> "PENDING", attempts |-> 0, run |-> None,
           tags |-> 0, entities |-> 0]
NewRun == [status |-> "QUEUED", owner |-> None, fresh |-> TRUE]

(* What a worker holds in memory.                                          *)
FilePhase == {"begin", "download", "persist"}
RunPhase == {"open", "resolve", "cache", "list", "plan", "withdraw", "arm", "progress",
             "next", "finish"} \cup FilePhase

WorkState == [phase    : {"off", "idle", "release", "dead"} \cup RunPhase,
              run      : Run \cup {None},
              folder   : Folder \cup {None},     \* the location as it was read
              target   : Folder \cup {None},     \* the ids in use
              cached   : BOOLEAN,                \* they came from the source row
              listed   : [File -> 0..MaxVersion],
              complete : BOOLEAN,
              gone     : SUBSET File,            \* the plan: deleted,
              arm      : SUBSET File,            \*   new, changed and retry,
              reset    : SUBSET File,            \*   and of these new and changed
              todo     : SUBSET File,
              file     : File \cup {None},
              content  : 0..MaxVersion,
              outcome  : Ended]

NoListing == [f \in File |-> 0]

Loop(phase) ==
  [phase |-> phase, run |-> None, folder |-> None, target |-> None, cached |-> FALSE,
   listed |-> NoListing, complete |-> FALSE, gone |-> {}, arm |-> {}, reset |-> {},
   todo |-> {}, file |-> None, content |-> 0, outcome |-> "COMPLETED"]

IdleReq == [phase |-> "idle", file |-> None]
ReqState == [phase : {"idle", "reset", "create"}, file : File \cup {None}]

TypeOK ==
  /\ source \in Source
  /\ run \in [Run -> RunRow]
  /\ file \in [File -> FileRow]
  /\ remote \in [File -> [folder : Folder \cup {None}, version : Version]]
  /\ work \in [Worker -> WorkState]
  /\ req \in [Client -> ReqState]

Init ==
  /\ source \in [status : {"ACTIVE"}, folder : Folder, resolved : {None}]
  /\ run = [r \in Run |-> [NewRun EXCEPT !.status = "FAILED"]]
  /\ file = [f \in File |-> NoFile]
  /\ remote \in [File -> [folder : Folder \cup {None}, version : {1}]]
  /\ work = [w \in Worker |-> Loop("off")]
  /\ req = [c \in Client |-> IdleReq]

-----------------------------------------------------------------------------
(* Building blocks.                                                        *)

Goto(w, phase) == work' = [work EXCEPT ![w].phase = phase]
\* process_run is over, whatever its result: the loop goes on.
Leave(w) == work' = [work EXCEPT ![w] = Loop("idle")]
FinishAs(w, outcome) ==
  work' = [work EXCEPT ![w] = [Loop("finish") EXCEPT !.run = work[w].run, !.outcome = outcome]]
\* The file at hand is done with: one more in the run's counters.
FileDone(w, outcome) ==
  work' = [work EXCEPT ![w].phase = "progress", ![w].file = None, ![w].content = 0,
                       ![w].outcome = outcome]

InRun(w) == work[w].phase \in RunPhase
Mine(w) == run[work[w].run].status = "RUNNING" /\ run[work[w].run].owner = w
PutFile(f, row) == file' = [file EXCEPT ![f] = row]

\* _update_file on behalf of a run: row if the file is as expected, else _RunAbandoned.
UpdateOrAbandon(w, expected, row, next) ==
  \/ /\ expected
     /\ PutFile(work[w].file, row)
     /\ next
  \/ /\ ~expected
     /\ UNCHANGED file
     /\ Leave(w)

InFlight(r) == {f \in File : file[f].run = r /\ file[f].status = "PROCESSING"}

\* _fail_interrupted_run: the run and the file it was at, in one transaction.
Interrupt(r) ==
  /\ run' = [run EXCEPT ![r].status = "FAILED"]
  /\ file' = [f \in File |-> IF f \in InFlight(r) THEN [file[f] EXCEPT !.status = "FAILED"]
                                                  ELSE file[f]]

RunIsActive == \E r \in Run : run[r].status \in ActiveRun
\* Bound: an ended run nobody refers to any more stands for the next row.
Unused(r) == /\ run[r].status \in Ended
             /\ \A f \in File : file[f].run # r
             /\ \A w \in Worker : work[w].run # r

-----------------------------------------------------------------------------
(* The worker's loop.                                                      *)

Start(w) ==
  /\ work[w].phase = "off"
  /\ work' = [work EXCEPT ![w] = Loop("idle")]
  /\ UNCHANGED <<source, run, file, remote, req>>

\* Mutant: a run is recovered without looking at its heartbeat.
RecoverRunning(w, r) ==
  /\ work[w].phase = "idle"
  /\ run[r].status = "RUNNING"
  /\ Interrupt(r)
  /\ UNCHANGED <<source, remote, work, req>>

\* Mutant: only runs of this worker id, which is a new one after a restart.
RecoverOwn(w, r) ==
  /\ work[w].phase = "idle"
  /\ run[r].status = "RUNNING" /\ ~run[r].fresh /\ run[r].owner = w
  /\ Interrupt(r)
  /\ UNCHANGED <<source, remote, work, req>>

\* recover_stale_runs.
Recover(w, r) ==
  /\ work[w].phase = "idle"
  /\ run[r].status = "RUNNING" /\ ~run[r].fresh
  /\ Interrupt(r)
  /\ UNCHANGED <<source, remote, work, req>>

\* claim_next_run: at most one run of the source is QUEUED, so it is the oldest.
ClaimRow(r, w) == run' = [run EXCEPT ![r] = [status |-> "RUNNING", owner |-> w, fresh |-> TRUE]]

Claim(w, r) ==
  /\ work[w].phase = "idle"
  /\ run[r].status = "QUEUED"
  /\ ClaimRow(r, w)
  /\ work' = [work EXCEPT ![w].phase = "open", ![w].run = r]
  /\ UNCHANGED <<source, file, remote, req>>

\* The claim commits but the worker does not learn so.
ClaimLost(w, r) ==
  /\ "fault" \in Hazard
  /\ work[w].phase = "idle"
  /\ run[r].status = "QUEUED"
  /\ ClaimRow(r, w)
  /\ UNCHANGED <<source, file, remote, work, req>>

-----------------------------------------------------------------------------
(* One run up to the plan.                                                 *)

\* Mutant: a run of a source that is not ACTIVE ends with the source's status.
OpenMislabelled(w) ==
  /\ work[w].phase = "open"
  /\ \/ source.status # "ACTIVE" /\ FinishAs(w, source.status)
     \/ source.status = "ACTIVE" /\ Goto(w, "resolve")
  /\ UNCHANGED <<source, run, file, remote, req>>

\* _sync: the source as it is now; cached ids skip the resolution.
Open(w) ==
  /\ work[w].phase = "open"
  /\ \/ /\ source.status # "ACTIVE"
        /\ FinishAs(w, "FAILED")
     \/ /\ source.status = "ACTIVE"
        /\ work' = [work EXCEPT ![w].phase = IF source.resolved = None THEN "resolve" ELSE "list",
                                ![w].folder = source.folder,
                                ![w].target = source.resolved,
                                ![w].cached = source.resolved # None]
  /\ UNCHANGED <<source, run, file, remote, req>>

\* Site, library and folder names to ids.
Resolve(w) ==
  /\ work[w].phase = "resolve"
  /\ work' = [work EXCEPT ![w].phase = "cache", ![w].target = work[w].folder, ![w].cached = FALSE]
  /\ UNCHANGED <<source, run, file, remote, req>>

\* Mutant: whatever the location is by now.
CacheAnyway(w) ==
  /\ work[w].phase = "cache"
  /\ source' = [source EXCEPT !.resolved = work[w].target]
  /\ Goto(w, "list")
  /\ UNCHANGED <<run, file, remote, req>>

\* set_resolved: only while the location is the one that was resolved.
Cache(w) ==
  /\ work[w].phase = "cache"
  /\ source' = IF source.status # "DELETED" /\ source.folder = work[w].folder
               THEN [source EXCEPT !.resolved = work[w].target] ELSE source
  /\ Goto(w, "list")
  /\ UNCHANGED <<run, file, remote, req>>

\* The cached folder is gone (moved or re-created): resolve again, once.
CachedIsGone(w) ==
  /\ work[w].phase = "list"
  /\ work[w].cached
  /\ work' = [work EXCEPT ![w].phase = "resolve", ![w].cached = FALSE]
  /\ UNCHANGED <<source, run, file, remote, req>>

\* Credentials, sign-in, resolution or listing fail: the run fails.  Nothing
\* changes between reading the source and the first of the two phases.
GraphFails(w) ==
  /\ work[w].phase \in {"resolve", "list"}
  /\ FinishAs(w, "FAILED")
  /\ UNCHANGED <<source, run, file, remote, req>>

In(t) == {f \in File : remote[f].folder = t}

\* list_files: all of the folder, or less and then not complete.
List(w, S, complete) ==
  /\ work[w].phase = "list"
  /\ complete => S = In(work[w].target)
  /\ work' = [work EXCEPT ![w].phase = "plan", ![w].complete = complete,
                          ![w].folder = None, ![w].target = None, ![w].cached = FALSE,
                          ![w].listed = [f \in File |-> IF f \in S THEN remote[f].version ELSE 0]]
  /\ UNCHANGED <<source, run, file, remote, req>>

\* Mutant: a file that was armed but not begun is forgotten.
RetryBegun(row) == row.status \in {"FAILED", "PROCESSING"} /\ row.attempts < MAX_FILE_ATTEMPTS

\* Mutant: a completed file with budget left is taken again.
RetryAny(row) == row.status = "PENDING" \/ row.attempts < MAX_FILE_ATTEMPTS

NeedsRetry(row) ==
  \/ row.status = "PENDING"
  \/ row.status \in {"FAILED", "PROCESSING"} /\ row.attempts < MAX_FILE_ATTEMPTS

\* active_files and plan_sync.  Only a complete listing says what is gone.
Plan(w) ==
  LET listed  == {f \in File : work[w].listed[f] # 0}
      tracked == {f \in File : file[f].state = "ACTIVE"}
      new     == listed \ tracked
      changed == {f \in listed \cap tracked : file[f].tags # work[w].listed[f]}
      retry   == {f \in (listed \cap tracked) \ changed : NeedsRetry(file[f])}
      gone    == IF work[w].complete THEN tracked \ listed ELSE {}
  IN /\ work[w].phase = "plan"
     /\ work' = [work EXCEPT ![w].phase = IF gone = {} THEN "arm" ELSE "withdraw",
                             ![w].gone = gone,
                             ![w].arm = new \cup changed \cup retry,
                             ![w].reset = new \cup changed]
     /\ UNCHANGED <<source, run, file, remote, req>>

\* mark_files_deleted: with their entities, in one transaction.
Withdraw(w) ==
  /\ work[w].phase = "withdraw"
  /\ file' = [f \in File |->
                IF f \notin work[w].gone THEN file[f]
                ELSE [file[f] EXCEPT !.state = IF @ = "ACTIVE" THEN "DELETED" ELSE @, !.entities = 0]]
  /\ work' = [work EXCEPT ![w].phase = "arm", ![w].gone = {}]
  /\ UNCHANGED <<source, run, remote, req>>

\* Mutant: the status is not re-armed.
ArmedAsItWas(row, v, reset) ==
  [row EXCEPT !.state = "ACTIVE", !.tags = v, !.attempts = IF reset THEN 0 ELSE @]

\* upsert_file: whatever the file's status, it becomes PENDING with the tags listed.
ArmedRow(row, v, reset) ==
  [row EXCEPT !.state = "ACTIVE", !.status = "PENDING", !.tags = v,
              !.attempts = IF reset THEN 0 ELSE @]

Arm(w, f) ==
  LET armed == ArmedRow(file[f], work[w].listed[f], f \in work[w].reset)
  IN /\ work[w].phase = "arm"
     /\ f \in work[w].arm
     /\ PutFile(f, IF file[f].state = "ABSENT" THEN [armed EXCEPT !.run = work[w].run] ELSE armed)
     /\ work' = [work EXCEPT ![w].arm = @ \ {f}, ![w].todo = @ \cup {f}]
     /\ UNCHANGED <<source, run, remote, req>>

-----------------------------------------------------------------------------
(* The files, one at a time, and the end of the run.                       *)

\* set_run_progress, once everything is armed and after each file: only this
\* worker's RUNNING run.
Progress(w) ==
  /\ work[w].phase \in {"arm", "progress"}
  /\ work[w].arm = {}
  /\ \/ /\ Mine(w)
        /\ run' = [run EXCEPT ![work[w].run].fresh = TRUE]
        /\ work' = [work EXCEPT ![w].phase = "next", ![w].listed = NoListing, ![w].reset = {}]
     \/ /\ ~Mine(w)
        /\ UNCHANGED run
        /\ Leave(w)
  /\ UNCHANGED <<source, file, remote, req>>

\* The source is read again before each file.
NextFile(w, f) ==
  /\ work[w].phase = "next"
  /\ f \in work[w].todo
  /\ \/ /\ source.status = "ACTIVE"
        /\ work' = [work EXCEPT ![w].phase = "begin", ![w].file = f, ![w].todo = @ \ {f}]
     \/ /\ source.status # "ACTIVE"
        /\ FinishAs(w, "FAILED")
  /\ UNCHANGED <<source, run, file, remote, req>>

NoMoreFiles(w) ==
  /\ work[w].phase = "next"
  /\ work[w].todo = {}
  /\ FinishAs(w, IF work[w].complete THEN work[w].outcome ELSE "PARTIAL")
  /\ UNCHANGED <<source, run, file, remote, req>>

\* begin_file; a file that cannot be started counts as failed.
Begin(w) ==
  LET row == file[work[w].file] IN
  /\ work[w].phase = "begin"
  /\ \/ /\ row.state = "ACTIVE" /\ row.status \in {"PENDING", "FAILED"}
        /\ row.attempts <= MAX_FILE_ATTEMPTS
        /\ PutFile(work[w].file, [row EXCEPT !.status = "PROCESSING", !.run = work[w].run,
                                             !.attempts = @ + 1])
        /\ Goto(w, "download")
     \/ /\ ~(row.state = "ACTIVE" /\ row.status \in {"PENDING", "FAILED"})
        /\ FileDone(w, "PARTIAL")
        /\ UNCHANGED file
  /\ UNCHANGED <<source, run, remote, req>>

\* set_file_stage expects PROCESSING, whichever run made it so.  The download
\* gets what SharePoint has by now.
Download(w) ==
  LET f == work[w].file IN
  /\ work[w].phase = "download"
  /\ file[f].status = "PROCESSING" => remote[f].folder # None
  /\ UpdateOrAbandon(w, file[f].status = "PROCESSING", file[f],
       work' = [work EXCEPT ![w].phase = "persist", ![w].content = remote[f].version])
  /\ UNCHANGED <<source, run, remote, req>>

\* Mutant: the file's state is not compared.
PersistGone(w) ==
  LET f == work[w].file IN
  /\ work[w].phase = "persist"
  /\ UpdateOrAbandon(w, file[f].status = "PROCESSING",
       [file[f] EXCEPT !.status = "COMPLETED", !.entities = work[w].content],
       FileDone(w, work[w].outcome))
  /\ UNCHANGED <<source, run, remote, req>>

\* Extraction, intelligence and entities in one child process, then complete_file:
\* the entities replaced and the file COMPLETED in one transaction.  The stages
\* recorded before it expect PROCESSING too, so they only abandon a run earlier.
Persist(w) ==
  LET f == work[w].file IN
  /\ work[w].phase = "persist"
  /\ UpdateOrAbandon(w, file[f].status = "PROCESSING" /\ file[f].state = "ACTIVE",
       [file[f] EXCEPT !.status = "COMPLETED", !.entities = work[w].content],
       FileDone(w, work[w].outcome))
  /\ UNCHANGED <<source, run, remote, req>>

\* Mutant: the failure is not counted.
FailFileQuietly(w) ==
  LET f == work[w].file IN
  /\ work[w].phase \in {"download", "persist"}
  /\ UpdateOrAbandon(w, file[f].status = "PROCESSING", [file[f] EXCEPT !.status = "FAILED"],
       FileDone(w, work[w].outcome))
  /\ UNCHANGED <<source, run, remote, req>>

\* Any stage fails for a reason of its own; fail_file, and the run goes on.
FailFile(w) ==
  LET f == work[w].file IN
  /\ work[w].phase \in {"download", "persist"}
  /\ UpdateOrAbandon(w, file[f].status = "PROCESSING", [file[f] EXCEPT !.status = "FAILED"],
       FileDone(w, "PARTIAL"))
  /\ UNCHANGED <<source, run, remote, req>>

\* finish_run: only this worker's RUNNING run, otherwise the run is abandoned.
Finish(w) ==
  /\ work[w].phase = "finish"
  /\ run' = IF Mine(w) THEN [run EXCEPT ![work[w].run].status = work[w].outcome] ELSE run
  /\ Leave(w)
  /\ UNCHANGED <<source, file, remote, req>>

\* A registry call raises.  process_run records the run as FAILED, whatever the
\* file it was at; when that fails too the run stays RUNNING and is left.  Inside
\* a file's stages the exception fails the file, unless fail_file raises as well.
RegistryFault(w) ==
  /\ "fault" \in Hazard
  /\ \/ /\ work[w].phase \in {"open", "plan", "withdraw", "arm", "progress", "next"} \cup FilePhase
        /\ FinishAs(w, "FAILED")
     \/ /\ work[w].phase = "cache"
        /\ Goto(w, "list")
     \/ /\ work[w].phase = "finish"
        /\ \/ work[w].outcome # "FAILED" /\ FinishAs(w, "FAILED")
           \/ Leave(w)
  /\ UNCHANGED <<source, run, file, remote, req>>

-----------------------------------------------------------------------------
(* The end of a worker, and time; see KbImport.                            *)

MayEnd(w) ==
  /\ work[w].phase \notin {"off", "release", "dead"}
  /\ \E v \in Worker \ {w} : work[v].phase \notin {"release", "dead"}

\* request_stop and stop: nothing of the run goes on but its release.
Stop(w) ==
  /\ MayEnd(w)
  /\ work' = [work EXCEPT ![w] = IF InRun(w) THEN [Loop("release") EXCEPT !.run = work[w].run]
                                             ELSE Loop("dead")]
  /\ UNCHANGED <<source, run, file, remote, req>>

\* release_interrupted_run: only the run this worker still owns.
Release(w) ==
  /\ work[w].phase = "release"
  /\ IF Mine(w) THEN Interrupt(work[w].run) ELSE UNCHANGED <<run, file>>
  /\ work' = [work EXCEPT ![w] = Loop("dead")]
  /\ UNCHANGED <<source, remote, req>>

ReleaseFails(w) ==
  /\ "fault" \in Hazard
  /\ work[w].phase = "release"
  /\ work' = [work EXCEPT ![w] = Loop("dead")]
  /\ UNCHANGED <<source, run, file, remote, req>>

Crash(w) ==
  /\ "crash" \in Hazard
  /\ MayEnd(w)
  /\ work' = [work EXCEPT ![w] = Loop("dead")]
  /\ UNCHANGED <<source, run, file, remote, req>>

GoStale(r) ==
  /\ run[r].status = "RUNNING"
  /\ run[r].fresh
  /\ \/ "stall" \in Hazard
     \/ \A w \in Worker : ~(InRun(w) /\ work[w].run = r)
  /\ run' = [run EXCEPT ![r].fresh = FALSE]
  /\ UNCHANGED <<source, file, remote, work, req>>

\* _heartbeat / touch_run.
Heartbeat(w) ==
  /\ InRun(w)
  /\ Mine(w)
  /\ ~run[work[w].run].fresh
  /\ run' = [run EXCEPT ![work[w].run].fresh = TRUE]
  /\ UNCHANGED <<source, file, remote, work, req>>

-----------------------------------------------------------------------------
(* Requests and the scheduler.                                             *)

\* sync_now, or a scheduler that claimed a due source: it was ACTIVE just now.
AskSync(c) ==
  /\ req[c].phase = "idle"
  /\ source.status = "ACTIVE"
  /\ req' = [req EXCEPT ![c].phase = "create"]
  /\ UNCHANGED <<source, run, file, remote, work>>

\* retry_file: the file as it was read decides what happens next.
AskRetry(c, f) ==
  /\ req[c].phase = "idle"
  /\ source.status = "ACTIVE"
  /\ file[f].state = "ACTIVE"
  /\ \/ /\ file[f].status = "FAILED"
        /\ req' = [req EXCEPT ![c] = [phase |-> "reset", file |-> f]]
     \/ /\ file[f].status = "PENDING"
        /\ req' = [req EXCEPT ![c].phase = "create"]
  /\ UNCHANGED <<source, run, file, remote, work>>

\* reset_file_for_retry, or 409.
ResetFile(c) ==
  LET f == req[c].file IN
  /\ req[c].phase = "reset"
  /\ IF file[f].status = "FAILED" /\ file[f].state = "ACTIVE"
     THEN /\ PutFile(f, [file[f] EXCEPT !.status = "PENDING", !.attempts = 0])
          /\ req' = [req EXCEPT ![c] = [IdleReq EXCEPT !.phase = "create"]]
     ELSE /\ UNCHANGED file
          /\ req' = [req EXCEPT ![c] = IdleReq]
  /\ UNCHANGED <<source, run, remote, work>>

\* create_run: the unique index allows one active run of a source, whatever the
\* source has become.
CreateRun(c) ==
  /\ req[c].phase = "create"
  /\ \/ RunIsActive /\ UNCHANGED run
     \/ /\ ~RunIsActive
        /\ \E r \in Run : Unused(r) /\ run' = [run EXCEPT ![r] = NewRun]
  /\ req' = [req EXCEPT ![c] = IdleReq]
  /\ UNCHANGED <<source, file, remote, work>>

Abort(c) ==
  /\ "abort" \in Hazard
  /\ req[c].phase # "idle"
  /\ req' = [req EXCEPT ![c] = IdleReq]
  /\ UNCHANGED <<source, run, file, remote, work>>

\* update_source: a new location forgets the resolved ids.
SetStatus(st) ==
  /\ source.status # "DELETED"
  /\ st # source.status
  /\ source' = [source EXCEPT !.status = st]
  /\ UNCHANGED <<run, file, remote, work, req>>

Relocate(t) ==
  /\ source.status # "DELETED"
  /\ t # source.folder
  /\ source' = [source EXCEPT !.folder = t, !.resolved = None]
  /\ UNCHANGED <<run, file, remote, work, req>>

\* Mutant: a sync under way does not block the deletion.
DeleteAnyTime ==
  /\ source.status # "DELETED"
  /\ source' = [source EXCEPT !.status = "DELETED"]
  /\ file' = [f \in File |-> [file[f] EXCEPT !.entities = 0]]
  /\ UNCHANGED <<run, remote, work, req>>

\* soft_delete_source, one transaction: refused while a run is QUEUED or RUNNING.
DeleteSource ==
  /\ source.status # "DELETED"
  /\ ~RunIsActive
  /\ source' = [source EXCEPT !.status = "DELETED"]
  /\ file' = [f \in File |-> [file[f] EXCEPT !.entities = 0]]
  /\ UNCHANGED <<run, remote, work, req>>

-----------------------------------------------------------------------------
(* SharePoint: items are edited, moved, deleted and restored.              *)

Edit(f) ==
  /\ remote[f].version < MaxVersion
  /\ remote' = [remote EXCEPT ![f].version = @ + 1]
  /\ UNCHANGED <<source, run, file, work, req>>

Move(f, t) ==
  /\ t # remote[f].folder
  /\ remote' = [remote EXCEPT ![f].folder = t]
  /\ UNCHANGED <<source, run, file, work, req>>

-----------------------------------------------------------------------------
WorkerStep(w) ==
  \/ Start(w) \/ (\E r \in Run : Recover(w, r) \/ Claim(w, r))
  \/ Open(w) \/ Resolve(w) \/ Cache(w) \/ CachedIsGone(w) \/ GraphFails(w)
  \/ (\E S \in SUBSET In(work[w].target), complete \in BOOLEAN : List(w, S, complete))
  \/ Plan(w) \/ Withdraw(w) \/ (\E f \in File : Arm(w, f))
  \/ Progress(w) \/ (\E f \in File : NextFile(w, f)) \/ NoMoreFiles(w)
  \/ Begin(w) \/ Download(w) \/ Persist(w) \/ FailFile(w)
  \/ Finish(w) \/ Release(w) \/ ReleaseFails(w)

WorkerTrouble(w) ==
  (\E r \in Run : ClaimLost(w, r)) \/ RegistryFault(w) \/ Stop(w) \/ Crash(w)

RequestStep(c) ==
  \/ AskSync(c) \/ (\E f \in File : AskRetry(c, f))
  \/ ResetFile(c) \/ CreateRun(c) \/ Abort(c)

Administration ==
  /\ "edit" \in Hazard
  /\ \/ \E st \in {"ACTIVE", "DISABLED"} : SetStatus(st)
     \/ \E t \in Folder : Relocate(t)
     \/ DeleteSource

SharePoint == \E f \in File : Edit(f) \/ \E t \in Folder \cup {None} : Move(f, t)

Next ==
  \/ \E w \in Worker : WorkerStep(w) \/ WorkerTrouble(w) \/ Heartbeat(w)
  \/ \E r \in Run : GoStale(r)
  \/ \E c \in Client : RequestStep(c)
  \/ Administration
  \/ SharePoint

\* The worker's task runs until it blocks, time passes and a scheduler ticks.
\* SharePoint does not answer every time with an error or a part of the folder.
Fairness ==
  /\ \A w \in Worker :
       /\ WF_vars(WorkerStep(w))
       /\ SF_vars(List(w, In(work[w].target), TRUE))
       /\ SF_vars(Resolve(w))
  /\ WF_vars(\E r \in Run : GoStale(r))
  /\ \A c \in Client : WF_vars(RequestStep(c))

Spec == Init /\ [][Next]_vars
FairSpec == Spec /\ Fairness

-----------------------------------------------------------------------------
(* Properties.                                                             *)

\* A worker inside a run is the owner of a RUNNING run that is not stale: no two
\* workers sync one source at a time.
OwnsRun ==
  \A w \in Worker : InRun(w) =>
    LET r == run[work[w].run] IN r.status = "RUNNING" /\ r.owner = w /\ r.fresh

\* A file that the next sync will take for unchanged has the entities of the
\* content its stored tags stand for, or of a later one.
EntitiesAreCurrent ==
  \A f \in File : file[f].state = "ACTIVE" /\ file[f].status = "COMPLETED" /\ source.status # "DELETED"
                    => file[f].entities >= file[f].tags

\* Nothing of a deleted source or of a file that is gone stays in the CRM store.
NothingLeftBehind ==
  \A f \in File : source.status = "DELETED" \/ file[f].state = "DELETED" => file[f].entities = 0

\* The ids cached on a source are those of the location it names.
CacheIsOfThisLocation == source.resolved \in {None, source.folder}

\* A run that ended COMPLETED left none of its files behind.
CompletedRunIsClean ==
  \A f \in File : file[f].run # None /\ run[file[f].run].status = "COMPLETED"
                    => file[f].status \notin {"FAILED", "PROCESSING"}

\* A PROCESSING file is being processed: its run is RUNNING.
ProcessingHasRun ==
  \A f \in File : file[f].status = "PROCESSING" => run[file[f].run].status = "RUNNING"

\* Every queued or claimed run ends: a crash or a stop blocks the source for a while only.
RunsEnd == RunIsActive ~> ~RunIsActive

\* f is in the CRM store as it is in SharePoint, or its retry budget is used up.
Synced(f) ==
  IF remote[f].folder = source.folder
  THEN /\ file[f].state = "ACTIVE" /\ file[f].tags = remote[f].version
       /\ \/ file[f].status = "COMPLETED" /\ file[f].entities = remote[f].version
          \/ file[f].attempts = MAX_FILE_ATTEMPTS
  ELSE file[f].entities = 0

\* When the source stays enabled, neither it nor the library changes any more and
\* administrators retry no file by hand, every item gets synced.
EventuallySynced ==
  (/\ <>[](source.status = "ACTIVE" /\ \A c \in Client : req[c].phase # "reset")
   /\ <>[][FALSE]_<<remote, source.folder>>)
  => \A f \in File : <>[]Synced(f)

\* A sync comes to an end, and syncs come to the state of the library.
Converges == RunsEnd /\ EventuallySynced
-----------------------------------------------------------------------------
(* The CRM store as a mirror of the library, see CrmMirror.                *)

StageOf(row) ==
  IF row.state # "ACTIVE" THEN IF row.state = "ABSENT" THEN "unknown" ELSE "gone"
  ELSE [PENDING |-> "waiting", PROCESSING |-> "syncing", FAILED |-> "failed",
        COMPLETED |-> "mirrored"][row.status]

AtWork  == {w \in Worker : InRun(w)}
Stage   == [f \in File |-> StageOf(file[f])]
Noted   == [f \in File |-> file[f].tags]
Stored  == [f \in File |-> file[f].entities]
Content == [f \in File |-> remote[f].version]
Closed  == source.status = "DELETED"

Mirror == INSTANCE CrmMirror WITH
  Item <- File, atWork <- AtWork, stage <- Stage, noted <- Noted, stored <- Stored,
  content <- Content, closed <- Closed

\* Every step of a worker, an administrator, the scheduler or SharePoint is a step of
\* the mirror or leaves it as it is.
ImplementsMirror == Mirror!Spec
=============================================================================
