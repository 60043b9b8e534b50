---------------------------- MODULE CrmSyncProofs ----------------------------
(* What holds of the synchronization of a source for every set of files,      *)
(* folders, workers, runs and clients, proved with TLAPS.                     *)
EXTENDS CrmSync, TLAPS

(* First what holds with every failure in play.                               *)

\* What a worker can hold in memory at each point of its run.
WorkFit ==
  {s \in WorkState :
     /\ s.phase \in {"off", "idle", "dead"} => s = Loop(s.phase)
     /\ s.phase \in RunPhase \cup {"release"} => s.run \in Run
     /\ s.phase \in FilePhase => s.file \in File /\ s.file \notin s.todo
     /\ s.phase = "cache" => s.target = s.folder
     /\ s.phase \notin {"withdraw", "arm"} => s.arm = {}
     /\ s.phase \notin RunPhase => s.todo = {} /\ s.listed = NoListing}

ReqFit == {q \in ReqState : q.phase = "reset" => q.file \in File}

\* TypeOK but for the bound on attempts, which zombies exceed.
FileShape == [state    : {"ABSENT", "ACTIVE", "DELETED"},
              status   : {"PENDING", "PROCESSING", "FAILED", "COMPLETED"},
              attempts : Nat,
              run      : Run \cup {None},
              tags     : 0..MaxVersion,
              entities : 0..MaxVersion]

Shape ==
  /\ source \in Source
  /\ run \in [Run -> RunRow]
  /\ file \in [File -> FileShape]
  /\ remote \in [File -> [folder : Folder \cup {None}, version : Version]]
  /\ work \in [Worker -> WorkFit]
  /\ req \in [Client -> ReqFit]

\* A run that a worker remembers is one it has claimed; a QUEUED run is nobody's yet, and
\* at most one run is active.
RunsKept ==
  /\ \A w \in Worker : work[w].run # None =>
       run[work[w].run].owner = w /\ run[work[w].run].status \in {"RUNNING", "FAILED"}
  /\ \A f \in File : file[f].run # None => run[file[f].run].status # "QUEUED"
  /\ \A r, q \in Run : run[r].status \in ActiveRun /\ run[q].status \in ActiveRun => r = q

Unfinished(f, r) == file[f].run = r /\ file[f].status \in {"FAILED", "PROCESSING"}

\* A worker that has seen no failure has left no file of its run behind but the one it is at.
NoneLeft ==
  \A w \in Worker : InRun(w) /\ work[w].outcome = "COMPLETED" =>
    \A f \in File : Unfinished(f, work[w].run) =>
      work[w].phase \in {"download", "persist"} /\ work[w].file = f

RunInv == Shape /\ RunsKept /\ NoneLeft /\ CompletedRunIsClean /\ CacheIsOfThisLocation

(* Then what holds while workers keep up their heartbeats.                    *)

Budget ==
  \A f \in File : /\ file[f].attempts <= MAX_FILE_ATTEMPTS
                  /\ file[f].status = "PENDING" => file[f].attempts < MAX_FILE_ATTEMPTS

\* What a worker is about to write is later than what is there: only the mirror needs it.
Advances(s) ==
  /\ \A f \in File : s.listed[f] # 0 => file[f].tags <= s.listed[f]
  /\ \A f \in s.arm : /\ s.listed[f] # 0
                      /\ StageOf(file[f]) = "mirrored" => file[f].tags # s.listed[f]
  /\ s.phase = "withdraw" => \A f \in s.gone : file[f].state = "ACTIVE"
  /\ s.phase = "persist" => /\ file[s.file].entities <= s.content
                            /\ s.content <= remote[s.file].version

\* What a worker remembers agrees with the tables.
Agrees(s) ==
  /\ s.phase \in RunPhase \ {"open", "finish"} => source.status # "DELETED"
  /\ \A f \in File : s.listed[f] <= remote[f].version
  /\ \A f \in s.arm \ s.reset : file[f].attempts < MAX_FILE_ATTEMPTS
  /\ \A f \in s.todo : file[f].status = "PENDING"
  /\ s.phase = "begin" => file[s.file].status = "PENDING"
  /\ s.phase = "persist" => file[s.file].tags <= s.content
  /\ Advances(s)

\* Tags and entities are of contents the item had.
NothingAhead ==
  \A f \in File : file[f].tags <= remote[f].version /\ file[f].entities <= remote[f].version

SyncInv ==
  /\ RunInv /\ OwnsRun /\ Budget /\ NothingAhead
  /\ \A w \in Worker : Agrees(work[w])
  /\ EntitiesAreCurrent /\ NothingLeftBehind

\* How far the mirroring of a file has come, by its row.
LEMMA Stages ==
  ASSUME NEW row \in FileShape
  PROVE  /\ StageOf(row) = "unknown" <=> row.state = "ABSENT"
         /\ StageOf(row) = "gone" <=> row.state = "DELETED"
         /\ StageOf(row) = "waiting" <=> row.state = "ACTIVE" /\ row.status = "PENDING"
         /\ StageOf(row) = "syncing" <=> row.state = "ACTIVE" /\ row.status = "PROCESSING"
         /\ StageOf(row) = "failed" <=> row.state = "ACTIVE" /\ row.status = "FAILED"
         /\ StageOf(row) = "mirrored" <=> row.state = "ACTIVE" /\ row.status = "COMPLETED"
<1>1. /\ row.state \in {"ABSENT", "ACTIVE", "DELETED"}
      /\ row.status \in {"PENDING", "PROCESSING", "FAILED", "COMPLETED"}
  BY DEF FileShape
<1>2. CASE row.state # "ACTIVE"
  BY <1>1, <1>2 DEF StageOf
<1>3. CASE row.state = "ACTIVE"
  <2> DEFINE stages == [PENDING |-> "waiting", PROCESSING |-> "syncing", FAILED |-> "failed",
                        COMPLETED |-> "mirrored"]
  <2>1. StageOf(row) = stages[row.status]
    BY <1>3 DEF StageOf
  <2>2. /\ stages["PENDING"] = "waiting" /\ stages["PROCESSING"] = "syncing"
        /\ stages["FAILED"] = "failed" /\ stages["COMPLETED"] = "mirrored"
    OBVIOUS
  <2> HIDE DEF stages
  <2> QED
    BY <1>1, <1>3, <2>1, <2>2
<1> QED
  BY <1>2, <1>3

-----------------------------------------------------------------------------
(* What a worker holds in memory.                                             *)

\* A worker goes on from s to t without taking up a run or claiming a success.
Follows(s, t) ==
  /\ t.run \in {s.run, None}
  /\ t.phase \in RunPhase => s.phase \in RunPhase /\ t.run = s.run
  /\ t.phase \in RunPhase /\ t.outcome = "COMPLETED" =>
       /\ s.outcome = "COMPLETED"
       /\ s.phase \in {"download", "persist"} => t.phase \in {"download", "persist"} /\ t.file = s.file

\* A step of w that changes its memory only, from one that agrees with the tables to one
\* that does.
Thinks(w) ==
  \E t \in WorkFit : /\ work' = [work EXCEPT ![w] = t]
                     /\ Follows(work[w], t)
                     /\ Budget /\ NothingAhead /\ Agrees(work[w]) => Agrees(t)

LEMMA LoopFits ==
  /\ \A p \in {"off", "idle", "dead"} : Loop(p) \in WorkFit
  /\ \A r \in Run : [Loop("release") EXCEPT !.run = r] \in WorkFit
  /\ \A r \in Run, o \in Ended : [Loop("finish") EXCEPT !.run = r, !.outcome = o] \in WorkFit
<1>1. \A p \in {"off", "idle", "dead", "release", "finish"} :
        /\ Loop(p) \in WorkState /\ Loop(p).phase = p /\ Loop(p).arm = {} /\ Loop(p).todo = {}
        /\ Loop(p).listed = NoListing /\ Loop(p).outcome = "COMPLETED"
  BY SyncAssumption DEF Loop, WorkState, RunPhase, FilePhase, NoListing, Ended
<1>2. \A p \in {"off", "idle", "dead"} : Loop(p) \in WorkFit
  BY <1>1 DEF WorkFit, RunPhase, FilePhase
<1>3. ASSUME NEW r \in Run PROVE [Loop("release") EXCEPT !.run = r] \in WorkFit
  <2> DEFINE t == [Loop("release") EXCEPT !.run = r]
  <2>1. /\ t \in WorkState /\ t.phase = "release" /\ t.run = r /\ t.arm = {} /\ t.todo = {}
        /\ t.listed = NoListing
    BY <1>1 DEF WorkState
  <2> QED
    BY <2>1 DEF WorkFit, RunPhase, FilePhase
<1>4. ASSUME NEW r \in Run, NEW o \in Ended
      PROVE  [Loop("finish") EXCEPT !.run = r, !.outcome = o] \in WorkFit
  <2> DEFINE t == [Loop("finish") EXCEPT !.run = r, !.outcome = o]
  <2>1. t \in WorkState /\ t.phase = "finish" /\ t.run = r /\ t.arm = {}
    BY <1>1 DEF WorkState
  <2> QED
    BY <2>1 DEF WorkFit, RunPhase, FilePhase
<1> QED
  BY <1>2, <1>3, <1>4

\* A worker that leaves its run, or ends, remembers nothing.
LEMMA LoopAgrees ==
  ASSUME Shape
  PROVE  /\ \A p \in {"off", "idle", "dead"} : Agrees(Loop(p))
         /\ \A r \in Run : Agrees([Loop("release") EXCEPT !.run = r])
         /\ \A r \in Run, o \in Ended : Agrees([Loop("finish") EXCEPT !.run = r, !.outcome = o])
<1>1. \A f \in File : remote[f].version >= 0
  BY DEF Shape, Version
<1> QED
  BY <1>1 DEF Agrees, Advances, Loop, NoListing, RunPhase, FilePhase

LEMMA LeaveThinks ==
  ASSUME Shape, NEW w \in Worker, Leave(w)
  PROVE  Thinks(w)
<1>1. Loop("idle").run = None /\ Loop("idle").phase = "idle"
  BY DEF Loop
<1> QED
  BY <1>1, LoopFits, LoopAgrees DEF Thinks, Leave, Follows, RunPhase, FilePhase

LEMMA FinishAsThinks ==
  ASSUME Shape, NEW w \in Worker, InRun(w), NEW o \in Ended, FinishAs(w, o),
         o = "COMPLETED" => work[w].outcome = "COMPLETED" /\ work[w].phase \notin {"download", "persist"}
  PROVE  Thinks(w)
<1> DEFINE t == [Loop("finish") EXCEPT !.run = work[w].run, !.outcome = o]
<1>1. work[w].run \in Run
  BY DEF Shape, WorkFit, InRun
<1>2. t \in WorkFit /\ Agrees(t)
  BY <1>1, LoopFits, LoopAgrees
<1>3. t.run = work[w].run /\ t.phase = "finish" /\ t.outcome = o
  BY DEF Loop
<1>4. work' = [work EXCEPT ![w] = t]
  BY DEF FinishAs
<1> HIDE DEF t
<1> QED
  BY <1>2, <1>3, <1>4 DEF Thinks, Follows, InRun

\* Up to the listing a worker looks for the folder.
LEMMA LookingThinks ==
  ASSUME Shape, NEW w \in Worker, NEW t \in WorkState, work' = [work EXCEPT ![w] = t],
         work[w].phase \in {"open", "resolve", "cache", "list"}, t.phase \in {"resolve", "cache", "list"},
         work[w].phase = "open" => source.status = "ACTIVE",
         t.phase = "cache" => t.target = t.folder,
         t.run = work[w].run, t.listed = work[w].listed, t.arm = work[w].arm, t.reset = work[w].reset,
         t.todo = work[w].todo, t.outcome = work[w].outcome
  PROVE  Thinks(w)
<1>1. work[w] \in WorkFit
  BY DEF Shape
<1>2. t \in WorkFit
  BY <1>1 DEF WorkFit, RunPhase, FilePhase
<1>3. Follows(work[w], t)
  BY DEF Follows, RunPhase, FilePhase
<1>4. Agrees(work[w]) => Agrees(t)
  BY DEF Agrees, Advances, RunPhase, FilePhase
<1> QED
  BY <1>2, <1>3, <1>4 DEF Thinks

LEMMA OpenThinks ==
  ASSUME Shape, NEW w \in Worker, Start(w) \/ Open(w) \/ Resolve(w) \/ CachedIsGone(w) \/ GraphFails(w)
  PROVE  Thinks(w)
<1>1. work[w] \in WorkFit /\ work[w] \in WorkState
  BY DEF Shape, WorkFit
<1>2. CASE Start(w)
  BY <1>2, LeaveThinks DEF Start, Leave
<1>3. CASE Open(w) /\ source.status # "ACTIVE"
  <2>1. InRun(w) /\ FinishAs(w, "FAILED")
    BY <1>3 DEF Open, InRun, RunPhase
  <2> QED
    BY <2>1, FinishAsThinks DEF Ended
<1>4. CASE Open(w) /\ source.status = "ACTIVE"
  <2> DEFINE p == IF source.resolved = None THEN "resolve" ELSE "list"
             c == source.resolved # None
             t == [work[w] EXCEPT !.phase = p, !.folder = source.folder, !.target = source.resolved,
                                  !.cached = c]
  <2>1. /\ source.folder \in Folder /\ source.resolved \in Folder \cup {None}
        /\ p \in {"resolve", "list"} /\ c \in BOOLEAN
    BY DEF Shape, Source
  <2>3. work' = [work EXCEPT ![w] = t]
    BY <1>4 DEF Open
  <2> HIDE DEF p, c
  <2>2. /\ t \in WorkState /\ t.phase \in {"resolve", "list"}
        /\ t.run = work[w].run /\ t.listed = work[w].listed /\ t.arm = work[w].arm
        /\ t.reset = work[w].reset /\ t.todo = work[w].todo /\ t.outcome = work[w].outcome
    BY <1>1, <2>1 DEF WorkState, RunPhase
  <2>4. work[w].phase = "open"
    BY <1>4 DEF Open
  <2> HIDE DEF t
  <2> QED
    BY <1>4, <2>2, <2>3, <2>4, LookingThinks
<1>5. CASE Resolve(w)
  <2> DEFINE t == [work[w] EXCEPT !.phase = "cache", !.target = work[w].folder, !.cached = FALSE]
  <2>1. /\ t \in WorkState /\ t.phase = "cache" /\ t.target = t.folder
        /\ t.run = work[w].run /\ t.listed = work[w].listed /\ t.arm = work[w].arm
        /\ t.reset = work[w].reset /\ t.todo = work[w].todo /\ t.outcome = work[w].outcome
    BY <1>1 DEF WorkState, RunPhase
  <2>2. work' = [work EXCEPT ![w] = t] /\ work[w].phase = "resolve"
    BY <1>5 DEF Resolve
  <2> HIDE DEF t
  <2> QED
    BY <2>1, <2>2, LookingThinks
<1>6. CASE CachedIsGone(w)
  <2> DEFINE t == [work[w] EXCEPT !.phase = "resolve", !.cached = FALSE]
  <2>1. /\ t \in WorkState /\ t.phase = "resolve"
        /\ t.run = work[w].run /\ t.listed = work[w].listed /\ t.arm = work[w].arm
        /\ t.reset = work[w].reset /\ t.todo = work[w].todo /\ t.outcome = work[w].outcome
    BY <1>1 DEF WorkState, RunPhase
  <2>2. work' = [work EXCEPT ![w] = t] /\ work[w].phase = "list"
    BY <1>6 DEF CachedIsGone
  <2> HIDE DEF t
  <2> QED
    BY <2>1, <2>2, LookingThinks
<1>7. CASE GraphFails(w)
  <2>1. InRun(w) /\ FinishAs(w, "FAILED")
    BY <1>7 DEF GraphFails, InRun, RunPhase
  <2> QED
    BY <2>1, FinishAsThinks DEF Ended
<1> QED
  BY <1>2, <1>3, <1>4, <1>5, <1>6, <1>7 DEF Open

LEMMA CacheThinks ==
  ASSUME Shape, NEW w \in Worker, Cache(w)
  PROVE  Thinks(w)
<1> DEFINE t == [work[w] EXCEPT !.phase = "list"]
<1>1. work[w] \in WorkState /\ work[w].phase = "cache" /\ work' = [work EXCEPT ![w] = t]
  BY DEF Shape, WorkFit, Cache, Goto
<1>2. /\ t \in WorkState /\ t.phase = "list"
      /\ t.run = work[w].run /\ t.listed = work[w].listed /\ t.arm = work[w].arm
      /\ t.reset = work[w].reset /\ t.todo = work[w].todo /\ t.outcome = work[w].outcome
  BY <1>1 DEF WorkState, RunPhase
<1> HIDE DEF t
<1> QED
  BY <1>1, <1>2, LookingThinks

\* What is listed is there, in the version listed.
LEMMA ListThinks ==
  ASSUME Shape, NEW w \in Worker, NEW S \in SUBSET In(work[w].target), NEW complete \in BOOLEAN,
         List(w, S, complete)
  PROVE  Thinks(w)
<1> DEFINE listed == [f \in File |-> IF f \in S THEN remote[f].version ELSE 0]
           t == [work[w] EXCEPT !.phase = "plan", !.complete = complete, !.folder = None, !.target = None,
                                !.cached = FALSE, !.listed = listed]
<1>1. work[w] \in WorkFit /\ work[w] \in WorkState /\ work[w].phase = "list"
  BY DEF Shape, WorkFit, List
<1>2. /\ listed \in [File -> 0..MaxVersion]
      /\ \A f \in File : /\ listed[f] <= remote[f].version
                         /\ listed[f] # 0 => listed[f] = remote[f].version
  BY SyncAssumption DEF Shape, Version
<1>3. work' = [work EXCEPT ![w] = t]
  BY DEF List
<1> HIDE DEF listed
<1>4. /\ t \in WorkState /\ t.phase = "plan" /\ t.listed = listed
      /\ t.run = work[w].run /\ t.arm = work[w].arm /\ t.reset = work[w].reset
      /\ t.todo = work[w].todo /\ t.outcome = work[w].outcome
  BY <1>1, <1>2 DEF WorkState, RunPhase
<1> HIDE DEF t
<1>5. t \in WorkFit
  BY <1>1, <1>4 DEF WorkFit, RunPhase, FilePhase
<1>6. Follows(work[w], t)
  BY <1>1, <1>4 DEF Follows, RunPhase, FilePhase
<1>7. NothingAhead /\ Agrees(work[w]) => Agrees(t)
  <2>1. t.arm = {}
    BY <1>4, <1>5 DEF WorkFit
  <2>2. ASSUME NothingAhead, NEW f \in File, t.listed[f] # 0 PROVE file[f].tags <= t.listed[f]
    <3>1. t.listed[f] = remote[f].version
      BY <1>2, <1>4, <2>2
    <3> QED
      BY <2>2, <3>1 DEF NothingAhead
  <2>3. NothingAhead => Advances(t)
    BY <1>4, <2>1, <2>2 DEF Advances
  <2> QED
    BY <1>1, <1>2, <1>4, <2>1, <2>3 DEF Agrees, RunPhase, FilePhase
<1> QED
  BY <1>3, <1>5, <1>6, <1>7 DEF Thinks

\* A file is armed without a new budget only while it has one.
LEMMA PlanThinks ==
  ASSUME Shape, NEW w \in Worker, Plan(w)
  PROVE  Thinks(w)
<1> DEFINE listed  == {f \in File : work[w].listed[f] # 0}
           tracked == {f \in File : file[f].state = "ACTIVE"}
           new     == listed \ tracked
           changed == {f \in listed \cap tracked : file[f].tags # work[w].listed[f]}
           retry   == {f \in (listed \cap tracked) \ changed : NeedsRetry(file[f])}
           gone    == IF work[w].complete THEN tracked \ listed ELSE {}
           t == [work[w] EXCEPT !.phase = IF gone = {} THEN "arm" ELSE "withdraw",
                                !.gone = gone, !.arm = new \cup changed \cup retry,
                                !.reset = new \cup changed]
<1>1. work[w] \in WorkFit /\ work[w] \in WorkState /\ work[w].phase = "plan"
  BY DEF Shape, WorkFit, Plan
<1>2. work' = [work EXCEPT ![w] = t]
  BY DEF Plan
<1>3. /\ gone \in SUBSET File /\ new \in SUBSET File /\ changed \in SUBSET File /\ retry \in SUBSET File
      /\ \A f \in retry : NeedsRetry(file[f])
      /\ \A f \in new : file[f].state # "ACTIVE"
      /\ \A f \in changed : file[f].tags # work[w].listed[f]
      /\ \A f \in new \cup changed \cup retry : work[w].listed[f] # 0
      /\ \A f \in gone : file[f].state = "ACTIVE"
  OBVIOUS
<1> HIDE DEF listed, tracked, new, changed, retry, gone
<1>4. /\ t \in WorkState /\ t.phase \in {"arm", "withdraw"}
      /\ t.arm = new \cup changed \cup retry /\ t.reset = new \cup changed
      /\ t.run = work[w].run /\ t.listed = work[w].listed /\ t.gone = gone
      /\ t.todo = work[w].todo /\ t.outcome = work[w].outcome
  BY <1>1, <1>3 DEF WorkState, RunPhase
<1> HIDE DEF t
<1>5. Budget => \A f \in t.arm \ t.reset : file[f].attempts < MAX_FILE_ATTEMPTS
  BY <1>3, <1>4 DEF NeedsRetry, Budget
<1>6. t \in WorkFit
  BY <1>1, <1>4 DEF WorkFit, RunPhase, FilePhase
<1>7. Follows(work[w], t)
  BY <1>1, <1>4 DEF Follows, RunPhase, FilePhase
<1>8. \A f \in t.arm : t.listed[f] # 0 /\ (StageOf(file[f]) = "mirrored" => file[f].tags # t.listed[f])
  <2>1. ASSUME NEW f \in t.arm, StageOf(file[f]) = "mirrored" PROVE file[f].tags # t.listed[f]
    <3>1. f \in File /\ file[f] \in FileShape
      BY <1>3, <1>4 DEF Shape
    <3>2. file[f].state = "ACTIVE" /\ file[f].status = "COMPLETED"
      BY <2>1, <3>1, Stages
    <3> QED
      BY <1>3, <1>4, <3>2 DEF NeedsRetry
  <2> QED
    BY <1>3, <1>4, <2>1
<1>9. Agrees(work[w]) => Advances(t)
  BY <1>1, <1>3, <1>4, <1>8 DEF Agrees, Advances
<1>10. Budget /\ Agrees(work[w]) => Agrees(t)
  BY <1>1, <1>4, <1>5, <1>9 DEF Agrees, RunPhase, FilePhase
<1> QED
  BY <1>2, <1>6, <1>7, <1>10 DEF Thinks

\* From file to file.
LEMMA NextThinks ==
  ASSUME Shape, NEW w \in Worker, (\E f \in File : NextFile(w, f)) \/ NoMoreFiles(w)
  PROVE  Thinks(w)
<1>1. work[w] \in WorkFit /\ work[w] \in WorkState
  BY DEF Shape, WorkFit
<1>2. ASSUME NEW f \in File, NextFile(w, f), source.status = "ACTIVE"
      PROVE  Thinks(w)
  <2> DEFINE t == [work[w] EXCEPT !.phase = "begin", !.file = f, !.todo = @ \ {f}]
  <2>1. work' = [work EXCEPT ![w] = t] /\ work[w].phase = "next" /\ f \in work[w].todo
    BY <1>2 DEF NextFile
  <2>2. /\ t \in WorkState /\ t.phase = "begin" /\ t.file = f /\ t.todo = work[w].todo \ {f}
        /\ t.run = work[w].run /\ t.listed = work[w].listed /\ t.arm = work[w].arm
        /\ t.outcome = work[w].outcome
    BY <1>1 DEF WorkState, RunPhase, FilePhase
  <2> HIDE DEF t
  <2>3. t \in WorkFit
    BY <1>1, <2>1, <2>2 DEF WorkFit, RunPhase, FilePhase
  <2>4. Follows(work[w], t)
    BY <2>1, <2>2 DEF Follows, RunPhase, FilePhase
  <2>5. Agrees(work[w]) => Agrees(t)
    BY <1>1, <2>1, <2>2 DEF Agrees, Advances, WorkFit, RunPhase, FilePhase
  <2> QED
    BY <2>1, <2>3, <2>4, <2>5 DEF Thinks
<1>3. ASSUME NEW f \in File, NextFile(w, f), source.status # "ACTIVE"
      PROVE  Thinks(w)
  <2>1. InRun(w) /\ FinishAs(w, "FAILED")
    BY <1>3 DEF NextFile, InRun, RunPhase
  <2> QED
    BY <2>1, FinishAsThinks DEF Ended
<1>4. CASE NoMoreFiles(w)
  <2> DEFINE o == IF work[w].complete THEN work[w].outcome ELSE "PARTIAL"
  <2>1. /\ InRun(w) /\ FinishAs(w, o) /\ work[w].phase = "next"
        /\ o = "COMPLETED" => work[w].outcome = "COMPLETED"
    BY <1>4 DEF NoMoreFiles, InRun, RunPhase
  <2>2. o \in Ended
    BY <1>1 DEF WorkState, Ended
  <2> HIDE DEF o
  <2> QED
    BY <2>1, <2>2, FinishAsThinks
<1> QED
  BY <1>2, <1>3, <1>4

\* A worker ends its run, or its process.
LEMMA EndThinks ==
  ASSUME Shape, NEW w \in Worker, Stop(w) \/ Crash(w) \/ work' = [work EXCEPT ![w] = Loop("dead")]
  PROVE  Thinks(w)
<1>1. Loop("dead").run = None /\ Loop("dead").phase = "dead"
  BY DEF Loop
<1>2. ASSUME work' = [work EXCEPT ![w] = Loop("dead")]
      PROVE  Thinks(w)
  BY <1>1, <1>2, LoopFits, LoopAgrees DEF Thinks, Follows, RunPhase, FilePhase
<1>3. ASSUME InRun(w), work' = [work EXCEPT ![w] = [Loop("release") EXCEPT !.run = work[w].run]]
      PROVE  Thinks(w)
  <2> DEFINE t == [Loop("release") EXCEPT !.run = work[w].run]
  <2>1. work[w].run \in Run
    BY <1>3 DEF Shape, WorkFit, InRun
  <2>2. t \in WorkFit /\ Agrees(t)
    BY <2>1, LoopFits, LoopAgrees
  <2>3. t.run = work[w].run /\ t.phase = "release"
    BY DEF Loop
  <2>4. work' = [work EXCEPT ![w] = t]
    BY <1>3
  <2> HIDE DEF t
  <2> QED
    BY <2>2, <2>3, <2>4 DEF Thinks, Follows, RunPhase, FilePhase
<1> QED
  BY <1>2, <1>3 DEF Stop, Crash

\* A registry call fails.
LEMMA FaultThinks ==
  ASSUME Shape, NEW w \in Worker, RegistryFault(w)
  PROVE  Thinks(w)
<1>1. work[w] \in WorkFit /\ work[w] \in WorkState
  BY DEF Shape, WorkFit
<1>2. CASE InRun(w) /\ FinishAs(w, "FAILED")
  BY <1>2, FinishAsThinks DEF Ended
<1>3. CASE work[w].phase = "cache" /\ Goto(w, "list")
  <2> DEFINE t == [work[w] EXCEPT !.phase = "list"]
  <2>1. /\ t \in WorkState /\ t.phase = "list"
        /\ t.run = work[w].run /\ t.listed = work[w].listed /\ t.arm = work[w].arm
        /\ t.reset = work[w].reset /\ t.todo = work[w].todo /\ t.outcome = work[w].outcome
    BY <1>1 DEF WorkState, RunPhase
  <2>2. work' = [work EXCEPT ![w] = t]
    BY <1>3 DEF Goto
  <2> HIDE DEF t
  <2> QED
    BY <1>3, <2>1, <2>2, LookingThinks
<1>4. CASE Leave(w)
  BY <1>4, LeaveThinks
<1> QED
  BY <1>2, <1>3, <1>4 DEF RegistryFault, InRun, RunPhase, FilePhase

\* What is downloaded is at least as late as what was listed.
LEMMA DownloadThinks ==
  ASSUME Shape, NEW w \in Worker, Download(w)
  PROVE  Thinks(w) /\ UNCHANGED file
<1> DEFINE f == work[w].file
           t == [work[w] EXCEPT !.phase = "persist", !.content = remote[f].version]
<1>1. work[w] \in WorkFit /\ work[w] \in WorkState /\ work[w].phase = "download"
  BY DEF Shape, WorkFit, Download
<1>2. f \in File /\ remote[f].version \in 0..MaxVersion
  BY <1>1, SyncAssumption DEF Shape, WorkFit, FilePhase, Version
<1>3. CASE Leave(w) /\ UNCHANGED file
  BY <1>3, LeaveThinks
<1>4. CASE PutFile(f, file[f]) /\ work' = [work EXCEPT ![w].phase = "persist", ![w].content = remote[f].version]
  <2>1. UNCHANGED file
    BY <1>2, <1>4 DEF PutFile, Shape
  <2>2. work' = [work EXCEPT ![w] = t]
    BY <1>4
  <2>3. /\ t \in WorkState /\ t.phase = "persist" /\ t.content = remote[f].version /\ t.file = f
        /\ t.todo = work[w].todo /\ t.run = work[w].run /\ t.listed = work[w].listed
        /\ t.arm = work[w].arm /\ t.outcome = work[w].outcome
    BY <1>1, <1>2 DEF WorkState, RunPhase, FilePhase
  <2> HIDE DEF t
  <2>4. t \in WorkFit
    BY <1>1, <1>2, <2>3 DEF WorkFit, RunPhase, FilePhase
  <2>5. Follows(work[w], t)
    BY <1>1, <2>3 DEF Follows, RunPhase, FilePhase
  <2>6. NothingAhead /\ Agrees(work[w]) => Agrees(t)
    BY <1>1, <1>2, <2>3 DEF Agrees, Advances, NothingAhead, WorkFit, RunPhase, FilePhase
  <2> QED
    BY <2>1, <2>2, <2>4, <2>5, <2>6 DEF Thinks
<1> QED
  BY <1>3, <1>4 DEF Download, UpdateOrAbandon

\* The file at hand is done with.
Done(s, o) == [s EXCEPT !.phase = "progress", !.file = None, !.content = 0, !.outcome = o]

LEMMA DoneFits ==
  ASSUME NEW s \in WorkFit, s.phase \in FilePhase, NEW o \in Ended
  PROVE  /\ Done(s, o) \in WorkFit /\ Done(s, o).phase = "progress" /\ Done(s, o).outcome = o
         /\ Done(s, o).run = s.run /\ Done(s, o).todo = s.todo /\ Done(s, o).listed = s.listed
         /\ Done(s, o).arm = {}
<1> DEFINE t == Done(s, o)
<1>1. s \in WorkState /\ s.run \in Run /\ s.arm = {} /\ "progress" \in RunPhase /\ 0 \in 0..MaxVersion
  BY SyncAssumption DEF WorkFit, FilePhase, RunPhase
<1>2. t \in WorkState
  BY <1>1 DEF WorkState, Done
<1>3. /\ t.phase = "progress" /\ t.outcome = o /\ t.run = s.run /\ t.todo = s.todo
      /\ t.listed = s.listed /\ t.arm = {}
  BY <1>1 DEF WorkState, Done
<1> HIDE DEF t
<1>4. t \in WorkFit
  BY <1>1, <1>2, <1>3 DEF WorkFit, RunPhase, FilePhase
<1> QED
  BY <1>3, <1>4 DEF t

-----------------------------------------------------------------------------
(* Runs, their workers and their files.                                       *)

\* The runs are as they were, but for their heartbeats.
SameRuns ==
  /\ run' \in [Run -> RunRow]
  /\ \A r \in Run : run'[r].status = run[r].status /\ run'[r].owner = run[r].owner

\* Two workers never remember the same run.
LEMMA RunIsOnes ==
  ASSUME Shape, RunsKept, NEW v \in Worker, NEW w \in Worker, work[v].run # None,
         work[v].run = work[w].run
  PROVE  v = w
BY DEF RunsKept

\* A step of nobody's: workers, runs and who a file belongs to stay as they are, and no
\* file of a run becomes unfinished.
LEMMA OthersKeep ==
  ASSUME RunInv, Shape', SameRuns, UNCHANGED work, CacheIsOfThisLocation',
         \A f \in File : file'[f].run = file[f].run,
         \A f \in File, r \in Run : Unfinished(f, r)' => Unfinished(f, r)
  PROVE  RunInv'
<1> USE DEF RunInv
<1>1. /\ \A w \in Worker : work[w].run # None => work[w].run \in Run
      /\ \A w \in Worker : InRun(w) => work[w].run \in Run
      /\ \A f \in File : file[f].run # None => file[f].run \in Run
  BY DEF Shape, WorkFit, WorkState, FileShape, InRun
<1>2. RunsKept'
  BY <1>1 DEF SameRuns, RunsKept
<1>3. NoneLeft'
  BY <1>1 DEF NoneLeft, InRun
<1>4. CompletedRunIsClean'
  BY <1>1 DEF SameRuns, CompletedRunIsClean, Unfinished
<1> QED
  BY <1>2, <1>3, <1>4

\* A step of w, which takes up no other run.  Only files of its run may become unfinished,
\* and none but the one w is at unless w has seen a failure.
LEMMA WorkerKeeps ==
  ASSUME RunInv, Shape', SameRuns, CacheIsOfThisLocation', NEW w \in Worker, NEW t \in WorkFit,
         work' = [work EXCEPT ![w] = t],
         t.run \in {work[w].run, None},
         t.phase \in RunPhase => InRun(w) /\ t.run = work[w].run,
         \A f \in File : file'[f].run = file[f].run \/ (InRun(w) /\ file'[f].run = work[w].run),
         \A f \in File, r \in Run : Unfinished(f, r)' => Unfinished(f, r) \/ (InRun(w) /\ r = work[w].run),
         t.phase \in RunPhase /\ t.outcome = "COMPLETED" =>
           \A f \in File : Unfinished(f, t.run)' => t.phase \in {"download", "persist"} /\ t.file = f
  PROVE  RunInv'
<1> USE DEF RunInv
<1>1. /\ \A v \in Worker : work[v].run # None => work[v].run \in Run
      /\ \A v \in Worker : InRun(v) => work[v].run \in Run /\ work[v].run # None
      /\ \A f \in File : file[f].run # None => file[f].run \in Run
  BY SyncAssumption DEF Shape, WorkFit, WorkState, FileShape, InRun
<1>2. work'[w] = t /\ \A v \in Worker \ {w} : work'[v] = work[v]
  BY DEF Shape
<1>3. InRun(w) => run[work[w].run].status \in {"RUNNING", "FAILED"}
  BY <1>1 DEF RunsKept
<1>4. RunsKept'
  <2>1. \A v \in Worker : work'[v].run # None =>
          run'[work'[v].run].owner = v /\ run'[work'[v].run].status \in {"RUNNING", "FAILED"}
    BY <1>1, <1>2 DEF SameRuns, RunsKept
  <2>2. \A f \in File : file'[f].run # None => run'[file'[f].run].status # "QUEUED"
    BY <1>1, <1>3 DEF SameRuns, RunsKept
  <2> QED
    BY <2>1, <2>2 DEF SameRuns, RunsKept
<1>5. NoneLeft'
  <2> SUFFICES ASSUME NEW v \in Worker, InRun(v)', work'[v].outcome = "COMPLETED",
                      NEW f \in File, Unfinished(f, work[v].run)'
               PROVE  work'[v].phase \in {"download", "persist"} /\ work'[v].file = f
    BY <1>1, <1>2 DEF NoneLeft, InRun, Unfinished
  <2>1. CASE v = w
    BY <1>2, <2>1 DEF InRun
  <2>2. CASE v # w
    <3>1. work'[v] = work[v] /\ InRun(v)
      BY <1>2, <2>2 DEF InRun
    <3>2. InRun(w) => work[v].run # work[w].run
      BY <1>1, <2>2, <3>1, RunIsOnes
    <3>3. Unfinished(f, work[v].run)
      BY <1>1, <3>1, <3>2
    <3> QED
      BY <3>1, <3>3 DEF NoneLeft
  <2> QED
    BY <2>1, <2>2
<1>6. CompletedRunIsClean'
  <2> SUFFICES ASSUME NEW f \in File, NEW r \in Run, Unfinished(f, r)', run'[r].status = "COMPLETED"
               PROVE  FALSE
    BY DEF CompletedRunIsClean, Unfinished, Shape, FileShape
  <2>1. run[r].status = "COMPLETED"
    BY DEF SameRuns
  <2>2. Unfinished(f, r)
    BY <1>3, <2>1
  <2> QED
    BY <2>1, <2>2, SyncAssumption DEF Unfinished, CompletedRunIsClean
<1> QED
  BY <1>4, <1>5, <1>6

\* A step that changes a worker's memory, the source or heartbeats.
LEMMA ThinkKeeps ==
  ASSUME RunInv, NEW w \in Worker, Thinks(w), SameRuns, source' \in Source, CacheIsOfThisLocation',
         UNCHANGED <<file, remote, req>>
  PROVE  RunInv'
<1>1. PICK t \in WorkFit : work' = [work EXCEPT ![w] = t] /\ Follows(work[w], t)
  BY DEF Thinks
<1>2. Shape'
  BY <1>1 DEF RunInv, Shape, SameRuns
<1>3. \A f \in File, r \in Run : Unfinished(f, r)' <=> Unfinished(f, r)
  BY DEF Unfinished
<1>4. t.phase \in RunPhase => InRun(w) /\ t.run = work[w].run
  BY <1>1 DEF Follows, InRun
<1>5. ASSUME t.phase \in RunPhase, t.outcome = "COMPLETED", NEW f \in File, Unfinished(f, t.run)'
      PROVE  t.phase \in {"download", "persist"} /\ t.file = f
  <2>1. InRun(w) /\ work[w].outcome = "COMPLETED" /\ Unfinished(f, work[w].run)
    BY <1>1, <1>4, <1>5 DEF Follows, Unfinished
  <2>2. work[w].phase \in {"download", "persist"} /\ work[w].file = f
    BY <2>1 DEF RunInv, NoneLeft
  <2> QED
    BY <1>1, <1>5, <2>2 DEF Follows
<1>6. t.run \in {work[w].run, None}
  BY <1>1 DEF Follows
<1>7. \A f \in File : file'[f].run = file[f].run \/ (InRun(w) /\ file'[f].run = work[w].run)
  OBVIOUS
<1>8. \A f \in File, r \in Run : Unfinished(f, r)' => Unfinished(f, r) \/ (InRun(w) /\ r = work[w].run)
  BY <1>3
<1>9. t.phase \in RunPhase /\ t.outcome = "COMPLETED" =>
        \A f \in File : Unfinished(f, t.run)' => t.phase \in {"download", "persist"} /\ t.file = f
  BY <1>5
<1> QED
  BY <1>1, <1>2, <1>4, <1>6, <1>7, <1>8, <1>9, WorkerKeeps

\* What Interrupt does to the files.
LEMMA InterruptShape ==
  ASSUME Shape, NEW r \in Run, Interrupt(r)
  PROVE  /\ file' \in [File -> FileShape]
         /\ \A f \in File : file'[f].run = file[f].run
         /\ \A f \in File : file'[f].status =
              IF file[f].run = r /\ file[f].status = "PROCESSING" THEN "FAILED" ELSE file[f].status
         /\ \A f \in File : /\ file'[f].state = file[f].state /\ file'[f].attempts = file[f].attempts
                             /\ file'[f].tags = file[f].tags /\ file'[f].entities = file[f].entities
<1>1. file' = [f \in File |-> IF file[f].run = r /\ file[f].status = "PROCESSING"
                              THEN [file[f] EXCEPT !.status = "FAILED"] ELSE file[f]]
  BY DEF Interrupt, InFlight
<1>2. \A f \in File : file[f] \in FileShape
  BY DEF Shape
<1>3. ASSUME NEW f \in File
      PROVE  LET s == [file[f] EXCEPT !.status = "FAILED"]
             IN  /\ s \in FileShape /\ s.run = file[f].run /\ s.status = "FAILED" /\ s.state = file[f].state
                 /\ s.attempts = file[f].attempts /\ s.tags = file[f].tags /\ s.entities = file[f].entities
  BY <1>2 DEF FileShape
<1> QED
  BY <1>1, <1>2, <1>3

\* An interrupted run is FAILED, and so is the file it was at.
LEMMA InterruptKeeps ==
  ASSUME RunInv, NEW r \in Run, run[r].status = "RUNNING", Interrupt(r), UNCHANGED <<source, remote, req>>,
         UNCHANGED work \/ \E w \in Worker : work' = [work EXCEPT ![w] = Loop("dead")]
  PROVE  RunInv'
<1> USE DEF RunInv
<1>1. Loop("dead") \in WorkFit /\ Loop("dead").phase = "dead" /\ Loop("dead").run = None
  <2>1. Loop("dead").phase = "dead" /\ Loop("dead").run = None
    BY DEF Loop
  <2> QED
    BY <2>1, LoopFits
<1>2. \A w \in Worker : work'[w] = work[w] \/ (work'[w].run = None /\ ~InRun(w)')
  <2>1. CASE UNCHANGED work
    BY <2>1
  <2>2. ASSUME NEW v \in Worker, work' = [work EXCEPT ![v] = Loop("dead")]
        PROVE  \A w \in Worker : work'[w] = work[w] \/ (work'[w].run = None /\ ~InRun(w)')
    <3>1. work'[v] = Loop("dead") /\ \A w \in Worker \ {v} : work'[w] = work[w]
      BY <2>2 DEF Shape
    <3>2. work'[v].run = None /\ ~InRun(v)'
      BY <1>1, <3>1 DEF InRun, RunPhase, FilePhase
    <3> QED
      BY <3>1, <3>2
  <2> QED
    BY <2>1, <2>2
<1>3. /\ \A q \in Run : run'[q].owner = run[q].owner
      /\ \A q \in Run : run'[q].status = IF q = r THEN "FAILED" ELSE run[q].status
      /\ run' \in [Run -> RunRow]
  BY DEF Interrupt, Shape, RunRow, Ended
<1>4. /\ file' \in [File -> FileShape]
      /\ \A f \in File : file'[f].run = file[f].run
      /\ \A f \in File : file'[f].status =
                           IF file[f].run = r /\ file[f].status = "PROCESSING" THEN "FAILED" ELSE file[f].status
  BY InterruptShape
<1>5. work' \in [Worker -> WorkFit]
  BY <1>1 DEF Shape
<1>6. Shape'
  BY <1>3, <1>4, <1>5 DEF Shape
<1>7. /\ \A w \in Worker : work[w].run # None => work[w].run \in Run
      /\ \A w \in Worker : InRun(w) => work[w].run \in Run
      /\ \A f \in File : file[f].run # None => file[f].run \in Run
  BY DEF Shape, WorkFit, WorkState, FileShape, InRun
<1>8. RunsKept'
  <2>1. \A w \in Worker : work'[w].run # None =>
          run'[work'[w].run].owner = w /\ run'[work'[w].run].status \in {"RUNNING", "FAILED"}
    BY <1>2, <1>3, <1>7 DEF RunsKept
  <2>2. \A f \in File : file'[f].run # None => run'[file'[f].run].status # "QUEUED"
    BY <1>3, <1>4, <1>7 DEF RunsKept
  <2>3. \A p, q \in Run : run'[p].status \in ActiveRun /\ run'[q].status \in ActiveRun => p = q
    BY <1>3 DEF RunsKept, ActiveRun
  <2> QED
    BY <2>1, <2>2, <2>3 DEF RunsKept
<1>9. NoneLeft'
  <2>1. \A f \in File, q \in Run : Unfinished(f, q)' => Unfinished(f, q)
    BY <1>4 DEF Unfinished
  <2> QED
    BY <1>2, <1>7, <2>1 DEF NoneLeft, InRun
<1>10. CompletedRunIsClean'
  BY <1>3, <1>4, <1>7 DEF CompletedRunIsClean
<1>11. CacheIsOfThisLocation'
  BY DEF CacheIsOfThisLocation
<1> QED
  BY <1>6, <1>8, <1>9, <1>10, <1>11

\* A run that nobody refers to changes.
LEMMA UnusedKeeps ==
  ASSUME RunInv, NEW r \in Run, NEW row \in RunRow, run' = [run EXCEPT ![r] = row],
         \A f \in File : file[f].run # r,
         \A w \in Worker : work[w].run # r,
         row.status \in ActiveRun => \A q \in Run : run[q].status \in ActiveRun => q = r,
         UNCHANGED <<source, file, remote, work>>, req' \in [Client -> ReqFit]
  PROVE  RunInv'
<1> USE DEF RunInv
<1>1. run' \in [Run -> RunRow] /\ run'[r] = row /\ \A q \in Run \ {r} : run'[q] = run[q]
  BY DEF Shape
<1>2. Shape'
  BY <1>1 DEF Shape
<1>3. /\ \A w \in Worker : work[w].run # None => work[w].run \in Run
      /\ \A f \in File : file[f].run # None => file[f].run \in Run
  BY DEF Shape, WorkFit, WorkState, FileShape
<1>4. RunsKept'
  BY <1>1, <1>3 DEF RunsKept
<1>5. NoneLeft'
  BY DEF NoneLeft, InRun, Unfinished
<1>6. CompletedRunIsClean'
  BY <1>1, <1>3 DEF CompletedRunIsClean
<1>7. CacheIsOfThisLocation'
  BY DEF CacheIsOfThisLocation
<1> QED
  BY <1>2, <1>4, <1>5, <1>6, <1>7

-----------------------------------------------------------------------------
(* The steps that write a file.                                               *)

\* w's memory becomes t and the file f becomes row, in the run w was in.
Writes(w, t, f, row) ==
  /\ work' = [work EXCEPT ![w] = t] /\ file' = [file EXCEPT ![f] = row]
  /\ f \in File /\ row \in FileShape /\ InRun(w)
  /\ t.phase \in RunPhase /\ t.run = work[w].run
  /\ t.outcome = "COMPLETED" => work[w].outcome = "COMPLETED"
  /\ t.listed = work[w].listed

LEMMA ArmWrites ==
  ASSUME Shape, NEW w \in Worker, NEW f \in File, Arm(w, f)
  PROVE  \E t \in WorkFit, row \in FileShape :
           /\ Writes(w, t, f, row)
           /\ work[w].phase = "arm" /\ f \in work[w].arm /\ t.phase = "arm"
           /\ t.arm = work[w].arm \ {f} /\ t.reset = work[w].reset /\ t.todo = work[w].todo \cup {f}
           /\ row.state = "ACTIVE" /\ row.status = "PENDING" /\ row.tags = work[w].listed[f]
           /\ row.attempts = IF f \in work[w].reset THEN 0 ELSE file[f].attempts
           /\ row.run \in {file[f].run, work[w].run} /\ row.entities = file[f].entities
<1> DEFINE armed == ArmedRow(file[f], work[w].listed[f], f \in work[w].reset)
           row == IF file[f].state = "ABSENT" THEN [armed EXCEPT !.run = work[w].run] ELSE armed
           t == [work[w] EXCEPT !.arm = @ \ {f}, !.todo = @ \cup {f}]
<1>1. /\ work[w] \in WorkFit /\ work[w] \in WorkState /\ work[w].phase = "arm" /\ f \in work[w].arm
      /\ work[w].run \in Run /\ InRun(w)
  BY DEF Shape, WorkFit, Arm, RunPhase, FilePhase, InRun
<1>2. file[f] \in FileShape /\ work[w].listed[f] \in 0..MaxVersion
  BY <1>1 DEF Shape, WorkState
<1>3. /\ armed \in FileShape /\ armed.run = file[f].run /\ armed.state = "ACTIVE" /\ armed.status = "PENDING"
      /\ armed.tags = work[w].listed[f] /\ armed.entities = file[f].entities
      /\ armed.attempts = IF f \in work[w].reset THEN 0 ELSE file[f].attempts
  BY <1>2 DEF ArmedRow, FileShape
<1>4. work' = [work EXCEPT ![w] = t] /\ PutFile(f, row)
  BY DEF Arm
<1> HIDE DEF armed
<1>5. /\ row \in FileShape /\ row.run \in {file[f].run, work[w].run} /\ row.state = "ACTIVE"
      /\ row.status = "PENDING" /\ row.tags = armed.tags /\ row.entities = armed.entities
      /\ row.attempts = armed.attempts
  BY <1>1, <1>3 DEF FileShape
<1>6. /\ t \in WorkState /\ t.phase = "arm" /\ t.arm = work[w].arm \ {f} /\ t.todo = work[w].todo \cup {f}
      /\ t.reset = work[w].reset /\ t.run = work[w].run /\ t.outcome = work[w].outcome
      /\ t.listed = work[w].listed
  BY <1>1 DEF WorkState
<1> HIDE DEF row, t
<1>7. t \in WorkFit
  BY <1>1, <1>6 DEF WorkFit, RunPhase, FilePhase
<1>8. Writes(w, t, f, row)
  BY <1>1, <1>4, <1>5, <1>6 DEF Writes, PutFile, RunPhase
<1> QED
  BY <1>1, <1>3, <1>5, <1>6, <1>7, <1>8

\* A file that is begun, or cannot be and counts as a failure.
LEMMA BeginWrites ==
  ASSUME Shape, NEW w \in Worker, Begin(w)
  PROVE  \/ Thinks(w) /\ UNCHANGED file
         \/ \E t \in WorkFit, f \in File, row \in FileShape :
              /\ Writes(w, t, f, row)
              /\ work[w].phase = "begin" /\ work[w].file = f /\ t.phase = "download" /\ t.file = f
              /\ t.todo = work[w].todo /\ f \notin t.todo /\ t.arm = {}
              /\ file[f].state = "ACTIVE" /\ row.state = "ACTIVE" /\ row.status = "PROCESSING"
              /\ row.run = work[w].run /\ row.attempts = file[f].attempts + 1
              /\ row.tags = file[f].tags /\ row.entities = file[f].entities
<1> DEFINE f == work[w].file
           row == [file[f] EXCEPT !.status = "PROCESSING", !.run = work[w].run, !.attempts = @ + 1]
           t == [work[w] EXCEPT !.phase = "download"]
<1>1. /\ work[w] \in WorkFit /\ work[w] \in WorkState /\ work[w].phase = "begin"
      /\ f \in File /\ f \notin work[w].todo /\ work[w].run \in Run /\ work[w].arm = {} /\ InRun(w)
  BY DEF Shape, WorkFit, Begin, FilePhase, RunPhase, InRun
<1>2. CASE FileDone(w, "PARTIAL") /\ UNCHANGED file
  <2> DEFINE u == Done(work[w], "PARTIAL")
  <2>1. /\ u \in WorkFit /\ u.phase = "progress" /\ u.outcome = "PARTIAL" /\ u.run = work[w].run
        /\ u.todo = work[w].todo /\ u.listed = work[w].listed /\ u.arm = {}
    BY <1>1, DoneFits DEF FilePhase, Ended
  <2>2. work' = [work EXCEPT ![w] = u]
    BY <1>2 DEF FileDone, Done
  <2> HIDE DEF u
  <2>3. Follows(work[w], u)
    BY <1>1, <2>1 DEF Follows, RunPhase, FilePhase
  <2>4. Agrees(work[w]) => Agrees(u)
    BY <1>1, <2>1 DEF Agrees, Advances, RunPhase, FilePhase
  <2> QED
    BY <1>2, <2>1, <2>2, <2>3, <2>4 DEF Thinks
<1>3. CASE /\ file[f].state = "ACTIVE" /\ PutFile(f, row) /\ Goto(w, "download")
  <2>1. file[f] \in FileShape /\ file[f].attempts + 1 \in Nat
    BY <1>1 DEF Shape, FileShape
  <2>2. /\ row \in FileShape /\ row.state = "ACTIVE" /\ row.status = "PROCESSING" /\ row.run = work[w].run
        /\ row.attempts = file[f].attempts + 1 /\ row.tags = file[f].tags /\ row.entities = file[f].entities
    BY <1>1, <1>3, <2>1 DEF FileShape
  <2>3. /\ t \in WorkState /\ t.phase = "download" /\ t.file = f /\ t.todo = work[w].todo /\ t.arm = {}
        /\ t.run = work[w].run /\ t.outcome = work[w].outcome /\ t.listed = work[w].listed
    BY <1>1 DEF WorkState, RunPhase, FilePhase
  <2>4. work' = [work EXCEPT ![w] = t] /\ file' = [file EXCEPT ![f] = row]
    BY <1>3 DEF Goto, PutFile
  <2> HIDE DEF row, t
  <2>5. t \in WorkFit
    BY <1>1, <2>3 DEF WorkFit, RunPhase, FilePhase
  <2>6. Writes(w, t, f, row)
    BY <1>1, <2>2, <2>3, <2>4 DEF Writes, RunPhase, FilePhase
  <2> QED
    BY <1>1, <1>3, <2>2, <2>3, <2>5, <2>6
<1> QED
  BY <1>2, <1>3 DEF Begin

\* The end of a file: COMPLETED with what was extracted, or FAILED and counted.
LEMMA EndFileWrites ==
  ASSUME Shape, NEW w \in Worker, Persist(w) \/ FailFile(w)
  PROVE  \/ Thinks(w) /\ UNCHANGED file
         \/ \E t \in WorkFit, f \in File, row \in FileShape :
              /\ Writes(w, t, f, row)
              /\ work[w].phase \in {"download", "persist"} /\ work[w].file = f /\ t.phase = "progress"
              /\ t.todo = work[w].todo /\ f \notin t.todo /\ t.arm = {}
              /\ file[f].status = "PROCESSING" /\ row.state = file[f].state /\ row.run = file[f].run
              /\ row.attempts = file[f].attempts /\ row.tags = file[f].tags
              /\ \/ /\ work[w].phase = "persist" /\ row.status = "COMPLETED"
                    /\ row.state = "ACTIVE" /\ row.entities = work[w].content
                 \/ /\ row.status = "FAILED" /\ row.entities = file[f].entities /\ t.outcome = "PARTIAL"
<1> DEFINE f == work[w].file
           done == [file[f] EXCEPT !.status = "COMPLETED", !.entities = work[w].content]
           failed == [file[f] EXCEPT !.status = "FAILED"]
<1>1. /\ work[w] \in WorkFit /\ work[w] \in WorkState /\ work[w].phase \in {"download", "persist"}
      /\ f \in File /\ f \notin work[w].todo /\ work[w].run \in Run /\ work[w].arm = {} /\ InRun(w)
  BY DEF Shape, WorkFit, Persist, FailFile, FilePhase, RunPhase, InRun
<1>2. file[f] \in FileShape /\ work[w].content \in 0..MaxVersion /\ work[w].outcome \in Ended
  BY <1>1 DEF Shape, WorkState
<1>3. /\ done \in FileShape /\ done.status = "COMPLETED" /\ done.entities = work[w].content
      /\ done.state = file[f].state /\ done.run = file[f].run /\ done.attempts = file[f].attempts
      /\ done.tags = file[f].tags
  BY <1>2 DEF FileShape
<1>4. /\ failed \in FileShape /\ failed.status = "FAILED" /\ failed.entities = file[f].entities
      /\ failed.state = file[f].state /\ failed.run = file[f].run /\ failed.attempts = file[f].attempts
      /\ failed.tags = file[f].tags
  BY <1>2 DEF FileShape
<1> HIDE DEF done, failed
<1>5. ASSUME NEW row \in FileShape, NEW o \in Ended, PutFile(f, row), FileDone(w, o),
             o = "COMPLETED" => work[w].outcome = "COMPLETED"
      PROVE  \E t \in WorkFit :
               /\ Writes(w, t, f, row) /\ t.phase = "progress" /\ t.todo = work[w].todo /\ t.arm = {}
               /\ t.outcome = o
  <2> DEFINE t == Done(work[w], o)
  <2>1. /\ t \in WorkFit /\ t.phase = "progress" /\ t.outcome = o /\ t.run = work[w].run
        /\ t.todo = work[w].todo /\ t.listed = work[w].listed /\ t.arm = {}
    BY <1>1, DoneFits DEF FilePhase
  <2>2. work' = [work EXCEPT ![w] = t]
    BY <1>5 DEF FileDone, Done
  <2> HIDE DEF t
  <2>3. Writes(w, t, f, row)
    BY <1>1, <1>5, <2>1, <2>2 DEF Writes, PutFile, RunPhase
  <2> QED
    BY <2>1, <2>3
<1>6. CASE Leave(w) /\ UNCHANGED file
  BY <1>6, LeaveThinks
<1>7. CASE /\ work[w].phase = "persist" /\ file[f].status = "PROCESSING" /\ file[f].state = "ACTIVE"
           /\ PutFile(f, done) /\ FileDone(w, work[w].outcome)
  BY <1>1, <1>2, <1>3, <1>5, <1>7
<1>8. CASE file[f].status = "PROCESSING" /\ PutFile(f, failed) /\ FileDone(w, "PARTIAL")
  <2>1. "PARTIAL" \in Ended
    BY DEF Ended
  <2> QED
    BY <1>1, <1>4, <1>5, <1>8, <2>1
<1> QED
  BY <1>6, <1>7, <1>8 DEF Persist, FailFile, UpdateOrAbandon, done, failed

LEMMA WritesKeep ==
  ASSUME RunInv, NEW w \in Worker, NEW t \in WorkFit, NEW f \in File, NEW row \in FileShape,
         Writes(w, t, f, row), UNCHANGED <<source, run, remote, req>>,
         work[w].phase \in {"download", "persist"} => work[w].file = f,
         row.run \in {file[f].run, work[w].run},
         \/ row.status \in {"PENDING", "COMPLETED"}
         \/ row.status = "PROCESSING" /\ row.run = work[w].run /\ t.phase = "download" /\ t.file = f
         \/ row.status = "FAILED" /\ file[f].status = "PROCESSING" /\ row.run = file[f].run /\ t.outcome = "PARTIAL"
  PROVE  RunInv'
<1>1. /\ work' = [work EXCEPT ![w] = t] /\ t.run = work[w].run /\ InRun(w)
      /\ t.outcome = "COMPLETED" => work[w].outcome = "COMPLETED"
  BY DEF Writes
<1>2. file' = [file EXCEPT ![f] = row]
  BY DEF Writes
<1>3. Shape' /\ SameRuns /\ CacheIsOfThisLocation'
  BY <1>1, <1>2 DEF RunInv, Shape, SameRuns, CacheIsOfThisLocation
<1>4. file'[f] = row /\ \A g \in File \ {f} : file'[g] = file[g]
  BY <1>2 DEF RunInv, Shape
<1>5. \A g \in File : file'[g].run = file[g].run \/ (InRun(w) /\ file'[g].run = work[w].run)
  BY <1>1, <1>4
<1>6. \A g \in File, r \in Run : Unfinished(g, r)' => Unfinished(g, r) \/ (InRun(w) /\ r = work[w].run)
  <2>1. \A r \in Run : Unfinished(f, r)' => Unfinished(f, r) \/ r = work[w].run
    BY <1>4 DEF Unfinished
  <2>2. \A g \in File \ {f}, r \in Run : Unfinished(g, r)' => Unfinished(g, r)
    BY <1>4 DEF Unfinished
  <2> QED
    BY <1>1, <2>1, <2>2
<1>7. ASSUME t.phase \in RunPhase, t.outcome = "COMPLETED", NEW g \in File, Unfinished(g, t.run)'
      PROVE  t.phase \in {"download", "persist"} /\ t.file = g
  <2>1. ASSUME NEW h \in File, Unfinished(h, work[w].run)
        PROVE  h = f
    <3>1. work[w].phase \in {"download", "persist"} /\ work[w].file = h
      BY <1>1, <1>7, <2>1 DEF RunInv, NoneLeft
    <3> QED
      BY <3>1
  <2>2. g = f
    BY <1>1, <1>4, <1>7, <2>1 DEF Unfinished
  <2> QED
    BY <1>4, <1>7, <2>2 DEF Unfinished
<1>8. t.phase \in RunPhase /\ t.outcome = "COMPLETED" =>
        \A g \in File : Unfinished(g, t.run)' => t.phase \in {"download", "persist"} /\ t.file = g
  BY <1>7
<1> QED
  BY <1>1, <1>3, <1>5, <1>6, <1>8, WorkerKeeps

\* The plan's first step, the deletion of the files that are gone.
LEMMA WithdrawDoes ==
  ASSUME Shape, NEW w \in Worker, Withdraw(w)
  PROVE  \E t \in WorkFit :
           /\ work' = [work EXCEPT ![w] = t] /\ work[w].phase = "withdraw" /\ InRun(w)
           /\ t.phase = "arm" /\ t.run = work[w].run /\ t.outcome = work[w].outcome
           /\ t.listed = work[w].listed /\ t.arm = work[w].arm /\ t.reset = work[w].reset /\ t.todo = work[w].todo
           /\ file' \in [File -> FileShape]
           /\ \A f \in File :
                /\ file'[f].run = file[f].run /\ file'[f].status = file[f].status
                /\ file'[f].attempts = file[f].attempts /\ file'[f].tags = file[f].tags
                /\ \/ file'[f] = file[f] /\ f \notin work[w].gone
                   \/ /\ file'[f].state # "ACTIVE" /\ file'[f].entities = 0 /\ f \in work[w].gone
                      /\ file[f].state = "ACTIVE" => file'[f].state = "DELETED"
<1> DEFINE t == [work[w] EXCEPT !.phase = "arm", !.gone = {}]
           row(f) == [file[f] EXCEPT !.state = IF @ = "ACTIVE" THEN "DELETED" ELSE @, !.entities = 0]
<1>1. work[w] \in WorkFit /\ work[w] \in WorkState /\ work[w].phase = "withdraw" /\ InRun(w)
  BY DEF Shape, WorkFit, Withdraw, InRun, RunPhase
<1>2. /\ t \in WorkState /\ t.phase = "arm" /\ t.run = work[w].run /\ t.outcome = work[w].outcome
      /\ t.listed = work[w].listed /\ t.arm = work[w].arm /\ t.reset = work[w].reset /\ t.todo = work[w].todo
  BY <1>1 DEF WorkState, RunPhase
<1>3. work' = [work EXCEPT ![w] = t] /\ file' = [f \in File |-> IF f \notin work[w].gone THEN file[f] ELSE row(f)]
  BY DEF Withdraw
<1>4. ASSUME NEW f \in File
      PROVE  /\ row(f) \in FileShape /\ row(f).run = file[f].run /\ row(f).status = file[f].status
             /\ row(f).attempts = file[f].attempts /\ row(f).tags = file[f].tags
             /\ row(f).state # "ACTIVE" /\ row(f).entities = 0
             /\ file[f].state = "ACTIVE" => row(f).state = "DELETED"
  <2>1. file[f] \in FileShape /\ 0 \in 0..MaxVersion
    BY SyncAssumption DEF Shape
  <2> QED
    BY <2>1 DEF FileShape
<1> HIDE DEF t, row
<1>5. t \in WorkFit
  BY <1>1, <1>2 DEF WorkFit, RunPhase, FilePhase
<1>6. /\ file' \in [File -> FileShape]
      /\ \A f \in File : file'[f] = IF f \notin work[w].gone THEN file[f] ELSE row(f)
  BY <1>3, <1>4 DEF Shape
<1> QED
  BY <1>1, <1>2, <1>3, <1>4, <1>5, <1>6

\* The steps of a worker that is inside a run and writes files.
LEMMA WritersKeep ==
  ASSUME RunInv, NEW w \in Worker,
         Withdraw(w) \/ (\E f \in File : Arm(w, f)) \/ Begin(w) \/ Persist(w) \/ FailFile(w)
  PROVE  RunInv'
<1>1. Shape /\ CacheIsOfThisLocation
  BY DEF RunInv
<1>2. ASSUME Thinks(w), UNCHANGED <<source, run, file, remote, req>>
      PROVE  RunInv'
  <2>1. SameRuns /\ source' \in Source /\ CacheIsOfThisLocation'
    BY <1>1, <1>2 DEF Shape, SameRuns, CacheIsOfThisLocation
  <2> QED
    BY <1>2, <2>1, ThinkKeeps
<1>3. CASE Withdraw(w)
  <2>1. PICK t \in WorkFit :
           /\ work' = [work EXCEPT ![w] = t] /\ work[w].phase = "withdraw" /\ InRun(w)
           /\ t.phase = "arm" /\ t.run = work[w].run /\ t.outcome = work[w].outcome
           /\ file' \in [File -> FileShape]
           /\ \A f \in File : file'[f].run = file[f].run /\ file'[f].status = file[f].status
    BY <1>1, <1>3, WithdrawDoes
  <2>2. UNCHANGED <<source, run, remote, req>>
    BY <1>3 DEF Withdraw
  <2>3. Shape' /\ SameRuns /\ CacheIsOfThisLocation'
    BY <1>1, <2>1, <2>2 DEF Shape, SameRuns, CacheIsOfThisLocation
  <2>4. \A f \in File, r \in Run : Unfinished(f, r)' <=> Unfinished(f, r)
    BY <2>1 DEF Unfinished
  <2>5. ASSUME t.outcome = "COMPLETED", NEW f \in File, Unfinished(f, t.run)'
        PROVE  t.phase \in {"download", "persist"} /\ t.file = f
    <3>1. work[w].run \in Run
      BY <1>1, <2>1 DEF Shape, WorkFit, InRun
    <3> QED
      BY <2>1, <2>4, <2>5, <3>1 DEF RunInv, NoneLeft
  <2>6. \A f \in File : file'[f].run = file[f].run \/ (InRun(w) /\ file'[f].run = work[w].run)
    BY <2>1
  <2>7. t.phase \in RunPhase /\ t.outcome = "COMPLETED" =>
          \A f \in File : Unfinished(f, t.run)' => t.phase \in {"download", "persist"} /\ t.file = f
    BY <2>5
  <2> QED
    BY <2>1, <2>3, <2>4, <2>6, <2>7, WorkerKeeps
<1>4. ASSUME NEW f \in File, Arm(w, f)
      PROVE  RunInv'
  <2>1. PICK t \in WorkFit, row \in FileShape :
           /\ Writes(w, t, f, row) /\ work[w].phase = "arm" /\ row.status = "PENDING"
           /\ row.run \in {file[f].run, work[w].run}
    BY <1>1, <1>4, ArmWrites
  <2>2. UNCHANGED <<source, run, remote, req>>
    BY <1>4 DEF Arm
  <2> QED
    BY <2>1, <2>2, WritesKeep
<1>5. CASE Begin(w)
  <2>1. UNCHANGED <<source, run, remote, req>>
    BY <1>5 DEF Begin
  <2>2. ASSUME NEW t \in WorkFit, NEW f \in File, NEW row \in FileShape, Writes(w, t, f, row),
               work[w].phase = "begin", t.phase = "download", t.file = f, row.status = "PROCESSING",
               row.run = work[w].run
        PROVE  RunInv'
    BY <2>1, <2>2, WritesKeep
  <2> QED
    BY <1>1, <1>2, <1>5, <2>1, <2>2, BeginWrites
<1>6. CASE Persist(w) \/ FailFile(w)
  <2>1. UNCHANGED <<source, run, remote, req>>
    BY <1>6 DEF Persist, FailFile
  <2>2. ASSUME NEW t \in WorkFit, NEW f \in File, NEW row \in FileShape, Writes(w, t, f, row),
               work[w].file = f, file[f].status = "PROCESSING", row.run = file[f].run,
               row.status = "COMPLETED" \/ (row.status = "FAILED" /\ t.outcome = "PARTIAL")
        PROVE  RunInv'
    BY <2>1, <2>2, WritesKeep
  <2> QED
    BY <1>1, <1>2, <1>6, <2>1, <2>2, EndFileWrites
<1> QED
  BY <1>3, <1>4, <1>5, <1>6

-----------------------------------------------------------------------------
(* The steps that write a run.                                                *)

\* A QUEUED run is nobody's.
LEMMA QueuedIsUnused ==
  ASSUME RunInv, NEW r \in Run, run[r].status = "QUEUED"
  PROVE  /\ \A f \in File : file[f].run # r
         /\ \A w \in Worker : work[w].run # r
<1>1. r # None
  BY SyncAssumption
<1> QED
  BY <1>1 DEF RunInv, RunsKept

LEMMA ClaimKeeps ==
  ASSUME RunInv, NEW w \in Worker, NEW r \in Run, Claim(w, r) \/ ClaimLost(w, r)
  PROVE  RunInv'
<1> DEFINE row == [status |-> "RUNNING", owner |-> w, fresh |-> TRUE]
           t == [work[w] EXCEPT !.phase = "open", !.run = r]
<1>1. /\ Shape /\ RunsKept /\ NoneLeft /\ CompletedRunIsClean /\ CacheIsOfThisLocation
      /\ r # None
  BY SyncAssumption DEF RunInv
<1>2. /\ run[r].status = "QUEUED" /\ work[w].phase = "idle" /\ run' = [run EXCEPT ![r] = row]
      /\ UNCHANGED <<source, file, remote, req>>
  BY DEF Claim, ClaimLost, ClaimRow
<1>3. row \in RunRow /\ row.status = "RUNNING" /\ row.owner = w
  BY DEF RunRow, ActiveRun
<1>4. /\ \A f \in File : file[f].run # r
      /\ \A v \in Worker : work[v].run # r
  BY <1>2, QueuedIsUnused
<1>5. \A q \in Run : run[q].status \in ActiveRun => q = r
  BY <1>1, <1>2 DEF RunsKept, ActiveRun
<1> HIDE DEF row
<1>6. CASE ClaimLost(w, r)
  <2>1. UNCHANGED <<source, file, remote, work>> /\ req' \in [Client -> ReqFit]
    BY <1>1, <1>6 DEF ClaimLost, Shape
  <2> QED
    BY <1>2, <1>3, <1>4, <1>5, <2>1, UnusedKeeps
<1>7. CASE Claim(w, r)
  <2>1. work' = [work EXCEPT ![w] = t]
    BY <1>7 DEF Claim
  <2>2. work[w] \in WorkFit /\ work[w] \in WorkState /\ work[w].arm = {}
    BY <1>1, <1>2 DEF Shape, WorkFit
  <2>3. t \in WorkState /\ t.phase = "open" /\ t.run = r /\ t.arm = {}
    BY <2>2 DEF WorkState, RunPhase
  <2> HIDE DEF t
  <2>4. t \in WorkFit
    BY <2>3 DEF WorkFit, RunPhase, FilePhase
  <2>5. work'[w] = t /\ \A v \in Worker \ {w} : work'[v] = work[v]
    BY <1>1, <2>1 DEF Shape
  <2>6. run' \in [Run -> RunRow] /\ run'[r] = row /\ \A q \in Run \ {r} : run'[q] = run[q]
    BY <1>1, <1>2, <1>3 DEF Shape
  <2>7. Shape'
    BY <1>1, <1>2, <2>1, <2>4, <2>6 DEF Shape
  <2>8. /\ \A v \in Worker : work[v].run # None => work[v].run \in Run
        /\ \A f \in File : file[f].run # None => file[f].run \in Run
    BY <1>1 DEF Shape, WorkFit, WorkState, FileShape
  <2>9. RunsKept'
    <3>1. \A v \in Worker : work'[v].run # None =>
            run'[work'[v].run].owner = v /\ run'[work'[v].run].status \in {"RUNNING", "FAILED"}
      BY <1>1, <1>3, <1>4, <2>3, <2>5, <2>6, <2>8 DEF RunsKept
    <3>2. \A f \in File : file'[f].run # None => run'[file'[f].run].status # "QUEUED"
      BY <1>1, <1>2, <1>4, <2>6, <2>8 DEF RunsKept
    <3>3. \A p, q \in Run : run'[p].status \in ActiveRun /\ run'[q].status \in ActiveRun => p = q
      BY <1>5, <2>6
    <3> QED
      BY <3>1, <3>2, <3>3 DEF RunsKept
  <2>10. NoneLeft'
    <3>1. \A f \in File, q \in Run : Unfinished(f, q)' <=> Unfinished(f, q)
      BY <1>2 DEF Unfinished
    <3>2. \A f \in File : ~Unfinished(f, r)
      BY <1>4 DEF Unfinished
    <3> SUFFICES ASSUME NEW v \in Worker, InRun(v)', work'[v].outcome = "COMPLETED",
                        NEW f \in File, Unfinished(f, work[v].run)'
                 PROVE  work'[v].phase \in {"download", "persist"} /\ work'[v].file = f
      BY DEF NoneLeft
    <3>3. work'[v].run \in Run
      BY <2>7 DEF Shape, WorkFit, InRun
    <3>4. Unfinished(f, work'[v].run)
      BY <1>2, <3>3 DEF Unfinished
    <3>5. v # w /\ work'[v] = work[v]
      BY <2>3, <2>5, <3>2, <3>4
    <3> QED
      BY <1>1, <3>4, <3>5 DEF NoneLeft, InRun
  <2>11. CompletedRunIsClean'
    BY <1>1, <1>2, <1>4, <2>6, <2>8 DEF CompletedRunIsClean
  <2>12. CacheIsOfThisLocation'
    BY <1>1, <1>2 DEF CacheIsOfThisLocation
  <2> QED
    BY <2>7, <2>9, <2>10, <2>11, <2>12 DEF RunInv
<1> QED
  BY <1>6, <1>7

\* A run ends with the outcome its worker has seen.
LEMMA FinishKeeps ==
  ASSUME RunInv, NEW w \in Worker, Finish(w)
  PROVE  RunInv'
<1>1. /\ Shape /\ RunsKept /\ NoneLeft /\ CompletedRunIsClean /\ CacheIsOfThisLocation
  BY DEF RunInv
<1>2. /\ work[w].phase = "finish" /\ Leave(w) /\ UNCHANGED <<source, file, remote, req>>
      /\ run' = IF Mine(w) THEN [run EXCEPT ![work[w].run].status = work[w].outcome] ELSE run
  BY DEF Finish
<1>3. Thinks(w)
  BY <1>1, <1>2, LeaveThinks
<1>4. CASE ~Mine(w)
  <2>1. SameRuns /\ source' \in Source /\ CacheIsOfThisLocation'
    BY <1>1, <1>2, <1>4 DEF Shape, SameRuns, CacheIsOfThisLocation
  <2> QED
    BY <1>2, <1>3, <2>1, ThinkKeeps
<1>5. CASE Mine(w)
  <2> DEFINE r == work[w].run
             row == [run[r] EXCEPT !.status = work[w].outcome]
  <2>1. /\ r \in Run /\ r # None /\ work[w].outcome \in Ended /\ InRun(w)
    BY <1>1, <1>2, SyncAssumption DEF Shape, WorkFit, WorkState, RunPhase, InRun
  <2>2. run[r] \in RunRow /\ run[r].status = "RUNNING" /\ run[r].owner = w
    BY <1>1, <1>5, <2>1 DEF Shape, Mine
  <2>3. row \in RunRow /\ row.status = work[w].outcome
    BY <2>1, <2>2 DEF RunRow
  <2>4. run' = [run EXCEPT ![r] = row]
    BY <1>2, <1>5
  <2>5. /\ Loop("idle") \in WorkFit /\ Loop("idle").phase = "idle" /\ Loop("idle").run = None
    <3>1. Loop("idle").phase = "idle" /\ Loop("idle").run = None
      BY DEF Loop
    <3> QED
      BY <3>1, LoopFits
  <2>6. work'[w] = Loop("idle") /\ work' \in [Worker -> WorkFit] /\ \A v \in Worker \ {w} : work'[v] = work[v]
    BY <1>1, <1>2, <2>5 DEF Leave, Shape
  <2>7. \A v \in Worker : work'[v].run # r /\ (work'[v].run # None => v # w /\ work'[v] = work[v])
    BY <1>1, <2>1, <2>5, <2>6, RunIsOnes
  <2> HIDE DEF row
  <2>8. run' \in [Run -> RunRow] /\ run'[r] = row /\ \A q \in Run \ {r} : run'[q] = run[q]
    BY <1>1, <2>1, <2>3, <2>4 DEF Shape
  <2>9. Shape'
    BY <1>1, <1>2, <2>6, <2>8 DEF Shape
  <2>10. /\ \A v \in Worker : work[v].run # None => work[v].run \in Run
         /\ \A f \in File : file[f].run # None => file[f].run \in Run
    BY <1>1 DEF Shape, WorkFit, WorkState, FileShape
  <2> HIDE DEF r
  <2>11. RunsKept'
    <3>1. \A v \in Worker : work'[v].run # None =>
            run'[work'[v].run].owner = v /\ run'[work'[v].run].status \in {"RUNNING", "FAILED"}
      BY <1>1, <2>7, <2>8, <2>10 DEF RunsKept
    <3>2. \A f \in File : file'[f].run # None => run'[file'[f].run].status # "QUEUED"
      BY <1>1, <1>2, <2>1, <2>3, <2>8, <2>10 DEF RunsKept, Ended
    <3>3. \A p, q \in Run : run'[p].status \in ActiveRun /\ run'[q].status \in ActiveRun => p = q
      BY <1>1, <2>1, <2>3, <2>8 DEF RunsKept, ActiveRun, Ended
    <3> QED
      BY <3>1, <3>2, <3>3 DEF RunsKept
  <2>12. NoneLeft'
    <3> SUFFICES ASSUME NEW v \in Worker, InRun(v)', work'[v].outcome = "COMPLETED",
                        NEW f \in File, Unfinished(f, work[v].run)'
                 PROVE  work'[v].phase \in {"download", "persist"} /\ work'[v].file = f
      BY DEF NoneLeft
    <3>1. v # w /\ work'[v] = work[v]
      BY <2>5, <2>6 DEF InRun, RunPhase, FilePhase
    <3>2. InRun(v) /\ Unfinished(f, work[v].run)
      BY <1>2, <3>1 DEF InRun, Unfinished
    <3> QED
      BY <1>1, <3>1, <3>2 DEF NoneLeft
  <2>13. CompletedRunIsClean'
    <3>1. row.status = "COMPLETED" => \A f \in File : ~Unfinished(f, r)
      BY <1>1, <1>2, <2>1, <2>3 DEF NoneLeft, r
    <3> QED
      BY <1>1, <1>2, <2>8, <2>10, <3>1 DEF CompletedRunIsClean, Unfinished
  <2>14. CacheIsOfThisLocation'
    BY <1>1, <1>2 DEF CacheIsOfThisLocation
  <2> QED
    BY <2>9, <2>11, <2>12, <2>13, <2>14 DEF RunInv
<1> QED
  BY <1>4, <1>5

\* A heartbeat, or the want of one.
LEMMA FreshRuns ==
  ASSUME Shape, NEW r \in Run, NEW b \in BOOLEAN, run' = [run EXCEPT ![r].fresh = b]
  PROVE  SameRuns
<1> DEFINE row == [run[r] EXCEPT !.fresh = b]
<1>1. row \in RunRow /\ row.status = run[r].status /\ row.owner = run[r].owner
  BY DEF Shape, RunRow
<1>2. run' = [run EXCEPT ![r] = row]
  OBVIOUS
<1> HIDE DEF row
<1> QED
  BY <1>1, <1>2 DEF Shape, SameRuns

LEMMA ProgressThinks ==
  ASSUME Shape, NEW w \in Worker, Progress(w)
  PROVE  Thinks(w) /\ SameRuns
<1>1. work[w] \in WorkFit /\ work[w] \in WorkState /\ work[w].phase \in {"arm", "progress"} /\ work[w].arm = {}
  BY DEF Shape, WorkFit, Progress
<1>2. work[w].run \in Run
  BY <1>1 DEF WorkFit, RunPhase
<1>3. CASE Leave(w) /\ UNCHANGED run
  BY <1>3, LeaveThinks DEF SameRuns, Shape
<1>4. CASE /\ run' = [run EXCEPT ![work[w].run].fresh = TRUE]
           /\ work' = [work EXCEPT ![w].phase = "next", ![w].listed = NoListing, ![w].reset = {}]
  <2> DEFINE t == [work[w] EXCEPT !.phase = "next", !.listed = NoListing, !.reset = {}]
  <2>1. work' = [work EXCEPT ![w] = t]
    BY <1>4
  <2>2. NoListing \in [File -> 0..MaxVersion] /\ \A f \in File : NoListing[f] = 0
    BY SyncAssumption DEF NoListing
  <2>3. /\ t \in WorkState /\ t.phase = "next" /\ t.listed = NoListing /\ t.reset = {} /\ t.arm = {}
        /\ t.run = work[w].run /\ t.todo = work[w].todo /\ t.outcome = work[w].outcome
    BY <1>1, <2>2 DEF WorkState, RunPhase
  <2> HIDE DEF t
  <2>4. t \in WorkFit
    BY <1>1, <2>3 DEF WorkFit, RunPhase, FilePhase
  <2>5. Follows(work[w], t)
    BY <1>1, <2>3 DEF Follows, RunPhase, FilePhase
  <2>6. \A f \in File : remote[f].version >= 0
    BY DEF Shape, Version
  <2>7. Agrees(work[w]) => Agrees(t)
    BY <1>1, <2>2, <2>3, <2>6 DEF Agrees, Advances, RunPhase, FilePhase
  <2> QED
    BY <1>2, <1>4, <2>1, <2>4, <2>5, <2>7, FreshRuns DEF Thinks
<1> QED
  BY <1>3, <1>4 DEF Progress

\* A step that leaves workers and files alone.
LEMMA StillKeeps ==
  ASSUME RunInv, SameRuns, UNCHANGED <<source, file, work>>,
         remote' \in [File -> [folder : Folder \cup {None}, version : Version]],
         req' \in [Client -> ReqFit]
  PROVE  RunInv'
<1>1. Shape' /\ CacheIsOfThisLocation'
  BY DEF RunInv, Shape, SameRuns, CacheIsOfThisLocation
<1>2. \A f \in File, r \in Run : Unfinished(f, r)' => Unfinished(f, r)
  BY DEF Unfinished
<1> QED
  BY <1>1, <1>2, OthersKeep

LEMMA SharePointFits ==
  ASSUME Shape, SharePoint
  PROVE  /\ remote' \in [File -> [folder : Folder \cup {None}, version : Version]]
         /\ \A f \in File : remote'[f].version >= remote[f].version
<1>1. \A f \in File : remote[f] \in [folder : Folder \cup {None}, version : Version] /\ remote[f].version \in Nat
  BY DEF Shape, Version
<1>2. ASSUME NEW g \in File, Edit(g)
      PROVE  /\ remote' \in [File -> [folder : Folder \cup {None}, version : Version]]
             /\ \A f \in File : remote'[f].version >= remote[f].version
  <2> DEFINE row == [remote[g] EXCEPT !.version = @ + 1]
  <2>1. /\ row \in [folder : Folder \cup {None}, version : Version]
        /\ row.version = remote[g].version + 1
    BY <1>1, <1>2, SyncAssumption DEF Edit, Version
  <2>2. remote' = [remote EXCEPT ![g] = row]
    BY <1>2 DEF Edit
  <2> HIDE DEF row
  <2> QED
    BY <1>1, <2>1, <2>2 DEF Shape
<1>3. ASSUME NEW g \in File, NEW d \in Folder \cup {None}, Move(g, d)
      PROVE  /\ remote' \in [File -> [folder : Folder \cup {None}, version : Version]]
             /\ \A f \in File : remote'[f].version >= remote[f].version
  <2> DEFINE row == [remote[g] EXCEPT !.folder = d]
  <2>1. /\ row \in [folder : Folder \cup {None}, version : Version]
        /\ row.version = remote[g].version
    BY <1>1
  <2>2. remote' = [remote EXCEPT ![g] = row]
    BY <1>3 DEF Move
  <2> HIDE DEF row
  <2> QED
    BY <1>1, <2>1, <2>2 DEF Shape
<1> QED
  BY <1>2, <1>3 DEF SharePoint

\* Every step of a worker.
LEMMA WorkersKeep ==
  ASSUME RunInv, NEW w \in Worker, WorkerStep(w) \/ WorkerTrouble(w) \/ Heartbeat(w)
  PROVE  RunInv'
<1>1. Shape /\ CacheIsOfThisLocation
  BY DEF RunInv
<1>2. ASSUME Thinks(w), UNCHANGED <<source, run, file, remote, req>>
      PROVE  RunInv'
  <2>1. SameRuns /\ source' \in Source /\ CacheIsOfThisLocation'
    BY <1>1, <1>2 DEF Shape, SameRuns, CacheIsOfThisLocation
  <2> QED
    BY <1>2, <2>1, ThinkKeeps
<1>3. CASE Start(w) \/ Open(w) \/ Resolve(w) \/ CachedIsGone(w) \/ GraphFails(w)
  <2>1. UNCHANGED <<source, run, file, remote, req>>
    BY <1>3 DEF Start, Open, Resolve, CachedIsGone, GraphFails
  <2> QED
    BY <1>1, <1>2, <1>3, <2>1, OpenThinks
<1>4. ASSUME NEW r \in Run, Recover(w, r)
      PROVE  RunInv'
  BY <1>4, InterruptKeeps DEF Recover
<1>5. ASSUME NEW r \in Run, Claim(w, r) \/ ClaimLost(w, r)
      PROVE  RunInv'
  BY <1>5, ClaimKeeps
<1>6. CASE Cache(w)
  <2>1. work[w] \in WorkState /\ work[w].target = work[w].folder
    BY <1>1, <1>6 DEF Shape, WorkFit, Cache
  <2>2. UNCHANGED <<run, file, remote, req>>
    BY <1>6 DEF Cache
  <2>3. Thinks(w)
    BY <1>1, <1>6, CacheThinks
  <2>4. source' \in Source /\ CacheIsOfThisLocation'
    <3>1. work[w].target \in Folder \cup {None}
      BY <2>1 DEF WorkState
    <3> QED
      BY <1>1, <1>6, <2>1, <3>1 DEF Cache, Shape, Source, CacheIsOfThisLocation
  <2>5. SameRuns
    BY <1>1, <2>2 DEF Shape, SameRuns
  <2> QED
    BY <2>2, <2>3, <2>4, <2>5, ThinkKeeps
<1>7. ASSUME NEW S \in SUBSET In(work[w].target), NEW complete \in BOOLEAN, List(w, S, complete)
      PROVE  RunInv'
  <2>1. UNCHANGED <<source, run, file, remote, req>>
    BY <1>7 DEF List
  <2> QED
    BY <1>1, <1>2, <1>7, <2>1, ListThinks
<1>8. CASE Plan(w)
  <2>1. UNCHANGED <<source, run, file, remote, req>>
    BY <1>8 DEF Plan
  <2> QED
    BY <1>1, <1>2, <1>8, <2>1, PlanThinks
<1>9. CASE Withdraw(w) \/ (\E f \in File : Arm(w, f)) \/ Begin(w) \/ Persist(w) \/ FailFile(w)
  BY <1>9, WritersKeep
<1>10. CASE Progress(w)
  <2>1. Thinks(w)
    BY <1>1, <1>10, ProgressThinks
  <2>2. SameRuns
    BY <1>1, <1>10, ProgressThinks
  <2>3. source' \in Source /\ CacheIsOfThisLocation' /\ UNCHANGED <<file, remote, req>>
    BY <1>1, <1>10 DEF Shape, CacheIsOfThisLocation, Progress
  <2> QED
    BY <2>1, <2>2, <2>3, ThinkKeeps
<1>11. CASE (\E f \in File : NextFile(w, f)) \/ NoMoreFiles(w)
  <2>1. UNCHANGED <<source, run, file, remote, req>>
    BY <1>11 DEF NextFile, NoMoreFiles
  <2> QED
    BY <1>1, <1>2, <1>11, <2>1, NextThinks
<1>12. CASE Download(w)
  <2>1. UNCHANGED <<source, run, remote, req>>
    BY <1>12 DEF Download
  <2> QED
    BY <1>1, <1>2, <1>12, <2>1, DownloadThinks
<1>13. CASE Finish(w)
  BY <1>13, FinishKeeps
<1>14. CASE Release(w)
  <2>1. /\ work' = [work EXCEPT ![w] = Loop("dead")] /\ UNCHANGED <<source, remote, req>>
        /\ work[w].run \in Run
    BY <1>1, <1>14 DEF Release, Shape, WorkFit
  <2>2. CASE Mine(w)
    BY <1>14, <2>1, <2>2, InterruptKeeps DEF Release, Mine
  <2>3. CASE ~Mine(w)
    <3>1. UNCHANGED <<run, file>>
      BY <1>14, <2>3 DEF Release
    <3> QED
      BY <1>1, <1>2, <2>1, <3>1, EndThinks
  <2> QED
    BY <2>2, <2>3
<1>15. CASE ReleaseFails(w) \/ Stop(w) \/ Crash(w)
  <2>1. UNCHANGED <<source, run, file, remote, req>>
    BY <1>15 DEF ReleaseFails, Stop, Crash
  <2>2. Thinks(w)
    BY <1>1, <1>15, EndThinks DEF ReleaseFails
  <2> QED
    BY <1>2, <2>1, <2>2
<1>16. CASE RegistryFault(w)
  <2>1. UNCHANGED <<source, run, file, remote, req>>
    BY <1>16 DEF RegistryFault
  <2> QED
    BY <1>1, <1>2, <1>16, <2>1, FaultThinks
<1>17. CASE Heartbeat(w)
  <2>1. work[w].run \in Run
    BY <1>1, <1>17 DEF Heartbeat, Shape, WorkFit, InRun
  <2>2. SameRuns
    BY <1>1, <1>17, <2>1, FreshRuns DEF Heartbeat
  <2> QED
    BY <1>1, <1>17, <2>2, StillKeeps DEF Heartbeat, Shape
<1> QED
  BY <1>3, <1>4, <1>5, <1>6, <1>7, <1>8, <1>9, <1>10, <1>11, <1>12, <1>13, <1>14, <1>15, <1>16, <1>17
  DEF WorkerStep, WorkerTrouble

\* The steps of requests, administrators, time and SharePoint.
LEMMA RequestsKeep ==
  ASSUME RunInv, \/ \E r \in Run : GoStale(r)
                 \/ \E c \in Client : RequestStep(c)
                 \/ Administration
                 \/ SharePoint
  PROVE  RunInv'
<1>1. Shape /\ CacheIsOfThisLocation
  BY DEF RunInv
<1>2. IdleReq \in ReqFit /\ [IdleReq EXCEPT !.phase = "create"] \in ReqFit
  BY DEF IdleReq, ReqFit, ReqState
<1>3. ASSUME NEW r \in Run, GoStale(r)
      PROVE  RunInv'
  <2>1. SameRuns
    BY <1>1, <1>3, FreshRuns DEF GoStale
  <2> QED
    BY <1>1, <1>3, <2>1, StillKeeps DEF GoStale, Shape
<1>4. ASSUME NEW c \in Client, RequestStep(c)
      PROVE  RunInv'
  <2>1. req[c] \in ReqFit /\ req[c] \in ReqState
    BY <1>1 DEF Shape, ReqFit
  <2>2. [req[c] EXCEPT !.phase = "create"] \in ReqFit
    BY <2>1 DEF ReqFit, ReqState
  <2>3. ASSUME req' \in [Client -> ReqFit], UNCHANGED <<source, run, file, remote, work>>
        PROVE  RunInv'
    <3>1. SameRuns
      BY <1>1, <2>3 DEF Shape, SameRuns
    <3> QED
      BY <1>1, <2>3, <3>1, StillKeeps DEF Shape
  <2>4. CASE AskSync(c) \/ Abort(c)
    <3>1. req' \in [Client -> ReqFit]
      BY <1>1, <1>2, <2>2, <2>4 DEF Shape, AskSync, Abort
    <3> QED
      BY <2>3, <2>4, <3>1 DEF AskSync, Abort
  <2>5. ASSUME NEW f \in File, AskRetry(c, f)
        PROVE  RunInv'
    <3>1. [phase |-> "reset", file |-> f] \in ReqFit
      BY DEF ReqFit, ReqState
    <3>2. req' \in [Client -> ReqFit]
      BY <1>1, <2>2, <2>5, <3>1 DEF Shape, AskRetry
    <3> QED
      BY <2>3, <2>5, <3>2 DEF AskRetry
  <2>6. CASE ResetFile(c)
    <3> DEFINE f == req[c].file
               row == [file[f] EXCEPT !.status = "PENDING", !.attempts = 0]
    <3>1. f \in File /\ UNCHANGED <<source, run, remote, work>>
      BY <2>1, <2>6 DEF ResetFile, ReqFit
    <3>2. req' \in [Client -> ReqFit]
      <4>1. \E q \in ReqFit : req' = [req EXCEPT ![c] = q]
        BY <1>2, <2>6 DEF ResetFile
      <4> QED
        BY <1>1, <4>1 DEF Shape
    <3>3. /\ row \in FileShape /\ row.run = file[f].run /\ row.status = "PENDING"
      <4>1. file[f] \in FileShape
        BY <1>1, <3>1 DEF Shape
      <4> QED
        BY <4>1 DEF FileShape
    <3>4. file' = [file EXCEPT ![f] = row] \/ UNCHANGED file
      BY <2>6 DEF ResetFile, PutFile
    <3> HIDE DEF row
    <3>5. /\ file' \in [File -> FileShape]
          /\ \A g \in File : file'[g].run = file[g].run
          /\ \A g \in File : file'[g].status \in {file[g].status, "PENDING"}
      BY <1>1, <3>1, <3>3, <3>4 DEF Shape
    <3>6. \A g \in File, r \in Run : Unfinished(g, r)' => Unfinished(g, r)
      BY <3>5 DEF Unfinished
    <3>7. Shape' /\ SameRuns /\ CacheIsOfThisLocation'
      BY <1>1, <3>1, <3>2, <3>5 DEF Shape, SameRuns, CacheIsOfThisLocation
    <3> QED
      BY <3>1, <3>5, <3>6, <3>7, OthersKeep
  <2>7. CASE CreateRun(c)
    <3>1. req' \in [Client -> ReqFit] /\ UNCHANGED <<source, file, remote, work>>
      BY <1>1, <1>2, <2>7 DEF Shape, CreateRun
    <3>2. CASE UNCHANGED run
      BY <2>3, <3>1, <3>2
    <3>3. ASSUME NEW r \in Run, Unused(r), ~RunIsActive, run' = [run EXCEPT ![r] = NewRun]
          PROVE  RunInv'
      <4>1. NewRun \in RunRow
        BY DEF NewRun, RunRow, ActiveRun
      <4> QED
        BY <3>1, <3>3, <4>1, UnusedKeeps DEF Unused, RunIsActive
    <3> QED
      BY <2>7, <3>2, <3>3 DEF CreateRun
  <2> QED
    BY <1>4, <2>4, <2>5, <2>6, <2>7 DEF RequestStep
<1>5. ASSUME Administration
      PROVE  RunInv'
  <2>1. SameRuns
    BY <1>1, <1>5 DEF Shape, SameRuns, Administration, SetStatus, Relocate, DeleteSource
  <2>2. source' \in Source /\ CacheIsOfThisLocation' /\ UNCHANGED <<run, remote, work, req>>
    BY <1>1, <1>5 DEF Shape, Source, CacheIsOfThisLocation, Administration, SetStatus, Relocate, DeleteSource
  <2>3. /\ file' \in [File -> FileShape]
        /\ \A f \in File : file'[f].run = file[f].run /\ file'[f].status = file[f].status
    <3>1. ASSUME NEW f \in File
          PROVE  LET row == [file[f] EXCEPT !.entities = 0]
                 IN  row \in FileShape /\ row.run = file[f].run /\ row.status = file[f].status
      BY <1>1, SyncAssumption DEF Shape, FileShape
    <3>2. UNCHANGED file \/ file' = [f \in File |-> [file[f] EXCEPT !.entities = 0]]
      BY <1>5 DEF Administration, SetStatus, Relocate, DeleteSource
    <3> QED
      BY <1>1, <3>1, <3>2 DEF Shape
  <2>4. \A f \in File, r \in Run : Unfinished(f, r)' => Unfinished(f, r)
    BY <2>3 DEF Unfinished
  <2>5. Shape'
    BY <1>1, <2>1, <2>2, <2>3 DEF Shape
  <2> QED
    BY <2>1, <2>2, <2>3, <2>4, <2>5, OthersKeep
<1>6. ASSUME SharePoint
      PROVE  RunInv'
  <2>1. UNCHANGED <<source, run, file, work, req>>
    BY <1>6 DEF SharePoint, Edit, Move
  <2>2. remote' \in [File -> [folder : Folder \cup {None}, version : Version]]
    BY <1>1, <1>6, SharePointFits
  <2>3. SameRuns
    BY <1>1, <2>1 DEF Shape, SameRuns
  <2> QED
    BY <1>1, <2>1, <2>2, <2>3, StillKeeps DEF Shape
<1> QED
  BY <1>3, <1>4, <1>5, <1>6

LEMMA RunInvInit == Init => RunInv
<1> SUFFICES ASSUME Init PROVE RunInv
  OBVIOUS
<1> USE DEF Init
<1>1. [NewRun EXCEPT !.status = "FAILED"] \in RunRow /\ [NewRun EXCEPT !.status = "FAILED"].status = "FAILED"
  BY DEF NewRun, RunRow, ActiveRun, Ended
<1>2. NoFile \in FileShape /\ NoFile.run = None /\ 1 \in Version
  BY SyncAssumption DEF NoFile, FileShape, Version
<1>3. Loop("off") \in WorkFit /\ Loop("off").phase = "off" /\ Loop("off").run = None
  <2>1. Loop("off").phase = "off" /\ Loop("off").run = None
    BY DEF Loop
  <2> QED
    BY <2>1, LoopFits
<1>4. IdleReq \in ReqFit
  BY DEF IdleReq, ReqFit, ReqState
<1>5. source \in Source /\ source.resolved = None
  BY DEF Source
<1> HIDE DEF Init
<1>6. run \in [Run -> RunRow] /\ \A r \in Run : run[r].status = "FAILED"
  BY <1>1 DEF Init
<1>7. file \in [File -> FileShape] /\ \A f \in File : file[f].run = None
  BY <1>2 DEF Init
<1>8. work \in [Worker -> WorkFit] /\ \A w \in Worker : work[w].run = None /\ ~InRun(w)
  BY <1>3 DEF Init, InRun, RunPhase, FilePhase
<1>9. remote \in [File -> [folder : Folder \cup {None}, version : Version]]
  BY <1>2 DEF Init
<1>10. Shape
  BY <1>4, <1>5, <1>6, <1>7, <1>8, <1>9 DEF Init, Shape
<1>11. RunsKept
  BY <1>6, <1>7, <1>8 DEF RunsKept, ActiveRun
<1>12. NoneLeft /\ CompletedRunIsClean /\ CacheIsOfThisLocation
  BY <1>5, <1>7, <1>8 DEF NoneLeft, CompletedRunIsClean, CacheIsOfThisLocation
<1> QED
  BY <1>10, <1>11, <1>12 DEF RunInv

LEMMA RunInvNext == RunInv /\ [Next]_vars => RunInv'
<1> SUFFICES ASSUME RunInv, [Next]_vars PROVE RunInv'
  OBVIOUS
<1>1. CASE UNCHANGED vars
  <2>1. SameRuns
    BY <1>1 DEF vars, RunInv, Shape, SameRuns
  <2> QED
    BY <1>1, <2>1, StillKeeps DEF vars, RunInv, Shape
<1> QED
  BY <1>1, WorkersKeep, RequestsKeep DEF Next

\* With every failure in play, zombies included: what the runs and their owners are at each step
\* of a worker, and whose location the cache is.  It carries the two theorems below.
THEOREM RunInvariant == Spec => []RunInv
BY RunInvInit, RunInvNext, PTL DEF Spec

\* With every failure in play the ids cached on a source are those of the location it names:
\* a worker that resolved the old location does not store its ids over a new one.
THEOREM CacheFollowsLocation == Spec => []CacheIsOfThisLocation
<1>1. RunInv => CacheIsOfThisLocation
  BY DEF RunInv
<1> QED
  BY <1>1, RunInvariant, PTL

\* With every failure in play, zombies included, a run that ended COMPLETED has none of its
\* files FAILED or PROCESSING.
THEOREM CompletedMeansClean == Spec => []CompletedRunIsClean
<1>1. RunInv => CompletedRunIsClean
  BY DEF RunInv
<1> QED
  BY <1>1, RunInvariant, PTL

-----------------------------------------------------------------------------
(* While workers keep up their heartbeats, at most one of them is inside a run. *)

LEMMA Alone ==
  ASSUME RunInv, OwnsRun, NEW v \in Worker, NEW w \in Worker, InRun(v), InRun(w)
  PROVE  v = w
<1>1. work[v].run \in Run /\ work[w].run \in Run
  BY DEF RunInv, Shape, WorkFit, InRun
<1>2. run[work[v].run].status = "RUNNING" /\ run[work[w].run].status = "RUNNING"
  BY DEF OwnsRun
<1>3. work[v].run = work[w].run
  BY <1>1, <1>2 DEF RunInv, RunsKept, ActiveRun
<1> QED
  BY <1>3 DEF OwnsRun

\* A worker outside a run remembers nothing that could disagree with the tables.
LEMMA AtRest ==
  ASSUME NEW s \in WorkFit, s.phase \notin RunPhase, Shape'
  PROVE  Agrees(s)'
<1>1. \A f \in File : remote'[f].version >= 0
  BY DEF Shape, Version
<1>2. s.arm = {} /\ s.todo = {} /\ s.listed = NoListing
  BY DEF WorkFit, RunPhase, FilePhase
<1> QED
  BY <1>1, <1>2 DEF Agrees, Advances, NoListing, RunPhase, FilePhase

\* After a step that leaves no worker inside a run only the files matter.
LEMMA NobodySyncs ==
  ASSUME RunInv', \A w \in Worker : ~InRun(w)', Budget', NothingAhead', EntitiesAreCurrent',
         NothingLeftBehind'
  PROVE  SyncInv'
<1>1. Shape' /\ \A w \in Worker : work'[w] \in WorkFit /\ work'[w].phase \notin RunPhase
  BY DEF RunInv, Shape, InRun
<1>2. ASSUME NEW w \in Worker PROVE Agrees(work[w])'
  <2>1. PICK s \in WorkFit : s = work'[w] /\ s.phase \notin RunPhase
    BY <1>1
  <2>2. Agrees(s)'
    BY <1>1, <2>1, AtRest
  <2> QED
    BY <2>1, <2>2 DEF Agrees
<1>3. OwnsRun'
  BY DEF OwnsRun
<1> QED
  BY <1>2, <1>3 DEF SyncInv

\* A step of w that changes memory, heartbeats and the ids cached on the source.
LEMMA ThinkSyncs ==
  ASSUME SyncInv, RunInv', NEW w \in Worker, Thinks(w), SameRuns,
         \A r \in Run : run[r].fresh => run'[r].fresh,
         source'.status = source.status, UNCHANGED <<file, remote>>
  PROVE  SyncInv'
<1>1. PICK t \in WorkFit : /\ work' = [work EXCEPT ![w] = t] /\ Follows(work[w], t)
                           /\ Budget /\ NothingAhead /\ Agrees(work[w]) => Agrees(t)
  BY DEF Thinks
<1>2. work'[w] = t /\ \A v \in Worker \ {w} : work'[v] = work[v]
  BY <1>1 DEF SyncInv, RunInv, Shape
<1>3. \A s \in WorkFit : Agrees(s) => Agrees(s)'
  BY DEF Agrees, Advances
<1>4. \A v \in Worker : Agrees(work[v]) /\ work[v] \in WorkFit
  BY DEF SyncInv, RunInv, Shape
<1>5. \A v \in Worker : Agrees(work[v])'
  <2>1. Agrees(t) /\ Agrees(t)'
    BY <1>1, <1>3, <1>4 DEF SyncInv
  <2>2. ASSUME NEW v \in Worker \ {w} PROVE Agrees(work[v])'
    <3>1. PICK s \in WorkFit : s = work[v]
      BY <1>4
    <3>2. Agrees(s)' /\ work'[v] = s
      BY <1>2, <1>3, <1>4, <3>1
    <3> QED
      BY <3>2 DEF Agrees
  <2>3. Agrees(work[w])'
    BY <1>2, <2>1 DEF Agrees
  <2> QED
    BY <2>2, <2>3
<1>6. OwnsRun'
  <2> SUFFICES ASSUME NEW v \in Worker, InRun(v)'
               PROVE  LET r == run'[work'[v].run] IN r.status = "RUNNING" /\ r.owner = v /\ r.fresh
    BY DEF OwnsRun
  <2>1. InRun(v) /\ work'[v].run = work[v].run
    BY <1>1, <1>2 DEF InRun, Follows
  <2>2. work[v].run \in Run
    BY <1>4, <2>1 DEF WorkFit, InRun
  <2> QED
    BY <2>1, <2>2 DEF SyncInv, OwnsRun, SameRuns
<1>7. Budget' /\ NothingAhead' /\ EntitiesAreCurrent' /\ NothingLeftBehind'
  BY DEF SyncInv, Budget, NothingAhead, EntitiesAreCurrent, NothingLeftBehind
<1> QED
  BY <1>5, <1>6, <1>7 DEF SyncInv

\* A step that leaves workers and files alone and keeps the runs in progress fresh.
LEMMA StillSyncs ==
  ASSUME SyncInv, RunInv', SameRuns, \A w \in Worker : InRun(w) => run'[work[w].run].fresh,
         source'.status = "DELETED" => source.status = "DELETED",
         source.status = "DELETED" => source'.status = "DELETED",
         \A f \in File : remote'[f].version >= remote[f].version,
         UNCHANGED <<file, work>>
  PROVE  SyncInv'
<1>1. \A f \in File : /\ remote[f].version \in Nat /\ remote'[f].version \in Nat
                      /\ file[f].tags \in Nat /\ file[f].entities \in Nat
                      /\ \A w \in Worker : work[w].listed[f] \in Nat
  BY SyncAssumption DEF SyncInv, RunInv, Shape, Version, FileShape, WorkFit, WorkState
<1>2. ASSUME NEW w \in Worker PROVE Agrees(work[w])'
  <2>1. Agrees(work[w]) /\ work[w] \in WorkFit /\ work[w] \in WorkState
    BY DEF SyncInv, RunInv, Shape, WorkFit
  <2>2. Advances(work[w])'
    <3>1. work[w].phase = "persist" => work[w].file \in File /\ work[w].content \in Nat
      BY <2>1, SyncAssumption DEF WorkFit, WorkState, FilePhase
    <3> QED
      BY <1>1, <2>1, <3>1 DEF Agrees, Advances
  <2> QED
    BY <1>1, <2>1, <2>2 DEF Agrees
<1>3. OwnsRun'
  <2>1. \A w \in Worker : InRun(w) => work[w].run \in Run
    BY DEF SyncInv, RunInv, Shape, WorkFit, InRun
  <2>2. \A w \in Worker : InRun(w)' <=> InRun(w)
    BY DEF InRun
  <2> QED
    BY <2>1, <2>2 DEF SyncInv, OwnsRun, SameRuns
<1>4. Budget' /\ NothingAhead' /\ EntitiesAreCurrent' /\ NothingLeftBehind'
  BY <1>1 DEF SyncInv, Budget, NothingAhead, EntitiesAreCurrent, NothingLeftBehind
<1> QED
  BY <1>2, <1>3, <1>4 DEF SyncInv

\* A file is written by the one worker that is inside a run.
LEMMA WritesSync ==
  ASSUME SyncInv, RunInv', NEW w \in Worker, NEW t \in WorkFit, NEW f \in File, NEW row \in FileShape,
         Writes(w, t, f, row), UNCHANGED <<source, run, remote>>,
         row.attempts <= MAX_FILE_ATTEMPTS, row.status = "PENDING" => row.attempts < MAX_FILE_ATTEMPTS,
         row.tags <= remote[f].version, row.entities <= remote[f].version, source.status # "DELETED",
         row.state = "ACTIVE" /\ row.status = "COMPLETED" => row.entities >= row.tags,
         row.state = "DELETED" => row.entities = 0,
         Agrees(t)'
  PROVE  SyncInv'
<1>1. /\ work' = [work EXCEPT ![w] = t] /\ file' = [file EXCEPT ![f] = row] /\ InRun(w)
      /\ t.run = work[w].run
  BY DEF Writes
<1>2. /\ work'[w] = t /\ \A v \in Worker \ {w} : work'[v] = work[v]
      /\ file'[f] = row /\ \A g \in File \ {f} : file'[g] = file[g]
  BY <1>1 DEF SyncInv, RunInv, Shape
<1>3. \A v \in Worker \ {w} : ~InRun(v)
  BY <1>1, Alone DEF SyncInv
<1>4. ASSUME NEW v \in Worker PROVE Agrees(work[v])'
  <2>1. CASE v = w
    BY <1>2, <2>1 DEF Agrees
  <2>2. CASE v # w
    <3>1. PICK s \in WorkFit : s = work[v] /\ s.phase \notin RunPhase
      BY <1>3, <2>2 DEF SyncInv, RunInv, Shape, InRun
    <3>2. Agrees(s)'
      BY <3>1, AtRest DEF RunInv
    <3> QED
      BY <1>2, <2>2, <3>1, <3>2 DEF Agrees
  <2> QED
    BY <2>1, <2>2
<1>5. OwnsRun'
  BY <1>1, <1>2, <1>3 DEF SyncInv, OwnsRun, InRun
<1>6. Budget' /\ NothingAhead' /\ EntitiesAreCurrent' /\ NothingLeftBehind'
  BY <1>2 DEF SyncInv, Budget, NothingAhead, EntitiesAreCurrent, NothingLeftBehind
<1> QED
  BY <1>4, <1>5, <1>6 DEF SyncInv

\* A file is armed with the tags it was listed with, and begun with budget left.
LEMMA ArmSyncs ==
  ASSUME SyncInv, RunInv', NEW w \in Worker, NEW f \in File, Arm(w, f)
  PROVE  SyncInv'
<1>1. PICK t \in WorkFit, row \in FileShape :
         /\ Writes(w, t, f, row)
         /\ work[w].phase = "arm" /\ f \in work[w].arm /\ t.phase = "arm"
         /\ t.arm = work[w].arm \ {f} /\ t.reset = work[w].reset /\ t.todo = work[w].todo \cup {f}
         /\ row.state = "ACTIVE" /\ row.status = "PENDING" /\ row.tags = work[w].listed[f]
         /\ row.attempts = IF f \in work[w].reset THEN 0 ELSE file[f].attempts
         /\ row.entities = file[f].entities
  BY ArmWrites DEF SyncInv, RunInv
<1>2. Agrees(work[w]) /\ Budget
  BY DEF SyncInv
<1>3. UNCHANGED <<source, run, remote>>
  BY DEF Arm
<1>4. file' = [file EXCEPT ![f] = row] /\ t.listed = work[w].listed
  BY <1>1 DEF Writes
<1>5. file'[f] = row /\ \A g \in File \ {f} : file'[g] = file[g]
  BY <1>4 DEF SyncInv, RunInv, Shape
<1>6. row.attempts < MAX_FILE_ATTEMPTS /\ row.attempts <= MAX_FILE_ATTEMPTS
  BY <1>1, <1>2, SyncAssumption DEF Agrees, SyncInv, RunInv, Shape, FileShape
<1>7. /\ row.tags <= remote[f].version /\ source.status # "DELETED"
      /\ row.entities <= remote[f].version
  BY <1>1, <1>2 DEF Agrees, RunPhase, SyncInv, NothingAhead
<1>8. Agrees(t)'
  <2>1. t.arm \subseteq File /\ t.todo \subseteq File
    BY DEF WorkFit, WorkState
  <2>2. Advances(t)'
    <3>1. ASSUME NEW g \in File, t.listed[g] # 0 PROVE file'[g].tags <= t.listed[g]
      <4>1. work[w].listed[g] \in Nat
        BY SyncAssumption DEF SyncInv, RunInv, Shape, WorkFit, WorkState
      <4> QED
        BY <1>1, <1>2, <1>4, <1>5, <3>1, <4>1 DEF Agrees, Advances
    <3>2. ASSUME NEW g \in t.arm
          PROVE  t.listed[g] # 0 /\ (StageOf(file'[g]) = "mirrored" => file'[g].tags # t.listed[g])
      BY <1>1, <1>2, <1>4, <1>5, <2>1, <3>2 DEF Agrees, Advances
    <3> QED
      BY <1>1, <3>1, <3>2 DEF Advances
  <2> QED
    BY <1>1, <1>2, <1>3, <1>4, <1>5, <1>7, <2>1, <2>2 DEF Agrees, RunPhase
<1> QED
  BY <1>1, <1>3, <1>6, <1>7, <1>8, WritesSync

LEMMA BeginSyncs ==
  ASSUME SyncInv, RunInv', NEW w \in Worker, Begin(w)
  PROVE  SyncInv'
<1>1. UNCHANGED <<source, run, remote>>
  BY DEF Begin
<1>2. CASE Thinks(w) /\ UNCHANGED file
  <2>1. SameRuns
    BY <1>1 DEF SyncInv, RunInv, Shape, SameRuns
  <2> QED
    BY <1>1, <1>2, <2>1, ThinkSyncs
<1>3. ASSUME NEW t \in WorkFit, NEW f \in File, NEW row \in FileShape,
             Writes(w, t, f, row),
             work[w].phase = "begin", work[w].file = f, t.phase = "download", t.file = f,
             t.todo = work[w].todo, f \notin t.todo, t.arm = {},
             row.state = "ACTIVE", row.status = "PROCESSING",
             row.attempts = file[f].attempts + 1, row.tags = file[f].tags,
             row.entities = file[f].entities
      PROVE  SyncInv'
  <2>1. Agrees(work[w]) /\ Budget /\ NothingAhead
    BY DEF SyncInv
  <2>2. file' = [file EXCEPT ![f] = row] /\ t.listed = work[w].listed
    BY <1>3 DEF Writes
  <2>3. file'[f] = row /\ \A g \in File \ {f} : file'[g] = file[g]
    BY <2>2 DEF SyncInv, RunInv, Shape
  <2>4. file[f].status = "PENDING" /\ source.status # "DELETED"
    BY <1>3, <2>1 DEF Agrees, RunPhase, FilePhase
  <2>5. row.attempts <= MAX_FILE_ATTEMPTS
    BY <1>3, <2>1, <2>4, SyncAssumption DEF Budget, SyncInv, RunInv, Shape, FileShape
  <2>6. row.tags <= remote[f].version /\ row.entities <= remote[f].version
    BY <1>3, <2>1 DEF NothingAhead
  <2>7. Agrees(t)'
    <3>1. t.todo \subseteq File
      BY DEF WorkFit, WorkState
    <3> QED
      BY <1>1, <1>3, <2>1, <2>2, <2>3, <2>4, <3>1 DEF Agrees, Advances, RunPhase, FilePhase
  <2> QED
    BY <1>1, <1>3, <2>4, <2>5, <2>6, <2>7, WritesSync
<1> QED
  BY <1>2, <1>3, BeginWrites DEF SyncInv, RunInv

\* The entities of a completed file are at least as late as its tags.
LEMMA EndFileSyncs ==
  ASSUME SyncInv, RunInv', NEW w \in Worker, Persist(w) \/ FailFile(w)
  PROVE  SyncInv'
<1>1. UNCHANGED <<source, run, remote>>
  BY DEF Persist, FailFile
<1>2. CASE Thinks(w) /\ UNCHANGED file
  <2>1. SameRuns
    BY <1>1 DEF SyncInv, RunInv, Shape, SameRuns
  <2> QED
    BY <1>1, <1>2, <2>1, ThinkSyncs
<1>3. ASSUME NEW t \in WorkFit, NEW f \in File, NEW row \in FileShape,
             Writes(w, t, f, row),
             work[w].phase \in {"download", "persist"}, work[w].file = f, t.phase = "progress",
             t.todo = work[w].todo, f \notin t.todo, t.arm = {}, row.state = file[f].state,
             row.attempts = file[f].attempts, row.tags = file[f].tags,
             \/ /\ work[w].phase = "persist" /\ row.status = "COMPLETED"
                /\ row.state = "ACTIVE" /\ row.entities = work[w].content
             \/ /\ row.status = "FAILED" /\ row.entities = file[f].entities
      PROVE  SyncInv'
  <2>1. Agrees(work[w]) /\ Budget /\ NothingAhead /\ NothingLeftBehind
    BY DEF SyncInv
  <2>2. file' = [file EXCEPT ![f] = row] /\ t.listed = work[w].listed
    BY <1>3 DEF Writes
  <2>3. file'[f] = row /\ \A g \in File \ {f} : file'[g] = file[g]
    BY <2>2 DEF SyncInv, RunInv, Shape
  <2>4. /\ source.status # "DELETED" /\ row.attempts <= MAX_FILE_ATTEMPTS /\ row.tags <= remote[f].version
        /\ row.entities <= remote[f].version
    BY <1>3, <2>1 DEF Agrees, Advances, Budget, NothingAhead, RunPhase, FilePhase
  <2>5. row.status # "PENDING" /\ (row.status = "COMPLETED" => row.entities >= row.tags)
    <3>1. CASE row.status = "COMPLETED"
      <4>1. row.tags <= row.entities
        BY <1>3, <2>1, <3>1 DEF Agrees
      <4> QED
        BY <3>1, <4>1, SyncAssumption DEF FileShape
    <3>2. CASE row.status = "FAILED"
      BY <3>2
    <3> QED
      BY <1>3, <3>1, <3>2
  <2>6. row.state = "DELETED" => row.entities = 0
    BY <1>3, <2>1 DEF NothingLeftBehind
  <2>7. Agrees(t)'
    <3>1. t.todo \subseteq File
      BY DEF WorkFit, WorkState
    <3> QED
      BY <1>1, <1>3, <2>1, <2>2, <2>3, <2>4, <3>1 DEF Agrees, Advances, RunPhase, FilePhase
  <2> QED
    BY <1>1, <1>3, <2>4, <2>5, <2>6, <2>7, WritesSync
<1> QED
  BY <1>2, <1>3, EndFileWrites DEF SyncInv, RunInv

\* What is gone loses its entities with its row.
LEMMA WithdrawSyncs ==
  ASSUME SyncInv, RunInv', NEW w \in Worker, Withdraw(w)
  PROVE  SyncInv'
<1>1. PICK t \in WorkFit :
           /\ work' = [work EXCEPT ![w] = t] /\ work[w].phase = "withdraw" /\ InRun(w)
           /\ t.phase = "arm" /\ t.run = work[w].run
           /\ t.listed = work[w].listed /\ t.arm = work[w].arm /\ t.reset = work[w].reset /\ t.todo = work[w].todo
           /\ file' \in [File -> FileShape]
           /\ \A f \in File :
                /\ file'[f].status = file[f].status
                /\ file'[f].attempts = file[f].attempts /\ file'[f].tags = file[f].tags
                /\ \/ file'[f] = file[f]
                   \/ file'[f].state # "ACTIVE" /\ file'[f].entities = 0
  BY WithdrawDoes DEF SyncInv, RunInv
<1>2. UNCHANGED <<source, run, remote>>
  BY DEF Withdraw
<1>3. work'[w] = t /\ \A v \in Worker \ {w} : work'[v] = work[v]
  BY <1>1 DEF SyncInv, RunInv, Shape
<1>4. \A v \in Worker \ {w} : ~InRun(v)
  BY <1>1, Alone DEF SyncInv
<1>5. source.status # "DELETED" /\ Agrees(work[w])
  BY <1>1 DEF SyncInv, Agrees, RunPhase
<1>6. ASSUME NEW v \in Worker PROVE Agrees(work[v])'
  <2>1. CASE v = w
    <3>1. t.arm \subseteq File /\ t.todo \subseteq File
      BY DEF WorkFit, WorkState
    <3>2. Advances(t)'
      <4>1. ASSUME NEW f \in File, StageOf(file'[f]) = "mirrored" PROVE file'[f] = file[f]
        <5>1. file'[f] \in FileShape
          BY <1>1
        <5> QED
          BY <1>1, <4>1, <5>1, Stages
      <4> QED
        BY <1>1, <1>2, <1>5, <3>1, <4>1 DEF Agrees, Advances
    <3>3. Agrees(t)'
      BY <1>1, <1>2, <1>5, <3>1, <3>2 DEF Agrees, RunPhase
    <3> QED
      BY <1>3, <2>1, <3>3 DEF Agrees
  <2>2. CASE v # w
    <3>1. PICK s \in WorkFit : s = work[v] /\ s.phase \notin RunPhase
      BY <1>4, <2>2 DEF SyncInv, RunInv, Shape, InRun
    <3>2. Agrees(s)'
      BY <3>1, AtRest DEF RunInv
    <3> QED
      BY <1>3, <2>2, <3>1, <3>2 DEF Agrees
  <2> QED
    BY <2>1, <2>2
<1>7. OwnsRun'
  BY <1>1, <1>2, <1>3, <1>4 DEF SyncInv, OwnsRun, InRun
<1>8. Budget' /\ NothingAhead'
  <2>1. \A f \in File : 0 <= remote[f].version
    BY DEF SyncInv, RunInv, Shape, Version
  <2> QED
    BY <1>1, <1>2, <2>1 DEF SyncInv, Budget, NothingAhead
<1>9. EntitiesAreCurrent' /\ NothingLeftBehind'
  BY <1>1, <1>2, <1>5 DEF SyncInv, EntitiesAreCurrent, NothingLeftBehind
<1> QED
  BY <1>6, <1>7, <1>8, <1>9 DEF SyncInv

\* A run is interrupted only when no worker is inside it.
LEMMA InterruptSyncs ==
  ASSUME SyncInv, RunInv', NEW r \in Run, Interrupt(r), UNCHANGED <<source, remote>>,
         \A w \in Worker : ~InRun(w)'
  PROVE  SyncInv'
<1>1. /\ \A f \in File : file'[f].status =
              IF file[f].run = r /\ file[f].status = "PROCESSING" THEN "FAILED" ELSE file[f].status
      /\ \A f \in File : /\ file'[f].state = file[f].state /\ file'[f].attempts = file[f].attempts
                          /\ file'[f].tags = file[f].tags /\ file'[f].entities = file[f].entities
  BY InterruptShape DEF SyncInv, RunInv
<1>2. Budget' /\ NothingAhead' /\ EntitiesAreCurrent' /\ NothingLeftBehind'
  BY <1>1 DEF SyncInv, Budget, NothingAhead, EntitiesAreCurrent, NothingLeftBehind
<1> QED
  BY <1>2, NobodySyncs

\* With no worker inside a run, the claim of a run puts one there that knows nothing yet.
LEMMA ClaimSyncs ==
  ASSUME SyncInv, RunInv', NEW w \in Worker, NEW r \in Run, Claim(w, r) \/ ClaimLost(w, r)
  PROVE  SyncInv'
<1>1. /\ run[r].status = "QUEUED" /\ work[w].phase = "idle" /\ ClaimRow(r, w)
      /\ UNCHANGED <<source, file, remote>>
  BY DEF Claim, ClaimLost
<1>2. \A v \in Worker : ~InRun(v)
  <2> SUFFICES ASSUME NEW v \in Worker, InRun(v) PROVE FALSE
    OBVIOUS
  <2>1. work[v].run \in Run /\ run[work[v].run].status = "RUNNING"
    BY DEF SyncInv, OwnsRun, RunInv, Shape, WorkFit, InRun
  <2> QED
    BY <1>1, <2>1 DEF SyncInv, RunInv, RunsKept, ActiveRun
<1>3. Budget' /\ NothingAhead' /\ EntitiesAreCurrent' /\ NothingLeftBehind'
  BY <1>1 DEF SyncInv, Budget, NothingAhead, EntitiesAreCurrent, NothingLeftBehind
<1>4. CASE ClaimLost(w, r)
  <2>1. \A v \in Worker : ~InRun(v)'
    BY <1>2, <1>4 DEF ClaimLost, InRun
  <2> QED
    BY <1>3, <2>1, NobodySyncs
<1>5. CASE Claim(w, r)
  <2>1. /\ work'[w].run = r /\ work'[w].phase = "open" /\ work'[w].todo = {} /\ work'[w].arm = {}
        /\ work'[w].listed = NoListing
        /\ \A v \in Worker \ {w} : work'[v] = work[v]
    <3>1. work[w] \in WorkState /\ work[w].todo = {} /\ work[w].arm = {} /\ work[w].listed = NoListing
      BY <1>1 DEF SyncInv, RunInv, Shape, WorkFit, RunPhase, FilePhase
    <3>2. work' = [work EXCEPT ![w] = [work[w] EXCEPT !.phase = "open", !.run = r]]
      BY <1>5 DEF Claim
    <3> QED
      BY <3>1, <3>2 DEF SyncInv, RunInv, Shape, WorkState
  <2>2. OwnsRun'
    <3>1. run'[r].status = "RUNNING" /\ run'[r].owner = w /\ run'[r].fresh
      BY <1>1 DEF ClaimRow, SyncInv, RunInv, Shape
    <3> QED
      BY <1>2, <2>1, <3>1 DEF OwnsRun, InRun
  <2>3. ASSUME NEW v \in Worker PROVE Agrees(work[v])'
    <3>1. CASE v = w
      <4>1. \A f \in File : remote'[f].version >= 0
        BY DEF RunInv, Shape, Version
      <4> QED
        BY <2>1, <3>1, <4>1 DEF Agrees, Advances, NoListing, RunPhase, FilePhase
    <3>2. CASE v # w
      <4>1. PICK s \in WorkFit : s = work[v] /\ s.phase \notin RunPhase
        BY <1>2 DEF SyncInv, RunInv, Shape, InRun
      <4>2. Agrees(s)'
        BY <4>1, AtRest DEF RunInv
      <4> QED
        BY <2>1, <3>2, <4>1, <4>2 DEF Agrees
    <3> QED
      BY <3>1, <3>2
  <2> QED
    BY <1>3, <2>2, <2>3 DEF SyncInv
<1> QED
  BY <1>4, <1>5

\* Every step of a worker.
LEMMA WorkersSync ==
  ASSUME SyncInv, RunInv', "stall" \notin Hazard, NEW w \in Worker,
         WorkerStep(w) \/ WorkerTrouble(w) \/ Heartbeat(w)
  PROVE  SyncInv'
<1>1. RunInv /\ Shape
  BY DEF SyncInv, RunInv
<1>2. ASSUME Thinks(w), UNCHANGED <<run, file, remote>>, source'.status = source.status
      PROVE  SyncInv'
  <2>1. SameRuns
    BY <1>1, <1>2 DEF Shape, SameRuns
  <2> QED
    BY <1>2, <2>1, ThinkSyncs
<1>3. CASE Start(w) \/ Open(w) \/ Resolve(w) \/ CachedIsGone(w) \/ GraphFails(w)
  <2>1. UNCHANGED <<source, run, file, remote>>
    BY <1>3 DEF Start, Open, Resolve, CachedIsGone, GraphFails
  <2> QED
    BY <1>1, <1>2, <1>3, <2>1, OpenThinks
<1>4. ASSUME NEW r \in Run, Recover(w, r)
      PROVE  SyncInv'
  <2>1. run[r].status = "RUNNING" /\ ~run[r].fresh /\ Interrupt(r) /\ UNCHANGED <<source, remote, work>>
    BY <1>4 DEF Recover
  <2>2. ASSUME NEW v \in Worker, InRun(v) PROVE FALSE
    <3>1. work[v].run \in Run /\ run[work[v].run].status = "RUNNING" /\ run[work[v].run].fresh
      BY <1>1, <2>2 DEF SyncInv, OwnsRun, Shape, WorkFit, InRun
    <3> QED
      BY <1>1, <2>1, <3>1 DEF RunInv, RunsKept, ActiveRun
  <2>3. \A v \in Worker : ~InRun(v)'
    BY <2>1, <2>2 DEF InRun
  <2> QED
    BY <2>1, <2>3, InterruptSyncs
<1>5. ASSUME NEW r \in Run, Claim(w, r) \/ ClaimLost(w, r)
      PROVE  SyncInv'
  BY <1>5, ClaimSyncs
<1>6. CASE Cache(w)
  <2>1. UNCHANGED <<run, file, remote>> /\ source'.status = source.status
    BY <1>1, <1>6 DEF Cache, Shape, Source
  <2> QED
    BY <1>1, <1>2, <1>6, <2>1, CacheThinks
<1>7. ASSUME NEW S \in SUBSET In(work[w].target), NEW complete \in BOOLEAN, List(w, S, complete)
      PROVE  SyncInv'
  <2>1. UNCHANGED <<source, run, file, remote>>
    BY <1>7 DEF List
  <2> QED
    BY <1>1, <1>2, <1>7, <2>1, ListThinks
<1>8. CASE Plan(w)
  <2>1. UNCHANGED <<source, run, file, remote>>
    BY <1>8 DEF Plan
  <2> QED
    BY <1>1, <1>2, <1>8, <2>1, PlanThinks
<1>9. CASE Withdraw(w) \/ (\E f \in File : Arm(w, f)) \/ Begin(w) \/ Persist(w) \/ FailFile(w)
  BY <1>9, WithdrawSyncs, ArmSyncs, BeginSyncs, EndFileSyncs
<1>10. CASE Progress(w)
  <2>1. Thinks(w) /\ SameRuns
    BY <1>1, <1>10, ProgressThinks
  <2>2. UNCHANGED <<source, file, remote>>
    BY <1>10 DEF Progress
  <2>3. \A r \in Run : run[r].fresh => run'[r].fresh
    <3>1. UNCHANGED run \/ run' = [run EXCEPT ![work[w].run].fresh = TRUE]
      BY <1>10 DEF Progress
    <3> QED
      BY <1>1, <3>1 DEF Shape, RunRow
  <2> QED
    BY <2>1, <2>2, <2>3, ThinkSyncs
<1>11. CASE (\E f \in File : NextFile(w, f)) \/ NoMoreFiles(w)
  <2>1. UNCHANGED <<source, run, file, remote>>
    BY <1>11 DEF NextFile, NoMoreFiles
  <2> QED
    BY <1>1, <1>2, <1>11, <2>1, NextThinks
<1>12. CASE Download(w)
  <2>1. UNCHANGED <<source, run, remote>>
    BY <1>12 DEF Download
  <2> QED
    BY <1>1, <1>2, <1>12, <2>1, DownloadThinks
<1>13. CASE Finish(w)
  <2>1. InRun(w) /\ Leave(w) /\ UNCHANGED <<source, file, remote>>
    BY <1>13 DEF Finish, InRun, RunPhase
  <2>2. \A v \in Worker \ {w} : ~InRun(v)
    BY <1>1, <2>1, Alone DEF SyncInv
  <2>3. Loop("idle").phase = "idle"
    BY DEF Loop
  <2>4. \A v \in Worker : ~InRun(v)'
    BY <1>1, <2>1, <2>2, <2>3 DEF Leave, Shape, InRun, RunPhase, FilePhase
  <2>5. Budget' /\ NothingAhead' /\ EntitiesAreCurrent' /\ NothingLeftBehind'
    BY <2>1 DEF SyncInv, Budget, NothingAhead, EntitiesAreCurrent, NothingLeftBehind
  <2> QED
    BY <2>4, <2>5, NobodySyncs
<1>14. CASE Release(w)
  <2>1. /\ work' = [work EXCEPT ![w] = Loop("dead")] /\ UNCHANGED <<source, remote>>
        /\ work[w].run \in Run /\ work[w].phase = "release"
    BY <1>1, <1>14 DEF Release, Shape, WorkFit
  <2>2. CASE Mine(w)
    <3>1. ASSUME NEW v \in Worker, InRun(v) PROVE FALSE
      <4>1. /\ work[v].run \in Run /\ run[work[v].run].status = "RUNNING"
            /\ run[work[v].run].owner = v
        BY <1>1, <3>1 DEF SyncInv, OwnsRun, Shape, WorkFit, InRun
      <4>2. work[v].run = work[w].run
        BY <1>1, <2>1, <2>2, <4>1 DEF RunInv, RunsKept, ActiveRun, Mine
      <4> QED
        BY <2>1, <2>2, <3>1, <4>1, <4>2 DEF Mine, InRun, RunPhase, FilePhase
    <3>2. Loop("dead").phase = "dead"
      BY DEF Loop
    <3>3. \A v \in Worker : ~InRun(v)'
      BY <1>1, <2>1, <3>1, <3>2 DEF Shape, InRun, RunPhase, FilePhase
    <3>4. Interrupt(work[w].run)
      BY <1>14, <2>2 DEF Release
    <3> QED
      BY <2>1, <3>3, <3>4, InterruptSyncs
  <2>3. CASE ~Mine(w)
    <3>1. UNCHANGED <<run, file>>
      BY <1>14, <2>3 DEF Release
    <3> QED
      BY <1>1, <1>2, <2>1, <3>1, EndThinks
  <2> QED
    BY <2>2, <2>3
<1>15. CASE ReleaseFails(w) \/ Stop(w) \/ Crash(w)
  <2>1. UNCHANGED <<source, run, file, remote>>
    BY <1>15 DEF ReleaseFails, Stop, Crash
  <2>2. Thinks(w)
    BY <1>1, <1>15, EndThinks DEF ReleaseFails
  <2> QED
    BY <1>2, <2>1, <2>2
<1>16. CASE RegistryFault(w)
  <2>1. UNCHANGED <<source, run, file, remote>>
    BY <1>16 DEF RegistryFault
  <2> QED
    BY <1>1, <1>2, <1>16, <2>1, FaultThinks
<1>17. CASE Heartbeat(w)
  <2>1. work[w].run \in Run /\ run' = [run EXCEPT ![work[w].run].fresh = TRUE]
    BY <1>1, <1>17 DEF Heartbeat, Shape, WorkFit, InRun
  <2>2. SameRuns
    BY <1>1, <2>1, FreshRuns
  <2>3. \A v \in Worker : InRun(v) => run'[work[v].run].fresh
    BY <1>1, <2>1 DEF Shape, RunRow, SyncInv, OwnsRun, WorkFit, InRun
  <2>4. UNCHANGED <<source, file, remote, work>>
    BY <1>17 DEF Heartbeat
  <2>5. \A f \in File : remote'[f].version >= remote[f].version
    BY <1>1, <2>4 DEF Shape, Version
  <2> QED
    BY <2>2, <2>3, <2>4, <2>5, StillSyncs
<1> QED
  BY <1>3, <1>4, <1>5, <1>6, <1>7, <1>8, <1>9, <1>10, <1>11, <1>12, <1>13, <1>14, <1>15, <1>16, <1>17
  DEF WorkerStep, WorkerTrouble

\* A failed file that is reset for a retry is at nobody's hands.
LEMMA ResetSyncs ==
  ASSUME SyncInv, RunInv', NEW c \in Client, ResetFile(c)
  PROVE  SyncInv'
<1> DEFINE f == req[c].file
           row == [file[f] EXCEPT !.status = "PENDING", !.attempts = 0]
<1>1. Shape /\ UNCHANGED <<source, run, remote, work>>
  BY DEF SyncInv, RunInv, ResetFile
<1>2. f \in File /\ file[f] \in FileShape
  BY <1>1 DEF ResetFile, Shape, ReqFit
<1>3. SameRuns /\ \A w \in Worker : InRun(w) => run'[work[w].run].fresh
  <2>1. \A w \in Worker : InRun(w) => run[work[w].run].fresh
    BY DEF SyncInv, OwnsRun
  <2> QED
    BY <1>1, <2>1 DEF Shape, SameRuns
<1>4. CASE UNCHANGED file
  <2>1. \A g \in File : remote'[g].version >= remote[g].version
    BY <1>1 DEF Shape, Version
  <2> QED
    BY <1>1, <1>3, <1>4, <2>1, StillSyncs
<1>5. CASE file[f].status = "FAILED" /\ file[f].state = "ACTIVE" /\ PutFile(f, row)
  <2>1. /\ row.status = "PENDING" /\ row.attempts = 0 /\ row.tags = file[f].tags
        /\ row.state = file[f].state /\ row.entities = file[f].entities
    BY <1>2 DEF FileShape
  <2>2. file' = [file EXCEPT ![f] = row]
    BY <1>5 DEF PutFile
  <2> HIDE DEF row
  <2>3. file'[f] = row /\ \A g \in File \ {f} : file'[g] = file[g]
    BY <1>1, <1>2, <2>2 DEF Shape
  <2>4. ASSUME NEW w \in Worker PROVE Agrees(work[w])'
    <3>1. Agrees(work[w]) /\ work[w] \in WorkFit /\ work[w] \in WorkState
      BY <1>1 DEF SyncInv, Shape, WorkFit
    <3>2. work[w].arm \subseteq File /\ work[w].todo \subseteq File
      BY <3>1 DEF WorkState
    <3>3. work[w].phase \in {"begin", "persist"} => work[w].file \in File
      BY <3>1 DEF WorkFit, FilePhase
    <3>4. Advances(work[w])'
      <4>1. StageOf(row) # "mirrored"
        <5>1. row \in FileShape
          BY <1>2 DEF FileShape, row
        <5> QED
          BY <2>1, <5>1, Stages
      <4>2. ASSUME work[w].phase = "withdraw" PROVE work[w].gone \subseteq File
        BY <3>1 DEF WorkState
      <4> QED
        BY <1>1, <2>1, <2>3, <3>1, <3>2, <3>3, <4>1, <4>2 DEF Agrees, Advances
    <3> QED
      BY <1>1, <2>1, <2>3, <3>1, <3>2, <3>3, <3>4, SyncAssumption DEF Agrees
  <2>5. OwnsRun'
    BY <1>1 DEF SyncInv, OwnsRun, InRun
  <2>6. Budget' /\ NothingAhead' /\ EntitiesAreCurrent' /\ NothingLeftBehind'
    BY <1>1, <2>1, <2>3, SyncAssumption
    DEF SyncInv, Budget, NothingAhead, EntitiesAreCurrent, NothingLeftBehind
  <2> QED
    BY <2>4, <2>5, <2>6 DEF SyncInv
<1> QED
  BY <1>4, <1>5 DEF ResetFile

LEMMA NobodyWithoutRun ==
  ASSUME SyncInv, ~RunIsActive, UNCHANGED work
  PROVE  \A w \in Worker : ~InRun(w)'
<1>1. ASSUME NEW w \in Worker, InRun(w) PROVE FALSE
  <2>1. work[w].run \in Run /\ run[work[w].run].status = "RUNNING"
    BY <1>1 DEF SyncInv, OwnsRun, RunInv, Shape, WorkFit, InRun
  <2> QED
    BY <2>1 DEF RunIsActive, ActiveRun
<1> QED
  BY <1>1 DEF InRun

\* The steps of requests, administrators, time and SharePoint.
LEMMA RequestsSync ==
  ASSUME SyncInv, RunInv', "stall" \notin Hazard,
         \/ \E r \in Run : GoStale(r)
         \/ \E c \in Client : RequestStep(c)
         \/ Administration
         \/ SharePoint
  PROVE  SyncInv'
<1>1. Shape
  BY DEF SyncInv, RunInv
<1>2. \A w \in Worker : InRun(w) => run[work[w].run].fresh /\ work[w].run \in Run
  BY <1>1 DEF SyncInv, OwnsRun, Shape, WorkFit, InRun
<1>3. ASSUME UNCHANGED <<run, file, work>>,
             (source'.status = "DELETED") = (source.status = "DELETED"),
             \A f \in File : remote'[f].version >= remote[f].version
      PROVE  SyncInv'
  <2>1. SameRuns
    BY <1>1, <1>3 DEF Shape, SameRuns
  <2> QED
    BY <1>2, <1>3, <2>1, StillSyncs
<1>4. \A f \in File : remote[f].version >= remote[f].version
  BY <1>1 DEF Shape, Version
<1>5. ASSUME NEW r \in Run, GoStale(r)
      PROVE  SyncInv'
  <2>1. run' = [run EXCEPT ![r].fresh = FALSE] /\ UNCHANGED <<source, file, remote, work>>
    BY <1>5 DEF GoStale
  <2>2. SameRuns
    BY <1>1, <2>1, FreshRuns
  <2>3. \A w \in Worker : InRun(w) => work[w].run # r
    BY <1>5 DEF GoStale
  <2>4. \A w \in Worker : InRun(w) => run'[work[w].run].fresh
    BY <1>1, <1>2, <2>1, <2>3 DEF Shape
  <2> QED
    BY <1>4, <2>1, <2>2, <2>4, StillSyncs
<1>6. ASSUME NEW c \in Client, RequestStep(c)
      PROVE  SyncInv'
  <2>1. CASE AskSync(c) \/ (\E f \in File : AskRetry(c, f)) \/ Abort(c)
    BY <1>3, <1>4, <2>1 DEF AskSync, AskRetry, Abort
  <2>2. CASE ResetFile(c)
    BY <2>2, ResetSyncs
  <2>3. CASE CreateRun(c)
    <3>1. UNCHANGED <<source, file, remote, work>>
      BY <2>3 DEF CreateRun
    <3>2. CASE UNCHANGED run
      BY <1>3, <1>4, <3>1, <3>2
    <3>3. CASE ~RunIsActive
      <4>1. \A w \in Worker : ~InRun(w)'
        BY <3>1, <3>3, NobodyWithoutRun
      <4>2. Budget' /\ NothingAhead' /\ EntitiesAreCurrent' /\ NothingLeftBehind'
        BY <3>1 DEF SyncInv, Budget, NothingAhead, EntitiesAreCurrent, NothingLeftBehind
      <4> QED
        BY <4>1, <4>2, NobodySyncs
    <3> QED
      BY <2>3, <3>2, <3>3 DEF CreateRun
  <2> QED
    BY <1>6, <2>1, <2>2, <2>3 DEF RequestStep
<1>7. ASSUME NEW st \in {"ACTIVE", "DISABLED"}, SetStatus(st)
      PROVE  SyncInv'
  BY <1>1, <1>3, <1>4, <1>7 DEF SetStatus, Shape, Source
<1>8. ASSUME NEW t \in Folder, Relocate(t)
      PROVE  SyncInv'
  BY <1>1, <1>3, <1>4, <1>8 DEF Relocate, Shape, Source
<1>9. ASSUME DeleteSource
      PROVE  SyncInv'
  <2>1. /\ ~RunIsActive /\ UNCHANGED <<run, remote, work>> /\ source'.status = "DELETED"
    BY <1>1, <1>9 DEF DeleteSource, Shape, Source
  <2>2. \A w \in Worker : ~InRun(w)'
    BY <2>1, NobodyWithoutRun
  <2>3. \A f \in File : /\ file'[f].entities = 0 /\ file'[f].status = file[f].status
                        /\ file'[f].attempts = file[f].attempts /\ file'[f].tags = file[f].tags
    BY <1>1, <1>9 DEF DeleteSource, Shape, FileShape
  <2>4. Budget' /\ NothingAhead' /\ EntitiesAreCurrent' /\ NothingLeftBehind'
    <3>1. \A f \in File : 0 <= remote[f].version
      BY <1>1 DEF Shape, Version
    <3> QED
      BY <2>1, <2>3, <3>1 DEF SyncInv, Budget, NothingAhead, EntitiesAreCurrent, NothingLeftBehind
  <2> QED
    BY <2>2, <2>4, NobodySyncs
<1>10. ASSUME SharePoint
       PROVE  SyncInv'
  <2>1. UNCHANGED <<source, run, file, work>>
    BY <1>10 DEF SharePoint, Edit, Move
  <2>2. \A f \in File : remote'[f].version >= remote[f].version
    BY <1>1, <1>10, SharePointFits
  <2> QED
    BY <1>3, <2>1, <2>2
<1> QED
  BY <1>5, <1>6, <1>7, <1>8, <1>9, <1>10 DEF Administration

LEMMA SyncInvInit == Init => SyncInv
<1> SUFFICES ASSUME Init PROVE SyncInv
  OBVIOUS
<1>1. RunInv /\ Shape
  BY RunInvInit DEF RunInv
<1>2. \A f \in File : file[f] = NoFile /\ remote[f].version = 1
  BY DEF Init
<1>3. /\ NoFile.state = "ABSENT" /\ NoFile.tags = 0 /\ NoFile.attempts = 0 /\ NoFile.entities = 0
  BY DEF NoFile
<1>4. source.status = "ACTIVE" /\ \A w \in Worker : work[w] = Loop("off")
  BY DEF Init
<1>5. \A w \in Worker : ~InRun(w)
  BY <1>4 DEF InRun, Loop, RunPhase, FilePhase
<1>6. \A w \in Worker : Agrees(work[w])
  BY <1>1, <1>4, LoopAgrees
<1>7. OwnsRun
  BY <1>5 DEF OwnsRun
<1>8. Budget /\ NothingAhead /\ EntitiesAreCurrent /\ NothingLeftBehind
  BY <1>2, <1>3, <1>4, SyncAssumption DEF Budget, NothingAhead, EntitiesAreCurrent, NothingLeftBehind
<1> QED
  BY <1>1, <1>6, <1>7, <1>8 DEF SyncInv

LEMMA SyncInvNext == "stall" \notin Hazard => (SyncInv /\ [Next]_vars => SyncInv')
<1> SUFFICES ASSUME "stall" \notin Hazard, SyncInv, [Next]_vars PROVE SyncInv'
  OBVIOUS
<1>1. RunInv'
  BY RunInvNext DEF SyncInv
<1>2. CASE UNCHANGED vars
  <2>1. SameRuns /\ \A f \in File : remote'[f].version >= remote[f].version
    BY <1>2 DEF vars, SyncInv, RunInv, Shape, SameRuns, Version
  <2>2. \A w \in Worker : InRun(w) => run'[work[w].run].fresh
    BY <1>2 DEF vars, SyncInv, OwnsRun
  <2> QED
    BY <1>1, <1>2, <2>1, <2>2, StillSyncs DEF vars
<1> QED
  BY <1>1, <1>2, WorkersSync, RequestsSync DEF Next

\* While live workers keep up their heartbeats: what a worker has of its run and its file at each
\* step, and what the rows and entities of the files are.  It carries the four theorems below.
THEOREM SyncInvariant == "stall" \notin Hazard => (Spec => []SyncInv)
<1>1. CASE "stall" \notin Hazard
  <2>1. SyncInv /\ [Next]_vars => SyncInv'
    BY <1>1, SyncInvNext
  <2> QED
    BY <2>1, SyncInvInit, PTL DEF Spec
<1> QED
  BY <1>1

\* While live workers keep up their heartbeats, whatever else fails, every column and every
\* worker's memory keeps its range: no file is attempted more often than its budget allows.
THEOREM SyncTypes == "stall" \notin Hazard => (Spec => []TypeOK)
<1>1. SyncInv => TypeOK
  <2> SUFFICES ASSUME SyncInv PROVE TypeOK
    OBVIOUS
  <2>1. Shape /\ Budget
    BY DEF SyncInv, RunInv
  <2>2. file \in [File -> FileRow]
    BY <2>1, SyncAssumption DEF Shape, Budget, FileShape, FileRow
  <2>3. work \in [Worker -> WorkState] /\ req \in [Client -> ReqState]
    BY <2>1 DEF Shape, WorkFit, ReqFit
  <2> QED
    BY <2>1, <2>2, <2>3 DEF Shape, TypeOK
<1> QED
  BY <1>1, SyncInvariant, PTL

\* Under the same condition a worker inside a run owns it and nobody finds it stale, so no two
\* workers sync the source at a time, however claims, crashes and releases fall.
THEOREM OneWorkerSyncs == "stall" \notin Hazard => (Spec => []OwnsRun)
<1>1. SyncInv => OwnsRun
  BY DEF SyncInv
<1> QED
  BY <1>1, SyncInvariant, PTL

\* Under the same condition a file that the next sync takes for unchanged has the entities of
\* the content its stored tags stand for, or of a later one.
THEOREM SyncedEntitiesAreCurrent == "stall" \notin Hazard => (Spec => []EntitiesAreCurrent)
<1>1. SyncInv => EntitiesAreCurrent
  BY DEF SyncInv
<1> QED
  BY <1>1, SyncInvariant, PTL

\* Under the same condition a deleted source and a withdrawn file have nothing in the CRM store.
THEOREM NothingStays == "stall" \notin Hazard => (Spec => []NothingLeftBehind)
<1>1. SyncInv => NothingLeftBehind
  BY DEF SyncInv
<1> QED
  BY <1>1, SyncInvariant, PTL

-----------------------------------------------------------------------------
(* The synchronization implements the mirror: every step maps to a step of    *)
(* CrmMirror or leaves it as it is.                                           *)

MirrorSame == UNCHANGED <<AtWork, Stage, Noted, Stored, Content, Closed>>
MirrorStep == Mirror!Next \/ MirrorSame

LEMMA FilesSame ==
  /\ UNCHANGED file => UNCHANGED <<Stage, Noted, Stored>>
  /\ UNCHANGED remote => UNCHANGED Content
  /\ source'.status = source.status => UNCHANGED Closed
  /\ UNCHANGED work => UNCHANGED AtWork
<1>1. UNCHANGED file => UNCHANGED <<Stage, Noted, Stored>>
  BY DEF Stage, Noted, Stored
<1>2. UNCHANGED remote => UNCHANGED Content
  BY DEF Content
<1>3. source'.status = source.status => UNCHANGED Closed
  BY DEF Closed
<1>4. UNCHANGED work => UNCHANGED AtWork
  BY DEF AtWork, InRun
<1> QED
  BY <1>1, <1>2, <1>3, <1>4

\* A step of w that changes its memory leaves the mirror as it is, unless w leaves its run.
LEMMA ThinkMirrors ==
  ASSUME Shape, NEW w \in Worker, Thinks(w), UNCHANGED <<file, remote>>,
         source'.status = source.status
  PROVE  MirrorStep
<1>1. PICK t \in WorkFit : work' = [work EXCEPT ![w] = t] /\ Follows(work[w], t)
  BY DEF Thinks
<1>2. work'[w] = t /\ \A v \in Worker \ {w} : work'[v] = work[v]
  BY <1>1 DEF Shape
<1>3. UNCHANGED <<Stage, Noted, Stored, Content, Closed>>
  BY FilesSame
<1>4. \A v \in Worker \ {w} : InRun(v)' <=> InRun(v)
  BY <1>2 DEF InRun
<1>5. InRun(w)' => InRun(w)
  BY <1>1, <1>2 DEF InRun, Follows
<1>6. CASE InRun(w)' <=> InRun(w)
  <2>1. UNCHANGED AtWork
    BY <1>4, <1>6 DEF AtWork
  <2> QED
    BY <1>3, <2>1 DEF MirrorStep, MirrorSame
<1>7. CASE InRun(w) /\ ~InRun(w)'
  <2>1. w \in AtWork /\ AtWork' = AtWork \ {w}
    BY <1>4, <1>7 DEF AtWork
  <2>2. Mirror!Leave(w)
    BY <1>3, <2>1 DEF Mirror!Leave
  <2> QED
    BY <2>2 DEF MirrorStep, Mirror!Next
<1> QED
  BY <1>5, <1>6, <1>7

\* A worker that writes one file changes what the mirror has of that file.
LEMMA WriteMirrors ==
  ASSUME Shape, NEW w \in Worker, NEW t \in WorkFit, NEW f \in File, NEW row \in FileShape,
         Writes(w, t, f, row), UNCHANGED <<source, remote>>
  PROVE  /\ AtWork # {} /\ UNCHANGED <<AtWork, Content, Closed>>
         /\ Stage' = [Stage EXCEPT ![f] = StageOf(row)]
         /\ Noted' = [Noted EXCEPT ![f] = row.tags]
         /\ Stored' = [Stored EXCEPT ![f] = row.entities]
<1>1. /\ work' = [work EXCEPT ![w] = t] /\ file' = [file EXCEPT ![f] = row]
      /\ InRun(w) /\ t.phase \in RunPhase
  BY DEF Writes
<1>2. work'[w] = t /\ \A v \in Worker \ {w} : work'[v] = work[v]
  BY <1>1 DEF Shape
<1>3. \A v \in Worker : InRun(v)' <=> InRun(v)
  BY <1>1, <1>2 DEF InRun
<1>4. AtWork # {} /\ UNCHANGED AtWork
  BY <1>1, <1>3 DEF AtWork
<1>5. file'[f] = row /\ \A g \in File \ {f} : file'[g] = file[g]
  BY <1>1 DEF Shape
<1>6. Stage' = [Stage EXCEPT ![f] = StageOf(row)]
  BY <1>5 DEF Stage
<1>7. Noted' = [Noted EXCEPT ![f] = row.tags] /\ Stored' = [Stored EXCEPT ![f] = row.entities]
  BY <1>5 DEF Noted, Stored
<1> QED
  BY <1>4, <1>6, <1>7, FilesSame

\* What the mirror has of a file.
LEMMA MirrorOf ==
  ASSUME Shape, NEW f \in File
  PROVE  /\ Stage[f] = StageOf(file[f]) /\ Noted[f] = file[f].tags /\ Stored[f] = file[f].entities
         /\ Content[f] = remote[f].version
         /\ Noted[f] \in Nat /\ Stored[f] \in Nat /\ Content[f] \in Nat
<1>1. file[f] \in FileShape /\ remote[f].version \in Version
  BY DEF Shape
<1>2. file[f].tags \in Nat /\ file[f].entities \in Nat /\ remote[f].version \in Nat
  BY <1>1, SyncAssumption DEF FileShape, Version
<1> QED
  BY <1>2 DEF Stage, Noted, Stored, Content

LEMMA NoteOrMirror ==
  ASSUME Shape, NEW f \in File, NEW v \in 0..Content[f], Mirror!Note(f, v) \/ Mirror!Mirror(f, v)
  PROVE  MirrorStep
BY DEF MirrorStep, Mirror!Next

\* A file is armed with a content it had, later than the one it was mirrored for.
LEMMA ArmMirrors ==
  ASSUME SyncInv, NEW w \in Worker, NEW f \in File, Arm(w, f)
  PROVE  MirrorStep
<1>1. Shape /\ Agrees(work[w])
  BY DEF SyncInv, RunInv
<1>2. PICK t \in WorkFit, row \in FileShape :
         /\ Writes(w, t, f, row)
         /\ work[w].phase = "arm" /\ f \in work[w].arm
         /\ row.state = "ACTIVE" /\ row.status = "PENDING" /\ row.tags = work[w].listed[f]
         /\ row.entities = file[f].entities
  BY <1>1, ArmWrites
<1>3. UNCHANGED <<source, remote>>
  BY DEF Arm
<1>4. /\ AtWork # {} /\ UNCHANGED <<AtWork, Content, Closed>>
      /\ Stage' = [Stage EXCEPT ![f] = StageOf(row)]
      /\ Noted' = [Noted EXCEPT ![f] = row.tags]
      /\ Stored' = [Stored EXCEPT ![f] = row.entities]
  BY <1>1, <1>2, <1>3, WriteMirrors
<1>5. StageOf(row) = "waiting"
  BY <1>2, Stages
<1>6. ~Closed
  BY <1>1, <1>2 DEF Agrees, RunPhase, Closed
<1>7. UNCHANGED Stored
  <2>1. row.entities = Stored[f]
    BY <1>1, <1>2, MirrorOf
  <2> QED
    BY <1>4, <2>1 DEF Stored
<1> DEFINE v == work[w].listed[f]
<1>8. v \in Nat
  BY <1>1, SyncAssumption DEF Shape, WorkFit, WorkState
<1>9. /\ v # 0 /\ v <= Content[f] /\ v >= Noted[f]
      /\ Stage[f] = "mirrored" => v # Noted[f]
  BY <1>1, <1>2, <1>8, MirrorOf DEF Agrees, Advances
<1> HIDE DEF v
<1>10. /\ v \in 1..Content[f] /\ v \in 0..Content[f]
       /\ Stage[f] = "mirrored" => v > Noted[f]
  BY <1>1, <1>8, <1>9, MirrorOf
<1>11. Noted' = [Noted EXCEPT ![f] = v]
  BY <1>2, <1>4 DEF v
<1>12. Mirror!Note(f, v)
  BY <1>4, <1>5, <1>6, <1>7, <1>9, <1>10, <1>11 DEF Mirror!Note
<1> QED
  BY <1>1, <1>10, <1>12, NoteOrMirror

\* The file that is begun was waiting.
LEMMA BeginMirrors ==
  ASSUME SyncInv, NEW w \in Worker, Begin(w)
  PROVE  MirrorStep
<1>1. Shape /\ Agrees(work[w]) /\ UNCHANGED <<source, remote>>
  BY DEF SyncInv, RunInv, Begin
<1>2. CASE Thinks(w) /\ UNCHANGED file
  BY <1>1, <1>2, ThinkMirrors
<1>3. ASSUME NEW t \in WorkFit, NEW f \in File, NEW row \in FileShape, Writes(w, t, f, row),
             work[w].phase = "begin", work[w].file = f, file[f].state = "ACTIVE",
             row.state = "ACTIVE", row.status = "PROCESSING",
             row.tags = file[f].tags, row.entities = file[f].entities
      PROVE  MirrorStep
  <2>1. /\ AtWork # {} /\ UNCHANGED <<AtWork, Content, Closed>>
        /\ Stage' = [Stage EXCEPT ![f] = StageOf(row)]
        /\ Noted' = [Noted EXCEPT ![f] = row.tags]
        /\ Stored' = [Stored EXCEPT ![f] = row.entities]
    BY <1>1, <1>3, WriteMirrors
  <2>2. row.tags = Noted[f] /\ row.entities = Stored[f] /\ Stage[f] = StageOf(file[f])
    BY <1>1, <1>3, MirrorOf
  <2>3. UNCHANGED <<Noted, Stored>>
    BY <2>1, <2>2 DEF Noted, Stored
  <2>4. ~Closed /\ file[f].status = "PENDING" /\ file[f] \in FileShape
    BY <1>1, <1>3 DEF Agrees, Shape, RunPhase, FilePhase, Closed
  <2>5. StageOf(row) = "syncing" /\ Stage[f] = "waiting"
    BY <1>3, <2>2, <2>4, Stages
  <2>6. Mirror!Begin(f)
    BY <2>1, <2>3, <2>4, <2>5 DEF Mirror!Begin
  <2> QED
    BY <2>6 DEF MirrorStep, Mirror!Next
<1> QED
  BY <1>1, <1>2, <1>3, BeginWrites

\* What is mirrored is no older than what was noted of the file and what the store had.
LEMMA EndFileMirrors ==
  ASSUME SyncInv, NEW w \in Worker, Persist(w) \/ FailFile(w)
  PROVE  MirrorStep
<1>1. Shape /\ Agrees(work[w]) /\ UNCHANGED <<source, remote>>
  BY DEF SyncInv, RunInv, Persist, FailFile
<1>2. CASE Thinks(w) /\ UNCHANGED file
  BY <1>1, <1>2, ThinkMirrors
<1>3. ASSUME NEW t \in WorkFit, NEW f \in File, NEW row \in FileShape, Writes(w, t, f, row),
             work[w].phase \in {"download", "persist"}, work[w].file = f,
             file[f].status = "PROCESSING", row.state = file[f].state, row.tags = file[f].tags,
             \/ /\ work[w].phase = "persist" /\ row.status = "COMPLETED"
                /\ row.state = "ACTIVE" /\ row.entities = work[w].content
             \/ row.status = "FAILED" /\ row.entities = file[f].entities
      PROVE  MirrorStep
  <2>1. /\ AtWork # {} /\ UNCHANGED <<AtWork, Content, Closed>>
        /\ Stage' = [Stage EXCEPT ![f] = StageOf(row)]
        /\ Noted' = [Noted EXCEPT ![f] = row.tags]
        /\ Stored' = [Stored EXCEPT ![f] = row.entities]
    BY <1>1, <1>3, WriteMirrors
  <2>2. row.tags = Noted[f] /\ file[f].entities = Stored[f] /\ Stage[f] = StageOf(file[f])
    BY <1>1, <1>3, MirrorOf
  <2>3. UNCHANGED Noted
    BY <2>1, <2>2 DEF Noted
  <2>4. ~Closed /\ file[f] \in FileShape
    BY <1>1, <1>3 DEF Agrees, Shape, RunPhase, FilePhase, Closed
  <2>5. CASE /\ work[w].phase = "persist" /\ row.status = "COMPLETED"
             /\ row.state = "ACTIVE" /\ row.entities = work[w].content
    <3> DEFINE v == work[w].content
    <3>1. StageOf(row) = "mirrored" /\ Stage[f] = "syncing"
      BY <1>3, <2>2, <2>4, <2>5, Stages
    <3>2. v \in Nat
      BY <1>1, SyncAssumption DEF Shape, WorkFit, WorkState
    <3>3. Noted[f] <= v /\ Stored[f] <= v /\ v <= Content[f]
      BY <1>1, <1>3, <2>5, MirrorOf DEF Agrees, Advances
    <3>4. Stored' = [Stored EXCEPT ![f] = v]
      BY <2>1, <2>5
    <3> HIDE DEF v
    <3>5. v \in Noted[f]..Content[f] /\ v >= Stored[f] /\ v \in 0..Content[f]
      BY <1>1, <3>2, <3>3, MirrorOf
    <3>6. Mirror!Mirror(f, v)
      BY <2>1, <2>3, <2>4, <3>1, <3>4, <3>5 DEF Mirror!Mirror
    <3> QED
      BY <1>1, <3>5, <3>6, NoteOrMirror
  <2>6. CASE row.status = "FAILED" /\ row.entities = file[f].entities
    <3>1. UNCHANGED Stored
      BY <2>1, <2>2, <2>6 DEF Stored
    <3>2. CASE file[f].state = "ACTIVE"
      <4>1. StageOf(row) = "failed" /\ Stage[f] = "syncing"
        BY <1>3, <2>2, <2>4, <2>6, <3>2, Stages
      <4>2. Mirror!Fail(f)
        BY <2>1, <2>3, <2>4, <3>1, <4>1 DEF Mirror!Fail
      <4> QED
        BY <4>2 DEF MirrorStep, Mirror!Next
    <3>3. CASE file[f].state # "ACTIVE"
      <4>1. StageOf(row) = Stage[f]
        BY <1>3, <2>2, <3>3 DEF StageOf
      <4>2. UNCHANGED Stage
        BY <2>1, <4>1 DEF Stage
      <4> QED
        BY <2>1, <2>3, <3>1, <4>2 DEF MirrorStep, MirrorSame
    <3> QED
      BY <3>2, <3>3
  <2> QED
    BY <1>3, <2>5, <2>6
<1> QED
  BY <1>1, <1>2, <1>3, EndFileWrites

\* What is withdrawn had been noted.
LEMMA WithdrawMirrors ==
  ASSUME SyncInv, NEW w \in Worker, Withdraw(w)
  PROVE  MirrorStep
<1>1. Shape /\ Agrees(work[w]) /\ work[w].gone \in SUBSET File /\ UNCHANGED <<source, remote>>
  BY DEF SyncInv, RunInv, Shape, WorkFit, WorkState, Withdraw
<1>2. PICK t \in WorkFit :
           /\ work' = [work EXCEPT ![w] = t] /\ work[w].phase = "withdraw" /\ InRun(w)
           /\ t.phase = "arm" /\ file' \in [File -> FileShape]
           /\ \A f \in File :
                /\ file'[f].tags = file[f].tags
                /\ \/ file'[f] = file[f] /\ f \notin work[w].gone
                   \/ /\ file'[f].state # "ACTIVE" /\ file'[f].entities = 0 /\ f \in work[w].gone
                      /\ file[f].state = "ACTIVE" => file'[f].state = "DELETED"
  BY <1>1, WithdrawDoes
<1> DEFINE S == work[w].gone
<1>3. AtWork # {} /\ UNCHANGED AtWork
  <2>1. work'[w] = t /\ \A v \in Worker \ {w} : work'[v] = work[v]
    BY <1>1, <1>2 DEF Shape
  <2>2. \A v \in Worker : InRun(v)' <=> InRun(v)
    BY <1>2, <2>1 DEF InRun, RunPhase
  <2> QED
    BY <1>2, <2>2 DEF AtWork
<1>4. UNCHANGED <<Noted, Content, Closed>> /\ ~Closed
  BY <1>1, <1>2, FilesSame DEF Noted, Agrees, RunPhase, Closed
<1>5. \A f \in S : file[f].state = "ACTIVE" /\ f \in File
  BY <1>1, <1>2 DEF Agrees, Advances
<1> HIDE DEF S
<1>6. \A f \in S : Stage[f] # "unknown"
  <2> SUFFICES ASSUME NEW f \in S PROVE Stage[f] # "unknown"
    OBVIOUS
  <2>1. f \in File /\ file[f] \in FileShape
    BY <1>1, <1>5 DEF Shape
  <2> QED
    BY <1>1, <1>5, <2>1, MirrorOf, Stages
<1>7. ASSUME NEW f \in File
      PROVE  /\ StageOf(file'[f]) = IF f \in S THEN "gone" ELSE StageOf(file[f])
             /\ file'[f].entities = IF f \in S THEN 0 ELSE file[f].entities
  <2>1. file'[f] \in FileShape
    BY <1>2
  <2> QED
    BY <1>2, <1>5, <2>1, Stages DEF S
<1>8. Stage' = [f \in File |-> IF f \in S THEN "gone" ELSE Stage[f]]
  BY <1>7 DEF Stage
<1>9. Stored' = [f \in File |-> IF f \in S THEN 0 ELSE Stored[f]]
  BY <1>7 DEF Stored
<1>10. Mirror!Drop(S)
  BY <1>3, <1>4, <1>6, <1>8, <1>9 DEF Mirror!Drop
<1> QED
  BY <1>1, <1>10 DEF MirrorStep, Mirror!Next, S

\* A run is interrupted when nobody is at work.
LEMMA InterruptMirrors ==
  ASSUME SyncInv, NEW r \in Run, Interrupt(r), UNCHANGED <<source, remote>>,
         \A w \in Worker : ~InRun(w), \A w \in Worker : ~InRun(w)'
  PROVE  MirrorStep
<1> DEFINE S == {f \in InFlight(r) : file[f].state = "ACTIVE"}
<1>1. Shape /\ AtWork = {} /\ UNCHANGED AtWork
  BY DEF SyncInv, RunInv, AtWork
<1>2. \A f \in File : f \in S <=> file[f].run = r /\ file[f].status = "PROCESSING" /\ file[f].state = "ACTIVE"
  BY DEF InFlight
<1>3. S \in SUBSET File
  BY DEF InFlight
<1> HIDE DEF S
<1>4. ASSUME NEW f \in File
      PROVE  /\ file'[f].tags = file[f].tags /\ file'[f].entities = file[f].entities
             /\ StageOf(file'[f]) = IF f \in S THEN "failed" ELSE StageOf(file[f])
             /\ f \in S => StageOf(file[f]) = "syncing"
  <2>1. /\ file[f] \in FileShape /\ file'[f] \in FileShape
        /\ file'[f].status = IF file[f].run = r /\ file[f].status = "PROCESSING" THEN "FAILED" ELSE file[f].status
        /\ file'[f].state = file[f].state
        /\ file'[f].tags = file[f].tags /\ file'[f].entities = file[f].entities
    BY <1>1, InterruptShape DEF Shape
  <2>2. CASE f \in S
    BY <1>2, <2>1, <2>2, Stages
  <2>3. CASE f \notin S
    <3>1. file[f].state = "ACTIVE" => file'[f].status = file[f].status
      BY <1>2, <2>1, <2>3
    <3> QED
      BY <2>1, <2>3, <3>1 DEF StageOf
  <2> QED
    BY <2>1, <2>2, <2>3
<1>5. UNCHANGED <<Noted, Stored, Content, Closed>>
  BY <1>4, FilesSame DEF Noted, Stored
<1>6. Stage' = [f \in File |-> IF f \in S THEN "failed" ELSE Stage[f]]
  BY <1>4 DEF Stage
<1>7. \A f \in S : Stage[f] = "syncing"
  BY <1>3, <1>4 DEF Stage
<1>8. Mirror!Interrupt(S)
  BY <1>1, <1>5, <1>6, <1>7 DEF Mirror!Interrupt
<1> QED
  BY <1>3, <1>8 DEF MirrorStep, Mirror!Next

\* A run is claimed when nobody is at work.
LEMMA ClaimMirrors ==
  ASSUME SyncInv, NEW w \in Worker, NEW r \in Run, Claim(w, r)
  PROVE  MirrorStep
<1>1. Shape /\ UNCHANGED <<source, file, remote>> /\ run[r].status = "QUEUED"
  BY DEF SyncInv, RunInv, Claim
<1>2. \A v \in Worker : ~InRun(v)
  <2> SUFFICES ASSUME NEW v \in Worker, InRun(v) PROVE FALSE
    OBVIOUS
  <2>1. work[v].run \in Run /\ run[work[v].run].status = "RUNNING"
    BY <1>1 DEF SyncInv, OwnsRun, Shape, WorkFit, InRun
  <2> QED
    BY <1>1, <2>1 DEF SyncInv, RunInv, RunsKept, ActiveRun
<1>3. work'[w].phase = "open" /\ \A v \in Worker \ {w} : work'[v] = work[v]
  <2>1. work[w] \in WorkState
    BY <1>1 DEF Shape, WorkFit
  <2>2. work' = [work EXCEPT ![w] = [work[w] EXCEPT !.phase = "open", !.run = r]]
    BY DEF Claim
  <2> QED
    BY <1>1, <2>1, <2>2 DEF Shape, WorkState
<1>4. AtWork = {} /\ AtWork' = {w}
  BY <1>2, <1>3 DEF AtWork, InRun, RunPhase
<1>5. UNCHANGED <<Stage, Noted, Stored, Content, Closed>>
  BY <1>1, FilesSame
<1>6. Mirror!Take(w)
  BY <1>4, <1>5 DEF Mirror!Take
<1> QED
  BY <1>6 DEF MirrorStep, Mirror!Next

\* Every step of a worker.
LEMMA WorkersMirror ==
  ASSUME SyncInv, NEW w \in Worker, WorkerStep(w) \/ WorkerTrouble(w) \/ Heartbeat(w)
  PROVE  MirrorStep
<1>1. RunInv /\ Shape
  BY DEF SyncInv, RunInv
<1>2. ASSUME Thinks(w), UNCHANGED <<file, remote>>, source'.status = source.status
      PROVE  MirrorStep
  BY <1>1, <1>2, ThinkMirrors
<1>3. ASSUME UNCHANGED <<source, file, remote, work>>
      PROVE  MirrorStep
  BY <1>3, FilesSame DEF MirrorStep, MirrorSame
<1>4. CASE Start(w) \/ Open(w) \/ Resolve(w) \/ CachedIsGone(w) \/ GraphFails(w)
  <2>1. UNCHANGED <<source, file, remote>>
    BY <1>4 DEF Start, Open, Resolve, CachedIsGone, GraphFails
  <2> QED
    BY <1>1, <1>2, <1>4, <2>1, OpenThinks
<1>5. ASSUME NEW r \in Run, Recover(w, r)
      PROVE  MirrorStep
  <2>1. run[r].status = "RUNNING" /\ ~run[r].fresh /\ Interrupt(r) /\ UNCHANGED <<source, remote, work>>
    BY <1>5 DEF Recover
  <2>2. ASSUME NEW v \in Worker, InRun(v) PROVE FALSE
    <3>1. work[v].run \in Run /\ run[work[v].run].status = "RUNNING" /\ run[work[v].run].fresh
      BY <1>1, <2>2 DEF SyncInv, OwnsRun, Shape, WorkFit, InRun
    <3> QED
      BY <1>1, <2>1, <3>1 DEF RunInv, RunsKept, ActiveRun
  <2>3. \A v \in Worker : ~InRun(v)'
    BY <2>1, <2>2 DEF InRun
  <2> QED
    BY <2>1, <2>2, <2>3, InterruptMirrors
<1>6. ASSUME NEW r \in Run, Claim(w, r) \/ ClaimLost(w, r)
      PROVE  MirrorStep
  BY <1>3, <1>6, ClaimMirrors DEF ClaimLost
<1>7. CASE Cache(w)
  <2>1. UNCHANGED <<file, remote>> /\ source'.status = source.status
    BY <1>1, <1>7 DEF Cache, Shape, Source
  <2> QED
    BY <1>1, <1>2, <1>7, <2>1, CacheThinks
<1>8. ASSUME NEW S \in SUBSET In(work[w].target), NEW complete \in BOOLEAN, List(w, S, complete)
      PROVE  MirrorStep
  <2>1. UNCHANGED <<source, file, remote>>
    BY <1>8 DEF List
  <2> QED
    BY <1>1, <1>2, <1>8, <2>1, ListThinks
<1>9. CASE Plan(w)
  <2>1. UNCHANGED <<source, file, remote>>
    BY <1>9 DEF Plan
  <2> QED
    BY <1>1, <1>2, <1>9, <2>1, PlanThinks
<1>10. CASE Withdraw(w) \/ (\E f \in File : Arm(w, f)) \/ Begin(w) \/ Persist(w) \/ FailFile(w)
  BY <1>10, WithdrawMirrors, ArmMirrors, BeginMirrors, EndFileMirrors
<1>11. CASE Progress(w)
  <2>1. Thinks(w)
    BY <1>1, <1>11, ProgressThinks
  <2>2. UNCHANGED <<source, file, remote>>
    BY <1>11 DEF Progress
  <2> QED
    BY <1>2, <2>1, <2>2
<1>12. CASE (\E f \in File : NextFile(w, f)) \/ NoMoreFiles(w)
  <2>1. UNCHANGED <<source, file, remote>>
    BY <1>12 DEF NextFile, NoMoreFiles
  <2> QED
    BY <1>1, <1>2, <1>12, <2>1, NextThinks
<1>13. CASE Download(w)
  <2>1. UNCHANGED <<source, remote>>
    BY <1>13 DEF Download
  <2> QED
    BY <1>1, <1>2, <1>13, <2>1, DownloadThinks
<1>14. CASE Finish(w)
  <2>1. Leave(w) /\ UNCHANGED <<source, file, remote>>
    BY <1>14 DEF Finish
  <2> QED
    BY <1>1, <1>2, <2>1, LeaveThinks
<1>15. CASE Release(w)
  <2>1. /\ work' = [work EXCEPT ![w] = Loop("dead")] /\ UNCHANGED <<source, remote>>
        /\ work[w].run \in Run /\ work[w].phase = "release"
    BY <1>1, <1>15 DEF Release, Shape, WorkFit
  <2>2. CASE Mine(w)
    <3>1. ASSUME NEW v \in Worker, InRun(v) PROVE FALSE
      <4>1. /\ work[v].run \in Run /\ run[work[v].run].status = "RUNNING"
            /\ run[work[v].run].owner = v
        BY <1>1, <3>1 DEF SyncInv, OwnsRun, Shape, WorkFit, InRun
      <4>2. work[v].run = work[w].run
        BY <1>1, <2>1, <2>2, <4>1 DEF RunInv, RunsKept, ActiveRun, Mine
      <4> QED
        BY <2>1, <2>2, <3>1, <4>1, <4>2 DEF Mine, InRun, RunPhase, FilePhase
    <3>2. Loop("dead").phase = "dead"
      BY DEF Loop
    <3>3. \A v \in Worker : ~InRun(v)'
      BY <1>1, <2>1, <3>1, <3>2 DEF Shape, InRun, RunPhase, FilePhase
    <3>4. Interrupt(work[w].run)
      BY <1>15, <2>2 DEF Release
    <3> QED
      BY <2>1, <3>1, <3>3, <3>4, InterruptMirrors
  <2>3. CASE ~Mine(w)
    <3>1. UNCHANGED <<run, file>>
      BY <1>15, <2>3 DEF Release
    <3> QED
      BY <1>1, <1>2, <2>1, <3>1, EndThinks
  <2> QED
    BY <2>2, <2>3
<1>16. CASE ReleaseFails(w) \/ Stop(w) \/ Crash(w)
  <2>1. UNCHANGED <<source, file, remote>>
    BY <1>16 DEF ReleaseFails, Stop, Crash
  <2>2. Thinks(w)
    BY <1>1, <1>16, EndThinks DEF ReleaseFails
  <2> QED
    BY <1>2, <2>1, <2>2
<1>17. CASE RegistryFault(w)
  <2>1. UNCHANGED <<source, file, remote>>
    BY <1>17 DEF RegistryFault
  <2> QED
    BY <1>1, <1>2, <1>17, <2>1, FaultThinks
<1>18. CASE Heartbeat(w)
  BY <1>3, <1>18 DEF Heartbeat
<1> QED
  BY <1>4, <1>5, <1>6, <1>7, <1>8, <1>9, <1>10, <1>11, <1>12, <1>13, <1>14, <1>15, <1>16, <1>17, <1>18
  DEF WorkerStep, WorkerTrouble

\* The steps of requests, administrators, time and SharePoint.
LEMMA RequestsMirror ==
  ASSUME SyncInv,
         \/ \E r \in Run : GoStale(r)
         \/ \E c \in Client : RequestStep(c)
         \/ Administration
         \/ SharePoint
  PROVE  MirrorStep
<1>1. Shape
  BY DEF SyncInv, RunInv
<1>2. ASSUME UNCHANGED <<file, remote, work>>, source'.status = source.status
      PROVE  MirrorStep
  BY <1>2, FilesSame DEF MirrorStep, MirrorSame
<1>3. ASSUME NEW r \in Run, GoStale(r)
      PROVE  MirrorStep
  BY <1>2, <1>3 DEF GoStale
<1>4. ASSUME NEW c \in Client, RequestStep(c)
      PROVE  MirrorStep
  <2>1. CASE AskSync(c) \/ (\E f \in File : AskRetry(c, f)) \/ Abort(c) \/ CreateRun(c)
    BY <1>2, <2>1 DEF AskSync, AskRetry, Abort, CreateRun
  <2>2. CASE ResetFile(c)
    <3> DEFINE f == req[c].file
               row == [file[f] EXCEPT !.status = "PENDING", !.attempts = 0]
    <3>1. UNCHANGED <<source, run, remote, work>> /\ f \in File /\ file[f] \in FileShape
      BY <1>1, <2>2 DEF ResetFile, Shape, ReqFit
    <3>2. CASE UNCHANGED file
      BY <1>2, <3>1, <3>2
    <3>3. CASE file[f].status = "FAILED" /\ file[f].state = "ACTIVE" /\ PutFile(f, row)
      <4>1. /\ row \in FileShape /\ row.status = "PENDING" /\ row.state = "ACTIVE"
            /\ row.tags = file[f].tags /\ row.entities = file[f].entities
        BY <3>1, <3>3 DEF FileShape
      <4>2. file' = [file EXCEPT ![f] = row]
        BY <3>3 DEF PutFile
      <4>3. StageOf(row) = "waiting" /\ StageOf(file[f]) = "failed"
        BY <3>1, <3>3, <4>1, Stages
      <4> HIDE DEF row
      <4>4. file'[f] = row /\ \A g \in File \ {f} : file'[g] = file[g]
        BY <1>1, <3>1, <4>2 DEF Shape
      <4> HIDE DEF f
      <4>5. Stage[f] = "failed" /\ Stage' = [Stage EXCEPT ![f] = "waiting"]
        <5>1. f \in File /\ \A g \in File : StageOf(file'[g]) = IF g = f THEN "waiting" ELSE StageOf(file[g])
          BY <3>1, <4>3, <4>4
        <5> QED
          BY <4>3, <5>1 DEF Stage
      <4>6. UNCHANGED <<AtWork, Noted, Stored, Content, Closed>>
        BY <3>1, <4>1, <4>4, FilesSame DEF Noted, Stored
      <4>7. Mirror!Retry(f)
        BY <4>5, <4>6 DEF Mirror!Retry
      <4> QED
        BY <3>1, <4>7 DEF MirrorStep, Mirror!Next
    <3> QED
      BY <2>2, <3>2, <3>3 DEF ResetFile
  <2> QED
    BY <1>4, <2>1, <2>2 DEF RequestStep
<1>5. ASSUME NEW st \in {"ACTIVE", "DISABLED"}, SetStatus(st)
      PROVE  MirrorStep
  <2>1. source.status # "DELETED" /\ source'.status # "DELETED" /\ UNCHANGED <<file, remote, work>>
    BY <1>1, <1>5 DEF SetStatus, Shape, Source
  <2>2. UNCHANGED Closed
    BY <2>1 DEF Closed
  <2> QED
    BY <2>1, <2>2, FilesSame DEF MirrorStep, MirrorSame
<1>6. ASSUME NEW t \in Folder, Relocate(t)
      PROVE  MirrorStep
  BY <1>1, <1>2, <1>6 DEF Relocate, Shape, Source
<1>7. ASSUME DeleteSource
      PROVE  MirrorStep
  <2>1. /\ ~RunIsActive /\ UNCHANGED <<remote, work>>
        /\ source.status # "DELETED" /\ source'.status = "DELETED"
    BY <1>1, <1>7 DEF DeleteSource, Shape, Source
  <2>2. AtWork = {} /\ UNCHANGED <<AtWork, Content>>
    <3>1. \A w \in Worker : ~InRun(w)'
      BY <2>1, NobodyWithoutRun
    <3> QED
      BY <2>1, <3>1, FilesSame DEF AtWork, InRun
  <2>3. \A f \in File : /\ file'[f].entities = 0 /\ file'[f].status = file[f].status
                        /\ file'[f].state = file[f].state /\ file'[f].tags = file[f].tags
    BY <1>1, <1>7 DEF DeleteSource, Shape, FileShape
  <2>4. UNCHANGED <<Stage, Noted>> /\ Stored' = [f \in File |-> 0]
    BY <2>3 DEF Stage, StageOf, Noted, Stored
  <2>5. ~Closed /\ Closed' = TRUE
    BY <2>1 DEF Closed
  <2>6. Mirror!Close
    BY <2>2, <2>4, <2>5 DEF Mirror!Close
  <2> QED
    BY <2>6 DEF MirrorStep, Mirror!Next
<1>8. ASSUME NEW f \in File, Edit(f)
      PROVE  MirrorStep
  <2>1. /\ UNCHANGED <<source, file, work>>
        /\ remote' = [remote EXCEPT ![f].version = @ + 1]
    BY <1>8 DEF Edit
  <2>2. /\ remote'[f].version = remote[f].version + 1
        /\ \A g \in File \ {f} : remote'[g] = remote[g]
    BY <1>1, <2>1 DEF Shape
  <2>3. Content' = [Content EXCEPT ![f] = Content[f] + 1]
    BY <2>2 DEF Content
  <2>4. UNCHANGED <<AtWork, Stage, Noted, Stored, Closed>>
    BY <2>1, FilesSame
  <2>5. Mirror!Grow(f)
    BY <2>3, <2>4 DEF Mirror!Grow
  <2> QED
    BY <2>5 DEF MirrorStep, Mirror!Next
<1>9. ASSUME NEW f \in File, NEW t \in Folder \cup {None}, Move(f, t)
      PROVE  MirrorStep
  <2>1. /\ UNCHANGED <<source, file, work>>
        /\ remote' = [remote EXCEPT ![f].folder = t]
    BY <1>9 DEF Move
  <2>2. \A g \in File : remote'[g].version = remote[g].version
    BY <1>1, <2>1 DEF Shape
  <2>3. UNCHANGED Content
    BY <2>2 DEF Content
  <2> QED
    BY <2>1, <2>3, FilesSame DEF MirrorStep, MirrorSame
<1> QED
  BY <1>3, <1>4, <1>5, <1>6, <1>7, <1>8, <1>9 DEF Administration, SharePoint

LEMMA MirrorInit == Init => Mirror!Init
<1> SUFFICES ASSUME Init PROVE Mirror!Init
  OBVIOUS
<1>1. \A f \in File : file[f] = NoFile /\ remote[f].version = 1
  BY DEF Init
<1>2. NoFile.state = "ABSENT" /\ NoFile.tags = 0 /\ NoFile.entities = 0
  BY DEF NoFile
<1>3. AtWork = {}
  BY DEF Init, AtWork, InRun, Loop, RunPhase, FilePhase
<1>4. Stage = [f \in File |-> "unknown"]
  BY <1>1, <1>2 DEF Stage, StageOf
<1>5. Noted = [f \in File |-> 0] /\ Stored = [f \in File |-> 0] /\ Content = [f \in File |-> 1]
  BY <1>1, <1>2 DEF Noted, Stored, Content
<1>6. Closed = FALSE
  BY DEF Init, Closed
<1> QED
  BY <1>3, <1>4, <1>5, <1>6 DEF Mirror!Init

LEMMA NextMirrors == SyncInv /\ [Next]_vars => [Mirror!Next]_Mirror!mirrorVars
<1> SUFFICES ASSUME SyncInv, [Next]_vars PROVE MirrorStep
  BY DEF MirrorStep, MirrorSame, Mirror!mirrorVars
<1>1. CASE UNCHANGED vars
  BY <1>1, FilesSame DEF vars, MirrorStep, MirrorSame
<1>2. CASE Next
  BY <1>2, WorkersMirror, RequestsMirror DEF Next
<1> QED
  BY <1>1, <1>2

\* While live workers keep up their heartbeats, whatever crashes, faults and edits fall between its
\* steps, the synchronization is a mirror of the library: initial states map to initial states and
\* every step to a step of CrmMirror or a stutter.
THEOREM SyncMirrors == "stall" \notin Hazard => (Spec => ImplementsMirror)
<1>1. CASE "stall" \notin Hazard
  <2>1. Spec => []SyncInv
    BY <1>1, SyncInvariant
  <2> QED
    BY <2>1, MirrorInit, NextMirrors, PTL DEF Spec, ImplementsMirror, Mirror!Spec
<1> QED
  BY <1>1
===============================================================================
