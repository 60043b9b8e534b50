---------------------------- MODULE SyncSchedule ----------------------------
(***************************************************************************)
(* When a SharePoint source is synchronized by itself: the schedule of a   *)
(* source (schedule.py), the schedulers of all replicas that claim a due   *)
(* source and queue its run (scheduler.py), the worker that ends the run   *)
(* and moves the schedule on (finish_run), and the administrators who edit *)
(* the schedule, ask for a sync or delete the source (crm_sync.py).  What  *)
(* a run does with the files is CrmSync.                                   *)
(*                                                                         *)
(* A time is a day and an hour of it, and the time zone is a fixed offset, *)
(* so local and stored times are the same.  A request and a scheduler's    *)
(* tick take less than an hour, and a run ends on the day it began.        *)
(***************************************************************************)
EXTENDS Integers

CONSTANTS Scheduler, \* one ticker per replica
          Admin,     \* administrators; each does one thing at a time
          Day,       \* hours of a day
          Hours,     \* sync_hour values in use
          Intervals, \* sync_interval_days values in use
          MaxDay,    \* bound: the last day
          None       \* NULL

Time == [day : Nat, hour : 0..(Day - 1)]

ASSUME ScheduleAssumption ==
  /\ Day \in Nat \ {0} /\ MaxDay \in Nat
  /\ Hours \subseteq 0..(Day - 1) /\ Hours # {}
  /\ Intervals \subseteq Nat \ {0} /\ Intervals # {}
  /\ None \notin Int /\ None \notin Time

VARIABLES now,    \* utc_now()
          src,    \* the row of AIVA_crm_sources
          run,    \* its QUEUED or RUNNING run, if any
          worker, \* the sync worker at that run
          sched,  \* the schedulers' passes
          adm,    \* the administrators' requests
          served, \* history: the last occurrence a SCHEDULED run was queued for
          excused \* history: an edit or a dead scheduler gave an occurrence up

vars == <<now, src, run, worker, sched, adm, served, excused>>

-----------------------------------------------------------------------------
(* schedule.py.                                                            *)

Before(t, u) == t.day < u.day \/ (t.day = u.day /\ t.hour < u.hour)

\* Mutant: the interval is added to the moment, not to the day of the run.
NextAfterRunDrifts(started, interval, hour) == [started EXCEPT !.day = @ + interval]

NextAfterRun(started, interval, hour) == [day |-> started.day + interval, hour |-> hour]

\* Strictly after t.
NextHour(t, hour) == [day |-> IF t.hour < hour THEN t.day ELSE t.day + 1, hour |-> hour]

\* A schedule that was just saved.
NextSyncAt(enabled, interval, hour, t, last) ==
  IF ~enabled THEN None
  ELSE IF last # None /\ Before(t, NextAfterRun(last, interval, hour))
       THEN NextAfterRun(last, interval, hour)
       ELSE NextHour(t, hour)

-----------------------------------------------------------------------------
Source == [status : {"ACTIVE", "DISABLED", "DELETED"}, enabled : BOOLEAN, interval : Intervals,
           hour : Hours, next : Time \cup {None}, last : Time \cup {None}]

Start == [day |-> 0, hour |-> 0]
NoRun == [status |-> "none", started |-> Start]
IdleWorker == [phase |-> "idle", interval |-> None, hour |-> None]
IdleSched == [phase |-> "idle", old |-> None, new |-> None]
NoRequest == [phase |-> "idle", column |-> "none", to |-> None]

Run == [status : {"none", "QUEUED", "RUNNING"}, started : Time]
Work == [phase : {"idle", "run", "record", "gone"},
         interval : Intervals \cup {None}, hour : Hours \cup {None}]
Pass == [phase : {"idle", "due", "claimed", "undo"}, old : Time \cup {None}, new : Time \cup {None}]
AdminRequest == [phase : {"idle", "edit", "create", "delete"},
                 column : {"none", "status", "enabled", "interval", "hour"}, to : Source \cup {None}]

TypeOK ==
  /\ now \in Time
  /\ src \in Source
  /\ run \in Run
  /\ worker \in Work
  /\ sched \in [Scheduler -> Pass]
  /\ adm \in [Admin -> AdminRequest]
  /\ served \in Time \cup {None}
  /\ excused \in BOOLEAN

\* create_source.
Init ==
  /\ now = Start
  /\ \E enabled \in BOOLEAN, i \in Intervals, h \in Hours :
       src = [status |-> "ACTIVE", enabled |-> enabled, interval |-> i, hour |-> h,
              next |-> NextSyncAt(enabled, i, h, Start, None), last |-> None]
  /\ run = NoRun
  /\ worker = IdleWorker
  /\ sched = [s \in Scheduler |-> IdleSched]
  /\ adm = [a \in Admin |-> NoRequest]
  /\ served = None
  /\ excused = FALSE

InForce == src.status = "ACTIVE" /\ src.enabled
Due == InForce /\ src.next # None /\ ~Before(now, src.next)

\* soft_delete_source holds the source's row from its first statement on: every
\* other update of the row waits.
RowFree == \A a \in Admin : adm[a].phase # "delete"

\* _record_on_source.  i and h are None when there is no schedule to move on.
Recorded(i, h, next) ==
  IF src.status = "DELETED" THEN src
  ELSE [src EXCEPT !.last = now,
                   !.next = IF InForce /\ src.interval = i /\ src.hour = h THEN next ELSE @]

-----------------------------------------------------------------------------
(* A scheduler.                                                            *)

\* due_sources: the row as it is at this tick decides the next occurrence.
Tick(s) ==
  /\ sched[s].phase = "idle"
  /\ Due
  /\ sched' = [sched EXCEPT ![s] = [phase |-> "due", old |-> src.next,
                                    new |-> NextAfterRun(now, src.interval, src.hour)]]
  /\ UNCHANGED <<now, src, run, worker, adm, served, excused>>

\* Mutant: the claim does not ask whether the source is still due.
ClaimAnyway(s) ==
  /\ sched[s].phase = "due"
  /\ RowFree
  /\ IF InForce
     THEN /\ src' = [src EXCEPT !.next = sched[s].new]
          /\ sched' = [sched EXCEPT ![s].phase = "claimed"]
     ELSE /\ sched' = [sched EXCEPT ![s] = IdleSched]
          /\ UNCHANGED src
  /\ UNCHANGED <<now, run, worker, adm, served, excused>>

\* claim_due_source: still due at the tick, or lost to another scheduler.
Claim(s) ==
  /\ sched[s].phase = "due"
  /\ RowFree
  /\ IF Due
     THEN /\ src' = [src EXCEPT !.next = sched[s].new]
          /\ sched' = [sched EXCEPT ![s].phase = "claimed"]
     ELSE /\ sched' = [sched EXCEPT ![s] = IdleSched]
          /\ UNCHANGED src
  /\ UNCHANGED <<now, run, worker, adm, served, excused>>

\* create_run; a run that is already active covers the occurrence.
CreateScheduled(s) ==
  /\ sched[s].phase = "claimed"
  /\ IF run.status = "none"
     THEN /\ run' = [NoRun EXCEPT !.status = "QUEUED"]
          /\ served' = sched[s].old
     ELSE UNCHANGED <<run, served>>
  /\ sched' = [sched EXCEPT ![s] = IdleSched]
  /\ UNCHANGED <<now, src, worker, adm, excused>>

\* The run cannot be queued at all.
CreateFails(s) ==
  /\ sched[s].phase = "claimed"
  /\ sched' = [sched EXCEPT ![s].phase = "undo"]
  /\ UNCHANGED <<now, src, run, worker, adm, served, excused>>

\* Mutant: the failure is logged and the claim stays.
Forget(s) ==
  /\ sched[s].phase = "undo"
  /\ sched' = [sched EXCEPT ![s] = IdleSched]
  /\ UNCHANGED <<now, src, run, worker, adm, served, excused>>

\* restore_next_sync: if the claim is still in place, whoever wrote that value.
Undo(s) ==
  /\ sched[s].phase = "undo"
  /\ RowFree
  /\ src' = IF src.next = sched[s].new THEN [src EXCEPT !.next = sched[s].old] ELSE src
  /\ sched' = [sched EXCEPT ![s] = IdleSched]
  /\ UNCHANGED <<now, run, worker, adm, served, excused>>

\* The process is stopped or dies, or the undo fails as well.
Die(s) ==
  /\ sched[s].phase # "idle"
  /\ excused' = (excused \/ sched[s].phase # "due")
  /\ sched' = [sched EXCEPT ![s] = IdleSched]
  /\ UNCHANGED <<now, src, run, worker, adm, served>>

-----------------------------------------------------------------------------
(* The run.                                                                *)

\* claim_next_run.
ClaimRun ==
  /\ worker.phase = "idle"
  /\ run.status = "QUEUED"
  /\ run' = [status |-> "RUNNING", started |-> now]
  /\ worker' = [worker EXCEPT !.phase = "run"]
  /\ UNCHANGED <<now, src, sched, adm, served, excused>>

\* _finish, however the run went: the schedule as it is read here.
Finish ==
  /\ worker.phase = "run"
  /\ worker' = IF src.status = "DELETED" THEN [IdleWorker EXCEPT !.phase = "record"]
               ELSE [phase |-> "record", interval |-> src.interval, hour |-> src.hour]
  /\ UNCHANGED <<now, src, run, sched, adm, served, excused>>

\* Mutant: the next occurrence is written whatever the schedule has become.
RecordAnyway ==
  /\ worker.phase = "record"
  /\ RowFree
  /\ src' = IF src.status = "DELETED" \/ worker.interval = None THEN src
            ELSE [src EXCEPT !.last = now,
                             !.next = NextAfterRun(run.started, worker.interval, worker.hour)]
  /\ run' = NoRun
  /\ worker' = IdleWorker
  /\ UNCHANGED <<now, sched, adm, served, excused>>

\* finish_run, one transaction.
Record ==
  /\ worker.phase = "record"
  /\ RowFree
  /\ src' = IF worker.interval = None THEN Recorded(None, None, None)
            ELSE Recorded(worker.interval, worker.hour,
                          NextAfterRun(run.started, worker.interval, worker.hour))
  /\ run' = NoRun
  /\ worker' = IdleWorker
  /\ UNCHANGED <<now, sched, adm, served, excused>>

\* The worker's process dies; another one recovers the run when it is stale.
Crash ==
  /\ worker.phase \notin {"idle", "gone"}
  /\ worker' = [IdleWorker EXCEPT !.phase = "gone"]
  /\ UNCHANGED <<now, src, run, sched, adm, served, excused>>

Recover ==
  /\ worker.phase = "gone"
  /\ RowFree
  /\ src' = Recorded(None, None, None)
  /\ run' = NoRun
  /\ worker' = IdleWorker
  /\ UNCHANGED <<now, sched, adm, served, excused>>

-----------------------------------------------------------------------------
(* Administrators.                                                         *)

Wait(a, phase) == adm' = [adm EXCEPT ![a] = [NoRequest EXCEPT !.phase = phase]]

\* The row as it was read, with one column changed (one field per request), and
\* next_sync_at computed from the schedule they make.
Changes(a, column, row) ==
  adm' = [adm EXCEPT ![a] =
            [phase |-> "edit", column |-> column,
             to |-> [row EXCEPT !.next = NextSyncAt(row.enabled /\ row.status = "ACTIVE",
                                                    row.interval, row.hour, now, row.last)]]]

\* update_source up to the UPDATE.
Edit(a) ==
  /\ adm[a].phase = "idle"
  /\ src.status # "DELETED"
  /\ \/ \E x \in {"ACTIVE", "DISABLED"} \ {src.status} : Changes(a, "status", [src EXCEPT !.status = x])
     \/ Changes(a, "enabled", [src EXCEPT !.enabled = ~src.enabled])
     \/ \E i \in Intervals \ {src.interval} : Changes(a, "interval", [src EXCEPT !.interval = i])
     \/ \E h \in Hours \ {src.hour} : Changes(a, "hour", [src EXCEPT !.hour = h])
  /\ UNCHANGED <<now, src, run, worker, sched, served, excused>>

\* _update_source: only the column that was changed, and next_sync_at.
Written(column, to) ==
  [src EXCEPT !.status = IF column = "status" THEN to.status ELSE @,
              !.enabled = IF column = "enabled" THEN to.enabled ELSE @,
              !.interval = IF column = "interval" THEN to.interval ELSE @,
              !.hour = IF column = "hour" THEN to.hour ELSE @,
              !.next = to.next]

Save(a) ==
  /\ adm[a].phase = "edit"
  /\ RowFree
  /\ src' = IF src.status = "DELETED" THEN src ELSE Written(adm[a].column, adm[a].to)
  /\ adm' = [adm EXCEPT ![a] = NoRequest]
  /\ excused' = TRUE
  /\ UNCHANGED <<now, run, worker, sched, served>>

\* Mutant: the source's status is not looked at.
AskAnyway(a) ==
  /\ adm[a].phase = "idle"
  /\ Wait(a, "create")
  /\ UNCHANGED <<now, src, run, worker, sched, served, excused>>

\* sync_now and create_run.
AskSync(a) ==
  /\ adm[a].phase = "idle"
  /\ src.status = "ACTIVE"
  /\ Wait(a, "create")
  /\ UNCHANGED <<now, src, run, worker, sched, served, excused>>

CreateManual(a) ==
  /\ adm[a].phase = "create"
  /\ run' = IF run.status = "none" THEN [NoRun EXCEPT !.status = "QUEUED"] ELSE run
  /\ adm' = [adm EXCEPT ![a] = NoRequest]
  /\ UNCHANGED <<now, src, worker, sched, served, excused>>

\* soft_delete_source: the row is locked and the active runs are counted, ...
LockToDelete(a) ==
  /\ adm[a].phase = "idle"
  /\ RowFree
  /\ src.status # "DELETED"
  /\ run.status = "none"
  /\ Wait(a, "delete")
  /\ UNCHANGED <<now, src, run, worker, sched, served, excused>>

\* Mutant: the schedule is left as it was.
DeleteKeepsSchedule(a) ==
  /\ adm[a].phase = "delete"
  /\ src' = [src EXCEPT !.status = "DELETED"]
  /\ adm' = [adm EXCEPT ![a] = NoRequest]
  /\ UNCHANGED <<now, run, worker, sched, served, excused>>

\* ... then the source is marked and its entities are withdrawn.
Delete(a) ==
  /\ adm[a].phase = "delete"
  /\ src' = [src EXCEPT !.status = "DELETED", !.enabled = FALSE, !.next = None]
  /\ adm' = [adm EXCEPT ![a] = NoRequest]
  /\ UNCHANGED <<now, run, worker, sched, served, excused>>

\* An hour passes, but not inside a request or a tick.  Bound: a run ends on its day, so the
\* occurrence that follows it still lies ahead.
Clock ==
  /\ ~(now.day = MaxDay /\ now.hour = Day - 1)
  /\ run.status = "RUNNING" => now.hour < Day - 1
  /\ \A a \in Admin : adm[a].phase = "idle"
  /\ \A s \in Scheduler : sched[s].phase = "idle"
  /\ now' = IF now.hour < Day - 1 THEN [now EXCEPT !.hour = @ + 1] ELSE [day |-> now.day + 1, hour |-> 0]
  /\ UNCHANGED <<src, run, worker, sched, adm, served, excused>>

-----------------------------------------------------------------------------
SchedulerStep(s) == Tick(s) \/ Claim(s) \/ CreateScheduled(s) \/ Undo(s)
RunStep == ClaimRun \/ Finish \/ Record \/ Recover
RequestEnds(a) == Save(a) \/ CreateManual(a) \/ Delete(a)

Next ==
  \/ \E s \in Scheduler : SchedulerStep(s) \/ CreateFails(s) \/ Die(s)
  \/ RunStep \/ Crash
  \/ \E a \in Admin : Edit(a) \/ AskSync(a) \/ LockToDelete(a) \/ RequestEnds(a)
  \/ Clock

\* Schedulers tick, workers work and requests end.  The registry does not refuse
\* every run, nor does every worker die in its run.
Fairness ==
  /\ \A s \in Scheduler : WF_vars(SchedulerStep(s)) /\ SF_vars(CreateScheduled(s)) /\ SF_vars(Claim(s))
  /\ WF_vars(RunStep) /\ SF_vars(Record)
  /\ \A a \in Admin : WF_vars(RequestEnds(a))

Spec == Init /\ [][Next]_vars /\ Fairness

-----------------------------------------------------------------------------
(* Properties.                                                             *)

\* A source has a next sync exactly while its schedule is on, whichever of an
\* edit, a claim, its undo and the end of a run wrote last, and the time is at the source's
\* own hour: no step writes an occurrence of a schedule that was edited since it was read.
ScheduledIffOn ==
  /\ InForce <=> src.next # None
  /\ src.next # None => src.next.hour = src.hour

\* The half that matters most: a source in force without a next sync never syncs.
InForceIsScheduled == InForce => src.next # None

\* Replicas, undone claims and dead schedulers never queue an occurrence twice.
OncePerOccurrence ==
  [][\A s \in Scheduler :
       CreateScheduled(s) /\ run.status = "none" => served = None \/ Before(served, sched[s].old)]_vars

\* A due source gets a run, although creating it may fail any number of times;
\* only an edit or a scheduler that dies with the claim in its hands skips an
\* occurrence.  A deletion that races with a sync does not leave the source busy.
DueIsServed ==
  /\ Due ~> (run.status # "none" \/ ~InForce \/ excused)
  /\ src.status = "DELETED" ~> [](run.status = "none")
=============================================================================
