-------------------------- MODULE SyncScheduleProofs --------------------------
(* A source keeps its next sync, for any number of schedulers and days, as long *)
(* as one administrator works at a time.                                        *)
EXTENDS SyncSchedule, TLAPS

\* A worker at a run has a RUNNING one, that began today.
RunIsOfToday ==
  /\ worker.phase # "idle" => run.status = "RUNNING"
  /\ run.status = "RUNNING" => run.started.day = now.day

\* All schedulers at a pass saw the source with the same hour, which is still its hour if
\* it is due.
PassesAgree ==
  \A s \in Scheduler : sched[s].phase # "idle" =>
    /\ sched[s].old \in Time /\ sched[s].new \in Time
    /\ sched[s].old.hour = sched[s].new.hour
    /\ Due => sched[s].new.hour = src.hour
    /\ \A r \in Scheduler : sched[r].phase # "idle" => sched[r].new.hour = sched[s].new.hour

\* What an edit is about to write fits the schedule it makes and lies ahead, and nobody
\* else has changed a column of the schedule since it was read.
EditFits ==
  \A a \in Admin : adm[a].phase = "edit" =>
    LET to == adm[a].to IN
    /\ to \in Source
    /\ (to.status = "ACTIVE" /\ to.enabled) <=> to.next # None
    /\ to.next # None => to.next.hour = to.hour /\ Before(now, to.next)
    /\ adm[a].column # "status" => to.status = src.status
    /\ adm[a].column # "enabled" => to.enabled = src.enabled
    /\ adm[a].column # "interval" => to.interval = src.interval
    /\ adm[a].column # "hour" => to.hour = src.hour

ScheduleInv == TypeOK /\ ScheduledIffOn /\ RunIsOfToday /\ PassesAgree /\ EditFits

-----------------------------------------------------------------------------
(* The arithmetic of schedules.                                              *)

\* An occurrence that follows a run is at the source's hour of a later day.
LEMMA AfterRun ==
  ASSUME NEW t \in Time, NEW i \in Intervals, NEW h \in Hours
  PROVE  /\ NextAfterRun(t, i, h) \in Time
         /\ NextAfterRun(t, i, h).hour = h
         /\ \A u \in Time : u.day = t.day => Before(u, NextAfterRun(t, i, h))
  BY ScheduleAssumption DEF NextAfterRun, Time, Before

LEMMA AfterSave ==
  ASSUME NEW on \in BOOLEAN, NEW i \in Intervals, NEW h \in Hours, NEW t \in Time,
         NEW last \in Time \cup {None}
  PROVE  LET next == NextSyncAt(on, i, h, t, last) IN
         /\ next \in Time \cup {None}
         /\ on <=> next # None
         /\ next # None => next.hour = h /\ Before(t, next)
<1>1. /\ NextHour(t, h) \in Time /\ NextHour(t, h).hour = h /\ Before(t, NextHour(t, h))
  BY ScheduleAssumption DEF NextHour, Time, Before
<1>2. None \notin Time
  BY ScheduleAssumption
<1>3. CASE ~on
  BY <1>3 DEF NextSyncAt
<1>4. CASE on /\ last # None /\ Before(t, NextAfterRun(last, i, h))
  <2>1. NextSyncAt(on, i, h, t, last) = NextAfterRun(last, i, h)
    BY <1>4 DEF NextSyncAt
  <2>2. NextAfterRun(last, i, h) \in Time /\ NextAfterRun(last, i, h).hour = h
    BY <1>4, AfterRun
  <2> QED
    BY <1>2, <1>4, <2>1, <2>2
<1>5. CASE on /\ ~(last # None /\ Before(t, NextAfterRun(last, i, h)))
  <2>1. NextSyncAt(on, i, h, t, last) = NextHour(t, h)
    BY <1>5 DEF NextSyncAt
  <2> QED
    BY <1>1, <1>2, <1>5, <2>1
<1> QED
  BY <1>3, <1>4, <1>5

-----------------------------------------------------------------------------
LEMMA InitSchedule == Init => ScheduleInv
<1> SUFFICES ASSUME Init PROVE ScheduleInv
  OBVIOUS
<1>1. Start \in Time
  BY ScheduleAssumption DEF Start, Time
<1>2. PICK enabled \in BOOLEAN, i \in Intervals, h \in Hours :
        src = [status |-> "ACTIVE", enabled |-> enabled, interval |-> i, hour |-> h,
               next |-> NextSyncAt(enabled, i, h, Start, None), last |-> None]
  BY DEF Init
<1>3. /\ src.next \in Time \cup {None}
      /\ enabled <=> src.next # None
      /\ src.next # None => src.next.hour = h
  BY <1>1, <1>2, AfterSave
<1>4. src \in Source /\ ScheduledIffOn
  BY <1>2, <1>3 DEF Source, ScheduledIffOn, InForce
<1>5. /\ \A s \in Scheduler : sched[s].phase = "idle"
      /\ \A a \in Admin : adm[a].phase = "idle"
      /\ worker.phase = "idle" /\ run.status = "none"
  BY DEF Init, IdleSched, NoRequest, IdleWorker, NoRun
<1>6. RunIsOfToday /\ PassesAgree /\ EditFits
  BY <1>5 DEF RunIsOfToday, PassesAgree, EditFits
<1>7. TypeOK
  <2>1. run \in Run
    BY <1>1 DEF Init, NoRun, Run
  <2>2. worker \in Work
    BY DEF Init, IdleWorker, Work
  <2>3. sched \in [Scheduler -> Pass]
    BY DEF Init, IdleSched, Pass
  <2>4. adm \in [Admin -> AdminRequest]
    BY DEF Init, NoRequest, AdminRequest
  <2> QED
    BY <1>1, <1>4, <2>1, <2>2, <2>3, <2>4 DEF TypeOK, Init
<1> QED
  BY <1>4, <1>6, <1>7 DEF ScheduleInv

-----------------------------------------------------------------------------
(* Steps.                                                                    *)

\* The passes go on agreeing when the hour stays and the source does not become due.
LEMMA PassesFrame ==
  ASSUME PassesAgree, UNCHANGED sched, Due' => Due, src'.hour = src.hour
  PROVE  PassesAgree'
  BY DEF PassesAgree

\* A pass ends, or goes on to its next call.
LEMMA PassMoves ==
  ASSUME TypeOK, PassesAgree, NEW s \in Scheduler, NEW phase \in {"claimed", "undo"},
         sched[s].phase # "idle", UNCHANGED <<now, src>>,
         sched' = [sched EXCEPT ![s] = IdleSched] \/ sched' = [sched EXCEPT ![s].phase = phase]
  PROVE  sched' \in [Scheduler -> Pass] /\ PassesAgree'
<1>1. sched \in [Scheduler -> Pass] /\ IdleSched \in Pass /\ IdleSched.phase = "idle"
  BY DEF TypeOK, IdleSched, Pass
<1>2. CASE sched' = [sched EXCEPT ![s] = IdleSched]
  <2>1. sched'[s] = IdleSched /\ \A r \in Scheduler : r # s => sched'[r] = sched[r]
    BY <1>1, <1>2
  <2>2. PassesAgree'
    BY <1>1, <2>1 DEF PassesAgree, Due, InForce
  <2> QED
    BY <1>1, <1>2, <2>2
<1>3. CASE sched' = [sched EXCEPT ![s].phase = phase]
  <2>1. /\ sched'[s] = [sched[s] EXCEPT !.phase = phase]
        /\ \A r \in Scheduler : r # s => sched'[r] = sched[r]
    BY <1>1, <1>3
  <2>2. sched'[s] \in Pass /\ sched'[s].old = sched[s].old /\ sched'[s].new = sched[s].new
    BY <1>1, <2>1 DEF Pass
  <2>3. sched' \in [Scheduler -> Pass]
    BY <1>1, <1>3, <2>1, <2>2
  <2>4. (Due' <=> Due) /\ src'.hour = src.hour
    BY DEF Due, InForce
  <2>5. \A r \in Scheduler : /\ sched'[r].phase # "idle" => sched[r].phase # "idle"
                             /\ sched'[r].old = sched[r].old /\ sched'[r].new = sched[r].new
    BY <2>1, <2>2
  <2>6. PassesAgree'
    BY <2>4, <2>5 DEF PassesAgree
  <2> QED
    BY <2>3, <2>6
<1> QED
  BY <1>2, <1>3

LEMMA TickStep ==
  ASSUME ScheduleInv, NEW s \in Scheduler, Tick(s)
  PROVE  ScheduleInv'
<1> USE DEF ScheduleInv
<1> DEFINE new == NextAfterRun(now, src.interval, src.hour)
<1>1. /\ sched[s].phase = "idle" /\ Due
      /\ sched' = [sched EXCEPT ![s] = [phase |-> "due", old |-> src.next, new |-> new]]
      /\ UNCHANGED <<now, src, run, worker, adm, served, excused>>
  BY DEF Tick
<1>2. src.next \in Time /\ src.next.hour = src.hour
  BY <1>1 DEF Due, TypeOK, Source, ScheduledIffOn
<1>3. new \in Time /\ new.hour = src.hour
  BY AfterRun DEF TypeOK, Source
<1> HIDE DEF new
<1>4. [phase |-> "due", old |-> src.next, new |-> new] \in Pass
  BY <1>2, <1>3 DEF Pass
<1>5. /\ sched'[s].old = src.next /\ sched'[s].new = new
      /\ \A r \in Scheduler : r # s => sched'[r] = sched[r]
  BY <1>1 DEF TypeOK
<1>6. TypeOK'
  BY <1>1, <1>4 DEF TypeOK
<1>7. PassesAgree'
  BY <1>1, <1>2, <1>3, <1>5 DEF PassesAgree, Due, InForce
<1>8. ScheduledIffOn' /\ RunIsOfToday' /\ EditFits'
  BY <1>1 DEF ScheduledIffOn, InForce, RunIsOfToday, EditFits
<1> QED
  BY <1>6, <1>7, <1>8

\* A claim writes an occurrence at the source's hour, as nobody can have edited the source
\* since and left it due.
LEMMA ClaimStep ==
  ASSUME ScheduleInv, NEW s \in Scheduler, Claim(s)
  PROVE  ScheduleInv'
<1> USE DEF ScheduleInv
<1>1. sched[s].phase = "due" /\ UNCHANGED <<now, run, worker, adm, served, excused>>
  BY DEF Claim
<1>2. CASE ~Due
  <2>1. sched' = [sched EXCEPT ![s] = IdleSched] /\ UNCHANGED src
    BY <1>2 DEF Claim
  <2>2. sched' \in [Scheduler -> Pass] /\ PassesAgree'
    BY <1>1, <2>1, PassMoves
  <2> QED
    BY <1>1, <2>1, <2>2 DEF TypeOK, ScheduledIffOn, InForce, RunIsOfToday, EditFits
<1>3. CASE Due
  <2>1. src' = [src EXCEPT !.next = sched[s].new] /\ sched' = [sched EXCEPT ![s].phase = "claimed"]
    BY <1>3 DEF Claim
  <2>2. sched[s].new \in Time /\ sched[s].new # None /\ sched[s].new.hour = src.hour
    BY <1>1, <1>3, ScheduleAssumption DEF PassesAgree
  <2>3. /\ src' \in Source /\ src'.next = sched[s].new
        /\ src'.status = src.status /\ src'.enabled = src.enabled
        /\ src'.interval = src.interval /\ src'.hour = src.hour
    BY <2>1, <2>2 DEF TypeOK, Source
  <2>4. /\ sched'[s] = [sched[s] EXCEPT !.phase = "claimed"]
        /\ \A r \in Scheduler : r # s => sched'[r] = sched[r]
    BY <2>1 DEF TypeOK
  <2>5. /\ sched'[s] \in Pass
        /\ sched'[s].old = sched[s].old /\ sched'[s].new = sched[s].new
    BY <2>4 DEF TypeOK, Pass
  <2>6. TypeOK'
    BY <1>1, <2>1, <2>3, <2>4, <2>5 DEF TypeOK
  <2>7. ScheduledIffOn'
    BY <1>3, <2>2, <2>3 DEF ScheduledIffOn, InForce, Due
  <2>8. PassesAgree'
    <3>1. \A r \in Scheduler : sched[r].phase # "idle" => sched[r].new.hour = src.hour
      BY <1>3 DEF PassesAgree
    <3>2. \A r \in Scheduler : /\ sched'[r].phase # "idle" => sched[r].phase # "idle"
                               /\ sched'[r].old = sched[r].old /\ sched'[r].new = sched[r].new
      BY <1>1, <2>4, <2>5
    <3> QED
      BY <2>3, <3>1, <3>2 DEF PassesAgree
  <2>9. RunIsOfToday' /\ EditFits'
    BY <1>1, <2>3 DEF RunIsOfToday, EditFits
  <2> QED
    BY <2>6, <2>7, <2>8, <2>9
<1> QED
  BY <1>2, <1>3

\* An undone claim puts back an occurrence of the same hour.
LEMMA UndoStep ==
  ASSUME ScheduleInv, NEW s \in Scheduler, Undo(s)
  PROVE  ScheduleInv'
<1> USE DEF ScheduleInv
<1>1. /\ sched[s].phase = "undo" /\ sched' = [sched EXCEPT ![s] = IdleSched]
      /\ src' = IF src.next = sched[s].new THEN [src EXCEPT !.next = sched[s].old] ELSE src
      /\ UNCHANGED <<now, run, worker, adm, served, excused>>
  BY DEF Undo
<1>2. CASE src.next # sched[s].new
  <2>1. sched' \in [Scheduler -> Pass] /\ PassesAgree' /\ UNCHANGED src
    BY <1>1, <1>2, PassMoves
  <2> QED
    BY <1>1, <2>1 DEF TypeOK, ScheduledIffOn, InForce, RunIsOfToday, EditFits
<1>3. CASE src.next = sched[s].new
  <2>1. /\ sched[s].old \in Time /\ sched[s].old # None /\ sched[s].new # None
        /\ sched[s].old.hour = sched[s].new.hour
    BY <1>1, ScheduleAssumption DEF PassesAgree
  <2>2. InForce /\ sched[s].old.hour = src.hour
    BY <1>3, <2>1 DEF ScheduledIffOn
  <2>3. /\ src' \in Source /\ src'.next = sched[s].old
        /\ src'.status = src.status /\ src'.enabled = src.enabled
        /\ src'.interval = src.interval /\ src'.hour = src.hour
    BY <1>1, <1>3, <2>1 DEF TypeOK, Source
  <2>4. /\ IdleSched \in Pass /\ IdleSched.phase = "idle" /\ sched'[s] = IdleSched
        /\ \A r \in Scheduler : r # s => sched'[r] = sched[r]
    BY <1>1 DEF TypeOK, IdleSched, Pass
  <2>5. TypeOK'
    BY <1>1, <2>3, <2>4 DEF TypeOK
  <2>6. ScheduledIffOn'
    BY <2>1, <2>2, <2>3 DEF ScheduledIffOn, InForce
  <2>7. PassesAgree'
    <3>1. \A r \in Scheduler : sched[r].phase # "idle" => sched[r].new.hour = src.hour
      BY <1>1, <2>1, <2>2 DEF PassesAgree
    <3> QED
      BY <2>3, <2>4, <3>1 DEF PassesAgree
  <2>8. RunIsOfToday' /\ EditFits'
    BY <1>1, <2>3 DEF RunIsOfToday, EditFits
  <2> QED
    BY <2>5, <2>6, <2>7, <2>8
<1> QED
  BY <1>2, <1>3

\* A pass ends, or its run cannot be queued.
LEMMA PassStep ==
  ASSUME ScheduleInv, NEW s \in Scheduler, CreateScheduled(s) \/ CreateFails(s) \/ Die(s)
  PROVE  ScheduleInv'
<1> USE DEF ScheduleInv
<1>1. /\ sched[s].phase # "idle" /\ UNCHANGED <<now, src, worker, adm>>
      /\ \/ sched' = [sched EXCEPT ![s] = IdleSched]
         \/ sched' = [sched EXCEPT ![s].phase = "undo"]
  BY DEF CreateScheduled, CreateFails, Die
<1>2. sched' \in [Scheduler -> Pass] /\ PassesAgree'
  BY <1>1, PassMoves
<1>3. \/ UNCHANGED run
      \/ run.status = "none" /\ run' = [NoRun EXCEPT !.status = "QUEUED"]
  BY DEF CreateScheduled, CreateFails, Die
<1>4. run' \in Run /\ RunIsOfToday'
  <2>1. [NoRun EXCEPT !.status = "QUEUED"] \in Run /\ [NoRun EXCEPT !.status = "QUEUED"].status = "QUEUED"
    BY ScheduleAssumption DEF NoRun, Start, Time, Run
  <2> QED
    BY <1>1, <1>3, <2>1 DEF TypeOK, RunIsOfToday
<1>5. served' \in Time \cup {None} /\ excused' \in BOOLEAN
  BY DEF CreateScheduled, CreateFails, Die, TypeOK, Pass
<1>6. TypeOK'
  BY <1>1, <1>2, <1>4, <1>5 DEF TypeOK
<1> QED
  BY <1>1, <1>2, <1>4, <1>6 DEF ScheduledIffOn, InForce, EditFits

\* A run begins, its end is prepared, or its worker dies.
LEMMA WorkStep ==
  ASSUME ScheduleInv, ClaimRun \/ Finish \/ Crash
  PROVE  ScheduleInv'
<1> USE DEF ScheduleInv
<1>1. UNCHANGED <<now, src, sched, adm, served, excused>>
  BY DEF ClaimRun, Finish, Crash
<1>2. worker' \in Work
  BY DEF ClaimRun, Finish, Crash, IdleWorker, TypeOK, Work, Source
<1>3. run' \in Run
  BY DEF ClaimRun, Finish, Crash, TypeOK, Run
<1>4. RunIsOfToday'
  BY <1>1 DEF ClaimRun, Finish, Crash, RunIsOfToday, TypeOK, Work
<1>5. TypeOK'
  BY <1>1, <1>2, <1>3 DEF TypeOK
<1> QED
  BY <1>1, <1>4, <1>5 DEF ScheduledIffOn, InForce, PassesAgree, Due, EditFits

\* The end of a run writes the occurrence after it only into the schedule it was computed
\* from, and that occurrence lies ahead.
LEMMA RecordWrites ==
  ASSUME ScheduleInv, Record \/ Recover
  PROVE  /\ \/ src' = src
            \/ src' = [src EXCEPT !.last = now]
            \/ /\ InForce
               /\ src' = [src EXCEPT !.last = now, !.next = NextAfterRun(run.started, src.interval, src.hour)]
         /\ src'.next = src.next \/ (src'.next # None /\ Before(now, src'.next))
<1> USE DEF ScheduleInv
<1>1. \/ src' = src
      \/ src' = [src EXCEPT !.last = now]
      \/ /\ InForce
         /\ src' = [src EXCEPT !.last = now, !.next = NextAfterRun(run.started, src.interval, src.hour)]
  <2>1. None \notin Intervals
    <3>1. \A i \in Intervals : i \in Int
      BY ScheduleAssumption
    <3> QED
      BY <3>1, ScheduleAssumption, Zenon
  <2>2. src.interval # None
    BY <2>1 DEF TypeOK, Source
  <2>3. src.next \in Time \cup {None} /\ [src EXCEPT !.last = now] = [src EXCEPT !.last = now, !.next = src.next]
    BY DEF TypeOK, Source
  <2>4. CASE src' = Recorded(None, None, None)
    BY <2>2, <2>3, <2>4 DEF Recorded
  <2>5. CASE src' = Recorded(worker.interval, worker.hour,
                             NextAfterRun(run.started, worker.interval, worker.hour))
    BY <2>3, <2>5 DEF Recorded
  <2>6. \/ src' = Recorded(None, None, None)
        \/ src' = Recorded(worker.interval, worker.hour,
                           NextAfterRun(run.started, worker.interval, worker.hour))
    BY DEF Record, Recover
  <2> QED
    BY <2>4, <2>5, <2>6
<1>2. src'.next = src.next \/ (src'.next # None /\ Before(now, src'.next))
  <2> SUFFICES ASSUME src'.next # src.next PROVE src'.next # None /\ Before(now, src'.next)
    OBVIOUS
  <2>1. src'.next = NextAfterRun(run.started, src.interval, src.hour)
    BY <1>1 DEF TypeOK, Source
  <2>2. run.started.day = now.day /\ run.started \in Time /\ now \in Time
    BY DEF Record, Recover, RunIsOfToday, TypeOK, Run
  <2>3. src'.next \in Time /\ Before(now, src'.next)
    BY <2>1, <2>2, AfterRun DEF TypeOK, Source
  <2> QED
    BY <2>3, ScheduleAssumption
<1> QED
  BY <1>1, <1>2

LEMMA RecordStep ==
  ASSUME ScheduleInv, Record \/ Recover
  PROVE  ScheduleInv'
<1> USE DEF ScheduleInv
<1>1. /\ run' = NoRun /\ worker' = IdleWorker /\ UNCHANGED <<now, sched, adm, served, excused>>
  BY DEF Record, Recover
<1>2. \/ src' = src
      \/ src' = [src EXCEPT !.last = now]
      \/ /\ InForce
         /\ src' = [src EXCEPT !.last = now, !.next = NextAfterRun(run.started, src.interval, src.hour)]
  BY RecordWrites
<1>3. /\ src'.status = src.status /\ src'.enabled = src.enabled
      /\ src'.interval = src.interval /\ src'.hour = src.hour
  BY <1>2 DEF TypeOK, Source
<1>4. /\ NextAfterRun(run.started, src.interval, src.hour) \in Time
      /\ NextAfterRun(run.started, src.interval, src.hour).hour = src.hour
  BY AfterRun DEF TypeOK, Source, Run
<1>5. src' \in Source /\ ScheduledIffOn'
  <2>1. CASE src'.next = src.next
    BY <1>2, <1>3, <2>1 DEF ScheduledIffOn, InForce, TypeOK, Source
  <2>2. CASE src'.next # src.next
    <3>1. /\ InForce
          /\ src' = [src EXCEPT !.last = now, !.next = NextAfterRun(run.started, src.interval, src.hour)]
      BY <1>2, <2>2 DEF TypeOK, Source
    <3>2. src' \in Source /\ src'.next = NextAfterRun(run.started, src.interval, src.hour)
      BY <1>4, <3>1 DEF TypeOK, Source
    <3> QED
      BY <1>3, <1>4, <3>1, <3>2, ScheduleAssumption DEF ScheduledIffOn, InForce
  <2> QED
    BY <2>1, <2>2
<1>6. Due' => Due
  BY <1>1, <1>3, RecordWrites DEF Due, InForce
<1>7. PassesAgree'
  BY <1>1, <1>3, <1>6, PassesFrame
<1>8. run' \in Run /\ worker' \in Work /\ RunIsOfToday'
  BY <1>1, ScheduleAssumption DEF NoRun, IdleWorker, Start, Time, Run, Work, RunIsOfToday
<1>9. TypeOK'
  BY <1>1, <1>5, <1>8 DEF TypeOK
<1>10. EditFits'
  BY <1>1, <1>3 DEF EditFits
<1> QED
  BY <1>5, <1>7, <1>8, <1>9, <1>10

\* A request is begun: an edit fits the schedule it makes.
LEMMA AskStep ==
  ASSUME ScheduleInv, NEW a \in Admin, Edit(a) \/ AskSync(a) \/ LockToDelete(a)
  PROVE  ScheduleInv'
<1> USE DEF ScheduleInv
<1>1. UNCHANGED <<now, src, run, worker, sched, served, excused>>
  BY DEF Edit, AskSync, LockToDelete
<1>2. ASSUME NEW column \in {"status", "enabled", "interval", "hour"}, NEW row \in Source,
             Changes(a, column, row),
             column # "status" => row.status = src.status,
             column # "enabled" => row.enabled = src.enabled,
             column # "interval" => row.interval = src.interval,
             column # "hour" => row.hour = src.hour
      PROVE  adm' \in [Admin -> AdminRequest] /\ EditFits'
  <2> DEFINE on == row.enabled /\ row.status = "ACTIVE"
             next == NextSyncAt(on, row.interval, row.hour, now, row.last)
             to == [row EXCEPT !.next = next]
  <2>1. /\ next \in Time \cup {None}
        /\ on <=> next # None
        /\ next # None => next.hour = row.hour /\ Before(now, next)
    <3>1. /\ on \in BOOLEAN /\ row.interval \in Intervals /\ row.hour \in Hours
          /\ now \in Time /\ row.last \in Time \cup {None}
      BY DEF TypeOK, Source
    <3> HIDE DEF on
    <3> QED
      BY <3>1, AfterSave
  <2>2. adm' = [adm EXCEPT ![a] = [phase |-> "edit", column |-> column, to |-> to]]
    BY <1>2 DEF Changes
  <2> HIDE DEF next
  <2>3. /\ to \in Source /\ to.next = next /\ to.status = row.status /\ to.enabled = row.enabled
        /\ to.interval = row.interval /\ to.hour = row.hour
    BY <2>1 DEF Source
  <2> HIDE DEF to
  <2>4. [phase |-> "edit", column |-> column, to |-> to] \in AdminRequest
    BY <2>3 DEF AdminRequest
  <2>5. /\ adm'[a].phase = "edit" /\ adm'[a].column = column /\ adm'[a].to = to
        /\ \A b \in Admin : b # a => adm'[b] = adm[b]
    BY <2>2 DEF TypeOK
  <2>6. EditFits'
    BY <1>1, <1>2, <2>1, <2>3, <2>5 DEF EditFits
  <2> QED
    BY <2>2, <2>4, <2>6 DEF TypeOK
<1>3. ASSUME Edit(a) PROVE adm' \in [Admin -> AdminRequest] /\ EditFits'
  <2>1. PICK column \in {"status", "enabled", "interval", "hour"}, row \in Source :
          /\ Changes(a, column, row)
          /\ column # "status" => row.status = src.status
          /\ column # "enabled" => row.enabled = src.enabled
          /\ column # "interval" => row.interval = src.interval
          /\ column # "hour" => row.hour = src.hour
    <3>1. ASSUME NEW x \in {"ACTIVE", "DISABLED"}, Changes(a, "status", [src EXCEPT !.status = x])
          PROVE  \E row \in Source : /\ Changes(a, "status", row) /\ row.enabled = src.enabled
                                     /\ row.interval = src.interval /\ row.hour = src.hour
      <4> DEFINE row == [src EXCEPT !.status = x]
      <4>1. /\ row \in Source /\ row.status = x /\ row.enabled = src.enabled
            /\ row.interval = src.interval /\ row.hour = src.hour
        BY DEF TypeOK, Source
      <4> HIDE DEF row
      <4>2. Changes(a, "status", row)
        BY <3>1 DEF row
      <4> QED
        BY <4>1, <4>2
    <3>2. ASSUME Changes(a, "enabled", [src EXCEPT !.enabled = ~src.enabled])
          PROVE  \E row \in Source : /\ Changes(a, "enabled", row) /\ row.status = src.status
                                     /\ row.interval = src.interval /\ row.hour = src.hour
      <4> DEFINE row == [src EXCEPT !.enabled = ~src.enabled]
      <4>1. /\ row \in Source /\ row.status = src.status /\ row.enabled = ~src.enabled
            /\ row.interval = src.interval /\ row.hour = src.hour
        BY DEF TypeOK, Source
      <4> HIDE DEF row
      <4>2. Changes(a, "enabled", row)
        BY <3>2 DEF row
      <4> QED
        BY <4>1, <4>2
    <3>3. ASSUME NEW i \in Intervals, Changes(a, "interval", [src EXCEPT !.interval = i])
          PROVE  \E row \in Source : /\ Changes(a, "interval", row) /\ row.status = src.status
                                     /\ row.enabled = src.enabled /\ row.hour = src.hour
      <4> DEFINE row == [src EXCEPT !.interval = i]
      <4>1. /\ row \in Source /\ row.status = src.status /\ row.enabled = src.enabled
            /\ row.interval = i /\ row.hour = src.hour
        BY DEF TypeOK, Source
      <4> HIDE DEF row
      <4>2. Changes(a, "interval", row)
        BY <3>3 DEF row
      <4> QED
        BY <4>1, <4>2
    <3>4. ASSUME NEW h \in Hours, Changes(a, "hour", [src EXCEPT !.hour = h])
          PROVE  \E row \in Source : /\ Changes(a, "hour", row) /\ row.status = src.status
                                     /\ row.enabled = src.enabled /\ row.interval = src.interval
      <4> DEFINE row == [src EXCEPT !.hour = h]
      <4>1. /\ row \in Source /\ row.status = src.status /\ row.enabled = src.enabled
            /\ row.interval = src.interval /\ row.hour = h
        BY DEF TypeOK, Source
      <4> HIDE DEF row
      <4>2. Changes(a, "hour", row)
        BY <3>4 DEF row
      <4> QED
        BY <4>1, <4>2
    <3> QED
      BY <1>3, <3>1, <3>2, <3>3, <3>4 DEF Edit
  <2> QED
    BY <1>2, <2>1
<1>4. ASSUME AskSync(a) \/ LockToDelete(a) PROVE adm' \in [Admin -> AdminRequest] /\ EditFits'
  <2>1. PICK phase \in {"create", "delete"} : adm' = [adm EXCEPT ![a] = [NoRequest EXCEPT !.phase = phase]]
    BY <1>4 DEF AskSync, LockToDelete, Wait
  <2>2. [NoRequest EXCEPT !.phase = phase] \in AdminRequest /\ [NoRequest EXCEPT !.phase = phase].phase = phase
    BY DEF NoRequest, AdminRequest
  <2>3. adm'[a].phase # "edit" /\ \A b \in Admin : b # a => adm'[b] = adm[b]
    BY <2>1, <2>2 DEF TypeOK
  <2> QED
    BY <1>1, <2>1, <2>2, <2>3 DEF TypeOK, EditFits
<1>5. adm' \in [Admin -> AdminRequest] /\ EditFits'
  BY <1>3, <1>4 DEF Edit, AskSync, LockToDelete
<1> QED
  BY <1>1, <1>5 DEF TypeOK, ScheduledIffOn, InForce, RunIsOfToday, PassesAgree, Due

\* A request of the only administrator ends: what an edit writes fits the columns it leaves.
LEMMA EndStep ==
  ASSUME ScheduleInv, \A x, y \in Admin : x = y, NEW a \in Admin, RequestEnds(a)
  PROVE  ScheduleInv'
<1> USE DEF ScheduleInv
<1>1. /\ adm' = [adm EXCEPT ![a] = NoRequest]
      /\ UNCHANGED <<now, worker, sched, served>>
  BY DEF RequestEnds, Save, CreateManual, Delete
<1>2. adm' \in [Admin -> AdminRequest] /\ EditFits'
  <2>1. NoRequest \in AdminRequest /\ NoRequest.phase = "idle"
    BY DEF NoRequest, AdminRequest
  <2>2. \A b \in Admin : adm'[b] = NoRequest
    BY <1>1 DEF TypeOK
  <2> QED
    BY <1>1, <2>1, <2>2 DEF TypeOK, EditFits
<1>3. run' \in Run /\ excused' \in BOOLEAN /\ RunIsOfToday'
  <2>1. \/ UNCHANGED run
        \/ run.status = "none" /\ run' = [NoRun EXCEPT !.status = "QUEUED"]
    BY DEF RequestEnds, Save, CreateManual, Delete
  <2>2. [NoRun EXCEPT !.status = "QUEUED"] \in Run /\ [NoRun EXCEPT !.status = "QUEUED"].status = "QUEUED"
    BY ScheduleAssumption DEF NoRun, Start, Time, Run
  <2> QED
    BY <1>1, <2>1, <2>2 DEF TypeOK, RunIsOfToday, RequestEnds, Save, CreateManual, Delete
<1>4. CASE UNCHANGED src
  BY <1>1, <1>2, <1>3, <1>4 DEF TypeOK, ScheduledIffOn, InForce, PassesAgree, Due
<1>5. ASSUME src' \in Source, ScheduledIffOn', ~Due' PROVE ScheduleInv'
  <2>1. PassesAgree'
    BY <1>1, <1>5 DEF PassesAgree
  <2> QED
    BY <1>1, <1>2, <1>3, <1>5, <2>1 DEF TypeOK
<1>6. CASE Save(a) /\ src.status # "DELETED"
  <2> DEFINE to == adm[a].to
             c == adm[a].column
  <2>1. /\ to \in Source
        /\ (to.status = "ACTIVE" /\ to.enabled) <=> to.next # None
        /\ to.next # None => to.next.hour = to.hour /\ Before(now, to.next)
        /\ c # "status" => to.status = src.status
        /\ c # "enabled" => to.enabled = src.enabled
        /\ c # "interval" => to.interval = src.interval
        /\ c # "hour" => to.hour = src.hour
    BY <1>6 DEF Save, EditFits
  <2>2. src' = Written(c, to)
    BY <1>6 DEF Save
  <2> HIDE DEF to, c
  <2>3. /\ src' \in Source /\ src'.next = to.next /\ src'.hour = to.hour
        /\ src'.status = to.status /\ src'.enabled = to.enabled
    BY <2>1, <2>2 DEF Written, TypeOK, Source
  <2>4. ScheduledIffOn' /\ ~Due'
    BY <1>1, <2>1, <2>3 DEF ScheduledIffOn, InForce, Due
  <2> QED
    BY <1>5, <2>3, <2>4
<1>7. CASE Delete(a)
  <2>1. /\ src' \in Source /\ src'.status = "DELETED" /\ src'.next = None
    BY <1>7 DEF Delete, TypeOK, Source
  <2> QED
    BY <1>5, <2>1 DEF ScheduledIffOn, InForce, Due
<1> QED
  BY <1>4, <1>6, <1>7 DEF RequestEnds, Save, CreateManual

\* Time passes only while nobody is in the middle of something but a run of the day.
LEMMA ClockStep ==
  ASSUME ScheduleInv, Clock
  PROVE  ScheduleInv'
<1> USE DEF ScheduleInv
<1>1. /\ run.status = "RUNNING" => now.hour < Day - 1
      /\ \A a \in Admin : adm[a].phase = "idle"
      /\ \A s \in Scheduler : sched[s].phase = "idle"
      /\ now' = IF now.hour < Day - 1 THEN [now EXCEPT !.hour = @ + 1] ELSE [day |-> now.day + 1, hour |-> 0]
      /\ UNCHANGED <<src, run, worker, sched, adm, served, excused>>
  BY DEF Clock
<1>2. now' \in Time /\ (now.hour < Day - 1 => now'.day = now.day)
  BY <1>1, ScheduleAssumption DEF TypeOK, Time
<1>3. RunIsOfToday'
  BY <1>1, <1>2 DEF RunIsOfToday
<1>4. PassesAgree' /\ EditFits'
  BY <1>1 DEF PassesAgree, EditFits
<1> QED
  BY <1>1, <1>2, <1>3, <1>4 DEF TypeOK, ScheduledIffOn, InForce

LEMMA NextSchedule ==
  ASSUME \A x, y \in Admin : x = y, ScheduleInv, [Next]_vars
  PROVE  ScheduleInv'
<1>1. CASE UNCHANGED vars
  BY <1>1 DEF vars, ScheduleInv, TypeOK, ScheduledIffOn, InForce, RunIsOfToday, PassesAgree, Due, EditFits
<1>2. CASE \E s \in Scheduler : SchedulerStep(s) \/ CreateFails(s) \/ Die(s)
  BY <1>2, TickStep, ClaimStep, UndoStep, PassStep DEF SchedulerStep
<1>3. CASE RunStep \/ Crash
  BY <1>3, WorkStep, RecordStep DEF RunStep
<1>4. CASE \E a \in Admin : Edit(a) \/ AskSync(a) \/ LockToDelete(a) \/ RequestEnds(a)
  BY <1>4, AskStep, EndStep
<1> QED
  BY <1>1, <1>2, <1>3, <1>4, ClockStep DEF Next

\* The state of the schedule is always one the invariant describes.
THEOREM ScheduleInvariant ==
  ASSUME \A x, y \in Admin : x = y PROVE Spec => []ScheduleInv
<1>1. ScheduleInv /\ [Next]_vars => ScheduleInv'
  BY NextSchedule
<1> QED
  BY InitSchedule, <1>1, PTL DEF Spec

\* crm_repo.py and scheduler.py: a source has a next sync, at its own hour, exactly while its
\* schedule is on, whatever schedulers, workers and the one administrator do and wherever
\* they die.  With two administrators at once it does not hold.
THEOREM SourcesStayScheduled ==
  ASSUME \A x, y \in Admin : x = y PROVE Spec => []ScheduledIffOn
<1>1. ScheduleInv => ScheduledIffOn
  BY DEF ScheduleInv
<1> QED
  BY <1>1, ScheduleInvariant, PTL

\* Every reachable state is well typed.
THEOREM ScheduleTyped ==
  ASSUME \A x, y \in Admin : x = y PROVE Spec => []TypeOK
<1>1. ScheduleInv => TypeOK
  BY DEF ScheduleInv
<1> QED
  BY <1>1, ScheduleInvariant, PTL

-----------------------------------------------------------------------------
(* No occurrence is queued twice.                                            *)

Ahead == src.next # None => Before(now, src.next)
Holds(s) == sched[s].phase \in {"claimed", "undo"}

\* The next occurrence follows the one served last.  The schedulers at a pass saw the same
\* occurrence, at most one of them holds the claim, and as long as the occurrence is still
\* in place none does.
Unserved ==
  /\ served # None => ~Before(now, served)
  /\ src.next # None /\ served # None => Before(served, src.next)
  /\ \A s \in Scheduler : sched[s].phase # "idle" =>
       /\ ~Before(now, sched[s].old) /\ Before(now, sched[s].new)
       /\ ~Ahead => sched[s].old = src.next /\ ~Holds(s)
       /\ \A r \in Scheduler : sched[r].phase # "idle" => sched[r].old = sched[s].old
       /\ Holds(s) => /\ served # None => Before(served, sched[s].old)
                      /\ \A r \in Scheduler : Holds(r) => r = s

\* Times are ordered.
LEMMA TimesOrdered ==
  ASSUME NEW t \in Time, NEW u \in Time, NEW v \in Time
  PROVE  /\ Before(t, u) /\ Before(u, v) => Before(t, v)
         /\ ~Before(u, t) /\ Before(u, v) => Before(t, v)
         /\ Before(t, u) /\ ~Before(v, u) => Before(t, v)
         /\ ~Before(t, t)
  BY ScheduleAssumption DEF Before, Time

\* Unserved, where no pass has moved and next_sync_at stays or lies ahead.
LEMMA UnservedFrame ==
  ASSUME ScheduleInv, ScheduleInv', Unserved, UNCHANGED <<now, sched, served>>,
         src'.next = src.next \/ Ahead'
  PROVE  Unserved'
<1>1. CASE src'.next = src.next
  BY <1>1 DEF Unserved, Ahead, Holds
<1>2. CASE Ahead'
  <2>1. src'.next # None /\ served # None => Before(served, src'.next)
    <3> SUFFICES ASSUME src'.next # None, served # None PROVE Before(served, src'.next)
      OBVIOUS
    <3>1. src'.next \in Time /\ served \in Time /\ now \in Time
      BY DEF ScheduleInv, TypeOK, Source
    <3>2. ~Before(now, served) /\ Before(now, src'.next)
      BY <1>2 DEF Unserved, Ahead
    <3> QED
      BY <3>1, <3>2, TimesOrdered
  <2> QED
    BY <1>2, <2>1 DEF Unserved, Holds
<1> QED
  BY <1>1, <1>2

\* A pass that ends or fails takes nothing away.
LEMMA UnservedEnds ==
  ASSUME ScheduleInv, Unserved, NEW s \in Scheduler, UNCHANGED <<now, src, served>>,
         sched[s].phase # "idle",
         \/ sched' = [sched EXCEPT ![s] = IdleSched]
         \/ Holds(s) /\ sched' = [sched EXCEPT ![s].phase = "undo"]
  PROVE  Unserved'
<1>1. \A r \in Scheduler : /\ sched'[r].phase # "idle" => /\ sched[r].phase # "idle"
                                                           /\ sched'[r].old = sched[r].old
                                                           /\ sched'[r].new = sched[r].new
                           /\ Holds(r)' => Holds(r)
  BY DEF ScheduleInv, TypeOK, Pass, IdleSched, Holds
<1>2. Ahead' <=> Ahead
  BY DEF Ahead
<1> QED
  BY <1>1, <1>2 DEF Unserved

LEMMA UnservedTick ==
  ASSUME ScheduleInv, ScheduleInv', Unserved, NEW s \in Scheduler, Tick(s)
  PROVE  Unserved'
<1> DEFINE new == NextAfterRun(now, src.interval, src.hour)
<1>1. /\ sched[s].phase = "idle" /\ Due
      /\ sched' = [sched EXCEPT ![s] = [phase |-> "due", old |-> src.next, new |-> new]]
      /\ UNCHANGED <<now, src, served>>
  BY DEF Tick
<1>2. ~Ahead /\ ~Ahead' /\ ~Before(now, src.next)
  BY <1>1 DEF Due, Ahead
<1>3. Before(now, new)
  BY AfterRun DEF ScheduleInv, TypeOK, Source
<1> HIDE DEF new
<1>4. /\ sched'[s].old = src.next /\ sched'[s].new = new /\ sched'[s].phase = "due"
      /\ \A r \in Scheduler : r # s => sched'[r] = sched[r]
  BY <1>1 DEF ScheduleInv, TypeOK
<1>5. \A r \in Scheduler : sched[r].phase # "idle" =>
        /\ ~Before(now, sched[r].old) /\ Before(now, sched[r].new)
        /\ sched[r].old = src.next /\ ~Holds(r)
  BY <1>2 DEF Unserved
<1>6. \A r \in Scheduler : sched'[r].phase # "idle" =>
        /\ ~Before(now, sched'[r].old) /\ Before(now, sched'[r].new)
        /\ sched'[r].old = src.next /\ ~Holds(r)'
  BY <1>2, <1>3, <1>4, <1>5 DEF Holds
<1> QED
  BY <1>1, <1>2, <1>6 DEF Unserved

LEMMA UnservedClaim ==
  ASSUME ScheduleInv, ScheduleInv', Unserved, NEW s \in Scheduler, Claim(s)
  PROVE  Unserved'
<1>1. sched[s].phase = "due" /\ UNCHANGED <<now, served>>
  BY DEF Claim
<1>2. CASE ~Due
  <2>1. sched' = [sched EXCEPT ![s] = IdleSched] /\ UNCHANGED src
    BY <1>2 DEF Claim
  <2> QED
    BY <1>1, <2>1, UnservedEnds
<1>3. CASE Due
  <2>1. src' = [src EXCEPT !.next = sched[s].new] /\ sched' = [sched EXCEPT ![s].phase = "claimed"]
    BY <1>3 DEF Claim
  <2>2. ~Ahead
    BY <1>3 DEF Due, Ahead
  <2>3. \A r \in Scheduler : sched[r].phase # "idle" =>
          /\ ~Before(now, sched[r].old) /\ Before(now, sched[r].new)
          /\ sched[r].old = src.next /\ ~Holds(r)
    BY <2>2 DEF Unserved
  <2>4. src'.next = sched[s].new
    BY <2>1 DEF ScheduleInv, TypeOK, Source
  <2>5. Ahead'
    BY <1>1, <2>3, <2>4 DEF Ahead
  <2>6. \A r \in Scheduler : /\ sched'[r].phase # "idle" => sched[r].phase # "idle"
                             /\ sched'[r].old = sched[r].old /\ sched'[r].new = sched[r].new
                             /\ r # s => sched'[r] = sched[r]
    BY <1>1, <2>1 DEF ScheduleInv, TypeOK, Pass
  <2>7. \A r \in Scheduler : Holds(r)' => r = s
    <3> SUFFICES ASSUME NEW r \in Scheduler, Holds(r)', r # s PROVE FALSE
      OBVIOUS
    <3>1. Holds(r) /\ sched[r].phase # "idle"
      BY <2>6 DEF Holds
    <3> QED
      BY <2>3, <3>1
  <2>8. served # None => Before(served, src.next) /\ Before(served, src'.next)
    <3> SUFFICES ASSUME served # None PROVE Before(served, src.next) /\ Before(served, src'.next)
      OBVIOUS
    <3>1. src.next # None
      BY <1>3 DEF Due
    <3>2. Before(served, src.next) /\ ~Before(now, served)
      BY <3>1 DEF Unserved
    <3>3. served \in Time /\ now \in Time /\ src'.next \in Time
      BY <1>1, <2>4 DEF ScheduleInv, TypeOK, PassesAgree
    <3>4. Before(now, src'.next)
      BY <1>1, <2>3, <2>4
    <3> QED
      BY <3>2, <3>3, <3>4, TimesOrdered
  <2> QED
    BY <1>1, <2>3, <2>5, <2>6, <2>7, <2>8 DEF Unserved
<1> QED
  BY <1>2, <1>3

\* The occurrence that is served now was not before, and the next one lies ahead.
LEMMA UnservedCreate ==
  ASSUME ScheduleInv, ScheduleInv', Unserved, NEW s \in Scheduler, CreateScheduled(s)
  PROVE  Unserved'
<1>1. /\ Holds(s) /\ sched' = [sched EXCEPT ![s] = IdleSched]
      /\ UNCHANGED <<now, src>>
      /\ UNCHANGED served \/ served' = sched[s].old
  BY DEF CreateScheduled, Holds
<1>2. CASE UNCHANGED served
  BY <1>1, <1>2, UnservedEnds DEF Holds
<1>3. CASE served' = sched[s].old
  <2>1. Ahead /\ ~Before(now, sched[s].old) /\ sched[s].old \in Time /\ now \in Time
    BY <1>1 DEF Unserved, Holds, ScheduleInv, PassesAgree, TypeOK
  <2>2. src.next # None => Before(sched[s].old, src.next)
    <3>1. src.next \in Time \cup {None}
      BY DEF ScheduleInv, TypeOK, Source
    <3> QED
      BY <2>1, <3>1, TimesOrdered DEF Ahead
  <2>3. \A r \in Scheduler : /\ sched'[r].phase # "idle" => sched'[r] = sched[r]
                             /\ ~Holds(r)'
    BY <1>1 DEF ScheduleInv, TypeOK, IdleSched, Holds, Unserved
  <2>4. Ahead'
    BY <1>1, <2>1 DEF Ahead
  <2> QED
    BY <1>1, <1>3, <2>1, <2>2, <2>3, <2>4 DEF Unserved
<1> QED
  BY <1>1, <1>2, <1>3

\* Only the one scheduler with the claim puts an occurrence back, and it has not served it.
LEMMA UnservedUndo ==
  ASSUME ScheduleInv, ScheduleInv', Unserved, NEW s \in Scheduler, Undo(s)
  PROVE  Unserved'
<1>1. /\ sched[s].phase = "undo" /\ sched' = [sched EXCEPT ![s] = IdleSched]
      /\ src' = IF src.next = sched[s].new THEN [src EXCEPT !.next = sched[s].old] ELSE src
      /\ UNCHANGED <<now, served>>
  BY DEF Undo
<1>2. CASE src.next # sched[s].new
  BY <1>1, <1>2, UnservedEnds
<1>3. CASE src.next = sched[s].new
  <2>1. src'.next = sched[s].old
    BY <1>1, <1>3 DEF ScheduleInv, TypeOK, Source
  <2>2. \A r \in Scheduler : /\ sched'[r].phase # "idle" => sched[r].phase # "idle" /\ sched'[r] = sched[r]
                             /\ ~Holds(r)'
    BY <1>1 DEF ScheduleInv, TypeOK, IdleSched, Holds, Unserved
  <2>3. served # None => Before(served, src'.next)
    BY <1>1, <2>1 DEF Unserved, Holds
  <2>4. \A r \in Scheduler : sched[r].phase # "idle" => sched[r].old = sched[s].old
    BY <1>1 DEF Unserved
  <2> QED
    BY <1>1, <2>1, <2>2, <2>3, <2>4 DEF Unserved
<1> QED
  BY <1>2, <1>3

LEMMA UnservedClock ==
  ASSUME ScheduleInv, Unserved, Clock
  PROVE  Unserved'
<1>1. /\ \A s \in Scheduler : sched[s].phase = "idle"
      /\ UNCHANGED <<src, sched, served>>
      /\ now' = IF now.hour < Day - 1 THEN [now EXCEPT !.hour = @ + 1] ELSE [day |-> now.day + 1, hour |-> 0]
  BY DEF Clock
<1>2. \A t \in Time : ~Before(now, t) => ~Before(now', t)
  BY <1>1, ScheduleAssumption DEF ScheduleInv, TypeOK, Time, Before
<1>3. served # None => ~Before(now', served')
  BY <1>1, <1>2 DEF Unserved, ScheduleInv, TypeOK
<1> QED
  BY <1>1, <1>3 DEF Unserved

LEMMA InitUnserved == Init => Unserved
<1> SUFFICES ASSUME Init PROVE Unserved
  OBVIOUS
<1>1. served = None /\ \A s \in Scheduler : sched[s].phase = "idle"
  BY DEF Init, IdleSched
<1> QED
  BY <1>1 DEF Unserved

LEMMA NextUnserved ==
  ASSUME ScheduleInv, ScheduleInv', Unserved, [Next]_vars
  PROVE  Unserved'
<1>1. CASE UNCHANGED vars
  BY <1>1, UnservedFrame DEF vars
<1>2. ASSUME NEW s \in Scheduler, SchedulerStep(s) \/ CreateFails(s) \/ Die(s) PROVE Unserved'
  <2>1. CASE CreateFails(s)
    BY <2>1, UnservedEnds DEF CreateFails, Holds
  <2>2. CASE Die(s)
    BY <2>2, UnservedEnds DEF Die
  <2> QED
    BY <1>2, <2>1, <2>2, UnservedTick, UnservedClaim, UnservedCreate, UnservedUndo DEF SchedulerStep
<1>3. CASE RunStep \/ Crash
  <2>1. CASE Record \/ Recover
    <3>1. UNCHANGED <<now, sched, served>>
      BY <2>1 DEF Record, Recover
    <3>2. src'.next = src.next \/ Ahead'
      BY <2>1, <3>1, RecordWrites DEF Ahead
    <3> QED
      BY <3>1, <3>2, UnservedFrame
  <2>2. CASE ClaimRun \/ Finish \/ Crash
    BY <2>2, UnservedFrame DEF ClaimRun, Finish, Crash
  <2> QED
    BY <1>3, <2>1, <2>2 DEF RunStep
<1>4. ASSUME NEW a \in Admin, Edit(a) \/ AskSync(a) \/ LockToDelete(a) \/ RequestEnds(a) PROVE Unserved'
  <2>1. CASE Save(a)
    <3>1. UNCHANGED <<now, sched, served>>
      BY <2>1 DEF Save
    <3>2. CASE src.status = "DELETED"
      BY <2>1, <3>1, <3>2, UnservedFrame DEF Save
    <3>3. CASE src.status # "DELETED"
      <4>1. src'.next = adm[a].to.next
        BY <2>1, <3>3 DEF Save, Written, ScheduleInv, TypeOK, Source
      <4>2. adm[a].to.next # None => Before(now, adm[a].to.next)
        BY <2>1 DEF Save, ScheduleInv, EditFits
      <4>3. Ahead'
        BY <3>1, <4>1, <4>2 DEF Ahead
      <4> QED
        BY <3>1, <4>3, UnservedFrame
    <3> QED
      BY <3>2, <3>3
  <2>2. CASE Delete(a)
    <3>1. UNCHANGED <<now, sched, served>> /\ src'.next = None
      BY <2>2 DEF Delete, ScheduleInv, TypeOK, Source
    <3> QED
      BY <3>1, UnservedFrame DEF Ahead
  <2>3. CASE Edit(a) \/ AskSync(a) \/ LockToDelete(a) \/ CreateManual(a)
    BY <2>3, UnservedFrame DEF Edit, AskSync, LockToDelete, CreateManual
  <2> QED
    BY <1>4, <2>1, <2>2, <2>3 DEF RequestEnds
<1> QED
  BY <1>1, <1>2, <1>3, <1>4, UnservedClock DEF Next

\* scheduler.py: replicas, undone claims and schedulers that die never queue an occurrence
\* twice; for any number of schedulers, hours, intervals and days, with one administrator.
THEOREM OccurrencesAreQueuedOnce ==
  ASSUME \A x, y \in Admin : x = y PROVE Spec => OncePerOccurrence
<1> DEFINE Once == \A s \in Scheduler :
             CreateScheduled(s) /\ run.status = "none" => served = None \/ Before(served, sched[s].old)
<1>1. Unserved => Once
  <2> SUFFICES ASSUME Unserved, NEW s \in Scheduler, CreateScheduled(s)
               PROVE  served = None \/ Before(served, sched[s].old)
    OBVIOUS
  <2>1. Holds(s) /\ sched[s].phase # "idle"
    BY DEF CreateScheduled, Holds
  <2> QED
    BY <2>1 DEF Unserved
<1>2. ScheduleInv /\ ScheduleInv' /\ Unserved /\ [Next]_vars => Unserved'
  BY NextUnserved
<1>3. Unserved => [Once]_vars
  BY <1>1
<1>4. Spec => []ScheduleInv
  BY ScheduleInvariant
<1> HIDE DEF Once
<1>5. Spec => [][Once]_vars
  BY InitUnserved, <1>2, <1>3, <1>4, PTL DEF Spec
<1> QED
  BY <1>5 DEF Once, OncePerOccurrence
===============================================================================
