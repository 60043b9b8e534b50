------------------------------ MODULE Watchdog ------------------------------
(* The watchdog (scripts/watchdog.py): run after run it checks the server,     *)
(* mails about what fails and about what has recovered, and keeps in a file    *)
(* what it has mailed.  Runs do not overlap (flock in its crontab line).  The  *)
(* mail server may refuse, the file may be lost and a run may be stopped.      *)
(* Time passes from one run to the next.                                       *)
EXTENDS Naturals

CONSTANTS Target,    \* what is checked
          Confirmed, \* targets that must fail twice in a row: the database, the application
          Repeat,    \* repeat_hours, in runs
          NoMail,    \* not mailed about
          MaxLosses  \* of the state file

VARIABLES broken,  \* targets that do not work
          state,   \* the state file
          run,     \* the run: what it found and decided
          told,    \* targets the last mail about them said are broken
          lost,    \* targets of whose mails the file knows nothing any more
          losses

watchdogVars == <<broken, state, run, told, lost, losses>>

CONFIRM_RUNS == 2
Entry == [fails : 0..CONFIRM_RUNS, since : 0..Repeat \cup {NoMail}]
NoEntry == [fails |-> 0, since |-> NoMail]
NoRun == [at |-> "idle", failing |-> {}, alerts |-> {}, recovered |-> {}, next |-> [c \in Target |-> NoEntry]]

WatchdogTypeOK ==
  /\ broken \subseteq Target /\ told \subseteq Target /\ lost \subseteq Target
  /\ state \in [Target -> Entry]
  /\ run.at \in {"idle", "decide", "send", "save"}
  /\ run.alerts \cap run.recovered = {}
  /\ run.next \in [Target -> Entry]

WatchdogInit ==
  /\ broken \in SUBSET Target
  /\ state = NoRun.next /\ run = NoRun
  /\ told = {} /\ lost = {} /\ losses = 0

\* Something breaks or is mended.
WorldChanges ==
  /\ \E c \in Target : broken' = IF c \in broken THEN broken \ {c} ELSE broken \cup {c}
  /\ UNCHANGED <<state, run, told, lost, losses>>

Min2(a, b) == IF a < b THEN a ELSE b

\* One run older (now - last).
Older(entry) == [entry EXCEPT !.since = IF @ = NoMail THEN NoMail ELSE Min2(@ + 1, Repeat)]

-----------------------------------------------------------------------------
(* A run (run_once).                                                       *)

\* run_checks; load_state takes a file it cannot read for an empty one.
Check ==
  /\ run.at = "idle"
  /\ run' = [NoRun EXCEPT !.at = "decide", !.failing = broken]
  /\ state' = [c \in Target |-> Older(state[c])]
  /\ UNCHANGED <<broken, told, lost, losses>>

LoseFile ==
  /\ run.at = "idle" /\ state # NoRun.next /\ losses < MaxLosses
  /\ state' = NoRun.next
  /\ lost' = lost \cup told
  /\ losses' = losses + 1
  /\ UNCHANGED <<broken, run, told>>

\* decide: a target that works keeps its entry only until its all-clear.
Failed(entry) == [entry EXCEPT !.fails = Min2(@ + 1, CONFIRM_RUNS)]
Needed(c) == IF c \in Confirmed THEN CONFIRM_RUNS ELSE 1
IsDue(c) ==
  LET entry == Failed(state[c])
  IN entry.fails >= Needed(c) /\ (entry.since = NoMail \/ entry.since >= Repeat)

Decide ==
  /\ run.at = "decide"
  /\ LET recovered == {c \in Target \ run.failing : state[c].since # NoMail}
         alerts == {c \in run.failing : IsDue(c)}
     IN run' = [run EXCEPT !.at = IF alerts \cup recovered = {} THEN "save" ELSE "send",
                           !.alerts = alerts, !.recovered = recovered,
                           !.next = [c \in Target |-> IF c \in run.failing THEN Failed(state[c])
                                                      ELSE IF c \in recovered THEN state[c] ELSE NoEntry]]
  /\ UNCHANGED <<broken, state, told, lost, losses>>

\* settle: what was sent.
Settled ==
  [c \in Target |-> IF c \in run.alerts THEN [run.next[c] EXCEPT !.since = 0]
                    ELSE IF c \in run.recovered THEN NoEntry ELSE run.next[c]]

\* compose, send: one mail for everything.
Sent ==
  /\ run.at = "send"
  /\ run' = [run EXCEPT !.at = "save", !.next = Settled]
  /\ told' = (told \cup run.alerts) \ run.recovered
  /\ lost' = lost \ (run.alerts \cup run.recovered)
  /\ UNCHANGED <<broken, state, losses>>

\* Mutant: an alert that was not sent counts as sent.
NotSentButSettled ==
  /\ run.at = "send"
  /\ run' = [run EXCEPT !.at = "save", !.next = Settled]
  /\ UNCHANGED <<broken, state, told, lost, losses>>

\* The mail is tried again by the next run.
NotSent ==
  /\ run.at = "send"
  /\ run' = [run EXCEPT !.at = "save"]
  /\ UNCHANGED <<broken, state, told, lost, losses>>

Save ==
  /\ run.at = "save"
  /\ state' = run.next
  /\ run' = NoRun
  /\ UNCHANGED <<broken, told, lost, losses>>

\* The file cannot be written, or the run is stopped: "the next run may repeat an email".
Stops ==
  /\ run.at # "idle"
  /\ run' = NoRun
  /\ lost' = lost \cup {c \in told : state[c].since = NoMail}
  /\ UNCHANGED <<broken, state, told, losses>>

WatchdogNext == WorldChanges \/ Check \/ LoseFile \/ Decide \/ Sent \/ NotSent \/ Save \/ Stops

\* Cron starts run after run, not all of them are stopped, the mail server takes a mail again
\* and again, and a file can be written again and again.
WatchdogSpec ==
  /\ WatchdogInit /\ [][WatchdogNext]_watchdogVars
  /\ WF_watchdogVars(Check)
  /\ SF_watchdogVars(Decide) /\ SF_watchdogVars(Sent) /\ SF_watchdogVars(Save)

-----------------------------------------------------------------------------
(* Properties.                                                             *)

Told(c) == c \notin broken \/ c \in told
AllClear(c) == c \in broken \cup lost \/ c \notin told

\* A target that stays broken is mailed about, whatever mails failed, runs were stopped or
\* files were lost
\* ("a failed send is retried on the next run").
ProblemsAreTold == \A c \in Target : []<>Told(c)

\* "and an all-clear once it is fixed", unless the file with the alert was lost.
AllClearIsTold == \A c \in Target : []<>AllClear(c)
=============================================================================
