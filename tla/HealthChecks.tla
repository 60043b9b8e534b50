--------------------------- MODULE HealthChecks ---------------------------
(***************************************************************************)
(* The monitoring checks (health, health_repo): a run probes its components*)
(* side by side, stores each result with a compare of the status before,   *)
(* and records an event when that changed.  The lock and the throttle are  *)
(* of one backend process; the rows are shared.                            *)
(*                                                                         *)
(* What a probe looks at is a set of faults: something a component depends *)
(* on is broken.  Reasons, suggested actions, latencies and details are    *)
(* left out; times are the order of the runs' starts.                      *)
(***************************************************************************)
EXTENDS Naturals, Sequences

CONSTANTS Backend,    \* backend processes
          Component,  \* HEALTH_COMPONENTS, or those looked at
          Fault,      \* what may break
          MaxRuns,    \* bound on runs
          MaxEvents   \* bound on events

VARIABLES broken,   \* the faults there are
          sources,  \* an active SharePoint source, an account with a knowledge base
          running,  \* each backend's run: the components left to probe or to store, and the results
          open,     \* each backend: its throttle interval is over
          checks,   \* AIVA_health_checks: the status of each component and when it was checked
          events,   \* AIVA_health_check_events
          runs      \* runs started

healthVars == <<broken, sources, running, open, checks, events, runs>>

-----------------------------------------------------------------------------
HEALTHY == "HEALTHY"
FAILED == "FAILED"
NOT_CONFIGURED == "NOT_CONFIGURED"
Never == "never checked"
Statuses == {HEALTHY, FAILED, NOT_CONFIGURED}

Row == [status : Statuses \cup {Never}, checked : 0 .. MaxRuns, failures : 0 .. MaxRuns]
Idle == [at |-> "idle", left |-> {}, found |-> [c \in {} |-> HEALTHY], started |-> 0]

HealthTypeOK ==
  /\ broken \subseteq Fault /\ sources \in BOOLEAN
  /\ \A b \in Backend : /\ running[b].at \in {"idle", "probe", "store"}
                        /\ running[b].left \subseteq Component
                        /\ DOMAIN running[b].found \subseteq Component
  /\ open \in [Backend -> BOOLEAN]
  /\ checks \in [Component -> Row]
  /\ Len(events) <= MaxEvents

HealthInit ==
  /\ broken = {} /\ sources \in BOOLEAN
  /\ running = [b \in Backend |-> Idle]
  /\ open = [b \in Backend |-> TRUE]
  /\ checks = [c \in Component |-> [status |-> Never, checked |-> 0, failures |-> 0]]
  /\ events = <<>> /\ runs = 0

-----------------------------------------------------------------------------
(* One check.  Exceptions and timeouts of a probe count as failures.       *)

\* What fails it before it knows whether it is set up, and what fails it after.
Judge(first, setUp, then) ==
  IF broken \cap first # {} THEN FAILED
  ELSE IF ~setUp THEN NOT_CONFIGURED
  ELSE IF broken \cap then # {} THEN FAILED ELSE HEALTHY

DatabaseCheck == Judge({"app database", "kb database"}, TRUE, {})
EmbeddingCheck == Judge({"app database", "kb database"}, sources, {"corpus", "api key", "provider"})
ExtractionCheck == Judge({"extractor", "smoke test", "ocr language"}, TRUE, {})
SharePointState == {"app database", "sync worker", "failed run", "overdue", "stuck run"}
IntegrityProblems == {"kb database", "lost chunks", "queue groups"}
KnowledgeSyncCheck ==
  Judge({"worker", "stuck document"} \cup IntegrityProblems \cup SharePointState, TRUE, {})
SourceProbes == {"sign in", "folder"}
GraphCheck == Judge({"app database"}, sources, {"secrets"} \cup SourceProbes)
CrmCheck == Judge({"app database"}, sources, {"persist"})

Verdict(c) ==
  CASE c = "database" -> DatabaseCheck
    [] c = "embedding" -> EmbeddingCheck
    [] c = "extraction" -> ExtractionCheck
    [] c = "knowledge_sync" -> KnowledgeSyncCheck
    [] c = "microsoft_graph" -> GraphCheck
    [] c = "crm" -> CrmCheck

-----------------------------------------------------------------------------
\* run_checks of all components or of one, under the process's lock.  Within the throttle
\* interval the stored results are returned instead, and nothing changes.
StartRun(b, asked) ==
  /\ running[b].at = "idle" /\ open[b] /\ runs < MaxRuns
  /\ runs' = runs + 1
  /\ running' = [running EXCEPT ![b] = [Idle EXCEPT !.at = "probe", !.left = asked, !.started = runs + 1]]
  /\ open' = [open EXCEPT ![b] = FALSE]
  /\ UNCHANGED <<broken, sources, checks, events>>

Probe(b, c) ==
  /\ running[b].at = "probe" /\ c \in running[b].left
  /\ LET found == [d \in DOMAIN running[b].found \cup {c} |->
                     IF d = c THEN Verdict(c) ELSE running[b].found[d]]
         left == running[b].left \ {c}
     IN  running' = [running EXCEPT ![b].found = found,
                                    ![b].left = IF left = {} THEN DOMAIN found ELSE left,
                                    ![b].at = IF left = {} THEN "store" ELSE "probe"]
  /\ UNCHANGED <<broken, sources, open, checks, events, runs>>

Stored(c, status, started) ==
  checks' = [checks EXCEPT ![c] = [status |-> status, checked |-> started,
                                   failures |-> IF status = FAILED THEN @.failures + 1 ELSE 0]]

Event(c, before, after) == [component |-> c, old |-> before, new |-> after]

Advance(b, c) ==
  running' = IF running[b].left = {c} THEN [running EXCEPT ![b] = Idle]
             ELSE [running EXCEPT ![b].left = @ \ {c}]

\* Mutant: the status before is read without the row's lock, and may be an older one.
StoreUnlocked(b, c) ==
  /\ running[b].at = "store" /\ c \in running[b].left /\ Len(events) < MaxEvents
  /\ Stored(c, running[b].found[c], running[b].started)
  /\ \E old \in {checks[c].status, Never} :
       events' = IF old = running[b].found[c] THEN events
                 ELSE Append(events, Event(c, old, running[b].found[c]))
  /\ Advance(b, c)
  /\ UNCHANGED <<broken, sources, open, runs>>

\* HealthRepo.save: the row is locked while it is read, merged and its event is written;
\* there is no row to lock the first time, and then the second of two inserts fails.
Store(b, c) ==
  /\ running[b].at = "store" /\ c \in running[b].left /\ Len(events) < MaxEvents
  /\ Stored(c, running[b].found[c], running[b].started)
  /\ events' = IF checks[c].status = running[b].found[c] THEN events
               ELSE Append(events, Event(c, checks[c].status, running[b].found[c]))
  /\ Advance(b, c)
  /\ UNCHANGED <<broken, sources, open, runs>>

\* A save that fails is logged; the others are still made, and the caller gets the results.
LoseStore(b, c) ==
  /\ running[b].at = "store" /\ c \in running[b].left
  /\ Advance(b, c)
  /\ UNCHANGED <<broken, sources, open, checks, events, runs>>

\* The request is cancelled, or the process restarts and forgets its throttle.
Interrupt(b) ==
  /\ running[b].at # "idle"
  /\ running' = [running EXCEPT ![b] = Idle]
  /\ \E restarted \in BOOLEAN : open' = [open EXCEPT ![b] = restarted]
  /\ UNCHANGED <<broken, sources, checks, events, runs>>

IntervalOver(b) ==
  /\ ~open[b]
  /\ open' = [open EXCEPT ![b] = TRUE]
  /\ UNCHANGED <<broken, sources, running, checks, events, runs>>

\* Something breaks, is repaired, or is set up.
WorldChanges ==
  /\ \/ sources' = ~sources /\ UNCHANGED broken
     \/ UNCHANGED sources /\ \E f \in Fault : broken' \in {broken \cup {f}, broken \ {f}}
  /\ UNCHANGED <<running, open, checks, events, runs>>

HealthNext ==
  \/ WorldChanges
  \/ \E b \in Backend :
       \/ Interrupt(b) \/ IntervalOver(b)
       \/ \E asked \in {Component} \cup {{c} : c \in Component} : StartRun(b, asked)
       \/ \E c \in Component : Probe(b, c) \/ Store(b, c) \/ LoseStore(b, c)

HealthSpec == HealthInit /\ [][HealthNext]_healthVars

-----------------------------------------------------------------------------
(* Properties.                                                             *)

EventsOf(c) == {i \in DOMAIN events : events[i].component = c}

Chained(c) ==
  /\ EventsOf(c) = {} <=> checks[c].status = Never
  /\ \A i \in EventsOf(c) :
       /\ events[i].old # events[i].new
       /\ (\A j \in EventsOf(c) : i <= j) => events[i].old = Never
       /\ (\A j \in EventsOf(c) : j <= i) => events[i].new = checks[c].status
       /\ \A k \in EventsOf(c) :
            i < k /\ (\A j \in EventsOf(c) : j <= i \/ k <= j) => events[k].old = events[i].new

\* The history of a component is one unbroken chain of real changes, from its first
\* result to the status stored now, whichever backends checked it and in what order.
EventsChain == \A c \in Component : Chained(c)
=============================================================================
