------------------------------ MODULE Startup ------------------------------
(***************************************************************************)
(* What the servers' startup (main.lifespan) does to the database: the     *)
(* ensure_* steps, each a check that something is there and, when it is    *)
(* not, statements that make it.  Every statement is a transaction of its  *)
(* own, several servers start at once, and each may die at any point.      *)
(*                                                                         *)
(* An object is a table, a column, an index or a row; a statement fails    *)
(* when its object is there already, and the server with it.  One person   *)
(* stands for the trainees, whose flag one of the statements sets.         *)
(***************************************************************************)
EXTENDS Naturals, Sequences, FiniteSets

CONSTANTS Server,    \* processes that start the application
          Plan,      \* the units (StartupPlan)
          MaxDeaths  \* bound on deaths

VARIABLES database,  \* the objects that are there
          progress,  \* each server: down, checking or making, at which unit and statement
          promoted,  \* somebody create_trainee created is an agent: AIVA_users.is_trainee is 0
          deaths

startVars == <<database, progress, promoted, deaths>>

-----------------------------------------------------------------------------
Down == [at |-> "down", unit |-> 1, statement |-> 1]

StartTypeOK ==
  /\ database \subseteq STRING
  /\ progress \in [Server -> [at : {"down", "check", "make", "up"}, unit : 1 .. Len(Plan) + 1,
                              statement : 1 .. 2]]
  /\ promoted \in BOOLEAN
  /\ deaths \in 0 .. MaxDeaths

StartInit ==
  /\ database = {}
  /\ progress = [s \in Server |-> Down]
  /\ promoted = FALSE
  /\ deaths = 0

UnitOf(s) == Plan[progress[s].unit]
Statement(s) == UnitOf(s).makes[progress[s].statement]
At(s, place, unit, statement) ==
  progress' = [progress EXCEPT ![s] = [at |-> place, unit |-> unit, statement |-> statement]]

\* The next unit, or the application is up.
NextUnit(s) == At(s, IF progress[s].unit = Len(Plan) THEN "up" ELSE "check", progress[s].unit + 1, 1)

NextStatement(s) == IF progress[s].statement < Len(UnitOf(s).makes)
                    THEN At(s, "make", progress[s].unit, progress[s].statement + 1)
                    ELSE NextUnit(s)

-----------------------------------------------------------------------------
Boot(s) ==
  /\ progress[s].at = "down"
  /\ At(s, "check", 1, 1)
  /\ UNCHANGED <<database, promoted, deaths>>

\* Mutant: the statements are issued without looking.
CheckNothing(s) ==
  /\ progress[s].at = "check"
  /\ At(s, "make", progress[s].unit, 1)
  /\ UNCHANGED <<database, promoted, deaths>>

\* _table_exists, _column_exists, SELECT 1: what is there is not made again.
Check(s) ==
  /\ progress[s].at = "check"
  /\ IF UnitOf(s).unless \cap database # {} THEN NextUnit(s) ELSE At(s, "make", progress[s].unit, 1)
  /\ UNCHANGED <<database, promoted, deaths>>

\* Mutant: a failed step is logged, and the application comes up without the rest.
MakeOrComeUp(s) ==
  /\ progress[s].at = "make"
  /\ database' = database \cup ({Statement(s)} \ {"trainees"})
  /\ IF Statement(s) \in database THEN At(s, "up", Len(Plan) + 1, 1) ELSE NextStatement(s)
  /\ UNCHANGED <<promoted, deaths>>

\* One statement.  Another server may have made the object since the check: the
\* exception ends this start, and the server is started again.  Whoever the audit log
\* says was created as a trainee is one.
Make(s) ==
  /\ progress[s].at = "make"
  /\ database' = database \cup ({Statement(s)} \ {"trainees"})
  /\ promoted' = (promoted /\ Statement(s) # "trainees")
  /\ IF Statement(s) \in database THEN progress' = [progress EXCEPT ![s] = Down] ELSE NextStatement(s)
  /\ UNCHANGED deaths

Die(s) ==
  /\ deaths < MaxDeaths /\ progress[s].at # "down"
  /\ progress' = [progress EXCEPT ![s] = Down]
  /\ deaths' = deaths + 1
  /\ UNCHANGED <<database, promoted>>

\* create_trainee, then promote_trainee_to_agent, on a server that is up; the latter alone
\* when a start has made a trainee of them again.
Promote(s) ==
  /\ progress[s].at = "up" /\ ~promoted
  /\ promoted' = TRUE
  /\ UNCHANGED <<database, progress, deaths>>

StartNext ==
  \E s \in Server : Boot(s) \/ Check(s) \/ Make(s) \/ Die(s) \/ Promote(s)

StartSpec == StartInit /\ [][StartNext]_startVars
             /\ \A s \in Server : WF_startVars(Boot(s) \/ Check(s) \/ Make(s))

-----------------------------------------------------------------------------
(* Properties.                                                             *)

AllUp == \A s \in Server : progress[s].at = "up"

\* However servers that start together collide, and wherever one died before, each of
\* them comes up in the end.
AllComeUp == []<>AllUp

\* A server that is up finds every table, column, row and role that some start looks for
\* by itself, also when an earlier start died halfway.
UpIsComplete ==
  (\E s \in Server : progress[s].at = "up") =>
    \A i \in DOMAIN Plan : Cardinality(Plan[i].unless) = 1 => Plan[i].unless \subseteq database

\* promote_trainee_to_agent: "User is already a full agent" from then on.
PromotionLasts == [][promoted => promoted']_startVars
=============================================================================
