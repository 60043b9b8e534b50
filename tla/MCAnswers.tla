------------------------------ MODULE MCAnswers ------------------------------
(* What answers a question, and what is kept and sent about it: chat sessions, *)
(* the embedding service, alerts, the price catalogue and the chat widget.     *)
(* They share no state in the model, so focus picks one of them and the others *)
(* stay in one initial state: the behaviours are those of the parts' own       *)
(* specifications.                                                             *)
EXTENDS AccountSetup, FiniteSets

CONSTANTS Parts,
          Queue, Vertical, Send, All, Limit, MaxChanges,
          Job, Chunk, Text, Absent, NoVector, Queued, MaxLines, BatchSize,
          Request, Route, Org, NoOrg, Platforms, Window, MaxClock,
          Call, TTL, MaxCatalogClock, NoList,
          Turn, UseAuth, MaxFailures

\* Settings and bounds are numbers, the queues of an agent are keys of one JSON object, what
\* stands for "none" is none of what it stands for.
ASSUME AnswersAssumption ==
  /\ {Limit, MaxChanges, MaxLines, BatchSize, Window, MaxClock, TTL, MaxCatalogClock, MaxFailures} \subseteq Nat
  /\ UseAuth \in BOOLEAN
  /\ IsFiniteSet(Queue) /\ IsFiniteSet(Chunk)
  /\ Route # {} /\ NoOrg \notin Org /\ Platforms \subseteq Org \cup {NoOrg}
  /\ Absent \notin [text : Text, vector : Text \cup {NoVector}]

VARIABLES focus,
          groups, assigned, writes, active, messages, requests, traces, send, changes,
          chunk, status, queue, work, overlap,
          clock, platform, request, alert, lastSent, attempts,
          catalogClock, cache, call,
          signedIn, failures, turn, report, turnRows, errorRows

Session == INSTANCE Chat
Ingest == INSTANCE IngestJobs
Mail == INSTANCE Alerts
Prices == INSTANCE PriceCatalog WITH clock <- catalogClock, MaxClock <- MaxCatalogClock
Widget == INSTANCE WidgetTurns

chatVars == <<groups, assigned, writes, active, messages, requests, traces, send, changes>>
ingestVars == <<chunk, status, queue, work, overlap>>
alertsVars == <<clock, platform, request, alert, lastSent, attempts>>
catalogVars == <<catalogClock, cache, call>>
widgetVars == <<signedIn, failures, turn, report, turnRows, errorRows>>
vars == <<focus, chatVars, ingestVars, alertsVars, catalogVars, widgetVars, setupVars>>

-----------------------------------------------------------------------------
Init ==
  /\ focus \in Parts
  /\ Session!ChatInit /\ (focus # "chat" => groups = [q \in Queue |-> {}] /\ active = All)
  /\ Ingest!IngestInit
  /\ Mail!AlertsInit /\ (focus # "alerts" => platform = NoOrg)
  /\ Prices!CatalogInit
  /\ Widget!WidgetInit
  /\ SetupInit

\* Only the part in focus moves.
OnlyFocus ==
  /\ UNCHANGED focus
  /\ (focus # "chat" => UNCHANGED chatVars)
  /\ (focus # "ingest" => UNCHANGED ingestVars)
  /\ (focus # "alerts" => UNCHANGED alertsVars)
  /\ (focus # "prices" => UNCHANGED catalogVars)
  /\ (focus # "widget" => UNCHANGED widgetVars)
  /\ (focus # "setup" => UNCHANGED setupVars)

Next ==
  \/ focus = "chat" /\ Session!ChatNext /\ OnlyFocus
  \/ focus = "ingest" /\ Ingest!IngestNext /\ OnlyFocus
  \/ focus = "alerts" /\ Mail!AlertsNext /\ OnlyFocus
  \/ focus = "prices" /\ Prices!CatalogNext /\ OnlyFocus
  \/ focus = "widget" /\ Widget!WidgetNext /\ OnlyFocus
  \/ focus = "setup" /\ SetupNext /\ OnlyFocus

\* The fairness of the parts' own specifications.
Spec ==
  /\ Init /\ [][Next]_vars
  /\ \A s \in Send : WF_chatVars(focus = "chat" /\ Session!SendStep(s))
  /\ WF_ingestVars(focus = "ingest" /\ Ingest!Pop)
  /\ \A j \in Job : /\ WF_ingestVars(focus = "ingest" /\ (Ingest!Push(j) \/ Ingest!Inline(j)))
                    /\ WF_ingestVars(focus = "ingest" /\ Ingest!JobStep(j))
  /\ \A r \in Request : WF_alertsVars(focus = "alerts" /\ Mail!RequestStep(r))
  /\ \A c \in Call : WF_catalogVars(focus = "prices" /\ Prices!CallStep(c))
  /\ \A t \in Turn : WF_widgetVars(focus = "widget" /\ Widget!TurnStep(t))

-----------------------------------------------------------------------------
(* Properties.                                                             *)

\* The variables of every part have their types.
TypeOK ==
  /\ focus \in Parts
  /\ Session!ChatTypeOK /\ Ingest!IngestTypeOK /\ Mail!AlertsTypeOK
  /\ Prices!CatalogTypeOK /\ Widget!WidgetTypeOK /\ SetupTypeOK

\* Chat, WidgetTurns: what is on record of a question agrees with what was answered, wherever
\* the request was cut or its report lost (chat.py send_message, conversation_log.py).
RecordsAgree == Session!AnswersAreAccounted /\ Widget!ReportsAgree

\* IngestJobs, PriceCatalog, AccountSetup: nothing stale is used: a search compares with
\* vectors of the texts it returns, no price is older than its time to live, and the prompt
\* that answers is the one activated last; a model that is deleted alone is in use no more.
NothingIsStale ==
  Ingest!VectorsAreCurrent /\ Prices!ServedFresh /\ PromptIsCurrent /\ DeletionIsFree

\* Alerts: however many requests fail at once, the alerts about one kind of error on one
\* route are a window apart and go to the organization concerned and the platform's only.
AlertsReachTheirOwn == Mail!AlertsAreSpaced /\ Mail!MailsStayInside

\* Chat: queues that the agent no longer has, or the catalog, are dropped from the session
\* before it searches.
DroppedQueuesAreDropped == Session!DroppedQueuesAreDropped

\* Nothing hangs: a message, a job, a request that fails, a look at the prices and a turn of
\* the widget come to an end, whatever provider, mail server or backend never answers (SendsEnd,
\* JobsEnd, AnswersDoNotWait, CallsReturn, TurnsAnswered).
NothingHangs ==
  /\ \A s \in Send : []<>(focus = "chat" => Session!SendIsOver(s))
  /\ \A j \in Job : []<>(focus = "ingest" => Ingest!JobIsOver(j))
  /\ \A r \in Request : []<>(focus = "alerts" => Mail!RequestIsOver(r))
  /\ \A c \in Call : []<>(focus = "prices" => Prices!At(c, "idle"))
  /\ \A t \in Turn : []<>(focus = "widget" => Widget!TurnIsOver(t))
=============================================================================
