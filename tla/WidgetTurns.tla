---------------------------- MODULE WidgetTurns -----------------------------
(* The chat widget (aiva_chatbot/): its server signs in once, searches the     *)
(* knowledge base and asks the language model (llm_service/); how a turn went  *)
(* is reported to the backend (routers/logs.py) beside the answer.  The        *)
(* backend may be slow, be restarted or lose the reply; nothing is reported    *)
(* twice.                                                                      *)
EXTENDS Naturals

CONSTANTS Turn,
          UseAuth,    \* use_zoho_auth
          MaxFailures \* of the sign-in

VARIABLES signedIn, \* _zoho_session of the bot
          failures,
          turn,     \* the requests: where they are and what they were answered
          report,   \* the reports on their way
          turnRows, errorRows \* how many rows the backend has stored of each turn

widgetVars == <<signedIn, failures, turn, report, turnRows, errorRows>>
stored == <<turnRows, errorRows>>

\* Answers of POST /chat; Unhandled is the server's own 500.
Answers == {"ok", "400", "401", "429", "503", "502", "unhandled"}
NoReport == [at |-> "none", of |-> "none"]

WidgetTypeOK ==
  /\ signedIn \in BOOLEAN /\ failures \in 0..MaxFailures
  /\ turn \in [Turn -> {"idle", "gate", "search", "llm"} \cup Answers]
  /\ report \in [Turn -> [at : {"none", "sent", "over"}, of : {"none", "turn", "error"}]]
  /\ turnRows \in [Turn -> Nat] /\ errorRows \in [Turn -> Nat]

WidgetInit ==
  /\ signedIn = ~UseAuth /\ failures = 0
  /\ turn = [t \in Turn |-> "idle"]
  /\ report = [t \in Turn |-> NoReport]
  /\ turnRows = [t \in Turn |-> 0] /\ errorRows = [t \in Turn |-> 0]

GoOn(t, place) == turn' = [turn EXCEPT ![t] = place]

-----------------------------------------------------------------------------
(* The turn (bot.py achat_with_messages).                                  *)

\* The history must end with something the visitor said (_strip_to_user_assistant,
\* _last_user_text).
Begin(t) ==
  /\ turn[t] = "idle"
  /\ GoOn(t, "gate")
  /\ UNCHANGED <<signedIn, failures, report, stored>>

\* _ensure_zoho_async: turns that come before the sign-in has succeeded each try it.
Gate(t) ==
  /\ turn[t] = "gate"
  /\ signedIn' = TRUE
  /\ GoOn(t, "search")
  /\ UNCHANGED <<failures, report, stored>>

GateFails(t) ==
  /\ turn[t] = "gate" /\ ~signedIn /\ failures < MaxFailures
  /\ failures' = failures + 1
  /\ GoOn(t, "unhandled")
  /\ UNCHANGED <<signedIn, report, stored>>

Searched(t) ==
  /\ turn[t] = "search"
  /\ GoOn(t, "llm")
  /\ UNCHANGED <<signedIn, failures, report, stored>>

-----------------------------------------------------------------------------
(* Its answer (app.py chat) and what it is reported as.                    *)

\* _schedule_turn_log, _schedule_error_log: a task that posts once.
Schedule(t, of) == report' = [report EXCEPT ![t] = [at |-> "sent", of |-> of]]

\* Errors that chat() knows are reported; another one leaves it unreported.
Refuse(t, code) ==
  /\ GoOn(t, code)
  /\ IF code = "unhandled" THEN UNCHANGED report ELSE Schedule(t, "error")
  /\ UNCHANGED <<signedIn, failures, stored>>

\* No question, a corpus id that is none, Oracle; a corpus that does not exist and an
\* embedder that fails are not caught.
SearchFails(t) ==
  /\ turn[t] \in {"gate", "search"} /\ signedIn
  /\ \E code \in {"400", "503", "unhandled"} : Refuse(t, code)

\* _map_response_error.
StatusError == {"401", "429", "502"}

\* _map_httpx_error: a connection that breaks off later than in connecting is not mapped.
TransportError == {"502", "unhandled"}

\* _post_json: run_with_retry repeats errors of its own types only, and those are made
\* outside of it, so there is one attempt; a reply that is no JSON is a ValueError.
LlmFails(t) ==
  /\ turn[t] = "llm"
  /\ \E code \in StatusError \cup TransportError \cup {"400"} : Refuse(t, code)

\* _openai_chat, _to_response.
LlmAnswers(t) ==
  /\ turn[t] = "llm"
  /\ GoOn(t, "ok")
  /\ Schedule(t, "turn")
  /\ UNCHANGED <<signedIn, failures, stored>>

-----------------------------------------------------------------------------
(* The report.                                                             *)

\* A row of the backend about turn t: the report is inserted, never updated.
Another(rows, t) == [rows EXCEPT ![t] = @ + 1]

\* Mutant: a report without a reply is posted again.
LostAgain(t) ==
  /\ report[t].at = "sent"
  /\ turnRows' = IF report[t].of = "turn" THEN Another(turnRows, t) ELSE turnRows
  /\ errorRows' = IF report[t].of = "error" THEN Another(errorRows, t) ELSE errorRows
  /\ UNCHANGED <<signedIn, failures, turn, report>>

\* The backend refuses it, cannot store it (persist_ai_request, persist_error_log never
\* raise) or the five seconds are over: the report is dropped.
Lost(t) ==
  /\ report[t].at = "sent"
  /\ report' = [report EXCEPT ![t] = [NoReport EXCEPT !.at = "over"]]
  /\ UNCHANGED <<signedIn, failures, turn, stored>>

\* log_widget_turn of the backend: a retrieval and a request.
StoreTurn(t) ==
  /\ report[t].at = "sent" /\ report[t].of = "turn"
  /\ turnRows' = Another(turnRows, t)
  /\ report' = [report EXCEPT ![t] = [NoReport EXCEPT !.at = "over"]]
  /\ UNCHANGED <<signedIn, failures, turn, errorRows>>

\* log_widget_error of the backend.
StoreError(t) ==
  /\ report[t].at = "sent" /\ report[t].of = "error"
  /\ errorRows' = Another(errorRows, t)
  /\ report' = [report EXCEPT ![t] = [NoReport EXCEPT !.at = "over"]]
  /\ UNCHANGED <<signedIn, failures, turn, turnRows>>

TurnStep(t) == Gate(t) \/ Searched(t) \/ SearchFails(t) \/ LlmFails(t) \/ LlmAnswers(t)

WidgetNext ==
  \E t \in Turn : Begin(t) \/ TurnStep(t) \/ GateFails(t) \/ Lost(t) \/ StoreTurn(t) \/ StoreError(t)

WidgetSpec == WidgetInit /\ [][WidgetNext]_widgetVars /\ \A t \in Turn : WF_widgetVars(TurnStep(t))

-----------------------------------------------------------------------------
(* Properties.                                                             *)

\* What the backend has on record of a turn agrees with what its visitor got: an answer is
\* at most one turn and no error, an error reported at most once and no turn
\* (conversation_log.py "Fire-and-forget POST of one turn").
ReportsAgree ==
  \A t \in Turn : /\ turnRows[t] <= (IF turn[t] = "ok" THEN 1 ELSE 0)
                  /\ errorRows[t] <= (IF turn[t] \in Answers \ {"ok", "unhandled"} THEN 1 ELSE 0)

TurnIsOver(t) == turn[t] \in {"idle"} \cup Answers

\* Every turn is answered, though no report ever is.
TurnsAnswered == \A t \in Turn : []<>TurnIsOver(t)
=============================================================================
