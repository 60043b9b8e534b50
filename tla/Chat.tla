-------------------------------- MODULE Chat --------------------------------
(* A chat session of an agent (routers/chat.py, services/rag.py): the queues   *)
(* the agent may use and those the session has chosen, the verticals a search  *)
(* is limited to, and what a message leaves in the database.  Meanwhile a      *)
(* manager reassigns the agent's queues, documents come and go, and the        *)
(* catalog of queues itself is changed; every statement is a transaction of    *)
(* its own.                                                                    *)
EXTENDS Naturals, SequencesExt, FiniteSetsExt

CONSTANTS Queue,     \* queues the corpus may have
          Vertical,  \* verticals of documents
          Send,      \* requests that send a message
          All,       \* no choice of queues, no filter of verticals
          Limit,     \* messages of the history a model is shown
          MaxChanges \* changes of the queues and of who may use them

VARIABLES groups,   \* the verticals of each queue of the catalog (config_json.queue_groups)
          assigned, \* AIVA_agent_queue_access of the agent
          writes,   \* what is left of a manager's change
          active,   \* active_queues of the session, or All
          messages, \* of the session
          requests, \* AIVA_ai_requests: [of, status]
          traces,   \* AIVA_rag_retrievals: [of, status]
          send,     \* the requests
          changes   \* made so far

chatVars == <<groups, assigned, writes, active, messages, requests, traces, send, changes>>
session == <<groups, assigned, writes, active, changes>>
records == <<messages, requests, traces>>

Texts == {"none", "text", "error", "text and error", "empty"}
Found == {"none", "SUCCESS", "EMPTY", "FAILED"}
Idle == [at |-> "idle", elevated |-> FALSE, active |-> All, groups |-> [q \in {} |-> {}], verticals |-> All,
         history |-> <<>>, found |-> "none", text |-> "none", failed |-> FALSE]

\* get_queue_groups_from_config: the queues of the catalog with their verticals.  A catalog
\* without a usable queue reads as the default one, so there is always some queue.
Configs == UNION {[catalog -> SUBSET Vertical] : catalog \in (SUBSET Queue) \ {{}}}

ChatTypeOK ==
  /\ groups \in Configs
  /\ assigned \subseteq Queue
  /\ active \in ((SUBSET Queue) \ {{}}) \cup {All}
  /\ \A s \in Send : /\ send[s].active \in (SUBSET Queue) \cup {All}
                     /\ send[s].verticals \in ((SUBSET Vertical) \ {{}}) \cup {All}
                     /\ Len(send[s].history) <= Limit
                     /\ send[s].found \in Found /\ send[s].text \in Texts
  /\ \A m \in ToSet(messages) : m.by = "AI" => m.text # "none"
  /\ requests \subseteq [of : Send, status : {"SUCCESS", "FAILED"}]
  /\ traces \subseteq [of : Send, status : Found]
  /\ changes \in 0..MaxChanges

-----------------------------------------------------------------------------
(* Who may use which queues.                                               *)

\* get_allowed_queue_keys: elevated roles are not restricted, and neither is an agent without
\* assigned queues or without one that is still in the catalog.
Allowed(config, elevated) ==
  LET its == assigned \cap DOMAIN config
  IN IF elevated \/ its = {} THEN DOMAIN config ELSE its

\* validate_active_queues: a choice is some of the allowed queues.
Choosable(allowed) == (SUBSET allowed) \ {{}}

\* update_agent_queue_access: the new rows of a manager's choice from the catalog.
Assign ==
  /\ writes = <<>> /\ changes < MaxChanges
  /\ \E keys \in Choosable(DOMAIN groups) :
       writes' = <<[op |-> "delete"]>> \o [i \in 1..Cardinality(keys) |-> [op |-> "insert", key |-> SetToSeq(keys)[i]]]
  /\ changes' = changes + 1
  /\ UNCHANGED <<groups, assigned, active, records, send>>

\* set_assigned_queue_keys: the old rows are deleted, the new ones inserted one by one.
AssignWrite ==
  /\ writes # <<>>
  /\ assigned' = IF Head(writes).op = "delete" THEN {} ELSE assigned \cup {Head(writes).key}
  /\ writes' = Tail(writes)
  /\ UNCHANGED <<groups, active, records, send, changes>>

AssignStops ==
  /\ writes # <<>>
  /\ writes' = <<>>
  /\ UNCHANGED <<groups, assigned, active, records, send, changes>>

\* create_session: with a choice, or without one.
CreateSession ==
  /\ assigned = {}
  /\ active \in Choosable(Allowed(groups, FALSE)) \cup {All}

\* update_session_queues: the agent's choice.
Choose ==
  /\ changes < MaxChanges
  /\ \E elevated \in BOOLEAN : active' \in Choosable(Allowed(groups, elevated)) \ {active}
  /\ changes' = changes + 1
  /\ UNCHANGED <<groups, assigned, writes, records, send>>

\* A document is published for a queue or unpublished.
Publish ==
  /\ changes < MaxChanges
  /\ \E q \in DOMAIN groups, v \in Vertical : groups' = [groups EXCEPT ![q] = SymDiff(@, {v})]
  /\ changes' = changes + 1
  /\ UNCHANGED <<assigned, writes, active, records, send>>

\* patch_corpus: queues are added to the catalog or taken out of it, whoever has them assigned.
PatchCatalog ==
  /\ changes < MaxChanges
  /\ groups' \in {config \in Configs : DOMAIN config # DOMAIN groups}
  /\ changes' = changes + 1
  /\ UNCHANGED <<assigned, writes, active, records, send>>

ChatInit ==
  /\ groups \in Configs
  /\ CreateSession
  /\ writes = <<>>
  /\ messages = <<>> /\ requests = {} /\ traces = {}
  /\ send = [s \in Send |-> Idle]
  /\ changes = 0

-----------------------------------------------------------------------------
(* Sending a message.                                                      *)

At(s, place) == send[s].at = place

\* The user's roles, then the session are read first (send_message).
Load(s) ==
  /\ At(s, "idle")
  /\ \E elevated \in BOOLEAN :
       send' = [send EXCEPT ![s] = [Idle EXCEPT !.at = "config", !.elevated = elevated, !.active = active]]
  /\ UNCHANGED <<session, records>>

\* load_account_corpus_config, get_queue_groups_from_config.
ReadConfig(s) ==
  /\ At(s, "config")
  /\ send' = [send EXCEPT ![s].at = "resolve", ![s].groups = groups]
  /\ UNCHANGED <<session, records>>

\* Mutant: the queues of the session are used as they are.
Unreconciled(chosen, allowed) == chosen

\* reconcile_active_queues_with_allowed: without a queue left, all allowed ones.
Reconcile(chosen, allowed) ==
  IF chosen = All THEN All
  ELSE IF chosen \cap allowed = {} THEN allowed ELSE chosen \cap allowed

\* resolve_verticals: unknown queues have none; no vertical at all means no filter.
Verticals(config, queues) ==
  LET vs == IF queues = All THEN {} ELSE UNION {config[q] : q \in queues \cap DOMAIN config}
  IN IF vs = {} THEN All ELSE vs

\* resolve_search_verticals_for_session: the rows of now, the catalog read before.
Resolve(s) ==
  /\ At(s, "resolve")
  /\ LET queues == Reconcile(send[s].active, Allowed(send[s].groups, send[s].elevated))
     IN send' = [send EXCEPT ![s].at = "ask", ![s].elevated = FALSE, ![s].active = queues,
                             ![s].groups = Idle.groups, ![s].verticals = Verticals(send[s].groups, queues)]
  /\ UNCHANGED <<session, records>>

\* The question is stored before anything else.
Ask(s) ==
  /\ At(s, "ask")
  /\ messages' = Append(messages, [by |-> "USER", of |-> s, text |-> "text"])
  /\ send' = [send EXCEPT ![s].at = "prepare"]
  /\ UNCHANGED <<session, requests, traces>>

\* The prompt, the model's configuration or the history cannot be loaded: the request is
\* recorded as FAILED when that works, and nothing is answered (event_stream).
Unprepared(s) ==
  /\ At(s, "prepare")
  /\ requests' \in {requests, requests \cup {[of |-> s, status |-> "FAILED"]}}
  /\ send' = [send EXCEPT ![s] = [Idle EXCEPT !.at = "over"]]
  /\ UNCHANGED <<session, messages, traces>>

\* load_conversation_history: ORDER BY created_at ASC FETCH FIRST :limit.
History == SubSeq(messages, 1, IF Len(messages) < Limit THEN Len(messages) ELSE Limit)

\* stream_rag_response: prompt, model, history and the search; a search that fails or
\* finds nothing leaves an empty context.
Prepare(s) ==
  /\ At(s, "prepare")
  /\ \E f \in Found \ {"none"} :
       send' = [send EXCEPT ![s].at = "stream", ![s].history = History, ![s].found = f]
  /\ UNCHANGED <<session, records>>

\* _openai_stream: a piece of the answer.
Piece(s) ==
  /\ At(s, "stream") /\ send[s].text = "none"
  /\ send' = [send EXCEPT ![s].text = "text"]
  /\ UNCHANGED <<session, records>>

\* _assistant_text_for_db: the column takes no empty text.
AnswerText(text, failed) ==
  CASE text = "text" -> IF failed THEN "text and error" ELSE "text"
    [] OTHER -> "error"

\* The stream is over or breaks off; an answer without text is an error too.
StreamEnds(s) ==
  /\ At(s, "stream")
  /\ \E broken \in BOOLEAN :
       LET failed == broken \/ send[s].text = "none"
       IN send' = [send EXCEPT ![s] = [Idle EXCEPT !.at = "answer", !.failed = failed, !.found = send[s].found,
                                                   !.text = AnswerText(send[s].text, failed)]]
  /\ UNCHANGED <<session, records>>

Recorded(s) == [of |-> s, status |-> IF send[s].failed THEN "FAILED" ELSE "SUCCESS"]

\* Mutant: the request is recorded before its answer is stored.
AnswerLast(s) ==
  /\ At(s, "answer")
  /\ requests' = requests \cup {Recorded(s)}
  /\ send' = [send EXCEPT ![s].at = "request"]
  /\ UNCHANGED <<session, messages, traces>>

\* The answer is stored, with the error when it failed.
Answer(s) ==
  /\ At(s, "answer")
  /\ messages' = Append(messages, [by |-> "AI", of |-> s, text |-> send[s].text])
  /\ send' = [send EXCEPT ![s].at = "request"]
  /\ UNCHANGED <<session, requests, traces>>

RecordRequest(s) ==
  /\ At(s, "request")
  /\ requests' = requests \cup {Recorded(s)}
  /\ send' = [send EXCEPT ![s].at = "trace"]
  /\ UNCHANGED <<session, messages, traces>>

\* persist_rag_retrieval: a failure is only logged.
Trace(s) ==
  /\ At(s, "trace")
  /\ traces' \in {traces, traces \cup {[of |-> s, status |-> send[s].found]}}
  /\ send' = [send EXCEPT ![s] = [Idle EXCEPT !.at = "over"]]
  /\ UNCHANGED <<session, messages, requests>>

\* The client goes away, or a statement fails: nothing more is written.
Cut(s) ==
  /\ send[s].at \notin {"idle", "over"}
  /\ send' = [send EXCEPT ![s] = [Idle EXCEPT !.at = "over"]]
  /\ UNCHANGED <<session, records>>

SendStep(s) == \/ Load(s) \/ ReadConfig(s) \/ Resolve(s) \/ Ask(s) \/ Prepare(s) \/ Unprepared(s)
               \/ StreamEnds(s) \/ Answer(s) \/ RecordRequest(s) \/ Trace(s)

ChatNext ==
  \/ Assign \/ AssignWrite \/ AssignStops \/ Choose \/ Publish \/ PatchCatalog
  \/ \E s \in Send : SendStep(s) \/ Piece(s) \/ Cut(s)

ChatSpec == ChatInit /\ [][ChatNext]_chatVars /\ \A s \in Send : WF_chatVars(SendStep(s))

-----------------------------------------------------------------------------
(* Properties.                                                             *)

Place(by, s) == SelectInSeq(messages, LAMBDA m : m.by = by /\ m.of = s)

\* What is on record agrees, wherever a request was cut: an answer follows its question,
\* a request on record as successful has its answer, without an error in it, and a trace
\* has its request (chat.py send_message).
AnswersAreAccounted ==
  \A s \in Send :
    /\ Place("AI", s) # 0 => Place("USER", s) \in 1..Place("AI", s)
    /\ [of |-> s, status |-> "SUCCESS"] \in requests
         => Place("AI", s) # 0 /\ messages[Place("AI", s)].text = "text"
    /\ \A t \in traces : \E r \in requests : r.of = t.of

\* A session outlives the agent's queues and the catalog: whatever it chose earlier, a message
\* searches only queues of the catalog it has read, and only assigned ones when the agent has
\* some of them and no elevated role (chat_queues.py "Drop queues the agent no longer has").
\* A session without a choice is not limited; an agent with no assigned queue in the catalog,
\* also between the deletion and the insertion of the rows, may use all of it.
DroppedQueuesAreDropped ==
  [][\A s \in Send :
       LET catalog == DOMAIN send[s].groups
       IN send[s].at = "resolve" /\ send'[s].at = "ask" /\ send[s].active # All
            => /\ send'[s].active \subseteq catalog
               /\ ~send[s].elevated /\ assigned \cap catalog # {} => send'[s].active \subseteq assigned]_chatVars

\* A session limited to queues never searches the whole corpus: a document is found "only
\* for queues that were selected" (docs/document-intelligence-plan.md).
ChoiceIsKept ==
  \A s \in Send : send[s].at \in {"ask", "prepare", "stream"} /\ send[s].active # All => send[s].verticals # All

SendIsOver(s) == At(s, "idle") \/ At(s, "over")

\* Every request to send a message comes to its end.
SendsEnd == \A s \in Send : []<>SendIsOver(s)
=============================================================================
