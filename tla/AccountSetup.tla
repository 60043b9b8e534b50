---------------------------- MODULE AccountSetup ----------------------------
(* What an administrator sets up for the questions of an account: its prompts  *)
(* (routers/prompts.py) and the model it uses (routers/llm_configs.py,         *)
(* update_account).  Every statement is a transaction of its own, requests     *)
(* overlap and may stop between two of them.  Texts, names, provider settings  *)
(* and access checks are left out.                                             *)
EXTENDS Naturals

CONSTANTS Editor,
          Prompt,  \* of one account; an id is never used again
          Account, Model,
          None

ASSUME SetupAssumption == None \notin Model

VARIABLES prompt,   \* AIVA_prompts: "none" yet, "active", "inactive" or "gone"
          models,   \* AIVA_llm_configs
          modelOf,  \* AIVA_accounts.llm_config_id
          edit,     \* the requests at work
          current,  \* history: the prompt activated last, unless it was switched off since
          tangled   \* history: requests overlapped and no activation was alone since

setupVars == <<prompt, models, modelOf, edit, current, tangled>>

Rest == [at |-> "rest", op |-> "none", item |-> None, on |-> FALSE, account |-> None, alone |-> FALSE]

EditRequest ==
  [at : {"rest", "others", "write", "unlink"},
   op : {"none", "create", "patch", "delete", "link", "drop"},
   item : Prompt \cup Model \cup {None}, on : BOOLEAN, account : Account \cup {None}, alone : BOOLEAN]

SetupTypeOK ==
  /\ prompt \in [Prompt -> {"none", "active", "inactive", "gone"}]
  /\ models \subseteq Model
  /\ modelOf \in [Account -> models \cup {None}]  \* the foreign key
  /\ edit \in [Editor -> EditRequest]
  /\ current \in Prompt \cup {None}
  /\ tangled \in BOOLEAN

SetupInit ==
  /\ prompt = [p \in Prompt |-> "none"]
  /\ models = Model
  /\ modelOf = [a \in Account |-> None]
  /\ edit = [e \in Editor |-> Rest]
  /\ current = None
  /\ tangled = FALSE

\* load_active_prompt picks one of these, any of them if there are several: the version
\* number it orders by is never set.  With none, the system prompt answers.
Active == {p \in Prompt : prompt[p] = "active"}

-----------------------------------------------------------------------------
Busy == {e \in Editor : edit[e].at # "rest"}

\* A request has read what it needs and begins to write.
Begins(e, request) ==
  /\ edit[e].at = "rest"
  /\ edit' = [d \in Editor |-> IF d = e THEN [request EXCEPT !.alone = Busy = {}]
                               ELSE [edit[d] EXCEPT !.alone = FALSE]]
  /\ tangled' = (tangled \/ Busy # {})
  /\ UNCHANGED <<prompt, models, modelOf, current>>

At(e, place, ops) == edit[e].at = place /\ edit[e].op \in ops
GoTo(e, place) == edit' = [edit EXCEPT ![e].at = place]
Over(e) == edit' = [edit EXCEPT ![e] = Rest]

(* Prompts.                                                                *)

Create(e, p, on) ==
  /\ prompt[p] = "none" /\ \A d \in Editor : edit[d].item # p
  /\ Begins(e, [Rest EXCEPT !.at = IF on THEN "others" ELSE "write",
                            !.op = "create", !.item = p, !.on = on])

\* A change of is_active; a change of anything else leaves this state alone.
Patch(e, p, on) ==
  /\ prompt[p] \in {"active", "inactive"}
  /\ Begins(e, [Rest EXCEPT !.at = IF on THEN "others" ELSE "write",
                            !.op = "patch", !.item = p, !.on = on])

Delete(e, p) ==
  /\ prompt[p] \in {"active", "inactive"}
  /\ Begins(e, [Rest EXCEPT !.at = "write", !.op = "delete", !.item = p])

\* Mutant: a prompt that is created leaves the others as they are.
OthersUnlessNew(e) ==
  /\ At(e, "others", {"create", "patch"})
  /\ prompt' = [p \in Prompt |-> IF prompt[p] = "active" /\ p # edit[e].item /\ edit[e].op = "patch"
                                 THEN "inactive" ELSE prompt[p]]
  /\ GoTo(e, "write")
  /\ UNCHANGED <<models, modelOf, current, tangled>>

\* The account's other prompts are switched off first.
Others(e) ==
  /\ At(e, "others", {"create", "patch"})
  /\ prompt' = [p \in Prompt |-> IF prompt[p] = "active" /\ p # edit[e].item
                                 THEN "inactive" ELSE prompt[p]]
  /\ GoTo(e, "write")
  /\ UNCHANGED <<models, modelOf, current, tangled>>

\* The INSERT, or the UPDATE of a row that may be gone meanwhile.
Write(e) ==
  LET p    == edit[e].item
      gone == edit[e].op = "patch" /\ prompt[p] = "gone" IN
  /\ At(e, "write", {"create", "patch"})
  /\ prompt' = [prompt EXCEPT ![p] = IF gone THEN @ ELSE IF edit[e].on THEN "active" ELSE "inactive"]
  /\ current' = IF ~gone /\ edit[e].on THEN p ELSE IF current = p THEN None ELSE current
  /\ tangled' = (tangled /\ ~(edit[e].on /\ edit[e].alone))
  /\ Over(e)
  /\ UNCHANGED <<models, modelOf>>

Remove(e) ==
  /\ At(e, "write", {"delete"})
  /\ prompt' = [prompt EXCEPT ![edit[e].item] = "gone"]
  /\ current' = IF current = edit[e].item THEN None ELSE current
  /\ Over(e)
  /\ UNCHANGED <<models, modelOf, tangled>>

-----------------------------------------------------------------------------
(* Models.                                                                 *)

Link(e, a, m) == Begins(e, [Rest EXCEPT !.at = "write", !.op = "link", !.item = m, !.account = a])

\* A model that is gone by now violates the foreign key: the request fails.
WriteLink(e) ==
  LET m == edit[e].item IN
  /\ At(e, "write", {"link"})
  /\ modelOf' = [modelOf EXCEPT ![edit[e].account] = IF m \in models \cup {None} THEN m ELSE @]
  /\ Over(e)
  /\ UNCHANGED <<prompt, models, current, tangled>>

\* Mutant: a model is deleted without a look at its accounts.
DropAtOnce(e, m) ==
  /\ m \in models
  /\ Begins(e, [Rest EXCEPT !.at = "write", !.op = "drop", !.item = m])

\* The accounts are read first; with none linked there is nothing to unlink.
Drop(e, m) ==
  /\ m \in models
  /\ Begins(e, [Rest EXCEPT !.op = "drop", !.item = m,
                  !.at = IF \E a \in Account : modelOf[a] = m THEN "unlink" ELSE "write"])

Unlink(e) ==
  /\ At(e, "unlink", {"drop"})
  /\ modelOf' = [a \in Account |-> IF modelOf[a] = edit[e].item THEN None ELSE modelOf[a]]
  /\ GoTo(e, "write")
  /\ UNCHANGED <<prompt, models, current, tangled>>

InUse(m) == \E a \in Account : modelOf[a] = m

\* An account linked meanwhile keeps the row.
WriteDrop(e) ==
  /\ At(e, "write", {"drop"})
  /\ models' = IF InUse(edit[e].item) THEN models ELSE models \ {edit[e].item}
  /\ Over(e)
  /\ UNCHANGED <<prompt, modelOf, current, tangled>>

\* The database or the process fails, or the client goes away.
Stops(e) ==
  /\ edit[e].at # "rest"
  /\ Over(e)
  /\ UNCHANGED <<prompt, models, modelOf, current, tangled>>

SetupNext ==
  \E e \in Editor :
    \/ \E p \in Prompt : Delete(e, p) \/ \E on \in BOOLEAN : Create(e, p, on) \/ Patch(e, p, on)
    \/ Others(e) \/ Write(e) \/ Remove(e)
    \/ \E m \in Model : Drop(e, m) \/ \E a \in Account : Link(e, a, m)
    \/ \E a \in Account : Link(e, a, None)
    \/ WriteLink(e) \/ Unlink(e) \/ WriteDrop(e) \/ Stops(e)

SetupSpec == SetupInit /\ [][SetupNext]_setupVars

-----------------------------------------------------------------------------
(* Properties.                                                             *)

\* prompts.py, load_active_prompt: a question is answered by the prompt that was activated
\* last or by the system prompt, wherever a request stopped; when requests have overlapped,
\* once one activation has run alone.
PromptIsCurrent == tangled \/ Active \subseteq {current}

\* llm_configs.py delete_llm_config: a deletion no other request runs beside is not refused
\* by the accounts that used the model.
DeletionIsFree ==
  \A e \in Editor : At(e, "write", {"drop"}) /\ edit[e].alone => ~InUse(edit[e].item)

\* Violated: two activations at once leave two prompts active (each switches the others off
\* before either writes its own), and which of them answers is the database's choice.
OnePromptActive == \A p, q \in Active : p = q
=============================================================================
