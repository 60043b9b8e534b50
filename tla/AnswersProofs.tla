---------------------------- MODULE AnswersProofs ----------------------------
(***************************************************************************)
(* What MCAnswers checks of the parts that answer questions, for every     *)
(* value of their constants: prompts and models, records, alerts, chat     *)
(* sessions, embeddings and prices.                                        *)
(***************************************************************************)
EXTENDS MCAnswers, SequenceTheorems, FiniteSetTheorems, TLAPS

-----------------------------------------------------------------------------
(* The parts' constants.                                                   *)

\* get_queue_groups_from_config: the queues are keys of a JSON object; the limits are numbers.
ChatConstants == IsFiniteSet(Queue) /\ Limit \in Nat /\ MaxChanges \in Nat

WidgetConstants == UseAuth \in BOOLEAN /\ MaxFailures \in Nat

\* The settings name organizations, none of which is "none"; times are numbers.
AlertConstants ==
  /\ Route # {} /\ NoOrg \notin Org /\ Platforms \subseteq Org \cup {NoOrg}
  /\ Window \in Nat /\ MaxClock \in Nat

PriceConstants == TTL \in Nat /\ MaxCatalogClock \in Nat

\* Rows are told from the lack of one; the settings are numbers.
IngestConstants ==
  /\ IsFiniteSet(Chunk) /\ MaxLines \in Nat /\ BatchSize \in Nat
  /\ Absent \notin [text : Text, vector : Text \cup {NoVector}]

LEMMA PartConstants ==
  ChatConstants /\ WidgetConstants /\ AlertConstants /\ PriceConstants /\ IngestConstants
  BY AnswersAssumption
  DEF ChatConstants, WidgetConstants, AlertConstants, PriceConstants, IngestConstants

-----------------------------------------------------------------------------
(* Prompts and models, for any number of editors, prompts, accounts and    *)
(* models.                                                                 *)

\* What a request at work knows of itself.
Shape ==
  \A e \in Editor :
    /\ edit[e].op \in {"create", "patch", "delete"} => edit[e].item \in Prompt
    /\ edit[e].op = "drop" => edit[e].item \in Model
    /\ edit[e].at = "others" => edit[e].on
    /\ edit[e].at = "rest" => ~edit[e].alone

\* A request that says it is alone is.
Alone == \A e, d \in Editor : edit[e].alone /\ d # e => edit[d].at = "rest"

\* A request that is not alone has tangled the prompts.
Entangled == \A e \in Editor : edit[e].at # "rest" /\ ~edit[e].alone => tangled

\* An activation that is alone has switched the other prompts off before it writes.
Covered ==
  \A e \in Editor : At(e, "write", {"create", "patch"}) /\ edit[e].on /\ edit[e].alone
                      => Active \subseteq {edit[e].item}

SetupInv ==
  SetupTypeOK /\ Shape /\ Alone /\ Entangled /\ Covered /\ PromptIsCurrent /\ DeletionIsFree

-----------------------------------------------------------------------------
\* A change of one field leaves a request a request, with its other fields.
LEMMA AloneExcept ==
  ASSUME NEW r \in EditRequest, NEW b \in BOOLEAN
  PROVE  /\ [r EXCEPT !.alone = b] \in EditRequest /\ [r EXCEPT !.alone = b].alone = b
         /\ [r EXCEPT !.alone = b].at = r.at /\ [r EXCEPT !.alone = b].op = r.op
         /\ [r EXCEPT !.alone = b].on = r.on /\ [r EXCEPT !.alone = b].item = r.item
  BY DEF EditRequest

LEMMA WriteExcept ==
  ASSUME NEW r \in EditRequest
  PROVE  /\ [r EXCEPT !.at = "write"] \in EditRequest /\ [r EXCEPT !.at = "write"].at = "write"
         /\ [r EXCEPT !.at = "write"].alone = r.alone /\ [r EXCEPT !.at = "write"].op = r.op
         /\ [r EXCEPT !.at = "write"].on = r.on /\ [r EXCEPT !.at = "write"].item = r.item
  BY DEF EditRequest

\* No request is at work and no prompt is active.
LEMMA InitSetup == SetupInit => SetupInv
<1> SUFFICES ASSUME SetupInit PROVE SetupInv
  OBVIOUS
<1>1. \A e \in Editor : edit[e] = Rest
  BY DEF SetupInit
<1>2. Active = {}
  BY DEF SetupInit, Active
<1>3. SetupTypeOK
  <2>1. Rest \in EditRequest
    BY DEF Rest, EditRequest
  <2> QED
    BY <2>1 DEF SetupInit, SetupTypeOK
<1>4. Shape /\ Alone /\ Entangled
  BY <1>1 DEF Shape, Alone, Entangled, Rest
<1>5. Covered /\ PromptIsCurrent /\ DeletionIsFree
  BY <1>1, <1>2 DEF Covered, PromptIsCurrent, DeletionIsFree, At, Rest
<1> QED
  BY <1>3, <1>4, <1>5 DEF SetupInv

\* A request that begins leaves every table alone, and no other request stays alone beside it.
LEMMA BeginsSetup ==
  ASSUME SetupInv, NEW e \in Editor, NEW opening,
         Begins(e, opening),
         opening \in EditRequest, opening.at # "rest",
         opening.op \in {"create", "patch", "delete"} => opening.item \in Prompt,
         opening.op = "drop" => opening.item \in Model,
         opening.at = "others" => opening.on,
         opening.op \in {"create", "patch"} /\ opening.at = "write" => ~opening.on,
         opening.op = "drop" /\ opening.at = "write" => ~InUse(opening.item)
  PROVE  SetupInv'
<1> USE DEF SetupInv
<1>1. /\ edit[e].at = "rest"
      /\ edit' = [d \in Editor |-> IF d = e THEN [opening EXCEPT !.alone = Busy = {}]
                                   ELSE [edit[d] EXCEPT !.alone = FALSE]]
      /\ tangled' = (tangled \/ Busy # {})
      /\ UNCHANGED <<prompt, models, modelOf, current>>
  BY DEF Begins
<1>2. edit'[e] = [opening EXCEPT !.alone = Busy = {}]
  BY <1>1
<1>3. \A d \in Editor : d # e => edit'[d] = [edit[d] EXCEPT !.alone = FALSE]
  BY <1>1
<1>4. edit \in [Editor -> EditRequest] /\ tangled \in BOOLEAN
  BY DEF SetupTypeOK
<1>5. edit' \in [Editor -> EditRequest]
  <2>1. edit'[e] \in EditRequest
    BY <1>2, AloneExcept
  <2>2. ASSUME NEW d \in Editor, d # e PROVE edit'[d] \in EditRequest
    <3>1. edit[d] \in EditRequest /\ FALSE \in BOOLEAN
      BY <1>4
    <3>2. [edit[d] EXCEPT !.alone = FALSE] \in EditRequest
      BY <3>1, AloneExcept
    <3> QED
      BY <1>3, <2>2, <3>2
  <2> QED
    BY <1>1, <2>1, <2>2
<1>6. /\ edit'[e].at = opening.at /\ edit'[e].op = opening.op /\ edit'[e].on = opening.on
      /\ edit'[e].item = opening.item /\ edit'[e].alone = (Busy = {})
  BY <1>2, AloneExcept
<1>7. \A d \in Editor : d # e => /\ edit'[d].at = edit[d].at /\ edit'[d].op = edit[d].op
                                 /\ edit'[d].on = edit[d].on /\ edit'[d].item = edit[d].item
                                 /\ ~edit'[d].alone
  <2> SUFFICES ASSUME NEW d \in Editor, d # e
               PROVE  /\ edit'[d].at = edit[d].at /\ edit'[d].op = edit[d].op
                      /\ edit'[d].on = edit[d].on /\ edit'[d].item = edit[d].item
                      /\ ~edit'[d].alone
    OBVIOUS
  <2>1. edit[d] \in EditRequest /\ edit'[d] = [edit[d] EXCEPT !.alone = FALSE]
    BY <1>3, <1>4
  <2> QED
    BY <2>1, AloneExcept
<1>14. SetupTypeOK'
  BY <1>1, <1>4, <1>5 DEF SetupTypeOK
<1>8. Shape'
  BY <1>6, <1>7 DEF Shape
<1>9. Alone'
  <2>1. CASE Busy = {}
    BY <2>1, <1>6, <1>7 DEF Alone, Busy
  <2>2. CASE Busy # {}
    BY <2>2, <1>6, <1>7 DEF Alone
  <2> QED
    BY <2>1, <2>2
<1>10. Entangled'
  <2>1. CASE Busy = {}
    BY <2>1, <1>6, <1>7 DEF Entangled, Busy
  <2>2. CASE Busy # {}
    BY <2>2, <1>1 DEF Entangled
  <2> QED
    BY <2>1, <2>2
<1>11. Covered'
  BY <1>6, <1>7 DEF Covered, At
<1>12. PromptIsCurrent'
  BY <1>1 DEF PromptIsCurrent, Active
<1>13. DeletionIsFree'
  BY <1>1, <1>6, <1>7 DEF DeletionIsFree, At, InUse
<1> QED
  BY <1>14, <1>8, <1>9, <1>10, <1>11, <1>12, <1>13

\* A request that ends, or moves on, leaves the others as they are.
LEMMA EndsSetup ==
  ASSUME SetupTypeOK, Shape, Alone, NEW e \in Editor, Over(e)
  PROVE  /\ edit' \in [Editor -> EditRequest] /\ Shape' /\ Alone'
         /\ edit'[e] = Rest /\ edit'[e].at = "rest"
         /\ \A d \in Editor : d # e => edit'[d] = edit[d]
<1>1. /\ edit'[e] = Rest
      /\ \A d \in Editor : d # e => edit'[d] = edit[d]
  BY DEF Over, SetupTypeOK
<1>2. Rest \in EditRequest /\ Rest.at = "rest" /\ Rest.op = "none" /\ ~Rest.alone
  BY DEF Rest, EditRequest
<1>3. Shape'
  BY <1>1, <1>2 DEF Shape
<1>4. Alone'
  BY <1>1, <1>2 DEF Alone
<1> QED
  BY <1>1, <1>2, <1>3, <1>4 DEF Over, SetupTypeOK

LEMMA MovesSetup ==
  ASSUME SetupTypeOK, Shape, Alone, NEW e \in Editor, GoTo(e, "write"), edit[e].at # "rest"
  PROVE  /\ edit' \in [Editor -> EditRequest] /\ Shape' /\ Alone'
         /\ edit'[e].at = "write" /\ edit'[e].op = edit[e].op /\ edit'[e].on = edit[e].on
         /\ edit'[e].item = edit[e].item /\ edit'[e].alone = edit[e].alone
         /\ \A d \in Editor : d # e => edit'[d] = edit[d]
<1>1. /\ edit'[e] = [edit[e] EXCEPT !.at = "write"]
      /\ \A d \in Editor : d # e => edit'[d] = edit[d]
  BY DEF GoTo, SetupTypeOK
<1>2. edit[e] \in EditRequest
  BY DEF SetupTypeOK
<1>3. /\ edit'[e] \in EditRequest /\ edit'[e].at = "write" /\ edit'[e].op = edit[e].op
      /\ edit'[e].on = edit[e].on
      /\ edit'[e].item = edit[e].item /\ edit'[e].alone = edit[e].alone
  BY <1>1, <1>2, WriteExcept
<1>4. Shape'
  BY <1>1, <1>3 DEF Shape
<1>5. Alone'
  <2> SUFFICES ASSUME NEW x \in Editor, NEW y \in Editor, edit'[x].alone, y # x
               PROVE  edit'[y].at = "rest"
    BY DEF Alone
  <2>1. edit[x].alone
    BY <1>1, <1>3
  <2>2. edit[y].at = "rest"
    BY <2>1 DEF Alone
  <2> QED
    BY <2>2, <1>1
<1> QED
  BY <1>1, <1>3, <1>4, <1>5 DEF GoTo, SetupTypeOK

-----------------------------------------------------------------------------
(* One lemma per kind of step.                                             *)

\* A request that ends without a trace.
LEMMA StopsStep ==
  ASSUME SetupInv, NEW e \in Editor, Over(e), UNCHANGED <<prompt, models, modelOf, current, tangled>>
  PROVE  SetupInv'
<1> USE DEF SetupInv
<1>1. /\ edit' \in [Editor -> EditRequest] /\ Shape' /\ Alone' /\ edit'[e].at = "rest"
      /\ \A d \in Editor : d # e => edit'[d] = edit[d]
  BY EndsSetup
<1>2. SetupTypeOK'
  BY <1>1 DEF SetupTypeOK
<1>3. Entangled'
  BY <1>1 DEF Entangled
<1>4. Covered' /\ PromptIsCurrent'
  BY <1>1 DEF Covered, PromptIsCurrent, At, Active
<1>5. DeletionIsFree'
  BY <1>1 DEF DeletionIsFree, At, InUse
<1> QED
  BY <1>1, <1>2, <1>3, <1>4, <1>5

\* The others are switched off: only the request's own prompt can still be active.
LEMMA OthersStep ==
  ASSUME SetupInv, NEW e \in Editor, Others(e)
  PROVE  SetupInv'
<1> USE DEF SetupInv
<1>1. /\ edit[e].at = "others" /\ edit[e].op \in {"create", "patch"}
      /\ prompt' = [p \in Prompt |-> IF prompt[p] = "active" /\ p # edit[e].item
                                     THEN "inactive" ELSE prompt[p]]
      /\ GoTo(e, "write")
      /\ UNCHANGED <<models, modelOf, current, tangled>>
  BY DEF Others, At
<1>2. /\ edit' \in [Editor -> EditRequest] /\ Shape' /\ Alone' /\ edit'[e].at = "write"
      /\ edit'[e].op = edit[e].op /\ edit'[e].item = edit[e].item /\ edit'[e].alone = edit[e].alone
      /\ \A d \in Editor : d # e => edit'[d] = edit[d]
  BY <1>1, MovesSetup
<1>3. SetupTypeOK'
  BY <1>1, <1>2 DEF SetupTypeOK
<1>4. Active' \subseteq Active /\ Active' \subseteq {edit[e].item}
  BY <1>1 DEF Active, SetupTypeOK
<1>5. Entangled'
  BY <1>1, <1>2 DEF Entangled
<1>6. Covered'
  BY <1>2, <1>4 DEF Covered, At
<1>7. PromptIsCurrent'
  BY <1>1, <1>4 DEF PromptIsCurrent
<1>8. DeletionIsFree'
  BY <1>1, <1>2 DEF DeletionIsFree, At, InUse
<1> QED
  BY <1>2, <1>3, <1>5, <1>6, <1>7, <1>8

\* The request's own row: the case that matters is an activation that was alone, whose
\* prompt is then the only one that can be active.
LEMMA WriteStep ==
  ASSUME SetupInv, NEW e \in Editor, Write(e)
  PROVE  SetupInv'
<1> USE DEF SetupInv
<1> DEFINE p == edit[e].item
           gone == edit[e].op = "patch" /\ prompt[p] = "gone"
<1>1. /\ edit[e].at = "write" /\ edit[e].op \in {"create", "patch"}
      /\ prompt' = [prompt EXCEPT ![p] = IF gone THEN @ ELSE IF edit[e].on THEN "active" ELSE "inactive"]
      /\ current' = IF ~gone /\ edit[e].on THEN p ELSE IF current = p THEN None ELSE current
      /\ tangled' = (tangled /\ ~(edit[e].on /\ edit[e].alone))
      /\ Over(e)
      /\ UNCHANGED <<models, modelOf>>
  BY DEF Write, At
<1>2. p \in Prompt /\ edit[e] \in EditRequest
  BY <1>1 DEF Shape, SetupTypeOK
<1>3. /\ edit' \in [Editor -> EditRequest] /\ Shape' /\ Alone' /\ edit'[e].at = "rest"
      /\ \A d \in Editor : d # e => edit'[d] = edit[d]
  BY <1>1, EndsSetup
<1>4. SetupTypeOK'
  <2>1. tangled' \in BOOLEAN
    BY <1>1, <1>2 DEF SetupTypeOK, EditRequest
  <2>2. current' \in Prompt \cup {None}
    BY <1>1, <1>2 DEF SetupTypeOK
  <2>3. prompt' \in [Prompt -> {"none", "active", "inactive", "gone"}]
    BY <1>1, <1>2 DEF SetupTypeOK
  <2> QED
    BY <1>1, <1>3, <2>1, <2>2, <2>3 DEF SetupTypeOK
<1>5. \A q \in Prompt : /\ q # p => prompt'[q] = prompt[q]
                        /\ q = p => prompt'[q] = IF gone THEN "gone" ELSE IF edit[e].on THEN "active" ELSE "inactive"
  BY <1>1, <1>2 DEF SetupTypeOK
<1>6. CASE edit[e].on /\ edit[e].alone
  <2>1. \A d \in Editor : edit'[d].at = "rest"
    BY <1>3, <1>6 DEF Alone
  <2>2. Active \subseteq {p}
    BY <1>1, <1>6 DEF Covered, At
  <2>3. Active' \subseteq {current'}
    BY <1>1, <1>5, <1>6, <2>2 DEF Active
  <2>4. Covered' /\ DeletionIsFree' /\ Entangled'
    BY <2>1 DEF Covered, DeletionIsFree, Entangled, At
  <2> QED
    BY <1>3, <1>4, <2>3, <2>4 DEF PromptIsCurrent
<1>7. CASE ~edit[e].on
  <2>1. Active' \subseteq Active \ {p}
    <3>1. prompt'[p] # "active"
      <4>1. prompt'[p] = IF gone THEN prompt[p] ELSE "inactive"
        BY <1>1, <1>2, <1>7 DEF SetupTypeOK
      <4>2. CASE gone
        BY <4>1, <4>2
      <4>3. CASE ~gone
        BY <4>1, <4>3
      <4> QED
        BY <4>2, <4>3
    <3>2. \A q \in Prompt : q # p => prompt'[q] = prompt[q]
      BY <1>1, <1>2 DEF SetupTypeOK
    <3> QED
      BY <3>1, <3>2 DEF Active
  <2>2. tangled' = tangled /\ current' \in {current, None} /\ (current' # current => current = p)
    BY <1>1, <1>7, <1>4 DEF SetupTypeOK
  <2>3. PromptIsCurrent'
    BY <2>1, <2>2 DEF PromptIsCurrent
  <2>4. Covered'
    BY <1>3, <2>1 DEF Covered, At
  <2>5. DeletionIsFree'
    BY <1>1, <1>3 DEF DeletionIsFree, At, InUse
  <2>6. Entangled'
    BY <1>3, <2>2 DEF Entangled
  <2> QED
    BY <1>3, <1>4, <2>3, <2>4, <2>5, <2>6
<1>8. CASE ~edit[e].alone
  <2>1. tangled /\ tangled'
    BY <1>1, <1>8 DEF Entangled
  <2>2. Covered'
    <3>1. \A d \in Editor : d # e => ~edit[d].alone
      BY <1>1 DEF Alone
    <3> QED
      BY <1>3, <3>1 DEF Covered, At
  <2>3. DeletionIsFree'
    BY <1>1, <1>3 DEF DeletionIsFree, At, InUse
  <2> QED
    BY <1>3, <1>4, <2>1, <2>2, <2>3 DEF PromptIsCurrent, Entangled
<1> QED
  BY <1>6, <1>7, <1>8

\* A prompt is deleted.
LEMMA RemoveStep ==
  ASSUME SetupInv, NEW e \in Editor, Remove(e)
  PROVE  SetupInv'
<1> USE DEF SetupInv
<1>1. /\ edit[e].at = "write" /\ edit[e].op = "delete" /\ edit[e].item \in Prompt
      /\ prompt' = [prompt EXCEPT ![edit[e].item] = "gone"]
      /\ current' = IF current = edit[e].item THEN None ELSE current
      /\ Over(e)
      /\ UNCHANGED <<models, modelOf, tangled>>
  BY DEF Remove, At, Shape
<1>2. /\ edit' \in [Editor -> EditRequest] /\ Shape' /\ Alone' /\ edit'[e].at = "rest"
      /\ \A d \in Editor : d # e => edit'[d] = edit[d]
  BY <1>1, EndsSetup
<1>3. SetupTypeOK'
  BY <1>1, <1>2 DEF SetupTypeOK
<1>4. Active' \subseteq Active \ {edit[e].item}
  BY <1>1 DEF Active, SetupTypeOK
<1>5. PromptIsCurrent'
  BY <1>1, <1>4 DEF PromptIsCurrent
<1>6. Covered'
  BY <1>2, <1>4 DEF Covered, At
<1>7. DeletionIsFree' /\ Entangled'
  BY <1>1, <1>2 DEF DeletionIsFree, Entangled, At, InUse
<1> QED
  BY <1>2, <1>3, <1>5, <1>6, <1>7

\* An account is linked to a model that is still there: a deletion beside it is not alone.
LEMMA WriteLinkStep ==
  ASSUME SetupInv, NEW e \in Editor, WriteLink(e)
  PROVE  SetupInv'
<1> USE DEF SetupInv
<1> DEFINE m == edit[e].item
<1>1. /\ edit[e].at = "write" /\ Over(e)
      /\ modelOf' = [modelOf EXCEPT ![edit[e].account] = IF m \in models \cup {None} THEN m ELSE @]
      /\ UNCHANGED <<prompt, models, current, tangled>>
  BY DEF WriteLink, At
<1>2. /\ edit' \in [Editor -> EditRequest] /\ Shape' /\ Alone' /\ edit'[e].at = "rest"
      /\ \A d \in Editor : d # e => edit'[d] = edit[d]
  BY <1>1, EndsSetup
<1>3. SetupTypeOK'
  <2>1. modelOf' \in [Account -> models \cup {None}]
    BY <1>1 DEF SetupTypeOK
  <2> QED
    BY <1>1, <1>2, <2>1 DEF SetupTypeOK
<1>4. Entangled' /\ Covered' /\ PromptIsCurrent'
  BY <1>1, <1>2 DEF Entangled, Covered, PromptIsCurrent, At, Active
<1>5. DeletionIsFree'
  <2>1. \A d \in Editor : d # e => ~edit[d].alone
    BY <1>1 DEF Alone
  <2> QED
    BY <1>2, <2>1 DEF DeletionIsFree, At
<1> QED
  BY <1>2, <1>3, <1>4, <1>5

\* Every account that used the model is unlinked, so none uses it when the DELETE follows.
LEMMA UnlinkStep ==
  ASSUME SetupInv, NEW e \in Editor, Unlink(e)
  PROVE  SetupInv'
<1> USE DEF SetupInv
<1>1. /\ edit[e].at = "unlink" /\ edit[e].op = "drop" /\ GoTo(e, "write")
      /\ modelOf' = [a \in Account |-> IF modelOf[a] = edit[e].item THEN None ELSE modelOf[a]]
      /\ UNCHANGED <<prompt, models, current, tangled>>
  BY DEF Unlink, At
<1>2. /\ edit' \in [Editor -> EditRequest] /\ Shape' /\ Alone' /\ edit'[e].at = "write"
      /\ edit'[e].op = edit[e].op /\ edit'[e].item = edit[e].item /\ edit'[e].alone = edit[e].alone
      /\ \A d \in Editor : d # e => edit'[d] = edit[d]
  BY <1>1, MovesSetup
<1>3. SetupTypeOK'
  BY <1>1, <1>2 DEF SetupTypeOK
<1>4. Entangled'
  BY <1>1, <1>2 DEF Entangled
<1>5. Covered' /\ PromptIsCurrent'
  BY <1>1, <1>2 DEF Covered, PromptIsCurrent, At, Active
<1>6. DeletionIsFree'
  <2>1. \A d \in Editor : d # e => ~edit[d].alone
    BY <1>1 DEF Alone
  <2>2. edit[e].item \in Model => \A a \in Account : modelOf'[a] # edit[e].item
    BY <1>1, SetupAssumption
  <2>3. edit[e].item \in Model
    BY <1>1 DEF Shape
  <2> QED
    BY <1>2, <2>1, <2>2, <2>3 DEF DeletionIsFree, At, InUse
<1> QED
  BY <1>2, <1>3, <1>4, <1>5, <1>6

\* The DELETE, which the foreign key refuses for a model in use.
LEMMA WriteDropStep ==
  ASSUME SetupInv, NEW e \in Editor, WriteDrop(e)
  PROVE  SetupInv'
<1> USE DEF SetupInv
<1>1. /\ edit[e].at = "write" /\ Over(e)
      /\ models' = IF InUse(edit[e].item) THEN models ELSE models \ {edit[e].item}
      /\ UNCHANGED <<prompt, modelOf, current, tangled>>
  BY DEF WriteDrop, At
<1>2. /\ edit' \in [Editor -> EditRequest] /\ Shape' /\ Alone' /\ edit'[e].at = "rest"
      /\ \A d \in Editor : d # e => edit'[d] = edit[d]
  BY <1>1, EndsSetup
<1>3. SetupTypeOK'
  <2>1. modelOf \in [Account -> models' \cup {None}] /\ models' \subseteq Model
    BY <1>1 DEF SetupTypeOK, InUse
  <2> QED
    BY <1>1, <1>2, <2>1 DEF SetupTypeOK
<1>4. Entangled' /\ Covered' /\ PromptIsCurrent'
  BY <1>1, <1>2 DEF Entangled, Covered, PromptIsCurrent, At, Active
<1>5. DeletionIsFree'
  BY <1>1, <1>2 DEF DeletionIsFree, At, InUse
<1> QED
  BY <1>2, <1>3, <1>4, <1>5

-----------------------------------------------------------------------------
\* Every step keeps the invariant.
LEMMA NextSetup ==
  ASSUME SetupInv, [SetupNext]_setupVars
  PROVE  SetupInv'
<1>1. CASE UNCHANGED setupVars
  BY <1>1 DEF setupVars, SetupInv, SetupTypeOK, Shape, Alone, Entangled, Covered,
              PromptIsCurrent, DeletionIsFree, At, Active, InUse
<1>2. ASSUME NEW e \in Editor, NEW p \in Prompt, Delete(e, p)
      PROVE  SetupInv'
  <2> DEFINE opening == [Rest EXCEPT !.at = "write", !.op = "delete", !.item = p]
  <2>1. opening \in EditRequest /\ opening.at = "write" /\ opening.op = "delete" /\ opening.item = p
    BY DEF Rest, EditRequest
  <2>2. Begins(e, opening)
    BY <1>2 DEF Delete
  <2> HIDE DEF opening
  <2> QED
    BY <2>1, <2>2, BeginsSetup
<1>3. ASSUME NEW e \in Editor, NEW p \in Prompt, NEW on \in BOOLEAN,
             Create(e, p, on) \/ Patch(e, p, on)
      PROVE  SetupInv'
  <2>1. PICK op \in {"create", "patch"} :
          Begins(e, [Rest EXCEPT !.at = IF on THEN "others" ELSE "write",
                                 !.op = op, !.item = p, !.on = on])
    BY <1>3 DEF Create, Patch
  <2> DEFINE opening == [Rest EXCEPT !.at = IF on THEN "others" ELSE "write",
                                     !.op = op, !.item = p, !.on = on]
  <2>2. /\ opening \in EditRequest /\ opening.at = (IF on THEN "others" ELSE "write")
        /\ opening.op = op /\ opening.item = p /\ opening.on = on
    BY DEF Rest, EditRequest
  <2>3. Begins(e, opening)
    BY <2>1
  <2> HIDE DEF opening
  <2> QED
    BY <2>2, <2>3, BeginsSetup
<1>4. ASSUME NEW e \in Editor, NEW m \in Model, Drop(e, m)
      PROVE  SetupInv'
  <2> DEFINE opening == [Rest EXCEPT !.op = "drop", !.item = m,
                           !.at = IF \E a \in Account : modelOf[a] = m THEN "unlink" ELSE "write"]
  <2>1. /\ opening \in EditRequest /\ opening.op = "drop" /\ opening.item = m
        /\ opening.at = (IF InUse(m) THEN "unlink" ELSE "write")
    BY DEF Rest, EditRequest, InUse
  <2>2. Begins(e, opening)
    BY <1>4 DEF Drop
  <2> HIDE DEF opening
  <2> QED
    BY <2>1, <2>2, BeginsSetup
<1>5. ASSUME NEW e \in Editor, NEW a \in Account, NEW m \in Model \cup {None}, Link(e, a, m)
      PROVE  SetupInv'
  <2> DEFINE opening == [Rest EXCEPT !.at = "write", !.op = "link", !.item = m, !.account = a]
  <2>1. opening \in EditRequest /\ opening.at = "write" /\ opening.op = "link"
    BY DEF Rest, EditRequest
  <2>2. Begins(e, opening)
    BY <1>5 DEF Link
  <2> HIDE DEF opening
  <2> QED
    BY <2>1, <2>2, BeginsSetup
<1>6. ASSUME NEW e \in Editor, Stops(e)
      PROVE  SetupInv'
  BY <1>6, StopsStep DEF Stops
<1> QED
  BY <1>1, <1>2, <1>3, <1>4, <1>5, <1>6, OthersStep, WriteStep, RemoveStep, WriteLinkStep,
     UnlinkStep, WriteDropStep DEF SetupNext

\* The state the requests and the tables are in is always one the invariant describes.
THEOREM SetupInvariant == SetupSpec => []SetupInv
<1>1. SetupInv /\ [SetupNext]_setupVars => SetupInv'
  BY NextSetup
<1> QED
  BY InitSetup, <1>1, PTL DEF SetupSpec

\* load_active_prompt: a question is answered by the prompt activated last or by the system
\* prompt, unless requests overlapped and no activation has run alone since.
THEOREM QuestionsUseTheCurrentPrompt == SetupSpec => []PromptIsCurrent
<1>1. SetupInv => PromptIsCurrent
  BY DEF SetupInv
<1> QED
  BY <1>1, SetupInvariant, PTL

\* delete_llm_config: no account uses a model when the DELETE of a request that is alone comes.
THEOREM DeletionsAreNotRefused == SetupSpec => []DeletionIsFree
<1>1. SetupInv => DeletionIsFree
  BY DEF SetupInv
<1> QED
  BY <1>1, SetupInvariant, PTL

-----------------------------------------------------------------------------
(* Chat sessions.                                                          *)

Message == [by : {"USER", "AI"}, of : Send, text : Session!Texts]

\* What a request has read of the catalog, nothing before it has.
ReadConfigs == UNION {[catalog -> SUBSET Vertical] : catalog \in SUBSET Queue}

SendRequest ==
  [at : {"idle", "config", "resolve", "ask", "prepare", "stream", "answer", "request", "trace", "over"},
   elevated : BOOLEAN, active : (SUBSET Queue) \cup {All}, groups : ReadConfigs,
   verticals : ((SUBSET Vertical) \ {{}}) \cup {All}, history : Seq(Message),
   found : Session!Found, text : Session!Texts, failed : BOOLEAN]

ChatShape ==
  /\ groups \in Session!Configs
  /\ assigned \subseteq Queue
  /\ writes \in Seq([op : {"delete"}] \cup [op : {"insert"}, key : Queue])
  /\ active \in ((SUBSET Queue) \ {{}}) \cup {All}
  /\ messages \in Seq(Message)
  /\ send \in [Send -> SendRequest]
  /\ requests \subseteq [of : Send, status : {"SUCCESS", "FAILED"}]
  /\ traces \subseteq [of : Send, status : Session!Found]
  /\ changes \in 0..MaxChanges

Histories == \A s \in Send : Len(send[s].history) <= Limit

By(i, by, s) == messages[i].by = by /\ messages[i].of = s
Wrote(by, s) == \E i \in 1..Len(messages) : By(i, by, s)
AnsweredIn(s, text) == \E i \in 1..Len(messages) : By(i, "AI", s) /\ messages[i].text = text

\* A request asks once and answers once, after it has asked.
OneOfEach ==
  /\ \A i, j \in 1..Len(messages) :
       messages[i].by = messages[j].by /\ messages[i].of = messages[j].of => i = j
  /\ \A i \in 1..Len(messages) : messages[i].by = "AI" => messages[i].text # "none"
  /\ \A i \in 1..Len(messages) :
       messages[i].by = "AI" => \E j \in 1..i : By(j, "USER", messages[i].of)

\* The text of a request: an answer is empty until the stream is over, a whole one has no error.
Words(r) ==
  /\ r.at \in {"idle", "config", "resolve", "ask", "prepare", "stream"} => r.text \in {"none", "text"}
  /\ r.at \in {"answer", "request"} => r.text # "none" /\ (~r.failed => r.text = "text")

\* How far a request is says what it has written.
Written ==
  \A s \in Send :
    /\ send[s].at \in {"idle", "config", "resolve", "ask"} => ~Wrote("USER", s) /\ ~Wrote("AI", s)
    /\ send[s].at \in {"prepare", "stream", "answer"} => Wrote("USER", s) /\ ~Wrote("AI", s)
    /\ Words(send[s])
    /\ send[s].at = "request" => AnsweredIn(s, send[s].text)
    /\ send[s].at = "trace" => \E r \in requests : r.of = s

\* What is on record has its reason.
Reasons ==
  /\ \A s \in Send : [of |-> s, status |-> "SUCCESS"] \in requests => AnsweredIn(s, "text")
  /\ \A t \in traces : \E r \in requests : r.of = t.of

ChatInv == ChatShape /\ Histories /\ OneOfEach /\ Written /\ Reasons

LEMMA ConfigIs ==
  ASSUME NEW config \in ReadConfigs
  PROVE  DOMAIN config \subseteq Queue /\ \A q \in DOMAIN config : config[q] \subseteq Vertical
  BY DEF ReadConfigs

LEMMA CatalogIsRead ==
  ASSUME NEW config \in Session!Configs
  PROVE  config \in ReadConfigs /\ DOMAIN config \subseteq Queue /\ DOMAIN config # {}
  BY DEF ReadConfigs, Session!Configs

LEMMA NothingRead == Session!Idle.groups \in ReadConfigs
<1>1. {} \in SUBSET Queue /\ [q \in {} |-> {}] \in [{} -> SUBSET Vertical]
  OBVIOUS
<1>2. Session!Idle.groups = [q \in {} |-> {}]
  BY DEF Session!Idle
<1> QED
  BY <1>1, <1>2 DEF ReadConfigs

\* Nobody may use a queue that is not in the catalog.
LEMMA AllowedInCatalog ==
  ASSUME NEW config, NEW elevated \in BOOLEAN
  PROVE  /\ Session!Allowed(config, elevated) \subseteq DOMAIN config
         /\ ~elevated /\ assigned \cap DOMAIN config # {} => Session!Allowed(config, elevated) \subseteq assigned
  BY DEF Session!Allowed

\* Chat counts with the operator of FiniteSets.
LEMMA SameCardinality == ASSUME NEW S PROVE Session!Cardinality(S) = Cardinality(S)
  BY DEF Session!Cardinality, Cardinality

\* SetToSeq numbers a finite set.
LEMMA Numbered ==
  ASSUME NEW S, IsFiniteSet(S)
  PROVE  /\ Cardinality(S) \in Nat
         /\ Session!SetToSeq(S) \in [1..Cardinality(S) -> S]
<1>1. Cardinality(S) \in Nat /\ ExistsBijection(1..Cardinality(S), S)
  BY FS_CardinalityType
<1>2. PICK f \in Bijection(1..Cardinality(S), S) : TRUE
  BY <1>1 DEF ExistsBijection
<1>3. f \in [1..Cardinality(S) -> S] /\ Session!IsInjective(f)
  BY <1>2 DEF Bijection, Injection, IsInjective, Session!IsInjective
<1> QED
  BY <1>1, <1>3, SameCardinality DEF Session!SetToSeq

\* SelectInSeq finds the only message of its kind.
LEMMA PlaceIs ==
  ASSUME NEW by, NEW s, NEW i \in 1..Len(messages), By(i, by, s),
         \A j \in 1..Len(messages) : By(j, by, s) => j = i
  PROVE  Session!Place(by, s) = i
<1> DEFINE I == {j \in 1..Len(messages) : messages[j].by = by /\ messages[j].of = s}
<1>1. I = {i}
  BY DEF By
<1>2. Session!Place(by, s) = IF I # {} THEN Session!Min(I) ELSE 0
  BY DEF Session!Place, Session!SelectInSeq
<1>3. Session!Min({i}) = i
  BY DEF Session!Min
<1> QED
  BY <1>1, <1>2, <1>3

LEMMA PlaceIsNone ==
  ASSUME NEW by, NEW s, ~Wrote(by, s)
  PROVE  Session!Place(by, s) = 0
<1> DEFINE I == {j \in 1..Len(messages) : messages[j].by = by /\ messages[j].of = s}
<1>1. I = {}
  BY DEF Wrote, By
<1>2. Session!Place(by, s) = IF I # {} THEN Session!Min(I) ELSE 0
  BY DEF Session!Place, Session!SelectInSeq
<1> QED
  BY <1>1, <1>2

\* The invariant says what the property says.
LEMMA Accounted == ASSUME ChatInv PROVE Session!AnswersAreAccounted
<1> SUFFICES ASSUME NEW s \in Send
             PROVE  /\ Session!Place("AI", s) # 0
                         => Session!Place("USER", s) \in 1..Session!Place("AI", s)
                    /\ [of |-> s, status |-> "SUCCESS"] \in requests
                         => /\ Session!Place("AI", s) # 0
                            /\ messages[Session!Place("AI", s)].text = "text"
  BY DEF ChatInv, Reasons, Session!AnswersAreAccounted
<1>1. \A i \in 1..Len(messages) : \A by : By(i, by, s) => Session!Place(by, s) = i
  <2> SUFFICES ASSUME NEW i \in 1..Len(messages), NEW by, By(i, by, s)
               PROVE  Session!Place(by, s) = i
    OBVIOUS
  <2>1. \A j \in 1..Len(messages) : By(j, by, s) => j = i
    BY DEF ChatInv, OneOfEach, By
  <2> QED
    BY <2>1, PlaceIs
<1>2. Session!Place("AI", s) # 0 => Session!Place("USER", s) \in 1..Session!Place("AI", s)
  <2> SUFFICES ASSUME Session!Place("AI", s) # 0
               PROVE  Session!Place("USER", s) \in 1..Session!Place("AI", s)
    OBVIOUS
  <2>1. PICK i \in 1..Len(messages) : By(i, "AI", s)
    BY PlaceIsNone DEF Wrote
  <2>2. PICK j \in 1..i : By(j, "USER", s)
    BY <2>1 DEF ChatInv, OneOfEach, By
  <2>3. j \in 1..Len(messages)
    BY <2>2 DEF ChatInv, ChatShape
  <2> QED
    BY <1>1, <2>1, <2>2, <2>3
<1>3. [of |-> s, status |-> "SUCCESS"] \in requests
        => Session!Place("AI", s) # 0 /\ messages[Session!Place("AI", s)].text = "text"
  BY <1>1 DEF ChatInv, Reasons, AnsweredIn
<1> QED
  BY <1>2, <1>3

\* The type invariant of Chat is part of it.
LEMMA ChatTypes == ASSUME ChatConstants, ChatInv PROVE Session!ChatTypeOK
<1>1. \A s \in Send : send[s] \in SendRequest
  BY DEF ChatInv, ChatShape
<1>2. \A s \in Send : /\ send[s].active \in (SUBSET Queue) \cup {All}
                     /\ send[s].verticals \in ((SUBSET Vertical) \ {{}}) \cup {All}
                     /\ send[s].found \in Session!Found /\ send[s].text \in Session!Texts
  BY <1>1 DEF SendRequest
<1>3. \A m \in Session!ToSet(messages) : m.by = "AI" => m.text # "none"
  BY DEF ChatInv, ChatShape, OneOfEach, Session!ToSet
<1> QED
  BY <1>2, <1>3 DEF ChatConstants, ChatInv, ChatShape, Histories, Session!ChatTypeOK

LEMMA ChatStart == ASSUME ChatConstants, Session!ChatInit PROVE ChatInv
<1> USE DEF Session!ChatInit, ChatConstants
<1>1. /\ Session!Idle \in SendRequest /\ Len(Session!Idle.history) = 0
      /\ Session!Idle.at = "idle" /\ Session!Idle.text = "none"
  <2>1. <<>> \in Seq(Message) /\ Len(<<>>) = 0
    OBVIOUS
  <2>2. Session!Idle.groups \in ReadConfigs /\ Session!Idle.groups = [q \in {} |-> {}]
    BY NothingRead DEF Session!Idle
  <2> HIDE DEF Message
  <2> QED
    BY <2>1, <2>2 DEF Session!Idle, SendRequest, Session!Found, Session!Texts
<1>2. ChatShape /\ Histories
  <2>1. groups \in Session!Configs /\ DOMAIN groups \subseteq Queue
    BY CatalogIsRead
  <2>2. active \in ((SUBSET Queue) \ {{}}) \cup {All} /\ assigned = {}
    BY <2>1, AllowedInCatalog DEF Session!CreateSession, Session!Choosable
  <2> QED
    BY <1>1, <2>1, <2>2 DEF ChatShape, Histories
<1>3. OneOfEach /\ Reasons
  BY DEF OneOfEach, Reasons
<1>4. Written
  BY <1>1 DEF Written, Wrote, Words
<1> QED
  BY <1>2, <1>3, <1>4 DEF ChatInv

\* A change of the queues leaves messages and requests alone.
LEMMA ChatManaged ==
  ASSUME ChatInv, ChatShape', UNCHANGED <<messages, requests, traces, send>>
  PROVE  ChatInv'
  BY DEF ChatInv, Histories, OneOfEach, Written, Reasons, Wrote, AnsweredIn, By

LEMMA ManagerSteps ==
  ASSUME ChatConstants, ChatInv,
         \/ Session!Assign \/ Session!AssignWrite \/ Session!AssignStops \/ Session!Choose
         \/ Session!Publish \/ Session!PatchCatalog
  PROVE  ChatInv'
<1> DEFINE W == [op : {"delete"}] \cup [op : {"insert"}, key : Queue]
<1> USE DEF ChatConstants, ChatInv, ChatShape, Session!records
<1>0. DOMAIN groups \subseteq Queue
  BY CatalogIsRead
<1>1. CASE Session!Assign
  <2>1. PICK keys \in SUBSET Queue :
          writes' = <<[op |-> "delete"]>>
            \o [i \in 1..Session!Cardinality(keys) |-> [op |-> "insert", key |-> Session!SetToSeq(keys)[i]]]
    BY <1>0, <1>1 DEF Session!Assign, Session!Choosable
  <2>2. IsFiniteSet(keys)
    BY <2>1, FS_Subset
  <2> DEFINE n == Session!Cardinality(keys)
             rows == [i \in 1..n |-> [op |-> "insert", key |-> Session!SetToSeq(keys)[i]]]
  <2>3. n \in Nat /\ Session!SetToSeq(keys) \in [1..n -> keys]
    BY <2>2, Numbered, SameCardinality
  <2>4. rows \in Seq(W)
    <3> HIDE DEF n
    <3>1. \A i \in 1..n : rows[i] \in W
      BY <2>1, <2>3
    <3> QED
      BY <2>3, <3>1
  <2>5. <<[op |-> "delete"]>> \in Seq(W)
    OBVIOUS
  <2>6. writes' \in Seq(W)
    <3> HIDE DEF rows, W
    <3> QED
      BY <2>1, <2>4, <2>5 DEF rows
  <2>7. ChatShape'
    BY <1>1, <2>6 DEF Session!Assign
  <2> QED
    BY <1>1, <2>7, ChatManaged DEF Session!Assign
<1>2. CASE Session!AssignWrite
  <2>1. Head(writes) \in W /\ Tail(writes) \in Seq(W)
    BY <1>2 DEF Session!AssignWrite
  <2>2. ChatShape'
    BY <1>2, <2>1 DEF Session!AssignWrite
  <2> QED
    BY <1>2, <2>2, ChatManaged DEF Session!AssignWrite
<1>3. CASE Session!AssignStops
  BY <1>3, ChatManaged DEF Session!AssignStops
<1>4. CASE Session!Choose
  <2>1. ChatShape'
    BY <1>0, <1>4, AllowedInCatalog DEF Session!Choose, Session!Choosable
  <2> QED
    BY <1>4, <2>1, ChatManaged DEF Session!Choose
<1>5. CASE Session!Publish
  <2>1. PICK q \in DOMAIN groups, v \in Vertical : groups' = [groups EXCEPT ![q] = Session!SymDiff(@, {v})]
    BY <1>5 DEF Session!Publish
  <2>2. PICK catalog \in (SUBSET Queue) \ {{}} : groups \in [catalog -> SUBSET Vertical]
    BY DEF Session!Configs
  <2>3. groups' \in [catalog -> SUBSET Vertical]
    BY <2>1, <2>2 DEF Session!SymDiff
  <2>4. groups' \in Session!Configs
    BY <2>2, <2>3 DEF Session!Configs
  <2>5. ChatShape'
    BY <1>5, <2>4 DEF Session!Publish
  <2> QED
    BY <1>5, <2>5, ChatManaged DEF Session!Publish
<1>6. CASE Session!PatchCatalog
  <2>1. ChatShape'
    BY <1>6 DEF Session!PatchCatalog
  <2> QED
    BY <1>6, <2>1, ChatManaged DEF Session!PatchCatalog
<1> QED
  BY <1>1, <1>2, <1>3, <1>4, <1>5, <1>6

Asking == {"idle", "config", "resolve", "ask"}
Asked == {"prepare", "stream", "answer"}

\* A step that writes nothing: it leaves the request where it has written as much.
LEMMA QuietStep ==
  ASSUME ChatInv, NEW s \in Send,
         UNCHANGED Session!session, UNCHANGED Session!records,
         send' \in [Send -> SendRequest], \A r \in Send \ {s} : send'[r] = send[r],
         Len(send'[s].history) <= Limit,
         \/ send[s].at \in Asking /\ send'[s].at \in Asking
         \/ send[s].at \in Asked /\ send'[s].at \in Asked
         \/ send'[s].at = "over",
         Words(send'[s])
  PROVE  ChatInv'
<1> USE DEF ChatInv, Session!session, Session!records
<1>1. ChatShape'
  BY DEF ChatShape
<1>2. Histories'
  BY DEF Histories
<1>3. OneOfEach' /\ Reasons'
  BY DEF OneOfEach, Reasons, By, AnsweredIn
<1>4. Written'
  <2> SUFFICES ASSUME NEW r \in Send
               PROVE  /\ send'[r].at \in Asking => ~Wrote("USER", r)' /\ ~Wrote("AI", r)'
                      /\ send'[r].at \in Asked => Wrote("USER", r)' /\ ~Wrote("AI", r)'
                      /\ Words(send'[r])
                      /\ send'[r].at = "request" => AnsweredIn(r, send[r].text)' /\ send'[r] = send[r]
                      /\ send'[r].at = "trace" => \E q \in requests' : q.of = r
    BY DEF Written, Asking, Asked, AnsweredIn
  <2>1. Wrote("USER", r)' = Wrote("USER", r) /\ Wrote("AI", r)' = Wrote("AI", r)
    BY DEF Wrote, By
  <2>2. CASE r # s
    <3>1. send'[r] = send[r]
      BY <2>2
    <3> QED
      BY <2>1, <3>1 DEF Written, Asking, Asked, AnsweredIn, By
  <2>3. CASE r = s
    BY <2>1, <2>3 DEF Written, Asking, Asked
  <2> QED
    BY <2>2, <2>3
<1> QED
  BY <1>1, <1>2, <1>3, <1>4

\* What loading the session, its queues and the history make of a request.
LEMMA RequestOver ==
  /\ [Session!Idle EXCEPT !.at = "over"] \in SendRequest
  /\ [Session!Idle EXCEPT !.at = "over"].at = "over" /\ Len([Session!Idle EXCEPT !.at = "over"].history) = 0
<1>1. <<>> \in Seq(Message) /\ Len(<<>>) = 0
  OBVIOUS
<1>2. Session!Idle.groups \in ReadConfigs /\ Session!Idle.groups = [q \in {} |-> {}]
  BY NothingRead DEF Session!Idle
<1> HIDE DEF Message
<1> QED
  BY <1>1, <1>2 DEF Session!Idle, SendRequest, Session!Found, Session!Texts

LEMMA PreparingSteps ==
  ASSUME ChatConstants, ChatInv, NEW s \in Send,
         Session!Load(s) \/ Session!ReadConfig(s) \/ Session!Resolve(s)
  PROVE  ChatInv'
<1> USE DEF Session!At
<1>1. send[s] \in SendRequest /\ send \in [Send -> SendRequest] /\ Len(send[s].history) <= Limit
  BY DEF ChatInv, ChatShape, Histories
<1>2. CASE Session!Load(s)
  <2>0. PICK elevated \in BOOLEAN :
          send' = [send EXCEPT ![s] = [Session!Idle EXCEPT !.at = "config", !.elevated = elevated, !.active = active]]
    BY <1>2 DEF Session!Load
  <2> DEFINE r == [Session!Idle EXCEPT !.at = "config", !.elevated = elevated, !.active = active]
  <2>1. r \in SendRequest /\ Len(r.history) = 0 /\ r.at = "config" /\ Words(r)
    <3>1. <<>> \in Seq(Message) /\ Len(<<>>) = 0 /\ active \in (SUBSET Queue) \cup {All}
      BY DEF ChatInv, ChatShape
    <3>2. Session!Idle.groups \in ReadConfigs /\ Session!Idle.groups = [q \in {} |-> {}]
      BY NothingRead DEF Session!Idle
    <3> HIDE DEF Message
    <3> QED
      BY <3>1, <3>2 DEF Session!Idle, SendRequest, Session!Found, Session!Texts, Words
  <2>2. send' = [send EXCEPT ![s] = r] /\ send[s].at \in Asking /\ r.at \in Asking
    BY <1>2, <2>0, <2>1 DEF Session!Load, Asking
  <2> HIDE DEF r
  <2>3. /\ send'[s] = r /\ send' \in [Send -> SendRequest]
        /\ \A d \in Send \ {s} : send'[d] = send[d]
    BY <1>1, <2>1, <2>2
  <2>4. Len(send'[s].history) <= Limit /\ Words(send'[s])
    BY <2>1, <2>3 DEF ChatConstants
  <2> QED
    BY <1>2, <2>2, <2>3, <2>4, QuietStep DEF Session!Load
<1>3. CASE Session!ReadConfig(s)
  <2> DEFINE r == [send[s] EXCEPT !.at = "resolve", !.groups = groups]
  <2>1. r \in SendRequest /\ r.history = send[s].history /\ r.at = "resolve" /\ r.text = send[s].text
    BY <1>1, CatalogIsRead DEF SendRequest, ChatInv, ChatShape
  <2>2. send' = [send EXCEPT ![s] = r] /\ send[s].at \in Asking /\ r.at \in Asking
    BY <1>1, <1>3, <2>1 DEF Session!ReadConfig, Asking
  <2> HIDE DEF r
  <2>3. /\ send'[s] = r /\ send' \in [Send -> SendRequest]
        /\ \A d \in Send \ {s} : send'[d] = send[d]
    BY <1>1, <2>1, <2>2
  <2>4. Words(send'[s])
    BY <1>3, <2>1, <2>3 DEF Session!ReadConfig, ChatInv, Written, Words
  <2> QED
    BY <1>1, <1>3, <2>1, <2>2, <2>3, <2>4, QuietStep DEF Session!ReadConfig
<1>4. CASE Session!Resolve(s)
  <2> DEFINE allowed == Session!Allowed(send[s].groups, send[s].elevated)
             queues == Session!Reconcile(send[s].active, allowed)
             vs == Session!Verticals(send[s].groups, queues)
             r == [send[s] EXCEPT !.at = "ask", !.elevated = FALSE, !.active = queues,
                                  !.groups = Session!Idle.groups, !.verticals = vs]
  <2>0. send[s].groups \in ReadConfigs /\ send[s].elevated \in BOOLEAN /\ send[s].active \in (SUBSET Queue) \cup {All}
    BY <1>1 DEF SendRequest
  <2>1. queues \in (SUBSET Queue) \cup {All}
    <3>1. allowed \subseteq Queue
      BY <2>0, ConfigIs, AllowedInCatalog
    <3> HIDE DEF allowed
    <3> QED
      BY <2>0, <3>1 DEF Session!Reconcile
  <2>2. vs \in ((SUBSET Vertical) \ {{}}) \cup {All}
    <3>1. \A q \in DOMAIN send[s].groups : send[s].groups[q] \subseteq Vertical
      BY <2>0, ConfigIs
    <3> HIDE DEF queues
    <3>2. UNION {send[s].groups[q] : q \in queues \cap DOMAIN send[s].groups} \subseteq Vertical
      BY <3>1
    <3> QED
      BY <3>2 DEF Session!Verticals
  <2>3. Session!Idle.groups \in ReadConfigs
    BY NothingRead
  <2>4. r \in SendRequest /\ r.history = send[s].history /\ r.at = "ask" /\ r.text = send[s].text
    <3> HIDE DEF queues, vs
    <3> QED
      BY <1>1, <2>1, <2>2, <2>3 DEF SendRequest
  <2>5. send' = [send EXCEPT ![s] = r] /\ send[s].at \in Asking /\ r.at \in Asking
    BY <1>1, <1>4, <2>4 DEF Session!Resolve, Asking
  <2> HIDE DEF r
  <2>6. /\ send'[s] = r /\ send' \in [Send -> SendRequest]
        /\ \A d \in Send \ {s} : send'[d] = send[d]
    BY <1>1, <2>4, <2>5
  <2>7. Words(send'[s])
    BY <1>4, <2>4, <2>6 DEF Session!Resolve, ChatInv, Written, Words
  <2> QED
    BY <1>1, <1>4, <2>4, <2>5, <2>6, <2>7, QuietStep DEF Session!Resolve
<1> QED
  BY <1>2, <1>3, <1>4

LEMMA StreamingSteps ==
  ASSUME ChatConstants, ChatInv, NEW s \in Send,
         Session!Prepare(s) \/ Session!Piece(s) \/ Session!StreamEnds(s) \/ Session!Cut(s)
  PROVE  ChatInv'
<1> USE DEF Session!At
<1>1. send[s] \in SendRequest /\ send \in [Send -> SendRequest] /\ Len(send[s].history) <= Limit
  BY DEF ChatInv, ChatShape, Histories
<1>2. CASE Session!Prepare(s)
  <2>1. PICK f \in Session!Found :
          send' = [send EXCEPT ![s].at = "stream", ![s].history = Session!History, ![s].found = f]
    BY <1>2 DEF Session!Prepare
  <2>2. Session!History \in Seq(Message) /\ Len(Session!History) <= Limit
    <3> DEFINE n == IF Len(messages) < Limit THEN Len(messages) ELSE Limit
    <3>1. messages \in Seq(Message) /\ n \in 0..Len(messages) /\ n <= Limit
      BY DEF ChatInv, ChatShape, ChatConstants
    <3>2. Session!History = SubSeq(messages, 1, n)
      BY DEF Session!History
    <3> HIDE DEF n, Message
    <3> QED
      BY <3>1, <3>2
  <2> DEFINE r == [send[s] EXCEPT !.at = "stream", !.history = Session!History, !.found = f]
  <2>3. r \in SendRequest /\ r.history = Session!History /\ r.at = "stream" /\ r.text = send[s].text
    BY <1>1, <2>2 DEF SendRequest
  <2>4. send' = [send EXCEPT ![s] = r] /\ send[s].at \in Asked /\ r.at \in Asked
    BY <1>1, <1>2, <2>1, <2>3 DEF Session!Prepare, Asked
  <2> HIDE DEF r
  <2>5. /\ send'[s] = r /\ send' \in [Send -> SendRequest]
        /\ \A d \in Send \ {s} : send'[d] = send[d]
    BY <1>1, <2>3, <2>4
  <2>6. Words(send'[s])
    BY <1>2, <2>3, <2>5 DEF Session!Prepare, ChatInv, Written, Words
  <2> QED
    BY <1>2, <2>2, <2>3, <2>4, <2>5, <2>6, QuietStep DEF Session!Prepare
<1>3. CASE Session!Piece(s)
  <2> DEFINE r == [send[s] EXCEPT !.text = "text"]
  <2>1. /\ r \in SendRequest /\ r.history = send[s].history /\ r.at = send[s].at
        /\ send[s].at = "stream" /\ r.text = "text"
    BY <1>1, <1>3 DEF SendRequest, Session!Texts, Session!Piece
  <2>2. send' = [send EXCEPT ![s] = r] /\ send[s].at \in Asked /\ r.at \in Asked
    BY <1>1, <1>3, <2>1 DEF Session!Piece, Asked
  <2> HIDE DEF r
  <2>3. /\ send'[s] = r /\ send' \in [Send -> SendRequest]
        /\ \A d \in Send \ {s} : send'[d] = send[d]
    BY <1>1, <2>1, <2>2
  <2>4. Words(send'[s])
    BY <2>1, <2>3 DEF Words
  <2> QED
    BY <1>1, <1>3, <2>1, <2>2, <2>3, <2>4, QuietStep DEF Session!Piece
<1>4. CASE Session!StreamEnds(s)
  <2> DEFINE ends(f) == [Session!Idle EXCEPT !.at = "answer", !.failed = f, !.found = send[s].found,
                                              !.text = Session!AnswerText(send[s].text, f)]
  <2>1. PICK failed \in BOOLEAN : /\ send' = [send EXCEPT ![s] = ends(failed)]
                                  /\ send[s].text = "none" => failed
    BY <1>4 DEF Session!StreamEnds
  <2> DEFINE r == ends(failed)
  <2>2. /\ r \in SendRequest /\ Len(r.history) = 0 /\ r.at = "answer" /\ r.failed = failed
        /\ r.text = Session!AnswerText(send[s].text, failed)
    <3>1. <<>> \in Seq(Message) /\ Len(<<>>) = 0
      OBVIOUS
    <3>2. send[s].found \in Session!Found
      BY <1>1 DEF SendRequest
    <3>3. Session!AnswerText(send[s].text, failed) \in Session!Texts
      BY DEF Session!AnswerText, Session!Texts
    <3>4. Session!Idle.groups \in ReadConfigs /\ Session!Idle.groups = [q \in {} |-> {}]
      BY NothingRead DEF Session!Idle
    <3> HIDE DEF Message
    <3> QED
      BY <3>1, <3>2, <3>3, <3>4 DEF Session!Idle, SendRequest, Session!Found
  <2>3. send' = [send EXCEPT ![s] = r] /\ send[s].at \in Asked /\ r.at \in Asked
    <3>1. send' = [send EXCEPT ![s] = r]
      BY <2>1
    <3> HIDE DEF r
    <3> QED
      BY <1>4, <2>2, <3>1 DEF Session!StreamEnds, Asked
  <2>4. r.text # "none" /\ (~r.failed => r.text = "text")
    <3>1. failed => r.text \in {"text and error", "error"}
      BY <2>2 DEF Session!AnswerText
    <3>2. ~failed => r.text \in {"text", "error"} /\ (send[s].text = "text" => r.text = "text")
      BY <2>2 DEF Session!AnswerText
    <3>3. send[s].text \in {"none", "text"}
      BY <1>4 DEF Session!StreamEnds, ChatInv, Written, Words
    <3>4. ~failed => send[s].text # "none"
      BY <2>1
    <3> HIDE DEF r
    <3> QED
      BY <2>2, <3>1, <3>2, <3>3, <3>4
  <2> HIDE DEF r
  <2>5. /\ send'[s] = r /\ send' \in [Send -> SendRequest]
        /\ \A d \in Send \ {s} : send'[d] = send[d]
    BY <1>1, <2>2, <2>3
  <2>6. Len(send'[s].history) <= Limit /\ Words(send'[s])
    BY <2>2, <2>4, <2>5 DEF ChatConstants, Words
  <2> QED
    BY <1>4, <2>3, <2>4, <2>5, <2>6, QuietStep DEF Session!StreamEnds
<1>5. CASE Session!Cut(s)
  <2> DEFINE r == [Session!Idle EXCEPT !.at = "over"]
  <2>1. send' = [send EXCEPT ![s] = r]
    BY <1>5 DEF Session!Cut
  <2>2. r \in SendRequest /\ r.at = "over" /\ Len(r.history) = 0
    BY RequestOver
  <2> HIDE DEF r
  <2>3. /\ send'[s] = r /\ send' \in [Send -> SendRequest]
        /\ \A d \in Send \ {s} : send'[d] = send[d]
    BY <1>1, <2>1, <2>2
  <2>4. Len(send'[s].history) <= Limit /\ Words(send'[s])
    BY <2>2, <2>3 DEF ChatConstants, Words
  <2> QED
    BY <1>5, <2>2, <2>3, <2>4, QuietStep DEF Session!Cut
<1> QED
  BY <1>2, <1>3, <1>4, <1>5

\* A message more.
LEMMA MessageMore ==
  ASSUME messages \in Seq(Message), NEW m \in Message, messages' = Append(messages, m)
  PROVE  /\ messages' \in Seq(Message) /\ Len(messages') = Len(messages) + 1
         /\ \A i \in 1..Len(messages) : messages'[i] = messages[i]
         /\ messages'[Len(messages) + 1] = m
         /\ \A by, s : Wrote(by, s)' <=> Wrote(by, s) \/ (m.by = by /\ m.of = s)
         /\ \A s, text : AnsweredIn(s, text)'
                         <=> AnsweredIn(s, text) \/ (m.by = "AI" /\ m.of = s /\ m.text = text)
<1> DEFINE n == Len(messages)
<1>1. /\ messages' \in Seq(Message) /\ Len(messages') = n + 1 /\ n \in Nat
      /\ \A i \in 1..n : messages'[i] = messages[i]
      /\ messages'[n + 1] = m
  <2> HIDE DEF Message
  <2> QED
    OBVIOUS
<1> HIDE DEF n
<1>2. 1..n+1 = 1..n \cup {n+1}
  BY <1>1
<1>3. \A by, s : Wrote(by, s)' <=> Wrote(by, s) \/ (m.by = by /\ m.of = s)
  BY <1>1, <1>2 DEF Wrote, By, n
<1>4. \A s, text : AnsweredIn(s, text)'
                  <=> AnsweredIn(s, text) \/ (m.by = "AI" /\ m.of = s /\ m.text = text)
  BY <1>1, <1>2 DEF AnsweredIn, By, n
<1> QED
  BY <1>1, <1>3, <1>4 DEF n

LEMMA AskStep ==
  ASSUME ChatInv, NEW s \in Send, Session!Ask(s)
  PROVE  ChatInv'
<1> USE DEF Session!At, Session!session
<1> DEFINE m == [by |-> "USER", of |-> s, text |-> "text"]
           r == [send[s] EXCEPT !.at = "prepare"]
           n == Len(messages)
<1>1. /\ send[s] \in SendRequest /\ send \in [Send -> SendRequest] /\ messages \in Seq(Message)
      /\ n \in Nat /\ send[s].at = "ask"
  BY DEF ChatInv, ChatShape, Session!Ask
<1>2. m \in Message /\ messages' = Append(messages, m)
  BY DEF Message, Session!Texts, Session!Ask
<1>3. /\ r \in SendRequest /\ r.history = send[s].history /\ r.at = "prepare" /\ r.text = send[s].text
  BY <1>1 DEF SendRequest
<1>4. send' = [send EXCEPT ![s] = r]
  BY <1>1 DEF Session!Ask
<1>5. ~Wrote("USER", s) /\ ~Wrote("AI", s) /\ send[s].text \in {"none", "text"}
  BY <1>1 DEF ChatInv, Written, Words
<1> HIDE DEF r
<1>6. /\ send'[s] = r /\ send' \in [Send -> SendRequest]
      /\ \A d \in Send \ {s} : send'[d] = send[d]
  BY <1>1, <1>3, <1>4
<1>7. /\ messages' \in Seq(Message) /\ Len(messages') = n + 1
      /\ \A i \in 1..n : messages'[i] = messages[i]
      /\ messages'[n + 1] = m
  BY <1>1, <1>2, MessageMore
<1>8. /\ \A by, d : Wrote(by, d)' <=> Wrote(by, d) \/ (by = "USER" /\ d = s)
      /\ \A d, text : AnsweredIn(d, text)' <=> AnsweredIn(d, text)
  BY <1>1, <1>2, MessageMore
<1> HIDE DEF n
<1>9. ChatShape' /\ Histories'
  BY <1>3, <1>6, <1>7 DEF ChatInv, ChatShape, Histories, Session!Ask
<1>10. OneOfEach'
  <2>1. \A i \in 1..n+1 : i \in 1..n \/ i = n + 1
    BY <1>1
  <2>2. \A i \in 1..n : ~(messages[i].by = "USER" /\ messages[i].of = s)
    BY <1>5 DEF Wrote, By, n
  <2>3. \A i, j \in 1..n+1 :
          messages'[i].by = messages'[j].by /\ messages'[i].of = messages'[j].of => i = j
    BY <1>7, <2>1, <2>2 DEF ChatInv, OneOfEach, n
  <2>4. \A i \in 1..n+1 :
          messages'[i].by = "AI" =>
            messages'[i].text # "none" /\ \E j \in 1..i : By(j, "USER", messages[i].of)'
    <3> SUFFICES ASSUME NEW i \in 1..n+1, messages'[i].by = "AI"
                 PROVE  messages'[i].text # "none" /\ \E j \in 1..i : By(j, "USER", messages[i].of)'
      OBVIOUS
    <3>1. i \in 1..n /\ messages'[i] = messages[i]
      BY <1>7, <2>1
    <3>2. PICK j \in 1..i : By(j, "USER", messages[i].of)
      BY <3>1 DEF ChatInv, OneOfEach, n
    <3>3. j \in 1..n /\ messages'[j] = messages[j]
      BY <1>1, <1>7, <3>1, <3>2
    <3> QED
      BY <3>1, <3>2, <3>3 DEF By, ChatInv, OneOfEach, n
  <2> QED
    BY <1>7, <2>3, <2>4 DEF OneOfEach, n
<1>11. Written'
  BY <1>3, <1>5, <1>6, <1>8 DEF ChatInv, Written, Words, Session!Ask
<1>12. Reasons'
  BY <1>8 DEF ChatInv, Reasons, Session!Ask
<1> QED
  BY <1>9, <1>10, <1>11, <1>12 DEF ChatInv

LEMMA AnswerStep ==
  ASSUME ChatInv, NEW s \in Send, Session!Answer(s)
  PROVE  ChatInv'
<1> USE DEF Session!At, Session!session
<1> DEFINE m == [by |-> "AI", of |-> s, text |-> send[s].text]
           r == [send[s] EXCEPT !.at = "request"]
           n == Len(messages)
<1>1. /\ send[s] \in SendRequest /\ send \in [Send -> SendRequest] /\ messages \in Seq(Message)
      /\ n \in Nat /\ send[s].at = "answer"
  BY DEF ChatInv, ChatShape, Session!Answer
<1>2. m \in Message /\ messages' = Append(messages, m)
  BY <1>1 DEF Message, SendRequest, Session!Answer
<1>3. /\ r \in SendRequest /\ r.history = send[s].history /\ r.at = "request" /\ r.text = send[s].text
      /\ r.failed = send[s].failed
  BY <1>1 DEF SendRequest
<1>4. send' = [send EXCEPT ![s] = r]
  BY <1>1 DEF Session!Answer
<1>5. Wrote("USER", s) /\ ~Wrote("AI", s) /\ Words(send[s])
  BY <1>1 DEF ChatInv, Written
<1> HIDE DEF r
<1>6. /\ send'[s] = r /\ send' \in [Send -> SendRequest]
      /\ \A d \in Send \ {s} : send'[d] = send[d]
  BY <1>1, <1>3, <1>4
<1>7. /\ messages' \in Seq(Message) /\ Len(messages') = n + 1
      /\ \A i \in 1..n : messages'[i] = messages[i]
      /\ messages'[n + 1] = m
  BY <1>1, <1>2, MessageMore
<1>8. /\ \A by, d : Wrote(by, d)' <=> Wrote(by, d) \/ (by = "AI" /\ d = s)
      /\ \A d, text : AnsweredIn(d, text)' <=> AnsweredIn(d, text) \/ (d = s /\ text = send[s].text)
  BY <1>1, <1>2, MessageMore
<1>9. ChatShape' /\ Histories'
  <2> HIDE DEF n, m
  <2> QED
    BY <1>3, <1>6, <1>7 DEF ChatInv, ChatShape, Histories, Session!Answer
<1>10. OneOfEach'
  <2>1. \A i \in 1..n+1 : i \in 1..n \/ i = n + 1
    BY <1>1
  <2>2. \A i \in 1..n : ~(messages[i].by = "AI" /\ messages[i].of = s)
    BY <1>5 DEF Wrote, By
  <2>3. \A i, j \in 1..n+1 :
          messages'[i].by = messages'[j].by /\ messages'[i].of = messages'[j].of => i = j
    BY <1>7, <2>1, <2>2 DEF ChatInv, OneOfEach
  <2>4. \A i \in 1..n+1 :
          messages'[i].by = "AI" =>
            messages'[i].text # "none" /\ \E j \in 1..i : By(j, "USER", messages[i].of)'
    <3> SUFFICES ASSUME NEW i \in 1..n+1, messages'[i].by = "AI"
                 PROVE  messages'[i].text # "none" /\ \E j \in 1..i : By(j, "USER", messages[i].of)'
      OBVIOUS
    <3>1. CASE i \in 1..n
      <4>1. messages'[i] = messages[i]
        BY <1>7, <3>1
      <4>2. PICK j \in 1..i : By(j, "USER", messages[i].of)
        BY <3>1, <4>1 DEF ChatInv, OneOfEach
      <4>3. j \in 1..n /\ messages'[j] = messages[j]
        BY <1>1, <1>7, <3>1, <4>2
      <4> QED
        BY <3>1, <4>1, <4>2, <4>3 DEF By, ChatInv, OneOfEach
    <3>2. CASE i = n + 1
      <4>1. messages'[i] = m /\ m.text # "none"
        BY <1>1, <1>5, <1>7, <3>2 DEF Words
      <4>2. PICK j \in 1..n : By(j, "USER", s)
        BY <1>5 DEF Wrote
      <4>3. j \in 1..i /\ messages'[j] = messages[j]
        BY <1>1, <1>7, <3>2, <4>2
      <4> QED
        BY <4>1, <4>2, <4>3 DEF By
    <3> QED
      BY <2>1, <3>1, <3>2
  <2> QED
    BY <1>7, <2>3, <2>4 DEF OneOfEach
<1>11. Written'
  BY <1>1, <1>3, <1>5, <1>6, <1>8 DEF ChatInv, Written, Words, Session!Answer
<1>12. Reasons'
  BY <1>8 DEF ChatInv, Reasons, Session!Answer
<1> QED
  BY <1>9, <1>10, <1>11, <1>12 DEF ChatInv

\* Rows of requests and traces that are added leave what was recorded.
LEMMA RecordingSteps ==
  ASSUME ChatConstants, ChatInv, NEW s \in Send,
         Session!Unprepared(s) \/ Session!RecordRequest(s) \/ Session!Trace(s)
  PROVE  ChatInv'
<1> USE DEF Session!At, Session!session
<1>1. /\ send[s] \in SendRequest /\ send \in [Send -> SendRequest] /\ UNCHANGED messages
      /\ \A by, d : Wrote(by, d)' = Wrote(by, d)
      /\ \A d, text : AnsweredIn(d, text)' = AnsweredIn(d, text)
  BY DEF ChatInv, ChatShape, Wrote, AnsweredIn, By, Session!Unprepared, Session!RecordRequest, Session!Trace
<1>2. OneOfEach'
  BY <1>1 DEF ChatInv, OneOfEach, By
<1>3. PICK r \in SendRequest : /\ send' = [send EXCEPT ![s] = r] /\ Len(r.history) <= Limit
                               /\ \/ r.at = "over" /\ send[s].at \in {"prepare", "trace"}
                                  \/ r.at = "trace" /\ send[s].at = "request"
  <2>1. CASE Session!Unprepared(s) \/ Session!Trace(s)
    <3> DEFINE q == [Session!Idle EXCEPT !.at = "over"]
    <3>1. q \in SendRequest /\ q.at = "over" /\ Len(q.history) = 0
      BY RequestOver
    <3>2. send' = [send EXCEPT ![s] = q] /\ send[s].at \in {"prepare", "trace"}
      BY <2>1 DEF Session!Unprepared, Session!Trace
    <3>3. Len(q.history) <= Limit
      BY <3>1 DEF ChatConstants
    <3> HIDE DEF q
    <3> USE <3>1
    <3>4. WITNESS q \in SendRequest
    <3> QED
      BY <3>2, <3>3
  <2>2. CASE Session!RecordRequest(s)
    <3> DEFINE q == [send[s] EXCEPT !.at = "trace"]
    <3>1. q \in SendRequest /\ q.history = send[s].history /\ q.at = "trace"
      BY <1>1 DEF SendRequest
    <3>2. send' = [send EXCEPT ![s] = q] /\ send[s].at = "request"
      BY <1>1, <2>2 DEF Session!RecordRequest
    <3> HIDE DEF q
    <3> QED
      BY <3>1, <3>2 DEF ChatInv, Histories
  <2> QED
    BY <2>1, <2>2
<1>4. /\ send'[s] = r /\ send' \in [Send -> SendRequest]
      /\ \A d \in Send \ {s} : send'[d] = send[d]
  BY <1>1, <1>3
<1>5. /\ requests \subseteq requests' /\ requests' \subseteq [of : Send, status : {"SUCCESS", "FAILED"}]
      /\ \A d \in Send : [of |-> d, status |-> "SUCCESS"] \in requests' \ requests => AnsweredIn(d, "text")
      /\ r.at = "trace" => \E q \in requests' : q.of = s
  <2>1. CASE Session!Unprepared(s)
    BY <1>3, <2>1 DEF Session!Unprepared, ChatInv, ChatShape
  <2>2. CASE Session!RecordRequest(s)
    <3>1. requests' = requests \cup {Session!Recorded(s)}
      BY <2>2 DEF Session!RecordRequest
    <3>2. Session!Recorded(s) = [of |-> s, status |-> IF send[s].failed THEN "FAILED" ELSE "SUCCESS"]
      BY DEF Session!Recorded
    <3>3. ~send[s].failed => AnsweredIn(s, "text")
      BY <2>2 DEF Session!RecordRequest, ChatInv, Written, Words
    <3> QED
      BY <3>1, <3>2, <3>3 DEF ChatInv, ChatShape
  <2>3. CASE Session!Trace(s)
    BY <1>3, <2>3 DEF Session!Trace, ChatInv, ChatShape
  <2> QED
    BY <2>1, <2>2, <2>3
<1>6. /\ traces \subseteq traces' /\ traces' \subseteq [of : Send, status : Session!Found]
      /\ \A t \in traces' \ traces : \E q \in requests' : q.of = t.of
  <2>1. CASE Session!Unprepared(s) \/ Session!RecordRequest(s)
    BY <2>1 DEF Session!Unprepared, Session!RecordRequest, ChatInv, ChatShape
  <2>2. CASE Session!Trace(s)
    <3>1. send[s].found \in Session!Found /\ \E q \in requests : q.of = s
      BY <1>1, <2>2 DEF SendRequest, Session!Trace, ChatInv, Written
    <3> QED
      BY <1>5, <2>2, <3>1 DEF Session!Trace, ChatInv, ChatShape
  <2> QED
    BY <2>1, <2>2
<1>7. ChatShape' /\ Histories'
  BY <1>1, <1>3, <1>4, <1>5, <1>6
     DEF ChatInv, ChatShape, Histories, Session!Unprepared, Session!RecordRequest, Session!Trace
<1>8. Written'
  BY <1>1, <1>3, <1>4, <1>5 DEF ChatInv, Written, Words
<1>9. Reasons'
  BY <1>1, <1>5, <1>6 DEF ChatInv, Reasons
<1> QED
  BY <1>2, <1>7, <1>8, <1>9 DEF ChatInv

LEMMA NextChat == ASSUME ChatConstants, ChatInv, [Session!ChatNext]_chatVars PROVE ChatInv'
<1>1. CASE UNCHANGED chatVars
  BY <1>1 DEF chatVars, ChatInv, ChatShape, Histories, OneOfEach, Written, Reasons, Wrote, AnsweredIn, By
<1>2. CASE Session!ChatNext
  BY <1>2, ManagerSteps, PreparingSteps, StreamingSteps, AskStep, AnswerStep, RecordingSteps
     DEF Session!ChatNext, Session!SendStep
<1> QED
  BY <1>1, <1>2

\* Only the chat moves the chat.
LEMMA ChatMoves == [Next]_vars => [Session!ChatNext]_chatVars
  BY DEF Next, vars, OnlyFocus, chatVars

\* The inductive invariant of a chat session.
THEOREM ChatInvariant == Spec => []ChatInv
<1> USE PartConstants
<1>1. Init => ChatInv
  BY ChatStart DEF Init
<1>2. ChatInv /\ [Next]_vars => ChatInv'
  BY NextChat, ChatMoves
<1> QED
  BY <1>1, <1>2, PTL DEF Spec

\* chat_queues.py "Drop queues the agent no longer has": whatever a session chose earlier, a
\* message searches only queues of the catalog it has read, and only assigned ones when the
\* agent has some of them and no elevated role.  Nothing is said of a session without a choice,
\* nor of an agent who has no assigned queue of the catalog at that moment, as between the
\* deletion and the insertion of the rows.
THEOREM LostQueuesAreDropped == Spec => DroppedQueuesAreDropped
<1> USE PartConstants
<1>1. ASSUME ChatInv, [Next]_vars, NEW s \in Send,
             send[s].at = "resolve", send'[s].at = "ask", send[s].active # All
      PROVE  /\ send'[s].active \subseteq DOMAIN send[s].groups
             /\ ~send[s].elevated /\ assigned \cap DOMAIN send[s].groups # {} => send'[s].active \subseteq assigned
  <2> USE DEF Session!At
  <2>1. CASE UNCHANGED chatVars
    BY <1>1, <2>1 DEF chatVars
  <2>2. send \in [Send -> SendRequest]
    BY <1>1 DEF ChatInv, ChatShape
  <2>3. ASSUME NEW d \in Send, Session!SendStep(d) \/ Session!Piece(d) \/ Session!Cut(d)
        PROVE  d = s /\ Session!Resolve(s)
    <3>1. d = s
      BY <1>1, <2>2, <2>3
         DEF Session!SendStep, Session!Load, Session!ReadConfig, Session!Resolve, Session!Ask, Session!Prepare,
             Session!Unprepared, Session!StreamEnds, Session!Answer, Session!RecordRequest, Session!Trace,
             Session!Piece, Session!Cut
    <3>2. \/ Session!Resolve(s)
          \/ Session!Cut(s)
      BY <1>1, <2>3, <3>1
         DEF Session!SendStep, Session!Load, Session!ReadConfig, Session!Ask, Session!Prepare,
             Session!Unprepared, Session!StreamEnds, Session!Answer, Session!RecordRequest, Session!Trace,
             Session!Piece
    <3>3. Session!Cut(s) => send'[s].at = "over"
      BY <2>2, RequestOver DEF Session!Cut
    <3> QED
      BY <1>1, <3>1, <3>2, <3>3
  <2>4. CASE Session!Resolve(s)
    <3> DEFINE allowed == Session!Allowed(send[s].groups, send[s].elevated)
               queues == Session!Reconcile(send[s].active, allowed)
               vs == Session!Verticals(send[s].groups, queues)
    <3>1. send' = [send EXCEPT ![s].at = "ask", ![s].elevated = FALSE, ![s].active = queues,
                               ![s].groups = Session!Idle.groups, ![s].verticals = vs]
      BY <2>4 DEF Session!Resolve
    <3>2. send[s] \in SendRequest
      BY <2>2
    <3>3. send'[s].active = queues
      <4> HIDE DEF queues, vs
      <4> QED
        BY <2>2, <3>1, <3>2 DEF SendRequest
    <3>4. queues \subseteq allowed
      BY <1>1 DEF Session!Reconcile
    <3>5. send[s].elevated \in BOOLEAN
      BY <3>2 DEF SendRequest
    <3> QED
      BY <3>3, <3>4, <3>5, AllowedInCatalog
  <2>5. CASE Session!ChatNext
    <3>1. CASE \/ Session!Assign \/ Session!AssignWrite \/ Session!AssignStops \/ Session!Choose
               \/ Session!Publish \/ Session!PatchCatalog
      BY <1>1, <3>1
         DEF Session!Assign, Session!AssignWrite, Session!AssignStops, Session!Choose, Session!Publish,
             Session!PatchCatalog
    <3>2. CASE \E d \in Send : Session!SendStep(d) \/ Session!Piece(d) \/ Session!Cut(d)
      BY <2>3, <2>4, <3>2
    <3> QED
      BY <2>5, <3>1, <3>2 DEF Session!ChatNext
  <2> QED
    BY <1>1, <2>1, <2>5, ChatMoves
<1>2. ChatInv /\ [Next]_vars =>
        [\A s \in Send :
           LET catalog == DOMAIN send[s].groups
           IN send[s].at = "resolve" /\ send'[s].at = "ask" /\ send[s].active # All
                => /\ send'[s].active \subseteq catalog
                   /\ ~send[s].elevated /\ assigned \cap catalog # {}
                        => send'[s].active \subseteq assigned]_(Session!chatVars)
  BY <1>1
<1> QED
  BY <1>2, ChatInvariant, PTL DEF Spec, DroppedQueuesAreDropped, Session!DroppedQueuesAreDropped

-----------------------------------------------------------------------------
(* The chat widget.                                                        *)

\* A turn is reported after its answer, once, as what it was answered.
ReportsFollow ==
  \A t \in Turn :
    LET as == IF turn[t] = "ok" THEN "turn" ELSE "error"
        rows == turnRows[t] + errorRows[t]
    IN /\ turn[t] \in {"idle", "gate", "search", "llm", "unhandled"} => report[t].at = "none"
       /\ report[t].at = "none" => rows = 0
       /\ report[t].at = "sent" => rows = 0 /\ report[t].of = as
       /\ report[t].at = "over" => rows <= 1
       /\ as = "turn" => errorRows[t] = 0
       /\ as = "error" => turnRows[t] = 0

WidgetInv == Widget!WidgetTypeOK /\ ReportsFollow

LEMMA WidgetStart == ASSUME WidgetConstants, Widget!WidgetInit PROVE WidgetInv
  BY DEF WidgetConstants, Widget!WidgetInit, WidgetInv, Widget!WidgetTypeOK, ReportsFollow, Widget!NoReport,
         Widget!Answers

LEMMA NextWidget == ASSUME WidgetConstants, WidgetInv, [Widget!WidgetNext]_widgetVars PROVE WidgetInv'
<1> USE DEF WidgetConstants, WidgetInv, Widget!WidgetTypeOK, ReportsFollow, Widget!stored
<1>1. CASE UNCHANGED widgetVars
  BY <1>1 DEF widgetVars
<1>2. ASSUME NEW t \in Turn, Widget!Begin(t) \/ Widget!Gate(t) \/ Widget!GateFails(t) \/ Widget!Searched(t)
      PROVE  WidgetInv'
  <2>1. CASE Widget!Begin(t)
    BY <2>1 DEF Widget!Begin, Widget!GoOn, Widget!Answers
  <2>2. CASE Widget!Gate(t)
    BY <2>2 DEF Widget!Gate, Widget!GoOn, Widget!Answers
  <2>3. CASE Widget!GateFails(t)
    BY <2>3 DEF Widget!GateFails, Widget!GoOn, Widget!Answers
  <2>4. CASE Widget!Searched(t)
    BY <2>4 DEF Widget!Searched, Widget!GoOn, Widget!Answers
  <2> QED
    BY <1>2, <2>1, <2>2, <2>3, <2>4
<1>3. ASSUME NEW t \in Turn, NEW code \in {"400", "401", "429", "502", "503", "unhandled"},
             turn[t] \in {"gate", "search", "llm"}, Widget!Refuse(t, code)
      PROVE  WidgetInv'
  BY <1>3 DEF Widget!Refuse, Widget!GoOn, Widget!Schedule, Widget!Answers
<1>4. ASSUME NEW t \in Turn, Widget!SearchFails(t) \/ Widget!LlmFails(t)
      PROVE  WidgetInv'
  BY <1>3, <1>4 DEF Widget!SearchFails, Widget!LlmFails, Widget!StatusError, Widget!TransportError
<1>5. ASSUME NEW t \in Turn, Widget!LlmAnswers(t)
      PROVE  WidgetInv'
  BY <1>5 DEF Widget!LlmAnswers, Widget!GoOn, Widget!Schedule, Widget!Answers
<1>6. ASSUME NEW t \in Turn, Widget!Lost(t)
      PROVE  WidgetInv'
  BY <1>6 DEF Widget!Lost, Widget!NoReport
<1>7. ASSUME NEW t \in Turn, Widget!StoreTurn(t) \/ Widget!StoreError(t)
      PROVE  WidgetInv'
  <2>1. report' = [report EXCEPT ![t] = [at |-> "over", of |-> "none"]] /\ report[t].at = "sent"
    BY <1>7 DEF Widget!StoreTurn, Widget!StoreError, Widget!NoReport
  <2>2. CASE Widget!StoreTurn(t)
    <3>1. turnRows' = [turnRows EXCEPT ![t] = turnRows[t] + 1] /\ turn[t] = "ok" /\ turnRows[t] = 0 /\ errorRows[t] = 0
      BY <2>2 DEF Widget!StoreTurn, Widget!Another
    <3> QED
      BY <2>1, <2>2, <3>1 DEF Widget!StoreTurn
  <2>3. CASE Widget!StoreError(t)
    <3>1. errorRows' = [errorRows EXCEPT ![t] = errorRows[t] + 1] /\ turn[t] # "ok" /\ turnRows[t] = 0 /\ errorRows[t] = 0
      BY <2>3 DEF Widget!StoreError, Widget!Another
    <3> QED
      BY <2>1, <2>3, <3>1 DEF Widget!StoreError
  <2> QED
    BY <1>7, <2>2, <2>3
<1> QED
  BY <1>1, <1>2, <1>4, <1>5, <1>6, <1>7 DEF Widget!WidgetNext, Widget!TurnStep

LEMMA WidgetMoves == [Next]_vars => [Widget!WidgetNext]_widgetVars
  BY DEF Next, vars, OnlyFocus, widgetVars

\* The inductive invariant of the widget's turns and reports.
THEOREM WidgetInvariant == Spec => []WidgetInv
<1> USE PartConstants
<1>1. Init => WidgetInv
  BY WidgetStart DEF Init
<1>2. WidgetInv /\ [Next]_vars => WidgetInv'
  BY NextWidget, WidgetMoves
<1> QED
  BY <1>1, <1>2, PTL DEF Spec

LEMMA Reported == ASSUME WidgetInv PROVE Widget!ReportsAgree
  BY DEF WidgetInv, Widget!WidgetTypeOK, ReportsFollow, Widget!ReportsAgree, Widget!Answers

-----------------------------------------------------------------------------
(* Alerts.                                                                 *)

AlertRequest ==
  [at : {"idle", "handler", "inserted", "error", "spawn", "mail", "access", "over"},
   kind : Mail!Kinds, route : Route, org : Org \cup {NoOrg}]
Alert ==
  [at : {"none", "new", "staff", "platform", "send", "over"},
   kind : Mail!Kinds, route : Route, org : Org \cup {NoOrg}, to : SUBSET Org]
Attempt == [of : Request, route : Route, time : 0..MaxClock]

AlertShape ==
  /\ clock \in 0..MaxClock
  /\ platform \in Org \cup {NoOrg}
  /\ request \in [Request -> AlertRequest]
  /\ alert \in [Request -> Alert]
  /\ lastSent \in [Route -> 0..MaxClock \cup {Mail!Never}]
  /\ attempts \subseteq Attempt

\* Tickets are of an organization.
TicketsAreOwned ==
  \A r \in Request : /\ request[r].kind = "ticket" => request[r].org # NoOrg
                     /\ alert[r].kind = "ticket" => alert[r].org # NoOrg

\* The time stored for a route is that of its last attempt.
LastIsStored ==
  /\ \A a \in attempts : a.time <= clock
  /\ Window # 0 =>
       \A a \in attempts : lastSent[a.route] # Mail!Never /\ a.time <= lastSent[a.route]

\* Staff that is not the platform's is the organization's.
StaffIsInside ==
  \A r \in Request : platform # NoOrg /\ alert[r].at \in {"platform", "send"}
                        => alert[r].to \subseteq {platform, alert[r].org}

AlertInv == AlertShape /\ TicketsAreOwned /\ LastIsStored /\ StaffIsInside /\ Mail!AlertsAreSpaced

LEMMA AlertStart == ASSUME AlertConstants, Mail!AlertsInit PROVE AlertInv
<1> USE DEF AlertConstants, Mail!AlertsInit
<1>1. Mail!AnyRoute \in Route
  BY DEF Mail!AnyRoute
<1>2. Mail!NoRequest \in AlertRequest /\ Mail!NoAlert \in Alert
  BY <1>1 DEF Mail!NoRequest, Mail!NoAlert, AlertRequest, Alert, Mail!Kinds
<1>3. AlertShape
  BY <1>2 DEF AlertShape
<1>4. TicketsAreOwned /\ StaffIsInside
  BY DEF TicketsAreOwned, StaffIsInside, Mail!NoRequest, Mail!NoAlert
<1>5. LastIsStored /\ Mail!AlertsAreSpaced
  BY DEF LastIsStored, Mail!AlertsAreSpaced
<1> QED
  BY <1>3, <1>4, <1>5 DEF AlertInv

\* One request and one alert change at a time, and no time of an attempt.
LEMMA AlertKept ==
  ASSUME AlertInv, NEW r \in Request, NEW q \in AlertRequest, NEW a \in Alert,
         request' = [request EXCEPT ![r] = q], alert' = [alert EXCEPT ![r] = a],
         UNCHANGED <<clock, platform, lastSent, attempts>>,
         q.kind = "ticket" => q.org # NoOrg,
         a.kind = "ticket" => a.org # NoOrg,
         platform # NoOrg /\ a.at \in {"platform", "send"} => a.to \subseteq {platform, a.org}
  PROVE  AlertInv'
<1> USE DEF AlertInv
<1>1. AlertShape'
  BY DEF AlertShape
<1>2. TicketsAreOwned' /\ StaffIsInside'
  BY DEF AlertShape, TicketsAreOwned, StaffIsInside
<1>3. LastIsStored' /\ Mail!AlertsAreSpaced'
  BY DEF LastIsStored, Mail!AlertsAreSpaced
<1> QED
  BY <1>1, <1>2, <1>3

\* A request that goes on keeps the rest.
LEMMA RequestExcept ==
  ASSUME NEW q \in AlertRequest, NEW p \in {"handler", "inserted", "error", "spawn", "mail", "access", "over"}
  PROVE  /\ [q EXCEPT !.at = p] \in AlertRequest
         /\ [q EXCEPT !.at = p].kind = q.kind /\ [q EXCEPT !.at = p].org = q.org
  BY DEF AlertRequest

LEMMA NoneExcept ==
  ASSUME AlertConstants
  PROVE  /\ [Mail!NoRequest EXCEPT !.at = "access"] \in AlertRequest
         /\ [Mail!NoRequest EXCEPT !.at = "over"] \in AlertRequest
         /\ [Mail!NoRequest EXCEPT !.at = "access"].kind = "call"
         /\ [Mail!NoRequest EXCEPT !.at = "over"].kind = "call"
         /\ [Mail!NoAlert EXCEPT !.at = "over"] \in Alert
         /\ [Mail!NoAlert EXCEPT !.at = "over"].kind = "call"
         /\ [Mail!NoAlert EXCEPT !.at = "over"].at = "over"
<1>1. Mail!AnyRoute \in Route
  BY DEF Mail!AnyRoute, AlertConstants
<1> QED
  BY <1>1 DEF Mail!NoRequest, Mail!NoAlert, AlertRequest, Alert, Mail!Kinds

\* What a step does to the request and its alert.
LEMMA RequestSteps ==
  ASSUME AlertConstants, AlertInv, NEW r \in Request,
         Mail!Begin(r) \/ Mail!RequestStep(r) \/ Mail!Cancel(r)
  PROVE  AlertInv'
<1> USE DEF Mail!At, Mail!setting, Mail!sending
<1>1. /\ request[r] \in AlertRequest /\ alert[r] \in Alert
      /\ request \in [Request -> AlertRequest] /\ alert \in [Request -> Alert]
  BY DEF AlertInv, AlertShape
<1>2. /\ request[r].kind = "ticket" => request[r].org # NoOrg
      /\ alert[r].kind = "ticket" => alert[r].org # NoOrg
      /\ platform # NoOrg /\ alert[r].at \in {"platform", "send"} => alert[r].to \subseteq {platform, alert[r].org}
  BY DEF AlertInv, TicketsAreOwned, StaffIsInside
<1> DEFINE fresh == [at |-> "new", kind |-> request[r].kind, route |-> request[r].route,
                     org |-> request[r].org, to |-> {}]
           over == [Mail!NoAlert EXCEPT !.at = "over"]
           Going == {"handler", "inserted", "error", "spawn", "mail", "access", "over"}
<1>3. PICK q \in AlertRequest : /\ request' = [request EXCEPT ![r] = q]
                                /\ q.kind = "ticket" => q.org # NoOrg
  <2> DEFINE Is(q) == request' = [request EXCEPT ![r] = q] /\ (q.kind = "ticket" => q.org # NoOrg)
  <2> SUFFICES \E q \in AlertRequest : Is(q)
    OBVIOUS
  <2>1. ASSUME NEW p \in Going, request' = [request EXCEPT ![r].at = p]
        PROVE  \E q \in AlertRequest : Is(q)
    <3> DEFINE q == [request[r] EXCEPT !.at = p]
    <3>1. q \in AlertRequest /\ q.kind = request[r].kind /\ q.org = request[r].org
      BY <1>1, RequestExcept
    <3>2. request' = [request EXCEPT ![r] = q]
      BY <1>1, <2>1
    <3> HIDE DEF q
    <3> QED
      BY <1>2, <3>1, <3>2
  <2>2. CASE Mail!Begin(r)
    <3>1. PICK k \in Mail!Kinds, x \in Route, o \in Org \cup {NoOrg} :
            /\ k = "ticket" => o # NoOrg
            /\ request' = [request EXCEPT ![r] = [at |-> "handler", kind |-> k, route |-> x, org |-> o]]
      BY <2>2 DEF Mail!Begin
    <3> DEFINE q == [at |-> "handler", kind |-> k, route |-> x, org |-> o]
    <3>2. q \in AlertRequest /\ Is(q)
      BY <3>1 DEF AlertRequest
    <3> QED
      BY <3>2
  <2>3. CASE Mail!Raise(r)
    <3> DEFINE q == [request[r] EXCEPT !.at = "error", !.kind = "call"]
    <3>1. q \in AlertRequest /\ q.kind = "call"
      BY <1>1 DEF AlertRequest, Mail!Kinds
    <3>2. request' = [request EXCEPT ![r] = q]
      BY <1>1, <2>3 DEF Mail!Raise
    <3> HIDE DEF q
    <3> QED
      BY <3>1, <3>2
  <2>4. CASE Mail!Release(r) \/ Mail!Over(r)
    BY <2>4, NoneExcept DEF Mail!Release, Mail!Over
  <2>5. CASE \E p \in Going : Mail!GoOn(r, p)
    BY <2>1, <2>5 DEF Mail!GoOn
  <2> QED
    BY <2>2, <2>3, <2>4, <2>5
       DEF Mail!RequestStep, Mail!Succeed, Mail!PersistError, Mail!Spawn, Mail!Notify, Mail!Notified,
           Mail!PersistAccess, Mail!Cancel
<1>4. \/ alert' = [alert EXCEPT ![r] = fresh]
      \/ alert' = [alert EXCEPT ![r] = over]
      \/ alert' = alert
  BY DEF Mail!Begin, Mail!RequestStep, Mail!Succeed, Mail!Raise, Mail!PersistError, Mail!Spawn, Mail!Notify,
         Mail!Notified, Mail!PersistAccess, Mail!Cancel, Mail!New
<1>5. /\ fresh \in Alert /\ (fresh.kind = "ticket" => fresh.org # NoOrg)
      /\ fresh.at = "new"
  BY <1>1, <1>2 DEF Alert, AlertRequest
<1>6. over \in Alert /\ over.kind = "call" /\ over.at = "over"
  BY NoneExcept
<1>7. alert = [alert EXCEPT ![r] = alert[r]]
  BY <1>1
<1>8. UNCHANGED <<clock, platform, lastSent, attempts>>
  BY DEF Mail!Begin, Mail!RequestStep, Mail!Succeed, Mail!Raise, Mail!PersistError, Mail!Spawn, Mail!Notify,
         Mail!Notified, Mail!PersistAccess, Mail!Cancel
<1> HIDE DEF fresh, over
<1>9. CASE alert' = [alert EXCEPT ![r] = fresh]
  BY <1>3, <1>5, <1>8, <1>9, AlertKept
<1>10. CASE alert' = [alert EXCEPT ![r] = over]
  BY <1>3, <1>6, <1>8, <1>10, AlertKept
<1>11. CASE alert' = alert
  BY <1>1, <1>2, <1>3, <1>7, <1>8, <1>11, AlertKept
<1> QED
  BY <1>4, <1>9, <1>10, <1>11

\* The choice of those who are written to.
LEMMA MailSteps ==
  ASSUME AlertConstants, AlertInv, NEW r \in Request,
         Mail!Recipients(r) \/ Mail!PlatformRecipients(r) \/ Mail!NoRecipients(r) \/ Mail!SendMail(r)
  PROVE  AlertInv'
<1> USE DEF Mail!setting, Mail!sending
<1>1. /\ request[r] \in AlertRequest /\ alert[r] \in Alert
      /\ request \in [Request -> AlertRequest] /\ alert \in [Request -> Alert]
      /\ platform \in Org \cup {NoOrg}
  BY DEF AlertInv, AlertShape
<1>2. /\ request[r].kind = "ticket" => request[r].org # NoOrg
      /\ alert[r].kind = "ticket" => alert[r].org # NoOrg
      /\ platform # NoOrg /\ alert[r].at \in {"platform", "send"} => alert[r].to \subseteq {platform, alert[r].org}
  BY DEF AlertInv, TicketsAreOwned, StaffIsInside
<1>3. UNCHANGED <<clock, platform, request, lastSent, attempts>> /\ request = [request EXCEPT ![r] = request[r]]
  BY <1>1 DEF Mail!Recipients, Mail!PlatformRecipients, Mail!NoRecipients, Mail!SendMail
<1>4. PICK a \in Alert : /\ alert' = [alert EXCEPT ![r] = a]
                         /\ a.kind = "ticket" => a.org # NoOrg
                         /\ platform # NoOrg /\ a.at \in {"platform", "send"} => a.to \subseteq {platform, a.org}
  <2> DEFINE Is(a) == /\ alert' = [alert EXCEPT ![r] = a]
                      /\ a.kind = "ticket" => a.org # NoOrg
                      /\ platform # NoOrg /\ a.at \in {"platform", "send"} => a.to \subseteq {platform, a.org}
  <2> SUFFICES \E a \in Alert : Is(a)
    OBVIOUS
  <2>1. CASE Mail!Recipients(r)
    <3>1. CASE alert[r].kind = "ticket"
      <4> DEFINE to == Mail!Staff(alert[r].org)
                 a == [alert[r] EXCEPT !.kind = "call", !.at = "send", !.to = to]
      <4>1. to = {alert[r].org} /\ to \subseteq Org
        BY <1>1, <1>2, <3>1 DEF Mail!Staff, Alert
      <4>2. alert' = [alert EXCEPT ![r] = a]
        BY <1>1, <2>1, <3>1 DEF Mail!Recipients
      <4> HIDE DEF to
      <4>3. a \in Alert /\ a.kind = "call" /\ a.to = to /\ a.org = alert[r].org
        BY <1>1, <4>1 DEF Alert, Mail!Kinds
      <4> HIDE DEF a
      <4> QED
        BY <4>1, <4>2, <4>3
    <3>2. CASE alert[r].kind # "ticket"
      <4> DEFINE to == Mail!OwnStaff(r)
                 a == [alert[r] EXCEPT !.kind = "call", !.at = "platform", !.to = to]
      <4>1. to \subseteq Org /\ (platform # NoOrg => to \subseteq {alert[r].org})
        BY <1>1 DEF Mail!OwnStaff, Mail!Staff, Alert
      <4>2. alert' = [alert EXCEPT ![r] = a]
        BY <1>1, <2>1, <3>2 DEF Mail!Recipients
      <4> HIDE DEF to
      <4>3. a \in Alert /\ a.kind = "call" /\ a.to = to /\ a.org = alert[r].org
        BY <1>1, <4>1 DEF Alert, Mail!Kinds
      <4> HIDE DEF a
      <4> QED
        BY <4>1, <4>2, <4>3
    <3> QED
      BY <3>1, <3>2
  <2>2. CASE Mail!PlatformRecipients(r)
    <3> DEFINE to == alert[r].to \cup (IF platform = NoOrg THEN {} ELSE Mail!Staff(platform))
               a == [alert[r] EXCEPT !.at = "send", !.to = to]
    <3>1. to \subseteq Org /\ (platform # NoOrg => to \subseteq {platform, alert[r].org})
      BY <1>1, <1>2, <2>2 DEF Mail!PlatformRecipients, Mail!Staff, Alert
    <3>2. alert' = [alert EXCEPT ![r] = a]
      BY <1>1, <2>2 DEF Mail!PlatformRecipients
    <3> HIDE DEF to
    <3>3. a \in Alert /\ a.kind = alert[r].kind /\ a.to = to /\ a.org = alert[r].org
      BY <1>1, <3>1 DEF Alert
    <3> HIDE DEF a
    <3> QED
      BY <1>2, <3>1, <3>2, <3>3
  <2>3. CASE Mail!Ended(r)
    BY <2>3, NoneExcept DEF Mail!Ended
  <2> QED
    BY <2>1, <2>2, <2>3 DEF Mail!NoRecipients, Mail!SendMail
<1> QED
  BY <1>1, <1>2, <1>3, <1>4, AlertKept

\* An alert passes the throttle a window after the last one for its route, or not at all.
LEMMA ThrottleStep ==
  ASSUME AlertConstants, AlertInv, NEW r \in Request, Mail!Throttle(r)
  PROVE  AlertInv'
<1> USE DEF Mail!setting
<1>1. /\ request[r] \in AlertRequest /\ alert[r] \in Alert /\ alert[r].route \in Route
      /\ request \in [Request -> AlertRequest] /\ alert \in [Request -> Alert]
      /\ request = [request EXCEPT ![r] = request[r]]
      /\ UNCHANGED <<clock, platform, request>>
  BY DEF AlertInv, AlertShape, Alert, Mail!Throttle
<1>2. /\ request[r].kind = "ticket" => request[r].org # NoOrg
      /\ alert[r].kind = "ticket" => alert[r].org # NoOrg
  BY DEF AlertInv, TicketsAreOwned
<1> DEFINE on == [alert[r] EXCEPT !.at = "staff"]
           over == [Mail!NoAlert EXCEPT !.at = "over"]
<1>3. on \in Alert /\ on.kind = alert[r].kind /\ on.org = alert[r].org /\ on.at = "staff"
  BY <1>1 DEF Alert
<1>4. over \in Alert /\ over.kind = "call" /\ over.at = "over"
  BY NoneExcept
<1>5. /\ Mail!Step(r, "staff") => alert' = [alert EXCEPT ![r] = on]
      /\ Mail!Ended(r) => alert' = [alert EXCEPT ![r] = over]
  BY <1>1 DEF Mail!Step, Mail!Ended
<1> HIDE DEF on, over
<1>6. CASE UNCHANGED <<lastSent, attempts>>
  <2>1. Mail!Step(r, "staff") \/ Mail!Ended(r)
    BY DEF Mail!Throttle
  <2> QED
    BY <1>1, <1>2, <1>3, <1>4, <1>5, <1>6, <2>1, AlertKept
<1>7. CASE /\ ~Mail!Throttled(r) /\ Mail!Step(r, "staff") /\ Mail!Passed(r)
           /\ lastSent' = [lastSent EXCEPT ![alert[r].route] = clock]
  <2> DEFINE x == alert[r].route
             new == [of |-> r, route |-> x, time |-> clock]
  <2>1. /\ clock \in 0..MaxClock /\ lastSent \in [Route -> 0..MaxClock \cup {Mail!Never}]
        /\ attempts \subseteq Attempt /\ x \in Route
    BY <1>1 DEF AlertInv, AlertShape
  <2>2. attempts' = attempts \cup {new} /\ new \in Attempt
    BY <1>7, <2>1 DEF Mail!Passed, Attempt
  <2>3. lastSent'[x] = clock /\ \A y \in Route \ {x} : lastSent'[y] = lastSent[y]
    BY <1>7, <2>1
  <2>4. \A a \in attempts : a.route \in Route /\ a.time \in 0..MaxClock
    BY <2>1 DEF Attempt
  <2>5. \A a \in attempts : a.route = x => a.time + Window <= clock
    <3> SUFFICES ASSUME NEW a \in attempts, a.route = x
                 PROVE  a.time + Window <= clock
      OBVIOUS
    <3>1. CASE Window # 0
      <4>1. lastSent[x] # Mail!Never /\ a.time <= lastSent[x] /\ lastSent[x] \in 0..MaxClock
        BY <2>1, <3>1 DEF AlertInv, LastIsStored
      <4>2. ~(clock - lastSent[x] < Window)
        BY <1>7, <4>1 DEF Mail!Throttled
      <4> QED
        BY <2>1, <2>4, <4>1, <4>2 DEF AlertConstants
    <3>2. CASE Window = 0
      BY <2>1, <2>4, <3>2 DEF AlertInv, LastIsStored
    <3> QED
      BY <3>1, <3>2
  <2> HIDE DEF x
  <2>6. AlertShape'
    BY <1>1, <1>3, <1>5, <1>7, <2>1, <2>2 DEF AlertInv, AlertShape
  <2>7. TicketsAreOwned' /\ StaffIsInside'
    BY <1>1, <1>2, <1>3, <1>5, <1>7 DEF AlertInv, TicketsAreOwned, StaffIsInside
  <2>8. LastIsStored'
    <3>1. Window # 0 => clock # Mail!Never
      BY <2>1 DEF Mail!Never, AlertConstants
    <3>2. \A a \in attempts' : a.time <= clock'
      BY <1>1, <2>1, <2>2 DEF AlertInv, LastIsStored
    <3>3. ASSUME NEW a \in attempts, Window # 0
          PROVE  lastSent'[a.route] # Mail!Never /\ a.time <= lastSent'[a.route]
      BY <2>3, <2>4, <3>1, <3>2, <3>3 DEF AlertInv, LastIsStored
    <3>4. Window # 0 => lastSent'[new.route] # Mail!Never /\ new.time <= lastSent'[new.route]
      BY <2>1, <2>3, <3>1
    <3> QED
      BY <2>2, <3>2, <3>3, <3>4 DEF LastIsStored
  <2>9. Mail!AlertsAreSpaced'
    BY <2>2, <2>5 DEF AlertInv, Mail!AlertsAreSpaced
  <2> QED
    BY <2>6, <2>7, <2>8, <2>9 DEF AlertInv
<1> QED
  BY <1>6, <1>7 DEF Mail!Throttle

LEMMA NextAlert == ASSUME AlertConstants, AlertInv, [Mail!AlertsNext]_alertsVars PROVE AlertInv'
<1>1. CASE UNCHANGED alertsVars
  BY <1>1 DEF alertsVars, AlertInv, AlertShape, TicketsAreOwned, LastIsStored, StaffIsInside, Mail!AlertsAreSpaced
<1>2. CASE Mail!Clock
  <2>1. AlertShape' /\ clock \in Nat /\ clock' = clock + 1 /\ UNCHANGED <<platform, alert, request, lastSent, attempts>>
    BY <1>2 DEF Mail!Clock, Mail!sending, AlertInv, AlertShape, AlertConstants
  <2>2. \A a \in attempts : a.time \in Nat
    BY DEF AlertInv, AlertShape, Attempt
  <2>3. LastIsStored'
    BY <2>1, <2>2 DEF AlertInv, LastIsStored
  <2> QED
    BY <2>1, <2>3 DEF AlertInv, TicketsAreOwned, StaffIsInside, Mail!AlertsAreSpaced
<1> QED
  BY <1>1, <1>2, RequestSteps, MailSteps, ThrottleStep DEF Mail!AlertsNext

LEMMA AlertMoves == [Next]_vars => [Mail!AlertsNext]_alertsVars
  BY DEF Next, vars, OnlyFocus, alertsVars

\* The inductive invariant of requests and their alerts.
THEOREM AlertInvariant == Spec => []AlertInv
<1> USE PartConstants
<1>1. Init => AlertInv
  BY AlertStart DEF Init
<1>2. AlertInv /\ [Next]_vars => AlertInv'
  BY NextAlert, AlertMoves
<1> QED
  BY <1>1, <1>2, PTL DEF Spec

\* notifications.py: however many requests fail at once, the alerts about one kind of error on
\* one route are a window apart, and with a platform organization they go to it and to the
\* organization concerned only.
THEOREM AlertsReach == Spec => []AlertsReachTheirOwn
<1>1. AlertInv => AlertsReachTheirOwn
  BY DEF AlertInv, StaffIsInside, AlertsReachTheirOwn, Mail!MailsStayInside
<1> QED
  BY <1>1, AlertInvariant, PTL

-----------------------------------------------------------------------------
(* Prices.                                                                 *)

PriceCall ==
  [at : {"idle", "start", "fetch", "store", "got"}, force : BOOLEAN, now : 0..MaxCatalogClock,
   cached : Prices!List, got : Prices!List]

\* A list counts as made no later than the provider made it.
MadeBefore ==
  /\ cache.data # NoList => cache.at <= cache.data
  /\ \A c \in Call : /\ call[c].at = "fetch" => call[c].now <= catalogClock
                     /\ call[c].at = "store" => call[c].now <= call[c].got /\ call[c].got \in 0..MaxCatalogClock

PriceInv ==
  /\ catalogClock \in 0..MaxCatalogClock
  /\ cache \in [at : 0..MaxCatalogClock, data : Prices!List]
  /\ call \in [Call -> PriceCall]
  /\ MadeBefore

LEMMA PriceStart == ASSUME PriceConstants, Prices!CatalogInit PROVE PriceInv
  BY DEF PriceConstants, Prices!CatalogInit, PriceInv, MadeBefore, PriceCall, Prices!IdleCall, Prices!List

\* A call that goes on alone.
LEMMA CallStep ==
  ASSUME PriceInv, NEW c \in Call, NEW r \in PriceCall, call' = [call EXCEPT ![c] = r],
         UNCHANGED catalogClock, cache' \in [at : 0..MaxCatalogClock, data : Prices!List],
         cache'.data # NoList => cache'.at <= cache'.data,
         r.at = "fetch" => r.now <= catalogClock,
         r.at = "store" => r.now <= r.got /\ r.got \in 0..MaxCatalogClock
  PROVE  PriceInv'
  BY DEF PriceInv, MadeBefore

LEMMA NextPrice == ASSUME PriceConstants, PriceInv, [Prices!CatalogNext]_catalogVars PROVE PriceInv'
<1> USE DEF Prices!At
<1>1. CASE UNCHANGED catalogVars
  BY <1>1 DEF catalogVars, PriceInv, MadeBefore
<1>2. CASE Prices!Clock
  BY <1>2 DEF Prices!Clock, PriceInv, MadeBefore, PriceCall, PriceConstants
<1>3. ASSUME NEW c \in Call, Prices!Ask(c) \/ Prices!Refresh(c) \/ Prices!CallStep(c)
      PROVE  PriceInv'
  <2>1. /\ call[c] \in PriceCall /\ call \in [Call -> PriceCall] /\ catalogClock \in 0..MaxCatalogClock
        /\ cache \in [at : 0..MaxCatalogClock, data : Prices!List]
        /\ cache.data # NoList => cache.at <= cache.data
        /\ cache.data \in Prices!List
    BY DEF PriceInv, MadeBefore
  <2>2. ASSUME NEW force \in BOOLEAN, Prices!Begin(c, force)
        PROVE  PriceInv'
    <3> DEFINE r == [call[c] EXCEPT !.at = "start", !.force = force]
    <3>1. r \in PriceCall /\ r.at = "start"
      BY <2>1 DEF PriceCall
    <3>2. call' = [call EXCEPT ![c] = r] /\ UNCHANGED <<catalogClock, cache>>
      BY <2>1, <2>2 DEF Prices!Begin
    <3> HIDE DEF r
    <3> QED
      BY <2>1, <3>1, <3>2, CallStep
  <2>3. ASSUME NEW list \in Prices!List, Prices!Returns(c, list), UNCHANGED catalogClock,
               cache' \in [at : 0..MaxCatalogClock, data : Prices!List],
               cache'.data # NoList => cache'.at <= cache'.data
        PROVE  PriceInv'
    <3> DEFINE r == [call[c] EXCEPT !.at = "got", !.got = list, !.cached = NoList]
    <3>1. r \in PriceCall /\ r.at = "got"
      BY <2>1 DEF PriceCall, Prices!List
    <3>2. call' = [call EXCEPT ![c] = r]
      BY <2>1, <2>3 DEF Prices!Returns
    <3> HIDE DEF r
    <3> QED
      BY <2>3, <3>1, <3>2, CallStep
  <2>4. CASE Prices!Look(c)
    <3>1. CASE Prices!Returns(c, cache.data)
      BY <2>1, <2>3, <2>4, <3>1 DEF Prices!Look
    <3>2. CASE call' = [call EXCEPT ![c].at = "fetch", ![c].now = catalogClock, ![c].cached = cache.data]
      <4> DEFINE r == [call[c] EXCEPT !.at = "fetch", !.now = catalogClock, !.cached = cache.data]
      <4>1. r \in PriceCall /\ r.at = "fetch" /\ r.now = catalogClock
        BY <2>1 DEF PriceCall
      <4>2. call' = [call EXCEPT ![c] = r] /\ UNCHANGED <<catalogClock, cache>>
        BY <2>1, <2>4, <3>2 DEF Prices!Look
      <4>3. r.now <= catalogClock
        BY <2>1, <4>1 DEF PriceConstants
      <4> HIDE DEF r
      <4> QED
        BY <2>1, <4>1, <4>2, <4>3, CallStep
    <3> QED
      BY <2>4, <3>1, <3>2 DEF Prices!Look
  <2>5. CASE Prices!Provider(c)
    <3> DEFINE r == [call[c] EXCEPT !.at = "store", !.got = catalogClock]
    <3>1. r \in PriceCall /\ r.at = "store" /\ r.got = catalogClock /\ r.now = call[c].now
      BY <2>1 DEF PriceCall, Prices!List
    <3>2. call' = [call EXCEPT ![c] = r] /\ UNCHANGED <<catalogClock, cache>> /\ call[c].now <= catalogClock
      BY <2>1, <2>5 DEF Prices!Provider, PriceInv, MadeBefore
    <3> HIDE DEF r
    <3> QED
      BY <2>1, <3>1, <3>2, CallStep
  <2>6. CASE Prices!Fail(c)
    BY <2>1, <2>3, <2>6 DEF Prices!Fail, PriceCall
  <2>7. CASE Prices!Store(c)
    <3>1. /\ call[c].got \in Prices!List /\ call[c].now \in 0..MaxCatalogClock /\ call[c].now <= call[c].got
      BY <2>1, <2>7 DEF Prices!Store, PriceInv, MadeBefore, PriceCall
    <3> QED
      BY <2>3, <2>7, <3>1 DEF Prices!Store
  <2>8. CASE Prices!Use(c)
    <3>1. Prices!IdleCall \in PriceCall /\ Prices!IdleCall.at = "idle"
      BY DEF Prices!IdleCall, PriceCall, Prices!List, PriceConstants
    <3> QED
      BY <2>1, <2>8, <3>1, CallStep DEF Prices!Use
  <2> QED
    BY <1>3, <2>2, <2>4, <2>5, <2>6, <2>7, <2>8 DEF Prices!Ask, Prices!Refresh, Prices!CallStep
<1> QED
  BY <1>1, <1>2, <1>3 DEF Prices!CatalogNext

LEMMA PriceMoves == [Next]_vars => [Prices!CatalogNext]_catalogVars
  BY DEF Next, vars, OnlyFocus, catalogVars

LEMMA PriceInvariant == Spec => []PriceInv
<1> USE PartConstants
<1>1. Init => PriceInv
  BY PriceStart DEF Init
<1>2. PriceInv /\ [Next]_vars => PriceInv'
  BY NextPrice, PriceMoves
<1> QED
  BY <1>1, <1>2, PTL DEF Spec

LEMMA PricesAreFresh == ASSUME PriceConstants, PriceInv PROVE Prices!ServedFresh /\ Prices!CatalogTypeOK
<1>1. Prices!ServedFresh
  BY DEF PriceConstants, PriceInv, MadeBefore, Prices!List, Prices!Fresh, Prices!ServedFresh
<1>2. Prices!CatalogTypeOK
  BY DEF PriceInv, PriceCall, Prices!CatalogTypeOK
<1> QED
  BY <1>1, <1>2

-----------------------------------------------------------------------------
(* Embeddings.                                                             *)

ChunkRow == [text : Text, vector : Text \cup {NoVector}]
IngestWork ==
  [at : {"idle", "push", "queued", "parse", "mark", "embed", "over"}, reindex : BOOLEAN, begun : BOOLEAN,
   lines : Seq(Chunk \X Text), batch : SUBSET (Chunk \X Text)]

IngestShape ==
  /\ chunk \in [Chunk -> {Absent} \cup ChunkRow]
  /\ status \in [Job -> Ingest!Statuses]
  /\ queue \in Seq(Job)
  /\ work \in [Job -> IngestWork]

\* A job is in the queue once, and only while it waits.
QueueWaits ==
  /\ \A i \in 1..Len(queue) : work[queue[i]].at = "queued"
  /\ \A i, j \in 1..Len(queue) : queue[i] = queue[j] => i = j

StatusFollows ==
  \A j \in Job : /\ status[j] = Ingest!NoRow <=> work[j].at = "idle"
                 /\ IsFiniteSet(work[j].batch) /\ Cardinality(work[j].batch) <= BatchSize
                 /\ work[j].batch # {} => work[j].at = "embed"

\* Until two jobs overlap one is at work, and its batch holds the texts of the chunks.
AloneAtWork ==
  ~overlap =>
    /\ \A i, j \in Ingest!Busy : i = j
    /\ \A j \in Job : \A t \in work[j].batch : chunk[t[1]] # Absent /\ chunk[t[1]].text = t[2]

IngestInv == IngestShape /\ QueueWaits /\ StatusFollows /\ AloneAtWork /\ Ingest!VectorsAreCurrent

LEMMA CountedAlike == ASSUME NEW S PROVE Ingest!Cardinality(S) = Cardinality(S)
  BY DEF Ingest!Cardinality, Cardinality

LEMMA IdleWork ==
  /\ Ingest!Idle \in IngestWork /\ Ingest!Idle.at = "idle" /\ Ingest!Idle.batch = {}
  /\ Ingest!Over \in IngestWork /\ Ingest!Over.at = "over" /\ Ingest!Over.batch = {}
<1>1. <<>> \in Seq(Chunk \X Text)
  OBVIOUS
<1> QED
  BY <1>1 DEF Ingest!Idle, Ingest!Over, IngestWork

LEMMA IngestStart == ASSUME IngestConstants, Ingest!IngestInit PROVE IngestInv
<1> USE DEF Ingest!IngestInit, IngestConstants
<1>1. IngestShape
  BY IdleWork DEF IngestShape, Ingest!Statuses, Ingest!NoRow
<1>2. QueueWaits
  BY DEF QueueWaits
<1>3. StatusFollows
  <2>1. IsFiniteSet({}) /\ Cardinality({}) <= BatchSize
    BY FS_EmptySet
  <2>2. \A j \in Job : work[j] = Ingest!Idle /\ status[j] = Ingest!NoRow
    OBVIOUS
  <2> QED
    BY <2>1, <2>2, IdleWork DEF StatusFollows
<1>4. AloneAtWork
  BY IdleWork DEF AloneAtWork, Ingest!Busy
<1>5. Ingest!VectorsAreCurrent
  BY DEF Ingest!VectorsAreCurrent, Ingest!Searchable
<1> QED
  BY <1>1, <1>2, <1>3, <1>4, <1>5 DEF IngestInv

AtWork == {"parse", "mark", "embed"}

\* What a step makes of its job.
Turned(j, w, s) ==
  /\ work' = [work EXCEPT ![j] = w] /\ status' = [status EXCEPT ![j] = s]
  /\ s = Ingest!NoRow <=> w.at = "idle"
  /\ IsFiniteSet(w.batch) /\ Cardinality(w.batch) <= BatchSize /\ (w.batch # {} => w.at = "embed")

LEMMA TurnedJob ==
  ASSUME IngestInv, NEW j \in Job, NEW w \in IngestWork, NEW s \in Ingest!Statuses, Turned(j, w, s)
  PROVE  /\ work'[j] = w /\ work' \in [Job -> IngestWork] /\ \A i \in Job \ {j} : work'[i] = work[i]
         /\ status' \in [Job -> Ingest!Statuses]
         /\ StatusFollows'
<1>1. /\ work'[j] = w /\ work' \in [Job -> IngestWork] /\ \A i \in Job \ {j} : work'[i] = work[i]
      /\ status'[j] = s /\ status' \in [Job -> Ingest!Statuses] /\ \A i \in Job \ {j} : status'[i] = status[i]
  BY DEF IngestInv, IngestShape, Turned
<1>2. StatusFollows'
  BY <1>1 DEF IngestInv, StatusFollows, Turned
<1> QED
  BY <1>1, <1>2

\* A step of one job that leaves the corpus alone.
LEMMA CorpusKept ==
  ASSUME IngestInv, NEW j \in Job, NEW w \in IngestWork, NEW s \in Ingest!Statuses, Turned(j, w, s),
         queue' \in Seq(Job), QueueWaits', UNCHANGED chunk, ~overlap' => ~overlap,
         ~overlap' /\ w.at \in AtWork => Ingest!Busy \subseteq {j},
         ~overlap' => \A t \in w.batch : chunk[t[1]] # Absent /\ chunk[t[1]].text = t[2]
  PROVE  IngestInv'
<1>1. /\ work'[j] = w /\ work' \in [Job -> IngestWork] /\ \A i \in Job \ {j} : work'[i] = work[i]
      /\ status' \in [Job -> Ingest!Statuses] /\ StatusFollows'
  BY TurnedJob
<1>2. IngestShape'
  BY <1>1 DEF IngestInv, IngestShape
<1>3. AloneAtWork'
  <2>1. Ingest!Busy' \subseteq Ingest!Busy \cup {j} /\ (w.at \notin AtWork => j \notin Ingest!Busy')
    BY <1>1 DEF Ingest!Busy, AtWork
  <2>2. ~overlap' => \A i, k \in Ingest!Busy' : i = k
    BY <2>1 DEF IngestInv, AloneAtWork
  <2>3. ~overlap' => \A i \in Job : \A t \in work'[i].batch : chunk'[t[1]] # Absent /\ chunk'[t[1]].text = t[2]
    BY <1>1 DEF IngestInv, AloneAtWork
  <2> QED
    BY <2>2, <2>3 DEF AloneAtWork
<1>4. Ingest!VectorsAreCurrent'
  BY DEF IngestInv, Ingest!VectorsAreCurrent, Ingest!Searchable
<1> QED
  BY <1>1, <1>2, <1>3, <1>4 DEF IngestInv

\* A job that is at work is in no queue.
LEMMA QueueKept ==
  ASSUME IngestInv, NEW j \in Job, work[j].at # "queued", UNCHANGED queue,
         \A i \in Job \ {j} : work'[i] = work[i]
  PROVE  queue' \in Seq(Job) /\ QueueWaits'
<1>1. \A i \in 1..Len(queue) : queue[i] \in Job /\ queue[i] # j
  BY DEF IngestInv, IngestShape, QueueWaits
<1> QED
  BY <1>1 DEF IngestInv, IngestShape, QueueWaits

LEMMA EmptyBatch == ASSUME IngestConstants PROVE IsFiniteSet({}) /\ Cardinality({}) <= BatchSize
  BY FS_EmptySet DEF IngestConstants

LEMMA AskSteps ==
  ASSUME IngestConstants, IngestInv, NEW j \in Job, Ingest!Ingest(j) \/ Ingest!Reindex(j)
  PROVE  IngestInv'
<1>1. PICK reindex \in BOOLEAN : Ingest!Ask(j, reindex)
  BY DEF Ingest!Ingest, Ingest!Reindex
<1>2. PICK lines \in Ingest!Lines :
        work' = [work EXCEPT ![j] = [Ingest!Idle EXCEPT !.reindex = reindex, !.lines = lines, !.at = "push"]]
  BY <1>1 DEF Ingest!Ask
<1> DEFINE w == [Ingest!Idle EXCEPT !.reindex = reindex, !.lines = lines, !.at = "push"]
<1>3. lines \in Seq(Chunk \X Text)
  BY <1>2 DEF Ingest!Lines, IngestConstants
<1>4. w \in IngestWork /\ w.at = "push" /\ w.batch = {}
  BY <1>3 DEF Ingest!Idle, IngestWork
<1>5. work' = [work EXCEPT ![j] = w] /\ status' = [status EXCEPT ![j] = "QUEUED"]
  BY <1>1, <1>2 DEF Ingest!Ask
<1>6. /\ work[j].at = "idle" /\ UNCHANGED <<chunk, queue, overlap>>
  BY <1>1 DEF Ingest!Ask, Ingest!At
<1> HIDE DEF w
<1>7. Turned(j, w, "QUEUED") /\ "QUEUED" \in Ingest!Statuses
  BY <1>4, <1>5, EmptyBatch DEF Turned, Ingest!NoRow, Ingest!Statuses
<1>8. queue' \in Seq(Job) /\ QueueWaits'
  BY <1>4, <1>6, <1>7, TurnedJob, QueueKept
<1> QED
  BY <1>4, <1>6, <1>7, <1>8, CorpusKept DEF AtWork

\* A job goes on without a change of the corpus or the queue.
LEMMA JobSteps ==
  ASSUME IngestConstants, IngestInv, NEW j \in Job,
         Ingest!Inline(j) \/ Ingest!Mark(j) \/ Ingest!Fetch(j) \/ Ingest!Complete(j) \/ Ingest!Fails(j)
  PROVE  IngestInv'
<1> USE DEF Ingest!At
<1>1. /\ work[j] \in IngestWork /\ work \in [Job -> IngestWork]
      /\ status \in [Job -> Ingest!Statuses] /\ status[j] \in Ingest!Statuses
      /\ IsFiniteSet(work[j].batch) /\ Cardinality(work[j].batch) <= BatchSize
      /\ work[j].batch # {} => work[j].at = "embed"
      /\ status[j] = Ingest!NoRow <=> work[j].at = "idle"
  BY DEF IngestInv, IngestShape, StatusFollows
<1>2. ASSUME work[j].at # "queued", UNCHANGED queue, NEW w \in IngestWork, NEW s \in Ingest!Statuses, Turned(j, w, s)
      PROVE  queue' \in Seq(Job) /\ QueueWaits'
  BY <1>2, TurnedJob, QueueKept
<1>3. ~overlap /\ work[j].at \in AtWork => Ingest!Busy \subseteq {j}
  BY DEF IngestInv, AloneAtWork, Ingest!Busy, AtWork
<1>4. CASE Ingest!Inline(j)
  <2> DEFINE w == [work[j] EXCEPT !.at = "parse"]
  <2>1. work[j].at = "push" /\ w \in IngestWork /\ w.at = "parse" /\ w.batch = work[j].batch
    BY <1>1, <1>4 DEF IngestWork, Ingest!Inline
  <2>2. work' = [work EXCEPT ![j] = w] /\ status' = [status EXCEPT ![j] = status[j]]
    BY <1>1, <1>4 DEF Ingest!Inline, Ingest!Start
  <2>3. w.batch = {}
    BY <1>1, <2>1
  <2> HIDE DEF w
  <2>4. Turned(j, w, status[j])
    BY <1>1, <2>1, <2>2, <2>3, EmptyBatch DEF Turned
  <2>5. UNCHANGED <<chunk, queue>> /\ overlap' = (overlap \/ Ingest!Busy # {})
    BY <1>4 DEF Ingest!Inline, Ingest!Start
  <2> QED
    BY <1>1, <1>2, <2>1, <2>3, <2>4, <2>5, CorpusKept
<1>5. CASE Ingest!Mark(j)
  <2> DEFINE w == [work[j] EXCEPT !.at = "embed"]
  <2>1. work[j].at = "mark" /\ w \in IngestWork /\ w.at = "embed" /\ w.batch = work[j].batch
    BY <1>1, <1>5 DEF IngestWork, Ingest!Mark
  <2>2. work' = [work EXCEPT ![j] = w] /\ status' = [status EXCEPT ![j] = "EMBEDDING"]
    BY <1>1, <1>5 DEF Ingest!Mark
  <2> HIDE DEF w
  <2>3. Turned(j, w, "EMBEDDING") /\ "EMBEDDING" \in Ingest!Statuses /\ w.batch = {}
    BY <1>1, <2>1, <2>2, EmptyBatch DEF Turned, Ingest!NoRow, Ingest!Statuses
  <2>4. UNCHANGED <<chunk, queue, overlap>>
    BY <1>5 DEF Ingest!Mark
  <2> QED
    BY <1>2, <1>3, <2>1, <2>3, <2>4, CorpusKept DEF AtWork
<1>6. CASE Ingest!Fetch(j)
  <2>1. PICK cs \in SUBSET Ingest!Missing :
          /\ Ingest!Cardinality(cs) = IF Ingest!Cardinality(Ingest!Missing) < BatchSize
                                      THEN Ingest!Cardinality(Ingest!Missing) ELSE BatchSize
          /\ work' = [work EXCEPT ![j].batch = {<<c, chunk[c].text>> : c \in cs}]
    BY <1>6 DEF Ingest!Fetch
  <2> DEFINE batch == {<<c, chunk[c].text>> : c \in cs}
             w == [work[j] EXCEPT !.batch = batch]
  <2>2. \A c \in cs : c \in Chunk /\ chunk[c] # Absent /\ chunk[c].text \in Text
    BY <2>1 DEF Ingest!Missing, IngestInv, IngestShape, ChunkRow
  <2>3. IsFiniteSet(cs) /\ Cardinality(cs) \in Nat /\ Cardinality(cs) <= BatchSize
    <3>1. IsFiniteSet(Ingest!Missing)
      BY FS_Subset DEF Ingest!Missing, IngestConstants
    <3>2. IsFiniteSet(cs)
      BY <2>1, <3>1, FS_Subset
    <3>3. Cardinality(Ingest!Missing) \in Nat /\ Cardinality(cs) \in Nat
      BY <3>1, <3>2, FS_CardinalityType
    <3> QED
      BY <2>1, <3>2, <3>3, CountedAlike DEF IngestConstants
  <2>4. IsFiniteSet(batch) /\ Cardinality(batch) <= BatchSize
    <3> DEFINE f == [c \in cs |-> <<c, chunk[c].text>>]
    <3>1. f \in Surjection(cs, batch)
      BY DEF Surjection
    <3>2. IsFiniteSet(batch) /\ Cardinality(batch) <= Cardinality(cs)
      BY <2>3, <3>1, FS_Surjection
    <3>3. Cardinality(batch) \in Nat
      BY <3>2, FS_CardinalityType
    <3> QED
      BY <2>3, <3>2, <3>3 DEF IngestConstants
  <2>5. \A t \in batch : t \in Chunk \X Text /\ chunk[t[1]] # Absent /\ chunk[t[1]].text = t[2]
    BY <2>2
  <2> HIDE DEF batch
  <2>6. w \in IngestWork /\ w.at = "embed" /\ w.batch = batch /\ work[j].at = "embed"
    BY <1>1, <1>6, <2>5 DEF IngestWork, Ingest!Fetch
  <2>7. work' = [work EXCEPT ![j] = w] /\ status' = [status EXCEPT ![j] = status[j]]
    BY <1>1, <1>6, <2>1 DEF Ingest!Fetch, batch
  <2> HIDE DEF w
  <2>8. Turned(j, w, status[j])
    BY <1>1, <2>4, <2>6, <2>7 DEF Turned
  <2>9. UNCHANGED <<chunk, queue, overlap>>
    BY <1>6 DEF Ingest!Fetch
  <2> QED
    BY <1>1, <1>2, <1>3, <2>5, <2>6, <2>8, <2>9, CorpusKept DEF AtWork
<1>7. CASE Ingest!Complete(j) \/ Ingest!Fails(j)
  <2>1. PICK s \in Ingest!Statuses : s # Ingest!NoRow /\ status' = [status EXCEPT ![j] = s]
    BY <1>1, <1>7 DEF Ingest!Complete, Ingest!Fails, Ingest!Busy, Ingest!NoRow, Ingest!Statuses
  <2>2. work[j].at \in AtWork /\ work' = [work EXCEPT ![j] = Ingest!Over] /\ UNCHANGED <<chunk, queue, overlap>>
    BY <1>7 DEF Ingest!Complete, Ingest!Fails, Ingest!Busy, AtWork
  <2>3. Turned(j, Ingest!Over, s)
    BY <2>1, <2>2, IdleWork, EmptyBatch DEF Turned
  <2> QED
    BY <1>2, <2>2, <2>3, IdleWork, CorpusKept DEF AtWork
<1> QED
  BY <1>4, <1>5, <1>6, <1>7

\* A step of a job that changes the corpus: until jobs overlap no other has a batch.
LEMMA CorpusChanged ==
  ASSUME IngestConstants, IngestInv, NEW j \in Job, NEW w \in IngestWork, NEW s \in Ingest!Statuses,
         Turned(j, w, s), work[j].at \in AtWork, w.batch = {}, w.at \in AtWork,
         chunk' \in [Chunk -> {Absent} \cup ChunkRow], UNCHANGED <<queue, overlap>>,
         Ingest!VectorsAreCurrent'
  PROVE  IngestInv'
<1>1. /\ work'[j] = w /\ work' \in [Job -> IngestWork] /\ \A i \in Job \ {j} : work'[i] = work[i]
      /\ status' \in [Job -> Ingest!Statuses] /\ StatusFollows'
  BY TurnedJob
<1>2. queue' \in Seq(Job) /\ QueueWaits'
  BY <1>1, QueueKept DEF AtWork
<1>3. IngestShape'
  BY <1>1, <1>2 DEF IngestShape
<1>4. Ingest!Busy' \subseteq Ingest!Busy
  BY <1>1 DEF Ingest!Busy, AtWork
<1>5. ~overlap => \A i \in Job \ {j} : work[i].batch = {}
  BY DEF IngestInv, AloneAtWork, StatusFollows, Ingest!Busy, AtWork
<1>6. AloneAtWork'
  BY <1>1, <1>4, <1>5 DEF IngestInv, AloneAtWork
<1> QED
  BY <1>1, <1>2, <1>3, <1>6 DEF IngestInv

LEMMA ParseSteps ==
  ASSUME IngestConstants, IngestInv, NEW j \in Job, Ingest!ParseLine(j)
  PROVE  IngestInv'
<1>1. /\ work[j] \in IngestWork /\ work \in [Job -> IngestWork] /\ work[j].batch = {}
      /\ chunk \in [Chunk -> {Absent} \cup ChunkRow] /\ work[j].at = "parse"
      /\ work[j].lines \in Seq(Chunk \X Text) /\ work[j].lines # <<>>
      /\ UNCHANGED <<queue, overlap>> /\ status' = [status EXCEPT ![j] = "RUNNING"]
  BY DEF IngestInv, IngestShape, StatusFollows, Ingest!ParseLine, Ingest!At, IngestWork
<1> DEFINE w == [work[j] EXCEPT !.lines = Tail(@), !.begun = TRUE,
                                !.at = IF Len(work[j].lines) = 1 THEN "mark" ELSE "parse"]
           rows == IF work[j].reindex /\ ~work[j].begun THEN Ingest!Emptied ELSE chunk
           line == Head(work[j].lines)
<1>2. line \in Chunk \X Text /\ Tail(work[j].lines) \in Seq(Chunk \X Text)
  BY <1>1
<1>3. w \in IngestWork /\ w.at \in AtWork /\ w.batch = {} /\ w.at # "idle"
  BY <1>1, <1>2 DEF IngestWork, AtWork
<1>4. work' = [work EXCEPT ![j] = w]
  BY <1>1 DEF Ingest!ParseLine
<1>5. chunk' = Ingest!Merge(rows, line[1], line[2])
  BY DEF Ingest!ParseLine
<1>6. /\ rows \in [Chunk -> {Absent} \cup ChunkRow]
      /\ \A c \in Chunk : rows[c] # Absent => rows[c] = chunk[c]
  BY <1>1 DEF Ingest!Emptied
<1> HIDE DEF w, rows
<1> DEFINE row == [text |-> line[2],
                   vector |-> IF rows[line[1]] # Absent /\ rows[line[1]].text = line[2]
                              THEN rows[line[1]].vector ELSE NoVector]
<1>7. line[1] \in Chunk /\ line[2] \in Text
  BY <1>2
<1>8. row \in ChunkRow
  BY <1>6, <1>7 DEF ChunkRow
<1>9. chunk' = [rows EXCEPT ![line[1]] = row]
  BY <1>5 DEF Ingest!Merge
<1>10. chunk' \in [Chunk -> {Absent} \cup ChunkRow]
  BY <1>6, <1>7, <1>8, <1>9
<1>11. Ingest!VectorsAreCurrent'
  <2> SUFFICES ASSUME ~overlap', NEW c \in Chunk, chunk'[c] # Absent, chunk'[c].vector # NoVector
               PROVE  chunk'[c].vector = chunk'[c].text
    BY DEF Ingest!VectorsAreCurrent, Ingest!Searchable
  <2>1. ~overlap
    BY <1>1
  <2>2. CASE c = line[1]
    <3>1. chunk'[c] = row
      BY <1>6, <1>7, <1>9, <2>2
    <3>2. rows[c] # Absent /\ rows[c].text = line[2] /\ row.vector = rows[c].vector
      BY <2>2, <3>1
    <3>3. rows[c] = chunk[c] /\ chunk[c].vector = chunk[c].text
      BY <1>6, <2>1, <3>1, <3>2 DEF IngestInv, Ingest!VectorsAreCurrent, Ingest!Searchable
    <3> QED
      BY <3>1, <3>2, <3>3
  <2>3. CASE c # line[1]
    <3>1. chunk'[c] = rows[c] /\ rows[c] = chunk[c]
      BY <1>6, <1>9, <2>3
    <3> QED
      BY <2>1, <3>1 DEF IngestInv, Ingest!VectorsAreCurrent, Ingest!Searchable
  <2> QED
    BY <2>2, <2>3
<1>12. Turned(j, w, "RUNNING") /\ "RUNNING" \in Ingest!Statuses
  BY <1>1, <1>3, <1>4, EmptyBatch DEF Turned, Ingest!NoRow, Ingest!Statuses
<1> QED
  BY <1>1, <1>3, <1>10, <1>11, <1>12, CorpusChanged DEF AtWork

LEMMA VectorSteps ==
  ASSUME IngestConstants, IngestInv, NEW j \in Job, Ingest!Vectors(j)
  PROVE  IngestInv'
<1>1. /\ work[j] \in IngestWork /\ work \in [Job -> IngestWork] /\ status[j] \in Ingest!Statuses
      /\ chunk \in [Chunk -> {Absent} \cup ChunkRow] /\ work[j].at = "embed"
      /\ status \in [Job -> Ingest!Statuses] /\ status[j] # Ingest!NoRow
      /\ UNCHANGED <<status, queue, overlap>>
      /\ chunk' = [c \in Chunk |-> Ingest!Embedded(c, work[j].batch)]
      /\ work[j].batch \subseteq Chunk \X Text
  BY DEF IngestInv, IngestShape, StatusFollows, Ingest!Vectors, Ingest!At, IngestWork
<1> DEFINE w == [work[j] EXCEPT !.batch = {}]
<1>2. w \in IngestWork /\ w.at = "embed" /\ w.batch = {}
  BY <1>1 DEF IngestWork
<1>3. work' = [work EXCEPT ![j] = w] /\ status' = [status EXCEPT ![j] = status[j]]
  BY <1>1 DEF Ingest!Vectors
<1> HIDE DEF w
<1>4. Turned(j, w, status[j])
  BY <1>1, <1>2, <1>3, EmptyBatch DEF Turned
<1>5. ASSUME NEW c \in Chunk
      PROVE  \/ Ingest!Embedded(c, work[j].batch) = chunk[c]
             \/ \E t \in work[j].batch :
                  /\ t[1] = c /\ chunk[c] # Absent
                  /\ Ingest!Embedded(c, work[j].batch) = [chunk[c] EXCEPT !.vector = t[2]]
  BY DEF Ingest!Embedded
<1>6. ASSUME NEW c \in Chunk
      PROVE  /\ chunk'[c] \in {Absent} \cup ChunkRow
             /\ ~overlap /\ chunk'[c] # Absent /\ chunk'[c].vector # NoVector => chunk'[c].vector = chunk'[c].text
  <2>1. chunk'[c] = Ingest!Embedded(c, work[j].batch)
    BY <1>1
  <2>2. CASE chunk'[c] = chunk[c]
    BY <1>1, <2>2 DEF IngestInv, Ingest!VectorsAreCurrent, Ingest!Searchable
  <2>3. ASSUME NEW t \in work[j].batch, t[1] = c, chunk[c] # Absent, chunk'[c] = [chunk[c] EXCEPT !.vector = t[2]]
        PROVE  /\ chunk'[c] \in {Absent} \cup ChunkRow
               /\ ~overlap /\ chunk'[c] # Absent /\ chunk'[c].vector # NoVector => chunk'[c].vector = chunk'[c].text
    <3>1. chunk[c] \in ChunkRow /\ t[2] \in Text
      BY <1>1, <2>3
    <3>2. chunk'[c] \in ChunkRow /\ chunk'[c].vector = t[2] /\ chunk'[c].text = chunk[c].text
      BY <2>3, <3>1 DEF ChunkRow
    <3>3. ~overlap => chunk[c].text = t[2]
      BY <2>3 DEF IngestInv, AloneAtWork
    <3> QED
      BY <3>2, <3>3
  <2>4. CASE chunk'[c] # chunk[c]
    <3>1. PICK t \in work[j].batch :
            t[1] = c /\ chunk[c] # Absent /\ Ingest!Embedded(c, work[j].batch) = [chunk[c] EXCEPT !.vector = t[2]]
      BY <1>5, <2>1, <2>4
    <3>2. chunk'[c] = [chunk[c] EXCEPT !.vector = t[2]]
      BY <2>1, <3>1, Zenon
    <3> QED
      BY <2>3, <3>1, <3>2
  <2> QED
    BY <2>2, <2>4
<1>7. chunk' \in [Chunk -> {Absent} \cup ChunkRow]
  BY <1>1, <1>6
<1>8. Ingest!VectorsAreCurrent'
  BY <1>1, <1>6 DEF Ingest!VectorsAreCurrent, Ingest!Searchable
<1> QED
  BY <1>1, <1>2, <1>4, <1>7, <1>8, CorpusChanged DEF AtWork

LEMMA PushSteps ==
  ASSUME IngestConstants, IngestInv, NEW j \in Job, Ingest!Push(j)
  PROVE  IngestInv'
<1>1. /\ work[j] \in IngestWork /\ work \in [Job -> IngestWork] /\ status[j] \in Ingest!Statuses
      /\ queue \in Seq(Job) /\ status \in [Job -> Ingest!Statuses] /\ status[j] # Ingest!NoRow
      /\ work[j].at = "push" /\ work[j].batch = {}
      /\ UNCHANGED <<chunk, status, overlap>> /\ status' = [status EXCEPT ![j] = status[j]]
  BY DEF IngestInv, IngestShape, StatusFollows, Ingest!Push, Ingest!At
<1>2. CASE work' = [work EXCEPT ![j] = Ingest!Over] /\ UNCHANGED queue
  <2>1. Turned(j, Ingest!Over, status[j])
    BY <1>1, <1>2, IdleWork, EmptyBatch DEF Turned
  <2>2. queue' \in Seq(Job) /\ QueueWaits'
    BY <1>1, <1>2, <2>1, IdleWork, TurnedJob, QueueKept
  <2> QED
    BY <1>1, <2>1, <2>2, IdleWork, CorpusKept DEF AtWork
<1>3. CASE queue' = Append(queue, j) /\ work' = [work EXCEPT ![j].at = "queued"]
  <2> DEFINE w == [work[j] EXCEPT !.at = "queued"]
  <2>1. w \in IngestWork /\ w.at = "queued" /\ w.batch = {}
    BY <1>1 DEF IngestWork
  <2>2. work' = [work EXCEPT ![j] = w]
    BY <1>1, <1>3
  <2> HIDE DEF w
  <2>3. Turned(j, w, status[j])
    BY <1>1, <2>1, <2>2, EmptyBatch DEF Turned
  <2>4. /\ queue' \in Seq(Job) /\ Len(queue') = Len(queue) + 1 /\ Len(queue) \in Nat
        /\ queue'[Len(queue) + 1] = j /\ \A i \in 1..Len(queue) : queue'[i] = queue[i]
    BY <1>1, <1>3
  <2>5. \A i \in 1..Len(queue) : queue[i] \in Job /\ queue[i] # j /\ work[queue[i]].at = "queued"
    BY <1>1 DEF IngestInv, QueueWaits
  <2>6. \A i \in 1..(Len(queue) + 1) : i = Len(queue) + 1 \/ i \in 1..Len(queue)
    BY <2>4
  <2>7. work'[j] = w /\ \A i \in Job \ {j} : work'[i] = work[i]
    BY <1>1, <2>1, <2>3, TurnedJob
  <2>8. \A i \in 1..Len(queue') : work'[queue'[i]].at = "queued"
    BY <2>1, <2>4, <2>5, <2>6, <2>7
  <2>9. \A i, k \in 1..Len(queue') : queue'[i] = queue'[k] => i = k
    BY <2>4, <2>5, <2>6 DEF IngestInv, QueueWaits
  <2> QED
    BY <1>1, <2>1, <2>3, <2>4, <2>8, <2>9, CorpusKept DEF AtWork, QueueWaits
<1> QED
  BY <1>2, <1>3 DEF Ingest!Push

LEMMA PopSteps == ASSUME IngestConstants, IngestInv, Ingest!Pop PROVE IngestInv'
<1> DEFINE j == Head(queue)
<1>1. /\ queue \in Seq(Job) /\ queue # <<>> /\ queue' = Tail(queue) /\ UNCHANGED <<chunk, status>>
      /\ Ingest!Start(j) /\ work \in [Job -> IngestWork] /\ status \in [Job -> Ingest!Statuses]
  BY DEF Ingest!Pop, IngestInv, IngestShape
<1>2. j \in Job /\ j = queue[1] /\ 1 \in 1..Len(queue) /\ Len(queue) \in Nat
  BY <1>1
<1>3. /\ queue' \in Seq(Job) /\ Len(queue') = Len(queue) - 1
      /\ \A i \in 1..Len(queue') : queue'[i] = queue[i + 1] /\ i + 1 \in 1..Len(queue)
  BY <1>1, <1>2
<1> HIDE DEF j
<1>4. work[j].at = "queued"
  BY <1>2 DEF IngestInv, QueueWaits
<1>5. /\ work[j] \in IngestWork /\ status[j] \in Ingest!Statuses /\ status[j] # Ingest!NoRow
      /\ work[j].batch = {} /\ status' = [status EXCEPT ![j] = status[j]]
  BY <1>1, <1>2, <1>4 DEF IngestInv, StatusFollows
<1> DEFINE w == [work[j] EXCEPT !.at = "parse"]
<1>6. w \in IngestWork /\ w.at = "parse" /\ w.batch = {}
  BY <1>5 DEF IngestWork
<1>7. work' = [work EXCEPT ![j] = w] /\ overlap' = (overlap \/ Ingest!Busy # {})
  BY <1>1 DEF Ingest!Start
<1> HIDE DEF w
<1>8. Turned(j, w, status[j])
  BY <1>5, <1>6, <1>7, EmptyBatch DEF Turned
<1>9. work'[j] = w /\ \A i \in Job \ {j} : work'[i] = work[i]
  BY <1>2, <1>5, <1>6, <1>8, TurnedJob
<1>10. \A i \in 1..Len(queue') : queue'[i] \in Job /\ queue'[i] # j /\ work[queue'[i]].at = "queued"
  <2> SUFFICES ASSUME NEW i \in 1..Len(queue')
               PROVE  queue'[i] \in Job /\ queue'[i] # j /\ work[queue'[i]].at = "queued"
    OBVIOUS
  <2>1. queue'[i] = queue[i + 1] /\ i + 1 \in 1..Len(queue) /\ i + 1 # 1
    BY <1>2, <1>3
  <2> QED
    BY <1>1, <1>2, <2>1 DEF IngestInv, QueueWaits
<1>11. \A i, k \in 1..Len(queue') : queue'[i] = queue'[k] => i = k
  <2> SUFFICES ASSUME NEW i \in 1..Len(queue'), NEW k \in 1..Len(queue'), queue'[i] = queue'[k] PROVE i = k
    OBVIOUS
  <2>1. queue[i + 1] = queue[k + 1] /\ i + 1 \in 1..Len(queue) /\ k + 1 \in 1..Len(queue)
    BY <1>3
  <2>2. i + 1 = k + 1
    BY <2>1 DEF IngestInv, QueueWaits
  <2> QED
    BY <1>2, <1>3, <2>2
<1>12. QueueWaits'
  BY <1>9, <1>10, <1>11 DEF QueueWaits
<1>13. ~overlap' => Ingest!Busy \subseteq {j}
  BY <1>7
<1> QED
  BY <1>1, <1>2, <1>3, <1>5, <1>6, <1>7, <1>8, <1>12, <1>13, CorpusKept

LEMMA IngestStep == ASSUME IngestConstants, IngestInv, [Ingest!IngestNext]_ingestVars PROVE IngestInv'
<1>1. CASE UNCHANGED ingestVars
  BY <1>1 DEF ingestVars, IngestInv, IngestShape, QueueWaits, StatusFollows, AloneAtWork, Ingest!Busy,
              Ingest!VectorsAreCurrent, Ingest!Searchable
<1>2. CASE Ingest!Pop
  BY <1>2, PopSteps
<1>3. ASSUME NEW j \in Job, Ingest!Ingest(j) \/ Ingest!Reindex(j) \/ Ingest!Push(j) \/ Ingest!Inline(j)
                            \/ Ingest!JobStep(j) \/ Ingest!Fails(j)
      PROVE  IngestInv'
  BY <1>3, AskSteps, PushSteps, JobSteps, ParseSteps, VectorSteps DEF Ingest!JobStep
<1> QED
  BY <1>1, <1>2, <1>3 DEF Ingest!IngestNext

LEMMA IngestMoves == ASSUME [Next]_vars PROVE [Ingest!IngestNext]_ingestVars
  BY DEF Next, vars, OnlyFocus, ingestVars

\* The jobs' invariant: until two jobs are at work at once, the one at work holds the texts
\* the corpus holds, and every vector is of its text.
THEOREM IngestInvariant == Spec => []IngestInv
<1> USE PartConstants
<1>1. Init => IngestInv
  BY IngestStart DEF Init
<1>2. IngestInv /\ [Next]_vars => IngestInv'
  BY IngestStep, IngestMoves
<1> QED
  BY <1>1, <1>2, PTL DEF Spec

LEMMA IngestTypes == ASSUME IngestInv PROVE Ingest!IngestTypeOK
<1>1. Ingest!ToSet(queue) \subseteq Job
  BY DEF IngestInv, IngestShape, Ingest!ToSet
<1>2. Ingest!IsInjective(queue)
  BY DEF IngestInv, IngestShape, QueueWaits, Ingest!IsInjective
<1> QED
  BY <1>1, <1>2, CountedAlike
  DEF IngestInv, IngestShape, StatusFollows, IngestWork, ChunkRow, Ingest!IngestTypeOK, Ingest!At

-----------------------------------------------------------------------------
(* What the whole promises.                                                *)

LEMMA SetupMoves == [Next]_vars => [SetupNext]_setupVars
  BY DEF Next, vars, OnlyFocus

LEMMA SetupInFocus == Spec => []SetupInv
<1>1. Init => SetupInv
  BY InitSetup DEF Init
<1>2. SetupInv /\ [Next]_vars => SetupInv'
  BY NextSetup, SetupMoves
<1> QED
  BY <1>1, <1>2, PTL DEF Spec

\* chat.py send_message, conversation_log.py: what is on record of a question agrees with what
\* was answered, wherever the request was cut or its report lost.
THEOREM RecordsOfAnswersAgree == Spec => []RecordsAgree
<1>1. ChatInv /\ WidgetInv => RecordsAgree
  BY Accounted, Reported DEF RecordsAgree
<1> QED
  BY <1>1, ChatInvariant, WidgetInvariant, PTL

\* pipeline.py, openai_pricing.py, prompts.py, llm_configs.py: nothing stale is used.
THEOREM NothingStaleIsUsed == Spec => []NothingIsStale
<1>1. IngestInv /\ PriceInv /\ SetupInv => NothingIsStale
  BY PartConstants, PricesAreFresh DEF IngestInv, SetupInv, NothingIsStale
<1> QED
  BY <1>1, IngestInvariant, PriceInvariant, SetupInFocus, PTL

LEMMA AlertTypes == ASSUME AlertInv PROVE Mail!AlertsTypeOK
  BY DEF AlertInv, AlertShape, AlertRequest, Alert, Mail!AlertsTypeOK

\* The variables of every part have their types.
THEOREM AnswersTyped == Spec => []TypeOK
<1>1. Init => focus \in Parts
  BY DEF Init
<1>2. focus \in Parts /\ [Next]_vars => (focus \in Parts)'
  BY DEF Next, vars, OnlyFocus
<1>3. Spec => [](focus \in Parts)
  BY <1>1, <1>2, PTL DEF Spec
<1>4. /\ focus \in Parts /\ ChatInv /\ IngestInv /\ AlertInv /\ PriceInv /\ WidgetInv /\ SetupInv
      => TypeOK
  BY PartConstants, ChatTypes, IngestTypes, AlertTypes, PricesAreFresh DEF WidgetInv, SetupInv, TypeOK
<1> QED
  BY <1>3, <1>4, ChatInvariant, IngestInvariant, AlertInvariant, PriceInvariant, WidgetInvariant,
     SetupInFocus, PTL
=============================================================================
