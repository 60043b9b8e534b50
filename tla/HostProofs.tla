----------------------------- MODULE HostProofs -----------------------------
(***************************************************************************)
(* Parts that MCServices checks, in its specification and for every value  *)
(* of their constants: the stored Zoho sign-in, listings of a SharePoint   *)
(* folder, the ledger of migrations, the set-up at start, the files that   *)
(* are there whole or not at all, the vectors of a document, and the types *)
(* of all the parts.                                                       *)
(***************************************************************************)
EXTENDS MCServices, SequenceTheorems, FiniteSetTheorems, TLAPS

-----------------------------------------------------------------------------
(* The parts' constants.                                                   *)

HostConstants == NoGrant \notin Grants /\ Zoho!Nobody \notin Caller
ListConstants == Root \in Folder /\ File \cap Folder = {} /\ Outside \notin Folder

LEMMA PartConstants == HostConstants /\ ListConstants
  BY ServicesAssumption DEF HostConstants, ListConstants, Zoho!Nobody

-----------------------------------------------------------------------------
(* The stored Zoho sign-in.                                                *)

ZohoCall ==
  [at : Zoho!Places, grant : Grants \cup {NoGrant}, force : BOOLEAN, why : {"", "old", "refused", "error answer"},
   file : {"draft", "store", "gone"}]

\* A caller that removes the file knows why, one that is about to save has a session, and
\* the draft is a session once it is whole.
ZohoInv ==
  /\ store \in Grants \cup {NoGrant}
  /\ draft \in [whole : BOOLEAN, grant : Grants \cup {NoGrant}, there : BOOLEAN]
  /\ call \in [Caller -> ZohoCall]
  /\ captured \subseteq {"code", "state", "error"}
  /\ \A c \in Caller : /\ call[c].at = "clear" => call[c].why \in {"old", "refused", "error answer"}
                       /\ call[c].at \in {"profile", "open", "write", "replace"} => call[c].grant \in Grants
                       /\ call[c].at = "wait" => listener = c
  /\ listener \in Caller \cup {Zoho!Nobody}
  /\ draft.whole => draft.grant \in Grants

LEMMA ZohoStart == ASSUME Zoho!ZohoInit PROVE ZohoInv
<1>1. Zoho!Idle \in ZohoCall /\ Zoho!Idle.at = "idle"
  BY DEF Zoho!Idle, ZohoCall, Zoho!Places, Zoho!Resting
<1>2. Zoho!Absent \in [whole : BOOLEAN, grant : Grants \cup {NoGrant}, there : BOOLEAN] /\ ~Zoho!Absent.whole
  BY DEF Zoho!Absent
<1>3. /\ store \in Grants \cup {NoGrant} /\ draft = Zoho!Absent /\ listener = Zoho!Nobody /\ captured = {}
      /\ call = [c \in Caller |-> Zoho!Idle]
  BY DEF Zoho!ZohoInit
<1> HIDE DEF ZohoCall
<1> QED
  BY <1>1, <1>2, <1>3 DEF ZohoInv

\* A step of one caller that keeps the files.
LEMMA CallerMoves ==
  ASSUME ZohoInv, NEW c \in Caller, NEW r \in ZohoCall, call' = [call EXCEPT ![c] = r],
         r.at = "clear" => r.why \in {"old", "refused", "error answer"},
         r.at \in {"profile", "open", "write", "replace"} => r.grant \in Grants,
         listener' = listener \/ (listener = c /\ listener' = Zoho!Nobody)
                              \/ (listener = Zoho!Nobody /\ listener' = c),
         r.at = "wait" => listener' = c,
         captured' \subseteq {"code", "state", "error"},
         UNCHANGED draft, store' \in Grants \cup {NoGrant}, HostConstants
  PROVE  ZohoInv'
<1>1. /\ call' \in [Caller -> ZohoCall] /\ call'[c] = r /\ \A d \in Caller \ {c} : call'[d] = call[d]
  BY DEF ZohoInv
<1>2. \A d \in Caller \ {c} : call[d].at = "wait" => listener' = d
  BY DEF ZohoInv, HostConstants
<1> QED
  BY <1>1, <1>2 DEF ZohoInv

LEMMA KnownPlaces ==
  /\ {"idle", "failed", "served", "load", "refresh", "profile", "clear", "listen", "wait", "exchange", "open",
      "write", "replace", "revoke"} = Zoho!Places
  /\ Zoho!Idle \in ZohoCall
  BY DEF Zoho!Places, Zoho!Resting, Zoho!Idle, ZohoCall

\* Steps that end with one caller at another place.
LEMMA PlainSteps ==
  ASSUME HostConstants, ZohoInv, NEW c \in Caller,
         \/ Zoho!Unreached(c) \/ Zoho!Profile(c) \/ Zoho!Listen(c) \/ Zoho!Poll(c) \/ Zoho!GiveUp(c)
         \/ Zoho!RefuseLogin(c) \/ Zoho!Revoke(c)
  PROVE  ZohoInv'
<1>1. PICK place \in Zoho!Places :
        /\ call' = [call EXCEPT ![c].at = place]
        /\ place \notin {"clear", "profile", "write", "replace"}
        /\ place = "open" => call[c].at = "profile"
        /\ place = "wait" => listener' = c
  BY KnownPlaces
  DEF Zoho!Unreached, Zoho!Profile, Zoho!Listen, Zoho!Poll, Zoho!GiveUp, Zoho!RefuseLogin, Zoho!Revoke, Zoho!To
<1>2. /\ UNCHANGED <<store, draft>>
      /\ listener' = listener \/ (call[c].at = "wait" /\ listener' = Zoho!Nobody)
                              \/ (listener = Zoho!Nobody /\ listener' = c)
      /\ captured' = captured \/ captured' = {}
  BY DEF Zoho!Unreached, Zoho!Profile, Zoho!Listen, Zoho!Poll, Zoho!GiveUp, Zoho!RefuseLogin, Zoho!Revoke
<1> DEFINE r == [call[c] EXCEPT !.at = place]
<1>3. call[c] \in ZohoCall /\ (call[c].at = "wait" => listener = c) /\ call' = [call EXCEPT ![c] = r]
  BY <1>1 DEF ZohoInv
<1>4. r \in ZohoCall /\ r.at = place /\ r.grant = call[c].grant
  BY <1>3 DEF ZohoCall
<1> HIDE DEF r
<1>5. place = "open" => r.grant \in Grants
  BY <1>1, <1>4 DEF ZohoInv
<1>6. /\ captured' \subseteq {"code", "state", "error"} /\ store' \in Grants \cup {NoGrant}
      /\ listener' = listener \/ (listener = c /\ listener' = Zoho!Nobody)
                              \/ (listener = Zoho!Nobody /\ listener' = c)
  BY <1>2, <1>3 DEF ZohoInv
<1>7. r.at = "wait" => listener' = c
  BY <1>1, <1>4
<1>8. r.at # "clear" /\ (r.at \in {"profile", "open", "write", "replace"} => r.grant \in Grants)
  BY <1>1, <1>4, <1>5
<1> QED
  BY <1>2, <1>3, <1>4, <1>6, <1>7, <1>8, CallerMoves

\* Steps that bring a session, a reason to remove one, or a new call.
LEMMA GrantSteps ==
  ASSUME HostConstants, ZohoInv, NEW c \in Caller,
         \/ Zoho!Load(c) \/ Zoho!RefuseResume(c) \/ Zoho!ErrorAnswer(c) \/ Zoho!Refreshed(c) \/ Zoho!Exchange(c)
         \/ \E force \in BOOLEAN : Zoho!Start(c, force)
  PROVE  ZohoInv'
<1> DEFINE Fits(r) == /\ r \in ZohoCall /\ call' = [call EXCEPT ![c] = r]
                      /\ r.at \notin {"wait", "open", "write", "replace"}
                      /\ r.at = "clear" => r.why \in {"old", "refused", "error answer"}
                      /\ r.at = "profile" => r.grant \in Grants
<1>1. /\ UNCHANGED <<store, draft, listener, captured>> /\ call[c] \in ZohoCall
      /\ store \in Grants \cup {NoGrant}
  BY DEF Zoho!Load, Zoho!RefuseResume, Zoho!ErrorAnswer, Zoho!Refreshed, Zoho!Exchange, Zoho!Start, ZohoInv
<1>2. SUFFICES \E r : Fits(r)
  BY <1>1, CallerMoves DEF ZohoInv
<1>3. ASSUME NEW place \in {"listen", "failed"}, Zoho!To(c, place) PROVE \E r : Fits(r)
  <2>1. Fits([call[c] EXCEPT !.at = place])
    BY <1>1, <1>3, KnownPlaces DEF ZohoCall, Zoho!To
  <2> QED
    BY <2>1
<1>4. ASSUME NEW why \in {"old", "refused", "error answer"}, Zoho!ToWhy(c, "clear", why) PROVE \E r : Fits(r)
  <2>1. Fits([call[c] EXCEPT !.at = "clear", !.why = why])
    BY <1>1, <1>4, KnownPlaces DEF ZohoCall, Zoho!ToWhy
  <2> QED
    BY <2>1
<1>5. ASSUME NEW place \in {"refresh", "profile"}, NEW g \in Grants \cup {NoGrant}, Zoho!ToWith(c, place, g),
             place = "profile" => g \in Grants
      PROVE  \E r : Fits(r)
  <2>1. Fits([call[c] EXCEPT !.at = place, !.grant = g])
    BY <1>1, <1>5, KnownPlaces DEF ZohoCall, Zoho!ToWith
  <2> QED
    BY <2>1
<1>6. ASSUME NEW g \in Grants, call' = [call EXCEPT ![c].at = "profile", ![c].grant = g, ![c].force = TRUE]
      PROVE  \E r : Fits(r)
  <2>1. Fits([call[c] EXCEPT !.at = "profile", !.grant = g, !.force = TRUE])
    BY <1>1, <1>6, KnownPlaces DEF ZohoCall
  <2> QED
    BY <2>1
<1>7. ASSUME NEW force \in BOOLEAN, Zoho!Start(c, force) PROVE \E r : Fits(r)
  <2>1. Fits([Zoho!Idle EXCEPT !.at = IF force THEN "listen" ELSE "load", !.force = force])
    BY <1>1, <1>7, KnownPlaces DEF ZohoCall, Zoho!Start
  <2> QED
    BY <2>1
<1> QED
  BY <1>1, <1>3, <1>4, <1>5, <1>6, <1>7 DEF Zoho!Load, Zoho!RefuseResume, Zoho!ErrorAnswer, Zoho!Refreshed, Zoho!Exchange

\* Steps that remove the file take it from under every writer.
LEMMA RemovingSteps ==
  ASSUME HostConstants, ZohoInv, NEW c \in Caller, Zoho!Clear(c) \/ Zoho!Logout(c)
  PROVE  ZohoInv'
<1>1. /\ UNCHANGED <<draft, listener, captured>> /\ store' = NoGrant
      /\ call[c].at # "wait" \/ ~Zoho!Logout(c)
  BY DEF Zoho!Clear, Zoho!Logout, Zoho!Resting
<1>2. PICK place \in {"listen", "idle", "revoke"} : call' = [Zoho!Unlinked EXCEPT ![c].at = place]
  BY DEF Zoho!Clear, Zoho!Logout
<1>3. ASSUME NEW d \in Caller
      PROVE  /\ Zoho!Unlinked[d] \in ZohoCall /\ Zoho!Unlinked[d].at = call[d].at
             /\ Zoho!Unlinked[d].why = call[d].why /\ Zoho!Unlinked[d].grant = call[d].grant
  <2>1. call[d] \in ZohoCall
    BY DEF ZohoInv
  <2> QED
    BY <2>1 DEF Zoho!Unlinked, ZohoCall
<1>4. Zoho!Unlinked \in [Caller -> ZohoCall]
  BY <1>3 DEF Zoho!Unlinked
<1> DEFINE r == [Zoho!Unlinked[c] EXCEPT !.at = place]
<1>5. r \in ZohoCall /\ r.at = place
  BY <1>3, KnownPlaces DEF ZohoCall
<1>6. call' = [Zoho!Unlinked EXCEPT ![c] = r]
  BY <1>2
<1> HIDE DEF r
<1>7. /\ call' \in [Caller -> ZohoCall] /\ call'[c] = r
      /\ \A d \in Caller \ {c} : call'[d] = Zoho!Unlinked[d]
  BY <1>4, <1>5, <1>6
<1>8. ASSUME NEW d \in Caller
      PROVE  /\ call'[d].at = "clear" => call'[d].why \in {"old", "refused", "error answer"}
             /\ call'[d].at \in {"profile", "open", "write", "replace"} => call'[d].grant \in Grants
             /\ call'[d].at = "wait" => listener = d
  <2>1. CASE d = c
    BY <1>2, <1>5, <1>7, <2>1
  <2>2. CASE d # c
    <3>1. /\ call'[d].at = call[d].at /\ call'[d].why = call[d].why
          /\ call'[d].grant = call[d].grant
      BY <1>3, <1>7, <2>2
    <3>2. /\ call[d].at = "clear" => call[d].why \in {"old", "refused", "error answer"}
          /\ call[d].at \in {"profile", "open", "write", "replace"} => call[d].grant \in Grants
          /\ call[d].at = "wait" => listener = d
      BY DEF ZohoInv
    <3> QED
      BY <3>1, <3>2, Zenon
  <2> QED
    BY <2>1, <2>2
<1> QED
  BY <1>1, <1>7, <1>8 DEF ZohoInv

\* Steps that write.
LEMMA SavingSteps ==
  ASSUME HostConstants, ZohoInv, NEW c \in Caller, Zoho!Open(c) \/ Zoho!Write(c) \/ Zoho!Replace(c)
  PROVE  ZohoInv'
<1>1. /\ call[c] \in ZohoCall /\ call \in [Caller -> ZohoCall] /\ UNCHANGED <<listener, captured>>
      /\ call[c].at \in {"open", "write", "replace"} /\ call[c].grant \in Grants
  BY DEF Zoho!Open, Zoho!Write, Zoho!Replace, ZohoInv
<1>2. CASE Zoho!Open(c)
  <2> DEFINE r == [call[c] EXCEPT !.at = "write", !.file = "draft"]
  <2>1. r \in ZohoCall /\ r.at = "write" /\ r.grant = call[c].grant
    BY <1>1, KnownPlaces DEF ZohoCall
  <2>2. call' = [call EXCEPT ![c] = r]
    BY <1>2 DEF Zoho!Open
  <2> HIDE DEF r
  <2>3. call' \in [Caller -> ZohoCall] /\ call'[c] = r /\ \A d \in Caller \ {c} : call'[d] = call[d]
    BY <1>1, <2>1, <2>2
  <2>4. store' = store /\ draft' = [whole |-> FALSE, grant |-> NoGrant, there |-> TRUE]
    BY <1>2 DEF Zoho!Open
  <2> QED
    BY <1>1, <2>1, <2>3, <2>4 DEF ZohoInv
<1>3. CASE Zoho!Write(c)
  <2> DEFINE r == [call[c] EXCEPT !.at = "replace"]
  <2>1. r \in ZohoCall /\ r.at = "replace" /\ r.grant = call[c].grant
    BY <1>1, KnownPlaces DEF ZohoCall
  <2>2. call' = [call EXCEPT ![c] = r]
    BY <1>3 DEF Zoho!Write, Zoho!To
  <2> HIDE DEF r
  <2>3. call' \in [Caller -> ZohoCall] /\ call'[c] = r /\ \A d \in Caller \ {c} : call'[d] = call[d]
    BY <1>1, <2>1, <2>2
  <2>4. /\ store' \in {store, call[c].grant}
        /\ draft' = draft \/ draft' = [whole |-> TRUE, grant |-> call[c].grant, there |-> TRUE]
    BY <1>3 DEF Zoho!Write
  <2>5. /\ draft' \in [whole : BOOLEAN, grant : Grants \cup {NoGrant}, there : BOOLEAN]
        /\ draft'.whole => draft'.grant \in Grants
    <3>1. CASE draft' = draft
      BY <3>1 DEF ZohoInv
    <3>2. CASE draft' = [whole |-> TRUE, grant |-> call[c].grant, there |-> TRUE]
      BY <1>1, <3>2
    <3> QED
      BY <2>4, <3>1, <3>2
  <2>6. store' \in Grants \cup {NoGrant}
    BY <1>1, <2>4 DEF ZohoInv
  <2> QED
    BY <1>1, <2>1, <2>3, <2>5, <2>6 DEF ZohoInv
<1>4. CASE Zoho!Replace(c)
  <2>1. CASE draft = Zoho!Absent
    <3>1. UNCHANGED <<store, draft>> /\ call' = [call EXCEPT ![c].at = "failed"]
      BY <1>4, <2>1 DEF Zoho!Replace, Zoho!To
    <3> DEFINE r == [call[c] EXCEPT !.at = "failed"]
    <3>2. r \in ZohoCall /\ r.at = "failed" /\ call' = [call EXCEPT ![c] = r]
      BY <1>1, <3>1, KnownPlaces DEF ZohoCall
    <3> HIDE DEF r
    <3> QED
      BY <1>1, <3>1, <3>2, CallerMoves DEF ZohoInv
  <2>2. CASE draft # Zoho!Absent
    <3>1. /\ store' = draft.grant /\ draft' = Zoho!Absent
          /\ call' = [d \in Caller |-> [call[d] EXCEPT !.at = IF d = c THEN "served" ELSE @, !.file = Zoho!Moved(@)]]
      BY <1>4, <2>2 DEF Zoho!Replace
    <3>2. Zoho!Absent \in [whole : BOOLEAN, grant : Grants \cup {NoGrant}, there : BOOLEAN] /\ ~Zoho!Absent.whole
      BY DEF Zoho!Absent
    <3>3. ASSUME NEW d \in Caller
          PROVE  /\ call'[d] \in ZohoCall /\ call'[d].at = (IF d = c THEN "served" ELSE call[d].at)
                 /\ call'[d].grant = call[d].grant /\ call'[d].why = call[d].why
      <4>1. call[d] \in ZohoCall /\ Zoho!Moved(call[d].file) \in {"draft", "store", "gone"}
        BY <1>1 DEF Zoho!Moved
      <4>2. call'[d] = [call[d] EXCEPT !.at = IF d = c THEN "served" ELSE call[d].at, !.file = Zoho!Moved(call[d].file)]
        BY <3>1
      <4>3. (IF d = c THEN "served" ELSE call[d].at) \in Zoho!Places
        BY <4>1, KnownPlaces DEF ZohoCall
      <4> QED
        BY <4>1, <4>2, <4>3 DEF ZohoCall
    <3>4. call' \in [Caller -> ZohoCall]
      BY <3>1, <3>3
    <3>5. store' \in Grants \cup {NoGrant}
      BY <3>1 DEF ZohoInv
    <3>6. ASSUME NEW d \in Caller
          PROVE  /\ call'[d].at = "clear" => call'[d].why \in {"old", "refused", "error answer"}
                 /\ call'[d].at \in {"profile", "open", "write", "replace"} => call'[d].grant \in Grants
                 /\ call'[d].at = "wait" => listener' = d
      BY <1>1, <3>3 DEF ZohoInv
    <3> QED
      BY <1>1, <3>1, <3>2, <3>4, <3>5, <3>6 DEF ZohoInv
  <2> QED
    BY <2>1, <2>2
<1> QED
  BY <1>2, <1>3, <1>4

LEMMA RedirectSteps ==
  ASSUME ZohoInv, NEW c \in Caller, NEW parameter \in {"code", "state", "error"}, Zoho!Redirect(c, parameter)
  PROVE  ZohoInv'
  BY DEF Zoho!Redirect, ZohoInv

LEMMA NextZoho == ASSUME HostConstants, ZohoInv, [Zoho!ZohoNext]_zohoVars PROVE ZohoInv'
<1>1. CASE UNCHANGED zohoVars
  BY <1>1 DEF zohoVars, ZohoInv
<1>2. ASSUME NEW c \in Caller, \/ Zoho!Step(c) \/ Zoho!Logout(c)
                                \/ \E force \in BOOLEAN : Zoho!Start(c, force)
                                \/ \E parameter \in {"code", "state", "error"} : Zoho!Redirect(c, parameter)
      PROVE  ZohoInv'
  BY <1>2, PlainSteps, GrantSteps, RemovingSteps, SavingSteps, RedirectSteps DEF Zoho!Step
<1> QED
  BY <1>1, <1>2 DEF Zoho!ZohoNext

LEMMA ZohoMoves == [Next]_vars => [Zoho!ZohoNext]_zohoVars
  BY DEF Next, vars, OnlyFocus, zohoVars

THEOREM ZohoInvariant == Spec => []ZohoInv
<1> USE PartConstants
<1>1. Init => ZohoInv
  BY ZohoStart DEF Init
<1>2. ZohoInv /\ [Next]_vars => ZohoInv'
  BY NextZoho, ZohoMoves
<1> QED
  BY <1>1, <1>2, PTL DEF Spec

\* token_store.py, auth_service.py: the saved sign-in goes by a logout, by age, by an answer
\* that is a refusal or an error, or torn by two writers; a connection without an answer loses
\* nothing.
THEOREM SilenceKeepsTheSession == Spec => SilenceKeepsSession
<1> USE PartConstants
<1>1. ASSUME ZohoInv, [Zoho!ZohoNext]_zohoVars, store # NoGrant, store' = NoGrant
      PROVE  cleared' \in {"logout", "old", "refused", "error answer", "torn"}
  <2>1. PICK c \in Caller : Zoho!Step(c) \/ Zoho!Logout(c)
    BY <1>1 DEF zohoVars, Zoho!ZohoNext, Zoho!Start, Zoho!Redirect
  <2>2. Zoho!Clear(c) \/ Zoho!Logout(c) \/ Zoho!Write(c) \/ Zoho!Replace(c)
    BY <1>1, <2>1 DEF Zoho!Step, Zoho!Load, Zoho!RefuseResume, Zoho!ErrorAnswer,
       Zoho!Unreached, Zoho!Refreshed, Zoho!Profile,
       Zoho!Listen, Zoho!Poll, Zoho!GiveUp, Zoho!Exchange, Zoho!RefuseLogin, Zoho!Open, Zoho!Revoke
  <2>3. ~Zoho!Write(c)
    BY <1>1 DEF Zoho!Write, ZohoInv, HostConstants
  <2>4. Zoho!Replace(c) => cleared' = "torn"
    BY <1>1 DEF Zoho!Replace, ZohoInv, HostConstants
  <2>5. Zoho!Clear(c) => cleared' \in {"old", "refused", "error answer"}
    BY <1>1 DEF Zoho!Clear, ZohoInv
  <2> QED
    BY <2>2, <2>3, <2>4, <2>5 DEF Zoho!Logout
<1>2. ZohoInv /\ [Next]_vars =>
        [store # NoGrant /\ store' = NoGrant => cleared' \in {"logout", "old", "refused", "error answer", "torn"}]_(Zoho!zohoVars)
  BY <1>1, ZohoMoves
<1> QED
  BY <1>2, ZohoInvariant, PTL DEF Spec, SilenceKeepsSession, Zoho!SilenceKeepsSession

-----------------------------------------------------------------------------
(* Listings of a folder.                                                   *)

ListRecord ==
  [queue : Seq(Folder), seen : SUBSET Folder, folder : Folder, shown : SUBSET Graph!Item, files : SUBSET File,
   scanned : Nat, any : BOOLEAN]

\* An item of the listing, and a folder nobody who stayed in it is missing from.
Taken(l, i) == IF i \in File THEN i \in l.files ELSE i \in l.seen
Done(l, d) == \A i \in Graph!Item : i \notin moved /\ parent[i] = d => Taken(l, i)
Waits(l, d) == \E n \in 1..Len(l.queue) : l.queue[n] = d

\* Folders nobody has moved are in the root.
Unmoved == \A d \in Folder \ {Root} : d \notin moved => parent[d] = Root

\* A folder that was seen waits, is being shown, or is done.
Lists(l) ==
  /\ Root \in l.seen
  /\ \A i \in l.shown : Taken(l, i)
  /\ \A d \in l.seen : d = l.folder \/ Waits(l, d) \/ Done(l, d)

Ended == {"download", "over"}
ListInv ==
  /\ list \in ListRecord /\ outcome \in [complete : BOOLEAN, error : Graph!Codes \cup {"none", "capped"}]
  /\ parent \in [Graph!Item -> Folder \cup {Outside}] /\ moved \subseteq Graph!Item
  /\ Unmoved
  /\ step \notin Ended => Lists(list) /\ ~outcome.complete
  /\ Graph!CompleteListsUntouched

LEMMA ListStart == ASSUME ListConstants, Graph!Init PROVE ListInv
<1>1. /\ list = Graph!NoListing /\ moved = {} /\ step = "credentials"
      /\ parent \in [Graph!Item -> {Root} \cup Folder] /\ \A d \in Folder \ {Root} : parent[d] = Root
      /\ outcome = [complete |-> FALSE, error |-> "none"]
  BY DEF Graph!Init
<1>2. /\ list \in ListRecord /\ list.seen = {Root} /\ list.folder = Root /\ list.shown = {}
  <2>1. <<>> \in Seq(Folder)
    OBVIOUS
  <2> QED
    BY <1>1, <2>1 DEF Graph!NoListing, ListRecord, ListConstants
<1>3. parent \in [Graph!Item -> Folder \cup {Outside}]
  BY <1>1 DEF ListConstants
<1>4. outcome \in [complete : BOOLEAN, error : Graph!Codes \cup {"none", "capped"}] /\ ~outcome.complete
  BY <1>1
<1> QED
  BY <1>1, <1>2, <1>3, <1>4 DEF ListInv, Unmoved, Lists, Graph!CompleteListsUntouched

\* A step that leaves the library and the listing alone.
LEMMA ListKept ==
  ASSUME ListInv, UNCHANGED <<parent, moved>>, list'.files = list.files, list' \in ListRecord,
         outcome' \in [complete : BOOLEAN, error : Graph!Codes \cup {"none", "capped"}],
         outcome'.complete => outcome.complete,
         step \in Ended => step' \in Ended,
         step' \notin Ended => list' = list
  PROVE  ListInv'
<1>1. Unmoved'
  BY DEF ListInv, Unmoved
<1>2. step' \notin Ended => Lists(list)' /\ ~outcome'.complete
  BY DEF ListInv, Lists, Taken, Done, Waits
<1>3. Graph!CompleteListsUntouched'
  BY DEF ListInv, Graph!CompleteListsUntouched, Graph!Untouched
<1> QED
  BY <1>1, <1>2, <1>3 DEF ListInv

LEMMA Failing ==
  ASSUME ListInv, NEW code \in Graph!Codes, Graph!Fail(code), UNCHANGED <<parent, moved, list>>
  PROVE  ListInv'
<1>1. step' \in Ended
  BY DEF Graph!Fail, Graph!Listed, Ended
<1>2. \/ outcome' = [outcome EXCEPT !.error = code]
      \/ outcome' = [complete |-> FALSE, error |-> code]
  BY DEF Graph!Fail, Graph!Listed
<1>3. outcome' \in [complete : BOOLEAN, error : Graph!Codes \cup {"none", "capped"}] /\ (outcome'.complete => outcome.complete)
  <2>1. outcome \in [complete : BOOLEAN, error : Graph!Codes \cup {"none", "capped"}]
    BY DEF ListInv
  <2>2. CASE outcome' = [outcome EXCEPT !.error = code]
    BY <2>1, <2>2
  <2>3. CASE outcome' = [complete |-> FALSE, error |-> code]
    BY <2>3
  <2> QED
    BY <1>2, <2>2, <2>3
<1> QED
  BY <1>1, <1>3, ListKept DEF ListInv

\* Sign-in, refusals and the download change no listing.
LEMMA RequestSteps ==
  ASSUME ListInv, \/ Graph!OutOfTime \/ Graph!CheckReady \/ Graph!SignIn \/ Graph!SignInFails \/ Graph!Unauthorized
                  \/ Graph!Throttled \/ Graph!Refused \/ Graph!Resolved
                  \/ Graph!Open \/ Graph!Chunk \/ Graph!StreamBreaks \/ Graph!Rename \/ Graph!TimePasses
  PROVE  ListInv'
<1>1. UNCHANGED <<parent, moved, list>>
  BY DEF Graph!OutOfTime, Graph!CheckReady, Graph!SignIn, Graph!SignInFails, Graph!Unauthorized, Graph!Throttled,
         Graph!Refused, Graph!Resolved, Graph!Open, Graph!Chunk, Graph!StreamBreaks, Graph!Rename, Graph!TimePasses
<1>2. \/ \E code \in Graph!Codes : Graph!Fail(code)
      \/ outcome' = outcome /\ (step \in Ended => step' \in Ended)
  BY DEF Graph!OutOfTime, Graph!CheckReady, Graph!SignIn, Graph!SignInFails, Graph!Unauthorized, Graph!Throttled,
         Graph!Refused, Graph!Resolved, Graph!Open, Graph!Chunk, Graph!StreamBreaks, Graph!Rename, Graph!TimePasses,
         Graph!Codes, Graph!Asking, Ended
<1> QED
  BY <1>1, <1>2, Failing, ListKept DEF ListInv

\* Somebody moves an item: it is not counted any more.
LEMMA MoveSteps ==
  ASSUME ListInv, NEW i \in Graph!Item, NEW to \in Folder \cup {Outside}, Graph!Move(i, to)
  PROVE  ListInv'
<1>1. /\ parent' = [parent EXCEPT ![i] = to] /\ moved' = moved \cup {i}
      /\ UNCHANGED <<list, step, outcome>>
  BY DEF Graph!Move, Graph!session
<1>2. /\ parent' \in [Graph!Item -> Folder \cup {Outside}] /\ moved' \subseteq Graph!Item
      /\ \A k \in Graph!Item : k \notin moved' => k \notin moved /\ parent'[k] = parent[k]
  BY <1>1 DEF ListInv
<1>3. Folder \ {Root} \subseteq Graph!Item /\ File \subseteq Graph!Item
  BY DEF Graph!Item
<1>4. Unmoved'
  BY <1>2, <1>3 DEF ListInv, Unmoved
<1>5. Lists(list) => Lists(list)'
  BY <1>1, <1>2 DEF Lists, Taken, Done, Waits
<1>6. Graph!CompleteListsUntouched'
  <2>1. \A f \in File : Graph!Untouched(f)' => Graph!Untouched(f)
    BY <1>1, <1>2, <1>3 DEF Graph!Untouched
  <2> QED
    BY <1>1, <2>1 DEF ListInv, Graph!CompleteListsUntouched
<1> QED
  BY <1>1, <1>2, <1>4, <1>5, <1>6 DEF ListInv

\* When no folder waits and the last is shown, every item that stayed is listed.
LEMMA ListingEnds ==
  ASSUME ListConstants, ListInv, Lists(list), list.queue = <<>>, Graph!Children = {}, NEW f \in File, Graph!Untouched(f)
  PROVE  f \in list.files
<1>1. Folder \ {Root} \subseteq Graph!Item /\ File \subseteq Graph!Item
  BY DEF Graph!Item
<1>2. Done(list, list.folder)
  BY DEF Done, Lists, Graph!Children
<1>3. \A d \in list.seen : Done(list, d)
  BY <1>2 DEF Lists, Waits
<1>4. \A d \in Folder \ {Root} : d \notin moved => d \in list.seen
  BY <1>1, <1>3 DEF ListInv, Unmoved, Lists, Done, Taken, ListConstants
<1>5. parent[f] \in list.seen /\ f \notin moved
  BY <1>4 DEF Graph!Untouched, Lists
<1> QED
  BY <1>1, <1>3, <1>5 DEF Done, Taken

LEMMA FolderSteps ==
  ASSUME ListConstants, ListInv, step = "listing", Graph!NextFolder, Graph!Children = {}, UNCHANGED <<parent, moved>>
  PROVE  ListInv'
<1>1. Lists(list) /\ list \in ListRecord
  BY DEF ListInv, Ended
<1>2. CASE list.queue = <<>>
  <2>1. /\ outcome' = [complete |-> TRUE, error |-> "none"] /\ step' \in Ended /\ list' = [list EXCEPT !.any = TRUE]
    BY <1>2 DEF Graph!NextFolder, Graph!Listed, Ended
  <2>2. list' \in ListRecord /\ list'.files = list.files
    BY <1>1, <2>1 DEF ListRecord
  <2>3. Graph!CompleteListsUntouched'
    BY <1>1, <1>2, <2>2, ListingEnds DEF Graph!CompleteListsUntouched, Graph!Untouched
  <2>4. outcome' \in [complete : BOOLEAN, error : Graph!Codes \cup {"none", "capped"}]
    BY <2>1
  <2>5. Unmoved'
    BY DEF ListInv, Unmoved
  <2> QED
    BY <2>1, <2>2, <2>3, <2>4, <2>5 DEF ListInv
<1>3. CASE list.queue # <<>>
  <2>1. /\ list' = [list EXCEPT !.queue = Tail(@), !.folder = Head(list.queue), !.shown = {}, !.any = TRUE]
        /\ UNCHANGED <<step, outcome>>
    BY <1>3 DEF Graph!NextFolder
  <2>2. list.queue \in Seq(Folder)
    BY <1>1 DEF ListRecord
  <2>3. /\ Head(list.queue) \in Folder /\ Tail(list.queue) \in Seq(Folder) /\ Head(list.queue) = list.queue[1]
        /\ Len(Tail(list.queue)) = Len(list.queue) - 1 /\ Len(list.queue) \in Nat
        /\ \A n \in 1..Len(list.queue) : n = 1 \/ (n - 1 \in 1..Len(Tail(list.queue)) /\ Tail(list.queue)[n - 1] = list.queue[n])
    BY <1>3, <2>2
  <2>4. /\ list' \in ListRecord /\ list'.seen = list.seen /\ list'.files = list.files /\ list'.shown = {}
        /\ list'.folder = Head(list.queue) /\ list'.queue = Tail(list.queue)
    BY <1>1, <2>1, <2>3 DEF ListRecord
  <2>5. \A d : Waits(list, d) => d = list'.folder \/ Waits(list', d)
    BY <2>3, <2>4 DEF Waits
  <2>6. Done(list, list.folder)
    BY <1>1 DEF Done, Lists, Graph!Children
  <2>7. Lists(list)'
    <3>1. \A d : Done(list, d) => Done(list, d)'
      BY <2>4 DEF Done, Taken
    <3>2. \A d : Waits(list', d) => Waits(list, d)'
      BY DEF Waits
    <3> QED
      BY <1>1, <2>4, <2>5, <2>6, <3>1, <3>2 DEF Lists
  <2>8. ~outcome'.complete
    BY <2>1 DEF ListInv, Ended
  <2>9. Unmoved'
    BY DEF ListInv, Unmoved
  <2> QED
    BY <2>1, <2>4, <2>7, <2>8, <2>9 DEF ListInv, Graph!CompleteListsUntouched
<1> QED
  BY <1>2, <1>3

LEMMA LookSteps ==
  ASSUME ListConstants, ListInv, step = "listing", NEW i \in Graph!Item, Graph!Look(i), UNCHANGED <<parent, moved>>
  PROVE  ListInv'
<1> DEFINE looked == [list EXCEPT !.shown = @ \cup {i}, !.scanned = @ + 1, !.any = TRUE]
<1>1. Lists(list) /\ list \in ListRecord /\ ~outcome.complete
  BY DEF ListInv, Ended
<1>2. /\ looked \in ListRecord /\ looked.shown = list.shown \cup {i} /\ looked.files = list.files
      /\ looked.seen = list.seen /\ looked.queue = list.queue /\ looked.folder = list.folder
  <2>1. list.shown \cup {i} \in SUBSET Graph!Item /\ list.scanned + 1 \in Nat
    BY <1>1 DEF ListRecord
  <2> QED
    BY <1>1, <2>1 DEF ListRecord
<1>3. \/ /\ list' = looked /\ outcome' = [complete |-> FALSE, error |-> "capped"] /\ step' \in Ended
      \/ /\ list' = IF i \in File THEN [looked EXCEPT !.files = @ \cup {i}]
                    ELSE IF i \in list.seen THEN looked
                    ELSE [looked EXCEPT !.seen = @ \cup {i}, !.queue = Append(@, i)]
         /\ UNCHANGED <<step, outcome>>
  BY DEF Graph!Look, Graph!Listed, Ended
<1> HIDE DEF looked
<1>4. Unmoved'
  BY DEF ListInv, Unmoved
<1>5. CASE list' = looked /\ outcome' = [complete |-> FALSE, error |-> "capped"] /\ step' \in Ended
  <2>1. outcome' \in [complete : BOOLEAN, error : Graph!Codes \cup {"none", "capped"}] /\ ~outcome'.complete
    BY <1>5
  <2> QED
    BY <1>2, <1>4, <1>5, <2>1 DEF ListInv, Graph!CompleteListsUntouched
<1>6. ASSUME UNCHANGED <<step, outcome>>, list' \in ListRecord, list'.folder = list.folder,
             list'.shown = looked.shown, list.seen \subseteq list'.seen, list.files \subseteq list'.files,
             Taken(list', i), \A d \in list'.seen \ list.seen : Waits(list', d),
             \A d : Waits(list, d) => Waits(list', d)
      PROVE  ListInv'
  <2>1. \A k : Taken(list, k) => Taken(list', k)
    BY <1>6 DEF Taken
  <2>2. \A d : Done(list, d) => Done(list, d)'
    BY <2>1 DEF Done, Taken
  <2>3. \A d : Waits(list', d) => Waits(list, d)'
    BY DEF Waits
  <2>4. \A k \in list'.shown : Taken(list', k)
    BY <1>1, <1>2, <1>6, <2>1 DEF Lists
  <2>5. Lists(list)'
    BY <1>1, <1>6, <2>2, <2>3, <2>4 DEF Lists, Taken
  <2> QED
    BY <1>1, <1>4, <1>6, <2>5 DEF ListInv, Graph!CompleteListsUntouched
<1>7. CASE UNCHANGED <<step, outcome>> /\ i \in File /\ list' = [looked EXCEPT !.files = @ \cup {i}]
  <2>1. /\ list' \in ListRecord /\ list'.folder = list.folder /\ list'.shown = looked.shown /\ list'.seen = list.seen
        /\ list'.files = list.files \cup {i} /\ list'.queue = list.queue
    BY <1>2, <1>7 DEF ListRecord
  <2> QED
    BY <1>6, <1>7, <2>1 DEF Taken, Waits
<1>8. CASE UNCHANGED <<step, outcome>> /\ i \notin File /\ i \in list.seen /\ list' = looked
  BY <1>2, <1>6, <1>8 DEF Taken, Waits
<1>9. CASE /\ UNCHANGED <<step, outcome>> /\ i \notin File
           /\ list' = [looked EXCEPT !.seen = @ \cup {i}, !.queue = Append(@, i)]
  <2>1. i \in Folder /\ list.queue \in Seq(Folder) /\ list.seen \subseteq Folder
    BY <1>1, <1>9 DEF Graph!Item, ListRecord
  <2>2. /\ Append(list.queue, i) \in Seq(Folder) /\ Len(list.queue) \in Nat
        /\ Len(Append(list.queue, i)) = Len(list.queue) + 1 /\ Append(list.queue, i)[Len(list.queue) + 1] = i
        /\ \A n \in 1..Len(list.queue) : Append(list.queue, i)[n] = list.queue[n]
    BY <2>1
  <2>3. /\ list' \in ListRecord /\ list'.folder = list.folder /\ list'.shown = looked.shown
        /\ list'.seen = list.seen \cup {i} /\ list'.files = list.files /\ list'.queue = Append(list.queue, i)
    BY <1>2, <1>9, <2>1, <2>2 DEF ListRecord
  <2>4. Waits(list', i) /\ \A d : Waits(list, d) => Waits(list', d)
    BY <2>2, <2>3 DEF Waits
  <2> QED
    BY <1>6, <1>9, <2>3, <2>4 DEF Taken
<1> QED
  BY <1>3, <1>5, <1>7, <1>8, <1>9

LEMMA TimeSteps == ASSUME ListInv, Graph!TimeLimit PROVE ListInv'
<1>1. /\ UNCHANGED <<parent, moved, list>> /\ step' \in Ended /\ outcome' = [complete |-> FALSE, error |-> "capped"]
  BY DEF Graph!TimeLimit, Graph!Listed, Ended
<1>2. outcome' \in [complete : BOOLEAN, error : Graph!Codes \cup {"none", "capped"}] /\ ~outcome'.complete
  BY <1>1
<1> QED
  BY <1>1, <1>2, ListKept DEF ListInv

LEMMA NextList == ASSUME ListConstants, ListInv, [Graph!Next]_graphVars PROVE ListInv'
<1>1. CASE UNCHANGED graphVars
  BY <1>1, ListKept DEF graphVars, ListInv
<1>2. CASE Graph!Page
  BY <1>2, FolderSteps, LookSteps DEF Graph!Page, Graph!Children
<1> QED
  BY <1>1, <1>2, RequestSteps, MoveSteps, TimeSteps DEF Graph!Next, Graph!SessionStep

LEMMA GraphMoves == [Next]_vars => [Graph!Next]_graphVars
  BY DEF Next, vars, OnlyFocus, graphVars

THEOREM ListInvariant == Spec => []ListInv
<1> USE PartConstants
<1>1. Init => ListInv
  BY ListStart DEF Init
<1>2. ListInv /\ [Next]_vars => ListInv'
  BY NextList, GraphMoves
<1> QED
  BY <1>1, <1>2, PTL DEF Spec

\* graph_source.py _list: a listing that calls itself complete has every file that was there
\* throughout, whatever was moved between its pages.
THEOREM CompleteListingsHaveTheUntouched == Spec => []CompleteListsUntouched
<1>1. ListInv => CompleteListsUntouched
  BY DEF ListInv, CompleteListsUntouched
<1> QED
  BY <1>1, ListInvariant, PTL

-----------------------------------------------------------------------------
(* Migrations.                                                             *)

\* What is left of a command is of its version, and the row of a later version is there only
\* while nothing takes its tables away or still makes them.
MigrateTable == {Migrate!Ledger, "AIVA_kb_documents", "AIVA_health_checks", "AIVA_health_check_events",
          "AIVA_crm_sources", "AIVA_crm_sync_runs", "AIVA_crm_source_files", "AIVA_crm_entities"}

ToolOK ==
  /\ tool \in [at : Migrate!Commands \cup {"idle"}, version : Migrate!Version, facts : {{}}, left : Seq(MigrateTable)]
  /\ Migrate!ToSet(tool.left) \subseteq Migrate!Created(tool.version)
  /\ tool.at \in {"create", "unrecord", "drop"} => tool.left # <<>>

LedgerInv ==
  /\ Migrate!LedgerIsTrue
  /\ ToolOK /\ ledger \subseteq Migrate!Version
  /\ tool.at = "create" => Migrate!Created(tool.version) \subseteq tables \cup Migrate!ToSet(tool.left)
  /\ tool.at = "record" => Migrate!Created(tool.version) \subseteq tables
  /\ tool.at = "unrecord" => tool.version # 1
  /\ tool.at \in {"create", "record", "drop"} => tool.version = 1 \/ tool.version \notin ledger
  /\ tool.at = "drop" /\ tool.version = 1 => ledger \subseteq {1}

\* Of a sequence that is not empty.
LEMMA HeadAndTail ==
  ASSUME NEW S, NEW s \in Seq(S), s # <<>>
  PROVE  /\ Head(s) \in Migrate!ToSet(s) /\ Tail(s) \in Seq(S)
         /\ Migrate!ToSet(s) = {Head(s)} \cup Migrate!ToSet(Tail(s))
         /\ Len(s) = 1 => Migrate!ToSet(s) = {Head(s)}
         /\ Len(s) # 1 => Tail(s) # <<>>
<1>0. Len(s) \in Nat /\ Len(s) # 0 /\ Len(Tail(s)) = Len(s) - 1
  BY EmptySeq, HeadTailProperties
<1>1. Head(s) = s[1] /\ 1 \in DOMAIN s /\ Tail(s) \in Seq(S)
  BY <1>0
<1>2. ASSUME NEW i \in DOMAIN s
      PROVE  s[i] = Head(s) \/ s[i] \in Migrate!ToSet(Tail(s))
  <2>1. CASE i = 1
    BY <1>1, <2>1
  <2>2. CASE i # 1
    <3>1. i - 1 \in DOMAIN Tail(s) /\ Tail(s)[i - 1] = s[i]
      BY <2>2
    <3> QED
      BY <3>1 DEF Migrate!ToSet
  <2> QED
    BY <2>1, <2>2
<1>3. ASSUME NEW i \in DOMAIN Tail(s)
      PROVE  Tail(s)[i] \in Migrate!ToSet(s)
  <2>1. i + 1 \in DOMAIN s /\ Tail(s)[i] = s[i + 1]
    OBVIOUS
  <2> QED
    BY <2>1 DEF Migrate!ToSet
<1>4. Migrate!ToSet(s) = {Head(s)} \cup Migrate!ToSet(Tail(s))
  BY <1>1, <1>2, <1>3 DEF Migrate!ToSet
<1>5. Len(s) = 1 => Migrate!ToSet(s) = {Head(s)}
  BY <1>1 DEF Migrate!ToSet
<1>6. Len(s) # 1 => Tail(s) # <<>>
  <2>1. Tail(s) = <<>> => Len(Tail(s)) = 0
    BY EmptySeq
  <2> QED
    BY <1>0, <2>1
<1> QED
  BY <1>1, <1>4, <1>5, <1>6 DEF Migrate!ToSet

\* Both scripts, forwards and backwards.
LEMMA Scripts ==
  ASSUME NEW v \in Migrate!Version
  PROVE  /\ Migrate!Script[v] \in Seq(MigrateTable) /\ Migrate!Script[v] # <<>> /\ Migrate!ToSet(Migrate!Script[v]) = Migrate!Created(v)
         /\ Migrate!Reverse(Migrate!Script[v]) \in Seq(MigrateTable) /\ Migrate!Reverse(Migrate!Script[v]) # <<>>
         /\ Migrate!ToSet(Migrate!Reverse(Migrate!Script[v])) \subseteq Migrate!Created(v)
         /\ v \in {1, 2}
<1>1. Migrate!Version = {1, 2}
  BY DEF Migrate!Version, Migrate!Script
<1>2. Migrate!Script[v] \in Seq(MigrateTable) /\ Len(Migrate!Script[v]) = 4
  <2>1. Migrate!V001 \in Seq(MigrateTable) /\ Len(Migrate!V001) = 4
    BY DEF Migrate!V001, MigrateTable
  <2>2. Migrate!V002 \in Seq(MigrateTable) /\ Len(Migrate!V002) = 4
    BY DEF Migrate!V002, MigrateTable
  <2>3. Migrate!Script[v] = Migrate!V001 \/ Migrate!Script[v] = Migrate!V002
    BY <1>1 DEF Migrate!Script
  <2> QED
    BY <2>1, <2>2, <2>3
<1>3. Migrate!ToSet(Migrate!Script[v]) = Migrate!Created(v)
  BY DEF Migrate!Created
<1> DEFINE s == Migrate!Script[v]
<1> HIDE DEF s
<1>4. s \in Seq(MigrateTable) /\ Len(s) = 4
  BY <1>2 DEF s
<1>5. Migrate!Reverse(s) \in Seq(MigrateTable) /\ Len(Migrate!Reverse(s)) = 4
  <2>1. Migrate!Reverse(s) = [i \in 1 .. 4 |-> s[(4 - i) + 1]]
    BY <1>4 DEF Migrate!Reverse
  <2>2. \A i \in 1 .. 4 : s[(4 - i) + 1] \in MigrateTable
    <3>1. \A i \in 1 .. 4 : (4 - i) + 1 \in 1 .. Len(s)
      BY <1>4
    <3> QED
      BY <1>4, <3>1, ElementOfSeq
  <2>3. Migrate!Reverse(s) \in [1 .. 4 -> MigrateTable]
    BY <2>1, <2>2, Zenon
  <2>4. Migrate!Reverse(s) \in Seq(MigrateTable)
    BY <2>3, SeqDef
  <2> QED
    BY <2>3, <2>4, LenProperties
<1>6. Migrate!ToSet(Migrate!Reverse(s)) \subseteq Migrate!ToSet(s)
  BY <1>4 DEF Migrate!Reverse, Migrate!ToSet
<1>7. Migrate!Script[v] # <<>> /\ Migrate!Reverse(s) # <<>>
  BY <1>2, <1>5
<1> QED
  BY <1>1, <1>2, <1>3, <1>5, <1>6, <1>7 DEF s

\* The commands start.
LEMMA CommandKeepsLedger ==
  ASSUME LedgerInv, NEW v \in Migrate!Version, NEW force \in BOOLEAN, Migrate!Apply(v) \/ Migrate!Rollback(v, force)
  PROVE  LedgerInv'
<1>1. UNCHANGED <<tables, ledger>> /\ v \in {1, 2}
  BY Scripts DEF Migrate!Apply, Migrate!Rollback
<1>2. Migrate!LedgerIsTrue' /\ (ledger \subseteq Migrate!Version)'
  BY <1>1 DEF LedgerInv, Migrate!LedgerIsTrue
<1>3. CASE Migrate!Apply(v)
  <2>1. tool' = [at |-> "create", version |-> v, facts |-> {}, left |-> Migrate!Script[v]]
        /\ v \notin ledger
    BY <1>3 DEF Migrate!Apply, Migrate!NoCommand
  <2>2. ToolOK'
    BY <2>1, Scripts DEF ToolOK, Migrate!Commands
  <2> QED
    BY <1>1, <1>2, <2>1, <2>2, Scripts DEF LedgerInv
<1>4. CASE Migrate!Rollback(v, force)
  <2>1. /\ tool' = [at |-> IF v # 1 /\ v \in ledger THEN "unrecord" ELSE "drop",
                    version |-> v, facts |-> {}, left |-> Migrate!Reverse(Migrate!Script[v])]
        /\ Migrate!Later(v) = {}
    BY <1>4 DEF Migrate!Rollback, Migrate!NoCommand
  <2>2. ToolOK'
    BY <2>1, Scripts DEF ToolOK, Migrate!Commands
  <2>3. v = 1 => ledger \subseteq {1}
    <3>1. ledger \subseteq {1, 2}
      BY Scripts DEF LedgerInv
    <3> QED
      BY <2>1, <3>1 DEF Migrate!Later
  <2> QED
    BY <1>1, <1>2, <2>1, <2>2, <2>3 DEF LedgerInv
<1> QED
  BY <1>3, <1>4

\* A statement is executed.
LEMMA StatementKeepsLedger ==
  ASSUME LedgerInv, Migrate!MigrateStep
  PROVE  LedgerInv'
<1> USE DEF LedgerInv
<1>0. /\ tool.version \in Migrate!Version /\ tool.left \in Seq(MigrateTable)
      /\ tool = [at |-> tool.at, version |-> tool.version, facts |-> tool.facts, left |-> tool.left]
  BY DEF ToolOK
<1>1. CASE Migrate!Create
  <2>1. tool.at = "create" /\ tool.left # <<>>
    BY <1>1 DEF Migrate!Create, ToolOK
  <2>2. /\ tables' = tables \cup {Head(tool.left)} /\ UNCHANGED ledger
        /\ tool' = [at |-> IF Len(tool.left) = 1 THEN "record" ELSE "create",
                    version |-> tool.version, facts |-> tool.facts, left |-> Tail(tool.left)]
    BY <1>0, <1>1 DEF Migrate!Create
  <2>3. ToolOK'
    BY <1>0, <2>1, <2>2, HeadAndTail DEF ToolOK, Migrate!Commands
  <2>4. Migrate!LedgerIsTrue'
    BY <2>2 DEF Migrate!LedgerIsTrue
  <2>5. Migrate!Created(tool.version) \subseteq tables' \cup Migrate!ToSet(tool'.left)
        /\ (Len(tool.left) = 1 => Migrate!Created(tool.version) \subseteq tables')
    BY <1>0, <2>1, <2>2, HeadAndTail
  <2> QED
    BY <2>1, <2>2, <2>3, <2>4, <2>5
<1>2. CASE Migrate!Record
  <2>1. tool.at = "record" /\ tool' = Migrate!NoCommand /\ UNCHANGED tables
        /\ (ledger' = ledger \/ ledger' = ledger \cup {tool.version})
    BY <1>2 DEF Migrate!Record
  <2>2. Migrate!LedgerIsTrue' /\ ledger' \subseteq Migrate!Version
    BY <1>0, <2>1 DEF Migrate!LedgerIsTrue
  <2>3. ToolOK'
    BY <2>1, Scripts DEF ToolOK, Migrate!NoCommand, Migrate!Commands, Migrate!ToSet, Migrate!Version, Migrate!Script
  <2> QED
    BY <2>1, <2>2, <2>3 DEF Migrate!NoCommand
<1>3. CASE Migrate!Unrecord
  <2>1. tool.at = "unrecord" /\ tool.left # <<>> /\ tool.version # 1
    BY <1>3 DEF Migrate!Unrecord, ToolOK
  <2>2. /\ ledger' = ledger \ {tool.version} /\ UNCHANGED tables
        /\ tool' = [at |-> "drop", version |-> tool.version, facts |-> tool.facts,
                    left |-> tool.left]
    BY <1>0, <1>3 DEF Migrate!Unrecord
  <2>3. ToolOK'
    BY <2>1, <2>2 DEF ToolOK, Migrate!Commands
  <2>4. Migrate!LedgerIsTrue' /\ ledger' \subseteq Migrate!Version
    BY <2>2 DEF Migrate!LedgerIsTrue
  <2> QED
    BY <2>1, <2>2, <2>3, <2>4
<1>4. CASE Migrate!Drop
  <2>1. tool.at = "drop" /\ tool.left # <<>>
    BY <1>4 DEF Migrate!Drop, ToolOK
  <2>2. ledger' \subseteq ledger
    BY <1>4 DEF Migrate!Drop
  <2>10. ASSUME Len(tool.left) = 1
         PROVE  tool' = Migrate!NoCommand
    BY <1>4, <2>10 DEF Migrate!Drop
  <2>11. ASSUME Len(tool.left) # 1
         PROVE  tool' = [at |-> "drop", version |-> tool.version, facts |-> tool.facts,
                         left |-> Tail(tool.left)]
    BY <1>0, <1>4, <2>1, <2>11 DEF Migrate!Drop
  <2>3. ToolOK'
    <3>1. CASE Len(tool.left) = 1
      <4>1. tool' = Migrate!NoCommand
        BY <2>10, <3>1
      <4> QED
        BY <4>1, Scripts DEF ToolOK, Migrate!NoCommand, Migrate!Commands, Migrate!ToSet, Migrate!Version, Migrate!Script
    <3>2. CASE Len(tool.left) # 1
      <4>1. /\ tool'.at = "drop" /\ tool'.version = tool.version /\ tool'.facts = tool.facts
            /\ tool'.left = Tail(tool.left) /\ Len(tool.left) # 1
        <5>1. tool' = [at |-> "drop", version |-> tool.version, facts |-> tool.facts,
                         left |-> Tail(tool.left)]
          BY <2>11, <3>2
        <5>2. tool'.at = "drop"
          BY <5>1
        <5>3. tool'.left = Tail(tool.left)
          BY <5>1
        <5> QED
          BY <5>1, <5>2, <5>3, <3>2
      <4>2. Tail(tool.left) \in Seq(MigrateTable) /\ Tail(tool.left) # <<>>
            /\ Migrate!ToSet(Tail(tool.left)) \subseteq Migrate!Created(tool.version)
        BY <1>0, <2>1, <4>1, HeadAndTail DEF ToolOK
      <4>3. tool' \in [at : Migrate!Commands \cup {"idle"}, version : Migrate!Version, facts : {{}}, left : Seq(MigrateTable)]
        BY <1>0, <2>11, <3>2, <4>1, <4>2 DEF ToolOK, Migrate!Commands
      <4> QED
        BY <4>1, <4>2, <4>3 DEF ToolOK
    <3> QED
      BY <3>1, <3>2
  <2>4. ledger' \subseteq {1}
    <3>1. ledger \subseteq {1, 2} /\ tool.version \in {1, 2}
      BY <1>0, Scripts
    <3> QED
      BY <2>1, <2>2, <3>1
  <2>5. Migrate!LedgerIsTrue'
    BY <2>4 DEF Migrate!LedgerIsTrue
  <2>6. ledger' \subseteq Migrate!Version
    BY <2>2
  <2>7. tool.version = 1 \/ tool.version \notin ledger'
    BY <2>1, <2>2
  <2>8. CASE Len(tool.left) = 1
    BY <2>10, <2>3, <2>5, <2>6, <2>8 DEF Migrate!NoCommand
  <2>9. CASE Len(tool.left) # 1
    <3>1. tool'.at = "drop" /\ tool'.version = tool.version
      BY <2>11, <2>9
    <3> QED
      BY <2>3, <2>4, <2>5, <2>6, <2>7, <3>1
  <2> QED
    BY <2>8, <2>9
<1> QED
  BY <1>1, <1>2, <1>3, <1>4 DEF Migrate!MigrateStep

LEMMA MigrateMoves == [Next]_vars => [Migrate!MigrateNext]_migrateVars
  BY DEF Next, vars, OnlyFocus, migrateVars

LEMMA LedgerInvariant == Spec => []LedgerInv
<1>1. Migrate!MigrateInit => LedgerInv
  <2> SUFFICES ASSUME Migrate!MigrateInit
               PROVE  LedgerInv
    OBVIOUS
  <2>1. ToolOK
    BY DEF Migrate!MigrateInit, ToolOK, Migrate!NoCommand, Migrate!Commands, Migrate!ToSet, Migrate!Version, Migrate!Script
  <2> QED
    BY <2>1 DEF Migrate!MigrateInit, LedgerInv, Migrate!LedgerIsTrue, Migrate!NoCommand
<1>2. ASSUME LedgerInv, [Migrate!MigrateNext]_migrateVars
      PROVE  LedgerInv'
  <2>1. CASE Migrate!PublishOrUnpublish \/ UNCHANGED migrateVars
    BY <1>2, <2>1 DEF Migrate!PublishOrUnpublish, migrateVars, LedgerInv, Migrate!LedgerIsTrue, ToolOK
  <2>2. CASE Migrate!MigrateStep
    BY <1>2, <2>2, StatementKeepsLedger
  <2>3. CASE Migrate!Stops
    <3>1. tool' = Migrate!NoCommand /\ UNCHANGED <<tables, ledger>>
      BY <2>3 DEF Migrate!Stops
    <3>2. ToolOK'
      BY <3>1 DEF ToolOK, Migrate!NoCommand, Migrate!Commands, Migrate!ToSet, Migrate!Version, Migrate!Script
    <3> QED
      BY <1>2, <3>1, <3>2 DEF LedgerInv, Migrate!LedgerIsTrue, Migrate!NoCommand
  <2>4. ASSUME NEW v \in Migrate!Version, NEW force \in BOOLEAN, Migrate!Apply(v) \/ Migrate!Rollback(v, force)
        PROVE  LedgerInv'
    BY <1>2, <2>4, CommandKeepsLedger
  <2> QED
    BY <1>2, <2>1, <2>2, <2>3, <2>4 DEF Migrate!MigrateNext
<1>3. Init => LedgerInv
  BY <1>1 DEF Init
<1>4. LedgerInv /\ [Next]_vars => LedgerInv'
  BY <1>2, MigrateMoves
<1> QED
  BY <1>3, <1>4, PTL DEF Spec

-----------------------------------------------------------------------------
(* Startup.                                                                *)

\* The plan of main.lifespan: a step that looks for one object makes that object.
PlanConstants ==
  /\ Len(Plan) \in Nat \ {0} /\ DOMAIN Plan = 1 .. Len(Plan)
  /\ \A i \in DOMAIN Plan :
       /\ Len(Plan[i].makes) \in Nat \ {0}
       /\ Start!Cardinality(Plan[i].unless) = 1 =>
            \E k \in 1 .. Len(Plan[i].makes) :
              Plan[i].unless = {Plan[i].makes[k]} /\ Plan[i].makes[k] # "trainees"

LEMMA PlanLooks == PlanConstants
<1>1. /\ Plan \in Seq([unless : SUBSET STRING, makes : Seq(STRING)]) /\ Plan # <<>>
      /\ \A i \in DOMAIN Plan :
           /\ Len(Plan[i].makes) \in 1 .. 2
           /\ Cardinality(Plan[i].unless) = 1 =>
                \E k \in DOMAIN Plan[i].makes :
                  Plan[i].unless = {Plan[i].makes[k]} /\ Plan[i].makes[k] # "trainees"
  BY LooksForWhatItMakes
<1>2. Len(Plan) \in Nat \ {0} /\ DOMAIN Plan = 1 .. Len(Plan)
  BY <1>1
<1>3. ASSUME NEW i \in DOMAIN Plan
      PROVE  Len(Plan[i].makes) \in Nat \ {0} /\ DOMAIN Plan[i].makes = 1 .. Len(Plan[i].makes)
  <2>0. Plan[i] \in [unless : SUBSET STRING, makes : Seq(STRING)]
    <3> DEFINE U == [unless : SUBSET STRING, makes : Seq(STRING)]
    <3>1. Plan \in Seq(U)
      BY <1>1
    <3> HIDE DEF U
    <3>2. Plan[i] \in U
      BY <3>1, ElementOfSeq, <1>2
    <3> QED
      BY <3>2 DEF U
  <2>1. Plan[i].makes \in Seq(STRING) /\ Len(Plan[i].makes) \in 1 .. 2
    BY <1>1, <2>0
  <2> QED
    BY <2>1
<1>4. \A S : Start!Cardinality(S) = Cardinality(S)
  BY DEF Start!Cardinality, Cardinality
<1> QED
  BY <1>1, <1>2, <1>3, <1>4 DEF PlanConstants

Made(i) == Start!Cardinality(Plan[i].unless) = 1 => Plan[i].unless \subseteq database

\* A server has seen to the steps before the one it is at, and to the statements of that step
\* before the one it is at.
SeenTo(s) ==
  /\ progress[s].at = "up" => \A i \in DOMAIN Plan : Made(i)
  /\ progress[s].at \in {"check", "make"} =>
       /\ progress[s].unit \in 1 .. Len(Plan)
       /\ \A i \in 1 .. progress[s].unit - 1 : Made(i)
  /\ progress[s].at = "make" =>
       /\ progress[s].statement \in Nat \ {0}
       /\ \A k \in 1 .. progress[s].statement - 1 : Start!UnitOf(s).makes[k] \in database \cup {"trainees"}

StartInv == DOMAIN progress = Server /\ \A s \in Server : SeenTo(s)

\* What others do leaves a server where it is, and makes more.
LEMMA OthersStaySeenTo ==
  ASSUME NEW s, SeenTo(s), progress'[s] = progress[s], database \subseteq database'
  PROVE  SeenTo(s)'
BY DEF SeenTo, Made, Start!UnitOf

\* A server that is done with a step goes to the next.
LEMMA NextUnitSeenTo ==
  ASSUME PlanConstants, DOMAIN progress = Server, NEW s \in Server,
         SeenTo(s), progress[s].at \in {"check", "make"},
         NEW u, u = progress[s].unit, Made(u)',
         Start!NextUnit(s), database \subseteq database'
  PROVE  SeenTo(s)'
<1>1. u \in 1 .. Len(Plan) /\ Len(Plan) \in Nat /\ DOMAIN Plan = 1 .. Len(Plan)
  BY DEF SeenTo, PlanConstants
<1>2. progress'[s] = [at |-> IF u = Len(Plan) THEN "up" ELSE "check", unit |-> u + 1, statement |-> 1]
  BY DEF Start!NextUnit, Start!At
<1>3. \A i \in 1 .. u - 1 : Made(i)'
  BY DEF SeenTo, Made
<1>4. \A i \in 1 .. u : Made(i)'
  <2>1. \A i \in 1 .. u : i = u \/ i \in 1 .. u - 1
    BY <1>1
  <2> QED
    BY <1>3, <2>1
<1>5. CASE u = Len(Plan)
  BY <1>1, <1>2, <1>4, <1>5 DEF SeenTo
<1>6. CASE u # Len(Plan)
  <2>1. progress'[s].at = "check" /\ progress'[s].unit = u + 1
    BY <1>2, <1>6
  <2>2. u + 1 \in 1 .. Len(Plan) /\ (u + 1) - 1 = u
    BY <1>1, <1>6
  <2> QED
    BY <1>4, <2>1, <2>2 DEF SeenTo
<1> QED
  BY <1>5, <1>6

LEMMA ServerStepSeenTo ==
  ASSUME PlanConstants, DOMAIN progress = Server, NEW s \in Server, SeenTo(s),
         Start!Boot(s) \/ Start!Check(s) \/ Start!Make(s) \/ Start!Die(s) \/ Start!Promote(s)
  PROVE  SeenTo(s)'
<1>1. CASE Start!Boot(s)
  <2>1. progress'[s].at = "check" /\ progress'[s].unit = 1
    BY <1>1 DEF Start!Boot, Start!At
  <2> QED
    BY <2>1 DEF SeenTo, PlanConstants
<1>2. CASE Start!Check(s)
  <2>1. progress[s].at = "check" /\ UNCHANGED database
    BY <1>2 DEF Start!Check
  <2>2. progress[s].unit \in DOMAIN Plan
    BY <2>1 DEF SeenTo, PlanConstants
  <2>3. CASE Start!UnitOf(s).unless \cap database # {}
    <3>1. Start!NextUnit(s)
      BY <1>2, <2>3 DEF Start!Check
    <3>2. PICK u \in DOMAIN Plan : u = progress[s].unit
      BY <2>2
    <3>3. ASSUME Start!Cardinality(Plan[u].unless) = 1
          PROVE  Plan[u].unless \subseteq database'
      <4>1. PICK k \in 1 .. Len(Plan[u].makes) : Plan[u].unless = {Plan[u].makes[k]}
        BY <3>3 DEF PlanConstants
      <4> QED
        BY <2>1, <2>3, <3>2, <4>1 DEF Start!UnitOf
    <3>4. Made(u)'
      BY <3>3 DEF Made
    <3> QED
      BY <2>1, <3>1, <3>2, <3>4, NextUnitSeenTo
  <2>4. CASE Start!UnitOf(s).unless \cap database = {}
    <3>1. progress'[s].at = "make" /\ progress'[s].unit = progress[s].unit /\ progress'[s].statement = 1
      BY <1>2, <2>4 DEF Start!Check, Start!At
    <3> QED
      BY <2>1, <3>1 DEF SeenTo, Made
  <2> QED
    BY <2>3, <2>4
<1>3. CASE Start!Make(s)
  <2>1. /\ progress[s].at = "make" /\ database \subseteq database'
        /\ Start!Statement(s) \in database' \cup {"trainees"}
    BY <1>3 DEF Start!Make
  <2>2. CASE Start!Statement(s) \in database
    <3>1. progress'[s].at = "down"
      BY <1>3, <2>2 DEF Start!Make, Start!Down
    <3> QED
      BY <3>1 DEF SeenTo
  <2>3. CASE Start!Statement(s) \notin database
    <3> DEFINE k == progress[s].statement
               n == Len(Start!UnitOf(s).makes)
    <3>0. PICK u : u = progress[s].unit
      OBVIOUS
    <3>1. Start!NextStatement(s)
      BY <1>3, <2>3 DEF Start!Make
    <3>2. u \in DOMAIN Plan /\ k \in Nat \ {0} /\ n \in Nat \ {0}
      BY <2>1, <3>0 DEF SeenTo, PlanConstants, Start!UnitOf
    <3>3. \A j \in 1 .. k : Plan[u].makes[j] \in database' \cup {"trainees"}
      <4>1. \A j \in 1 .. k - 1 : Plan[u].makes[j] \in database' \cup {"trainees"}
        BY <2>1, <3>0 DEF SeenTo, Start!UnitOf
      <4>2. Plan[u].makes[k] \in database' \cup {"trainees"}
        BY <2>1, <3>0 DEF Start!Statement, Start!UnitOf
      <4> QED
        BY <3>2, <4>1, <4>2
    <3>4. CASE k < n
      <4>1. progress'[s].at = "make" /\ progress'[s].unit = u /\ progress'[s].statement = k + 1
        BY <3>0, <3>1, <3>4 DEF Start!NextStatement, Start!At
      <4>2. k + 1 \in Nat \ {0} /\ (k + 1) - 1 = k
        BY <3>2
      <4>3. u \in 1 .. Len(Plan) /\ \A i \in 1 .. u - 1 : Made(i)'
        BY <2>1, <3>0 DEF SeenTo, Made
      <4> QED
        BY <3>3, <4>1, <4>2, <4>3 DEF SeenTo, Start!UnitOf
    <3>5. CASE ~(k < n)
      <4>1. Start!NextUnit(s)
        BY <3>1, <3>5 DEF Start!NextStatement
      <4>2. ASSUME Start!Cardinality(Plan[u].unless) = 1
            PROVE  Plan[u].unless \subseteq database'
        <5>1. PICK j \in 1 .. n : Plan[u].unless = {Plan[u].makes[j]} /\ Plan[u].makes[j] # "trainees"
          BY <3>0, <3>2, <4>2 DEF PlanConstants, Start!UnitOf
        <5>2. j \in 1 .. k
          BY <3>2, <3>5
        <5> QED
          BY <3>3, <5>1, <5>2
      <4>3. Made(u)'
        BY <4>2 DEF Made
      <4> QED
        BY <2>1, <3>0, <4>1, <4>3, NextUnitSeenTo
    <3> QED
      BY <3>4, <3>5
  <2> QED
    BY <2>2, <2>3
<1>4. CASE Start!Die(s)
  <2>1. progress'[s].at = "down"
    BY <1>4 DEF Start!Die, Start!Down
  <2> QED
    BY <2>1 DEF SeenTo
<1>5. CASE Start!Promote(s)
  BY <1>5, OthersStaySeenTo DEF Start!Promote
<1> QED
  BY <1>1, <1>2, <1>3, <1>4, <1>5

LEMMA StartMoves == [Next]_vars => [Start!StartNext]_startVars
  BY DEF Next, vars, OnlyFocus, startVars

LEMMA StartInvariant == Spec => []StartInv
<1> USE PlanLooks
<1>1. Start!StartInit => StartInv
  BY DEF Start!StartInit, StartInv, SeenTo, Start!Down
<1>2. ASSUME StartInv, [Start!StartNext]_startVars
      PROVE  StartInv'
  <2>1. CASE UNCHANGED startVars
    BY <1>2, <2>1, OthersStaySeenTo DEF StartInv, startVars
  <2>2. ASSUME NEW s \in Server, Start!Boot(s) \/ Start!Check(s) \/ Start!Make(s) \/ Start!Die(s) \/ Start!Promote(s)
        PROVE  StartInv'
    <3>1. /\ DOMAIN progress' = Server /\ database \subseteq database'
          /\ \A other \in Server \ {s} : progress'[other] = progress[other]
      BY <1>2, <2>2 DEF StartInv, Start!Boot, Start!Check, Start!Make, Start!Die, Start!Promote, Start!NextStatement, Start!NextUnit, Start!At
    <3>2. SeenTo(s)'
      BY <1>2, <2>2, ServerStepSeenTo DEF StartInv
    <3>3. \A other \in Server \ {s} : SeenTo(other)'
      BY <1>2, <3>1, OthersStaySeenTo DEF StartInv
    <3> QED
      BY <3>1, <3>2, <3>3 DEF StartInv
  <2> QED
    BY <1>2, <2>1, <2>2 DEF Start!StartNext
<1>3. Init => StartInv
  BY <1>1 DEF Init
<1>4. StartInv /\ [Next]_vars => StartInv'
  BY <1>2, StartMoves
<1> QED
  BY <1>3, <1>4, PTL DEF Spec

\* main.lifespan and migrate.py: a server that is up finds every object that some start looks for
\* by itself, and a later version in the ledger has all its tables, wherever servers and commands stop.
THEOREM SchemaStaysWhole == Spec => []SchemaIsWhole
<1>1. StartInv => Start!UpIsComplete
  BY DEF StartInv, SeenTo, Start!UpIsComplete, Made
<1>2. LedgerInv /\ StartInv => SchemaIsWhole
  BY <1>1 DEF LedgerInv, SchemaIsWhole
<1> QED
  BY <1>2, LedgerInvariant, StartInvariant, PTL

-----------------------------------------------------------------------------
(* The constants of files, backups and vectors.                            *)

FileConstants ==
  /\ {MaxChunks, MaxSize, Stamps, DumpSize, MaxTexts} \subseteq Nat
  /\ BatchSize \in Nat \ {0} /\ KeepN \in Int /\ Gone \notin Nat
  /\ Extract!Free \notin Extract!Thread

LEMMA TheFileConstants == FileConstants
  BY ServicesAssumption DEF FileConstants, Extract!Free, Extract!Thread

-----------------------------------------------------------------------------
(* Downloads.                                                              *)

\* Nothing is downloaded before the download, and the file is there only in the end.
DownloadInv ==
  /\ file \in [part : Nat, dest : Nat, size : Nat]
  /\ step # "over" => file.dest = 0
  /\ step # "download" => file.part = 0
  /\ step = "over" => file.dest \in {0, file.size}

LEMMA NextDownload ==
  ASSUME FileConstants, DownloadInv, [Graph!Next]_graphVars
  PROVE  DownloadInv'
<1>1. CASE UNCHANGED <<step, file>>
  BY <1>1 DEF DownloadInv
<1>2. CASE UNCHANGED file /\ file.part = 0 /\ step # "over"
  BY <1>2 DEF DownloadInv
<1>3. ASSUME NEW code, Graph!Fail(code), step # "over"
      PROVE  DownloadInv'
  <2> DEFINE r == [file EXCEPT !.part = 0]
  <2>1. r \in [part : Nat, dest : Nat, size : Nat] /\ r.part = 0 /\ r.dest = file.dest
    BY DEF DownloadInv
  <2>2. file' = r
    BY <1>3 DEF Graph!Fail
  <2> HIDE DEF r
  <2> QED
    BY <1>3, <2>1, <2>2 DEF DownloadInv
<1>4. CASE Graph!Open
  <2> PICK size \in 1..(MaxChunks + 1) : file' = [file EXCEPT !.size = size]
    BY <1>4 DEF Graph!Open
  <2> DEFINE r == [file EXCEPT !.size = size]
  <2>1. r \in [part : Nat, dest : Nat, size : Nat] /\ r.part = file.part /\ r.dest = file.dest
    BY DEF DownloadInv, FileConstants
  <2> HIDE DEF r
  <2>2. file' = r
    BY DEF r
  <2> QED
    BY <1>4, <2>1, <2>2 DEF DownloadInv, Graph!Open
<1>5. CASE Graph!Chunk
  <2>1. CASE file.part < MaxChunks
    <3> DEFINE r == [file EXCEPT !.part = @ + 1]
    <3>1. r \in [part : Nat, dest : Nat, size : Nat] /\ r.dest = file.dest
      BY DEF DownloadInv
    <3> HIDE DEF r
    <3>2. file' = r
      BY <1>5, <2>1 DEF r, Graph!Chunk
    <3> QED
      BY <1>5, <2>1, <3>1, <3>2 DEF DownloadInv, Graph!Chunk
  <2> QED
    BY <1>3, <1>5, <2>1 DEF Graph!Chunk
<1>6. CASE Graph!Rename
  <2> DEFINE r == [file EXCEPT !.part = 0, !.dest = file.part]
  <2>1. r \in [part : Nat, dest : Nat, size : Nat] /\ r.part = 0 /\ r.dest = file.part /\ r.size = file.size
    BY DEF DownloadInv
  <2> HIDE DEF r
  <2>2. file' = r
    BY <1>6 DEF r, Graph!Rename
  <2> QED
    BY <1>6, <2>1, <2>2 DEF DownloadInv, Graph!Rename
<1>7. CASE Graph!OutOfTime \/ Graph!SignInFails \/ Graph!Refused \/ Graph!StreamBreaks
  BY <1>3, <1>7 DEF Graph!OutOfTime, Graph!SignInFails, Graph!Refused, Graph!StreamBreaks, Graph!Asking
<1>8. CASE Graph!CheckReady \/ Graph!SignIn \/ Graph!Unauthorized \/ Graph!Throttled \/ Graph!Resolved
           \/ Graph!TimePasses
  BY <1>1, <1>2, <1>3, <1>8 DEF DownloadInv, Graph!CheckReady, Graph!SignIn, Graph!Unauthorized, Graph!Throttled,
     Graph!Resolved, Graph!TimePasses, Graph!Asking
<1>9. CASE Graph!Page \/ Graph!TimeLimit
  BY <1>1, <1>2, <1>9 DEF DownloadInv, Graph!Page, Graph!TimeLimit
<1>10. CASE \E i \in Graph!Item, to \in Folder \cup {Outside} : Graph!Move(i, to)
  BY <1>1, <1>10 DEF Graph!Move, Graph!session
<1>11. CASE UNCHANGED graphVars
  BY <1>1, <1>11 DEF graphVars
<1> QED
  BY <1>4, <1>5, <1>6, <1>7, <1>8, <1>9, <1>10, <1>11 DEF Graph!Next, Graph!SessionStep

LEMMA DownloadStart == ASSUME Graph!Init PROVE DownloadInv
  BY DEF Graph!Init, DownloadInv

LEMMA DownloadsWhole == ASSUME DownloadInv PROVE Graph!DownloadsAreWhole
  BY DEF DownloadInv, Graph!DownloadsAreWhole

-----------------------------------------------------------------------------
(* Extractions.                                                            *)

\* Threads that have the slot, and where a child may be at work.
Holding == {"prepare", "spawn", "track", "communicate", "read"}
ExtractThreads == [Extract!Thread -> Extract!Resting \cup {"wait"} \cup Holding]

\* A child at work belongs to the thread that has the slot and waits for it.  What is there
\* before a child has saved is not of this attempt, and what is there then is.
ExtractionInv ==
  /\ slot \in Extract!Thread \cup {Extract!Free}
  /\ thread \in ExtractThreads
  /\ child \in [Extract!Thread -> Extract!Stages \cup Extract!Ended]
  /\ tracked \subseteq Extract!Thread
  /\ result \in [Extract!Thread -> Extract!Results]
  /\ stopping \in {"no", "requested", "killed", "scheduler", "sync", "import", "done"}
  /\ \A t \in Extract!Thread :
       /\ thread[t] \in Holding => slot = t
       /\ child[t] # "none" => thread[t] \in {"track", "communicate", "read"}
       /\ thread[t] = "read" => ~Extract!Alive(t)
       /\ thread[t] \in {"wait", "prepare"} => result[t] # "new"
       /\ thread[t] = "spawn" => result[t] = "none"
       /\ child[t] \in {"saved", "ok"} => result[t] = "new"
  /\ Extract!ResultIsOfThisAttempt

LEMMA ExtractionStart == ASSUME Extract!ExtractInit PROVE ExtractionInv
<1> USE DEF Extract!ExtractInit
<1>1. thread \in ExtractThreads /\ \A t \in Extract!Thread : thread[t] = "idle"
  BY DEF ExtractThreads, Extract!Resting
<1>2. child \in [Extract!Thread -> Extract!Stages \cup Extract!Ended] /\ \A t \in Extract!Thread : child[t] = "none"
  BY DEF Extract!Ended
<1>3. result \in [Extract!Thread -> Extract!Results]
  BY DEF Extract!Results
<1> QED
  BY <1>1, <1>2, <1>3 DEF ExtractionInv, Holding, Extract!ResultIsOfThisAttempt, Extract!Free

\* Where a thread may be, with a child and a result.
Fits(t, place, c, kept) ==
  /\ place \in Extract!Resting \cup {"wait"} \cup Holding
  /\ c \in Extract!Stages \cup Extract!Ended
  /\ kept \in Extract!Results
  /\ c # "none" => place \in {"track", "communicate", "read"}
  /\ place = "read" => c \notin Extract!Stages
  /\ place \in {"wait", "prepare"} => kept # "new"
  /\ place = "spawn" => kept = "none"
  /\ c \in {"saved", "ok"} => kept = "new"
  /\ place = "document" => kept = "new"
  /\ place = "failed" /\ t \notin Sync => kept = "none"
  /\ place = "refused" => kept # "new"

\* A step of one thread and its child.
LEMMA ThreadMoves ==
  ASSUME FileConstants, ExtractionInv, NEW t \in Extract!Thread,
         slot' \in Extract!Thread \cup {Extract!Free},
         NEW place, thread' = [thread EXCEPT ![t] = place],
         NEW c, child' = [child EXCEPT ![t] = c],
         NEW kept, result' = [result EXCEPT ![t] = kept], Fits(t, place, c, kept),
         tracked' \subseteq Extract!Thread, UNCHANGED stopping,
         slot' = slot \/ (slot = Extract!Free /\ slot' = t) \/ (slot = t /\ slot' = Extract!Free),
         place \in Holding => slot' = t
  PROVE  ExtractionInv'
<1> USE DEF Fits
<1>1. /\ thread' \in ExtractThreads /\ thread'[t] = place
      /\ \A u \in Extract!Thread \ {t} : thread'[u] = thread[u]
  BY DEF ExtractionInv, ExtractThreads
<1>2. /\ child' \in [Extract!Thread -> Extract!Stages \cup Extract!Ended] /\ child'[t] = c
      /\ \A u \in Extract!Thread \ {t} : child'[u] = child[u]
  BY DEF ExtractionInv
<1>3. /\ result' \in [Extract!Thread -> Extract!Results] /\ result'[t] = kept
      /\ \A u \in Extract!Thread \ {t} : result'[u] = result[u]
  BY DEF ExtractionInv
<1>4. ASSUME NEW u \in Extract!Thread
      PROVE  /\ (thread[u] \in Holding => slot = u)'
             /\ (child[u] # "none" => thread[u] \in {"track", "communicate", "read"})'
             /\ (thread[u] = "read" => ~Extract!Alive(u))'
             /\ (thread[u] \in {"wait", "prepare"} => result[u] # "new")'
             /\ (thread[u] = "spawn" => result[u] = "none")'
             /\ (child[u] \in {"saved", "ok"} => result[u] = "new")'
             /\ (thread[u] = "document" => result[u] = "new")'
             /\ (thread[u] = "failed" /\ u \notin Sync => result[u] = "none")'
             /\ (thread[u] = "refused" => result[u] # "new")'
  <2>1. CASE u = t
    BY <1>1, <1>2, <1>3, <2>1 DEF Extract!Alive
  <2>2. CASE u # t
    <3>1. thread[u] \in Holding => slot = u
      BY DEF ExtractionInv
    <3>2. thread[u] \in Holding => slot' = u
      BY <2>2, <3>1 DEF FileConstants
    <3> QED
      BY <1>1, <1>2, <1>3, <2>2, <3>2 DEF ExtractionInv, Extract!Alive, Extract!ResultIsOfThisAttempt
  <2> QED
    BY <2>1, <2>2
<1> QED
  BY <1>1, <1>2, <1>3, <1>4 DEF ExtractionInv, Extract!ResultIsOfThisAttempt

\* The kills of a shutdown.
LEMMA StopKeeps ==
  ASSUME ExtractionInv, Extract!StopStep
  PROVE  ExtractionInv'
<1>1. /\ child' \in [Extract!Thread -> Extract!Stages \cup Extract!Ended]
      /\ \A t \in Extract!Thread : child'[t] = child[t] \/ (child[t] \in Extract!Stages /\ child'[t] = "killed")
  BY DEF ExtractionInv, Extract!StopStep, Extract!Killed, Extract!Alive, Extract!Ended
<1>2. stopping' \in {"no", "requested", "killed", "scheduler", "sync", "import", "done"}
  BY DEF ExtractionInv, Extract!StopStep
<1>3. UNCHANGED <<slot, thread, tracked, result>>
  BY DEF Extract!StopStep
<1>4. "none" \notin Extract!Stages /\ "killed" \notin Extract!Stages
  BY DEF Extract!Stages
<1> QED
  BY <1>1, <1>2, <1>3, <1>4 DEF ExtractionInv, Extract!Alive, Extract!ResultIsOfThisAttempt

LEMMA NextExtraction ==
  ASSUME FileConstants, ExtractionInv, [Extract!ExtractNext]_extractVars
  PROVE  ExtractionInv'
<1>1. CASE UNCHANGED extractVars
  BY <1>1 DEF extractVars, ExtractionInv, Extract!Alive, Extract!ResultIsOfThisAttempt
<1>2. ASSUME NEW t \in Extract!Thread,
             \/ Extract!Ask(t) \/ Extract!Take(t) \/ Extract!ThreadStep(t)
             \/ Extract!NextStage(t) \/ Extract!Exit(t) \/ Extract!Refuse(t)
      PROVE  ExtractionInv'
  <2>0. /\ slot \in Extract!Thread \cup {Extract!Free}
        /\ thread[t] \in Extract!Resting \cup {"wait"} \cup Holding /\ thread = [thread EXCEPT ![t] = thread[t]]
        /\ child[t] \in Extract!Stages \cup Extract!Ended /\ child = [child EXCEPT ![t] = child[t]]
        /\ result[t] \in Extract!Results /\ result = [result EXCEPT ![t] = result[t]]
        /\ tracked \subseteq Extract!Thread
        /\ thread[t] \in Holding => slot = t
        /\ child[t] # "none" => thread[t] \in {"track", "communicate", "read"}
        /\ Fits(t, thread[t], child[t], result[t])
    BY DEF ExtractionInv, ExtractThreads, Fits, Extract!Alive, Extract!ResultIsOfThisAttempt
  <2>1. CASE Extract!Ask(t)
    <3>1. PICK place \in {"wait", "skipped", "refused"}, kept \in {"none", "old"} :
            thread' = [thread EXCEPT ![t] = place] /\ result' = [result EXCEPT ![t] = kept]
      BY <2>1 DEF Extract!Ask, Extract!Goes
    <3>2. /\ child[t] = "none" /\ slot' = slot /\ child' = [child EXCEPT ![t] = "none"]
          /\ tracked' \subseteq Extract!Thread /\ UNCHANGED stopping
      BY <2>0, <2>1 DEF Extract!Ask, Extract!Resting
    <3>3. Fits(t, place, "none", kept) /\ place \notin Holding
      BY <3>1 DEF Fits, Extract!Resting, Extract!Results, Extract!Stages, Extract!Ended, Holding
    <3> QED
      BY <2>0, <3>1, <3>2, <3>3, ThreadMoves
  <2>2. CASE Extract!Take(t)
    <3>1. /\ thread' = [thread EXCEPT ![t] = "prepare"] /\ slot' = t /\ slot = Extract!Free
          /\ child' = [child EXCEPT ![t] = "none"] /\ result' = [result EXCEPT ![t] = result[t]]
          /\ tracked' \subseteq Extract!Thread /\ UNCHANGED stopping
      BY <2>0, <2>2 DEF Extract!Take, Extract!Goes
    <3>2. Fits(t, "prepare", "none", result[t])
      BY <2>0, <2>2 DEF Fits, Extract!Take, Extract!Stages, Extract!Ended, Holding
    <3> QED
      BY <2>0, <3>1, <3>2, ThreadMoves
  <2>3. CASE Extract!Prepare(t)
    <3>1. /\ thread' = [thread EXCEPT ![t] = "spawn"] /\ slot' = t /\ slot = t
          /\ child' = [child EXCEPT ![t] = "none"] /\ result' = [result EXCEPT ![t] = "none"]
          /\ tracked' \subseteq Extract!Thread /\ UNCHANGED stopping
      BY <2>0, <2>3 DEF Extract!Prepare, Extract!Goes, Holding
    <3>2. Fits(t, "spawn", "none", "none")
      BY DEF Fits, Extract!Results, Extract!Stages, Extract!Ended, Extract!Resting, Holding
    <3> QED
      BY <2>0, <3>1, <3>2, ThreadMoves
  <2>4. CASE Extract!Spawn(t)
    <3>1. /\ thread' = [thread EXCEPT ![t] = "track"] /\ slot' = t /\ slot = t
          /\ child' = [child EXCEPT ![t] = "extraction"] /\ result' = [result EXCEPT ![t] = result[t]]
          /\ tracked' \subseteq Extract!Thread /\ UNCHANGED stopping
      BY <2>0, <2>4 DEF Extract!Spawn, Extract!Goes, Holding
    <3>2. Fits(t, "track", "extraction", result[t])
      BY <2>0, <2>4 DEF Fits, Extract!Spawn, Extract!Alive, Extract!Stages, Extract!Ended, Extract!Resting, Holding
    <3> QED
      BY <2>0, <3>1, <3>2, ThreadMoves
  <2>5. CASE Extract!Track(t)
    <3>1. /\ thread' = [thread EXCEPT ![t] = "communicate"] /\ slot' = t /\ slot = t
          /\ child' = [child EXCEPT ![t] = child[t]] /\ result' = [result EXCEPT ![t] = result[t]]
          /\ tracked' \subseteq Extract!Thread /\ UNCHANGED stopping
      BY <2>0, <2>5 DEF Extract!Track, Extract!Goes, Holding
    <3>2. Fits(t, "communicate", child[t], result[t])
      BY <2>0, <2>5 DEF Fits, Extract!Track, Extract!Alive, Extract!Stages, Extract!Ended, Extract!Resting, Holding
    <3> QED
      BY <2>0, <3>1, <3>2, ThreadMoves
  <2>6. CASE Extract!Communicate(t)
    <3> DEFINE c == IF Extract!Alive(t) THEN "killed" ELSE child[t]
    <3>1. Fits(t, "read", c, result[t])
      BY <2>0 DEF Fits, Extract!Alive, Extract!Stages, Extract!Ended, Holding
    <3>2. /\ thread' = [thread EXCEPT ![t] = "read"] /\ slot' = t /\ slot = t
          /\ child' = [child EXCEPT ![t] = c] /\ result' = [result EXCEPT ![t] = result[t]]
          /\ tracked' \subseteq Extract!Thread /\ UNCHANGED stopping
      BY <2>0, <2>6 DEF Extract!Communicate, Extract!Goes, Holding
    <3> HIDE DEF c
    <3> QED
      BY <2>0, <3>1, <3>2, ThreadMoves
  <2>7. CASE Extract!Read(t)
    <3> DEFINE place == IF Extract!Loads(t) THEN "document" ELSE "failed"
               kept == IF Extract!Loads(t) \/ t \in Sync THEN result[t] ELSE "none"
    <3>1. Fits(t, place, "none", kept) /\ place \notin Holding
      BY <2>0 DEF Fits, Extract!Loads, Extract!Resting, Extract!Results, Extract!Stages, Extract!Ended, Holding
    <3>2. /\ thread' = [thread EXCEPT ![t] = place] /\ result' = [result EXCEPT ![t] = kept]
          /\ slot' = Extract!Free /\ child' = [child EXCEPT ![t] = "none"] /\ UNCHANGED <<tracked, stopping>>
          /\ slot = t
      BY <2>0, <2>7 DEF Extract!Read, Extract!Goes, Holding
    <3> HIDE DEF kept, place
    <3> QED
      BY <2>0, <3>1, <3>2, ThreadMoves
  <2>8. CASE Extract!NextStage(t)
    <3>1. PICK c \in Extract!Stages :
            /\ child' = [child EXCEPT ![t] = c]
            /\ c = "saved" => child[t] = "saving"
      BY <2>0, <2>8 DEF Extract!NextStage, Extract!Alive, Extract!Stages
    <3> DEFINE kept == IF child[t] = "saving" THEN "new" ELSE result[t]
    <3>2. result' = [result EXCEPT ![t] = kept]
      BY <2>0, <2>8 DEF Extract!NextStage
    <3>3. /\ thread[t] \in {"track", "communicate"} /\ slot' = t /\ slot = t
          /\ thread' = [thread EXCEPT ![t] = thread[t]]
          /\ UNCHANGED <<tracked, stopping>>
      BY <2>0, <2>8 DEF Extract!NextStage, Extract!Alive, Extract!Stages, Holding, Fits
    <3>4. Fits(t, thread[t], c, kept)
      BY <2>0, <3>1, <3>3 DEF Fits, Extract!Results, Extract!Stages
    <3> HIDE DEF kept
    <3> QED
      BY <2>0, <3>1, <3>2, <3>3, <3>4, ThreadMoves
  <2>9. CASE Extract!Exit(t) \/ Extract!Refuse(t)
    <3>1. PICK c \in {"ok", "failed"} :
            child' = [child EXCEPT ![t] = c] /\ (c = "ok" => child[t] = "saved")
      BY <2>9 DEF Extract!Exit, Extract!Refuse
    <3>2. /\ thread' = [thread EXCEPT ![t] = thread[t]] /\ slot' = slot
          /\ result' = [result EXCEPT ![t] = result[t]]
          /\ tracked' \subseteq Extract!Thread /\ UNCHANGED stopping
          /\ thread[t] \in {"track", "communicate"}
      BY <2>0, <2>9 DEF Extract!Exit, Extract!Refuse, Extract!Alive, Extract!Stages, Fits
    <3>3. Fits(t, thread[t], c, result[t]) /\ slot = t
      BY <2>0, <3>1, <3>2 DEF Fits, Extract!Stages, Extract!Ended, Holding
    <3> QED
      BY <2>0, <3>1, <3>2, <3>3, ThreadMoves
  <2>10. CASE Extract!RefuseEarly(t) \/ Extract!CannotSpawn(t)
    <3>1. PICK place \in {"refused", "failed"} :
            /\ thread' = [thread EXCEPT ![t] = place]
            /\ place = "refused" => thread[t] = "prepare"
            /\ place = "failed" => thread[t] = "spawn"
      BY <2>10 DEF Extract!RefuseEarly, Extract!CannotSpawn, Extract!Goes
    <3>2. /\ slot = t /\ slot' = Extract!Free /\ child' = [child EXCEPT ![t] = "none"]
          /\ result' = [result EXCEPT ![t] = result[t]] /\ UNCHANGED <<tracked, stopping>>
      BY <2>0, <2>10 DEF Extract!RefuseEarly, Extract!CannotSpawn, Holding
    <3>3. Fits(t, place, "none", result[t]) /\ place \notin Holding
      BY <2>0, <3>1 DEF Fits, Extract!Resting, Extract!Stages, Extract!Ended, Holding
    <3> QED
      BY <2>0, <3>1, <3>2, <3>3, ThreadMoves
  <2> QED
    BY <1>2, <2>1, <2>2, <2>3, <2>4, <2>5, <2>6, <2>7, <2>8, <2>9, <2>10 DEF Extract!ThreadStep
<1> QED
  BY <1>1, <1>2, StopKeeps DEF Extract!ExtractNext

-----------------------------------------------------------------------------
(* Uploads.                                                                *)

\* The thread a request waits for: none before a piece is read, and between its works.
WorkOf(place) == IF place \in {"open", "write", "finish", "commit"} THEN place ELSE "none"
Streaming == {"open", "read", "write", "finish", "validate", "commit"}
Sizes == 0..MaxSize

UploadRequest == [at : Streaming \cup {"idle", "duplicate", "insert", "reject", "over"}, size : Sizes]
UploadDir == [dir : BOOLEAN, part : Sizes \cup {Gone}, original : Sizes \cup {Gone}]
UploadRow == {"none", "QUEUED", "FAILED"}

\* A directory that is there is its request's, and holds what the request has counted.
UploadHolds(c, r, w, d, doc) ==
  /\ d \in UploadDir /\ r \in UploadRequest /\ w \in Files!Works \cup {"none"} /\ doc \in UploadRow
  /\ r.at \in {"idle", "reject"} => ~d.dir
  /\ r.at = "idle" => r.size = 0 /\ w = "none"
  /\ doc = "FAILED" => r.at = "over" /\ ~d.dir
  /\ ~d.dir => d = Files!NoDir
  /\ d.dir =>
       /\ r.at # "over" => w = WorkOf(r.at)
       /\ r.at \in Streaming => d.original = Gone
       /\ r.at = "open" => d.part = Gone /\ r.size = 0
       /\ r.at = "read" => d.part = r.size
       /\ r.at = "write" => d.part # Gone /\ r.size = d.part + 1
       /\ r.at \in {"finish", "validate", "commit"} => d.part = r.size /\ r.size = c.size
       /\ r.at = "commit" => r.size \in 1..MaxSize /\ c.valid
       /\ r.at \in {"duplicate", "insert", "over"} =>
            d.part = Gone /\ d.original = c.size /\ c.size \in 1..MaxSize /\ c.valid
       /\ r.at = "over" => w = "none"

UploadShape ==
  /\ request \in [Upload -> UploadRequest] /\ writer \in [Upload -> Files!Works \cup {"none"}]
  /\ disk \in [Upload -> UploadDir] /\ document \in [Upload -> UploadRow]
  /\ content \in [Upload -> [size : 0..(MaxSize + 1), valid : BOOLEAN, declared : BOOLEAN]]

UploadInv ==
  /\ UploadShape
  /\ \A u \in Upload : UploadHolds(content[u], request[u], writer[u], disk[u], document[u])

LEMMA UploadStart == ASSUME FileConstants, Files!UploadInit PROVE UploadInv
<1>1. Files!NoDir \in UploadDir /\ ~Files!NoDir.dir
  BY DEF Files!NoDir, UploadDir
<1>2. [at |-> "idle", size |-> 0] \in UploadRequest
  BY DEF FileConstants, Sizes, UploadRequest
<1> QED
  BY <1>1, <1>2 DEF UploadRow,  Files!UploadInit, UploadInv, UploadShape, UploadHolds

\* A step of one upload.
LEMMA UploadMoves ==
  ASSUME UploadInv, NEW u \in Upload, UNCHANGED content,
         NEW r, request' = [request EXCEPT ![u] = r],
         NEW w, writer' = [writer EXCEPT ![u] = w],
         NEW d, disk' = [disk EXCEPT ![u] = d],
         NEW doc, document' = [document EXCEPT ![u] = doc],
         UploadHolds(content[u], r, w, d, doc)
  PROVE  UploadInv'
<1>1. /\ request'[u] = r /\ writer'[u] = w /\ disk'[u] = d /\ document'[u] = doc
      /\ \A v \in Upload \ {u} : /\ request'[v] = request[v] /\ writer'[v] = writer[v] /\ disk'[v] = disk[v]
                                 /\ document'[v] = document[v]
  BY DEF UploadInv, UploadShape
<1>2. UploadShape'
  BY DEF UploadInv, UploadShape, UploadHolds
<1> QED
  BY <1>1, <1>2 DEF UploadInv

LEMMA NextUpload ==
  ASSUME FileConstants, UploadInv, [Files!UploadNext]_uploadVars
  PROVE  UploadInv'
<1>1. CASE UNCHANGED uploadVars
  BY <1>1 DEF uploadVars, UploadInv, UploadShape
<1>2. ASSUME NEW u \in Upload,
             Files!Begin(u) \/ Files!NoDirectory(u) \/ Files!Cancel(u) \/ Files!UploadStep(u)
      PROVE  UploadInv'
  <2> DEFINE c == content[u]
             r == request[u]
             w == writer[u]
             d == disk[u]
             doc == document[u]
  <2>0. /\ UploadHolds(c, r, w, d, doc)
        /\ request = [request EXCEPT ![u] = r] /\ writer = [writer EXCEPT ![u] = w] /\ disk = [disk EXCEPT ![u] = d]
        /\ document = [document EXCEPT ![u] = doc]
        /\ c \in [size : 0..(MaxSize + 1), valid : BOOLEAN, declared : BOOLEAN]
    BY DEF UploadInv, UploadShape
  <2>1. ASSUME NEW place
        PROVE  [request EXCEPT ![u].at = place] = [request EXCEPT ![u] = [at |-> place, size |-> r.size]]
    <3>1. r \in UploadRequest /\ request \in [Upload -> UploadRequest]
      BY <2>0 DEF UploadHolds, UploadInv, UploadShape
    <3>2. [r EXCEPT !.at = place] = [at |-> place, size |-> r.size]
      BY <3>1 DEF UploadRequest
    <3> QED
      BY <3>1, <3>2
  <2>2. ASSUME NEW n
        PROVE  [disk EXCEPT ![u].part = n] = [disk EXCEPT ![u] = [dir |-> d.dir, part |-> n, original |-> d.original]]
    <3>1. d \in UploadDir /\ disk \in [Upload -> UploadDir]
      BY <2>0 DEF UploadHolds, UploadInv, UploadShape
    <3>2. [d EXCEPT !.part = n] = [dir |-> d.dir, part |-> n, original |-> d.original]
      BY <3>1 DEF UploadDir
    <3> QED
      BY <3>1, <3>2
  <2>3. CASE Files!Begin(u)
    <3>1. CASE c.declared /\ c.size > MaxSize
      <4>1. /\ request' = [request EXCEPT ![u] = [at |-> "reject", size |-> r.size]] /\ writer' = [writer EXCEPT ![u] = w]
            /\ disk' = [disk EXCEPT ![u] = d] /\ document' = [document EXCEPT ![u] = doc] /\ UNCHANGED content
        BY <2>0, <2>1, <2>3, <3>1 DEF Files!Begin, Files!GoTo
      <4>2. UploadHolds(c, [at |-> "reject", size |-> r.size], w, d, doc)
        BY <2>0, <2>3 DEF Files!Begin, Files!At, UploadHolds, UploadRequest, UploadDir, UploadRow, Files!Works, WorkOf, Streaming, Sizes
      <4> QED
        BY <4>1, <4>2, UploadMoves
    <3>2. CASE ~(c.declared /\ c.size > MaxSize)
      <4> DEFINE e == [d EXCEPT !.dir = TRUE]
      <4>0. d \in UploadDir /\ disk \in [Upload -> UploadDir]
        BY <2>0 DEF UploadHolds, UploadInv, UploadShape
      <4>3. e \in UploadDir /\ e.dir /\ e.part = d.part /\ e.original = d.original
        BY <4>0 DEF UploadDir
      <4>1. /\ request' = [request EXCEPT ![u] = [at |-> "open", size |-> r.size]] /\ writer' = [writer EXCEPT ![u] = "open"]
            /\ disk' = [disk EXCEPT ![u] = e] /\ document' = [document EXCEPT ![u] = doc] /\ UNCHANGED content
        BY <2>0, <2>1, <2>3, <3>2, <4>0 DEF Files!Begin, Files!GoTo, Files!GiveTo
      <4> HIDE DEF e
      <4>2. UploadHolds(c, [at |-> "open", size |-> r.size], "open", e, doc)
        BY <2>0, <2>3, <4>3 DEF Files!Begin, Files!At, UploadHolds, UploadRequest, UploadRow, Files!Works, WorkOf, Streaming, Sizes, Files!NoDir
      <4> QED
        BY <4>1, <4>2, UploadMoves
    <3> QED
      BY <3>1, <3>2
  <2>4. CASE Files!NoDirectory(u)
    <3>1. /\ request' = [request EXCEPT ![u] = [at |-> "reject", size |-> r.size]] /\ writer' = [writer EXCEPT ![u] = w]
          /\ disk' = [disk EXCEPT ![u] = d] /\ document' = [document EXCEPT ![u] = doc] /\ UNCHANGED content
      BY <2>0, <2>1, <2>2, <2>4 DEF Files!NoDirectory, Files!GoTo, Files!GiveTo, Files!At, Files!Answered, Files!Removed, Files!Rejects
    <3>2. UploadHolds(c, [at |-> "reject", size |-> r.size], w, d, doc)
      BY <2>0, <2>4 DEF Files!NoDirectory, Files!At, UploadHolds, FileConstants, UploadRequest, UploadDir, UploadRow, Files!Works, WorkOf, Streaming, Sizes, Files!NoDir
    <3> QED
      BY <3>1, <3>2, UploadMoves
  <2>5. CASE Files!Piece(u)
    <3>1. /\ request' = [request EXCEPT ![u] = [at |-> "write", size |-> r.size + 1]] /\ writer' = [writer EXCEPT ![u] = "write"]
          /\ disk' = [disk EXCEPT ![u] = d] /\ document' = [document EXCEPT ![u] = doc] /\ UNCHANGED content
      BY <2>0, <2>5 DEF Files!Piece
    <3>2. UploadHolds(c, [at |-> "write", size |-> r.size + 1], "write", d, doc)
      BY <2>0, <2>5 DEF Files!Piece, Files!At, UploadHolds, FileConstants, UploadRequest, UploadDir, UploadRow, Files!Works, WorkOf, Streaming, Sizes, Files!NoDir
    <3> QED
      BY <3>1, <3>2, UploadMoves
  <2>6. CASE Files!TooLarge(u)
    <3>1. /\ request' = [request EXCEPT ![u] = [at |-> "reject", size |-> r.size]] /\ writer' = [writer EXCEPT ![u] = w]
          /\ disk' = [disk EXCEPT ![u] = Files!NoDir] /\ document' = [document EXCEPT ![u] = doc] /\ UNCHANGED content
      BY <2>0, <2>1, <2>2, <2>6 DEF Files!TooLarge, Files!GoTo, Files!GiveTo, Files!At, Files!Answered, Files!Removed, Files!Rejects
    <3>2. UploadHolds(c, [at |-> "reject", size |-> r.size], w, Files!NoDir, doc)
      BY <2>0, <2>6 DEF Files!TooLarge, Files!At, UploadHolds, FileConstants, UploadRequest, UploadDir, UploadRow, Files!Works, WorkOf, Streaming, Sizes, Files!NoDir
    <3> QED
      BY <3>1, <3>2, UploadMoves
  <2>7. CASE Files!EndOfFile(u)
    <3>1. /\ request' = [request EXCEPT ![u] = [at |-> "finish", size |-> r.size]] /\ writer' = [writer EXCEPT ![u] = "finish"]
          /\ disk' = [disk EXCEPT ![u] = d] /\ document' = [document EXCEPT ![u] = doc] /\ UNCHANGED content
      BY <2>0, <2>1, <2>2, <2>7 DEF Files!EndOfFile, Files!GoTo, Files!GiveTo, Files!At, Files!Answered, Files!Removed, Files!Rejects
    <3>2. UploadHolds(c, [at |-> "finish", size |-> r.size], "finish", d, doc)
      BY <2>0, <2>7 DEF Files!EndOfFile, Files!At, UploadHolds, FileConstants, UploadRequest, UploadDir, UploadRow, Files!Works, WorkOf, Streaming, Sizes, Files!NoDir
    <3> QED
      BY <3>1, <3>2, UploadMoves
  <2>8. CASE Files!Invalid(u)
    <3>1. /\ request' = [request EXCEPT ![u] = [at |-> "reject", size |-> r.size]] /\ writer' = [writer EXCEPT ![u] = w]
          /\ disk' = [disk EXCEPT ![u] = Files!NoDir] /\ document' = [document EXCEPT ![u] = doc] /\ UNCHANGED content
      BY <2>0, <2>1, <2>2, <2>8 DEF Files!Invalid, Files!GoTo, Files!GiveTo, Files!At, Files!Answered, Files!Removed, Files!Rejects
    <3>2. UploadHolds(c, [at |-> "reject", size |-> r.size], w, Files!NoDir, doc)
      BY <2>0, <2>8 DEF Files!Invalid, Files!At, UploadHolds, FileConstants, UploadRequest, UploadDir, UploadRow, Files!Works, WorkOf, Streaming, Sizes, Files!NoDir
    <3> QED
      BY <3>1, <3>2, UploadMoves
  <2>9. CASE Files!Valid(u)
    <3>1. /\ request' = [request EXCEPT ![u] = [at |-> "commit", size |-> r.size]] /\ writer' = [writer EXCEPT ![u] = "commit"]
          /\ disk' = [disk EXCEPT ![u] = d] /\ document' = [document EXCEPT ![u] = doc] /\ UNCHANGED content
      BY <2>0, <2>1, <2>2, <2>9 DEF Files!Valid, Files!GoTo, Files!GiveTo, Files!At, Files!Answered, Files!Removed, Files!Rejects
    <3>2. UploadHolds(c, [at |-> "commit", size |-> r.size], "commit", d, doc)
      BY <2>0, <2>9 DEF Files!Valid, Files!At, UploadHolds, FileConstants, UploadRequest, UploadDir, UploadRow, Files!Works, WorkOf, Streaming, Sizes, Files!NoDir
    <3> QED
      BY <3>1, <3>2, UploadMoves
  <2>10. CASE Files!Duplicate(u)
    <3>1. /\ request' = [request EXCEPT ![u] = [at |-> "reject", size |-> r.size]] /\ writer' = [writer EXCEPT ![u] = w]
          /\ disk' = [disk EXCEPT ![u] = Files!NoDir] /\ document' = [document EXCEPT ![u] = doc] /\ UNCHANGED content
      BY <2>0, <2>1, <2>2, <2>10 DEF Files!Duplicate, Files!GoTo, Files!GiveTo, Files!At, Files!Answered, Files!Removed, Files!Rejects
    <3>2. UploadHolds(c, [at |-> "reject", size |-> r.size], w, Files!NoDir, doc)
      BY <2>0, <2>10 DEF Files!Duplicate, Files!At, UploadHolds, FileConstants, UploadRequest, UploadDir, UploadRow, Files!Works, WorkOf, Streaming, Sizes, Files!NoDir
    <3> QED
      BY <3>1, <3>2, UploadMoves
  <2>11. CASE Files!NoDuplicate(u)
    <3>1. /\ request' = [request EXCEPT ![u] = [at |-> "insert", size |-> r.size]] /\ writer' = [writer EXCEPT ![u] = w]
          /\ disk' = [disk EXCEPT ![u] = d] /\ document' = [document EXCEPT ![u] = doc] /\ UNCHANGED content
      BY <2>0, <2>1, <2>2, <2>11 DEF Files!NoDuplicate, Files!GoTo, Files!GiveTo, Files!At, Files!Answered, Files!Removed, Files!Rejects
    <3>2. UploadHolds(c, [at |-> "insert", size |-> r.size], w, d, doc)
      BY <2>0, <2>11 DEF Files!NoDuplicate, Files!At, UploadHolds, FileConstants, UploadRequest, UploadDir, UploadRow, Files!Works, WorkOf, Streaming, Sizes, Files!NoDir
    <3> QED
      BY <3>1, <3>2, UploadMoves
  <2>12. CASE Files!Insert(u)
    <3>1. /\ request' = [request EXCEPT ![u] = [at |-> "over", size |-> 0]] /\ writer' = [writer EXCEPT ![u] = w]
          /\ disk' = [disk EXCEPT ![u] = d] /\ document' = [document EXCEPT ![u] = "QUEUED"] /\ UNCHANGED content
      BY <2>0, <2>1, <2>2, <2>12 DEF Files!Insert, Files!GoTo, Files!GiveTo, Files!At, Files!Answered, Files!Removed, Files!Rejects
    <3>2. UploadHolds(c, [at |-> "over", size |-> 0], w, d, "QUEUED")
      BY <2>0, <2>12 DEF Files!Insert, Files!At, UploadHolds, FileConstants, UploadRequest, UploadDir, UploadRow, Files!Works, WorkOf, Streaming, Sizes, Files!NoDir
    <3> QED
      BY <3>1, <3>2, UploadMoves
  <2>13. CASE Files!InsertRejected(u)
    <3>1. /\ request' = [request EXCEPT ![u] = [at |-> "over", size |-> 0]] /\ writer' = [writer EXCEPT ![u] = w]
          /\ disk' = [disk EXCEPT ![u] = d] /\ document' = [document EXCEPT ![u] = "FAILED"] /\ UNCHANGED content
      BY <2>0, <2>1, <2>2, <2>13 DEF Files!InsertRejected, Files!GoTo, Files!GiveTo, Files!At, Files!Answered, Files!Removed, Files!Rejects
    <3>2. UploadHolds(c, [at |-> "over", size |-> 0], w, d, "FAILED")
      BY <2>0, <2>13 DEF Files!InsertRejected, Files!At, UploadHolds, FileConstants, UploadRequest, UploadDir, UploadRow, Files!Works, WorkOf, Streaming, Sizes, Files!NoDir
    <3> QED
      BY <3>1, <3>2, UploadMoves
  <2>14. CASE Files!Cancel(u)
    <3>1. PICK said \in {doc, "QUEUED"} :
            /\ document' = [document EXCEPT ![u] = said]
            /\ ~Files!At(u, "insert") => said = doc
      BY <2>0, <2>14 DEF Files!Cancel
    <3>2. /\ request' = [request EXCEPT ![u] = [at |-> "over", size |-> 0]] /\ writer' = [writer EXCEPT ![u] = w]
          /\ disk' = [disk EXCEPT ![u] = Files!NoDir] /\ UNCHANGED content
      BY <2>0, <2>14 DEF Files!Cancel, Files!Answered, Files!Removed
    <3>3. UploadHolds(c, [at |-> "over", size |-> 0], w, Files!NoDir, said)
      BY <2>0, <2>14 DEF Files!Cancel, UploadHolds, FileConstants, UploadRequest, UploadDir, UploadRow, Files!Works, WorkOf, Streaming, Sizes, Files!NoDir
    <3> QED
      BY <3>1, <3>2, <3>3, UploadMoves
  <2>15. CASE Files!OpenPart(u)
    <3> DEFINE e == [dir |-> d.dir, part |-> 0, original |-> d.original]
    <3>1. d.dir /\ r.at = "open" /\ w = "open"
      BY <2>0, <2>15 DEF Files!OpenPart, UploadHolds, WorkOf, Streaming, Files!NoDir
    <3>2. /\ request' = [request EXCEPT ![u] = [at |-> "read", size |-> r.size]] /\ writer' = [writer EXCEPT ![u] = "none"]
          /\ disk' = [disk EXCEPT ![u] = e] /\ document' = [document EXCEPT ![u] = doc] /\ UNCHANGED content
      BY <2>0, <2>1, <2>2, <2>15, <3>1 DEF Files!OpenPart, Files!Tell, Files!At, Files!GoTo
    <3>3. UploadHolds(c, [at |-> "read", size |-> r.size], "none", e, doc)
      BY <2>0, <2>15, <3>1 DEF Files!OpenPart, UploadHolds, FileConstants, UploadRequest, UploadDir, UploadRow, Files!Works, WorkOf, Streaming, Sizes, Files!NoDir
    <3> HIDE DEF e
    <3> QED
      BY <3>2, <3>3, UploadMoves
  <2>16. CASE Files!WriteChunk(u)
    <3> DEFINE e == [dir |-> d.dir, part |-> d.part + 1, original |-> d.original]
    <3>1. d.dir /\ r.at = "write" /\ w = "write"
      BY <2>0, <2>16 DEF Files!WriteChunk, UploadHolds, WorkOf, Streaming, Files!NoDir
    <3>2. /\ request' = [request EXCEPT ![u] = [at |-> "read", size |-> r.size]] /\ writer' = [writer EXCEPT ![u] = "none"]
          /\ disk' = [disk EXCEPT ![u] = e] /\ document' = [document EXCEPT ![u] = doc] /\ UNCHANGED content
      BY <2>0, <2>1, <2>2, <2>16, <3>1 DEF Files!WriteChunk, Files!Tell, Files!At, Files!GoTo
    <3>3. UploadHolds(c, [at |-> "read", size |-> r.size], "none", e, doc)
      BY <2>0, <2>16, <3>1 DEF Files!WriteChunk, UploadHolds, FileConstants, UploadRequest, UploadDir, UploadRow, Files!Works, WorkOf, Streaming, Sizes, Files!NoDir
    <3> HIDE DEF e
    <3> QED
      BY <3>2, <3>3, UploadMoves
  <2>17. CASE Files!FinishPart(u)
    <3> DEFINE e == d
    <3>1. d.dir /\ r.at = "finish" /\ w = "finish"
      BY <2>0, <2>17 DEF Files!FinishPart, UploadHolds, WorkOf, Streaming, Files!NoDir
    <3>2. /\ request' = [request EXCEPT ![u] = [at |-> "validate", size |-> r.size]] /\ writer' = [writer EXCEPT ![u] = "none"]
          /\ disk' = [disk EXCEPT ![u] = e] /\ document' = [document EXCEPT ![u] = doc] /\ UNCHANGED content
      BY <2>0, <2>1, <2>2, <2>17, <3>1 DEF Files!FinishPart, Files!Tell, Files!At, Files!GoTo
    <3>3. UploadHolds(c, [at |-> "validate", size |-> r.size], "none", e, doc)
      BY <2>0, <2>17, <3>1 DEF Files!FinishPart, UploadHolds, FileConstants, UploadRequest, UploadDir, UploadRow, Files!Works, WorkOf, Streaming, Sizes, Files!NoDir
    <3> HIDE DEF e
    <3> QED
      BY <3>2, <3>3, UploadMoves
  <2>18. CASE Files!Commit(u)
    <3> DEFINE e == [d EXCEPT !.original = d.part, !.part = Gone]
    <3>0. d \in UploadDir /\ disk \in [Upload -> UploadDir]
      BY <2>0 DEF UploadHolds, UploadInv, UploadShape
    <3>1. d.dir /\ r.at = "commit" /\ w = "commit"
      BY <2>0, <2>18 DEF Files!Commit, UploadHolds, WorkOf, Streaming, Files!NoDir
    <3>2. e \in UploadDir /\ e.dir = d.dir /\ e.part = Gone /\ e.original = d.part
      BY <3>0 DEF UploadDir
    <3>3. /\ request' = [request EXCEPT ![u] = [at |-> "duplicate", size |-> r.size]]
          /\ writer' = [writer EXCEPT ![u] = "none"]
          /\ disk' = [disk EXCEPT ![u] = e] /\ document' = [document EXCEPT ![u] = doc] /\ UNCHANGED content
      BY <2>0, <2>1, <2>18, <3>0, <3>1 DEF Files!Commit, Files!Tell, Files!At, Files!GoTo
    <3> HIDE DEF e
    <3>4. UploadHolds(c, [at |-> "duplicate", size |-> r.size], "none", e, doc)
      BY <2>0, <2>18, <3>1, <3>2
      DEF UploadHolds, FileConstants, UploadRequest, Files!Works, WorkOf, Streaming, Sizes, Files!NoDir
    <3> QED
      BY <3>3, <3>4, UploadMoves
  <2>19. CASE Files!ThreadFails(u)
    <3>1. CASE Files!At(u, w)
      <4>1. /\ request' = [request EXCEPT ![u] = [at |-> "reject", size |-> r.size]] /\ writer' = [writer EXCEPT ![u] = "none"]
            /\ disk' = [disk EXCEPT ![u] = Files!NoDir] /\ document' = [document EXCEPT ![u] = doc] /\ UNCHANGED content
        BY <2>0, <2>1, <2>19, <3>1 DEF Files!ThreadFails, Files!GoTo, Files!Removed
      <4>2. r.at # "over"
        BY <2>0, <2>19, <3>1 DEF Files!ThreadFails, Files!At, UploadHolds, WorkOf, Files!Works
      <4>3. UploadHolds(c, [at |-> "reject", size |-> r.size], "none", Files!NoDir, doc)
        BY <2>0, <4>2 DEF UploadHolds, FileConstants, UploadRequest, UploadDir, UploadRow, Files!Works, WorkOf, Streaming, Sizes, Files!NoDir
      <4> QED
        BY <4>1, <4>3, UploadMoves
    <3>2. CASE ~Files!At(u, w)
      <4>1. ~d.dir /\ r.at # "idle"
        BY <2>0, <2>19, <3>2 DEF Files!ThreadFails, Files!At, UploadHolds, WorkOf, Files!Works
      <4>2. /\ request' = [request EXCEPT ![u] = r] /\ writer' = [writer EXCEPT ![u] = "none"]
            /\ disk' = [disk EXCEPT ![u] = d] /\ document' = [document EXCEPT ![u] = doc] /\ UNCHANGED content
        BY <2>0, <2>19, <3>2 DEF Files!ThreadFails
      <4>3. UploadHolds(c, r, "none", d, doc)
        BY <2>0, <4>1 DEF UploadHolds, Files!Works
      <4> QED
        BY <4>2, <4>3, UploadMoves
    <3> QED
      BY <3>1, <3>2
  <2> QED
    BY <1>2, <2>3, <2>4, <2>5, <2>6, <2>7, <2>8, <2>9, <2>10, <2>11, <2>12, <2>13, <2>14, <2>15, <2>16, <2>17, <2>18, <2>19
    DEF Files!UploadStep, Files!ThreadStep
<1> QED
  BY <1>1, <1>2 DEF Files!UploadNext

LEMMA UploadInvIsWhole == ASSUME FileConstants, UploadInv PROVE Files!UploadsAreWhole
  BY DEF FileConstants, UploadInv, UploadShape, UploadHolds, UploadRequest, UploadDir, Files!UploadsAreWhole, Files!NoDir, Streaming

-----------------------------------------------------------------------------
(* Backups.                                                                *)

\* Max, where a set has a greatest element.
LEMMA MaxOfSet ==
  ASSUME NEW S \in SUBSET Int, NEW x \in S, \A y \in S : x >= y
  PROVE  Backup!Max(S) = x
<1>1. \A z \in S : (\A y \in S : z >= y) => z = x
  OBVIOUS
<1>2. (CHOOSE z \in S : \A y \in S : z >= y) = x
  BY <1>1
<1> QED
  BY <1>2 DEF Backup!Max

\* A run that has copied has all pieces, a backup is of a run that was finished, and the
\* newest of these has one.
BackupInv ==
  /\ backups \subseteq Backup!Files /\ parts \subseteq Backup!Files /\ dumps \subseteq Backup!Stamp
  /\ made \subseteq Backup!Stamp
  /\ runAt \in [Backup!Stamp -> {"idle", "export", "verify", "copy", "copied", "prune", "over"}]
  /\ \A f \in backups : f.pieces = DumpSize /\ f.stamp \in made
  /\ \A n \in Backup!Stamp : runAt[n] = "copied" => \A f \in Backup!PartOf(n) : f.pieces = DumpSize
  /\ made # {} => \E f \in backups : \A k \in made : k <= f.stamp

LEMMA BackupStart == ASSUME Backup!BackupInit PROVE BackupInv
  BY DEF Backup!BackupInit, BackupInv

LEMMA NewestStays ==
  ASSUME FileConstants, BackupInv, NEW f \in backups, \A k \in made : k <= f.stamp
  PROVE  f \in Backup!Newest
<1>1. Backup!Newer(f) = {}
  <2>1. ASSUME NEW g \in backups, g.stamp > f.stamp
        PROVE  FALSE
    <3>1. g.stamp \in made /\ g.stamp \in Int /\ f.stamp \in Int
      BY DEF BackupInv, Backup!Files, Backup!Stamp, FileConstants
    <3> QED
      BY <2>1, <3>1
  <2> QED
    BY <2>1 DEF Backup!Newer
<1>2. Backup!Cardinality({}) = 0
  <2>1. Backup!Cardinality({}) = Cardinality({})
    BY DEF Backup!Cardinality, Cardinality
  <2> QED
    BY <2>1, FS_EmptySet
<1> QED
  BY <1>1, <1>2 DEF Backup!Newest, Backup!Kept, FileConstants

LEMMA NextBackup ==
  ASSUME FileConstants, BackupInv, [Backup!BackupNext]_backupVars
  PROVE  BackupInv'
<1>1. CASE UNCHANGED backupVars
  BY <1>1 DEF backupVars, BackupInv, Backup!PartOf
<1>2. ASSUME NEW n \in Backup!Stamp, Backup!Begin(n) \/ Backup!BackupStep(n) \/ Backup!Kill(n)
      PROVE  BackupInv'
  <2> USE DEF Backup!Goes, Backup!PartOf
  <2>1. CASE Backup!Begin(n)
    BY <2>1 DEF Backup!Begin, BackupInv
  <2>2. CASE Backup!Export(n)
    BY <2>2 DEF Backup!Export, BackupInv
  <2>3. CASE Backup!Verify(n)
    <3>1. Backup!Copy(n, 0) \in Backup!Files /\ Backup!Copy(n, 0).stamp = n
      BY DEF Backup!Copy, Backup!Files, FileConstants
    <3> QED
      BY <2>3, <3>1 DEF Backup!Verify, BackupInv
  <2>4. CASE Backup!CopyPiece(n)
    <3>1. ASSUME NEW f \in Backup!PartOf(n)
          PROVE  /\ Backup!Copy(n, f.pieces + 1) \in Backup!Files
                 /\ Backup!Copy(n, f.pieces + 1).stamp = n /\ Backup!Copy(n, f.pieces + 1).pieces = f.pieces + 1
      BY <2>4, <3>1 DEF Backup!Copy, Backup!Files, FileConstants, BackupInv, Backup!CopyPiece
    <3>2. parts' \subseteq Backup!Files
      BY <2>4, <3>1 DEF BackupInv, Backup!CopyPiece
    <3>3. runAt' \in [Backup!Stamp -> {"idle", "export", "verify", "copy", "copied", "prune", "over"}]
      BY <2>4 DEF BackupInv, Backup!CopyPiece
    <3>4. ASSUME NEW k \in Backup!Stamp, runAt'[k] = "copied", NEW f \in parts', f.stamp = k
          PROVE  f.pieces = DumpSize
      <4>1. CASE k = n
        <5>1. PICK g \in Backup!PartOf(n) : f = Backup!Copy(n, g.pieces + 1)
          BY <2>4, <3>4, <4>1 DEF Backup!CopyPiece
        <5>2. g.pieces + 1 = DumpSize
          BY <2>4, <3>4, <4>1 DEF BackupInv, Backup!CopyPiece
        <5> QED
          BY <3>1, <5>1, <5>2
      <4>2. CASE k # n
        <5>1. f \in parts /\ runAt[k] = "copied"
          BY <2>4, <3>1, <3>4, <4>2 DEF BackupInv, Backup!CopyPiece
        <5> QED
          BY <3>4, <5>1 DEF BackupInv
      <4> QED
        BY <4>1, <4>2
    <3> QED
      BY <2>4, <3>2, <3>3, <3>4 DEF BackupInv, Backup!CopyPiece
  <2>5. CASE Backup!Finish(n)
    <3>1. \A f \in backups' : f.pieces = DumpSize /\ f.stamp \in made'
      BY <2>5 DEF BackupInv, Backup!Finish
    <3>2. PICK g \in backups' : g.stamp = n
      BY <2>5 DEF BackupInv, Backup!Finish
    <3>3. \E f \in backups' : \A k \in made' : k <= f.stamp
      <4>1. made \subseteq Int /\ n \in Int
        BY DEF BackupInv, Backup!Stamp, FileConstants
      <4>2. CASE \A k \in made : k <= n
        BY <2>5, <3>2, <4>1, <4>2 DEF Backup!Finish
      <4>3. CASE ~ \A k \in made : k <= n
        <5>1. PICK f \in backups : \A k \in made : k <= f.stamp
          BY <4>3 DEF BackupInv
        <5>2. f.stamp \in Int
          BY <4>1 DEF BackupInv
        <5>3. \A k \in made' : k <= f.stamp
          BY <2>5, <4>1, <4>3, <5>1, <5>2 DEF Backup!Finish
        <5> QED
          BY <2>5, <5>3 DEF Backup!Finish
      <4> QED
        BY <4>2, <4>3
    <3> QED
      BY <2>5, <3>1, <3>3 DEF BackupInv, Backup!Finish
  <2>6. CASE Backup!Prune(n)
    <3>1. backups' \subseteq backups
      BY <2>6 DEF Backup!Prune, Backup!Newest
    <3>2. made # {} => \E f \in backups' : \A k \in made : k <= f.stamp
      BY <2>6, NewestStays DEF Backup!Prune, BackupInv
    <3> QED
      BY <2>6, <3>1, <3>2 DEF Backup!Prune, BackupInv
  <2>7. CASE Backup!Fails(n)
    BY <2>7 DEF Backup!Fails, BackupInv
  <2>8. CASE Backup!Kill(n)
    BY <2>8 DEF Backup!Kill, BackupInv
  <2> QED
    BY <1>2, <2>1, <2>2, <2>3, <2>4, <2>5, <2>6, <2>7, <2>8 DEF Backup!BackupStep
<1> QED
  BY <1>1, <1>2 DEF Backup!BackupNext

LEMMA BackupsWhole == ASSUME FileConstants, BackupInv PROVE Backup!BackupsAreWhole
<1>1. ASSUME made # {}
      PROVE  \E f \in backups : f.stamp = Backup!Max(made)
  <2>1. PICK f \in backups : \A k \in made : k <= f.stamp
    BY <1>1 DEF BackupInv
  <2>2. f.stamp \in made /\ made \subseteq Int
    BY DEF BackupInv, Backup!Stamp, FileConstants
  <2>3. Backup!Max(made) = f.stamp
    <3>1. \A k \in made : f.stamp >= k
      BY <2>1, <2>2
    <3> QED
      BY <2>2, <3>1, MaxOfSet
  <2> QED
    BY <2>3
<1> QED
  BY <1>1 DEF BackupInv, Backup!BackupsAreWhole

-----------------------------------------------------------------------------
(* Embedding.                                                              *)

LEMMA EmbedCard == ASSUME NEW S PROVE Embed!Cardinality(S) = Cardinality(S)
  BY DEF Embed!Cardinality, Cardinality

\* The rows of consecutive texts are in order.
LEMMA RowsInOrder ==
  ASSUME NEW a \in Nat, NEW b \in Nat, a <= b
  PROVE  Embed!InOrder(a..b) = [i \in 1..(b - a + 1) |-> a + i - 1]
<1>1. Embed!Cardinality(a..b) = b - a + 1
  BY EmbedCard, FS_Interval
<1>2. ASSUME NEW t \in a..b
      PROVE  Embed!Cardinality({s \in a..b : s < t}) = t - a
  <2>1. {s \in a..b : s < t} = a..(t - 1)
    <3>1. \A s : s \in a..b /\ s < t <=> s \in a..(t - 1)
      OBVIOUS
    <3> QED
      BY <3>1
  <2>2. Cardinality(a..(t - 1)) = t - a
    <3> DEFINE last == t - 1
    <3>1. last \in Int /\ a \in Int /\ (a > last => t = a) /\ last - a + 1 = t - a
      OBVIOUS
    <3> HIDE DEF last
    <3>2. Cardinality(a..last) = IF a > last THEN 0 ELSE last - a + 1
      BY <3>1, FS_Interval
    <3>3. Cardinality(a..last) = t - a
      BY <3>1, <3>2
    <3> QED
      BY <3>3 DEF last
  <2> QED
    BY <2>1, <2>2, EmbedCard
<1>3. ASSUME NEW i \in 1..(b - a + 1)
      PROVE  Embed!Nth(a..b, i) = a + i - 1
  <2>1. a + i - 1 \in a..b
    OBVIOUS
  <2>2. \A t \in a..b : Embed!Cardinality({s \in a..b : s < t}) = i - 1 <=> t = a + i - 1
    BY <1>2
  <2>3. (CHOOSE t \in a..b : Embed!Cardinality({s \in a..b : s < t}) = i - 1) = a + i - 1
    BY <2>1, <2>2
  <2> QED
    BY <2>3 DEF Embed!Nth
<1> QED
  BY <1>1, <1>3 DEF Embed!InOrder

\* As long as it asks, the texts before the batch have their vectors.
EmbedInv ==
  /\ texts \in 0..MaxTexts
  /\ embed \in [at : {"ask", "read", "pause", "done", "failed"}, start : Nat, attempt : Nat,
                vectors : Seq(Nat), reply : SUBSET Nat]
  /\ embed.at \in {"ask", "read", "pause"} =>
       embed.start \in 1..texts /\ embed.vectors = [i \in 1..(embed.start - 1) |-> i]
  /\ embed.at = "read" => embed.reply \subseteq Embed!Batch
  /\ Embed!OneVectorPerText

LEMMA EmbedStart == ASSUME FileConstants, Embed!EmbedInit PROVE EmbedInv
<1>1. <<>> = [i \in 1..0 |-> i] /\ <<>> \in Seq(Nat)
  OBVIOUS
<1>2. texts \in Nat
  BY DEF Embed!EmbedInit, FileConstants
<1> QED
  BY <1>1, <1>2 DEF Embed!EmbedInit, EmbedInv, Embed!OneVectorPerText

\* The last text of the batch.
LastText == IF embed.start + BatchSize > texts THEN texts ELSE embed.start + BatchSize - 1

LEMMA BatchIs ==
  ASSUME FileConstants, EmbedInv, embed.at \in {"ask", "read", "pause"}
  PROVE  /\ Embed!Batch = embed.start..LastText
         /\ embed.start \in Nat \ {0} /\ LastText \in Nat /\ embed.start <= LastText /\ texts \in Nat
         /\ embed.start + BatchSize > texts => LastText = texts
         /\ ~(embed.start + BatchSize > texts) => LastText + 1 = embed.start + BatchSize /\ LastText + 1 <= texts
  BY DEF Embed!Batch, LastText, EmbedInv, FileConstants

LEMMA NextEmbed ==
  ASSUME FileConstants, EmbedInv, [Embed!EmbedNext]_embedVars
  PROVE  EmbedInv'
<1> USE DEF Embed!OneVectorPerText
<1>1. CASE UNCHANGED embedVars
  BY <1>1 DEF embedVars, EmbedInv, Embed!Batch
<1>2. CASE Embed!Reply
  <2>1. embed.at = "ask" /\ texts' = texts
    BY <1>2 DEF Embed!Reply
  <2>2. PICK batch \in SUBSET Embed!Batch : embed' = [embed EXCEPT !.at = "read", !.reply = batch]
    BY <1>2 DEF Embed!Reply
  <2> DEFINE r == [embed EXCEPT !.at = "read", !.reply = batch]
  <2>3. batch \in SUBSET Nat
    BY <2>1, BatchIs
  <2>4. /\ r \in [at : {"ask", "read", "pause", "done", "failed"}, start : Nat, attempt : Nat,
                   vectors : Seq(Nat), reply : SUBSET Nat]
        /\ r.at = "read" /\ r.start = embed.start /\ r.vectors = embed.vectors /\ r.reply = batch
    BY <2>3 DEF EmbedInv
  <2> HIDE DEF r
  <2>5. embed' = r
    BY <2>2 DEF r
  <2> QED
    BY <2>1, <2>4, <2>5 DEF EmbedInv, Embed!Batch
<1>3. CASE Embed!Collect
  <2>1. embed.at = "read" /\ texts' = texts
    BY <1>3 DEF Embed!Collect
  <2>2. CASE Embed!Cardinality(embed.reply) # Embed!Cardinality(Embed!Batch)
    <3> DEFINE r == [embed EXCEPT !.at = "failed", !.vectors = <<>>, !.reply = {}]
    <3>1. /\ r \in [at : {"ask", "read", "pause", "done", "failed"}, start : Nat, attempt : Nat,
                     vectors : Seq(Nat), reply : SUBSET Nat]
          /\ r.at = "failed" /\ r.vectors = <<>>
      <4>1. <<>> \in Seq(Nat) /\ {} \in SUBSET Nat
        OBVIOUS
      <4> HIDE DEF Embed!OneVectorPerText
      <4> QED
        BY <4>1 DEF EmbedInv
    <3> HIDE DEF r
    <3>2. embed' = r
      BY <1>3, <2>2 DEF r, Embed!Collect
    <3> QED
      BY <2>1, <3>1, <3>2 DEF EmbedInv
  <2>3. CASE Embed!Cardinality(embed.reply) = Embed!Cardinality(Embed!Batch)
    <3>1. embed.reply = embed.start..LastText
      <4>1. IsFiniteSet(embed.start..LastText)
        <5>1. embed.start \in Int /\ LastText \in Int
          BY <2>1, BatchIs
        <5> QED
          BY <5>1, FS_Interval
      <4>2. embed.reply \subseteq embed.start..LastText
        BY <2>1, BatchIs DEF EmbedInv
      <4>3. Cardinality(embed.reply) = Cardinality(embed.start..LastText)
        BY <2>1, <2>3, BatchIs, EmbedCard
      <4> QED
        BY <4>1, <4>2, <4>3, FS_Subset
    <3>2. Embed!InOrder(embed.reply) = [i \in 1..(LastText - embed.start + 1) |-> embed.start + i - 1]
      BY <2>1, <3>1, BatchIs, RowsInOrder
    <3>3. embed.vectors \o Embed!InOrder(embed.reply) = [i \in 1..LastText |-> i]
      <4>1. embed.vectors = [i \in 1..(embed.start - 1) |-> i]
        BY <2>1 DEF EmbedInv
      <4> DEFINE earlier == [i \in 1..(embed.start - 1) |-> i]
                 later == [i \in 1..(LastText - embed.start + 1) |-> embed.start + i - 1]
      <4>2. earlier \in Seq(Nat) /\ Len(earlier) = embed.start - 1
            /\ \A i \in 1..(embed.start - 1) : earlier[i] = i
        BY <2>1, BatchIs
      <4>3. later \in Seq(Nat) /\ Len(later) = LastText - embed.start + 1
            /\ \A i \in 1..(LastText - embed.start + 1) : later[i] = embed.start + i - 1
        <5>1. embed.start \in Nat \ {0} /\ LastText \in Nat /\ embed.start <= LastText
          BY <2>1, BatchIs
        <5>2. \A i \in 1..(LastText - embed.start + 1) : embed.start + i - 1 \in Nat
          BY <5>1
        <5>3. LastText - embed.start + 1 \in Nat
          BY <5>1
        <5> QED
          BY <5>2, <5>3
      <4> HIDE DEF earlier, later
      <4>4. /\ earlier \o later \in Seq(Nat) /\ Len(earlier \o later) = LastText
            /\ \A i \in 1..LastText : (earlier \o later)[i] = IF i <= Len(earlier) THEN earlier[i] ELSE later[i - Len(earlier)]
        <5>1. Len(earlier) + Len(later) = LastText
          BY <2>1, <4>2, <4>3, BatchIs
        <5> QED
          BY <4>2, <4>3, <5>1, ConcatProperties
      <4>5. \A i \in 1..LastText : (earlier \o later)[i] = i
        <5>1. embed.start \in Nat \ {0} /\ LastText \in Nat /\ embed.start <= LastText
          BY <2>1, BatchIs
        <5>2. ASSUME NEW i \in 1..LastText, i <= Len(earlier)
              PROVE  (earlier \o later)[i] = i
          <6>1. i \in 1..(embed.start - 1)
            BY <4>2, <5>1, <5>2
          <6> QED
            BY <4>2, <4>4, <5>2, <6>1
        <5>3. ASSUME NEW i \in 1..LastText, ~(i <= Len(earlier))
              PROVE  (earlier \o later)[i] = i
          <6> DEFINE j == i - Len(earlier)
          <6>0. i \in Int /\ i <= LastText /\ ~(i <= embed.start - 1) /\ j = i - (embed.start - 1)
            BY <4>2, <5>1, <5>3
          <6>1. j \in 1..(LastText - embed.start + 1) /\ embed.start + j - 1 = i
            BY <5>1, <6>0
          <6>2. (earlier \o later)[i] = later[j]
            BY <4>4, <5>3
          <6> HIDE DEF j
          <6> QED
            BY <4>3, <6>1, <6>2
        <5> QED
          BY <5>2, <5>3
      <4>6. [i \in 1..LastText |-> i] \in Seq(Nat) /\ Len([i \in 1..LastText |-> i]) = LastText
            /\ \A i \in 1..LastText : [k \in 1..LastText |-> k][i] = i
        BY <2>1, BatchIs
      <4>7. earlier \o later = [i \in 1..LastText |-> i]
        BY <4>4, <4>5, <4>6, SeqEqual
      <4> QED
        BY <3>2, <4>1, <4>7 DEF earlier, later
    <3>4. [i \in 1..LastText |-> i] \in Seq(Nat)
      BY <2>1, BatchIs
    <3>5. embed' = [at |-> IF embed.start + BatchSize > texts THEN "done" ELSE "ask",
                    start |-> embed.start + BatchSize, attempt |-> 0,
                    vectors |-> [i \in 1..LastText |-> i], reply |-> {}]
      BY <1>3, <2>3, <3>3 DEF Embed!Collect
    <3>6. embed.start + BatchSize \in Nat \ {0} /\ texts \in 0..MaxTexts
      BY <2>1, BatchIs DEF FileConstants, EmbedInv
    <3>7. CASE embed.start + BatchSize > texts
      <4>1. embed'.at = "done" /\ embed'.vectors = [i \in 1..texts' |-> i]
        BY <2>1, <3>5, <3>7, BatchIs
      <4>2. embed' \in [at : {"ask", "read", "pause", "done", "failed"}, start : Nat, attempt : Nat,
                        vectors : Seq(Nat), reply : SUBSET Nat]
        BY <3>4, <3>5, <3>6
      <4> QED
        BY <2>1, <3>6, <4>1, <4>2 DEF EmbedInv
    <3>8. CASE ~(embed.start + BatchSize > texts)
      <4>1. /\ embed'.at = "ask" /\ embed'.start = embed.start + BatchSize
            /\ embed'.vectors = [i \in 1..LastText |-> i]
        BY <3>5, <3>8
      <4>2. embed'.start \in 1..texts' /\ embed'.start - 1 = LastText
        <5>1. LastText + 1 = embed.start + BatchSize /\ LastText + 1 <= texts /\ LastText \in Nat /\ texts \in Nat
          BY <2>1, <3>8, BatchIs
        <5> QED
          BY <2>1, <4>1, <5>1
      <4>3. embed' \in [at : {"ask", "read", "pause", "done", "failed"}, start : Nat, attempt : Nat,
                        vectors : Seq(Nat), reply : SUBSET Nat]
        BY <3>4, <3>5, <3>6
      <4> QED
        BY <2>1, <3>6, <4>1, <4>2, <4>3 DEF EmbedInv
    <3> QED
      BY <3>7, <3>8
  <2> QED
    BY <2>2, <2>3
<1>4. CASE Embed!Trouble
  <2> DEFINE r == [embed EXCEPT !.at = "pause", !.attempt = @ + 1]
  <2>1. /\ r \in [at : {"ask", "read", "pause", "done", "failed"}, start : Nat, attempt : Nat,
                   vectors : Seq(Nat), reply : SUBSET Nat]
        /\ r.at = "pause" /\ r.start = embed.start /\ r.vectors = embed.vectors
    <3>1. embed.attempt + 1 \in Nat
      BY DEF EmbedInv
    <3> HIDE DEF Embed!OneVectorPerText
    <3> QED
      BY <3>1 DEF EmbedInv
  <2> HIDE DEF r
  <2>2. embed' = r /\ texts' = texts /\ embed.at = "ask"
    BY <1>4 DEF r, Embed!Trouble
  <2> QED
    BY <2>1, <2>2 DEF EmbedInv
<1>5. CASE Embed!Resume
  BY <1>5 DEF Embed!Resume, EmbedInv
<1>6. CASE Embed!Refused
  <2>1. <<>> \in Seq(Nat)
    OBVIOUS
  <2> QED
    BY <1>6, <2>1 DEF Embed!Refused, EmbedInv
<1> QED
  BY <1>1, <1>2, <1>3, <1>4, <1>5, <1>6 DEF Embed!EmbedNext

-----------------------------------------------------------------------------
(* All of them.                                                            *)

WholeInv == DownloadInv /\ ExtractionInv /\ UploadInv /\ BackupInv /\ EmbedInv

LEMMA WholeMoves ==
  [Next]_vars => /\ [Extract!ExtractNext]_extractVars /\ [Files!UploadNext]_uploadVars
                 /\ [Backup!BackupNext]_backupVars /\ [Embed!EmbedNext]_embedVars
<1>1. [Next]_vars => [Extract!ExtractNext]_extractVars
  BY DEF Next, vars, OnlyFocus, extractVars
<1>2. [Next]_vars => [Files!UploadNext]_uploadVars
  BY DEF Next, vars, OnlyFocus, uploadVars
<1>3. [Next]_vars => [Backup!BackupNext]_backupVars
  BY DEF Next, vars, OnlyFocus, backupVars
<1>4. [Next]_vars => [Embed!EmbedNext]_embedVars
  BY DEF Next, vars, OnlyFocus, embedVars
<1> QED
  BY <1>1, <1>2, <1>3, <1>4

LEMMA WholeInvariant == Spec => []WholeInv
<1>1. Init => WholeInv
  BY TheFileConstants, DownloadStart, ExtractionStart, UploadStart, BackupStart, EmbedStart DEF Init, WholeInv
<1>2. WholeInv /\ [Next]_vars => WholeInv'
  <2> SUFFICES ASSUME WholeInv, [Next]_vars
               PROVE  WholeInv'
    OBVIOUS
  <2>1. DownloadInv'
    BY TheFileConstants, GraphMoves, NextDownload DEF WholeInv
  <2>2. ExtractionInv'
    BY TheFileConstants, WholeMoves, NextExtraction DEF WholeInv
  <2>3. UploadInv'
    BY TheFileConstants, WholeMoves, NextUpload DEF WholeInv
  <2>4. BackupInv'
    BY TheFileConstants, WholeMoves, NextBackup DEF WholeInv
  <2>5. EmbedInv'
    BY TheFileConstants, WholeMoves, NextEmbed DEF WholeInv
  <2> QED
    BY <2>1, <2>2, <2>3, <2>4, <2>5 DEF WholeInv
<1> QED
  BY <1>1, <1>2, PTL DEF Spec

\* graph_source.download, the extraction child, service._store_upload, backup_db.py and
\* embed_texts: whatever fails, stops or is killed on the way, a file is there whole or not at all,
\* the newest backup stays, a failed extraction leaves no result, and a document has a vector for
\* each of its texts or none.
THEOREM NothingIsHalfDone == Spec => []WholeOrNothing
<1>1. WholeInv => WholeOrNothing
  <2> SUFFICES ASSUME WholeInv
               PROVE  WholeOrNothing
    OBVIOUS
  <2>1. Extract!ResultIsOfThisAttempt /\ Embed!OneVectorPerText
    BY DEF WholeInv, ExtractionInv, EmbedInv
  <2> QED
    BY <2>1, TheFileConstants, DownloadsWhole, UploadInvIsWhole, BackupsWhole DEF WholeInv, WholeOrNothing
<1> QED
  BY <1>1, WholeInvariant, PTL

-----------------------------------------------------------------------------
(* Types.                                                                  *)

\* The parts with proofs of their own.
Own == INSTANCE ServicesProofs

LEMMA OwnConstants == Own!QueueConstants /\ Own!HealthConstants /\ Own!HealthBounds
<1>1. NameOf[q0] = "default" /\ NameOf[q0] # Blank
  <2>1. q0 \in Raw
    BY DEF Raw
  <2>2. NameOf[q0] = "default"
    BY <2>1 DEF NameOf
  <2>3. Blank # "default"
    BY ServicesAssumption
  <2> QED
    BY <2>2, <2>3
<1>2. DefaultGroups = [r \in {q0} |-> [usable |-> TRUE, verticals |-> Other, place |-> 0]]
  BY DEF DefaultGroups
<1>3. MaxPlace \in Nat /\ Document \cap Other = {} /\ q0 \in Raw
  BY ServicesAssumption DEF Raw
<1>4. DefaultGroups[q0] \in Own!Group
  BY <1>2, <1>3 DEF Own!Group
<1>5. Own!Valid(DefaultGroups) = {q0}
  BY <1>1, <1>2 DEF Own!Valid
<1>6. Own!IsConfig(DefaultGroups)
  BY <1>1, <1>2, <1>3, <1>4, <1>5 DEF Own!IsConfig, Own!Catalog, Own!Wins
<1>7. Own!QueueConstants
  BY <1>2, <1>3, <1>5, <1>6 DEF Own!QueueConstants, Patches
<1> QED
  BY <1>7, ServicesAssumption DEF Own!HealthConstants, Own!HealthBounds

LEMMA QueuesAreOwn ==
  /\ Corpus!QueueInit => Own!QueueInit
  /\ [Corpus!QueueNext]_queueVars => [Own!QueueNext]_Own!queueVars
  /\ Own!QueueTypeOK => Corpus!QueueTypeOK
<1> USE DEF Corpus!IsConfig, Own!IsConfig, Corpus!Group, Own!Group, Corpus!Catalog, Own!Catalog,
    Corpus!Valid, Own!Valid, Corpus!Wins, Own!Wins, Corpus!Indexed, Own!Indexed,
    Corpus!Readable, Own!Readable, Corpus!Serves, Own!Serves, Corpus!EnsureQueueGroups, Own!EnsureQueueGroups
<1>1. Corpus!QueueInit => Own!QueueInit
  BY DEF Corpus!QueueInit, Own!QueueInit
<1>2. Own!QueueTypeOK => Corpus!QueueTypeOK
  BY DEF Corpus!QueueTypeOK, Own!QueueTypeOK
<1>3. [Corpus!QueueNext]_queueVars => [Own!QueueNext]_Own!queueVars
  BY DEF queueVars, Own!queueVars, Corpus!QueueNext, Own!QueueNext, Corpus!ReadForPatch, Own!ReadForPatch,
     Corpus!WritePatch, Own!WritePatch, Corpus!Withdraw, Own!Withdraw, Corpus!Offer, Own!Offer,
     Corpus!RemoveVertical, Own!RemoveVertical, Corpus!SetVerticalQueues, Own!SetVerticalQueues
<1> QED
  BY <1>1, <1>2, <1>3

LEMMA QueueTypes == Spec => []Corpus!QueueTypeOK
<1>1. Init => Own!QueueInit
  BY QueuesAreOwn DEF Init
<1>2. [Next]_vars => [Own!QueueNext]_Own!queueVars
  <2>1. [Next]_vars => [Corpus!QueueNext]_queueVars
    BY DEF Next, vars, OnlyFocus, queueVars
  <2> QED
    BY <2>1, QueuesAreOwn
<1>3. Own!QueueSpec => []Own!QueueInv
  BY OwnConstants, Own!QueueInvariant
<1>4. Own!QueueInv => Corpus!QueueTypeOK
  BY QueuesAreOwn DEF Own!QueueInv
<1> QED
  BY <1>1, <1>2, <1>3, <1>4, PTL DEF Spec, Own!QueueSpec

\* Health checks.
LEMMA ChecksAreOwn ==
  /\ HealthInit => Own!HealthInit
  /\ [HealthNext]_healthVars => [Own!HealthNext]_Own!healthVars
  /\ Own!HealthTypeOK => HealthTypeOK
  /\ Own!EventsChain => EventsChain
<1> USE DEF HEALTHY, Own!HEALTHY, FAILED, Own!FAILED, NOT_CONFIGURED, Own!NOT_CONFIGURED, Never, Own!Never,
    Statuses, Own!Statuses, Row, Own!Row, Idle, Own!Idle
<1>1. HealthInit => Own!HealthInit
  BY DEF HealthInit, Own!HealthInit
<1>2. Own!HealthTypeOK => HealthTypeOK
  BY DEF HealthTypeOK, Own!HealthTypeOK
<1>3. Own!EventsChain => EventsChain
  BY DEF EventsChain, Own!EventsChain, Chained, Own!Chained, EventsOf, Own!EventsOf
<1>4. \A c : Own!Verdict(c) = Verdict(c)
  BY DEF Verdict, Own!Verdict, Judge, Own!Judge, DatabaseCheck, Own!DatabaseCheck, EmbeddingCheck, Own!EmbeddingCheck,
     ExtractionCheck, Own!ExtractionCheck, SharePointState, Own!SharePointState, IntegrityProblems, Own!IntegrityProblems,
     KnowledgeSyncCheck, Own!KnowledgeSyncCheck, SourceProbes, Own!SourceProbes, GraphCheck, Own!GraphCheck, CrmCheck, Own!CrmCheck
<1>5. ASSUME NEW b \in Backend, NEW c \in Component
      PROVE  /\ Probe(b, c) => Own!Probe(b, c)
             /\ Store(b, c) => Own!Store(b, c)
             /\ LoseStore(b, c) => Own!LoseStore(b, c)
  <2>1. Probe(b, c) => Own!Probe(b, c)
    BY <1>4 DEF Probe, Own!Probe
  <2>2. Store(b, c) => Own!Store(b, c)
    BY DEF Store, Own!Store, Advance, Own!Advance, Stored, Own!Stored, Event, Own!Event
  <2>3. LoseStore(b, c) => Own!LoseStore(b, c)
    BY DEF LoseStore, Own!LoseStore, Advance, Own!Advance
  <2> QED
    BY <2>1, <2>2, <2>3
<1>6. ASSUME NEW b \in Backend, NEW asked
      PROVE  StartRun(b, asked) => Own!StartRun(b, asked)
  BY DEF StartRun, Own!StartRun
<1>7. [HealthNext]_healthVars => [Own!HealthNext]_Own!healthVars
  BY <1>5, <1>6 DEF healthVars, Own!healthVars, HealthNext, Own!HealthNext, WorldChanges, Own!WorldChanges,
     Interrupt, Own!Interrupt, IntervalOver, Own!IntervalOver
<1> QED
  BY <1>1, <1>2, <1>3, <1>7

LEMMA HealthTypesHere == Spec => []HealthTypeOK
<1>1. Init => Own!HealthInit
  BY ChecksAreOwn DEF Init
<1>2. [Next]_vars => [Own!HealthNext]_Own!healthVars
  <2>1. [Next]_vars => [HealthNext]_healthVars
    BY DEF Next, vars, OnlyFocus, healthVars
  <2> QED
    BY <2>1, ChecksAreOwn
<1>3. Own!HealthSpec => []Own!HealthTypeOK
  BY OwnConstants, Own!HealthTypesHold
<1>4. Own!HealthTypeOK => HealthTypeOK
  BY ChecksAreOwn
<1> QED
  BY <1>1, <1>2, <1>3, <1>4, PTL DEF Spec, Own!HealthSpec

\* health.py and the scheduler: whatever backends probe and store at once, whatever is interrupted or
\* lost, the events of every component that is looked at are one chain of changes up to its status.
THEOREM EventsStayAChain == Spec => []EventsChain
<1>1. Init => Own!HealthInit
  BY ChecksAreOwn DEF Init
<1>2. [Next]_vars => [Own!HealthNext]_Own!healthVars
  <2>1. [Next]_vars => [HealthNext]_healthVars
    BY DEF Next, vars, OnlyFocus, healthVars
  <2> QED
    BY <2>1, ChecksAreOwn
<1>3. Own!HealthSpec => []Own!EventsChain
  BY OwnConstants, Own!EventsAreAChain
<1>4. Own!EventsChain => EventsChain
  BY ChecksAreOwn
<1> QED
  BY <1>1, <1>2, <1>3, <1>4, PTL DEF Spec, Own!HealthSpec

LEMMA KnownTypes == Spec => [](Zoho!ZohoTypeOK /\ Backup!BackupTypeOK)
<1>1. ZohoInv => Zoho!ZohoTypeOK
  <2> SUFFICES ASSUME ZohoInv
               PROVE  Zoho!ZohoTypeOK
    OBVIOUS
  <2> QED
    BY DEF ZohoInv, ZohoCall, Zoho!ZohoTypeOK
<1>2. BackupInv => Backup!BackupTypeOK
  BY DEF BackupInv, Backup!BackupTypeOK
<1> QED
  BY <1>1, <1>2, ZohoInvariant, WholeInvariant, PTL DEF WholeInv

\* The watchdog: what a run has decided is about targets.
WatchdogInv ==
  /\ outages \subseteq Target /\ told \subseteq Target /\ lost \subseteq Target
  /\ state \in [Target -> Watch!Entry]
  /\ run \in [at : {"idle", "decide", "send", "save"}, failing : SUBSET Target, alerts : SUBSET Target,
              recovered : SUBSET Target, next : [Target -> Watch!Entry]]
  /\ run.alerts \cap run.recovered = {}

LEMMA WatchdogTypes == Spec => []Watch!WatchdogTypeOK
<1>0. Repeat \in Nat
  BY ServicesAssumption
<1>1. /\ Watch!NoEntry \in Watch!Entry
      /\ \A e \in Watch!Entry : /\ Watch!Older(e) \in Watch!Entry /\ Watch!Failed(e) \in Watch!Entry
                                /\ [e EXCEPT !.since = 0] \in Watch!Entry
  BY <1>0 DEF Watch!NoEntry, Watch!Entry, Watch!Older, Watch!Failed, Watch!Min2, Watch!CONFIRM_RUNS
<1> HIDE DEF Watch!Entry
<1>2. /\ Watch!NoRun \in [at : {"idle", "decide", "send", "save"}, failing : SUBSET Target, alerts : SUBSET Target,
              recovered : SUBSET Target, next : [Target -> Watch!Entry]]
      /\ Watch!NoRun.alerts = {} /\ Watch!NoRun.next \in [Target -> Watch!Entry]
  BY <1>1 DEF Watch!NoRun
<1>3. Init => WatchdogInv
  BY <1>2 DEF Init, Watch!WatchdogInit, WatchdogInv
<1>4. ASSUME WatchdogInv, [Watch!WatchdogNext]_watchdogVars
      PROVE  WatchdogInv'
  <2> USE <1>4 DEF WatchdogInv
  <2>1. CASE Watch!WorldChanges \/ UNCHANGED watchdogVars
    BY <2>1 DEF Watch!WorldChanges, watchdogVars
  <2>2. CASE Watch!Check
    <3>1. state' = [c \in Target |-> Watch!Older(state[c])] /\ UNCHANGED <<outages, told, lost>>
          /\ run' = [Watch!NoRun EXCEPT !.at = "decide", !.failing = outages]
      BY <2>2 DEF Watch!Check
    <3>2. state' \in [Target -> Watch!Entry]
      BY <1>1, <3>1
    <3> QED
      BY <1>2, <3>1, <3>2
  <2>3. CASE Watch!LoseFile
    BY <1>2, <2>3 DEF Watch!LoseFile
  <2>4. CASE Watch!Decide
    <3> DEFINE recovered == {c \in Target \ run.failing : state[c].since # NoMail}
               alerts == {c \in run.failing : Watch!IsDue(c)}
               next == [c \in Target |-> IF c \in run.failing THEN Watch!Failed(state[c])
                                         ELSE IF c \in recovered THEN state[c] ELSE Watch!NoEntry]
    <3>1. PICK place \in {"save", "send"} :
            run' = [run EXCEPT !.at = place, !.alerts = alerts, !.recovered = recovered, !.next = next]
      BY <2>4 DEF Watch!Decide
    <3>2. next \in [Target -> Watch!Entry]
      BY <1>1
    <3>3. alerts \subseteq Target /\ recovered \subseteq Target /\ alerts \cap recovered = {}
      OBVIOUS
    <3>4. UNCHANGED <<outages, state, told, lost>>
      BY <2>4 DEF Watch!Decide
    <3> HIDE DEF next, alerts, recovered
    <3> QED
      BY <3>1, <3>2, <3>3, <3>4
  <2>5. CASE Watch!Sent
    <3>1. /\ run' = [run EXCEPT !.at = "save", !.next = Watch!Settled]
          /\ told' = (told \cup run.alerts) \ run.recovered /\ lost' = lost \ (run.alerts \cup run.recovered)
          /\ UNCHANGED <<outages, state>>
      BY <2>5 DEF Watch!Sent
    <3>2. Watch!Settled \in [Target -> Watch!Entry]
      BY <1>1 DEF Watch!Settled
    <3> QED
      BY <3>1, <3>2
  <2>6. CASE Watch!NotSent
    BY <2>6 DEF Watch!NotSent
  <2>7. CASE Watch!Save
    BY <1>2, <2>7 DEF Watch!Save
  <2>8. CASE Watch!Stops
    BY <1>2, <2>8 DEF Watch!Stops
  <2> QED
    BY <2>1, <2>2, <2>3, <2>4, <2>5, <2>6, <2>7, <2>8 DEF Watch!WatchdogNext
<1>5. WatchdogInv /\ [Next]_vars => WatchdogInv'
  <2>1. [Next]_vars => [Watch!WatchdogNext]_watchdogVars
    BY DEF Next, vars, OnlyFocus, watchdogVars
  <2> QED
    BY <1>4, <2>1
<1>6. WatchdogInv => Watch!WatchdogTypeOK
  BY DEF WatchdogInv, Watch!WatchdogTypeOK
<1> QED
  BY <1>3, <1>5, <1>6, PTL DEF Spec

\* What is left of a command is the end of its script.
LEMMA EndsOfScripts ==
  ASSUME NEW S, NEW t \in Seq(S)
  PROVE  /\ Migrate!IsSuffix(t, t) /\ Migrate!IsSuffix(<<>>, t)
         /\ \A s \in Seq(S) : s # <<>> /\ Migrate!IsSuffix(s, t) => Migrate!IsSuffix(Tail(s), t)
<1>1. \A s \in Seq(S) : Migrate!IsSuffix(s, t) <=>
         Len(s) <= Len(t) /\ \A i \in 1 .. Len(s) : s[(Len(s) - i) + 1] = t[(Len(t) - i) + 1]
  <2> SUFFICES ASSUME NEW s \in Seq(S)
               PROVE  Migrate!IsSuffix(s, t) <=>
                        Len(s) <= Len(t) /\ \A i \in 1 .. Len(s) : s[(Len(s) - i) + 1] = t[(Len(t) - i) + 1]
    OBVIOUS
  <2> DEFINE rs == Migrate!Reverse(s)
             rt == Migrate!Reverse(t)
  <2>1. ASSUME NEW q \in Seq(S)
        PROVE  /\ Migrate!Reverse(q) \in Seq(S) /\ Len(Migrate!Reverse(q)) = Len(q)
               /\ \A i \in 1 .. Len(q) : Migrate!Reverse(q)[i] = q[(Len(q) - i) + 1]
    <3> DEFINE n == Len(q)
    <3>1. n \in Nat /\ Migrate!Reverse(q) = [i \in 1 .. n |-> q[(n - i) + 1]]
      BY DEF Migrate!Reverse
    <3>2. \A i \in 1 .. n : (n - i) + 1 \in 1 .. n
      BY <3>1
    <3>3. \A i \in 1 .. n : q[(n - i) + 1] \in S
      BY <3>2, ElementOfSeq
    <3> HIDE DEF n
    <3>4. Migrate!Reverse(q) \in [1 .. n -> S]
      BY <3>1, <3>3, Zenon
    <3>5. Migrate!Reverse(q) \in Seq(S)
      BY <3>1, <3>4, SeqDef
    <3>6. Len(Migrate!Reverse(q)) = n
      BY <3>1, <3>4, <3>5, LenProperties
    <3> QED
      BY <3>1, <3>5, <3>6 DEF n
  <2>2. rs \in Seq(S) /\ rt \in Seq(S) /\ Len(rs) = Len(s) /\ Len(rt) = Len(t)
    BY <2>1
  <2> HIDE DEF rs, rt
  <2>3. Migrate!IsPrefix(rs, rt) <=> Len(rs) <= Len(rt) /\ \A i \in 1 .. Len(rs) : rs[i] = rt[i]
    <3> DEFINE k == Len(rs)
    <3>1. k \in Nat /\ Len(rt) \in Nat
      BY <2>2
    <3>2. CASE k <= Len(rt)
      <4>1. /\ SubSeq(rs, 1, k) = [i \in 1 .. k |-> rs[i]]
            /\ SubSeq(rt, 1, k) = [i \in 1 .. k |-> rt[i]]
        <5>1. \A i \in 1 .. k : i \in 1 .. Len(rs) /\ i \in 1 .. Len(rt)
          BY <3>1, <3>2
        <5> HIDE DEF k
        <5> QED
          BY <2>2, <3>1, <3>2, <5>1
      <4> HIDE DEF k
      <4>2. SubSeq(rs, 1, k) = SubSeq(rt, 1, k) <=> \A i \in 1 .. k : rs[i] = rt[i]
        BY <4>1
      <4> QED
        BY <3>2, <4>2 DEF k, Migrate!IsPrefix
    <3>3. CASE ~(k <= Len(rt))
      BY <3>3 DEF Migrate!IsPrefix
    <3> QED
      BY <3>2, <3>3
  <2>4. (\A i \in 1 .. Len(s) : rs[i] = s[(Len(s) - i) + 1]) /\ (\A i \in 1 .. Len(t) : rt[i] = t[(Len(t) - i) + 1])
    BY <2>1 DEF rs, rt
  <2>5. Len(s) \in Nat /\ Len(t) \in Nat
    OBVIOUS
  <2>6. Migrate!IsSuffix(s, t) <=> Migrate!IsPrefix(rs, rt)
    BY DEF Migrate!IsSuffix, rs, rt
  <2>7. ASSUME Len(s) <= Len(t), NEW i \in 1 .. Len(s)
        PROVE  rs[i] = s[(Len(s) - i) + 1] /\ rt[i] = t[(Len(t) - i) + 1]
    <3>1. i \in 1 .. Len(t)
      BY <2>5, <2>7
    <3> QED
      BY <2>4, <3>1
  <2>8. CASE Len(s) <= Len(t)
    <3>1. (\A i \in 1 .. Len(s) : rs[i] = rt[i]) <=>
            (\A i \in 1 .. Len(s) : s[(Len(s) - i) + 1] = t[(Len(t) - i) + 1])
      BY <2>7, <2>8
    <3> QED
      BY <2>2, <2>3, <2>6, <2>8, <3>1
  <2>9. CASE ~(Len(s) <= Len(t))
    BY <2>2, <2>3, <2>6, <2>9
  <2> QED
    BY <2>8, <2>9
<1>2. Migrate!IsSuffix(t, t)
  BY <1>1
<1>3. Migrate!IsSuffix(<<>>, t)
  <2> DEFINE e == <<>>
  <2>1. e \in Seq(S) /\ Len(e) = 0 /\ Len(t) \in Nat
    OBVIOUS
  <2> HIDE DEF e
  <2>2. Len(e) <= Len(t) /\ \A i \in 1 .. Len(e) : e[(Len(e) - i) + 1] = t[(Len(t) - i) + 1]
    BY <2>1
  <2>3. Migrate!IsSuffix(e, t)
    BY <1>1, <2>1, <2>2
  <2> QED
    BY <2>3 DEF e
<1>4. ASSUME NEW s \in Seq(S), s # <<>>, Migrate!IsSuffix(s, t)
      PROVE  Migrate!IsSuffix(Tail(s), t)
  <2>1. Len(s) \in Nat \ {0} /\ Len(t) \in Nat
    BY <1>4, EmptySeq
  <2>2. /\ Tail(s) \in Seq(S) /\ Len(Tail(s)) = Len(s) - 1
        /\ \A i \in 1 .. (Len(s) - 1) : Tail(s)[i] = s[i + 1]
    BY <1>4, HeadTailProperties
  <2>3. Len(s) <= Len(t) /\ \A i \in 1 .. Len(s) : s[(Len(s) - i) + 1] = t[(Len(t) - i) + 1]
    BY <1>1, <1>4
  <2>4. ASSUME NEW i \in 1 .. (Len(s) - 1)
        PROVE  Tail(s)[((Len(s) - 1) - i) + 1] = t[(Len(t) - i) + 1]
    <3>1. ((Len(s) - 1) - i) + 1 \in 1 .. (Len(s) - 1) /\ (((Len(s) - 1) - i) + 1) + 1 = (Len(s) - i) + 1
          /\ i \in 1 .. Len(s)
      BY <2>1
    <3>2. Tail(s)[((Len(s) - 1) - i) + 1] = s[(((Len(s) - 1) - i) + 1) + 1]
      BY <2>2, <3>1
    <3> QED
      BY <2>3, <3>1, <3>2
  <2>5. Len(s) - 1 <= Len(t)
    BY <2>1, <2>3
  <2>6. \A i \in 1 .. Len(Tail(s)) : Tail(s)[(Len(Tail(s)) - i) + 1] = t[(Len(t) - i) + 1]
    BY <2>2, <2>4
  <2> QED
    BY <1>1, <2>2, <2>5, <2>6
<1> QED
  BY <1>2, <1>3, <1>4

LeftOf(left, v) ==
  Migrate!IsSuffix(left, Migrate!Script[v]) \/ Migrate!IsSuffix(left, Migrate!Reverse(Migrate!Script[v]))

TableInv ==
  /\ tables \subseteq UNION {Migrate!Created(v) : v \in Migrate!Version}
  /\ Migrate!Ledger \notin tables => ledger = {}
  /\ published \in BOOLEAN
  /\ LeftOf(tool.left, tool.version)

\* A command begins with a whole script, and goes on with the rest of it.
LEMMA Leftovers ==
  ASSUME NEW v \in Migrate!Version
  PROVE  /\ LeftOf(Migrate!Script[v], v) /\ LeftOf(Migrate!Reverse(Migrate!Script[v]), v) /\ LeftOf(<<>>, v)
         /\ \A left \in Seq(MigrateTable) : left # <<>> /\ LeftOf(left, v) => LeftOf(Tail(left), v)
  BY Scripts, EndsOfScripts DEF LeftOf

LEMMA NextTables ==
  ASSUME LedgerInv, TableInv, [Migrate!MigrateNext]_migrateVars
  PROVE  TableInv'
<1> USE DEF TableInv
<1>0. /\ tool.version \in Migrate!Version /\ tool.left \in Seq(MigrateTable) /\ 1 \in Migrate!Version
      /\ tool.at \in {"create", "drop"} => tool.left # <<>> /\ Head(tool.left) \in Migrate!Created(tool.version)
      /\ tool \in [at : Migrate!Commands \cup {"idle"}, version : Migrate!Version, facts : {{}}, left : Seq(MigrateTable)]
  <2>1. ToolOK /\ 1 \in Migrate!Version
    BY DEF LedgerInv, Migrate!Version, Migrate!Script
  <2> QED
    BY <2>1, HeadAndTail DEF ToolOK
<1>1. CASE UNCHANGED migrateVars
  BY <1>1 DEF migrateVars
<1>2. CASE Migrate!PublishOrUnpublish
  BY <1>2 DEF Migrate!PublishOrUnpublish
<1>3. ASSUME tool' = Migrate!NoCommand
      PROVE  LeftOf(tool.left, tool.version)'
  BY <1>0, <1>3, Leftovers DEF Migrate!NoCommand, LeftOf
<1>4. CASE Migrate!Stops
  BY <1>3, <1>4 DEF Migrate!Stops
<1>5. CASE Migrate!Create
  <2>1. tool.at = "create" /\ UNCHANGED <<ledger, published>> /\ tables' = tables \cup {Head(tool.left)}
    BY <1>5 DEF Migrate!Create
  <2>2. tool'.left = Tail(tool.left) /\ tool'.version = tool.version
    BY <1>0, <1>5 DEF Migrate!Create
  <2>3. LeftOf(tool'.left, tool'.version)
    BY <1>0, <2>1, <2>2, Leftovers
  <2> QED
    BY <1>0, <2>1, <2>3 DEF LeftOf
<1>6. CASE Migrate!Record
  BY <1>3, <1>6 DEF Migrate!Record
<1>7. CASE Migrate!Unrecord
  <2>1. tool'.left = tool.left /\ tool'.version = tool.version /\ UNCHANGED <<tables, published>> /\ ledger' \subseteq ledger
    BY <1>0, <1>7 DEF Migrate!Unrecord
  <2> QED
    BY <2>1 DEF LeftOf
<1>8. CASE Migrate!Drop
  <2>1. /\ tool.at = "drop" /\ tables' = tables \ {Head(tool.left)}
        /\ ledger' = (IF Head(tool.left) = Migrate!Ledger THEN {} ELSE ledger)
        /\ published' \in BOOLEAN
    BY <1>8 DEF Migrate!Drop
  <2>2. CASE tool' = Migrate!NoCommand
    BY <1>3, <2>1, <2>2
  <2>3. CASE tool' # Migrate!NoCommand
    <3>1. tool'.left = Tail(tool.left) /\ tool'.version = tool.version
      BY <1>0, <1>8, <2>3 DEF Migrate!Drop
    <3>2. LeftOf(tool'.left, tool'.version)
      BY <1>0, <2>1, <3>1, Leftovers
    <3> QED
      BY <2>1, <3>2 DEF LeftOf
  <2> QED
    BY <2>2, <2>3
<1>9. ASSUME NEW v \in Migrate!Version, NEW force \in BOOLEAN, Migrate!Apply(v) \/ Migrate!Rollback(v, force)
      PROVE  TableInv'
  <2>1. /\ UNCHANGED <<tables, ledger, published>> /\ tool'.version = v
        /\ tool'.left \in {Migrate!Script[v], Migrate!Reverse(Migrate!Script[v])}
    BY <1>9 DEF Migrate!Apply, Migrate!Rollback, Migrate!NoCommand
  <2>2. LeftOf(tool'.left, tool'.version)
    BY <2>1, Leftovers
  <2> QED
    BY <2>1, <2>2 DEF LeftOf
<1> QED
  BY <1>1, <1>2, <1>4, <1>5, <1>6, <1>7, <1>8, <1>9 DEF Migrate!MigrateNext, Migrate!MigrateStep

LEMMA MigrateTypes == Spec => []Migrate!MigrateTypeOK
<1>1. Init => TableInv
  <2>1. Migrate!MigrateInit => TableInv
    <3>1. 1 \in Migrate!Version
      BY DEF Migrate!Version, Migrate!Script
    <3>2. LeftOf(<<>>, 1)
      BY <3>1, Leftovers
    <3> SUFFICES ASSUME Migrate!MigrateInit
                 PROVE  TableInv
      OBVIOUS
    <3>3. tool.left = <<>> /\ tool.version = 1
      BY DEF Migrate!MigrateInit, Migrate!NoCommand
    <3>4. LeftOf(tool.left, tool.version)
      BY <3>2, <3>3
    <3> QED
      BY <3>4 DEF Migrate!MigrateInit, TableInv
  <2> QED
    BY <2>1 DEF Init
<1>2. TableInv /\ LedgerInv /\ [Next]_vars => TableInv'
  BY NextTables, MigrateMoves
<1>3. TableInv /\ LedgerInv => Migrate!MigrateTypeOK
  BY DEF TableInv, LeftOf, LedgerInv, ToolOK, Migrate!MigrateTypeOK
<1> QED
  BY <1>1, <1>2, <1>3, LedgerInvariant, PTL DEF Spec

\* The set-up at start: a unit has one or two statements.
ShortUnit == {u \in [unless : SUBSET STRING, makes : Seq(STRING)] : Len(u.makes) \in 1 .. 2}

LEMMA PlanIsShort == \A i \in 1 .. Len(Plan) : Plan[i] \in ShortUnit
<1>1. Plan \in Seq([unless : SUBSET STRING, makes : Seq(STRING)])
  BY LooksForWhatItMakes
<1>2. DOMAIN Plan = 1 .. Len(Plan) /\ \A i \in DOMAIN Plan : Len(Plan[i].makes) \in 1 .. 2
  BY <1>1, LooksForWhatItMakes
<1>3. ASSUME NEW i \in 1 .. Len(Plan)
      PROVE  Plan[i] \in [unless : SUBSET STRING, makes : Seq(STRING)]
  <2> DEFINE U == [unless : SUBSET STRING, makes : Seq(STRING)]
  <2>1. Plan \in Seq(U)
    BY <1>1
  <2> HIDE DEF U
  <2>2. Plan[i] \in U
    BY <1>3, <2>1, ElementOfSeq
  <2> QED
    BY <2>2 DEF U
<1> QED
  BY <1>2, <1>3 DEF ShortUnit

ServerPlace == [at : {"down", "check", "make", "up"}, unit : 1 .. Len(Plan) + 1, statement : 1 .. 2]

\* A server that makes something is at a statement of its unit.
PlaceInv ==
  /\ database \subseteq STRING
  /\ progress \in [Server -> ServerPlace]
  /\ \A s \in Server : progress[s].at = "make" => progress[s].statement \in 1 .. Len(Start!UnitOf(s).makes)
  /\ promoted \in BOOLEAN
  /\ deaths \in 0 .. MaxDeaths

\* One server goes elsewhere.
LEMMA ServerGoes ==
  ASSUME PlaceInv, NEW s \in Server, NEW place \in ServerPlace, progress' = [progress EXCEPT ![s] = place],
         place.at = "make" => place.statement \in 1 .. Len(Plan[place.unit].makes)
  PROVE  /\ progress' \in [Server -> ServerPlace]
         /\ \A t \in Server : progress'[t].at = "make" => progress'[t].statement \in 1 .. Len(Start!UnitOf(t)'.makes)
<1>1. progress'[s] = place /\ \A t \in Server \ {s} : progress'[t] = progress[t]
  BY DEF PlaceInv
<1>2. progress' \in [Server -> ServerPlace]
  BY DEF PlaceInv
<1> QED
  BY <1>1, <1>2 DEF PlaceInv, Start!UnitOf

LEMMA NextPlace ==
  ASSUME StartInv, PlaceInv, [Start!StartNext]_startVars
  PROVE  PlaceInv'
<1>0. /\ Len(Plan) \in Nat \ {0} /\ DOMAIN Plan = 1 .. Len(Plan) /\ MaxDeaths \in Nat
      /\ \A i \in 1 .. Len(Plan) : Plan[i] \in ShortUnit
  BY PlanLooks, PlanIsShort, ServicesAssumption DEF PlanConstants
<1>1. Start!Down \in ServerPlace /\ [at |-> "check", unit |-> 1, statement |-> 1] \in ServerPlace
  BY <1>0 DEF Start!Down, ServerPlace
<1>2. CASE UNCHANGED startVars
  BY <1>2 DEF startVars, PlaceInv, Start!UnitOf
<1>3. ASSUME NEW s \in Server, progress[s].at \in {"check", "make"}
      PROVE  /\ progress[s].unit \in 1 .. Len(Plan) /\ Start!UnitOf(s) \in ShortUnit
             /\ [at |-> "make", unit |-> progress[s].unit, statement |-> 1] \in ServerPlace
             /\ [at |-> IF progress[s].unit = Len(Plan) THEN "up" ELSE "check",
                 unit |-> progress[s].unit + 1, statement |-> 1] \in ServerPlace
  <2>1. progress[s].unit \in 1 .. Len(Plan)
    BY <1>3 DEF StartInv, SeenTo
  <2>2. progress[s].unit \in 1 .. Len(Plan) + 1 /\ progress[s].unit + 1 \in 1 .. Len(Plan) + 1
    BY <1>0, <2>1
  <2> QED
    BY <1>0, <2>1, <2>2 DEF Start!UnitOf, ServerPlace
<1>4. ASSUME NEW s \in Server, progress[s].at \in {"check", "make"}, Start!NextUnit(s)
      PROVE  /\ progress' \in [Server -> ServerPlace]
             /\ \A t \in Server : progress'[t].at = "make" => progress'[t].statement \in 1 .. Len(Start!UnitOf(t)'.makes)
  <2> DEFINE place == [at |-> IF progress[s].unit = Len(Plan) THEN "up" ELSE "check",
                       unit |-> progress[s].unit + 1, statement |-> 1]
  <2>1. place \in ServerPlace /\ place.at # "make"
    BY <1>3, <1>4
  <2>2. progress' = [progress EXCEPT ![s] = place]
    BY <1>4 DEF Start!NextUnit, Start!At
  <2> HIDE DEF place
  <2> QED
    BY <2>1, <2>2, ServerGoes
<1>5. ASSUME NEW s \in Server, Start!Boot(s)
      PROVE  PlaceInv'
  <2> DEFINE place == [at |-> "check", unit |-> 1, statement |-> 1]
  <2>1. place \in ServerPlace /\ place.at # "make" /\ progress' = [progress EXCEPT ![s] = place]
        /\ UNCHANGED <<database, promoted, deaths>>
    BY <1>1, <1>5 DEF Start!Boot, Start!At
  <2> HIDE DEF place
  <2> QED
    BY <2>1, ServerGoes DEF PlaceInv
<1>6. ASSUME NEW s \in Server, Start!Check(s)
      PROVE  PlaceInv'
  <2>1. progress[s].at = "check" /\ UNCHANGED <<database, promoted, deaths>>
    BY <1>6 DEF Start!Check
  <2>2. CASE Start!NextUnit(s)
    BY <1>4, <2>1, <2>2 DEF PlaceInv
  <2>3. CASE ~Start!NextUnit(s)
    <3> DEFINE place == [at |-> "make", unit |-> progress[s].unit, statement |-> 1]
    <3>1. progress' = [progress EXCEPT ![s] = place]
      BY <1>6, <2>3 DEF Start!Check, Start!At
    <3>2. place \in ServerPlace
      BY <1>3, <2>1
    <3>3. Plan[progress[s].unit] \in ShortUnit /\ place.unit = progress[s].unit /\ place.statement = 1
      BY <1>3, <2>1 DEF Start!UnitOf
    <3>4. Len(Plan[progress[s].unit].makes) \in 1 .. 2
      BY <3>3 DEF ShortUnit
    <3> HIDE DEF place
    <3>5. place.statement \in 1 .. Len(Plan[place.unit].makes)
      <4>1. Plan[place.unit] = Plan[progress[s].unit]
        BY <3>3
      <4>2. \A n \in 1 .. 2 : 1 \in 1 .. n
        OBVIOUS
      <4> QED
        BY <3>3, <3>4, <4>1, <4>2
    <3> QED
      BY <2>1, <3>1, <3>2, <3>5, ServerGoes DEF PlaceInv
  <2> QED
    BY <2>2, <2>3
<1>7. ASSUME NEW s \in Server, Start!Make(s)
      PROVE  PlaceInv'
  <2>1. /\ progress[s].at = "make" /\ database' = database \cup ({Start!Statement(s)} \ {"trainees"})
        /\ promoted' \in BOOLEAN /\ UNCHANGED deaths
    BY <1>7 DEF Start!Make
  <2>2. /\ Start!UnitOf(s) \in ShortUnit /\ progress[s].statement \in 1 .. Len(Start!UnitOf(s).makes)
        /\ Start!UnitOf(s).makes \in Seq(STRING) /\ Len(Start!UnitOf(s).makes) \in 1 .. 2
    BY <1>3, <2>1 DEF PlaceInv, ShortUnit
  <2>3. Start!Statement(s) \in STRING
    BY <2>2, ElementOfSeq DEF Start!Statement
  <2>4. database' \subseteq STRING
    BY <2>1, <2>3 DEF PlaceInv
  <2>5. CASE progress' = [progress EXCEPT ![s] = Start!Down]
    <3>1. Start!Down.at # "make"
      BY DEF Start!Down
    <3> QED
      BY <1>1, <2>1, <2>4, <2>5, <3>1, ServerGoes DEF PlaceInv
  <2>6. CASE Start!NextUnit(s)
    BY <1>4, <2>1, <2>4, <2>6 DEF PlaceInv
  <2>7. CASE /\ progress[s].statement < Len(Start!UnitOf(s).makes)
             /\ Start!At(s, "make", progress[s].unit, progress[s].statement + 1)
    <3> DEFINE place == [at |-> "make", unit |-> progress[s].unit, statement |-> progress[s].statement + 1]
    <3>1. progress' = [progress EXCEPT ![s] = place]
      BY <2>7 DEF Start!At
    <3>2. place.statement \in 1 .. 2 /\ place.statement \in 1 .. Len(Plan[place.unit].makes)
      <4>0. place.unit = progress[s].unit /\ place.statement = progress[s].statement + 1
        OBVIOUS
      <4> HIDE DEF place
      <4>1. Start!UnitOf(s) = Plan[progress[s].unit]
        BY DEF Start!UnitOf
      <4>2. \A n \in 1 .. 2 : \A k \in 1 .. n : k < n => k + 1 \in 1 .. 2 /\ k + 1 \in 1 .. n
        OBVIOUS
      <4>3. progress[s].statement < Len(Start!UnitOf(s).makes)
        BY <2>7
      <4> QED
        BY <2>2, <4>0, <4>1, <4>2, <4>3
    <3>3. place \in ServerPlace
      BY <1>0, <1>3, <2>1, <3>2 DEF ServerPlace
    <3> HIDE DEF place
    <3> QED
      BY <2>1, <2>4, <3>1, <3>2, <3>3, ServerGoes DEF PlaceInv
  <2> QED
    BY <1>7, <2>5, <2>6, <2>7 DEF Start!Make, Start!NextStatement
<1>8. ASSUME NEW s \in Server, Start!Die(s)
      PROVE  PlaceInv'
  <2>1. /\ progress' = [progress EXCEPT ![s] = Start!Down] /\ Start!Down.at # "make"
        /\ deaths < MaxDeaths /\ deaths' = deaths + 1 /\ UNCHANGED <<database, promoted>>
    BY <1>8 DEF Start!Die, Start!Down
  <2>2. deaths' \in 0 .. MaxDeaths
    BY <1>0, <2>1 DEF PlaceInv
  <2> QED
    BY <1>1, <2>1, <2>2, ServerGoes DEF PlaceInv
<1>9. ASSUME NEW s \in Server, Start!Promote(s)
      PROVE  PlaceInv'
  BY <1>9 DEF Start!Promote, PlaceInv, Start!UnitOf
<1> QED
  BY <1>2, <1>5, <1>6, <1>7, <1>8, <1>9 DEF Start!StartNext

LEMMA StartTypes == Spec => []Start!StartTypeOK
<1>1. Init => PlaceInv
  <2>1. Len(Plan) \in Nat /\ MaxDeaths \in Nat
    BY PlanLooks, ServicesAssumption DEF PlanConstants
  <2>2. Start!Down \in ServerPlace /\ Start!Down.at = "down"
    BY <2>1 DEF Start!Down, ServerPlace
  <2> SUFFICES ASSUME Start!StartInit
               PROVE  PlaceInv
    BY DEF Init
  <2>3. progress \in [Server -> ServerPlace] /\ \A s \in Server : progress[s].at # "make"
    <3>1. progress = [s \in Server |-> Start!Down]
      BY DEF Start!StartInit
    <3> QED
      BY <2>2, <3>1
  <2>4. database \subseteq STRING /\ promoted \in BOOLEAN /\ deaths \in 0 .. MaxDeaths
    <3>1. deaths = 0 /\ promoted = FALSE /\ database = {}
      BY DEF Start!StartInit
    <3>2. 0 \in 0 .. MaxDeaths
      BY <2>1
    <3>3. database \subseteq STRING
      BY <3>1
    <3> QED
      BY <3>1, <3>2, <3>3
  <2> QED
    BY <2>3, <2>4 DEF PlaceInv
<1>2. StartInv /\ PlaceInv /\ [Next]_vars => PlaceInv'
  BY NextPlace, StartMoves
<1>3. PlaceInv => Start!StartTypeOK
  BY DEF PlaceInv, ServerPlace, Start!StartTypeOK
<1> QED
  BY <1>1, <1>2, <1>3, StartInvariant, PTL DEF Spec

\* Embedding.
EmbedBounds ==
  embed.start \in 1..(MaxTexts + BatchSize) /\ embed.attempt \in 0..EmbedRetries /\ embed.reply \subseteq 1..MaxTexts

LEMMA NextBounds ==
  ASSUME EmbedInv, EmbedBounds, [Embed!EmbedNext]_embedVars
  PROVE  EmbedBounds'
<1>0. /\ MaxTexts \in Nat /\ EmbedRetries \in Nat /\ BatchSize \in Nat \ {0} /\ texts \in 0..MaxTexts
      /\ embed.start \in Nat /\ embed.attempt \in Nat
  BY ServicesAssumption DEF EmbedInv
<1>1. CASE UNCHANGED embedVars
  BY <1>1 DEF embedVars, EmbedBounds
<1>2. CASE Embed!Reply
  <2>1. embed.at = "ask"
    BY <1>2 DEF Embed!Reply
  <2>2. PICK batch \in SUBSET Embed!Batch : embed' = [embed EXCEPT !.at = "read", !.reply = batch]
    BY <1>2 DEF Embed!Reply
  <2>3. batch \subseteq 1..MaxTexts
    <3>1. Embed!Batch = embed.start..LastText
      BY <2>1, TheFileConstants, BatchIs
    <3>2. embed.start \in 1..texts /\ LastText <= texts /\ LastText \in Nat
      BY <1>0, <2>1, TheFileConstants, BatchIs DEF EmbedInv, LastText
    <3> QED
      BY <1>0, <2>2, <3>1, <3>2
  <2>4. embed'.start = embed.start /\ embed'.attempt = embed.attempt /\ embed'.reply = batch
    BY <2>2 DEF EmbedInv
  <2> QED
    BY <2>3, <2>4 DEF EmbedBounds
<1>3. CASE Embed!Collect
  <2>1. CASE embed' = [embed EXCEPT !.at = "failed", !.vectors = <<>>, !.reply = {}]
    <3>1. embed'.start = embed.start /\ embed'.attempt = embed.attempt /\ embed'.reply = {}
      BY <2>1 DEF EmbedInv
    <3> QED
      BY <3>1 DEF EmbedBounds
  <2>2. CASE embed' = [at |-> IF embed.start + BatchSize > texts THEN "done" ELSE "ask",
                       start |-> embed.start + BatchSize, attempt |-> 0,
                       vectors |-> embed.vectors \o Embed!InOrder(embed.reply), reply |-> {}]
    <3>1. embed'.start = embed.start + BatchSize /\ embed'.attempt = 0 /\ embed'.reply = {}
      BY <2>2
    <3>2. embed.start \in 1..texts
      BY <1>3 DEF Embed!Collect, EmbedInv
    <3> QED
      BY <1>0, <3>1, <3>2 DEF EmbedBounds
  <2> QED
    BY <1>3, <2>1, <2>2 DEF Embed!Collect
<1>4. CASE Embed!Trouble
  <2>1. embed'.start = embed.start /\ embed'.attempt = embed.attempt + 1 /\ embed'.reply = embed.reply
        /\ embed.attempt < EmbedRetries
    BY <1>4 DEF Embed!Trouble, EmbedInv
  <2> QED
    BY <1>0, <2>1 DEF EmbedBounds
<1>5. CASE Embed!Resume \/ Embed!Refused
  <2>1. embed'.start = embed.start /\ embed'.attempt = embed.attempt /\ embed'.reply = embed.reply
    BY <1>5 DEF Embed!Resume, Embed!Refused, EmbedInv
  <2> QED
    BY <2>1 DEF EmbedBounds
<1> QED
  BY <1>1, <1>2, <1>3, <1>4, <1>5 DEF Embed!EmbedNext

LEMMA VectorsOfTexts == ASSUME EmbedInv PROVE embed.vectors \in Seq(1..MaxTexts)
<1>1. ASSUME NEW n \in 0..MaxTexts
      PROVE  [i \in 1..n |-> i] \in Seq(1..MaxTexts)
  <2>1. n \in Nat /\ MaxTexts \in Nat
    BY ServicesAssumption
  <2>2. \A i \in 1..n : i \in 1..MaxTexts
    BY <2>1
  <2> QED
    BY <2>1, <2>2
<1>2. texts \in 0..MaxTexts /\ MaxTexts \in Nat
  BY ServicesAssumption DEF EmbedInv
<1>3. CASE embed.at \in {"ask", "read", "pause"}
  <2>1. embed.start - 1 \in 0..MaxTexts /\ embed.vectors = [i \in 1..(embed.start - 1) |-> i]
    BY <1>2, <1>3 DEF EmbedInv
  <2> QED
    BY <1>1, <2>1
<1>4. CASE embed.at = "done"
  BY <1>1, <1>2, <1>4 DEF EmbedInv, Embed!OneVectorPerText
<1>5. CASE embed.at = "failed"
  <2>1. embed.vectors = <<>>
    BY <1>5 DEF EmbedInv, Embed!OneVectorPerText
  <2> QED
    BY <2>1
<1> QED
  BY <1>3, <1>4, <1>5 DEF EmbedInv

LEMMA EmbedTypes == Spec => []Embed!EmbedTypeOK
<1>1. Init => EmbedBounds
  <2>1. MaxTexts \in Nat /\ EmbedRetries \in Nat /\ BatchSize \in Nat \ {0}
    BY ServicesAssumption
  <2> QED
    BY <2>1 DEF Init, Embed!EmbedInit, EmbedBounds
<1>2. EmbedInv /\ EmbedBounds /\ [Next]_vars => EmbedBounds'
  BY NextBounds, WholeMoves
<1>3. EmbedInv /\ EmbedBounds => Embed!EmbedTypeOK
  BY VectorsOfTexts DEF EmbedInv, EmbedBounds, Embed!EmbedTypeOK
<1>4. WholeInv => EmbedInv
  BY DEF WholeInv
<1> QED
  BY <1>1, <1>2, <1>3, <1>4, WholeInvariant, PTL DEF Spec

\* Extraction: the child at work is of the thread with the slot.  Uploads.
LEMMA ExtractTypes == ASSUME ExtractionInv PROVE Extract!ExtractTypeOK
<1>1. {t \in Extract!Thread : Extract!Alive(t)} \subseteq {slot}
  BY DEF ExtractionInv, Extract!Alive, Extract!Stages, Holding
<1>2. Extract!Cardinality({t \in Extract!Thread : Extract!Alive(t)}) <= 1
  <2>1. \A S : Extract!Cardinality(S) = Cardinality(S)
    BY DEF Extract!Cardinality, Cardinality
  <2>2. IsFiniteSet({slot}) /\ Cardinality({slot}) = 1
    BY FS_Singleton
  <2>3. Cardinality({t \in Extract!Thread : Extract!Alive(t)}) <= Cardinality({slot})
    BY <1>1, <2>2, FS_Subset
  <2> QED
    BY <2>1, <2>2, <2>3
<1>3. thread \in [Extract!Thread -> Extract!Resting \cup {"wait", "prepare", "spawn", "track", "communicate", "read"}]
  BY DEF ExtractionInv, ExtractThreads, Holding
<1> QED
  BY <1>2, <1>3 DEF ExtractionInv, Extract!ExtractTypeOK

LEMMA UploadTypes == ASSUME UploadInv PROVE Files!UploadTypeOK
<1>1. MaxSize \in Nat
  BY ServicesAssumption
<1>2. ASSUME NEW u \in Upload
      PROVE  /\ request[u].at \in Files!Works \cup {"idle", "read", "duplicate", "insert", "reject", "over"}
             /\ request[u].size \in 0..(MaxSize + 1)
             /\ writer[u] \in Files!Works \cup {"none"}
             /\ {disk[u].part, disk[u].original} \subseteq 0..MaxSize \cup {Gone}
  <2>1. disk[u] \in UploadDir /\ request[u] \in UploadRequest /\ writer[u] \in Files!Works \cup {"none"}
    BY DEF UploadInv, UploadShape
  <2>2. /\ request[u].at \in Streaming \cup {"idle", "duplicate", "insert", "reject", "over"}
        /\ request[u].size \in 0..MaxSize
    BY <2>1 DEF UploadRequest, Sizes
  <2>3. request[u].at \in Files!Works \cup {"idle", "read", "duplicate", "insert", "reject", "over"}
    BY <2>2 DEF Streaming, Files!Works
  <2>4. {disk[u].part, disk[u].original} \subseteq 0..MaxSize \cup {Gone}
    BY <2>1 DEF UploadDir, Sizes
  <2> QED
    BY <1>1, <2>1, <2>2, <2>3, <2>4
<1> QED
  BY <1>2 DEF UploadInv, UploadShape, UploadRow, Files!UploadTypeOK

\* Chunks: the blocks, or the pages, are read from the first to the last.
ChunkInv ==
  /\ Cut!ChunkTypeOK
  /\ chunker = [source |-> chunker.source, next |-> chunker.next, builder |-> chunker.builder,
                outcome |-> chunker.outcome]

LEMMA DocumentsHaveLengths ==
  ASSUME NEW d \in Documents PROVE Len(d.blocks) \in Nat /\ Len(d.pages) \in Nat
<1>1. ASSUME NEW S, NEW n \in Nat, NEW f \in [1..n -> S] PROVE Len(f) \in Nat
  BY <1>1
<1>2. d.blocks \in UNION {[1..n -> Headings \cup Contents] : n \in 0..MaxBlocks}
      \/ d.blocks \in UNION {[1..n -> Headings] : n \in 0..2}
  BY DEF Documents
<1>3. d.pages = <<>> \/ d.pages = <<Block("paragraph", <<>>, <<2>>)>>
  BY DEF Documents
<1>4. Len(d.blocks) \in Nat
  <2>1. \A n \in 0..MaxBlocks : n \in Nat
    BY ServicesAssumption
  <2>2. \A n \in 0..2 : n \in Nat
    OBVIOUS
  <2> QED
    BY <1>1, <1>2, <2>1, <2>2
<1>5. Len(d.pages) \in Nat
  BY <1>3
<1> QED
  BY <1>4, <1>5

LEMMA ChunkTypes == Spec => []Cut!ChunkTypeOK
<1>1. Init => ChunkInv
  <2> SUFFICES ASSUME Cut!ChunkInit
               PROVE  ChunkInv
    BY DEF Init
  <2>1. input \in Documents /\ chunker = Cut!NewChunker("blocks")
    BY DEF Cut!ChunkInit
  <2>2. /\ chunker.source = "blocks" /\ chunker.next = 1 /\ chunker.outcome = "none"
        /\ chunker.builder = Cut!NewBuilder
    BY <2>1 DEF Cut!NewChunker
  <2>3. Len(Cut!Source) \in Nat
    BY <2>1, DocumentsHaveLengths DEF Cut!Source
  <2> QED
    BY <2>1, <2>2, <2>3 DEF Cut!NewChunker, ChunkInv, Cut!ChunkTypeOK
<1>2. ASSUME ChunkInv, [Cut!ChunkNext]_chunkVars
      PROVE  ChunkInv'
  <2>0. input \in Documents /\ chunker.source \in {"blocks", "pages"} /\ Len(Cut!Source) \in Nat
        /\ chunker.next \in 1..(Len(Cut!Source) + 1) /\ chunker.outcome \in {"none", "done", "failed"}
    BY <1>2, DocumentsHaveLengths DEF ChunkInv, Cut!ChunkTypeOK, Cut!Source
  <2>1. CASE UNCHANGED chunkVars
    BY <1>2, <2>1 DEF chunkVars, ChunkInv, Cut!ChunkTypeOK, Cut!Source
  <2>2. CASE Cut!Feed
    <3> DEFINE fed == Cut!Fed(chunker.builder, chunker.next, Cut!Source[chunker.next])
    <3>1. chunker.next <= Len(Cut!Source) /\ input' = input
          /\ chunker' = [chunker EXCEPT !.next = @ + 1, !.builder = fed]
      BY <2>2 DEF Cut!Feed
    <3> HIDE DEF fed
    <3>2. chunker' = [source |-> chunker.source, next |-> chunker.next + 1, builder |-> fed,
                      outcome |-> chunker.outcome]
      BY <1>2, <3>1 DEF ChunkInv
    <3>3. chunker'.source = chunker.source /\ chunker'.next = chunker.next + 1 /\ chunker'.outcome = chunker.outcome
          /\ chunker'.builder = fed
      BY <3>2
    <3>4. Cut!Source' = Cut!Source
      BY <3>1, <3>3 DEF Cut!Source
    <3>5. chunker.next + 1 \in 1..(Len(Cut!Source) + 1)
      BY <2>0, <3>1
    <3> QED
      BY <2>0, <3>1, <3>2, <3>3, <3>4, <3>5 DEF ChunkInv, Cut!ChunkTypeOK
  <2>3. CASE Cut!Finish
    <3> DEFINE last == Cut!Flush(chunker.builder, FALSE)
               ended == IF Len(last.drafts) \in 1..ChunkLimit THEN "done" ELSE "failed"
    <3>1. input' = input
      BY <2>3 DEF Cut!Finish
    <3>2. CASE chunker' = Cut!NewChunker("pages")
      <4>1. /\ chunker'.source = "pages" /\ chunker'.next = 1 /\ chunker'.outcome = "none"
            /\ chunker'.builder = Cut!NewBuilder
        BY <3>2 DEF Cut!NewChunker
      <4>2. Len(Cut!Source') \in Nat
        BY <2>0, <3>1, <4>1, DocumentsHaveLengths DEF Cut!Source
      <4> QED
        BY <2>0, <3>1, <3>2, <4>1, <4>2 DEF Cut!NewChunker, ChunkInv, Cut!ChunkTypeOK
    <3>3. CASE chunker' = [chunker EXCEPT !.builder = last, !.outcome = ended]
      <4>0. ended \in {"done", "failed"}
        OBVIOUS
      <4> HIDE DEF last, ended
      <4>1. chunker' = [source |-> chunker.source, next |-> chunker.next, builder |-> last, outcome |-> ended]
        BY <1>2, <3>3 DEF ChunkInv
      <4>2. /\ chunker'.source = chunker.source /\ chunker'.next = chunker.next /\ chunker'.outcome = ended
            /\ chunker'.builder = last
        BY <4>1
      <4>3. Cut!Source' = Cut!Source
        BY <3>1, <4>2 DEF Cut!Source
      <4> QED
        BY <2>0, <3>1, <4>0, <4>1, <4>2, <4>3 DEF ChunkInv, Cut!ChunkTypeOK
    <3> QED
      BY <2>3, <3>2, <3>3 DEF Cut!Finish
  <2> QED
    BY <1>2, <2>1, <2>2, <2>3 DEF Cut!ChunkNext
<1>3. [Next]_vars => [Cut!ChunkNext]_chunkVars
  BY DEF Next, vars, OnlyFocus, chunkVars
<1>4. ChunkInv => Cut!ChunkTypeOK
  BY DEF ChunkInv
<1> QED
  BY <1>1, <1>2, <1>3, <1>4, PTL DEF Spec

\* A Graph session: where it is and what it counts.
SessionPlaces == {"credentials", "token", "site", "drive", "folder", "listing", "download", "over"}
SessionInv ==
  /\ mode \in {"sync", "test"} /\ late \in BOOLEAN /\ (late => mode = "test")
  /\ step \in SessionPlaces /\ token \in BOOLEAN
  /\ tries \in [retries : 0..MAX_RETRIES, reauths : 0..1]
  /\ file \in [part : 0..MaxChunks, dest : 0..MaxChunks, size : 0..(MaxChunks + 1)]

LEMMA StepsAre ==
  /\ Len(Graph!Steps) = 7 /\ \A p \in SessionPlaces \ {"over"} : \E k \in 1..7 : Graph!Steps[k] = p
  /\ \A k \in 1..7 : Graph!Steps[k] \in SessionPlaces \ {"over"}
  /\ Graph!Range(Graph!Steps) = SessionPlaces \ {"over"}
<1>1. /\ Len(Graph!Steps) = 7 /\ DOMAIN Graph!Steps = 1..7
      /\ Graph!Steps[1] = "credentials" /\ Graph!Steps[2] = "token" /\ Graph!Steps[3] = "site"
      /\ Graph!Steps[4] = "drive" /\ Graph!Steps[5] = "folder" /\ Graph!Steps[6] = "listing"
      /\ Graph!Steps[7] = "download"
  BY DEF Graph!Steps
<1>2. \A k \in 1..7 : k \in {1, 2, 3, 4, 5, 6, 7}
  OBVIOUS
<1>3. \A p \in SessionPlaces \ {"over"} : \E k \in 1..7 : Graph!Steps[k] = p
  BY <1>1 DEF SessionPlaces
<1>4. \A k \in 1..7 : Graph!Steps[k] \in SessionPlaces \ {"over"}
  BY <1>1, <1>2 DEF SessionPlaces
<1>5. Graph!Range(Graph!Steps) = {Graph!Steps[k] : k \in 1..7}
  BY <1>1 DEF Graph!Range
<1> QED
  BY <1>1, <1>3, <1>4, <1>5

LEMMA GoesOn ==
  ASSUME step \in {"credentials", "token", "site", "drive", "folder"}, Graph!Go
  PROVE  step' \in SessionPlaces
<1> DEFINE at == {i \in 1..Len(Graph!Steps) : Graph!Steps[i] = step}
<1>1. /\ Len(Graph!Steps) = 7 /\ Graph!Steps[1] = "credentials" /\ Graph!Steps[2] = "token"
      /\ Graph!Steps[3] = "site" /\ Graph!Steps[4] = "drive" /\ Graph!Steps[5] = "folder"
      /\ Graph!Steps[6] = "listing" /\ Graph!Steps[7] = "download"
  BY DEF Graph!Steps
<1>2. PICK k \in 1..5 : at = {k}
  <2>1. \A i \in 1..7 : i \in {1, 2, 3, 4, 5, 6, 7}
    OBVIOUS
  <2>2. PICK k \in 1..5 : Graph!Steps[k] = step
    BY <1>1
  <2>3. \A i \in 1..7 : Graph!Steps[i] = step => i = k
    BY <1>1, <2>1, <2>2
  <2>4. at = {k}
    BY <1>1, <2>2, <2>3
  <2> QED
    BY <2>4
<1>3. Graph!SelectInSeq(Graph!Steps, LAMBDA s : s = step) = k
  <2>1. (CHOOSE x \in at : \A y \in at : x <= y) = k
    BY <1>2
  <2> QED
    BY <1>2, <2>1 DEF Graph!SelectInSeq, Graph!Min
<1>4. step' = Graph!Steps[k + 1]
  BY <1>3 DEF Graph!Go
<1> QED
  BY <1>4, StepsAre

\* A request that fails: the session ends or downloads what it has.
LEMMA SessionFails ==
  ASSUME SessionInv, NEW code, Graph!Fail(code), UNCHANGED <<mode, late>>, token' \in BOOLEAN
  PROVE  SessionInv'
<1>1. step' \in SessionPlaces
  BY DEF Graph!Fail, Graph!Listed, SessionPlaces
<1>2. tries' = [retries |-> 0, reauths |-> 0]
  BY DEF Graph!Fail, Graph!FreshTries
<1>3. MAX_RETRIES \in Nat /\ MaxChunks \in Nat
  BY ServicesAssumption
<1>4. tries' \in [retries : 0..MAX_RETRIES, reauths : 0..1]
  BY <1>2, <1>3
<1>5. file' \in [part : 0..MaxChunks, dest : 0..MaxChunks, size : 0..(MaxChunks + 1)]
  <2>1. file' = [file EXCEPT !.part = 0]
    BY DEF Graph!Fail
  <2> QED
    BY <1>3, <2>1 DEF SessionInv
<1> QED
  BY <1>1, <1>4, <1>5 DEF SessionInv

LEMMA NextSession ==
  ASSUME SessionInv, [Graph!Next]_graphVars
  PROVE  SessionInv'
<1>0. /\ MAX_RETRIES \in Nat /\ MaxChunks \in Nat
      /\ Graph!FreshTries \in [retries : 0..MAX_RETRIES, reauths : 0..1]
      /\ tries \in [retries : 0..MAX_RETRIES, reauths : 0..1]
      /\ file \in [part : 0..MaxChunks, dest : 0..MaxChunks, size : 0..(MaxChunks + 1)]
  BY ServicesAssumption DEF Graph!FreshTries, SessionInv
<1>1. CASE UNCHANGED graphVars
  BY <1>1 DEF graphVars, SessionInv
<1>2. ASSUME UNCHANGED <<mode, late>>, step' \in SessionPlaces, token' \in BOOLEAN,
             tries' \in [retries : 0..MAX_RETRIES, reauths : 0..1],
             file' \in [part : 0..MaxChunks, dest : 0..MaxChunks, size : 0..(MaxChunks + 1)]
      PROVE  SessionInv'
  BY <1>2 DEF SessionInv
<1>3. step \in SessionPlaces /\ token \in BOOLEAN
  BY DEF SessionInv
<1>4. CASE Graph!OutOfTime \/ Graph!SignInFails \/ Graph!Refused \/ Graph!StreamBreaks
  BY <1>3, <1>4, SessionFails DEF Graph!OutOfTime, Graph!SignInFails, Graph!Refused, Graph!StreamBreaks
<1>5. CASE Graph!CheckReady
  BY <1>0, <1>2, <1>3, <1>5, GoesOn, SessionFails DEF Graph!CheckReady
<1>6. CASE Graph!SignIn
  BY <1>0, <1>2, <1>3, <1>6, GoesOn DEF Graph!SignIn
<1>7. CASE Graph!Unauthorized
  <2> DEFINE t == [tries EXCEPT !.reauths = 1]
  <2>1. t \in [retries : 0..MAX_RETRIES, reauths : 0..1]
    BY <1>0
  <2> HIDE DEF t
  <2>2. tries' = t /\ token' = FALSE /\ UNCHANGED <<mode, late, step, file>>
    BY <1>7 DEF Graph!Unauthorized, t
  <2> QED
    BY <1>0, <1>2, <1>3, <2>1, <2>2
<1>8. CASE Graph!Throttled
  <2>1. UNCHANGED <<mode, late, token>>
    BY <1>8 DEF Graph!Throttled
  <2>2. CASE Graph!Fail("throttled")
    BY <1>3, <2>1, <2>2, SessionFails
  <2>3. CASE tries.retries < MAX_RETRIES /\ tries' = [tries EXCEPT !.retries = @ + 1] /\ UNCHANGED <<step, file, outcome>>
    <3>1. tries.retries + 1 \in 0..MAX_RETRIES
      BY <1>0, <2>3
    <3>2. tries' \in [retries : 0..MAX_RETRIES, reauths : 0..1]
      BY <1>0, <2>3, <3>1
    <3> QED
      BY <1>0, <1>2, <1>3, <2>1, <2>3, <3>2
  <2> QED
    BY <1>8, <2>2, <2>3 DEF Graph!Throttled
<1>9. CASE Graph!Resolved
  BY <1>0, <1>2, <1>3, <1>9, GoesOn DEF Graph!Resolved
<1>10. CASE Graph!Page
  <2>1. UNCHANGED <<mode, late, token, file>> /\ tries' = Graph!FreshTries
    BY <1>10 DEF Graph!Page
  <2>2. step' = step \/ step' \in {"download", "over"}
    BY <1>10 DEF Graph!Page, Graph!NextFolder, Graph!Look, Graph!Listed
  <2> QED
    BY <1>0, <1>2, <1>3, <2>1, <2>2 DEF SessionPlaces
<1>11. CASE Graph!TimeLimit
  BY <1>0, <1>2, <1>3, <1>11 DEF Graph!TimeLimit, Graph!Listed, SessionPlaces
<1>12. CASE Graph!Open
  <2>1. PICK size \in 1..(MaxChunks + 1) : file' = [file EXCEPT !.size = size]
    BY <1>12 DEF Graph!Open
  <2>2. size \in 0..(MaxChunks + 1)
    BY <1>0
  <2>3. file' \in [part : 0..MaxChunks, dest : 0..MaxChunks, size : 0..(MaxChunks + 1)]
    BY <1>0, <2>1, <2>2
  <2> QED
    BY <1>0, <1>2, <1>3, <1>12, <2>3 DEF Graph!Open
<1>13. CASE Graph!Chunk
  <2>1. UNCHANGED <<mode, late, token>>
    BY <1>13 DEF Graph!Chunk
  <2>2. CASE Graph!Fail("too_large")
    BY <1>3, <2>1, <2>2, SessionFails
  <2>3. CASE file.part < MaxChunks /\ file' = [file EXCEPT !.part = @ + 1] /\ UNCHANGED <<step, tries, outcome>>
    <3>1. file.part + 1 \in 0..MaxChunks
      BY <1>0, <2>3
    <3>2. file' \in [part : 0..MaxChunks, dest : 0..MaxChunks, size : 0..(MaxChunks + 1)]
      BY <1>0, <2>3, <3>1
    <3> QED
      BY <1>0, <1>2, <1>3, <2>1, <2>3, <3>2
  <2> QED
    BY <1>13, <2>2, <2>3 DEF Graph!Chunk
<1>14. CASE Graph!Rename
  <2>1. file' = [file EXCEPT !.part = 0, !.dest = file.part]
    BY <1>14 DEF Graph!Rename
  <2>2. file.part \in 0..MaxChunks /\ 0 \in 0..MaxChunks /\ file.size \in 0..(MaxChunks + 1)
    BY <1>0
  <2>3. file' = [part |-> 0, dest |-> file.part, size |-> file.size]
    BY <1>0, <2>1
  <2>4. file' \in [part : 0..MaxChunks, dest : 0..MaxChunks, size : 0..(MaxChunks + 1)]
    BY <2>2, <2>3
  <2> QED
    BY <1>0, <1>2, <1>3, <1>14, <2>4 DEF Graph!Rename, SessionPlaces
<1>15. CASE Graph!TimePasses
  BY <1>15 DEF Graph!TimePasses, SessionInv
<1>16. CASE \E i \in Graph!Item, to \in Folder \cup {Outside} : Graph!Move(i, to)
  BY <1>16 DEF Graph!Move, Graph!session, SessionInv
<1> QED
  BY <1>1, <1>4, <1>5, <1>6, <1>7, <1>8, <1>9, <1>10, <1>11, <1>12, <1>13, <1>14, <1>15, <1>16
     DEF Graph!Next, Graph!SessionStep

\* Its listing: a folder waits once, and not while it is shown; the bounds hold.
ListShape(l) ==
  /\ l.folder \in l.seen
  /\ \A n \in 1..Len(l.queue) :
       /\ l.queue[n] \in l.seen \ {l.folder}
       /\ \A m \in 1..Len(l.queue) : l.queue[m] = l.queue[n] => m = n
  /\ IsFiniteSet(l.files) /\ Cardinality(l.files) <= MaxFiles
  /\ l.scanned <= MaxScanned + 1

ShapeInv ==
  /\ ListShape(list)
  /\ step \notin Ended => list.scanned <= MaxScanned

LEMMA NextShape ==
  ASSUME ListConstants, ListInv, ShapeInv, [Graph!Next]_graphVars
  PROVE  ShapeInv'
<1>0. /\ list \in ListRecord /\ MaxScanned \in Nat /\ MaxFiles \in Nat /\ list.scanned \in Nat
      /\ list.queue \in Seq(Folder) /\ Len(list.queue) \in Nat /\ Lists(list) \in BOOLEAN
  BY ServicesAssumption DEF ListInv, ListRecord, Lists
<1>1. CASE UNCHANGED list /\ (step \in Ended => step' \in Ended)
  BY <1>1 DEF ShapeInv, ListShape
<1>2. CASE UNCHANGED graphVars \/ Graph!TimeLimit
           \/ \E i \in Graph!Item, to \in Folder \cup {Outside} : Graph!Move(i, to)
  BY <1>1, <1>2 DEF graphVars, Graph!Move, Graph!session, Graph!TimeLimit, Graph!Listed, Ended
<1>3. CASE \/ Graph!OutOfTime \/ Graph!CheckReady \/ Graph!SignIn \/ Graph!SignInFails \/ Graph!Unauthorized
           \/ Graph!Throttled \/ Graph!Refused \/ Graph!Resolved
           \/ Graph!Open \/ Graph!Chunk \/ Graph!StreamBreaks \/ Graph!Rename \/ Graph!TimePasses
  <2>1. UNCHANGED list
    BY <1>3 DEF Graph!OutOfTime, Graph!CheckReady, Graph!SignIn, Graph!SignInFails, Graph!Unauthorized, Graph!Throttled,
       Graph!Refused, Graph!Resolved, Graph!Open, Graph!Chunk, Graph!StreamBreaks, Graph!Rename, Graph!TimePasses
  <2>2. step \in Ended => step' \in Ended
    BY <1>3 DEF Graph!OutOfTime, Graph!CheckReady, Graph!SignIn, Graph!SignInFails, Graph!Unauthorized, Graph!Throttled,
       Graph!Refused, Graph!Resolved, Graph!Open, Graph!Chunk, Graph!StreamBreaks, Graph!Rename, Graph!TimePasses,
       Graph!Fail, Graph!Listed, Graph!Asking, Ended
  <2> QED
    BY <1>1, <2>1, <2>2
<1>4. CASE step = "listing" /\ Graph!NextFolder
  <2>1. list.scanned <= MaxScanned
    BY <1>4 DEF ShapeInv, Ended
  <2>2. CASE list.queue = <<>>
    <3>1. list' = [list EXCEPT !.any = TRUE]
      BY <1>4, <2>2 DEF Graph!NextFolder
    <3>2. /\ list'.queue = list.queue /\ list'.seen = list.seen /\ list'.folder = list.folder
          /\ list'.files = list.files /\ list'.scanned = list.scanned
      BY <1>0, <3>1 DEF ListRecord
    <3> QED
      BY <2>1, <3>2 DEF ShapeInv, ListShape
  <2>3. CASE list.queue # <<>>
    <3>1. list' = [list EXCEPT !.queue = Tail(@), !.folder = Head(list.queue), !.shown = {}, !.any = TRUE]
      BY <1>4, <2>3 DEF Graph!NextFolder
    <3>2. /\ list'.queue = Tail(list.queue) /\ list'.seen = list.seen /\ list'.folder = Head(list.queue)
          /\ list'.files = list.files /\ list'.scanned = list.scanned
      BY <1>0, <3>1 DEF ListRecord
    <3>3. /\ Head(list.queue) = list.queue[1] /\ 1 \in 1..Len(list.queue)
          /\ \A n \in 1..Len(Tail(list.queue)) :
               n + 1 \in 1..Len(list.queue) /\ n + 1 # 1 /\ Tail(list.queue)[n] = list.queue[n + 1]
      BY <1>0, <2>3
    <3>4. list'.folder \in list'.seen
      BY <3>2, <3>3 DEF ShapeInv, ListShape
    <3>5. ASSUME NEW n \in 1..Len(Tail(list.queue))
          PROVE  /\ Tail(list.queue)[n] \in list.seen \ {list.queue[1]}
                 /\ \A m \in 1..Len(Tail(list.queue)) : Tail(list.queue)[m] = Tail(list.queue)[n] => m = n
      <4>1. list.queue[n + 1] \in list.seen /\ list.queue[n + 1] # list.queue[1]
        BY <3>3 DEF ShapeInv, ListShape
      <4>2. \A m \in 1..Len(Tail(list.queue)) : list.queue[m + 1] = list.queue[n + 1] => m + 1 = n + 1
        BY <3>3 DEF ShapeInv, ListShape
      <4>3. \A m \in 1..Len(Tail(list.queue)) : m \in Int /\ n \in Int
        OBVIOUS
      <4> QED
        BY <3>3, <4>1, <4>2, <4>3
    <3> QED
      BY <2>1, <3>2, <3>3, <3>4, <3>5 DEF ShapeInv, ListShape
  <2> QED
    BY <2>2, <2>3
<1>5. ASSUME NEW i \in Graph!Item, Graph!Look(i), step = "listing"
      PROVE  ShapeInv'
  <2> DEFINE looked == [list EXCEPT !.shown = @ \cup {i}, !.scanned = @ + 1, !.any = TRUE]
  <2>1. list.scanned <= MaxScanned
    BY <1>5 DEF ShapeInv, Ended
  <2>2. /\ looked.queue = list.queue /\ looked.seen = list.seen /\ looked.folder = list.folder
        /\ looked.files = list.files /\ looked.scanned = list.scanned + 1
        /\ DOMAIN looked = {"queue", "seen", "folder", "shown", "files", "scanned", "any"}
    BY <1>0 DEF ListRecord
  <2>3. looked \in [queue : Seq(Folder), seen : SUBSET Folder, folder : Folder, shown : {looked.shown},
                    files : SUBSET File, scanned : Nat, any : BOOLEAN]
    <3>1. list.scanned + 1 \in Nat
      BY <1>0
    <3> QED
      BY <1>0, <3>1 DEF ListRecord
  <2>4. IF looked.scanned > MaxScanned \/ (i \in File /\ Graph!Cardinality(list.files) >= MaxFiles)
        THEN Graph!Listed(FALSE, "capped") /\ list' = looked
        ELSE /\ list' = IF i \in File THEN [looked EXCEPT !.files = @ \cup {i}]
                        ELSE IF i \in list.seen THEN looked
                        ELSE [looked EXCEPT !.seen = @ \cup {i}, !.queue = Append(@, i)]
             /\ UNCHANGED <<step, outcome>>
    BY <1>5 DEF Graph!Look
  <2> HIDE DEF looked
  <2>5. ListShape(looked)
    <3>1. list.scanned + 1 <= MaxScanned + 1
      BY <1>0, <2>1
    <3> QED
      BY <2>2, <3>1 DEF ShapeInv, ListShape
  <2>6. CASE Graph!Listed(FALSE, "capped") /\ list' = looked
    BY <2>5, <2>6 DEF ShapeInv, ListShape, Graph!Listed, Ended
  <2>7. CASE /\ ~(looked.scanned > MaxScanned) /\ ~(i \in File /\ Graph!Cardinality(list.files) >= MaxFiles)
             /\ list' = IF i \in File THEN [looked EXCEPT !.files = @ \cup {i}]
                        ELSE IF i \in list.seen THEN looked
                        ELSE [looked EXCEPT !.seen = @ \cup {i}, !.queue = Append(@, i)]
    <3>1. looked.scanned <= MaxScanned
      BY <1>0, <2>2, <2>7
    <3>2. CASE i \in File
      <4>1. list' = [looked EXCEPT !.files = @ \cup {i}]
        BY <2>7, <3>2
      <4>2. /\ list'.queue = looked.queue /\ list'.seen = looked.seen /\ list'.folder = looked.folder
            /\ list'.files = looked.files \cup {i} /\ list'.scanned = looked.scanned
        BY <2>2, <4>1
      <4>3. IsFiniteSet(looked.files) /\ Cardinality(looked.files) \in Nat /\ ~(Cardinality(looked.files) >= MaxFiles)
        <5>1. Graph!Cardinality(list.files) = Cardinality(list.files)
          BY DEF Graph!Cardinality, Cardinality
        <5> QED
          BY <2>2, <2>5, <2>7, <3>2, <5>1, FS_CardinalityType DEF ListShape
      <4>4. /\ IsFiniteSet(looked.files \cup {i})
            /\ Cardinality(looked.files \cup {i}) = Cardinality(looked.files)
               \/ Cardinality(looked.files \cup {i}) = Cardinality(looked.files) + 1
        BY <4>3, FS_AddElement
      <4>5. Cardinality(looked.files \cup {i}) <= MaxFiles
        BY <1>0, <4>3, <4>4
      <4> QED
        BY <2>5, <3>1, <4>2, <4>4, <4>5 DEF ShapeInv, ListShape
    <3>3. CASE i \notin File /\ i \in list.seen
      <4>1. list' = looked
        BY <2>7, <3>3
      <4> QED
        BY <2>5, <3>1, <4>1 DEF ShapeInv, ListShape
    <3>4. CASE i \notin File /\ i \notin list.seen
      <4>1. list' = [looked EXCEPT !.seen = @ \cup {i}, !.queue = Append(@, i)]
        BY <2>7, <3>4
      <4>2. /\ list'.queue = Append(list.queue, i) /\ list'.seen = list.seen \cup {i}
            /\ list'.folder = list.folder /\ list'.files = looked.files /\ list'.scanned = looked.scanned
        BY <2>2, <4>1
      <4>3. i \in Folder
        BY <3>4 DEF Graph!Item
      <4>4. /\ Len(Append(list.queue, i)) = Len(list.queue) + 1 /\ Append(list.queue, i)[Len(list.queue) + 1] = i
            /\ \A n \in 1..Len(list.queue) : Append(list.queue, i)[n] = list.queue[n]
            /\ \A n \in 1..(Len(list.queue) + 1) : n \in 1..Len(list.queue) \/ n = Len(list.queue) + 1
        BY <1>0, <4>3
      <4>5. list.folder \in list.seen /\ \A n \in 1..Len(list.queue) : list.queue[n] \in list.seen \ {list.folder}
        BY DEF ShapeInv, ListShape
      <4>6. ASSUME NEW n \in 1..(Len(list.queue) + 1)
            PROVE  /\ Append(list.queue, i)[n] \in (list.seen \cup {i}) \ {list.folder}
                   /\ \A m \in 1..(Len(list.queue) + 1) : Append(list.queue, i)[m] = Append(list.queue, i)[n] => m = n
        <5>1. CASE n \in 1..Len(list.queue)
          <6>1. Append(list.queue, i)[n] = list.queue[n] /\ list.queue[n] # i
            BY <3>4, <4>4, <4>5, <5>1
          <6>2. \A m \in 1..Len(list.queue) : list.queue[m] = list.queue[n] => m = n
            BY <5>1 DEF ShapeInv, ListShape
          <6> QED
            BY <4>4, <4>5, <5>1, <6>1, <6>2
        <5>2. CASE n = Len(list.queue) + 1
          <6>1. Append(list.queue, i)[n] = i /\ i # list.folder
            BY <3>4, <4>4, <4>5, <5>2
          <6>2. \A m \in 1..Len(list.queue) : Append(list.queue, i)[m] # i
            BY <3>4, <4>4, <4>5
          <6> QED
            BY <4>4, <5>2, <6>1, <6>2
        <5> QED
          BY <4>4, <5>1, <5>2
      <4> QED
        BY <2>5, <3>1, <4>2, <4>4, <4>5, <4>6 DEF ShapeInv, ListShape
    <3> QED
      BY <3>2, <3>3, <3>4
  <2> QED
    BY <2>4, <2>6, <2>7
<1>6. CASE Graph!Page
  BY <1>4, <1>5, <1>6 DEF Graph!Page, Graph!Children
<1> QED
  BY <1>2, <1>3, <1>6 DEF Graph!Next, Graph!SessionStep

LEMMA GraphTypes == Spec => []Graph!TypeOK
<1> USE PartConstants
<1>1. Init => SessionInv /\ ShapeInv
  <2> SUFFICES ASSUME Graph!Init
               PROVE  SessionInv /\ ShapeInv
    BY DEF Init
  <2>1. MAX_RETRIES \in Nat /\ MaxChunks \in Nat /\ MaxScanned \in Nat /\ MaxFiles \in Nat
    BY ServicesAssumption
  <2>2. SessionInv
    <3>1. /\ mode \in {"sync", "test"} /\ late = FALSE /\ step = "credentials" /\ token = FALSE
          /\ tries = [retries |-> 0, reauths |-> 0] /\ file = [part |-> 0, dest |-> 0, size |-> 0]
      BY DEF Graph!Init, Graph!FreshTries
    <3>2. tries \in [retries : 0..MAX_RETRIES, reauths : 0..1]
      BY <2>1, <3>1
    <3>3. file \in [part : 0..MaxChunks, dest : 0..MaxChunks, size : 0..(MaxChunks + 1)]
      BY <2>1, <3>1
    <3> QED
      BY <3>1, <3>2, <3>3 DEF SessionInv, SessionPlaces
  <2>3. list = Graph!NoListing
    BY DEF Graph!Init
  <2>4. list.queue = <<>> /\ list.folder = Root /\ list.seen = {Root} /\ list.files = {} /\ list.scanned = 0
    BY <2>3 DEF Graph!NoListing
  <2>5. IsFiniteSet({}) /\ Cardinality({}) = 0
    BY FS_EmptySet
  <2>6. ListShape(list) /\ list.scanned <= MaxScanned
    BY <2>1, <2>4, <2>5 DEF ListShape
  <2> QED
    BY <2>2, <2>6 DEF ShapeInv
<1>2. ListInv /\ SessionInv /\ ShapeInv /\ [Next]_vars => SessionInv' /\ ShapeInv'
  BY NextSession, NextShape, GraphMoves
<1>3. ListInv /\ SessionInv /\ ShapeInv => Graph!TypeOK
  <2> SUFFICES ASSUME ListInv, SessionInv, ShapeInv
               PROVE  Graph!TypeOK
    OBVIOUS
  <2>1. list \in ListRecord /\ list.queue \in Seq(Folder) /\ list.seen \subseteq Folder
        /\ list.shown \subseteq Graph!Item /\ list.files \subseteq File /\ list.scanned \in Nat
    BY DEF ListInv, ListRecord
  <2>2. Graph!Range(list.queue) \subseteq list.seen \ {list.folder}
    <3>1. DOMAIN list.queue = 1..Len(list.queue)
      BY <2>1
    <3> QED
      BY <3>1 DEF Graph!Range, ShapeInv, ListShape
  <2>3. list.scanned \in 0..(MaxScanned + 1)
    <3>1. list.scanned <= MaxScanned + 1 /\ MaxScanned \in Nat
      BY ServicesAssumption DEF ShapeInv, ListShape
    <3> QED
      BY <2>1, <3>1
  <2>4. Graph!Cardinality(list.files) <= MaxFiles
    <3>1. Graph!Cardinality(list.files) = Cardinality(list.files)
      BY DEF Graph!Cardinality, Cardinality
    <3> QED
      BY <3>1 DEF ShapeInv, ListShape
  <2>5. step \in Graph!Range(Graph!Steps) \cup {"over"}
    BY StepsAre DEF SessionInv
  <2> QED
    BY <2>1, <2>2, <2>3, <2>4, <2>5 DEF ListInv, SessionInv, ShapeInv, ListShape, Graph!TypeOK
<1> QED
  BY <1>1, <1>2, <1>3, ListInvariant, PTL DEF Spec

\* The variables of every part that serves the documents have their types: the queue of a listing
\* names folders that were seen and are not the one shown, one child is at work at most, a unit of
\* the set-up is one there is, and a chain of events stays within its bound.
THEOREM ServicesTypes == Spec => []TypeOK
<1> DEFINE InFocus == focus \in Parts
<1>1. Init => InFocus
  BY DEF Init
<1>2. InFocus /\ [Next]_vars => InFocus'
  BY DEF Next, OnlyFocus, vars
<1>3. WholeInv => Extract!ExtractTypeOK /\ Files!UploadTypeOK
  BY ExtractTypes, UploadTypes DEF WholeInv
<1>4. /\ InFocus
      /\ Graph!TypeOK /\ (Zoho!ZohoTypeOK /\ Backup!BackupTypeOK) /\ Start!StartTypeOK
      /\ HealthTypeOK /\ (Extract!ExtractTypeOK /\ Files!UploadTypeOK) /\ Migrate!MigrateTypeOK
      /\ Watch!WatchdogTypeOK /\ Cut!ChunkTypeOK /\ Embed!EmbedTypeOK /\ Corpus!QueueTypeOK
      => TypeOK
  BY DEF TypeOK
<1> HIDE DEF InFocus
<1> QED
  BY <1>1, <1>2, <1>3, <1>4, GraphTypes, KnownTypes, StartTypes, HealthTypesHere, WholeInvariant, MigrateTypes,
     WatchdogTypes, ChunkTypes, EmbedTypes, QueueTypes, PTL DEF Spec
=============================================================================
