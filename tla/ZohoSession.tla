---------------------------- MODULE ZohoSession ----------------------------
(***************************************************************************)
(* The stored Zoho sign-in (zoho_auth): the terminal login, and the        *)
(* processes that borrow its session to send mail and to push tickets, all *)
(* through AuthService.login_or_resume over one file.                      *)
(*                                                                         *)
(* A saved session is its refresh token; expiry of access tokens, profile  *)
(* fields and console output are left out.  Token and profile requests are *)
(* one exchange each: Zoho grants it or refuses it, Zoho or something in   *)
(* front of it answers with an error, or no answer comes at all.           *)
(***************************************************************************)
EXTENDS Naturals

CONSTANTS Caller,   \* processes that call login_or_resume
          Operator, \* those at a terminal: a person can sign in
          Grants,   \* refresh tokens Zoho may grant
          NoGrant

VARIABLES store,    \* the token file: the saved session, or none
          draft,    \* its .tmp file: absent, emptied, or whole
          call,     \* each caller: where it is, the session it loaded, what it got
          listener, \* who listens on the callback port
          captured, \* the query parameters the listener has seen
          cleared   \* history: why the file was last removed

zohoVars == <<store, draft, call, listener, captured, cleared>>

-----------------------------------------------------------------------------
Nobody == "nobody"
Absent == [whole |-> FALSE, grant |-> NoGrant, there |-> FALSE]
Idle == [at |-> "idle", grant |-> NoGrant, force |-> FALSE, why |-> "", file |-> "gone"]
Resting == {"idle", "failed", "served"}
Places == Resting \cup {"load", "refresh", "profile", "clear", "listen", "wait", "exchange",
                         "open", "write", "replace", "revoke"}

ZohoTypeOK ==
  /\ store \in Grants \cup {NoGrant}
  /\ draft \in [whole : BOOLEAN, grant : Grants \cup {NoGrant}, there : BOOLEAN]
  /\ call \in [Caller -> [at : Places, grant : Grants \cup {NoGrant}, force : BOOLEAN, why : {"", "old", "refused", "error answer"},
                       file : {"draft", "store", "gone"}]]
  /\ listener \in Caller \cup {Nobody}
  /\ captured \subseteq {"code", "state", "error"}
  /\ \A c \in Caller : call[c].at = "wait" => listener = c

ZohoInit ==
  /\ store \in {NoGrant} \cup Grants
  /\ draft = Absent
  /\ call = [c \in Caller |-> Idle]
  /\ listener = Nobody
  /\ captured = {}
  /\ cleared = ""

To(c, place) == call' = [call EXCEPT ![c].at = place]
ToWhy(c, place, why) == call' = [call EXCEPT ![c].at = place, ![c].why = why]
Moved(file) == IF file = "draft" THEN "store" ELSE "gone"
ToWith(c, place, g) == call' = [call EXCEPT ![c].at = place, ![c].grant = g]
Unlinked == [c \in Caller |-> [call[c] EXCEPT !.file = IF @ = "store" THEN "gone" ELSE @]]

-----------------------------------------------------------------------------
(* login_or_resume.                                                        *)

\* send, push_ticket, or the terminal, with --force-login or without.
Start(c, force) ==
  /\ call[c].at \in Resting
  /\ force => c \in Operator
  /\ call' = [call EXCEPT ![c] = [Idle EXCEPT !.at = IF force THEN "listen" ELSE "load",
                                              !.force = force]]
  /\ UNCHANGED <<store, draft, listener, captured, cleared>>

\* Nothing saved, a saved session that is too old, or one to refresh.
Load(c) ==
  /\ call[c].at = "load"
  /\ IF store = NoGrant THEN To(c, "listen")
     ELSE ToWhy(c, "clear", "old") \/ ToWith(c, "refresh", store)
  /\ UNCHANGED <<store, draft, listener, captured, cleared>>

\* Refused by Zoho, or by the policy on the profile: the file is removed.
RefuseResume(c) ==
  /\ call[c].at \in {"refresh", "profile"} /\ ~call[c].force
  /\ ToWhy(c, "clear", "refused")
  /\ UNCHANGED <<store, draft, listener, captured, cleared>>

\* An error status, or an answer that is no JSON, is a ZohoTransportError: it is handled like
\* a refusal, also when it is the error page of an outage.
ErrorAnswer(c) ==
  /\ call[c].at \in {"refresh", "profile"} /\ ~call[c].force
  /\ ToWhy(c, "clear", "error answer")
  /\ UNCHANGED <<store, draft, listener, captured, cleared>>

\* Mutant: a connection that fails is taken for a refusal.
UnreachedRefuses(c) ==
  /\ call[c].at \in {"refresh", "profile", "exchange"}
  /\ ToWhy(c, "clear", "")
  /\ UNCHANGED <<store, draft, listener, captured, cleared>>

\* Without an answer the HTTP library raises what is no ZohoError: the call ends there.
Unreached(c) ==
  /\ call[c].at \in {"refresh", "profile", "exchange"}
  /\ To(c, "failed")
  /\ UNCHANGED <<store, draft, listener, captured, cleared>>

\* Zoho may grant another refresh token with the access token, or none.
Refreshed(c) ==
  /\ call[c].at = "refresh"
  /\ \E g \in Grants : ToWith(c, "profile", g)
  /\ UNCHANGED <<store, draft, listener, captured, cleared>>

Profile(c) ==
  /\ call[c].at = "profile"
  /\ To(c, "open")
  /\ UNCHANGED <<store, draft, listener, captured, cleared>>

\* JsonFileTokenStore.clear, then the browser flow.
Clear(c) ==
  /\ call[c].at = "clear"
  /\ store' = NoGrant
  /\ cleared' = call[c].why
  /\ call' = [Unlinked EXCEPT ![c].at = "listen"]
  /\ UNCHANGED <<draft, listener, captured>>

-----------------------------------------------------------------------------
(* login: the browser flow.                                                *)

\* The port is free, or the call fails.
Listen(c) ==
  /\ call[c].at = "listen"
  /\ IF listener = Nobody
     THEN listener' = c /\ captured' = {} /\ To(c, "wait")
     ELSE UNCHANGED <<listener, captured>> /\ To(c, "failed")
  /\ UNCHANGED <<store, draft, cleared>>

\* do_GET stores the parameters of the redirect one after the other.
Redirect(c, parameter) ==
  /\ call[c].at = "wait" /\ c \in Operator
  /\ parameter \notin captured
  /\ parameter = "state" => captured # {}
  /\ captured' = captured \cup {parameter}
  /\ UNCHANGED <<store, draft, call, listener, cleared>>

\* wait_for_callback polls: with a code or an error it takes what is there.  A redirect
\* whose state is not there yet counts as a mismatch.
Poll(c) ==
  /\ call[c].at = "wait" /\ captured \cap {"code", "error"} # {}
  /\ listener' = Nobody
  /\ To(c, IF "error" \notin captured /\ "state" \in captured THEN "exchange" ELSE "failed")
  /\ UNCHANGED <<store, draft, captured, cleared>>

\* Mutant: the wait has no deadline.
WaitForever(c) == call[c].at = "never" /\ UNCHANGED zohoVars

\* The deadline: only a process with a person in front of it gets a redirect.
GiveUp(c) ==
  /\ call[c].at = "wait" /\ captured = {}
  /\ listener' = Nobody
  /\ To(c, "failed")
  /\ UNCHANGED <<store, draft, captured, cleared>>

Exchange(c) ==
  /\ call[c].at = "exchange"
  /\ \/ \E g \in Grants : call' = [call EXCEPT ![c].at = "profile", ![c].grant = g, ![c].force = TRUE]
     \/ To(c, "failed")
  /\ UNCHANGED <<store, draft, listener, captured, cleared>>

\* A login that is refused, or answered with an error, ends; nothing is stored yet.
RefuseLogin(c) ==
  /\ call[c].at = "profile" /\ call[c].force
  /\ To(c, "failed")
  /\ UNCHANGED <<store, draft, listener, captured, cleared>>

-----------------------------------------------------------------------------
(* JsonFileTokenStore.save: every process writes the same .tmp file.       *)

\* Opening the .tmp file empties it; the text is written a moment later, into that file
\* wherever another process has moved it by then.
Open(c) ==
  /\ call[c].at = "open"
  /\ draft' = [whole |-> FALSE, grant |-> NoGrant, there |-> TRUE]
  /\ call' = [call EXCEPT ![c].at = "write", ![c].file = "draft"]
  /\ UNCHANGED <<store, listener, captured, cleared>>

Write(c) ==
  /\ call[c].at = "write"
  /\ draft' = IF call[c].file = "draft" THEN [whole |-> TRUE, grant |-> call[c].grant, there |-> TRUE]
              ELSE draft
  /\ store' = IF call[c].file = "store" THEN call[c].grant ELSE store
  /\ To(c, "replace")
  /\ UNCHANGED <<listener, captured, cleared>>

\* os.replace moves whatever the .tmp file holds; load takes a file another process has
\* emptied for no session.  Without a .tmp file the call fails.
Replace(c) ==
  /\ call[c].at = "replace"
  /\ IF draft = Absent THEN UNCHANGED <<store, draft, cleared>> /\ To(c, "failed")
     ELSE /\ store' = draft.grant
          /\ draft' = Absent
          /\ cleared' = IF draft.whole THEN cleared ELSE "torn"
          /\ call' = [d \in Caller |->
                       [call[d] EXCEPT !.at = IF d = c THEN "served" ELSE @, !.file = Moved(@)]]
  /\ UNCHANGED <<listener, captured>>

\* logout: load, clear, then revoke what was loaded; the revocation may fail.
Logout(c) ==
  /\ c \in Operator /\ call[c].at \in Resting
  /\ store' = NoGrant
  /\ cleared' = "logout"
  /\ call' = [Unlinked EXCEPT ![c].at = IF store = NoGrant THEN "idle" ELSE "revoke"]
  /\ UNCHANGED <<draft, listener, captured>>

Revoke(c) ==
  /\ call[c].at = "revoke"
  /\ To(c, "idle")
  /\ UNCHANGED <<store, draft, listener, captured, cleared>>

Step(c) ==
  \/ Load(c) \/ RefuseResume(c) \/ ErrorAnswer(c) \/ Unreached(c) \/ Refreshed(c) \/ Profile(c) \/ Clear(c)
  \/ Listen(c) \/ Poll(c) \/ GiveUp(c) \/ Exchange(c) \/ RefuseLogin(c)
  \/ Open(c) \/ Write(c) \/ Replace(c) \/ Revoke(c)

ZohoNext ==
  \E c \in Caller :
    \/ Step(c) \/ Logout(c)
    \/ \E force \in BOOLEAN : Start(c, force)
    \/ \E parameter \in {"code", "state", "error"} : Redirect(c, parameter)

ZohoSpec == ZohoInit /\ [][ZohoNext]_zohoVars /\ \A c \in Caller : WF_zohoVars(Step(c))

-----------------------------------------------------------------------------
(* Properties.                                                             *)

CallIsOver(c) == call[c].at \in Resting

\* Every call ends, also where nobody can answer the browser flow it falls back to: the
\* mail sender runs it on the server's event loop.
CallsEnd == \A c \in Caller : []<>CallIsOver(c)

\* The stored sign-in goes by logout, by age, by an answer to the caller that refreshes it (a
\* refusal, or an error page of Zoho or of what is in front of it), or torn by two writers:
\* while no answer comes at all, no call loses it, whoever else is signing in or saving.
SilenceKeepsSession ==
  [][store # NoGrant /\ store' = NoGrant
       => cleared' \in {"logout", "old", "refused", "error answer", "torn"}]_zohoVars
=============================================================================
