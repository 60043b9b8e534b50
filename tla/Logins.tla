------------------------------- MODULE Logins -------------------------------
(* How the owner of an account gets in again: sign-in with the password and    *)
(* its lock after failures (routers/auth.py login), tokens and their refresh,  *)
(* and a new password with a mailed code (otp_service.py).  A request reads,   *)
(* decides and then writes statement by statement, and requests overlap.       *)
(* Passwords are reduced to whether the person knows the one that is stored,   *)
(* times to whether a lock or a code is over; audit rows are left out.         *)
EXTENDS Naturals, SequencesExt

CONSTANTS Attempt,                    \* requests under way at a time
          login_max_failed_attempts,
          MaxMishaps                  \* bound: wrong passwords, requests cut short or begun
                                      \* during another, passwords forgotten, status changes

VARIABLES row,         \* AIVA_users
          resetCodes,  \* AIVA_email_otps for forgot_password, the unused ones by created_at
          pending,     \* what each request has still to write
          knows,       \* the person knows the password
          signed,      \* "in", "stale" with a refresh token only, or "out"
          mishaps

loginVars == <<row, resetCodes, pending, knows, signed, mishaps>>

-----------------------------------------------------------------------------
LoginTypeOK ==
  /\ row \in [status : {"ACTIVE", "DISABLED", "PASSWORD_RESET_REQUIRED"},
              failed : Nat, locked : BOOLEAN]
  /\ resetCodes \in Seq([id : Nat, mailed : BOOLEAN, expired : BOOLEAN])
  /\ \A a \in Attempt : Len(pending[a]) <= 3
  /\ knows \in BOOLEAN
  /\ signed \in {"in", "stale", "out"}
  /\ mishaps \in 0..MaxMishaps

LoginInit ==
  /\ row = [status |-> "ACTIVE", failed |-> 0, locked |-> FALSE]
  /\ resetCodes = <<>>
  /\ pending = [a \in Attempt |-> <<>>]
  /\ knows \in BOOLEAN
  /\ signed = "out"
  /\ mishaps = 0

Waiting(a) == pending[a] # <<>>
Mishap(b) == IF b THEN mishaps < MaxMishaps /\ mishaps' = mishaps + 1 ELSE UNCHANGED mishaps

\* A request that needs statement after statement; one begun during another is a mishap.
Begins(a, statements) ==
  /\ ~Waiting(a)
  /\ pending' = [pending EXCEPT ![a] = statements]

During == \E a \in Attempt : Waiting(a)
St(op) == [op |-> op]

-----------------------------------------------------------------------------
(* The requests.                                                           *)

\* A right password: the counter is reset before the tokens are issued.  A wrong one: the
\* counter goes up from what was read, and the lock is set with the last one.
Login(a, right) ==
  /\ ~row.locked
  /\ IF right
     THEN /\ knows /\ signed # "in" /\ row.status = "ACTIVE"
          /\ Begins(a, <<St("reset_failed"), St("tokens")>>)
          /\ Mishap(During)
     ELSE /\ ~During
          /\ Begins(a, <<[op |-> "count_failed", failed |-> row.failed + 1]>>)
          /\ Mishap(TRUE)
  /\ UNCHANGED <<row, resetCodes, knows, signed>>

\* Mutant: the codes are invalidated after the new one was stored.
ForgotThenInvalidate(a) ==
  /\ ~knows /\ row.status = "ACTIVE"
  /\ Begins(a, <<St("insert_code"), St("invalidate")>>)
  /\ Mishap(During)
  /\ UNCHANGED <<row, resetCodes, knows, signed>>

\* request_password_reset does nothing for an account that is not ACTIVE.
Forgot(a) ==
  /\ ~knows /\ row.status = "ACTIVE"
  /\ Begins(a, <<St("invalidate"), St("insert_code")>>)
  /\ Mishap(During)
  /\ UNCHANGED <<row, resetCodes, knows, signed>>

\* The person enters the code of a mail: good if it is of the newest unused row.
Reset(a) ==
  /\ ~knows
  /\ resetCodes # <<>> /\ Last(resetCodes).mailed /\ ~Last(resetCodes).expired
  /\ Begins(a, <<[op |-> "use", id |-> Last(resetCodes).id], St("password")>>)
  /\ Mishap(During)
  /\ UNCHANGED <<row, resetCodes, knows, signed>>

\* decode_token and the status decide; a token pair is issued at once.
Refresh ==
  /\ signed = "stale" /\ row.status = "ACTIVE"
  /\ signed' = "in"
  /\ UNCHANGED <<row, resetCodes, pending, knows, mishaps>>

-----------------------------------------------------------------------------
(* Their statements.                                                       *)

\* Both the login and the new password take the lock off.
RowAfter(w) ==
  CASE w.op \in {"reset_failed", "password"} -> [row EXCEPT !.failed = 0, !.locked = FALSE]
    [] w.op = "count_failed" -> [row EXCEPT !.failed = w.failed, !.locked = @ \/ w.failed >= login_max_failed_attempts]
    [] OTHER -> row

Ids == {resetCodes[i].id : i \in DOMAIN resetCodes}
       \cup {w.id : w \in {v \in UNION {Range(pending[a]) : a \in Attempt} : "id" \in DOMAIN v}}
NewId == CHOOSE n \in 0..Cardinality(Ids) : n \notin Ids

CodesLeft(w) ==
  CASE w.op = "invalidate"  -> <<>>
    [] w.op = "use"         -> FlattenSeq([i \in DOMAIN resetCodes |->
                                 IF resetCodes[i].id = w.id THEN <<>> ELSE <<resetCodes[i]>>])
    [] w.op = "insert_code" -> Append(resetCodes, [id |-> NewId, mailed |-> FALSE, expired |-> FALSE])
    [] OTHER -> resetCodes

\* _issue_tokens_for_user after the login's UPDATE; _create_and_send_otp goes on to the mail.
Statement(a) ==
  /\ Waiting(a)
  /\ LET w == Head(pending[a]) IN
     /\ w.op # "mail"
     /\ row' = RowAfter(w)
     /\ resetCodes' = CodesLeft(w)
     /\ knows' = (knows \/ w.op = "password")
     /\ signed' = IF w.op = "tokens" THEN "in" ELSE signed
     /\ pending' = [pending EXCEPT ![a] =
                      IF w.op = "insert_code" THEN <<[op |-> "mail", id |-> NewId]>> \o Tail(@) ELSE Tail(@)]
  /\ UNCHANGED mishaps

\* A mail that is not sent is only logged.
Send(a, sent) ==
  /\ Waiting(a) /\ Head(pending[a]).op = "mail"
  /\ pending' = [pending EXCEPT ![a] = Tail(@)]
  /\ resetCodes' = [i \in DOMAIN resetCodes |->
                      [resetCodes[i] EXCEPT !.mailed = @ \/ (sent /\ resetCodes[i].id = Head(pending[a]).id)]]
  /\ UNCHANGED <<row, knows, signed, mishaps>>

Cut(a) ==
  /\ Waiting(a)
  /\ Mishap(TRUE)
  /\ pending' = [pending EXCEPT ![a] = <<>>]
  /\ UNCHANGED <<row, resetCodes, knows, signed>>

-----------------------------------------------------------------------------
(* The person, the clock and the administrators.                           *)

Forgets ==
  /\ knows /\ Mishap(TRUE)
  /\ knows' = FALSE
  /\ UNCHANGED <<row, resetCodes, pending, signed>>

LockEnds ==
  /\ row.locked
  /\ row' = [row EXCEPT !.locked = FALSE]
  /\ UNCHANGED <<resetCodes, pending, knows, signed, mishaps>>

\* Bound: a mail is sent, or given up, within the life of its code.
CodesExpire ==
  /\ \A a \in Attempt : Waiting(a) => Head(pending[a]).op # "mail"
  /\ \E i \in DOMAIN resetCodes : ~resetCodes[i].expired
  /\ resetCodes' = [i \in DOMAIN resetCodes |-> [resetCodes[i] EXCEPT !.expired = TRUE]]
  /\ UNCHANGED <<row, pending, knows, signed, mishaps>>

\* The access token, then the refresh token; every request reads the status anew.
TokensExpire ==
  /\ signed # "out"
  /\ signed' = IF signed = "in" THEN "stale" ELSE "out"
  /\ UNCHANGED <<row, resetCodes, pending, knows, mishaps>>

SetStatus ==
  /\ Mishap(TRUE)
  /\ \E s \in {"ACTIVE", "DISABLED", "PASSWORD_RESET_REQUIRED"} \ {row.status} :
       row' = [row EXCEPT !.status = s]
  /\ UNCHANGED <<resetCodes, pending, knows, signed>>

LoginNext ==
  \/ \E a \in Attempt : \/ Forgot(a) \/ Reset(a) \/ Statement(a) \/ Cut(a)
                        \/ \E b \in BOOLEAN : Login(a, b) \/ Send(a, b)
  \/ Refresh \/ Forgets \/ LockEnds \/ CodesExpire \/ TokensExpire \/ SetStatus

\* The server runs, a lock ends, one of many mails arrives before its code expires, and the
\* person tries the password, asks for a code and enters it again and again.
LoginSpec ==
  /\ LoginInit /\ [][LoginNext]_loginVars
  /\ \A a \in Attempt : WF_loginVars(Statement(a) \/ Send(a, FALSE))
  /\ WF_loginVars(LockEnds)
  /\ SF_loginVars(\E a \in Attempt : Login(a, TRUE))
  /\ SF_loginVars(\E a \in Attempt : Forgot(a))
  /\ SF_loginVars(\E a \in Attempt : Send(a, TRUE))
  /\ SF_loginVars(\E a \in Attempt : Reset(a))

-----------------------------------------------------------------------------
(* Properties.                                                             *)

\* auth.py login, otp_service.py: the owner of an active account gets in again and again,
\* with a password forgotten, mails lost, a lock set off and requests cut or overlapping.
SignedIn == signed = "in" \/ row.status # "ACTIVE"
PersonReturns == []<>SignedIn

\* Violated: login answers "Password reset is required before you can sign in.", but
\* request_password_reset and reset_password_with_otp never make the account ACTIVE again.
ResetIsAWayOut == (row.status = "PASSWORD_RESET_REQUIRED") ~> (row.status # "PASSWORD_RESET_REQUIRED")
=============================================================================
