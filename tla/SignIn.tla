------------------------------- MODULE SignIn -------------------------------
(***************************************************************************)
(* How the owner of one e-mail address gets in: sign-up with a mailed      *)
(* code, resend, verification, first login with Zoho.                      *)
(* A request reads, decides, and then writes statement by statement, each  *)
(* in a transaction of its own, so two requests of the same person (a      *)
(* double click, a second tab) interleave; it can stop after any of them.  *)
(*                                                                         *)
(* codes holds AIVA_email_otps for signup_verification in the order of     *)
(* created_at; of the used codes only the newest matters.  The consecutive *)
(* reads of a request are one step.  Times are flags: a code is recent     *)
(* inside the resend cooldown.                                             *)
(***************************************************************************)
EXTENDS Integers, SequencesExt

CONSTANTS Request,                 \* requests under way at a time
          otp_max_attempts, otp_max_resend_per_hour,
          MaxResends,              \* bound: resend_count is followed up to here
          MaxTroubles              \* bound: requests cut short or begun during another, wrong codes

VARIABLES user,    \* the AIVA_users row, status "none" without one
          codes,   \* AIVA_email_otps of that user
          writes,  \* what each request has still to write
          troubles \* counts requests cut short or begun during another, and wrong codes

signVars == <<user, codes, writes, troubles>>

-----------------------------------------------------------------------------
Statuses == {"none", "PENDING_EMAIL_VERIFICATION", "ACTIVE", "DISABLED", "PASSWORD_RESET_REQUIRED"}
Code == [id : Nat, used : BOOLEAN, failed : Nat, resend : Nat, recent : BOOLEAN, expired : BOOLEAN, mailed : BOOLEAN]

SignTypeOK ==
  /\ user \in [status : Statuses, role : BOOLEAN, otp_locked : BOOLEAN]
  /\ codes \in Seq(Code)
  /\ \A r \in Request : Len(writes[r]) <= 5
  /\ user.status = "none" => codes = <<>> /\ ~user.role
  /\ troubles \in 0..MaxTroubles

NoUser == [status |-> "none", role |-> FALSE, otp_locked |-> FALSE]

SignInit ==
  /\ user = NoUser
  /\ codes = <<>>
  /\ writes = [r \in Request |-> <<>>]
  /\ troubles = 0

\* ORDER BY created_at DESC FETCH FIRST 1 ROW ONLY: an index, 0 without a row.
LatestUnused == SelectLastInSeq(codes, LAMBDA c : ~c.used)

\* Keep the unused codes and the newest.
Trim(cs) == FlattenSeq([i \in DOMAIN cs |-> IF cs[i].used /\ i # Len(cs) THEN <<>> ELSE <<cs[i]>>])

\* Ids in use: of the rows and of what waits to be mailed or marked.
Ids == {c.id : c \in Range(codes)} \cup
       {w.id : w \in {v \in UNION {Range(writes[r]) : r \in Request} : "id" \in DOMAIN v}}
FreshId == CHOOSE n \in 0..Cardinality(Ids) : n \notin Ids

Busy(r) == writes[r] # <<>>
Trouble(b) == IF b THEN troubles < MaxTroubles /\ troubles' = troubles + 1 ELSE UNCHANGED troubles
Begin(r, statements) ==
  /\ ~Busy(r)
  /\ writes' = [writes EXCEPT ![r] = statements]

-----------------------------------------------------------------------------
(* The writes of a request, in the order of the code.                      *)

Op(o) == [op |-> o]

\* Mutant: the old codes are invalidated after the new one is stored.
SendThenInvalidate(count) ==
  <<[op |-> "insert_code", resend |-> count], Op("mail"), Op("invalidate")>>

\* _invalidate_unused_otps, _create_and_send_otp.
SendCode(count) ==
  <<Op("invalidate"), [op |-> "insert_code", resend |-> count], Op("mail")>>

\* The count only meets its limit, so counts from the bound on, which is past the limit, are one.
Followed(count) == Min({count, MaxResends})

\* _maybe_resend_signup_otp: no code again within the cooldown; the count has no limit here.
MaybeResend ==
  LET i == LatestUnused
  IN IF i # 0 /\ codes[i].recent THEN <<>>
     ELSE SendCode(IF i = 0 THEN 0 ELSE Followed(codes[i].resend + 1))

\* Mutant: a first Zoho login gives the role before there is a user.
RoleFirst(r) ==
  /\ user.status = "none"
  /\ Begin(r, <<Op("insert_role"), Op("insert_active")>>)
  /\ Trouble(\E q \in Request : Busy(q))
  /\ UNCHANGED <<user, codes>>

\* signup_user; signing up again while pending asks for a code without the limit of a resend.
SignUp(r) ==
  /\ Begin(r, CASE user.status = "none" -> <<Op("insert_pending"), Op("insert_role")>> \o SendCode(0)
                [] user.status = "PENDING_EMAIL_VERIFICATION" -> MaybeResend
                [] OTHER -> <<>>)
  /\ Trouble(\E q \in Request : Busy(q))
  /\ UNCHANGED <<user, codes>>

\* resend_signup_otp.
Resend(r) ==
  LET i == Len(codes)
  IN /\ user.status = "PENDING_EMAIL_VERIFICATION" /\ ~user.otp_locked
     /\ i # 0 => ~codes[i].recent /\ codes[i].resend < otp_max_resend_per_hour
     /\ Begin(r, MaybeResend)
     /\ Trouble(\E q \in Request : Busy(q))
     /\ UNCHANGED <<user, codes>>

\* verify_signup_otp; the code entered is the newest unused one or it is not.
Verify(r, right) ==
  LET i == LatestUnused
  IN /\ ~user.otp_locked
     /\ i # 0 /\ ~codes[i].expired
     /\ right => codes[i].mailed
     /\ Begin(r, IF right THEN <<[op |-> "use", id |-> codes[i].id], Op("activate")>>
                 ELSE <<[op |-> "count_failed", id |-> codes[i].id,
                         failed |-> codes[i].failed + 1]>> \o
                      (IF codes[i].failed + 1 >= otp_max_attempts THEN <<Op("lock_otp")>> ELSE <<>>))
     /\ Trouble(~right \/ \E q \in Request : Busy(q))
     /\ UNCHANGED <<user, codes>>

\* zoho_callback of a first login: provision_zoho_user.
ZohoLogin(r) ==
  /\ user.status = "none"
  /\ Begin(r, <<Op("insert_active"), Op("insert_role")>>)
  /\ Trouble(\E q \in Request : Busy(q))
  /\ UNCHANGED <<user, codes>>

-----------------------------------------------------------------------------
(* A write.                                                                *)

UserAfter(w) ==
  CASE w.op = "insert_pending" -> [user EXCEPT !.status = "PENDING_EMAIL_VERIFICATION"]
    [] w.op = "insert_active"  -> [user EXCEPT !.status = "ACTIVE"]
    [] w.op = "insert_role"    -> [user EXCEPT !.role = TRUE]
    [] w.op = "activate"       -> [user EXCEPT !.status = "ACTIVE", !.otp_locked = FALSE]
    [] w.op = "lock_otp"       -> [user EXCEPT !.otp_locked = TRUE]
    [] OTHER -> user

CodesAfter(w) ==
  CASE w.op = "invalidate" -> [i \in DOMAIN codes |-> [codes[i] EXCEPT !.used = TRUE]]
    [] w.op = "insert_code" -> Append(codes, [id |-> FreshId, used |-> FALSE, failed |-> 0,
                                              resend |-> w.resend, recent |-> TRUE, expired |-> FALSE, mailed |-> FALSE])
    [] w.op = "use" -> [i \in DOMAIN codes |-> IF codes[i].id = w.id THEN [codes[i] EXCEPT !.used = TRUE] ELSE codes[i]]
    [] w.op = "count_failed" -> [i \in DOMAIN codes |-> IF codes[i].id = w.id THEN [codes[i] EXCEPT !.failed = w.failed]
                                                          ELSE codes[i]]
    [] OTHER -> codes

\* A second INSERT of the address breaks the unique key on the e-mail.
Write(r) ==
  /\ Busy(r)
  /\ LET w == Head(writes[r])
     IN /\ w.op # "mail"
        /\ IF w.op \in {"insert_pending", "insert_active"} /\ user.status # "none"
           THEN writes' = [writes EXCEPT ![r] = <<>>] /\ UNCHANGED <<user, codes>>
           ELSE /\ writes' = [writes EXCEPT ![r] = IF w.op = "insert_code"
                                                   THEN <<[op |-> "mail", id |-> FreshId]>> \o Tail(Tail(@))
                                                   ELSE Tail(@)]
                /\ user' = UserAfter(w)
                /\ codes' = Trim(CodesAfter(w))
  /\ UNCHANGED troubles

\* The mail with the code goes out, or it does not: that is only logged.
Mail(r, sent) ==
  /\ Busy(r) /\ Head(writes[r]).op = "mail"
  /\ writes' = [writes EXCEPT ![r] = Tail(@)]
  /\ codes' = [i \in DOMAIN codes |-> IF sent /\ codes[i].id = Head(writes[r]).id
                                      THEN [codes[i] EXCEPT !.mailed = TRUE] ELSE codes[i]]
  /\ UNCHANGED <<user, troubles>>

Stop(r) ==
  /\ Busy(r)
  /\ Trouble(TRUE)
  /\ writes' = [writes EXCEPT ![r] = <<>>]
  /\ UNCHANGED <<user, codes>>

-----------------------------------------------------------------------------
(* The environment.                                                        *)

\* update_user of an administrator changes the status.
SetStatus ==
  /\ user.status # "none"
  /\ \E s \in {"ACTIVE", "DISABLED"} \ {user.status} : user' = [user EXCEPT !.status = s]
  /\ UNCHANGED <<codes, writes, troubles>>

\* Bound: a mail is sent, or given up, within the cooldown.
Cooldown == /\ \A r \in Request : Busy(r) => Head(writes[r]).op # "mail"
            /\ \E i \in DOMAIN codes : codes[i].recent
            /\ codes' = [i \in DOMAIN codes |-> [codes[i] EXCEPT !.recent = FALSE]]
            /\ UNCHANGED <<user, writes, troubles>>
Expire == /\ \E i \in DOMAIN codes : ~codes[i].recent /\ ~codes[i].expired
          /\ codes' = [i \in DOMAIN codes |-> [codes[i] EXCEPT !.expired = @ \/ ~codes[i].recent]]
          /\ UNCHANGED <<user, writes, troubles>>
Unlock == /\ user.otp_locked
          /\ user' = [user EXCEPT !.otp_locked = FALSE]
          /\ UNCHANGED <<codes, writes, troubles>>

SignNext ==
  \/ \E r \in Request : SignUp(r) \/ Resend(r) \/ ZohoLogin(r)
                        \/ Write(r) \/ Stop(r)
                        \/ \E b \in BOOLEAN : Verify(r, b) \/ Mail(r, b)
  \/ SetStatus \/ Cooldown \/ Expire \/ Unlock

\* The server runs, time passes, one of many mails arrives, and a person who wants in
\* signs up again and again and enters the code of the last mail.
SignSpec ==
  /\ SignInit /\ [][SignNext]_signVars
  /\ \A r \in Request : WF_signVars(Write(r) \/ Mail(r, FALSE)) /\ SF_signVars(Mail(r, TRUE))
  /\ WF_signVars(Cooldown) /\ WF_signVars(Unlock)
  /\ SF_signVars(\E r \in Request : SignUp(r))
  /\ SF_signVars(\E r \in Request : Verify(r, TRUE))

-----------------------------------------------------------------------------
(* Properties.                                                             *)

\* Whoever signs up gets in, however often mails are lost, requests overlap or are cut
\* short, codes expire or a lock is set off, unless an administrator has disabled them.
SignedUp == user.status \in {"ACTIVE", "DISABLED"}
PersonGetsIn == <>SignedUp
=============================================================================
