------------------------------ MODULE MCAccess ------------------------------
(* Who belongs where, who gets in and who sees what.  The parts share no state, *)
(* so focus picks one of them and the others stay in one initial state: the      *)
(* behaviours are those of the parts' own specifications.                        *)
EXTENDS NavPages, SequencesExt, TLC

CONSTANTS Parts,
          Org, User, Admin, MaxOther, NoId,
          Request, otp_max_attempts, otp_max_resend_per_hour, MaxResends, MaxTroubles,
          r1, r2,
          Attempt, login_max_failed_attempts, MaxMishaps

\* Limits are numbers and resends are followed past their limit, there are finitely many rows
\* to delete and requests under way, and NULL is no id.
ASSUME AccessAssumption ==
  /\ {MaxOther, otp_max_attempts, otp_max_resend_per_hour, MaxResends, MaxTroubles,
      login_max_failed_attempts, MaxMishaps} \subseteq Nat
  /\ otp_max_resend_per_hour < MaxResends
  /\ \A ids \in {Account, User, Request, Attempt} : IsFiniteSet(ids)
  /\ NoId \notin Org \cup Account \cup User

VARIABLES focus,
          orgs, accounts, users, rows, todo, asked, others,
          user, codes, writes, troubles,
          row, resetCodes, pending, knows, signed, mishaps

\* Role r1 may see the first page, r2 every page.
Roles == {r1, r2}
DefaultPages == (r1 :> Everywhere) @@ (r2 :> Page)

Ten == INSTANCE Tenancy
Sign == INSTANCE SignIn
Again == INSTANCE Logins

tenancyVars == <<orgs, accounts, users, rows, todo, asked, others>>
signVars == <<user, codes, writes, troubles>>
loginVars == <<row, resetCodes, pending, knows, signed, mishaps>>
vars == <<focus, tenancyVars, signVars, navVars, loginVars>>

-----------------------------------------------------------------------------
Init ==
  /\ focus \in Parts
  /\ Ten!TenancyInit /\ (focus # "tenancy" => orgs = {} /\ rows = {})
  /\ Sign!SignInit
  /\ NavInit /\ (focus # "nav" => held = {<<r1, AllAccounts>>} /\ roleNav[r1] = {})
  /\ Again!LoginInit /\ (focus # "login" => knows)

\* Only the part in focus moves.
OnlyFocus ==
  /\ UNCHANGED focus
  /\ (focus # "tenancy" => UNCHANGED tenancyVars)
  /\ (focus # "signin" => UNCHANGED signVars)
  /\ (focus # "nav" => UNCHANGED navVars)
  /\ (focus # "login" => UNCHANGED loginVars)

Next ==
  \/ focus = "tenancy" /\ Ten!TenancyNext /\ OnlyFocus
  \/ focus = "signin" /\ Sign!SignNext /\ OnlyFocus
  \/ focus = "nav" /\ NavNext /\ OnlyFocus
  \/ focus = "login" /\ Again!LoginNext /\ OnlyFocus

Entities == SetToSeq(Ten!Entity)
Requests == SetToSeq(Request)

\* The i-th strongly fair action of the part in focus.  One formula stands for all parts, as
\* only one of them ever moves.
Strongly(i) ==
  \/ focus = "tenancy" /\ i \in DOMAIN Entities
                       /\ \E x \in Admin : Entities[i] \in asked /\ Ten!Delete(x, Entities[i])
  \/ focus = "signin" /\ \/ i \in DOMAIN Requests /\ Sign!Mail(Requests[i], TRUE)
                         \/ i = 3 /\ \E r \in Request : Sign!SignUp(r)
                         \/ i = 4 /\ \E r \in Request : Sign!Verify(r, TRUE)
  \/ focus = "login" /\ \E a \in Attempt : \/ i = 1 /\ Again!Login(a, TRUE)
                                           \/ i = 2 /\ Again!Forgot(a)
                                           \/ i = 3 /\ Again!Send(a, TRUE)
                                           \/ i = 4 /\ Again!Reset(a)

\* The fairness of the parts' own specifications.
Spec ==
  /\ Init /\ [][Next]_vars
  /\ \A x \in Admin : WF_tenancyVars(focus = "tenancy" /\ Ten!Execute(x))
  /\ \A r \in Request : WF_signVars(focus = "signin" /\ (Sign!Write(r) \/ Sign!Mail(r, FALSE)))
  /\ WF_signVars(focus = "signin" /\ Sign!Cooldown)
  /\ WF_signVars(focus = "signin" /\ Sign!Unlock)
  /\ \A a \in Attempt : WF_loginVars(focus = "login" /\ (Again!Statement(a) \/ Again!Send(a, FALSE)))
  /\ WF_loginVars(focus = "login" /\ Again!LockEnds)
  /\ \A i \in 1 .. 4 : SF_vars(Strongly(i) /\ OnlyFocus)

-----------------------------------------------------------------------------
(* Properties.                                                             *)

\* The variables of every part have their types.
TypeOK ==
  /\ focus \in Parts
  /\ Ten!TenancyTypeOK /\ Sign!SignTypeOK /\ NavTypeOK /\ Again!LoginTypeOK

\* Tenancy: what an administrator keeps asking to be deleted goes in the end, unless an
\* announcement of a user holds it.
DeletionsEnd == Ten!DeletionsEnd

\* SignIn: whoever keeps signing up gets in, unless disabled.  Logins: the owner of an
\* active account gets in again and again, with a lock set off and a password forgotten.
PersonGetsIn ==
  []<>(CASE focus = "signin" -> Sign!SignedUp [] focus = "login" -> Again!SignedIn [] OTHER -> TRUE)

\* Tenancy: a user whose deletion an administrator keeps asking for goes, as the "FK-safe
\* order" of organization_dependencies promises.  The code does not keep it.
UsersGo == focus = "tenancy" => Ten!UsersGo
=============================================================================
