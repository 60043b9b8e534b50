------------------------------ MODULE Tenancy ------------------------------
(***************************************************************************)
(* Organizations, accounts and users, and what hangs on them.  A request   *)
(* of an administrator is a list of SQL statements, each a transaction of  *)
(* its own (Database.execute takes a connection per call): it can stop     *)
(* after any of them, and other requests run in between.  A statement that *)
(* breaks a foreign key fails, and the request with it.                    *)
(*                                                                         *)
(* A row is its table and the rows it refers to.  "messages" stands for    *)
(* AIVA_ai_requests as well, "metrics" for AIVA_ingestion_requests, "audit"*)
(* for login history and codes, "prompts" for the system prompt; a "former"*)
(* member is an INACTIVE one, a "wide" role one over an organization.      *)
(* Rows that go with ON DELETE CASCADE are left out.                       *)
(***************************************************************************)
EXTENDS Naturals, FiniteSets, SequencesExt

CONSTANTS Org, Account, User,
          Admin,     \* administrators; each makes one request at a time
          MaxOther,  \* bound: requests other than deletions, rows the users add, stops
          NoId       \* NULL, or an id not in use

VARIABLES orgs,     \* AIVA_organizations
          accounts, \* AIVA_accounts: account -> organization
          users,    \* AIVA_users: user -> organization
          rows,     \* the rows of all other tables
          todo,     \* what is left of each administrator's request
          asked,    \* history: whose deletion was asked for
          others    \* counts requests other than deletions, rows added and stops

database == <<orgs, accounts, users, rows>>
tenancyVars == <<orgs, accounts, users, rows, todo, asked, others>>

-----------------------------------------------------------------------------
Tables == {"audit", "messages", "sessions", "metrics", "roles", "wide", "members", "former",
           "tickets", "prompts", "updates"}
Entity == Org \cup Account \cup User
Row == [table : Tables, user : User \cup {NoId}, account : Account \cup {NoId},
        org : Org \cup {NoId}, by : User \cup {NoId}]

RowOf(table, u, a) == [table |-> table, user |-> u, account |-> a, org |-> NoId, by |-> NoId]

TenancyTypeOK ==
  /\ orgs \subseteq Org
  /\ accounts \in [Account -> orgs \cup {NoId}]
  /\ users \in [User -> orgs \cup {NoId}]
  /\ rows \subseteq Row
  /\ asked \subseteq Entity
  /\ others \in 0..MaxOther

Exists(e) == \/ e \in orgs
             \/ e \in Account /\ accounts[e] # NoId
             \/ e \in User /\ users[e] # NoId

\* A foreign key that points at e.
Refers(r, e) == e \in {r.user, r.account, r.org, r.by}
Referred(e) == \/ \E r \in rows : Refers(r, e)
               \/ \E a \in Account : accounts[a] = e
               \/ \E u \in User : users[u] = e

\* The database after bootstrap and some earlier requests.
TenancyInit ==
  /\ orgs \in SUBSET Org
  /\ accounts \in [Account -> orgs \cup {NoId}]
  /\ users \in [User -> orgs \cup {NoId}]
  /\ \E table \in {"roles", "wide"} : rows = {RowOf(table, u, NoId) : u \in {v \in User : Exists(v)}}
  /\ todo = [x \in Admin |-> <<>>]
  /\ asked = {}
  /\ others = 0

-----------------------------------------------------------------------------
(* The requests, statement by statement.                                   *)

Del(table, col, e) == [op |-> "delete", table |-> table, col |-> col, id |-> e]
Null(table, col, e) == [op |-> "null", table |-> table, col |-> col, id |-> e]
Drop(e) == [op |-> "drop", id |-> e]
Insert(r) == [op |-> "insert", row |-> r]
Place(e, o) == [op |-> "place", id |-> e, org |-> o]

\* delete_user_dependencies.
UserDependencies(u) ==
  <<Del("audit", "user", u), Del("messages", "user", u), Del("sessions", "user", u),
    Del("metrics", "user", u), Del("roles", "user", u), Del("members", "user", u),
    Null("members", "by", u), Null("tickets", "by", u), Null("tickets", "user", u),
    Null("prompts", "by", u)>>

\* Mutant: the sessions before the messages that belong to them.
SessionsFirst(a) ==
  <<Del("sessions", "account", a), Del("messages", "account", a), Del("metrics", "account", a),
    Del("prompts", "account", a), Del("updates", "account", a), Null("tickets", "account", a),
    Del("roles", "account", a), Del("members", "account", a)>>

\* delete_account_dependencies.
AccountDependencies(a) ==
  <<Del("messages", "account", a), Del("sessions", "account", a), Del("metrics", "account", a),
    Del("prompts", "account", a), Del("updates", "account", a), Null("tickets", "account", a),
    Del("roles", "account", a), Del("members", "account", a)>>

DeleteUser(u) == Append(UserDependencies(u), Drop(u))
DeleteAccount(a) == Append(AccountDependencies(a), Drop(a))

\* delete_organization_cascade, with the accounts it has now; its users are read later.
DeleteOrganization(o) ==
  FlattenSeq([i \in DOMAIN SetToSeq({a \in Account : accounts[a] = o}) |->
                DeleteAccount(SetToSeq({a \in Account : accounts[a] = o})[i])])
  \o <<Del("tickets", "org", o), [op |-> "clear", id |-> o], [op |-> "users", id |-> o], Drop(o)>>

\* ... and, when it gets there, for the users the organization has then.
DeleteUsers(o) ==
  LET its == SetToSeq({u \in User : users[u] = o})
  IN FlattenSeq([i \in DOMAIN its |-> UserDependencies(its[i])]) \o [i \in DOMAIN its |-> Drop(its[i])]

\* create_organization, create_account, create_user and create_trainee.
CreateOrganization(o) == <<[op |-> "found", id |-> o]>>
CreateAccount(a, o) == <<Place(a, o)>>
CreateUser(u, o, a) ==
  <<Place(u, o), Insert(RowOf("roles", u, a))>> \o
  (IF a = NoId THEN <<>> ELSE <<Insert(RowOf("members", u, a)), [op |-> "grant", row |-> RowOf("roles", u, a)]>>)

\* assign_account by a super administrator: a user without a role over an organization
\* moves to the account's.
AssignAccount(u, a, by) ==
  (IF users[u] = accounts[a] \/ \E r \in rows : r.table = "wide" /\ r.user = u
   THEN <<>> ELSE <<Place(u, accounts[a])>>)
  \o <<Insert([RowOf("members", u, a) EXCEPT !.by = by]), [op |-> "grant", row |-> RowOf("roles", u, a)]>>

\* remove_account_membership: the membership becomes INACTIVE, then its roles go.
RemoveMembership(u, a) ==
  <<[op |-> "deactivate", row |-> RowOf("members", u, a)], [op |-> "revoke", row |-> RowOf("roles", u, a)]>>

\* set_user_role, assign_role.
SetUserRole(u, table) == <<[op |-> "replace", row |-> RowOf(table, u, NoId)]>>
AssignRole(u, a) == <<Insert(RowOf("roles", u, a))>>

Memberships(u) == {r \in rows : r.table = "members" /\ r.user = u}

\* update_user with another organization.
MoveUser(u, o) ==
  LET foreign == SetToSeq({r.account : r \in {s \in Memberships(u) : accounts[s.account] # o}})
  IN FlattenSeq([i \in DOMAIN foreign |-> RemoveMembership(u, foreign[i])]) \o <<Place(u, o)>>

-----------------------------------------------------------------------------
(* One statement.                                                          *)

\* A role or a membership counts in whichever form it is.
Forms(table) == CASE table = "roles" -> {"roles", "wide"}
                  [] table = "members" -> {"members", "former"}
                  [] OTHER -> {table}
Hit(st) == {r \in rows : r.table \in Forms(st.table) /\ r[st.col] = st.id}
Same(r) == {s \in rows : s.table \in Forms(r.table) /\ s.user = r.user /\ s.account = r.account}
Of(r, o) == r.user \in User /\ users[r.user] = o

\* A foreign key refuses the statement, or what it needs is not there.
Refused(st) ==
  CASE st.op = "delete" -> st.table = "sessions" /\ \E s \in Hit(st), m \in rows :
                              m.table = "messages" /\ m.user = s.user /\ m.account = s.account
    [] st.op = "drop"   -> Referred(st.id)
    [] st.op = "place"  -> st.org \notin orgs
    [] st.op = "insert" -> \E c \in {"user", "account", "org", "by"} :
                              st.row[c] # NoId /\ ~Exists(st.row[c])
    [] st.op = "grant"  -> /\ \E r \in rows : r.table = "roles" /\ r.user = st.row.user
                           /\ ~Exists(st.row.account)
    [] st.op = "deactivate" -> st.row.table \notin {r.table : r \in Same(st.row)}
    [] st.op = "replace" -> ~Exists(st.row.user)
    [] OTHER -> FALSE

RowsAfter(st) ==
  CASE st.op = "delete" -> rows \ Hit(st)
    [] st.op = "null"   -> (rows \ Hit(st)) \cup {[r EXCEPT ![st.col] = NoId] : r \in Hit(st)}
    \* upsert_account_membership
    [] st.op = "insert" -> (IF st.row.table = "members" THEN rows \ Same(st.row) ELSE rows) \cup {st.row}
    [] st.op = "grant"  -> IF \E r \in rows : r.table = "roles" /\ r.user = st.row.user
                           THEN rows \cup {st.row} ELSE rows
    [] st.op = "deactivate" -> (rows \ Same(st.row)) \cup {[r EXCEPT !.table = "former"] : r \in Same(st.row)}
    [] st.op = "revoke" -> rows \ Same(st.row)
    [] st.op = "replace" -> {r \in rows : ~(r.table \in Forms("roles") /\ r.user = st.row.user)} \cup {st.row}
    \* _clear_user_references_in_org
    [] st.op = "clear"  -> {IF r.table \in Forms("members") /\ r.by \in User /\ users[r.by] = st.id
                            THEN [r EXCEPT !.by = NoId] ELSE r :
                              r \in {s \in rows : ~(s.table \in {"audit", "metrics"} /\ Of(s, st.id))}}
    [] OTHER -> rows

\* The next statement of a request.  An UPDATE of a user who is gone changes nothing.
Execute(x) ==
  /\ todo[x] # <<>>
  /\ LET st == Head(todo[x])
     IN IF Refused(st)
        THEN /\ todo' = [todo EXCEPT ![x] = <<>>]
             /\ UNCHANGED database
        ELSE /\ todo' = [todo EXCEPT ![x] = (IF st.op = "users" THEN DeleteUsers(st.id) ELSE <<>>) \o Tail(@)]
             /\ rows' = RowsAfter(st)
             /\ orgs' = CASE st.op = "found" -> orgs \cup {st.id}
                          [] st.op = "drop" -> orgs \ {st.id}
                          [] OTHER -> orgs
             /\ accounts' = CASE st.op = "drop" /\ st.id \in Account -> [accounts EXCEPT ![st.id] = NoId]
                              [] st.op = "place" /\ st.id \in Account -> [accounts EXCEPT ![st.id] = st.org]
                              [] OTHER -> accounts
             /\ users' = CASE st.op = "drop" /\ st.id \in User -> [users EXCEPT ![st.id] = NoId]
                           [] st.op = "place" /\ st.id \in User -> [users EXCEPT ![st.id] = st.org]
                           [] OTHER -> users
  /\ UNCHANGED <<asked, others>>

-----------------------------------------------------------------------------
(* Who does what.                                                          *)

Disturb == others < MaxOther /\ others' = others + 1

\* DELETE /users, /accounts, /organizations: also again, after it failed.
Delete(x, e) ==
  /\ todo[x] = <<>> /\ Exists(e)
  /\ asked' = asked \cup {e}
  /\ todo' = [todo EXCEPT ![x] = CASE e \in User -> DeleteUser(e)
                                   [] e \in Account -> DeleteAccount(e)
                                   [] e \in Org -> DeleteOrganization(e)]
  /\ UNCHANGED <<database, others>>

Begin(x, statements) ==
  /\ todo[x] = <<>>
  /\ todo' = [todo EXCEPT ![x] = statements]

\* A row that is created gets an id never used before.
Create(x) ==
  /\ Disturb
  /\ \/ \E o \in Org \ (orgs \cup asked) : Begin(x, CreateOrganization(o))
     \/ \E o \in orgs :
          \/ \E a \in Account \ asked : ~Exists(a) /\ Begin(x, CreateAccount(a, o))
          \/ \E u \in User \ asked, a \in {b \in Account : accounts[b] = o} \cup {NoId} :
                ~Exists(u) /\ Begin(x, CreateUser(u, o, a))
  /\ UNCHANGED <<database, asked>>

Change(x) ==
  /\ Disturb
  /\ \E u \in User : Exists(u) /\
       \/ \E a \in Account, by \in {v \in User : Exists(v)} : Exists(a) /\ Begin(x, AssignAccount(u, a, by))
       \/ \E r \in Memberships(u) : Begin(x, RemoveMembership(u, r.account))
       \/ \E table \in {"roles", "wide"} : Begin(x, SetUserRole(u, table))
       \/ \E a \in Account : Exists(a) /\ Begin(x, AssignRole(u, a))
       \/ \E o \in orgs : o # users[u] /\ Begin(x, MoveUser(u, o))
  /\ UNCHANGED <<database, asked>>

\* A user chats, opens a ticket, writes a prompt or an announcement, or just signs in.
Work(u, a) ==
  /\ Disturb
  /\ Exists(u) /\ Exists(a)
  /\ \E some \in {{RowOf("sessions", u, a)}, {RowOf("sessions", u, a), RowOf("messages", u, a)},
                  {RowOf("audit", u, NoId)}, {[RowOf("prompts", NoId, a) EXCEPT !.by = u]},
                  {[RowOf("updates", NoId, a) EXCEPT !.by = u]},
                  {[RowOf("tickets", NoId, a) EXCEPT !.by = u, !.org = users[u]]}} :
       rows' = rows \cup some
  /\ UNCHANGED <<orgs, accounts, users, todo, asked>>

\* The process stops between two statements, or the database fails the next one.
Stop(x) ==
  /\ Disturb
  /\ todo[x] # <<>>
  /\ todo' = [todo EXCEPT ![x] = <<>>]
  /\ UNCHANGED <<database, asked>>

Executing == \E x \in Admin : Execute(x)

TenancyNext ==
  \/ Executing
  \/ \E x \in Admin : Create(x) \/ Change(x) \/ Stop(x) \/ \E e \in Entity : Delete(x, e)
  \/ \E u \in User, a \in Account : Work(u, a)

\* A request runs on; an administrator whose deletion failed gets round to it again.
TenancySpec ==
  /\ TenancyInit /\ [][TenancyNext]_tenancyVars
  /\ \A x \in Admin : WF_tenancyVars(Execute(x))
  /\ \A e \in Entity : SF_tenancyVars(\E x \in Admin : e \in asked /\ Delete(x, e))

-----------------------------------------------------------------------------
(* Properties.                                                             *)

\* An announcement of the user still stands.
Announced(u) == \E r \in rows : r.table = "updates" /\ r.by = u

\* What an administrator keeps asking to be deleted goes in the end, though the
\* deletion was cut short, or its rows kept coming while it ran (once asked for, a deletion
\* stays asked for).  It does not hold of
\* a user with an announcement in another organization's account (UsersGo).
DeletionsEnd ==
  \A e \in Entity :
    []<>(e \in asked => ~Exists(e) \/ \E u \in User : Announced(u) /\ e \in {u, users[u]})

\* "FK-safe order": a user whose deletion is asked for goes (organization_dependencies).
UsersGo == \A u \in User : u \in asked ~> ~Exists(u)
=============================================================================
