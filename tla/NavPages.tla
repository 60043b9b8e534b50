----------------------------- MODULE NavPages -----------------------------
(***************************************************************************)
(* Which pages of the console a user may open: the pages of a role in an   *)
(* account (saved by super admins, seeded when the account is made), the   *)
(* pages of a role everywhere (seeded at startup), the pages added to one  *)
(* user (by super or organization admins), and how they are combined.      *)
(*                                                                         *)
(* Both saves are one transaction and atomic; seeding inserts one row per  *)
(* transaction and may be cut short.                                       *)
(***************************************************************************)
EXTENDS Naturals, FiniteSets

CONSTANTS Account, Role, Page,
          Defaults,   \* DEFAULT_ROLE_NAV_PERMISSIONS: role -> pages
          Restricted, \* ORG_ADMIN_RESTRICTED_NAV_KEYS
          Everywhere  \* pages _ensure_*_nav_permission gives every role at startup

\* The defaults of a role are pages, and so are those every role is given at startup (agents,
\* logs, system, widget-download, widget-customization), of which none is restricted.
ASSUME NavAssumption ==
  /\ Defaults \in [Role -> SUBSET Page]
  /\ Everywhere \subseteq Page /\ Everywhere \cap Restricted = {}

VARIABLES existing,   \* accounts that exist
          roleNav,    \* AIVA_role_nav_permissions
          accountNav, \* AIVA_account_role_nav_permissions
          extra,      \* AIVA_user_nav_permissions of the user looked at
          held,       \* that user's AIVA_user_roles: roles, in one account or in all
          seeding,    \* rows still to insert for an account being seeded
          granted     \* history: what super admins have given that user, or one of its roles

navVars == <<existing, roleNav, accountNav, extra, held, seeding, granted>>

-----------------------------------------------------------------------------
AllAccounts == "all accounts"
Assignment == Role \X (Account \cup {AllAccounts})

NavTypeOK ==
  /\ existing \subseteq Account
  /\ roleNav \in [Role -> SUBSET Page]
  /\ accountNav \in [Account -> [Role -> SUBSET Page]]
  /\ extra \subseteq Page /\ granted \subseteq Page
  /\ held \subseteq Assignment
  /\ seeding \subseteq Account \X Role \X Page

NavInit ==
  /\ existing = {}
  /\ roleNav \in {[r \in Role |-> {}], [r \in Role |-> Defaults[r] \cup Everywhere]}
  /\ accountNav = [a \in Account |-> [r \in Role |-> {}]]
  /\ extra = {} /\ granted = {} /\ seeding = {}
  /\ held \in {h \in SUBSET Assignment : Cardinality(h) \in 1 .. 2 /\ \A x \in h : x[2] = AllAccounts}

-----------------------------------------------------------------------------
(* Reading: an empty table entry means the defaults.                       *)

AccountRolePages(a, r) == IF accountNav[a][r] # {} THEN accountNav[a][r] ELSE Defaults[r]

HeldRoles == {x[1] : x \in held}

\* _resolve_role_nav_permissions: the rows of all the user's roles, or their defaults.
RolePages ==
  LET rows == UNION {roleNav[r] : r \in HeldRoles}
  IN  IF rows # {} THEN rows ELSE UNION {Defaults[r] : r \in HeldRoles}

\* _resolve_account_scoped_role_nav_permissions, for the accounts the user works in.
ScopedPages(accounts) ==
  LET merged == UNION {AccountRolePages(p[1], p[2]) : p \in
                         {q \in accounts \X Role : {<<q[2], q[1]>>, <<q[2], AllAccounts>>} \cap held # {}}}
  IN  IF merged # {} THEN merged ELSE RolePages

Worked == {x[2] : x \in held} \ {AllAccounts}

\* Mutant: an organization admin may grant any page.
GrantAnything(pages, super) == pages

\* _filter_grantable_nav_keys.
Grantable(pages, super) == IF super THEN pages ELSE pages \ Restricted

\* resolve_user_nav_permissions: the accounts are the user's own, or, for an organization
\* admin, all of the organization.
Opens == ScopedPages(Worked) \cup ScopedPages(existing) \cup extra

-----------------------------------------------------------------------------
(* Writing.                                                                *)

\* Startup: the default rows of roles that have none, then the pages every role gets.
SeedRoles ==
  /\ roleNav' = [r \in Role |-> (IF roleNav[r] = {} THEN Defaults[r] ELSE roleNav[r]) \cup Everywhere]
  /\ UNCHANGED <<existing, accountNav, extra, held, seeding, granted>>

\* create_account seeds the account just made; startup seeds accounts without any row.
StartSeeding(a) ==
  /\ seeding = {}
  /\ \A r \in Role : accountNav[a][r] = {}
  /\ existing' = existing \cup {a}
  /\ seeding' = {s \in {a} \X Role \X Page : s[3] \in Defaults[s[2]]}
  /\ UNCHANGED <<roleNav, accountNav, extra, held, granted>>

\* One INSERT.  It fails, and ends the seeding, where a save has put the row meanwhile.
SeedRow(s) ==
  /\ s \in seeding
  /\ IF s[3] \in accountNav[s[1]][s[2]] THEN seeding' = {} /\ UNCHANGED accountNav
     ELSE /\ seeding' = seeding \ {s}
          /\ accountNav' = [accountNav EXCEPT ![s[1]][s[2]] = @ \cup {s[3]}]
  /\ UNCHANGED <<existing, roleNav, extra, held, granted>>

CutSeeding ==
  /\ seeding # {} /\ seeding' = {}
  /\ UNCHANGED <<existing, roleNav, accountNav, extra, held, granted>>

\* set_ and reset_account_role_nav_permissions, by a super admin.
SaveRole(a, r, pages) ==
  /\ a \in existing
  /\ accountNav' = [accountNav EXCEPT ![a][r] = pages]
  /\ granted' = granted \cup (IF r \in HeldRoles THEN pages ELSE {})
  /\ UNCHANGED <<existing, roleNav, extra, held, seeding>>

\* set_user_nav_permissions: the pages asked for that the roles do not give already
\* replace what was added before, whoever added it.
SaveUser(pages, super) ==
  LET saved == Grantable(pages \ (ScopedPages(Worked) \cup ScopedPages(existing)), super)
  IN  /\ extra' = saved
      /\ granted' = IF super THEN granted \cup saved ELSE granted
      /\ UNCHANGED <<existing, roleNav, accountNav, held, seeding>>

\* The user's roles are put in an account, or taken out of it (assign, unassign).
Assign(r, a) ==
  /\ a \in existing
  /\ <<r, AllAccounts>> \in held \/ r \in HeldRoles
  /\ held' = IF <<r, a>> \in held /\ Cardinality(held) > 1 THEN held \ {<<r, a>>} ELSE held \cup {<<r, a>>}
  /\ UNCHANGED <<existing, roleNav, accountNav, extra, seeding, granted>>

NavNext ==
  \/ SeedRoles \/ CutSeeding
  \/ \E a \in Account : StartSeeding(a)
  \/ \E s \in seeding : SeedRow(s)
  \/ \E a \in Account, r \in Role, pages \in SUBSET Page : SaveRole(a, r, pages)
  \/ \E pages \in SUBSET Page, super \in BOOLEAN : SaveUser(pages, super)
  \/ \E r \in Role, a \in Account : Assign(r, a)

NavSpec == NavInit /\ [][NavNext]_navVars

-----------------------------------------------------------------------------
(* Properties.                                                             *)

\* However saves, seeding and assignments interleave, a page organization admins may not
\* grant is open only through a default of a held role, or because a super admin gave it.
RestrictedIsGranted ==
  Opens \cap Restricted \subseteq granted \cup UNION {Defaults[r] : r \in HeldRoles}
=============================================================================
