----------------------------- MODULE AccessProofs -----------------------------
(***************************************************************************)
(* Why a page that organization admins may not grant is open only through  *)
(* a default of a held role or a super admin's grant: the tables such a    *)
(* page could come from never hold it for any other reason, and a user     *)
(* never comes to hold a role it did not hold before.  And that what       *)
(* MCAccess bundles keeps its types, statement by statement: an account or *)
(* a user has an organization that exists, and codes belong to a user.     *)
(***************************************************************************)
EXTENDS MCAccess, SequenceTheorems, FiniteSetTheorems, WellFoundedInduction, TLAPS

-----------------------------------------------------------------------------
(* The inductive invariant, a table at a time.                             *)

\* Startup gives a role its defaults and the pages of every role.
RolesAreDefault == \A r \in Role : roleNav[r] \subseteq Defaults[r] \cup Everywhere

\* Rows still to be seeded are defaults.
SeedsAreDefault == \A s \in seeding : s[3] \in Defaults[s[2]]

\* A restricted page of a held role, in any account, is a default or was saved by a super admin.
SavesAreGranted ==
  \A a \in Account : \A r \in HeldRoles :
    accountNav[a][r] \cap Restricted \subseteq granted \cup Defaults[r]

\* A restricted page added to the user was added by a super admin.
ExtrasAreGranted == extra \cap Restricted \subseteq granted

NavInv ==
  /\ NavTypeOK /\ RolesAreDefault /\ SeedsAreDefault /\ SavesAreGranted /\ ExtrasAreGranted

-----------------------------------------------------------------------------
(* What a user reads.                                                      *)

\* The roles a user holds are roles.
LEMMA HeldAreRoles ==
  ASSUME held \subseteq Assignment
  PROVE  HeldRoles \subseteq Role
BY DEF HeldRoles, Assignment

\* The pages of the user's roles, read without regard to an account.
LEMMA RolePagesAreDefault ==
  ASSUME NavInv
  PROVE  RolePages \cap Restricted \subseteq UNION {Defaults[r] : r \in HeldRoles}
<1>1. HeldRoles \subseteq Role
  BY HeldAreRoles DEF NavInv, NavTypeOK
<1> DEFINE merged == UNION {roleNav[r] : r \in HeldRoles}
<1>2. ASSUME NEW p \in merged, p \in Restricted
      PROVE  p \in UNION {Defaults[r] : r \in HeldRoles}
  <2>1. PICK r \in HeldRoles : p \in roleNav[r]
    OBVIOUS
  <2>2. p \in Defaults[r]
    BY NavAssumption, <1>1, <1>2, <2>1 DEF NavInv, RolesAreDefault
  <2> QED
    BY <2>2
<1> QED
  BY <1>2 DEF RolePages

\* The pages of the user's roles in some accounts.
LEMMA ScopedPagesAreGranted ==
  ASSUME NavInv, NEW its, its \subseteq Account
  PROVE  ScopedPages(its) \cap Restricted \subseteq
           granted \cup UNION {Defaults[r] : r \in HeldRoles}
<1> DEFINE places == {q \in its \X Role :
                        {<<q[2], q[1]>>, <<q[2], AllAccounts>>} \cap held # {}}
<1> DEFINE merged == UNION {AccountRolePages(p[1], p[2]) : p \in places}
<1>1. ASSUME NEW p \in merged, p \in Restricted
      PROVE  p \in granted \cup UNION {Defaults[r] : r \in HeldRoles}
  <2>1. PICK q \in places : p \in AccountRolePages(q[1], q[2])
    OBVIOUS
  <2>2. q[1] \in Account /\ q[2] \in HeldRoles
    <3>1. q \in its \X Role /\ {<<q[2], q[1]>>, <<q[2], AllAccounts>>} \cap held # {}
      BY <2>1
    <3>2. PICK x \in held : x[1] = q[2]
      BY <3>1
    <3> QED
      BY <3>1, <3>2 DEF HeldRoles
  <2>3. p \in accountNav[q[1]][q[2]] \/ p \in Defaults[q[2]]
    BY <2>1 DEF AccountRolePages
  <2>4. p \in granted \/ p \in Defaults[q[2]]
    BY <1>1, <2>2, <2>3 DEF NavInv, SavesAreGranted
  <2> QED
    BY <2>2, <2>4
<1>2. RolePages \cap Restricted \subseteq UNION {Defaults[r] : r \in HeldRoles}
  BY RolePagesAreDefault
<1>3. ScopedPages(its) = IF merged # {} THEN merged ELSE RolePages
  BY DEF ScopedPages
<1> QED
  BY <1>1, <1>2, <1>3

\* What the tables hold is enough for what the user opens.
LEMMA OpensAreGranted ==
  ASSUME NavInv
  PROVE  RestrictedIsGranted
<1>1. Worked \subseteq Account /\ existing \subseteq Account
  BY DEF Worked, NavInv, NavTypeOK, Assignment
<1>2. ScopedPages(Worked) \cap Restricted \subseteq
        granted \cup UNION {Defaults[r] : r \in HeldRoles}
  BY <1>1, ScopedPagesAreGranted
<1>3. ScopedPages(existing) \cap Restricted \subseteq
        granted \cup UNION {Defaults[r] : r \in HeldRoles}
  BY <1>1, ScopedPagesAreGranted
<1>4. extra \cap Restricted \subseteq granted
  BY DEF NavInv, ExtrasAreGranted
<1> QED
  BY <1>2, <1>3, <1>4 DEF RestrictedIsGranted, Opens

-----------------------------------------------------------------------------
(* The steps.                                                              *)

LEMMA NavInitInv ==
  ASSUME NavInit
  PROVE  NavInv
<1>1. NavTypeOK
  BY NavAssumption DEF NavInit, NavTypeOK
<1>2. RolesAreDefault
  BY DEF NavInit, RolesAreDefault
<1>3. SavesAreGranted
  <2>1. HeldRoles \subseteq Role
    BY <1>1, HeldAreRoles DEF NavTypeOK
  <2> QED
    BY <2>1 DEF NavInit, SavesAreGranted
<1> QED
  BY <1>1, <1>2, <1>3 DEF NavInit, NavInv, SeedsAreDefault, ExtrasAreGranted

\* The four steps of seeding.
LEMMA SeedingKeeps ==
  ASSUME NavInv,
         \/ SeedRoles \/ CutSeeding
         \/ \E a \in Account : StartSeeding(a)
         \/ \E s \in seeding : SeedRow(s)
  PROVE  NavInv'
<1>0. HeldRoles \subseteq Role
  BY HeldAreRoles DEF NavInv, NavTypeOK
<1> USE DEF NavInv
<1>1. CASE SeedRoles
  <2>1. HeldRoles' = HeldRoles
    BY <1>1 DEF SeedRoles, HeldRoles
  <2>2. NavTypeOK'
    BY NavAssumption, <1>1 DEF SeedRoles, NavTypeOK, Assignment
  <2>3. RolesAreDefault'
    BY <1>1 DEF SeedRoles, RolesAreDefault
  <2> QED
    BY <1>1, <2>1, <2>2, <2>3 DEF SeedRoles, SeedsAreDefault, SavesAreGranted, ExtrasAreGranted
<1>2. CASE CutSeeding
  <2>1. HeldRoles' = HeldRoles
    BY <1>2 DEF CutSeeding, HeldRoles
  <2>2. NavTypeOK'
    BY <1>2 DEF CutSeeding, NavTypeOK, Assignment
  <2> QED
    BY <1>2, <2>1, <2>2
       DEF CutSeeding, RolesAreDefault, SeedsAreDefault, SavesAreGranted, ExtrasAreGranted
<1>3. ASSUME NEW a \in Account, StartSeeding(a)
      PROVE  NavInv'
  <2>1. HeldRoles' = HeldRoles
    BY <1>3 DEF StartSeeding, HeldRoles
  <2>2. NavTypeOK'
    BY <1>3 DEF StartSeeding, NavTypeOK, Assignment
  <2>3. SeedsAreDefault'
    BY <1>3 DEF StartSeeding, SeedsAreDefault
  <2> QED
    BY <1>3, <2>1, <2>2, <2>3
       DEF StartSeeding, RolesAreDefault, SavesAreGranted, ExtrasAreGranted
<1>4. ASSUME NEW s \in seeding, SeedRow(s)
      PROVE  NavInv'
  <2>1. HeldRoles' = HeldRoles
    BY <1>4 DEF SeedRow, HeldRoles
  <2>2. seeding' \subseteq seeding
    BY <1>4 DEF SeedRow
  <2>3. s[1] \in Account /\ s[2] \in Role /\ s[3] \in Page /\ s[3] \in Defaults[s[2]]
    BY DEF NavTypeOK, SeedsAreDefault
  <2>4. accountNav' \in [Account -> [Role -> SUBSET Page]]
    <3>1. accountNav[s[1]] \in [Role -> SUBSET Page]
      BY <2>3 DEF NavTypeOK
    <3>2. [accountNav[s[1]] EXCEPT ![s[2]] = @ \cup {s[3]}] \in [Role -> SUBSET Page]
      BY <2>3, <3>1
    <3>3. [accountNav EXCEPT ![s[1]] = [accountNav[s[1]] EXCEPT ![s[2]] = @ \cup {s[3]}]]
            \in [Account -> [Role -> SUBSET Page]]
      BY <2>3, <3>2 DEF NavTypeOK
    <3> QED
      BY <1>4, <3>3 DEF SeedRow, NavTypeOK
  <2>5. NavTypeOK'
    BY <1>4, <2>2, <2>4 DEF SeedRow, NavTypeOK, Assignment
  <2>6. ASSUME NEW a \in Account, NEW r \in Role
        PROVE  accountNav'[a][r] \subseteq accountNav[a][r] \cup Defaults[r]
    BY <1>4, <2>3 DEF SeedRow, NavTypeOK
  <2>7. SavesAreGranted'
    <3> SUFFICES ASSUME NEW a \in Account, NEW r \in HeldRoles
                 PROVE  accountNav'[a][r] \cap Restricted \subseteq granted \cup Defaults[r]
      BY <1>4, <2>1 DEF SeedRow, SavesAreGranted
    <3>1. accountNav'[a][r] \subseteq accountNav[a][r] \cup Defaults[r]
      BY <1>0, <2>6
    <3> QED
      BY <3>1 DEF SavesAreGranted
  <2> QED
    BY <1>4, <2>2, <2>5, <2>7 DEF SeedRow, RolesAreDefault, SeedsAreDefault, ExtrasAreGranted
<1> QED
  BY <1>1, <1>2, <1>3, <1>4

\* A super admin saves the pages of a role; whoever holds it is thereby given them.
LEMMA SaveRoleKeeps ==
  ASSUME NavInv, NEW a \in Account, NEW r \in Role, NEW pages \in SUBSET Page,
         SaveRole(a, r, pages)
  PROVE  NavInv'
<1>0. HeldRoles \subseteq Role
  BY HeldAreRoles DEF NavInv, NavTypeOK
<1> USE DEF NavInv
<1>1. HeldRoles' = HeldRoles
  BY DEF SaveRole, HeldRoles
<1>2. NavTypeOK'
  BY DEF SaveRole, NavTypeOK, Assignment
<1>3. SavesAreGranted'
  <2> SUFFICES ASSUME NEW b \in Account, NEW h \in HeldRoles
               PROVE  accountNav'[b][h] \cap Restricted \subseteq granted' \cup Defaults[h]
    BY <1>1 DEF SavesAreGranted
  <2>1. CASE b = a /\ h = r
    <3>1. accountNav'[b][h] = pages /\ pages \subseteq granted'
      BY <1>0, <2>1 DEF SaveRole, NavTypeOK
    <3> QED
      BY <3>1
  <2>2. CASE ~(b = a /\ h = r)
    <3>1. accountNav'[b][h] = accountNav[b][h] /\ granted \subseteq granted'
      BY <1>0, <2>2 DEF SaveRole, NavTypeOK
    <3> QED
      BY <3>1 DEF SavesAreGranted
  <2> QED
    BY <2>1, <2>2
<1> QED
  BY <1>1, <1>2, <1>3 DEF SaveRole, RolesAreDefault, SeedsAreDefault, ExtrasAreGranted

\* An administrator adds pages to the user: an organization admin's request loses the
\* restricted ones.
LEMMA SaveUserKeeps ==
  ASSUME NavInv, NEW pages \in SUBSET Page, NEW super \in BOOLEAN, SaveUser(pages, super)
  PROVE  NavInv'
<1> USE DEF NavInv
<1>1. HeldRoles' = HeldRoles
  BY DEF SaveUser, HeldRoles
<1> DEFINE wanted == pages \ (ScopedPages(Worked) \cup ScopedPages(existing))
<1>2. /\ wanted \subseteq Page
      /\ extra' = Grantable(wanted, super)
      /\ granted' = IF super THEN granted \cup Grantable(wanted, super) ELSE granted
  BY DEF SaveUser
<1> HIDE DEF wanted
<1>3. extra' \subseteq Page /\ granted' \subseteq Page
  BY <1>2 DEF Grantable, NavTypeOK
<1>4. NavTypeOK'
  BY <1>3 DEF SaveUser, NavTypeOK, Assignment
<1>5. ExtrasAreGranted'
  BY <1>2 DEF Grantable, ExtrasAreGranted
<1>6. granted \subseteq granted'
  BY <1>2
<1>7. SavesAreGranted'
  BY <1>1, <1>6 DEF SaveUser, SavesAreGranted
<1> QED
  BY <1>4, <1>5, <1>7 DEF SaveUser, RolesAreDefault, SeedsAreDefault

\* An assignment gives no role that is not held somewhere.
LEMMA AssignKeeps ==
  ASSUME NavInv, NEW r \in Role, NEW a \in Account, Assign(r, a)
  PROVE  NavInv'
<1> USE DEF NavInv
<1>1. r \in HeldRoles
  <2>1. CASE <<r, AllAccounts>> \in held
    BY <2>1 DEF HeldRoles
  <2> QED
    BY <2>1 DEF Assign
<1>2. HeldRoles' \subseteq HeldRoles
  <2>1. held' \subseteq held \cup {<<r, a>>}
    BY DEF Assign
  <2> QED
    BY <1>1, <2>1 DEF HeldRoles
<1>3. NavTypeOK'
  <2>1. held' \subseteq Assignment
    BY DEF Assign, NavTypeOK, Assignment
  <2> QED
    BY <2>1 DEF Assign, NavTypeOK, Assignment
<1>4. SavesAreGranted'
  BY <1>2 DEF Assign, SavesAreGranted
<1> QED
  BY <1>3, <1>4 DEF Assign, RolesAreDefault, SeedsAreDefault, ExtrasAreGranted

LEMMA NavKept == ASSUME NavInv, [NavNext]_navVars PROVE NavInv'
<1>1. CASE UNCHANGED navVars
  <2>1. HeldRoles' = HeldRoles
    BY <1>1 DEF navVars, HeldRoles
  <2> QED
    BY <1>1, <2>1 DEF navVars, NavInv, NavTypeOK, Assignment, RolesAreDefault,
                      SeedsAreDefault, SavesAreGranted, ExtrasAreGranted
<1>2. ASSUME NEW a \in Account, NEW r \in Role, NEW pages \in SUBSET Page,
             SaveRole(a, r, pages)
      PROVE  NavInv'
  BY <1>2, SaveRoleKeeps
<1>3. ASSUME NEW pages \in SUBSET Page, NEW super \in BOOLEAN, SaveUser(pages, super)
      PROVE  NavInv'
  BY <1>3, SaveUserKeeps
<1>4. ASSUME NEW r \in Role, NEW a \in Account, Assign(r, a)
      PROVE  NavInv'
  BY <1>4, AssignKeeps
<1> QED
  BY <1>1, <1>2, <1>3, <1>4, SeedingKeeps DEF NavNext

LEMMA NavMoves == [Next]_vars => [NavNext]_navVars
  BY DEF Next, vars, OnlyFocus, navVars

\* The tables pages come from hold a restricted page of a held role, or of the user, only
\* for a reason, whatever the order of saves, seedings, restarts and assignments.
LEMMA NavInvariant == Spec => []NavInv
<1>1. Init => NavInv
  BY NavInitInv DEF Init
<1>2. NavInv /\ [Next]_vars => NavInv'
  BY NavKept, NavMoves
<1> QED
  BY <1>1, <1>2, PTL DEF Spec

\* RestrictedIsGranted: for any roles, pages and accounts, a page in
\* ORG_ADMIN_RESTRICTED_NAV_KEYS is open to a user only as a default of one of the user's
\* roles or because a super admin gave it, to the user or to such a role.
THEOREM RestrictedNeedsSuperAdmin == Spec => []RestrictedIsGranted
<1>1. NavInv => RestrictedIsGranted
  BY OpensAreGranted
<1> QED
  BY <1>1, NavInvariant, PTL

-----------------------------------------------------------------------------
(* Numbers, sequences and finite sets.                                     *)

LEMMA LeastNat ==
  ASSUME NEW T \in SUBSET Nat, T # {}
  PROVE  \E m \in T : \A n \in T : m <= n
<1> DEFINE less == OpToRel(<, Nat)
<1>1. PICK m \in T : \A n \in T : <<n, m>> \notin less
  <2>1. IsWellFoundedOn(less, Nat)
    BY NatLessThanWellFounded
  <2> HIDE DEF less
  <2> QED
    BY <2>1, WFMin
<1>2. \A n \in T : ~(n < m)
  BY <1>1 DEF OpToRel
<1> QED
  BY <1>2

\* Induction: a set with 0, and with every successor up to n, has the numbers up to n.
LEMMA UpTo ==
  ASSUME NEW n \in Nat, NEW T, 0 \in T, \A k \in 0..(n - 1) : k \in T => k + 1 \in T
  PROVE  0..n \subseteq T
<1> DEFINE missing == (0..n) \ T
<1> SUFFICES ASSUME missing # {}
             PROVE  FALSE
  OBVIOUS
<1>1. PICK m \in missing : \A k \in missing : m <= k
  <2>1. missing \in SUBSET Nat
    OBVIOUS
  <2> HIDE DEF missing
  <2> QED
    BY <2>1, LeastNat
<1>2. m # 0 /\ m - 1 \in 0..(n - 1) /\ m - 1 \in T
  BY <1>1
<1> QED
  BY <1>1, <1>2

LEMMA Greatest ==
  ASSUME NEW n \in Nat, NEW I \in SUBSET (1..n), I # {}
  PROVE  \E i \in I : \A j \in I : i >= j
<1> DEFINE gaps == {k \in 0..n : n - k \in I}
<1>1. gaps \in SUBSET Nat /\ gaps # {} /\ \A i \in I : n - i \in gaps
  <2>1. ASSUME NEW i \in I
        PROVE  n - i \in gaps
    <3>1. i \in 1..n
      OBVIOUS
    <3>2. n - i \in 0..n /\ n - (n - i) = i
      BY <3>1
    <3> QED
      BY <3>2
  <2>2. gaps \in SUBSET Nat
    OBVIOUS
  <2> QED
    BY <2>1, <2>2
<1>2. PICK k \in gaps : \A m \in gaps : k <= m
  <2> HIDE DEF gaps
  <2> QED
    BY <1>1, LeastNat
<1>3. n - k \in I /\ \A j \in I : n - k >= j
  BY <1>1, <1>2
<1> QED
  BY <1>3

\* The sequences that FlattenSeq puts together one after another.
Flattens(g, s) == g = [i \in 1..Len(s) |-> IF i = 1 THEN s[i] ELSE g[i - 1] \o s[i]]

LEMMA FlattenSeqType ==
  ASSUME NEW S, NEW n \in Nat, NEW s \in [1..n -> Seq(S)]
  PROVE  FlattenSeq(s) \in Seq(S)
<1>1. Len(s) = n /\ s \in Seq(Seq(S))
  OBVIOUS
<1>2. CASE n = 0
  BY <1>1, <1>2 DEF FlattenSeq
<1>3. CASE n # 0
  <2> DEFINE upTo(g, k) == \A i \in 1..k : g[i] = IF i = 1 THEN s[i] ELSE g[i - 1] \o s[i]
             T == {k \in 0..n : \E g \in [1..n -> Seq(S)] : upTo(g, k)}
  <2>1. 0 \in T
    <3>1. upTo(s, 0)
      OBVIOUS
    <3> QED
      BY <3>1
  <2>2. ASSUME NEW k \in 0..(n - 1), k \in T
        PROVE  k + 1 \in T
    <3>1. PICK g \in [1..n -> Seq(S)] : upTo(g, k)
      BY <2>2
    <3> DEFINE v == IF k = 0 THEN s[1] ELSE g[k] \o s[k + 1]
               h == [g EXCEPT ![k + 1] = v]
    <3>2. v \in Seq(S)
      <4>1. k # 0 => g[k] \in Seq(S) /\ s[k + 1] \in Seq(S)
        OBVIOUS
      <4>2. k # 0 => g[k] \o s[k + 1] \in Seq(S)
        BY <4>1, ConcatProperties
      <4> QED
        BY <1>3, <4>2
    <3>3. h \in [1..n -> Seq(S)] /\ h[k + 1] = v /\ \A i \in 1..k : h[i] = g[i]
      BY <3>2
    <3>4. upTo(h, k + 1)
      <4> SUFFICES ASSUME NEW i \in 1..(k + 1)
                   PROVE  h[i] = IF i = 1 THEN s[i] ELSE h[i - 1] \o s[i]
        BY <3>3
      <4> HIDE DEF h, v
      <4>1. CASE i = k + 1
        BY <3>3, <4>1 DEF v
      <4>2. CASE i # k + 1
        BY <3>1, <3>3, <4>2
      <4> QED
        BY <4>1, <4>2
    <3> HIDE DEF upTo, h
    <3> QED
      BY <3>3, <3>4
  <2>3. n \in T
    <3> HIDE DEF T
    <3>1. 0..n \subseteq T
      BY <2>1, <2>2, UpTo
    <3> QED
      BY <3>1
  <2>4. PICK g \in [1..n -> Seq(S)] : upTo(g, n)
    BY <2>3
  <2>5. Flattens(g, s)
    <3>1. g = [i \in 1..n |-> IF i = 1 THEN s[i] ELSE g[i - 1] \o s[i]]
      BY <2>4
    <3> QED
      BY <1>1, <3>1 DEF Flattens
  <2> DEFINE f == CHOOSE h : Flattens(h, s)
  <2>6. Flattens(f, s)
    BY <2>5
  <2>7. FlattenSeq(s) = f[n]
    BY <1>1, <1>3 DEF FlattenSeq, Flattens
  <2> HIDE DEF f
  <2>8. \A i \in 1..n : f[i] = IF i = 1 THEN s[i] ELSE f[i - 1] \o s[i]
    BY <1>1, <2>6 DEF Flattens
  <2> DEFINE U == {k \in 0..n : k # 0 => f[k] \in Seq(S)}
  <2>9. \A k \in 0..(n - 1) : k \in U => k + 1 \in U
    <3> SUFFICES ASSUME NEW k \in 0..(n - 1), k \in U
                 PROVE  f[k + 1] \in Seq(S)
      <4>1. \A k \in 0..(n - 1) : k + 1 \in 0..n
        OBVIOUS
      <4> QED
        BY <4>1
    <3>1. s[k + 1] \in Seq(S) /\ (k # 0 => f[k] \in Seq(S))
      OBVIOUS
    <3>2. k # 0 => f[k] \o s[k + 1] \in Seq(S)
      BY <3>1, ConcatProperties
    <3>3. f[k + 1] = IF k = 0 THEN s[1] ELSE f[k] \o s[k + 1]
      BY <2>8
    <3> QED
      BY <3>1, <3>2, <3>3
  <2>10. n \in U
    <3>1. 0 \in U
      OBVIOUS
    <3> HIDE DEF U
    <3>2. 0..n \subseteq U
      BY <2>9, <3>1, UpTo
    <3> QED
      BY <3>2
  <2> QED
    BY <1>3, <2>7, <2>10
<1> QED
  BY <1>2, <1>3

\* SetToSeq lists a finite set.
LEMMA SetToSeqType ==
  ASSUME NEW S, IsFiniteSet(S)
  PROVE  Cardinality(S) \in Nat /\ SetToSeq(S) \in [1..Cardinality(S) -> S]
<1>1. Cardinality(S) \in Nat /\ ExistsBijection(1..Cardinality(S), S)
  BY FS_CardinalityType
<1>2. PICK f : f \in Bijection(1..Cardinality(S), S)
  BY <1>1 DEF ExistsBijection
<1>3. f \in [1..Cardinality(S) -> S] /\ IsInjective(f)
  BY <1>2 DEF Bijection, Injection, IsInjective
<1> QED
  BY <1>1, <1>3 DEF SetToSeq

\* A set of what a function has on a finite set is finite.
LEMMA ImageIsFinite ==
  ASSUME NEW D, IsFiniteSet(D), NEW f, NEW S, \A y \in S : \E x \in D : y = f[x]
  PROVE  IsFiniteSet(S)
<1> DEFINE T == {f[x] : x \in D}
           g == [x \in D |-> f[x]]
<1>1. g \in Surjection(D, T)
  BY DEF Surjection
<1>2. IsFiniteSet(T)
  <2> HIDE DEF T, g
  <2> QED
    BY <1>1, FS_Surjection
<1>3. S \in SUBSET T
  OBVIOUS
<1> HIDE DEF T
<1> QED
  BY <1>2, <1>3, FS_Subset

\* There is always a number that is not in use.
LEMMA UnusedNumber ==
  ASSUME NEW S, IsFiniteSet(S)
  PROVE  (CHOOSE n \in 0..Cardinality(S) : n \notin S) \in Nat
<1>1. Cardinality(S) \in Nat
  BY FS_CardinalityType
<1>2. \E n \in 0..Cardinality(S) : n \notin S
  <2> SUFFICES ASSUME 0..Cardinality(S) \subseteq S
               PROVE  FALSE
    OBVIOUS
  <2>1. Cardinality(0..Cardinality(S)) = Cardinality(S) + 1
    BY <1>1, FS_Interval
  <2>2. Cardinality(0..Cardinality(S)) <= Cardinality(S)
    BY FS_Subset
  <2> QED
    BY <1>1, <2>1, <2>2
<1> QED
  BY <1>1, <1>2

-----------------------------------------------------------------------------
(* Organizations, accounts and users: a request is a list of statements.   *)

LEMMA TenancyOperators ==
  /\ \A s : Ten!FlattenSeq(s) = FlattenSeq(s)
  /\ \A S : Ten!SetToSeq(S) = SetToSeq(S)
<1>1. \A s : Ten!FlattenSeq(s) = FlattenSeq(s)
  BY DEF Ten!FlattenSeq, FlattenSeq
<1>2. \A S : Ten!SetToSeq(S) = SetToSeq(S)
  <2>1. \A S : Ten!Cardinality(S) = Cardinality(S)
    BY DEF Ten!Cardinality, Cardinality
  <2>2. \A f : Ten!IsInjective(f) = IsInjective(f)
    BY DEF Ten!IsInjective, IsInjective
  <2> QED
    BY <2>1, <2>2 DEF Ten!SetToSeq, SetToSeq
<1> QED
  BY <1>1, <1>2

Columns == {"user", "account", "org", "by"}
RowStatement ==
  [op : {"delete", "null"}, table : Ten!Tables, col : Columns, id : Ten!Entity]
  \cup [op : {"insert", "grant", "deactivate", "revoke", "replace"}, row : Ten!Row]
IdStatement ==
  [op : {"drop", "clear", "users"}, id : Ten!Entity]
  \cup [op : {"found"}, id : Org]
  \cup [op : {"place"}, id : Ten!Entity, org : Org \cup {NoId}]
Statement == RowStatement \cup IdStatement

TenancyInv == Ten!TenancyTypeOK /\ todo \in [Admin -> Seq(Statement)]

\* Requests made of one for each of some ids.
LEMMA OneForEach ==
  ASSUME NEW S, IsFiniteSet(S), NEW F \in [S -> Seq(Statement)]
  PROVE  Ten!FlattenSeq([i \in DOMAIN Ten!SetToSeq(S) |-> F[Ten!SetToSeq(S)[i]]]) \in Seq(Statement)
<1>1. Cardinality(S) \in Nat /\ SetToSeq(S) \in [1..Cardinality(S) -> S]
  BY SetToSeqType
<1>2. Ten!SetToSeq(S) = SetToSeq(S)
  BY TenancyOperators
<1>3. [i \in DOMAIN SetToSeq(S) |-> F[SetToSeq(S)[i]]] \in [1..Cardinality(S) -> Seq(Statement)]
  BY <1>1
<1>4. FlattenSeq([i \in DOMAIN SetToSeq(S) |-> F[SetToSeq(S)[i]]]) \in Seq(Statement)
  <2> HIDE DEF Statement
  <2> QED
    BY <1>1, <1>3, FlattenSeqType
<1> QED
  BY <1>2, <1>4, TenancyOperators

\* The statements requests are made of.
LEMMA StatementsOfIds ==
  ASSUME NEW e \in Ten!Entity
  PROVE  /\ \A table \in Ten!Tables, col \in Columns :
              Ten!Del(table, col, e) \in Statement /\ Ten!Null(table, col, e) \in Statement
         /\ Ten!Drop(e) \in Statement
         /\ [op |-> "clear", id |-> e] \in Statement /\ [op |-> "users", id |-> e] \in Statement
         /\ \A o \in Org \cup {NoId} : Ten!Place(e, o) \in Statement
         /\ e \in Org => [op |-> "found", id |-> e] \in Statement
BY DEF Ten!Del, Ten!Null, Ten!Drop, Ten!Place, Statement, RowStatement, IdStatement

LEMMA StatementsOfRows ==
  ASSUME NEW u \in User, NEW a \in Account \cup {NoId}, NEW table \in Ten!Tables
  PROVE  /\ Ten!RowOf(table, u, a) \in Ten!Row
         /\ \A r \in Ten!Row : \A o \in {"insert", "grant", "deactivate", "revoke", "replace"} :
              [op |-> o, row |-> r] \in Statement
         /\ \A r \in Ten!Row : Ten!Insert(r) \in Statement
BY DEF Ten!RowOf, Ten!Row, Ten!Insert, Statement, RowStatement

LEMMA DependencyStatements ==
  /\ \A u \in User : Ten!UserDependencies(u) \in Seq(Statement)
  /\ \A a \in Account : Ten!AccountDependencies(a) \in Seq(Statement)
<1> DEFINE Lists(table, e) == \A col \in Columns :
             Ten!Del(table, col, e) \in Statement /\ Ten!Null(table, col, e) \in Statement
<1>1. \A e \in User \cup Account : \A table \in Ten!Tables : Lists(table, e)
  BY StatementsOfIds DEF Ten!Entity
<1>2. /\ {"audit", "messages", "sessions", "metrics", "roles", "members", "tickets", "prompts",
          "updates"} \subseteq Ten!Tables
      /\ {"user", "account", "by"} \subseteq Columns
  BY DEF Ten!Tables, Columns
<1> USE <1>1, <1>2
<1>3. \A u \in User : Ten!UserDependencies(u) \in Seq(Statement)
  <2> SUFFICES ASSUME NEW u \in User
               PROVE  Ten!UserDependencies(u) \in Seq(Statement)
    OBVIOUS
  <2>1. /\ Ten!Del("audit", "user", u) \in Statement /\ Ten!Del("messages", "user", u) \in Statement
        /\ Ten!Del("sessions", "user", u) \in Statement /\ Ten!Del("metrics", "user", u) \in Statement
        /\ Ten!Del("roles", "user", u) \in Statement /\ Ten!Del("members", "user", u) \in Statement
    OBVIOUS
  <2>2. /\ Ten!Null("members", "by", u) \in Statement /\ Ten!Null("tickets", "by", u) \in Statement
        /\ Ten!Null("tickets", "user", u) \in Statement /\ Ten!Null("prompts", "by", u) \in Statement
    OBVIOUS
  <2> QED
    BY <2>1, <2>2 DEF Ten!UserDependencies
<1>4. \A a \in Account : Ten!AccountDependencies(a) \in Seq(Statement)
  <2> SUFFICES ASSUME NEW a \in Account
               PROVE  Ten!AccountDependencies(a) \in Seq(Statement)
    OBVIOUS
  <2>1. /\ Ten!Del("messages", "account", a) \in Statement /\ Ten!Del("sessions", "account", a) \in Statement
        /\ Ten!Del("metrics", "account", a) \in Statement /\ Ten!Del("prompts", "account", a) \in Statement
        /\ Ten!Del("updates", "account", a) \in Statement /\ Ten!Null("tickets", "account", a) \in Statement
        /\ Ten!Del("roles", "account", a) \in Statement /\ Ten!Del("members", "account", a) \in Statement
    OBVIOUS
  <2> QED
    BY <2>1 DEF Ten!AccountDependencies
<1> QED
  BY <1>3, <1>4

LEMMA DeletionStatements ==
  ASSUME NEW e \in Ten!Entity
  PROVE  /\ e \in User => Ten!DeleteUser(e) \in Seq(Statement)
         /\ e \in Account => Ten!DeleteAccount(e) \in Seq(Statement)
         /\ e \in Org => Ten!DeleteOrganization(e) \in Seq(Statement)
         /\ Ten!DeleteUsers(e) \in Seq(Statement)
<1>1. /\ \A d \in Ten!Entity : Ten!Drop(d) \in Statement
      /\ Ten!Del("tickets", "org", e) \in Statement
      /\ [op |-> "clear", id |-> e] \in Statement /\ [op |-> "users", id |-> e] \in Statement
  BY StatementsOfIds DEF Ten!Tables, Columns
<1>2. \A u \in User : Ten!DeleteUser(u) \in Seq(Statement)
  BY <1>1, DependencyStatements DEF Ten!DeleteUser, Ten!Entity
<1>3. \A a \in Account : Ten!DeleteAccount(a) \in Seq(Statement)
  BY <1>1, DependencyStatements DEF Ten!DeleteAccount, Ten!Entity
<1>4. Ten!DeleteOrganization(e) \in Seq(Statement)
  <2> DEFINE A == {a \in Account : accounts[a] = e}
             D == [a \in A |-> Ten!DeleteAccount(a)]
             all == Ten!FlattenSeq([i \in DOMAIN Ten!SetToSeq(A) |-> Ten!DeleteAccount(Ten!SetToSeq(A)[i])])
             rest == <<Ten!Del("tickets", "org", e), [op |-> "clear", id |-> e],
                       [op |-> "users", id |-> e], Ten!Drop(e)>>
  <2>1. IsFiniteSet(A) /\ D \in [A -> Seq(Statement)]
    <3>1. IsFiniteSet(A)
      <4>1. A \in SUBSET Account /\ IsFiniteSet(Account)
        BY AccessAssumption
      <4> QED
        BY <4>1, FS_Subset
    <3> QED
      BY <1>3, <3>1
  <2>2. Ten!SetToSeq(A) \in [1..Cardinality(A) -> A]
    BY <2>1, SetToSeqType, TenancyOperators
  <2>3. [i \in DOMAIN Ten!SetToSeq(A) |-> Ten!DeleteAccount(Ten!SetToSeq(A)[i])]
          = [i \in DOMAIN Ten!SetToSeq(A) |-> D[Ten!SetToSeq(A)[i]]]
    BY <2>2
  <2>4. all \in Seq(Statement)
    <3> HIDE DEF A, D
    <3>1. Ten!FlattenSeq([i \in DOMAIN Ten!SetToSeq(A) |-> D[Ten!SetToSeq(A)[i]]]) \in Seq(Statement)
      BY <2>1, OneForEach
    <3> QED
      BY <2>3, <3>1
  <2>5. rest \in Seq(Statement)
    BY <1>1
  <2>6. Ten!DeleteOrganization(e) = all \o rest
    BY DEF Ten!DeleteOrganization
  <2> HIDE DEF all, rest
  <2> QED
    BY <2>4, <2>5, <2>6, ConcatProperties
<1>5. Ten!DeleteUsers(e) \in Seq(Statement)
  <2> DEFINE U == {u \in User : users[u] = e}
             its == Ten!SetToSeq(U)
             D == [u \in U |-> Ten!UserDependencies(u)]
             all == Ten!FlattenSeq([i \in DOMAIN its |-> Ten!UserDependencies(its[i])])
             drops == [i \in DOMAIN its |-> Ten!Drop(its[i])]
  <2>1. IsFiniteSet(U) /\ D \in [U -> Seq(Statement)]
    <3>1. IsFiniteSet(U)
      <4>1. U \in SUBSET User /\ IsFiniteSet(User)
        BY AccessAssumption
      <4> QED
        BY <4>1, FS_Subset
    <3> QED
      BY DependencyStatements, <3>1
  <2>2. its \in [1..Cardinality(U) -> U] /\ Cardinality(U) \in Nat
    BY <2>1, SetToSeqType, TenancyOperators
  <2>3. [i \in DOMAIN its |-> Ten!UserDependencies(its[i])] = [i \in DOMAIN its |-> D[its[i]]]
    BY <2>2
  <2>4. all \in Seq(Statement)
    <3> HIDE DEF U, D
    <3>1. Ten!FlattenSeq([i \in DOMAIN Ten!SetToSeq(U) |-> D[Ten!SetToSeq(U)[i]]]) \in Seq(Statement)
      BY <2>1, OneForEach
    <3> QED
      BY <2>3, <3>1
  <2>5. drops \in Seq(Statement)
    <3>1. U \subseteq Ten!Entity
      BY DEF Ten!Entity
    <3> HIDE DEF U, its
    <3>2. drops \in [1..Cardinality(U) -> Statement]
      BY <1>1, <2>2, <3>1
    <3> QED
      BY <2>2, <3>2
  <2>6. Ten!DeleteUsers(e) = all \o drops
    BY DEF Ten!DeleteUsers
  <2> HIDE DEF all, drops
  <2> QED
    BY <2>4, <2>5, <2>6, ConcatProperties
<1> QED
  BY <1>2, <1>3, <1>4, <1>5

LEMMA ChangeStatements ==
  ASSUME NEW u \in User, NEW a \in Account \cup {NoId}
  PROVE  /\ \A o \in Org : Ten!CreateUser(u, o, a) \in Seq(Statement)
         /\ \A table \in {"roles", "wide"} : Ten!SetUserRole(u, table) \in Seq(Statement)
         /\ Ten!RemoveMembership(u, a) \in Seq(Statement)
         /\ Ten!AssignRole(u, a) \in Seq(Statement)
<1>1. \A o \in Org : Ten!Place(u, o) \in Statement
  BY StatementsOfIds DEF Ten!Entity
<1>2. \A table \in Ten!Tables : Ten!RowOf(table, u, a) \in Ten!Row /\ Ten!RowOf(table, u, NoId) \in Ten!Row
  BY StatementsOfRows
<1>3. /\ {"roles", "wide", "members"} \subseteq Ten!Tables
      /\ \A r \in Ten!Row :
           /\ \A o \in {"insert", "grant", "deactivate", "revoke", "replace"} : [op |-> o, row |-> r] \in Statement
           /\ Ten!Insert(r) \in Statement
  BY StatementsOfRows DEF Ten!Tables
<1>4. /\ Ten!RowOf("roles", u, a) \in Ten!Row /\ Ten!RowOf("members", u, a) \in Ten!Row
      /\ \A table \in {"roles", "wide"} : Ten!RowOf(table, u, NoId) \in Ten!Row
  BY <1>2, <1>3
<1>5. /\ Ten!Insert(Ten!RowOf("roles", u, a)) \in Statement
      /\ Ten!Insert(Ten!RowOf("members", u, a)) \in Statement
      /\ [op |-> "grant", row |-> Ten!RowOf("roles", u, a)] \in Statement
      /\ [op |-> "deactivate", row |-> Ten!RowOf("members", u, a)] \in Statement
      /\ [op |-> "revoke", row |-> Ten!RowOf("roles", u, a)] \in Statement
      /\ \A table \in {"roles", "wide"} : [op |-> "replace", row |-> Ten!RowOf(table, u, NoId)] \in Statement
  BY <1>3, <1>4
<1>6. \A o \in Org : Ten!CreateUser(u, o, a) \in Seq(Statement)
  <2> SUFFICES ASSUME NEW o \in Org
               PROVE  Ten!CreateUser(u, o, a) \in Seq(Statement)
    OBVIOUS
  <2> DEFINE first == <<Ten!Place(u, o), Ten!Insert(Ten!RowOf("roles", u, a))>>
             more == IF a = NoId THEN <<>>
                     ELSE <<Ten!Insert(Ten!RowOf("members", u, a)),
                            [op |-> "grant", row |-> Ten!RowOf("roles", u, a)]>>
  <2>1. first \in Seq(Statement) /\ more \in Seq(Statement)
    BY <1>1, <1>5
  <2>2. Ten!CreateUser(u, o, a) = first \o more
    BY DEF Ten!CreateUser
  <2> HIDE DEF first, more
  <2> QED
    BY <2>1, <2>2, ConcatProperties
<1>7. \A table \in {"roles", "wide"} : Ten!SetUserRole(u, table) \in Seq(Statement)
  BY <1>5 DEF Ten!SetUserRole
<1>8. Ten!RemoveMembership(u, a) \in Seq(Statement) /\ Ten!AssignRole(u, a) \in Seq(Statement)
  BY <1>5 DEF Ten!RemoveMembership, Ten!AssignRole
<1> QED
  BY <1>6, <1>7, <1>8

LEMMA AssignStatements ==
  ASSUME TenancyInv, NEW u \in User, NEW a \in Account, NEW by \in User
  PROVE  Ten!AssignAccount(u, a, by) \in Seq(Statement)
<1> DEFINE placed == Ten!Place(u, accounts[a])
           member == Ten!Insert([Ten!RowOf("members", u, a) EXCEPT !.by = by])
           grant == [op |-> "grant", row |-> Ten!RowOf("roles", u, a)]
           move == IF users[u] = accounts[a] \/ \E r \in rows : r.table = "wide" /\ r.user = u
                   THEN <<>> ELSE <<placed>>
<1>1. placed \in Statement
  <2>1. accounts[a] \in Org \cup {NoId} /\ u \in Ten!Entity
    BY DEF TenancyInv, Ten!TenancyTypeOK, Ten!Entity
  <2> QED
    BY <2>1, StatementsOfIds
<1>2. {"roles", "members"} \subseteq Ten!Tables
  BY DEF Ten!Tables
<1>3. member \in Statement /\ grant \in Statement
  <2>1. Ten!RowOf("members", u, a) \in Ten!Row /\ Ten!RowOf("roles", u, a) \in Ten!Row
    BY <1>2, StatementsOfRows
  <2>2. [Ten!RowOf("members", u, a) EXCEPT !.by = by] \in Ten!Row
    BY <2>1 DEF Ten!Row
  <2> QED
    BY <1>2, <2>1, <2>2, StatementsOfRows
<1>4. move \in Seq(Statement) /\ <<member, grant>> \in Seq(Statement)
  <2> HIDE DEF placed, member, grant
  <2> QED
    BY <1>1, <1>3
<1>5. Ten!AssignAccount(u, a, by) = move \o <<member, grant>>
  BY DEF Ten!AssignAccount
<1> HIDE DEF move, member, grant
<1> QED
  BY <1>4, <1>5, ConcatProperties

LEMMA MoveStatements ==
  ASSUME TenancyInv, NEW u \in User, NEW o \in Org
  PROVE  Ten!MoveUser(u, o) \in Seq(Statement)
<1> DEFINE S == {r.account : r \in {s \in Ten!Memberships(u) : accounts[s.account] # o}}
           D == [a \in S |-> Ten!RemoveMembership(u, a)]
           foreign == Ten!SetToSeq(S)
           all == Ten!FlattenSeq([i \in DOMAIN foreign |-> Ten!RemoveMembership(u, foreign[i])])
<1>1. S \in SUBSET (Account \cup {NoId})
  BY DEF TenancyInv, Ten!TenancyTypeOK, Ten!Row, Ten!Memberships
<1>2. IsFiniteSet(S)
  <2>1. IsFiniteSet(Account \cup {NoId})
    BY AccessAssumption, FS_Singleton, FS_Union
  <2> HIDE DEF S
  <2> QED
    BY <1>1, <2>1, FS_Subset
<1>3. D \in [S -> Seq(Statement)]
  <2> HIDE DEF S
  <2> QED
    BY <1>1, ChangeStatements
<1> HIDE DEF S, D
<1>4. foreign \in [1..Cardinality(S) -> S]
  BY <1>2, SetToSeqType, TenancyOperators
<1>5. [i \in DOMAIN foreign |-> Ten!RemoveMembership(u, foreign[i])] = [i \in DOMAIN foreign |-> D[foreign[i]]]
  BY <1>4 DEF D
<1>6. all \in Seq(Statement)
  BY <1>2, <1>3, <1>5, OneForEach
<1>7. <<Ten!Place(u, o)>> \in Seq(Statement)
  <2>1. Ten!Place(u, o) \in Statement
    BY StatementsOfIds DEF Ten!Entity
  <2> QED
    BY <2>1
<1>8. Ten!MoveUser(u, o) = all \o <<Ten!Place(u, o)>>
  BY DEF Ten!MoveUser, S
<1> HIDE DEF all
<1> QED
  BY <1>6, <1>7, <1>8, ConcatProperties

\* What a statement makes of the rows.
LEMMA RowsStayRows ==
  ASSUME TenancyInv, NEW st \in Statement
  PROVE  Ten!RowsAfter(st) \subseteq Ten!Row
<1>0. rows \subseteq Ten!Row
  BY DEF TenancyInv, Ten!TenancyTypeOK
<1>1. CASE st.op = "null"
  <2>1. st.col \in Columns
    BY <1>1 DEF Statement, RowStatement, IdStatement
  <2>2. \A r \in Ten!Row : [r EXCEPT ![st.col] = NoId] \in Ten!Row
    BY <2>1 DEF Columns, Ten!Row
  <2>3. Ten!RowsAfter(st) = (rows \ Ten!Hit(st)) \cup {[r EXCEPT ![st.col] = NoId] : r \in Ten!Hit(st)}
    BY <1>1 DEF Ten!RowsAfter
  <2> QED
    BY <1>0, <2>2, <2>3 DEF Ten!Hit
<1>2. CASE st.op \in {"insert", "grant", "replace"}
  <2>1. st.row \in Ten!Row
    BY <1>2 DEF Statement, RowStatement, IdStatement
  <2>2. Ten!RowsAfter(st) \subseteq rows \cup {st.row}
    BY <1>2 DEF Ten!RowsAfter
  <2> QED
    BY <1>0, <2>1, <2>2
<1>3. CASE st.op = "deactivate"
  <2>1. \A r \in Ten!Row : [r EXCEPT !.table = "former"] \in Ten!Row
    BY DEF Ten!Row, Ten!Tables
  <2>2. Ten!RowsAfter(st) = (rows \ Ten!Same(st.row)) \cup {[r EXCEPT !.table = "former"] : r \in Ten!Same(st.row)}
    BY <1>3 DEF Ten!RowsAfter
  <2> QED
    BY <1>0, <2>1, <2>2 DEF Ten!Same
<1>4. CASE st.op = "clear"
  <2>1. \A r \in Ten!Row : [r EXCEPT !.by = NoId] \in Ten!Row
    BY DEF Ten!Row
  <2>2. ASSUME NEW q \in Ten!RowsAfter(st)
        PROVE  \E r \in rows : q = r \/ q = [r EXCEPT !.by = NoId]
    BY <1>4, <2>2 DEF Ten!RowsAfter
  <2> QED
    BY <1>0, <2>1, <2>2
<1>5. CASE st.op \in {"delete", "revoke", "drop", "users", "found", "place"}
  <2>1. Ten!RowsAfter(st) \subseteq rows
    BY <1>5 DEF Ten!RowsAfter
  <2> QED
    BY <1>0, <2>1
<1>6. st.op \in {"delete", "null", "insert", "grant", "deactivate", "revoke", "replace", "drop", "clear",
                 "users", "found", "place"}
  BY DEF Statement, RowStatement, IdStatement
<1> QED
  BY <1>1, <1>2, <1>3, <1>4, <1>5, <1>6

\* Where a statement leaves organizations, accounts and users: what goes is not referred to,
\* what is placed somewhere is placed in an organization that is there.
LEMMA PlacesExist ==
  ASSUME TenancyInv, NEW st \in Statement, ~Ten!Refused(st),
         NEW group, NEW place \in [group -> orgs \cup {NoId}], NEW place2, NEW orgs2,
         st.op = "drop" => \A e \in group : place[e] # st.id,
         orgs2 = CASE st.op = "found" -> orgs \cup {st.id}
                   [] st.op = "drop" -> orgs \ {st.id}
                   [] OTHER -> orgs,
         place2 = CASE st.op = "drop" /\ st.id \in group -> [place EXCEPT ![st.id] = NoId]
                    [] st.op = "place" /\ st.id \in group -> [place EXCEPT ![st.id] = st.org]
                    [] OTHER -> place
  PROVE  orgs2 \subseteq Org /\ place2 \in [group -> orgs2 \cup {NoId}]
<1>0. orgs \subseteq Org
  BY DEF TenancyInv, Ten!TenancyTypeOK
<1>1. CASE st.op = "found"
  <2>1. st.id \in Org
    BY <1>1 DEF Statement, RowStatement, IdStatement
  <2>2. orgs2 = orgs \cup {st.id} /\ place2 = place
    BY <1>1
  <2> QED
    BY <1>0, <2>1, <2>2
<1>2. CASE st.op = "drop"
  <2>1. orgs2 = orgs \ {st.id}
    BY <1>2
  <2>2. place2 = place \/ (st.id \in group /\ place2 = [place EXCEPT ![st.id] = NoId])
    BY <1>2
  <2>3. \A e \in group : place[e] \in orgs2 \cup {NoId}
    BY <1>2, <2>1
  <2>4. place2 \in [group -> orgs2 \cup {NoId}]
    BY <2>2, <2>3
  <2> QED
    BY <1>0, <2>1, <2>4
<1>3. CASE st.op = "place"
  <2>1. st.org \in orgs
    BY <1>3 DEF Ten!Refused
  <2>2. orgs2 = orgs
    BY <1>3
  <2>3. place2 = place \/ place2 = [place EXCEPT ![st.id] = st.org]
    BY <1>3
  <2> QED
    BY <1>0, <2>1, <2>2, <2>3
<1>4. CASE st.op \notin {"found", "drop", "place"}
  <2>1. orgs2 = orgs /\ place2 = place
    BY <1>4
  <2> QED
    BY <1>0, <2>1
<1> QED
  BY <1>1, <1>2, <1>3, <1>4

LEMMA ExecuteKeeps ==
  ASSUME TenancyInv, NEW x \in Admin, Ten!Execute(x)
  PROVE  TenancyInv'
<1> DEFINE st == Head(todo[x])
<1>1. todo[x] \in Seq(Statement) /\ todo[x] # <<>>
  BY DEF TenancyInv, Ten!Execute
<1>2. st \in Statement /\ Tail(todo[x]) \in Seq(Statement)
  <2> HIDE DEF Statement
  <2> QED
    BY <1>1
<1> HIDE DEF st
<1>3. asked' \subseteq Ten!Entity /\ others' \in 0..MaxOther
  BY DEF Ten!Execute, TenancyInv, Ten!TenancyTypeOK
<1>4. CASE Ten!Refused(st)
  <2>1. todo' = [todo EXCEPT ![x] = <<>>] /\ UNCHANGED <<orgs, accounts, users, rows>>
    BY <1>4 DEF Ten!Execute, Ten!database, st
  <2>2. todo' \in [Admin -> Seq(Statement)]
    BY <2>1 DEF TenancyInv
  <2>3. Ten!TenancyTypeOK'
    BY <1>3, <2>1 DEF TenancyInv, Ten!TenancyTypeOK
  <2> QED
    BY <2>2, <2>3 DEF TenancyInv
<1>5. CASE ~Ten!Refused(st)
  <2>1. /\ todo' = [todo EXCEPT ![x] = (IF st.op = "users" THEN Ten!DeleteUsers(st.id) ELSE <<>>) \o Tail(@)]
        /\ rows' = Ten!RowsAfter(st)
        /\ orgs' = CASE st.op = "found" -> orgs \cup {st.id}
                     [] st.op = "drop" -> orgs \ {st.id}
                     [] OTHER -> orgs
        /\ accounts' = CASE st.op = "drop" /\ st.id \in Account -> [accounts EXCEPT ![st.id] = NoId]
                         [] st.op = "place" /\ st.id \in Account -> [accounts EXCEPT ![st.id] = st.org]
                         [] OTHER -> accounts
        /\ users' = CASE st.op = "drop" /\ st.id \in User -> [users EXCEPT ![st.id] = NoId]
                      [] st.op = "place" /\ st.id \in User -> [users EXCEPT ![st.id] = st.org]
                      [] OTHER -> users
    BY <1>5 DEF Ten!Execute, st
  <2>2. st.op = "drop" => (\A a \in Account : accounts[a] # st.id) /\ (\A u \in User : users[u] # st.id)
    BY <1>5 DEF Ten!Refused, Ten!Referred
  <2>3. accounts \in [Account -> orgs \cup {NoId}] /\ users \in [User -> orgs \cup {NoId}]
    BY DEF TenancyInv, Ten!TenancyTypeOK
  <2>4. orgs' \subseteq Org /\ accounts' \in [Account -> orgs' \cup {NoId}]
    BY <1>2, <1>5, <2>1, <2>2, <2>3, PlacesExist
  <2>5. users' \in [User -> orgs' \cup {NoId}]
    BY <1>2, <1>5, <2>1, <2>2, <2>3, PlacesExist
  <2>6. rows' \subseteq Ten!Row
    BY <1>2, <2>1, RowsStayRows
  <2>7. todo' \in [Admin -> Seq(Statement)]
    <3> DEFINE more == IF st.op = "users" THEN Ten!DeleteUsers(st.id) ELSE <<>>
    <3>1. more \in Seq(Statement)
      <4>1. CASE st.op = "users"
        <5>1. st.id \in Ten!Entity
          BY <1>2, <4>1 DEF Statement, RowStatement, IdStatement
        <5> QED
          BY <4>1, <5>1, DeletionStatements
      <4> QED
        BY <4>1
    <3>2. todo' = [todo EXCEPT ![x] = more \o Tail(todo[x])]
      BY <2>1
    <3> HIDE DEF more, Statement
    <3>3. more \o Tail(todo[x]) \in Seq(Statement)
      BY <1>2, <3>1, ConcatProperties
    <3> QED
      BY <3>2, <3>3 DEF TenancyInv
  <2> QED
    BY <1>3, <2>4, <2>5, <2>6, <2>7 DEF TenancyInv, Ten!TenancyTypeOK
<1> QED
  BY <1>4, <1>5

\* A request begins: what an administrator has to do is a list of statements.
LEMMA BeginKeeps ==
  ASSUME TenancyInv, NEW x \in Admin, NEW list \in Seq(Statement),
         todo' = [todo EXCEPT ![x] = list], UNCHANGED <<orgs, accounts, users, rows>>,
         asked' \subseteq Ten!Entity, others' \in 0..MaxOther
  PROVE  TenancyInv'
<1>1. todo' \in [Admin -> Seq(Statement)]
  BY DEF TenancyInv
<1> QED
  BY <1>1 DEF TenancyInv, Ten!TenancyTypeOK

LEMMA DisturbCounts ==
  ASSUME TenancyInv, Ten!Disturb
  PROVE  others' \in 0..MaxOther
BY AccessAssumption DEF TenancyInv, Ten!TenancyTypeOK, Ten!Disturb

LEMMA DeleteKeeps ==
  ASSUME TenancyInv, NEW x \in Admin, NEW e \in Ten!Entity, Ten!Delete(x, e)
  PROVE  TenancyInv'
<1> DEFINE list == CASE e \in User -> Ten!DeleteUser(e)
                     [] e \in Account -> Ten!DeleteAccount(e)
                     [] e \in Org -> Ten!DeleteOrganization(e)
<1>1. list \in Seq(Statement)
  BY DeletionStatements DEF Ten!Entity
<1>2. todo' = [todo EXCEPT ![x] = list] /\ UNCHANGED <<orgs, accounts, users, rows>>
  BY DEF Ten!Delete, Ten!database
<1>3. asked' \subseteq Ten!Entity /\ others' \in 0..MaxOther
  BY DEF TenancyInv, Ten!TenancyTypeOK, Ten!Delete
<1> HIDE DEF list
<1> QED
  BY <1>1, <1>2, <1>3, BeginKeeps

LEMMA CreateKeeps ==
  ASSUME TenancyInv, NEW x \in Admin, Ten!Create(x)
  PROVE  TenancyInv'
<1>1. PICK list \in Seq(Statement) : Ten!Begin(x, list)
  <2>1. ASSUME NEW o \in Org
        PROVE  Ten!CreateOrganization(o) \in Seq(Statement)
    <3>1. [op |-> "found", id |-> o] \in Statement
      BY StatementsOfIds DEF Ten!Entity
    <3> QED
      BY <3>1 DEF Ten!CreateOrganization
  <2>2. ASSUME NEW a \in Account, NEW o \in Org
        PROVE  Ten!CreateAccount(a, o) \in Seq(Statement)
    <3>1. Ten!Place(a, o) \in Statement
      BY StatementsOfIds DEF Ten!Entity
    <3> QED
      BY <3>1 DEF Ten!CreateAccount
  <2>3. orgs \subseteq Org
    BY DEF TenancyInv, Ten!TenancyTypeOK
  <2>4. CASE \E o \in Org \ (orgs \cup asked) : Ten!Begin(x, Ten!CreateOrganization(o))
    BY <2>1, <2>4
  <2>5. CASE \E o \in orgs : \E a \in Account \ asked : Ten!Begin(x, Ten!CreateAccount(a, o))
    BY <2>2, <2>3, <2>5
  <2>6. CASE \E o \in orgs : \E u \in User \ asked, a \in {b \in Account : accounts[b] = o} \cup {NoId} :
               Ten!Begin(x, Ten!CreateUser(u, o, a))
    BY <2>3, <2>6, ChangeStatements
  <2> QED
    BY <2>4, <2>5, <2>6 DEF Ten!Create
<1>2. others' \in 0..MaxOther /\ UNCHANGED <<orgs, accounts, users, rows, asked>>
  BY DisturbCounts DEF Ten!Create, Ten!database
<1>3. todo' = [todo EXCEPT ![x] = list] /\ asked' \subseteq Ten!Entity
  BY <1>1, <1>2 DEF Ten!Begin, TenancyInv, Ten!TenancyTypeOK
<1> QED
  BY <1>2, <1>3, BeginKeeps

LEMMA ChangeKeeps ==
  ASSUME TenancyInv, NEW x \in Admin, Ten!Change(x)
  PROVE  TenancyInv'
<1>1. PICK list \in Seq(Statement) : Ten!Begin(x, list)
  <2>1. PICK u \in User :
          \/ \E a \in Account, by \in User : Ten!Begin(x, Ten!AssignAccount(u, a, by))
          \/ \E r \in Ten!Memberships(u) : Ten!Begin(x, Ten!RemoveMembership(u, r.account))
          \/ \E table \in {"roles", "wide"} : Ten!Begin(x, Ten!SetUserRole(u, table))
          \/ \E a \in Account : Ten!Begin(x, Ten!AssignRole(u, a))
          \/ \E o \in orgs : Ten!Begin(x, Ten!MoveUser(u, o))
    BY DEF Ten!Change
  <2>2. CASE \E a \in Account, by \in User : Ten!Begin(x, Ten!AssignAccount(u, a, by))
    BY <2>2, AssignStatements
  <2>3. CASE \E r \in Ten!Memberships(u) : Ten!Begin(x, Ten!RemoveMembership(u, r.account))
    <3>1. \A r \in Ten!Memberships(u) : r.account \in Account \cup {NoId}
      BY DEF Ten!Memberships, TenancyInv, Ten!TenancyTypeOK, Ten!Row
    <3> QED
      BY <2>3, <3>1, ChangeStatements
  <2>4. CASE \E table \in {"roles", "wide"} : Ten!Begin(x, Ten!SetUserRole(u, table))
    BY <2>4, ChangeStatements
  <2>5. CASE \E a \in Account : Ten!Begin(x, Ten!AssignRole(u, a))
    BY <2>5, ChangeStatements
  <2>6. CASE \E o \in orgs : Ten!Begin(x, Ten!MoveUser(u, o))
    <3>1. orgs \subseteq Org
      BY DEF TenancyInv, Ten!TenancyTypeOK
    <3> QED
      BY <2>6, <3>1, MoveStatements
  <2> QED
    BY <2>1, <2>2, <2>3, <2>4, <2>5, <2>6
<1>2. others' \in 0..MaxOther /\ UNCHANGED <<orgs, accounts, users, rows, asked>>
  BY DisturbCounts DEF Ten!Change, Ten!database
<1>3. todo' = [todo EXCEPT ![x] = list] /\ asked' \subseteq Ten!Entity
  BY <1>1, <1>2 DEF Ten!Begin, TenancyInv, Ten!TenancyTypeOK
<1> QED
  BY <1>2, <1>3, BeginKeeps

LEMMA WorkKeeps ==
  ASSUME TenancyInv, NEW u \in User, NEW a \in Account, Ten!Work(u, a)
  PROVE  TenancyInv'
<1> DEFINE prompt == [Ten!RowOf("prompts", NoId, a) EXCEPT !.by = u]
           update == [Ten!RowOf("updates", NoId, a) EXCEPT !.by = u]
           ticket == [Ten!RowOf("tickets", NoId, a) EXCEPT !.by = u, !.org = users[u]]
<1>1. users[u] \in Org \cup {NoId}
  BY DEF TenancyInv, Ten!TenancyTypeOK
<1>2. \A table \in {"prompts", "updates", "tickets"} : Ten!RowOf(table, NoId, a) \in Ten!Row
  BY DEF Ten!RowOf, Ten!Row, Ten!Tables
<1>3. prompt \in Ten!Row /\ update \in Ten!Row /\ ticket \in Ten!Row
  <2>1. \A r \in Ten!Row : [r EXCEPT !.by = u] \in Ten!Row
    BY DEF Ten!Row
  <2>2. \A r \in Ten!Row : [r EXCEPT !.by = u, !.org = users[u]] \in Ten!Row
    BY <1>1 DEF Ten!Row
  <2> QED
    BY <1>2, <2>1, <2>2
<1>4. {Ten!RowOf("sessions", u, a), Ten!RowOf("messages", u, a), Ten!RowOf("audit", u, NoId)} \subseteq Ten!Row
  BY DEF Ten!RowOf, Ten!Row, Ten!Tables
<1>5. PICK some \in {{Ten!RowOf("sessions", u, a)}, {Ten!RowOf("sessions", u, a), Ten!RowOf("messages", u, a)},
                     {Ten!RowOf("audit", u, NoId)}, {prompt}, {update}, {ticket}} : rows' = rows \cup some
  BY DEF Ten!Work
<1> HIDE DEF prompt, update, ticket
<1>6. rows' \subseteq Ten!Row
  BY <1>3, <1>4, <1>5 DEF TenancyInv, Ten!TenancyTypeOK
<1>7. others' \in 0..MaxOther
  BY DisturbCounts DEF Ten!Work
<1> QED
  BY <1>6, <1>7 DEF Ten!Work, TenancyInv, Ten!TenancyTypeOK

LEMMA TenancyKept ==
  ASSUME TenancyInv, [Ten!TenancyNext]_tenancyVars
  PROVE  TenancyInv'
<1>1. CASE UNCHANGED tenancyVars
  BY <1>1 DEF tenancyVars, TenancyInv, Ten!TenancyTypeOK
<1>2. ASSUME NEW x \in Admin, Ten!Stop(x)
      PROVE  TenancyInv'
  <2>1. <<>> \in Seq(Statement) /\ others' \in 0..MaxOther
    BY <1>2, DisturbCounts DEF Ten!Stop
  <2>2. todo' = [todo EXCEPT ![x] = <<>>] /\ UNCHANGED <<orgs, accounts, users, rows, asked>>
    BY <1>2 DEF Ten!Stop, Ten!database
  <2>3. asked' \subseteq Ten!Entity
    BY <2>2 DEF TenancyInv, Ten!TenancyTypeOK
  <2> QED
    BY <2>1, <2>2, <2>3, BeginKeeps
<1> QED
  BY <1>1, <1>2, ExecuteKeeps, CreateKeeps, ChangeKeeps, DeleteKeeps, WorkKeeps
     DEF Ten!TenancyNext, Ten!Executing

LEMMA TenancyInitInv ==
  ASSUME Ten!TenancyInit
  PROVE  TenancyInv
<1>1. todo \in [Admin -> Seq(Statement)]
  <2>1. <<>> \in Seq(Statement)
    OBVIOUS
  <2> QED
    BY <2>1 DEF Ten!TenancyInit
<1>2. rows \subseteq Ten!Row
  BY DEF Ten!TenancyInit, Ten!RowOf, Ten!Row, Ten!Tables
<1>3. Ten!TenancyTypeOK
  BY AccessAssumption, <1>2 DEF Ten!TenancyInit, Ten!TenancyTypeOK
<1> QED
  BY <1>1, <1>3 DEF TenancyInv

-----------------------------------------------------------------------------
(* Signing up: what a request has still to write, and the codes.           *)

LEMMA SignOperators ==
  /\ \A s : Sign!FlattenSeq(s) = FlattenSeq(s)
  /\ \A S : Sign!Cardinality(S) = Cardinality(S)
<1>1. \A s : Sign!FlattenSeq(s) = FlattenSeq(s)
  BY DEF Sign!FlattenSeq, FlattenSeq
<1>2. \A S : Sign!Cardinality(S) = Cardinality(S)
  BY DEF Sign!Cardinality, Cardinality
<1> QED
  BY <1>1, <1>2

SignWrite ==
  [op : {"invalidate", "mail", "insert_pending", "insert_active", "insert_role", "activate", "lock_otp"}]
  \cup [op : {"insert_code"}, resend : Nat]
  \cup [op : {"mail", "use"}, id : Nat]
  \cup [op : {"count_failed"}, id : Nat, failed : Nat]

\* A code that is stored is mailed after that.
SignWrites == {s \in Seq(SignWrite) : Len(s) <= 5 /\ (s # <<>> => s[Len(s)].op # "insert_code")}
\* Without a user, only requests that create one have something to write.
CreatesUser(s) == s # <<>> => Head(s).op \in {"insert_pending", "insert_active"}

SignInv ==
  /\ Sign!SignTypeOK
  /\ writes \in [Request -> SignWrites]
  /\ user.status = "none" => \A r \in Request : CreatesUser(writes[r])

LEMMA NewestUnused ==
  ASSUME SignInv
  PROVE  /\ Sign!LatestUnused \in 0..Len(codes)
         /\ Sign!LatestUnused # 0 => codes[Sign!LatestUnused] \in Sign!Code /\ user.status # "none"
<1>1. codes \in Seq(Sign!Code) /\ Len(codes) \in Nat
  BY DEF SignInv, Sign!SignTypeOK
<1> DEFINE I == {i \in 1..Len(codes) : ~codes[i].used}
<1>2. Sign!LatestUnused = IF I # {} THEN CHOOSE i \in I : \A j \in I : i >= j ELSE 0
  BY DEF Sign!LatestUnused, Sign!SelectLastInSeq, Sign!Max
<1>3. I # {} => Sign!LatestUnused \in I
  <2>1. I \in SUBSET (1..Len(codes))
    OBVIOUS
  <2> HIDE DEF I
  <2>2. I # {} => \E i \in I : \A j \in I : i >= j
    BY <1>1, <2>1, Greatest
  <2> QED
    BY <1>2, <2>2
<1>4. Sign!LatestUnused \in 0..Len(codes)
  BY <1>1, <1>2, <1>3
<1>5. Sign!LatestUnused # 0 => codes # <<>>
  BY <1>1, <1>4
<1> QED
  BY <1>1, <1>4, <1>5 DEF SignInv, Sign!SignTypeOK

LEMMA FreshIdIsNat ==
  ASSUME SignInv
  PROVE  Sign!FreshId \in Nat
<1> DEFINE A == {c.id : c \in Sign!Range(codes)}
           B == {w.id : w \in {v \in UNION {Sign!Range(writes[r]) : r \in Request} : "id" \in DOMAIN v}}
<1>1. IsFiniteSet(A)
  <2> DEFINE f == [i \in 1..Len(codes) |-> codes[i].id]
  <2>1. IsFiniteSet(1..Len(codes)) /\ DOMAIN codes = 1..Len(codes)
    BY FS_Interval DEF SignInv, Sign!SignTypeOK
  <2>2. \A y \in A : \E i \in 1..Len(codes) : y = f[i]
    BY <2>1 DEF Sign!Range
  <2> HIDE DEF A, f
  <2> QED
    BY <2>1, <2>2, ImageIsFinite
<1>2. IsFiniteSet(B)
  <2> DEFINE D == Request \X (1..5)
             f == [p \in D |-> writes[p[1]][p[2]].id]
  <2>1. IsFiniteSet(D)
    <3>1. IsFiniteSet(Request)
      BY AccessAssumption
    <3>2. 1 \in Int /\ 5 \in Int
      OBVIOUS
    <3>3. IsFiniteSet(1..5)
      BY <3>2, FS_Interval, Zenon
    <3> QED
      BY <3>1, <3>3, FS_Product
  <2>2. ASSUME NEW y \in B
        PROVE  \E p \in D : y = f[p]
    <3>1. PICK r \in Request : \E v \in Sign!Range(writes[r]) : y = v.id
      BY <2>2
    <3>2. PICK i \in DOMAIN writes[r] : y = writes[r][i].id
      BY <3>1 DEF Sign!Range
    <3>3. i \in 1..5
      BY <3>2 DEF SignInv, SignWrites
    <3>4. <<r, i>> \in D /\ f[<<r, i>>] = writes[r][i].id
      BY <3>3
    <3> QED
      BY <3>2, <3>4
  <2> HIDE DEF B, D, f
  <2> QED
    BY <2>1, <2>2, ImageIsFinite
<1>3. Sign!FreshId = CHOOSE n \in 0..Cardinality(A \cup B) : n \notin A \cup B
  BY SignOperators DEF Sign!FreshId, Sign!Ids
<1> HIDE DEF A, B
<1>4. IsFiniteSet(A \cup B)
  BY <1>1, <1>2, FS_Union
<1> QED
  BY <1>3, <1>4, UnusedNumber

\* Codes stay codes when the used ones go.
LEMMA TrimKeepsCodes ==
  ASSUME NEW cs \in Seq(Sign!Code)
  PROVE  Sign!Trim(cs) \in Seq(Sign!Code)
<1> DEFINE parts == [i \in DOMAIN cs |-> IF cs[i].used /\ i # Len(cs) THEN <<>> ELSE <<cs[i]>>]
<1>1. Len(cs) \in Nat /\ parts \in [1..Len(cs) -> Seq(Sign!Code)]
  <2>1. \A i \in 1..Len(cs) : cs[i] \in Sign!Code
    OBVIOUS
  <2> HIDE DEF Sign!Code
  <2> QED
    BY <2>1
<1>2. Sign!Trim(cs) = FlattenSeq(parts)
  BY SignOperators DEF Sign!Trim
<1> HIDE DEF parts
<1> QED
  BY <1>1, <1>2, FlattenSeqType

\* The codes a request writes.
LEMMA SendsCode ==
  ASSUME NEW count \in Nat
  PROVE  /\ Sign!SendCode(count) \in SignWrites
         /\ <<Sign!Op("insert_pending"), Sign!Op("insert_role")>> \o Sign!SendCode(count) \in SignWrites
         /\ CreatesUser(<<Sign!Op("insert_pending"), Sign!Op("insert_role")>> \o Sign!SendCode(count))
<1> DEFINE code == [op |-> "insert_code", resend |-> count]
<1>1. /\ code \in SignWrite
      /\ \A o \in {"invalidate", "mail", "insert_pending", "insert_role"} :
           Sign!Op(o) \in SignWrite /\ Sign!Op(o).op = o
  BY DEF SignWrite, Sign!Op
<1>2. Sign!SendCode(count) = <<Sign!Op("invalidate"), code, Sign!Op("mail")>>
  BY DEF Sign!SendCode
<1> DEFINE before == <<Sign!Op("insert_pending"), Sign!Op("insert_role")>>
           send == Sign!SendCode(count)
<1> HIDE DEF code
<1>3. send \in Seq(SignWrite) /\ Len(send) = 3 /\ send[3].op = "mail"
  BY <1>1, <1>2
<1>4. before \in Seq(SignWrite) /\ Len(before) = 2 /\ before[1].op = "insert_pending"
  BY <1>1
<1> HIDE DEF before, send
<1>5. /\ before \o send \in Seq(SignWrite) /\ Len(before \o send) = 5
      /\ (before \o send)[1] = before[1] /\ (before \o send)[5] = send[3]
  <2>1. /\ before \o send \in Seq(SignWrite) /\ Len(before \o send) = Len(before) + Len(send)
        /\ \A i \in 1 .. Len(before) + Len(send) :
             (before \o send)[i] = IF i <= Len(before) THEN before[i] ELSE send[i - Len(before)]
    BY <1>3, <1>4, ConcatProperties
  <2> QED
    BY <1>3, <1>4, <2>1
<1>6. send \in SignWrites /\ before \o send \in SignWrites
  <2>1. ASSUME NEW s \in Seq(SignWrite), Len(s) \in 0..5, s[Len(s)].op = "mail"
        PROVE  s \in SignWrites
    BY <2>1 DEF SignWrites
  <2>2. send[Len(send)].op = "mail" /\ (before \o send)[Len(before \o send)].op = "mail"
    BY <1>3, <1>5
  <2>3. Len(send) \in 0..5 /\ Len(before \o send) \in 0..5
    BY <1>3, <1>5
  <2> QED
    BY <1>3, <1>5, <2>1, <2>2, <2>3
<1>7. CreatesUser(before \o send)
  BY <1>4, <1>5 DEF CreatesUser
<1> QED
  BY <1>6, <1>7 DEF before, send

LEMMA FollowedIsNat ==
  ASSUME NEW m \in Nat
  PROVE  Sign!Followed(m) \in Nat
<1>1. MaxResends \in Nat
  BY AccessAssumption
<1>2. \E x \in {m, MaxResends} : \A y \in {m, MaxResends} : x <= y
  BY <1>1
<1>3. Sign!Followed(m) \in {m, MaxResends}
  BY <1>2 DEF Sign!Followed, Sign!Min
<1> QED
  BY <1>1, <1>3

LEMMA MaybeResendWrites ==
  ASSUME SignInv
  PROVE  Sign!MaybeResend \in SignWrites
<1> DEFINE i == Sign!LatestUnused
           count == IF i = 0 THEN 0 ELSE Sign!Followed(codes[i].resend + 1)
<1>1. count \in Nat
  <2>1. i # 0 => codes[i].resend + 1 \in Nat
    BY NewestUnused DEF Sign!Code
  <2> HIDE DEF i
  <2> QED
    BY <2>1, FollowedIsNat
<1>2. Sign!MaybeResend = IF i # 0 /\ codes[i].recent THEN <<>> ELSE Sign!SendCode(count)
  BY DEF Sign!MaybeResend
<1>3. <<>> \in SignWrites
  BY DEF SignWrites
<1> HIDE DEF i, count
<1> QED
  BY <1>1, <1>2, <1>3, SendsCode

\* A request begins.
LEMMA SignBegins ==
  ASSUME SignInv, NEW r \in Request, NEW list \in SignWrites,
         user.status = "none" => CreatesUser(list),
         Sign!Begin(r, list), UNCHANGED <<user, codes>>, troubles' \in 0..MaxTroubles
  PROVE  SignInv'
<1>1. writes' = [writes EXCEPT ![r] = list]
  BY DEF Sign!Begin
<1>2. writes' \in [Request -> SignWrites]
  BY <1>1 DEF SignInv
<1>3. \A q \in Request : Len(writes'[q]) <= 5
  BY <1>2 DEF SignWrites
<1>4. user.status = "none" => \A q \in Request : CreatesUser(writes'[q])
  BY <1>1 DEF SignInv
<1> QED
  BY <1>2, <1>3, <1>4 DEF SignInv, Sign!SignTypeOK

LEMMA SignRequestKeeps ==
  ASSUME SignInv, NEW r \in Request, Sign!SignUp(r) \/ Sign!Resend(r) \/ Sign!ZohoLogin(r)
  PROVE  SignInv'
<1>0. <<>> \in SignWrites /\ CreatesUser(<<>>)
  BY DEF SignWrites, CreatesUser
<1>1. MaxTroubles \in Nat
  BY AccessAssumption
<1>2. CASE Sign!SignUp(r)
  <2> DEFINE list == CASE user.status = "none" -> <<Sign!Op("insert_pending"), Sign!Op("insert_role")>> \o Sign!SendCode(0)
                       [] user.status = "PENDING_EMAIL_VERIFICATION" -> Sign!MaybeResend
                       [] OTHER -> <<>>
  <2>1. list \in SignWrites /\ (user.status = "none" => CreatesUser(list))
    BY <1>0, <1>1, SendsCode, MaybeResendWrites
  <2>2. Sign!Begin(r, list) /\ UNCHANGED <<user, codes>>
    BY <1>2 DEF Sign!SignUp
  <2>3. troubles' \in 0..MaxTroubles
    BY <1>1, <1>2 DEF Sign!SignUp, Sign!Trouble, SignInv, Sign!SignTypeOK
  <2> HIDE DEF list
  <2> QED
    BY <2>1, <2>2, <2>3, SignBegins
<1>3. CASE Sign!Resend(r)
  <2>1. troubles' \in 0..MaxTroubles
    BY <1>1, <1>3 DEF Sign!Resend, Sign!Trouble, SignInv, Sign!SignTypeOK
  <2>2. Sign!Begin(r, Sign!MaybeResend) /\ UNCHANGED <<user, codes>> /\ user.status # "none"
    BY <1>3 DEF Sign!Resend
  <2> QED
    BY <2>1, <2>2, SignBegins, MaybeResendWrites
<1>4. CASE Sign!ZohoLogin(r)
  <2> DEFINE list == <<Sign!Op("insert_active"), Sign!Op("insert_role")>>
  <2>1. list \in SignWrites /\ CreatesUser(list)
    BY DEF SignWrites, SignWrite, CreatesUser, Sign!Op
  <2>2. troubles' \in 0..MaxTroubles
    BY <1>1, <1>4 DEF Sign!ZohoLogin, Sign!Trouble, SignInv, Sign!SignTypeOK
  <2>3. Sign!Begin(r, list) /\ UNCHANGED <<user, codes>>
    BY <1>4 DEF Sign!ZohoLogin
  <2> HIDE DEF list
  <2> QED
    BY <2>1, <2>2, <2>3, SignBegins
<1> QED
  BY <1>2, <1>3, <1>4

LEMMA VerifyKeeps ==
  ASSUME SignInv, NEW r \in Request, NEW right \in BOOLEAN, Sign!Verify(r, right)
  PROVE  SignInv'
<1> DEFINE i == Sign!LatestUnused
           use == <<[op |-> "use", id |-> codes[i].id], Sign!Op("activate")>>
           count == [op |-> "count_failed", id |-> codes[i].id,
                     failed |-> codes[i].failed + 1]
           lock == IF codes[i].failed + 1 >= otp_max_attempts THEN <<Sign!Op("lock_otp")>> ELSE <<>>
           list == IF right THEN use ELSE <<count>> \o lock
<1>1. codes[i] \in Sign!Code /\ user.status # "none"
  BY NewestUnused DEF Sign!Verify
<1>2. Sign!Begin(r, list) /\ UNCHANGED <<user, codes>>
  BY DEF Sign!Verify
<1>3. troubles' \in 0..MaxTroubles
  BY AccessAssumption DEF Sign!Verify, Sign!Trouble, SignInv, Sign!SignTypeOK
<1> HIDE DEF i
<1>4. use \in SignWrites
  BY <1>1 DEF SignWrites, SignWrite, Sign!Op, Sign!Code
<1>5. count \in SignWrite /\ count.op = "count_failed"
  <2>1. codes[i].id \in Nat /\ codes[i].failed + 1 \in Nat
    BY <1>1 DEF Sign!Code
  <2> QED
    BY <2>1 DEF SignWrite
<1> HIDE DEF count
<1>6. <<count>> \o lock \in SignWrites
  <2>1. Sign!Op("lock_otp") \in SignWrite /\ Sign!Op("lock_otp").op = "lock_otp"
    BY DEF SignWrite, Sign!Op
  <2> DEFINE first == <<count>>
             all == first \o lock
  <2>2. first \in Seq(SignWrite) /\ Len(first) = 1 /\ first[1] = count
    BY <1>5
  <2>3. lock \in Seq(SignWrite) /\ Len(lock) \in {0, 1} /\ (Len(lock) = 1 => lock[1].op = "lock_otp")
    BY <2>1
  <2> HIDE DEF first, lock
  <2>4. /\ all \in Seq(SignWrite) /\ Len(all) = Len(first) + Len(lock)
        /\ \A k \in 1 .. Len(first) + Len(lock) :
             all[k] = IF k <= Len(first) THEN first[k] ELSE lock[k - Len(first)]
    BY <2>2, <2>3, ConcatProperties
  <2>5. Len(all) \in 1..5 /\ all[Len(all)].op # "insert_code"
    BY <1>5, <2>2, <2>3, <2>4
  <2> HIDE DEF all
  <2>6. all \in SignWrites
    BY <2>4, <2>5 DEF SignWrites
  <2> QED
    BY <2>6 DEF all, first
<1>7. list \in SignWrites
  BY <1>4, <1>6
<1> HIDE DEF list
<1> QED
  BY <1>1, <1>2, <1>3, <1>7, SignBegins

\* What a write makes of the codes.
LEMMA CodesAfterWrite ==
  ASSUME SignInv, NEW w \in SignWrite
  PROVE  Sign!CodesAfter(w) \in Seq(Sign!Code)
<1>1. codes \in Seq(Sign!Code)
  BY DEF SignInv, Sign!SignTypeOK
<1>2. \A i \in 1..Len(codes) : codes[i] \in Sign!Code
  BY <1>1
<1>3. CASE w.op = "invalidate"
  <2>1. \A c \in Sign!Code : [c EXCEPT !.used = TRUE] \in Sign!Code
    BY DEF Sign!Code
  <2>2. Sign!CodesAfter(w) = [i \in DOMAIN codes |-> [codes[i] EXCEPT !.used = TRUE]]
    BY <1>3 DEF Sign!CodesAfter
  <2> HIDE DEF Sign!Code
  <2> QED
    BY <1>1, <1>2, <2>1, <2>2
<1>4. CASE w.op = "insert_code"
  <2> DEFINE new == [id |-> Sign!FreshId, used |-> FALSE, failed |-> 0, resend |-> w.resend, recent |-> TRUE,
                     expired |-> FALSE, mailed |-> FALSE]
  <2>1. w.resend \in Nat
    BY <1>4 DEF SignWrite
  <2>2. new \in Sign!Code
    BY <2>1, FreshIdIsNat DEF Sign!Code
  <2>3. Sign!CodesAfter(w) = Append(codes, new)
    BY <1>4 DEF Sign!CodesAfter
  <2> HIDE DEF new, Sign!Code
  <2> QED
    BY <1>1, <2>2, <2>3
<1>5. CASE w.op = "use"
  <2>1. \A c \in Sign!Code : [c EXCEPT !.used = TRUE] \in Sign!Code
    BY DEF Sign!Code
  <2>2. Sign!CodesAfter(w) = [i \in DOMAIN codes |-> IF codes[i].id = w.id THEN [codes[i] EXCEPT !.used = TRUE]
                                                      ELSE codes[i]]
    BY <1>5 DEF Sign!CodesAfter
  <2> HIDE DEF Sign!Code
  <2> QED
    BY <1>1, <1>2, <2>1, <2>2
<1>6. CASE w.op = "count_failed"
  <2>1. w.failed \in Nat
    BY <1>6 DEF SignWrite
  <2>2. \A c \in Sign!Code : [c EXCEPT !.failed = w.failed] \in Sign!Code
    BY <2>1 DEF Sign!Code
  <2>3. Sign!CodesAfter(w) = [i \in DOMAIN codes |-> IF codes[i].id = w.id THEN [codes[i] EXCEPT !.failed = w.failed]
                                                      ELSE codes[i]]
    BY <1>6 DEF Sign!CodesAfter
  <2> HIDE DEF Sign!Code
  <2> QED
    BY <1>1, <1>2, <2>2, <2>3
<1>7. CASE w.op \notin {"invalidate", "insert_code", "use", "count_failed"}
  BY <1>1, <1>7 DEF Sign!CodesAfter
<1> QED
  BY <1>3, <1>4, <1>5, <1>6, <1>7

LEMMA UserAfterWrite ==
  ASSUME SignInv, NEW w \in SignWrite,
         user.status = "none" => w.op \in {"insert_pending", "insert_active"}
  PROVE  /\ Sign!UserAfter(w) \in [status : Sign!Statuses, role : BOOLEAN, otp_locked : BOOLEAN]
         /\ Sign!UserAfter(w).status # "none"
<1>1. user \in [status : Sign!Statuses, role : BOOLEAN, otp_locked : BOOLEAN]
  BY DEF SignInv, Sign!SignTypeOK
<1>2. CASE w.op = "insert_pending"
  BY <1>1, <1>2 DEF Sign!UserAfter, Sign!Statuses
<1>3. CASE w.op = "insert_active"
  BY <1>1, <1>3 DEF Sign!UserAfter, Sign!Statuses
<1>4. CASE w.op = "insert_role"
  BY <1>1, <1>4 DEF Sign!UserAfter, Sign!Statuses
<1>5. CASE w.op = "activate"
  BY <1>1, <1>5 DEF Sign!UserAfter, Sign!Statuses
<1>6. CASE w.op = "lock_otp"
  BY <1>1, <1>6 DEF Sign!UserAfter, Sign!Statuses
<1>7. CASE w.op \notin {"insert_pending", "insert_active", "insert_role", "activate", "lock_otp"}
  BY <1>1, <1>7 DEF Sign!UserAfter, Sign!Statuses
<1> QED
  BY <1>2, <1>3, <1>4, <1>5, <1>6, <1>7

\* What is left to write after the next one.
LEMMA WritesGoOn ==
  ASSUME NEW s \in SignWrites, s # <<>>, NEW n \in Nat
  PROVE  /\ Head(s) \in SignWrite /\ Tail(s) \in SignWrites
         /\ Head(s).op = "insert_code" => <<[op |-> "mail", id |-> n]>> \o Tail(Tail(s)) \in SignWrites
<1>1. s \in Seq(SignWrite) /\ Len(s) \in 1..5 /\ s[Len(s)].op # "insert_code"
  <2>1. s \in Seq(SignWrite) /\ Len(s) <= 5 /\ s[Len(s)].op # "insert_code"
    BY DEF SignWrites
  <2> DEFINE k == Len(s)
  <2>2. k \in Nat /\ k # 0 /\ k <= 5
    BY <2>1
  <2>3. k \in 1..5
    <3> HIDE DEF k
    <3> QED
      BY <2>2
  <2> QED
    BY <2>1, <2>3
<1> DEFINE t == Tail(s)
<1>2. /\ Head(s) \in SignWrite /\ Head(s) = s[1] /\ t \in Seq(SignWrite)
      /\ Len(t) = Len(s) - 1 /\ \A i \in 1..Len(t) : t[i] = s[i + 1]
  <2> HIDE DEF SignWrite
  <2> QED
    BY <1>1
<1> HIDE DEF t
<1>3. t \in SignWrites
  <2>1. t # <<>> => t[Len(t)] = s[Len(s)]
    BY <1>1, <1>2
  <2>2. Len(t) <= 5
    BY <1>1, <1>2
  <2> HIDE DEF SignWrite
  <2> QED
    BY <1>1, <1>2, <2>1, <2>2 DEF SignWrites
<1>4. ASSUME Head(s).op = "insert_code"
      PROVE  <<[op |-> "mail", id |-> n]>> \o Tail(t) \in SignWrites
  <2> DEFINE mail == [op |-> "mail", id |-> n]
             first == <<mail>>
             rest == Tail(t)
             all == first \o rest
  <2>1. Len(s) # 1
    BY <1>1, <1>2, <1>4
  <2>2. /\ rest \in Seq(SignWrite) /\ Len(rest) = Len(t) - 1 /\ \A i \in 1..Len(rest) : rest[i] = t[i + 1]
    <3>1. t # <<>>
      BY <1>1, <1>2, <2>1
    <3> HIDE DEF SignWrite
    <3> QED
      BY <1>2, <3>1
  <2>3. mail \in SignWrite /\ mail.op = "mail"
    BY DEF SignWrite
  <2> HIDE DEF mail
  <2>4. first \in Seq(SignWrite) /\ Len(first) = 1 /\ first[1] = mail
    BY <2>3
  <2> HIDE DEF first, rest
  <2>5. /\ all \in Seq(SignWrite) /\ Len(all) = Len(first) + Len(rest)
        /\ \A k \in 1 .. Len(first) + Len(rest) :
             all[k] = IF k <= Len(first) THEN first[k] ELSE rest[k - Len(first)]
    <3>1. first \in Seq(SignWrite) /\ rest \in Seq(SignWrite)
      BY <2>2, <2>4
    <3> QED
      BY <3>1, ConcatProperties
  <2>6. Len(rest) # 0 => rest[Len(rest)] = s[Len(s)]
    BY <1>1, <1>2, <2>2
  <2>7. Len(all) \in 1..5 /\ all[Len(all)].op # "insert_code"
    BY <1>1, <1>2, <2>2, <2>3, <2>4, <2>5, <2>6
  <2> HIDE DEF all
  <2>8. all \in SignWrites
    BY <2>5, <2>7 DEF SignWrites
  <2> QED
    BY <2>8 DEF all, first, rest, mail
<1> QED
  BY <1>2, <1>3, <1>4 DEF t

LEMMA WriteKeeps ==
  ASSUME SignInv, NEW r \in Request, Sign!Write(r)
  PROVE  SignInv'
<1> DEFINE w == Head(writes[r])
<1>1. writes[r] \in SignWrites /\ writes[r] # <<>>
  BY DEF SignInv, Sign!Write, Sign!Busy
<1>2. w \in SignWrite /\ Tail(writes[r]) \in SignWrites
  BY <1>1, WritesGoOn
<1>3. user.status = "none" => w.op \in {"insert_pending", "insert_active"}
  BY <1>1 DEF SignInv, CreatesUser
<1> HIDE DEF w
<1>4. CASE w.op \in {"insert_pending", "insert_active"} /\ user.status # "none"
  <2>1. writes' = [writes EXCEPT ![r] = <<>>] /\ UNCHANGED <<user, codes, troubles>>
    BY <1>4 DEF Sign!Write, w
  <2>2. writes' \in [Request -> SignWrites]
    BY <2>1 DEF SignInv, SignWrites
  <2>3. \A q \in Request : Len(writes'[q]) <= 5
    BY <2>2 DEF SignWrites
  <2> QED
    BY <1>4, <2>1, <2>2, <2>3 DEF SignInv, Sign!SignTypeOK
<1>5. CASE ~(w.op \in {"insert_pending", "insert_active"} /\ user.status # "none")
  <2> DEFINE left == IF w.op = "insert_code" THEN <<[op |-> "mail", id |-> Sign!FreshId]>> \o Tail(Tail(writes[r]))
                     ELSE Tail(writes[r])
  <2>1. /\ writes' = [writes EXCEPT ![r] = left]
        /\ user' = Sign!UserAfter(w) /\ codes' = Sign!Trim(Sign!CodesAfter(w)) /\ UNCHANGED troubles
    BY <1>5 DEF Sign!Write, w
  <2>2. left \in SignWrites
    <3>1. CASE w.op = "insert_code"
      BY <1>1, <3>1, FreshIdIsNat, WritesGoOn DEF w
    <3> QED
      BY <1>2, <3>1
  <2> HIDE DEF left
  <2>3. writes' \in [Request -> SignWrites]
    BY <2>1, <2>2 DEF SignInv
  <2>4. \A q \in Request : Len(writes'[q]) <= 5
    BY <2>3 DEF SignWrites
  <2>5. codes' \in Seq(Sign!Code)
    BY <1>2, <2>1, CodesAfterWrite, TrimKeepsCodes
  <2>6. user' \in [status : Sign!Statuses, role : BOOLEAN, otp_locked : BOOLEAN] /\ user'.status # "none"
    BY <1>2, <1>3, <2>1, UserAfterWrite
  <2>7. troubles' \in 0..MaxTroubles
    BY <2>1 DEF SignInv, Sign!SignTypeOK
  <2> QED
    BY <2>3, <2>4, <2>5, <2>6, <2>7 DEF SignInv, Sign!SignTypeOK
<1> QED
  BY <1>4, <1>5

\* Flags of the codes change; the codes of no user are none.
LEMMA CodesMarked ==
  ASSUME SignInv, codes' \in [1..Len(codes) -> Sign!Code], UNCHANGED <<user, troubles>>,
         writes' \in [Request -> SignWrites],
         user.status = "none" => \A r \in Request : CreatesUser(writes'[r])
  PROVE  SignInv'
<1>1. Len(codes) \in Nat /\ (codes = <<>> => Len(codes) = 0)
  BY DEF SignInv, Sign!SignTypeOK
<1>2. codes' \in Seq(Sign!Code) /\ (codes = <<>> => codes' = <<>>)
  <2> HIDE DEF Sign!Code
  <2> QED
    BY <1>1
<1>3. \A q \in Request : Len(writes'[q]) <= 5
  BY DEF SignWrites
<1> QED
  BY <1>2, <1>3 DEF SignInv, Sign!SignTypeOK

LEMMA SignRestKeeps ==
  ASSUME SignInv,
         \/ \E r \in Request : Sign!Stop(r) \/ \E b \in BOOLEAN : Sign!Mail(r, b)
         \/ Sign!SetStatus \/ Sign!Cooldown \/ Sign!Expire \/ Sign!Unlock
  PROVE  SignInv'
<1>0. /\ \A i \in 1..Len(codes) : codes[i] \in Sign!Code
      /\ DOMAIN codes = 1..Len(codes)
  BY DEF SignInv, Sign!SignTypeOK
<1>1. ASSUME NEW r \in Request, Sign!Stop(r)
      PROVE  SignInv'
  <2>1. writes' = [writes EXCEPT ![r] = <<>>] /\ UNCHANGED <<user, codes>>
    BY <1>1 DEF Sign!Stop
  <2>2. <<>> \in SignWrites /\ CreatesUser(<<>>)
    BY DEF SignWrites, CreatesUser
  <2>3. writes' \in [Request -> SignWrites]
    BY <2>1, <2>2 DEF SignInv
  <2>4. \A q \in Request : Len(writes'[q]) <= 5
    BY <2>3 DEF SignWrites
  <2>5. user.status = "none" => \A q \in Request : CreatesUser(writes'[q])
    BY <2>1, <2>2 DEF SignInv
  <2>6. troubles' \in 0..MaxTroubles
    BY <1>1, AccessAssumption DEF Sign!Stop, Sign!Trouble, SignInv, Sign!SignTypeOK
  <2> QED
    BY <2>1, <2>3, <2>4, <2>5, <2>6 DEF SignInv, Sign!SignTypeOK
<1>2. ASSUME NEW r \in Request, NEW sent \in BOOLEAN, Sign!Mail(r, sent)
      PROVE  SignInv'
  <2>1. writes[r] \in SignWrites /\ writes[r] # <<>> /\ Head(writes[r]).op = "mail"
    BY <1>2 DEF SignInv, Sign!Mail, Sign!Busy
  <2>2. user.status # "none"
    BY <2>1 DEF SignInv, CreatesUser
  <2>3. Tail(writes[r]) \in SignWrites
    <3>1. 0 \in Nat
      OBVIOUS
    <3> QED
      BY <2>1, <3>1, WritesGoOn
  <2>4. writes' \in [Request -> SignWrites]
    BY <1>2, <2>3 DEF Sign!Mail, SignInv
  <2>5. \A c \in Sign!Code : [c EXCEPT !.mailed = TRUE] \in Sign!Code
    BY DEF Sign!Code
  <2>6. codes' = [i \in DOMAIN codes |-> IF sent /\ codes[i].id = Head(writes[r]).id
                                         THEN [codes[i] EXCEPT !.mailed = TRUE] ELSE codes[i]]
    BY <1>2 DEF Sign!Mail
  <2>7. codes' \in [1..Len(codes) -> Sign!Code]
    <3> HIDE DEF Sign!Code
    <3> QED
      BY <1>0, <2>5, <2>6
  <2>8. UNCHANGED <<user, troubles>>
    BY <1>2 DEF Sign!Mail
  <2> QED
    BY <2>2, <2>4, <2>7, <2>8, CodesMarked
<1>3. CASE Sign!SetStatus \/ Sign!Unlock
  <2>1. /\ user' \in [status : Sign!Statuses, role : BOOLEAN, otp_locked : BOOLEAN]
        /\ user'.status = "none" <=> user.status = "none"
        /\ user'.role = user.role
    BY <1>3 DEF Sign!SetStatus, Sign!Unlock, SignInv, Sign!SignTypeOK, Sign!Statuses
  <2>2. UNCHANGED <<codes, writes, troubles>>
    BY <1>3 DEF Sign!SetStatus, Sign!Unlock
  <2> QED
    BY <2>1, <2>2 DEF SignInv, Sign!SignTypeOK
<1>4. CASE Sign!Cooldown
  <2>1. \A c \in Sign!Code : [c EXCEPT !.recent = FALSE] \in Sign!Code
    BY DEF Sign!Code
  <2>2. codes' = [i \in DOMAIN codes |-> [codes[i] EXCEPT !.recent = FALSE]] /\ UNCHANGED <<user, writes, troubles>>
    BY <1>4 DEF Sign!Cooldown
  <2>3. codes' \in [1..Len(codes) -> Sign!Code]
    <3> HIDE DEF Sign!Code
    <3> QED
      BY <1>0, <2>1, <2>2
  <2>4. writes' \in [Request -> SignWrites] /\ (user.status = "none" => \A r \in Request : CreatesUser(writes'[r]))
    BY <2>2 DEF SignInv
  <2> QED
    BY <2>2, <2>3, <2>4, CodesMarked
<1>5. CASE Sign!Expire
  <2>1. \A c \in Sign!Code : [c EXCEPT !.expired = @ \/ ~c.recent] \in Sign!Code
    BY DEF Sign!Code
  <2>2. codes' = [i \in DOMAIN codes |-> [codes[i] EXCEPT !.expired = @ \/ ~codes[i].recent]]
        /\ UNCHANGED <<user, writes, troubles>>
    BY <1>5 DEF Sign!Expire
  <2>3. codes' \in [1..Len(codes) -> Sign!Code]
    <3> HIDE DEF Sign!Code
    <3> QED
      BY <1>0, <2>1, <2>2
  <2>4. writes' \in [Request -> SignWrites] /\ (user.status = "none" => \A r \in Request : CreatesUser(writes'[r]))
    BY <2>2 DEF SignInv
  <2> QED
    BY <2>2, <2>3, <2>4, CodesMarked
<1> QED
  BY <1>1, <1>2, <1>3, <1>4, <1>5

LEMMA SignKept ==
  ASSUME SignInv, [Sign!SignNext]_signVars
  PROVE  SignInv'
<1>1. CASE UNCHANGED signVars
  BY <1>1 DEF signVars, SignInv, Sign!SignTypeOK
<1> QED
  BY <1>1, SignRequestKeeps, VerifyKeeps, WriteKeeps, SignRestKeeps DEF Sign!SignNext

LEMMA SignInitInv ==
  ASSUME Sign!SignInit
  PROVE  SignInv
<1>1. <<>> \in SignWrites /\ <<>> \in Seq(Sign!Code) /\ CreatesUser(<<>>)
  BY DEF SignWrites, CreatesUser
<1>2. writes \in [Request -> SignWrites] /\ \A r \in Request : writes[r] = <<>>
  BY <1>1 DEF Sign!SignInit
<1>3. Sign!SignTypeOK
  <2>1. troubles \in 0..MaxTroubles
    BY AccessAssumption DEF Sign!SignInit
  <2> QED
    BY <1>1, <1>2, <2>1 DEF Sign!SignInit, Sign!SignTypeOK, Sign!NoUser, Sign!Statuses
<1> QED
  BY <1>1, <1>2, <1>3 DEF SignInv

-----------------------------------------------------------------------------
(* Signing in again: what a request has still to write.                    *)

LEMMA LoginOperators ==
  /\ \A s : Again!FlattenSeq(s) = FlattenSeq(s)
  /\ \A S : Again!Cardinality(S) = Cardinality(S)
<1>1. \A s : Again!FlattenSeq(s) = FlattenSeq(s)
  BY DEF Again!FlattenSeq, FlattenSeq
<1>2. \A S : Again!Cardinality(S) = Cardinality(S)
  BY DEF Again!Cardinality, Cardinality
<1> QED
  BY <1>1, <1>2

LoginWrite ==
  [op : {"reset_failed", "tokens", "invalidate", "insert_code", "password"}]
  \cup [op : {"count_failed"}, failed : Nat]
  \cup [op : {"use", "mail"}, id : Nat]

LoginWrites == {s \in Seq(LoginWrite) : Len(s) <= 3}
ResetCode == [id : Nat, mailed : BOOLEAN, expired : BOOLEAN]

LoginInv == Again!LoginTypeOK /\ pending \in [Attempt -> LoginWrites]

LEMMA NewIdIsNat ==
  ASSUME LoginInv
  PROVE  Again!NewId \in Nat
<1> DEFINE A == {resetCodes[i].id : i \in DOMAIN resetCodes}
           B == {w.id : w \in {v \in UNION {Again!Range(pending[a]) : a \in Attempt} : "id" \in DOMAIN v}}
<1>1. IsFiniteSet(A)
  <2> DEFINE f == [i \in 1..Len(resetCodes) |-> resetCodes[i].id]
  <2>1. IsFiniteSet(1..Len(resetCodes)) /\ DOMAIN resetCodes = 1..Len(resetCodes)
    BY FS_Interval DEF LoginInv, Again!LoginTypeOK
  <2>2. \A y \in A : \E i \in 1..Len(resetCodes) : y = f[i]
    BY <2>1
  <2> HIDE DEF A, f
  <2> QED
    BY <2>1, <2>2, ImageIsFinite
<1>2. IsFiniteSet(B)
  <2> DEFINE D == Attempt \X (1..3)
             f == [p \in D |-> pending[p[1]][p[2]].id]
  <2>1. IsFiniteSet(D)
    <3>1. IsFiniteSet(Attempt)
      BY AccessAssumption
    <3>2. 1 \in Int /\ 3 \in Int
      OBVIOUS
    <3>3. IsFiniteSet(1..3)
      BY <3>2, FS_Interval, Zenon
    <3> QED
      BY <3>1, <3>3, FS_Product
  <2>2. ASSUME NEW y \in B
        PROVE  \E p \in D : y = f[p]
    <3>1. PICK a \in Attempt : \E v \in Again!Range(pending[a]) : y = v.id
      BY <2>2
    <3>2. PICK i \in DOMAIN pending[a] : y = pending[a][i].id
      BY <3>1 DEF Again!Range
    <3>3. i \in 1..3
      BY <3>2 DEF LoginInv, LoginWrites
    <3>4. <<a, i>> \in D /\ f[<<a, i>>] = pending[a][i].id
      BY <3>3
    <3> QED
      BY <3>2, <3>4
  <2> HIDE DEF B, D, f
  <2> QED
    BY <2>1, <2>2, ImageIsFinite
<1>3. Again!NewId = CHOOSE n \in 0..Cardinality(A \cup B) : n \notin A \cup B
  BY LoginOperators DEF Again!NewId, Again!Ids
<1> HIDE DEF A, B
<1>4. IsFiniteSet(A \cup B)
  BY <1>1, <1>2, FS_Union
<1> QED
  BY <1>3, <1>4, UnusedNumber

\* A request begins.
LEMMA LoginBegins ==
  ASSUME LoginInv, NEW a \in Attempt, NEW list \in LoginWrites, Again!Begins(a, list),
         UNCHANGED <<row, resetCodes, knows, signed>>, mishaps' \in 0..MaxMishaps
  PROVE  LoginInv'
<1>1. pending' = [pending EXCEPT ![a] = list]
  BY DEF Again!Begins
<1>2. pending' \in [Attempt -> LoginWrites]
  BY <1>1 DEF LoginInv
<1>3. \A b \in Attempt : Len(pending'[b]) <= 3
  BY <1>2 DEF LoginWrites
<1> QED
  BY <1>2, <1>3 DEF LoginInv, Again!LoginTypeOK

LEMMA LoginRequestKeeps ==
  ASSUME LoginInv, NEW a \in Attempt,
         Again!Forgot(a) \/ Again!Reset(a) \/ \E right \in BOOLEAN : Again!Login(a, right)
  PROVE  LoginInv'
<1>0. MaxMishaps \in Nat
  BY AccessAssumption
<1>1. CASE Again!Forgot(a)
  <2>1. <<Again!St("invalidate"), Again!St("insert_code")>> \in LoginWrites
    BY DEF LoginWrites, LoginWrite, Again!St
  <2>2. mishaps' \in 0..MaxMishaps
    BY <1>0, <1>1 DEF Again!Forgot, Again!Mishap, LoginInv, Again!LoginTypeOK
  <2> QED
    BY <1>1, <2>1, <2>2, LoginBegins DEF Again!Forgot
<1>2. CASE Again!Reset(a)
  <2> DEFINE list == <<[op |-> "use", id |-> Again!Last(resetCodes).id], Again!St("password")>>
  <2>1. Again!Last(resetCodes).id \in Nat
    <3>1. resetCodes \in Seq(ResetCode) /\ resetCodes # <<>>
      BY <1>2 DEF Again!Reset, LoginInv, Again!LoginTypeOK, ResetCode
    <3>2. Again!Last(resetCodes) \in ResetCode
      <4> HIDE DEF ResetCode
      <4> QED
        BY <3>1 DEF Again!Last
    <3> QED
      BY <3>2 DEF ResetCode
  <2>2. list \in LoginWrites
    BY <2>1 DEF LoginWrites, LoginWrite, Again!St
  <2>3. mishaps' \in 0..MaxMishaps
    BY <1>0, <1>2 DEF Again!Reset, Again!Mishap, LoginInv, Again!LoginTypeOK
  <2>4. Again!Begins(a, list) /\ UNCHANGED <<row, resetCodes, knows, signed>>
    BY <1>2 DEF Again!Reset
  <2> HIDE DEF list
  <2> QED
    BY <2>2, <2>3, <2>4, LoginBegins
<1>3. ASSUME NEW right \in BOOLEAN, Again!Login(a, right)
      PROVE  LoginInv'
  <2> DEFINE good == <<Again!St("reset_failed"), Again!St("tokens")>>
             bad == <<[op |-> "count_failed", failed |-> row.failed + 1]>>
  <2>1. good \in LoginWrites
    BY DEF LoginWrites, LoginWrite, Again!St
  <2>2. bad \in LoginWrites
    <3>1. row.failed + 1 \in Nat
      BY DEF LoginInv, Again!LoginTypeOK
    <3> QED
      BY <3>1 DEF LoginWrites, LoginWrite
  <2>3. Again!Begins(a, good) \/ Again!Begins(a, bad)
    BY <1>3 DEF Again!Login
  <2>4. UNCHANGED <<row, resetCodes, knows, signed>>
    BY <1>3 DEF Again!Login
  <2>5. mishaps' \in 0..MaxMishaps
    BY <1>0, <1>3 DEF Again!Login, Again!Mishap, LoginInv, Again!LoginTypeOK
  <2> HIDE DEF good, bad
  <2> QED
    BY <2>1, <2>2, <2>3, <2>4, <2>5, LoginBegins
<1> QED
  BY <1>1, <1>2, <1>3

LEMMA LoginWritesGoOn ==
  ASSUME NEW s \in LoginWrites, s # <<>>
  PROVE  /\ Head(s) \in LoginWrite /\ Tail(s) \in LoginWrites
         /\ \A w \in LoginWrite : <<w>> \o Tail(s) \in LoginWrites
<1>1. s \in Seq(LoginWrite) /\ Len(s) <= 3 /\ s # <<>>
  BY DEF LoginWrites
<1> DEFINE t == Tail(s)
<1>2. Head(s) \in LoginWrite /\ t \in Seq(LoginWrite) /\ Len(t) = Len(s) - 1
  BY <1>1
<1> HIDE DEF t
<1>3. t \in LoginWrites
  <2>1. Len(t) <= 3
    BY <1>1, <1>2
  <2> QED
    BY <1>2, <2>1 DEF LoginWrites
<1>4. ASSUME NEW w \in LoginWrite
      PROVE  <<w>> \o t \in LoginWrites
  <2> DEFINE first == <<w>>
  <2>1. first \in Seq(LoginWrite) /\ Len(first) = 1
    OBVIOUS
  <2> HIDE DEF first
  <2>2. first \o t \in Seq(LoginWrite) /\ Len(first \o t) = Len(first) + Len(t)
    BY <1>2, <2>1, ConcatProperties
  <2>3. Len(first \o t) <= 3
    BY <1>1, <1>2, <2>1, <2>2
  <2>4. first \o t \in LoginWrites
    BY <2>2, <2>3 DEF LoginWrites
  <2> QED
    BY <2>4 DEF first
<1> QED
  BY <1>2, <1>3, <1>4 DEF t

LEMMA CodesLeftAreCodes ==
  ASSUME LoginInv, NEW w \in LoginWrite
  PROVE  Again!CodesLeft(w) \in Seq(ResetCode)
<1>1. resetCodes \in Seq(ResetCode)
  BY DEF LoginInv, Again!LoginTypeOK, ResetCode
<1>2. CASE w.op = "use"
  <2> DEFINE parts == [i \in DOMAIN resetCodes |-> IF resetCodes[i].id = w.id THEN <<>> ELSE <<resetCodes[i]>>]
  <2>1. Len(resetCodes) \in Nat /\ parts \in [1..Len(resetCodes) -> Seq(ResetCode)]
    <3>1. \A i \in 1..Len(resetCodes) : resetCodes[i] \in ResetCode
      BY <1>1
    <3> HIDE DEF ResetCode
    <3> QED
      BY <1>1, <3>1
  <2>2. Again!CodesLeft(w) = FlattenSeq(parts)
    BY <1>2, LoginOperators DEF Again!CodesLeft
  <2> HIDE DEF parts
  <2> QED
    BY <2>1, <2>2, FlattenSeqType
<1>3. CASE w.op = "insert_code"
  <2> DEFINE new == [id |-> Again!NewId, mailed |-> FALSE, expired |-> FALSE]
  <2>1. new \in ResetCode
    BY NewIdIsNat DEF ResetCode
  <2>2. Again!CodesLeft(w) = Append(resetCodes, new)
    BY <1>3 DEF Again!CodesLeft
  <2> HIDE DEF new, ResetCode
  <2> QED
    BY <1>1, <2>1, <2>2
<1>4. CASE w.op \notin {"use", "insert_code"}
  <2>1. Again!CodesLeft(w) = <<>> \/ Again!CodesLeft(w) = resetCodes
    BY <1>4 DEF Again!CodesLeft
  <2>2. <<>> \in Seq(ResetCode)
    OBVIOUS
  <2> QED
    BY <1>1, <2>1, <2>2, Zenon
<1> QED
  BY <1>2, <1>3, <1>4

LEMMA StatementKeeps ==
  ASSUME LoginInv, NEW a \in Attempt, Again!Statement(a)
  PROVE  LoginInv'
<1> DEFINE w == Head(pending[a])
           left == IF w.op = "insert_code" THEN <<[op |-> "mail", id |-> Again!NewId]>> \o Tail(pending[a])
                   ELSE Tail(pending[a])
<1>1. pending[a] \in LoginWrites /\ pending[a] # <<>>
  BY DEF LoginInv, Again!Statement, Again!Waiting
<1>2. w \in LoginWrite /\ left \in LoginWrites
  <2>1. [op |-> "mail", id |-> Again!NewId] \in LoginWrite
    BY NewIdIsNat DEF LoginWrite
  <2> QED
    BY <1>1, <2>1, LoginWritesGoOn
<1>3. /\ row' = Again!RowAfter(w) /\ resetCodes' = Again!CodesLeft(w)
      /\ knows' = (knows \/ w.op = "password")
      /\ signed' = IF w.op = "tokens" THEN "in" ELSE signed
      /\ pending' = [pending EXCEPT ![a] = left] /\ UNCHANGED mishaps
  BY DEF Again!Statement
<1> HIDE DEF w, left
<1>4. row' \in [status : {"ACTIVE", "DISABLED", "PASSWORD_RESET_REQUIRED"},
                failed : Nat, locked : BOOLEAN]
  <2>1. row \in [status : {"ACTIVE", "DISABLED", "PASSWORD_RESET_REQUIRED"},
                 failed : Nat, locked : BOOLEAN]
    BY DEF LoginInv, Again!LoginTypeOK
  <2>2. CASE w.op \in {"reset_failed", "password"}
    <3>1. row' = [row EXCEPT !.failed = 0, !.locked = FALSE]
      BY <1>3, <2>2 DEF Again!RowAfter
    <3> QED
      BY <2>1, <3>1
  <2>3. CASE w.op = "count_failed"
    <3>1. w.failed \in Nat
      BY <1>2, <2>3 DEF LoginWrite
    <3>2. row' = [row EXCEPT !.failed = w.failed, !.locked = @ \/ w.failed >= login_max_failed_attempts]
      BY <1>3, <2>3 DEF Again!RowAfter
    <3> QED
      BY <2>1, <3>1, <3>2
  <2>4. CASE w.op \notin {"reset_failed", "password", "count_failed"}
    BY <1>3, <2>1, <2>4 DEF Again!RowAfter
  <2> QED
    BY <2>2, <2>3, <2>4
<1>5. resetCodes' \in Seq(ResetCode)
  BY <1>2, <1>3, CodesLeftAreCodes
<1>6. knows' \in BOOLEAN /\ signed' \in {"in", "stale", "out"} /\ mishaps' \in 0..MaxMishaps
  BY <1>3 DEF LoginInv, Again!LoginTypeOK
<1>7. pending' \in [Attempt -> LoginWrites]
  BY <1>2, <1>3 DEF LoginInv
<1>8. \A b \in Attempt : Len(pending'[b]) <= 3
  BY <1>7 DEF LoginWrites
<1> QED
  BY <1>4, <1>5, <1>6, <1>7, <1>8 DEF LoginInv, Again!LoginTypeOK, ResetCode

LEMMA LoginRestKeeps ==
  ASSUME LoginInv,
         \/ \E a \in Attempt : Again!Cut(a) \/ \E b \in BOOLEAN : Again!Send(a, b)
         \/ Again!Refresh \/ Again!Forgets \/ Again!LockEnds \/ Again!CodesExpire \/ Again!TokensExpire
         \/ Again!SetStatus
  PROVE  LoginInv'
<1>0. /\ \A i \in 1..Len(resetCodes) : resetCodes[i] \in ResetCode
      /\ resetCodes \in Seq(ResetCode) /\ DOMAIN resetCodes = 1..Len(resetCodes) /\ Len(resetCodes) \in Nat
      /\ MaxMishaps \in Nat
  <2>1. resetCodes \in Seq(ResetCode)
    BY DEF LoginInv, Again!LoginTypeOK, ResetCode
  <2>2. MaxMishaps \in Nat
    BY AccessAssumption
  <2>3. /\ \A i \in 1..Len(resetCodes) : resetCodes[i] \in ResetCode
        /\ DOMAIN resetCodes = 1..Len(resetCodes) /\ Len(resetCodes) \in Nat
    BY <2>1
  <2> QED
    BY <2>1, <2>2, <2>3
<1>1. ASSUME NEW a \in Attempt, Again!Cut(a)
      PROVE  LoginInv'
  <2>1. <<>> \in LoginWrites
    BY DEF LoginWrites
  <2>2. pending' \in [Attempt -> LoginWrites]
    BY <1>1, <2>1 DEF Again!Cut, LoginInv
  <2>3. \A b \in Attempt : Len(pending'[b]) <= 3
    BY <2>2 DEF LoginWrites
  <2>4. mishaps' \in 0..MaxMishaps
    BY <1>0, <1>1 DEF Again!Cut, Again!Mishap, LoginInv, Again!LoginTypeOK
  <2> QED
    BY <1>1, <2>2, <2>3, <2>4 DEF Again!Cut, LoginInv, Again!LoginTypeOK
<1>2. ASSUME NEW a \in Attempt, NEW sent \in BOOLEAN, Again!Send(a, sent)
      PROVE  LoginInv'
  <2>1. Tail(pending[a]) \in LoginWrites
    BY <1>2, LoginWritesGoOn DEF Again!Send, Again!Waiting, LoginInv
  <2>2. pending' \in [Attempt -> LoginWrites]
    BY <1>2, <2>1 DEF Again!Send, LoginInv
  <2>3. \A b \in Attempt : Len(pending'[b]) <= 3
    BY <2>2 DEF LoginWrites
  <2> DEFINE id == Head(pending[a]).id
  <2>4. resetCodes' = [i \in DOMAIN resetCodes |->
                         [resetCodes[i] EXCEPT !.mailed = @ \/ (sent /\ resetCodes[i].id = id)]]
    BY <1>2 DEF Again!Send
  <2> HIDE DEF id
  <2>5. \A c \in ResetCode : [c EXCEPT !.mailed = @ \/ (sent /\ c.id = id)] \in ResetCode
    BY DEF ResetCode
  <2>6. resetCodes' \in Seq(ResetCode)
    <3> HIDE DEF ResetCode
    <3> QED
      BY <1>0, <2>4, <2>5
  <2> QED
    BY <1>2, <2>2, <2>3, <2>6 DEF Again!Send, LoginInv, Again!LoginTypeOK, ResetCode
<1>3. CASE Again!CodesExpire
  <2>1. \A c \in ResetCode : [c EXCEPT !.expired = TRUE] \in ResetCode
    BY DEF ResetCode
  <2>2. resetCodes' = [i \in DOMAIN resetCodes |-> [resetCodes[i] EXCEPT !.expired = TRUE]]
    BY <1>3 DEF Again!CodesExpire
  <2>3. resetCodes' \in Seq(ResetCode)
    <3> HIDE DEF ResetCode
    <3> QED
      BY <1>0, <2>1, <2>2
  <2> QED
    BY <1>3, <2>3 DEF Again!CodesExpire, LoginInv, Again!LoginTypeOK, ResetCode
<1>4. CASE Again!Refresh \/ Again!TokensExpire
  <2>1. signed' \in {"in", "stale", "out"}
    BY <1>4 DEF Again!Refresh, Again!TokensExpire
  <2>2. UNCHANGED <<row, resetCodes, pending, knows, mishaps>>
    BY <1>4 DEF Again!Refresh, Again!TokensExpire
  <2> QED
    BY <2>1, <2>2 DEF LoginInv, Again!LoginTypeOK
<1>5. CASE Again!LockEnds \/ Again!SetStatus
  <2>1. row' \in [status : {"ACTIVE", "DISABLED", "PASSWORD_RESET_REQUIRED"},
                  failed : Nat, locked : BOOLEAN]
    BY <1>5 DEF Again!LockEnds, Again!SetStatus, LoginInv, Again!LoginTypeOK
  <2>2. UNCHANGED <<resetCodes, pending, knows, signed>>
    BY <1>5 DEF Again!LockEnds, Again!SetStatus
  <2>3. mishaps' \in 0..MaxMishaps
    BY <1>0, <1>5 DEF Again!LockEnds, Again!SetStatus, Again!Mishap, LoginInv, Again!LoginTypeOK
  <2> QED
    BY <2>1, <2>2, <2>3 DEF LoginInv, Again!LoginTypeOK
<1>6. CASE Again!Forgets
  <2>1. mishaps' \in 0..MaxMishaps /\ knows' = FALSE /\ UNCHANGED <<row, resetCodes, pending, signed>>
    BY <1>0, <1>6 DEF Again!Forgets, Again!Mishap, LoginInv, Again!LoginTypeOK
  <2> QED
    BY <2>1 DEF LoginInv, Again!LoginTypeOK
<1> QED
  BY <1>1, <1>2, <1>3, <1>4, <1>5, <1>6

LEMMA LoginKept ==
  ASSUME LoginInv, [Again!LoginNext]_loginVars
  PROVE  LoginInv'
<1>1. CASE UNCHANGED loginVars
  BY <1>1 DEF loginVars, LoginInv, Again!LoginTypeOK
<1> QED
  BY <1>1, LoginRequestKeeps, StatementKeeps, LoginRestKeeps DEF Again!LoginNext

LEMMA LoginInitInv ==
  ASSUME Again!LoginInit
  PROVE  LoginInv
<1>1. <<>> \in LoginWrites
  BY DEF LoginWrites
<1>2. pending \in [Attempt -> LoginWrites] /\ \A a \in Attempt : Len(pending[a]) <= 3
  BY <1>1 DEF Again!LoginInit
<1>3. resetCodes \in Seq(ResetCode)
  BY DEF Again!LoginInit
<1> QED
  BY <1>2, <1>3, AccessAssumption DEF Again!LoginInit, LoginInv, Again!LoginTypeOK, ResetCode

-----------------------------------------------------------------------------
(* The parts together.                                                     *)

\* Every part keeps its own invariant: only the part in focus moves, by a step of its own.
LEMMA PartMoves ==
  ASSUME [Next]_vars
  PROVE  /\ [Ten!TenancyNext]_tenancyVars /\ [Sign!SignNext]_signVars /\ [Again!LoginNext]_loginVars
         /\ UNCHANGED focus
BY DEF Next, vars, OnlyFocus

AccessInv == focus \in Parts /\ TenancyInv /\ SignInv /\ NavInv /\ LoginInv

\* TypeOK of MCAccess: for any accounts, users, administrators, requests and limits, rows refer
\* to rows or to nothing and an account or a user to an organization that exists, no request has
\* more to write than it began with, ids stay numbers, and without a user there are neither
\* codes nor roles, however requests interleave, stop and fail.
THEOREM AccessTypes == Spec => []TypeOK
<1>1. Init => AccessInv
  BY TenancyInitInv, SignInitInv, NavInitInv, LoginInitInv DEF Init, AccessInv
<1>2. AccessInv /\ [Next]_vars => AccessInv'
  <2> SUFFICES ASSUME AccessInv, [Next]_vars
               PROVE  AccessInv'
    OBVIOUS
  <2>1. TenancyInv' /\ SignInv' /\ LoginInv' /\ focus' \in Parts
    BY PartMoves, TenancyKept, SignKept, LoginKept DEF AccessInv
  <2>2. NavInv'
    BY NavKept, NavMoves DEF AccessInv
  <2> QED
    BY <2>1, <2>2 DEF AccessInv
<1>3. AccessInv => TypeOK
  BY DEF AccessInv, TypeOK, TenancyInv, SignInv, NavInv, LoginInv
<1> QED
  BY <1>1, <1>2, <1>3, PTL DEF Spec
=============================================================================
