---------------------------- MODULE ServicesProofs ----------------------------
(***************************************************************************)
(* Two of the parts that MCServices checks, for every value of their       *)
(* constants: the queues of a corpus serve what was asked for, and the     *)
(* events of a check are a chain.                                          *)
(***************************************************************************)
EXTENDS QueueConfig, HealthChecks, SequenceTheorems, FiniteSetTheorems, TLAPS

-----------------------------------------------------------------------------
(* The queues of a corpus.                                                 *)

\* kb_queue_groups.DEFAULT_QUEUE_GROUPS are well-formed groups under stripped keys, none of
\* them with an imported document (kbdoc-...); a patch is a dict.
QueueConstants ==
  /\ IsConfig(DefaultGroups)
  /\ Valid(DefaultGroups) = DOMAIN DefaultGroups /\ DOMAIN DefaultGroups # {}
  /\ \A r \in DOMAIN DefaultGroups : DefaultGroups[r].verticals \subseteq Other
  /\ Document \cap Other = {}
  /\ \A groups \in Patches : IsConfig(groups)

\* _catalog_index finds one key for every queue of the catalog.
LEMMA IndexedWins ==
  ASSUME NEW groups, IsConfig(groups), NEW name \in Catalog(groups)
  PROVE  /\ Wins(groups, Indexed(groups, name), name)
         /\ Indexed(groups, name) \in DOMAIN groups
         /\ \A r : Wins(groups, r, name) => r = Indexed(groups, name)
<1>1. \E r \in DOMAIN groups : Wins(groups, r, name)
  BY DEF IsConfig
<1>2. Wins(groups, Indexed(groups, name), name) /\ Indexed(groups, name) \in DOMAIN groups
  BY <1>1 DEF Indexed
<1>3. ASSUME NEW r, NEW s, Wins(groups, r, name), Wins(groups, s, name)
      PROVE  r = s
  <2>1. r \in DOMAIN groups /\ s \in DOMAIN groups
    BY <1>3 DEF Wins, Valid
  <2>2. groups[r].place \in Int /\ groups[s].place \in Int
    BY <2>1 DEF IsConfig, Group
  <2> QED
    BY <1>3, <2>2 DEF Wins
<1> QED
  BY <1>2, <1>3

\* A transform that leaves keys, forms and places alone leaves the catalog alone.
LEMMA SameIndex ==
  ASSUME NEW groups, NEW after, IsConfig(groups),
         DOMAIN after = DOMAIN groups, after \in [DOMAIN groups -> Group],
         \A r \in DOMAIN groups : /\ after[r].usable = groups[r].usable
                                  /\ after[r].place = groups[r].place
  PROVE  /\ IsConfig(after)
         /\ Valid(after) = Valid(groups)
         /\ Catalog(after) = Catalog(groups)
         /\ \A name \in Catalog(groups) : Indexed(after, name) = Indexed(groups, name)
<1>1. Valid(after) = Valid(groups)
  BY DEF Valid
<1>2. Catalog(after) = Catalog(groups)
  BY <1>1 DEF Catalog
<1>3. ASSUME NEW r, NEW name
      PROVE  Wins(after, r, name) <=> Wins(groups, r, name)
  BY <1>1 DEF Wins, Valid
<1>4. IsConfig(after)
  BY <1>2, <1>3 DEF IsConfig
<1>5. ASSUME NEW name \in Catalog(groups)
      PROVE  Indexed(after, name) = Indexed(groups, name)
  <2>1. Wins(after, Indexed(after, name), name)
    BY <1>2, <1>4, IndexedWins
  <2> QED
    BY <1>3, <2>1, IndexedWins
<1> QED
  BY <1>1, <1>2, <1>4, <1>5

\* Materializing the defaults changes nothing that chats are served.
LEMMA EnsureServesTheSame ==
  ASSUME QueueConstants, NEW groups, IsConfig(groups)
  PROVE  /\ IsConfig(EnsureQueueGroups(groups))
         /\ Valid(EnsureQueueGroups(groups)) # {}
         /\ Catalog(EnsureQueueGroups(groups)) = Catalog(Readable(groups))
         /\ \A name \in Catalog(Readable(groups)) :
              EnsureQueueGroups(groups)[Indexed(EnsureQueueGroups(groups), name)]
                = Readable(groups)[Indexed(Readable(groups), name)]
<1>1. CASE Valid(groups) # {}
  BY <1>1 DEF EnsureQueueGroups, Readable
<1>2. CASE Valid(groups) = {}
  <2> DEFINE all == EnsureQueueGroups(groups)
  <2>0. Readable(groups) = DefaultGroups
    BY <1>2 DEF Readable
  <2>1. all = [r \in DOMAIN groups \cup DOMAIN DefaultGroups |->
                 IF r \in DOMAIN DefaultGroups THEN DefaultGroups[r] ELSE groups[r]]
    BY <1>2 DEF EnsureQueueGroups
  <2>2. /\ DOMAIN all = DOMAIN groups \cup DOMAIN DefaultGroups
        /\ \A r \in DOMAIN DefaultGroups : all[r] = DefaultGroups[r]
        /\ \A r \in DOMAIN groups \ DOMAIN DefaultGroups : all[r] = groups[r]
    BY <2>1
  <2>3. DOMAIN all \subseteq Raw /\ all \in [DOMAIN all -> Group]
    BY <2>1, <2>2 DEF IsConfig, QueueConstants
  <2> HIDE DEF all
  <2>4. Valid(all) = Valid(DefaultGroups)
    BY <1>2, <2>2 DEF Valid, QueueConstants
  <2>5. ASSUME NEW r, NEW name
        PROVE  Wins(all, r, name) <=> Wins(DefaultGroups, r, name)
    BY <2>2, <2>4 DEF Wins, QueueConstants
  <2>6. Catalog(all) = Catalog(DefaultGroups)
    BY <2>4 DEF Catalog
  <2>7. IsConfig(all)
    BY <2>2, <2>3, <2>5, <2>6 DEF IsConfig, QueueConstants
  <2>8. ASSUME NEW name \in Catalog(DefaultGroups)
        PROVE  all[Indexed(all, name)] = DefaultGroups[Indexed(DefaultGroups, name)]
    <3>1. Wins(all, Indexed(all, name), name)
      BY <2>6, <2>7, IndexedWins
    <3>2. Indexed(all, name) = Indexed(DefaultGroups, name)
      BY <2>5, <3>1, IndexedWins DEF QueueConstants
    <3>3. Indexed(DefaultGroups, name) \in DOMAIN DefaultGroups
      BY IndexedWins DEF QueueConstants
    <3> QED
      BY <2>2, <3>2, <3>3
  <2> QED
    BY <2>0, <2>4, <2>6, <2>7, <2>8 DEF all, QueueConstants
<1> QED
  BY <1>1, <1>2

\* What set_vertical_queues promises: the vertical is served in exactly the queues given, and
\* no queue and no other vertical is touched.
LEMMA SetServesAsAsked ==
  ASSUME QueueConstants, NEW groups, IsConfig(groups), NEW v \in Document,
         NEW names \in SUBSET Catalog(EnsureQueueGroups(groups))
  PROVE  /\ IsConfig(SetVerticalQueues(groups, v, names))
         /\ Serves(SetVerticalQueues(groups, v, names)) =
              [n \in DOMAIN Serves(groups) |->
                 IF n \in names THEN Serves(groups)[n] \cup {v} ELSE Serves(groups)[n] \ {v}]
<1> DEFINE all == EnsureQueueGroups(groups)
           selected == {Indexed(all, name) : name \in names}
           after == SetVerticalQueues(groups, v, names)
<1>1. /\ IsConfig(all) /\ Valid(all) # {} /\ Catalog(all) = Catalog(Readable(groups))
      /\ \A name \in Catalog(all) :
           all[Indexed(all, name)] = Readable(groups)[Indexed(Readable(groups), name)]
  BY EnsureServesTheSame
<1>2. after = [r \in DOMAIN all |->
         IF ~all[r].usable THEN all[r]
         ELSE [all[r] EXCEPT !.verticals = IF r \in selected THEN @ \cup {v} ELSE @ \ {v}]]
  BY DEF SetVerticalQueues
<1> HIDE DEF all, after
<1>3. \A r \in DOMAIN all : all[r] \in Group
  BY <1>1 DEF IsConfig
<1>4. ASSUME NEW r \in DOMAIN all
      PROVE  /\ after[r] \in Group
             /\ after[r].usable = all[r].usable /\ after[r].place = all[r].place
             /\ all[r].usable => after[r].verticals =
                  IF r \in selected THEN all[r].verticals \cup {v} ELSE all[r].verticals \ {v}
  BY <1>2, <1>3 DEF Group
<1>5. DOMAIN after = DOMAIN all /\ after \in [DOMAIN all -> Group]
  BY <1>2, <1>4
<1>6. /\ IsConfig(after) /\ Valid(after) = Valid(all) /\ Catalog(after) = Catalog(all)
      /\ \A name \in Catalog(all) : Indexed(after, name) = Indexed(all, name)
  BY <1>1, <1>4, <1>5, SameIndex
<1>7. Serves(after) = [n \in Catalog(all) |-> after[Indexed(all, n)].verticals]
  BY <1>1, <1>6 DEF Serves, Readable
<1>8. Serves(groups) = [n \in Catalog(all) |-> all[Indexed(all, n)].verticals]
  BY <1>1 DEF Serves
<1>9. ASSUME NEW n \in Catalog(all)
      PROVE  after[Indexed(all, n)].verticals =
               IF n \in names THEN all[Indexed(all, n)].verticals \cup {v}
               ELSE all[Indexed(all, n)].verticals \ {v}
  <2>1. Wins(all, Indexed(all, n), n) /\ Indexed(all, n) \in DOMAIN all
    BY <1>1, IndexedWins
  <2>2. all[Indexed(all, n)].usable /\ NameOf[Indexed(all, n)] = n
    BY <2>1 DEF Wins, Valid
  <2>3. ASSUME NEW m \in names, Indexed(all, m) = Indexed(all, n)
        PROVE  m = n
    <3>1. Wins(all, Indexed(all, m), m)
      BY <1>1, IndexedWins DEF all
    <3> QED
      BY <2>2, <2>3, <3>1 DEF Wins
  <2>4. Indexed(all, n) \in selected <=> n \in names
    BY <2>3
  <2> QED
    BY <1>4, <2>1, <2>2, <2>4
<1> QED
  BY <1>6, <1>7, <1>8, <1>9 DEF after

\* What remove_vertical promises.
LEMMA RemoveServesTheRest ==
  ASSUME QueueConstants, NEW groups, IsConfig(groups), NEW v \in Document
  PROVE  /\ IsConfig(RemoveVertical(groups, v))
         /\ Serves(RemoveVertical(groups, v)) =
              [n \in DOMAIN Serves(groups) |-> Serves(groups)[n] \ {v}]
<1> DEFINE after == RemoveVertical(groups, v)
<1>1. after = [r \in DOMAIN groups |->
         IF groups[r].usable THEN [groups[r] EXCEPT !.verticals = @ \ {v}] ELSE groups[r]]
  BY DEF RemoveVertical
<1> HIDE DEF after
<1>2. \A r \in DOMAIN groups : groups[r] \in Group
  BY DEF IsConfig
<1>3. ASSUME NEW r \in DOMAIN groups
      PROVE  /\ after[r] \in Group
             /\ after[r].usable = groups[r].usable /\ after[r].place = groups[r].place
             /\ groups[r].usable => after[r].verticals = groups[r].verticals \ {v}
  BY <1>1, <1>2 DEF Group
<1>4. DOMAIN after = DOMAIN groups /\ after \in [DOMAIN groups -> Group]
  BY <1>1, <1>3
<1>5. /\ IsConfig(after) /\ Valid(after) = Valid(groups) /\ Catalog(after) = Catalog(groups)
      /\ \A name \in Catalog(groups) : Indexed(after, name) = Indexed(groups, name)
  BY <1>3, <1>4, SameIndex
<1>6. CASE Valid(groups) # {}
  <2>1. /\ Serves(after) = [n \in Catalog(groups) |-> after[Indexed(groups, n)].verticals]
        /\ Serves(groups) = [n \in Catalog(groups) |-> groups[Indexed(groups, n)].verticals]
    BY <1>5, <1>6 DEF Serves, Readable
  <2>2. ASSUME NEW n \in Catalog(groups)
        PROVE  after[Indexed(groups, n)].verticals = groups[Indexed(groups, n)].verticals \ {v}
    <3>1. Wins(groups, Indexed(groups, n), n) /\ Indexed(groups, n) \in DOMAIN groups
      BY IndexedWins
    <3> QED
      BY <1>3, <3>1 DEF Wins, Valid
  <2> QED
    BY <1>5, <2>1, <2>2 DEF after
<1>7. CASE Valid(groups) = {}
  <2>1. Serves(after) = Serves(groups)
    BY <1>5, <1>7 DEF Serves, Readable
  <2>2. ASSUME NEW n \in DOMAIN Serves(groups)
        PROVE  v \notin Serves(groups)[n]
    <3>1. n \in Catalog(DefaultGroups)
          /\ Serves(groups)[n] = DefaultGroups[Indexed(DefaultGroups, n)].verticals
      BY <1>7 DEF Serves, Readable
    <3>2. Indexed(DefaultGroups, n) \in DOMAIN DefaultGroups
      BY <3>1, IndexedWins DEF QueueConstants
    <3> QED
      BY <3>1, <3>2 DEF QueueConstants
  <2>3. \A n \in DOMAIN Serves(groups) : Serves(groups)[n] = Serves(groups)[n] \ {v}
    BY <2>2
  <2>4. Serves(groups) = [n \in DOMAIN Serves(groups) |-> Serves(groups)[n]]
    BY DEF Serves
  <2> QED
    BY <1>5, <2>1, <2>3, <2>4 DEF after
<1> QED
  BY <1>6, <1>7

QueueInv == QueueTypeOK /\ ServedAsAsked

LEMMA QueueInvariant == QueueConstants => (QueueSpec => []QueueInv)
<1> SUFFICES ASSUME QueueConstants
             PROVE  QueueSpec => []QueueInv
  OBVIOUS
<1>1. QueueInit => QueueInv
  BY DEF QueueInit, QueueInv, QueueTypeOK, ServedAsAsked
<1>2. ASSUME QueueInv, [QueueNext]_queueVars
      PROVE  QueueInv'
  <2> USE <1>2 DEF QueueInv, QueueTypeOK, ServedAsAsked
  <2>1. CASE ReadForPatch
    BY <2>1 DEF ReadForPatch
  <2>2. CASE WritePatch
    <3>1. IsConfig(queues') /\ seen' = NoConfig /\ served' = Serves(queues')
      BY <2>2 DEF WritePatch, QueueConstants
    <3> QED
      BY <3>1
  <2>3. ASSUME NEW v \in Document, Withdraw(v)
        PROVE  QueueInv'
    <3>1. queues' = RemoveVertical(queues, v) /\ seen' = seen
          /\ served' = [n \in DOMAIN Serves(queues) |-> Serves(queues)[n] \ {v}]
      BY <2>3 DEF Withdraw
    <3>2. IsConfig(queues') /\ Serves(queues') = served'
      BY <3>1, RemoveServesTheRest
    <3> QED
      BY <3>1, <3>2
  <2>4. ASSUME NEW v \in Document, NEW names \in SUBSET Catalog(EnsureQueueGroups(queues)),
               Offer(v, names)
        PROVE  QueueInv'
    <3>1. queues' = SetVerticalQueues(queues, v, names) /\ seen' = seen
          /\ served' = [n \in DOMAIN Serves(queues) |->
               IF n \in names THEN Serves(queues)[n] \cup {v} ELSE Serves(queues)[n] \ {v}]
      BY <2>4 DEF Offer
    <3>2. IsConfig(queues') /\ Serves(queues') = served'
      BY <3>1, SetServesAsAsked
    <3> QED
      BY <3>1, <3>2
  <2>5. CASE UNCHANGED queueVars
    BY <2>5 DEF queueVars
  <2> QED
    BY <2>1, <2>2, <2>3, <2>4, <2>5 DEF QueueNext
<1> QED
  BY <1>1, <1>2, PTL DEF QueueSpec

\* ServedAsAsked, for every configuration a corpus may have and every sequence of requests and
\* patches: chats are served in each queue what was last asked for it.
THEOREM QueuesServeAsAsked == QueueConstants => (QueueSpec => []ServedAsAsked)
<1>1. QueueInv => ServedAsAsked
  BY DEF QueueInv
<1> QED
  BY <1>1, QueueInvariant, PTL

-----------------------------------------------------------------------------
(* Health checks.                                                          *)

\* HEALTH_COMPONENTS, of which any may be looked at.
HealthConstants ==
  Component \subseteq {"database", "embedding", "extraction", "knowledge_sync", "microsoft_graph", "crm"}

Finding == UNION {[found -> Statuses] : found \in SUBSET Component}
Run == [at : {"idle", "probe", "store"}, left : SUBSET Component, found : Finding, started : Nat]
CheckRow == [status : Statuses \cup {Never}, checked : Nat, failures : Nat]
EventRow == [component : Component, old : Statuses \cup {Never}, new : Statuses]

\* The types, and what a run still has to store it has found.
HealthTypes ==
  /\ running \in [Backend -> Run] /\ runs \in Nat
  /\ checks \in [Component -> CheckRow]
  /\ events \in Seq(EventRow)

FoundFirst ==
  \A b \in Backend :
    running[b].at = "store" => running[b].left \subseteq DOMAIN running[b].found

HealthInv == HealthTypes /\ FoundFirst /\ EventsChain

\* Every probe comes to a verdict.
LEMMA VerdictIsStatus ==
  ASSUME HealthConstants, NEW c \in Component
  PROVE  Verdict(c) \in Statuses
<1>1. \A first, setUp, then : Judge(first, setUp, then) \in Statuses
  BY DEF Judge, Statuses
<1>2. /\ DatabaseCheck \in Statuses /\ EmbeddingCheck \in Statuses /\ ExtractionCheck \in Statuses
      /\ KnowledgeSyncCheck \in Statuses /\ GraphCheck \in Statuses /\ CrmCheck \in Statuses
  BY <1>1 DEF DatabaseCheck, EmbeddingCheck, ExtractionCheck, KnowledgeSyncCheck, GraphCheck, CrmCheck
<1> QED
  BY <1>2 DEF HealthConstants, Verdict

\* A run that ends, or has stored one of its results.
LEMMA IdleIsRun == Idle \in Run
<1>1. Idle.found \in Finding
  <2>1. Idle.found \in [{} -> Statuses]
    BY DEF Idle
  <2> QED
    BY <2>1 DEF Finding
<1> QED
  BY <1>1 DEF Idle, Run

LEMMA AdvanceKeeps ==
  ASSUME running \in [Backend -> Run], FoundFirst, NEW b \in Backend, NEW c, Advance(b, c)
  PROVE  running' \in [Backend -> Run] /\ FoundFirst'
<1>1. CASE running[b].left = {c}
  <2>1. running' = [running EXCEPT ![b] = Idle]
    BY <1>1 DEF Advance
  <2>2. running' \in [Backend -> Run]
    BY <2>1, IdleIsRun
  <2> QED
    BY <2>1, <2>2 DEF FoundFirst, Idle
<1>2. CASE running[b].left # {c}
  <2>1. running' = [running EXCEPT ![b].left = @ \ {c}]
    BY <1>2 DEF Advance
  <2>2. running[b] \in Run
    OBVIOUS
  <2>3. [running[b] EXCEPT !.left = @ \ {c}] \in Run
    BY <2>2 DEF Run
  <2>4. running' = [running EXCEPT ![b] = [running[b] EXCEPT !.left = @ \ {c}]]
    BY <2>1
  <2>5. running' \in [Backend -> Run]
    BY <2>3, <2>4
  <2>6. ASSUME NEW a \in Backend, running'[a].at = "store"
        PROVE  running'[a].left \subseteq DOMAIN running'[a].found
    <3>1. CASE a = b
      <4>1. /\ running'[a].left \subseteq running[a].left /\ running'[a].at = running[a].at
            /\ running'[a].found = running[a].found
        BY <2>2, <2>4, <3>1 DEF Run
      <4> QED
        BY <2>6, <4>1 DEF FoundFirst
    <3>2. CASE a # b
      BY <2>4, <2>6, <3>2 DEF FoundFirst
    <3> QED
      BY <3>1, <3>2
  <2> QED
    BY <2>5, <2>6 DEF FoundFirst
<1> QED
  BY <1>1, <1>2

\* A changed status and its event lengthen the chain of the component, and of no other.
LEMMA StoreLengthensChain ==
  ASSUME HealthTypes, EventsChain, NEW c \in Component, NEW status \in Statuses, NEW started,
         Stored(c, status, started),
         events' = IF checks[c].status = status THEN events
                   ELSE Append(events, Event(c, checks[c].status, status))
  PROVE  EventsChain'
<1>1. /\ checks'[c].status = status
      /\ \A d \in Component \ {c} : checks'[d] = checks[d]
      /\ status # Never
  BY DEF Stored, HealthTypes, CheckRow, Statuses, Never, HEALTHY, FAILED, NOT_CONFIGURED
<1>2. CASE checks[c].status = status
  <2>1. \A d \in Component : EventsOf(d)' = EventsOf(d) /\ checks'[d].status = checks[d].status
    BY <1>1, <1>2 DEF EventsOf
  <2> QED
    BY <1>2, <2>1 DEF EventsChain, Chained
<1>3. CASE checks[c].status # status
  <2> DEFINE n == Len(events) + 1
             event == Event(c, checks[c].status, status)
  <2>1. /\ Len(events) \in Nat /\ DOMAIN events = 1 .. Len(events)
        /\ DOMAIN events' = 1 .. n /\ events'[n] = event
        /\ \A i \in 1 .. Len(events) : events'[i] = events[i]
    BY <1>3 DEF HealthTypes
  <2>2. event.component = c /\ event.old = checks[c].status /\ event.new = status
    BY DEF Event
  <2>3. \A d \in Component \ {c} : EventsOf(d)' = EventsOf(d)
    BY <2>1, <2>2 DEF EventsOf
  <2>4. EventsOf(c)' = EventsOf(c) \cup {n} /\ \A d \in Component : \A i \in EventsOf(d) : i \in 1 .. Len(events) /\ i < n
    BY <2>1, <2>2 DEF EventsOf
  <2> HIDE DEF n, event
  <2>5. ASSUME NEW d \in Component \ {c}
        PROVE  Chained(d)'
    <3>1. /\ EventsOf(d)' = EventsOf(d) /\ checks'[d].status = checks[d].status
          /\ \A i \in EventsOf(d) : events'[i] = events[i]
      BY <1>1, <2>1, <2>3, <2>4
    <3>2. Chained(d)
      BY DEF EventsChain
    <3>3. EventsOf(d)' = {} <=> checks'[d].status = Never
      BY <3>1, <3>2 DEF Chained
    <3>4. ASSUME NEW i \in EventsOf(d)'
          PROVE  /\ events'[i].old # events'[i].new
                 /\ (\A j \in EventsOf(d)' : i <= j) => events'[i].old = Never
                 /\ (\A j \in EventsOf(d)' : j <= i) => events'[i].new = checks'[d].status
      <4>1. i \in EventsOf(d) /\ events'[i] = events[i]
        BY <3>1
      <4>2. /\ events[i].old # events[i].new
            /\ (\A j \in EventsOf(d) : i <= j) => events[i].old = Never
            /\ (\A j \in EventsOf(d) : j <= i) => events[i].new = checks[d].status
        BY <3>2, <4>1 DEF Chained
      <4> QED
        BY <3>1, <4>1, <4>2
    <3>5. ASSUME NEW i \in EventsOf(d)', NEW k \in EventsOf(d)', i < k,
                 \A j \in EventsOf(d)' : j <= i \/ k <= j
          PROVE  events'[k].old = events'[i].new
      <4>1. /\ i \in EventsOf(d) /\ events'[i] = events[i]
            /\ k \in EventsOf(d) /\ events'[k] = events[k]
            /\ \A j \in EventsOf(d) : j <= i \/ k <= j
        BY <3>1, <3>5
      <4>2. events[k].old = events[i].new
        BY <3>2, <3>5, <4>1 DEF Chained
      <4> QED
        BY <4>1, <4>2
    <3> QED
      BY <3>3, <3>4, <3>5 DEF Chained
  <2>6. \A i \in EventsOf(c) : events'[i] = events[i] /\ i < n /\ i \in Nat
    BY <2>1, <2>4
  <2>7. n \in Nat
    BY <2>1 DEF n
  <2>8. EventsOf(c)' = {} <=> checks'[c].status = Never
    BY <1>1, <2>4
  <2>9. ASSUME NEW i \in EventsOf(c)'
        PROVE  /\ events'[i].old # events'[i].new
               /\ (\A j \in EventsOf(c)' : i <= j) => events'[i].old = Never
               /\ (\A j \in EventsOf(c)' : j <= i) => events'[i].new = checks'[c].status
    <3>1. CASE i = n
      <4>1. (\A j \in EventsOf(c)' : i <= j) => EventsOf(c) = {}
        BY <2>4, <2>6, <2>7, <3>1
      <4>2. EventsOf(c) = {} => checks[c].status = Never
        BY DEF EventsChain, Chained
      <4> QED
        BY <1>1, <1>3, <2>1, <2>2, <3>1, <4>1, <4>2
    <3>2. CASE i # n
      <4>1. i \in EventsOf(c) /\ n \in EventsOf(c)' /\ ~(n <= i)
        BY <2>4, <2>6, <2>7, <3>2
      <4>2. (\A j \in EventsOf(c)' : i <= j) => \A j \in EventsOf(c) : i <= j
        BY <2>4
      <4> QED
        BY <2>6, <4>1, <4>2 DEF EventsChain, Chained
    <3> QED
      BY <3>1, <3>2
  <2>10. ASSUME NEW i \in EventsOf(c)', NEW k \in EventsOf(c)', i < k,
                \A j \in EventsOf(c)' : j <= i \/ k <= j
         PROVE  events'[k].old = events'[i].new
    <3>1. i \in EventsOf(c)
      BY <2>4, <2>6, <2>7, <2>10
    <3>2. CASE k = n
      <4>1. \A j \in EventsOf(c) : j <= i
        BY <2>4, <2>6, <2>7, <2>10, <3>2
      <4>2. events[i].new = checks[c].status
        BY <3>1, <4>1 DEF EventsChain, Chained
      <4> QED
        BY <2>1, <2>2, <2>6, <3>1, <3>2, <4>2
    <3>3. CASE k # n
      <4>1. k \in EventsOf(c) /\ \A j \in EventsOf(c) : j <= i \/ k <= j
        BY <2>4, <2>10, <3>3
      <4>2. events[k].old = events[i].new
        BY <2>10, <3>1, <4>1 DEF EventsChain, Chained
      <4> QED
        BY <2>6, <3>1, <4>1, <4>2
    <3> QED
      BY <3>2, <3>3
  <2>11. Chained(c)'
    BY <2>8, <2>9, <2>10 DEF Chained
  <2> QED
    BY <2>5, <2>11 DEF EventsChain
<1> QED
  BY <1>2, <1>3

\* What a run does before it stores, and what ends one, touches no history.
LEMMA RunKeepsChain ==
  ASSUME HealthConstants, HealthInv, NEW b \in Backend,
         \/ Interrupt(b) \/ IntervalOver(b)
         \/ \E asked \in {Component} \cup {{c} : c \in Component} : StartRun(b, asked)
         \/ \E c \in Component : Probe(b, c) \/ LoseStore(b, c)
  PROVE  HealthInv'
<1> USE DEF HealthInv
<1>0. UNCHANGED <<checks, events>>
  BY DEF Interrupt, IntervalOver, StartRun, Probe, LoseStore
<1>1. EventsChain'
  <2>1. \A c \in Component : EventsOf(c)' = EventsOf(c)
    BY <1>0 DEF EventsOf
  <2> QED
    BY <1>0, <2>1 DEF EventsChain, Chained
<1>2. SUFFICES (running' \in [Backend -> Run] /\ FoundFirst' /\ runs' \in Nat)
  BY <1>0, <1>1 DEF HealthTypes
<1>3. running \in [Backend -> Run] /\ runs \in Nat /\ running[b] \in Run
  BY DEF HealthTypes
<1>4. CASE Interrupt(b)
  <2>1. running' = [running EXCEPT ![b] = Idle] /\ runs' = runs
    BY <1>4 DEF Interrupt
  <2>2. running' \in [Backend -> Run]
    BY <1>3, <2>1, IdleIsRun
  <2> QED
    BY <1>3, <2>1, <2>2 DEF FoundFirst, Idle
<1>5. CASE IntervalOver(b)
  BY <1>3, <1>5 DEF IntervalOver, FoundFirst
<1>6. ASSUME NEW asked \in {Component} \cup {{c} : c \in Component}, StartRun(b, asked)
      PROVE  running' \in [Backend -> Run] /\ FoundFirst' /\ runs' \in Nat
  <2> DEFINE new == [Idle EXCEPT !.at = "probe", !.left = asked, !.started = runs + 1]
  <2>1. running' = [running EXCEPT ![b] = new] /\ runs' = runs + 1
    BY <1>6 DEF StartRun
  <2>2. new \in Run /\ new.at = "probe"
    <3>1. asked \in SUBSET Component
      BY <1>6
    <3>2. runs + 1 \in Nat
      BY <1>3
    <3>3. Idle \in Run
      BY IdleIsRun
    <3>4. new \in Run
      BY <3>1, <3>2, <3>3 DEF Run
    <3> QED
      BY <3>3, <3>4 DEF Run
  <2> HIDE DEF new
  <2>3. running' \in [Backend -> Run]
    BY <1>3, <2>1, <2>2
  <2> QED
    BY <1>3, <2>1, <2>2, <2>3 DEF FoundFirst
<1>7. ASSUME NEW c \in Component, Probe(b, c)
      PROVE  running' \in [Backend -> Run] /\ FoundFirst' /\ runs' \in Nat
  <2> DEFINE found == [d \in DOMAIN running[b].found \cup {c} |->
                         IF d = c THEN Verdict(c) ELSE running[b].found[d]]
             left == running[b].left \ {c}
             new == [running[b] EXCEPT !.found = found,
                                       !.left = IF left = {} THEN DOMAIN found ELSE left,
                                       !.at = IF left = {} THEN "store" ELSE "probe"]
  <2>1. running' = [running EXCEPT ![b] = new] /\ runs' = runs
    BY <1>7 DEF Probe
  <2>2. found \in Finding /\ DOMAIN found \subseteq Component
    <3>1. PICK known \in SUBSET Component : running[b].found \in [known -> Statuses]
      BY <1>3 DEF Run, Finding
    <3>2. Verdict(c) \in Statuses
      BY VerdictIsStatus
    <3>3. found \in [known \cup {c} -> Statuses]
      BY <3>1, <3>2
    <3>4. known \cup {c} \in SUBSET Component
      OBVIOUS
    <3> QED
      BY <3>3, <3>4 DEF Finding
  <2>3. left \subseteq Component
    BY <1>3 DEF Run
  <2> HIDE DEF found, left
  <2>4. /\ new \in Run
        /\ new.at = "store" => new.left = DOMAIN new.found
    BY <1>3, <2>2, <2>3 DEF Run
  <2> HIDE DEF new
  <2>5. running' \in [Backend -> Run]
    BY <1>3, <2>1, <2>4
  <2> QED
    BY <1>3, <2>1, <2>4, <2>5 DEF FoundFirst
<1>8. ASSUME NEW c \in Component, LoseStore(b, c)
      PROVE  running' \in [Backend -> Run] /\ FoundFirst' /\ runs' \in Nat
  BY <1>3, <1>8, AdvanceKeeps DEF LoseStore
<1> QED
  BY <1>4, <1>5, <1>6, <1>7, <1>8

LEMMA HealthStart == ASSUME HealthInit PROVE HealthInv
<1>1. running \in [Backend -> Run] /\ FoundFirst
  BY IdleIsRun DEF HealthInit, FoundFirst, Idle
<1>2. checks \in [Component -> CheckRow] /\ events \in Seq(EventRow) /\ runs \in Nat
  BY DEF HealthInit, CheckRow
<1>3. \A c \in Component : EventsOf(c) = {} /\ checks[c].status = Never
  BY DEF HealthInit, EventsOf
<1>4. EventsChain
  BY <1>3 DEF EventsChain, Chained
<1> QED
  BY <1>1, <1>2, <1>4 DEF HealthInv, HealthTypes

\* Every step keeps them.
LEMMA NextHealth ==
  ASSUME HealthConstants, HealthInv, [HealthNext]_healthVars
  PROVE  HealthInv'
<1>1. CASE WorldChanges \/ UNCHANGED healthVars
  <2>1. UNCHANGED <<running, checks, events, runs>>
    BY <1>1 DEF WorldChanges, healthVars
  <2>2. \A c \in Component : EventsOf(c)' = EventsOf(c)
    BY <2>1 DEF EventsOf
  <2>3. EventsChain'
    BY <2>1, <2>2 DEF HealthInv, EventsChain, Chained
  <2> QED
    BY <2>1, <2>3 DEF HealthInv, HealthTypes, FoundFirst
<1>2. ASSUME NEW b \in Backend, NEW c \in Component, Store(b, c)
      PROVE  HealthInv'
  <2> USE <1>2 DEF HealthInv
  <2>1. running[b] \in Run /\ running[b].at = "store" /\ c \in running[b].left
    BY DEF Store, HealthTypes
  <2> DEFINE status == running[b].found[c]
             started == running[b].started
  <2>2. status \in Statuses /\ started \in Nat
    <3>1. PICK known \in SUBSET Component : running[b].found \in [known -> Statuses]
      BY <2>1 DEF Run, Finding
    <3>2. c \in DOMAIN running[b].found
      BY <2>1 DEF FoundFirst
    <3> QED
      BY <2>1, <3>1, <3>2 DEF Run
  <2>3. /\ Stored(c, status, started) /\ Advance(b, c) /\ runs' = runs
        /\ events' = IF checks[c].status = status THEN events
                     ELSE Append(events, Event(c, checks[c].status, status))
    BY DEF Store
  <2> HIDE DEF status, started
  <2>4. EventsChain'
    BY <2>2, <2>3, StoreLengthensChain
  <2>5. running' \in [Backend -> Run] /\ FoundFirst'
    BY <2>3, AdvanceKeeps DEF HealthTypes
  <2>6. checks' \in [Component -> CheckRow]
    BY <2>2, <2>3 DEF Stored, HealthTypes, CheckRow
  <2>7. events' \in Seq(EventRow)
    <3>1. Event(c, checks[c].status, status) \in EventRow
      BY <2>2 DEF Event, EventRow, HealthTypes, CheckRow
    <3> QED
      BY <2>3, <3>1, AppendProperties DEF HealthTypes
  <2> QED
    BY <2>3, <2>4, <2>5, <2>6, <2>7 DEF HealthTypes
<1>3. ASSUME NEW b \in Backend,
             \/ Interrupt(b) \/ IntervalOver(b)
             \/ \E asked \in {Component} \cup {{c} : c \in Component} : StartRun(b, asked)
             \/ \E c \in Component : Probe(b, c) \/ LoseStore(b, c)
      PROVE  HealthInv'
  BY <1>3, RunKeepsChain
<1> QED
  BY <1>1, <1>2, <1>3 DEF HealthNext

\* EventsChain: whatever backends probe and store at once, whatever is interrupted or lost, the
\* events of every component are one chain of changes up to its status.
THEOREM EventsAreAChain == HealthConstants => (HealthSpec => []EventsChain)
<1> SUFFICES ASSUME HealthConstants
             PROVE  HealthSpec => []EventsChain
  OBVIOUS
<1>1. HealthInit => HealthInv
  BY HealthStart
<1>2. HealthInv /\ [HealthNext]_healthVars => HealthInv'
  BY NextHealth
<1>3. HealthInv => EventsChain
  BY DEF HealthInv
<1> QED
  BY <1>1, <1>2, <1>3, PTL DEF HealthSpec

\* Who may still store a result of a check, and how often one can have failed.
Storing(c) ==
  {b \in Backend : running[b].at # "idle"
                     /\ (c \in running[b].left \/ (running[b].at = "probe" /\ c \in DOMAIN running[b].found))}
Counted(c) ==
  IsFiniteSet(Storing(c)) /\ checks[c].failures + Cardinality(Storing(c)) <= runs /\ checks[c].checked <= runs

\* A run stores each result once, so that no check has failed more often than runs were begun.
RunsInv ==
  /\ runs <= MaxRuns /\ MaxRuns \in Nat
  /\ Len(events) <= MaxEvents /\ MaxEvents \in Nat
  /\ broken \subseteq Fault /\ sources \in BOOLEAN /\ open \in [Backend -> BOOLEAN]
  /\ \A b \in Backend : running[b].started <= runs
  /\ \A c \in Component : Counted(c)

\* Fewer have a result to store.
LEMMA CountedStays ==
  ASSUME HealthTypes, NEW c \in Component, Counted(c), runs' \in Nat, runs <= runs',
         checks'[c] = checks[c], Storing(c)' \subseteq Storing(c)
  PROVE  Counted(c)'
<1>1. IsFiniteSet(Storing(c)') /\ Cardinality(Storing(c)') <= Cardinality(Storing(c))
  BY FS_Subset DEF Counted
<1>2. Cardinality(Storing(c)') \in Nat /\ Cardinality(Storing(c)) \in Nat
  BY <1>1, FS_CardinalityType DEF Counted
<1>3. checks[c].failures \in Nat /\ checks[c].checked \in Nat /\ runs \in Nat
  BY DEF HealthTypes, CheckRow
<1> QED
  BY <1>1, <1>2, <1>3 DEF Counted

\* A run that begins may store a result more, of a check that has not failed since.
LEMMA CountedWithOneMore ==
  ASSUME HealthTypes, NEW c \in Component, NEW b, Counted(c), runs' = runs + 1,
         checks'[c] = checks[c], Storing(c)' \subseteq Storing(c) \cup {b}
  PROVE  Counted(c)'
<1>1. /\ IsFiniteSet(Storing(c) \cup {b})
      /\ Cardinality(Storing(c) \cup {b}) <= Cardinality(Storing(c)) + 1
      /\ Cardinality(Storing(c)) \in Nat /\ Cardinality(Storing(c) \cup {b}) \in Nat
  <2>1. IsFiniteSet(Storing(c)) /\ Cardinality(Storing(c)) \in Nat
    BY FS_CardinalityType DEF Counted
  <2>2. /\ IsFiniteSet(Storing(c) \cup {b})
        /\ \/ Cardinality(Storing(c) \cup {b}) = Cardinality(Storing(c))
           \/ Cardinality(Storing(c) \cup {b}) = Cardinality(Storing(c)) + 1
    BY <2>1, FS_AddElement, Zenon
  <2> QED
    BY <2>1, <2>2
<1>2. /\ IsFiniteSet(Storing(c)') /\ Cardinality(Storing(c)') <= Cardinality(Storing(c) \cup {b})
      /\ Cardinality(Storing(c)') \in Nat
  BY <1>1, FS_Subset, FS_CardinalityType
<1>3. checks[c].failures \in Nat /\ checks[c].checked \in Nat /\ runs \in Nat
  BY DEF HealthTypes, CheckRow
<1> QED
  BY <1>1, <1>2, <1>3 DEF Counted

\* A result that is stored cannot be stored again by the same run.
LEMMA CountedOnceStored ==
  ASSUME HealthTypes, NEW c \in Component, NEW b \in Storing(c), Counted(c), UNCHANGED runs,
         checks'[c].failures \in Nat, checks'[c].failures <= checks[c].failures + 1,
         checks'[c].checked \in Nat, checks'[c].checked <= runs,
         Storing(c)' \subseteq Storing(c) \ {b}
  PROVE  Counted(c)'
<1>1. /\ IsFiniteSet(Storing(c) \ {b})
      /\ Cardinality(Storing(c) \ {b}) = Cardinality(Storing(c)) - 1
      /\ Cardinality(Storing(c)) \in Nat /\ Cardinality(Storing(c) \ {b}) \in Nat
  BY FS_RemoveElement, FS_CardinalityType DEF Counted
<1>2. /\ IsFiniteSet(Storing(c)') /\ Cardinality(Storing(c)') <= Cardinality(Storing(c) \ {b})
      /\ Cardinality(Storing(c)') \in Nat
  BY <1>1, FS_Subset, FS_CardinalityType
<1>3. checks[c].failures \in Nat /\ runs \in Nat
  BY DEF HealthTypes, CheckRow
<1> QED
  BY <1>1, <1>2, <1>3 DEF Counted

\* What a run does with a result.
LEMMA AdvanceStores ==
  ASSUME HealthTypes, NEW b \in Backend, running[b].at = "store", NEW c, Advance(b, c)
  PROVE  /\ \A d \in Component : Storing(d)' \subseteq Storing(d)
         /\ Storing(c)' \subseteq Storing(c) \ {b}
         /\ \A a \in Backend : running'[a].started = running[a].started \/ running'[a].started = 0
<1>1. running \in [Backend -> Run] /\ running[b] \in Run
  BY DEF HealthTypes
<1>2. CASE running[b].left = {c}
  <2>1. running' = [running EXCEPT ![b] = Idle]
    BY <1>2 DEF Advance
  <2>2. running'[b] = Idle /\ \A a \in Backend \ {b} : running'[a] = running[a]
    BY <1>1, <2>1
  <2> QED
    BY <2>2 DEF Storing, Idle
<1>3. CASE running[b].left # {c}
  <2> DEFINE r == [running[b] EXCEPT !.left = @ \ {c}]
  <2>1. running' = [running EXCEPT ![b] = r]
    BY <1>3 DEF Advance
  <2>2. r.at = "store" /\ r.left = running[b].left \ {c} /\ r.started = running[b].started
    BY <1>1 DEF Run
  <2> HIDE DEF r
  <2>3. running'[b] = r /\ \A a \in Backend \ {b} : running'[a] = running[a]
    BY <1>1, <2>1
  <2> QED
    BY <2>2, <2>3 DEF Storing
<1> QED
  BY <1>2, <1>3

LEMMA NextRuns ==
  ASSUME HealthConstants, HealthInv, RunsInv, [HealthNext]_healthVars, HealthTypes'
  PROVE  RunsInv'
<1> USE DEF RunsInv
<1>0. HealthTypes /\ running \in [Backend -> Run] /\ runs \in Nat /\ runs' \in Nat
  BY DEF HealthInv, HealthTypes
<1>1. CASE WorldChanges \/ UNCHANGED healthVars
  <2>1. UNCHANGED <<running, open, checks, events, runs>>
    BY <1>1 DEF WorldChanges, healthVars
  <2>2. broken' \subseteq Fault /\ sources' \in BOOLEAN
    BY <1>1 DEF WorldChanges, healthVars
  <2> QED
    BY <2>1, <2>2 DEF Counted, Storing
<1>2. ASSUME NEW b \in Backend, Interrupt(b)
      PROVE  RunsInv'
  <2>1. running' = [running EXCEPT ![b] = Idle]
    BY <1>2 DEF Interrupt
  <2>2. running'[b] = Idle /\ \A a \in Backend \ {b} : running'[a] = running[a]
    BY <1>0, <2>1
  <2>3. \A c \in Component : Counted(c)'
    <3>1. \A c \in Component : Storing(c)' \subseteq Storing(c)
      BY <2>2 DEF Storing, Idle
    <3> QED
      BY <1>0, <1>2, <3>1, CountedStays DEF Interrupt
  <2>4. \A a \in Backend : running'[a].started <= runs
    BY <1>0, <2>2 DEF Idle
  <2> QED
    BY <1>2, <2>3, <2>4 DEF Interrupt
<1>3. ASSUME NEW b \in Backend, IntervalOver(b)
      PROVE  RunsInv'
  BY <1>3 DEF IntervalOver, Counted, Storing
<1>4. ASSUME NEW b \in Backend, NEW asked \in {Component} \cup {{c} : c \in Component}, StartRun(b, asked)
      PROVE  RunsInv'
  <2> DEFINE r == [Idle EXCEPT !.at = "probe", !.left = asked, !.started = runs + 1]
  <2>1. running' = [running EXCEPT ![b] = r] /\ r.started = runs + 1
    BY <1>4 DEF StartRun, Idle
  <2> HIDE DEF r
  <2>2. running'[b] = r /\ \A a \in Backend \ {b} : running'[a] = running[a]
    BY <1>0, <2>1
  <2>3. runs' = runs + 1 /\ runs < MaxRuns /\ UNCHANGED <<broken, sources, checks, events>>
        /\ open' \in [Backend -> BOOLEAN]
    BY <1>4 DEF StartRun
  <2>4. \A c \in Component : Counted(c)'
    <3>1. \A c \in Component : Storing(c)' \subseteq Storing(c) \cup {b}
      BY <2>2 DEF Storing
    <3> QED
      BY <1>0, <2>3, <3>1, CountedWithOneMore
  <2>5. \A a \in Backend : running'[a].started <= runs'
    <3>1. \A a \in Backend : running[a].started \in Nat
      BY <1>0 DEF Run
    <3> QED
      BY <1>0, <2>1, <2>2, <2>3, <3>1
  <2> QED
    BY <1>0, <2>3, <2>4, <2>5
<1>5. ASSUME NEW b \in Backend, NEW c \in Component, Probe(b, c)
      PROVE  RunsInv'
  <2> DEFINE found == [d \in DOMAIN running[b].found \cup {c} |->
                         IF d = c THEN Verdict(c) ELSE running[b].found[d]]
             left == running[b].left \ {c}
             r == [running[b] EXCEPT !.found = found,
                                     !.left = IF left = {} THEN DOMAIN found ELSE left,
                                     !.at = IF left = {} THEN "store" ELSE "probe"]
  <2>1. running' = [running EXCEPT ![b] = r] /\ running[b] \in Run
    BY <1>0, <1>5 DEF Probe
  <2>2. /\ r.started = running[b].started
        /\ r.left = (IF left = {} THEN DOMAIN found ELSE left) /\ r.found = found
        /\ r.at = IF left = {} THEN "store" ELSE "probe"
    <3> HIDE DEF found, left
    <3> QED
      BY <2>1 DEF Run
  <2>3. DOMAIN found = DOMAIN running[b].found \cup {c}
    OBVIOUS
  <2> HIDE DEF r, found
  <2>4. running'[b] = r /\ \A a \in Backend \ {b} : running'[a] = running[a]
    BY <1>0, <2>1
  <2>5. running[b].at = "probe" /\ c \in running[b].left
        /\ UNCHANGED <<broken, sources, open, checks, events, runs>>
    BY <1>5 DEF Probe
  <2>6. \A d \in Component : Counted(d)'
    <3>1. \A d \in Component : Storing(d)' \subseteq Storing(d)
      BY <2>2, <2>3, <2>4, <2>5 DEF Storing
    <3> QED
      BY <1>0, <2>5, <3>1, CountedStays
  <2> QED
    BY <2>2, <2>4, <2>5, <2>6
<1>6. ASSUME NEW b \in Backend, NEW c \in Component, LoseStore(b, c)
      PROVE  RunsInv'
  <2>1. running[b].at = "store" /\ Advance(b, c) /\ UNCHANGED <<broken, sources, open, checks, events, runs>>
    BY <1>6 DEF LoseStore
  <2>2. \A d \in Component : Counted(d)'
    BY <1>0, <2>1, AdvanceStores, CountedStays
  <2>3. \A a \in Backend : running'[a].started <= runs
    BY <1>0, <2>1, AdvanceStores
  <2> QED
    BY <2>1, <2>2, <2>3
<1>7. ASSUME NEW b \in Backend, NEW c \in Component, Store(b, c)
      PROVE  RunsInv'
  <2>1. /\ running[b].at = "store" /\ c \in running[b].left /\ Len(events) < MaxEvents
        /\ Stored(c, running[b].found[c], running[b].started)
        /\ Advance(b, c) /\ UNCHANGED <<broken, sources, open, runs>>
        /\ \E event : events' \in {events, Append(events, event)}
    BY <1>7 DEF Store
  <2>2. /\ checks' \in [Component -> CheckRow] /\ checks \in [Component -> CheckRow]
        /\ checks'[c].failures <= checks[c].failures + 1 /\ checks'[c].checked = running[b].started
        /\ \A d \in Component \ {c} : checks'[d] = checks[d]
    <3>1. checks \in [Component -> CheckRow] /\ checks' \in [Component -> CheckRow] /\ checks[c].failures \in Nat
      BY <1>0 DEF HealthTypes, CheckRow
    <3>2. checks'[c] = [status |-> running[b].found[c], checked |-> running[b].started,
                        failures |-> IF running[b].found[c] = FAILED THEN checks[c].failures + 1 ELSE 0]
      BY <2>1, <3>1 DEF Stored
    <3>3. \A d \in Component \ {c} : checks'[d] = checks[d]
      BY <2>1, <3>1 DEF Stored
    <3> QED
      BY <3>1, <3>2, <3>3
  <2>3. Counted(c)'
    <3>1. b \in Storing(c)
      BY <2>1 DEF Storing
    <3>2. checks'[c].failures \in Nat /\ checks'[c].checked \in Nat
      BY <2>2 DEF CheckRow
    <3> QED
      BY <1>0, <2>1, <2>2, <3>1, <3>2, AdvanceStores, CountedOnceStored
  <2>4. \A d \in Component \ {c} : Counted(d)'
    BY <1>0, <2>1, <2>2, AdvanceStores, CountedStays
  <2>5. \A a \in Backend : running'[a].started <= runs
    BY <1>0, <2>1, AdvanceStores
  <2>6. Len(events') <= MaxEvents
    <3>1. events \in Seq(EventRow) /\ Len(events) \in Nat
      BY <1>0 DEF HealthTypes
    <3>2. \A event : Len(Append(events, event)) = Len(events) + 1
      BY <3>1
    <3> QED
      BY <2>1, <3>1, <3>2
  <2> QED
    BY <2>1, <2>3, <2>4, <2>5, <2>6
<1> QED
  BY <1>1, <1>2, <1>3, <1>4, <1>5, <1>6, <1>7 DEF HealthNext

\* The bounds of a run are numbers.
HealthBounds == MaxRuns \in Nat /\ MaxEvents \in Nat

\* No check has failed, and none was made, more often than runs were begun.
LEMMA HealthTypesHold == HealthConstants /\ HealthBounds => (HealthSpec => []HealthTypeOK)
<1> SUFFICES ASSUME HealthConstants, HealthBounds
             PROVE  HealthSpec => []HealthTypeOK
  OBVIOUS
<1>1. HealthInit => HealthInv /\ RunsInv
  <2> SUFFICES ASSUME HealthInit
               PROVE  RunsInv
    BY HealthStart
  <2>1. \A c \in Component : Storing(c) = {}
    BY DEF HealthInit, Storing, Idle
  <2>2. ASSUME NEW c \in Component
        PROVE  Counted(c)
    <3>1. IsFiniteSet(Storing(c)) /\ Cardinality(Storing(c)) = 0
      BY <2>1, FS_EmptySet, Zenon
    <3>2. checks[c].failures = 0 /\ checks[c].checked = 0 /\ runs = 0
      BY DEF HealthInit
    <3> QED
      BY <3>1, <3>2 DEF Counted
  <2> QED
    BY <2>2 DEF RunsInv, HealthInit, HealthBounds, Idle
<1>2. HealthInv /\ RunsInv /\ [HealthNext]_healthVars => (HealthInv /\ RunsInv)'
  <2>1. HealthInv /\ [HealthNext]_healthVars => HealthInv'
    BY NextHealth
  <2> QED
    BY <2>1, NextRuns DEF HealthInv
<1>3. HealthInv /\ RunsInv => HealthTypeOK
  <2> SUFFICES ASSUME HealthInv, RunsInv
               PROVE  HealthTypeOK
    OBVIOUS
  <2>1. running \in [Backend -> Run] /\ runs \in Nat /\ checks \in [Component -> CheckRow]
    BY DEF HealthInv, HealthTypes
  <2>2. ASSUME NEW c \in Component
        PROVE  checks[c] \in Row
    <3>1. checks[c] \in CheckRow /\ Cardinality(Storing(c)) \in Nat
      BY <2>1, FS_CardinalityType DEF RunsInv, Counted
    <3>2. checks[c].failures \in 0 .. MaxRuns /\ checks[c].checked \in 0 .. MaxRuns
      BY <2>1, <3>1 DEF RunsInv, Counted, CheckRow
    <3> QED
      BY <3>1, <3>2 DEF CheckRow, Row
  <2>3. checks \in [Component -> Row]
    BY <2>1, <2>2
  <2>4. \A b \in Backend : /\ running[b].at \in {"idle", "probe", "store"}
                          /\ running[b].left \subseteq Component
                          /\ DOMAIN running[b].found \subseteq Component
    BY <2>1 DEF Run, Finding
  <2> QED
    BY <2>3, <2>4 DEF HealthTypeOK, RunsInv
<1> QED
  BY <1>1, <1>2, <1>3, PTL DEF HealthSpec

=============================================================================
