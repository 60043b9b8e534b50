----------------------------- MODULE QueueConfig -----------------------------
(***************************************************************************)
(* The queue groups of a corpus (kb_corpus.config_json.queue_groups): how  *)
(* retrieval reads them, how the vertical of a document is put in queues   *)
(* and taken out of them (queue_config.py), and the embedding service,     *)
(* which reads the configuration and writes it back without the row lock.  *)
(*                                                                         *)
(* A group stands under a raw key; retrieval strips the keys.  The order   *)
(* of the keys matters only between those that are the same when stripped: *)
(* place says which of them comes later.                                   *)
(***************************************************************************)
EXTENDS Naturals

CONSTANTS Raw,           \* raw keys
          NameOf,        \* a raw key, stripped
          Blank,         \* a key of blanks, stripped
          Document,      \* verticals of imported documents (kbdoc-...)
          Other,         \* other verticals
          MaxPlace,
          DefaultGroups, \* DEFAULT_QUEUE_GROUPS
          Patches,       \* queue_groups that operators write
          NoConfig

VARIABLES queues, \* queue_groups: raw key -> group
          seen,   \* the queue groups a patch has read, or NoConfig
          served  \* history: queue -> verticals, by what was asked for

queueVars == <<queues, seen, served>>

-----------------------------------------------------------------------------
(* What retrieval sees.                                                    *)

\* usable: a dict with a list of verticals.
Group == [usable : BOOLEAN, verticals : SUBSET (Document \cup Other), place : 0 .. MaxPlace]

\* _is_valid_entry.
Valid(groups) == {r \in DOMAIN groups : groups[r].usable /\ NameOf[r] # Blank}

\* _catalog_index: of the valid keys that are name when stripped, the later one wins.
Wins(groups, r, name) ==
  /\ r \in Valid(groups) /\ NameOf[r] = name
  /\ \A s \in Valid(groups) : NameOf[s] = name => s = r \/ groups[s].place < groups[r].place

Catalog(groups) == {NameOf[r] : r \in Valid(groups)}
Indexed(groups, name) == CHOOSE r \in DOMAIN groups : Wins(groups, r, name)

\* A dict has its keys in one order.
IsConfig(groups) ==
  /\ DOMAIN groups \subseteq Raw
  /\ groups \in [DOMAIN groups -> Group]
  /\ \A name \in Catalog(groups) : \E r \in DOMAIN groups : Wins(groups, r, name)

\* get_queue_groups_from_config: the defaults, where there is no valid group.
Readable(groups) == IF Valid(groups) = {} THEN DefaultGroups ELSE groups
Serves(groups) ==
  [name \in Catalog(Readable(groups)) |->
     Readable(groups)[Indexed(Readable(groups), name)].verticals]

-----------------------------------------------------------------------------
(* The transforms.                                                         *)

\* ensure_queue_groups: the defaults are written into a configuration without a valid group;
\* what retrieval ignores is kept, except under the keys of the defaults.
EnsureQueueGroups(groups) ==
  IF Valid(groups) # {} THEN groups
  ELSE [r \in DOMAIN groups \cup DOMAIN DefaultGroups |->
          IF r \in DOMAIN DefaultGroups THEN DefaultGroups[r] ELSE groups[r]]

\* Mutant: the vertical is put in the queues asked for, and stays in the others.
OnlyAppends(groups, v, names) ==
  LET all == EnsureQueueGroups(groups)
  IN  [r \in DOMAIN all |->
         IF all[r].usable /\ \E name \in names : r = Indexed(all, name)
           THEN [all[r] EXCEPT !.verticals = @ \cup {v}] ELSE all[r]]

\* set_vertical_queues.
SetVerticalQueues(groups, v, names) ==
  LET all == EnsureQueueGroups(groups)
      selected == {Indexed(all, name) : name \in names}
  IN  [r \in DOMAIN all |->
         IF ~all[r].usable THEN all[r]
         ELSE [all[r] EXCEPT !.verticals = IF r \in selected THEN @ \cup {v} ELSE @ \ {v}]]

\* remove_vertical: the defaults are not written.
RemoveVertical(groups, v) ==
  [r \in DOMAIN groups |->
     IF groups[r].usable THEN [groups[r] EXCEPT !.verticals = @ \ {v}] ELSE groups[r]]

-----------------------------------------------------------------------------
(* Who uses them.                                                          *)

QueueTypeOK ==
  /\ IsConfig(queues)
  /\ seen = NoConfig \/ IsConfig(seen)

QueueInit ==
  /\ \E keys \in SUBSET Raw : queues \in [keys -> Group]
  /\ IsConfig(queues)
  /\ \A r \in DOMAIN queues : queues[r].usable \/ (queues[r].verticals = {} /\ queues[r].place = 0)
  /\ seen = NoConfig
  /\ served = Serves(queues)

\* KbStore.publish and set_queues, in one transaction that locks the corpus: a queue that
\* is not in the catalog is refused.
Offer(v, names) ==
  /\ names \subseteq Catalog(EnsureQueueGroups(queues))
  /\ queues' = SetVerticalQueues(queues, v, names)
  /\ served' = [n \in DOMAIN served |-> IF n \in names THEN served[n] \cup {v} ELSE served[n] \ {v}]
  /\ UNCHANGED seen

\* KbStore.unpublish.
Withdraw(v) ==
  /\ queues' = RemoveVertical(queues, v)
  /\ served' = [n \in DOMAIN served |-> served[n] \ {v}]
  /\ UNCHANGED seen

\* patch_corpus and reindex of the embedding service: the configuration is read, ...
ReadForPatch ==
  /\ seen = NoConfig
  /\ seen' = queues
  /\ UNCHANGED <<queues, served>>

\* ... and written back whole, with the queue groups of the patch where it has some.  What
\* was published between the two is gone.
WritePatch ==
  /\ seen # NoConfig
  /\ queues' \in {seen} \cup Patches
  /\ seen' = NoConfig
  /\ served' = Serves(queues')

QueueNext ==
  \/ ReadForPatch \/ WritePatch
  \/ \E v \in Document : Withdraw(v)
  \/ \E v \in Document, names \in SUBSET Catalog(EnsureQueueGroups(queues)) :
       names # {} /\ Offer(v, names)

QueueSpec == QueueInit /\ [][QueueNext]_queueVars

-----------------------------------------------------------------------------
(* Properties.                                                             *)

\* After any sequence of publications, withdrawals and patches a chat is served, in every
\* queue, exactly the documents last put in it, whatever malformed, blank or repeated keys
\* the configuration has, and no queue and no other vertical comes or goes on the way.
ServedAsAsked == served = Serves(queues)
=============================================================================
