----------------------------- MODULE Migrations -----------------------------
(* The migrations of the document tables (doc_intel/migrate.py): one operator  *)
(* at a time applies or rolls back a version.  Every statement commits by      *)
(* itself, any of them may fail and the tool may be stopped between two.  What *)
(* verify only prints, the confirmation on the command line and scripts        *)
(* without a version are left out.                                             *)
EXTENDS Naturals, SequencesExt

VARIABLES tables,   \* that exist
          ledger,   \* versions on record in Ledger
          published,\* some documents are PUBLISHED
          tool

migrateVars == <<tables, ledger, published, tool>>

\* The tables of each version, in the order of their CREATE TABLE; an index is made and
\* dropped with its table.
Ledger == "AIVA_di_schema_version"
V001 == <<Ledger, "AIVA_kb_documents", "AIVA_health_checks", "AIVA_health_check_events">>
V002 == <<"AIVA_crm_sources", "AIVA_crm_sync_runs", "AIVA_crm_source_files", "AIVA_crm_entities">>
Script == <<V001, V002>>
Version == DOMAIN Script
Created(v) == ToSet(Script[v])
NoCommand == [at |-> "idle", version |-> 1, facts |-> {}, left |-> <<>>]
Commands == {"apply", "create", "record", "unrecord", "drop"}

MigrateTypeOK ==
  /\ tables \subseteq UNION {Created(v) : v \in Version}
  /\ ledger \subseteq Version /\ (Ledger \notin tables => ledger = {})
  /\ published \in BOOLEAN
  /\ tool.at \in Commands \cup {"idle"} /\ tool.version \in Version
  /\ IsSuffix(tool.left, Script[tool.version]) \/ IsSuffix(tool.left, Reverse(Script[tool.version]))

MigrateInit ==
  /\ tables = {} /\ ledger = {} /\ published = FALSE
  /\ tool = NoCommand

\* What the documents of the first version do meanwhile.
PublishOrUnpublish ==
  /\ Created(1) \subseteq tables
  /\ published' = ~published
  /\ UNCHANGED <<tables, ledger, tool>>

\* existing_objects.
Collisions(v) == Created(v) \cap tables

-----------------------------------------------------------------------------
(* apply.                                                                  *)

\* cmd_verify, then cmd_apply: nothing is done to a version on record, nor where an object of
\* the script exists.
Apply(v) ==
  /\ tool.at = "idle" /\ v \notin ledger /\ Collisions(v) = {}
  /\ tool' = [NoCommand EXCEPT !.at = "create", !.version = v, !.left = Script[v]]
  /\ UNCHANGED <<tables, ledger, published>>

\* _run_statements.
Create ==
  /\ tool.at = "create"
  /\ tables' = tables \cup {Head(tool.left)}
  /\ tool' = [tool EXCEPT !.left = Tail(@), !.at = IF Len(tool.left) = 1 THEN "record" ELSE "create"]
  /\ UNCHANGED <<ledger, published>>

\* The INSERT into the ledger fails where the first version was never applied.
Record ==
  /\ tool.at = "record"
  /\ ledger' = IF Ledger \in tables THEN ledger \cup {tool.version} ELSE ledger
  /\ tool' = NoCommand
  /\ UNCHANGED <<tables, published>>

-----------------------------------------------------------------------------
(* rollback.                                                               *)

Later(v) == {w \in ledger : w > v}

\* Mutant: the row is left to the last.
RollbackKeepsRow(v, force) ==
  /\ tool.at = "idle" /\ Later(v) = {}
  /\ v = 1 /\ published => force
  /\ tool' = [NoCommand EXCEPT !.at = "drop", !.version = v, !.left = Reverse(Script[v])]
  /\ UNCHANGED <<tables, ledger, published>>

\* cmd_rollback, with or without --force; the row of the first version goes with its table.
Rollback(v, force) ==
  /\ tool.at = "idle" /\ Later(v) = {}
  /\ v = 1 /\ published => force
  /\ tool' = [NoCommand EXCEPT !.at = IF v # 1 /\ v \in ledger THEN "unrecord" ELSE "drop",
                               !.version = v, !.left = Reverse(Script[v])]
  /\ UNCHANGED <<tables, ledger, published>>

Unrecord ==
  /\ tool.at = "unrecord"
  /\ ledger' = ledger \ {tool.version}
  /\ tool' = [tool EXCEPT !.at = "drop"]
  /\ UNCHANGED <<tables, published>>

\* A table that is not there is skipped (skip_missing_drops).
Drop ==
  /\ tool.at = "drop"
  /\ tables' = tables \ {Head(tool.left)}
  /\ ledger' = IF Head(tool.left) = Ledger THEN {} ELSE ledger
  /\ published' = (published /\ Head(tool.left) \notin Created(1))
  /\ tool' = IF Len(tool.left) = 1 THEN NoCommand ELSE [tool EXCEPT !.left = Tail(@)]

-----------------------------------------------------------------------------
\* A statement fails, or the tool is stopped: what was done stays done.
Stops ==
  /\ tool.at # "idle"
  /\ tool' = NoCommand
  /\ UNCHANGED <<tables, ledger, published>>

MigrateStep == Create \/ Record \/ Unrecord \/ Drop

MigrateNext ==
  \/ PublishOrUnpublish \/ MigrateStep \/ Stops
  \/ \E v \in Version : Apply(v) \/ \E force \in BOOLEAN : Rollback(v, force)

MigrateSpec == MigrateInit /\ [][MigrateNext]_migrateVars /\ WF_migrateVars(MigrateStep)

-----------------------------------------------------------------------------
(* Properties.                                                             *)

\* Whatever command was stopped at whatever statement: a later version on record has all of
\* its tables, so what the document pages rely on is there (migrate.py).
LedgerIsTrue == \A v \in ledger \ {1} : Created(v) \subseteq tables

\* "apply" of the first version does nothing once it is on record, also after a rollback of
\* it that stopped half-way, which leaves its row to the last: not so.
FirstIsWhole == 1 \in ledger /\ tool.at = "idle" => Created(1) \subseteq tables

\* "dropping it first would strand V002's tables without their ledger row": not so for tables
\* whose own apply stopped before it was recorded.
LaterKeepsTheLedger == (\E v \in Version \ {1} : Collisions(v) # {}) /\ tool.at = "idle" => Ledger \in tables
=============================================================================
