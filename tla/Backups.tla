------------------------------- MODULE Backups ------------------------------
(* The weekly backup (scripts/backup_db.py): the database exports itself into  *)
(* a file of its own, which is copied out into a part file, renamed, and older *)
(* backups pruned.  Cron's own runs do not overlap, but one made by hand may   *)
(* overlap with them; each is named after the second it began in.  A run may   *)
(* fail or be killed at any step.  Mails and the log beside a backup are left  *)
(* out.                                                                        *)
EXTENDS Integers, FiniteSetsExt

CONSTANTS Stamps, \* runs are numbered 1..Stamps in the order of their names
          DumpSize, \* of a dump
          KeepN   \* backup_keep

VARIABLES backups, \* aiva_*.dmp.gz: [stamp, pieces]
          parts,   \* *.part, in the same way
          dumps,   \* left in the database's directory
          runAt,
          made     \* stamps of the backups ever finished

backupVars == <<backups, parts, dumps, runAt, made>>

Stamp == 1..Stamps
Copy(n, pieces) == [stamp |-> n, pieces |-> pieces]
Files == [stamp : Stamp, pieces : 0..DumpSize]
PartOf(n) == {f \in parts : f.stamp = n}

BackupTypeOK ==
  /\ backups \subseteq Files /\ parts \subseteq Files /\ dumps \subseteq Stamp
  /\ runAt \in [Stamp -> {"idle", "export", "verify", "copy", "copied", "prune", "over"}]
  /\ made \subseteq Stamp

BackupInit ==
  /\ backups = {} /\ parts = {} /\ dumps = {} /\ made = {}
  /\ runAt = [n \in Stamp |-> "idle"]

Goes(n, place) == runAt' = [runAt EXCEPT ![n] = place]

\* Part files are removed, also those of a run at work; there must be room for the dump.
Begin(n) ==
  /\ runAt[n] = "idle" /\ \A k \in 1..(n - 1) : runAt[k] # "idle"
  /\ parts' = {}
  /\ Goes(n, "export")
  /\ UNCHANGED <<backups, dumps, made>>

\* _EXPORT: it ends, well or not; an error removes what it left.
Export(n) ==
  /\ runAt[n] = "export"
  /\ dumps' = dumps \cup {n}
  /\ Goes(n, "verify")
  /\ UNCHANGED <<backups, parts, made>>

\* "completed with N error(s)" is no success, says the log.
Verify(n) ==
  /\ runAt[n] = "verify"
  /\ parts' = parts \cup {Copy(n, 0)}
  /\ Goes(n, "copy")
  /\ UNCHANGED <<backups, dumps, made>>

\* _copy_out; of a part file that was removed nothing is seen any more.
CopyPiece(n) ==
  /\ runAt[n] = "copy"
  /\ \A f \in PartOf(n) : f.pieces < DumpSize
  /\ parts' = (parts \ PartOf(n)) \cup {Copy(n, f.pieces + 1) : f \in PartOf(n)}
  /\ Goes(n, IF \A f \in PartOf(n) : f.pieces + 1 = DumpSize THEN "copied" ELSE "copy")
  /\ UNCHANGED <<backups, dumps, made>>

\* os.replace, and the dump is removed.
Finish(n) ==
  /\ runAt[n] = "copied" /\ PartOf(n) # {}
  /\ backups' = backups \cup PartOf(n)
  /\ parts' = parts \ PartOf(n)
  /\ dumps' \in {dumps, dumps \ {n}}
  /\ made' = made \cup {n}
  /\ Goes(n, "prune")

\* The KeepN newest by their names, and one at least.
Kept == IF KeepN < 1 THEN 1 ELSE KeepN
Newer(f) == {g \in backups : g.stamp > f.stamp}
Newest == {f \in backups : Cardinality(Newer(f)) < Kept}

\* prune, after the new backup is there.
Prune(n) ==
  /\ runAt[n] = "prune"
  /\ backups' = Newest
  /\ Goes(n, "over")
  /\ UNCHANGED <<parts, dumps, made>>

\* A step fails, its part file is gone for one: the part file and the dump are removed.
Fails(n) ==
  /\ runAt[n] \notin {"idle", "over"}
  /\ parts' = parts \ PartOf(n)
  /\ dumps' \in {dumps, dumps \ {n}}
  /\ Goes(n, "over")
  /\ UNCHANGED <<backups, made>>

\* Killed, it removes nothing.
Kill(n) ==
  /\ runAt[n] \notin {"idle", "over"}
  /\ Goes(n, "over")
  /\ UNCHANGED <<backups, parts, dumps, made>>

BackupStep(n) == Export(n) \/ Verify(n) \/ CopyPiece(n) \/ Finish(n) \/ Prune(n) \/ Fails(n)

BackupNext == \E n \in Stamp : Begin(n) \/ BackupStep(n) \/ Kill(n)

BackupSpec == BackupInit /\ [][BackupNext]_backupVars

-----------------------------------------------------------------------------
(* Properties.                                                             *)

\* What is called a backup is a whole one, and the newest ever made is there, however runs
\* overlap, fail or are killed ("Prune only after the new backup is safely on disk, so there
\* is always one").
BackupsAreWhole ==
  /\ \A f \in backups : f.pieces = DumpSize
  /\ made # {} => \E f \in backups : f.stamp = Max(made)
=============================================================================
