----------------------------- MODULE MCServices -----------------------------
(* The parts that serve the backend's documents, the queues they are put in    *)
(* and the server itself, two of them scripts that run beside it.              *)
(* They share no state, so focus picks one of them and the others stay in one  *)
(* initial state: the behaviours are those of the parts' own specifications.   *)
EXTENDS HealthChecks, StartupPlan, SequencesExt

CONSTANTS Parts,
          File, Folder, Root, Outside, MAX_RETRIES, MaxFiles, MaxScanned, MaxChunks, MaxMoves,
          Caller, Operator, Grants, NoGrant,
          Server, MaxDeaths,
          Import, Sync, Smoke, HasSync,
          Upload, MaxSize, Gone,
          Target, Confirmed, Repeat, NoMail, MaxLosses,
          Stamps, DumpSize, KeepN,
          MaxChars, Overlap, MinChars, ChunkLimit, MaxBlocks,
          MaxTexts, BatchSize, EmbedRetries,
          q0, q1, q2, Blank, Document, Other, MaxPlace, NoConfig

\* Limits are numbers, what stands for "none" is none of what it stands for, a file is no
\* folder, the checks looked at are some of HEALTH_COMPONENTS, an imported document has a
\* vertical of its own (kbdoc-...), and no default key is blank.
ASSUME ServicesAssumption ==
  /\ {MaxChunks, MaxSize, Stamps, DumpSize, MaxTexts, MAX_RETRIES, MaxFiles, MaxScanned, MaxDeaths,
      MaxRuns, MaxEvents, Repeat, EmbedRetries, MaxPlace, MaxBlocks} \subseteq Nat
  /\ BatchSize \in Nat \ {0} /\ KeepN \in Int
  /\ NoGrant \notin Grants /\ "nobody" \notin Caller /\ Gone \notin Nat
  /\ "free" \notin Import \cup Sync \cup Smoke
  /\ Root \in Folder /\ File \cap Folder = {} /\ Outside \notin Folder
  /\ Component \subseteq {"database", "embedding", "extraction", "knowledge_sync", "microsoft_graph", "crm"}
  /\ Document \cap Other = {} /\ Blank \notin {"default", "added"}

VARIABLES focus,
          parent, moved, mode, late, step, token, tries, list, file, outcome,
          store, draft, call, listener, captured, cleared,
          database, progress, promoted, deaths,
          slot, thread, child, tracked, result, stopping,
          content, request, writer, disk, document,
          tables, ledger, published, tool,
          outages, state, run, told, lost, losses,
          backups, parts, dumps, runAt, made,
          input, chunker,
          texts, embed,
          queues, seen, served

Graph == INSTANCE GraphSession
Zoho == INSTANCE ZohoSession
Start == INSTANCE Startup
Extract == INSTANCE Extraction
Files == INSTANCE Uploads WITH thread <- writer
Migrate == INSTANCE Migrations
Watch == INSTANCE Watchdog WITH broken <- outages
Backup == INSTANCE Backups
Embed == INSTANCE Embedding

\* Documents of a few headings, texts that are short, of two sentences or too long for a chunk,
\* and tables; and documents of headings alone, whose pages are read in the end.
Block(kind, section, sizes) == [kind |-> kind, section |-> section, sizes |-> sizes]
Headings == {Block("heading", <<"a">>, <<2>>), Block("heading", <<"a", "b">>, <<2>>), Block("heading", <<"c">>, <<2>>)}
Contents == {Block("paragraph", <<>>, <<2>>), Block("list_item", <<>>, <<4, 8>>), Block("paragraph", <<>>, <<13>>),
             Block("table", <<>>, <<8, 9>>)}
Documents ==
  [blocks : UNION {[1..n -> Headings \cup Contents] : n \in 0..MaxBlocks}, pages : {<<>>}]
  \cup [blocks : UNION {[1..n -> Headings] : n \in 0..2}, pages : {<<Block("paragraph", <<>>, <<2>>)>>}]
Cut == INSTANCE Chunks

\* A queue of the defaults, and two keys that are the same when stripped.
Raw == {q0, q1, q2}
NameOf == [r \in Raw |-> IF r = q0 THEN "default" ELSE "added"]
DefaultGroups == [r \in {q0} |-> [usable |-> TRUE, verticals |-> Other, place |-> 0]]
Patches == {DefaultGroups}
Corpus == INSTANCE QueueConfig

graphVars == <<parent, moved, mode, late, step, token, tries, list, file, outcome>>
zohoVars == <<store, draft, call, listener, captured, cleared>>
startVars == <<database, progress, promoted, deaths>>
extractVars == <<slot, thread, child, tracked, result, stopping>>
uploadVars == <<content, request, writer, disk, document>>
migrateVars == <<tables, ledger, published, tool>>
watchdogVars == <<outages, state, run, told, lost, losses>>
backupVars == <<backups, parts, dumps, runAt, made>>
chunkVars == <<input, chunker>>
embedVars == <<texts, embed>>
queueVars == <<queues, seen, served>>
vars == <<focus, graphVars, zohoVars, startVars, healthVars, extractVars,
          uploadVars, migrateVars, watchdogVars, backupVars, chunkVars, embedVars, queueVars>>

-----------------------------------------------------------------------------
Init ==
  /\ focus \in Parts
  /\ Graph!Init /\ (focus # "graph" => mode = "sync" /\ parent = [i \in File \cup (Folder \ {Root}) |-> Root])
  /\ Zoho!ZohoInit /\ (focus # "zoho" => store = NoGrant)
  /\ Start!StartInit
  /\ HealthInit /\ (focus # "health" => sources)
  /\ Extract!ExtractInit
  /\ Files!UploadInit
     /\ (focus # "upload" => content = [u \in Upload |-> [size |-> 1, valid |-> TRUE, declared |-> TRUE]])
  /\ Migrate!MigrateInit
  /\ Watch!WatchdogInit /\ (focus # "watchdog" => outages = {})
  /\ Backup!BackupInit
  /\ Cut!ChunkInit /\ (focus # "chunks" => input = [blocks |-> <<>>, pages |-> <<>>])
  /\ Embed!EmbedInit /\ (focus # "embed" => texts = 0)
  /\ (focus # "queues" => queues = <<>>) /\ Corpus!QueueInit

\* Only the part in focus moves.
OnlyFocus ==
  /\ UNCHANGED focus
  /\ (focus # "graph" => UNCHANGED graphVars)
  /\ (focus # "zoho" => UNCHANGED zohoVars)
  /\ (focus # "startup" => UNCHANGED startVars)
  /\ (focus # "health" => UNCHANGED healthVars)
  /\ (focus # "extract" => UNCHANGED extractVars)
  /\ (focus # "upload" => UNCHANGED uploadVars)
  /\ (focus # "migrate" => UNCHANGED migrateVars)
  /\ (focus # "watchdog" => UNCHANGED watchdogVars)
  /\ (focus # "backup" => UNCHANGED backupVars)
  /\ (focus # "chunks" => UNCHANGED chunkVars)
  /\ (focus # "embed" => UNCHANGED embedVars)
  /\ (focus # "queues" => UNCHANGED queueVars)

Next ==
  \/ focus = "graph" /\ Graph!Next /\ OnlyFocus
  \/ focus = "zoho" /\ Zoho!ZohoNext /\ OnlyFocus
  \/ focus = "startup" /\ Start!StartNext /\ OnlyFocus
  \/ focus = "health" /\ HealthNext /\ OnlyFocus
  \/ focus = "extract" /\ Extract!ExtractNext /\ OnlyFocus
  \/ focus = "upload" /\ Files!UploadNext /\ OnlyFocus
  \/ focus = "migrate" /\ Migrate!MigrateNext /\ OnlyFocus
  \/ focus = "watchdog" /\ Watch!WatchdogNext /\ OnlyFocus
  \/ focus = "backup" /\ Backup!BackupNext /\ OnlyFocus
  \/ focus = "chunks" /\ Cut!ChunkNext /\ OnlyFocus
  \/ focus = "embed" /\ Embed!EmbedNext /\ OnlyFocus
  \/ focus = "queues" /\ Corpus!QueueNext /\ OnlyFocus

Threads == SetToSeq(Extract!Thread)

\* The i-th strongly fair action of the part in focus.  One formula stands for both parts, as
\* only one of them ever moves.
Strongly(i) ==
  \/ focus = "extract" /\ i \in DOMAIN Threads /\ Extract!Take(Threads[i])
  \/ focus = "watchdog" /\ \/ i = 1 /\ Watch!Decide
                           \/ i = 2 /\ Watch!Sent
                           \/ i = 3 /\ Watch!Save

\* The fairness of the parts' own specifications.
Spec ==
  /\ Init /\ [][Next]_vars
  /\ WF_graphVars(focus = "graph" /\ Graph!SessionStep)
  /\ \A c \in Caller : WF_zohoVars(focus = "zoho" /\ Zoho!Step(c))
  /\ \A s \in Server : WF_startVars(focus = "startup" /\ (Start!Boot(s) \/ Start!Check(s) \/ Start!Make(s)))
  /\ \A t \in Extract!Thread : WF_extractVars(focus = "extract" /\ Extract!ThreadStep(t))
  /\ \A u \in Upload : WF_uploadVars(focus = "upload" /\ Files!UploadStep(u))
  /\ WF_embedVars(focus = "embed" /\ Embed!EmbedNext)
  /\ WF_watchdogVars(focus = "watchdog" /\ Watch!Check)
  /\ \A i \in 1 .. 3 : SF_vars(Strongly(i) /\ OnlyFocus)

-----------------------------------------------------------------------------
(* Properties.                                                             *)

\* The variables of every part have their types.
TypeOK ==
  /\ focus \in Parts
  /\ Graph!TypeOK /\ Zoho!ZohoTypeOK /\ Start!StartTypeOK
  /\ HealthTypeOK /\ Extract!ExtractTypeOK
  /\ Files!UploadTypeOK /\ Migrate!MigrateTypeOK /\ Watch!WatchdogTypeOK /\ Backup!BackupTypeOK
  /\ Cut!ChunkTypeOK /\ Embed!EmbedTypeOK
  /\ Corpus!QueueTypeOK

\* GraphSession: a listing that calls itself complete has every file that was there
\* throughout.
CompleteListsUntouched == Graph!CompleteListsUntouched

\* GraphSession, Extraction, Uploads, Backups: a file is there whole or not at all: a download
\* of a sync, a result of the attempt that returns it, an uploaded document, a backup of the
\* database, of which the newest stays.  Embedding: all texts of a document have vectors or none.
WholeOrNothing ==
  /\ Graph!DownloadsAreWhole /\ Extract!ResultIsOfThisAttempt
  /\ Files!UploadsAreWhole /\ Backup!BackupsAreWhole
  /\ Embed!OneVectorPerText

\* Chunks: the text of a document is whole in its chunks, which fit and are under their headings.
\* QueueConfig: a request for a queue takes whole effect in what chats are served, and no other.
TransformsAreFaithful == Cut!TextIsWhole /\ Cut!ChunksAreFaithful /\ Corpus!ServedAsAsked

\* Startup, Migrations: a server that is up finds what it checked for, and a migration on
\* record has its tables.
SchemaIsWhole == Start!UpIsComplete /\ Migrate!LedgerIsTrue

\* ZohoSession: a network that gives no answer does not lose the stored sign-in.
SilenceKeepsSession == Zoho!SilenceKeepsSession

Callers == SetToSeq(Caller)
Targets == SetToSeq(Target)

\* The i-th call, job or problem of the part in focus is over; no part has more than two.
IsOver(i) ==
  CASE focus = "graph"    -> Graph!SessionIsOver
    [] focus = "zoho"     -> i \in DOMAIN Callers => Zoho!CallIsOver(Callers[i])
    [] focus = "startup"  -> Start!AllUp
    [] focus = "extract"  -> i \in DOMAIN Threads => Extract!JobIsOver(Threads[i])
    [] focus = "upload"   -> \A u \in Upload : Files!UploadIsOver(u)
    [] focus = "embed"    -> Embed!EmbedIsOver
    [] focus = "watchdog" -> i \in DOMAIN Targets => Watch!Told(Targets[i])
    [] OTHER -> TRUE
AllClear(i) == focus = "watchdog" /\ i \in DOMAIN Targets => Watch!AllClear(Targets[i])

\* Nothing hangs: a listing or a download, a Zoho call, a start of the application, an
\* extraction, an upload and an embedding come to an end, however the other side answers and whoever holds
\* what they wait for, and a broken server is mailed about, and once more when it is mended.
NothingHangs == \A i \in 1 .. 2 : []<>IsOver(i) /\ []<>AllClear(i)

\* Startup: a promoted trainee stays "a full agent" (agents.py); the next start of a server
\* makes a trainee of them again.
PromotionLasts == Start!PromotionLasts
=============================================================================
