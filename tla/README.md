# TLA+ verification of the AIVA backend

AIVA is a FastAPI backend for a call centre over an Oracle database, with a chat widget,
language-model and embedding services, and *document intelligence*
(`src/backend/doc_intel`), which has queues, background workers, crash recovery and
state that several processes share. The project has three layers: the two flows of
document intelligence in depth, with refinement and proofs; the services around them
(Graph, extraction, health, storage, migrations, watchdog, ...) each in a module of its
own; and the application itself: who gets in, who sees what, what a question is answered
with.

- [Inventory](#inventory): the components, their state, operations and properties
- [Modules](#modules): which module models what, and how state and actions correspond to code
- [Runs](#runs): what each run asks, its bounds, what it shows
- [Fairness](#fairness)
- [Proofs](#proofs)
- [Disagreements with the code and its documents](#disagreements)
- [Abstractions, and what is not modelled](#abstractions)
- [Plan](#plan)

## Inventory

Paths are relative to `src/backend/doc_intel` unless they say otherwise.

### Flow 1: knowledge documents (`kb_import.py`, `kb_repo.py`, `kb_store.py`)

*State.* A registry row per document (`AIVA_kb_documents`): status (QUEUED,
PROCESSING, PUBLISHED, FAILED, UNPUBLISHED), the statuses of five stages
(upload, extraction, chunking, embedding, publishing), attempts, worker id,
heartbeat, queue keys, content hash. The knowledge base the chat searches
(`kb_corpus` with the queue configuration, `kb_chunk`). A directory per document
on disk (original file, `normalized.json`).

*Operations.* Administrators upload, retry, republish, unpublish, change queues
(`KbImportService`). A worker per backend process (`KbImportWorker`) recovers
stale rows, claims the oldest QUEUED row, runs the pipeline with a heartbeat
beside it, and releases its document on shutdown.

*Interaction.* Every change of a row is one short transaction that locks the row and
compares its status (`KbRepo._update`). The knowledge base has transactions of its
own, and the disk none: no transaction spans two of the three stores. Between any
two of these calls other workers, requests and processes run.

*Hard.* Two workers at one row; a recovery racing a live worker; a crash between two
transactions, or between a commit and the caller's learning of it; a failure that
cannot be recorded; a publishing thread that outlives its cancelled task; an
administrator's request that acts on a status it read before an await.

*Correct when* a document is processed by one worker at a time; stages complete in
order and a retry never skips one; PUBLISHED documents are in exactly their queues
and UNPUBLISHED ones nowhere; an interrupted document can be resumed and is never
PROCESSING for ever; UNPUBLISHED is final.

### Flow 2: SharePoint to CRM synchronization (`crm_sync.py`, `crm_repo.py`, `scheduler.py`)

*State.* Sources (location, cached Graph ids, status, schedule, credentials), sync
runs (QUEUED, RUNNING, COMPLETED, PARTIAL, FAILED; a unique index allows one active
run per source), tracked files (ACTIVE or DELETED; PENDING, PROCESSING, FAILED,
COMPLETED; attempts; the tags of the listing acted on) and CRM entities (ACTIVE or
WITHDRAWN).

*Operations.* Administrators create, edit, disable and delete sources, ask for a
sync, retry a file (`SyncService`); the scheduler claims due sources and queues runs
(`DocIntelScheduler`); a worker per process (`SyncWorker`) recovers stale runs, claims
a run and processes it: credentials, folder resolution, listing, plan, withdrawal of
what is gone, arming of what must be processed, then the files one by one.

*Interaction.* As in flow 1, plus SharePoint, which changes while it is listed and
downloaded; a deletion and the arming of files are separate transactions of a run.

*Hard.* A crash between storing a file's new tags and storing its entities; a zombie
whose run was recovered; a source relocated, disabled or deleted under a running
sync; partial listings; a retry that finds its file armed, begun or passed over;
next_sync_at written by the scheduler, by a finishing run and by administrators.

*Correct when* one worker syncs a source; a COMPLETED file holds entities at least as
new as its tags (otherwise no later sync notices); nothing of a deleted source or
file stays; cached ids belong to the current location; the retry budget is neither
exceeded nor lost; every run ends and every item is eventually synced or given up.

### Services around the flows

| Component | State | Operations and interaction | Correct when | Module |
|---|---|---|---|---|
| Schedule (`scheduler.py`, `schedule.py`, parts of `crm_repo.py`) | `next_sync_at` of a source, its runs | schedulers of all replicas claim due sources; a finishing run and administrators write the same field | an occurrence is queued once; a source that is on stays scheduled | `SyncSchedule` |
| Graph source (`graph_source.py` over `crm-document-ingestion`'s client) | a token, the request's retries, a listing, a part file | sign-in, paging through folders, download, a connection test with a time budget; people move items meanwhile | a listing called complete has every file nobody touched; every session ends | `GraphSession` |
| Extraction (`extraction.py`, `extraction_worker.py`) | one slot, child processes and their files | two workers and the health check compete; the shutdown kills what runs | a document is this attempt's, an attempt that fails once begun leaves no result; a stop ends | `Extraction` |
| Chunking, embedding (`chunking.py`, `embedding.py`) | the open chunk; the batch at work | sections, overlap, limits; batches with retries | no text is lost or torn; one vector per text, in order | `Chunks`, `Embedding` |
| Queue configuration (`queue_config.py`, `kb_queue_groups.py`, corpus patches of `src/embedding_service`) | `config_json.queue_groups` of a corpus | publications and withdrawals under a row lock; patches that read and write without it | every queue serves what was last put in it | `QueueConfig` |
| Upload storage (`storage.py`, `_store_one`) | a directory per upload, a row | threads that outlive the cancelled request they work for | a queued document has its whole file | `Uploads` |
| Health (`health.py`, `health_repo.py`) | a row per component, events, a throttle | overlapping runs of several backends | the events are a chain up to the status | `HealthChecks` |
| Migrations (`migrate.py`) | tables, ledger | apply and roll back, stopped anywhere | the ledger is true | `Migrations` |
| Schema set-up (`main.lifespan`, the `ensure_*` functions) | tables, columns, rows | several servers start and may die | what is in the schema is whole | `StartupPlan`, `Startup` |
| Zoho sign-in (`src/zoho_auth`) | a session file, a local callback server | resume, browser login, logout, from two processes | a Zoho that gives no answer never costs the session; calls end | `ZohoSession` |
| Scripts (`src/scripts`) | state file of the watchdog, dumps | runs that are killed, mails that are refused, backups that overlap | a failure is mailed and its end too; a backup is whole or absent | `Watchdog`, `Backups` |

### The application

| Component | State | Operations and interaction | Correct when | Module |
|---|---|---|---|---|
| Organizations, accounts, users | rows and foreign keys | deletions as series of statements, beside new rows | what an administrator keeps deleting goes | `Tenancy` |
| Sign-up, codes (`otp_service.py`) | the user row, codes | sign-up, resend, verification, Zoho login, overlapping | whoever asks again gets in | `SignIn` |
| Sign-in (`routers/auth.py`, reset in `otp_service.py`) | failures and lock, reset codes, tokens | login, new password, refresh | an owner gets in again and again | `Logins` |
| Page permissions (`role_nav_permissions.py`) | pages of roles, accounts, users | saves, seeding, resolution | a restricted page is open only by a default or a super admin | `NavPages` |
| Chat (`routers/chat.py`, `rag.py`, queue access) | queues of agent and session, messages, requests | a message beside changes of the queues and of their catalog, cut anywhere | a dropped queue is not searched while the agent has another; records agree with answers | `Chat` |
| Prompts and models (`routers/prompts.py`, `llm_configs.py`) | prompts, models, links | activation and deletion in several statements | the prompt activated last answers | `AccountSetup` |
| Embedding service | chunks, job rows, a Redis queue | jobs in a worker or inside a request | no search compares with the vector of another text | `IngestJobs` |
| Alerts (`notifications.py`, the logging middleware) | throttle times, tasks | failing requests at once | one alert per window, to the organization concerned; a failing request ends whatever becomes of its mail | `Alerts` |
| Price catalogue | a cache with a time to live | calls that fetch at once | no price older than its time to live | `PriceCatalog` |
| Chat widget, language-model client (`src/aiva_chatbot`, `src/llm_service`) | session token, turns, reports | a turn with retries and its report | reports agree with turns; a turn ends | `WidgetTurns` |

`PROJECT.json` lists every component with its status, and the hazards with the line
where each bites and the properties that cover it.

## Modules

| Module | Role |
|---|---|
| `KbRegistry` | a registry row, and every update of it as a function on rows |
| `KbImport` | flow 1: workers, requests, registry, knowledge base, disk; its properties |
| `WorkQueue` | what the registry promises as a work queue (abstract) |
| `KbImportQueue` | the refinement mapping from `KbImport` to `WorkQueue` |
| `KbImportProofs`, `KbStoreProofs` | theorems about flow 1: types and claims; stages, disk, knowledge base and the refinement |
| `CrmSync` | flow 2 for one source, its properties, and the refinement mapping to `CrmMirror` |
| `CrmMirror` | what a synchronization promises of the CRM store (abstract) |
| `CrmSyncProofs` | theorems about flow 2, the refinement among them |
| `SyncSchedule`, `SyncScheduleProofs` | when a source is synchronized; proofs |
| the modules of the two tables above | one component each |
| `ServicesProofs`, `HostProofs` | theorems about queues and health events; about the Zoho session, listings, files and vectors, migrations, the set-up at start and the types of all these |
| `AnswersProofs` | theorems about everything `MCAnswers` bundles |
| `AccessProofs` | theorems about what `MCAccess` bundles: page permissions, and the types |
| `MCKbImport`, `MCCrmSync`, `MCSyncSchedule` | instances for TLC, with their symmetry |
| `MCServices`, `MCAccess`, `MCAnswers` | the service and application modules, bundled |

`KbImport` extends `KbRegistry`; `KbImportQueue` extends `KbImport` and instantiates
`WorkQueue`; `CrmSync` instantiates `CrmMirror`. Definitions whose comment starts with "Mutant" are plausible bugs: no
specification uses them, and substituting one for the definition it varies makes the
property it is aimed at fail.

The three bundles extend or instantiate modules that share no state. A variable `focus` says which
part moves; the others stay in one initial state, so the reachable states are the sum,
not the product, of the parts', and the behaviours of a part are those of its own
specification, with its own fairness. Liveness is stated there as "again and again over" (`[]<>`), which for
what begins once and does not begin again is "it comes to an end". Properties of the same kind (nothing hangs,
nothing is half done) are stated once per bundle, as the conjunction of the parts'.

### KbImport and the code

| Variable | Code |
|---|---|
| `row` | `AIVA_kb_documents`; `fresh` abstracts `updated_at` against the stale threshold |
| `work` | the locals of `KbImportWorker._run` and `KbImportService._pipeline`; `phase` is the next call |
| `req` | the locals of a request between its awaits |
| `kb` | `kb_chunk` (`chunks`) and the verticals lists of the queues (`queues`) of the document |
| `disk`, `normalized` | the original and `normalized.json` of the document |
| `orphans` | publishing threads whose task was cancelled |

An action is the code between two awaits that other processes can come between: the
SELECT and the conditional UPDATE of `claim_next` are two actions (`Pick`, `Claim`), and
so are the SELECT of `recover_stale` and its update of each row (`FindStale`,
`RecoverOne`). A conditional update is `UpdateOrAbandon` for a worker (otherwise
`_Abandoned` ends the pipeline) and `UpdateOrConflict` for a request (otherwise 409).
`unpublish` and `change_queues` are three actions each: read, knowledge base, row.
`StageFails` is any failure of a stage, timeout included. `RegistryFault` is a registry
call that raises; where the handler's own call raises too, the row is left PROCESSING.

### CrmSync and the code

| Variable | Code |
|---|---|
| `source` | the row of `AIVA_crm_sources`; `resolved` is the location the cached ids stand for |
| `run` | `AIVA_crm_sync_runs`; an ended run nobody refers to stands for the next row |
| `file` | `AIVA_crm_source_files`; `tags` and `entities` are content versions, 0 for none |
| `remote` | SharePoint: folder and version of each item |
| `work` | the locals of `process_run`, with the plan (`gone`, `arm`, `reset`) and what is left to do |
| `req` | "Sync now", file retries and scheduler passes between their awaits |

`Open`, `Resolve`, `Cache`, `CachedIsGone`, `List`, `Plan` are `_sync` and `_sync_with`
up to the plan; `Withdraw`, `Arm`, `Progress` apply it; `NextFile`, `Begin`, `Download`,
`Persist` or `FailFile`, `Progress` are one round of the file loop; `NoMoreFiles` and
`Finish` end the run. `Interrupt` is `_fail_interrupted_run`, used by `Recover` and
`Release`. The stages between `Download` and `Persist` run in one child process and
change nothing but stage columns, which no decision reads.

### Hazards as a constant

`Hazard` is the set of failures in play: "stall" (a live worker misses its heartbeats
past the threshold), "crash", "fault" (a registry call raises), "abort" (a request dies
halfway), "orphan" (a publishing thread outlives its worker), "edit" (administrators
change the source). A run names the failures it is about, and a theorem the failures
it excludes. An orderly stop is always possible; one worker always stays.

## Runs

The flow 1 and flow 2 runs check deadlock and reach no state without a successor. The
others do not: there time ends at a bound, or everything has been answered.

| Run | Asks | Instance | Result |
|---|---|---|---|
| `kb_admin` | do the three stores agree, with one administrator action at a time, is a claim exclusive, and is the registry a work queue? | 1 document, 2 queues, 2 workers, 1 administrator, crash and fault | TypeOK, StagesInOrder, PublishedIsSearchable, NoEmptyVertical, UnpublishedIsGone, CanResume, OwnsDocument, OnlyOwnerWrites, ImplementsWorkQueue hold |
| `kb_stall` | what survives zombies and two administrators? | 1 document, 2 workers, 2 administrators, every failure | UnpublishedIsFinal holds |
| `kb_settles` | is every document settled? | 1 document, 2 workers, crash and fault, fair | EventuallySettled holds |
| `crm_safety` | do CRM store and tracked files agree? | 1 item, 2 folders, 2 workers, 2 runs, 2 versions, budget 2, every failure but stall | TypeOK, OwnsRun, EntitiesAreCurrent, NothingLeftBehind, CacheIsOfThisLocation hold |
| `crm_mirror` | is the CRM store a mirror, kept by one worker at a time? | 1 item, 1 folder, 2 workers, 2 runs, 1 request, 2 versions, budget 2, every failure but stall | ImplementsMirror holds |
| `crm_stall` | is a COMPLETED run clean, with zombies at work? | 1 item, 1 folder, 2 workers, 2 runs, 1 request, 1 version, budget 1, every failure, no edits | CompletedRunIsClean holds |
| `crm_converges` | does every run end and every item get synced? | 1 item, 2 workers, budget 2, crash, fair | Converges holds |
| `crm_stuck` | is a file being processed whenever its row says so? | as small as shows it | violated, see [below](#disagreements) |
| `schedule` | is a source that is on always scheduled, is no occurrence queued twice, is a due one served or its source deleted, which then comes to rest? | 2 schedulers, 1 administrator, days of 2 hours, `MaxDay` 1 (two days) | ScheduledIffOn, OncePerOccurrence, DueIsServed hold |
| `services` | do the services do all or nothing, and end? | twelve parts, see below | TypeOK, CompleteListsUntouched, WholeOrNothing, TransformsAreFaithful, SchemaIsWhole, EventsChain, SilenceKeepsSession, NothingHangs hold |
| `access` | who gets in, who sees what, what is deleted | 1 organization, account and user, 2 administrators; 2 requests to sign up (resend limit 1, counted up to 2), 2 to sign in, 2 mishaps; 2 roles, 2 pages | TypeOK, RestrictedIsGranted, DeletionsEnd, PersonGetsIn hold |
| `answers` | what is answered, recorded and alerted | 1 message, 2 queues, 2 changes of the catalog, the queues and who has them; 2 jobs, 2 chunks, 2 texts; 2 failing requests, 2 organizations; 2 calls; 2 turns; 2 editors, 2 prompts | TypeOK, RecordsAgree, NothingIsStale, AlertsReachTheirOwn, DroppedQueuesAreDropped, NothingHangs hold |

What the bundled properties consist of:

- *CompleteListsUntouched*: a Graph listing that calls itself complete holds every file that
  was in the folder and that nobody moved.
- *WholeOrNothing*: a download is the whole file; an extracted document is made by this attempt's process,
  and an attempt that fails once it has begun leaves no result, its own or an older one (`ResultIsOfThisAttempt`; one
  that is refused before it begins may leave the older one); a
  queued document's original is whole and a rejected upload leaves nothing; a backup under
  its final name is whole and pruning keeps the newest; an embedding run returns one vector per text.
- *TransformsAreFaithful*: chunking loses no text, and a chunk's overlap is the end of the chunk before;
  publications and withdrawals change the queues they name and nothing else (`ServedAsAsked`).
- *SilenceKeepsSession*: the stored Zoho session is removed by a logout, for its age, after a refusal or an error
  page, or torn by two writers; a connection that fails does not cost it.
- *DroppedQueuesAreDropped*: a session that has chosen queues searches queues of the catalog its request has
  read, and only assigned ones when the agent has no elevated role and some assigned queue is in that
  catalog. It says nothing of sessions without a choice, nor of an agent all of whose rows are
  gone from the catalog or just deleted.
- *DueIsServed*: a due occurrence is served or its source changed, and a deleted source comes to rest.
- *Converges*: every run ends (`RunsEnd`), and every item gets synced (`EventuallySynced`).
- *SchemaIsWhole*: a server that is up finds every object that some start looks for by itself,
  and a later migration in the ledger has all its tables.
- *NothingHangs* (services): Graph sessions, Zoho calls, shutdowns, uploads, the watchdog's
  notices and embedding batches come to an end. (answers): messages, jobs, failing requests,
  price lookups, widget turns do.
- *RecordsAgree*: chat and widget records agree with what was answered, wherever a request was
  cut. *NothingIsStale*: vectors belong to their texts, prices are within their time to live,
  the prompt that answers is the one activated last, once one activation has run alone.
- *PersonGetsIn*: sign-up ends in an account; its owner gets in again and again.

*Why the bounds are enough to be interesting.* One document or item: rows never refer
to each other, and the only order between documents is the claim of the oldest. Two
workers: one that loses its claim, dies or stalls, and one that recovers and claims. Two
requests (`kb_stall`): one that acts between the reads and the writes of the other; the claims
are checked with one, and proved for any number. `MaxAttempts` = 2
rounds through the pipeline: a first one and one after an interruption, a retry or a
republish. In `CrmSync`, two run rows let a new run be created while a file still refers
to the old one; two versions let content change between listing and download; a budget of
2 has a retry and an exhausted budget. `crm_mirror` has one folder and one request, since
the mirror knows neither; what it is about is the item, its versions and its workers. In `SyncSchedule`, two replicas race for an
occurrence and two days of two hours hold several. In the bundles every race is between two
actors of its kind, every cap (`MaxFiles`, `MaxScanned`, `MaxSize`, `BatchSize`,
`otp_max_attempts`, `login_max_failed_attempts`, `ChunkLimit`) can be reached and passed,
and the troubles of the environment (`MaxDeaths`, `MaxLosses`, `MaxTroubles`, `MaxMishaps`,
`MaxFailures`, `MaxMoves`, `MaxChanges`) are enough for one in the middle of another
actor's work. `MaxResends` is past `otp_max_resend_per_hour`: a count only meets that limit, so the
larger ones are taken together; counts of failures grow as they do in the code. `Chunks` runs documents of up to four blocks of every kind against a chunk
of 20 characters. `QueueConfig` starts in every configuration of three raw keys, two of them the
same when stripped, with malformed groups among them. Symmetry is used in safety runs of the flows only.

*Observed beyond the runs.* With "stall", StagesInOrder does not hold.
With "stall" and "edit" together NothingLeftBehind fails too (a zombie that read the
source as ACTIVE begins a file after the deletion, which its recovered run no longer
blocks), while CacheIsOfThisLocation and CompletedRunIsClean hold, as `CacheFollowsLocation` and
`CompletedMeansClean` prove.
With a second administrator UnpublishedIsGone fails: `change_queues`, having read
PUBLISHED, puts an unpublished vertical back into its queues. `crm_converges` also holds
with sources disabled, enabled and deleted ("edit", about three minutes).

## Fairness

`KbImport!FairSpec`: weak fairness of each worker's steps (the event loop runs a ready
task, and stage calls return or time out), of time passing (`GoStale`), and strong
fairness of the registry calls of the polling loop, as a call that can fail is repeated
every poll (`worker_poll_seconds`) and is not assumed to fail each time. Requests are
given no fairness: settling does not rely on an administrator.

`CrmSync!FairSpec`: the same for workers and time; a scheduler that ticks again and
again (weak fairness of `RequestStep`); and strong fairness of a successful resolution
and a complete listing, since SharePoint may refuse some calls but not every one for
ever. No fairness is assumed of a file's success: a file that always fails is given up
once its budget is used up, and EventuallySynced allows exactly that. Its premises are a
source that stays enabled, a library that stops changing, and no more retries by hand (which
renew the budget).

In the other modules the server's own steps are weakly fair: a request goes on to its
next statement, a child process is waited for, a scheduler ticks. `GraphSession`,
`Embedding` and `WidgetTurns` assume no provider answers in time: the retries are bounded by
the code. Strong fairness stands only for people who do not give up and for mails of which
one gets through: `SignIn` and `Logins` (sign-up, password, code, mail), `Tenancy` (an
administrator asks for the deletion again), `SyncSchedule` (a scheduler whose claim is
restored claims again). In the bundles a fairness condition of a part holds while that part
is in focus; one strong-fairness formula stands for several parts, since only one ever moves.

## Proofs

TLAPS proves the following for every value of the constants: any number of documents,
workers, requests, queues and rounds, of runs, files, versions and folders, of editors,
prompts, accounts and models, of schedulers, hours, intervals and days, of roles and pages,
keys and verticals, migrations, servers and backends.

| Theorem | Statement |
|---|---|
| *Knowledge documents* (`KbImportProofs`, `KbStoreProofs`) | |
| `TypeCorrect` | `Spec => []TypeOK` |
| `Ownership` | without "stall", `Spec => []OwnsDocument`: claims are exclusive |
| `OwnerWrites` | without "stall", a worker writes only to a row it owns |
| `UnpublishedFinal` | UNPUBLISHED is final, with every failure in play |
| `Resumable` | without "abort", `Spec => []CanResume`: what the pipeline needs is on disk |
| `StagesFollow` | without "stall", `Spec => []StagesInOrder` |
| `StoreInvariant` | in order (below), the inductive invariant of the knowledge base |
| `PublishedSearchable`, `OffersHaveChunks`, `UnpublishedGone` | then `[]PublishedIsSearchable`, `[]NoEmptyVertical`, `[]UnpublishedIsGone` |
| `ImplementsQueue` | without "stall", `KbImport` implements `WorkQueue` |
| *Synchronization* (`CrmSyncProofs`) | |
| `RunInvariant` | the inductive invariant of runs and cache, with every failure in play |
| `CacheFollowsLocation`, `CompletedMeansClean` | `Spec => []CacheIsOfThisLocation`, `Spec => []CompletedRunIsClean` |
| `SyncInvariant` | without "stall", the inductive invariant of a sync |
| `SyncTypes`, `OneWorkerSyncs` | then `[]TypeOK`, `[]OwnsRun`: one worker syncs a source |
| `SyncedEntitiesAreCurrent`, `NothingStays` | then `[]EntitiesAreCurrent`, `[]NothingLeftBehind` |
| `SyncMirrors` | without "stall", `CrmSync` implements `CrmMirror` |
| *Schedule* (`SyncScheduleProofs`) | |
| `ScheduleInvariant` | with one administrator at a time, the inductive invariant of `SyncSchedule` |
| `SourcesStayScheduled` | then `Spec => []ScheduledIffOn`: a source has a next sync, at its hour, exactly while its schedule is on |
| `OccurrencesAreQueuedOnce` | then `Spec => OncePerOccurrence`: no occurrence is queued twice |
| *Answers* (`AnswersProofs`; `Spec` is that of `MCAnswers`) | |
| `RecordsOfAnswersAgree` | `Spec => []RecordsAgree`: chat and widget records agree with what was answered |
| `LostQueuesAreDropped` | `Spec => DroppedQueuesAreDropped`: a session with a choice searches queues of the catalog it has read, and assigned ones when its agent, without an elevated role, has some there |
| `AlertsReach` | `Spec => []AlertsReachTheirOwn`: one alert per window and route, to the organization concerned |
| `NothingStaleIsUsed` | `Spec => []NothingIsStale`: vectors, prices and prompts |
| `AnswersTyped` | `Spec => []TypeOK` |
| `ChatInvariant`, `IngestInvariant`, `AlertInvariant`, `WidgetInvariant` | the inductive invariants of the parts |
| `SetupInvariant` | the inductive invariant of `AccountSetup` |
| `QuestionsUseTheCurrentPrompt` | `SetupSpec => []PromptIsCurrent`: the active prompt is the one activated last, once an activation has run alone |
| `DeletionsAreNotRefused` | `SetupSpec => []DeletionIsFree`: no account uses a model when a request that is alone deletes it |
| *Access* (`AccessProofs`; `Spec` is that of `MCAccess`) | |
| `RestrictedNeedsSuperAdmin` | `Spec => []RestrictedIsGranted` |
| `AccessTypes` | `Spec => []TypeOK`: organizations and what belongs to them, sign-up, sign-in and page permissions; counts of failures and resends are numbers without a bound in the code |
| *Services* (`ServicesProofs`) | |
| `QueuesServeAsAsked` | `QueueSpec => []ServedAsAsked` |
| `EventsAreAChain` | `HealthSpec => []EventsChain` |
| *Services* (`HostProofs`; `Spec` is that of `MCServices`) | |
| `NothingIsHalfDone` | `Spec => []WholeOrNothing`: downloads, extractions from their first file operation on, uploads, backups and embeddings |
| `SilenceKeepsTheSession` | `Spec => SilenceKeepsSession`: no answer, no loss; an error page does cost the session |
| `CompleteListingsHaveTheUntouched` | `Spec => []CompleteListsUntouched` |
| `SchemaStaysWhole` | `Spec => []SchemaIsWhole`: a server that is up finds what some start looks for by itself, and a later version on record has its tables |
| `EventsStayAChain` | `Spec => []EventsChain`, from `EventsAreAChain` |
| `ServicesTypes` | `Spec => []TypeOK`: the types of all twelve parts |

*Assumptions.* Each module whose proofs need something of its constants assumes it by name, and
TLC evaluates it: `ImportAssumption` and the assumption of `KbRegistry` (documents are natural numbers, None is
no value, `MaxAttempts` is positive), `CrmSync`'s and `SyncSchedule`'s own, `SetupAssumption` (None is no
model), and

- `AnswersAssumption`: limits, batch sizes, windows and times to live are numbers; queues, keys of a
  JSON object, and chunks are finitely many; the lack of an organization or of a row is none of them.
- `ServicesAssumption`: the lack of a session, a caller, a file or a holder of the slot is none of them; limits
  are numbers, a batch has a text, and how many backups to keep is any integer (`prune` keeps one at least); a
  source's root is a folder, a file is no folder, and what is outside of the root is in none of its folders;
  components are those of `health.py`; an imported document's vertical (`kbdoc-...`) is none of the others, and
  no default queue has a blank name.
- `AccessAssumption`: limits are numbers, and resends are counted past theirs; accounts, users and requests under way are finitely many; NULL is none
  of the ids.
- `NavAssumption`: defaults are pages, and what every role gets is not restricted, as in
  `ROLE_DEFAULT_NAV_KEYS` and `ORG_ADMIN_RESTRICTED_NAV_KEYS`.
- `LooksForWhatItMakes`: a step of the start has one or two statements, and one that looks for one object
  makes it. `Plan` is not a constant but the list of the steps of `main.lifespan`, so this is a fact TLC
  computes and the proof takes from there.

The theorems about parts alone have theirs as hypotheses:

- `QueueConstants`: the default groups are valid and name no imported document, whose verticals
  (`kbdoc-...`) are no others; a patch is a dict.
- `HealthConstants`: components are those of `health.py`.

And on what can fail. `"stall" \notin Hazard`: the code relies on a heartbeat every minute
against a threshold of at least five; with it, TLC refutes what two of the theorems
state (see [below](#disagreements)). `"abort" \notin Hazard` in `Resumable`: an upload cut off after its
insert leaves a row without a file. `Orderly`, for the knowledge base: neither "stall" nor
"orphan" nor "abort", and one administrator's request at a time;
`MCKbImport_republish_unpublish.cfg` shows that two refute `PublishedSearchable`. The theorems
about `SyncSchedule` assume one administrator too (`\A x, y \in Admin : x = y`);
with two, TLC refutes the first of them (see [below](#disagreements)).

### The arguments

*Types and claims of flow 1.* TypeOK is inductive because `WorkState` and `ReqState` carry the
facts the actions need: a worker in a phase that touches a document has one, a
publishing worker never writes results, a retry knows its stage. OwnsDocument is
inductive together with TypeOK, because it also says that the row is fresh and because
a worker counts as at work from the UPDATE of its claim (`AtWork`), not from the reread
after it. The argument: a claim takes a QUEUED row, which no worker is at work on;
recovery takes stale rows, release and updates an owner's, requests none that is
PROCESSING; only the clock could make an owned row stale, and without "stall" it does
not. `OwnsFrame` and `OwnsStep` state the two shapes once (no worker is at work on
the row that changes; the worker that moves is the only one), and every action is one
of them. OnlyOwnerWrites follows at each step from OwnsDocument. UNPUBLISHED is final
because every update names the statuses it expects and none names UNPUBLISHED.

*Disk, stages and knowledge base.* Three invariants, each on top of the one before it.
`ResumeInv`: a row whose upload or extraction is complete has the original or the text on disk, and a
worker that is about to record an extraction has saved its text (`HasText`). It needs no claim, since
nothing is taken from disk but by an upload that is cut off. `StageInv`: a row is `Ordered`, and a worker at stage s knows that the
stages before s are complete in the row it owns (`InPlace`), so that completing s keeps the
order; a retry that was read as failed at s still finds the row so (`Resumes`). This is where
Ownership comes in: without it the row may be another's by the time it is written. `StoreInv`
says for a document what the chunks and queues are given its row (`Follows`), for a request
that has read and not yet written that what it read is still so (`Sure`), and for a worker
past publishing that the knowledge base is what it published, and the row's keys those it read
(`Carries`). It breaks with a second request, which is what the hypothesis is for.

*Synchronization.* `RunInv` holds with every failure in play, because it relies only on
what the UPDATEs themselves compare. Besides the types it says that at most one run is active, that a run a
worker remembers is its own and one a file refers to has been claimed (`RunsKept`), and that a worker that still counts on COMPLETED has no file FAILED or
PROCESSING in its run but the one it is at (`NoneLeft`). `SyncInv` adds the claim
(OwnsRun), the attempts (`Budget`), and what a worker remembers (`Agrees`): a source it
works at is not deleted, files to arm have attempts left, the tags it is to store are not older than
those stored, what it downloaded is not older than the tags or the entities stored. `NothingAhead`:
nothing stored is ahead of the library. That downloads are as new as the tags is the heart
of EntitiesAreCurrent: tags are stored before the download, from a listing, and content only
gets newer, so what is persisted is never older than its tags; a zombie could persist under
newer tags, and only "stall" lets one live. Worker steps fall into those that change memory only (`Thinks`),
one file row (`Writes`) or the run, with a lemma for each.

*Prompts and models.* Neither property is inductive. `SetupInv` adds that a request marked
alone is (`Alone`), that one that is not has tangled the prompts (`Entangled`), and that an
activation that is alone and about to write has switched the others off (`Covered`). Every
request begins and ends in the same way, so one lemma (`BeginsSetup`) stands for the five
beginnings, two (`EndsSetup`, `MovesSetup`) for what happens to the requests at each
statement, and a lemma per statement for the tables.

*Schedule.* A write of `next_sync_at` is computed before the statement that makes
it, so ScheduledIffOn alone is not inductive. `ScheduleInv` adds what each writer knows: an
edit fits the columns it leaves alone and lies ahead (`EditFits`), a worker's run began today
(`RunIsOfToday`), and the schedulers at a pass agree on the hour, which is still the
source's if it is due, so that an undone claim restores it (`PassesAgree`). OncePerOccurrence follows
from a second invariant, `Unserved`: the schedulers at a pass hold the same occurrence, at
most one of them has the claim, and while it has, the occurrence comes after the one served last.
One lemma (`UnservedFrame`) covers every step that leaves the passes alone.

*Page permissions.* `NavInv` says for each table that pages come from which restricted pages may
be in it: a role's own rows have its defaults and what every role gets, rows still to be seeded
are defaults, the rows of a held role in an account and those of the user have in addition what a super admin
has granted. What a user reads is put together from these, one lemma per source.

*Access.* The types are inductive together with what requests have still to do. A request of an administrator
is a list of statements (`Statement`); that an account or a user stays in an organization that exists rests on the
foreign keys, which refuse the deletion of one that is referred to and a place in one that is not there
(`PlacesExist`). A request to sign up has at most five writes left, a code is never the last of them, since it is mailed, and
without a user only requests that create one have anything to write (`SignInv`). Codes
count as unused, newest and fresh by their place and number: what is chosen exists because the requests under way
are finitely many (`Greatest`, `UnusedNumber`). Lists that the code builds in a loop are flattened sequences, whose
type needs an induction: from the least element of a set of numbers (`LeastNat`, a case of the library's
theorem about well-founded sets), `UpTo` gives it without an operator as a parameter, and `FlattenSeqType` is its use.

*Bundles.* A step of a bundle is a step of the part in focus or leaves its variables alone, which one
lemma per part says (`ChatMoves`, `ZohoMoves`, ...), so an invariant of a part holds in the bundle.

*Chat, widget.* RecordsAgree is about what is on record, and the records of a question are written by
several statements of one request. `ChatInv` therefore says of each request how far it is: what it has
written (`Written`), that nothing is on record twice (`OneOfEach`), and of what is on record
the reason (`Reasons`). A message changes nothing of others, so every step is one request's. `ReportsFollow` says the
same of the reports of a widget turn.

*Alerts.* The throttle reads and writes the time of the last attempt in one step: `LastIsStored` says that the time
stored for a route is that of its last attempt, so attempts lie a window apart.
Recipients are collected in two steps, between which an alert remembers those of its organization: `StaffIsInside`.

*Vectors, prices.* A job reads the texts of its batch before the provider answers and writes the vectors
after. `AloneAtWork`: until two jobs overlap, the one at work holds texts the chunks still have; `QueueWaits`
gives that a job is taken from the queue once. A fetched price list is at least as new as the
time it counts from (`MadeBefore`), which is read before the await.

*Zoho session.* Only four steps remove what is stored; `ZohoInv` says that who is about to remove it
knows why, and that who is about to save has a session.

*Listings.* That a complete listing lacks nobody who stayed is about its end; on the way, a folder that was
seen waits in the queue, is being shown, or is done (`Lists`), where done means that whoever
is in it and has not moved is taken. Folders that stayed are in the root (`Unmoved`), and the root was seen
first.

*Files.* Each invariant says what is on disk where the work is. A download has its name only once it is over
(`DownloadInv`). A child at work belongs to the thread that has the slot and waits for it, so no other
thread and no later attempt reads its result (`ExtractionInv`). An upload's directory, while it is there, holds
what its request has counted, less the piece a thread is writing; once removed, it holds nothing, whichever
thread is still at work (`UploadHolds`; one lemma, `UploadMoves`, for every step). Of the backups finished, the
newest has all its pieces and outlives every prune (`BackupInv`, `NewestStays`).

*Vectors of a document.* While it asks, the texts before the batch have their vectors in order (`EmbedInv`). A reply of
as many rows as the batch has texts has a row for each, and sorted by their index they are the batch
(`RowsInOrder`).

*Services.* The lemmas about the transforms (`EnsureServesTheSame`, `SetServesAsAsked`,
`RemoveServesTheRest`) say what each does to what retrieval serves, for any keys; the theorem follows
since every step is one of them or a patch. The chain of events is inductive together with
the types, and with what a run has still to store being found (`FoundFirst`), because a status is compared and stored under the
row lock. A later version is put on record after its last statement and taken off before its first
DROP, so the ledger is true together with what a command under way has still to do (`LedgerInv`). A server
that is up has seen to every step (`SeenTo`), where others only add objects.

*Types of the services.* They follow from the invariants above and what those leave open: a folder waits once and
not while it is shown, and a listing that goes on is within its limit of items (`ShapeInv`); where a session is
and how often it has tried (`SessionInv`); a server that makes something is at a statement of its step
(`PlaceInv`); what is left of a migration is of its script, so a suffix of it (`TableInv`, `LeftOf`); a
batch ends within the texts (`EmbedBounds`). Queues and health checks bring theirs from `ServicesProofs`,
whose hypotheses `OwnConstants` shows to hold here; `QueuesAreOwn` and `ChecksAreOwn` say that an
instance's steps are the module's.

*Refinement.* The holder of an abstract item is the owner of a PROCESSING row while
that worker is at work (`HolderOf`). A crash or a failed record is `LetGo`, a recovery
`Interrupt`; every other step is one change of one item, or a stutter.

In the other refinement the stage of an item is read off its row, and who is at work are the
workers inside a run (`InRun`). What changes a worker's memory only is a `Leave` or a stutter (`ThinkMirrors`); what it
writes is a `Note`, `Begin`, `Mirror` or `Fail` of the item it is at, or a `Drop` of those it found gone
(`WriteMirrors`), and that a `Note` or a `Mirror` never goes back to an older content is `Advances`. A recovery, a release and a deletion of the source find
nobody at work, which is OwnsRun and the check for an active run.

*Only model-checked.* Liveness (EventuallySettled, Converges, DueIsServed, DeletionsEnd, PersonGetsIn, NothingHangs), which is out of the prover's
reach under fairness. What `Chunks` computes, folds over the document whose operators the prover does not see into
(`TransformsAreFaithful` but for its part `ServedAsAsked`).

## Disagreements

One run is expected to fail:

| Run | The code | What it says |
|---|---|---|
| `crm_stuck` | when `fail_file` raises and `finish_run` does not, the file stays PROCESSING under an ended run; with its budget used up it cannot be retried | `crm_sync.py:827`: "The file is being processed right now" |

One has a configuration that is not part of the runs and shows it on demand:

| Configuration | The code | What it says |
|---|---|---|
| `MCKbImport_republish_unpublish` | `unpublish` deletes chunks after reading a status that a republish has changed: PUBLISHED without chunks | `kb_store.py:8-11`: published documents are searchable |

In these a property is refuted once a constant of a run is changed:

| Property | Change | The code | What it says |
|---|---|---|---|
| `OnlyOwnerWrites` | `kb_admin` with "stall" in `Hazard` | `kb_repo.py:719` compares a row's status, not its owner: a worker recovered as stale goes on once another has claimed the row | `kb_import.py:90`: the document is no longer PROCESSING, "stop working on it" |
| `EntitiesAreCurrent` | `crm_safety` with `Hazard = {"stall"}` | `crm_repo.py:1379` compares the file's status, not its run: an old download completes a file armed with newer tags | `crm_sync.py:172`: no longer this worker's run, "stop working on it" |
| `NoActiveDuplicateQueued` | `kb_admin` with `Request = {r1, r2}`, `Doc = {1, 2}` | check and insert are two transactions without a constraint: both uploads are queued | `docs/document-intelligence-plan.md:249`: a duplicate fails |
| `InForceIsScheduled` | `schedule` with `Admin = {a1, a2}` | two administrators edit one source, each writes the columns it changed: the source is on and has no next sync | `schedule.py:9`: "A disabled schedule has no next run", an enabled one fires at the next `sync_hour` |
| `PromotionLasts` | `services`, none | every start of a server makes a trainee again of whoever was created as one (`auth_schema.py:47-58`) | `agents.py:97`: "User is already a full agent" |
| `UsersGo` | `access` with `Org = {o1, o2}`, `MaxOther = 2` | `delete_user_dependencies` passes over `AIVA_account_updates.created_by`: deleting the author of an announcement fails half-way | `organization_dependencies.py`: an "FK-safe order" |

The first two need a backend that is frozen for five minutes and then goes on (a
suspended machine, a blocked event loop) beside another one.

What else came up while modelling; where a name is given, the module states the property,
and TLC refutes it:

- *Prompts, models.* Two activations at once leave two prompts active (`OnePromptActive`), and
  since the version number that `load_active_prompt` orders by is never set, the database
  picks. A model linked between the UPDATE and the DELETE of its deletion makes it fail after the other
  accounts have lost it.
- *Sign-in.* An account that must reset its password cannot (`ResetIsAWayOut`): login refuses it
  until it does, and `request_password_reset` ignores accounts that are not ACTIVE. The
  failure counter is kept when a lock ends. `otp_max_resend_per_hour` is never reset by the hour. A
  sign-up cut between the user and the role leaves a user without one. Signing up again while pending sends
  codes past `otp_max_resend_per_hour`, which only `resend_signup_otp` compares (`otp_service.py:197-199`, 274, 326).
- *Organizations.* An account assigned by a super admin moves the user's organization and leaves the old
  memberships active.
- *Page permissions.* An empty saved set falls back to the defaults; an organization
  administrator's save removes pages a super admin granted; a seeding cut short is not resumed.
- *Chat.* The history is the oldest 20 messages, and the question is in it and sent twice. A client that leaves
  keeps its question on record without an answer. A session whose queues are all gone searches
  the whole corpus (`ChoiceIsKept`). `get_allowed_queue_keys` returns `allowed or catalog`
  (`agent_queue_access.py:97-102`): an agent whose assigned queues have all left the catalog may use every queue,
  and so may one whose rows are just replaced, between the DELETE and the INSERTs or for good when the
  request stops there.
- *Language-model client.* Retries never happen: `run_with_retry` repeats on error types that
  `_post_json` maps to outside of it. The circuit breaker is not used.
- *Embedding service.* Overlapping jobs leave a stale vector for good (`VectorsAreCurrentAnyway`);
  a job popped by a worker that dies stays QUEUED; a reindex deletes chunks of published documents.
- *Queue configuration.* `patch_corpus` and `reindex` read `config_json` and write it back whole
  without the row lock that `KbStore` takes (`docs/document-intelligence-plan.md:891`): a
  publication between the two is lost (`WritePatch` of `QueueConfig`, whose `served` starts anew there).
- *Alerts, prices.* The throttle starts before the mail is tried, and its key has no
  organization. A failed price fetch returns the copy read before the await; an older
  fetch can overwrite a newer list. Without SMTP, `ZohoMailSender.send` signs in synchronously
  (`zoho_mail.py:129`, 34-43), also for an alert: a sign-in that falls back to the browser holds up every
  request of the server for up to the 300 s wait for the callback.
- *Chunks.* Table rows of an overlap are repeated (`RowsAreNotRepeated`), which a comment in
  `chunking.py` rules out; a heading with nothing under it can be lost.
- *Extraction.* A child can be spawned after the kill of a shutdown (`NoChildOutlivesStop`). The
  comment "On failure out_path must not exist" (`extraction.py:298`) holds from that line on: a document refused before
  it (290-296) keeps the result of an earlier attempt. `kb_import.py` reuses a result only of a row whose
  extraction is COMPLETED, so nothing is lost by it.
- *Migrations.* A rollback of V001 cut short leaves its ledger row without tables, and "already
  applied" is the answer from then on; a V002 stopped before its ledger row lets V001 be rolled
  back under it.
- *Set-up at start.* A server that dies between a table and its index, or between a column and
  its default, leaves the second out for good.
- *Health, watchdog, backups.* The older result of two backends can overwrite the newer. A lost state file
  costs not only a repeated mail but the all-clear. A second backup removes the part file
  of one at work; a killed one leaves its dump.
- *Uploads.* A request cancelled while its part file is being opened can leave the file.
- *Zoho.* The callback stores the code before the state while the login polls; a stale failed
  refresh clears the session of a fresh login; the browser flow blocks the event loop. A transport error clears the
  saved session (`auth_service.py:150-151`) when it is an error status (`ZohoTransportError`), so an
  outage that answers with an error page costs the session; a connection that fails raises an error of the HTTP library,
  which nothing catches, and ends the call with the session kept.

## Abstractions

- A transaction is one step, except where the code relies on a lock across statements
  (`soft_delete_source` in `SyncSchedule`).
- `CrmSync` takes a listing for one step; `GraphSession` has its pages, and shows what a
  complete listing still guarantees.
- A pass over stale rows is short against the threshold (comment at `GoStale`);
  `recover_stale_runs` selects and updates in one step, as its UPDATE compares staleness again.
- `mark_files_deleted` works in chunks of ids; with one item there is one chunk.
- Worker ids are fresh at each start, so a stopped worker does not return: `Worker` is
  the number of starts.
- `set_file_stage` calls between `Download` and `Persist` expect PROCESSING as `Persist`
  does; they could only abandon a run earlier.
- A file begun twice beyond its budget by a zombie is bounded by the guard in `Begin`.
- A time of `SyncSchedule` is a day and an hour of it, in a fixed time zone; a run ends on the day it began.
- Of the objects that the set-up at start makes, one index stands for those of a table and
  one column for those a step adds one after another.
- Texts are numbers of characters in `Chunks` and versions elsewhere; metrics, counters
  for the UI, audit and error logs, and the fields of entities are left out where no decision
  reads them.

*Not modelled.* `crm_extraction.py`: a pure function of a document's text, whose outcome is a
stage outcome in `CrmSync`. The routers, schemas, settings and helpers of document
intelligence: they parse requests, check rights and pass them to the services the
flows model. Logs, statistics and system health: they append or read, and no decision
depends on them. The `crm-document-ingestion` package but for its Graph client: a batch
tool with the same extractors. The frontend and the deployment files. Within the modelled
components, queries for listings and statistics, validation of fields, and the words of
messages.

## Plan

1. *Done:* both flows, with refinement and proofs of flow 1; schedule; Graph sessions,
   extraction, uploads, chunking and embedding, health, migrations, set-up, scripts; access,
   chat, prompts, embedding service, alerts, prices, widget.
2. *Done:* the safety properties of both flows, of the schedule, of everything that answers a question, of page
   permissions, queues, events, the Zoho session, listings, files, migrations and the set-up at start, and the types of
   everything that is bundled, as theorems.
3. *Done:* an abstract CRM mirror that `CrmSync` implements, with proof.
4. Runs of their own for the parts of the bundles that are worth larger instances.
