# ContactGraph in TLA+

ContactGraph imports a person's contacts from Google, phone and LinkedIn exports into a PostgreSQL graph of persons and
companies that all users share, enriches what is in it, shows each user the contacts of those who trust the user, discovers job
postings at the contacts' companies and scores them. The server is one FastAPI process (REST, OAuth and MCP) with many
coroutines on one event loop; background work runs as `asyncio` tasks in that process, or, with `use_arq_worker`, as arq jobs in a
second process that shares PostgreSQL and Redis. This directory models how that state is changed and read: where several coroutines,
sessions or processes meet on it, and what a sequence of calls makes of it. Paths below are relative to
`src/packages/server/src/contactsafe_server/` (`services/` is its subdirectory) unless they start with another package.

| file | what it is |
| --- | --- |
| `SourceSync`, `SourceSyncProofs` | one data source: requests, the in-process sync task, recovery, cancel, restart |
| `ImportWriteLock`, `ImportWriteLockProofs` | the per-user advisory lock over the connection pool |
| `ItemLife` | what the enrichment queue promises of its items, as an abstract specification |
| `EnrichmentQueue`, `EnrichmentQueueProofs` | the per-person queue, the runs of users, the worker pool; in the checked instance it implements `ItemLife` |
| `JobScoring`, `JobScoringProofs` | scoring runs, cancellation, progress, arq |
| `Accounts` | the constant set of users that the modules below share |
| `TrustRelation` | what a trust list promises, as an abstract specification |
| `TrustList` | invitations, answers, removals and the cap, in calls that race; implements `TrustRelation` |
| `NetworkViews` | the tables of contacts and whom each view takes from them, as operators |
| `SharedReads` | imports, labels, trust and merges that commit between the statements of a request |
| `SignIn` | connect sessions, callbacks, codes, tokens, deletion of accounts |
| `SharingProofs` | proofs about `TrustList`, `NetworkViews`, `SharedReads` and `SignIn`, and about the three instances together |
| `ContactImport` | what imports make of contacts: persons, handles, observations; stops, retries and a merge in between |
| `PersonDedup` | how duplicates are grouped and merged |
| `PersonProfile` | claims about a person, their ranking, the computed row, edits by hand, enrichments |
| `PersonProofs` | proofs about `ContactImport`, `PersonDedup` and `PersonProfile` |
| `OrgEnrichment`, `OrgEnrichmentProofs` | the runs that enrich companies, in either process |
| `JobBoard` | monitored lists, scans, postings, matches, the mail of new matches |
| `NextSteps` | derived steps and outreach tasks, on top of `JobBoard` |
| `JobEvents` | events of scoring runs on their way to a page of the web application |
| `JobProofs` | proofs about `JobBoard`, `NextSteps` and `JobEvents`, and about the seven instances of `MCRecords` together |
| `MC*.tla`, `*.cfg` | instances for TLC. `MCSharing` puts three modules into one run and `MCRecords` five; the others add symmetry sets or values of constants |
| `PROJECT.json` | components, runs, mutants, the map from definitions to source lines, findings, hazards, theorems |

## 1. Inventory

### Work in the background

**Source sync** (`services/source_service.py`, `services/import_scheduler.py`, `actions.py`, `oauth/router.py`).
State: the row of `sources` (`sync_state`, `upload_payload`, `sync_error`), the process-wide set
`_active_sync_source_ids`, the detached task of a sync. Operations: upload a file, connect an account, request a sync,
list sources (which recovers orphans), cancel, the task with its progress commits and its failure path. Interactions: the
request schedules the task *before* it claims the row and before it commits; both write the same row in sessions of
their own. Hard: interleavings between any two awaits, stale ORM attributes, row locks held across waits, restarts that
lose the active set. Correct when: no dead task blocks the source, an orphan is always taken over, everything ends, an
upload is not lost, failures reach the row, a cancelled sync stops.

**Import write lock and connection pool** (`services/import_write_lock.py`, `services/file_upload_import_service.py`,
`db/connection.py`). State: advisory locks of PostgreSQL connections, the pool's FIFO queue and overflow, which session has
which connection. Operations: take and release the lock around an upload import, commit progress in between, fail in and
out of the section. Hard: the lock belongs to a connection but a commit gives the connection back. Correct when: the
imports of one user exclude each other, the lock stays with the section it was taken for, nobody waits forever.

**Enrichment queue and runs** (`services/enrichment_queue_service.py`, `enrichment_service.py`,
`enrichment_scheduler.py`, `contact_enrichment_poller.py`, `contact_enrichment_worker.py`, `actions.enrich_person`). State:
one `enrichment_queue_items` row per person, shared by all users; `enrichment_runs` per user; the set of users with a
task; the worker pool. Operations: start and read a run, enqueue, claim with `FOR UPDATE SKIP LOCKED`, complete, defer,
fail, settle the run. Hard: a row that belongs to whichever run touched it last, counts that do not see uncommitted rows,
deadlocks between tasks that lock rows in different orders, orphans of a restart. Correct when: one task per user, one
worker per person, a run is complete only when its items are settled.

**Company enrichment** (`services/org_enrichment_service.py`, `org_enrichment_scheduler.py`). State: `org_enrichment_runs`, the
set of users with a task in the process, arq jobs and the keys their results keep, the companies enriched within the cooldown.
Operations: start, cancel and read a run, recovery of a run not heard of for five minutes, the task, the scan of all companies,
the job of one. Hard: the task is made before the row is committed, outlives its run's cancellation, and may be lost, ignored or
cut off. Correct when: a user's companies are searched by one task at a time, and a run that is shown ends.

**Job scoring** (`services/job_relevance_service.py`, `queue.py`, `redis_state.py`, `worker.py`). State: the user's
preferences, `user_job_relevance`, a cancellation flag in memory and one in Redis, a progress key, the arq queue with job
ids and kept results. Operations: change preferences (rescore by formula, or delete everything and score again), upload of
a profile, discovery of postings, scoring runs in either process, cancel. Hard: flags of an earlier cancellation, two
runs of a user, deduplication by job id, restarts between two steps. Correct when: no run dies on the primary key,
progress is cleared, scores come to follow the preferences.

**Job discovery, company lists and digest** (`services/job_discovery_service.py`, `job_discovery_scheduler.py`,
`theirstack_webhook.py`, `org_list_service.py`, `job_digest_service.py`). State: monitored lists, postings, the companies scraped
within the cooldown, scores with the times they were made, the watermark `last_digest_at`. Operations: lists and monitoring, scans,
scrapes, the webhook, scoring, collecting who is due, building, sending and recording a mail. Hard: a scrape and a webhook on one
posting; a mail that is refused, cut off or sent again while scores are committed. Correct when: the watermark passes no match that mail
has not told of.

**Event buses** (`events.py`, `job_event_publishers.py`, `graph_event_publishers.py`, `api/router.py`,
`src/apps/web/src/lib/use-job-events.ts`). State: queues of connections, detached publishing tasks, listeners, a page's state. Hard:
the order of a queue's registration, the reading of progress and the events; Redis in between. Correct when a page shows as active only what is.

### The shared graph

**Entity resolution and imports** (`services/entity_resolution.py`, `file_upload_import_service.py`, `import_service.py`,
`google_*_import_service.py`). State: persons, the handles that name them, observations of users, caches of one import, sync
tokens. Operations: resolve a contact, add or rename a person, write an observation, commit every so many contacts, stop, run again. Hard:
caches that others' imports and merges make stale; what a run that stopped has and has not committed. Correct when: no contact that a source which is done takes in is missing.

**Deduplication** (`services/person_dedup_service.py`). Four passes, each over groups it read before it merged any; a merge moves what
refers to a person table by table. Correct when: only persons with evidence become one, repeated runs leave none, and no user loses a contact or a label.

**Claims and profiles** (`services/claim_writer.py`, `employment_ranking.py`, `person_profile_recompute.py`, `contacts_service.py`,
`contact_enrichment_engine.py`, `contact_enrichment_worker.py`). State: claims of employment and attributes with their sources, the
computed row, queue items' strategies. Operations: edits by hand, uploads of a profile, enrichments, the ranking, which rewrites the
claims it ranks. Correct when: an edit by hand prevails while it is fresh, and ranking settles.

**Trust lists** (`services/trust_list_service.py`). State: invitations and memberships with unique keys, and a cap of 20. One call takes many
operations in one transaction. Hard: rows that remain after an answer or a removal, the failure of one operation, calls that answer each other.
Correct when: trust is asked for before it is given and withdrawn for good; every call ends.

**Contacts and network queries** (`services/contacts_service.py`, `strong_tie_*.py`, `network_query_service.py`,
`target_companies_service.py`, `graph_summary_service.py`, `next_steps_service.py`). No state of their own; nine services count and list the same
contacts with queries of their own, over several statements. Correct when: a request shows no contact that was private throughout
it, and a merge of duplicates takes nobody out of a view.

**Next steps** (`services/next_steps_service.py`). State: interests, `user_tasks`, what a user has marked. Every look derives tasks and writes
them. Correct when: what is done or skipped is not asked for again.

**Accounts** (`oauth/router.py`, `services/oauth_service.py`, `oauth_server_service.py`, `connect_session_poll.py`,
`actions.delete_user_account`). State: users, identities, credentials, sessions, codes, refresh tokens. Hard: callbacks that race for one
address or session, an account deleted between a read and a commit. Correct when: tokens go to whom Google has vouched for, and no account is out of reach.

### The parts without state of their own that matters here

The query planners turn a question into filters (`SharedReads` lets a query show any of the contacts it reads). The rate limiter is one step without an await.
Worker status reads flags and times. The API and MCP layer checks arguments and calls `actions.py`; `main.py` decides which background tasks
exist. Configuration, models, migrations and core enumerations give constants and constraints their meaning. Clients and parsers turn answers
and files into records.

`PROJECT.json` lists all of them with their status, and the forty hazards that matter most, each at its line.

## 2. Plan

Order, most important first. Steps 1 to 12 are done.

1. `SourceSync`: the life of one source. Everything a user sees goes through it.
2. `EnrichmentQueue`: the queue, its runs and pool.
3. `ImportWriteLock`: what two sources of one user share. It is kept apart from `SourceSync`, because a source row and a pool
   connection meet only in the import's section: `SourceSync` has the row lock that is held while the import waits,
   `ImportWriteLock` the wait itself.
4. `JobScoring`: requests and runs over one user's scores, with and without the worker.
5. `TrustRelation`, `TrustList`: the promised relation and the calls that implement it.
6. `SignIn`; `NetworkViews` and, on top of it, `SharedReads`.
7. `ContactImport`, `PersonDedup`, `PersonProfile`: what is written about persons.
8. `OrgEnrichment`; `JobBoard` and, on top of it, `NextSteps`; `JobEvents`.
9. Theorems about `TrustList` with its refinement, `SignIn`, `SharedReads` and `OrgEnrichment`.
10. Theorems about the modules of steps 7 and 8; lemmas on `ClaimExclusive` and `CompleteIsSettled` for one user who only starts and reads runs.
11. `ItemLife`, the promised life of a queue item, and the lemma that such a user's queue implements it.
12. Theorems about merges and shared contacts, and about the instances as `MCSharing` and `MCRecords` compose them.
13. The deletion of an account composed with running imports and enrichments; the graph events up to a page.

An abstract specification of a source (idle, running or settled; a request starts or joins a run) was planned and given up. Section 7 shows
that two requests break it in several ways, and with one request there is nothing left of it that could go wrong: what does hold with several is
`SlotHasTask` and `RecoveryClaims`.

## 3. How the modules correspond to the code

### Sessions

All modules share one view of SQLAlchemy over PostgreSQL at READ COMMITTED. A session reads committed rows and its own
uncommitted ones; its identity map keeps the attributes it loaded (`expire_on_commit=False`, so also beyond a commit);
a flush writes only the attributes that changed since the load (`Merge`), and holds the row's lock to the commit or
rollback. One action is one step between two points at which something else can run: an `await` on the event loop, or a statement of
another process. Code between two awaits is one action.

### SourceSync

| TLA+ | code |
| --- | --- |
| `row`, `owner`, `pend` | the `sources` row, its row lock and uncommitted version |
| `base`, `mem` | the ORM object of each session: as loaded, as set |
| `active` | membership in `_active_sync_source_ids` (`import_scheduler.py`) |
| `content`, `imported` | the text a task decrypted; the uploads whose import was committed (history) |
| `UploadRead`, `StorePayload`, `CommitPayload` | `upload_source`/`upload_contacts`: select or insert, new payload, first commit |
| `ConnectRead`, `ConnectInsert` | the OAuth callback and `ensure_google_mail_source` |
| `RequestSync`, `TryClaim`, `CommitRequest` | `request_sync`: checks, `_recover_orphaned_sync`, `schedule_source_sync`; `_try_claim_sync`; the end of the request |
| `ListRead`, `ListRecover`, `ListCommit` | `list_sources` with recovery |
| `CancelRead`, `CancelCommit`, `CancelRelease` | `cancel_sync` |
| `TaskLoad` … `TaskCommit` | `_run_sync_task` and `run_sync`: load, `SYNCING`, decrypt, `_commit_progress`, refresh, `COMPLETE` |
| `TaskFails`, `FailLoad`, `FailSave`, `FailFails` | the two failure paths: uploads record the failure themselves, Google imports raise and are rolled back, `_mark_source_sync_failed` |
| `TaskRelease` | the `finally` of the task: `release_sync_lock` |
| `Restart` | the process stops: open transactions roll back, active set and tasks are gone |

A request schedules at most one task, so the task is named after its request. An upload is named after the request that
sent it. What stays out: counting of rows, credentials (a missing one is a failure), the encryption of the payload.

### ImportWriteLock

| TLA+ | code |
| --- | --- |
| `idle`, `PoolSize`, `Conns` | the FIFO queue of the pool, `database_pool_size`, that plus `database_max_overflow` |
| `conn` | the connection a session has between its first statement and its commit or rollback |
| `holds` | advisory locks: per connection and user, re-entrant counts |
| `Open`, `OpenTimesOut` | first statement; `pool_timeout` |
| `EnterSection`, `LeaveSection` | `pg_advisory_lock` and `pg_advisory_unlock` of `user_import_write_lock` |
| `CommitProgress` | `_commit_progress`: commit, and the refresh that takes a connection again (`Swap`) |
| `CommitEnd` | the commit of the caller, after the lock was released |
| `FailEarly`, `FailInSection`, `AbortInSection`, `RecordFailure` | the error paths, with a usable or an aborted transaction |

Contacts (phone, LinkedIn connections) commit as they go, profiles (LinkedIn profile) do not. Google imports do not take the
lock and count as other sessions. The pool's reset on return is a rollback, which keeps session-level advisory locks; a
connection above the pool's size is closed and loses them.

### EnrichmentQueue and ItemLife

| TLA+ | code |
| --- | --- |
| `item`, `owner`, `pend`, `snap` | `enrichment_queue_items`: committed, locked, uncommitted, as loaded by a session |
| `run`, `draft`, `held` | `enrichment_runs`: committed, inserted or failed but not committed |
| `active` | `_active_enrichment_user_ids` |
| `StartRead`, `StartCheck`, `StartSchedule`, `StartCommit` | `start_enrichment`, with `_recover_orphaned_run` and `schedule_enrichment` |
| `StatusRead`, `StatusSave` | `get_enrichment_status` |
| `EnqueueRead`, `EnqueueFlush`, `EnqueueCommit` | an enqueue without a run, by an import, a scrape of strong ties or `enrich_person` |
| `EnrichSelect` | `enrich_person` looks for a `PENDING` item and does not claim it |
| `TaskBegin` … `TaskRelease` | the task of a run: contacts one by one in one transaction |
| `Claim`, `WorkerLoad` | `claim_next_item` in a transaction of its own, then a second session |
| `Strategy`, `Finish`, `Count`, `Save` | strategies, `mark_complete`/`mark_failed`, `_update_run_progress`, commit |
| `EnrichFails`, `Reload`, `EnrichGivesUp` | rollback, `mark_deferred`, and its failure |

Nothing in the repository calls `start_enrichment_poller`; `Workers = {}` is the server as `main.py` starts it, a
non-empty set is the poller as its module is written. Priorities and `next_attempt_after` are abstracted: a claim takes
any pending item. What an earlier import may have left is chosen by `Earlier`: items that were put off once (`PutOff`; with one try allowed, given up).

`ItemLife` has for each item a status and the tries it has used, and for each worker the item it has. Items are asked for together (`Ask`), taken one by one
(`Take`), returned with an outcome (`Return`), and let go as they are when a worker gives up or the process stops (`LetGo`). `QueueRefines` maps to
it the committed status and attempts of `item`, and `at` of the workers: sessions, locks and what is not committed are gone. A `Claim` is a `Take`, a `Save` a
`Return`, a `TaskCommit` an `Ask` of the items it changed, `EnrichGivesUp` and `Restart` are `LetGo`; every other step changes nothing of it. An item
that was let go stays IN_PROGRESS, as in the code, and is not taken again.

### JobScoring

| TLA+ | code |
| --- | --- |
| `prefs`, `score` | the preferences and `user_job_relevance`, as the versions a score was made from |
| `basis`, `Scorable`, `DeleteAccount` | what the user row gives to score by: a role text, a profile (a person or suggested roles), nothing; or the account is gone |
| `memory`, `flag`, `setting` | `_scoring_cancelled` of the server, the Redis key, the detached tasks that will set it |
| `run`, `todo`, `posting`, `results` | scoring runs, what they listed, the batch they wait for, arq's kept results |
| `progress` | the progress key clients poll |
| `SavePreferences`, `RescoreRead`, `RescoreRows`, `RescoreWrite` | `set_job_preferences`, `rescore_existing_matches` |
| `CancelScoring`, `SetCancelled` | `cancel_scoring` |
| `Enqueue`, `EnqueueFails`, `Dequeue` | `enqueue_background_job` with its fixed `_job_id`, or a task of the process |
| `CommitUpload`, `Discover` | a profile import that enqueues before it commits; a scrape that commits before it enqueues |
| `DeleteScores`, `Begin`, `ListJobs`, `CheckCancelled`, `ClassifyBatch`, `BatchUnanswered`, `Complete`, `RunFails` | `reclassify_all`, `classify_jobs_for_user` with its early returns, and the ends of its loop |
| `Announce`, `AnnounceFails`, `ClearProgress`, `ClearFails`, `ProgressExpires` | `_set_progress` before the `try`, `_clear_progress` in its `finally`, and what is left when a call of Redis fails |
| `FlagExpires`, `ResultExpires`, `WorkerRestart`, `ServerRestart` | Redis time-to-live, arq's result retention, crashes |

A batch is one posting. With the worker, the in-memory set that a run discards from is the worker's, which is always empty,
hence `DiscardedMemory`. The limit of 500 postings per run is left out: no instance has as many.

### TrustList and TrustRelation

| TLA+ | code |
| --- | --- |
| `joined` | the users; anybody's address may be invited |
| `invite`, `membership` | `trust_list_invites` by sender and invitee, `trust_list_memberships` by pair, with their unique keys |
| `call` | an open call of `edit_trusted_users`: what is left of its operations, what it has written, the members it counted |
| `SignUp` | a user signs up; the invitations to the address find it (`_resolve_user_by_email`) |
| `OpenCall` | `edit`: the operations in the order add, remove, accept, decline |
| `AddMember`, `RemoveMember`, `Answer` | `_create_invite` with the cap, `_remove_member`, `_accept_invite` and `_decline_invite`, up to their writes |
| `NotApplicable` | the operation is recorded as an error and the next one is taken |
| `WriteRows`, `Exists`, `WaitsFor` | the flush: it waits for a row another call has written; the insert of a key that exists fails the whole call |
| `CommitCall`, `DeadlockVictim` | the commit of the request; PostgreSQL ends one of the calls that wait for each other |

A call sees committed rows under its own. In `TrustRelation` a pair is asked, then trusts, then no longer; `TrustRefines` maps an invitation of
any status to *asked* and a membership to the pair's trust.

### NetworkViews and SharedReads

| TLA+ | code |
| --- | --- |
| `persons`, `obs`, `about`, `org` | `persons`; `user_person_observations` (kinds and flags); aliases, claims of the scraper and numbers; `current_org_id` |
| `me`, `private`, `friends` | `users.person_id`, `contact_privacy_labels`, active memberships |
| `InNetwork`, `GetPerson`, `OwnOrgPeople` | `ContactsService`: the list of people, a person's page, a company's |
| `StrongTies`, `ListedTies`, `Unscraped` | `strong_tie_matcher`: what its query counts, what it lists, what is left for the scraper |
| `OutreachContacts` | `NextStepsService`: whom to write to about a posting |
| `SharedPeople`, `SharedOrgs`, `SharedSummaries`, `SharedOrgPeople`, `BridgeContacts`, `ExecutePlanRaw`, `Insiders` | what the statements of each service select of the contacts of one trusted user |
| `Import`, `SetPrivacyLabel`, `EditTrust`, `MergePerson` | what commits meanwhile |
| `Begin`, `PassAgain`, `ReadMembers`, `ReadLabels`, `SkipMember`, `ReadContacts` | the statements of a request, friend after friend; two answers go over the friends twice (a list of companies is given names, the page of a posting its contacts) |
| `wasFriend`, `wasOpen` | history: whom the request could have seen as trusted, and which pairs as not private |

Where an answer is cut to a number of rows, it shows any part of what it found (all but `Whole`, the lists without a limit). `MergedRow` is
`_merge_observation`: the kinds and flags of both rows, but the classes of noise are the survivor's. `MergedAliases`: the merged person's
first LinkedIn URL is that of either.

### SignIn

| TLA+ | code |
| --- | --- |
| `accounts`, `used`, `identity`, `cred` | `users` (ids are not reused), `user_identities`, valid `oauth_credentials` |
| `session`, `code`, `refresh` | `connect_sessions`, `authorization_codes`, `refresh_tokens` |
| `CreateConnectSession`, `CreateAuthorizeSession`, `AlreadyConnected` | sessions for a poll, for a client, and of a user whose credential is still valid |
| `ReadSession`, `ResolveOrCreateUser`, `Wake`, `UpsertCredentials`, `CompleteOAuth`, `CreateCode`, `CallbackFails` | `/oauth/callback`, with the insert of an identity that waits for another callback's |
| `PollConnect`, `ExchangeCode`, `MintTokens` | a poll or an exchange reads, then commits tokens |
| `DeleteUserAccount` | `delete_user_account` and its cascades |
| `consented` | history: for whom a callback of each session ended, or a stored credential that Google still honours (`CheckExisting`) opened it (`AlreadyConnected`) |

### ContactImport

| TLA+ | code |
| --- | --- |
| `person`, `alias`, `observed` | `persons`, `person_aliases` (unique), `user_person_observations` |
| `sourceKind`, `book`, `token` | one of five kinds of source, the contacts it holds, what a sync token leaves out |
| `import`, `tx` | an import's progress and caches; its open transaction |
| `StartImport`, `Ingest`, `CommitProgress`, `NextPhase`, `CompleteImport`, `FailImport` | `run_sync` of each kind |
| `Accepts` | what the parsers and loops of each kind pass over: a connection without a LinkedIn URL, a correspondent or guest without an address |
| `FirstKnown`, `Matches`, `NamedSo` | `EntityResolver`: the owner of the first handle of a contact that is known, in its own form or the normal one; or else somebody of its name |
| `AddsAlias`, `EnsureAliases` | `_ensure_aliases`: which handles become aliases when they are added one after the other |
| `MergeReads`, `MergeEnds` | `_merge_person` of a deduplication that runs meanwhile; it reads, then writes |
| `BookGrows` | Google has another contact |
| `lost` | history: references that were written to a person while it was merged |

### PersonDedup and PersonProfile

| TLA+ | code |
| --- | --- |
| `title`, `holder`, `primary`, `facts`, `linked` | a person's name, aliases, address, rows of other tables, threads in common |
| `DedupForUser`, `NextPass`, `MergeGroup` | `dedup_for_user`: by name, number, address; groups read when the pass begins |
| `NextShorter`, `ComparePair`, `Continues` | `_dedup_by_name_containment` with its identity keys; `cursor` is the shorter person's loaded row, with the name and address it had if it has been merged since |
| `Survivors`, `MergeInto` | `_pick_survivor`, `_merge_person`; equal ranks are left open |
| `Abandon` | an error rolls the run back |
| `claims`, `attrs`, `row` | `employment_claims`, `person_attribute_claims`, the computed columns of `persons` |
| `session` | open transactions, with the claims their recomputation has read |
| `UpdatePerson`, `SaveExperience`, `DeleteExperience`, `UploadProfile` | edits by hand and a profile upload |
| `BeginEnrichment`, `Strategy`, `Confident`, `DeferEnrichment` | `enrich_one` and `run_strategy`; `tried` is the attempt tracker |
| `Authoritative`, `Better`, `Winner`, `Normalized`, `Recomputed` | `employment_ranking`, `person_profile_recompute` |
| `Order` | which of two claims of one tier and age comes first in `rank_employment_claims`: by confidence, then in the order of the query; taken to be the same each time |
| `CommitProfile`, `AbortProfile`, `Tick` | commit, rollback, half a day |

`pinned` and `raced` are history: the last edit by hand, and whether a transaction that began before it was committed after it.

### OrgEnrichment

| TLA+ | code |
| --- | --- |
| `orgRun`, `orgTask`, `asked` | `org_enrichment_runs`, their tasks, requests between the check and the insert |
| `slots`, `kept` | the process's active set; the job keys arq keeps taken with their results |
| `company`, `recent` | the jobs of single companies; those within the cooldown |
| `AskEnrichment`, `StartEnrichment`, `CommitRun` | `start_enrichment` and the commit of `enrich_orgs` |
| `GetStatus`, `FiveMinutes`, `CancelEnrichment` | `get_status` with `_recover_stale_run`, time, `cancel_enrichment` |
| `TaskBegins`, `TaskNext`, `TaskSearched`, `TaskSlips`, `TaskEnds`, `TaskFails` | `enrich_orgs` of the task, whose session keeps the row as it first read it |
| `ScanCompanies`, `AddWatchedCompany`, `CompanyBegins`, `CompanyEnds` | the scan of all, a company added by hand, the arq job of one |
| `CooldownEnds`, `ResultForgotten`, `ProcessStops` | time; a crash, after which arq begins its jobs again |

### JobBoard, NextSteps and JobEvents

| TLA+ | code |
| --- | --- |
| `monitor`, `posting`, `scraped`, `scrape` | lists and settings, `org_jobs`, cooldowns, scrapes at work |
| `SetMonitorConfig`, `AddToList`, `RemoveFromList`, `DeleteList`, `Unsubscribe`, `SetNotificationPreferences` | what a user sets; monitoring that is switched on may queue the scrapes of the companies (`Queued`) |
| `GlobalScan`, `DiscoverSingleOrg`, `ScrapeReads`, `ScrapeWrites`, `ScrapeFails`, `TheirStackWebhook` | how postings are found and closed |
| `match`, `batch`, `ScoreBegins`, `ScoreCommits`, `ReclassifyAll` | scores and the transaction that makes them |
| `rescore`, `RescoreReads`, `RescoreCommits`, `RescoreFails` | `rescore_existing_matches`: other weights change levels and keep the times |
| `CollectDue`, `CountMatches`, `ListMatches`, `MailGoes`, `DigestEnds`, `MailRefused`, `DigestCut` | the mail, which counts in one statement and lists at most `MaxListed` in another, and its watermark |
| `interest`, `task`, `overrides`, `look`, `opinion` | `user_job_feedback`, `user_tasks`, marked steps, requests between read and write |
| `GetNextSteps`, `Reconcile`, `LookFails`, `UpdateTaskStatus` | `NextStepsService` |
| `SetJobInterest`, `InterestSet` | `set_job_interest`: it reads the interest and the task, and commits later |
| `SetupMoves`, `ReachMoves` | what is set up, and who can be reached, changes elsewhere |
| `scoring`, `progress`, `wire`, `page`, `shown` | runs, the progress key, publishing tasks, connections with queues, the page's state |
| `RunBegins` … `RunFails` | `classify_jobs_for_user` as far as it publishes |
| `PublishRedis`, `PublishFails`, `ListenerFails` | a detached publish and a listener of the bus |
| `OpenStream`, `Subscribe`, `FirstEvent`, `NextEvent`, `CloseStream`, `LoadPage` | `/events/jobs` and `useJobEvents` |

`NextSteps` extends `JobBoard`: its tasks follow the postings and scores there. `announced`, `unseen` and `astray` are history.

## 4. The runs

Every passing run has a finite state space that TLC explores completely. Symmetry is used only in runs without liveness
properties. Deadlock checking is off throughout: each request arrives once, and when all have been served the modelled system
stops; that nobody stops earlier is what `TasksEnd`, `RequestsEnd`, `WorkEnds`, `ImportsEnd`, `SessionsServed`, `CallsEnd` and `RunsEnd` say.

| run | instance | question | result |
| --- | --- | --- | --- |
| `sync_safety` | 2 requests of any operation, either kind, failures, 1 restart, 1 progress commit | `SlotHasTask`: no dead task blocks a source. `RecoveryClaims`: a request that finds an orphan wins its claim | hold |
| `sync_progress` | the same without failures and restarts, fair | every task ends, every request is answered, although both hold and wait for the row lock | hold |
| `sync_upload_lost` | 2 uploads | `UploadNotLost`: an upload leaves the row only by being imported | **violated**: section 5 |
| `enrich_pool` | 1 user, 2 persons (one put off before), 2 requests that start or read runs, 2 workers, failures, 1 restart, 2 retries | `ClaimExclusive`: one worker per person. `CompleteIsSettled`: a complete run has no item at work. `QueueRefines`: items live as `ItemLife` says | hold |
| `enrich_users` | 2 users, 2 persons, 2 requests that start, enqueue or enrich, no pool, 1 restart, fair | `OneTaskPerUser`; `WorkEnds`: tasks and requests end although they lock rows in different orders | hold |
| `lock_mixed` | 2 users, 2 contact and 2 profile imports, 1 other session, 3 connections (1 overflow), failures, 2 commits | `FirstTransactionExclusive`; `LocksLeft`: a lock outlives its section only through a progress commit or an aborted transaction | hold |
| `lock_profiles` | 2 users, 3 profile imports, 1 other session, 2 connections (1 overflow), fair | `ImportsEnd`, `SessionsServed` | hold |
| `scoring_arq` | 2 postings, 2 requests of any kind, worker, failures, 1 restart of either process | `InsertsSucceed`: no run meets the primary key | holds |
| `scoring_fresh` | 2 postings, 3 requests, one after the other, server process, fair | `FreshScores`: scores come to follow the preferences, as long as a role text or a profile gives something to score by | holds |
| `sharing` | 2 users; three instances, below | `AnswersMatch`, `TrustRefines`, `CallsEnd`; `PrivateIsHidden`, `MergeKeepsContacts`; `TokensFollowConsent`, `AccountsReachable` | hold |
| `org_runs` | 2 users, one without strong ties, 2 companies, 2 runs, 1 stop of the process, either process, fair | `OneSearcher`, `RunsEnd` | hold |
| `records` | seven instances, below | `ContactsKept`; `MergesHaveEvidence`, `RoundsConverge`; `ManualWins`, `NormalizeSettles`; `MatchesAnnounced`; `SettledStays`; `ShownIsUnderWay` | hold |

Each run with an invariant also checks the types of its variables (`TypeOK`, `SharingTypeOK`, `RecordsTypeOK`; `OneSearcher` includes them).

`sharing` has one variable `part`, and a behaviour moves the instance it names; the instances share no variable.
*trust*: 3 calls of up to 2 operations, 2 at a time, with a cap of 1. *reads*: a request for any of the views, of one pass or two, from any of a few
tables of 2 persons and 1 company, against up to 2 changes: uploads of LinkedIn and of Gmail's correspondents (`Imports`, `Mails`), labels, trust, merges.
*signin*: 2 addresses, 2 sessions, 2 callbacks and 2 polls, with deletions.

`records` is built the same way. *imports*: 2 sources of 2 users (LinkedIn with Google Contacts, phone with Gmail, LinkedIn with calendar),
4 rows of persons; a contact with a URL and an address, alone, with one who has another form of the URL, or with one who has the address only;
commits every 2 contacts, 3 runs in all, 1 merge.
*dedup*: three persons with every combination of 4 names, addresses and numbers in two forms, profiles and threads, and one table in which a group is inside
another. *profile*: 1 editor, 2 transactions, 2 employers, 4 kinds of sources, 3 strategies, two days. *board*: lists and scans, 1 user, 1 company,
2 postings from two sources. *mail*: scores and mails of one match each (`MaxListed`), while a scan and a batch of scores are under way. *steps*: likewise,
with 2 requests that look or give an opinion.
*events*: 2 scoring runs, 1 page.

Every property also has a mutant: a definition of the model changed as a plausible bug would change the code (a slot not
released, a claim that is not recorded, an unlock left out, labels of the wrong user read). TLC finds each property violated under its mutant
in the same instance, so the instances are large enough for the hazard to occur. The changed definitions stand before the ones
they replace, marked as plausible slips.

### Bounds, and why they are enough

- *Two requests* on a source, a queue or a user's scores: the hazards found in the code are between two parties (a request and a task,
  two requests, two tasks); each request brings its own task, so four sessions act on a row. `scoring_fresh` has three,
  because a flag or a row left by one request may be met two requests later.
- *Two persons* are the fewest that can be locked in opposite orders, and let a run have a settled and an open item. *Two workers* are the
  fewest that can claim the same item. With `MaxRetries = 2` an item can be tried again and be given up; one of `Earlier` has used one attempt already.
- *Connections*: one more than the pool's size gives an overflow connection that is closed on return; three imports wait for two.
- `MaxProgress = 1`, `MaxCommits = 2`: a task that has committed once differs from one that has not; more commits repeat the same
  step. Two commits let a connection move twice.
- `MaxRestarts = 1`, `MaxStops = 1`: a restart leaves the same kind of state whatever came before.
- *Trust*: a pair of users has two invitations and one membership; two calls that name each other are a deadlock, a third meets the rows that are left. The proofs hold for any finite set.
- *Shared reads*: a request has three statements per friend, so two changes can stand on both sides of one; a merge, the longest change, is one of them.
- *Sign-in*: two callbacks for one address, for one session, or one each; the same for polls. A user deleted between the two steps of another request needs one each.
- *Company runs*: the second run is the one that meets what the first has left; `OneSearcher` is proved for any number.
- *Imports*: `Batch = 2` and `MaxResults = 2` leave one contact uncommitted or unread, and `MaxRuns = 3` runs one of the two sources again after it stopped. Four rows of persons are as many as two books can need.
- *Duplicates*: three persons are the fewest of whom two are brought together by the third, and of whom a group can have lost a member.
- *Profiles*: with `Recency = 1` and `MaxTime = 4` a claim goes stale and another is made after it. Two transactions race.
- *Mail*: `MaxClock = 4` lets two mails be sent with scores between them; with `MaxListed = 1` one of two matches is beyond the maximum.

### Fairness

`WF` of the steps of requests that have arrived, of tasks and of workers: they are coroutines of one event loop that never stops
scheduling a runnable one, and calls to services have timeouts. Nothing has to arrive, fail, restart or expire. Waiting for a row
lock is weakly fair in `SourceSync` and `EnrichmentQueue`; that is enough, since no instance lets a lock be taken again and again. Waiting for a connection or
the advisory lock is strongly fair (`SF`): the pool serves its waiters and PostgreSQL its lock queue in order of arrival.
`SF_vars(Open(s))` asks for no more than that. Where the pool is exhausted for `pool_timeout` seconds a session gives up
(`OpenTimesOut`), which is an allowed end, not one that fairness forces.

`TrustFairness` asks that a call goes on while it can; a call that waits goes on when the other ends, and PostgreSQL's deadlock detection is the
step that ends one of a circle. `EnrichmentFairness` asks nothing of the tasks of company runs: that time passes (`FiveMinutes`), that a request
commits (`CommitRun`), and that the user who is shown a run looks again (`GetStatus`), as the page and skill.md's polling do.

## 5. Finding

**A second upload during an import is lost** (`sync_upload_lost`). `run_sync` decrypts the payload once; the end of the import clears
`upload_payload` and sets COMPLETE whatever was stored meanwhile (`services/file_upload_import_service.py:143`). The second upload was
answered "already running", and the client polls until complete. Other disagreements with documents, comments and tests are in section 7.

## 6. Theorems

The theorems are about the specification of each module (`Spec`, `TrustSpec`, `SignInSpec`, `ReadsSpec`, `EnrichmentSpec`, `BoardSpec`, `StepsSpec`,
`EventsSpec`, `DedupSpec`, `ImportSpec`, `ProfileSpec`) or of a composition (`SharingSpec`, `RecordsSpec`), for every value of the constants that satisfies the module's assumption; no safety theorem uses fairness. An instance of TLC's runs starts from a part of the initial states and
has the same steps, so a theorem says of every instance what the run says of one.

| theorem | states | rests on |
| --- | --- | --- |
| `SourceSyncProofs!TypeCorrect` | `[]TypeOK` | `MergeRow`, `FlushType`: what a flush writes is a row |
| `SourceSyncProofs!ActiveSlotHasTask` | `[]SlotHasTask` | inductive with `TypeOK`; the only steps that disturb it are `RequestSync`, which creates the task with the entry, and `TaskRelease`, which removes the entry of whichever task put it there |
| `SourceSyncProofs!OrphanTakenOver` | `RecoveryClaims` | `RecoveryInv`: up to the recovery the session holds what it loaded; after it, never SYNCING unless it was not loaded so. So the flush before the claim writes FAILED |
| `EnrichmentQueueProofs!TypeCorrect` | `[]TypeOK` | with `Placed` (who handles a person knows which) and `UserKnown` (who has a task has a user). `Requests` finite, for the clock of `stamp` |
| `EnrichmentQueueProofs!OneTask` | `[]OneTaskPerUser` | inductive with those |
| `ImportWriteLockProofs!TypeCorrect` | `[]TypeOK` | `PoolInv`: no connection is in the pool twice, or there and with a session, or with two |
| `ImportWriteLockProofs!Exclusion` | `[]FirstTransactionExclusive` | `OneHolder`: a lock is with one connection; `HoldsUntilCommit`: an import that has not committed since it took the lock has it on its connection. Neither alone is enough: progress commits break "who is in the section holds the lock", which would be the obvious invariant |
| `ImportWriteLockProofs!LockReturned` | `LocksLeft` | the same invariant. A return of a connection keeps or drops its locks, and no other session has it (`QuietLocks`); in a section the user's lock is taken and released on the section's own connection (`SectionLocks`), and imports of other users touch other locks (`OwnLockOnly`). What is left are the two steps that give the connection away with the lock on it, which is why `HeldInSection` is not an invariant |
| `JobScoringProofs!TypeCorrect` | `[]TypeOK` | |
| `JobScoringProofs!InsertsAlwaysSucceed` | `[]InsertsSucceed`, if `UseArq` | `OneRun` (arq's job id), `Awaited`, `Insertable`: what a run has listed and not yet scored has no score. Without the worker it is false: two runs of the server process collide |
| `JobScoringProofs!ServerProgressOwned` | in the server process, `[]ProgressHasRun` | `Unstarted` (a request starts its run once), `Owned`: shown progress has a run that is between listing and clearing |
| `SharingProofs!TrustTypeCorrect` | `[]TrustTypeOK`, `Users` finite | the counts are of finite sets |
| `SharingProofs!AnswersMatchTrust` | `[]AnswersMatch`, `Users` finite | `TrustInv`: no two open calls have written one row (`RowsLocked`); what an open call has written fits what is committed (`InvitesFit`, `MembershipsFit`), and what it is about to write applies (`Pursues`). `AnswersMatch` speaks of committed rows only, so it is not inductive: the commit needs what the call's rows satisfied since they were locked |
| `SharingProofs!TrustImplementsRelation` | `TrustSpec => TrustRefines` | the same invariant: a commit is a step `Settle` of `TrustRelation`, and every other step leaves its two variables alone |
| `SharingProofs!SignInTypeCorrect` | `[]SignInTypeOK` | part of the same invariant |
| `SharingProofs!TokensAreConsented` | `[]TokensFollowConsent` | `SignInInv`: connected sessions, fresh codes and requests for tokens name a user for whom the session's callback ended, or whose stored credential opened it (`SessionFits`, `CodeFits`, `PollFits`) |
| `SharingProofs!AccountsAreReachable` | `[]AccountsReachable` | `CallbackFits`: the user a callback has found is the one the address opens, if that account still exists; `NewOnce`: an address is given away by one callback at a time, because the insert of the identity waits |
| `SharingProofs!ReadsTypeCorrect` | `[]ReadsTypeOK` | rows refer to persons that exist, whatever is merged |
| `SharingProofs!PrivateStaysHidden` | `[]PrivateIsHidden` | `ReadsFit`: whoever is still to be read was trusted during the request, and a person not among the labels read was open at some moment of it. A merge has to move labels with the person for this |
| `SharingProofs!PartsAsAlone` | `SharingSpec => TrustFairSpec /\ ReadsSpec /\ SignInSpec` | a step of the composition is a step of one of the three and leaves the variables of the others |
| `SharingProofs!SharingTypeCorrect` | `[]SharingTypeOK`, `Users` finite | `PartsAsAlone` and the three theorems on types |
| `SharingProofs!MergesKeepContacts` | `ReadsSpec => MergeKeepsContacts` | `ReadsInv` for the types; `MergedRows` and `AliasesKept` (what of two rows, and of two lists of aliases, is kept), from which `MergeKeepsViews` and `MergeKeepsLabels` follow view by view |
| `OrgEnrichmentProofs!SearchedByOne` | `[]OneSearcher` | `OrgInv`: a task at work has its run's row and, in the server, its user in the active set (`TasksOwned`). Runs are cancelled and given up under their tasks, so nothing about the state of a run is of use |
| `JobProofs!BoardTypeCorrect` | `[]BoardTypeOK` | part of the next |
| `JobProofs!MatchesAreAnnounced` | `[]MatchesAnnounced` | `DigestFits`: the matches that the next move of the watermark would pass are in the mail under way or `unseen`, and once it has gone in `announced` or `unseen`. The property speaks of what is behind the watermark, the invariant of what is before it. A score that is computed anew may become a match on either side of it (`RescoreKeeps`) |
| `JobProofs!StepsTypeCorrect` | `[]StepsTypeOK` | part of the next, with `BoardTypeOK` |
| `JobProofs!SettledTasksStay` | `SettledStays` | `StepsInv` for the types; a request renews the row of a task it has read as open by its way alone, and adds none that exists (`ReconcileKeeps`); an opinion skips, or leaves the row (`InterestSetKeeps`) |
| `JobProofs!RecordsAsAlone` | `RecordsSpec` implies `EventsSpec`; `ImportSpec`, `DedupSpec` or `ProfileSpec` where that part moves; `BoardSpec` and `StepsSpec` unless *steps* does | as `PartsAsAlone`. *steps* begins amid a scan and scores, which is not an initial state of `BoardSpec` |
| `JobProofs!RecordsTypeCorrect` | `[]RecordsTypeOK` | `RecordsAsAlone` and the theorems on types; for *steps*, that its beginning satisfies `BoardInv` (`BoardsBegin`), which the steps keep |
| `JobProofs!EventsTypeCorrect` | `[]EventsTypeOK` | part of the next |
| `JobProofs!ShownWhileUnderWay` | `[]ShownIsUnderWay` | `PagesFit`: a run is under way, or an end is on its way, or reading its queue to the end calms the page (`Calm`): it hides what it shows, or is `astray`. The property speaks of pages whose queue is empty, so it says nothing of the steps before |
| `PersonProofs!DedupTypeCorrect` | `[]DedupTypeOK` | part of the next |
| `PersonProofs!MergesAreOnEvidence` | `[]MergesHaveEvidence` | `EvidenceInv`, below |
| `PersonProofs!RoundsDoConverge` | `[]RoundsConverge` | `ConvergeInv`, below |
| `PersonProofs!ImportTypeCorrect` | `[]ImportTypeOK` | part of the next |
| `PersonProofs!ContactsAreKept` | `[]ContactsKept` | `ImportInv`, below |
| `PersonProofs!ProfileTypeCorrect` | `[]ProfileTypeOK` | part of the next |
| `PersonProofs!EditsByHandPrevail` | `[]ManualWins` | `ProfileInv`, below |
| `PersonProofs!RankingDoesSettle` | `[]NormalizeSettles` | `ProfileInv` for the types and times of claims; `Better` is a total order of claims, so who is ranked first is one claim. Normalizing leaves the first where it is and puts no other before it |

**The queue for one user's runs.** `ClaimExclusive`, `CompleteIsSettled` and `QueueRefines` are not theorems: with `enrich_person`, with enqueues without a run
or with a second user they are false (section 7). `EnrichmentQueueProofs` has lemmas that they hold where one user only starts and reads runs (`OneUsersPool`), the kind of
instance `enrich_pool` checks, for any number of persons, workers, failures and restarts. They show why the exceptions are the only ones. An item with
a worker is IN_PROGRESS and no other worker's (`Claims`); what is uncommitted is a worker's outcome or the task's enqueue, which leaves a claim (`Locks`); an item the
task is about to make pending again is as it read it (`Fresh`), which a second task or another enqueue would break. Each commit that `ItemLife` sees
has been prepared by steps that it does not see, and `LifeInv` says what is on its way: a worker that comes to save holds the row of its person, with an outcome and the
attempts that are committed (`Hand`), so its commit is a `Return`; what the task holds is either unchanged or an item nobody has, pending, with the count it
may keep (`AskedFor`), so its commit is an `Ask`; an item that is waiting has a try left (`Tries`), or the claim would be one too many.

**Evidence.** `MergesHaveEvidence` says that the persons who became one cannot be divided in two with nothing between the halves. That is kept
by a merge because two such classes that have evidence for each other form one again (`Undivided`; `Whole` in the proof). What has to be known
besides is that the evidence is of the beginning: a person has now only what somebody of its class had then (`Owned`, `Addressed`,
`Titled`), so whoever still is in a group of a pass has a reason from the beginning (`GroupsFit`), and in the last pass the identity keys and names, which
were read before its merges, are those of the class (`LongerFits`, `CursorFits`). The state after a merge is not what the pass has read, which
is why each of these speaks of classes and not of persons.

**Convergence.** While a run has merged nobody (`went = Self`) the tables are as they were (`Untouched`). The passes that are over left nobody with a key in
common (`Apart`); of the present one, whoever has one is in a group that is yet to come (`Pending`); in the last pass each pair that has to be compared is
in front of the cursor (`ToCompare`). At the end nothing is in front, so nothing is left. A group with two who are present would merge them.

**Contacts.** An import goes through the contacts its kind takes (`Taken`), and the others are promised to nobody. What it sees is its own writes over what is committed (`SeenAliases`, `SeenHandles`). What it has gone through it sees (`DoneKept`);
what its source promises is committed (`TokenKept`); it has nothing else to go through (`Through`). A commit makes the one the other, and needs that no
two transactions write one key or one new person (`KeysApart`, `RowsApart`). What an import remembers of an alias is true, or the person is
gone (`Remembered`): that is what a concurrent merge leaves of its caches, and why the import then fails or finds the survivor by its committed alias.
A merge moves what it has read (`MergeFits`); a reference that was committed in between is what `lost` records.

**Edits by hand.** The last claim by hand is the newest of its source (`Tops`), and while it is fresh it is current in the table and in what every open
transaction has read (`Stands`), so that no recomputation, whichever commits last, names another employer. A transaction that has read before the
edit does not have it: it is `old`, and committing it sets `raced`. `SessionFits` keeps apart what a session has read and written: who writes no edit
leaves the claims by hand alone (`HandsOff`), who writes one has written the newest there is (`Pins`), and the others' are as they are in the table (`UpToDate`).

### What the proofs brought up

- `MergesHaveEvidence` first asked for evidence in the narrower sense of the passes (`Evidence`). TLC found no exception among three persons; the attempt
  to prove it did, with four: two persons whose names both go on where that of another ends may have been given the shorter name before they are compared, and
  then count as one although neither of their own names goes on after the other. `Alike` is what holds.
- `ContactsKept` asked for a person under the handle as it is written. An import may find the contact by the normal form of it, and then adds no
  alias in the other: the contact is kept under one form or the other (`Forms`).
- The attempt to prove `ClaimExclusive` and `CompleteIsSettled` showed that they are true of one user's runs only. `enrich_pool` is such an instance.
- `PutOff` was *deferred* after one attempt even where one attempt is all there is, which `mark_deferred` never writes: `QueueIsAsPromised` could not be
  proved for `MaxRetries = 1` with it.
- The ranking names one employer only if it tells any two claims apart. It does so by the order of a query that has no ORDER BY: two equal claims may
  change places between recomputations, and with them the employer, where the one that lost has a start and no end and was not current.

### Only model-checked

All liveness (`TasksEnd`, `RequestsEnd`, `WorkEnds`, `ImportsEnd`, `SessionsServed`, `FreshScores`, `CallsEnd`, `RunsEnd`), since the prover does not
handle `ENABLED` and fairness; and `ClaimExclusive`, `CompleteIsSettled` and `QueueRefines`, which hold in the instance that is checked and are
lemmas for instances of its kind only. Every other invariant, action property and refinement that a passing run checks is stated by a theorem: `InsertsSucceed` under
the condition `UseArq`, without which it is false, and the others for every value of the constants that meets the
assumptions of its module. In each proof
module the lemma before the theorems states that the inductive invariant always holds.

## 7. Promises the code does not keep

The modules also state what a document, comment or test promises and the code does not do. The finding of section 5 has a run; the
others are stated with the properties of their module and are false in the instances below (constants not named: `Failures = FALSE`,
`Earlier = {{}}`, no restarts, bounds as in section 4). To see a counterexample, put the property in a `.cfg` with these constants.

| property | promise | smallest instance that refutes it | why |
| --- | --- | --- | --- |
| `OneTaskPerSource` | ARCHITECTURE.md: "Prevents duplicate per-source … sync jobs" | 2 uploads, `Existing = FALSE` | a lost claim takes the source out of the active set, its task goes on (`services/source_service.py:521`) |
| `ClaimedBeforeTaskStarts` | `test_request_sync_claims_sync_before_scheduling` | 1 upload, `Existing = TRUE` | the task is created before the claim is sent (`services/source_service.py:508`) |
| `RecoverOnlyOrphans` | "no background task is running" (`_recover_orphaned_sync`) | an upload and a list | a row read as SYNCING is compared with an active set read later (`services/source_service.py:605`) |
| `FailureCaptured` | ARCHITECTURE.md: "Mark sync state complete/failed with error capture" | 1 sync, `Kinds = {"google"}`, `Existing = TRUE`, `Failures = TRUE` | FAILED is written, then rolled back by the scheduler (`services/import_scheduler.py:132`) |
| `CancelStopsTask` | "background tasks can observe the cancelled state and wind down" | an upload and a cancel, `Existing = TRUE` | the task never reads the state again before it completes (`actions.py:328`) |
| `ScheduledSettles` (fair) | "Poll get_source_status until sync_state is partial or complete" | 1 connect, `Kinds = {"google"}`, `Existing = FALSE` | the task looks for the row before the callback commits it (`oauth/router.py:254`) |
| `WritesSerialized` | "Serialize DB-heavy import work" | 1 user, 2 profiles, 1 other session, 2 connections, pool of 2 | the lock is released before the commit (`services/file_upload_import_service.py:148`) |
| `ImportsEnd` (fair) | the same polling | 1 user, 2 contact imports, 1 other session, 2 connections, pool of 2, `MaxCommits = 1` | a lock left with an idle connection is never released |
| `ScheduledRuns` (fair) | "Enrichment started in the background." | 1 user, 1 person, 1 start, no pool | the task looks for its run before it is committed (`services/enrichment_service.py:77`) |
| `DrainedRunCompletes` | skill.md: "Poll until state is "complete"" | 1 user, 2 persons, 3 requests that start or enrich, no pool; or 1 start and 2 workers | two finishers count at once, and neither sees the other's uncommitted outcome (`services/enrichment_queue_service.py:295`) |
| `DeferredRetried` (fair) | config.py: "Base backoff seconds between enrichment retries" | 1 user, 1 person, 1 start, 1 worker, `Failures = TRUE` | only PENDING is claimed; a deferred item waits for another enqueue (`services/enrichment_queue_service.py:199`) |
| `ClaimExclusive` | one worker per item | 1 request `enrich` and 1 worker; or 2 enqueuers, 1 person with `Earlier = {{p1}}` and 2 workers | `enrich_person` does not claim; an enqueue that read a deferred item writes PENDING over a claim |
| `CancelStops` | "Signal the scoring loop to stop for this user" | 2 postings, 2 changes of the role text, `UseArq = FALSE` | the new run discards the cancellation before the old one has met it |
| `FreshScores` (fair), `Overlap = TRUE` | "Score all unclassified active jobs" | 2 postings, 2 scrapes, either value of `UseArq`; 2 postings, a scrape and a change of formula, or 1 posting and an upload, `UseArq = FALSE` | arq ignores a job whose id is taken; two runs collide; a rescore misses what a run is about to insert; an upload's run reads before the upload commits |
| `Serialized` | "Serialize DB-heavy import work for one user across concurrent source syncs." (`services/import_write_lock.py:24`) | 1 user, 2 contact imports, 1 other session, 2 connections, pool of 2 | a progress commit gives the connection, and the lock with it, back to the pool; the next import that gets it is granted the lock, which is re-entrant (`services/file_upload_import_service.py:99`) |
| `FreshScores` (fair), `Overlap = FALSE` | "Delete existing classifications and re-classify all active jobs." (`services/job_relevance_service.py:961`) | 1 change of the role text, `UseArq = TRUE` | `cancel_scoring` sets a Redis key for a run that may not exist; the run that is started next discards only its own process's memory (`services/job_relevance_service.py:458`), meets the key at its first batch and stops, after every score was deleted |
| `ProgressHasRun` | the `finally` of `classify_jobs_for_user` | 1 posting, 1 change of the role text, `UseArq = TRUE`, `Failures = TRUE` | the progress is set before the `try` (`services/job_relevance_service.py:482`), and clearing it may fail (`services/job_relevance_service.py:308`); the key stays for an hour |
| `WithinCap` | skill.md: "max 20 mutual connections" | 3 users, 1 call, `MaxOps = 2`, `Cap = 1` | only an invitation is refused at the cap; accepting counts nothing (`services/trust_list_service.py:357`) |

What the modelling also brought up, without a property of its own. The models do what the code does in each of these.

*Imports and persons.*
- The Google imports put their kind in the place of those of the row (`services/import_service.py:859`, `google_contacts_import_service.py:265`,
  `google_calendar_import_service.py:123`) where uploads add theirs (`file_upload_import_service.py:74`): a contact may leave the network with a sync. skill.md:
  "all contacts merge into one graph".
- Connections of a LinkedIn export that have an address and no URL are parsed, and passed over by the import (`file_upload_import_service.py:345`), though the
  source becomes complete; so are contacts without any handle, and correspondents and guests without an address (`Accepts`).
- The token of Google Contacts is stored at the end of a listing only; a run that stops at its maximum lists from the beginning the next time.
- An import that writes an observation of a person while it is merged loses it (`lost`); an import that meets an alias of a concurrent one fails.
- Claims of one tier, age and confidence are ranked in the order of a query without ORDER BY (`person_profile_recompute.py:100`).
- Deduplication runs outside the import lock; it may leave duplicates for the next run, and fails for a user when a shorter name's
  person has already been merged and is the one to survive (`Abandon`). A merge drops the user's own person, relationship claims and queue items of the one that
  goes; a merge into a row of noise loses a strong tie, and one may put a URL that names no profile first.
- `record_employment` may insert a second row for a claim whose dates are null, although "never creates duplicate rows".
- A transaction keeps the claims its recomputation read first (`person_profile_recompute.py:151`, `contact_enrichment_worker.py:37`) and may write the row over an edit (`raced`).
  Cleared phones, profiles and employers, and shorter texts, come back with the next recomputation.
- A failed enrichment records strategies as tried although their claims were rolled back; a rate limit's record is rolled back with it.
- A stale claim made by hand loses to a stale claim from a domain. An experience with a start and no end counts as current.

*Queues.* Nothing starts the poller, so the items of a run wait for `enrich_person` or a script; IN_PROGRESS items of a process that died are never
claimed again; `enrich_person` does not count an attempt, and together with the pool exceeds `enrichment_max_retries`; a model that gives no answer leaves
a batch unscored, and "scoring complete" is published; a COMPLETE source may keep the `sync_error` of an earlier sync.

*Company runs.* A task overwrites the cancellation of its run, because its session keeps the row (`db/connection.py`, `expire_on_commit=False`). Only the
latest run of a user is recovered, so an older one may say "running" for good. A job cut off after ten minutes says nothing, and the mark of a failed run may fail itself.
arq keeps the key of a job with its result, and ignores the next run until it expires.

*Views.* A private contact can be shown when a merge commits between the reading of labels and of contacts. `canonical_relationship_kind` takes
the first kind in alphabetical order. A company that is only watched is listed and has no page; a shared contact is listed and has no page. The targets of the second degree
include automated contacts that queries exclude. `list_people`'s `is_strong_tie` is not the matcher's. A second-degree query shows names that other views mask.
Views agree up to their limits only: the page of a posting shows twenty contacts (`job_discovery_service.py:619`, `645`), a query its plan's limit
(`network_query_service.py:421`). A strong tie whose first URL names no profile is counted and never listed or scraped
(`strong_tie_matcher.py:153`), so the status of the scrapes stays "partial"; the status is put together from several statements.

*Accounts.* A second callback of a connected session marks it failed. Two polls, or two exchanges, at a time both mint tokens, against "Tokens already dispensed".

*Postings and mail.* A scrape that meets another's insert, or a webhook's, loses everything it has inserted (`job_discovery_service.py:820`). An
empty answer closes nothing, and an answer of a company's own board closes what other sources have found. A board's error counts as not scraped although
another source answered. The watermark is the time after sending: matches committed while a mail is put together are never mailed (`unseen`), nor
are those whose posting was closed and opened again; beyond `email_digest_max_jobs` they are only counted, by a statement before the one that lists. A posting that
other weights make a match keeps the time of its score (`job_relevance_service.py:1076`), and is never mailed if the watermark has passed it. A crash between sending and recording mails
twice. A user who unsubscribes after being collected is mailed once more. Deleting a list leaves monitoring on.

*Next steps.* A dismissal reads the task before it commits (`next_steps_service.py:183`, `193`), and a request that read the interest before raises one in between or
afterwards: the task of a dismissed posting stays open. Interest that comes back does not open a skipped one again;
the task of a closed posting stays open; two requests that raise the same task make one of them fail. "Review new jobs" marked once never returns.

*Events.* A run that fails publishes no end, and an end that is published while a page is away is never told; the page goes on showing activity
(`astray`). Through Redis an end may be overtaken by progress. With the worker, a scrape says that scanning is active after the scan said it is over.

*Never called*: `employment_service.py`, `ingest_enrichment_service.py`, the `discovery_*` events.

## 8. What is not modelled, and why

- *Parsers and clients*: files, mail headers, signatures, answers of boards, searches and language models. An import has contacts, a search finds
  claims or none, a scrape comes back with some of the company's postings.
- *The query planners*: a query reads a user's contacts and shows any of them. *Trust scores* and the order of rows in the views.
- *The rate limiter*: a counter per client and window, read and written in one step without an await. *Worker status*: reads only.
- *Tokens*: PKCE, signing, hashing, expiry and client registration. *Companies' aliases* and names of lists.
- *Graph events*: they take the bus of `JobEvents`; what the graph page makes of them is left out.
- *Deletion of an account* with imports or runs at work for it: it is composed with sign-in only.
- *Wording, layout and rendering*, migrations and scripts that are run by hand.
- *Time*: backoff, time-to-live and timeouts are steps that may happen at any moment (`FlagExpires`, `ResultExpires`, `OpenTimesOut`, `CooldownEnds`) or are
  left out where they only order otherwise independent steps (`next_attempt_after`, priorities).
- *More than one server process*: the code keeps its active sets in memory and is deployed as one process.
- *Losing the database connection at a commit*, with the outcome unknown: a failed commit is a rollback in these models.
