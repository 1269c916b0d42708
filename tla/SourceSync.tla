----------------------------- MODULE SourceSync -----------------------------
(***************************************************************************)
(* One data source and everything that may touch its row: the requests     *)
(* that upload, connect, sync and list it (source_service.py, actions.py), *)
(* the in-process scheduler and its background tasks                       *)
(* (import_scheduler.py), and the restart of the server process.           *)
(*                                                                         *)
(* Every request and every background task has a database session of its   *)
(* own.  A session reads committed rows, keeps the attributes it loaded    *)
(* (the ORM identity map), flushes only the attributes it changed, holds   *)
(* the row lock from its first flush to its commit or rollback, and shows  *)
(* nothing to the others before it commits.                                *)
(*                                                                         *)
(* A request schedules at most one task, so the task is named after it.    *)
(* Sources do not interact here; ImportWriteLock models what two sources   *)
(* of one user share.                                                      *)
(***************************************************************************)
EXTENDS Naturals, FiniteSets

CONSTANTS
  Requests,     \* the requests that may arrive, each handled once
  NoRequest,    \* a value that is not a request
  Kinds,        \* the types the source may have: "upload", "google"
  Ops,          \* the operations requests may ask for
  Existing,     \* whether the source row exists at the start
  Failures,     \* whether database and API calls may fail
  MaxProgress,  \* bound on progress commits of one task
  MaxRestarts   \* bound on restarts of the server process

ASSUME SourceSyncAssumption ==
  /\ NoRequest \notin Requests
  /\ Kinds \subseteq {"upload", "google"}
  /\ Ops \subseteq {"upload", "connect", "sync", "list", "cancel"}
  /\ Existing \in BOOLEAN
  /\ Failures \in BOOLEAN
  /\ MaxProgress \in Nat
  /\ MaxRestarts \in Nat

VARIABLES
  kind,     \* its type: "upload" (phone, LinkedIn) or "google" (mail, calendar)
  row,      \* the committed row of the source
  owner,    \* the session that holds the row lock, or NoSession
  pend,     \* the uncommitted version of the row its owner sees
  base,     \* per session: the attributes as last loaded or flushed
  mem,      \* per session: the attributes as the code has set them
  pc,       \* per session: where it is
  op,       \* per request: the operation it performs
  result,   \* per session: what it answered, or how the task ended
  active,   \* source id \in _active_sync_source_ids
  content,  \* per task: the upload it decrypted and imports
  commits,  \* per task: progress commits so far
  imported, \* uploads whose import was committed (history)
  restarts

vars == <<kind, row, owner, pend, base, mem, pc, op, result, active, content,
          commits, imported, restarts>>
session == <<base, mem>>
db == <<row, owner, pend>>

Sessions == {"request", "task"} \X Requests
Req(r) == <<"request", r>>
Task(r) == <<"task", r>>
NoSession == <<"none", NoRequest>>

SyncState == {"pending", "syncing", "partial", "complete", "failed"}
SyncError == {"none", "interrupted", "captured", "cancelled"}
Row == [exists : BOOLEAN, state : SyncState,
        payload : Requests \union {NoRequest}, error : SyncError]
NoRow == [exists |-> FALSE, state |-> "pending",
          payload |-> NoRequest, error |-> "none"]

RequestPC == {"idle", "store", "stored", "connect", "schedule", "claim",
              "commit", "recover", "recovered", "cancel", "cancelled", "done"}
TaskPC == {"none", "created", "begin", "read", "import", "refresh", "commit",
           "fail_load", "fail_save", "release"}
PC == RequestPC \union TaskPC
Result == {"none", "scheduled", "running", "rejected", "error", "listed",
           "cancelled", "completed", "failed", "skipped"}

TypeOK ==
  /\ kind \in Kinds
  /\ row \in Row
  /\ pend \in Row
  /\ owner \in Sessions \union {NoSession}
  /\ base \in [Sessions -> Row]
  /\ mem \in [Sessions -> Row]
  /\ pc \in [Sessions -> PC]
  /\ op \in [Requests -> Ops \union {"none"}]
  /\ result \in [Sessions -> Result]
  /\ active \in BOOLEAN
  /\ content \in [Requests -> Requests \union {NoRequest}]
  /\ commits \in [Requests -> 0..MaxProgress]
  /\ imported \subseteq Requests
  /\ restarts \in 0..MaxRestarts

(***************************************************************************)
(* The session layer: what load, flush, commit and rollback do to one row. *)
(***************************************************************************)

\* The row as a statement of session s sees it.
View(s) == IF owner = s THEN pend ELSE row

LockFree(s) == owner \in {s, NoSession}

\* An UPDATE names only the attributes whose value changed since the load.
Merge(from, to, current) ==
  [f \in DOMAIN current |-> IF to[f] # from[f] THEN to[f] ELSE current[f]]

Keep(s, r) == /\ base' = [base EXCEPT ![s] = r]
              /\ mem' = [mem EXCEPT ![s] = r]

Load(s) == Keep(s, row) /\ UNCHANGED db

Flush(s, new) == /\ LockFree(s)
                 /\ owner' = s
                 /\ pend' = Merge(base[s], new, View(s))
                 /\ Keep(s, new)
                 /\ UNCHANGED row

\* Mutant: the transaction stays open.
CommitKeepsLock(s) == row' = View(s) /\ UNCHANGED <<owner, pend>>

Commit(s) == /\ row' = View(s)
             /\ owner' = IF owner = s THEN NoSession ELSE owner
             /\ pend' = IF owner = s THEN row' ELSE pend

Rollback(s) == /\ owner' = IF owner = s THEN NoSession ELSE owner
               /\ pend' = IF owner = s THEN row ELSE pend
               /\ UNCHANGED row

FlushCommit(s, new) == /\ LockFree(s)
                       /\ row' = Merge(base[s], new, View(s))
                       /\ owner' = NoSession
                       /\ pend' = row'

Forget(s) == Keep(s, NoRow)

Goto(s, label) == pc' = [pc EXCEPT ![s] = label]
Answer(s, what) == result' = [result EXCEPT ![s] = what]

At(s, label) == pc[s] = label

\* A background task that was created and has not ended.
Live(r) == pc[Task(r)] # "none"

\* Mutant: the entry stays in the active set.
SlotKept == UNCHANGED active

\* release_sync_lock
ReleaseSlot == active' = FALSE

(***************************************************************************)
(* Requests.                                                               *)
(***************************************************************************)

ReqIdle(r, what) == /\ At(Req(r), "idle") /\ op[r] = "none"
                    /\ what \in Ops
                    /\ op' = [op EXCEPT ![r] = what]

\* The request ends; its session forgets what it loaded.
End(r, what) == Goto(Req(r), "done") /\ Answer(Req(r), what) /\ Forget(Req(r))

rest == <<kind, active, content, commits, imported, restarts>>

\* upload_source selects the row of this file name; upload_contacts gets it.
UploadRead(r) ==
  /\ ReqIdle(r, "upload") /\ kind = "upload"
  /\ Load(Req(r)) /\ Goto(Req(r), "store")
  /\ UNCHANGED <<result, rest>>

\* The payload replaces the old one and the sync state starts over, whatever
\* a running import is doing.  A second insert breaks uq_source_user_type_account.
StorePayload(r) ==
  LET s == Req(r) IN
  /\ At(s, "store")
  /\ IF ~mem[s].exists /\ View(s).exists
       THEN LockFree(s) /\ End(r, "error") /\ UNCHANGED db
       ELSE /\ Flush(s, [exists |-> TRUE, state |-> "pending",
                         payload |-> r, error |-> "none"])
            /\ Goto(s, "stored") /\ UNCHANGED result
  /\ UNCHANGED <<op, rest>>

\* The first of the two commits of an upload.
CommitPayload(r) ==
  /\ At(Req(r), "stored")
  /\ Commit(Req(r)) /\ Goto(Req(r), "schedule")
  /\ UNCHANGED <<session, op, result, rest>>

\* The OAuth callback and connect_source look for the row of the account.
ConnectRead(r) ==
  /\ ReqIdle(r, "connect") /\ kind = "google"
  /\ Load(Req(r))
  /\ Goto(Req(r), IF row.exists THEN "schedule" ELSE "connect")
  /\ UNCHANGED <<result, rest>>

\* ensure_google_mail_source inserts it, without a commit.
ConnectInsert(r) ==
  LET s == Req(r) IN
  /\ At(s, "connect")
  /\ IF View(s).exists
       THEN LockFree(s) /\ End(r, "error") /\ UNCHANGED db
       ELSE /\ Flush(s, [NoRow EXCEPT !.exists = TRUE])
            /\ Goto(s, "schedule") /\ UNCHANGED result
  /\ UNCHANGED <<op, rest>>

SyncRead(r) ==
  /\ ReqIdle(r, "sync")
  /\ IF row.exists
       THEN Load(Req(r)) /\ Goto(Req(r), "schedule") /\ UNCHANGED result
       ELSE End(r, "error") /\ UNCHANGED db
  /\ UNCHANGED rest

\* Mutant: the recovery writes a state the enum does not have.
RecoveredUnknown(m) ==
  IF m.state = "syncing" /\ ~active THEN [m EXCEPT !.state = "orphaned"] ELSE m

\* _recover_orphaned_sync: the attributes afterwards.
Recovered(m) ==
  IF m.state = "syncing" /\ ~active
    THEN [m EXCEPT !.state = "failed",
                   !.error = IF m.error = "none" THEN "interrupted" ELSE m.error]
    ELSE m

\* request_sync up to its next await: nothing to sync, already running, or
\* recovered, entered in the active set and handed to a new task.
\* The transaction ends with the request, whatever it answers.
RequestSync(r) ==
  LET s == Req(r)
      refuse(what) == /\ Answer(s, what) /\ Goto(s, "commit")
                      /\ UNCHANGED <<session, active>>
  IN
  /\ At(s, "schedule")
  /\ \/ /\ kind = "upload" /\ mem[s].payload = NoRequest
        /\ refuse("rejected")
     \/ /\ kind = "google" /\ Failures   \* no valid credential
        /\ refuse("rejected")
     \/ /\ kind = "upload" => mem[s].payload # NoRequest
        /\ active
        /\ refuse("running")
     \/ /\ kind = "upload" => mem[s].payload # NoRequest
        /\ ~active /\ active' = TRUE
        /\ mem' = [mem EXCEPT ![s] = Recovered(mem[s])]
        /\ pc' = [pc EXCEPT ![s] = "claim", ![Task(r)] = "created"]
        /\ UNCHANGED <<base, result>>
  /\ UNCHANGED <<db, op, content, commits, imported, restarts, kind>>

\* Mutant: the claim is sent without the autoflush.
SeenWithoutFlush(s) == View(s)

\* The row the claim's UPDATE meets (rows are never deleted here): a recovery is
\* flushed first.
SeenByClaim(s) == Merge(base[s], mem[s], View(s))

\* _try_claim_sync.  The UPDATE first flushes a recovery, then takes a row
\* that is not syncing.  A lost claim takes the source out of the active set,
\* although the task was created.
TryClaim(r) ==
  LET s == Req(r)
      seen == SeenByClaim(s)
  IN
  /\ At(s, "claim") /\ LockFree(s)
  /\ IF seen.state # "syncing"
       THEN /\ owner' = s
            /\ pend' = [seen EXCEPT !.state = "syncing", !.error = "none"]
            /\ Keep(s, pend')
            /\ Answer(s, "scheduled")
            /\ UNCHANGED <<row, active>>
       ELSE /\ ReleaseSlot
            /\ Answer(s, "running")
            /\ UNCHANGED <<db, session>>
  /\ Goto(s, "commit")
  /\ UNCHANGED <<op, content, commits, imported, restarts, kind>>

CommitRequest(r) ==
  /\ At(Req(r), "commit")
  /\ Commit(Req(r)) /\ Goto(Req(r), "done") /\ Forget(Req(r))
  /\ UNCHANGED <<op, result, rest>>

\* A statement or the commit fails: the session rolls back.  A task that was
\* already created goes on.
RequestFails(r) ==
  /\ Failures
  /\ pc[Req(r)] \in {"store", "stored", "connect", "schedule", "claim",
                     "commit", "recovered", "cancel"}
  /\ Rollback(Req(r)) /\ End(r, "error")
  /\ UNCHANGED <<op, rest>>

\* list_sources reads the rows,
ListRead(r) ==
  /\ ReqIdle(r, "list")
  /\ Load(Req(r)) /\ Goto(Req(r), "recover")
  /\ UNCHANGED <<result, rest>>

\* then fails the sync it takes for an orphan,
ListRecover(r) ==
  LET s == Req(r) IN
  /\ At(s, "recover")
  /\ mem' = [mem EXCEPT ![s] = Recovered(mem[s])]
  /\ Goto(s, "recovered")
  /\ UNCHANGED <<db, base, op, result, rest>>

\* and writes what it changed.
ListCommit(r) ==
  LET s == Req(r) IN
  /\ At(s, "recovered")
  /\ IF mem[s] # base[s] THEN FlushCommit(s, mem[s]) ELSE UNCHANGED db
  /\ End(r, "listed")
  /\ UNCHANGED <<op, rest>>

CancelRead(r) ==
  /\ ReqIdle(r, "cancel")
  /\ IF row.exists /\ row.state \in {"syncing", "pending"}
       THEN Load(Req(r)) /\ Goto(Req(r), "cancel") /\ UNCHANGED result
       ELSE End(r, "rejected") /\ UNCHANGED db
  /\ UNCHANGED rest

CancelCommit(r) ==
  LET s == Req(r) IN
  /\ At(s, "cancel")
  /\ FlushCommit(s, [mem[s] EXCEPT !.state = "failed", !.error = "cancelled"])
  /\ Forget(s) /\ Goto(s, "cancelled")
  /\ UNCHANGED <<op, result, rest>>

\* The source leaves the active set; no task is told.
CancelRelease(r) ==
  /\ At(Req(r), "cancelled")
  /\ ReleaseSlot
  /\ Goto(Req(r), "done") /\ Answer(Req(r), "cancelled")
  /\ UNCHANGED <<db, session, op, content, commits, imported, restarts, kind>>

\* A new request comes in; the steps of one that is being served.
Arrive(r) == UploadRead(r) \/ ConnectRead(r) \/ SyncRead(r) \/ ListRead(r)
               \/ CancelRead(r)
Serve(r) ==
  \/ StorePayload(r) \/ CommitPayload(r) \/ ConnectInsert(r)
  \/ RequestSync(r) \/ TryClaim(r) \/ CommitRequest(r)
  \/ ListRecover(r) \/ ListCommit(r)
  \/ CancelCommit(r) \/ CancelRelease(r)

(***************************************************************************)
(* The background task a request created.                                  *)
(***************************************************************************)

\* A row that is not committed yet is not found, and the sync is skipped.
TaskLoad(r) ==
  LET t == Task(r) IN
  /\ At(t, "created")
  /\ Load(t)
  /\ IF row.exists THEN Goto(t, "begin") /\ UNCHANGED result
                   ELSE Goto(t, "release") /\ Answer(t, "skipped")
  /\ UNCHANGED <<op, rest>>

TaskBegin(r) ==
  LET t == Task(r) IN
  /\ At(t, "begin")
  /\ Flush(t, [mem[t] EXCEPT !.state = "syncing", !.error = "none"])
  /\ Goto(t, "read")
  /\ UNCHANGED <<op, result, rest>>

\* The upload is decrypted once; from here on only this text is imported.
TaskRead(r) ==
  LET t == Task(r) IN
  /\ At(t, "read")
  /\ kind = "upload" => mem[t].payload # NoRequest
  /\ content' = [content EXCEPT ![r] = mem[t].payload]
  /\ Goto(t, "import")
  /\ UNCHANGED <<db, session, op, result, active, commits, imported, restarts, kind>>

\* _commit_progress: everything so far becomes visible and the row lock is
\* released.  A mail import with enough contacts turns partial on the way.
TaskProgress(r) ==
  LET t == Task(r)
      partial == [mem[t] EXCEPT !.state = "partial"]
  IN
  /\ At(t, "import") /\ commits[r] < MaxProgress
  /\ \/ FlushCommit(t, mem[t]) /\ UNCHANGED session
     \/ /\ kind = "google" /\ mem[t].state = "syncing"
        /\ FlushCommit(t, partial) /\ Keep(t, partial)
  /\ commits' = [commits EXCEPT ![r] = @ + 1]
  /\ Goto(t, "refresh")
  /\ UNCHANGED <<op, result, active, content, imported, restarts, kind>>

TaskRefresh(r) ==
  /\ At(Task(r), "refresh")
  /\ Load(Task(r)) /\ Goto(Task(r), "import")
  /\ UNCHANGED <<op, result, rest>>

\* The import is done; an upload is dropped from the row.
TaskFinish(r) ==
  LET t == Task(r) IN
  /\ At(t, "import")
  /\ Flush(t, [mem[t] EXCEPT !.state = "complete", !.payload = NoRequest])
  /\ Goto(t, "commit")
  /\ UNCHANGED <<op, result, rest>>

TaskCommit(r) ==
  LET t == Task(r) IN
  /\ At(t, "commit")
  /\ Commit(t) /\ Goto(t, "release") /\ Answer(t, "completed")
  /\ imported' = imported \union ({content[r]} \ {NoRequest})
  /\ UNCHANGED <<session, op, active, content, commits, restarts, kind>>

\* run_sync raises.  The upload import rolls back and records the failure in a
\* transaction of its own.  The Google imports write FAILED and raise again,
\* and _run_sync_task rolls that back with the rest.
TaskFails(r) ==
  LET t == Task(r) IN
  /\ \/ Failures /\ pc[t] \in {"begin", "read", "import", "refresh", "commit"}
     \/ At(t, "read") /\ kind = "upload" /\ mem[t].payload = NoRequest
  /\ Rollback(t)
  /\ Goto(t, IF kind = "upload" /\ pc[t] \notin {"begin", "commit"}
               THEN "fail_load" ELSE "release")
  /\ Answer(t, "failed")
  /\ UNCHANGED <<session, op, rest>>

\* The session of the task cannot be opened: _mark_source_sync_failed.
TaskLoadFails(r) ==
  /\ Failures /\ At(Task(r), "created")
  /\ Goto(Task(r), "fail_load") /\ Answer(Task(r), "failed")
  /\ UNCHANGED <<db, session, op, rest>>

FailLoad(r) ==
  /\ At(Task(r), "fail_load")
  /\ Load(Task(r))
  /\ Goto(Task(r), IF row.exists THEN "fail_save" ELSE "release")
  /\ UNCHANGED <<op, result, rest>>

FailSave(r) ==
  LET t == Task(r) IN
  /\ At(t, "fail_save")
  /\ FlushCommit(t, [mem[t] EXCEPT !.state = "failed", !.error = "captured"])
  /\ Goto(t, "release")
  /\ UNCHANGED <<session, op, result, rest>>

\* Recording the failure fails as well.
FailFails(r) ==
  /\ Failures /\ pc[Task(r)] \in {"fail_load", "fail_save"}
  /\ Goto(Task(r), "release")
  /\ UNCHANGED <<db, session, op, result, rest>>

\* finally: release_sync_lock, whoever entered the source in the active set.
TaskRelease(r) ==
  /\ At(Task(r), "release")
  /\ ReleaseSlot
  /\ Goto(Task(r), "none") /\ Forget(Task(r))
  /\ UNCHANGED <<db, op, result, content, commits, imported, restarts, kind>>

Work(r) ==
  \/ TaskLoad(r) \/ TaskBegin(r) \/ TaskRead(r)
  \/ TaskProgress(r) \/ TaskRefresh(r) \/ TaskFinish(r) \/ TaskCommit(r)
  \/ TaskFails(r) \/ TaskLoadFails(r)
  \/ FailLoad(r) \/ FailSave(r) \/ FailFails(r) \/ TaskRelease(r)

(***************************************************************************)
(* The server process stops and starts again: open transactions roll back, *)
(* tasks and the active set are gone, requests get no answer.              *)
(***************************************************************************)
Restart ==
  /\ restarts < MaxRestarts
  /\ restarts' = restarts + 1
  /\ owner' = NoSession /\ pend' = row
  /\ base' = [s \in Sessions |-> NoRow] /\ mem' = [s \in Sessions |-> NoRow]
  /\ pc' = [s \in Sessions |-> IF s[1] = "task" THEN "none"
                              ELSE IF At(s, "idle") THEN "idle" ELSE "done"]
  /\ active' = FALSE
  /\ UNCHANGED <<kind, row, op, result, content, commits, imported>>

Init ==
  /\ kind \in Kinds
  /\ row = [NoRow EXCEPT !.exists = Existing]
  /\ pend = row /\ owner = NoSession
  /\ base = [s \in Sessions |-> NoRow] /\ mem = base
  /\ pc = [s \in Sessions |-> IF s[1] = "task" THEN "none" ELSE "idle"]
  /\ op = [r \in Requests |-> "none"]
  /\ result = [s \in Sessions |-> "none"]
  /\ active = FALSE
  /\ content = [r \in Requests |-> NoRequest]
  /\ commits = [r \in Requests |-> 0]
  /\ imported = {}
  /\ restarts = 0

Next ==
  \/ \E r \in Requests : Arrive(r) \/ Serve(r) \/ RequestFails(r) \/ Work(r)
  \/ Restart

Spec == Init /\ [][Next]_vars

\* Requests that were accepted and tasks that were created run on: both are
\* coroutines of one event loop.  No request has to arrive.
FairSpec == Spec /\ \A r \in Requests : WF_vars(Serve(r)) /\ WF_vars(Work(r))

(***************************************************************************)
(* Properties.                                                             *)
(***************************************************************************)

\* A source that counts as being synced has a background task that has not
\* ended: the entry in the active set, on which every "already running" answer
\* rests, never outlives the tasks (release_sync_lock in the task's finally).
SlotHasTask == active => \E r \in Requests : Live(r)

\* A request that finds an orphan, SYNCING with no task, always wins the claim
\* that follows: the recovery is flushed ahead of the conditional UPDATE.
RecoveryClaims ==
  [][\A r \in Requests :
       TryClaim(r) /\ base[Req(r)].state = "syncing"
         => result'[Req(r)] = "scheduled"]_vars

\* No task waits for the row lock forever and none is left in the active set:
\* every background task ends, however requests and tasks contend for the row.
TasksEnd == \A r \in Requests : Live(r) ~> ~Live(r)

\* Every request that was accepted is answered.
RequestsEnd ==
  \A r \in Requests : op[r] # "none" ~> At(Req(r), "done")

\* ARCHITECTURE.md, on import_scheduler.py: "Prevents duplicate per-source and
\* per-user sync jobs in a single process."
OneTaskPerSource == \A r, q \in Requests : Live(r) /\ Live(q) => r = q

\* _recover_orphaned_sync: "Mark sync failed when DB says syncing but no
\* background task is running."
RecoverOnlyOrphans ==
  [][\A r \in Requests :
       ListRecover(r) /\ mem'[Req(r)] # mem[Req(r)]
         => row.state = "syncing" /\ ~\E q \in Requests : Live(q)]_vars

\* test_request_sync_claims_sync_before_scheduling: the task finds the row
\* claimed.
ClaimedBeforeTaskStarts ==
  [][\A r \in Requests :
       At(Task(r), "created") /\ TaskLoad(r) => row.state = "syncing"]_vars

\* skill.md, on upload-contacts: "Poll get-source-status until complete."  An
\* upload leaves the row only because it was imported.
UploadNotLost ==
  [][\A r \in Requests : TaskCommit(r) => row.payload \in imported' \union {NoRequest}]_vars

\* ARCHITECTURE.md, ingestion step 7: "Mark sync state complete/failed with
\* error capture."  A sync that raised leaves its error in the row.
FailureCaptured ==
  [][\A r \in Requests :
       TaskRelease(r) /\ result[Task(r)] = "failed" => row.error = "captured"]_vars

\* delete_user_account and cancel_sync: "background tasks can observe the
\* cancelled state and wind down."  A task that loaded it does not complete.
CancelStopsTask ==
  [][\A r \in Requests : TaskFinish(r) => mem[Task(r)].error # "cancelled"]_vars

\* The answer to a scheduled sync: "Poll get_source_status until sync_state is
\* partial or complete."  Polling ends.
ScheduledSettles ==
  \A r \in Requests :
    result[Req(r)] = "scheduled" ~> row.state \in {"partial", "complete", "failed"}
=============================================================================
