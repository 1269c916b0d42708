--------------------------- MODULE EnrichmentQueue ---------------------------
(***************************************************************************)
(* The per-person enrichment queue (enrichment_queue_service.py), the runs *)
(* a user starts over all of their contacts (enrichment_service.py,        *)
(* enrichment_scheduler.py), the pool of workers that claim queue items    *)
(* (contact_enrichment_poller.py) and the request that enriches one person *)
(* on the spot (actions.enrich_person).                                    *)
(*                                                                         *)
(* A person has at most one queue item, shared by all users.  Every        *)
(* process has a database session: it reads committed rows, compares with  *)
(* what it read, and holds the locks of the rows it wrote until it commits.*)
(* A request that starts a run names the run and the task it creates.      *)
(*                                                                         *)
(* Workers = {} is the server as main.py starts it: nothing calls          *)
(* start_enrichment_poller.  Time is left out: a claimable item is PENDING *)
(* and every PENDING item has next_attempt_after NULL.                     *)
(***************************************************************************)
EXTENDS Naturals, FiniteSets

CONSTANTS
  Users,
  Persons,      \* each a contact of every user
  Requests,     \* the requests that may arrive, each handled once
  Workers,      \* enrichment_worker_concurrency workers of the poller
  None,         \* no user, person, run or process
  Ops,          \* the operations requests may ask for
  Earlier,      \* the sets of persons an import may have enqueued before
  Failures,     \* whether database and enrichment calls may fail
  MaxRetries,   \* enrichment_max_retries
  MaxRestarts   \* bound on restarts of the server process

ASSUME EnrichmentQueueAssumption ==
  /\ None \notin Users \union Persons \union Requests \union Workers
  /\ IsFiniteSet(Requests)
  /\ Ops \subseteq {"start", "status", "enqueue", "enrich"}
  /\ Earlier \subseteq SUBSET Persons
  /\ Failures \in BOOLEAN
  /\ MaxRetries \in Nat \ {0}
  /\ MaxRestarts \in Nat

VARIABLES
  item,     \* per person: the committed queue item
  pend,     \* per person: the uncommitted version its owner sees
  owner,    \* per person: the process that holds the row lock, or None
  run,      \* per run: the committed state of its row
  held,     \* per process: the run it has flushed as failed, or None
  pc,       \* per process: where it is
  op, user, \* per request: what it asks for, and for whom
  stamp,    \* per request: when its transaction began (created_at of its run)
  latest,   \* per request: the run it read as the user's latest
  orphan,   \* per request: whether it took that run for an orphan
  draft,    \* per request: the state of the run it inserted, not yet committed
  active,   \* _active_enrichment_user_ids
  todo,     \* per task: the contacts still to be enqueued
  at,       \* per process: the person it works on
  snap,     \* per process: the item of that person as last loaded
  drained,  \* per process: the run it found to have nothing pending, or None
  restarts

vars == <<item, pend, owner, run, held, pc, op, user, stamp, latest, orphan,
          draft, active, todo, at, snap, drained, restarts>>
items == <<item, pend, owner>>
asked == <<op, user, stamp>>
runs == <<run, held, latest, orphan, draft>>
work == <<at, snap, drained>>

Req(r) == <<"request", r>>
Task(r) == <<"task", r>>
Worker(w) == <<"worker", w>>
Processes == ({"request", "task"} \X Requests) \union ({"worker"} \X Workers)
ASSUME NoProcess == None \notin Processes

ActiveStatus == {"pending", "in_progress", "deferred"}
Status == ActiveStatus \union {"none", "complete", "failed"}
Item == [status : Status, run : Requests \union {None}, attempts : Nat]
NoItem == [status |-> "none", run |-> None, attempts |-> 0]
\* What an import's enqueue has left, if its first try was put off, or was the
\* only one there is.
PutOff == [status |-> IF MaxRetries = 1 THEN "failed" ELSE "deferred", run |-> None, attempts |-> 1]
RunState == {"none", "pending", "running", "complete", "failed"}

EnrichPC == {"load", "enrich", "reload", "count", "save"}
RequestPC == EnrichPC \union
  {"idle", "check", "schedule", "commit", "status", "flush", "stored", "select", "done"}
TaskPC == {"none", "created", "pick", "flush", "fail", "release"}
PC == RequestPC \union TaskPC

TypeOK ==
  /\ item \in [Persons -> Item] /\ pend \in [Persons -> Item]
  /\ owner \in [Persons -> Processes \union {None}]
  /\ run \in [Requests -> RunState]
  /\ held \in [Processes -> Requests \union {None}]
  /\ pc \in [Processes -> PC]
  /\ op \in [Requests -> Ops \union {"none"}]
  /\ user \in [Requests -> Users \union {None}]
  /\ stamp \in [Requests -> Nat]
  /\ latest \in [Requests -> Requests \union {None}]
  /\ orphan \in [Requests -> BOOLEAN]
  /\ draft \in [Requests -> RunState]
  /\ active \subseteq Users
  /\ todo \in [Requests -> SUBSET Persons]
  /\ at \in [Processes -> Persons \union {None}]
  /\ snap \in [Processes -> Item]
  /\ drained \in [Processes -> Requests \union {None}]
  /\ restarts \in 0..MaxRestarts

(***************************************************************************)
(* The session layer.                                                      *)
(***************************************************************************)
View(s, p) == IF owner[p] = s THEN pend[p] ELSE item[p]
ItemFree(s, p) == owner[p] \in {s, None}

\* No other process has an uncommitted write to the row of the run.
RunFree(s, r) == \A o \in Processes \ {s} : held[o] # r

\* An UPDATE names only the attributes whose value changed since the load.
Merge(from, to, current) ==
  [f \in DOMAIN current |-> IF to[f] # from[f] THEN to[f] ELSE current[f]]

\* The snapshot that process s has of its item becomes new, in the row as well.
Flush(s, p, new) ==
  /\ ItemFree(s, p)
  /\ owner' = [owner EXCEPT ![p] = s]
  /\ pend' = [pend EXCEPT ![p] = Merge(snap[s], new, View(s, p))]
  /\ snap' = [snap EXCEPT ![s] = new]
  /\ UNCHANGED item

\* Mutant: the transaction stays open.
LockKept(s) == UNCHANGED owner

Unlock(s) == owner' = [p \in Persons |-> IF owner[p] = s THEN None ELSE owner[p]]

CommitItems(s) == /\ item' = [p \in Persons |-> View(s, p)]
                  /\ UNCHANGED pend
                  /\ Unlock(s)

RollbackItems(s) ==
  /\ pend' = [p \in Persons |-> IF owner[p] = s THEN item[p] ELSE pend[p]]
  /\ UNCHANGED item
  /\ Unlock(s)

LoadItem(s, p) == /\ at' = [at EXCEPT ![s] = p]
                  /\ snap' = [snap EXCEPT ![s] = item[p]]

\* PostgreSQL aborts a process that waits for itself through the others.
WaitsFor(s, o) == o # s /\ pc[s] \in {"flush", "enrich", "reload"} /\ owner[at[s]] = o
Deadlocked(s) ==
  \E ring \in SUBSET Processes :
    s \in ring /\ \A o \in ring : \E h \in ring : WaitsFor(o, h)

At(s, label) == pc[s] = label
Goto(s, label) == pc' = [pc EXCEPT ![s] = label]

\* A background task that was created and has not ended.
Live(r) == pc[Task(r)] # "none"

(***************************************************************************)
(* What the queue service writes.                                          *)
(***************************************************************************)

\* enqueue_enrichment: an active item keeps its place and moves to the new run,
\* a deferred one becomes pending, a settled one starts over.
Enqueued(old, r) ==
  IF old.status \in ActiveStatus
    THEN [old EXCEPT !.run = IF r = None THEN @ ELSE r,
                     !.status = IF @ = "deferred" THEN "pending" ELSE @]
    ELSE [status |-> "pending", run |-> r, attempts |-> 0]

\* Mutant: the claim is not recorded in the status.
ClaimedPending(old) == [old EXCEPT !.attempts = @ + 1]

\* claim_next_item.
Claimed(old) == [old EXCEPT !.status = "in_progress", !.attempts = @ + 1]

\* Mutant: a status the enum does not have.
DeferredUnknown(old) == [old EXCEPT !.status = "retry"]

\* Mutant: one try too many.
DeferredOnceMore(old) ==
  [old EXCEPT !.status = IF old.attempts > MaxRetries THEN "failed" ELSE "deferred"]

\* mark_deferred.
Deferred(old) ==
  [old EXCEPT !.status = IF old.attempts >= MaxRetries THEN "failed" ELSE "deferred"]

\* Mutant: a deferred item does not count.
PendingOnly(s, r) ==
  {p \in Persons : View(s, p).run = r /\ View(s, p).status \in {"pending", "in_progress"}}

\* count_pending_for_run, as process s sees the queue.
PendingFor(s, r) ==
  {p \in Persons : View(s, p).run = r /\ View(s, p).status \in ActiveStatus}

\* enqueue_enrichment by process s, for the run r or None, of the item it has
\* read.  Somebody else's insert of the same person is waited for, and breaks
\* the unique constraint.
MayInsert(s) == snap[s].status = "none" => View(s, at[s]).status = "none"
Enqueue(s, r) == MayInsert(s) /\ Flush(s, at[s], Enqueued(snap[s], r))

(***************************************************************************)
(* Requests.                                                               *)
(***************************************************************************)

\* A request comes in; its transaction begins.
Arrive(r, what, u) ==
  /\ At(Req(r), "idle") /\ what \in Ops
  /\ op' = [op EXCEPT ![r] = what]
  /\ user' = [user EXCEPT ![r] = u]
  /\ stamp' = [stamp EXCEPT ![r] = Cardinality({q \in Requests : stamp[q] > 0}) + 1]

\* _latest_run: the committed run of the user with the greatest created_at.
RunsOf(u) == {q \in Requests : user[q] = u /\ run[q] # "none"}
IsLatest(q, u) ==
  IF RunsOf(u) = {} THEN q = None
  ELSE q \in RunsOf(u) /\ \A o \in RunsOf(u) : stamp[o] <= stamp[q]

\* _recover_orphaned_run finds a run that is RUNNING and has no task.
Orphaned(q, u) == q # None /\ run[q] = "running" /\ u \notin active

\* start_enrichment and get_enrichment_status read the latest run,
ReadLatest(r, u) ==
  /\ \E q \in RunsOf(u) \union {None} :
       /\ IsLatest(q, u)
       /\ latest' = [latest EXCEPT ![r] = q]
       /\ orphan' = [orphan EXCEPT ![r] = Orphaned(q, u)]
  /\ UNCHANGED <<run, held, draft>>

StartRead(r) ==
  /\ \E u \in Users : Arrive(r, "start", u) /\ ReadLatest(r, u)
  /\ Goto(Req(r), "check")
  /\ UNCHANGED <<items, active, todo, work, restarts>>

StatusRead(r) ==
  /\ \E u \in Users : Arrive(r, "status", u) /\ ReadLatest(r, u)
  /\ Goto(Req(r), "status")
  /\ UNCHANGED <<items, active, todo, work, restarts>>

\* then recover it and refresh it.  A refresh expires the attributes and
\* autoflushes, so whether the recovery reaches the row is the session's choice.
\* The run is then seen as failed, or as it is committed.
StatusSave(r) ==
  LET q == latest[r] IN
  /\ At(Req(r), "status")
  /\ \/ UNCHANGED run
     \/ orphan[r] /\ RunFree(Req(r), q) /\ run' = [run EXCEPT ![q] = "failed"]
  /\ Goto(Req(r), "done")
  /\ UNCHANGED <<items, asked, held, latest, orphan, draft, active, todo, work, restarts>>

\* start_enrichment up to the flush of its new run, or its refusal.
StartCheck(r) ==
  LET s == Req(r)
      q == latest[r]
  IN
  /\ At(s, "check")
  /\ \/ UNCHANGED held
     \/ /\ orphan[r] \/ Orphaned(q, user[r])
        /\ RunFree(s, q) /\ held' = [held EXCEPT ![s] = q]
  /\ IF user[r] \in active
       THEN Goto(s, "commit") /\ UNCHANGED draft
       ELSE Goto(s, "schedule") /\ draft' = [draft EXCEPT ![r] = "pending"]
  /\ UNCHANGED <<items, asked, run, latest, orphan, active, todo, work, restarts>>

\* Mutant: the active set is not looked at again.
Unguarded(u) == TRUE

\* schedule_enrichment: one task per user.
MaySchedule(u) == u \notin active

\* The task is created at once; the row of its run is committed later.
StartSchedule(r) ==
  LET s == Req(r) IN
  /\ At(s, "schedule")
  /\ IF MaySchedule(user[r])
       THEN /\ active' = active \union {user[r]}
            /\ pc' = [pc EXCEPT ![s] = "commit", ![Task(r)] = "created"]
            /\ UNCHANGED draft
       ELSE /\ draft' = [draft EXCEPT ![r] = "failed"]
            /\ Goto(s, "commit") /\ UNCHANGED active
  /\ UNCHANGED <<items, asked, run, held, latest, orphan, todo, work, restarts>>

StartCommit(r) ==
  LET s == Req(r) IN
  /\ At(s, "commit") /\ op[r] = "start"
  /\ run' = [q \in Requests |->
               IF q = r /\ draft[r] # "none" THEN draft[r]
               ELSE IF q = held[s] THEN "failed" ELSE run[q]]
  /\ held' = [held EXCEPT ![s] = None]
  /\ Goto(s, "done")
  /\ UNCHANGED <<items, asked, latest, orphan, draft, active, todo, work, restarts>>

\* An import or a strong-tie scrape enqueues a person without a run; enrich_person
\* enqueues it and goes on to enrich it.
EnqueueRead(r) ==
  /\ \E u \in Users : Arrive(r, "enqueue", u) \/ Arrive(r, "enrich", u)
  /\ \E p \in Persons : LoadItem(Req(r), p)
  /\ Goto(Req(r), "flush")
  /\ UNCHANGED <<items, runs, active, todo, drained, restarts>>

EnqueueFlush(r) ==
  LET s == Req(r) IN
  /\ At(s, "flush")
  /\ Enqueue(s, None)
  /\ Goto(s, "stored")
  /\ UNCHANGED <<asked, runs, active, todo, at, drained, restarts>>

EnqueueCommit(r) ==
  LET s == Req(r) IN
  /\ At(s, "stored")
  /\ CommitItems(s)
  /\ Goto(s, IF op[r] = "enrich" THEN "select" ELSE "done")
  /\ UNCHANGED <<asked, runs, active, todo, work, restarts>>

\* enrich_person looks for a PENDING item and enriches it without claiming it.
EnrichSelect(r) ==
  LET s == Req(r) IN
  /\ At(s, "select")
  /\ LoadItem(s, at[s])
  /\ Goto(s, IF item[at[s]].status = "pending" THEN "enrich" ELSE "done")
  /\ UNCHANGED <<items, asked, runs, active, todo, drained, restarts>>

\* A statement or the commit fails, or the insert meets the one of another
\* session: the transaction rolls back.  A task already created goes on.
RequestFails(r) ==
  LET s == Req(r) IN
  /\ \/ Failures /\ pc[s] \in {"check", "schedule", "commit", "status", "flush",
                               "stored", "select"}
     \/ At(s, "flush") /\ ~MayInsert(s) /\ ItemFree(s, at[s])
     \/ At(s, "flush") /\ Deadlocked(s)
  /\ RollbackItems(s)
  /\ held' = [held EXCEPT ![s] = None]
  /\ Goto(s, "done")
  /\ UNCHANGED <<asked, run, latest, orphan, draft, active, todo, work, restarts>>

Serve(r) ==
  \/ StatusSave(r) \/ StartCheck(r) \/ StartSchedule(r) \/ StartCommit(r)
  \/ EnqueueFlush(r) \/ EnqueueCommit(r) \/ EnrichSelect(r) \/ RequestFails(r)

(***************************************************************************)
(* The task of a run.                                                      *)
(***************************************************************************)

\* A run that is not committed yet is not found.  Otherwise the run is RUNNING
\* and the task enqueues the contacts that have an address.
TaskBegin(r) ==
  LET t == Task(r) IN
  /\ At(t, "created")
  /\ IF run[r] = "none"
       THEN Goto(t, "release") /\ UNCHANGED <<run, todo>>
       ELSE /\ RunFree(t, r)
            /\ run' = [run EXCEPT ![r] = "running"]
            /\ \E contacts \in SUBSET Persons : todo' = [todo EXCEPT ![r] = contacts]
            /\ Goto(t, "pick")
  /\ UNCHANGED <<items, asked, held, latest, orphan, draft, active, work, restarts>>

TaskPick(r) ==
  LET t == Task(r) IN
  /\ At(t, "pick")
  /\ \E p \in todo[r] : LoadItem(t, p)
  /\ Goto(t, "flush")
  /\ UNCHANGED <<items, asked, runs, active, todo, drained, restarts>>

TaskFlush(r) ==
  LET t == Task(r) IN
  /\ At(t, "flush")
  /\ Enqueue(t, r)
  /\ todo' = [todo EXCEPT ![r] = @ \ {at[t]}]
  /\ Goto(t, "pick")
  /\ UNCHANGED <<asked, runs, active, at, drained, restarts>>

\* All contacts are enqueued in one transaction.  A user without any is done.
TaskCommit(r) ==
  LET t == Task(r) IN
  /\ At(t, "pick") /\ todo[r] = {} /\ RunFree(t, r)
  /\ CommitItems(t)
  /\ run' = IF \E p \in Persons : owner[p] = t THEN run
                                             ELSE [run EXCEPT ![r] = "complete"]
  /\ Goto(t, "release")
  /\ UNCHANGED <<asked, held, latest, orphan, draft, active, todo, work, restarts>>

TaskFails(r) ==
  LET t == Task(r) IN
  /\ \/ Failures /\ pc[t] \in {"created", "pick", "flush"}
     \/ At(t, "flush") /\ ~MayInsert(t) /\ ItemFree(t, at[t])
     \/ At(t, "flush") /\ Deadlocked(t)
  /\ RollbackItems(t)
  /\ todo' = [todo EXCEPT ![r] = {}]
  /\ Goto(t, "fail")
  /\ UNCHANGED <<asked, runs, active, work, restarts>>

\* The failure is recorded in the run, unless that fails too.
TaskFail(r) ==
  LET t == Task(r) IN
  /\ At(t, "fail")
  /\ \/ /\ run[r] # "none" /\ RunFree(t, r)
        /\ run' = [run EXCEPT ![r] = "failed"]
     \/ (Failures \/ run[r] = "none") /\ UNCHANGED run
  /\ Goto(t, "release")
  /\ UNCHANGED <<items, asked, held, latest, orphan, draft, active, todo, work, restarts>>

\* finally: release_enrichment_lock.
ReleaseUser(r) == active' = active \ {user[r]}

TaskRelease(r) ==
  /\ At(Task(r), "release")
  /\ ReleaseUser(r)
  /\ Goto(Task(r), "none")
  /\ UNCHANGED <<items, asked, runs, todo, work, restarts>>

TaskStep(r) ==
  \/ TaskBegin(r) \/ TaskPick(r) \/ TaskFlush(r) \/ TaskCommit(r)
  \/ TaskFails(r) \/ TaskFail(r) \/ TaskRelease(r)

(***************************************************************************)
(* Enriching one person: process s is a worker of the pool or the request  *)
(* of enrich_person.                                                       *)
(***************************************************************************)

\* claim_next_item, FOR UPDATE SKIP LOCKED, in a transaction of its own.
Claim(w) ==
  LET s == Worker(w) IN
  /\ At(s, "idle")
  /\ \E p \in Persons :
       /\ item[p].status = "pending" /\ owner[p] = None
       /\ item' = [item EXCEPT ![p] = Claimed(@)]
       /\ pend' = [pend EXCEPT ![p] = item'[p]]
       /\ at' = [at EXCEPT ![s] = p]
  /\ Goto(s, "load")
  /\ UNCHANGED <<owner, asked, runs, active, todo, snap, drained, restarts>>

\* A second session reads the item again.
WorkerLoad(w) ==
  LET s == Worker(w) IN
  /\ At(s, "load")
  /\ LoadItem(s, at[s])
  /\ Goto(s, "enrich")
  /\ UNCHANGED <<items, asked, runs, active, todo, drained, restarts>>

enrichRest == <<asked, runs, active, todo, at, restarts>>

\* A strategy has run; its results are flushed and the item's row is locked.
Strategy(s) ==
  /\ At(s, "enrich") /\ owner[at[s]] # s
  /\ Flush(s, at[s], snap[s])
  /\ UNCHANGED <<pc, drained, enrichRest>>

\* mark_complete, or mark_failed for a person that is gone.
Finish(s, status) ==
  /\ At(s, "enrich")
  /\ Flush(s, at[s], [snap[s] EXCEPT !.status = status])
  /\ Goto(s, IF snap[s].run = None THEN "save" ELSE "count")
  /\ UNCHANGED <<drained, enrichRest>>

\* _update_run_progress: nothing of the run is pending.  The run is the one the
\* item belonged to when it was loaded.
RunDrained(s, r) == PendingFor(s, r) = {} /\ run[r] = "running"

Count(s) ==
  LET r == snap[s].run IN
  /\ At(s, "count")
  /\ drained' = [drained EXCEPT ![s] = IF RunDrained(s, r) THEN r ELSE None]
  /\ Goto(s, "save")
  /\ UNCHANGED <<items, snap, enrichRest>>

\* _active_worker_count goes down when a worker ends, and the poller starts another.
EndOf(s) == IF s[1] = "worker" THEN "idle" ELSE "done"

\* The commit of the outcome, with the run when it is drained.
Save(s) ==
  /\ At(s, "save")
  /\ drained[s] # None => RunFree(s, drained[s])
  /\ CommitItems(s)
  /\ run' = [q \in Requests |-> IF q = drained[s] THEN "complete" ELSE run[q]]
  /\ drained' = [drained EXCEPT ![s] = None]
  /\ at' = [at EXCEPT ![s] = None]
  /\ snap' = [snap EXCEPT ![s] = NoItem]
  /\ Goto(s, EndOf(s))
  /\ UNCHANGED <<asked, held, latest, orphan, draft, active, todo, restarts>>

\* An exception, a rate limit or a pending scrape: roll back,
EnrichFails(s) ==
  /\ Failures /\ pc[s] \in {"enrich", "count", "save"}
  /\ RollbackItems(s)
  /\ drained' = [drained EXCEPT ![s] = None]
  /\ Goto(s, "reload")
  /\ UNCHANGED <<snap, enrichRest>>

\* read the item again and put it off, or give it up after too many attempts.
Reload(s) ==
  LET new == Deferred(item[at[s]]) IN
  /\ At(s, "reload")
  /\ ItemFree(s, at[s])
  /\ owner' = [owner EXCEPT ![at[s]] = s]
  /\ pend' = [pend EXCEPT ![at[s]] = new]
  /\ snap' = [snap EXCEPT ![s] = new]
  /\ Goto(s, IF new.status = "failed" /\ new.run # None THEN "count" ELSE "save")
  /\ UNCHANGED <<item, drained, enrichRest>>

\* That fails as well: the item stays as it is committed.
EnrichGivesUp(s) ==
  /\ Failures /\ pc[s] \in {"load", "reload"}
  /\ Goto(s, EndOf(s))
  /\ at' = [at EXCEPT ![s] = None]
  /\ snap' = [snap EXCEPT ![s] = NoItem]
  /\ UNCHANGED <<items, asked, runs, active, todo, drained, restarts>>

Enrich(s) ==
  \/ Strategy(s) \/ Finish(s, "complete") \/ (Failures /\ Finish(s, "failed"))
  \/ Count(s) \/ Save(s) \/ EnrichFails(s) \/ Reload(s) \/ EnrichGivesUp(s)

(***************************************************************************)
(* The process stops and starts again: what was not committed is lost.     *)
(***************************************************************************)
Restart ==
  /\ restarts < MaxRestarts
  /\ restarts' = restarts + 1
  /\ pend' = item /\ owner' = [p \in Persons |-> None]
  /\ held' = [s \in Processes |-> None]
  /\ pc' = [s \in Processes |-> CASE s[1] = "worker" -> "idle"
                                  [] s[1] = "task" -> "none"
                                  [] OTHER -> IF At(s, "idle") THEN "idle" ELSE "done"]
  /\ active' = {}
  /\ todo' = [r \in Requests |-> {}]
  /\ at' = [s \in Processes |-> None] /\ snap' = [s \in Processes |-> NoItem]
  /\ drained' = [s \in Processes |-> None]
  /\ UNCHANGED <<item, asked, run, latest, orphan, draft>>

Init ==
  /\ item \in {[p \in Persons |-> IF p \in old THEN PutOff ELSE NoItem] : old \in Earlier}
  /\ pend = item
  /\ owner = [p \in Persons |-> None]
  /\ run = [r \in Requests |-> "none"]
  /\ held = [s \in Processes |-> None]
  /\ pc = [s \in Processes |-> IF s[1] = "task" THEN "none" ELSE "idle"]
  /\ op = [r \in Requests |-> "none"]
  /\ user = [r \in Requests |-> None]
  /\ stamp = [r \in Requests |-> 0]
  /\ latest = [r \in Requests |-> None]
  /\ orphan = [r \in Requests |-> FALSE]
  /\ draft = [r \in Requests |-> "none"]
  /\ active = {}
  /\ todo = [r \in Requests |-> {}]
  /\ at = [s \in Processes |-> None] /\ snap = [s \in Processes |-> NoItem]
  /\ drained = [s \in Processes |-> None]
  /\ restarts = 0

Next ==
  \/ \E r \in Requests : StartRead(r) \/ StatusRead(r) \/ EnqueueRead(r)
                            \/ Serve(r) \/ TaskStep(r) \/ Enrich(Req(r))
  \/ \E w \in Workers : Claim(w) \/ WorkerLoad(w) \/ Enrich(Worker(w))
  \/ Restart

Spec == Init /\ [][Next]_vars

\* Requests that were accepted, tasks and workers run on: all are coroutines of
\* one event loop.
FairSpec ==
  /\ Spec
  /\ \A r \in Requests : WF_vars(Serve(r) \/ Enrich(Req(r))) /\ WF_vars(TaskStep(r))
  /\ \A w \in Workers : WF_vars(Claim(w) \/ WorkerLoad(w) \/ Enrich(Worker(w)))

(***************************************************************************)
(* Properties.                                                             *)
(***************************************************************************)

\* ARCHITECTURE.md, on the schedulers: one background task per user.  The active
\* set names exactly the users whose task has not ended, and none has two.
OneTaskPerUser ==
  /\ active = {user[r] : r \in {q \in Requests : Live(q)}}
  /\ \A r, q \in Requests : Live(r) /\ Live(q) /\ user[r] = user[q] => r = q

\* A person is enriched by one worker at a time: FOR UPDATE SKIP LOCKED and
\* IN_PROGRESS keep the others away.
ClaimExclusive ==
  \A s, o \in Processes :
    pc[s] \in EnrichPC /\ pc[o] \in EnrichPC /\ at[s] = at[o] => s = o

\* A run is COMPLETE only when none of its items is left to do, and stays so.
CompleteIsSettled ==
  \A r \in Requests, p \in Persons :
    run[r] = "complete" /\ item[p].run = r => item[p].status \notin ActiveStatus

\* The items live as the queue promises (ItemLife): what the workers and the
\* tasks commit, from rows they read before and wrote under locks, adds up to
\* items that are asked for, taken by one worker, tried no more often than
\* enrichment_max_retries and moved on by that worker alone.
Life == INSTANCE ItemLife WITH
          Items <- Persons, Handlers <- Workers, Nobody <- None, MaxTries <- MaxRetries,
          status <- [p \in Persons |-> item[p].status],
          tries <- [p \in Persons |-> item[p].attempts],
          holding <- [w \in Workers |-> at[Worker(w)]]
QueueRefines == Life!Spec

\* No task and no request waits for the rows of the queue forever, although each
\* task locks its persons in an order of its own: the database chooses who loses,
\* and what loses lets go of its rows.
WorkEnds ==
  \A r \in Requests : /\ Live(r) ~> ~Live(r)
                      /\ op[r] # "none" ~> At(Req(r), "done")

\* The answer of start_enrichment: "Enrichment started in the background."
ScheduledRuns ==
  \A r \in Requests :
    Live(r) ~> run[r] \in {"running", "complete", "failed"}

\* skill.md: "Poll until state is "complete"."  A run whose items are all settled,
\* with nobody left to settle the run, is not RUNNING.
DrainedRunCompletes ==
  \A r \in Requests :
    /\ run[r] = "running" /\ ~Live(r)
    /\ \A s \in Processes : pc[s] \notin EnrichPC
    => \E p \in Persons : item[p].run = r /\ item[p].status \in ActiveStatus

\* config.py: "Base backoff seconds between enrichment retries".  A deferred item
\* is tried again.
DeferredRetried ==
  \A p \in Persons : item[p].status = "deferred" ~> item[p].status # "deferred"
=============================================================================
