----------------------- MODULE EnrichmentQueueProofs -----------------------
(***************************************************************************)
(* Proofs about EnrichmentQueue for any users, persons and workers, any    *)
(* finite set of requests, with failures and restarts: types and tasks for *)
(* every use of the queue.  The lemmas from OneUsersPool on are about one   *)
(* user who starts and reads runs and does nothing else: they say why the  *)
(* workers' claims, the ends of runs and ItemLife hold of a pool by itself,*)
(* and nothing of a server that also enriches single persons, imports or   *)
(* serves a second user.                                                   *)
(***************************************************************************)
EXTENDS EnrichmentQueue, FiniteSetTheorems, TLAPS

\* A process that handles a person knows which one.
Placed ==
  \A s \in Processes :
    pc[s] \in EnrichPC \union {"flush", "stored", "select"} => at[s] \in Persons

\* A request that arrived has a user, and only such a request has a task.
UserKnown ==
  \A r \in Requests : /\ pc[Req(r)] # "idle" => user[r] \in Users
                      /\ pc[Task(r)] # "none" => pc[Req(r)] # "idle"

TypeInv == TypeOK /\ Placed /\ UserKnown

\* Names of processes: requests, tasks and workers are told apart.
LEMMA ProcessNames ==
  /\ \A r \in Requests : Req(r) \in Processes /\ Task(r) \in Processes
  /\ \A w \in Workers : Worker(w) \in Processes
  /\ \A r, q \in Requests : Req(r) # Task(q)
  /\ \A r, q \in Requests : Req(r) = Req(q) => r = q
  /\ \A r, q \in Requests : Task(r) = Task(q) => r = q
  /\ \A r \in Requests, w \in Workers : Worker(w) # Req(r) /\ Worker(w) # Task(r)
  /\ \A s \in Processes :
       \/ \E r \in Requests : s = Req(r) \/ s = Task(r)
       \/ \E w \in Workers : s = Worker(w)
  /\ \A r \in Requests : Req(r)[1] = "request" /\ Task(r)[1] = "task"
  /\ \A w \in Workers : Worker(w)[1] = "worker"
BY DEF Processes, Req, Task, Worker

LEMMA MergeItem ==
  ASSUME NEW from \in Item, NEW to \in Item, NEW current \in Item
  PROVE  Merge(from, to, current) \in Item
<1>1. DOMAIN current = {"status", "run", "attempts"}
  BY DEF Item
<1> QED BY <1>1 DEF Merge, Item

\* What the queue service writes are items.
LEMMA WrittenItems ==
  ASSUME NEW old \in Item, NEW r \in Requests \union {None}
  PROVE  Enqueued(old, r) \in Item /\ Claimed(old) \in Item /\ Deferred(old) \in Item
<1>1. /\ old.status \in Status /\ old.run \in Requests \union {None}
      /\ old.attempts \in Nat
  BY DEF Item
<1>2. Enqueued(old, r) \in Item
  <2>1. CASE old.status \in ActiveStatus
    <3>1. Enqueued(old, r) = [old EXCEPT
             !.run = IF r = None THEN old.run ELSE r,
             !.status = IF old.status = "deferred" THEN "pending" ELSE old.status]
      BY <2>1 DEF Enqueued
    <3> QED BY <1>1, <3>1 DEF Item, Status, ActiveStatus
  <2>2. CASE old.status \notin ActiveStatus
    BY <2>2 DEF Enqueued, Item, Status, ActiveStatus
  <2> QED BY <2>1, <2>2
<1>3. Claimed(old) \in Item
  <2>1. "in_progress" \in Status /\ old.attempts + 1 \in Nat
    BY <1>1 DEF Status, ActiveStatus
  <2> QED BY <2>1 DEF Claimed, Item
<1>4. Deferred(old) \in Item
  <2>1. (IF old.attempts >= MaxRetries THEN "failed" ELSE "deferred") \in Status
    BY DEF Status, ActiveStatus
  <2> QED BY <2>1 DEF Deferred, Item
<1> QED BY <1>2, <1>3, <1>4

LEMMA NoItemIsItem == NoItem \in Item
BY DEF NoItem, Item, Status

\* The queue's rows and the sessions' copies stay items.
LEMMA FlushType ==
  ASSUME TypeOK, NEW s \in Processes, NEW p, NEW new \in Item, Flush(s, p, new)
  PROVE  /\ item' \in [Persons -> Item] /\ pend' \in [Persons -> Item]
         /\ owner' \in [Persons -> Processes \union {None}]
         /\ snap' \in [Processes -> Item]
<1>1. p \in Persons => Merge(snap[s], new, View(s, p)) \in Item
  BY MergeItem DEF View, TypeOK
<1> QED BY <1>1 DEF Flush, TypeOK

LEMMA CommitType ==
  ASSUME TypeOK, NEW s \in Processes, CommitItems(s)
  PROVE  /\ item' \in [Persons -> Item] /\ pend' \in [Persons -> Item]
         /\ owner' \in [Persons -> Processes \union {None}]
BY DEF CommitItems, Unlock, View, TypeOK

LEMMA RollbackType ==
  ASSUME TypeOK, NEW s \in Processes, RollbackItems(s)
  PROVE  /\ item' \in [Persons -> Item] /\ pend' \in [Persons -> Item]
         /\ owner' \in [Persons -> Processes \union {None}]
BY DEF RollbackItems, Unlock, TypeOK

\* The steps of enriching a person change only the enriching process's state.
LEMMA EnrichType ==
  ASSUME TypeInv, NEW s \in Processes, Enrich(s)
  PROVE  TypeOK'
<1> USE DEF At
<1>1. snap[s] \in Item /\ pc \in [Processes -> PC]
  BY DEF TypeInv, TypeOK
<1>2. EndOf(s) \in PC
  BY DEF EndOf, PC, RequestPC
<1>3. CASE Strategy(s)
  <2>1. Flush(s, at[s], snap[s])
    BY <1>3 DEF Strategy
  <2>2. /\ item' \in [Persons -> Item] /\ pend' \in [Persons -> Item]
        /\ owner' \in [Persons -> Processes \union {None}]
        /\ snap' \in [Processes -> Item]
    BY <1>1, <2>1, FlushType DEF TypeInv
  <2> QED BY <1>3, <2>2 DEF Strategy, enrichRest, asked, runs, TypeInv, TypeOK
<1>4. ASSUME NEW status \in {"complete", "failed"}, Finish(s, status) PROVE TypeOK'
  <2> DEFINE new == [snap[s] EXCEPT !.status = status]
  <2>1. new \in Item
    BY <1>1 DEF Item, Status
  <2>2. Flush(s, at[s], new)
    BY <1>4 DEF Finish
  <2> HIDE DEF new
  <2>3. /\ item' \in [Persons -> Item] /\ pend' \in [Persons -> Item]
        /\ owner' \in [Persons -> Processes \union {None}]
        /\ snap' \in [Processes -> Item]
    BY <2>1, <2>2, FlushType DEF TypeInv
  <2>4. pc' \in [Processes -> PC]
    BY <1>1, <1>4 DEF Finish, Goto, PC, RequestPC, EnrichPC
  <2> QED BY <1>4, <2>3, <2>4 DEF Finish, enrichRest, asked, runs, TypeInv, TypeOK
<1>5. CASE Count(s)
  <2>1. pc' \in [Processes -> PC]
    BY <1>1, <1>5 DEF Count, Goto, PC, RequestPC, EnrichPC
  <2>2. drained' \in [Processes -> Requests \union {None}]
    BY <1>1, <1>5 DEF Count, TypeInv, TypeOK, Item
  <2> QED BY <1>5, <2>1, <2>2 DEF Count, items, enrichRest, asked, runs, TypeInv, TypeOK
<1>6. CASE Save(s)
  <2>1. CommitItems(s)
    BY <1>6 DEF Save
  <2>2. /\ item' \in [Persons -> Item] /\ pend' \in [Persons -> Item]
        /\ owner' \in [Persons -> Processes \union {None}]
    BY <2>1, CommitType DEF TypeInv
  <2>3. pc' \in [Processes -> PC] /\ snap' \in [Processes -> Item]
    BY <1>1, <1>2, <1>6, NoItemIsItem DEF Save, Goto, TypeInv, TypeOK
  <2>4. run' \in [Requests -> RunState]
    BY <1>6 DEF Save, TypeInv, TypeOK, RunState
  <2> QED BY <1>6, <2>2, <2>3, <2>4 DEF Save, asked, TypeInv, TypeOK
<1>7. CASE EnrichFails(s)
  <2>1. RollbackItems(s)
    BY <1>7 DEF EnrichFails
  <2>2. /\ item' \in [Persons -> Item] /\ pend' \in [Persons -> Item]
        /\ owner' \in [Persons -> Processes \union {None}]
    BY <2>1, RollbackType DEF TypeInv
  <2>3. pc' \in [Processes -> PC]
    BY <1>1, <1>7 DEF EnrichFails, Goto, PC, RequestPC, EnrichPC
  <2> QED BY <1>7, <2>2, <2>3 DEF EnrichFails, enrichRest, asked, runs, TypeInv, TypeOK
<1>8. CASE Reload(s)
  <2> DEFINE new == Deferred(item[at[s]])
  <2>1. at[s] \in Persons
    BY <1>8 DEF Reload, TypeInv, Placed, EnrichPC
  <2>2. new \in Item
    BY <2>1, WrittenItems DEF TypeInv, TypeOK
  <2>3. /\ owner' = [owner EXCEPT ![at[s]] = s]
        /\ pend' = [pend EXCEPT ![at[s]] = new]
        /\ snap' = [snap EXCEPT ![s] = new]
        /\ UNCHANGED <<item, drained, enrichRest>>
        /\ pc' \in [Processes -> PC]
    BY <1>1, <1>8 DEF Reload, Goto, PC, RequestPC, EnrichPC
  <2> HIDE DEF new
  <2> QED BY <2>1, <2>2, <2>3 DEF enrichRest, asked, runs, TypeInv, TypeOK
<1>9. CASE EnrichGivesUp(s)
  BY <1>1, <1>2, <1>9, NoItemIsItem
  DEF EnrichGivesUp, Goto, items, asked, runs, TypeInv, TypeOK
<1> QED BY <1>3, <1>4, <1>5, <1>6, <1>7, <1>8, <1>9, Enrich(s) DEF Enrich

\* A request's handler keeps the types.
LEMMA ServeType ==
  ASSUME TypeInv, NEW r \in Requests, Serve(r)
  PROVE  TypeOK'
<1> DEFINE s == Req(r)
<1> USE ProcessNames DEF At
<1>1. s \in Processes /\ s \in DOMAIN pc /\ snap[s] \in Item /\ pc \in [Processes -> PC]
  BY DEF TypeInv, TypeOK
<1> HIDE DEF s
<1>2. CASE StatusSave(r)
  <2>1. pc' \in [Processes -> PC]
    BY <1>1, <1>2 DEF StatusSave, Goto, PC, RequestPC
  <2>2. run' \in [Requests -> RunState]
    BY <1>2 DEF StatusSave, TypeInv, TypeOK, RunState
  <2> QED BY <1>2, <2>1, <2>2 DEF StatusSave, items, asked, work, TypeInv, TypeOK
<1>3. CASE StartCheck(r)
  <2>1. pc' \in [Processes -> PC]
    BY <1>1, <1>3 DEF StartCheck, Goto, PC, RequestPC
  <2>2. held' \in [Processes -> Requests \union {None}]
    BY <1>3 DEF StartCheck, TypeInv, TypeOK
  <2>3. draft' \in [Requests -> RunState]
    BY <1>3 DEF StartCheck, TypeInv, TypeOK, RunState
  <2> QED BY <1>3, <2>1, <2>2, <2>3 DEF StartCheck, items, asked, work, TypeInv, TypeOK
<1>4. CASE StartSchedule(r)
  <2>1. user[r] \in Users
    BY <1>4 DEF StartSchedule, TypeInv, UserKnown
  <2>2. pc' \in [Processes -> PC]
    <3>1. CASE MaySchedule(user[r])
      BY <1>1, <1>4, <3>1 DEF StartSchedule, PC, RequestPC, TaskPC
    <3>2. CASE ~MaySchedule(user[r])
      BY <1>1, <1>4, <3>2 DEF StartSchedule, Goto, PC, RequestPC
    <3> QED BY <3>1, <3>2
  <2>3. draft' \in [Requests -> RunState] /\ active' \subseteq Users
    BY <1>4, <2>1 DEF StartSchedule, TypeInv, TypeOK, RunState
  <2> QED BY <1>4, <2>2, <2>3 DEF StartSchedule, items, asked, work, TypeInv, TypeOK
<1>5. CASE StartCommit(r)
  <2>1. pc' \in [Processes -> PC]
    BY <1>1, <1>5 DEF StartCommit, Goto, PC, RequestPC
  <2>2. run' \in [Requests -> RunState]
    BY <1>5 DEF StartCommit, TypeInv, TypeOK, RunState
  <2> QED BY <1>5, <2>1, <2>2 DEF StartCommit, items, asked, work, TypeInv, TypeOK
<1>6. CASE EnqueueFlush(r)
  <2> DEFINE new == Enqueued(snap[s], None)
  <2>1. new \in Item
    BY <1>1, WrittenItems
  <2>2. Flush(s, at[s], new)
    BY <1>6 DEF EnqueueFlush, Enqueue, s
  <2> HIDE DEF new
  <2>3. /\ item' \in [Persons -> Item] /\ pend' \in [Persons -> Item]
        /\ owner' \in [Persons -> Processes \union {None}]
        /\ snap' \in [Processes -> Item]
    BY <1>1, <2>1, <2>2, FlushType DEF TypeInv
  <2>4. pc' \in [Processes -> PC]
    BY <1>1, <1>6 DEF EnqueueFlush, Goto, PC, RequestPC
  <2> QED BY <1>6, <2>3, <2>4 DEF EnqueueFlush, asked, runs, TypeInv, TypeOK
<1>7. CASE EnqueueCommit(r)
  <2>1. CommitItems(s)
    BY <1>7 DEF EnqueueCommit, s
  <2>2. /\ item' \in [Persons -> Item] /\ pend' \in [Persons -> Item]
        /\ owner' \in [Persons -> Processes \union {None}]
    BY <1>1, <2>1, CommitType DEF TypeInv
  <2>3. pc' \in [Processes -> PC]
    BY <1>1, <1>7 DEF EnqueueCommit, Goto, PC, RequestPC
  <2> QED BY <1>7, <2>2, <2>3 DEF EnqueueCommit, asked, runs, work, TypeInv, TypeOK
<1>8. CASE EnrichSelect(r)
  <2>1. at[s] \in Persons
    BY <1>1, <1>8 DEF EnrichSelect, TypeInv, Placed, s
  <2>2. LoadItem(s, at[s])
    BY <1>8 DEF EnrichSelect, s
  <2>3. at' \in [Processes -> Persons \union {None}] /\ snap' \in [Processes -> Item]
    BY <1>1, <2>1, <2>2 DEF LoadItem, TypeInv, TypeOK
  <2>4. pc' \in [Processes -> PC]
    BY <1>1, <1>8 DEF EnrichSelect, Goto, PC, RequestPC, EnrichPC
  <2> QED BY <1>8, <2>3, <2>4 DEF EnrichSelect, items, asked, runs, TypeInv, TypeOK
<1>9. CASE RequestFails(r)
  <2>1. RollbackItems(s)
    BY <1>9 DEF RequestFails, s
  <2>2. /\ item' \in [Persons -> Item] /\ pend' \in [Persons -> Item]
        /\ owner' \in [Persons -> Processes \union {None}]
    BY <1>1, <2>1, RollbackType DEF TypeInv
  <2>3. pc' \in [Processes -> PC]
    BY <1>1, <1>9 DEF RequestFails, Goto, PC, RequestPC
  <2>4. held' \in [Processes -> Requests \union {None}]
    BY <1>9 DEF RequestFails, TypeInv, TypeOK
  <2> QED BY <1>9, <2>2, <2>3, <2>4 DEF RequestFails, asked, work, TypeInv, TypeOK
<1> QED BY <1>2, <1>3, <1>4, <1>5, <1>6, <1>7, <1>8, <1>9, Serve(r) DEF Serve

\* So does the task of a run.
LEMMA TaskType ==
  ASSUME TypeInv, NEW r \in Requests, TaskStep(r)
  PROVE  TypeOK'
<1> DEFINE t == Task(r)
<1> USE ProcessNames DEF At
<1>1. t \in Processes /\ snap[t] \in Item /\ pc \in [Processes -> PC]
  BY DEF TypeInv, TypeOK
<1> HIDE DEF t
<1>2. CASE TaskBegin(r)
  <2>1. pc' \in [Processes -> PC]
    BY <1>1, <1>2 DEF TaskBegin, Goto, PC, RequestPC, TaskPC
  <2>2. run' \in [Requests -> RunState]
    BY <1>2 DEF TaskBegin, TypeInv, TypeOK, RunState
  <2>3. todo' \in [Requests -> SUBSET Persons]
    BY ZenonT(30), <1>2 DEF TaskBegin, TypeInv, TypeOK
  <2> QED BY <1>2, <2>1, <2>2, <2>3 DEF TaskBegin, items, asked, work, TypeInv, TypeOK
<1>3. CASE TaskPick(r)
  <2>1. PICK p \in todo[r] : LoadItem(t, p)
    BY <1>3 DEF TaskPick, t
  <2>2. p \in Persons
    BY DEF TypeInv, TypeOK
  <2>3. at' \in [Processes -> Persons \union {None}] /\ snap' \in [Processes -> Item]
    BY <1>1, <2>1, <2>2 DEF LoadItem, TypeInv, TypeOK
  <2>4. pc' \in [Processes -> PC]
    BY <1>1, <1>3 DEF TaskPick, Goto, PC, RequestPC
  <2> QED BY <1>3, <2>3, <2>4 DEF TaskPick, items, asked, runs, TypeInv, TypeOK
<1>4. CASE TaskFlush(r)
  <2> DEFINE new == Enqueued(snap[t], r)
  <2>1. new \in Item
    BY <1>1, WrittenItems
  <2>2. Flush(t, at[t], new)
    BY <1>4 DEF TaskFlush, Enqueue, t
  <2> HIDE DEF new
  <2>3. /\ item' \in [Persons -> Item] /\ pend' \in [Persons -> Item]
        /\ owner' \in [Persons -> Processes \union {None}]
        /\ snap' \in [Processes -> Item]
    BY <1>1, <2>1, <2>2, FlushType DEF TypeInv
  <2>4. pc' \in [Processes -> PC]
    BY <1>1, <1>4 DEF TaskFlush, Goto, PC, TaskPC
  <2>5. todo' \in [Requests -> SUBSET Persons]
    BY <1>4 DEF TaskFlush, TypeInv, TypeOK
  <2> QED BY <1>4, <2>3, <2>4, <2>5 DEF TaskFlush, asked, runs, TypeInv, TypeOK
<1>5. CASE TaskCommit(r)
  <2>1. CommitItems(t)
    BY <1>5 DEF TaskCommit, t
  <2>2. /\ item' \in [Persons -> Item] /\ pend' \in [Persons -> Item]
        /\ owner' \in [Persons -> Processes \union {None}]
    BY <1>1, <2>1, CommitType DEF TypeInv
  <2>3. pc' \in [Processes -> PC]
    BY <1>1, <1>5 DEF TaskCommit, Goto, PC, TaskPC
  <2>4. run' \in [Requests -> RunState]
    BY <1>5 DEF TaskCommit, TypeInv, TypeOK, RunState
  <2> QED BY <1>5, <2>2, <2>3, <2>4 DEF TaskCommit, asked, work, TypeInv, TypeOK
<1>6. CASE TaskFails(r)
  <2>1. RollbackItems(t)
    BY <1>6 DEF TaskFails, t
  <2>2. /\ item' \in [Persons -> Item] /\ pend' \in [Persons -> Item]
        /\ owner' \in [Persons -> Processes \union {None}]
    BY <1>1, <2>1, RollbackType DEF TypeInv
  <2>3. pc' \in [Processes -> PC]
    BY <1>1, <1>6 DEF TaskFails, Goto, PC, TaskPC
  <2>4. todo' \in [Requests -> SUBSET Persons]
    BY <1>6 DEF TaskFails, TypeInv, TypeOK
  <2> QED BY <1>6, <2>2, <2>3, <2>4 DEF TaskFails, asked, runs, work, TypeInv, TypeOK
<1>7. CASE TaskFail(r)
  <2>1. pc' \in [Processes -> PC]
    BY <1>1, <1>7 DEF TaskFail, Goto, PC, TaskPC
  <2>2. run' \in [Requests -> RunState]
    BY <1>7 DEF TaskFail, TypeInv, TypeOK, RunState
  <2> QED BY <1>7, <2>1, <2>2 DEF TaskFail, items, asked, work, TypeInv, TypeOK
<1>8. CASE TaskRelease(r)
  <2>1. pc' \in [Processes -> PC]
    BY <1>1, <1>8 DEF TaskRelease, Goto, PC, TaskPC
  <2>2. active' \subseteq Users
    BY <1>8 DEF TaskRelease, ReleaseUser, TypeInv, TypeOK
  <2> QED BY <1>8, <2>1, <2>2 DEF TaskRelease, items, asked, runs, work, TypeInv, TypeOK
<1> QED BY <1>2, <1>3, <1>4, <1>5, <1>6, <1>7, <1>8, TaskStep(r) DEF TaskStep

Arriving(r) == StartRead(r) \/ StatusRead(r) \/ EnqueueRead(r)

\* A request that arrives gets a user and a timestamp.
LEMMA ArriveType ==
  ASSUME TypeInv, NEW r \in Requests, Arriving(r)
  PROVE  /\ TypeOK' /\ user'[r] \in Users
         /\ At(Req(r), "idle") /\ active' = active
         /\ \A q \in Requests \ {r} : user'[q] = user[q]
<1> USE ProcessNames DEF At
<1>1. Cardinality({q \in Requests : stamp[q] > 0}) + 1 \in Nat
  <2>1. IsFiniteSet({q \in Requests : stamp[q] > 0})
    BY EnrichmentQueueAssumption, FS_Subset
  <2> QED BY <2>1, FS_CardinalityType
<1>2. ASSUME NEW what, NEW u \in Users, Arrive(r, what, u)
      PROVE  /\ op' \in [Requests -> Ops \union {"none"}]
             /\ user' \in [Requests -> Users \union {None}]
             /\ stamp' \in [Requests -> Nat]
             /\ user'[r] \in Users /\ pc[Req(r)] = "idle"
             /\ \A q \in Requests \ {r} : user'[q] = user[q]
  BY <1>1, <1>2 DEF Arrive, TypeInv, TypeOK
<1>3. ASSUME NEW u \in Users, ReadLatest(r, u)
      PROVE  /\ latest' \in [Requests -> Requests \union {None}]
             /\ orphan' \in [Requests -> BOOLEAN]
             /\ UNCHANGED <<run, held, draft>>
  BY <1>3 DEF ReadLatest, RunsOf, Orphaned, TypeInv, TypeOK
<1>4. CASE StartRead(r)
  <2>1. PICK u \in Users : Arrive(r, "start", u) /\ ReadLatest(r, u)
    BY <1>4 DEF StartRead
  <2>2. pc' \in [Processes -> PC]
    BY <1>4 DEF StartRead, Goto, TypeInv, TypeOK, PC, RequestPC
  <2> QED BY <1>2, <1>3, <1>4, <2>1, <2>2 DEF StartRead, items, work, TypeInv, TypeOK
<1>5. CASE StatusRead(r)
  <2>1. PICK u \in Users : Arrive(r, "status", u) /\ ReadLatest(r, u)
    BY <1>5 DEF StatusRead
  <2>2. pc' \in [Processes -> PC]
    BY <1>5 DEF StatusRead, Goto, TypeInv, TypeOK, PC, RequestPC
  <2> QED BY <1>2, <1>3, <1>5, <2>1, <2>2 DEF StatusRead, items, work, TypeInv, TypeOK
<1>6. CASE EnqueueRead(r)
  <2>1. PICK u \in Users : Arrive(r, "enqueue", u) \/ Arrive(r, "enrich", u)
    BY <1>6 DEF EnqueueRead
  <2>2. PICK p \in Persons : LoadItem(Req(r), p)
    BY <1>6 DEF EnqueueRead
  <2>3. at' \in [Processes -> Persons \union {None}] /\ snap' \in [Processes -> Item]
    BY <2>2 DEF LoadItem, TypeInv, TypeOK
  <2>4. pc' \in [Processes -> PC]
    BY <1>6 DEF EnqueueRead, Goto, TypeInv, TypeOK, PC, RequestPC
  <2> QED BY <1>2, <1>6, <2>1, <2>3, <2>4 DEF EnqueueRead, items, runs, TypeInv, TypeOK
<1> QED BY <1>4, <1>5, <1>6, Arriving(r) DEF Arriving

\* So do the pool's claim, the load that follows it, and a restart.
LEMMA PoolType ==
  ASSUME TypeInv, NEW w \in Workers, Claim(w) \/ WorkerLoad(w)
  PROVE  TypeOK'
<1> DEFINE s == Worker(w)
<1> USE ProcessNames DEF At
<1>1. s \in Processes /\ pc \in [Processes -> PC]
  BY DEF TypeInv, TypeOK
<1> HIDE DEF s
<1>2. CASE Claim(w)
  <2>1. PICK p \in Persons :
          /\ item' = [item EXCEPT ![p] = Claimed(item[p])]
          /\ pend' = [pend EXCEPT ![p] = item'[p]]
          /\ at' = [at EXCEPT ![s] = p]
    BY <1>2 DEF Claim, s
  <2>2. Claimed(item[p]) \in Item
    BY WrittenItems DEF TypeInv, TypeOK
  <2>3. item' \in [Persons -> Item] /\ pend' \in [Persons -> Item]
    BY <2>1, <2>2 DEF TypeInv, TypeOK
  <2>4. pc' \in [Processes -> PC] /\ at' \in [Processes -> Persons \union {None}]
    BY <1>1, <1>2, <2>1 DEF Claim, Goto, PC, RequestPC, EnrichPC, TypeInv, TypeOK
  <2> QED BY <1>2, <2>3, <2>4 DEF Claim, asked, runs, TypeInv, TypeOK
<1>3. CASE WorkerLoad(w)
  <2>1. at[s] \in Persons
    BY <1>1, <1>3 DEF WorkerLoad, TypeInv, Placed, EnrichPC, s
  <2>2. LoadItem(s, at[s])
    BY <1>3 DEF WorkerLoad, s
  <2>3. at' \in [Processes -> Persons \union {None}] /\ snap' \in [Processes -> Item]
    BY <1>1, <2>1, <2>2 DEF LoadItem, TypeInv, TypeOK
  <2>4. pc' \in [Processes -> PC]
    BY <1>1, <1>3 DEF WorkerLoad, Goto, PC, RequestPC, EnrichPC
  <2> QED BY <1>3, <2>3, <2>4 DEF WorkerLoad, items, asked, runs, TypeInv, TypeOK
<1> QED BY <1>2, <1>3, Claim(w) \/ WorkerLoad(w)

LEMMA RestartType == TypeInv /\ Restart => TypeOK'
<1> SUFFICES ASSUME TypeInv, Restart PROVE TypeOK'
  OBVIOUS
<1>1. pc' \in [Processes -> PC]
  BY ProcessNames DEF Restart, At, PC, RequestPC, TaskPC
<1>2. /\ pend' \in [Persons -> Item] /\ snap' \in [Processes -> Item]
      /\ restarts' \in 0..MaxRestarts
  BY NoItemIsItem, EnrichmentQueueAssumption DEF Restart, TypeInv, TypeOK
<1> QED BY <1>1, <1>2 DEF Restart, asked, TypeInv, TypeOK

\* Whoever handles a person knows which: labels and persons are set together.
LEMMA PlacedStep == TypeInv /\ [Next]_vars => Placed'
<1> SUFFICES ASSUME TypeInv, [Next]_vars, NEW s \in Processes,
                    pc'[s] \in EnrichPC \union {"flush", "stored", "select"}
             PROVE  at'[s] \in Persons
  BY DEF Placed
<1> USE ProcessNames DEF At, Goto, EnrichPC
<1>1. /\ pc \in [Processes -> PC] /\ at \in [Processes -> Persons \union {None}]
      /\ pc[s] \in EnrichPC \union {"flush", "stored", "select"} => at[s] \in Persons
  BY DEF TypeInv, TypeOK, Placed
<1>2. ASSUME NEW r \in Requests, Arriving(r) PROVE at'[s] \in Persons
  BY <1>1, <1>2 DEF Arriving, StartRead, StatusRead, EnqueueRead, LoadItem, work
<1>3. ASSUME NEW r \in Requests, Serve(r) PROVE at'[s] \in Persons
  <2>1. CASE StatusSave(r) \/ StartCheck(r) \/ StartCommit(r) \/ RequestFails(r)
    BY <1>1, <2>1 DEF StatusSave, StartCheck, StartCommit, RequestFails, work
  <2>2. CASE StartSchedule(r)
    BY <1>1, <2>2 DEF StartSchedule, work
  <2>3. CASE EnqueueFlush(r) \/ EnqueueCommit(r)
    BY <1>1, <2>3 DEF EnqueueFlush, EnqueueCommit, work
  <2>4. CASE EnrichSelect(r)
    BY <1>1, <2>4 DEF EnrichSelect, LoadItem
  <2> QED BY <1>3, <2>1, <2>2, <2>3, <2>4 DEF Serve
<1>4. ASSUME NEW r \in Requests, TaskStep(r) PROVE at'[s] \in Persons
  <2>1. CASE TaskPick(r)
    BY <1>1, <2>1 DEF TaskPick, LoadItem, TypeInv, TypeOK
  <2>2. CASE TaskBegin(r) \/ TaskFlush(r) \/ TaskCommit(r) \/ TaskFails(r)
             \/ TaskFail(r) \/ TaskRelease(r)
    BY <1>1, <2>2 DEF TaskBegin, TaskFlush, TaskCommit, TaskFails, TaskFail,
       TaskRelease, work
  <2> QED BY <1>4, <2>1, <2>2 DEF TaskStep
<1>5. ASSUME NEW o \in Processes, Enrich(o) PROVE at'[s] \in Persons
  <2>1. CASE Strategy(o) \/ Count(o) \/ EnrichFails(o) \/ Reload(o)
    BY <1>1, <2>1 DEF Strategy, Count, EnrichFails, Reload, enrichRest
  <2>2. ASSUME NEW status, Finish(o, status) PROVE at'[s] \in Persons
    BY <1>1, <2>2 DEF Finish, enrichRest
  <2>3. CASE Save(o) \/ EnrichGivesUp(o)
    BY <1>1, <2>3 DEF Save, EnrichGivesUp, EndOf
  <2> QED BY <1>5, <2>1, <2>2, <2>3 DEF Enrich
<1>6. ASSUME NEW w \in Workers, Claim(w) \/ WorkerLoad(w) PROVE at'[s] \in Persons
  BY <1>1, <1>6 DEF Claim, WorkerLoad, LoadItem
<1>7. CASE Restart
  BY <1>7 DEF Restart
<1>8. CASE UNCHANGED vars
  BY <1>1, <1>8 DEF vars
<1> QED BY <1>2, <1>3, <1>4, <1>5, <1>6, <1>7, <1>8 DEF Next, Arriving

\* The steps that decide who has a task, and all the others.
Scheduling(r) == StartSchedule(r) \/ TaskRelease(r)
Quiet ==
  /\ UNCHANGED <<user, active>>
  /\ \A q \in Requests : /\ pc'[Req(q)] = "idle" <=> pc[Req(q)] = "idle"
                         /\ pc'[Task(q)] = "none" <=> pc[Task(q)] = "none"

LEMMA QuietSteps ==
  ASSUME TypeInv, [Next]_vars
  PROVE  \/ \E r \in Requests : Arriving(r) \/ Scheduling(r)
         \/ Restart
         \/ Quiet
<1> USE ProcessNames DEF At, Goto
<1>1. pc \in [Processes -> PC]
  BY DEF TypeInv, TypeOK
<1>2. ASSUME NEW r \in Requests, Serve(r), ~Scheduling(r) PROVE Quiet
  <2>1. CASE StatusSave(r) \/ StartCheck(r)
    BY <1>1, <2>1 DEF StatusSave, StartCheck, asked, Quiet
  <2>2. CASE StartCommit(r) \/ EnqueueFlush(r)
    BY <1>1, <2>2 DEF StartCommit, EnqueueFlush, asked, Quiet
  <2>3. CASE EnqueueCommit(r) \/ EnrichSelect(r)
    BY <1>1, <2>3 DEF EnqueueCommit, EnrichSelect, asked, Quiet
  <2>4. CASE RequestFails(r)
    BY <1>1, <2>4 DEF RequestFails, asked, Quiet
  <2> QED BY <1>2, <2>1, <2>2, <2>3, <2>4 DEF Serve, Scheduling
<1>3. ASSUME NEW r \in Requests, TaskStep(r), ~Scheduling(r) PROVE Quiet
  <2>1. CASE TaskBegin(r)
    BY <1>1, <2>1 DEF TaskBegin, asked, Quiet
  <2>2. CASE TaskPick(r) \/ TaskFlush(r)
    BY <1>1, <2>2 DEF TaskPick, TaskFlush, asked, Quiet
  <2>3. CASE TaskCommit(r) \/ TaskFail(r)
    BY <1>1, <2>3 DEF TaskCommit, TaskFail, asked, Quiet
  <2>4. CASE TaskFails(r)
    BY <1>1, <2>4 DEF TaskFails, asked, Quiet
  <2> QED BY <1>3, <2>1, <2>2, <2>3, <2>4 DEF TaskStep, Scheduling
<1>4. ASSUME NEW o \in Processes, Enrich(o),
             \A r \in Requests : o # Task(r)
      PROVE  Quiet
  <2>1. EndOf(o) = "idle" => \A r \in Requests : o # Req(r)
    BY DEF EndOf
  <2>2. CASE Strategy(o) \/ Count(o) \/ EnrichFails(o) \/ Reload(o)
    BY <1>1, <1>4, <2>2 DEF Strategy, Count, EnrichFails, Reload, enrichRest, asked, Quiet
  <2>3. ASSUME NEW status, Finish(o, status) PROVE Quiet
    BY <1>1, <1>4, <2>3 DEF Finish, enrichRest, asked, Quiet
  <2>4. CASE Save(o) \/ EnrichGivesUp(o)
    BY <1>1, <1>4, <2>1, <2>4 DEF Save, EnrichGivesUp, asked, Quiet
  <2> QED BY <1>4, <2>2, <2>3, <2>4 DEF Enrich
<1>5. ASSUME NEW w \in Workers, Claim(w) \/ WorkerLoad(w) PROVE Quiet
  BY <1>1, <1>5 DEF Claim, WorkerLoad, asked, Quiet
<1>6. CASE UNCHANGED vars
  BY <1>6 DEF vars, Quiet
<1> QED BY <1>2, <1>3, <1>4, <1>5, <1>6 DEF Next, Arriving

LEMMA UserKnownStep == TypeInv /\ [Next]_vars => UserKnown'
<1> SUFFICES ASSUME TypeInv, [Next]_vars PROVE UserKnown'
  OBVIOUS
<1> USE ProcessNames DEF At, Goto
<1>1. UserKnown /\ pc \in [Processes -> PC]
  BY DEF TypeInv, TypeOK
<1>2. ASSUME NEW r \in Requests, Arriving(r) PROVE UserKnown'
  <2>1. /\ user'[r] \in Users /\ \A q \in Requests \ {r} : user'[q] = user[q]
        /\ pc[Req(r)] = "idle"
    BY <1>2, ArriveType
  <2>2. /\ \A q \in Requests : pc'[Task(q)] = pc[Task(q)]
        /\ \A q \in Requests \ {r} : pc'[Req(q)] = pc[Req(q)]
        /\ pc'[Req(r)] # "idle"
    BY <1>1, <1>2 DEF Arriving, StartRead, StatusRead, EnqueueRead
  <2> QED BY <1>1, <2>1, <2>2 DEF UserKnown
<1>3. ASSUME NEW r \in Requests, StartSchedule(r) PROVE UserKnown'
  <2>1. user' = user /\ pc[Req(r)] = "schedule"
    BY <1>3 DEF StartSchedule, asked
  <2>2. /\ \A q \in Requests \ {r} :
               pc'[Task(q)] = pc[Task(q)] /\ pc'[Req(q)] = pc[Req(q)]
        /\ pc'[Req(r)] = "commit"
    BY <1>1, <1>3 DEF StartSchedule
  <2> QED BY <1>1, <2>1, <2>2 DEF UserKnown
<1>4. ASSUME NEW r \in Requests, TaskRelease(r) PROVE UserKnown'
  <2>1. user' = user
    BY <1>4 DEF TaskRelease, asked
  <2>2. \A q \in Requests :
          /\ pc'[Req(q)] = pc[Req(q)]
          /\ pc'[Task(q)] = IF q = r THEN "none" ELSE pc[Task(q)]
    BY <1>1, <1>4 DEF TaskRelease
  <2> QED BY <1>1, <2>1, <2>2 DEF UserKnown
<1>5. CASE Restart
  <2>1. \A q \in Requests :
          /\ pc'[Task(q)] = "none"
          /\ pc'[Req(q)] = IF pc[Req(q)] = "idle" THEN "idle" ELSE "done"
    BY <1>5 DEF Restart
  <2> QED BY <1>1, <1>5, <2>1 DEF Restart, asked, UserKnown
<1>6. CASE Quiet
  BY <1>1, <1>6 DEF Quiet, UserKnown
<1> QED BY <1>2, <1>3, <1>4, <1>5, <1>6, QuietSteps DEF Scheduling

LEMMA TypeStep == ASSUME TypeInv, [Next]_vars PROVE TypeInv'
<1>1. TypeOK'
  <2>1. CASE UNCHANGED vars
    BY <2>1 DEF vars, TypeInv, TypeOK
  <2> QED
    BY <2>1, ProcessNames, ArriveType, ServeType, TaskType, EnrichType, PoolType,
       RestartType DEF Next, Arriving
<1> QED BY <1>1, PlacedStep, UserKnownStep DEF TypeInv

LEMMA TypeInvariant == Spec => []TypeInv
<1>1. Init => TypeInv
  <2> SUFFICES ASSUME Init PROVE TypeInv
    OBVIOUS
  <2>placed. Placed /\ UserKnown
    BY ProcessNames DEF Init, Placed, UserKnown, EnrichPC
  <2>pcs. pc \in [Processes -> PC]
    BY DEF Init, PC, RequestPC, TaskPC
  <2>restarts. restarts \in 0..MaxRestarts
    BY EnrichmentQueueAssumption DEF Init
  <2>items. item \in [Persons -> Item] /\ pend = item
    <3>1. PutOff \in Item
      BY DEF PutOff, Item, Status, ActiveStatus
    <3> QED BY <3>1, NoItemIsItem DEF Init
  <2> QED BY <2>placed, <2>pcs, <2>restarts, <2>items, NoItemIsItem DEF Init, TypeInv, TypeOK, RunState
<1>2. TypeInv /\ [Next]_vars => TypeInv'
  BY TypeStep
<1> QED BY <1>1, <1>2, PTL DEF Spec

\* Every variable keeps its type, for any number of users, persons and workers.
THEOREM TypeCorrect == Spec => []TypeOK
<1>1. TypeInv => TypeOK
  BY DEF TypeInv
<1> QED BY <1>1, TypeInvariant, PTL

\* One user never has two background tasks, and is_enrichment_running tells the
\* truth, whatever fails and however often the process restarts.
THEOREM OneTask == Spec => []OneTaskPerUser
<1>1. Init => OneTaskPerUser
  BY ProcessNames DEF Init, OneTaskPerUser, Live
<1>2. TypeInv /\ OneTaskPerUser /\ [Next]_vars => OneTaskPerUser'
  <2> SUFFICES ASSUME TypeInv, OneTaskPerUser, [Next]_vars PROVE OneTaskPerUser'
    OBVIOUS
  <2> USE ProcessNames DEF At, Goto, Live
  <2>1. UserKnown /\ pc \in [Processes -> PC]
    BY DEF TypeInv, TypeOK
  <2>2. ASSUME NEW r \in Requests, Arriving(r) PROVE OneTaskPerUser'
    <3>1. /\ \A q \in Requests \ {r} : user'[q] = user[q]
          /\ pc[Req(r)] = "idle" /\ active' = active
      BY <2>2, ArriveType
    <3>2. \A q \in Requests : pc'[Task(q)] = pc[Task(q)]
      BY <2>1, <2>2 DEF Arriving, StartRead, StatusRead, EnqueueRead
    <3>3. pc[Task(r)] = "none"
      BY <2>1, <3>1 DEF UserKnown
    <3> QED BY <3>1, <3>2, <3>3 DEF OneTaskPerUser
  <2>3. ASSUME NEW r \in Requests, StartSchedule(r) PROVE OneTaskPerUser'
    <3>1. user' = user /\ \A q \in Requests \ {r} : pc'[Task(q)] = pc[Task(q)]
      BY <2>1, <2>3 DEF StartSchedule, asked
    <3>2. CASE MaySchedule(user[r])
      <4>1. active' = active \union {user[r]} /\ pc'[Task(r)] = "created"
        BY <2>1, <2>3, <3>2 DEF StartSchedule
      <4>2. \A q \in Requests : pc[Task(q)] # "none" => user[q] # user[r]
        BY <3>2 DEF MaySchedule, OneTaskPerUser
      <4> QED BY <3>1, <4>1, <4>2 DEF OneTaskPerUser
    <3>3. CASE ~MaySchedule(user[r])
      <4>1. active' = active /\ pc'[Task(r)] = pc[Task(r)]
        BY <2>1, <2>3, <3>3 DEF StartSchedule
      <4> QED BY <3>1, <4>1 DEF OneTaskPerUser
    <3> QED BY <3>2, <3>3
  <2>4. ASSUME NEW r \in Requests, TaskRelease(r) PROVE OneTaskPerUser'
    <3>1. /\ user' = user /\ active' = active \ {user[r]}
          /\ pc[Task(r)] = "release"
          /\ \A q \in Requests :
               pc'[Task(q)] = IF q = r THEN "none" ELSE pc[Task(q)]
      BY <2>1, <2>4 DEF TaskRelease, ReleaseUser, asked
    <3>2. \A q \in Requests \ {r} : pc[Task(q)] # "none" => user[q] # user[r]
      BY <3>1 DEF OneTaskPerUser
    <3> QED BY <3>1, <3>2 DEF OneTaskPerUser
  <2>5. CASE Restart
    BY <2>5 DEF Restart, OneTaskPerUser
  <2>6. CASE Quiet
    BY <2>6 DEF Quiet, OneTaskPerUser
  <2> QED BY <2>2, <2>3, <2>4, <2>5, <2>6, QuietSteps DEF Scheduling
<1> QED BY <1>1, <1>2, TypeInvariant, PTL DEF Spec

-----------------------------------------------------------------------------
(***************************************************************************)
(* The pool of workers, for one user who starts runs.  With two users, or  *)
(* with imports, a task that has read a deferred item may make it pending  *)
(* again after another has and a worker has claimed it: what follows fails.*)
(***************************************************************************)
OneUsersPool == Ops \subseteq {"start", "status"} /\ \A u, v \in Users : u = v

PoolPlaces ==
  /\ \A r \in Requests : /\ pc[Req(r)] \in {"idle", "check", "schedule", "commit", "status", "done"}
                         /\ pc[Task(r)] \in TaskPC
  /\ \A w \in Workers : pc[Worker(w)] \in EnrichPC \union {"idle"}

\* The runs whose request is answered, and whose task writes no more items.
Past == {r \in Requests : pc[Req(r)] = "done" /\ pc[Task(r)] \in {"release", "none"}}

RunsKnown ==
  /\ \A r \in Requests : /\ run[r] # "none" => pc[Req(r)] = "done"
                         /\ pc[Task(r)] \in {"pick", "flush"} => run[r] # "none"
                         /\ latest[r] # None => run[latest[r]] # "none"
                         /\ orphan[r] => latest[r] # None
                         /\ draft[r] \in {"none", "pending", "failed"}
                         /\ run[r] = "complete" => r \in Past
  /\ \A s \in Processes : held[s] # None => run[held[s]] # "none"

\* Whatever is known to belong to a run was committed by its task.
RunsPast ==
  /\ \A p \in Persons : item[p].run \in Past \union {None}
  /\ \A r \in Requests : pc[Task(r)] = "flush" => snap[Task(r)].run \in Past \union {None}
  /\ \A w \in Workers : /\ snap[Worker(w)].run \in Past \union {None}
                        /\ drained[Worker(w)] \in Past \union {None}

\* Who enriches a person has claimed it, and nobody else has.
Claims ==
  \A w \in Workers : pc[Worker(w)] \in EnrichPC =>
    /\ item[at[Worker(w)]].status = "in_progress"
    /\ \A v \in Workers : pc[Worker(v)] \in EnrichPC /\ at[Worker(v)] = at[Worker(w)] => v = w

\* What may be uncommitted: a worker's outcome, which keeps the item's run, and
\* what the task has enqueued, which is of its own run and leaves a claim.
Locks ==
  \A p \in Persons : owner[p] # None =>
    \/ \E w \in Workers : /\ owner[p] = Worker(w) /\ at[Worker(w)] = p
                          /\ pc[Worker(w)] \in {"enrich", "count", "save"}
                          /\ pend[p].run = item[p].run
    \/ \E r \in Requests : /\ owner[p] = Task(r) /\ pc[Task(r)] \in {"pick", "flush"}
                           /\ pend[p].run = r
                           /\ item[p].status = "in_progress" => pend[p].status = "in_progress"

\* An item the task is to make pending again is as the task has read it.
Taken == {"pending", "in_progress"}
Fresh ==
  \A r \in Requests :
    pc[Task(r)] = "flush" /\ snap[Task(r)].status \notin Taken => item[at[Task(r)]].status \notin Taken

\* A run that was found drained still is.
DrainedStays ==
  \A w \in Workers, p \in Persons :
    LET v == View(Worker(w), p) IN
    drained[Worker(w)] # None => /\ pc[Worker(w)] = "save"
                                 /\ v.run = drained[Worker(w)] => v.status \notin ActiveStatus

PoolInv ==
  /\ PoolPlaces /\ RunsKnown /\ RunsPast
  /\ Claims /\ Locks /\ Fresh /\ DrainedStays /\ CompleteIsSettled

-----------------------------------------------------------------------------
\* The steps that write neither items nor what is read of them.

Aside ==
  /\ UNCHANGED <<item, pend, owner, at, snap, drained>>
  /\ \A w \in Workers : pc'[Worker(w)] = pc[Worker(w)]
  /\ \A r \in Requests : pc[Task(r)] \in {"pick", "flush"} => pc'[Task(r)] = pc[Task(r)]
  /\ \A r \in Requests : pc'[Task(r)] = "flush" => pc[Task(r)] = "flush"

LEMMA AsideKeeps ==
  ASSUME PoolInv, Aside, Past \subseteq Past', PoolPlaces', RunsKnown',
         \A r \in Requests : run'[r] = "complete" => run[r] = "complete"
  PROVE  PoolInv'
<1>1. RunsPast'
  BY DEF PoolInv, RunsPast, Aside
<1>2. Claims' /\ Locks'
  BY DEF PoolInv, Claims, Locks, Aside
<1>3. Fresh' /\ DrainedStays' /\ CompleteIsSettled'
  BY DEF PoolInv, Fresh, DrainedStays, View, CompleteIsSettled, Aside
<1> QED BY <1>1, <1>2, <1>3 DEF PoolInv

LEMMA AskKeeps ==
  ASSUME OneUsersPool, TypeInv, OneTaskPerUser, PoolInv, NEW r \in Requests, Arriving(r) \/ Serve(r)
  PROVE  PoolInv'
<1> USE ProcessNames DEF At, Goto
<1>1. /\ pc \in [Processes -> PC] /\ run \in [Requests -> RunState] /\ owner \in [Persons -> Processes \union {None}]
      /\ latest \in [Requests -> Requests \union {None}] /\ held \in [Processes -> Requests \union {None}]
      /\ draft \in [Requests -> RunState] /\ pend \in [Persons -> Item] /\ orphan \in [Requests -> BOOLEAN]
      /\ PoolPlaces /\ RunsKnown /\ Locks
  BY DEF TypeInv, TypeOK, PoolInv
<1>2. ~EnqueueRead(r) /\ ~EnqueueFlush(r) /\ ~EnqueueCommit(r) /\ ~EnrichSelect(r)
  BY <1>1 DEF EnqueueRead, Arrive, OneUsersPool, EnqueueFlush, EnqueueCommit, EnrichSelect, PoolPlaces
<1>3. CASE Arriving(r)
  <2>1. PICK u \in Users : ReadLatest(r, u)
    BY <1>2, <1>3 DEF Arriving, StartRead, StatusRead
  <2>2. pc[Req(r)] = "idle" /\ UNCHANGED <<items, work>> /\ UNCHANGED <<run, held, draft>>
        /\ pc' = [pc EXCEPT ![Req(r)] = pc'[Req(r)]] /\ pc'[Req(r)] \in {"check", "status"}
    BY <1>1, <1>2, <1>3, <2>1 DEF Arriving, StartRead, StatusRead, Arrive, ReadLatest
  <2>3. \A q \in Requests : /\ latest'[q] # None => run[latest'[q]] # "none"
                            /\ orphan'[q] => latest'[q] # None
    <3>1. PICK o \in RunsOf(u) \union {None} :
            latest' = [latest EXCEPT ![r] = o] /\ orphan' = [orphan EXCEPT ![r] = Orphaned(o, u)]
      BY <2>1 DEF ReadLatest
    <3> QED BY <1>1, <3>1 DEF RunsOf, RunsKnown, Orphaned
  <2>4. PoolPlaces' /\ Aside /\ Past \subseteq Past'
    BY <1>1, <2>2 DEF PoolPlaces, Aside, Past, items, work
  <2>5. RunsKnown'
    BY <1>1, <2>2, <2>3, <2>4 DEF RunsKnown
  <2> QED BY <2>2, <2>4, <2>5, AsideKeeps
<1>4. CASE StatusSave(r) \/ StartCheck(r) \/ StartSchedule(r)
  <2>1. UNCHANGED <<items, work, latest, orphan>>
    BY <1>4 DEF StatusSave, StartCheck, StartSchedule
  <2>2. /\ pc[Req(r)] \in {"status", "check", "schedule"} /\ pc'[Req(r)] \in {"done", "commit", "schedule"}
        /\ \A w \in Workers : pc'[Worker(w)] = pc[Worker(w)]
        /\ \A q \in Requests : /\ q # r => pc'[Req(q)] = pc[Req(q)] /\ pc'[Task(q)] = pc[Task(q)]
                               /\ pc'[Task(q)] # pc[Task(q)] => pc'[Task(q)] = "created" /\ pc[Task(q)] = "none"
    <3>1. CASE StatusSave(r) \/ StartCheck(r)
      BY <1>1, <3>1 DEF StatusSave, StartCheck
    <3>2. CASE StartSchedule(r)
      <4>1. MaySchedule(user[r]) => pc[Task(r)] = "none"
        BY DEF MaySchedule, OneTaskPerUser, Live
      <4> QED BY <1>1, <3>2, <4>1 DEF StartSchedule
    <3> QED BY <1>4, <3>1, <3>2
  <2>3. orphan[r] \/ Orphaned(latest[r], user[r]) => latest[r] \in Requests /\ run[latest[r]] # "none"
    BY <1>1 DEF RunsKnown, Orphaned
  <2>4. \A q \in Requests : /\ run[q] # "none" => run'[q] # "none"
                            /\ run'[q] # "none" => run[q] # "none"
                            /\ run'[q] = "complete" => run[q] = "complete"
    BY <1>1, <1>4, <2>3 DEF StatusSave, StartCheck, StartSchedule
  <2>5. \A q \in Requests : draft'[q] \in {"none", "pending", "failed"}
    BY <1>1, <1>4 DEF StatusSave, StartCheck, StartSchedule, RunsKnown
  <2>6. \A s \in Processes : held'[s] # None => run[held'[s]] # "none" /\ held'[s] \in Requests
    BY <1>1, <1>4, <2>3 DEF StatusSave, StartCheck, StartSchedule, RunsKnown
  <2>7. PoolPlaces' /\ Aside /\ Past \subseteq Past'
    BY <1>1, <2>1, <2>2 DEF PoolPlaces, Aside, Past, items, work, TaskPC
  <2>8. RunsKnown'
    BY <1>1, <2>1, <2>2, <2>4, <2>5, <2>6, <2>7 DEF RunsKnown
  <2> QED BY <2>4, <2>7, <2>8, AsideKeeps
<1>5. CASE StartCommit(r)
  <2>1. /\ UNCHANGED <<items, work, latest, orphan, draft>> /\ pc[Req(r)] = "commit"
        /\ pc' = [pc EXCEPT ![Req(r)] = "done"] /\ held' = [held EXCEPT ![Req(r)] = None]
    BY <1>5 DEF StartCommit
  <2>2. ASSUME NEW q \in Requests
        PROVE  /\ run[q] # "none" => run'[q] # "none"
               /\ run'[q] # "none" => run[q] # "none" \/ q = r
               /\ run'[q] = "complete" => run[q] = "complete"
    <3>1. run'[q] = IF q = r /\ draft[r] # "none" THEN draft[r] ELSE IF q = held[Req(r)] THEN "failed" ELSE run[q]
      BY <1>5 DEF StartCommit
    <3>2. q = held[Req(r)] => run[q] # "none"
      BY <1>1, EnrichmentQueueAssumption DEF RunsKnown
    <3>3. draft[r] \in {"none", "pending", "failed"}
      BY <1>1 DEF RunsKnown
    <3> QED BY <3>1, <3>2, <3>3
  <2>3. \A s \in Processes : held'[s] # None => held'[s] = held[s] /\ held'[s] \in Requests
    BY <1>1, <2>1
  <2>4. PoolPlaces' /\ Aside /\ Past \subseteq Past'
    BY <1>1, <2>1 DEF PoolPlaces, Aside, Past, items, work
  <2>5. RunsKnown'
    BY <1>1, <2>1, <2>2, <2>3, <2>4 DEF RunsKnown
  <2> QED BY <2>2, <2>4, <2>5, AsideKeeps
<1>6. CASE RequestFails(r)
  <2>1. /\ RollbackItems(Req(r)) /\ pc' = [pc EXCEPT ![Req(r)] = "done"]
        /\ held' = [held EXCEPT ![Req(r)] = None] /\ UNCHANGED <<run, latest, orphan, draft, work>>
    BY <1>6 DEF RequestFails
  <2>2. \A p \in Persons : owner[p] # Req(r)
    BY <1>1, NoProcess DEF Locks
  <2>3. UNCHANGED <<item, pend, owner>>
    BY <1>1, <2>1, <2>2 DEF RollbackItems, Unlock
  <2>4. \A q \in Requests, w \in Workers :
          /\ pc'[Task(q)] = pc[Task(q)] /\ pc'[Worker(w)] = pc[Worker(w)]
          /\ pc'[Req(q)] = IF q = r THEN "done" ELSE pc[Req(q)]
    BY <1>1, <2>1
  <2>5. PoolPlaces' /\ Aside /\ Past \subseteq Past'
    BY <1>1, <2>1, <2>3, <2>4 DEF PoolPlaces, Aside, Past, work
  <2>6. RunsKnown'
    BY <1>1, <2>1, <2>4, <2>5 DEF RunsKnown
  <2> QED BY <2>1, <2>5, <2>6, AsideKeeps
<1> QED BY <1>2, <1>3, <1>4, <1>5, <1>6 DEF Serve

LEMMA TaskAsideKeeps ==
  ASSUME TypeInv, PoolInv, NEW r \in Requests, TaskBegin(r) \/ TaskFail(r) \/ TaskRelease(r)
  PROVE  PoolInv'
<1> USE ProcessNames DEF At, Goto
<1>1. /\ pc \in [Processes -> PC] /\ run \in [Requests -> RunState] /\ latest \in [Requests -> Requests \union {None}]
      /\ held \in [Processes -> Requests \union {None}] /\ PoolPlaces /\ RunsKnown
  BY DEF TypeInv, TypeOK, PoolInv
<1>2. /\ pc[Task(r)] \in {"created", "fail", "release"} /\ pc' = [pc EXCEPT ![Task(r)] = pc'[Task(r)]]
      /\ pc'[Task(r)] \in {"pick", "release", "none"} /\ (pc[Task(r)] = "release" => pc'[Task(r)] = "none")
      /\ (pc'[Task(r)] = "pick" => run[r] # "none")
      /\ UNCHANGED <<items, work, latest, orphan, held, draft>>
  BY <1>1 DEF TaskBegin, TaskFail, TaskRelease, runs
<1>3. \A q \in Requests : /\ run[q] # "none" => run'[q] # "none"
                          /\ run'[q] # "none" => run[q] # "none"
                          /\ run'[q] = "complete" => run[q] = "complete"
  BY <1>1 DEF TaskBegin, TaskFail, TaskRelease, runs
<1>4. PoolPlaces' /\ Aside /\ Past \subseteq Past'
  BY <1>1, <1>2 DEF PoolPlaces, Aside, Past, items, work, TaskPC
<1>5. \A q \in Requests : pc'[Req(q)] = pc[Req(q)] /\ (q # r => pc'[Task(q)] = pc[Task(q)])
  BY <1>1, <1>2
<1>6. RunsKnown'
  BY <1>1, <1>2, <1>3, <1>4, <1>5 DEF RunsKnown
<1> QED BY <1>3, <1>4, <1>6, AsideKeeps

-----------------------------------------------------------------------------
\* The task of the user's run.

LEMMA OneLive ==
  ASSUME OneUsersPool, TypeInv, OneTaskPerUser, NEW r \in Requests, NEW q \in Requests, Live(r), Live(q)
  PROVE  r = q
BY DEF OneUsersPool, TypeInv, UserKnown, OneTaskPerUser, Live

LEMMA TaskPickKeeps ==
  ASSUME TypeInv, PoolInv, NEW r \in Requests, TaskPick(r)
  PROVE  PoolInv'
<1> USE ProcessNames DEF At, Goto
<1>1. PICK p \in todo[r] : LoadItem(Task(r), p)
  BY DEF TaskPick
<1>2. /\ p \in Persons /\ pc[Task(r)] = "pick" /\ pc' = [pc EXCEPT ![Task(r)] = "flush"]
      /\ UNCHANGED <<item, pend, owner, run, held, latest, orphan, draft, drained>>
      /\ pc \in [Processes -> PC]
  BY <1>1 DEF TaskPick, items, runs, TypeInv, TypeOK
<1>3. /\ at'[Task(r)] = p /\ snap'[Task(r)] = item[p]
      /\ \A s \in Processes \ {Task(r)} : at'[s] = at[s] /\ snap'[s] = snap[s]
  BY <1>1 DEF LoadItem, TypeInv, TypeOK
<1>4. Past' = Past
  BY <1>2 DEF Past
<1>5. PoolPlaces' /\ RunsKnown'
  BY <1>2, <1>4 DEF PoolInv, PoolPlaces, RunsKnown, TaskPC
<1>6. RunsPast'
  BY <1>2, <1>3, <1>4 DEF PoolInv, RunsPast
<1>7. Claims' /\ Locks'
  BY <1>2, <1>3 DEF PoolInv, Claims, Locks, EnrichPC
<1>8. Fresh'
  BY <1>2, <1>3 DEF PoolInv, Fresh
<1>9. DrainedStays' /\ CompleteIsSettled'
  BY <1>2 DEF PoolInv, DrainedStays, View, CompleteIsSettled
<1> QED BY <1>5, <1>6, <1>7, <1>8, <1>9 DEF PoolInv

\* What the task enqueues is of its own run; it takes no claim back.
LEMMA TaskFlushKeeps ==
  ASSUME TypeInv, PoolInv, NEW r \in Requests, TaskFlush(r)
  PROVE  PoolInv'
<1> USE ProcessNames DEF At, Goto
<1> DEFINE t == Task(r)
           p == at[t]
           new == Enqueued(snap[t], r)
<1>1. /\ pc[t] = "flush" /\ pc' = [pc EXCEPT ![t] = "pick"] /\ p \in Persons
      /\ UNCHANGED <<item, at, run, held, latest, orphan, draft, drained>>
      /\ pc \in [Processes -> PC] /\ owner \in [Persons -> Processes \union {None}]
      /\ item \in [Persons -> Item] /\ pend \in [Persons -> Item] /\ snap \in [Processes -> Item]
      /\ t \in Processes
  BY DEF TaskFlush, Enqueue, Flush, runs, TypeInv, TypeOK, Placed
<1>2. /\ owner[p] \in {t, None} /\ owner' = [owner EXCEPT ![p] = t]
      /\ pend' = [pend EXCEPT ![p] = Merge(snap[t], new, View(t, p))]
      /\ snap' = [snap EXCEPT ![t] = new]
  BY DEF TaskFlush, Enqueue, Flush, ItemFree
<1> DEFINE merged == Merge(snap[t], new, View(t, p))
<1>3. snap[t] \in Item /\ View(t, p) \in Item /\ new \in Item /\ r # None
  BY <1>1, WrittenItems, EnrichmentQueueAssumption DEF View
<1>4. snap[t].run # r /\ new.run = r
  <2>1. snap[t].run # r
    BY <1>1, <1>3 DEF PoolInv, RunsPast, Past
  <2> QED BY <1>3, <2>1 DEF Enqueued, Item
<1>5. merged.run = r
  BY <1>3, <1>4 DEF Merge, Item
<1>6. snap[t].status \in Taken => new.status = snap[t].status
  BY <1>3 DEF Taken, Enqueued, Item, ActiveStatus
<1>7. item[p].status = "in_progress" => merged.status = "in_progress"
  <2> SUFFICES ASSUME item[p].status = "in_progress" PROVE merged.status = "in_progress"
    OBVIOUS
  <2>1. snap[t].status \in Taken
    BY <1>1 DEF PoolInv, Fresh, Taken
  <2>2. View(t, p).status = "in_progress"
    <3>1. CASE owner[p] = t
      <4>1. pend[p].status = "in_progress"
        BY <1>1, <3>1, NoProcess DEF PoolInv, Locks
      <4> QED BY <3>1, <4>1 DEF View
    <3>2. CASE owner[p] # t
      BY <3>2 DEF View
    <3> QED BY <3>1, <3>2
  <2>3. "status" \in DOMAIN View(t, p) /\ new.status = snap[t].status
    BY <1>3, <1>6, <2>1 DEF Item
  <2> QED BY <2>2, <2>3 DEF Merge
<1> HIDE DEF merged, new, p, t
<1>8. Past' = Past
  BY <1>1 DEF Past, t
<1>9. PoolPlaces' /\ RunsKnown'
  BY <1>1, <1>8 DEF PoolInv, PoolPlaces, RunsKnown, TaskPC, t
<1>10. RunsPast'
  BY <1>1, <1>2, <1>8 DEF PoolInv, RunsPast, t
<1>11. Claims'
  BY <1>1 DEF PoolInv, Claims, t
<1>12. Locks'
  <2> SUFFICES ASSUME NEW q \in Persons, owner'[q] # None
               PROVE  \/ \E w \in Workers : /\ owner'[q] = Worker(w) /\ at'[Worker(w)] = q
                                            /\ pc'[Worker(w)] \in {"enrich", "count", "save"}
                                            /\ pend'[q].run = item'[q].run
                      \/ \E o \in Requests : /\ owner'[q] = Task(o) /\ pc'[Task(o)] \in {"pick", "flush"}
                                             /\ pend'[q].run = o
                                             /\ item'[q].status = "in_progress" => pend'[q].status = "in_progress"
    BY DEF Locks
  <2>1. CASE q = p
    BY <1>1, <1>2, <1>5, <1>7, <2>1 DEF merged, t
  <2>2. CASE q # p
    <3>1. owner'[q] = owner[q] /\ pend'[q] = pend[q] /\ item'[q] = item[q]
      BY <1>1, <1>2, <2>2
    <3> QED BY <1>1, <3>1 DEF PoolInv, Locks, t
  <2> QED BY <2>1, <2>2
<1>13. Fresh'
  BY <1>1, <1>2 DEF PoolInv, Fresh, t
<1>14. DrainedStays'
  <2>1. ASSUME NEW w \in Workers, NEW q \in Persons PROVE View(Worker(w), q)' = View(Worker(w), q)
    <3>1. CASE q = p
      BY <1>1, <1>2, <3>1, NoProcess DEF View, t
    <3>2. CASE q # p
      BY <1>1, <1>2, <3>2 DEF View
    <3> QED BY <3>1, <3>2
  <2> QED BY <1>1, <2>1 DEF PoolInv, DrainedStays, t
<1>15. CompleteIsSettled'
  BY <1>1 DEF PoolInv, CompleteIsSettled
<1> QED BY <1>9, <1>10, <1>11, <1>12, <1>13, <1>14, <1>15 DEF PoolInv

LEMMA TaskCommitKeeps ==
  ASSUME OneUsersPool, TypeInv, OneTaskPerUser, PoolInv, NEW r \in Requests, TaskCommit(r)
  PROVE  PoolInv'
<1> USE ProcessNames DEF At, Goto
<1> DEFINE t == Task(r)
<1>1. /\ pc[t] = "pick" /\ pc' = [pc EXCEPT ![t] = "release"]
      /\ UNCHANGED <<pend, at, snap, drained, held, latest, orphan, draft>>
      /\ pc \in [Processes -> PC] /\ owner \in [Persons -> Processes \union {None}]
      /\ run \in [Requests -> RunState] /\ t \in Processes
      /\ latest \in [Requests -> Requests \union {None}] /\ held \in [Processes -> Requests \union {None}]
  BY DEF TaskCommit, CommitItems, work, TypeInv, TypeOK
<1>2. ASSUME NEW p \in Persons
      PROVE  /\ item'[p] = IF owner[p] = t THEN pend[p] ELSE item[p]
             /\ owner'[p] = IF owner[p] = t THEN None ELSE owner[p]
             /\ owner[p] = t => pend[p].run = r /\ (item[p].status = "in_progress" => pend[p].status = "in_progress")
  <2>1. owner[p] = t => pend[p].run = r /\ (item[p].status = "in_progress" => pend[p].status = "in_progress")
    BY <1>1, NoProcess DEF PoolInv, Locks
  <2> QED BY <2>1 DEF TaskCommit, CommitItems, Unlock, View
<1>3. run[r] # "none" /\ pc[Req(r)] = "done" /\ r \notin Past /\ r # None /\ run[r] # "complete"
  BY <1>1, EnrichmentQueueAssumption DEF PoolInv, RunsKnown, Past
<1>4. /\ \A q \in Requests : q # r => run'[q] = run[q]
      /\ run'[r] \in {run[r], "complete"} /\ ((\E p \in Persons : owner[p] = t) => run' = run)
  BY <1>1 DEF TaskCommit
<1> HIDE DEF t
<1>5. Past' = Past \union {r}
  BY <1>1, <1>3 DEF Past, t
<1>6. \A q \in Requests : q # r => pc[Task(q)] = "none"
  BY <1>1, OneLive DEF Live, t
<1>7. PoolPlaces'
  BY <1>1 DEF PoolInv, PoolPlaces, TaskPC, t
<1>8. RunsKnown'
  <2>1. \A q \in Requests : /\ run[q] # "none" => run'[q] # "none"
                            /\ run'[q] # "none" => run[q] # "none"
                            /\ run'[q] = "complete" => run[q] = "complete" \/ q = r
                            /\ pc'[Req(q)] = pc[Req(q)] /\ (q # r => pc'[Task(q)] = pc[Task(q)])
    BY <1>1, <1>3, <1>4 DEF t
  <2> QED BY <1>1, <1>3, <1>5, <2>1 DEF PoolInv, RunsKnown, t
<1>9. RunsPast'
  <2>1. \A p \in Persons : item'[p].run \in Past' \union {None}
    BY <1>2, <1>5 DEF PoolInv, RunsPast
  <2> QED BY <1>1, <1>5, <2>1 DEF PoolInv, RunsPast, t
<1>10. Claims'
  <2> SUFFICES ASSUME NEW w \in Workers, pc'[Worker(w)] \in EnrichPC
               PROVE  /\ item'[at'[Worker(w)]].status = "in_progress"
                      /\ \A v \in Workers :
                           pc'[Worker(v)] \in EnrichPC /\ at'[Worker(v)] = at'[Worker(w)] => v = w
    BY DEF Claims
  <2>1. pc[Worker(w)] \in EnrichPC /\ at[Worker(w)] \in Persons
    BY <1>1 DEF TypeInv, Placed, t
  <2> QED BY <1>1, <1>2, <2>1 DEF PoolInv, Claims, t
<1>11. Locks'
  <2> SUFFICES ASSUME NEW q \in Persons, owner'[q] # None
               PROVE  \E w \in Workers : /\ owner'[q] = Worker(w) /\ at'[Worker(w)] = q
                                         /\ pc'[Worker(w)] \in {"enrich", "count", "save"}
                                         /\ pend'[q].run = item'[q].run
    BY DEF Locks
  <2>1. owner[q] # t /\ owner'[q] = owner[q] /\ item'[q] = item[q]
    BY <1>2
  <2> QED BY <1>1, <1>6, <2>1 DEF PoolInv, Locks, t
<1>12. Fresh'
  BY <1>1, <1>6 DEF Fresh, t
<1>13. DrainedStays'
  <2>1. ASSUME NEW w \in Workers, NEW p \in Persons, drained[Worker(w)] # None
        PROVE  /\ View(Worker(w), p)' = View(Worker(w), p) \/ View(Worker(w), p)'.run = r
               /\ drained[Worker(w)] # r
    <3>1. drained[Worker(w)] # r
      BY <1>3, <2>1 DEF PoolInv, RunsPast
    <3>2. CASE owner[p] = t
      BY <1>1, <1>2, <3>1, <3>2, NoProcess DEF View, t
    <3>3. CASE owner[p] # t
      BY <1>1, <1>2, <3>1, <3>3 DEF View
    <3> QED BY <3>2, <3>3
  <2> QED BY <1>1, <2>1 DEF PoolInv, DrainedStays, t
<1>14. CompleteIsSettled'
  <2> SUFFICES ASSUME NEW q \in Requests, NEW p \in Persons, run'[q] = "complete", item'[p].run = q
               PROVE  item'[p].status \notin ActiveStatus
    BY DEF CompleteIsSettled
  <2>1. CASE owner[p] = t
    BY <1>2, <1>3, <1>4, <2>1
  <2>2. CASE owner[p] # t
    <3>1. item'[p] = item[p] /\ q # r
      BY <1>2, <1>3, <2>2 DEF PoolInv, RunsPast
    <3> QED BY <1>4, <3>1 DEF PoolInv, CompleteIsSettled
  <2> QED BY <2>1, <2>2
<1> QED BY <1>7, <1>8, <1>9, <1>10, <1>11, <1>12, <1>13, <1>14 DEF PoolInv

LEMMA TaskFailsKeeps ==
  ASSUME OneUsersPool, TypeInv, OneTaskPerUser, PoolInv, NEW r \in Requests, TaskFails(r)
  PROVE  PoolInv'
<1> USE ProcessNames DEF At, Goto
<1> DEFINE t == Task(r)
<1>1. /\ pc[t] \in {"created", "pick", "flush"} /\ pc' = [pc EXCEPT ![t] = "fail"]
      /\ UNCHANGED <<item, at, snap, drained, run, held, latest, orphan, draft>>
      /\ pc \in [Processes -> PC] /\ owner \in [Persons -> Processes \union {None}] /\ t \in Processes
  BY DEF TaskFails, RollbackItems, runs, work, TypeInv, TypeOK
<1>2. \A p \in Persons : /\ owner'[p] = IF owner[p] = t THEN None ELSE owner[p]
                         /\ owner[p] # t => pend'[p] = pend[p]
  BY DEF TaskFails, RollbackItems, Unlock
<1> HIDE DEF t
<1>3. Past' = Past
  BY <1>1 DEF Past, t
<1>4. PoolPlaces' /\ RunsKnown'
  BY <1>1, <1>3 DEF PoolInv, PoolPlaces, RunsKnown, TaskPC, t
<1>5. RunsPast' /\ Claims' /\ Fresh' /\ CompleteIsSettled'
  BY <1>1, <1>3 DEF PoolInv, RunsPast, Claims, Fresh, CompleteIsSettled, t
<1>6. Locks'
  <2> SUFFICES ASSUME NEW q \in Persons, owner'[q] # None
               PROVE  \/ \E w \in Workers : /\ owner'[q] = Worker(w) /\ at'[Worker(w)] = q
                                            /\ pc'[Worker(w)] \in {"enrich", "count", "save"}
                                            /\ pend'[q].run = item'[q].run
                      \/ \E o \in Requests : /\ owner'[q] = Task(o) /\ pc'[Task(o)] \in {"pick", "flush"}
                                             /\ pend'[q].run = o
                                             /\ item'[q].status = "in_progress" => pend'[q].status = "in_progress"
    BY DEF Locks
  <2>1. owner[q] # t /\ owner'[q] = owner[q] /\ pend'[q] = pend[q]
    BY <1>2
  <2> QED BY <1>1, <2>1 DEF PoolInv, Locks, t
<1>7. DrainedStays'
  <2>1. ASSUME NEW w \in Workers, NEW q \in Persons PROVE View(Worker(w), q)' = View(Worker(w), q)
    BY <1>1, <1>2, NoProcess DEF View, t
  <2> QED BY <1>1, <2>1 DEF PoolInv, DrainedStays, t
<1> QED BY <1>4, <1>5, <1>6, <1>7 DEF PoolInv

-----------------------------------------------------------------------------
\* The workers.

LEMMA ClaimKeeps ==
  ASSUME TypeInv, PoolInv, NEW w \in Workers, Claim(w)
  PROVE  PoolInv'
<1> USE ProcessNames DEF At, Goto
<1>1. PICK p \in Persons :
        /\ item[p].status = "pending" /\ owner[p] = None
        /\ item' = [item EXCEPT ![p] = Claimed(item[p])]
        /\ pend' = [pend EXCEPT ![p] = item'[p]]
        /\ at' = [at EXCEPT ![Worker(w)] = p]
  BY DEF Claim
<1>2. /\ pc[Worker(w)] = "idle" /\ pc' = [pc EXCEPT ![Worker(w)] = "load"]
      /\ UNCHANGED <<owner, snap, drained, run, held, latest, orphan, draft>>
      /\ pc \in [Processes -> PC] /\ at \in [Processes -> Persons \union {None}]
      /\ item \in [Persons -> Item] /\ pend \in [Persons -> Item]
  BY DEF Claim, runs, TypeInv, TypeOK
<1>3. /\ item'[p].status = "in_progress" /\ item'[p].run = item[p].run
      /\ \A q \in Persons \ {p} : item'[q] = item[q] /\ pend'[q] = pend[q]
      /\ at'[Worker(w)] = p /\ \A s \in Processes \ {Worker(w)} : at'[s] = at[s]
  BY <1>1, <1>2 DEF Claimed, Item
<1>4. Past' = Past
  BY <1>2 DEF Past
<1>5. PoolPlaces' /\ RunsKnown'
  BY <1>2, <1>4 DEF PoolInv, PoolPlaces, RunsKnown, EnrichPC
<1>6. RunsPast'
  BY <1>2, <1>3, <1>4 DEF PoolInv, RunsPast
<1>7. Claims'
  <2> SUFFICES ASSUME NEW v \in Workers, pc'[Worker(v)] \in EnrichPC
               PROVE  /\ item'[at'[Worker(v)]].status = "in_progress"
                      /\ \A o \in Workers :
                           pc'[Worker(o)] \in EnrichPC /\ at'[Worker(o)] = at'[Worker(v)] => o = v
    BY DEF Claims
  <2>1. \A o \in Workers \ {w} :
          /\ Worker(o) # Worker(w) /\ pc'[Worker(o)] = pc[Worker(o)] /\ at'[Worker(o)] = at[Worker(o)]
          /\ pc[Worker(o)] \in EnrichPC => at[Worker(o)] # p /\ at[Worker(o)] \in Persons
    BY <1>1, <1>2, <1>3 DEF PoolInv, Claims, TypeInv, Placed, Worker
  <2> QED BY <1>3, <2>1 DEF PoolInv, Claims
<1>8. Locks'
  <2> SUFFICES ASSUME NEW q \in Persons, owner'[q] # None
               PROVE  \/ \E v \in Workers : /\ owner'[q] = Worker(v) /\ at'[Worker(v)] = q
                                            /\ pc'[Worker(v)] \in {"enrich", "count", "save"}
                                            /\ pend'[q].run = item'[q].run
                      \/ \E o \in Requests : /\ owner'[q] = Task(o) /\ pc'[Task(o)] \in {"pick", "flush"}
                                             /\ pend'[q].run = o
                                             /\ item'[q].status = "in_progress" => pend'[q].status = "in_progress"
    BY DEF Locks
  <2>1. q # p /\ owner[q] # None
    BY <1>1, <1>2
  <2> QED BY <1>2, <1>3, <2>1 DEF PoolInv, Locks
<1>9. Fresh'
  BY <1>1, <1>2, <1>3 DEF PoolInv, Fresh, Taken, TypeInv, Placed
<1>10. DrainedStays'
  <2>1. ASSUME NEW v \in Workers, NEW q \in Persons, drained[Worker(v)] # None
        PROVE  /\ pc'[Worker(v)] = "save"
               /\ View(Worker(v), q)'.run = drained[Worker(v)] => View(Worker(v), q)'.status \notin ActiveStatus
    <3>1. pc[Worker(v)] = "save"
      BY <2>1 DEF PoolInv, DrainedStays
    <3>2. CASE q = p
      <4>1. View(Worker(v), q) = item[p] /\ View(Worker(v), q)' = item'[p]
        BY <1>1, <1>2, <3>2, NoProcess DEF View
      <4>2. item[p].run # drained[Worker(v)]
        BY <1>1, <2>1, <4>1, <3>2 DEF PoolInv, DrainedStays, ActiveStatus
      <4> QED BY <1>2, <1>3, <3>1, <4>1, <4>2
    <3>3. CASE q # p
      <4>1. View(Worker(v), q)' = View(Worker(v), q)
        BY <1>2, <1>3, <3>3 DEF View
      <4> QED BY <1>2, <2>1, <3>1, <4>1 DEF PoolInv, DrainedStays
    <3> QED BY <3>2, <3>3
  <2> QED BY <1>2, <2>1 DEF DrainedStays
<1>11. CompleteIsSettled'
  <2> SUFFICES ASSUME NEW r \in Requests, NEW q \in Persons, run'[r] = "complete", item'[q].run = r
               PROVE  item'[q].status \notin ActiveStatus
    BY DEF CompleteIsSettled
  <2>1. q # p
    BY <1>1, <1>2, <1>3 DEF PoolInv, CompleteIsSettled, ActiveStatus
  <2> QED BY <1>2, <1>3, <2>1 DEF PoolInv, CompleteIsSettled
<1> QED BY <1>5, <1>6, <1>7, <1>8, <1>9, <1>10, <1>11 DEF PoolInv

\* A worker that handles a person moves on, or gives the person up.
OnePc(w) ==
  /\ pc[Worker(w)] \in EnrichPC /\ pc'[Worker(w)] \in EnrichPC \union {"idle"}
  /\ \A s \in Processes \ {Worker(w)} : pc'[s] = pc[s] /\ at'[s] = at[s] /\ snap'[s] = snap[s] /\ drained'[s] = drained[s]
  /\ pc'[Worker(w)] \in EnrichPC => at'[Worker(w)] = at[Worker(w)]
  /\ snap'[Worker(w)].run \in {snap[Worker(w)].run, item[at[Worker(w)]].run, None}

\* The steps of a worker that leave what is committed.
LEMMA WorkerKeeps ==
  ASSUME TypeInv, PoolInv, NEW w \in Workers, OnePc(w), UNCHANGED <<item, run, held, latest, orphan, draft>>, Locks',
         \/ drained'[Worker(w)] = None
         \/ /\ drained'[Worker(w)] \in Past /\ pc'[Worker(w)] = "save"
            /\ \A p \in Persons :
                 View(Worker(w), p)'.run = drained'[Worker(w)] => View(Worker(w), p)'.status \notin ActiveStatus,
         \A p \in Persons : \/ owner'[p] = owner[p] /\ (owner[p] # Worker(w) => pend'[p] = pend[p])
                            \/ {owner[p], owner'[p]} = {Worker(w), None}
  PROVE  PoolInv'
<1> USE ProcessNames
<1>1. at[Worker(w)] \in Persons
  BY DEF TypeInv, Placed, OnePc
<1>2. \A o \in Workers \ {w} : Worker(o) # Worker(w)
  BY DEF Worker
<1>3. Past' = Past
  BY DEF Past, OnePc
<1>4. PoolPlaces'
  BY <1>2 DEF PoolInv, PoolPlaces, OnePc
<1>5. RunsKnown'
  BY <1>3 DEF PoolInv, RunsKnown, OnePc
<1>6. RunsPast'
  BY <1>1, <1>2, <1>3 DEF PoolInv, RunsPast, OnePc
<1>7. Claims'
  BY <1>2 DEF PoolInv, Claims, OnePc
<1>8. Fresh'
  BY DEF PoolInv, Fresh, OnePc
<1>9. DrainedStays'
  <2> SUFFICES ASSUME NEW v \in Workers, NEW p \in Persons, drained'[Worker(v)] # None
               PROVE  /\ pc'[Worker(v)] = "save"
                      /\ View(Worker(v), p)'.run = drained'[Worker(v)] => View(Worker(v), p)'.status \notin ActiveStatus
    BY DEF DrainedStays
  <2>1. CASE v = w
    BY <2>1
  <2>2. CASE v # w
    <3>1. drained'[Worker(v)] = drained[Worker(v)] /\ pc'[Worker(v)] = pc[Worker(v)]
      BY <1>2, <2>2 DEF OnePc
    <3>2. View(Worker(v), p)' = View(Worker(v), p)
      BY <1>2, <2>2, NoProcess DEF View
    <3> QED BY <3>1, <3>2 DEF PoolInv, DrainedStays
  <2> QED BY <2>1, <2>2
<1>10. CompleteIsSettled'
  BY DEF PoolInv, CompleteIsSettled
<1> QED BY <1>4, <1>5, <1>6, <1>7, <1>8, <1>9, <1>10 DEF PoolInv

LEMMA WorkerReadsKeeps ==
  ASSUME TypeInv, PoolInv, NEW w \in Workers,
         WorkerLoad(w) \/ Count(Worker(w)) \/ EnrichGivesUp(Worker(w))
  PROVE  PoolInv'
<1> USE ProcessNames DEF At, Goto
<1> DEFINE s == Worker(w)
<1>1. /\ UNCHANGED <<item, pend, owner, run, held, latest, orphan, draft>>
      /\ pc[s] \in {"load", "count", "reload"}
  BY DEF WorkerLoad, Count, EnrichGivesUp, items, enrichRest, runs
<1>2. /\ pc \in [Processes -> PC] /\ at \in [Processes -> Persons \union {None}] /\ snap \in [Processes -> Item]
      /\ drained \in [Processes -> Requests \union {None}] /\ s \in Processes
  BY DEF TypeInv, TypeOK
<1>3. OnePc(w)
  <2>1. CASE WorkerLoad(w)
    BY <1>2, <2>1 DEF WorkerLoad, LoadItem, OnePc, EnrichPC
  <2>2. CASE Count(s)
    BY <1>2, <2>2 DEF Count, OnePc, EnrichPC, enrichRest
  <2>3. CASE EnrichGivesUp(s)
    BY <1>2, <2>3 DEF EnrichGivesUp, EndOf, OnePc, EnrichPC, NoItem
  <2> QED BY <2>1, <2>2, <2>3
<1>4. drained'[s] = None \/ (Count(s) /\ drained'[s] = snap[s].run /\ RunDrained(s, snap[s].run))
  <2>1. pc[s] # "save" => drained[s] = None
    BY <1>1, <1>2 DEF PoolInv, DrainedStays, TypeInv, Placed, EnrichPC
  <2> QED BY <1>1, <1>2, <2>1 DEF WorkerLoad, Count, EnrichGivesUp
<1> HIDE DEF s
<1>5. Locks'
  <2> SUFFICES ASSUME NEW q \in Persons, owner'[q] # None
               PROVE  \/ \E v \in Workers : /\ owner'[q] = Worker(v) /\ at'[Worker(v)] = q
                                            /\ pc'[Worker(v)] \in {"enrich", "count", "save"}
                                            /\ pend'[q].run = item'[q].run
                      \/ \E o \in Requests : /\ owner'[q] = Task(o) /\ pc'[Task(o)] \in {"pick", "flush"}
                                             /\ pend'[q].run = o
                                             /\ item'[q].status = "in_progress" => pend'[q].status = "in_progress"
    BY DEF Locks
  <2>1. owner[q] = s => pc'[s] = "save" /\ at'[s] = at[s]
    <3>1. owner[q] = s => pc[s] = "count"
      BY <1>1 DEF PoolInv, Locks, s, Worker
    <3> QED BY <1>1, <1>2, <3>1 DEF Count, WorkerLoad, EnrichGivesUp, enrichRest, s
  <2> QED BY <1>1, <1>3, <2>1 DEF PoolInv, Locks, OnePc, s
<1>6. CASE drained'[s] = None
  BY <1>1, <1>3, <1>5, <1>6, WorkerKeeps DEF s
<1>7. CASE drained'[s] # None
  <2>1. Count(s) /\ drained'[s] = snap[s].run /\ PendingFor(s, snap[s].run) = {}
    BY <1>4, <1>7 DEF RunDrained
  <2>2. drained'[s] \in Past
    BY <1>7, <2>1 DEF PoolInv, RunsPast, s
  <2>3. \A p \in Persons : View(s, p)' = View(s, p)
    BY <1>1 DEF View
  <2>4. \A p \in Persons : View(s, p)'.run = drained'[s] => View(s, p)'.status \notin ActiveStatus
    BY <2>1, <2>3 DEF PendingFor
  <2>5. pc'[s] = "save"
    BY <1>2, <2>1 DEF Count
  <2> QED BY <1>1, <1>3, <1>5, <2>2, <2>4, <2>5, WorkerKeeps DEF s
<1> QED BY <1>6, <1>7

\* Its outcome is flushed, or what it has flushed is rolled back.
LEMMA WorkerWritesKeeps ==
  ASSUME TypeInv, PoolInv, NEW w \in Workers,
         Strategy(Worker(w)) \/ (\E status \in {"complete", "failed"} : Finish(Worker(w), status)) \/ Reload(Worker(w))
  PROVE  PoolInv'
<1> USE ProcessNames DEF At, Goto
<1> DEFINE s == Worker(w)
           p == at[s]
<1>1. /\ UNCHANGED <<item, run, held, latest, orphan, draft, drained, at>>
      /\ pc[s] \in {"enrich", "reload"} /\ pc[s] \in EnrichPC
      /\ owner[p] \in {s, None} /\ owner' = [owner EXCEPT ![p] = s]
  BY DEF Strategy, Finish, Reload, Flush, ItemFree, enrichRest, runs, EnrichPC
<1>2. /\ pc \in [Processes -> PC] /\ at \in [Processes -> Persons \union {None}] /\ snap \in [Processes -> Item]
      /\ item \in [Persons -> Item] /\ pend \in [Persons -> Item] /\ owner \in [Persons -> Processes \union {None}]
      /\ s \in Processes /\ p \in Persons
  BY <1>1 DEF TypeInv, TypeOK, Placed
<1>3. owner[p] = s => pend[p].run = item[p].run
  BY <1>2, NoProcess DEF PoolInv, Locks
<1>4. /\ \A q \in Persons \ {p} : pend'[q] = pend[q]
      /\ pend'[p].run = item[p].run
      /\ \A o \in Processes \ {s} : snap'[o] = snap[o] /\ pc'[o] = pc[o]
      /\ snap'[s].run \in {snap[s].run, item[p].run} /\ pc'[s] \in {"enrich", "count", "save"}
  <2>1. ASSUME NEW new \in Item, new.run = snap[s].run
        PROVE  Merge(snap[s], new, View(s, p)).run = item[p].run
    <3>1. View(s, p) \in Item /\ View(s, p).run = item[p].run
      BY <1>2, <1>3 DEF View
    <3> QED BY <2>1, <3>1 DEF Merge, Item
  <2>2. CASE Strategy(s)
    BY <1>2, <2>1, <2>2 DEF Strategy, Flush
  <2>3. CASE \E status \in {"complete", "failed"} : Finish(s, status)
    <3>1. PICK status \in {"complete", "failed"} : Finish(s, status)
      BY <2>3
    <3> DEFINE new == [snap[s] EXCEPT !.status = status]
    <3>2. new \in Item /\ new.run = snap[s].run
      <4>1. snap[s] \in Item /\ status \in Status
        BY <1>2 DEF Status
      <4> QED BY <4>1 DEF Item
    <3>3. Flush(s, p, new) /\ pc' = [pc EXCEPT ![s] = pc'[s]] /\ pc'[s] \in {"count", "save"}
      BY <1>2, <3>1 DEF Finish
    <3> HIDE DEF new
    <3> QED BY <1>2, <2>1, <3>2, <3>3 DEF Flush
  <2>4. CASE Reload(s)
    <3>1. /\ pend' = [pend EXCEPT ![p] = Deferred(item[p])] /\ snap' = [snap EXCEPT ![s] = Deferred(item[p])]
          /\ pc' = [pc EXCEPT ![s] = pc'[s]] /\ pc'[s] \in {"count", "save"}
      BY <1>2, <2>4 DEF Reload
    <3>2. Deferred(item[p]).run = item[p].run
      BY <1>2 DEF Deferred, Item
    <3> QED BY <1>2, <3>1, <3>2
  <2> QED BY <2>2, <2>3, <2>4
<1> HIDE DEF p, s
<1>5. OnePc(w)
  BY <1>1, <1>4 DEF OnePc, EnrichPC, s, p
<1>6. Locks'
  <2> SUFFICES ASSUME NEW q \in Persons, owner'[q] # None
               PROVE  \/ \E v \in Workers : /\ owner'[q] = Worker(v) /\ at'[Worker(v)] = q
                                            /\ pc'[Worker(v)] \in {"enrich", "count", "save"}
                                            /\ pend'[q].run = item'[q].run
                      \/ \E o \in Requests : /\ owner'[q] = Task(o) /\ pc'[Task(o)] \in {"pick", "flush"}
                                             /\ pend'[q].run = o
                                             /\ item'[q].status = "in_progress" => pend'[q].status = "in_progress"
    BY DEF Locks
  <2>1. CASE q = p
    BY <1>1, <1>2, <1>4, <2>1 DEF s, p
  <2>2. CASE q # p
    <3>1. owner'[q] = owner[q] /\ pend'[q] = pend[q] /\ item'[q] = item[q] /\ owner[q] # s
      <4>1. owner[q] # s
        BY <1>1, <1>2, <2>2, NoProcess DEF PoolInv, Locks, p, s
      <4> QED BY <1>1, <1>2, <1>4, <2>2, <4>1
    <3> QED BY <1>1, <1>4, <3>1 DEF PoolInv, Locks, s
  <2> QED BY <2>1, <2>2
<1>7. drained'[s] = None
  <2>1. drained[s] # None => pc[s] = "save"
    BY <1>2 DEF PoolInv, DrainedStays, s
  <2> QED BY <1>1, <2>1
<1>8. \A q \in Persons : \/ owner'[q] = owner[q] /\ (owner[q] # s => pend'[q] = pend[q])
                         \/ {owner[q], owner'[q]} = {s, None}
  BY <1>1, <1>2, <1>4
<1> QED BY <1>1, <1>5, <1>6, <1>7, <1>8, WorkerKeeps DEF s

LEMMA EnrichFailsKeeps ==
  ASSUME TypeInv, PoolInv, NEW w \in Workers, EnrichFails(Worker(w))
  PROVE  PoolInv'
<1> USE ProcessNames DEF At, Goto
<1> DEFINE s == Worker(w)
<1>1. /\ UNCHANGED <<item, run, held, latest, orphan, draft, snap, at>>
      /\ pc[s] \in EnrichPC /\ pc' = [pc EXCEPT ![s] = "reload"] /\ drained' = [drained EXCEPT ![s] = None]
      /\ pc \in [Processes -> PC] /\ drained \in [Processes -> Requests \union {None}] /\ s \in Processes
  BY DEF EnrichFails, RollbackItems, enrichRest, runs, EnrichPC, TypeInv, TypeOK
<1>2. \A q \in Persons : /\ owner'[q] = IF owner[q] = s THEN None ELSE owner[q]
                         /\ owner[q] # s => pend'[q] = pend[q]
  BY DEF EnrichFails, RollbackItems, Unlock
<1>3. OnePc(w) /\ drained'[s] = None
  BY <1>1 DEF OnePc, EnrichPC
<1> HIDE DEF s
<1>4. Locks'
  <2> SUFFICES ASSUME NEW q \in Persons, owner'[q] # None
               PROVE  \/ \E v \in Workers : /\ owner'[q] = Worker(v) /\ at'[Worker(v)] = q
                                            /\ pc'[Worker(v)] \in {"enrich", "count", "save"}
                                            /\ pend'[q].run = item'[q].run
                      \/ \E o \in Requests : /\ owner'[q] = Task(o) /\ pc'[Task(o)] \in {"pick", "flush"}
                                             /\ pend'[q].run = o
                                             /\ item'[q].status = "in_progress" => pend'[q].status = "in_progress"
    BY DEF Locks
  <2>1. owner[q] # s /\ owner'[q] = owner[q] /\ pend'[q] = pend[q]
    BY <1>2
  <2> QED BY <1>1, <2>1 DEF PoolInv, Locks, s
<1>5. \A q \in Persons : \/ owner'[q] = owner[q] /\ (owner[q] # s => pend'[q] = pend[q])
                         \/ {owner[q], owner'[q]} = {s, None}
  BY <1>2
<1> QED BY <1>1, <1>3, <1>4, <1>5, WorkerKeeps DEF s

\* The outcome is committed, and the run with it when it was found drained.
LEMMA SaveKeeps ==
  ASSUME TypeInv, PoolInv, NEW w \in Workers, Save(Worker(w))
  PROVE  PoolInv'
<1> USE ProcessNames DEF At, Goto
<1> DEFINE s == Worker(w)
<1>1. /\ pc[s] = "save" /\ pc' = [pc EXCEPT ![s] = "idle"] /\ UNCHANGED <<pend, held, latest, orphan, draft>>
      /\ drained' = [drained EXCEPT ![s] = None] /\ at' = [at EXCEPT ![s] = None] /\ snap' = [snap EXCEPT ![s] = NoItem]
      /\ pc \in [Processes -> PC] /\ at \in [Processes -> Persons \union {None}] /\ snap \in [Processes -> Item]
      /\ drained \in [Processes -> Requests \union {None}] /\ run \in [Requests -> RunState]
      /\ latest \in [Requests -> Requests \union {None}] /\ held \in [Processes -> Requests \union {None}]
      /\ s \in Processes /\ at[s] \in Persons
  BY DEF Save, CommitItems, EndOf, TypeInv, TypeOK, Placed, EnrichPC
<1>2. ASSUME NEW p \in Persons
      PROVE  /\ item'[p] = View(s, p)
             /\ owner'[p] = IF owner[p] = s THEN None ELSE owner[p]
             /\ owner[p] = s => p = at[s] /\ item[p].status = "in_progress" /\ pend[p].run = item[p].run
             /\ owner[p] # s => item'[p] = item[p]
  <2>1. owner[p] = s => p = at[s] /\ pend[p].run = item[p].run
    BY <1>1, NoProcess DEF PoolInv, Locks
  <2>2. item[at[s]].status = "in_progress"
    BY <1>1 DEF PoolInv, Claims, EnrichPC
  <2> QED BY <2>1, <2>2 DEF Save, CommitItems, Unlock, View
<1>3. \A r \in Requests : run'[r] = IF r = drained[s] THEN "complete" ELSE run[r]
  BY DEF Save
<1>4. drained[s] \in Past \union {None}
  BY DEF PoolInv, RunsPast
<1>5. \A v \in Workers \ {w} : Worker(v) # s
  BY DEF Worker
<1> HIDE DEF s
<1>6. Past' = Past
  BY <1>1 DEF Past, s
<1>7. PoolPlaces'
  BY <1>1, <1>5 DEF PoolInv, PoolPlaces, s
<1>8. \A r \in Requests : /\ run[r] # "none" => run'[r] # "none"
                          /\ run'[r] # "none" => run[r] # "none" \/ r \in Past
                          /\ run'[r] = "complete" => run[r] = "complete" \/ r \in Past
  BY <1>3, <1>4, EnrichmentQueueAssumption
<1>9. RunsKnown'
  BY <1>1, <1>6, <1>8 DEF PoolInv, RunsKnown, Past, s
<1>10. RunsPast'
  <2>1. \A p \in Persons : item'[p].run \in Past \union {None}
    BY <1>2 DEF PoolInv, RunsPast, View
  <2> QED BY <1>1, <1>5, <1>6, <2>1 DEF PoolInv, RunsPast, NoItem, s
<1>11. Claims'
  <2> SUFFICES ASSUME NEW v \in Workers, pc'[Worker(v)] \in EnrichPC
               PROVE  /\ item'[at'[Worker(v)]].status = "in_progress"
                      /\ \A o \in Workers :
                           pc'[Worker(o)] \in EnrichPC /\ at'[Worker(o)] = at'[Worker(v)] => o = v
    BY DEF Claims
  <2>1. \A o \in Workers : pc'[Worker(o)] \in EnrichPC =>
          /\ pc[Worker(o)] \in EnrichPC /\ at'[Worker(o)] = at[Worker(o)] /\ at[Worker(o)] \in Persons /\ o # w
    BY <1>1, <1>5 DEF TypeInv, Placed, EnrichPC, s
  <2>2. at[Worker(v)] # at[s]
    BY <1>1, <2>1 DEF PoolInv, Claims, EnrichPC, s
  <2> QED BY <1>2, <2>1, <2>2 DEF PoolInv, Claims
<1>12. Locks'
  <2> SUFFICES ASSUME NEW q \in Persons, owner'[q] # None
               PROVE  \/ \E v \in Workers : /\ owner'[q] = Worker(v) /\ at'[Worker(v)] = q
                                            /\ pc'[Worker(v)] \in {"enrich", "count", "save"}
                                            /\ pend'[q].run = item'[q].run
                      \/ \E o \in Requests : /\ owner'[q] = Task(o) /\ pc'[Task(o)] \in {"pick", "flush"}
                                             /\ pend'[q].run = o
                                             /\ item'[q].status = "in_progress" => pend'[q].status = "in_progress"
    BY DEF Locks
  <2>1. owner[q] # s /\ owner'[q] = owner[q] /\ item'[q] = item[q] /\ pend'[q] = pend[q]
    BY <1>1, <1>2
  <2> QED BY <1>1, <2>1 DEF PoolInv, Locks, s
<1>13. Fresh'
  <2> SUFFICES ASSUME NEW r \in Requests, pc'[Task(r)] = "flush", snap'[Task(r)].status \notin Taken
               PROVE  item'[at'[Task(r)]].status \notin Taken
    BY DEF Fresh
  <2>1. /\ pc[Task(r)] = "flush" /\ snap'[Task(r)] = snap[Task(r)] /\ at'[Task(r)] = at[Task(r)]
        /\ at[Task(r)] \in Persons
    BY <1>1 DEF s, TypeInv, Placed
  <2>2. item[at[Task(r)]].status \notin Taken
    BY <2>1 DEF PoolInv, Fresh
  <2>3. owner[at[Task(r)]] # s
    BY <1>2, <2>1, <2>2 DEF Taken
  <2> QED BY <1>2, <2>1, <2>2, <2>3
<1>14. DrainedStays'
  <2> SUFFICES ASSUME NEW v \in Workers, NEW p \in Persons, drained'[Worker(v)] # None
               PROVE  /\ pc'[Worker(v)] = "save"
                      /\ View(Worker(v), p)'.run = drained'[Worker(v)] => View(Worker(v), p)'.status \notin ActiveStatus
    BY DEF DrainedStays
  <2>1. v # w /\ drained'[Worker(v)] = drained[Worker(v)] /\ pc'[Worker(v)] = pc[Worker(v)]
    BY <1>1, <1>5 DEF s
  <2>2. CASE owner[p] = s
    <3>1. View(Worker(v), p) = item[p] /\ View(Worker(v), p)' = item'[p] /\ item'[p] = pend[p]
      BY <1>1, <1>2, <1>5, <2>1, <2>2, NoProcess DEF View
    <3>2. item[p].status \in ActiveStatus /\ item'[p].run = item[p].run
      BY <1>2, <2>2, <3>1 DEF ActiveStatus
    <3> QED BY <2>1, <3>1, <3>2 DEF PoolInv, DrainedStays
  <2>3. CASE owner[p] # s
    <3>1. View(Worker(v), p)' = View(Worker(v), p)
      BY <1>1, <1>2, <2>3 DEF View
    <3> QED BY <2>1, <3>1 DEF PoolInv, DrainedStays
  <2> QED BY <2>2, <2>3
<1>15. CompleteIsSettled'
  <2> SUFFICES ASSUME NEW r \in Requests, NEW p \in Persons, run'[r] = "complete", item'[p].run = r
               PROVE  item'[p].status \notin ActiveStatus
    BY DEF CompleteIsSettled
  <2>1. CASE r = drained[s]
    <3>1. r # None /\ item'[p] = View(s, p)
      BY <1>2, EnrichmentQueueAssumption
    <3> QED BY <2>1, <3>1 DEF PoolInv, DrainedStays, s
  <2>2. CASE r # drained[s]
    <3>1. run[r] = "complete"
      BY <1>3, <2>2
    <3>2. CASE owner[p] = s
      <4>1. item'[p] = pend[p]
        BY <1>2, <3>2 DEF View
      <4> QED BY <1>2, <3>1, <3>2, <4>1 DEF PoolInv, CompleteIsSettled, ActiveStatus
    <3>3. CASE owner[p] # s
      BY <1>2, <3>1, <3>3 DEF PoolInv, CompleteIsSettled
    <3> QED BY <3>2, <3>3
  <2> QED BY <2>1, <2>2
<1> QED BY <1>7, <1>9, <1>10, <1>11, <1>12, <1>13, <1>14, <1>15 DEF PoolInv

LEMMA RestartKeeps ==
  ASSUME TypeInv, PoolInv, Restart
  PROVE  PoolInv'
<1> USE ProcessNames DEF At
<1>1. /\ \A r \in Requests : /\ pc'[Task(r)] = "none"
                             /\ pc'[Req(r)] = IF pc[Req(r)] = "idle" THEN "idle" ELSE "done"
      /\ \A w \in Workers : pc'[Worker(w)] = "idle"
  BY DEF Restart
<1>2. /\ UNCHANGED <<item, run, latest, orphan, draft>>
      /\ \A s \in Processes : held'[s] = None /\ drained'[s] = None /\ snap'[s] = NoItem
      /\ \A p \in Persons : owner'[p] = None
  BY DEF Restart
<1>3. Past \subseteq Past'
  BY <1>1 DEF Past
<1>4. PoolPlaces' /\ Claims' /\ Locks' /\ Fresh'
  BY <1>1, <1>2 DEF PoolPlaces, Claims, Locks, Fresh, TaskPC, EnrichPC
<1>5. RunsKnown'
  BY <1>1, <1>2, <1>3 DEF PoolInv, RunsKnown
<1>6. RunsPast'
  BY <1>1, <1>2, <1>3 DEF PoolInv, RunsPast, NoItem
<1>7. DrainedStays' /\ CompleteIsSettled'
  BY <1>2 DEF PoolInv, DrainedStays, CompleteIsSettled
<1> QED BY <1>4, <1>5, <1>6, <1>7 DEF PoolInv

LEMMA PoolStep ==
  ASSUME OneUsersPool, TypeInv, OneTaskPerUser, PoolInv, [Next]_vars
  PROVE  PoolInv'
<1>1. CASE UNCHANGED vars
  BY <1>1 DEF vars, items, asked, runs, work, PoolInv, PoolPlaces, RunsKnown, RunsPast, Past, Claims, Locks,
     Fresh, DrainedStays, View, CompleteIsSettled
<1>2. ASSUME NEW r \in Requests, TaskStep(r) PROVE PoolInv'
  BY <1>2, TaskAsideKeeps, TaskPickKeeps, TaskFlushKeeps, TaskCommitKeeps, TaskFailsKeeps DEF TaskStep
<1>3. ASSUME NEW r \in Requests PROVE ~Enrich(Req(r))
  <2>1. pc[Req(r)] \notin {"load", "enrich", "reload", "count", "save"}
    BY DEF PoolInv, PoolPlaces
  <2> QED BY <2>1 DEF Enrich, Strategy, Finish, Count, Save, EnrichFails, Reload, EnrichGivesUp, At
<1>4. ASSUME NEW w \in Workers, Enrich(Worker(w)) PROVE PoolInv'
  BY <1>4, WorkerReadsKeeps, WorkerWritesKeeps, EnrichFailsKeeps, SaveKeeps DEF Enrich
<1> QED BY <1>1, <1>2, <1>3, <1>4, AskKeeps, ClaimKeeps, WorkerReadsKeeps, RestartKeeps DEF Next, Arriving

LEMMA PoolInit == Init => PoolInv
<1> SUFFICES ASSUME Init PROVE PoolInv
  OBVIOUS
<1> USE ProcessNames
<1>1. PoolPlaces /\ RunsKnown /\ Claims /\ Fresh /\ DrainedStays /\ CompleteIsSettled
  BY DEF Init, PoolPlaces, RunsKnown, Claims, Fresh, DrainedStays, CompleteIsSettled, TaskPC, EnrichPC
<1>2. \A p \in Persons : item[p].run = None /\ owner[p] = None
  BY DEF Init, PutOff, NoItem
<1>3. RunsPast /\ Locks
  BY <1>2 DEF Init, RunsPast, Locks, NoItem
<1> QED BY <1>1, <1>3 DEF PoolInv

LEMMA PoolInvariant == OneUsersPool => (Spec => []PoolInv)
<1> SUFFICES ASSUME OneUsersPool PROVE Spec => []PoolInv
  OBVIOUS
<1>1. TypeInv /\ OneTaskPerUser /\ PoolInv /\ [Next]_vars => PoolInv'
  BY PoolStep
<1> QED BY <1>1, PoolInit, TypeInvariant, OneTask, PTL DEF Spec

-----------------------------------------------------------------------------
\* What holds of the pool of one user.

\* In one user's pool no person is enriched by two workers at a time, however the task of the run,
\* which may have read the item before it was claimed, comes to write it.
LEMMA ClaimsAreExclusive == OneUsersPool => (Spec => []ClaimExclusive)
<1>1. PoolInv => ClaimExclusive
  <2> SUFFICES ASSUME PoolInv, NEW s \in Processes, NEW o \in Processes,
                      pc[s] \in EnrichPC, pc[o] \in EnrichPC, at[s] = at[o]
               PROVE  s = o
    BY DEF ClaimExclusive
  <2>1. \A q \in Processes : pc[q] \in EnrichPC => \E w \in Workers : q = Worker(w)
    BY ProcessNames DEF PoolInv, PoolPlaces, TaskPC, EnrichPC
  <2> QED BY <2>1 DEF PoolInv, Claims
<1> QED BY <1>1, PoolInvariant, PTL

\* In one user's pool a run is complete only when nothing of it is left to do,
\* and stays so.
LEMMA CompleteRunsAreSettled == OneUsersPool => (Spec => []CompleteIsSettled)
<1>1. PoolInv => CompleteIsSettled
  BY DEF PoolInv
<1> QED BY <1>1, PoolInvariant, PTL
-----------------------------------------------------------------------------
(***************************************************************************)
(* The queue keeps what ItemLife promises.  What is committed is clear from *)
(* ItemLife's state; what is not yet committed is not: who enriches a      *)
(* person must have an outcome to commit, and the task nothing but what it *)
(* may ask for, by then.                                                   *)
(***************************************************************************)

\* A worker has the person it handles, in a row that says so, and an outcome of
\* that person when it comes to save.
Hand(w) ==
  LET s == Worker(w)
      p == at[s]
  IN /\ pc[s] = "idle" => p = None
     /\ pc[s] = "enrich" => snap[s].status = "in_progress"
     /\ pc[s] \in EnrichPC /\ owner[p] = s => pend[p].attempts = item[p].attempts
     /\ pc[s] \in {"count", "save"} => /\ owner[p] = s /\ pend[p].status \in Life!Outcomes
                                       /\ pend[p].status = "deferred" => item[p].attempts < MaxRetries
Hands == \A w \in Workers : Hand(w)

\* The tasks have changed an item to one that is asked for, or not at all.
AskedFor ==
  \A r \in Requests, p \in Persons : owner[p] = Task(r) =>
    \/ pend[p].status = item[p].status /\ pend[p].attempts = item[p].attempts
    \/ /\ item[p].status \notin Taken /\ pend[p].status = "pending"
       /\ pend[p].attempts = IF item[p].status = "deferred" THEN item[p].attempts ELSE 0

\* A person still to be enqueued has not been, and an item that was not active
\* when the task read it is as it was.
ToAsk ==
  \A r \in Requests :
    /\ \A p \in Persons : p \in todo[r] => owner[p] # Task(r)
    /\ pc[Task(r)] = "flush" => /\ at[Task(r)] \in todo[r]
                                /\ snap[Task(r)].status \notin Taken =>
                                     /\ item[at[Task(r)]].status = snap[Task(r)].status
                                     /\ item[at[Task(r)]].attempts = snap[Task(r)].attempts

\* Only an item with a try left is to be tried.
Tries ==
  \A p \in Persons : /\ item[p].attempts <= MaxRetries
                     /\ item[p].status \in {"pending", "deferred"} => item[p].attempts < MaxRetries

LifeInv == Hands /\ AskedFor /\ ToAsk /\ Tries
Promised == [Life!Next]_(Life!lifeVars)

LEMMA LifeStutters ==
  ASSUME item' = item, \A w \in Workers : at'[Worker(w)] = at[Worker(w)]
  PROVE  Promised
BY DEF Promised, Life!lifeVars

\* A worker that stands still, while nobody touches the item it has.
LEMMA HandKept ==
  ASSUME NEW w \in Workers, Hand(w),
         pc'[Worker(w)] = pc[Worker(w)], at'[Worker(w)] = at[Worker(w)], snap'[Worker(w)] = snap[Worker(w)],
         pc[Worker(w)] \in EnrichPC =>
           LET p == at[Worker(w)] IN /\ item'[p] = item[p]
                                     /\ owner'[p] = Worker(w) <=> owner[p] = Worker(w)
                                     /\ owner[p] = Worker(w) => pend'[p] = pend[p]
  PROVE  Hand(w)'
BY DEF Hand, EnrichPC

\* The steps that write neither items nor what is read of them.
Beside ==
  /\ UNCHANGED <<item, pend, owner, at, snap>>
  /\ \A w \in Workers : pc'[Worker(w)] = pc[Worker(w)]
  /\ \A r \in Requests : /\ pc'[Task(r)] = "flush" => pc[Task(r)] = "flush"
                         /\ todo'[r] = todo[r] \/ pc[Task(r)] = "created"

LEMMA BesideLives ==
  ASSUME PoolInv, LifeInv, Beside
  PROVE  LifeInv' /\ Promised
<1>1. Hands'
  BY HandKept DEF LifeInv, Hands, Beside
<1>2. AskedFor' /\ Tries'
  BY DEF LifeInv, AskedFor, Tries, Beside
<1>3. ToAsk'
  <2> SUFFICES ASSUME NEW r \in Requests
               PROVE  /\ \A p \in Persons : p \in todo'[r] => owner'[p] # Task(r)
                      /\ pc'[Task(r)] = "flush" => /\ at'[Task(r)] \in todo'[r]
                                                   /\ snap'[Task(r)].status \notin Taken =>
                                                        /\ item'[at'[Task(r)]].status = snap'[Task(r)].status
                                                        /\ item'[at'[Task(r)]].attempts = snap'[Task(r)].attempts
    BY DEF ToAsk
  <2>1. CASE todo'[r] = todo[r]
    BY <2>1 DEF LifeInv, ToAsk, Beside
  <2>2. CASE pc[Task(r)] = "created"
    <3>1. \A p \in Persons : owner[p] # Task(r)
      BY <2>2, ProcessNames, NoProcess DEF PoolInv, Locks
    <3> QED BY <2>2, <3>1 DEF Beside
  <2> QED BY <2>1, <2>2 DEF Beside
<1>4. Promised
  BY LifeStutters DEF Beside
<1> QED BY <1>1, <1>2, <1>3, <1>4 DEF LifeInv

LEMMA AskLives ==
  ASSUME OneUsersPool, TypeInv, OneTaskPerUser, PoolInv, LifeInv, NEW r \in Requests, Arriving(r) \/ Serve(r)
  PROVE  LifeInv' /\ Promised
<1> USE ProcessNames DEF At, Goto
<1>1. pc \in [Processes -> PC] /\ owner \in [Persons -> Processes \union {None}] /\ PoolPlaces /\ Locks
      /\ todo \in [Requests -> SUBSET Persons] /\ pend \in [Persons -> Item]
  BY DEF TypeInv, TypeOK, PoolInv
<1>2. ~EnqueueRead(r) /\ ~EnqueueFlush(r) /\ ~EnqueueCommit(r) /\ ~EnrichSelect(r)
  BY <1>1 DEF EnqueueRead, Arrive, OneUsersPool, EnqueueFlush, EnqueueCommit, EnrichSelect, PoolPlaces
<1>3. CASE Arriving(r) \/ StatusSave(r) \/ StartCheck(r) \/ StartCommit(r)
  BY <1>1, <1>2, <1>3, BesideLives
  DEF Arriving, StartRead, StatusRead, StatusSave, StartCheck, StartCommit, Beside, items, work
<1>4. CASE StartSchedule(r)
  BY <1>1, <1>4, BesideLives DEF StartSchedule, Beside, items, work
<1>5. CASE RequestFails(r)
  <2>1. \A p \in Persons : owner[p] # Req(r)
    BY <1>1, NoProcess DEF Locks
  <2>2. UNCHANGED <<item, pend, owner>>
    BY <1>1, <1>5, <2>1 DEF RequestFails, RollbackItems, Unlock
  <2> QED BY <1>1, <1>5, <2>2, BesideLives DEF RequestFails, Beside, work
<1> QED BY <1>2, <1>3, <1>4, <1>5 DEF Serve

LEMMA TaskAsideLives ==
  ASSUME TypeInv, PoolInv, LifeInv, NEW r \in Requests, TaskBegin(r) \/ TaskFail(r) \/ TaskRelease(r)
  PROVE  LifeInv' /\ Promised
<1> USE ProcessNames DEF At, Goto
<1>1. pc \in [Processes -> PC] /\ todo \in [Requests -> SUBSET Persons]
  BY DEF TypeInv, TypeOK
<1>2. UNCHANGED <<item, pend, owner, at, snap>>
  BY DEF TaskBegin, TaskFail, TaskRelease, items, work
<1>3. /\ \A w \in Workers : pc'[Worker(w)] = pc[Worker(w)]
      /\ \A q \in Requests : pc'[Task(q)] = "flush" => pc[Task(q)] = "flush"
  BY <1>1 DEF TaskBegin, TaskFail, TaskRelease
<1>4. \A q \in Requests : todo'[q] = todo[q] \/ pc[Task(q)] = "created"
  BY <1>1 DEF TaskBegin, TaskFail, TaskRelease
<1> QED BY <1>2, <1>3, <1>4, BesideLives DEF Beside

LEMMA TaskPickLives ==
  ASSUME TypeInv, PoolInv, LifeInv, NEW r \in Requests, TaskPick(r)
  PROVE  LifeInv' /\ Promised
<1> USE ProcessNames DEF At, Goto
<1>1. PICK p \in todo[r] : LoadItem(Task(r), p)
  BY DEF TaskPick
<1>2. /\ p \in Persons /\ pc[Task(r)] = "pick" /\ pc' = [pc EXCEPT ![Task(r)] = "flush"]
      /\ UNCHANGED <<item, pend, owner, todo>> /\ pc \in [Processes -> PC]
  BY <1>1 DEF TaskPick, items, TypeInv, TypeOK
<1>3. /\ at'[Task(r)] = p /\ snap'[Task(r)] = item[p]
      /\ \A s \in Processes \ {Task(r)} : at'[s] = at[s] /\ snap'[s] = snap[s] /\ pc'[s] = pc[s]
  BY <1>1, <1>2 DEF LoadItem, TypeInv, TypeOK
<1>4. Hands' /\ Promised
  BY <1>2, <1>3, HandKept, LifeStutters DEF LifeInv, Hands
<1>5. AskedFor' /\ Tries'
  BY <1>2 DEF LifeInv, AskedFor, Tries
<1>6. ToAsk'
  BY <1>1, <1>2, <1>3 DEF LifeInv, ToAsk
<1> QED BY <1>4, <1>5, <1>6 DEF LifeInv

\* What the task writes is what it may ask for.
LEMMA TaskFlushLives ==
  ASSUME TypeInv, PoolInv, LifeInv, NEW r \in Requests, TaskFlush(r)
  PROVE  LifeInv' /\ Promised
<1> USE ProcessNames DEF At, Goto
<1> DEFINE t == Task(r)
           p == at[t]
           new == Enqueued(snap[t], r)
           merged == Merge(snap[t], new, item[p])
<1>1. /\ pc[t] = "flush" /\ pc' = [pc EXCEPT ![t] = "pick"] /\ p \in Persons /\ p \in todo[r]
      /\ UNCHANGED <<item, at>> /\ todo' = [todo EXCEPT ![r] = @ \ {p}]
      /\ pc \in [Processes -> PC] /\ owner \in [Persons -> Processes \union {None}]
      /\ item \in [Persons -> Item] /\ pend \in [Persons -> Item] /\ snap \in [Processes -> Item]
      /\ todo \in [Requests -> SUBSET Persons] /\ t \in Processes
  BY DEF TaskFlush, Enqueue, Flush, TypeInv, TypeOK, Placed, LifeInv, ToAsk
<1>2. /\ owner[p] = None /\ owner' = [owner EXCEPT ![p] = t]
      /\ pend' = [pend EXCEPT ![p] = merged] /\ snap' = [snap EXCEPT ![t] = new]
  BY <1>1 DEF TaskFlush, Enqueue, Flush, ItemFree, View, LifeInv, ToAsk
<1>3. snap[t] \in Item /\ item[p] \in Item /\ new \in Item
  BY <1>1, WrittenItems
<1>4. /\ merged.status = IF new.status # snap[t].status THEN new.status ELSE item[p].status
      /\ merged.attempts = IF new.attempts # snap[t].attempts THEN new.attempts ELSE item[p].attempts
  BY <1>3 DEF Merge, Item
<1>5. \/ merged.status = item[p].status /\ merged.attempts = item[p].attempts
      \/ /\ item[p].status \notin Taken /\ merged.status = "pending"
         /\ merged.attempts = IF item[p].status = "deferred" THEN item[p].attempts ELSE 0
  <2>1. CASE snap[t].status \in Taken
    <3>1. new.status = snap[t].status /\ new.attempts = snap[t].attempts
      BY <1>3, <2>1 DEF Taken, Enqueued, Item, ActiveStatus
    <3> QED BY <1>4, <3>1
  <2>2. CASE snap[t].status \notin Taken
    <3>1. /\ new.status = "pending"
          /\ new.attempts = IF snap[t].status = "deferred" THEN snap[t].attempts ELSE 0
      BY <1>3, <2>2 DEF Taken, Enqueued, Item, ActiveStatus
    <3> QED BY <1>1, <1>4, <2>2, <3>1 DEF LifeInv, ToAsk, Taken
  <2> QED BY <2>1, <2>2
<1> HIDE DEF merged, new, p, t
<1>6. \A s \in Processes \ {t} : pc'[s] = pc[s] /\ at'[s] = at[s] /\ snap'[s] = snap[s]
  BY <1>1, <1>2
<1>7. Hands'
  <2> SUFFICES ASSUME NEW w \in Workers PROVE Hand(w)'
    BY DEF Hands
  <2>1. \A q \in Persons : (owner'[q] = Worker(w) <=> owner[q] = Worker(w)) /\ (owner[q] = Worker(w) => pend'[q] = pend[q])
    BY <1>1, <1>2, NoProcess DEF t
  <2>2. pc[Worker(w)] \in EnrichPC => at[Worker(w)] \in Persons
    BY DEF TypeInv, Placed
  <2> QED BY <1>1, <1>6, <2>1, <2>2, HandKept DEF LifeInv, Hands, t
<1>8. AskedFor'
  <2> SUFFICES ASSUME NEW q \in Requests, NEW o \in Persons, owner'[o] = Task(q)
               PROVE  \/ pend'[o].status = item'[o].status /\ pend'[o].attempts = item'[o].attempts
                      \/ /\ item'[o].status \notin Taken /\ pend'[o].status = "pending"
                         /\ pend'[o].attempts = IF item'[o].status = "deferred" THEN item'[o].attempts ELSE 0
    BY DEF AskedFor
  <2>1. CASE o = p
    BY <1>1, <1>2, <1>5, <2>1
  <2>2. CASE o # p
    <3>1. owner'[o] = owner[o] /\ pend'[o] = pend[o] /\ item'[o] = item[o]
      BY <1>1, <1>2, <2>2
    <3>2. \/ pend[o].status = item[o].status /\ pend[o].attempts = item[o].attempts
          \/ /\ item[o].status \notin Taken /\ pend[o].status = "pending"
             /\ pend[o].attempts = IF item[o].status = "deferred" THEN item[o].attempts ELSE 0
      BY <3>1 DEF LifeInv, AskedFor
    <3> QED BY <3>1, <3>2
  <2> QED BY <2>1, <2>2
<1>9. ToAsk'
  <2> SUFFICES ASSUME NEW q \in Requests
               PROVE  /\ \A o \in Persons : o \in todo'[q] => owner'[o] # Task(q)
                      /\ pc'[Task(q)] = "flush" => /\ at'[Task(q)] \in todo'[q]
                                                   /\ snap'[Task(q)].status \notin Taken =>
                                                        /\ item'[at'[Task(q)]].status = snap'[Task(q)].status
                                                        /\ item'[at'[Task(q)]].attempts = snap'[Task(q)].attempts
    BY DEF ToAsk
  <2>1. CASE q = r
    BY <1>1, <1>2, <2>1 DEF LifeInv, ToAsk, t
  <2>2. CASE q # r
    BY <1>1, <1>2, <1>6, <2>2 DEF LifeInv, ToAsk, t
  <2> QED BY <2>1, <2>2
<1>10. Tries' /\ Promised
  BY <1>1, <1>6, LifeStutters DEF LifeInv, Tries, t
<1> QED BY <1>7, <1>8, <1>9, <1>10 DEF LifeInv

\* The task's commit asks for the items it has changed.
LEMMA TaskCommitLives ==
  ASSUME OneUsersPool, TypeInv, OneTaskPerUser, PoolInv, LifeInv, NEW r \in Requests, TaskCommit(r)
  PROVE  LifeInv' /\ Promised
<1> USE ProcessNames DEF At, Goto
<1> DEFINE t == Task(r)
<1>1. /\ pc[t] = "pick" /\ pc' = [pc EXCEPT ![t] = "release"] /\ UNCHANGED <<pend, at, snap, todo>>
      /\ pc \in [Processes -> PC] /\ owner \in [Persons -> Processes \union {None}]
      /\ item \in [Persons -> Item] /\ pend \in [Persons -> Item] /\ t \in Processes
  BY DEF TaskCommit, CommitItems, work, TypeInv, TypeOK
<1>2. /\ item' = [p \in Persons |-> IF owner[p] = t THEN pend[p] ELSE item[p]]
      /\ \A p \in Persons : owner'[p] = IF owner[p] = t THEN None ELSE owner[p]
  BY DEF TaskCommit, CommitItems, Unlock, View
<1>3. ASSUME NEW p \in Persons, owner[p] = t
      PROVE  \/ pend[p].status = item[p].status /\ pend[p].attempts = item[p].attempts
             \/ /\ item[p].status \notin Taken /\ pend[p].status = "pending"
                /\ pend[p].attempts = IF item[p].status = "deferred" THEN item[p].attempts ELSE 0
  BY <1>3 DEF LifeInv, AskedFor
<1> HIDE DEF t
<1>4. \A q \in Requests : q # r => pc[Task(q)] = "none"
  BY <1>1, OneLive DEF Live, t
<1>5. Hands'
  <2> SUFFICES ASSUME NEW w \in Workers PROVE Hand(w)'
    BY DEF Hands
  <2>1. pc[Worker(w)] \in EnrichPC => at[Worker(w)] \in Persons
    BY DEF TypeInv, Placed
  <2>2. CASE owner[at[Worker(w)]] # t
    <3>1. pc[Worker(w)] \in EnrichPC => /\ item'[at[Worker(w)]] = item[at[Worker(w)]]
                                        /\ owner'[at[Worker(w)]] = owner[at[Worker(w)]]
      BY <1>2, <2>1, <2>2
    <3> QED BY <1>1, <3>1, HandKept DEF LifeInv, Hands, t
  <2>3. CASE owner[at[Worker(w)]] = t
    <3>1. pc[Worker(w)] \in EnrichPC => owner'[at[Worker(w)]] = None /\ Worker(w) # None
      BY <1>2, <2>1, <2>3, NoProcess
    <3>2. pc[Worker(w)] \notin {"count", "save"}
      BY <2>3 DEF LifeInv, Hands, Hand, t
    <3> QED BY <1>1, <3>1, <3>2 DEF LifeInv, Hands, Hand, EnrichPC, t
  <2> QED BY <2>2, <2>3
<1>6. AskedFor'
  <2> SUFFICES ASSUME NEW q \in Requests, NEW p \in Persons, owner'[p] = Task(q) PROVE FALSE
    BY DEF AskedFor
  <2>1. owner[p] = Task(q) /\ q # r
    BY <1>2, NoProcess DEF t
  <2> QED BY <1>4, <2>1, NoProcess DEF PoolInv, Locks
<1>7. ToAsk'
  <2>1. \A q \in Requests : pc'[Task(q)] # "flush"
    BY <1>1, <1>4 DEF t
  <2>2. \A q \in Requests, p \in Persons : owner'[p] # Task(q)
    BY <1>2, <1>4, NoProcess DEF PoolInv, Locks, t
  <2> QED BY <2>1, <2>2 DEF ToAsk
<1>8. Tries'
  <2> SUFFICES ASSUME NEW p \in Persons
               PROVE  /\ item'[p].attempts <= MaxRetries
                      /\ item'[p].status \in {"pending", "deferred"} => item'[p].attempts < MaxRetries
    BY DEF Tries
  <2>1. /\ item[p].attempts <= MaxRetries
        /\ item[p].status \in {"pending", "deferred"} => item[p].attempts < MaxRetries
    BY DEF LifeInv, Tries
  <2>2. CASE owner[p] = t
    BY <1>2, <1>3, <2>1, <2>2, EnrichmentQueueAssumption
  <2>3. CASE owner[p] # t
    BY <1>2, <2>1, <2>3
  <2> QED BY <2>2, <2>3
<1>9. Promised
  <2>1. PICK wanted \in SUBSET Persons : wanted = {p \in Persons : owner[p] = t /\ pend[p].status # item[p].status}
    OBVIOUS
  <2>2. \A p \in wanted : item[p].status \notin Life!Busy /\ pend[p].status = "pending"
    BY <1>3, <2>1 DEF Life!Busy, Taken
  <2>3. ASSUME NEW p \in Persons
        PROVE  /\ item'[p].status = IF p \in wanted THEN "pending" ELSE item[p].status
               /\ item'[p].attempts = IF p \in wanted /\ item[p].status # "deferred" THEN 0 ELSE item[p].attempts
    <3>1. CASE p \in wanted
      BY <1>2, <1>3, <2>1, <3>1
    <3>2. CASE owner[p] = t /\ p \notin wanted
      <4>1. pend[p].status = item[p].status
        BY <2>1, <3>2
      <4>2. item[p].status \notin Taken => pend[p].status # "pending"
        BY <4>1 DEF Taken
      <4> QED BY <1>2, <1>3, <3>2, <4>1, <4>2
    <3>3. CASE owner[p] # t
      BY <1>2, <2>1, <3>3
    <3> QED BY <3>1, <3>2, <3>3
  <2>4. [p \in Persons |-> item[p].status]'
          = [i \in Persons |-> IF i \in wanted THEN "pending" ELSE [p \in Persons |-> item[p].status][i]]
    BY <2>3
  <2>5. [p \in Persons |-> item[p].attempts]'
          = [i \in Persons |-> IF i \in wanted /\ [p \in Persons |-> item[p].status][i] # "deferred"
                                 THEN 0 ELSE [p \in Persons |-> item[p].attempts][i]]
    BY <2>3
  <2>6. Life!Ask(wanted)
    BY <1>1, <2>2, <2>4, <2>5 DEF Life!Ask
  <2> QED BY <2>6 DEF Promised, Life!Next
<1> QED BY <1>5, <1>6, <1>7, <1>8, <1>9 DEF LifeInv

LEMMA TaskFailsLives ==
  ASSUME TypeInv, PoolInv, LifeInv, NEW r \in Requests, TaskFails(r)
  PROVE  LifeInv' /\ Promised
<1> USE ProcessNames DEF At, Goto
<1> DEFINE t == Task(r)
<1>1. /\ pc' = [pc EXCEPT ![t] = "fail"] /\ todo' = [todo EXCEPT ![r] = {}] /\ UNCHANGED <<item, at, snap>>
      /\ pc \in [Processes -> PC] /\ todo \in [Requests -> SUBSET Persons] /\ t \in Processes
  BY DEF TaskFails, RollbackItems, work, TypeInv, TypeOK
<1>2. \A p \in Persons : /\ owner'[p] = IF owner[p] = t THEN None ELSE owner[p]
                         /\ owner[p] # t => pend'[p] = pend[p]
  BY DEF TaskFails, RollbackItems, Unlock
<1> HIDE DEF t
<1>3. Hands'
  <2> SUFFICES ASSUME NEW w \in Workers PROVE Hand(w)'
    BY DEF Hands
  <2>1. pc[Worker(w)] \in EnrichPC => at[Worker(w)] \in Persons
    BY DEF TypeInv, Placed
  <2>2. \A p \in Persons : (owner'[p] = Worker(w) <=> owner[p] = Worker(w)) /\ (owner[p] = Worker(w) => pend'[p] = pend[p])
    BY <1>2, NoProcess DEF t
  <2> QED BY <1>1, <2>1, <2>2, HandKept DEF LifeInv, Hands, t
<1>4. AskedFor'
  <2> SUFFICES ASSUME NEW q \in Requests, NEW p \in Persons, owner'[p] = Task(q)
               PROVE  \/ pend'[p].status = item'[p].status /\ pend'[p].attempts = item'[p].attempts
                      \/ /\ item'[p].status \notin Taken /\ pend'[p].status = "pending"
                         /\ pend'[p].attempts = IF item'[p].status = "deferred" THEN item'[p].attempts ELSE 0
    BY DEF AskedFor
  <2>1. owner[p] = Task(q) /\ pend'[p] = pend[p] /\ item' = item
    BY <1>1, <1>2, NoProcess
  <2>2. \/ pend[p].status = item[p].status /\ pend[p].attempts = item[p].attempts
        \/ /\ item[p].status \notin Taken /\ pend[p].status = "pending"
           /\ pend[p].attempts = IF item[p].status = "deferred" THEN item[p].attempts ELSE 0
    BY <2>1 DEF LifeInv, AskedFor
  <2> QED BY <2>1, <2>2
<1>5. ToAsk'
  <2>1. \A q \in Requests : /\ \A p \in Persons : owner'[p] = Task(q) => owner[p] = Task(q)
                            /\ pc'[Task(q)] = "flush" => q # r /\ pc[Task(q)] = "flush"
                            /\ q # r => todo'[q] = todo[q]
                            /\ q = r => todo'[q] = {}
    BY <1>1, <1>2, NoProcess DEF t
  <2> QED BY <1>1, <2>1 DEF LifeInv, ToAsk
<1>6. Tries' /\ Promised
  BY <1>1, LifeStutters DEF LifeInv, Tries
<1> QED BY <1>3, <1>4, <1>5, <1>6 DEF LifeInv

\* A claim takes the item.
LEMMA ClaimLives ==
  ASSUME TypeInv, PoolInv, LifeInv, NEW w \in Workers, Claim(w)
  PROVE  LifeInv' /\ Promised
<1> USE ProcessNames DEF At, Goto
<1> DEFINE s == Worker(w)
<1>1. PICK p \in Persons :
        /\ item[p].status = "pending" /\ owner[p] = None
        /\ item' = [item EXCEPT ![p] = Claimed(item[p])]
        /\ pend' = [pend EXCEPT ![p] = item'[p]]
        /\ at' = [at EXCEPT ![s] = p]
  BY DEF Claim
<1>2. /\ pc[s] = "idle" /\ pc' = [pc EXCEPT ![s] = "load"] /\ UNCHANGED <<owner, snap, todo>>
      /\ pc \in [Processes -> PC] /\ at \in [Processes -> Persons \union {None}]
      /\ item \in [Persons -> Item] /\ pend \in [Persons -> Item] /\ s \in Processes
  BY DEF Claim, TypeInv, TypeOK
<1>3. /\ item'[p].status = "in_progress" /\ item'[p].attempts = item[p].attempts + 1
      /\ \A q \in Persons \ {p} : item'[q] = item[q] /\ pend'[q] = pend[q]
      /\ at'[s] = p /\ \A o \in Processes \ {s} : at'[o] = at[o] /\ pc'[o] = pc[o]
  BY <1>1, <1>2 DEF Claimed, Item
<1>4. \A v \in Workers \ {w} : Worker(v) # s
  BY DEF Worker
<1>5. \A v \in Workers : pc[Worker(v)] \in EnrichPC => at[Worker(v)] # p /\ at[Worker(v)] \in Persons
  BY <1>1 DEF PoolInv, Claims, TypeInv, Placed
<1>6. item[p].attempts \in Nat /\ item[p].attempts < MaxRetries
  BY <1>1, <1>2 DEF LifeInv, Tries, Item
<1> HIDE DEF s
<1>7. Hands'
  <2> SUFFICES ASSUME NEW v \in Workers PROVE Hand(v)'
    BY DEF Hands
  <2>1. CASE v = w
    <3>1. pc'[s] = "load" /\ owner'[p] # s
      BY <1>1, <1>2, NoProcess
    <3> QED BY <1>3, <2>1, <3>1 DEF Hand, s
  <2>2. CASE v # w
    <3>1. pc'[Worker(v)] = pc[Worker(v)] /\ at'[Worker(v)] = at[Worker(v)] /\ snap'[Worker(v)] = snap[Worker(v)]
      BY <1>2, <1>3, <1>4, <2>2
    <3> QED BY <1>2, <1>3, <1>5, <3>1, HandKept DEF LifeInv, Hands
  <2> QED BY <2>1, <2>2
<1>8. AskedFor'
  <2> SUFFICES ASSUME NEW q \in Requests, NEW o \in Persons, owner'[o] = Task(q)
               PROVE  \/ pend'[o].status = item'[o].status /\ pend'[o].attempts = item'[o].attempts
                      \/ /\ item'[o].status \notin Taken /\ pend'[o].status = "pending"
                         /\ pend'[o].attempts = IF item'[o].status = "deferred" THEN item'[o].attempts ELSE 0
    BY DEF AskedFor
  <2>1. owner[o] = Task(q) /\ o # p
    BY <1>1, <1>2, NoProcess
  <2>2. \/ pend[o].status = item[o].status /\ pend[o].attempts = item[o].attempts
        \/ /\ item[o].status \notin Taken /\ pend[o].status = "pending"
           /\ pend[o].attempts = IF item[o].status = "deferred" THEN item[o].attempts ELSE 0
    BY <2>1 DEF LifeInv, AskedFor
  <2> QED BY <1>3, <2>1, <2>2
<1>9. ToAsk'
  <2> SUFFICES ASSUME NEW q \in Requests
               PROVE  /\ \A o \in Persons : o \in todo'[q] => owner'[o] # Task(q)
                      /\ pc'[Task(q)] = "flush" => /\ at'[Task(q)] \in todo'[q]
                                                   /\ snap'[Task(q)].status \notin Taken =>
                                                        /\ item'[at'[Task(q)]].status = snap'[Task(q)].status
                                                        /\ item'[at'[Task(q)]].attempts = snap'[Task(q)].attempts
    BY DEF ToAsk
  <2>1. pc'[Task(q)] = pc[Task(q)] /\ at'[Task(q)] = at[Task(q)]
    BY <1>2, <1>3 DEF s
  <2>2. pc[Task(q)] = "flush" /\ snap[Task(q)].status \notin Taken => at[Task(q)] # p /\ at[Task(q)] \in Persons
    BY <1>1 DEF LifeInv, ToAsk, Taken, TypeInv, Placed
  <2> QED BY <1>2, <1>3, <2>1, <2>2 DEF LifeInv, ToAsk
<1>10. Tries'
  BY <1>3, <1>6, EnrichmentQueueAssumption DEF LifeInv, Tries
<1>11. Promised
  <2>1. at[s] = None /\ \A v \in Workers : at[Worker(v)] # p
    <3>1. \A v \in Workers : pc[Worker(v)] \in EnrichPC \/ pc[Worker(v)] = "idle"
      BY DEF PoolInv, PoolPlaces
    <3>2. \A v \in Workers : pc[Worker(v)] = "idle" => at[Worker(v)] = None
      BY DEF LifeInv, Hands, Hand
    <3>3. p # None
      BY EnrichmentQueueAssumption
    <3> QED BY <1>2, <1>5, <3>1, <3>2, <3>3 DEF s
  <2>2. Life!Take(w, p)
    <3>1. [q \in Persons |-> item[q].status]' = [[q \in Persons |-> item[q].status] EXCEPT ![p] = "in_progress"]
      BY <1>3
    <3>2. [q \in Persons |-> item[q].attempts]' = [[q \in Persons |-> item[q].attempts] EXCEPT ![p] = @ + 1]
      BY <1>3
    <3>3. \A v \in Workers : at'[Worker(v)] = IF v = w THEN p ELSE at[Worker(v)]
      BY <1>3, <1>4 DEF s
    <3>4. [v \in Workers |-> at[Worker(v)]]' = [[v \in Workers |-> at[Worker(v)]] EXCEPT ![w] = p]
      BY <3>3
    <3> QED BY <1>1, <1>6, <2>1, <3>1, <3>2, <3>4 DEF Life!Take, s
  <2> QED BY <2>2 DEF Promised, Life!Next
<1> QED BY <1>7, <1>8, <1>9, <1>10, <1>11 DEF LifeInv

\* A worker writes its person's row; what it commits there is an outcome.
LEMMA WorkerLives ==
  ASSUME TypeInv, PoolInv, LifeInv, NEW w \in Workers,
         \/ WorkerLoad(w) \/ Strategy(Worker(w)) \/ Count(Worker(w)) \/ Reload(Worker(w)) \/ EnrichFails(Worker(w))
         \/ \E status \in {"complete", "failed"} : Finish(Worker(w), status)
  PROVE  LifeInv' /\ Promised
<1> USE ProcessNames DEF At, Goto
<1> DEFINE s == Worker(w)
           p == at[s]
<1>1. /\ UNCHANGED <<item, todo, at>> /\ pc' = [pc EXCEPT ![s] = pc'[s]] /\ snap' = [snap EXCEPT ![s] = snap'[s]]
      /\ pc[s] \in EnrichPC /\ pc'[s] \in EnrichPC
  <2>1. pc \in [Processes -> PC] /\ snap \in [Processes -> Item] /\ s \in Processes /\ at \in [Processes -> Persons \union {None}]
    BY DEF TypeInv, TypeOK
  <2>2. CASE WorkerLoad(w)
    BY <2>1, <2>2 DEF WorkerLoad, LoadItem, items, EnrichPC
  <2>3. CASE Strategy(s) \/ Count(s) \/ Reload(s) \/ EnrichFails(s) \/ \E status \in {"complete", "failed"} : Finish(s, status)
    BY <2>1, <2>3 DEF Strategy, Count, Reload, EnrichFails, RollbackItems, Finish, Flush, items, enrichRest, EnrichPC
  <2> QED BY <2>2, <2>3
<1>2. /\ pc \in [Processes -> PC] /\ snap \in [Processes -> Item] /\ owner \in [Persons -> Processes \union {None}]
      /\ item \in [Persons -> Item] /\ pend \in [Persons -> Item] /\ s \in Processes /\ p \in Persons
  BY <1>1 DEF TypeInv, TypeOK, Placed
<1>3. item[p].status = "in_progress" /\ Hand(w)
  BY <1>1 DEF PoolInv, Claims, LifeInv, Hands
<1>4. \A v \in Workers \ {w} : /\ Worker(v) # s
                               /\ pc[Worker(v)] \in EnrichPC => at[Worker(v)] # p /\ at[Worker(v)] \in Persons
  BY <1>1 DEF PoolInv, Claims, TypeInv, Placed, Worker
<1>5. \A q \in Persons : owner[q] = s => q = p /\ pc[s] \in {"enrich", "count", "save"}
  BY NoProcess DEF PoolInv, Locks
<1>6. /\ \A q \in Persons \ {p} : owner'[q] = owner[q] /\ pend'[q] = pend[q]
      /\ owner'[p] \in {owner[p], s, None} /\ (owner'[p] \in Processes \ {s} => owner'[p] = owner[p] /\ pend'[p] = pend[p])
      /\ Hand(w)'
  <2>load. CASE WorkerLoad(w)
    <3>1. pc[s] = "load" /\ pc'[s] = "enrich" /\ UNCHANGED <<pend, owner>> /\ snap'[s] = item[p]
      BY <1>2, <2>load DEF WorkerLoad, LoadItem, items
    <3> QED BY <1>1, <1>2, <1>3, <3>1 DEF Hand, EnrichPC
  <2>count. CASE Count(s)
    <3>1. pc[s] = "count" /\ pc'[s] = "save" /\ UNCHANGED <<pend, owner, snap>>
      BY <1>2, <2>count DEF Count, items
    <3> QED BY <1>1, <1>2, <1>3, <3>1 DEF Hand, EnrichPC
  <2>fails. CASE EnrichFails(s)
    <3>1. /\ pc'[s] = "reload" /\ UNCHANGED snap
          /\ \A q \in Persons : owner'[q] = (IF owner[q] = s THEN None ELSE owner[q]) /\ (owner[q] # s => pend'[q] = pend[q])
      BY <1>2, <2>fails DEF EnrichFails, RollbackItems, Unlock
    <3>2. owner'[p] # s
      BY <1>2, <3>1, NoProcess
    <3> QED BY <1>1, <1>2, <1>3, <1>5, <3>1, <3>2, NoProcess DEF Hand, EnrichPC
  <2>reload. CASE Reload(s)
    <3> DEFINE new == Deferred(item[p])
    <3>1. /\ owner' = [owner EXCEPT ![p] = s] /\ pend' = [pend EXCEPT ![p] = new] /\ pc'[s] \in {"count", "save"}
          /\ owner[p] \in {s, None}
      BY <1>2, <2>reload DEF Reload, ItemFree
    <3>2. /\ new.status = (IF item[p].attempts >= MaxRetries THEN "failed" ELSE "deferred")
          /\ new.attempts = item[p].attempts /\ item[p].attempts \in Nat
      BY <1>2 DEF Deferred, Item
    <3> HIDE DEF new
    <3>3. Hand(w)'
      BY <1>1, <1>2, <3>1, <3>2, EnrichmentQueueAssumption DEF Hand, EnrichPC, Life!Outcomes
    <3> QED BY <1>2, <3>1, <3>3
  <2>strategy. CASE Strategy(s)
    <3>1. /\ owner' = [owner EXCEPT ![p] = s] /\ pend' = [pend EXCEPT ![p] = Merge(snap[s], snap[s], View(s, p))]
          /\ pc'[s] = "enrich" /\ pc[s] = "enrich" /\ snap'[s] = snap[s] /\ owner[p] = None
      BY <1>2, <2>strategy DEF Strategy, Flush, ItemFree
    <3>2. pend'[p].attempts = item[p].attempts
      <4>1. View(s, p) = item[p]
        BY <1>2, <3>1, NoProcess DEF View
      <4> QED BY <1>2, <3>1, <4>1 DEF Merge, Item
    <3>3. Hand(w)'
      BY <1>1, <1>2, <1>3, <3>1, <3>2 DEF Hand, EnrichPC
    <3> QED BY <1>2, <3>1, <3>3
  <2>finish. CASE \E status \in {"complete", "failed"} : Finish(s, status)
    <3>1. PICK status \in {"complete", "failed"} : Finish(s, status)
      BY <2>finish
    <3> DEFINE new == [snap[s] EXCEPT !.status = status]
    <3>2. /\ owner' = [owner EXCEPT ![p] = s] /\ pend' = [pend EXCEPT ![p] = Merge(snap[s], new, View(s, p))]
          /\ pc'[s] \in {"count", "save"} /\ pc[s] = "enrich" /\ owner[p] \in {s, None}
      BY <1>2, <3>1 DEF Finish, Flush, ItemFree
    <3>3. new.status = status /\ snap[s].status # status /\ new.attempts = snap[s].attempts
      BY <1>2, <1>3, <3>2 DEF Hand, Item
    <3>4. View(s, p) \in Item /\ View(s, p).attempts = item[p].attempts
      BY <1>2, <1>3, <3>2 DEF View, Hand, EnrichPC
    <3> HIDE DEF new
    <3>5. pend'[p].status = status /\ pend'[p].attempts = item[p].attempts
      BY <1>2, <3>2, <3>3, <3>4 DEF Merge, Item
    <3>6. Hand(w)'
      BY <1>1, <1>2, <3>2, <3>5 DEF Hand, EnrichPC, Life!Outcomes
    <3> QED BY <1>2, <3>2, <3>6
  <2> QED BY <2>load, <2>count, <2>fails, <2>reload, <2>strategy, <2>finish
<1> HIDE DEF s, p
<1>7. Hands'
  <2> SUFFICES ASSUME NEW v \in Workers, v # w PROVE Hand(v)'
    BY <1>6 DEF Hands
  <2>1. pc'[Worker(v)] = pc[Worker(v)] /\ at'[Worker(v)] = at[Worker(v)] /\ snap'[Worker(v)] = snap[Worker(v)]
    BY <1>1, <1>2, <1>4
  <2> QED BY <1>1, <1>4, <1>6, <2>1, HandKept DEF LifeInv, Hands
<1>8. \A q \in Requests, o \in Persons : owner'[o] = Task(q) => owner[o] = Task(q) /\ pend'[o] = pend[o]
  BY <1>6 DEF s
<1>9. AskedFor'
  <2> SUFFICES ASSUME NEW q \in Requests, NEW o \in Persons, owner'[o] = Task(q)
               PROVE  \/ pend'[o].status = item'[o].status /\ pend'[o].attempts = item'[o].attempts
                      \/ /\ item'[o].status \notin Taken /\ pend'[o].status = "pending"
                         /\ pend'[o].attempts = IF item'[o].status = "deferred" THEN item'[o].attempts ELSE 0
    BY DEF AskedFor
  <2>1. owner[o] = Task(q) /\ pend'[o] = pend[o] /\ item' = item
    BY <1>1, <1>8
  <2>2. \/ pend[o].status = item[o].status /\ pend[o].attempts = item[o].attempts
        \/ /\ item[o].status \notin Taken /\ pend[o].status = "pending"
           /\ pend[o].attempts = IF item[o].status = "deferred" THEN item[o].attempts ELSE 0
    BY <2>1 DEF LifeInv, AskedFor
  <2> QED BY <2>1, <2>2
<1>10. ToAsk'
  <2>1. \A q \in Requests : pc'[Task(q)] = pc[Task(q)] /\ snap'[Task(q)] = snap[Task(q)]
    BY <1>1, <1>2 DEF s
  <2> QED BY <1>1, <1>8, <2>1 DEF LifeInv, ToAsk
<1>11. Tries' /\ Promised
  BY <1>1, LifeStutters DEF LifeInv, Tries
<1> QED BY <1>7, <1>9, <1>10, <1>11 DEF LifeInv

\* The commit of the outcome returns the item.
LEMMA SaveLives ==
  ASSUME TypeInv, PoolInv, LifeInv, NEW w \in Workers, Save(Worker(w))
  PROVE  LifeInv' /\ Promised
<1> USE ProcessNames DEF At, Goto
<1> DEFINE s == Worker(w)
           p == at[s]
<1>1. /\ pc[s] = "save" /\ pc' = [pc EXCEPT ![s] = "idle"] /\ UNCHANGED <<pend, todo>>
      /\ at' = [at EXCEPT ![s] = None] /\ snap' = [snap EXCEPT ![s] = NoItem]
      /\ pc \in [Processes -> PC] /\ at \in [Processes -> Persons \union {None}] /\ snap \in [Processes -> Item]
      /\ item \in [Persons -> Item] /\ pend \in [Persons -> Item]
      /\ s \in Processes /\ p \in Persons
  BY DEF Save, CommitItems, EndOf, TypeInv, TypeOK, Placed, EnrichPC
<1>2. /\ item[p].status = "in_progress" /\ owner[p] = s /\ pend[p].status \in Life!Outcomes
      /\ pend[p].attempts = item[p].attempts
      /\ pend[p].status = "deferred" => item[p].attempts < MaxRetries
  BY <1>1 DEF PoolInv, Claims, LifeInv, Hands, Hand, EnrichPC
<1>3. \A q \in Persons : owner[q] = s => q = p
  BY NoProcess DEF PoolInv, Locks
<1>4. \A q \in Persons : /\ item'[q] = IF q = p THEN pend[p] ELSE item[q]
                         /\ owner'[q] = IF q = p THEN None ELSE owner[q]
  <2>1. /\ item' = [q \in Persons |-> IF owner[q] = s THEN pend[q] ELSE item[q]]
        /\ owner' = [q \in Persons |-> IF owner[q] = s THEN None ELSE owner[q]]
    BY DEF Save, CommitItems, Unlock, View
  <2>2. \A q \in Persons : owner[q] = s <=> q = p
    BY <1>1, <1>2, <1>3
  <2> HIDE DEF s, p
  <2> QED BY <1>1, <2>1, <2>2
<1>5. \A v \in Workers \ {w} : /\ Worker(v) # s
                               /\ pc[Worker(v)] \in EnrichPC => at[Worker(v)] # p /\ at[Worker(v)] \in Persons
  BY <1>1 DEF PoolInv, Claims, TypeInv, Placed, Worker, EnrichPC
<1> HIDE DEF s, p
<1>6. Hands'
  <2> SUFFICES ASSUME NEW v \in Workers PROVE Hand(v)'
    BY DEF Hands
  <2>1. CASE v = w
    BY <1>1, <2>1 DEF Hand, EnrichPC, s
  <2>2. CASE v # w
    <3>1. pc'[Worker(v)] = pc[Worker(v)] /\ at'[Worker(v)] = at[Worker(v)] /\ snap'[Worker(v)] = snap[Worker(v)]
      BY <1>1, <1>5, <2>2
    <3> QED BY <1>1, <1>4, <1>5, <2>2, <3>1, HandKept DEF LifeInv, Hands
  <2> QED BY <2>1, <2>2
<1>7. \A q \in Requests, o \in Persons : owner'[o] = Task(q) => owner[o] = Task(q) /\ o # p
  BY <1>4, NoProcess
<1>8. AskedFor'
  <2> SUFFICES ASSUME NEW q \in Requests, NEW o \in Persons, owner'[o] = Task(q)
               PROVE  \/ pend'[o].status = item'[o].status /\ pend'[o].attempts = item'[o].attempts
                      \/ /\ item'[o].status \notin Taken /\ pend'[o].status = "pending"
                         /\ pend'[o].attempts = IF item'[o].status = "deferred" THEN item'[o].attempts ELSE 0
    BY DEF AskedFor
  <2>1. owner[o] = Task(q) /\ pend'[o] = pend[o] /\ item'[o] = item[o]
    BY <1>1, <1>4, <1>7
  <2>2. \/ pend[o].status = item[o].status /\ pend[o].attempts = item[o].attempts
        \/ /\ item[o].status \notin Taken /\ pend[o].status = "pending"
           /\ pend[o].attempts = IF item[o].status = "deferred" THEN item[o].attempts ELSE 0
    BY <2>1 DEF LifeInv, AskedFor
  <2> QED BY <2>1, <2>2
<1>9. ToAsk'
  <2> SUFFICES ASSUME NEW q \in Requests
               PROVE  /\ \A o \in Persons : o \in todo'[q] => owner'[o] # Task(q)
                      /\ pc'[Task(q)] = "flush" => /\ at'[Task(q)] \in todo'[q]
                                                   /\ snap'[Task(q)].status \notin Taken =>
                                                        /\ item'[at'[Task(q)]].status = snap'[Task(q)].status
                                                        /\ item'[at'[Task(q)]].attempts = snap'[Task(q)].attempts
    BY DEF ToAsk
  <2>1. pc'[Task(q)] = pc[Task(q)] /\ at'[Task(q)] = at[Task(q)] /\ snap'[Task(q)] = snap[Task(q)]
    BY <1>1 DEF s
  <2>2. pc[Task(q)] = "flush" /\ snap[Task(q)].status \notin Taken => at[Task(q)] # p /\ at[Task(q)] \in Persons
    BY <1>2 DEF LifeInv, ToAsk, Taken, TypeInv, Placed
  <2> QED BY <1>1, <1>4, <1>7, <2>1, <2>2 DEF LifeInv, ToAsk
<1>10. Tries'
  <2>1. item'[p].attempts = item[p].attempts /\ item'[p].status \in Life!Outcomes
        /\ (item'[p].status = "deferred" => item[p].attempts < MaxRetries)
    BY <1>1, <1>2, <1>4
  <2>2. item'[p].status # "pending"
    BY <2>1 DEF Life!Outcomes
  <2>3. \A q \in Persons \ {p} : item'[q] = item[q]
    BY <1>1, <1>4
  <2> QED BY <1>1, <2>1, <2>2, <2>3 DEF LifeInv, Tries
<1>11. Promised
  <2>1. [q \in Persons |-> item[q].status]' = [[q \in Persons |-> item[q].status] EXCEPT ![p] = pend[p].status]
    BY <1>1, <1>4
  <2>2. [q \in Persons |-> item[q].attempts]' = [q \in Persons |-> item[q].attempts]
    BY <1>1, <1>2, <1>4
  <2>3. \A v \in Workers : at'[Worker(v)] = IF v = w THEN None ELSE at[Worker(v)]
    BY <1>1, <1>5 DEF s
  <2>4. [v \in Workers |-> at[Worker(v)]]' = [[v \in Workers |-> at[Worker(v)]] EXCEPT ![w] = None]
    BY <2>3
  <2>5. p # None
    BY <1>1, EnrichmentQueueAssumption
  <2>6. PICK outcome \in Life!Outcomes : outcome = pend[p].status
    BY <1>2
  <2>7. Life!Return(w, outcome)
    BY <1>1, <1>2, <2>1, <2>2, <2>4, <2>5, <2>6 DEF Life!Return, s, p
  <2> QED BY <2>7 DEF Promised, Life!Next
<1> QED BY <1>6, <1>8, <1>9, <1>10, <1>11 DEF LifeInv

\* A worker that gives up lets the item go.
LEMMA EnrichGivesUpLives ==
  ASSUME TypeInv, PoolInv, LifeInv, NEW w \in Workers, EnrichGivesUp(Worker(w))
  PROVE  LifeInv' /\ Promised
<1> USE ProcessNames DEF At, Goto
<1> DEFINE s == Worker(w)
<1>1. /\ pc' = [pc EXCEPT ![s] = "idle"] /\ UNCHANGED <<item, pend, owner, todo>>
      /\ at' = [at EXCEPT ![s] = None] /\ snap' = [snap EXCEPT ![s] = NoItem]
      /\ pc \in [Processes -> PC] /\ at \in [Processes -> Persons \union {None}] /\ snap \in [Processes -> Item]
      /\ s \in Processes
  BY DEF EnrichGivesUp, EndOf, items, TypeInv, TypeOK
<1>2. \A v \in Workers \ {w} : Worker(v) # s
  BY DEF Worker
<1> HIDE DEF s
<1>3. Hands'
  <2> SUFFICES ASSUME NEW v \in Workers PROVE Hand(v)'
    BY DEF Hands
  <2>1. CASE v = w
    BY <1>1, <2>1 DEF Hand, EnrichPC, s
  <2>2. CASE v # w
    BY <1>1, <1>2, <2>2, HandKept DEF LifeInv, Hands
  <2> QED BY <2>1, <2>2
<1>4. AskedFor' /\ Tries'
  BY <1>1 DEF LifeInv, AskedFor, Tries
<1>5. ToAsk'
  <2>1. \A q \in Requests : pc'[Task(q)] = pc[Task(q)] /\ at'[Task(q)] = at[Task(q)] /\ snap'[Task(q)] = snap[Task(q)]
    BY <1>1 DEF s
  <2> QED BY <1>1, <2>1 DEF LifeInv, ToAsk
<1>6. Promised
  <2>1. \A v \in Workers : at'[Worker(v)] = IF v \in {w} THEN None ELSE at[Worker(v)]
    BY <1>1, <1>2 DEF s
  <2>2. Life!LetGo({w})
    BY <1>1, <2>1 DEF Life!LetGo
  <2> QED BY <2>2 DEF Promised, Life!Next
<1> QED BY <1>3, <1>4, <1>5, <1>6 DEF LifeInv

\* A restart lets all of them go.
LEMMA RestartLives ==
  ASSUME TypeInv, PoolInv, LifeInv, Restart
  PROVE  LifeInv' /\ Promised
<1> USE ProcessNames DEF At
<1>1. /\ item' = item /\ \A p \in Persons : owner'[p] = None
      /\ \A r \in Requests : pc'[Task(r)] = "none"
      /\ \A w \in Workers : pc'[Worker(w)] = "idle" /\ at'[Worker(w)] = None
  BY DEF Restart
<1>2. Hands'
  BY <1>1 DEF Hands, Hand, EnrichPC
<1>3. AskedFor' /\ ToAsk' /\ Tries'
  BY <1>1, NoProcess DEF LifeInv, AskedFor, ToAsk, Tries
<1>4. Life!LetGo(Workers)
  BY <1>1 DEF Life!LetGo
<1> QED BY <1>2, <1>3, <1>4 DEF LifeInv, Promised, Life!Next

LEMMA LifeStep ==
  ASSUME OneUsersPool, TypeInv, OneTaskPerUser, PoolInv, LifeInv, [Next]_vars
  PROVE  LifeInv' /\ Promised
<1>1. CASE UNCHANGED vars
  BY <1>1, BesideLives DEF vars, items, work, Beside
<1>2. ASSUME NEW r \in Requests, TaskStep(r) PROVE LifeInv' /\ Promised
  BY <1>2, TaskAsideLives, TaskPickLives, TaskFlushLives, TaskCommitLives, TaskFailsLives DEF TaskStep
<1>3. ASSUME NEW r \in Requests PROVE ~Enrich(Req(r))
  <2>1. pc[Req(r)] \notin {"load", "enrich", "reload", "count", "save"}
    BY DEF PoolInv, PoolPlaces
  <2> QED BY <2>1 DEF Enrich, Strategy, Finish, Count, Save, EnrichFails, Reload, EnrichGivesUp, At
<1>4. ASSUME NEW w \in Workers, Enrich(Worker(w)) PROVE LifeInv' /\ Promised
  BY <1>4, WorkerLives, SaveLives, EnrichGivesUpLives DEF Enrich
<1> QED BY <1>1, <1>2, <1>3, <1>4, AskLives, ClaimLives, WorkerLives, RestartLives DEF Next, Arriving

LEMMA LifeBegins == Init => LifeInv /\ Life!Init
<1> SUFFICES ASSUME Init PROVE LifeInv /\ Life!Init
  OBVIOUS
<1> USE ProcessNames
<1>1. \A p \in Persons : owner[p] = None /\ item[p] \in {PutOff, NoItem}
  BY DEF Init
<1>2. MaxRetries \in Nat \ {0}
  BY EnrichmentQueueAssumption
<1>3. \A p \in Persons : /\ item[p].status \in {"none"} \union Life!Outcomes /\ item[p].status # "pending"
                         /\ item[p].attempts \in 0..MaxRetries
                         /\ item[p].status = "deferred" => item[p].attempts < MaxRetries
  BY <1>1, <1>2 DEF PutOff, NoItem, Life!Outcomes
<1>4. Hands /\ AskedFor /\ ToAsk
  BY <1>1, NoProcess DEF Init, Hands, Hand, AskedFor, ToAsk, EnrichPC
<1>5. Tries
  BY <1>2, <1>3 DEF Tries
<1>6. Life!Init
  <2>1. [w \in Workers |-> at[Worker(w)]] = [w \in Workers |-> None]
    BY DEF Init
  <2> QED BY <1>3, <2>1 DEF Life!Init
<1> QED BY <1>4, <1>5, <1>6 DEF LifeInv

\* One user's pool refines the life the queue promises its items: however the task of a run,
\* the workers and restarts interleave, and whatever of theirs is rolled back,
\* items are asked for when nobody has them, claimed by one worker, tried no more
\* often than enrichment_max_retries and moved on by the worker that has them.
LEMMA QueueIsAsPromised == OneUsersPool => (Spec => QueueRefines)
<1> SUFFICES ASSUME OneUsersPool PROVE Spec => QueueRefines
  OBVIOUS
<1>1. TypeInv /\ OneTaskPerUser /\ PoolInv /\ LifeInv /\ [Next]_vars => LifeInv' /\ [Life!Next]_(Life!lifeVars)
  BY LifeStep DEF Promised
<1> QED BY <1>1, LifeBegins, TypeInvariant, OneTask, PoolInvariant, PTL DEF Spec, QueueRefines, Life!Spec
=============================================================================
