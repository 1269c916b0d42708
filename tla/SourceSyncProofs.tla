-------------------------- MODULE SourceSyncProofs --------------------------
(***************************************************************************)
(* Proofs about SourceSync for any set of requests, either kind of source, *)
(* with failures and restarts.                                             *)
(***************************************************************************)
EXTENDS SourceSync, TLAPS

USE DEF Req, Task

\* An UPDATE of some attributes of a row yields a row.
LEMMA MergeRow ==
  ASSUME NEW from \in Row, NEW to \in Row, NEW current \in Row
  PROVE  Merge(from, to, current) \in Row
<1>1. DOMAIN current = {"exists", "state", "payload", "error"}
  BY DEF Row
<1> QED BY <1>1 DEF Merge, Row

\* Names of sessions: a request is no task, and neither is NoSession.
LEMMA SessionNames ==
  /\ \A r \in Requests : Req(r) \in Sessions /\ Task(r) \in Sessions
  /\ \A r, q \in Requests : Req(r) # Task(q)
  /\ \A r, q \in Requests : Req(r) = Req(q) => r = q
  /\ \A r, q \in Requests : Task(r) = Task(q) => r = q
  /\ NoSession \notin Sessions
BY SourceSyncAssumption DEF Sessions, NoSession

\* The row and the sessions' copies stay rows.
LEMMA FlushType ==
  ASSUME TypeOK, NEW s \in Sessions, NEW new \in Row, Flush(s, new)
  PROVE  /\ row' \in Row /\ pend' \in Row /\ owner' \in Sessions
         /\ base' \in [Sessions -> Row] /\ mem' \in [Sessions -> Row]
BY MergeRow DEF Flush, Keep, View, TypeOK

LEMMA FlushCommitType ==
  ASSUME TypeOK, NEW s \in Sessions, NEW new \in Row, FlushCommit(s, new)
  PROVE  row' \in Row /\ pend' \in Row /\ owner' = NoSession
BY MergeRow DEF FlushCommit, View, TypeOK

LEMMA NoRowIsRow == NoRow \in Row
BY DEF NoRow, Row, SyncState, SyncError

LEMMA RecoveredRow == ASSUME NEW m \in Row PROVE Recovered(m) \in Row
BY DEF Recovered, Row, SyncState, SyncError

\* Every variable keeps its type: the committed and the uncommitted row are
\* rows, and sessions hold the row lock only under their own names.
THEOREM TypeCorrect == Spec => []TypeOK
<1>1. Init => TypeOK
  <2> SUFFICES ASSUME Init PROVE TypeOK
    OBVIOUS
  <2>rows. row \in Row /\ pend \in Row
    BY SourceSyncAssumption, NoRowIsRow DEF Init, NoRow, Row
  <2>copies. base \in [Sessions -> Row] /\ mem \in [Sessions -> Row]
    BY NoRowIsRow DEF Init
  <2>pcs. pc \in [Sessions -> PC] /\ result \in [Sessions -> Result]
    BY DEF Init, PC, RequestPC, TaskPC, Result
  <2>owner. owner \in Sessions \union {NoSession} /\ active \in BOOLEAN
    BY DEF Init
  <2>counts. commits \in [Requests -> 0..MaxProgress] /\ restarts \in 0..MaxRestarts
    BY SourceSyncAssumption DEF Init
  <2>ops. /\ op \in [Requests -> Ops \union {"none"}]
          /\ content \in [Requests -> Requests \union {NoRequest}]
          /\ imported \subseteq Requests
    BY DEF Init
  <2>kind. kind \in Kinds
    BY DEF Init
  <2> QED
    BY <2>rows, <2>copies, <2>pcs, <2>owner, <2>counts, <2>ops, <2>kind DEF TypeOK
<1>2. TypeOK /\ [Next]_vars => TypeOK'
  <2> SUFFICES ASSUME TypeOK, [Next]_vars PROVE TypeOK'
    OBVIOUS
  <2> USE SessionNames, NoRowIsRow
  <2>arrive. ASSUME NEW r \in Requests, Arrive(r) PROVE TypeOK'
    <3> USE DEF ReqIdle, Load, Keep, End, Forget, Goto, Answer, db, rest, TypeOK,
            PC, RequestPC, Result
    <3>1. CASE UploadRead(r)
      BY <3>1 DEF UploadRead
    <3>2. CASE ConnectRead(r)
      BY <3>2 DEF ConnectRead
    <3>3. CASE SyncRead(r)
      <4>1. CASE row.exists
        <5>1. /\ Load(Req(r)) /\ Goto(Req(r), "schedule") /\ UNCHANGED result
              /\ ReqIdle(r, "sync") /\ UNCHANGED rest
          BY <3>3, <4>1 DEF SyncRead
        <5> QED BY <5>1
      <4>2. CASE ~(row.exists)
        <5>1. /\ End(r, "error") /\ UNCHANGED db
              /\ ReqIdle(r, "sync") /\ UNCHANGED rest
          BY <3>3, <4>2 DEF SyncRead
        <5> QED BY <5>1
      <4> QED BY <4>1, <4>2
    <3>4. CASE ListRead(r)
      BY <3>4 DEF ListRead
    <3>5. CASE CancelRead(r)
      <4>1. CASE row.exists /\ row.state \in {"syncing", "pending"}
        <5>1. /\ Load(Req(r)) /\ Goto(Req(r), "cancel") /\ UNCHANGED result
              /\ ReqIdle(r, "cancel") /\ UNCHANGED rest
          BY <3>5, <4>1 DEF CancelRead
        <5> QED BY <5>1
      <4>2. CASE ~(row.exists /\ row.state \in {"syncing", "pending"})
        <5>1. /\ End(r, "rejected") /\ UNCHANGED db
              /\ ReqIdle(r, "cancel") /\ UNCHANGED rest
          BY <3>5, <4>2 DEF CancelRead
        <5> QED BY <5>1
      <4> QED BY <4>1, <4>2
    <3> QED BY <2>arrive, <3>1, <3>2, <3>3, <3>4, <3>5 DEF Arrive
  <2>serve. ASSUME NEW r \in Requests, Serve(r) PROVE TypeOK'
    <3>1. CASE StorePayload(r)
      <4> DEFINE new == [exists |-> TRUE, state |-> "pending",
                         payload |-> r, error |-> "none"]
      <4>1. new \in Row
        BY DEF Row, SyncState, SyncError
      <4>2. CASE Flush(Req(r), new) /\ Goto(Req(r), "stored") /\ UNCHANGED result
        <5>1. /\ row' \in Row /\ pend' \in Row /\ owner' \in Sessions
              /\ base' \in [Sessions -> Row] /\ mem' \in [Sessions -> Row]
          BY <4>1, <4>2, FlushType
        <5> QED
          BY <3>1, <4>2, <5>1 DEF StorePayload, Goto, rest, TypeOK, PC, RequestPC
      <4>3. CASE UNCHANGED db /\ End(r, "error")
        BY <3>1, <4>3 DEF StorePayload, Goto, End, Answer,
           Forget, Keep, rest, db, TypeOK, PC, RequestPC, Result
      <4> QED BY <3>1, <4>2, <4>3 DEF StorePayload
    <3>2. CASE CommitPayload(r)
      BY <3>2 DEF CommitPayload, Commit, View, Goto, session, rest, TypeOK, PC,
         RequestPC
    <3>3. CASE ConnectInsert(r)
      <4> DEFINE new == [NoRow EXCEPT !.exists = TRUE]
      <4>1. new \in Row
        BY DEF NoRow, Row, SyncState, SyncError
      <4>2. CASE Flush(Req(r), new)
        BY <3>3, <4>1, <4>2, FlushType DEF ConnectInsert, Goto, End, Answer,
           Forget, Keep, rest, db, TypeOK, PC, RequestPC, Result
      <4>3. CASE UNCHANGED db /\ End(r, "error")
        BY <3>3, <4>3 DEF ConnectInsert, Goto, End, Answer,
           Forget, Keep, rest, db, TypeOK, PC, RequestPC, Result
      <4> QED BY <3>3, <4>2, <4>3 DEF ConnectInsert
    <3>4. CASE RequestSync(r)
      <4>1. UNCHANGED <<db, base, op, content, commits, imported, restarts, kind>>
        BY <3>4 DEF RequestSync, session
      <4>2. mem' \in [Sessions -> Row]
        BY <3>4, RecoveredRow DEF RequestSync, session, TypeOK
      <4>3. pc' \in [Sessions -> PC] /\ result' \in [Sessions -> Result]
        BY <3>4 DEF RequestSync, Answer, Goto, TypeOK, PC, RequestPC, TaskPC,
           Result
      <4>4. active' \in BOOLEAN
        BY <3>4 DEF RequestSync, TypeOK
      <4> QED BY <4>1, <4>2, <4>3, <4>4 DEF db, TypeOK
    <3>5. CASE TryClaim(r)
      <4>1. SeenByClaim(Req(r)) \in Row
        BY MergeRow DEF SeenByClaim, View, TypeOK
      <4>2. [SeenByClaim(Req(r)) EXCEPT !.state = "syncing", !.error = "none"]
              \in Row
        BY <4>1 DEF Row, SyncState, SyncError
      <4>3. pc' \in [Sessions -> PC] /\ result' \in [Sessions -> Result]
        BY <3>5 DEF TryClaim, Answer, Goto, TypeOK, PC, RequestPC, Result
      <4>4. active' \in BOOLEAN /\ row' \in Row /\ owner' \in Sessions \union {NoSession}
        BY <3>5 DEF TryClaim, ReleaseSlot, db, TypeOK
      <4>5. /\ pend' \in Row
            /\ base' \in [Sessions -> Row] /\ mem' \in [Sessions -> Row]
        BY <3>5, <4>2 DEF TryClaim, Keep, db, session, TypeOK
      <4> QED
        BY <3>5, <4>3, <4>4, <4>5 DEF TryClaim, TypeOK
    <3>6. CASE CommitRequest(r)
      BY <3>6 DEF CommitRequest, Commit, View, Goto, Forget, Keep, rest, TypeOK,
         PC, RequestPC
    <3>7. CASE ListRecover(r)
      BY <3>7, RecoveredRow DEF ListRecover, Goto, rest, db, TypeOK, PC,
         RequestPC
    <3>8. CASE ListCommit(r)
      <4>1. CASE UNCHANGED db
        BY <3>8, <4>1 DEF ListCommit, Goto, End, Answer, Forget, Keep, rest, db,
           TypeOK, PC, RequestPC, Result
      <4>2. CASE FlushCommit(Req(r), mem[Req(r)])
        BY <3>8, <4>2, FlushCommitType DEF ListCommit, Goto, End, Answer,
           Forget, Keep, rest, TypeOK, PC, RequestPC, Result
      <4> QED BY <3>8, <4>1, <4>2 DEF ListCommit
    <3>9. CASE CancelCommit(r)
      <4> DEFINE new == [mem[Req(r)] EXCEPT !.state = "failed",
                                            !.error = "cancelled"]
      <4>1. new \in Row
        BY DEF TypeOK, Row, SyncState, SyncError
      <4> QED
        BY <3>9, <4>1, FlushCommitType DEF CancelCommit, Goto, Forget, Keep,
           rest, TypeOK, PC, RequestPC
    <3>10. CASE CancelRelease(r)
      BY <3>10 DEF CancelRelease, ReleaseSlot, Goto, Answer, db, session,
         TypeOK, PC, RequestPC, Result
    <3> QED
      BY <2>serve, <3>1, <3>2, <3>3, <3>4, <3>5, <3>6, <3>7, <3>8, <3>9, <3>10
         DEF Serve
  <2>fails. ASSUME NEW r \in Requests, RequestFails(r) PROVE TypeOK'
    BY <2>fails DEF RequestFails, Rollback, End, Goto, Answer, Forget, Keep, rest,
       TypeOK, PC, RequestPC, Result
  <2>work. ASSUME NEW r \in Requests, Work(r) PROVE TypeOK'
    <3>1. CASE TaskLoad(r)
      BY <3>1 DEF TaskLoad, Load, Keep, Goto, Answer, db, rest, TypeOK, PC,
         TaskPC, Result
    <3>2. CASE TaskBegin(r)
      <4> DEFINE new == [mem[Task(r)] EXCEPT !.state = "syncing",
                                             !.error = "none"]
      <4>1. new \in Row
        BY DEF TypeOK, Row, SyncState, SyncError
      <4> HIDE DEF new
      <4>2. Flush(Task(r), new)
        BY <3>2 DEF TaskBegin, new
      <4>3. /\ row' \in Row /\ pend' \in Row /\ owner' \in Sessions
            /\ base' \in [Sessions -> Row] /\ mem' \in [Sessions -> Row]
        BY <4>1, <4>2, FlushType
      <4> QED
        BY <3>2, <4>3 DEF TaskBegin, Goto, rest, TypeOK, PC, TaskPC
    <3>3. CASE TaskRead(r)
      <4>1. mem[Task(r)].payload \in Requests \union {NoRequest}
        BY DEF TypeOK, Row
      <4> QED
        BY <3>3, <4>1 DEF TaskRead, Goto, db, session, TypeOK, PC, TaskPC
    <3>4. CASE TaskProgress(r)
      <4> DEFINE partial == [mem[Task(r)] EXCEPT !.state = "partial"]
      <4>1. partial \in Row /\ mem[Task(r)] \in Row
        BY DEF TypeOK, Row, SyncState
      <4> HIDE DEF partial
      <4>2. \/ FlushCommit(Task(r), mem[Task(r)]) /\ UNCHANGED session
            \/ FlushCommit(Task(r), partial) /\ Keep(Task(r), partial)
        BY <3>4 DEF TaskProgress, partial
      <4>3. row' \in Row /\ pend' \in Row /\ owner' = NoSession
        BY <4>2, <4>1, FlushCommitType
      <4>4. base' \in [Sessions -> Row] /\ mem' \in [Sessions -> Row]
        BY <4>2, <4>1 DEF Keep, session, TypeOK
      <4>5. commits' \in [Requests -> 0..MaxProgress]
        BY <3>4, SourceSyncAssumption DEF TaskProgress, TypeOK
      <4>6. pc' \in [Sessions -> PC] /\ kind' = kind
        BY <3>4 DEF TaskProgress, Goto, TypeOK, PC, TaskPC
      <4> QED
        BY <3>4, <4>3, <4>4, <4>5, <4>6 DEF TaskProgress, TypeOK
    <3>5. CASE TaskRefresh(r)
      BY <3>5 DEF TaskRefresh, Load, Keep, Goto, db, rest, TypeOK, PC, TaskPC
    <3>6. CASE TaskFinish(r)
      <4> DEFINE new == [mem[Task(r)] EXCEPT !.state = "complete",
                                             !.payload = NoRequest]
      <4>1. new \in Row
        BY DEF TypeOK, Row, SyncState
      <4> HIDE DEF new
      <4>2. Flush(Task(r), new)
        BY <3>6 DEF TaskFinish, new
      <4>3. /\ row' \in Row /\ pend' \in Row /\ owner' \in Sessions
            /\ base' \in [Sessions -> Row] /\ mem' \in [Sessions -> Row]
        BY <4>1, <4>2, FlushType
      <4> QED
        BY <3>6, <4>3 DEF TaskFinish, Goto, rest, TypeOK, PC, TaskPC
    <3>7. CASE TaskCommit(r)
      BY <3>7 DEF TaskCommit, Commit, View, Goto, Answer, session, TypeOK, PC,
         TaskPC, Result
    <3>8. CASE TaskFails(r)
      BY <3>8 DEF TaskFails, Rollback, Goto, Answer, session, rest, TypeOK, PC,
         TaskPC, Result
    <3>9. CASE TaskLoadFails(r)
      BY <3>9 DEF TaskLoadFails, Goto, Answer, db, session, rest, TypeOK, PC,
         TaskPC, Result
    <3>10. CASE FailLoad(r)
      BY <3>10 DEF FailLoad, Load, Keep, Goto, db, rest, TypeOK, PC, TaskPC
    <3>11. CASE FailSave(r)
      <4> DEFINE new == [mem[Task(r)] EXCEPT !.state = "failed",
                                             !.error = "captured"]
      <4>1. new \in Row
        BY DEF TypeOK, Row, SyncState, SyncError
      <4> QED
        BY <3>11, <4>1, FlushCommitType DEF FailSave, Goto, session, rest,
           TypeOK, PC, TaskPC
    <3>12. CASE FailFails(r)
      BY <3>12 DEF FailFails, Goto, db, session, rest, TypeOK, PC, TaskPC
    <3>13. CASE TaskRelease(r)
      BY <3>13 DEF TaskRelease, ReleaseSlot, Goto, Forget, Keep, db, TypeOK, PC,
         TaskPC
    <3> QED
      BY <2>work, <3>1, <3>2, <3>3, <3>4, <3>5, <3>6, <3>7, <3>8, <3>9, <3>10,
         <3>11, <3>12, <3>13 DEF Work
  <2>restart. CASE Restart
    <3>1. pc' \in [Sessions -> PC]
      BY <2>restart DEF Restart, At, PC, RequestPC, TaskPC
    <3>2. restarts' \in 0..MaxRestarts
      BY <2>restart, SourceSyncAssumption DEF Restart, TypeOK
    <3> QED
      BY <2>restart, <3>1, <3>2 DEF Restart, TypeOK
  <2>still. CASE UNCHANGED vars
    BY <2>still DEF vars, TypeOK
  <2> QED BY <2>arrive, <2>serve, <2>fails, <2>work, <2>restart, <2>still DEF Next
<1> QED BY <1>1, <1>2, PTL DEF Spec

-----------------------------------------------------------------------------
(***************************************************************************)
(* The active set and the tasks.                                           *)
(***************************************************************************)

\* Steps of a request other than the one that schedules leave every task where
\* it is and never enter the source in the active set.
LEMMA RequestsKeepTasks ==
  ASSUME TypeOK, NEW r \in Requests,
         Arrive(r) \/ RequestFails(r) \/ (Serve(r) /\ ~RequestSync(r))
  PROVE  /\ active' => active
         /\ \A q \in Requests : pc'[Task(q)] = pc[Task(q)]
<1> USE SessionNames
<1>1. active' => active
  BY DEF Arrive, UploadRead, ConnectRead, SyncRead, ListRead, CancelRead,
     RequestFails, Serve, StorePayload, CommitPayload, ConnectInsert, TryClaim,
     CommitRequest, ListRecover, ListCommit, CancelCommit, CancelRelease,
     ReleaseSlot, rest
<1>2. \E label \in RequestPC : pc' = [pc EXCEPT ![Req(r)] = label]
  BY DEF Arrive, UploadRead, ConnectRead, SyncRead, ListRead, CancelRead,
     RequestFails, Serve, StorePayload, CommitPayload, ConnectInsert, TryClaim,
     CommitRequest, ListRecover, ListCommit, CancelCommit, CancelRelease,
     Goto, End, RequestPC
<1> QED BY <1>1, <1>2 DEF TypeOK

\* A task stays alive through its own steps, up to the release.
LEMMA WorkKeepsTask ==
  ASSUME TypeOK, NEW r \in Requests, Work(r), ~TaskRelease(r)
  PROVE  /\ active' = active
         /\ \A q \in Requests : pc[Task(q)] # "none" => pc'[Task(q)] # "none"
<1> USE SessionNames
<1>1. active' = active
  BY DEF Work, TaskLoad, TaskBegin, TaskRead, TaskProgress, TaskRefresh,
     TaskFinish, TaskCommit, TaskFails, TaskLoadFails, FailLoad, FailSave,
     FailFails, rest
<1>2. \E label \in TaskPC \ {"none"} : pc' = [pc EXCEPT ![Task(r)] = label]
  BY DEF Work, TaskLoad, TaskBegin, TaskRead, TaskProgress, TaskRefresh,
     TaskFinish, TaskCommit, TaskFails, TaskLoadFails, FailLoad, FailSave,
     FailFails, Goto, TaskPC
<1> QED BY <1>1, <1>2 DEF TypeOK

\* The active set never outlives the tasks, whichever request or task takes the
\* entry out and however often the server restarts.
THEOREM ActiveSlotHasTask == Spec => []SlotHasTask
<1>1. Init => SlotHasTask
  BY DEF Init, SlotHasTask
<1>2. TypeOK /\ SlotHasTask /\ [Next]_vars => SlotHasTask'
  <2> SUFFICES ASSUME TypeOK, SlotHasTask, [Next]_vars PROVE SlotHasTask'
    OBVIOUS
  <2> USE SessionNames
  <2>aside. ASSUME NEW r \in Requests,
                   Arrive(r) \/ RequestFails(r) \/ (Serve(r) /\ ~RequestSync(r))
            PROVE  SlotHasTask'
    BY <2>aside, RequestsKeepTasks DEF SlotHasTask, Live
  <2>request. ASSUME NEW r \in Requests, RequestSync(r) PROVE SlotHasTask'
    <3>1. CASE active' = active
      <4>1. \A q \in Requests : pc[Task(q)] # "none" => pc'[Task(q)] # "none"
        BY <2>request DEF RequestSync, Goto, TypeOK
      <4> QED BY <3>1, <4>1 DEF SlotHasTask, Live
    <3>2. CASE active' # active
      <4>1. pc' = [pc EXCEPT ![Req(r)] = "claim", ![Task(r)] = "created"]
        BY <2>request, <3>2 DEF RequestSync
      <4> QED BY <4>1 DEF SlotHasTask, Live, TypeOK
    <3> QED BY <3>1, <3>2
  <2>work. ASSUME NEW r \in Requests, Work(r) PROVE SlotHasTask'
    <3>1. CASE TaskRelease(r)
      BY <3>1 DEF TaskRelease, ReleaseSlot, SlotHasTask
    <3>2. CASE ~TaskRelease(r)
      BY <2>work, <3>2, WorkKeepsTask DEF SlotHasTask, Live
    <3> QED BY <3>1, <3>2
  <2>restart. CASE Restart
    BY <2>restart DEF Restart, SlotHasTask
  <2>still. CASE UNCHANGED vars
    BY <2>still DEF vars, SlotHasTask, Live
  <2> QED BY <2>aside, <2>request, <2>work, <2>restart, <2>still DEF Next
<1> QED BY <1>1, <1>2, TypeCorrect, PTL DEF Spec

-----------------------------------------------------------------------------
(***************************************************************************)
(* Orphans are taken over.                                                 *)
(***************************************************************************)

\* What request_sync's session holds: up to the recovery exactly what it loaded
\* or flushed, and after the recovery never SYNCING unless it was not loaded so.
RecoveryInv ==
  \A r \in Requests :
    /\ pc[Req(r)] \in {"stored", "schedule"} => mem[Req(r)] = base[Req(r)]
    /\ pc[Req(r)] = "claim" /\ base[Req(r)].state = "syncing"
         => mem[Req(r)].state = "failed"

\* A session is touched by its own steps only.
LEMMA OtherSessions ==
  ASSUME TypeOK, NEW r \in Requests, NEW q \in Requests,
         \/ Work(r)
         \/ q # r /\ (Arrive(r) \/ Serve(r) \/ RequestFails(r))
  PROVE  /\ pc'[Req(q)] = pc[Req(q)]
         /\ base'[Req(q)] = base[Req(q)]
         /\ mem'[Req(q)] = mem[Req(q)]
<1> USE SessionNames
<1>1. base'[Req(q)] = base[Req(q)] /\ mem'[Req(q)] = mem[Req(q)]
  <2> USE DEF Load, Flush, Keep, Forget, End, session, TypeOK
  <2>1. CASE Work(r)
    BY <2>1 DEF Work, TaskLoad, TaskBegin, TaskRead, TaskProgress, TaskRefresh,
       TaskFinish, TaskCommit, TaskFails, TaskLoadFails, FailLoad, FailSave,
       FailFails, TaskRelease
  <2>2. CASE q # r /\ (Arrive(r) \/ RequestFails(r))
    BY <2>2 DEF Arrive, UploadRead, ConnectRead, SyncRead, ListRead, CancelRead,
       RequestFails
  <2>3. CASE q # r /\ Serve(r)
    BY <2>3 DEF Serve, StorePayload, CommitPayload, ConnectInsert, RequestSync,
       TryClaim, CommitRequest, ListRecover, ListCommit, CancelCommit,
       CancelRelease
  <2> QED BY <2>1, <2>2, <2>3
<1>2. pc'[Req(q)] = pc[Req(q)]
  BY DEF Arrive, UploadRead, ConnectRead, SyncRead, ListRead, CancelRead,
     RequestFails, Serve, StorePayload, CommitPayload, ConnectInsert,
     RequestSync, TryClaim, CommitRequest, ListRecover, ListCommit,
     CancelCommit, CancelRelease, Work, TaskLoad, TaskBegin, TaskRead,
     TaskProgress, TaskRefresh, TaskFinish, TaskCommit, TaskFails,
     TaskLoadFails, FailLoad, FailSave, FailFails, TaskRelease,
     Goto, End, TypeOK
<1> QED BY <1>1, <1>2 DEF TypeOK

\* The steps of the request itself.
LEMMA OwnSession ==
  ASSUME TypeOK, RecoveryInv, NEW r \in Requests,
         Arrive(r) \/ Serve(r) \/ RequestFails(r)
  PROVE  /\ pc'[Req(r)] \in {"stored", "schedule"}
              => mem'[Req(r)] = base'[Req(r)]
         /\ pc'[Req(r)] = "claim" /\ base'[Req(r)].state = "syncing"
              => mem'[Req(r)].state = "failed"
<1> USE SessionNames DEF TypeOK
<1>1. CASE RequestSync(r)
  <2>1. CASE active' = active
    <3>1. pc'[Req(r)] = "commit"
      BY <1>1, <2>1 DEF RequestSync, Goto
    <3> QED BY <3>1
  <2>2. CASE active' # active
    <3>1. mem[Req(r)] = base[Req(r)]
      BY <1>1 DEF RequestSync, At, RecoveryInv
    <3>2. /\ ~active /\ pc'[Req(r)] = "claim" /\ base' = base
          /\ mem' = [mem EXCEPT ![Req(r)] = Recovered(mem[Req(r)])]
      BY <1>1, <2>2 DEF RequestSync
    <3> QED BY <3>1, <3>2 DEF Recovered, Row
  <2> QED BY <2>1, <2>2
<1>2. CASE Arrive(r)
  <2>1. CASE UploadRead(r) \/ ListRead(r) \/ CancelRead(r)
    <3>1. pc'[Req(r)] \in {"store", "recover", "cancel", "done"}
      BY <2>1 DEF UploadRead, ListRead, CancelRead, End, Goto
    <3> QED BY <3>1
  <2>2. CASE ConnectRead(r)
    <3>1. Load(Req(r)) /\ pc'[Req(r)] \in {"schedule", "connect"}
      BY <2>2 DEF ConnectRead, Goto
    <3> QED BY <3>1 DEF Load, Keep
  <2>3. CASE SyncRead(r)
    <3>1. CASE row.exists
      <4>1. Load(Req(r)) /\ pc'[Req(r)] = "schedule"
        BY <2>3, <3>1 DEF SyncRead, Goto
      <4> QED BY <4>1 DEF Load, Keep
    <3>2. CASE ~row.exists
      <4>1. pc'[Req(r)] = "done"
        BY <2>3, <3>2 DEF SyncRead, End, Goto
      <4> QED BY <4>1
    <3> QED BY <3>1, <3>2
  <2> QED BY <1>2, <2>1, <2>2, <2>3 DEF Arrive
<1>3. CASE RequestFails(r)
  BY <1>3 DEF RequestFails, End, Goto
<1>4. CASE StorePayload(r) \/ ConnectInsert(r)
  <2>1. \/ pc'[Req(r)] = "done"
        \/ pc'[Req(r)] \in {"stored", "schedule"} /\ \E new : Keep(Req(r), new)
    BY <1>4 DEF StorePayload, ConnectInsert, Flush, End, Goto
  <2> QED BY <2>1 DEF Keep
<1>5. CASE CommitPayload(r)
  BY <1>5 DEF CommitPayload, RecoveryInv, At, Goto, session
<1>6. CASE \/ TryClaim(r) \/ CommitRequest(r) \/ ListRecover(r)
           \/ ListCommit(r) \/ CancelCommit(r) \/ CancelRelease(r)
  BY <1>6 DEF TryClaim, CommitRequest, ListRecover, ListCommit, CancelCommit,
     CancelRelease, End, Goto
<1> QED BY <1>1, <1>2, <1>3, <1>4, <1>5, <1>6 DEF Serve

LEMMA RecoveryInvariant == Spec => []RecoveryInv
<1>1. Init => RecoveryInv
  BY SessionNames DEF Init, RecoveryInv
<1>2. TypeOK /\ RecoveryInv /\ [Next]_vars => RecoveryInv'
  <2> SUFFICES ASSUME TypeOK, RecoveryInv, [Next]_vars PROVE RecoveryInv'
    OBVIOUS
  <2>1. ASSUME NEW r \in Requests,
               Arrive(r) \/ Serve(r) \/ RequestFails(r) \/ Work(r)
        PROVE  RecoveryInv'
    <3> SUFFICES ASSUME NEW q \in Requests
                 PROVE  /\ pc'[Req(q)] \in {"stored", "schedule"}
                             => mem'[Req(q)] = base'[Req(q)]
                        /\ pc'[Req(q)] = "claim" /\ base'[Req(q)].state = "syncing"
                             => mem'[Req(q)].state = "failed"
      BY DEF RecoveryInv
    <3>1. CASE Work(r) \/ q # r
      <4>1. /\ pc'[Req(q)] = pc[Req(q)]
            /\ base'[Req(q)] = base[Req(q)]
            /\ mem'[Req(q)] = mem[Req(q)]
        BY <2>1, <3>1, OtherSessions
      <4> QED BY <4>1 DEF RecoveryInv
    <3>2. CASE ~Work(r) /\ q = r
      BY <2>1, <3>2, OwnSession
    <3> QED BY <3>1, <3>2
  <2>2. CASE Restart
    BY <2>2, SessionNames DEF Restart, At, RecoveryInv, TypeOK
  <2>3. CASE UNCHANGED vars
    BY <2>3 DEF vars, RecoveryInv
  <2> QED BY <2>1, <2>2, <2>3 DEF Next
<1> QED BY <1>1, <1>2, TypeCorrect, PTL DEF Spec

\* A request that finds an orphaned sync always restarts it, at whatever moment
\* other requests and tasks change the row in between.
THEOREM OrphanTakenOver == Spec => RecoveryClaims
<1>1. TypeOK /\ RecoveryInv /\ [Next]_vars
        => [\A r \in Requests :
              TryClaim(r) /\ base[Req(r)].state = "syncing"
                => result'[Req(r)] = "scheduled"]_vars
  <2> SUFFICES ASSUME TypeOK, RecoveryInv, NEW r \in Requests, TryClaim(r),
                      base[Req(r)].state = "syncing"
               PROVE  result'[Req(r)] = "scheduled"
    OBVIOUS
  <2> USE SessionNames
  <2>1. mem[Req(r)].state = "failed"
    BY DEF TryClaim, At, RecoveryInv
  <2>2. View(Req(r)) \in Row
    BY DEF View, TypeOK
  <2>3. SeenByClaim(Req(r)).state = "failed"
    BY <2>1, <2>2 DEF SeenByClaim, Merge, Row
  <2> QED
    BY <2>3 DEF TryClaim, Answer, TypeOK
<1> QED BY <1>1, TypeCorrect, RecoveryInvariant, PTL DEF Spec, RecoveryClaims
=============================================================================
