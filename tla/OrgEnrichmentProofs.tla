------------------------ MODULE OrgEnrichmentProofs ------------------------
(***************************************************************************)
(* Proofs about OrgEnrichment for any users, companies and number of runs: *)
(* the companies of a user are searched by one task at a time, in the      *)
(* server's process and with the arq worker, through cancellations,        *)
(* failures and restarts.                                                  *)
(***************************************************************************)
EXTENDS OrgEnrichment, FiniteSetTheorems, TLAPS

-----------------------------------------------------------------------------
\* The inductive invariant, in parts.

States == {"none", "adding", "running", "complete", "failed"}
RunRows == [user : Users \union {None}, state : States, quiet : BOOLEAN]
Tasks == [pc : {"none", "new", "list", "search"}, left : SUBSET Range(Companies), seen : States]

RowsTyped ==
  /\ arq \in BOOLEAN
  /\ orgRun \in [RunIds -> RunRows] /\ orgTask \in [RunIds -> Tasks]
  /\ \A k \in RunIds : orgRun[k].state # "none" => orgRun[k].user \in Users

\* A task at work has the row of its run, committed or not, and in the server
\* its user is in the active set; two tasks at work are of different users.
TasksOwned ==
  /\ \A k \in RunIds : Live(k) => orgRun[k].state # "none"
  /\ ~arq => \A k \in RunIds : Live(k) => orgRun[k].user \in slots
  /\ \A k, l \in RunIds : Live(k) /\ Live(l) /\ orgRun[k].user = orgRun[l].user => k = l

OrgInv == EnrichmentTypeOK /\ RowsTyped /\ TasksOwned

-----------------------------------------------------------------------------
\* What steps that leave the tasks alone, or make one of them go on or leave,
\* keep of the invariant.

LEMMA TypeParts ==
  ASSUME RowsTyped',
         slots' \subseteq Users, kept' \subseteq Users \union Range(Companies), arq' => slots' = {},
         company' \in [Range(Companies) -> {"none", "queued", "search"}], recent' \subseteq Range(Companies),
         asked' \in [Users -> 0..MaxOrgRuns], stops' \in 0..MaxStops
  PROVE  EnrichmentTypeOK'
BY DEF RowsTyped, EnrichmentTypeOK, RunRows, Tasks, States

\* The row of a run gets another state, never none, or is not touched.
SameUsers ==
  /\ orgRun' \in [RunIds -> RunRows]
  /\ \A k \in RunIds : /\ orgRun'[k].user = orgRun[k].user
                       /\ orgRun[k].state = "none" <=> orgRun'[k].state = "none"

LEMMA StateChanges ==
  ASSUME OrgInv, NEW k \in RunIds, orgRun[k].state # "none"
  PROVE  /\ \A s \in States \ {"none"} : Ends(k, s) => SameUsers
         /\ Progress(k) => SameUsers
<1> DEFINE Row(s) == [orgRun[k] EXCEPT !.state = s]
           heard == [orgRun[k] EXCEPT !.quiet = FALSE]
<1>1. orgRun \in [RunIds -> RunRows] /\ orgRun[k] \in RunRows
  BY DEF OrgInv, RowsTyped
<1>2. ASSUME NEW s \in States \ {"none"}, Ends(k, s)
      PROVE  SameUsers
  <2>1. orgRun' = [orgRun EXCEPT ![k] = Row(s)]
    BY <1>1, <1>2 DEF Ends
  <2>2. Row(s) \in RunRows /\ Row(s).user = orgRun[k].user /\ Row(s).state = s
    BY <1>1 DEF RunRows
  <2> HIDE DEF Row
  <2> QED BY <1>1, <2>1, <2>2 DEF SameUsers
<1>3. ASSUME Progress(k)
      PROVE  SameUsers
  <2>1. orgRun' = [orgRun EXCEPT ![k] = heard]
    BY <1>1, <1>3 DEF Progress
  <2>2. heard \in RunRows /\ heard.user = orgRun[k].user /\ heard.state = orgRun[k].state
    BY <1>1 DEF RunRows
  <2> HIDE DEF heard
  <2> QED BY <1>1, <2>1, <2>2 DEF SameUsers
<1> QED BY <1>2, <1>3

LEMMA SameRun ==
  ASSUME OrgInv, UNCHANGED orgRun
  PROVE  SameUsers
BY DEF OrgInv, RowsTyped, SameUsers

\* No task moves.
LEMMA TasksStay ==
  ASSUME OrgInv, SameUsers, UNCHANGED <<arq, orgTask, slots>>
  PROVE  RowsTyped' /\ TasksOwned'
<1>1. RowsTyped'
  BY DEF OrgInv, RowsTyped, SameUsers
<1>2. \A k \in RunIds : Live(k)' <=> Live(k)
  BY DEF Live
<1> QED BY <1>1, <1>2 DEF OrgInv, TasksOwned, SameUsers

\* A task goes on.
LEMMA TaskGoes ==
  ASSUME OrgInv, SameUsers, NEW k \in RunIds, Live(k), NEW task \in Tasks, Goes(k, task), UNCHANGED arq
  PROVE  RowsTyped' /\ TasksOwned'
<1>1. orgTask' = [orgTask EXCEPT ![k] = task] /\ slots' = slots /\ orgTask \in [RunIds -> Tasks]
  BY DEF Goes, OrgInv, RowsTyped
<1>2. RowsTyped'
  BY <1>1 DEF OrgInv, RowsTyped, SameUsers
<1>3. \A l \in RunIds : Live(l)' => Live(l)
  BY <1>1 DEF Live
<1> QED BY <1>1, <1>2, <1>3 DEF OrgInv, TasksOwned, SameUsers

\* A task leaves, and its user the active set.
LEMMA TaskLeaves ==
  ASSUME OrgInv, SameUsers, NEW k \in RunIds, Live(k), Leaves(k), UNCHANGED arq
  PROVE  RowsTyped' /\ TasksOwned'
<1>1. /\ orgTask' = [orgTask EXCEPT ![k] = NoTask] /\ slots' = slots \ {orgRun[k].user}
      /\ orgTask \in [RunIds -> Tasks]
  BY DEF Leaves, OrgInv, RowsTyped
<1>2. NoTask \in Tasks /\ NoTask.pc = "none"
  BY DEF NoTask, Tasks, States
<1>3. RowsTyped'
  BY <1>1, <1>2 DEF OrgInv, RowsTyped, SameUsers
<1>4. \A l \in RunIds : Live(l)' => Live(l) /\ l # k
  BY <1>1, <1>2 DEF Live
<1> QED BY <1>1, <1>3, <1>4 DEF OrgInv, TasksOwned, SameUsers

\* A row is added, with a task for it or without.
LEMMA RowAdded ==
  ASSUME OrgInv, NEW u \in Users, NEW k \in RunIds, NextRow(k), UNCHANGED arq,
         NEW state \in {"adding", "failed"}, NEW pc \in {"none", "new"}, Adds(u, k, state, pc),
         pc = "new" => \A l \in RunIds : ~(orgRun[l].user = u /\ Live(l)),
         pc = "new" /\ ~arq => u \in slots', slots \subseteq slots'
  PROVE  RowsTyped' /\ TasksOwned'
<1> DEFINE row == [user |-> u, state |-> state, quiet |-> FALSE]
           task == [NoTask EXCEPT !.pc = pc]
<1>1. /\ orgRun' = [orgRun EXCEPT ![k] = row] /\ orgTask' = [orgTask EXCEPT ![k] = task]
      /\ orgRun \in [RunIds -> RunRows] /\ orgTask \in [RunIds -> Tasks] /\ orgRun[k].state = "none"
  BY DEF Adds, OrgInv, RowsTyped, NextRow, InState
<1>2. /\ row \in RunRows /\ row.user = u /\ row.state # "none"
      /\ task \in Tasks /\ task.pc = pc
  BY DEF RunRows, Tasks, States, NoTask
<1> HIDE DEF row, task
<1>3. RowsTyped'
  BY <1>1, <1>2 DEF OrgInv, RowsTyped
<1>4. ~Live(k) /\ (Live(k)' => pc = "new")
      /\ \A l \in RunIds \ {k} : (Live(l)' <=> Live(l)) /\ orgRun'[l] = orgRun[l]
  BY <1>1, <1>2 DEF OrgInv, TasksOwned, Live
<1>5. orgRun'[k] = row
  BY <1>1
<1> QED BY <1>2, <1>3, <1>4, <1>5 DEF OrgInv, TasksOwned

-----------------------------------------------------------------------------
\* The steps.

LEMMA InitInv == EnrichmentInit => OrgInv
<1> SUFFICES ASSUME EnrichmentInit PROVE OrgInv
  OBVIOUS
<1>1. NoRun \in RunRows /\ NoTask \in Tasks /\ NoRun.state = "none" /\ NoTask.pc = "none"
  BY DEF NoRun, NoTask, RunRows, Tasks, States
<1>2. RowsTyped /\ TasksOwned
  BY <1>1 DEF EnrichmentInit, RowsTyped, TasksOwned, Live
<1>3. EnrichmentTypeOK
  BY <1>2, EnrichmentAssumption DEF EnrichmentInit, EnrichmentTypeOK, RowsTyped, RunRows, Tasks, States
<1> QED BY <1>2, <1>3 DEF OrgInv


LEMMA AskKeeps ==
  ASSUME OrgInv, NEW u \in Users, AskEnrichment(u)
  PROVE  OrgInv'
<1>1. SameUsers
  BY StateChanges, SameRun DEF AskEnrichment, Stale, InState, States
<1>2. asked' \in [Users -> 0..MaxOrgRuns]
  <2>1. IsFiniteSet(RunIds) /\ Cardinality(RunIds) = MaxOrgRuns
    BY FS_Interval, EnrichmentAssumption DEF RunIds
  <2>2. Cardinality({k \in RunIds : InState(k, {"none"})}) \in 0..MaxOrgRuns
    BY <2>1, FS_Subset, FS_CardinalityType, EnrichmentAssumption
  <2> QED BY <2>2, EnrichmentAssumption DEF AskEnrichment, OrgInv, EnrichmentTypeOK
<1>3. RowsTyped' /\ TasksOwned'
  BY <1>1, TasksStay DEF AskEnrichment
<1> QED BY <1>2, <1>3, TypeParts DEF AskEnrichment, OrgInv, EnrichmentTypeOK

LEMMA StartKeeps ==
  ASSUME OrgInv, NEW u \in Users, StartEnrichment(u)
  PROVE  OrgInv'
<1>1. RowsTyped' /\ TasksOwned'
  <2>1. PICK k \in RunIds :
          /\ NextRow(k)
          /\ \/ ~arq /\ u \in slots /\ Adds(u, k, "failed", "none") /\ UNCHANGED slots
             \/ ~arq /\ u \notin slots /\ Adds(u, k, "adding", "new") /\ slots' = slots \union {u}
             \/ arq /\ ~KeyTaken(u) /\ Adds(u, k, "adding", "new") /\ UNCHANGED slots
             \/ arq /\ Adds(u, k, "adding", "none") /\ UNCHANGED slots
    BY DEF StartEnrichment
  <2>2. UNCHANGED arq
    BY DEF StartEnrichment
  <2>3. CASE ~arq /\ u \in slots /\ Adds(u, k, "failed", "none") /\ UNCHANGED slots
    BY <2>1, <2>2, <2>3, RowAdded
  <2>4. CASE ~arq /\ u \notin slots /\ Adds(u, k, "adding", "new") /\ slots' = slots \union {u}
    <3>1. \A l \in RunIds : ~(orgRun[l].user = u /\ Live(l))
      BY <2>4 DEF OrgInv, TasksOwned
    <3> QED BY <2>1, <2>2, <2>4, <3>1, RowAdded
  <2>5. CASE arq /\ ~KeyTaken(u) /\ Adds(u, k, "adding", "new") /\ UNCHANGED slots
    <3>1. \A l \in RunIds : ~(orgRun[l].user = u /\ Live(l))
      BY <2>5 DEF KeyTaken
    <3> QED BY <2>1, <2>2, <2>5, <3>1, RowAdded
  <2>6. CASE arq /\ Adds(u, k, "adding", "none") /\ UNCHANGED slots
    BY <2>1, <2>2, <2>6, RowAdded
  <2> QED BY <2>1, <2>3, <2>4, <2>5, <2>6
<1>2. asked' \in [Users -> 0..MaxOrgRuns]
  BY EnrichmentAssumption DEF StartEnrichment, OrgInv, EnrichmentTypeOK
<1>3. slots' \subseteq Users /\ (arq' => slots' = {})
  BY DEF StartEnrichment, OrgInv, EnrichmentTypeOK
<1> QED BY <1>1, <1>2, <1>3, TypeParts DEF StartEnrichment, OrgInv, EnrichmentTypeOK

\* Steps of users and of time that change the state of a row.
LEMMA StateKeeps ==
  ASSUME OrgInv, SameUsers, UNCHANGED <<arq, orgTask, asked, slots, kept, company, recent, stops>>
  PROVE  OrgInv'
<1>1. RowsTyped' /\ TasksOwned'
  BY TasksStay
<1> QED BY <1>1, TypeParts DEF OrgInv, EnrichmentTypeOK

LEMMA LooksKeep ==
  ASSUME OrgInv,
         \/ \E u \in Users : CancelEnrichment(u) \/ GetStatus(u)
         \/ \E k \in RunIds : CommitRun(k) \/ FiveMinutes(k)
  PROVE  OrgInv'
<1>1. ASSUME NEW u \in Users, CancelEnrichment(u) \/ GetStatus(u)
      PROVE  OrgInv'
  <2>1. PICK k \in Committed(u) : Ends(k, "failed")
    BY <1>1 DEF CancelEnrichment, GetStatus
  <2>2. k \in RunIds /\ orgRun[k].state # "none"
    BY DEF Committed, InState
  <2>3. SameUsers
    BY <2>1, <2>2, StateChanges DEF States
  <2> QED BY <1>1, <2>3, StateKeeps DEF CancelEnrichment, GetStatus
<1>2. ASSUME NEW k \in RunIds, CommitRun(k)
      PROVE  OrgInv'
  <2>1. SameUsers
    BY <1>2, StateChanges DEF CommitRun, InState, States
  <2> QED BY <1>2, <2>1, StateKeeps DEF CommitRun
<1>3. ASSUME NEW k \in RunIds, FiveMinutes(k)
      PROVE  OrgInv'
  <2> DEFINE row == [orgRun[k] EXCEPT !.quiet = TRUE]
  <2>1. orgRun \in [RunIds -> RunRows] /\ orgRun' = [orgRun EXCEPT ![k] = row] /\ orgRun[k] \in RunRows
    BY <1>3 DEF FiveMinutes, OrgInv, RowsTyped
  <2>2. row \in RunRows /\ row.user = orgRun[k].user /\ row.state = orgRun[k].state
    BY <2>1 DEF RunRows
  <2> HIDE DEF row
  <2>3. SameUsers
    BY <2>1, <2>2 DEF SameUsers
  <2> QED BY <1>3, <2>3, StateKeeps DEF FiveMinutes
<1> QED BY <1>1, <1>2, <1>3

\* Whatever a task's step does to its run, companies found are companies.
LEMMA TaskTables ==
  ASSUME OrgInv, RowsTyped', TasksOwned', NEW k \in RunIds, Live(k),
         Leaves(k) \/ UNCHANGED <<slots, kept>>,
         UNCHANGED <<arq, asked, company, stops>>, recent' \subseteq Range(Companies)
  PROVE  OrgInv'
<1>1. orgRun[k].user \in Users
  BY DEF OrgInv, RowsTyped, TasksOwned
<1>2. slots' \subseteq slots /\ kept' \subseteq Users \union Range(Companies)
  BY <1>1 DEF Leaves, OrgInv, EnrichmentTypeOK
<1> QED BY <1>2, TypeParts DEF OrgInv, EnrichmentTypeOK

LEMMA TaskKeeps ==
  ASSUME OrgInv, NEW k \in RunIds,
         TaskBegins(k) \/ TaskNext(k) \/ TaskSearched(k) \/ TaskSlips(k) \/ TaskEnds(k) \/ TaskFails(k)
  PROVE  OrgInv'
<1> DEFINE t == orgTask[k]
<1>1. Live(k) /\ UNCHANGED <<arq, asked, company, stops>> /\ orgTask[k] \in Tasks /\ orgRun[k] \in RunRows
      /\ orgRun[k].state # "none" /\ orgRun[k].user \in Users
  BY DEF TaskBegins, TaskNext, TaskSearched, TaskSlips, TaskEnds, TaskFails, Live, OrgInv, RowsTyped, TasksOwned
<1>2. recent \subseteq Range(Companies) /\ Own \in [Users -> SUBSET Range(Companies)]
  BY EnrichmentAssumption DEF OrgInv, EnrichmentTypeOK
<1>3. (\A s \in States \ {"none"} : Ends(k, s) => SameUsers) /\ (Progress(k) => SameUsers)
      /\ (UNCHANGED orgRun => SameUsers)
  BY <1>1, StateChanges, SameRun
\* The tasks that a step may leave.
<1>4. \A o : /\ [t EXCEPT !.left = @ \ {o}] \in Tasks
             /\ [t EXCEPT !.pc = "list", !.left = @ \ {o}] \in Tasks
             /\ [t EXCEPT !.pc = "search"] \in Tasks
  BY <1>1 DEF Tasks
<1>5. [pc |-> "list", seen |-> orgRun[k].state, left |-> Unenriched(orgRun[k].user)] \in Tasks
  BY <1>1, <1>2 DEF Tasks, RunRows, Unenriched
<1>6. CASE TaskBegins(k)
  <2>1. UNCHANGED recent /\ SameUsers
    BY <1>3, <1>6 DEF TaskBegins
  <2>2. Leaves(k) \/ Goes(k, [pc |-> "list", seen |-> orgRun[k].state, left |-> Unenriched(orgRun[k].user)])
    BY <1>6 DEF TaskBegins
  <2>3. RowsTyped' /\ TasksOwned'
    BY <1>1, <1>5, <2>1, <2>2, TaskLeaves, TaskGoes
  <2> QED BY <1>1, <1>2, <2>1, <2>2, <2>3, TaskTables DEF Goes
<1>7. CASE TaskNext(k)
  <2>1. UNCHANGED recent /\ SameUsers
    BY <1>3, <1>7 DEF TaskNext
  <2>2. Leaves(k) \/ \E task \in Tasks : Goes(k, task)
    BY <1>4, <1>7 DEF TaskNext
  <2>3. RowsTyped' /\ TasksOwned'
    BY <1>1, <2>1, <2>2, TaskLeaves, TaskGoes
  <2> QED BY <1>1, <1>2, <2>1, <2>2, <2>3, TaskTables DEF Goes
<1>8. CASE TaskSearched(k)
  <2>1. SameUsers
    BY <1>3, <1>8 DEF TaskSearched
  <2>2. \E task \in Tasks : Goes(k, task)
    BY <1>4, <1>8 DEF TaskSearched
  <2>3. RowsTyped' /\ TasksOwned'
    BY <1>1, <2>1, <2>2, TaskGoes
  <2>4. recent' \subseteq Range(Companies)
    BY <1>1, <1>2, <1>8 DEF TaskSearched, Searched, Tasks
  <2> QED BY <1>1, <2>2, <2>3, <2>4, TaskTables DEF Goes
<1>9. CASE TaskSlips(k)
  <2>1. UNCHANGED recent /\ SameUsers
    BY <1>3, <1>9 DEF TaskSlips
  <2>2. Leaves(k) \/ \E task \in Tasks : Goes(k, task)
    BY <1>4, <1>9 DEF TaskSlips
  <2>3. RowsTyped' /\ TasksOwned'
    BY <1>1, <2>1, <2>2, TaskLeaves, TaskGoes
  <2> QED BY <1>1, <1>2, <2>1, <2>2, <2>3, TaskTables DEF Goes
<1>10. CASE TaskEnds(k) \/ TaskFails(k)
  <2>1. UNCHANGED recent /\ SameUsers /\ Leaves(k)
    BY <1>3, <1>10 DEF TaskEnds, TaskFails, States
  <2>2. RowsTyped' /\ TasksOwned'
    BY <1>1, <2>1, TaskLeaves
  <2> QED BY <1>1, <1>2, <2>1, <2>2, TaskTables
<1> QED BY <1>6, <1>7, <1>8, <1>9, <1>10

\* Steps that touch no run and no task.
LEMMA CompaniesKeep ==
  ASSUME OrgInv,
         \/ ScanCompanies
         \/ \E o \in Range(Companies) : AddWatchedCompany(o) \/ CompanyBegins(o) \/ CompanyEnds(o) \/ CooldownEnds(o)
         \/ \E x \in kept : ResultForgotten(x)
  PROVE  OrgInv'
<1>1. UNCHANGED <<arq, orgRun, orgTask, asked, slots, stops>>
  BY DEF ScanCompanies, AddWatchedCompany, CompanyBegins, CompanyEnds, CooldownEnds, ResultForgotten
<1>2. /\ company' \in [Range(Companies) -> {"none", "queued", "search"}]
      /\ recent' \subseteq Range(Companies) /\ kept' \subseteq Users \union Range(Companies)
  BY DEF ScanCompanies, AddWatchedCompany, CompanyBegins, CompanyEnds, CooldownEnds, ResultForgotten,
         CompanyDone, Queued, Searched, OrgInv, EnrichmentTypeOK
<1>3. RowsTyped' /\ TasksOwned'
  BY <1>1, SameRun, TasksStay
<1> QED BY <1>1, <1>2, <1>3, TypeParts DEF OrgInv, EnrichmentTypeOK

LEMMA StopKeeps ==
  ASSUME OrgInv, ProcessStops
  PROVE  OrgInv'
<1> DEFINE begun == [NoTask EXCEPT !.pc = "new"]
<1>1. begun \in Tasks /\ begun.pc = "new" /\ NoTask \in Tasks /\ NoTask.pc = "none" /\ NoRun \in RunRows
      /\ NoRun.state = "none"
  BY DEF NoTask, NoRun, Tasks, RunRows, States
<1>2. orgTask' = [k \in RunIds |-> IF arq /\ Live(k) THEN begun ELSE NoTask] /\ slots' = {} /\ arq' = arq
  BY DEF ProcessStops
<1> HIDE DEF begun
<1>3. /\ orgRun' \in [RunIds -> RunRows]
      /\ \A k \in RunIds : orgRun'[k] = orgRun[k] \/ (orgRun'[k] = NoRun /\ ~arq)
  BY <1>1 DEF ProcessStops, OrgInv, RowsTyped
<1>4. RowsTyped'
  <2>1. orgTask' \in [RunIds -> Tasks]
    BY <1>1, <1>2
  <2> QED BY <1>1, <1>2, <1>3, <2>1 DEF OrgInv, RowsTyped
<1>5. \A k \in RunIds : Live(k)' => Live(k) /\ arq /\ orgRun'[k] = orgRun[k]
  BY <1>1, <1>2, <1>3 DEF Live
<1>6. TasksOwned'
  BY <1>2, <1>5 DEF OrgInv, TasksOwned
<1>7. /\ company' \in [Range(Companies) -> {"none", "queued", "search"}]
      /\ asked' \in [Users -> 0..MaxOrgRuns] /\ stops' \in 0..MaxStops
  BY EnrichmentAssumption DEF ProcessStops, OrgInv, EnrichmentTypeOK
<1> QED BY <1>2, <1>4, <1>6, <1>7, TypeParts DEF ProcessStops, OrgInv, EnrichmentTypeOK

LEMMA StepKeeps == OrgInv /\ [EnrichmentNext]_enrichmentVars => OrgInv'
<1> SUFFICES ASSUME OrgInv, [EnrichmentNext]_enrichmentVars PROVE OrgInv'
  OBVIOUS
<1>1. CASE UNCHANGED enrichmentVars
  BY <1>1, SameRun, StateKeeps DEF enrichmentVars
<1> QED BY <1>1, AskKeeps, StartKeeps, LooksKeep, TaskKeeps, CompaniesKeep, StopKeeps DEF EnrichmentNext

LEMMA OrgInvariance == EnrichmentSpec => []OrgInv
BY InitInv, StepKeeps, PTL DEF EnrichmentSpec

-----------------------------------------------------------------------------
\* A user's companies are searched by one task at a time, for any number of
\* users, companies and runs, with tasks in the server or in the arq worker,
\* cancelled, failing and begun again (schedule_org_enrichment).
THEOREM SearchedByOne == EnrichmentSpec => []OneSearcher
<1>1. ASSUME OrgInv
      PROVE  OneSearcher
  <2>1. ASSUME NEW u \in Users
        PROVE  Cardinality({k \in RunIds : orgRun[k].user = u /\ Live(k)}) <= 1
    <3> DEFINE tasks == {k \in RunIds : orgRun[k].user = u /\ Live(k)}
    <3>1. CASE tasks = {}
      BY <3>1, FS_EmptySet
    <3>2. CASE tasks # {}
      <4>1. PICK k \in tasks : TRUE
        BY <3>2
      <4>2. tasks = {k}
        BY <1>1, <4>1 DEF OrgInv, TasksOwned
      <4>3. Cardinality(tasks) = 1
        <5>1. Cardinality({k}) = 1
          BY FS_Singleton
        <5> HIDE DEF tasks
        <5> QED BY <4>2, <5>1
      <4> QED BY <4>3
    <3> QED BY <3>1, <3>2
  <2> QED BY <1>1, <2>1 DEF OneSearcher, OrgInv
<1> QED BY <1>1, OrgInvariance, PTL

=============================================================================
