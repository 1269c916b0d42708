--------------------------- MODULE JobScoringProofs ---------------------------
(***************************************************************************)
(* What the job id of arq gives: one scoring run of a user at a time, and   *)
(* so no run that dies on the primary key; and whose the progress is in the *)
(* server process.                                                         *)
(***************************************************************************)
EXTENDS JobScoring, TLAPS

(* arq has at most one job of the user queued or running.                  *)
OneRun == \A t, u \in Alive : t = u

Looping(t) == run[t] \in {"announce", "check", "score"}

(* The posting a run waits for is one it has still to score ...             *)
Awaited == \A t \in Requests : run[t] = "score" => posting[t] \in todo[t]

(* ... and none of those has a score.                                      *)
Insertable == \A t \in Requests : Looping(t) => \A j \in todo[t] : score[j] = NoScore

Inv == TypeOK /\ OneRun /\ Awaited /\ Insertable

(* A request starts its run once.                                          *)
Unstarted ==
  \A r \in Requests : pc[r] \in {"idle", "save", "cancel", "enqueue"} => run[r] = "none"

(* Somebody will clear the progress.                                       *)
Busy == {t \in Requests : run[t] \in {"check", "score", "clear"}}
Owned == progress => Busy # {}

OwnInv == TypeOK /\ Unstarted /\ Owned

-----------------------------------------------------------------------------
(* Type correctness.                                                       *)

LEMMA InitType == Init => TypeOK
<1>. SUFFICES ASSUME Init PROVE TypeOK
  OBVIOUS
<1>1. First \in Prefs /\ basis \in Bases
  BY DEF First, Prefs, Init
<1>2. (CHOOSE j \in Jobs : TRUE) \in Jobs
  BY JobScoringAssumption
<1>3. prefs \in Prefs /\ score \in [Jobs -> Prefs \union {NoScore}]
  BY <1>1 DEF Init
<1>4. snap \in [Requests -> Prefs] /\ seen \in [Requests -> [Jobs -> Prefs \union {NoScore}]]
  BY <1>1 DEF Init, Unscored
<1>5. posting \in [Requests -> Jobs]
  BY <1>2 DEF Init
<1>6. restarts \in 0..MaxRestarts
  BY JobScoringAssumption DEF Init
<1> QED
  BY <1>1, <1>3, <1>4, <1>5, <1>6 DEF Init, TypeOK, PCs, Runs

LEMMA NewVersion ==
  ASSUME prefs \in Prefs
  PROVE  /\ [prefs EXCEPT !.role = @ + 1] \in Prefs
         /\ [prefs EXCEPT !.formula = @ + 1] \in Prefs
<1>1. /\ prefs.role + 1 \in Nat /\ prefs.formula + 1 \in Nat
      /\ prefs = [role |-> prefs.role, formula |-> prefs.formula]
      /\ prefs.role \in Nat /\ prefs.formula \in Nat
  BY DEF Prefs
<1>2. /\ [prefs EXCEPT !.role = @ + 1] = [role |-> prefs.role + 1, formula |-> prefs.formula]
      /\ [prefs EXCEPT !.formula = @ + 1] = [role |-> prefs.role, formula |-> prefs.formula + 1]
  BY <1>1
<1>. QED
  BY <1>1, <1>2 DEF Prefs

LEMMA RequestType ==
  ASSUME TypeOK, NEW r \in Requests, RequestStep(r)
  PROVE  TypeOK'
<1>1. CASE SavePreferences(r)
  <2>1. prefs' \in Prefs
    BY <1>1, NewVersion DEF SavePreferences, TypeOK
  <2>2. basis' \in Bases
    BY <1>1 DEF SavePreferences, NewText, Bases, TypeOK
  <2> QED
    BY <1>1, <2>1, <2>2 DEF SavePreferences, TypeOK, PCs, Goto, work, cancel
<1>2. CASE Discover(r)
  BY <1>2 DEF Discover, TypeOK, PCs, Goto, work, cancel
<1>3. CASE CancelScoring(r)
  BY <1>3 DEF CancelScoring, TypeOK, PCs, Goto, work
<1>4. CASE Enqueue(r)
  BY <1>4 DEF Enqueue, AfterEnqueue, FirstRun, RunTo, TypeOK, PCs, Runs, Goto, work, cancel
<1>5. CASE CommitUpload(r)
  <2>1. prefs' \in Prefs
    BY <1>5, NewVersion DEF CommitUpload, TypeOK
  <2>2. basis' \in Bases
    BY <1>5 DEF CommitUpload, Bases, TypeOK
  <2> QED
    BY <1>5, <2>1, <2>2 DEF CommitUpload, TypeOK, PCs, Goto, work, cancel
<1>6. CASE RescoreRead(r)
  BY <1>6 DEF RescoreRead, TypeOK, PCs, Goto, cancel
<1>7. CASE RescoreRows(r)
  BY <1>7 DEF RescoreRows, TypeOK, PCs, Goto, cancel
<1>8. CASE RescoreWrite(r)
  <2>1. score' \in [Jobs -> Prefs \union {NoScore}]
    <3>1. \A j \in Jobs : seen[r][j] # NoScore => Rescored(r, j) \in Prefs
      BY DEF TypeOK, Prefs, Rescored
    <3> QED
      BY <1>8, <3>1 DEF RescoreWrite, TypeOK
  <2> QED
    BY <1>8, <2>1 DEF RescoreWrite, TypeOK, PCs, Goto, work, cancel
<1>9. CASE DeleteAccount(r)
  BY <1>9 DEF DeleteAccount, Unscored, TypeOK, Bases, PCs, Goto, work, cancel
<1> QED
  BY <1>1, <1>2, <1>3, <1>4, <1>5, <1>6, <1>7, <1>8, <1>9 DEF RequestStep

LEMMA RunType ==
  ASSUME TypeOK, NEW t \in Requests, RunStep(t)
  PROVE  TypeOK'
<1>1. CASE Dequeue(t)
  BY <1>1 DEF Dequeue, FirstRun, TypeOK, Runs, RunTo, work, cancel
<1>2. CASE DeleteScores(t)
  BY <1>2 DEF DeleteScores, Deleted, Unscored, TypeOK, Runs, RunTo, work, cancel
<1>3. CASE Begin(t)
  <2>1. memory' \in BOOLEAN
    BY <1>3, JobScoringAssumption, Zenon DEF Begin, DiscardedMemory, TypeOK
  <2> QED
    BY <1>3, <2>1 DEF Begin, Kept, TypeOK, Runs, Scoring, RunTo
<1>4. CASE ListJobs(t)
  <2>2. todo' \in [Requests -> SUBSET Jobs] /\ results' \subseteq Requests
    BY <1>4 DEF ListJobs, Kept, TypeOK
  <2>3. run' \in [Requests -> Runs]
    BY <1>4 DEF ListJobs, TypeOK, Runs, Scoring, RunTo
  <2> QED
    BY <1>4, <2>2, <2>3 DEF ListJobs, TypeOK, cancel
<1>5. CASE CheckCancelled(t)
  <2>1. memory' \in BOOLEAN
    BY <1>5, JobScoringAssumption, Zenon DEF CheckCancelled, DiscardedMemory, TypeOK
  <2> QED
    <3>1. \/ RunTo(t, "clear") /\ posting' = posting
          \/ RunTo(t, "score") /\ \E j \in todo[t] : posting' = [posting EXCEPT ![t] = j]
      BY <1>5, Zenon DEF CheckCancelled
    <3>2. run' \in [Requests -> Runs] /\ posting' \in [Requests -> Jobs]
      <4>1. /\ run \in [Requests -> Runs] /\ posting \in [Requests -> Jobs]
            /\ todo[t] \subseteq Jobs /\ {"clear", "score"} \subseteq Runs
        BY DEF TypeOK, Runs, Scoring
      <4> QED
        BY <3>1, <4>1 DEF RunTo
    <3> QED
      BY <1>5, <2>1, <3>2 DEF CheckCancelled, TypeOK
<1>6. CASE Complete(t)
  BY <1>6 DEF Complete, TypeOK, Runs, RunTo, work, cancel
<1>7. CASE ClassifyBatch(t)
  <2>1. progress' \in BOOLEAN
    BY <1>7, Zenon DEF ClassifyBatch, TypeOK
  <2>2. /\ score' = score \/ score' = [score EXCEPT ![posting[t]] = snap[t]]
        /\ todo' = todo \/ todo' = [todo EXCEPT ![t] = todo[t] \ {posting[t]}]
        /\ RunTo(t, "check") \/ RunTo(t, "clear")
    BY <1>7, Zenon DEF ClassifyBatch, Remaining
  <2>3. /\ score' \in [Jobs -> Prefs \union {NoScore}]
        /\ todo' \in [Requests -> SUBSET Jobs]
    <3>1. /\ score \in [Jobs -> Prefs \union {NoScore}] /\ snap[t] \in Prefs
          /\ todo \in [Requests -> SUBSET Jobs] /\ todo[t] \in SUBSET Jobs
      BY DEF TypeOK
    <3> QED
      BY <2>2, <3>1
  <2>4. run' \in [Requests -> Runs]
    BY <2>2 DEF TypeOK, Runs, Scoring, RunTo
  <2> QED
    BY <1>7, <2>1, <2>3, <2>4 DEF ClassifyBatch, TypeOK, cancel
<1>8. CASE ClearProgress(t)
  <2>1. flag' \in BOOLEAN /\ progress' \in BOOLEAN
    BY <1>8, JobScoringAssumption, Zenon DEF ClearProgress, ClearedProgress, TypeOK
  <2> QED
    BY <1>8, <2>1 DEF ClearProgress, Kept, TypeOK, Runs, RunTo, work
<1>9. CASE Announce(t)
  BY <1>9 DEF Announce, TypeOK, Runs, Scoring, RunTo, work, cancel
<1> QED
  BY <1>1, <1>2, <1>3, <1>4, <1>5, <1>6, <1>7, <1>8, <1>9 DEF RunStep

LEMMA OtherType ==
  ASSUME TypeOK,
         \/ \E r \in Requests, o \in Ops : Arrive(r, o)
         \/ \E r \in Requests : EnqueueFails(r) \/ BatchUnanswered(r) \/ RunFails(r)
                                \/ AnnounceFails(r) \/ ClearFails(r) \/ ResultExpires(r)
         \/ SetCancelled \/ FlagExpires \/ ProgressExpires \/ WorkerRestart \/ ServerRestart
  PROVE  TypeOK'
<1>1. ASSUME NEW r \in Requests, NEW o \in Ops, Arrive(r, o) PROVE TypeOK'
  BY <1>1 DEF Arrive, FirstStep, TypeOK, PCs, Goto, work, cancel
<1>2. ASSUME NEW r \in Requests, EnqueueFails(r) PROVE TypeOK'
  BY <1>2 DEF EnqueueFails, AfterEnqueue, TypeOK, PCs, Goto, work, cancel
<1>3. ASSUME NEW r \in Requests, BatchUnanswered(r) PROVE TypeOK'
  BY <1>3 DEF BatchUnanswered, Remaining, TypeOK, Runs, Scoring, RunTo, cancel
<1>4. ASSUME NEW r \in Requests, RunFails(r) PROVE TypeOK'
  BY <1>4 DEF RunFails, Kept, TypeOK, Runs, RunTo, work, cancel
<1>5. ASSUME NEW r \in Requests, ResultExpires(r) PROVE TypeOK'
  BY <1>5 DEF ResultExpires, TypeOK, work, cancel
<1>6. CASE SetCancelled
  <2>1. flag' \in BOOLEAN
    BY <1>6, Zenon DEF SetCancelled, TypeOK
  <2>2. setting' \in Nat
    BY <1>6 DEF SetCancelled, TypeOK
  <2> QED
    BY <1>6, <2>1, <2>2 DEF SetCancelled, TypeOK, work
<1>7. CASE FlagExpires
  BY <1>7 DEF FlagExpires, TypeOK, work
<1>8. CASE WorkerRestart
  BY <1>8, JobScoringAssumption DEF WorkerRestart, TypeOK, PCs, Runs, work, cancel
<1>9. CASE ServerRestart
  <2>1. memory' \in BOOLEAN /\ progress' \in BOOLEAN
    BY <1>9, Zenon DEF ServerRestart, TypeOK
  <2>2. restarts' \in 0..MaxRestarts /\ setting' \in Nat
    BY <1>9, JobScoringAssumption DEF ServerRestart, TypeOK
  <2>3. pc' \in [Requests -> PCs] /\ run' \in [Requests -> Runs]
    BY <1>9 DEF ServerRestart, TypeOK, PCs, Runs
  <2> QED
    BY <1>9, <2>1, <2>2, <2>3 DEF ServerRestart, TypeOK, work
<1>10. ASSUME NEW r \in Requests, AnnounceFails(r) \/ ClearFails(r) PROVE TypeOK'
  BY <1>10 DEF AnnounceFails, ClearFails, ClearedProgress, Kept, TypeOK, Runs, RunTo, work, cancel
<1>11. CASE ProgressExpires
  BY <1>11 DEF ProgressExpires, TypeOK, work, cancel
<1> QED
  BY <1>1, <1>2, <1>3, <1>4, <1>5, <1>6, <1>7, <1>8, <1>9, <1>10, <1>11

LEMMA NextType == TypeOK /\ [Next]_vars => TypeOK'
<1>1. CASE UNCHANGED vars
  BY <1>1 DEF vars, TypeOK
<1> QED
  BY <1>1, RequestType, RunType, OtherType DEF Next

(* Every variable keeps its type: the bookkeeping of set_job_preferences,   *)
(* classify_jobs_for_user and arq makes sense, however often they run.      *)
THEOREM TypeCorrect == Spec => []TypeOK
BY InitType, NextType, PTL DEF Spec

-----------------------------------------------------------------------------
(* One run at a time.                                                      *)

(* A step that begins no run and gives no posting a score or a place in a   *)
(* list keeps the invariant.                                               *)
LEMMA Quiet ==
  ASSUME OneRun, Awaited, Insertable,
         \A t \in Requests : run'[t] = run[t] \/ run'[t] \notin {"none", "ended", "announce"} \union Scoring
                             \/ run'[t] = "ended" \/ run'[t] = "list",
         \A t \in Requests : run[t] \in {"none", "ended"} => run'[t] = run[t],
         todo' = todo, posting' = posting,
         \A j \in Jobs : score[j] = NoScore => score'[j] = NoScore, TypeOK
  PROVE  OneRun' /\ Awaited' /\ Insertable'
<1>1. Alive' \subseteq Alive
  BY DEF Alive
<1>2. \A t \in Requests : Looping(t)' => Looping(t) /\ run'[t] = run[t]
  BY DEF Looping, Scoring
<1>3. OneRun'
  BY <1>1 DEF OneRun
<1>4. Awaited'
  BY <1>2 DEF Awaited, Looping
<1>5. \A t \in Requests : todo[t] \subseteq Jobs
  BY DEF TypeOK
<1>6. Insertable'
  BY <1>2, <1>5 DEF Insertable
<1> QED
  BY <1>3, <1>4, <1>6

LEMMA RequestInv ==
  ASSUME UseArq, Inv, NEW r \in Requests, RequestStep(r)
  PROVE  OneRun' /\ Awaited' /\ Insertable'
<1>. USE DEF Inv
<1>1. CASE SavePreferences(r)
  BY <1>1, Quiet DEF SavePreferences, work
<1>2. CASE Discover(r)
  BY <1>2, Quiet DEF Discover, work
<1>3. CASE CancelScoring(r)
  BY <1>3, Quiet DEF CancelScoring, work
<1>4. CASE Enqueue(r)
  <2>1. CASE JobIdTaken
    BY <1>4, <2>1, Quiet DEF Enqueue, work
  <2>2. CASE ~JobIdTaken
    <3>1. Alive = {}
      BY <2>2 DEF JobIdTaken, Alive
    <3>2. run' = [run EXCEPT ![r] = "queued"] /\ todo' = todo /\ score' = score
      BY <1>4, <2>2 DEF Enqueue, RunTo, work
    <3>3. \A t \in Requests : run'[t] \in {"none", "ended"} \/ (t = r /\ run'[t] = "queued")
      BY <3>1, <3>2 DEF Alive, TypeOK
    <3> QED
      BY <3>3 DEF OneRun, Alive, Awaited, Insertable, Looping
  <2> QED
    BY <2>1, <2>2
<1>5. CASE CommitUpload(r)
  BY <1>5, Quiet DEF CommitUpload, work
<1>6. CASE RescoreRead(r)
  BY <1>6, Quiet DEF RescoreRead
<1>7. CASE RescoreRows(r)
  BY <1>7, Quiet DEF RescoreRows
<1>8. CASE RescoreWrite(r)
  <2>1. \A j \in Jobs : score[j] = NoScore => score'[j] = NoScore
    BY <1>8 DEF RescoreWrite, TypeOK
  <2> QED
    BY <1>8, <2>1, Quiet DEF RescoreWrite, work
<1>9. CASE DeleteAccount(r)
  <2>1. \A j \in Jobs : score'[j] = NoScore
    BY <1>9 DEF DeleteAccount, Unscored
  <2> QED
    BY <1>9, <2>1, Quiet DEF DeleteAccount, work
<1> QED
  BY <1>1, <1>2, <1>3, <1>4, <1>5, <1>6, <1>7, <1>8, <1>9 DEF RequestStep

LEMMA RunInv ==
  ASSUME UseArq, Inv, NEW t \in Requests, RunStep(t)
  PROVE  OneRun' /\ Awaited' /\ Insertable'
<1>. USE DEF Inv
<1>0. \A u \in Requests \ {t} : run[t] \notin {"none", "ended"} => ~Looping(u) /\ u \notin Alive
  BY DEF OneRun, Alive, Looping
<1>1. CASE Dequeue(t)
  BY <1>1, Quiet DEF Dequeue, FirstRun, RunTo, Scoring, TypeOK, work
<1>2. CASE DeleteScores(t)
  BY <1>2, Quiet DEF DeleteScores, Deleted, Unscored, RunTo, Scoring, TypeOK, work
<1>3. CASE Begin(t)
  <2>1. /\ RunTo(t, "list") \/ RunTo(t, "ended")
        /\ todo' = todo /\ posting' = posting /\ score' = score
    BY <1>3, Zenon DEF Begin
  <2>2. run[t] = "begin"
    BY <1>3, Zenon DEF Begin
  <2> QED
    BY <2>1, <2>2, Quiet DEF RunTo, TypeOK
<1>4. CASE ListJobs(t)
  <2>. DEFINE unclassified == {j \in active : score[j] = NoScore}
  <2>1. CASE unclassified = {}
    BY <1>4, <2>1, Quiet DEF ListJobs, RunTo, Scoring, TypeOK
  <2>2. CASE unclassified # {}
    <3>1. /\ run[t] = "list" /\ run' = [run EXCEPT ![t] = "announce"]
          /\ todo' = [todo EXCEPT ![t] = unclassified] /\ score' = score
      BY <1>4, <2>2, Zenon DEF ListJobs, RunTo
    <3>2. /\ run'[t] = "announce" /\ todo'[t] = unclassified
          /\ \A u \in Requests \ {t} : run'[u] = run[u]
      BY <3>1 DEF TypeOK
    <3>3. \A u \in Requests \ {t} : run'[u] \in {"none", "ended"}
      BY <3>1, <3>2, <1>0 DEF Alive
    <3> QED
      BY <3>1, <3>2, <3>3 DEF OneRun, Alive, Awaited, Insertable, Looping
  <2> QED
    BY <2>1, <2>2
<1>5. CASE CheckCancelled(t)
  <2>1. run[t] = "check" /\ todo' = todo /\ score' = score
    BY <1>5, Zenon DEF CheckCancelled
  <2>2. \/ RunTo(t, "clear") /\ posting' = posting
        \/ RunTo(t, "score") /\ \E j \in todo[t] : posting' = [posting EXCEPT ![t] = j]
    BY <1>5, Zenon DEF CheckCancelled
  <2>3. CASE RunTo(t, "clear") /\ posting' = posting
    BY <2>1, <2>3, Quiet DEF RunTo, Scoring, TypeOK
  <2>4. CASE RunTo(t, "score") /\ \E j \in todo[t] : posting' = [posting EXCEPT ![t] = j]
    <3>1. run'[t] = "score" /\ posting'[t] \in todo[t]
      BY <2>4 DEF RunTo, TypeOK
    <3>2. \A u \in Requests \ {t} : run'[u] = run[u] /\ run'[u] \in {"none", "ended"}
      BY <2>1, <2>4, <1>0 DEF RunTo, TypeOK, Alive
    <3>3. \A j \in todo'[t] : score'[j] = NoScore
      BY <2>1 DEF Insertable, Looping
    <3> QED
      BY <2>1, <3>1, <3>2, <3>3 DEF OneRun, Alive, Awaited, Insertable, Looping
  <2> QED
    BY <2>2, <2>3, <2>4
<1>6. CASE Complete(t)
  BY <1>6, Quiet DEF Complete, RunTo, Scoring, TypeOK, work
<1>7. CASE ClassifyBatch(t)
  <2>0. CASE basis = "gone"
    BY <1>7, <2>0, Quiet DEF ClassifyBatch, RunTo, Scoring, TypeOK, cancel
  <2>1. run[t] = "score" /\ score[posting[t]] = NoScore
    <3>1. run[t] = "score"
      BY <1>7 DEF ClassifyBatch
    <3> QED
      BY <3>1 DEF Awaited, Insertable, Looping
  <2>. SUFFICES ASSUME basis # "gone" PROVE OneRun' /\ Awaited' /\ Insertable'
    BY <2>0
  <2>2. /\ score' = [score EXCEPT ![posting[t]] = snap[t]]
        /\ todo' = [todo EXCEPT ![t] = todo[t] \ {posting[t]}]
        /\ run' = [run EXCEPT ![t] = "check"]
    BY <1>7, <2>1, Zenon DEF ClassifyBatch, Remaining, RunTo
  <2>3. /\ run'[t] = "check" /\ todo'[t] = todo[t] \ {posting[t]}
        /\ \A u \in Requests \ {t} : run'[u] = run[u]
        /\ todo[t] \subseteq Jobs
    BY <2>2 DEF TypeOK
  <2>4. \A j \in todo'[t] : score'[j] = NoScore
    BY <2>1, <2>2, <2>3 DEF Insertable, Looping, TypeOK
  <2>5. \A u \in Requests \ {t} : run'[u] \in {"none", "ended"}
    BY <2>1, <2>3, <1>0 DEF Alive
  <2> QED
    BY <2>3, <2>4, <2>5 DEF OneRun, Alive, Awaited, Insertable, Looping
<1>8. CASE ClearProgress(t)
  BY <1>8, Quiet DEF ClearProgress, RunTo, Scoring, TypeOK, work
<1>9. CASE Announce(t)
  <2>1. /\ run[t] = "announce" /\ run' = [run EXCEPT ![t] = "check"]
        /\ todo' = todo /\ posting' = posting /\ score' = score
    BY <1>9 DEF Announce, RunTo, work
  <2>2. run'[t] = "check" /\ \A u \in Requests \ {t} : run'[u] = run[u]
    BY <2>1 DEF TypeOK
  <2>3. \A u \in Requests \ {t} : run'[u] \in {"none", "ended"}
    BY <2>1, <2>2, <1>0 DEF Alive
  <2>4. \A j \in todo[t] : score[j] = NoScore
    BY <2>1 DEF Insertable, Looping
  <2> QED
    BY <2>1, <2>2, <2>3, <2>4 DEF OneRun, Alive, Awaited, Insertable, Looping
<1> QED
  BY <1>1, <1>2, <1>3, <1>4, <1>5, <1>6, <1>7, <1>8, <1>9 DEF RunStep

LEMMA OtherInv ==
  ASSUME UseArq, Inv,
         \/ \E r \in Requests, o \in Ops : Arrive(r, o)
         \/ \E r \in Requests : EnqueueFails(r) \/ BatchUnanswered(r) \/ RunFails(r)
                                \/ AnnounceFails(r) \/ ClearFails(r) \/ ResultExpires(r)
         \/ SetCancelled \/ FlagExpires \/ ProgressExpires \/ WorkerRestart \/ ServerRestart
  PROVE  OneRun' /\ Awaited' /\ Insertable'
<1>. USE DEF Inv
<1>1. ASSUME NEW r \in Requests, NEW o \in Ops, Arrive(r, o)
      PROVE  OneRun' /\ Awaited' /\ Insertable'
  BY <1>1, Quiet DEF Arrive, work
<1>2. ASSUME NEW r \in Requests, EnqueueFails(r)
      PROVE  OneRun' /\ Awaited' /\ Insertable'
  BY <1>2, Quiet DEF EnqueueFails, work
<1>3. ASSUME NEW r \in Requests, BatchUnanswered(r)
      PROVE  OneRun' /\ Awaited' /\ Insertable'
  <2>1. /\ run[r] = "score" /\ run' = [run EXCEPT ![r] = "check"] /\ score' = score
        /\ todo' = [todo EXCEPT ![r] = todo[r] \ {posting[r]}] /\ posting' = posting
    BY <1>3, Zenon DEF BatchUnanswered, Remaining, RunTo
  <2>2. \A u \in Requests : /\ run'[u] \in {"none", "ended"} <=> run[u] \in {"none", "ended"}
                            /\ Looping(u)' <=> Looping(u)
                            /\ todo'[u] \subseteq todo[u]
                            /\ run'[u] = "score" => (run[u] = "score" /\ todo'[u] = todo[u])
    BY <2>1 DEF TypeOK, Looping
  <2> QED
    BY <2>1, <2>2 DEF OneRun, Alive, Awaited, Insertable
<1>4. ASSUME NEW r \in Requests, RunFails(r)
      PROVE  OneRun' /\ Awaited' /\ Insertable'
  BY <1>4, Quiet DEF RunFails, RunTo, Scoring, TypeOK, work
<1>5. ASSUME NEW r \in Requests, ResultExpires(r)
      PROVE  OneRun' /\ Awaited' /\ Insertable'
  BY <1>5, Quiet DEF ResultExpires, work
<1>6. CASE SetCancelled
  BY <1>6, Quiet DEF SetCancelled, work
<1>7. CASE FlagExpires
  BY <1>7, Quiet DEF FlagExpires, work
<1>8. CASE WorkerRestart
  BY <1>8, Quiet DEF WorkerRestart, Alive, Scoring, TypeOK, work
<1>9. CASE ServerRestart
  BY <1>9, Quiet DEF ServerRestart, work
<1>10. ASSUME NEW r \in Requests, AnnounceFails(r) \/ ClearFails(r)
       PROVE  OneRun' /\ Awaited' /\ Insertable'
  BY <1>10, Quiet DEF AnnounceFails, ClearFails, RunTo, Scoring, TypeOK, work
<1>11. CASE ProgressExpires
  BY <1>11, Quiet DEF ProgressExpires, work
<1> QED
  BY <1>1, <1>2, <1>3, <1>4, <1>5, <1>6, <1>7, <1>8, <1>9, <1>10, <1>11

LEMMA Invariance ==
  ASSUME UseArq
  PROVE  Spec => []Inv
<1>1. Init => Inv
  BY InitType DEF Init, Inv, OneRun, Alive, Awaited, Insertable, Looping
<1>2. Inv /\ [Next]_vars => Inv'
  <2>. SUFFICES ASSUME Inv, [Next]_vars PROVE Inv'
    OBVIOUS
  <2>1. CASE UNCHANGED vars
    BY <2>1 DEF vars, Inv, TypeOK, OneRun, Alive, Awaited, Insertable, Looping
  <2>2. CASE Next
    <3>1. OneRun' /\ Awaited' /\ Insertable'
      BY <2>2, RequestInv, RunInv, OtherInv DEF Next
    <3> QED
      BY <3>1, NextType DEF Inv
  <2> QED
    BY <2>1, <2>2
<1> QED
  BY <1>1, <1>2, PTL DEF Spec

(* With the arq worker no scoring run of a user dies on the primary key of  *)
(* user_job_relevance, whatever requests, rescores, cancellations, restarts *)
(* and failures come in between.                                           *)
THEOREM InsertsAlwaysSucceed ==
  ASSUME UseArq
  PROVE  Spec => []InsertsSucceed
<1>1. Inv => InsertsSucceed
  BY DEF Inv, Awaited, Insertable, Looping, InsertsSucceed
<1> QED
  BY <1>1, Invariance, PTL

-----------------------------------------------------------------------------
(* Whose the progress is.                                                  *)

(* Requests write neither the progress nor, but for one, the runs.         *)
LEMMA RequestLeaves ==
  ASSUME NEW r \in Requests, RequestStep(r)
  PROVE  progress' = progress /\ (Enqueue(r) \/ run' = run)
<1>1. CASE SavePreferences(r)
  BY <1>1, Zenon DEF SavePreferences
<1>2. CASE Discover(r)
  BY <1>2, Zenon DEF Discover
<1>3. CASE CancelScoring(r)
  BY <1>3, Zenon DEF CancelScoring
<1>4. CASE Enqueue(r)
  BY <1>4, Zenon DEF Enqueue
<1>5. CASE CommitUpload(r)
  BY <1>5, Zenon DEF CommitUpload
<1>6. CASE RescoreRead(r)
  BY <1>6, Zenon DEF RescoreRead
<1>7. CASE RescoreRows(r)
  BY <1>7, Zenon DEF RescoreRows
<1>8. CASE RescoreWrite(r)
  BY <1>8, Zenon DEF RescoreWrite
<1>9. CASE DeleteAccount(r)
  BY <1>9, Zenon DEF DeleteAccount
<1> QED
  BY <1>1, <1>2, <1>3, <1>4, <1>5, <1>6, <1>7, <1>8, <1>9 DEF RequestStep

LEMMA RequestGoes ==
  ASSUME TypeOK, NEW r \in Requests, RequestStep(r)
  PROVE  /\ \A t \in Requests \ {r} : pc'[t] = pc[t]
         /\ pc[r] \in {"save", "cancel", "enqueue"} \/ pc'[r] \in {"rows", "write", "done"}
<1>. pc \in [Requests -> PCs]
  BY DEF TypeOK
<1>1. CASE SavePreferences(r)
  BY <1>1 DEF SavePreferences, Goto
<1>2. CASE Discover(r)
  BY <1>2 DEF Discover, Goto
<1>3. CASE CancelScoring(r)
  BY <1>3 DEF CancelScoring, Goto
<1>4. CASE Enqueue(r)
  BY <1>4 DEF Enqueue, Goto
<1>5. CASE CommitUpload(r)
  BY <1>5 DEF CommitUpload, Goto
<1>6. CASE RescoreRead(r)
  BY <1>6 DEF RescoreRead, Goto
<1>7. CASE RescoreRows(r)
  BY <1>7 DEF RescoreRows, Goto
<1>8. CASE RescoreWrite(r)
  BY <1>8 DEF RescoreWrite, Goto
<1>9. CASE DeleteAccount(r)
  BY <1>9 DEF DeleteAccount, Goto
<1> QED
  BY <1>1, <1>2, <1>3, <1>4, <1>5, <1>6, <1>7, <1>8, <1>9 DEF RequestStep

LEMMA RequestOwned ==
  ASSUME ~UseArq, OwnInv, NEW r \in Requests, RequestStep(r)
  PROVE  Unstarted' /\ Owned'
<1>. USE DEF OwnInv
<1>1. CASE Enqueue(r)
  <2>1. run[r] = "none" /\ r \notin Busy
    BY <1>1 DEF Enqueue, Unstarted, Busy
  <2>2. pc'[r] \in {"commit", "done"} /\ \A t \in Requests \ {r} : pc'[t] = pc[t]
    BY <1>1 DEF Enqueue, AfterEnqueue, Goto, TypeOK
  <2>3. \A t \in Requests \ {r} : run'[t] = run[t]
    BY <1>1 DEF Enqueue, RunTo, TypeOK
  <2> QED
    BY <2>1, <2>2, <2>3, RequestLeaves DEF Unstarted, Owned, Busy
<1>2. CASE ~Enqueue(r)
  BY <1>2, RequestLeaves, RequestGoes DEF Unstarted, Owned, Busy
<1> QED
  BY <1>1, <1>2

(* A run that was never started does not move; one that moves into the loop *)
(* owns the progress, one that leaves it clears it.                        *)
LEMMA Moves ==
  ASSUME OwnInv, NEW t \in Requests, NEW place, RunTo(t, place), pc' = pc, run[t] # "none",
         \/ place \in {"check", "score", "clear"}
         \/ t \notin Busy /\ progress' = progress
         \/ progress' = FALSE
  PROVE  Unstarted' /\ Owned'
<1>. USE DEF OwnInv
<1>1. run \in [Requests -> Runs]
  BY DEF TypeOK
<1>2. run'[t] = place /\ \A u \in Requests \ {t} : run'[u] = run[u]
  BY <1>1 DEF RunTo
<1>3. Unstarted'
  BY <1>2 DEF Unstarted
<1>4. CASE place \in {"check", "score", "clear"}
  BY <1>2, <1>3, <1>4 DEF Owned, Busy
<1>5. CASE t \notin Busy /\ progress' = progress
  BY <1>2, <1>3, <1>5 DEF Owned, Busy
<1>6. CASE progress' = FALSE
  BY <1>3, <1>6 DEF Owned
<1> QED
  BY <1>4, <1>5, <1>6

LEMMA RunOwned ==
  ASSUME ~UseArq, OwnInv, NEW t \in Requests, RunStep(t) \/ BatchUnanswered(t) \/ RunFails(t)
  PROVE  Unstarted' /\ Owned'
<1>1. CASE Dequeue(t)
  BY <1>1, Moves DEF Dequeue, Busy
<1>2. CASE DeleteScores(t)
  BY <1>2, Moves DEF DeleteScores, Busy
<1>3. CASE Begin(t)
  <2>1. /\ run[t] = "begin" /\ pc' = pc /\ progress' = progress
        /\ RunTo(t, "list") \/ RunTo(t, "ended")
    BY <1>3, Zenon DEF Begin
  <2> QED
    BY <2>1, Moves DEF Busy
<1>4. CASE ListJobs(t)
  <2>1. /\ run[t] = "list" /\ pc' = pc /\ progress' = progress
        /\ RunTo(t, "announce") \/ RunTo(t, "ended")
    BY <1>4, Zenon DEF ListJobs
  <2>2. t \notin Busy /\ run[t] # "none"
    BY <2>1 DEF Busy
  <2> QED
    BY <2>1, <2>2, Moves
<1>5. CASE CheckCancelled(t)
  <2>1. run[t] = "check" /\ pc' = pc /\ (RunTo(t, "clear") \/ RunTo(t, "score"))
    BY <1>5, Zenon DEF CheckCancelled
  <2> QED
    BY <2>1, Moves
<1>6. CASE Complete(t)
  BY <1>6, Moves DEF Complete
<1>7. CASE ClassifyBatch(t)
  <2>1. run[t] = "score" /\ pc' = pc /\ (RunTo(t, "clear") \/ RunTo(t, "check"))
    BY <1>7, Zenon DEF ClassifyBatch
  <2> QED
    BY <2>1, Moves
<1>8. CASE ClearProgress(t)
  <2>1. run[t] = "clear" /\ pc' = pc /\ RunTo(t, "ended") /\ progress' = FALSE
    BY <1>8, Zenon DEF ClearProgress, ClearedProgress
  <2> QED
    BY <2>1, Moves
<1>9. CASE BatchUnanswered(t)
  <2>1. run[t] = "score" /\ pc' = pc /\ RunTo(t, "check")
    BY <1>9, Zenon DEF BatchUnanswered
  <2> QED
    BY <2>1, Moves
<1>10. CASE RunFails(t)
  BY <1>10, Moves DEF RunFails, Busy
<1>11. CASE Announce(t)
  BY <1>11, Moves DEF Announce
<1> QED
  BY <1>1, <1>2, <1>3, <1>4, <1>5, <1>6, <1>7, <1>8, <1>9, <1>10, <1>11 DEF RunStep

(* A restart of the server loses the runs in it and their progress alike.  *)
LEMMA OtherOwned ==
  ASSUME ~UseArq, OwnInv,
         \/ \E r \in Requests, o \in Ops : Arrive(r, o)
         \/ \E r \in Requests : EnqueueFails(r) \/ ResultExpires(r)
         \/ SetCancelled \/ FlagExpires \/ ServerRestart
  PROVE  Unstarted' /\ Owned'
<1>. USE DEF OwnInv
<1>1. ASSUME NEW r \in Requests, NEW o \in Ops, Arrive(r, o) PROVE Unstarted' /\ Owned'
  BY <1>1 DEF Arrive, FirstStep, Goto, TypeOK, Unstarted, Owned, Busy
<1>2. ASSUME NEW r \in Requests, EnqueueFails(r) PROVE Unstarted' /\ Owned'
  BY <1>2 DEF EnqueueFails, AfterEnqueue, Goto, TypeOK, Unstarted, Owned, Busy
<1>3. ASSUME NEW r \in Requests, ResultExpires(r) PROVE Unstarted' /\ Owned'
  BY <1>3 DEF ResultExpires, Unstarted, Owned, Busy
<1>4. CASE SetCancelled
  BY <1>4 DEF SetCancelled, Unstarted, Owned, Busy
<1>5. CASE FlagExpires
  BY <1>5 DEF FlagExpires, Unstarted, Owned, Busy
<1>8. CASE ServerRestart
  <2>1. pc' = [r \in Requests |-> IF pc[r] = "idle" \/ InWorker(r) THEN pc[r] ELSE "done"]
    BY <1>8, Zenon DEF ServerRestart
  <2>2. /\ progress' = FALSE
        /\ run' = [t \in Requests |-> IF t \in Alive THEN "ended" ELSE run[t]]
    BY <1>8, Zenon DEF ServerRestart
  <2>3. Unstarted'
    BY <2>1, <2>2 DEF Unstarted, Alive, InWorker
  <2> QED
    BY <2>2, <2>3 DEF Owned
<1> QED
  BY <1>1, <1>2, <1>3, <1>4, <1>5, <1>8

(* In the server process the progress that clients poll is always that of a *)
(* run that has yet to clear it: no run, however it ends, leaves a client   *)
(* waiting, though several may be on at once and clear each other's.        *)
THEOREM ServerProgressOwned ==
  ASSUME ~UseArq
  PROVE  Spec => []ProgressHasRun
<1>1. Init => OwnInv
  BY InitType DEF Init, OwnInv, Unstarted, Owned, Busy
<1>2. OwnInv /\ [Next]_vars => OwnInv'
  <2>. SUFFICES ASSUME OwnInv, [Next]_vars PROVE OwnInv'
    OBVIOUS
  <2>1. TypeOK'
    BY NextType DEF OwnInv
  <2>2. CASE UNCHANGED vars
    BY <2>1, <2>2 DEF vars, OwnInv, Unstarted, Owned, Busy
  <2>3. CASE Next
    <3>1. ~(\E t \in Requests : AnnounceFails(t) \/ ClearFails(t)) /\ ~ProgressExpires /\ ~WorkerRestart
      BY DEF AnnounceFails, ClearFails, ProgressExpires, WorkerRestart
    <3> QED
      BY <2>1, <2>3, <3>1, RequestOwned, RunOwned, OtherOwned DEF Next, OwnInv
  <2> QED
    BY <2>2, <2>3
<1>3. OwnInv => ProgressHasRun
  BY DEF OwnInv, Owned, Busy, Alive, ProgressHasRun
<1> QED
  BY <1>1, <1>2, <1>3, PTL DEF Spec

=============================================================================
