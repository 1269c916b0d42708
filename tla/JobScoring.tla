------------------------------ MODULE JobScoring ------------------------------
(***************************************************************************)
(* How the job postings of one user are scored against the user's          *)
(* preferences (job_relevance_service.py): the requests that change the    *)
(* preferences (actions.set_job_preferences), the upload of a profile that *)
(* changes the suggested roles (file_upload_import_service.py), the scrape *)
(* that discovers postings (worker.scrape_org_jobs), and the scoring runs  *)
(* they start, in the server process or as jobs of the arq worker.         *)
(*                                                                         *)
(* A posting has a score for the role text, made by a language model, and  *)
(* is ranked by a formula of that score and the other preferences.  Both   *)
(* are represented by the version of the preferences they were made from.  *)
(* A request names the scoring run it starts; a batch is one posting.      *)
(***************************************************************************)
EXTENDS Naturals

CONSTANTS
  Jobs,        \* postings that may be discovered
  Requests,    \* requests, uploads and scrapes, each handled once
  Ops,         \* what they may be: "role", "formula", "upload", "scrape", "delete"
  UseArq,      \* use_arq_worker
  Overlap,     \* whether a request may come while another, or a run, is on
  Failures,    \* whether model and database calls may fail
  MaxRestarts, \* bound on restarts of the process that scores
  NoScore

ASSUME JobScoringAssumption ==
  /\ Jobs # {}
  /\ Ops \subseteq {"role", "formula", "upload", "scrape", "delete"}
  /\ UseArq \in BOOLEAN
  /\ Overlap \in BOOLEAN
  /\ Failures \in BOOLEAN
  /\ MaxRestarts \in Nat
  /\ NoScore \notin [role : Nat, formula : Nat]

VARIABLES
  prefs,    \* the user row: a version of the role text, one of the formula
  basis,    \* what it gives to score by: a text, a profile, nothing, or it is gone
  active,   \* the postings found and active
  score,    \* user_job_relevance: per posting, the preferences it was scored by
  op, pc,   \* per request: what it is and where it is
  run,      \* per request: where the scoring run it started is
  snap,     \* per request: the preferences its run, or its rescore, has read
  seen,     \* per request: the rows its rescore has read
  todo,     \* per run: the postings it listed and has still to score
  posting,  \* per run: the posting whose score it waits for
  memory,   \* whether the user is in _scoring_cancelled of the server process
  flag,     \* the key scoring_cancelled in Redis
  setting,  \* the detached tasks that have yet to set that key
  results,  \* the runs whose arq result is still kept
  progress, \* whether the scoring progress of the user is set
  told,     \* history: the runs that were scoring when cancel_scoring was called
  restarts

vars == <<prefs, basis, active, score, op, pc, run, snap, seen, todo, posting, memory,
          flag, setting, results, progress, told, restarts>>

Prefs == [role : Nat, formula : Nat]
PCs == {"idle", "save", "cancel", "enqueue", "commit", "read", "rows", "write", "done"}
Scoring == {"list", "check", "score"}
Runs == {"none", "queued", "delete", "begin", "announce", "clear", "ended"} \union Scoring
Bases == {"gone", "nothing", "text", "profile"}

TypeOK ==
  /\ prefs \in Prefs
  /\ basis \in Bases
  /\ active \subseteq Jobs
  /\ score \in [Jobs -> Prefs \union {NoScore}]
  /\ op \in [Requests -> Ops \union {"none"}]
  /\ pc \in [Requests -> PCs]
  /\ run \in [Requests -> Runs]
  /\ snap \in [Requests -> Prefs]
  /\ seen \in [Requests -> [Jobs -> Prefs \union {NoScore}]]
  /\ todo \in [Requests -> SUBSET Jobs]
  /\ posting \in [Requests -> Jobs]
  /\ memory \in BOOLEAN /\ flag \in BOOLEAN /\ progress \in BOOLEAN
  /\ setting \in Nat
  /\ results \subseteq Requests /\ told \subseteq Requests
  /\ restarts \in 0..MaxRestarts

Unscored == [j \in Jobs |-> NoScore]
First == [role |-> 0, formula |-> 0]

(* classify_jobs_for_user goes on with a role text or a person only.        *)
Scorable == basis \in {"text", "profile"}

(* The postings found so far are scored by the preferences as they are, if  *)
(* there is something to score by.                                         *)
Init ==
  /\ prefs = First
  /\ basis \in Bases \ {"gone"}
  /\ active \in SUBSET Jobs
  /\ score = [j \in Jobs |-> IF j \in active /\ Scorable THEN First ELSE NoScore]
  /\ op = [r \in Requests |-> "none"]
  /\ pc = [r \in Requests |-> "idle"]
  /\ run = [r \in Requests |-> "none"]
  /\ snap = [r \in Requests |-> First]
  /\ seen = [r \in Requests |-> Unscored]
  /\ todo = [r \in Requests |-> {}]
  /\ posting = [r \in Requests |-> CHOOSE j \in Jobs : TRUE]
  /\ memory = FALSE /\ flag = FALSE /\ progress = FALSE
  /\ setting = 0
  /\ results = {} /\ told = {}
  /\ restarts = 0

Goto(r, place) == pc' = [pc EXCEPT ![r] = place]
RunTo(t, place) == run' = [run EXCEPT ![t] = place]

work == <<snap, seen, todo, posting>>
cancel == <<memory, flag, setting, told>>

-----------------------------------------------------------------------------
(* Requests.                                                               *)

AtRest ==
  /\ setting = 0
  /\ \A r \in Requests : pc[r] \in {"idle", "done"} /\ run[r] \in {"none", "ended"}

FirstStep(o) == IF o = "upload" THEN "cancel" ELSE "save"

Arrive(r, o) ==
  /\ pc[r] = "idle"
  /\ Overlap \/ AtRest
  /\ op' = [op EXCEPT ![r] = o]
  /\ Goto(r, FirstStep(o))
  /\ UNCHANGED <<prefs, basis, active, score, run, work, cancel, results, progress, restarts>>

(* The role text may be emptied: with a profile there is still something to *)
(* score by.                                                               *)
NewText ==
  /\ basis # "profile" => basis' \in {"text", "nothing"} /\ "text" \in {basis, basis'}
  /\ basis = "profile" => UNCHANGED basis

(* set_job_preferences commits the new preferences before it decides what   *)
(* is to be rescored.                                                      *)
SavePreferences(r) ==
  /\ pc[r] = "save"
  /\ op[r] \in {"role", "formula"}
  /\ \/ /\ basis = "gone"
        /\ Goto(r, "done")
        /\ UNCHANGED <<prefs, basis>>
     \/ /\ basis # "gone" /\ op[r] = "role"
        /\ prefs' = [prefs EXCEPT !.role = @ + 1]
        /\ NewText
        /\ Goto(r, "cancel")
     \/ /\ basis # "gone" /\ op[r] = "formula"
        /\ prefs' = [prefs EXCEPT !.formula = @ + 1]
        /\ Goto(r, "read")
        /\ UNCHANGED basis
  /\ UNCHANGED <<active, score, op, run, work, cancel, results, progress, restarts>>

(* delete_user_account: the scores go with the user row. *)
DeleteAccount(r) ==
  /\ pc[r] = "save"
  /\ op[r] = "delete"
  /\ basis' = "gone"
  /\ score' = Unscored
  /\ Goto(r, "done")
  /\ UNCHANGED <<prefs, active, op, run, work, cancel, results, progress, restarts>>

(* A scrape commits the posting it discovers, or finds nothing new. *)
Discover(r) ==
  /\ pc[r] = "save"
  /\ op[r] = "scrape"
  /\ \/ /\ \E j \in Jobs \ active : active' = active \union {j}
        /\ Goto(r, "enqueue")
     \/ /\ Goto(r, "done")
        /\ UNCHANGED active
  /\ UNCHANGED <<prefs, basis, score, op, run, work, cancel, results, progress, restarts>>

(* cancel_scoring: the set at once, the key by a task of its own. *)
CancelScoring(r) ==
  /\ pc[r] = "cancel"
  /\ memory' = TRUE
  /\ setting' = IF UseArq THEN setting + 1 ELSE setting
  /\ told' = told \union {t \in Requests : run[t] \in Scoring}
  /\ Goto(r, "enqueue")
  /\ UNCHANGED <<prefs, basis, active, score, op, run, work, flag, results, progress, restarts>>

SetCancelled ==
  /\ setting > 0
  /\ setting' = setting - 1
  /\ \/ flag' = TRUE
     \/ Failures /\ UNCHANGED flag
  /\ UNCHANGED <<prefs, basis, active, score, op, pc, run, work, memory, told, results, progress, restarts>>

(* A plausible slip: the job is enqueued without its _job_id. *)
NeverTaken == FALSE
(* arq ignores a job whose id is queued, running, or has a result. *)
JobIdTaken ==
  UseArq /\ \E t \in Requests : run[t] \notin {"none", "ended"} \/ t \in results

AfterEnqueue(r) == IF op[r] = "upload" THEN "commit" ELSE "done"
FirstRun(r) == IF op[r] = "scrape" THEN "begin" ELSE "delete"

(* enqueue_background_job, or a task of the server process. *)
Enqueue(r) ==
  /\ pc[r] = "enqueue"
  /\ Goto(r, AfterEnqueue(r))
  /\ IF JobIdTaken THEN UNCHANGED run
     ELSE RunTo(r, IF UseArq THEN "queued" ELSE FirstRun(r))
  /\ UNCHANGED <<prefs, basis, active, score, op, work, cancel, results, progress, restarts>>

(* An error of Redis is logged and forgotten. *)
EnqueueFails(r) ==
  /\ Failures /\ UseArq
  /\ pc[r] = "enqueue"
  /\ Goto(r, AfterEnqueue(r))
  /\ UNCHANGED <<prefs, basis, active, score, op, run, work, cancel, results, progress, restarts>>

(* The task of the upload commits the person and the suggested roles at its *)
(* very end; without the user there is nothing to commit.                  *)
CommitUpload(r) ==
  /\ pc[r] = "commit"
  /\ IF basis = "gone" THEN UNCHANGED <<prefs, basis>>
     ELSE prefs' = [prefs EXCEPT !.role = @ + 1] /\ basis' = "profile"
  /\ Goto(r, "done")
  /\ UNCHANGED <<active, score, op, run, work, cancel, results, progress, restarts>>

(* rescore_existing_matches reads the user, then the rows. *)
RescoreRead(r) ==
  /\ pc[r] = "read"
  /\ snap' = [snap EXCEPT ![r] = prefs]
  /\ Goto(r, IF basis = "gone" THEN "done" ELSE "rows")
  /\ UNCHANGED <<prefs, basis, active, score, op, run, seen, todo, posting, cancel, results,
                 progress, restarts>>

RescoreRows(r) ==
  /\ pc[r] = "rows"
  /\ seen' = [seen EXCEPT ![r] = score]
  /\ Goto(r, "write")
  /\ UNCHANGED <<prefs, basis, active, score, op, run, snap, todo, posting, cancel, results,
                 progress, restarts>>

(* Plausible slips: the rescore keeps the formula it found; it leaves only  *)
(* the score for the role.                                                 *)
RescoredNot(r, j) == seen[r][j]
RescoredRole(r, j) == [role |-> seen[r][j].role]
Rescored(r, j) == [role |-> seen[r][j].role, formula |-> snap[r].formula]

(* A row deleted since it was read is skipped, or fails the whole update,   *)
(* as the driver reports the counts of updated rows or not.                *)
RescoreWrite(r) ==
  /\ pc[r] = "write"
  /\ LET read == {j \in Jobs : seen[r][j] # NoScore}
         here == {j \in read : score[j] # NoScore}
         updated == [j \in Jobs |-> IF j \in here THEN Rescored(r, j) ELSE score[j]]
     IN  \/ score' = updated
         \/ here # read /\ UNCHANGED score
  /\ Goto(r, "done")
  /\ UNCHANGED <<prefs, basis, active, op, run, work, cancel, results, progress, restarts>>

-----------------------------------------------------------------------------
(* Scoring runs.                                                           *)

(* The worker takes the job from the queue. *)
Dequeue(t) ==
  /\ run[t] = "queued"
  /\ RunTo(t, FirstRun(t))
  /\ UNCHANGED <<prefs, basis, active, score, op, pc, work, cancel, results, progress, restarts>>

(* A plausible slip: the old scores are not deleted. *)
DeletedNone == score
Deleted == Unscored

(* reclassify_all *)
DeleteScores(t) ==
  /\ run[t] = "delete"
  /\ score' = Deleted
  /\ RunTo(t, "begin")
  /\ UNCHANGED <<prefs, basis, active, op, pc, work, cancel, results, progress, restarts>>

(* A plausible slip: the cancellation is not discarded. *)
KeptMemory == memory
(* The set of the process that scores: the server's set, if it is not the   *)
(* worker's.                                                               *)
DiscardedMemory == UseArq /\ memory

Kept(t) == results' = IF UseArq THEN results \union {t} ELSE results

(* classify_jobs_for_user reads the user, and is done when it is gone or    *)
(* gives nothing to score by ...                                           *)
Begin(t) ==
  /\ run[t] = "begin"
  /\ memory' = DiscardedMemory
  /\ \/ /\ Scorable
        /\ snap' = [snap EXCEPT ![t] = prefs]
        /\ RunTo(t, "list")
        /\ UNCHANGED results
     \/ /\ ~Scorable
        /\ RunTo(t, "ended") /\ Kept(t)
        /\ UNCHANGED snap
  /\ UNCHANGED <<prefs, basis, active, score, op, pc, seen, todo, posting, flag, setting,
                 told, progress, restarts>>

(* ... and lists the postings without a score; with none there is nothing   *)
(* to clear.                                                               *)
ListJobs(t) ==
  /\ run[t] = "list"
  /\ LET unclassified == {j \in active : score[j] = NoScore} IN
     IF unclassified = {}
     THEN RunTo(t, "ended") /\ Kept(t) /\ UNCHANGED todo
     ELSE /\ todo' = [todo EXCEPT ![t] = unclassified]
          /\ RunTo(t, "announce")
          /\ UNCHANGED results
  /\ UNCHANGED <<prefs, basis, active, score, op, pc, snap, seen, posting, cancel, progress,
                 restarts>>

(* The progress is set before the try whose finally clears it. *)
Announce(t) ==
  /\ run[t] = "announce"
  /\ progress' = TRUE
  /\ RunTo(t, "check")
  /\ UNCHANGED <<prefs, basis, active, score, op, pc, work, cancel, results, restarts>>

(* The call of Redis fails, or the job is cut off at it: the progress may   *)
(* have been set, and nothing clears it.                                   *)
AnnounceFails(t) ==
  /\ Failures /\ UseArq
  /\ run[t] = "announce"
  /\ progress' \in {progress, TRUE}
  /\ RunTo(t, "ended") /\ Kept(t)
  /\ UNCHANGED <<prefs, basis, active, score, op, pc, work, cancel, restarts>>

Cancelled == IF UseArq THEN flag ELSE memory

(* The head of the loop over the batches. *)
CheckCancelled(t) ==
  /\ run[t] = "check"
  /\ todo[t] # {}
  /\ IF Cancelled
     THEN memory' = DiscardedMemory /\ RunTo(t, "clear") /\ UNCHANGED posting
     ELSE /\ \E j \in todo[t] : posting' = [posting EXCEPT ![t] = j]
          /\ RunTo(t, "score")
          /\ UNCHANGED memory
  /\ UNCHANGED <<prefs, basis, active, score, op, pc, snap, seen, todo, flag, setting, told,
                 results, progress, restarts>>

Complete(t) ==
  /\ run[t] = "check"
  /\ todo[t] = {}
  /\ RunTo(t, "clear")
  /\ UNCHANGED <<prefs, basis, active, score, op, pc, work, cancel, results, progress, restarts>>

Remaining(t) == todo[t] \ {posting[t]}

(* The model's answer is stored; a row that exists already, or a user that  *)
(* is gone, is an IntegrityError, which ends the run.                      *)
ClassifyBatch(t) ==
  /\ run[t] = "score"
  /\ \/ /\ score[posting[t]] = NoScore /\ basis # "gone"
        /\ score' = [score EXCEPT ![posting[t]] = snap[t]]
        /\ todo' = [todo EXCEPT ![t] = Remaining(t)]
        /\ progress' = TRUE
        /\ RunTo(t, "check")
     \/ /\ score[posting[t]] # NoScore \/ basis = "gone"
        /\ RunTo(t, "clear")
        /\ UNCHANGED <<score, todo, progress>>
  /\ UNCHANGED <<prefs, basis, active, op, pc, snap, seen, posting, cancel, results, restarts>>

(* _call_openai answers with nothing: the batch is left unscored. *)
BatchUnanswered(t) ==
  /\ Failures
  /\ run[t] = "score"
  /\ todo' = [todo EXCEPT ![t] = Remaining(t)]
  /\ progress' = TRUE
  /\ RunTo(t, "check")
  /\ UNCHANGED <<prefs, basis, active, score, op, pc, snap, seen, posting, cancel, results, restarts>>

(* An error of the database, or arq's job timeout: only the loop clears the *)
(* progress.                                                               *)
RunFails(t) ==
  /\ Failures
  /\ \/ run[t] \in {"delete", "begin", "list"} /\ RunTo(t, "ended") /\ Kept(t)
     \/ run[t] \in {"check", "score"} /\ RunTo(t, "clear") /\ UNCHANGED results
  /\ UNCHANGED <<prefs, basis, active, score, op, pc, work, cancel, progress, restarts>>

(* A plausible slip: the progress is left. *)
ProgressLeft == progress
ClearedProgress == FALSE

(* _clear_progress, in the finally of the run, deletes two keys of Redis    *)
(* one after the other, and may fail at either.                            *)
ClearProgress(t) ==
  /\ run[t] = "clear"
  /\ progress' = ClearedProgress
  /\ flag' = (flag /\ ~UseArq)
  /\ RunTo(t, "ended")
  /\ Kept(t)
  /\ UNCHANGED <<prefs, basis, active, score, op, pc, work, memory, setting, told, restarts>>

ClearFails(t) ==
  /\ Failures /\ UseArq
  /\ run[t] = "clear"
  /\ progress' \in {progress, ClearedProgress}
  /\ RunTo(t, "ended")
  /\ Kept(t)
  /\ UNCHANGED <<prefs, basis, active, score, op, pc, work, cancel, restarts>>

-----------------------------------------------------------------------------
(* Redis forgets; processes restart.                                       *)

ProgressExpires ==
  /\ UseArq /\ progress
  /\ progress' = FALSE
  /\ UNCHANGED <<prefs, basis, active, score, op, pc, run, work, cancel, results, restarts>>

FlagExpires ==
  /\ flag
  /\ flag' = FALSE
  /\ UNCHANGED <<prefs, basis, active, score, op, pc, run, work, memory, setting, told,
                 results, progress, restarts>>

ResultExpires(t) ==
  /\ t \in results
  /\ results' = results \ {t}
  /\ UNCHANGED <<prefs, basis, active, score, op, pc, run, work, cancel, progress, restarts>>

Alive == {t \in Requests : run[t] \notin {"none", "ended"}}

InWorker(r) == UseArq /\ op[r] = "scrape"

(* arq runs the jobs of a dead worker again; a scrape that has committed    *)
(* then finds nothing new, and enqueues nothing.                           *)
WorkerRestart ==
  /\ UseArq
  /\ restarts < MaxRestarts
  /\ restarts' = restarts + 1
  /\ run' = [t \in Requests |-> IF t \in Alive THEN "queued" ELSE run[t]]
  /\ pc' = [r \in Requests |->
              IF op[r] = "scrape" /\ pc[r] = "enqueue" THEN "done" ELSE pc[r]]
  /\ UNCHANGED <<prefs, basis, active, score, op, work, cancel, results, progress>>

(* What the server had not finished is lost, runs in the process included. *)
ServerRestart ==
  /\ restarts < MaxRestarts
  /\ restarts' = restarts + 1
  /\ pc' = [r \in Requests |-> IF pc[r] = "idle" \/ InWorker(r) THEN pc[r] ELSE "done"]
  /\ memory' = FALSE
  /\ setting' = 0
  /\ IF UseArq THEN UNCHANGED <<run, progress>>
     ELSE /\ run' = [t \in Requests |-> IF t \in Alive THEN "ended" ELSE run[t]]
          /\ progress' = FALSE
  /\ UNCHANGED <<prefs, basis, active, score, op, work, flag, told, results>>

-----------------------------------------------------------------------------
RequestStep(r) ==
  \/ SavePreferences(r) \/ DeleteAccount(r) \/ Discover(r) \/ CancelScoring(r) \/ Enqueue(r)
  \/ CommitUpload(r) \/ RescoreRead(r) \/ RescoreRows(r) \/ RescoreWrite(r)

RunStep(t) ==
  \/ Dequeue(t) \/ DeleteScores(t) \/ Begin(t) \/ ListJobs(t) \/ Announce(t) \/ CheckCancelled(t)
  \/ Complete(t) \/ ClassifyBatch(t) \/ ClearProgress(t)

Next ==
  \/ \E r \in Requests, o \in Ops : Arrive(r, o)
  \/ \E r \in Requests : RequestStep(r) \/ EnqueueFails(r)
  \/ \E t \in Requests : RunStep(t) \/ ResultExpires(t)
  \/ \E t \in Requests : BatchUnanswered(t) \/ RunFails(t) \/ AnnounceFails(t) \/ ClearFails(t)
  \/ SetCancelled \/ FlagExpires \/ ProgressExpires
  \/ WorkerRestart \/ ServerRestart

Spec == Init /\ [][Next]_vars

(* Every process goes on with what it has begun; nothing need arrive, fail, *)
(* restart or expire.                                                      *)
Fairness ==
  /\ \A r \in Requests : WF_vars(RequestStep(r)) /\ WF_vars(RunStep(r))
  /\ WF_vars(SetCancelled)

FairSpec == Spec /\ Fairness

-----------------------------------------------------------------------------
(* Properties.                                                             *)

(* As long as arq runs one scoring job of a user at a time, the rows a run  *)
(* has yet to insert do not exist, in whatever order requests, rescores and *)
(* restarts come: no run dies on the primary key.                          *)
InsertsSucceed ==
  \A t \in Requests : run[t] = "score" => score[posting[t]] = NoScore

(* The progress a client sees belongs to a run: it is cleared with the run  *)
(* that set it, however that ends.  The server process keeps this; with the *)
(* worker a run may set the progress and fail before the try that clears    *)
(* it, or fail to clear it, or be lost, and the key stays until it expires. *)
ProgressHasRun == progress => Alive # {}

(* "Score all unclassified active jobs", "Rescoring jobs in background":    *)
(* once nothing more arrives, the active postings come to have scores, by   *)
(* the preferences as they are, if those give something to score by.  (A    *)
(* user without role text and profile has the scores deleted and no others  *)
(* made, until a text is given.)                                           *)
FreshScores == <>[](Scorable => \A j \in active : score[j] = prefs)

(* "Signal the scoring loop to stop for this user": a run that was scoring  *)
(* when scoring was cancelled does not start another batch.                *)
CancelStops ==
  [][\A t \in told : ~(run[t] = "check" /\ run'[t] = "score")]_vars
=============================================================================
