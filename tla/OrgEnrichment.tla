--------------------------- MODULE OrgEnrichment ---------------------------
(***************************************************************************)
(* The enrichment of companies: the runs users start, each with a task     *)
(* that goes through the user's companies, and the scans that go through   *)
(* all.  Tasks are of the server's process, or jobs of the arq worker.     *)
(***************************************************************************)
EXTENDS Integers, FiniteSets, Sequences, Functions, Accounts

CONSTANTS Companies,    (* in the order of their names                     *)
          Own,          (* the companies of each user's strong ties        *)
          Watched,      (* those with a person, or on a monitored list     *)
          MaxOrgRuns, MaxStops

ASSUME EnrichmentAssumption ==
  /\ Own \in [Users -> SUBSET Range(Companies)] /\ Watched \subseteq Range(Companies)
  /\ MaxOrgRuns \in Nat \ {0} /\ MaxStops \in Nat

VARIABLES arq,       (* use_arq_worker                                     *)
          orgRun,    (* the rows of runs, in the order they were made      *)
          orgTask,   (* their tasks                                        *)
          asked,     (* the requests that found no run going on            *)
          slots,     (* the users in the process's active set              *)
          kept,      (* the arq jobs whose results keep their keys taken   *)
          company,   (* the jobs of single companies                       *)
          recent,    (* the companies enriched within the cooldown         *)
          stops

enrichmentVars == <<arq, orgRun, orgTask, asked, slots, kept, company, recent, stops>>

RunIds == 1..MaxOrgRuns
NoRun == [user |-> None, state |-> "none", quiet |-> FALSE]
NoTask == [pc |-> "none", left |-> {}, seen |-> "none"]

EnrichmentInit ==
  /\ arq \in BOOLEAN
  /\ orgRun = [k \in RunIds |-> NoRun] /\ orgTask = [k \in RunIds |-> NoTask]
  /\ asked = [u \in Users |-> 0] /\ slots = {} /\ kept = {}
  /\ company = [o \in Range(Companies) |-> "none"] /\ recent = {} /\ stops = 0

InState(k, states) == orgRun[k].state \in states
Committed(u) == {k \in RunIds : orgRun[k].user = u /\ InState(k, {"running", "complete", "failed"})}
IsLatest(k) == k \in Committed(orgRun[k].user) /\ \A l \in Committed(orgRun[k].user) : l <= k
Live(k) == orgTask[k].pc \in {"new", "list", "search"}
Unenriched(u) == Own[u] \ recent

(* Of the companies a task has left, the next in the order of the names.   *)
First(o, left) ==
  o \in left /\ \E i \in DOMAIN Companies : Companies[i] = o /\ \A j \in 1..(i - 1) : Companies[j] \notin left

Ends(k, state) == orgRun' = [orgRun EXCEPT ![k].state = state]

-----------------------------------------------------------------------------
(* Requests.                                                               *)

(* A plausible slip: a run whose task may be alive is left alone.          *)
TaskGone(k) == InState(k, {"running"}) /\ orgRun[k].quiet /\ orgRun[k].user \notin slots
Stale(k) == InState(k, {"running"}) /\ orgRun[k].quiet

(* start_enrichment, up to the row: a stale run is given up.               *)
AskEnrichment(u) ==
  /\ Unenriched(u) # {}
  /\ asked[u] < Cardinality({k \in RunIds : InState(k, {"none"})})
  /\ \/ \E k \in RunIds : IsLatest(k) /\ orgRun[k].user = u /\ Stale(k) /\ Ends(k, "failed")
     \/ (\A k \in Committed(u) : IsLatest(k) => ~InState(k, {"running"})) /\ UNCHANGED orgRun
  /\ asked' = [asked EXCEPT ![u] = @ + 1]
  /\ UNCHANGED <<arq, orgTask, slots, kept, company, recent, stops>>

(* The task is made before the row is committed.  A server that is at the  *)
(* user's companies already refuses; arq ignores a job whose key is taken, *)
(* and does not get it when Redis is away.                                 *)
(* A plausible slip: the key is free as soon as the job has begun.         *)
KeyOfResult(u) == u \in kept \/ \E k \in RunIds : orgRun[k].user = u /\ orgTask[k].pc = "new"
KeyTaken(u) == u \in kept \/ \E k \in RunIds : orgRun[k].user = u /\ Live(k)
NextRow(k) == InState(k, {"none"}) /\ \A l \in 1..(k - 1) : ~InState(l, {"none"})
Adds(u, k, state, pc) ==
  /\ orgRun' = [orgRun EXCEPT ![k] = [user |-> u, state |-> state, quiet |-> FALSE]]
  /\ orgTask' = [orgTask EXCEPT ![k] = [NoTask EXCEPT !.pc = pc]]
StartEnrichment(u) ==
  /\ asked[u] > 0
  /\ asked' = [asked EXCEPT ![u] = @ - 1]
  /\ \E k \in RunIds :
       /\ NextRow(k)
       /\ \/ ~arq /\ u \in slots /\ Adds(u, k, "failed", "none") /\ UNCHANGED slots
          \/ ~arq /\ u \notin slots /\ Adds(u, k, "adding", "new") /\ slots' = slots \union {u}
          \/ arq /\ ~KeyTaken(u) /\ Adds(u, k, "adding", "new") /\ UNCHANGED slots
          \/ arq /\ Adds(u, k, "adding", "none") /\ UNCHANGED slots
  /\ UNCHANGED <<arq, kept, company, recent, stops>>

CommitRun(k) ==
  /\ InState(k, {"adding"}) /\ Ends(k, "running")
  /\ UNCHANGED <<arq, orgTask, asked, slots, kept, company, recent, stops>>

CancelEnrichment(u) ==
  /\ \E k \in Committed(u) : IsLatest(k) /\ InState(k, {"running"}) /\ Ends(k, "failed")
  /\ UNCHANGED <<arq, orgTask, asked, slots, kept, company, recent, stops>>

(* Looking at the state gives up a run that nothing has been heard of.     *)
GetStatus(u) ==
  /\ \E k \in Committed(u) : IsLatest(k) /\ Stale(k) /\ Ends(k, "failed")
  /\ UNCHANGED <<arq, orgTask, asked, slots, kept, company, recent, stops>>

FiveMinutes(k) ==
  /\ InState(k, {"running"}) /\ ~orgRun[k].quiet
  /\ orgRun' = [orgRun EXCEPT ![k].quiet = TRUE]
  /\ UNCHANGED <<arq, orgTask, asked, slots, kept, company, recent, stops>>

-----------------------------------------------------------------------------
(* The task of a run.  Its session keeps the row as it first read it, and  *)
(* reads it anew only after an error.  The totals it writes when it begins *)
(* may be those that are there.                                            *)

Leaves(k) ==
  /\ orgTask' = [orgTask EXCEPT ![k] = NoTask]
  /\ slots' = slots \ {orgRun[k].user}
  /\ kept' = IF arq THEN kept \union {orgRun[k].user} ELSE kept
Goes(k, task) == orgTask' = [orgTask EXCEPT ![k] = task] /\ UNCHANGED <<slots, kept>>
Progress(k) == orgRun' = [orgRun EXCEPT ![k].quiet = FALSE]

TaskBegins(k) ==
  /\ orgTask[k].pc = "new"
  /\ \/ InState(k, {"adding"}) /\ Leaves(k) /\ UNCHANGED orgRun
     \/ /\ ~InState(k, {"adding"})
        /\ Goes(k, [pc |-> "list", seen |-> orgRun[k].state,
                    left |-> Unenriched(orgRun[k].user)])
        /\ Progress(k) \/ UNCHANGED orgRun
  /\ UNCHANGED <<arq, asked, company, recent, stops>>

TaskNext(k) ==
  LET t == orgTask[k] IN
  /\ t.pc = "list"
  /\ \E o \in t.left : First(o, t.left) /\
       \/ t.seen # "running" /\ Leaves(k) /\ UNCHANGED orgRun
       \/ t.seen = "running" /\ o \in recent /\ Goes(k, [t EXCEPT !.left = @ \ {o}]) /\ Progress(k)
       \/ t.seen = "running" /\ o \notin recent /\ Goes(k, [t EXCEPT !.pc = "search"]) /\ UNCHANGED orgRun
  /\ UNCHANGED <<arq, asked, company, recent, stops>>

(* What is found is written, or that the search failed: either way the     *)
(* task goes on.                                                           *)
Searched(o) == recent' \in {recent, recent \union {o}}
TaskSearched(k) ==
  LET t == orgTask[k] IN
  /\ t.pc = "search"
  /\ \E o \in t.left : /\ First(o, t.left) /\ Searched(o)
                        /\ Goes(k, [t EXCEPT !.pc = "list", !.left = @ \ {o}])
  /\ Progress(k)
  /\ UNCHANGED <<arq, asked, company, stops>>

(* A statement fails; the row is read again.                               *)
TaskSlips(k) ==
  LET t == orgTask[k] IN
  /\ t.pc \in {"list", "search"} /\ t.seen = "running"
  /\ \E o \in t.left : First(o, t.left) /\
       \/ ~InState(k, {"running"}) /\ Leaves(k)
       \/ InState(k, {"running"}) /\ Goes(k, [t EXCEPT !.pc = "list", !.left = @ \ {o}])
  /\ UNCHANGED <<arq, orgRun, asked, company, recent, stops>>

TaskEnds(k) ==
  /\ orgTask[k].pc = "list" /\ orgTask[k].left = {}
  /\ IF orgTask[k].seen = "running" THEN Ends(k, "complete") ELSE UNCHANGED orgRun
  /\ Leaves(k)
  /\ UNCHANGED <<arq, asked, company, recent, stops>>

(* What is not caught on the way makes the run failed, unless the mark     *)
(* fails as well; a job that takes longer than ten minutes is cut off, and *)
(* nobody says so.                                                         *)
TaskFails(k) ==
  /\ Live(k)
  /\ (~InState(k, {"adding"}) /\ Ends(k, "failed")) \/ UNCHANGED orgRun
  /\ Leaves(k)
  /\ UNCHANGED <<arq, asked, company, recent, stops>>

-----------------------------------------------------------------------------
(* Companies one by one: the scan of all, and a company that is watched.   *)

Queued(o) == IF company[o] = "none" /\ o \notin kept THEN "queued" ELSE company[o]
(* The worker collects what is outside the cooldown; the server all, and   *)
(* looks at each when it comes to it.                                      *)
NeedingEnrichment == IF arq THEN Watched \ recent ELSE Watched
ScanCompanies ==
  /\ arq \/ \A o \in Range(Companies) : company[o] = "none"
  /\ company' = [o \in Range(Companies) |-> IF o \in NeedingEnrichment THEN Queued(o) ELSE company[o]]
  /\ UNCHANGED <<arq, orgRun, orgTask, asked, slots, kept, recent, stops>>
AddWatchedCompany(o) ==
  /\ arq /\ company' = [company EXCEPT ![o] = Queued(o)]
  /\ UNCHANGED <<arq, orgRun, orgTask, asked, slots, kept, recent, stops>>

CompanyDone(o) == /\ company' = [company EXCEPT ![o] = "none"]
                  /\ kept' = IF arq THEN kept \union {o} ELSE kept
CompanyBegins(o) ==
  /\ company[o] = "queued" /\ (arq \/ \A c \in Range(Companies) : company[c] # "search")
  /\ IF o \in recent THEN CompanyDone(o) ELSE company' = [company EXCEPT ![o] = "search"] /\ UNCHANGED kept
  /\ UNCHANGED <<arq, orgRun, orgTask, asked, slots, recent, stops>>
CompanyEnds(o) ==
  /\ company[o] = "search" /\ Searched(o) /\ CompanyDone(o)
  /\ UNCHANGED <<arq, orgRun, orgTask, asked, slots, stops>>

-----------------------------------------------------------------------------
(* The surroundings.                                                       *)

CooldownEnds(o) ==
  /\ o \in recent /\ recent' = recent \ {o}
  /\ UNCHANGED <<arq, orgRun, orgTask, asked, slots, kept, company, stops>>
ResultForgotten(x) ==
  /\ x \in kept /\ kept' = kept \ {x}
  /\ UNCHANGED <<arq, orgRun, orgTask, asked, slots, company, recent, stops>>

(* The process with the tasks stops; arq's jobs are begun again.           *)
ProcessStops ==
  /\ stops < MaxStops /\ stops' = stops + 1
  /\ orgTask' = [k \in RunIds |-> IF arq /\ Live(k) THEN [NoTask EXCEPT !.pc = "new"] ELSE NoTask]
  /\ company' = [o \in Range(Companies) |-> IF arq /\ company[o] # "none" THEN "queued" ELSE "none"]
  /\ slots' = {}
  /\ IF arq THEN UNCHANGED <<orgRun, asked>>
     ELSE /\ orgRun' = [k \in RunIds |-> IF InState(k, {"adding"}) THEN NoRun ELSE orgRun[k]]
          /\ asked' = [u \in Users |-> 0]
  /\ UNCHANGED <<arq, kept, recent>>

EnrichmentNext ==
  \/ \E u \in Users : AskEnrichment(u) \/ StartEnrichment(u) \/ CancelEnrichment(u) \/ GetStatus(u)
  \/ \E k \in RunIds : CommitRun(k) \/ FiveMinutes(k) \/ TaskBegins(k) \/ TaskNext(k) \/ TaskSearched(k)
                         \/ TaskSlips(k) \/ TaskEnds(k) \/ TaskFails(k)
  \/ ScanCompanies \/ ProcessStops
  \/ \E o \in Range(Companies) : AddWatchedCompany(o) \/ CompanyBegins(o) \/ CompanyEnds(o) \/ CooldownEnds(o)
  \/ \E x \in kept : ResultForgotten(x)

EnrichmentSpec == EnrichmentInit /\ [][EnrichmentNext]_enrichmentVars

(* Time passes, and a user looks at the state again as long as it says     *)
(* that the run goes on.  Nothing is asked of the tasks.                   *)
EnrichmentFairness ==
  /\ \A u \in Users : WF_enrichmentVars(GetStatus(u))
  /\ \A k \in RunIds : WF_enrichmentVars(FiveMinutes(k)) /\ WF_enrichmentVars(CommitRun(k))

-----------------------------------------------------------------------------
(* Properties.                                                             *)

EnrichmentTypeOK ==
  /\ \A k \in RunIds : orgRun[k].state \in {"none", "adding", "running", "complete", "failed"}
  /\ \A k \in RunIds : orgRun[k].user \in Users \union {None} /\ orgTask[k].left \subseteq Range(Companies)
  /\ slots \subseteq Users /\ kept \subseteq Users \union Range(Companies) /\ (arq => slots = {})
  /\ company \in [Range(Companies) -> {"none", "queued", "search"}] /\ recent \subseteq Range(Companies)
  /\ asked \in [Users -> 0..MaxOrgRuns] /\ stops \in 0..MaxStops

(* A user's companies are searched by one task at a time, though a run     *)
(* that was cancelled or given up leaves its task at work, and a request   *)
(* then starts the next: in the server the active set, in arq the key of   *)
(* the job keeps the second task out.                                      *)
OneSearcher ==
  /\ EnrichmentTypeOK
  /\ \A u \in Users : Cardinality({k \in RunIds : orgRun[k].user = u /\ Live(k)}) <= 1

(* The run a user is shown does not go on for ever, whether its task is    *)
(* lost with the process, finds no row, is never made, is cut off, or      *)
(* hangs: someone who looks finds that it has ended.                       *)
GoesOn(u) == \E k \in Committed(u) : IsLatest(k) /\ InState(k, {"running"})
RunsEnd == \A u \in Users : GoesOn(u) ~> ~GoesOn(u)

=============================================================================
