----------------------------- MODULE JobEvents ------------------------------
(***************************************************************************)
(* How a page of the web application comes to show that postings are being *)
(* scored: the events of the scoring runs of its user, the queue of its    *)
(* connection, filled by the server's own runs directly and by those of    *)
(* the arq worker through Redis, and what the page makes of them.          *)
(***************************************************************************)
EXTENDS Naturals, Sequences, FiniteSets

CONSTANTS ScoringRuns, Pages,
          Batches,     (* how many batches each run scores                 *)
          Ending       (* how each run ends, if it does not fail           *)

EventTypes == {"scoring_progress", "scoring_complete", "scoring_cancelled"}
Endings == EventTypes \ {"scoring_progress"}
ASSUME EventsAssumption == Batches \in [ScoringRuns -> Nat] /\ Ending \in [ScoringRuns -> Endings]

VARIABLES useWorker,   (* use_arq_worker: the runs are in another process  *)
          scoring,     (* the runs                                         *)
          progress,    (* whether the user's progress is there to be read  *)
          wire,        (* what is being published to Redis, each by a task *)
          page,        (* the connections, with their queues               *)
          shown,       (* whether the page says that scoring is active     *)
          astray       (* whether it has not been told of the last end     *)

eventVars == <<useWorker, scoring, progress, wire, page, shown, astray>>

NotBegun == [pc |-> "none", batches |-> 0]
Closed == [pc |-> "away", queue |-> <<>>, listening |-> FALSE]
(* "silence" is no event: it marks in a queue where one was due.           *)
Entries == EventTypes \union {"silence"}

EventsInit ==
  /\ useWorker \in BOOLEAN
  /\ scoring = [r \in ScoringRuns |-> NotBegun] /\ progress = FALSE /\ wire = {}
  /\ page = [g \in Pages |-> Closed]
  /\ shown = [g \in Pages |-> FALSE] /\ astray = [g \in Pages |-> FALSE]

-----------------------------------------------------------------------------
(* Publishing.                                                             *)

Tells(x) == \E i \in DOMAIN x : x[i] # "scoring_progress"

(* A plausible slip: the queue is made when the progress has been read.    *)
RegisteredLate(g) == page[g].pc = "streaming"
Registered(g) == page[g].pc \in {"opening", "streaming"}

Connected == {g \in Pages : page[g].pc # "away"}
(* The pages of to get x.  Others that are there may miss it, and those    *)
(* that are away do: what tells of an end leaves them astray.              *)
Gets(x, to, missing) ==
  /\ page' = [g \in Pages |->
       IF g \in to THEN [page[g] EXCEPT !.queue = @ \o x]
       ELSE IF g \in missing /\ Tells(x) THEN [page[g] EXCEPT !.queue = Append(@, "silence")] ELSE page[g]]
  /\ astray' = [g \in Pages |-> astray[g] \/ (g \notin Connected /\ Tells(x))]

(* n tells the events of one run apart.                                    *)
Publish(r, n, x) ==
  IF useWorker THEN wire' = wire \union {[run |-> r, no |-> n, what |-> x]} /\ UNCHANGED <<page, astray>>
  ELSE Gets(<<x>>, {g \in Pages : Registered(g)}, {}) /\ UNCHANGED wire

(* The tasks come to publish in no fixed order, and Redis tells those who  *)
(* have subscribed.  Progress that is told after its run has ended, and    *)
(* after the end was told, leads the page astray.                          *)
Listeners == {g \in Pages : page[g].listening}
Overtaken(m) == m.what = "scoring_progress" /\ scoring[m.run].pc \in {"clearing", "over"}
             /\ \A o \in wire : o.run = m.run => o.what = "scoring_progress"
PublishRedis(m) ==
  /\ wire' = wire \ {m}
  /\ Gets(IF Overtaken(m) THEN <<m.what, "silence">> ELSE <<m.what>>, Listeners, Connected \ Listeners)
  /\ UNCHANGED <<useWorker, scoring, progress, shown>>
(* Redis does not answer: the task only logs that.                         *)
PublishFails(m) ==
  /\ wire' = wire \ {m} /\ Gets(<<"silence">>, Connected, {})
  /\ UNCHANGED <<useWorker, scoring, progress, shown>>

-----------------------------------------------------------------------------
(* A scoring run, of which the worker has one at a time: it writes its     *)
(* progress, which with Redis takes a while, and publishes it; it publishes*)
(* its end, and clears the progress.                                       *)

UnderWay == \E r \in ScoringRuns : scoring[r].pc \in {"written", "scoring"}
At(r, pc) == scoring[r].pc = pc
Goes(r, pc) == scoring' = [scoring EXCEPT ![r].pc = pc]

RunBegins(r) ==
  /\ At(r, "none") /\ progress' = TRUE
  /\ useWorker => \A o \in ScoringRuns : At(o, "none") \/ At(o, "over")
  /\ IF useWorker THEN Goes(r, "written") /\ UNCHANGED <<wire, page, astray>>
     ELSE Goes(r, "scoring") /\ Publish(r, 0, "scoring_progress")
  /\ UNCHANGED <<useWorker, shown>>
ProgressWritten(r) ==
  /\ At(r, "written") /\ Goes(r, "scoring") /\ Publish(r, scoring[r].batches, "scoring_progress")
  /\ UNCHANGED <<useWorker, progress, shown>>
BatchScored(r) ==
  /\ At(r, "scoring") /\ scoring[r].batches < Batches[r] /\ progress' = TRUE
  /\ scoring' = [scoring EXCEPT ![r] = [pc |-> IF useWorker THEN "written" ELSE "scoring", batches |-> @.batches + 1]]
  /\ IF useWorker THEN UNCHANGED <<wire, page, astray>>
     ELSE Publish(r, scoring'[r].batches, "scoring_progress")
  /\ UNCHANGED <<useWorker, shown>>
(* All are scored, or the run finds that it was cancelled.                 *)
RunEnds(r) ==
  /\ At(r, "scoring") /\ Publish(r, Batches[r] + 1, Ending[r])
  /\ IF useWorker THEN Goes(r, "clearing") /\ UNCHANGED progress ELSE Goes(r, "over") /\ progress' = FALSE
  /\ UNCHANGED <<useWorker, shown>>
(* Redis may not be there to clear it: then the progress stays for an hour.*)
Cleared == {FALSE, progress /\ useWorker}
ClearProgress(r) ==
  /\ At(r, "clearing") /\ Goes(r, "over") /\ progress' \in Cleared
  /\ UNCHANGED <<useWorker, wire, page, shown, astray>>
(* What fails on the way ends the run, and no event says so.  Before the   *)
(* loop over the batches is entered, the progress is not cleared.          *)
RunFails(r) ==
  /\ scoring[r].pc \in {"written", "scoring"} /\ Goes(r, "over")
  /\ progress' \in Cleared \union {progress /\ scoring[r].batches = 0}
  /\ Gets(<<"silence">>, Connected, {})
  /\ UNCHANGED <<useWorker, wire, shown>>

-----------------------------------------------------------------------------
(* A page.  It keeps what it shows when the connection is lost, and its    *)
(* EventSource opens another.                                              *)

OpenStream(g) ==
  /\ page[g].pc = "away" /\ page' = [page EXCEPT ![g].pc = "opening"]
  /\ UNCHANGED <<useWorker, scoring, progress, wire, shown, astray>>
Subscribe(g) ==
  /\ useWorker /\ page[g].pc # "away" /\ ~page[g].listening /\ page' = [page EXCEPT ![g].listening = TRUE]
  /\ UNCHANGED <<useWorker, scoring, progress, wire, shown, astray>>

(* First what is under way is read, then the queue.                        *)
FirstEvent(g) ==
  /\ page[g].pc = "opening" /\ page' = [page EXCEPT ![g].pc = "streaming"]
  /\ shown' = [shown EXCEPT ![g] = @ \/ progress]
  /\ astray' = [astray EXCEPT ![g] = @ \/ (progress /\ ~UnderWay)]
  /\ UNCHANGED <<useWorker, scoring, progress, wire>>

(* What the page makes of an event; the entry of an event that was never   *)
(* published changes only what is known of the page.                       *)
HandleJobEvent(x, active) == IF x \in Endings THEN FALSE ELSE x = "scoring_progress" \/ active
NextEvent(g) ==
  LET x == Head(page[g].queue) IN
  /\ page[g].pc = "streaming" /\ page[g].queue # <<>>
  /\ page' = [page EXCEPT ![g].queue = Tail(@)]
  /\ shown' = [shown EXCEPT ![g] = HandleJobEvent(x, @)]
  /\ astray' = [astray EXCEPT ![g] = IF x \in Endings THEN FALSE ELSE @ \/ x = "silence"]
  /\ UNCHANGED <<useWorker, scoring, progress, wire>>

(* The connection ends, or the listener does; with it goes what was queued.*)
CloseStream(g) ==
  /\ page[g].pc # "away" /\ page' = [page EXCEPT ![g] = Closed]
  /\ astray' = [astray EXCEPT ![g] = @ \/ Tells(page[g].queue)]
  /\ UNCHANGED <<useWorker, scoring, progress, wire, shown>>
ListenerFails(g) ==
  /\ page[g].listening /\ page' = [page EXCEPT ![g].listening = FALSE]
  /\ UNCHANGED <<useWorker, scoring, progress, wire, shown, astray>>
LoadPage(g) ==
  /\ page[g].pc = "away" /\ shown[g]
  /\ shown' = [shown EXCEPT ![g] = FALSE] /\ astray' = [astray EXCEPT ![g] = FALSE]
  /\ UNCHANGED <<useWorker, scoring, progress, wire, page>>

EventsNext ==
  \/ \E r \in ScoringRuns : RunBegins(r) \/ ProgressWritten(r) \/ BatchScored(r) \/ RunEnds(r)
                              \/ ClearProgress(r) \/ RunFails(r)
  \/ \E m \in wire : PublishRedis(m) \/ PublishFails(m)
  \/ \E g \in Pages : OpenStream(g) \/ Subscribe(g) \/ FirstEvent(g) \/ NextEvent(g)
                        \/ CloseStream(g) \/ ListenerFails(g) \/ LoadPage(g)

EventsSpec == EventsInit /\ [][EventsNext]_eventVars

-----------------------------------------------------------------------------
(* Properties.                                                             *)

EventsTypeOK ==
  /\ useWorker \in BOOLEAN /\ progress \in BOOLEAN
  /\ scoring \in [ScoringRuns -> [pc : {"none", "written", "scoring", "clearing", "over"}, batches : Nat]]
  /\ \A m \in wire : m.run \in ScoringRuns /\ m.what \in EventTypes
  /\ \A g \in Pages : page[g].pc \in {"away", "opening", "streaming"} /\ page[g].queue \in Seq(Entries)
  /\ shown \in [Pages -> BOOLEAN] /\ astray \in [Pages -> BOOLEAN]

(* A page that is connected, and has been told all there is to tell, shows *)
(* scoring as active only while something is scored - however the opening  *)
(* of the stream, the reading of the progress and the end of the run       *)
(* interleave.  The exceptions are those it could not know of: a run that  *)
(* failed, an end that was published while it was away or had not          *)
(* subscribed, and, through Redis, what was lost, came after the end or    *)
(* was not cleared when it was read.                                       *)
Told(g) == page[g].pc = "streaming" /\ page[g].queue = <<>> /\ wire = {}
ShownIsUnderWay == \A g \in Pages : Told(g) /\ shown[g] => UnderWay \/ astray[g]

=============================================================================
