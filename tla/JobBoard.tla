------------------------------ MODULE JobBoard ------------------------------
(***************************************************************************)
(* The postings of the companies users watch: who watches what, the scans  *)
(* and the notifications that find postings, how they come to match a      *)
(* user, and the mail that tells the user of new matches.                  *)
(***************************************************************************)
EXTENDS Integers, FiniteSets, Accounts

CONSTANTS Seekers,      (* the users who look for jobs                    *)
          Postings,
          OrgOf,        (* the company of each posting                     *)
          SourceOf,     (* "ats", its own board, or "theirstack"           *)
          Boards,       (* the companies whose own board is known          *)
          MaxListed,    (* how many matches a mail lists at most           *)
          MaxClock

Firms == {OrgOf[j] : j \in Postings}
ASSUME BoardAssumption ==
  /\ Seekers \subseteq Users
  /\ SourceOf \in [Postings -> {"ats", "theirstack"}] /\ Boards \subseteq Firms
  /\ MaxListed \in Nat \ {0} /\ MaxClock \in Nat \ {0}

VARIABLES monitor,   (* per user: whether postings are monitored, whether  *)
                     (* mail is wanted, and the list, None if there is no  *)
                     (* list                                               *)
          posting,   (* the rows of postings                               *)
          scraped,   (* the companies read within the cooldown             *)
          scrape,    (* the scans of single companies                      *)
          match,     (* the score of each posting for each user, and when  *)
                     (* it was first made                                  *)
          batch,     (* the scores that are to be committed                *)
          rescore,   (* the scores a change of the weights is to replace   *)
          watermark, (* when the last mail was sent                        *)
          digest,    (* the mail that is being sent                        *)
          clock,
          announced, (* the matches that mail has told of                  *)
          unseen     (* those that the mail could not list, or that came   *)
                     (* too late for it                                    *)

boardVars ==
  <<monitor, posting, scraped, scrape, match, batch, rescore, watermark, digest, clock, announced, unseen>>

(* A posting is of no interest, is shown as relevant, or is a match, which *)
(* is good enough for mail.                                                *)
Levels == {"irrelevant", "relevant", "match"}
Unscored == [at |-> 0, level |-> "irrelevant"]
NoScrape == [pc |-> "none", forced |-> FALSE, known |-> {}]
NoDigest == [pc |-> "none", jobs |-> {}]

BoardInit ==
  /\ monitor = [u \in Seekers |-> [on |-> FALSE, mail |-> TRUE, list |-> None]]
  /\ posting = [j \in Postings |-> "unknown"] /\ scraped = {} /\ scrape = [o \in Firms |-> NoScrape]
  /\ match = [u \in Seekers |-> [j \in Postings |-> Unscored]] /\ batch = [u \in Seekers |-> None]
  /\ rescore = [u \in Seekers |-> None] /\ watermark = [u \in Seekers |-> 1]
  /\ digest = [u \in Seekers |-> NoDigest] /\ clock = 1 /\ announced = {} /\ unseen = {}

List(u) == IF monitor[u].list = None THEN {} ELSE monitor[u].list
Monitoring(o) == {u \in Seekers : monitor[u].on /\ o \in List(u)}
Monitored == {o \in Firms : Monitoring(o) # {}}

-----------------------------------------------------------------------------
(* What a user sets.                                                       *)

(* Monitoring needs a list; to turn it off without naming one forgets it.  *)
(* Where there is a worker, to turn it on has the companies read that are  *)
(* watched and have not been read of late.                                 *)
NamedList(u, list, on) == IF list # None THEN list ELSE IF ~on THEN None ELSE monitor[u].list
Queued(orgs) == [o \in Firms |-> IF o \in orgs \ scraped /\ scrape[o].pc = "none"
                                  THEN [NoScrape EXCEPT !.pc = "queued"] ELSE scrape[o]]
SetMonitorConfig(u) ==
  /\ \E list \in {None} \union SUBSET Firms, on \in BOOLEAN :
       /\ on => NamedList(u, list, on) # None
       /\ monitor' = [monitor EXCEPT ![u] = [@ EXCEPT !.on = on, !.list = NamedList(u, list, on)]]
       /\ scrape' \in {scrape} \union (IF on THEN {Queued(Monitored')} ELSE {})
  /\ UNCHANGED <<posting, scraped, match, batch, rescore, watermark, digest, clock, announced, unseen>>

(* A company that is put on the list is read at once, where there is a     *)
(* worker.  When the list is deleted, monitoring stays on without one.     *)
Wanted == [NoScrape EXCEPT !.pc = "queued", !.forced = TRUE]
Requested(o) == {scrape, IF scrape[o].pc = "none" THEN [scrape EXCEPT ![o] = Wanted] ELSE scrape}
AddToList(u, o) ==
  /\ monitor[u].list # None /\ monitor' = [monitor EXCEPT ![u].list = @ \union {o}]
  /\ scrape' \in Requested(o)
  /\ UNCHANGED <<posting, scraped, match, batch, rescore, watermark, digest, clock, announced, unseen>>
RemoveFromList(u, o) ==
  /\ o \in List(u) /\ monitor' = [monitor EXCEPT ![u].list = @ \ {o}]
  /\ UNCHANGED <<posting, scraped, scrape, match, batch, rescore, watermark, digest, clock, announced, unseen>>
DeleteList(u) ==
  /\ monitor[u].list # None /\ monitor' = [monitor EXCEPT ![u].list = None]
  /\ UNCHANGED <<posting, scraped, scrape, match, batch, rescore, watermark, digest, clock, announced, unseen>>
Unsubscribe(u) ==
  /\ monitor[u].mail /\ monitor' = [monitor EXCEPT ![u].mail = FALSE]
  /\ UNCHANGED <<posting, scraped, scrape, match, batch, rescore, watermark, digest, clock, announced, unseen>>

(* How often mail is wanted: off, or daily and weekly, which are one here. *)
SetNotificationPreferences(u) ==
  /\ \E mail \in BOOLEAN : monitor' = [monitor EXCEPT ![u].mail = mail]
  /\ UNCHANGED <<posting, scraped, scrape, match, batch, rescore, watermark, digest, clock, announced, unseen>>

-----------------------------------------------------------------------------
(* Finding postings.                                                       *)

GlobalScan ==
  /\ scrape' = Queued(Monitored)
  /\ UNCHANGED <<monitor, posting, scraped, match, batch, rescore, watermark, digest, clock, announced, unseen>>
DiscoverSingleOrg(u, o) ==
  /\ o \in List(u) /\ scrape[o].pc = "none"
  /\ scrape' = [scrape EXCEPT ![o] = Wanted]
  /\ UNCHANGED <<monitor, posting, scraped, match, batch, rescore, watermark, digest, clock, announced, unseen>>

Rows(o) == {j \in Postings : OrgOf[j] = o /\ posting[j] # "unknown"}
(* What a scan comes back with: of the company's board, or, when that has  *)
(* nothing, of TheirStack, if that is used.                                *)
Offered(o) == SUBSET {j \in Postings : OrgOf[j] = o /\ SourceOf[j] = "theirstack"}
                \union (IF o \in Boards THEN SUBSET {j \in Postings : OrgOf[j] = o /\ SourceOf[j] = "ats"} ELSE {})

ScrapeReads(o) ==
  /\ scrape[o].pc = "queued"
  /\ scrape' = [scrape EXCEPT ![o] = IF o \in scraped /\ ~@.forced THEN NoScrape
                                     ELSE [@ EXCEPT !.pc = "read", !.known = Rows(o)]]
  /\ UNCHANGED <<monitor, posting, scraped, match, batch, rescore, watermark, digest, clock, announced, unseen>>

(* What is found is open, and what is not is closed, unless nothing is.  A *)
(* posting that another transaction has added since ends the scan: after   *)
(* the rollback the company's row cannot be read again.                    *)
Upserted(o, found) == [j \in Postings |-> IF j \in found THEN "open"
                                          ELSE IF found # {} /\ j \in Rows(o) THEN "closed" ELSE posting[j]]
(* When the board failed, TheirStack's answer is written with its error,   *)
(* and where there is no source at all nothing is: neither counts.         *)
Recorded(o, found) == {scraped \union {o}} \union
                        (IF \E j \in found : SourceOf[j] = "ats" THEN {} ELSE {scraped})
ScrapeWrites(o) ==
  /\ scrape[o].pc = "read" /\ scrape' = [scrape EXCEPT ![o] = NoScrape]
  /\ \E found \in Offered(o) :
       \/ found \intersect (Rows(o) \ scrape[o].known) # {} /\ UNCHANGED <<posting, scraped>>
       \/ /\ found \intersect (Rows(o) \ scrape[o].known) = {}
          /\ posting' = Upserted(o, found) /\ scraped' \in Recorded(o, found)
  /\ UNCHANGED <<monitor, match, batch, rescore, watermark, digest, clock, announced, unseen>>
(* The provider fails, or the task does: nothing is written, or an error.  *)
ScrapeFails(o) ==
  /\ scrape[o].pc # "none" /\ scrape' = [scrape EXCEPT ![o] = NoScrape]
  /\ UNCHANGED <<monitor, posting, scraped, match, batch, rescore, watermark, digest, clock, announced, unseen>>

TheirStackWebhook(j) ==
  /\ SourceOf[j] = "theirstack" /\ OrgOf[j] \in Monitored
  /\ posting' = [posting EXCEPT ![j] = "open"]
  /\ UNCHANGED <<monitor, scraped, scrape, match, batch, rescore, watermark, digest, clock, announced, unseen>>

CooldownPasses(o) ==
  /\ o \in scraped /\ scraped' = scraped \ {o}
  /\ UNCHANGED <<monitor, posting, scrape, match, batch, rescore, watermark, digest, clock, announced, unseen>>

-----------------------------------------------------------------------------
(* Scoring, of which there is a module of its own: a batch bears the time  *)
(* when it was made, and is there to be read when it is committed.         *)

Scored(u) == {j \in Postings : match[u][j].at > 0}
ScoreBegins(u) ==
  /\ batch[u] = None /\ clock < MaxClock /\ clock' = clock + 1
  /\ \E j \in Postings \ Scored(u), v \in Levels :
       /\ posting[j] = "open" /\ OrgOf[j] \in List(u)
       /\ batch' = [batch EXCEPT ![u] = [job |-> j, score |-> [at |-> clock', level |-> v]]]
  /\ UNCHANGED <<monitor, posting, scraped, scrape, match, rescore, watermark, digest, announced, unseen>>

(* A match that is made when the mail has been put together, or bears a    *)
(* time the watermark has passed.                                          *)
Late(u, m) == m.level = "match" /\ (digest[u].pc \in {"listed", "sent"} \/ m.at <= watermark[u])
Scores(u, new) ==
  /\ match' = [match EXCEPT ![u] = new]
  /\ unseen' = unseen \union ({u} \X {j \in Postings : new[j] # match[u][j] /\ Late(u, new[j])})
ScoreCommits(u) ==
  LET b == batch[u] IN
  /\ b # None /\ batch' = [batch EXCEPT ![u] = None]
  /\ Scores(u, [match[u] EXCEPT ![b.job] = b.score])
  /\ UNCHANGED <<monitor, posting, scraped, scrape, rescore, watermark, digest, clock, announced>>

(* Other weights: the scores that are there are computed anew, from what   *)
(* was read, and keep their time.  A score that has been deleted since is  *)
(* passed over, or makes the whole commit fail.                            *)
RescoreReads(u) ==
  /\ rescore[u] = None
  /\ \E js \in SUBSET Scored(u) \ {{}} : \E new \in [js -> Levels] :
       /\ \A j \in js : new[j] # match[u][j].level
       /\ rescore' = [rescore EXCEPT ![u] = new]
  /\ UNCHANGED <<monitor, posting, scraped, scrape, match, batch, watermark, digest, clock, announced, unseen>>
RescoreCommits(u) ==
  LET new == rescore[u] IN
  /\ new # None /\ rescore' = [rescore EXCEPT ![u] = None]
  /\ Scores(u, [j \in Postings |-> IF j \in Scored(u) \intersect DOMAIN new
                                   THEN [match[u][j] EXCEPT !.level = new[j]] ELSE match[u][j]])
  /\ UNCHANGED <<monitor, posting, scraped, scrape, batch, watermark, digest, clock, announced>>
RescoreFails(u) ==
  /\ rescore[u] # None /\ rescore' = [rescore EXCEPT ![u] = None]
  /\ UNCHANGED <<monitor, posting, scraped, scrape, match, batch, watermark, digest, clock, announced, unseen>>

(* Other preferences: all is scored anew.                                  *)
ReclassifyAll(u) ==
  /\ Scored(u) # {}
  /\ match' = [match EXCEPT ![u] = [j \in Postings |-> Unscored]]
  /\ announced' = {m \in announced : m[1] # u} /\ unseen' = {m \in unseen : m[1] # u}
  /\ digest' = [digest EXCEPT ![u].jobs = {}]
  /\ UNCHANGED <<monitor, posting, scraped, scrape, batch, rescore, watermark, clock>>

-----------------------------------------------------------------------------
(* The mail.  A day may pass between any two steps.                        *)

New(u) == {j \in Postings : match[u][j].level = "match" /\ match[u][j].at > watermark[u]}
Listable(u) == {j \in New(u) : posting[j] = "open"}
Due(u) == monitor[u].on /\ monitor[u].mail

CollectDue(u) ==
  /\ Due(u) /\ digest[u].pc = "none" /\ digest' = [digest EXCEPT ![u].pc = "queued"]
  /\ UNCHANGED <<monitor, posting, scraped, scrape, match, batch, rescore, watermark, clock, announced, unseen>>

(* The job asks no more whether the user still wants mail.  It counts the  *)
(* matches first, and lists the best of them in another statement.         *)
CountMatches(u) ==
  /\ digest[u].pc = "queued"
  /\ digest' = [digest EXCEPT ![u] = IF Listable(u) = {} THEN NoDigest ELSE [@ EXCEPT !.pc = "counted"]]
  /\ UNCHANGED <<monitor, posting, scraped, scrape, match, batch, rescore, watermark, clock, announced, unseen>>
ToList(jobs) == {s \in SUBSET jobs : Cardinality(s) = MaxListed \/ (s = jobs /\ Cardinality(jobs) < MaxListed)}
ListMatches(u) ==
  /\ digest[u].pc = "counted"
  /\ \E jobs \in ToList(Listable(u)) :
       /\ digest' = [digest EXCEPT ![u] = [pc |-> "listed", jobs |-> jobs]]
       /\ unseen' = unseen \union ({u} \X (New(u) \ jobs))
  /\ UNCHANGED <<monitor, posting, scraped, scrape, match, batch, rescore, watermark, clock, announced>>

MailGoes(u) ==
  /\ digest[u].pc = "listed" /\ digest' = [digest EXCEPT ![u].pc = "sent"]
  /\ announced' = announced \union ({u} \X digest[u].jobs)
  /\ UNCHANGED <<monitor, posting, scraped, scrape, match, batch, rescore, watermark, clock, unseen>>

Moved(u) == clock < MaxClock /\ clock' = clock + 1 /\ watermark' = [watermark EXCEPT ![u] = clock']
DigestEnds(u) ==
  /\ digest[u].pc = "sent" /\ Moved(u) /\ digest' = [digest EXCEPT ![u] = NoDigest]
  /\ UNCHANGED <<monitor, posting, scraped, scrape, match, batch, rescore, announced, unseen>>

(* The provider refuses the mail: the next one tells of these matches.     *)
(* A plausible slip: the watermark moves all the same.                     *)
MovesAnyway(u) == (Moved(u) \/ clock = MaxClock) /\ UNCHANGED <<unseen>>
StaysPut(u) == UNCHANGED <<watermark, clock>> /\ UNCHANGED <<unseen>>
MailRefused(u) ==
  /\ digest[u].pc = "listed" /\ digest' = [digest EXCEPT ![u] = NoDigest] /\ StaysPut(u)
  /\ UNCHANGED <<monitor, posting, scraped, scrape, match, batch, rescore, announced>>
(* The job is cut off, before the mail or after it.                        *)
DigestCut(u) ==
  /\ digest[u].pc # "none" /\ digest' = [digest EXCEPT ![u] = NoDigest]
  /\ UNCHANGED <<monitor, posting, scraped, scrape, match, batch, rescore, watermark, clock, announced, unseen>>

ListsMove(u) ==
  \/ SetMonitorConfig(u) \/ DeleteList(u) \/ Unsubscribe(u) \/ SetNotificationPreferences(u)
  \/ \E o \in Firms : AddToList(u, o) \/ RemoveFromList(u, o) \/ DiscoverSingleOrg(u, o)
ScansMove ==
  \/ GlobalScan
  \/ \E o \in Firms : ScrapeReads(o) \/ ScrapeWrites(o) \/ ScrapeFails(o) \/ CooldownPasses(o)
  \/ \E j \in Postings : TheirStackWebhook(j)
ScoresMove(u) ==
  \/ ScoreBegins(u) \/ ScoreCommits(u) \/ ReclassifyAll(u)
  \/ RescoreReads(u) \/ RescoreCommits(u) \/ RescoreFails(u)
MailMoves(u) ==
  CollectDue(u) \/ CountMatches(u) \/ ListMatches(u) \/ MailGoes(u) \/ DigestEnds(u) \/ MailRefused(u) \/ DigestCut(u)

BoardNext == ScansMove \/ \E u \in Seekers : ListsMove(u) \/ ScoresMove(u) \/ MailMoves(u)

BoardSpec == BoardInit /\ [][BoardNext]_boardVars

-----------------------------------------------------------------------------
(* Properties.                                                             *)

BoardTypeOK ==
  /\ \A u \in Seekers : monitor[u].on \in BOOLEAN /\ List(u) \subseteq Firms
  /\ posting \in [Postings -> {"unknown", "open", "closed"}] /\ scraped \subseteq Firms
  /\ match \in [Seekers -> [Postings -> [at : 0..MaxClock, level : Levels]]]
  /\ watermark \in [Seekers -> 1..MaxClock]
  /\ clock \in 1..MaxClock /\ announced \subseteq Seekers \X Postings /\ unseen \subseteq Seekers \X Postings

(* A match that the watermark has passed has been listed in a mail that    *)
(* went: no mail that fails, is cut off or is sent again skips one.  The   *)
(* exceptions are those that no mail could list: when it was put together, *)
(* the posting was closed, or there were more matches than a mail lists;   *)
(* or it became a match after that, or with a time the watermark had       *)
(* passed, as one does that other weights make of an old score.            *)
MatchesAnnounced ==
  \A u \in Seekers, j \in Postings :
    match[u][j].level = "match" /\ match[u][j].at <= watermark[u] => <<u, j>> \in announced \union unseen

=============================================================================
