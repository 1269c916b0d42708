------------------------------ MODULE JobProofs ------------------------------
(***************************************************************************)
(* Proofs about what users are told of postings.                           *)
(*                                                                         *)
(* JobBoard, for any users, postings and companies and any scans, scores   *)
(* and mail: types, and that the watermark passes no match untold.         *)
(*                                                                         *)
(* NextSteps beside JobBoard, for any number of requests at a time: types, *)
(* and that what the user has settled is not asked for again.              *)
(*                                                                         *)
(* JobEvents, for any scoring runs and pages, in the server's process or   *)
(* in the worker: types, and that a page shows as active what is under way.*)
(*                                                                         *)
(* The records as they are composed: that a part does what it does alone,  *)
(* and the types of all of them.                                           *)
(***************************************************************************)
EXTENDS MCRecords, PersonProofs

(***************************************************************************)
(* Mail about postings.                                                    *)
(***************************************************************************)

\* The inductive invariant, in parts.

Monitor == [on : BOOLEAN, mail : BOOLEAN, list : (SUBSET Firms) \union {None}]
Score == [at : 0..MaxClock, level : Levels]
BatchRow == [job : Postings, score : Score]
Digest == [pc : {"none", "queued", "counted", "listed", "sent"}, jobs : SUBSET Postings]

BoardRows ==
  /\ monitor \in [Seekers -> Monitor]
  /\ posting \in [Postings -> {"unknown", "open", "closed"}] /\ scraped \subseteq Firms
  /\ match \in [Seekers -> [Postings -> Score]] /\ watermark \in [Seekers -> 1..MaxClock]
  /\ batch \in [Seekers -> BatchRow \union {None}]
  /\ DOMAIN rescore = Seekers
  /\ \A u \in Seekers : rescore[u] # None => \A j \in DOMAIN rescore[u] : rescore[u][j] \in Levels
  /\ digest \in [Seekers -> Digest]
  /\ clock \in 1..MaxClock /\ announced \subseteq Seekers \X Postings /\ unseen \subseteq Seekers \X Postings

\* The matches the next move of the watermark would pass are in the mail that
\* is under way, and in what was announced once it has gone.
DigestFits ==
  \A u \in Seekers, j \in Postings :
    match[u][j].level = "match" /\ match[u][j].at > watermark[u] =>
      /\ digest[u].pc = "listed" => j \in digest[u].jobs \/ <<u, j>> \in unseen
      /\ digest[u].pc = "sent" => <<u, j>> \in announced \union unseen

BoardInv == BoardRows /\ DigestFits /\ MatchesAnnounced

LEMMA UnscoredIsScore == Unscored \in Score /\ Unscored.level # "match"
BY BoardAssumption DEF Unscored, Score, Levels

LEMMA BoardInitInv == BoardInit => BoardInv
<1> SUFFICES ASSUME BoardInit PROVE BoardInv
  OBVIOUS
<1>1. BoardRows
  BY BoardAssumption, UnscoredIsScore DEF BoardInit, BoardRows, Monitor, Digest, NoDigest
<1>2. DigestFits /\ MatchesAnnounced
  BY UnscoredIsScore DEF BoardInit, DigestFits, MatchesAnnounced
<1> QED BY <1>1, <1>2 DEF BoardInv

-----------------------------------------------------------------------------
\* What users set and what scans find is apart from matches and mail.

MailVars == <<match, watermark, digest, announced, unseen>>

LEMMA SettingsKeep ==
  ASSUME BoardInv, UNCHANGED MailVars, UNCHANGED <<batch, rescore, clock>>,
         monitor' \in [Seekers -> Monitor], posting' \in [Postings -> {"unknown", "open", "closed"}],
         scraped' \subseteq Firms
  PROVE  BoardInv'
BY DEF BoardInv, BoardRows, DigestFits, MatchesAnnounced, MailVars

LEMMA SetsKeep ==
  ASSUME BoardInv, NEW u \in Seekers, ListsMove(u)
  PROVE  BoardInv'
<1> USE DEF ListsMove
<1>1. monitor' \in [Seekers -> Monitor]
  <2> USE DEF BoardInv, BoardRows
  <2>monitor. CASE SetMonitorConfig(u)
    <3>1. PICK list \in {None} \union SUBSET Firms, on \in BOOLEAN :
            monitor' = [monitor EXCEPT ![u] = [@ EXCEPT !.on = on, !.list = NamedList(u, list, on)]]
      BY <2>monitor DEF SetMonitorConfig
    <3>2. NamedList(u, list, on) \in (SUBSET Firms) \union {None}
      BY DEF NamedList, Monitor
    <3> QED BY ZenonT(30), <3>1, <3>2 DEF Monitor
  <2>delete. CASE DeleteList(u)
    BY ZenonT(30), <2>delete DEF DeleteList, Monitor
  <2>mail. CASE Unsubscribe(u) \/ SetNotificationPreferences(u)
    <3>1. PICK mail \in BOOLEAN : monitor' = [monitor EXCEPT ![u].mail = mail]
      BY <2>mail DEF Unsubscribe, SetNotificationPreferences
    <3> QED BY ZenonT(30), <3>1 DEF Monitor
  <2>member. CASE \E o \in Firms : AddToList(u, o) \/ RemoveFromList(u, o)
    <3>1. PICK o \in Firms : AddToList(u, o) \/ RemoveFromList(u, o)
      BY <2>member
    <3> DEFINE l == monitor[u].list
    <3>2. /\ l # None /\ l \subseteq Firms
          /\ monitor' \in {[monitor EXCEPT ![u].list = l \union {o}], [monitor EXCEPT ![u].list = l \ {o}]}
      BY <3>1 DEF AddToList, RemoveFromList, List, Monitor
    <3>3. l \union {o} \subseteq Firms /\ l \ {o} \subseteq Firms
      BY <3>1, <3>2
    <3> HIDE DEF l
    <3>4. PICK s \in SUBSET Firms : monitor' = [monitor EXCEPT ![u].list = s]
      BY <3>2, <3>3
    <3> QED BY ZenonT(30), <3>4 DEF Monitor
  <2>discover. CASE \E o \in Firms : DiscoverSingleOrg(u, o)
    BY <2>discover DEF DiscoverSingleOrg
  <2> QED BY <2>monitor, <2>delete, <2>mail, <2>member, <2>discover
<1>2. UNCHANGED <<MailVars, batch, rescore, clock, posting, scraped>>
  BY DEF MailVars, SetMonitorConfig, DeleteList, Unsubscribe, SetNotificationPreferences, AddToList,
         RemoveFromList, DiscoverSingleOrg
<1>3. posting' \in [Postings -> {"unknown", "open", "closed"}] /\ scraped' \subseteq Firms
  BY <1>2 DEF BoardInv, BoardRows
<1> QED BY <1>1, <1>2, <1>3, SettingsKeep

LEMMA ScansKeep ==
  ASSUME BoardInv, ScansMove
  PROVE  BoardInv'
<1> USE DEF ScansMove
<1>1. UNCHANGED <<MailVars, batch, rescore, clock, monitor>>
  BY DEF MailVars, GlobalScan, ScrapeReads, ScrapeWrites, ScrapeFails, CooldownPasses, TheirStackWebhook
<1>2. posting' \in [Postings -> {"unknown", "open", "closed"}]
  BY DEF BoardInv, BoardRows, GlobalScan, ScrapeReads, ScrapeWrites, ScrapeFails, CooldownPasses, TheirStackWebhook,
         Upserted
<1>3. scraped' \subseteq Firms
  BY DEF BoardInv, BoardRows, GlobalScan, ScrapeReads, ScrapeWrites, ScrapeFails, CooldownPasses, TheirStackWebhook,
         Recorded
<1>4. monitor' \in [Seekers -> Monitor]
  BY <1>1 DEF BoardInv, BoardRows
<1> QED BY <1>1, <1>2, <1>3, <1>4, SettingsKeep

-----------------------------------------------------------------------------
\* Scores.

LEMMA ScoreBeginsKeeps ==
  ASSUME BoardInv, NEW u \in Seekers, ScoreBegins(u)
  PROVE  BoardInv'
<1>1. clock' \in 1..MaxClock
  BY BoardAssumption DEF BoardInv, BoardRows, ScoreBegins
<1>2. batch' \in [Seekers -> BatchRow \union {None}]
  <2>1. PICK j \in Postings, v \in Levels :
          batch' = [batch EXCEPT ![u] = [job |-> j, score |-> [at |-> clock', level |-> v]]]
    BY DEF ScoreBegins
  <2>2. [at |-> clock', level |-> v] \in Score
    BY <1>1, BoardAssumption DEF Score
  <2> QED BY <2>1, <2>2 DEF BoardInv, BoardRows, BatchRow
<1> QED BY <1>1, <1>2 DEF ScoreBegins, BoardInv, BoardRows, DigestFits, MatchesAnnounced

\* A match that comes too late for the mail under way is among the unseen.
LEMMA ScoresKeep ==
  ASSUME BoardInv, NEW u \in Seekers, NEW new \in [Postings -> Score], Scores(u, new),
         batch' \in [Seekers -> BatchRow \union {None}], DOMAIN rescore' = Seekers,
         \A v \in Seekers : rescore'[v] # None => \A j \in DOMAIN rescore'[v] : rescore'[v][j] \in Levels,
         UNCHANGED <<monitor, posting, scraped, watermark, digest, clock, announced>>
  PROVE  BoardInv'
<1>1. /\ match' = [match EXCEPT ![u] = new]
      /\ unseen' = unseen \union ({u} \X {j \in Postings : new[j] # match[u][j] /\ Late(u, new[j])})
  BY DEF Scores
<1>2. BoardRows'
  BY <1>1 DEF BoardInv, BoardRows
<1>3. match'[u] = new /\ \A v \in Seekers \ {u} : match'[v] = match[v]
  BY <1>1 DEF BoardInv, BoardRows
<1>4. unseen \subseteq unseen' /\ \A j \in Postings : new[j] # match[u][j] /\ Late(u, new[j]) => <<u, j>> \in unseen'
  BY <1>1
<1>5. ASSUME NEW v \in Seekers, NEW j \in Postings, match'[v][j].level = "match"
      PROVE  /\ match'[v][j].at <= watermark'[v] => <<v, j>> \in announced' \union unseen'
             /\ match'[v][j].at > watermark'[v] =>
                  /\ digest'[v].pc = "listed" => j \in digest'[v].jobs \/ <<v, j>> \in unseen'
                  /\ digest'[v].pc = "sent" => <<v, j>> \in announced' \union unseen'
  <2>1. CASE v = u /\ new[j] # match[u][j]
    BY <1>3, <1>4, <1>5, <2>1 DEF Late
  <2>2. CASE v # u \/ new[j] = match[u][j]
    <3>1. match'[v][j] = match[v][j]
      BY <1>3, <2>2
    <3> QED BY <1>4, <1>5, <3>1 DEF BoardInv, DigestFits, MatchesAnnounced
  <2> QED BY <2>1, <2>2
<1>6. DigestFits' /\ MatchesAnnounced'
  BY <1>5 DEF DigestFits, MatchesAnnounced
<1> QED BY <1>2, <1>6 DEF BoardInv

LEMMA ScoreCommitsKeeps ==
  ASSUME BoardInv, NEW u \in Seekers, ScoreCommits(u)
  PROVE  BoardInv'
<1> DEFINE b == batch[u]
           new == [match[u] EXCEPT ![b.job] = b.score]
<1>1. b \in BatchRow
  BY DEF BoardInv, BoardRows, ScoreCommits
<1>2. /\ batch' = [batch EXCEPT ![u] = None] /\ Scores(u, new)
      /\ UNCHANGED <<monitor, posting, scraped, rescore, watermark, digest, clock, announced>>
  BY DEF ScoreCommits
<1>3. new \in [Postings -> Score] /\ batch' \in [Seekers -> BatchRow \union {None}]
  BY <1>1, <1>2 DEF BoardInv, BoardRows, BatchRow
<1> HIDE DEF new
<1> QED BY <1>2, <1>3, ScoresKeep DEF BoardInv, BoardRows

\* Scores that are computed anew keep their time.
LEMMA RescoreKeeps ==
  ASSUME BoardInv, NEW u \in Seekers, RescoreReads(u) \/ RescoreCommits(u) \/ RescoreFails(u)
  PROVE  BoardInv'
<1>1. CASE RescoreReads(u) \/ RescoreFails(u)
  <2>1. /\ DOMAIN rescore' = Seekers
        /\ \A v \in Seekers : rescore'[v] # None => \A j \in DOMAIN rescore'[v] : rescore'[v][j] \in Levels
    <3>1. CASE RescoreFails(u)
      BY <3>1 DEF RescoreFails, BoardInv, BoardRows
    <3>2. CASE RescoreReads(u)
      <4>1. PICK js \in SUBSET Postings : \E new \in [js -> Levels] : rescore' = [rescore EXCEPT ![u] = new]
        BY <3>2 DEF RescoreReads, Scored
      <4>2. PICK new \in [js -> Levels] : rescore' = [rescore EXCEPT ![u] = new]
        BY <4>1
      <4>3. DOMAIN new = js /\ \A j \in js : new[j] \in Levels
        OBVIOUS
      <4> QED BY <4>2, <4>3 DEF BoardInv, BoardRows
    <3> QED BY <1>1, <3>1, <3>2
  <2> QED BY <1>1, <2>1 DEF RescoreReads, RescoreFails, BoardInv, BoardRows, DigestFits, MatchesAnnounced
<1>2. CASE RescoreCommits(u)
  <2> DEFINE new == [j \in Postings |-> IF j \in Scored(u) \intersect DOMAIN rescore[u]
                                       THEN [match[u][j] EXCEPT !.level = rescore[u][j]] ELSE match[u][j]]
  <2>1. /\ rescore[u] # None /\ rescore' = [rescore EXCEPT ![u] = None] /\ Scores(u, new)
        /\ UNCHANGED <<monitor, posting, scraped, batch, watermark, digest, clock, announced>>
    BY <1>2 DEF RescoreCommits
  <2>2. ASSUME NEW j \in Postings PROVE new[j] \in Score
    <3>1. match[u][j] \in Score
      BY DEF BoardInv, BoardRows
    <3>2. CASE j \in Scored(u) \intersect DOMAIN rescore[u]
      <4>1. rescore[u][j] \in Levels
        BY <2>1, <3>2 DEF BoardInv, BoardRows
      <4> QED BY <3>1, <3>2, <4>1 DEF Score
    <3>3. CASE j \notin Scored(u) \intersect DOMAIN rescore[u]
      BY <3>1, <3>3
    <3> QED BY <3>2, <3>3
  <2>3. new \in [Postings -> Score]
    BY <2>2
  <2> HIDE DEF new
  <2>4. /\ DOMAIN rescore' = Seekers
        /\ \A v \in Seekers : rescore'[v] # None => \A j \in DOMAIN rescore'[v] : rescore'[v][j] \in Levels
    BY <2>1 DEF BoardInv, BoardRows
  <2> QED BY <2>1, <2>3, <2>4, ScoresKeep DEF BoardInv, BoardRows
<1> QED BY <1>1, <1>2

LEMMA ReclassifyKeeps ==
  ASSUME BoardInv, NEW u \in Seekers, ReclassifyAll(u)
  PROVE  BoardInv'
<1>1. /\ match' = [match EXCEPT ![u] = [j \in Postings |-> Unscored]]
      /\ announced' = {m \in announced : m[1] # u} /\ unseen' = {m \in unseen : m[1] # u}
      /\ digest' = [digest EXCEPT ![u].jobs = {}]
      /\ UNCHANGED <<monitor, posting, scraped, scrape, batch, rescore, watermark, clock>>
  BY DEF ReclassifyAll
<1>2. BoardRows'
  <2>1. [j \in Postings |-> Unscored] \in [Postings -> Score]
    BY UnscoredIsScore
  <2>2. match' \in [Seekers -> [Postings -> Score]]
    BY <1>1, <2>1 DEF BoardInv, BoardRows
  <2>3. digest' \in [Seekers -> Digest]
    BY <1>1 DEF BoardInv, BoardRows, Digest
  <2> QED BY <1>1, <2>2, <2>3 DEF BoardInv, BoardRows
<1>3. \A j \in Postings : match'[u][j].level # "match"
  BY <1>1, UnscoredIsScore DEF BoardInv, BoardRows
<1>4. \A v \in Seekers \ {u} : match'[v] = match[v] /\ digest'[v] = digest[v]
  BY <1>1 DEF BoardInv, BoardRows
<1>5. \A v \in Seekers \ {u}, j \in Postings :
        (<<v, j>> \in announced' <=> <<v, j>> \in announced) /\ (<<v, j>> \in unseen' <=> <<v, j>> \in unseen)
  BY <1>1
<1>6. DigestFits' /\ MatchesAnnounced'
  <2> SUFFICES ASSUME NEW v \in Seekers, NEW j \in Postings, match'[v][j].level = "match"
               PROVE /\ match'[v][j].at > watermark'[v] =>
                          /\ digest'[v].pc = "listed" => j \in digest'[v].jobs \/ <<v, j>> \in unseen'
                          /\ digest'[v].pc = "sent" => <<v, j>> \in announced' \union unseen'
                     /\ match'[v][j].at <= watermark'[v] => <<v, j>> \in announced' \union unseen'
    BY DEF DigestFits, MatchesAnnounced
  <2>1. CASE v = u
    BY <2>1, <1>3
  <2>2. CASE v # u
    BY <2>2, <1>1, <1>4, <1>5 DEF BoardInv, DigestFits, MatchesAnnounced
  <2> QED BY <2>1, <2>2
<1> QED BY <1>2, <1>6 DEF BoardInv

-----------------------------------------------------------------------------
\* The mail.

LEMMA MailKeeps ==
  ASSUME BoardInv, NEW u \in Seekers, MailMoves(u)
  PROVE  BoardInv'
<1> USE DEF BoardInv
<1>1. CASE CollectDue(u) \/ CountMatches(u) \/ MailRefused(u) \/ DigestCut(u)
  <2>1. digest \in [Seekers -> Digest] /\ NoDigest \in Digest
    BY DEF BoardRows, Digest, NoDigest
  <2>2. PICK d \in {NoDigest, [digest[u] EXCEPT !.pc = "queued"], [digest[u] EXCEPT !.pc = "counted"]} :
          digest' = [digest EXCEPT ![u] = d]
    BY <1>1 DEF CollectDue, CountMatches, MailRefused, DigestCut
  <2>3. d \in Digest /\ d.pc \notin {"listed", "sent"}
    BY <2>1 DEF Digest, NoDigest
  <2>4. digest' \in [Seekers -> Digest]
    BY <2>1, <2>2, <2>3
  <2>5. UNCHANGED <<monitor, posting, scraped, match, batch, rescore, watermark, clock, announced, unseen>>
    BY <1>1 DEF CollectDue, CountMatches, MailRefused, DigestCut, StaysPut
  <2>6. \A v \in Seekers : digest'[v].pc \in {"listed", "sent"} => digest'[v] = digest[v]
    BY <2>1, <2>2, <2>3
  <2> QED BY <2>4, <2>5, <2>6 DEF BoardRows, DigestFits, MatchesAnnounced
<1>2. CASE ListMatches(u)
  <2>1. PICK jobs \in SUBSET Postings :
          /\ digest' = [digest EXCEPT ![u] = [pc |-> "listed", jobs |-> jobs]]
          /\ unseen' = unseen \union ({u} \X (New(u) \ jobs))
          /\ UNCHANGED <<monitor, posting, scraped, match, batch, rescore, watermark, clock, announced>>
    BY <1>2 DEF ListMatches, ToList, Listable, New
  <2>2. New(u) \subseteq Postings /\ [pc |-> "listed", jobs |-> jobs] \in Digest
    BY DEF New, Digest
  <2>3. BoardRows'
    BY <2>1, <2>2 DEF BoardRows
  <2>4. \A j \in Postings : match[u][j].level = "match" /\ match[u][j].at > watermark[u] =>
                              j \in jobs \/ <<u, j>> \in unseen'
    BY <2>1 DEF New
  <2>5. digest'[u].pc = "listed" /\ digest'[u].jobs = jobs /\ \A v \in Seekers \ {u} : digest'[v] = digest[v]
    BY <2>1 DEF BoardRows
  <2>6. unseen \subseteq unseen'
    BY <2>1
  <2>7. DigestFits'
    BY <2>1, <2>4, <2>5, <2>6 DEF DigestFits
  <2> QED BY <2>1, <2>3, <2>6, <2>7 DEF MatchesAnnounced
<1>3. CASE MailGoes(u)
  <2>1. /\ digest[u].pc = "listed" /\ digest' = [digest EXCEPT ![u].pc = "sent"]
        /\ announced' = announced \union ({u} \X digest[u].jobs)
        /\ UNCHANGED <<monitor, posting, scraped, scrape, match, batch, rescore, watermark, clock, unseen>>
    BY <1>3 DEF MailGoes
  <2>2. digest[u].jobs \subseteq Postings
    BY DEF BoardRows, Digest
  <2>3. BoardRows'
    BY <2>1, <2>2 DEF BoardRows, Digest
  <2>4. /\ digest'[u].pc = "sent" /\ \A v \in Seekers \ {u} : digest'[v] = digest[v]
        /\ \A j \in digest[u].jobs : <<u, j>> \in announced'
    BY <2>1 DEF BoardRows, Digest
  <2> QED BY <2>1, <2>3, <2>4 DEF DigestFits, MatchesAnnounced
<1>4. CASE DigestEnds(u)
  <2>1. /\ digest[u].pc = "sent" /\ digest' = [digest EXCEPT ![u] = NoDigest]
        /\ clock < MaxClock /\ clock' = clock + 1 /\ watermark' = [watermark EXCEPT ![u] = clock']
        /\ UNCHANGED <<monitor, posting, scraped, scrape, match, batch, rescore, announced, unseen>>
    BY <1>4 DEF DigestEnds, Moved
  <2>2. BoardRows'
    BY <2>1, BoardAssumption DEF BoardRows, Digest, NoDigest
  <2>3. /\ digest'[u].pc = "none"
        /\ \A v \in Seekers \ {u} : digest'[v] = digest[v] /\ watermark'[v] = watermark[v]
    BY <2>1 DEF BoardRows, NoDigest
  <2>4. \A j \in Postings : match[u][j].at \in Int /\ watermark[u] \in Int
    BY DEF BoardRows, Score
  <2>5. \A j \in Postings : match[u][j].level = "match" => <<u, j>> \in announced \union unseen
    BY <2>1, <2>4 DEF DigestFits, MatchesAnnounced
  <2>6. DigestFits'
    BY <2>1, <2>3 DEF DigestFits
  <2>7. MatchesAnnounced'
    BY <2>1, <2>3, <2>4, <2>5 DEF MatchesAnnounced
  <2> QED BY <2>2, <2>6, <2>7
<1> QED BY <1>1, <1>2, <1>3, <1>4 DEF MailMoves

LEMMA BoardStepKeeps == BoardInv /\ [BoardNext]_boardVars => BoardInv'
<1> SUFFICES ASSUME BoardInv, [BoardNext]_boardVars PROVE BoardInv'
  OBVIOUS
<1>1. CASE UNCHANGED boardVars
  BY <1>1 DEF boardVars, BoardInv, BoardRows, DigestFits, MatchesAnnounced
<1>2. CASE BoardNext
  BY <1>2, SetsKeep, ScansKeep, ScoreBeginsKeeps, ScoreCommitsKeeps, ReclassifyKeeps, RescoreKeeps, MailKeeps
     DEF BoardNext, ScoresMove
<1> QED BY <1>1, <1>2

-----------------------------------------------------------------------------
\* The theorems.

\* Every variable of JobBoard keeps its type.
THEOREM BoardTypeCorrect == BoardSpec => []BoardTypeOK
<1>1. BoardInv => BoardTypeOK
  BY DEF BoardInv, BoardRows, BoardTypeOK, Monitor, Score, List
<1> QED BY <1>1, BoardInitInv, BoardStepKeeps, PTL DEF BoardSpec

\* No match is passed by the watermark without a mail that listed it, however
\* mail fails, is cut off or goes twice, but those no mail could list.
THEOREM MatchesAreAnnounced == BoardSpec => []MatchesAnnounced
<1>1. BoardInv => MatchesAnnounced
  BY DEF BoardInv
<1> QED BY <1>1, BoardInitInv, BoardStepKeeps, PTL DEF BoardSpec

(***************************************************************************)
(* The next steps of a user.                                               *)
(***************************************************************************)

\* The inductive invariant: the types, and that of the requests under way.

Interests == {"none", "interested", "dismissed"}
TaskStatus == {"none", "open", "done", "skipped"}
Task == [status : TaskStatus, way : Ways]
Opinion == [user : Seekers, posting : Postings, said : {"interested", "dismissed"}, found : Interests, open : BOOLEAN]
Look == [user : Seekers, wanted : SUBSET Postings, seen : [Postings -> TaskStatus]]

StepsInv ==
  /\ interest \in [Seekers -> [Postings -> Interests]] /\ task \in [Seekers -> [Postings -> Task]]
  /\ setup \in [Seekers -> SUBSET Parts] /\ overrides \in [Seekers -> SUBSET Onboarding]
  /\ reach \in [Seekers -> [Firms -> Ways]]
  /\ opinion \in [Looks -> Opinion \union {NoOpinion}] /\ look \in [Looks -> Look \union {NoLook}]

\* What is settled stays so in this step.
SettledKept ==
  \A u \in Seekers, j \in Postings :
    task[u][j].status \in {"done", "skipped"} => task'[u][j].status \in {"done", "skipped"}

LEMMA StepsInitInv == StepsInit => StepsInv
<1> SUFFICES ASSUME StepsInit PROVE StepsInv
  OBVIOUS
<1>1. NoOutreach \in Task /\ "nobody" \in Ways /\ "none" \in Interests
  BY DEF NoOutreach, Task, TaskStatus, Ways, Interests
<1>2. \A s \in Setups : s \subseteq Parts
  BY StepsAssumption
<1> QED BY <1>1, <1>2 DEF StepsInv, StepsInit

-----------------------------------------------------------------------------
\* Bringing the tasks up to date.

LEMMA ReadsTyped ==
  ASSUME NEW u \in Seekers, NEW said \in [Postings -> Interests], NEW seen \in [Postings -> TaskStatus]
  PROVE  [Reads(u, said) EXCEPT !.seen = seen] \in Look
BY DEF Reads, Look

LEMMA GetNextStepsKeeps ==
  ASSUME StepsInv, NEW l \in Looks, NEW u \in Seekers, GetNextSteps(l, u)
  PROVE  StepsInv' /\ SettledKept
<1>1. /\ look' = [look EXCEPT ![l] = Reads(u, interest[u])]
      /\ UNCHANGED <<interest, task, setup, overrides, reach, opinion>>
  BY DEF GetNextSteps
<1>2. Reads(u, interest[u]) \in Look
  BY DEF StepsInv, Reads, Look, Task
<1> QED BY <1>1, <1>2 DEF StepsInv, SettledKept

LEMMA LookFailsKeeps ==
  ASSUME StepsInv, NEW l \in Looks, LookFails(l)
  PROVE  StepsInv' /\ SettledKept
BY DEF StepsInv, LookFails, SettledKept

\* A task is added where there is none, and a renewed one keeps its status.
LEMMA ReconcileKeeps ==
  ASSUME StepsInv, NEW l \in Looks, Reconcile(l)
  PROVE  StepsInv' /\ SettledKept
<1> DEFINE u == look[l].user
<1>1. /\ look[l] # NoLook /\ look' = [look EXCEPT ![l] = NoLook]
      /\ UNCHANGED <<interest, setup, overrides, reach, opinion>>
      /\ task' = task \/ (task' = Reconciled(l) /\ ~Conflict(l))
  BY DEF Reconcile
<1>2. look[l] \in Look /\ u \in Seekers /\ task \in [Seekers -> [Postings -> Task]]
  BY <1>1 DEF StepsInv, Look
<1>3. look' \in [Looks -> Look \union {NoLook}]
  BY <1>1 DEF StepsInv
<1>4. CASE task' = task
  BY <1>1, <1>3, <1>4 DEF StepsInv, SettledKept
<1>5. CASE task' = Reconciled(l) /\ ~Conflict(l)
  <2> DEFINE new == [j \in Postings |->
                       CASE j \in Added(l) -> [status |-> "open", way |-> reach[u][OrgOf[j]]]
                         [] j \in Renewed(l) -> WithWay(task[u][j], reach[u][OrgOf[j]])
                         [] OTHER -> task[u][j]]
  <2>1. task' = [task EXCEPT ![u] = new]
    BY <1>2, <1>5 DEF Reconciled
  <2>2. ASSUME NEW j \in Postings
        PROVE  new[j] \in Task /\ (task[u][j].status \in {"done", "skipped"} => new[j].status = task[u][j].status)
    <3>1. reach[u][OrgOf[j]] \in Ways /\ task[u][j] \in Task
      BY <1>2 DEF StepsInv, Firms
    <3>2. CASE j \in Added(l)
      <4>1. j \notin Renewed(l)
        BY <3>2 DEF Added, Renewed
      <4>2. task[u][j].status = "none"
        BY <1>5, <3>2 DEF Conflict
      <4> QED BY <3>1, <3>2, <4>1, <4>2 DEF Task, TaskStatus
    <3>3. CASE j \notin Added(l) /\ j \in Renewed(l)
      BY <3>1, <3>3 DEF WithWay, Task, TaskStatus
    <3>4. CASE j \notin Added(l) /\ j \notin Renewed(l)
      BY <3>1, <3>4
    <3> QED BY <3>2, <3>3, <3>4
  <2>3. new \in [Postings -> Task]
    BY <2>2
  <2> HIDE DEF new
  <2>4. task'[u] = new /\ (\A v \in Seekers \ {u} : task'[v] = task[v]) /\ task' \in [Seekers -> [Postings -> Task]]
    BY <1>2, <2>1, <2>3
  <2>5. SettledKept
    BY <2>2, <2>4 DEF SettledKept
  <2> QED BY <1>1, <1>3, <2>4, <2>5 DEF StepsInv
<1> QED BY <1>1, <1>4, <1>5

-----------------------------------------------------------------------------
\* What the user says.

LEMMA SetJobInterestKeeps ==
  ASSUME StepsInv, NEW l \in Looks, NEW u \in Seekers, NEW p \in Pursued, SetJobInterest(l, u, p)
  PROVE  StepsInv' /\ SettledKept
<1>1. p \in Postings /\ interest[u][p] \in Interests
  BY StepsAssumption DEF StepsInv
<1>2. PICK i \in {"interested", "dismissed"} :
        opinion' = [opinion EXCEPT ![l] = [user |-> u, posting |-> p, said |-> i, found |-> interest[u][p],
                                         open |-> i = "dismissed" /\ task[u][p].status = "open"]]
  BY DEF SetJobInterest
<1>3. (i = "dismissed" /\ task[u][p].status = "open") \in BOOLEAN
  OBVIOUS
<1>4. opinion' \in [Looks -> Opinion \union {NoOpinion}]
  BY <1>1, <1>2, <1>3 DEF StepsInv, Opinion
<1>5. UNCHANGED <<interest, task, setup, overrides, reach, look>>
  BY DEF SetJobInterest
<1> QED BY <1>4, <1>5 DEF StepsInv, SettledKept

\* The row that was read as open is skipped, whatever it has become.
LEMMA InterestSetKeeps ==
  ASSUME StepsInv, NEW l \in Looks, InterestSet(l)
  PROVE  StepsInv' /\ SettledKept
<1> DEFINE o == opinion[l]
           said == interest'[o.user]
           seen == [j \in Postings |-> task'[o.user][j].status]
<1>1. /\ o \in Opinion /\ opinion' = [opinion EXCEPT ![l] = NoOpinion]
      /\ interest' = [interest EXCEPT ![o.user][o.posting] = o.said]
      /\ task' = task \/ task' = [task EXCEPT ![o.user][o.posting].status = "skipped"]
      /\ look' = [look EXCEPT ![l] = [Reads(o.user, said) EXCEPT !.seen = seen]]
      /\ UNCHANGED <<setup, overrides, reach>>
  BY DEF StepsInv, InterestSet
<1>2. o.user \in Seekers /\ o.posting \in Postings /\ o.said \in Interests
  BY <1>1 DEF Opinion, Interests
<1> HIDE DEF o
<1>3. interest' \in [Seekers -> [Postings -> Interests]] /\ opinion' \in [Looks -> Opinion \union {NoOpinion}]
  BY <1>1, <1>2 DEF StepsInv
<1>4. task \in [Seekers -> [Postings -> Task]]
  BY DEF StepsInv
<1>5. task' \in [Seekers -> [Postings -> Task]] /\ SettledKept
  <2>1. CASE task' = task
    BY <1>4, <2>1 DEF SettledKept
  <2>2. CASE task' = [task EXCEPT ![o.user][o.posting].status = "skipped"]
    <3>1. task[o.user][o.posting] \in Task
      BY <1>2, <1>4
    <3>2. [task[o.user][o.posting] EXCEPT !.status = "skipped"] \in Task
      BY <3>1 DEF Task, TaskStatus
    <3> QED BY <1>2, <1>4, <2>2, <3>1, <3>2 DEF SettledKept, Task
  <2> QED BY <1>1, <2>1, <2>2
<1>6. said \in [Postings -> Interests] /\ seen \in [Postings -> TaskStatus]
  BY <1>2, <1>3, <1>5 DEF Task
<1> HIDE DEF said, seen
<1>7. look' \in [Looks -> Look \union {NoLook}]
  BY <1>1, <1>2, <1>6, ReadsTyped DEF StepsInv
<1> QED BY <1>1, <1>3, <1>5, <1>7 DEF StepsInv

LEMMA UserKeeps ==
  ASSUME StepsInv, NEW u \in Seekers,
         UpdateTaskStatus(u) \/ SetupMoves(u) \/ \E o \in Firms : ReachMoves(u, o)
  PROVE  StepsInv' /\ SettledKept
<1>1. UNCHANGED <<interest, opinion, look>>
  BY DEF UpdateTaskStatus, SetupMoves, ReachMoves
<1>2. task' \in [Seekers -> [Postings -> Task]] /\ SettledKept
  <2>1. task \in [Seekers -> [Postings -> Task]]
    BY DEF StepsInv
  <2>2. CASE UNCHANGED task
    BY <2>1, <2>2 DEF SettledKept
  <2>3. CASE \E j \in Pursued, s \in {"done", "skipped"} : task' = [task EXCEPT ![u][j].status = s]
    <3>1. PICK j \in Pursued, s \in {"done", "skipped"} : task' = [task EXCEPT ![u][j].status = s]
      BY <2>3
    <3>2. j \in Postings
      BY <3>1, StepsAssumption
    <3>3. [task[u][j] EXCEPT !.status = s] \in Task /\ [task[u][j] EXCEPT !.status = s].status = s
      BY <2>1, <3>1, <3>2 DEF Task, TaskStatus
    <3> QED BY <2>1, <3>1, <3>2, <3>3 DEF SettledKept
  <2> QED BY <2>2, <2>3 DEF UpdateTaskStatus, SetupMoves, ReachMoves
<1>3. setup' \in [Seekers -> SUBSET Parts] /\ overrides' \in [Seekers -> SUBSET Onboarding]
  <2>1. setup \in [Seekers -> SUBSET Parts] /\ overrides \in [Seekers -> SUBSET Onboarding]
    BY DEF StepsInv
  <2>2. \A k \in Markable : overrides[u] \union {k} \subseteq Onboarding
    BY <2>1, StepsAssumption
  <2>3. \A s \in Setups : s \subseteq Parts
    BY StepsAssumption
  <2> QED BY <2>1, <2>2, <2>3 DEF UpdateTaskStatus, SetupMoves, ReachMoves
<1>4. reach' \in [Seekers -> [Firms -> Ways]]
  <2>1. CASE \E o \in Firms : ReachMoves(u, o)
    <3>1. PICK o \in Firms, w \in Ways : reach' = [reach EXCEPT ![u][o] = w]
      BY <2>1 DEF ReachMoves
    <3> QED BY <3>1 DEF StepsInv
  <2> QED BY <2>1 DEF StepsInv, UpdateTaskStatus, SetupMoves
<1> QED BY <1>1, <1>2, <1>3, <1>4 DEF StepsInv

LEMMA StepsStepKeeps ==
  ASSUME StepsInv,
         [(StepsNext /\ UNCHANGED boardVars) \/ (BoardNext /\ UNCHANGED stepsVars)]_<<boardVars, stepsVars>>
  PROVE  StepsInv' /\ SettledKept
<1>1. CASE UNCHANGED stepsVars
  BY <1>1 DEF StepsInv, stepsVars, SettledKept
<1>2. CASE StepsNext
  BY <1>2, GetNextStepsKeeps, LookFailsKeeps, ReconcileKeeps, SetJobInterestKeeps, InterestSetKeeps, UserKeeps
     DEF StepsNext
<1> QED BY <1>1, <1>2

-----------------------------------------------------------------------------
\* The theorems.

\* Every variable of NextSteps keeps its type.
THEOREM StepsTypeCorrect == StepsSpec => []StepsTypeOK
<1>1. StepsInv => StepsTypeOK
  BY DEF StepsInv, StepsTypeOK, Interests, Task, TaskStatus
<1> QED BY <1>1, StepsInitInv, StepsStepKeeps, PTL DEF StepsSpec

\* A task that was done or skipped is never open again, whatever requests had
\* read of it before.
THEOREM SettledTasksStay == StepsSpec => SettledStays
<1>1. StepsInv /\ [(StepsNext /\ UNCHANGED boardVars) \/ (BoardNext /\ UNCHANGED stepsVars)]_<<boardVars, stepsVars>>
      => StepsInv' /\ [SettledKept]_stepsVars
  BY StepsStepKeeps
<1> QED BY <1>1, StepsInitInv, PTL DEF StepsSpec, SettledStays, SettledKept

(***************************************************************************)
(* What a page shows of scoring.                                           *)
(***************************************************************************)

\* Once the page has come to the end of its queue, it is astray: the last thing
\* that leads it astray is after the last end.
EndsAstray(q, stray) ==
  \/ stray /\ \A k \in DOMAIN q : q[k] \notin Endings
  \/ \E i \in DOMAIN q : q[i] = "silence" /\ \A k \in DOMAIN q : k > i => q[k] \notin Endings

\* Or it shows nothing as active: an end is after the last progress.
EndsHidden(q, active) ==
  \/ ~active /\ \A k \in DOMAIN q : q[k] # "scoring_progress"
  \/ \E i \in DOMAIN q : q[i] \in Endings /\ \A k \in DOMAIN q : k > i => q[k] # "scoring_progress"

Calm(q, active, stray) == EndsAstray(q, stray) \/ EndsHidden(q, active)

LEMMA CalmEmpty ==
  ASSUME NEW active \in BOOLEAN, NEW stray \in BOOLEAN
  PROVE  Calm(<<>>, active, stray) <=> ~active \/ stray
BY DEF Calm, EndsAstray, EndsHidden

LEMMA CalmTold ==
  ASSUME NEW q \in Seq(Entries), NEW x \in Endings \union {"silence"}, NEW active, NEW stray
  PROVE  Calm(Append(q, x), active, stray)
<1>1. /\ Append(q, x)[Len(q) + 1] = x /\ Len(q) + 1 \in DOMAIN Append(q, x)
      /\ \A k \in DOMAIN Append(q, x) : k <= Len(q) + 1
  OBVIOUS
<1> QED BY <1>1 DEF Calm, EndsAstray, EndsHidden

\* The progress that is read when the stream opens may have been of a run that
\* is over; the page is then astray.
LEMMA CalmRead ==
  ASSUME NEW q \in Seq(Entries), NEW active \in BOOLEAN, NEW stray \in BOOLEAN, Calm(q, active, stray)
  PROVE  Calm(q, TRUE, TRUE)
BY DEF Calm, EndsAstray, EndsHidden

\* One entry is handled.
LEMMA CalmNext ==
  ASSUME NEW q \in Seq(Entries), q # <<>>, NEW active \in BOOLEAN, NEW stray \in BOOLEAN, Calm(q, active, stray)
  PROVE  Calm(Tail(q), HandleJobEvent(Head(q), active), IF Head(q) \in Endings THEN FALSE ELSE stray \/ Head(q) = "silence")
<1>1. PICK t : t = Tail(q)
  OBVIOUS
<1>2. /\ DOMAIN q = 1..Len(q) /\ 1 \in DOMAIN q /\ Head(q) = q[1] /\ q[1] \in Entries
      /\ \A k \in DOMAIN t : k \in Nat /\ t[k] = q[k + 1] /\ k + 1 \in DOMAIN q /\ k + 1 > 1
      /\ \A k \in DOMAIN q : k \in Nat /\ (k = 1 \/ (k > 1 /\ k - 1 \in DOMAIN t /\ t[k - 1] = q[k]))
  BY <1>1
<1>3. \A i \in DOMAIN q, k \in DOMAIN t : k > i - 1 => k + 1 > i
  BY <1>2
<1> DEFINE handled == HandleJobEvent(q[1], active)
           left == IF q[1] \in Endings THEN FALSE ELSE stray \/ q[1] = "silence"
<1>4. SUFFICES Calm(t, handled, left)
  BY <1>1, <1>2, Zenon
<1>5. ~("silence" \in Endings) /\ ~("scoring_progress" \in Endings)
  BY DEF Endings, EventTypes
<1>6. CASE stray /\ \A k \in DOMAIN q : q[k] \notin Endings
  BY <1>2, <1>6 DEF Calm, EndsAstray
<1>7. CASE \E i \in DOMAIN q : q[i] = "silence" /\ \A k \in DOMAIN q : k > i => q[k] \notin Endings
  <2>1. PICK i \in DOMAIN q : q[i] = "silence" /\ \A k \in DOMAIN q : k > i => q[k] \notin Endings
    BY <1>7
  <2>2. CASE i = 1
    BY <1>2, <1>5, <2>1, <2>2 DEF Calm, EndsAstray
  <2>3. CASE i > 1
    <3>1. i - 1 \in DOMAIN t /\ t[i - 1] = "silence" /\ \A k \in DOMAIN t : k > i - 1 => t[k] \notin Endings
      BY <1>2, <1>3, <2>1, <2>3
    <3> QED BY <3>1 DEF Calm, EndsAstray
  <2>4. i = 1 \/ i > 1
    BY <1>2
  <2> QED BY <2>2, <2>3, <2>4, Zenon
<1>8. CASE ~active /\ \A k \in DOMAIN q : q[k] # "scoring_progress"
  <2>1. ~handled /\ \A k \in DOMAIN t : t[k] # "scoring_progress"
    BY <1>2, <1>8 DEF HandleJobEvent
  <2> QED BY <2>1 DEF Calm, EndsHidden
<1>9. CASE \E i \in DOMAIN q : q[i] \in Endings /\ \A k \in DOMAIN q : k > i => q[k] # "scoring_progress"
  <2>1. PICK i \in DOMAIN q : q[i] \in Endings /\ \A k \in DOMAIN q : k > i => q[k] # "scoring_progress"
    BY <1>9
  <2>2. CASE i = 1
    <3>1. ~handled /\ \A k \in DOMAIN t : t[k] # "scoring_progress"
      BY <1>2, <2>1, <2>2 DEF HandleJobEvent
    <3> QED BY <3>1 DEF Calm, EndsHidden
  <2>3. CASE i > 1
    <3>1. i - 1 \in DOMAIN t /\ t[i - 1] \in Endings /\ \A k \in DOMAIN t : k > i - 1 => t[k] # "scoring_progress"
      BY <1>2, <1>3, <2>1, <2>3
    <3> QED BY <3>1 DEF Calm, EndsHidden
  <2>4. i = 1 \/ i > 1
    BY <1>2
  <2> QED BY <2>2, <2>3, <2>4, Zenon
<1>10. EndsAstray(q, stray) \/ EndsHidden(q, active)
  BY DEF Calm
<1> QED BY <1>6, <1>7, <1>8, <1>9, <1>10, Zenon DEF EndsAstray, EndsHidden

\* What was queued is gone with the connection.
LEMMA CalmClosed ==
  ASSUME NEW q \in Seq(Entries), NEW active \in BOOLEAN, NEW stray \in BOOLEAN, Calm(q, active, stray)
  PROVE  ~active \/ stray \/ Tells(q)
BY DEF Calm, EndsAstray, EndsHidden, Tells, Endings, EventTypes

-----------------------------------------------------------------------------
\* The inductive invariant, in parts.

Run == [pc : {"none", "written", "scoring", "clearing", "over"}, batches : Nat]
Message == [run : ScoringRuns, no : Nat, what : EventTypes]
Page == [pc : {"away", "opening", "streaming"}, queue : Seq(Entries), listening : BOOLEAN]

EventRows ==
  /\ useWorker \in BOOLEAN /\ progress \in BOOLEAN
  /\ scoring \in [ScoringRuns -> Run] /\ wire \subseteq Message
  /\ page \in [Pages -> Page]
  /\ shown \in [Pages -> BOOLEAN] /\ astray \in [Pages -> BOOLEAN]

AwayEmpty == \A g \in Pages : page[g].pc = "away" => page[g] = Closed
WireBegun == \A m \in wire : scoring[m.run].pc # "none"

\* What a page shows is right, or will be told, or the page is calm.
EndOnTheWay == \E m \in wire : m.what \in Endings
PagesFit == \A g \in Pages : UnderWay \/ EndOnTheWay \/ Calm(page[g].queue, shown[g], astray[g])

EventsInv == EventRows /\ AwayEmpty /\ WireBegun /\ PagesFit

LEMMA ClosedIsPage == Closed \in Page
BY DEF Closed, Page

LEMMA EventsInitInv == EventsInit => EventsInv
<1> SUFFICES ASSUME EventsInit PROVE EventsInv
  OBVIOUS
<1>1. EventRows /\ AwayEmpty /\ WireBegun
  BY ClosedIsPage DEF EventsInit, EventRows, AwayEmpty, WireBegun, NotBegun, Run
<1>2. PagesFit
  BY CalmEmpty DEF EventsInit, PagesFit, Closed
<1> QED BY <1>1, <1>2 DEF EventsInv

-----------------------------------------------------------------------------
\* Publishing: what becomes of the pages.

Sent == {<<"silence">>, <<"scoring_progress", "silence">>} \union {<<e>> : e \in EventTypes}

LEMMA SentEntries == \A x \in Sent : x \in Seq(Entries)
<1>1. "silence" \in Entries /\ "scoring_progress" \in Entries /\ \A e \in EventTypes : e \in Entries
  BY DEF Entries, EventTypes
<1>2. \A e \in Entries : <<e>> \in Seq(Entries)
  OBVIOUS
<1>3. <<"scoring_progress", "silence">> \in Seq(Entries)
  BY <1>1
<1> QED BY <1>1, <1>2, <1>3 DEF Sent

LEMMA GetsRows ==
  ASSUME EventRows, AwayEmpty, NEW x \in Sent, NEW to \in SUBSET Connected, NEW missing \in SUBSET Connected,
         Gets(x, to, missing)
  PROVE  page' \in [Pages -> Page] /\ astray' \in [Pages -> BOOLEAN] /\ AwayEmpty'
<1>1. x \in Seq(Entries) /\ "silence" \in Entries
  BY SentEntries DEF Entries
<1>2. ASSUME NEW g \in Pages
      PROVE  page'[g] \in Page /\ page'[g].pc = page[g].pc /\ (g \notin Connected => page'[g] = page[g])
  <2>1. page[g] \in Page /\ page[g].queue \in Seq(Entries)
    BY DEF EventRows, Page
  <2>2. CASE g \in to
    <3>1. page'[g] = [page[g] EXCEPT !.queue = page[g].queue \o x]
      BY <2>2 DEF Gets
    <3>2. page[g].queue \o x \in Seq(Entries)
      BY <1>1, <2>1
    <3> QED BY <2>1, <2>2, <3>1, <3>2 DEF Page
  <2>3. CASE g \notin to /\ g \in missing /\ Tells(x)
    <3>1. page'[g] = [page[g] EXCEPT !.queue = Append(page[g].queue, "silence")]
      BY <2>3 DEF Gets
    <3>2. Append(page[g].queue, "silence") \in Seq(Entries)
      BY <1>1, <2>1
    <3> QED BY <2>1, <2>3, <3>1, <3>2 DEF Page
  <2>4. CASE g \notin to /\ ~(g \in missing /\ Tells(x))
    BY <2>1, <2>4 DEF Gets
  <2> QED BY <2>2, <2>3, <2>4
<1>3. page' \in [Pages -> Page]
  BY <1>2 DEF Gets
<1>4. astray' \in [Pages -> BOOLEAN]
  BY DEF Gets, EventRows
<1>5. AwayEmpty'
  BY <1>2 DEF AwayEmpty, Connected
<1> QED BY <1>3, <1>4, <1>5

LEMMA TwoMore ==
  ASSUME NEW S, NEW q \in Seq(S), NEW a \in S, NEW b \in S
  PROVE  q \o <<a, b>> = Append(Append(q, a), b)
<1>1. /\ <<a, b>> \in Seq(S) /\ Len(<<a, b>>) = 2 /\ <<a, b>>[1] = a /\ <<a, b>>[2] = b
      /\ Append(q, a) \in Seq(S) /\ Len(Append(q, a)) = Len(q) + 1
  OBVIOUS
<1>2. /\ q \o <<a, b>> \in Seq(S) /\ Append(Append(q, a), b) \in Seq(S)
      /\ Len(q \o <<a, b>>) = Len(q) + 2 /\ Len(Append(Append(q, a), b)) = Len(q) + 2
  BY <1>1
<1>3. ASSUME NEW i \in 1..Len(q) + 2 PROVE (q \o <<a, b>>)[i] = Append(Append(q, a), b)[i]
  BY <1>1
<1> QED BY <1>2, <1>3, SeqEqual

\* What tells of an end leaves every page calm, those that miss it too.
LEMMA GetsCalms ==
  ASSUME EventRows, AwayEmpty, NEW x \in Sent, x # <<"scoring_progress">>, NEW to \in SUBSET Connected,
         Gets(x, to, Connected \ to), NEW g \in Pages
  PROVE  Calm(page'[g].queue, shown[g], astray'[g])
<1>1. page[g] \in Page /\ page[g].queue \in Seq(Entries) /\ shown[g] \in BOOLEAN
  BY DEF EventRows, Page
<1>2. Tells(x)
  BY DEF Sent, Tells
<1>3. "scoring_progress" \in Entries /\ "silence" \in Entries /\ Endings \subseteq Entries
  BY DEF Entries, Endings, EventTypes
<1>4. CASE g \in to
  <2>1. page'[g].queue = page[g].queue \o x
    BY <1>1, <1>4 DEF Gets, Page
  <2>2. CASE x = <<"scoring_progress", "silence">>
    <3>1. page[g].queue \o x = Append(Append(page[g].queue, "scoring_progress"), "silence")
      BY SMTT(30), <1>1, <1>3, <2>2, TwoMore
    <3>2. Append(page[g].queue, "scoring_progress") \in Seq(Entries)
      BY <1>1, <1>3
    <3> QED BY <2>1, <3>1, <3>2, CalmTold
  <2>3. CASE \E e \in Endings \union {"silence"} : x = <<e>>
    <3>1. PICK e \in Endings \union {"silence"} : x = <<e>>
      BY <2>3
    <3>2. page[g].queue \o x = Append(page[g].queue, e)
      BY <1>1, <1>3, <3>1
    <3> QED BY <1>1, <2>1, <3>1, <3>2, CalmTold
  <2> QED BY <2>2, <2>3 DEF Sent, Endings
<1>5. CASE g \in Connected \ to
  <2>1. page'[g].queue = Append(page[g].queue, "silence")
    BY <1>1, <1>2, <1>5 DEF Gets, Page
  <2> QED BY <1>1, <2>1, CalmTold
<1>6. CASE g \notin Connected
  <2>1. page'[g] = page[g] /\ astray'[g] = TRUE
    BY <1>2, <1>6 DEF Gets
  <2>2. page[g].queue = <<>>
    BY <1>6 DEF AwayEmpty, Connected, Closed
  <2> QED BY <1>1, <2>1, <2>2, CalmEmpty
<1> QED BY <1>4, <1>5, <1>6

\* The server's own runs reach every page that is connected.
LEMMA PublishRows ==
  ASSUME EventRows, AwayEmpty, NEW r \in ScoringRuns, NEW n \in Nat, NEW x \in EventTypes, Publish(r, n, x)
  PROVE  /\ page' \in [Pages -> Page] /\ astray' \in [Pages -> BOOLEAN] /\ AwayEmpty'
         /\ wire \subseteq wire' /\ wire' \subseteq Message
         /\ \A m \in wire' \ wire : m.run = r /\ m.what = x
         /\ useWorker => \E m \in wire' : m.what = x
<1>1. CASE useWorker
  <2> DEFINE m == [run |-> r, no |-> n, what |-> x]
  <2>1. m \in Message /\ m.run = r /\ m.what = x
    BY DEF Message
  <2>2. wire' = wire \union {m} /\ UNCHANGED <<page, astray>>
    BY <1>1 DEF Publish
  <2> HIDE DEF m
  <2> QED BY <2>1, <2>2 DEF EventRows, AwayEmpty
<1>2. CASE ~useWorker
  <2>1. Gets(<<x>>, {g \in Pages : Registered(g)}, {}) /\ UNCHANGED wire
    BY <1>2 DEF Publish
  <2>2. {g \in Pages : Registered(g)} \in SUBSET Connected /\ {} \in SUBSET Connected /\ <<x>> \in Sent
    BY DEF Registered, Connected, Sent
  <2> QED BY <1>2, <2>1, <2>2, GetsRows DEF EventRows
<1> QED BY <1>1, <1>2 DEF EventRows

-----------------------------------------------------------------------------
\* Runs.

LEMMA GoesRows ==
  ASSUME EventRows, NEW r \in ScoringRuns, NEW pc \in {"written", "scoring", "clearing", "over"}, Goes(r, pc)
  PROVE  /\ scoring' \in [ScoringRuns -> Run] /\ scoring'[r].pc = pc
         /\ \A o \in ScoringRuns \ {r} : scoring'[o] = scoring[o]
<1>1. [scoring[r] EXCEPT !.pc = pc] \in Run /\ [scoring[r] EXCEPT !.pc = pc].pc = pc
  BY DEF EventRows, Run
<1>2. scoring' = [scoring EXCEPT ![r] = [scoring[r] EXCEPT !.pc = pc]]
  BY DEF Goes
<1> HIDE DEF Run
<1> QED BY <1>1, <1>2 DEF EventRows

\* A run that is under way goes on: whatever the pages show is right.
LEMMA RunGoesOn ==
  ASSUME EventsInv, NEW r \in ScoringRuns, RunBegins(r) \/ ProgressWritten(r) \/ BatchScored(r)
  PROVE  EventsInv'
<1>1. EventRows /\ AwayEmpty /\ WireBegun
  BY DEF EventsInv
<1>2. scoring[r] \in Run /\ Batches[r] \in Nat
  BY <1>1, EventsAssumption DEF EventRows
<1>3. /\ scoring' \in [ScoringRuns -> Run] /\ scoring'[r].pc \in {"written", "scoring"}
      /\ \A o \in ScoringRuns \ {r} : scoring'[o] = scoring[o]
  <2>1. CASE RunBegins(r) \/ ProgressWritten(r)
    BY <1>1, <2>1, GoesRows DEF RunBegins, ProgressWritten
  <2>2. CASE BatchScored(r)
    <3> DEFINE new == [pc |-> IF useWorker THEN "written" ELSE "scoring", batches |-> scoring[r].batches + 1]
    <3>1. scoring' = [scoring EXCEPT ![r] = new]
      BY <2>2 DEF BatchScored
    <3>2. new \in Run /\ new.pc \in {"written", "scoring"}
      BY <1>2 DEF Run
    <3> HIDE DEF new
    <3> QED BY <1>1, <3>1, <3>2 DEF EventRows
  <2> QED BY <2>1, <2>2
<1>4. UnderWay'
  BY <1>3 DEF UnderWay
<1>5. /\ page' \in [Pages -> Page] /\ astray' \in [Pages -> BOOLEAN] /\ AwayEmpty'
      /\ wire' \subseteq Message /\ \A m \in wire' \ wire : m.run = r
  <2>1. CASE \E n \in Nat : Publish(r, n, "scoring_progress")
    BY <1>1, <2>1, PublishRows DEF EventTypes
  <2>2. CASE UNCHANGED <<wire, page, astray>>
    BY <1>1, <2>2 DEF EventRows, AwayEmpty
  <2>3. 0 \in Nat /\ scoring[r].batches \in Nat /\ scoring'[r].batches \in Nat
    BY <1>2, <1>3 DEF Run
  <2> QED BY <2>1, <2>2, <2>3 DEF RunBegins, ProgressWritten, BatchScored
<1>6. EventRows'
  BY <1>1, <1>3, <1>5 DEF EventRows, RunBegins, ProgressWritten, BatchScored
<1>7. WireBegun'
  <2> SUFFICES ASSUME NEW m \in wire' PROVE scoring'[m.run].pc # "none"
    BY DEF WireBegun
  <2>1. m.run \in ScoringRuns
    BY <1>5 DEF Message
  <2> QED BY <1>1, <1>3, <1>5, <2>1 DEF WireBegun
<1> QED BY <1>4, <1>5, <1>6, <1>7 DEF EventsInv, PagesFit

\* It ends, and the pages are told at once, or will be.
LEMMA RunEndsKeeps ==
  ASSUME EventsInv, NEW r \in ScoringRuns, RunEnds(r)
  PROVE  EventsInv'
<1>1. EventRows /\ AwayEmpty /\ WireBegun /\ PagesFit
  BY DEF EventsInv
<1>2. Batches[r] + 1 \in Nat /\ Ending[r] \in Endings /\ Ending[r] \in EventTypes
  BY EventsAssumption DEF Endings
<1>3. /\ scoring' \in [ScoringRuns -> Run] /\ scoring'[r].pc \in {"clearing", "over"}
      /\ \A o \in ScoringRuns \ {r} : scoring'[o] = scoring[o]
  BY <1>1, GoesRows DEF RunEnds
<1>4. Publish(r, Batches[r] + 1, Ending[r])
  BY DEF RunEnds
<1>5. /\ page' \in [Pages -> Page] /\ astray' \in [Pages -> BOOLEAN] /\ AwayEmpty'
      /\ wire' \subseteq Message /\ \A m \in wire' \ wire : m.run = r
      /\ useWorker => \E m \in wire' : m.what = Ending[r]
  BY <1>1, <1>2, <1>4, PublishRows
<1>6. EventRows'
  BY <1>1, <1>3, <1>5 DEF EventRows, RunEnds
<1>7. WireBegun'
  <2> SUFFICES ASSUME NEW m \in wire' PROVE scoring'[m.run].pc # "none"
    BY DEF WireBegun
  <2>1. m.run \in ScoringRuns
    BY <1>5 DEF Message
  <2> QED BY <1>1, <1>3, <1>5, <2>1 DEF WireBegun
<1>8. PagesFit'
  <2>1. CASE useWorker
    BY <1>2, <1>5, <2>1 DEF PagesFit, EndOnTheWay
  <2>2. CASE ~useWorker
    <3> DEFINE to == {g \in Pages : Registered(g)}
    <3>1. to = Connected
      BY <1>1 DEF Registered, Connected, EventRows, Page
    <3>2. Gets(<<Ending[r]>>, to, {})
      BY <1>4, <2>2 DEF Publish
    <3>3. Connected \ Connected = {} /\ Connected \in SUBSET Connected
      OBVIOUS
    <3> HIDE DEF to
    <3>4. Gets(<<Ending[r]>>, Connected, Connected \ Connected)
      BY <3>1, <3>2, <3>3
    <3>5. <<Ending[r]>> \in Sent /\ <<Ending[r]>> # <<"scoring_progress">>
      BY <1>2 DEF Sent, Endings
    <3>6. \A g \in Pages : Calm(page'[g].queue, shown[g], astray'[g])
      BY <1>1, <3>3, <3>4, <3>5, GetsCalms
    <3> QED BY <3>6 DEF PagesFit, RunEnds
  <2> QED BY <1>1, <2>1, <2>2 DEF EventRows
<1> QED BY <1>5, <1>6, <1>7, <1>8 DEF EventsInv

LEMMA ClearProgressKeeps ==
  ASSUME EventsInv, NEW r \in ScoringRuns, ClearProgress(r)
  PROVE  EventsInv'
<1>1. EventRows /\ AwayEmpty /\ WireBegun /\ PagesFit
  BY DEF EventsInv
<1>2. /\ scoring' \in [ScoringRuns -> Run] /\ scoring'[r].pc = "over" /\ scoring[r].pc = "clearing"
      /\ \A o \in ScoringRuns \ {r} : scoring'[o] = scoring[o]
  BY <1>1, GoesRows DEF ClearProgress, At
<1>3. EventRows'
  BY <1>1, <1>2 DEF EventRows, ClearProgress, Cleared
<1>4. AwayEmpty'
  BY <1>1 DEF AwayEmpty, ClearProgress
<1>5. WireBegun'
  BY <1>1, <1>2 DEF WireBegun, EventRows, Message, ClearProgress
<1>6. UnderWay => UnderWay'
  BY <1>2 DEF UnderWay
<1>7. PagesFit'
  BY <1>1, <1>6 DEF PagesFit, EndOnTheWay, ClearProgress
<1> QED BY <1>3, <1>4, <1>5, <1>7 DEF EventsInv

\* It fails, of which no page is told.
LEMMA RunFailsKeeps ==
  ASSUME EventsInv, NEW r \in ScoringRuns, RunFails(r)
  PROVE  EventsInv'
<1>1. EventRows /\ AwayEmpty /\ WireBegun /\ PagesFit
  BY DEF EventsInv
<1>2. /\ scoring' \in [ScoringRuns -> Run] /\ scoring'[r].pc = "over"
      /\ \A o \in ScoringRuns \ {r} : scoring'[o] = scoring[o]
  BY <1>1, GoesRows DEF RunFails
<1>3. <<"silence">> \in Sent /\ <<"silence">> # <<"scoring_progress">>
      /\ Connected \in SUBSET Connected /\ {} \in SUBSET Connected /\ Connected \ Connected = {}
  BY DEF Sent
<1>4. Gets(<<"silence">>, Connected, {})
  BY DEF RunFails
<1>5. page' \in [Pages -> Page] /\ astray' \in [Pages -> BOOLEAN] /\ AwayEmpty'
  BY <1>1, <1>3, <1>4, GetsRows
<1>6. \A g \in Pages : Calm(page'[g].queue, shown[g], astray'[g])
  BY <1>1, <1>3, <1>4, GetsCalms
<1>7. EventRows'
  BY <1>1, <1>2, <1>5 DEF EventRows, RunFails, Cleared
<1>8. WireBegun'
  BY <1>1, <1>2 DEF WireBegun, EventRows, Message, RunFails
<1>9. PagesFit'
  BY <1>6 DEF PagesFit, RunFails
<1> QED BY <1>5, <1>7, <1>8, <1>9 DEF EventsInv

-----------------------------------------------------------------------------
\* Redis.

\* The progress of a run that is over, and whose end was told, is known to lead
\* astray; with any other, something is under way, or an end is to come.
LEMMA PublishRedisKeeps ==
  ASSUME EventsInv, NEW m \in wire, PublishRedis(m)
  PROVE  EventsInv'
<1>1. EventRows /\ AwayEmpty /\ WireBegun /\ PagesFit
  BY DEF EventsInv
<1> DEFINE x == IF Overtaken(m) THEN <<m.what, "silence">> ELSE <<m.what>>
<1>2. m \in Message /\ scoring[m.run].pc \in {"written", "scoring", "clearing", "over"}
  BY <1>1 DEF EventRows, Message, WireBegun, Run
<1>3. x \in Sent
  BY <1>2 DEF Overtaken, Sent, Message
<1>4. Gets(x, Listeners, Connected \ Listeners) /\ wire' = wire \ {m}
      /\ UNCHANGED <<useWorker, scoring, progress, shown>>
  BY DEF PublishRedis
<1>5. Listeners \in SUBSET Connected /\ Connected \ Listeners \in SUBSET Connected
  BY <1>1 DEF Listeners, Connected, AwayEmpty, Closed
<1>6. page' \in [Pages -> Page] /\ astray' \in [Pages -> BOOLEAN] /\ AwayEmpty'
  BY <1>1, <1>3, <1>4, <1>5, GetsRows
<1>7. EventRows' /\ WireBegun'
  BY <1>1, <1>4, <1>6 DEF EventRows, WireBegun
<1>8. CASE x # <<"scoring_progress">>
  <2>1. \A g \in Pages : Calm(page'[g].queue, shown[g], astray'[g])
    BY <1>1, <1>3, <1>4, <1>5, <1>8, GetsCalms
  <2> QED BY <1>4, <1>6, <1>7, <2>1 DEF EventsInv, PagesFit
<1>9. CASE x = <<"scoring_progress">>
  <2>1. m.what = "scoring_progress" /\ ~Overtaken(m)
    BY <1>9
  <2>2. CASE scoring[m.run].pc \in {"written", "scoring"}
    <3>1. UnderWay'
      BY <1>2, <1>4, <2>2 DEF UnderWay, Message
    <3> QED BY <1>6, <1>7, <3>1 DEF EventsInv, PagesFit
  <2>3. CASE scoring[m.run].pc \in {"clearing", "over"}
    <3>1. PICK o \in wire : o.run = m.run /\ o.what # "scoring_progress"
      BY <2>1, <2>3 DEF Overtaken
    <3>2. o \in wire' /\ o.what \in Endings
      BY <1>1, <1>4, <2>1, <3>1 DEF EventRows, Message, Endings
    <3> QED BY <1>6, <1>7, <3>2 DEF EventsInv, PagesFit, EndOnTheWay
  <2> QED BY <1>2, <2>2, <2>3
<1> QED BY <1>8, <1>9

LEMMA PublishFailsKeeps ==
  ASSUME EventsInv, NEW m \in wire, PublishFails(m)
  PROVE  EventsInv'
<1>1. EventRows /\ AwayEmpty /\ WireBegun /\ PagesFit
  BY DEF EventsInv
<1>2. <<"silence">> \in Sent /\ <<"silence">> # <<"scoring_progress">>
      /\ Connected \in SUBSET Connected /\ {} \in SUBSET Connected /\ Connected \ Connected = {}
  BY DEF Sent
<1>3. Gets(<<"silence">>, Connected, {}) /\ wire' = wire \ {m}
      /\ UNCHANGED <<useWorker, scoring, progress, shown>>
  BY DEF PublishFails
<1>4. page' \in [Pages -> Page] /\ astray' \in [Pages -> BOOLEAN] /\ AwayEmpty'
  BY <1>1, <1>2, <1>3, GetsRows
<1>5. \A g \in Pages : Calm(page'[g].queue, shown[g], astray'[g])
  BY <1>1, <1>2, <1>3, GetsCalms
<1>6. EventRows' /\ WireBegun'
  BY <1>1, <1>3, <1>4 DEF EventRows, WireBegun
<1> QED BY <1>3, <1>4, <1>5, <1>6 DEF EventsInv, PagesFit

-----------------------------------------------------------------------------
\* Pages.

\* One page changes, and stays right.
LEMMA OnePage ==
  ASSUME EventsInv, NEW g \in Pages, NEW new \in Page, NEW active \in BOOLEAN, NEW stray \in BOOLEAN,
         page' = [page EXCEPT ![g] = new], shown' = [shown EXCEPT ![g] = active], astray' = [astray EXCEPT ![g] = stray],
         UNCHANGED <<useWorker, scoring, progress, wire>>,
         new.pc = "away" => new = Closed,
         UnderWay \/ EndOnTheWay \/ Calm(new.queue, active, stray)
  PROVE  EventsInv'
<1>1. EventRows /\ AwayEmpty /\ WireBegun /\ PagesFit
  BY DEF EventsInv
<1>2. /\ page'[g] = new /\ shown'[g] = active /\ astray'[g] = stray
      /\ page' \in [Pages -> Page] /\ shown' \in [Pages -> BOOLEAN] /\ astray' \in [Pages -> BOOLEAN]
      /\ \A h \in Pages \ {g} : page'[h] = page[h] /\ shown'[h] = shown[h] /\ astray'[h] = astray[h]
  BY <1>1 DEF EventRows
<1>3. EventRows' /\ WireBegun'
  BY <1>1, <1>2 DEF EventRows, WireBegun
<1>4. AwayEmpty'
  BY <1>1, <1>2 DEF AwayEmpty
<1>5. (UnderWay => UnderWay') /\ (EndOnTheWay => EndOnTheWay')
  BY DEF UnderWay, EndOnTheWay
<1>6. PagesFit'
  BY <1>1, <1>2, <1>5 DEF PagesFit
<1> QED BY <1>3, <1>4, <1>6 DEF EventsInv

LEMMA PageKeeps ==
  ASSUME EventsInv, NEW g \in Pages,
         OpenStream(g) \/ Subscribe(g) \/ FirstEvent(g) \/ NextEvent(g) \/ CloseStream(g) \/ ListenerFails(g) \/ LoadPage(g)
  PROVE  EventsInv'
<1>1. /\ page[g] \in Page /\ page[g].queue \in Seq(Entries) /\ shown[g] \in BOOLEAN /\ astray[g] \in BOOLEAN
      /\ progress \in BOOLEAN
      /\ page = [page EXCEPT ![g] = page[g]] /\ shown = [shown EXCEPT ![g] = shown[g]]
      /\ astray = [astray EXCEPT ![g] = astray[g]]
  BY DEF EventsInv, EventRows, Page
<1>2. UnderWay \/ EndOnTheWay \/ Calm(page[g].queue, shown[g], astray[g])
  BY DEF EventsInv, PagesFit
<1>3. page[g].pc = "away" => page[g].queue = <<>>
  BY DEF EventsInv, AwayEmpty, Closed
<1>4. CASE OpenStream(g) \/ Subscribe(g) \/ ListenerFails(g)
  <2>1. PICK new \in Page : page' = [page EXCEPT ![g] = new] /\ new.pc # "away" /\ new.queue = page[g].queue
    <3>1. CASE OpenStream(g)
      <4>1. [page[g] EXCEPT !.pc = "opening"] \in Page
        BY <1>1 DEF Page
      <4> QED BY <3>1, <4>1, <1>1 DEF OpenStream, Page
    <3>2. CASE Subscribe(g) \/ ListenerFails(g)
      <4>1. \A l \in BOOLEAN : [page[g] EXCEPT !.listening = l] \in Page
        BY <1>1 DEF Page
      <4>2. page[g].pc # "away"
        BY <3>2 DEF Subscribe, ListenerFails, EventsInv, AwayEmpty, Closed
      <4> QED BY <3>2, <4>1, <4>2, <1>1 DEF Subscribe, ListenerFails, Page
    <3> QED BY <1>4, <3>1, <3>2
  <2> QED BY <1>1, <1>2, <1>4, <2>1, OnePage DEF OpenStream, Subscribe, ListenerFails
<1>5. CASE FirstEvent(g)
  <2> DEFINE new == [page[g] EXCEPT !.pc = "streaming"]
             active == shown[g] \/ progress
             stray == astray[g] \/ (progress /\ ~UnderWay)
  <2>1. new \in Page /\ new.pc = "streaming" /\ new.queue = page[g].queue /\ active \in BOOLEAN /\ stray \in BOOLEAN
    BY <1>1 DEF Page
  <2>2. /\ page' = [page EXCEPT ![g] = new] /\ shown' = [shown EXCEPT ![g] = active]
        /\ astray' = [astray EXCEPT ![g] = stray] /\ UNCHANGED <<useWorker, scoring, progress, wire>>
    BY <1>5 DEF FirstEvent
  <2>3. UnderWay \/ EndOnTheWay \/ Calm(page[g].queue, active, stray)
    <3>1. CASE progress /\ ~UnderWay /\ ~EndOnTheWay
      <4>1. active = TRUE /\ stray = TRUE
        BY <3>1
      <4> QED BY <1>1, <1>2, <3>1, <4>1, CalmRead
    <3>2. CASE ~progress
      <4>1. active = shown[g] /\ stray = astray[g]
        BY <1>1, <3>2
      <4> HIDE DEF active, stray
      <4> QED BY <1>2, <4>1
    <3> QED BY <3>1, <3>2
  <2> HIDE DEF new, active, stray
  <2> QED BY <2>1, <2>2, <2>3, OnePage
<1>6. CASE NextEvent(g)
  <2> DEFINE x == Head(page[g].queue)
             new == [page[g] EXCEPT !.queue = Tail(page[g].queue)]
             active == HandleJobEvent(x, shown[g])
             stray == IF x \in Endings THEN FALSE ELSE astray[g] \/ x = "silence"
  <2>1. page[g].queue # <<>> /\ page[g].pc = "streaming"
    BY <1>6 DEF NextEvent
  <2>2. Tail(page[g].queue) \in Seq(Entries)
    BY <1>1, <2>1
  <2>3. /\ new \in Page /\ new.pc = "streaming" /\ new.queue = Tail(page[g].queue)
        /\ active \in BOOLEAN /\ stray \in BOOLEAN
    BY <1>1, <2>1, <2>2 DEF Page, HandleJobEvent
  <2>4. /\ page' = [page EXCEPT ![g] = new] /\ shown' = [shown EXCEPT ![g] = active]
        /\ astray' = [astray EXCEPT ![g] = stray] /\ UNCHANGED <<useWorker, scoring, progress, wire>>
    BY <1>6 DEF NextEvent
  <2>5. Calm(page[g].queue, shown[g], astray[g]) => Calm(new.queue, active, stray)
    BY ZenonT(30), <1>1, <2>1, <2>3, CalmNext
  <2> HIDE DEF new, active, stray
  <2> QED BY <1>2, <2>3, <2>4, <2>5, OnePage
<1>7. CASE CloseStream(g)
  <2> DEFINE stray == astray[g] \/ Tells(page[g].queue)
  <2>1. stray \in BOOLEAN /\ Closed \in Page /\ Closed.queue = <<>>
    BY <1>1, ClosedIsPage DEF Closed
  <2>2. page' = [page EXCEPT ![g] = Closed] /\ astray' = [astray EXCEPT ![g] = stray]
        /\ UNCHANGED <<useWorker, scoring, progress, wire, shown>>
    BY <1>7 DEF CloseStream
  <2>3. UnderWay \/ EndOnTheWay \/ ~shown[g] \/ stray
    BY <1>1, <1>2, CalmClosed
  <2> HIDE DEF stray
  <2>4. UnderWay \/ EndOnTheWay \/ Calm(Closed.queue, shown[g], stray)
    BY <1>1, <2>1, <2>3, CalmEmpty
  <2> QED BY <1>1, <2>1, <2>2, <2>4, OnePage
<1>8. CASE LoadPage(g)
  <2>1. Calm(page[g].queue, FALSE, FALSE)
    BY <1>3, <1>8, CalmEmpty DEF LoadPage
  <2>2. page[g].pc = "away" => page[g] = Closed
    BY DEF EventsInv, AwayEmpty
  <2> QED BY <1>1, <1>8, <2>1, <2>2, OnePage DEF LoadPage
<1> QED BY <1>4, <1>5, <1>6, <1>7, <1>8

LEMMA EventsStepKeeps == ASSUME EventsInv, [EventsNext]_eventVars PROVE EventsInv'
<1>1. CASE UNCHANGED eventVars
  BY <1>1 DEF eventVars, EventsInv, EventRows, AwayEmpty, WireBegun, PagesFit, UnderWay, EndOnTheWay
<1>2. CASE EventsNext
  BY <1>2, RunGoesOn, RunEndsKeeps, ClearProgressKeeps, RunFailsKeeps, PublishRedisKeeps, PublishFailsKeeps, PageKeeps
     DEF EventsNext
<1> QED BY <1>1, <1>2

-----------------------------------------------------------------------------
\* The theorems.

\* Every variable of JobEvents keeps its type.
THEOREM EventsTypeCorrect == EventsSpec => []EventsTypeOK
<1>1. EventsInv => EventsTypeOK
  BY DEF EventsInv, EventRows, EventsTypeOK, Run, Message, Page
<1> QED BY <1>1, EventsInitInv, EventsStepKeeps, PTL DEF EventsSpec

\* A page that was told all there is to tell shows scoring as active only while
\* something is scored, save in the ways it could not know of.
THEOREM ShownWhileUnderWay == EventsSpec => []ShownIsUnderWay
<1>1. EventsInv => ShownIsUnderWay
  BY CalmEmpty DEF EventsInv, EventRows, PagesFit, EndOnTheWay, ShownIsUnderWay, Told
<1> QED BY <1>1, EventsInitInv, EventsStepKeeps, PTL DEF EventsSpec

(***************************************************************************)
(* All the instances together (MCRecords).                                 *)
(***************************************************************************)

\* A behaviour moves the part it began with.
LEMMA PartStays == [MCNext]_recordVars => part' = part
BY DEF MCNext, recordVars

LEMMA PartsStep ==
  ASSUME [MCNext]_recordVars
  PROVE  /\ part = "imports" => [ImportNext]_importVars
         /\ part = "dedup" => [DedupNext]_dedupVars
         /\ part = "profile" => [ProfileNext]_profileVars
         /\ [EventsNext]_eventVars
         /\ [BoardNext]_boardVars
         /\ [(StepsNext /\ UNCHANGED boardVars) \/ (BoardNext /\ UNCHANGED stepsVars)]_<<boardVars, stepsVars>>
<1>1. PostingsMove \/ ListsAndScans \/ ScoresAndMail => BoardNext
  BY DEF PostingsMove, ListsAndScans, ScoresAndMail, BoardNext, ScansMove, ScoresMove
<1>2. CASE UNCHANGED recordVars
  BY <1>2 DEF recordVars
<1>3. CASE MCNext
  BY <1>1, <1>3 DEF MCNext
<1> QED BY <1>2, <1>3

\* Imports, deduplication and profiles run as they do alone, and so do the
\* postings and the next steps but where a scan and scores are under way at
\* the beginning; the events always do.
THEOREM RecordsAsAlone ==
  RecordsSpec => /\ part = "imports" => ImportSpec
                 /\ part = "dedup" => DedupSpec
                 /\ part = "profile" => ProfileSpec
                 /\ part \notin {"mail", "steps"} => BoardSpec /\ StepsSpec
                 /\ EventsSpec
<1>1. MCInit => /\ part = "imports" => ImportInit
                /\ part = "dedup" => DedupInit
                /\ part = "profile" => ProfileInit
                /\ part \notin {"mail", "steps"} => BoardInit
                /\ StepsInit /\ EventsInit
  BY DEF MCInit
<1>2. [MCNext]_recordVars =>
         /\ part = "imports" => (part = "imports")' /\ [ImportNext]_importVars
         /\ part = "dedup" => (part = "dedup")' /\ [DedupNext]_dedupVars
         /\ part = "profile" => (part = "profile")' /\ [ProfileNext]_profileVars
         /\ [BoardNext]_boardVars
         /\ [(StepsNext /\ UNCHANGED boardVars) \/ (BoardNext /\ UNCHANGED stepsVars)]_<<boardVars, stepsVars>>
         /\ [EventsNext]_eventVars
  BY PartsStep, PartStays
<1> QED BY <1>1, <1>2, PTL DEF RecordsSpec, ImportSpec, DedupSpec, ProfileSpec, BoardSpec, StepsSpec, EventsSpec

\* The postings that are under way when the next steps begin fit as well.
LEMMA BoardsBegin == MCInit => BoardInv
<1> SUFFICES ASSUME MCInit PROVE BoardInv
  OBVIOUS
<1>1. CASE WatchedBoard
  <2>1. BoardRows
    <3>1. [job |-> j1, score |-> [at |-> 1, level |-> "match"]] \in BatchRow
      BY BoardAssumption, RecordsAssumption DEF BatchRow, Score, Levels
    <3> QED BY <1>1, <3>1, BoardAssumption, UnscoredIsScore DEF WatchedBoard, BoardRows, Monitor, Digest, NoDigest
  <2>2. DigestFits /\ MatchesAnnounced
    BY <1>1, UnscoredIsScore DEF WatchedBoard, DigestFits, MatchesAnnounced
  <2> QED BY <2>1, <2>2 DEF BoardInv
<1>2. CASE BoardInit
  BY <1>2, BoardInitInv
<1> QED BY <1>1, <1>2 DEF MCInit

\* Whatever part moves, its variables keep their types.
THEOREM RecordsTypeCorrect == RecordsSpec => []RecordsTypeOK
<1>1. MCInit => BoardInv /\ StepsInv
  BY BoardsBegin, StepsInitInv DEF MCInit
<1>2. BoardInv /\ StepsInv /\ [MCNext]_recordVars => BoardInv' /\ StepsInv'
  BY PartsStep, BoardStepKeeps, StepsStepKeeps
<1>3. BoardInv /\ StepsInv => BoardTypeOK /\ StepsTypeOK
  BY DEF BoardInv, BoardRows, BoardTypeOK, Monitor, Score, List, StepsInv, StepsTypeOK, Interests, Task, TaskStatus
<1>4. RecordsSpec => [](BoardTypeOK /\ StepsTypeOK)
  BY <1>1, <1>2, <1>3, PTL DEF RecordsSpec
<1>5. RecordsSpec => /\ [](part = "imports" => ImportTypeOK)
                     /\ [](part = "dedup" => DedupTypeOK)
                     /\ [](part = "profile" => ProfileTypeOK)
                     /\ []EventsTypeOK
  <2>1. [MCNext]_recordVars => /\ ~(part = "imports") => ~(part = "imports")'
                               /\ ~(part = "dedup") => ~(part = "dedup")'
                               /\ ~(part = "profile") => ~(part = "profile")'
    BY PartStays
  <2> QED BY <2>1, RecordsAsAlone, ImportTypeCorrect, DedupTypeCorrect, ProfileTypeCorrect, EventsTypeCorrect, PTL
          DEF RecordsSpec
<1>6. /\ BoardTypeOK /\ StepsTypeOK /\ EventsTypeOK
      /\ part = "imports" => ImportTypeOK
      /\ part = "dedup" => DedupTypeOK
      /\ part = "profile" => ProfileTypeOK
      => RecordsTypeOK
  BY DEF RecordsTypeOK
<1> QED BY <1>4, <1>5, <1>6, PTL

=============================================================================
