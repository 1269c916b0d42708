----------------------------- MODULE MCRecords -----------------------------
(***************************************************************************)
(* Small instances of the modules about persons and postings, which share  *)
(* no variable: a behaviour moves the one that part names, and the others  *)
(* stay as they were.  The next steps move along with the postings.  Where *)
(* nobody imports, merges or edits there is no person, and what would be   *)
(* known of persons is None.                                               *)
(***************************************************************************)
EXTENDS ContactImport, PersonDedup, PersonProfile, NextSteps, JobEvents

CONSTANTS u1, u2, i1, h1, h2, h3, n1, n2, p1, p2, p3, p4,
          e1, e2, e3, e4, e5, e6, f1, f2, l1, l2, l3, c1, j1, j2, s1, g1

ASSUME RecordsAssumption == j1 \in Postings

VARIABLE part

recordVars == <<importVars, dedupVars, profileVars, boardVars, stepsVars, eventVars, part>>

-----------------------------------------------------------------------------
(* Imports: two users, one of whom owns i1; h1 is the address of a profile *)
(* and h3 another form of it, h2 an e-mail address.                        *)

MCOwner == [i \in Importers |-> IF i = i1 THEN u1 ELSE u2]
MCNormal == [h \in Handles |-> IF h = h3 THEN h1 ELSE h]
MCUrls == {h1, h3}
MCEmails == {h2}
Contact(n, s) == [name |-> n, handles |-> s]
MCBooks == {{Contact(n1, <<h1, h2>>)}, {Contact(n1, <<h1, h2>>), Contact(n2, <<h3>>)},
            {Contact(n1, <<h1, h2>>), Contact(n2, <<h2>>)}}
KindPairs == {<<"linkedin", "contacts">>, <<"phone", "gmail">>, <<"linkedin", "calendar">>}

SomeKinds == \E k \in KindPairs : sourceKind = [i \in Importers |-> IF i = i1 THEN k[1] ELSE k[2]]
NoImports ==
  /\ sourceKind = [i \in Importers |-> "phone"] /\ import = [i \in Importers |-> [pc |-> "idle"]]
  /\ person = None /\ alias = None /\ observed = {} /\ book = None /\ token = None /\ tx = None
  /\ merge = None /\ lost = {} /\ runs = 0 /\ merges = 0

-----------------------------------------------------------------------------
(* Persons that may be one, with handles in two forms, one of the persons  *)
(* perhaps named by an address; and three with one group inside another.   *)

MCTitles == {<<"@">>, <<"a", "b">>, <<"a", "b", "c">>, <<"a", "b", "d">>}
MCNorm == [h \in AllHandles |-> CASE h = e2 -> e1 [] h = e5 -> e4 [] h = e6 -> e3 [] h = f2 -> f1
                                  [] h \in {l2, l3} -> l1 [] OTHER -> h]
MCKindOf == [h \in AllHandles |-> CASE h \in {e1, e2, e3, e4, e5, e6} -> "email" [] h \in {f1, f2} -> "phone"
                                    [] OTHER -> "linkedin"]

Linked == {[h \in {l1, l2, l3} |-> IF h \notin hs THEN None ELSE IF h = l1 THEN p1 ELSE IF h = l2 THEN p2 ELSE p3] :
             hs \in SUBSET {l1, l2, l3}}
Shared == {[h \in {e2, f1, f2} |-> IF h = e2 THEN x ELSE IF f1 \notin fs THEN None ELSE IF h = f1 THEN p1 ELSE p3] :
             x \in {None, p1, p2}, fs \in {{}, {f1}}}
Duplicates ==
  /\ title \in [Members -> Titles]
  /\ facts = [p \in Members |-> IF p = p1 THEN {} ELSE Facts]
  /\ linked \in {{}, {{p1, p2}, {p2, p3}}} /\ (linked # {} => title[p1] = <<"@">>)
  /\ primary \in {[p \in Members |-> IF p = p1 THEN x ELSE None] : x \in {None, e1}}
  /\ holder \in {[h \in AllHandles |-> CASE h = e1 -> x[1] [] h \in {l1, l2, l3} -> x[2][h]
                                         [] h \in {e2, f1, f2} -> x[3][h] [] OTHER -> None] :
                   x \in {p2, p3} \X Linked \X Shared}
Nested ==
  /\ title = [p \in Members |-> IF p = p1 THEN <<"@">> ELSE IF p = p2 THEN <<"a", "b">> ELSE <<"a", "b", "c">>]
  /\ facts = [p \in Members |-> {}] /\ linked = {} /\ primary = [p \in Members |-> None]
  /\ holder = [h \in AllHandles |-> CASE h \in {e1, e5, e6} -> p2 [] h = e3 -> p1
                                       [] h \in {e4, l1, l2, l3} -> p3 [] OTHER -> None]
NoDuplicates ==
  /\ title = [p \in Members |-> None] /\ pass = "idle"
  /\ holder = None /\ primary = None /\ facts = None /\ linked = None /\ atStart = None /\ ids = None
  /\ todo = None /\ went = None /\ cursor = None

-----------------------------------------------------------------------------

MCStrategies == <<"heuristic", "scrapingdog_linkedin", "llm_synthesis">>
(* Claims that rank alike: of one employer before those of the other.      *)
MCOrder ==
  [k \in Keys |-> (IF k.org = CHOOSE o \in Employers : TRUE THEN 0 ELSE 1) + (IF k.started THEN 2 ELSE 0)
                   + CASE k.src = "user_manual" -> 0 [] k.src = "heuristic" -> 4
                       [] k.src = "linkedin_profile_upload" -> 8 [] OTHER -> 12]
MCOrgOf == [j \in Postings |-> c1]
MCSourceOf == [j \in Postings |-> IF j = j1 THEN "ats" ELSE "theirstack"]
MCSetups == {{"phone", "linkedin"}, Parts}

NoProfile ==
  /\ claims = [k \in Keys |-> Absent] /\ attrs = {} /\ row = [org |-> None, bio |-> 0, phones |-> {}]
  /\ now = 0 /\ begins = 0 /\ pinned = None /\ raced = FALSE
  /\ session = None /\ tried = None /\ remaining = None

(* The mail and the next steps begin when postings are monitored, and a    *)
(* scan and a batch of scores are under way.                               *)
WatchedBoard ==
  /\ monitor = [u \in Seekers |-> [on |-> TRUE, mail |-> TRUE, list |-> Firms]]
  /\ posting = [j \in Postings |-> IF j = j1 THEN "open" ELSE "unknown"] /\ scraped = {}
  /\ scrape = [o \in Firms |-> [pc |-> "read", forced |-> FALSE, known |-> {j1}]]
  /\ match = [u \in Seekers |-> [j \in Postings |-> Unscored]]
  /\ batch = [u \in Seekers |-> [job |-> j1, score |-> [at |-> 1, level |-> "match"]]]
  /\ rescore = [u \in Seekers |-> None] /\ watermark = [u \in Seekers |-> 1] /\ digest = [u \in Seekers |-> NoDigest]
  /\ clock = 1 /\ announced = {} /\ unseen = {}

(* One run scores a batch, the other finds that it was cancelled.          *)
MCBatches == [r \in ScoringRuns |-> IF r = s1 THEN 1 ELSE 0]
MCEnding == [r \in ScoringRuns |-> IF r = s1 THEN "scoring_complete" ELSE "scoring_cancelled"]

MCInit ==
  /\ part \in {"imports", "dedup", "profile", "board", "mail", "steps", "events"}
  /\ IF part = "imports" THEN SomeKinds /\ ImportInit ELSE NoImports
  /\ IF part = "dedup" THEN (Duplicates \/ Nested) /\ DedupInit ELSE NoDuplicates
  /\ IF part = "profile" THEN ProfileInit ELSE NoProfile
  /\ IF part \in {"mail", "steps"} THEN WatchedBoard ELSE BoardInit
  /\ part # "steps" => setup = [u \in Seekers |-> Parts]
  /\ StepsInit
  /\ EventsInit /\ (useWorker => part = "events")

(* Lists and scans, without scores; and scores and mail, while the scan *)
(* under way may close postings and TheirStack tells of others.            *)
ListsAndScans == ScansMove \/ \E u \in Seekers : ListsMove(u)
ScoresAndMail ==
  \/ \E o \in Firms : ScrapeWrites(o)
  \/ \E j \in Postings : TheirStackWebhook(j)
  \/ \E u \in Seekers : ScoresMove(u) \/ MailMoves(u)
PostingsMove == \/ \E u \in Seekers : ScoreCommits(u)
                \/ \E o \in Firms : ScrapeWrites(o)

MCNext ==
  \/ /\ part = "imports" /\ ImportNext
     /\ UNCHANGED <<dedupVars, profileVars, boardVars, stepsVars, eventVars, part>>
  \/ /\ part = "dedup" /\ DedupNext
     /\ UNCHANGED <<importVars, profileVars, boardVars, stepsVars, eventVars, part>>
  \/ /\ part = "profile" /\ ProfileNext
     /\ UNCHANGED <<importVars, dedupVars, boardVars, stepsVars, eventVars, part>>
  \/ /\ \/ part = "board" /\ ListsAndScans
        \/ part = "mail" /\ ScoresAndMail
     /\ UNCHANGED <<importVars, dedupVars, profileVars, stepsVars, eventVars, part>>
  \/ /\ part = "steps" /\ ((StepsNext /\ UNCHANGED boardVars) \/ (PostingsMove /\ UNCHANGED stepsVars))
     /\ UNCHANGED <<importVars, dedupVars, profileVars, eventVars, part>>
  \/ /\ part = "events" /\ EventsNext
     /\ UNCHANGED <<importVars, dedupVars, profileVars, boardVars, stepsVars, part>>

RecordsSpec == MCInit /\ [][MCNext]_recordVars

(* Every variable that may move has its type.                              *)
RecordsTypeOK ==
  /\ part = "imports" => ImportTypeOK
  /\ part = "dedup" => DedupTypeOK
  /\ part = "profile" => ProfileTypeOK
  /\ part \in {"board", "mail", "steps"} => BoardTypeOK /\ StepsTypeOK
  /\ part = "events" => EventsTypeOK

=============================================================================
