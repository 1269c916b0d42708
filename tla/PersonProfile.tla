--------------------------- MODULE PersonProfile ---------------------------
(***************************************************************************)
(* What is known of one person - claims of employment and of attributes,   *)
(* each with the source that made it - and the row of the person, which is *)
(* computed from them.  Editors, uploads and enrichments add claims and    *)
(* compute the row anew, each in a transaction of its own.                 *)
(***************************************************************************)
EXTENDS Integers, FiniteSets, Sequences, Accounts

CONSTANTS Editors,      (* the users who edit or import the person         *)
          Sessions,     (* the transactions that may be open at a time     *)
          Employers,
          Sources,      (* the kinds of sources that make claims           *)
          Strategies,   (* the strategies of one enrichment                *)
          Recency,      (* the days a claim stays fresh                    *)
          Ttl,          (* the days a strategy is not tried again          *)
          Order,        (* the place of a claim among those that rank alike*)
          MaxTime, MaxBegins

VARIABLES claims,    (* the claims of employment, by what identifies them  *)
          attrs,     (* the claims of attributes                           *)
          row,       (* the columns of the person that are computed        *)
          session,   (* the open transactions                              *)
          tried,     (* when a strategy was last tried                     *)
          now, begins,
          pinned,    (* the employer that the last edit by hand gave       *)
          raced,     (* whether a transaction that began before that edit  *)
                     (* was committed after it                             *)
          remaining  (* the strategies left of each editor's queue item    *)

profileVars == <<claims, attrs, row, session, tried, now, begins, pinned, raced, remaining>>

(* Of the dates that tell claims apart, whether there is a first one.      *)
Keys == {k \in [org : Employers, src : Sources, by : Editors, started : BOOLEAN] :
           k.src # "user_manual" => (k.started <=> k.src = "linkedin_profile_upload")}
NoDay == -1
(* Two moments make a day.                                                 *)
Day(t) == t \div 2
Today == Day(now)

ClaimRows == [there : BOOLEAN, ended : NoDay..Day(MaxTime), current : BOOLEAN, seen : 0..MaxTime]
Absent == [there |-> FALSE, ended |-> NoDay, current |-> FALSE, seen |-> 0]
Claim(current) == [there |-> TRUE, ended |-> NoDay, current |-> current, seen |-> now]

(* The list that is ranked is sorted by a stable sort: what it does not    *)
(* tell apart stays in the order of the list, which is that of a query     *)
(* without ORDER BY and is taken to be the same each time.                 *)
ASSUME ProfileAssumption ==
  /\ Editors \subseteq Users /\ Strategies \in Seq(STRING)
  /\ {Recency, Ttl, MaxTime, MaxBegins} \subseteq Nat
  /\ "user_manual" \in Sources /\ None \notin Employers /\ "cleared" \notin Employers \union {None}
  /\ None \notin ClaimRows
  /\ Order \in [Keys -> Nat] /\ \A k, l \in Keys : Order[k] = Order[l] => k = l

-----------------------------------------------------------------------------
(* The ranking of claims of employment.                                    *)

BaseTier(src) == CASE src = "user_manual" -> 0
                   [] src \in {"scrapingdog_linkedin", "gmail_signature"} -> 1
                   [] src \in {"linkedin_profile_upload", "linkedin_connections_upload"} -> 2
                   [] src = "exa" -> 3
                   [] src \in {"google_contacts", "phone_contacts_upload"} -> 6
                   [] OTHER -> 5

(* A signature is as fresh as the last mail from the person, which is not  *)
(* followed here: it is at least as fresh as the claim.                    *)
Recent(c) == Today - Day(c.seen) <= Recency
EffectiveTier(k, c) == IF k.src = "gmail_signature" /\ ~Recent(c) THEN 3 ELSE BaseTier(k.src)

Past(c) == c.ended # NoDay /\ c.ended < Today
ImpliesCurrent(k, c) == ~Past(c) /\ ((k.started /\ c.ended = NoDay) \/ c.current)
Authoritative(k, c) == c.there /\ ImpliesCurrent(k, c) /\ (Recent(c) \/ EffectiveTier(k, c) >= 4)

(* A plausible slip: the newest claim comes first, whatever its source.    *)
NewerFirst(cs, k, l) == cs[k].seen > cs[l].seen
Better(cs, k, l) ==
  LET a == EffectiveTier(k, cs[k])
      b == EffectiveTier(l, cs[l])
  IN \/ a < b
     \/ a = b /\ cs[k].seen > cs[l].seen
     \/ a = b /\ cs[k].seen = cs[l].seen /\ Order[k] < Order[l]

Best(cs) ==
  LET candidates == {k \in Keys : Authoritative(k, cs[k])}
  IN {k \in candidates : \A l \in candidates : ~Better(cs, l, k)}
Winner(cs) == LET best == Best(cs) IN IF best = {} THEN None ELSE (CHOOSE k \in best : TRUE).org

Ended(c) == [c EXCEPT !.current = FALSE, !.ended = IF @ = NoDay THEN Today ELSE @]
(* A plausible slip: claims that lost stay current.                        *)
KeptClaim(k, c, w) == IF c.there /\ Past(c) THEN [c EXCEPT !.current = FALSE] ELSE c
(* What becomes of claim c when employer w has won.                        *)
NormalizedClaim(k, c, w) ==
  IF ~c.there THEN c
  ELSE IF Past(c) THEN [c EXCEPT !.current = FALSE]
  ELSE IF w = None THEN
    (IF c.current /\ ~Recent(c) /\ EffectiveTier(k, c) <= 3 THEN Ended(c) ELSE c)
  ELSE IF k.org = w THEN [c EXCEPT !.current = TRUE, !.ended = NoDay]
  ELSE IF c.current THEN Ended(c) ELSE c
Normalized(cs) == LET w == Winner(cs) IN [k \in Keys |-> NormalizedClaim(k, cs[k], w)]

-----------------------------------------------------------------------------
(* The row.  A claim by hand hides the others of its kind; of several, the *)
(* longest bio is taken.  Numbers are never taken away.                    *)

AttrKinds == {"bio", "phone"}
Attrs == {a \in [kind : AttrKinds, value : 1..2, manual : BOOLEAN] : a.kind = "phone" => a.value = 1}
ForKind(as, kind) ==
  LET manual == {a \in as : a.kind = kind /\ a.manual}
  IN IF manual # {} THEN manual ELSE {a \in as : a.kind = kind}
Values(as, kind) == {a.value : a \in ForKind(as, kind)}
Longest(vs) == IF vs = {} THEN 0 ELSE CHOOSE v \in vs : \A w \in vs : w <= v
(* A number given by hand is an alias of the person as well.               *)
PhoneAliases(as) == {a.value : a \in {b \in as : b.kind = "phone" /\ b.manual}}
Recomputed(cs, as, phones) ==
  [org |-> Winner(cs), bio |-> Longest(Values(as, "bio")),
   phones |-> phones \union PhoneAliases(as) \union Values(as, "phone")]

-----------------------------------------------------------------------------
(* Transactions of a user.  own: the claims it has written; base: the      *)
(* claims as it read them for the row, seenAttrs likewise; pin: what it    *)
(* says by hand of the employer; old: whether such an edit came after it.  *)

NotMine == [k \in Keys |-> None]
NoSession == [pc |-> "closed", what |-> "edit", by |-> None, own |-> NotMine, ownAttrs |-> {}, base |-> NotMine,
              seenAttrs |-> {}, read |-> FALSE, left |-> <<>>, pin |-> None, old |-> FALSE]

Others(s) == {t \in Sessions \ {s} : session[t].pc = "open"}
Locked(s, ks) == \E t \in Others(s), k \in ks : session[t].own[k] # None
RowLocked(s) == \E t \in Others(s) : session[t].what = "enrich" /\ session[t].read

ProfileInit ==
  /\ claims = [k \in Keys |-> Absent] /\ attrs = {}
  /\ row = [org |-> None, bio |-> 0, phones |-> {}]
  /\ session = [s \in Sessions |-> NoSession] /\ tried = [n \in 1..Len(Strategies) |-> NoDay]
  /\ now = 0 /\ begins = 0 /\ pinned = None /\ raced = FALSE
  /\ remaining = [u \in Editors |-> <<>>]

(* The row is computed from the claims that were there when they were      *)
(* first read; what the transaction has since written to them counts.      *)
Reading(own) == [k \in Keys |-> IF own[k] # None THEN own[k] ELSE claims[k]]

Open(s, u, what, own, as, pin) ==
  /\ session[s].pc = "closed" /\ begins < MaxBegins /\ now < MaxTime
  /\ ~Locked(s, {k \in Keys : own[k] # None})
  /\ begins' = begins + 1 /\ now' = now + 1
  /\ session' = [session EXCEPT ![s] =
       [pc |-> "open", what |-> what, by |-> u, own |-> own, ownAttrs |-> as, base |-> Reading(own),
        seenAttrs |-> attrs \union as, read |-> TRUE, left |-> <<>>, pin |-> pin, old |-> FALSE]]
  /\ UNCHANGED <<claims, attrs, row, tried, pinned, raced, remaining>>

ByHand(u, o, started) == [org |-> o, src |-> "user_manual", by |-> u, started |-> started]

(* update_person: an employer by hand, none, or an attribute.              *)
UpdatePerson(s, u) ==
  \/ \E o \in Employers :
       Open(s, u, "edit", [NotMine EXCEPT ![ByHand(u, o, FALSE)] = Claim(TRUE)], {}, o)
  \/ Open(s, u, "edit", [k \in Keys |-> IF claims[k].there /\ claims[k].current
                                        THEN [claims[k] EXCEPT !.current = FALSE] ELSE None],
          {}, "cleared")
  \/ \E a \in Attrs : a.manual /\ Open(s, u, "edit", NotMine, {a}, None)

(* The user's own experiences: a new one, a changed one - which keeps the  *)
(* time it was seen -, one that is taken away.                             *)
SaveExperience(s, u) ==
  \E o \in Employers, current, started \in BOOLEAN :
    LET k == ByHand(u, o, started) IN
    \/ Open(s, u, "edit", [NotMine EXCEPT ![k] = Claim(current)], {}, "cleared")
    \/ \E old \in {l \in Keys : l.src = "user_manual" /\ claims[l].there} :
         /\ k = old \/ ~claims[k].there
         /\ Open(s, u, "edit",
                 [NotMine EXCEPT ![old] = Absent,
                                 ![k] = [Claim(current) EXCEPT !.seen = claims[old].seen]], {}, "cleared")
DeleteExperience(s, u) ==
  \E k \in {l \in Keys : claims[l].there} : Open(s, u, "edit", [NotMine EXCEPT ![k] = Absent], {}, "cleared")

(* The profile a user uploads takes the place of the one before.           *)
UploadedClaims(u, os) ==
  [k \in Keys |-> IF k.src # "linkedin_profile_upload" \/ k.by # u THEN None
                  ELSE IF k.org \in os THEN Claim(TRUE)
                  ELSE IF claims[k].there THEN Absent ELSE None]
UploadProfile(s, u) ==
  \E os \in SUBSET Employers, v \in 1..2 :
    Open(s, u, "upload", UploadedClaims(u, os), {[kind |-> "bio", value |-> v, manual |-> FALSE]}, None)

-----------------------------------------------------------------------------
(* An enrichment: the strategies one after the other, each in a savepoint, *)
(* and after each the row.  The claims are read for the first row only.    *)

(* Two strategies look at what is there; the others ask a service.         *)
Local == {"heuristic", "signature"}
ShouldAttempt(n) == tried[n] = NoDay \/ Today - tried[n] > Ttl

(* What a strategy may find, each under a source of its own: what the      *)
(* address and a signature say, the scraped profile, a model's guess, and  *)
(* what searches of the web come back with.                                *)
FoundHere(strategy, k) ==
  (strategy = "heuristic" /\ k.src = "heuristic") \/ (strategy = "signature" /\ k.src = "gmail_signature")
FoundOnProfile(strategy, k) == strategy = "scrapingdog_linkedin" /\ k.src = "scrapingdog_linkedin"
FoundByModel(strategy, k) == strategy = "llm_synthesis" /\ k.src = "llm"
Searching == {"web_employer", "web_relational", "user_companies", "email_derived", "linkedin_search", "mutual_connections"}
FoundOnWeb(strategy, k) == strategy \in Searching /\ k.src \in {"exa", "tavily", "serper", "relational"}
Found(strategy, k) ==
  FoundHere(strategy, k) \/ FoundOnProfile(strategy, k) \/ FoundByModel(strategy, k) \/ FoundOnWeb(strategy, k)
FoundBio == [kind |-> "bio", value |-> 1, manual |-> FALSE]

(* An item that is complete is queued anew, with all of the strategies.    *)
Left(u) == IF remaining[u] = <<>> THEN Strategies ELSE remaining[u]

BeginEnrichment(s, u) ==
  /\ session[s].pc = "closed" /\ begins < MaxBegins
  /\ begins' = begins + 1
  /\ session' = [session EXCEPT ![s] =
       [NoSession EXCEPT !.pc = "open", !.what = "enrich", !.by = u, !.left = Left(u)]]
  /\ UNCHANGED <<claims, attrs, row, tried, now, pinned, raced, remaining>>

(* The row: the lock on it is kept to the end.                             *)
Recompute(s, own, as, left) ==
  LET me == session[s] IN
  session' = [session EXCEPT ![s] =
    [me EXCEPT !.own = own, !.ownAttrs = as, !.left = left, !.read = TRUE,
               !.base = IF me.read THEN @ ELSE Reading(own),
               !.seenAttrs = IF me.read THEN @ ELSE attrs \union as]]

(* A strategy that was tried lately, or lacks what it goes by, is passed.  *)
Strategy(s) ==
  LET me == session[s]
      n == CHOOSE i \in 1..Len(Strategies) : Strategies[i] = Head(me.left)
  IN
  /\ me.pc = "open" /\ me.left # <<>> /\ now < MaxTime /\ ~RowLocked(s)
  /\ \/ /\ Head(me.left) \notin Local
        /\ Recompute(s, me.own, me.ownAttrs, Tail(me.left)) /\ UNCHANGED tried
     \/ /\ Head(me.left) \in Local \/ ShouldAttempt(n)
        /\ tried' = IF Head(me.left) \in Local THEN tried ELSE [tried EXCEPT ![n] = Today]
        /\ \E ks \in SUBSET {k \in Keys : Found(Head(me.left), k) /\ k.by = me.by}, as \in SUBSET {FoundBio} :
             /\ Cardinality(ks) <= 1 /\ ~Locked(s, ks)
             /\ Recompute(s, [k \in Keys |-> IF k \in ks THEN Claim(TRUE) ELSE me.own[k]],
                          me.ownAttrs \union as, Tail(me.left))
  /\ now' = now + 1
  /\ UNCHANGED <<claims, attrs, row, begins, pinned, raced, remaining>>

(* The claims a transaction computes the row from.                         *)
Cached(s) == [k \in Keys |-> IF session[s].base[k].there /\ session[s].own[k] # None
                             THEN session[s].own[k] ELSE session[s].base[k]]

(* Confident enough: the strategies that are left are left out.            *)
Confident(s) == LET r == Recomputed(Cached(s), session[s].seenAttrs, row.phones)
                IN r.org # None /\ r.bio # 0

-----------------------------------------------------------------------------
(* The end of a transaction: claims that the row made current or ended are *)
(* written if the transaction read them otherwise.                         *)

Changed(cs, n) == {k \in Keys : n[k] # cs[k]}
Flags(c, n) == [c EXCEPT !.current = n.current, !.ended = n.ended]
Written(own, n, changed) ==
  [k \in Keys |-> IF k \in changed THEN (IF own[k] = None THEN Flags(claims[k], n[k]) ELSE n[k])
                  ELSE IF own[k] # None THEN own[k] ELSE claims[k]]

(* What a transaction leaves; it waits for the locks, and a claim that has *)
(* been deleted since it was read refuses the statement.                   *)
Leave(s) ==
  LET cs == Cached(s)
      n == Normalized(cs)
      changed == Changed(cs, n)
  IN
  /\ ~RowLocked(s) /\ ~Locked(s, changed)
  /\ \A k \in changed : session[s].own[k] = None => claims[k].there
  /\ claims' = Written(session[s].own, n, changed)
  /\ attrs' = attrs \union session[s].ownAttrs
  /\ row' = Recomputed(cs, session[s].seenAttrs, row.phones)

CommitProfile(s) ==
  LET me == session[s] IN
  /\ me.pc = "open" /\ me.read /\ (me.what = "enrich" => me.left = <<>> \/ Confident(s))
  /\ Leave(s)
  /\ session' = [t \in Sessions |-> IF t = s THEN NoSession
                                    ELSE IF session[t].pc = "open" /\ me.pin # None
                                    THEN [session[t] EXCEPT !.old = TRUE] ELSE session[t]]
  /\ pinned' = IF me.pin = None THEN pinned ELSE IF me.pin = "cleared" THEN None ELSE me.pin
  /\ raced' = (me.old \/ (me.pin = None /\ raced))
  /\ remaining' = IF me.what = "enrich" THEN [remaining EXCEPT ![me.by] = <<>>] ELSE remaining
  /\ UNCHANGED <<tried, now, begins>>

(* A conflict, a deadlock, a provider or the process ends it, and what it  *)
(* wrote is gone; an enrichment that is not killed leaves out, when it is  *)
(* tried again, the strategies it has come to.                             *)
AbortProfile(s) ==
  LET me == session[s] IN
  /\ me.pc = "open"
  /\ session' = [session EXCEPT ![s] = NoSession]
  /\ \/ UNCHANGED remaining
     \/ me.what = "enrich" /\ remaining' = [remaining EXCEPT ![me.by] = IF me.left = <<>> THEN @ ELSE Tail(me.left)]
  /\ UNCHANGED <<claims, attrs, row, tried, now, begins, pinned, raced>>

(* LinkedIn's provider is not ready: what there is so far is kept, and the *)
(* strategy is tried again.                                                *)
DeferEnrichment(s) ==
  LET me == session[s] IN
  /\ me.what = "enrich" /\ me.pc = "open" /\ me.left # <<>> /\ Head(me.left) = "scrapingdog_linkedin"
  /\ session' = [session EXCEPT ![s] = NoSession]
  /\ remaining' = [remaining EXCEPT ![me.by] = me.left]
  /\ IF me.read THEN Leave(s) /\ raced' = (me.old \/ raced)
     ELSE UNCHANGED <<claims, attrs, row, raced>>
  /\ UNCHANGED <<tried, now, begins, pinned>>

Tick == /\ now < MaxTime /\ now' = now + 1
        /\ UNCHANGED <<claims, attrs, row, session, tried, begins, pinned, raced, remaining>>

ProfileNext ==
  \/ \E s \in Sessions, u \in Editors :
       UpdatePerson(s, u) \/ SaveExperience(s, u) \/ DeleteExperience(s, u)
         \/ UploadProfile(s, u) \/ BeginEnrichment(s, u)
  \/ \E s \in Sessions : Strategy(s) \/ CommitProfile(s) \/ AbortProfile(s) \/ DeferEnrichment(s)
  \/ Tick
ProfileSpec == ProfileInit /\ [][ProfileNext]_profileVars

-----------------------------------------------------------------------------
(* Properties.                                                             *)

ProfileTypeOK ==
  /\ claims \in [Keys -> ClaimRows] /\ attrs \in SUBSET Attrs
  /\ row \in [org : Employers \union {None}, bio : 0..2, phones : SUBSET (1..2)]
  /\ now \in 0..MaxTime /\ begins \in 0..MaxBegins
  /\ pinned \in Employers \union {None} /\ raced \in BOOLEAN

(* The employer a user has given by hand stays the person's employer while *)
(* that is fresh, whatever is uploaded and found afterwards - unless a     *)
(* transaction that had read the claims before the edit writes after it.   *)
ManualWins ==
  (pinned # None /\ ~raced /\ \E u \in Editors :
     LET c == claims[ByHand(u, pinned, FALSE)] IN c.there /\ Recent(c))
    => row.org = pinned

(* Ranking settles: it leaves at most the winner's claims current, and to  *)
(* rank what it left names the same employer.                              *)
NormalizeSettles ==
  LET w == Winner(claims)
      n == Normalized(claims)
  IN (\A k \in Keys : n[k].there /\ n[k].current => k.org = w) /\ Winner(n) = w

=============================================================================
