---------------------------- MODULE SharedReads ----------------------------
(***************************************************************************)
(* What changes the contacts of the users - imports, privacy labels, trust,*)
(* merges of duplicates - while a request reads the contacts that trusted  *)
(* users share with Viewer.  The request is one transaction, but each of   *)
(* its statements sees what is committed when it runs, and it reads the    *)
(* trusted users, their labels and their contacts one after the other.     *)
(***************************************************************************)
EXTENDS NetworkViews

CONSTANTS Viewer, MaxChanges,
          Imports,  (* the imports that may happen                         *)
          Mails     (* and what Gmail may say of a correspondent           *)

ASSUME ReadsAssumption == Viewer \in Users /\ MaxChanges \in Nat /\ Imports \subseteq Types

VARIABLES view,      (* the view the request builds, or NoView             *)
          todo,      (* the trusted users whose contacts are still to read *)
          labels,    (* the private persons, of those whose labels are read*)
          seen,      (* the persons the request leaves out                 *)
          shown,     (* the pairs of a trusted user and a contact found    *)
          wasFriend, (* since the request began: who has been trusted, and *)
          wasOpen,   (* which pairs <<user, person>> have not been private *)
          changes    (* the number of changes so far                       *)

request == <<view, todo, labels, seen, shown>>
readsVars == <<tables, request, wasFriend, wasOpen, changes>>

NoLabels == [m \in {} |-> {}]

(* The views, each of which passes over the trusted users once: the lists  *)
(* of people and of companies, the contacts named in a list of companies   *)
(* or postings or in a mail, a query, companies to approach; and of one    *)
(* company its page, the contact named on the page of a posting, the rest  *)
(* of that page, and the friends to ask for an introduction.  Two answers  *)
(* take a second pass, before which they have been "listed" or "headed".   *)
General == {"people", "orgs", "names", "query", "targets", "listed"}
OfCompany == {"page", "head", "job", "bridge", "headed"}
Views == [kind : General, org : {None}] \union [kind : OfCompany, org : Orgs]
Resting == {"listed", "headed", "none"}
NoView == [kind |-> "none", org |-> None]

(* The rows there may be: an account's own person and the labelled ones    *)
(* exist.                                                                  *)
TablesOK ==
  /\ persons \in SUBSET Persons
  /\ obs \in [Users -> [Persons -> SUBSET (Types \union Flags)]]
  /\ about \in [Persons -> SUBSET AboutFlags]
  /\ org \in [Persons -> Orgs \union {None}]
  /\ me \in [Users -> persons \union {None}]
  /\ private \in SUBSET (Users \X persons)
  /\ friends \in SUBSET {{u, w} : u, w \in Users}

ReadsInit ==
  /\ view = NoView /\ todo = {} /\ labels = NoLabels /\ seen = {} /\ shown = {}
  /\ wasFriend = {} /\ wasOpen = {} /\ changes = 0

-----------------------------------------------------------------------------
(* Changes of the tables.                                                  *)

(* The uploads add their kind to those of the row; the Google imports put  *)
(* theirs in its place, and Gmail rewrites the rest of the row as well:    *)
(* the class of a correspondent, whether there were mails, and an entry of *)
(* the address book, which is human whatever its mails are.                *)
Add(old, kind) == IF old = {} THEN {kind, "human"} ELSE old \union {kind}
Replace(old, kind) == IF old = {} THEN {kind, "human"} ELSE (old \ Types) \union {kind}
Classes == {{"human"}, {"automated"}, {"broadcast"}, {"automated", "broadcast"}}
Correspondents ==
  {class \union more : class \in Classes, more \in {{"email"}, {"google", "human"}, {"google", "human", "email"}}}
Rewrite(mail) == {"contact"} \union mail

ASSUME MailsAssumption == Mails \subseteq Correspondents

Observation(u, p, kind, mail) ==
  CASE kind \in {"phone", "linkedin"} -> Add(obs[u][p], kind)
    [] kind \in {"google", "calendar"} -> Replace(obs[u][p], kind)
    [] kind = "contact" -> Rewrite(mail)

(* What is learnt of the person: a connection comes with the URL of its    *)
(* profile, an entry of an address book may bring a number, and an upload  *)
(* of one a URL.                                                           *)
MayBring(kind) == CASE kind = "linkedin" -> {"linked", "slug"}
                    [] kind = "phone" -> {"linked", "slug", "numbered"}
                    [] kind \in {"google", "contact"} -> {"numbered"}
                    [] OTHER -> {}
Learnt(kind, known) ==
  {known \union new : new \in {n \in SUBSET (MayBring(kind) \ known) :
                              /\ kind = "linkedin" => "linked" \in known \union n
                              /\ "slug" \in n => "linked" \in n}}

Import(u, p, kind, mail) ==
  /\ obs' = [obs EXCEPT ![u][p] = Observation(u, p, kind, mail)]
  /\ \E new \in Learnt(kind, about[p]) : about' = [about EXCEPT ![p] = new]
  /\ UNCHANGED <<persons, org, me, private, friends>>

SetPrivacyLabel(u, p) ==
  /\ \/ private' = private \union {<<u, p>>}
     \/ private' = private \ {<<u, p>>}
  /\ UNCHANGED <<persons, obs, about, org, me, friends>>

EditTrust(u, w) ==
  /\ \/ friends' = friends \union {{u, w}}
     \/ friends' = friends \ {{u, w}}
  /\ UNCHANGED <<persons, obs, about, org, me, private>>

(* A plausible slip: of two rows of a user the survivor's is kept as it is.*)
SurvivorsRow(s, d) == IF s = {} THEN d ELSE s
(* What the duplicate d had goes to the survivor s, for every user: rows   *)
(* of the same user are put together, but for the classes of noise, which  *)
(* are the survivor's.  The first of both's LinkedIn URLs is either's; an  *)
(* account's own person goes with the duplicate.                           *)
MergedRow(s, d) == IF s = {} THEN d ELSE s \union (d \ {"broadcast", "automated"})
MergedAliases(s, d) ==
  {(s \union d) \ dropped :
     dropped \in IF {s, d} \subseteq {f \in SUBSET AboutFlags : "linked" \in f}
                  THEN {{}, {"slug"} \ (s \cap d)} ELSE {{}}}
MovedLabels(s, d) == {IF k[2] = d THEN <<k[1], s>> ELSE k : k \in private}
MergePerson(s, d) ==
  /\ persons' = persons \ {d}
  /\ obs' = [u \in Users |-> [obs[u] EXCEPT ![s] = MergedRow(obs[u][s], obs[u][d]), ![d] = {}]]
  /\ \E new \in MergedAliases(about[s], about[d]) : about' = [about EXCEPT ![s] = new]
  /\ org' = [org EXCEPT ![s] = IF @ = None THEN org[d] ELSE @]
  /\ me' = [u \in Users |-> IF me[u] = d THEN None ELSE me[u]]
  /\ private' = MovedLabels(s, d)
  /\ UNCHANGED friends

Change ==
  /\ changes < MaxChanges
  /\ changes' = changes + 1
  /\ \/ \E u \in Users, p \in persons, kind \in Imports, mail \in Mails :
          Import(u, p, kind, mail)
     \/ \E u \in Users, p \in persons : SetPrivacyLabel(u, p)
     \/ \E u, w \in Users : u # w /\ EditTrust(u, w)
     \/ \E s, d \in persons : s # d /\ MergePerson(s, d)
  /\ UNCHANGED request

-----------------------------------------------------------------------------
(* The request.                                                            *)

ContactsIn(v, m) ==
  CASE v.kind = "people" -> SharedPeople(m)
    [] v.kind \in {"orgs", "names"} -> SharedOrgs(m)
    [] v.kind = "head" -> SharedSummaries(m, v.org)
    [] v.kind \in {"page", "job"} -> SharedOrgPeople(m, v.org)
    [] v.kind = "bridge" -> BridgeContacts(m, v.org)
    [] v.kind = "query" -> ExecutePlanRaw(m)
    [] v.kind = "targets" -> Insiders(m)
    [] OTHER -> {}

(* The own contacts an answer lists are not listed as shared ones; the page*)
(* of a posting lists twenty of them.                                      *)
OwnIn(v) == CASE v.kind = "people" -> {InNetwork(Viewer)}
              [] v.kind = "page" -> {OwnOrgPeople(Viewer, v.org)}
              [] v.kind = "job" -> SUBSET OwnOrgPeople(Viewer, v.org)
              [] OTHER -> {{}}

Pass(v) ==
  /\ view' = v
  /\ seen' \in OwnIn(v)
  /\ todo' = {} /\ labels' = NoLabels
  /\ UNCHANGED <<tables, changes>>

Begin(v) ==
  /\ view = NoView /\ v.kind \notin Resting \union {"job"}
  /\ Pass(v)
  /\ shown' = {}

(* A list of companies is given the names of their contacts, the page of a *)
(* posting its contacts after the one named at its head.                   *)
PassAgain ==
  /\ view.kind \in {"listed", "headed"}
  /\ Pass([view EXCEPT !.kind = IF @ = "listed" THEN "names" ELSE "job"])
  /\ UNCHANGED shown

Ended(v) == IF v.kind = "orgs" THEN [v EXCEPT !.kind = "listed"]
            ELSE IF v.kind = "head" THEN [v EXCEPT !.kind = "headed"] ELSE NoView

(* The own person is left out of the lists, not of queries and targets.    *)
(* With nobody trusted, the list of companies takes no second pass.        *)
ReadMembers ==
  /\ view.kind \notin Resting /\ todo = {} /\ labels = NoLabels
  /\ todo' = TrustMembers(Viewer)
  /\ seen' = IF view.kind \in {"query", "targets"} THEN seen ELSE seen \union MeOf(Viewer)
  /\ view' = IF todo' # {} THEN view ELSE IF view.kind = "orgs" THEN NoView ELSE Ended(view)
  /\ UNCHANGED <<tables, labels, shown, changes>>

(* A plausible slip: the labels read are the viewer's.                     *)
ReadOwnLabels(m) ==
  /\ m \in todo \ DOMAIN labels
  /\ labels' = [n \in DOMAIN labels \union {m} |-> IF n = m THEN Private(Viewer) ELSE labels[n]]
  /\ UNCHANGED <<tables, view, todo, seen, shown, changes>>
(* Each friend's labels are read just before the friend's contacts, but    *)
(* for the targets, where the labels of all are read first.                *)
ReadLabels(m) ==
  /\ m \in todo \ DOMAIN labels
  /\ view.kind # "targets" => todo \cap DOMAIN labels = {}
  /\ labels' = [n \in DOMAIN labels \union {m} |-> IF n = m THEN Private(m) ELSE labels[n]]
  /\ UNCHANGED <<tables, view, todo, seen, shown, changes>>

(* No introduction is asked of a friend without a number, nor of anybody   *)
(* once ten contacts are found.                                            *)
SkipMember(m) ==
  /\ view.kind = "bridge" /\ todo \cap DOMAIN labels = {} /\ m \in todo
  /\ todo' = todo \ {m}
  /\ view' = IF todo' = {} THEN Ended(view) ELSE view
  /\ UNCHANGED <<tables, labels, seen, shown, changes>>

(* Of what is found, the lists of people and the pages of companies show   *)
(* everybody; the others name one contact of a company, or as many as      *)
(* their limits allow.                                                     *)
Whole == {"people", "page"}
ReadContacts(m) ==
  LET found == ContactsIn(view, m) \ (labels[m] \union seen) IN
  /\ m \in todo \cap DOMAIN labels
  /\ view.kind = "targets" => todo \subseteq DOMAIN labels
  /\ \E part \in IF view.kind \in Whole THEN {found} ELSE SUBSET found :
       /\ shown' = shown \union {<<m, p>> : p \in part}
       /\ seen' = IF view.kind \in Whole \union {"job"} THEN seen \union found
                  ELSE IF view.kind = "bridge" THEN seen \union part ELSE seen
  /\ todo' = todo \ {m}
  /\ view' = IF todo' = {} THEN Ended(view) ELSE view
  /\ UNCHANGED <<tables, labels, changes>>

Step == \/ \E v \in Views : Begin(v)
        \/ PassAgain
        \/ ReadMembers
        \/ \E m \in Users : ReadLabels(m) \/ SkipMember(m) \/ ReadContacts(m)

(* What has been true since the request began.                             *)
Open == (Users \X Persons) \ private
Witness ==
  LET fresh == view = NoView IN
  /\ wasFriend' = TrustMembers(Viewer)' \union (IF fresh THEN {} ELSE wasFriend)
  /\ wasOpen' = Open' \union (IF fresh THEN {} ELSE wasOpen)

ReadsNext == (Change /\ UNCHANGED <<wasFriend, wasOpen>> /\ view = NoView)
          \/ (Change /\ view # NoView /\ Witness)
          \/ (Step /\ Witness)

ReadsSpec == TablesOK /\ ReadsInit /\ [][ReadsNext]_readsVars

-----------------------------------------------------------------------------
(* Properties.                                                             *)

ReadsTypeOK ==
  /\ TablesOK
  /\ view \in Views \union {NoView} /\ changes \in 0..MaxChanges
  /\ todo \in SUBSET Users /\ seen \in SUBSET Persons
  /\ labels \in [DOMAIN labels -> SUBSET Persons] /\ DOMAIN labels \in SUBSET Users
  /\ shown \in SUBSET (Users \X Persons)

(* However the labels, the trust and the contacts change while a request   *)
(* reads them, a contact is shown only if its owner was trusted at some    *)
(* moment of the request and had not labelled it private at some moment.   *)
PrivateIsHidden ==
  \A k \in shown : k[1] \in wasFriend /\ k \in wasOpen

(* A merge takes nobody out of anyone's network, off anyone's pages or out *)
(* of anyone's strong ties, and opens nobody who was private: what the     *)
(* duplicate was, the survivor is, unless the survivor is noise to the     *)
(* user, or works elsewhere.  A listed strong tie stays listed but for a   *)
(* duplicate's URL that names no profile; the scraped are not scraped again*)
MergeKeepsContacts ==
  [][\A d \in persons \ persons' : \E s \in persons' : \A u \in Users :
       /\ {s, d} \cap InNetwork(u) # {} => s \in InNetwork(u)'
       /\ {s, d} \cap GetPerson(u) # {} => s \in GetPerson(u)'
       /\ s \in StrongTies(u) => s \in StrongTies(u)'
       /\ d \in StrongTies(u) /\ obs[u][s] \cap {"broadcast", "automated"} = {} => s \in StrongTies(u)'
       /\ s \in ListedTies(u) /\ d \in Are("slug") \union (persons \ Are("linked")) => s \in ListedTies(u)'
       /\ {s, d} \cap Are("scraped") # {} => s \notin Unscraped(u)'
       /\ \A o \in Orgs : /\ s \in OutreachContacts(u, o) => s \in OutreachContacts(u, o)'
                          /\ d \in OutreachContacts(u, o) /\ org[s] \in {None, o}
                               => s \in OutreachContacts(u, o)'
       /\ {<<u, s>>, <<u, d>>} \cap private # {} => <<u, s>> \in private']_readsVars

=============================================================================
