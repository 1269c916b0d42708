--------------------------- MODULE ContactImport ---------------------------
(***************************************************************************)
(* Imports of contacts, and what they make of them: persons, which all     *)
(* users share, the handles (e-mail and LinkedIn addresses, numbers) that  *)
(* name a person, and who has observed whom.  Imports of several users run *)
(* at a time, commit as they go, and may be stopped at any step; a merge   *)
(* of duplicates may run between any two of their steps.                   *)
(***************************************************************************)
EXTENDS Integers, FiniteSets, Sequences, Accounts

CONSTANTS Importers,    (* the sources that are imported                   *)
          Owner,        (* the user of each source                         *)
          People,       (* the rows there can be of persons                *)
          Names, Handles,
          Normal,       (* the handle that is the normal form of another   *)
          Urls, Emails, (* the handles that are addresses of profiles, and *)
                        (* those that are e-mail addresses                 *)
          Books,        (* the lists of contacts a source may hold         *)
          Batch,        (* contacts written between two commits            *)
          MaxResults,   (* contacts read by one run of a Google import     *)
          MaxRuns, MaxMerges

ASSUME ImportAssumption ==
  /\ None \notin Importers /\ None \notin People /\ None \notin Names
  /\ Owner \in [Importers -> Users] /\ Books \subseteq SUBSET [name : Names, handles : Seq(Handles)]
  /\ Normal \in [Handles -> Handles] /\ \A h \in Handles : Normal[Normal[h]] = Normal[h]
  /\ Urls \subseteq Handles /\ Emails \subseteq Handles
  /\ Batch \in Nat \ {0} /\ MaxResults \in Nat \ {0} /\ MaxRuns \in Nat /\ MaxMerges \in Nat

VARIABLES person,    (* the name of each person, None where there is no row*)
          alias,     (* the person a handle belongs to                     *)
          observed,  (* the pairs <<user, person>> with an observation     *)
          sourceKind,(* what it imports                                    *)
          book,      (* the contacts it holds                              *)
          token,     (* the contacts that need not be listed again         *)
          import,    (* the state of each import                           *)
          tx,        (* what its open transaction has written              *)
          merge,     (* the merge of duplicates that is running            *)
          lost,      (* the pairs <<user, handle>> that a merge took away  *)
          runs, merges

importVars == <<person, alias, observed, sourceKind, book, token, import, tx, merge, lost, runs, merges>>
tablesOfPersons == <<person, alias, observed>>
sources == <<sourceKind, book>>

Kinds == {"phone", "linkedin", "gmail", "contacts", "calendar"}
Google == {"gmail", "contacts", "calendar"}
(* The kinds whose next run reads only what has changed.                   *)
Incremental == {"contacts", "calendar"}

NoAlias == [h \in Handles |-> None]
NoPerson == [p \in People |-> None]
NoWrites == [person |-> NoPerson, alias |-> NoAlias, observed |-> {}, contacts |-> {}]
NoImport == [pc |-> "idle", phase |-> "read", todo |-> {}, done |-> {}, since |-> 0,
         known |-> NoAlias, index |-> {}, waits |-> None]

ImportInit ==
  /\ alias = NoAlias /\ observed = {} /\ person = NoPerson
  /\ sourceKind \in [Importers -> Kinds] /\ book \in [Importers -> Books]
  /\ token = [i \in Importers |-> {}]
  /\ import = [i \in Importers |-> NoImport] /\ tx = [i \in Importers |-> NoWrites]
  /\ merge = None /\ lost = {} /\ runs = 0 /\ merges = 0

-----------------------------------------------------------------------------
(* Who a contact is.                                                       *)

Over(own, committed) == [k \in DOMAIN committed |-> IF own[k] # None THEN own[k] ELSE committed[k]]

(* The LinkedIn import looks aliases up in what it read when it began and  *)
(* what it has added since; the others ask the database.                   *)
Aliases(i) == IF sourceKind[i] = "linkedin" THEN import[i].known ELSE Over(tx[i].alias, alias)
Persons(i) == Over(tx[i].person, person)

FindAlias(seen, h) == IF seen[h] # None THEN seen[h] ELSE seen[Normal[h]]

(* The first handle of a contact that is known.                            *)
FirstKnown(seen, c) ==
  {h \in Handles : \E k \in DOMAIN c.handles :
     /\ c.handles[k] = h /\ FindAlias(seen, h) # None
     /\ \A j \in 1..(k - 1) : FindAlias(seen, c.handles[j]) = None}
NamedSo(i, c) == {p \in People : Persons(i)[p] = c.name}
FreshRow(p) ==
  /\ person[p] = None
  /\ \A j \in Importers : tx[j].person[p] = None /\ p \notin import[j].index
Newest == LET fresh == {p \in People : FreshRow(p)} IN {p \in fresh : p = CHOOSE q \in fresh : TRUE}

(* The LinkedIn import takes a name only if one of the persons it read or  *)
(* made has it.                                                            *)
OnlyNamed(i, c) == {p \in NamedSo(i, c) : NamedSo(i, c) \intersect import[i].index = {p}}
(* The persons a contact may be taken for: the owner of its first known    *)
(* handle, or else one of its name.                                        *)
Matches(i, c) ==
  LET hits == FirstKnown(Aliases(i), c) IN
  IF hits # {} THEN {FindAlias(Aliases(i), h) : h \in hits}
  ELSE IF sourceKind[i] = "linkedin" THEN OnlyNamed(i, c) ELSE NamedSo(i, c)

(* The handles become aliases of p, one after the other: those that are    *)
(* known already stay with whom they belong to, and one whose normal form  *)
(* has become an alias before it is known.                                 *)
AddsAlias(seen, c, h) ==
  /\ FindAlias(seen, h) = None
  /\ \E k \in DOMAIN c.handles : c.handles[k] = h /\ \A j \in 1..(k - 1) : c.handles[j] # Normal[h]
EnsureAliases(p, seen, c) == [h \in Handles |-> IF AddsAlias(seen, c, h) THEN p ELSE seen[h]]

(* A LinkedIn address that is known ends the matter.                       *)
ResolvedAliases(i, p, c) ==
  IF sourceKind[i] = "linkedin" /\ FindAlias(Aliases(i), c.handles[1]) # None THEN Aliases(i)
  ELSE EnsureAliases(p, Aliases(i), c)

(* The uploads take a name over if the present one is an address or goes   *)
(* on after it, Gmail if it is newer, the contacts if it is an address:    *)
(* what a name is made of is left out.                                     *)
Renamed(i, old, c) == IF old = None THEN {c.name}
                      ELSE IF sourceKind[i] \in {"phone", "gmail", "contacts"} THEN {old, c.name} ELSE {old}

-----------------------------------------------------------------------------
(* A run of an import.                                                     *)

(* An upload commits its first contact, batches, and what is left; the     *)
(* others pages; calendars are committed at their end.                     *)
UploadDue(i) == sourceKind[i] \notin Google /\ Cardinality(import[i].done) = 1
CommitDue(i) ==
  /\ sourceKind[i] # "calendar" /\ import[i].since > 0
  /\ UploadDue(i) \/ import[i].todo = {} \/ import[i].since >= Batch

Importing(i) == import[i].pc = "running" /\ import[i].waits = None

(* Imports pass over what lacks the handle they go by, whatever else it    *)
(* has: a connection the address of its profile, which comes first; a      *)
(* contact of the address book any; in mail and calendars an address.      *)
Accepts(kind, c) ==
  CASE kind = "linkedin" -> c.handles # <<>> /\ c.handles[1] \in Urls
    [] kind = "contacts" -> c.handles # <<>>
    [] kind \in {"gmail", "calendar"} -> \E k \in DOMAIN c.handles : c.handles[k] \in Emails
    [] OTHER -> TRUE
Taken(i, contacts) == {c \in contacts : Accepts(sourceKind[i], c)}

(* What the source lists: an expired token means all of it.                *)
Listed(i) == IF sourceKind[i] \in Incremental THEN {book[i], book[i] \ token[i]} ELSE {book[i]}

StartImport(i) ==
  /\ import[i].pc \in {"idle", "failed"} \/ (import[i].pc = "complete" /\ sourceKind[i] \in Incremental)
  /\ runs < MaxRuns
  /\ runs' = runs + 1
  /\ \E contacts \in Listed(i) :
       import' = [import EXCEPT ![i] = [NoImport EXCEPT !.pc = "running", !.todo = Taken(i, contacts), !.known = alias,
                                              !.index = {p \in People : person[p] # None}]]
  /\ UNCHANGED <<tablesOfPersons, sources, token, tx, merge, lost, merges>>

(* The handles c would insert that another open transaction has inserted.  *)
TakenBy(i, new) == {j \in Importers \ {i} : \E h \in Handles :
                      new[h] # None /\ Aliases(i)[h] = None /\ tx[j].alias[h] # None}
(* An alias that was committed after the LinkedIn import read them, or a   *)
(* person that has been merged since: the statement fails.                 *)
RefusedAlias(i, p, new) ==
  \/ \E h \in Handles : new[h] # Aliases(i)[h] /\ alias[h] # None
  \/ p \in import[i].index /\ Persons(i)[p] = None

FailedImport(i) == [import EXCEPT ![i].pc = "failed", ![i].waits = None, ![i].todo = {}, ![i].done = {},
                                  ![i].since = 0, ![i].phase = "read", ![i].known = NoAlias, ![i].index = {}]
Woken(i, state) == [j \in Importers |-> IF state[j].waits = i THEN [state[j] EXCEPT !.waits = None] ELSE state[j]]

NamesWritten(i, p, name) ==
  IF name # Persons(i)[p] THEN [tx[i].person EXCEPT ![p] = name] ELSE tx[i].person
AliasesWritten(i, new) == [h \in Handles |-> IF new[h] # Aliases(i)[h] THEN new[h] ELSE tx[i].alias[h]]
WriteContact(i, c, p, name, new) ==
  /\ tx' = [tx EXCEPT ![i] =
       [person |-> NamesWritten(i, p, name), alias |-> AliasesWritten(i, new),
        observed |-> @.observed \union {<<Owner[i], p>>},
        contacts |-> @.contacts \union {c}]]
  /\ import' = [import EXCEPT ![i].todo = @ \ {c}, ![i].done = @ \union {c}, ![i].since = @ + 1,
                              ![i].known = IF sourceKind[i] = "linkedin" THEN new ELSE @,
                              ![i].index = @ \union {p}]

(* One contact: find or make its person, give it its handles, observe it.  *)
(* An insert of what another transaction has inserted waits for its end.   *)
Ingest(i, c) ==
  /\ Importing(i) /\ ~CommitDue(i) /\ c \in import[i].todo
  /\ \E p \in IF Matches(i, c) # {} THEN Matches(i, c) ELSE Newest :
       LET new == ResolvedAliases(i, p, c) IN
       \/ /\ RefusedAlias(i, p, new)
          /\ import' = Woken(i, FailedImport(i)) /\ tx' = [tx EXCEPT ![i] = NoWrites]
       \/ /\ ~RefusedAlias(i, p, new) /\ TakenBy(i, new) # {}
          /\ \E j \in TakenBy(i, new) : import' = [import EXCEPT ![i].waits = j]
          /\ UNCHANGED tx
       \/ /\ ~RefusedAlias(i, p, new) /\ TakenBy(i, new) = {}
          /\ \E name \in Renamed(i, Persons(i)[p], c) : WriteContact(i, c, p, name, new)
  /\ UNCHANGED <<tablesOfPersons, sources, token, merge, lost, runs, merges>>

(* Those that wait for the transaction find the key there and fail.        *)
CommitImport(i, state) ==
  /\ person' = Over(tx[i].person, person)
  /\ alias' = Over(tx[i].alias, alias)
  /\ observed' = observed \union tx[i].observed
  /\ import' = [j \in Importers |-> IF import[j].waits = i THEN FailedImport(j)[j]
                                    ELSE IF j = i THEN state ELSE import[j]]
  /\ tx' = [j \in Importers |-> IF j = i \/ import[j].waits = i THEN NoWrites ELSE tx[j]]

(* Progress is committed; a run that has read its maximum reads no more.   *)
Capped(i) == sourceKind[i] \in Google /\ Cardinality(import[i].done) >= MaxResults
CommitProgress(i) ==
  /\ Importing(i) /\ CommitDue(i)
  /\ CommitImport(i, [import[i] EXCEPT !.since = 0, !.todo = IF Capped(i) THEN {} ELSE @,
                                       !.phase = IF Capped(i) THEN "capped" ELSE @])
  /\ UNCHANGED <<sources, token, merge, lost, runs, merges>>

(* Gmail reads the address book, then the mail, and then goes through the  *)
(* most recent contacts again.                                             *)
NextPhase(i) ==
  /\ Importing(i) /\ sourceKind[i] = "gmail" /\ import[i].todo = {} /\ import[i].since = 0
  /\ import[i].phase = "read"
  /\ \E again \in SUBSET import[i].done :
       /\ Cardinality(again) = 1
       /\ import' = [import EXCEPT ![i].phase = "timelines", ![i].todo = again]
  /\ UNCHANGED <<tablesOfPersons, sources, token, tx, merge, lost, runs, merges>>

(* The token is of the end of a listing: a capped run has none.            *)
CompleteImport(i) ==
  /\ Importing(i) /\ import[i].todo = {} /\ (sourceKind[i] = "calendar" \/ import[i].since = 0)
  /\ sourceKind[i] = "gmail" => import[i].phase \in {"timelines", "capped"}
  /\ CommitImport(i, [import[i] EXCEPT !.pc = "complete", !.since = 0])
  /\ token' = IF sourceKind[i] \in Incremental /\ import[i].phase # "capped"
              THEN [token EXCEPT ![i] = @ \union import[i].done] ELSE token
  /\ UNCHANGED <<sources, merge, lost, runs, merges>>

(* The provider, the network, a deadlock or the process fails.             *)
FailImport(i) ==
  /\ import[i].pc = "running"
  /\ import' = Woken(i, FailedImport(i))
  /\ tx' = [tx EXCEPT ![i] = NoWrites]
  /\ UNCHANGED <<tablesOfPersons, sources, token, merge, lost, runs, merges>>

(* The address book grows after it has been read.                          *)
BookGrows(i) ==
  /\ sourceKind[i] \in Incremental /\ import[i].pc = "complete"
  /\ \E b \in Books : book[i] \subseteq b /\ b # book[i] /\ book' = [book EXCEPT ![i] = b]
  /\ UNCHANGED <<tablesOfPersons, sourceKind, token, import, tx, merge, lost, runs, merges>>

-----------------------------------------------------------------------------
(* A merge of duplicates reads the aliases and the observations of the     *)
(* duplicate, gives them to the survivor and deletes the duplicate, with   *)
(* whatever refers to it by then.  The delete waits for transactions that  *)
(* have written references to it.                                          *)

MergeReads(s, d) ==
  /\ merge = None /\ merges < MaxMerges /\ s # d /\ person[s] # None /\ person[d] # None
  /\ \E u \in Users : {<<u, s>>, <<u, d>>} \subseteq observed
  /\ merge' = [into |-> s, from |-> d, alias |-> {h \in Handles : alias[h] = d},
               users |-> {u \in Users : <<u, d>> \in observed}]
  /\ merges' = merges + 1
  /\ UNCHANGED <<tablesOfPersons, sources, token, import, tx, lost, runs>>

(* A plausible slip: a row is moved only to where there is one already.    *)
MergedObservations(users, s) == {<<u, s>> : u \in {v \in users : <<v, s>> \in observed}}
MovedObservations(users, s) == {<<u, s>> : u \in users}
MergeEnds ==
  /\ merge # None
  /\ LET s == merge.into
         d == merge.from
         late == {h \in Handles : alias[h] = d} \ merge.alias
         lateUsers == {u \in Users : <<u, d>> \in observed} \ merge.users
     IN /\ \A i \in Importers : d \notin {tx[i].alias[h] : h \in Handles} \union {o[2] : o \in tx[i].observed}
        /\ person' = [person EXCEPT ![d] = None]
        /\ alias' = [h \in Handles |-> IF h \in merge.alias THEN s ELSE IF h \in late THEN None ELSE alias[h]]
        /\ observed' = {o \in observed : o[2] # d} \union MovedObservations(merge.users, s)
        /\ lost' = lost \union (Users \X late) \union (lateUsers \X merge.alias)
  /\ merge' = None
  /\ UNCHANGED <<sources, token, import, tx, runs, merges>>

ImportNext ==
  \/ \E i \in Importers : \/ StartImport(i) \/ \E c \in import[i].todo : Ingest(i, c)
                          \/ CommitProgress(i) \/ NextPhase(i) \/ CompleteImport(i) \/ FailImport(i) \/ BookGrows(i)
  \/ \E s, d \in People : MergeReads(s, d)
  \/ MergeEnds
ImportSpec == ImportInit /\ [][ImportNext]_importVars

-----------------------------------------------------------------------------
(* Properties.                                                             *)

ImportTypeOK ==
  /\ person \in [People -> Names \union {None}]
  /\ alias \in [Handles -> People \union {None}] /\ observed \in SUBSET (Users \X People)
  /\ sourceKind \in [Importers -> Kinds] /\ book \in [Importers -> Books]
  /\ \A h \in Handles : alias[h] # None => person[alias[h]] # None
  /\ \A o \in observed : person[o[2]] # None
  /\ \A i \in Importers : import[i].pc # "running" => tx[i] = NoWrites
  /\ lost \in SUBSET (Users \X Handles) /\ runs \in 0..MaxRuns /\ merges \in 0..MaxMerges

(* The handles that may stand for a contact.                               *)
Forms(c) == {c.handles[k] : k \in DOMAIN c.handles} \union {Normal[c.handles[k]] : k \in DOMAIN c.handles}
KeptFor(u, c) == \E h \in Forms(c) : (alias[h] # None /\ <<u, alias[h]>> \in observed) \/ <<u, h>> \in lost

(* The contacts a source will not read again.                              *)
Promised(i) == IF sourceKind[i] \in Incremental THEN token[i]
               ELSE IF import[i].pc = "complete" THEN
                 (IF import[i].phase = "capped" THEN {} ELSE book[i]) ELSE {}

(* Whatever else imports, merges, fails and is tried again meanwhile, each *)
(* contact with a handle that a source is done with is observed by its     *)
(* user, under a person that carries one of its handles, in one form or    *)
(* the other.  There are two exceptions: a reference to a duplicate that   *)
(* is written while the duplicate is merged, and a contact that the import *)
(* of its kind passes over, such as a LinkedIn connection with an e-mail   *)
(* address and no profile, though its source becomes complete.             *)
ContactsKept ==
  \A i \in Importers : \A c \in Taken(i, Promised(i)) : c.handles # <<>> => KeptFor(Owner[i], c)

=============================================================================
