---------------------------- MODULE PersonDedup ----------------------------
(***************************************************************************)
(* How the duplicates among the persons a user has observed are found and  *)
(* merged (person_dedup_service.py): by name, by number, by address, and   *)
(* by a name that goes on where another ends.  Each pass reads its groups  *)
(* when it begins, and merges them one after the other, all in one         *)
(* transaction; the user may ask for it again and again.                   *)
(***************************************************************************)
EXTENDS Integers, FiniteSets, Sequences, SequencesExt, Accounts

CONSTANTS Members,      (* the persons the user has observed               *)
          Titles,       (* names, as sequences of words                    *)
          Address,      (* the handle that the name <<"@">> stands for     *)
          AllHandles,   (* handles: each belongs to one person             *)
          KindOf,       (* "phone", "email" or "linkedin"                  *)
          Norm,         (* the normal form of a handle                     *)
          Facts         (* what else refers to a person, by what tells two *)
                        (* rows of one table apart                         *)

ASSUME DedupAssumption ==
  /\ IsFiniteSet(Members) /\ IsFiniteSet(AllHandles) 
  /\ None \notin Members /\ None \notin AllHandles /\ None \notin Titles
  /\ Titles \subseteq Seq(STRING) /\ Address \in AllHandles /\ Norm \in [AllHandles -> AllHandles]
  /\ KindOf \in [AllHandles -> {"phone", "email", "linkedin"}]
  /\ \A h \in AllHandles : KindOf[Norm[h]] = KindOf[h] /\ Norm[Norm[h]] = Norm[h]

VARIABLES title,      (* the name of each person, None when it is merged   *)
          holder,     (* the person each handle belongs to                 *)
          primary,    (* the primary address of each person                *)
          facts,      (* the rows that refer to each person                *)
          linked,     (* the pairs of persons seen in one thread           *)
          pass, todo, (* the pass that is running, and its groups left     *)
          went,       (* the person each has been merged into              *)
          atStart,    (* the tables at the beginning of the transaction    *)
          ids,        (* the identity keys the last pass has read          *)
          cursor      (* the person whose name the last pass looks for, as *)
                      (* it is in memory, and those it has yet to look at  *)

dedupVars == <<title, holder, primary, facts, linked, pass, todo, went, atStart, ids, cursor>>
dedupTables == <<title, holder, primary, facts, linked>>

Passes == <<"names", "phones", "emails", "longer", "done">>
Present == {p \in Members : title[p] # None}
LooksLikeEmail(t) == t = <<"@">>

-----------------------------------------------------------------------------
(* Groups.                                                                 *)

(* A plausible slip: numbers and addresses are compared as they are.       *)
AsTheyAre(h) == h
Form(h) == Norm[h]

HeldForms(p, kd) == {Form(h) : h \in {g \in AllHandles : holder[g] = p /\ KindOf[g] = kd}}
(* Addresses are compared as they are and in their normal form.  A name    *)
(* may be an address.                                                      *)
RawEmails(p) == {g \in AllHandles : holder[g] = p /\ KindOf[g] = "email"} \union ({primary[p]} \ {None})
                  \union (IF LooksLikeEmail(title[p]) THEN {Address} ELSE {})
EmailForms(p) == RawEmails(p) \union {Form(h) : h \in RawEmails(p)}

(* The groups of those who have a key in common, in any order of the keys. *)
Having(forms, k) == {p \in Present : k \in forms[p]}
Grouped(forms) ==
  LET keys == {k \in UNION {forms[p] : p \in Present} : Cardinality(Having(forms, k)) > 1}
  IN {[i \in DOMAIN ks |-> Having(forms, ks[i])] : ks \in SetToSeqs(keys)}

(* The keys that confirm that a longer name is of the same person.         *)
IdentityKeys(p) == HeldForms(p, "email") \union HeldForms(p, "phone") \union HeldForms(p, "linkedin")
                     \union (IF primary[p] = None THEN {} ELSE {Form(primary[p])})
NoKeys == [p \in Members |-> {}]

Groups(next) ==
  CASE next = "names" -> Grouped([p \in Present |-> {title[p]}])
    [] next = "phones" -> Grouped([p \in Present |-> HeldForms(p, "phone")])
    [] next = "emails" -> Grouped([p \in Present |-> EmailForms(p)])
    [] next = "longer" -> {ps \in SetToSeqs({p \in Present : ~LooksLikeEmail(title[p]) /\ Len(title[p]) > 1}) :
                             \A i, j \in DOMAIN ps : i < j => Len(title[ps[i]]) <= Len(title[ps[j]])}
    [] OTHER -> {<<>>}

-----------------------------------------------------------------------------
(* Merging.                                                                *)

(* Handles are counted when the run begins; what else decides - an address,*)
(* numbers, an employer, age - is left open.                               *)
AliasCount(p) == Cardinality({h \in AllHandles : atStart.holder[h] = p})
Outranks(names, p, q) ==
  LET named(r) == IF LooksLikeEmail(names[r]) THEN 0 ELSE 1
  IN named(p) > named(q) \/ (named(p) = named(q) /\ AliasCount(p) > AliasCount(q))
Survivors(names, ps) == {p \in ps : \A q \in ps : ~Outranks(names, q, p)}

Into(s, ds, p) == IF p \in ds THEN s ELSE p

(* A plausible slip: the handles stay with the duplicate.                  *)
AliasesLeft(s, ds) == holder
MergedAliases(s, ds) == [h \in AllHandles |-> Into(s, ds, holder[h])]

(* Of the addresses of several, the survivor takes the first if it has none*)
MergedPrimary(s, ds, e) == [p \in Members |-> IF p \in ds THEN None
                                           ELSE IF p = s /\ primary[s] = None THEN e ELSE primary[p]]
Addresses(s, ds) == {primary[d] : d \in ds} \ {None}

(* A row the survivor has already takes the place of the duplicate's.      *)
ReassignedFacts(s, ds) == [p \in Members |-> IF p \in ds THEN {}
                                          ELSE IF p = s THEN UNION {facts[d] : d \in ds \union {s}} ELSE facts[p]]
(* A link between the two goes.                                            *)
ReassignedLinks(s, ds) == {l \in {{Into(s, ds, p) : p \in m} : m \in linked} : Cardinality(l) = 2}

MergeInto(s, ds, name) ==
  /\ title' = [p \in Members |-> IF p \in ds THEN None ELSE IF p = s THEN name ELSE title[p]]
  /\ holder' = MergedAliases(s, ds)
  /\ \E e \in IF Addresses(s, ds) = {} THEN {None} ELSE Addresses(s, ds) : primary' = MergedPrimary(s, ds, e)
  /\ facts' = ReassignedFacts(s, ds)
  /\ linked' = ReassignedLinks(s, ds)
  /\ went' = [p \in Members |-> Into(s, ds, went[p])]

-----------------------------------------------------------------------------
(* A run.                                                                  *)

Tables == [title |-> title, holder |-> holder, primary |-> primary, facts |-> facts, linked |-> linked]
Self == [p \in Members |-> p]
NoCursor == [short |-> None, name |-> <<>>, email |-> None, rest |-> <<>>]

DedupInit ==
  /\ title \in [Members -> Titles] /\ holder \in [AllHandles -> Members \union {None}]
  /\ primary \in [Members -> {h \in AllHandles : KindOf[h] = "email"} \union {None}]
  /\ facts \in [Members -> SUBSET Facts] /\ linked \in SUBSET {l \in SUBSET Members : Cardinality(l) = 2}
  /\ pass = "idle" /\ todo = <<>> /\ went = Self /\ atStart = Tables
  /\ ids = NoKeys /\ cursor = NoCursor

DedupForUser ==
  /\ pass = "idle" \/ (pass = "done" /\ went # Self)
  /\ pass' = "names" /\ todo' \in Groups("names")
  /\ went' = Self /\ atStart' = Tables
  /\ UNCHANGED <<dedupTables, ids, cursor>>

(* The next pass; one that has fewer than two persons left has no groups.  *)
NextPass ==
  /\ pass \in {Passes[i] : i \in 1..4} /\ todo = <<>> /\ cursor.rest = <<>>
  /\ LET next == Passes[(CHOOSE i \in 1..4 : Passes[i] = pass) + 1]
     IN /\ pass' = next /\ todo' \in Groups(next)
        /\ ids' = IF next = "longer" THEN [p \in Members |-> IF p \in Present THEN IdentityKeys(p) ELSE {}] ELSE NoKeys
  /\ cursor' = NoCursor
  /\ UNCHANGED <<dedupTables, went, atStart>>

Abandon ==
  /\ title' = atStart.title /\ holder' = atStart.holder /\ primary' = atStart.primary
  /\ facts' = atStart.facts /\ linked' = atStart.linked
  /\ pass' = "failed" /\ todo' = <<>> /\ went' = Self
  /\ ids' = NoKeys /\ cursor' = NoCursor
  /\ UNCHANGED atStart

(* The members of a group that are there yet become one of them.  When     *)
(* none is, the numbers and the addresses have nobody to choose from.      *)
MergeGroup ==
  /\ pass \in {"names", "phones", "emails"} /\ todo # <<>>
  /\ LET ps == Head(todo) \intersect Present IN
     IF ps = {} THEN Abandon
     ELSE /\ \E s \in Survivors(title, ps) : MergeInto(s, ps \ {s}, title[s])
          /\ todo' = Tail(todo)
          /\ UNCHANGED <<pass, atStart, ids, cursor>>

(* The last pass goes through the persons by the length of their names,    *)
(* and compares each with those after it.                                  *)
NextShorter ==
  /\ pass = "longer" /\ cursor.rest = <<>> /\ todo # <<>>
  /\ cursor' = IF Head(todo) \in Present
               THEN [short |-> Head(todo), name |-> title[Head(todo)], email |-> primary[Head(todo)], rest |-> Tail(todo)]
               ELSE NoCursor
  /\ todo' = Tail(todo)
  /\ UNCHANGED <<dedupTables, pass, went, atStart, ids>>

(* A plausible slip: no key has to confirm the longer name.                *)
SameName(long) == IsPrefix(cursor.name, title[long])
Continues(long) == IsPrefix(cursor.name, title[long]) /\ ids[cursor.short] \intersect ids[long] # {}

(* Of the two names the shorter is kept.  The shorter person may have been *)
(* merged by the comparison before: then there is nobody to merge into, or *)
(* nothing of it left but the name and the address it had.                 *)
Compared(email) ==
  /\ cursor' = [cursor EXCEPT !.rest = Tail(@), !.email = email]
  /\ UNCHANGED <<pass, todo, atStart, ids>>
ComparePair ==
  /\ cursor.rest # <<>>
  /\ LET short == cursor.short
         long == Head(cursor.rest)
         named == [title EXCEPT ![short] = cursor.name]
     IN \/ /\ long \in Present => ~Continues(long)
           /\ Compared(cursor.email) /\ UNCHANGED <<dedupTables, went>>
        \/ /\ long \in Present /\ Continues(long) /\ short \in Present
           /\ \E s \in Survivors(named, {short, long}) :
                /\ MergeInto(s, {short, long} \ {s}, cursor.name)
                /\ Compared(IF s = short THEN primary'[short] ELSE cursor.email)
        \/ /\ long \in Present /\ Continues(long) /\ short \notin Present
           /\ short \in Survivors(named, {short, long}) /\ Abandon
        \/ /\ long \in Present /\ Continues(long) /\ short \notin Present
           /\ long \in Survivors(named, {short, long}) /\ title' = [title EXCEPT ![long] = cursor.name]
           /\ primary' = [primary EXCEPT ![long] = IF @ = None THEN cursor.email ELSE @]
           /\ Compared(cursor.email) /\ UNCHANGED <<holder, facts, linked, went>>

DedupNext == DedupForUser \/ NextPass \/ MergeGroup \/ NextShorter \/ ComparePair
DedupSpec == DedupInit /\ [][DedupNext]_dedupVars

-----------------------------------------------------------------------------
(* Properties.                                                             *)

DedupTypeOK ==
  /\ title \in [Members -> Titles \union {None}] /\ holder \in [AllHandles -> Members \union {None}]
  /\ pass \in {"idle", "failed"} \union {Passes[i] : i \in DOMAIN Passes}
  /\ \A h \in AllHandles : holder[h] # None => title[holder[h]] # None
  /\ \A p \in Members : title[p] = None => facts[p] = {} /\ primary[p] = None

(* What the tables as they were say of two sets of persons: that some of   *)
(* them have one name, number or address, or that a name of one goes on    *)
(* where one of the other ends and some key confirms it.                   *)
Were(S) == {atStart.title[p] : p \in S}
Held(S, kds) ==
  {Norm[h] : h \in {g \in AllHandles : atStart.holder[g] \in S /\ KindOf[g] \in kds}}
    \union (IF "email" \in kds THEN {Norm[h] : h \in {atStart.primary[p] : p \in S} \ {None}} ELSE {})
Called(S) == IF <<"@">> \in Were(S) THEN {Norm[Address]} ELSE {}
Confirmed(S, T) == Held(S, {"phone", "email", "linkedin"}) \intersect Held(T, {"phone", "email", "linkedin"}) # {}
GoesOn(S, t) == Len(t) > 1 /\ \E v \in Were(S) : Len(v) > 1 /\ IsPrefix(t, v)
Evidence(S, T) ==
  \/ Were(S) \intersect Were(T) # {}
  \/ Held(S, {"phone"}) \intersect Held(T, {"phone"}) # {}
  \/ (Held(S, {"email"}) \union Called(S)) \intersect (Held(T, {"email"}) \union Called(T)) # {}
  \/ Confirmed(S, T) /\ ((\E t \in Were(S) : GoesOn(T, t)) \/ (\E t \in Were(T) : GoesOn(S, t)))
(* Two persons whose names both go on where that of a third ends may have  *)
(* come to the shorter name before they are compared with each other.      *)
Alike(S, T) ==
  \/ Evidence(S, T)
  \/ Confirmed(S, T) /\ \E t \in Were({p \in Members : atStart.title[p] # None}) : GoesOn(S, t) /\ GoesOn(T, t)

(* Persons become one only on evidence: whoever has been merged, in however*)
(* many steps, there is no way to divide them in two that nothing said of  *)
(* them when the run began connects.                                       *)
Became(p) == {q \in Members : went[q] = p /\ atStart.title[q] # None}
MergesHaveEvidence ==
  \A p \in Present : \A S \in (SUBSET Became(p)) \ {{}, Became(p)} : Alike(S, Became(p) \ S)

(* A run works with groups it read before it merged any, and may leave     *)
(* duplicates; but a run that merges nobody leaves none, so the runs that  *)
(* are repeated until then leave none.                                     *)
RoundsConverge ==
  pass = "done" /\ went = Self => \A p, q \in Present : p # q => ~Evidence({p}, {q})

=============================================================================
