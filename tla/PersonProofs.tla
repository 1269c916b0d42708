---------------------------- MODULE PersonProofs ----------------------------
(***************************************************************************)
(* Proofs about what is written of persons.                                *)
(*                                                                         *)
(* PersonDedup, for any persons, names and handles: types, that persons are*)
(* made one on evidence alone, and that a run that merges nobody leaves no *)
(* duplicates.                                                             *)
(*                                                                         *)
(* ContactImport, for any sources, contacts and numbers of runs: types, and*)
(* that no contact a source is done with is missing.                       *)
(*                                                                         *)
(* PersonProfile, for any sources of claims and transactions: types, that  *)
(* an edit by hand prevails while it is fresh, and that the ranking of     *)
(* claims settles.                                                         *)
(***************************************************************************)
EXTENDS PersonDedup, ContactImport, PersonProfile, SequenceTheorems, FiniteSetTheorems, WellFoundedInduction, TLAPS

-----------------------------------------------------------------------------
(* Duplicates: the invariant.                                              *)

Early == {"names", "phones", "emails"}
AllKinds == {"phone", "email", "linkedin"}
EmailKeys == {h \in AllHandles : KindOf[h] = "email"}
Began == {p \in Members : atStart.title[p] # None}
StartNames == {atStart.title[p] : p \in Began}

(* Who has become each person, and what the tables said of sets of them.   *)
Class == [p \in Members |-> Became(p)]
Alikes == {x \in (SUBSET Members) \X (SUBSET Members) : Alike(x[1], x[2])}
Evident == {x \in (SUBSET Members) \X (SUBSET Members) : Evidence(x[1], x[2])}
NamesOf == [S \in SUBSET Members |-> Were(S)]
KeysOf == [S \in SUBSET Members |-> Held(S, AllKinds)]

(* Rows refer to persons that are there; nothing is left of one that went. *)
TablesFit(t) ==
  /\ t.title \in [Members -> Titles \union {None}]
  /\ t.holder \in [AllHandles -> Members \union {None}]
  /\ t.primary \in [Members -> EmailKeys \union {None}]
  /\ \A h \in AllHandles : t.holder[h] # None => t.title[t.holder[h]] # None
  /\ \A p \in Members : t.title[p] = None => t.facts[p] = {} /\ t.primary[p] = None
DedupTables ==
  /\ TablesFit(Tables) /\ TablesFit(atStart)
  /\ pass \in {"idle", "failed", "longer", "done"} \union Early
  /\ went \in [Members -> Members]

(* What a person has now was had by somebody who has become that person.   *)
Stays == \A p \in Present : went[p] = p /\ p \in Began
Owned == \A h \in AllHandles : holder[h] # None => atStart.holder[h] # None /\ went[atStart.holder[h]] = holder[h]
Addressed == pass \in Early => \A p \in Present : primary[p] # None => \E q \in Class[p] : atStart.primary[q] = primary[p]
Titled == pass \in Early => \A p \in Present : \E q \in Class[p] : atStart.title[q] = title[p]
Undivided == \A p \in Present : \A S \in (SUBSET Class[p]) \ {{}, Class[p]} : <<S, Class[p] \ S>> \in Alikes

(* The groups of a pass are of persons with evidence, of those left.       *)
GroupsFit ==
  pass \in Early =>
    /\ todo \in Seq(SUBSET Members)
    /\ \A i \in DOMAIN todo : \A p, q \in todo[i] \intersect Present : p # q => <<Class[p], Class[q]>> \in Evident

(* In the last pass names only become shorter, and keys are as they were.  *)
LongerFits ==
  pass = "longer" =>
    /\ todo \in Seq(Members) /\ \A i, j \in DOMAIN todo : todo[i] = todo[j] => i = j
    /\ \A i \in DOMAIN todo : todo[i] \in Present => Len(title[todo[i]]) > 1
    /\ \A p \in Present : ids[p] \subseteq KeysOf[Class[p]] /\ title[p] \in StartNames
    /\ \A p \in Present : \E v \in NamesOf[Class[p]] : IsPrefix(title[p], v)
CursorFits ==
  /\ pass # "longer" => cursor = NoCursor
  /\ cursor \in [short : Members \union {None}, name : Seq(STRING), email : EmailKeys \union {None}, rest : Seq(Members)]
  /\ cursor.rest # <<>> =>
    /\ pass = "longer" /\ cursor.short \in Members
    /\ \A j \in DOMAIN cursor.rest : cursor.rest[j] # cursor.short
    /\ cursor.name \in StartNames /\ Len(cursor.name) > 1
    /\ cursor.short \in Present => \E v \in NamesOf[Class[cursor.short]] : IsPrefix(cursor.name, v)

EvidenceInv ==
  /\ DedupTables /\ Stays /\ Owned /\ Addressed /\ Titled /\ Undivided
  /\ GroupsFit /\ LongerFits /\ CursorFits

(* While nobody has been merged the tables are as they were, and whoever   *)
(* has a key in common is yet to be merged.                                *)
PassKeys ==
  [x \in Early |-> [p \in Members |-> CASE x = "names" -> {title[p]} [] x = "phones" -> HeldForms(p, "phone")
                                        [] x = "emails" -> EmailForms(p)]]
IdKeys == [p \in Members |-> IdentityKeys(p)]
Finished ==
  CASE pass = "phones" -> {"names"} [] pass = "emails" -> {"names", "phones"} [] pass \in {"longer", "done"} -> Early
    [] OTHER -> {}
Follow ==
  {x \in Present \X Present :
     /\ x[1] # x[2] /\ Len(title[x[1]]) > 1 /\ Len(title[x[2]]) > 1 /\ IsPrefix(title[x[1]], title[x[2]])
     /\ IdKeys[x[1]] \intersect IdKeys[x[2]] # {}}
Untouched == title = atStart.title /\ holder = atStart.holder /\ primary = atStart.primary
Apart == \A x \in Finished : \A p, q \in Present : p # q => PassKeys[x][p] \intersect PassKeys[x][q] = {}
Pending ==
  pass \in Early => \A p, q \in Present :
    p # q /\ PassKeys[pass][p] \intersect PassKeys[pass][q] # {} => \E i \in DOMAIN todo : {p, q} \subseteq todo[i]
ToCompare ==
  pass = "longer" =>
    /\ \A x \in Follow : \/ \E i, j \in DOMAIN todo : i < j /\ todo[i] = x[1] /\ todo[j] = x[2]
                         \/ cursor.short = x[1] /\ \E j \in DOMAIN cursor.rest : cursor.rest[j] = x[2]
    /\ \A p \in Present : ids[p] = IdKeys[p]
    /\ cursor.rest # <<>> => cursor.short \in Present /\ cursor.name = title[cursor.short]
ConvergeInv ==
  went = Self => Untouched /\ Apart /\ Pending /\ ToCompare /\ (pass = "done" => Follow = {})

-----------------------------------------------------------------------------
(* Duplicates: names, groups and evidence.                                 *)

(* A prefix agrees with the sequence as far as it goes.                    *)
LEMMA PrefixElements ==
  ASSUME NEW X, NEW s \in Seq(X), NEW t \in Seq(X)
  PROVE  IsPrefix(s, t) <=> Len(s) <= Len(t) /\ \A i \in 1..Len(s) : s[i] = t[i]
<1>1. Len(s) \in Nat /\ Len(t) \in Nat /\ SubSeq(s, 1, Len(s)) = s
  BY SubSeqFull, LenProperties
<1>2. ASSUME Len(s) <= Len(t)
      PROVE  /\ SubSeq(t, 1, Len(s)) \in Seq(X) /\ Len(SubSeq(t, 1, Len(s))) = Len(s)
             /\ \A i \in 1..Len(s) : SubSeq(t, 1, Len(s))[i] = t[i]
  <2>1. \A i \in 1..Len(s) : t[i] \in X
    BY <1>1, <1>2, ElementOfSeq
  <2>2. QED  BY <1>1, <2>1, SubSeqProperties
<1>3. ASSUME IsPrefix(s, t)  PROVE Len(s) <= Len(t) /\ \A i \in 1..Len(s) : s[i] = t[i]
  BY <1>1, <1>2, <1>3 DEF IsPrefix
<1>4. ASSUME Len(s) <= Len(t), \A i \in 1..Len(s) : s[i] = t[i]  PROVE IsPrefix(s, t)
  <2>1. SubSeq(t, 1, Len(s)) = s
    BY <1>1, <1>2, <1>4, SeqEqual
  <2>2. QED  BY <1>1, <1>4, <2>1 DEF IsPrefix
<1>5. QED  BY <1>3, <1>4

LEMMA PrefixTransitive ==
  ASSUME NEW X, NEW s \in Seq(X), NEW t \in Seq(X), NEW v \in Seq(X), IsPrefix(s, t), IsPrefix(t, v)
  PROVE  IsPrefix(s, v)
<1>1. Len(s) \in Nat /\ Len(t) \in Nat /\ Len(v) \in Nat
  BY LenProperties
<1>2. Len(s) <= Len(t) /\ \A i \in 1..Len(s) : s[i] = t[i]
  BY PrefixElements
<1>3. Len(t) <= Len(v) /\ \A i \in 1..Len(t) : t[i] = v[i]
  BY PrefixElements
<1>4. Len(s) <= Len(v) /\ \A i \in 1..Len(s) : s[i] = v[i]
  BY <1>1, <1>2, <1>3
<1>5. QED  BY <1>4, PrefixElements

LEMMA PrefixReflexive ==
  ASSUME NEW X, NEW s \in Seq(X)
  PROVE  IsPrefix(s, s)
BY LenProperties, PrefixElements

LEMMA PrefixAntisymmetric ==
  ASSUME NEW X, NEW s \in Seq(X), NEW t \in Seq(X), IsPrefix(s, t), Len(t) <= Len(s)
  PROVE  s = t
<1>1. Len(s) \in Nat /\ Len(t) \in Nat
  BY LenProperties
<1>2. Len(s) <= Len(t) /\ \A i \in 1..Len(s) : s[i] = t[i]
  BY PrefixElements
<1>3. Len(s) = Len(t)
  BY <1>1, <1>2
<1>4. QED  BY <1>2, <1>3, SeqEqual

(* A sequence of all of a finite set goes through it once.                 *)
LEMMA SequenceOfAll ==
  ASSUME NEW X, IsFiniteSet(X), NEW s \in SetToSeqs(X)
  PROVE  /\ s \in Seq(X) /\ DOMAIN s = 1..Len(s)
         /\ \A i, j \in DOMAIN s : s[i] = s[j] => i = j
         /\ \A x \in X : \E i \in DOMAIN s : s[i] = x
<1>1. Cardinality(X) \in Nat
  BY FS_CardinalityType
<1>2. s \in [1..Cardinality(X) -> X] /\ \A i, j \in 1..Cardinality(X) : i # j => s[i] # s[j]
  BY DEF SetToSeqs
<1>3. s \in Seq(X) /\ Len(s) = Cardinality(X)
  BY <1>1, <1>2
<1>4. s \in Injection(1..Cardinality(X), X)
  BY <1>2 DEF Injection, IsInjective
<1>5. IsFiniteSet(1..Cardinality(X)) /\ Cardinality(1..Cardinality(X)) = Cardinality(X)
  BY <1>1, FS_Interval
<1>6. s \in Surjection(1..Cardinality(X), X)
  BY <1>4, <1>5, FS_Injection
<1>7. \A x \in X : \E i \in DOMAIN s : s[i] = x
  BY <1>2, <1>6 DEF Surjection
<1>8. QED  BY <1>2, <1>3, <1>7

(* Evidence of some is evidence of more, either way round.                 *)
LEMMA HeldMonotone ==
  ASSUME NEW S, NEW T, S \subseteq T, NEW kds
  PROVE  Held(S, kds) \subseteq Held(T, kds) /\ Were(S) \subseteq Were(T) /\ Called(S) \subseteq Called(T)
<1>1. Were(S) \subseteq Were(T)
  BY DEF Were
<1>2. Called(S) \subseteq Called(T)
  BY <1>1 DEF Called
<1>3. Held(S, kds) \subseteq Held(T, kds)
  BY DEF Held
<1>4. QED  BY <1>1, <1>2, <1>3

LEMMA GoesOnMonotone ==
  ASSUME NEW S, NEW T, S \subseteq T, NEW t, GoesOn(S, t)
  PROVE  GoesOn(T, t)
BY HeldMonotone DEF GoesOn

LEMMA ConfirmedMonotone ==
  ASSUME NEW S, NEW S2, NEW T, NEW T2, S \subseteq S2, T \subseteq T2, Confirmed(S, T)
  PROVE  Confirmed(S2, T2)
<1>1. Held(S, AllKinds) \subseteq Held(S2, AllKinds) /\ Held(T, AllKinds) \subseteq Held(T2, AllKinds)
  BY HeldMonotone
<1>2. QED  BY <1>1 DEF Confirmed, AllKinds

LEMMA EvidenceMonotone ==
  ASSUME NEW S, NEW S2, NEW T, NEW T2, S \subseteq S2, T \subseteq T2, Evidence(S, T)
  PROVE  Evidence(S2, T2)
<1>1. Were(S) \subseteq Were(S2) /\ Were(T) \subseteq Were(T2)
  BY HeldMonotone
<1>2. Called(S) \subseteq Called(S2) /\ Called(T) \subseteq Called(T2)
  BY HeldMonotone
<1>3. \A kds : Held(S, kds) \subseteq Held(S2, kds) /\ Held(T, kds) \subseteq Held(T2, kds)
  BY HeldMonotone
<1>4. CASE Were(S) \intersect Were(T) # {}
  BY <1>1, <1>4 DEF Evidence
<1>5. CASE Held(S, {"phone"}) \intersect Held(T, {"phone"}) # {}
  <2>1. Held(S2, {"phone"}) \intersect Held(T2, {"phone"}) # {}
    BY <1>3, <1>5
  <2>2. QED  BY <2>1 DEF Evidence
<1>6. CASE (Held(S, {"email"}) \union Called(S)) \intersect (Held(T, {"email"}) \union Called(T)) # {}
  <2>1. /\ Held(S, {"email"}) \subseteq Held(S2, {"email"}) /\ Held(T, {"email"}) \subseteq Held(T2, {"email"})
    BY <1>3
  <2>2. (Held(S2, {"email"}) \union Called(S2)) \intersect (Held(T2, {"email"}) \union Called(T2)) # {}
    BY <1>2, <2>1, <1>6
  <2>3. QED  BY <2>2 DEF Evidence
<1>7. CASE Confirmed(S, T) /\ ((\E t \in Were(S) : GoesOn(T, t)) \/ (\E t \in Were(T) : GoesOn(S, t)))
  <2>1. Confirmed(S2, T2)
    BY <1>7, ConfirmedMonotone
  <2>2. \A t : (GoesOn(T, t) => GoesOn(T2, t)) /\ (GoesOn(S, t) => GoesOn(S2, t))
    BY GoesOnMonotone
  <2>3. (\E t \in Were(S2) : GoesOn(T2, t)) \/ (\E t \in Were(T2) : GoesOn(S2, t))
    BY <1>1, <1>7, <2>2
  <2>4. QED  BY <2>1, <2>3 DEF Evidence
<1>8. QED  BY <1>4, <1>5, <1>6, <1>7 DEF Evidence

LEMMA AlikeMonotone ==
  ASSUME NEW S, NEW S2, NEW T, NEW T2, S \subseteq S2, T \subseteq T2, Alike(S, T)
  PROVE  Alike(S2, T2)
<1>1. CASE Evidence(S, T)
  BY <1>1, EvidenceMonotone DEF Alike
<1>2. CASE Confirmed(S, T) /\ \E t \in Were({p \in Members : atStart.title[p] # None}) : GoesOn(S, t) /\ GoesOn(T, t)
  <2>1. Confirmed(S2, T2)
    BY <1>2, ConfirmedMonotone
  <2>2. \A t : (GoesOn(T, t) => GoesOn(T2, t)) /\ (GoesOn(S, t) => GoesOn(S2, t))
    BY GoesOnMonotone
  <2>3. QED  BY <1>2, <2>1, <2>2 DEF Alike
<1>3. QED  BY <1>1, <1>2 DEF Alike

LEMMA EvidenceSymmetric ==
  ASSUME NEW S, NEW T, Evidence(S, T)
  PROVE  Evidence(T, S)
BY DEF Evidence, Confirmed

LEMMA AlikeSymmetric ==
  ASSUME NEW S, NEW T, Alike(S, T)
  PROVE  Alike(T, S)
<1>1. CASE Evidence(S, T)
  BY <1>1, EvidenceSymmetric DEF Alike
<1>2. CASE ~Evidence(S, T)
  BY <1>2 DEF Alike, Confirmed
<1>3. QED  BY <1>1, <1>2

(* The groups of a pass: those with a key in common are in one, and whoever*)
(* is in one has a key in common with the others.                          *)
LEMMA GroupsByKey ==
  ASSUME NEW F, IsFiniteSet(F), IsFiniteSet(Members), NEW forms, forms \in [Present -> SUBSET F],
         NEW gs \in Grouped(forms)
  PROVE  /\ gs \in Seq(SUBSET Members)
         /\ \A i \in DOMAIN gs : gs[i] \subseteq Present /\ \A p, q \in gs[i] : forms[p] \intersect forms[q] # {}
         /\ \A p, q \in Present : p # q /\ forms[p] \intersect forms[q] # {} => \E i \in DOMAIN gs : {p, q} \subseteq gs[i]
<1> DEFINE keys == {k \in UNION {forms[p] : p \in Present} : Cardinality(Having(forms, k)) > 1}
<1>1. keys \subseteq F /\ IsFiniteSet(keys)
  <2>1. keys \subseteq F
    OBVIOUS
  <2>2. QED  BY <2>1, FS_Subset
<1>2. PICK ks \in SetToSeqs(keys) : gs = [i \in DOMAIN ks |-> Having(forms, ks[i])]
  BY DEF Grouped
<1> HIDE DEF keys
<1>3. /\ ks \in Seq(keys) /\ DOMAIN ks = 1..Len(ks)
      /\ \A k \in keys : \E i \in DOMAIN ks : ks[i] = k
  BY <1>1, SequenceOfAll
<1>4. \A k : Having(forms, k) \subseteq Present /\ Having(forms, k) \in SUBSET Members
  BY DEF Having, Present
<1>5. gs \in Seq(SUBSET Members)
  <2>1. Len(ks) \in Nat
    BY <1>3, LenProperties
  <2>2. gs = [i \in 1..Len(ks) |-> Having(forms, ks[i])]
    BY <1>2, <1>3
  <2>3. gs \in [1..Len(ks) -> SUBSET Members]
    BY <1>4, <2>2
  <2>4. QED  BY <2>1, <2>3
<1>6. ASSUME NEW i \in DOMAIN gs
      PROVE  gs[i] \subseteq Present /\ \A p, q \in gs[i] : forms[p] \intersect forms[q] # {}
  <2>1. gs[i] = Having(forms, ks[i])
    BY <1>2
  <2>2. QED  BY <1>4, <2>1 DEF Having
<1>7. ASSUME NEW p \in Present, NEW q \in Present, p # q, forms[p] \intersect forms[q] # {}
      PROVE  \E i \in DOMAIN gs : {p, q} \subseteq gs[i]
  <2>1. PICK k \in forms[p] : k \in forms[q]
    BY <1>7
  <2>2. {p, q} \subseteq Having(forms, k)
    BY <2>1 DEF Having
  <2>3. Cardinality(Having(forms, k)) > 1
    <3>1. IsFiniteSet(Having(forms, k)) /\ Cardinality(Having(forms, k)) \in Nat
      BY <1>4, FS_Subset, FS_CardinalityType
    <3>2. Having(forms, k) # {} /\ ~ \E x : Having(forms, k) = {x}
      BY <2>2, <1>7
    <3>3. Cardinality(Having(forms, k)) # 0 /\ Cardinality(Having(forms, k)) # 1
      BY <3>1, <3>2, FS_EmptySet, FS_Singleton
    <3>4. QED  BY <3>1, <3>3
  <2>4. k \in keys
    BY <2>1, <2>3 DEF keys
  <2>5. PICK i \in DOMAIN ks : ks[i] = k
    BY <1>3, <2>4
  <2>6. i \in DOMAIN gs /\ gs[i] = Having(forms, k)
    BY <1>2, <2>5
  <2>7. QED  BY <2>2, <2>6
<1>8. QED  BY <1>5, <1>6, <1>7

(* What the tables said does not change while a run lasts.                 *)
LEMMA SaidAtStart ==
  ASSUME atStart' = atStart
  PROVE  /\ Alikes' = Alikes /\ Evident' = Evident /\ NamesOf' = NamesOf /\ KeysOf' = KeysOf
         /\ Began' = Began /\ StartNames' = StartNames
<1>1. Began' = Began /\ StartNames' = StartNames
  BY DEF Began, StartNames
<1>2. NamesOf' = NamesOf
  BY DEF NamesOf, Were
<1>3. KeysOf' = KeysOf
  BY DEF KeysOf, Held
<1>4. Evident' = Evident
  BY DEF Evident, Evidence, Were, Held, Called, Confirmed, GoesOn
<1>5. Alikes' = Alikes
  BY DEF Alikes, Alike, Evidence, Were, Held, Called, Confirmed, GoesOn
<1>6. QED  BY <1>1, <1>2, <1>3, <1>4, <1>5

LEMMA SaidOfMore ==
  ASSUME NEW S, NEW T, NEW S2 \in SUBSET Members, NEW T2 \in SUBSET Members, S \subseteq S2, T \subseteq T2
  PROVE  /\ <<S, T>> \in Alikes => <<S2, T2>> \in Alikes /\ <<T2, S2>> \in Alikes
         /\ <<S, T>> \in Evident => <<S2, T2>> \in Evident /\ <<S2, T2>> \in Alikes /\ <<T2, S2>> \in Evident
         /\ NamesOf[S] \subseteq NamesOf[S2] /\ KeysOf[S] \subseteq KeysOf[S2]
<1>1. S \in SUBSET Members /\ T \in SUBSET Members
  OBVIOUS
<1>2. NamesOf[S] \subseteq NamesOf[S2] /\ KeysOf[S] \subseteq KeysOf[S2]
  BY <1>1, HeldMonotone DEF NamesOf, KeysOf
<1>3. ASSUME <<S, T>> \in Alikes  PROVE <<S2, T2>> \in Alikes /\ <<T2, S2>> \in Alikes
  <2>1. Alike(S, T)
    BY <1>3 DEF Alikes
  <2>2. Alike(S2, T2)
    BY <2>1, AlikeMonotone
  <2>3. Alike(T2, S2)
    BY <2>2, AlikeSymmetric
  <2>4. QED  BY <2>2, <2>3 DEF Alikes
<1>4. ASSUME <<S, T>> \in Evident
      PROVE  <<S2, T2>> \in Evident /\ <<S2, T2>> \in Alikes /\ <<T2, S2>> \in Evident
  <2>1. Evidence(S, T)
    BY <1>4 DEF Evident
  <2>2. Evidence(S2, T2)
    BY <2>1, EvidenceMonotone
  <2>3. Evidence(T2, S2)
    BY <2>2, EvidenceSymmetric
  <2>4. Alike(S2, T2)
    BY <2>2 DEF Alike
  <2>5. QED  BY <2>2, <2>3, <2>4 DEF Alikes, Evident
<1>5. QED  BY <1>2, <1>3, <1>4

LEMMA SaidEitherWay ==
  ASSUME NEW S, NEW T, <<S, T>> \in Alikes
  PROVE  <<T, S>> \in Alikes
<1>1. S \in SUBSET Members /\ T \in SUBSET Members /\ Alike(S, T)
  BY DEF Alikes
<1>2. Alike(T, S)
  BY <1>1, AlikeSymmetric
<1>3. QED  BY <1>1, <1>2 DEF Alikes

LEMMA NamesOfMore ==
  ASSUME NEW S, NEW S2 \in SUBSET Members, S \subseteq S2
  PROVE  NamesOf[S] \subseteq NamesOf[S2]
BY HeldMonotone DEF NamesOf

(* Sets that cannot be divided, and are alike, make one that cannot be.    *)
Whole(M) == \A S \in (SUBSET M) \ {{}, M} : <<S, M \ S>> \in Alikes
LEMMA JoinedWhole ==
  ASSUME NEW ps, NEW f, NEW M \in SUBSET Members, M = UNION {f[q] : q \in ps},
         \A q \in ps : Whole(f[q]),
         \A q, r \in ps : q # r => <<f[q], f[r]>> \in Alikes
  PROVE  Whole(M)
<1>1. SUFFICES ASSUME NEW S \in SUBSET M, S # {}, S # M  PROVE <<S, M \ S>> \in Alikes
  BY DEF Whole
<1>2. S \in SUBSET Members /\ M \ S \in SUBSET Members
  OBVIOUS
<1>3. CASE \E q \in ps : S \intersect f[q] # {} /\ S \intersect f[q] # f[q]
  <2>1. PICK q \in ps : S \intersect f[q] # {} /\ S \intersect f[q] # f[q]
    BY <1>3
  <2> DEFINE A == S \intersect f[q]
             B == f[q] \ A
  <2>2. <<A, B>> \in Alikes
    BY <2>1 DEF Whole
  <2>3. A \subseteq S /\ B \subseteq M \ S
    OBVIOUS
  <2> HIDE DEF A, B
  <2>4. QED  BY <1>2, <2>2, <2>3, SaidOfMore
<1>4. CASE \A q \in ps : S \intersect f[q] = {} \/ S \intersect f[q] = f[q]
  <2>1. PICK x \in S, y \in M \ S : TRUE
    BY <1>1
  <2>2. PICK q \in ps : x \in f[q]
    BY <2>1
  <2>3. PICK r \in ps : y \in f[r]
    BY <2>1
  <2>4. f[q] \subseteq S /\ f[r] \subseteq M \ S /\ q # r
    BY <1>4, <2>1, <2>2, <2>3
  <2>5. <<f[q], f[r]>> \in Alikes
    BY <2>4
  <2>6. QED  BY <1>2, <2>4, <2>5, SaidOfMore
<1>5. QED  BY <1>3, <1>4

-----------------------------------------------------------------------------
(* Duplicates: one merge.                                                  *)

LEMMA ClassFacts ==
  ASSUME Stays
  PROVE  /\ \A p \in Members : Class[p] \in SUBSET Members /\ Class[p] = {q \in Members : went[q] = p /\ q \in Began}
         /\ \A p \in Present : p \in Class[p]
<1>1. \A p \in Members : Class[p] = {q \in Members : went[q] = p /\ q \in Began}
  BY DEF Class, Became, Began
<1>2. QED  BY <1>1 DEF Stays, Present

(* What a merge of ds into s does to the tables and to who became whom.    *)
Joined(s, ds) == [p \in Members |-> IF p = s THEN UNION {Class[q] : q \in ds \union {s}} ELSE Class[p]]
LEMMA MergeStep ==
  ASSUME DedupAssumption, DedupTables, Stays, Owned,
         NEW s \in Present, NEW ds \in SUBSET Present, s \notin ds, NEW name \in Titles,
         MergeInto(s, ds, name), atStart' = atStart
  PROVE  /\ TablesFit(Tables)' /\ went' \in [Members -> Members] /\ Present' = Present \ ds
         /\ title' = [p \in Members |-> IF p \in ds THEN None ELSE IF p = s THEN name ELSE title[p]]
         /\ Stays' /\ Owned'
         /\ \A p \in Present' : Class'[p] = Joined(s, ds)[p]
         /\ \A p \in Present' : Class[p] \subseteq Class'[p]
         /\ \A p \in Members : Class'[p] \in SUBSET Members
         /\ \A p \in Present' : primary'[p] # None => \E q \in ds \union {p} : q \in Present /\ Class[q] \subseteq Class'[p] /\ primary[q] = primary'[p]
<1>1. s \in Members /\ ds \subseteq Members /\ title[s] # None /\ \A d \in ds : title[d] # None
  BY DEF Present
<1>2. title' = [p \in Members |-> IF p \in ds THEN None ELSE IF p = s THEN name ELSE title[p]]
  BY DEF MergeInto
<1>3. title' \in [Members -> Titles \union {None}]
  BY <1>1, <1>2 DEF DedupTables, TablesFit, Tables
<1>4. Present' = Present \ ds
  BY <1>1, <1>2 DEF DedupAssumption, Present
<1>5. holder' = [h \in AllHandles |-> IF holder[h] \in ds THEN s ELSE holder[h]]
  BY DEF MergeInto, MergedAliases, Into
<1>6. holder' \in [AllHandles -> Members \union {None}]
  BY <1>1, <1>5 DEF DedupTables, TablesFit, Tables
<1>7. went' = [p \in Members |-> IF went[p] \in ds THEN s ELSE went[p]]
  BY DEF MergeInto, Into
<1>8. went' \in [Members -> Members]
  BY <1>1, <1>7 DEF DedupTables
<1>9. PICK e \in IF Addresses(s, ds) = {} THEN {None} ELSE Addresses(s, ds) : primary' = MergedPrimary(s, ds, e)
  BY DEF MergeInto
<1>10. e = None \/ \E d \in ds : primary[d] = e
  BY <1>9 DEF Addresses
<1>11. primary' = [p \in Members |-> IF p \in ds THEN None ELSE IF p = s /\ primary[s] = None THEN e ELSE primary[p]]
  BY <1>9 DEF MergedPrimary
<1>12. primary' \in [Members -> EmailKeys \union {None}]
  BY <1>1, <1>10, <1>11 DEF DedupTables, TablesFit, Tables
<1>13. facts' = [p \in Members |-> IF p \in ds THEN {} ELSE IF p = s THEN UNION {facts[d] : d \in ds \union {s}} ELSE facts[p]]
  BY DEF MergeInto, ReassignedFacts
<1>14. TablesFit(Tables)'
  <2>1. \A h \in AllHandles : holder'[h] # None => title'[holder'[h]] # None
    <3>1. \A h \in AllHandles : holder[h] # None => holder[h] \in Members /\ title[holder[h]] # None
      BY DEF DedupTables, TablesFit, Tables
    <3>2. name # None
      BY DEF DedupAssumption
    <3>3. QED  BY <1>1, <1>2, <1>5, <3>1, <3>2
  <2>2. \A p \in Members : title'[p] = None => facts'[p] = {} /\ primary'[p] = None
    <3>1. \A p \in Members : title[p] = None => facts[p] = {} /\ primary[p] = None
      BY DEF DedupTables, TablesFit, Tables
    <3>2. name # None
      BY DEF DedupAssumption
    <3>3. QED  BY <1>1, <1>2, <1>11, <1>13, <3>1, <3>2
  <2>3. QED  BY <1>3, <1>6, <1>12, <2>1, <2>2 DEF TablesFit, Tables
<1>15. Began' = Began
  BY SaidAtStart
<1>16. Stays'
  BY <1>4, <1>7, <1>15 DEF Stays, Present
<1>17. Owned'
  <2>1. SUFFICES ASSUME NEW h \in AllHandles, holder'[h] # None
                 PROVE  atStart.holder[h] # None /\ went'[atStart.holder[h]] = holder'[h]
    BY DEF Owned
  <2>2. holder[h] # None
    BY <1>1, <1>5, <2>1 DEF DedupAssumption
  <2>3. atStart.holder[h] \in Members /\ went[atStart.holder[h]] = holder[h]
    BY <2>2 DEF Owned, DedupTables, TablesFit
  <2>4. QED  BY <1>5, <1>7, <2>2, <2>3 DEF DedupAssumption
<1>18. \A p \in Present' : Class'[p] = Joined(s, ds)[p]
  <2>1. \A p \in Present' : p \in Members /\ p \notin ds
    BY <1>4 DEF Present
  <2>2. \A p \in Members : Class[p] = {q \in Members : went[q] = p /\ q \in Began}
    BY ClassFacts
  <2>3. \A p \in Members : Class'[p] = {q \in Members : went'[q] = p /\ q \in Began}
    BY <1>15 DEF Class, Became, Began
  <2>4. ASSUME NEW p \in Present', p # s  PROVE Class'[p] = Class[p]
    <3>1. \A q \in Members : went'[q] = p <=> went[q] = p
      BY <1>7, <2>1, <2>4
    <3>2. QED  BY ZenonT(30), <2>1, <2>2, <2>3, <3>1
  <2>5. Class'[s] = UNION {Class[q] : q \in ds \union {s}}
    <3>1. Class'[s] = {q \in Members : went[q] \in ds \union {s} /\ q \in Began}
      BY <1>1, <1>7, <2>3
    <3>2. \A q \in ds \union {s} : Class[q] = {r \in Members : went[r] = q /\ r \in Began}
      BY <1>1, <2>2
    <3>3. QED  BY <3>1, <3>2
  <2>6. QED  BY <2>1, <2>4, <2>5 DEF Joined
<1>19. \A p \in Present' : Class[p] \subseteq Class'[p]
  BY ZenonT(30), <1>4, <1>18 DEF Joined, Present
<1>20. ASSUME NEW p \in Present', primary'[p] # None
       PROVE  \E q \in ds \union {p} : q \in Present /\ Class[q] \subseteq Class'[p] /\ primary[q] = primary'[p]
  <2>1. p \in Members /\ p \notin ds /\ p \in Present
    BY <1>4 DEF Present
  <2>2. CASE primary'[p] = primary[p]
    BY <1>19, <2>1, <2>2
  <2>3. CASE p = s /\ primary'[p] = e
    <3>1. PICK d \in ds : primary[d] = e
      BY <1>10, <1>20, <2>3
    <3>2. Class[d] \subseteq Class'[s]
      BY ZenonT(30), <1>18, <2>1, <2>3, <3>1 DEF Joined
    <3>3. QED  BY <2>3, <3>1, <3>2
  <2>4. QED  BY <1>11, <2>1, <2>2, <2>3
<1>21. \A p \in Members : Class'[p] \in SUBSET Members
  BY DEF Class, Became
<1>22. QED  BY <1>2, <1>4, <1>8, <1>14, <1>16, <1>17, <1>18, <1>19, <1>20, <1>21

LEMMA MergeKeepsUndivided ==
  ASSUME DedupAssumption, DedupTables, Stays, Owned, Undivided,
         NEW s \in Present, NEW ds \in SUBSET Present, s \notin ds, NEW name \in Titles,
         MergeInto(s, ds, name), atStart' = atStart,
         \A q, r \in ds \union {s} : q # r => <<Class[q], Class[r]>> \in Alikes
  PROVE  Undivided'
<1>1. Alikes' = Alikes
  BY SaidAtStart
<1>2. Present' = Present \ ds
  BY MergeStep
<1>3. \A p \in Present' : Class'[p] = Joined(s, ds)[p]
  BY MergeStep
<1>4. \A p \in Present : Class[p] \in SUBSET Members /\ Whole(Class[p])
  <2>1. Present \subseteq Members
    BY DEF Present
  <2>2. QED  BY <2>1, ClassFacts DEF Undivided, Whole
<1>5. Whole(UNION {Class[q] : q \in ds \union {s}})
  <2> DEFINE M == UNION {Class[q] : q \in ds \union {s}}
  <2>1. M \in SUBSET Members /\ ds \union {s} \subseteq Present
    BY <1>4
  <2>2. \A q \in ds \union {s} : Whole(Class[q])
    BY <1>4, <2>1
  <2>3. QED  BY <2>1, <2>2, JoinedWhole
<1>6. \A p \in Present' : Whole(Class'[p])
  BY <1>2, <1>3, <1>4, <1>5 DEF Joined, Present
<1>7. QED  BY <1>1, <1>6 DEF Undivided, Whole

(* While nobody has been merged, each person is the only one it became.    *)
LEMMA FreshClasses ==
  (DedupTables /\ went = Self /\ title = atStart.title /\ holder = atStart.holder /\ primary = atStart.primary)
    => Stays /\ Owned /\ Undivided /\ \A p \in Present : Class[p] = {p}
<1> SUFFICES ASSUME DedupTables, went = Self, title = atStart.title, holder = atStart.holder, primary = atStart.primary
             PROVE  Stays /\ Owned /\ Undivided /\ \A p \in Present : Class[p] = {p}
  OBVIOUS
<1>1. Stays
  BY DEF Stays, Self, Present, Began
<1>2. Owned
  <2>1. \A h \in AllHandles : holder[h] # None => holder[h] \in Members
    BY DEF DedupTables, TablesFit, Tables
  <2>2. QED  BY <2>1 DEF Owned, Self
<1>3. \A p \in Present : Class[p] = {p}
  <2>1. \A p \in Members : Class[p] = {q \in Members : q = p /\ q \in Began}
    BY <1>1, ClassFacts DEF Self
  <2>2. Present \subseteq Members /\ Present \subseteq Began
    BY DEF Present, Began
  <2>3. QED  BY <2>1, <2>2
<1>4. Undivided
  BY <1>3 DEF Undivided
<1>5. QED  BY <1>1, <1>2, <1>3, <1>4

LEMMA FreshClassesNext ==
  (DedupTables /\ went = Self /\ title = atStart.title /\ holder = atStart.holder /\ primary = atStart.primary)'
    => (Stays /\ Owned /\ Undivided /\ \A p \in Present : Class[p] = {p})'
BY FreshClasses, PTL

-----------------------------------------------------------------------------
(* Duplicates: what two persons have in common says that they are one.     *)

LEMMA HeldWere ==
  ASSUME DedupAssumption, DedupTables, Stays, Owned, NEW p \in Present, NEW kd, NEW kds, kd \in kds
  PROVE  HeldForms(p, kd) \subseteq Held(Class[p], kds)
<1>1. SUFFICES ASSUME NEW g \in AllHandles, holder[g] = p, KindOf[g] = kd
               PROVE  Norm[g] \in Held(Class[p], kds)
  BY DEF HeldForms, Form
<1>2. p \in Members /\ p # None
  BY DEF Present, DedupAssumption
<1>3. atStart.holder[g] \in Members /\ went[atStart.holder[g]] = p /\ atStart.holder[g] \in Began
  BY <1>1, <1>2 DEF Owned, DedupTables, TablesFit, Began
<1>4. atStart.holder[g] \in Class[p]
  BY <1>2, <1>3, ClassFacts
<1>5. QED  BY <1>1, <1>4 DEF Held

LEMMA PrimaryWas ==
  ASSUME DedupAssumption, DedupTables, Addressed, pass \in Early, NEW p \in Present, primary[p] # None,
         NEW kds, "email" \in kds
  PROVE  primary[p] \in AllHandles /\ Norm[primary[p]] \in Held(Class[p], kds)
<1>1. p \in Members
  BY DEF Present
<1>2. primary[p] \in AllHandles
  BY <1>1 DEF DedupTables, TablesFit, Tables, EmailKeys
<1>3. PICK q \in Class[p] : atStart.primary[q] = primary[p]
  BY DEF Addressed
<1>4. QED  BY <1>2, <1>3 DEF Held

LEMMA EmailsWere ==
  ASSUME DedupAssumption, DedupTables, Stays, Owned, Addressed, Titled, pass \in Early, NEW p \in Present
  PROVE  /\ EmailForms(p) \subseteq AllHandles
         /\ \A k \in EmailForms(p) : Norm[k] \in Held(Class[p], {"email"}) \union Called(Class[p])
<1>1. p \in Members
  BY DEF Present
<1>2. ASSUME NEW h \in RawEmails(p)
      PROVE  h \in AllHandles /\ Norm[h] \in Held(Class[p], {"email"}) \union Called(Class[p])
  <2>1. CASE h \in AllHandles /\ holder[h] = p /\ KindOf[h] = "email"
    <3>1. Norm[h] \in HeldForms(p, "email")
      BY <2>1 DEF HeldForms, Form
    <3>2. QED  BY <2>1, <3>1, HeldWere
  <2>2. CASE h = primary[p] /\ primary[p] # None
    BY <2>2, PrimaryWas
  <2>3. CASE h = Address /\ title[p] = <<"@">>
    <3>1. PICK q \in Class[p] : atStart.title[q] = title[p]
      BY DEF Titled
    <3>2. Norm[h] \in Called(Class[p])
      BY <2>3, <3>1 DEF Called, Were
    <3>3. QED  BY <2>3, <3>2 DEF DedupAssumption
  <2>4. QED  BY <2>1, <2>2, <2>3 DEF RawEmails, LooksLikeEmail
<1>3. \A h \in AllHandles : Norm[h] \in AllHandles /\ Norm[Norm[h]] = Norm[h]
  BY DEF DedupAssumption
<1>4. ASSUME NEW k \in EmailForms(p)
      PROVE  k \in AllHandles /\ Norm[k] \in Held(Class[p], {"email"}) \union Called(Class[p])
  <2>1. k \in RawEmails(p) \/ \E h \in RawEmails(p) : k = Norm[h]
    BY DEF EmailForms, Form
  <2>2. QED  BY <1>2, <1>3, <2>1
<1>5. QED  BY <1>4

(* A key of one of the first passes that two persons have is evidence.     *)
SharedKeysTell ==
  \A x \in Early : \A p, q \in Present :
    PassKeys[x][p] \intersect PassKeys[x][q] # {} => <<Class[p], Class[q]>> \in Evident
LEMMA SharedKeys ==
  DedupTables /\ Stays /\ Owned /\ Addressed /\ Titled /\ pass \in Early => SharedKeysTell
<1> USE DedupAssumption
<1> SUFFICES ASSUME DedupTables, Stays, Owned, Addressed, Titled, pass \in Early,
                    NEW x \in Early, NEW p \in Present, NEW q \in Present,
                    PassKeys[x][p] \intersect PassKeys[x][q] # {}
             PROVE  <<Class[p], Class[q]>> \in Evident
  BY DEF SharedKeysTell
<1>1. p \in Members /\ q \in Members
  BY DEF Present
<1>2. Class[p] \in SUBSET Members /\ Class[q] \in SUBSET Members
  BY <1>1, ClassFacts
<1>3. CASE x = "names"
  <2>1. title[p] = title[q]
    BY <1>1, <1>3 DEF PassKeys, Early
  <2>2. title[p] \in Were(Class[p]) /\ title[q] \in Were(Class[q])
    BY DEF Titled, Were
  <2>3. Evidence(Class[p], Class[q])
    BY <2>1, <2>2 DEF Evidence
  <2>4. QED  BY <1>2, <2>3 DEF Evident
<1>4. CASE x = "phones"
  <2>1. HeldForms(p, "phone") \intersect HeldForms(q, "phone") # {}
    BY <1>1, <1>4 DEF PassKeys, Early
  <2>2. HeldForms(p, "phone") \subseteq Held(Class[p], {"phone"}) /\ HeldForms(q, "phone") \subseteq Held(Class[q], {"phone"})
    BY HeldWere
  <2>3. Evidence(Class[p], Class[q])
    BY <2>1, <2>2 DEF Evidence
  <2>4. QED  BY <1>2, <2>3 DEF Evident
<1>5. CASE x = "emails"
  <2>1. EmailForms(p) \intersect EmailForms(q) # {}
    BY <1>1, <1>5 DEF PassKeys, Early
  <2>2. PICK k \in EmailForms(p) : k \in EmailForms(q)
    BY <2>1
  <2>3. /\ Norm[k] \in Held(Class[p], {"email"}) \union Called(Class[p])
        /\ Norm[k] \in Held(Class[q], {"email"}) \union Called(Class[q])
    BY <2>2, EmailsWere
  <2>4. Evidence(Class[p], Class[q])
    BY <2>3 DEF Evidence
  <2>5. QED  BY <1>2, <2>4 DEF Evident
<1>6. QED  BY <1>3, <1>4, <1>5 DEF Early
LEMMA SharedKeysNext ==
  (DedupTables /\ Stays /\ Owned /\ Addressed /\ Titled /\ pass \in Early)' => SharedKeysTell'
BY SharedKeys, PTL

(* The groups of a pass are those of its keys.                             *)
LEMMA PassGroups ==
  ASSUME DedupAssumption, DedupTables, NEW x \in Early, NEW gs \in Groups(x)
  PROVE  /\ gs \in Seq(SUBSET Members)
         /\ \A i \in DOMAIN gs : gs[i] \subseteq Present /\ \A p, q \in gs[i] : PassKeys[x][p] \intersect PassKeys[x][q] # {}
         /\ \A p, q \in Present : p # q /\ PassKeys[x][p] \intersect PassKeys[x][q] # {} => \E i \in DOMAIN gs : {p, q} \subseteq gs[i]
<1> DEFINE forms == [p \in Present |-> PassKeys[x][p]]
           TitlesHere == {title[p] : p \in Members}
<1>1. Present \subseteq Members /\ IsFiniteSet(Members) /\ IsFiniteSet(AllHandles)
  BY DEF Present, DedupAssumption
<1>2. gs \in Grouped(forms)
  <2>1. CASE x = "names"
    <3>1. forms = [p \in Present |-> {title[p]}]
      BY <1>1, <2>1 DEF PassKeys, Early
    <3>2. QED  BY <2>1, <3>1 DEF Groups
  <2>2. CASE x = "phones"
    <3>1. forms = [p \in Present |-> HeldForms(p, "phone")]
      BY <1>1, <2>2 DEF PassKeys, Early
    <3>2. QED  BY <2>2, <3>1 DEF Groups
  <2>3. CASE x = "emails"
    <3>1. forms = [p \in Present |-> EmailForms(p)]
      BY <1>1, <2>3 DEF PassKeys, Early
    <3>2. QED  BY <2>3, <3>1 DEF Groups
  <2>4. QED  BY <2>1, <2>2, <2>3 DEF Early
<1>3. PICK F : IsFiniteSet(F) /\ forms \in [Present -> SUBSET F]
  <2>1. CASE x = "names"
    <3>1. title \in Surjection(Members, TitlesHere)
      BY DEF DedupTables, TablesFit, Tables, Surjection
    <3>2. IsFiniteSet(TitlesHere)
      BY <1>1, <3>1, FS_Surjection
    <3>3. \A p \in Present : forms[p] = {title[p]}
      BY <1>1, <2>1 DEF PassKeys, Early
    <3>4. \A p \in Present : forms[p] \subseteq TitlesHere
      BY <1>1, <3>3
    <3>5. QED  BY <3>2, <3>4
  <2>2. \A h \in AllHandles : Norm[h] \in AllHandles
    BY DEF DedupAssumption
  <2>3. CASE x = "phones"
    <3>1. \A p \in Present : forms[p] = HeldForms(p, "phone")
      BY <1>1, <2>3 DEF PassKeys, Early
    <3>2. \A p \in Present : forms[p] \subseteq AllHandles
      BY <2>2, <3>1 DEF HeldForms, Form
    <3>3. QED  BY <1>1, <3>2
  <2>4. CASE x = "emails"
    <3>1. \A p \in Present : forms[p] = EmailForms(p)
      BY <1>1, <2>4 DEF PassKeys, Early
    <3>2. \A p \in Members : primary[p] \in AllHandles \union {None}
      BY DEF DedupTables, TablesFit, Tables, EmailKeys
    <3>3. \A p \in Members : RawEmails(p) \subseteq AllHandles
      BY <3>2 DEF RawEmails, DedupAssumption
    <3>4. \A p \in Present : forms[p] \subseteq AllHandles
      BY <1>1, <2>2, <3>1, <3>3 DEF EmailForms, Form
    <3>5. QED  BY <1>1, <3>4
  <2>5. QED  BY <2>1, <2>3, <2>4 DEF Early
<1>4. \A p \in Present : forms[p] = PassKeys[x][p]
  OBVIOUS
<1> HIDE DEF forms
<1>5. /\ gs \in Seq(SUBSET Members)
      /\ \A i \in DOMAIN gs : gs[i] \subseteq Present /\ \A p, q \in gs[i] : forms[p] \intersect forms[q] # {}
      /\ \A p, q \in Present : p # q /\ forms[p] \intersect forms[q] # {} => \E i \in DOMAIN gs : {p, q} \subseteq gs[i]
  BY <1>1, <1>2, <1>3, GroupsByKey
<1>6. ASSUME NEW i \in DOMAIN gs
      PROVE  gs[i] \subseteq Present /\ \A p, q \in gs[i] : PassKeys[x][p] \intersect PassKeys[x][q] # {}
  <2>1. gs[i] \subseteq Present
    BY <1>5
  <2>2. \A p, q \in gs[i] : forms[p] \intersect forms[q] # {}
    BY <1>5
  <2>3. QED  BY <1>4, <2>1, <2>2
<1>7. ASSUME NEW p \in Present, NEW q \in Present, p # q, PassKeys[x][p] \intersect PassKeys[x][q] # {}
      PROVE  \E i \in DOMAIN gs : {p, q} \subseteq gs[i]
  BY <1>4, <1>5, <1>7
<1>8. QED  BY <1>5, <1>6, <1>7

LEMMA KeysUnchanged ==
  ASSUME UNCHANGED <<title, holder, primary>>
  PROVE  Present' = Present /\ PassKeys' = PassKeys /\ IdKeys' = IdKeys /\ Follow' = Follow
<1>1. Present' = Present
  BY DEF Present
<1>2. PassKeys' = PassKeys
  BY DEF PassKeys, HeldForms, EmailForms, RawEmails, Form, LooksLikeEmail
<1>3. IdKeys' = IdKeys
  BY DEF IdKeys, IdentityKeys, HeldForms, Form
<1>4. QED  BY <1>1, <1>2, <1>3 DEF Follow

(* The groups of the last pass: those whose name has two words, by length. *)
LEMMA LongerGroups ==
  ASSUME DedupAssumption, NEW ps \in Groups("longer")
  PROVE  /\ ps \in Seq(Members) /\ \A i, j \in DOMAIN ps : ps[i] = ps[j] => i = j
         /\ \A i \in DOMAIN ps : ps[i] \in Present /\ ~LooksLikeEmail(title[ps[i]]) /\ Len(title[ps[i]]) > 1
         /\ \A p \in Present : ~LooksLikeEmail(title[p]) /\ Len(title[p]) > 1 => \E i \in DOMAIN ps : ps[i] = p
         /\ \A i, j \in DOMAIN ps : i < j => Len(title[ps[i]]) <= Len(title[ps[j]])
<1> DEFINE L == {p \in Present : ~LooksLikeEmail(title[p]) /\ Len(title[p]) > 1}
<1>1. L \subseteq Members /\ IsFiniteSet(Members)
  BY DEF Present, DedupAssumption
<1>2. IsFiniteSet(L)
  BY <1>1, FS_Subset
<1>3. ps \in SetToSeqs(L) /\ \A i, j \in DOMAIN ps : i < j => Len(title[ps[i]]) <= Len(title[ps[j]])
  BY DEF Groups
<1>4. \A x \in L : x \in Present /\ ~LooksLikeEmail(title[x]) /\ Len(title[x]) > 1
  OBVIOUS
<1>5. \A x \in Present : ~LooksLikeEmail(title[x]) /\ Len(title[x]) > 1 => x \in L
  OBVIOUS
<1> HIDE DEF L
<1>6. /\ ps \in Seq(L) /\ DOMAIN ps = 1..Len(ps)
      /\ \A i, j \in DOMAIN ps : ps[i] = ps[j] => i = j
      /\ \A x \in L : \E i \in DOMAIN ps : ps[i] = x
  BY <1>2, <1>3, SequenceOfAll
<1>7. \A i \in DOMAIN ps : ps[i] \in L
  BY <1>6, ElementOfSeq
<1>8. ps \in Seq(Members)
  BY <1>1, <1>6
<1>9. QED  BY <1>3, <1>4, <1>5, <1>6, <1>7, <1>8

-----------------------------------------------------------------------------
(* Duplicates: the steps keep what divides the persons.                    *)

LEMMA EvidenceInit ==
  DedupInit => EvidenceInv /\ ConvergeInv
<1> SUFFICES ASSUME DedupInit  PROVE EvidenceInv /\ ConvergeInv
  OBVIOUS
<1> USE DedupAssumption
<1>1. title \in [Members -> Titles] /\ \A p \in Members : title[p] # None
  BY DEF DedupInit
<1>2. TablesFit(Tables)
  BY <1>1 DEF DedupInit, TablesFit, Tables, EmailKeys
<1>3. atStart = Tables /\ pass = "idle" /\ went = Self /\ todo = <<>> /\ cursor = NoCursor
  BY DEF DedupInit
<1>4. title = atStart.title /\ holder = atStart.holder /\ primary = atStart.primary
  BY <1>3 DEF Tables
<1>5. DedupTables
  BY <1>2, <1>3 DEF DedupTables, Self
<1>6. Stays /\ Owned /\ Undivided
  BY <1>3, <1>4, <1>5, FreshClasses
<1>7. Addressed /\ Titled /\ GroupsFit /\ LongerFits
  BY <1>3 DEF Addressed, Titled, GroupsFit, LongerFits, Early
<1>8. CursorFits
  BY <1>3 DEF CursorFits, NoCursor
<1>9. ConvergeInv
  BY <1>3, <1>4 DEF ConvergeInv, Untouched, Apart, Finished, Pending, ToCompare, Early
<1>10. QED  BY <1>5, <1>6, <1>7, <1>8, <1>9 DEF EvidenceInv

(* After the tables are those of the beginning again.                      *)
LEMMA StartAgain ==
  ASSUME EvidenceInv, went' = Self, title' = atStart'.title, holder' = atStart'.holder, primary' = atStart'.primary,
         TablesFit(Tables)', TablesFit(atStart)',
         pass' \in {"idle", "failed", "longer", "done"} \union Early
  PROVE  DedupTables' /\ Stays' /\ Owned' /\ Addressed' /\ Titled' /\ Undivided'
<1>1. DedupTables'
  BY DEF DedupTables, Self
<1>2. Stays' /\ Owned' /\ Undivided' /\ \A p \in Present' : Class'[p] = {p}
  BY <1>1, FreshClassesNext DEF Self
<1>3. Addressed' /\ Titled'
  BY <1>2 DEF Addressed, Titled
<1>4. QED  BY <1>1, <1>2, <1>3

LEMMA DedupForUserKeeps ==
  ASSUME EvidenceInv, DedupForUser
  PROVE  EvidenceInv'
<1> USE DedupAssumption
<1>1. /\ pass \in {"idle", "done"} /\ pass' = "names" /\ todo' \in Groups("names") /\ went' = Self /\ atStart' = Tables
      /\ UNCHANGED <<title, holder, primary, facts, linked>> /\ cursor' = cursor
  BY DEF DedupForUser, dedupTables
<1>2. DedupTables /\ CursorFits
  BY DEF EvidenceInv
<1>3. TablesFit(Tables)' /\ TablesFit(atStart)'
  BY <1>1, <1>2 DEF DedupTables, TablesFit, Tables
<1>4. title' = atStart'.title /\ holder' = atStart'.holder /\ primary' = atStart'.primary
  BY <1>1 DEF Tables
<1>5. DedupTables' /\ Stays' /\ Owned' /\ Addressed' /\ Titled' /\ Undivided'
  BY <1>1, <1>3, <1>4, StartAgain DEF Early
<1>6. Present' = Present /\ PassKeys' = PassKeys
  BY <1>1, KeysUnchanged
<1>7. "names" \in Early
  BY DEF Early
<1>8. SharedKeysTell'
  BY <1>1, <1>5, <1>7, SharedKeysNext
<1>9. /\ todo' \in Seq(SUBSET Members)
      /\ \A i \in DOMAIN todo' : todo'[i] \subseteq Present /\ \A p, q \in todo'[i] : PassKeys["names"][p] \intersect PassKeys["names"][q] # {}
  BY <1>1, <1>2, <1>7, PassGroups
<1>10. \A i \in DOMAIN todo' : \A p, q \in todo'[i] \intersect Present' : <<Class'[p], Class'[q]>> \in Evident'
  <2>1. \A p, q \in Present' : PassKeys'["names"][p] \intersect PassKeys'["names"][q] # {} => <<Class'[p], Class'[q]>> \in Evident'
    BY <1>8 DEF SharedKeysTell, Early
  <2>2. \A p, q \in Present : PassKeys["names"][p] \intersect PassKeys["names"][q] # {} => <<Class'[p], Class'[q]>> \in Evident'
    BY <1>6, <2>1
  <2>3. ASSUME NEW i \in DOMAIN todo', NEW p \in todo'[i] \intersect Present', NEW q \in todo'[i] \intersect Present'
        PROVE  <<Class'[p], Class'[q]>> \in Evident'
    <3>1. p \in Present /\ q \in Present
      BY <1>6
    <3>2. PassKeys["names"][p] \intersect PassKeys["names"][q] # {}
      BY <1>9
    <3>3. QED  BY <2>2, <3>1, <3>2
  <2>4. QED  BY <2>3
<1>11. GroupsFit'
  BY <1>9, <1>10 DEF GroupsFit
<1>12. CursorFits' /\ LongerFits'
  BY <1>1, <1>2 DEF CursorFits, LongerFits, NoCursor, EmailKeys
<1>13. QED  BY <1>5, <1>11, <1>12 DEF EvidenceInv

LEMMA AbandonKeeps ==
  ASSUME EvidenceInv, Abandon
  PROVE  EvidenceInv'
<1>1. /\ title' = atStart.title /\ holder' = atStart.holder /\ primary' = atStart.primary /\ facts' = atStart.facts
      /\ atStart' = atStart /\ pass' = "failed" /\ went' = Self /\ cursor' = NoCursor
  BY DEF Abandon
<1>2. TablesFit(atStart)
  BY DEF EvidenceInv, DedupTables
<1>3. TablesFit(Tables)' /\ TablesFit(atStart)'
  BY <1>1, <1>2 DEF TablesFit, Tables, EmailKeys
<1>4. DedupTables' /\ Stays' /\ Owned' /\ Addressed' /\ Titled' /\ Undivided'
  BY <1>1, <1>3, StartAgain
<1>5. GroupsFit' /\ LongerFits' /\ CursorFits'
  BY <1>1 DEF GroupsFit, LongerFits, CursorFits, NoCursor, Early
<1>6. QED  BY <1>4, <1>5 DEF EvidenceInv

(* The keys of the last pass, and the names it reads, are of who became    *)
(* each person.                                                            *)
LEMMA KeysWere ==
  ASSUME DedupAssumption, DedupTables, Stays, Owned, Addressed, Titled, pass \in Early, NEW p \in Present
  PROVE  /\ IdentityKeys(p) \subseteq KeysOf[Class[p]] /\ title[p] \in StartNames
         /\ title[p] \in Seq(STRING) /\ title[p] \in NamesOf[Class[p]]
<1>1. p \in Members /\ Class[p] \in SUBSET Members
  BY ClassFacts DEF Present
<1>2. KeysOf[Class[p]] = Held(Class[p], AllKinds) /\ NamesOf[Class[p]] = Were(Class[p])
  BY <1>1 DEF KeysOf, NamesOf
<1>3. \A kd \in AllKinds : HeldForms(p, kd) \subseteq Held(Class[p], AllKinds)
  BY HeldWere
<1>4. primary[p] # None => Norm[primary[p]] \in Held(Class[p], AllKinds)
  BY PrimaryWas DEF AllKinds
<1>5. IdentityKeys(p) \subseteq KeysOf[Class[p]]
  BY <1>2, <1>3, <1>4 DEF IdentityKeys, AllKinds, Form
<1>6. PICK q \in Class[p] : atStart.title[q] = title[p]
  BY DEF Titled
<1>7. q \in Began
  BY <1>1, <1>6, ClassFacts
<1>8. title[p] \in StartNames /\ title[p] \in Were(Class[p])
  BY <1>6, <1>7 DEF StartNames, Were
<1>9. title[p] \in Titles
  BY <1>1 DEF Present, DedupTables, TablesFit, Tables
<1>10. QED  BY <1>2, <1>5, <1>8, <1>9 DEF DedupAssumption

LEMMA NextOfPass ==
  ASSUME pass \in {Passes[i] : i \in 1..4}, NEW next, next = Passes[(CHOOSE i \in 1..4 : Passes[i] = pass) + 1]
  PROVE  \/ pass = "names" /\ next = "phones"
         \/ pass = "phones" /\ next = "emails"
         \/ pass = "emails" /\ next = "longer"
         \/ pass = "longer" /\ next = "done"
<1>1. Passes[1] = "names" /\ Passes[2] = "phones" /\ Passes[3] = "emails" /\ Passes[4] = "longer" /\ Passes[5] = "done"
  BY DEF Passes
<1>2. PICK i \in 1..4 : Passes[i] = pass
  OBVIOUS
<1>3. \A j \in 1..4 : Passes[j] = pass => j = i
  BY <1>1, <1>2
<1>4. (CHOOSE j \in 1..4 : Passes[j] = pass) = i
  BY <1>2, <1>3
<1>5. QED  BY <1>1, <1>2, <1>4

LEMMA NextPassKeeps ==
  ASSUME EvidenceInv, NextPass
  PROVE  EvidenceInv'
<1> USE DedupAssumption
<1> DEFINE next == Passes[(CHOOSE i \in 1..4 : Passes[i] = pass) + 1]
<1>1. /\ pass \in {Passes[i] : i \in 1..4} /\ pass' = next /\ todo' \in Groups(next)
      /\ ids' = IF next = "longer" THEN [p \in Members |-> IF p \in Present THEN IdentityKeys(p) ELSE {}] ELSE NoKeys
      /\ UNCHANGED <<title, holder, primary, facts, linked, went, atStart>> /\ cursor' = NoCursor
  BY DEF NextPass, dedupTables
<1>2. /\ DedupTables /\ Stays /\ Owned /\ Addressed /\ Titled /\ Undivided
  BY DEF EvidenceInv
<1>3. \/ pass = "names" /\ next = "phones"
      \/ pass = "phones" /\ next = "emails"
      \/ pass = "emails" /\ next = "longer"
      \/ pass = "longer" /\ next = "done"
  BY <1>1, NextOfPass
<1> HIDE DEF next
<1>4. Present' = Present /\ PassKeys' = PassKeys /\ Tables' = Tables
  BY <1>1, KeysUnchanged DEF Tables
<1>5. /\ Class' = Class /\ Evident' = Evident /\ Alikes' = Alikes /\ NamesOf' = NamesOf /\ KeysOf' = KeysOf
      /\ Began' = Began /\ StartNames' = StartNames
  BY <1>1, SaidAtStart DEF Class, Became
<1>6. DedupTables' /\ Stays' /\ Owned' /\ Undivided'
  <2>1. DedupTables'
    <3>1. TablesFit(Tables)' /\ TablesFit(atStart)'
      BY <1>1, <1>2 DEF DedupTables, TablesFit, Tables, EmailKeys
    <3>2. QED  BY <1>1, <1>2, <1>3, <3>1 DEF DedupTables, Early
  <2>2. Stays' /\ Owned' /\ Undivided'
    BY <1>1, <1>2, <1>4, <1>5 DEF Stays, Owned, Undivided
  <2>3. QED  BY <2>1, <2>2
<1>7. Addressed' /\ Titled'
  BY <1>1, <1>2, <1>3, <1>4, <1>5 DEF Addressed, Titled, Early
<1>8. CursorFits'
  BY <1>1 DEF CursorFits, NoCursor
<1>9. GroupsFit'
  <2>1. CASE next \in Early
    <3>1. pass \in Early
      BY <1>3, <2>1 DEF Early
    <3>2. \A p, q \in Present : PassKeys[next][p] \intersect PassKeys[next][q] # {} => <<Class[p], Class[q]>> \in Evident
      BY <1>2, <2>1, <3>1, SharedKeys DEF SharedKeysTell
    <3>3. /\ todo' \in Seq(SUBSET Members)
          /\ \A i \in DOMAIN todo' : todo'[i] \subseteq Present /\ \A p, q \in todo'[i] : PassKeys[next][p] \intersect PassKeys[next][q] # {}
      BY <1>1, <1>2, <2>1, PassGroups
    <3>4. \A i \in DOMAIN todo' : \A p, q \in todo'[i] \intersect Present : <<Class[p], Class[q]>> \in Evident
      BY <3>2, <3>3
    <3>5. QED  BY <1>4, <1>5, <3>3, <3>4 DEF GroupsFit
  <2>2. CASE next \notin Early
    BY <1>1, <2>2 DEF GroupsFit
  <2>3. QED  BY <2>1, <2>2
<1>10. LongerFits'
  <2>1. CASE next = "longer"
    <3>1. pass \in Early /\ todo' \in Groups("longer")
      BY <1>1, <1>3, <2>1 DEF Early
    <3>2. /\ todo' \in Seq(Members) /\ \A i, j \in DOMAIN todo' : todo'[i] = todo'[j] => i = j
          /\ \A i \in DOMAIN todo' : Len(title[todo'[i]]) > 1
      BY <3>1, LongerGroups
    <3>3. ASSUME NEW p \in Present
          PROVE  /\ ids'[p] \subseteq KeysOf[Class[p]] /\ title[p] \in StartNames
                 /\ \E v \in NamesOf[Class[p]] : IsPrefix(title[p], v)
      <4>1. ids'[p] = IdentityKeys(p)
        BY <1>1, <2>1 DEF Present
      <4>2. /\ IdentityKeys(p) \subseteq KeysOf[Class[p]] /\ title[p] \in StartNames
            /\ title[p] \in Seq(STRING) /\ title[p] \in NamesOf[Class[p]]
        BY <1>2, <3>1, KeysWere
      <4>3. IsPrefix(title[p], title[p])
        BY <4>2, PrefixReflexive
      <4>4. QED  BY <4>1, <4>2, <4>3
    <3>4. title' = title
      BY <1>1
    <3>5. QED  BY <1>4, <1>5, <3>2, <3>3, <3>4 DEF LongerFits
  <2>2. CASE next # "longer"
    BY <1>1, <2>2 DEF LongerFits
  <2>3. QED  BY <2>1, <2>2
<1>11. QED  BY <1>6, <1>7, <1>8, <1>9, <1>10 DEF EvidenceInv

LEMMA MergeGroupKeeps ==
  ASSUME EvidenceInv, MergeGroup
  PROVE  EvidenceInv'
<1> USE DedupAssumption
<1> DEFINE ps == Head(todo) \intersect Present
<1>1. CASE ps = {}
  BY <1>1, AbandonKeeps DEF MergeGroup
<1>2. CASE ps # {}
  <2>1. PICK s \in Survivors(title, ps) : MergeInto(s, ps \ {s}, title[s])
    BY <1>2 DEF MergeGroup
  <2>2. /\ pass \in Early /\ todo # <<>> /\ todo' = Tail(todo)
        /\ pass' = pass /\ atStart' = atStart /\ ids' = ids /\ cursor' = cursor
    BY <1>2 DEF MergeGroup, Early
  <2>3. DedupTables /\ Stays /\ Owned /\ Addressed /\ Titled /\ Undivided /\ GroupsFit /\ CursorFits
    BY DEF EvidenceInv
  <2> DEFINE ds == ps \ {s}
  <2>4. s \in Present /\ ds \in SUBSET Present /\ s \notin ds /\ ds \union {s} = ps /\ s \in ps
    BY <2>1 DEF Survivors
  <2>5. title[s] \in Titles
    BY <2>3, <2>4 DEF DedupTables, TablesFit, Tables, Present
  <2>6. todo \in Seq(SUBSET Members) /\ 1 \in DOMAIN todo /\ Head(todo) = todo[1]
    BY <2>2, <2>3 DEF GroupsFit
  <2>7. \A q, r \in ps : q # r => <<Class[q], Class[r]>> \in Evident
    BY <2>2, <2>3, <2>6 DEF GroupsFit
  <2>8. \A q, r \in ps : q # r => <<Class[q], Class[r]>> \in Alikes
    <3>1. \A q \in Members : Class[q] \in SUBSET Members
      BY <2>3, ClassFacts
    <3>2. ps \subseteq Members
      BY DEF Present
    <3>3. QED  BY ZenonT(30), <2>7, <3>1, <3>2, SaidOfMore
  <2> HIDE DEF ps
  <2>9. MergeInto(s, ds, title[s])
    BY <2>1
  <2> HIDE DEF ds
  <2>10. /\ TablesFit(Tables)' /\ went' \in [Members -> Members] /\ Present' = Present \ ds
         /\ title' = [p \in Members |-> IF p \in ds THEN None ELSE IF p = s THEN title[s] ELSE title[p]]
         /\ Stays' /\ Owned'
    BY <2>2, <2>3, <2>4, <2>5, <2>9, MergeStep
  <2>11. /\ \A p \in Present' : Class[p] \subseteq Class'[p]
         /\ \A p \in Members : Class'[p] \in SUBSET Members
    BY <2>2, <2>3, <2>4, <2>5, <2>9, MergeStep
  <2>12. \A p \in Present' : primary'[p] # None => \E q \in ds \union {p} : q \in Present /\ Class[q] \subseteq Class'[p] /\ primary[q] = primary'[p]
    BY SMTT(30), <2>2, <2>3, <2>4, <2>5, <2>9, MergeStep
  <2>13. Undivided'
    BY <2>2, <2>3, <2>4, <2>5, <2>8, <2>9, MergeKeepsUndivided
  <2>14. Evident' = Evident
    BY <2>2, SaidAtStart
  <2>15. DedupTables'
    BY <2>2, <2>3, <2>10 DEF DedupTables, TablesFit
  <2>16. Addressed'
    BY <2>2, <2>3, <2>12 DEF Addressed
  <2>17. Titled'
    <3>1. \A p \in Present' : title'[p] = title[p] /\ p \in Present
      BY <2>10 DEF Present
    <3>2. QED  BY <2>2, <2>3, <2>11, <3>1 DEF Titled
  <2>18. GroupsFit'
    <3>1. todo' \in Seq(SUBSET Members) /\ \A i \in DOMAIN todo' : i + 1 \in DOMAIN todo /\ todo'[i] = todo[i + 1]
      BY <2>2, <2>6
    <3>2. ASSUME NEW i \in DOMAIN todo', NEW p \in todo'[i] \intersect Present', NEW q \in todo'[i] \intersect Present', p # q
          PROVE  <<Class'[p], Class'[q]>> \in Evident'
      <4>1. p \in Present /\ q \in Present /\ p \in Members /\ q \in Members
        BY <2>10 DEF Present
      <4>2. <<Class[p], Class[q]>> \in Evident
        BY <2>2, <2>3, <3>1, <3>2, <4>1 DEF GroupsFit
      <4>3. QED  BY ZenonT(30), <2>11, <2>14, <4>1, <4>2, SaidOfMore
    <3>3. QED  BY <3>1, <3>2 DEF GroupsFit
  <2>19. CursorFits' /\ LongerFits'
    BY <2>2, <2>3 DEF CursorFits, LongerFits, Early, NoCursor, EmailKeys
  <2>20. QED  BY <2>10, <2>13, <2>15, <2>16, <2>17, <2>18, <2>19 DEF EvidenceInv
<1>3. QED  BY <1>1, <1>2

LEMMA NextShorterKeeps ==
  ASSUME EvidenceInv, NextShorter
  PROVE  EvidenceInv'
<1> USE DedupAssumption
<1>1. /\ pass = "longer" /\ todo # <<>> /\ todo' = Tail(todo)
      /\ UNCHANGED <<title, holder, primary, facts, linked, pass, went, atStart, ids>>
      /\ cursor' = IF Head(todo) \in Present
                   THEN [short |-> Head(todo), name |-> title[Head(todo)], email |-> primary[Head(todo)], rest |-> Tail(todo)]
                   ELSE NoCursor
  BY DEF NextShorter, dedupTables
<1>2. DedupTables /\ Stays /\ Owned /\ Undivided /\ LongerFits
  BY DEF EvidenceInv
<1>3. Present' = Present /\ Tables' = Tables
  BY <1>1 DEF Present, Tables
<1>4. /\ Class' = Class /\ Alikes' = Alikes /\ NamesOf' = NamesOf /\ KeysOf' = KeysOf
      /\ Began' = Began /\ StartNames' = StartNames
  BY <1>1, SaidAtStart DEF Class, Became
<1>5. DedupTables'
  <2>1. TablesFit(Tables)' /\ TablesFit(atStart)'
    BY <1>1, <1>2 DEF DedupTables, TablesFit, Tables, EmailKeys
  <2>2. QED  BY <1>1, <1>2, <2>1 DEF DedupTables
<1>6. Stays' /\ Owned' /\ Undivided'
  BY <1>1, <1>2, <1>3, <1>4 DEF Stays, Owned, Undivided
<1>7. Addressed' /\ Titled' /\ GroupsFit'
  BY <1>1 DEF Addressed, Titled, GroupsFit, Early
<1>8. /\ todo \in Seq(Members) /\ todo' \in Seq(Members) /\ 1 \in DOMAIN todo /\ Head(todo) = todo[1]
      /\ \A i \in DOMAIN todo' : i + 1 \in DOMAIN todo /\ i + 1 # 1 /\ todo'[i] = todo[i + 1]
      /\ DOMAIN todo' \subseteq Nat
  BY <1>1, <1>2 DEF LongerFits
<1>9. LongerFits'
  <2>1. \A i, j \in DOMAIN todo' : todo'[i] = todo'[j] => i = j
    <3>1. \A i, j \in DOMAIN todo : todo[i] = todo[j] => i = j
      BY <1>1, <1>2 DEF LongerFits
    <3>2. \A i, j \in DOMAIN todo' : todo'[i] = todo'[j] => i + 1 = j + 1
      BY <1>8, <3>1
    <3>3. QED  BY <1>8, <3>2
  <2>2. \A i \in DOMAIN todo' : todo'[i] \in Present' => Len(title'[todo'[i]]) > 1
    BY <1>1, <1>2, <1>3, <1>8 DEF LongerFits
  <2>3. \A p \in Present' : /\ ids'[p] \subseteq KeysOf'[Class'[p]] /\ title'[p] \in StartNames'
                            /\ \E v \in NamesOf'[Class'[p]] : IsPrefix(title'[p], v)
    BY <1>1, <1>2, <1>3, <1>4 DEF LongerFits
  <2>4. QED  BY <1>8, <2>1, <2>2, <2>3 DEF LongerFits
<1>10. CursorFits'
  <2>1. CASE Head(todo) \in Present
    <3>1. cursor'.short = todo[1] /\ cursor'.name = title[todo[1]] /\ cursor'.email = primary[todo[1]] /\ cursor'.rest = todo'
      BY <1>1, <1>8, <2>1
    <3>2. todo[1] \in Present /\ todo[1] \in Members
      BY <1>8, <2>1 DEF Present
    <3>3. cursor'.email \in EmailKeys
            \/ cursor'.email = None
      BY <1>2, <3>1, <3>2 DEF DedupTables, TablesFit, Tables
    <3>4. \A j \in DOMAIN cursor'.rest : cursor'.rest[j] # cursor'.short
      BY SMTT(30), <1>1, <1>2, <1>8, <3>1 DEF LongerFits
    <3>5. cursor'.name \in StartNames' /\ Len(cursor'.name) > 1
      BY <1>1, <1>2, <1>4, <1>8, <3>1, <3>2 DEF LongerFits
    <3>6. \E v \in NamesOf'[Class'[cursor'.short]] : IsPrefix(cursor'.name, v)
      BY <1>1, <1>2, <1>4, <3>1, <3>2 DEF LongerFits
    <3>7. EmailKeys' = EmailKeys
      BY DEF EmailKeys
    <3>8. title[todo[1]] \in Seq(STRING)
      <4>1. title[todo[1]] \in Titles
        BY <1>2, <3>2 DEF DedupTables, TablesFit, Tables, Present
      <4>2. QED  BY <4>1
    <3>9. cursor' \in [short : Members \union {None}, name : Seq(STRING), email : EmailKeys \union {None}, rest : Seq(Members)]
      BY <1>1, <1>8, <2>1, <3>1, <3>2, <3>3, <3>8
    <3>10. QED  BY <1>1, <3>1, <3>2, <3>4, <3>5, <3>6, <3>7, <3>9 DEF CursorFits
  <2>2. CASE Head(todo) \notin Present
    BY <1>1, <2>2 DEF CursorFits, NoCursor
  <2>3. QED  BY <2>1, <2>2
<1>11. QED  BY <1>5, <1>6, <1>7, <1>9, <1>10 DEF EvidenceInv

(* What the longer name and a key tell of two persons.                     *)
LEMMA ContinuesTells ==
  ASSUME DedupAssumption, EvidenceInv, cursor.rest # <<>>, NEW long \in Present, Continues(long)
  PROVE  /\ cursor.name \in Titles /\ cursor.name \in Seq(STRING)
         /\ \E v \in NamesOf[Class[long]] : IsPrefix(cursor.name, v)
         /\ cursor.short \in Present => <<Class[cursor.short], Class[long]>> \in Alikes
<1> DEFINE short == cursor.short
           name == cursor.name
<1>1. /\ DedupTables /\ Stays /\ LongerFits /\ CursorFits
  BY DEF EvidenceInv
<1>2. pass = "longer" /\ name \in StartNames /\ Len(name) > 1
  BY <1>1 DEF CursorFits
<1>3. IsPrefix(name, title[long]) /\ ids[short] \intersect ids[long] # {}
  BY DEF Continues
<1>4. StartNames \subseteq Titles /\ \A t \in Titles : t \in Seq(STRING)
  BY <1>1 DEF StartNames, Began, DedupTables, TablesFit, DedupAssumption
<1>5. \A p \in Present : p \in Members /\ Class[p] \in SUBSET Members /\ NamesOf[Class[p]] = Were(Class[p]) /\ Class[p] \subseteq Began
  BY <1>1, ClassFacts DEF Present, NamesOf
<1>6. \A p \in Present : Were(Class[p]) \subseteq StartNames
  BY <1>5 DEF Were, StartNames
<1>7. PICK w \in NamesOf[Class[long]] : IsPrefix(title[long], w)
  BY <1>1, <1>2 DEF LongerFits
<1>8. title[long] \in StartNames
  BY <1>1, <1>2 DEF LongerFits
<1>9. w \in Seq(STRING) /\ title[long] \in Seq(STRING) /\ name \in Seq(STRING)
  BY <1>2, <1>4, <1>5, <1>6, <1>7, <1>8
<1>10. IsPrefix(name, w)
  BY <1>3, <1>7, <1>9, PrefixTransitive
<1>11. ASSUME short \in Present
       PROVE  <<Class[short], Class[long]>> \in Alikes
  <2>1. PICK v \in NamesOf[Class[short]] : IsPrefix(name, v)
    BY <1>1, <1>2, <1>11 DEF CursorFits
  <2>2. v \in Seq(STRING)
    BY <1>4, <1>5, <1>6, <1>11, <2>1
  <2>3. Len(v) > 1 /\ Len(w) > 1
    <3>1. Len(name) \in Nat /\ Len(v) \in Nat /\ Len(w) \in Nat
      BY <1>9, <2>2, LenProperties
    <3>2. Len(name) <= Len(v) /\ Len(name) <= Len(w)
      BY <1>9, <1>10, <2>1, <2>2, PrefixElements
    <3>3. QED  BY <1>2, <3>1, <3>2
  <2>4. GoesOn(Class[short], name) /\ GoesOn(Class[long], name)
    BY <1>2, <1>5, <1>7, <1>10, <1>11, <2>1, <2>3 DEF GoesOn
  <2>5. Confirmed(Class[short], Class[long])
    <3>1. ids[short] \subseteq KeysOf[Class[short]] /\ ids[long] \subseteq KeysOf[Class[long]]
      BY <1>1, <1>2, <1>11 DEF LongerFits
    <3>2. KeysOf[Class[short]] = Held(Class[short], AllKinds) /\ KeysOf[Class[long]] = Held(Class[long], AllKinds)
      BY <1>5, <1>11 DEF KeysOf
    <3>3. Held(Class[short], AllKinds) \intersect Held(Class[long], AllKinds) # {}
      BY <1>3, <3>1, <3>2
    <3>4. QED  BY <3>3 DEF Confirmed, AllKinds
  <2>6. name \in Were(Began)
    BY <1>2 DEF StartNames, Were
  <2>7. Alike(Class[short], Class[long])
    BY <2>4, <2>5, <2>6 DEF Alike, Began
  <2>8. QED  BY <1>5, <1>11, <2>7 DEF Alikes
<1>12. QED  BY <1>2, <1>4, <1>9, <1>7, <1>10, <1>11

(* A comparison that changes names and addresses as the next lemma says    *)
(* keeps what the last pass relies on.                                     *)
LEMMA ComparedKeeps ==
  ASSUME DedupAssumption, EvidenceInv, cursor.rest # <<>>, NEW email \in EmailKeys \union {None}, Compared(email),
         Present' \subseteq Present,
         \A p \in Present' : Class[p] \subseteq Class'[p] /\ Class'[p] \in SUBSET Members,
         \A p \in Present' : \/ title'[p] = title[p]
                             \/ title'[p] = cursor.name /\ \E v \in NamesOf[Class'[p]] : IsPrefix(cursor.name, v)
  PROVE  Addressed' /\ Titled' /\ GroupsFit' /\ LongerFits' /\ CursorFits'
<1>1. /\ pass' = pass /\ todo' = todo /\ atStart' = atStart /\ ids' = ids
      /\ cursor' = [cursor EXCEPT !.rest = Tail(@), !.email = email]
  BY DEF Compared
<1>2. DedupTables /\ Stays /\ LongerFits /\ CursorFits
  BY DEF EvidenceInv
<1>3. /\ pass = "longer" /\ cursor.short \in Members /\ cursor.rest \in Seq(Members)
      /\ \A j \in DOMAIN cursor.rest : cursor.rest[j] # cursor.short
      /\ cursor.name \in StartNames /\ Len(cursor.name) > 1
      /\ cursor.short \in Present => \E v \in NamesOf[Class[cursor.short]] : IsPrefix(cursor.name, v)
  BY <1>2 DEF CursorFits
<1>4. NamesOf' = NamesOf /\ KeysOf' = KeysOf /\ StartNames' = StartNames
  BY <1>1, SaidAtStart
<1>5. \A p \in Present' : NamesOf[Class[p]] \subseteq NamesOf[Class'[p]] /\ KeysOf[Class[p]] \subseteq KeysOf[Class'[p]]
  <2>1. ASSUME NEW p \in Present'
        PROVE  NamesOf[Class[p]] \subseteq NamesOf[Class'[p]] /\ KeysOf[Class[p]] \subseteq KeysOf[Class'[p]]
    <3>1. Class[p] \subseteq Class'[p] /\ Class'[p] \in SUBSET Members
      OBVIOUS
    <3>2. QED  BY <3>1, SaidOfMore
  <2>2. QED  BY <2>1
<1>6. Addressed' /\ Titled' /\ GroupsFit'
  BY <1>1, <1>3 DEF Addressed, Titled, GroupsFit, Early
<1>7. LongerFits'
  <2>1. /\ todo \in Seq(Members) /\ \A i, j \in DOMAIN todo : todo[i] = todo[j] => i = j
        /\ \A i \in DOMAIN todo : todo[i] \in Present => Len(title[todo[i]]) > 1
    BY <1>2, <1>3 DEF LongerFits
  <2>2. \A i \in DOMAIN todo : todo[i] \in Present' => Len(title'[todo[i]]) > 1
    BY <1>3, <2>1
  <2>3. ASSUME NEW p \in Present'
        PROVE  /\ ids[p] \subseteq KeysOf[Class'[p]] /\ title'[p] \in StartNames
               /\ \E v \in NamesOf[Class'[p]] : IsPrefix(title'[p], v)
    <3>1. /\ ids[p] \subseteq KeysOf[Class[p]] /\ title[p] \in StartNames
          /\ \E v \in NamesOf[Class[p]] : IsPrefix(title[p], v)
      BY <1>2, <1>3 DEF LongerFits
    <3>2. CASE title'[p] = title[p]
      BY <1>5, <3>1, <3>2
    <3>3. CASE title'[p] = cursor.name /\ \E v \in NamesOf[Class'[p]] : IsPrefix(cursor.name, v)
      BY <1>3, <1>5, <3>1, <3>3
    <3>4. QED  BY <3>2, <3>3
  <2>4. QED  BY <1>1, <1>4, <2>1, <2>2, <2>3 DEF LongerFits
<1>8. CursorFits'
  <2>fields. /\ cursor'.short = cursor.short /\ cursor'.name = cursor.name /\ cursor'.email = email
             /\ cursor'.rest = Tail(cursor.rest)
    <3>1. cursor \in [short : Members \union {None}, name : Seq(STRING), email : EmailKeys \union {None}, rest : Seq(Members)]
      BY <1>2 DEF CursorFits
    <3>2. QED  BY <1>1, <3>1
  <2>rest. Tail(cursor.rest) \in Seq(Members) /\ \A j \in DOMAIN Tail(cursor.rest) : j + 1 \in DOMAIN cursor.rest /\ Tail(cursor.rest)[j] = cursor.rest[j + 1]
    BY <1>3
  <2>emails. EmailKeys' = EmailKeys
    BY DEF EmailKeys
  <2>prefix. cursor.short \in Present' => \E v \in NamesOf[Class'[cursor.short]] : IsPrefix(cursor.name, v)
    BY <1>3, <1>5
  <2>typed. cursor' \in [short : Members \union {None}, name : Seq(STRING), email : EmailKeys \union {None}, rest : Seq(Members)]
    BY <1>1, <1>2, <2>rest DEF CursorFits
  <2> QED BY <1>1, <1>3, <1>4, <2>fields, <2>rest, <2>emails, <2>prefix, <2>typed DEF CursorFits
<1>9. QED  BY <1>6, <1>7, <1>8

LEMMA ComparePairKeeps ==
  ASSUME EvidenceInv, ComparePair
  PROVE  EvidenceInv'
<1> USE DedupAssumption
<1> DEFINE short == cursor.short
           long == Head(cursor.rest)
           named == [title EXCEPT ![short] = cursor.name]
<1>1. DedupTables /\ Stays /\ Owned /\ Undivided /\ CursorFits /\ LongerFits
  BY DEF EvidenceInv
<1>2. cursor.rest # <<>>
  BY DEF ComparePair
<1>3. /\ pass = "longer" /\ short \in Members /\ long \in Members /\ long # short
      /\ cursor.email \in EmailKeys \union {None}
  <2>1. cursor.rest \in Seq(Members) /\ cursor.email \in EmailKeys \union {None}
    BY <1>1 DEF CursorFits
  <2>2. long = cursor.rest[1] /\ 1 \in DOMAIN cursor.rest /\ long \in Members
    BY <1>2, <2>1
  <2>3. QED  BY <1>1, <1>2, <2>1, <2>2 DEF CursorFits
<1>4. \A p \in Members : Class[p] \in SUBSET Members
  BY <1>1, ClassFacts
<1>5. ASSUME Compared(cursor.email), UNCHANGED <<title, primary, holder, facts, linked, went>>
      PROVE  EvidenceInv'
  <2>1. atStart' = atStart /\ pass' = pass
    BY <1>5 DEF Compared
  <2>2. Present' = Present /\ Tables' = Tables
    BY <1>5 DEF Present, Tables
  <2>3. Class' = Class /\ Alikes' = Alikes /\ Began' = Began
    BY <1>5, <2>1, SaidAtStart DEF Class, Became
  <2>4. DedupTables'
    <3>1. TablesFit(Tables)' /\ TablesFit(atStart)'
      BY <1>1, <1>5, <2>1 DEF DedupTables, TablesFit, Tables, EmailKeys
    <3>2. QED  BY <1>1, <1>5, <2>1, <3>1 DEF DedupTables
  <2>5. Stays' /\ Owned' /\ Undivided'
    BY <1>1, <1>5, <2>1, <2>2, <2>3 DEF Stays, Owned, Undivided
  <2>6. \A p \in Present : p \in Members
    BY DEF Present
  <2>7. Addressed' /\ Titled' /\ GroupsFit' /\ LongerFits' /\ CursorFits'
    BY <1>2, <1>3, <1>4, <1>5, <2>2, <2>3, <2>6, ComparedKeeps
  <2>8. QED  BY <2>4, <2>5, <2>7 DEF EvidenceInv
<1>6. ASSUME long \in Present, Continues(long), short \in Present, NEW s \in Survivors(named, {short, long}),
             MergeInto(s, {short, long} \ {s}, cursor.name), Compared(IF s = short THEN primary'[short] ELSE cursor.email)
      PROVE  EvidenceInv'
  <2> DEFINE ds == {short, long} \ {s}
             email == IF s = short THEN primary'[short] ELSE cursor.email
  <2>1. atStart' = atStart /\ pass' = pass
    BY <1>6 DEF Compared
  <2>2. s \in {short, long}
    BY DEF Survivors
  <2>3. s \in Present /\ ds \in SUBSET Present /\ s \notin ds /\ ds \union {s} = {short, long}
    BY <1>6, <2>2
  <2>4. /\ cursor.name \in Titles /\ cursor.name \in Seq(STRING) /\ \E v \in NamesOf[Class[long]] : IsPrefix(cursor.name, v)
        /\ <<Class[short], Class[long]>> \in Alikes
    BY <1>2, <1>6, ContinuesTells
  <2>5. \A q, r \in ds \union {s} : q # r => <<Class[q], Class[r]>> \in Alikes
    <3>1. <<Class[long], Class[short]>> \in Alikes
      BY <2>4, SaidEitherWay
    <3>2. QED  BY <2>3, <2>4, <3>1
  <2>6. MergeInto(s, ds, cursor.name) /\ Compared(email)
    BY <1>6
  <2> HIDE DEF ds, email, named
  <2>7. /\ TablesFit(Tables)' /\ went' \in [Members -> Members] /\ Present' = Present \ ds
        /\ title' = [p \in Members |-> IF p \in ds THEN None ELSE IF p = s THEN cursor.name ELSE title[p]]
        /\ Stays' /\ Owned'
    BY <1>1, <2>1, <2>3, <2>4, <2>6, MergeStep
  <2>8. /\ \A p \in Present' : Class'[p] = Joined(s, ds)[p]
        /\ \A p \in Present' : Class[p] \subseteq Class'[p]
        /\ \A p \in Members : Class'[p] \in SUBSET Members
    BY <1>1, <2>1, <2>3, <2>4, <2>6, MergeStep
  <2>9. Undivided'
    BY <1>1, <2>1, <2>3, <2>4, <2>5, <2>6, MergeKeepsUndivided
  <2>10. DedupTables'
    <3>1. TablesFit(atStart)'
      BY <1>1, <2>1 DEF DedupTables, TablesFit, EmailKeys
    <3>2. QED  BY <1>1, <2>1, <2>7, <3>1 DEF DedupTables
  <2>11. email \in EmailKeys \union {None}
    <3>1. primary' \in [Members -> EmailKeys \union {None}]
      BY <2>7 DEF TablesFit, Tables, EmailKeys
    <3>2. QED  BY <1>3, <3>1 DEF email
  <2>12. \A p \in Present' : \/ title'[p] = title[p]
                             \/ title'[p] = cursor.name /\ \E v \in NamesOf[Class'[p]] : IsPrefix(cursor.name, v)
    <3>1. s \in Members /\ s \in Present'
      BY <2>3, <2>7 DEF Present
    <3>2. Class'[s] = UNION {Class[q] : q \in {short, long}}
      BY <2>3, <2>8, <3>1 DEF Joined
    <3>3. Class[long] \subseteq Class'[s] /\ Class'[s] \in SUBSET Members
      BY <2>8, <3>1, <3>2
    <3>4. NamesOf[Class[long]] \subseteq NamesOf[Class'[s]]
      BY <3>3, NamesOfMore
    <3>5. \E v \in NamesOf[Class'[s]] : IsPrefix(cursor.name, v)
      BY <2>4, <3>4
    <3>6. \A p \in Present' : p \in Members /\ p \notin ds
      BY <2>7 DEF Present
    <3>7. QED  BY <2>7, <3>5, <3>6
  <2>13. \A p \in Present' : Class[p] \subseteq Class'[p] /\ Class'[p] \in SUBSET Members
    <3>1. Present' \subseteq Members
      BY <2>7 DEF Present
    <3>2. QED  BY <2>8, <3>1
  <2>14. Present' \subseteq Present
    BY <2>7
  <2>15. Addressed' /\ Titled' /\ GroupsFit' /\ LongerFits' /\ CursorFits'
    BY <1>2, <2>6, <2>11, <2>12, <2>13, <2>14, ComparedKeeps
  <2>16. QED  BY <2>7, <2>9, <2>10, <2>15 DEF EvidenceInv
<1>7. ASSUME long \in Present, Continues(long), title' = [title EXCEPT ![long] = cursor.name],
             primary' = [primary EXCEPT ![long] = IF @ = None THEN cursor.email ELSE @],
             Compared(cursor.email), UNCHANGED <<holder, facts, linked, went>>
      PROVE  EvidenceInv'
  <2>1. atStart' = atStart /\ pass' = pass
    BY <1>7 DEF Compared
  <2>2. /\ cursor.name \in Titles /\ \E v \in NamesOf[Class[long]] : IsPrefix(cursor.name, v)
    BY <1>2, <1>7, ContinuesTells
  <2>3. title \in [Members -> Titles \union {None}] /\ primary \in [Members -> EmailKeys \union {None}]
    BY <1>1 DEF DedupTables, TablesFit, Tables
  <2>4. /\ title' = [p \in Members |-> IF p = long THEN cursor.name ELSE title[p]]
        /\ primary' = [p \in Members |-> IF p = long /\ primary[p] = None THEN cursor.email ELSE primary[p]]
    BY <1>7, <2>3
  <2>5. title' \in [Members -> Titles \union {None}] /\ primary' \in [Members -> EmailKeys \union {None}]
    BY <1>3, <2>2, <2>3, <2>4
  <2>6. Present' = Present
    BY <1>3, <1>7, <2>2, <2>4 DEF Present
  <2>7. Class' = Class /\ Alikes' = Alikes /\ Began' = Began
    BY <1>7, <2>1, SaidAtStart DEF Class, Became
  <2>8. DedupTables'
    <3>1. \A h \in AllHandles : holder[h] # None => title'[holder[h]] # None
      <4>1. \A h \in AllHandles : holder[h] # None => holder[h] \in Members /\ title[holder[h]] # None
        BY <1>1 DEF DedupTables, TablesFit, Tables
      <4>2. QED  BY <2>2, <2>4, <4>1
    <3>2. \A p \in Members : title'[p] = None => facts[p] = {} /\ primary'[p] = None
      <4>1. \A p \in Members : title[p] = None => facts[p] = {} /\ primary[p] = None
        BY <1>1 DEF DedupTables, TablesFit, Tables
      <4>2. QED  BY <2>2, <2>4, <4>1
    <3>3. holder \in [AllHandles -> Members \union {None}]
      BY <1>1 DEF DedupTables, TablesFit, Tables
    <3>4. TablesFit(Tables)'
      BY <1>7, <2>5, <3>1, <3>2, <3>3 DEF TablesFit, Tables, EmailKeys
    <3>5. TablesFit(atStart)'
      BY <1>1, <2>1 DEF DedupTables, TablesFit, EmailKeys
    <3>6. QED  BY <1>1, <1>7, <2>1, <3>4, <3>5 DEF DedupTables
  <2>9. Stays' /\ Owned' /\ Undivided'
    BY <1>1, <1>7, <2>1, <2>6, <2>7 DEF Stays, Owned, Undivided
  <2>10. \A p \in Present : Class[p] \in SUBSET Members
    BY <1>4 DEF Present
  <2>11. \A p \in Present : \/ title'[p] = title[p]
                            \/ title'[p] = cursor.name /\ \E v \in NamesOf[Class[p]] : IsPrefix(cursor.name, v)
    BY <2>2, <2>4 DEF Present
  <2>12. Addressed' /\ Titled' /\ GroupsFit' /\ LongerFits' /\ CursorFits'
    BY <1>2, <1>3, <1>7, <2>6, <2>7, <2>10, <2>11, ComparedKeeps
  <2>13. QED  BY <2>8, <2>9, <2>12 DEF EvidenceInv
<1>8. CASE Abandon
  BY <1>8, AbandonKeeps
<1> HIDE DEF named
<1>9. \/ Compared(cursor.email) /\ UNCHANGED <<title, primary, holder, facts, linked, went>>
      \/ /\ long \in Present /\ Continues(long) /\ short \in Present
         /\ \E s \in Survivors(named, {short, long}) :
              /\ MergeInto(s, {short, long} \ {s}, cursor.name)
              /\ Compared(IF s = short THEN primary'[short] ELSE cursor.email)
      \/ Abandon
      \/ /\ long \in Present /\ Continues(long) /\ title' = [title EXCEPT ![long] = cursor.name]
         /\ primary' = [primary EXCEPT ![long] = IF @ = None THEN cursor.email ELSE @]
         /\ Compared(cursor.email) /\ UNCHANGED <<holder, facts, linked, went>>
  BY DEF ComparePair, dedupTables, named
<1>10. QED  BY <1>5, <1>6, <1>7, <1>8, <1>9

LEMMA EvidenceSteps ==
  EvidenceInv /\ [DedupNext]_dedupVars => EvidenceInv'
<1> SUFFICES ASSUME EvidenceInv, [DedupNext]_dedupVars  PROVE EvidenceInv'
  OBVIOUS
<1>1. CASE DedupForUser
  BY <1>1, DedupForUserKeeps
<1>2. CASE NextPass
  BY <1>2, NextPassKeeps
<1>3. CASE MergeGroup
  BY <1>3, MergeGroupKeeps
<1>4. CASE NextShorter
  BY <1>4, NextShorterKeeps
<1>5. CASE ComparePair
  BY <1>5, ComparePairKeeps
<1>6. CASE UNCHANGED dedupVars
  <2>1. UNCHANGED <<title, holder, primary, facts, linked, pass, todo, went, atStart, ids, cursor>>
    BY <1>6 DEF dedupVars
  <2>2. Class' = Class /\ Present' = Present /\ Tables' = Tables
    BY <2>1 DEF Class, Became, Present, Tables
  <2>3. /\ Alikes' = Alikes /\ Evident' = Evident /\ NamesOf' = NamesOf /\ KeysOf' = KeysOf
        /\ Began' = Began /\ StartNames' = StartNames
    BY <2>1, SaidAtStart
  <2>4. (DedupTables /\ Stays /\ Owned)'
    BY <2>1, <2>2, <2>3 DEF EvidenceInv, DedupTables, TablesFit, Tables, EmailKeys, Stays, Owned
  <2>5. (Addressed /\ Titled /\ Undivided)'
    BY <2>1, <2>2, <2>3 DEF EvidenceInv, Addressed, Titled, Undivided
  <2>6. (GroupsFit /\ LongerFits)'
    BY <2>1, <2>2, <2>3 DEF EvidenceInv, GroupsFit, LongerFits
  <2>7. CursorFits'
    BY <2>1, <2>2, <2>3 DEF EvidenceInv, CursorFits, EmailKeys
  <2>8. QED  BY <2>4, <2>5, <2>6, <2>7 DEF EvidenceInv
<1>7. QED  BY <1>1, <1>2, <1>3, <1>4, <1>5, <1>6 DEF DedupNext

(* The tables stay well formed: rows refer to persons that are there, and  *)
(* nothing is left with a person that has been merged.                     *)
THEOREM DedupTypeCorrect == DedupSpec => []DedupTypeOK
<1>1. DedupInit => EvidenceInv
  BY EvidenceInit
<1>2. EvidenceInv => DedupTypeOK
  <2>1. DOMAIN Passes = 1..5
    BY DEF Passes
  <2>2. {"longer", "done"} \union Early \subseteq {Passes[i] : i \in DOMAIN Passes}
    <3>1. Passes[1] = "names" /\ Passes[2] = "phones" /\ Passes[3] = "emails" /\ Passes[4] = "longer" /\ Passes[5] = "done"
      BY DEF Passes
    <3>2. QED  BY <2>1, <3>1 DEF Early
  <2>3. QED  BY <2>2 DEF EvidenceInv, DedupTables, TablesFit, Tables, DedupTypeOK
<1>3. QED  BY <1>1, <1>2, EvidenceSteps, PTL DEF DedupSpec

(* Whoever has been merged, in however many steps, cannot be divided in    *)
(* two that nothing in the tables as they were connects.                   *)
THEOREM MergesAreOnEvidence == DedupSpec => []MergesHaveEvidence
<1>1. DedupInit => EvidenceInv
  BY EvidenceInit
<1>2. EvidenceInv => MergesHaveEvidence
  <2> SUFFICES ASSUME EvidenceInv, NEW p \in Present, NEW S \in (SUBSET Became(p)) \ {{}, Became(p)}
               PROVE  Alike(S, Became(p) \ S)
    BY DEF MergesHaveEvidence
  <2>1. Class[p] = Became(p)
    BY DEF Class, Present
  <2>2. <<S, Became(p) \ S>> \in Alikes
    BY <2>1 DEF EvidenceInv, Undivided
  <2>3. QED  BY <2>2 DEF Alikes
<1>3. QED  BY <1>1, <1>2, EvidenceSteps, PTL DEF DedupSpec

-----------------------------------------------------------------------------
(* Duplicates: a run that merges nobody has compared whoever is alike.     *)

LEMMA MergedNobody ==
  ASSUME DedupAssumption, DedupTables, Stays, NEW s \in Present, NEW ds \in SUBSET Present, s \notin ds, NEW name,
         MergeInto(s, ds, name), went' = Self
  PROVE  /\ ds = {} /\ went = Self
         /\ name = title[s] => UNCHANGED <<title, holder, primary>>
<1>1. Present \subseteq Members /\ s \in Members /\ DedupTables
  BY DEF Present
<1>2. went' = [p \in Members |-> IF went[p] \in ds THEN s ELSE went[p]]
  BY DEF MergeInto, Into
<1>3. ASSUME NEW d \in ds  PROVE FALSE
  <2>1. d \in Members /\ went[d] = d
    BY <1>1 DEF Stays
  <2>2. went'[d] = s
    BY <1>2, <2>1
  <2>3. went'[d] = d
    BY <2>1 DEF Self
  <2>4. QED  BY <2>2, <2>3
<1>4. ds = {}
  BY <1>3
<1>5. went = Self
  <2>1. \A p \in Members : went'[p] = went[p]
    BY <1>2, <1>4
  <2>2. went \in [Members -> Members] /\ went' \in [Members -> Members]
    BY DEF DedupTables, Self
  <2>3. QED  BY <2>1, <2>2
<1>6. ASSUME name = title[s]
      PROVE  UNCHANGED <<title, holder, primary>>
  <2>typed. title \in [Members -> Titles \union {None}] /\ holder \in [AllHandles -> Members \union {None}] /\ primary \in [Members -> EmailKeys \union {None}]
    BY DEF DedupTables, TablesFit, Tables
  <2>title. title' = [p \in Members |-> title[p]]
    BY <1>4, <1>6 DEF MergeInto
  <2>holder. holder' = [h \in AllHandles |-> holder[h]]
    BY <1>4 DEF MergeInto, MergedAliases, Into
  <2>addresses. Addresses(s, ds) = {}
    BY <1>4 DEF Addresses
  <2>primary. primary' = [p \in Members |-> primary[p]]
    BY <1>4, <2>addresses DEF MergeInto, MergedPrimary
  <2> QED BY <2>typed, <2>title, <2>holder, <2>primary
<1>7. QED  BY <1>4, <1>5, <1>6

(* What the last pass reads stays as it is while the tables do.            *)
LEMMA ConvergeUnchanged ==
  ASSUME ConvergeInv, went = Self, UNCHANGED <<title, holder, primary, pass, atStart>>,
         Pending', ToCompare'
  PROVE  ConvergeInv'
<1>1. Untouched /\ Apart /\ (pass = "done" => Follow = {})
  BY DEF ConvergeInv
<1>2. Present' = Present /\ PassKeys' = PassKeys /\ Follow' = Follow
  BY KeysUnchanged
<1>3. Untouched' /\ Finished' = Finished
  BY <1>1 DEF Untouched, Finished
<1>4. Apart'
  BY <1>1, <1>2, <1>3 DEF Apart
<1>5. QED  BY <1>1, <1>2, <1>3, <1>4 DEF ConvergeInv

LEMMA ConvergeBegin ==
  ASSUME EvidenceInv, ConvergeInv, DedupForUser
  PROVE  ConvergeInv'
<1> USE DedupAssumption
<1>1. /\ pass' = "names" /\ todo' \in Groups("names") /\ atStart' = Tables
      /\ UNCHANGED <<title, holder, primary>>
  BY DEF DedupForUser, dedupTables
<1>2. Untouched'
  BY <1>1 DEF Untouched, Tables
<1>3. Present' = Present /\ PassKeys' = PassKeys
  BY <1>1, KeysUnchanged
<1>4. Apart' /\ ToCompare' /\ pass' # "done"
  BY <1>1 DEF Apart, ToCompare, Finished
<1>5. Pending'
  <2>1. DedupTables /\ "names" \in Early
    BY DEF EvidenceInv, Early
  <2>2. \A p, q \in Present : p # q /\ PassKeys["names"][p] \intersect PassKeys["names"][q] # {} => \E i \in DOMAIN todo' : {p, q} \subseteq todo'[i]
    BY <1>1, <2>1, PassGroups
  <2>3. QED  BY <1>1, <1>3, <2>2 DEF Pending
<1>6. QED  BY <1>2, <1>4, <1>5 DEF ConvergeInv

LEMMA ConvergeAbandon ==
  ASSUME Abandon
  PROVE  ConvergeInv'
<1>1. /\ title' = atStart'.title /\ holder' = atStart'.holder /\ primary' = atStart'.primary /\ pass' = "failed"
  BY DEF Abandon
<1>2. QED  BY <1>1 DEF ConvergeInv, Untouched, Apart, Finished, Pending, ToCompare, Early

LEMMA MoreThanOneWord ==
  ASSUME NEW t \in Seq(STRING), Len(t) > 1
  PROVE  ~LooksLikeEmail(t)
<1> DEFINE n == Len(t)
<1>1. t = <<"@">> => n = 1
  OBVIOUS
<1>2. n \in Nat /\ n > 1
  BY LenProperties
<1> HIDE DEF n
<1>3. QED  BY <1>1, <1>2 DEF LooksLikeEmail

LEMMA ConvergeNextPass ==
  ASSUME EvidenceInv, ConvergeInv, NextPass
  PROVE  ConvergeInv'
<1> USE DedupAssumption
<1> DEFINE next == Passes[(CHOOSE i \in 1..4 : Passes[i] = pass) + 1]
<1>1. /\ pass' = next /\ todo' \in Groups(next) /\ todo = <<>> /\ cursor.rest = <<>>
      /\ ids' = IF next = "longer" THEN [p \in Members |-> IF p \in Present THEN IdentityKeys(p) ELSE {}] ELSE NoKeys
      /\ UNCHANGED <<title, holder, primary, went, atStart>> /\ cursor' = NoCursor
  BY DEF NextPass, dedupTables
<1>2. \/ pass = "names" /\ next = "phones"
      \/ pass = "phones" /\ next = "emails"
      \/ pass = "emails" /\ next = "longer"
      \/ pass = "longer" /\ next = "done"
  BY NextOfPass DEF NextPass
<1> HIDE DEF next
<1>3. SUFFICES ASSUME went = Self  PROVE ConvergeInv'
  BY <1>1 DEF ConvergeInv, Self
<1>4. Untouched /\ Apart /\ Pending /\ ToCompare /\ DedupTables
  BY <1>3 DEF ConvergeInv, EvidenceInv
<1>5. Untouched'
  BY <1>1, <1>4 DEF Untouched
<1>6. Present' = Present /\ PassKeys' = PassKeys /\ Follow' = Follow /\ IdKeys' = IdKeys
  BY <1>1, KeysUnchanged
<1>7. Apart'
  <2>1. Finished' \subseteq Finished \union ({pass} \intersect Early)
    BY <1>1, <1>2 DEF Finished, Early
  <2>2. pass \in Early => \A p, q \in Present : p # q => PassKeys[pass][p] \intersect PassKeys[pass][q] = {}
    BY <1>1, <1>4 DEF Pending
  <2>3. \A x \in Finished \union ({pass} \intersect Early) : \A p, q \in Present : p # q => PassKeys[x][p] \intersect PassKeys[x][q] = {}
    BY <1>4, <2>2 DEF Apart
  <2>4. QED  BY <1>6, <2>1, <2>3 DEF Apart
<1>8. Pending'
  <2>1. CASE next \in Early
    <3>1. \A p, q \in Present : p # q /\ PassKeys[next][p] \intersect PassKeys[next][q] # {} => \E i \in DOMAIN todo' : {p, q} \subseteq todo'[i]
      BY <1>1, <1>4, <2>1, PassGroups
    <3>2. QED  BY <1>1, <1>6, <3>1 DEF Pending
  <2>2. CASE next \notin Early
    BY <1>1, <2>2 DEF Pending
  <2>3. QED  BY <2>1, <2>2
<1>9. ToCompare'
  <2>1. CASE next = "longer"
    <3>1. todo' \in Groups("longer") /\ "names" \in Finished'
      BY <1>1, <1>2, <2>1 DEF Finished, Early
    <3>2. /\ todo' \in Seq(Members)
          /\ \A p \in Present : ~LooksLikeEmail(title[p]) /\ Len(title[p]) > 1 => \E i \in DOMAIN todo' : todo'[i] = p
          /\ \A i, j \in DOMAIN todo' : i < j => Len(title[todo'[i]]) <= Len(title[todo'[j]])
      BY <3>1, LongerGroups
    <3>3. ASSUME NEW x \in Follow
          PROVE  \E i, j \in DOMAIN todo' : i < j /\ todo'[i] = x[1] /\ todo'[j] = x[2]
      <4> DEFINE p == x[1]
                 q == x[2]
      <4>1. /\ p \in Present /\ q \in Present /\ p # q /\ Len(title[p]) > 1 /\ Len(title[q]) > 1
            /\ IsPrefix(title[p], title[q]) /\ p \in Members /\ q \in Members
        BY DEF Follow, Present
      <4>2. title[p] \in Seq(STRING) /\ title[q] \in Seq(STRING)
        BY <1>4, <4>1 DEF DedupTables, TablesFit, Tables, Present
      <4>3. title[p] # title[q]
        <5>1. PassKeys'["names"][p] \intersect PassKeys'["names"][q] = {}
          BY <1>6, <1>7, <3>1, <4>1 DEF Apart
        <5>2. PassKeys["names"][p] = {title[p]} /\ PassKeys["names"][q] = {title[q]}
          BY <4>1 DEF PassKeys, Early
        <5>3. QED  BY <1>6, <5>1, <5>2
      <4>4. Len(title[p]) < Len(title[q])
        <5>1. Len(title[p]) \in Nat /\ Len(title[q]) \in Nat
          BY <4>2, LenProperties
        <5>2. ~(Len(title[q]) <= Len(title[p]))
          BY <4>1, <4>2, <4>3, PrefixAntisymmetric
        <5>3. QED  BY <5>1, <5>2
      <4>5. ~LooksLikeEmail(title[p]) /\ ~LooksLikeEmail(title[q])
        BY <4>1, <4>2, MoreThanOneWord
      <4>6. PICK i \in DOMAIN todo', j \in DOMAIN todo' : todo'[i] = p /\ todo'[j] = q
        BY <3>2, <4>1, <4>5
      <4>7. i \in Nat /\ j \in Nat /\ i # j
        BY <3>2, <4>1, <4>6
      <4>8. ~(j < i)
        <5>1. j < i => Len(title[q]) <= Len(title[p])
          BY <3>2, <4>6
        <5>2. Len(title[p]) \in Nat /\ Len(title[q]) \in Nat
          BY <4>2, LenProperties
        <5>3. QED  BY <4>4, <5>1, <5>2
      <4>9. i < j
        BY <4>7, <4>8
      <4>10. QED  BY <4>6, <4>9
    <3>4. \A p \in Present : ids'[p] = IdKeys[p]
      BY <1>1, <2>1 DEF IdKeys, Present
    <3>5. cursor'.rest = <<>>
      BY <1>1 DEF NoCursor
    <3>6. QED  BY <1>6, <3>3, <3>4, <3>5 DEF ToCompare
  <2>2. CASE next # "longer"
    BY <1>1, <2>2 DEF ToCompare
  <2>3. QED  BY <2>1, <2>2
<1>10. pass' = "done" => Follow' = {}
  <2>1. SUFFICES ASSUME pass' = "done"  PROVE Follow = {}
    BY <1>6
  <2>2. pass = "longer"
    BY <1>1, <1>2, <2>1
  <2>3. QED  BY <1>1, <1>4, <2>2 DEF ToCompare
<1>11. QED  BY <1>5, <1>7, <1>8, <1>9, <1>10 DEF ConvergeInv

LEMMA ConvergeMergeGroup ==
  ASSUME EvidenceInv, ConvergeInv, MergeGroup
  PROVE  ConvergeInv'
<1> USE DedupAssumption
<1> DEFINE ps == Head(todo) \intersect Present
<1>1. CASE ps = {}
  BY <1>1, ConvergeAbandon DEF MergeGroup
<1>2. CASE ps # {}
  <2>1. PICK s \in Survivors(title, ps) : MergeInto(s, ps \ {s}, title[s])
    BY <1>2 DEF MergeGroup
  <2>2. /\ pass \in Early /\ todo # <<>> /\ todo' = Tail(todo)
        /\ pass' = pass /\ atStart' = atStart /\ ids' = ids /\ cursor' = cursor
    BY <1>2 DEF MergeGroup, Early
  <2>3. SUFFICES ASSUME went' = Self  PROVE ConvergeInv'
    BY DEF ConvergeInv, Self
  <2> DEFINE ds == ps \ {s}
  <2>4. s \in Present /\ ds \in SUBSET Present /\ s \notin ds /\ s \in ps
    BY <2>1 DEF Survivors
  <2>5. DedupTables /\ Stays /\ GroupsFit
    BY DEF EvidenceInv
  <2>6. ds = {} /\ went = Self /\ UNCHANGED <<title, holder, primary>>
    <3>1. MergeInto(s, ds, title[s])
      BY <2>1
    <3> HIDE DEF ds
    <3>2. QED  BY <2>3, <2>4, <2>5, <3>1, MergedNobody
  <2>7. todo \in Seq(SUBSET Members) /\ Head(todo) = todo[1] /\ DOMAIN todo = 1..Len(todo) /\ Len(todo) \in Nat
    BY <2>2, <2>5, LenProperties DEF GroupsFit
  <2>8. Present' = Present /\ PassKeys' = PassKeys
    BY <2>6, KeysUnchanged
  <2>9. Pending'
    <3>1. ASSUME NEW p \in Present, NEW q \in Present, p # q, PassKeys[pass][p] \intersect PassKeys[pass][q] # {}
          PROVE  \E i \in DOMAIN todo' : {p, q} \subseteq todo'[i]
      <4>1. PICK i \in DOMAIN todo : {p, q} \subseteq todo[i]
        BY <2>2, <2>6, <3>1 DEF ConvergeInv, Pending
      <4>2. i # 1
        BY <2>6, <2>7, <3>1, <4>1
      <4>3. i - 1 \in DOMAIN todo' /\ todo'[i - 1] = todo[i]
        BY <2>2, <2>7, <4>1, <4>2
      <4>4. QED  BY <4>1, <4>3
    <3>2. QED  BY <2>2, <2>8, <3>1 DEF Pending
  <2>10. ToCompare'
    BY <2>2 DEF ToCompare, Early
  <2>11. QED  BY <2>2, <2>6, <2>9, <2>10, ConvergeUnchanged
<1>3. QED  BY <1>1, <1>2

LEMMA ConvergeNextShorter ==
  ASSUME EvidenceInv, ConvergeInv, NextShorter
  PROVE  ConvergeInv'
<1>1. /\ pass = "longer" /\ todo # <<>> /\ todo' = Tail(todo) /\ cursor.rest = <<>>
      /\ UNCHANGED <<title, holder, primary, pass, went, atStart, ids>>
      /\ cursor' = IF Head(todo) \in Present
                   THEN [short |-> Head(todo), name |-> title[Head(todo)], email |-> primary[Head(todo)], rest |-> Tail(todo)]
                   ELSE NoCursor
  BY DEF NextShorter, dedupTables
<1>2. SUFFICES ASSUME went = Self  PROVE ConvergeInv'
  BY <1>1 DEF ConvergeInv, Self
<1>3. ToCompare /\ LongerFits
  BY <1>2 DEF ConvergeInv, EvidenceInv
<1>4. todo \in Seq(Members) /\ Head(todo) = todo[1] /\ DOMAIN todo = 1..Len(todo) /\ Len(todo) \in Nat
  BY <1>1, <1>3, LenProperties DEF LongerFits
<1>5. \A i \in DOMAIN todo : i # 1 => i - 1 \in DOMAIN todo' /\ todo'[i - 1] = todo[i]
  BY <1>1, <1>4
<1>6. Present' = Present /\ IdKeys' = IdKeys /\ Follow' = Follow
  BY <1>1, KeysUnchanged
<1>7. ASSUME NEW x \in Follow
      PROVE  \/ \E i, j \in DOMAIN todo' : i < j /\ todo'[i] = x[1] /\ todo'[j] = x[2]
             \/ cursor'.short = x[1] /\ \E j \in DOMAIN cursor'.rest : cursor'.rest[j] = x[2]
  <2>1. x[1] \in Present
    BY DEF Follow
  <2>2. PICK i \in DOMAIN todo, j \in DOMAIN todo : i < j /\ todo[i] = x[1] /\ todo[j] = x[2]
    BY <1>1, <1>3 DEF ToCompare
  <2>3. j # 1 /\ j - 1 \in DOMAIN todo' /\ todo'[j - 1] = x[2]
    <3>1. j # 1
      BY <1>4, <2>2
    <3>2. QED  BY <1>5, <2>2, <3>1
  <2>4. CASE i = 1
    <3>1. cursor'.short = x[1] /\ cursor'.rest = todo'
      BY <1>1, <1>4, <2>1, <2>2, <2>4
    <3>2. QED  BY <2>3, <3>1
  <2>5. CASE i # 1
    <3>1. i - 1 \in DOMAIN todo' /\ todo'[i - 1] = x[1]
      BY <1>5, <2>2, <2>5
    <3>2. i - 1 < j - 1
      BY <1>4, <2>2
    <3>3. QED  BY <2>3, <3>1, <3>2
  <2>6. QED  BY <2>4, <2>5
<1>8. cursor'.rest # <<>> => cursor'.short \in Present /\ cursor'.name = title[cursor'.short]
  BY <1>1 DEF NoCursor
<1>9. ToCompare'
  BY <1>1, <1>3, <1>6, <1>7, <1>8 DEF ToCompare
<1>10. Pending'
  BY <1>1 DEF Pending, Early
<1>11. QED  BY <1>1, <1>2, <1>9, <1>10, ConvergeUnchanged

LEMMA ConvergeComparePair ==
  ASSUME EvidenceInv, ConvergeInv, ComparePair
  PROVE  ConvergeInv'
<1> USE DedupAssumption
<1> DEFINE short == cursor.short
           long == Head(cursor.rest)
           named == [title EXCEPT ![short] = cursor.name]
<1>1. DedupTables /\ Stays /\ CursorFits /\ cursor.rest # <<>>
  BY DEF EvidenceInv, ComparePair
<1>2. /\ pass = "longer" /\ short \in Members /\ long \in Members /\ long # short
      /\ cursor \in [short : Members \union {None}, name : Seq(STRING), email : EmailKeys \union {None}, rest : Seq(Members)]
      /\ long = cursor.rest[1] /\ DOMAIN cursor.rest = 1..Len(cursor.rest) /\ Len(cursor.rest) \in Nat
  <2>1. cursor \in [short : Members \union {None}, name : Seq(STRING), email : EmailKeys \union {None}, rest : Seq(Members)]
    BY <1>1 DEF CursorFits
  <2>2. cursor.rest \in Seq(Members)
    BY <2>1
  <2>3. long = cursor.rest[1] /\ 1 \in DOMAIN cursor.rest /\ long \in Members
    BY <1>1, <2>2
  <2>4. QED  BY <1>1, <2>1, <2>2, <2>3, LenProperties DEF CursorFits
<1>3. CASE Abandon
  BY <1>3, ConvergeAbandon
<1>4. ASSUME NEW s \in {short, long}, MergeInto(s, {short, long} \ {s}, cursor.name), long \in Present, short \in Present,
             Compared(IF s = short THEN primary'[short] ELSE cursor.email)
      PROVE  ConvergeInv'
  <2> DEFINE ds == {short, long} \ {s}
  <2>1. s \in Present /\ ds \in SUBSET Present /\ s \notin ds /\ ds # {}
    BY <1>2, <1>4
  <2>2. MergeInto(s, ds, cursor.name)
    BY <1>4
  <2> HIDE DEF ds
  <2>3. went' # Self
    BY <1>1, <2>1, <2>2, MergedNobody
  <2>4. QED  BY <2>3 DEF ConvergeInv, Self
<1>5. ASSUME Compared(cursor.email), went' = went, went = Self, UNCHANGED <<title, holder, primary>>,
             long \in Present => ~Continues(long)
      PROVE  ConvergeInv'
  <2>unmoved. /\ pass' = pass /\ todo' = todo /\ atStart' = atStart /\ ids' = ids
              /\ cursor'.short = short /\ cursor'.name = cursor.name /\ cursor'.rest = Tail(cursor.rest)
    BY <1>2, <1>5 DEF Compared
  <2>compare. ToCompare
    BY <1>5 DEF ConvergeInv
  <2>short. short \in Present /\ cursor.name = title[short] /\ ids[short] = IdKeys[short]
    BY <1>1, <1>2, <2>compare DEF ToCompare
  <2>same. Present' = Present /\ IdKeys' = IdKeys /\ Follow' = Follow
    BY <1>5, KeysUnchanged
  <2>follow. ASSUME NEW x \in Follow
             PROVE  \/ \E i, j \in DOMAIN todo : i < j /\ todo[i] = x[1] /\ todo[j] = x[2]
                    \/ short = x[1] /\ \E j \in DOMAIN Tail(cursor.rest) : Tail(cursor.rest)[j] = x[2]
    <3>1. CASE short = x[1] /\ \E j \in DOMAIN cursor.rest : cursor.rest[j] = x[2]
      <4>1. PICK j \in DOMAIN cursor.rest : cursor.rest[j] = x[2]
        BY <3>1
      <4>2. x[2] \in Present /\ IsPrefix(title[x[1]], title[x[2]]) /\ IdKeys[x[1]] \intersect IdKeys[x[2]] # {}
        BY DEF Follow
      <4>3. ids[x[2]] = IdKeys[x[2]]
        BY <1>2, <2>compare, <4>2 DEF ToCompare
      <4>4. Continues(x[2])
        BY <2>short, <3>1, <4>2, <4>3 DEF Continues
      <4>5. j # 1
        BY <1>2, <1>5, <4>1, <4>2, <4>4
      <4>6. j - 1 \in DOMAIN Tail(cursor.rest) /\ Tail(cursor.rest)[j - 1] = cursor.rest[j]
        <5>1. cursor.rest \in Seq(Members)
          BY <1>2
        <5>2. QED  BY <1>1, <4>1, <4>5, <5>1
      <4>7. QED  BY <3>1, <4>1, <4>6
    <3>2. CASE \E i, j \in DOMAIN todo : i < j /\ todo[i] = x[1] /\ todo[j] = x[2]
      BY <3>2
    <3>3. QED  BY <1>2, <2>compare, <3>1, <3>2 DEF ToCompare
  <2>compareNext. ToCompare'
    BY <1>2, <2>unmoved, <2>compare, <2>short, <2>same, <2>follow, <1>5 DEF ToCompare
  <2>pending. Pending'
    BY <1>2, <2>unmoved DEF Pending, Early
  <2> QED BY <1>5, <2>unmoved, <2>compareNext, <2>pending, ConvergeUnchanged
<1>6. ASSUME short \notin Present, went' = went
      PROVE  ConvergeInv'
  <2>1. went # Self
    BY <1>1, <1>2, <1>6 DEF ConvergeInv, ToCompare
  <2>2. QED  BY <1>6, <2>1 DEF ConvergeInv, Self
<1> HIDE DEF named
<1>7. \/ (long \in Present => ~Continues(long)) /\ Compared(cursor.email) /\ UNCHANGED <<title, holder, primary, went>>
      \/ \E s \in {short, long} : /\ long \in Present /\ short \in Present
                                  /\ MergeInto(s, {short, long} \ {s}, cursor.name)
                                  /\ Compared(IF s = short THEN primary'[short] ELSE cursor.email)
      \/ Abandon
      \/ short \notin Present /\ went' = went
  BY DEF ComparePair, dedupTables, Survivors, named
<1>8. CASE (long \in Present => ~Continues(long)) /\ Compared(cursor.email) /\ UNCHANGED <<title, holder, primary, went>>
  <2>1. CASE went = Self
    BY <1>5, <1>8, <2>1
  <2>2. CASE went # Self
    BY <1>8, <2>2 DEF ConvergeInv, Self
  <2>3. QED  BY <2>1, <2>2
<1>9. QED  BY <1>3, <1>4, <1>6, <1>7, <1>8

LEMMA ConvergeSteps ==
  EvidenceInv /\ ConvergeInv /\ [DedupNext]_dedupVars => ConvergeInv'
<1> SUFFICES ASSUME EvidenceInv, ConvergeInv, [DedupNext]_dedupVars  PROVE ConvergeInv'
  OBVIOUS
<1>1. CASE DedupForUser
  BY <1>1, ConvergeBegin
<1>2. CASE NextPass
  BY <1>2, ConvergeNextPass
<1>3. CASE MergeGroup
  BY <1>3, ConvergeMergeGroup
<1>4. CASE NextShorter
  BY <1>4, ConvergeNextShorter
<1>5. CASE ComparePair
  BY <1>5, ConvergeComparePair
<1>6. CASE UNCHANGED dedupVars
  <2>1. UNCHANGED <<title, holder, primary, facts, linked, pass, todo, went, atStart, ids, cursor>>
    BY <1>6 DEF dedupVars
  <2>2. Present' = Present /\ PassKeys' = PassKeys /\ IdKeys' = IdKeys /\ Follow' = Follow
    BY <2>1, KeysUnchanged
  <2>3. CASE went = Self
    <3>1. Pending' /\ ToCompare'
      BY <2>1, <2>2, <2>3 DEF ConvergeInv, Pending, ToCompare
    <3>2. QED  BY <2>1, <2>3, <3>1, ConvergeUnchanged
  <2>4. CASE went # Self
    BY <2>1, <2>4 DEF ConvergeInv, Self
  <2>5. QED  BY <2>3, <2>4
<1>7. QED  BY <1>1, <1>2, <1>3, <1>4, <1>5, <1>6 DEF DedupNext

(* What the tables said of one person is what they say of it while nobody  *)
(* has been merged.                                                        *)
LEMMA SaidOfOne ==
  ASSUME DedupAssumption, Untouched, NEW p \in Members
  PROVE  /\ Were({p}) = {title[p]} /\ Held({p}, {"phone"}) = HeldForms(p, "phone")
         /\ Held({p}, AllKinds) = IdentityKeys(p)
         /\ Held({p}, {"email"}) \union Called({p}) \subseteq EmailForms(p)
<1>1. title = atStart.title /\ holder = atStart.holder /\ primary = atStart.primary
  BY DEF Untouched
<1>2. Were({p}) = {title[p]}
  BY <1>1 DEF Were
<1>3. Held({p}, {"phone"}) = HeldForms(p, "phone")
  BY <1>1 DEF Held, HeldForms, Form
<1>4. /\ {atStart.primary[q] : q \in {p}} \ {None} = {primary[p]} \ {None}
  BY <1>1
<1>5. Held({p}, AllKinds) = IdentityKeys(p)
  <2>1. {g \in AllHandles : atStart.holder[g] \in {p} /\ KindOf[g] \in AllKinds}
          = UNION {{g \in AllHandles : holder[g] = p /\ KindOf[g] = kd} : kd \in AllKinds}
    BY <1>1
  <2>2. HeldForms(p, "email") \union HeldForms(p, "phone") \union HeldForms(p, "linkedin")
          = {Norm[h] : h \in UNION {{g \in AllHandles : holder[g] = p /\ KindOf[g] = kd} : kd \in AllKinds}}
    BY DEF HeldForms, Form, AllKinds
  <2>3. {Norm[h] : h \in {primary[p]} \ {None}} = IF primary[p] = None THEN {} ELSE {Form(primary[p])}
    BY DEF Form
  <2>4. Held({p}, AllKinds)
          = {Norm[h] : h \in {g \in AllHandles : atStart.holder[g] \in {p} /\ KindOf[g] \in AllKinds}}
              \union {Norm[h] : h \in {atStart.primary[q] : q \in {p}} \ {None}}
    BY DEF Held, AllKinds
  <2>5. QED  BY <1>4, <2>1, <2>2, <2>3, <2>4 DEF IdentityKeys
<1>6. Held({p}, {"email"}) \union Called({p}) \subseteq EmailForms(p)
  <2>1. \A h \in RawEmails(p) : Norm[h] \in EmailForms(p)
    BY DEF EmailForms, Form
  <2>2. \A g \in AllHandles : holder[g] = p /\ KindOf[g] = "email" => g \in RawEmails(p)
    BY DEF RawEmails
  <2>3. primary[p] # None => primary[p] \in RawEmails(p)
    BY DEF RawEmails
  <2>4. title[p] = <<"@">> => Address \in RawEmails(p)
    BY DEF RawEmails, LooksLikeEmail
  <2>5. ASSUME NEW k \in Held({p}, {"email"})  PROVE k \in EmailForms(p)
    <3>1. \/ \E g \in AllHandles : holder[g] = p /\ KindOf[g] = "email" /\ k = Norm[g]
          \/ primary[p] # None /\ k = Norm[primary[p]]
      BY <1>1 DEF Held
    <3>2. QED  BY <2>1, <2>2, <2>3, <3>1
  <2>6. ASSUME NEW k \in Called({p})  PROVE k \in EmailForms(p)
    <3>1. title[p] = <<"@">> /\ k = Norm[Address]
      BY <1>2 DEF Called
    <3>2. QED  BY <2>1, <2>4, <3>1
  <2>7. QED  BY <2>5, <2>6
<1>7. QED  BY <1>2, <1>3, <1>5, <1>6

(* A run that merges nobody leaves no two persons of whom the tables say   *)
(* that they are one: repeating runs until one changes nothing is enough.  *)
THEOREM RoundsDoConverge == DedupSpec => []RoundsConverge
<1>1. DedupInit => EvidenceInv /\ ConvergeInv
  BY EvidenceInit
<1>2. EvidenceInv /\ ConvergeInv /\ [DedupNext]_dedupVars => (EvidenceInv /\ ConvergeInv)'
  BY EvidenceSteps, ConvergeSteps
<1>3. EvidenceInv /\ ConvergeInv => RoundsConverge
  <2> USE DedupAssumption
  <2> SUFFICES ASSUME EvidenceInv, ConvergeInv, pass = "done", went = Self,
                      NEW p \in Present, NEW q \in Present, p # q, Evidence({p}, {q})
               PROVE  FALSE
    BY DEF RoundsConverge
  <2>1. Untouched /\ Apart /\ Follow = {} /\ Finished = Early
    BY DEF ConvergeInv, Finished
  <2>2. p \in Members /\ q \in Members
    BY DEF Present
  <2>3. /\ Were({p}) = {title[p]} /\ Held({p}, {"phone"}) = HeldForms(p, "phone")
        /\ Held({p}, AllKinds) = IdentityKeys(p)
        /\ Held({p}, {"email"}) \union Called({p}) \subseteq EmailForms(p)
    BY <2>1, <2>2, SaidOfOne
  <2>4. /\ Were({q}) = {title[q]} /\ Held({q}, {"phone"}) = HeldForms(q, "phone")
        /\ Held({q}, AllKinds) = IdentityKeys(q)
        /\ Held({q}, {"email"}) \union Called({q}) \subseteq EmailForms(q)
    BY <2>1, <2>2, SaidOfOne
  <2>5. /\ {title[p]} \intersect {title[q]} = {}
        /\ HeldForms(p, "phone") \intersect HeldForms(q, "phone") = {}
        /\ EmailForms(p) \intersect EmailForms(q) = {}
    <3>1. \A x \in Early : PassKeys[x][p] \intersect PassKeys[x][q] = {}
      BY <2>1 DEF Apart
    <3>2. \A r \in Members : /\ PassKeys["names"][r] = {title[r]} /\ PassKeys["phones"][r] = HeldForms(r, "phone")
                             /\ PassKeys["emails"][r] = EmailForms(r)
      BY DEF PassKeys, Early
    <3>3. "names" \in Early /\ "phones" \in Early /\ "emails" \in Early
      BY DEF Early
    <3>4. QED  BY <2>2, <3>1, <3>2, <3>3
  <2>6. CASE Confirmed({p}, {q}) /\ ((\E t \in Were({p}) : GoesOn({q}, t)) \/ (\E t \in Were({q}) : GoesOn({p}, t)))
    <3>1. IdKeys[p] \intersect IdKeys[q] # {}
      BY <2>2, <2>3, <2>4, <2>6 DEF Confirmed, AllKinds, IdKeys
    <3>2. CASE GoesOn({q}, title[p])
      <4>1. Len(title[p]) > 1 /\ Len(title[q]) > 1 /\ IsPrefix(title[p], title[q])
        BY <2>4, <3>2 DEF GoesOn
      <4>2. <<p, q>> \in Follow
        BY <3>1, <4>1 DEF Follow
      <4>3. QED  BY <2>1, <4>2
    <3>3. CASE GoesOn({p}, title[q])
      <4>1. Len(title[p]) > 1 /\ Len(title[q]) > 1 /\ IsPrefix(title[q], title[p])
        BY <2>3, <3>3 DEF GoesOn
      <4>2. <<q, p>> \in Follow
        BY <3>1, <4>1 DEF Follow
      <4>3. QED  BY <2>1, <4>2
    <3>4. QED  BY <2>3, <2>4, <2>6, <3>2, <3>3
  <2>7. QED  BY <2>3, <2>4, <2>5, <2>6 DEF Evidence
<1>4. QED  BY <1>1, <1>2, <1>3, PTL DEF DedupSpec

-----------------------------------------------------------------------------
(* Imports: the invariant.                                                 *)

(* What an import sees: its own writes over what is committed.             *)
SeenAliases == [i \in Importers |-> [h \in Handles |-> IF tx[i].alias[h] # None THEN tx[i].alias[h] ELSE alias[h]]]
SeenPersons == [i \in Importers |-> [p \in People |-> IF tx[i].person[p] # None THEN tx[i].person[p] ELSE person[p]]]

(* The handles under which the user of a source has somebody, or would     *)
(* have but for a merge: in what is committed, and in what the import sees.*)
HeldHandles ==
  [i \in Importers |-> {h \in Handles : \/ alias[h] # None /\ <<Owner[i], alias[h]>> \in observed
                                        \/ <<Owner[i], h>> \in lost}]
SeenHandles ==
  [i \in Importers |-> {h \in Handles : \/ /\ SeenAliases[i][h] # None
                                           /\ <<Owner[i], SeenAliases[i][h]>> \in observed \union tx[i].observed
                                        \/ <<Owner[i], h>> \in lost}]

Contacts == [name : Names, handles : Seq(Handles)]
AliasTables == [Handles -> People \union {None}]
PersonTables == [People -> Names \union {None}]
ImportRows ==
  [pc : {"idle", "running", "failed", "complete"}, phase : {"read", "timelines", "capped"}, todo : SUBSET Contacts,
   done : SUBSET Contacts, since : Nat, known : AliasTables, index : SUBSET People, waits : Importers \union {None}]
WriteRows ==
  [person : PersonTables, alias : AliasTables, observed : SUBSET (Users \X People), contacts : SUBSET Contacts]
MergeRows == [into : People, from : People, alias : SUBSET Handles, users : SUBSET Users]
ImportTables ==
  /\ person \in PersonTables /\ alias \in AliasTables /\ observed \in SUBSET (Users \X People)
  /\ sourceKind \in [Importers -> Kinds] /\ book \in [Importers -> Books]
  /\ token \in [Importers -> SUBSET Contacts] /\ import \in [Importers -> ImportRows] /\ tx \in [Importers -> WriteRows]
  /\ merge \in MergeRows \union {None} /\ lost \in SUBSET (Users \X Handles)
  /\ runs \in 0..MaxRuns /\ merges \in 0..MaxMerges

(* What refers to a person refers to one that is there, or that the same   *)
(* transaction has made.                                                   *)
Rooted ==
  /\ \A h \in Handles : alias[h] # None => person[alias[h]] # None
  /\ \A o \in observed : person[o[2]] # None
  /\ \A i \in Importers : \A h \in Handles : tx[i].alias[h] # None => SeenPersons[i][tx[i].alias[h]] # None
  /\ \A i \in Importers : \A o \in tx[i].observed : SeenPersons[i][o[2]] # None
NothingOpen == \A i \in Importers : import[i].pc # "running" => tx[i] = NoWrites

(* No two transactions insert one key or make one person, and whoever a    *)
(* transaction writes about it observes.                                   *)
KeysApart ==
  \A i \in Importers : \A h \in Handles :
    tx[i].alias[h] # None => alias[h] = None /\ \A j \in Importers \ {i} : tx[j].alias[h] = None
RowsApart ==
  \A i \in Importers : \A p \in People :
    tx[i].person[p] # None =>
      /\ <<Owner[i], p>> \in tx[i].observed
      /\ person[p] = None => \A j \in Importers \ {i} : tx[j].person[p] = None /\ p \notin import[j].index

(* What an import remembers of an alias is true, or the person is gone.    *)
Remembered ==
  \A i \in Importers : \A h \in Handles :
    import[i].known[h] # None =>
      /\ import[i].known[h] \in import[i].index
      /\ SeenPersons[i][import[i].known[h]] # None => SeenAliases[i][h] = import[i].known[h]
OwnRemembered ==
  \A i \in Importers : sourceKind[i] = "linkedin" =>
    \A h \in Handles : tx[i].alias[h] # None => import[i].known[h] = tx[i].alias[h]
MergeFits ==
  merge # None =>
    /\ merge.into # merge.from /\ person[merge.into] # None
    /\ \A h \in merge.alias : alias[h] = merge.from
    /\ \A u \in merge.users : <<u, merge.from>> \in observed

(* What an import has done it has kept, and what a source promises, too.   *)
DoneKept == \A i \in Importers : \A c \in import[i].done : c.handles # <<>> => Forms(c) \intersect SeenHandles[i] # {}
TokenKept == \A i \in Importers : \A c \in token[i] : c.handles # <<>> => Forms(c) \intersect HeldHandles[i] # {}
Through ==
  \A i \in Importers : sourceKind[i] \notin Incremental /\ import[i].phase # "capped" =>
    \A c \in book[i] : Accepts(sourceKind[i], c) =>
      /\ import[i].pc = "running" => c \in import[i].todo \union import[i].done
      /\ import[i].pc = "complete" => c \in import[i].done

ImportInv ==
  /\ ImportTables /\ Rooted /\ NothingOpen /\ KeysApart /\ RowsApart /\ Remembered /\ OwnRemembered
  /\ MergeFits /\ DoneKept /\ TokenKept /\ Through

-----------------------------------------------------------------------------
(* Imports: the steps.                                                     *)

(* Without writes of its own an import sees what is committed.            *)
SeesCommitted ==
  \A i \in Importers : tx[i] = NoWrites =>
    /\ SeenAliases[i] = alias /\ SeenPersons[i] = person /\ SeenHandles[i] = HeldHandles[i]
    /\ \A h \in Handles : tx[i].alias[h] = None
    /\ \A p \in People : tx[i].person[p] = None
    /\ tx[i].observed = {}

LEMMA NothingWritten ==
  ImportTables => SeesCommitted
<1> SUFFICES ASSUME ImportTables, NEW i \in Importers, tx[i] = NoWrites
             PROVE  /\ SeenAliases[i] = alias /\ SeenPersons[i] = person /\ SeenHandles[i] = HeldHandles[i]
                    /\ \A h \in Handles : tx[i].alias[h] = None
                    /\ \A p \in People : tx[i].person[p] = None
                    /\ tx[i].observed = {}
  BY DEF SeesCommitted
<1>1. /\ tx[i].observed = {}
      /\ \A h \in Handles : tx[i].alias[h] = None
      /\ \A p \in People : tx[i].person[p] = None
  BY DEF NoWrites, NoAlias, NoPerson
<1>2. SeenAliases[i] = [h \in Handles |-> alias[h]] /\ SeenPersons[i] = [p \in People |-> person[p]]
  BY <1>1 DEF SeenAliases, SeenPersons
<1>3. SeenAliases[i] = alias /\ SeenPersons[i] = person
  BY <1>2 DEF ImportTables, AliasTables, PersonTables
<1>4. SeenHandles[i] = HeldHandles[i]
  BY <1>1, <1>3 DEF SeenHandles, HeldHandles
<1>5. QED  BY <1>1, <1>3, <1>4

LEMMA WritesUnchanged ==
  ASSUME UNCHANGED <<person, alias, observed, tx, lost>>
  PROVE  /\ SeenAliases' = SeenAliases /\ SeenPersons' = SeenPersons
         /\ HeldHandles' = HeldHandles /\ SeenHandles' = SeenHandles
<1>1. SeenAliases' = SeenAliases /\ SeenPersons' = SeenPersons
  BY DEF SeenAliases, SeenPersons
<1>2. QED  BY <1>1 DEF HeldHandles, SeenHandles

LEMMA NoWritesRow == NoWrites \in WriteRows
BY DEF NoWrites, WriteRows, NoPerson, NoAlias, PersonTables, AliasTables

LEMMA ImportInvInit ==
  ImportInit => ImportInv
<1> USE ImportAssumption
<1> SUFFICES ASSUME ImportInit  PROVE ImportInv
  OBVIOUS
<1>1. \A i \in Importers : tx[i] = NoWrites /\ import[i] = NoImport /\ token[i] = {}
  BY DEF ImportInit
<1>2. /\ NoImport \in ImportRows /\ NoImport.pc = "idle" /\ NoImport.done = {}
      /\ \A h \in Handles : NoImport.known[h] = None
  BY DEF NoImport, ImportRows, NoAlias, AliasTables
<1>3. ImportTables
  BY <1>1, <1>2, NoWritesRow DEF ImportInit, ImportTables, NoAlias, NoPerson, AliasTables, PersonTables
<1>4. \A i \in Importers : /\ \A h \in Handles : tx[i].alias[h] = None
                           /\ \A p \in People : tx[i].person[p] = None
                           /\ tx[i].observed = {}
  BY <1>1, <1>3, NothingWritten DEF SeesCommitted
<1>5. Rooted /\ NothingOpen /\ KeysApart /\ RowsApart /\ OwnRemembered
  BY <1>1, <1>4 DEF ImportInit, Rooted, NothingOpen, KeysApart, RowsApart, OwnRemembered, NoAlias
<1>6. Remembered /\ MergeFits /\ DoneKept /\ TokenKept /\ Through
  BY <1>1, <1>2 DEF ImportInit, Remembered, MergeFits, DoneKept, TokenKept, Through
<1>7. QED  BY <1>3, <1>5, <1>6 DEF ImportInv

LEMMA StartImportKeeps ==
  ASSUME ImportInv, NEW i \in Importers, StartImport(i)
  PROVE  ImportInv'
<1> USE ImportAssumption
<1>1. /\ import[i].pc # "running" /\ runs < MaxRuns /\ runs' = runs + 1
      /\ UNCHANGED <<person, alias, observed, sourceKind, book, token, tx, merge, lost, merges>>
  BY SMTT(30) DEF StartImport, tablesOfPersons, sources
<1>2. PICK contacts \in Listed(i) :
        import' = [import EXCEPT ![i] = [NoImport EXCEPT !.pc = "running", !.todo = Taken(i, contacts), !.known = alias,
                                                         !.index = {p \in People : person[p] # None}]]
  BY DEF StartImport
<1> DEFINE entry == [NoImport EXCEPT !.pc = "running", !.todo = Taken(i, contacts), !.known = alias,
                                   !.index = {p \in People : person[p] # None}]
<1>3. ImportTables /\ Rooted /\ NothingOpen /\ KeysApart /\ RowsApart /\ Remembered /\ OwnRemembered
  BY DEF ImportInv
<1>4. MergeFits /\ DoneKept /\ TokenKept /\ Through
  BY DEF ImportInv
<1>5. /\ Taken(i, contacts) \in SUBSET Contacts
      /\ sourceKind[i] \notin Incremental =>
           \A c \in book[i] : Accepts(sourceKind[i], c) => c \in Taken(i, contacts)
  <2>1. book[i] \in Books
    BY <1>3 DEF ImportTables
  <2>2. book[i] \subseteq Contacts
    BY <2>1 DEF Contacts
  <2>3. QED  BY <1>2, <2>2 DEF Listed, Taken
<1>6. /\ entry.pc = "running" /\ entry.phase = "read" /\ entry.todo = Taken(i, contacts) /\ entry.done = {} /\ entry.since = 0
      /\ entry.known = alias /\ entry.index = {p \in People : person[p] # None} /\ entry.waits = None
  BY DEF NoImport
<1>7. entry \in ImportRows
  <2>1. alias \in AliasTables
    BY <1>3 DEF ImportTables
  <2>2. QED  BY <1>5, <2>1 DEF NoImport, ImportRows
<1>8. import' = [import EXCEPT ![i] = entry]
  BY <1>2
<1> HIDE DEF entry
<1>9. import' \in [Importers -> ImportRows] /\ import'[i] = entry /\ \A j \in Importers \ {i} : import'[j] = import[j]
  BY <1>3, <1>7, <1>8 DEF ImportTables
<1>10. /\ SeenAliases' = SeenAliases /\ SeenPersons' = SeenPersons
       /\ HeldHandles' = HeldHandles /\ SeenHandles' = SeenHandles
  BY <1>1, WritesUnchanged
<1>11. ImportTables'
  <2>1. runs' \in 0..MaxRuns
    BY <1>1, <1>3 DEF ImportTables, ImportAssumption
  <2>2. QED  BY <1>1, <1>3, <1>9, <2>1 DEF ImportTables
<1>12. Rooted' /\ KeysApart' /\ MergeFits' /\ TokenKept'
  BY <1>1, <1>3, <1>4, <1>10 DEF Rooted, KeysApart, MergeFits, TokenKept
<1>13. /\ SeenAliases[i] = alias /\ SeenPersons[i] = person /\ \A h \in Handles : tx[i].alias[h] = None
  BY <1>1, <1>3, NothingWritten DEF SeesCommitted, NothingOpen
<1>14. NothingOpen'
  BY <1>1, <1>3, <1>6, <1>9 DEF NothingOpen
<1>15. RowsApart'
  BY <1>1, <1>3, <1>6, <1>9 DEF RowsApart
<1>16. Remembered'
  <2>1. ASSUME NEW h \in Handles, entry.known[h] # None
        PROVE  entry.known[h] \in entry.index /\ SeenAliases[i][h] = entry.known[h]
    <3>1. alias[h] \in People /\ person[alias[h]] # None
      BY <1>3, <1>6, <2>1 DEF ImportTables, AliasTables, Rooted
    <3>2. QED  BY <1>6, <1>13, <3>1
  <2>2. QED  BY <1>3, <1>9, <1>10, <2>1 DEF Remembered
<1>17. OwnRemembered'
  BY <1>1, <1>3, <1>9, <1>13 DEF OwnRemembered
<1>18. DoneKept'
  BY <1>4, <1>6, <1>9, <1>10 DEF DoneKept
<1>19. Through'
  BY <1>1, <1>4, <1>5, <1>6, <1>9 DEF Through
<1>20. QED  BY <1>11, <1>12, <1>14, <1>15, <1>16, <1>17, <1>18, <1>19 DEF ImportInv

(* A step that writes nothing and leaves what the imports know.            *)
LEMMA NothingLearnt ==
  ASSUME ImportInv, ImportTables', MergeFits', Through',
         UNCHANGED <<person, alias, observed, tx, lost, sourceKind, token>>,
         \A j \in Importers : /\ import'[j].pc = import[j].pc /\ import'[j].done = import[j].done
                              /\ import'[j].known = import[j].known /\ import'[j].index = import[j].index
  PROVE  ImportInv'
<1>1. /\ SeenAliases' = SeenAliases /\ SeenPersons' = SeenPersons
      /\ HeldHandles' = HeldHandles /\ SeenHandles' = SeenHandles
  BY WritesUnchanged
<1>2. Rooted' /\ NothingOpen' /\ KeysApart' /\ RowsApart'
  BY <1>1 DEF ImportInv, Rooted, NothingOpen, KeysApart, RowsApart
<1>3. Remembered' /\ OwnRemembered'
  BY <1>1 DEF ImportInv, Remembered, OwnRemembered
<1>4. DoneKept' /\ TokenKept'
  BY <1>1 DEF ImportInv, DoneKept, TokenKept
<1>5. QED  BY <1>2, <1>3, <1>4 DEF ImportInv

LEMMA NextPhaseKeeps ==
  ASSUME ImportInv, NEW i \in Importers, NextPhase(i)
  PROVE  ImportInv'
<1>1. /\ import[i].todo = {} /\ import[i].phase = "read"
      /\ UNCHANGED <<person, alias, observed, sourceKind, book, token, tx, merge, lost, runs, merges>>
  BY DEF NextPhase, tablesOfPersons, sources
<1>2. PICK again \in SUBSET import[i].done : import' = [import EXCEPT ![i].phase = "timelines", ![i].todo = again]
  BY DEF NextPhase
<1>3. ImportTables /\ MergeFits /\ Through
  BY DEF ImportInv
<1> DEFINE entry == [import[i] EXCEPT !.phase = "timelines", !.todo = again]
<1>4. import[i] \in ImportRows /\ import' = [import EXCEPT ![i] = entry]
  BY <1>2, <1>3 DEF ImportTables
<1>5. /\ entry \in ImportRows /\ entry.pc = import[i].pc /\ entry.done = import[i].done
      /\ entry.known = import[i].known /\ entry.index = import[i].index
  BY <1>4 DEF ImportRows
<1> HIDE DEF entry
<1>6. import' \in [Importers -> ImportRows] /\ import'[i] = entry /\ \A j \in Importers \ {i} : import'[j] = import[j]
  BY <1>3, <1>4, <1>5 DEF ImportTables
<1>7. ImportTables' /\ MergeFits'
  BY <1>1, <1>3, <1>6 DEF ImportTables, MergeFits
<1>8. Through'
  BY <1>1, <1>3, <1>5, <1>6 DEF Through
<1>9. QED  BY <1>1, <1>5, <1>6, <1>7, <1>8, NothingLearnt

LEMMA BookGrowsKeeps ==
  ASSUME ImportInv, NEW i \in Importers, BookGrows(i)
  PROVE  ImportInv'
<1>1. /\ sourceKind[i] \in Incremental /\ book' \in [Importers -> Books]
      /\ \A j \in Importers \ {i} : book'[j] = book[j]
      /\ UNCHANGED <<person, alias, observed, sourceKind, token, import, tx, merge, lost, runs, merges>>
  BY DEF BookGrows, tablesOfPersons, ImportInv, ImportTables
<1>2. ImportTables' /\ MergeFits'
  BY <1>1 DEF ImportInv, ImportTables, MergeFits
<1>3. Through'
  BY <1>1 DEF ImportInv, Through
<1>4. QED  BY <1>1, <1>2, <1>3, NothingLearnt

LEMMA MergeReadsKeeps ==
  ASSUME ImportInv, NEW s \in People, NEW d \in People, MergeReads(s, d)
  PROVE  ImportInv'
<1>1. /\ s # d /\ person[s] # None /\ merges < MaxMerges /\ merges' = merges + 1
      /\ merge' = [into |-> s, from |-> d, alias |-> {h \in Handles : alias[h] = d},
                   users |-> {u \in Users : <<u, d>> \in observed}]
      /\ UNCHANGED <<person, alias, observed, sourceKind, book, token, import, tx, lost, runs>>
  BY DEF MergeReads, tablesOfPersons, sources
<1>2. merge' \in MergeRows
  BY <1>1 DEF MergeRows
<1>3. merges' \in 0..MaxMerges
  BY <1>1, ImportAssumption DEF ImportInv, ImportTables
<1>4. ImportTables'
  BY <1>1, <1>2, <1>3 DEF ImportInv, ImportTables
<1>5. MergeFits' /\ Through'
  BY <1>1 DEF ImportInv, MergeFits, Through
<1>6. QED  BY <1>1, <1>4, <1>5, NothingLearnt

LEMMA OtherWaits ==
  ASSUME NEW rows \in [Importers -> ImportRows], NEW i \in Importers
  PROVE  LET woken == [j \in Importers |-> IF rows[j].waits = i THEN [rows[j] EXCEPT !.waits = None] ELSE rows[j]]
         IN /\ woken \in [Importers -> ImportRows]
            /\ \A j \in Importers :
                 /\ woken[j].pc = rows[j].pc /\ woken[j].phase = rows[j].phase /\ woken[j].todo = rows[j].todo
                 /\ woken[j].done = rows[j].done /\ woken[j].known = rows[j].known
                 /\ woken[j].index = rows[j].index
<1>1. ASSUME NEW entry \in ImportRows
      PROVE  LET other == [entry EXCEPT !.waits = None]
             IN /\ other \in ImportRows
                /\ other.pc = entry.pc /\ other.phase = entry.phase /\ other.todo = entry.todo
                /\ other.done = entry.done /\ other.known = entry.known /\ other.index = entry.index
  BY <1>1 DEF ImportRows
<1>2. QED  BY <1>1

LEMMA FailedRows ==
  ASSUME ImportTables, NEW i \in Importers
  PROVE  /\ FailedImport(i) \in [Importers -> ImportRows]
         /\ FailedImport(i)[i].pc = "failed" /\ FailedImport(i)[i].done = {}
         /\ FailedImport(i)[i].known = NoAlias /\ FailedImport(i)[i].index = {}
         /\ \A j \in Importers \ {i} : FailedImport(i)[j] = import[j]
<1> DEFINE entry == [pc |-> "failed", phase |-> "read", todo |-> {}, done |-> {}, since |-> 0,
                   known |-> NoAlias, index |-> {}, waits |-> None]
<1>1. import[i] \in ImportRows /\ import \in [Importers -> ImportRows]
  BY DEF ImportTables
<1>2. FailedImport(i)[i] = [import[i] EXCEPT !.pc = "failed", !.waits = None, !.todo = {}, !.done = {},
                                             !.since = 0, !.phase = "read", !.known = NoAlias, !.index = {}]
  BY <1>1 DEF FailedImport
<1>3. FailedImport(i)[i] = entry
  BY <1>1, <1>2 DEF ImportRows
<1>4. NoAlias \in AliasTables
  BY DEF NoAlias, AliasTables
<1>5. entry \in ImportRows
  BY <1>4 DEF ImportRows
<1>6. \A j \in Importers \ {i} : FailedImport(i)[j] = import[j]
  BY <1>1 DEF FailedImport
<1>7. FailedImport(i) \in [Importers -> ImportRows]
  <2>1. FailedImport(i) = [import EXCEPT ![i] = entry]
    BY <1>1, <1>2, <1>3 DEF FailedImport
  <2> HIDE DEF entry
  <2>2. QED  BY <1>1, <1>5, <2>1
<1>8. QED  BY <1>3, <1>6, <1>7

(* A transaction that is rolled back, and those that wait for it.          *)
LEMMA RolledBack ==
  ASSUME ImportInv, NEW i \in Importers, import' = Woken(i, FailedImport(i)), tx' = [tx EXCEPT ![i] = NoWrites],
         UNCHANGED <<person, alias, observed, sourceKind, book, token, merge, lost, runs, merges>>
  PROVE  ImportInv'
<1> USE ImportAssumption
<1>1. ImportTables /\ Rooted /\ NothingOpen /\ KeysApart /\ RowsApart /\ Remembered /\ OwnRemembered
  BY DEF ImportInv
<1>2. MergeFits /\ DoneKept /\ TokenKept /\ Through
  BY DEF ImportInv
<1> DEFINE failed == FailedImport(i)
<1>4. /\ failed \in [Importers -> ImportRows] /\ failed[i].pc = "failed" /\ failed[i].done = {}
      /\ failed[i].known = NoAlias /\ failed[i].index = {}
      /\ \A j \in Importers \ {i} : failed[j] = import[j]
  BY <1>1, FailedRows
<1> HIDE DEF failed
<1>5. import' = [j \in Importers |-> IF failed[j].waits = i THEN [failed[j] EXCEPT !.waits = None] ELSE failed[j]]
  BY DEF Woken, failed
<1>6. /\ import' \in [Importers -> ImportRows]
      /\ \A j \in Importers :
           /\ import'[j].pc = failed[j].pc /\ import'[j].phase = failed[j].phase /\ import'[j].todo = failed[j].todo
           /\ import'[j].done = failed[j].done /\ import'[j].known = failed[j].known
           /\ import'[j].index = failed[j].index
  BY <1>4, <1>5, OtherWaits
<1>7. /\ tx' \in [Importers -> WriteRows] /\ tx'[i] = NoWrites /\ \A j \in Importers \ {i} : tx'[j] = tx[j]
  BY <1>1, NoWritesRow DEF ImportTables
<1>8. ImportTables'
  BY <1>1, <1>6, <1>7 DEF ImportTables
<1>10. /\ SeenAliases'[i] = alias /\ SeenPersons'[i] = person /\ HeldHandles' = HeldHandles
       /\ \A h \in Handles : tx'[i].alias[h] = None
       /\ \A p \in People : tx'[i].person[p] = None
       /\ tx'[i].observed = {}
  <2>1. HeldHandles' = HeldHandles
    BY DEF HeldHandles
  <2>2. SeesCommitted'
    BY <1>8, NothingWritten, PTL
  <2>3. QED  BY <1>7, <2>1, <2>2 DEF SeesCommitted
<1>11. \A j \in Importers \ {i} : /\ SeenAliases'[j] = SeenAliases[j] /\ SeenPersons'[j] = SeenPersons[j]
                                  /\ SeenHandles'[j] = SeenHandles[j]
  BY <1>7 DEF SeenAliases, SeenPersons, SeenHandles
<1>12. Rooted' /\ NothingOpen' /\ KeysApart'
  BY SMTT(30), <1>1, <1>4, <1>6, <1>7, <1>10, <1>11 DEF Rooted, NothingOpen, KeysApart
<1>13. RowsApart'
  BY <1>1, <1>4, <1>6, <1>7, <1>10 DEF RowsApart
<1>14. Remembered' /\ OwnRemembered'
  BY SMTT(30), <1>1, <1>4, <1>6, <1>7, <1>10, <1>11 DEF Remembered, OwnRemembered, NoAlias
<1>15. MergeFits' /\ TokenKept'
  BY <1>2, <1>10 DEF MergeFits, TokenKept
<1>16. DoneKept'
  BY <1>2, <1>4, <1>6, <1>11 DEF DoneKept
<1>17. Through'
  BY <1>2, <1>4, <1>6 DEF Through
<1>18. QED  BY <1>8, <1>12, <1>13, <1>14, <1>15, <1>16, <1>17 DEF ImportInv

LEMMA FailImportKeeps ==
  ASSUME ImportInv, NEW i \in Importers, FailImport(i)
  PROVE  ImportInv'
BY RolledBack DEF FailImport, tablesOfPersons, sources

(* What an import sees is well formed, and is what its lookups read.       *)
LEMMA SeenTables ==
  ASSUME ImportInv, NEW i \in Importers
  PROVE  /\ SeenAliases[i] \in AliasTables /\ SeenPersons[i] \in PersonTables
         /\ Persons(i) = SeenPersons[i]
         /\ Aliases(i) = IF sourceKind[i] = "linkedin" THEN import[i].known ELSE SeenAliases[i]
         /\ Aliases(i) \in AliasTables
         /\ \A h \in Handles : SeenAliases[i][h] # None => SeenPersons[i][SeenAliases[i][h]] # None
<1>1. /\ person \in PersonTables /\ alias \in AliasTables
      /\ tx[i].person \in PersonTables /\ tx[i].alias \in AliasTables /\ import[i].known \in AliasTables
  BY DEF ImportInv, ImportTables, WriteRows, ImportRows
<1>2. SeenAliases[i] \in AliasTables /\ SeenPersons[i] \in PersonTables
  BY <1>1 DEF SeenAliases, SeenPersons, AliasTables, PersonTables
<1>3. Over(tx[i].person, person) = SeenPersons[i] /\ Over(tx[i].alias, alias) = SeenAliases[i]
  BY <1>1 DEF SeenAliases, SeenPersons, AliasTables, PersonTables, Over
<1>4. ASSUME NEW h \in Handles, SeenAliases[i][h] # None
      PROVE  SeenPersons[i][SeenAliases[i][h]] # None
  <2>1. CASE tx[i].alias[h] # None
    BY <2>1 DEF ImportInv, Rooted, SeenAliases
  <2>2. CASE tx[i].alias[h] = None
    <3>1. SeenAliases[i][h] = alias[h] /\ alias[h] \in People
      BY <1>1, <1>4, <2>2 DEF SeenAliases, AliasTables
    <3>2. person[alias[h]] # None
      BY <1>4, <3>1 DEF ImportInv, Rooted
    <3>3. SeenPersons[i][alias[h]] # None
      BY <3>1, <3>2 DEF SeenPersons
    <3>4. QED  BY <3>1, <3>3
  <2>3. QED  BY <2>1, <2>2
<1>5. QED  BY <1>1, <1>2, <1>3, <1>4 DEF Persons, Aliases

(* The person a contact is taken for, and the handles it gets.             *)
LEMMA ResolvedFits ==
  ASSUME ImportInv, NEW i \in Importers, NEW c \in import[i].todo,
         NEW p \in IF Matches(i, c) # {} THEN Matches(i, c) ELSE Newest,
         NEW new, new = ResolvedAliases(i, p, c), ~RefusedAlias(i, p, new)
  PROVE  /\ p \in People /\ (SeenPersons[i][p] # None \/ FreshRow(p))
         /\ new \in AliasTables
         /\ \A h \in Handles : new[h] # Aliases(i)[h] =>
               new[h] = p /\ Aliases(i)[h] = None /\ SeenAliases[i][h] = None
         /\ c.handles # <<>> => \E h \in Forms(c) \intersect Handles :
               SeenAliases[i][h] = p \/ (new[h] = p /\ new[h] # Aliases(i)[h])
<1> USE ImportAssumption
<1> DEFINE seen == Aliases(i)
           hits == FirstKnown(seen, c)
<1>1. /\ SeenAliases[i] \in AliasTables /\ SeenPersons[i] \in PersonTables
      /\ Persons(i) = SeenPersons[i] /\ seen \in AliasTables
      /\ sourceKind[i] = "linkedin" => seen = import[i].known
      /\ sourceKind[i] # "linkedin" => seen = SeenAliases[i]
      /\ \A h \in Handles : SeenAliases[i][h] # None => SeenPersons[i][SeenAliases[i][h]] # None
  BY SeenTables
<1>2. c \in Contacts
  BY DEF ImportInv, ImportTables, ImportRows
<1>3. c.name \in Names /\ c.handles \in Seq(Handles)
  BY <1>2 DEF Contacts
<1>4. ASSUME NEW h \in Handles, seen[h] # None, seen[h] = p
      PROVE  SeenPersons[i][p] # None /\ SeenAliases[i][h] = p
  <2>1. CASE sourceKind[i] = "linkedin"
    <3>1. p \in import[i].index /\ (SeenPersons[i][p] # None => SeenAliases[i][h] = p)
      BY <1>1, <1>4, <2>1 DEF ImportInv, Remembered
    <3>2. SeenPersons[i][p] # None
      BY <1>1, <3>1 DEF RefusedAlias
    <3>3. QED  BY <3>1, <3>2
  <2>2. CASE sourceKind[i] # "linkedin"
    BY <1>1, <1>4, <2>2
  <2>3. QED  BY <2>1, <2>2
<1>5. ASSUME hits # {}
      PROVE  \E h \in Forms(c) \intersect Handles : seen[h] = p /\ p # None
  <2>hit. PICK h \in hits : p = FindAlias(seen, h)
    BY <1>5 DEF Matches
  <2>handle. h \in Handles /\ FindAlias(seen, h) # None /\ \E k \in DOMAIN c.handles : c.handles[k] = h
    BY <2>hit DEF FirstKnown
  <2>forms. h \in Forms(c) /\ Normal[h] \in Forms(c) /\ Normal[h] \in Handles
    BY <2>handle DEF Forms
  <2>seen. seen[h] = p \/ seen[Normal[h]] = p
    BY <2>hit DEF FindAlias
  <2> QED BY <2>hit, <2>handle, <2>forms, <2>seen
<1>6. ASSUME hits = {}
      PROVE  p \in People /\ (SeenPersons[i][p] # None \/ FreshRow(p))
  <2>1. CASE Matches(i, c) # {}
    <3>1. p \in NamedSo(i, c)
      BY <1>6, <2>1 DEF Matches, OnlyNamed
    <3>2. p \in People /\ SeenPersons[i][p] = c.name
      BY <1>1, <3>1 DEF NamedSo
    <3>3. QED  BY <1>3, <3>2
  <2>2. CASE Matches(i, c) = {}
    BY <2>2 DEF Newest
  <2>3. QED  BY <2>1, <2>2
<1>7. p \in People /\ (SeenPersons[i][p] # None \/ FreshRow(p))
  <2>1. ASSUME hits # {}
        PROVE  p \in People /\ SeenPersons[i][p] # None
    <3>1. PICK h \in Handles : seen[h] = p /\ p # None
      BY <1>5, <2>1
    <3>2. p \in People
      BY <1>1, <3>1 DEF AliasTables
    <3>3. QED  BY <1>4, <3>1, <3>2
  <2>2. QED  BY <1>6, <2>1
<1>8. new = seen \/ new = EnsureAliases(p, seen, c)
  BY DEF ResolvedAliases
<1>9. new \in AliasTables
  <2>1. EnsureAliases(p, seen, c) \in AliasTables
    <3> HIDE DEF seen
    <3>1. QED  BY <1>1, <1>7 DEF EnsureAliases, AliasTables
  <2>2. QED  BY <1>1, <1>8, <2>1
<1>10. ASSUME NEW h \in Handles, new[h] # seen[h]
       PROVE  new[h] = p /\ seen[h] = None /\ SeenAliases[i][h] = None
  <2>1. AddsAlias(seen, c, h) /\ new[h] = p
    BY <1>8, <1>10 DEF EnsureAliases
  <2>2. seen[h] = None
    BY <2>1 DEF AddsAlias, FindAlias
  <2>3. alias[h] = None
    BY <1>10 DEF RefusedAlias
  <2>4. CASE sourceKind[i] = "linkedin"
    <3>1. tx[i].alias[h] = None
      BY <1>1, <2>2, <2>4 DEF ImportInv, OwnRemembered
    <3>2. QED  BY <2>1, <2>2, <2>3, <3>1 DEF SeenAliases
  <2>5. CASE sourceKind[i] # "linkedin"
    BY <1>1, <2>1, <2>2, <2>5
  <2>6. QED  BY <2>4, <2>5
<1>11. ASSUME c.handles # <<>>
       PROVE  \E h \in Forms(c) \intersect Handles : SeenAliases[i][h] = p \/ (new[h] = p /\ new[h] # seen[h])
  <2> DEFINE first == c.handles[1]
  <2>1. 1 \in DOMAIN c.handles /\ first \in Handles
    BY <1>3, <1>11
  <2>2. first \in Forms(c)
    BY <2>1 DEF Forms
  <2>3. CASE hits # {}
    BY <1>4, <1>5, <2>3
  <2>4. CASE hits = {}
    <3>1. FindAlias(seen, first) = None
      BY <2>1, <2>4 DEF FirstKnown
    <3>2. AddsAlias(seen, c, first)
      BY <2>1, <3>1 DEF AddsAlias
    <3>3. new = EnsureAliases(p, seen, c)
      BY <3>1 DEF ResolvedAliases
    <3>4. new[first] = p
      BY <2>1, <3>2, <3>3 DEF EnsureAliases
    <3>5. seen[first] = None
      BY <3>1 DEF FindAlias
    <3>6. p # None
      BY <1>7
    <3>7. QED  BY <2>1, <2>2, <3>4, <3>5, <3>6
  <2>5. QED  BY <2>3, <2>4
<1>12. QED  BY <1>7, <1>9, <1>10, <1>11

(* What a contact that is written leaves of the transaction.               *)
LEMMA ContactWritten ==
  ASSUME ImportInv, NEW i \in Importers, import[i].pc = "running", NEW c \in import[i].todo,
         NEW p \in IF Matches(i, c) # {} THEN Matches(i, c) ELSE Newest,
         NEW new, new = ResolvedAliases(i, p, c), ~RefusedAlias(i, p, new), TakenBy(i, new) = {},
         NEW name \in Renamed(i, Persons(i)[p], c), WriteContact(i, c, p, name, new),
         UNCHANGED <<person, alias, observed, sourceKind, book, token, merge, lost, runs, merges>>
  PROVE  ImportInv'
<1> USE ImportAssumption
<1>1. ImportTables /\ Rooted /\ NothingOpen /\ KeysApart /\ RowsApart /\ Remembered /\ OwnRemembered
  BY DEF ImportInv
<1>2. MergeFits /\ DoneKept /\ TokenKept /\ Through
  BY DEF ImportInv
<1> DEFINE seen == Aliases(i)
           said == <<Owner[i], p>>
<1>3. /\ SeenAliases[i] \in AliasTables /\ SeenPersons[i] \in PersonTables
      /\ Persons(i) = SeenPersons[i] /\ seen \in AliasTables
      /\ sourceKind[i] = "linkedin" => seen = import[i].known
      /\ \A h \in Handles : SeenAliases[i][h] # None => SeenPersons[i][SeenAliases[i][h]] # None
  BY SeenTables
<1>4. /\ p \in People /\ (SeenPersons[i][p] # None \/ FreshRow(p))
      /\ new \in AliasTables
      /\ \A h \in Handles : new[h] # seen[h] => new[h] = p /\ seen[h] = None /\ SeenAliases[i][h] = None
      /\ c.handles # <<>> => \E h \in Forms(c) \intersect Handles :
            SeenAliases[i][h] = p \/ (new[h] = p /\ new[h] # seen[h])
  BY ResolvedFits
<1>5. /\ p # None /\ \A h \in Handles : SeenAliases[i][h] = None => alias[h] = None /\ tx[i].alias[h] = None
  BY <1>4 DEF SeenAliases
<1>6. c \in Contacts /\ c.name \in Names /\ name \in Names /\ name # None
  <2>1. c \in Contacts
    BY <1>1 DEF ImportTables, ImportRows
  <2>2. c.name \in Names
    BY <2>1 DEF Contacts
  <2>3. Persons(i)[p] \in Names \union {None}
    BY <1>3, <1>4 DEF PersonTables
  <2>4. name \in Names
    BY <2>2, <2>3 DEF Renamed
  <2>5. QED  BY <2>1, <2>2, <2>4
<1>7. /\ tx[i] \in WriteRows /\ import[i] \in ImportRows
      /\ tx[i].person \in PersonTables /\ tx[i].alias \in AliasTables
  BY <1>1 DEF ImportTables, WriteRows
<1>8. \A h \in Handles : \A j \in Importers \ {i} : new[h] # None /\ seen[h] = None => tx[j].alias[h] = None
  BY DEF TakenBy
<1> DEFINE persons == NamesWritten(i, p, name)
           aliases == AliasesWritten(i, new)
           writes == [person |-> persons, alias |-> aliases, observed |-> tx[i].observed \union {said},
                      contacts |-> tx[i].contacts \union {c}]
           entry == [import[i] EXCEPT !.todo = @ \ {c}, !.done = @ \union {c}, !.since = @ + 1,
                                    !.known = IF sourceKind[i] = "linkedin" THEN new ELSE @,
                                    !.index = @ \union {p}]
<1>9. /\ persons \in PersonTables
      /\ \A q \in People \ {p} : persons[q] = tx[i].person[q]
      /\ persons[p] = IF name # SeenPersons[i][p] THEN name ELSE tx[i].person[p]
  BY <1>3, <1>4, <1>6, <1>7 DEF NamesWritten, PersonTables
<1>10. /\ aliases \in AliasTables
       /\ \A h \in Handles : \/ aliases[h] = tx[i].alias[h] /\ new[h] = seen[h]
                             \/ aliases[h] = p /\ new[h] = p /\ seen[h] = None /\ SeenAliases[i][h] = None
       /\ \A h \in Handles : new[h] # seen[h] => aliases[h] = p
  <2> HIDE DEF seen
  <2>1. aliases = [h \in Handles |-> IF new[h] # seen[h] THEN new[h] ELSE tx[i].alias[h]]
    BY DEF AliasesWritten, seen
  <2>2. QED  BY <1>4, <1>7, <2>1 DEF AliasTables
<1>11. tx' = [tx EXCEPT ![i] = writes] /\ import' = [import EXCEPT ![i] = entry]
  BY <1>1 DEF WriteContact, ImportTables
<1>12. /\ writes \in WriteRows /\ writes.person = persons /\ writes.alias = aliases
       /\ writes.observed = tx[i].observed \union {said}
  BY <1>4, <1>6, <1>7, <1>9, <1>10 DEF WriteRows
<1>13. /\ entry \in ImportRows /\ entry.pc = import[i].pc /\ entry.phase = import[i].phase
       /\ entry.todo = import[i].todo \ {c} /\ entry.done = import[i].done \union {c}
       /\ entry.known = (IF sourceKind[i] = "linkedin" THEN new ELSE import[i].known)
       /\ entry.index = import[i].index \union {p}
  <2> DEFINE known == IF sourceKind[i] = "linkedin" THEN new ELSE import[i].known
             since == import[i].since + 1
  <2>1. /\ known \in AliasTables /\ since \in Nat /\ import[i].todo \ {c} \in SUBSET Contacts
        /\ import[i].done \union {c} \in SUBSET Contacts /\ import[i].index \union {p} \in SUBSET People
    BY <1>4, <1>6, <1>7 DEF ImportRows
  <2>2. entry = [import[i] EXCEPT !.todo = @ \ {c}, !.done = @ \union {c}, !.since = since, !.known = known,
                                !.index = @ \union {p}]
    BY <1>7 DEF ImportRows
  <2>3. import[i] \in ImportRows
    BY <1>7
  <2> HIDE DEF known, since, entry
  <2>4. entry = [pc |-> import[i].pc, phase |-> import[i].phase, todo |-> import[i].todo \ {c},
               done |-> import[i].done \union {c}, since |-> since, known |-> known,
               index |-> import[i].index \union {p}, waits |-> import[i].waits]
    BY <2>2, <2>3 DEF ImportRows
  <2>5. QED  BY <2>1, <2>3, <2>4 DEF ImportRows, known
<1> HIDE DEF persons, aliases, writes, entry, seen, said
<1>14. /\ tx' \in [Importers -> WriteRows] /\ tx'[i] = writes /\ \A j \in Importers \ {i} : tx'[j] = tx[j]
       /\ import' \in [Importers -> ImportRows] /\ import'[i] = entry /\ \A j \in Importers \ {i} : import'[j] = import[j]
  BY <1>1, <1>11, <1>12, <1>13 DEF ImportTables
<1>15. ImportTables'
  BY <1>1, <1>14 DEF ImportTables
<1>16. \A j \in Importers \ {i} : /\ SeenAliases'[j] = SeenAliases[j] /\ SeenPersons'[j] = SeenPersons[j]
                                  /\ SeenHandles'[j] = SeenHandles[j]
  BY <1>14 DEF SeenAliases, SeenPersons, SeenHandles
<1>17. /\ \A q \in People \ {p} : SeenPersons'[i][q] = SeenPersons[i][q]
       /\ SeenPersons'[i][p] = name
  <2>1. \A q \in People : SeenPersons'[i][q] = IF persons[q] # None THEN persons[q] ELSE person[q]
    BY <1>12, <1>14 DEF SeenPersons
  <2>2. \A q \in People : SeenPersons[i][q] = IF tx[i].person[q] # None THEN tx[i].person[q] ELSE person[q]
    BY DEF SeenPersons
  <2>3. QED  BY <1>4, <1>6, <1>9, <2>1, <2>2
<1>18. /\ \A h \in Handles : SeenAliases[i][h] # None => SeenAliases'[i][h] = SeenAliases[i][h]
       /\ \A h \in Handles : new[h] # seen[h] => SeenAliases'[i][h] = p
       /\ \A h \in Handles : SeenAliases'[i][h] \in {SeenAliases[i][h], p}
  <2>1. \A h \in Handles : SeenAliases'[i][h] = IF aliases[h] # None THEN aliases[h] ELSE alias[h]
    BY <1>12, <1>14 DEF SeenAliases
  <2>2. \A h \in Handles : SeenAliases[i][h] = IF tx[i].alias[h] # None THEN tx[i].alias[h] ELSE alias[h]
    BY DEF SeenAliases
  <2>3. QED  BY <1>5, <1>10, <2>1, <2>2
<1>19. /\ HeldHandles' = HeldHandles /\ SeenHandles[i] \subseteq SeenHandles'[i]
       /\ \A h \in Handles : SeenAliases'[i][h] = p => h \in SeenHandles'[i]
  <2>1. HeldHandles' = HeldHandles
    BY DEF HeldHandles
  <2>2. tx'[i].observed = tx[i].observed \union {<<Owner[i], p>>}
    BY <1>12, <1>14 DEF said
  <2>3. SeenHandles[i] \subseteq SeenHandles'[i]
    BY <1>18, <2>2 DEF SeenHandles
  <2>4. \A h \in Handles : SeenAliases'[i][h] = p => h \in SeenHandles'[i]
    BY <1>5, <2>2 DEF SeenHandles
  <2>5. QED  BY <2>1, <2>3, <2>4
<1>20. Rooted'
  <2>1. ASSUME NEW q \in People, SeenPersons[i][q] # None
        PROVE  SeenPersons'[i][q] # None
    BY <1>6, <1>17, <2>1
  <2>2. \A h \in Handles : tx'[i].alias[h] # None => SeenPersons'[i][tx'[i].alias[h]] # None
    <3>1. ASSUME NEW h \in Handles, aliases[h] # None
          PROVE  SeenPersons'[i][aliases[h]] # None
      <4>1. CASE aliases[h] = p
        BY <1>6, <1>17, <4>1
      <4>2. CASE aliases[h] # p
        <5>1. aliases[h] = tx[i].alias[h]
          BY <1>10, <4>2
        <5>2. tx[i].alias[h] \in People /\ SeenPersons[i][tx[i].alias[h]] # None
          BY <1>1, <1>7, <3>1, <5>1 DEF Rooted, AliasTables
        <5>3. QED  BY <2>1, <5>1, <5>2
      <4>3. QED  BY <4>1, <4>2
    <3>2. QED  BY <1>12, <1>14, <3>1
  <2>3. \A o \in tx'[i].observed : SeenPersons'[i][o[2]] # None
    <3>1. \A o \in tx[i].observed : o[2] \in People /\ SeenPersons[i][o[2]] # None
      BY <1>1, <1>7 DEF Rooted, WriteRows
    <3>2. said[2] = p
      BY DEF said
    <3>3. QED  BY <1>6, <1>12, <1>14, <1>17, <2>1, <3>1, <3>2
  <2>4. QED  BY <1>1, <1>14, <1>16, <2>2, <2>3 DEF Rooted
<1>21. NothingOpen'
  BY <1>1, <1>13, <1>14 DEF NothingOpen
<1>22. KeysApart'
  <2>1. ASSUME NEW h \in Handles, aliases[h] # None
        PROVE  alias[h] = None /\ \A j \in Importers \ {i} : tx[j].alias[h] = None
    <3>1. CASE aliases[h] = tx[i].alias[h]
      BY <1>1, <2>1, <3>1 DEF KeysApart
    <3>2. CASE aliases[h] # tx[i].alias[h]
      BY <1>5, <1>8, <1>10, <3>2
    <3>3. QED  BY <3>1, <3>2
  <2>2. \A h \in Handles : tx'[i].alias[h] = aliases[h]
    BY <1>12, <1>14
  <2>3. QED  BY <1>1, <1>14, <2>1, <2>2 DEF KeysApart
<1>23. RowsApart'
  <2>1. ASSUME NEW q \in People, persons[q] # None
        PROVE  /\ <<Owner[i], q>> \in tx'[i].observed
               /\ person[q] = None => \A j \in Importers \ {i} : tx[j].person[q] = None /\ q \notin import[j].index
    <3>1. CASE tx[i].person[q] # None
      BY <1>1, <1>12, <1>14, <3>1 DEF RowsApart
    <3>2. CASE tx[i].person[q] = None
      <4>1. q = p
        BY <1>9, <2>1, <3>2
      <4>2. person[q] = None => FreshRow(p)
        BY <1>4, <3>2, <4>1 DEF SeenPersons
      <4>3. QED  BY <1>12, <1>14, <4>1, <4>2 DEF FreshRow, said
    <3>3. QED  BY <3>1, <3>2
  <2>2. ASSUME NEW j \in Importers \ {i}, NEW q \in People, tx[j].person[q] # None, person[q] = None
        PROVE  persons[q] = None /\ q \notin entry.index
    <3>1. tx[i].person[q] = None /\ q \notin import[i].index
      BY <1>1, <2>2 DEF RowsApart
    <3>2. q # p
      <4>1. SUFFICES ASSUME q = p  PROVE FALSE
        OBVIOUS
      <4>2. SeenPersons[i][p] = None
        BY <2>2, <3>1, <4>1 DEF SeenPersons
      <4>3. FreshRow(p)
        BY <1>4, <4>2
      <4>4. QED  BY <2>2, <4>1, <4>3 DEF FreshRow
    <3>3. QED  BY <1>9, <1>13, <3>1, <3>2
  <2>3. \A q \in People : tx'[i].person[q] = persons[q]
    BY <1>12, <1>14
  <2>4. QED  BY <1>1, <1>14, <2>1, <2>2, <2>3 DEF RowsApart
<1>24. Remembered'
  <2>1. ASSUME NEW h \in Handles, entry.known[h] # None
        PROVE  /\ entry.known[h] \in entry.index
               /\ SeenPersons'[i][entry.known[h]] # None => SeenAliases'[i][h] = entry.known[h]
    <3>1. CASE entry.known[h] = import[i].known[h]
      <4> DEFINE q == import[i].known[h]
      <4>1. /\ q \in import[i].index /\ q \in People
            /\ SeenPersons[i][q] # None => SeenAliases[i][h] = q
        BY <1>1, <1>7, <2>1, <3>1 DEF Remembered, ImportRows
      <4>2. SeenPersons'[i][q] # None => SeenPersons[i][q] # None
        <5>1. CASE q = p
          BY <1>4, <4>1, <5>1 DEF FreshRow
        <5>2. CASE q # p
          BY <1>17, <4>1, <5>2
        <5>3. QED  BY <5>1, <5>2
      <4>3. QED  BY <1>13, <1>18, <2>1, <3>1, <4>1, <4>2
    <3>2. CASE entry.known[h] # import[i].known[h]
      BY <1>3, <1>4, <1>13, <1>18, <3>2
    <3>3. QED  BY <3>1, <3>2
  <2>2. QED  BY <1>1, <1>14, <1>16, <2>1 DEF Remembered
<1>25. OwnRemembered'
  <2>1. ASSUME sourceKind[i] = "linkedin", NEW h \in Handles, aliases[h] # None
        PROVE  entry.known[h] = aliases[h]
    BY <1>1, <1>3, <1>10, <1>13, <2>1 DEF OwnRemembered
  <2>2. QED  BY <1>1, <1>12, <1>14, <2>1 DEF OwnRemembered
<1>26. MergeFits' /\ TokenKept'
  BY <1>2, <1>19 DEF MergeFits, TokenKept
<1>27. DoneKept'
  <2>1. ASSUME c.handles # <<>>  PROVE Forms(c) \intersect SeenHandles'[i] # {}
    <3>1. PICK h \in Forms(c) \intersect Handles : SeenAliases[i][h] = p \/ (new[h] = p /\ new[h] # seen[h])
      BY <1>4, <2>1
    <3>2. SeenAliases'[i][h] = p
      BY <1>5, <1>18, <3>1
    <3>3. QED  BY <1>19, <3>1, <3>2
  <2>2. \A b \in import[i].done : b.handles # <<>> => Forms(b) \intersect SeenHandles'[i] # {}
    BY <1>2, <1>19 DEF DoneKept
  <2>3. QED  BY <1>2, <1>13, <1>14, <1>16, <2>1, <2>2 DEF DoneKept
<1>28. Through'
  BY <1>2, <1>13, <1>14 DEF Through
<1>29. QED  BY <1>15, <1>20, <1>21, <1>22, <1>23, <1>24, <1>25, <1>26, <1>27, <1>28 DEF ImportInv

(* A commit, which fails those that wait for it.                           *)
LEMMA Committed ==
  ASSUME ImportInv, NEW i \in Importers, import[i].pc = "running", import[i].waits = None,
         NEW state \in ImportRows, state.done = import[i].done, state.known = import[i].known,
         state.index = import[i].index,
         sourceKind[i] \notin Incremental /\ state.phase # "capped" =>
           \A c \in book[i] : Accepts(sourceKind[i], c) =>
             /\ state.pc = "running" => c \in state.todo \union state.done
             /\ state.pc = "complete" => c \in state.done,
         CommitImport(i, state),
         token' \in [Importers -> SUBSET Contacts], token'[i] \subseteq token[i] \union import[i].done,
         \A j \in Importers \ {i} : token'[j] = token[j],
         UNCHANGED <<sourceKind, book, merge, lost, runs, merges>>
  PROVE  ImportInv'
<1> USE ImportAssumption
<1>1. ImportTables /\ Rooted /\ NothingOpen /\ KeysApart /\ RowsApart /\ Remembered /\ OwnRemembered
  BY DEF ImportInv
<1>2. MergeFits /\ DoneKept /\ TokenKept /\ Through
  BY DEF ImportInv
<1> DEFINE W == {j \in Importers : import[j].waits = i}
           others == (Importers \ W) \ {i}
<1>3. /\ i \notin W /\ i \in Importers
      /\ \A j \in Importers : j = i \/ j \in W \/ j \in others
      /\ W \subseteq Importers /\ others \subseteq Importers
  OBVIOUS
<1>4. /\ SeenAliases[i] \in AliasTables /\ SeenPersons[i] \in PersonTables
      /\ \A h \in Handles : SeenAliases[i][h] # None => SeenPersons[i][SeenAliases[i][h]] # None
  BY SeenTables
<1>5. alias' = SeenAliases[i] /\ person' = SeenPersons[i] /\ observed' = observed \union tx[i].observed
  <2>1. Over(tx[i].person, person) = SeenPersons[i] /\ Over(tx[i].alias, alias) = SeenAliases[i]
    BY <1>1 DEF ImportTables, SeenAliases, SeenPersons, AliasTables, PersonTables, Over
  <2>2. QED  BY <2>1 DEF CommitImport
<1>6. /\ tx' = [j \in Importers |-> IF j = i \/ import[j].waits = i THEN NoWrites ELSE tx[j]]
      /\ import' = [j \in Importers |-> IF import[j].waits = i THEN FailedImport(j)[j]
                                        ELSE IF j = i THEN state ELSE import[j]]
  BY DEF CommitImport
<1>7. \A j \in Importers :
        /\ FailedImport(j)[j] \in ImportRows /\ FailedImport(j)[j].pc = "failed" /\ FailedImport(j)[j].done = {}
        /\ FailedImport(j)[j].known = NoAlias /\ FailedImport(j)[j].index = {}
  BY <1>1, FailedRows
<1>8. /\ tx' \in [Importers -> WriteRows] /\ tx'[i] = NoWrites
      /\ \A j \in W : tx'[j] = NoWrites
      /\ \A j \in others : tx'[j] = tx[j]
  <2>1. \A j \in Importers : tx[j] \in WriteRows
    BY <1>1 DEF ImportTables
  <2>2. QED  BY <1>6, <2>1, NoWritesRow
<1>9. /\ import' \in [Importers -> ImportRows] /\ import'[i] = state
      /\ \A j \in W : /\ import'[j].pc = "failed" /\ import'[j].done = {}
                      /\ import'[j].known = NoAlias /\ import'[j].index = {}
      /\ \A j \in others : import'[j] = import[j]
  <2>1. \A j \in Importers : import[j] \in ImportRows
    BY <1>1 DEF ImportTables
  <2>2. QED  BY <1>6, <1>7, <2>1
<1> HIDE DEF W, others
<1>10. ImportTables'
  <2>1. observed' \in SUBSET (Users \X People)
    BY <1>1, <1>5 DEF ImportTables, WriteRows
  <2>2. QED  BY <1>1, <1>4, <1>5, <1>8, <1>9, <2>1 DEF ImportTables
<1>11. \A j \in Importers : j \notin others =>
         /\ \A h \in Handles : tx'[j].alias[h] = None
         /\ \A p \in People : tx'[j].person[p] = None
         /\ tx'[j].observed = {} /\ SeenHandles'[j] = HeldHandles'[j]
         /\ SeenAliases'[j] = alias' /\ SeenPersons'[j] = person'
  <2>1. SeesCommitted'
    BY <1>10, NothingWritten, PTL
  <2>2. QED  BY <1>3, <1>8, <2>1 DEF SeesCommitted
<1>12. \A h \in Handles : alias[h] # None => alias'[h] = alias[h] /\ tx[i].alias[h] = None
  BY <1>1, <1>5 DEF KeysApart, SeenAliases
<1>13. \A p \in People : person[p] # None => person'[p] # None
  BY <1>5 DEF SeenPersons
<1>14. HeldHandles'[i] = SeenHandles[i] /\ \A j \in Importers : HeldHandles[j] \subseteq HeldHandles'[j]
  <2>1. HeldHandles'[i] = SeenHandles[i]
    BY <1>5 DEF HeldHandles, SeenHandles
  <2>2. \A j \in Importers : HeldHandles[j] \subseteq HeldHandles'[j]
    BY <1>5, <1>12 DEF HeldHandles
  <2>3. QED  BY <2>1, <2>2
<1>15. ASSUME NEW j \in others
       PROVE  /\ \A h \in Handles : SeenAliases[j][h] # None => SeenAliases'[j][h] = SeenAliases[j][h]
              /\ \A p \in People : SeenPersons[j][p] # None => SeenPersons'[j][p] # None
              /\ \A p \in People : SeenPersons'[j][p] # None => SeenPersons[j][p] # None \/ tx[i].person[p] # None
              /\ SeenHandles[j] \subseteq SeenHandles'[j]
  <2>1. tx'[j] = tx[j] /\ j \in Importers
    BY <1>3, <1>8
  <2>2. \A h \in Handles : SeenAliases[j][h] # None => SeenAliases'[j][h] = SeenAliases[j][h]
    BY <1>12, <2>1 DEF SeenAliases
  <2>3. \A p \in People : SeenPersons[j][p] # None => SeenPersons'[j][p] # None
    BY <1>13, <2>1 DEF SeenPersons
  <2>4. \A p \in People : SeenPersons'[j][p] # None => SeenPersons[j][p] # None \/ tx[i].person[p] # None
    BY <1>5, <2>1 DEF SeenPersons
  <2>5. SeenHandles[j] \subseteq SeenHandles'[j]
    BY <1>5, <2>1, <2>2 DEF SeenHandles
  <2>6. QED  BY <2>2, <2>3, <2>4, <2>5
<1>16. Rooted'
  <2>1. \A h \in Handles : alias'[h] # None => person'[alias'[h]] # None
    BY <1>4, <1>5
  <2>2. \A o \in observed' : person'[o[2]] # None
    <3>1. \A o \in observed : o[2] \in People /\ person[o[2]] # None
      BY <1>1 DEF ImportTables, Rooted
    <3>2. QED  BY <1>1, <1>5, <1>13, <3>1 DEF Rooted
  <2>3. ASSUME NEW j \in others
        PROVE  /\ \A h \in Handles : tx[j].alias[h] # None => SeenPersons'[j][tx[j].alias[h]] # None
               /\ \A o \in tx[j].observed : SeenPersons'[j][o[2]] # None
    <3>1. tx[j] \in WriteRows /\ j \in Importers
      BY <1>1, <1>3 DEF ImportTables
    <3>2. \A h \in Handles : tx[j].alias[h] # None => tx[j].alias[h] \in People
      BY <3>1 DEF WriteRows, AliasTables
    <3>3. \A o \in tx[j].observed : o[2] \in People
      BY <3>1 DEF WriteRows
    <3>4. QED  BY <1>1, <1>15, <3>1, <3>2, <3>3 DEF Rooted
  <2>4. QED  BY <1>3, <1>8, <1>11, <2>1, <2>2, <2>3 DEF Rooted
<1>17. NothingOpen'
  BY <1>1, <1>3, <1>8, <1>9 DEF NothingOpen
<1>18. KeysApart'
  <2>1. ASSUME NEW j \in others, NEW h \in Handles, tx[j].alias[h] # None
        PROVE  alias'[h] = None /\ \A k \in Importers \ {j} : tx[k].alias[h] = None
    BY <1>1, <1>3, <1>5, <2>1 DEF KeysApart, SeenAliases, others
  <2>2. \A j \in Importers : \A h \in Handles : tx'[j].alias[h] \in {None, tx[j].alias[h]}
    BY <1>3, <1>8, <1>11
  <2>3. \A j \in Importers : \A h \in Handles : tx'[j].alias[h] # None => j \in others /\ tx[j].alias[h] # None
    BY <1>3, <1>8, <1>11
  <2>4. QED  BY <2>1, <2>2, <2>3 DEF KeysApart
<1>19. RowsApart'
  <2>apart. ASSUME NEW j \in others, NEW p \in People, tx[j].person[p] # None
            PROVE  /\ <<Owner[j], p>> \in tx[j].observed
                   /\ person'[p] = None => \A k \in Importers \ {j} : tx[k].person[p] = None /\ p \notin import[k].index
    BY <1>1, <1>3, <1>13, <2>apart DEF RowsApart
  <2>rows. /\ \A j \in Importers : \A p \in People : tx'[j].person[p] \in {None, tx[j].person[p]}
           /\ \A j \in Importers : import'[j].index \subseteq import[j].index
    BY <1>3, <1>8, <1>9, <1>11
  <2>others. \A j \in Importers : \A p \in People : tx'[j].person[p] # None => j \in others /\ tx[j].person[p] # None
    BY <1>3, <1>8, <1>11
  <2>observed. \A j \in others : tx'[j].observed = tx[j].observed
    BY <1>8
  <2> QED BY <2>apart, <2>rows, <2>others, <2>observed DEF RowsApart
<1>20. Remembered'
  <2>1. ASSUME NEW j \in others, NEW h \in Handles, import[j].known[h] # None
        PROVE  /\ import[j].known[h] \in import[j].index
               /\ SeenPersons'[j][import[j].known[h]] # None => SeenAliases'[j][h] = import[j].known[h]
    <3> DEFINE q == import[j].known[h]
    <3>1. import[j] \in ImportRows /\ j \in Importers /\ j # i
      BY <1>1, <1>3 DEF ImportTables, others
    <3>2. q \in People /\ q \in import[j].index /\ (SeenPersons[j][q] # None => SeenAliases[j][h] = q)
      BY <1>1, <2>1, <3>1 DEF Remembered, ImportRows
    <3>3. SeenPersons'[j][q] # None => SeenPersons[j][q] # None
      <4>1. SUFFICES ASSUME SeenPersons[j][q] = None, tx[i].person[q] # None  PROVE FALSE
        BY <1>15, <3>2
      <4>2. person[q] = None
        BY <3>1, <3>2, <4>1 DEF SeenPersons
      <4>3. QED  BY <1>1, <3>1, <3>2, <4>1, <4>2 DEF RowsApart
    <3>4. QED  BY <1>15, <2>1, <3>2, <3>3
  <2>2. \A h \in Handles : import[i].known[h] # None =>
          /\ import[i].known[h] \in import[i].index
          /\ SeenPersons[i][import[i].known[h]] # None => SeenAliases[i][h] = import[i].known[h]
    BY <1>1 DEF Remembered
  <2>3. ASSUME NEW h \in Handles, import'[i].known[h] # None
        PROVE  /\ import'[i].known[h] \in import'[i].index
               /\ SeenPersons'[i][import'[i].known[h]] # None => SeenAliases'[i][h] = import'[i].known[h]
    <3>1. SeenPersons'[i] = SeenPersons[i] /\ SeenAliases'[i] = SeenAliases[i]
      BY <1>3, <1>5, <1>11 DEF others
    <3>2. QED  BY <1>9, <2>2, <2>3, <3>1
  <2>4. QED  BY <1>3, <1>9, <2>1, <2>3 DEF Remembered, NoAlias
<1>21. OwnRemembered'
  <2>1. \A j \in Importers : \A h \in Handles : tx'[j].alias[h] # None => j \in others
    BY <1>3, <1>11
  <2>2. QED  BY <1>1, <1>3, <1>8, <1>9, <2>1 DEF OwnRemembered
<1>22. MergeFits'
  <2>1. merge # None => merge.into \in People /\ merge.from \in People /\ merge.alias \subseteq Handles
    BY <1>1 DEF ImportTables, MergeRows
  <2>2. QED  BY <1>2, <1>5, <1>12, <1>13, <2>1 DEF MergeFits
<1>23. DoneKept'
  <2>1. SeenHandles'[i] = SeenHandles[i]
    BY <1>3, <1>11, <1>14 DEF others
  <2>2. \A c \in import[i].done : c.handles # <<>> => Forms(c) \intersect SeenHandles'[i] # {}
    BY <1>2, <2>1 DEF DoneKept
  <2>3. \A j \in others : \A c \in import[j].done : c.handles # <<>> => Forms(c) \intersect SeenHandles'[j] # {}
    BY <1>2, <1>3, <1>15 DEF DoneKept
  <2>4. QED  BY <1>3, <1>9, <2>2, <2>3 DEF DoneKept
<1>24. TokenKept'
  <2>1. \A j \in Importers : \A c \in token[j] : c.handles # <<>> => Forms(c) \intersect HeldHandles'[j] # {}
    BY <1>2, <1>14 DEF TokenKept
  <2>2. \A c \in import[i].done : c.handles # <<>> => Forms(c) \intersect HeldHandles'[i] # {}
    BY <1>2, <1>14 DEF DoneKept
  <2>3. QED  BY <2>1, <2>2 DEF TokenKept
<1>25. Through'
  BY <1>2, <1>3, <1>9 DEF Through
<1>26. QED  BY <1>10, <1>16, <1>17, <1>18, <1>19, <1>20, <1>21, <1>22, <1>23, <1>24, <1>25 DEF ImportInv

LEMMA CommitProgressKeeps ==
  ASSUME ImportInv, NEW i \in Importers, CommitProgress(i)
  PROVE  ImportInv'
<1> USE ImportAssumption
<1> DEFINE left == IF Capped(i) THEN {} ELSE import[i].todo
           phase == IF Capped(i) THEN "capped" ELSE import[i].phase
           state == [import[i] EXCEPT !.since = 0, !.todo = left, !.phase = phase]
<1>1. /\ import[i] \in ImportRows /\ token \in [Importers -> SUBSET Contacts]
      /\ import[i].pc = "running" /\ import[i].waits = None
      /\ UNCHANGED <<sourceKind, book, token, merge, lost, runs, merges>>
  BY DEF CommitProgress, Importing, ImportInv, ImportTables, sources
<1>2. CommitImport(i, state)
  BY <1>1 DEF CommitProgress, ImportRows
<1>3. left \in {{}, import[i].todo} /\ phase \in {"capped", import[i].phase} /\ (phase # "capped" => left = import[i].todo)
  OBVIOUS
<1> HIDE DEF left, phase
<1>4. /\ state \in ImportRows /\ state.done = import[i].done /\ state.known = import[i].known
      /\ state.index = import[i].index /\ state.pc = "running" /\ state.todo = left /\ state.phase = phase
  BY <1>1, <1>3 DEF ImportRows
<1> HIDE DEF state
<1>5. sourceKind[i] \notin Incremental /\ state.phase # "capped" =>
        \A c \in book[i] : Accepts(sourceKind[i], c) =>
          /\ state.pc = "running" => c \in state.todo \union state.done
          /\ state.pc = "complete" => c \in state.done
  BY <1>1, <1>3, <1>4 DEF ImportInv, Through
<1>6. QED  BY <1>1, <1>2, <1>4, <1>5, Committed

LEMMA CompleteImportKeeps ==
  ASSUME ImportInv, NEW i \in Importers, CompleteImport(i)
  PROVE  ImportInv'
<1> USE ImportAssumption
<1> DEFINE state == [import[i] EXCEPT !.pc = "complete", !.since = 0]
<1>1. /\ import[i] \in ImportRows /\ token \in [Importers -> SUBSET Contacts] /\ import[i].todo = {}
      /\ import[i].pc = "running" /\ import[i].waits = None
      /\ CommitImport(i, state)
      /\ token' = IF sourceKind[i] \in Incremental /\ import[i].phase # "capped"
                  THEN [token EXCEPT ![i] = @ \union import[i].done] ELSE token
      /\ UNCHANGED <<sourceKind, book, merge, lost, runs, merges>>
  BY DEF CompleteImport, Importing, ImportInv, ImportTables, sources
<1>2. /\ state \in ImportRows /\ state.done = import[i].done /\ state.known = import[i].known
      /\ state.index = import[i].index /\ state.pc = "complete" /\ state.phase = import[i].phase
  BY <1>1 DEF ImportRows
<1> HIDE DEF state
<1>3. /\ token' \in [Importers -> SUBSET Contacts] /\ token'[i] \subseteq token[i] \union import[i].done
      /\ \A j \in Importers \ {i} : token'[j] = token[j]
  <2>1. import[i].done \in SUBSET Contacts
    BY <1>1 DEF ImportRows
  <2>2. QED  BY <1>1, <2>1
<1>4. sourceKind[i] \notin Incremental /\ state.phase # "capped" =>
        \A c \in book[i] : Accepts(sourceKind[i], c) =>
          /\ state.pc = "running" => c \in state.todo \union state.done
          /\ state.pc = "complete" => c \in state.done
  BY <1>1, <1>2 DEF ImportInv, Through
<1>5. QED  BY <1>1, <1>2, <1>3, <1>4, Committed

LEMMA IngestKeeps ==
  ASSUME ImportInv, NEW i \in Importers, NEW c \in import[i].todo, Ingest(i, c)
  PROVE  ImportInv'
<1> USE ImportAssumption
<1>1. /\ import[i].pc = "running" /\ import[i].waits = None
      /\ UNCHANGED <<person, alias, observed, sourceKind, book, token, merge, lost, runs, merges>>
  BY DEF Ingest, Importing, tablesOfPersons, sources
<1>2. PICK p \in IF Matches(i, c) # {} THEN Matches(i, c) ELSE Newest :
        LET new == ResolvedAliases(i, p, c) IN
        \/ RefusedAlias(i, p, new) /\ import' = Woken(i, FailedImport(i)) /\ tx' = [tx EXCEPT ![i] = NoWrites]
        \/ /\ tx' = tx
           /\ \E j \in TakenBy(i, new) : import' = [import EXCEPT ![i].waits = j]
        \/ /\ ~RefusedAlias(i, p, new) /\ TakenBy(i, new) = {}
           /\ \E name \in Renamed(i, Persons(i)[p], c) : WriteContact(i, c, p, name, new)
  BY DEF Ingest
<1> DEFINE new == ResolvedAliases(i, p, c)
<1>3. CASE RefusedAlias(i, p, new) /\ import' = Woken(i, FailedImport(i)) /\ tx' = [tx EXCEPT ![i] = NoWrites]
  BY <1>1, <1>3, RolledBack
<1>4. CASE tx' = tx /\ \E j \in TakenBy(i, new) : import' = [import EXCEPT ![i].waits = j]
  <2>1. PICK j \in Importers : import' = [import EXCEPT ![i].waits = j]
    BY <1>4 DEF TakenBy
  <2> DEFINE entry == [import[i] EXCEPT !.waits = j]
  <2>2. import \in [Importers -> ImportRows] /\ import[i] \in ImportRows
    BY DEF ImportInv, ImportTables
  <2>3. /\ entry \in ImportRows /\ entry.pc = import[i].pc /\ entry.done = import[i].done /\ entry.phase = import[i].phase
        /\ entry.todo = import[i].todo /\ entry.known = import[i].known /\ entry.index = import[i].index
    BY <2>2 DEF ImportRows
  <2>4. import' = [import EXCEPT ![i] = entry]
    BY <2>1, <2>2
  <2> HIDE DEF entry
  <2>5. /\ import' \in [Importers -> ImportRows] /\ import'[i] = entry
        /\ \A k \in Importers \ {i} : import'[k] = import[k]
    BY <2>2, <2>3, <2>4
  <2>6. ImportTables' /\ MergeFits'
    BY <1>1, <1>4, <2>5 DEF ImportInv, ImportTables, MergeFits
  <2>7. Through'
    BY <1>1, <2>3, <2>5 DEF ImportInv, Through
  <2>8. QED  BY <1>1, <1>4, <2>3, <2>5, <2>6, <2>7, NothingLearnt
<1>5. CASE /\ ~RefusedAlias(i, p, new) /\ TakenBy(i, new) = {}
           /\ \E name \in Renamed(i, Persons(i)[p], c) : WriteContact(i, c, p, name, new)
  <2>1. PICK name \in Renamed(i, Persons(i)[p], c) : WriteContact(i, c, p, name, new)
    BY <1>5
  <2> HIDE DEF new
  <2>2. QED  BY <1>1, <1>2, <1>5, <2>1, ContactWritten DEF new
<1>6. QED  BY <1>2, <1>3, <1>4, <1>5

(* Handles change hands in a merge, or are lost, and none is forgotten.    *)
LEMMA MergeEndsKeeps ==
  ASSUME ImportInv, MergeEnds
  PROVE  ImportInv'
<1> USE ImportAssumption
<1>1. ImportTables /\ Rooted /\ NothingOpen /\ KeysApart /\ RowsApart /\ Remembered /\ OwnRemembered
  BY DEF ImportInv
<1>2. MergeFits /\ DoneKept /\ TokenKept /\ Through
  BY DEF ImportInv
<1> DEFINE s == merge.into
           d == merge.from
           late == {h \in Handles : alias[h] = d} \ merge.alias
           lateUsers == {u \in Users : <<u, d>> \in observed} \ merge.users
<1>3. /\ merge # None /\ merge' = None
      /\ UNCHANGED <<sourceKind, book, token, import, tx, runs, merges>>
      /\ person' = [person EXCEPT ![d] = None]
      /\ alias' = [h \in Handles |-> IF h \in merge.alias THEN s ELSE IF h \in late THEN None ELSE alias[h]]
      /\ observed' = {o \in observed : o[2] # d} \union {<<u, s>> : u \in merge.users}
      /\ lost' = lost \union (Users \X late) \union (lateUsers \X merge.alias)
  BY DEF MergeEnds, sources, MovedObservations
<1>4. \A i \in Importers : /\ \A h \in Handles : tx[i].alias[h] # d
                           /\ \A o \in tx[i].observed : o[2] # d
  BY DEF MergeEnds
<1>5. /\ s \in People /\ d \in People /\ merge.alias \subseteq Handles /\ merge.users \subseteq Users
      /\ s # d /\ person[s] # None
      /\ \A h \in merge.alias : alias[h] = d
      /\ \A u \in merge.users : <<u, d>> \in observed
  BY <1>1, <1>2, <1>3 DEF ImportTables, MergeRows, MergeFits
<1>6. \A h \in late : h \in Handles /\ h \notin merge.alias /\ alias[h] = d
  OBVIOUS
<1>7. \A h \in Handles : alias[h] = d => h \in merge.alias \/ h \in late
  OBVIOUS
<1>8. \A i \in Importers : <<Owner[i], d>> \in observed => Owner[i] \in merge.users \/ Owner[i] \in lateUsers
  OBVIOUS
<1>9. late \subseteq Handles /\ lateUsers \subseteq Users
  OBVIOUS
<1> HIDE DEF s, d, late, lateUsers
<1>10. /\ \A h \in Handles : alias[h] # d => alias'[h] = alias[h]
       /\ \A h \in merge.alias : alias'[h] = s
       /\ \A h \in late : alias'[h] = None
       /\ \A h \in Handles : alias'[h] # d
  BY <1>3, <1>5, <1>6, <1>7
<1>11. /\ \A p \in People \ {d} : person'[p] = person[p]
       /\ person'[d] = None
  BY <1>1, <1>3, <1>5 DEF ImportTables, PersonTables
<1>12. /\ \A u \in Users : \A p \in People \ {d} : <<u, p>> \in observed => <<u, p>> \in observed'
       /\ \A u \in merge.users : <<u, s>> \in observed'
       /\ \A o \in observed' : o[2] # d /\ (o \in observed \/ o[2] = s)
  BY <1>3, <1>5
<1>13. /\ lost \subseteq lost'
       /\ \A u \in Users : \A h \in late : <<u, h>> \in lost'
       /\ \A u \in lateUsers : \A h \in merge.alias : <<u, h>> \in lost'
  BY <1>3
<1>14. ImportTables'
  <2>1. person' \in PersonTables
    BY <1>1, <1>3, <1>5 DEF ImportTables, PersonTables
  <2>2. alias' \in AliasTables
    BY <1>1, <1>3, <1>5 DEF ImportTables, AliasTables
  <2>3. observed' \in SUBSET (Users \X People)
    BY <1>1, <1>3, <1>5 DEF ImportTables
  <2>4. lost' \in SUBSET (Users \X Handles)
    BY <1>1, <1>3, <1>5, <1>9 DEF ImportTables
  <2>5. QED  BY <1>1, <1>3, <2>1, <2>2, <2>3, <2>4 DEF ImportTables
<1>15. ASSUME NEW i \in Importers
       PROVE  /\ \A h \in Handles : SeenAliases[i][h] # None /\ SeenAliases[i][h] # d =>
                   SeenAliases'[i][h] = SeenAliases[i][h]
              /\ \A h \in Handles : SeenAliases[i][h] = d => alias[h] = d /\ SeenAliases'[i][h] = alias'[h]
              /\ \A p \in People \ {d} : SeenPersons'[i][p] = SeenPersons[i][p]
              /\ SeenPersons'[i][d] = None /\ tx[i].person[d] = None
  <2>alias. \A h \in Handles : SeenAliases[i][h] = IF tx[i].alias[h] # None THEN tx[i].alias[h] ELSE alias[h]
    BY DEF SeenAliases
  <2>aliasNext. \A h \in Handles : SeenAliases'[i][h] = IF tx[i].alias[h] # None THEN tx[i].alias[h] ELSE alias'[h]
    BY <1>3 DEF SeenAliases
  <2>noRow. tx[i].person[d] = None
    <3>1. <<Owner[i], d>>[2] = d
      OBVIOUS
    <3>2. <<Owner[i], d>> \notin tx[i].observed
      BY <1>4, <3>1
    <3>3. QED  BY <1>1, <1>5, <3>2 DEF RowsApart
  <2>personNext. \A p \in People : SeenPersons'[i][p] = IF tx[i].person[p] # None THEN tx[i].person[p] ELSE person'[p]
    BY <1>3 DEF SeenPersons
  <2>person. \A p \in People : SeenPersons[i][p] = IF tx[i].person[p] # None THEN tx[i].person[p] ELSE person[p]
    BY DEF SeenPersons
  <2>apart. \A h \in Handles : tx[i].alias[h] # d
    BY <1>4
  <2> QED BY <1>5, <1>10, <1>11, <2>alias, <2>aliasNext, <2>noRow, <2>personNext, <2>person, <2>apart
<1>16. Owner \in [Importers -> Users] /\ \A i \in Importers : Owner[i] \in Users
  OBVIOUS
<1>17. ASSUME NEW i \in Importers
       PROVE  HeldHandles[i] \subseteq HeldHandles'[i] /\ SeenHandles[i] \subseteq SeenHandles'[i]
  <2>1. ASSUME NEW h \in Handles, alias[h] = d, <<Owner[i], d>> \in observed
        PROVE  \/ alias'[h] = s /\ <<Owner[i], s>> \in observed'
               \/ <<Owner[i], h>> \in lost'
    BY <1>7, <1>8, <1>10, <1>12, <1>13, <1>16, <2>1
  <2>2. HeldHandles[i] \subseteq HeldHandles'[i]
    <3>1. SUFFICES ASSUME NEW h \in Handles, alias[h] # None, <<Owner[i], alias[h]>> \in observed
                   PROVE  h \in HeldHandles'[i]
      BY <1>13 DEF HeldHandles
    <3>2. alias[h] \in People
      BY <1>1, <3>1 DEF ImportTables, AliasTables
    <3>3. CASE alias[h] = d
      <4>1. s # None
        BY <1>5
      <4>2. QED  BY <2>1, <3>1, <3>3, <4>1 DEF HeldHandles
    <3>4. CASE alias[h] # d
      <4>1. alias'[h] = alias[h] /\ <<Owner[i], alias[h]>> \in observed'
        BY <1>10, <1>12, <1>16, <3>1, <3>2, <3>4
      <4>2. QED  BY <3>1, <4>1 DEF HeldHandles
    <3>5. QED  BY <3>3, <3>4
  <2>3. SeenHandles[i] \subseteq SeenHandles'[i]
    <3>1. SUFFICES ASSUME NEW h \in Handles, SeenAliases[i][h] # None,
                          <<Owner[i], SeenAliases[i][h]>> \in observed \union tx[i].observed
                   PROVE  h \in SeenHandles'[i]
      BY <1>13 DEF SeenHandles
    <3>2. SeenAliases[i][h] \in People
      BY <1>1, <3>1, SeenTables DEF AliasTables
    <3>3. CASE SeenAliases[i][h] = d
      <4>1. alias[h] = d /\ SeenAliases'[i][h] = alias'[h]
        BY <1>15, <3>3
      <4>2. <<Owner[i], d>> \in observed
        <5>1. <<Owner[i], d>> \notin tx[i].observed
          BY <1>4
        <5>2. QED  BY <3>1, <3>3, <5>1
      <4>3. s # None
        BY <1>5
      <4>4. QED  BY <2>1, <4>1, <4>2, <4>3 DEF SeenHandles
    <3>4. CASE SeenAliases[i][h] # d
      <4>1. SeenAliases'[i][h] = SeenAliases[i][h]
        BY <1>15, <3>1, <3>4
      <4>2. <<Owner[i], SeenAliases[i][h]>> \in observed' \union tx'[i].observed
        BY <1>3, <1>12, <1>16, <3>1, <3>2, <3>4
      <4>3. QED  BY <3>1, <4>1, <4>2 DEF SeenHandles
    <3>5. QED  BY <3>3, <3>4
  <2>4. QED  BY <2>2, <2>3
<1>18. Rooted'
  <2>1. \A h \in Handles : alias'[h] # None => person'[alias'[h]] # None
    <3>1. \A h \in Handles : alias'[h] = alias[h] \/ alias'[h] = s \/ alias'[h] = None
      BY <1>3
    <3>2. \A h \in Handles : alias'[h] # None => alias'[h] \in People \ {d}
      BY <1>10, <1>14 DEF ImportTables, AliasTables
    <3>3. QED  BY <1>1, <1>5, <1>11, <3>1, <3>2 DEF Rooted
  <2>2. \A o \in observed' : person'[o[2]] # None
    <3>1. \A o \in observed' : o[2] \in People \ {d}
      BY <1>12, <1>14 DEF ImportTables
    <3>2. QED  BY <1>1, <1>5, <1>11, <1>12, <3>1 DEF Rooted
  <2>3. ASSUME NEW i \in Importers
        PROVE  /\ \A h \in Handles : tx[i].alias[h] # None => SeenPersons'[i][tx[i].alias[h]] # None
               /\ \A o \in tx[i].observed : SeenPersons'[i][o[2]] # None
    <3>1. tx[i] \in WriteRows
      BY <1>1 DEF ImportTables
    <3>2. \A h \in Handles : tx[i].alias[h] # None => tx[i].alias[h] \in People \ {d}
      BY <1>4, <3>1 DEF WriteRows, AliasTables
    <3>3. \A o \in tx[i].observed : o[2] \in People \ {d}
      BY <1>4, <3>1 DEF WriteRows
    <3>4. QED  BY <1>1, <1>15, <3>2, <3>3 DEF Rooted
  <2>4. QED  BY <1>3, <2>1, <2>2, <2>3 DEF Rooted
<1>19. NothingOpen' /\ OwnRemembered' /\ Through'
  BY <1>1, <1>2, <1>3 DEF NothingOpen, OwnRemembered, Through
<1>20. KeysApart'
  <2>1. \A h \in Handles : alias[h] = None => alias'[h] = None
    BY <1>5, <1>10
  <2>2. QED  BY <1>1, <1>3, <2>1 DEF KeysApart
<1>21. RowsApart'
  <2>1. \A i \in Importers : \A p \in People : tx[i].person[p] # None => p # d /\ person'[p] = person[p]
    BY <1>11, <1>15
  <2>2. QED  BY <1>1, <1>3, <2>1 DEF RowsApart
<1>22. Remembered'
  <2>1. ASSUME NEW i \in Importers, NEW h \in Handles, import[i].known[h] # None,
               SeenPersons'[i][import[i].known[h]] # None
        PROVE  SeenAliases'[i][h] = import[i].known[h]
    <3> DEFINE q == import[i].known[h]
    <3>1. q \in People
      BY <1>1, <2>1 DEF ImportTables, ImportRows, AliasTables
    <3>2. q # d /\ SeenPersons[i][q] # None
      BY <1>15, <2>1, <3>1
    <3>3. SeenAliases[i][h] = q
      BY <1>1, <2>1, <3>2 DEF Remembered
    <3>4. QED  BY <1>15, <2>1, <3>2, <3>3
  <2>2. QED  BY <1>1, <1>3, <2>1 DEF Remembered
<1>23. MergeFits'
  BY <1>3 DEF MergeFits
<1>24. DoneKept'
  BY <1>2, <1>3, <1>17 DEF DoneKept
<1>25. TokenKept'
  BY <1>2, <1>3, <1>17 DEF TokenKept
<1>26. QED  BY <1>14, <1>18, <1>19, <1>20, <1>21, <1>22, <1>23, <1>24, <1>25 DEF ImportInv

LEMMA ImportInvKept ==
  ImportInv /\ [ImportNext]_importVars => ImportInv'
<1> SUFFICES ASSUME ImportInv, [ImportNext]_importVars  PROVE ImportInv'
  OBVIOUS
<1>1. CASE UNCHANGED importVars
  <2>1. UNCHANGED <<person, alias, observed, sourceKind, book, token, import, tx, merge, lost, runs, merges>>
    BY <1>1 DEF importVars
  <2>2. ImportTables' /\ MergeFits' /\ Through'
    BY <2>1 DEF ImportInv, ImportTables, MergeFits, Through
  <2>3. QED  BY <2>1, <2>2, NothingLearnt
<1>2. ASSUME NEW i \in Importers,
             \/ StartImport(i) \/ \E c \in import[i].todo : Ingest(i, c)
             \/ CommitProgress(i) \/ NextPhase(i) \/ CompleteImport(i) \/ FailImport(i) \/ BookGrows(i)
      PROVE  ImportInv'
  BY <1>2, StartImportKeeps, IngestKeeps, CommitProgressKeeps, NextPhaseKeeps, CompleteImportKeeps,
     FailImportKeeps, BookGrowsKeeps
<1>3. ASSUME NEW s \in People, NEW d \in People, MergeReads(s, d)
      PROVE  ImportInv'
  BY <1>3, MergeReadsKeeps
<1>4. CASE MergeEnds
  BY <1>4, MergeEndsKeeps
<1>5. QED  BY <1>1, <1>2, <1>3, <1>4 DEF ImportNext

LEMMA ImportsAreInOrder ==
  ImportSpec => []ImportInv
<1>1. QED  BY ImportInvInit, ImportInvKept, PTL DEF ImportSpec

(* What the tables of persons hold while contacts are imported and persons *)
(* merged is well formed: an alias and an observation refer to a person    *)
(* that is there, and only an import that is under way has writes open.    *)
THEOREM ImportTypeCorrect ==
  ImportSpec => []ImportTypeOK
<1>1. ImportInv => ImportTypeOK
  BY DEF ImportInv, ImportTables, PersonTables, AliasTables, Rooted, NothingOpen, ImportTypeOK
<1>2. QED  BY <1>1, ImportsAreInOrder, PTL

(* No order of commits, failures, later runs and merges loses a contact: a *)
(* contact that a source need not list again is observed by its user under *)
(* a person that carries one of its handles, unless a merge took away what *)
(* was written while it ran, or the import of its kind passes it over.     *)
THEOREM ContactsAreKept ==
  ImportSpec => []ContactsKept
<1>1. ASSUME ImportInv, NEW i \in Importers, NEW c \in Taken(i, Promised(i)), c.handles # <<>>
      PROVE  KeptFor(Owner[i], c)
  <2>1. Forms(c) \intersect HeldHandles[i] # {}
    <3>1. CASE sourceKind[i] \in Incremental
      BY <1>1, <3>1 DEF Promised, Taken, ImportInv, TokenKept
    <3>2. CASE sourceKind[i] \notin Incremental
      <4>1. /\ import[i].pc = "complete" /\ import[i].phase # "capped" /\ c \in book[i]
            /\ Accepts(sourceKind[i], c)
        BY <1>1, <3>2 DEF Promised, Taken
      <4>2. c \in import[i].done
        BY <1>1, <3>2, <4>1 DEF ImportInv, Through
      <4>3. SeenHandles[i] = HeldHandles[i]
        BY <1>1, <4>1, NothingWritten DEF ImportInv, NothingOpen, SeesCommitted
      <4>4. QED  BY <1>1, <4>2, <4>3 DEF ImportInv, DoneKept
    <3>3. QED  BY <3>1, <3>2
  <2>2. PICK h \in Forms(c) : h \in HeldHandles[i]
    BY <2>1
  <2>3. QED  BY <2>2 DEF HeldHandles, KeptFor
<1>2. ImportInv => ContactsKept
  BY <1>1 DEF ContactsKept
<1>3. QED  BY <1>2, ImportsAreInOrder, PTL

-----------------------------------------------------------------------------
(* Profiles: the invariant.                                                *)

OwnClaims == [Keys -> ClaimRows \union {None}]
SessionRows ==
  [pc : {"closed", "open"}, what : {"edit", "upload", "enrich"}, by : Editors \union {None}, own : OwnClaims,
   ownAttrs : SUBSET Attrs, base : OwnClaims, seenAttrs : SUBSET Attrs, read : BOOLEAN, left : Seq(STRING),
   pin : Employers \union {None, "cleared"}, old : BOOLEAN]
ProfileTables ==
  /\ claims \in [Keys -> ClaimRows] /\ attrs \in SUBSET Attrs
  /\ row \in [org : Employers \union {None}, bio : 0..2, phones : SUBSET (1..2)]
  /\ session \in [Sessions -> SessionRows] /\ remaining \in [Editors -> Seq(STRING)]
  /\ now \in 0..MaxTime /\ begins \in 0..MaxBegins
  /\ pinned \in Employers \union {None} /\ raced \in BOOLEAN

Hand == {k \in Keys : k.src = "user_manual"}
Holds(c) == c.there /\ c.current /\ c.ended = NoDay
SameClaim(c, d) == c.there = d.there /\ c.seen = d.seen
Earlier(c) == c.there => c.seen < now

(* Claim k is the last that was made by hand.                              *)
Tops(cs, k) == cs[k].there /\ \A l \in Hand \ {k} : cs[l].there => cs[l].seen < cs[k].seen

(* A session that has read the claims has them all; what it has written is *)
(* older than now; it writes claims by hand only if it pins or clears, and *)
(* one that pins has written one claim, the last there is by hand.         *)
ReadsAll(s) == session[s].pc = "open" /\ session[s].read => session[s].base \in [Keys -> ClaimRows]
Passed(s) ==
  \A k \in Keys : /\ session[s].own[k] # None => Earlier(session[s].own[k])
                  /\ session[s].base[k] # None => Earlier(session[s].base[k])
HandsOff(s) ==
  /\ session[s].pin = None => \A k \in Hand : session[s].own[k] = None
  /\ session[s].pin # None => session[s].what # "enrich" /\ session[s].left = <<>>
PinnedBy(s, k) ==
  /\ session[s].read /\ session[s].own[k] # None /\ Holds(session[s].own[k])
  /\ session[s].base[k] = session[s].own[k] /\ Tops(session[s].base, k)
  /\ \A l \in Keys \ {k} : session[s].own[l] = None
Pins(s) ==
  session[s].pc = "open" /\ session[s].pin \in Employers =>
    \E u \in Editors : PinnedBy(s, ByHand(u, session[s].pin, FALSE))

(* No claim by hand has come or gone since a session read them, unless it  *)
(* is older than an edit.                                                  *)
Current(s) == session[s].pc = "open" /\ session[s].read /\ ~session[s].old
UpToDate(s) ==
  Current(s) => \A k \in Hand : session[s].own[k] = None => SameClaim(session[s].base[k], claims[k])
SessionFits(s) == ReadsAll(s) /\ Passed(s) /\ HandsOff(s) /\ Pins(s) /\ UpToDate(s)

(* The employer that was given by hand last stands while it is fresh, and  *)
(* does for whoever has read it.                                           *)
Stands(k) ==
  /\ Tops(claims, k)
  /\ Recent(claims[k]) =>
       /\ Holds(claims[k]) /\ row.org = pinned
       /\ \A s \in Sessions : Current(s) /\ session[s].pin = None => Holds(session[s].base[k])
Standing == pinned # None /\ ~raced => \E u \in Editors : Stands(ByHand(u, pinned, FALSE))

ProfileInv ==
  /\ ProfileTables /\ (\A k \in Keys : Earlier(claims[k])) /\ (\A s \in Sessions : SessionFits(s)) /\ Standing

-----------------------------------------------------------------------------
(* Profiles: the ranking.                                                  *)

LEMMA DaysPass ==
  ASSUME NEW m \in Nat, NEW n \in Nat, m <= n
  PROVE  Day(m) \in Nat /\ Day(m) <= Day(n)
BY DEF Day

LEMMA TiersRank ==
  ASSUME NEW k \in Keys, NEW c \in ClaimRows
  PROVE  /\ EffectiveTier(k, c) \in 0..6
         /\ EffectiveTier(k, c) = 0 <=> k \in Hand
<1>1. BaseTier(k.src) \in 0..6 /\ (BaseTier(k.src) = 0 <=> k.src = "user_manual")
  <2> DEFINE x == k.src
  <2>manual. CASE x = "user_manual"
    BY <2>manual DEF BaseTier
  <2>found. CASE x \in {"scrapingdog_linkedin", "gmail_signature"}
    BY <2>found DEF BaseTier
  <2>uploaded. CASE x \in {"linkedin_profile_upload", "linkedin_connections_upload"}
    BY <2>uploaded DEF BaseTier
  <2>exa. CASE x = "exa"
    BY <2>exa DEF BaseTier
  <2>contacts. CASE x \in {"google_contacts", "phone_contacts_upload"}
    BY <2>contacts DEF BaseTier
  <2>other. CASE x \notin {"user_manual", "scrapingdog_linkedin", "gmail_signature", "linkedin_profile_upload",
                           "linkedin_connections_upload", "exa", "google_contacts", "phone_contacts_upload"}
    BY <2>other DEF BaseTier
  <2> QED BY <2>manual, <2>found, <2>uploaded, <2>exa, <2>contacts, <2>other
<1>2. QED  BY <1>1 DEF EffectiveTier, Hand

(* The last claim by hand wins while it is current and fresh.              *)
LEMMA LastByHandWins ==
  ASSUME ProfileAssumption, NEW cs \in [Keys -> ClaimRows], NEW k \in Hand, Tops(cs, k), Holds(cs[k]), Recent(cs[k])
  PROVE  Winner(cs) = k.org
<1> DEFINE candidates == {l \in Keys : Authoritative(l, cs[l])}
<1>1. k \in Keys /\ cs[k] \in ClaimRows /\ EffectiveTier(k, cs[k]) = 0
  BY TiersRank DEF Hand
<1>2. k \in candidates
  BY <1>1 DEF Authoritative, ImpliesCurrent, Past, Holds, NoDay
<1>3. ASSUME NEW l \in candidates, l # k
      PROVE  Better(cs, k, l) /\ ~Better(cs, l, k)
  <2>1. l \in Keys /\ cs[l] \in ClaimRows /\ cs[l].there
    BY DEF Authoritative
  <2>2. EffectiveTier(l, cs[l]) \in 0..6 /\ (EffectiveTier(l, cs[l]) = 0 <=> l \in Hand)
    BY <2>1, TiersRank
  <2>3. l \in Hand => cs[l].seen < cs[k].seen
    BY <1>3, <2>1 DEF Tops
  <2>4. cs[l].seen \in Nat /\ cs[k].seen \in Nat
    BY <1>1, <2>1, ProfileAssumption DEF ClaimRows
  <2>5. QED  BY <1>1, <2>2, <2>3, <2>4 DEF Better
<1>4. ~Better(cs, k, k)
  <2>1. cs[k].seen \in Nat /\ Order[k] \in Nat
    BY <1>1, ProfileAssumption DEF ClaimRows
  <2>2. QED  BY <1>1, <2>1 DEF Better
<1>5. Best(cs) = {k}
  BY <1>2, <1>3, <1>4 DEF Best
<1>6. QED  BY <1>5 DEF Winner

LEMMA LeastNumber ==
  ASSUME NEW T \in SUBSET Nat, T # {}
  PROVE  \E n \in T : \A m \in T : n <= m
<1> DEFINE R == OpToRel(<, Nat)
<1>1. IsWellFoundedOn(R, Nat)
  BY NatLessThanWellFounded
<1>2. \A m, n \in Nat : <<m, n>> \in R <=> m < n
  BY DEF OpToRel
<1> HIDE DEF R
<1>3. PICK n \in T : \A m \in T : <<m, n>> \notin R
  BY <1>1, WFMin
<1>4. ASSUME NEW m \in T
      PROVE  n <= m
  <2>1. m \in Nat /\ n \in Nat
    OBVIOUS
  <2>2. ~(m < n)
    BY <1>2, <1>3, <2>1
  <2>3. QED  BY <2>1, <2>2
<1>5. QED  BY <1>4

Ranked(cs) == {k \in Keys : Authoritative(k, cs[k])}

LEMMA BestIsThere ==
  ASSUME ProfileAssumption, NEW cs \in [Keys -> ClaimRows], Ranked(cs) # {}
  PROVE  Best(cs) # {}
<1> DEFINE Tier(k) == EffectiveTier(k, cs[k])
<1>1. \A k \in Ranked(cs) : k \in Keys /\ Tier(k) \in Nat /\ cs[k].seen \in 0..MaxTime /\ Order[k] \in Nat
  <2>1. \A k \in Keys : cs[k] \in ClaimRows
    OBVIOUS
  <2>2. \A k \in Keys : EffectiveTier(k, cs[k]) \in 0..6
    BY <2>1, TiersRank
  <2>3. \A k \in Keys : cs[k].seen \in 0..MaxTime
    BY <2>1 DEF ClaimRows
  <2>4. QED  BY SMTT(30), <2>2, <2>3, ProfileAssumption DEF Ranked
<1> HIDE DEF Tier
<1> DEFINE tiers == {Tier(k) : k \in Ranked(cs)}
<1>10. tiers \in SUBSET Nat /\ tiers # {}
  BY <1>1
<1>2. PICK t \in tiers : \A x \in tiers : t <= x
  <2> HIDE DEF tiers
  <2>1. QED  BY <1>10, LeastNumber
<1> DEFINE first == {k \in Ranked(cs) : Tier(k) = t}
           ages == {MaxTime - cs[k].seen : k \in first}
<1>3. ages \in SUBSET Nat /\ ages # {}
  BY SMTT(30), <1>1, <1>2, ProfileAssumption
<1>4. PICK a \in ages : \A x \in ages : a <= x
  <2> HIDE DEF ages
  <2>1. QED  BY <1>3, LeastNumber
<1> DEFINE newest == {k \in first : MaxTime - cs[k].seen = a}
           places == {Order[k] : k \in newest}
<1>5. places \in SUBSET Nat /\ places # {}
  <2>1. newest # {}
    BY <1>4
  <2>2. newest \subseteq Ranked(cs)
    OBVIOUS
  <2> HIDE DEF newest
  <2>3. QED  BY SMTT(30), <1>1, <2>1, <2>2
<1>6. PICK o \in places : \A x \in places : o <= x
  <2> HIDE DEF places
  <2>1. QED  BY <1>5, LeastNumber
<1>7. PICK k \in newest : Order[k] = o
  BY <1>6
<1>8. ASSUME NEW l \in Ranked(cs)
      PROVE  ~Better(cs, l, k)
  <2>best. k \in Ranked(cs) /\ Tier(k) = t /\ MaxTime - cs[k].seen = a
    BY <1>7
  <2>tier. t <= Tier(l)
    BY <1>2, <1>8
  <2>age. Tier(l) = t => a <= MaxTime - cs[l].seen
    BY <1>4, <1>8
  <2>order. Tier(l) = t /\ MaxTime - cs[l].seen = a => Order[k] <= Order[l]
    BY <1>6, <1>7, <1>8
  <2> HIDE DEF first, newest, ages, places
  <2>numbers. /\ Tier(l) \in Nat /\ Tier(k) \in Nat /\ cs[l].seen \in Nat /\ cs[k].seen \in Nat
              /\ Order[k] \in Nat /\ Order[l] \in Nat /\ MaxTime \in Nat
    <3>1. MaxTime \in Nat
      BY ProfileAssumption
    <3>2. /\ Tier(l) \in Nat /\ cs[l].seen \in Nat /\ Order[l] \in Nat
          /\ Tier(k) \in Nat /\ cs[k].seen \in Nat /\ Order[k] \in Nat
      BY SMTT(30), <1>1, <1>8, <2>best
    <3>3. QED  BY <3>1, <3>2
  <2>better. Better(cs, l, k) <=> \/ Tier(l) < Tier(k)
                                  \/ Tier(l) = Tier(k) /\ cs[l].seen > cs[k].seen
                                  \/ Tier(l) = Tier(k) /\ cs[l].seen = cs[k].seen /\ Order[l] < Order[k]
    BY DEF Better, Tier
  <2> QED BY SMTT(30), <2>best, <2>tier, <2>age, <2>order, <2>numbers, <2>better
<1>9. k \in Best(cs)
  BY <1>7, <1>8 DEF Best, Ranked
<1>11. QED  BY <1>9

(* Of two claims one comes before the other.                               *)
LEMMA RankingIsTotal ==
  ASSUME ProfileAssumption, NEW cs \in [Keys -> ClaimRows], NEW k \in Keys, NEW l \in Keys, k # l, ~Better(cs, l, k)
  PROVE  Better(cs, k, l)
<1> DEFINE a == EffectiveTier(k, cs[k])
           b == EffectiveTier(l, cs[l])
<1>1. a \in Nat /\ b \in Nat
  <2>1. a \in 0..6 /\ b \in 0..6
    BY TiersRank
  <2>2. QED  BY <2>1
<1>2. cs[k].seen \in Nat /\ cs[l].seen \in Nat
  BY ProfileAssumption DEF ClaimRows
<1>3. Order[k] \in Nat /\ Order[l] \in Nat /\ Order[k] # Order[l]
  BY ProfileAssumption
<1> HIDE DEF a, b
<1>4. /\ Better(cs, l, k) <=> \/ b < a
                              \/ b = a /\ cs[l].seen > cs[k].seen
                              \/ b = a /\ cs[l].seen = cs[k].seen /\ Order[l] < Order[k]
      /\ Better(cs, k, l) <=> \/ a < b
                              \/ a = b /\ cs[k].seen > cs[l].seen
                              \/ a = b /\ cs[k].seen = cs[l].seen /\ Order[k] < Order[l]
  BY DEF Better, a, b
<1>5. QED  BY <1>1, <1>2, <1>3, <1>4

LEMMA WinnerIsRanked ==
  ASSUME ProfileAssumption, NEW cs \in [Keys -> ClaimRows]
  PROVE  /\ Winner(cs) \in Employers \union {None}
         /\ Winner(cs) = None => Ranked(cs) = {}
         /\ Winner(cs) # None => \E k \in Best(cs) : k.org = Winner(cs)
         /\ Best(cs) \subseteq Ranked(cs)
<1>1. Best(cs) \subseteq Ranked(cs) /\ Ranked(cs) \subseteq Keys
  BY DEF Best, Ranked
<1>2. CASE Best(cs) = {}
  BY <1>1, <1>2, BestIsThere DEF Winner
<1>3. CASE Best(cs) # {}
  <2>1. PICK k \in Best(cs) : Winner(cs) = k.org
    BY <1>3 DEF Winner
  <2>2. k.org \in Employers
    BY <1>1, <2>1 DEF Keys
  <2>3. QED  BY <1>1, <2>1, <2>2, ProfileAssumption
<1>4. QED  BY <1>2, <1>3

(* What a claim becomes when employer w has won.                           *)
LEMMA WhatBecomesOfAClaim ==
  ASSUME ProfileAssumption, now \in 0..MaxTime, NEW k \in Keys, NEW c \in ClaimRows, NEW w
  PROVE  LET d == NormalizedClaim(k, c, w) IN
         /\ d \in ClaimRows /\ SameClaim(d, c)
         /\ Recent(d) <=> Recent(c)
         /\ EffectiveTier(k, d) = EffectiveTier(k, c)
         /\ d # c /\ w = None => ~d.current /\ d.ended # NoDay
         /\ c.there /\ ~Past(c) /\ w # None /\ k.org = w => d.current /\ d.ended = NoDay
         /\ w # None /\ k.org # w /\ d # c => ~d.current /\ d.ended # NoDay
         /\ w # None /\ k.org # w /\ d.there => ~d.current
<1> DEFINE d == NormalizedClaim(k, c, w)
<1>1. /\ c.there \in BOOLEAN /\ c.current \in BOOLEAN /\ c.ended \in NoDay..Day(MaxTime) /\ c.seen \in 0..MaxTime
  BY DEF ClaimRows
<1>2. MaxTime \in Nat /\ now \in Nat /\ now <= MaxTime
  BY ProfileAssumption
<1>3. Today \in Nat /\ Today <= Day(MaxTime) /\ Day(MaxTime) \in Nat /\ NoDay = -1 /\ Today # NoDay
  <2>1. Today \in Nat /\ Today <= Day(MaxTime)
    BY <1>2, DaysPass DEF Today
  <2>2. Day(MaxTime) \in Nat
    BY SMTT(30), <1>2, DaysPass
  <2>3. QED  BY <2>1, <2>2 DEF NoDay
<1>4. Today \in NoDay..Day(MaxTime) /\ NoDay \in NoDay..Day(MaxTime)
  BY <1>3
<1>5. /\ Ended(c) \in ClaimRows /\ Ended(c).there = c.there /\ Ended(c).seen = c.seen
      /\ ~Ended(c).current /\ Ended(c).ended # NoDay
  BY <1>1, <1>3, <1>4 DEF Ended, ClaimRows
<1>6. LET e == [c EXCEPT !.current = FALSE] IN
      e \in ClaimRows /\ e.there = c.there /\ e.seen = c.seen /\ ~e.current /\ e.ended = c.ended
  BY <1>1 DEF ClaimRows
<1>7. LET e == [c EXCEPT !.current = TRUE, !.ended = NoDay] IN
      e \in ClaimRows /\ e.there = c.there /\ e.seen = c.seen /\ e.current /\ e.ended = NoDay
  BY <1>1, <1>4 DEF ClaimRows
<1>8. \/ d = c
      \/ c.there /\ Past(c) /\ d = [c EXCEPT !.current = FALSE]
      \/ ~Past(c) /\ d = Ended(c) /\ (w = None \/ k.org # w)
      \/ c.there /\ ~Past(c) /\ w # None /\ k.org = w /\ d = [c EXCEPT !.current = TRUE, !.ended = NoDay]
  BY DEF NormalizedClaim
<1>9. d \in ClaimRows /\ d.there = c.there /\ d.seen = c.seen
  BY <1>5, <1>6, <1>7, <1>8
<1>10. /\ Recent(d) <=> Recent(c)
       /\ EffectiveTier(k, d) = EffectiveTier(k, c)
  BY <1>9 DEF Recent, EffectiveTier
<1>11. Past(c) => c.ended # NoDay
  BY DEF Past
<1>12. c.there /\ ~Past(c) /\ w # None /\ k.org = w => d = [c EXCEPT !.current = TRUE, !.ended = NoDay]
  BY DEF NormalizedClaim
<1>13. w # None /\ k.org # w /\ d.there => ~d.current
  <2>1. SUFFICES ASSUME w # None, k.org # w, c.there  PROVE ~d.current
    BY <1>9
  <2>2. d = [c EXCEPT !.current = FALSE] \/ d = Ended(c) \/ (d = c /\ ~c.current)
    BY <2>1 DEF NormalizedClaim
  <2>3. QED  BY <1>5, <1>6, <2>2
<1> HIDE DEF d
<1>14. QED  BY <1>5, <1>6, <1>7, <1>8, <1>9, <1>10, <1>11, <1>12, <1>13 DEF d, SameClaim

LEMMA NormalizedRows ==
  ASSUME ProfileAssumption, now \in 0..MaxTime, NEW cs \in [Keys -> ClaimRows]
  PROVE  /\ Normalized(cs) \in [Keys -> ClaimRows]
         /\ \A k \in Keys : Normalized(cs)[k] = NormalizedClaim(k, cs[k], Winner(cs))
<1>1. \A k \in Keys : NormalizedClaim(k, cs[k], Winner(cs)) \in ClaimRows
  BY WhatBecomesOfAClaim
<1>2. QED  BY <1>1 DEF Normalized

(* Ranking once is enough.                                                 *)
LEMMA RankingOnceSettles ==
  ASSUME ProfileAssumption, now \in 0..MaxTime, NEW cs \in [Keys -> ClaimRows]
  PROVE  LET n == Normalized(cs)
             w == Winner(cs)
         IN (\A k \in Keys : n[k].there /\ n[k].current => k.org = w) /\ Winner(n) = w
<1> DEFINE n == Normalized(cs)
           w == Winner(cs)
<1>1. n \in [Keys -> ClaimRows] /\ \A k \in Keys : n[k] = NormalizedClaim(k, cs[k], w)
  BY NormalizedRows
<1>2. \A k \in Keys : cs[k] \in ClaimRows /\ n[k] \in ClaimRows
  BY <1>1
<1>3. \A k \in Keys : k.org \in Employers
  BY DEF Keys
<1> HIDE DEF n, w
<1>4. ASSUME NEW k \in Keys
      PROVE  /\ n[k].there = cs[k].there /\ n[k].seen = cs[k].seen
             /\ Recent(n[k]) <=> Recent(cs[k])
             /\ EffectiveTier(k, n[k]) = EffectiveTier(k, cs[k])
             /\ n[k] # cs[k] /\ w = None => ~n[k].current /\ n[k].ended # NoDay
             /\ cs[k].there /\ ~Past(cs[k]) /\ w # None /\ k.org = w => n[k].current /\ n[k].ended = NoDay
             /\ w # None /\ k.org # w /\ n[k] # cs[k] => ~n[k].current /\ n[k].ended # NoDay
             /\ w # None /\ k.org # w /\ n[k].there => ~n[k].current
  BY <1>1, <1>2, WhatBecomesOfAClaim DEF SameClaim
<1>5. ASSUME NEW k \in Ranked(n), w = None \/ k.org # w
      PROVE  k \in Ranked(cs)
  <2>1. k \in Keys /\ Authoritative(k, n[k])
    BY DEF Ranked
  <2>2. n[k].current \/ n[k].ended = NoDay
    BY <2>1 DEF Authoritative, ImpliesCurrent
  <2>3. n[k] = cs[k]
    BY <1>4, <1>5, <2>1, <2>2
  <2>4. QED  BY <2>1, <2>3 DEF Ranked
<1>6. CASE w = None
  <2>1. Ranked(cs) = {}
    BY <1>6, WinnerIsRanked DEF w
  <2>2. Ranked(n) = {}
    BY <1>5, <1>6, <2>1
  <2>3. Winner(n) = None
    <3>1. ~ \E k \in Best(n) : k.org = Winner(n)
      BY <1>1, <2>2, WinnerIsRanked
    <3>2. QED  BY <1>1, <3>1, WinnerIsRanked
  <2>4. ASSUME NEW k \in Keys, n[k].there, n[k].current
        PROVE  FALSE
    <3>1. n[k] = cs[k]
      BY <1>4, <1>6, <2>4
    <3>2. k \notin Ranked(cs)
      BY <2>1
    <3>3. ~Authoritative(k, cs[k])
      BY <3>2 DEF Ranked
    <3>4. EffectiveTier(k, cs[k]) \in 0..6
      BY <1>2, TiersRank
    <3>5. CASE Past(cs[k])
      <4>1. n[k] = [cs[k] EXCEPT !.current = FALSE]
        BY <1>1, <2>4, <3>1, <3>5 DEF NormalizedClaim
      <4>2. ~n[k].current
        BY <1>2, <4>1 DEF ClaimRows
      <4>3. QED  BY <2>4, <4>2
    <3>6. CASE ~Past(cs[k])
      <4>1. ~Recent(cs[k]) /\ EffectiveTier(k, cs[k]) < 4
        BY <2>4, <3>1, <3>3, <3>4, <3>6 DEF Authoritative, ImpliesCurrent
      <4>2. EffectiveTier(k, cs[k]) <= 3
        BY <3>4, <4>1
      <4>3. n[k] = Ended(cs[k])
        BY <1>1, <1>6, <2>4, <3>1, <3>6, <4>1, <4>2 DEF NormalizedClaim
      <4>4. ~Ended(cs[k]).current
        BY <1>2 DEF Ended, ClaimRows
      <4>5. QED  BY <2>4, <4>3, <4>4
    <3>7. QED  BY <3>5, <3>6
  <2>5. QED  BY <1>6, <2>3, <2>4 DEF n, w
<1>7. CASE w # None
  <2>1. PICK k \in Best(cs) : k.org = w
    BY <1>7, WinnerIsRanked DEF w
  <2>2. k \in Keys /\ Authoritative(k, cs[k]) /\ \A l \in Ranked(cs) : ~Better(cs, l, k)
    BY <2>1 DEF Best, Ranked
  <2>3. k \in Ranked(n)
    <3>1. cs[k].there /\ ~Past(cs[k]) /\ (Recent(cs[k]) \/ EffectiveTier(k, cs[k]) >= 4)
      BY <2>2 DEF Authoritative, ImpliesCurrent
    <3>2. n[k].current /\ n[k].ended = NoDay
      BY <1>4, <1>7, <2>1, <2>2, <3>1
    <3>3. Authoritative(k, n[k])
      BY <1>4, <2>2, <3>1, <3>2 DEF Authoritative, ImpliesCurrent, Past
    <3>4. QED  BY <2>2, <3>3 DEF Ranked
  <2>4. ASSUME NEW l \in Best(n)
        PROVE  l.org = w
    <3>1. l \in Ranked(n) /\ l \in Keys /\ ~Better(n, k, l)
      BY <2>3 DEF Best, Ranked
    <3>2. SUFFICES ASSUME l.org # w  PROVE FALSE
      OBVIOUS
    <3>3. l \in Ranked(cs) /\ l # k
      BY <1>5, <2>1, <3>1, <3>2
    <3>4. Better(cs, k, l)
      BY <2>2, <3>1, <3>3, RankingIsTotal
    <3>5. Better(n, k, l)
      BY <1>4, <2>2, <3>1, <3>4 DEF Better
    <3>6. QED  BY <3>1, <3>5
  <2>5. Winner(n) = w
    <3>1. Winner(n) # None
      BY <1>1, <2>3, WinnerIsRanked
    <3>2. QED  BY <1>1, <2>4, <3>1, WinnerIsRanked
  <2>6. \A l \in Keys : n[l].there /\ n[l].current => l.org = w
    BY <1>4, <1>7
  <2>7. QED  BY <2>5, <2>6 DEF n, w
<1>8. QED  BY <1>6, <1>7

-----------------------------------------------------------------------------
(* Profiles: the steps.                                                    *)

LEMMA RowTyped ==
  ASSUME ProfileAssumption, NEW cs \in [Keys -> ClaimRows], NEW as \in SUBSET Attrs, NEW phones \in SUBSET (1..2)
  PROVE  /\ Recomputed(cs, as, phones) \in [org : Employers \union {None}, bio : 0..2, phones : SUBSET (1..2)]
         /\ Recomputed(cs, as, phones).org = Winner(cs)
<1>1. \A kind \in AttrKinds : Values(as, kind) \subseteq 1..2
  <2>1. \A a \in as : a.value \in 1..2
    BY DEF Attrs
  <2>2. \A kind \in AttrKinds : ForKind(as, kind) \subseteq as
    BY DEF ForKind
  <2>3. QED  BY <2>1, <2>2 DEF Values
<1>2. PhoneAliases(as) \subseteq 1..2
  BY DEF PhoneAliases, Attrs
<1>3. Longest(Values(as, "bio")) \in 0..2
  <2> DEFINE vs == Values(as, "bio")
  <2>1. vs \subseteq 1..2
    BY <1>1 DEF AttrKinds
  <2> HIDE DEF vs
  <2>2. vs = {} \/ \E v \in vs : \A w \in vs : w <= v
    <3>1. CASE 2 \in vs
      BY <2>1, <3>1
    <3>2. CASE 2 \notin vs
      <4>1. \A v \in vs : v = 1
        BY <2>1, <3>2
      <4>2. QED  BY <4>1
    <3>3. QED  BY <3>1, <3>2
  <2>3. Longest(vs) = 0 \/ Longest(vs) \in vs
    BY <2>2 DEF Longest
  <2> DEFINE x == Longest(vs)
  <2>4. x = 0 \/ x \in 1..2
    BY <2>1, <2>3
  <2> HIDE DEF x
  <2>5. x \in 0..2
    BY <2>4
  <2>6. QED  BY <2>5 DEF vs, x
<1>4. Winner(cs) \in Employers \union {None}
  BY WinnerIsRanked
<1>5. phones \union PhoneAliases(as) \union Values(as, "phone") \in SUBSET (1..2)
  BY <1>1, <1>2 DEF AttrKinds
<1>6. QED  BY <1>3, <1>4, <1>5 DEF Recomputed

LEMMA NoSessionRow ==
  /\ NoSession \in SessionRows /\ NoSession.pc = "closed" /\ NoSession.pin = None /\ NoSession.read = FALSE
  /\ \A k \in Keys : NoSession.own[k] = None /\ NoSession.base[k] = None
<1>1. NotMine \in OwnClaims /\ \A k \in Keys : NotMine[k] = None
  BY DEF NotMine, OwnClaims
<1>2. <<>> \in Seq(STRING)
  OBVIOUS
<1> HIDE DEF NotMine
<1>3. QED  BY <1>1, <1>2 DEF NoSession, SessionRows

LEMMA ClosedFits ==
  ASSUME NEW s \in Sessions
  PROVE  session[s] = NoSession => SessionFits(s)
<1> SUFFICES ASSUME session[s] = NoSession  PROVE SessionFits(s)
  OBVIOUS
<1>1. /\ session[s].pc = "closed" /\ session[s].pin = None
      /\ \A k \in Keys : session[s].own[k] = None /\ session[s].base[k] = None
  BY NoSessionRow
<1>2. ReadsAll(s) /\ Pins(s) /\ UpToDate(s)
  BY <1>1 DEF ReadsAll, Pins, UpToDate, Current
<1>3. Passed(s)
  BY <1>1 DEF Passed
<1>4. HandsOff(s)
  BY <1>1 DEF HandsOff, Hand
<1>5. QED  BY <1>2, <1>3, <1>4 DEF SessionFits

LEMMA ProfileInvInit ==
  ProfileInit => ProfileInv
<1> USE ProfileAssumption
<1> SUFFICES ASSUME ProfileInit  PROVE ProfileInv
  OBVIOUS
<1>1. Absent \in ClaimRows /\ ~Absent.there
  <2>1. NoDay \in NoDay..Day(MaxTime)
    BY DaysPass DEF NoDay
  <2>2. QED  BY <2>1 DEF Absent, ClaimRows
<1>2. /\ claims \in [Keys -> ClaimRows] /\ (\A k \in Keys : ~claims[k].there) /\ attrs = {}
      /\ row = [org |-> None, bio |-> 0, phones |-> {}] /\ pinned = None /\ raced = FALSE /\ now = 0 /\ begins = 0
      /\ session = [s \in Sessions |-> NoSession] /\ remaining = [u \in Editors |-> <<>>]
  BY <1>1 DEF ProfileInit
<1>3. ProfileTables
  <2>1. row \in [org : Employers \union {None}, bio : 0..2, phones : SUBSET (1..2)]
    BY <1>2
  <2>2. session \in [Sessions -> SessionRows] /\ remaining \in [Editors -> Seq(STRING)]
    BY <1>2, NoSessionRow
  <2>3. now \in 0..MaxTime /\ begins \in 0..MaxBegins
    BY <1>2, ProfileAssumption
  <2>4. QED  BY <1>2, <2>1, <2>2, <2>3 DEF ProfileTables
<1>4. \A s \in Sessions : SessionFits(s)
  BY <1>2, ClosedFits
<1>5. (\A k \in Keys : Earlier(claims[k])) /\ Standing
  BY <1>2 DEF Earlier, Standing
<1>6. QED  BY <1>3, <1>4, <1>5 DEF ProfileInv

LEMMA TodayGrows ==
  ASSUME ProfileAssumption, now \in 0..MaxTime, now' \in 0..MaxTime, now <= now'
  PROVE  Today \in Nat /\ Today' \in Nat /\ Today <= Today'
<1>1. now \in Nat /\ now' \in Nat
  BY DEF ProfileAssumption
<1>2. Day(now) \in Nat /\ Day(now) <= Day(now')
  BY <1>1, DaysPass
<1>3. Day(now') \in Nat
  BY <1>1, DaysPass
<1>4. QED  BY <1>2, <1>3 DEF Today

(* Sessions of W move, and the tables are left as they are.                *)
LEMMA SessionsMove ==
  ASSUME ProfileAssumption, ProfileInv, NEW W \in SUBSET Sessions,
         session' \in [Sessions -> SessionRows], \A t \in Sessions \ W : session'[t] = session[t],
         UNCHANGED <<claims, attrs, row, pinned, raced>>,
         now' \in 0..MaxTime, now <= now', begins' \in 0..MaxBegins, remaining' \in [Editors -> Seq(STRING)],
         \A t \in W : SessionFits(t)',
         \A t \in W : Current(t)' /\ session'[t].pin = None =>
            \A k \in Hand : session'[t].base[k] = claims[k] \/
                            (Current(t) /\ session[t].pin = None /\ session'[t].base[k] = session[t].base[k])
  PROVE  ProfileInv'
<1>1. ProfileTables /\ (\A k \in Keys : Earlier(claims[k])) /\ (\A s \in Sessions : SessionFits(s)) /\ Standing
  BY DEF ProfileInv
<1>2. ProfileTables'
  BY <1>1 DEF ProfileTables
<1>3. now \in Nat /\ now' \in Nat /\ \A c \in ClaimRows : c.seen \in Nat
  BY <1>1 DEF ProfileTables, ProfileAssumption, ClaimRows
<1>4. \A k \in Keys : Earlier(claims[k])'
  <2>1. \A k \in Keys : claims[k] \in ClaimRows
    BY <1>1 DEF ProfileTables
  <2>2. QED  BY <1>1, <1>3, <2>1 DEF Earlier
<1>5. ASSUME NEW t \in Sessions \ W
      PROVE  SessionFits(t)' /\ (Current(t)' <=> Current(t))
  <2>1. session'[t] = session[t] /\ SessionFits(t) /\ session[t] \in SessionRows /\ claims' = claims
    BY <1>1 DEF ProfileTables
  <2> DEFINE me == session[t]
  <2>10. session'[t] = me /\ session[t] = me
    BY <2>1
  <2> HIDE DEF me
  <2>11. ReadsAll(t)' /\ HandsOff(t)'
    BY <2>1, <2>10 DEF SessionFits, ReadsAll, HandsOff
  <2>12. Current(t)' <=> Current(t)
    BY <2>10 DEF Current
  <2>13. UpToDate(t)'
    BY <2>1, <2>10, <2>12 DEF SessionFits, UpToDate
  <2>14. Pins(t)'
    <3>1. \A k : PinnedBy(t, k) => PinnedBy(t, k)'
      BY <2>10 DEF PinnedBy
    <3>2. QED  BY <2>1, <2>10, <3>1 DEF SessionFits, Pins
  <2>2. ReadsAll(t)' /\ HandsOff(t)' /\ Pins(t)' /\ UpToDate(t)' /\ (Current(t)' <=> Current(t))
    BY <2>11, <2>12, <2>13, <2>14
  <2>3. \A k \in Keys : session[t].own[k] \in ClaimRows \union {None} /\ session[t].base[k] \in ClaimRows \union {None}
    BY <2>1 DEF SessionRows, OwnClaims
  <2>4. Passed(t)'
    BY SMTT(30), <1>3, <2>1, <2>3 DEF SessionFits, Passed, Earlier
  <2>5. QED  BY <2>2, <2>4 DEF SessionFits
<1>6. \A t \in Sessions : SessionFits(t)'
  BY <1>5
<1>7. Standing'
  <2>1. SUFFICES ASSUME pinned # None, ~raced  PROVE \E u \in Editors : Stands(ByHand(u, pinned, FALSE))'
    BY DEF Standing
  <2>2. PICK u \in Editors : Stands(ByHand(u, pinned, FALSE))
    BY <1>1, <2>1 DEF Standing
  <2>20. PICK k \in Hand : k = ByHand(u, pinned, FALSE)
    BY <1>1, <2>1 DEF ByHand, Hand, Keys, ProfileTables, ProfileAssumption
  <2>3. k \in Hand /\ k \in Keys
    BY DEF Hand
  <2>4. Stands(k)
    BY <2>2, <2>20
  <2>5. Tops(claims, k)'
    BY <2>4 DEF Stands, Tops
  <2>6. Recent(claims[k])' => Recent(claims[k])
    <3>10. claims[k].seen \in Nat /\ claims'[k].seen = claims[k].seen
      BY <1>1, <1>3, <2>3 DEF ProfileTables
    <3>1. PICK n \in Nat : n = claims[k].seen /\ n = claims'[k].seen
      BY <3>10
    <3>2. Day(n) \in Nat /\ Recency \in Nat
      <4>1. n <= n
        BY <3>1
      <4>2. QED  BY <3>1, <4>1, DaysPass, ProfileAssumption
    <3>3. Today \in Nat /\ Today' \in Nat /\ Today <= Today'
      BY <1>1, TodayGrows DEF ProfileTables
    <3>4. Recent(claims[k]) <=> Today - Day(n) <= Recency
      BY <3>1 DEF Recent
    <3>5. Recent(claims[k])' <=> Today' - Day(n) <= Recency
      BY <3>1 DEF Recent
    <3>6. QED  BY SMTT(30), <3>2, <3>3, <3>4, <3>5
  <2>7. ASSUME Recent(claims[k]), NEW t \in Sessions, Current(t)', session'[t].pin = None
        PROVE  Holds(session'[t].base[k])
    <3>1. Holds(claims[k]) /\ \A x \in Sessions : Current(x) /\ session[x].pin = None => Holds(session[x].base[k])
      BY <2>4, <2>7 DEF Stands
    <3>2. QED  BY <1>5, <2>3, <2>7, <3>1
  <2>8. Stands(k)'
    <3>1. Recent(claims[k]) => Holds(claims[k]) /\ row.org = pinned
      BY <2>4 DEF Stands
    <3>2. Holds(claims[k])' <=> Holds(claims[k])
      BY DEF Holds
    <3>3. Recent(claims[k])' =>
            /\ Holds(claims[k])' /\ row'.org = pinned'
            /\ \A t \in Sessions : Current(t)' /\ session'[t].pin = None => Holds(session'[t].base[k])
      BY <2>6, <2>7, <3>1, <3>2
    <3>4. QED  BY <2>5, <3>3 DEF Stands, Holds
  <2>9. QED  BY <2>8, <2>20
<1>8. QED  BY <1>2, <1>4, <1>6, <1>7 DEF ProfileInv

(* A session opens, reads the claims and writes some of them.              *)
LEMMA OpenKeeps ==
  ASSUME ProfileAssumption, ProfileInv, NEW s \in Sessions, NEW u \in Editors, NEW what \in {"edit", "upload"},
         NEW own \in OwnClaims, NEW as \in SUBSET Attrs, NEW pin \in Employers \union {None, "cleared"},
         Open(s, u, what, own, as, pin),
         \A k \in Keys : own[k] # None /\ own[k].there => own[k].seen <= now,
         pin = None => \A k \in Hand : own[k] = None,
         pin \in Employers =>
            \E v \in Editors : own = [NotMine EXCEPT ![ByHand(v, pin, FALSE)] = Claim(TRUE)]
  PROVE  ProfileInv'
<1> DEFINE base == Reading(own)
           seen == attrs \union as
           me == [pc |-> "open", what |-> what, by |-> u, own |-> own, ownAttrs |-> as, base |-> base,
                  seenAttrs |-> seen, read |-> TRUE, left |-> <<>>, pin |-> pin, old |-> FALSE]
<1>1. ProfileTables /\ \A k \in Keys : Earlier(claims[k])
  BY DEF ProfileInv
<1>2. now < MaxTime /\ begins < MaxBegins /\ now' = now + 1 /\ begins' = begins + 1
  BY DEF Open
<1>3. UNCHANGED <<claims, attrs, row, pinned, raced, remaining>>
  BY DEF Open
<1>4. session'[s] = me /\ \A t \in Sessions \ {s} : session'[t] = session[t]
  <2>1. session' = [session EXCEPT ![s] = me]
    BY DEF Open
  <2> HIDE DEF me
  <2>2. QED  BY <1>1, <2>1 DEF ProfileTables
<1>5. /\ now \in Nat /\ MaxTime \in Nat /\ now' \in 0..MaxTime /\ begins' \in 0..MaxBegins
      /\ \A c \in ClaimRows : c.seen \in Nat
  BY <1>1, <1>2 DEF ProfileTables, ProfileAssumption, ClaimRows
<1>6. /\ \A k \in Keys : /\ claims[k] \in ClaimRows
                         /\ own[k] \in ClaimRows \union {None}
                         /\ base[k] = (IF own[k] # None THEN own[k] ELSE claims[k])
      /\ base \in [Keys -> ClaimRows]
  BY <1>1 DEF ProfileTables, OwnClaims, Reading
<1> HIDE DEF base
<1>7. me \in SessionRows
  <2>1. base \in OwnClaims
    BY <1>6 DEF OwnClaims
  <2>2. seen \in SUBSET Attrs /\ u \in Editors \union {None}
    BY <1>1 DEF ProfileTables
  <2>3. <<>> \in Seq(STRING)
    OBVIOUS
  <2> HIDE DEF seen
  <2>4. QED  BY <2>1, <2>2, <2>3 DEF SessionRows
<1>8. /\ me.pc = "open" /\ me.what = what /\ me.own = own /\ me.base = base /\ me.read = TRUE
      /\ me.left = <<>> /\ me.pin = pin /\ me.old = FALSE
  OBVIOUS
<1> HIDE DEF me
<1>9. session' \in [Sessions -> SessionRows]
  <2>1. session' = [session EXCEPT ![s] = session'[s]]
    BY <1>1 DEF Open, ProfileTables
  <2>2. QED  BY <1>1, <1>4, <1>7, <2>1 DEF ProfileTables
<1>10. ReadsAll(s)' /\ HandsOff(s)'
  BY <1>4, <1>6, <1>8 DEF ReadsAll, HandsOff
<1>11. Passed(s)'
  <2>1. ASSUME NEW k \in Keys, own[k] # None  PROVE own[k].there => own[k].seen < now'
    BY <1>2, <1>5, <1>6, <2>1
  <2>2. ASSUME NEW k \in Keys  PROVE base[k].there => base[k].seen < now'
    <3>1. CASE own[k] # None
      BY <1>6, <2>1, <3>1
    <3>2. CASE own[k] = None
      BY <1>1, <1>2, <1>5, <1>6, <3>2 DEF Earlier
    <3>3. QED  BY <3>1, <3>2
  <2>3. QED  BY <1>4, <1>8, <2>1, <2>2 DEF Passed, Earlier
<1>12. Pins(s)'
  <2>1. SUFFICES ASSUME pin \in Employers
                 PROVE  \E v \in Editors : PinnedBy(s, ByHand(v, session[s].pin, FALSE))'
    BY <1>4, <1>8 DEF Pins
  <2>2. PICK v \in Editors : own = [NotMine EXCEPT ![ByHand(v, pin, FALSE)] = Claim(TRUE)]
    BY <2>1
  <2>3. PICK k \in Hand : k = ByHand(v, pin, FALSE)
    BY <2>1, ProfileAssumption DEF ByHand, Hand, Keys
  <2>4. k \in Keys
    BY DEF Hand
  <2>5. own[k] = Claim(TRUE) /\ \A l \in Keys \ {k} : own[l] = None
    BY <2>2, <2>3, <2>4 DEF NotMine
  <2>6. Claim(TRUE).there /\ Claim(TRUE).current /\ Claim(TRUE).ended = NoDay /\ Claim(TRUE).seen = now
    BY DEF Claim
  <2>7. Claim(TRUE) \in ClaimRows
    <3>1. NoDay \in NoDay..Day(MaxTime)
      BY <1>5, DaysPass DEF NoDay
    <3>2. QED  BY <1>1, <3>1 DEF Claim, ClaimRows, ProfileTables
  <2>8. own[k] # None /\ base[k] = own[k]
    BY <1>6, <2>4, <2>5, <2>7, ProfileAssumption
  <2>9. Tops(base, k)
    <3>1. ASSUME NEW l \in Hand \ {k}, base[l].there  PROVE base[l].seen < base[k].seen
      <4>1. l \in Keys /\ base[l] = claims[l]
        BY <1>6, <2>5 DEF Hand
      <4>2. QED  BY <1>1, <2>5, <2>6, <2>8, <3>1, <4>1 DEF Earlier
    <3>2. QED  BY <2>5, <2>6, <2>8, <3>1 DEF Tops
  <2>10. Holds(own[k])
    BY <2>5, <2>6 DEF Holds
  <2>11. PinnedBy(s, k)'
    BY <1>4, <1>8, <2>5, <2>8, <2>9, <2>10 DEF PinnedBy, Tops, Holds
  <2>12. k = ByHand(v, session'[s].pin, FALSE)
    BY <1>4, <1>8, <2>3
  <2>13. QED  BY <2>11, <2>12
<1>13. UpToDate(s)'
  BY <1>3, <1>4, <1>6, <1>8 DEF UpToDate, SameClaim, Hand
<1>14. SessionFits(s)'
  BY <1>10, <1>11, <1>12, <1>13 DEF SessionFits
<1>15. session'[s].pin = None => \A k \in Hand : session'[s].base[k] = claims[k]
  BY <1>4, <1>6, <1>8 DEF Hand
<1>16. remaining' \in [Editors -> Seq(STRING)] /\ now <= now'
  <2>1. now <= now + 1
    BY <1>5
  <2>2. QED  BY <1>1, <1>2, <1>3, <2>1 DEF ProfileTables
<1>17. /\ {s} \in SUBSET Sessions /\ \A t \in Sessions \ {s} : session'[t] = session[t]
       /\ \A t \in {s} : SessionFits(t)'
       /\ \A t \in {s} : Current(t)' /\ session'[t].pin = None =>
             \A k \in Hand : session'[t].base[k] = claims[k] \/
                            (Current(t) /\ session[t].pin = None /\ session'[t].base[k] = session[t].base[k])
  BY <1>4, <1>14, <1>15
<1>18. QED  BY <1>3, <1>5, <1>9, <1>16, <1>17, SessionsMove

LEMMA ClaimsMade ==
  ASSUME ProfileAssumption, now \in 0..MaxTime
  PROVE  /\ NoDay \in NoDay..Day(MaxTime) /\ Absent \in ClaimRows /\ ~Absent.there /\ Absent # None
         /\ \A b \in BOOLEAN : /\ Claim(b) \in ClaimRows /\ Claim(b) # None
                               /\ Claim(b).seen = now /\ Claim(b).there /\ Claim(b).current = b /\ Claim(b).ended = NoDay
<1>1. NoDay \in NoDay..Day(MaxTime)
  BY DaysPass, ProfileAssumption DEF NoDay
<1>2. Absent \in ClaimRows /\ ~Absent.there
  <2>1. 0 \in 0..MaxTime
    BY ProfileAssumption
  <2>2. QED  BY <1>1, <2>1 DEF Absent, ClaimRows
<1>3. ASSUME NEW b \in BOOLEAN
      PROVE  /\ Claim(b) \in ClaimRows /\ Claim(b).seen = now /\ Claim(b).there
             /\ Claim(b).current = b /\ Claim(b).ended = NoDay
  BY <1>1 DEF Claim, ClaimRows
<1>4. QED  BY <1>1, <1>2, <1>3, ProfileAssumption

LEMMA UpdateKeeps ==
  ASSUME ProfileAssumption, ProfileInv, NEW s \in Sessions, NEW u \in Editors, UpdatePerson(s, u)
  PROVE  ProfileInv'
<1>1. ProfileTables /\ (\A k \in Keys : Earlier(claims[k])) /\ now \in 0..MaxTime /\ claims \in [Keys -> ClaimRows]
  BY DEF ProfileInv, ProfileTables
<1>2. NotMine \in OwnClaims /\ \A k \in Keys : NotMine[k] = None
  BY DEF NotMine, OwnClaims
<1>3. ASSUME NEW o \in Employers,
             Open(s, u, "edit", [NotMine EXCEPT ![ByHand(u, o, FALSE)] = Claim(TRUE)], {}, o)
      PROVE  ProfileInv'
  <2>1. PICK own : own = [NotMine EXCEPT ![ByHand(u, o, FALSE)] = Claim(TRUE)]
    OBVIOUS
  <2>2. Claim(TRUE) \in ClaimRows /\ Claim(TRUE).seen = now
    BY <1>1, ClaimsMade
  <2>3. own \in OwnClaims /\ \A k \in Keys : own[k] = Claim(TRUE) \/ own[k] = None
    BY <1>2, <2>1, <2>2 DEF OwnClaims
  <2>4. \A k \in Keys : own[k] # None /\ own[k].there => own[k].seen <= now
    <3>1. now \in Nat /\ now <= now
      BY <1>1, ProfileAssumption
    <3>2. QED  BY <2>2, <2>3, <3>1
  <2>5. o # None /\ \E v \in Editors : own = [NotMine EXCEPT ![ByHand(v, o, FALSE)] = Claim(TRUE)]
    BY <2>1, ProfileAssumption
  <2>6. Open(s, u, "edit", own, {}, o)
    BY <1>3, <2>1
  <2>7. QED  BY <2>3, <2>4, <2>5, <2>6, OpenKeeps
<1>4. ASSUME Open(s, u, "edit", [k \in Keys |-> IF claims[k].there /\ claims[k].current
                                                THEN [claims[k] EXCEPT !.current = FALSE] ELSE None], {}, "cleared")
      PROVE  ProfileInv'
  <2>1. PICK own : own = [k \in Keys |-> IF claims[k].there /\ claims[k].current
                                         THEN [claims[k] EXCEPT !.current = FALSE] ELSE None]
    OBVIOUS
  <2>2. ASSUME NEW c \in ClaimRows
        PROVE  LET d == [c EXCEPT !.current = FALSE] IN
               d \in ClaimRows /\ d.there = c.there /\ d.seen = c.seen /\ c.seen \in Nat
    <3>1. c.seen \in Nat
      BY ProfileAssumption DEF ClaimRows
    <3>2. QED  BY <3>1 DEF ClaimRows
  <2>3. ASSUME NEW k \in Keys
        PROVE  /\ own[k] \in ClaimRows \union {None}
               /\ own[k] # None /\ own[k].there => own[k].seen <= now
    <3>1. claims[k] \in ClaimRows /\ (claims[k].there => claims[k].seen < now)
      BY <1>1 DEF Earlier
    <3>2. now \in Nat
      BY <1>1
    <3>3. own[k] = None \/ (claims[k].there /\ own[k] = [claims[k] EXCEPT !.current = FALSE])
      BY <2>1
    <3>4. PICK d : d = [claims[k] EXCEPT !.current = FALSE]
      OBVIOUS
    <3>5. d \in ClaimRows /\ d.there = claims[k].there /\ d.seen = claims[k].seen /\ claims[k].seen \in Nat
      BY <2>2, <3>1, <3>4
    <3>6. own[k] = None \/ (claims[k].there /\ own[k] = d)
      BY <3>3, <3>4
    <3>7. QED  BY <3>1, <3>2, <3>5, <3>6
  <2>4. own \in OwnClaims
    BY <2>1, <2>3 DEF OwnClaims
  <2>5. Open(s, u, "edit", own, {}, "cleared")
    BY <1>4, <2>1
  <2>6. "cleared" # None /\ "cleared" \notin Employers
    BY ProfileAssumption
  <2>7. QED  BY <2>3, <2>4, <2>5, <2>6, OpenKeeps
<1>5. ASSUME NEW a \in Attrs, Open(s, u, "edit", NotMine, {a}, None)
      PROVE  ProfileInv'
  <2>1. None \notin Employers /\ {a} \in SUBSET Attrs /\ \A k \in Hand : NotMine[k] = None
    BY <1>2, ProfileAssumption DEF Hand
  <2>2. QED  BY <1>2, <1>5, <2>1, OpenKeeps
<1>6. QED  BY <1>3, <1>4, <1>5 DEF UpdatePerson

LEMMA SaveKeeps ==
  ASSUME ProfileAssumption, ProfileInv, NEW s \in Sessions, NEW u \in Editors, SaveExperience(s, u)
  PROVE  ProfileInv'
<1>1. ProfileTables /\ (\A k \in Keys : Earlier(claims[k])) /\ now \in 0..MaxTime /\ claims \in [Keys -> ClaimRows]
  BY DEF ProfileInv, ProfileTables
<1>2. NotMine \in OwnClaims /\ \A k \in Keys : NotMine[k] = None
  BY DEF NotMine, OwnClaims
<1>3. "cleared" # None /\ "cleared" \notin Employers /\ now \in Nat
  BY <1>1, ProfileAssumption
<1>4. PICK o \in Employers, current \in BOOLEAN, started \in BOOLEAN :
        LET k == ByHand(u, o, started) IN
        \/ Open(s, u, "edit", [NotMine EXCEPT ![k] = Claim(current)], {}, "cleared")
        \/ \E old \in {l \in Keys : l.src = "user_manual" /\ claims[l].there} :
             Open(s, u, "edit", [NotMine EXCEPT ![old] = Absent,
                                                ![k] = [Claim(current) EXCEPT !.seen = claims[old].seen]], {}, "cleared")
  BY DEF SaveExperience
<1> DEFINE k == ByHand(u, o, started)
<1>5. Claim(current) \in ClaimRows /\ Claim(current).seen = now /\ Absent \in ClaimRows /\ ~Absent.there
  BY <1>1, ClaimsMade
<1> HIDE DEF k
<1>6. ASSUME Open(s, u, "edit", [NotMine EXCEPT ![k] = Claim(current)], {}, "cleared")
      PROVE  ProfileInv'
  <2>1. PICK own : own = [NotMine EXCEPT ![k] = Claim(current)]
    OBVIOUS
  <2>2. own \in OwnClaims /\ \A l \in Keys : own[l] = Claim(current) \/ own[l] = None
    BY <1>2, <1>5, <2>1 DEF OwnClaims
  <2>3. \A l \in Keys : own[l] # None /\ own[l].there => own[l].seen <= now
    BY <1>3, <1>5, <2>2
  <2>4. Open(s, u, "edit", own, {}, "cleared")
    BY <1>6, <2>1
  <2>5. QED  BY <1>3, <2>2, <2>3, <2>4, OpenKeeps
<1>7. ASSUME NEW old \in Keys, claims[old].there,
             Open(s, u, "edit", [NotMine EXCEPT ![old] = Absent,
                                                ![k] = [Claim(current) EXCEPT !.seen = claims[old].seen]], {}, "cleared")
      PROVE  ProfileInv'
  <2>1. PICK new : new = [Claim(current) EXCEPT !.seen = claims[old].seen]
    OBVIOUS
  <2>2. PICK own : own = [NotMine EXCEPT ![old] = Absent, ![k] = new]
    OBVIOUS
  <2>3. claims[old] \in ClaimRows /\ claims[old].seen < now
    BY <1>1, <1>7 DEF Earlier
  <2>4. new \in ClaimRows /\ new.seen = claims[old].seen
    <3>1. claims[old].seen \in 0..MaxTime
      BY <2>3 DEF ClaimRows
    <3>2. QED  BY <1>5, <2>1, <3>1 DEF ClaimRows
  <2>5. new.seen \in Nat
    BY <2>4, ProfileAssumption DEF ClaimRows
  <2>6. own \in OwnClaims /\ \A l \in Keys : own[l] = new \/ own[l] = Absent \/ own[l] = None
    BY <1>2, <1>5, <2>2, <2>4 DEF OwnClaims
  <2>7. \A l \in Keys : own[l] # None /\ own[l].there => own[l].seen <= now
    BY SMTT(30), <1>3, <1>5, <2>3, <2>4, <2>5, <2>6
  <2>8. Open(s, u, "edit", own, {}, "cleared")
    BY <1>7, <2>1, <2>2
  <2>9. QED  BY <1>3, <2>6, <2>7, <2>8, OpenKeeps
<1>8. QED  BY <1>4, <1>6, <1>7 DEF k

LEMMA DeleteKeeps ==
  ASSUME ProfileAssumption, ProfileInv, NEW s \in Sessions, NEW u \in Editors, DeleteExperience(s, u)
  PROVE  ProfileInv'
<1>1. now \in 0..MaxTime
  BY DEF ProfileInv, ProfileTables
<1>2. NotMine \in OwnClaims /\ \A k \in Keys : NotMine[k] = None
  BY DEF NotMine, OwnClaims
<1>3. PICK k \in Keys : Open(s, u, "edit", [NotMine EXCEPT ![k] = Absent], {}, "cleared")
  BY DEF DeleteExperience
<1>4. PICK own : own = [NotMine EXCEPT ![k] = Absent]
  OBVIOUS
<1>5. Absent \in ClaimRows /\ ~Absent.there
  BY <1>1, ClaimsMade
<1>6. own \in OwnClaims /\ \A l \in Keys : own[l] = Absent \/ own[l] = None
  BY <1>2, <1>4, <1>5 DEF OwnClaims
<1>7. "cleared" # None /\ "cleared" \notin Employers /\ Open(s, u, "edit", own, {}, "cleared")
  BY <1>3, <1>4, ProfileAssumption
<1>8. QED  BY <1>5, <1>6, <1>7, OpenKeeps

LEMMA UploadKeeps ==
  ASSUME ProfileAssumption, ProfileInv, NEW s \in Sessions, NEW u \in Editors, UploadProfile(s, u)
  PROVE  ProfileInv'
<1>1. now \in 0..MaxTime
  BY DEF ProfileInv, ProfileTables
<1>2. PICK os \in SUBSET Employers, v \in 1..2 :
        Open(s, u, "upload", UploadedClaims(u, os), {[kind |-> "bio", value |-> v, manual |-> FALSE]}, None)
  BY DEF UploadProfile
<1>3. PICK own : own = UploadedClaims(u, os)
  OBVIOUS
<1>4. PICK as : as = {[kind |-> "bio", value |-> v, manual |-> FALSE]}
  OBVIOUS
<1>5. as \in SUBSET Attrs
  BY <1>4 DEF Attrs, AttrKinds
<1>6. Absent \in ClaimRows /\ ~Absent.there /\ Claim(TRUE) \in ClaimRows /\ Claim(TRUE).seen = now
  BY <1>1, ClaimsMade
<1>7. /\ \A k \in Keys : own[k] \in {Absent, Claim(TRUE), None} /\ (own[k] # None => k.src = "linkedin_profile_upload")
      /\ own \in [Keys -> {Absent, Claim(TRUE), None}]
  BY <1>3 DEF UploadedClaims
<1>8. own \in OwnClaims
  BY <1>6, <1>7 DEF OwnClaims
<1>9. \A k \in Keys : own[k] # None /\ own[k].there => own[k].seen <= now
  <2>1. now \in Nat /\ now <= now
    BY <1>1, ProfileAssumption
  <2>2. QED  BY <1>6, <1>7, <2>1
<1>10. \A k \in Hand : own[k] = None
  BY <1>7 DEF Hand
<1>11. None \notin Employers /\ Open(s, u, "upload", own, as, None)
  BY <1>2, <1>3, <1>4, ProfileAssumption
<1>12. QED  BY <1>5, <1>8, <1>9, <1>10, <1>11, OpenKeeps

LEMMA FieldsFit ==
  ASSUME NEW r \in SessionRows
  PROVE  /\ [r EXCEPT !.pc = "open"] \in SessionRows
         /\ [r EXCEPT !.what = "enrich"] \in SessionRows
         /\ \A u \in Editors : [r EXCEPT !.by = u] \in SessionRows
         /\ \A left \in Seq(STRING) : [r EXCEPT !.left = left] \in SessionRows
         /\ \A own \in OwnClaims : [r EXCEPT !.own = own] \in SessionRows
         /\ \A as \in SUBSET Attrs : [r EXCEPT !.ownAttrs = as] \in SessionRows
         /\ [r EXCEPT !.read = TRUE] \in SessionRows
         /\ \A base \in OwnClaims : [r EXCEPT !.base = base] \in SessionRows
         /\ \A as \in SUBSET Attrs : [r EXCEPT !.seenAttrs = as] \in SessionRows
         /\ [r EXCEPT !.old = TRUE] \in SessionRows
<1>1. [r EXCEPT !.pc = "open"] \in SessionRows
  BY DEF SessionRows
<1>2. [r EXCEPT !.what = "enrich"] \in SessionRows
  BY DEF SessionRows
<1>3. \A u \in Editors : [r EXCEPT !.by = u] \in SessionRows
  BY DEF SessionRows
<1>4. \A left \in Seq(STRING) : [r EXCEPT !.left = left] \in SessionRows
  BY DEF SessionRows
<1>5. \A own \in OwnClaims : [r EXCEPT !.own = own] \in SessionRows
  BY DEF SessionRows
<1>6. \A as \in SUBSET Attrs : [r EXCEPT !.ownAttrs = as] \in SessionRows
  BY DEF SessionRows
<1>7. [r EXCEPT !.read = TRUE] \in SessionRows
  BY DEF SessionRows
<1>8. \A base \in OwnClaims : [r EXCEPT !.base = base] \in SessionRows
  BY DEF SessionRows
<1>9. \A as \in SUBSET Attrs : [r EXCEPT !.seenAttrs = as] \in SessionRows
  BY DEF SessionRows
<1>10. [r EXCEPT !.old = TRUE] \in SessionRows
  BY DEF SessionRows
<1>11. QED  BY <1>1, <1>2, <1>3, <1>4, <1>5, <1>6, <1>7, <1>8, <1>9, <1>10

LEMMA ClosesFits ==
  ASSUME NEW s \in Sessions, session'[s] = NoSession
  PROVE  SessionFits(s)' /\ ~Current(s)'
<1>1. /\ session'[s].pc = "closed" /\ session'[s].pin = None
      /\ \A k \in Keys : session'[s].own[k] = None /\ session'[s].base[k] = None
  BY NoSessionRow
<1>2. ~Current(s)'
  BY <1>1 DEF Current
<1>3. ReadsAll(s)' /\ Pins(s)' /\ UpToDate(s)'
  BY <1>1, <1>2 DEF ReadsAll, Pins, UpToDate
<1>4. Passed(s)'
  BY <1>1 DEF Passed
<1>5. HandsOff(s)'
  BY <1>1 DEF HandsOff, Hand
<1>6. QED  BY <1>2, <1>3, <1>4, <1>5 DEF SessionFits

LEMMA TickKeeps ==
  ASSUME ProfileAssumption, ProfileInv, Tick
  PROVE  ProfileInv'
<1>1. now' \in 0..MaxTime /\ now <= now'
  <2>1. now \in Nat /\ now < MaxTime /\ now' = now + 1 /\ MaxTime \in Nat
    BY ProfileAssumption DEF ProfileInv, ProfileTables, Tick
  <2>2. QED  BY <2>1
<1>2. /\ UNCHANGED <<claims, attrs, row, pinned, raced>> /\ session' \in [Sessions -> SessionRows]
      /\ begins' \in 0..MaxBegins /\ remaining' \in [Editors -> Seq(STRING)]
      /\ \A t \in Sessions \ {} : session'[t] = session[t]
  BY DEF ProfileInv, ProfileTables, Tick
<1>3. {} \in SUBSET Sessions
  OBVIOUS
<1>4. QED  BY <1>1, <1>2, <1>3, SessionsMove

LEMMA BeginKeeps ==
  ASSUME ProfileAssumption, ProfileInv, NEW s \in Sessions, NEW u \in Editors, BeginEnrichment(s, u)
  PROVE  ProfileInv'
<1>1. ProfileTables
  BY DEF ProfileInv
<1>2. PICK left \in Seq(STRING) : left = Left(u)
  BY <1>1, ProfileAssumption DEF ProfileTables, Left
<1>3. PICK r : r = [NoSession EXCEPT !.pc = "open", !.what = "enrich", !.by = u, !.left = left]
  OBVIOUS
<1>4. r \in SessionRows
  <2>1. PICK r1 \in SessionRows : r1 = [NoSession EXCEPT !.pc = "open"]
    BY NoSessionRow, FieldsFit
  <2>2. PICK r2 \in SessionRows : r2 = [r1 EXCEPT !.what = "enrich"]
    BY FieldsFit
  <2>3. PICK r3 \in SessionRows : r3 = [r2 EXCEPT !.by = u]
    BY FieldsFit
  <2>4. r = [r3 EXCEPT !.left = left]
    BY <1>3, <2>1, <2>2, <2>3
  <2>5. QED  BY <2>4, FieldsFit
<1>5. r.pin = None /\ r.read = FALSE /\ \A k \in Keys : r.own[k] = None /\ r.base[k] = None
  BY <1>3 DEF NoSession, NotMine
<1>6. session' = [session EXCEPT ![s] = r]
  BY <1>2, <1>3 DEF BeginEnrichment
<1>7. session' \in [Sessions -> SessionRows] /\ session'[s] = r /\ \A t \in Sessions \ {s} : session'[t] = session[t]
  BY <1>1, <1>4, <1>6 DEF ProfileTables
<1>8. ~Current(s)'
  BY <1>5, <1>7 DEF Current
<1>9. SessionFits(s)'
  <2>reads. ReadsAll(s)' /\ UpToDate(s)'
    BY <1>5, <1>7, <1>8 DEF ReadsAll, UpToDate
  <2>pins. Pins(s)'
    BY <1>5, <1>7, ProfileAssumption DEF Pins
  <2>passed. Passed(s)'
    BY <1>5, <1>7 DEF Passed
  <2>handsOff. HandsOff(s)'
    BY <1>5, <1>7 DEF HandsOff, Hand
  <2> QED BY <2>reads, <2>pins, <2>passed, <2>handsOff DEF SessionFits
<1>10. /\ UNCHANGED <<claims, attrs, row, pinned, raced>>
       /\ begins' \in 0..MaxBegins /\ now' \in 0..MaxTime /\ remaining' \in [Editors -> Seq(STRING)]
       /\ now <= now'
  <2>1. begins \in Nat /\ now \in Nat /\ begins < MaxBegins /\ MaxBegins \in Nat /\ now <= now
    BY <1>1, ProfileAssumption DEF BeginEnrichment, ProfileTables
  <2>2. begins + 1 \in 0..MaxBegins
    BY <2>1
  <2>3. QED  BY <1>1, <2>1, <2>2 DEF BeginEnrichment, ProfileTables
<1>11. /\ {s} \in SUBSET Sessions /\ \A t \in Sessions \ {s} : session'[t] = session[t]
       /\ \A t \in {s} : SessionFits(t)' /\ ~Current(t)'
  BY <1>7, <1>8, <1>9
<1>12. QED  BY <1>7, <1>10, <1>11, SessionsMove

LEMMA AbortKeeps ==
  ASSUME ProfileAssumption, ProfileInv, NEW s \in Sessions, AbortProfile(s)
  PROVE  ProfileInv'
<1>1. ProfileTables
  BY DEF ProfileInv
<1>2. session' = [session EXCEPT ![s] = NoSession]
  BY DEF AbortProfile
<1>3. session' \in [Sessions -> SessionRows] /\ session'[s] = NoSession /\ \A t \in Sessions \ {s} : session'[t] = session[t]
  BY <1>1, <1>2, NoSessionRow DEF ProfileTables
<1>4. SessionFits(s)' /\ ~Current(s)'
  BY <1>3, ClosesFits
<1>5. remaining' \in [Editors -> Seq(STRING)]
  <2>typed. session[s].left \in Seq(STRING) /\ remaining \in [Editors -> Seq(STRING)]
    <3>1. session[s] \in SessionRows
      BY <1>1 DEF ProfileTables
    <3>2. QED  BY <1>1, <3>1 DEF SessionRows, ProfileTables
  <2>tail. session[s].left # <<>> => Tail(session[s].left) \in Seq(STRING)
    BY <2>typed, HeadTailProperties
  <2>me. PICK m : m = session[s]
    OBVIOUS
  <2>moved. remaining' = remaining \/ remaining' = [remaining EXCEPT ![m.by] = IF m.left = <<>> THEN @ ELSE Tail(m.left)]
    BY <2>me DEF AbortProfile
  <2> QED BY <2>typed, <2>tail, <2>me, <2>moved
<1>6. /\ UNCHANGED <<claims, attrs, row, pinned, raced>>
      /\ begins' \in 0..MaxBegins /\ now' \in 0..MaxTime /\ now <= now'
  <2>1. now \in Nat /\ now <= now
    BY <1>1, ProfileAssumption DEF ProfileTables
  <2>2. QED  BY <1>1, <2>1 DEF AbortProfile, ProfileTables
<1>7. /\ {s} \in SUBSET Sessions /\ \A t \in Sessions \ {s} : session'[t] = session[t]
      /\ \A t \in {s} : SessionFits(t)' /\ ~Current(t)'
  BY <1>3, <1>4
<1>8. QED  BY <1>3, <1>5, <1>6, <1>7, SessionsMove

(* A strategy has been tried: what it has written is no claim by hand.     *)
LEMMA RecomputeKeeps ==
  ASSUME ProfileAssumption, ProfileInv, NEW s \in Sessions, session[s].pc = "open", session[s].left # <<>>,
         NEW own \in OwnClaims, NEW as \in SUBSET Attrs, NEW left \in Seq(STRING),
         \A k \in Hand : own[k] = session[s].own[k],
         \A k \in Keys : own[k] # None /\ own[k].there => own[k].seen <= now,
         Recompute(s, own, as, left), now < MaxTime, now' = now + 1,
         UNCHANGED <<claims, attrs, row, begins, pinned, raced, remaining>>
  PROVE  ProfileInv'
<1>1. /\ ProfileTables /\ (\A k \in Keys : Earlier(claims[k]))
      /\ ReadsAll(s) /\ Passed(s) /\ HandsOff(s) /\ UpToDate(s)
  BY DEF ProfileInv, SessionFits
<1>2. now \in Nat /\ now' \in 0..MaxTime /\ now <= now' /\ \A c \in ClaimRows : c.seen \in Nat
  BY <1>1, ProfileAssumption DEF ProfileTables, ClaimRows
<1>3. PICK me \in SessionRows : me = session[s]
  BY <1>1 DEF ProfileTables
<1>4. PICK read : read = Reading(own)
  OBVIOUS
<1>5. PICK base : base = (IF me.read THEN me.base ELSE read)
  OBVIOUS
<1>6. PICK seen : seen = (IF me.read THEN me.seenAttrs ELSE attrs \union as)
  OBVIOUS
<1>7. /\ \A k \in Keys : /\ claims[k] \in ClaimRows
                         /\ own[k] \in ClaimRows \union {None}
                         /\ read[k] = (IF own[k] # None THEN own[k] ELSE claims[k])
      /\ read \in [Keys -> ClaimRows]
  BY <1>1, <1>4 DEF ProfileTables, OwnClaims, Reading
<1>8. base \in [Keys -> ClaimRows] /\ base \in OwnClaims
  <2>1. me.read => me.base \in [Keys -> ClaimRows]
    BY <1>1, <1>3 DEF ReadsAll
  <2>2. me.read \in BOOLEAN
    BY DEF SessionRows
  <2>3. base \in [Keys -> ClaimRows]
    BY <1>5, <1>7, <2>1, <2>2
  <2>4. QED  BY <2>3 DEF OwnClaims
<1>9. seen \in SUBSET Attrs
  <2>1. me.seenAttrs \in SUBSET Attrs /\ attrs \in SUBSET Attrs
    BY <1>1 DEF SessionRows, ProfileTables
  <2>2. QED  BY <1>6, <2>1
<1>10. PICK r : r = [me EXCEPT !.own = own, !.ownAttrs = as, !.left = left, !.read = TRUE, !.base = base, !.seenAttrs = seen]
  OBVIOUS
<1>11. r \in SessionRows
  <2>own. PICK r1 \in SessionRows : r1 = [me EXCEPT !.own = own]
    BY FieldsFit
  <2>attrs. PICK r2 \in SessionRows : r2 = [r1 EXCEPT !.ownAttrs = as]
    BY FieldsFit
  <2>left. PICK r3 \in SessionRows : r3 = [r2 EXCEPT !.left = left]
    BY FieldsFit
  <2>read. PICK r4 \in SessionRows : r4 = [r3 EXCEPT !.read = TRUE]
    BY FieldsFit
  <2>base. PICK r5 \in SessionRows : r5 = [r4 EXCEPT !.base = base]
    BY <1>8, FieldsFit
  <2>seen. r = [r5 EXCEPT !.seenAttrs = seen]
    BY <1>10, <2>own, <2>attrs, <2>left, <2>read, <2>base
  <2> QED BY <1>9, <2>seen, FieldsFit
<1>12. r.pc = me.pc /\ r.pin = me.pin /\ r.old = me.old /\ r.own = own /\ r.left = left /\ r.read = TRUE /\ r.base = base
  BY <1>10 DEF SessionRows
<1>13. session' = [session EXCEPT ![s] = r]
  BY <1>3, <1>4, <1>5, <1>6, <1>10 DEF Recompute
<1>14. session' \in [Sessions -> SessionRows] /\ session'[s] = r /\ \A t \in Sessions \ {s} : session'[t] = session[t]
  BY <1>1, <1>11, <1>13 DEF ProfileTables
<1>15. me.pin = None /\ \A k \in Hand : own[k] = None /\ me.own[k] = None
  BY <1>1, <1>3 DEF HandsOff
<1>16. Current(s)' <=> ~me.old
  BY <1>3, <1>12, <1>14 DEF Current
<1>17. ReadsAll(s)' /\ HandsOff(s)' /\ Pins(s)'
  BY <1>8, <1>12, <1>14, <1>15, ProfileAssumption DEF ReadsAll, HandsOff, Pins
<1>18. ASSUME NEW k \in Keys  PROVE base[k].there => base[k].seen < now'
  <2>1. base[k] \in ClaimRows /\ base[k] # None
    BY <1>8, ProfileAssumption
  <2>2. CASE me.read
    BY SMTT(30), <1>1, <1>2, <1>3, <1>5, <2>1, <2>2 DEF Passed, Earlier
  <2>3. CASE ~me.read
    BY SMTT(30), <1>1, <1>2, <1>5, <1>7, <2>1, <2>3 DEF Earlier
  <2>4. QED  BY <2>2, <2>3
<1>19. Passed(s)'
  <2>1. \A k \in Keys : own[k] # None => (own[k].there => own[k].seen < now')
    BY <1>2, <1>7
  <2>2. QED  BY <1>12, <1>14, <1>18, <2>1 DEF Passed, Earlier
<1>20. ASSUME NEW k \in Hand
       PROVE  base[k] = IF me.read THEN me.base[k] ELSE claims[k]
  BY <1>5, <1>7, <1>15 DEF Hand
<1>21. UpToDate(s)'
  <2>1. SUFFICES ASSUME ~me.old, NEW k \in Hand  PROVE SameClaim(base[k], claims[k])
    BY <1>12, <1>14, <1>16 DEF UpToDate, SameClaim
  <2>2. CASE me.read
    BY <1>1, <1>3, <1>15, <1>20, <2>1, <2>2 DEF UpToDate, Current
  <2>3. CASE ~me.read
    BY <1>20, <2>3 DEF SameClaim
  <2>4. QED  BY <2>2, <2>3
<1>22. SessionFits(s)'
  BY <1>17, <1>19, <1>21 DEF SessionFits
<1>23. Current(s)' /\ session'[s].pin = None =>
          \A k \in Hand : session'[s].base[k] = claims[k] \/
                          (Current(s) /\ session[s].pin = None /\ session'[s].base[k] = session[s].base[k])
  BY <1>3, <1>12, <1>14, <1>15, <1>16, <1>20 DEF Current
<1>24. /\ {s} \in SUBSET Sessions /\ \A t \in Sessions \ {s} : session'[t] = session[t]
       /\ \A t \in {s} : SessionFits(t)'
       /\ \A t \in {s} : Current(t)' /\ session'[t].pin = None =>
             \A k \in Hand : session'[t].base[k] = claims[k] \/
                            (Current(t) /\ session[t].pin = None /\ session'[t].base[k] = session[t].base[k])
  BY <1>14, <1>22, <1>23
<1>25. begins' \in 0..MaxBegins /\ remaining' \in [Editors -> Seq(STRING)]
  BY <1>1 DEF ProfileTables
<1>26. QED  BY <1>2, <1>14, <1>24, <1>25, SessionsMove

LEMMA StrategyKeeps ==
  ASSUME ProfileAssumption, ProfileInv, NEW s \in Sessions, Strategy(s)
  PROVE  ProfileInv'
<1>1. ProfileTables /\ Passed(s)
  BY DEF ProfileInv, SessionFits
<1> DEFINE me == session[s]
<1>2. me \in SessionRows
  BY <1>1 DEF ProfileTables
<1>3. me.own \in OwnClaims /\ me.ownAttrs \in SUBSET Attrs /\ me.left \in Seq(STRING)
  BY <1>2 DEF SessionRows
<1>4. me.pc = "open" /\ me.left # <<>> /\ now < MaxTime /\ now' = now + 1
  BY <1>2 DEF Strategy
<1>5. UNCHANGED <<claims, attrs, row, begins, pinned, raced, remaining>>
  BY DEF Strategy
<1>6. Tail(me.left) \in Seq(STRING)
  BY <1>3, <1>4, HeadTailProperties
<1>7. now \in Nat /\ now <= now /\ \A c \in ClaimRows : c.seen \in Nat
  BY <1>1, ProfileAssumption DEF ProfileTables, ClaimRows
<1>8. \A k \in Keys : me.own[k] # None /\ me.own[k].there => me.own[k].seen <= now
  <2>1. \A k \in Keys : me.own[k] \in ClaimRows \union {None}
    BY <1>3 DEF OwnClaims
  <2>2. QED  BY <1>1, <1>2, <1>7, <2>1 DEF Passed, Earlier
<1>9. ASSUME Recompute(s, me.own, me.ownAttrs, Tail(me.left))
      PROVE  ProfileInv'
  BY <1>2, <1>3, <1>4, <1>5, <1>6, <1>8, <1>9, RecomputeKeeps
<1>10. ASSUME NEW ks \in SUBSET {k \in Keys : Found(Head(me.left), k) /\ k.by = me.by}, NEW as \in SUBSET {FoundBio},
              Recompute(s, [k \in Keys |-> IF k \in ks THEN Claim(TRUE) ELSE me.own[k]], me.ownAttrs \union as, Tail(me.left))
       PROVE  ProfileInv'
  <2>1. PICK own : own = [k \in Keys |-> IF k \in ks THEN Claim(TRUE) ELSE me.own[k]]
    OBVIOUS
  <2>2. PICK has : has = me.ownAttrs \union as
    OBVIOUS
  <2>3. has \in SUBSET Attrs
    <3>1. FoundBio \in Attrs
      BY DEF FoundBio, Attrs, AttrKinds
    <3>2. QED  BY <1>3, <2>2, <3>1
  <2>4. Claim(TRUE) \in ClaimRows /\ Claim(TRUE).seen = now
    BY <1>1, ClaimsMade DEF ProfileTables
  <2>5. own \in OwnClaims /\ \A k \in Keys : own[k] = IF k \in ks THEN Claim(TRUE) ELSE me.own[k]
    BY <1>3, <2>1, <2>4 DEF OwnClaims
  <2>6. \A k \in Keys : own[k] # None /\ own[k].there => own[k].seen <= now
    BY <1>7, <1>8, <2>4, <2>5
  <2>7. \A k \in Hand : own[k] = me.own[k]
    <3>1. ASSUME NEW k \in ks  PROVE k.src # "user_manual"
      BY DEF Found, FoundHere, FoundOnProfile, FoundByModel, FoundOnWeb
    <3>2. QED  BY <2>5, <3>1 DEF Hand
  <2>8. Recompute(s, own, has, Tail(me.left))
    BY <1>10, <2>1, <2>2
  <2>9. QED  BY <1>2, <1>4, <1>5, <1>6, <2>3, <2>5, <2>6, <2>7, <2>8, RecomputeKeeps
<1>11. QED  BY <1>2, <1>9, <1>10 DEF Strategy

(* What a session leaves that has written own and read base: cs is what it *)
(* ranks, n what the ranking makes of it.                                  *)
Leaves(own, base, cs, n) ==
  /\ claims' \in [Keys -> ClaimRows] /\ attrs' \in SUBSET Attrs
  /\ row' \in [org : Employers \union {None}, bio : 0..2, phones : SUBSET (1..2)]
  /\ row'.org = Winner(cs)
  /\ \A k \in Keys : cs[k] = IF base[k].there /\ own[k] # None THEN own[k] ELSE base[k]
  /\ \A k \in Keys : /\ n[k] = NormalizedClaim(k, cs[k], Winner(cs)) /\ SameClaim(n[k], cs[k])
                     /\ cs[k].there /\ ~Past(cs[k]) /\ Winner(cs) # None /\ k.org = Winner(cs)
                          => n[k].current /\ n[k].ended = NoDay
  /\ \A k \in Keys : own[k] = None =>
       /\ SameClaim(claims'[k], claims[k])
       /\ \/ claims'[k] = claims[k]
          \/ claims'[k].current = n[k].current /\ claims'[k].ended = n[k].ended
  /\ \A k \in Keys : own[k] # None => claims'[k] \in {n[k], own[k]}

LEMMA SessionWrites ==
  ASSUME ProfileAssumption, ProfileInv, NEW s \in Sessions, session[s].pc = "open", session[s].read, Leave(s)
  PROVE  \E cs, n \in [Keys -> ClaimRows] : Leaves(session[s].own, session[s].base, cs, n)
<1>1. ProfileTables /\ ReadsAll(s)
  BY DEF ProfileInv, SessionFits
<1>2. PICK me \in SessionRows : me = session[s]
  BY <1>1 DEF ProfileTables
<1>3. /\ me.own \in OwnClaims /\ me.ownAttrs \in SUBSET Attrs /\ me.seenAttrs \in SUBSET Attrs
      /\ me.base \in [Keys -> ClaimRows] /\ me.own = session[s].own /\ me.base = session[s].base
  BY <1>1, <1>2 DEF SessionRows, ReadsAll
<1>4. \A k \in Keys : me.own[k] \in ClaimRows \union {None} /\ me.base[k] \in ClaimRows /\ claims[k] \in ClaimRows
  BY <1>1, <1>3 DEF OwnClaims, ProfileTables
<1>5. PICK cs : cs = Cached(s)
  OBVIOUS
<1>6. /\ cs \in [Keys -> ClaimRows]
      /\ \A k \in Keys : cs[k] = IF me.base[k].there /\ me.own[k] # None THEN me.own[k] ELSE me.base[k]
  BY <1>3, <1>4, <1>5 DEF Cached
<1>7. PICK n : n = Normalized(cs)
  OBVIOUS
<1>8. now \in 0..MaxTime /\ row.phones \in SUBSET (1..2)
  BY <1>1 DEF ProfileTables
<1>9. n \in [Keys -> ClaimRows] /\ \A k \in Keys : n[k] = NormalizedClaim(k, cs[k], Winner(cs))
  BY <1>6, <1>7, <1>8, NormalizedRows
<1>10. ASSUME NEW k \in Keys
       PROVE  /\ SameClaim(n[k], cs[k])
              /\ cs[k].there /\ ~Past(cs[k]) /\ Winner(cs) # None /\ k.org = Winner(cs) => n[k].current /\ n[k].ended = NoDay
  <2>1. cs[k] \in ClaimRows
    BY <1>6
  <2>2. QED  BY <1>8, <1>9, <2>1, WhatBecomesOfAClaim
<1>11. PICK changed : changed = Changed(cs, n)
  OBVIOUS
<1>12. claims' = Written(me.own, n, changed) /\ attrs' = attrs \union me.ownAttrs /\ row' = Recomputed(cs, me.seenAttrs, row.phones)
  BY <1>2, <1>5, <1>7, <1>11 DEF Leave
<1>13. ASSUME NEW k \in Keys
       PROVE  claims'[k] = IF k \in changed THEN (IF me.own[k] = None THEN Flags(claims[k], n[k]) ELSE n[k])
                           ELSE IF me.own[k] # None THEN me.own[k] ELSE claims[k]
  BY <1>12 DEF Written
<1>14. ASSUME NEW k \in Keys
       PROVE  LET d == Flags(claims[k], n[k]) IN
              d \in ClaimRows /\ SameClaim(d, claims[k]) /\ d.current = n[k].current /\ d.ended = n[k].ended
  <2>1. n[k] \in ClaimRows /\ claims[k] \in ClaimRows
    BY <1>4, <1>9
  <2>2. QED  BY <2>1 DEF Flags, ClaimRows, SameClaim
<1>15. \A k \in Keys : me.own[k] = None =>
         /\ SameClaim(claims'[k], claims[k])
         /\ \/ claims'[k] = claims[k]
            \/ claims'[k].current = n[k].current /\ claims'[k].ended = n[k].ended
  <2>1. \A k \in Keys : SameClaim(claims[k], claims[k])
    BY DEF SameClaim
  <2>2. QED  BY <1>13, <1>14, <2>1
<1>16. \A k \in Keys : me.own[k] # None => claims'[k] \in {n[k], me.own[k]}
  BY <1>13
<1>17. claims' \in [Keys -> ClaimRows]
  <2>1. \A k \in Keys : claims'[k] \in ClaimRows
    BY <1>4, <1>9, <1>13, <1>14
  <2>2. claims' = [k \in Keys |-> claims'[k]]
    BY <1>12 DEF Written
  <2>3. QED  BY <2>1, <2>2
<1>18. /\ row' \in [org : Employers \union {None}, bio : 0..2, phones : SUBSET (1..2)]
       /\ row'.org = Winner(cs)
  BY <1>3, <1>6, <1>8, <1>12, RowTyped
<1>19. attrs' \in SUBSET Attrs
  BY <1>1, <1>3, <1>12 DEF ProfileTables
<1>20. Leaves(me.own, me.base, cs, n)
  BY <1>6, <1>9, <1>10, <1>15, <1>16, <1>17, <1>18, <1>19 DEF Leaves
<1>21. QED  BY <1>3, <1>6, <1>9, <1>20

LEMMA SessionLeaves ==
  ASSUME ProfileAssumption, ProfileInv, NEW s \in Sessions, session[s].pc = "open", session[s].read, Leave(s),
         session' = [t \in Sessions |-> IF t = s THEN NoSession
                                        ELSE IF session[t].pc = "open" /\ session[s].pin # None
                                        THEN [session[t] EXCEPT !.old = TRUE] ELSE session[t]],
         pinned' = IF session[s].pin = None THEN pinned ELSE IF session[s].pin = "cleared" THEN None ELSE session[s].pin,
         raced' = (session[s].old \/ (session[s].pin = None /\ raced)),
         remaining' \in [Editors -> Seq(STRING)], UNCHANGED <<now, begins>>
  PROVE  ProfileInv'
<1>1. /\ ProfileTables /\ (\A k \in Keys : Earlier(claims[k])) /\ (\A t \in Sessions : SessionFits(t)) /\ Standing
      /\ Passed(s) /\ HandsOff(s) /\ Pins(s) /\ UpToDate(s)
  BY DEF ProfileInv, SessionFits
<1>2. PICK me \in SessionRows : me = session[s]
  BY <1>1 DEF ProfileTables
<1>3. me.pin \in Employers \union {None, "cleared"} /\ me.old \in BOOLEAN /\ me.own = session[s].own /\ me.base = session[s].base
  BY <1>2 DEF SessionRows
<1>20. PICK cs, n \in [Keys -> ClaimRows] : Leaves(me.own, me.base, cs, n)
  BY <1>3, SessionWrites
<1>4. /\ claims' \in [Keys -> ClaimRows] /\ attrs' \in SUBSET Attrs
      /\ row' \in [org : Employers \union {None}, bio : 0..2, phones : SUBSET (1..2)]
      /\ row'.org = Winner(cs)
      /\ \A k \in Keys : cs[k] = IF me.base[k].there /\ me.own[k] # None THEN me.own[k] ELSE me.base[k]
      /\ \A k \in Keys : /\ n[k] = NormalizedClaim(k, cs[k], Winner(cs)) /\ SameClaim(n[k], cs[k])
                         /\ cs[k].there /\ ~Past(cs[k]) /\ Winner(cs) # None /\ k.org = Winner(cs)
                              => n[k].current /\ n[k].ended = NoDay
      /\ \A k \in Keys : me.own[k] = None =>
           /\ SameClaim(claims'[k], claims[k])
           /\ \/ claims'[k] = claims[k]
              \/ claims'[k].current = n[k].current /\ claims'[k].ended = n[k].ended
      /\ \A k \in Keys : me.own[k] # None => claims'[k] \in {n[k], me.own[k]}
  BY <1>20 DEF Leaves
<1>5. \A k \in Keys : claims[k] \in ClaimRows /\ claims'[k] \in ClaimRows /\ cs[k] \in ClaimRows
  BY <1>1, <1>4 DEF ProfileTables
<1>6. /\ session'[s] = NoSession
      /\ \A t \in Sessions \ {s} :
           session'[t] = IF session[t].pc = "open" /\ me.pin # None THEN [session[t] EXCEPT !.old = TRUE] ELSE session[t]
  BY <1>2
<1>7. ASSUME NEW t \in Sessions \ {s}
      PROVE  /\ session[t] \in SessionRows /\ session'[t] \in SessionRows
             /\ session'[t].pc = session[t].pc /\ session'[t].read = session[t].read /\ session'[t].own = session[t].own
             /\ session'[t].base = session[t].base /\ session'[t].pin = session[t].pin
             /\ session'[t].what = session[t].what /\ session'[t].left = session[t].left
             /\ session[t].pc = "open" /\ me.pin # None => session'[t].old = TRUE
             /\ session[t].pc # "open" \/ me.pin = None => session'[t] = session[t]
  <2>1. PICK r \in SessionRows : r = session[t]
    BY <1>1 DEF ProfileTables
  <2>2. PICK q \in SessionRows : q = [r EXCEPT !.old = TRUE]
    BY FieldsFit
  <2>3. q.pc = r.pc /\ q.read = r.read /\ q.own = r.own /\ q.base = r.base /\ q.pin = r.pin /\ q.what = r.what /\ q.left = r.left /\ q.old = TRUE
    BY <2>2 DEF SessionRows
  <2>4. session'[t] = IF r.pc = "open" /\ me.pin # None THEN q ELSE r
    BY <1>6, <2>1, <2>2
  <2>5. QED  BY <2>1, <2>3, <2>4
<1>8. session' \in [Sessions -> SessionRows]
  <2>1. session' = [t \in Sessions |-> session'[t]]
    OBVIOUS
  <2>2. \A t \in Sessions : session'[t] \in SessionRows
    BY <1>6, <1>7, NoSessionRow
  <2>3. QED  BY <2>1, <2>2
<1>9. ProfileTables'
  <2>1. raced' \in BOOLEAN
    BY <1>1, <1>2, <1>3 DEF ProfileTables
  <2>2. pinned' \in Employers \union {None}
    BY <1>1, <1>2, <1>3 DEF ProfileTables
  <2>3. QED  BY <1>1, <1>4, <1>8, <2>1, <2>2 DEF ProfileTables
<1>10. now' = now
  OBVIOUS
<1>11. ASSUME NEW k \in Keys
       PROVE  Earlier(claims[k])'
  <2>1. SUFFICES ASSUME claims'[k].there  PROVE claims'[k].seen < now
    BY <1>10 DEF Earlier
  <2>2. CASE me.own[k] = None
    BY <1>1, <1>4, <2>1, <2>2 DEF Earlier, SameClaim
  <2>3. CASE me.own[k] # None
    <3>1. me.own[k].there => me.own[k].seen < now
      BY <1>1, <1>3, <2>3 DEF Passed, Earlier
    <3>2. cs[k].there => cs[k].seen < now
      <4>1. me.base[k] # None => (me.base[k].there => me.base[k].seen < now)
        BY <1>1, <1>3 DEF Passed, Earlier
      <4>2. cs[k] # None
        BY <1>5, ProfileAssumption
      <4>3. QED  BY <1>4, <3>1, <4>1, <4>2
    <3>3. QED  BY SMTT(30), <1>4, <2>1, <2>3, <3>1, <3>2 DEF SameClaim
  <2>4. QED  BY <2>2, <2>3
<1>12. ASSUME NEW t \in Sessions
       PROVE  SessionFits(t)'
  <2>1. CASE t = s
    BY <1>6, <2>1, ClosesFits
  <2>2. CASE t # s
    <3>1. t \in Sessions \ {s} /\ SessionFits(t)
      BY <1>1, <2>2
    <3>2. ReadsAll(t)' /\ HandsOff(t)'
      BY <1>7, <3>1 DEF SessionFits, ReadsAll, HandsOff
    <3>3. Pins(t)'
      <4>1. \A k : PinnedBy(t, k) => PinnedBy(t, k)'
        BY <1>7, <3>1 DEF PinnedBy
      <4>2. QED  BY <1>7, <3>1, <4>1 DEF SessionFits, Pins
    <3>4. Passed(t)'
      BY <1>7, <1>10, <3>1 DEF SessionFits, Passed, Earlier
    <3>5. UpToDate(t)'
      <4>1. SUFFICES ASSUME Current(t)', NEW k \in Hand, session'[t].own[k] = None
                     PROVE  SameClaim(session'[t].base[k], claims'[k])
        BY DEF UpToDate, SameClaim
      <4>2. me.pin = None /\ session'[t] = session[t]
        BY <1>7, <3>1, <4>1 DEF Current
      <4>3. SameClaim(session[t].base[k], claims[k])
        BY <3>1, <4>1, <4>2 DEF SessionFits, UpToDate, Current
      <4>4. me.own[k] = None /\ k \in Keys
        BY <1>1, <1>2, <4>2 DEF HandsOff, Hand
      <4>5. QED  BY <1>4, <4>2, <4>3, <4>4 DEF SameClaim
    <3>6. QED  BY <3>2, <3>3, <3>4, <3>5 DEF SessionFits
  <2>3. QED  BY <2>1, <2>2
<1>13. Standing'
  <2>1. SUFFICES ASSUME pinned' # None, ~raced'  PROVE \E u \in Editors : Stands(ByHand(u, pinned, FALSE))'
    BY DEF Standing
  <2>2. ~me.old /\ me.pin # "cleared"
    BY <1>2, <1>3, <2>1
  <2>3. \A k \in Hand : me.own[k] = None => SameClaim(me.base[k], claims[k])
    BY <1>1, <1>2, <1>3, <2>2 DEF UpToDate, Current
  <2>4. ASSUME NEW k \in Hand, Tops(cs, k), Holds(cs[k]), Recent(cs[k])
        PROVE  Winner(cs) = k.org /\ n[k].current /\ n[k].ended = NoDay
    <3>1. Winner(cs) = k.org
      BY <2>4, LastByHandWins
    <3>2. k \in Keys /\ k.org # None
      BY ProfileAssumption DEF Hand, Keys
    <3>3. cs[k].there /\ ~Past(cs[k])
      BY <2>4 DEF Holds, Past
    <3>4. QED  BY <1>4, <3>1, <3>2, <3>3
  <2>5. CASE me.pin = None
    <3>1. pinned' = pinned /\ pinned # None /\ ~raced
      BY <1>2, <2>1, <2>5
    <3>2. PICK u \in Editors : Stands(ByHand(u, pinned, FALSE))
      BY <1>1, <3>1 DEF Standing
    <3>3. PICK k \in Hand : k = ByHand(u, pinned, FALSE)
      BY <1>1, <3>1, ProfileAssumption DEF ByHand, Hand, Keys, ProfileTables
    <3>4. Stands(k) /\ k.org = pinned
      BY <3>2, <3>3 DEF ByHand
    <3>5. \A l \in Hand : me.own[l] = None /\ l \in Keys
      BY <1>1, <1>2, <2>5 DEF HandsOff, Hand
    <3>6. \A l \in Hand : SameClaim(claims'[l], claims[l]) /\ SameClaim(cs[l], claims[l]) /\ cs[l] = me.base[l]
      BY <1>4, <2>3, <3>5
    <3>7. Tops(claims, k)' /\ Tops(cs, k)
      BY <3>4, <3>6 DEF Stands, Tops, SameClaim
    <3>8. ASSUME Recent(claims[k])'
          PROVE  /\ Holds(claims[k])' /\ row'.org = pinned'
                 /\ \A t \in Sessions : Current(t)' /\ session'[t].pin = None => Holds(session'[t].base[k])
      <4>1. Recent(claims[k]) /\ Recent(cs[k])
        <5>1. claims'[k].seen = claims[k].seen /\ cs[k].seen = claims[k].seen
          BY <3>6 DEF SameClaim
        <5>2. Today' - Day(claims'[k].seen) <= Recency
          BY <3>8 DEF Recent, Day
        <5>3. Today' = Today
          BY <1>10 DEF Today, Day
        <5>4. QED  BY <5>1, <5>2, <5>3 DEF Recent
      <4>2. Holds(claims[k]) /\ \A t \in Sessions : Current(t) /\ session[t].pin = None => Holds(session[t].base[k])
        BY <3>4, <4>1 DEF Stands
      <4>3. Holds(cs[k])
        <5>1. Current(s) /\ session[s].pin = None
          BY <1>2, <2>2, <2>5 DEF Current
        <5>2. QED  BY <1>3, <3>6, <4>2, <5>1
      <4>4. Winner(cs) = pinned /\ n[k].current /\ n[k].ended = NoDay
        BY <2>4, <3>4, <3>7, <4>1, <4>3
      <4>5. Holds(claims[k])'
        <5>1. claims'[k].there
          BY <3>6, <4>2 DEF SameClaim, Holds
        <5>2. claims'[k] = claims[k] \/ (claims'[k].current = n[k].current /\ claims'[k].ended = n[k].ended)
          BY <1>4, <3>5
        <5>3. QED  BY <4>2, <4>4, <5>1, <5>2 DEF Holds
      <4>6. ASSUME NEW t \in Sessions, Current(t)', session'[t].pin = None
            PROVE  Holds(session'[t].base[k])
        <5>1. t # s
          BY <1>6, <4>6, NoSessionRow DEF Current
        <5>2. session'[t] = session[t]
          BY <1>7, <2>5, <5>1
        <5>3. QED  BY <4>2, <4>6, <5>2 DEF Current
      <4>7. QED  BY <1>4, <3>1, <4>4, <4>5, <4>6
    <3>9. Stands(k)'
      BY <3>7, <3>8 DEF Stands, Holds
    <3>10. QED  BY <3>1, <3>3, <3>9
  <2>6. CASE me.pin \in Employers
    <3>1. pinned' = me.pin /\ me.pin # None
      BY <1>2, <2>2, <2>6, ProfileAssumption
    <3>2. PICK u \in Editors : PinnedBy(s, ByHand(u, me.pin, FALSE))
      BY <1>1, <1>2, <2>6 DEF Pins
    <3>3. PICK k \in Hand : k = ByHand(u, me.pin, FALSE)
      BY <2>6, ProfileAssumption DEF ByHand, Hand, Keys
    <3>4. /\ k \in Keys /\ k.org = me.pin /\ me.own[k] # None /\ Holds(me.own[k]) /\ me.base[k] = me.own[k]
          /\ Tops(me.base, k) /\ \A l \in Keys \ {k} : me.own[l] = None
      BY <1>3, <3>2, <3>3 DEF PinnedBy, ByHand, Hand
    <3>5. \A l \in Hand : cs[l] = me.base[l]
      BY ZenonT(30), <1>4, <3>4 DEF Hand
    <3>6. Tops(cs, k) /\ Holds(cs[k])
      BY <3>4, <3>5 DEF Tops
    <3>7. claims'[k] \in {n[k], me.own[k]} /\ SameClaim(claims'[k], cs[k])
      BY <1>4, <3>4, <3>5 DEF SameClaim
    <3>8. \A l \in Hand \ {k} : SameClaim(claims'[l], cs[l])
      <4>1. \A l \in Hand \ {k} : l \in Keys /\ me.own[l] = None
        BY <3>4 DEF Hand
      <4>2. QED  BY <1>4, <2>3, <3>5, <4>1 DEF SameClaim
    <3>9. Tops(claims, k)'
      BY <3>6, <3>7, <3>8 DEF Tops, SameClaim
    <3>10. ASSUME Recent(claims[k])'
           PROVE  Holds(claims[k])' /\ row'.org = pinned'
      <4>1. Recent(cs[k])
        <5>1. cs[k].seen = claims'[k].seen
          BY <3>7 DEF SameClaim
        <5>2. Today' - Day(claims'[k].seen) <= Recency
          BY <3>10 DEF Recent, Day
        <5>3. Today' = Today
          BY <1>10 DEF Today, Day
        <5>4. QED  BY <5>1, <5>2, <5>3 DEF Recent
      <4>2. Winner(cs) = me.pin /\ n[k].current /\ n[k].ended = NoDay
        BY <2>4, <3>4, <3>6, <4>1
      <4>3. n[k].there
        BY <1>4, <3>4, <3>6 DEF SameClaim, Tops
      <4>4. Holds(claims[k])'
        BY <3>4, <3>7, <4>2, <4>3 DEF Holds
      <4>5. QED  BY <1>4, <3>1, <4>2, <4>4
    <3>11. \A t \in Sessions : ~Current(t)'
      <4>1. \A t \in Sessions \ {s} : ~Current(t)'
        BY <1>7, <3>1 DEF Current
      <4>2. ~Current(s)'
        BY <1>6, NoSessionRow DEF Current
      <4>3. QED  BY <4>1, <4>2
    <3>12. Stands(k)'
      BY <3>9, <3>10, <3>11 DEF Stands, Holds
    <3>13. QED  BY <3>1, <3>3, <3>12
  <2>7. QED  BY <1>3, <2>2, <2>5, <2>6
<1>14. QED  BY <1>9, <1>11, <1>12, <1>13 DEF ProfileInv

LEMMA CommitKeeps ==
  ASSUME ProfileAssumption, ProfileInv, NEW s \in Sessions, CommitProfile(s)
  PROVE  ProfileInv'
<1>1. session[s].pc = "open" /\ session[s].read /\ Leave(s) /\ UNCHANGED <<now, begins>>
  BY DEF CommitProfile
<1>2. remaining' \in [Editors -> Seq(STRING)]
  <2>1. remaining \in [Editors -> Seq(STRING)] /\ <<>> \in Seq(STRING)
    BY DEF ProfileInv, ProfileTables
  <2>2. PICK u : u = session[s].by
    OBVIOUS
  <2>3. remaining' = remaining \/ remaining' = [remaining EXCEPT ![u] = <<>>]
    BY <2>2 DEF CommitProfile
  <2>4. QED  BY <2>1, <2>3
<1>3. /\ session' = [t \in Sessions |-> IF t = s THEN NoSession
                                        ELSE IF session[t].pc = "open" /\ session[s].pin # None
                                        THEN [session[t] EXCEPT !.old = TRUE] ELSE session[t]]
      /\ pinned' = IF session[s].pin = None THEN pinned ELSE IF session[s].pin = "cleared" THEN None ELSE session[s].pin
      /\ raced' = (session[s].old \/ (session[s].pin = None /\ raced))
  BY DEF CommitProfile
<1>4. QED  BY <1>1, <1>2, <1>3, SessionLeaves

LEMMA DeferKeeps ==
  ASSUME ProfileAssumption, ProfileInv, NEW s \in Sessions, DeferEnrichment(s)
  PROVE  ProfileInv'
<1>1. ProfileTables /\ HandsOff(s)
  BY DEF ProfileInv, SessionFits
<1>2. PICK me \in SessionRows : me = session[s]
  BY <1>1 DEF ProfileTables
<1>3. me.pc = "open" /\ me.left # <<>> /\ me.left \in Seq(STRING) /\ me.pin = None /\ me.read \in BOOLEAN
  BY <1>1, <1>2 DEF DeferEnrichment, HandsOff, SessionRows
<1>4. session' = [session EXCEPT ![s] = NoSession] /\ UNCHANGED <<now, begins, pinned>>
  BY DEF DeferEnrichment
<1>5. remaining' \in [Editors -> Seq(STRING)]
  <2>1. remaining' = [remaining EXCEPT ![me.by] = me.left]
    BY <1>2 DEF DeferEnrichment
  <2>2. QED  BY <1>1, <1>3, <2>1 DEF ProfileTables
<1>6. /\ session' \in [Sessions -> SessionRows] /\ session'[s] = NoSession
      /\ \A t \in Sessions \ {s} : session'[t] = session[t]
  BY <1>1, <1>4, NoSessionRow DEF ProfileTables
<1>7. CASE me.read
  <2>leave. Leave(s) /\ raced' = (session[s].old \/ raced)
    BY <1>2, <1>7 DEF DeferEnrichment
  <2>open. session[s].pc = "open" /\ session[s].read /\ session[s].pin = None
    BY <1>2, <1>3, <1>7
  <2>session. session' = [t \in Sessions |-> IF t = s THEN NoSession
                                             ELSE IF session[t].pc = "open" /\ session[s].pin # None
                                             THEN [session[t] EXCEPT !.old = TRUE] ELSE session[t]]
    <3>1. session' = [t \in Sessions |-> IF t = s THEN NoSession ELSE session[t]]
      BY <1>1, <1>4 DEF ProfileTables
    <3>2. QED  BY <2>open, <3>1
  <2>pinned. pinned' = (IF session[s].pin = None THEN pinned ELSE IF session[s].pin = "cleared" THEN None ELSE session[s].pin)
    BY <1>4, <2>open
  <2>raced. raced' = (session[s].old \/ (session[s].pin = None /\ raced))
    BY <2>leave, <2>open
  <2>same. UNCHANGED <<now, begins>>
    BY <1>4
  <2> QED BY <1>5, <2>leave, <2>open, <2>session, <2>pinned, <2>raced, <2>same, SessionLeaves
<1>8. CASE ~me.read
  <2>1. UNCHANGED <<claims, attrs, row, pinned, raced>>
    BY <1>2, <1>8 DEF DeferEnrichment
  <2>2. begins' \in 0..MaxBegins /\ now' \in 0..MaxTime /\ now <= now'
    <3>1. now \in Nat /\ now <= now
      BY <1>1, ProfileAssumption DEF ProfileTables
    <3>2. QED  BY <1>1, <1>4, <3>1 DEF ProfileTables
  <2>3. SessionFits(s)' /\ ~Current(s)'
    BY <1>6, ClosesFits
  <2>4. /\ {s} \in SUBSET Sessions /\ \A t \in Sessions \ {s} : session'[t] = session[t]
        /\ \A t \in {s} : SessionFits(t)' /\ ~Current(t)'
    BY <1>6, <2>3
  <2>5. QED  BY <1>5, <1>6, <2>1, <2>2, <2>4, SessionsMove
<1>9. QED  BY <1>3, <1>7, <1>8

LEMMA ProfileInvKept ==
  ProfileInv /\ [ProfileNext]_profileVars => ProfileInv'
<1> USE ProfileAssumption
<1> SUFFICES ASSUME ProfileInv, [ProfileNext]_profileVars  PROVE ProfileInv'
  OBVIOUS
<1>1. CASE UNCHANGED profileVars
  <2>none. {} \in SUBSET Sessions /\ \A t \in Sessions \ {} : session'[t] = session[t]
    BY <1>1 DEF profileVars
  <2>same. UNCHANGED <<claims, attrs, row, session, now, begins, pinned, raced, remaining>>
    BY <1>1 DEF profileVars
  <2>clock. now \in Nat /\ now <= now' /\ now' \in 0..MaxTime
    BY <2>same DEF ProfileInv, ProfileTables
  <2>typed. session' \in [Sessions -> SessionRows] /\ begins' \in 0..MaxBegins /\ remaining' \in [Editors -> Seq(STRING)]
    BY <2>same DEF ProfileInv, ProfileTables
  <2> QED BY <2>none, <2>same, <2>clock, <2>typed, SessionsMove
<1>2. ASSUME NEW s \in Sessions, NEW u \in Editors, UpdatePerson(s, u)
      PROVE  ProfileInv'
  BY <1>2, UpdateKeeps
<1>3. ASSUME NEW s \in Sessions, NEW u \in Editors, SaveExperience(s, u)
      PROVE  ProfileInv'
  BY <1>3, SaveKeeps
<1>4. ASSUME NEW s \in Sessions, NEW u \in Editors, DeleteExperience(s, u)
      PROVE  ProfileInv'
  BY <1>4, DeleteKeeps
<1>5. ASSUME NEW s \in Sessions, NEW u \in Editors, UploadProfile(s, u)
      PROVE  ProfileInv'
  BY <1>5, UploadKeeps
<1>6. ASSUME NEW s \in Sessions, NEW u \in Editors, BeginEnrichment(s, u)
      PROVE  ProfileInv'
  BY <1>6, BeginKeeps
<1>7. ASSUME NEW s \in Sessions, Strategy(s)
      PROVE  ProfileInv'
  BY <1>7, StrategyKeeps
<1>8. ASSUME NEW s \in Sessions, CommitProfile(s)
      PROVE  ProfileInv'
  BY <1>8, CommitKeeps
<1>9. ASSUME NEW s \in Sessions, AbortProfile(s)
      PROVE  ProfileInv'
  BY <1>9, AbortKeeps
<1>10. ASSUME NEW s \in Sessions, DeferEnrichment(s)
       PROVE  ProfileInv'
  BY <1>10, DeferKeeps
<1>11. CASE Tick
  BY <1>11, TickKeeps
<1>12. QED  BY <1>1, <1>2, <1>3, <1>4, <1>5, <1>6, <1>7, <1>8, <1>9, <1>10, <1>11 DEF ProfileNext

LEMMA ProfilesAreInOrder ==
  ProfileSpec => []ProfileInv
<1>1. QED  BY ProfileInvInit, ProfileInvKept, PTL DEF ProfileSpec

(* The claims, the row that is computed from them and the record of the    *)
(* edits by hand stay of their kinds.                                      *)
THEOREM ProfileTypeCorrect ==
  ProfileSpec => []ProfileTypeOK
<1>1. ProfileInv => ProfileTypeOK
  BY DEF ProfileInv, ProfileTables, ProfileTypeOK
<1>2. QED  BY <1>1, ProfilesAreInOrder, PTL

(* The employer that a user has given by hand stays the person's employer  *)
(* while that is fresh, whoever uploads profiles and enriches the person   *)
(* at the same time, unless a transaction that had read the claims before  *)
(* the edit is committed after it.                                         *)
THEOREM EditsByHandPrevail ==
  ProfileSpec => []ManualWins
<1>1. ProfileInv => ManualWins
  <2> USE ProfileAssumption
  <2>1. SUFFICES ASSUME ProfileInv, pinned # None, ~raced, NEW u \in Editors,
                        claims[ByHand(u, pinned, FALSE)].there, Recent(claims[ByHand(u, pinned, FALSE)])
                 PROVE  row.org = pinned
    BY DEF ManualWins
  <2>2. ProfileTables /\ Standing
    BY <2>1 DEF ProfileInv
  <2>3. pinned \in Employers /\ now \in 0..MaxTime /\ claims \in [Keys -> ClaimRows]
    BY <2>1, <2>2 DEF ProfileTables
  <2>4. PICK l \in Hand : l = ByHand(u, pinned, FALSE)
    BY <2>3 DEF ByHand, Hand, Keys
  <2>5. PICK v \in Editors : Stands(ByHand(v, pinned, FALSE))
    BY <2>1, <2>2 DEF Standing
  <2>6. PICK k \in Hand : k = ByHand(v, pinned, FALSE)
    BY <2>3 DEF ByHand, Hand, Keys
  <2>7. claims[l].seen \in Nat /\ claims[k].seen \in Nat
    <3>1. claims[l] \in ClaimRows /\ claims[k] \in ClaimRows
      BY <2>3 DEF Hand
    <3>2. QED  BY <3>1 DEF ClaimRows
  <2>8. claims[l].seen <= claims[k].seen
    <3>1. claims[l].there
      BY <2>1, <2>4
    <3>2. Tops(claims, k)
      BY <2>5, <2>6 DEF Stands
    <3>3. l # k => claims[l].seen < claims[k].seen
      BY <3>1, <3>2 DEF Tops
    <3>4. QED  BY <2>7, <3>3
  <2>9. Recent(claims[k])
    <3>1. PICK m \in Nat : m = claims[l].seen
      BY <2>7
    <3>2. PICK n \in Nat : n = claims[k].seen
      BY <2>7
    <3>3. Day(m) \in Nat /\ Day(m) <= Day(n)
      BY <2>8, <3>1, <3>2, DaysPass
    <3>4. Day(n) \in Nat
      <4>1. n <= n
        OBVIOUS
      <4>2. QED  BY <4>1, DaysPass
    <3>5. Today \in Nat
      <4>1. now \in Nat /\ now <= now
        BY <2>3
      <4>2. QED  BY <4>1, DaysPass DEF Today
    <3>6. Today - Day(m) <= Recency
      BY <2>1, <2>4, <3>1 DEF Recent
    <3>7. QED  BY <3>2, <3>3, <3>4, <3>5, <3>6 DEF Recent
  <2>10. QED  BY <2>5, <2>6, <2>9 DEF Stands
<1>2. QED  BY <1>1, ProfilesAreInOrder, PTL

(* Ranking a person's claims leaves at most the winner's claims current,   *)
(* and ranking what is left names the same employer.                       *)
THEOREM RankingDoesSettle ==
  ProfileSpec => []NormalizeSettles
<1>1. ProfileInv => NormalizeSettles
  BY ProfileAssumption, RankingOnceSettles DEF ProfileInv, ProfileTables, NormalizeSettles
<1>2. QED  BY <1>1, ProfilesAreInOrder, PTL
=============================================================================
