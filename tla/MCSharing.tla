----------------------------- MODULE MCSharing -----------------------------
(***************************************************************************)
(* Instances of the trust lists, of the shared contacts and of the         *)
(* sign-in, that share no variable: a behaviour moves one of them, the one *)
(* that part names, and the others stay as they were.                      *)
(***************************************************************************)
EXTENDS TrustList, SharedReads, SignIn

CONSTANTS Friend, p1, p2

ASSUME InstanceAssumption ==
  /\ Friend \in Users \ {Viewer} /\ {p1, p2} \subseteq Persons /\ Orgs # {}

VARIABLE part

allVars == <<trustVars, readsVars, signInVars, part>>

(* Observations a friend may have of two persons: a strong tie, a mere     *)
(* connection, and noise that is in the address book.                      *)
Tie == {"phone", "linkedin", "human"}
Connection == {"linkedin", "human"}
Noise == {"linkedin", "google", "broadcast"}
Nobody == [p \in Persons |-> {}]
AsSeen(one, other) == [p \in Persons |-> IF p = p1 THEN one ELSE other]

SharedInit ==
  /\ part = "reads"
  /\ \E rows \in {<<Tie, Noise>>, <<Tie, {}>>, <<Connection, Tie>>} :
       obs = [u \in Users |-> IF u = Friend THEN AsSeen(rows[1], rows[2]) ELSE Nobody]
  /\ \E known \in {{"linked"}, {"numbered", "scraped"}} :
       about = [p \in Persons |-> IF p = p1 THEN {"linked", "slug"} ELSE known]
  /\ org = [p \in Persons |-> CHOOSE o \in Orgs : TRUE]
  /\ me \in {[u \in Users |-> None], [u \in Users |-> IF u = Viewer THEN p2 ELSE None]}
  /\ private \in SUBSET ({Friend} \X {p1})
  /\ friends = {{Viewer, Friend}}

PlainTables ==
  /\ obs = [u \in Users |-> Nobody] /\ about = [p \in Persons |-> {}]
  /\ org = [p \in Persons |-> None] /\ me = [u \in Users |-> None]
  /\ private = {} /\ friends = {}

NoTrust == joined = {} /\ invite = [k \in InviteKeys |-> "none"] /\
           membership = [p \in MemberKeys |-> "none"] /\ call = [c \in Calls |-> Closed] /\ calls = 0

MCInit ==
  /\ persons = Persons
  /\ ReadsInit /\ SignInInit
  /\ \/ SharedInit /\ NoTrust
     \/ part = "trust" /\ PlainTables /\ TrustInit
     \/ part = "signin" /\ PlainTables /\ NoTrust

MCNext ==
  \/ part = "reads" /\ ReadsNext /\ UNCHANGED <<trustVars, signInVars, part>>
  \/ part = "trust" /\ TrustNext /\ UNCHANGED <<readsVars, signInVars, part>>
  \/ part = "signin" /\ SignInNext /\ UNCHANGED <<trustVars, readsVars, part>>

SharingSpec == MCInit /\ [][MCNext]_allVars /\ TrustFairness

(* The variables of the three instances have their types.                  *)
SharingTypeOK == TrustTypeOK /\ ReadsTypeOK /\ SignInTypeOK

=============================================================================
