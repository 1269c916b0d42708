---------------------------- MODULE SharingProofs ----------------------------
(***************************************************************************)
(* Proofs about the modules that MCSharing has instances of.               *)
(*                                                                         *)
(* TrustList, for any finite set of users, any calls, and any bounds on    *)
(* their number and on the operations of each: types, answers that match   *)
(* memberships, and the refinement of TrustRelation.                       *)
(*                                                                         *)
(* SharedReads, for any users, persons and companies, any tables at the    *)
(* start and any number of changes: what a request shows of the contacts   *)
(* of others, and what a merge of two persons keeps.                       *)
(*                                                                         *)
(* SignIn, for any users, addresses and sessions, and any number of        *)
(* callbacks, polls and exchanges at work at once, with accounts deleted   *)
(* at any moment: tokens follow consent, and every account is opened by    *)
(* the addresses it holds credentials for.                                 *)
(***************************************************************************)
EXTENDS MCSharing, SequenceTheorems, FiniteSetTheorems, FunctionTheorems, TLAPS

(***************************************************************************)
(* Trust lists.                                                            *)
(***************************************************************************)

\* The pair an invite is about.
PairOf(k) == {k[1], k[2]}
Answered == {"accepted", "declined"}

\* The inductive invariant, in parts.

\* Two open calls have not written the same row.
RowsLocked ==
  \A c, d \in Calls : c # d =>
    /\ DOMAIN call[c].inv \cap DOMAIN call[d].inv = {}
    /\ DOMAIN call[c].mem \cap DOMAIN call[d].mem = {}

\* A call names others than its caller, in the order of the kinds; it has
\* come to the answers once it has made a membership; and what it is about to
\* write applies to what is committed.
Pursues(c) ==
  LET u == call[c].by
      ops == call[c].ops IN
  /\ \A i \in DOMAIN ops : ops[i].who # u
  /\ \A i, j \in DOMAIN ops : i < j => ops[i].kind <= ops[j].kind
  /\ (ops # <<>> \/ call[c].want = "write") => u \in Users
  /\ \A p \in DOMAIN call[c].mem : call[c].mem[p] = "active" => \A i \in DOMAIN ops : ops[i].kind > 2
  /\ call[c].want = "write" =>
       /\ ops # <<>>
       /\ ops[1].kind = 2 => membership[{u, ops[1].who}] # "none"
       /\ ops[1].kind > 2 => invite[<<ops[1].who, u>>] # "none"

\* What an open call has written of invites: its own first, those sent to its
\* caller answered; an accepted one with its membership.
InvitesFit(c) ==
  \A k \in DOMAIN call[c].inv :
    /\ call[c].inv[k] \in {"pending"} \union Answered
    /\ call[c].inv[k] = "pending" => k[1] = call[c].by /\ invite[k] = "none"
    /\ call[c].inv[k] # "pending" => invite[k] # "none"
    /\ call[c].inv[k] = "accepted" => PairOf(k) \in DOMAIN call[c].mem

\* And of memberships: one it has made is new and has its answered invite,
\* one it has revoked was there.
MembershipsFit(c) ==
  \A p \in DOMAIN call[c].mem :
    /\ call[c].mem[p] \in {"active", "revoked"}
    /\ call[c].mem[p] = "active" =>
         /\ membership[p] = "none"
         /\ \E k \in DOMAIN call[c].inv : p = PairOf(k) /\ call[c].inv[k] \in Answered
    /\ call[c].mem[p] = "revoked" => membership[p] # "none"

TrustInv ==
  /\ TrustTypeOK
  /\ RowsLocked
  /\ \A c \in Calls : Pursues(c) /\ InvitesFit(c) /\ MembershipsFit(c)
  /\ AnswersMatch

-----------------------------------------------------------------------------
\* Facts about the data.

LEMMA PairKeys ==
  /\ \A k \in InviteKeys : PairOf(k) \in MemberKeys /\ k[1] \in Users /\ k[2] \in Users /\ k[1] # k[2]
  /\ \A u, w \in Users : u # w => <<u, w>> \in InviteKeys /\ <<w, u>> \in InviteKeys
                                  /\ {u, w} \in MemberKeys /\ PairOf(<<w, u>>) = {u, w}
BY DEF InviteKeys, MemberKeys, PairOf

LEMMA CallFields ==
  ASSUME TrustTypeOK, NEW c \in Calls
  PROVE  /\ call[c].by \in Users \union {"nobody"} /\ call[c].ops \in Seq(Ops) /\ call[c].count \in Nat
         /\ call[c].want \in {"nothing", "write"}
         /\ DOMAIN call[c].inv \subseteq InviteKeys /\ DOMAIN call[c].mem \subseteq MemberKeys
         /\ call[c].inv \in [DOMAIN call[c].inv -> InviteStatus]
         /\ call[c].mem \in [DOMAIN call[c].mem -> MembershipStatus]
<1>1. call[c] \in CallStates
  BY DEF TrustTypeOK
<1>2. /\ call[c].inv \in UNION {[s -> InviteStatus] : s \in SUBSET InviteKeys}
      /\ call[c].mem \in UNION {[s -> MembershipStatus] : s \in SUBSET MemberKeys}
  BY <1>1 DEF CallStates
<1>3. PICK s \in SUBSET InviteKeys : call[c].inv \in [s -> InviteStatus]
  BY <1>2
<1>4. PICK t \in SUBSET MemberKeys : call[c].mem \in [t -> MembershipStatus]
  BY <1>2
<1>5. DOMAIN call[c].inv = s /\ DOMAIN call[c].mem = t
  BY <1>3, <1>4
<1> QED BY <1>1, <1>3, <1>4, <1>5 DEF CallStates

LEMMA NoRowsType == NoRows \in [{} -> {}] /\ DOMAIN NoRows = {}
BY DEF NoRows

LEMMA ClosedType ==
  ASSUME IsFiniteSet(Users)
  PROVE  Closed \in CallStates
<1>1. NotCounted \in Nat
  BY TrustAssumption, FS_CardinalityType DEF NotCounted
<1>2. /\ NoRows \in UNION {[s -> InviteStatus] : s \in SUBSET InviteKeys}
      /\ NoRows \in UNION {[s -> MembershipStatus] : s \in SUBSET MemberKeys}
  <2>1. NoRows \in [{} -> InviteStatus] /\ NoRows \in [{} -> MembershipStatus]
    BY DEF NoRows
  <2> QED BY <2>1
<1> QED BY <1>1, <1>2 DEF Closed, CallStates

\* What a call sees to be active it can count.
LEMMA CountType ==
  ASSUME IsFiniteSet(Users), NEW c \in Calls
  PROVE  ActiveCount(c) \in Nat
<1>1. IsFiniteSet(SUBSET Users)
  BY FS_SUBSET
<1>2. MemberKeys \subseteq SUBSET Users
  BY PairKeys DEF MemberKeys, PairOf
<1>3. IsFiniteSet(MemberKeys)
  BY <1>1, <1>2, FS_Subset
<1>4. IsFiniteSet({p \in MemberKeys : call[c].by \in p /\ MemberSeen(c, p) = "active"})
  BY <1>3, FS_Subset
<1> QED BY <1>4, FS_CardinalityType DEF ActiveCount

-----------------------------------------------------------------------------
\* The steps.

LEMMA TrustInitInv ==
  ASSUME TrustInit, IsFiniteSet(Users)
  PROVE  TrustInv
<1>1. \A c \in Calls : call[c] = Closed
  BY DEF TrustInit
<1>2. TrustTypeOK
  <2>1. call \in [Calls -> CallStates]
    BY ClosedType DEF TrustInit
  <2>2. invite \in [InviteKeys -> InviteStatus] /\ membership \in [MemberKeys -> MembershipStatus]
    BY DEF TrustInit, InviteStatus, MembershipStatus
  <2> QED BY <2>1, <2>2, TrustAssumption DEF TrustInit, TrustTypeOK
<1>3. RowsLocked
  BY <1>1 DEF RowsLocked, Closed, NoRows
<1>4. \A c \in Calls : Pursues(c) /\ InvitesFit(c) /\ MembershipsFit(c)
  BY <1>1 DEF Pursues, InvitesFit, MembershipsFit, Closed, NoRows
<1>5. AnswersMatch
  <2>1. \A p \in MemberKeys : membership[p] = "none"
    BY DEF TrustInit
  <2>2. \A k \in InviteKeys : invite[k] \in {"none", "pending"}
    BY DEF TrustInit
  <2> QED BY <2>1, <2>2 DEF AnswersMatch
<1> QED BY <1>2, <1>3, <1>4, <1>5 DEF TrustInv

\* A step that leaves the tables and changes one call to one that fits them.
LEMMA CallChanges ==
  ASSUME TrustInv, NEW c \in Calls, NEW new \in CallStates,
         call' = [call EXCEPT ![c] = new],
         UNCHANGED <<invite, membership>>, joined' \in SUBSET Users, calls' \in 0..MaxCalls,
         \A d \in Calls : d # c =>
           DOMAIN new.inv \cap DOMAIN call[d].inv = {} /\ DOMAIN new.mem \cap DOMAIN call[d].mem = {},
         Pursues(c)', InvitesFit(c)', MembershipsFit(c)'
  PROVE  TrustInv'
<1>1. TrustTypeOK'
  BY DEF TrustInv, TrustTypeOK
<1>2. call'[c] = new /\ \A d \in Calls \ {c} : call'[d] = call[d]
  BY DEF TrustInv, TrustTypeOK
<1>3. RowsLocked'
  BY <1>2 DEF TrustInv, RowsLocked
<1>4. \A d \in Calls : Pursues(d)' /\ InvitesFit(d)' /\ MembershipsFit(d)'
  <2>1. SUFFICES ASSUME NEW d \in Calls \ {c}
                 PROVE  Pursues(d)' /\ InvitesFit(d)' /\ MembershipsFit(d)'
    OBVIOUS
  <2>2. call'[d] = call[d] /\ invite' = invite /\ membership' = membership
    BY <1>2
  <2>3. Pursues(d)'
    BY <2>2 DEF TrustInv, Pursues
  <2>4. InvitesFit(d)'
    BY <2>2 DEF TrustInv, InvitesFit
  <2>5. MembershipsFit(d)'
    BY <2>2 DEF TrustInv, MembershipsFit
  <2> QED BY <2>3, <2>4, <2>5
<1>5. AnswersMatch'
  BY DEF TrustInv, AnswersMatch
<1> QED BY <1>1, <1>3, <1>4, <1>5 DEF TrustInv

\* A call that ends without a commit.
LEMMA CallCloses ==
  ASSUME TrustInv, IsFiniteSet(Users), NEW c \in Calls, call' = [call EXCEPT ![c] = Closed],
         UNCHANGED <<joined, invite, membership, calls>>
  PROVE  TrustInv'
<1>1. call'[c] = Closed
  BY DEF TrustInv, TrustTypeOK
<1>2. Pursues(c)' /\ InvitesFit(c)' /\ MembershipsFit(c)'
  BY <1>1 DEF Pursues, InvitesFit, MembershipsFit, Closed, NoRows
<1>3. DOMAIN Closed.inv = {} /\ DOMAIN Closed.mem = {}
  BY DEF Closed, NoRows
<1>4. joined' \in SUBSET Users /\ calls' \in 0..MaxCalls
  BY DEF TrustInv, TrustTypeOK
<1> QED BY <1>2, <1>3, <1>4, ClosedType, CallChanges

LEMMA TailOfOps ==
  ASSUME NEW ops \in Seq(Ops), ops # <<>>
  PROVE  /\ Head(ops) = ops[1] /\ Head(ops) \in Ops /\ 1 \in DOMAIN ops
         /\ Tail(ops) \in Seq(Ops)
         /\ \A i \in DOMAIN Tail(ops) : i + 1 \in DOMAIN ops /\ Tail(ops)[i] = ops[i + 1]
<1>1. Len(ops) \in Nat /\ Len(ops) # 0 /\ DOMAIN ops = 1..Len(ops)
  BY EmptySeq, SMT
<1>2. /\ Tail(ops) \in Seq(Ops) /\ Len(Tail(ops)) = Len(ops) - 1 /\ Head(ops) \in Ops
      /\ \A i \in 1..Len(Tail(ops)) : Tail(ops)[i] = ops[i + 1]
  BY HeadTailProperties
<1>3. DOMAIN Tail(ops) = 1..Len(Tail(ops))
  BY <1>2
<1> QED BY <1>1, <1>2, <1>3

\* A call whose rows stay, and that still pursues what applies, may go on.
LEMMA CallGoesOn ==
  ASSUME TrustInv, NEW c \in Calls,
         NEW ops \in Seq(Ops), NEW count \in Nat, NEW want \in {"nothing", "write"},
         call' = [call EXCEPT ![c] = [call[c] EXCEPT !.ops = ops, !.count = count, !.want = want]],
         UNCHANGED <<joined, invite, membership, calls>>,
         Pursues(c)'
  PROVE  TrustInv'
<1> DEFINE new == [call[c] EXCEPT !.ops = ops, !.count = count, !.want = want]
<1>1. call[c] \in CallStates
  BY DEF TrustInv, TrustTypeOK
<1>2. new \in CallStates /\ new.inv = call[c].inv /\ new.mem = call[c].mem /\ new.by = call[c].by
  BY <1>1 DEF CallStates
<1>3. call'[c] = new /\ invite' = invite /\ membership' = membership
  BY DEF TrustInv, TrustTypeOK
<1> HIDE DEF new
<1>4. InvitesFit(c)'
  BY <1>2, <1>3 DEF TrustInv, InvitesFit
<1>5. MembershipsFit(c)'
  BY <1>2, <1>3 DEF TrustInv, MembershipsFit
<1>6. \A d \in Calls : d # c =>
        DOMAIN new.inv \cap DOMAIN call[d].inv = {} /\ DOMAIN new.mem \cap DOMAIN call[d].mem = {}
  BY <1>2 DEF TrustInv, RowsLocked
<1>7. joined' \in SUBSET Users /\ calls' \in 0..MaxCalls
  BY DEF TrustInv, TrustTypeOK
<1>8. call' = [call EXCEPT ![c] = new]
  BY DEF new
<1> QED BY <1>2, <1>4, <1>5, <1>6, <1>7, <1>8, CallChanges

LEMMA NotApplicableKeeps ==
  ASSUME TrustInv, NEW c \in Calls, NEW n \in Nat, Reads(c), NotApplicable(c, n),
         UNCHANGED <<joined, invite, membership, calls>>
  PROVE  TrustInv'
<1>1. call[c] \in CallStates /\ call[c].ops \in Seq(Ops) /\ call[c].ops # <<>> /\ call[c].want = "nothing"
  BY CallFields DEF TrustInv, TrustTypeOK, Reads
<1>2. call' = [call EXCEPT ![c] = [call[c] EXCEPT !.ops = Tail(call[c].ops), !.count = n, !.want = "nothing"]]
  BY <1>1 DEF NotApplicable, TrustInv, TrustTypeOK, CallStates
<1>3. /\ call'[c].ops = Tail(call[c].ops) /\ call'[c].want = "nothing" /\ call'[c].by = call[c].by
      /\ call'[c].mem = call[c].mem
  BY <1>1, <1>2 DEF TrustInv, TrustTypeOK, CallStates
<1>4. Pursues(c)
  BY DEF TrustInv
<1>5. Pursues(c)'
  <2>1. \A i \in DOMAIN Tail(call[c].ops) :
           i \in Int /\ i + 1 \in DOMAIN call[c].ops /\ Tail(call[c].ops)[i] = call[c].ops[i + 1]
    BY <1>1, TailOfOps
  <2> DEFINE ops == call[c].ops
             rest == Tail(call[c].ops)
  <2>2. /\ \A i \in DOMAIN rest : rest[i].who # call[c].by
        /\ \A i, j \in DOMAIN rest : i < j => rest[i].kind <= rest[j].kind
        /\ \A p \in DOMAIN call[c].mem : call[c].mem[p] = "active" => \A i \in DOMAIN rest : rest[i].kind > 2
    <3>1. \A i, j \in DOMAIN rest : i < j => i + 1 < j + 1
      BY <2>1
    <3> QED BY <1>4, <2>1, <3>1 DEF Pursues
  <2>3. call[c].by \in Users
    BY <1>1, <1>4 DEF Pursues
  <2> HIDE DEF rest
  <2>4. call'[c].ops = rest
    BY <1>3 DEF rest
  <2> QED BY <1>3, <2>2, <2>3, <2>4 DEF Pursues
<1> QED BY <1>1, <1>2, <1>5, TailOfOps, CallGoesOn

\* What makes an operation apply.
Applies(c) ==
  /\ Current(c).kind = 2 => membership[{call[c].by, Current(c).who}] # "none"
  /\ Current(c).kind > 2 => invite[<<Current(c).who, call[c].by>>] # "none"

LEMMA DecideKeeps ==
  ASSUME TrustInv, NEW c \in Calls, NEW n \in Nat, Reads(c), Decide(c, n), Applies(c),
         UNCHANGED <<joined, invite, membership, calls>>
  PROVE  TrustInv'
<1>1. call[c] \in CallStates /\ call[c].ops \in Seq(Ops) /\ call[c].ops # <<>>
  BY CallFields DEF TrustInv, TrustTypeOK, Reads
<1>2. call' = [call EXCEPT ![c] = [call[c] EXCEPT !.ops = call[c].ops, !.count = n, !.want = "write"]]
  BY <1>1 DEF Decide, TrustInv, TrustTypeOK, CallStates
<1>3. /\ call'[c].ops = call[c].ops /\ call'[c].want = "write" /\ call'[c].by = call[c].by
      /\ call'[c].mem = call[c].mem
  BY <1>1, <1>2 DEF TrustInv, TrustTypeOK, CallStates
<1>4. Pursues(c) /\ Current(c) = call[c].ops[1] /\ invite' = invite /\ membership' = membership
  BY <1>1, TailOfOps DEF TrustInv, Current
<1>5. Pursues(c)'
  BY <1>1, <1>3, <1>4 DEF Pursues, Applies
<1> QED BY <1>1, <1>2, <1>5, CallGoesOn

\* What a call is about to do names two users, whose rows there may be.
LEMMA CurrentKeys ==
  ASSUME TrustInv, NEW c \in Calls, call[c].ops # <<>>
  PROVE  /\ Current(c) = call[c].ops[1] /\ Current(c) \in Ops /\ Current(c).kind \in 1..4
         /\ call[c].by \in Users /\ Current(c).who \in Users /\ Current(c).who # call[c].by
         /\ <<call[c].by, Current(c).who>> \in InviteKeys /\ <<Current(c).who, call[c].by>> \in InviteKeys
         /\ {call[c].by, Current(c).who} \in MemberKeys
<1>1. call[c].ops \in Seq(Ops) /\ call[c].by \in Users
  BY CallFields DEF TrustInv, Pursues
<1>2. Current(c) = call[c].ops[1] /\ Current(c) \in Ops /\ 1 \in DOMAIN call[c].ops
  BY <1>1, TailOfOps DEF Current
<1>3. Current(c).kind \in 1..4 /\ Current(c).who \in Users
  BY <1>2 DEF Ops
<1>4. Current(c).who # call[c].by
  BY <1>2 DEF TrustInv, Pursues
<1> QED BY <1>1, <1>2, <1>3, <1>4, PairKeys

LEMMA AddMemberKeeps ==
  ASSUME TrustInv, IsFiniteSet(Users), NEW c \in Calls, AddMember(c)
  PROVE  TrustInv'
<1> DEFINE n == IF call[c].count = NotCounted THEN ActiveCount(c) ELSE call[c].count
           after == IF Current(c).who \in joined THEN n + 1 ELSE n
<1>1. n \in Nat /\ after \in Nat
  BY CallFields, CountType DEF TrustInv
<1>2. Reads(c) /\ Current(c).kind = 1 /\ UNCHANGED <<joined, invite, membership, calls>>
  BY DEF AddMember
<1>3. NotApplicable(c, n) \/ NotApplicable(c, after) \/ Decide(c, after)
  <2>1. n \in Int /\ Cap \in Int
    BY <1>1, TrustAssumption
  <2> HIDE DEF n
  <2>2. CASE n >= Cap
    BY <2>1, <2>2 DEF AddMember, n
  <2>3. CASE n < Cap
    BY <2>1, <2>3 DEF AddMember, n
  <2> QED BY <2>1, <2>2, <2>3
<1> HIDE DEF n, after
<1>4. CASE NotApplicable(c, n)
  BY <1>1, <1>2, <1>4, NotApplicableKeeps
<1>5. CASE NotApplicable(c, after)
  BY <1>1, <1>2, <1>5, NotApplicableKeeps
<1>6. CASE Decide(c, after)
  <2>1. Applies(c)
    BY <1>2 DEF Applies
  <2> QED BY <1>1, <1>2, <1>6, <2>1, DecideKeeps
<1> QED BY <1>3, <1>4, <1>5, <1>6

LEMMA RemoveMemberKeeps ==
  ASSUME TrustInv, NEW c \in Calls, RemoveMember(c)
  PROVE  TrustInv'
<1> DEFINE p == {call[c].by, Current(c).who}
<1>1. /\ Reads(c) /\ Current(c).kind = 2 /\ call[c].count \in Nat /\ UNCHANGED <<joined, invite, membership, calls>>
      /\ Pursues(c) /\ MembershipsFit(c)
  BY CallFields DEF RemoveMember, TrustInv
<1>2. CASE Decide(c, call[c].count) /\ MemberSeen(c, p) = "active"
  <2>1. Current(c) = call[c].ops[1] /\ 1 \in DOMAIN call[c].ops
    BY <1>1, CurrentKeys, CallFields, TailOfOps DEF Reads, TrustInv
  <2>2. p \notin DOMAIN call[c].mem
    BY <1>1, <1>2, <2>1 DEF MemberSeen, Pursues
  <2>3. membership[p] # "none"
    BY <1>2, <2>2 DEF MemberSeen
  <2>4. Applies(c)
    BY <1>1, <2>3 DEF Applies
  <2> QED BY <1>1, <1>2, <2>4, DecideKeeps
<1>3. CASE NotApplicable(c, call[c].count)
  BY <1>1, <1>3, NotApplicableKeeps
<1> QED BY <1>2, <1>3 DEF RemoveMember

LEMMA AnswerKeeps ==
  ASSUME TrustInv, NEW c \in Calls, Answer(c)
  PROVE  TrustInv'
<1> DEFINE k == <<Current(c).who, call[c].by>>
<1>1. /\ Reads(c) /\ Current(c).kind > 2 /\ call[c].count \in Nat /\ UNCHANGED <<joined, invite, membership, calls>>
      /\ InvitesFit(c)
  BY CallFields DEF Answer, TrustInv
<1>2. CASE Decide(c, call[c].count) /\ InviteSeen(c, k) = "pending"
  <2>1. Current(c).who # call[c].by /\ Current(c).kind \in 1..4
    BY <1>1, CurrentKeys DEF Reads
  <2>2. k \notin DOMAIN call[c].inv
    BY <1>1, <1>2, <2>1 DEF InviteSeen, InvitesFit
  <2>3. invite[k] # "none"
    BY <1>2, <2>2 DEF InviteSeen
  <2>4. Applies(c)
    BY <1>1, <2>1, <2>3 DEF Applies
  <2> QED BY <1>1, <1>2, <2>4, DecideKeeps
<1>3. CASE NotApplicable(c, call[c].count)
  BY <1>1, <1>3, NotApplicableKeeps
<1> QED BY <1>2, <1>3 DEF Answer

LEMMA OpenCallKeeps ==
  ASSUME TrustInv, IsFiniteSet(Users), NEW c \in Calls, OpenCall(c)
  PROVE  TrustInv'
<1>1. PICK u \in joined, ops \in Requests :
        /\ \A i \in DOMAIN ops : ops[i].who # u
        /\ call' = [call EXCEPT ![c] = [Closed EXCEPT !.by = u, !.ops = ops]]
  BY DEF OpenCall
<1> DEFINE new == [Closed EXCEPT !.by = u, !.ops = ops]
<1>2. /\ ops \in Seq(Ops) /\ u \in Users
      /\ \A i, j \in DOMAIN ops : i < j => ops[i].kind <= ops[j].kind
  <2>1. PICK n \in 1..MaxOps : ops \in [1..n -> Ops]
    BY DEF Requests
  <2>2. n \in Nat
    BY <2>1, TrustAssumption
  <2>3. ops \in Seq(Ops)
    BY <2>1, <2>2, IsASeq
  <2> QED BY <2>3 DEF Requests, TrustInv, TrustTypeOK
<1>3. new \in CallStates
  BY <1>2, ClosedType DEF CallStates
<1>4. new.inv = NoRows /\ new.mem = NoRows /\ new.by = u /\ new.ops = ops /\ new.want = "nothing"
  BY DEF Closed
<1>5. call'[c] = new
  BY <1>1 DEF TrustInv, TrustTypeOK
<1> HIDE DEF new
<1>6. Pursues(c)'
  BY <1>1, <1>2, <1>4, <1>5, NoRowsType DEF Pursues
<1>7. InvitesFit(c)' /\ MembershipsFit(c)'
  BY <1>4, <1>5, NoRowsType DEF InvitesFit, MembershipsFit
<1>8. UNCHANGED <<invite, membership>> /\ joined' \in SUBSET Users /\ calls' \in 0..MaxCalls
  BY TrustAssumption DEF OpenCall, TrustInv, TrustTypeOK
<1>9. call' = [call EXCEPT ![c] = new]
  BY <1>1 DEF new
<1> QED BY <1>3, <1>4, <1>6, <1>7, <1>8, <1>9, NoRowsType, CallChanges

-----------------------------------------------------------------------------
\* Writing.

\* What an operation writes.
LEMMA Writes ==
  ASSUME NEW u \in Users, NEW op \in Ops
  PROVE  /\ op.kind = 1 => /\ DOMAIN InviteWrites(u, op) = {<<u, op.who>>} /\ DOMAIN MemberWrites(u, op) = {}
                           /\ InviteWrites(u, op)[<<u, op.who>>] = "pending"
         /\ op.kind = 2 => /\ DOMAIN InviteWrites(u, op) = {} /\ DOMAIN MemberWrites(u, op) = {{u, op.who}}
                           /\ MemberWrites(u, op)[{u, op.who}] = "revoked"
         /\ op.kind = 3 => /\ DOMAIN InviteWrites(u, op) = {<<op.who, u>>}
                           /\ InviteWrites(u, op)[<<op.who, u>>] = "accepted"
                           /\ DOMAIN MemberWrites(u, op) = {{u, op.who}}
                           /\ MemberWrites(u, op)[{u, op.who}] = "active"
         /\ op.kind = 4 => /\ DOMAIN InviteWrites(u, op) = {<<op.who, u>>} /\ DOMAIN MemberWrites(u, op) = {}
                           /\ InviteWrites(u, op)[<<op.who, u>>] = "declined"
<1>1. CASE op.kind = 1
  BY <1>1 DEF InviteWrites, MemberWrites, RowOf, NoRows
<1>2. CASE op.kind = 2
  BY <1>2 DEF InviteWrites, MemberWrites, RowOf, NoRows
<1>3. CASE op.kind = 3
  BY <1>3 DEF InviteWrites, MemberWrites, RowOf
<1>4. CASE op.kind = 4
  BY <1>4 DEF InviteWrites, MemberWrites, RowOf, NoRows
<1> QED BY <1>1, <1>2, <1>3, <1>4 DEF Ops

\* Rows iw and mw, to be written by u's call c in an operation of this kind,
\* fit what is committed, and what the call wrote before.
Fitting(c, u, kind, iw, mw) ==
  /\ \A k \in DOMAIN iw :
       /\ k \in InviteKeys /\ iw[k] \in {"pending"} \union Answered
       /\ iw[k] = "pending" => k[1] = u /\ invite[k] = "none" /\ k \notin DOMAIN call[c].inv
       /\ iw[k] # "pending" => invite[k] # "none"
       /\ iw[k] = "accepted" => PairOf(k) \in DOMAIN mw
  /\ \A p \in DOMAIN mw :
       /\ p \in MemberKeys /\ mw[p] \in {"active", "revoked"}
       /\ mw[p] = "active" => /\ membership[p] = "none" /\ kind = 3
                              /\ \E k \in DOMAIN iw : p = PairOf(k) /\ iw[k] \in Answered
       /\ mw[p] = "revoked" => membership[p] # "none"

LEMMA WritesFit ==
  ASSUME TrustInv, NEW c \in Calls, call[c].want = "write", ~Exists(c),
         NEW u, NEW op, u = call[c].by, op = Current(c)
  PROVE  Fitting(c, u, op.kind, InviteWrites(u, op), MemberWrites(u, op))
<1> DEFINE iw == InviteWrites(u, op)
           mw == MemberWrites(u, op)
<1>1. Pursues(c) /\ InvitesFit(c) /\ MembershipsFit(c) /\ call[c].ops # <<>>
  BY DEF TrustInv, Pursues
<1>2. /\ op = call[c].ops[1] /\ op \in Ops /\ op.kind \in 1..4 /\ op.who # u /\ u \in Users
      /\ <<u, op.who>> \in InviteKeys /\ <<op.who, u>> \in InviteKeys /\ {u, op.who} \in MemberKeys
      /\ PairOf(<<op.who, u>>) = {u, op.who}
  BY <1>1, CurrentKeys, PairKeys
<1>3. /\ op.kind = 2 => membership[{u, op.who}] # "none"
      /\ op.kind > 2 => invite[<<op.who, u>>] # "none"
  BY <1>1, <1>2 DEF Pursues
<1>4. op.kind = 1 => invite[<<u, op.who>>] = "none" /\ <<u, op.who>> \notin DOMAIN call[c].inv
  BY <1>1 DEF Exists, InviteSeen, InvitesFit, Answered
<1>5. op.kind = 3 => membership[{u, op.who}] = "none"
  BY <1>1 DEF Exists, MemberSeen, MembershipsFit
<1>6. CASE op.kind = 1
  <2>1. DOMAIN iw = {<<u, op.who>>} /\ iw[<<u, op.who>>] = "pending" /\ DOMAIN mw = {}
    BY <1>2, <1>6, Writes
  <2> HIDE DEF iw, mw
  <2>9. Fitting(c, u, op.kind, iw, mw)
    BY <1>2, <1>4, <1>6, <2>1 DEF Fitting
  <2> QED BY <2>9 DEF iw, mw
<1>7. CASE op.kind = 2
  <2>1. DOMAIN iw = {} /\ DOMAIN mw = {{u, op.who}} /\ mw[{u, op.who}] = "revoked"
    BY <1>2, <1>7, Writes
  <2> HIDE DEF iw, mw
  <2>9. Fitting(c, u, op.kind, iw, mw)
    BY <1>2, <1>3, <1>7, <2>1 DEF Fitting
  <2> QED BY <2>9 DEF iw, mw
<1>8. CASE op.kind = 3
  <2>1. /\ DOMAIN iw = {<<op.who, u>>} /\ iw[<<op.who, u>>] = "accepted"
        /\ DOMAIN mw = {{u, op.who}} /\ mw[{u, op.who}] = "active"
    BY <1>2, <1>8, Writes
  <2>2. invite[<<op.who, u>>] # "none"
    BY <1>3, <1>8
  <2> HIDE DEF iw, mw
  <2>9. Fitting(c, u, op.kind, iw, mw)
    BY <1>2, <1>5, <1>8, <2>1, <2>2 DEF Fitting, Answered
  <2> QED BY <2>9 DEF iw, mw
<1>9. CASE op.kind = 4
  <2>1. DOMAIN iw = {<<op.who, u>>} /\ iw[<<op.who, u>>] = "declined" /\ DOMAIN mw = {}
    BY ZenonT(30), <1>2, <1>9, Writes
  <2>2. invite[<<op.who, u>>] # "none"
    BY <1>3, <1>9
  <2> HIDE DEF iw, mw
  <2>9. Fitting(c, u, op.kind, iw, mw)
    BY <1>2, <2>1, <2>2 DEF Fitting, Answered
  <2> QED BY <2>9 DEF iw, mw
<1> QED BY <1>2, <1>6, <1>7, <1>8, <1>9

LEMMA WriteRowsKeeps ==
  ASSUME TrustInv, IsFiniteSet(Users), NEW c \in Calls, WriteRows(c)
  PROVE  TrustInv'
<1>1. CASE Exists(c)
  <2>1. call' = [call EXCEPT ![c] = Closed] /\ UNCHANGED <<joined, invite, membership, calls>>
    BY <1>1 DEF WriteRows
  <2> QED BY <2>1, CallCloses
<1>2. CASE ~Exists(c)
  <2> DEFINE u == call[c].by
             op == Current(c)
             iw == InviteWrites(u, op)
             mw == MemberWrites(u, op)
             inv == Overlay(iw, call[c].inv)
             mem == Overlay(mw, call[c].mem)
             rest == Tail(call[c].ops)
             new == Written(c)
  <2>1. call[c].want = "write" /\ UNCHANGED <<joined, invite, membership, calls>>
        /\ \A d \in Calls : ~WaitsFor(c, d)
    BY DEF WriteRows
  <2>2. call' = [call EXCEPT ![c] = new]
    BY <1>2 DEF WriteRows
  <2>3. Pursues(c) /\ InvitesFit(c) /\ MembershipsFit(c) /\ RowsLocked
    BY DEF TrustInv
  <2>4. call[c].ops # <<>> /\ u \in Users /\ op = call[c].ops[1]
    BY <2>1, <2>3, CurrentKeys DEF Pursues
  <2>5. Fitting(c, u, op.kind, iw, mw)
    BY <1>2, <2>1, WritesFit
  <2>6. \A d \in Calls : d # c => /\ DOMAIN iw \cap DOMAIN call[d].inv = {}
                                  /\ DOMAIN mw \cap DOMAIN call[d].mem = {}
    BY <2>1 DEF WaitsFor
  <2>7. /\ DOMAIN inv = DOMAIN iw \union DOMAIN call[c].inv
        /\ \A k \in DOMAIN inv : inv[k] = IF k \in DOMAIN iw THEN iw[k] ELSE call[c].inv[k]
        /\ DOMAIN mem = DOMAIN mw \union DOMAIN call[c].mem
        /\ \A p \in DOMAIN mem : mem[p] = IF p \in DOMAIN mw THEN mw[p] ELSE call[c].mem[p]
    <3> HIDE DEF iw, mw
    <3>1. /\ DOMAIN inv = DOMAIN iw \union DOMAIN call[c].inv
          /\ \A k \in DOMAIN inv : inv[k] = IF k \in DOMAIN iw THEN iw[k] ELSE call[c].inv[k]
      BY DEF Overlay
    <3>2. /\ DOMAIN mem = DOMAIN mw \union DOMAIN call[c].mem
          /\ \A p \in DOMAIN mem : mem[p] = IF p \in DOMAIN mw THEN mw[p] ELSE call[c].mem[p]
      BY DEF Overlay
    <3> QED BY <3>1, <3>2
  <2>8. /\ call[c] \in CallStates /\ call[c].ops \in Seq(Ops)
        /\ DOMAIN call[c].inv \subseteq InviteKeys /\ DOMAIN call[c].mem \subseteq MemberKeys
        /\ call[c].inv \in [DOMAIN call[c].inv -> InviteStatus]
        /\ call[c].mem \in [DOMAIN call[c].mem -> MembershipStatus]
    BY CallFields DEF TrustInv, TrustTypeOK
  <2> HIDE DEF new
  <2>0. new = [call[c] EXCEPT !.ops = rest, !.want = "nothing", !.inv = inv, !.mem = mem]
    BY DEF Written, new
  <2>9. rest \in Seq(Ops) /\ \A i \in DOMAIN rest : i \in Int /\ i + 1 \in DOMAIN call[c].ops /\ rest[i] = call[c].ops[i + 1]
    BY <2>4, <2>8, TailOfOps
  <2> HIDE DEF iw, mw, rest, u, op
  <2>10. new \in CallStates
    <3>1. inv \in [DOMAIN inv -> InviteStatus] /\ DOMAIN inv \in SUBSET InviteKeys
      <4>1. \A k \in DOMAIN inv : inv[k] \in InviteStatus
        BY <2>5, <2>7, <2>8 DEF InviteStatus, Answered, Fitting
      <4> QED BY <2>5, <2>7, <2>8, <4>1 DEF Overlay, Fitting
    <3>2. mem \in [DOMAIN mem -> MembershipStatus] /\ DOMAIN mem \in SUBSET MemberKeys
      <4>1. \A p \in DOMAIN mem : mem[p] \in MembershipStatus
        BY <2>5, <2>7, <2>8 DEF MembershipStatus, Fitting
      <4> QED BY <2>5, <2>7, <2>8, <4>1 DEF Overlay, Fitting
    <3> HIDE DEF inv, mem
    <3>3. /\ inv \in UNION {[s -> InviteStatus] : s \in SUBSET InviteKeys}
          /\ mem \in UNION {[s -> MembershipStatus] : s \in SUBSET MemberKeys}
      BY <3>1, <3>2
    <3> QED BY <2>0, <2>8, <2>9, <3>3 DEF CallStates
  <2>11. new.inv = inv /\ new.mem = mem /\ new.ops = rest /\ new.want = "nothing" /\ new.by = u
    BY <2>0, <2>8 DEF CallStates, u
  <2>12. call'[c] = new /\ invite' = invite /\ membership' = membership
    BY <2>1, <2>2 DEF TrustInv, TrustTypeOK
  <2> HIDE DEF inv, mem
  <2>13. Pursues(c)'
    <3>1. /\ \A i \in DOMAIN rest : rest[i].who # u
          /\ \A i, j \in DOMAIN rest : i < j => rest[i].kind <= rest[j].kind
      <4>1. \A i, j \in DOMAIN rest : i < j => i + 1 < j + 1
        BY <2>9
      <4> QED BY <2>3, <2>9, <4>1 DEF Pursues, u
    <3>2. \A p \in DOMAIN mem : mem[p] = "active" => \A i \in DOMAIN rest : rest[i].kind > 2
      <4>1. ASSUME NEW p \in DOMAIN mem, mem[p] = "active", NEW i \in DOMAIN rest
            PROVE  rest[i].kind > 2
        <5>1. CASE p \in DOMAIN mw
          <6>1. call[c].ops[1].kind = 3
            BY <2>4, <2>5, <2>7, <4>1, <5>1 DEF Fitting
          <6>2. i + 1 > 1 /\ 1 \in DOMAIN call[c].ops /\ i + 1 \in DOMAIN call[c].ops
            BY <2>4, <2>8, <2>9, TailOfOps
          <6>3. 3 <= call[c].ops[i + 1].kind /\ call[c].ops[i + 1].kind \in 1..4
            <7>1. call[c].ops[i + 1] \in Ops
              BY <2>8, <6>2
            <7> QED BY <2>3, <6>1, <6>2, <7>1 DEF Pursues, Ops
          <6> QED BY <2>9, <6>3
        <5>2. CASE p \notin DOMAIN mw
          BY <2>3, <2>7, <2>9, <4>1, <5>2 DEF Pursues
        <5> QED BY <5>1, <5>2
      <4> QED BY <4>1
    <3> QED BY <2>4, <2>11, <2>12, <3>1, <3>2 DEF Pursues
  <2>14. InvitesFit(c)'
    <3>1. ASSUME NEW k \in DOMAIN inv
          PROVE  /\ inv[k] \in {"pending"} \union Answered
                 /\ inv[k] = "pending" => k[1] = u /\ invite[k] = "none"
                 /\ inv[k] # "pending" => invite[k] # "none"
                 /\ inv[k] = "accepted" => PairOf(k) \in DOMAIN mem
      <4>1. CASE k \in DOMAIN iw
        BY <2>5, <2>7, <4>1 DEF Fitting
      <4>2. CASE k \notin DOMAIN iw
        BY <2>3, <2>7, <4>2 DEF InvitesFit, u
      <4> QED BY <4>1, <4>2
    <3> QED BY <2>11, <2>12, <3>1 DEF InvitesFit
  <2>15. MembershipsFit(c)'
    <3>1. ASSUME NEW p \in DOMAIN mem
          PROVE  /\ mem[p] \in {"active", "revoked"}
                 /\ mem[p] = "active" =>
                      /\ membership[p] = "none"
                      /\ \E k \in DOMAIN inv : p = PairOf(k) /\ inv[k] \in Answered
                 /\ mem[p] = "revoked" => membership[p] # "none"
      <4>1. CASE p \in DOMAIN mw
        BY <2>5, <2>7, <4>1 DEF Fitting
      <4>2. CASE p \notin DOMAIN mw
        <5>1. /\ mem[p] \in {"active", "revoked"}
              /\ mem[p] = "active" => membership[p] = "none"
              /\ mem[p] = "revoked" => membership[p] # "none"
          BY <2>3, <2>7, <4>2 DEF MembershipsFit
        <5>2. ASSUME mem[p] = "active"
              PROVE  \E k \in DOMAIN inv : p = PairOf(k) /\ inv[k] \in Answered
          <6>1. PICK k \in DOMAIN call[c].inv : p = PairOf(k) /\ call[c].inv[k] \in Answered
            BY <2>3, <2>7, <4>2, <5>2 DEF MembershipsFit
          <6>2. k \in DOMAIN inv
            BY <2>7
          <6>3. inv[k] \in Answered
            BY <2>5, <2>7, <6>1, <6>2 DEF Answered, Fitting
          <6> QED BY <6>1, <6>2, <6>3
        <5> QED BY <5>1, <5>2
      <4> QED BY <4>1, <4>2
    <3> QED BY <2>11, <2>12, <3>1 DEF MembershipsFit
  <2>16. \A d \in Calls : d # c => /\ DOMAIN new.inv \cap DOMAIN call[d].inv = {}
                                   /\ DOMAIN new.mem \cap DOMAIN call[d].mem = {}
    BY <2>3, <2>6, <2>7, <2>11 DEF RowsLocked
  <2>17. UNCHANGED <<invite, membership>> /\ joined' \in SUBSET Users /\ calls' \in 0..MaxCalls
    BY <2>1 DEF TrustInv, TrustTypeOK
  <2> QED BY <2>2, <2>10, <2>13, <2>14, <2>15, <2>16, <2>17, CallChanges
<1> QED BY <1>1, <1>2

-----------------------------------------------------------------------------
\* The commit: what it leaves of the tables.
LEMMA Committed ==
  ASSUME TrustInv, NEW c \in Calls, CommitCall(c)
  PROVE  /\ \A k \in InviteKeys :
              invite'[k] = IF k \in DOMAIN call[c].inv THEN call[c].inv[k] ELSE invite[k]
         /\ \A p \in MemberKeys :
              membership'[p] = IF p \in DOMAIN call[c].mem THEN call[c].mem[p] ELSE membership[p]
         /\ invite' \in [InviteKeys -> InviteStatus] /\ membership' \in [MemberKeys -> MembershipStatus]
         /\ \A k \in InviteKeys : invite[k] # "none" => invite'[k] # "none"
         /\ \A p \in MemberKeys : membership[p] # "none" => membership'[p] # "none"
<1> DEFINE inv == call[c].inv
           mem == call[c].mem
<1>1. /\ DOMAIN inv \subseteq InviteKeys /\ inv \in [DOMAIN inv -> InviteStatus]
      /\ DOMAIN mem \subseteq MemberKeys /\ mem \in [DOMAIN mem -> MembershipStatus]
  BY CallFields DEF TrustInv
<1>2. /\ invite' = Overlay(inv, invite) /\ invite \in [InviteKeys -> InviteStatus]
      /\ membership' = Overlay(mem, membership) /\ membership \in [MemberKeys -> MembershipStatus]
  BY DEF CommitCall, TrustInv, TrustTypeOK
<1>3. /\ \A k \in DOMAIN inv : inv[k] # "none"
      /\ \A p \in DOMAIN mem : mem[p] # "none"
  BY DEF TrustInv, InvitesFit, MembershipsFit, Answered
<1> HIDE DEF inv, mem
<1>4. /\ DOMAIN invite' = InviteKeys
      /\ \A k \in InviteKeys : invite'[k] = IF k \in DOMAIN inv THEN inv[k] ELSE invite[k]
  BY <1>1, <1>2 DEF Overlay
<1>5. /\ DOMAIN membership' = MemberKeys
      /\ \A p \in MemberKeys : membership'[p] = IF p \in DOMAIN mem THEN mem[p] ELSE membership[p]
  BY <1>1, <1>2 DEF Overlay
<1>6. invite' \in [InviteKeys -> InviteStatus]
  <2>1. \A k \in InviteKeys : invite'[k] \in InviteStatus
    BY <1>1, <1>2, <1>4
  <2> QED BY <1>1, <1>2, <1>4, <2>1 DEF Overlay
<1>7. membership' \in [MemberKeys -> MembershipStatus]
  <2>1. \A p \in MemberKeys : membership'[p] \in MembershipStatus
    BY <1>1, <1>2, <1>5
  <2> QED BY <1>1, <1>2, <1>5, <2>1 DEF Overlay
<1> QED BY <1>3, <1>4, <1>5, <1>6, <1>7 DEF inv, mem

LEMMA CommitKeeps ==
  ASSUME TrustInv, IsFiniteSet(Users), NEW c \in Calls, CommitCall(c)
  PROVE  TrustInv'
<1> DEFINE inv == call[c].inv
           mem == call[c].mem
<1>1. call' = [call EXCEPT ![c] = Closed] /\ UNCHANGED <<joined, calls>>
  BY DEF CommitCall
<1>2. call'[c] = Closed /\ \A d \in Calls \ {c} : call'[d] = call[d]
  BY <1>1 DEF TrustInv, TrustTypeOK
<1>3. TrustTypeOK'
  BY <1>1, ClosedType, Committed DEF TrustInv, TrustTypeOK
<1>4. RowsLocked'
  <2>1. DOMAIN Closed.inv = {} /\ DOMAIN Closed.mem = {}
    BY DEF Closed, NoRows
  <2> QED BY <1>2, <2>1 DEF TrustInv, RowsLocked
<1>5. Pursues(c)' /\ InvitesFit(c)' /\ MembershipsFit(c)'
  BY <1>2 DEF Pursues, InvitesFit, MembershipsFit, Closed, NoRows
<1>6. ASSUME NEW d \in Calls \ {c}
      PROVE  Pursues(d)' /\ InvitesFit(d)' /\ MembershipsFit(d)'
  <2>1. Pursues(d) /\ InvitesFit(d) /\ MembershipsFit(d) /\ RowsLocked /\ call'[d] = call[d]
    BY <1>2 DEF TrustInv
  <2>2. DOMAIN call[d].inv \subseteq InviteKeys /\ DOMAIN call[d].mem \subseteq MemberKeys
    BY CallFields DEF TrustInv
  <2>3. \A k \in DOMAIN call[d].inv : invite'[k] = invite[k]
    BY <2>1, <2>2, Committed DEF RowsLocked
  <2>4. \A p \in DOMAIN call[d].mem : membership'[p] = membership[p]
    BY <2>1, <2>2, Committed DEF RowsLocked
  <2>5. Pursues(d)'
    <3>1. ASSUME call[d].want = "write"
          PROVE  /\ call[d].ops[1].kind = 2 => membership'[{call[d].by, call[d].ops[1].who}] # "none"
                 /\ call[d].ops[1].kind > 2 => invite'[<<call[d].ops[1].who, call[d].by>>] # "none"
      <4>1. call[d].ops # <<>>
        BY <2>1, <3>1 DEF Pursues
      <4>2. /\ <<call[d].ops[1].who, call[d].by>> \in InviteKeys
            /\ {call[d].by, call[d].ops[1].who} \in MemberKeys
        BY <4>1, CurrentKeys
      <4> QED BY <2>1, <3>1, <4>2, Committed DEF Pursues
    <3> QED BY <2>1, <3>1 DEF Pursues
  <2>6. InvitesFit(d)'
    BY <2>1, <2>3 DEF InvitesFit
  <2>7. MembershipsFit(d)'
    BY <2>1, <2>4 DEF MembershipsFit
  <2> QED BY <2>5, <2>6, <2>7
<1>7. AnswersMatch'
  <2>1. InvitesFit(c) /\ MembershipsFit(c) /\ AnswersMatch
    BY DEF TrustInv
  <2>2. DOMAIN inv \subseteq InviteKeys /\ DOMAIN mem \subseteq MemberKeys
    BY CallFields DEF TrustInv
  <2>3. ASSUME NEW p \in MemberKeys, membership'[p] # "none"
        PROVE  \E k \in InviteKeys : p = PairOf(k) /\ invite'[k] \in Answered
    <3>1. CASE membership[p] # "none"
      <4>1. PICK k \in InviteKeys : p = PairOf(k) /\ invite[k] \in Answered
        BY <2>1, <3>1 DEF AnswersMatch, PairOf, Answered
      <4>2. invite'[k] \in Answered
        BY <2>1, <4>1, Committed DEF InvitesFit, Answered
      <4> QED BY <4>1, <4>2
    <3>2. CASE membership[p] = "none"
      <4>1. p \in DOMAIN mem /\ mem[p] = "active"
        BY <2>1, <2>3, <3>2, Committed DEF MembershipsFit
      <4>2. PICK k \in DOMAIN inv : p = PairOf(k) /\ inv[k] \in Answered
        BY <2>1, <4>1 DEF MembershipsFit
      <4> QED BY <2>2, <4>2, Committed
    <3> QED BY <3>1, <3>2
  <2>4. ASSUME NEW k \in InviteKeys, invite'[k] = "accepted"
        PROVE  membership'[PairOf(k)] # "none"
    <3>1. PairOf(k) \in MemberKeys
      BY PairKeys
    <3>2. CASE k \in DOMAIN inv
      <4>1. PairOf(k) \in DOMAIN mem
        BY <2>1, <2>4, <3>2, Committed DEF InvitesFit
      <4>2. mem[PairOf(k)] # "none"
        BY <2>1, <4>1 DEF MembershipsFit
      <4> QED BY <3>1, <4>1, <4>2, Committed
    <3>3. CASE k \notin DOMAIN inv
      <4>1. membership[PairOf(k)] # "none"
        BY <2>1, <2>4, <3>3, Committed DEF AnswersMatch, PairOf
      <4> QED BY <3>1, <4>1, Committed
    <3> QED BY <3>2, <3>3
  <2> QED BY <2>3, <2>4 DEF AnswersMatch, PairOf, Answered
<1> QED BY <1>3, <1>4, <1>5, <1>6, <1>7 DEF TrustInv

\* A step that leaves the tables and the calls alone.
LEMMA TablesStay ==
  ASSUME TrustInv, UNCHANGED <<invite, membership, call, calls>>, joined' \in SUBSET Users
  PROVE  TrustInv'
<1>1. /\ invite' = invite /\ membership' = membership /\ call' = call
      /\ \A c \in Calls : call'[c] = call[c]
  OBVIOUS
<1>2. TrustTypeOK'
  BY DEF TrustInv, TrustTypeOK
<1>3. RowsLocked'
  BY <1>1 DEF TrustInv, RowsLocked
<1>4. ASSUME NEW c \in Calls
      PROVE  Pursues(c)' /\ InvitesFit(c)' /\ MembershipsFit(c)'
  <2>1. Pursues(c) /\ InvitesFit(c) /\ MembershipsFit(c)
    BY DEF TrustInv
  <2>2. Pursues(c)'
    BY <1>1, <2>1 DEF Pursues
  <2>3. InvitesFit(c)'
    BY <1>1, <2>1 DEF InvitesFit
  <2>4. MembershipsFit(c)'
    BY <1>1, <2>1 DEF MembershipsFit
  <2> QED BY <2>2, <2>3, <2>4
<1>5. AnswersMatch'
  BY <1>1 DEF TrustInv, AnswersMatch
<1> QED BY <1>2, <1>3, <1>4, <1>5 DEF TrustInv

LEMMA TrustStepKeeps ==
  ASSUME TrustInv, IsFiniteSet(Users), [TrustNext]_trustVars
  PROVE  TrustInv'
<1>1. ASSUME NEW u \in Users, SignUp(u)
      PROVE  TrustInv'
  <2>1. UNCHANGED <<invite, membership, call, calls>> /\ joined' \in SUBSET Users
    BY <1>1 DEF SignUp, TrustInv, TrustTypeOK
  <2> QED BY <2>1, TablesStay
<1>2. ASSUME NEW c \in Calls, DeadlockVictim(c)
      PROVE  TrustInv'
  BY <1>2, CallCloses DEF DeadlockVictim
<1>3. CASE UNCHANGED trustVars
  BY <1>3, TablesStay DEF trustVars, TrustInv, TrustTypeOK
<1> QED BY <1>1, <1>2, <1>3, OpenCallKeeps, AddMemberKeeps, RemoveMemberKeeps, AnswerKeeps, WriteRowsKeeps,
           CommitKeeps DEF TrustNext, CallStep

LEMMA TrustInvariance ==
  ASSUME IsFiniteSet(Users)
  PROVE  TrustSpec => []TrustInv
<1>1. TrustInit => TrustInv
  BY TrustInitInv
<1>2. TrustInv /\ [TrustNext]_trustVars => TrustInv'
  BY TrustStepKeeps
<1> QED BY <1>1, <1>2, PTL DEF TrustSpec

-----------------------------------------------------------------------------
\* The tables and the open calls of the trust lists have their types, for any
\* finite number of users (TrustListService).
THEOREM TrustTypeCorrect ==
  ASSUME IsFiniteSet(Users)
  PROVE  TrustSpec => []TrustTypeOK
<1>1. TrustInv => TrustTypeOK
  BY DEF TrustInv
<1> QED BY <1>1, TrustInvariance, PTL

\* However calls of edit_trusted_users race, fail and are ended by the
\* database, answers and memberships are committed together.
THEOREM AnswersMatchTrust ==
  ASSUME IsFiniteSet(Users)
  PROVE  TrustSpec => []AnswersMatch
<1>1. TrustInv => AnswersMatch
  BY DEF TrustInv
<1> QED BY <1>1, TrustInvariance, PTL

-----------------------------------------------------------------------------
\* The rows of trust_list_invites and trust_list_memberships follow the life
\* that TrustRelation promises: a commit settles the pairs the call has
\* written, and no other step changes a committed row.
Asked == {k \in InviteKeys : invite[k] # "none"}

LEMMA SameData ==
  Relation!Asks = InviteKeys /\ Relation!Pairs = MemberKeys /\ \A a, b : Relation!Pair(a, b) = {a, b}
BY DEF Relation!Asks, Relation!Pairs, Relation!Pair, InviteKeys, MemberKeys

LEMMA CommitSettles ==
  ASSUME TrustInv, NEW c \in Calls, CommitCall(c)
  PROVE  Relation!Settle
<1>1. Asked \subseteq Asked' /\ Asked' \in SUBSET InviteKeys
  BY Committed DEF Asked
<1>2. Asked' \in {Asked \union s : s \in SUBSET Relation!Asks}
  <2>1. Asked' = Asked \union Asked'
    BY <1>1
  <2> QED BY <1>1, <2>1, SameData
<1>3. membership' \in [Relation!Pairs -> {"none", "active", "revoked"}]
  BY Committed, SameData DEF MembershipStatus
<1>4. ASSUME NEW p \in MemberKeys, membership'[p] # membership[p]
      PROVE  \/ /\ membership[p] = "none" /\ membership'[p] = "active"
                /\ \E k \in Asked : p = Relation!Pair(k[1], k[2])
             \/ membership[p] = "active" /\ membership'[p] = "revoked"
  <2>1. InvitesFit(c) /\ MembershipsFit(c) /\ membership[p] \in MembershipStatus
    BY DEF TrustInv, TrustTypeOK
  <2>2. p \in DOMAIN call[c].mem /\ membership'[p] = call[c].mem[p]
    BY <1>4, Committed
  <2>3. CASE call[c].mem[p] = "active"
    <3>1. PICK k \in DOMAIN call[c].inv : p = PairOf(k) /\ call[c].inv[k] \in Answered
      BY <2>1, <2>2, <2>3 DEF MembershipsFit
    <3>2. k \in InviteKeys /\ invite[k] # "none"
      BY <2>1, <3>1, CallFields DEF InvitesFit, Answered, TrustInv
    <3> QED BY <2>1, <2>2, <2>3, <3>1, <3>2, SameData DEF MembershipsFit, Asked, PairOf
  <2>4. CASE call[c].mem[p] # "active"
    BY <1>4, <2>1, <2>2, <2>4 DEF MembershipsFit, MembershipStatus
  <2> QED BY <2>3, <2>4
<1> QED BY <1>2, <1>3, <1>4, SameData DEF Relation!Settle, Asked

LEMMA StepRefines ==
  ASSUME TrustInv, [TrustNext]_trustVars
  PROVE  [Relation!Next]_<<Asked, membership>>
<1>1. CASE \E c \in Calls : CommitCall(c)
  BY <1>1, CommitSettles DEF Relation!Next, Asked
<1>2. CASE ~\E c \in Calls : CommitCall(c)
  <2>1. UNCHANGED <<invite, membership>>
    BY <1>2 DEF TrustNext, CallStep, SignUp, OpenCall, AddMember, RemoveMember, Answer, WriteRows,
                DeadlockVictim, trustVars
  <2> QED BY <2>1 DEF Asked
<1> QED BY <1>1, <1>2

\* TrustListService, with any number of calls at a time, keeps the promise of
\* TrustRelation: trust is asked for first, made once, and withdrawn for good.
THEOREM TrustImplementsRelation ==
  ASSUME IsFiniteSet(Users)
  PROVE  TrustSpec => TrustRefines
<1>1. TrustInit => Relation!Init
  BY SameData DEF TrustInit, Relation!Init
<1>2. TrustInv /\ [TrustNext]_trustVars => [Relation!Next]_<<Asked, membership>>
  BY StepRefines
<1>3. TrustInv /\ [TrustNext]_trustVars
        => [Relation!Next]_<<{k \in InviteKeys : invite[k] # "none"}, membership>>
  BY <1>2 DEF Asked
<1> QED BY <1>1, <1>3, TrustInvariance, PTL DEF TrustSpec, TrustRefines, Relation!Spec

(***************************************************************************)
(* Requests for shared contacts, and merges.                               *)
(***************************************************************************)

\* The inductive invariant, in parts.

\* Whoever is still to be read has been trusted since the request began, and
\* of a person that exists and is not among the labels read, the request has
\* seen a moment when it was not private.
ReadsFit ==
  /\ view.kind \in Resting => todo = {}
  /\ view # NoView =>
       /\ todo \subseteq wasFriend
       /\ \A m \in DOMAIN labels, p \in persons : p \in labels[m] \/ <<m, p>> \in wasOpen

ReadsInv == ReadsTypeOK /\ ReadsFit /\ PrivateIsHidden

-----------------------------------------------------------------------------
\* Changes of the tables.

Row == SUBSET (Types \union Flags)

LEMMA ObservationType ==
  ASSUME TablesOK, NEW u \in Users, NEW p \in Persons, NEW kind \in Imports, NEW mail \in Mails
  PROVE  Observation(u, p, kind, mail) \in Row
<1>1. obs[u][p] \in Row /\ kind \in Types
  BY ReadsAssumption DEF TablesOK, Row
<1>2. mail \subseteq Types \union Flags
  BY MailsAssumption DEF Correspondents, Classes, Types, Flags
<1> QED BY <1>1, <1>2 DEF Observation, Add, Replace, Rewrite, Types, Flags, Row

LEMMA ImportKeeps ==
  ASSUME TablesOK, NEW u \in Users, NEW p \in persons, NEW kind \in Imports,
         NEW mail \in Mails, Import(u, p, kind, mail)
  PROVE  TablesOK' /\ persons' = persons
<1>1. p \in Persons /\ obs \in [Users -> [Persons -> Row]]
  BY DEF TablesOK, Row
<1>2. obs' \in [Users -> [Persons -> Row]]
  <2> DEFINE new == Observation(u, p, kind, mail)
  <2>1. new \in Row
    BY <1>1, ObservationType
  <2>2. obs' = [obs EXCEPT ![u] = [obs[u] EXCEPT ![p] = new]]
    BY <1>1 DEF Import
  <2> HIDE DEF new
  <2> QED BY <1>1, <2>1, <2>2
<1>3. about' \in [Persons -> SUBSET AboutFlags]
  <2>1. \A known \in SUBSET AboutFlags : Learnt(kind, known) \subseteq SUBSET AboutFlags
    BY DEF Learnt, MayBring, AboutFlags
  <2> QED BY <1>1, <2>1 DEF Import, TablesOK
<1> QED BY <1>2, <1>3 DEF Import, TablesOK, Row

LEMMA MergeKeeps ==
  ASSUME TablesOK, NEW s \in persons, NEW d \in persons, s # d, MergePerson(s, d)
  PROVE  TablesOK' /\ persons' \subseteq persons
<1>1. /\ persons' = persons \ {d} /\ s \in Persons /\ d \in Persons
      /\ obs \in [Users -> [Persons -> Row]]
  BY DEF MergePerson, TablesOK, Row
<1>2. obs' \in [Users -> [Persons -> Row]]
  <2>1. \A u \in Users : MergedRow(obs[u][s], obs[u][d]) \in Row
    BY <1>1 DEF MergedRow, Row
  <2>2. \A u \in Users : [obs[u] EXCEPT ![s] = MergedRow(obs[u][s], obs[u][d]), ![d] = {}] \in [Persons -> Row]
    BY <1>1, <2>1 DEF Row
  <2> QED BY <2>2 DEF MergePerson
<1>3. about' \in [Persons -> SUBSET AboutFlags] /\ org' \in [Persons -> Orgs \union {None}]
  <2>1. MergedAliases(about[s], about[d]) \subseteq SUBSET AboutFlags
    BY <1>1 DEF MergedAliases, TablesOK
  <2> QED BY <1>1, <2>1 DEF MergePerson, TablesOK
<1>4. me' \in [Users -> persons' \union {None}]
  BY <1>1 DEF MergePerson, TablesOK
<1>5. private' \in SUBSET (Users \X persons')
  <2>1. \A k \in private : k \in Users \X persons
    BY DEF TablesOK
  <2>2. \A k \in private : (IF k[2] = d THEN <<k[1], s>> ELSE k) \in Users \X persons'
    BY <1>1, <2>1
  <2> QED BY <2>2 DEF MergePerson, MovedLabels
<1> QED BY SMTT(30), <1>1, <1>2, <1>3, <1>4, <1>5 DEF MergePerson, TablesOK, Row

LEMMA ChangeKeeps ==
  ASSUME ReadsInv, Change
  PROVE  /\ TablesOK' /\ persons' \subseteq persons
         /\ changes' \in 0..MaxChanges /\ UNCHANGED request
<1>1. TablesOK /\ changes' \in 0..MaxChanges /\ UNCHANGED request
  BY ReadsAssumption DEF ReadsInv, ReadsTypeOK, Change
<1>2. ASSUME NEW u \in Users, NEW p \in persons, SetPrivacyLabel(u, p)
      PROVE  TablesOK' /\ persons' = persons
  BY <1>1, <1>2 DEF SetPrivacyLabel, TablesOK
<1>3. ASSUME NEW u \in Users, NEW w \in Users, EditTrust(u, w)
      PROVE  TablesOK' /\ persons' = persons
  BY <1>1, <1>3 DEF EditTrust, TablesOK
<1> QED BY <1>1, <1>2, <1>3, ImportKeeps, MergeKeeps DEF Change

-----------------------------------------------------------------------------
\* The request.

\* Only persons that exist are found.
LEMMA FoundExist ==
  ASSUME NEW v, NEW m
  PROVE  ContactsIn(v, m) \subseteq persons
<1>1. Knows(m) \subseteq persons
  BY DEF Knows
<1>2. InNetwork(m) \subseteq persons /\ Without(m, {"broadcast"}) \subseteq persons
  BY <1>1 DEF Having, Without, InNetwork
<1> QED BY <1>1, <1>2 DEF ContactsIn, SharedPeople, SharedOrgs, SharedSummaries, SharedOrgPeople,
           BridgeContacts, ExecutePlanRaw, Insiders

LEMMA OwnExist ==
  ASSUME NEW v, NEW own \in OwnIn(v)
  PROVE  own \subseteq persons
<1>1. Knows(Viewer) \subseteq persons /\ InNetwork(Viewer) \subseteq persons
  BY DEF Knows, InNetwork, Having
<1>2. \A o : OwnOrgPeople(Viewer, o) \subseteq persons
  BY <1>1 DEF OwnOrgPeople
<1> QED BY <1>1, <1>2 DEF OwnIn

\* Views are told from rest, and a pass is followed by a view or by rest.
LEMMA ViewKinds ==
  /\ NoView.kind = "none" /\ NoView \notin Views
  /\ \A v \in Views : v # NoView /\ v.kind # "none"
  /\ \A v \in Views : Ended(v) \in Views \union {NoView} /\ (Ended(v) # v => Ended(v).kind \in Resting)
  /\ \A v \in Views : v.kind \in {"listed", "headed"} =>
       [v EXCEPT !.kind = IF @ = "listed" THEN "names" ELSE "job"] \in Views
<1>1. NoView.kind = "none" /\ \A v \in Views : v.kind \in General \union OfCompany
  BY DEF NoView, Views
<1>2. \A v \in Views : v.kind # "none"
  BY <1>1 DEF General, OfCompany
<1>3. \A v \in Views : Ended(v) \in Views \union {NoView} /\ (Ended(v) # v => Ended(v).kind \in Resting)
  <2> SUFFICES ASSUME NEW v \in Views
               PROVE  Ended(v) \in Views \union {NoView} /\ (Ended(v) # v => Ended(v).kind \in Resting)
    OBVIOUS
  <2>1. CASE v \in [kind : General, org : {None}]
    BY <2>1 DEF Ended, Views, NoView, General, OfCompany, Resting
  <2>2. CASE v \in [kind : OfCompany, org : Orgs]
    BY <2>2 DEF Ended, Views, NoView, General, OfCompany, Resting
  <2> QED BY <2>1, <2>2 DEF Views
<1>4. ASSUME NEW v \in Views, v.kind \in {"listed", "headed"}
      PROVE  [v EXCEPT !.kind = IF @ = "listed" THEN "names" ELSE "job"] \in Views
  <2>1. CASE v \in [kind : General, org : {None}]
    BY <1>4, <2>1 DEF Views, General, OfCompany
  <2>2. CASE v \in [kind : OfCompany, org : Orgs]
    BY <1>4, <2>2 DEF Views, General, OfCompany
  <2> QED BY <2>1, <2>2 DEF Views
<1> QED BY <1>1, <1>2, <1>3, <1>4

\* What a step sees is added to what has been true.
LEMMA WitnessGrows ==
  ASSUME view # NoView, Witness
  PROVE  /\ wasFriend \subseteq wasFriend' /\ wasOpen \subseteq wasOpen'
         /\ TrustMembers(Viewer)' \subseteq wasFriend' /\ Open' \subseteq wasOpen'
BY DEF Witness

\* A pass begins with nothing read.
LEMMA PassKeeps ==
  ASSUME ReadsInv, NEW v \in Views, Pass(v),
         shown' = {} \/ (view # NoView /\ Witness /\ UNCHANGED shown)
  PROVE  ReadsInv'
<1>1. /\ view' = v /\ seen' \in OwnIn(v) /\ todo' = {} /\ labels' = NoLabels
      /\ UNCHANGED <<tables, changes>> /\ TablesOK /\ persons \subseteq Persons
      /\ shown \in SUBSET (Users \X Persons)
  BY DEF Pass, ReadsInv, ReadsTypeOK, TablesOK
<1>2. DOMAIN labels' = {} /\ labels' \in [{} -> SUBSET Persons]
  BY <1>1 DEF NoLabels
<1>3. seen' \in SUBSET Persons
  BY <1>1, OwnExist
<1>4. TablesOK'
  BY <1>1 DEF tables, TablesOK
<1>5. ReadsTypeOK'
  BY <1>1, <1>2, <1>3, <1>4 DEF ReadsInv, ReadsTypeOK
<1>6. ReadsFit'
  BY <1>1, <1>2 DEF ReadsFit
<1>7. PrivateIsHidden'
  BY WitnessGrows DEF PrivateIsHidden, ReadsInv
<1> QED BY <1>5, <1>6, <1>7 DEF ReadsInv

LEMMA BeginKeeps ==
  ASSUME ReadsInv, NEW v \in Views, Begin(v)
  PROVE  ReadsInv'
BY PassKeeps DEF Begin

LEMMA PassAgainKeeps ==
  ASSUME ReadsInv, PassAgain, Witness
  PROVE  ReadsInv'
<1> DEFINE next == [view EXCEPT !.kind = IF @ = "listed" THEN "names" ELSE "job"]
<1>1. view.kind \in {"listed", "headed"} /\ Pass(next) /\ UNCHANGED shown
  BY DEF PassAgain
<1>2. view # NoView /\ view \in Views
  BY <1>1, ViewKinds DEF ReadsInv, ReadsTypeOK
<1>3. next \in Views
  BY <1>1, <1>2, ViewKinds
<1> HIDE DEF next
<1> QED BY <1>1, <1>2, <1>3, PassKeeps

LEMMA ReadMembersKeeps ==
  ASSUME ReadsInv, ReadMembers, Witness
  PROVE  ReadsInv'
<1>1. /\ view.kind \notin Resting /\ labels = NoLabels /\ todo' = TrustMembers(Viewer)
      /\ UNCHANGED <<tables, labels, shown, changes>> /\ TablesOK
      /\ view' \in {view, NoView, Ended(view)} /\ (todo' # {} => view' = view)
  BY DEF ReadMembers, ReadsInv, ReadsTypeOK
<1>2. TrustMembers(Viewer)' = TrustMembers(Viewer) /\ TrustMembers(Viewer) \subseteq Users
  BY <1>1 DEF TrustMembers, tables
<1>3. seen' \in SUBSET Persons
  <2>1. MeOf(Viewer) \subseteq Persons
    BY <1>1, ReadsAssumption DEF MeOf, TablesOK
  <2> QED BY <2>1 DEF ReadMembers, ReadsInv, ReadsTypeOK
<1>4. TablesOK'
  BY <1>1 DEF tables, TablesOK
<1>5. view # NoView /\ view \in Views
  BY <1>1, ViewKinds DEF ReadsInv, ReadsTypeOK, Resting
<1>6. ReadsTypeOK'
  BY <1>1, <1>2, <1>3, <1>4, <1>5, ViewKinds DEF ReadsInv, ReadsTypeOK
<1>7. ReadsFit' /\ PrivateIsHidden'
  <2>1. DOMAIN labels' = {}
    BY <1>1 DEF NoLabels
  <2> QED BY <1>1, <1>2, <1>5, <2>1, WitnessGrows DEF ReadsFit, PrivateIsHidden, ReadsInv
<1> QED BY <1>6, <1>7 DEF ReadsInv

LEMMA ReadLabelsKeeps ==
  ASSUME ReadsInv, NEW m \in Users, ReadLabels(m), Witness
  PROVE  ReadsInv'
<1>1. /\ labels' = [n \in DOMAIN labels \union {m} |-> IF n = m THEN Private(m) ELSE labels[n]]
      /\ UNCHANGED <<tables, view, todo, seen, shown, changes>> /\ TablesOK /\ m \in todo
  BY DEF ReadLabels, ReadsInv, ReadsTypeOK
<1>2. view # NoView
  BY <1>1 DEF ReadsInv, ReadsFit, NoView, Resting
<1>3. /\ DOMAIN labels' = DOMAIN labels \union {m} /\ labels'[m] = Private(m)
      /\ \A n \in DOMAIN labels \ {m} : labels'[n] = labels[n]
  BY <1>1
<1>4. Private(m) \in SUBSET Persons
  BY <1>1 DEF Private, TablesOK
<1>5. TablesOK'
  BY <1>1 DEF tables, TablesOK
<1>6. ReadsTypeOK'
  <2>1. labels' \in [DOMAIN labels' -> SUBSET Persons]
    BY <1>1, <1>3, <1>4 DEF ReadsInv, ReadsTypeOK
  <2> QED BY <1>1, <1>3, <1>5, <2>1 DEF ReadsInv, ReadsTypeOK
<1>7. ReadsFit'
  <2>1. ASSUME NEW n \in DOMAIN labels', NEW p \in persons'
        PROVE  p \in labels'[n] \/ <<n, p>> \in wasOpen'
    <3>1. p \in persons /\ p \in Persons /\ private' = private
      BY <1>1, <2>1 DEF tables, TablesOK
    <3>2. CASE n = m
      <4>1. p \in Private(m) \/ <<m, p>> \in Open'
        BY <3>1 DEF Private, Open
      <4> QED BY <1>2, <1>3, <3>2, <4>1, WitnessGrows
    <3>3. CASE n # m
      BY <1>2, <1>3, <2>1, <3>1, <3>3, WitnessGrows DEF ReadsInv, ReadsFit
    <3> QED BY <3>2, <3>3
  <2> QED BY <1>1, <1>2, <2>1, WitnessGrows DEF ReadsInv, ReadsFit
<1>8. PrivateIsHidden'
  BY <1>1, <1>2, WitnessGrows DEF ReadsInv, PrivateIsHidden
<1> QED BY <1>6, <1>7, <1>8 DEF ReadsInv

\* One whose contacts are not asked for is only crossed off.
LEMMA SkipMemberKeeps ==
  ASSUME ReadsInv, NEW m \in Users, SkipMember(m), Witness
  PROVE  ReadsInv'
<1>1. /\ m \in todo /\ todo' = todo \ {m} /\ view' = (IF todo' = {} THEN Ended(view) ELSE view)
      /\ UNCHANGED <<tables, labels, seen, shown, changes>> /\ TablesOK
  BY DEF SkipMember, ReadsInv, ReadsTypeOK
<1>2. view # NoView /\ view \in Views /\ view.kind \notin Resting
  BY <1>1 DEF ReadsInv, ReadsFit, ReadsTypeOK, NoView, Resting
<1>3. TablesOK'
  BY <1>1 DEF tables, TablesOK
<1>4. ReadsTypeOK'
  BY <1>1, <1>2, <1>3, ViewKinds DEF ReadsInv, ReadsTypeOK
<1>5. ReadsFit'
  BY <1>1, <1>2, WitnessGrows DEF ReadsInv, ReadsFit, tables
<1>6. PrivateIsHidden'
  BY <1>1, <1>2, WitnessGrows DEF ReadsInv, PrivateIsHidden
<1> QED BY <1>4, <1>5, <1>6 DEF ReadsInv

LEMMA ReadContactsKeeps ==
  ASSUME ReadsInv, NEW m \in Users, ReadContacts(m), Witness
  PROVE  ReadsInv'
<1> DEFINE found == ContactsIn(view, m) \ (labels[m] \union seen)
<1>1. PICK named \in SUBSET found :
        /\ m \in todo /\ m \in DOMAIN labels /\ shown' = shown \union {<<m, p>> : p \in named}
        /\ seen' \in {seen, seen \union found, seen \union named} /\ todo' = todo \ {m}
        /\ view' = (IF todo' = {} THEN Ended(view) ELSE view)
        /\ UNCHANGED <<tables, labels, changes>> /\ TablesOK
  BY DEF ReadContacts, ReadsInv, ReadsTypeOK
<1>2. view # NoView /\ view \in Views /\ view.kind \notin Resting
  BY <1>1 DEF ReadsInv, ReadsFit, ReadsTypeOK, NoView, Resting
<1>3. found \subseteq persons /\ found \cap labels[m] = {} /\ persons \subseteq Persons
  BY <1>1, FoundExist DEF TablesOK
<1> HIDE DEF found
<1>4. TablesOK'
  BY <1>1 DEF tables, TablesOK
<1>5. ReadsTypeOK'
  <2>1. seen' \in SUBSET Persons /\ shown' \in SUBSET (Users \X Persons)
    BY <1>1, <1>3 DEF ReadsInv, ReadsTypeOK
  <2> QED BY <1>1, <1>2, <1>4, <2>1, ViewKinds DEF ReadsInv, ReadsTypeOK
<1>6. ReadsFit'
  BY <1>1, <1>2, WitnessGrows DEF ReadsInv, ReadsFit, tables
<1>7. PrivateIsHidden'
  <2>1. \A k \in shown : k[1] \in wasFriend' /\ k \in wasOpen'
    BY <1>2, WitnessGrows DEF ReadsInv, PrivateIsHidden
  <2>2. m \in wasFriend'
    BY <1>1, <1>2, WitnessGrows DEF ReadsInv, ReadsFit
  <2>3. \A p \in named : <<m, p>> \in wasOpen'
    BY <1>1, <1>2, <1>3, WitnessGrows DEF ReadsInv, ReadsFit
  <2> QED BY <1>1, <2>1, <2>2, <2>3 DEF PrivateIsHidden
<1> QED BY <1>5, <1>6, <1>7 DEF ReadsInv

LEMMA ChangeIsSafe ==
  ASSUME ReadsInv, Change,
         (view = NoView /\ UNCHANGED <<wasFriend, wasOpen>>) \/ (view # NoView /\ Witness)
  PROVE  ReadsInv'
<1>1. TablesOK' /\ persons' \subseteq persons /\ changes' \in 0..MaxChanges /\ UNCHANGED request
  BY ChangeKeeps
<1>2. UNCHANGED <<view, todo, labels, seen, shown>>
  BY <1>1 DEF request
<1>3. ReadsTypeOK'
  BY <1>1, <1>2 DEF ReadsInv, ReadsTypeOK
<1>4. CASE view = NoView /\ UNCHANGED <<wasFriend, wasOpen>>
  BY <1>2, <1>3, <1>4 DEF ReadsInv, ReadsFit, PrivateIsHidden
<1>5. CASE view # NoView /\ Witness
  <2>1. ReadsFit'
    BY <1>1, <1>2, <1>5, WitnessGrows DEF ReadsInv, ReadsFit
  <2>2. PrivateIsHidden'
    BY <1>2, <1>5, WitnessGrows DEF ReadsInv, PrivateIsHidden
  <2> QED BY <1>3, <2>1, <2>2 DEF ReadsInv
<1> QED BY <1>4, <1>5

LEMMA ReadsInvariance == ReadsSpec => []ReadsInv
<1>1. TablesOK /\ ReadsInit => ReadsInv
  <2> SUFFICES ASSUME TablesOK, ReadsInit PROVE ReadsInv
    OBVIOUS
  <2>1. labels \in [{} -> SUBSET Persons] /\ DOMAIN labels = {}
    BY DEF ReadsInit, NoLabels
  <2>2. ReadsTypeOK
    BY <2>1, ReadsAssumption DEF ReadsInit, ReadsTypeOK
  <2> QED BY <2>2 DEF ReadsInit, ReadsInv, ReadsFit, PrivateIsHidden
<1>2. ReadsInv /\ [ReadsNext]_readsVars => ReadsInv'
  <2> SUFFICES ASSUME ReadsInv, [ReadsNext]_readsVars PROVE ReadsInv'
    OBVIOUS
  <2>1. CASE UNCHANGED readsVars
    <3>1. UNCHANGED <<tables, view, todo, labels, seen, shown, wasFriend, wasOpen, changes>>
      BY <2>1 DEF readsVars, request
    <3>2. TablesOK'
      BY <3>1 DEF tables, ReadsInv, ReadsTypeOK, TablesOK
    <3>3. ReadsTypeOK'
      BY <3>1, <3>2 DEF ReadsInv, ReadsTypeOK
    <3>4. ReadsFit' /\ PrivateIsHidden'
      BY <3>1 DEF tables, ReadsInv, ReadsFit, PrivateIsHidden
    <3> QED BY <3>3, <3>4 DEF ReadsInv
  <2> QED BY <2>1, BeginKeeps, PassAgainKeeps, ReadMembersKeeps, ReadLabelsKeeps, SkipMemberKeeps,
          ReadContactsKeeps, ChangeIsSafe
          DEF ReadsNext, Step
<1> QED BY <1>1, <1>2, PTL DEF ReadsSpec

-----------------------------------------------------------------------------
\* The tables and a request's copies of them have their types: no label and no
\* account names a person that was merged away.
THEOREM ReadsTypeCorrect == ReadsSpec => []ReadsTypeOK
<1>1. ReadsInv => ReadsTypeOK
  BY DEF ReadsInv
<1> QED BY <1>1, ReadsInvariance, PTL

\* Whatever imports, labels, trust and merges commit between the statements of
\* a request, it shows a contact of another user only if that user was trusted,
\* and the contact not private, at some moment of the request.
THEOREM PrivateStaysHidden == ReadsSpec => []PrivateIsHidden
<1>1. ReadsInv => PrivateIsHidden
  BY DEF ReadsInv
<1> QED BY <1>1, ReadsInvariance, PTL

\* What a merge of d into s keeps for the user u: the network and the pages,
\* the strong ties, whom to write to, and what is private.
NetworkKept(u, s, d) ==
  /\ {s, d} \cap InNetwork(u) # {} => s \in InNetwork(u)'
  /\ {s, d} \cap GetPerson(u) # {} => s \in GetPerson(u)'
TiesKept(u, s, d) ==
  /\ s \in StrongTies(u) => s \in StrongTies(u)'
  /\ d \in StrongTies(u) /\ obs[u][s] \cap {"broadcast", "automated"} = {} => s \in StrongTies(u)'
  /\ s \in ListedTies(u) /\ d \in Are("slug") \union (persons \ Are("linked")) => s \in ListedTies(u)'
  /\ {s, d} \cap Are("scraped") # {} => s \notin Unscraped(u)'
OutreachKept(u, s, d) ==
  \A o \in Orgs : /\ s \in OutreachContacts(u, o) => s \in OutreachContacts(u, o)'
                  /\ d \in OutreachContacts(u, o) /\ org[s] \in {None, o} => s \in OutreachContacts(u, o)'
LabelsKept(u, s, d) == {<<u, s>>, <<u, d>>} \cap private # {} => <<u, s>> \in private'
KeepsContacts ==
  \A d \in persons \ persons' : \E s \in persons' : \A u \in Users :
    NetworkKept(u, s, d) /\ TiesKept(u, s, d) /\ OutreachKept(u, s, d) /\ LabelsKept(u, s, d)

\* The rows after a merge.
LEMMA MergedRows ==
  ASSUME TablesOK, NEW s \in persons, NEW d \in persons, s # d, MergePerson(s, d), NEW u \in Users
  PROVE  /\ s \in persons' /\ s \in Persons /\ d \in Persons
         /\ obs'[u][s] = MergedRow(obs[u][s], obs[u][d])
         /\ about'[s] \in MergedAliases(about[s], about[d])
         /\ org'[s] = (IF org[s] = None THEN org[d] ELSE org[s])
<1>1. s \in persons' /\ s \in Persons /\ d \in Persons
  BY DEF MergePerson, TablesOK
<1>2. obs'[u][s] = MergedRow(obs[u][s], obs[u][d])
  BY <1>1 DEF MergePerson, TablesOK
<1>3. about'[s] \in MergedAliases(about[s], about[d]) /\ org'[s] = (IF org[s] = None THEN org[d] ELSE org[s])
  BY <1>1 DEF MergePerson, TablesOK
<1> QED BY <1>1, <1>2, <1>3

\* What is known of the two is known of the survivor, but for whose LinkedIn
\* URL comes first.
LEMMA AliasesKept ==
  ASSUME NEW s \in SUBSET AboutFlags, NEW d \in SUBSET AboutFlags, NEW new \in MergedAliases(s, d)
  PROVE  /\ (s \union d) \ {"slug"} \subseteq new
         /\ "slug" \in s /\ ("slug" \in d \/ "linked" \notin d) => "slug" \in new
BY DEF MergedAliases

LEMMA MergeKeepsViews ==
  ASSUME TablesOK, NEW s \in persons, NEW d \in persons, s # d, MergePerson(s, d), NEW u \in Users
  PROVE  NetworkKept(u, s, d) /\ TiesKept(u, s, d) /\ OutreachKept(u, s, d)
<1> DEFINE noise == {"broadcast", "automated"}
<1>1. /\ s \in persons' /\ s \in Persons /\ d \in Persons
      /\ obs'[u][s] = MergedRow(obs[u][s], obs[u][d])
      /\ about'[s] \in MergedAliases(about[s], about[d])
      /\ org'[s] = (IF org[s] = None THEN org[d] ELSE org[s])
  BY MergedRows
<1>2. about[s] \in SUBSET AboutFlags /\ about[d] \in SUBSET AboutFlags
  BY <1>1 DEF TablesOK
<1>3. (about[s] \union about[d]) \ {"slug"} \subseteq about'[s]
  BY <1>1, <1>2, AliasesKept
<1>4. "slug" \in about[s] /\ ("slug" \in about[d] \/ "linked" \notin about[d]) => "slug" \in about'[s]
  BY <1>1, <1>2, AliasesKept
<1>5. /\ obs[u][s] \union (obs[u][d] \ noise) \subseteq obs'[u][s]
      /\ obs[u][s] # {} \/ obs[u][d] # {} => obs'[u][s] # {}
      /\ obs[u][s] # {} /\ obs[u][s] \cap noise = {} => obs'[u][s] \cap noise = {}
      /\ obs[u][s] = {} => obs'[u][s] = obs[u][d]
  BY <1>1 DEF MergedRow
<1>network. NetworkKept(u, s, d)
  BY <1>1, <1>3, <1>5 DEF NetworkKept, InNetwork, GetPerson, Having, Knows, Are
<1>tie. ASSUME NEW p \in {s, d}, p \in StrongTies(u), obs[u][s] \cap noise = {}
        PROVE  s \in StrongTies(u)'
  <2>1. /\ obs[u][p] # {} /\ {"linkedin", "human"} \subseteq obs[u][p] /\ obs[u][p] \cap noise = {}
        /\ "phone" \in obs[u][p] \/ "google" \in obs[u][p] \/ "email" \in obs[u][p]
        /\ "linked" \in about[p]
    BY <1>tie DEF StrongTies, Personal, People, Having, Without, Knows, Are
  <2>2. /\ obs'[u][s] # {} /\ {"linkedin", "human"} \subseteq obs'[u][s] /\ obs'[u][s] \cap noise = {}
        /\ "phone" \in obs'[u][s] \/ "google" \in obs'[u][s] \/ "email" \in obs'[u][s]
        /\ "linked" \in about'[s]
    BY <1>3, <1>5, <1>tie, <2>1
  <2> QED BY <1>1, <2>2 DEF StrongTies, Personal, People, Having, Without, Knows, Are
<1>6. s \in StrongTies(u) => obs[u][s] \cap noise = {}
  BY DEF StrongTies, People, Without
<1>listed. s \in ListedTies(u) /\ d \in Are("slug") \union (persons \ Are("linked")) => s \in ListedTies(u)'
  BY <1>1, <1>4, <1>6, <1>tie DEF ListedTies, Are
<1>scraped. {s, d} \cap Are("scraped") # {} => s \notin Unscraped(u)'
  BY <1>1, <1>3 DEF Unscraped, Are
<1>ties. TiesKept(u, s, d)
  BY <1>6, <1>tie, <1>listed, <1>scraped DEF TiesKept
<1>outreach. OutreachKept(u, s, d)
  <2> SUFFICES ASSUME NEW o \in Orgs, NEW p \in {s, d}, p \in OutreachContacts(u, o), p = d => org[s] \in {None, o}
               PROVE  s \in OutreachContacts(u, o)'
    BY DEF OutreachKept
  <2>1. obs[u][p] # {} /\ org[p] = o /\ "numbered" \in about[p] /\ o # None
    BY ViewsAssumption DEF OutreachContacts, OwnOrgPeople, Knows, At, Are
  <2>2. obs'[u][s] # {} /\ org'[s] = o /\ "numbered" \in about'[s]
    BY <1>1, <1>3, <1>5, <2>1
  <2> QED BY <1>1, <2>2 DEF OutreachContacts, OwnOrgPeople, Knows, At, Are
<1> QED BY <1>network, <1>ties, <1>outreach

LEMMA MergeKeepsLabels ==
  ASSUME NEW s, NEW d, s # d, MergePerson(s, d), NEW u
  PROVE  LabelsKept(u, s, d)
<1>relabelled. private' = {IF k[2] = d THEN <<k[1], s>> ELSE k : k \in private}
  BY DEF MergePerson, MovedLabels
<1>passesOn. ASSUME <<u, d>> \in private PROVE <<u, s>> \in private'
  <2>1. <<u, d>>[2] = d /\ <<u, d>>[1] = u
    OBVIOUS
  <2> QED BY <1>relabelled, <1>passesOn, <2>1, Zenon
<1>stays. ASSUME <<u, s>> \in private PROVE <<u, s>> \in private'
  <2>1. <<u, s>>[2] = s
    OBVIOUS
  <2>2. <<u, s>>[2] # d
    BY <2>1
  <2> QED BY <1>relabelled, <1>stays, <2>2, Zenon
<1> QED BY <1>passesOn, <1>stays DEF LabelsKept

LEMMA MergeKeepsAll ==
  ASSUME TablesOK, NEW s \in persons, NEW d \in persons, s # d, MergePerson(s, d)
  PROVE  KeepsContacts
<1>1. persons' = persons \ {d} /\ s \in persons'
  BY DEF MergePerson
<1>2. \A u \in Users : NetworkKept(u, s, d) /\ TiesKept(u, s, d) /\ OutreachKept(u, s, d) /\ LabelsKept(u, s, d)
  BY MergeKeepsViews, MergeKeepsLabels
<1> QED BY <1>1, <1>2 DEF KeepsContacts

\* When a merge (_merge_person) deletes a person, some surviving person is in
\* every network and on every page the deleted one was in, a strong tie where
\* it is no noise, asked for help where it works at the same company, and
\* private to whom either was private.
THEOREM MergesKeepContacts == ReadsSpec => MergeKeepsContacts
<1>1. ReadsInv /\ [ReadsNext]_readsVars => [KeepsContacts]_readsVars
  <2> SUFFICES ASSUME ReadsInv, ReadsNext PROVE KeepsContacts
    OBVIOUS
  <2>1. TablesOK
    BY DEF ReadsInv, ReadsTypeOK
  <2>2. ASSUME UNCHANGED persons PROVE KeepsContacts
    BY <2>2 DEF KeepsContacts
  <2>3. CASE Step
    BY <2>2, <2>3 DEF Step, Begin, PassAgain, Pass, ReadMembers, ReadLabels, SkipMember, ReadContacts, tables
  <2>4. CASE Change
    BY <2>1, <2>2, <2>4, MergeKeepsAll DEF Change, Import, SetPrivacyLabel, EditTrust
  <2> QED BY <2>3, <2>4 DEF ReadsNext
<1>2. ASSUME ReadsInv, [ReadsNext]_readsVars
      PROVE  [\A d \in persons \ persons' : \E s \in persons' : \A u \in Users :
       /\ {s, d} \cap InNetwork(u) # {} => s \in InNetwork(u)'
       /\ {s, d} \cap GetPerson(u) # {} => s \in GetPerson(u)'
       /\ s \in StrongTies(u) => s \in StrongTies(u)'
       /\ d \in StrongTies(u) /\ obs[u][s] \cap {"broadcast", "automated"} = {} => s \in StrongTies(u)'
       /\ s \in ListedTies(u) /\ d \in Are("slug") \union (persons \ Are("linked")) => s \in ListedTies(u)'
       /\ {s, d} \cap Are("scraped") # {} => s \notin Unscraped(u)'
       /\ \A o \in Orgs : /\ s \in OutreachContacts(u, o) => s \in OutreachContacts(u, o)'
                          /\ d \in OutreachContacts(u, o) /\ org[s] \in {None, o}
                               => s \in OutreachContacts(u, o)'
       /\ {<<u, s>>, <<u, d>>} \cap private # {} => <<u, s>> \in private']_readsVars
  BY <1>1, <1>2 DEF KeepsContacts, NetworkKept, TiesKept, OutreachKept, LabelsKept
<1> QED BY <1>2, ReadsInvariance, PTL DEF ReadsSpec, MergeKeepsContacts

(***************************************************************************)
(* Sign-in.                                                                *)
(***************************************************************************)

\* The inductive invariant, in parts.

\* A callback names its session and address; the user it has found is the one
\* the address opens, as long as that account exists; a user it is about to
\* give the address to finds the address free; and it makes a code only for a
\* user it has connected.
CallbackFits(c) ==
  LET k == callback[c] IN
  /\ k.at # "idle" => k.session \in Sessions /\ k.email \in Emails
  /\ k.at \in {"known", "new"} => k.user \in Users
  /\ k.at = "known" => /\ k.user \in used
                       /\ k.user \in accounts => identity[k.email] = k.user
  /\ k.at = "new" => identity[k.email] = None
  /\ k.at = "code" => k.user \in used /\ k.user \in consented[k.session]

\* An address is given away by one callback at a time.
NewOnce ==
  \A c, d \in Callbacks : c # d /\ callback[c].at = "new" /\ callback[d].at = "new"
    => callback[c].email # callback[d].email

\* The user of a connected session, of a code not used yet and of a request for tokens has
\* consented in that session.
SessionFits(s) == session[s].status = "connected" /\ session[s].user # None => session[s].user \in consented[s]
CodeFits(s) == code[s].status = "fresh" => code[s].user \in consented[s]
PollFits(p) ==
  poll[p].at \in {"poll", "exchange"} => poll[p].session \in Sessions /\ poll[p].user \in consented[poll[p].session]

SignInInv ==
  /\ SignInTypeOK /\ TokensFollowConsent /\ AccountsReachable /\ NewOnce
  /\ \A c \in Callbacks : CallbackFits(c)
  /\ \A s \in Sessions : SessionFits(s) /\ CodeFits(s)
  /\ \A p \in Polls : PollFits(p)

-----------------------------------------------------------------------------
\* What a step leaves alone stays in order.

\* The parts that speak of accounts only.
LEMMA TokensStay ==
  ASSUME SignInInv, accounts \subseteq accounts', refresh' = refresh,
         \A s \in Sessions : consented[s] \subseteq consented'[s]
  PROVE  TokensFollowConsent'
BY DEF SignInInv, SignInTypeOK, TokensFollowConsent

LEMMA ReachableStays ==
  ASSUME SignInInv, UNCHANGED <<accounts, identity, cred>>
  PROVE  AccountsReachable'
BY DEF SignInInv, AccountsReachable

\* A callback that does not move is not disturbed by more consent.
LEMMA CallbackStays ==
  ASSUME NEW c \in Callbacks, CallbackFits(c), callback'[c] = callback[c],
         UNCHANGED <<accounts, used, identity>>,
         \A s \in Sessions : consented[s] \subseteq consented'[s]
  PROVE  CallbackFits(c)'
BY DEF CallbackFits

LEMMA PollStays ==
  ASSUME NEW p \in Polls, PollFits(p), poll'[p] = poll[p],
         \A s \in Sessions : consented[s] \subseteq consented'[s]
  PROVE  PollFits(p)'
BY DEF PollFits

LEMMA NewOnceStays ==
  ASSUME NewOnce, \A c \in Callbacks : callback'[c].at = "new" => callback'[c] = callback[c]
  PROVE  NewOnce'
BY DEF NewOnce

LEMMA SessionStays ==
  ASSUME NEW s \in Sessions, SessionFits(s), CodeFits(s), session'[s] = session[s], code'[s] = code[s],
         consented[s] \subseteq consented'[s]
  PROVE  SessionFits(s)' /\ CodeFits(s)'
BY DEF SessionFits, CodeFits

-----------------------------------------------------------------------------
\* The steps.

LEMMA SignInInitInv == SignInInit => SignInInv
<1> SUFFICES ASSUME SignInInit PROVE SignInInv
  OBVIOUS
<1>1. SignInTypeOK
  <2>1. Idle \in TokenRequests
    BY DEF Idle, TokenRequests
  <2> QED BY <2>1 DEF SignInInit, SignInTypeOK, NoSession, NoCode
<1>2. TokensFollowConsent /\ AccountsReachable
  BY DEF SignInInit, TokensFollowConsent, AccountsReachable
<1>3. NewOnce /\ \A c \in Callbacks : CallbackFits(c)
  BY DEF SignInInit, NewOnce, CallbackFits, Idle
<1>4. \A s \in Sessions : SessionFits(s) /\ CodeFits(s)
  BY DEF SignInInit, SessionFits, CodeFits, NoSession, NoCode
<1>5. \A p \in Polls : PollFits(p)
  BY DEF SignInInit, PollFits, Idle
<1> QED BY <1>1, <1>2, <1>3, <1>4, <1>5 DEF SignInInv

\* Steps of a callback that change no table.
LEMMA CallbackMoves ==
  ASSUME SignInInv, NEW c \in Callbacks,
         UNCHANGED <<accounts, used, identity, cred, session, code, refresh, poll, consented>>,
         NEW new \in TokenRequests, callback' = [callback EXCEPT ![c] = new],
         CallbackFits(c)', NewOnce'
  PROVE  SignInInv'
<1>1. callback'[c] = new /\ \A d \in Callbacks \ {c} : callback'[d] = callback[d]
  BY DEF SignInInv, SignInTypeOK
<1>2. SignInTypeOK'
  BY DEF SignInInv, SignInTypeOK
<1>3. \A d \in Callbacks : CallbackFits(d)'
  BY <1>1, CallbackStays DEF SignInInv
<1>4. \A s \in Sessions : SessionFits(s)' /\ CodeFits(s)'
  BY SessionStays DEF SignInInv
<1>5. \A p \in Polls : PollFits(p)'
  BY PollStays DEF SignInInv
<1> QED BY <1>2, <1>3, <1>4, <1>5, TokensStay, ReachableStays DEF SignInInv

LEMMA ReadSessionKeeps ==
  ASSUME SignInInv, NEW c \in Callbacks, NEW s \in Sessions, NEW e \in Emails, ReadSession(c, s, e)
  PROVE  SignInInv'
<1> DEFINE new == [at |-> "resolve", session |-> s, email |-> e, user |-> session[s].user]
<1>1. /\ callback' = [callback EXCEPT ![c] = new]
      /\ UNCHANGED <<accounts, used, identity, cred, session, code, refresh, poll, consented>>
  BY DEF ReadSession
<1>2. new \in TokenRequests /\ new.at = "resolve" /\ new.session \in Sessions /\ new.email \in Emails
  BY DEF SignInInv, SignInTypeOK, TokenRequests
<1> HIDE DEF new
<1>3. callback'[c] = new /\ \A d \in Callbacks \ {c} : callback'[d] = callback[d]
  BY <1>1 DEF SignInInv, SignInTypeOK
<1>4. CallbackFits(c)'
  BY <1>2, <1>3 DEF CallbackFits
<1>5. NewOnce'
  BY <1>2, <1>3, NewOnceStays DEF SignInInv
<1> QED BY <1>1, <1>2, <1>4, <1>5, CallbackMoves

LEMMA ResolveKeeps ==
  ASSUME SignInInv, NEW c \in Callbacks, ResolveOrCreateUser(c)
  PROVE  SignInInv'
<1>1. /\ callback[c] \in TokenRequests /\ callback[c].at = "resolve"
      /\ callback[c].session \in Sessions /\ callback[c].email \in Emails
      /\ UNCHANGED <<accounts, used, identity, cred, session, code, refresh, poll, consented>>
      /\ callback \in [Callbacks -> TokenRequests]
  BY DEF ResolveOrCreateUser, SignInInv, SignInTypeOK, CallbackFits
<1>2. CASE /\ identity[callback[c].email] # None
           /\ callback' = [callback EXCEPT ![c].at = "known", ![c].user = identity[callback[c].email]]
  <2> DEFINE new == [callback[c] EXCEPT !.at = "known", !.user = identity[callback[c].email]]
  <2>1. callback' = [callback EXCEPT ![c] = new]
    BY <1>1, <1>2
  <2>2. identity[callback[c].email] \in accounts /\ accounts \subseteq used /\ used \subseteq Users
    BY <1>1, <1>2 DEF SignInInv, SignInTypeOK
  <2>3. /\ new \in TokenRequests /\ new.at = "known" /\ new.user = identity[callback[c].email]
        /\ new.session = callback[c].session /\ new.email = callback[c].email
    BY <1>1, <2>2 DEF TokenRequests
  <2> HIDE DEF new
  <2>4. callback'[c] = new /\ \A d \in Callbacks \ {c} : callback'[d] = callback[d]
    BY <1>1, <2>1
  <2>5. CallbackFits(c)'
    BY <1>1, <2>2, <2>3, <2>4 DEF CallbackFits
  <2>6. NewOnce'
    BY <2>3, <2>4, NewOnceStays DEF SignInInv
  <2> QED BY <1>1, <2>1, <2>3, <2>5, <2>6, CallbackMoves
<1>3. ASSUME identity[callback[c].email] = None,
             \A d \in Callbacks : ~Inserting(d, callback[c].email),
             NEW u \in IF callback[c].user = None THEN FreshIds ELSE {callback[c].user},
             callback' = [callback EXCEPT ![c].at = "new", ![c].user = u]
      PROVE  SignInInv'
  <2> DEFINE new == [callback[c] EXCEPT !.at = "new", !.user = u]
  <2>1. callback' = [callback EXCEPT ![c] = new]
    BY <1>1, <1>3
  <2>2. u \in Users
    BY <1>1 DEF FreshIds, TokenRequests
  <2>3. /\ new \in TokenRequests /\ new.at = "new" /\ new.user = u
        /\ new.session = callback[c].session /\ new.email = callback[c].email
    BY <1>1, <2>2 DEF TokenRequests
  <2> HIDE DEF new
  <2>4. callback'[c] = new /\ \A d \in Callbacks \ {c} : callback'[d] = callback[d]
    BY <1>1, <2>1
  <2>5. CallbackFits(c)'
    BY <1>1, <1>3, <2>2, <2>3, <2>4 DEF CallbackFits
  <2>6. ASSUME NEW a \in Callbacks, NEW b \in Callbacks, a # b,
               callback'[a].at = "new", callback'[b].at = "new"
        PROVE  callback'[a].email # callback'[b].email
    <3>1. \A d \in Callbacks \ {c} : callback[d].at = "new" => callback[d].email # callback[c].email
      BY <1>3 DEF Inserting
    <3>2. CASE a = c
      BY <2>3, <2>4, <2>6, <3>1, <3>2
    <3>3. CASE b = c
      BY <2>3, <2>4, <2>6, <3>1, <3>3
    <3>4. CASE a # c /\ b # c
      BY <2>4, <2>6, <3>4 DEF NewOnce, SignInInv
    <3> QED BY <3>2, <3>3, <3>4
  <2>7. NewOnce'
    BY <2>6 DEF NewOnce
  <2> QED BY <1>1, <2>1, <2>3, <2>5, <2>7, CallbackMoves
<1>4. CASE callback' = [callback EXCEPT ![c].at = "wait"]
  <2> DEFINE new == [callback[c] EXCEPT !.at = "wait"]
  <2>1. callback' = [callback EXCEPT ![c] = new]
    BY <1>1, <1>4
  <2>2. /\ new \in TokenRequests /\ new.at = "wait"
        /\ new.session = callback[c].session /\ new.email = callback[c].email
    BY <1>1 DEF TokenRequests
  <2> HIDE DEF new
  <2>3. callback'[c] = new /\ \A d \in Callbacks \ {c} : callback'[d] = callback[d]
    BY <1>1, <2>1
  <2>4. CallbackFits(c)'
    BY <1>1, <2>2, <2>3 DEF CallbackFits
  <2>5. NewOnce'
    BY <2>2, <2>3, NewOnceStays DEF SignInInv
  <2> QED BY <1>1, <2>1, <2>2, <2>4, <2>5, CallbackMoves
<1> QED BY <1>2, <1>3, <1>4 DEF ResolveOrCreateUser

LEMMA WakeKeeps ==
  ASSUME SignInInv, NEW c \in Callbacks, Wake(c)
  PROVE  SignInInv'
<1> DEFINE at == IF identity[callback[c].email] = None THEN "resolve" ELSE "failed"
           new == [callback[c] EXCEPT !.at = at]
<1>1. /\ callback[c] \in TokenRequests /\ callback[c].at = "wait"
      /\ callback[c].session \in Sessions /\ callback[c].email \in Emails
      /\ UNCHANGED <<accounts, used, identity, cred, session, code, refresh, poll, consented>>
      /\ callback \in [Callbacks -> TokenRequests]
  BY DEF Wake, SignInInv, SignInTypeOK, CallbackFits
<1>2. callback' = [callback EXCEPT ![c] = new]
  BY <1>1 DEF Wake
<1>3. at \in {"resolve", "failed"}
  OBVIOUS
<1> HIDE DEF at
<1>4. /\ new \in TokenRequests /\ new.at = at
      /\ new.session = callback[c].session /\ new.email = callback[c].email
  BY <1>1, <1>3 DEF TokenRequests
<1> HIDE DEF new
<1>5. callback'[c] = new /\ \A d \in Callbacks \ {c} : callback'[d] = callback[d]
  BY <1>1, <1>2
<1>6. CallbackFits(c)'
  BY <1>1, <1>3, <1>4, <1>5 DEF CallbackFits
<1>7. NewOnce'
  BY <1>3, <1>4, <1>5, NewOnceStays DEF SignInInv
<1> QED BY <1>1, <1>2, <1>4, <1>6, <1>7, CallbackMoves

LEMMA CompleteKeeps ==
  ASSUME SignInInv, NEW c \in Callbacks, CompleteOAuth(c)
  PROVE  SignInInv'
<1> DEFINE u == callback[c].user
           e == callback[c].email
           s == callback[c].session
           at == IF session[s].kind = "client" THEN "code" ELSE "done"
           new == [callback[c] EXCEPT !.at = at]
           opened == [session[s] EXCEPT !.status = "connected", !.user = u]
<1>1. /\ callback[c] \in TokenRequests /\ callback \in [Callbacks -> TokenRequests]
      /\ s \in Sessions /\ e \in Emails /\ u \in Users /\ callback[c].at \in {"known", "new"}
      /\ u \notin used \ accounts /\ CallbackFits(c)
  BY DEF CompleteOAuth, SignInInv, SignInTypeOK, CallbackFits, Gone
<1>2. /\ accounts' = accounts \union {u} /\ used' = used \union {u}
      /\ identity' = [identity EXCEPT ![e] = u] /\ cred' = cred \union {<<u, e>>}
      /\ consented' = [consented EXCEPT ![s] = @ \union {u}]
      /\ UNCHANGED <<code, refresh, poll>>
  BY DEF CompleteOAuth, UpsertCredentials
<1>3. callback' = [callback EXCEPT ![c] = new]
  BY <1>1 DEF CompleteOAuth
<1>4. session' = [session EXCEPT ![s] = opened]
  BY <1>1 DEF CompleteOAuth, SignInInv, SignInTypeOK
<1>5. at \in {"code", "done"}
  OBVIOUS
<1> HIDE DEF at
<1>6. /\ new \in TokenRequests /\ new.at = at /\ new.user = u /\ new.session = s /\ new.email = e
  BY <1>1, <1>5 DEF TokenRequests
<1>7. /\ opened \in [status : {"none", "pending", "connected", "failed"}, user : accounts' \union {None},
                      kind : {"poll", "client", "none"}, dispensed : BOOLEAN]
      /\ opened.status = "connected" /\ opened.user = u
  <2>1. session[s] \in [status : {"none", "pending", "connected", "failed"}, user : accounts \union {None},
                        kind : {"poll", "client", "none"}, dispensed : BOOLEAN]
    BY <1>1 DEF SignInInv, SignInTypeOK
  <2> QED BY <1>2, <2>1
<1> HIDE DEF new, opened, u, e, s
<1>8. /\ accounts \subseteq accounts' /\ used \subseteq used' /\ accounts \subseteq used
      /\ used' \subseteq Users /\ accounts' \subseteq used'
      /\ identity \in [Emails -> accounts \union {None}] /\ consented \in [Sessions -> SUBSET Users]
      /\ \A t \in Sessions : consented[t] \subseteq consented'[t]
      /\ u \in consented'[s]
  BY <1>1, <1>2 DEF SignInInv, SignInTypeOK
<1>9. callback'[c] = new /\ \A d \in Callbacks \ {c} : callback'[d] = callback[d]
  BY <1>1, <1>3
<1>10. session'[s] = opened /\ \A t \in Sessions \ {s} : session'[t] = session[t]
  BY <1>1, <1>4 DEF SignInInv, SignInTypeOK
\* The address was free, or it opened this account already.
<1>11. identity[e] \in {None, u} /\ u # None
  BY <1>1, AccountsAssumption DEF CallbackFits, u, e
<1>12. identity'[e] = u /\ \A x \in Emails \ {e} : identity'[x] = identity[x]
  BY <1>1, <1>2, <1>8
<1>13. SignInTypeOK'
  <2>accounts. accounts' \in SUBSET used' /\ used' \in SUBSET Users
    BY <1>8
  <2>identity. identity' \in [Emails -> accounts' \union {None}]
    BY <1>2, <1>8
  <2>cred. cred' \in SUBSET (accounts' \X Emails)
    BY <1>1, <1>2 DEF SignInInv, SignInTypeOK
  <2>session. session' \in [Sessions -> [status : {"none", "pending", "connected", "failed"},
                                         user : accounts' \union {None}, kind : {"poll", "client", "none"},
                                         dispensed : BOOLEAN]]
    BY <1>4, <1>7, <1>8 DEF SignInInv, SignInTypeOK
  <2>code. code' \in [Sessions -> [user : accounts' \union {None}, status : {"none", "fresh", "used"}]]
    BY <1>2, <1>8 DEF SignInInv, SignInTypeOK
  <2>refresh. refresh' \in SUBSET (accounts' \X Sessions)
    BY <1>2, <1>8 DEF SignInInv, SignInTypeOK
  <2>requests. callback' \in [Callbacks -> TokenRequests] /\ poll' \in [Polls -> TokenRequests]
    BY <1>1, <1>2, <1>3, <1>6 DEF SignInInv, SignInTypeOK
  <2>consented. consented' \in [Sessions -> SUBSET Users]
    BY <1>1, <1>2, <1>8
  <2> QED BY <2>accounts, <2>identity, <2>cred, <2>session, <2>code, <2>refresh, <2>requests, <2>consented DEF SignInTypeOK
<1>14. TokensFollowConsent'
  BY <1>2, <1>8, TokensStay
<1>15. AccountsReachable'
  <2>1. ASSUME NEW v \in accounts'
        PROVE  \E x \in Emails : identity'[x] = v /\ <<v, x>> \in cred'
    <3>1. CASE v = u
      BY <1>1, <1>2, <1>12, <3>1
    <3>2. CASE v # u
      <4>1. PICK x \in Emails : identity[x] = v /\ <<v, x>> \in cred
        BY <1>2, <3>2 DEF SignInInv, AccountsReachable
      <4>2. v # None
        BY <1>2, <1>8, <3>2, AccountsAssumption
      <4> QED BY <1>2, <1>11, <1>12, <3>2, <4>1, <4>2
    <3> QED BY <3>1, <3>2
  <2>2. ASSUME NEW k \in cred'
        PROVE  identity'[k[2]] = k[1]
    <3>1. CASE k = <<u, e>>
      BY <1>12, <3>1
    <3>2. CASE k # <<u, e>>
      <4>1. k \in cred /\ identity[k[2]] = k[1] /\ k \in accounts \X Emails
        BY <1>2, <3>2 DEF SignInInv, AccountsReachable, SignInTypeOK
      <4>2. k[1] # None /\ k[2] \in Emails
        BY <1>8, <4>1, AccountsAssumption
      <4> QED BY <1>11, <1>12, <3>2, <4>1, <4>2
    <3> QED BY <3>1, <3>2
  <2> QED BY <2>1, <2>2 DEF AccountsReachable
<1>16. NewOnce'
  BY <1>5, <1>6, <1>9, NewOnceStays DEF SignInInv
<1>17. CallbackFits(c)'
  BY <1>1, <1>2, <1>5, <1>6, <1>8, <1>9 DEF CallbackFits
<1>18. ASSUME NEW d \in Callbacks \ {c}
       PROVE  CallbackFits(d)'
  <2>1. callback'[d] = callback[d] /\ CallbackFits(d)
    BY <1>9 DEF SignInInv
  <2>2. ASSUME callback[d].at = "known", callback[d].user \in accounts'
        PROVE  identity'[callback[d].email] = callback[d].user
    <3>1. callback[d].user \in accounts
      BY <1>1, <1>2, <2>1, <2>2 DEF CallbackFits
    <3>2. identity[callback[d].email] = callback[d].user /\ callback[d].email \in Emails
          /\ callback[d].user # None
      BY <1>8, <2>1, <2>2, <3>1, AccountsAssumption DEF CallbackFits
    <3> QED BY <1>11, <1>12, <3>2
  <2>3. ASSUME callback[d].at = "new"
        PROVE  identity'[callback[d].email] = None
    <3>1. identity[callback[d].email] = None /\ callback[d].email \in Emails
      BY <2>1, <2>3 DEF CallbackFits
    <3>2. callback[d].email # e
      <4>1. CASE callback[c].at = "new"
        BY <2>3, <4>1 DEF SignInInv, NewOnce, e
      <4>2. CASE callback[c].at = "known"
        BY <1>1, <1>8, <1>11, <3>1, <4>2, AccountsAssumption DEF CallbackFits, e, u
      <4> QED BY <1>1, <4>1, <4>2
    <3> QED BY <1>12, <3>1, <3>2
  <2> QED BY <1>8, <2>1, <2>2, <2>3 DEF CallbackFits
<1>19. ASSUME NEW t \in Sessions
       PROVE  SessionFits(t)' /\ CodeFits(t)'
  <2>1. SessionFits(t) /\ CodeFits(t) /\ code'[t] = code[t]
    BY <1>2 DEF SignInInv
  <2>2. CASE t = s
    BY <1>7, <1>8, <1>10, <2>1, <2>2 DEF SessionFits, CodeFits
  <2>3. CASE t # s
    BY <1>8, <1>10, <2>1, <2>3, SessionStays
  <2> QED BY <2>2, <2>3
<1>20. \A p \in Polls : PollFits(p)'
  BY <1>2, <1>8, PollStays DEF SignInInv
<1> QED BY <1>13, <1>14, <1>15, <1>16, <1>17, <1>18, <1>19, <1>20 DEF SignInInv

\* What becomes of a callback in a step that is not one of its own, or its last.
StaysOrEnds(c) ==
  \/ callback'[c] = callback[c]
  \/ callback'[c].at = "done" /\ callback'[c].session \in Sessions /\ callback'[c].email \in Emails

\* Steps of a callback or a request for tokens that move accounts not at all,
\* but may change what the tables of a session say.
LEMMA SessionMoves ==
  ASSUME SignInInv, UNCHANGED <<accounts, used, identity, cred>>,
         SignInTypeOK', TokensFollowConsent',
         \A s \in Sessions : consented[s] \subseteq consented'[s],
         \A c \in Callbacks : StaysOrEnds(c),
         \A s \in Sessions : SessionFits(s)' /\ CodeFits(s)',
         \A p \in Polls : PollFits(p)'
  PROVE  SignInInv'
<1>1. ASSUME NEW c \in Callbacks
      PROVE  CallbackFits(c)'
  <2>1. CASE callback'[c] = callback[c]
    BY <2>1, CallbackStays DEF SignInInv
  <2>2. CASE callback'[c].at = "done" /\ callback'[c].session \in Sessions /\ callback'[c].email \in Emails
    BY <2>2 DEF CallbackFits
  <2> QED BY <2>1, <2>2 DEF StaysOrEnds
<1>2. NewOnce'
  BY NewOnceStays DEF SignInInv, StaysOrEnds
<1> QED BY <1>1, <1>2, ReachableStays DEF SignInInv

\* What a row of connect_sessions may be while these accounts exist.
SessionRows == [status : {"none", "pending", "connected", "failed"}, user : accounts \union {None},
                kind : {"poll", "client", "none"}, dispensed : BOOLEAN]
CodeRows == [user : accounts \union {None}, status : {"none", "fresh", "used"}]

LEMMA CreateCodeKeeps ==
  ASSUME SignInInv, NEW c \in Callbacks, CreateCode(c)
  PROVE  SignInInv'
<1> DEFINE s == callback[c].session
           new == [callback[c] EXCEPT !.at = "done"]
           row == IF Gone(c) THEN code[s] ELSE [user |-> callback[c].user, status |-> "fresh"]
<1>1. /\ callback[c] \in TokenRequests /\ callback \in [Callbacks -> TokenRequests]
      /\ callback[c].at = "code" /\ CallbackFits(c) /\ s \in Sessions
      /\ callback[c].user \in used /\ callback[c].user \in consented[s]
      /\ UNCHANGED <<accounts, used, identity, cred, session, refresh, poll, consented>>
  BY DEF CreateCode, SignInInv, SignInTypeOK, CallbackFits
<1>2. callback' = [callback EXCEPT ![c] = new] /\ code' = [code EXCEPT ![s] = row]
  BY <1>1 DEF CreateCode
<1>3. new \in TokenRequests /\ new.at = "done" /\ new.session \in Sessions /\ new.email \in Emails
  BY <1>1 DEF TokenRequests, CallbackFits
<1>4. code \in [Sessions -> CodeRows] /\ code[s] \in CodeRows
  BY <1>1 DEF SignInInv, SignInTypeOK, CodeRows
<1>5. row \in CodeRows
  BY <1>1, <1>4 DEF CodeRows, Gone
<1>6. row.status = "fresh" => row.user \in consented[s]
  BY <1>1 DEF SignInInv, CodeFits
<1> HIDE DEF new, row, s
<1>7. code' \in [Sessions -> CodeRows]
  BY <1>2, <1>4, <1>5
<1>8. SignInTypeOK'
  BY <1>1, <1>2, <1>3, <1>7 DEF SignInInv, SignInTypeOK, CodeRows
<1>9. \A d \in Callbacks : StaysOrEnds(d)
  BY <1>1, <1>2, <1>3 DEF StaysOrEnds
<1>10. ASSUME NEW t \in Sessions
       PROVE  SessionFits(t)' /\ CodeFits(t)'
  BY <1>1, <1>2, <1>4, <1>6 DEF SignInInv, SessionFits, CodeFits
<1>11. TokensFollowConsent' /\ \A p \in Polls : PollFits(p)'
  BY <1>1, TokensStay, PollStays DEF SignInInv
<1> QED BY <1>1, <1>8, <1>9, <1>10, <1>11, SessionMoves DEF StaysOrEnds

LEMMA CallbackFailsKeeps ==
  ASSUME SignInInv, NEW c \in Callbacks, CallbackFails(c)
  PROVE  SignInInv'
<1> DEFINE s == callback[c].session
           new == [callback[c] EXCEPT !.at = "done"]
           row == [session[s] EXCEPT !.status = "failed"]
<1>1. /\ callback[c] \in TokenRequests /\ callback \in [Callbacks -> TokenRequests]
      /\ callback[c].at # "idle" /\ CallbackFits(c) /\ s \in Sessions
      /\ UNCHANGED <<accounts, used, identity, cred, code, refresh, poll, consented>>
  BY DEF CallbackFails, SignInInv, SignInTypeOK, CallbackFits
<1>2. callback' = [callback EXCEPT ![c] = new]
  BY <1>1 DEF CallbackFails
<1>3. session' = [session EXCEPT ![s] = row] /\ session \in [Sessions -> SessionRows]
  BY <1>1 DEF CallbackFails, SignInInv, SignInTypeOK, SessionRows
<1>4. new \in TokenRequests /\ new.at = "done" /\ new.session \in Sessions /\ new.email \in Emails
  BY <1>1 DEF TokenRequests, CallbackFits
<1>5. row \in SessionRows /\ row.status = "failed"
  BY <1>1, <1>3 DEF SessionRows
<1> HIDE DEF new, row, s
<1>6. session' \in [Sessions -> SessionRows]
  BY <1>1, <1>3, <1>5
<1>7. SignInTypeOK'
  BY <1>1, <1>2, <1>4, <1>6 DEF SignInInv, SignInTypeOK, SessionRows
<1>8. \A d \in Callbacks : StaysOrEnds(d)
  BY <1>1, <1>2, <1>4 DEF StaysOrEnds
<1>9. ASSUME NEW t \in Sessions
      PROVE  SessionFits(t)' /\ CodeFits(t)'
  <2>1. CASE t = s
    BY <1>1, <1>3, <1>5, <2>1 DEF SignInInv, SessionFits, CodeFits
  <2>2. CASE t # s
    BY <1>1, <1>3, <2>2 DEF SignInInv, SessionFits, CodeFits
  <2> QED BY <2>1, <2>2
<1>10. TokensFollowConsent' /\ \A p \in Polls : PollFits(p)'
  BY <1>1, TokensStay, PollStays DEF SignInInv
<1> QED BY <1>1, <1>7, <1>8, <1>9, <1>10, SessionMoves DEF StaysOrEnds

\* A session is opened, by a request that makes its row.
LEMMA SessionOpens ==
  ASSUME SignInInv, NEW s \in Sessions, NEW row \in SessionRows, row.status = "pending",
         session' = [session EXCEPT ![s] = row],
         UNCHANGED <<accounts, used, identity, cred, code, refresh, callback, poll, consented>>
  PROVE  SignInInv'
<1>1. session \in [Sessions -> SessionRows]
  BY DEF SignInInv, SignInTypeOK, SessionRows
<1>2. session' \in [Sessions -> SessionRows]
  BY <1>1
<1>3. SignInTypeOK'
  BY <1>2 DEF SignInInv, SignInTypeOK, SessionRows
<1>4. ASSUME NEW t \in Sessions
      PROVE  SessionFits(t)' /\ CodeFits(t)'
  <2>1. CASE t = s
    BY <1>1, <2>1 DEF SignInInv, SessionFits, CodeFits
  <2>2. CASE t # s
    BY <1>1, <2>2 DEF SignInInv, SessionFits, CodeFits
  <2> QED BY <2>1, <2>2
<1>5. TokensFollowConsent' /\ \A p \in Polls : PollFits(p)'
  BY SMTT(30), TokensStay, PollStays DEF SignInInv
<1> QED BY <1>3, <1>4, <1>5, SessionMoves DEF StaysOrEnds

LEMMA CreateKeeps ==
  ASSUME SignInInv, NEW s \in Sessions, CreateConnectSession(s) \/ CreateAuthorizeSession(s)
  PROVE  SignInInv'
<1>1. ASSUME NEW u \in accounts \union {None},
             session' = [session EXCEPT ![s] = [NoSession EXCEPT !.status = "pending", !.user = u]],
             CreateConnectSession(s)
      PROVE  SignInInv'
  <2> DEFINE row == [NoSession EXCEPT !.status = "pending", !.user = u]
  <2>1. row \in SessionRows /\ row.status = "pending"
    BY DEF NoSession, SessionRows
  <2> HIDE DEF row
  <2>2. UNCHANGED <<accounts, used, identity, cred, code, refresh, callback, poll, consented>>
    BY <1>1 DEF CreateConnectSession
  <2> QED BY <1>1, <2>1, <2>2, SessionOpens DEF row
<1>2. CASE CreateAuthorizeSession(s)
  <2> DEFINE row == [NoSession EXCEPT !.status = "pending", !.kind = "client"]
  <2>1. row \in SessionRows /\ row.status = "pending"
    BY DEF NoSession, SessionRows
  <2>2. /\ session' = [session EXCEPT ![s] = row]
        /\ UNCHANGED <<accounts, used, identity, cred, code, refresh, callback, poll, consented>>
    BY <1>2 DEF CreateAuthorizeSession
  <2> HIDE DEF row
  <2> QED BY <2>1, <2>2, SessionOpens
<1> QED BY <1>1, <1>2 DEF CreateConnectSession

LEMMA AlreadyConnectedKeeps ==
  ASSUME SignInInv, NEW s \in Sessions, NEW u \in Users, NEW e \in Emails, AlreadyConnected(s, u, e)
  PROVE  SignInInv'
<1> DEFINE row == [status |-> "connected", user |-> u, kind |-> "none", dispensed |-> FALSE]
<1>1. /\ u \in accounts /\ identity[e] = u
      /\ session' = [session EXCEPT ![s] = row] /\ refresh' = refresh \union {<<u, s>>}
      /\ consented' = [consented EXCEPT ![s] = @ \union {u}]
      /\ UNCHANGED <<accounts, used, identity, cred, code, callback, poll>>
  BY DEF AlreadyConnected, CheckExisting, Done, SignInInv, SignInTypeOK
<1>2. row \in SessionRows /\ row.status = "connected" /\ row.user = u
  BY <1>1 DEF SessionRows
<1> HIDE DEF row
<1>3. session \in [Sessions -> SessionRows] /\ consented \in [Sessions -> SUBSET Users]
  BY DEF SignInInv, SignInTypeOK, SessionRows
<1>4. session' \in [Sessions -> SessionRows] /\ consented' \in [Sessions -> SUBSET Users]
  BY <1>1, <1>2, <1>3
<1>5. /\ \A t \in Sessions : consented[t] \subseteq consented'[t]
      /\ u \in consented'[s] /\ session'[s] = row /\ \A t \in Sessions \ {s} : session'[t] = session[t]
  BY <1>1, <1>3
<1>6. SignInTypeOK'
  <2>1. refresh' \in SUBSET (accounts \X Sessions)
    BY <1>1 DEF SignInInv, SignInTypeOK
  <2> QED BY <1>1, <1>4, <2>1 DEF SignInInv, SignInTypeOK, SessionRows
<1>7. TokensFollowConsent'
  <2>1. ASSUME NEW t \in refresh'
        PROVE  t[1] \in accounts' /\ t[1] \in consented'[t[2]]
    <3>1. CASE t = <<u, s>>
      BY <1>1, <1>5, <3>1
    <3>2. CASE t # <<u, s>>
      <4>1. t \in refresh /\ t \in accounts \X Sessions /\ t[1] \in consented[t[2]]
        BY <1>1, <3>2 DEF SignInInv, SignInTypeOK, TokensFollowConsent
      <4> QED BY <1>1, <1>5, <4>1
    <3> QED BY <3>1, <3>2
  <2> QED BY <2>1 DEF TokensFollowConsent
<1>8. ASSUME NEW t \in Sessions
      PROVE  SessionFits(t)' /\ CodeFits(t)'
  <2>1. SessionFits(t) /\ CodeFits(t) /\ code'[t] = code[t]
    BY <1>1 DEF SignInInv
  <2>2. CASE t = s
    BY <1>2, <1>5, <2>1, <2>2 DEF SessionFits, CodeFits
  <2>3. CASE t # s
    BY <1>5, <2>1, <2>3, SessionStays
  <2> QED BY <2>2, <2>3
<1>9. \A p \in Polls : PollFits(p)'
  BY <1>1, <1>5, PollStays DEF SignInInv
<1> QED BY <1>1, <1>5, <1>6, <1>7, <1>8, <1>9, SessionMoves DEF StaysOrEnds

\* A request for tokens has read its session or its code.
LEMMA PollReads ==
  ASSUME SignInInv, NEW p \in Polls, NEW new \in TokenRequests,
         new.session \in Sessions, new.user \in consented[new.session],
         poll' = [poll EXCEPT ![p] = new],
         UNCHANGED <<accounts, used, identity, cred, session, code, refresh, callback, consented>>
  PROVE  SignInInv'
<1>1. SignInTypeOK'
  BY DEF SignInInv, SignInTypeOK
<1>2. poll'[p] = new /\ \A q \in Polls \ {p} : poll'[q] = poll[q]
  BY DEF SignInInv, SignInTypeOK
<1>3. ASSUME NEW q \in Polls
      PROVE  PollFits(q)'
  <2>1. CASE q = p
    BY <1>2, <2>1 DEF PollFits
  <2>2. CASE q # p
    BY <1>2, <2>2, PollStays DEF SignInInv
  <2> QED BY <2>1, <2>2
<1>4. \A s \in Sessions : SessionFits(s)' /\ CodeFits(s)'
  BY SessionStays DEF SignInInv
<1>5. TokensFollowConsent'
  BY TokensStay
<1> QED BY <1>1, <1>3, <1>4, <1>5, SessionMoves DEF StaysOrEnds

LEMMA PollKeeps ==
  ASSUME SignInInv, NEW p \in Polls, NEW s \in Sessions, PollConnect(p, s) \/ ExchangeCode(p, s)
  PROVE  SignInInv'
<1>1. consented[s] \subseteq Users
  BY DEF SignInInv, SignInTypeOK
<1>2. CASE PollConnect(p, s)
  <2> DEFINE new == [at |-> "poll", session |-> s, email |-> None, user |-> session[s].user]
  <2>1. session[s].user \in consented[s]
    BY <1>2 DEF PollConnect, SignInInv, SessionFits
  <2>2. new \in TokenRequests /\ new.session = s /\ new.user = session[s].user
    BY <1>1, <2>1 DEF TokenRequests
  <2>3. /\ poll' = [poll EXCEPT ![p] = new]
        /\ UNCHANGED <<accounts, used, identity, cred, session, code, refresh, callback, consented>>
    BY <1>2 DEF PollConnect
  <2> HIDE DEF new
  <2> QED BY <2>1, <2>2, <2>3, PollReads
<1>3. CASE ExchangeCode(p, s)
  <2> DEFINE new == [at |-> "exchange", session |-> s, email |-> None, user |-> code[s].user]
  <2>1. code[s].user \in consented[s]
    BY <1>3 DEF ExchangeCode, SignInInv, CodeFits
  <2>2. new \in TokenRequests /\ new.session = s /\ new.user = code[s].user
    BY <1>1, <2>1 DEF TokenRequests
  <2>3. /\ poll' = [poll EXCEPT ![p] = new]
        /\ UNCHANGED <<accounts, used, identity, cred, session, code, refresh, callback, consented>>
    BY <1>3 DEF ExchangeCode
  <2> HIDE DEF new
  <2> QED BY <2>1, <2>2, <2>3, PollReads
<1> QED BY <1>2, <1>3

LEMMA MintKeeps ==
  ASSUME SignInInv, NEW p \in Polls, MintTokens(p)
  PROVE  SignInInv'
<1> DEFINE s == poll[p].session
           u == poll[p].user
<1>1. /\ poll \in [Polls -> TokenRequests] /\ poll[p] \in TokenRequests
      /\ poll[p].at \in {"poll", "exchange"} /\ s \in Sessions /\ u \in consented[s]
      /\ poll' = [poll EXCEPT ![p] = Idle]
      /\ UNCHANGED <<accounts, used, identity, cred, callback, consented>>
  BY DEF MintTokens, SignInInv, SignInTypeOK, PollFits
<1>2. Idle \in TokenRequests /\ Idle.at = "idle"
  BY DEF Idle, TokenRequests
<1>3. session \in [Sessions -> SessionRows] /\ code \in [Sessions -> CodeRows]
  BY DEF SignInInv, SignInTypeOK, SessionRows, CodeRows
<1>4. \/ session' = session
      \/ session' = [session EXCEPT ![s] = [session[s] EXCEPT !.dispensed = TRUE]]
  BY <1>3 DEF MintTokens
<1>5. \/ code' = code
      \/ code' = [code EXCEPT ![s] = [code[s] EXCEPT !.status = "used"]] /\ poll[p].at = "exchange"
  BY <1>3 DEF MintTokens
<1>6. \/ refresh' = refresh
      \/ refresh' = refresh \union {<<u, s>>} /\ u \in accounts
  BY DEF MintTokens
<1> HIDE DEF s, u
<1>7. session' \in [Sessions -> SessionRows]
  <2>1. [session[s] EXCEPT !.dispensed = TRUE] \in SessionRows
    BY <1>1, <1>3 DEF SessionRows
  <2> QED BY <1>3, <1>4, <2>1
<1>8. code' \in [Sessions -> CodeRows]
  <2>1. [code[s] EXCEPT !.status = "used"] \in CodeRows
    BY <1>1, <1>3 DEF CodeRows
  <2> QED BY <1>3, <1>5, <2>1
<1>9. SignInTypeOK'
  <2>1. refresh' \in SUBSET (accounts \X Sessions)
    BY <1>1, <1>6 DEF SignInInv, SignInTypeOK
  <2>2. poll' \in [Polls -> TokenRequests]
    BY <1>1, <1>2
  <2> QED BY <1>1, <1>7, <1>8, <2>1, <2>2 DEF SignInInv, SignInTypeOK, SessionRows, CodeRows
<1>10. TokensFollowConsent'
  <2>1. ASSUME NEW t \in refresh'
        PROVE  t[1] \in accounts' /\ t[1] \in consented'[t[2]]
    <3>1. CASE t \in refresh
      BY <1>1, <3>1 DEF SignInInv, TokensFollowConsent
    <3>2. CASE t \notin refresh
      BY <1>1, <1>6, <2>1, <3>2
    <3> QED BY <3>1, <3>2
  <2> QED BY <2>1 DEF TokensFollowConsent
<1>11. ASSUME NEW t \in Sessions
       PROVE  SessionFits(t)' /\ CodeFits(t)'
  <2>1. SessionFits(t) /\ CodeFits(t) /\ consented'[t] = consented[t]
    BY <1>1 DEF SignInInv
  <2>2. session'[t].status = session[t].status /\ session'[t].user = session[t].user
    BY <1>1, <1>3, <1>4 DEF SessionRows
  <2>3. code'[t].user = code[t].user /\ (code'[t].status = "fresh" => code'[t].user \in consented[t])
    <3>1. CASE code' = code
      BY <2>1, <3>1 DEF CodeFits
    <3>2. ASSUME code' = [code EXCEPT ![s] = [code[s] EXCEPT !.status = "used"]], poll[p].at = "exchange"
          PROVE  code'[t].user = code[t].user /\ (code'[t].status = "fresh" => code'[t].user \in consented[t])
      BY <1>1, <1>3, <2>1, <3>2 DEF CodeRows, CodeFits
    <3> QED BY <1>5, <3>1, <3>2
  <2> QED BY <2>1, <2>2, <2>3 DEF SessionFits, CodeFits
<1>12. \A q \in Polls : PollFits(q)'
  <2>1. ASSUME NEW q \in Polls
        PROVE  PollFits(q)'
    <3>1. CASE q = p
      BY <1>1, <1>2, <3>1 DEF PollFits
    <3>2. CASE q # p
      <4>1. poll'[q] = poll[q]
        BY <1>1, <3>2
      <4> QED BY <1>1, <4>1, PollStays DEF SignInInv
    <3> QED BY <3>1, <3>2
  <2> QED BY <2>1
<1> QED BY <1>1, <1>9, <1>10, <1>11, <1>12, SessionMoves DEF StaysOrEnds

\* What goes with an account is all that speaks of it; ids are not reused, so
\* requests that still name it find it gone.
LEMMA DeleteKeeps ==
  ASSUME SignInInv, NEW u \in Users, DeleteUserAccount(u)
  PROVE  SignInInv'
<1>1. /\ u \in accounts /\ accounts' = accounts \ {u}
      /\ identity' = [e \in Emails |-> IF identity[e] = u THEN None ELSE identity[e]]
      /\ cred' = {k \in cred : k[1] # u} /\ refresh' = {t \in refresh : t[1] # u}
      /\ UNCHANGED <<used, callback, poll, consented>>
  BY DEF DeleteUserAccount
<1>2. session' = [s \in Sessions |->
                   IF session[s].user = u THEN [session[s] EXCEPT !.user = None] ELSE session[s]]
  BY DEF DeleteUserAccount
<1>3. code' = [s \in Sessions |-> IF code[s].user = u THEN NoCode ELSE code[s]]
  BY DEF DeleteUserAccount
<1>4. session \in [Sessions -> SessionRows] /\ code \in [Sessions -> CodeRows]
  BY DEF SignInInv, SignInTypeOK, SessionRows, CodeRows
<1>5. ASSUME NEW s \in Sessions
      PROVE  /\ session'[s] \in SessionRows' /\ code'[s] \in CodeRows'
             /\ SessionFits(s)' /\ CodeFits(s)'
  <2>1. /\ session[s] \in SessionRows /\ code[s] \in CodeRows /\ SessionFits(s) /\ CodeFits(s)
        /\ consented'[s] = consented[s]
    BY <1>1, <1>4 DEF SignInInv
  <2>2. session'[s] = IF session[s].user = u THEN [session[s] EXCEPT !.user = None] ELSE session[s]
    BY <1>2
  <2>3. code'[s] = IF code[s].user = u THEN NoCode ELSE code[s]
    BY <1>3
  <2>4. session'[s] \in SessionRows'
    BY <1>1, <2>1, <2>2 DEF SessionRows
  <2>5. code'[s] \in CodeRows'
    BY <1>1, <2>1, <2>3 DEF CodeRows, NoCode
  <2>6. SessionFits(s)'
    BY <2>1, <2>2 DEF SessionFits, SessionRows
  <2>7. CodeFits(s)'
    BY <2>1, <2>3 DEF CodeFits, NoCode
  <2> QED BY <2>4, <2>5, <2>6, <2>7
<1>6. SignInTypeOK'
  <2>1. identity' \in [Emails -> accounts' \union {None}]
    BY <1>1 DEF SignInInv, SignInTypeOK
  <2>2. cred' \in SUBSET (accounts' \X Emails) /\ refresh' \in SUBSET (accounts' \X Sessions)
    BY <1>1 DEF SignInInv, SignInTypeOK
  <2>3. session' \in [Sessions -> SessionRows'] /\ code' \in [Sessions -> CodeRows']
    BY <1>2, <1>3, <1>5
  <2> QED BY <1>1, <2>1, <2>2, <2>3 DEF SignInInv, SignInTypeOK, SessionRows, CodeRows
<1>7. TokensFollowConsent'
  BY <1>1 DEF SignInInv, TokensFollowConsent
<1>8. AccountsReachable'
  <2>1. ASSUME NEW v \in accounts'
        PROVE  \E e \in Emails : identity'[e] = v /\ <<v, e>> \in cred'
    <3>1. PICK e \in Emails : identity[e] = v /\ <<v, e>> \in cred
      BY <1>1, <2>1 DEF SignInInv, AccountsReachable
    <3> QED BY <1>1, <2>1, <3>1
  <2>2. ASSUME NEW k \in cred'
        PROVE  identity'[k[2]] = k[1]
    <3>1. k \in cred /\ k[1] # u /\ k \in accounts \X Emails
      BY <1>1, <2>2 DEF SignInInv, SignInTypeOK
    <3> QED BY <1>1, <3>1 DEF SignInInv, AccountsReachable
  <2> QED BY <2>1, <2>2 DEF AccountsReachable
<1>9. NewOnce'
  BY <1>1 DEF SignInInv, NewOnce
<1>10. ASSUME NEW c \in Callbacks
       PROVE  CallbackFits(c)'
  <2>1. CallbackFits(c) /\ callback' = callback /\ used' = used /\ consented' = consented
    BY <1>1 DEF SignInInv
  <2>2. callback[c].at = "known" /\ callback[c].user \in accounts'
          => identity'[callback[c].email] = callback[c].user
    BY <1>1, <2>1 DEF CallbackFits
  <2>3. callback[c].at = "new" => identity'[callback[c].email] = None
    BY <1>1, <2>1 DEF CallbackFits
  <2> QED BY <2>1, <2>2, <2>3 DEF CallbackFits
<1>11. \A p \in Polls : PollFits(p)'
  BY <1>1, PollStays DEF SignInInv
<1> QED BY <1>5, <1>6, <1>7, <1>8, <1>9, <1>10, <1>11 DEF SignInInv

LEMMA StutterKeeps ==
  ASSUME SignInInv, UNCHANGED signInVars
  PROVE  SignInInv'
<1>1. UNCHANGED <<accounts, used, identity, cred, session, code, refresh, callback, poll, consented>>
  BY DEF signInVars
<1>2. SignInTypeOK'
  BY <1>1 DEF SignInInv, SignInTypeOK
<1>3. TokensFollowConsent' /\ (\A p \in Polls : PollFits(p)')
      /\ (\A s \in Sessions : SessionFits(s)' /\ CodeFits(s)')
  BY <1>1, TokensStay, PollStays, SessionStays DEF SignInInv
<1> QED BY <1>1, <1>2, <1>3, SessionMoves DEF StaysOrEnds

LEMMA SignInStepKeeps == SignInInv /\ [SignInNext]_signInVars => SignInInv'
BY ReadSessionKeeps, ResolveKeeps, WakeKeeps, CompleteKeeps, CreateCodeKeeps, CallbackFailsKeeps,
   CreateKeeps, AlreadyConnectedKeeps, PollKeeps, MintKeeps, DeleteKeeps, StutterKeeps
   DEF SignInNext, CallbackStep

LEMMA SignInInvariance == SignInSpec => []SignInInv
BY SignInInitInv, SignInStepKeeps, PTL DEF SignInSpec

-----------------------------------------------------------------------------
\* The rows of accounts, sessions, codes and tokens have their types: none
\* names an account that was deleted (delete_user_account), whatever requests
\* were at work when it went.
THEOREM SignInTypeCorrect == SignInSpec => []SignInTypeOK
<1>1. SignInInv => SignInTypeOK
  BY DEF SignInInv
<1> QED BY <1>1, SignInInvariance, PTL

\* However callbacks, polls, exchanges and deletions race, tokens are handed
\* out only to a user for whom Google's consent came back to that session, or
\* whose stored credential opened it.
THEOREM TokensAreConsented == SignInSpec => []TokensFollowConsent
<1>1. SignInInv => TokensFollowConsent
  BY DEF SignInInv
<1> QED BY <1>1, SignInInvariance, PTL

\* However callbacks race for an address, every account is opened by an address
\* and a credential is held by the account that its address opens
\* (_resolve_or_create_user, complete_oauth).
THEOREM AccountsAreReachable == SignInSpec => []AccountsReachable
<1>1. SignInInv => AccountsReachable
  BY DEF SignInInv
<1> QED BY <1>1, SignInInvariance, PTL

(***************************************************************************)
(* The three together (MCSharing).                                         *)
(***************************************************************************)

\* Each of them begins as it does alone.
LEMMA PlainTablesOK ==
  ASSUME PlainTables, persons = Persons
  PROVE  TablesOK
<1>1. [p \in Persons |-> {}] \in [Persons -> SUBSET (Types \union Flags)]
  OBVIOUS
<1> QED BY <1>1 DEF PlainTables, TablesOK, Nobody

LEMMA SharedTablesOK ==
  ASSUME persons = Persons, SharedInit
  PROVE  TablesOK
<1> USE ReadsAssumption, InstanceAssumption
<1>1. Tie \in Row /\ Connection \in Row /\ Noise \in Row /\ {} \in Row
  BY DEF Tie, Connection, Noise, Types, Flags, Row
<1>2. obs \in [Users -> [Persons -> Row]]
  <2>1. PICK rows \in {<<Tie, Noise>>, <<Tie, {}>>, <<Connection, Tie>>} :
          obs = [u \in Users |-> IF u = Friend THEN AsSeen(rows[1], rows[2]) ELSE Nobody]
    BY DEF SharedInit
  <2>2. rows[1] \in Row /\ rows[2] \in Row
    BY <1>1
  <2>3. AsSeen(rows[1], rows[2]) \in [Persons -> Row] /\ Nobody \in [Persons -> Row]
    BY <1>1, <2>2 DEF AsSeen, Nobody
  <2> QED BY <2>1, <2>3
<1>3. about \in [Persons -> SUBSET AboutFlags]
  BY DEF SharedInit, AboutFlags
<1>4. org \in [Persons -> Orgs \union {None}] /\ me \in [Users -> persons \union {None}]
  BY DEF SharedInit
<1>5. private \in SUBSET (Users \X persons) /\ friends \in SUBSET {{u, w} : u, w \in Users}
  BY DEF SharedInit
<1> QED BY <1>2, <1>3, <1>4, <1>5 DEF TablesOK, Row

LEMMA PartsBegin == MCInit => TrustInit /\ TablesOK /\ ReadsInit /\ SignInInit
BY PlainTablesOK, SharedTablesOK DEF MCInit, NoTrust, TrustInit

\* A step of one leaves the variables of the others as they are.
LEMMA PartsStep ==
  [MCNext]_allVars => [TrustNext]_trustVars /\ [ReadsNext]_readsVars /\ [SignInNext]_signInVars
BY DEF MCNext, allVars

\* A behaviour of the instances is one of the trust lists, one of the requests
\* for shared contacts and one of the sign-in, so what is proved of each of
\* them holds of the whole, fairness included.
THEOREM PartsAsAlone == SharingSpec => TrustFairSpec /\ ReadsSpec /\ SignInSpec
BY PartsBegin, PartsStep, PTL DEF SharingSpec, TrustFairSpec, TrustSpec, ReadsSpec, SignInSpec

\* The tables and requests of all three have their types at once.
THEOREM SharingTypeCorrect ==
  ASSUME IsFiniteSet(Users)
  PROVE  SharingSpec => []SharingTypeOK
<1>1. TrustTypeOK /\ ReadsTypeOK /\ SignInTypeOK => SharingTypeOK
  BY DEF SharingTypeOK
<1> QED BY <1>1, PartsAsAlone, TrustTypeCorrect, ReadsTypeCorrect, SignInTypeCorrect, PTL DEF TrustFairSpec

=============================================================================
