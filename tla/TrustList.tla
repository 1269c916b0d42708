----------------------------- MODULE TrustList -----------------------------
(***************************************************************************)
(* The trust lists of the users (TrustListService).  A call of             *)
(* edit_trusted_users is one transaction that carries out the operations   *)
(* it was given one after the other; several calls run at the same time.   *)
(* A call reads committed rows and its own writes; a write waits for the   *)
(* call that has written the row, and an insert of a row that exists       *)
(* fails and takes the whole call with it.                                 *)
(***************************************************************************)
EXTENDS Naturals, Sequences, FiniteSets, Accounts

CONSTANTS Calls,      (* the calls that may be open at once                *)
          Cap,        (* MAX_TRUST_LIST_MEMBERS                            *)
          MaxOps,     (* the operations of a call                          *)
          MaxCalls    (* the calls of a behaviour                          *)

ASSUME TrustAssumption == Cap \in Nat /\ MaxOps \in Nat /\ MaxCalls \in Nat

VARIABLES joined,     (* the users who have an account; anybody's address  *)
                      (* may be invited                                    *)
          invite,     (* the rows of trust_list_invites                    *)
          membership, (* the rows of trust_list_memberships                *)
          call,       (* what each open call has done                      *)
          calls       (* the number of calls made                          *)

trustVars == <<joined, invite, membership, call, calls>>

InviteKeys == {k \in Users \X Users : k[1] # k[2]}
MemberKeys == {{k[1], k[2]} : k \in InviteKeys}
InviteStatus == {"none", "pending", "accepted", "declined"}
MembershipStatus == {"none", "active", "revoked"}

(* The operations of a call come in the order in which edit() takes them.  *)
Kinds == <<"add", "remove", "accept", "decline">>
Ops == [kind : 1..4, who : Users]
Requests == {s \in UNION {[1..n -> Ops] : n \in 1..MaxOps} :
               \A i, j \in DOMAIN s : i < j => s[i].kind <= s[j].kind}

NoRows == [k \in {} |-> "none"]
NotCounted == Cap + 1 + Cardinality(Users)
Closed == [by |-> "nobody", ops |-> <<>>, count |-> NotCounted, want |-> "nothing",
           inv |-> NoRows, mem |-> NoRows]

TrustInit ==
  /\ joined \in SUBSET Users
  /\ invite \in [InviteKeys -> {"none", "pending"}]
  /\ \A k \in InviteKeys : invite[k] = "pending" => k[1] \in joined
  /\ membership = [p \in MemberKeys |-> "none"]
  /\ call = [c \in Calls |-> Closed]
  /\ calls = 0

-----------------------------------------------------------------------------
(* What a call sees: the committed rows under its own writes.              *)
InviteSeen(c, k) == IF k \in DOMAIN call[c].inv THEN call[c].inv[k] ELSE invite[k]
MemberSeen(c, p) == IF p \in DOMAIN call[c].mem THEN call[c].mem[p] ELSE membership[p]

ActiveCount(c) == Cardinality({p \in MemberKeys : call[c].by \in p /\ MemberSeen(c, p) = "active"})

InviteOf(u, op) == IF op.kind = 1 THEN <<u, op.who>> ELSE <<op.who, u>>
RowOf(k, status) == [x \in {k} |-> status]

(* Plausible slips: a status that the column does not know; an accepted    *)
(* invite that makes no membership.                                        *)
InviteRejected(u, op) == RowOf(InviteOf(u, op), IF op.kind = 1 THEN "pending" ELSE "rejected")
MemberForgotten(u, op) == IF op.kind = 2 THEN RowOf({u, op.who}, "revoked") ELSE NoRows
(* The rows an operation writes once it has been found to apply.           *)
InviteWrites(u, op) ==
  CASE op.kind = 1 -> RowOf(<<u, op.who>>, "pending")
    [] op.kind = 3 -> RowOf(<<op.who, u>>, "accepted")
    [] op.kind = 4 -> RowOf(<<op.who, u>>, "declined")
    [] OTHER -> NoRows
MemberWrites(u, op) ==
  CASE op.kind = 2 -> RowOf({u, op.who}, "revoked")
    [] op.kind = 3 -> RowOf({u, op.who}, "active")
    [] OTHER -> NoRows

Overlay(new, old) == [k \in DOMAIN new \union DOMAIN old |->
                      IF k \in DOMAIN new THEN new[k] ELSE old[k]]

-----------------------------------------------------------------------------
(* Somebody signs up with the address an invite was sent to.               *)
SignUp(u) ==
  /\ u \notin joined
  /\ joined' = joined \union {u}
  /\ UNCHANGED <<invite, membership, call, calls>>

OpenCall(c) ==
  /\ call[c] = Closed
  /\ calls < MaxCalls
  /\ calls' = calls + 1
  /\ \E u \in joined, ops \in Requests :
       /\ \A i \in DOMAIN ops :
            /\ ops[i].who # u
            /\ ops[i].kind > 2 => invite[<<ops[i].who, u>>] # "none"
       /\ call' = [call EXCEPT ![c] = [Closed EXCEPT !.by = u, !.ops = ops]]
  /\ UNCHANGED <<joined, invite, membership>>

Current(c) == Head(call[c].ops)
Reads(c) == call[c].by # "nobody" /\ call[c].ops # <<>> /\ call[c].want = "nothing"

(* The operation applies, and the next step writes.                        *)
Decide(c, count) == call' = [call EXCEPT ![c].want = "write", ![c].count = count]
(* A plausible slip: the operation is looked at again.                     *)
LookedAtAgain(c, count) == UNCHANGED call
(* It does not apply: a message, and on to the next one.                   *)
NotApplicable(c, count) == call' = [call EXCEPT ![c].ops = Tail(@), ![c].count = count]

(* The active memberships are counted once, before the first address; an   *)
(* address without an account is invited without being counted; once at    *)
(* the cap, the remaining addresses are dropped one after the other.       *)
AddMember(c) ==
  LET u     == call[c].by
      op    == Current(c)
      n     == IF call[c].count = NotCounted THEN ActiveCount(c) ELSE call[c].count
      after == IF op.who \in joined THEN n + 1 ELSE n IN
  /\ Reads(c) /\ op.kind = 1
  /\ CASE n >= Cap -> NotApplicable(c, n)
       [] n < Cap /\ op.who \in joined /\ MemberSeen(c, {u, op.who}) = "active" -> NotApplicable(c, n)
       [] n < Cap /\ ~(op.who \in joined /\ MemberSeen(c, {u, op.who}) = "active") ->
            IF InviteSeen(c, <<u, op.who>>) = "pending" THEN NotApplicable(c, after) ELSE Decide(c, after)
  /\ UNCHANGED <<joined, invite, membership, calls>>

RemoveMember(c) ==
  LET op == Current(c) IN
  /\ Reads(c) /\ op.kind = 2
  /\ IF op.who \in joined /\ MemberSeen(c, {call[c].by, op.who}) = "active"
     THEN Decide(c, call[c].count) ELSE NotApplicable(c, call[c].count)
  /\ UNCHANGED <<joined, invite, membership, calls>>

(* Accepting and declining look for a pending invite to the caller.        *)
Answer(c) ==
  LET op == Current(c) IN
  /\ Reads(c) /\ op.kind > 2
  /\ IF InviteSeen(c, <<op.who, call[c].by>>) = "pending"
     THEN Decide(c, call[c].count) ELSE NotApplicable(c, call[c].count)
  /\ UNCHANGED <<joined, invite, membership, calls>>

(* A row that another open call has written is locked until that call ends.*)
WaitsFor(c, d) ==
  /\ call[c].want = "write" /\ c # d
  /\ \/ DOMAIN InviteWrites(call[c].by, Current(c)) \cap DOMAIN call[d].inv # {}
     \/ DOMAIN MemberWrites(call[c].by, Current(c)) \cap DOMAIN call[d].mem # {}

(* A plausible slip: a revoked membership is made active again.            *)
InviteExists(c) == Current(c).kind = 1 /\ InviteSeen(c, <<call[c].by, Current(c).who>>) # "none"
(* There is one invite for each inviter and address and one membership for *)
(* each pair, whatever their status.                                       *)
Exists(c) ==
  LET u == call[c].by
      op == Current(c) IN
  \/ op.kind = 1 /\ InviteSeen(c, <<u, op.who>>) # "none"
  \/ op.kind = 3 /\ MemberSeen(c, {u, op.who}) # "none"

Written(c) ==
  [call[c] EXCEPT !.ops = Tail(@), !.want = "nothing",
                  !.inv = Overlay(InviteWrites(call[c].by, Current(c)), @),
                  !.mem = Overlay(MemberWrites(call[c].by, Current(c)), @)]
WriteRows(c) ==
  /\ call[c].want = "write"
  /\ \A d \in Calls : ~WaitsFor(c, d)
  /\ call' = [call EXCEPT ![c] = IF Exists(c) THEN Closed ELSE Written(c)]
  /\ UNCHANGED <<joined, invite, membership, calls>>

CommitCall(c) ==
  /\ call[c].by # "nobody" /\ call[c].ops = <<>>
  /\ invite' = Overlay(call[c].inv, invite)
  /\ membership' = Overlay(call[c].mem, membership)
  /\ call' = [call EXCEPT ![c] = Closed]
  /\ UNCHANGED <<joined, calls>>

(* The database ends one of the calls that wait for each other.            *)
DeadlockVictim(c) ==
  /\ \E s \in SUBSET Calls : c \in s /\ \A d \in s : \E e \in s : WaitsFor(d, e)
  /\ call' = [call EXCEPT ![c] = Closed]
  /\ UNCHANGED <<joined, invite, membership, calls>>

-----------------------------------------------------------------------------
CallStep(c) == AddMember(c) \/ RemoveMember(c) \/ Answer(c) \/ WriteRows(c) \/ CommitCall(c) \/ DeadlockVictim(c)

TrustNext ==
  \/ \E u \in Users : SignUp(u)
  \/ \E c \in Calls : OpenCall(c) \/ CallStep(c)

TrustSpec == TrustInit /\ [][TrustNext]_trustVars

(* A call runs until it ends; one that waits is woken, and one of those    *)
(* that wait for each other is ended.                                      *)
TrustFairness == \A c \in Calls : WF_trustVars(CallStep(c))
TrustFairSpec == TrustSpec /\ TrustFairness

-----------------------------------------------------------------------------
(* Properties.                                                             *)

CallStates ==
  [by : Users \union {"nobody"}, ops : Seq(Ops), count : Nat,
   want : {"nothing", "write"},
   inv : UNION {[s -> InviteStatus] : s \in SUBSET InviteKeys},
   mem : UNION {[s -> MembershipStatus] : s \in SUBSET MemberKeys}]

TrustTypeOK ==
  /\ joined \in SUBSET Users
  /\ invite \in [InviteKeys -> InviteStatus]
  /\ membership \in [MemberKeys -> MembershipStatus]
  /\ call \in [Calls -> CallStates]
  /\ calls \in 0..MaxCalls

(* An answer and the trust it makes are committed together, whatever calls *)
(* race: a pair that trusts each other, or did, has an invite that was     *)
(* answered, and every accepted invite made its pair trust each other.     *)
AnswersMatch ==
  /\ \A p \in MemberKeys : membership[p] # "none" =>
       \E k \in InviteKeys : p = {k[1], k[2]} /\ invite[k] \in {"accepted", "declined"}
  /\ \A k \in InviteKeys : invite[k] = "accepted" => membership[{k[1], k[2]}] # "none"

(* Trust follows the promised life: asked for by one of the two, made      *)
(* once, withdrawn for good (TrustRelation), whatever calls race.          *)
Relation == INSTANCE TrustRelation WITH
              asked <- {k \in InviteKeys : invite[k] # "none"},
              trust <- membership
TrustRefines == Relation!Spec

(* Every call ends, also when calls wait for each other's rows.            *)
CallsEnd == \A c \in Calls : call[c].by # "nobody" ~> call[c].by = "nobody"

(* skill.md: "Manage the trust list (max 20 mutual connections)."          *)
WithinCap ==
  \A u \in Users : Cardinality({p \in MemberKeys : u \in p /\ membership[p] = "active"}) <= Cap

=============================================================================
