----------------------- MODULE ImportWriteLockProofs -----------------------
(***************************************************************************)
(* What the import write lock does give: two imports of a user are never   *)
(* both in the first transaction of their sections, and the lock is left    *)
(* behind by nothing but a commit or an abort in the section.              *)
(***************************************************************************)
EXTENDS ImportWriteLock, TLAPS

Distinct(seq) == \A p, q \in 1..Len(seq) : seq[p] = seq[q] => p = q

(* A session has a connection from its first statement to its last, alone,  *)
(* and a connection in the pool is there once.                             *)
Connected(s) == pc[s] \in {"open", "section", "left", "failed"}
PoolInv ==
  /\ Distinct(idle)
  /\ \A s \in Sessions : Connected(s) <=> conn[s] # None
  /\ \A s, t \in Sessions : conn[s] = conn[t] /\ conn[s] # None => s = t
  /\ \A s \in Sessions : \A p \in 1..Len(idle) : idle[p] # conn[s]

UserKnown == \A i \in Imports : Connected(i) \/ pc[i] = "asking" => user[i] \in Users

(* An advisory lock is with one connection at a time ...                   *)
OneHolder ==
  \A u \in Users, c, d \in Conns : holds[c][u] > 0 /\ holds[d][u] > 0 => c = d

(* ... and an import that has not committed since it took it has it.       *)
HoldsUntilCommit ==
  \A i \in Imports : InFirstTransaction(i) => holds[conn[i]][user[i]] > 0

Inv == TypeOK /\ PoolInv /\ UserKnown /\ OneHolder /\ HoldsUntilCommit
-----------------------------------------------------------------------------
(* A connection c that is not idle comes back to the pool; the head of the  *)
(* queue, if it is taken, is not among the rest.                           *)
LEMMA BackQueue ==
  ASSUME idle \in Seq(Conns), Distinct(idle), NEW c \in Conns,
         \A p \in 1..Len(idle) : idle[p] # c
  PROVE  /\ Back(c) \in Seq(Conns)
         /\ Distinct(Back(c))
         /\ Back(c) # <<>>
         /\ \A p \in 1..Len(Back(c)) :
              (Back(c)[p] = c /\ Keeps) \/ \E q \in 1..Len(idle) : Back(c)[p] = idle[q]
<1>1. CASE Keeps
  <2>1. Back(c) = Append(idle, c)
    BY <1>1 DEF Back
  <2>2. /\ Append(idle, c) \in Seq(Conns)
        /\ Len(Append(idle, c)) = Len(idle) + 1
        /\ Append(idle, c)[Len(idle) + 1] = c
        /\ \A p \in 1..Len(idle) : Append(idle, c)[p] = idle[p]
    OBVIOUS
  <2>3. Append(idle, c) # <<>>
    BY <2>2
  <2>4. Len(idle) \in Nat
    OBVIOUS
  <2>5. \A p \in 1..Len(Append(idle, c)) : p = Len(idle) + 1 \/ p \in 1..Len(idle)
    BY <2>2, <2>4
  <2>6. Distinct(Append(idle, c))
    BY <2>2, <2>4, <2>5 DEF Distinct
  <2> QED
    BY <1>1, <2>1, <2>2, <2>3, <2>5, <2>6
<1>2. CASE ~Keeps
  <2>1. Back(c) = idle
    BY <1>2 DEF Back
  <2>2. idle # <<>>
    BY <1>2, ImportWriteLockAssumption DEF Keeps
  <2> QED
    BY <2>1, <2>2
<1> QED
  BY <1>1, <1>2

LEMMA TakeHead ==
  ASSUME NEW seq \in Seq(Conns), Distinct(seq), seq # <<>>
  PROVE  /\ Head(seq) \in Conns
         /\ Tail(seq) \in Seq(Conns)
         /\ Distinct(Tail(seq))
         /\ Len(seq) > 0
         /\ Head(seq) = seq[1]
         /\ \A p \in 1..Len(Tail(seq)) : /\ Tail(seq)[p] # Head(seq)
                                         /\ p + 1 \in 1..Len(seq)
                                         /\ Tail(seq)[p] = seq[p + 1]
<1>1. /\ Len(seq) \in Nat \ {0}
      /\ Len(Tail(seq)) = Len(seq) - 1
      /\ Tail(seq) \in Seq(Conns)
      /\ \A p \in 1..Len(Tail(seq)) : Tail(seq)[p] = seq[p + 1]
  OBVIOUS
<1>2. \A p \in 1..Len(Tail(seq)) : p + 1 \in 1..Len(seq) /\ p + 1 # 1
  BY <1>1
<1>3. Head(seq) = seq[1] /\ 1 \in 1..Len(seq) /\ seq[1] \in Conns
  BY <1>1
<1>4. Distinct(Tail(seq))
  BY <1>1, <1>2 DEF Distinct
<1> QED
  BY <1>1, <1>2, <1>3, <1>4 DEF Distinct

(* A commit followed by a statement keeps the pool in order.               *)
LEMMA SwapPool ==
  ASSUME TypeOK, PoolInv, NEW s \in Sessions, Connected(s),
         conn' = [conn EXCEPT ![s] = Head(Back(conn[s]))],
         idle' = Tail(Back(conn[s])), pc' \in [Sessions -> Places],
         Connected(s)', \A t \in Sessions \ {s} : pc'[t] = pc[t]
  PROVE  /\ PoolInv'
         /\ idle' \in Seq(Conns)
         /\ conn' \in [Sessions -> Conns \union {None}]
<1>1. conn[s] \in Conns /\ \A p \in 1..Len(idle) : idle[p] # conn[s]
  BY DEF TypeOK, PoolInv
<1>2. idle \in Seq(Conns) /\ Distinct(idle) /\ conn \in [Sessions -> Conns \union {None}]
  BY DEF TypeOK, PoolInv
<1>. DEFINE after == Back(conn[s])
<1>3. /\ after \in Seq(Conns) /\ Distinct(after) /\ after # <<>>
      /\ \A p \in 1..Len(after) :
           after[p] = conn[s] \/ \E q \in 1..Len(idle) : after[p] = idle[q]
  BY <1>1, <1>2, BackQueue
<1>4. conn' = [conn EXCEPT ![s] = Head(after)] /\ idle' = Tail(after)
  OBVIOUS
<1>. HIDE DEF after
<1>5. /\ Head(after) \in Conns /\ Tail(after) \in Seq(Conns) /\ Distinct(Tail(after))
      /\ Head(after) = after[1] /\ Len(after) > 0
      /\ \A p \in 1..Len(Tail(after)) : /\ Tail(after)[p] # Head(after)
                                        /\ p + 1 \in 1..Len(after)
                                        /\ Tail(after)[p] = after[p + 1]
  BY <1>3, TakeHead
<1>6. 1 \in 1..Len(after)
  BY <1>3, <1>5
<1>7. conn' \in [Sessions -> Conns \union {None}] /\ conn'[s] = Head(after)
      /\ \A t \in Sessions \ {s} : conn'[t] = conn[t]
  BY <1>2, <1>4, <1>5
<1>8. \A t \in Sessions \ {s} : \A p \in 1..Len(after) : after[p] # conn[t]
  BY <1>1, <1>3 DEF PoolInv
<1>9. \A t \in Sessions \ {s} : conn'[t] # conn'[s]
  BY <1>5, <1>6, <1>7, <1>8
<1>10. \A t, r \in Sessions : conn'[t] = conn'[r] /\ conn'[t] # None => t = r
  <2>1. \A t, r \in Sessions : conn[t] = conn[r] /\ conn[t] # None => t = r
    BY DEF PoolInv
  <2> QED
    BY <2>1, <1>7, <1>9
<1>11. \A t \in Sessions : \A p \in 1..Len(idle') : idle'[p] # conn'[t]
  <2>1. \A p \in 1..Len(Tail(after)) : Tail(after)[p] # conn'[s]
    BY <1>5, <1>7
  <2>2. \A t \in Sessions \ {s} : \A p \in 1..Len(Tail(after)) : Tail(after)[p] # conn'[t]
    BY <1>5, <1>7, <1>8
  <2>3. \A t \in Sessions : \A p \in 1..Len(Tail(after)) : Tail(after)[p] # conn'[t]
    BY <2>1, <2>2
  <2> QED
    BY <1>4, <2>3
<1>12. \A t \in Sessions : Connected(t)' <=> conn'[t] # None
  <2>1. conn'[s] # None
    BY <1>5, <1>7, ImportWriteLockAssumption
  <2>2. \A t \in Sessions \ {s} : Connected(t)' <=> conn'[t] # None
    BY <1>7 DEF PoolInv, Connected
  <2> QED
    BY <2>1, <2>2
<1>13. idle' \in Seq(Conns) /\ Distinct(idle)'
  <2>1. \A p, q \in 1..Len(Tail(after)) : Tail(after)[p] = Tail(after)[q] => p = q
    BY <1>5 DEF Distinct
  <2> QED
    BY <1>4, <1>5, <2>1 DEF Distinct
<1> QED
  BY <1>7, <1>10, <1>11, <1>12, <1>13 DEF PoolInv

(* A session's last commit does, too.                                      *)
LEMMA ReturnPool ==
  ASSUME TypeOK, PoolInv, NEW s \in Sessions, Connected(s),
         conn' = [conn EXCEPT ![s] = None], idle' = Back(conn[s]),
         pc' = [pc EXCEPT ![s] = "done"]
  PROVE  /\ PoolInv'
         /\ idle' \in Seq(Conns)
         /\ conn' \in [Sessions -> Conns \union {None}]
<1>1. conn[s] \in Conns /\ \A p \in 1..Len(idle) : idle[p] # conn[s]
  BY DEF TypeOK, PoolInv
<1>2. /\ idle \in Seq(Conns) /\ Distinct(idle)
      /\ conn \in [Sessions -> Conns \union {None}] /\ pc \in [Sessions -> Places]
  BY DEF TypeOK, PoolInv
<1>3. /\ idle' \in Seq(Conns) /\ Distinct(idle')
      /\ \A p \in 1..Len(idle') :
           idle'[p] = conn[s] \/ \E q \in 1..Len(idle) : idle'[p] = idle[q]
  BY <1>1, <1>2, BackQueue
<1>4. /\ conn' \in [Sessions -> Conns \union {None}] /\ conn'[s] = None
      /\ \A t \in Sessions \ {s} : conn'[t] = conn[t] /\ pc'[t] = pc[t]
      /\ pc'[s] = "done"
  BY <1>2
<1>5. \A t, r \in Sessions : conn'[t] = conn'[r] /\ conn'[t] # None => t = r
  BY <1>4 DEF PoolInv
<1>6. \A t \in Sessions : \A p \in 1..Len(idle') : idle'[p] # conn'[t]
  <2>1. \A p \in 1..Len(idle') : idle'[p] # None
    BY <1>3, ImportWriteLockAssumption
  <2>2. \A t \in Sessions \ {s} : conn[t] # conn[s]
    BY <1>1, ImportWriteLockAssumption DEF PoolInv
  <2> QED
    BY <1>3, <1>4, <2>1, <2>2 DEF PoolInv
<1>7. \A t \in Sessions : Connected(t)' <=> conn'[t] # None
  BY <1>4 DEF PoolInv, Connected
<1> QED
  BY <1>3, <1>4, <1>5, <1>6, <1>7 DEF PoolInv, Distinct

-----------------------------------------------------------------------------
(* Connection c loses locks, or keeps them; no other connection is touched. *)
Weaker(c) ==
  /\ holds' \in [Conns -> [Users -> Nat]]
  /\ \A d \in Conns \ {c} : holds'[d] = holds[d]
  /\ \A u \in Users : holds'[c][u] > 0 => holds[c][u] > 0

LEMMA LocksWeaken ==
  ASSUME TypeOK, NEW c \in Conns, NEW u \in Users,
         \/ holds' = holds
         \/ holds' = LocksAfterReturn(c)
         \/ holds' = Released(c, u)
  PROVE  Weaker(c)
<1>1. holds \in [Conns -> [Users -> Nat]]
  BY DEF TypeOK
<1>2. CASE holds' = holds
  BY <1>1, <1>2 DEF Weaker
<1>3. CASE holds' = LocksAfterReturn(c)
  BY <1>1, <1>3 DEF Weaker, LocksAfterReturn
<1>4. CASE holds' = Released(c, u)
  <2>1. holds[c][u] \in Nat
    BY <1>1
  <2>2. (IF holds[c][u] = 0 THEN 0 ELSE holds[c][u] - 1) \in Nat
    BY <2>1
  <2>3. holds' = [holds EXCEPT ![c][u] = IF holds[c][u] = 0 THEN 0 ELSE holds[c][u] - 1]
    BY <1>1, <1>4 DEF Released
  <2>. DEFINE n == IF holds[c][u] = 0 THEN 0 ELSE holds[c][u] - 1
  <2>4. n \in Nat /\ (n > 0 => holds[c][u] > 0) /\ holds' = [holds EXCEPT ![c][u] = n]
    BY <2>1, <2>2, <2>3
  <2>. HIDE DEF n
  <2> QED
    BY <1>1, <2>4 DEF Weaker
<1> QED
  BY <1>2, <1>3, <1>4

-----------------------------------------------------------------------------
(* A step of a connected session s that takes no lock, and after which s is *)
(* not in its first transaction.                                           *)
LEMMA LockStep ==
  ASSUME Inv, NEW s \in Sessions, Connected(s), Weaker(conn[s]),
         \A t \in Sessions \ {s} : conn'[t] = conn[t] /\ pc'[t] = pc[t],
         user' = user, \A i \in Imports \ {s} : commits'[i] = commits[i],
         s \in Imports => ~InFirstTransaction(s)'
  PROVE  UserKnown' /\ OneHolder' /\ HoldsUntilCommit'
<1>1. conn[s] \in Conns
  BY DEF Inv, TypeOK, PoolInv
<1>2. /\ \A d \in Conns \ {conn[s]} : holds'[d] = holds[d]
      /\ \A u \in Users : holds'[conn[s]][u] > 0 => holds[conn[s]][u] > 0
  BY DEF Weaker
<1>3. UserKnown'
  <2>1. \A i \in Imports \ {s} : (Connected(i) \/ pc[i] = "asking" => user[i] \in Users)'
    BY DEF Inv, UserKnown, Connected, Sessions
  <2>2. s \in Imports => user[s] \in Users
    BY DEF Inv, UserKnown
  <2> QED
    BY <2>1, <2>2 DEF UserKnown
<1>4. \A d \in Conns, u \in Users : holds'[d][u] > 0 => holds[d][u] > 0
  BY <1>2
<1>5. OneHolder'
  BY <1>4 DEF Inv, OneHolder
<1>6. HoldsUntilCommit'
  <2> SUFFICES ASSUME NEW i \in Imports, InFirstTransaction(i)'
               PROVE  holds'[conn'[i]][user'[i]] > 0
    BY DEF HoldsUntilCommit
  <2>1. i # s /\ i \in Sessions
    BY DEF Sessions
  <2>2. InFirstTransaction(i) /\ conn'[i] = conn[i] /\ user'[i] = user[i]
    BY <2>1 DEF InFirstTransaction
  <2>3. holds[conn[i]][user[i]] > 0
    BY <2>2 DEF Inv, HoldsUntilCommit
  <2>4. conn[i] \in Conns /\ conn[i] # conn[s]
    <3>1. Connected(i)
      BY <2>2 DEF InFirstTransaction, Connected
    <3> QED
      BY <3>1, <2>1, <1>1, ImportWriteLockAssumption DEF Inv, TypeOK, PoolInv
  <2> QED
    BY <1>2, <2>2, <2>3, <2>4
<1> QED
  BY <1>3, <1>5, <1>6

-----------------------------------------------------------------------------
(* A session that takes its first connection.                              *)
LEMMA OpenStep ==
  ASSUME Inv, NEW s \in Sessions, Open(s)
  PROVE  Inv'
<1>. pc[s] = "asking" /\ pc' = [pc EXCEPT ![s] = "open"] /\ Checkout(s)
     /\ UNCHANGED <<holds, user, commits>>
  BY DEF Open, Goto
<1>1. /\ idle \in Seq(Conns) /\ Distinct(idle)
      /\ conn \in [Sessions -> Conns \union {None}] /\ pc \in [Sessions -> Places]
  BY DEF Inv, TypeOK, PoolInv
<1>2. conn[s] = None
  BY DEF Inv, PoolInv, Connected
<1>3. \E c \in Conns : /\ conn' = [conn EXCEPT ![s] = c]
                       /\ \A t \in Sessions : conn[t] # c
                       /\ idle' \in Seq(Conns) /\ Distinct(idle')
                       /\ \A p \in 1..Len(idle') :
                            /\ idle'[p] # c
                            /\ \E q \in 1..Len(idle) : idle'[p] = idle[q]
  <2>1. CASE idle # <<>>
    <3>1. conn' = [conn EXCEPT ![s] = Head(idle)] /\ idle' = Tail(idle)
      BY <2>1 DEF Checkout
    <3>2. /\ Head(idle) \in Conns /\ Tail(idle) \in Seq(Conns)
          /\ Distinct(Tail(idle)) /\ Len(idle) > 0 /\ Head(idle) = idle[1]
          /\ \A p \in 1..Len(Tail(idle)) : /\ Tail(idle)[p] # Head(idle)
                                           /\ p + 1 \in 1..Len(idle)
                                           /\ Tail(idle)[p] = idle[p + 1]
      BY <1>1, <2>1, TakeHead
    <3>3. 1 \in 1..Len(idle)
      BY <1>1, <3>2
    <3>4. \A t \in Sessions : conn[t] # Head(idle)
      BY <3>2, <3>3 DEF Inv, PoolInv
    <3> QED
      BY <3>1, <3>2, <3>4
  <2>2. CASE idle = <<>>
    <3>1. PICK c \in Unopened : conn' = [conn EXCEPT ![s] = c]
      BY <2>2 DEF Checkout
    <3>2. idle' = idle
      BY <2>2 DEF Checkout
    <3>3. c \in Conns /\ \A t \in Sessions : conn[t] # c
      BY <1>1 DEF Unopened, Range
    <3>4. \A p \in 1..Len(idle) : FALSE
      BY <2>2
    <3> QED
      BY <1>1, <3>1, <3>2, <3>3, <3>4
  <2> QED
    BY <2>1, <2>2
<1>4. PICK c \in Conns : /\ conn' = [conn EXCEPT ![s] = c]
                         /\ \A t \in Sessions : conn[t] # c
                         /\ idle' \in Seq(Conns) /\ Distinct(idle')
                         /\ \A p \in 1..Len(idle') :
                              /\ idle'[p] # c
                              /\ \E q \in 1..Len(idle) : idle'[p] = idle[q]
  BY <1>3
<1>5. /\ conn' \in [Sessions -> Conns \union {None}] /\ conn'[s] = c
      /\ \A t \in Sessions \ {s} : conn'[t] = conn[t] /\ pc'[t] = pc[t]
      /\ pc'[s] = "open" /\ c # None
  BY <1>1, <1>4, ImportWriteLockAssumption
<1>6. TypeOK'
  BY <1>4, <1>5 DEF Inv, TypeOK, Places
<1>7. PoolInv'
  <2>connected. \A t \in Sessions : Connected(t)' <=> conn'[t] # None
    BY <1>5 DEF Inv, PoolInv, Connected
  <2>own. \A t, r \in Sessions : conn'[t] = conn'[r] /\ conn'[t] # None => t = r
    BY <1>4, <1>5 DEF Inv, PoolInv
  <2>idle. \A t \in Sessions : \A p \in 1..Len(idle') : idle'[p] # conn'[t]
    BY <1>4, <1>5 DEF Inv, PoolInv
  <2>distinct. Distinct(idle)'
    BY <1>4 DEF Distinct
  <2> QED
    BY <2>connected, <2>own, <2>idle, <2>distinct DEF PoolInv
<1>8. UserKnown' /\ OneHolder' /\ HoldsUntilCommit'
  BY <1>5 DEF Inv, UserKnown, OneHolder, HoldsUntilCommit, InFirstTransaction,
              Connected, Sessions
<1> QED
  BY <1>6, <1>7, <1>8 DEF Inv

(* A session that arrives, or gives up waiting for a connection.           *)
LEMMA WaitStep ==
  ASSUME Inv, NEW s \in Sessions,
         \/ s \in Imports /\ ArriveImport(s)
         \/ ArriveRequest(s) /\ s \in Requests
         \/ OpenTimesOut(s)
  PROVE  Inv'
<1>1. /\ UNCHANGED <<idle, conn, holds, commits>>
      /\ pc[s] \in {"new", "asking"}
      /\ \E p \in {"asking", "done"} : pc' = [pc EXCEPT ![s] = p]
      /\ (pc'[s] = "asking" /\ s \in Imports => user'[s] \in Users)
      /\ \A i \in Imports \ {s} : user'[i] = user[i]
      /\ user' \in [Imports -> Users \union {None}]
  <2>1. pc \in [Sessions -> Places] /\ user \in [Imports -> Users \union {None}]
    BY DEF Inv, TypeOK
  <2>2. Imports \intersect Requests = {}
    BY ImportWriteLockAssumption
  <2>3. CASE s \in Imports /\ ArriveImport(s)
    BY <2>1, <2>3 DEF ArriveImport, Goto
  <2>4. CASE ArriveRequest(s) /\ s \in Requests
    BY <2>1, <2>2, <2>4 DEF ArriveRequest, Goto
  <2>5. CASE OpenTimesOut(s)
    BY <2>1, <2>5 DEF OpenTimesOut, Goto
  <2> QED
    BY <2>3, <2>4, <2>5
<1>2. /\ pc' \in [Sessions -> Places] /\ pc'[s] \in {"asking", "done"}
      /\ \A t \in Sessions \ {s} : pc'[t] = pc[t]
  BY <1>1 DEF Inv, TypeOK, Places
<1>3. TypeOK'
  BY <1>1, <1>2 DEF Inv, TypeOK
<1>4. PoolInv'
  BY <1>1, <1>2 DEF Inv, PoolInv, Connected, Distinct
<1>5. UserKnown'
  BY <1>1, <1>2 DEF Inv, UserKnown, Connected, Sessions
<1>6. OneHolder'
  BY <1>1 DEF Inv, OneHolder
<1>7. HoldsUntilCommit'
  BY <1>1, <1>2 DEF Inv, HoldsUntilCommit, InFirstTransaction, Sessions
<1> QED
  BY <1>3, <1>4, <1>5, <1>6, <1>7 DEF Inv

(* An import that is granted the lock.                                     *)
LEMMA EnterStep ==
  ASSUME Inv, NEW i \in Imports, EnterSection(i)
  PROVE  Inv'
<1>1. /\ i \in Sessions /\ pc[i] = "open" /\ Connected(i)
      /\ pc' = [pc EXCEPT ![i] = "section"]
      /\ UNCHANGED <<idle, conn, user, commits>>
  BY DEF EnterSection, Goto, Sessions, Connected
<1>2. conn[i] \in Conns /\ user[i] \in Users
  BY <1>1 DEF Inv, TypeOK, PoolInv, UserKnown
<1>. DEFINE n == holds[conn[i]][user[i]] + 1
<1>3. /\ holds' = [holds EXCEPT ![conn[i]][user[i]] = n]
      /\ \A d \in Conns \ {conn[i]} : holds[d][user[i]] = 0
  BY DEF EnterSection, Taken, Grantable
<1>4. n \in Nat /\ n > 0
  BY <1>2 DEF Inv, TypeOK
<1>. HIDE DEF n
<1>5. /\ holds' \in [Conns -> [Users -> Nat]]
      /\ holds'[conn[i]][user[i]] > 0
      /\ \A d \in Conns, u \in Users :
           d # conn[i] \/ u # user[i] => holds'[d][u] = holds[d][u]
  BY <1>2, <1>3, <1>4 DEF Inv, TypeOK
<1>6. pc' \in [Sessions -> Places] /\ pc'[i] = "section"
      /\ \A t \in Sessions \ {i} : pc'[t] = pc[t]
  BY <1>1 DEF Inv, TypeOK, Places
<1>7. TypeOK'
  BY <1>1, <1>5, <1>6 DEF Inv, TypeOK
<1>8. PoolInv'
  BY <1>1, <1>6 DEF Inv, PoolInv, Connected, Distinct
<1>9. UserKnown'
  BY <1>1, <1>2, <1>6 DEF Inv, UserKnown, Connected, Sessions
<1>10. OneHolder'
  <2> SUFFICES ASSUME NEW u \in Users, NEW c \in Conns, NEW d \in Conns,
                      holds'[c][u] > 0, holds'[d][u] > 0
               PROVE  c = d
    BY DEF OneHolder
  <2>1. CASE u = user[i]
    <3>1. \A e \in Conns \ {conn[i]} : holds'[e][u] = 0
      BY <1>2, <1>3, <1>5, <2>1
    <3> QED
      BY <3>1
  <2>2. CASE u # user[i]
    BY <1>5, <2>2 DEF Inv, OneHolder
  <2> QED
    BY <2>1, <2>2
<1>11. HoldsUntilCommit'
  <2> SUFFICES ASSUME NEW j \in Imports, InFirstTransaction(j)'
               PROVE  holds'[conn'[j]][user'[j]] > 0
    BY DEF HoldsUntilCommit
  <2>1. CASE j = i
    BY <1>1, <1>5, <2>1
  <2>2. CASE j # i
    <3>1. InFirstTransaction(j) /\ j \in Sessions
      BY <1>1, <1>6, <2>2 DEF InFirstTransaction, Sessions
    <3>2. holds[conn[j]][user[j]] > 0
      BY <3>1 DEF Inv, HoldsUntilCommit
    <3>3. conn[j] \in Conns /\ user[j] \in Users /\ conn[j] # conn[i]
      BY <1>1, <1>2, <2>2, <3>1, ImportWriteLockAssumption
         DEF Inv, TypeOK, PoolInv, UserKnown, InFirstTransaction, Connected
    <3> QED
      BY <1>1, <1>5, <3>2, <3>3
  <2> QED
    BY <2>1, <2>2
<1> QED
  BY <1>7, <1>8, <1>9, <1>10, <1>11 DEF Inv

-----------------------------------------------------------------------------
(* The steps that give the connection back for good.                       *)
LEMMA ReturnStep ==
  ASSUME Inv, NEW s \in Sessions, Return(s), pc' = [pc EXCEPT ![s] = "done"],
         UNCHANGED <<user, commits>>, Connected(s)
  PROVE  Inv'
<1>1. /\ conn' = [conn EXCEPT ![s] = None] /\ idle' = Back(conn[s])
      /\ holds' = LocksAfterReturn(conn[s])
  BY DEF Return
<1>2. TypeOK /\ PoolInv
  BY DEF Inv
<1>3. PoolInv' /\ idle' \in Seq(Conns) /\ conn' \in [Sessions -> Conns \union {None}]
  BY <1>1, <1>2, ReturnPool
<1>4. conn[s] \in Conns
  BY DEF Inv, TypeOK, PoolInv
<1>5. Weaker(conn[s])
  <2>1. holds \in [Conns -> [Users -> Nat]]
    BY <1>2 DEF TypeOK
  <2>2. [u \in Users |-> 0] \in [Users -> Nat]
    OBVIOUS
  <2> QED
    BY <1>1, <1>4, <2>1, <2>2 DEF Weaker, LocksAfterReturn
<1>6. /\ pc' \in [Sessions -> Places] /\ pc'[s] = "done"
      /\ \A t \in Sessions \ {s} : conn'[t] = conn[t] /\ pc'[t] = pc[t]
  BY <1>1, <1>2 DEF TypeOK, Places
<1>7. TypeOK'
  BY <1>2, <1>3, <1>5, <1>6 DEF TypeOK, Weaker
<1>8. UserKnown' /\ OneHolder' /\ HoldsUntilCommit'
  <2>1. s \in Imports => ~InFirstTransaction(s)'
    BY <1>6 DEF InFirstTransaction
  <2> QED
    BY <1>5, <1>6, <2>1, LockStep
<1> QED
  BY <1>3, <1>7, <1>8 DEF Inv

(* The steps of an import that end one transaction and start the next.     *)
LEMMA SwapStep ==
  ASSUME Inv, NEW i \in Imports, pc[i] \in {"open", "section"},
         conn' = [conn EXCEPT ![i] = Head(Back(conn[i]))],
         idle' = Tail(Back(conn[i])),
         Weaker(conn[i]),
         \/ pc' = [pc EXCEPT ![i] = "failed"] /\ commits' = commits
         \/ /\ pc' = pc /\ commits[i] < MaxCommits
            /\ commits' = [commits EXCEPT ![i] = @ + 1],
         UNCHANGED user
  PROVE  Inv'
<1>1. i \in Sessions /\ Connected(i) /\ TypeOK /\ PoolInv
  BY DEF Inv, Sessions, Connected
<1>2. /\ pc' \in [Sessions -> Places] /\ Connected(i)'
      /\ \A t \in Sessions \ {i} : pc'[t] = pc[t]
  BY <1>1 DEF TypeOK, Places, Connected
<1>3. PoolInv' /\ idle' \in Seq(Conns) /\ conn' \in [Sessions -> Conns \union {None}]
  BY <1>1, <1>2, SwapPool
<1>4. \A t \in Sessions \ {i} : conn'[t] = conn[t]
  BY <1>1 DEF TypeOK
<1>5. /\ commits' \in [Imports -> 0..MaxCommits]
      /\ \A j \in Imports \ {i} : commits'[j] = commits[j]
      /\ ~InFirstTransaction(i)'
  <2>1. commits \in [Imports -> 0..MaxCommits] /\ MaxCommits \in Nat /\ pc \in [Sessions -> Places]
    BY <1>1, ImportWriteLockAssumption DEF TypeOK
  <2>2. CASE pc' = [pc EXCEPT ![i] = "failed"] /\ commits' = commits
    BY <1>1, <2>1, <2>2 DEF InFirstTransaction
  <2>3. CASE /\ pc' = pc /\ commits[i] < MaxCommits
             /\ commits' = [commits EXCEPT ![i] = @ + 1]
    <3>1. commits[i] + 1 \in 0..MaxCommits /\ commits[i] + 1 # 0
      BY <2>1, <2>3
    <3>2. commits' = [commits EXCEPT ![i] = commits[i] + 1]
      BY <2>3
    <3> QED
      BY <2>1, <3>1, <3>2 DEF InFirstTransaction
  <2> QED
    BY <2>2, <2>3
<1>6. TypeOK'
  BY <1>1, <1>2, <1>3, <1>5 DEF TypeOK, Weaker
<1>7. UserKnown' /\ OneHolder' /\ HoldsUntilCommit'
  BY <1>1, <1>2, <1>4, <1>5, LockStep
<1> QED
  BY <1>3, <1>6, <1>7 DEF Inv

LEMMA LeaveStep ==
  ASSUME Inv, NEW i \in Imports, LeaveSection(i)
  PROVE  Inv'
<1>1. i \in Sessions /\ Connected(i) /\ TypeOK /\ PoolInv
  BY DEF Inv, Sessions, Connected, LeaveSection
<1>2. conn[i] \in Conns /\ user[i] \in Users
  BY <1>1 DEF Inv, TypeOK, PoolInv, UserKnown
<1>3. /\ pc' = [pc EXCEPT ![i] = "left"] /\ UNCHANGED <<idle, conn, user, commits>>
      /\ holds' = Released(conn[i], user[i])
  BY DEF LeaveSection, Goto
<1>4. Weaker(conn[i])
  BY <1>1, <1>2, <1>3, LocksWeaken
<1>5. /\ pc' \in [Sessions -> Places] /\ pc'[i] = "left"
      /\ \A t \in Sessions \ {i} : pc'[t] = pc[t]
  BY <1>1, <1>3 DEF TypeOK, Places
<1>6. TypeOK'
  BY <1>1, <1>3, <1>4, <1>5 DEF TypeOK, Weaker
<1>7. PoolInv'
  BY <1>1, <1>3, <1>5 DEF PoolInv, Connected, Distinct
<1>8. UserKnown' /\ OneHolder' /\ HoldsUntilCommit'
  <2>1. ~InFirstTransaction(i)'
    BY <1>5 DEF InFirstTransaction
  <2> QED
    BY <1>1, <1>3, <1>4, <1>5, <2>1, LockStep
<1> QED
  BY <1>6, <1>7, <1>8 DEF Inv

LEMMA ImportPreserves ==
  ASSUME Inv, NEW i \in Imports, ImportStep(i)
  PROVE  Inv'
<1>1. i \in Sessions /\ TypeOK
  BY DEF Inv, Sessions
<1>2. pc[i] \in {"open", "section"} => conn[i] \in Conns /\ user[i] \in Users
  BY <1>1 DEF Inv, TypeOK, PoolInv, UserKnown, Connected
<1>3. CASE EnterSection(i)
  BY <1>3, EnterStep
<1>4. CASE CommitProgress(i)
  <2>1. /\ pc[i] = "section" /\ pc' = pc /\ user' = user /\ commits[i] < MaxCommits
        /\ commits' = [commits EXCEPT ![i] = @ + 1] /\ Swap(i)
    BY <1>4 DEF CommitProgress
  <2>2. Weaker(conn[i])
    BY <1>1, <1>2, <2>1, LocksWeaken DEF Swap
  <2> QED
    BY <2>1, <2>2, SwapStep DEF Swap
<1>5. CASE LeaveSection(i)
  BY <1>5, LeaveStep
<1>6. CASE CommitEnd(i)
  BY <1>1, <1>6, ReturnStep DEF CommitEnd, Goto, Connected
<1>7. CASE FailEarly(i) \/ AbortInSection(i)
  <2>1. /\ pc[i] \in {"open", "section"} /\ pc' = [pc EXCEPT ![i] = "failed"]
        /\ user' = user /\ commits' = commits /\ Swap(i)
    BY <1>7 DEF FailEarly, AbortInSection, Goto
  <2>2. Weaker(conn[i])
    BY <1>1, <1>2, <2>1, LocksWeaken DEF Swap
  <2> QED
    BY <2>1, <2>2, SwapStep DEF Swap
<1>8. CASE FailInSection(i)
  <2>1. /\ pc[i] \in {"open", "section"} /\ pc' = [pc EXCEPT ![i] = "failed"]
        /\ user' = user /\ commits' = commits
        /\ conn' = [conn EXCEPT ![i] = Head(Back(conn[i]))]
        /\ idle' = Tail(Back(conn[i]))
        /\ holds' = Released(conn[i], user[i]) \/ holds' = LocksAfterReturn(conn[i])
    BY <1>8 DEF FailInSection, Goto
  <2>2. Weaker(conn[i])
    BY <1>1, <1>2, <2>1, LocksWeaken
  <2> QED
    BY <2>1, <2>2, SwapStep
<1>9. CASE RecordFailure(i)
  BY <1>1, <1>9, ReturnStep DEF RecordFailure, Goto, Connected
<1> QED
  BY <1>3, <1>4, <1>5, <1>6, <1>7, <1>8, <1>9 DEF ImportStep

-----------------------------------------------------------------------------
(* Inv is inductive.                                                       *)
THEOREM Invariance == Spec => []Inv
<1>1. Init => Inv
  <2> SUFFICES ASSUME Init PROVE Inv
    OBVIOUS
  <2>1. 0 \in 0..MaxCommits
    BY ImportWriteLockAssumption
  <2>2. [c \in Conns |-> [u \in Users |-> 0]] \in [Conns -> [Users -> Nat]]
    OBVIOUS
  <2>3. idle \in Seq(Conns) /\ Len(idle) = 0
    BY DEF Init
  <2>4. TypeOK
    BY <2>1, <2>2, <2>3 DEF Init, TypeOK, Places
  <2>5. PoolInv
    BY <2>3 DEF Init, PoolInv, Distinct, Connected
  <2>6. UserKnown /\ OneHolder /\ HoldsUntilCommit
    BY DEF Init, UserKnown, OneHolder, HoldsUntilCommit, InFirstTransaction,
           Connected, Sessions
  <2> QED
    BY <2>4, <2>5, <2>6 DEF Inv
<1>2. Inv /\ [Next]_vars => Inv'
  <2> SUFFICES ASSUME Inv, [Next]_vars PROVE Inv'
    OBVIOUS
  <2>1. CASE Next
    <3>1. ASSUME NEW i \in Imports, ArriveImport(i) PROVE Inv'
      BY <3>1, WaitStep DEF Sessions
    <3>2. ASSUME NEW i \in Imports, ImportStep(i) PROVE Inv'
      BY <3>2, ImportPreserves
    <3>3. ASSUME NEW r \in Requests, ArriveRequest(r) PROVE Inv'
      BY <3>3, WaitStep DEF Sessions
    <3>4. ASSUME NEW r \in Requests, RequestEnds(r) PROVE Inv'
      BY <3>4, ReturnStep DEF RequestEnds, Goto, Connected, Sessions
    <3>5. ASSUME NEW s \in Sessions, Open(s) PROVE Inv'
      BY <3>5, OpenStep
    <3>6. ASSUME NEW s \in Sessions, OpenTimesOut(s) PROVE Inv'
      BY <3>6, WaitStep
    <3> QED
      BY <2>1, <3>1, <3>2, <3>3, <3>4, <3>5, <3>6 DEF Next
  <2>2. CASE UNCHANGED vars
    BY <2>2 DEF vars, Inv, TypeOK, PoolInv, UserKnown, OneHolder, HoldsUntilCommit,
                InFirstTransaction, Connected, Distinct
  <2> QED
    BY <2>1, <2>2
<1> QED
  BY <1>1, <1>2, PTL DEF Spec

(* Every variable keeps its type, for any number of users, imports and      *)
(* connections.                                                            *)
THEOREM TypeCorrect == Spec => []TypeOK
<1>1. Inv => TypeOK
  BY DEF Inv
<1> QED
  BY <1>1, Invariance, PTL

(* Two imports of a user are never both in the first transaction of their  *)
(* sections, whatever locks are lost.                                      *)
THEOREM Exclusion == Spec => []FirstTransactionExclusive
<1>1. Inv => FirstTransactionExclusive
  <2> SUFFICES ASSUME Inv, NEW i \in Imports, NEW j \in Imports,
                      InFirstTransaction(i), InFirstTransaction(j), user[i] = user[j]
               PROVE  i = j
    BY DEF FirstTransactionExclusive
  <2>1. /\ i \in Sessions /\ j \in Sessions /\ Connected(i) /\ Connected(j)
        /\ holds[conn[i]][user[i]] > 0 /\ holds[conn[j]][user[j]] > 0
    BY DEF Inv, HoldsUntilCommit, InFirstTransaction, Connected, Sessions
  <2>2. conn[i] \in Conns /\ conn[j] \in Conns /\ user[i] \in Users
    BY <2>1 DEF Inv, TypeOK, PoolInv, UserKnown
  <2>3. conn[i] = conn[j]
    BY <2>1, <2>2 DEF Inv, OneHolder
  <2> QED
    BY <2>1, <2>2, <2>3, ImportWriteLockAssumption DEF Inv, PoolInv
<1> QED
  BY <1>1, Invariance, PTL

-----------------------------------------------------------------------------
(* What may leave the lock of user u behind.                               *)
Leaves(u) == \E i \in Imports : user[i] = u /\ (CommitProgress(i) \/ AbortInSection(i))

(* A step of session s that takes no lock of u, and keeps one only if s is  *)
(* not in its section with the lock's connection.                          *)
LEMMA QuietLocks ==
  ASSUME NEW u \in Users, HeldInSection(u), NEW s \in Sessions,
         \A t \in Sessions \ {s} : conn'[t] = conn[t] /\ pc'[t] = pc[t],
         \A i \in Imports \ {s} : user'[i] = user[i],
         \A c \in Conns :
           \/ holds'[c][u] = 0
           \/ holds'[c][u] = holds[c][u] /\ (s \in Imports /\ pc[s] = "section" /\ user[s] = u => c # conn[s])
  PROVE  HeldInSection(u)'
<1> SUFFICES ASSUME NEW c \in Conns, holds'[c][u] # 0
             PROVE  /\ holds'[c][u] = 1
                    /\ \E i \in Imports : pc'[i] = "section" /\ conn'[i] = c /\ user'[i] = u
  BY DEF HeldInSection
<1>1. holds'[c][u] = holds[c][u] /\ (s \in Imports /\ pc[s] = "section" /\ user[s] = u => c # conn[s])
  OBVIOUS
<1>2. PICK i \in Imports : pc[i] = "section" /\ conn[i] = c /\ user[i] = u /\ holds[c][u] = 1
  BY <1>1 DEF HeldInSection
<1>3. i \in Sessions /\ i # s
  BY <1>1, <1>2 DEF Sessions
<1> QED
  BY <1>1, <1>2, <1>3

(* The connection of an import has the lock of u only if the import is u's  *)
(* and in its section.                                                     *)
LEMMA OwnLockOnly ==
  ASSUME Inv, NEW u \in Users, HeldInSection(u), NEW i \in Imports, Connected(i)
  PROVE  \/ holds[conn[i]][u] = 0
         \/ pc[i] = "section" /\ u = user[i] /\ holds[conn[i]][u] = 1
<1>1. i \in Sessions /\ conn[i] \in Conns
  BY DEF Inv, TypeOK, PoolInv, Sessions
<1>2. ASSUME holds[conn[i]][u] # 0
      PROVE  pc[i] = "section" /\ u = user[i] /\ holds[conn[i]][u] = 1
  <2>1. PICK j \in Imports : /\ pc[j] = "section" /\ conn[j] = conn[i] /\ user[j] = u
                             /\ holds[conn[i]][u] = 1
    BY <1>1, <1>2 DEF HeldInSection
  <2>2. j = i
    BY <1>1, <2>1, ImportWriteLockAssumption DEF Inv, PoolInv, Sessions
  <2> QED
    BY <2>1, <2>2
<1> QED
  BY <1>2

LEMMA SectionLocks ==
  ASSUME Inv, NEW u \in Users, HeldInSection(u), NEW i \in Imports, ImportStep(i), ~Leaves(u)
  PROVE  HeldInSection(u)'
<1>1. /\ i \in Sessions
      /\ holds \in [Conns -> [Users -> Nat]] /\ conn \in [Sessions -> Conns \union {None}]
      /\ pc \in [Sessions -> Places]
  BY DEF Inv, TypeOK, Sessions
<1>2. pc[i] \in {"open", "section", "left", "failed"}
         => Connected(i) /\ conn[i] \in Conns /\ user[i] \in Users
  BY <1>1 DEF Inv, PoolInv, UserKnown, Connected
<1>enter. CASE EnterSection(i)
  <2>1. /\ pc[i] = "open" /\ pc' = [pc EXCEPT ![i] = "section"]
        /\ conn' = conn /\ user' = user
        /\ holds' = [holds EXCEPT ![conn[i]][user[i]] = @ + 1]
        /\ \A d \in Conns \ {conn[i]} : holds[d][user[i]] = 0
    BY <1>enter DEF EnterSection, Goto, Taken, Grantable
  <2>other. CASE u # user[i]
    <3>1. \A c \in Conns : holds'[c][u] = holds[c][u]
      BY <1>1, <1>2, <2>1, <2>other
    <3>2. \A t \in Sessions \ {i} : conn'[t] = conn[t] /\ pc'[t] = pc[t]
      BY <1>1, <2>1
    <3> QED
      BY <1>1, <2>1, <2>other, <3>1, <3>2, QuietLocks
  <2>own. CASE u = user[i]
    <3>1. holds[conn[i]][u] = 0
      BY <1>2, <2>1, <2>own, OwnLockOnly
    <3>2. holds' = [holds EXCEPT ![conn[i]][u] = 1]
      BY <2>1, <2>own, <3>1
    <3>3. holds'[conn[i]][u] = 1 /\ \A c \in Conns \ {conn[i]} : holds'[c][u] = 0
      BY <1>1, <1>2, <2>1, <2>own, <3>2
    <3>4. pc'[i] = "section" /\ conn'[i] = conn[i] /\ user'[i] = u
      BY <1>1, <2>1, <2>own
    <3> QED
      BY <3>3, <3>4 DEF HeldInSection
  <2> QED
    BY <2>other, <2>own
<1>swap. CASE CommitProgress(i) \/ AbortInSection(i)
  <2>1. u # user[i]
    BY <1>swap DEF Leaves
  <2>2. /\ pc[i] = "section" /\ user' = user /\ holds' = LocksAfterReturn(conn[i])
        /\ \A t \in Sessions \ {i} : conn'[t] = conn[t] /\ pc'[t] = pc[t]
    BY <1>1, <1>swap DEF CommitProgress, AbortInSection, Swap, Goto
  <2>3. \A c \in Conns : holds'[c][u] = 0 \/ holds'[c][u] = holds[c][u]
    BY <1>1, <2>2 DEF LocksAfterReturn
  <2> QED
    BY <1>1, <2>1, <2>2, <2>3, QuietLocks
<1>leave. CASE LeaveSection(i) \/ FailInSection(i)
  <2>1. /\ pc[i] = "section" /\ user' = user
        /\ \/ holds' = Released(conn[i], user[i])
           \/ holds' = LocksAfterReturn(conn[i]) /\ ~Keeps
    BY <1>leave DEF LeaveSection, FailInSection
  <2>2. \A t \in Sessions \ {i} : conn'[t] = conn[t] /\ pc'[t] = pc[t]
    BY <1>1, <1>leave DEF LeaveSection, FailInSection, Goto
  <2>3. \A d \in Conns \ {conn[i]} : holds'[d] = holds[d]
    BY <1>1, <1>2, <2>1, LocksWeaken DEF Weaker, Inv
  <2>4. holds'[conn[i]][u] = 0
    <3>1. CASE holds' = Released(conn[i], user[i])
      <4>1. holds[conn[i]][u] = 0 \/ (u = user[i] /\ holds[conn[i]][u] = 1)
        BY <1>2, <2>1, OwnLockOnly
      <4>. DEFINE n == IF holds[conn[i]][user[i]] = 0 THEN 0 ELSE holds[conn[i]][user[i]] - 1
      <4>2. holds' = [holds EXCEPT ![conn[i]][user[i]] = n]
        BY <3>1 DEF Released
      <4>3. u = user[i] => n = 0
        BY <4>1
      <4>. HIDE DEF n
      <4>4. CASE u = user[i]
        BY <1>1, <1>2, <2>1, <4>2, <4>3, <4>4
      <4>5. CASE u # user[i]
        BY <1>1, <1>2, <2>1, <4>1, <4>2, <4>5
      <4> QED
        BY <4>4, <4>5
    <3>2. CASE holds' = LocksAfterReturn(conn[i]) /\ ~Keeps
      BY <1>1, <1>2, <2>1, <3>2 DEF LocksAfterReturn
    <3> QED
      BY <2>1, <3>1, <3>2
  <2>5. \A c \in Conns : holds'[c][u] = 0 \/ (holds'[c][u] = holds[c][u] /\ c # conn[i])
    BY <2>3, <2>4
  <2> QED
    BY <1>1, <2>1, <2>2, <2>5, QuietLocks
<1>end. CASE CommitEnd(i) \/ FailEarly(i) \/ RecordFailure(i)
  <2>1. /\ pc[i] \in {"left", "open", "failed"} /\ user' = user
        /\ holds' = LocksAfterReturn(conn[i])
    BY <1>end DEF CommitEnd, FailEarly, RecordFailure, Return, Swap
  <2>2. \A t \in Sessions \ {i} : conn'[t] = conn[t] /\ pc'[t] = pc[t]
    BY <1>1, <1>end DEF CommitEnd, FailEarly, RecordFailure, Return, Swap, Goto
  <2>3. \A c \in Conns : holds'[c][u] = 0 \/ holds'[c][u] = holds[c][u]
    BY <1>1, <2>1 DEF LocksAfterReturn
  <2> QED
    BY <1>1, <2>1, <2>2, <2>3, QuietLocks
<1> QED
  BY <1>enter, <1>swap, <1>leave, <1>end DEF ImportStep

LEMMA OtherLocks ==
  ASSUME Inv, NEW u \in Users, HeldInSection(u), NEW s \in Sessions,
         \/ s \in Imports /\ ArriveImport(s)
         \/ s \in Requests /\ (ArriveRequest(s) \/ RequestEnds(s))
         \/ Open(s)
         \/ OpenTimesOut(s)
  PROVE  HeldInSection(u)'
<1>1. /\ holds \in [Conns -> [Users -> Nat]] /\ conn \in [Sessions -> Conns \union {None}]
      /\ pc \in [Sessions -> Places] /\ user \in [Imports -> Users \union {None}]
  BY DEF Inv, TypeOK
<1>2. /\ pc[s] # "section"
      /\ \A t \in Sessions \ {s} : pc'[t] = pc[t]
      /\ \A i \in Imports \ {s} : user'[i] = user[i]
  BY <1>1 DEF ArriveImport, ArriveRequest, RequestEnds, Open, OpenTimesOut, Goto
<1>3. \A t \in Sessions \ {s} : conn'[t] = conn[t]
  BY <1>1 DEF ArriveImport, ArriveRequest, RequestEnds, Open, OpenTimesOut, Return, Checkout
<1>4. holds' = holds \/ holds' = LocksAfterReturn(conn[s])
  BY DEF ArriveImport, ArriveRequest, RequestEnds, Open, OpenTimesOut, Return
<1>5. \A c \in Conns : holds'[c][u] = 0 \/ holds'[c][u] = holds[c][u]
  BY <1>1, <1>4 DEF LocksAfterReturn
<1> QED
  BY <1>2, <1>3, <1>5, QuietLocks

(* However many imports, users and connections there are, with failures    *)
(* anywhere: the lock of a user (user_import_write_lock) gets loose only by *)
(* a progress commit or an aborted transaction in a section of that user.  *)
THEOREM LockReturned == Spec => LocksLeft
<1>1. ASSUME Inv, [Next]_vars
      PROVE  [\A u \in Users : HeldInSection(u) /\ ~HeldInSection(u)'
                => \E i \in Imports : user[i] = u /\ (CommitProgress(i) \/ AbortInSection(i))]_vars
  <2> SUFFICES ASSUME Next, NEW u \in Users, HeldInSection(u), ~Leaves(u)
               PROVE  HeldInSection(u)'
    BY <1>1 DEF Leaves
  <2>1. ASSUME NEW i \in Imports, ArriveImport(i) PROVE HeldInSection(u)'
    BY <1>1, <2>1, OtherLocks DEF Sessions
  <2>2. ASSUME NEW i \in Imports, ImportStep(i) PROVE HeldInSection(u)'
    BY <1>1, <2>2, SectionLocks
  <2>3. ASSUME NEW r \in Requests, ArriveRequest(r) \/ RequestEnds(r)
        PROVE  HeldInSection(u)'
    BY <1>1, <2>3, OtherLocks DEF Sessions
  <2>4. ASSUME NEW s \in Sessions, Open(s) \/ OpenTimesOut(s) PROVE HeldInSection(u)'
    BY <1>1, <2>4, OtherLocks
  <2> QED
    BY <2>1, <2>2, <2>3, <2>4 DEF Next
<1> QED
  BY <1>1, Invariance, PTL DEF Spec, LocksLeft
=============================================================================
