--------------------------- MODULE ImportWriteLock ---------------------------
(***************************************************************************)
(* The lock that is to serialise the upload imports of one user            *)
(* (import_write_lock.py), as run_sync of file_upload_import_service.py    *)
(* uses it, over the connection pool of the server process                 *)
(* (db/connection.py).                                                     *)
(*                                                                         *)
(* The lock is a PostgreSQL advisory lock: it belongs to the database      *)
(* connection that took it, is re-entrant there, and outlives the          *)
(* transaction.  A session has a connection only from its first statement  *)
(* to its next commit or rollback; then the connection goes back to the    *)
(* pool, and the session's next statement takes the one that has been idle *)
(* longest.  Imports of contact lists commit as they go; the import of a   *)
(* profile does not.                                                       *)
(***************************************************************************)
EXTENDS Naturals, Sequences, FiniteSets, Functions

CONSTANTS
  Users,
  Contacts,   \* imports of phone contacts and LinkedIn connections
  Profiles,   \* imports of a LinkedIn profile
  Requests,   \* the other sessions of the process
  Conns,      \* as many as database_pool_size + database_max_overflow
  PoolSize,   \* database_pool_size
  Failures,   \* whether a statement may fail in the database
  MaxCommits, \* bound on the progress commits of an import
  None        \* no user or connection

Imports == Contacts \union Profiles
Sessions == Imports \union Requests

ASSUME ImportWriteLockAssumption ==
  /\ Imports \intersect Requests = {}
  /\ Contacts \intersect Profiles = {}
  /\ None \notin Users \union Conns
  /\ IsFiniteSet(Conns)
  /\ PoolSize \in Nat \ {0}
  /\ Failures \in BOOLEAN
  /\ MaxCommits \in Nat \ {0}

VARIABLES
  idle,    \* the connections in the pool, in the order they came back
  conn,    \* per session: the connection it has, or None
  holds,   \* per connection and user: how often it has taken the user's lock
  pc,      \* per session: where it is
  user,    \* per import: whose import it is
  commits  \* per import: the progress commits it made in the section

vars == <<idle, conn, holds, pc, user, commits>>

Places == {"new", "asking", "open", "section", "left", "failed", "done"}

TypeOK ==
  /\ idle \in Seq(Conns)
  /\ conn \in [Sessions -> Conns \union {None}]
  /\ holds \in [Conns -> [Users -> Nat]]
  /\ pc \in [Sessions -> Places]
  /\ user \in [Imports -> Users \union {None}]
  /\ commits \in [Imports -> 0..MaxCommits]

Init ==
  /\ idle = <<>>
  /\ conn = [s \in Sessions |-> None]
  /\ holds = [c \in Conns |-> [u \in Users |-> 0]]
  /\ pc = [s \in Sessions |-> "new"]
  /\ user = [i \in Imports |-> None]
  /\ commits = [i \in Imports |-> 0]

Goto(s, place) == pc' = [pc EXCEPT ![s] = place]

-----------------------------------------------------------------------------
(* The pool.                                                               *)

Unopened == Conns \ (Range(idle) \union Range(conn))

(* Session s takes the connection that has been idle longest, or opens one. *)
Checkout(s) ==
  \/ /\ idle # <<>>
     /\ conn' = [conn EXCEPT ![s] = Head(idle)]
     /\ idle' = Tail(idle)
  \/ /\ idle = <<>>
     /\ \E c \in Unopened : conn' = [conn EXCEPT ![s] = c]
     /\ UNCHANGED idle

Keeps == Len(idle) < PoolSize

(* The connection of s goes back to the pool, locks and all; above its size *)
(* the pool closes it.                                                      *)
Back(c) == IF Keeps THEN Append(idle, c) ELSE idle
LocksAfterReturn(c) ==
  IF Keeps THEN holds ELSE [holds EXCEPT ![c] = [u \in Users |-> 0]]

(* A plausible slip: the session is not closed. *)
LeftOpen(s) == UNCHANGED <<idle, holds, conn>>

Return(s) ==
  /\ idle' = Back(conn[s])
  /\ holds' = LocksAfterReturn(conn[s])
  /\ conn' = [conn EXCEPT ![s] = None]

(* A commit or rollback followed at once by another statement: the event   *)
(* loop runs nothing between the return and the checkout.                  *)
Swap(s) ==
  LET after == Back(conn[s]) IN
  /\ conn' = [conn EXCEPT ![s] = Head(after)]
  /\ idle' = Tail(after)
  /\ holds' = LocksAfterReturn(conn[s])

-----------------------------------------------------------------------------
(* The lock.                                                               *)

(* A plausible slip: pg_try_advisory_lock, whose answer nobody looks at. *)
AlwaysGrantable(c, u) == TRUE
Grantable(c, u) == \A d \in Conns \ {c} : holds[d][u] = 0
Taken(c, u) == [holds EXCEPT ![c][u] = @ + 1]
(* Plausible slips: no unlock; an unlock that counts below zero. *)
NotReleased(c, u) == holds
ReleasedBlind(c, u) == [holds EXCEPT ![c][u] = @ - 1]
(* pg_advisory_unlock on a connection without the lock only warns. *)
Released(c, u) == [holds EXCEPT ![c][u] = IF @ = 0 THEN 0 ELSE @ - 1]

-----------------------------------------------------------------------------
(* Sessions of the process.                                                *)

ArriveImport(i) ==
  /\ pc[i] = "new"
  /\ \E u \in Users : user' = [user EXCEPT ![i] = u]
  /\ Goto(i, "asking")
  /\ UNCHANGED <<idle, conn, holds, commits>>

ArriveRequest(r) ==
  /\ pc[r] = "new"
  /\ Goto(r, "asking")
  /\ UNCHANGED <<idle, conn, holds, user, commits>>

(* The first statement of a session. *)
Open(s) ==
  /\ pc[s] = "asking"
  /\ Checkout(s)
  /\ Goto(s, "open")
  /\ UNCHANGED <<holds, user, commits>>

(* Every connection is in use for the length of the pool's timeout. *)
OpenTimesOut(s) ==
  /\ pc[s] = "asking"
  /\ idle = <<>>
  /\ Unopened = {}
  /\ Goto(s, "done")
  /\ UNCHANGED <<idle, conn, holds, user, commits>>

RequestEnds(r) ==
  /\ pc[r] = "open"
  /\ Return(r)
  /\ Goto(r, "done")
  /\ UNCHANGED <<user, commits>>

-----------------------------------------------------------------------------
(* An upload import.                                                       *)

(* pg_advisory_lock waits, with its connection, until it is granted. *)
EnterSection(i) ==
  /\ pc[i] = "open"
  /\ Grantable(conn[i], user[i])
  /\ holds' = Taken(conn[i], user[i])
  /\ Goto(i, "section")
  /\ UNCHANGED <<idle, conn, user, commits>>

CommitProgress(i) ==
  /\ pc[i] = "section"
  /\ i \in Contacts
  /\ commits[i] < MaxCommits
  /\ Swap(i)
  /\ commits' = [commits EXCEPT ![i] = @ + 1]
  /\ UNCHANGED <<pc, user>>

(* The last writes, COMPLETE among them, are flushed; the lock is released *)
(* before they are committed.                                              *)
LeaveSection(i) ==
  /\ pc[i] = "section"
  /\ i \in Contacts => commits[i] > 0
  /\ holds' = Released(conn[i], user[i])
  /\ Goto(i, "left")
  /\ UNCHANGED <<idle, conn, user, commits>>

CommitEnd(i) ==
  /\ pc[i] = "left"
  /\ Return(i)
  /\ Goto(i, "done")
  /\ UNCHANGED <<user, commits>>

(* An error before the section (an empty payload). *)
FailEarly(i) ==
  /\ pc[i] = "open"
  /\ Swap(i)
  /\ Goto(i, "failed")
  /\ UNCHANGED <<user, commits>>

(* An error in the section that leaves the transaction usable: the lock is *)
(* released, then the transaction is rolled back and the source read again. *)
FailInSection(i) ==
  /\ pc[i] = "section"
  /\ LET after == Back(conn[i]) IN
     /\ conn' = [conn EXCEPT ![i] = Head(after)]
     /\ idle' = Tail(after)
     /\ holds' = IF Keeps THEN Released(conn[i], user[i]) ELSE LocksAfterReturn(conn[i])
  /\ Goto(i, "failed")
  /\ UNCHANGED <<user, commits>>

(* An error of the database aborts the transaction, and with it the        *)
(* statement that was to release the lock.                                 *)
AbortInSection(i) ==
  /\ Failures
  /\ pc[i] = "section"
  /\ Swap(i)
  /\ Goto(i, "failed")
  /\ UNCHANGED <<user, commits>>

(* FAILED is committed. *)
RecordFailure(i) ==
  /\ pc[i] = "failed"
  /\ Return(i)
  /\ Goto(i, "done")
  /\ UNCHANGED <<user, commits>>

-----------------------------------------------------------------------------
ImportStep(i) ==
  \/ EnterSection(i) \/ CommitProgress(i) \/ LeaveSection(i) \/ CommitEnd(i)
  \/ FailEarly(i) \/ FailInSection(i) \/ AbortInSection(i) \/ RecordFailure(i)

Next ==
  \/ \E i \in Imports : ArriveImport(i) \/ ImportStep(i)
  \/ \E r \in Requests : ArriveRequest(r) \/ RequestEnds(r)
  \/ \E s \in Sessions : Open(s) \/ OpenTimesOut(s)

Spec == Init /\ [][Next]_vars

(* Whoever has a connection goes on.  Those who wait for a connection or    *)
(* for the lock are served in order of arrival, hence strong fairness.      *)
Fairness ==
  /\ \A i \in Imports : /\ SF_vars(EnterSection(i))
                        /\ WF_vars(LeaveSection(i) \/ CommitProgress(i))
                        /\ WF_vars(CommitEnd(i))
                        /\ WF_vars(RecordFailure(i))
  /\ \A r \in Requests : WF_vars(RequestEnds(r))
  /\ \A s \in Sessions : SF_vars(Open(s))

FairSpec == Spec /\ Fairness

-----------------------------------------------------------------------------
(* Properties.                                                             *)

(* An import that has not yet committed in its section is the only one of  *)
(* its user that has not: whatever locks other imports have left on idle    *)
(* connections, its own connection has the lock and no other session uses  *)
(* that connection.                                                        *)
InFirstTransaction(i) == pc[i] = "section" /\ commits[i] = 0
FirstTransactionExclusive ==
  \A i, j \in Imports :
    InFirstTransaction(i) /\ InFirstTransaction(j) /\ user[i] = user[j] => i = j

(* The lock of u is with a connection only while an import of u is in its  *)
(* section on that connection, and taken once.                             *)
HeldInSection(u) ==
  \A c \in Conns :
    \/ holds[c][u] = 0
    \/ holds[c][u] = 1 /\ \E i \in Imports : pc[i] = "section" /\ conn[i] = c /\ user[i] = u

(* What makes a user's lock outlive the section, or pass to a connection    *)
(* that is not the section's, is an import of that user that commits in its *)
(* section or has its transaction aborted there: neither an end, an error   *)
(* that leaves the transaction usable, the pool, nor any other user's       *)
(* import does.                                                             *)
LocksLeft ==
  [][\A u \in Users : HeldInSection(u) /\ ~HeldInSection(u)'
       => \E i \in Imports : user[i] = u /\ (CommitProgress(i) \/ AbortInSection(i))]_vars

(* "Serialize DB-heavy import work for one user across concurrent source   *)
(* syncs": no two imports of a user are in their sections at once.         *)
Serialized ==
  \A i, j \in Imports :
    pc[i] = "section" /\ pc[j] = "section" /\ user[i] = user[j] => i = j

(* The same promise, for the writes themselves: when an import is in its    *)
(* section, the writes of those that left it are committed.                *)
WritesSerialized ==
  \A i, j \in Imports :
    pc[i] = "section" /\ pc[j] = "left" => user[i] # user[j]

(* "Call sync_source, then get_source_status until sync_state is partial    *)
(* or complete": an import that was scheduled ends.                        *)
ImportsEnd == \A i \in Imports : pc[i] = "asking" ~> pc[i] = "done"

(* However many imports wait for the lock with a connection each, every    *)
(* other session gets a connection.                                        *)
SessionsServed == \A r \in Requests : pc[r] = "asking" ~> pc[r] = "done"

=============================================================================
