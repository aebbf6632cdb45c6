------------------------- MODULE StatementNumbering -------------------------
(***************************************************************************)
(* The numbers of the statements of one contract: Create of                *)
(* internal/services/statement_service.go, the deletions of statements it  *)
(* races, and the deletion of the contract itself.                         *)
(*                                                                         *)
(* Create runs in one transaction at READ COMMITTED: it locks the contract *)
(* FOR UPDATE, takes the highest live sequence_no plus 1, and inserts the  *)
(* draft.  It is the only operation of the backend that takes a lock.      *)
(* Rows are soft-deleted and keep their numbers: the unique index on       *)
(* (contract_id, sequence_no) counts them, the query for the highest       *)
(* number does not.  The status of the contract is not asked for.          *)
(*                                                                         *)
(* A statement starts as a draft, and a deletion that found a draft may    *)
(* still commit after the statement was submitted (StatementApproval), so  *)
(* any live statement may be deleted here, whatever its status is by then. *)
(* Left out: the previous progress that Create copies, and all else that   *)
(* has no part in the choice of the number.                                *)
(***************************************************************************)
EXTENDS Naturals, FiniteSets

CONSTANTS
  Requests,   \* identities of the creations that can be in flight at once
  MaxNo       \* bound: no creation is begun that could need a higher number

ASSUME MaxNoIsNat == MaxNo \in Nat

Numbers == 1..MaxNo

VARIABLES
  contract,    \* whether the contract row is live or soft-deleted
  statements,  \* statements[n]: the row with sequence_no n
  creating     \* the creations in flight

vars == <<contract, statements, creating>>

\* A creation waits for the row lock, holds it, or holds it with a number.
Creation ==
  [request : Requests, step : {"waiting", "locked", "numbered"}, no : Numbers \cup {0}]

TypeOK ==
  /\ contract \in {"live", "deleted"}
  /\ statements \in [Numbers -> {"absent", "live", "deleted"}]
  /\ creating \subseteq Creation

Init ==
  /\ contract = "live"
  /\ statements = [n \in Numbers |-> "absent"]
  /\ creating = {}

Present == {n \in Numbers : statements[n] # "absent"}
Live == {n \in Numbers : statements[n] = "live"}

HoldsLock(h) == h.step # "waiting"

-----------------------------------------------------------------------------
\* A request with a valid body; several may be at it at the same time.
Begin(r) ==
  /\ \A h \in creating : h.request # r
  /\ Cardinality(Present) + Cardinality(creating) < MaxNo
  /\ creating' = creating \cup {[request |-> r, step |-> "waiting", no |-> 0]}
  /\ UNCHANGED <<contract, statements>>

Moved(h, step, n) ==
  creating' = (creating \ {h}) \cup {[request |-> h.request, step |-> step, no |-> n]}

\* Mutant of Lock: the contract is read without FOR UPDATE.
Lock_Plain(h) ==
  /\ h.step = "waiting"
  /\ contract = "live"
  /\ Moved(h, "locked", 0)
  /\ UNCHANGED <<contract, statements>>

\* Mutant of Lock: deleted contracts are found too.
Lock_Unscoped(h) ==
  /\ h.step = "waiting"
  /\ \A g \in creating : ~HoldsLock(g)
  /\ Moved(h, "locked", 0)
  /\ UNCHANGED <<contract, statements>>

\* SELECT ... FOR UPDATE on the contract, which waits for any other holder and
\* then looks at the row again.
Lock(h) ==
  /\ h.step = "waiting"
  /\ contract = "live"
  /\ \A g \in creating : ~HoldsLock(g)
  /\ Moved(h, "locked", 0)
  /\ UNCHANGED <<contract, statements>>

\* Mutant of NextNo: an empty contract is taken to have a first statement.
NextNo_FromTwo(n) ==
  /\ \A m \in Live : m < n
  /\ n = 2 \/ n - 1 \in Live

\* Mutant of NextNo: deleted statements count for the highest number.
NextNo_Unscoped(n) ==
  /\ \A m \in Present : m < n
  /\ n = 1 \/ n - 1 \in Present

\* n is COALESCE(MAX(sequence_no), 0) + 1 over the live statements.
NextNo(n) ==
  /\ \A m \in Live : m < n
  /\ n = 1 \/ n - 1 \in Live

Number(h) ==
  /\ h.step = "locked"
  /\ \E n \in Numbers : NextNo(n) /\ Moved(h, "numbered", n)
  /\ UNCHANGED <<contract, statements>>

\* The INSERT finds its number free, and the commit releases the lock.
Insert(h) ==
  /\ h.step = "numbered"
  /\ statements[h.no] = "absent"
  /\ statements' = [statements EXCEPT ![h.no] = "live"]
  /\ creating' = creating \ {h}
  /\ UNCHANGED contract

\* Mutant of Refused: the transaction is left open.
Refused_LeftOpen(h) ==
  /\ h.step = "numbered"
  /\ statements[h.no] # "absent"
  /\ UNCHANGED vars

\* The unique index refuses the number: rolled back, answered 409.
Refused(h) ==
  /\ h.step = "numbered"
  /\ statements[h.no] # "absent"
  /\ creating' = creating \ {h}
  /\ UNCHANGED <<contract, statements>>

\* The contract is gone when the lock could be had: 404.
NotFound(h) ==
  /\ h.step = "waiting"
  /\ contract = "deleted"
  /\ creating' = creating \ {h}
  /\ UNCHANGED <<contract, statements>>

\* The database fails or the process stops: rolled back, the lock released.
Failed(h) ==
  /\ creating' = creating \ {h}
  /\ UNCHANGED <<contract, statements>>

DeleteStatement(n) ==
  /\ statements[n] = "live"
  /\ statements' = [statements EXCEPT ![n] = "deleted"]
  /\ UNCHANGED <<contract, creating>>

\* The soft delete is an UPDATE, so it waits for the holder of the row lock.
DeleteContract ==
  /\ contract = "live"
  /\ \A g \in creating : ~HoldsLock(g)
  /\ contract' = "deleted"
  /\ UNCHANGED <<statements, creating>>

Proceed(h) == Number(h) \/ Insert(h) \/ Refused(h) \/ NotFound(h)

Next ==
  \/ \E r \in Requests : Begin(r)
  \/ \E h \in creating : Lock(h) \/ Proceed(h) \/ Failed(h)
  \/ \E n \in Numbers : DeleteStatement(n)
  \/ DeleteContract

(***************************************************************************)
(* Each request runs on a goroutine of its own that the scheduler does not *)
(* starve, and PostgreSQL serves the waiters for a row lock in turn: a     *)
(* request that finds the lock free again and again gets it in the end.    *)
(***************************************************************************)
Fairness ==
  \A r \in Requests :
    /\ WF_vars(\E h \in creating : h.request = r /\ Proceed(h))
    /\ SF_vars(\E h \in creating : h.request = r /\ Lock(h))

Spec == Init /\ [][Next]_vars /\ Fairness

-----------------------------------------------------------------------------
(***************************************************************************)
(* Properties.                                                             *)
(***************************************************************************)

\* "numbered sequentially": the numbers ever given, deleted statements
\* included, are 1 to some n without a gap.
NumbersAreConsecutive ==
  \A n \in Present : \A m \in Numbers : m < n => m \in Present

\* What the lock is there for, "to avoid two concurrent statements claiming the
\* same number": the number a creation is about to insert is never that of a
\* live statement, so 409 can come from deleted ones only.
NoLiveNumberClaimed ==
  \A h \in creating : h.step = "numbered" => h.no \notin Live

\* No statement is created under a contract that has been deleted, however the
\* two requests overlap: the deletion waits for the lock.
CreatedUnderLiveContract ==
  [][\A n \in Numbers : n \in Live' /\ n \notin Live => contract = "live"]_vars

\* The newest number belongs to a deleted statement and no creation in flight
\* has a later one.
NewestDeleted ==
  \E n \in Numbers :
    /\ statements[n] = "deleted"
    /\ \A m \in Numbers : m > n => statements[m] = "absent"
    /\ \A h \in creating : h.no <= n

\* Once the newest statement is deleted the contract is stuck: the number that
\* Create takes is taken already, each time and for good.
DeletionBlocksForGood == [][NewestDeleted => NewestDeleted']_vars

\* Whoever waits for the lock gets an answer: no creation is left behind by the
\* ones before it, those refused or rolled back included.
EveryCreationEnds ==
  \A r \in Requests :
    (\E h \in creating : h.request = r) ~> (\A h \in creating : h.request # r)

=============================================================================
