-------------------------- MODULE NumberingProofs --------------------------
(***************************************************************************)
(* Theorems about StatementNumbering, for any number of requests.          *)
(***************************************************************************)
EXTENDS StatementNumbering, TLAPS

(***************************************************************************)
(* The rows and the creations in flight keep their types.                  *)
(***************************************************************************)
THEOREM TypeCorrect == Spec => []TypeOK
<1>1. Init => TypeOK
  BY DEF Init, TypeOK
<1>2. TypeOK /\ [Next]_vars => TypeOK'
  <2> SUFFICES ASSUME TypeOK, [Next]_vars
               PROVE  TypeOK'
    OBVIOUS
  <2>1. ASSUME NEW r \in Requests, Begin(r)
        PROVE  TypeOK'
    BY <2>1 DEF Begin, TypeOK, Creation
  <2>2. ASSUME NEW h \in creating, Lock(h)
        PROVE  TypeOK'
    BY <2>2 DEF Lock, Moved, TypeOK, Creation
  <2>3. ASSUME NEW h \in creating, Number(h)
        PROVE  TypeOK'
    BY <2>3 DEF Number, Moved, TypeOK, Creation
  <2>4. ASSUME NEW h \in creating, Insert(h)
        PROVE  TypeOK'
    BY <2>4 DEF Insert, TypeOK
  <2>5. ASSUME NEW h \in creating, Refused(h) \/ NotFound(h) \/ Failed(h)
        PROVE  TypeOK'
    BY <2>5 DEF Refused, NotFound, Failed, TypeOK
  <2>6. ASSUME NEW n \in Numbers, DeleteStatement(n)
        PROVE  TypeOK'
    BY <2>6 DEF DeleteStatement, TypeOK
  <2>7. CASE DeleteContract
    BY <2>7 DEF DeleteContract, TypeOK
  <2>8. CASE UNCHANGED vars
    BY <2>8 DEF vars, TypeOK
  <2> QED
    BY <2>1, <2>2, <2>3, <2>4, <2>5, <2>6, <2>7, <2>8 DEF Next, Proceed
<1> QED
  BY <1>1, <1>2, PTL DEF Spec

-----------------------------------------------------------------------------
(***************************************************************************)
(* Numbers without gaps.  A number a creation has taken may be stale by    *)
(* the time it is inserted, but the one before it stays taken: rows are    *)
(* never removed, only marked.                                             *)
(***************************************************************************)
TakenAfterPresent ==
  \A h \in creating : h.step = "numbered" =>
    h.no \in Numbers /\ (h.no = 1 \/ h.no - 1 \in Present)

NumbersInv == NumbersAreConsecutive /\ TakenAfterPresent

\* What has a number keeps it.
LEMMA PresentGrows ==
  ASSUME TypeOK, [Next]_vars
  PROVE  Present \subseteq Present'
<1>1. ASSUME NEW h \in creating, Insert(h)
      PROVE  Present \subseteq Present'
  BY <1>1 DEF Insert, Present, TypeOK
<1>2. ASSUME NEW n \in Numbers, DeleteStatement(n)
      PROVE  Present \subseteq Present'
  BY <1>2 DEF DeleteStatement, Present, TypeOK
<1>3. CASE UNCHANGED statements
  BY <1>3 DEF Present
<1> QED
  BY <1>1, <1>2, <1>3
  DEF Next, Proceed, Begin, Lock, Number, Refused, NotFound, Failed, DeleteContract, vars

(***************************************************************************)
(* The numbers ever given are consecutive from 1, whatever creations,      *)
(* failures and deletions overlap.                                         *)
(***************************************************************************)
THEOREM NumbersHaveNoGap == Spec => []NumbersAreConsecutive
<1>1. Init => NumbersInv
  BY DEF Init, NumbersInv, NumbersAreConsecutive, TakenAfterPresent, Present
<1>2. TypeOK /\ NumbersInv /\ [Next]_vars => NumbersInv'
  <2> SUFFICES ASSUME TypeOK, NumbersInv, [Next]_vars
               PROVE  NumbersInv'
    OBVIOUS
  <2>1. Present \subseteq Present'
    BY PresentGrows
  <2>2. ASSUME NEW r \in Requests, Begin(r)
        PROVE  NumbersInv'
    BY <2>1, <2>2 DEF Begin, NumbersInv, NumbersAreConsecutive, TakenAfterPresent, Present
  <2>3. ASSUME NEW h \in creating, Lock(h)
        PROVE  NumbersInv'
    BY <2>1, <2>3
    DEF Lock, Moved, NumbersInv, NumbersAreConsecutive, TakenAfterPresent, Present
  <2>4. ASSUME NEW h \in creating, Number(h)
        PROVE  NumbersInv'
    <3>1. PICK n \in Numbers : NextNo(n) /\ Moved(h, "numbered", n)
      BY <2>4 DEF Number
    <3>2. n = 1 \/ n - 1 \in Present
      BY <3>1 DEF NextNo, Live, Present
    <3>3. TakenAfterPresent'
      BY <2>1, <3>1, <3>2 DEF Moved, NumbersInv, TakenAfterPresent
    <3>4. NumbersAreConsecutive'
      BY <2>4 DEF Number, NumbersInv, NumbersAreConsecutive, Present
    <3> QED
      BY <3>3, <3>4 DEF NumbersInv
  <2>5. ASSUME NEW h \in creating, Insert(h)
        PROVE  NumbersInv'
    <3>1. h.no \in Numbers /\ (h.no = 1 \/ h.no - 1 \in Present)
      BY <2>5 DEF Insert, NumbersInv, TakenAfterPresent
    <3>2. Present' = Present \cup {h.no}
      BY <2>5, <3>1 DEF Insert, Present, TypeOK
    <3>3. ASSUME NEW m \in Numbers, m < h.no
          PROVE  m \in Present
      BY <3>1, <3>3 DEF NumbersInv, NumbersAreConsecutive, Numbers
    <3>4. NumbersAreConsecutive'
      BY <3>2, <3>3 DEF NumbersInv, NumbersAreConsecutive
    <3>5. TakenAfterPresent'
      BY <2>1, <2>5 DEF Insert, NumbersInv, TakenAfterPresent
    <3> QED
      BY <3>4, <3>5 DEF NumbersInv
  <2>6. ASSUME NEW h \in creating, Refused(h) \/ NotFound(h) \/ Failed(h)
        PROVE  NumbersInv'
    BY <2>6
    DEF Refused, NotFound, Failed, NumbersInv, NumbersAreConsecutive, TakenAfterPresent, Present
  <2>7. ASSUME NEW n \in Numbers, DeleteStatement(n)
        PROVE  NumbersInv'
    <3>1. Present' = Present
      BY <2>7 DEF DeleteStatement, Present, TypeOK
    <3> QED
      BY <2>7, <3>1
      DEF DeleteStatement, NumbersInv, NumbersAreConsecutive, TakenAfterPresent
  <2>8. CASE DeleteContract
    BY <2>8 DEF DeleteContract, NumbersInv, NumbersAreConsecutive, TakenAfterPresent, Present
  <2>9. CASE UNCHANGED vars
    BY <2>9 DEF vars, NumbersInv, NumbersAreConsecutive, TakenAfterPresent, Present
  <2> QED
    BY <2>2, <2>3, <2>4, <2>5, <2>6, <2>7, <2>8, <2>9 DEF Next, Proceed
<1> QED
  BY <1>1, <1>2, TypeCorrect, PTL DEF Spec, NumbersInv

-----------------------------------------------------------------------------
(***************************************************************************)
(* The row lock.  One creation holds it, the contract is live as long as   *)
(* it is held, and the number its holder took is above every live one.     *)
(***************************************************************************)
LockInv ==
  /\ \A g, h \in creating : HoldsLock(g) /\ HoldsLock(h) => g = h
  /\ \A h \in creating : HoldsLock(h) => contract = "live"
  /\ \A h \in creating : h.step = "numbered" => \A m \in Live : m < h.no

\* Held by one creation at a time, the lock keeps the contract and the highest
\* live number from moving under its holder.
LEMMA LockInvariant == Spec => []LockInv
<1>1. Init => LockInv
  BY DEF Init, LockInv
<1>2. TypeOK /\ LockInv /\ [Next]_vars => LockInv'
  <2> SUFFICES ASSUME TypeOK, LockInv, [Next]_vars
               PROVE  LockInv'
    OBVIOUS
  <2>1. ASSUME NEW r \in Requests, Begin(r)
        PROVE  LockInv'
    BY <2>1 DEF Begin, LockInv, HoldsLock, Live
  <2>2. ASSUME NEW h \in creating, Lock(h)
        PROVE  LockInv'
    BY <2>2 DEF Lock, Moved, LockInv, HoldsLock, Live
  <2>3. ASSUME NEW h \in creating, Number(h)
        PROVE  LockInv'
    <3>1. PICK n \in Numbers : NextNo(n) /\ Moved(h, "numbered", n)
      BY <2>3 DEF Number
    <3>2. h.step = "locked" /\ UNCHANGED <<contract, Live>>
      BY <2>3 DEF Number, Live
    <3>3. \A g \in creating : HoldsLock(g) => g = h
      BY <3>2 DEF LockInv, HoldsLock
    <3> QED
      BY <3>1, <3>2, <3>3 DEF Moved, NextNo, LockInv, HoldsLock
  <2>4. ASSUME NEW h \in creating, Insert(h)
        PROVE  LockInv'
    <3>1. \A g \in creating' : ~HoldsLock(g)
      BY <2>4 DEF Insert, LockInv, HoldsLock
    <3> QED
      BY <3>1 DEF LockInv, HoldsLock
  <2>5. ASSUME NEW h \in creating, Refused(h) \/ NotFound(h) \/ Failed(h)
        PROVE  LockInv'
    BY <2>5 DEF Refused, NotFound, Failed, LockInv, HoldsLock, Live
  <2>6. ASSUME NEW n \in Numbers, DeleteStatement(n)
        PROVE  LockInv'
    <3>1. Live' \subseteq Live
      BY <2>6 DEF DeleteStatement, Live, TypeOK
    <3> QED
      BY <2>6, <3>1 DEF DeleteStatement, LockInv, HoldsLock
  <2>7. CASE DeleteContract
    BY <2>7 DEF DeleteContract, LockInv, HoldsLock, Live
  <2>8. CASE UNCHANGED vars
    BY <2>8 DEF vars, LockInv, HoldsLock, Live
  <2> QED
    BY <2>1, <2>2, <2>3, <2>4, <2>5, <2>6, <2>7, <2>8 DEF Next, Proceed
<1> QED
  BY <1>1, <1>2, TypeCorrect, PTL DEF Spec

(***************************************************************************)
(* No creation is about to insert the number of a live statement: with the *)
(* lock, 409 can only come from a deleted one.                             *)
(***************************************************************************)
THEOREM LockPreventsClaims == Spec => []NoLiveNumberClaimed
<1>1. TypeOK /\ LockInv => NoLiveNumberClaimed
  BY DEF TypeOK, Creation, LockInv, NoLiveNumberClaimed, Live, Numbers
<1> QED
  BY <1>1, TypeCorrect, LockInvariant, PTL

(***************************************************************************)
(* A statement comes into being only while its contract is live, although  *)
(* the contract was read several steps earlier.                            *)
(***************************************************************************)
THEOREM NoOrphanIsCreated == Spec => CreatedUnderLiveContract
<1>1. TypeOK /\ LockInv /\ [Next]_vars
        => [\A n \in Numbers : n \in Live' /\ n \notin Live => contract = "live"]_vars
  <2> SUFFICES ASSUME TypeOK, LockInv, Next,
                      NEW n \in Numbers, n \in Live', n \notin Live
               PROVE  contract = "live"
    BY DEF vars
  <2>1. ASSUME NEW h \in creating, Insert(h)
        PROVE  contract = "live"
    BY <2>1 DEF Insert, LockInv, HoldsLock
  <2>2. ASSUME NEW m \in Numbers, DeleteStatement(m)
        PROVE  FALSE
    BY <2>2 DEF DeleteStatement, Live, TypeOK
  <2>3. CASE UNCHANGED statements
    BY <2>3 DEF Live
  <2> QED
    BY <2>1, <2>2, <2>3
    DEF Next, Proceed, Begin, Lock, Number, Refused, NotFound, Failed, DeleteContract
<1> QED
  BY <1>1, TypeCorrect, LockInvariant, PTL DEF Spec, CreatedUnderLiveContract

-----------------------------------------------------------------------------
(***************************************************************************)
(* Once the newest statement is deleted, no statement of the contract is   *)
(* ever created again.                                                     *)
(***************************************************************************)
THEOREM BlockedForGood == Spec => DeletionBlocksForGood
<1>1. TypeOK /\ [Next]_vars => [NewestDeleted => NewestDeleted']_vars
  <2> SUFFICES ASSUME TypeOK, Next, NewestDeleted
               PROVE  NewestDeleted'
    BY DEF vars
  <2> PICK n \in Numbers : /\ statements[n] = "deleted"
                           /\ \A m \in Numbers : m > n => statements[m] = "absent"
                           /\ \A h \in creating : h.no <= n
    BY DEF NewestDeleted
  <2> SUFFICES /\ statements'[n] = "deleted"
               /\ \A m \in Numbers : m > n => statements'[m] = "absent"
               /\ \A h \in creating' : h.no <= n
    BY DEF NewestDeleted
  <2> n \in Nat /\ n >= 1
    BY DEF Numbers
  <2>1. ASSUME NEW r \in Requests, Begin(r)
        PROVE  /\ UNCHANGED statements
               /\ \A h \in creating' : h.no <= n
    BY <2>1 DEF Begin
  <2>2. ASSUME NEW h \in creating, Lock(h)
        PROVE  /\ UNCHANGED statements
               /\ \A g \in creating' : g.no <= n
    BY <2>2 DEF Lock, Moved
  <2>3. ASSUME NEW h \in creating, Number(h)
        PROVE  /\ UNCHANGED statements
               /\ \A g \in creating' : g.no <= n
    <3>1. PICK k \in Numbers : NextNo(k) /\ Moved(h, "numbered", k)
      BY <2>3 DEF Number
    <3>2. \A m \in Live : m < n
      BY DEF Live, Numbers
    <3>3. k <= n
      BY <3>1, <3>2 DEF NextNo, Numbers
    <3> QED
      BY <2>3, <3>1, <3>3 DEF Number, Moved
  <2>4. ASSUME NEW h \in creating, Insert(h)
        PROVE  /\ statements'[n] = "deleted"
               /\ \A m \in Numbers : m > n => statements'[m] = "absent"
               /\ creating' \subseteq creating
    BY <2>4 DEF Insert, TypeOK, Creation, Numbers
  <2>5. ASSUME NEW h \in creating, Refused(h) \/ NotFound(h) \/ Failed(h)
        PROVE  UNCHANGED statements /\ creating' \subseteq creating
    BY <2>5 DEF Refused, NotFound, Failed
  <2>6. ASSUME NEW m \in Numbers, DeleteStatement(m)
        PROVE  /\ statements'[n] = "deleted"
               /\ \A k \in Numbers : k > n => statements'[k] = "absent"
               /\ UNCHANGED creating
    BY <2>6 DEF DeleteStatement, TypeOK
  <2>7. CASE DeleteContract
    BY <2>7 DEF DeleteContract
  <2> QED
    BY <2>1, <2>2, <2>3, <2>4, <2>5, <2>6, <2>7 DEF Next, Proceed
<1> QED
  BY <1>1, TypeCorrect, PTL DEF Spec, DeletionBlocksForGood

=============================================================================
