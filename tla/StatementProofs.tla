--------------------------- MODULE StatementProofs ---------------------------
(***************************************************************************)
(* Theorems about a statement whose items are edited while it is reviewed, *)
(* StatementLedger, with any requests in flight.                           *)
(***************************************************************************)
EXTENDS LedgerHistory, ReviewProofs, SumFacts, TLAPS

-----------------------------------------------------------------------------
(***************************************************************************)
(* No edit of items or aggregates disturbs the review: every step of the   *)
(* ledger is a step of the review or leaves the review alone.              *)
(***************************************************************************)
THEOREM LedgerImplementsReview == LedgerSpec => ImplementsReview
  <1>1. LedgerInit => ReviewInit
    BY DEF LedgerInit
  <1>2. [LedgerNext]_vars => [ReviewNext]_reviewVars
    <2>1. ReviewStep => ReviewNext
      BY DEF ReviewStep, Free, ReviewNext
    <2>2. ASSUME NEW r \in Requests, NEW e \in Edit, BeginEdit(r, e)
          PROVE  UNCHANGED reviewVars
      BY <2>2 DEF BeginEdit, reviewVars
    <2>3. ASSUME NEW h \in editing, ComputeEdit(h) \/ CommitEdit(h) \/ EditFailed(h)
          PROVE  UNCHANGED reviewVars
      BY <2>3 DEF ComputeEdit, CommitEdit, EditFailed, reviewVars
    <2>4. QED
      BY <2>1, <2>2, <2>3 DEF LedgerNext, vars
  <1>3. QED
    BY <1>1, <1>2, PTL DEF LedgerSpec, ReviewSpec, ImplementsReview

(***************************************************************************)
(* With edits, deletions and transitions overlapping in any way, no        *)
(* statement is approved past a reviewer.                                  *)
(***************************************************************************)
THEOREM LedgerReviewIsSound == LedgerSpec => []NoReviewSkipped
  BY LedgerImplementsReview, ReviewIsSound, PTL DEF ImplementsReview

-----------------------------------------------------------------------------
(***************************************************************************)
(* The histories only watch: every step with them is a step of the ledger  *)
(* or none.                                                                *)
(***************************************************************************)
LEMMA HistoryIsLedger == HistorySpec => LedgerSpec
  <1>1. HistoryInit => LedgerInit
    BY DEF HistoryInit
  <1>2. [HistoryNext]_historyVars => [LedgerNext]_vars
    <2> SUFFICES ASSUME [HistoryNext]_historyVars PROVE [LedgerNext]_vars
      OBVIOUS
    <2>1. ASSUME NEW r \in Requests, Reads(r)
          PROVE  LedgerNext
      BY <2>1 DEF Reads, LedgerNext, ReviewStep
    <2>2. ASSUME NEW v \in reviews, Reviews(v) \/ ReviewGivesUp(v)
          PROVE  LedgerNext
      BY <2>2 DEF Reviews, ReviewGivesUp, LedgerNext, ReviewStep, EndReview
    <2>3. ASSUME NEW h \in editing, Computes(h) \/ Edits(h) \/ EditGivesUp(h)
          PROVE  LedgerNext
      BY <2>3 DEF Computes, Edits, EditGivesUp, LedgerNext
    <2>4. QED
      BY <2>1, <2>2, <2>3 DEF HistoryNext, historyVars
  <1>3. QED
    BY <1>1, <1>2, PTL DEF HistorySpec, LedgerSpec

\* The types of the review, with the histories.
LEMMA HistoryReviewType == HistorySpec => []ReviewTypeOK
  BY HistoryIsLedger, LedgerImplementsReview, ReviewTypeCorrect, PTL DEF ImplementsReview

\* No two requests in flight have the same identity.
RequestsDiffer ==
  /\ \A v, w \in reviews : v.request = w.request => v = w
  /\ \A h, g \in editing : h.request = g.request => h = g
  /\ \A v \in reviews, h \in editing : v.request # h.request

\* An identity is free when a request takes it, so no two share one.
LEMMA RequestsDifferInvariant == HistorySpec => []RequestsDiffer
  <1>1. HistoryInit => RequestsDiffer
    BY DEF HistoryInit, LedgerInit, ReviewInit, RequestsDiffer
  <1>2. RequestsDiffer /\ [HistoryNext]_historyVars => RequestsDiffer'
    <2> SUFFICES ASSUME RequestsDiffer, [HistoryNext]_historyVars
                 PROVE  RequestsDiffer'
      OBVIOUS
    <2>1. ASSUME NEW r \in Requests, Free(r), BeginReview(r), UNCHANGED ledgerVars
          PROVE  RequestsDiffer'
      <3>1. PICK v : v.request = r /\ reviews' = reviews \cup {v}
        BY <2>1 DEF BeginReview, Transition, Delete, Enter, Deciding
      <3>2. editing' = editing
        BY <2>1 DEF ledgerVars
      <3>3. QED
        BY <2>1, <3>1, <3>2 DEF RequestsDiffer, Free, Unused
    <2>2. ASSUME NEW r \in Requests, Free(r), NEW e \in Edit, BeginEdit(r, e)
          PROVE  RequestsDiffer'
      <3>1. Begun(r, e).request = r
        BY DEF Begun
      <3>2. editing' = editing \cup {Begun(r, e)} /\ reviews' = reviews
        BY <2>2 DEF BeginEdit, reviewVars
      <3>3. QED
        BY <2>2, <3>1, <3>2 DEF RequestsDiffer, Free, Unused
    <2>3. ASSUME NEW h \in editing, ComputeEdit(h)
          PROVE  RequestsDiffer'
      <3>1. Computed(h).request = h.request
        BY DEF Computed
      <3>2. editing' = (editing \ {h}) \cup {Computed(h)} /\ reviews' = reviews
        BY <2>3 DEF ComputeEdit, reviewVars
      <3>3. QED
        BY <3>1, <3>2 DEF RequestsDiffer
    <2>4. ASSUME reviews' \subseteq reviews, editing' \subseteq editing
          PROVE  RequestsDiffer'
      BY <2>4 DEF RequestsDiffer
    <2>5. QED
      BY <2>1, <2>2, <2>3, <2>4
         DEF HistoryNext, historyVars, vars, reviewVars, ledgerVars, Reads, Reviews,
             ReviewGivesUp, CommitTransition, CommitDelete, ReviewFailed, Computes, Edits,
             CommitEdit, EditGivesUp, EditFailed
  <1>3. QED
    BY <1>1, <1>2, PTL DEF HistorySpec

-----------------------------------------------------------------------------
(***************************************************************************)
(* What a request that is not outdated read still holds when it writes,    *)
(* and that is all that the following properties need.                     *)
(***************************************************************************)
TrailEnd == IF Len(trail) = 0 THEN "draft" ELSE trail[Len(trail)].to

StatusRead ==
  /\ \A v \in reviews :
       v.request \notin outdated =>
         /\ row = "live"
         /\ v.kind = "transition" => v.move.from = status
         /\ v.kind = "delete" => status = "draft"
  /\ \A h \in editing :
       h.request \notin outdated => row = "live" /\ status = "draft"

StrayInv ==
  StatusRead /\ TrailFollowsTableUnlessStrayed /\ OnlyDraftsDeletedUnlessStrayed

\* Every move leads to a status other than draft.
LEMMA NoMoveToDraft ==
  ASSUME NEW move \in validTransitions
  PROVE  move.to # "draft"
  BY DEF validTransitions, Move

\* A draft that is live has an empty trail.
LEMMA DraftHasNoTrail ==
  ASSUME ReviewTypeOK, TrailFollowsTable, row = "live", status = "draft"
  PROVE  trail = <<>>
  <1>1. SUFFICES ASSUME Len(trail) > 0 PROVE FALSE
    BY DEF ReviewTypeOK
  <1>2. Len(trail) \in DOMAIN trail /\ Len(trail) # 0
    BY <1>1 DEF ReviewTypeOK
  <1>3. \E move \in validTransitions : move.to = trail[Len(trail)].to
    BY <1>2 DEF TrailFollowsTable
  <1>4. trail[Len(trail)].to = "draft"
    BY <1>2 DEF TrailFollowsTable
  <1>5. QED
    BY <1>3, <1>4, NoMoveToDraft

\* StatusRead is kept by every step: a commit of the review outdates the others.
LEMMA StatusReadStep ==
  ASSUME ReviewTypeOK, RequestsDiffer, StatusRead, [HistoryNext]_historyVars
  PROVE  StatusRead'
  <1>1. ASSUME NEW r \in Requests, Reads(r)
        PROVE  StatusRead'
    <2>1. UNCHANGED <<row, status, outdated>> /\ row = "live"
      BY <1>1 DEF Reads, BeginReview, Transition, Delete, Enter, BeginEdit, reviewVars,
                  histories
    <2>2. ASSUME NEW v \in reviews'
          PROVE  \/ v \in reviews
                 \/ v.kind = "transition" /\ v.move.from = status
                 \/ v.kind = "delete" /\ status = "draft"
      BY <1>1 DEF Reads, BeginReview, Transition, Delete, Enter, Deciding, BeginEdit, reviewVars
    <2>3. ASSUME NEW h \in editing'
          PROVE  h \in editing \/ status = "draft"
      BY <1>1 DEF Reads, ledgerVars, BeginEdit
    <2>4. QED
      BY <2>1, <2>2, <2>3 DEF StatusRead
  <1>2. ASSUME NEW v \in reviews, Reviews(v)
        PROVE  StatusRead'
    <2>1. reviews' = reviews \ {v} /\ editing' = editing /\ outdated' = InFlight \ {v.request}
      BY <1>2 DEF Reviews, CommitTransition, CommitDelete, ledgerVars
    <2>2. \A w \in reviews' : w.request \in outdated'
      BY <2>1 DEF RequestsDiffer, InFlight
    <2>3. \A h \in editing' : h.request \in outdated'
      BY <2>1 DEF RequestsDiffer, InFlight, Editors
    <2>4. QED
      BY <2>2, <2>3 DEF StatusRead
  <1>3. ASSUME NEW v \in reviews, ReviewGivesUp(v)
        PROVE  StatusRead'
    <2>1. /\ reviews' = reviews \ {v} /\ editing' = editing /\ UNCHANGED <<row, status>>
          /\ outdated' = outdated \ {v.request}
      BY <1>3 DEF ReviewGivesUp, ReviewFailed, ledgerVars
    <2>2. QED
      BY <2>1 DEF RequestsDiffer, StatusRead
  <1>4. ASSUME NEW h \in editing, Computes(h)
        PROVE  StatusRead'
    <2>1. /\ UNCHANGED <<row, status, reviews, outdated>>
          /\ editing' = (editing \ {h}) \cup {Computed(h)}
      BY <1>4 DEF Computes, ComputeEdit, reviewVars
    <2>2. Computed(h).request = h.request
      BY DEF Computed
    <2>3. QED
      BY <2>1, <2>2 DEF StatusRead
  <1>5. ASSUME NEW h \in editing, Edits(h) \/ EditGivesUp(h)
        PROVE  StatusRead'
    <2>1. /\ UNCHANGED <<row, status, reviews>> /\ editing' = editing \ {h}
          /\ outdated' = outdated \ {h.request}
      BY <1>5 DEF Edits, CommitEdit, EditGivesUp, EditFailed, reviewVars
    <2>2. QED
      BY <2>1 DEF RequestsDiffer, StatusRead
  <1>6. CASE UNCHANGED historyVars
    BY <1>6 DEF historyVars, vars, reviewVars, ledgerVars, histories, StatusRead
  <1>7. QED
    BY <1>1, <1>2, <1>3, <1>4, <1>5, <1>6 DEF HistoryNext

\* A transition to which the status is still the one it read prolongs the path.
LEMMA PathGrows ==
  ASSUME ReviewTypeOK, TrailFollowsTable, NEW v \in reviews, CommitTransition(v),
         row = "live", v.move.from = status
  PROVE  TrailFollowsTable'
  <1>1. v.move \in validTransitions
    BY DEF CommitTransition, ReviewTypeOK, Review
  <1>2. /\ status' = v.move.to /\ row' = "live"
        /\ trail' = Append(trail, [actor |-> v.actor, from |-> v.move.to, to |-> v.move.to])
    BY DEF CommitTransition
  <1>3. status = TrailEnd /\ trail \in Seq(Event)
    BY DEF TrailFollowsTable, ReviewTypeOK, TrailEnd
  <1>4. /\ Len(trail') = Len(trail) + 1 /\ DOMAIN trail' = 1..(Len(trail) + 1)
        /\ trail'[Len(trail) + 1].to = v.move.to
        /\ \A i \in 1..Len(trail) : trail'[i] = trail[i]
    BY <1>2, <1>3
  <1>5. ASSUME NEW i \in DOMAIN trail'
        PROVE  \E move \in validTransitions :
                 /\ move.from = IF i - 1 = 0 THEN "draft" ELSE trail'[i - 1].to
                 /\ move.to = trail'[i].to
    <2>1. CASE i = Len(trail) + 1
      <3>1. v.move.from = IF i - 1 = 0 THEN "draft" ELSE trail'[i - 1].to
        BY <1>3, <1>4, <2>1 DEF TrailEnd
      <3>2. QED
        BY <1>1, <1>4, <2>1, <3>1
    <2>2. CASE i \in 1..Len(trail)
      <3>1. PICK move \in validTransitions :
              /\ move.from = IF i - 1 = 0 THEN "draft" ELSE trail[i - 1].to
              /\ move.to = trail[i].to
        BY <1>3, <2>2 DEF TrailFollowsTable
      <3>2. i - 1 # 0 => trail'[i - 1] = trail[i - 1]
        BY <1>3, <1>4, <2>2
      <3>3. QED
        BY <1>4, <2>2, <3>1, <3>2
    <2>3. QED
      BY <1>3, <1>4, <1>5, <2>1, <2>2
  <1>6. QED
    BY <1>2, <1>3, <1>4, <1>5 DEF TrailFollowsTable

\* StrayInv is kept by every step of the ledger.
LEMMA StrayInvariant == HistorySpec => []StrayInv
  <1>1. HistoryInit => StrayInv
    BY DEF HistoryInit, LedgerInit, ReviewInit, StrayInv, StatusRead, TrailFollowsTable,
           TrailFollowsTableUnlessStrayed, OnlyDraftsDeletedUnlessStrayed, OnlyDraftsDeleted
  <1>2. ReviewTypeOK /\ RequestsDiffer /\ StrayInv /\ [HistoryNext]_historyVars => StrayInv'
    <2> SUFFICES ASSUME ReviewTypeOK, RequestsDiffer, StrayInv, [HistoryNext]_historyVars
                 PROVE  StrayInv'
      OBVIOUS
    <2>1. StatusRead'
      BY StatusReadStep DEF StrayInv
    <2>2. ASSUME ~ strayed'
          PROVE  TrailFollowsTable' /\ OnlyDraftsDeleted'
      <3>1. ~ strayed
        BY <2>2 DEF HistoryNext, historyVars, histories, Reads, Reviews, ReviewGivesUp,
                    Computes, Edits, EditGivesUp
      <3>2. TrailFollowsTable /\ OnlyDraftsDeleted
        BY <3>1 DEF StrayInv, TrailFollowsTableUnlessStrayed, OnlyDraftsDeletedUnlessStrayed
      <3>3. ASSUME NEW v \in reviews, Reviews(v), CommitTransition(v)
            PROVE  TrailFollowsTable' /\ OnlyDraftsDeleted'
        <4>1. row = "live" /\ v.move.from = status
          BY <2>2, <3>3 DEF Reviews, StrayInv, StatusRead, CommitTransition
        <4>2. row' = "live"
          BY <3>3, <4>1 DEF CommitTransition
        <4>3. QED
          BY <3>2, <3>3, <4>1, <4>2, PathGrows DEF OnlyDraftsDeleted
      <3>4. ASSUME NEW v \in reviews, Reviews(v), CommitDelete(v)
            PROVE  TrailFollowsTable' /\ OnlyDraftsDeleted'
        <4>1. row = "live" /\ status = "draft"
          BY <2>2, <3>4 DEF Reviews, StrayInv, StatusRead, CommitDelete
        <4>2. trail = <<>>
          BY <3>2, <4>1, DraftHasNoTrail
        <4>3. row' = "deleted" /\ status' = "draft" /\ trail' = <<>>
          BY <3>4, <4>1, <4>2 DEF CommitDelete
        <4>4. QED
          BY <4>3 DEF OnlyDraftsDeleted, TrailFollowsTable
      <3>5. CASE UNCHANGED <<row, status, trail>>
        BY <3>2, <3>5 DEF OnlyDraftsDeleted, TrailFollowsTable
      <3>6. QED
        BY <3>3, <3>4, <3>5
           DEF HistoryNext, historyVars, vars, reviewVars, Reads, BeginReview, Transition,
               Delete, Enter, BeginEdit, Reviews, ReviewGivesUp, ReviewFailed, Computes,
               ComputeEdit, Edits, CommitEdit, EditGivesUp, EditFailed
    <2>3. QED
      BY <2>1, <2>2 DEF StrayInv, TrailFollowsTableUnlessStrayed,
                        OnlyDraftsDeletedUnlessStrayed
  <1>3. QED
    BY <1>1, <1>2, HistoryReviewType, RequestsDifferInvariant, PTL DEF HistorySpec

(***************************************************************************)
(* Whatever transitions, deletions and edits overlap: until an outdated    *)
(* transition or deletion is committed, the targets in the trail form a    *)
(* path of validTransitions that ends in the status.                       *)
(***************************************************************************)
THEOREM TrailIsAPath == HistorySpec => []TrailFollowsTableUnlessStrayed
  <1>1. StrayInv => TrailFollowsTableUnlessStrayed
    BY DEF StrayInv
  <1>2. QED
    BY <1>1, StrayInvariant, PTL

(***************************************************************************)
(* Under the same condition only drafts that were never submitted are      *)
(* deleted, and a deleted statement stays one.                             *)
(***************************************************************************)
THEOREM OnlyDraftsAreDeleted == HistorySpec => []OnlyDraftsDeletedUnlessStrayed
  <1>1. StrayInv => OnlyDraftsDeletedUnlessStrayed
    BY DEF StrayInv
  <1>2. QED
    BY <1>1, StrayInvariant, PTL

\* No move starts in approved or rejected.
LEMMA NoMoveAfterDecision ==
  ASSUME NEW move \in validTransitions
  PROVE  move.from \notin {"approved", "rejected"}
  BY DEF validTransitions, Move

(***************************************************************************)
(* Whatever overlaps, an approval or a rejection is taken back by nothing  *)
(* but a transition that had read the statement before it.                 *)
(***************************************************************************)
THEOREM DecisionsAreFinal == HistorySpec => DecisionIsFinalUnlessRaced
  <1>1. ASSUME ReviewTypeOK, StrayInv, [HistoryNext]_historyVars,
               status \in {"approved", "rejected"}, status' # status
        PROVE  \E v \in reviews \ reviews' : v.request \in outdated
    <2>1. PICK v \in reviews : Reviews(v) /\ CommitTransition(v)
      BY <1>1 DEF HistoryNext, historyVars, vars, reviewVars, Reads, BeginReview, Transition,
                  Delete, Enter, BeginEdit, Reviews, CommitDelete, ReviewGivesUp, ReviewFailed,
                  Computes, ComputeEdit, Edits, CommitEdit, EditGivesUp, EditFailed
    <2>2. v \notin reviews' /\ v.kind = "transition" /\ v.move \in validTransitions
      BY <1>1, <2>1 DEF CommitTransition, ReviewTypeOK, Review
    <2>3. v.move.from # status
      BY <1>1, <2>2, NoMoveAfterDecision
    <2>4. v.request \in outdated
      BY <1>1, <2>2, <2>3 DEF StrayInv, StatusRead
    <2>5. QED
      BY <2>2, <2>4
  <1>2. ReviewTypeOK /\ StrayInv /\ [HistoryNext]_historyVars
          => [(status \in {"approved", "rejected"} /\ status' # status) =>
                 \E v \in reviews \ reviews' : v.request \in outdated]_historyVars
    BY <1>1
  <1>3. QED
    BY <1>2, StrayInvariant, HistoryReviewType, PTL
       DEF HistorySpec, DecisionIsFinalUnlessRaced

(***************************************************************************)
(* Whatever overlaps, the items and amounts of a submitted statement are   *)
(* changed by nothing but an edit that had found a draft before the        *)
(* submission was committed.                                               *)
(***************************************************************************)
THEOREM SubmittedStaysFrozen == HistorySpec => SubmittedIsFrozenUnlessRaced
  <1>1. ASSUME StrayInv, [HistoryNext]_historyVars, status # "draft", itemVars' # itemVars
        PROVE  \E h \in editing \ editing' : h.request \in outdated
    <2>1. PICK h \in editing : Edits(h)
      BY <1>1 DEF HistoryNext, historyVars, vars, ledgerVars, Reads, BeginEdit, Reviews,
                  ReviewGivesUp, Computes, ComputeEdit, EditGivesUp, EditFailed
    <2>2. h \notin editing' /\ h.request \in outdated
      BY <1>1, <2>1 DEF Edits, CommitEdit, StrayInv, StatusRead
    <2>3. QED
      BY <2>2
  <1>2. StrayInv /\ [HistoryNext]_historyVars
          => [(status # "draft" /\ itemVars' # itemVars) =>
                 \E h \in editing \ editing' : h.request \in outdated]_historyVars
    BY <1>1
  <1>3. QED
    BY <1>2, StrayInvariant, PTL DEF HistorySpec, SubmittedIsFrozenUnlessRaced

-----------------------------------------------------------------------------
(***************************************************************************)
(* Sums over the items, and the aggregates made of them.                   *)
(***************************************************************************)
LEMMA AmountsAreIntegers == \A a \in Amounts : a \in Int
  BY LedgerInputs, Zenon

\* The live rows among finitely many have a sum.
LEMMA RowsHaveASum ==
  ASSUME NEW D, IsFiniteSet(D), NEW rows \in [D -> Row]
  PROVE  SumOf(rows) \in Int
  <1> DEFINE live == {k \in DOMAIN rows : rows[k].state = "live"}
             amount == [k \in DOMAIN rows |-> rows[k].amount]
  <1>1. IsFiniteSet(live)
    <2>1. live \in SUBSET D
      OBVIOUS
    <2> QED
      BY <2>1, FS_Subset
  <1>2. \A k \in live : amount[k] \in Int
    BY AmountsAreIntegers DEF Row
  <1>3. SumFunctionOnSet(amount, live) \in Int
    <2> HIDE DEF live, amount
    <2> QED
      BY <1>1, <1>2, SumInt
  <1> QED
    BY <1>3 DEF SumOf

\* So have the amounts of a list of works done.
LEMMA WorksHaveASum ==
  ASSUME NEW items \in Seq(Amounts)
  PROVE  SumFunction(items) \in Int
  <1>1. IsFiniteSet(DOMAIN items)
    <2>1. DOMAIN items = 1..Len(items) /\ Len(items) \in Nat
      OBVIOUS
    <2> QED
      BY <2>1, FS_Interval
  <1>2. \A i \in DOMAIN items : items[i] \in Int
    BY AmountsAreIntegers
  <1>3. SumFunctionOnSet(items, DOMAIN items) \in Int
    BY <1>1, <1>2, SumInt
  <1> QED
    BY <1>3 DEF SumFunction

\* The sums over the items as they are.
LEMMA SumsNowType ==
  ASSUME LedgerTypeOK
  PROVE  SumsNow \in Sums
  <1>1. SumFunction(works) \in Int
    BY WorksHaveASum DEF LedgerTypeOK
  <1>2. SumOf(extras) \in Int /\ SumOf(deductions) \in Int
    BY LedgerInputs, RowsHaveASum DEF LedgerTypeOK
  <1> QED
    BY <1>1, <1>2 DEF SumsNow, Sums

\* The sums that an edit makes of sums.
LEMMA SumsAfterType ==
  ASSUME LedgerTypeOK, NEW e \in Edit, NEW s \in Sums
  PROVE  SumsAfter(e, s) \in Sums
  <1>1. CASE e.kind = "SetWorksDone"
    <2>1. e.items \in Seq(Amounts)
      BY <1>1, LedgerInputs DEF Edit, SetWorksDone, AddExtraWork, DeleteExtraWork,
                                AddDeduction, UpdateDeduction, DeleteDeduction
    <2> QED
      BY <1>1, <2>1, WorksHaveASum DEF SumsAfter, Sums
  <1>2. CASE e.kind \in {"AddExtraWork", "AddDeduction"}
    <2>1. e.amount \in Int
      BY <1>2, AmountsAreIntegers DEF Edit, SetWorksDone, AddExtraWork, DeleteExtraWork,
                                AddDeduction, UpdateDeduction, DeleteDeduction
    <2> QED
      BY <1>2, <2>1 DEF SumsAfter, Sums
  <1>3. CASE e.kind = "DeleteExtraWork"
    <2>1. [extras EXCEPT ![e.line].state = "deleted"] \in [Lines -> Row]
      BY DEF LedgerTypeOK, Row
    <2>2. SumOf([extras EXCEPT ![e.line].state = "deleted"]) \in Int
      BY <2>1, RowsHaveASum, LedgerInputs
    <2> QED
      BY <1>3, <2>2 DEF SumsAfter, Sums
  <1>4. CASE e.kind = "UpdateDeduction"
    <2>1. e.amount \in Amounts
      BY <1>4 DEF Edit, SetWorksDone, AddExtraWork, DeleteExtraWork,
                  AddDeduction, UpdateDeduction, DeleteDeduction
    <2>2. [deductions EXCEPT ![e.deduction] = [state |-> "live", amount |-> e.amount]]
            \in [Deductions -> Row]
      BY <2>1 DEF LedgerTypeOK, Row
    <2>3. SumOf([deductions EXCEPT ![e.deduction] =
                   [state |-> "live", amount |-> e.amount]]) \in Int
      BY <2>2, RowsHaveASum, LedgerInputs
    <2> QED
      BY <1>4, <2>3 DEF SumsAfter, Sums
  <1>5. CASE e.kind = "DeleteDeduction"
    <2>1. [deductions EXCEPT ![e.deduction].state = "deleted"] \in [Deductions -> Row]
      BY DEF LedgerTypeOK, Row
    <2>2. SumOf([deductions EXCEPT ![e.deduction].state = "deleted"]) \in Int
      BY <2>1, RowsHaveASum, LedgerInputs
    <2> QED
      BY <1>5, <2>2 DEF SumsAfter, Sums
  <1> QED
    BY <1>1, <1>2, <1>3, <1>4, <1>5
       DEF Edit, SetWorksDone, AddExtraWork, DeleteExtraWork,
           AddDeduction, UpdateDeduction, DeleteDeduction

\* An amount at a rate is an amount.
LEMMA BpsType == \A amount, rate \in Int : Bps(amount, rate) \in Int
  BY DEF Bps

\* Whatever the sums and the rates, Recompute yields the aggregates; and the
\* cached sums among them are the sums it was given.
LEMMA RecomputeFromSums ==
  ASSUME NEW s \in Sums, NEW advance \in Int
  PROVE  /\ Recompute(s, advance) \in [DOMAIN NoAggregates -> Int]
         /\ Recompute(s, advance).extra = s.extra
         /\ Recompute(s, advance).deduction = s.deduction
         /\ Contract.managementFee = 0 => Recompute(s, advance).gross = s.works
  <1> DEFINE gross == IF Contract.managementFee > 0
                        THEN Bps(s.extra, Contract.managementFee) ELSE s.works
             total == gross + s.extra
             retention == Bps(total, Contract.retention)
             stored == [gross          |-> gross,
                        extra          |-> s.extra,
                        deduction      |-> s.deduction,
                        retention      |-> retention,
                        advance        |-> Least(Bps(total, Contract.advance), advance),
                        vat            |-> Bps(total - retention, Contract.vat),
                        socialSecurity |-> Bps(total, Contract.socialSecurity),
                        progress       |-> IF Contract.grossBudget > 0
                                             THEN (total * 100) \div Contract.grossBudget
                                             ELSE 0]
  <1>1. Recompute(s, advance) = [f \in DOMAIN stored \cup {"net"} |->
                                   IF f = "net" THEN NetOf(stored) ELSE stored[f]]
    BY DEF Recompute
  <1>2. DOMAIN stored \cup {"net"} = DOMAIN NoAggregates
    BY DEF NoAggregates
  <1>3. /\ s.works \in Int /\ s.extra \in Int /\ s.deduction \in Int
        /\ Contract.retention \in Int /\ Contract.advance \in Int /\ Contract.vat \in Int
        /\ Contract.socialSecurity \in Int /\ Contract.managementFee \in Int
        /\ Contract.grossBudget \in Nat
    <2>1. \A r \in Rate : r \in Int
      BY DEF Rate
    <2> QED
      BY <2>1, ContractRates DEF Sums
  <1>4. gross \in Int /\ (Contract.managementFee = 0 => gross = s.works)
    <2>1. Bps(s.extra, Contract.managementFee) \in Int
      BY <1>3, BpsType, Zenon
    <2> QED
      BY <1>3, <2>1
  <1> HIDE DEF gross
  <1>5. total \in Int
    BY <1>3, <1>4
  <1> HIDE DEF total
  <1>6. retention \in Int
    BY <1>3, <1>5, BpsType
  <1> HIDE DEF retention
  <1>7. /\ Bps(total, Contract.advance) \in Int
        /\ Bps(total - retention, Contract.vat) \in Int
        /\ Bps(total, Contract.socialSecurity) \in Int
    <2>1. total - retention \in Int
      BY <1>5, <1>6
    <2> QED
      BY <1>3, <1>5, <2>1, BpsType, Zenon
  <1>8. Least(Bps(total, Contract.advance), advance) \in Int
    BY <1>7 DEF Least
  <1>9. (IF Contract.grossBudget > 0 THEN (total * 100) \div Contract.grossBudget ELSE 0) \in Int
    BY <1>3, <1>5
  <1>10. \A f \in DOMAIN stored : stored[f] \in Int
    BY <1>3, <1>4, <1>6, <1>7, <1>8, <1>9
  <1>11. NetOf(stored) \in Int
    BY <1>3, <1>4, <1>6, <1>7, <1>8 DEF NetOf
  <1>12. /\ DOMAIN Recompute(s, advance) = DOMAIN NoAggregates
         /\ \A f \in DOMAIN NoAggregates : Recompute(s, advance)[f] =
               IF f = "net" THEN NetOf(stored) ELSE stored[f]
         /\ \A f \in DOMAIN NoAggregates : f = "net" \/ f \in DOMAIN stored
    BY <1>1, <1>2
  <1>13. Recompute(s, advance) \in [DOMAIN NoAggregates -> Int]
    BY <1>1, <1>2, <1>10, <1>11, <1>12
  <1>14. {"gross", "extra", "deduction"} \subseteq DOMAIN NoAggregates
    BY DEF NoAggregates
  <1>15. stored.gross = gross /\ stored.extra = s.extra /\ stored.deduction = s.deduction
    OBVIOUS
  <1> QED
    BY <1>4, <1>12, <1>13, <1>14, <1>15

\* The state of an edit in flight, and what each of its steps makes of it.
EditOK(h) ==
  /\ h.request \in Requests
  /\ h.edit \in Edit
  /\ h.step \in {"begun", "computed"}
  /\ h.sums \in Sums
  /\ h.line \in Lines \cup {0}
  /\ h.result \in [DOMAIN NoAggregates -> Int]

LEMMA BegunType ==
  ASSUME LedgerTypeOK, NEW r \in Requests, NEW e \in Edit
  PROVE  EditOK(Begun(r, e))
  <1>1. NoAggregates \in [DOMAIN NoAggregates -> Int]
    BY DEF NoAggregates
  <1> QED
    BY <1>1, SumsNowType DEF EditOK, Begun

LEMMA ComputedType ==
  ASSUME LedgerTypeOK, NEW h \in editing, LineFor(h) \in Lines \cup {0}
  PROVE  EditOK(Computed(h))
  <1>1. h.edit \in Edit /\ h.sums \in Sums /\ h.request \in Requests
    BY DEF LedgerTypeOK
  <1>2. SumsFor(h) \in Sums
    BY <1>1, SumsNowType, SumsAfterType DEF SumsFor
  <1>3. AdvanceSeenBy(h.edit) \in Int
    BY LedgerInputs DEF AdvanceSeenBy
  <1>4. Recompute(SumsFor(h), AdvanceSeenBy(h.edit)) \in [DOMAIN NoAggregates -> Int]
    BY <1>2, <1>3, RecomputeFromSums
  <1> QED
    BY <1>1, <1>2, <1>4 DEF EditOK, Computed

\* What a commit writes, by the kind of its edit.
LiveRow(amount) == [state |-> "live", amount |-> amount]

LEMMA SetWorksDoneWrites ==
  ASSUME NEW h, h.edit.kind = "SetWorksDone", WriteItems(h)
  PROVE  /\ works' = h.edit.items
         /\ worksLines' = IF h.edit.items = <<>> THEN worksLines ELSE Len(h.edit.items)
         /\ extras' = extras /\ deductions' = deductions
  BY DEF WriteItems

LEMMA AddExtraWorkWrites ==
  ASSUME NEW h, h.edit.kind = "AddExtraWork", WriteItems(h)
  PROVE  /\ extras' = [extras EXCEPT ![h.line] = LiveRow(h.edit.amount)]
         /\ works' = works /\ worksLines' = worksLines /\ deductions' = deductions
  BY DEF WriteItems, LiveRow

LEMMA DeleteExtraWorkWrites ==
  ASSUME NEW h, h.edit.kind = "DeleteExtraWork", WriteItems(h)
  PROVE  /\ extras' = [extras EXCEPT ![h.edit.line].state = "deleted"]
         /\ works' = works /\ worksLines' = worksLines /\ deductions' = deductions
  BY DEF WriteItems

LEMMA SaveDeductionWrites ==
  ASSUME NEW h, h.edit.kind \in {"AddDeduction", "UpdateDeduction"}, WriteItems(h)
  PROVE  /\ deductions' = [deductions EXCEPT ![h.edit.deduction] = LiveRow(h.edit.amount)]
         /\ works' = works /\ worksLines' = worksLines /\ extras' = extras
  BY DEF WriteItems, LiveRow

LEMMA DeleteDeductionWrites ==
  ASSUME NEW h, h.edit.kind = "DeleteDeduction", WriteItems(h)
  PROVE  /\ deductions' = [deductions EXCEPT ![h.edit.deduction].state = "deleted"]
         /\ works' = works /\ worksLines' = worksLines /\ extras' = extras
  BY DEF WriteItems

\* The items that a commit leaves behind have their types.
LEMMA WrittenType ==
  ASSUME LedgerTypeOK, NEW h \in editing, WriteItems(h)
  PROVE  /\ works' \in Seq(Amounts)
         /\ worksLines' \in Nat
         /\ extras' \in [Lines -> Row]
         /\ deductions' \in [Deductions -> Row]
  <1>1. h.edit \in Edit
    BY DEF LedgerTypeOK
  <1>2. CASE h.edit.kind = "SetWorksDone"
    <2>1. h.edit.items \in Seq(Amounts)
      BY <1>1, <1>2, LedgerInputs DEF Edit, SetWorksDone, AddExtraWork, DeleteExtraWork,
                                      AddDeduction, UpdateDeduction, DeleteDeduction
    <2> QED
      BY <1>2, <2>1, SetWorksDoneWrites DEF LedgerTypeOK
  <1>3. CASE h.edit.kind = "AddExtraWork"
    <2>1. LiveRow(h.edit.amount) \in Row
      BY <1>1, <1>3 DEF LiveRow, Row, Edit, SetWorksDone, AddExtraWork, DeleteExtraWork,
                        AddDeduction, UpdateDeduction, DeleteDeduction
    <2>2. [extras EXCEPT ![h.line] = LiveRow(h.edit.amount)] \in [Lines -> Row]
      BY <2>1 DEF LedgerTypeOK
    <2> QED
      BY <1>3, <2>2, AddExtraWorkWrites DEF LedgerTypeOK
  <1>4. CASE h.edit.kind = "DeleteExtraWork"
    <2>1. [extras EXCEPT ![h.edit.line].state = "deleted"] \in [Lines -> Row]
      BY DEF LedgerTypeOK, Row
    <2> QED
      BY <1>4, <2>1, DeleteExtraWorkWrites DEF LedgerTypeOK
  <1>5. CASE h.edit.kind \in {"AddDeduction", "UpdateDeduction"}
    <2>1. LiveRow(h.edit.amount) \in Row
      BY <1>1, <1>5 DEF LiveRow, Row, Edit, SetWorksDone, AddExtraWork, DeleteExtraWork,
                        AddDeduction, UpdateDeduction, DeleteDeduction
    <2>2. [deductions EXCEPT ![h.edit.deduction] = LiveRow(h.edit.amount)] \in [Deductions -> Row]
      BY <2>1 DEF LedgerTypeOK
    <2> QED
      BY <1>5, <2>2, SaveDeductionWrites DEF LedgerTypeOK
  <1>6. CASE h.edit.kind = "DeleteDeduction"
    <2>1. [deductions EXCEPT ![h.edit.deduction].state = "deleted"] \in [Deductions -> Row]
      BY DEF LedgerTypeOK, Row
    <2> QED
      BY <1>6, <2>1, DeleteDeductionWrites DEF LedgerTypeOK
  <1> QED
    BY <1>1, <1>2, <1>3, <1>4, <1>5, <1>6
       DEF Edit, SetWorksDone, AddExtraWork, DeleteExtraWork,
           AddDeduction, UpdateDeduction, DeleteDeduction

(***************************************************************************)
(* However many requests overlap, items, aggregates and edits in flight    *)
(* keep their types: Recompute is defined for whatever the items sum to.   *)
(***************************************************************************)
THEOREM LedgerTypeCorrect == LedgerSpec => []LedgerTypeOK
  <1>1. LedgerInit /\ ReviewTypeOK => LedgerTypeOK
    <2> SUFFICES ASSUME LedgerInit, ReviewTypeOK PROVE LedgerTypeOK
      OBVIOUS
    <2>1. works \in Seq(Amounts) /\ worksLines \in Nat /\ editing = {}
      BY DEF LedgerInit
    <2>2. extras \in [Lines -> Row] /\ deductions \in [Deductions -> Row]
      BY DEF LedgerInit, Row, NoRow
    <2>3. agg \in [DOMAIN NoAggregates -> Int]
      BY DEF LedgerInit, NoAggregates
    <2> QED
      BY <2>1, <2>2, <2>3 DEF LedgerTypeOK
  <1>2. LedgerTypeOK /\ ReviewTypeOK' /\ [LedgerNext]_vars => LedgerTypeOK'
    <2> SUFFICES ASSUME LedgerTypeOK, ReviewTypeOK', [LedgerNext]_vars
                 PROVE  LedgerTypeOK'
      OBVIOUS
    <2>1. \A h \in editing : EditOK(h)
      BY DEF LedgerTypeOK, EditOK
    <2>2. CASE UNCHANGED ledgerVars
      BY <2>2 DEF ledgerVars, itemVars, LedgerTypeOK
    <2>3. ASSUME NEW r \in Requests, NEW e \in Edit, BeginEdit(r, e)
          PROVE  LedgerTypeOK'
      <3>1. EditOK(Begun(r, e))
        BY BegunType
      <3>2. \A h \in editing' : EditOK(h)
        BY <2>1, <2>3, <3>1 DEF BeginEdit
      <3> QED
        BY <2>3, <3>2 DEF BeginEdit, itemVars, LedgerTypeOK, EditOK
    <2>4. ASSUME NEW h \in editing, ComputeEdit(h)
          PROVE  LedgerTypeOK'
      <3>1. EditOK(Computed(h))
        BY <2>4, ComputedType DEF ComputeEdit
      <3>2. \A g \in editing' : EditOK(g)
        BY <2>1, <2>4, <3>1 DEF ComputeEdit
      <3> QED
        BY <2>4, <3>2 DEF ComputeEdit, itemVars, LedgerTypeOK, EditOK
    <2>5. ASSUME NEW h \in editing, CommitEdit(h)
          PROVE  LedgerTypeOK'
      <3>1. /\ works' \in Seq(Amounts)
            /\ worksLines' \in Nat
            /\ extras' \in [Lines -> Row]
            /\ deductions' \in [Deductions -> Row]
        BY <2>5, WrittenType DEF CommitEdit
      <3>2. agg' \in [DOMAIN NoAggregates -> Int]
        <4>1. agg \in [DOMAIN NoAggregates -> Int] /\ h.result \in [DOMAIN NoAggregates -> Int]
          BY DEF LedgerTypeOK
        <4> QED
          BY <2>5, <4>1 DEF CommitEdit, Saved
      <3>3. \A g \in editing' : EditOK(g)
        BY <2>1, <2>5 DEF CommitEdit
      <3> QED
        BY <3>1, <3>2, <3>3 DEF LedgerTypeOK, EditOK
    <2>6. ASSUME NEW h \in editing, EditFailed(h)
          PROVE  LedgerTypeOK'
      BY <2>6 DEF EditFailed, itemVars, LedgerTypeOK
    <2> QED
      BY <2>2, <2>3, <2>4, <2>5, <2>6 DEF LedgerNext, ReviewStep, vars
  <1>3. LedgerSpec => []ReviewTypeOK
    BY LedgerImplementsReview, ReviewTypeCorrect, PTL DEF ImplementsReview
  <1> QED
    BY <1>1, <1>2, <1>3, PTL DEF LedgerSpec

-----------------------------------------------------------------------------
(***************************************************************************)
(* The cached sums.  An edit that no other overtook recomputes from the    *)
(* items as they are; and the change counted in is the change that the     *)
(* commit makes: the line of a new extra work is free, or the commit is    *)
(* refused, and the key of a new deduction is.                             *)
(***************************************************************************)
KeysHeld ==
  /\ \A h \in editing :
       /\ h.edit.kind = "AddDeduction" =>
            /\ h.edit.deduction \in Deductions
            /\ deductions[h.edit.deduction].state = "absent"
       /\ h.edit.kind \in {"UpdateDeduction", "DeleteDeduction"} =>
            deductions[h.edit.deduction].state # "absent"
       /\ h.step = "computed" /\ h.edit.kind = "AddExtraWork" => h.line \in Lines
  /\ \A h, g \in editing :
       h.edit.kind = "AddDeduction" /\ g.edit.kind = "AddDeduction"
         /\ h.edit.deduction = g.edit.deduction => h.request = g.request

ResultIsCurrent(h) ==
  h.result = Recompute(SumsAfter(h.edit, SumsNow), AdvanceSeenBy(h.edit))

ItemsRead ==
  \A h \in editing :
    h.request \notin overtaken =>
      /\ h.step = "begun" /\ Preloads(h.edit) => h.sums = SumsNow
      /\ h.step = "computed" => ResultIsCurrent(h)

DriftInv == KeysHeld /\ ItemsRead /\ SumsAreCurrentUnlessDrifted

\* A row that comes to life adds its amount to the sum.
LEMMA NewRowAddsItsAmount ==
  ASSUME NEW D, IsFiniteSet(D), NEW rows \in [D -> Row], NEW n \in D,
         rows[n].state = "absent", NEW a \in Amounts
  PROVE  SumOf([rows EXCEPT ![n] = LiveRow(a)]) = SumOf(rows) + a
  <1> DEFINE new == [rows EXCEPT ![n] = LiveRow(a)]
             live == {k \in D : rows[k].state = "live"}
             old == [k \in D |-> rows[k].amount]
             amount == [k \in D |-> new[k].amount]
  <1>1. {k \in D : new[k].state = "live"} = live \cup {n} /\ n \notin live
    BY DEF LiveRow
  <1>2. IsFiniteSet(live)
    <2>1. live \in SUBSET D
      OBVIOUS
    <2> QED
      BY <2>1, FS_Subset
  <1>3. \A k \in live : old[k] = amount[k]
    OBVIOUS
  <1>4. amount[n] = a
    BY DEF LiveRow
  <1>5. \A k \in live \cup {n} : amount[k] \in Int
    BY <1>3, <1>4, AmountsAreIntegers DEF Row
  <1>6. SumOf(rows) = SumFunctionOnSet(old, live)
    BY DEF SumOf
  <1>7. SumOf(new) = SumFunctionOnSet(amount, live \cup {n})
    BY <1>1 DEF SumOf
  <1> HIDE DEF new, live, old, amount
  <1>8. SumFunctionOnSet(amount, live \cup {n}) = SumFunctionOnSet(amount, live) + a
    BY <1>1, <1>2, <1>4, <1>5, SumAdd
  <1>9. SumFunctionOnSet(old, live) = SumFunctionOnSet(amount, live)
    BY <1>2, <1>3, SumSame
  <1> QED
    BY <1>6, <1>7, <1>8, <1>9 DEF new

\* A new extra work never takes line 0.
LEMMA NewLineIsPositive ==
  ASSUME NEW h, h.edit.kind = "AddExtraWork", LineFor(h) \in Lines \cup {0}
  PROVE  LineFor(h) \in Lines
  <1> DEFINE taken == LiveLines \cup {0}
  <1>1. IsFiniteSet(taken)
    <2>1. IsFiniteSet(LiveLines)
      BY FS_Subset, LedgerInputs DEF LiveLines
    <2> QED
      BY <2>1, FS_AddElement
  <1>2. \A n \in taken : n \in Int
    <2>1. IsFiniteSet(Lines) /\ Lines = 1..Cardinality(Lines) /\ Cardinality(Lines) \in Nat
      BY LedgerInputs, FS_CardinalityType
    <2>2. \A n \in Lines : n \in Int
      BY <2>1
    <2> QED
      BY <2>2 DEF LiveLines
  <1>3. 0 \in taken
    OBVIOUS
  <1>4. LineFor(h) = Max(taken) + 1
    BY DEF LineFor
  <1> HIDE DEF taken
  <1>5. Max(taken) \in Int /\ Max(taken) >= 0
    BY <1>1, <1>2, <1>3, MaxIsGreatest
  <1> QED
    BY <1>4, <1>5

\* A commit makes of the items what the edit counted in.
LEMMA CommitMakesTheSums ==
  ASSUME LedgerTypeOK, KeysHeld, NEW h \in editing, CommitEdit(h)
  PROVE  SumsNow' = SumsAfter(h.edit, SumsNow)
  <1>1. h.edit \in Edit /\ h.step = "computed" /\ WriteItems(h)
    BY DEF LedgerTypeOK, CommitEdit
  <1>2. CASE h.edit.kind = "SetWorksDone"
    BY <1>1, <1>2, SetWorksDoneWrites DEF SumsNow, SumsAfter
  <1>3. CASE h.edit.kind = "AddExtraWork"
    <2>1. h.edit.amount \in Amounts
      BY <1>1, <1>3 DEF Edit, SetWorksDone, AddExtraWork, DeleteExtraWork,
                        AddDeduction, UpdateDeduction, DeleteDeduction
    <2>2. h.line \in Lines /\ extras[h.line].state = "absent"
      BY <1>1, <1>3 DEF KeysHeld, CommitEdit, Conflicts
    <2>3. extras \in [Lines -> Row] /\ IsFiniteSet(Lines)
      BY LedgerInputs DEF LedgerTypeOK
    <2>4. SumOf([extras EXCEPT ![h.line] = LiveRow(h.edit.amount)])
            = SumOf(extras) + h.edit.amount
      BY <2>1, <2>2, <2>3, NewRowAddsItsAmount
    <2> QED
      BY <1>1, <1>3, <2>4, AddExtraWorkWrites DEF SumsNow, SumsAfter
  <1>4. CASE h.edit.kind = "DeleteExtraWork"
    BY <1>1, <1>4, DeleteExtraWorkWrites DEF SumsNow, SumsAfter
  <1>5. CASE h.edit.kind = "AddDeduction"
    <2>1. h.edit.amount \in Amounts
      BY <1>1, <1>5 DEF Edit, SetWorksDone, AddExtraWork, DeleteExtraWork,
                        AddDeduction, UpdateDeduction, DeleteDeduction
    <2>2. /\ h.edit.deduction \in Deductions
          /\ deductions[h.edit.deduction].state = "absent"
      BY <1>5 DEF KeysHeld
    <2>3. deductions \in [Deductions -> Row] /\ IsFiniteSet(Deductions)
      BY LedgerInputs DEF LedgerTypeOK
    <2>4. SumOf([deductions EXCEPT ![h.edit.deduction] = LiveRow(h.edit.amount)])
            = SumOf(deductions) + h.edit.amount
      BY <2>1, <2>2, <2>3, NewRowAddsItsAmount
    <2> QED
      BY <1>1, <1>5, <2>4, SaveDeductionWrites DEF SumsNow, SumsAfter
  <1>6. CASE h.edit.kind = "UpdateDeduction"
    BY <1>1, <1>6, SaveDeductionWrites DEF SumsNow, SumsAfter, LiveRow
  <1>7. CASE h.edit.kind = "DeleteDeduction"
    BY <1>1, <1>7, DeleteDeductionWrites DEF SumsNow, SumsAfter
  <1> QED
    BY <1>1, <1>2, <1>3, <1>4, <1>5, <1>6, <1>7
       DEF Edit, SetWorksDone, AddExtraWork, DeleteExtraWork,
           AddDeduction, UpdateDeduction, DeleteDeduction

\* The columns a commit does not persist are sums it did not change.
LEMMA CommitKeepsSumsCurrent ==
  ASSUME LedgerTypeOK, KeysHeld, SumsAreCurrent, row = "live",
         NEW h \in editing, CommitEdit(h), ResultIsCurrent(h)
  PROVE  SumsAreCurrent'
  <1> DEFINE after == SumsAfter(h.edit, SumsNow)
  <1>1. row = "live" /\ h.edit \in Edit
    BY DEF LedgerTypeOK
  <1>2. SumsNow \in Sums
    BY SumsNowType
  <1>3. after \in Sums
    BY <1>1, <1>2, SumsAfterType
  <1>4. h.result = Recompute(after, AdvanceSeenBy(h.edit))
    BY DEF ResultIsCurrent
  <1>5. AdvanceSeenBy(h.edit) \in Int
    BY LedgerInputs DEF AdvanceSeenBy
  <1>6. SumsNow' = after
    BY CommitMakesTheSums
  <1>7. /\ h.result.extra = after.extra
        /\ h.result.deduction = after.deduction
        /\ Contract.managementFee = 0 => h.result.gross = after.works
    <2> HIDE DEF after
    <2> QED
      BY <1>3, <1>4, <1>5, RecomputeFromSums
  <1>8. /\ agg.extra = SumsNow.extra
        /\ agg.deduction = SumsNow.deduction
        /\ Contract.managementFee = 0 => agg.gross = SumsNow.works
    BY <1>1 DEF SumsAreCurrent
  <1>9. /\ agg' = [f \in DOMAIN agg |-> IF f \in Persisted(h.edit) THEN h.result[f] ELSE agg[f]]
        /\ {"gross", "extra", "deduction"} \subseteq DOMAIN agg
    BY <1>1 DEF CommitEdit, Saved, LedgerTypeOK, NoAggregates
  <1>10. CASE h.edit.kind = "SetWorksDone"
    <2>1. {"gross", "extra", "deduction"} \subseteq Persisted(h.edit)
      BY <1>10 DEF Persisted, NoAggregates
    <2> HIDE DEF after
    <2> QED
      BY <2>1, <1>6, <1>7, <1>9 DEF SumsAreCurrent
  <1>11. CASE h.edit.kind \in {"AddExtraWork", "DeleteExtraWork"}
    <2>1. Persisted(h.edit) = {"extra", "net"}
      BY <1>11 DEF Persisted
    <2>2. after.works = SumsNow.works /\ after.deduction = SumsNow.deduction
      BY <1>2, <1>11 DEF SumsAfter, Sums
    <2> HIDE DEF after
    <2> QED
      BY <2>1, <2>2, <1>6, <1>7, <1>8, <1>9 DEF SumsAreCurrent
  <1>12. CASE h.edit.kind \in {"AddDeduction", "UpdateDeduction", "DeleteDeduction"}
    <2>1. Persisted(h.edit) = {"deduction", "net"}
      BY <1>12 DEF Persisted
    <2>2. after.works = SumsNow.works /\ after.extra = SumsNow.extra
      BY <1>2, <1>12 DEF SumsAfter, Sums
    <2> HIDE DEF after
    <2> QED
      BY <2>1, <2>2, <1>6, <1>7, <1>8, <1>9 DEF SumsAreCurrent
  <1> QED
    BY <1>1, <1>10, <1>11, <1>12
       DEF Edit, SetWorksDone, AddExtraWork, DeleteExtraWork,
           AddDeduction, UpdateDeduction, DeleteDeduction

\* What is known of an edit that begins.
LEMMA BegunHolds ==
  ASSUME NEW r \in Requests, NEW e \in Edit, BeginEdit(r, e)
  PROVE  /\ Begun(r, e).step = "begun" /\ Begun(r, e).sums = SumsNow
         /\ Begun(r, e).edit = e
         /\ e.kind = "AddDeduction" =>
              /\ e.deduction \in Deductions
              /\ deductions[e.deduction].state = "absent"
              /\ \A g \in editing : g.edit.kind = "AddDeduction" =>
                                      g.edit.deduction # e.deduction
         /\ e.kind \in {"UpdateDeduction", "DeleteDeduction"} =>
              deductions[e.deduction].state # "absent"
  BY DEF Begun, BeginEdit, Found, Edit, SetWorksDone, AddExtraWork, DeleteExtraWork,
         AddDeduction, UpdateDeduction, DeleteDeduction

\* A commit brings no deduction to life that another edit counts as absent, and
\* makes none absent.
LEMMA CommitLeavesKeys ==
  ASSUME LedgerTypeOK, RequestsDiffer, KeysHeld, NEW h \in editing, CommitEdit(h),
         NEW g \in editing, g # h
  PROVE  /\ g.edit.kind = "AddDeduction" =>
              deductions'[g.edit.deduction].state = "absent"
         /\ g.edit.kind \in {"UpdateDeduction", "DeleteDeduction"} =>
              deductions'[g.edit.deduction].state # "absent"
  <1>1. /\ h.edit \in Edit /\ g.edit \in Edit /\ WriteItems(h)
        /\ deductions \in [Deductions -> Row] /\ h.request # g.request
    BY DEF LedgerTypeOK, CommitEdit, RequestsDiffer
  <1>2. g.edit.kind \in {"UpdateDeduction", "DeleteDeduction"} => g.edit.deduction \in Deductions
    BY <1>1 DEF Edit, SetWorksDone, AddExtraWork, DeleteExtraWork,
                AddDeduction, UpdateDeduction, DeleteDeduction
  <1>3. CASE h.edit.kind \in {"SetWorksDone", "AddExtraWork", "DeleteExtraWork"}
    <2>1. deductions' = deductions
      BY <1>1, <1>3, SetWorksDoneWrites, AddExtraWorkWrites, DeleteExtraWorkWrites
    <2>2. QED
      BY <2>1 DEF KeysHeld
  <1>4. CASE h.edit.kind \in {"AddDeduction", "UpdateDeduction"}
    <2>1. deductions' = [deductions EXCEPT ![h.edit.deduction] = LiveRow(h.edit.amount)]
      BY <1>1, <1>4, SaveDeductionWrites
    <2>2. g.edit.kind = "AddDeduction" => g.edit.deduction # h.edit.deduction
      BY <1>1, <1>4 DEF KeysHeld
    <2>3. QED
      BY <1>1, <1>2, <2>1, <2>2 DEF KeysHeld, LiveRow
  <1>5. CASE h.edit.kind = "DeleteDeduction"
    <2>1. deductions' = [deductions EXCEPT ![h.edit.deduction].state = "deleted"]
      BY <1>1, <1>5, DeleteDeductionWrites
    <2>2. g.edit.kind = "AddDeduction" => g.edit.deduction # h.edit.deduction
      BY <1>1, <1>5 DEF KeysHeld
    <2>3. QED
      BY <1>1, <1>2, <2>1, <2>2 DEF KeysHeld, Row
  <1>6. QED
    BY <1>1, <1>3, <1>4, <1>5
       DEF Edit, SetWorksDone, AddExtraWork, DeleteExtraWork,
           AddDeduction, UpdateDeduction, DeleteDeduction

\* KeysHeld is kept by every step of the ledger.
LEMMA KeysHeldStep ==
  ASSUME LedgerTypeOK, RequestsDiffer, KeysHeld, [LedgerNext]_vars
  PROVE  KeysHeld'
  <1>1. ASSUME NEW r \in Requests, NEW e \in Edit, BeginEdit(r, e)
        PROVE  KeysHeld'
    <2>1. editing' = editing \cup {Begun(r, e)} /\ deductions' = deductions
      BY <1>1 DEF BeginEdit, itemVars
    <2>2. QED
      BY <1>1, <2>1, BegunHolds DEF KeysHeld
  <1>2. ASSUME NEW h \in editing, ComputeEdit(h)
        PROVE  KeysHeld'
    <2>1. /\ editing' = (editing \ {h}) \cup {Computed(h)} /\ deductions' = deductions
      BY <1>2 DEF ComputeEdit, itemVars
    <2>2. /\ Computed(h).edit = h.edit /\ Computed(h).request = h.request
          /\ Computed(h).line = LineFor(h)
      BY DEF Computed
    <2>3. h.edit.kind = "AddExtraWork" => LineFor(h) \in Lines
      BY <1>2, NewLineIsPositive DEF ComputeEdit
    <2>4. QED
      BY <2>1, <2>2, <2>3 DEF KeysHeld
  <1>3. ASSUME NEW h \in editing, CommitEdit(h)
        PROVE  KeysHeld'
    <2>1. editing' = editing \ {h}
      BY <1>3 DEF CommitEdit
    <2>2. ASSUME NEW g \in editing'
          PROVE  /\ g.edit.kind = "AddDeduction" =>
                      /\ g.edit.deduction \in Deductions
                      /\ deductions'[g.edit.deduction].state = "absent"
                 /\ g.edit.kind \in {"UpdateDeduction", "DeleteDeduction"} =>
                      deductions'[g.edit.deduction].state # "absent"
                 /\ g.step = "computed" /\ g.edit.kind = "AddExtraWork" => g.line \in Lines
      <3>1. g \in editing /\ g # h
        BY <2>1
      <3>2. QED
        BY <1>3, <3>1, CommitLeavesKeys DEF KeysHeld
    <2>3. QED
      BY <2>1, <2>2 DEF KeysHeld
  <1>4. ASSUME editing' \subseteq editing, deductions' = deductions
        PROVE  KeysHeld'
    BY <1>4 DEF KeysHeld
  <1>5. QED
    BY <1>1, <1>2, <1>3, <1>4
       DEF LedgerNext, ReviewStep, vars, ledgerVars, itemVars, EditFailed

\* What the edits in flight read stays so as long as the items do.
LEMMA ItemsKept ==
  ASSUME UNCHANGED itemVars
  PROVE  /\ SumsNow' = SumsNow
         /\ \A e : SumsAfter(e, SumsNow)' = SumsAfter(e, SumsNow)
  <1>1. SumsNow' = SumsNow
    BY DEF itemVars, SumsNow
  <1>2. QED
    BY <1>1 DEF itemVars, SumsAfter

\* ItemsRead is kept by every step: a commit of an edit overtakes the others.
LEMMA ItemsReadStep ==
  ASSUME LedgerTypeOK, RequestsDiffer, ItemsRead, [HistoryNext]_historyVars
  PROVE  ItemsRead'
  <1>0. ASSUME UNCHANGED itemVars, NEW h \in editing, h.request \notin overtaken
        PROVE  /\ h.step = "begun" /\ Preloads(h.edit) => h.sums = SumsNow'
               /\ h.step = "computed" => ResultIsCurrent(h)'
    BY <1>0, ItemsKept DEF ItemsRead, ResultIsCurrent
  <1>1. ASSUME NEW r \in Requests, Reads(r)
        PROVE  ItemsRead'
    <2>1. UNCHANGED itemVars /\ overtaken' = overtaken
      BY <1>1 DEF Reads, ledgerVars, BeginEdit, histories
    <2>2. ASSUME NEW h \in editing'
          PROVE  h \in editing \/ (h.step = "begun" /\ h.sums = SumsNow)
      BY <1>1, BegunHolds DEF Reads, ledgerVars, BeginEdit
    <2>3. QED
      BY <1>0, <2>1, <2>2, ItemsKept DEF ItemsRead
  <1>2. ASSUME UNCHANGED <<itemVars, overtaken>>, editing' = editing
        PROVE  ItemsRead'
    BY <1>0, <1>2 DEF ItemsRead
  <1>3. ASSUME NEW h \in editing, Computes(h)
        PROVE  ItemsRead'
    <2>1. /\ UNCHANGED itemVars /\ h.step = "begun"
          /\ editing' = (editing \ {h}) \cup {Computed(h)}
          /\ overtaken' = IF Preloads(h.edit) THEN overtaken ELSE overtaken \ {h.request}
      BY <1>3 DEF Computes, ComputeEdit
    <2>2. /\ Computed(h).edit = h.edit /\ Computed(h).request = h.request
          /\ Computed(h).step = "computed"
          /\ Computed(h).result = Recompute(SumsFor(h), AdvanceSeenBy(h.edit))
      BY DEF Computed
    <2>0. PICK c : c = Computed(h)
      OBVIOUS
    <2>3. ASSUME h.request \notin overtaken'
          PROVE  ResultIsCurrent(c)'
      <3>1. SumsFor(h) = SumsAfter(h.edit, SumsNow)
        BY <2>1, <2>3 DEF SumsFor, ItemsRead
      <3>2. ResultIsCurrent(c)
        BY <2>0, <2>2, <3>1 DEF ResultIsCurrent
      <3>3. QED
        BY <2>1, <3>2, ItemsKept DEF ResultIsCurrent
    <2>4. ASSUME NEW g \in editing, g # h, g.request \notin overtaken'
          PROVE  g.request \notin overtaken
      BY <2>1, <2>4 DEF RequestsDiffer
    <2>5. editing' = (editing \ {h}) \cup {c} /\ c.step = "computed" /\ c.request = h.request
      BY <2>0, <2>1, <2>2
    <2>6. QED
      BY <1>0, <2>1, <2>3, <2>4, <2>5 DEF ItemsRead
  <1>4. ASSUME NEW h \in editing, Edits(h)
        PROVE  ItemsRead'
    <2>1. editing' = editing \ {h} /\ overtaken' = Editors \ {h.request}
      BY <1>4 DEF Edits, CommitEdit
    <2>2. \A g \in editing' : g.request \in overtaken'
      BY <2>1 DEF RequestsDiffer, Editors
    <2>3. QED
      BY <2>2 DEF ItemsRead
  <1>5. ASSUME NEW h \in editing, EditGivesUp(h)
        PROVE  ItemsRead'
    <2>1. /\ UNCHANGED itemVars /\ editing' = editing \ {h}
          /\ overtaken' = overtaken \ {h.request}
      BY <1>5 DEF EditGivesUp, EditFailed
    <2>2. ASSUME NEW g \in editing', g.request \notin overtaken'
          PROVE  g \in editing /\ g.request \notin overtaken
      BY <2>1, <2>2 DEF RequestsDiffer
    <2>3. QED
      BY <1>0, <2>1, <2>2 DEF ItemsRead
  <1>6. QED
    BY <1>1, <1>2, <1>3, <1>4, <1>5
       DEF HistoryNext, historyVars, vars, ledgerVars, histories, Reviews, ReviewGivesUp

\* A deleted statement does not come back.
LEMMA RowStaysDeleted ==
  ASSUME [LedgerNext]_vars, row' = "live"
  PROVE  row = "live"
  BY DEF LedgerNext, vars, reviewVars, ReviewStep, BeginReview, Transition, Delete, Enter,
         EndReview, CommitTransition, CommitDelete, ReviewFailed, BeginEdit, ComputeEdit,
         CommitEdit, EditFailed

(***************************************************************************)
(* However edits overlap each other and the review, the cached sums of a   *)
(* live statement are the sums over its live items, until an edit is       *)
(* committed that another one overtook after it had read the items.        *)
(***************************************************************************)
THEOREM CachedSumsAreCurrent == HistorySpec => []SumsAreCurrentUnlessDrifted
  <1>1. HistoryInit => DriftInv
    <2> SUFFICES ASSUME HistoryInit PROVE DriftInv
      OBVIOUS
    <2>0. LedgerInit
      BY DEF HistoryInit
    <2>1. editing = {}
      BY <2>0 DEF LedgerInit
    <2>2. /\ SumOf(extras) = SumFunctionOnSet([k \in DOMAIN extras |-> extras[k].amount], {})
          /\ SumOf(deductions) =
               SumFunctionOnSet([k \in DOMAIN deductions |-> deductions[k].amount], {})
      BY <2>0 DEF LedgerInit, SumOf, NoRow
    <2>3. SumFunction(works) = SumFunctionOnSet(works, {})
      BY <2>0 DEF LedgerInit, SumFunction
    <2>4. SumsNow.works = 0 /\ SumsNow.extra = 0 /\ SumsNow.deduction = 0
      BY <2>2, <2>3, SumEmpty DEF SumsNow
    <2>5. agg.gross = 0 /\ agg.extra = 0 /\ agg.deduction = 0
      BY <2>0 DEF LedgerInit, NoAggregates
    <2> QED
      BY <2>1, <2>4, <2>5
         DEF DriftInv, KeysHeld, ItemsRead, SumsAreCurrentUnlessDrifted, SumsAreCurrent
  <1>2. LedgerTypeOK /\ RequestsDiffer /\ DriftInv /\ [HistoryNext]_historyVars
          /\ [LedgerNext]_vars => DriftInv'
    <2> SUFFICES ASSUME LedgerTypeOK, RequestsDiffer, DriftInv, [HistoryNext]_historyVars,
                        [LedgerNext]_vars
                 PROVE  DriftInv'
      OBVIOUS
    <2>1. KeysHeld' /\ ItemsRead'
      BY KeysHeldStep, ItemsReadStep DEF DriftInv
    <2>2. ASSUME ~ drifted', row' = "live"
          PROVE  SumsAreCurrent'
      <3>0. \/ drifted' = drifted
            \/ \E h \in editing : drifted' = (drifted \/ h.request \in overtaken)
        BY DEF HistoryNext, historyVars, histories, Reads, Reviews, ReviewGivesUp,
               Computes, Edits, EditGivesUp
      <3>1. ~ drifted /\ row = "live"
        <4>1. ~ drifted
          BY <2>2, <3>0, Zenon
        <4>2. row = "live"
          BY <2>2, RowStaysDeleted
        <4>3. QED
          BY <4>1, <4>2
      <3>2. SumsAreCurrent
        BY <3>1 DEF DriftInv, SumsAreCurrentUnlessDrifted
      <3>3. ASSUME NEW h \in editing, Edits(h)
            PROVE  SumsAreCurrent'
        <4>1. CommitEdit(h) /\ h.request \notin overtaken /\ h.step = "computed"
          BY <2>2, <3>3 DEF Edits, CommitEdit
        <4>2. ResultIsCurrent(h)
          BY <4>1 DEF DriftInv, ItemsRead
        <4>3. QED
          BY <3>1, <3>2, <4>1, <4>2, CommitKeepsSumsCurrent DEF DriftInv
      <3>4. CASE UNCHANGED itemVars
        <4>1. SumsNow' = SumsNow /\ agg' = agg
          BY <3>4, ItemsKept DEF itemVars
        <4>2. QED
          BY <3>1, <3>2, <4>1 DEF SumsAreCurrent
      <3>5. QED
        BY <3>3, <3>4
           DEF HistoryNext, historyVars, vars, ledgerVars, Reads, BeginEdit, Reviews,
               ReviewGivesUp, Computes, ComputeEdit, EditGivesUp, EditFailed
    <2>3. QED
      BY <2>1, <2>2 DEF DriftInv, SumsAreCurrentUnlessDrifted, SumsAreCurrent
  <1>3. DriftInv => SumsAreCurrentUnlessDrifted
    BY DEF DriftInv
  <1> QED
    BY <1>1, <1>2, <1>3, HistoryIsLedger, LedgerTypeCorrect, RequestsDifferInvariant,
       PTL DEF HistorySpec, LedgerSpec
=============================================================================
