--------------------------- MODULE StatementLedger ---------------------------
(***************************************************************************)
(* The items of one interim statement and its cached aggregates, edited    *)
(* while the statement is under review: SetWorksDone, AddExtraWork,        *)
(* DeleteExtraWork, AddDeduction, UpdateDeduction and DeleteDeduction of   *)
(* internal/services/statement_service.go, composed with StatementApproval.*)
(*                                                                         *)
(* Each edit is one transaction at READ COMMITTED that locks nothing it    *)
(* reads.  It has three steps here, at whose borders others may commit:    *)
(*   begin    the statement is read and must be a draft; the operations    *)
(*            that preload the items have read them by then;               *)
(*   compute  the next line number is taken, or the row to change is       *)
(*            locked and the items are read again; Recompute runs;         *)
(*   commit   item and aggregates are written.                             *)
(***************************************************************************)
EXTENDS StatementApproval, StatementMath, Functions, FiniteSetsExt

CONSTANTS
  Amounts,             \* amounts an item may have (quantity times price)
  WorksInputs,         \* the item lists a PUT works-done may resolve to
  Lines,               \* bound: line numbers of extra works, 1..n
  Deductions,          \* bound: primary keys of deductions
  AdvanceOutstanding   \* sum of the outstanding advances of the contract

ASSUME LedgerInputs ==
  /\ Amounts \subseteq Int
  /\ WorksInputs \subseteq Seq(Amounts)
  /\ IsFiniteSet(Lines) /\ Lines = 1..Cardinality(Lines)
  /\ IsFiniteSet(Deductions)
  /\ AdvanceOutstanding \in Nat

VARIABLES
  works,       \* amounts of the live work-done items, in line order
  worksLines,  \* rows 1..worksLines of work_done_items exist, deleted ones too
  extras,      \* extras[n]: the extra-work row with line number n
  deductions,  \* deductions[d]: the deduction row with primary key d
  agg,         \* the cached aggregates of the statement row
  editing      \* the edits in flight

itemVars == <<works, worksLines, extras, deductions, agg>>
ledgerVars == <<itemVars, editing>>
vars == <<reviewVars, ledgerVars>>

Row == [state : {"absent", "live", "deleted"}, amount : Amounts \cup {0}]
NoRow == [state |-> "absent", amount |-> 0]

SumOf(rows) ==
  SumFunctionOnSet([k \in DOMAIN rows |-> rows[k].amount],
                   {k \in DOMAIN rows : rows[k].state = "live"})

SumsNow ==
  [works     |-> SumFunction(works),
   extra     |-> SumOf(extras),
   deduction |-> SumOf(deductions)]

Sums == [works : Int, extra : Int, deduction : Int]

LiveLines == {n \in Lines : extras[n].state = "live"}

LedgerInit ==
  /\ ReviewInit
  /\ works = <<>>
  /\ worksLines = 0
  /\ extras = [n \in Lines |-> NoRow]
  /\ deductions = [d \in Deductions |-> NoRow]
  /\ agg = NoAggregates
  /\ editing = {}

-----------------------------------------------------------------------------
(***************************************************************************)
(* What a request asks for, and the items as they are once it is done.     *)
(***************************************************************************)
SetWorksDone == [kind : {"SetWorksDone"}, items : WorksInputs]
AddExtraWork == [kind : {"AddExtraWork"}, amount : Amounts]
DeleteExtraWork == [kind : {"DeleteExtraWork"}, line : Lines]
AddDeduction == [kind : {"AddDeduction"}, deduction : Deductions, amount : Amounts]
UpdateDeduction == [kind : {"UpdateDeduction"}, deduction : Deductions, amount : Amounts]
DeleteDeduction == [kind : {"DeleteDeduction"}, deduction : Deductions]

Edit == SetWorksDone \cup AddExtraWork \cup DeleteExtraWork
          \cup AddDeduction \cup UpdateDeduction \cup DeleteDeduction

\* The row an edit names must be live when it is read, or the answer is 404;
\* a new deduction takes a primary key of its own.
Found(e) ==
  CASE e.kind = "DeleteExtraWork" -> extras[e.line].state = "live"
    [] e.kind \in {"UpdateDeduction", "DeleteDeduction"} ->
         deductions[e.deduction].state = "live"
    [] e.kind = "AddDeduction" ->
         /\ deductions[e.deduction].state = "absent"
         /\ \A h \in editing : h.edit.kind = "AddDeduction" =>
                                 h.edit.deduction # e.deduction
    [] OTHER -> TRUE

\* The operations that recompute from the items they preloaded at the start;
\* the others read the items again after their own change.
Preloads(e) == e.kind \in {"SetWorksDone", "AddExtraWork", "AddDeduction"}

\* The sums that edit e makes of the sums s: its own change counted in.  Save
\* writes the deduction even if it was deleted since it was read.
SumsAfter(e, s) ==
  CASE e.kind = "SetWorksDone" ->
         [s EXCEPT !.works = SumFunction(e.items)]
    [] e.kind = "AddExtraWork" -> [s EXCEPT !.extra = @ + e.amount]
    [] e.kind = "DeleteExtraWork" ->
         [s EXCEPT !.extra = SumOf([extras EXCEPT ![e.line].state = "deleted"])]
    [] e.kind = "AddDeduction" -> [s EXCEPT !.deduction = @ + e.amount]
    [] e.kind = "UpdateDeduction" ->
         [s EXCEPT !.deduction = SumOf([deductions EXCEPT ![e.deduction] =
                                          [state |-> "live", amount |-> e.amount]])]
    [] e.kind = "DeleteDeduction" ->
         [s EXCEPT !.deduction = SumOf([deductions EXCEPT ![e.deduction].state = "deleted"])]

\* Mutant of Persisted: the operations on deductions write the net alone.
Persisted_NetOnly(e) ==
  CASE e.kind = "SetWorksDone"                        -> DOMAIN NoAggregates
    [] e.kind \in {"AddExtraWork", "DeleteExtraWork"} -> {"extra", "net"}
    [] OTHER                                          -> {"net"}

\* The columns an edit writes back: SetWorksDone all of them, the others two.
Persisted(e) ==
  CASE e.kind = "SetWorksDone"                        -> DOMAIN NoAggregates
    [] e.kind \in {"AddExtraWork", "DeleteExtraWork"} -> {"extra", "net"}
    [] OTHER                                          -> {"deduction", "net"}

\* Only SetWorksDone asks for the outstanding advance; the others pass zero.
AdvanceSeenBy(e) == IF e.kind = "SetWorksDone" THEN AdvanceOutstanding ELSE 0

\* Two edits of one row: its row lock lets only one past its own change.
SameRow(e, f) ==
  \/ e.kind = "DeleteExtraWork" /\ f.kind = "DeleteExtraWork" /\ e.line = f.line
  \/ /\ {e.kind, f.kind} \subseteq {"UpdateDeduction", "DeleteDeduction"}
     /\ e.deduction = f.deduction

-----------------------------------------------------------------------------
\* The edit e of request r, after its reads.
Begun(r, e) ==
  [request |-> r, edit |-> e, step |-> "begun", sums |-> SumsNow,
   line |-> 0, result |-> NoAggregates]

\* Mutant of BeginEdit: the status is not looked at.
BeginEdit_AnyStatus(r, e) ==
  /\ row = "live"
  /\ Found(e)
  /\ editing' = editing \cup {Begun(r, e)}
  /\ UNCHANGED <<reviewVars, itemVars>>

BeginEdit(r, e) ==
  /\ row = "live"
  /\ status = "draft"
  /\ Found(e)
  /\ editing' = editing \cup {Begun(r, e)}
  /\ UNCHANGED <<reviewVars, itemVars>>

\* The sums that h recomputes from.
SumsFor(h) == SumsAfter(h.edit, IF Preloads(h.edit) THEN h.sums ELSE SumsNow)

\* A new extra work takes the line number after the highest live one.
LineFor(h) == IF h.edit.kind = "AddExtraWork" THEN Max(LiveLines \cup {0}) + 1 ELSE 0

Computed(h) ==
  [request |-> h.request, edit |-> h.edit, step |-> "computed", sums |-> SumsFor(h),
   line |-> LineFor(h), result |-> Recompute(SumsFor(h), AdvanceSeenBy(h.edit))]

ComputeEdit(h) ==
  /\ h.step = "begun"
  /\ \A g \in editing : g.step = "computed" => ~SameRow(g.edit, h.edit)
  /\ LineFor(h) \in Lines \cup {0}
  /\ editing' = (editing \ {h}) \cup {Computed(h)}
  /\ UNCHANGED <<reviewVars, itemVars>>

\* The unique indexes on (statement_id, line_no) count soft-deleted rows.
Conflicts(h) ==
  CASE h.edit.kind = "SetWorksDone" -> h.edit.items # <<>> /\ worksLines > 0
    [] h.edit.kind = "AddExtraWork" -> extras[h.line].state # "absent"
    [] OTHER -> FALSE

WriteItems(h) ==
  LET e == h.edit IN
  CASE e.kind = "SetWorksDone" ->
         /\ works' = e.items
         /\ worksLines' = IF e.items = <<>> THEN worksLines ELSE Len(e.items)
         /\ UNCHANGED <<extras, deductions>>
    [] e.kind = "AddExtraWork" ->
         /\ extras' = [extras EXCEPT ![h.line] = [state |-> "live", amount |-> e.amount]]
         /\ UNCHANGED <<works, worksLines, deductions>>
    [] e.kind = "DeleteExtraWork" ->
         /\ extras' = [extras EXCEPT ![e.line].state = "deleted"]
         /\ UNCHANGED <<works, worksLines, deductions>>
    [] e.kind \in {"AddDeduction", "UpdateDeduction"} ->
         /\ deductions' = [deductions EXCEPT ![e.deduction] =
                             [state |-> "live", amount |-> e.amount]]
         /\ UNCHANGED <<works, worksLines, extras>>
    [] e.kind = "DeleteDeduction" ->
         /\ deductions' = [deductions EXCEPT ![e.deduction].state = "deleted"]
         /\ UNCHANGED <<works, worksLines, extras>>

\* The cached aggregates after the update, which on a statement deleted
\* meanwhile matches no row.
Saved(h) ==
  IF row = "live"
    THEN [f \in DOMAIN agg |-> IF f \in Persisted(h.edit) THEN h.result[f] ELSE agg[f]]
    ELSE agg

\* The item and the columns the operation persists are written; the status it
\* was checked for is not looked at again.
CommitEdit(h) ==
  /\ h.step = "computed"
  /\ ~Conflicts(h)
  /\ WriteItems(h)
  /\ agg' = Saved(h)
  /\ editing' = editing \ {h}
  /\ UNCHANGED reviewVars

\* 409 on a unique index, a failing statement, or the process stopping: the
\* transaction is rolled back.
EditFailed(h) ==
  /\ editing' = editing \ {h}
  /\ UNCHANGED <<reviewVars, itemVars>>

Free(r) == Unused(r) /\ \A h \in editing : h.request # r

ReviewStep ==
  /\ \/ \E r \in Requests : Free(r) /\ BeginReview(r)
     \/ \E v \in reviews : EndReview(v)
  /\ UNCHANGED ledgerVars

LedgerNext ==
  \/ ReviewStep
  \/ \E r \in Requests, e \in Edit : Free(r) /\ BeginEdit(r, e)
  \/ \E h \in editing : ComputeEdit(h) \/ CommitEdit(h) \/ EditFailed(h)

LedgerSpec == LedgerInit /\ [][LedgerNext]_vars

-----------------------------------------------------------------------------
(***************************************************************************)
(* Properties.                                                             *)
(***************************************************************************)
LedgerTypeOK ==
  /\ ReviewTypeOK
  /\ works \in Seq(Amounts)
  /\ worksLines \in Nat
  /\ extras \in [Lines -> Row]
  /\ deductions \in [Deductions -> Row]
  /\ agg \in [DOMAIN NoAggregates -> Int]
  /\ \A h \in editing : /\ h.request \in Requests
                        /\ h.edit \in Edit
                        /\ h.step \in {"begun", "computed"}
                        /\ h.sums \in Sums
                        /\ h.line \in Lines \cup {0}
                        /\ h.result \in [DOMAIN NoAggregates -> Int]

\* The cached sums are the sums over the live items, after every operation.
SumsAreCurrent ==
  row = "live" =>
    /\ agg.extra = SumsNow.extra
    /\ agg.deduction = SumsNow.deduction
    /\ Contract.managementFee = 0 => agg.gross = SumsNow.works

\* "net_amount: gross+extra - retention - advance + vat - social_sec - ld -
\* custom_deductions": the stored net is that formula over the stored columns.
NetAddsUp == row = "live" => agg.net = NetOf(agg)

\* Once submitted, the items and the amounts under review stay as they were.
SubmittedIsFrozen ==
  [][(status # "draft") => UNCHANGED itemVars]_vars

\* Replacing the works done, or adding an extra work, is never refused because
\* of rows that were removed before.
NoEditRefused == \A h \in editing : h.step = "computed" => ~Conflicts(h)

\* Whatever edits overlap a review, the statement goes through the review as it
\* does without them: no edit writes the status, the trail or the row back.
ImplementsReview == ReviewSpec

=============================================================================
