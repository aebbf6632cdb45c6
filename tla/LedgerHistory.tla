---------------------------- MODULE LedgerHistory ----------------------------
(***************************************************************************)
(* StatementLedger with four history variables.  They change no step; they *)
(* record what the properties of overlapping requests have to tell apart:  *)
(*   - a request is outdated when a transition or a deletion was committed *)
(*     after it read the statement;                                        *)
(*   - an edit is overtaken when another edit was committed after it last  *)
(*     read the items;                                                     *)
(*   - the review has strayed when an outdated transition or deletion was  *)
(*     committed, and the sums have drifted when an overtaken edit was.    *)
(* Nothing in the code keeps any of this from happening.                   *)
(***************************************************************************)
EXTENDS StatementLedger

VARIABLES
  outdated,    \* requests in flight that read an earlier status or row
  overtaken,   \* edits in flight that last read earlier items
  strayed,     \* whether an outdated transition or deletion was committed
  drifted      \* whether an overtaken edit was committed

histories == <<outdated, overtaken, strayed, drifted>>
historyVars == <<vars, histories>>

HistoryInit ==
  LedgerInit /\ outdated = {} /\ overtaken = {} /\ strayed = FALSE /\ drifted = FALSE

Editors == {h.request : h \in editing}
InFlight == {v.request : v \in reviews} \cup Editors

Reads(r) ==
  /\ Free(r)
  /\ \/ BeginReview(r) /\ UNCHANGED ledgerVars
     \/ \E e \in Edit : BeginEdit(r, e)
  /\ UNCHANGED histories

Reviews(v) ==
  /\ CommitTransition(v) \/ CommitDelete(v)
  /\ UNCHANGED ledgerVars
  /\ outdated' = InFlight \ {v.request}
  /\ strayed' = (strayed \/ v.request \in outdated)
  /\ UNCHANGED <<overtaken, drifted>>

ReviewGivesUp(v) ==
  /\ ReviewFailed(v)
  /\ UNCHANGED ledgerVars
  /\ outdated' = outdated \ {v.request}
  /\ UNCHANGED <<overtaken, strayed, drifted>>

\* An edit that preloads nothing reads the items here, under the lock of its row.
Computes(h) ==
  /\ ComputeEdit(h)
  /\ overtaken' = IF Preloads(h.edit) THEN overtaken ELSE overtaken \ {h.request}
  /\ UNCHANGED <<outdated, strayed, drifted>>

Edits(h) ==
  /\ CommitEdit(h)
  /\ outdated' = outdated \ {h.request}
  /\ overtaken' = Editors \ {h.request}
  /\ drifted' = (drifted \/ h.request \in overtaken)
  /\ UNCHANGED strayed

EditGivesUp(h) ==
  /\ EditFailed(h)
  /\ outdated' = outdated \ {h.request}
  /\ overtaken' = overtaken \ {h.request}
  /\ UNCHANGED <<strayed, drifted>>

HistoryNext ==
  \/ \E r \in Requests : Reads(r)
  \/ \E v \in reviews : Reviews(v) \/ ReviewGivesUp(v)
  \/ \E h \in editing : Computes(h) \/ Edits(h) \/ EditGivesUp(h)

HistorySpec == HistoryInit /\ [][HistoryNext]_historyVars

-----------------------------------------------------------------------------
(***************************************************************************)
(* Properties.                                                             *)
(***************************************************************************)

\* The trail is a path of validTransitions that ends in the status, whatever
\* transitions, deletions and edits overlap, until a transition or deletion is
\* committed that another had outdated between its SELECT and its write.
TrailFollowsTableUnlessStrayed == ~ strayed => TrailFollowsTable

\* DELETE /statements/:id, "only allowed when status = draft": under the same
\* condition only a draft that was never submitted is deleted, and it stays one.
OnlyDraftsDeletedUnlessStrayed == ~ strayed => OnlyDraftsDeleted

\* "any (except approved) -> rejected": an approval or a rejection is taken back
\* by nothing but a transition that had read the statement before it.
DecisionIsFinalUnlessRaced ==
  [][(status \in {"approved", "rejected"} /\ status' # status) =>
       \E v \in reviews \ reviews' : v.request \in outdated]_historyVars

\* Once submitted, the items and the amounts under review are changed by nothing
\* but an edit that had found a draft before the submission was committed.
SubmittedIsFrozenUnlessRaced ==
  [][(status # "draft" /\ itemVars' # itemVars) =>
       \E h \in editing \ editing' : h.request \in outdated]_historyVars

\* The cached sums are the sums over the live items, however edits overlap each
\* other and the review, until an edit is committed that another one overtook
\* after it had read the items.
SumsAreCurrentUnlessDrifted == ~ drifted => SumsAreCurrent
=============================================================================
