-------------------------- MODULE StatementApproval --------------------------
(***************************************************************************)
(* The review of one interim statement: Transition and Delete of           *)
(* internal/services/statement_service.go.  Statements share nothing that  *)
(* these operations read or write, so one is enough.                       *)
(*                                                                         *)
(* Transition reads the row and writes it in one transaction, but at READ  *)
(* COMMITTED and without FOR UPDATE: another transaction may commit        *)
(* between its SELECT and its UPDATE, and the UPDATE does not repeat the   *)
(* condition on the status.  Delete reads and deletes without any          *)
(* transaction.  A request between its two steps is a record of `reviews'. *)
(***************************************************************************)
EXTENDS Naturals, Sequences

CONSTANTS
  Actors,     \* the employees that call the endpoints
  RolesOf,    \* RolesOf[a]: the roles in the access token of a, as strings
  Requests,   \* identities of the requests that can be in flight at once
  MaxEvents   \* bound: no transition is begun on a longer trail

StatementStatus ==
  {"draft", "submitted", "finance_review", "pm_review", "director_review",
   "approved", "rejected"}

\* The roles that validTransitions names, and one for all others.
CallerRole == {"pm", "finance", "director", "admin", "other"}

ASSUME CallersHaveRoles == RolesOf \in [Actors -> SUBSET CallerRole]
ASSUME MaxEventsIsNat == MaxEvents \in Nat

-----------------------------------------------------------------------------
Move(from, to, roles) == [from |-> from, to |-> to, roles |-> roles]

\* Mutant of validTransitions: one target is no status.
validTransitions_Typo ==
  { Move("draft", "submitted", {"pm", "admin"}),
    Move("submitted", "finance_review", {"finance", "admin"}),
    Move("submitted", "returned", {"finance", "admin"}) }

validTransitions ==
  { Move("draft", "submitted", {"pm", "admin"}),
    Move("submitted", "finance_review", {"finance", "admin"}),
    Move("submitted", "rejected", {"finance", "admin"}),
    Move("finance_review", "pm_review", {"pm", "admin"}),
    Move("finance_review", "rejected", {"pm", "admin"}),
    Move("pm_review", "director_review", {"director", "admin"}),
    Move("pm_review", "rejected", {"director", "admin"}),
    Move("director_review", "approved", {"director", "admin"}),
    Move("director_review", "rejected", {"director", "admin"}) }

hasAnyRole(a, required) == RolesOf[a] \cap required # {}

-----------------------------------------------------------------------------
VARIABLES
  row,      \* whether the row is live or soft-deleted
  status,   \* column status
  trail,    \* its approval events, oldest first
  reviews   \* the transitions and deletions between their two steps

reviewVars == <<row, status, trail, reviews>>

Event == [actor : Actors, from : StatementStatus, to : StatementStatus]

Review ==
  [request : Requests, kind : {"transition"}, actor : Actors, move : validTransitions]
    \cup [request : Requests, kind : {"delete"}]

ReviewTypeOK ==
  /\ row \in {"live", "deleted"}
  /\ status \in StatementStatus
  /\ trail \in Seq(Event)
  /\ reviews \in SUBSET Review

\* The statement as Create inserts it.
ReviewInit ==
  /\ row = "live"
  /\ status = "draft"
  /\ trail = <<>>
  /\ reviews = {}

-----------------------------------------------------------------------------
Unused(r) == \A v \in reviews : v.request # r

\* A request has read what it needs and is about to write.
Enter(v) ==
  /\ reviews' = reviews \cup {v}
  /\ UNCHANGED <<row, status, trail>>

Deciding(r, a, move) ==
  [request |-> r, kind |-> "transition", actor |-> a, move |-> move]

\* Mutant of Transition: the target is not checked against the present status.
Transition_AnyFrom(r, a, move) ==
  /\ row = "live"
  /\ hasAnyRole(a, move.roles)
  /\ Len(trail) < MaxEvents
  /\ Enter(Deciding(r, a, move))

\* Mutant of Transition: the caller's roles are not checked.
Transition_AnyRole(r, a, move) ==
  /\ row = "live"
  /\ move.from = status
  /\ Len(trail) < MaxEvents
  /\ Enter(Deciding(r, a, move))

\* Transition up to the UPDATE: the status is read, the target and the roles
\* are checked.  A rejection without a comment is refused here; the comment is
\* abstracted to its being there.
Transition(r, a, move) ==
  /\ row = "live"
  /\ move.from = status
  /\ hasAnyRole(a, move.roles)
  /\ Len(trail) < MaxEvents
  /\ Enter(Deciding(r, a, move))

\* The UPDATE and the INSERT of the event, committed together.  Updates has
\* already put the new status into stmt when the event is built from
\* stmt.Status, so from_status is the new status as well.
CommitTransition(v) ==
  /\ v.kind = "transition"
  /\ status' = IF row = "live" THEN v.move.to ELSE status
  /\ trail' = Append(trail, [actor |-> v.actor, from |-> v.move.to, to |-> v.move.to])
  /\ reviews' = reviews \ {v}
  /\ UNCHANGED row

\* Mutant of Delete: the status is not looked at.
Delete_AnyStatus(r) ==
  /\ row = "live"
  /\ Enter([request |-> r, kind |-> "delete"])

\* Delete up to the DELETE: only a draft passes.
Delete(r) ==
  /\ row = "live"
  /\ status = "draft"
  /\ Enter([request |-> r, kind |-> "delete"])

\* The soft delete itself, by primary key alone.
CommitDelete(v) ==
  /\ v.kind = "delete"
  /\ row' = "deleted"
  /\ reviews' = reviews \ {v}
  /\ UNCHANGED <<status, trail>>

\* The database refuses, or the process stops first: nothing is written.
ReviewFailed(v) ==
  /\ reviews' = reviews \ {v}
  /\ UNCHANGED <<row, status, trail>>

BeginReview(r) ==
  \/ \E a \in Actors, move \in validTransitions : Transition(r, a, move)
  \/ Delete(r)

EndReview(v) == CommitTransition(v) \/ CommitDelete(v) \/ ReviewFailed(v)

ReviewNext ==
  \/ \E r \in Requests : Unused(r) /\ BeginReview(r)
  \/ \E v \in reviews : EndReview(v)

ReviewSpec == ReviewInit /\ [][ReviewNext]_reviewVars

-----------------------------------------------------------------------------
(***************************************************************************)
(* Properties.                                                             *)
(***************************************************************************)

\* The reviewers whose consent moves a statement into a status.
ConsentTo ==
  [submitted       |-> {"pm", "admin"},
   finance_review  |-> {"finance", "admin"},
   pm_review       |-> {"pm", "admin"},
   director_review |-> {"director", "admin"},
   approved        |-> {"director", "admin"}]

Consented(s) ==
  \E i \in DOMAIN trail : trail[i].to = s /\ hasAnyRole(trail[i].actor, ConsentTo[s])

\* The stages a statement in status s has behind it.
StagesBehind(s) ==
  CASE s = "submitted"       -> {"submitted"}
    [] s = "finance_review"  -> {"submitted", "finance_review"}
    [] s = "pm_review"       -> {"submitted", "finance_review", "pm_review"}
    [] s = "director_review" -> DOMAIN ConsentTo \ {"approved"}
    [] s = "approved"        -> DOMAIN ConsentTo
    [] s = "rejected"        -> {"submitted"}
    [] OTHER                 -> {}

\* No payment certificate is approved past a reviewer: whatever transitions
\* overlap, each stage behind the present status has an event in the trail by
\* someone entitled to that stage.
NoReviewSkipped == \A s \in StagesBehind(status) : Consented(s)

\* "any (except approved) -> rejected": a decision is not taken back, since no
\* transition leaves approved or rejected.
DecisionIsFinal ==
  [][(status \in {"approved", "rejected"}) => (status' = status)]_reviewVars

\* DELETE /statements/:id, "only allowed when status = draft": what has been
\* deleted was never beyond draft, and nothing moves it afterwards.
OnlyDraftsDeleted == row = "deleted" => status = "draft" /\ trail = <<>>

\* "from_status: previous status value": each event starts where the one
\* before it ended.
TrailNamesPrevious ==
  \A i \in DOMAIN trail :
    trail[i].from = IF i = 1 THEN "draft" ELSE trail[i - 1].to

\* The trail is the history of the status: it ends in the present status, and
\* every two consecutive events are a move the table allows.
TrailFollowsTable ==
  LET At(i) == IF i = 0 THEN "draft" ELSE trail[i].to IN
  /\ \A i \in DOMAIN trail :
       \E move \in validTransitions : move.from = At(i - 1) /\ move.to = At(i)
  /\ row = "live" => status = At(Len(trail))

=============================================================================
