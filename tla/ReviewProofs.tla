----------------------------- MODULE ReviewProofs -----------------------------
(***************************************************************************)
(* Theorems about the review of a statement, for any employees with any    *)
(* roles, any number of requests in flight and trails of any length.       *)
(***************************************************************************)
EXTENDS StatementApproval, TLAPS

\* Whoever takes the steps of the review, they keep its types.
LEMMA ReviewTypeStep ==
  ASSUME ReviewTypeOK, [ReviewNext]_reviewVars
  PROVE  ReviewTypeOK'
  <1>1. ASSUME NEW r \in Requests, NEW a \in Actors, NEW move \in validTransitions,
               Transition(r, a, move)
        PROVE  ReviewTypeOK'
    <2>1. Deciding(r, a, move) \in Review
      BY DEF Deciding, Review
    <2>2. QED
      BY <1>1, <2>1 DEF Transition, Enter, ReviewTypeOK
  <1>2. ASSUME NEW r \in Requests, Delete(r)
        PROVE  ReviewTypeOK'
    <2>1. [request |-> r, kind |-> "delete"] \in Review
      BY DEF Review
    <2>2. QED
      BY <1>2, <2>1 DEF Delete, Enter, ReviewTypeOK
  <1>3. ASSUME NEW v \in reviews, CommitTransition(v)
        PROVE  ReviewTypeOK'
    <2>1. v.actor \in Actors /\ v.move \in validTransitions
      BY <1>3 DEF CommitTransition, ReviewTypeOK, Review
    <2>2. v.move.to \in StatementStatus
      BY <2>1 DEF validTransitions, Move, StatementStatus
    <2>3. [actor |-> v.actor, from |-> v.move.to, to |-> v.move.to] \in Event
      BY <2>1, <2>2 DEF Event
    <2>4. status' \in StatementStatus
      BY <1>3, <2>2 DEF CommitTransition, ReviewTypeOK
    <2>5. trail' \in Seq(Event)
      BY <1>3, <2>3 DEF CommitTransition, ReviewTypeOK
    <2>6. QED
      BY <1>3, <2>4, <2>5 DEF CommitTransition, ReviewTypeOK
  <1>4. ASSUME NEW v \in reviews, CommitDelete(v)
        PROVE  ReviewTypeOK'
    BY <1>4 DEF CommitDelete, ReviewTypeOK
  <1>5. ASSUME NEW v \in reviews, ReviewFailed(v)
        PROVE  ReviewTypeOK'
    BY <1>5 DEF ReviewFailed, ReviewTypeOK
  <1>6. CASE UNCHANGED reviewVars
    BY <1>6 DEF reviewVars, ReviewTypeOK
  <1>7. QED
    BY <1>1, <1>2, <1>3, <1>4, <1>5, <1>6 DEF ReviewNext, BeginReview, EndReview

(***************************************************************************)
(* The row, the trail and the requests in flight keep their types.         *)
(***************************************************************************)
THEOREM ReviewTypeCorrect == ReviewSpec => []ReviewTypeOK
  <1>1. ReviewInit => ReviewTypeOK
    BY DEF ReviewInit, ReviewTypeOK, StatementStatus
  <1>2. QED
    BY <1>1, ReviewTypeStep, PTL DEF ReviewSpec

-----------------------------------------------------------------------------
(***************************************************************************)
(* The stages behind a status.  NoReviewSkipped alone is not inductive: a  *)
(* transition writes a target that was allowed from the status it read,    *)
(* and the status may be another by then.  What makes it right all the     *)
(* same is that the stages behind the status it read were consented to     *)
(* when it read it, and that a trail never loses an event.                 *)
(***************************************************************************)
Earned(s) == \A t \in StagesBehind(s) : Consented(t)

EarnedInv ==
  /\ Earned(status)
  /\ \A v \in reviews : v.kind = "transition" =>
       Earned(v.move.from) /\ hasAnyRole(v.actor, v.move.roles)

\* A move adds at most its own target to the stages behind, and the roles it
\* asks for are those whose consent that target needs.
LEMMA OneStagePerMove ==
  ASSUME NEW move \in validTransitions, NEW t \in StagesBehind(move.to)
  PROVE  \/ t \in StagesBehind(move.from)
         \/ t = move.to /\ move.roles = ConsentTo[t]
  BY DEF validTransitions, Move, StagesBehind, ConsentTo

\* Nothing is behind a draft.
LEMMA NothingBehindDraft == StagesBehind("draft") = {}
  BY DEF StagesBehind

\* Trails only grow: a consent once given stays on record.
LEMMA ConsentIsStable ==
  ASSUME ReviewTypeOK, [ReviewNext]_reviewVars, NEW t, Consented(t)
  PROVE  Consented(t)'
  <1>1. ASSUME NEW v \in reviews, CommitTransition(v)
        PROVE  Consented(t)'
    <2>1. PICK i \in DOMAIN trail :
            trail[i].to = t /\ hasAnyRole(trail[i].actor, ConsentTo[t])
      BY DEF Consented
    <2>2. i \in DOMAIN trail' /\ trail'[i] = trail[i]
      BY <1>1 DEF CommitTransition, ReviewTypeOK
    <2>3. QED
      BY <2>1, <2>2 DEF Consented, hasAnyRole
  <1>2. CASE UNCHANGED trail
    BY <1>2 DEF Consented, hasAnyRole
  <1>3. QED
    BY <1>1, <1>2 DEF ReviewNext, BeginReview, EndReview, reviewVars, Transition, Delete,
                      Enter, CommitDelete, ReviewFailed

\* The event that a transition inserts is the consent its move stands for.
LEMMA CommittedMoveIsConsent ==
  ASSUME ReviewTypeOK, EarnedInv, NEW v \in reviews, CommitTransition(v),
         v.move.roles = ConsentTo[v.move.to]
  PROVE  Consented(v.move.to)'
  <1>1. v.kind = "transition" /\ hasAnyRole(v.actor, v.move.roles)
    BY DEF CommitTransition, EarnedInv
  <1>2. DEFINE n == Len(trail) + 1
  <1>3. n \in DOMAIN trail' /\ trail'[n].to = v.move.to /\ trail'[n].actor = v.actor
    BY DEF CommitTransition, ReviewTypeOK
  <1>4. QED
    BY <1>1, <1>3 DEF Consented, hasAnyRole

\* The stages behind the status, and behind what each transition in flight has
\* read, stay earned.
LEMMA EarnedStep ==
  ASSUME ReviewTypeOK, EarnedInv, [ReviewNext]_reviewVars
  PROVE  EarnedInv'
  <1>1. \A s : Earned(s) => Earned(s)'
    BY ConsentIsStable DEF Earned, StagesBehind
  <1>2. Earned(status)'
    <2>1. ASSUME NEW v \in reviews, CommitTransition(v), status' = v.move.to
          PROVE  Earned(status)'
      <3>1. v.move \in validTransitions /\ Earned(v.move.from)
        BY <2>1 DEF CommitTransition, ReviewTypeOK, Review, EarnedInv
      <3>2. ASSUME NEW t \in StagesBehind(v.move.to)
            PROVE  Consented(t)'
        <4>1. CASE t \in StagesBehind(v.move.from)
          BY <1>1, <3>1, <4>1 DEF Earned, StagesBehind
        <4>2. CASE t = v.move.to /\ v.move.roles = ConsentTo[t]
          BY <2>1, <4>2, CommittedMoveIsConsent
        <4>3. QED
          BY <3>1, <4>1, <4>2, OneStagePerMove
      <3>3. QED
        BY <2>1, <3>2 DEF Earned, StagesBehind
    <2>2. CASE status' = status
      <3>1. Earned(status)
        BY DEF EarnedInv
      <3>2. QED
        BY <1>1, <2>2, <3>1 DEF Earned, StagesBehind
    <2>3. QED
      BY <2>1, <2>2 DEF ReviewNext, BeginReview, EndReview, reviewVars, Transition, Delete,
                        Enter, CommitTransition, CommitDelete, ReviewFailed
  <1>3. ASSUME NEW v \in reviews', v.kind = "transition"
        PROVE  Earned(v.move.from)' /\ hasAnyRole(v.actor, v.move.roles)
    <2>1. CASE v \in reviews
      BY <1>1, <1>3, <2>1 DEF EarnedInv, Earned, StagesBehind
    <2>2. ASSUME NEW r \in Requests, NEW a \in Actors, NEW move \in validTransitions,
                 Transition(r, a, move), v \notin reviews
          PROVE  Earned(v.move.from)' /\ hasAnyRole(v.actor, v.move.roles)
      <3>1. v = Deciding(r, a, move)
        BY <2>2 DEF Transition, Enter
      <3>2. v.move.from = status /\ hasAnyRole(v.actor, v.move.roles)
        BY <2>2, <3>1 DEF Deciding, Transition
      <3>3. QED
        BY <1>1, <3>2 DEF EarnedInv, Earned, StagesBehind
    <2>3. ASSUME NEW r \in Requests, Delete(r), v \notin reviews
          PROVE  FALSE
      BY <1>3, <2>3 DEF Delete, Enter
    <2>4. QED
      BY <2>1, <2>2, <2>3 DEF ReviewNext, BeginReview, EndReview, reviewVars,
                              CommitTransition, CommitDelete, ReviewFailed
  <1>4. QED
    BY <1>2, <1>3 DEF EarnedInv, hasAnyRole

(***************************************************************************)
(* However many transitions and deletions overlap, no statement stands at  *)
(* a stage that an earlier reviewer did not consent to on record.          *)
(***************************************************************************)
THEOREM ReviewIsSound == ReviewSpec => []NoReviewSkipped
  <1>1. ReviewInit => EarnedInv
    BY NothingBehindDraft DEF ReviewInit, EarnedInv, Earned
  <1>2. EarnedInv => NoReviewSkipped
    BY DEF EarnedInv, Earned, NoReviewSkipped
  <1>3. QED
    BY <1>1, <1>2, EarnedStep, ReviewTypeCorrect, PTL DEF ReviewSpec
=============================================================================
