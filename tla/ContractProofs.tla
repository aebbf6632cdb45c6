---------------------------- MODULE ContractProofs ----------------------------
(***************************************************************************)
(* Theorems about the approval of contracts, for any contracts, any staff  *)
(* with any roles, any number of requests in flight and trails of any      *)
(* length; and about the contract page over it, for any items, documents,  *)
(* situations of entry and numbers of calls.                               *)
(***************************************************************************)
EXTENDS ContractRounds, ContractPage, FiniteSetTheorems, TLAPS

(***************************************************************************)
(* Every field of a rule has its type.                                     *)
(***************************************************************************)
LEMMA RuleTypes ==
  ASSUME NEW rule \in AllRules
  PROVE  /\ rule.from \in ContractStatus
         /\ rule.to \in ContractStatus
  <1>1. CASE rule \in contractStateMachine
    BY <1>1 DEF contractStateMachine, Rule, ContractStatus
  <1>2. CASE rule \in CancelRules
    BY <1>2 DEF CancelRules, Rule, ContractStatus
  <1>3. QED
    BY <1>1, <1>2 DEF AllRules

\* The columns, the trail and the handlers in flight keep their types.
LEMMA TypesKept == ASSUME TypeOK, [Next]_vars PROVE TypeOK'
  <1> USE DEF TypeOK
  <1>1. ASSUME NEW c \in Contracts, NEW s \in ContractStatus, Create(c, s)
        PROVE  TypeOK'
    BY <1>1 DEF Create
  <1>2. ASSUME NEW c \in Contracts, NEW s \in ContractStatus, Update(c, s)
        PROVE  TypeOK'
    BY <1>2 DEF Update
  <1>3. ASSUME NEW c \in Contracts, Delete(c)
        PROVE  TypeOK'
    BY <1>3 DEF Delete
  <1>4. ASSUME NEW r \in Requests, NEW c \in Contracts, NEW a \in Actors,
               NEW rule \in AllRules, Transition(r, c, a, rule)
        PROVE  TypeOK'
    BY <1>4 DEF Transition, Handler
  <1>5. ASSUME NEW h \in inflight, applyTransition(h)
        PROVE  TypeOK'
    <2>1. /\ h.contract \in Contracts
          /\ h.actor \in Actors
          /\ h.rule \in AllRules
      BY DEF Handler
    <2>2. [actor |-> h.actor, from |-> h.rule.from, to |-> h.rule.to] \in Event
      BY <2>1, RuleTypes DEF Event
    <2>3. status' \in [Contracts -> ContractStatus]
      BY <1>5, <2>1, RuleTypes DEF applyTransition, EventOf
    <2>4. signedAt' \in [Contracts -> BOOLEAN]
      BY <1>5 DEF applyTransition, EventOf
    <2>5. approvals' \in [Contracts -> Seq(Event)]
      BY <1>5, <2>1, <2>2 DEF applyTransition, EventOf
    <2>6. QED
      BY <1>5, <2>3, <2>4, <2>5 DEF applyTransition, EventOf
  <1>6. ASSUME NEW h \in inflight, TransitionFailed(h)
        PROVE  TypeOK'
    BY <1>6 DEF TransitionFailed
  <1>7. CASE UNCHANGED vars
    BY <1>7 DEF vars
  <1>8. QED
    BY <1>1, <1>2, <1>3, <1>4, <1>5, <1>6, <1>7 DEF Next

(***************************************************************************)
(* In every reachable state they have their types.                         *)
(***************************************************************************)
THEOREM TypeCorrect == Spec => []TypeOK
  <1>1. Init => TypeOK
    BY DEF Init, TypeOK, ContractStatus
  <1>2. QED
    BY <1>1, TypesKept, PTL DEF Spec

(***************************************************************************)
(* The histories only watch: every step with them is a step of the         *)
(* workflow or none.                                                       *)
(***************************************************************************)
LEMMA HistoryStepIsStep ==
  ASSUME [HistoryNext]_historyVars
  PROVE  [Next]_vars
  BY DEF HistoryNext, historyVars, Next, vars, Writes, Deletes, Reads, Commits, GivesUp

LEMMA HistoryIsWorkflow == HistorySpec => Spec
  <1>1. HistoryInit => Init
    BY DEF HistoryInit
  <1>2. QED
    BY <1>1, HistoryStepIsStep, PTL DEF HistorySpec, Spec

\* The histories keep their types: who was overtaken is still in flight.
THEOREM HistoryTypeCorrect == HistorySpec => []HistoryTypeOK
  <1> DEFINE Watched == /\ overtaken \subseteq {h.request : h \in inflight}
                        /\ strayed \subseteq Contracts
                        /\ overridden \subseteq Contracts
  <1>1. HistoryInit => Watched
    BY DEF HistoryInit
  <1>2. TypeOK /\ Watched /\ [HistoryNext]_historyVars => Watched'
    <2> SUFFICES ASSUME TypeOK, Watched, [HistoryNext]_historyVars
                 PROVE  Watched'
      OBVIOUS
    <2>1. ASSUME NEW c \in Contracts, NEW s \in ContractStatus, Writes(c, s)
          PROVE  Watched'
      BY <2>1 DEF Writes, Create, Update, AtWork
    <2>2. ASSUME NEW c \in Contracts, Deletes(c)
          PROVE  Watched'
      BY <2>2 DEF Deletes, Delete
    <2>3. ASSUME NEW r \in Requests, NEW c \in Contracts, NEW a \in Actors,
                 NEW rule \in AllRules, Reads(r, c, a, rule)
          PROVE  Watched'
      BY <2>3 DEF Reads, Transition
    <2>4. ASSUME NEW h \in inflight, Commits(h) \/ GivesUp(h)
          PROVE  Watched'
      <3>1. inflight' = inflight \ {h} /\ h.contract \in Contracts
        BY <2>4 DEF Commits, GivesUp, applyTransition, TransitionFailed, TypeOK, Handler
      <3>2. ASSUME NEW r \in overtaken'
            PROVE  r \in {g.request : g \in inflight'}
        BY <2>4, <3>1, <3>2 DEF Commits, GivesUp, AtWork
      <3>3. strayed' \subseteq Contracts /\ overridden' \subseteq Contracts
        BY <2>4, <3>1 DEF Commits, GivesUp
      <3>4. QED
        BY <3>2, <3>3
    <2>5. CASE UNCHANGED historyVars
      BY <2>5 DEF historyVars
    <2>6. QED
      BY <2>1, <2>2, <2>3, <2>4, <2>5 DEF HistoryNext
  <1>3. QED
    BY <1>1, <1>2, HistoryIsWorkflow, TypeCorrect, PTL DEF HistorySpec, HistoryTypeOK

-----------------------------------------------------------------------------
(***************************************************************************)
(* No stage skipped.  That is not inductive: a handler may commit a move   *)
(* out of a status the contract left long ago.  What makes it safe is that *)
(* the status it read had been earned when it was read, that trails only   *)
(* grow, and that the caller's role was checked then.                      *)
(***************************************************************************)
Earned(c, s) == \A role \in MustHaveSigned(s) : SignedOff(c, role)

EarnedAt(c) ==
  /\ Earned(c, status[c])
  /\ \A h \in inflight :
       h.contract = c => Earned(c, h.rule.from) /\ Authorized(h.actor, h.rule)

EarnedInv == \A c \in Contracts : EarnedAt(c)

\* A rule adds at most the approval of the one role that may take it.
LEMMA OneApprovalPerRule ==
  ASSUME NEW rule \in AllRules,
         NEW role \in MustHaveSigned(rule.to),
         role \notin MustHaveSigned(rule.from)
  PROVE  /\ rule.from = Desk[role]
         /\ rule.to \notin {"draft", "cancelled"}
         /\ rule.roles = {role}
  <1>1. CASE rule \in CancelRules
    BY <1>1 DEF CancelRules, Rule, MustHaveSigned
  <1>2. CASE rule \in contractStateMachine
    BY <1>2 DEF contractStateMachine, Rule, MustHaveSigned, Desk
  <1>3. QED
    BY <1>1, <1>2 DEF AllRules

\* No approval stands for the status draft.
LEMMA DraftNeedsNothing == MustHaveSigned("draft") = {}
  BY DEF MustHaveSigned

\* Trails only grow: what was signed off stays signed off.
LEMMA SignedOffIsStable ==
  ASSUME TypeOK, [Next]_vars,
         NEW c \in Contracts, NEW role, SignedOff(c, role)
  PROVE  SignedOff(c, role)'
  <1>1. ASSUME NEW h \in inflight, applyTransition(h)
        PROVE  SignedOff(c, role)'
    <2>1. PICK i \in DOMAIN approvals[c] : SignsOff(approvals[c][i], role)
      BY DEF SignedOff
    <2>2. DEFINE e == [actor |-> h.actor, from |-> h.rule.from, to |-> h.rule.to]
    <2>3. approvals[c] \in Seq(Event)
      BY DEF TypeOK
    <2>4. approvals'[c] = approvals[c] \/ approvals'[c] = Append(approvals[c], e)
      BY <1>1 DEF applyTransition, EventOf, TypeOK
    <2>5. i \in DOMAIN approvals'[c] /\ approvals'[c][i] = approvals[c][i]
      BY <2>3, <2>4
    <2>6. QED
      BY <2>1, <2>5 DEF SignedOff, SignsOff
  <1>2. ASSUME UNCHANGED approvals
        PROVE  SignedOff(c, role)'
    BY <1>2 DEF SignedOff, SignsOff
  <1>3. QED
    BY <1>1, <1>2 DEF Next, vars, Create, Update, Delete, Transition, TransitionFailed

\* The event a handler inserts is the approval its rule stands for.
LEMMA AppliedRuleIsSigned ==
  ASSUME TypeOK, NEW h \in inflight, applyTransition(h),
         Authorized(h.actor, h.rule),
         NEW role \in MustHaveSigned(h.rule.to),
         role \notin MustHaveSigned(h.rule.from)
  PROVE  SignedOff(h.contract, role)'
  <1>1. h.contract \in Contracts /\ h.rule \in AllRules
    BY DEF TypeOK, Handler
  <1>2. DEFINE e == [actor |-> h.actor, from |-> h.rule.from, to |-> h.rule.to]
  <1>3. approvals[h.contract] \in Seq(Event)
    BY <1>1 DEF TypeOK
  <1>4. approvals'[h.contract] = Append(approvals[h.contract], e)
    BY <1>1 DEF applyTransition, EventOf, TypeOK
  <1>5. LET n == Len(approvals[h.contract]) + 1
        IN  n \in DOMAIN approvals'[h.contract] /\ approvals'[h.contract][n] = e
    BY <1>3, <1>4
  <1>6. SignsOff(e, role)
    BY <1>1, OneApprovalPerRule DEF SignsOff, Authorized
  <1>7. QED
    BY <1>5, <1>6 DEF SignedOff, SignsOff

\* A stage that was signed off stays signed off, and one that a handler enters
\* was earned where the handler read the row.  A step that starts no handler and
\* ends none is a POST or a PUT when it moves the status.
LEMMA EarnedStep ==
  ASSUME TypeOK, TypeOK', [Next]_vars, NEW c \in Contracts, EarnedAt(c),
         inflight' = inflight /\ status'[c] # status[c] => Earned(c, status'[c])
  PROVE  EarnedAt(c)'
<1>0. ASSUME NEW s, Earned(c, s)
      PROVE  Earned(c, s)'
  BY <1>0, SignedOffIsStable DEF Earned
<1>1. Earned(c, status[c])'
  <2>1. CASE status'[c] = status[c]
    BY <1>0, <2>1 DEF EarnedAt, Earned
  <2>2. CASE status'[c] # status[c] /\ inflight' = inflight
    <3>1. Earned(c, status'[c])
      BY <2>2
    <3>2. \A role \in MustHaveSigned(status'[c]) : SignedOff(c, role)
      BY <3>1 DEF Earned
    <3>3. \A role \in MustHaveSigned(status'[c]) : SignedOff(c, role)'
      BY <3>2, SignedOffIsStable
    <3>4. QED
      BY <3>3 DEF Earned
  <2>3. CASE status'[c] # status[c] /\ inflight' # inflight
    <3>1. PICK h \in inflight : applyTransition(h)
      BY <2>3 DEF Next, vars, Create, Update, Delete, Transition, TransitionFailed
    <3>2. c = h.contract /\ status'[c] = h.rule.to
      BY <2>3, <3>1 DEF applyTransition, EventOf, TypeOK
    <3>3. Earned(c, h.rule.from)' /\ Authorized(h.actor, h.rule)
      BY <1>0, <3>2 DEF EarnedAt
    <3>4. ASSUME NEW role \in MustHaveSigned(h.rule.to)
          PROVE  SignedOff(c, role)'
      BY <3>1, <3>2, <3>3, AppliedRuleIsSigned DEF Earned
    <3>5. QED
      BY <3>2, <3>4 DEF Earned
  <2>4. QED
    BY <2>1, <2>2, <2>3
<1>2. ASSUME NEW h \in inflight', h.contract = c
      PROVE  Earned(c, h.rule.from)' /\ Authorized(h.actor, h.rule)
  <2>1. CASE h \in inflight
    BY <1>0, <1>2, <2>1 DEF EarnedAt
  <2>2. CASE h \notin inflight
    <3>1. PICK r \in Requests, d \in Contracts, a \in Actors, rule \in AllRules :
            Transition(r, d, a, rule)
      BY <2>2 DEF Next, vars, Create, Update, Delete, applyTransition, EventOf, TransitionFailed
    <3>2. d = c /\ h.actor = a /\ h.rule = rule
      BY <1>2, <2>2, <3>1 DEF Transition
    <3>3. Earned(c, rule.from)
      BY <3>1, <3>2 DEF Transition, EarnedAt
    <3>4. QED
      BY <1>0, <3>1, <3>2, <3>3 DEF Transition
  <2>3. QED
    BY <2>1, <2>2
<1>3. QED
  BY <1>1, <1>2 DEF EarnedAt

(***************************************************************************)
(* However many requests overlap, and whatever POST and PUT write, a       *)
(* contract stands at a stage only with every earlier head's approval on   *)
(* record, unless a POST or PUT itself once wrote a status whose approvals *)
(* were not there.                                                         *)
(***************************************************************************)
THEOREM ChainIsSound == HistorySpec => []NoStageSkippedUnlessWritten
  <1> DEFINE ChainInv == \A c \in Contracts \ overridden : EarnedAt(c)
  <1>1. HistoryInit => ChainInv
    BY DraftNeedsNothing DEF HistoryInit, Init, EarnedAt, Earned
  <1>2. TypeOK /\ TypeOK' /\ ChainInv /\ [HistoryNext]_historyVars => ChainInv'
    <2> SUFFICES ASSUME TypeOK, TypeOK', ChainInv, [HistoryNext]_historyVars,
                        NEW c \in Contracts, c \notin overridden'
                 PROVE  EarnedAt(c)'
      OBVIOUS
    <2>1. c \notin overridden
      BY DEF HistoryNext, historyVars, Writes, Deletes, Reads, Commits, GivesUp
    <2>2. [Next]_vars
      BY HistoryStepIsStep
    <2>3. ASSUME inflight' = inflight, status'[c] # status[c]
          PROVE  Earned(c, status'[c])
      <3>1. PICK d \in Contracts, s \in ContractStatus : Writes(d, s)
        BY <2>3 DEF HistoryNext, historyVars, Deletes, Delete, Reads, Transition, Commits,
                    applyTransition, GivesUp, TransitionFailed
      <3>2. d = c /\ status'[c] = s
        BY <2>3, <3>1 DEF Writes, Create, Update, TypeOK
      <3>3. ~ Unearned(c, s)
        BY <3>1, <3>2 DEF Writes
      <3>4. QED
        BY <3>2, <3>3 DEF Unearned, Earned
    <2>4. QED
      BY <2>1, <2>2, <2>3, EarnedStep
  <1>3. ChainInv => NoStageSkippedUnlessWritten
    BY DEF NoStageSkippedUnlessWritten, Unearned, EarnedAt, Earned
  <1>4. QED
    BY <1>1, <1>2, <1>3, HistoryIsWorkflow, TypeCorrect, PTL DEF HistorySpec

-----------------------------------------------------------------------------
(***************************************************************************)
(* signed_at and the trail.  Inductive once it is said that a row not yet  *)
(* created has an empty trail, no stamp, and no handler working on it.     *)
(***************************************************************************)
Signings(c) == \E i \in DOMAIN approvals[c] : approvals[c][i].to = "signed"

BlankUntilCreated ==
  /\ \A c \in Contracts :
       row[c] = "absent" => status[c] = "draft" /\ ~signedAt[c] /\ approvals[c] = <<>>
  /\ \A h \in inflight : row[h.contract] # "absent"

\* A row that is not there yet has the columns of a new one, no event and no
\* handler at work on it.
LEMMA BlankIsInvariant == Spec => []BlankUntilCreated
  <1>1. Init => BlankUntilCreated
    BY DEF Init, BlankUntilCreated
  <1>2. TypeOK /\ BlankUntilCreated /\ [Next]_vars => BlankUntilCreated'
    <2> SUFFICES ASSUME TypeOK, BlankUntilCreated, [Next]_vars
                 PROVE  BlankUntilCreated'
      OBVIOUS
    <2> USE DEF BlankUntilCreated, TypeOK, Handler
    <2>1. ASSUME NEW c \in Contracts, NEW s \in ContractStatus, Create(c, s) \/ Update(c, s)
          PROVE  BlankUntilCreated'
      BY <2>1 DEF Create, Update
    <2>2. ASSUME NEW c \in Contracts, Delete(c)
          PROVE  BlankUntilCreated'
      BY <2>2 DEF Delete
    <2>3. ASSUME NEW r \in Requests, NEW c \in Contracts, NEW a \in Actors,
                 NEW rule \in AllRules, Transition(r, c, a, rule)
          PROVE  BlankUntilCreated'
      BY <2>3 DEF Transition
    <2>4. ASSUME NEW h \in inflight, applyTransition(h)
          PROVE  BlankUntilCreated'
      BY <2>4 DEF applyTransition, EventOf
    <2>5. ASSUME NEW h \in inflight, TransitionFailed(h)
          PROVE  BlankUntilCreated'
      BY <2>5 DEF TransitionFailed
    <2>6. CASE UNCHANGED vars
      BY <2>6 DEF vars
    <2>7. QED
      BY <2>1, <2>2, <2>3, <2>4, <2>5, <2>6 DEF Next
  <1>3. QED
    BY <1>1, <1>2, TypeCorrect, PTL DEF Spec

(***************************************************************************)
(* On every live contract signed_at is set exactly when a signing is in    *)
(* the trail, whatever overlaps and whatever POST and PUT write.           *)
(***************************************************************************)
THEOREM StampIsSound == Spec => []SignedAtMatchesTrail
  <1>1. Init => SignedAtMatchesTrail
    BY DEF Init, SignedAtMatchesTrail
  <1>2. TypeOK /\ BlankUntilCreated /\ SignedAtMatchesTrail /\ [Next]_vars
          => SignedAtMatchesTrail'
    <2> SUFFICES ASSUME TypeOK, BlankUntilCreated, SignedAtMatchesTrail, [Next]_vars,
                        NEW c \in Contracts, row'[c] = "live"
                 PROVE  signedAt'[c] <=> Signings(c)'
      BY DEF SignedAtMatchesTrail, Signings
    <2>1. CASE row[c] = "live" /\ signedAt'[c] = signedAt[c] /\ approvals'[c] = approvals[c]
      BY <2>1 DEF SignedAtMatchesTrail, Signings
    <2>2. CASE row[c] # "live"
      <3>1. row[c] = "absent" /\ signedAt'[c] = signedAt[c] /\ approvals'[c] = approvals[c]
        BY <2>2 DEF Next, vars, Create, Update, Delete, Transition, applyTransition, EventOf,
                    TransitionFailed, TypeOK
      <3>2. QED
        BY <3>1 DEF BlankUntilCreated, Signings
    <2>3. ASSUME NEW h \in inflight, applyTransition(h), h.contract = c, row[c] = "live"
          PROVE  signedAt'[c] <=> Signings(c)'
      <3>1. DEFINE e == [actor |-> h.actor, from |-> h.rule.from, to |-> h.rule.to]
      <3>2. approvals[c] \in Seq(Event) /\ approvals'[c] = Append(approvals[c], e)
        BY <2>3 DEF applyTransition, EventOf, TypeOK
      <3>3. Signings(c)' <=> (Signings(c) \/ e.to = "signed")
        BY <3>2 DEF Signings
      <3>4. signedAt'[c] <=> (signedAt[c] \/ h.rule.to = "signed")
        BY <2>3 DEF applyTransition, EventOf, TypeOK
      <3>5. QED
        BY <2>3, <3>3, <3>4 DEF SignedAtMatchesTrail, Signings
    <2>4. QED
      <3>1. ASSUME NEW h \in inflight, applyTransition(h), h.contract # c
            PROVE  signedAt'[c] = signedAt[c] /\ approvals'[c] = approvals[c]
        BY <3>1 DEF applyTransition, EventOf, TypeOK
      <3>2. ASSUME \A h \in inflight : ~applyTransition(h)
            PROVE  signedAt'[c] = signedAt[c] /\ approvals'[c] = approvals[c]
        BY <3>2 DEF Next, vars, Create, Update, Delete, Transition, TransitionFailed
      <3>3. QED
        BY <2>1, <2>2, <2>3, <3>1, <3>2
  <1>3. QED
    BY <1>1, <1>2, TypeCorrect, BlankIsInvariant, PTL DEF Spec

-----------------------------------------------------------------------------
(***************************************************************************)
(* The trail.  A handler that nobody overtook still finds the contract as  *)
(* it read it, so its two halves are as good as one step.                  *)
(***************************************************************************)

\* The status the trail of c ends in.
TrailEnd(c) ==
  LET n == Len(approvals[c]) IN IF n = 0 THEN "draft" ELSE approvals[c][n].to

FreshRead ==
  \A h \in inflight :
    h.request \notin overtaken =>
      /\ h.rule.from = status[h.contract]
      /\ h.contract \notin strayed => h.rule.from = TrailEnd(h.contract)

TrailInv == TrailExactUnlessStrayed /\ FreshRead

\* No two handlers in flight have the same identity.
RequestsDiffer == \A h, g \in inflight : h.request = g.request => h = g

\* An identity is free when Transition takes it, so no two handlers share one.
LEMMA RequestsDifferInvariant == Spec => []RequestsDiffer
  <1>1. Init => RequestsDiffer
    BY DEF Init, RequestsDiffer
  <1>2. RequestsDiffer /\ [Next]_vars => RequestsDiffer'
    <2> SUFFICES ASSUME RequestsDiffer, [Next]_vars
                 PROVE  RequestsDiffer'
      OBVIOUS
    <2>1. ASSUME NEW r \in Requests, NEW c \in Contracts, NEW a \in Actors,
                 NEW rule \in AllRules, Transition(r, c, a, rule)
          PROVE  RequestsDiffer'
      <3>1. DEFINE new == [request |-> r, contract |-> c, actor |-> a, rule |-> rule]
      <3>2. inflight' = inflight \cup {new} /\ \A h \in inflight : h.request # new.request
        BY <2>1 DEF Transition
      <3>3. QED
        BY <3>2 DEF RequestsDiffer
    <2>2. ASSUME inflight' \subseteq inflight
          PROVE  RequestsDiffer'
      BY <2>2 DEF RequestsDiffer
    <2>3. QED
      BY <2>1, <2>2
         DEF Next, vars, Create, Update, Delete, applyTransition, EventOf, TransitionFailed
  <1>3. QED
    BY <1>1, <1>2, PTL DEF Spec

\* The other handlers at work on the contract are overtaken by a commit.
LEMMA CommitOvertakes ==
  ASSUME RequestsDiffer, NEW h \in inflight, Commits(h), NEW g \in inflight',
         g.request \notin overtaken'
  PROVE  g \in inflight /\ g.contract # h.contract /\ g.request \notin overtaken
  <1>1. g \in inflight /\ g # h
    BY DEF Commits, applyTransition
  <1>2. g.request # h.request
    BY <1>1 DEF RequestsDiffer
  <1>3. QED
    BY <1>1, <1>2 DEF Commits, AtWork

\* An exact trail with the event of a handler that read its last status.
LEMMA TrailGrows ==
  ASSUME TypeOK, NEW h \in inflight, applyTransition(h), NEW c \in Contracts,
         c = h.contract, TrailExact(c), h.rule.from = TrailEnd(c)
  PROVE  TrailExact(c)'
  <1>1. DEFINE e == [actor |-> h.actor, from |-> h.rule.from, to |-> h.rule.to]
  <1>2. /\ approvals[c] \in Seq(Event)
        /\ approvals'[c] = Append(approvals[c], e)
        /\ row'[c] = "live" => status'[c] = e.to
    BY DEF applyTransition, EventOf, TypeOK
  <1>3. \A i \in 1..Len(approvals[c]) : approvals[c][i].from =
          IF i = 1 THEN "draft" ELSE approvals[c][i - 1].to
    BY DEF TrailExact
  <1>4. Len(approvals'[c]) = Len(approvals[c]) + 1 /\ Len(approvals[c]) \in Nat
    BY <1>2
  <1>5. /\ approvals'[c][Len(approvals[c]) + 1] = e
        /\ \A i \in 1..Len(approvals[c]) : approvals'[c][i] = approvals[c][i]
    BY <1>2
  <1>6. e.from = IF Len(approvals[c]) = 0 THEN "draft"
                 ELSE approvals[c][Len(approvals[c])].to
    BY DEF TrailEnd
  <1>7. ASSUME NEW i \in 1..Len(approvals'[c])
        PROVE  approvals'[c][i].from =
                 IF i = 1 THEN "draft" ELSE approvals'[c][i - 1].to
    <2>1. CASE i = Len(approvals[c]) + 1
      BY <1>4, <1>5, <1>6, <2>1
    <2>2. CASE i # Len(approvals[c]) + 1
      <3>1. i \in 1..Len(approvals[c]) /\ (i = 1 \/ i - 1 \in 1..Len(approvals[c]))
        BY <1>4, <2>2
      <3>2. approvals'[c][i] = approvals[c][i]
        BY <1>5, <3>1
      <3>3. i # 1 => approvals'[c][i - 1] = approvals[c][i - 1]
        BY <1>5, <3>1
      <3>4. QED
        BY <1>3, <3>1, <3>2, <3>3
    <2>3. QED
      BY <2>1, <2>2
  <1>8. QED
    BY <1>2, <1>4, <1>5, <1>7 DEF TrailExact

\* A handler that was not overtaken acts on the status it read, and, on a contract
\* that has not strayed, the trail ends in that status.
LEMMA TrailInvariant == HistorySpec => []TrailInv
  <1>1. HistoryInit => TrailInv
    BY DEF HistoryInit, Init, TrailInv, TrailExactUnlessStrayed, TrailExact, FreshRead
  <1>2. TypeOK /\ BlankUntilCreated /\ RequestsDiffer /\ TrailInv
          /\ [HistoryNext]_historyVars => TrailInv'
    <2> SUFFICES ASSUME TypeOK, BlankUntilCreated, RequestsDiffer, TrailInv,
                        [HistoryNext]_historyVars
                 PROVE  TrailInv'
      OBVIOUS
    <2>1. ASSUME NEW c \in Contracts, NEW s \in ContractStatus, Writes(c, s)
          PROVE  TrailInv'
      <3>1. /\ UNCHANGED <<approvals, inflight>>
            /\ \A d \in Contracts \ {c} : row'[d] = row[d] /\ status'[d] = status[d]
            /\ status'[c] = s
            /\ row[c] = "absent" => approvals[c] = <<>> /\ status[c] = "draft"
            /\ row[c] = "absent" \/ row[c] = "live"
        BY <2>1 DEF Writes, Create, Update, TypeOK, BlankUntilCreated
      <3>2. /\ s # status[c] => c \in strayed' /\ AtWork(c) \subseteq overtaken'
            /\ strayed \subseteq strayed' /\ overtaken \subseteq overtaken'
        BY <2>1 DEF Writes
      <3>3. ASSUME NEW d \in Contracts \ strayed'
            PROVE  TrailExact(d)'
        <4>1. d \notin strayed /\ status'[d] = status[d] /\ TrailExact(d)
          BY <3>1, <3>2, <3>3 DEF TrailInv, TrailExactUnlessStrayed
        <4>2. CASE d = c /\ row[c] = "absent"
          BY <3>1, <4>1, <4>2 DEF TrailExact
        <4>3. CASE d # c \/ row[c] # "absent"
          <5>1. row'[d] = "live" => row[d] = "live"
            BY <3>1, <4>3
          <5>2. QED
            BY <3>1, <4>1, <5>1 DEF TrailExact
        <4>4. QED
          BY <4>2, <4>3
      <3>4. ASSUME NEW h \in inflight, h.request \notin overtaken'
            PROVE  /\ h.rule.from = status'[h.contract]
                   /\ h.contract \notin strayed' => h.rule.from = TrailEnd(h.contract)'
        <4>1. h.contract \in Contracts
          BY DEF TypeOK, Handler
        <4>2. status'[h.contract] = status[h.contract]
          BY <3>1, <3>2, <3>4, <4>1 DEF AtWork
        <4>3. QED
          BY <3>1, <3>2, <3>4, <4>2 DEF TrailInv, FreshRead, TrailEnd
      <3>5. QED
        BY <3>1, <3>3, <3>4 DEF TrailInv, TrailExactUnlessStrayed, FreshRead
    <2>2. ASSUME NEW c \in Contracts, Deletes(c)
          PROVE  TrailInv'
      BY <2>2 DEF Deletes, Delete, TypeOK, TrailInv, TrailExactUnlessStrayed, TrailExact,
                  FreshRead, TrailEnd
    <2>3. ASSUME NEW r \in Requests, NEW c \in Contracts, NEW a \in Actors,
                 NEW rule \in AllRules, Reads(r, c, a, rule)
          PROVE  TrailInv'
      <3>1. UNCHANGED <<row, status, approvals, overtaken, strayed>>
        BY <2>3 DEF Reads, Transition
      <3>2. TrailExactUnlessStrayed'
        BY <3>1 DEF TrailInv, TrailExactUnlessStrayed, TrailExact
      <3>3. rule.from = status[c] /\ (c \notin strayed => rule.from = TrailEnd(c))
        BY <2>3 DEF Reads, Transition, TrailInv, TrailExactUnlessStrayed, TrailExact, TrailEnd
      <3>4. ASSUME NEW h \in inflight'
            PROVE  h \in inflight \/ (h.contract = c /\ h.rule = rule)
        BY <2>3 DEF Reads, Transition
      <3>5. FreshRead'
        BY <3>1, <3>3, <3>4 DEF TrailInv, FreshRead, TrailEnd
      <3>6. QED
        BY <3>2, <3>5 DEF TrailInv
    <2>4. ASSUME NEW h \in inflight, Commits(h)
          PROVE  TrailInv'
      <3>1. /\ h.contract \in Contracts /\ applyTransition(h)
            /\ strayed' = IF h.request \in overtaken THEN strayed \cup {h.contract}
                                                     ELSE strayed
        BY <2>4 DEF TypeOK, Handler, Commits
      <3>2. ASSUME NEW c \in Contracts, c # h.contract
            PROVE  approvals'[c] = approvals[c] /\ status'[c] = status[c] /\ row'[c] = row[c]
        BY <3>1, <3>2 DEF applyTransition, EventOf, TypeOK
      <3>3. ASSUME NEW c \in Contracts \ strayed'
            PROVE  TrailExact(c)'
        <4>1. TrailExact(c) /\ c \notin strayed
          BY <3>1, <3>3 DEF TrailInv, TrailExactUnlessStrayed
        <4>2. CASE c # h.contract
          BY <3>2, <4>1, <4>2 DEF TrailExact
        <4>3. CASE c = h.contract
          <5>1. h.rule.from = TrailEnd(c)
            BY <3>1, <3>3, <4>1, <4>3 DEF TrailInv, FreshRead
          <5>2. QED
            BY <3>1, <4>1, <4>3, <5>1, TrailGrows
        <4>4. QED
          BY <4>2, <4>3
      <3>4. ASSUME NEW g \in inflight', g.request \notin overtaken'
            PROVE  /\ g.rule.from = status'[g.contract]
                   /\ g.contract \notin strayed' => g.rule.from = TrailEnd(g.contract)'
        <4>1. g \in inflight /\ g.contract # h.contract /\ g.request \notin overtaken
          BY <2>4, <3>4, CommitOvertakes
        <4>2. g.contract \in Contracts
          BY <4>1 DEF TypeOK, Handler
        <4>3. QED
          BY <3>1, <3>2, <4>1, <4>2 DEF TrailInv, FreshRead, TrailEnd
      <3>5. QED
        BY <3>3, <3>4 DEF TrailInv, TrailExactUnlessStrayed, FreshRead
    <2>5. ASSUME NEW h \in inflight, GivesUp(h)
          PROVE  TrailInv'
      <3>1. UNCHANGED <<row, status, approvals, strayed>> /\ inflight' = inflight \ {h}
            /\ overtaken' = overtaken \ {h.request}
        BY <2>5 DEF GivesUp, TransitionFailed
      <3>2. ASSUME NEW g \in inflight', g.request \notin overtaken'
            PROVE  g \in inflight /\ g.request \notin overtaken
        BY <3>1, <3>2 DEF RequestsDiffer
      <3>3. QED
        BY <3>1, <3>2 DEF TrailInv, TrailExactUnlessStrayed, TrailExact, FreshRead, TrailEnd
    <2>6. CASE UNCHANGED historyVars
      BY <2>6 DEF historyVars, TrailInv, TrailExactUnlessStrayed, TrailExact, FreshRead, TrailEnd
    <2>7. QED
      BY <2>1, <2>2, <2>3, <2>4, <2>5, <2>6 DEF HistoryNext
  <1>3. QED
    BY <1>1, <1>2, HistoryIsWorkflow, TypeCorrect, BlankIsInvariant, RequestsDifferInvariant,
       PTL DEF HistorySpec

(***************************************************************************)
(* On every contract that has not strayed the trail is exactly the history *)
(* of the status, however many requests overlap.                           *)
(***************************************************************************)
THEOREM TrailIsExact == HistorySpec => []TrailExactUnlessStrayed
  <1>1. TrailInv => TrailExactUnlessStrayed
    BY DEF TrailInv
  <1>2. QED
    BY <1>1, TrailInvariant, PTL

\* Neither the state machine nor cancel has a rule that starts in cancelled.
LEMMA NoRuleLeavesCancelled ==
  ASSUME NEW rule \in AllRules
  PROVE  rule.from # "cancelled"
  BY DEF AllRules, contractStateMachine, CancelRules, Rule

(***************************************************************************)
(* Whatever overlaps, only a PUT of another status or a transition that    *)
(* the cancellation overtook brings a cancelled contract back.             *)
(***************************************************************************)
THEOREM CancelledStaysCancelled == HistorySpec => CancelIsFinalUnlessRaced
  <1>1. ASSUME TypeOK, BlankUntilCreated, TrailInv, [HistoryNext]_historyVars,
               NEW c \in Contracts, status[c] = "cancelled", status'[c] # "cancelled"
        PROVE  \/ \E s \in WrittenStatuses : Update(c, s)
               \/ \E h \in inflight \ inflight' :
                    h.contract = c /\ h.request \in overtaken
    <2>1. ASSUME NEW h \in inflight, Commits(h)
          PROVE  h \in inflight \ inflight' /\ h.contract = c /\ h.request \in overtaken
      <3>1. h \notin inflight' /\ h.contract = c
        BY <1>1, <2>1 DEF Commits, applyTransition, EventOf, TypeOK
      <3>2. h.rule.from # status[c]
        BY <1>1, NoRuleLeavesCancelled DEF TypeOK, Handler
      <3>3. QED
        BY <1>1, <3>1, <3>2 DEF TrailInv, FreshRead
    <2>2. ASSUME NEW d \in Contracts, NEW s \in ContractStatus, Writes(d, s)
          PROVE  \E t \in WrittenStatuses : Update(c, t)
      <3>1. d = c /\ ~ Create(d, s)
        BY <1>1, <2>2 DEF Writes, Create, Update, BlankUntilCreated, TypeOK
      <3>2. Update(c, s) /\ s \in WrittenStatuses
        BY <2>2, <3>1 DEF Writes, Update
      <3>3. QED
        BY <3>2
    <2>3. QED
      BY <1>1, <2>1, <2>2
         DEF HistoryNext, historyVars, Deletes, Delete, Reads, Transition, GivesUp,
             TransitionFailed
  <1>2. TypeOK /\ BlankUntilCreated /\ TrailInv /\ [HistoryNext]_historyVars
          => [\A c \in Contracts :
                status[c] = "cancelled" /\ status'[c] # "cancelled" =>
                  \/ \E s \in WrittenStatuses : Update(c, s)
                  \/ \E h \in inflight \ inflight' :
                       h.contract = c /\ h.request \in overtaken]_historyVars
    BY <1>1
  <1>3. QED
    BY <1>2, HistoryIsWorkflow, TypeCorrect, BlankIsInvariant, TrailInvariant,
       PTL DEF HistorySpec, CancelIsFinalUnlessRaced

-----------------------------------------------------------------------------
(***************************************************************************)
(* The contract approval workflow implements the abstract sign-off chain,  *)
(* ContractRounds, for any contracts, actors, roles, requests in flight and*)
(* statuses in POST and PUT bodies.                                        *)
(***************************************************************************)

\* How many heads have signed off behind a status.
Passed(s) ==
  CASE s = "pending_engineering" -> 0
    [] s = "pending_finance" -> 1
    [] s = "pending_legal" -> 2
    [] s = "pending_ceo" -> 3
    [] OTHER -> 4

InRound(c) == RoundPhase(c) \in {"review", "binding"}

\* The sign-offs of the round in progress are those the status stands for, no
\* more and no fewer.
RoundInv ==
  \A c \in Contracts : InRound(c) => SignedIn(approvals[c]) = 1..Passed(status[c])

\* Who is at work on a transition may take it.
EntitledReads == \A h \in inflight : Authorized(h.actor, h.rule)

-----------------------------------------------------------------------------
LEMMA HeadsAre ==
  /\ Len(Heads) = 4 /\ DOMAIN Heads = 1..4
  /\ Heads[1] = "engineering_head" /\ Heads[2] = "finance_head"
  /\ Heads[3] = "juridical_head" /\ Heads[4] = "manager"
BY DEF Heads

LEMMA PassedIsCount == \A s : Passed(s) \in 0..4
BY DEF Passed

\* The first m heads are a prefix of length m.
LEMMA PrefixOfFirst == ASSUME NEW m \in 0..4 PROVE Prefix(1..m) = m
<1>1. \A n \in 0..4 : (1..n \subseteq 1..m /\ (n < 4 => n + 1 \notin 1..m)) <=> n = m
  OBVIOUS
<1> QED
  BY <1>1, HeadsAre DEF Prefix

\* A submission begins a new round; any other event adds what it signs.
LEMMA SignedAfter ==
  ASSUME NEW tr \in Seq(Event), NEW e \in Event
  PROVE  SignedIn(Append(tr, e)) =
           IF e.to = "pending_engineering" THEN {}
           ELSE SignedIn(tr) \cup {k \in DOMAIN Heads : SignsOff(e, Heads[k])}
<1> DEFINE tr2 == Append(tr, e)
<1>1. /\ Len(tr) \in Nat /\ Len(tr2) = Len(tr) + 1
      /\ DOMAIN tr = 1..Len(tr) /\ DOMAIN tr2 = 1..(Len(tr) + 1)
      /\ tr2[Len(tr) + 1] = e
      /\ \A i \in 1..Len(tr) : tr2[i] = tr[i]
  OBVIOUS
<1> HIDE DEF tr2
<1>2. CASE e.to = "pending_engineering"
  <2>1. \A i \in DOMAIN tr2 : Len(tr) + 1 \in i..Len(tr2)
    BY <1>1
  <2> QED
    BY <1>1, <1>2, <2>1 DEF SignedIn, tr2
<1>3. CASE e.to # "pending_engineering"
  <2>1. ASSUME NEW i \in 1..Len(tr)
        PROVE  (\A j \in i..Len(tr2) : tr2[j].to # "pending_engineering")
                 <=> (\A j \in i..Len(tr) : tr[j].to # "pending_engineering")
    <3>1. \A j : j \in i..Len(tr2) <=> j \in i..Len(tr) \/ j = Len(tr) + 1
      BY <1>1
    <3>2. \A j \in i..Len(tr) : tr2[j] = tr[j]
      BY <1>1
    <3> QED
      BY <1>1, <1>3, <3>1, <3>2
  <2>2. \A j \in (Len(tr) + 1)..Len(tr2) : tr2[j].to # "pending_engineering"
    BY <1>1, <1>3
  <2>3. ASSUME NEW k \in DOMAIN Heads
        PROVE  k \in SignedIn(tr2) <=> k \in SignedIn(tr) \/ SignsOff(e, Heads[k])
    <3>1. CASE SignsOff(e, Heads[k])
      BY <1>1, <2>2, <3>1 DEF SignedIn
    <3>2. CASE ~ SignsOff(e, Heads[k])
      <4>1. \A i \in DOMAIN tr2 : SignsOff(tr2[i], Heads[k]) => i \in 1..Len(tr)
        BY <1>1, <3>2
      <4> QED
        BY <1>1, <2>1, <3>2, <4>1 DEF SignedIn
    <3> QED
      BY <3>1, <3>2
  <2> QED
    BY <1>3, <2>3 DEF SignedIn, tr2
<1> QED
  BY <1>2, <1>3 DEF tr2

\* What an authorized rule signs: at a desk the head of that desk, elsewhere
\* nobody.
LEMMA RuleSigns ==
  ASSUME NEW rule \in AllRules, NEW a, Authorized(a, rule), NEW e,
         e.actor = a, e.from = rule.from, e.to = rule.to
  PROVE  /\ rule.to \in {"draft", "cancelled"} => {k \in DOMAIN Heads : SignsOff(e, Heads[k])} = {}
         /\ rule.from = "draft" /\ rule.to # "cancelled" => rule.to = "pending_engineering"
         /\ rule.from \in {"ready_to_print", "signed"} =>
              {k \in DOMAIN Heads : SignsOff(e, Heads[k])} = {}
         /\ rule.action = "approve" =>
              /\ {k \in DOMAIN Heads : SignsOff(e, Heads[k])} = {Passed(rule.from) + 1}
              /\ Passed(rule.from) \in 0..3
              /\ Passed(rule.to) = Passed(rule.from) + 1
<1>1. \A role \in {"engineering_head", "finance_head", "juridical_head", "manager"} :
        SignsOff(e, role) <=> /\ rule.from = Desk[role]
                              /\ rule.to \notin {"draft", "cancelled"}
                              /\ role \in RolesOf[a]
  BY DEF SignsOff
<1>2. RolesOf[a] \cap rule.roles # {}
  BY DEF Authorized
<1> QED
  BY <1>1, <1>2, HeadsAre DEF AllRules, contractStateMachine, CancelRules, Rule, Desk, Passed

-----------------------------------------------------------------------------
LEMMA EntitledInvariant == Spec => []EntitledReads
<1>1. Init => EntitledReads
  BY DEF Init, EntitledReads
<1>2. EntitledReads /\ [Next]_vars => EntitledReads'
  <2> SUFFICES ASSUME EntitledReads, [Next]_vars PROVE EntitledReads'
    OBVIOUS
  <2>1. ASSUME NEW r \in Requests, NEW c \in Contracts, NEW a \in Actors,
               NEW rule \in AllRules, Transition(r, c, a, rule)
        PROVE  EntitledReads'
    <3>1. Authorized(a, rule)
          /\ inflight' = inflight \cup
               {[request |-> r, contract |-> c, actor |-> a, rule |-> rule]}
      BY <2>1 DEF Transition
    <3>2. \A h \in inflight' : h \in inflight \/ (h.actor = a /\ h.rule = rule)
      BY <3>1
    <3> QED
      BY <3>1, <3>2 DEF EntitledReads, Authorized, PassesRoute
  <2>2. ASSUME inflight' \subseteq inflight
        PROVE  EntitledReads'
    BY <2>2 DEF EntitledReads, Authorized, PassesRoute
  <2> QED
    BY <2>1, <2>2 DEF Next, vars, Create, Update, Delete, applyTransition, TransitionFailed
<1> QED
  BY <1>1, <1>2, PTL DEF Spec

-----------------------------------------------------------------------------
(***************************************************************************)
(* One step, and what is known before it.                                  *)
(***************************************************************************)
Known == TypeOK /\ BlankUntilCreated /\ TrailInv /\ RequestsDiffer /\ EntitledReads

\* On a contract that does not stray a transition is applied to the status it read,
\* and a deleted row stays as it is.
LEMMA Applied ==
  ASSUME Known, NEW h \in inflight, Commits(h)
  PROVE  /\ h.contract \in Contracts /\ h.rule \in AllRules
         /\ h.contract \notin strayed' => h.rule.from = status[h.contract]
         /\ strayed \subseteq strayed' /\ strayed' \subseteq strayed \cup {h.contract}
         /\ row' = row /\ row[h.contract] \in {"live", "deleted"}
         /\ status' = IF row[h.contract] = "live"
                        THEN [status EXCEPT ![h.contract] = h.rule.to] ELSE status
         /\ \A d \in Contracts \ {h.contract} : approvals'[d] = approvals[d]
         /\ SignedIn(approvals'[h.contract]) =
              IF h.rule.to = "pending_engineering" THEN {}
              ELSE SignedIn(approvals[h.contract])
                     \cup {k \in DOMAIN Heads : SignsOff(EventOf(h), Heads[k])}
<1>1. /\ h.contract \in Contracts /\ h.rule \in AllRules /\ h.actor \in Actors
  BY DEF Known, TypeOK, Handler
<1>2. /\ h.contract \notin strayed' => h.rule.from = status[h.contract]
      /\ strayed \subseteq strayed' /\ strayed' \subseteq strayed \cup {h.contract}
      /\ row[h.contract] \in {"live", "deleted"}
  BY <1>1 DEF Known, TrailInv, FreshRead, BlankUntilCreated, TypeOK, Commits
<1>3. EventOf(h) \in Event /\ EventOf(h).to = h.rule.to
  BY <1>1, RuleTypes DEF EventOf, Event
<1>4. approvals[h.contract] \in Seq(Event) /\ approvals \in [Contracts -> Seq(Event)]
  BY <1>1 DEF Known, TypeOK
<1>5. approvals' = [approvals EXCEPT ![h.contract] = Append(approvals[h.contract], EventOf(h))]
  BY DEF Commits, applyTransition
<1>6. approvals'[h.contract] = Append(approvals[h.contract], EventOf(h))
  BY <1>1, <1>4, <1>5
<1>7. \A d \in Contracts \ {h.contract} : approvals'[d] = approvals[d]
  BY <1>4, <1>5
<1>8. row' = row /\ status' = IF row[h.contract] = "live"
                                THEN [status EXCEPT ![h.contract] = h.rule.to] ELSE status
  BY DEF Commits, applyTransition
<1> QED
  BY <1>1, <1>2, <1>3, <1>4, <1>6, <1>7, <1>8, SignedAfter

\* The signing part of a round: what Applied says of the contract it is about.
LEMMA AppliedKeepsRound ==
  ASSUME Known, RoundInv, NEW h \in inflight, Commits(h), InRound(h.contract)'
  PROVE  SignedIn(approvals'[h.contract]) = 1..Passed(status'[h.contract])
<1> DEFINE c == h.contract
           new == {k \in DOMAIN Heads : SignsOff(EventOf(h), Heads[k])}
<1>1. /\ c \in Contracts /\ h.rule \in AllRules /\ h.rule.from = status[c] /\ row' = row
      /\ row[c] \in {"live", "deleted"} /\ status[c] \in ContractStatus
      /\ status \in [Contracts -> ContractStatus] /\ c \notin strayed
  <2>1. c \notin strayed'
    BY DEF InRound, RoundPhase
  <2> QED
    BY <2>1, Applied DEF Known, TypeOK
<1>2. row[c] = "live" /\ status'[c] = h.rule.to
      /\ h.rule.to \notin {"draft", "cancelled", "closed"}
  <2>1. row[c] = "live"
    BY <1>1 DEF InRound, RoundPhase, StatusPhase
  <2>2. status'[c] = h.rule.to
    BY <1>1, <2>1, Applied
  <2> QED
    BY <1>1, <2>1, <2>2 DEF InRound, RoundPhase, StatusPhase
<1>3. Authorized(h.actor, h.rule)
  BY DEF Known, EntitledReads
<1>4. /\ EventOf(h).actor = h.actor /\ EventOf(h).from = h.rule.from
      /\ EventOf(h).to = h.rule.to
  BY DEF EventOf
<1>5. SignedIn(approvals'[c]) =
        IF h.rule.to = "pending_engineering" THEN {} ELSE SignedIn(approvals[c]) \cup new
  BY Applied
<1>6. CASE h.rule.to = "pending_engineering"
  BY <1>2, <1>5, <1>6 DEF Passed
<1>7. CASE h.rule.to # "pending_engineering"
  <2>1. status[c] \notin {"draft", "cancelled", "closed"}
    BY <1>1, <1>2, <1>7 DEF AllRules, contractStateMachine, CancelRules, Rule
  <2>2. InRound(c)
    BY <1>1, <1>2, <2>1 DEF InRound, RoundPhase, StatusPhase
  <2>3. SignedIn(approvals[c]) = 1..Passed(h.rule.from)
    BY <1>1, <2>2 DEF RoundInv
  <2>4. CASE h.rule.action = "approve"
    <3>1. new = {Passed(h.rule.from) + 1} /\ Passed(h.rule.from) \in 0..3
          /\ Passed(h.rule.to) = Passed(h.rule.from) + 1
      BY <1>1, <1>3, <1>4, <2>4, RuleSigns
    <3> HIDE DEF new
    <3>2. SignedIn(approvals'[c]) = 1..Passed(h.rule.from) \cup {Passed(h.rule.from) + 1}
      BY <1>5, <1>7, <2>3, <3>1
    <3>3. \A n \in 0..3 : 1..n \cup {n + 1} = 1..(n + 1)
      OBVIOUS
    <3> QED
      BY <1>2, <3>1, <3>2, <3>3
  <2>5. CASE h.rule.action # "approve"
    <3>1. h.rule.from \in {"ready_to_print", "signed"} /\ h.rule.to \in {"signed", "active"}
      BY <1>1, <1>2, <1>7, <2>5 DEF AllRules, contractStateMachine, CancelRules, Rule
    <3>2. new = {}
      BY <1>1, <1>3, <1>4, <3>1, RuleSigns
    <3> HIDE DEF new
    <3>3. Passed(h.rule.from) = 4 /\ Passed(h.rule.to) = 4
      BY <3>1 DEF Passed
    <3> QED
      BY <1>2, <1>5, <1>7, <2>3, <3>2, <3>3
  <2> QED
    BY <2>4, <2>5
<1> QED
  BY <1>6, <1>7

LEMMA RoundInvStep ==
  ASSUME Known, RoundInv, [HistoryNext]_historyVars
  PROVE  RoundInv'
<1> SUFFICES ASSUME NEW c \in Contracts, InRound(c)'
             PROVE  SignedIn(approvals'[c]) = 1..Passed(status'[c])
  BY DEF RoundInv
<1>0. c \notin strayed' /\ strayed \subseteq strayed'
  BY DEF InRound, RoundPhase, HistoryNext, historyVars, Writes, Deletes, Reads, Commits, GivesUp
<1>1. ASSUME row'[c] = row[c], status'[c] = status[c], approvals'[c] = approvals[c]
      PROVE  SignedIn(approvals'[c]) = 1..Passed(status'[c])
  BY <1>0, <1>1 DEF RoundInv, InRound, RoundPhase, StatusPhase
<1>2. ASSUME NEW d \in Contracts, NEW s \in ContractStatus, Writes(d, s)
      PROVE  SignedIn(approvals'[c]) = 1..Passed(status'[c])
  <2>1. CASE c # d
    BY <1>1, <1>2, <2>1 DEF Writes, Create, Update, Known, TypeOK
  <2>2. CASE c = d /\ row[c] # "absent"
    <3>1. s = status[c] /\ Update(c, s)
      BY <1>0, <1>2, <2>2 DEF Writes, Create
    <3> QED
      BY <1>1, <3>1 DEF Update, Known, TypeOK
  <2>3. CASE c = d /\ row[c] = "absent"
    <3>1. row'[c] = "live" /\ status'[c] = "draft"
      BY <1>0, <1>2, <2>3 DEF Writes, Create, Update, Known, TypeOK, BlankUntilCreated
    <3> QED
      BY <1>0, <3>1 DEF InRound, RoundPhase, StatusPhase
  <2> QED
    BY <2>1, <2>2, <2>3
<1>3. ASSUME NEW d \in Contracts, Deletes(d)
      PROVE  SignedIn(approvals'[c]) = 1..Passed(status'[c])
  <2>1. c # d
    BY <1>0, <1>3 DEF Deletes, Delete, InRound, RoundPhase, StatusPhase, Known, TypeOK
  <2> QED
    BY <1>1, <1>3, <2>1 DEF Deletes, Delete, Known, TypeOK
<1>4. ASSUME NEW h \in inflight, Commits(h)
      PROVE  SignedIn(approvals'[c]) = 1..Passed(status'[c])
  <2>1. CASE c = h.contract
    BY <1>4, <2>1, AppliedKeepsRound
  <2>2. CASE c # h.contract
    BY <1>1, <1>4, <2>2, Applied DEF Known, TypeOK
  <2> QED
    BY <2>1, <2>2
<1>5. CASE UNCHANGED <<row, status, approvals>>
  BY <1>1, <1>5
<1> QED
  BY <1>2, <1>3, <1>4, <1>5
     DEF HistoryNext, historyVars, Reads, Transition, GivesUp, TransitionFailed

-----------------------------------------------------------------------------
(***************************************************************************)
(* The mapping.  With RoundInv the sign-offs are a function of row and     *)
(* status, so a step of one contract changes the abstract state there.     *)
(***************************************************************************)
Signoffs(p, s) == IF p \in {"open", "withdrawn", "astray"} THEN 0 ELSE Passed(s)

LEMMA PhaseIsPhase ==
  ASSUME NEW c
  PROVE  RoundPhase(c) \in {"withdrawn", "binding", "open", "review", "astray"}
BY DEF RoundPhase, StatusPhase

LEMMA CountsBefore ==
  ASSUME RoundInv, NEW c \in Contracts
  PROVE  SignoffsThisRound(c) = Signoffs(RoundPhase(c), status[c])
BY PrefixOfFirst, PassedIsCount, PhaseIsPhase
   DEF RoundInv, InRound, SignoffsThisRound, Signoffs

LEMMA CountsAfter ==
  ASSUME RoundInv', NEW c \in Contracts
  PROVE  SignoffsThisRound(c)' = Signoffs(RoundPhase(c)', status'[c])
<1>1. RoundPhase(c)' \in {"withdrawn", "binding", "open", "review", "astray"}
  BY DEF RoundPhase, StatusPhase
<1> QED
  BY <1>1, PrefixOfFirst, PassedIsCount DEF RoundInv, InRound, SignoffsThisRound, Signoffs

\* A step that leaves the row and the status of all contracts but c, and lets
\* none but c stray.
Elsewhere(c) ==
  \A d \in Contracts \ {c} :
    row'[d] = row[d] /\ status'[d] = status[d] /\ (d \in strayed' <=> d \in strayed)

LEMMA MapOfStep ==
  ASSUME RoundInv, RoundInv', NEW c \in Contracts, Elsewhere(c)
  PROVE  /\ phases' = [phases EXCEPT ![c] = RoundPhase(c)']
         /\ counts' = [counts EXCEPT ![c] = Signoffs(RoundPhase(c)', status'[c])]
         /\ phases[c] = RoundPhase(c)
         /\ counts[c] = Signoffs(RoundPhase(c), status[c])
<1>1. \A d \in Contracts \ {c} : RoundPhase(d)' = RoundPhase(d)
  BY DEF Elsewhere, RoundPhase, StatusPhase
<1>2. \A d \in Contracts \ {c} : SignoffsThisRound(d)' = SignoffsThisRound(d)
  <2> SUFFICES ASSUME NEW d \in Contracts \ {c}
               PROVE  SignoffsThisRound(d)' = SignoffsThisRound(d)
    OBVIOUS
  <2>1. SignoffsThisRound(d) = Signoffs(RoundPhase(d), status[d])
    BY CountsBefore
  <2>2. SignoffsThisRound(d)' = Signoffs(RoundPhase(d)', status'[d])
    BY CountsAfter
  <2> QED
    BY <1>1, <2>1, <2>2 DEF Elsewhere
<1>3. SignoffsThisRound(c) = Signoffs(RoundPhase(c), status[c])
  BY CountsBefore
<1>4. SignoffsThisRound(c)' = Signoffs(RoundPhase(c)', status'[c])
  BY CountsAfter
<1> QED
  BY <1>1, <1>2, <1>3, <1>4 DEF phases, counts

\* Nothing is mapped to a step when neither phase nor sign-offs of c change.
LEMMA Stutters ==
  ASSUME RoundInv, RoundInv', NEW c \in Contracts, Elsewhere(c),
         RoundPhase(c)' = RoundPhase(c),
         Signoffs(RoundPhase(c)', status'[c]) = Signoffs(RoundPhase(c), status[c])
  PROVE  UNCHANGED <<phases, counts>>
<1>1. phases' = [phases EXCEPT ![c] = phases[c]] /\ counts' = [counts EXCEPT ![c] = counts[c]]
  BY MapOfStep
<1> QED
  BY <1>1 DEF phases, counts

LEMMA FourHeads == Len(Round!Order) = 4
BY DEF Round!Order

\* A contract that strays leaves the chain, if it has not left it before.
LEMMA StrayMaps ==
  ASSUME RoundInv, RoundInv', NEW c \in Contracts, Elsewhere(c), c \in strayed'
  PROVE  [Round!Next]_<<phases, counts>>
<1>1. RoundPhase(c)' = "astray"
  BY DEF RoundPhase
<1>2. Signoffs(RoundPhase(c)', status'[c]) = 0
  BY <1>1 DEF Signoffs
<1>3. CASE RoundPhase(c) = "astray"
  <2>1. Signoffs(RoundPhase(c), status[c]) = 0
    BY <1>3 DEF Signoffs
  <2>2. UNCHANGED <<phases, counts>>
    BY <1>1, <1>2, <1>3, <2>1, Stutters
  <2> QED
    BY <2>2
<1>4. CASE RoundPhase(c) # "astray"
  <2>1. Round!Stray(c)
    BY <1>1, <1>2, <1>4, MapOfStep DEF Round!Stray
  <2> QED
    BY <2>1 DEF Round!Next
<1> QED
  BY <1>3, <1>4

\* A row that is deleted withdraws its contract.
LEMMA DeleteMaps ==
  ASSUME Known, RoundInv, RoundInv', NEW c \in Contracts, Deletes(c)
  PROVE  [Round!Next]_<<phases, counts>>
<1>1. Elsewhere(c) /\ row'[c] = "deleted" /\ strayed' = strayed
  BY DEF Deletes, Delete, Elsewhere, Known, TypeOK
<1>2. CASE c \in strayed
  BY <1>1, <1>2, StrayMaps
<1>3. CASE c \notin strayed
  <2>1. RoundPhase(c)' = "withdrawn" /\ RoundPhase(c) # "astray"
    BY <1>1, <1>3 DEF RoundPhase, StatusPhase
  <2>2. Signoffs(RoundPhase(c)', status'[c]) = 0
    BY <2>1 DEF Signoffs
  <2>3. CASE RoundPhase(c) = "withdrawn"
    <3>1. Signoffs(RoundPhase(c), status[c]) = 0
      BY <2>3 DEF Signoffs
    <3>2. UNCHANGED <<phases, counts>>
      BY <1>1, <2>1, <2>2, <2>3, <3>1, Stutters
    <3> QED
      BY <3>2
  <2>4. CASE RoundPhase(c) # "withdrawn"
    <3>1. Round!Withdraw(c)
      BY <1>1, <2>1, <2>2, <2>4, MapOfStep DEF Round!Withdraw
    <3> QED
      BY <3>1 DEF Round!Next
  <2> QED
    BY <2>3, <2>4
<1> QED
  BY <1>2, <1>3

\* An applied transition is the move of the round its rule stands for.
LEMMA AppliedMaps ==
  ASSUME Known, RoundInv, RoundInv', NEW h \in inflight, Commits(h)
  PROVE  [Round!Next]_<<phases, counts>>
<1> DEFINE c == h.contract
<1>1. /\ c \in Contracts /\ h.rule \in AllRules
      /\ c \notin strayed' => h.rule.from = status[c] /\ c \notin strayed
      /\ row' = row /\ row[c] \in {"live", "deleted"}
      /\ status \in [Contracts -> ContractStatus]
      /\ status' = IF row[c] = "live" THEN [status EXCEPT ![c] = h.rule.to] ELSE status
      /\ strayed \subseteq strayed' /\ strayed' \subseteq strayed \cup {c}
  BY Applied DEF Known, TypeOK
<1>2. Elsewhere(c)
  BY <1>1 DEF Elsewhere
<1>3. CASE c \in strayed'
  BY <1>1, <1>2, <1>3, StrayMaps
<1>4. CASE c \notin strayed' /\ row[c] = "deleted"
  <2>1. RoundPhase(c)' = RoundPhase(c) /\ status'[c] = status[c]
    BY <1>1, <1>4 DEF RoundPhase, StatusPhase
  <2>2. UNCHANGED <<phases, counts>>
    BY <1>1, <1>2, <2>1, Stutters
  <2> QED
    BY <2>2
<1>5. CASE c \notin strayed' /\ row[c] = "live"
  <2>0. c \notin strayed /\ c \notin strayed'
    BY <1>1, <1>5
  <2>1. status[c] = h.rule.from /\ status'[c] = h.rule.to /\ row[c] = "live" /\ row'[c] = "live"
    BY <1>1, <1>5
  <2>2. /\ phases' = [phases EXCEPT ![c] = RoundPhase(c)']
        /\ counts' = [counts EXCEPT ![c] = Signoffs(RoundPhase(c)', status'[c])]
        /\ phases[c] = RoundPhase(c)
        /\ counts[c] = Signoffs(RoundPhase(c), status[c])
    BY <1>1, <1>2, MapOfStep
  <2>3. counts' = [counts EXCEPT ![c] = counts[c]] => counts' = counts
    BY DEF counts
  <2>4. CASE h.rule.to = "cancelled"
    <3>1. RoundPhase(c) \notin {"withdrawn", "astray"} /\ RoundPhase(c)' = "withdrawn"
      BY <1>1, <2>0, <2>1, <2>4 DEF RoundPhase, StatusPhase, AllRules, contractStateMachine, CancelRules, Rule
    <3>2. Signoffs(RoundPhase(c)', status'[c]) = 0
      BY <3>1 DEF Signoffs
    <3>3. Round!Withdraw(c)
      BY <2>2, <3>1, <3>2 DEF Round!Withdraw
    <3> QED
      BY <1>1, <3>3 DEF Round!Next
  <2>5. CASE h.rule.to = "pending_engineering"
    <3>1. /\ RoundPhase(c) = "open" /\ RoundPhase(c)' = "review"
          /\ Passed(status'[c]) = 0
      BY <1>1, <2>0, <2>1, <2>5
         DEF RoundPhase, StatusPhase, AllRules, contractStateMachine, CancelRules, Rule, Passed
    <3>2. Signoffs(RoundPhase(c)', status'[c]) = 0 /\ Signoffs(RoundPhase(c), status[c]) = 0
      BY <3>1 DEF Signoffs
    <3>3. Round!Submit(c)
      BY <2>2, <2>3, <3>1, <3>2 DEF Round!Submit
    <3> QED
      BY <1>1, <3>3 DEF Round!Next
  <2>6. CASE h.rule.to = "draft"
    <3>1. /\ RoundPhase(c) = "review" /\ RoundPhase(c)' = "open"
          /\ Passed(status[c]) \in 0..3
      BY <1>1, <2>0, <2>1, <2>6
         DEF RoundPhase, StatusPhase, AllRules, contractStateMachine, CancelRules, Rule, Passed
    <3>2. /\ Signoffs(RoundPhase(c)', status'[c]) = 0
          /\ Signoffs(RoundPhase(c), status[c]) \in 0..3
      BY <3>1 DEF Signoffs
    <3>3. counts[c] < Len(Round!Order)
      BY <2>2, <3>2, FourHeads
    <3>4. Round!SendBack(c)
      BY <2>2, <3>1, <3>2, <3>3 DEF Round!SendBack
    <3> QED
      BY <1>1, <3>4 DEF Round!Next
  <2>7. CASE h.rule.action = "approve"
    <3>1. /\ RoundPhase(c) = "review" /\ RoundPhase(c)' = "review"
          /\ Passed(status[c]) \in 0..3 /\ Passed(status'[c]) = Passed(status[c]) + 1
      BY <1>1, <2>0, <2>1, <2>7
         DEF RoundPhase, StatusPhase, AllRules, contractStateMachine, CancelRules, Rule, Passed
    <3>2. /\ counts[c] \in 0..3
          /\ Signoffs(RoundPhase(c)', status'[c]) = counts[c] + 1
      BY <2>2, <3>1 DEF Signoffs
    <3>3. counts' = [counts EXCEPT ![c] = counts[c] + 1]
      BY <2>2, <3>2
    <3>4. phases' = phases
      BY <2>2, <3>1 DEF phases
    <3>5. counts[c] < Len(Round!Order)
      BY <3>2, FourHeads
    <3>6. Round!SignOff(c)
      BY <2>2, <3>1, <3>3, <3>4, <3>5 DEF Round!SignOff
    <3> QED
      BY <1>1, <3>6 DEF Round!Next
  <2>8. CASE h.rule.to = "signed"
    <3>1. /\ RoundPhase(c) = "review" /\ RoundPhase(c)' = "binding"
          /\ Passed(status[c]) = 4 /\ Passed(status'[c]) = 4
      BY <1>1, <2>0, <2>1, <2>8
         DEF RoundPhase, StatusPhase, AllRules, contractStateMachine, CancelRules, Rule, Passed
    <3>2. /\ Signoffs(RoundPhase(c)', status'[c]) = 4
          /\ Signoffs(RoundPhase(c), status[c]) = 4
      BY <3>1 DEF Signoffs
    <3>3. Round!Bind(c)
      BY <2>2, <2>3, <3>1, <3>2, FourHeads DEF Round!Bind
    <3> QED
      BY <1>1, <3>3 DEF Round!Next
  <2>9. CASE h.rule.to = "active"
    <3>1. /\ RoundPhase(c) = "binding" /\ RoundPhase(c)' = "binding"
          /\ Passed(status[c]) = 4 /\ Passed(status'[c]) = 4
      BY <1>1, <2>0, <2>1, <2>9
         DEF RoundPhase, StatusPhase, AllRules, contractStateMachine, CancelRules, Rule, Passed
    <3>2. UNCHANGED <<phases, counts>>
      BY <1>1, <1>2, <3>1, Stutters DEF Signoffs
    <3> QED
      BY <3>2
  <2>10. \/ h.rule.to \in {"cancelled", "pending_engineering", "draft", "signed", "active"}
         \/ h.rule.action = "approve"
    BY <1>1 DEF AllRules, contractStateMachine, CancelRules, Rule
  <2> QED
    BY <2>4, <2>5, <2>6, <2>7, <2>8, <2>9, <2>10
<1> QED
  BY <1>1, <1>3, <1>4, <1>5

LEMMA StepMaps ==
  ASSUME Known, RoundInv, RoundInv', [HistoryNext]_historyVars
  PROVE  [Round!Next]_<<phases, counts>>
<1>1. ASSUME NEW c \in Contracts, NEW s \in ContractStatus, Writes(c, s)
      PROVE  [Round!Next]_<<phases, counts>>
  <2>1. /\ Elsewhere(c) /\ strayed \subseteq strayed'
        /\ s # status[c] => c \in strayed'
        /\ status'[c] = s
        /\ row'[c] = row[c] \/ (row[c] = "absent" /\ row'[c] = "live" /\ status[c] = "draft")
    BY <1>1 DEF Writes, Create, Update, Elsewhere, Known, TypeOK, BlankUntilCreated
  <2>2. CASE c \in strayed'
    BY <2>1, <2>2, StrayMaps
  <2>3. CASE c \notin strayed'
    <3>1. status'[c] = status[c] /\ c \notin strayed
      BY <2>1, <2>3
    <3>2. RoundPhase(c)' = RoundPhase(c)
      BY <2>1, <2>3, <3>1 DEF RoundPhase, StatusPhase
    <3>3. UNCHANGED <<phases, counts>>
      BY <2>1, <3>1, <3>2, Stutters
    <3> QED
      BY <3>3
  <2> QED
    BY <2>2, <2>3
<1>2. ASSUME NEW c \in Contracts, Deletes(c)
      PROVE  [Round!Next]_<<phases, counts>>
  BY <1>2, DeleteMaps
<1>3. ASSUME NEW h \in inflight, Commits(h)
      PROVE  [Round!Next]_<<phases, counts>>
  BY <1>3, AppliedMaps
<1>4. CASE UNCHANGED <<row, status, approvals, strayed>>
  <2>1. phases' = phases
    BY <1>4 DEF phases, RoundPhase, StatusPhase
  <2>2. counts' = counts
    BY <1>4 DEF counts, SignoffsThisRound, RoundPhase, StatusPhase
  <2> QED
    BY <2>1, <2>2
<1> QED
  BY <1>1, <1>2, <1>3, <1>4
     DEF HistoryNext, historyVars, Reads, Transition, GivesUp, TransitionFailed

LEMMA InitMaps == HistoryInit => Round!Init
<1> SUFFICES ASSUME HistoryInit PROVE Round!Init
  OBVIOUS
<1>1. \A c \in Contracts : RoundPhase(c) = "open"
  BY DEF HistoryInit, Init, RoundPhase, StatusPhase
<1>2. \A c \in Contracts : SignoffsThisRound(c) = 0
  BY <1>1 DEF SignoffsThisRound
<1> QED
  BY <1>1, <1>2 DEF Round!Init, phases, counts

(***************************************************************************)
(* Whatever requests overlap and whatever POST and PUT write, every step   *)
(* of the workflow is a step of the sign-off chain or none: a contract     *)
(* that has not strayed is signed only with the four sign-offs of the      *)
(* round in progress in its trail, in their order, and a rejection voids   *)
(* them.                                                                   *)
(***************************************************************************)
THEOREM ApprovalImplementsRound == HistorySpec => ImplementsRound
<1>1. HistoryInit => RoundInv
  BY DEF HistoryInit, Init, RoundInv, InRound, RoundPhase, StatusPhase
<1>2. Known /\ RoundInv /\ [HistoryNext]_historyVars => RoundInv'
  BY RoundInvStep
<1>3. Known /\ RoundInv /\ RoundInv' /\ [HistoryNext]_historyVars
        => [Round!Next]_<<phases, counts>>
  BY StepMaps
<1>4. HistorySpec => []Known
  BY HistoryIsWorkflow, TypeCorrect, BlankIsInvariant, TrailInvariant,
     RequestsDifferInvariant, EntitledInvariant, PTL DEF Known
<1> QED
  BY <1>1, <1>2, <1>3, <1>4, InitMaps, PTL DEF HistorySpec, ImplementsRound, Round!Spec

-----------------------------------------------------------------------------
(***************************************************************************)
(* The contract page.                                                      *)
(***************************************************************************)
\* The cache, and where its queries stand.
CacheInv ==
  /\ fetching \in [Queries -> {"idle", "asked", "answered"}]
  /\ owed \subseteq Queries
  /\ OwnChangesComing

-----------------------------------------------------------------------------
(***************************************************************************)
(* What the steps of a query cache do to it, whatever page they belong to. *)
(***************************************************************************)
LEMMA SameCache == ASSUME CacheInv, UNCHANGED cacheVars PROVE CacheInv'
BY DEF CacheInv, cacheVars, OwnChangesComing

\* A change is owed on queries that are invalidated with it: each is fetched
\* anew, or is being fetched for the first time.
LEMMA InvalidationComes ==
  ASSUME CacheInv, NEW Q, Q \subseteq Queries, NEW C, C \subseteq Q, invalidateQueries(Q, C)
  PROVE  CacheInv'
<1> DEFINE again == {q \in Q : ~ Joins(q)}
<1>1. /\ fetching' = [q \in Queries |-> IF q \in again THEN "asked" ELSE fetching[q]]
      /\ owed' = owed \cup C
      /\ excused \ again \subseteq excused'
  BY DEF invalidateQueries
<1>2. \A q \in Q \ again : fetching[q] # "idle"
  BY DEF Joins
<1> HIDE DEF again
<1>3. ASSUME NEW q \in owed' \ excused'
      PROVE  fetching'[q] # "idle"
  <2>1. q \in Queries
    BY <1>1 DEF CacheInv
  <2>2. CASE q \in again
    BY <1>1, <2>1, <2>2
  <2>3. CASE q \notin again
    BY <1>1, <1>2, <2>1, <2>3 DEF CacheInv, OwnChangesComing
  <2> QED
    BY <2>2, <2>3
<1> QED
  BY <1>1, <1>3 DEF CacheInv, OwnChangesComing

LEMMA FetchSteps ==
  ASSUME CacheInv, NEW q \in Queries, NEW now,
         ServerReads(q, now) \/ Arrive(q) \/ FetchFails(q) \/ Refetch(q)
  PROVE  CacheInv'
<1>1. CASE ServerReads(q, now)
  BY <1>1 DEF ServerReads, CacheInv, OwnChangesComing
<1>2. CASE Arrive(q)
  BY <1>2 DEF Arrive, CacheInv, OwnChangesComing
<1>3. CASE FetchFails(q)
  BY <1>3 DEF FetchFails, CacheInv, OwnChangesComing
<1>4. CASE Refetch(q)
  BY <1>4 DEF Refetch, CacheInv, OwnChangesComing
<1> QED
  BY <1>1, <1>2, <1>3, <1>4

-----------------------------------------------------------------------------
(***************************************************************************)
(* The contract page.                                                      *)
(***************************************************************************)
LEMMA MutationsKeepCache ==
  ASSUME NEW c, Refused(c) \/ NetworkFails(c) \/ \E r, m, args : mutate(r, m, args)
  PROVE  UNCHANGED cacheVars
BY DEF Refused, NetworkFails, mutate

LEMMA UserKeepsCache ==
  ASSUME \/ \E action \in {"submit", "approve", "reject", "sign", "activate", "cancel"} :
              PressTransition(action)
         \/ \E k \in {"addItem", "editItem", "dropItem"}, item \in Items \cup {Missing} :
              OpenItemSheet(k, item)
         \/ OpenStatementSheet \/ CloseSheet \/ SubmitSheet
         \/ \E d \in DocTypes : Upload(d) \/ DeleteDocument(d)
  PROVE  UNCHANGED cacheVars
<1>1. ASSUME NEW m, NEW args, Call(m, args)
      PROVE  UNCHANGED cacheVars
  BY <1>1 DEF Call, mutate
<1>2. ASSUME NEW k, NEW item, Open(k, item)
      PROVE  UNCHANGED cacheVars
  BY <1>2 DEF Open, clientVars, cacheVars
<1>3. CASE CloseSheet
  BY <1>3 DEF CloseSheet, clientVars, cacheVars
<1>4. CASE SubmitSheet
  BY <1>1, <1>4 DEF SubmitSheet
<1>5. CASE OpenStatementSheet
  BY <1>2, <1>5 DEF OpenStatementSheet
<1>6. ASSUME NEW action, PressTransition(action)
      PROVE  UNCHANGED cacheVars
  BY <1>1, <1>6 DEF PressTransition
<1>7. ASSUME NEW k, NEW item, OpenItemSheet(k, item)
      PROVE  UNCHANGED cacheVars
  BY <1>2, <1>7 DEF OpenItemSheet
<1>8. ASSUME NEW d, Upload(d) \/ DeleteDocument(d)
      PROVE  UNCHANGED cacheVars
  BY <1>1, <1>8 DEF Upload, DeleteDocument
<1> QED
  BY <1>3, <1>4, <1>5, <1>6, <1>7, <1>8

LEMMA ServerKeepsCache ==
  ASSUME \/ \E c \in calls :
              \/ \E rule \in AllRules : BeginTransition(c, rule)
              \/ \E h \in inflight : EndTransition(c, h)
              \/ RefuseTransition(c) \/ ServeEdit(c) \/ RefuseEdit(c)
         \/ ColleagueBegins \/ ColleagueEdits
         \/ \E h \in inflight : ColleagueEnds(h)
  PROVE  UNCHANGED cacheVars
BY DEF BeginTransition, EndTransition, RefuseTransition, ServeEdit, RefuseEdit, ColleagueBegins,
       ColleagueEdits, ColleagueEnds, clientVars, cacheVars

\* What an answered call of each kind changes is among what it invalidates.
LEMMA ChangesAreInvalidated ==
  ASSUME NEW m \in {"transition", "addItem", "editItem", "dropItem", "upload", "unfile",
                    "addStatement"}
  PROVE  ChangedBy(m) \subseteq InvalidatedBy(m) /\ InvalidatedBy(m) \subseteq Queries
BY QueriesOfPage DEF ChangedBy, InvalidatedBy, ContractQueries

-----------------------------------------------------------------------------
(***************************************************************************)
(* The calls of the page and the handlers that work on them.               *)
(***************************************************************************)
SheetKinds == {"addItem", "editItem", "dropItem", "addStatement"}

Mutations ==
  {"transition", "addItem", "editItem", "dropItem", "upload", "unfile", "addStatement"}

\* Which action a status offers to the user.
Offered(what, s) ==
  \/ what = "cancel"
  \/ what = "submit" /\ s = "draft"
  \/ what = "sign" /\ s = "ready_to_print"
  \/ what = "activate" /\ s = "signed"
  \/ what \in {"approve", "reject"} /\ \E d \in Desks(user) : d.pendingStatus = s

CallOK(c) ==
  /\ DOMAIN c = {"request", "mutation", "args", "state", "waiting"}
  /\ c.request \in PageRequests /\ c.mutation \in Mutations
  /\ c.mutation = "transition" => Offered(c.args.what, c.args.status)

\* The handler works for the user on the action of the call.
WorksFor(h, c) ==
  /\ c.request = h.request /\ c.state = "busy" /\ c.mutation = "transition"
  /\ h.rule \in AllRules /\ h.rule.action = c.args.what /\ Authorized(user, h.rule)

\* Every handler with the identity of a page's call has its call, and no two
\* calls or handlers share an identity.
CallsInv ==
  /\ sheet = NoSheet \/ sheet.kind \in SheetKinds
  /\ \A c \in calls : CallOK(c)
  /\ \A c, d \in calls : c.request = d.request => c = d
  /\ \A g, h \in inflight : g.request = h.request => g = h
  /\ \A h \in inflight : h.request \in PageRequests => \E c \in calls : WorksFor(h, c)

\* A call as it was, but for how far it is.
Similar(d, c) ==
  /\ DOMAIN d = DOMAIN c
  /\ d.request = c.request /\ d.mutation = c.mutation /\ d.args = c.args

LEMMA ExceptSimilar ==
  ASSUME CallsInv, NEW c \in calls, NEW x
  PROVE  /\ Similar([c EXCEPT !.state = x], c) /\ [c EXCEPT !.state = x].state = x
         /\ Similar([c EXCEPT !.waiting = x], c) /\ [c EXCEPT !.waiting = x].state = c.state
<1>1. DOMAIN c = {"request", "mutation", "args", "state", "waiting"}
  BY DEF CallsInv, CallOK
<1> QED
  BY <1>1 DEF Similar

\* A call gets further or ends, when nobody works on it or whoever does goes on.
LEMMA ReplaceKeeps ==
  ASSUME CallsInv, NEW c \in calls, NEW d, Similar(d, c), UNCHANGED user,
         sheet' \in {sheet, NoSheet},
         inflight' \subseteq inflight,
         \/ /\ calls' \in {calls \ {c}, (calls \ {c}) \cup {d}}
            /\ \A h \in inflight' : h.request # c.request
         \/ calls' = (calls \ {c}) \cup {d} /\ d.state = c.state
  PROVE  CallsInv'
<1>1. calls' \subseteq (calls \ {c}) \cup {d} /\ calls \ {c} \subseteq calls'
  OBVIOUS
<1>2. CallOK(d)'
  BY DEF CallsInv, CallOK, Similar, Offered, Desks
<1>3. \A e \in calls : CallOK(e)'
  BY DEF CallsInv, CallOK, Offered, Desks
<1>4. \A e, f \in calls' : e.request = f.request => e = f
  BY <1>1 DEF CallsInv, Similar
<1>5. ASSUME NEW h \in inflight', h.request \in PageRequests
      PROVE  \E e \in calls' : WorksFor(h, e)'
  <2>1. PICK e \in calls : WorksFor(h, e)
    BY <1>5 DEF CallsInv
  <2>2. CASE e # c
    BY <1>1, <2>1, <2>2 DEF WorksFor, Authorized, PassesRoute
  <2>3. CASE e = c
    <3>1. calls' = (calls \ {c}) \cup {d} /\ d.state = c.state
      BY <2>1, <2>3 DEF WorksFor
    <3> QED
      BY <2>1, <2>3, <3>1 DEF WorksFor, Similar, Authorized, PassesRoute
  <2> QED
    BY <2>2, <2>3
<1>6. (sheet = NoSheet \/ sheet.kind \in SheetKinds)'
  BY DEF CallsInv, NoSheet, SheetKinds
<1> QED
  BY <1>1, <1>2, <1>3, <1>4, <1>5, <1>6 DEF CallsInv

\* A call that is not busy has no handler.
LEMMA NotBusy ==
  ASSUME CallsInv, NEW c \in calls, c.state # "busy"
  PROVE  \A h \in inflight : h.request # c.request
BY DEF CallsInv, CallOK, WorksFor

LEMMA ServedKeeps ==
  ASSUME CallsInv, NEW c \in calls, NEW x, Served(c, x), UNCHANGED <<user, sheet>>,
         inflight' \subseteq inflight, \A h \in inflight' : h.request # c.request
  PROVE  CallsInv'
<1>1. Similar([c EXCEPT !.state = x], c)
  BY ExceptSimilar
<1>2. calls' \in {calls \ {c}, (calls \ {c}) \cup {[c EXCEPT !.state = x]}}
  BY DEF Served
<1> QED
  BY <1>1, <1>2, ReplaceKeeps

LEMMA NetworkKeeps ==
  ASSUME CallsInv, NEW c \in calls, NetworkFails(c), UNCHANGED <<user, sheet, inflight>>
  PROVE  CallsInv'
<1>1. /\ Similar([c EXCEPT !.waiting = FALSE], c)
      /\ [c EXCEPT !.waiting = FALSE].state = c.state
  BY ExceptSimilar
<1>2. CASE c.state \in {"sent", "busy"}
  <2>1. calls' = (calls \ {c}) \cup {[c EXCEPT !.waiting = FALSE]}
    BY <1>2 DEF NetworkFails
  <2> QED
    BY <1>1, <2>1, ReplaceKeeps
<1>3. CASE c.state \notin {"sent", "busy"}
  <2>1. calls' = calls \ {c}
    BY <1>3 DEF NetworkFails
  <2> QED
    BY <1>1, <1>3, <2>1, NotBusy, ReplaceKeeps
<1> QED
  BY <1>2, <1>3

\* A button makes a call of what the screen offers.
LEMMA CallKeeps ==
  ASSUME CallsInv, NEW m \in Mutations, NEW args, Call(m, args), UNCHANGED <<user, sheet>>,
         m = "transition" => Offered(args.what, args.status)
  PROVE  CallsInv'
<1>1. PICK r \in PageRequests : mutate(r, m, args)
  BY DEF Call
<1> DEFINE new == [request |-> r, mutation |-> m, args |-> args, state |-> "sent",
                   waiting |-> TRUE]
<1>2. calls' = calls \cup {new} /\ \A c \in calls : c.request # r
  BY <1>1 DEF mutate
<1>3. /\ DOMAIN new = {"request", "mutation", "args", "state", "waiting"}
      /\ new.request = r /\ new.mutation = m /\ new.args = args
  OBVIOUS
<1> HIDE DEF new
<1>4. CallOK(new)'
  BY <1>3 DEF CallOK, Offered, Desks
<1>5. \A c \in calls : CallOK(c)'
  BY DEF CallsInv, CallOK, Offered, Desks
<1>6. UNCHANGED inflight
  BY DEF Call, backendVars, vars
<1>7. \A h \in inflight : h.request \in PageRequests => \E c \in calls : WorksFor(h, c)'
  BY DEF CallsInv, WorksFor, Authorized, PassesRoute
<1> QED
  BY <1>2, <1>3, <1>4, <1>5, <1>6, <1>7 DEF CallsInv

\* A handler begins: for the page, on one of its calls, or for a colleague.
LEMMA BeginKeeps ==
  ASSUME CallsInv, NEW c \in calls, NEW rule \in AllRules, BeginTransition(c, rule)
  PROVE  CallsInv'
<1>1. PICK d : Similar(d, c) /\ d.state = "busy" /\ calls' = (calls \ {c}) \cup {d}
  BY ExceptSimilar DEF BeginTransition, Begun
<1>2. /\ c.mutation = "transition" /\ rule.action = c.args.what /\ Authorized(user, rule)
      /\ \A g \in inflight : g.request # c.request
      /\ UNCHANGED <<user, sheet>>
  BY DEF BeginTransition, Transition, pageVars
<1>3. PICK h : h.request = c.request /\ h.rule = rule /\ inflight' = inflight \cup {h}
  BY DEF BeginTransition, Transition
<1>4. CallOK(d)' /\ \A e \in calls : CallOK(e)'
  BY <1>1, <1>2 DEF CallsInv, CallOK, Similar, Offered, Desks
<1>5. \A e, f \in calls' : e.request = f.request => e = f
  BY <1>1 DEF CallsInv, Similar
<1>6. \A e, f \in inflight' : e.request = f.request => e = f
  BY <1>2, <1>3 DEF CallsInv
<1>7. ASSUME NEW g \in inflight', g.request \in PageRequests
      PROVE  \E e \in calls' : WorksFor(g, e)'
  <2>1. CASE g = h
    <3>1. WorksFor(h, d)'
      BY <1>1, <1>2, <1>3 DEF WorksFor, Similar, Authorized, PassesRoute
    <3> QED
      BY <1>1, <2>1, <3>1
  <2>2. CASE g # h
    <3>1. g \in inflight /\ g.request # c.request
      BY <1>2, <1>3, <2>2
    <3>2. PICK e \in calls : WorksFor(g, e)
      BY <1>7, <3>1 DEF CallsInv
    <3>3. e # c
      BY <3>1, <3>2 DEF WorksFor
    <3> QED
      BY <1>1, <1>2, <3>2, <3>3 DEF WorksFor, Authorized, PassesRoute
  <2> QED
    BY <2>1, <2>2
<1>8. (sheet = NoSheet \/ sheet.kind \in SheetKinds)'
  BY <1>2 DEF CallsInv
<1>9. \A e \in calls' : CallOK(e)'
  BY <1>1, <1>4
<1> QED
  BY <1>5, <1>6, <1>7, <1>8, <1>9 DEF CallsInv

LEMMA ColleagueKeeps ==
  ASSUME CallsInv, UNCHANGED <<user, sheet, calls>>,
         \/ \E r \in Requests \ PageRequests, a \in Actors, rule \in AllRules :
              Transition(r, id, a, rule)
         \/ inflight' \subseteq inflight
  PROVE  CallsInv'
<1>1. \A c \in calls : CallOK(c)'
  BY DEF CallsInv, CallOK, Offered, Desks
<1>2. \A h \in inflight : h.request \in PageRequests => \E c \in calls : WorksFor(h, c)'
  BY DEF CallsInv, WorksFor, Authorized, PassesRoute
<1>3. CASE inflight' \subseteq inflight
  BY <1>1, <1>2, <1>3 DEF CallsInv
<1>4. ASSUME NEW r \in Requests \ PageRequests, NEW a \in Actors, NEW rule \in AllRules,
             Transition(r, id, a, rule)
      PROVE  CallsInv'
  <2>1. /\ inflight' = inflight \cup
             {[request |-> r, contract |-> id, actor |-> a, rule |-> rule]}
        /\ \A g \in inflight : g.request # r
    BY <1>4 DEF Transition
  <2>2. PICK new : new.request = r /\ inflight' = inflight \cup {new}
    BY <2>1
  <2>3. \A g, h \in inflight' : g.request = h.request => g = h
    BY <2>1, <2>2 DEF CallsInv
  <2> QED
    BY <1>1, <1>2, <2>2, <2>3 DEF CallsInv
<1> QED
  BY <1>3, <1>4

-----------------------------------------------------------------------------
\* What a button of the workflow card sends is offered by the status it shows.
LEMMA ButtonsOffer ==
  ASSUME NEW action \in Buttons
  PROVE  Offered(action, shown)
<1>1. CASE action \in SubmitButton
  BY <1>1 DEF SubmitButton, Offered
<1>2. CASE action \in {s.action : s \in OwnStage}
  <2>1. PICK s \in APPROVAL_STAGES : s.pendingStatus = shown /\ s.role \in RolesOf[user]
                                     /\ action = s.action
    BY <1>2 DEF OwnStage
  <2> QED
    BY <2>1 DEF APPROVAL_STAGES, Stage, Offered, Desks
<1>3. CASE action = "reject" /\ \E s \in OwnStage : s.action = "approve"
  BY <1>3 DEF OwnStage, Offered, Desks
<1>4. CASE action = "cancel"
  BY <1>4 DEF Offered
<1> QED
  BY <1>1, <1>2, <1>3, <1>4 DEF Buttons, StageButtons

LEMMA UserKeepsCalls ==
  ASSUME CallsInv,
         \/ \E action \in {"submit", "approve", "reject", "sign", "activate", "cancel"} :
              PressTransition(action)
         \/ \E k \in {"addItem", "editItem", "dropItem"}, item \in Items \cup {Missing} :
              OpenItemSheet(k, item)
         \/ OpenStatementSheet \/ CloseSheet \/ SubmitSheet
         \/ \E d \in DocTypes : Upload(d) \/ DeleteDocument(d)
  PROVE  CallsInv'
<1>1. ASSUME NEW action, PressTransition(action)
      PROVE  CallsInv'
  <2>1. /\ Call("transition", Args(action, shown, events)) /\ UNCHANGED <<user, sheet>>
        /\ action \in Buttons
    BY <1>1 DEF PressTransition, pageVars
  <2>2. /\ Args(action, shown, events).what = action
        /\ Args(action, shown, events).status = shown
    BY DEF Args
  <2> QED
    BY <2>1, <2>2, ButtonsOffer, CallKeeps DEF Mutations
<1>2. CASE SubmitSheet
  <2>1. PICK args : Call(sheet.kind, args) /\ UNCHANGED <<user, sheet>>
    BY <1>2 DEF SubmitSheet, pageVars
  <2>2. sheet.kind \in Mutations /\ sheet.kind # "transition"
    BY <1>2 DEF SubmitSheet, CallsInv, NoSheet, SheetKinds, Mutations
  <2> QED
    BY <2>1, <2>2, CallKeeps
<1>3. ASSUME NEW d, Upload(d) \/ DeleteDocument(d)
      PROVE  CallsInv'
  <2>1. PICK m \in {"upload", "unfile"} :
          Call(m, Args(d, shown, events)) /\ UNCHANGED <<user, sheet>>
    BY <1>3 DEF Upload, DeleteDocument, pageVars
  <2> QED
    BY <2>1, CallKeeps DEF Mutations
<1>4. ASSUME UNCHANGED <<user, calls, inflight>>, (sheet = NoSheet \/ sheet.kind \in SheetKinds)'
      PROVE  CallsInv'
  BY <1>4 DEF CallsInv, CallOK, Offered, Desks, WorksFor, Authorized, PassesRoute
<1>5. CASE CloseSheet
  BY <1>4, <1>5 DEF CloseSheet, NoSheet, SheetKinds, backendVars, vars, clientVars
<1>6. ASSUME NEW k \in SheetKinds, NEW item, Open(k, item)
      PROVE  CallsInv'
  BY <1>4, <1>6 DEF Open, backendVars, vars, clientVars
<1>7. CASE OpenStatementSheet
  BY <1>6, <1>7 DEF OpenStatementSheet, SheetKinds
<1>8. ASSUME NEW k \in {"addItem", "editItem", "dropItem"}, NEW item, OpenItemSheet(k, item)
      PROVE  CallsInv'
  BY <1>6, <1>8 DEF OpenItemSheet, SheetKinds
<1> QED
  BY <1>1, <1>2, <1>3, <1>5, <1>7, <1>8

LEMMA ServerKeepsCalls ==
  ASSUME CallsInv, NEW c \in calls,
         \/ \E rule \in AllRules : BeginTransition(c, rule)
         \/ \E h \in inflight : EndTransition(c, h)
         \/ RefuseTransition(c) \/ ServeEdit(c) \/ RefuseEdit(c)
  PROVE  CallsInv'
<1>1. ASSUME NEW h \in inflight, EndTransition(c, h)
      PROVE  CallsInv'
  <2>1. PICK x : Served(c, x)
    BY <1>1 DEF EndTransition
  <2>2. /\ h.request = c.request /\ inflight' = inflight \ {h} /\ UNCHANGED <<user, sheet>>
    BY <1>1 DEF EndTransition, applyTransition, TransitionFailed, pageVars
  <2>3. \A g \in inflight' : g.request # c.request
    BY <2>2 DEF CallsInv
  <2> QED
    BY <2>1, <2>2, <2>3, ServedKeeps
<1>2. CASE RefuseTransition(c) \/ ServeEdit(c) \/ RefuseEdit(c)
  <2>1. c.state = "sent" /\ UNCHANGED <<user, sheet, inflight>> /\ \E x : Served(c, x)
    BY <1>2 DEF RefuseTransition, ServeEdit, RefuseEdit, pageVars, backendVars, vars
  <2>2. PICK x : Served(c, x)
    BY <2>1
  <2>3. \A g \in inflight' : g.request # c.request
    BY <2>1, NotBusy
  <2> QED
    BY <2>1, <2>2, <2>3, ServedKeeps
<1> QED
  BY <1>1, <1>2, BeginKeeps

\* A call that is over, for better or worse.
LEMMA AnswersKeepCalls ==
  ASSUME CallsInv, NEW c \in calls, c.state \in {"ok", "refused"}, calls' = calls \ {c},
         sheet' \in {sheet, NoSheet}, UNCHANGED <<user, inflight>>
  PROVE  CallsInv'
<1>1. Similar(c, c)
  BY DEF Similar
<1>2. \A h \in inflight' : h.request # c.request
  BY NotBusy
<1> QED
  BY <1>1, <1>2, ReplaceKeeps

-----------------------------------------------------------------------------
(***************************************************************************)
(* All steps together.                                                     *)
(***************************************************************************)
ClientInv == CacheInv /\ CallsInv

LEMMA ClientInit == PageInit => ClientInv
<1> SUFFICES ASSUME PageInit PROVE ClientInv
  OBVIOUS
<1>1. CacheInv
  BY DEF PageInit, CacheInit, CacheInv, OwnChangesComing
<1>2. CallsInv
  BY DEF PageInit, CallsInv
<1> QED
  BY <1>1, <1>2 DEF ClientInv

LEMMA ClientStep == ASSUME ClientInv, [PageNext]_allVars PROVE ClientInv'
<1>0. CacheInv /\ CallsInv
  BY DEF ClientInv
<1>1. CASE \/ \E action \in {"submit", "approve", "reject", "sign", "activate", "cancel"} :
                PressTransition(action)
           \/ \E k \in {"addItem", "editItem", "dropItem"}, item \in Items \cup {Missing} :
                OpenItemSheet(k, item)
           \/ OpenStatementSheet \/ CloseSheet \/ SubmitSheet
           \/ \E d \in DocTypes : Upload(d) \/ DeleteDocument(d)
  <2>1. CacheInv'
    BY <1>0, <1>1, UserKeepsCache, SameCache
  <2>2. CallsInv'
    BY <1>0, <1>1, UserKeepsCalls
  <2> QED
    BY <2>1, <2>2 DEF ClientInv
<1>2. ASSUME NEW c \in calls,
             \/ \E rule \in AllRules : BeginTransition(c, rule)
             \/ \E h \in inflight : EndTransition(c, h)
             \/ RefuseTransition(c) \/ ServeEdit(c) \/ RefuseEdit(c)
      PROVE  ClientInv'
  <2>1. CacheInv'
    BY <1>0, <1>2, ServerKeepsCache, SameCache
  <2>2. CallsInv'
    BY <1>0, <1>2, ServerKeepsCalls
  <2> QED
    BY <2>1, <2>2 DEF ClientInv
<1>3. ASSUME NEW c \in calls, onSuccess(c)
      PROVE  ClientInv'
  <2>1. invalidateQueries(InvalidatedBy(c.mutation), ChangedBy(c.mutation))
    BY <1>3 DEF onSuccess
  <2>2. c.mutation \in Mutations
    BY <1>0 DEF CallsInv, CallOK
  <2>3. CacheInv'
    BY <1>0, <2>1, <2>2, ChangesAreInvalidated, InvalidationComes DEF Mutations
  <2>4. /\ c.state = "ok" /\ calls' = calls \ {c} /\ sheet' \in {sheet, NoSheet}
        /\ UNCHANGED <<user, inflight>>
    BY <1>3 DEF onSuccess, backendVars, vars
  <2>5. CallsInv'
    BY <1>0, <2>4, AnswersKeepCalls
  <2> QED
    BY <2>3, <2>5 DEF ClientInv
<1>4. ASSUME NEW c \in calls, Refused(c) /\ UNCHANGED <<backendVars, pageVars, acts>>
      PROVE  ClientInv'
  <2>1. CacheInv'
    BY <1>0, <1>4, MutationsKeepCache, SameCache
  <2>2. CallsInv'
    BY <1>0, <1>4, AnswersKeepCalls DEF Refused, pageVars, backendVars, vars
  <2> QED
    BY <2>1, <2>2 DEF ClientInv
<1>5. ASSUME NEW c \in calls, Fault(NetworkFails(c))
      PROVE  ClientInv'
  <2>1. NetworkFails(c) /\ UNCHANGED <<user, sheet, inflight>>
    BY <1>5 DEF Fault, pageVars, backendVars, vars
  <2>2. CacheInv'
    BY <1>0, <2>1, MutationsKeepCache, SameCache
  <2>3. CallsInv'
    BY <1>0, <2>1, NetworkKeeps
  <2> QED
    BY <2>2, <2>3 DEF ClientInv
<1>6. CASE Fetching \/ \E q \in Queries : Refocus(q) \/ Fault(FetchFails(q))
  <2>1. PICK q \in Queries :
          ServerReads(q, Stored(q)) \/ Arrive(q) \/ FetchFails(q) \/ Refetch(q)
    BY <1>6 DEF Fetching, Refocus, Fault
  <2>2. CacheInv'
    BY <1>0, <2>1, FetchSteps
  <2>3. UNCHANGED <<user, sheet, inflight, calls>>
    <3>1. UNCHANGED calls
      BY <2>1, <1>6 DEF Fetching, Refocus, Fault, ServerReads, Arrive, FetchFails, Refetch
    <3>2. UNCHANGED <<user, sheet, inflight>>
      BY <1>6 DEF Fetching, Refocus, Fault, pageVars, backendVars, vars
    <3> QED
      BY <3>1, <3>2
  <2>4. CallsInv'
    BY <1>0, <2>3, ColleagueKeeps
  <2> QED
    BY <2>2, <2>4 DEF ClientInv
<1>7. CASE ColleagueBegins \/ ColleagueEdits \/ \E h \in inflight : ColleagueEnds(h)
  <2>1. CacheInv'
    BY <1>0, <1>7, ServerKeepsCache, SameCache
  <2>2. UNCHANGED <<user, sheet, calls>>
    BY <1>7 DEF ColleagueBegins, ColleagueEdits, ColleagueEnds, clientVars, pageVars
  <2>3. \/ \E r \in Requests \ PageRequests, a \in Actors, rule \in AllRules :
             Transition(r, id, a, rule)
        \/ inflight' \subseteq inflight
    BY <1>7 DEF ColleagueBegins, ColleagueEdits, ColleagueEnds, applyTransition, vars
  <2>4. CallsInv'
    BY <1>0, <2>2, <2>3, ColleagueKeeps
  <2> QED
    BY <2>1, <2>4 DEF ClientInv
<1>8. CASE UNCHANGED allVars
  <2>1. CacheInv'
    BY <1>0, <1>8, SameCache DEF allVars, clientVars, cacheVars
  <2>2. CallsInv'
    BY <1>0, <1>8, ColleagueKeeps DEF allVars, clientVars, pageVars, backendVars, vars
  <2> QED
    BY <2>1, <2>2 DEF ClientInv
<1> QED
  BY <1>1, <1>2, <1>3, <1>4, <1>5, <1>6, <1>7, <1>8 DEF PageNext

LEMMA ClientInvariant == PageSpec => []ClientInv
BY ClientInit, ClientStep, PTL DEF PageSpec

(***************************************************************************)
(* Whatever is lost, late or joined: a change the page has been told of is *)
(* on the screen, or the fetch that will show it is under way, unless that *)
(* fetch failed or had been read before the change.                        *)
(***************************************************************************)
THEOREM OwnChangesCome == PageSpec => []OwnChangesComing
<1>1. ClientInv => OwnChangesComing
  BY DEF ClientInv, CacheInv
<1> QED
  BY <1>1, ClientInvariant, PTL

-----------------------------------------------------------------------------
\* Who has one desk at most decides at one stage only.
LEMMA OneDesk ==
  ASSUME Cardinality(Desks(user)) <= 1, NEW d \in Desks(user), NEW e \in Desks(user)
  PROVE  d = e
<1>1. IsFiniteSet(APPROVAL_STAGES)
  <2>1. \A a1, a2, a3, a4, a5, a6 : IsFiniteSet({a1, a2, a3, a4, a5, a6})
    <3> TAKE a1, a2, a3, a4, a5, a6
    <3>1. IsFiniteSet({a1})
      BY FS_Singleton
    <3>2. IsFiniteSet({a1} \cup {a2})
      BY <3>1, FS_AddElement
    <3>3. IsFiniteSet(({a1} \cup {a2}) \cup {a3})
      BY <3>2, FS_AddElement
    <3>4. IsFiniteSet((({a1} \cup {a2}) \cup {a3}) \cup {a4})
      BY <3>3, FS_AddElement
    <3>5. IsFiniteSet(((({a1} \cup {a2}) \cup {a3}) \cup {a4}) \cup {a5})
      BY <3>4, FS_AddElement
    <3>6. IsFiniteSet((((({a1} \cup {a2}) \cup {a3}) \cup {a4}) \cup {a5}) \cup {a6})
      BY <3>5, FS_AddElement
    <3>7. (((({a1} \cup {a2}) \cup {a3}) \cup {a4}) \cup {a5}) \cup {a6}
            = {a1, a2, a3, a4, a5, a6}
      OBVIOUS
    <3> QED
      BY <3>6, <3>7, Zenon
  <2> QED
    BY <2>1, Zenon DEF APPROVAL_STAGES
<1>2. IsFiniteSet(Desks(user))
  BY <1>1, FS_Subset DEF Desks
<1>3. Cardinality(Desks(user)) \in Nat /\ Cardinality(Desks(user)) # 0
  BY <1>2, FS_CardinalityType, FS_EmptySet
<1>4. \E x : Desks(user) = {x}
  BY <1>2, <1>3, FS_Singleton
<1> QED
  BY <1>4

\* An offered action leads from the status it was offered at.
LEMMA RuleOfOffer ==
  ASSUME NEW rule \in AllRules, Authorized(user, rule), rule.action # "cancel",
         NEW s, Offered(rule.action, s), Cardinality(Desks(user)) <= 1
  PROVE  rule.from = s
<1>1. CASE rule.action \in {"submit", "sign", "activate"}
  BY <1>1 DEF Offered, AllRules, contractStateMachine, CancelRules, Rule
<1>2. CASE rule.action \in {"approve", "reject"}
  <2>1. PICK d \in Desks(user) : d.pendingStatus = s
    BY <1>2 DEF Offered
  <2>2. \E e \in APPROVAL_STAGES :
          e.action = "approve" /\ e.pendingStatus = rule.from /\ rule.roles = {e.role}
    BY <1>2 DEF AllRules, contractStateMachine, CancelRules, Rule, APPROVAL_STAGES, Stage
  <2>3. PICK e \in Desks(user) : e.pendingStatus = rule.from
    BY <2>2 DEF Desks, Authorized
  <2> QED
    BY <2>1, <2>3, OneDesk
<1> QED
  BY <1>1, <1>2 DEF AllRules, contractStateMachine, CancelRules, Rule

(***************************************************************************)
(* The handler that works on a button starts from the status that the      *)
(* button was shown for, for every user with one desk at most and every    *)
(* action but cancel, however old the page's view was.                     *)
(***************************************************************************)
THEOREM DecisionsLandOnTheirStage == PageSpec => []DecisionLandsWhereShown
<1>1. ASSUME ClientInv
      PROVE  DecisionLandsWhereShown
  <2> SUFFICES ASSUME NEW c \in calls, NEW h \in inflight, c.request = h.request,
                      c.args.what # "cancel", Cardinality(Desks(user)) <= 1
               PROVE  h.rule.from = c.args.status
    BY DEF DecisionLandsWhereShown
  <2>1. CallsInv
    BY <1>1 DEF ClientInv
  <2>2. h.request \in PageRequests
    BY <2>1 DEF CallsInv, CallOK
  <2>3. PICK d \in calls : WorksFor(h, d)
    BY <2>1, <2>2 DEF CallsInv
  <2>4. d = c
    BY <2>1, <2>3 DEF CallsInv, WorksFor
  <2>5. Offered(c.args.what, c.args.status)
    BY <2>1, <2>3, <2>4 DEF CallsInv, CallOK, WorksFor
  <2> QED
    BY <2>3, <2>4, <2>5, RuleOfOffer DEF WorksFor
<1> QED
  BY <1>1, ClientInvariant, PTL

-----------------------------------------------------------------------------
(***************************************************************************)
(* What the page keeps of the view its edits were made from.               *)
(***************************************************************************)
LateStatuses == {"ready_to_print", "signed"}

\* A view with status s and e approvals lets its user do m to what.
EditView(m, what, s, e) ==
  /\ m = "addStatement" => s = "active"
  /\ m \in {"addItem", "editItem", "dropItem"} => s = "draft" /\ e \in {Missing, 0}
  /\ m \in {"upload", "unfile"} =>
       /\ what \in DocTypes
       /\ IF what = "signed_contract" THEN s \in LateStatuses
                                      ELSE s = "draft" /\ e \in {Missing, 0}

ViewInv ==
  /\ user \in Actors
  /\ items \subseteq Items /\ docs \subseteq DocTypes
  /\ DOMAIN cache = Queries /\ DOMAIN reply = Queries /\ excused \subseteq Queries
  /\ sheet # NoSheet => EditView(sheet.kind, sheet.item, sheet.status, sheet.events)
  /\ \A c \in calls : EditView(c.mutation, c.args.what, c.args.status, c.args.events)

\* The calls there are were all there before, perhaps less far on.
CallsGoOn ==
  \A d \in calls' : \E c \in calls : d.mutation = c.mutation /\ d.args = c.args

LEMMA AnswersGoOn ==
  ASSUME CallsInv, NEW c \in calls,
         Begun(c) \/ Refused(c) \/ NetworkFails(c) \/ calls' = calls \ {c} \/ \E x : Served(c, x)
  PROVE  CallsGoOn
<1>1. ASSUME NEW d, Similar(d, c), calls' \subseteq calls \cup {d}
      PROVE  CallsGoOn
  BY <1>1 DEF CallsGoOn, Similar
<1>2. CASE Begun(c)
  <2>1. calls' \subseteq calls \cup {[c EXCEPT !.state = "busy"]}
    BY <1>2 DEF Begun
  <2> QED
    BY <1>1, <2>1, ExceptSimilar
<1>3. CASE Refused(c) \/ calls' = calls \ {c}
  BY <1>3 DEF Refused, CallsGoOn
<1>4. CASE NetworkFails(c)
  <2>1. calls' \subseteq calls \cup {[c EXCEPT !.waiting = FALSE]}
    BY <1>4 DEF NetworkFails
  <2> QED
    BY <1>1, <2>1, ExceptSimilar
<1>5. ASSUME NEW x, Served(c, x)
      PROVE  CallsGoOn
  <2>1. calls' \subseteq calls \cup {[c EXCEPT !.state = x]}
    BY <1>5 DEF Served
  <2> QED
    BY <1>1, <2>1, ExceptSimilar
<1> QED
  BY <1>2, <1>3, <1>4, <1>5

\* Views stay what they were when no button is pressed.
LEMMA ViewsStay ==
  ASSUME ViewInv, UNCHANGED user, sheet' \in {sheet, NoSheet}, CallsGoOn,
         (items \subseteq Items /\ docs \subseteq DocTypes)',
         (DOMAIN cache = Queries /\ DOMAIN reply = Queries /\ excused \subseteq Queries)'
  PROVE  ViewInv'
<1>1. (sheet # NoSheet => EditView(sheet.kind, sheet.item, sheet.status, sheet.events))'
  BY DEF ViewInv, NoSheet
<1>2. \A d \in calls' : EditView(d.mutation, d.args.what, d.args.status, d.args.events)
  BY DEF ViewInv, CallsGoOn
<1> QED
  BY <1>1, <1>2 DEF ViewInv

\* The keys of the cache are those of the page.
CacheKeys == DOMAIN cache = Queries /\ DOMAIN reply = Queries /\ excused \subseteq Queries

LEMMA FetchKeepsKeys ==
  ASSUME CacheKeys, NEW q \in Queries, NEW now,
         ServerReads(q, now) \/ Arrive(q) \/ FetchFails(q) \/ Refetch(q)
  PROVE  CacheKeys'
BY DEF CacheKeys, ServerReads, Arrive, FetchFails, Refetch

LEMMA InvalidationKeepsKeys ==
  ASSUME CacheKeys, NEW Q, Q \subseteq Queries, NEW C, invalidateQueries(Q, C)
  PROVE  CacheKeys'
BY DEF CacheKeys, invalidateQueries

-----------------------------------------------------------------------------
\* A press of a button: the call carries the view it was pressed on.
LEMMA CallViews ==
  ASSUME ViewInv, NEW m, NEW args, Call(m, args), UNCHANGED pageVars,
         EditView(m, args.what, args.status, args.events)
  PROVE  ViewInv'
<1>1. PICK r \in PageRequests : mutate(r, m, args)
  BY DEF Call
<1> DEFINE new == [request |-> r, mutation |-> m, args |-> args, state |-> "sent",
                   waiting |-> TRUE]
<1>2. calls' = calls \cup {new} /\ new.mutation = m /\ new.args = args
  BY <1>1 DEF mutate
<1> HIDE DEF new
<1>3. \A d \in calls' : EditView(d.mutation, d.args.what, d.args.status, d.args.events)
  BY <1>2 DEF ViewInv
<1>4. UNCHANGED <<items, docs, cache, reply, excused, user, sheet>>
  BY <1>1 DEF Call, mutate, backendVars, cacheVars, pageVars
<1> QED
  BY <1>3, <1>4 DEF ViewInv

LEMMA OpenViews ==
  ASSUME ViewInv, NEW k, NEW item, Open(k, item), EditView(k, item, shown, events)
  PROVE  ViewInv'
<1>1. UNCHANGED <<items, docs, cache, reply, excused, user, calls>>
  BY DEF Open, backendVars, clientVars
<1>2. /\ sheet'.kind = k /\ sheet'.item = item
      /\ sheet'.status = shown /\ sheet'.events = events
  BY DEF Open
<1> QED
  BY <1>1, <1>2 DEF ViewInv

LEMMA UserViews ==
  ASSUME ClientInv, ViewInv,
         \/ \E action \in {"submit", "approve", "reject", "sign", "activate", "cancel"} :
              PressTransition(action)
         \/ \E k \in {"addItem", "editItem", "dropItem"}, item \in Items \cup {Missing} :
              OpenItemSheet(k, item)
         \/ OpenStatementSheet \/ CloseSheet \/ SubmitSheet
         \/ \E d \in DocTypes : Upload(d) \/ DeleteDocument(d)
  PROVE  ViewInv'
<1>1. ASSUME NEW action, PressTransition(action)
      PROVE  ViewInv'
  <2>1. Call("transition", Args(action, shown, events)) /\ UNCHANGED pageVars
    BY <1>1 DEF PressTransition
  <2>2. EditView("transition", Args(action, shown, events).what,
                 Args(action, shown, events).status, Args(action, shown, events).events)
    BY DEF EditView
  <2> QED
    BY <2>1, <2>2, CallViews
<1>2. ASSUME NEW k \in {"addItem", "editItem", "dropItem"}, NEW item, OpenItemSheet(k, item)
      PROVE  ViewInv'
  <2>1. Open(k, item) /\ canEdit
    BY <1>2 DEF OpenItemSheet
  <2>2. EditView(k, item, shown, events)
    BY <2>1 DEF EditView, canEdit
  <2> QED
    BY <2>1, <2>2, OpenViews
<1>3. CASE OpenStatementSheet
  <2>1. Open("addStatement", Missing) /\ canCreateStatement
    BY <1>3 DEF OpenStatementSheet
  <2>2. EditView("addStatement", Missing, shown, events)
    BY <2>1 DEF EditView, canCreateStatement
  <2> QED
    BY <2>1, <2>2, OpenViews
<1>4. CASE CloseSheet
  <2>1. /\ UNCHANGED <<items, docs, cache, reply, excused, user, calls>>
        /\ sheet' = NoSheet
    BY <1>4 DEF CloseSheet, backendVars, clientVars
  <2> QED
    BY <2>1, ViewsStay DEF ViewInv, CallsGoOn
<1>5. CASE SubmitSheet
  <2> DEFINE args == Args(sheet.item, sheet.status, sheet.events)
  <2>1. Call(sheet.kind, args) /\ UNCHANGED pageVars /\ sheet # NoSheet
    BY <1>5 DEF SubmitSheet
  <2>2. args.what = sheet.item /\ args.status = sheet.status /\ args.events = sheet.events
    BY DEF Args
  <2> HIDE DEF args
  <2>3. EditView(sheet.kind, args.what, args.status, args.events)
    BY <2>1, <2>2 DEF ViewInv
  <2> QED
    BY <2>1, <2>3, CallViews
<1>6. ASSUME NEW d \in DocTypes, NEW m \in {"upload", "unfile"}, effectiveCanEdit(d),
             Call(m, Args(d, shown, events)), UNCHANGED pageVars
      PROVE  ViewInv'
  <2> DEFINE args == Args(d, shown, events)
  <2>1. args.what = d /\ args.status = shown /\ args.events = events
    BY DEF Args
  <2> HIDE DEF args
  <2>2. EditView(m, d, shown, events)
    BY <1>6 DEF EditView, effectiveCanEdit, canEdit, canUploadSignedDoc, LateStatuses
  <2>3. Call(m, args) /\ EditView(m, args.what, args.status, args.events)
    BY <1>6, <2>1, <2>2 DEF args
  <2> QED
    BY <1>6, <2>3, CallViews
<1>7. ASSUME NEW d \in DocTypes, Upload(d) \/ DeleteDocument(d)
      PROVE  ViewInv'
  BY <1>6, <1>7 DEF Upload, DeleteDocument
<1> QED
  BY <1>1, <1>2, <1>3, <1>4, <1>5, <1>7

LEMMA ServerViews ==
  ASSUME CallsInv, ViewInv, NEW c \in calls,
         \/ \E rule \in AllRules : BeginTransition(c, rule)
         \/ \E h \in inflight : EndTransition(c, h)
         \/ RefuseTransition(c) \/ ServeEdit(c) \/ RefuseEdit(c)
  PROVE  ViewInv'
<1>1. UNCHANGED <<cache, reply, excused, user, sheet>>
  BY DEF BeginTransition, EndTransition, RefuseTransition, ServeEdit, RefuseEdit, cacheVars,
         pageVars
<1>2. Begun(c) \/ \E x : Served(c, x)
  BY DEF BeginTransition, EndTransition, RefuseTransition, ServeEdit, RefuseEdit
<1>3. CallsGoOn
  BY <1>2, AnswersGoOn
<1>4. UNCHANGED <<items, docs>> \/ ServeEdit(c)
  BY DEF BeginTransition, EndTransition, RefuseTransition, RefuseEdit, backendVars
<1>5. (items \subseteq Items /\ docs \subseteq DocTypes)'
  <2>1. CASE UNCHANGED <<items, docs>>
    BY <2>1 DEF ViewInv
  <2>2. CASE ServeEdit(c)
    <3>1. c.mutation = "upload" => c.args.what \in DocTypes
      BY DEF ViewInv, EditView
    <3> QED
      BY <2>2, <3>1 DEF ServeEdit, ViewInv, Filed
  <2> QED
    BY <1>4, <2>1, <2>2
<1> QED
  BY <1>1, <1>3, <1>5, ViewsStay DEF ViewInv

LEMMA OtherViews ==
  ASSUME ClientInv, ViewInv,
         \/ \E c \in calls :
              \/ onSuccess(c)
              \/ Refused(c) /\ UNCHANGED <<backendVars, pageVars, acts>>
              \/ Fault(NetworkFails(c))
         \/ Fetching
         \/ \E q \in Queries : Refocus(q) \/ Fault(FetchFails(q))
         \/ ColleagueBegins \/ ColleagueEdits
         \/ \E h \in inflight : ColleagueEnds(h)
         \/ UNCHANGED allVars
  PROVE  ViewInv'
<1>0. CallsInv /\ CacheKeys
  BY DEF ClientInv, ViewInv, CacheKeys
<1>1. ASSUME NEW c \in calls, onSuccess(c)
      PROVE  ViewInv'
  <2>1. invalidateQueries(InvalidatedBy(c.mutation), ChangedBy(c.mutation))
    BY <1>1 DEF onSuccess
  <2>2. c.mutation \in Mutations
    BY <1>0 DEF CallsInv, CallOK
  <2>3. CacheKeys'
    BY <1>0, <2>1, <2>2, ChangesAreInvalidated, InvalidationKeepsKeys DEF Mutations
  <2>4. CallsGoOn
    BY <1>0, <1>1, AnswersGoOn DEF onSuccess
  <2>5. UNCHANGED <<items, docs, user>> /\ sheet' \in {sheet, NoSheet}
    BY <1>1 DEF onSuccess, backendVars
  <2> QED
    BY <2>3, <2>4, <2>5, ViewsStay DEF CacheKeys, ViewInv
<1>2. ASSUME NEW c \in calls, Refused(c) \/ NetworkFails(c), UNCHANGED <<backendVars, pageVars>>
      PROVE  ViewInv'
  <2>1. CallsGoOn
    BY <1>0, <1>2, AnswersGoOn
  <2>2. CacheKeys'
    BY <1>0, <1>2 DEF CacheKeys, Refused, NetworkFails, cacheVars
  <2>3. UNCHANGED <<items, docs, user, sheet>>
    BY <1>2 DEF backendVars, pageVars
  <2> QED
    BY <2>1, <2>2, <2>3, ViewsStay DEF CacheKeys, ViewInv
<1>3. CASE Fetching \/ \E q \in Queries : Refocus(q) \/ Fault(FetchFails(q))
  <2>1. PICK q \in Queries :
          ServerReads(q, Stored(q)) \/ Arrive(q) \/ FetchFails(q) \/ Refetch(q)
    BY <1>3 DEF Fetching, Refocus, Fault
  <2>2. CacheKeys'
    BY <1>0, <2>1, FetchKeepsKeys
  <2>3. CallsGoOn
    BY <2>1 DEF CallsGoOn, ServerReads, Arrive, FetchFails, Refetch
  <2>4. UNCHANGED <<items, docs, user, sheet>>
    BY <1>3 DEF Fetching, Refocus, Fault, backendVars, pageVars
  <2> QED
    BY <2>2, <2>3, <2>4, ViewsStay DEF CacheKeys, ViewInv
<1>4. CASE \/ ColleagueBegins \/ ColleagueEdits \/ UNCHANGED allVars
           \/ \E h \in inflight : ColleagueEnds(h)
  <2>1. UNCHANGED <<clientVars, pageVars>>
    BY <1>4 DEF ColleagueBegins, ColleagueEdits, ColleagueEnds, allVars
  <2>2. CacheKeys' /\ CallsGoOn /\ UNCHANGED <<user, sheet>>
    BY <1>0, <2>1 DEF CacheKeys, CallsGoOn, clientVars, pageVars
  <2>3. (items \subseteq Items /\ docs \subseteq DocTypes)'
    BY <1>4 DEF ViewInv, ColleagueBegins, ColleagueEdits, ColleagueEnds, allVars, backendVars,
                Filed
  <2> QED
    BY <2>2, <2>3, ViewsStay DEF CacheKeys, ViewInv
<1> QED
  BY <1>1, <1>2, <1>3, <1>4 DEF Fault

\* What the page and its colleagues have the server do to the contract is what
\* the workflow of the backend allows, and no POST or PUT of a contract is among it.
LEMMA PageTakesWorkflowSteps ==
  ASSUME CallsInv, user \in Actors, [PageNext]_allVars
  PROVE  /\ [Next]_vars
         /\ inflight' # inflight \/ UNCHANGED vars
<1>0. ASSUME NEW r, NEW c, NEW a, NEW rule, Transition(r, c, a, rule)
      PROVE  inflight' # inflight
  <2> DEFINE g == [request |-> r, contract |-> c, actor |-> a, rule |-> rule]
  <2>1. g \in inflight' /\ g.request = r /\ \A h \in inflight : h.request # r
    BY <1>0 DEF Transition
  <2> QED
    BY <2>1
<1>a. ASSUME NEW h \in inflight, applyTransition(h) \/ TransitionFailed(h)
      PROVE  inflight' # inflight
  BY <1>a DEF applyTransition, TransitionFailed
<1>1. ASSUME NEW c \in calls, NEW rule \in AllRules, BeginTransition(c, rule)
      PROVE  Next /\ inflight' # inflight
  <2>1. c.request \in Requests
    BY PageCallsAreRequests DEF CallsInv, CallOK
  <2>2. Transition(c.request, id, user, rule)
    BY <1>1 DEF BeginTransition
  <2> QED
    BY <1>0, <2>1, <2>2, PageContract DEF Next
<1>2. ASSUME NEW c \in calls, NEW h \in inflight, EndTransition(c, h)
      PROVE  Next /\ inflight' # inflight
  BY <1>a, <1>2 DEF EndTransition, Next
<1>3. ASSUME ColleagueBegins
      PROVE  Next /\ inflight' # inflight
  BY <1>0, <1>3, PageContract DEF ColleagueBegins, Next
<1>4. ASSUME NEW h \in inflight, ColleagueEnds(h)
      PROVE  Next /\ inflight' # inflight
  BY <1>a, <1>4 DEF ColleagueEnds, Next
<1>5. ASSUME NEW c \in calls,
             \/ RefuseTransition(c) \/ ServeEdit(c) \/ RefuseEdit(c) \/ onSuccess(c)
             \/ Refused(c) /\ UNCHANGED <<backendVars, pageVars, acts>>
             \/ Fault(NetworkFails(c))
      PROVE  UNCHANGED vars
  BY <1>5 DEF RefuseTransition, ServeEdit, RefuseEdit, onSuccess, Fault, backendVars
<1>6. CASE \/ Fetching \/ ColleagueEdits \/ UNCHANGED allVars
           \/ \E q \in Queries : Refocus(q) \/ Fault(FetchFails(q))
  BY <1>6 DEF Fetching, ColleagueEdits, Refocus, Fault, allVars, backendVars
<1>7. ASSUME NEW m, NEW args, Call(m, args)
      PROVE  UNCHANGED vars
  BY <1>7 DEF Call, backendVars
<1>8. ASSUME NEW k, NEW item, Open(k, item)
      PROVE  UNCHANGED vars
  BY <1>8 DEF Open, backendVars
<1>9. CASE \/ \E action \in {"submit", "approve", "reject", "sign", "activate", "cancel"} :
                PressTransition(action)
           \/ \E k \in {"addItem", "editItem", "dropItem"}, item \in Items \cup {Missing} :
                OpenItemSheet(k, item)
           \/ OpenStatementSheet \/ CloseSheet \/ SubmitSheet
           \/ \E d \in DocTypes : Upload(d) \/ DeleteDocument(d)
  <2>1. ASSUME NEW action, PressTransition(action)
        PROVE  UNCHANGED vars
    BY <1>7, <2>1 DEF PressTransition
  <2>2. ASSUME NEW k, NEW item, OpenItemSheet(k, item)
        PROVE  UNCHANGED vars
    BY <1>8, <2>2 DEF OpenItemSheet
  <2>3. CASE OpenStatementSheet
    BY <1>8, <2>3 DEF OpenStatementSheet
  <2>4. CASE CloseSheet
    BY <2>4 DEF CloseSheet, backendVars
  <2>5. CASE SubmitSheet
    BY <1>7, <2>5 DEF SubmitSheet
  <2>6. ASSUME NEW d, Upload(d) \/ DeleteDocument(d)
        PROVE  UNCHANGED vars
    BY <1>7, <2>6 DEF Upload, DeleteDocument
  <2> QED
    BY <1>9, <2>1, <2>2, <2>3, <2>4, <2>5, <2>6
<1> QED
  BY <1>1, <1>2, <1>3, <1>4, <1>5, <1>6, <1>9 DEF PageNext

-----------------------------------------------------------------------------
PageInv == ClientInv /\ ViewInv /\ TypeOK

LEMMA PageInvariant == PageSpec => []PageInv
<1>1. ASSUME PageInit
      PROVE  PageInv
  <2>1. PICK e \in Entries :
          /\ status = [c \in Contracts |-> e.status]
          /\ approvals = [c \in Contracts |-> e.trail]
          /\ signedAt = [c \in Contracts |-> \E i \in DOMAIN e.trail : e.trail[i].to = "signed"]
          /\ docs = e.docs
          /\ user = e.user
          /\ CacheInit(e.warm, [q \in Queries |-> Stored(q)])
    BY <1>1 DEF PageInit
  <2>2. /\ e.status \in ContractStatus /\ e.trail \in Seq(Event)
        /\ e.docs \subseteq DocTypes /\ e.user \in Actors
    BY EntriesAreSituations
  <2>3. TypeOK
    BY <1>1, <2>1, <2>2 DEF PageInit, TypeOK
  <2>4. CacheKeys
    BY <2>1 DEF CacheInit, CacheKeys
  <2>5. items \subseteq Items /\ docs \subseteq DocTypes /\ user \in Actors
    BY <1>1, <2>1, <2>2, FirstItemsAreItems DEF PageInit
  <2>6. sheet = NoSheet /\ calls = {}
    BY <1>1 DEF PageInit
  <2>7. ViewInv
    BY <2>4, <2>5, <2>6 DEF ViewInv, CacheKeys
  <2> QED
    BY <1>1, <2>3, <2>7, ClientInit DEF PageInv
<1>2. ASSUME PageInv, [PageNext]_allVars
      PROVE  PageInv'
  <2>1. ClientInv /\ CallsInv /\ ViewInv /\ TypeOK /\ user \in Actors
    BY <1>2 DEF PageInv, ClientInv, ViewInv
  <2>2. ClientInv'
    BY <1>2, <2>1, ClientStep
  <2>3. TypeOK'
    BY <1>2, <2>1, PageTakesWorkflowSteps, TypesKept
  <2>4. ViewInv'
    BY <1>2, <2>1, UserViews, ServerViews, OtherViews DEF PageNext
  <2> QED
    BY <2>2, <2>3, <2>4 DEF PageInv
<1> QED
  BY <1>1, <1>2, PTL DEF PageSpec

(***************************************************************************)
(* The page, its cache and the backend below it keep their types, and each *)
(* handler at work on a call of the page belongs to a call that is open.   *)
(***************************************************************************)
THEOREM PageTypeCorrect == PageSpec => []PageTypeOK
<1>1. PageInv => PageTypeOK
  <2> SUFFICES ASSUME PageInv PROVE PageTypeOK
    OBVIOUS
  <2>1. CacheInv /\ CallsInv /\ ViewInv /\ TypeOK
    BY DEF PageInv, ClientInv
  <2>2. CacheTypeOK
    BY <2>1 DEF CacheTypeOK, CacheInv, ViewInv
  <2>3. sheet.kind \in {"none", "addItem", "editItem", "dropItem", "addStatement"}
    BY <2>1 DEF CallsInv, SheetKinds, NoSheet
  <2>4. \A h \in inflight : h.request \in PageRequests =>
          \E c \in calls : c.request = h.request /\ c.state = "busy"
    BY <2>1 DEF CallsInv, WorksFor
  <2> QED
    BY <2>1, <2>2, <2>3, <2>4 DEF PageTypeOK, ViewInv, CallsInv
<1> QED
  BY <1>1, PageInvariant, PTL

(***************************************************************************)
(* The server asks for no status before it edits items, documents or       *)
(* statements.  An edit in the wrong phase is carried out only when the    *)
(* view it was made from had been overtaken, since no button offers it in  *)
(* a view that is up to date and a sheet keeps the view it was opened on.  *)
(***************************************************************************)
THEOREM LockedEditsAreMadeBlind == PageSpec => LockedEditsAreBlind
<1> DEFINE Excused(c) ==
      \/ [contract |-> c.args.status, approvals |-> c.args.events] # Now
      \/ c.mutation = "addStatement" /\ status[id] = "active"
      \/ c.mutation # "addStatement" /\ Now = [contract |-> "draft", approvals |-> 0]
      \/ /\ c.args.what = "signed_contract"
         /\ status[id] \in {"ready_to_print", "signed"}
<1>1. ASSUME PageInv, NEW c \in calls, ServeEdit(c)
      PROVE  Excused(c)
  <2>1. EditView(c.mutation, c.args.what, c.args.status, c.args.events)
    BY <1>1 DEF PageInv, ViewInv
  <2>2. Len(approvals[id]) \in Nat
    BY <1>1, PageContract DEF PageInv, TypeOK
  <2>3. CASE [contract |-> c.args.status, approvals |-> c.args.events] = Now
    <3>1. c.args.status = status[id] /\ c.args.events = Len(approvals[id])
      BY <2>3 DEF Now
    <3>2. c.args.events # Missing
      BY <2>2, <3>1, MissingIsNoNumber
    <3>3. CASE c.mutation = "addStatement"
      BY <2>1, <3>1, <3>3 DEF EditView
    <3>4. CASE c.mutation \in {"addItem", "editItem", "dropItem"}
      <4>1. status[id] = "draft" /\ Len(approvals[id]) = 0
        BY <2>1, <3>1, <3>2, <3>4 DEF EditView
      <4> QED
        BY <3>4, <4>1 DEF Now
    <3>5. CASE c.mutation \in {"upload", "unfile"} /\ c.args.what = "signed_contract"
      BY <2>1, <3>1, <3>5 DEF EditView, LateStatuses
    <3>6. CASE c.mutation \in {"upload", "unfile"} /\ c.args.what # "signed_contract"
      <4>1. status[id] = "draft" /\ Len(approvals[id]) = 0
        BY <2>1, <3>1, <3>2, <3>6 DEF EditView
      <4> QED
        BY <3>6, <4>1 DEF Now
    <3> QED
      BY <1>1, <3>3, <3>4, <3>5, <3>6 DEF ServeEdit
  <2> QED
    BY <2>3
<1>2. PageInv => \A c \in calls : ServeEdit(c) => Excused(c)
  BY <1>1
<1>3. PageInv =>
        [\A c \in calls : ServeEdit(c) =>
           LET seen  == [contract |-> c.args.status, approvals |-> c.args.events]
               Draft == [contract |-> "draft", approvals |-> 0]
           IN \/ seen # Now
              \/ c.mutation = "addStatement" /\ status[id] = "active"
              \/ c.mutation # "addStatement" /\ Now = Draft
              \/ /\ c.args.what = "signed_contract"
                 /\ status[id] \in {"ready_to_print", "signed"}]_allVars
  BY <1>2
<1> QED
  BY <1>3, PageInvariant, PTL DEF LockedEditsAreBlind
-----------------------------------------------------------------------------
(***************************************************************************)
(* Every step of the page is a step of the workflow or leaves it alone:    *)
(* what is decided on views that are old, and by colleagues meanwhile,     *)
(* skips no head.  The page writes no status by PUT, so nothing is asked   *)
(* of WrittenStatuses here.                                                *)
(***************************************************************************)
THEOREM PageSkipsNoStage == PageSpec => []NoStageSkipped
<1>1. PageInit /\ PageInv => EarnedInv
  BY EntriesAreEarned DEF PageInit, EarnedInv, EarnedAt, Earned, SignedOff
<1>2. PageInv /\ PageInv' /\ EarnedInv /\ [PageNext]_allVars => EarnedInv'
  <2> SUFFICES ASSUME PageInv, PageInv', EarnedInv, [PageNext]_allVars,
                      NEW c \in Contracts
               PROVE  EarnedAt(c)'
    BY DEF EarnedInv
  <2>1. [Next]_vars /\ (inflight' # inflight \/ UNCHANGED vars)
    BY PageTakesWorkflowSteps DEF PageInv, ClientInv, ViewInv
  <2>2. inflight' # inflight \/ status' = status
    BY <2>1 DEF vars
  <2>3. TypeOK /\ TypeOK' /\ EarnedAt(c)
    BY DEF PageInv, EarnedInv
  <2> QED
    BY <2>1, <2>2, <2>3, EarnedStep
<1>3. EarnedInv => NoStageSkipped
  BY DEF EarnedInv, EarnedAt, Earned, NoStageSkipped
<1> QED
  BY <1>1, <1>2, <1>3, PageInvariant, PTL DEF PageSpec
=============================================================================
