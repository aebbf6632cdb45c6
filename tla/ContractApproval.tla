-------------------------- MODULE ContractApproval --------------------------
(***************************************************************************)
(* The contract approval workflow of the backend, ContractSvc in           *)
(* internal/services/contracts_service.go.                                 *)
(*                                                                         *)
(* POST /contracts/:id/transition runs Transition in two database steps:   *)
(* the contract is read and the rule for (status, action) is looked up     *)
(* outside any transaction, then applyTransition writes the new status and *)
(* inserts the approval event in one transaction.  The UPDATE is not       *)
(* guarded by the status that was read and no row lock is held from one    *)
(* step to the other, so any number of handlers may commit in between.     *)
(* Each handler between its two steps is a record of `inflight'.           *)
(***************************************************************************)
EXTENDS Naturals, Sequences

CONSTANTS
  Contracts,        \* primary keys a contract row may have
  Actors,           \* the employees that call the endpoint
  RolesOf,          \* RolesOf[a]: the roles in the access token of actor a
  Requests,         \* identities of the handlers that can be in flight at once
  WrittenStatuses,  \* statuses the bodies of POST and PUT /contracts carry
  MaxEvents         \* bound: no transition is begun on a longer trail

(***************************************************************************)
(* The values of ContractStatus and of Role, internal/models/enums.go.     *)
(* The column has a CHECK constraint over exactly these statuses.          *)
(***************************************************************************)
ContractStatus ==
  {"draft", "pending_engineering", "pending_finance", "pending_legal",
   "pending_ceo", "ready_to_print", "signed", "active", "closed", "cancelled"}

HeadRoles ==
  {"manager", "finance_head", "juridical_head", "engineering_head",
   "security_head"}

Role ==
  HeadRoles \cup {"admin", "finance", "engineering", "security", "sudoer"}

ASSUME ActorsHaveRoles == RolesOf \in [Actors -> SUBSET Role]
ASSUME WrittenAreStatuses == WrittenStatuses \subseteq ContractStatus
ASSUME MaxEventsIsNat == MaxEvents \in Nat

-----------------------------------------------------------------------------
(***************************************************************************)
(* The state machine.  A rule says which action leads from one status to   *)
(* another and which roles may take it.                                    *)
(***************************************************************************)
Rule(from, action, to, roles) ==
  [from |-> from, action |-> action, to |-> to, roles |-> roles]

contractStateMachine ==
  { Rule("draft", "submit", "pending_engineering", HeadRoles),
    Rule("pending_engineering", "approve", "pending_finance", {"engineering_head"}),
    Rule("pending_engineering", "reject", "draft", {"engineering_head"}),
    Rule("pending_finance", "approve", "pending_legal", {"finance_head"}),
    Rule("pending_finance", "reject", "draft", {"finance_head"}),
    Rule("pending_legal", "approve", "pending_ceo", {"juridical_head"}),
    Rule("pending_legal", "reject", "draft", {"juridical_head"}),
    Rule("pending_ceo", "approve", "ready_to_print", {"manager"}),
    Rule("pending_ceo", "reject", "draft", {"manager"}),
    Rule("ready_to_print", "sign", "signed", {"manager"}),
    Rule("signed", "activate", "active", {"manager"}) }

\* Mutant of CancelRules: a cancelled contract may be reopened.
CancelRules_Reopen ==
  { Rule(s, "cancel", "cancelled", {"manager"}) :
      s \in ContractStatus \ {"cancelled", "closed"} }
    \cup { Rule("cancelled", "submit", "draft", HeadRoles) }

\* cancel is no entry of the map: Transition treats it before the lookup.
CancelRules ==
  { Rule(s, "cancel", "cancelled", {"manager"}) :
      s \in ContractStatus \ {"cancelled", "closed"} }

AllRules == contractStateMachine \cup CancelRules

\* The guard headOnly of the /contracts routes; security_head is not in it.
PassesRoute(a) ==
  RolesOf[a] \cap {"manager", "engineering_head", "finance_head",
                   "juridical_head", "admin", "sudoer"} # {}

\* Mutant of Authorized: the roles of the rule are not asked for.
Authorized_RouteOnly(a, rule) == PassesRoute(a)

Authorized(a, rule) ==
  PassesRoute(a) /\ RolesOf[a] \cap rule.roles # {}

-----------------------------------------------------------------------------
VARIABLES
  row,        \* row[c]: whether the row of c is absent, live or soft-deleted
  status,     \* status[c]: column status
  signedAt,   \* signedAt[c]: whether column signed_at holds a time
  approvals,  \* approvals[c]: the approval events of c, oldest first
  inflight    \* the handlers between the read and the transaction

vars == <<row, status, signedAt, approvals, inflight>>

Event == [actor : Actors, from : ContractStatus, to : ContractStatus]

Handler ==
  [request : Requests, contract : Contracts, actor : Actors, rule : AllRules]

TypeOK ==
  /\ row \in [Contracts -> {"absent", "live", "deleted"}]
  /\ status \in [Contracts -> ContractStatus]
  /\ signedAt \in [Contracts -> BOOLEAN]
  /\ approvals \in [Contracts -> Seq(Event)]
  /\ inflight \in SUBSET Handler

Init ==
  /\ row = [c \in Contracts |-> "absent"]
  /\ status = [c \in Contracts |-> "draft"]
  /\ signedAt = [c \in Contracts |-> FALSE]
  /\ approvals = [c \in Contracts |-> <<>>]
  /\ inflight = {}

-----------------------------------------------------------------------------
\* POST /contracts: the status of the body is kept when it is a valid one,
\* and is draft otherwise.
Create(c, s) ==
  /\ row[c] = "absent"
  /\ s \in WrittenStatuses \cup {"draft"}
  /\ row' = [row EXCEPT ![c] = "live"]
  /\ status' = [status EXCEPT ![c] = s]
  /\ UNCHANGED <<signedAt, approvals, inflight>>

\* PUT /contracts/:id with a status: written as it is, with no rule and no
\* event.  A PUT without a status changes nothing modelled here.
Update(c, s) ==
  /\ row[c] = "live"
  /\ s \in WrittenStatuses
  /\ status' = [status EXCEPT ![c] = s]
  /\ UNCHANGED <<row, signedAt, approvals, inflight>>

\* DELETE /contracts/:id: a soft delete, whatever the status.
Delete(c) ==
  /\ row[c] = "live"
  /\ row' = [row EXCEPT ![c] = "deleted"]
  /\ UNCHANGED <<status, signedAt, approvals, inflight>>

\* The first half of Transition: the live row is read, the rule for its status
\* is found and the caller's roles are checked.  The 403, 404 and 409 answers
\* change nothing.
Transition(r, c, a, rule) ==
  /\ \A h \in inflight : h.request # r
  /\ row[c] = "live"
  /\ rule.from = status[c]
  /\ Authorized(a, rule)
  /\ Len(approvals[c]) < MaxEvents
  /\ inflight' = inflight \cup
       {[request |-> r, contract |-> c, actor |-> a, rule |-> rule]}
  /\ UNCHANGED <<row, status, signedAt, approvals>>

\* Mutant of EventOf: the old status is read after the update.
EventOf_ReadAfter(h) == [actor |-> h.actor, from |-> h.rule.to, to |-> h.rule.to]

\* Mutant of EventOf: the action is recorded in place of the status.
EventOf_Action(h) == [actor |-> h.actor, from |-> h.rule.from, to |-> h.rule.action]

EventOf(h) == [actor |-> h.actor, from |-> h.rule.from, to |-> h.rule.to]

\* Mutant of applyTransition: every update writes the column signed_at.
applyTransition_Restamp(h) ==
  LET c == h.contract IN
  /\ IF row[c] = "live"
       THEN /\ status' = [status EXCEPT ![c] = h.rule.to]
            /\ signedAt' = [signedAt EXCEPT ![c] = h.rule.to = "signed"]
       ELSE UNCHANGED <<status, signedAt>>
  /\ approvals' = [approvals EXCEPT ![c] = Append(@, EventOf(h))]
  /\ inflight' = inflight \ {h}
  /\ UNCHANGED row

\* The second half: UPDATE contracts SET status [, signed_at] WHERE id AND
\* deleted_at IS NULL, then INSERT INTO approval_events, in one transaction.
\* On a row deleted meanwhile the UPDATE matches nothing, which is no error:
\* the event is inserted all the same.
applyTransition(h) ==
  LET c == h.contract IN
  /\ IF row[c] = "live"
       THEN /\ status' = [status EXCEPT ![c] = h.rule.to]
            /\ signedAt' = [signedAt EXCEPT ![c] = @ \/ h.rule.to = "signed"]
       ELSE UNCHANGED <<status, signedAt>>
  /\ approvals' = [approvals EXCEPT ![c] = Append(@, EventOf(h))]
  /\ inflight' = inflight \ {h}
  /\ UNCHANGED row

\* The transaction fails and is rolled back, or the process stops before it.
TransitionFailed(h) ==
  /\ inflight' = inflight \ {h}
  /\ UNCHANGED <<row, status, signedAt, approvals>>

Next ==
  \/ \E c \in Contracts, s \in ContractStatus : Create(c, s) \/ Update(c, s)
  \/ \E c \in Contracts : Delete(c)
  \/ \E r \in Requests, c \in Contracts, a \in Actors, rule \in AllRules :
       Transition(r, c, a, rule)
  \/ \E h \in inflight : applyTransition(h) \/ TransitionFailed(h)

Spec == Init /\ [][Next]_vars

-----------------------------------------------------------------------------
(***************************************************************************)
(* Properties.                                                             *)
(***************************************************************************)

\* Desk[role]: the status in which a contract waits for the decision of role.
Desk ==
  [engineering_head |-> "pending_engineering",
   finance_head     |-> "pending_finance",
   juridical_head   |-> "pending_legal",
   manager          |-> "pending_ceo"]

\* Event e records that role let the contract pass its desk.
SignsOff(e, role) ==
  /\ e.from = Desk[role]
  /\ e.to \notin {"draft", "cancelled"}
  /\ role \in RolesOf[e.actor]

SignedOff(c, role) ==
  \E i \in DOMAIN approvals[c] : SignsOff(approvals[c][i], role)

\* The heads whose approval a contract in status s must have behind it.
MustHaveSigned(s) ==
  CASE s = "pending_finance" -> {"engineering_head"}
    [] s = "pending_legal"   -> {"engineering_head", "finance_head"}
    [] s = "pending_ceo"     -> {"engineering_head", "finance_head", "juridical_head"}
    [] s \in {"ready_to_print", "signed", "active"} -> DOMAIN Desk
    [] OTHER -> {}

\* The five-stage chain cannot be short-circuited: whatever handlers overlap,
\* and however stale the status each of them read, a contract never stands at a
\* stage unless every earlier head's approval, by an employee who holds that
\* role, is in its audit trail.  (Transition / applyTransition.)
NoStageSkipped ==
  \A c \in Contracts :
    \A role \in MustHaveSigned(status[c]) : SignedOff(c, role)

\* signed_at is set on a live contract exactly when its trail holds a signing,
\* and stays set: the two are written by one transaction, and a transaction
\* whose UPDATE matched no row belongs to a contract that is gone.
SignedAtMatchesTrail ==
  \A c \in Contracts :
    row[c] = "live" =>
      (signedAt[c] <=> \E i \in DOMAIN approvals[c] : approvals[c][i].to = "signed")

\* The trail of c starts from draft, each event starts where the one before it
\* ended, and the last one ended in the status the live contract has.
TrailExact(c) ==
  LET trail == approvals[c]
      n     == Len(trail)
  IN /\ \A i \in 1..n : trail[i].from = IF i = 1 THEN "draft" ELSE trail[i - 1].to
     /\ row[c] = "live" => status[c] = IF n = 0 THEN "draft" ELSE trail[n].to

\* "An immutable audit record of every status transition" (approval.go): every
\* trail is exact.
AuditTrailExact == \A c \in Contracts : TrailExact(c)

=============================================================================
