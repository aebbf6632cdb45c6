--------------------------- MODULE ContractHistory ---------------------------
(***************************************************************************)
(* ContractApproval with three history variables.  They change no step of  *)
(* the workflow; they record what the properties of overlapping requests   *)
(* and of written statuses have to tell apart:                             *)
(*   - a handler is overtaken when the trail or the status of its contract *)
(*     changed after it read the row;                                      *)
(*   - a contract has strayed when an overtaken handler committed, or when *)
(*     a POST or PUT body gave it another status than it had;              *)
(*   - a contract is overridden when the status a body gave it stands for  *)
(*     an approval that is not in its trail.                               *)
(* Nothing in the code keeps any of this from happening.                   *)
(***************************************************************************)
EXTENDS ContractApproval

VARIABLES
  overtaken,   \* the requests in flight that were overtaken
  strayed,     \* the contracts that have strayed, for good
  overridden   \* the contracts that were overridden, for good

historyVars == <<row, status, signedAt, approvals, inflight,
                 overtaken, strayed, overridden>>

\* The requests at work on c.
AtWork(c) == {h.request : h \in {g \in inflight : g.contract = c}}

\* The approvals that s stands for are not all in the trail of c.
Unearned(c, s) == \E role \in MustHaveSigned(s) : ~ SignedOff(c, role)

HistoryTypeOK ==
  /\ TypeOK
  /\ overtaken \subseteq {h.request : h \in inflight}
  /\ strayed \subseteq Contracts
  /\ overridden \subseteq Contracts

HistoryInit ==
  Init /\ overtaken = {} /\ strayed = {} /\ overridden = {}

\* A POST or PUT.  A body that repeats the status the contract has is harmless.
Writes(c, s) ==
  /\ Create(c, s) \/ Update(c, s)
  /\ overtaken' = IF s = status[c] THEN overtaken ELSE overtaken \cup AtWork(c)
  /\ strayed' = IF s = status[c] THEN strayed ELSE strayed \cup {c}
  /\ overridden' = IF Unearned(c, s) THEN overridden \cup {c} ELSE overridden

Deletes(c) ==
  Delete(c) /\ UNCHANGED <<overtaken, strayed, overridden>>

Reads(r, c, a, rule) ==
  Transition(r, c, a, rule) /\ UNCHANGED <<overtaken, strayed, overridden>>

\* The event overtakes whoever else read the row before it.
Commits(h) ==
  /\ applyTransition(h)
  /\ overtaken' = (overtaken \cup AtWork(h.contract)) \ {h.request}
  /\ strayed' = IF h.request \in overtaken THEN strayed \cup {h.contract} ELSE strayed
  /\ UNCHANGED overridden

GivesUp(h) ==
  /\ TransitionFailed(h)
  /\ overtaken' = overtaken \ {h.request}
  /\ UNCHANGED <<strayed, overridden>>

HistoryNext ==
  \/ \E c \in Contracts, s \in ContractStatus : Writes(c, s)
  \/ \E c \in Contracts : Deletes(c)
  \/ \E r \in Requests, c \in Contracts, a \in Actors, rule \in AllRules :
       Reads(r, c, a, rule)
  \/ \E h \in inflight : Commits(h) \/ GivesUp(h)

HistorySpec == HistoryInit /\ [][HistoryNext]_historyVars

-----------------------------------------------------------------------------
(***************************************************************************)
(* Properties.                                                             *)
(***************************************************************************)

\* The five-stage chain can be short-circuited by a status written by hand and
\* by nothing else: however many handlers overlap, and however stale the status
\* each of them read, a contract stands at a stage only with every earlier
\* head's approval, by an employee who holds that role, in its trail, unless a
\* POST or PUT itself once wrote a status whose approvals were not there.
\* (Transition / applyTransition.)
NoStageSkippedUnlessWritten ==
  \A c \in Contracts \ overridden : ~ Unearned(c, status[c])

\* The trail is the exact history of the status (approval.go: "immutable audit
\* record of every status transition") on every contract that has not strayed:
\* requests may overlap as they please, only the commit of a handler that was
\* overtaken between its read and its write, or another status in a POST or PUT
\* body, breaks the trail.
TrailExactUnlessStrayed ==
  \A c \in Contracts \ strayed : TrailExact(c)

\* A cancelled contract comes back in two ways only: a PUT writes its status, or
\* a transition is applied that had read the contract before the cancellation
\* and was overtaken by it.  No request begun afterwards revives it.
CancelIsFinalUnlessRaced ==
  [][\A c \in Contracts :
       status[c] = "cancelled" /\ status'[c] # "cancelled" =>
         \/ \E s \in WrittenStatuses : Update(c, s)
         \/ \E h \in inflight \ inflight' :
              h.contract = c /\ h.request \in overtaken]_historyVars
=============================================================================
