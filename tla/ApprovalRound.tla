---------------------------- MODULE ApprovalRound ----------------------------
(***************************************************************************)
(* What the contract approval chain promises, without its statuses, its    *)
(* requests or its trail: "5-stage sign-off chain before a contract is     *)
(* legally binding" (knowledge-graph/flows/Contract Approval Workflow.md). *)
(* A round of review opens with a submission; the four heads sign off one  *)
(* after the other in a fixed order, in that round; any refusal ends the   *)
(* round and its sign-offs count for nothing afterwards; only a contract   *)
(* all four signed off in the round in progress becomes binding; a         *)
(* withdrawn contract stays withdrawn.  A contract whose status was moved  *)
(* past the chain is astray for good, and the chain promises nothing of it.*)
(***************************************************************************)
EXTENDS Naturals, Sequences

CONSTANT Contracts

\* The order in which the heads decide.
Order == <<"engineering_head", "finance_head", "juridical_head", "manager">>

VARIABLES
  phase,     \* phase[c]: open, review, binding, withdrawn or astray
  signoffs   \* signoffs[c]: how many heads signed off in this round

Init ==
  /\ phase = [c \in Contracts |-> "open"]
  /\ signoffs = [c \in Contracts |-> 0]

Submit(c) ==
  /\ phase[c] = "open"
  /\ phase' = [phase EXCEPT ![c] = "review"]
  /\ UNCHANGED signoffs

SignOff(c) ==
  /\ phase[c] = "review"
  /\ signoffs[c] < Len(Order)
  /\ signoffs' = [signoffs EXCEPT ![c] = @ + 1]
  /\ UNCHANGED phase

\* A head whose turn it is refuses.
SendBack(c) ==
  /\ phase[c] = "review"
  /\ signoffs[c] < Len(Order)
  /\ phase' = [phase EXCEPT ![c] = "open"]
  /\ signoffs' = [signoffs EXCEPT ![c] = 0]

Bind(c) ==
  /\ phase[c] = "review"
  /\ signoffs[c] = Len(Order)
  /\ phase' = [phase EXCEPT ![c] = "binding"]
  /\ UNCHANGED signoffs

Withdraw(c) ==
  /\ phase[c] \notin {"withdrawn", "astray"}
  /\ phase' = [phase EXCEPT ![c] = "withdrawn"]
  /\ signoffs' = [signoffs EXCEPT ![c] = 0]

\* A decision taken on an outdated status, or a status written by hand.
Stray(c) ==
  /\ phase[c] # "astray"
  /\ phase' = [phase EXCEPT ![c] = "astray"]
  /\ signoffs' = [signoffs EXCEPT ![c] = 0]

Next ==
  \E c \in Contracts :
    Submit(c) \/ SignOff(c) \/ SendBack(c) \/ Bind(c) \/ Withdraw(c) \/ Stray(c)

Spec == Init /\ [][Next]_<<phase, signoffs>>
=============================================================================
