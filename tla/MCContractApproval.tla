------------------------- MODULE MCContractApproval -------------------------
(***************************************************************************)
(* Instances of ContractApproval for TLC.                                  *)
(***************************************************************************)
EXTENDS ContractRounds, TLC

CONSTANTS eng, fin, chief

(***************************************************************************)
(* The smallest team in which no one sits at two consecutive desks, with   *)
(* an employee (chief) who is a security head and an administrator: the    *)
(* route lets him through, no desk of the chain is his.                    *)
(***************************************************************************)
Team == {eng, fin, chief}

TeamRoles ==
  [a \in Team |->
     CASE a = eng -> {"engineering_head", "juridical_head"}
       [] a = fin -> {"finance_head", "manager"}
       [] OTHER   -> {"security_head", "admin"}]

\* What POST and PUT bodies carry: a status from the start, the middle and the
\* end of the chain (the edit form may send any of the ten); nothing.
OneOfEachKind == {"draft", "pending_finance", "ready_to_print"}
NoStatuses == {}

AnyRequest == Permutations(Requests)
=============================================================================
