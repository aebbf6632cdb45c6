--------------------------- MODULE MCContractPage ---------------------------
(***************************************************************************)
(* A small instance of ContractPage for TLC.                               *)
(***************************************************************************)
EXTENDS ContractPage, TLC

CONSTANTS engineer, financier, jurist, boss, both   \* who acts on the contract

MCRolesOf ==
  (engineer :> {"engineering_head"}) @@ (financier :> {"finance_head"})
    @@ (jurist :> {"juridical_head"}) @@ (boss :> {"manager"})
    @@ (both :> {"engineering_head", "finance_head"})

\* The trail of a contract that went straight to activation.
Step(a, f, t) == [actor |-> a, from |-> f, to |-> t]
MCTrail ==
  << Step(boss, "draft", "pending_engineering"),
     Step(engineer, "pending_engineering", "pending_finance"),
     Step(financier, "pending_finance", "pending_legal"),
     Step(jurist, "pending_legal", "pending_ceo"),
     Step(boss, "pending_ceo", "ready_to_print"),
     Step(boss, "ready_to_print", "signed"),
     Step(boss, "signed", "active") >>

Entry(n, who, filed, cold, k) ==
  [status |-> IF n = 0 THEN "draft" ELSE MCTrail[n].to, trail |-> SubSeq(MCTrail, 1, n),
   user |-> who, docs |-> filed, warm |-> ContractQueries \ cold, acts |-> k]

\* The first one has not loaded the approvals yet, the second was sent back.
MCEntries ==
  { Entry(0, engineer, {"guarantees"}, {"contract-approvals"}, 2),
    [Entry(0, engineer, {"guarantees"}, {}, 3) EXCEPT !.trail =
       <<MCTrail[1], Step(engineer, "pending_engineering", "draft")>>],
    Entry(1, engineer, {}, {}, 3),
    Entry(1, both, {}, {}, 2),
    Entry(4, boss, {}, {}, 3),
    Entry(5, boss, {"guarantees"}, {}, 3),
    Entry(6, boss, {}, {}, 3),
    Entry(7, boss, {}, {}, 2) }
=============================================================================
