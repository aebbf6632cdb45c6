---------------------------- MODULE StatementMath ----------------------------
(***************************************************************************)
(* InterimStatement.Recompute of internal/models/statement.go: the cached  *)
(* aggregates of a statement as a function of the sums over its items and  *)
(* of the rates of its contract.                                           *)
(*                                                                         *)
(* Amounts are integers.  The code divides decimals, exactly as far as the *)
(* eight digits of the columns go; amounts that are multiples of 10000     *)
(* make every division here exact too.  ld_amount is a column nothing in   *)
(* the backend ever writes and is its default, 0.                          *)
(***************************************************************************)
EXTENDS Integers

CONSTANT Contract   \* the rates, in basis points, and the gross budget

Rate == 0..10000

ASSUME ContractRates ==
  Contract \in [retention : Rate, advance : Rate, vat : Rate,
                socialSecurity : Rate, managementFee : Rate, grossBudget : Nat]

Bps(amount, rate) == (amount * rate) \div 10000

Least(x, y) == IF x <= y THEN x ELSE y

\* The net amount as a formula over the other cached columns.
NetOf(a) ==
  a.gross + a.extra - a.retention - a.advance + a.vat - a.socialSecurity - a.deduction

\* sums holds the sums over work-done, extra-work and deduction items.  In a
\* cost-plus contract (a management fee) the work done counts for nothing and
\* the gross amount is the fee on the extra works.  Progress is computed only
\* when there is a budget; 0 stands for the NULL it is before.
Recompute(sums, advanceOutstanding) ==
  LET gross     == IF Contract.managementFee > 0
                     THEN Bps(sums.extra, Contract.managementFee) ELSE sums.works
      total     == gross + sums.extra
      retention == Bps(total, Contract.retention)
      stored    == [gross          |-> gross,
                    extra          |-> sums.extra,
                    deduction      |-> sums.deduction,
                    retention      |-> retention,
                    advance        |-> Least(Bps(total, Contract.advance),
                                             advanceOutstanding),
                    vat            |-> Bps(total - retention, Contract.vat),
                    socialSecurity |-> Bps(total, Contract.socialSecurity),
                    progress       |-> IF Contract.grossBudget > 0
                                         THEN (total * 100) \div Contract.grossBudget
                                         ELSE 0]
  IN  [f \in DOMAIN stored \cup {"net"} |->
         IF f = "net" THEN NetOf(stored) ELSE stored[f]]

NoAggregates ==
  [f \in {"gross", "extra", "deduction", "retention", "advance", "vat",
          "socialSecurity", "progress", "net"} |-> 0]
=============================================================================
