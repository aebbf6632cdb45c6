-------------------------- MODULE MCStatementLedger --------------------------
(***************************************************************************)
(* Instances of StatementLedger for TLC.                                   *)
(***************************************************************************)
EXTENDS LedgerHistory, TLC

CONSTANTS manager, accountant, director, admin

\* One employee per role that the table of transitions names.  "pm" and
\* "director" are not among the roles of enums.go: CreateEmployee refuses them,
\* UpdateEmployee, which does not look at the role, can give them.
Staff == {manager, accountant, director, admin}

StaffRoles ==
  [a \in Staff |-> CASE a = manager    -> {"pm"}
                     [] a = accountant -> {"finance"}
                     [] a = director   -> {"director", "other"}
                     [] OTHER          -> {"admin"}]

\* Who reviews does not matter to the edits: the administrator may do it all.
AdminAlone == {admin}
AdminRoles == [a \in AdminAlone |-> {"admin"}]

\* No rate and no budget: the net is gross and extras less deductions.
NoRates ==
  [retention |-> 0, advance |-> 0, vat |-> 0, socialSecurity |-> 0,
   managementFee |-> 0, grossBudget |-> 0]

\* 10 % retention, 20 % advance, 9 % VAT, 5 % social security.
UnitRate ==
  [retention |-> 1000, advance |-> 2000, vat |-> 900, socialSecurity |-> 500,
   managementFee |-> 0, grossBudget |-> 100000]

TwoAmounts == {10000, 30000}
OneAmount == {10000}

\* Nothing, or one item.
OneWork == {<<>>, <<10000>>}

AnyRequest == Permutations(Requests)

OneLine == 1..1
=============================================================================
