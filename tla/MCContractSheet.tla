-------------------------- MODULE MCContractSheet --------------------------
(***************************************************************************)
(* A small instance of CreateContractSheet for TLC.                        *)
(***************************************************************************)
EXTENDS CreateContractSheet

\* A row that fits the budget, and one whose quantity was emptied and whose
\* rate the column rounds up.
MCRowChoices ==
  { [described |-> TRUE, quantity |-> 1, rate |-> 2],
    [described |-> TRUE, quantity |-> Blank, rate |-> 1] }

MCPrices == { SentPrice(row) : row \in RowChoices \cup {NewRow} }

MCColleaguePrices == { price \in Prices : price.sent = 2 }

\* Doubles that lose the last bit of a number above 2.
MCDoubleOf(n) == IF n > 2 THEN n - (n % 2) ELSE n

MCDoubleTotal(rows) == MCDoubleOf(Total(rows))

\* The mutation depends on the budget, the rows and the files alone: the
\* other fields of the forms that are submitted are not varied.
MCSubmittedForms ==
  { [defaultValues EXCEPT !.project = "chosen", !.contractor = TRUE,
                          !.title = TRUE, !.budget = b] :
      b \in Budgets }
=============================================================================
