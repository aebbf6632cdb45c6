--------------------------- MODULE MCStatementPage ---------------------------
(***************************************************************************)
(* A small instance of StatementPage for TLC.                              *)
(***************************************************************************)
EXTENDS StatementPage, TLC

CONSTANTS
  pm, accountant, director,   \* who acts on the statement
  l1, l2, d1, d2, d3          \* its line items and deductions

MCRolesOf == (pm :> {"pm"}) @@ (accountant :> {"finance"}) @@ (director :> {"director"})

\* Events as the server writes them, with the new status twice.
Reached(a, s) == [actor |-> a, from |-> s, to |-> s]
MCTrail ==
  <<Reached(pm, "submitted"), Reached(accountant, "finance_review"), Reached(pm, "pm_review")>>

MCQueries == {"statement"}

MCQty == (l1 :> 1) @@ (l2 :> 1)
MCDeds == (d1 :> 1) @@ (d2 :> 1) @@ (d3 :> 0)

Entry(n, who, k, w) ==
  [status |-> IF n = 0 THEN "draft" ELSE MCTrail[n].to, trail |-> SubSeq(MCTrail, 1, n),
   qty |-> MCQty, deds |-> MCDeds, user |-> who, acts |-> k, uses |-> w]

\* The second one has no quantities yet.
MCEntries ==
  { Entry(0, pm, 5, {"worksDone"}),
    [Entry(0, pm, 5, {"worksDone"}) EXCEPT !.qty = NoWorks],
    Entry(0, pm, 4, {"addDeduct", "editDeduct"}),
    Entry(0, pm, 2, Mutations),
    Entry(1, accountant, 3, {"transition"}),
    Entry(2, pm, 3, {"transition"}),
    Entry(3, director, 3, {"transition"}) }
=============================================================================
