--------------------------- MODULE ContractItems ---------------------------
(***************************************************************************)
(* The line items (WBS rows) of contracts and their budget guard:          *)
(* CreateLineItem, UpdateLineItem and DeleteLineItem of ContractSvc in     *)
(* internal/services/contracts_service.go.                                 *)
(*                                                                         *)
(* A handler first reads the contract and the sum of the items, decides,   *)
(* and then writes in a statement of its own: no transaction or lock ties  *)
(* the two, so handlers between them are kept in `pricing'.  The sum is a  *)
(* raw query without deleted_at IS NULL, so deleted items still count, and *)
(* its error is dropped: when it fails the guard goes on with a sum of 0.  *)
(*                                                                         *)
(* An amount is a price: what the call asks for, which the guard sees, and *)
(* what the columns quantity and unit_rate keep of it, which is what later *)
(* sums add up.  A call the backend cannot read, or whose first query      *)
(* fails, ends as one the network loses, and is left out here.             *)
(***************************************************************************)
EXTENDS ApiCalls, Functions, FiniteSetsExt

CONSTANTS
  Items,       \* primary keys of line items
  Budgets,     \* budgets that are entered
  Prices,      \* quantity * unit_rate of a call: as sent, and as stored
  MaxBlind     \* bound: guards that miss one of their queries

ASSUME BudgetsAreNat == Budgets \subseteq Nat
ASSUME PricesAreInts == Prices \subseteq [sent : Int, stored : Int] /\ IsFiniteSet(Prices)
ASSUME MaxBlindIsNat == MaxBlind \in Nat

Amounts == { price.stored : price \in Prices }

VARIABLES
  exists,        \* the contracts that have a row
  grossBudget,   \* grossBudget[c]: column gross_budget of c
  items,         \* the rows of contract_line_items, deleted ones included
  pricing,       \* the handlers that have read and not written
  blind          \* history: blind[c]: guards of c that missed a query

itemVars == <<exists, grossBudget, items, pricing, blind>>

Item == [id : Items, contract : Contracts, sort : Nat, amount : Amounts,
         deleted : BOOLEAN]

Pricing ==
  [request : Requests, op : {"create"}, item : Items, contract : Contracts,
   sort : Nat, amount : Amounts]
    \cup
  [request : Requests, op : {"amend", "update"}, item : Items,
   contract : Contracts, old : Amounts, amount : Amounts, sent : Int]

ItemsTypeOK ==
  /\ exists \in SUBSET Contracts
  /\ grossBudget \in [Contracts -> Nat]
  /\ items \in SUBSET Item
  /\ pricing \in SUBSET Pricing
  /\ blind \in [Contracts -> Nat]

ItemsInit ==
  /\ exists = {}
  /\ grossBudget = [c \in Contracts |-> 0]
  /\ items = {}
  /\ pricing = {}
  /\ blind = [c \in Contracts |-> 0]

-----------------------------------------------------------------------------
ItemsOf(c) == { i \in items : i.contract = c }

\* SELECT COALESCE(SUM(quantity * unit_rate), 0), every row of the contract.
StoredSum(c) == SumFunction([i \in ItemsOf(c) |-> i.amount])

\* The sum a guard has: 0 if the query of it fails.
SumRead(c, reads) == IF reads = "both" THEN StoredSum(c) ELSE 0

\* Which of the two queries of a guard are answered, the contract's and the
\* sum's.  The second is not made when the budget is zero, and its failure
\* changes nothing while the sum is.
GuardReads(c, reads) ==
  \/ reads = "both" /\ UNCHANGED blind
  \/ /\ reads = "neither" \/ (reads = "contract" /\ StoredSum(c) # 0)
     /\ grossBudget[c] > 0 /\ SumFunction(blind) < MaxBlind
     /\ blind' = [blind EXCEPT ![c] = @ + 1]

\* Mutant of FitsBudget: the new amount is not added to the stored sum.
FitsBudget_StoredOnly(c, projected, amount) ==
  grossBudget[c] > 0 => projected - amount <= grossBudget[c]

\* The guard; a budget of zero switches it off.
FitsBudget(c, projected, amount) ==
  grossBudget[c] > 0 => projected <= grossBudget[c]

UnusedItems == Items \ ({ i.id : i \in items } \cup { p.item : p \in pricing })

\* POST /contracts, as far as the contents go: the row and its budget.
CreateContract(r, c, budget) ==
  /\ answer[r] = "free"
  /\ c \notin exists
  /\ exists' = exists \cup {c}
  /\ grossBudget' = [grossBudget EXCEPT ![c] = budget]
  /\ Answered(r, "ok")
  /\ UNCHANGED <<items, pricing, blind>>

\* POST /contracts with data the backend or the database refuses.
RefuseContract(r) ==
  /\ answer[r] = "free"
  /\ Answered(r, "refused")
  /\ UNCHANGED itemVars

\* CreateLineItem up to the guard.
CheckLineItem(r, c, sort, price) ==
  /\ answer[r] = "free"
  /\ UnusedItems # {}
  /\ \E reads \in {"both", "contract"} :
       /\ GuardReads(c, reads)
       /\ IF c \in exists /\ FitsBudget(c, SumRead(c, reads) + price.sent, price.sent)
            THEN /\ pricing' = pricing \cup
                      {[request |-> r, op |-> "create", item |-> Fresh(UnusedItems),
                        contract |-> c, sort |-> sort, amount |-> price.stored]}
                 /\ Answered(r, "busy")
            ELSE /\ Answered(r, "refused")
                 /\ UNCHANGED pricing
  /\ UNCHANGED <<exists, grossBudget, items>>

\* UpdateLineItem reads the row it is going to amend.
BeginAmendment(r, i, price) ==
  /\ answer[r] = "free"
  /\ i \in items /\ ~i.deleted
  /\ pricing' = pricing \cup
       {[request |-> r, op |-> "amend", item |-> i.id, contract |-> i.contract,
         old |-> i.amount, amount |-> price.stored, sent |-> price.sent]}
  /\ Answered(r, "busy")
  /\ UNCHANGED <<exists, grossBudget, items, blind>>

\* Its guard: the amount read before is taken off the sum of now.  The guard
\* is left out when the contract cannot be read.
CheckAmendment(p) ==
  /\ p \in pricing /\ p.op = "amend"
  /\ \E reads \in {"both", "contract", "neither"} :
       /\ GuardReads(p.contract, reads)
       /\ IF \/ reads = "neither"
             \/ FitsBudget(p.contract, SumRead(p.contract, reads) - p.old + p.sent, p.sent)
            THEN /\ pricing' = (pricing \ {p}) \cup {[p EXCEPT !.op = "update"]}
                 /\ UNCHANGED answer
            ELSE /\ pricing' = pricing \ {p}
                 /\ Answered(p.request, "refused")
  /\ UNCHANGED <<exists, grossBudget, items>>

\* The INSERT, or the UPDATE by primary key with deleted_at IS NULL.
WriteItem(p) ==
  /\ p \in pricing
  /\ pricing' = pricing \ {p}
  /\ \/ /\ p.op = "create"
        /\ items' = items \cup
             {[id |-> p.item, contract |-> p.contract, sort |-> p.sort,
               amount |-> p.amount, deleted |-> FALSE]}
     \/ /\ p.op = "update"
        /\ items' = { IF i.id = p.item /\ ~i.deleted
                        THEN [i EXCEPT !.amount = p.amount] ELSE i : i \in items }
  /\ Answered(p.request, "ok")
  /\ UNCHANGED <<exists, grossBudget, blind>>

\* The write fails, and nothing has changed.
FailWrite(p) ==
  /\ p \in pricing /\ p.op # "amend"
  /\ pricing' = pricing \ {p}
  /\ Answered(p.request, "refused")
  /\ UNCHANGED <<exists, grossBudget, items, blind>>

\* DeleteLineItem: one UPDATE of deleted_at.
DeleteLineItem(r, i) ==
  /\ answer[r] = "free"
  /\ i \in items /\ ~i.deleted
  /\ items' = (items \ {i}) \cup {[i EXCEPT !.deleted = TRUE]}
  /\ Answered(r, "ok")
  /\ UNCHANGED <<exists, grossBudget, pricing, blind>>

-----------------------------------------------------------------------------
(***************************************************************************)
(* What the guard is worth when handlers overlap: every call that is open  *)
(* beside the last one, and every guard that missed a query, can push the  *)
(* items over the budget by the distance of two amounts, the last call by  *)
(* what its columns round up, and no sequence of calls pushes them         *)
(* further.                                                                *)
(***************************************************************************)
Span == Max(Amounts \cup {0}) - Min(Amounts \cup {0})

Rounding == Max({ price.stored - price.sent : price \in Prices } \cup {0})

BudgetOverrunBounded ==
  \A c \in Contracts : grossBudget[c] > 0 =>
    StoredSum(c) <= grossBudget[c] + Rounding
                      + (Cardinality(Requests) - 1 + blind[c]) * Span
=============================================================================
