------------------------ MODULE CreateContractSheet ------------------------
(***************************************************************************)
(* The sheet that creates a contract, CreateContractSheet.tsx: five steps  *)
(* of a form, and a mutation that creates the contract and then sends its  *)
(* line items and its documents one call after the other.  Nothing undoes  *)
(* the first calls when a later one fails: the sheet stays open, and the   *)
(* button that is pressed again creates another contract.                  *)
(*                                                                         *)
(* A field is kept to what the schema and the backend tell apart: whether  *)
(* it is filled, or its amount.  The fields that are validated together    *)
(* are one field of `form'.                                                *)
(***************************************************************************)
EXTENDS ContractItems, ContractDocuments, SequencesExt

CONSTANTS
  SheetRequests,   \* the calls the sheet makes; the others are a colleague's
  Blank,           \* an input left or made empty
  Types,           \* contract types on offer
  SubmittedForms,  \* bound: the forms that are submitted
  MaxChanges,      \* bound: inputs changed, steps back and projects fixed
                   \* by the page once a call was made
  RowChoices,      \* bound: what a WBS row is edited to
  MaxRows,         \* bound: WBS rows of a sheet
  MaxOpenings,     \* bound: times the sheet is opened
  ColleaguePrices, \* bound: amounts the colleague writes
  MaxColleague,    \* bound: calls the colleague begins, while a mutation runs
  One,             \* the quantity "1"
  QuantityUnit,    \* the last digit the column quantity keeps, 4 decimals
  RateUnit,        \* that of unit_rate, 8 decimals
  BudgetUnit,      \* that of gross_budget, 8 decimals
  DoubleOf(_),     \* a number as parseFloat reads it
  DoubleTotal(_)   \* the total of WBS rows as doubles add it up

ASSUME SheetRequestsAreRequests ==
  SheetRequests \subseteq Requests /\ Blank \notin Requests \cup Contracts
ASSUME TypesAreTypes ==
  "lump_sum" \in Types /\ Types \subseteq {"lump_sum", "unit_rate", "cost_plus"}
ASSUME BoundsAreNat ==
  /\ MaxChanges \in Nat /\ MaxRows \in Nat /\ MaxOpenings \in Nat
  /\ MaxColleague \in Nat
ASSUME ColleagueWritesPrices == ColleaguePrices \subseteq Prices
ASSUME UnitsPositive ==
  One \in Nat /\ {QuantityUnit, RateUnit, BudgetUnit} \subseteq Nat \ {0}

VARIABLES
  opening,    \* how often the sheet has been opened
  isOpen,     \* the prop open
  step,       \* the step shown
  form,       \* the fields of the form
  wbsRows,    \* the WBS rows
  slotFiles,  \* the document types a file is chosen for
  mutation,   \* the mutation that creates the contract
  origin,     \* history: the opening a contract was submitted from, or 0
  outcome,    \* history: what the user was told of a contract
  colleague,  \* calls the colleague has made
  changes     \* what MaxChanges bounds

sheetVars == <<opening, isOpen, step, form, wbsRows, slotFiles, changes>>
historyVars == <<origin, outcome>>
vars == <<answer, itemVars, docVars, sheetVars, mutation, historyVars, colleague>>

-----------------------------------------------------------------------------
(***************************************************************************)
(* The form.  project is the project field together with what the sheet    *)
(* knows of a project fixed by the page: not loaded yet, or not active.    *)
(* terms: the types whose own fields are filled.  fee: whether the         *)
(* management fee, if it is filled, is a percentage.  percents: the other  *)
(* percentages, which no step checks.                                      *)
(***************************************************************************)
Form ==
  [project : {"", "chosen", "loading", "inactive"}, contractor : BOOLEAN,
   title : BOOLEAN, type : Types, terms : SUBSET Types, budget : Budgets \cup {Blank},
   fee : {"valid", "invalid"}, feeMethod : {"unset", "blank", "chosen"}, percents : {"valid", "invalid"}]

defaultValues ==
  [project |-> "", contractor |-> FALSE, title |-> FALSE, type |-> "lump_sum", terms |-> {},
   budget |-> Blank, fee |-> "valid", feeMethod |-> "unset", percents |-> "valid"]

\* Mutant of TypeErrors: the fields of every type are asked for.
TypeErrors_AnyType(f) ==
  { e \in {"terms"} : ~ (Types \ {"lump_sum"} \subseteq f.terms) }

\* The superRefine clauses on the fields of the chosen type.
TypeErrors(f) == { e \in {"terms"} : f.type \notin f.terms \cup {"lump_sum"} }

FeeOutOfRange(f) == "cost_plus" \in f.terms /\ f.fee = "invalid"

\* The fields the schema refuses.  It looks at a fee of every type, shown or
\* not, and its enum of the fee method takes undefined but not the empty
\* string the select holds once it was shown.
Errors(f) ==
  TypeErrors(f)
    \cup { e \in {"terms"} : FeeOutOfRange(f) }
    \cup { e \in {"project"} : f.project = "" }
    \cup { e \in {"contractor"} : ~f.contractor }
    \cup { e \in {"title"} : ~f.title }
    \cup { e \in {"budget"} : f.budget = Blank }
    \cup { e \in {"feeMethod"} :
             f.feeMethod = "blank" \/ (f.type = "cost_plus" /\ f.feeMethod = "unset") }
    \cup { e \in {"percents"} : f.percents = "invalid" }

Steps == 0..4

\* Mutant of STEP_FIELDS: the budget is forgotten.
STEP_FIELDS_NoBudget ==
  [s \in Steps |-> IF s = 0 THEN {"project", "contractor", "title"}
                     ELSE IF s = 1 THEN {"terms", "feeMethod"} ELSE {}]

STEP_FIELDS ==
  [s \in Steps |-> IF s = 0 THEN {"project", "contractor", "title"}
                     ELSE IF s = 1 THEN {"budget", "terms", "feeMethod"} ELSE {}]

-----------------------------------------------------------------------------
(***************************************************************************)
(* The WBS rows.  What the sheet adds up and what it sends differ: an      *)
(* empty quantity is added as 0 and sent as "1", and a row without a       *)
(* description is added and not sent.  It adds doubles and sends the text, *)
(* of which the guard sees every digit and the columns keep a few.  The    *)
(* numbers here count the smallest digit that is typed.                    *)
(***************************************************************************)
Row == [described : BOOLEAN, quantity : Nat \cup {Blank}, rate : Nat \cup {Blank}]

NewRow == [described |-> FALSE, quantity |-> One, rate |-> Blank]

OrElse(entry, default) == IF entry = Blank THEN default ELSE entry

\* The total of rows, exactly.
Total(rows) ==
  SumFunction([i \in DOMAIN rows |->
                 OrElse(rows[i].quantity, 0) * OrElse(rows[i].rate, 0)])

wbsTotal == DoubleTotal(wbsRows)

grossBudgetOfForm == OrElse(form.budget, 0)

wbsOverBudget ==
  DoubleOf(grossBudgetOfForm) > 0 /\ wbsTotal > DoubleOf(grossBudgetOfForm)

\* What a numeric column keeps of a number: halves are rounded up.
Kept(n, unit) == ((2 * n + unit) \div (2 * unit)) * unit

SentPrice(row) ==
  LET quantity == OrElse(row.quantity, One)
      rate == OrElse(row.rate, 0)
  IN  [sent |-> quantity * rate,
       stored |-> Kept(quantity, QuantityUnit) * Kept(rate, RateUnit)]

ASSUME RowsHavePrices ==
  \A row \in RowChoices \cup {NewRow} : row \in Row /\ SentPrice(row) \in Prices

-----------------------------------------------------------------------------
(***************************************************************************)
(* The mutation keeps the budget, the rows and the files of the render it  *)
(* was started in.  contract: the one created, Blank if the backend        *)
(* refuses; next: the row it looks at; filed: the files it has sent;       *)
(* awaiting: the call it waits for.                                        *)
(***************************************************************************)
Idle ==
  [pending |-> FALSE, contract |-> Blank, budget |-> 0, rows |-> <<>>, next |-> 1,
   files |-> {}, filed |-> {}, awaiting |-> Blank]

Mutation ==
  [pending : BOOLEAN, contract : Contracts \cup {Blank}, budget : Nat,
   rows : Seq(Row), next : Nat, files : SUBSET Slots, filed : SUBSET Slots,
   awaiting : SheetRequests \cup {Blank}]

TypeOK ==
  /\ ItemsTypeOK /\ DocumentsTypeOK
  /\ opening \in 0..MaxOpenings
  /\ isOpen \in BOOLEAN
  /\ step \in Steps
  /\ form \in Form
  /\ wbsRows \in Seq(Row) /\ Len(wbsRows) <= MaxRows
  /\ slotFiles \in SUBSET Slots
  /\ mutation \in Mutation
  /\ origin \in [Contracts -> 0..MaxOpenings]
  /\ outcome \in [Contracts -> {"none", "success", "failed"}]
  /\ colleague \in 0..MaxColleague
  /\ changes \in 0..MaxChanges

Init ==
  /\ AnswersInit /\ ItemsInit /\ DocumentsInit
  /\ opening = 0 /\ isOpen = FALSE /\ step = 0
  /\ form = defaultValues /\ wbsRows = <<>> /\ slotFiles = {}
  /\ mutation = Idle
  /\ origin = [c \in Contracts |-> 0]
  /\ outcome = [c \in Contracts |-> "none"]
  /\ colleague = 0 /\ changes = 0

-----------------------------------------------------------------------------
(***************************************************************************)
(* What the user does with the sheet.                                      *)
(***************************************************************************)
\* The bound on changes.
Submitted == exists # {} \/ \E r \in Requests : answer[r] # "free"

MayChange ==
  /\ isOpen
  /\ Submitted => changes < MaxChanges
  /\ changes' = IF Submitted THEN changes + 1 ELSE changes

\* The page opens the sheet, with a project of its own or without.
Open(project) ==
  /\ ~isOpen /\ opening < MaxOpenings
  /\ Submitted /\ changes = MaxChanges => project = ""
  /\ isOpen' = TRUE /\ opening' = opening + 1
  /\ form' = [defaultValues EXCEPT !.project = project]
  /\ wbsRows' = <<>> /\ slotFiles' = {} /\ step' = 0
  /\ UNCHANGED <<answer, itemVars, docVars, mutation, historyVars, colleague, changes>>

\* The answer to the query of the project the page has fixed.
ProjectLoaded(status) ==
  /\ isOpen /\ form.project = "loading"
  /\ form' = [form EXCEPT !.project = status]
  /\ UNCHANGED <<answer, itemVars, docVars, opening, isOpen, step, wbsRows,
                 slotFiles, mutation, historyVars, colleague, changes>>

\* handleClose: possible at any time, also while the mutation runs.
Close ==
  /\ isOpen
  /\ isOpen' = FALSE
  /\ form' = defaultValues /\ wbsRows' = <<>> /\ slotFiles' = {} /\ step' = 0
  /\ UNCHANGED <<answer, itemVars, docVars, opening, mutation, historyVars, colleague, changes>>

\* An input of the form is changed.
Fill(f) ==
  /\ MayChange /\ f # form
  /\ form' = f
  /\ UNCHANGED <<answer, itemVars, docVars, opening, isOpen, step, wbsRows,
                 slotFiles, mutation, historyVars, colleague>>

\* A search box: choosing an entry of the list, or typing over the choice.
ChooseProject ==
  /\ step = 0 /\ form.project \in {"", "chosen"}
  /\ \E p \in {"", "chosen"} : Fill([form EXCEPT !.project = p])

ChooseContractor ==
  step = 0 /\ \E b \in BOOLEAN : Fill([form EXCEPT !.contractor = b])

EnterTitle == step = 0 /\ \E b \in BOOLEAN : Fill([form EXCEPT !.title = b])

\* The select of the fee method registers itself when it is first shown.
Registered(f) ==
  IF f.type = "cost_plus" /\ f.feeMethod = "unset"
    THEN [f EXCEPT !.feeMethod = "blank"] ELSE f

ChooseType == step = 1 /\ \E t \in Types : Fill(Registered([form EXCEPT !.type = t]))

EnterBudget ==
  step = 1 /\ \E b \in Budgets \cup {Blank} : Fill([form EXCEPT !.budget = b])

\* Price list and coefficient of a unit-rate contract, fee of a cost-plus one.
EnterTerms ==
  /\ step = 1 /\ form.type # "lump_sum"
  /\ \/ Fill([form EXCEPT !.terms = @ \ {form.type}])
     \/ \E fee \in IF form.type = "cost_plus" THEN {"valid", "invalid"} ELSE {form.fee} :
          Fill([form EXCEPT !.terms = @ \cup {form.type}, !.fee = fee])

ChooseFeeMethod ==
  /\ step = 1 /\ form.type = "cost_plus"
  /\ \E m \in {"blank", "chosen"} : Fill([form EXCEPT !.feeMethod = m])

EnterPercents ==
  /\ step = 2
  /\ \E p \in {"valid", "invalid"} : Fill([form EXCEPT !.percents = p])

ChangeRows(rows) ==
  /\ MayChange /\ step = 3 /\ rows # wbsRows
  /\ wbsRows' = rows
  /\ UNCHANGED <<answer, itemVars, docVars, opening, isOpen, step, form,
                 slotFiles, mutation, historyVars, colleague>>

AddRow == Len(wbsRows) < MaxRows /\ ChangeRows(Append(wbsRows, NewRow))

EditRow ==
  \E i \in DOMAIN wbsRows, row \in RowChoices : ChangeRows([wbsRows EXCEPT ![i] = row])

DropRow == \E i \in DOMAIN wbsRows : ChangeRows(RemoveAt(wbsRows, i))

ChooseFiles ==
  /\ MayChange /\ step = 4
  /\ \E s \in Slots :
       \/ /\ s \notin slotFiles /\ Cardinality(slotFiles) < MaxDocuments
          /\ slotFiles' = slotFiles \cup {s}
       \/ /\ s \in slotFiles
          /\ slotFiles' = slotFiles \ {s}
  /\ UNCHANGED <<answer, itemVars, docVars, opening, isOpen, step, form,
                 wbsRows, mutation, historyVars, colleague>>

\* Mutant of CanLeave: the last step before the files is not looked at.
CanLeave_NoBudgetCheck ==
  /\ form.project # "inactive"
  /\ Errors(form) \cap STEP_FIELDS[step] = {}

\* The button is enabled, and goNext finds the fields of the step valid.
CanLeave ==
  /\ form.project # "inactive"
  /\ ~(step = 3 /\ wbsOverBudget)
  /\ Errors(form) \cap STEP_FIELDS[step] = {}

ShowStep(s) ==
  /\ step' = s
  /\ form' = IF s = 1 THEN Registered(form) ELSE form
  /\ UNCHANGED <<answer, itemVars, docVars, opening, isOpen, wbsRows,
                 slotFiles, mutation, historyVars, colleague>>

goNext ==
  isOpen /\ step < 4 /\ CanLeave /\ ShowStep(step + 1) /\ UNCHANGED changes

\* Mutant of goBack: the first step has the button too.
goBack_FromFirst == MayChange /\ ShowStep(step - 1)

goBack == MayChange /\ step > 0 /\ ShowStep(step - 1)

-----------------------------------------------------------------------------
(***************************************************************************)
(* The mutation.                                                           *)
(***************************************************************************)
\* The last button: handleSubmit validates every field, then POST /contracts.
Submit(r) ==
  /\ isOpen /\ step = 4
  /\ ~mutation.pending /\ form.project # "inactive"
  /\ Errors(form) = {}
  /\ exists # Contracts /\ form \in SubmittedForms
  /\ \E c \in {Fresh(Contracts \ exists), Blank} :
       /\ \/ /\ c # Blank
             /\ CreateContract(r, c, Kept(grossBudgetOfForm, BudgetUnit))
             /\ origin' = [origin EXCEPT ![c] = opening]
          \/ /\ c = Blank
             /\ RefuseContract(r)
             /\ UNCHANGED origin
       /\ mutation' = [Idle EXCEPT !.pending = TRUE, !.contract = c,
                                   !.budget = grossBudgetOfForm, !.rows = wbsRows,
                                   !.files = slotFiles, !.awaiting = r]
  /\ UNCHANGED <<docVars, sheetVars, outcome, colleague>>

\* Mutant of RowsToSend: the loop starts behind the row it should start with.
RowsToSend_SkipsFirst ==
  { i \in (mutation.next + 1)..Len(mutation.rows) : mutation.rows[i].described }

\* The rows the loop has still to send, in their order.
RowsToSend ==
  { i \in mutation.next..Len(mutation.rows) : mutation.rows[i].described }

Answers(r) == mutation.pending /\ mutation.awaiting = r /\ r # Blank

\* await returns and the loop goes on.
Resume ==
  /\ \E r \in SheetRequests :
       /\ Answers(r) /\ answer[r] = "ok"
       /\ Take(r)
  /\ mutation' = [mutation EXCEPT !.awaiting = Blank]
  /\ UNCHANGED <<itemVars, docVars, sheetVars, historyVars, colleague>>

SendItem(r) ==
  /\ mutation.pending /\ mutation.awaiting = Blank
  /\ RowsToSend # {}
  /\ LET i == Min(RowsToSend) IN
       /\ CheckLineItem(r, mutation.contract, i, SentPrice(mutation.rows[i]))
       /\ mutation' = [mutation EXCEPT !.next = i + 1, !.awaiting = r]
  /\ UNCHANGED <<docVars, sheetVars, historyVars, colleague>>

SendFile(r) ==
  /\ mutation.pending /\ mutation.awaiting = Blank
  /\ RowsToSend = {}
  /\ \E s \in mutation.files \ mutation.filed :
       /\ BeginUpload(r, mutation.contract, s)
       /\ mutation' = [mutation EXCEPT !.filed = @ \cup {s}, !.awaiting = r]
  /\ UNCHANGED <<itemVars, sheetVars, historyVars, colleague>>

\* Mutant of onSuccess: the sheet stays open.
onSuccess_StaysOpen ==
  /\ mutation.pending /\ mutation.awaiting = Blank
  /\ RowsToSend = {} /\ mutation.files = mutation.filed
  /\ mutation' = Idle
  /\ outcome' = [outcome EXCEPT ![mutation.contract] = "success"]
  /\ UNCHANGED <<answer, itemVars, docVars, sheetVars, origin, colleague>>

\* onSuccess closes the sheet, whichever opening it shows by now.
onSuccess ==
  /\ mutation.pending /\ mutation.awaiting = Blank
  /\ RowsToSend = {} /\ mutation.files = mutation.filed
  /\ mutation' = Idle
  /\ outcome' = [outcome EXCEPT ![mutation.contract] = "success"]
  /\ isOpen' = FALSE
  /\ UNCHANGED <<answer, itemVars, docVars, opening, step, form, wbsRows,
                 slotFiles, origin, colleague, changes>>

\* onError: a message.  The sheet keeps everything, what was sent remains.
onError ==
  /\ mutation' = Idle
  /\ outcome' =
       [c \in Contracts |-> IF c = mutation.contract THEN "failed" ELSE outcome[c]]
  /\ UNCHANGED <<itemVars, docVars, sheetVars, origin, colleague>>

CallRefused ==
  /\ \E r \in SheetRequests :
       /\ Answers(r) /\ answer[r] = "refused"
       /\ Take(r)
  /\ onError

\* Mutant of NetworkFails: the call is taken for stopped when it is lost.
NetworkFails_StopsCall ==
  /\ mutation.pending /\ mutation.awaiting # Blank
  /\ onError
  /\ Answered(mutation.awaiting, "free")

\* A call or its answer is lost.  The handler, if one runs, goes on.
NetworkFails == mutation.pending /\ onError /\ UNCHANGED answer

-----------------------------------------------------------------------------
(***************************************************************************)
(* A colleague on the page of a contract, and the backend.                 *)
(***************************************************************************)
Colleague(r) ==
  /\ r \notin SheetRequests
  /\ colleague < MaxColleague /\ mutation.pending
  /\ colleague' = colleague + 1
  /\ \/ /\ \/ \E c \in exists, a \in ColleaguePrices : CheckLineItem(r, c, 0, a)
           \/ \E i \in items, a \in ColleaguePrices : BeginAmendment(r, i, a)
           \/ \E i \in items : DeleteLineItem(r, i)
        /\ UNCHANGED docVars
     \/ /\ \/ \E c \in exists, s \in Slots : BeginUpload(r, c, s)
           \/ \E d \in docs : BeginDelete(r, d)
        /\ UNCHANGED itemVars
  /\ UNCHANGED <<sheetVars, mutation, historyVars>>

\* An answer nobody waits for any more, or the colleague's.
Discard ==
  /\ \E r \in Requests : ~Answers(r) /\ Take(r)
  /\ UNCHANGED <<itemVars, docVars, sheetVars, mutation, historyVars, colleague>>

ServerStep ==
  /\ \/ /\ \E p \in pricing : CheckAmendment(p) \/ WriteItem(p) \/ FailWrite(p)
        /\ UNCHANGED docVars
     \/ (\E f \in filing : FilingStep(f)) /\ UNCHANGED itemVars
  /\ UNCHANGED <<sheetVars, mutation, historyVars, colleague>>

ServerFault ==
  /\ \/ (\E f \in filing : FailDrop(f)) /\ UNCHANGED pricing
     \/ CrashFiling /\ pricing' = {}
  /\ UNCHANGED <<exists, grossBudget, items, blind, sheetVars, mutation, historyVars,
                 colleague>>

User ==
  \/ \E p \in {"", "loading"} : Open(p)
  \/ \E p \in {"chosen", "inactive"} : ProjectLoaded(p)
  \/ Close
  \/ ChooseProject \/ ChooseContractor \/ EnterTitle
  \/ ChooseType \/ EnterBudget \/ EnterTerms \/ ChooseFeeMethod \/ EnterPercents
  \/ AddRow \/ EditRow \/ DropRow \/ ChooseFiles
  \/ goNext \/ goBack
  \/ \E r \in SheetRequests : Submit(r)

MutationStep ==
  \/ Resume \/ CallRefused \/ onSuccess
  \/ \E r \in SheetRequests : SendItem(r) \/ SendFile(r)

Next ==
  \/ User \/ MutationStep \/ NetworkFails
  \/ \E r \in Requests : Colleague(r)
  \/ Discard \/ ServerStep \/ ServerFault

Fairness ==
  WF_vars(MutationStep) /\ WF_vars(Discard) /\ WF_vars(ServerStep)

Spec == Init /\ [][Next]_vars /\ Fairness

-----------------------------------------------------------------------------
(***************************************************************************)
(* The steps of the sheet check everything that the last button checks,    *)
(* except the percentages: these are refused where nothing shows why.      *)
(***************************************************************************)
StepsCoverSchema == step = 4 => Errors(form) \subseteq {"percents"}

(***************************************************************************)
(* A second step whose shown fields are valid can be left, unless the type *)
(* was once cost plus: then a field that is no longer shown may hold the   *)
(* user, a fee out of range or the empty string of the fee method.         *)
(***************************************************************************)
ShownFieldsValid ==
  /\ form.budget # Blank
  /\ form.type \in form.terms \cup {"lump_sum"}
  /\ form.type = "cost_plus" => form.fee = "valid" /\ form.feeMethod = "chosen"

OnlyTheFeeTraps ==
  (step = 1 /\ ~CanLeave /\ form.project # "inactive" /\ ShownFieldsValid)
  => form.type # "cost_plus" /\ (form.feeMethod = "blank" \/ FeeOutOfRange(form))

(***************************************************************************)
(* An opening of the sheet ends with at most one contract the user was     *)
(* told of, whatever was closed, opened again or sent twice meanwhile; the *)
(* contracts of failed attempts remain beside it.                          *)
(***************************************************************************)
OneSuccessPerOpening ==
  \A c, d \in Contracts :
    (outcome[c] = "success" /\ outcome[d] = "success" /\ origin[c] = origin[d])
      => c = d

(***************************************************************************)
(* When the sheet says that the contract was created, every described row  *)
(* is or was a line item of it and every chosen file a document.           *)
(***************************************************************************)
SuccessIsComplete ==
  [][\A c \in Contracts : (outcome[c] # "success" /\ outcome'[c] = "success") =>
      /\ \A i \in DOMAIN mutation.rows : mutation.rows[i].described =>
           \E t \in items : t.contract = c /\ t.sort = i
      /\ \A s \in mutation.files : \E d \in docs : d.contract = c /\ d.slot = s]_vars

(***************************************************************************)
(* The budget guard refuses a row of a submission only because             *)
(*   - a quantity is empty, which the sheet counts as 0 and sends as 1;    *)
(*   - the columns keep more of a row, or less of the budget, than was     *)
(*     sent;                                                               *)
(*   - the doubles of the sheet are not exact on the rows or the budget;   *)
(*   - the colleague has changed the items.                                *)
(* Otherwise the total shown on the step of the rows, and checked again    *)
(* whenever the budget was changed, is the server's.                       *)
(***************************************************************************)
RoundedUp(row) == SentPrice(row).stored > SentPrice(row).sent

Inexact ==
  \/ grossBudget[mutation.contract] < mutation.budget
  \/ DoubleOf(mutation.budget) # mutation.budget
  \/ DoubleTotal(mutation.rows) # Total(mutation.rows)

NoSurpriseRefusal ==
  [][\A r \in SheetRequests :
      (mutation.pending /\ answer[r] = "free" /\ answer'[r] = "refused") =>
        \/ Inexact
        \/ \E i \in DOMAIN mutation.rows :
             /\ mutation.rows[i].described
             /\ mutation.rows[i].quantity = Blank \/ RoundedUp(mutation.rows[i])
        \/ \E t \in items :
             /\ t.contract = mutation.contract
             /\ t.sort = 0 \/ t.amount # SentPrice(mutation.rows[t.sort]).stored]_vars

(***************************************************************************)
(* A submission ends: the sheet reports success or an error, also when the *)
(* backend dies under it.                                                  *)
(***************************************************************************)
SubmissionSettles == mutation.pending ~> ~mutation.pending
=============================================================================
