--------------------------- MODULE StatementPage ---------------------------
(***************************************************************************)
(* The page of one interim statement, contracts/[id]/statements/[sid]/     *)
(* page.tsx, over the review workflow of the backend.  Apart from the      *)
(* cached statement it keeps quantities that are typed and not saved, one  *)
(* form that serves to add and to edit deductions, and the transition the  *)
(* user is asked to confirm.                                               *)
(*                                                                         *)
(* The handlers of the items take one step here: StatementLedger has their *)
(* races.  An amount is a number, and 0 is an empty input or no row.       *)
(***************************************************************************)
EXTENDS StatementApproval, PageClient, FiniteSetsExt

CONSTANTS
  Entries,       \* bound: the situations in which the page is entered
  PageRequests,  \* bound: the calls of the page that are open at once
  LineItems,     \* the line items of the contract
  Deds,          \* identities of deductions
  Amounts        \* bound: what is typed, 0 included

Mutations ==
  {"updateStmt", "worksDone", "addExtra", "dropExtra", "addDeduct", "editDeduct",
   "dropDeduct", "transition"}

ASSUME QueryOfPage == Queries = {"statement"}
ASSUME PageCallsAreRequests == PageRequests \subseteq Requests
ASSUME ZeroIsAnAmount == 0 \in Amounts
ASSUME EntriesAreSituations ==
  \A e \in Entries :
    /\ e.status \in StatementStatus /\ e.trail \in Seq(Event)
    /\ e.qty \in [LineItems -> Amounts] /\ e.deds \in [Deds -> Amounts]
    /\ e.user \in Actors /\ e.uses \subseteq Mutations /\ e.acts \in Nat
ASSUME EntriesAreEarned ==
  \A e \in Entries : \A s \in StagesBehind(e.status) : \E i \in DOMAIN e.trail :
    e.trail[i].to = s /\ hasAnyRole(e.trail[i].actor, ConsentTo[s])

VARIABLES
  qty,             \* qty[l]: the quantity done of a line item
  deds,            \* deds[d]: the amount of a deduction
  extras,          \* the line numbers of its extra works
  taken,           \* the line numbers that deleted rows hold as well
  gone,            \* the line items that were deleted from the contract
  period,          \* the settings of the statement: dates and notes
  user,            \* who has the page open
  uses,            \* bound: the mutations the user makes
  worksDoneMap,    \* the quantities in the table, once one was typed
  worksDirty,      \* whether one was typed since the last save
  typed,           \* history: the rows that were
  basis,           \* history: the quantities shown when the first was typed
  deductForm,      \* the deduction form, and the row its values came from
  deductDefaults,  \* what reset() puts back into it
  sheet,           \* the sheet or dialog that is open
  acts             \* bound: calls, typing, colleagues' acts and faults to come

itemVars == <<qty, deds, extras, taken, gone, period>>
backendVars == <<reviewVars, itemVars>>
worksVars == <<worksDoneMap, worksDirty, typed, basis>>
formVars == <<deductForm, deductDefaults>>
pageVars == <<worksVars, formVars, sheet, user, uses>>
allVars == <<backendVars, clientVars, pageVars, acts>>

-----------------------------------------------------------------------------
(***************************************************************************)
(* What the page shows.                                                    *)
(***************************************************************************)
stmt == cache["statement"]

Loaded == stmt # Missing
isDraft == Loaded /\ stmt.status = "draft"

\* The page's table of transitions, entry by entry that of the server.
TRANSITIONS ==
  { Move("draft", "submitted", {"pm", "admin"}),
    Move("submitted", "finance_review", {"finance", "admin"}),
    Move("submitted", "rejected", {"finance", "admin"}),
    Move("finance_review", "pm_review", {"pm", "admin"}),
    Move("finance_review", "rejected", {"pm", "admin"}),
    Move("pm_review", "director_review", {"director", "admin"}),
    Move("pm_review", "rejected", {"director", "admin"}),
    Move("director_review", "approved", {"director", "admin"}),
    Move("director_review", "rejected", {"director", "admin"}) }

availableTransitions ==
  {t \in TRANSITIONS : Loaded /\ t.from = stmt.status /\ RolesOf[user] \cap t.roles # {}}

NoSheet == [kind |-> "none", item |-> Missing, shown |-> Missing]

NoWorks == [l \in LineItems |-> 0]

\* The form as it was mounted: empty.
BlankForm == [value |-> 0, from |-> Missing]

Stored(q) ==
  [status |-> status, qty |-> qty, deds |-> deds, extras |-> extras, period |-> period]

PageTypeOK ==
  /\ ReviewTypeOK
  /\ CacheTypeOK
  /\ qty \in [LineItems -> Amounts]
  /\ deds \in [Deds -> Amounts]
  /\ gone \subseteq LineItems
  /\ worksDoneMap \in [LineItems -> Amounts]
  /\ typed \subseteq LineItems
  /\ worksDirty <=> typed # {}
  /\ sheet.kind \in {"none"} \cup Mutations
  /\ \A v \in reviews : v.request \in PageRequests =>
       \E c \in calls : c.request = v.request /\ c.state = "busy"

\* An entry is a status with the trail that led to it, the amounts stored by
\* then, the user, and the mutations that are explored from it.
PageInit ==
  /\ row = "live"
  /\ reviews = {}
  /\ extras = {1}
  /\ period = 0
  /\ gone = {}
  /\ \E e \in Entries :
       /\ status = e.status
       /\ trail = e.trail
       /\ qty = e.qty
       /\ taken = [works |-> e.qty # NoWorks, extras |-> {1}]
       /\ deds = e.deds
       /\ user = e.user
       /\ uses = e.uses
       /\ acts = e.acts
  /\ CacheInit({"statement"}, [q \in Queries |-> Stored(q)])
  /\ calls = {}
  /\ worksDoneMap = NoWorks
  /\ worksDirty = FALSE
  /\ typed = {}
  /\ basis = qty
  /\ deductForm = BlankForm
  /\ deductDefaults = BlankForm
  /\ sheet = NoSheet

Act == acts > 0 /\ acts' = acts - 1

-----------------------------------------------------------------------------
(***************************************************************************)
(* The user.  An open sheet covers the page.                               *)
(***************************************************************************)
Args(what, shown, data) ==
  [what |-> what, shown |-> shown, data |-> data, basis |-> basis, typed |-> typed]

Call(m, args) ==
  /\ ~ isPending(m)
  /\ Act
  /\ \E r \in PageRequests : mutate(r, m, args)
  /\ UNCHANGED <<backendVars, pageVars>>

Open(kind, item) ==
  /\ sheet = NoSheet
  /\ kind \in uses
  /\ sheet' = [kind |-> kind, item |-> item, shown |-> stmt.status]
  /\ UNCHANGED <<backendVars, clientVars, worksVars, user, uses, acts>>

\* Mutant of initWorksDoneMap: the table starts empty.
initWorksDoneMap_Empty == NoWorks

\* The quantities that are shown, as the map the typing goes on from.
initWorksDoneMap == stmt.qty

TypeQuantity(l, v) ==
  /\ sheet = NoSheet /\ isDraft
  /\ "worksDone" \in uses
  /\ Act
  /\ worksDoneMap' = [(IF worksDirty THEN worksDoneMap ELSE initWorksDoneMap) EXCEPT ![l] = v]
  /\ worksDirty' = TRUE
  /\ typed' = typed \cup {l}
  /\ basis' = IF worksDirty THEN basis ELSE stmt.qty
  /\ UNCHANGED <<backendVars, clientVars, formVars, sheet, user, uses>>

\* Empty rows and zeros are not sent; the server deletes what is not sent.
saveWorksDone ==
  /\ sheet = NoSheet /\ isDraft
  /\ worksDirty
  /\ Call("worksDone", Args(Missing, stmt.status, worksDoneMap))

\* The sheets of the settings and of the extra works, and the bins.
OpenOther ==
  /\ isDraft
  /\ \/ Open("updateStmt", Missing)
     \/ Open("addExtra", Missing)
     \/ \E n \in stmt.extras : Open("dropExtra", n)
     \/ \E d \in Deds : stmt.deds[d] # 0 /\ Open("dropDeduct", d)
  /\ UNCHANGED formVars

\* The form is as the last reset left it.
OpenAddDeduct == isDraft /\ Open("addDeduct", Missing) /\ UNCHANGED formVars

\* Mutant of OpenEditDeduct: the form is not loaded with the row.
OpenEditDeduct_KeepForm(d) ==
  isDraft /\ stmt.deds[d] # 0 /\ Open("editDeduct", d) /\ UNCHANGED formVars

\* reset(values) also makes the values what a later reset() puts back.
OpenEditDeduct(d) ==
  LET values == [value |-> stmt.deds[d], from |-> d] IN
  /\ isDraft
  /\ stmt.deds[d] # 0
  /\ Open("editDeduct", d)
  /\ deductForm' = values
  /\ deductDefaults' = values

TypeDeduct(v) ==
  /\ sheet.kind \in {"addDeduct", "editDeduct"}
  /\ Act
  /\ deductForm' = [deductForm EXCEPT !.value = v]
  /\ UNCHANGED <<backendVars, clientVars, worksVars, deductDefaults, sheet, user, uses>>

\* A transition button opens the dialog, which keeps its target from then on.
OpenConfirm(t) ==
  /\ t \in availableTransitions
  /\ Open("transition", t.to)
  /\ UNCHANGED formVars

\* The sheet of the deductions resets its form; the others have nothing that
\* outlives them.
CloseSheet ==
  /\ sheet # NoSheet
  /\ sheet' = NoSheet
  /\ deductForm' =
       IF sheet.kind \in {"addDeduct", "editDeduct"} THEN deductDefaults ELSE deductForm
  /\ UNCHANGED <<backendVars, clientVars, worksVars, deductDefaults, user, uses, acts>>

\* A required amount that is empty keeps the form from being sent.  While one
\* of the two deduction calls waits, the button of their sheet is disabled.
SubmitSheet ==
  /\ sheet # NoSheet
  /\ sheet.kind \in {"addDeduct", "editDeduct"} =>
       /\ deductForm.value # 0
       /\ ~ isPending("addDeduct") /\ ~ isPending("editDeduct")
  /\ Call(sheet.kind,
          Args(sheet.item, sheet.shown, [from \in {deductForm.from} |-> deductForm.value]))

-----------------------------------------------------------------------------
(***************************************************************************)
(* The server at work on a call of the page.                               *)
(***************************************************************************)
BeginTransition(c, move) ==
  /\ c.mutation = "transition" /\ c.state = "sent"
  /\ move.to = c.args.what
  /\ Transition(c.request, user, move)
  /\ Begun(c)
  /\ UNCHANGED <<itemVars, cacheVars, pageVars, acts>>

RefuseTransition(c) ==
  /\ c.mutation = "transition" /\ c.state = "sent"
  /\ ~ \E move \in validTransitions :
        move.from = status /\ move.to = c.args.what /\ hasAnyRole(user, move.roles)
  /\ Served(c, "refused")
  /\ UNCHANGED <<backendVars, cacheVars, pageVars, acts>>

EndTransition(c, v) ==
  /\ c.mutation = "transition" /\ v.request = c.request
  /\ \/ CommitTransition(v) /\ Served(c, "ok")
     \/ ReviewFailed(v) /\ Served(c, "refused")
  /\ UNCHANGED <<itemVars, cacheVars, pageVars, acts>>

\* The amount of the deduction form that was sent.
Sent(c) == LET from == CHOOSE f \in DOMAIN c.args.data : TRUE IN c.args.data[from]

\* What SetWorksDone keeps of the quantities that are sent: a row whose line
\* item is gone is skipped, without a word to the page.
StoredOf(works) == [l \in LineItems |-> IF l \in gone THEN 0 ELSE works[l]]

\* It numbers the new rows from 1, and deleted rows keep their numbers: only
\* the first table that is not empty can be stored.
Storable(works) == StoredOf(works) = NoWorks \/ ~ taken.works

StoreWorks(works) ==
  /\ Storable(works)
  /\ qty' = StoredOf(works)
  /\ taken' = [taken EXCEPT !.works = @ \/ StoredOf(works) # NoWorks]

\* An extra work gets the number after the highest live one.
ExtraNumber == 1 + Max(extras \cup {0})

AddExtra ==
  /\ ExtraNumber \notin taken.extras
  /\ extras' = extras \cup {ExtraNumber}
  /\ taken' = [taken EXCEPT !.extras = @ \cup {ExtraNumber}]

\* All of them ask for a draft.
ServeEdit(c) ==
  /\ c.mutation # "transition" /\ c.state = "sent"
  /\ status = "draft"
  /\ \/ /\ c.mutation = "updateStmt"
        /\ period' = 1 - period
        /\ UNCHANGED <<qty, deds, extras, taken>>
     \/ /\ c.mutation = "worksDone"
        /\ StoreWorks(c.args.data)
        /\ UNCHANGED <<deds, extras, period>>
     \/ c.mutation = "addExtra" /\ AddExtra /\ UNCHANGED <<qty, deds, period>>
     \/ /\ c.mutation = "dropExtra" /\ c.args.what \in extras
        /\ extras' = extras \ {c.args.what}
        /\ UNCHANGED <<qty, deds, taken, period>>
     \/ /\ c.mutation = "addDeduct"
        /\ \E d \in Deds : deds[d] = 0 /\ deds' = [deds EXCEPT ![d] = Sent(c)]
        /\ UNCHANGED <<qty, extras, taken, period>>
     \/ /\ c.mutation = "editDeduct" /\ deds[c.args.what] # 0
        /\ deds' = [deds EXCEPT ![c.args.what] = Sent(c)]
        /\ UNCHANGED <<qty, extras, taken, period>>
     \/ /\ c.mutation = "dropDeduct" /\ deds[c.args.what] # 0
        /\ deds' = [deds EXCEPT ![c.args.what] = 0]
        /\ UNCHANGED <<qty, extras, taken, period>>
  /\ Served(c, "ok")
  /\ UNCHANGED <<reviewVars, gone, cacheVars, pageVars, acts>>

\* 422 for a statement that is no draft, 404 for an item that is gone, 409 for
\* a line number that is taken.
RefuseEdit(c) ==
  /\ c.mutation # "transition" /\ c.state = "sent"
  /\ \/ status # "draft"
     \/ c.mutation = "worksDone" /\ ~ Storable(c.args.data)
     \/ c.mutation = "addExtra" /\ ExtraNumber \in taken.extras
     \/ c.mutation = "dropExtra" /\ c.args.what \notin extras
     \/ c.mutation \in {"editDeduct", "dropDeduct"} /\ deds[c.args.what] = 0
  /\ Served(c, "refused")
  /\ UNCHANGED <<backendVars, cacheVars, pageVars, acts>>

-----------------------------------------------------------------------------
(***************************************************************************)
(* The page hears of its calls.                                            *)
(***************************************************************************)

\* onSuccess: the statement is fetched again and the sheet of the mutation is
\* closed, whatever it has been opened for since.
onSuccess(c) ==
  /\ c.state = "ok"
  /\ calls' = calls \ {c}
  /\ invalidateQueries({"statement"}, {"statement"})
  /\ sheet' = IF sheet.kind = c.mutation THEN NoSheet ELSE sheet
  /\ deductForm' =
       IF c.mutation \in {"addDeduct", "editDeduct"} THEN deductDefaults ELSE deductForm
  /\ IF c.mutation = "worksDone"
       THEN worksDirty' = FALSE /\ typed' = {}
       ELSE UNCHANGED <<worksDirty, typed>>
  /\ UNCHANGED <<backendVars, worksDoneMap, basis, deductDefaults, user, uses, acts>>

Fault(step) ==
  /\ step
  /\ Act
  /\ UNCHANGED <<backendVars, pageVars>>

Fetching ==
  \E q \in Queries :
    /\ ServerReads(q, Stored(q)) \/ Arrive(q)
    /\ UNCHANGED <<backendVars, pageVars, acts>>

-----------------------------------------------------------------------------
(***************************************************************************)
(* Colleagues, through pages of their own.                                 *)
(***************************************************************************)
ColleagueBegins ==
  /\ Act
  /\ \E r \in Requests \ PageRequests, a \in Actors, move \in validTransitions :
       Unused(r) /\ Transition(r, a, move)
  /\ UNCHANGED <<itemVars, clientVars, pageVars>>

ColleagueEnds(v) ==
  /\ v.request \notin PageRequests
  /\ CommitTransition(v)
  /\ UNCHANGED <<itemVars, clientVars, pageVars, acts>>

ColleagueEdits ==
  /\ Act
  /\ status = "draft"
  /\ \E v \in Amounts :
       \/ /\ \E l \in LineItems : qty[l] # v /\ StoreWorks([qty EXCEPT ![l] = v])
          /\ UNCHANGED deds
       \/ /\ \E d \in Deds : deds[d] # v /\ deds' = [deds EXCEPT ![d] = v]
          /\ UNCHANGED <<qty, taken>>
  /\ UNCHANGED <<reviewVars, extras, gone, period, clientVars, pageVars>>

\* A line item is deleted on the page of the contract, which asks for no
\* statement.
ColleagueDropsLine ==
  /\ Act
  /\ \E l \in LineItems \ gone : gone' = gone \cup {l}
  /\ UNCHANGED <<reviewVars, qty, deds, extras, taken, period, clientVars, pageVars>>

PageNext ==
  \/ \E l \in LineItems, v \in Amounts : TypeQuantity(l, v)
  \/ saveWorksDone
  \/ OpenOther \/ OpenAddDeduct
  \/ \E d \in Deds : OpenEditDeduct(d)
  \/ \E v \in Amounts : TypeDeduct(v)
  \/ \E t \in TRANSITIONS : OpenConfirm(t)
  \/ CloseSheet \/ SubmitSheet
  \/ \E c \in calls :
       \/ \E move \in validTransitions : BeginTransition(c, move)
       \/ \E v \in reviews : EndTransition(c, v)
       \/ RefuseTransition(c) \/ ServeEdit(c) \/ RefuseEdit(c)
       \/ onSuccess(c)
       \/ Refused(c) /\ UNCHANGED <<backendVars, pageVars, acts>>
       \/ Fault(NetworkFails(c))
  \/ Fetching
  \/ \E q \in Queries : Fault(Refetch(q)) \/ Fault(FetchFails(q))
  \/ ColleagueBegins \/ ColleagueEdits \/ ColleagueDropsLine
  \/ \E v \in reviews : ColleagueEnds(v)

PageSpec == PageInit /\ [][PageNext]_allVars

-----------------------------------------------------------------------------
(***************************************************************************)
(* Properties.                                                             *)
(***************************************************************************)

\* The stages at which a user may reject: more than one for directors.
RejectStages(a) == {t \in TRANSITIONS : t.to = "rejected" /\ RolesOf[a] \cap t.roles # {}}

\* The dialog keeps its target while the statement moves on, and a request
\* names the target only.  Even so a decision starts from the status that was
\* on the screen when its button was pressed, for every user who may reject at
\* one stage at most.
DecisionLandsWhereShown ==
  \A c \in calls, v \in reviews :
    (c.request = v.request /\ Cardinality(RejectStages(user)) <= 1)
      => v.move.from = c.args.shown

\* A save of the quantities changes the rows that were typed and no other,
\* although it sends the whole table and the server replaces the whole table:
\* provided that what the first typing started from is still stored when the
\* server takes the table up, and but for the rows whose line item was deleted
\* from the contract, which a save loses.
UntypedQuantitiesKept ==
  [][ \A c \in calls :
        (c.mutation = "worksDone" /\ c.args.basis = qty /\ (ServeEdit(c) \/ RefuseEdit(c))) =>
          \A l \in LineItems \ (c.args.typed \cup gone) :
            c.args.data[l] = qty[l] /\ qty'[l] = qty[l] ]_allVars

\* One form serves all deductions, late answers close and reset it at any
\* moment, and yet no deduction is overwritten with the values of another.
DeductionsKeepTheirRow ==
  [][ \A c \in calls :
        (c.mutation = "editDeduct" /\ ServeEdit(c)) =>
          DOMAIN c.args.data = {c.args.what} ]_allVars

=============================================================================
