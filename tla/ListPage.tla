------------------------------ MODULE ListPage ------------------------------
(***************************************************************************)
(* A list page of the web client over the rows of the server: employees,   *)
(* companies, contractors, consultants, projects and contracts.  The six   *)
(* pages are built alike: a list fetched by page and filter, a sheet to    *)
(* create, a sheet to edit, a dialog to delete, and mutations that         *)
(* invalidate the list.  What they do differently, their forms, requests,  *)
(* buttons and scopes, is in a module of each page; `kind' says which page *)
(* the tab shows.                                                          *)
(*                                                                         *)
(* Another user's browser is a colleague, whose calls take one step.       *)
(***************************************************************************)
EXTENDS Session, Naturals, Sequences, TLC, ListForm

Employees == INSTANCE EmployeesPage
Companies == INSTANCE CompaniesPage
Contractors == INSTANCE ContractorsPage
Consultants == INSTANCE ConsultantsPage
Projects == INSTANCE ProjectsPage
Contracts == INSTANCE ContractsPage

CONSTANTS
  Users,           \* who may sign in
  Limit,           \* rows on a page
  Ids,             \* bound: the ids of rows, in the order they are given out
  Entries,         \* bound: the situations in which a page is entered
  Requests,        \* bound: calls that are open at once
  CreateRequests,  \* bound: what colleagues create, for each kind
  UpdateRequests   \* bound: what they send to change a row

Kinds == {"employees", "companies", "contractors", "consultants", "projects", "contracts"}
Filters == [search : Texts \cup {"active"}, company : {Blank} \cup {u.company : u \in Users}]
Pages == DOMAIN Ids

ASSUME UsersAreUsers == \A u \in Users : u # Nobody /\ DOMAIN u = {"name", "roles", "company"}
ASSUME PageHasRows == Limit \in Nat \ {0}
ASSUME QueriesAreLists == Queries = Pages \X Filters
ASSUME EntriesAreSituations == \A e \in Entries : e.kind \in Kinds /\ e.user \in Users
ASSUME IdsAreDistinct ==
  /\ Len(Ids) \in Nat \ {0} /\ DOMAIN Ids = 1..Len(Ids)
  /\ \A m, n \in DOMAIN Ids : Ids[m] = Ids[n] => m = n

FieldsOf(k) ==
  CASE k = "employees" -> Employees!Fields
    [] k = "companies" -> Companies!Fields
    [] k = "contractors" -> Contractors!Fields
    [] k = "consultants" -> Consultants!Fields
    [] k = "projects" -> Projects!Fields
    [] k = "contracts" -> Contracts!Fields

ASSUME EntriesHaveRows ==
  \A e \in Entries :
    /\ IsFiniteSet(DOMAIN e.rows) /\ DOMAIN e.rows \subseteq {Ids[n] : n \in DOMAIN Ids}
    /\ \A i \in DOMAIN e.rows : FieldsOf(e.kind) \subseteq DOMAIN e.rows[i]

VARIABLES
  kind,                   \* the page the tab shows
  page, filter,           \* the part of the list it shows
  createOpen, editTarget, deleteTarget, createForm, editForm,
  live,                   \* the ids of the rows that are not deleted
  store,                  \* store[i]: the row, or the last one, of an id in use
  acts, others, uses,     \* bounds: the steps of the user and of colleagues to come
  createTyped, editTyped, \* history: the fields typed since the form was filled
  basis,                  \* history: the row as the list showed it when it was opened
  removed                 \* history: a list has lost a row

backendVars == <<live, store, removed>>
listVars == <<page, filter>>
createVars == <<createOpen, createForm, createTyped>>
editVars == <<editTarget, editForm, editTyped, basis>>
sheetVars == <<createVars, editVars, deleteTarget>>
boundVars == <<kind, acts, others, uses>>
officeVars == <<clientVars, sessionVars, backendVars, listVars, sheetVars, boundVars>>

-----------------------------------------------------------------------------
(***************************************************************************)
(* What the server would list.                                             *)
(***************************************************************************)
Listed(u, f, i, r) ==
  CASE kind = "employees" -> Employees!Listed(u, f, r)
    [] kind = "companies" -> Companies!Listed(u, f, i, r)
    [] kind = "contractors" -> Contractors!Listed(u, f, r)
    [] kind = "consultants" -> Consultants!Listed(u, f, r)
    [] kind = "projects" -> Projects!Listed(u, f, r)
    [] kind = "contracts" -> Contracts!Listed(u, f, r)

Listing(u, f, ids, rows) == {i \in ids : Listed(u, f, i, rows[i])}

\* Sorted by the time of creation, the newest first.
age(i) == CHOOSE n \in DOMAIN Ids : Ids[n] = i
Slice(found, p) ==
  {i \in found : Cardinality({j \in found : age(j) > age(i)}) \div Limit = p - 1}

\* A page of the list with the number of all its rows.
Answer(q, u) ==
  LET found == Listing(u, q[2], live, store)
  IN [rows |-> [i \in Slice(found, q[1]) |-> store[i]],
      total |-> Cardinality(found), for |-> u]

\* The rows become `rows' on `ids'.
Write(ids, rows) ==
  /\ live' = ids
  /\ store' = rows
  /\ removed' = (removed \/ \E u \in Users, f \in Filters :
                   ~ (Listing(u, f, live, store) \subseteq Listing(u, f, ids, rows)))

Admins == {i \in live : kind = "employees" /\ Employees!isAdmin(store[i])}

-----------------------------------------------------------------------------
(***************************************************************************)
(* What the page shows.                                                    *)
(***************************************************************************)
shown == <<page, filter>>
Shown == IF user = Nobody THEN {} ELSE {shown}

\* Without data there is no row, no total and no pager.
rows == IF cache[shown] = Missing THEN <<>> ELSE cache[shown].rows
total == IF cache[shown] = Missing THEN 0 ELSE cache[shown].total

adminCount == Cardinality({i \in DOMAIN rows : Employees!isAdmin(rows[i])})

\* The companies the selects offer.
companyIds == IF kind = "companies" THEN live ELSE {u.company : u \in Users}

\* Typing over a choice clears it.
CompanyCombobox == companyIds \cup {Blank}

MayCreate(u) ==
  CASE kind = "employees" -> Employees!canWrite(u)
    [] kind = "companies" -> Companies!canWrite(u)
    [] kind = "contractors" -> TRUE
    [] kind = "consultants" -> Consultants!canWrite(u)
    [] kind = "projects" -> Projects!canWrite(u)
    [] kind = "contracts" -> FALSE

MayEdit(u, r) ==
  CASE kind = "employees" -> Employees!canWrite(u)
    [] kind = "companies" -> Companies!canWrite(u)
    [] kind = "contractors" -> Contractors!canMutate(u, r)
    [] kind = "consultants" -> Consultants!canMutate(u, r)
    [] kind = "projects" -> Projects!canWrite(u)
    [] kind = "contracts" -> Contracts!canWrite(u)

MayDelete(u, i, r) ==
  CASE kind = "employees" -> Employees!canDelete(u, r, adminCount)
    [] kind = "companies" -> Companies!canDelete(u, i)
    [] OTHER -> MayEdit(u, r)

\* The pages of employees and companies are closed to whoever is no head.
Visible(u) ==
  CASE kind = "employees" -> Employees!Seen(u)
    [] kind = "companies" -> Companies!Seen(u)
    [] kind = "contracts" -> Contracts!canWrite(u)
    [] OTHER -> TRUE

\* A search, or the tabs; and companies for who is in charge of all.
searches ==
  CASE kind = "employees" -> {Blank}
    [] kind = "projects" -> Projects!STATUS_TABS
    [] OTHER -> Texts

filterChoices ==
  {[filter EXCEPT !.search = s] : s \in searches}
    \cup (IF kind # "companies" /\ isSuperAdmin(user)
            THEN {[filter EXCEPT !.company = id] : id \in CompanyCombobox} ELSE {})

Defaults(u) ==
  CASE kind = "employees" -> Employees!defaultValues(u)
    [] kind = "companies" -> Companies!defaultValues
    [] kind = "contractors" -> Contractors!defaultValues
    [] kind = "consultants" -> Consultants!defaultValues
    [] kind = "projects" -> Projects!defaultValues(u)
    [] kind = "contracts" -> Contracts!defaultValues

\* The inputs a form shows, each with what can be put in.
CreateInputs ==
  CASE kind = "employees" -> Employees!createInputs(CompanyCombobox)
    [] kind = "companies" -> Companies!inputs(companyIds, Missing)
    [] kind = "contractors" -> Contractors!ContractorForm(createForm)
    [] kind = "consultants" -> Consultants!ConsultantForm
    [] kind = "projects" -> Projects!createInputs(user, CompanyCombobox)
    [] kind = "contracts" -> {}

EditInputs ==
  CASE kind = "employees" -> Employees!editInputs
    [] kind = "companies" -> Companies!inputs(companyIds, editTarget)
    [] kind = "contractors" -> Contractors!ContractorForm(editForm)
    [] kind = "consultants" -> Consultants!ConsultantForm
    [] kind = "projects" -> Projects!editInputs
    [] kind = "contracts" -> Contracts!ContractForm

CreateValid(d) ==
  CASE kind = "employees" -> Employees!createSchema(d)
    [] kind = "companies" -> Companies!schema(d)
    [] kind = "contractors" -> Contractors!schema(d)
    [] kind = "consultants" -> Consultants!schema(d)
    [] kind = "projects" -> Projects!createSchema(d)

EditValid(d) ==
  CASE kind = "employees" -> Employees!editSchema(d)
    [] kind = "projects" -> Projects!editSchema(d)
    [] kind = "contracts" -> Contracts!schema(d)
    [] OTHER -> CreateValid(d)

FormOf(r) ==
  CASE kind = "employees" -> Employees!openEdit(r)
    [] kind = "companies" -> Companies!openEdit(r)
    [] kind = "contractors" -> Contractors!openEdit(r)
    [] kind = "consultants" -> Consultants!openEdit(r)
    [] kind = "projects" -> Projects!openEdit(r)
    [] kind = "contracts" -> Contracts!openEdit(r)

CreateRequest(d) ==
  CASE kind = "employees" -> Employees!onCreateSubmit(d)
    [] kind = "companies" -> Companies!buildReq(d)
    [] kind = "contractors" -> Contractors!toReq(d)
    [] kind = "consultants" -> Consultants!toCreateReq(d)
    [] kind = "projects" -> Projects!onCreateSubmit(d)

EditRequest(d) ==
  CASE kind = "employees" -> Employees!onEditSubmit(d)
    [] kind = "companies" -> Companies!buildReq(d)
    [] kind = "contractors" -> Contractors!toReq(d)
    [] kind = "consultants" -> Consultants!toUpdateReq(d)
    [] kind = "projects" -> Projects!onEditSubmit(d)
    [] kind = "contracts" -> Contracts!onEditSubmit(d)

-----------------------------------------------------------------------------
(***************************************************************************)
(* The user.  A sheet or a dialog covers the page, so that its buttons are *)
(* out of reach; it stays open whatever the list becomes meanwhile.        *)
(***************************************************************************)
Covered == createOpen \/ editTarget # Missing \/ deleteTarget # Missing

Act(use) ==
  /\ user # Nobody /\ use \in uses /\ acts > 0
  /\ acts' = acts - 1
  /\ UNCHANGED <<kind, others, uses>>

OpenCreate ==
  /\ Act("create") /\ ~ Covered /\ MayCreate(user)
  /\ createOpen' = TRUE
  /\ createForm' = Defaults(user)
  /\ createTyped' = {}
  /\ UNCHANGED <<clientVars, sessionVars, backendVars, listVars, editVars, deleteTarget>>

TypeCreate ==
  /\ createOpen /\ Act("create")
  /\ \E input \in CreateInputs :
       /\ createForm' = [createForm EXCEPT ![input[1]] = input[2]]
       /\ createTyped' = createTyped \cup {input[1]}
  /\ UNCHANGED <<clientVars, sessionVars, backendVars, listVars, createOpen, editVars,
                 deleteTarget>>

\* Mutant of openEdit: a form that has been filled before keeps its values.
openEdit_FirstRow(i) ==
  /\ editTarget' = i
  /\ basis' = rows[i]
  /\ editTyped' = {}
  /\ editForm' = IF editForm = <<>> THEN FormOf(rows[i]) ELSE editForm

\* The form is reset to the row that is shown.
openEdit(i) ==
  /\ editTarget' = i
  /\ basis' = rows[i]
  /\ editTyped' = {}
  /\ editForm' = FormOf(rows[i])

OpenEdit ==
  /\ Act("edit") /\ ~ Covered
  /\ \E i \in DOMAIN rows : MayEdit(user, rows[i]) /\ openEdit(i)
  /\ UNCHANGED <<clientVars, sessionVars, backendVars, listVars, createVars, deleteTarget>>

TypeEdit ==
  /\ editTarget # Missing /\ Act("edit")
  /\ \E input \in EditInputs :
       /\ editForm' = [editForm EXCEPT ![input[1]] = input[2]]
       /\ editTyped' = editTyped \cup {input[1]}
  /\ UNCHANGED <<clientVars, sessionVars, backendVars, listVars, createVars, editTarget, basis,
                 deleteTarget>>

OpenDelete ==
  /\ Act("delete") /\ ~ Covered
  /\ \E i \in DOMAIN rows : MayDelete(user, i, rows[i]) /\ deleteTarget' = i
  /\ UNCHANGED <<clientVars, sessionVars, backendVars, listVars, createVars, editVars>>

closeCreate ==
  /\ createOpen' = FALSE
  /\ createForm' = Defaults(user)
  /\ createTyped' = {}

\* The form of a sheet that is closed is of no account: it is reset on opening.
closeEdit ==
  /\ editTarget' = Missing
  /\ editTyped' = {}
  /\ basis' = Missing
  /\ UNCHANGED editForm

CloseSheet ==
  /\ user # Nobody /\ Covered
  /\ IF createOpen THEN closeCreate ELSE UNCHANGED createVars
  /\ IF editTarget # Missing THEN closeEdit ELSE UNCHANGED editVars
  /\ deleteTarget' = Missing
  /\ UNCHANGED <<clientVars, sessionVars, backendVars, listVars, boundVars>>

\* The buttons of a mutation are disabled while the page waits for a call of it.
Pending(m) == \E c \in calls : c.mutation = m /\ c.waiting /\ c.args.mounted

Call(m, i, req, typed, from) ==
  /\ user # Nobody /\ ~ Pending(m)
  /\ \E r \in Requests :
       mutate(r, m, [id |-> i, req |-> req, typed |-> typed, from |-> from, by |-> user,
                     mounted |-> TRUE, counted |-> {}])
  /\ UNCHANGED <<sessionVars, backendVars, listVars, sheetVars>>

SubmitCreate ==
  /\ createOpen /\ CreateValid(createForm)
  /\ Call("create", Missing, CreateRequest(createForm), createTyped, Defaults(user))
  /\ UNCHANGED boundVars

SubmitEdit ==
  /\ editTarget # Missing /\ EditValid(editForm)
  /\ Call("update", editTarget, EditRequest(editForm), editTyped, basis)
  /\ UNCHANGED boundVars

ConfirmDelete ==
  /\ deleteTarget # Missing
  /\ Call("delete", deleteTarget, <<>>, {}, Missing)
  /\ UNCHANGED boundVars

\* The select in a row of the projects.
PickStatus ==
  /\ kind = "projects" /\ Act("status") /\ ~ Covered /\ Projects!canWrite(user)
  /\ \E i \in DOMAIN rows, s \in Projects!Statuses :
       s # rows[i].status /\ Call("status", i, Projects!statusReq(s), {"status"}, rows[i])

\* The list is shown from another page or with another filter.
ShowList(p, f) ==
  /\ <<p, f>> \in Queries
  /\ page' = p /\ filter' = f
  /\ Show(<<p, f>>, user)
  /\ UNCHANGED <<user, calls, backendVars, sheetVars>>

\* Mutant of SetFilter: the page stays.
SetFilter_KeepPage ==
  /\ Act("filter") /\ ~ Covered
  /\ \E f \in filterChoices \ {filter} : ShowList(page, f)

SetFilter ==
  /\ Act("filter") /\ ~ Covered
  /\ \E f \in filterChoices \ {filter} : ShowList(1, f)

\* The pager is there when the rows do not fit on one page.
TurnPage ==
  /\ Act("page") /\ ~ Covered /\ total > Limit
  /\ \/ page > 1 /\ ShowList(page - 1, filter)
     \/ page * Limit < total /\ ShowList(page + 1, filter)

-----------------------------------------------------------------------------
(***************************************************************************)
(* The server.  A call carries the token of who has made it.               *)
(***************************************************************************)
Creatable(u, req) ==
  CASE kind = "employees" -> Employees!Creatable(u, req)
    [] kind = "companies" -> Companies!Creatable(u, req, live)
    [] kind = "contractors" -> Contractors!Creatable(u, req)
    [] kind = "consultants" -> Consultants!Creatable(u)
    [] kind = "projects" -> Projects!canWrite(u)
    [] kind = "contracts" -> Contracts!canWrite(u)

InScope(u, r) ==
  CASE kind = "employees" -> Employees!InScope(u, r)
    [] kind = "companies" -> Companies!InScope(u)
    [] kind = "contractors" -> Contractors!InScope(u, r)
    [] kind = "consultants" -> Consultants!InScope(u, r)
    [] kind = "projects" -> Projects!canWrite(u)
    [] kind = "contracts" -> Contracts!canWrite(u)

Deletable(u, i) == kind = "companies" => Companies!Deletable(u, i)

\* A row of the company that is sent, or of the one of who sends it.
NewRow(u, req) ==
  LET sent == IF kind = "projects" THEN Projects!Created(u, req) ELSE req
  IN Filled(FieldsOf(kind) \cup {"company_id"}, sent @@ [company_id |-> u.company])

Unused == {n \in DOMAIN Ids : Ids[n] \notin DOMAIN store}

Insert(u, req) ==
  /\ Creatable(u, req)
  /\ \E n \in Unused :
       /\ \A m \in Unused : n <= m
       /\ Write(live \cup {Ids[n]},
                [i \in DOMAIN store \cup {Ids[n]} |->
                   IF i = Ids[n] THEN NewRow(u, req) ELSE store[i]])

ServeCreate(c) ==
  /\ c.mutation = "create" /\ c.state = "sent"
  /\ Insert(c.args.by, c.args.req)
  /\ Served(c, "done")

ServeUpdate(c) ==
  /\ c.mutation \in {"update", "status"} /\ c.state = "sent"
  /\ c.args.id \in live /\ InScope(c.args.by, store[c.args.id])
  /\ Write(live, [store EXCEPT ![c.args.id] = Patch(@, c.args.req)])
  /\ Served(c, "done")

\* Mutant of BeginDelete: the last administrator can be deleted as well.
BeginDelete_NoCount(c) ==
  /\ c.mutation = "delete" /\ c.state = "sent"
  /\ c.args.id \in live /\ InScope(c.args.by, store[c.args.id]) /\ Deletable(c.args.by, c.args.id)
  /\ calls' = (calls \ {c}) \cup {[c EXCEPT !.state = "busy", !.args.counted = Admins]}
  /\ UNCHANGED backendVars

\* DeleteEmployee counts the administrators and deletes, without a transaction.
BeginDelete(c) ==
  /\ c.mutation = "delete" /\ c.state = "sent"
  /\ c.args.id \in live /\ InScope(c.args.by, store[c.args.id]) /\ Deletable(c.args.by, c.args.id)
  /\ c.args.id \in Admins => Cardinality(Admins) > 1
  /\ calls' = (calls \ {c}) \cup {[c EXCEPT !.state = "busy", !.args.counted = Admins]}
  /\ UNCHANGED backendVars

EndDelete(c) ==
  /\ c.state = "busy"
  /\ Write(live \ {c.args.id}, store)
  /\ Served(c, IF c.args.id \in live THEN "done" ELSE "refused")

\* A row that is gone, a user out of scope, or a rule against it.
Refusable(c) ==
  CASE c.mutation = "create" -> ~ Creatable(c.args.by, c.args.req)
    [] c.mutation = "delete" ->
         \/ c.args.id \notin live \/ ~ InScope(c.args.by, store[c.args.id])
         \/ ~ Deletable(c.args.by, c.args.id)
         \/ c.args.id \in Admins /\ Cardinality(Admins) <= 1
    [] OTHER -> c.args.id \notin live \/ ~ InScope(c.args.by, store[c.args.id])

ServeRefuse(c) ==
  /\ c.state = "sent" /\ Refusable(c)
  /\ Served(c, "refused")
  /\ UNCHANGED backendVars

ServeCall(c) ==
  /\ ServeCreate(c) \/ ServeUpdate(c) \/ BeginDelete(c) \/ EndDelete(c) \/ ServeRefuse(c)
  /\ UNCHANGED <<cacheVars, sessionVars, listVars, sheetVars, boundVars>>

-----------------------------------------------------------------------------
(***************************************************************************)
(* Answers.  The callbacks of a mutation run even when its page is left:   *)
(* then they invalidate the list, and that is all.                         *)
(***************************************************************************)
onSuccess(c) ==
  /\ c.state = "done"
  /\ calls' = calls \ {c}
  /\ invalidateList(Shown)
  /\ IF c.args.mounted /\ c.mutation = "create" THEN closeCreate ELSE UNCHANGED createVars
  /\ IF c.args.mounted /\ c.mutation = "update" THEN closeEdit ELSE UNCHANGED editVars
  /\ deleteTarget' = IF c.args.mounted /\ c.mutation = "delete" THEN Missing ELSE deleteTarget
  /\ UNCHANGED <<user, handedOver, backendVars, listVars, boundVars>>

onError(c) ==
  /\ Refused(c) \/ NetworkFails(c)
  /\ UNCHANGED <<sessionVars, backendVars, listVars, sheetVars, boundVars>>

ServerLists(q) ==
  /\ Answered(q, Answer(q, asker[q]))
  /\ UNCHANGED <<backendVars, listVars, sheetVars, boundVars>>

ListArrives(q) ==
  /\ Arrived(q)
  /\ UNCHANGED <<backendVars, listVars, sheetVars, boundVars>>

ListFails(q) ==
  /\ FetchFails(q)
  /\ UNCHANGED <<sessionVars, backendVars, listVars, sheetVars, boundVars>>

-----------------------------------------------------------------------------
(***************************************************************************)
(* The session.  A page that is left forgets its state.                    *)
(***************************************************************************)
\* Mutant of Unmount: the sheets stay as they are.
Unmount_KeepSheets ==
  /\ page' = 1 /\ filter' = NoFilter
  /\ UNCHANGED sheetVars

Unmount ==
  /\ page' = 1 /\ filter' = NoFilter
  /\ createOpen' = FALSE /\ createForm' = <<>> /\ createTyped' = {}
  /\ editTarget' = Missing /\ editForm' = <<>> /\ editTyped' = {} /\ basis' = Missing
  /\ deleteTarget' = Missing

Logout ==
  /\ Act("session") /\ ~ Covered
  /\ handleLogout
  /\ calls' = {[c EXCEPT !.args.mounted = FALSE] : c \in calls}
  /\ Unmount
  /\ UNCHANGED backendVars

\* The token has expired, or its user is gone: a fetch or a call says so, one of
\* an earlier session as well.
TokenRefused ==
  /\ "session" \in uses /\ acts > 0 /\ acts' = acts - 1
  /\ (\E q \in Queries : fetching[q] = "asked") \/ (\E c \in calls : c.state = "sent" /\ c.waiting)
  /\ Unauthorized
  /\ Unmount
  /\ calls' = {[c EXCEPT !.waiting = FALSE, !.args.mounted = FALSE] :
                  c \in {d \in calls : d.state \in {"sent", "busy"}}}
  /\ UNCHANGED <<backendVars, kind, others, uses>>

\* A user signs in and comes to the page.
Login ==
  /\ user = Nobody
  /\ \E u \in Users :
       /\ Visible(u)
       /\ user' = u
       /\ Show(<<1, NoFilter>>, u)
       /\ createForm' = Defaults(u)
  /\ page' = 1 /\ filter' = NoFilter
  /\ UNCHANGED <<calls, backendVars, createOpen, createTyped, editVars, deleteTarget, boundVars>>

-----------------------------------------------------------------------------
(***************************************************************************)
(* Colleagues.                                                             *)
(***************************************************************************)
Elsewhere ==
  /\ others > 0 /\ others' = others - 1
  /\ UNCHANGED <<clientVars, sessionVars, listVars, sheetVars, kind, acts, uses>>

ColleagueAdds ==
  /\ Elsewhere
  /\ \E u \in Users, req \in CreateRequests[kind] : Insert(u, req)

\* Deleting a company deletes its employees with it, the last administrator included.
ColleagueDeletesCompany ==
  /\ kind = "employees" /\ Elsewhere
  /\ \E u \in Users : Write({i \in live : store[i].company_id # u.company}, store)

ColleagueRemoves ==
  /\ Elsewhere
  /\ \E i \in live :
       /\ i \in Admins => Cardinality(Admins) > 1
       /\ Write(live \ {i}, store)

ColleagueEdits ==
  /\ Elsewhere
  /\ \E i \in live, req \in UpdateRequests[kind] :
       Write(live, [store EXCEPT ![i] = Patch(@, req)])

-----------------------------------------------------------------------------
\* The page is entered with an empty cache.
ListInit ==
  \E e \in Entries :
    /\ kind = e.kind /\ acts = e.acts /\ others = e.others /\ uses = e.uses
    /\ live = DOMAIN e.rows /\ store = e.rows /\ removed = FALSE
    /\ SessionInit(e.user, <<1, NoFilter>>)
    /\ page = 1 /\ filter = NoFilter
    /\ createOpen = FALSE /\ createForm = Defaults(e.user) /\ createTyped = {}
    /\ editTarget = Missing /\ editForm = <<>> /\ editTyped = {} /\ basis = Missing
    /\ deleteTarget = Missing

UserStep ==
  \/ OpenCreate \/ TypeCreate \/ SubmitCreate
  \/ OpenEdit \/ TypeEdit \/ SubmitEdit
  \/ OpenDelete \/ ConfirmDelete
  \/ CloseSheet \/ PickStatus \/ SetFilter \/ TurnPage
  \/ Logout \/ Login

ColleagueStep ==
  ColleagueAdds \/ ColleagueRemoves \/ ColleagueEdits \/ ColleagueDeletesCompany

ListNext ==
  \/ UserStep
  \/ ColleagueStep
  \/ \E c \in calls : ServeCall(c) \/ onSuccess(c) \/ onError(c)
  \/ \E q \in Queries : ServerLists(q) \/ ListArrives(q) \/ ListFails(q)
  \/ TokenRefused

ListSpec == ListInit /\ [][ListNext]_officeVars

-----------------------------------------------------------------------------
\* At most one sheet is open, and none on the login page, where no page waits for
\* a call either; the edit form has the fields of its row.
OfficeTypeOK ==
  /\ CacheTypeOK
  /\ user \in Users \cup {Nobody}
  /\ page \in Pages /\ filter \in Filters
  /\ live \subseteq DOMAIN store
  /\ user = Nobody => ~ Covered /\ \A c \in calls : ~ c.args.mounted
  /\ ~ (createOpen /\ editTarget # Missing)
  /\ deleteTarget # Missing => ~ createOpen /\ editTarget = Missing
  /\ editTarget # Missing => DOMAIN editForm = DOMAIN FormOf(basis)
  /\ \A c \in calls : c.state = "busy" => c.mutation = "delete"

\* The value `had' of field x is sent as it is, or it is a currency left blank.
Keeps(x, sent, had) == sent = had \/ (x = "default_currency" /\ sent = Currency(had))

\* What a request says of a row is what was typed in the form, or what the list
\* showed of that row when its form was opened, but for a blank currency; never
\* what another row had, whatever sheets were opened, closed or answered for in
\* between.
RequestsKeepTheirRow ==
  \A c \in calls : \A x \in DOMAIN c.args.req \ c.args.typed :
    x \in DOMAIN c.args.from /\ Keeps(x, c.args.req[x], c.args.from[x])

\* A list that shows no row although it counts some has lost one: a filter or
\* the pager never leads behind the last page.
EmptyPageMeansRemoval ==
  user # Nobody /\ rows = <<>> /\ total > 0 => removed \/ handedOver

\* Nobody is shown what was fetched for another, unless the session before was
\* ended by the button, which keeps the cache.
ShownRowsAreOwn ==
  user # Nobody /\ cache[shown] # Missing => cache[shown].for = user \/ handedOver

LastGoes == Admins # {} /\ live' # live /\ Admins \cap live' = {}

\* A deletion under way has counted an administrator who is none any more, or
\* found none in whom it deletes.
Overtaken ==
  \E c \in calls :
    /\ c.state = "busy" /\ c.args.id \in Admins
    /\ c.args.counted \ Admins # {} \/ c.args.id \notin c.args.counted

\* The last administrator goes with a company, or by a deletion that was
\* overtaken between its count and its write; a change of roles deletes nobody.
LastAdministratorStays ==
  [][LastGoes => ColleagueDeletesCompany \/ Overtaken]_officeVars
=============================================================================
