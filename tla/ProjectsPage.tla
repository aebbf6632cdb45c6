---------------------------- MODULE ProjectsPage ----------------------------
(***************************************************************************)
(* The projects page.  `name' stands for the required texts, `description' *)
(* for the optional ones.  Its tabs filter by status.                      *)
(***************************************************************************)
EXTENDS ListForm

Fields == {"company_id", "name", "description", "status"}
Statuses == {"planning", "active"}

\* The tabs: every status, or one of them.
STATUS_TABS == {Blank, "active"}

canWrite(u) == u.roles \cap WRITE_ROLES # {}

defaultValues(u) ==
  [company_id |-> IF isSuperAdmin(u) THEN Blank ELSE u.company,
   name |-> Blank, description |-> Blank, status |-> "planning"]

createSchema(d) == d.company_id # Blank /\ d.name # Blank
editSchema(d) == d.name # Blank

createInputs(u, companies) ==
  ({"name", "description"} \X Texts) \cup ({"status"} \X Statuses)
    \cup (IF isSuperAdmin(u) THEN {"company_id"} \X companies ELSE {})
editInputs == ({"name", "description"} \X Texts) \cup ({"status"} \X Statuses)

openEdit(r) == [name |-> r.name, description |-> r.description, status |-> r.status]

onCreateSubmit(d) == Body(d, {"company_id", "name", "status"}, {"description"})

\* Blank texts and dates are sent, and clear what was there.
onEditSubmit(d) == Body(d, {"name", "description", "status"}, {})

\* The select in the row sends the status alone.
statusReq(s) == [status |-> s]

-----------------------------------------------------------------------------
Listed(u, filter, r) ==
  /\ ScopeOf(u, filter) \in {Blank, r.company_id}
  /\ filter.search \in {Blank, r.status}

\* Whoever is not in charge of all creates for the own company, whatever is sent.
Created(u, req) ==
  [req EXCEPT !.company_id = IF isSuperAdmin(u) THEN req.company_id ELSE u.company]
=============================================================================
