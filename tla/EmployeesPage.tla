---------------------------- MODULE EmployeesPage ----------------------------
(***************************************************************************)
(* The employees page.  `name' stands for the required texts, `phone' for  *)
(* the optional ones (the new password among them), `roles' for whether an *)
(* employee is an administrator, a manager or neither.                     *)
(***************************************************************************)
EXTENDS Naturals, ListForm

Fields == {"company_id", "name", "national_id", "phone", "roles"}

Seen(u) == isSuperAdmin(u) \/ isHead(u)
canWrite(u) == isSuperAdmin(u) \/ "manager" \in u.roles

\* The roles that can be picked; a sudoer's are kept as they are.
RolePicker == {"none", "manager", "admin"}

defaultValues(u) ==
  [company_id |-> u.company, name |-> Blank, national_id |-> Blank, phone |-> Blank, roles |-> "none"]

createSchema(d) == d.company_id # Blank /\ d.name # Blank
editSchema(d) == d.name # Blank

createInputs(companies) ==
  ({"name", "national_id", "phone"} \X Texts) \cup ({"company_id"} \X companies)
    \cup ({"roles"} \X RolePicker)
editInputs == ({"name", "phone"} \X Texts) \cup ({"roles"} \X RolePicker)

openEdit(r) == [name |-> r.name, phone |-> r.phone, roles |-> r.roles]

onCreateSubmit(d) == Body(d, {"company_id", "name", "roles"}, {"national_id", "phone"})
onEditSubmit(d) == Body(d, {"name", "roles"}, {"phone"})

\* hasAdminRole
isAdmin(r) == r.roles \in {"admin", "sudoer"}

\* The last administrator of the page shown cannot be picked for deletion.
canDelete(u, r, admins) == canWrite(u) /\ ~ (isAdmin(r) /\ admins <= 1)

-----------------------------------------------------------------------------
\* GetEmployees: the caller's companies, or all or one of them for who is in charge
\* of all.
Listed(u, filter, r) == ScopeOf(u, filter) \in {Blank, r.company_id}

\* CreateEmployee wants a national id, which the form does not.
Creatable(u, req) ==
  /\ canWrite(u)
  /\ isSuperAdmin(u) \/ req.company_id = u.company
  /\ "national_id" \in DOMAIN req

\* An id in the body would override the one in the path; the page sends none.
InScope(u, r) == canWrite(u) /\ (isSuperAdmin(u) \/ r.company_id = u.company)
=============================================================================
