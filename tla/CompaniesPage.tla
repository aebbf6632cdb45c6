---------------------------- MODULE CompaniesPage ----------------------------
(***************************************************************************)
(* The companies page.  A company is known by its id, and may have another *)
(* one for its parent.                                                     *)
(***************************************************************************)
EXTENDS ListForm

Fields == {"name", "reg_num", "parent_id"}

Seen(u) == isSuperAdmin(u) \/ isHead(u)
canWrite(u) == isSuperAdmin(u)

defaultValues == [name |-> Blank, reg_num |-> Blank, parent_id |-> Blank]

schema(d) == d.name # Blank /\ d.reg_num # Blank

\* The search offers the companies there are, without the one being edited;
\* typing over a choice clears it.
ParentCompanyCombobox(companies, excludeId) == (companies \ {excludeId}) \cup {Blank}

inputs(companies, excludeId) ==
  ({"name", "reg_num"} \X Texts) \cup ({"parent_id"} \X ParentCompanyCombobox(companies, excludeId))

openEdit(r) == [name |-> r.name, reg_num |-> r.reg_num, parent_id |-> r.parent_id]

\* A cleared parent is left out of the request.
buildReq(d) == Body(d, {"name", "reg_num"}, {"parent_id"})

\* One's own company cannot be picked for deletion.
canDelete(u, i) == canWrite(u) /\ i # u.company

-----------------------------------------------------------------------------
\* ListCompanies for an administrator, ListManagerCompanies for a manager, and the
\* own company of any other head.
Listed(u, filter, i, r) ==
  LET found == filter.search \in {Blank, r.name} IN
  IF isSuperAdmin(u) THEN found
  ELSE IF "manager" \in u.roles THEN found /\ u.company \in {i, r.parent_id}
  ELSE i = u.company

\* The routes that write are the sudoer's alone, though the page shows an
\* administrator their buttons.
InScope(u) == "sudoer" \in u.roles

Creatable(u, req, companies) ==
  InScope(u) /\ ("parent_id" \in DOMAIN req => req.parent_id \in companies)

Deletable(u, i) == InScope(u) /\ i # u.company
=============================================================================
