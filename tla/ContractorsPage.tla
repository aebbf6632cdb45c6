--------------------------- MODULE ContractorsPage ---------------------------
(***************************************************************************)
(* The contractors page.  `first_name' stands for both names of a person,  *)
(* `tax_id' for the optional texts.  The list shows the rows of a parent    *)
(* company as well, which nobody may change from it; they are left out.    *)
(***************************************************************************)
EXTENDS ListForm

Fields == {"type", "first_name", "company_name", "tax_id", "default_currency"}

canMutate(u, r) == isSuperAdmin(u) \/ r.company_id \in {Blank, u.company}

defaultValues ==
  [type |-> "company", first_name |-> Blank, company_name |-> Blank, tax_id |-> Blank,
   default_currency |-> "IRR"]

schema(d) == IF d.type = "individual" THEN d.first_name # Blank ELSE d.company_name # Blank

\* The inputs follow the type; what they do not show keeps its value.
ContractorForm(d) ==
  ({"type"} \X {"individual", "company"}) \cup ({"tax_id", "default_currency"} \X Texts)
    \cup (IF d.type = "individual" THEN {"first_name"} \X Texts ELSE {"company_name"} \X Texts)

openEdit(r) == [x \in Fields |-> r[x]]

\* Blank texts are left out, of an update as well.
toReq(d) ==
  [Body(d, {"type", "default_currency"}, {"first_name", "company_name", "tax_id"})
     EXCEPT !.default_currency = Currency(@)]

-----------------------------------------------------------------------------
deriveDisplayName(r) ==
  IF r.type = "individual" /\ r.first_name # Blank THEN r.first_name
  ELSE IF r.company_name # Blank THEN r.company_name ELSE r.first_name

Listed(u, filter, r) ==
  /\ ScopeOf(u, filter) = Blank \/ r.company_id \in {Blank, ScopeOf(u, filter)}
  /\ filter.search \in {Blank, deriveDisplayName(r)}

Creatable(u, req) ==
  IF req.type = "individual" THEN "first_name" \in DOMAIN req ELSE "company_name" \in DOMAIN req

InScope(u, r) == isSuperAdmin(u) \/ r.company_id \in {Blank, u.company}
=============================================================================
