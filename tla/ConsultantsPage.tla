--------------------------- MODULE ConsultantsPage ---------------------------
(***************************************************************************)
(* The consultants page.  `legal_name' stands for the optional texts, which *)
(* an update sends even when they are blank; a blank rating it leaves out. *)
(***************************************************************************)
EXTENDS ListForm

Fields == {"name", "legal_name", "rating", "default_currency", "is_active"}

canWrite(u) == u.roles \cap WRITE_ROLES # {}
canMutate(u, r) ==
  canWrite(u) /\ (isSuperAdmin(u) \/ r.company_id \in {Blank, u.company})

defaultValues ==
  [name |-> Blank, legal_name |-> Blank, rating |-> Blank, default_currency |-> "IRR",
   is_active |-> TRUE]

schema(d) == d.name # Blank

ConsultantForm ==
  ({"name", "legal_name", "rating"} \X Texts) \cup ({"is_active"} \X BOOLEAN)
    \cup ({"default_currency"} \X {"IRR", "USD"})

openEdit(r) == [x \in Fields |-> r[x]]

toCreateReq(d) ==
  [Body(d, {"name", "is_active", "default_currency"}, {"legal_name", "rating"})
     EXCEPT !.default_currency = Currency(@)]

toUpdateReq(d) ==
  [Body(d, {"name", "is_active", "default_currency", "legal_name"}, {"rating"})
     EXCEPT !.default_currency = Currency(@)]

-----------------------------------------------------------------------------
Listed(u, filter, r) ==
  /\ ScopeOf(u, filter) = Blank \/ r.company_id \in {Blank, ScopeOf(u, filter)}
  /\ filter.search \in {Blank, r.name}

Creatable(u) == canWrite(u)

InScope(u, r) == canWrite(u) /\ (isSuperAdmin(u) \/ r.company_id \in {Blank, u.company})
=============================================================================
