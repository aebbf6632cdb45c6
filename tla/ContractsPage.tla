---------------------------- MODULE ContractsPage ----------------------------
(***************************************************************************)
(* The list of contracts: its edit form and its rows.  New contracts come  *)
(* from the sheet of CreateContractSheet.  `title' stands for the fields   *)
(* that are always sent, `description' for the ones dropped when blank.    *)
(***************************************************************************)
EXTENDS ListForm

Fields == {"title", "description", "status"}

\* Whoever may open the page at all.
canWrite(u) ==
  u.roles \cap {"manager", "engineering_head", "finance_head", "juridical_head", "sudoer", "admin"} # {}

defaultValues == [title |-> Blank, description |-> Blank, status |-> "draft"]

\* The statuses of the form: those of the approval rounds are not among them, so
\* that a contract under review is saved with another status or not at all.
FormStatuses == {"draft", "signed", "active", "closed", "cancelled"}

schema(d) == d.title # Blank /\ d.status \in FormStatuses

ContractForm == ({"title", "description"} \X Texts) \cup ({"status"} \X {"draft", "active"})

openEdit(r) == [x \in Fields |-> r[x]]

\* The status is always sent, as the row had it or as it was picked.
onEditSubmit(d) == Body(d, {"title", "status"}, {"description"})

-----------------------------------------------------------------------------
Listed(u, filter, r) ==
  /\ ScopeOf(u, filter) \in {Blank, r.company_id}
  /\ filter.search \in {Blank, r.title}
=============================================================================
