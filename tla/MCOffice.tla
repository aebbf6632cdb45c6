------------------------------ MODULE MCOffice ------------------------------
(***************************************************************************)
(* A small instance of ListPage for TLC: lists of two rows a page and at   *)
(* most four rows.  An entry puts the user before one of the six pages and *)
(* says which parts of it are used, so that each part is explored with the *)
(* steps it takes: two edits in a row, a way through pages and filters     *)
(* with deletions, a form filled from nothing, a change of users.          *)
(***************************************************************************)
EXTENDS ListPage

boss == [name |-> "boss", roles |-> {"sudoer"}, company |-> "i1"]
clerk == [name |-> "clerk", roles |-> {"admin"}, company |-> "i1"]
head == [name |-> "head", roles |-> {"manager"}, company |-> "i1"]
guest == [name |-> "guest", roles |-> {"engineering_head"}, company |-> "i2"]

MCUsers == {boss, clerk, head, guest}
MCIds == <<"i1", "i2", "i3", "i4">>
MCQueries ==
  (1..4) \X [search : {Blank, "typed", "active"}, company : {Blank, "i1", "i2"}]

\* A full row and a bare one of each kind.
Full ==
  [employees |-> [company_id |-> "i1", name |-> "typed", national_id |-> "typed",
                  phone |-> "typed", roles |-> "admin"],
   companies |-> [company_id |-> Blank, name |-> "typed", reg_num |-> "typed",
                  parent_id |-> "i1"],
   contractors |-> [company_id |-> "i1", type |-> "individual", first_name |-> "typed",
                    company_name |-> Blank, tax_id |-> "typed", default_currency |-> "USD"],
   consultants |-> [company_id |-> "i1", name |-> "typed", legal_name |-> "typed",
                    rating |-> "typed", default_currency |-> "USD", is_active |-> FALSE],
   projects |-> [company_id |-> "i1", name |-> "typed", description |-> "typed",
                 status |-> "active"],
   contracts |-> [company_id |-> "i1", title |-> "typed", description |-> "typed",
                  status |-> "active"]]

Bare ==
  [employees |-> [Full.employees EXCEPT !.phone = Blank, !.roles = "none"],
   companies |-> [Full.companies EXCEPT !.parent_id = Blank],
   contractors |-> [company_id |-> Blank, type |-> "company", first_name |-> Blank,
                    company_name |-> "typed", tax_id |-> Blank, default_currency |-> Blank],
   consultants |-> [Full.consultants EXCEPT !.legal_name = Blank, !.rating = Blank,
                                             !.default_currency = "IRR", !.is_active = TRUE],
   projects |-> [Full.projects EXCEPT !.description = Blank, !.status = "planning"],
   contracts |-> [Full.contracts EXCEPT !.description = Blank, !.status = "draft"]]

MCCreateRequests ==
  [k \in Kinds |->
     IF k = "employees" THEN {[company_id |-> "i1", name |-> "typed", national_id |-> "typed",
                               roles |-> "admin"]}
     ELSE IF k = "contractors" THEN {[type |-> "company", company_name |-> "typed",
                                       default_currency |-> "IRR"]}
     ELSE {[x \in DOMAIN Bare[k] \ {"company_id", "parent_id"} |-> Bare[k][x]]
             @@ (IF k = "projects" THEN [company_id |-> "i1"] ELSE <<>>)}]

MCUpdateRequests ==
  [k \in Kinds |->
     CASE k = "employees" -> {[roles |-> "none"], [roles |-> "admin"]}
       [] k = "companies" -> {[reg_num |-> Blank]}
       [] k = "contractors" -> {[tax_id |-> "typed"]}
       [] k = "consultants" -> {[legal_name |-> "typed"]}
       [] k = "projects" -> {[status |-> "planning"], [status |-> "active"]}
       [] k = "contracts" -> {[description |-> "typed"]}]

Entry(k, u, n, use, a, o) ==
  [kind |-> k, user |-> u, uses |-> use, acts |-> a, others |-> o,
   rows |-> [i \in {MCIds[m] : m \in 1..n} |->
               IF i \in {"i1", "i3"} THEN Full[k] ELSE Bare[k]]]

\* Pages that differ in what they send, in what they filter by, in whom they let
\* delete.
Patched == {"employees", "consultants"}
Filtered == {"employees", "companies", "projects"}
Scoped == {"employees", "projects"}

MCEntries ==
  {Entry(k, boss, 2, {"edit"}, 3, IF k \in Patched THEN 1 ELSE 0) : k \in Kinds}
    \cup {Entry(k, boss, 1, {"create"}, 3, 0) : k \in Kinds \ {"contracts"}}
    \cup {Entry(k, boss, 3, {"page", "filter", "delete"}, 3, 0) : k \in Filtered}
    \cup {Entry(k, head, 3, {"page", "delete"}, 3, 1) : k \in Scoped}
    \cup {Entry("projects", head, 3, {"page", "status"}, 3, 1)}
    \cup {Entry(k, clerk, 3, {"edit", "delete"}, 2, 0) : k \in Kinds}
    \cup {Entry(k, boss, 3, {"session", "page", "create"}, 3, 0) : k \in {"employees", "projects"}}
    \cup {Entry("employees", head, 2, {"session", "edit", "delete"}, 3, 0)}
=============================================================================
