------------------------------ MODULE ListForm ------------------------------
(***************************************************************************)
(* What the forms of the list pages have in common.  A form and a row are  *)
(* functions on field names; one name stands for all the fields that are   *)
(* treated alike, and one text beside the blank one for all texts.  A role *)
(* list is known by what the pages ask of it.                              *)
(*                                                                         *)
(* A user is a record: its name, its roles and its company.                *)
(***************************************************************************)

\* The text that is typed, and the blank of an input left empty.
Blank == ""
Texts == {Blank, "typed"}

HEAD_ROLES == {"manager", "finance_head", "juridical_head", "engineering_head", "security_head"}
WRITE_ROLES == {"manager", "engineering_head", "sudoer", "admin"}

\* What a list is filtered by: a search (or the tab picked) and a company.
NoFilter == [search |-> Blank, company |-> Blank]

isSuperAdmin(u) == u.roles \cap {"sudoer", "admin"} # {}
isHead(u) == u.roles \cap HEAD_ROLES # {}

\* The company whose rows user u is listed, blank for all of them: the own one, or
\* the one picked by who is in charge of all.
ScopeOf(u, filter) == IF isSuperAdmin(u) THEN filter.company ELSE u.company

\* The body of a request: the fields always sent, and the optional ones that
\* are not blank.  A key that is left out is not in its domain.
Body(d, always, optional) ==
  [x \in always \cup {y \in optional : d[y] # Blank} |-> d[x]]

\* A currency left blank is sent as the rial.
Currency(x) == IF x = Blank THEN "IRR" ELSE x

\* What an update handler does: it writes the keys it is given.
Patch(row, req) == [x \in DOMAIN row |-> IF x \in DOMAIN req THEN req[x] ELSE row[x]]

\* A new row of the fields, blank where the request says nothing.
Filled(fields, req) == [x \in fields |-> IF x \in DOMAIN req THEN req[x] ELSE Blank]
=============================================================================
