---------------------------- MODULE ContractPage ----------------------------
(***************************************************************************)
(* The page of one contract, contracts/[id]/page.tsx, over the approval    *)
(* workflow of the backend.  The page decides which buttons it shows from  *)
(* its query cache; the server decides what a call does from its rows; and *)
(* colleagues move the same contract and edit its items and documents.     *)
(*                                                                         *)
(* The handlers of items, documents and statements take one step here:     *)
(* the modules ContractItems, ContractDocuments and StatementNumbering     *)
(* have their races.                                                       *)
(***************************************************************************)
EXTENDS ContractApproval, PageClient

CONSTANTS
  id,            \* the contract of the page's address
  Entries,       \* bound: the situations in which the page is entered
  PageRequests,  \* bound: the calls of the page that are open at once
  Items,         \* identities of line items
  FirstItems,    \* the line items there are at first
  DocTypes       \* document types that are tried

ASSUME PageContract == id \in Contracts
ASSUME EntriesAreSituations ==
  \A e \in Entries :
    /\ e.status \in ContractStatus /\ e.trail \in Seq(Event) /\ e.docs \subseteq DocTypes
    /\ e.user \in Actors /\ e.acts \in Nat /\ e.warm \subseteq Queries
ASSUME EntriesAreEarned ==
  \A e \in Entries : \A role \in MustHaveSigned(e.status) :
    \E i \in DOMAIN e.trail : SignsOff(e.trail[i], role)
ASSUME PageCallsAreRequests == PageRequests \subseteq Requests
ASSUME FirstItemsAreItems == FirstItems \subseteq Items
ASSUME MissingIsNoNumber == Missing \notin Nat
ASSUME ColleaguesCall == Requests \ PageRequests # {}

ContractQueries ==
  {"contract", "contract-approvals", "line-items", "attachments", "statements"}

ASSUME QueriesOfPage == Queries = ContractQueries

VARIABLES
  items,       \* the live line items of the contract
  docs,        \* the document types of its live attachments
  statements,  \* how many statements it has
  user,        \* who has the page open
  sheet,       \* the sheet or dialog that is open
  acts         \* bound: calls, colleagues' acts, refetches and faults to come

backendVars == <<vars, items, docs, statements>>
pageVars == <<sheet, user>>
allVars == <<backendVars, clientVars, pageVars, acts>>

-----------------------------------------------------------------------------
(***************************************************************************)
(* What the page shows.                                                    *)
(***************************************************************************)
shown == cache["contract"]
events == cache["contract-approvals"]

Rows == IF cache["line-items"] = Missing THEN {} ELSE cache["line-items"]
Shelf == IF cache["attachments"] = Missing THEN {} ELSE cache["attachments"]

\* Mutant of canEdit: a contract that was sent back may be edited.
canEdit_AnyDraft == shown = "draft"

\* The list of approvals is empty as long as it is not loaded.
canEdit == shown = "draft" /\ events \in {Missing, 0}

canCreateStatement == shown = "active"
canUploadSignedDoc == shown \in {"ready_to_print", "signed"}

effectiveCanEdit(d) == IF d = "signed_contract" THEN canUploadSignedDoc ELSE canEdit

canUpload(d) ==
  d \notin Shelf /\ (d = "signed_contract" \/ Cardinality(Shelf) < 3)

\* The stages of the workflow card, each with the role that acts there.
Stage(role, pendingStatus, action) ==
  [role |-> role, pendingStatus |-> pendingStatus, action |-> action]

APPROVAL_STAGES ==
  { Stage("engineering_head", "pending_engineering", "approve"),
    Stage("finance_head", "pending_finance", "approve"),
    Stage("juridical_head", "pending_legal", "approve"),
    Stage("manager", "pending_ceo", "approve"),
    Stage("manager", "ready_to_print", "sign"),
    Stage("manager", "signed", "activate") }

OwnStage == {s \in APPROVAL_STAGES : s.pendingStatus = shown /\ s.role \in RolesOf[user]}

SubmitButton ==
  IF shown = "draft"
     /\ RolesOf[user] \cap {"engineering_head", "finance_head", "juridical_head", "manager"} # {}
  THEN {"submit"} ELSE {}

StageButtons ==
  {s.action : s \in OwnStage}
    \cup (IF \E s \in OwnStage : s.action = "approve" THEN {"reject"} ELSE {})
    \cup (IF OwnStage # {} /\ "manager" \in RolesOf[user] THEN {"cancel"} ELSE {})

Buttons == SubmitButton \cup StageButtons

-----------------------------------------------------------------------------
NoSheet == [kind |-> "none", item |-> Missing, status |-> Missing, events |-> Missing]

Now == [contract |-> status[id], approvals |-> Len(approvals[id])]

\* What the server would answer to a fetch of q.
Stored(q) ==
  CASE q = "contract" -> status[id]
    [] q = "contract-approvals" -> Len(approvals[id])
    [] q = "line-items" -> items
    [] q = "attachments" -> docs
    [] q = "statements" -> statements

PageTypeOK ==
  /\ TypeOK
  /\ CacheTypeOK
  /\ items \subseteq Items
  /\ docs \subseteq DocTypes
  /\ sheet.kind \in {"none", "addItem", "editItem", "dropItem", "addStatement"}
  /\ \A c, d \in calls : c.request = d.request => c = d
  /\ \A h \in inflight : h.request \in PageRequests =>
        \E c \in calls : c.request = h.request /\ c.state = "busy"

\* An entry is a status with the trail that led to it, the documents filed by
\* then, the user, and the queries another page has left in the cache.
PageInit ==
  /\ row = [c \in Contracts |-> "live"]
  /\ items = FirstItems
  /\ statements = 0
  /\ \E e \in Entries :
       /\ status = [c \in Contracts |-> e.status]
       /\ approvals = [c \in Contracts |-> e.trail]
       /\ signedAt = [c \in Contracts |-> \E i \in DOMAIN e.trail : e.trail[i].to = "signed"]
       /\ docs = e.docs
       /\ user = e.user
       /\ acts = e.acts
       /\ CacheInit(e.warm, [q \in Queries |-> Stored(q)])
  /\ inflight = {}
  /\ sheet = NoSheet
  /\ calls = {}

Act == acts > 0 /\ acts' = acts - 1

-----------------------------------------------------------------------------
(***************************************************************************)
(* The user.  A sheet or a dialog covers the page, so that its buttons are *)
(* out of reach; it stays open whatever the page learns meanwhile.         *)
(***************************************************************************)
Args(what, s, e) == [what |-> what, status |-> s, events |-> e]

Call(m, args) ==
  /\ Act
  /\ \E r \in PageRequests : mutate(r, m, args)
  /\ UNCHANGED backendVars

\* A button of the workflow card.
PressTransition(action) ==
  /\ sheet = NoSheet
  /\ action \in Buttons
  /\ ~ isPending("transition")
  /\ Call("transition", Args(action, shown, events))
  /\ UNCHANGED pageVars

Open(kind, item) ==
  /\ sheet = NoSheet
  /\ sheet' = [kind |-> kind, item |-> item, status |-> shown, events |-> events]
  /\ UNCHANGED <<backendVars, clientVars, user, acts>>

OpenItemSheet(kind, item) ==
  /\ canEdit
  /\ IF kind = "addItem" THEN item = Missing ELSE item \in Rows
  /\ Open(kind, item)

OpenStatementSheet == canCreateStatement /\ Open("addStatement", Missing)

CloseSheet ==
  /\ sheet # NoSheet
  /\ sheet' = NoSheet
  /\ UNCHANGED <<backendVars, clientVars, user, acts>>

\* The form of the sheet, or the question of the dialog, is confirmed.
SubmitSheet ==
  /\ sheet # NoSheet
  /\ ~ isPending(sheet.kind)
  /\ Call(sheet.kind, Args(sheet.item, sheet.status, sheet.events))
  /\ UNCHANGED pageVars

\* A file is chosen for a slot of the documents.  The workflow card offers
\* whoever signs the slot of the signed contract on the same conditions.
Upload(d) ==
  /\ sheet = NoSheet
  /\ effectiveCanEdit(d) /\ canUpload(d)
  /\ ~ isPending("upload")
  /\ Call("upload", Args(d, shown, events))
  /\ UNCHANGED pageVars

\* The bin beside a document; nothing asks back and nothing is disabled.
DeleteDocument(d) ==
  /\ sheet = NoSheet
  /\ d \in Shelf
  /\ effectiveCanEdit(d)
  /\ Call("unfile", Args(d, shown, events))
  /\ UNCHANGED pageVars

-----------------------------------------------------------------------------
(***************************************************************************)
(* The server at work on a call of the page.                               *)
(***************************************************************************)
BeginTransition(c, rule) ==
  /\ c.mutation = "transition" /\ c.state = "sent"
  /\ rule.action = c.args.what
  /\ Transition(c.request, id, user, rule)
  /\ Begun(c)
  /\ UNCHANGED <<items, docs, statements, cacheVars, pageVars, acts>>

\* 409 when no rule leads from the present status, 403 when another has it.
RefuseTransition(c) ==
  /\ c.mutation = "transition" /\ c.state = "sent"
  /\ ~ \E rule \in AllRules :
        rule.from = status[id] /\ rule.action = c.args.what /\ Authorized(user, rule)
  /\ Served(c, "refused")
  /\ UNCHANGED <<backendVars, cacheVars, pageVars, acts>>

EndTransition(c, h) ==
  /\ c.mutation = "transition" /\ h.request = c.request
  /\ \/ applyTransition(h) /\ Served(c, "ok")
     \/ TransitionFailed(h) /\ Served(c, "refused")
  /\ UNCHANGED <<items, docs, statements, cacheVars, pageVars, acts>>

\* The document of the same type is dropped before the limit is asked for.
Filed(d) ==
  LET others == docs \ {d} IN
  IF Cardinality(others) < 3 THEN others \cup {d} ELSE others

\* The other handlers never look at the contract's status.  A new item may be
\* refused by the guard of the budget, and a change of one as well.
ServeEdit(c) ==
  /\ c.state = "sent"
  /\ \/ /\ c.mutation = "addItem"
        /\ \E i \in Items \ items : items' = items \cup {i}
        /\ Served(c, "ok")
        /\ UNCHANGED <<docs, statements>>
     \/ /\ c.mutation = "editItem" /\ c.args.what \in items
        /\ Served(c, "ok")
        /\ UNCHANGED <<items, docs, statements>>
     \/ /\ c.mutation = "dropItem" /\ c.args.what \in items
        /\ items' = items \ {c.args.what}
        /\ Served(c, "ok")
        /\ UNCHANGED <<docs, statements>>
     \/ /\ c.mutation = "upload"
        /\ docs' = Filed(c.args.what)
        /\ Served(c, IF c.args.what \in docs' THEN "ok" ELSE "refused")
        /\ UNCHANGED <<items, statements>>
     \/ /\ c.mutation = "unfile" /\ c.args.what \in docs
        /\ docs' = docs \ {c.args.what}
        /\ Served(c, "ok")
        /\ UNCHANGED <<items, statements>>
     \/ /\ c.mutation = "addStatement"
        /\ statements' = statements + 1
        /\ Served(c, "ok")
        /\ UNCHANGED <<items, docs>>
  /\ UNCHANGED <<vars, cacheVars, pageVars, acts>>

\* 404 for what is gone, 422 for what the budget has no room for.
RefuseEdit(c) ==
  /\ c.state = "sent"
  /\ \/ c.mutation \in {"editItem", "dropItem"} /\ c.args.what \notin items
     \/ c.mutation = "unfile" /\ c.args.what \notin docs
     \/ c.mutation \in {"addItem", "editItem"}
  /\ Served(c, "refused")
  /\ UNCHANGED <<backendVars, cacheVars, pageVars, acts>>

-----------------------------------------------------------------------------
(***************************************************************************)
(* The page hears of its calls.                                            *)
(***************************************************************************)

\* The queries whose answer a mutation changes at the server.
ChangedBy(m) ==
  CASE m = "transition" -> {"contract", "contract-approvals"}
    [] m \in {"addItem", "editItem", "dropItem"} -> {"line-items"}
    [] m \in {"upload", "unfile"} -> {"attachments"}
    [] m = "addStatement" -> {"statements"}

\* Mutant of InvalidatedBy: a transition fetches the contract alone again.
InvalidatedBy_ContractOnly(m) ==
  IF m = "transition" THEN {"contract"} ELSE ChangedBy(m)

\* The queries its onSuccess names.
InvalidatedBy(m) ==
  CASE m = "transition" -> {"contract", "contract-approvals"}
    [] m \in {"addItem", "editItem", "dropItem"} -> {"line-items"}
    [] m \in {"upload", "unfile"} -> {"attachments"}
    [] m = "addStatement" -> {"statements"}

\* onSuccess: the queries, and the sheet of this kind is closed, whichever item
\* it has been opened for since.
onSuccess(c) ==
  /\ c.state = "ok"
  /\ calls' = calls \ {c}
  /\ invalidateQueries(InvalidatedBy(c.mutation), ChangedBy(c.mutation))
  /\ sheet' = IF sheet.kind = c.mutation THEN NoSheet ELSE sheet
  /\ UNCHANGED <<backendVars, user, acts>>

Fault(step) ==
  /\ step
  /\ Act
  /\ UNCHANGED <<backendVars, pageVars>>

Fetching ==
  \E q \in Queries :
    /\ ServerReads(q, Stored(q)) \/ Arrive(q)
    /\ UNCHANGED <<backendVars, pageVars, acts>>

Refocus(q) ==
  /\ Refetch(q)
  /\ Act
  /\ UNCHANGED <<backendVars, pageVars>>

-----------------------------------------------------------------------------
(***************************************************************************)
(* Colleagues, through pages of their own.                                 *)
(***************************************************************************)
ColleagueBegins ==
  /\ Act
  /\ \E r \in Requests \ PageRequests, a \in Actors, rule \in AllRules :
       Transition(r, id, a, rule)
  /\ UNCHANGED <<items, docs, statements, clientVars, pageVars>>

ColleagueEnds(h) ==
  /\ h.request \notin PageRequests
  /\ applyTransition(h)
  /\ UNCHANGED <<items, docs, statements, clientVars, pageVars, acts>>

ColleagueEdits ==
  /\ Act
  /\ \/ /\ \E i \in items : items' = items \ {i}
        /\ UNCHANGED docs
     \/ /\ \E d \in DocTypes : docs' \in {Filed(d), docs \ {d}} \ {docs}
        /\ UNCHANGED items
  /\ UNCHANGED <<vars, statements, clientVars, pageVars>>

PageNext ==
  \/ \E action \in {"submit", "approve", "reject", "sign", "activate", "cancel"} :
       PressTransition(action)
  \/ \E kind \in {"addItem", "editItem", "dropItem"}, item \in Items \cup {Missing} :
       OpenItemSheet(kind, item)
  \/ OpenStatementSheet \/ CloseSheet \/ SubmitSheet
  \/ \E d \in DocTypes : Upload(d) \/ DeleteDocument(d)
  \/ \E c \in calls :
       \/ \E rule \in AllRules : BeginTransition(c, rule)
       \/ \E h \in inflight : EndTransition(c, h)
       \/ RefuseTransition(c) \/ ServeEdit(c) \/ RefuseEdit(c)
       \/ onSuccess(c)
       \/ Refused(c) /\ UNCHANGED <<backendVars, pageVars, acts>>
       \/ Fault(NetworkFails(c))
  \/ Fetching
  \/ \E q \in Queries : Refocus(q) \/ Fault(FetchFails(q))
  \/ ColleagueBegins \/ ColleagueEdits
  \/ \E h \in inflight : ColleagueEnds(h)

PageSpec == PageInit /\ [][PageNext]_allVars

-----------------------------------------------------------------------------
(***************************************************************************)
(* Properties.                                                             *)
(***************************************************************************)

\* The stages at which the user alone may decide by the buttons of the card.
Desks(a) == {s \in APPROVAL_STAGES : s.action = "approve" /\ s.role \in RolesOf[a]}

\* A decision lands on the stage it was made for: the request names an action
\* and no stage, yet a handler that works on a button of this page starts from
\* the status that was on the screen, however old that was.  It holds because
\* no role decides at two stages; cancel, and a user with two desks, are not
\* protected.
DecisionLandsWhereShown ==
  \A c \in calls, h \in inflight :
    (c.request = h.request /\ c.args.what # "cancel" /\ Cardinality(Desks(user)) <= 1)
      => h.rule.from = c.args.status

\* "Editing WBS + docs locked once contract has entered approval or been
\* rejected" and "Statements only make sense on an active contract" are kept by
\* the page alone: an edit that the server carries out in the wrong phase was
\* begun from a view that another actor or a call of the user's had outdated.
LockedEditsAreBlind ==
  [][ \A c \in calls : ServeEdit(c) =>
        LET seen  == [contract |-> c.args.status, approvals |-> c.args.events]
            Draft == [contract |-> "draft", approvals |-> 0]
        IN \/ seen # Now
           \/ c.mutation = "addStatement" /\ status[id] = "active"
           \/ c.mutation # "addStatement" /\ Now = Draft
           \/ /\ c.args.what = "signed_contract"
              /\ status[id] \in {"ready_to_print", "signed"} ]_allVars

=============================================================================
