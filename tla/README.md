# ContractLedger (PayStruct): specifications, model checking and proofs

ContractLedger keeps construction contracts and the periodic payment
certificates ("interim statements") issued under them.  The backend is a Go
program (Fiber, GORM, PostgreSQL) under `src/backend`; a Next.js frontend under
`src/frontend` calls it, and decides in each browser from data it has cached.
Money moves on the strength of two sign-off chains, the approval of a contract and
the review of a statement, and of a set of cached sums.  This directory holds TLA+
models of those parts, TLC configurations that check them on small instances, and
TLAPS proofs for every value of the constants.

`S/` stands for `src/backend/internal/services/` below, `W/` for `src/frontend/src/`.

## 1. Inventory

The backend keeps all state in PostgreSQL (and attachments on disk).  There is no
in-process shared state, no queue and no background job: concurrency is that of
HTTP requests, each on a goroutine of its own, over one database at its default
isolation level, READ COMMITTED.  Components interact only through rows.  What
makes that hard is the same everywhere:

* a service method *reads a row, decides, and writes by primary key*; a lock
  (`FOR UPDATE`) is taken in one place only, `StatementService.Create`;
* `Updates` on a row that is gone matches nothing and is no error; `Save` on a row
  that is gone inserts it again;
* deletion is soft (`deleted_at`), queries through GORM skip deleted rows, while
  raw SQL and most unique indexes count them;
* `ApprovalEvent` rows are the only record of who approved what.

The web client has one thread in each tab, and three sources of trouble: it shows and
decides from a cache that is old as soon as it arrives; a call that was given up (a
closed sheet, a lost connection, another session) goes on at the server and its
callbacks still run; and one user action may be many calls that nothing undoes
together.

| Component | State | Operations | Hard behaviour | Correct when |
|---|---|---|---|---|
| Contract approval (`S/contracts_service.go:883-1011`) | `contracts.status`, `signed_at`, `approval_events` | `Transition` (submit, approve, reject, sign, activate, cancel) | read outside, write inside a transaction, unguarded UPDATE; chain restarts after a rejection | no head's stage is skipped; trail = history of the status; cancelled is final; a rejection voids the round |
| Contract records (`:617-877`) | rest of the contract row | `Create`, `Update` (also writes any status), `Delete` (any status), numbering `nextContractNo` | two creations take one number; PUT of a status during a transition | numbers unique; only drafts deleted (docs) |
| WBS line items (`:1062-1222`) | `contract_line_items` | create, update, delete with a budget guard | check-then-insert; deleted rows counted; budget lowered later | live items never exceed the budget; an item that fits is accepted |
| Statement review (`S/statement_service.go:620-702, 762-781`) | `interim_statements.status`, `approval_events` | `Transition`, `Delete` | read and write in one transaction, but neither locked nor repeated; delete racing a submission | no reviewer skipped; decisions final; only drafts deleted; trail = history |
| Statement items and aggregates (`:189-604`, `models/statement.go`) | three item tables, nine cached columns | six edits, `Recompute` | partial write-back; stale preloads; soft-deleted line numbers | cached columns = what the live items give; frozen once submitted |
| Statement creation (`:78-143`) | `sequence_no`, `prev_progress_pct` | `Create` | row lock on the contract; number of a deleted draft | numbers consecutive and unique; previous progress is the predecessor's |
| Attachments (`S/attachment_service.go`) | `attachments`, files on disk | upload (with replacement), delete | two resources without a transaction; count-then-insert | at most three; a live row has its file |
| Employees, administrators (`S/user_service.go`) | `employees` | create, update, delete, sign-in | count-then-delete of the last administrator; roles unvalidated in update | an administrator always remains |
| Companies (`S/company_service.go`) | `companies` | create, update, delete with employees | whole-row `Save` of a stale read; cascade past the administrator guard | no lost update; as above |
| Bootstrap (`database/*.go`, `models/migrate.go`) | - | connect, migrate, seed | restart after the sudoer was deleted | the process comes up again |
| Authentication, route guards (`middlewares/`) | token claims | `Authenticate`, `RequireAnyRole` | roles as of the sign-in; deleted principals | only entitled callers act |
| Projects, contractors, consultants | their tables | create, list, update, delete, each with a company scope of its own | deletion of a parent with live children; blank fields that are not sent | a row keeps what nobody changed |
| Report | - | spreadsheet of one statement | none (reads) | layout |
| Web: creation sheet (`W/components/domain/CreateContractSheet.tsx`) | form of five steps, WBS rows, files, mutation | open, fill, next, back, submit: one call for the contract, one for each row and file | failure half-way; sheet closed and opened again under a running mutation; colleague on the new contract | what is announced as created is complete; no opening succeeds twice |
| Web: contract page (`W/app/(dashboard)/contracts/[id]/page.tsx`) | five cached queries, open sheet, calls | the buttons of the workflow, items, documents, new statement | decisions from an outdated view; late and lost answers | a decision lands on the stage that was shown; own changes appear |
| Web: statement page (`.../statements/[sid]/page.tsx`) | cached statement, typed quantities, one form for deductions, confirmation | save the table, deductions, extra works, settings, transitions | a table replaced as a whole from a stale copy; a form shared by several rows | untyped rows keep their value; no deduction gets another's |
| Web: list pages (employees, companies, contractors, consultants, projects, contracts) | page, filter, sheets, cached list, calls | list, filter, turn page, create, edit, delete, change a status | rows deleted under a pager; forms answered late; two users in one tab | requests speak of the row they name; no page behind the last |
| Web: session (`W/lib/stores/auth.ts`, `W/lib/api/client.ts`) | user, token, query cache above the pages | sign in, log out, refused token | fetches and cache that outlive a session | nobody sees what another one fetched |
| Web: dashboard, reports, profile, detail pages | queries | show | none of their own | layout |

The tests of the repository are empty files, so nothing here is covered by one.
`PROJECT.json` lists every component with its status and every hazard at its line.

## 2. The models

| Module | Models | Built from |
|---|---|---|
| `ContractApproval` | contract rows, their trail, transition handlers in flight | - |
| `ContractHistory` | the same workflow, with a record of what was overtaken or written by hand | `ContractApproval` |
| `ApprovalRound` | what the chain promises: rounds and sign-offs | - |
| `ContractRounds` | the refinement mapping between the two | `ContractHistory`, INSTANCE `ApprovalRound` |
| `MCContractApproval` | actors, roles and statuses for TLC | `ContractRounds` |
| `StatementMath` | `Recompute` as a function | - |
| `StatementApproval` | row, status, trail and reviews in flight of one statement | - |
| `StatementLedger` | the statement with its items, cached columns and edits in flight | both |
| `LedgerHistory` | the same, with a record of what was outdated or overtaken | `StatementLedger` |
| `MCStatementLedger` | staff, rates and amounts for TLC | `LedgerHistory` |
| `SumFacts` | lemmas about sums over finite sets | `FiniteSetsExt`, TLAPS |
| `ReviewProofs` | theorems | `StatementApproval`, TLAPS |
| `StatementProofs` | theorems | `LedgerHistory`, `ReviewProofs`, `SumFacts` |
| `StatementNumbering` | statements of one contract, their numbers, creations in flight | - |
| `NumberingProofs` | theorems | `StatementNumbering`, TLAPS |
| `ApiCalls` | calls of a client, and how far the server is with them | - |
| `ContractItems` | line items, budget guard, handlers in flight | `ApiCalls` |
| `ContractDocuments` | rows and files of attachments, handlers in flight, faults | `ApiCalls` |
| `CreateContractSheet` | the creation sheet and its mutation, over items and documents | `ContractItems`, `ContractDocuments` |
| `MCContractSheet` | rows and forms for TLC | `CreateContractSheet` |
| `SheetProofs` | theorems about the sheet, the items and the documents | `CreateContractSheet`, `SumFacts` |
| `PageClient` | query cache and mutations of a page | - |
| `ContractPage` | the contract page over the approval workflow | `ContractApproval`, `PageClient` |
| `StatementPage` | the statement page over the review workflow | `StatementApproval`, `PageClient` |
| `MCContractPage`, `MCStatementPage` | the situations in which a page is entered | the page |
| `ContractProofs` | theorems about the workflow, its refinement and the page | `ContractRounds`, `ContractPage`, TLAPS |
| `StatementPageProofs` | theorems | `StatementPage`, `ReviewProofs` |
| `Session` | who is signed in, and what becomes of the cache | `PageClient` |
| `ListForm` | inputs, and what a form makes of blank ones | - |
| `EmployeesPage`, `CompaniesPage`, `ContractorsPage`, `ConsultantsPage`, `ProjectsPage`, `ContractsPage` | form, request, buttons and scopes of one page | `ListForm` |
| `ListPage` | what the six pages share, and the rows of the server | `Session`, INSTANCE of the six |
| `MCOffice` | users, rows and situations for TLC | `ListPage` |
| `OfficeProofs` | theorems | `ListPage`, `SumFacts` |

### ContractApproval

`row`, `status`, `signedAt` and `approvals` are the row's liveness, two of its
columns and its approval events in order of insertion.  A request to
`POST /contracts/:id/transition` is two actions: `Transition` (the read at
`S/contracts_service.go:945`, the rule, the roles) puts a record into `inflight`,
`applyTransition` (the transaction at `:995`) takes it out; `TransitionFailed` is a
rolled-back transaction or a process that stops in between.  Between the two, any
other action may happen.  `contractStateMachine` is the Go map as a set of rules;
`CancelRules` is the special case at `:953`.  `Create`, `Update` and `Delete` are the
other writers of the columns; each is one action because its write does not depend
on what it read.  Answers that change nothing (403, 404, 409) are steps that are not
taken.

`WrittenStatuses` says which statuses POST and PUT bodies carry.  The code accepts
all of them, and the edit form of the contracts list sends one every time; the theorems
hold for any such set.

Neither overlapping handlers nor written statuses are prevented by the code, so no guarantee
of the chain holds without an exception.  `ContractHistory` names the exceptions.  Its variables
change no step of the workflow (`HistoryIsWorkflow` is the proof): a handler in flight is `overtaken` when
the trail or the status of its contract changed after it read the row; a contract has `strayed` when
an overtaken handler committed or a body gave it another status than it had; it is `overridden`
when the status a body gave it stands for an approval that is not in its trail.  Each
property then says that one of these, and nothing else, breaks the guarantee.
`ApprovalRound` has a phase of its own for a contract that strayed (`astray`), for which the chain
promises nothing.

### StatementApproval and StatementLedger

One statement: two statements share no row these operations read or write.
`Transition` and `Delete` again have a step that reads and a step that writes
(`CommitTransition`, `CommitDelete`).  `Transition` does both in one transaction, but
at READ COMMITTED another transaction may commit between its SELECT and its UPDATE.
`CommitTransition` records the new status as `from`: GORM's `Updates` with a map
assigns the new value to the struct before `FromStatus: string(stmt.Status)` is
evaluated.

An edit has three steps: `BeginEdit` (statement read, draft required, named row
found), `ComputeEdit` (line number taken or row changed under its lock, items read
again by the operations that do, `Recompute` run) and `CommitEdit` (item and the
columns `Persisted` names are visible to others), or `EditFailed`.  The differences
between the six operations are operators over the kind of the edit: what is
preloaded, what is summed, which columns are stored, which unique index refuses.
`works` holds only live items; `worksLines` remembers that rows with those line
numbers exist even when soft-deleted, since the unique index counts them.

`LedgerHistory` adds a record of the overlaps, as `ContractHistory` does: a request is `outdated`
when a transition or a deletion committed after it read the statement, an edit is
`overtaken` when another edit committed after it last read the items; the review has
`strayed` when an outdated transition or deletion committed, the sums have `drifted` when an
overtaken edit did.  An edit that preloads nothing reads the items under the lock of its row
(`ComputeEdit`) and is not overtaken by what was committed before.

### StatementNumbering

All statements of one contract, each known by its number.  `Create` is one transaction
in four actions: `Begin` (the request arrives), `Lock` (SELECT ... FOR UPDATE on the
contract), `Number` (the highest live number plus 1) and `Insert`, or `Refused` when the
unique index holds the number already, `NotFound` when the contract is gone,
`Failed` when the transaction is rolled back for any other reason.  A creation is past
the lock (`HoldsLock`) until it ends.  `DeleteContract` updates the locked row, so it
waits for the lock as the creations do; `DeleteStatement` does not touch it.  The module stands
beside `StatementLedger` rather than under it: there one statement is followed through
its life, here all of them only as live or deleted.  Any live statement may be
deleted here, because a deletion that found a draft may commit after its submission.
`MaxNo` bounds the numbers: no creation is begun that could need a higher one.

### ContractItems, ContractDocuments and CreateContractSheet

`answer` says of every call whether it is free, at work or answered; a client that has
given up never takes the answer, which `Discard` then frees.  `CheckLineItem` is the
first half of `CreateLineItem` (contract read, raw SUM that counts deleted rows, the
guard of the budget), `WriteItem` the INSERT; `BeginAmendment`, `CheckAmendment` and
`WriteItem` are `UpdateLineItem`.  The code drops the error of the raw SUM (`:1098`, `:1183`) and
goes on with a sum of 0, and `UpdateLineItem` leaves the guard out when the contract
cannot be read: `GuardReads` says which queries are answered, and `blind[c]` counts the guards of a
contract that missed one.  A price is a pair: what a call asks for (`sent`), which the guard
sees with every digit, and what the columns `numeric(20,4)` and `numeric(20,8)` keep of it (`stored`),
which is what later sums add up.  An upload stops at three places: the file of the
document it replaces is gone and its row is not (`unlink`), the place has not been
counted (`count`), the new file is there without its row (`insert`).  `FailDrop` is the
soft delete whose error `Upload` ignores, `CrashFiling` the process that dies.

The sheet is its five steps (`step`), the fields that are validated together, the WBS
rows and the chosen files.  `Errors` is the Zod schema, `CanLeave` what `goNext` checks of
a step.  The schema looks at a management fee whatever the type, and at a fee method that was
shown once, so either can refuse a step that does not show it.  `Submit` sends the contract;
`Resume`, `SendItem`, `SendFile`, `onSuccess` and
`onError` are the awaits of `mutationFn`, one call after the other.  The handler of a lost
call goes on (`NetworkFails`), and a closed sheet's mutation goes on as well.  Any call may be
refused, the first one too (`RefuseContract`).  A quantity
that was emptied counts as 0 in the sheet's total and is sent as 1, as the code does.
Numbers count the smallest digit that is typed; `Kept` rounds them to a column's last digit
(`QuantityUnit`, `RateUnit`, `BudgetUnit`), and `DoubleOf` and `DoubleTotal` stand for what `parseFloat` and the
sheet's addition make of them.

### PageClient, ContractPage and StatementPage

`PageClient` is TanStack Query as the pages use it: `cache[q]`, a fetch that the server
answers at some moment (`ServerReads`) and that arrives at another (`Arrive`), the
invalidation of `onSuccess`, and mutations.  The library is not part of the repository;
the map gives its definitions as external or at the lines that call it.  A fetch under way is given up
when the query is invalidated, except the very first one, which the invalidation joins:
what it had read may be too old, and `excused` remembers that case.

On either page a call carries what was on the screen when it was made (`args`), the
server decides from its own rows with the steps of `ContractApproval` or
`StatementApproval`, and colleagues run the same steps from elsewhere.  The handlers of
items, documents and statements take one step here, since their races are in the
modules of their own.

The table of quantities of the statement page is a copy, `worksDoneMap`.  No effect loads it: the first
quantity that is typed fills it from the statement that is shown at that moment
(`initWorksDoneMap`, `statements/[sid]/page.tsx:160, 511`), and `basis` remembers what that was.  The
server replaces the whole table by what is sent, but for the rows whose WBS line item was
deleted meanwhile, which it skips (`StoredOf`, `S/statement_service.go:234`): `gone` has those.

### Session and ListPage

The six list pages are built alike, so `ListPage` has their common control, once, and a
module for each page has what the page does in its own way: defaults, inputs, schema, the
request a form becomes, who sees which button, and whom the server lists, lets write, or
refuses.  The differences matter: contractors, employees and contracts leave blank
fields out of a request (the server then keeps the old value), consultants and projects
send them, but for a consultant's rating; contractors and consultants send a blank currency as
IRR; projects and contracts have no scope of a company in `Update` and `Delete`.
Filters are a search and, for those who see several companies, a company; either resets the pager.

The rows of the server are `live` and `store`.  Creations and updates take one step;
`DeleteEmployee` takes two, `BeginDelete` (the count of administrators) and `EndDelete`.
`Answer` is the listing of a page of the rows, newest first, with the total.
`TurnPage` is the pager, which is hidden when everything fits on one page.  A sheet that
is open covers the page.

`Session` keeps whose token a fetch carries (`asker`).  `Logout` is the button: token and
user go, the cache and what is under way stay, and the login page is pushed.
`TokenRefused` loads the document again, whoever is signed in by then, and everything in
memory is lost.  `Login` enters the page with whatever the cache has.

### Abstractions

* Amounts are integers, of any sign.  In the statement, with amounts that are multiples of 10000
  every division by basis points is exact, as the decimals of the code are to eight digits.
* The server accepts negative quantities and rates.  The rows of the form have none, so no run
  does; `BudgetWithinBound` is proved for prices in `Int`.
* A PUT of the quantity or of the rate of a line item alone is left out: an amendment carries
  its new amount.  A body that cannot be read, or a contract that cannot, ends as a call that the network
  loses; the sheet makes no difference between them.
* The rates of the contract do not change between two edits of a statement.
* `AdvanceOutstanding` is what `SetWorksDone` sums over `advance_payment_records`;
  nothing in the backend writes that table, so the runs use 0.
* Work-done inputs are the lists of amounts left after the code has skipped items
  with an unknown WBS item or a quantity that is not positive.
* A comment is there when one is required; the row number of a deduction is left
  out, since no index and no decision uses it.
* A deduction update carries the amount it leads to.
* The roles `pm` and `director` of `validTransitions` are not in `enums.go`.
  `CreateEmployee` refuses them; `UpdateEmployee` stores any string, so PUT
  `/users/employees/:id` is the way an employee gets them.

* On the web pages a field is blank, typed, or a choice: texts are told apart by nothing
  else.  Comments, dates, viewer and download, and the columns of the lists are left out.
* A manager's company stands for it and its subsidiaries.  Unique e-mail addresses,
  identity numbers and project codes are left out, so no creation is refused for them.
* The list of contractors also shows those of a parent company; that row is left out.
* On the list pages the handlers of create and update take one step.
* The second tab, the cookie of the proxy, and a reload by hand are left out.

Bounds: `MaxEvents` limits the trail on which a transition is begun; `Lines` and
`Deductions` limit the rows ever added; `Requests` is the number of requests that
overlap.  On the web pages `Entries` says in which situation a page is entered and `acts`
how many steps of users, colleagues and faults follow; `MaxOpenings`, `MaxRows`,
`MaxColleague`, `MaxFaults`, `MaxBlind` and `MaxChanges` bound the creation sheet, `Ids` the rows ever
made on a list page.

## 3. The runs

| Run | Instance | Shows |
|---|---|---|
| `ContractRound` | 1 contract, 3 actors with alternate desks, 2 overlapping requests, no status written, 6 events | `HistoryTypeOK`; `ImplementsRound`: until it strays, the code's chain is a chain of rounds in which a rejection voids the sign-offs |
| `ContractRace` | as above, with PUT and POST of draft, pending_finance and ready_to_print, 3 events | `NoStageSkippedUnlessWritten`, `SignedAtMatchesTrail`, `TrailExactUnlessStrayed`, `CancelIsFinalUnlessRaced`: what overlapping requests and written statuses can break, and only they |
| `ContractTrailRace` | as above without PUT, 4 events | `AuditTrailExact` is **violated** by two overlapping requests |
| `LedgerRace` | 2 overlapping requests, an employee who may do it all, rates, 2 amounts, lists of up to 1 item, 1 extra work, 1 deduction, 5 events | `LedgerTypeOK`; `SumsAreCurrentUnlessDrifted`; `TrailFollowsTableUnlessStrayed`; `OnlyDraftsDeletedUnlessStrayed`; `SubmittedIsFrozenUnlessRaced`; `DecisionIsFinalUnlessRaced`: each guarantee and the one overlap that loses it |
| `StatementFromStatus` | 1 request | `TrailNamesPrevious` is **violated** by the first transition |
| `LedgerNetDrift` | 1 request, contract with rates | `NetAddsUp` is **violated** |
| `LedgerReplaceRefused` | 1 request | `NoEditRefused` is **violated** |
| `Numbering` | 3 overlapping creations, 6 numbers | `NumbersAreConsecutive`; `NoLiveNumberClaimed`; `CreatedUnderLiveContract`; `EveryCreationEnds`; and, of a defect, `DeletionBlocksForGood` |
| `ContractSheet` | 2 contracts, 5 items, 4 keys, 1 colleague's call, 1 fault, 1 guard without its sum, 2 openings, columns that round a rate up | `TypeOK`; `StepsCoverSchema`, `OnlyTheFeeTraps`: where the steps of the form and its schema part; `OneSuccessPerOpening`; `SuccessIsComplete`; `SubmissionSettles`; `NoSurpriseRefusal`: when the sheet's total is not the server's; `BudgetOverrunBounded`, `TornBounded`: what unlocked guards are worth; `DocumentsSpec`: the composition is a behaviour of the documents alone |
| `ContractPage` | 8 entries, 2 calls of the page and 1 of a colleague | `PageTypeOK`; `DecisionLandsWhereShown`; `OwnChangesComing`; `LockedEditsAreBlind`: locks that only the page has fail for outdated views alone |
| `StatementPage` | 7 entries, 2 calls of the page and 1 of a colleague, 2 line items, 3 deductions, amounts 0 and 1 | `NoReviewSkipped`: overlapping decisions skip nobody; `DecisionLandsWhereShown`; `UntypedQuantitiesKept`; `DeductionsKeepTheirRow` |
| `Office` | 4 users, up to 4 rows on pages of 2, 1 open call, entries for each of the six pages | `OfficeTypeOK`; `RequestsKeepTheirRow`; `EmptyPageMeansRemoval`; `ShownRowsAreOwn`; `LastAdministratorStays` |

Why the bounds are enough.  In `ContractRound` six events are a full approval and its signing
(submit, four approvals, sign), with a second handler holding any earlier read, or a
round that is rejected and begun again; the actors are paired so that nobody sits at two
consecutive desks, which is the least that makes a skipped stage visible.  In `ContractRace` the written
statuses, one from the start, the middle and the end of the chain, put a contract anywhere in it, so
that three events reach every stage and a signing, and leave a transition to overtake and
one to be overtaken.  Five events are the longest review (submit to approved).  In `LedgerRace` one work
done, one extra work and one deduction live at the same time tell the three sums apart, two
amounts a stale one from a current one, and two requests are the least that one of them
can be overtaken.  These runs use symmetry over request identities, which are only compared; the
action properties and the refinement do not depend on which identity a request has.  In `Numbering` one creation
can hold the lock while two wait, so a waiter can be passed over, and six numbers let
statements be created, deleted and created over again.  In `ContractSheet` two contracts
are a failed attempt and its repetition, or two openings; the colleague's one call can fall
between any two calls of the mutation, and the fault between any two steps of a handler.
The entries of `ContractPage` and `StatementPage` are the stages of both workflows with a user who has a desk
there, one who has two, and a cache with one query still missing; two calls of the page and
one of a colleague let a view grow old before, between and after the two steps of a handler.
In `Office` two rows a page and four ids give a second page that deletions
can empty; two edits in a row let a late answer meet the sheet of another row; the entries
with `session` let one user's fetch, call or cache meet the next user's.  Each entry names the
parts of the page that are used (`uses`), which keeps the parts apart that do not touch.

`CHECK_DEADLOCK FALSE` is set everywhere: when every contract is deleted, or the trail
has reached its bound, nothing is left to do.

Fairness is assumed in `StatementNumbering` and `CreateContractSheet`, of the steps that code or database
take on their own.  Each request has a goroutine that the scheduler does not starve:
weak fairness of `Number`, `Insert`, `Refused` and `NotFound` for each request.
PostgreSQL queues the waiters for a row lock, so one that finds the lock free again and
again gets it: strong fairness of `Lock` for each request.  No request, deletion or
failure is assumed to happen.  `EveryCreationEnds` says that this is enough for every
waiter to be answered.  In `CreateContractSheet` the loop of the mutation, the running
handlers and the disposal of answers nobody waits for are weakly fair: an `await` that is
resolved continues, a handler that is scheduled ends, and a process that dies breaks its
connections off (`CrashFiling` answers).  `SubmissionSettles` needs no fairness of users,
colleagues or the network.  Elsewhere nothing is bound to happen: a contract waits for a
head until that head acts, a request may be lost with its process, and there is no
retry, timer or job.  Those specifications are `Init /\ [][Next]_vars`.

The exceptions in the properties of `ContractRace` and `LedgerRace` are reached: without its condition
each of these properties fails in its run.  The shortest cases are an approval that had read the status
before a cancellation and overwrites it, a submission between the two statements of
`Delete` or between an edit's read and its commit, and two edits that preload the same items,
each of which leaves out the other's.

Sizes, with two workers: `ContractRound` 675,448 distinct states in 22 s, `ContractRace` 336,148 in 12 s,
`LedgerRace` 2,728,102 in about two minutes, `ContractSheet` 862,674 in about three, `Office` 667,382 in
one and a half; the others are smaller.

## 4. The proofs

The theorems hold for any sets of contracts, actors, roles, requests, amounts, lines, rows,
files, deductions, document types and users, any statuses in POST and PUT bodies, any number of
overlapping requests, any rates, page sizes and bounds, and any arithmetic of doubles.  They use the
assumptions the modules name, which TLC evaluates in every run: constants have their types
(roles of actors, rates, bounds in `Nat`, digits of a column positive), there are finitely many prices and calls,
the situations in which a page is entered are states its workflow can be in (the stages behind
their status are signed off in their trail: `EntriesAreEarned`), what has not
been loaded (`Missing`) is no number, queries are what a page asks for, ids and users
are distinct from the marks for nobody and nothing, and the rows a list page is entered with
are finitely many, with ids that were given out in order and the fields of their kind.
No theorem assumes that requests come one at a time or what a body says.

* `HistoryTypeCorrect`, `ReviewTypeCorrect`: type invariants, inductive as they are.
* `ChainIsSound` (`HistorySpec => []NoStageSkippedUnlessWritten`).  The invariant alone
  is not inductive: a handler may commit a move out of a status the contract left
  long ago.  The strengthening `EarnedAt` adds, for a contract that was not overridden, that
  the status each handler in flight *read* was earned, and that its actor holds the role of its rule;
  trails only grow (`SignedOffIsStable`), so this stays true, and a rule adds at
  most the approval of its own role (`OneApprovalPerRule`).
* `StampIsSound`: `SignedAtMatchesTrail` with `BlankUntilCreated` (an absent row has
  no event, no stamp and no handler).
* `TrailIsExact`, `CancelledStaysCancelled`: from `TrailInv`, which adds to the property what
  being overtaken means (`FreshRead`): a handler that was not has read the status of now, and
  on a contract that has not strayed this is the end of the trail.  A commit overtakes every
  other handler on its contract (`CommitOvertakes`), for which requests must be told apart
  (`RequestsDiffer`).  No rule leaves `cancelled` (`NoRuleLeavesCancelled`), so whoever does read before.
* `ApprovalImplementsRound` (`HistorySpec => ImplementsRound`),
  from `RoundInv`: while a round is in progress, the heads whose sign-off follows the last
  submission in the trail are exactly those the status stands for.  A submission
  empties that set (`SignedAfter`), an approval adds the one head of its desk (`RuleSigns`), so the
  count of sign-offs is a function of the status (`CountsBefore`), and each rule maps to the one
  step of `ApprovalRound` it stands for (`AppliedMaps`), or to `Stray` when it was overtaken
  (`StrayMaps`).  `TrailInv` is what makes the rule of the others one of the status of now.
* `ReviewIsSound`: the same argument as `ChainIsSound` for the statement (`EarnedInv`),
  for any overlap.
* `LedgerImplementsReview` (`LedgerSpec => ImplementsReview`): every step of `StatementLedger`, with any
  overlap, is a step of `StatementApproval` or leaves its variables alone; `LedgerReviewIsSound` combines the
  two.
* `TrailIsAPath`, `OnlyDraftsAreDeleted`, `DecisionsAreFinal`, `SubmittedStaysFrozen`: from
  `StrayInv`, which adds `StatusRead`: a request that is not outdated, review or edit, sees the row
  live and the status it read, which is a draft for an edit and a deletion.
* `LedgerTypeCorrect`, `CachedSumsAreCurrent` (`HistorySpec => []SumsAreCurrentUnlessDrifted`).
  `ItemsRead` says that sums an edit has preloaded are those of the rows unless it was overtaken, and that
  a result that was computed is then `Recompute` of what the sums will be after the commit
  (`CommitMakesTheSums`).  That this is so rests on the line of
  a new extra work being free, or the commit refused, and on the key of a deduction
  being held by the handler that adds it (`KeysHeld`).
* *Sums.*  `SumFunction` of the community modules is recursive.  `SumFacts` shows that it has
  the equations of a sum, does not depend on the order in which `CHOOSE` takes the indices, and
  what it does when one term comes, goes or changes (`SumMoved`), or all
  grow (`SumMonotone`).  These are proofs by a minimal counterexample (`MinimalSubset`), for which the
  library's theorem that strict inclusion on the subsets of a finite set is well-founded is enough:
  induction itself is a schema the provers cannot instantiate.
* `NumbersHaveNoGap`: a number taken by a creation may be stale when it is inserted,
  but the number before it stays in the table, since rows are only marked as deleted
  (`PresentGrows`, `TakenAfterPresent`).
* `LockPreventsClaims`, `NoOrphanIsCreated`: from `LockInv`: one creation is past the lock,
  the contract is live while there is one, and the number it took is above every live
  one.  Deletions only lower the highest live number, so this is inductive.
* `BlockedForGood`: the state in which the newest number is a deleted statement's is
  closed under every step.
* `DocumentsTypeCorrect`, `DocumentsWithinBound`, `TornWithinBound`.  The bound on documents
  is not inductive by itself: an upload that has counted will insert.  `DocumentsBounded`
  counts rows and uploads at `insert` together, and the guard was true when the last of them
  counted; `OneHandlerPerCall` bounds the others by the calls.  `TornBounded` rests on `KeysInv`
  (which side of its key each handler has changed) and on a fault leaving at most one torn
  key for each open call.
* `SheetTypeCorrect`, `SheetImplementsDocuments` (`Spec => DocumentsSpec`), `SheetKeepsDocuments`.
  Every step of the composed system is a step of the backend that is told which call it is
  for (`BackendStep`), which is a step of the documents or leaves them alone; the
  theorems on documents carry over by the refinement.
* `BudgetWithinBound` (`Spec => []BudgetOverrunBounded`).  What a handler past the guard will
  add is its gain, and the handlers that can add up are those for different rows (`Apart`):
  of two updates of one row the second replaces the first.  `DueBounded` bounds the
  stored sum with the gains of any such set by the budget, what the columns round up of one price
  (`Rounding`), and the distance of two amounts (`Span`) for each call but one and each guard
  that missed a query.  It is kept because of `LastBegun`: while every call has a handler no row is written,
  so the last of them to begin knew the row it amends and what it read of the sum, unless its guard
  was one of those that missed a query (`LetPass`).  Amounts may be negative: the distance of the
  extremes, 0 among them, bounds what a creation or an amendment adds (`GainAtMost`), and a
  deletion changes nothing, since deleted rows are counted.
* `StepsCover`, `OnlyFeeTraps`, from `FormInv`: the fields of a step that was left stay valid
  behind the user, since they can be changed on that step alone; and on the second step a cost plus
  contract has a fee method, if only the empty one its select begins with.
* `OneSuccess`, from `SuccessInv`: after a success the sheet is closed or belongs to a later opening.
  `SuccessComplete`, from `SentInv`: each row that the loop has passed is stored, or is in the
  hands of the handler of the awaited call, or that call is refused.
* `RefusalsAreExplained` (`Spec => NoSurpriseRefusal`), from `RowsOnce` and `TotalWithinBudget`: rows
  stored and rows on their way to the contract of a submission come from different rows
  of its form, so the sum the server reads is at most the form's total, which
  was within the budget when the form was sent: as far as its doubles tell, and if no column
  rounds a row up or the budget down.  The rest is what the property excepts.
* `OwnChangesCome` (`PageSpec => []OwnChangesComing`), inductive with the types of the cache
  (`CacheInv`): an invalidation fetches a query anew or finds its first fetch under way
  (`InvalidationComes`), and only a failed or outdated answer ends a fetch without the change.
* `DecisionsLandOnTheirStage` (`PageSpec => []DecisionLandsWhereShown`), from `CallsInv`: a
  handler with the identity of a call of the page works for the user on the action of
  that call, and each call was offered by the status shown.  With one desk at most
  (`OneDesk`) an offered action has one status it can lead from (`RuleOfOffer`), so a handler
  that was let in starts from the status shown, whatever happened in between.
* `LockedEditsAreMadeBlind`, `PageTypeCorrect` of the contract page, from `ViewInv`: each call and
  each open sheet was made under a status and a list of approvals that allow it
  (`EditView`), so an edit the server makes of a locked contract was made from another view than the
  present one.  Every step of the page is a step of the workflow or leaves it alone
  (`PageTakesWorkflowSteps`), which gives the types of the backend from `TypesKept`.
* `PageSkipsNoStage` (`PageSpec => []NoStageSkipped`, which no run states) and `PageSkipsNoReview`
  (`PageSpec => []NoReviewSkipped`): the same correspondence of steps carries the invariant of
  `ChainIsSound` and `ReviewIsSound` over to the pages (`EarnedStep` of each chain), where handlers
  are begun from views that are old, those of colleagues included.  No step of the contract
  page is a PUT of its status, so nothing is excepted there.
* The statement page: `PageTypeCorrect`, `OwnChangesCome`, `DecisionsLandOnTheirStage`,
  `UntypedRowsAreKept` and `RowsOfDeductionsAreKept`, from `PageInv`.  `FormInv` says that the table
  agrees with what its typing started from outside the typed rows, and that the form and what a
  reset would put into it carry the row of the sheet that is open for an
  update; `CallsInv` says the same of the calls that were made from them.  Rows whose line
  item was deleted meanwhile are excepted: a save loses them, typed or not.
* `CacheIsOwn` (`ListSpec => []ShownRowsAreOwn`), from `OwnInv`: unless the cache was handed
  over by the button, everything in it, on its way to it or asked for is the present user's,
  and the login page is over an empty cache.  The property alone says nothing of fetches under
  way, which is why it is not inductive.
* `LastAdministratorGoesOvertaken` (`ListSpec => LastAdministratorStays`), from `CountedInv`: a
  deletion past its guard that counted the employee it deletes among the administrators
  counted another one too.  If the last one goes nevertheless, that other one has
  been removed or has lost the role since.
* `RequestsKeepToTheirRow` (`ListSpec => []RequestsKeepTheirRow`), along the way a value takes
  through the six pages.  `RowsInv`: every row of the server, on its way or shown has the
  fields its forms are filled from.  `SheetsInv`: outside the typed fields an open form
  agrees with its row, or with the defaults (`Agrees`).  `CallsOfPage`: a call keeps what its
  form said, whatever the form is filled with later (`GoOn`).  `OfficeTypeCorrect` follows from the
  conjunction of all these, `OfficeInv`.  A blank currency is the exception the property names: the
  pages of contractors and consultants send IRR for it (`SameCurrency`).
* `EmptyPagesLostARow` (`ListSpec => []EmptyPageMeansRemoval`), from `PagerInv`: until a list has lost
  a row, the page that is shown or asked for is `Reached` by the rows the server has *now*, and an
  answer, kept or on its way, is `Fair`: it counts no more than these and is not empty if it
  counts any.  Both outlive every step because lists only grow (`SizesGrow`).  That a page
  that is reached has a row rests on `EveryRank`: in a finite ordered set there is
  one member of every rank.

Only model-checked are the two liveness properties, `EveryCreationEnds` and
`SubmissionSettles`: fairness is stated with ENABLED, which this version of TLAPS does
not handle.  Every other property of a passing run is stated by a theorem.  The properties that a run expects to be violated
are refuted by TLC's counterexample alone.

## 5. Findings

Each is a run or a plain reading of a line; `PROJECT.json` quotes the documents.

1. Overlapping contract transitions overwrite one another and fork the trail
   (`S/contracts_service.go:945-1002`; run `ContractTrailRace`).
2. `from_status` of every statement event is the new status
   (`S/statement_service.go:667-675`; run `StatementFromStatus`).
3. Five of six edits store two of nine columns: the stored net is not the sum of the
   stored parts (`:359, :411, :471, :545, :598`; run `LedgerNetDrift`).
4. Replacing the works done a second time, and adding an extra work after the last was
   deleted, answers 409 for ever (`models/statement.go:112-131`; run
   `LedgerReplaceRefused`).
5. `sequence_no` is the highest live number plus one while its unique index counts
   deleted statements: after the newest draft was deleted, no statement of the contract
   can be created (`S/statement_service.go:106-110`; `DeletionBlocksForGood` in run
   `Numbering`, proved as `BlockedForGood`).

## 6. Divergences seen while reading, without a run

* `PUT /contracts/:id` writes any status without rule or event
  (`S/contracts_service.go:789`); `models/approval.go:10` speaks of *every* status
  transition.  `NoStageSkippedUnlessWritten` and `CancelIsFinalUnlessRaced` except it for this reason.
* `DELETE /contracts/:id` works in any status; `docs/API_REFERENCE.md:395` says draft.
* Reviewers of a statement: `docs/API_REFERENCE.md:621` (finance_head,
  engineering_head, manager), `knowledge-graph/flows/Statement Approval Workflow.md`
  (a third list) and the code (pm, finance, director, admin) differ; so do they on
  which statuses can be rejected (the code: not draft, not rejected).
* Statements can be created for a contract in any status; `knowledge-graph` and the
  frontend say active ones only.

The web client:

* *The signed contract* cannot be filed when three documents are there: the contract is locked
  by then, so none can be deleted, the page offers the slot all the same
  (`W/app/(dashboard)/contracts/[id]/page.tsx:196`), and `S/attachment_service.go:77` refuses.
* The lock of the comment at `contracts/[id]/page.tsx:192` is the page's alone: a sheet
  opened before, or a list of approvals not loaded yet, edits a contract under review
  (`LockedEditsAreBlind` says: these and no others).
* After a save of the quantities the old statement is shown until the new one has been
  fetched, and typing in that moment starts from it: the next save takes the first one back
  (`statements/[sid]/page.tsx:201`; `UntypedQuantitiesKept` has the stored table as its
  condition for this reason).
* `cancel` on an outdated view cancels a contract that was activated meanwhile, and a user
  with two desks may approve at the second one what was shown at the first;
  `DecisionLandsWhereShown` names both exceptions.
* A submission that fails half-way leaves a contract, and the same button makes another one.
  Percentages are refused by the schema on the last step, where nothing shows why, and a fee
  method that was opened and left blank, or a fee that is no percentage, refuses a type that needs
  and shows neither (`StepsCoverSchema`, `OnlyTheFeeTraps`).
* The guard of the budget sees every digit of quantity and rate, the columns keep four and eight
  (`models/contract.go:121`): a row can be stored for more than was admitted, and
  the next one refused although the totals fit.  `NoSurpriseRefusal` names this with the other causes.
* A line item that is deleted from the contract takes its quantity out of every later save of a draft that
  had one (`S/statement_service.go:234`); the page is not told.
* `onSuccess` closes the sheet, whichever row it has been opened for since.
* The contracts list offers no status under review, but its form always sends one: editing
  the title of a contract under review moves it to the status that is selected
  (`W/app/(dashboard)/contracts/page.tsx`).  Every PUT is a full form from a cached row and takes back what a
  colleague changed.
* Blank optional fields are left out by contractors, employees and contracts, so that a
  value cannot be cleared; consultants and projects clear it.
* The number of administrators that hides the last one's bin is that of the page shown
  (`W/app/(dashboard)/employees/page.tsx:161`), while the server counts all.  `UpdateEmployee` takes the
  role from the last one, and `DeleteCompany` deletes him with the company.
* The employees form treats the identity number as optional and the server requires it;
  the companies page shows administrators buttons that the server refuses; lists of 200
  companies are asked for where the server allows 100 and falls back to 10.
* After the last row of a second page is deleted the page stays empty, and its pager is gone
  when the rest fits on one page (`EmptyPageMeansRemoval`: that is the only way).
* The logout button keeps the query cache: the next user of the tab sees the former one's
  lists until they are fetched again, and a fetch that was under way is joined with the
  former token.  A late 401 of the former session signs the new user out.

## 7. Not modelled

* *Dashboard, reports, profile, detail pages, charts.*  They show queries and change nothing.
* *Report generator, sample data.*  No state, or a script that runs once.
* *Bootstrap.*  Migration is declarative; the seeder runs before the server listens and
  interleaves with nothing.  (After the bootstrap sudoer was deleted it inserts it again at the next
  start, `database/seeder.go:68`, and the unique columns of the deleted row refuse it: the
  process does not come up.)
* *Token issue and checks.*  Cryptography and claims; a refused token may come at any
  time in `Session`.
* *`nextContractNo`, `Contract.Update` of the amounts.*  The number is only shown, and
  with a budget that moves, `ContractItems` would have no bound left to state.
* *`UpdateCompany`'s read and save of the columns of the heads*, and unique columns of the list pages.
* *Layout, wording, number and date formatting* throughout.

Hazards that no property covers, with the reason; `PROJECT.json` has each at its line.

* A statement can be created under a contract in any status: the server has no condition that could be
  lost, and what the page lets through is part of `LockedEditsAreBlind`.
* Two contracts take one number, and the unique index refuses the second: a matter of sending it again.
* A budget lowered under the items, or to zero, ends what `ContractItems` could bound.
* An upload that replaces a document removes it before the new one is checked: `CheckUpload` does so, but file
  and row go together, so `TornBounded` has nothing to say, and the sheet replaces nothing.
* Two uploads that pass the count: a broken bound would take three overlapping ones to show;
  `DocumentsWithinBound` is proved for every number instead.
* A deleted employee's token is valid until it expires: by the design of the token.
* `UpdateCompany` saves columns that another update wrote: the page does not show them, and
  `ListPage` takes its update in one step.
* Quantities typed between a save and the next fetch start from the old ones: the model of the page
  reaches this, and `UntypedQuantitiesKept` excludes it by its condition, as section 6 says.

## 8. Plan

Done, in the order in which money depends on it: contract approval and its refinement,
statement review, items and aggregates, numbering of statements; then line items, documents
and the sheet that creates a contract; the two pages on which decisions are made; the list
pages with sessions and administrators; theorems about each.  Worth adding next:

1. An abstract store of rows (insert, patch, remove) that `ListPage` implements, so that the
   six pages are related to one promise.
2. Two tabs of one browser, which share the token and not the cache.
3. `Contract.Update` of the budget, with the bound of `ContractItems` restated for a budget that
   moves.
