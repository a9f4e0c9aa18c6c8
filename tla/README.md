# Warehouse Control Center: specifications and proofs

TLA+ modules for the warehouse desktop application in `src/`: a PySide6 client
whose services run in pool threads over one SQLite file, possibly in several
copies of the program at once. Paths below are relative to
`src/src/warehouse_control_center/`.

## The system

| Component | State | Operations | Interacts through |
|---|---|---|---|
| Status policy (`domain/shipment_workflow.py`) | none | `can_transition`, `can_recover` | called by the shipment service |
| Shipment service (`application/services/shipments.py`) | none of its own | create, update, change status, archive, restore, report and resolve a problem, control weighing, reads | a unit of work per call |
| Shipment repositories (`infrastructure/database/repositories`) | tables shipments, history, problems, weight checks, audit, number sequence | insert, guarded update, number allocation, list | the session of the unit of work |
| Unit of work (`infrastructure/database/unit_of_work.py`, `engine.py`) | one SQLAlchemy session, one SQLite transaction | enter, commit, rollback, exit | SQLite's single write lock |
| User administration (`services/users.py`) | table users | create, rename, change role, (de)activate, archive, restore, reset password | `BEGIN IMMEDIATE`, the caller's `SessionContext` |
| Authentication (`services/authentication.py`, `lockout.py`, `password_change.py`, `first_run.py`) | users, sessions in memory | first run, login, logout, change password | the same |
| Authorisation (`services/_actor.py`, `application/permissions.py`) | none | `require_permission`, `require_current_actor` | every service call |
| Clients (`services/clients.py`) | table clients | create, update, (de)activate, search | read by `create_shipment` |
| SMS register (`services/shipment_sms.py`, `domain/sms.py`) | table SMS events | record, list | reads shipments |
| Money, weights, validation (`domain/payment.py`, `measurements.py`, ...) | none | pure functions | called by the services |
| Desktop session (`presentation/qt/application.py`, windows, worker) | session, windows, pending flags, tasks in flight | sign in, forced password change, logout, invalidation, shutdown | signals from pool threads |
| Pages (`presentation/qt/pages`) | displayed rows, page, filters, busy flags, generation | refresh, mutate, dialogs | tasks in the pool |
| Start-up and migrations (`bootstrap.py`, `schema.py`, `migrations/`) | engine, lock file, schema revision | build, verify, clean up | file system, SQLite |
| Settings, logging, hashing | files | input and output | - |

What is hard here, and what makes each component correct:

- **Shipment calls interleave.** A call reads outside any transaction; only its
  first write takes the lock. Between the two another call may commit. Correct
  means: no editor overwrites another, the history is one chain that ends at
  the status, PROBLEM and the open problem come and go together, nothing but a
  restore changes an archived shipment.
- **A call writes several tables** and may fail, time out or die between two of
  them. Correct means all or nothing, the audit event included, and a number
  taken by a failed call is not lost.
- **Sessions are copies.** A `SessionContext` outlives the row it was copied
  from. Correct means a copy from before a password change, a reset, a
  demotion or an archiving has no administrative power.
- **Administrators work against each other.** One active one must be left.
- **Guessing is throttled** by a lock with a growing duration: it must neither
  be skipped nor outlast its maximum.
- **Late results** arrive at windows and pages after logout, invalidation or a
  newer refresh; each page handles them in its own way.
- **Stale reads before the lock** that no version guards: weighing, SMS, the
  client's active flag, the actor.

`PROJECT.json` lists the hazards line by line, with the properties that cover
them.

## Modules

| Module | What it models |
|---|---|
| `ShipmentWorkflow` | The transition table and the recovery rule. |
| `ShipmentLedger` | The abstract specification: the book of shipments, one atomic lawful step per service call. |
| `Shipments` | The shipment services over SQLite, statement by statement, for any number of threads. |
| `Users` | Accounts, sessions, throttling, administration. |
| `Clients` | The client services: three reads, a partial UPDATE, and the actor's right, lost and regained in between. |
| `SmsRegister` | Recording SMS events with their validation and CHECKs; the two lists. |
| `Decimals` | The part of Python's decimal arithmetic that amounts and measurements use. |
| `ShipmentForms` | Amounts, services, weights and sizes from the text fields to the row and back. |
| `StatusDialogs` | What page and dialogs offer from an outdated picture, and what the service makes of it. |
| `DatabaseWorker` | Pool threads and posted events as one page sees them; the pages extend it. |
| `ShipmentsPage`, `ClientsPage`, `UsersPage`, `SmsShipmentsPage` | The four pages, each with its own discipline for late results. |
| `DesktopSession` | Login, forced password change, main window, logout, invalidation, exit and shutdown. |
| `FirstRun` | Several processes that start on an empty database; the one-time password. |
| `Migrations` | The revisions up and down, statement by statement, with crashes; the schema check. |
| `MCShipments`, `MCUsers` | Instances for TLC: model values, the sets of inputs, symmetries. |
| `MCDesktopSession` | `DesktopSession`, and `Users` with one account and the thresholds of the code. |
| `MCRegisters` | `Clients` and `SmsRegister`, each with two sets of bounds. |
| `MCPages` | The four pages; their bounds are constants, which `pages.cfg` sets. |
| `MCDialogs` | `StatusDialogs` and `ShipmentForms`. |
| `MCStartup` | `Migrations` and `FirstRun`. |
| `...Proofs` | The theorems, see Proofs. |

How they compose: `ShipmentLedger` is what `Shipments` implements
(`LedgerSpec`). `Shipments` and `StatusDialogs` share the rules of
`ShipmentWorkflow`; `StatusDialogs` has the service of `Shipments` as one atomic
step, which `NobodyOverwritten` justifies. The four pages run their calls
through `DatabaseWorker`; `DesktopSession` has the pool itself, with its limit
and its shutdown, and one kind of call for all pages, "read something". A page
abstracts the table it shows to the number of changes committed so far; what a
call does to the table is in `Shipments`, `Clients`, `Users` and `SmsRegister`.
`FirstRun` ends where `DesktopSession` begins. The first account of `Users` comes
from the commit of `FirstRun`.

`MCRegisters`, `MCPages`, `MCDialogs`, `MCDesktopSession` and `MCStartup` explore parts that share no
state in one run. A variable (`part`, `opened`) holds from the first state which
part a behaviour belongs to; the variables of the other parts stay as they are
in the initial state, so the states of the parts add up. A property of one part
is an implication with that part as its premise, or holds in the initial states
of the others anyway.

### Shipments

A call of thread `w` goes through `pc[w]`: `idle`, `read` (the first SELECTs and
checks), for problems `problem` (the second SELECT), `write` (one action per
flushed statement, in the order of the service method, kept in `tx[w].todo`),
and back to `idle` by `commit` or `Return`. `request[w]` is the call with its
arguments, `tx[w]` the entity in memory and the uncommitted rows. `ledger`,
`next_value` and `active` are the committed tables.

| Code | Model |
|---|---|
| a dialog's call through `ShipmentsPage._mutate` | `SubmitCreate` ... `SubmitCheck`: any version up to the stored one, since a dialog may stay open |
| a service method up to its first write | the action with its name; `ReadForProblem` and then `report_problem` or `resolve_problem` |
| `_archive`/`restore_shipment` | `set_archived` |
| `ShipmentRepository.save` with `version_id_col` | `FlushShipment` |
| unique indexes and CHECKs | `UniqueNumber`, `NoneOpen`, `ResolutionConsistent`, `HistoryChecks` |
| `UnitOfWork.__exit__` | `Return`: rollback and close |
| `busy_timeout`, `DatabaseBusyError` | `Busy`: possible whenever another thread holds the lock |
| I/O errors, process death | `Fail`, `Crash` |
| `require_current_actor` raising | `Deny` |

What the data are reduced to: a shipment has its status, archive flag, version,
two stamps, client, history, problems, number of weighings and number of audit
events. Columns that change only together with the version are represented by
it. Texts are `none`, `short` (within the 1000 characters of a reason) or `long`
(within the 2000 of a description). All texts are otherwise valid.

`LedgerSpec` states that `Shipments` implements `ShipmentLedger` under the
mapping `Book`: the trail is RECEIVED followed by the entered statuses, the open
problems are counted by the status they captured, the notes are the weighings.

### Users

Every writing operation begins with `lock_for_administration` (`BEGIN IMMEDIATE`)
and reads only under that lock, so it is one action; a busy lock or a raised
error changes nothing. The interleaving that matters is between operations: a
desk holds a context for any time while rows change. A password is a model
value, the stored hash is the password. The clock counts ticks; a lock ends at
a tick.

| Code | Model |
|---|---|
| `FirstRunAdministratorService.initialize` | `initialize` |
| `AuthenticationService.login` | `login_failure`, `login_success`; the refusals change no row |
| `logout`, or the end of the process | `logout` |
| `PasswordChangeService.change_password` | `change_password` |
| `_require_current_administrator` and `require_permission` | `require_current_administrator` |
| `UserService._mutate_user` and the methods that call it | `Mutate` and the action with the method's name |

### Clients

A call of thread `t` is the record `call[t]` with its position: `actor`
(`require_current_actor`), `read` (the client), `save` or `update` (the SELECT in
`save` and the UPDATE), `commit`. It is made for an account (`by`), and an account may have calls in
several threads at once: one session serves all pages and pool threads, and a
user may have signed in at several desks. An account loses its rights at any time
(`Revoke`) and may get them back (`Restore`), so the same module models the gap
between the check of the actor and the commit, for all services that check the
actor before they have the lock. `admitted` remembers which calls were past the
check when their account lost its right: these may still commit, and no others.

| Code | Model |
|---|---|
| `ClientService.create_client`, `update_client`, `set_active` | the action with its name, and `validate_client_fields` |
| `require_current_actor` | `require_current_actor` |
| `_get`, and the read in `ClientRepository.save` | `ReadClient`, `ReadAgain` |
| `save` assigns all columns, SQLAlchemy writes those that differ from its reading | `Updated(stored, seen, wanted)` |
| unique index, CHECK of the dates | `Unreserved`, `Reserved`, `DatesOrdered` |
| time-out of the lock, which this repository does not translate | `LockTimeOut` |
| audit event and commit | `commit` |

### SmsRegister

`record_sms`, `add` and `commit` are the steps of a recording; `archived` and
`phone` of the shipments change meanwhile. A text is one of the classes that the
validation tells apart. `List` is a SELECT of the total and then of the page;
`Summaries` and `History` are the two queries, arranged by `InOrder`; both orders
leave no two rows equal, so that there is one arrangement. The list of all has a
search, which is matched with the recipient as it is stored at each SELECT
(`Selected`); the phone stands for the three recipient columns. Events are only
added, but an edited recipient may leave a search, so `list.edited` remembers the
shipments whose recipient was edited between the two SELECTs: a page may fall
short of its total by these, and by no others.

### ShipmentForms and Decimals

A number is `c * 10^e`. `TimesPow10` rounds to `Precision` digits, half to even, as
Python's context does with 28. The form's fields hold such numbers, nothing, or no
number. Limits, precision and texts are constants (`FormsAssumption`). `Submit` is the conversion by the dialog, `Answer` the validation by the
service and the CHECKs of the table. The definitions have the names of the code's
functions (`bam_to_fen`, `validate_payment`, `_kilograms_to_grams`, ...).

### StatusDialogs

`shipment` is the committed row, `list` the row as last loaded, `dialog` what an
open dialog was given, `call` what it sent. `Enabled` is `_update_action_state`,
`Offered` what `_populate_targets` and the recovery list offer, `Verdict` the
checks of the service in their order. `ChangedElsewhere` is any change by another
copy of the program.

### The pages

`DatabaseWorker` gives a call its three stages, run, result posted, "finished"
posted, and one queue of posted events and zero timers. What the pages differ in
is what they do with overlapping calls:

| Page | Discipline in the code | Model |
|---|---|---|
| shipments | loads overlap and carry a generation; other calls exclude each other | `generation`, `load_busy`, `mutation_busy`, `Current` |
| clients | one flag; what comes while it is set is dropped | `busy`, `missed` |
| users | no flag that keeps calls apart, every answer is taken | `enabled`, `overlapped` |
| SMS | one flag that disables every field; the worker thread reads the fields itself | `busy`, `asked`, `edited` |

A list of SMS shipments grows with every record. A search (`Searches`) also shrinks,
when somebody edits the recipients it matches (`EditRecipient`); the page does not
correct its number then and may read "Page 2 of 1".

`Timer` is the `QTimer.singleShot(0, ...)` after a change, `Denied` the handling of
`SessionInvalidError`, after which the page is gone (`alive`).

### DesktopSession

A session is named by the login attempt that opened it. `queued` and `running`
are the pool, `events` the posted results. Each handler of
`DesktopApplication`, the login window, the main window and the password dialog is
an action of the GUI thread; user actions come at any time between events.
`CancelChange` and `FirstRunClosed` are `reject` and the first-run dialog's end,
`BeginLogout`, `LoggedOut`, `LogoutFailed` the logout, `SessionInvalidated` its
counterpart from a page, `ClearPool` and `Dispose` the shutdown.

### FirstRun

A process goes `verified`, `locked` (it holds the write lock), `assembling` (the
services are there, the windows not yet), `dialog`, `login`, `change` (the forced
change of the password), `main`, or is `down`. `credential[p]` is the carrier
that gives its password out once, `screen[p]` the text of the dialog.
`Die` may come anywhere; an uncommitted account dies with its process.

### Migrations

A table is the set of the revisions that have shaped it; that tells a half
upgraded one from a whole one. `Up` and `Down` list each revision's statements;
`batch_alter_table` is four of them: the temporary table, the copy, the drop,
the rename. The driver begins a transaction before the first INSERT, UPDATE or
DELETE only, so each CREATE and DROP before it is durable at once (`Execute`), and
alembic commits after a revision (`Stamp`). `CheckedBy` names what a revision
refuses to touch. Revision 0004 checks the NFKC form of a phone and copies the
text as stored, which its CHECK may refuse (`phone_form`): the copy is rolled back,
the run ends without any crash, and the temporary table, durable by then, blocks
the next upgrade (`BreakOff`). The two ADD COLUMNs of the downgrade of 0006 are one
statement: between them the disk is as incomplete as after both, and a downgrade
that dies there is excepted in either case. All indexes of a table come and go together, and the values a
revision rewrites are not modelled, with one exception: the numbers of
shipments, from which revision 0005 sets up the sequence.

## Runs

| Run | Bounds | What it shows |
|---|---|---|
| `shipments_concurrent` | 2 threads, 1 shipment, versions to 4, targets SORTING and DISPATCHED, 2 clock values | every interleaving of two calls on one shipment and the sequences of three versioned changes |
| `shipments_intake` | 2 threads, capacity 2, 1 client, 1 weighing a shipment | numbers to the end of the capacity, activity of the client, liveness |
| `users_administration` | 2 desks, 2 accounts, 2 names, 2 passwords, 2 credential changes an account, lock of 1 tick | sessions of every age against each other |
| `registers`, clients with codes | 2 threads, 1 account, codes A, a, b of which two are the same, 2 clients, 2 commits | every interleaving of two calls of one account, with its rights lost and regained, time-outs and failures |
| `registers`, clients with contracts | 2 threads, 1 account, 1 client, 1 code, 2 days, 3 commits | partial UPDATEs of the two dates mix |
| `registers`, SMS requests | 1 thread, all 9720 kinds of request | the validation against the CHECKs |
| `registers`, SMS lists | 2 threads, 2 shipments, 2 recipients, pages of 1 and 2, recordings begin below 1 event, 2 clock values | lists and searches while events come and recipients are edited, times in another order than ids |
| `dialogs`, forms | precision 4, money and sizes to 999, 5 numbers at and beyond the limits | new and edited shipments, any number of edits |
| `dialogs`, status | 6 versions, with the right to override | every picture, however old, against every state |
| `pages`, shipments | 2 threads, 1 filter, 2 pages, 2 actions that start calls | overlapping loads, page turns, calls |
| `pages`, clients | 2 threads, 5 actions | dropped refreshes, dialogs, timers |
| `pages`, users | 2 threads, 1 action, with the calls of timer and selection besides | overlapping calls, passwords on their way to the screen |
| `pages`, SMS | 2 threads, 2 filters of which one is a search, 2 pages, 4 actions | reads by the worker thread, a search that shrinks |
| `desktop`, shell | pool of 2, 2 logins | every order of clicks, results and events |
| `desktop`, login | 1 account, thresholds of the code (5, 30 s, 15 min in ticks of 30 s), 12 failures, 130 ticks | locks and waiting past the cap of the delay |
| `startup`, first run | 3 processes, 2 passwords | the race for the first account, deaths |
| `startup`, schema | 3 shipment numbers of which one in lower case, every set of defects, 3 runs of alembic, 2 crashes, numbers to 5 | all upgrades and downgrades from all revisions |

`desktop`, `pages` and `startup` check liveness too. `registers` has 1.8 million
states, `startup` 0.7, `dialogs` and `pages` 0.5, `desktop` 0.4.
Four runs end in a violation, one property each, see Findings:
`problem_long_description`, `weighing_after_archive`, `intake_after_deactivation`
and `cancelled_change`.

Properties of a composite are conjunctions of the properties of its parts
(`PagesConsistent`, `RegistersConsistent`, `DialogsConsistent`,
`StartupConsistent`, `WindowsFitSession`, ...); the parts are stated and
explained in the modules they belong to. A definition whose comment begins with
"Variant:" is a plausible mistake in the definition that follows it, in the
place of which it makes a property fail: each part of a conjunction has one.

What each property says, and of which code, is in the comment above it.

Why the bounds are enough. Two threads: every race in the code is between one
call's read and another call's commit; a third thread could only be a second
such commit, which the same thread's next call also provides. Three
versioned changes reach a problem from a status that is not the first one, a
recovery, a second entry into SORTING, and a restore. Targets SORTING and
DISPATCHED are one ordinary move, one override and one return into a stamped
status; the transition table itself is data of `ShipmentWorkflow`. Texts of
length `long` occur only in `problem_long_description`, because
`NoRefusedWrite` fails with them. Two accounts are enough for two
administrators against each other and for an administrator and a clerk. A third
credential version would distinguish no more sessions: a session is compared
with the row for equality only.

For the other modules: two commits are the shortest mix of two edits of a code;
the dates need a third, for the client itself. One account has two calls under
way at once, which is what its revocation can meet; a second account would only
make calls that this revocation does not concern, and the theorem is about any
number of accounts. One SMS event recorded while
another call begins, and pages of two rows, are a full page and a total beyond
it. Four digits of precision against numbers of five are what 28 against 29 are
in the code; the amounts are 0, less than the smallest unit, the limit and
beyond it. Six versions are a problem, its resolution and an archiving
behind the back of an open dialog. On the pages one action is one call; the
second of a mix comes from the timer after a change, the first load of the page,
or the buttons a selection enables, which the bound does not count. With two
logins the late results of one session meet the next one. A third process at
first run is the one that finds the account of a dead one while another waits.
Two crashes and three runs are an upgrade that fails on what a crashed upgrade
left behind a crashed downgrade.

Threads, desks and passwords are interchangeable, which the symmetry sets use. No run with a liveness property uses symmetry. Deadlock is checked
except where the system may rest or end: the desktop ends in phase `disposed`,
the pages rest when the user stops, the dialogs at the last version, and
migrations when nobody runs alembic.

Fairness (`FairSpec`, in `shipments_intake`): weak fairness of `Run(w)`, the
steps a thread takes by itself once it has a call: reading, writing, committing,
giving up a wait. The pool thread runs its callable to the end, and SQLite gives
a waiting connection the free lock or lets it time out after `busy_timeout`.
Nothing is assumed of the environment: no call has to be made, no crash or
failure happens or fails to happen. `CallsReturn` holds without strong fairness
because `Busy` is possible whenever the lock is taken.

Fairness elsewhere. `DesktopSession`: the pool starts a queued task when a
thread is free, a running task ends, the event loop delivers the posted events,
and `DatabaseTaskRunner.shutdown` goes on when it can. The pages: the pool works
(`Work`) and the event loop delivers (`Deliver`). `FirstRun`: a process goes on
with its start (`Boot`), unless it dies. Nowhere has a user to click, a call to
succeed or a process to stay alive.

## Findings

- `problem_long_description`: `report_problem` copies the description, at most
  2000 characters (`domain/shipment_validation.py:19`), into the history entry's
  reason, whose CHECK admits 1000 (`models.py:557`). The report is lost.
- `weighing_after_archive`: "Archived shipments cannot be changed"
  (`services/shipments.py:730`), yet a weighing that read the flag before the
  archiving committed is stored after it. `ShipmentLedger` therefore allows
  `Note` on an archived shipment, and `shipments_concurrent` checks
  `ArchivedFrozen` for all operations but the weighing.
- `intake_after_deactivation`: "Inactive clients cannot be used for new
  shipments" (`services/shipments.py:167`), yet the flag is read before the lock.
- `cancelled_change`: "mandatory password change cannot be bypassed and cancel
  returns to login" (`tests/qt/test_ui_workflows.py:274`). A dialog that is rejected
  while its call is under way returns to the login, and the result of that call
  opens the main window nevertheless (`application.py:97`).

Seen while modelling, and visible in the modules, without a run of their own:

- "Archived shipments cannot record SMS events" (`services/shipment_sms.py:66`),
  with the same gap between the check and the INSERT (`SmsRegister`).
- `update_client` writes the active flag it read first if a deactivation was
  committed before its second read, and so undoes the deactivation (`Clients`,
  `Updated`).
- A deactivated account may commit as many calls as were past the check of the
  actor (`Clients`, `OnlyAdmittedCommitLate`).
- The result of a logout that comes after the session was invalidated closes the
  window of the user who has signed in since (`DesktopSession`).
- The page of the SMS shipments reads "Page 2 of 1" after a page was turned with a
  filter edited and not applied, and after the recipients of a search were edited
  (`sms_shipments_page.py:306`). `PageExists` is about the other lists (`Settled`).
- The canonical code exists for "uniqueness checks" (`domain/normalization.py:1`);
  two edits mix column by column, so that a row's canonical code need not be that
  of its code, and two clients may share a code (`Clients`; the check
  `RowsLawful` is about what the table itself enforces).
- "A busy SQLite database produces a retryable message" (`README.md:131` of the
  repository); the client repository translates integrity errors only.
- `tests/qt/test_phase4a_ui.py:174` waits for the dialog to close after Save; a
  save during a refresh is dropped after the dialog has been disabled, which then
  waits for ever (`clients_page.py:254`).
- `tests/qt/test_ui_workflows.py:388` waits for the new user's row; of two
  overlapping lists the older may answer last and stay (`users_page.py:173`).
  `ListCatchesUp` excepts that case by the history variable `overlapped`.
- "Exact BAM money conversion" (`domain/payment.py:1`) is exact to the 28 digits of
  the decimal context; `ExactMoney` excepts longer amounts.
- "run 'alembic upgrade head'" (`schema.py:32`) fails after a crash on the tables
  of the interrupted upgrade, and without a crash after a copy that a CHECK of
  revision 0004 refused (`Migrations`).
- "structurally incomplete schemas" (`schema.py:27`) are accepted if only indexes are
  missing, since revision and table names are compared: a downgrade of 0009 that dies
  after an index was dropped leaves such a schema. `StartedOnHead` excepts a
  downgrade that died (`torn`), and nothing else.
- Numbers are compared in their canonical form (`README.md:28`), but revision
  0005 counts them as stored and sets the sequence up below an existing number in
  lower case.
- The first password is displayed "once in a dedicated dialog" (`README.md:125`);
  after a crash between the commit and the dialog, never (`FirstRun`).
- "Only user administration is functional" in "Current UI boundary" of the
  repository's README is out of date; four pages are.

## Proofs

From the assumptions on the constants in the modules alone, for any number of
threads, clients, desks, names and passwords and any bounds:

- `ShipmentsProofs`: `TypeCorrect` and `NumbersWithoutGap`. `NumbersInOrder` is
  not inductive by itself: a commit puts the number of its request into the
  ledger, so one has to know that a creating call that holds the lock holds
  exactly `next_value`. The inductive invariant `Inv` adds `Calls`, which ties a
  call's position, its remaining writes and the lock together: before its first
  write it has the whole `Plan` of its method to do and no lock, afterwards one
  of the rests of that plan and the lock. The proof first shows every action to
  be of one of a few shapes (`Asked`, `SecondRead`, `Prepared`, `Wrote`, a
  return, a commit) and then each conjunct to survive each shape.
- `ShipmentsProofs`, second half: `AuditNeitherLostNorDoubled` (the invariant
  `AuditComplete`) and `NobodyOverwritten` (the action property
  `NoStaleOverwrite`). Both need to know what a commit will publish long before
  it does: `Drafted` says that the draft of the lock's holder is the committed
  shipment with exactly the writes done so far (`DraftOf`), statement by
  statement, and `VersionAsked` that the row a call is about to save has the
  version its caller asked for, which the committed version has reached and
  never goes back from. The holder of the lock keeps `Drafted` because nobody
  else can commit meanwhile; everyone else keeps `VersionAsked` because versions
  only grow. `Published` then reads off the commit.
- `ShipmentsProofs`, the history: `HistoryNeverForks`, `ProblemsAgree` and
  `StampsAgree` (`HistoryIsChain`, `ProblemMatchesStatus`, `StampsMatchHistory`),
  which database refusals are left (`OnlyLongReportsRefused`), what may happen to
  an archived shipment (`ArchivedChangesOnly`), and the refinement
  `ServicesImplementLedger` (`LedgerSpec`). A method decides on its row, its
  history entry and its problem from what it read before it holds the lock. The
  invariant `Histories` adds to the two above that every committed shipment is
  `Sound` and that every call is `Planned`: what its plan owes to the shipment for
  good, because it rests on what never changes (a lawful entry, the request's
  text), and what it owes as long as the version has not been stepped since
  (`Fresh`: the entry continues the history, the problem is the open one). The
  guarded UPDATE lets only a fresh plan commit, and `CommittedSound` shows that a
  fresh plan leaves the shipment sound. Two theorems have a hypothesis, and both
  hypotheses are findings of this project: `ValidatedIsAccepted`
  (`NoRefusedWrite`) is about workloads without long problem descriptions
  (`problem_long_description` shows what one does), and `ArchivedIsFrozen`
  (`ArchivedFrozen`) about workloads without weighings (`weighing_after_archive`).
  `OnlyLongReportsRefused` and `ArchivedChangesOnly` have none and say what holds
  with them. For the refinement each commit is shown to be one step of the ledger
  (a note, an edit, a lawful move, a report, a resolution, an archiving, a
  restore) on the mapped state, and every other step to leave that state alone.
- `UsersProofs`: `TypeCorrect`, `AdministratorLeft`, `ArchivedStaysInactive`,
  `SessionsCurrent`, `LockoutBounded`, `GuessingIsSlow`, and the action properties
  `AdministratorsAdminister`, `LocksAreRespected` and `TemporaryPasswordsReplaced`.
  The state invariants are proved together; every step that changes a row is of
  the shape `RowStep`, and each conjunct follows from the shape.
  `AdministratorsAdminister` needs `SessionCurrent` in the state before the step:
  only then does an equal credential version mean the valid password and a
  non-temporary one. `GuessingIsSlow` (`GuessingTakesTime`) strengthens its bound:
  `WaitedOut` says that an account has `Paid` for its failures so far, and that the
  end of its lock has, too. The bound `TimeLocked` sums the delays; since they no
  longer grow after seven failures its equation is `TimeLockedEquation`, proved
  from a closed form and so without induction.
- `StartupProofs`, the migrations: `StartupIsConsistent` (`StartupConsistent`),
  `OrderlyHolds`, `StartsOnHeadOnly` and `NothingIsLost`, for any numbers of
  existing shipments, defects, runs of alembic and crashes. The seventeen scripts
  are data: what holds of all of them is proved of each by evaluation and then used
  as a fact about a script (`Ordered`: batches and indexed tables come in order;
  `Fits`: what a statement makes is new and what it takes is there; `Starts`: an
  upgrade begins with its check and then creates or copies; `Reverts`: a downgrade
  takes what its upgrade gave). The invariant `Orderly` is about the disk and what
  the open transaction sees: `IsAfter` computes tables, shapes, indexes and copies
  from the position in the script, and is the schema of a revision at both ends;
  `RowsOK` says that a table that is gone has a filled copy in an open transaction;
  `Ahead` that the sequence is beyond the generated numbers. Why can an interrupted
  upgrade never end at revision 9? Its first statement is durable at once and
  creates a table or a copy (`Obstacle`) that no statement of a revision up to this
  one removes from the disk; every later upgrade comes to the same statement and
  collides (`Blocked`). A copy that breaks off leaves the same mark, and the proof
  treats it as a crash. An interrupted downgrade leaves no such mark, and
  `StartedOnHead` excepts it.
- `StartupProofs`, the first run: `TypeCorrect`, `OneAdministratorHolds`,
  `ChangedBeforeUseHolds`, and the action property `SeenThenGoneHolds`, for any
  number of processes. The invariant says what each process may conclude from
  where it is: `OneWriter`, that a process that holds the lock is alone;
  `BeforeCommit`, that without an account nobody has seen or carries a password;
  `AfterCommit`, that with one nobody writes another; `Unseen` and `Drawn`, that a
  carrier holds the committed password, which nobody has seen, and a new one is
  not one that has been seen; `SignedIn`, that a process in the main window has
  changed the password first.
- `DialogsProofs`, status: `TypeCorrect`, `DialogsOfferWhatIsAllowed` and
  `AppliedToWhatWasSeen`, for any number of versions, with and without the right
  to override (the run has it). The invariant `Picture` says that what list,
  dialog and call show is the committed row or has an older version;
  `DialogOffers` and `CallOffers` that a dialog and a call were possible in their
  own picture. If the versions are equal the picture is the row, so the service
  decides as the dialog did.
- `DialogsProofs`, forms: `DialogsAreConsistent` (`DialogsConsistent`) and the
  action property `UntouchedRowsStay` (`UntouchedIsUnchanged`), for any set of
  texts, any limits and any precision of the decimal context that holds the
  largest amount; `StatusRulesHold` carries the rules about status over to the
  composition. `FormsInv` follows an amount from the text to the row: a text that
  was parsed is a whole number of fen (`MoneyIs`), what is on its way is valid and
  is the amount of its text (`SentOK`), an editor nobody has touched holds what the
  row says (`AsOpened`), and fen shown as text and parsed again are the same fen
  (`ShownAgain`). Below that are the facts about decimals, with rounding: the
  powers of ten are a recursive function, whose equation and laws are proved by
  induction (`Pow10Def`, `TenAdds`, `TenMonotone`); `ExcessIs` finds the digits
  that do not fit, `KeptIs` and `RoundedIs` what rounding to half even leaves, and
  `ExactWhenWhole` that the integer of a whole number is its exact value.
- `RegistersProofs`: `TypeCorrect`, `RowsStayLawful` and the action properties
  `LateCommitsWereAdmitted` (`OnlyAdmittedCommitLate`) and `QuietCallsAreExact`, for
  any threads, accounts, codes and any function that makes codes canonical. The invariant gives each call a record type,
  `Named` (the client it works on exists, or is the next row), `Lawful` (what a
  call is about to commit leaves the table lawful) and `Undisturbed` (if nobody
  has committed since it was read, the row a call has read is the committed one
  and the entity differs from it in what was asked only), and `Admitted` for the
  accounts: a call that is past the check of the actor belongs to an account that
  still has its right, or was past it already when the account lost it.
  `CreatedOnce` is part of it: the first event of a client comes with its INSERT,
  in one commit. `RegistersAreConsistent` (`RegistersConsistent`) joins it with
  both instances of the SMS register, and `ClientsStayCorrect` carries the rest over
  to the composition.
- `SmsRegisterProofs`: `RegisterHolds`, which states four properties of
  `SmsRegister` for any threads, shipments, requests, page size and clock. An
  event that was validated passes the CHECKs later, too (`ValidEvent`): the call
  carries it, and a phone or an archiving that changes meanwhile no longer enters
  it. That a page keeps its promise
  rests on events only being added, so that recordings never make the rows of a
  query fewer (`RowsGrow`), and on an edit taking at most its own shipment out of a
  search (`RowsEdited`). `Promised` says it of the state between the two SELECTs:
  the rows there are now and the shipments edited since make up the total. That the two lists agree rests on their order: it
  is strict and total (`LaterOrder`), a finite set can be arranged by it
  (`SortedExists`, by induction on its size), and the first of the arrangement is
  what the subquery for the last event finds (`LatestExists`).
- `DesktopSessionProofs`: `WindowsAlwaysFit` (`WindowsFitSession`, that is
  `TypeOK`, `SessionMatchesMain`, `NoBypass`, `OneLogout` and `NeverStranded`), for
  any number of logins and any size of the pool. Calls, posted events and windows
  are found in a queue, a pool and an event list in any order, so the invariant
  `Stages` tells for each login attempt what may be there of it: `SignIn` (while
  its call runs nothing else is there), `Choice` (its result opens the main window
  or the password dialog, once), `Change` (one password call, one answer), `Window`
  (a page call only with its window). `Logouts` does the same for the logout. The
  lemmas about the queue (`Appended`, `Consumed`, `Removed`, `PoolStep`, ...) turn
  each handler into what it adds to and takes from a stage. The run composes the
  shell with the logins of `Users`; `ShellBehaves` and `AccountsBehave` show that
  each part of the composition is its component, and `WindowsFitBesideLogins`,
  `LocksFitFailures` (`LockoutConsistent`) and `GuessingWaits` (`GuessingTakesTime`)
  carry the theorems of both over to it.
- `PagesProofs`: `PagesAgree` (`PagesConsistent`), `PasswordsAreShown`
  (`UsersEveryPasswordShown`) and the action property `ListsGetYounger`
  (`NeverAnOlderList`), for any number of clicks, filters, pages of a list and pool
  threads. None of them is inductive, since each speaks of a page at rest and is
  kept up by calls on their way. The invariant (`PagesOrderly`) therefore says
  where these are. `Orderly` is about the pool and the posted events: numbers name
  calls uniquely, and a call answers once and then finishes once. Calls not yet run
  are `Sent`, answers not yet delivered `Replies`, calls not yet seen to finish
  `Going`, and one lemma for each step of `DatabaseWorker` and for each delivery
  says how it moves a call from one to the next (`Submitted`, `HasRun`, `HasPosted`,
  `Delivering`, `Timing`). Each page then adds what it owes to its calls:
  `ClientsOnTheWay` and `UserListOnTheWay` that a list that is not up to date has a
  timer, a list or an answer under way that will bring it up; `PasswordsOnTheWay`
  that a password not yet seen is in an answer; `LoadsOnTheWay` and
  `TableTrue` that only the newest generation may still fill the table, and that
  nothing but a failed or a running load keeps it from what the label says;
  `SmsOnTheWay` that nothing the worker thread reads has changed since the list was
  asked for, and that the page lies within the total unless the list is a search
  or a filter was edited since (`Settled`). The flags are counted at the end: `Flagged` knows them as sets,
  `Counted` turns the sets into numbers.

The assumptions are the named ones of the modules: bounds are natural numbers,
there is a filter, some filters are searches and a list may have a page
(`PagesAssumption`), versions begin at
1 (`MaxVersionAssumption`), "nobody" is no thread (`ThreadsAssumption`), "no
password" is no password (`PasswordAssumption`), the numbers of shipments are
within the bound (`IdentifiersAssumption`), the parameters of the two registers and
of the forms are of their types, and the decimal context has room for the largest
amount (`SmsAssumption`, `FormsAssumption`, `PartsAssumption`), and the parameters of
the logins are what `Users` assumes (`AccountsAssumption`).

Induction. The library's theorems for induction take an operator as a parameter,
which the provers cannot instantiate. What is needed of it is derived from
`NatLessThanWellFounded`: a non-empty set of numbers has a least one (`Least`), and so
a set that contains 0 and every successor contains all (`Induction`). The powers of
ten, the arrangement of a finite set and the highest generated number rest on it.

Only model-checked is liveness: `CallsReturn`, `PagesFreeAgain`, `EverythingAnswered`
and `StartEnds`, which the provers do not reach. Every invariant and every action
property of the passing runs is stated by a theorem. The four runs that end in a
violation show where the code does less than its documents, comments or tests say.

## Not modelled

- Settings, logging and password hashing: input and output, or a library.
- Layout, formatting, tab order, error texts and the details dialog: no
  state beyond the widgets. Placeholder pages keep nothing.
- The SQL of `list_page` of the shipments and its search text. That its total and
  its rows are two SELECTs is modelled for the SMS lists only, and their search by
  recipient only; the number of a shipment, the other field searched, never changes.
- Foreign keys: no referenced row is ever deleted by the application.
- The formats that identifiers, names and phone numbers are checked for: texts
  are classes, as far as lengths, blanks or forbidden characters decide.
- The downgrade of revision 0001, which empties the database, and the values that
  revisions rewrite, but for the shipment numbers.
- A wall clock that is set back (the clocks of all modules stand or advance).

## Plan

1. A clock that goes back, and the two SELECTs of the shipment list.
