# EekaMShop: specifications, model checks and proofs

EekaMShop is the iOS client with which the clerks of a fashion shop look after
their members: they see and move appointments, complete a service with a code
sent to the customer's phone, search members, assign them to employees, and
freeze employees who have left. The program talks to one HTTP server through
YTKNetwork, keeps its login in two small databases (WCDB), and receives pushes
through JPush. In the app nearly everything runs on the main thread; what is hard
is the *order* in which answers, touches, main-queue blocks and kills of the
process come. Below it lies the library that is checked out with the project,
WCDB: there threads share pools of handles behind a lock, files are moved while
the program may be killed, and a corrupted database is read back page by page.

This directory holds TLA+ modules of that logic, TLC configurations which check
them on small instances, and theorems TLAPS has checked for every instance.
Sources are quoted relative to `src/EekaMShop/EekaMShop/` unless they start
with `YTK`, which stands for
`src/EekaMShop/Carthage/Checkouts/YTKNetwork/YTKNetwork/YTK`: the project links that
framework, and the older copy under `MFFramework/Networking/static/YTKNetwork` is not
compiled. `WCDB/` stands for `src/EekaMShop/Carthage/Checkouts/WCDB/`.

## 1. Inventory

| Component | State | Operations | What is hard | What makes it correct |
|---|---|---|---|---|
| **Request layer**: `YTKBaseRequest.m`, `YTKNetworkAgent.m`, `MFNetworkRequest.m`, HUD accessory | record of requests, blocks and delegate of each, main queue, HUD | start, stop, cancel all, `handleRequestResult` on a concurrent queue, callback and cleanup blocks | stop against an answer that is on its way; two posted blocks; a request that cannot be serialised; the HUD that takes all touches | one callback per request, none after stop; recorded until heard, released after; an expired token never reaches a success block; no HUD stays |
| **Appointment screen**: list, code view, date view | rows (objects), page counter, expected code, overlays | refresh, load more, move, complete, resend, check the code | answers overtaking each other; objects held across a refresh; optimistic status; failures | the code typed is the customer's whose appointment is completed; a settled list is the server's list; nothing completed is reopened |
| **Session**: login service, login screen, root screen, expiry alert, push alias | two files, root screen, alias at JPush, alerts | launch, login by code or by user id, logout, expiry, alias calls | kills between two writes; a login answered for a dead screen; two logins; lost alias calls | a token comes with its user; the root screen and the alias are the session's |
| **Batch requests** (`YTKBatchRequest.m`, `YTKBatchRequestAgent.m`) | finished count, failed request, record of batches | start, stop, delegate callbacks | one request fails while the others' answers are posted; only the agent keeps a batch alive | one outcome per batch, the right one; nothing counted after a failure |
| **Employee screen** (`MShopFrozenEmployeeManagerViewController.m`) | two lists joined, batch | load, freeze, unfreeze | reloads overlap; the batch bypasses the token wrapper | a settled table is the server's state |
| **Member screens**: list, search, member page | two lists of shared member objects, the text, the page | load, search, open, assign an employee, read back, go back | answers in any order to texts that have changed; the assignment written before the server is asked; the object replaced by reading back | what list, results and page show once they have settled is the server's |
| **Response cache** (`YTKRequest.m`) | data file, metadata file, the response in the object | start with or without cache, load, save in two halves on a queue, stop | two files without a lock; a kill between them; the object read when the save runs | nothing older than the cache time is served, and its source is told |
| **Lock of the handle pools** (`WCDB/apple/WCDB/util/rwlock.cpp`) | three counters, sleepers on one condition variable | lock, try, unlock for reading and writing | wake-ups meant for the other kind; spurious ones; starving writers | one writer or many readers; nobody sleeps without a reason; writers get in |
| **Registry of pools** (`core/handle_pool.cpp`, `util/recyclable.hpp`) | pool and count per path, counted references | open by path, by tag, copy, release, recycle | somebody opens between the last reference and the recycling | one core per path; no pool left over |
| **Files of a database** (`util/file.cpp`, `core/database_file.cpp`) | files here and there, links made | move, remove | any system call fails; a kill between two | the data is whole in one place, and the answer says in which |
| **Recovery of a corrupted database** (`WCDB/repair`, `abstract/handle.cpp`) | tables known, stack of pages, page marks, statement, transaction, counts | walk trees, create tables, insert rows in batches, cancel | torn pages, cycles, an old backup, failing writes | rows are in their table with their values; nothing readable is lost; the walk ends |
| Chain requests, `MFNetwork`, `HYBNetworking` | - | - | no caller in the app | - |
| WCDB: handles of a pool, configurations, delayed checkpoints, transactions, backup of `sqlite_master`, bytes of pages and records, statements and mapping | - | - | - | - |
| Member consumption, address book, push messages, plug-ins, tables, cells, navigation, categories, other vendored libraries | - | layout, formatting, one-shot loads | - | - |

How they interact: a screen creates a request object, gives it blocks (or a
batch makes itself its delegate) and starts it. The agent keeps it in a record
until its task has completed. The answer is judged on the processing queue and
delivered by a block posted to the main queue. `MFNetworkRequest` wraps the
success block, so that an expired token raises the alert of `MFNetWorkAgent`
instead; the alert's button logs out through the login service, which replaces
the root screen. Screens hold no locks and share objects: a row of a list is
the same object in the overlay or in the next screen. Every `WCTDatabase` holds a
counted reference to the pool the registry has for its path; closing, moving and
removing files takes the pool's lock for writing (`close:`), so the moves are
modelled with nobody in the database, and a recovery works on a file of its own.

`PROJECT.json` lists every hazard with the line where it bites, and the
properties that cover it or why none does yet.

## 2. Modules

| Module | Models | Checked by | Proved in |
|---|---|---|---|
| `RequestPromise` | abstract: what a request object promises a screen | as `KeepsPromise`, `PromiseSettles` | |
| `RequestAgent` | the request layer | `MCRequestAgent` | `RequestAgentProofs` |
| `Appointments` | the appointment screen, its server as an environment | `MCAppointments` | `AppointmentsProofs` |
| `BatchRequest` | a batch over requests that keep their promise | `MCBatchRequest` | `BatchRequestProofs` |
| `FrozenEmployees` | the employee screen, composed on `BatchRequest` | `MCFrozenEmployees` | `EmployeeProofs` |
| `Session` | login, logout, launch, root screen, alias, kills | `MCSession` | `SessionProofs` |
| `Members` | member list, search and member page | `MCMembers` | `EmployeeProofs` |
| `ResponseCache` | the response cache | `MCResponseCache` | `ResponseCacheProofs` |
| `SharedLock` | abstract: what the lock promises the pool | as `ImplementsSharedLock` | |
| `RWLock` | the lock | `MCRWLock` | `HandlePoolProofs` |
| `SharedCore` | abstract: databases of one path share one core | as `SharesCores` | |
| `PoolRegistry` | the registry of pools | `MCPoolRegistry` | `HandlePoolProofs` |
| `DatabaseFiles` | moving and removing the files | `MCDatabaseFiles` | `DatabaseProofs` |
| `Recovery` | the repair kit | `MCRecovery` | `DatabaseProofs` |

`RequestAgent` implements `RequestPromise` (refinement mapping `status`), and
`Appointments`, `Session` and `BatchRequest` are written on what the promise says: a request in
flight is answered once, in any order with others, as a success or a failure.
`BatchRequest` in turn implements `RequestPromise` with batches for requests, and
`FrozenEmployees` conjoins every step of its batches with what the screen does in
it (`Batch == INSTANCE BatchRequest`). The screens need no more of the request layer than that,
except for the moment the HUD appears (`ShowHud` and the history variable `early` of
`Appointments`, below). `RWLock` implements `SharedLock` (each user is out, wants to write,
reads or writes), and `PoolRegistry` implements `SharedCore` (the core of a database is its
pool) until a database is opened by tag.

### RequestAgent

Two kinds of threads. The main thread performs `Start`, `StartUnsent`, `Stop`,
`CancelAllRequests`/`CancelNext` (the loop over the copied keys takes the lock
once per key, so the processing queue can come in between), and runs the blocks
of `mainQueue` one at a time (`RunShow`, `RunHide`, `RunCallback`,
`RunCleanup`). The processing queue performs `handleRequestResult`, split
where another thread can act: looking the task up under the lock
(`AcceptAnswer`, `IgnoreAnswer`), posting the callback block (`PostCallback`),
posting the cleanup block (`PostCleanup`).

| Variable | In the code |
|---|---|
| `task` | how far the task of the request has come |
| `outcome` | validity of the response, and the result code `MFNetworkRequest` looks at |
| `record` | `_requestsRecord` |
| `blocks`, `delegates` | completion blocks, `delegate` |
| `mainQueue` | blocks dispatched to the main queue: accessory show/hide, callback, cleanup |
| `hud` | HUDs the accessory has put on the window |
| `sweep` | the keys `cancelAllRequests` has still to stop |
| `heard`, `stopped` | observations: what each client was told; on what `stop` was called |

A request object is started once. Every screen of the app allocates a request
for each use; a second `start` of one object is not in the model.

### BatchRequest and FrozenEmployees

A batch sees of its requests what `RequestPromise` says: `status[r]` is idle,
pending, answered or withdrawn, and a withdrawn request never calls its delegate
(the theorem `StopSilences` of the request layer). `RequestFinished` and
`RequestFailed` are the two delegate methods with everything they call:
`Settle` (the block, `clearCompletionBlock`, `removeBatchRequest:`) and the loop
of stops (`StopRequests`). `finished` is `_finishedCount`, `retained` the agent's
array, `blocks` the batches whose blocks are set; `good` is a history of the
requests that were answered with success, against which the count is judged.
Delegates and accessories of a batch and `_failedRequest` are left out: the app
uses none of them. Deallocation is not an action: it stops the requests of a batch
the agent has let go, and `QuietOnceSettled` says that none is left to stop.

The employee screen numbers its batches as it starts them. `response` holds the
list each request was answered with, `Joined` builds the rows from the two lists of
one batch, and `OptAnswered` contains the reload. The clerk may tap again before the
HUD is up, so no HUD is assumed. An expired token is an answer without a list
(`RefuseList`), because a batch clears the blocks in which `MFNetworkRequest` would
notice it; for a freeze or unfreeze it is one of the ways of `OptFailed`.

### Appointments

The clerk's touches are `PullToRefresh`, `LoadMore`, `ModifyTime`,
`CompleteService`, `TypeCode`, `CancelCode`, `ResendCode`, `DoneDate`,
`CloseDate`. Answers are `ShowList`, `ShowMore`, `ShowCodeView`, `CodeResent`,
`Modified`, and `Fail` for an error or an answer that is not `messageSuccess`.
Every action is a whole handler: `Modified` contains the refresh that the code
runs, `DoneDate` and `TypeCode` the status written to the row object before the
request is made.

Row *objects* are pairs of an appointment and the number of the list answer that
made them. `status[o]` is the field of the object and `server[a]` the truth, so
an overlay that holds an old object is told apart from the row on the screen.
A request in flight is first served (`Serve`, external: the server computes the
page or applies the change) and later answered; between the two anything may
happen. The code is represented by the phone it was sent to: two customers'
codes are different, and a code the server makes twice for one phone is the same
here because the client replaces the expected code by each answer.

Left out: dates and the picker (no property tells dates apart), the layout of
the cells, dialling, the tips. Opening the member screen from a row changes
nothing here.

### Session

A handler runs to its end on the main thread but the process can be killed
anywhere in it, so a handler is a sequence of effects `todo`, and `Effect`
carries out one. `UpdateLoginInfo`, `Logout`, `AutoLogin` and
`OnDidLoginSuccess` give the effects in the order of the code. `userRow` and
`tokenRow` are the two database files; a user name stands for all the rows a
login writes. Screens are numbers, and a screen is alive if it is the root or a
block holds it (`Alive`): this matters because the delegate of the other app's
answer is weak, and because a login may be answered when its screen has gone.
`pushes` are the alias calls on their way to JPush, which carries them out in
order or loses them (the completion in `MFThirdPartyPlugin.mm` only logs).

External: the other app (`OnResp` brings any user's code or none), the server,
JPush, and the operating system that kills the process (`Crash`).

### Members

A row is its member object: `individuals` and `results` give the assignment each shown
object has, and `page` says which of the two it shares its object with, or that it
has its own. `OnDidSelectEmployee` writes the assignment into the shared object
(`Shared`) and asks the server; `ModifyAnswered` contains the reading back, and
`InfoAnswered` gives the page an object of its own. `OnClickBackBtn` contains the
refresh of the list; a reading whose page has gone is still answered, and shows nothing
(`Abandoned`, `GoneAnswered`). `DoSearch` is what every change of the text does: a text that is
blank or an incomplete number (`Partial`) empties the results, any other is
searched for. The employee list screen is the choice of an employee in
`OnDidSelectEmployee`; the other fields of a member are left out.

### ResponseCache

The request objects of one cache file. A start is cut between its two reads
(`loading`), because the caching queue runs beside it, and a save between its two
writes (`SaveData`, `SaveMetadata`), because a start or the end of the process may
come between them; a block on the queue is the request it belongs to, since the
code reads the object when the block runs. `metaFile` carries an identity that stands
for version, sensitive data and app version together, and the date.
The app itself sets no cache time, so it writes none of this; the module is about
what the library offers it.

### RWLock and PoolRegistry

In `RWLock` what runs with the mutex held is one step. A user who must wait parks
and later runs the loop's test again (`LockReadAgain`, `LockWriteAgain`); wake-ups
may be spurious. In `PoolRegistry`, `s_mutex` makes `GetPool` and the recycling one
step each; `Release` of the last reference and `Recycle` are two, because the
counter reaches zero before the callback takes the mutex. `Databases` stands for
whatever is made with one `GetPool`, its copies are counted in `m_reference`. `crashed` says
that an entry was used which is not there.

### DatabaseFiles

One step per system call: `Look`, `Clear`, `Link`, then `Remove` for a move, with
`Recover` when a call fails. `dest[f]` tells a link to the moved file from a file of
that name which was there before. `Kill` may come anywhere; what follows is another
call of the same program, started again.

### Recovery

`stack` is the recursion of `sqliterkBtreeParsePage`: a frame is a page, the cell or
child it is at, and the overflow page it is reading. `status` are the marks with
which the walk knows its ancestors. A file is a constant of the instance: what each page
says (`interior`, `leaf` or of no type, children, cells, next overflow page), so that
cycles, torn cells and pages past the end are pages like others. `CorruptedAssumption`
says what a page may hold, which is whatever the bytes of a page can be read as: any
number of a child or an overflow page, rows of any table in any tree. A page is never both
interior and leaf, and nothing else is assumed. `bound`, `pending`
and `kept` are the values bound to the statement, the rows of the open
transaction and the rows committed. Another thread may `Cancel` at any moment.

## 3. Runs

| Run | Instance | Question |
|---|---|---|
| `agent` | 2 requests with a HUD, `FairSpec` | Is every client called at most once, never after stop; is a request recorded until then and released after; is every request answered or withdrawn, does every HUD go; is the promise implemented? |
| `appointments` | 2 appointments of 2 customers, 2 in flight, 2 pages of 1 row, 3 list answers, touches before a HUD until the first of them, everything may fail (1.7 million states) | Is the code the customer's, does a completed object stay, is a settled list the server's, does an appointment completed on the server stay completed while the clerk waits for every answer? |
| `session` | 2 users with different aliases, 3 screens, 1 alert, 2 alias calls, 2 logins | Do files, root screen and alias belong to one session after any interleaving and kill? |
| `batch` | 2 batches, of 2 and of 3 requests, `FairSpec` | Does each batch have exactly one outcome, the right one, with no request left behind; is it retained until then; does it settle? |
| `employees` | 2 employees and the user, 3 batches, 2 operations in flight | Is a settled table the server's state, however operations, lists and batches overlap? |
| `members` | 2 members, 2 employees, 2 texts, 2 requests in flight | Do list, results and page show the server's assignments once they have settled? |
| `cache` | 2 objects of one file, cache time 1, clock to 3, 2 saves waiting (880,285 states) | Is nobody served what is too old, and is the source told, wherever the process ends? |
| `rwlock` | 5 users, `FairLockSpec` | Is no wake-up lost, the promise kept, and no writer starved? |
| `registry` | 3 databases, 2 paths, 3 pools, 1 tag, 2 references (238,528 states) | Is no pool left over, and one core per path, until one is opened by tag? |
| `registry_shared` | the same | expects a violation: with tags, two databases of a path get two cores (section 5) |
| `files` | 4 files, 3 calls, any system call fails (137,649 states) | Is the data whole in one place, and the answer true? |
| `repair` | 10 files of up to 8 pages, 2 columns, batches of 2 rows, `FairRecoverySpec` (15,844 states) | Are rows in their tables, is everything readable recovered, does the walk end? |

**Bounds.** *Requests*: actions of the request layer read and write the state of
one request, and requests meet only in the main queue and in the sweep; two are
enough for one block to stand in front of another and for a sweep to be
interrupted. A request is stopped once (a second stop finds nothing and posts one more
hide). *Appointments*: `PageSize = 1` stands for the code's 1000, so that two
appointments make two pages and an empty third; `MaxPage` caps the page counter,
`MaxInFlight = 2` allows an answer to overtake another and a refresh to meet a
modification, `MaxAnswers` caps the answers shown (with three, an overlay can
hold an object of the first answer while rows of the third are on the screen).
When the answers run out, list requests can only fail. *Batches*: requests of
one batch are alike, so three show a failure between answers that came before and
answers still to come; the second batch shows that nothing leaks from one to another. *Employees*:
`MaxReloads = 3` and `MaxOps = 2` let two operations overlap each other and the
batch of a third; the clerk stops when the batches are used up. *Session*: `MaxScreens`
login screens that something refers to (three: the root, one held by an alert or
a block, one weakly waited for), `MaxAlerts` open expiry alerts, `MaxPushes`
alias calls not carried out, `MaxLogins` requests in flight. Two users are needed
for one session to meet another's leftovers; a third would be a leftover of the same kind.
*Members*: with two of everything there is a wrong member, employee and text for each
right one; two requests in flight let an answer overtake another. *Cache*: one
object's save runs while the other starts; `MaxClock` lets what was saved expire, and a
second response age beside it; no time passes
while a posted block waits (`Tick`), since a cache time is long against that; a third waiting save would be of the kind of the second.
The objects are interchangeable (`SYMMETRY`; the properties of this run are invariants).
*Lock*: five users are a writer inside or waiting, a second that waits, and readers that come
meanwhile, with one to spare. *Registry*: a path can be left, recycled and taken again by
another pool while a third database holds the first. *Files*: getPaths gives four names.
Three calls are a move, a kill or failure, and what is done about it. *Repair*: the files
are chosen by what is wrong with them: a torn leaf, page and overflow page; children that point
back, or into the tree of another table or of `sqlite_master`; no `sqlite_master`; an old backup;
nothing at all; overflow pages that form a cycle or lead into the tree. `BatchSize` is 256 in the code; with two rows a table ends in a full, a part and an empty
batch. `MaxDepth` is the depth at which the thread's stack ends, which only a straying
overflow page makes the walk reach.

**Deadlock.** The check is off in `agent` and `batch` because the layer really
stops when everything started has settled; in `employees` because an empty table (its
lists refused or lost) leaves the clerk nothing to tap; in `registry` because a crash ends the
program; in `files` because the calls are used up; in `repair` because a recovery
ends. Everywhere else it is on.

**Fairness** (only in the `FairSpec`s, `FairLockSpec` and `FairRecoverySpec`). In `RequestAgent`, `HandleRequestResult` is
fair for each request, because the session configuration gives every task a
timeout (60 seconds) and a concurrent queue runs what it is given.
`RunMainQueue` is fair because libdispatch runs posted blocks in order.
`CancelNext` is fair because it is a loop on the main thread. In `BatchRequest`
each request is fair: that is `PromiseSettles`, which the run `agent` checks of
the request layer. In `RWLock`, `Proceed(u)` is fair: a thread that holds the lock
gives it back, and a woken thread runs. In `Recovery`, the work of the recovering
thread is fair; cancelling is not. Starting, stopping
and cancelling are never fair: nobody has to do them. The screens and the session
have no liveness property beyond that of their requests.

**History variables.** They record something the code does not, to say when a
property is owed. `calm` (`Appointments`): since the last refresh that started
alone, no list or modify request failed and no list answer overtook another; in
`FrozenEmployees` it also ends when a list is refused. `good` (`BatchRequest`): above.
`overwrites` (`Session`): a login was written over a live session and cut.
`unseen`: a login was stored although its screen was gone. `pushLost`: the last
alias call did not reach the service, or a handler was cut before making it.
`early` (`Appointments`): a touch came in before the HUD that was to keep it out;
`patient`: the clerk has waited for every answer and no refresh has failed. `sound`
(`Members`): the parts of the screen whose last change was neither late nor lost nor
refused. `astray` (`ResponseCache`): an object was started again before its saves were
done, or loaded in flight, or a data file was not written. `tagged` (`PoolRegistry`): a
database has been opened by tag. `risked` (`DatabaseFiles`): access failed on a file
that is there, or a move was called again after one that was killed. `slipped` (`Recovery`): a
COMMIT failed. `TreesAreOwn`, `OverflowsApart` and `Strays` say the like of a corrupted
file: no tree leads to rows of another table; no cell goes on in a page of a tree; the overflow
page being read leads astray.
Each of them is a case in which the code *does* fall short; see section 5.

**Seeded faults.** Definitions named `Fault...` are the operation they are named
after with a plausible mistake. No specification uses them. `PROJECT.json` pairs
each with the property that must fail when it takes the operation's place:
this shows that every property of every run can fail.

## 4. Theorems

All are proved for every value of the constants, by TLAPS with Z3, Zenon and
LS4.

`RequestAgentProofs` (assumption: `Animated` is a set of requests):

* `TypeCorrect`: `Spec => []TypeOK`.
* `DeliveryCorrect`: `Spec => []DeliveryInv`, the inductive invariant. None of
  the properties below is inductive alone: that a callback block finds a client
  that has not been called depends on there being one such block in the queue,
  which depends on the stage of the task that posts it; and that a stopped
  client hears nothing depends on its blocks and delegate being cleared.
  `DeliveryInv` ties these together: the queue has at most one callback block
  for a request and its cleanup stands behind it (`InOrder`), and for each
  request stage, queue, record, blocks and what was heard agree (`Delivery`). The
  proof takes the actions in four groups (starting, stopping, handling,
  running the queue), and `Untouched` disposes of the requests a step does not
  concern.
* `CalledAtMostOnce`, `RecordedUntilThen`, `StopSilences`: consequences of it.
* `NothingIsRetained`: by `LetGo` on top of it. A request whose result has been handled has
  its cleanup queued, or is out of the record and has no blocks; `CleanupStays` says that only the
  cleanup itself takes it from the queue.
* `ExpiryIsTaken`: inductive on top of `DeliveryInv`, which says that the callback finds a client
  that has heard nothing and that no result changes afterwards.
* `ImplementsPromise`: `Spec => KeepsPromise`. Every step moves each request's
  `status` by a step of `RequestPromise` or not at all.

`BatchRequestProofs` (assumption: the batches have finite, non-empty, disjoint sets
of requests):

* `BatchTypeCorrect`: `Spec => []TypeOK`.
* `BatchesCorrect`: `Spec => []BatchInv`, the inductive invariant. Each batch
  either owes its outcome (it is retained, has its blocks, and each request is
  pending or was a success, one at least pending) or owes nothing (it has neither, and
  no request is pending); and the count is the number of successes. Without the
  last part the test on the count says nothing about the answers. `OneMore` and
  `FullCount` are the two facts about cardinality; `OtherBatch` disposes of the
  batches a step does not concern.
* `SuccessIsWhole`, `SettledIsQuiet`, `RetainedUntilThen`: consequences of it.
* `BatchKeepsPromise`: `Spec => KeepsPromise`; a batch is to its client what a
  request is.
* `BatchUsesRequests`: `Spec => UsesRequestsAsPromised`, the other side of the contract: to the
  requests of a batch only happens what `RequestPromise` allows.

`EmployeeProofs`, of `FrozenEmployees` (assumption: the user is an employee; there is a first
batch):

* `TableCorrect`: `Spec => []TableInv`, the inductive invariant, on top of that of the
  batches (`Proved == INSTANCE BatchRequestProofs`; `BatchesKeep` carries it over). A
  settled table agrees because of what holds before it is settled: with no operation in flight,
  the last batch is, and whatever it has been served is still so. `UpToDate` says that;
  `Lists` says that a batch not yet started has no list and a success has one, and
  `ReloadsLast` that a batch is left for every operation.
* `TableTypeCorrect`, `TableAgrees`: consequences.

`EmployeeProofs`, of `Members` (assumptions: `Nothing` is nobody and no page, `Partial` is no text
that is searched for, the server finds members only, and `MaxRequests` is positive):

* `MembersTypeCorrect`: with `Readable` and `PageThere`, that is, an answer holds the rows that were
  asked for, and a reading or a modification in flight has its page.
* `ListAgreesWithServer`, `ResultsAgreeWithServer`, `PageAgreesWithServer`: consequences of one
  inductive invariant, `Agreement`, which says what is *due* while requests are in flight.
  `OfThePage`: what is being modified or read is the member of the page, and a modification
  in flight is the only one and carries the employee chosen last. For each part of the
  screen that is `sound`, the newest request for it, if it has been served, has the
  rows the screen will need (`ListDue`, `PageDue`); an answer to a search has them whatever was
  searched for since (`SearchDue`). `ResultsDue` says what the results show
  meanwhile: the server's assignments, with the chosen employee for the member of the page
  while a modification of her is in flight. That is what makes the
  advance writing harmless, and it is not visible in a settled state.

`SessionProofs` (assumptions: `None` is no user and no alias; the bounds are
positive):

* `SessionTypeCorrect`: `Spec => []TypeOK`.
* `WritesAreOrdered`: `Spec => []WriteOrder`. `TokenHasItsUser` says nothing of
  the effects still to come, so a step that writes the token could break it;
  `WriteOrder` adds that a token to be written belongs to the user already
  written, or to be written two effects before it, and that a user is replaced only while
  there is no token or the login overwrites.
* `TokenKeepsItsUser`: wherever the process is killed, a token on disk comes
  with its user, save for a login over a live session.
* `ScreenFollowsSession`, `AliasFollowsSession`: both look at what is left of the handler.
  `HandlersEnd` says of each effect still to come which ones follow it; `ScreenDue` and
  `AliasDue`, that the screen, and the last alias call on its way (or the alias, when there is
  none), are the session's, or that an effect which makes them so is still to come.

`AppointmentsProofs` (assumptions: the list of the server has each appointment once; every bound
is a number, page size and `MaxInFlight` are positive):

* `ScreenTypeCorrect`: `Spec => []TypeOK`, with `AllWell` and `Made`: a served list request has
  rows, a request carries what its kind needs, and an object that is shown or asked about was made by
  an answer already received.
* `CodeIsTheCustomers`, `CompletedObjectIsKept`: from `CodeInv`. Until a touch comes early, the
  requests that ask for a code ask for the phone that is remembered (`CodeAsked`), the code view
  expects the code sent to its customer and the date view holds no closed appointment
  (`CodeShown`), and no view is open while a code is asked for to open one.
* `ListHasNoGap`: from `PagesInv`. While requests are in flight the list is not what the
  property says; what holds is that list, page counter and the pages in flight *line
  up* (`Paged`): each page asked for is the one after the request before it, the first follows
  the rows, and the latest is the page the screen has counted.
* `ListAgreesWithTheServer`: from `StatusInv`. As long as a modification is in flight nothing is
  claimed; without one, an answer no later refresh makes up for is up to date (`Current`), and so
  are the rows if no refresh is in flight (`Agreeing`).
* `CompletedIsKept`: from `PatientInv`. A clerk who waits has no request in flight and a settled
  screen, or one request of which `Alone` says, kind by kind, what its answer will make
  of the screen.


`HandlePoolProofs`, of `RWLock` (assumption: there are finitely many users):

* `LockCorrect`: `LockSpec => []RWInv`, the inductive invariant: the counters are the
  cardinalities of those who read, write and wait, a writer is alone, and whoever
  is parked has a reason. Each part needs the others: a wake-up is due when a
  counter reaches zero, which says that nobody is left only if the counters are exact.
* `LockTypeCorrect`, `LockCounts`, `WriterAlone`, `NoLostWakeup`: consequences.
* `LockKeepsPromise`: `LockSpec => ImplementsSharedLock`.

`HandlePoolProofs`, of `PoolRegistry` (assumptions: finitely many databases, `None` is no pool):

* `RegistryTypeCorrect`, without conditions.
* `RegistryCounts`, `RegistrySharesCore`: as long as no database has been opened by
  tag, the count of a path is the number of those who will recycle it, so they share one pool.
* `RegistryLeaksNone`: no pool is left over, with tags too, because the count of an entry is at
  least one and never exceeds its users (`LeakInv`): who opens by tag uses the pool uncounted.
* `RegistryKeepsPromise`: `Spec => SharesCores`, under the same condition.

`DatabaseProofs`, of `DatabaseFiles` (assumption: the paths are distinct):

* `DataStaysWhole`, `MoveAnswersTruly`: for any number of files. The invariant says for each
  place in the call which files have been linked and which removed: while links
  are made every file is still in the source, and a source is removed only once all are linked.

`DatabaseProofs`, of `Recovery` (assumptions: the names of tables are not `sqlite_master` or `none`,
the bounds are positive, and `CorruptedAssumption`; there may be any number of files, of any
size and with any damage):

* `RecoveryTypeCorrect`, `RecoveredRowsAreTheirs`, `RecoveryIsWhole`: consequences of one inductive
  invariant, `RecoveryInv`. A statement is that of the table whose tree is being
  parsed (`Phased`). A page on the stack belongs to that tree, has been visited, and has no torn
  cell behind it (`Walked`); it is the child where the page before it stands (`Linked`). So a
  row that is written comes from the tree of its table, with its values (`AllWell`).
* `RecoveryIsWhole` needs the other direction as well. What the walk has left behind has visited
  children (`ChildrenVisited`) and written rows, unless it is of `sqlite_master`
  (`RowsWritten`); a table the output has passed has a visited root (`RootsVisited`). These
  speak of positions in front of where the stack stands (`Behind`), which is how a cycle is met: a
  child that is not entered because it is being parsed has been visited too.
  When the stack is empty the visited pages contain the root and are closed
  under children, so they contain `Reached(root)`, the least such set: no
  induction over the file is needed.

`ResponseCacheProofs` (assumptions: `Nothing` is nothing else, the cache time is
positive):

* `CacheTypeCorrect`, without conditions.
* `CacheCorrect`: the invariant behind the others, as long as no object goes astray: a save
  that will write has a response of now, the metadata are never younger than the data they
  vouch for (`DataAreAsNew`, what the order of the two writes is for), and a load between its
  two reads has data that are fresh enough.
* `CacheServesFresh`, `CacheTellsTheSource`, `CacheHasData`: consequences.

Only model-checked: `PromiseSettles`, `HudGoes`, `BatchSettles`, `WriterGetsIn` and `RecoveryEnds`
(liveness is out of this prover's reach). Every invariant and every action property of the
passing runs, and every refinement, is a theorem. `SameCore`, which the
run `registry_shared` refutes, is none.

## 5. What the checks say about the code

The properties hold with the conditions they state. The conditions are not
decoration; without them TLC finds behaviours of the code as it is:

* **Page counter.** A refresh resets `_pageIndex` before its answer comes, and
  load-more advances it before the page comes. After a failed refresh the next
  load-more repeats a page; after a failed load-more the next leaves a gap. Hence
  `calm` in `SettledListHasNoGap`.
* **Reopening.** The guard of "modify time" looks at the row. If a refresh
  failed, or with two requests in flight, the row may be older than the
  server's status, and the screen sends `confirmed` for an appointment the server
  has as completed. Hence `patient` in `CompletedOnServerStays`.
* **The HUD is asynchronous.** The accessory shows it from a block it posts to the
  main queue. A touch that is already in the run loop can open a second code request,
  and the code view may then expect the other customer's code. Hence `early` in `CodeOfTheCustomer` and
  `CompletedObjectStays`; the two list properties hold with such touches.
* **Expiry alerts outlive their session.** An alert raised by a call with an old
  token logs out whoever is logged in when its button is pressed.
* **A login is stored for a screen that has gone**, and the root screen does not
  change until the next launch (`unseen`).
* **A batch looks at no result code.** After an expired token the employee screen
  shows an empty table, or everybody as not frozen, and no login alert
  (`RefuseList`). A batch that is overtaken by a later one leaves the older table.
* **Alias calls are not repeated** (`pushLost`): after a lost delete the device
  keeps receiving the pushes of the user who logged out.

* **Searches are not tied to their text** (`sound` in `SettledResultsAgree`): an answer that comes late fills
  the results of another text. A second assignment from a page opened from the results
  is not written into their row, because reading back has replaced the page's object.
* **A cached request is used once** (`astray`). Started again before its save has run, an
  object saves an old response with the date of now; loaded in flight, it hides the
  server's answer; and a data file that cannot be written leaves old data under new metadata.
* **A killed move must not be repeated** (`risked`): the move that is called again clears links which may be the only
  copy of a file whose source has been removed.
* **Old backups and crossed trees** (not `TreesAreOwn`): if a dropped table's root page is another's now, or a
  damaged child leads into another tree, the rows go to the table that comes first.
* **Overflow pages are followed blindly** (`Strays`): the loop looks at no mark and no cancellation, so a cycle is followed for ever.
  It marks what it reads as visited: the root of a table that a damaged cell goes on in is not parsed
  later, and the rows are lost (not `OverflowsApart`).
* **Short rows.** Statement parameters count from 1 and the loop over missing columns from
  0, so a default goes to the column before its own. `RowsAreTheirs` speaks of rows with all columns.

No document, comment, assertion or test of the repository promises otherwise, so
these are listed as hazards and not as findings.

One finding: the header of `initWithExistingTag:` says that all database objects with the
same path share the same core. `GetPool(tag)` iterates over copies of the
entries and so counts in a copy: a database opened by tag is not counted, and when another of the
path goes the next one to open it gets another core. The run `registry_shared` shows the
steps; `registry` and the theorems say what holds until a tag is used.

## 6. Not modelled

* Member consumption loads once; address-book synchronisation is unreachable
  (`needAddressBookCell` returns `NO`); push message display is one pure test, and
  plug-in registration the initialisation of vendored code.
* Chain requests, `MFNetwork` and `HYBNetworking` have no caller in the app.
* The table description layer, cells, navigation and categories are layout and formatting.
* Of WCDB: the handles inside a pool, configurations, delayed checkpoints, transactions and
  the backup of `sqlite_master` are left for later (section 7); the bytes of pages and
  records are constants of `Recovery`; statements, object mapping and tokenizers are pure
  conversions; the Swift and Android ports repeat what is modelled.
* sqlcipher, OpenSSL, AFNetworking, SDWebImage and the other vendored libraries: engines of
  others, present only as the environment of the modules. Most of the lines of
  the repository are theirs, which is why the map covers a small share of it.

## 7. Plan

The handles of a pool on top of `SharedLock` and `SharedCore`, with transactions that keep theirs.
