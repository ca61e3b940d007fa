# go-web-layout: a verification development in TLA+

The program is a small web service in Go. It keeps users in an in-memory SQLite
database and serves them over two APIs at once: gRPC (`CreateUser`, `DeleteUser`)
and REST (`GET /api/v1/users`, `GET /api/v1/users/{userId}`). This directory holds
TLA+ modules that model it, the TLC runs that check them on small instances, and
proofs for TLAPS. Line numbers are those of the repository's files.

## 1. Inventory

| Component | Source | State | Operations |
|---|---|---|---|
| Repository | `internal/infrastructure/db/repository.go`, `sqlc/*.go`, `db/model.go`, interface in `internal/users/repository.go` | the `users` table, its locks; the connection pool; one transaction per listing | `Create`, `GetAll`, `GetByID` |
| Service | `internal/services/createuser.go` | none | `CreateUser` |
| User model | `internal/users/model.go`, `db/model.go` | none | `IsValid`, `Hash`, `newNewUser` |
| Pagination | `internal/pagination/model.go` | none | `NewPageRequest`, `Offset`, `NewPage`, `TotalPages` |
| gRPC API | `api/grpc/server.go`, `config/logging/wideevents.go` | one wide event per RPC | `CreateUser`, `DeleteUser`, the interceptor |
| REST API | `api/rest/users_handler.go`, `gen.go`, `paths.gen.go`, `api.go`, `errors.go` | the response being written; the context and its timeout | `GetUsers`, `GetUser`, two error handlers |
| API documents | `static/swagger-ui/swagger-initializer.js` and `index.html`, `embed.go`, `rest/api.go` 120-130, `resources/openapi.yml` | in the browser: files that arrived, globals, `window.ui` | the file server, `/api/docs`, `window.onload` |
| Process | `cmd/go-web-layout/main.go`, `config/dbconfig.go`, `config/appenv.go`, `config/observability` | providers and their exporters, pool, schema, servers, a channel of one error | `run`, `setupOTelSDK`, `Migrate`, signals |
| Others | logging context, actuators, generated protobuf code, build | none of their own | not modelled, see section 7 |

How they interact. `main` starts an HTTP server and a gRPC server; each serves
every request on a goroutine of its own. REST handlers call `users.Repository`
directly, gRPC handlers through the service. All goroutines share one `sql.DB`.
The context of a request reaches every SQL statement; it ends when the client
leaves, when its deadline passes, or, for REST, four seconds after the request
arrived (`middleware.Timeout`, `main.go` line 101). Wide events travel in the
context from the interceptor to the handlers.

What is hard about it:

* **Interleaving in the database.** `file:test.db?cache=shared&mode=memory`
  (`dbconfig.go` line 20) means table locks that are refused at once ("database
  table is locked"), not waited for, and a database that lives exactly as long
  as one connection to it is open.
* **Cancellation.** When the context of a transaction ends, a goroutine of
  `database/sql` marks it done at once and rolls it back and throws its connection
  away later. That races the queries, the `Commit` and the deferred `Rollback` of
  `GetAll`, which may return while its read lock and connection are still held.
* **Several ways out of one call.** `GetAll` can fail at four places behind
  `BeginTx`; handlers and interceptors turn errors into statuses in five places.
* **State read twice.** Page and total come from two queries; a client follows
  links from pages that grow old while users are created, and gets no link at all
  from a listing that failed.
* **Bytes and characters.** What the code accepts as a username or a password is
  counted in bytes, what the documents promise in characters, and what bcrypt can
  hash in bytes again.
* **Paths.** Handlers put together links and mount a file server behind a stripped
  prefix; a link is only right if the router knows where it leads.
* **Files in any order.** The initializer of the Swagger UI needs two libraries
  that arrive when they like, or not at all.
* **Start and end of the process.** Three providers, a pool and two servers are
  set up in a row, each of which may fail; deferred calls undo them in reverse. The
  process exits under the requests in progress.

What makes each component correct is stated as properties in its module and
listed in section 4; `PROJECT.json` lists the hazards with their lines.

## 2. Modules

| Module | Models |
|---|---|
| `Pagination` | `pagination/model.go` and the meaning of `LIMIT`/`OFFSET`, as operators |
| `UserCalls` | requests and outcomes of `users.Repository` |
| `UserStore` | **abstract specification** of `users.Repository`: each call is one step |
| `UserRepository` | the repository statement by statement, with the pool, SQLite's table locks, transactions and cancellation; implements `UserStore` |
| `UserCallsProofs` | lemmas about rows, pages, requests and outcomes that the proof modules share |
| `UserRepositoryProofs` | inductive invariant and theorems about `UserRepository` |
| `UserRepositoryRefinement` | the proof that `UserRepository` implements `UserStore`, step by step |
| `UserInput` | `IsValid`, `Hash` and `newNewUser` in bytes, the rules of the documents in characters, as operators |
| `GrpcUsers` | interceptor, gRPC handlers and service, over `UserStore` and `UserInput` |
| `GrpcUsersProofs` | theorems about `UserInput`, for texts of any length; inductive invariant and theorems about `GrpcUsers` |
| `RestUsers` | wrappers, REST handlers, error handlers and timeout, over `UserStore` |
| `RestUsersProofs` | inductive invariant and theorems about `RestUsers` |
| `Router` | the routes of the HTTP server and the paths the program puts into links |
| `PageWalk` | a client that follows links of pages and users while users are created |
| `PageWalkProofs` | inductive invariant and theorems about `PageWalk` |
| `ApiDocs` | a browser and the embedded Swagger UI, over `Router` |
| `ApiDocsProofs` | inductive invariant and theorems about `ApiDocs` |
| `AppLifecycle` | `run`, `setupOTelSDK` and `Migrate` |
| `AppLifecycleProofs` | inductive invariant and theorems about `AppLifecycle` |
| `MC*` | constants for TLC |

`UserRepository` and the two API modules meet in `UserStore`: the first is proved
and checked to implement it (`ImplementsUserStore`), the others are built on it
(they EXTEND it and conjoin its actions with theirs) and proved to take no step it
does not allow (`GrpcUsesStore`, `RestUsesStore`). A safety property of an API
therefore speaks of the API over the repository of the program.

Some definitions stand next to a faulty variant of themselves, marked as such
(`ReadOutsideTx` next to `Read`). No specification uses the variants. Each shows
that a property fails when the code has that fault; `PROJECT.json` pairs them
under "mutants".

### UserRepository and the code

A goroutine that serves a request is a member of `Procs`; `pc[p]` is where its
call is. One action is one statement, as SQLite and `database/sql` execute it:

| Action | Code |
|---|---|
| `Call`, `Reject` | entry; `newNewUser` refuses the input (`db/model.go` 15-30) |
| `ConnectErr`, `Connect` | the pool gives out a connection or not (inside every query, and `BeginTx`) |
| `InsertErr`, `Insert`, `InsertClose` | `queries.CreateUser`: `INSERT ... RETURNING` is executed by the first step and committed when `Row.Scan` closes the rows |
| `GetErr`, `GetNotFound`, `Get`, `GetClose` | `queries.GetUserByID` |
| `BeginErr`, `Begin` | `BeginTx`, a deferred `BEGIN` without a lock |
| `ReadErr`, `Read`, `CountErr`, `Count`, `TxDone` | the two queries in the transaction; they fail with `ErrTxDone` behind the watcher |
| `CommitErr`, `Commit` | `tx.Commit` |
| `RollbackDone`, `Rollback` | the deferred function of lines 76-81 |
| `Cancel` | the end of the context |
| `WatchEnds`, `Discard` | `Tx.awaitDone`, the goroutine of `database/sql`: it marks the transaction done (`tx` is "ending"), then rolls it back and discards its connection |
| `Close` | the deferred `Close` in `run` |

External code, modelled from the way the repository uses it (marked external in
the map): the pool keeps at most `MaxIdle` idle connections (2 by default;
nothing sets another value) and has no upper limit of open ones; the watcher of a
cancelled transaction works in two steps, and a call whose transaction is "ending"
gets `ErrTxDone` from its queries and from its `Rollback` and may return before the
second; a `SELECT` takes a read lock
that a transaction keeps until it ends; a read lock refuses a writer and a write
lock refuses everybody. A member of `Procs` is reused for another call when the
watcher of its last one is gone too. A username stands for a user (usernames are unique and
rows are never deleted), and validity is a Boolean of the request.

### GrpcUsers, RestUsers and the code

`UserStore` has four places for a call: "idle", "called", "begun" once it has a
connection (`Start`, which a closed pool refuses), and "answered" while a listing has
its deferred `Rollback` left. `lingers` are the cancelled listings whose watcher is
still to discard a connection (`Discard`), after the call perhaps: they may refuse a
`Create` and lose the database.

`GrpcUsers` follows one RPC from the interceptor (`Receive`) into the handler
(`HandleCreate`, `HandleDelete`), through the store (`Repository`), back
(`Handled`) and out (`Again`, `AnswerUnlogged`, `AnswerLogged`). `event` is the
wide event in the context; `OwnEvent` is the other one, which the interceptor
allocates in line 66 and looks at in line 75. `Again` is line 72: for a request
without an event the handler is called a second time.

`RestUsers` follows one request from the router (`Receive`) through the generated
wrapper (`BindErr`), the checks of the handler (`ParamErr`), the store
(`CallRepository`, `Repository`), the response (`GetUsers`, `GetUser`) and the
deferred function of the timeout (`Finish`). A response is its first status code
and the kind of its body. `Other` is everybody else who uses the store, and `Watcher`
the watchers of cancelled listings. (The gRPC API has no listing.)

`RunEnds`, in both, closes the pool under the requests in progress, and `Exit` is
`main` returning after it: neither waits for them, and nothing happens once `exited`.

A text in `UserInput` is known by its numbers of characters and bytes and by
whether it keeps to the characters openapi.yml allows; `TextOf` gives each username
and password of an instance its text. `InputErr` in `GrpcUsers` is `newNewUser`; the
errors it joins are a set.

### ApiDocs and the code

A path is the sequence of what stands behind its slashes; `Router.Route` is the
router of `gen.go` 504-517 and `api.go` 121-130. `Follow` is the browser that opens
an address, `FileServer` what Go's file server answers it: it sends `index.html` to
its folder and serves the folder with `index.html`. `Embedded` lists the files of the
folder `embed.go` names. `Arrive` is the answer for one of the seven files of the page
(stylesheets, icons, scripts), in any order, or its loss. `RunScript` executes the scripts in the
order of `index.html` 15-17, after the stylesheets, and passes over a lost one;
`WindowLoad` is the load event, which does not wait for icons and at which `Initialize`, the function of
`swagger-initializer.js`, builds the UI, or throws because a library is missing.
`DocumentArrives` is the UI's request for the url of line 6. `Reload` may come at any
time. The two libraries are known by the globals they define.

### PageWalk and the code

`Fetch` and `FindLast` are `GetUsers` of `users_handler.go` 144-189 as the client sees
it: a page, of which it follows one link. `Refuse` is the answer 400 to a page out of
range, `ListingFails` that of lines 148-150: a listing the repository refused, beside a
`Create` or after the timeout, which is answered without links and ends the walk.

### AppLifecycle and the code

The goroutine of `run` is a program counter whose labels are the steps that may
fail; the deferred calls are labels too, and so are the steps of `Migrate`, called
from `run`. `registered` is `shutdownFuncs`, `exporters` the exporters that run,
whether somebody can shut them down or not, `schema` the number of migrations
applied, `srvErr` the channel. `failed` collects what failed, `ret` what of it the
error that `run` returns joins. The code behind `case <-ctx.Done()` cannot be reached, as
`ctx` is the background context, and is left out.

## 3. Bounds

| Run | Instance | Why it is enough |
|---|---|---|
| `UserRepository_calls` | 3 goroutines, 3 usernames, 1 seeded user, 2 page requests, 2 idle connections | a listing, a `Create` and a third call in any order; conflicts are between a reader and a writer or two writers; a page that a `Create` changes and one that it fills |
| `UserRepository_cancel` | 2 goroutines, 2 usernames, 1 idle connection | every step of one call against every step of another with both contexts ending anywhere; with one idle connection the pool both keeps and discards |
| `GrpcUsers*` | 2 RPCs at a time, 2 usernames (of 3 and of 32 characters, one seeded), a plain password of 64 characters and one of 37 characters and 73 bytes; in `_documented` a username of 10 characters and 30 bytes | races for one name, duplicates, the second run of a handler; the first password is the longest the code accepts, the second is fine for `users.proto` and one byte too long for bcrypt |
| `RestUsers*` | 1 request, 1 other goroutine, 2 usernames; page in -1, 0, 1 with `MaxPage` 0; size in 0, 2, 3 with `MaxSize` 2 | requests share nothing but the store, so one is followed and the other goroutine, which creates or lists and may be cancelled, stands for the rest; both ends of each range and a value behind each; `OneFault`: at most one thing is wrong with a request |
| `PageWalk*` | 2 seeded, at most 8 users; sizes 1 to 3; `MaxPage` 7 | full and partly filled last pages, pages that fill up during a walk, starts behind the last page; with size 1 the users just fit |
| `ApiDocs` | the page with its seven files, opened at `/swagger/index.html` or `/swagger/` | the program itself; every order and every loss of the files |
| `AppLifecycle*` | none: three providers, five steps and two files of migrations, two servers, a buffer of one | the program itself |

Goroutines make any number of calls one after the other; the state spaces are
finite because usernames are. `MaxUsers` in `PageWalk` caps the number of users.
Symmetry (`UserRepository_calls`) permutes goroutines and is used without
liveness only. `CHECK_DEADLOCK FALSE` is set where the system ends: the process
(`AppLifecycle`, `GrpcUsers`, `RestUsers`) and a walk (`PageWalk`).

## 4. Runs and what they show

**UserRepository_calls** (passes).
`IdleHoldsNothing`: a call that returned holds no connection, transaction or lock,
whichever way it took; the exception it makes for the watcher of a cancelled listing
never applies here, as nothing is cancelled. `ListingIsSnapshot`: between `GetUsers` and the end of the
transaction nobody changes what was read. `PageMatchesTotal`: a page has as many
users as its total demands. `UsersKept`: rows are only ever added at the end.

**UserRepository_cancel** (passes).
`RInv`, the inductive invariant of the proofs. `LossNeedsCancelledListing`: the
database vanishes only by `Close` or because the watcher of a cancelled listing, which
may have returned, discards the last connection. (That it *does* vanish then is
behaviour of the program: after it every call fails with "no such table".)
`EveryCallReturns`; for calls after `Close` it presumes that the process goes on, which
the API modules do not. `ConnectionsComeBack`: no connection is held for ever, by a
call or by the watcher a returned call left behind. `ImplementsUserStore`: the initial
states and steps of `UserRepository` are those of `UserStore` (`StoreSpec`). `table` is
`store`, `lingers` are the transactions that are "ending", and the operator `status`
says where a call is.

**GrpcUsers** (passes). `HonestAnswer`: an error means that nobody was saved and OK
that the user was, even though the interceptor may run a handler twice (except for a
cancelled RPC, whose user may have been saved, and for the end of `run`, which may
drop the database with the row). `OneOwnerPerName`: no two RPCs are told that they
created the same user. `HashingNeverFails`: what passes the check of the password can
be hashed; it would not, were the limit of 64 one of characters as in `users.proto`.
`EveryRpcAnswered`, unless the process exits first.

**RestUsers** (passes). `GetUserConforms`: one of the documented answers, also under a
timeout. `NotFoundIsTrue`: 404 only if the user was not stored when the request
arrived, even when the table is locked or lost meanwhile. `PageShowsKnown`: total
and content cover the users stored at that time. `EveryRequestAnswered`, unless the
process exits first.

**PageWalk** (passes). `NextWalkInOrder`, `WalkIsComplete`, `WalkEnds`: links lead
through all users, once each, while the table grows, and come to an end, unless a
listing fails on the way. A client that starts behind the
last page is led on by `next` until `MaxPage`, and to one page more, which the
handler refuses.

**ApiDocs** (passes). `NothingIsMissing`: from whatever address the UI was opened, every
reference, the icons too, leads to an embedded file. `BuiltFromWholeScripts`: the page
loads all that its initializer uses, so that a loaded page has its UI exactly when the
three scripts arrived, in whatever order and whatever became of the rest; a page that
forgot one of the libraries would fail it. `DocumentIsShown`: a page that is not
reloaded for ever shows the OpenAPI document unless the page, a script or the document
is lost.

**AppLifecycle** (passes). `CleanedUpOnce`: one shutdown for each provider, the pool
closed, and no exporter left but one whose own provider could not be built. (That
one, and a pool whose migration failed, which `run` is never given, do stay behind: a
leak the process ends with, and which no property forbids.) `CauseIsReturned`: `run` returns whatever ended it, although the join of its deferred
function is lost. `ServesMigratedDatabase`: servers only run over a database with every
migration. `SetupErrorsReturned`, `TelemetryOutlivesDatabase`, `NoSenderIsStuck`,
`FailureEndsProcess`.

Five runs find a disagreement between the code and what the repository says of it:

| Run | Says | Does |
|---|---|---|
| `GrpcUsers_event` | `wideevents.go` 55-56, 81-87 | the logged event is not the injected one: failures are logged as "User created" |
| `GrpcUsers_documented` | `openapi.yml` 428: the username of a user matches `^[a-zA-Z0-9_-]{3,32}$` | `IsValid` counts bytes only, and `main.go` installs no validation interceptor (the one of `server_test.go` 195 is a test's); any text of 3 to 32 bytes is stored and shown |
| `RestUsers_empty` | `openapi.yml` 178-183: 500 with a problem | a listing that fails is answered 200 with no body |
| `PageWalk_self` | `openapi.yml` 410: `self` is the "URL to the user" | it has two slashes before its path (`users_handler.go` 207), for which there is no route |
| `AppLifecycle_interrupt` | `main.go` 162, 167: "Wait for interruption" | an interruption, in the very select that waits for it, kills the process without cleanup |

## 5. Fairness

* `UserRepository`: weak fairness of each goroutine's `Step` and of each watcher's two
  steps (`WatchEnds`, `Discard`):
  the Go scheduler runs every goroutine that can run, and no statement waits for a
  lock. Calls, cancellations and `Close` are never owed.
* `UserStore`: none. It is a safety specification; that calls return is
  `EveryCallReturns` of `UserRepository`.
* `GrpcUsers`, `RestUsers`: weak fairness of the goroutine of each request (`Serve`),
  which includes its call of the store. `Serve` is disabled once the process has
  exited, so nothing is owed to the requests it kills.
* `PageWalk`: the client goes on; nobody has to create users.
* `ApiDocs`: the browser goes on with its work (weak fairness of `Browse`); files may
  be lost, and `DocumentIsShown` excepts the user who reloads for ever.
* `AppLifecycle`: `run` and the two sending goroutines; servers need not fail.

## 6. Proofs

TLAPS checks the theorems below for every value of the constants. Each proof module
states an inductive invariant `IInv` (`RInv` for the refinement) as a conjunction of
named parts, has one lemma per action, or group of alike actions, that it is
preserved, and derives the properties from it. TLC has evaluated every one of these
invariants on the instances of section 3.

How they fit together:

```
 GrpcUsers  --GrpcUsesStore-->  UserStore  <--RepositoryIsAtomicStore--  UserRepository
 RestUsers  --RestUsesStore-->  (StoreSpec)
```

### The repository

`UserRepositoryProofs` and `UserRepositoryRefinement`, for any set of goroutines,
usernames and page requests, any seeded users, any positive `MaxIdle`, with
cancellation and `Close` anywhere:

| Theorem | States |
|---|---|
| `RepositoryInvariant`, `RepositoryTypes` | `Spec => []IInv`, `Spec => []TypeOK` |
| `ListingReadsOneState` | `Spec => []ListingIsSnapshot` |
| `PageHasItsLength` | `Spec => []PageMatchesTotal` |
| `NothingIsLeaked` | `Spec => []IdleHoldsNothing`: but for the watcher of a cancelled listing, a call that returned holds nothing |
| `NothingIsLeaked_NoCancel` | when `MayCancel = {}`, a call that returned holds nothing at all |
| `DatabaseIsKept` | `Spec => LossNeedsCancelledListing` |
| `AnswersRestOnTable` | `Spec => []RInv` |
| `RepositoryIsAtomicStore` | `Spec => ImplementsUserStore` |
| `RowsStayWhileLive` | no step that leaves the database alive removes a row |
| `RowsStay_NoCancel` | `Spec => UsersKept`, when `MayCancel = {}` and `MayClose = FALSE` |

Assumptions: those named in `UserCalls` and `UserRepository` (seeded users are a
sequence of usernames; page requests are not negative, which `NewPageRequest`
ensures; `MaxIdle` is positive; `None` is no goroutine; `MayClose` is a Boolean).

The argument. `ListingIsSnapshot` is not inductive: it needs to know that a listing
at "count" or "commit" holds its read lock (`LockInv`), that a writer and readers
exclude each other (`LockInv`), that only the call at "inserted" is the writer, and
which calls and watchers hold a connection (`ConnInv`), because losing the last connection
empties the table: whoever closes the last connection is then the only possible
lock holder. A watcher whose transaction is "ending" is in both: it may hold a lock and
a connection at any label of its call, and after it. `OpInv` ties labels to operations. `PageMatchesTotal` follows at
`Commit` from `ListingIsSnapshot` and `PageOfLength`, a lemma on `SubSeq`.
`DatabaseIsKept` needs that a connection returned to an open pool is kept or leaves
an idle one behind (`PutConnFacts`, where `MaxIdle > 0` is used).

The refinement needs more than `IInv`. A call answers at a later statement than the
one that read the table: `GetClose` returns a user that `Get` found, `InsertClose`
commits a row that `Insert` found to be new. `AnswerOK` says that what was found is
still so, and that a transaction only ends early in a call that was cancelled, and
`OthersKept` that no other goroutine can shake it: whoever holds a
lock keeps writers away, and whoever loses the database with the last connection
shows that nobody else had one. Each action is then one step of the store, or none:
a listing takes effect at its `Commit`, a creation at `InsertClose`, an error when it
is decided; `RefusedMayFail` finds, for a "locked" of SQLite, the other call, or the
watcher of one that returned, that `UserStore` wants for an excuse.

`RowsStay_NoCancel` has the constants of `UserRepository_calls` as its hypothesis:
with cancellation the property is false, which is why that run has none.

### The gRPC API

`GrpcUsersProofs` first proves, for texts of any length: `AcceptedPasswordIsHashed`
(64 bytes are within the 72 of bcrypt), `PlainTextAgreement` (the code and
`users.proto` accept the same texts of one byte per character) and
`AcceptedIsNotTooLong` (what the code accepts beyond them has too few or other
characters, never too many). Then, for any number of RPCs at a time, any usernames
and passwords with any texts, and any seeded users:

| Theorem | States |
|---|---|
| `GrpcInvariant`, `GrpcTypes` | `Spec => []IInv`, `Spec => []TypeOK` |
| `AnswersAreHonest` | `Spec => []HonestAnswer` |
| `NamesHaveOneOwner` | `Spec => []OneOwnerPerName` |
| `HashNeverFails` | `Spec => []HashingNeverFails` |
| `GrpcUsesStore` | `Spec => StoreSpec` |

Its assumptions are `SeedAssumption` and `TextOfAssumption`. `HonestAnswer` speaks of
answered RPCs; the invariant follows the promise back through the interceptor:
`PlaceInv` ties the place of an RPC to its call of the store and to how often its
handler ran, `HonestInv` says at each place what was saved and what will be answered.
`OneOwnerPerName` needs `OwnerInv`: whoever was told of a creation, or is about to be
(`Claims`), has its row in the store for as long as the database lives, and no other
RPC claims the same name; that rests on the UNIQUE constraint in `UserStore.Create`
and on the database never coming back after it was lost. A step of one RPC changes
nothing for another (`SameKeeps`), so each action has a lemma for its own RPC.

### The REST API

`RestUsersProofs`, for any number of requests and of other users of the store, any
usernames, and any page and size parameters with any limits:

| Theorem | States |
|---|---|
| `RestInvariant`, `RestTypes` | `Spec => []IInv`, `Spec => []TypeOK` |
| `UserAnswerConforms` | `Spec => []GetUserConforms` |
| `MissingMeansMissing` | `Spec => []NotFoundIsTrue` |
| `PageShowsWhoWasThere` | `Spec => []PageShowsKnown` |
| `RestUsesStore` | `Spec => StoreSpec` |

It assumes that seeded users are a sequence of usernames, that parameters and limits
are integers, and that a page and size the handler accepts are a page request of the
store (`AcceptedAssumption`). `NotFoundIsTrue` and `PageShowsKnown` compare a response
with `known`, the users stored when its request arrived, several steps earlier.
`KnownInv` keeps `known` within the store for as long as the database lives: users
only join (`StoreMove`). The store answers with what is true at one moment
(`TrueOutcome`), and `TruthInv` carries that from there to the handler and to what was
written, whatever the store does in between. `PlaceInv` says where the call of the
store is while the timeout fires, so that the response is written by one of the
handler, the error handler and the timeout.

### Walks over the pages

`PageWalkProofs`, for every page size, every `MaxPage` and any number of users there
or joining:

| Theorem | States |
|---|---|
| `WalkInvariant`, `WalkKeepsTypes` | `Spec => []IInv`, `Spec => []TypeOK` |
| `NextWalkKeepsOrder` | `Spec => []NextWalkInOrder` |
| `WalkShowsEverybody` | `Spec => []WalkIsComplete` |
| `OwnPathsAreRouted` | `Router.Route` leads the path of a user to `GetUser`, for every id |
| `SelfIsNotRouted` | and its link `self` nowhere, for any id |

Neither `NextWalkInOrder` nor `WalkIsComplete` says where the link points that comes next, and both rest on
it. `NextInv`: what was seen ends where the next page begins, and there is somebody on
it. `PrevInv`: what was seen begins where the next page ends, and is all that lay
behind it at the start. The arithmetic is in lemmas of its own: `TotalPagesFacts` (the
quotient rounded up), `LastPageFacts` (the last page reaches the end of the table, and
a page before it is full), `PageFacts` (which users `LIMIT`/`OFFSET` selects),
`FetchFacts` (what a page adds to what was seen).

### The process

`AppLifecycleProofs` proves `LifecycleInvariant`, `LifecycleTypes`, `ExitCleansUpOnce`
(`CleanedUpOnce`), `RunReturnsItsCause` (`CauseIsReturned`), `SetupErrorsAreJoined`
(`SetupErrorsReturned`), `DatabaseClosesFirst` (`TelemetryOutlivesDatabase`),
`ServersFindTheirTable` (`ServesMigratedDatabase`) and `BufferIsLargeEnough`
(`NoSenderIsStuck`). The module has no constants: TLC checks all of it, and the proof
says why it holds. The properties speak of the end of the process or of the labels
behind the select; the invariant says what there is at each label before.
`TelemetryInv`: exactly the initialised providers export, until they are shut down.
`DatabaseInv`: the database is open from `sql.Open` to the deferred `Close`, and
migrated once the first server starts. `ErrorInv`: before run leaves, nothing has
failed but servers. `ServerInv` counts `Pending`, the errors in the buffer and those
that servers may still send: none before the first server, one per server started, and
one less once run has received one, which is the capacity of the buffer; a server that
fails or sends changes its summands and not their sum.

### The API documents

`ApiDocsProofs` proves `DocsInvariant`, `DocsTypes`, `EveryReferenceIsServed`
(`NothingIsMissing`) and `UiNeedsItsScripts` (`BuiltFromWholeScripts`), from
`LinksAssumption`: a user opens the page at one of the two addresses the file server
has it at. `PageIsServed`, `FilesAreServed` (for all seven files) and
`DocumentIsServed` follow the paths through the router, the stripped prefix and the
file server; `ScriptsInv` ties the globals to the scripts that ran and arrived, and
`UiInv` the UI to the globals at the load event.

### Only model-checked

Liveness (`EveryCallReturns`, `EveryRpcAnswered`, `EveryRequestAnswered`, `WalkEnds`,
`ConnectionsComeBack`, `DocumentIsShown`, `FailureEndsProcess`) stays with TLC: the
prover has no rules for `ENABLED`, on which weak fairness rests. The five disagreements of section 4 are counterexamples, found by
TLC; for `self`, `SelfIsNotRouted` proves that it is so for every user.

## 7. Not modelled

* OpenTelemetry spans, metrics and loggers: only that providers and exporters start,
  fail and are shut down (`AppLifecycle`).
* Actuators: constant answers. Loggers carried in a context: no state of their own.
* Generated protobuf code, mocks, build tasks, the vendored bundles of the Swagger UI.
* The migration engine: which files are applied, not how.
* JSON encoding, selection of fields, queries of URLs beyond the page number.
* `ValidationError` (`rest/errors.go` 9-48): nothing constructs one.
* The time bcrypt takes; directories of the file server other than the root, which
  the embedded folder does not have.
* The validation interceptor of protovalidate: only the tests install it. The rules it
  would enforce are `ProtoAccepts`.

## 8. Plan

Done, in this order: `Pagination`, `UserCalls`, `UserRepository` with its runs and
its invariant proved; `UserStore` and the refinement; `GrpcUsers`, `RestUsers`;
`PageWalk`; `AppLifecycle`; then `Router`, `ApiDocs`, `UserInput`, the migrations and
exporters in `AppLifecycle`, the end of `run` and of the process under requests, links to users,
and the proofs about `UserInput`, `GrpcUsers` and `PageWalk`.

Then the safety part of the refinement, the proofs about `RestUsers`, `AppLifecycle`
and `ApiDocs`, the type of `PageWalk`, and the two theorems that tie the APIs to the
store. Every invariant and every action property that a passing run checks is now
stated by a theorem.

Left to prove: that `Router.Route` gives one handler to each path a client can ask
for, as its patterns overlap nowhere; for `PageWalk`, that a walk of `next`
takes no more steps than there are pages, the safety part of `WalkEnds`.
