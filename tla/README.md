# A verification of the go-hexagonal-starter user API

This directory specifies and verifies the program in `src/`: a REST API for
user accounts in Go, built as ports and adapters over Postgres.  It holds TLA+
modules that model the program, TLC configurations that check them on small
instances, and proofs, checked by TLAPS, that hold for every instance.

Paths below are relative to `src/`.  `service` stands for
`internal/service/user_service.go` and `repository` for
`internal/adapter/postgres/user_repository.go`.

## The system

| Component | State | Operations | Talks to |
|---|---|---|---|
| Domain (`internal/domain/user.go`) | none | entity, validation rules, domain errors | – |
| User service (`service`) | none of its own: local variables of each call | Register, Authenticate, GetByID, List, Update, Delete | repository, token issuer, bcrypt, clock, `uuid.New` |
| User repository (`repository`) | the table `users` (primary key `id`, unique `email`) | Create, GetByID, GetByEmail, List, Update, Delete, Ping | connection pool, Postgres |
| Tokens (`internal/adapter/auth/jwt.go`) | the secret | Issue, Parse | clock |
| HTTP handlers (`internal/adapter/http`) | none | bind, call the service, map errors to a status | service |
| Middleware (`internal/adapter/http/middleware`) | request-scoped values | request id, tracing, recovery, log, metrics, auth | tokens |
| Health (`health_handler.go`) | none | liveness, readiness | pool |
| Process (`cmd/api/main.go`) | server, pool, signal and error channels | start, serve, shut down | all of them |
| Migrations (`platform/database/postgres.go`, `migrations/`) | `schema_migrations`: version and dirty flag | up | Postgres |
| Configuration (`platform/config`) | environment | load, validate | – |
| Metrics, tracing, logging (`platform/...`) | counters of each process, exporters | register, record | service, middleware |

**How they interact.**  Every request runs in a goroutine of its own, through
the middleware and a handler into one service method.  The service makes
several calls to the database for one request and *holds no transaction and no
lock over them*: each repository method is one auto-committed statement.
Replicas of the API share nothing but the database.  So everything that is hard
about this program happens between the statements of different calls.

**What is hard.**

* Check-then-act.  Register looks for the address (`service:39`) and then
  inserts (`:65`); Update reads the row (`:142`), looks for the new address
  (`:168`) and then writes (`:182`).  Other calls get in between.
* Stale copies.  Update writes back every mutable column of the row it read
  earlier; Authenticate issues a token for a row read before (`:81`, `:96`).
* Statements whose answer is lost: a deadline, a cancelled request or a broken
  connection gives an internal error for a write that may have been committed,
  or that Postgres commits only later, when nobody waits for it any more.
* Replicas that die with calls in flight.
* The rules that admit a name differ: Register measures the trimmed name and
  stores it trimmed, Update measures and stores what it was sent.
* bcrypt refuses passwords of more than 72 bytes at registration and ignores
  what follows the 72nd byte at login.
* Start-up and shutdown order, several replicas migrating at once, a migration
  interrupted half way, readiness while the pool is exhausted.
* Tokens that outlive the account they name, with an expiry cut to whole seconds.
* Four sets of rules for the same fields: the bodies of register, login and
  update are bound by different ones, and the service has its own; the same
  password is measured in characters by one and in bytes by the next.
* A panic unwinds through a chain of middlewares, and what each of them does
  after `c.Next()` happens or not by its place in it.
* Pages cut by offset from a table that changes between two pages.
* Numbers converted without a range check, and a float that no comparison catches.

`PROJECT.json` lists these hazards line by line under `hazards`, each with the
properties that catch it.

**What makes each component correct.**

* *Domain*: what the rules let in is valid once stored.
* *Repository*: each outcome says truthfully whether the statement took effect;
  the table constraints hold; an update never creates a row.
* *Service*: one account per address; only valid rows; deleted accounts stay
  deleted; a definite answer is a true one; a token follows from a password
  that was presented; every call ends.  And, as the summary of what callers see,
  each call acts on the accounts at an instant of its own (`UserDirectory`).
* *Tokens and auth middleware*: a request is let through only with a token this
  service issued, until it expires.
* *Handlers*: every error reaches the client with its status, none is a success.
* *Middleware*: every request is logged and counted once, with the status sent.
* *Process*: the pool outlives the statements that use it; a failed listener or a
  signal ends the process; a graceful stop leaves no accepted request behind.
* *Migrations*: however many replicas start, and wherever one dies, the schema
  is the last version or the start fails.
* *Paging*: a client that reads to the end misses, or sees twice, no more than
  the deletes and inserts under way account for, and does come to the end.
* *Configuration*: what was asked for is what is set up, or the start fails.
* *Counters*: they can be read against the table.

## The modules

| Module | What it is |
|---|---|
| `Domain` | the entity and the rules (`internal/domain/user.go`, and those `service` adds) |
| `UserRepository` | each repository method as the set of outcomes it can have on a table |
| `UserService` | the state machine: goroutines in replicas running service methods over the table |
| `UserDirectory` | the abstract specification: what callers are promised, without goroutines or statements |
| `UserServiceProperties` | type invariant, safety, action and liveness properties, the refinement mapping |
| `Lifecycle` | one process from start to exit: `run`, the server goroutine, requests, the pool (`cmd/api/main.go`) |
| `LifecycleProperties` | its type invariant, safety and liveness properties |
| `WebAPI` | the HTTP layer composed with `UserService`: binding, bearer tokens, handlers, statuses |
| `WebAPIProperties` | what the API's clients can rely on |
| `OperationCounts` | the counters of the service's answers, composed with `UserService` |
| `Middleware` | one chain of middlewares per request: inwards, outwards, or unwinding (`router.go`, `middleware/`) |
| `Migrations` | replicas that migrate one database as they start (`RunMigrations`) |
| `Paging` | `GET /users` through its three layers, and a client that reads all pages |
| `Config` | the numbers of the environment on their way to the tracer and the pool |
| `MCValues`, `MCRegistration`, `MCAccounts`, `MCLifecycle`, `MCWebAPI`, `MCMiddleware`, `MCMigrations`, `MCPaging`, `MCConfig` | the small instances TLC checks |
| `UserServiceProofs` | the outcomes of each statement, type correctness and the safety of the service, and that it implements the directory |
| `OperationCountsProofs` | that the counters can be read against the table |
| `LifecycleProofs` | types and safety of the life cycle |
| `MigrationsProofs` | types and safety of the migrations |
| `WebAPIProofs` | the safety of the API, on top of the theorems of the service |
| `MiddlewareProofs`, `PagingProofs`, `ConfigProofs` | types and safety of these three |

### Domain

Data is abstracted to what the rules tell apart.  An address is the text it
normalises to, and whether it is already in that form (`strings.ToLower` and
`TrimSpace` set `tidy`).  A name is its trimmed text and the number of blanks
around it, so that its length before and after the trim can differ.  A password
is a value with a length and its first 72 bytes; a hash *is* the password it
was made from, and `Matches` compares it with the first 72 bytes of what is
presented.  `ValidateRegister` and `ValidUpdate` are two operators since the
code has two sets of rules.

### UserRepository

A method is a set of records, one for each way the statement can end.  A read
answers `[user, err]`; a write `[table, err, wrote]`.  Every set contains the
failure `"internal"`; a write that can be applied can fail before or after its
commit (`Applied`).  One that is committed after its method has answered is not
an outcome of the method: it is a step of its own in `UserService`, with the
outcomes of the same operator on the table as it is by then.  `Create` and `Update` contain the table's constraints
(`migrations/000001_create_users_table.up.sql`), and the translation of a
violated constraint into `ErrConflict` and of no affected row into
`ErrNotFound`.  The service chooses one member with `\E`.

### UserService

`users` is the table; `minted` the ids `uuid.New` has returned.  For each goroutine, `pc` is where it is in its method, `req` the
arguments, `user` the local variable of that name, `reply` what the method
returned last, `left` the write statement that still ran when it returned.  `born` (each row as first inserted) and `wrote` (whether the
write statement took effect) are history variables: no guard reads them.

A method is cut at the calls another goroutine can observe or that can fail:
one action per repository call, clock reading or token issue, with the code up
to the next cut in the same action.  A reading of the clock is any of `Readings`:
each replica reads the clock of its host, and nothing is assumed of how those
agree or in which direction they move.

| Action | Code in `service` |
|---|---|
| `RegisterCall` | a call with one of `RegisterInputs` arrives |
| `RegisterCheck` | 32–47: normalise, trim, validate, `GetByEmail` |
| `RegisterBuild` | 49–63: bcrypt, `time.Now`, `uuid.New` |
| `RegisterInsert` | 65–70: `repo.Create` |
| `AuthenticateRead` | 75–94: `GetByEmail`, `CompareHashAndPassword` |
| `AuthenticateIssue` | 96–102: `tokens.Issue` |
| `GetRead` | 107–118 |
| `UpdateRead` | 142–167: `GetByID`, field rules, new name set on the copy |
| `UpdateCheck` | 167–179: `GetByEmail` when the address differs from the copy's |
| `UpdateStamp` | 181: `time.Now` |
| `UpdateWrite` | 182–187: `repo.Update` with the whole copy |
| `DeleteRow` | 192–202 |
| `Abandon` | the context of a write ends, or its connection (65–69, 182–186, 192–200): the method answers with an internal error, the statement is left to the database |
| `Settle` | the database commits or cancels that statement, at any later time |
| `Crash(r)` | replica `r` dies: its calls get no answer, its commits stay, its running statements are left to the database |

### UserDirectory

What a caller may rely on, in terms of accounts alone.  Register, Get, Delete
take effect at one instant.  A login has two instants: it *recognises* the
account, and later answers for the account as it was then.  An update has two:
it *looks* at the fields it was not asked to change, and later writes them back
with the new ones.  That is weaker than one would like, and it is exactly what
this code gives: see the findings.  A change answered with an internal error, or
lost with its replica, may still be to come: `GiveUp` and `Lose` set its client
`adrift`, and `Late` is the change when it comes, once at most.
`ImplementsDirectory` maps the service onto
it: `seen` is the row a login holds, or the fields an update holds and was not
asked to change; a goroutine with a statement left running counts as being at
that statement (`At`), and its client is adrift.

### Lifecycle

`main` is where `run` is: the tracing exporter, the pool, the migrations, the
server goroutine, `signal.Notify`, the `select`, `srv.Shutdown`, and the
deferred `pool.Close` and tracing shutdown, which every return goes through
from the line that registered them.  `err` is what `run` returns, or
`"killed"`.  `stop` and `errCh` are the two channels of capacity one.
`server` is where the goroutine of `ListenAndServe` is, `inShutdown` the
server's own flag.  A request runs its statements one after the other
(`Statements`): for each it asks the pool (`Acquire`), waits, gets a connection
(`Grant`) and gives it back (`EndStatement`); it may answer early or lose its
client (`HangUp`).  `/readyz` is a request with one statement, `/healthz` one
with none.

| Action | Code in `cmd/api/main.go` |
|---|---|
| `InitTracing` | 46–77 (a failure of the configuration ends it the same way) |
| `OpenPool`, `Migrate` | 86–94 |
| `Serve`, `Listen`, `AcceptFails` | 114–129 |
| `Notify`, `Select` | 131–139 |
| `Shutdown`, `Drained` | 141–147 |
| `ClosePool`, `PoolClosed`, `StopTracing` | 90, 78–84, 39–44 |
| `Signal` | the environment: fatal before line 132, afterwards put in `stop` or dropped |

What `net/http` and `pgxpool` do is modelled from how they are used: a server
that was shut down does not start to listen; `Shutdown` returns nil only when
no request is in flight; a closed pool refuses connections and its `Close`
waits for those in use.

### WebAPI

A request that is let through *is* a call of `UserService`: `PostRegister`,
`PostLogin`, `GetUser`, `PutUser`, `DeleteUser` conjoin the service's call
action with the binding rule and, on the routes on users, with a token of
`issued` that parses by the clock of some host (`Authorized`).  A request that is
turned away (`TurnAway`: a body that does not bind, an id that is no UUID, no
valid token) leaves the service as it was.  `Handle` is a step of the service method; a
login that succeeds adds a token to `issued`, with the instant of issue and the
expiry cut to whole seconds.  `bearer` is the token a request came with and
when, `refused` the status of one turned away.  `Status` is the code the
handler and `mapError` make of the service's answer.

| Operator or action | Code in `internal/adapter` |
|---|---|
| `BindRegister`, `BindLogin`, `BindUpdate` | `http/dto.go`, `user_handler.go` 90–98 |
| `PostRegister`, `PostLogin` | `http/auth_handler.go` |
| `GetUser`, `PutUser`, `DeleteUser`, `BadID` | `http/user_handler.go` |
| `Authorized`, `Unauthorized` | `http/middleware/auth.go` |
| `AuthSuccess`, `UserSuccess`, `MapError`, `Status` | the handlers of both files, `http/errors.go` 13–33 |
| `Issue`, `Expiry`, `Parses` | `auth/jwt.go` |

The instants of this module may be finer than seconds (`Second` ticks each), and
`TTL` is any integer, as `JWT_EXPIRY` is any duration.

### OperationCounts

`counted` is, for each replica, a bag of `<<operation, result>>`.  The commit of a
statement and the increment that follows it are two steps, and others see the row
in between: `CountedStep` is a step of a service method, which leaves in `due` the
label the code puts on the answer; `Count` is the call of `incUserOp` or `incAuth`
that comes next.  A statement left to the database was counted as an error when
its method answered; its late commit is counted by nobody (`Uncounted`).
`Restart` is a crash that takes the replica's counts, and the increments it was
at, with it.  `died` is a history variable.  `Total` adds the replicas' counts up, as
the number of `Ticks`: a set in place of a sum, which a proof can reason about.

### Middleware

`at` and `dir` say where a request is in its chain (`Chain`) and which way it
goes: `in`, `out` or, after a panic, unwinding.  `status` is what the
`ResponseWriter` holds, `sent` what went out on the wire: the two differ when
the status is set without a body.  `seen` is what the tracer, the access log
and the counters recorded.  `RequestID`, `Enter`, `Auth`, `Handle`, `Panic` are
what happens on the way in, `Leave` and `Unwind` on the way out; `Recover` is
`AbortWithStatusJSON` of `recovery.go`.

### Migrations

`version`, `dirty` are the row of `schema_migrations`, `applied` counts how often
the statements of each migration were committed, `lock` is the advisory lock,
`pc` where each replica is in `RunMigrations`.  `Open` is `migrate.New`; `Lock`,
`ReadVersion`, `Mark`, `Apply`, `Clear`, `Unlock` are the steps of `Up`, each a
commit of its own; `Check` is `Version`.  `LockTimeout` is golang-migrate giving
up its wait for the lock; the statement that asked for the lock goes on, and the
deferred `m.Close` waits for it (`abandon`): when the session gets the lock after
all (`LockLate`), it gives it back by closing.  `StatementFails`, `Disconnect` and
`Die` are the other failures, and `Start` starts a failed process again.

### Paging

`rows` are the accounts, `Created` their stamps; the client's `limit` and
`offset` go through `Atoi` (with its error ignored), the service's clamps
(`PageSize`, `PageStart`) and the statement (`Pages`: any order that
`ORDER BY created_at DESC` admits).  `got` is what the client has received.
`Register` and `Delete` come in between, a registration with any stamp, since the
stamp is read before the row is committed.

### Config

The environment is an initial value.  `Load` is `config.Load` with each of its
checks, `TracingInit` and `NewPool` use what it returned.  `OpenIdle` is the
goroutine in which pgxpool opens the least number of connections: a negative
number is the size of a channel there, a panic that ends the process.  A variable is unset,
not a number, or a number as written; `MaxInt` and `MaxInt32` are the largest
`int` and `int32`, and `int32` keeps the low bits, read as a signed number.

## What the runs check

All runs of the service allow every statement to fail on either side of its commit,
every write to be committed after its answer, and every replica to die at any moment.

| Run | Instance | Shows |
|---|---|---|
| `registration_race` | empty table, 3 goroutines in 2 replicas, 3 calls, 3 ids, six registration bodies (one address in two spellings, a name valid only once trimmed, a blank name, a short and an over-long password, an address without `@`), reads and deletes; `CountsSpec` | `TypeOK`, `EmailsUnique`, `CountsBacked` |
| `account_races` | two stored accounts, 2 goroutines in 2 replicas, 3 calls among all operations, updates to an address in use, to a blank name and to names of 100 and of 101 bytes among them; `FairSpec` | `StoredValid`, `HonestAnswers`, `TokenSound`, `StaysDeleted`, `ImplementsDirectory`, `CallsReturn` |
| `shutdown` | one process, an update (3 statements), a registration (2) and a readiness probe (1) on 2 connections, 2 signals; `FairSpec` | `LifecycleTypeOK`, `GracefulStop`, `NoStatementCut`, `ProcessEnds`, `RequestsEnd` |
| `api` | one account and a free id, 2 goroutines of one replica, 3 calls, clocks that read 0 to 2, 2 ticks to a second, tokens that live for 2; bodies on either side of each rule (an address with `@` that is not well formed, a name of 60 characters and 120 bytes, a password of 4 characters and 8 bytes, an empty update) | `LifetimeExact`, `TruthfulStatus`, `LoginStaysPossible`, `PasswordsLongEnough`, `OnlyBearersChange` |
| `migrations` | 3 replicas, 2 migrations; `FairSpec` | `MigrationsTypeOK`, `SchemaReady`, `AppliedInOrder`, `CutShortStaysVisible`, `StartEnds` |
| `middleware` | a request for a protected route, one for a noisy path, one by another method to such a path | `MiddlewareTypeOK`, `RecordedAsSent`, `EveryRequestAnswered`, `EveryRequestTraced` |
| `paging` | 4 accounts, two with one stamp; limits left out, junk, out of range, negative, 1; `FairSpec` | `PagingTypeOK`, `MissesOnlyByDeletes`, `RepeatsOnlyByInserts`, `PagesFilled`, `ScanEnds` |
| `config` | an int of 6 bits (`MaxInt` = 31), an int32 of 4 (`MaxInt32` = 7) | `ConfigTypeOK`, `PoolAsAsked`, `SampledAsAsked` |
| `partial_update` | one account, two updates | the comment on Update is violated (finding) |
| `stale_conflict` | one account, two updates | the comment on `ErrConflict` is violated (finding) |
| `panic_unrecorded` | one request | a comment and a help text are violated (findings) |
| `ratio_nan` | as `config`, with NaN | an error text is violated (finding) |

**Bounds.**  `MaxCalls` bounds the calls received, `MaxTime` what a host's clock reads,
`UserID` the ids, and `FreshIDLeft` lets a registration in only if an id is left for
it.  Each race above needs at most three calls: two that overlap and one that
deletes, renames or registers in between; a conflict needs two addresses or
one address twice.
Two replicas are enough for one to die while the other goes on.
`MaxTime` is 0 where stamps play no part.  The table and inputs hold every
class of value the rules distinguish, at both sides of each boundary (names of
0, 100 and 101 bytes; passwords of 0, 7, 8, 72 and 80 bytes).  A process lives
once; its second signal meets a full or an emptied channel, and three requests on fewer connections make some wait while others
hold what they wait for.  `Quiesce` (and `Exited` for a process) lets
the bounded system stop when all calls have ended, so deadlock is checked in
every run and would show a call that is stuck.  `registration_race` uses
symmetry in the ids, and in the two goroutines that share a replica and have
the same inputs; `api` in its two goroutines, of one replica; no liveness
property is checked there.

In `api` a token is issued on a whole second, with an expiry cut by nothing, or
half-way to the next, with one cut by a tick; it is presented before and after.
Three calls are a login, a request with its token, and another that deletes its
account in between.  Accounts may race there as well; the races proper are those
of `registration_race` and `account_races`.  Three replicas are one that holds the lock, one that waits for it and one that
comes after either; two migrations are an earlier and a later one, with a death
between any two of their steps.  A chain is at most seven long and requests share
nothing, so one request of each kind is enough.  Four accounts with pages of one
to three give several pages, a last one that is short, and a change before,
within and behind what was read.  Small widths put both overflows of an `int32`,
and one that wraps to a positive number, in reach of a small `int`.

**Fairness.**  `FairSpec` assumes weak fairness of each goroutine's own steps:
the Go scheduler runs every runnable goroutine, and every statement ends with
an answer or an error, as pgx returns when the context does.  Nothing is assumed of callers,
of crashes, or of a statement that was left to the database: a call ends because its goroutine finishes or its replica dies.
Without a retry or a wait for other calls no more is needed; the property would
fail if a method started over when its statement fails.

The `FairSpec` of `Lifecycle` assumes that the main goroutine and the server
goroutine are scheduled, that a request in progress proceeds (its statement
ends, it answers), and that the pool grants connections fairly, as the queue
behind `pgxpool` does.  A deadline that never passes would be a `Drained` that
is never taken although enabled, which weak fairness of `Main` excludes.
`ProcessEnds` depends on the statements ending: after `Notify` a further signal
cannot interrupt a `pool.Close` that waits for one that hangs.

In `Migrations` weak fairness of `Advance` says that a migrator's statements end.
No wait for the lock is limited: `migrate.New` waits for as long as it takes, and
the limit golang-migrate sets to the wait of `Up` is undone by the `m.Close` that
waits on.  Strong fairness of `Granted` (`Open`, `Lock`, `LockLate`) says that
each of these gets the lock in the end if it is free again and again, since
Postgres serves waiters in their order.  Without that a crowd of restarting
replicas could keep one out.  In `Paging` the client goes on asking and the database does not fail
every time (`WF(List)`); nothing is assumed of those who register and delete.

**Mutants.**  For each property of a passing run `PROJECT.json` names a
plausible bug in the code, such as a missing unique constraint, an update that
inserts the row it does not find, an ignored `RowsAffected`, or a
forgotten trim; the mutated model violates the property.  The mutated
definitions stand just before the ones they change and say "Not the code".

## Findings

They concern comments and texts of the repository that the code does not live up
to.

1. `service:140`: "Update applies partial updates to a user."  The code writes
   name *and* address of the row it read at line 142.  A rename that overlaps a
   change of address puts the old address back, and both calls succeed
   (`partial_update`, property `PartialUpdate`).
2. `internal/domain/user.go:14`: "ErrConflict is returned on a duplicate or
   unique-constraint violation."  Line 173 takes any holder of the new address
   for another account.  When the same change of address is sent twice and the
   calls overlap, the second finds the account itself and is refused as a
   conflict (`stale_conflict`, property `ConflictMeansDuplicate`).
3. `middleware/logger.go:17`: "RequestLogger logs each HTTP request with
   structured fields and trace correlation."  It sits inside Recovery and logs
   after `c.Next()`, so that a panic unwinds past it (`panic_unrecorded`,
   `EachRequestRecorded`).
4. `platform/metrics/metrics.go:35`: "Total number of HTTP requests".  The counter
   is passed over in the same way (same run and property).
5. `platform/config/config.go:65`: "OTEL_TRACES_SAMPLER_ARG must be between 0 and
   1".  NaN is accepted (`ratio_nan`, `RatioInRange`).

Two more things were met that no run is spent on.  `middleware/request_id.go:10`
says that the id is put on the Gin context, the request context and the response
header; `RequestID` leaves the request context as it was.  And a conflict met by
the look-up is counted under `conflict`, one met by the unique constraint, in a
race, under `error`, though both are answered alike (`Label` in
`OperationCounts`): the rate of conflicts on a dashboard is too low by the races.

## What is proved

TLAPS checks these for all values of the constants, that is for any number of
goroutines, replicas, accounts, calls and inputs, of requests, connections
and signals, of replicas and migrations, for any readings of the clocks and any
lifetime of tokens,
any order of stamps, any limit of a page and any width of the integers.  Every
safety property that a run checks is among them.

| Theorem | States |
|---|---|
| `TypeCorrect` | `Spec => []TypeOK` |
| `UniqueEmails` | `Spec => []EmailsUnique` |
| `DeletedForGood` | `Spec => StaysDeleted` |
| `RowsValid` | `Spec => []StoredValid` |
| `TokensSound` | `Spec => []TokenSound` |
| `AnswersHonest` | `Spec => []HonestAnswers` |
| `LifecycleTypeCorrect` | `Spec => []LifecycleTypeOK` |
| `StopsGracefully` | `Spec => []GracefulStop` |
| `StatementsNotCut` | `Spec => NoStatementCut` |
| `TypeCorrect` (`MigrationsProofs`) | `Spec => []MigrationsTypeOK` |
| `SchemaIsReady` | `Spec => []SchemaReady` |
| `InOrder` | `Spec => []AppliedInOrder` |
| `CutShort` | `Spec => CutShortStaysVisible` |
| `StatusTruthful` | `WebSpec => []TruthfulStatus` |
| `Lifetime` | `WebSpec => []LifetimeExact` |
| `BearersChange` | `WebSpec => OnlyBearersChange` |
| `PasswordsLong` | `WebSpec => []PasswordsLongEnough` |
| `LoginPossible` | `WebSpec => []LoginStaysPossible` |
| `ServiceImplementsDirectory` | `Spec => ImplementsDirectory` |
| `CountsAreBacked` | `CountsSpec => []CountsBacked` |
| `MiddlewareTypeCorrect` | `Spec => []MiddlewareTypeOK` |
| `RecordsAsSent` | `Spec => []RecordedAsSent` |
| `AnswersEveryRequest` | `Spec => []EveryRequestAnswered` |
| `TracesEveryRequest` | `Spec => []EveryRequestTraced` |
| `PagingTypeCorrect` | `Spec => []PagingTypeOK` |
| `MissesNoMoreThanDeleted` | `Spec => []MissesOnlyByDeletes` |
| `RepeatsNoMoreThanAdded` | `Spec => []RepeatsOnlyByInserts` |
| `FillsPages` | `Spec => PagesFilled` |
| `ConfigTypeCorrect` | `Spec => []ConfigTypeOK` |
| `PoolIsAsAsked` | `Spec => []PoolAsAsked` |
| `SamplesAsAsked` | `Spec => []SampledAsAsked` |

The assumptions are the named `ASSUME`s of the modules: what the value sets are,
what bcrypt keeps of a password, that the table a run starts from is one the
program could have left (`SeedAssumption`), and

* that the values that stand for "nothing" are none of the values they stand
  beside (`NilAssumption`, `RequestAssumption`, `DueAssumption`, `SeenAssumption` and, in
  `Migrations`, `ReplicaAssumption`): Go tells a nil pointer from a value;
* that a pool has at least one connection (`PoolAssumption`: `NewPool` fails for
  less) and that an `int` is at least as wide as an `int32` (`WidthAssumption`);
* that there are finitely many accounts to page through (`UserIDAssumption`), that
  no page begins further on than an `int` reaches (`LimitAssumption`), and that a
  client begins with a query that means the first page, such as none, junk or a
  negative number (`StartAssumption`).

The service and its counters need no finite sets of goroutines, replicas or
accounts.  TLC evaluates the assumptions in every run.

**The argument.**  None of the properties is inductive alone.

* *Types.*  `TypeInv` adds to `TypeOK` that each row is stored under its own id
  and, for every goroutine, `Shape`: its arguments have the fields its method
  reads, and its `user` holds a row wherever the method uses one.  Without the
  second part `RegisterInsert` could insert no row at all.
* *One account per address.*  Follows from the statement outcomes: `Create` and
  `Update` themselves exclude a second holder, so the earlier look-ups of the
  service do not appear in the proof.  They only make a conflict likelier to be
  found early.
* *Deleted for good.*  `History`: every stored row was born; every born id was
  minted; an id on its way into the table is minted and not born; no two
  goroutines carry the same.  So an insertion never uses an id that
  has named an account, and an update never inserts.
* *Valid rows.*  `PlanValid`: from the moment the rules accepted them, the
  fields a goroutine carries are valid.  This is where two different rules for
  names must both be enough.
* *Sound tokens.*  A stored hash never changes after birth (no statement writes
  the column), and `Accepted`: a goroutine that is about to issue a token
  matched the hash of its row.  Later changes of the account cannot undo that.
* *Honest answers.*  `Honest` is the property itself together with what is
  known of the row a registration carries; crashes only remove answers.

* *Life cycle.*  `Phases` says which parts of the process exist in which phase
  of `main`: no request before the server runs, a server before the wait for a
  signal, none that accepts after `Shutdown`, and in the last phase a closed (or
  never opened) pool with no connection in use.  The statement counter stays a natural
  number because a request that waits or holds has a statement left.

* *Migrations.*  The lock leaves one replica inside `Up` (`OneInside`); where it
  is there and what is on disk tell one another (`InStep`): a marked version
  belongs to a migrator that is at `apply` or `clear`, or to one that died there.
  `OnDisk` says how often each migration was committed, from version and mark
  alone, and so survives the death of whoever knew more.  A start reads the mark
  before anything else: from that both `SchemaReady` and `CutShortStaysVisible`
  follow.
* *API.*  A request that is let through is a call of the service by the way the
  module is composed, so that type correctness and the theorems of the service
  hold behind the API (the lemma `Behaves`).
  `StatusTruthful` is `AnswersHonest` read through the table of statuses.  For tokens,
  `WebInv` says that each was issued at some instant with the expiry of that
  instant, that a request on a protected route carries one that was valid on
  arrival, and that an update works on a copy of the account it was asked for.
  `ExpiryBounds` is the arithmetic of the cut-off expiry.
* *Log-in.*  What the binding admits is remembered by the call (its request was
  bound), from there by the row that is built, and from the insertion on by
  `born`; the hash of a row never changes, and no other row has its address
  (`UniqueEmails`).

* *Directory.*  A refinement is proved step by step, and a step of a goroutine
  depends on what it did before.  `Carried` keeps that: a registration carries a
  row made of its arguments, which were found valid (`Planned`); an update carries
  a copy of the account it was asked for, as born but for the columns that change,
  with its new fields set on it (`Copied`).  With `TypeInv`, `History`,
  `EmailsUnique` (a look-up by address finds *the* account) and `StoredValid` each
  action is a step of the directory, or none: `RegisterInsert` is `Register`,
  `AuthenticateRead` recognises and `AuthenticateIssue` answers, `UpdateRead` looks
  and `UpdateWrite` writes, `Abandon` gives up and `Settle` is the late change, or
  none; `Crash` loses the calls of a replica at once, and what lies between two
  statements of a call is not seen.  What is known of a goroutine is said of where
  it is by `At`, so that it also holds of a statement left running.
  `StepImplements` lists the steps.
* *Counters.*  `Counted` adds to `CountsBacked` that the counts and the accounts they
  are compared with are finite, which holds since they grow by one at a time.  For
  each operation `Balanced` compares the accounts with what was counted and what
  is due, and, while no replica has died, with the statements that were left
  running as well: such a statement was answered, and so counted, as an error
  before it changes anything.  A step of the service moves an account and an
  increment that is due together, `Count` moves the increment into the counts, and
  `Settle` uses up the error that was counted ahead of it; a crash only removes
  counts.
* *Middleware.*  The properties speak of requests that have ended; what leads up
  to them is where a request is.  `Placed` says how far in it is when it goes each
  way, and that it has its id once past `RequestID`, so that also a panic caught by
  Recovery has one.  `Settled`: what is on the wire is the `ResponseWriter`'s
  status.  `Recorded`: an observer records on the way out only, from when on nothing
  changes the status, and whoever is outside `otelgin` again has been traced.
* *Paging.*  `MissesOnlyByDeletes` counts over a whole scan, in which rows move under
  the client.  While no stamps tie, the accounts are in one order, and the proof
  follows a part at its top (`Upper`), the rows that are behind the client.
  `Behind` bounds what it has not got of them plus how far the rows it has asked for
  reach beyond that part, by the deletes; `Again` bounds what came twice plus how
  far that part reaches beyond them, by the registrations.  A delete above
  the client moves rows up past it and pays for that; a registration moves them
  down.  The part itself is not a variable: the invariant says that there is one.
  What SQL's `ORDER BY`, `LIMIT` and `OFFSET` give is in `OrderedListsAll`, `FirstsAreUpper`,
  `FirstsCount` and `PageIsNext`.
* *Configuration.*  `ConfigInv` says what each stage has settled.  `Int32Keeps` is the
  arithmetic of the conversion: within its range, the identity on that range, and never
  larger than a positive number.

**Only model-checked.**  Liveness: `CallsReturn`, `ProcessEnds`, `RequestsEnd`,
`StartEnds` and `ScanEnds` hold under fairness, which the prover used does not
reason about.  The properties of the four runs that show a violation do not
hold and have no theorem.

## Assumptions of the model

* Each replica reads the clock of its host, and nothing is assumed of what it
  reads.  So nothing is said of the order of stamps: with clocks that disagree, or
  are set back, a later change can carry an earlier stamp.
* `uuid.New` never repeats an id.
* The database keeps the stamps to the microsecond while an answer of Register
  carries nanoseconds; instants are compared no finer than the database keeps
  them.
* One statement is atomic and the only unit of commit (`repository` opens no
  transaction).
* Two different keys (72 bytes) never have the same hash.
* An address, once normalised, normalises to itself.

* A token that parses is one this service issued: signatures do their work, and
  all replicas have the same secret.
* A statement of a migration file and golang-migrate's own statements are commits
  of their own; the lock of a session ends with the session, or when it is given
  back, not before.

## Not modelled

* The layout of responses, log lines and spans, and the labels of the HTTP
  counters (method, path): no property is about them.
* What Gin answers by itself: redirects for a trailing slash do not go through the
  chain.  The handlers of pprof, Swagger and `/metrics` are library code.
* `ReadTimeout`, `WriteTimeout` and `IdleTimeout` of the server; a request that is
  cut off by them is one that is hung up on (`HangUp`).
* Settings that are only texts (addresses, names, the connection string), the
  choice of a log level, the exporters, and the goroutine that samples the pool
  for the gauges, which only reads.
* The down migration, which the program never runs.
* In `Lifecycle` a migration is one step that succeeds or fails; `Migrations` has
  its steps.  A signal between the start of the server (line 124) and `Notify`
  (132) kills the process with the requests it has accepted; the model contains
  this and `NoStatementCut` names the exception.
* The generated API documentation, load tests and deployment files are not part
  of the running program.

## Plan

1. *Done*: `Domain`, `UserRepository`, `UserService`, `UserDirectory`, their
   runs and proofs.
2. *Done*: `Lifecycle`, its runs and proofs.
3. *Done*: `Migrations`, its runs and proofs.
4. *Done*: `WebAPI` (tokens, handlers, binding, statuses) over `UserService`, its
   runs and proofs.
5. *Done*: `Middleware`, `Paging`, `Config`, `OperationCounts`, their runs and
   proofs.
6. *Done*: the proof that the service implements the directory.
7. *Next*: what two rows with one stamp can add to what a scan of the pages misses
   or repeats, where `ORDER BY created_at` leaves their order open.
8. *Then*: `List` as an operation of the directory, so that a page is tied to the
   accounts as they were at one instant.
