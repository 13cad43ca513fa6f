# TaskFlow in TLA+

TaskFlow is a small REST API in Go (Gin handlers, services, sqlx repositories)
in front of PostgreSQL: users register and log in, own projects, and work on
tasks inside them. The program keeps no state of its own between requests but
its configuration and its pool of connections. Its concurrency is in how the
SQL statements of different requests interleave, its safety in what PostgreSQL
does with them: foreign keys, a unique constraint, cascades and row locks. That
is modelled at the grain of one SQL statement per step. Around it stand the
process that starts, drains and dies, the tokens it hands out, the fields of
its bodies on their way to the columns, and the deployment that gives it its
schema.

Paths below are relative to `src/backend/internal/` unless they start with
`src/`.

## 1. Inventory

| component | code | state | operations |
|---|---|---|---|
| write path | `service/task_service.go`, `service/project_service.go`, `service/access.go`, `repository/*` | tables `projects`, `tasks`; per request: the row read, the open transaction | POST/PATCH/DELETE of projects and tasks |
| accounts | `service/auth_service.go`, `auth/password.go`, `auth/jwt.go` | table `users`; per request: the row found or inserted | register, login, sign a token |
| read routes | `ProjectHandler.List/Get/Stats`, `TaskHandler.ListByProject` | none; two to five SELECTs per answer | GET of projects, one project, its stats, its tasks |
| pagination | `handlers/pagination.go`, `service/pagination.go` | none | parse, normalise, offset |
| tokens, configuration | `middleware/auth.go`, `auth/jwt.go`, `domain/auth.go`, `config/config.go` | configuration of a process; clock; the tokens clients hold | load, sign, validate |
| validation, parsing | `handlers/validator.go`, `service/validation.go`, `domain/task.go`, `domain/project.go` | none | decode, check, trim, default, patch, filter |
| lifecycle, pool | `src/backend/cmd/api/main.go`, `src/backend/pkg/database`, `repository/tx.go` | how far `main` is; 25 connections and who has them | start, signal, drain, close; take and give back a connection |
| deployment | `src/backend/migrations/`, `src/docker-compose.yml`, `src/backend/scripts/wait-for-postgres.sh`, `src/Makefile` | schema, seed rows, version table, containers | up, down, migrate up and down, seed, restarts |
| CORS, log, request id, recovery, health | `middleware/*`, `handlers/health.go` | none | headers, log lines, constant answers |

Handlers call services, services call repositories, repositories issue SQL.
Nothing else is shared between requests: no caches, queues, goroutines of their
own or callbacks. `TaskService.Update` and `ProjectService.Update` run their
UPDATE and a reload in one transaction (`repository.WithTx`); everything else
auto-commits statement by statement.

What makes it hard:

- *Checks and writes are separate statements.* Existence, ownership,
  involvement and the assignee are read before the row is written.
- *Row locks.* An update holds its row to COMMIT. A cascading DELETE holds the
  project, then wants every task of it. An INSERT of a task wants a share of
  the project's key.
- *Cut-offs.* A client that hangs up cancels the context; the process may die.
  A transaction rolls back, an auto-committed statement stays, and nobody may
  have heard of it.
- *Queries said twice.* Who may see a project, and how many tasks it has, is
  written in several SQL texts that have to agree.
- *Numbers.* Characters against bytes in passwords; offsets in `int`; times cut
  to seconds in tokens and to days in a DATE.
- *One connection, two needs.* A transaction keeps a connection while it waits
  for a row; whoever asked for a second one meanwhile could wait for ever.
- *Ends.* Shutdown gives up after five seconds, handlers may run for thirty;
  a COMMIT may be cut short and nobody knows its outcome.
- *Rules written several times.* Two validators, the service's own parsing,
  and the constraints of the schema; up and down migrations.
- *Restarts.* The process forgets everything, tokens live on; containers are
  brought back in another order than compose started them.

What makes each component correct:

- write path: the tables stay consistent; each effect is one atomic step that
  its caller is entitled to when it happens; patches do not overwrite each
  other; verdicts (404, 204, 403) are true; what was acknowledged stays;
  waits end.
- accounts: one user per address; answers say what the table holds; an
  account in the table can be logged in to.
- reads: the halves of an answer agree if no write fell between them; the
  queries that decide access agree with the query that lists it.
- pagination: the page asked for, for every pair of parameters; walks over a
  changing list neither repeat nor lose rows except where the code cannot help.

- server: no connection leaks or is waited for in a cycle; the meaning of an
  answer survives shutdowns, crashes and lost connections; a signal ends the
  process.
- tokens: a protected route takes nobody for a caller who is not registered
  and holding a live token, and takes every holder for who it is.
- fields: what passes validation can be stored; what was set can be found; an
  answer is the row.
- deployment: the API runs on the schema it needs; a version that is not dirty
  is true.

`PROJECT.json` lists the hazards, each at its line with the properties that
would catch it.

## 2. Modules

```
Schema ─┬─ Board ── Ledger
        │    ▲ refinement (BoardSpec = Ledger!LedgerSpec)
        ├─ TaskFlow ── TaskFlowInv ─┬─ TaskFlowAccess ── TaskFlowProofs
        │                           └─ MCTaskFlow ─┐
        │              TaskFlowAccess ─────────────┴─ MCAccess
        └─ Views (its writers are Board's actions) ─┬─ ViewsProofs
           │                                        └─ MCViews
Pagination ┘
   ├─ PageRequest ─┐           ┌─ PageProofs
   └─ PageWalk ────┴─ Paging ──┴─ MCPagination
Service
   ▲ refinement (ServiceSpec)
Server ───┬─ ServerProofs        Accounts ─┬─ AccountsProofs
          └─ MCServer                      └─ MCAccounts
Session ──┬─ SessionProofs       Fields ───┬─ FieldsProofs
          └─ MCSession                     └─ MCFields
Deploy ───── DeployProofs
```

**Schema** has no variables. A table is a function from ids to rows, `NoRow`
where there is none. It states the row types, the foreign keys (`Consistent`),
the cascade and the involvement query. Titles, descriptions, priorities, due
dates and timestamps are dropped: the code treats each of them exactly as it
treats `status` (copied in on creation, overwritten by a patch that names it),
and no property would tell them apart. `InitialStores` are the databases the
API may be started on; they are assumed consistent because every row in them
went in through the schema.

**Board** is the abstract specification: no requests, no locks, no
transactions. Each accepted request is one atomic step on three tables, with
the caller's right as its guard (`Owns`, creator of the task). **Ledger** is
Board with its acknowledgements: `deeds` notes which user did what to which
row. Without it "some user was entitled to this step" would be all that a
refinement says; with it, the user is the one whose request it was. TaskFlow
maps `deeds` to the calls that have a 200, 201 or 204 (`Acknowledged`): what
the handler has decided to answer, whether or not its client is still there to
hear it.
`deeds` is a set: a second update of the same row by the same user adds nothing
to it, and for that one case only its effect on the tables is compared.

**TaskFlow** is the program. A request is a process; `pc[r]` names the SQL
statement it issues next, so an action is one statement with the Go code up to
the next:

| action | code |
|---|---|
| `Arrive` | `AuthMiddleware` passed, body validated, empty patches refused |
| `FindTask` | `tasks.FindByID` in `Update`, `Delete` |
| `LoadProject`, `CheckInvolved` | `loadProject`, `assertProjectAccessible`, `assertProjectOwner`, `assertTaskDeletable` |
| `ResolveAssignee` | `validateAssignee` |
| `InsertProject`, `InsertTask` | `projects.Create`, `tasks.Create` |
| `UpdateTask`, `ReloadTask`, `CommitTask` | the `WithTx` of `TaskService.Update` |
| `UpdateProject`, `ReloadProject`, `CommitProject` | the `WithTx` of `ProjectService.Update` |
| `DeleteTask` | `tasks.Delete` and its `RowsAffected` |
| `DeleteProject`, `CascadeTasks` | the one DELETE of `projects.Delete`: lock the project, then its tasks, then all at once |
| `Respond` | the handler writes the answer |
| `Abandon` | client gone, context cancelled, or process dead, at any statement |
| `Register` | a user row appears (`Accounts!InsertUser`) |

`loaded[r]` is the Go variable `existing`/`t`/`updated`, `draft[r]` the row an
open transaction has written and nobody else sees, `reply[r]` the status code.
Row locks are not a variable: they follow from who is where (`TaskLocked`,
`ProjectLocked`, `ProjectGoing`), as PostgreSQL holds them from the statement
to the end of its transaction. Isolation is READ COMMITTED, the default that
`BeginTxx(ctx, nil)` gets: a blocked UPDATE or DELETE looks at the row again
when it gets it. Request ids double as the ids `uuid.New()` draws for new
rows, so that ids are fresh, and a request may name the row of another only
once it exists (`Known`).

**TaskFlowInv** is the inductive invariant, **TaskFlowProofs** the proofs.

**TaskFlowAccess** adds one history variable to TaskFlow: whether the caller
had access to the project at the moments its request was being checked. Board's
`AddTask` and `EditTask` cannot ask for access when they happen, because the
code does not: it looks for the owner in one statement, for a task of the
caller in another, and writes in a third. What can be said is
`AccessDecidedAsOne`: nobody gets through who had no access at any moment of
the check, and nobody is refused who had it throughout.

**Accounts** is registration and login, again a statement (or the bcrypt call)
per step. Spellings, passwords and digests are values of small sets;
`Canon`, `RuneCount`, `ByteCount` and `Digest` are functions on them, so that
"same address in another spelling" and "72 characters but 144 bytes" exist.
The outcome of `JWT_EXPIRY` (positive or not) is chosen at the start.

**Views** is a reader of the four GET routes. Its SELECTs see the tables of the
moment while `Board`'s actions change them. That is sound because TaskFlow
implements Ledger and Ledger implements Board (section 5): any run of TaskFlow
changes the tables by Board's steps only. One reader is enough because readers
neither wait for nor disturb anybody. `getProject` runs the access check a
second time, as `ProjectHandler.Get` does. The SELECT and the COUNT of the
accessible projects are two operators, as they are two SQL texts. `disturbed`
and `spent` are history variables. A rename is left out of the writers: no
answer shows a name here.

**Pagination** is the arithmetic, with `int` of `Width` bits; **PageRequest**
serves one request on a still list, **PageWalk** a client's walk over a
changing one, in either of the two orders the code lists in. A row's
`created_at` is any stamp, also one shared with another row or earlier than
rows already shown: PostgreSQL takes it when the INSERT begins, and rows come
into a filtered list by being edited. The constants 20 and 100 are the code's.
**Paging** puts the two side by side, for TLC and for the proofs.

**Server** is the process and its pool; what a statement does to the tables is
left to TaskFlow, what it does to the connections is kept. `phase` is where
`main` is (`Start`, `Signal`, `ShutdownReturns`, `CloseDB`, `Exit`), `Deadline`
the five seconds. `Acquire` takes one of the `Conn` for a statement on the
pool; `Release` comes with the end of the statement or, for `Begin`, with the
end of `WithTx`. The reads of a route that come before its write are condensed
to one or two (`Check`), since each of them takes and gives back a connection
alike; the two queries of the statistics are both there because the second asks
for a connection while the `defer` of the first is still pending. `Fail` is a
database error under any statement, `HangUp` a client that leaves, `Crash` the
end of the process at any moment; a write or COMMIT that is cut short by one of
them may have been carried out (`CutShort`). (A statement that waits in
PostgreSQL when the process is killed may take effect a while after; the model
decides at once. No answer depends on it: Service leaves such a request open.)
All updates and deletes are of one row, which makes as many of them as possible
wait for each other.

**Service** is what a client may conclude: a success was carried out, a refusal
was not and will not be, and whatever else it hears or does not hear leaves it
open. It knows no process, pool or statement. Server implements it.

**Session** is a token from `GenerateToken` to the caller that `AuthMiddleware`
puts into the context. A token carries its times cut to whole seconds, as
golang-jwt does; `Second` is the number of ticks of the clock in one. The clock
may be set to anything at any moment, the process may end and start with any
environment that `Load` accepts. The HMAC is taken to do what it is for: a token
verifies under the secret it was signed with.

**Fields** follows the fields of one project or task: decoding (`Unmarshal`,
`Bind`), the tags both validators read, the services' trims and defaults, the
constraints of the columns (`Storable`), the SET list of a PATCH, and back
through the filter and the answer. A text is the length of its white space,
that of the rest, and whether U+0000 is in it; a due date is a day, a time and
how many hours its zone is from UTC, which is sent to PostgreSQL as it came.
The order of the checks inside a request, and whose request it is, are
TaskFlow's.

**Deploy** is `docker-compose.yml`, the wait script, the Makefile and the
migration files over golang-migrate, which marks a version dirty, runs its file
as one transaction, and clears the mark, in three steps that a crash can fall
between. One operator gives one command after the other; containers die and the
machine reboots at any time, and a try of the wait script may fail although
the server's own check is content. Users register and delete meanwhile:
`address` is the one thing of theirs that a migration can run into, the seeded
user's `test@example.com`. `"tasks"` stands for the three seeded tasks.
golang-migrate, Docker and PostgreSQL's own start are external.

## 3. Runs

| run | asks | instance | bounds and why they do |
|---|---|---|---|
| `pairs` | `VerdictsStayTrue`, `InternalErrorOnlyOnLostProject`, `ReplyShowsCommittedRow`, `BoardSpec`, `EveryRequestAnswered` | 2 requests, all six routes, owner/participant/late user, seed with and without a created task; `FairSpec` | every property relates two requests at most to a table; callers, targets and patches of every kind are in |
| `races` | `IInv`, `ReferentialIntegrity`, `AckedTaskSurvives`, `EachRowDeletedOnce`, `DraftBuiltOnCommitted`, `AccessDecidedAsOne`, `PatchKeepsOtherColumns` | 3 requests around one project and its task, which is the participant's or the owner's; `AccessSpec` | a third request to wait for, or to act between the other two; deadlock is checked, so a cycle of three lock waits would be found; its properties are proved for any number |
| `doomed_create` | `CreateTaskNeverFailsInside`, violated | 2 requests | the race needs two |
| `accounts` | `IInv`, `OneIdentityPerEmail`, `AnswersBacked`, `RefusedOnlyStrangers` | 3 requests, spellings of 2 addresses and a malformed one, 3 passwords, good and bad expiry | two registrations race while a third request logs in; proved for any number |
| `views` | `IInv`, `HalvesAgree`, `RefusedOnlyUnlisted` | 2 users, 2 projects, 3 tasks, 14 requests | more tasks than a page; both routes to involvement; a project that can go and come; proved for any number |
| `pagination` | `AnswerIsThePage`, `RepeatsBounded`, `MissesBounded`, `OwnTimeShownOnce` | a request: `Width` = 9, 17 values per parameter, 10 list lengths; a walk: 4 rows, 4 stamps, pages of 2, 3 changes | both sides of 1, 20, 100 and of the ends of `int` (9 bits is the least that holds 100); pages, a rest, and rows coming and going between any two statements; proved for any width and length |
| `page_overflow` | `EveryPageAccepted`, violated | the same | |
| `server` | `IInv`, `ConnectionsReturned`, `ServiceSpec` | an update and two requests on other routes, or one and a second update; 2 connections | fewer connections than requests; two requests of one route do to each other what two updates do; proved for any numbers |
| `server_live` | `EveryRequestEnds`, `SignalEndsProcess` | 2 updates of the row and a delete, or 2 requests for statistics and an update; 2 connections; fair | a cycle needs as many holders as connections, and one that waits; the delete waits for the row with a connection in hand, the statistics come for a second connection while all are out |
| `session` | `IInv`, `CallerIsHolder`, `LiveTokenAccepted` | 2 users, 2 secrets, 2 tokens, seconds of 2 ticks, lifetimes 0 to 3, clock 0 to 4 | every position of issue, expiry and request within a second; proved for any |
| `fields` | `InternalErrorOnlyForNulOrZone`, `FilterFindsWhatWasSet`, `AnswerIsTheRow`, `NothingIsCleared` | texts at 0, 1, 255, 256, 10000, 10001 characters, padded or not; 10 spellings; zones of 0, 15 and 16 hours | both sides of each limit, before and after trimming |
| `deploy` | `IInv`, `CleanVersionIsTrue`, `ApiHasItsSchema`, `EveryFileApplies`, `CommandsEnd` | all three migrations, a user who may take the seeded address, 2 tries of the wait script; fair | the tries only count; proved for any number |

Two questions share a run where one state space answers both: MCPagination
holds a request and a walk, of which one runs while the other has ended, and
`races` runs under `AccessSpec`, which is TaskFlow with a history variable.

Symmetry is used where only safety is checked (`races`, `accounts`, `server`,
`session`, `pagination`): request ids, connections, users, secrets and rows are
model values, appear in no ordering, and every set of calls, stores and ids is
closed under their permutation. No run switches the deadlock check off:
`Quiescent` (and its like) allow stuttering only when nothing is running, so a
wait that cannot end is a deadlock in every run as well.

What the properties say:

- `BoardSpec`: a request has a 2xx exactly when it was one atomic step of
  Board, in its own caller's name, who is entitled to it at that moment,
  although rights are checked on rows read earlier. It works because owners and
  creators never change and users are never deleted.
- `VerdictsStayTrue`: a row answered "gone" stays gone (no late COMMIT brings
  it back), a refused right is not had.
- `InternalErrorOnlyOnLostProject`: of all foreign keys, only the project of a
  new task can be lost between check and write.
- `ReplyShowsCommittedRow`: the point of the two transactions, as
  `src/docs/ARCHITECTURE.md:45` puts it.
- `AckedTaskSurvives`, `EachRowDeletedOnce`: acknowledgements of creation and
  deletion can be relied on, under cut-offs too. Acknowledged means decided: a
  delete that was done and whose client hung up before the 204 arrived counts,
  one that was cut off before its row was gone does not.
- `DraftBuiltOnCommitted`, `PatchKeepsOtherColumns`: no lost updates.
- `AccessDecidedAsOne`: two statements decide access like one.
- `EveryRequestAnswered`: the waits for row locks end.
- `AnswersBacked`, `RefusedOnlyStrangers`: after any race, retry or lost
  answer, what the client was told fits the table, and its login works.
- `HalvesAgree`, `RefusedOnlyUnlisted`: separately written queries agree. The
  first speaks of answers during which nobody wrote; what a write between two
  statements does to an answer is in section 4.
- `RepeatsBounded`, `MissesBounded`: what paging by offset guarantees on a
  list that changes. What a walk shows twice is no more than the rows that
  came in before one already shown (for the tasks of a project, listed oldest
  first, that is only a row that was slow to commit or was edited into the
  filter; for projects, newest first, each new one); what it misses of the rows
  that stayed is no more than what went or came in between a COUNT and its
  SELECT. `OwnTimeShownOnce`: if nothing changes, a row that shares its
  `created_at` with no other is shown once; rows that share one may not be,
  for want of a tie-breaker in ORDER BY.
- `ConnectionsReturned`: only a request at a statement has a connection, one,
  and a transaction has it throughout, on every path of errors.
- `ServiceSpec`: a 2xx is sent after the effect, a 4xx without one, a failing
  COMMIT is told as neither. `EveryRequestEnds`: no wait for a connection or a
  row is for ever, be it for the second connection of a transaction or for that
  of the second query of the statistics, which comes before the `defer` that
  closes the first (`ReloadOnPool`, `ByStatusUnread`). `SignalEndsProcess`:
  even if every handler hangs.
- `CallerIsHolder`: through restarts, reconfigurations and a clock that is set,
  a caller is a registered user with a token of this secret that is not older
  than its `JWT_EXPIRY`. `LiveTokenAccepted`: a token is good from the tick of
  its issue (its `nbf` is not in the future) to the last second of its lifetime,
  in which cutting to seconds may end it.
- `InternalErrorOnlyForNulOrZone`: whatever two validators pass, the schema
  takes, but for the two things they do not look for: U+0000, which JSON can
  carry and PostgreSQL cannot store, and a due date in a zone of 16 to 23
  hours, which Go decodes and PostgreSQL refuses.
  `FilterFindsWhatWasSet`: writing and filtering normalise a status alike.
  `AnswerIsTheRow`: a creation answers with the struct it inserted, which
  differs from the row only by the time of day and the zone of a due date.
  `NothingIsCleared`: a null in a PATCH changes nothing.
- `CleanVersionIsTrue`, `ApiHasItsSchema`, `EveryFileApplies`, `CommandsEnd`:
  migrations killed anywhere leave a version that says what was done, or says
  that it is dirty; the API, which never looks at the schema, still has it
  unless a roll-back was asked for; each file finds the schema it builds on,
  and only rows can stop one: those of `make seed`, or, between a roll-back and
  the next complete `up`, a user who took the seeded address. Nothing users do
  before a roll-back stops a migration. No `make up` hangs.

Operators marked *Variant* are part of no specification: each is the faulty
form of the definition after it, kept to see that the properties notice.

## 4. Disagreements with the documentation

Two runs are expected to fail; each is a finding in `PROJECT.json`.

- `doomed_create`: creating a task in a project that is deleted after the
  access check answers 500, where the other routes answer 404
  (`service/task_service.go:77`).
- `page_overflow`: `(p - 1) * l` overflows for large pages; a negative OFFSET
  is an error (`service/project_service.go:97`, `service/task_service.go:200`).

Six more sentences of the documentation are stated beside the properties of
their modules and have no run of their own. TLC violates each of them in the
instance of the run named:

| definition | run | the documentation says | the code |
|---|---|---|---|
| `Accounts!PasswordRulesSuffice` | `accounts` | "8–72 characters" (`src/docs/API.md:204`) | 72 characters may be more than bcrypt's 72 bytes; the error is not mapped, 500 (`auth/password.go:31`) |
| `Accounts!PaddingForgiven` | `accounts` | "extra spaces are trimmed on register/login" (`src/docs/SETUP.md:178`) | the address is validated before it is trimmed, 400 (`service/auth_service.go:43`) |
| `Views!TaskCountCountsTasks` | `views` | all tasks "and `task_count`" (`src/docs/API.md:425`) | counted and listed by separate statements (`handlers/project_handler.go:107`) |
| `Fields!TitleInDocumentedRange` | `fields` | "1–255 characters" (`src/docs/API.md:677`, `:397`) | blanks pass `min=1` and are trimmed to nothing (`service/task_service.go:61`) |
| `Fields!DueDateIsAnyTimestamp` | `fields` | "string (RFC 3339)" (`src/docs/API.md:682`) | a due date such as `2025-01-01T00:00:00+16:00` is one, passes both validators and reaches PostgreSQL as it is, which knows zones up to 15:59; the error is not mapped, 500 (`service/task_service.go:67`, `repository/task_repository.go:52`, `:247`) |
| `Deploy!SeedFailsIfPresent` | `deploy` | `make seed` "fails if data already exists" (`src/Makefile:43`) | psql goes on after a failing INSERT, puts back what is missing and exits with 0 (`src/Makefile:45`) |

## 5. Proofs

Proved with TLAPS for every value of the constants that satisfies the named
assumptions. These say that null values are no values, initial databases
satisfy their constraints, fresh ids are fresh, conversions are functions, a
second has at least one tick. `Views!IdsAssumption`: ids are UUIDs, so there
are finitely many. `Views!AsksAssumption`: the two routes of one project read
no page parameters. `Pagination!AbsentAssumption`: a parameter that is not
there is no number. `PageWalk!WalkAssumption`: the client's limit is one that
`ParseOptionalPagination` accepts, and the rows there are can be counted in an
`int`, into which the code scans COUNT.

| module | theorems |
|---|---|
| `TaskFlowProofs` | `Invariance`, `TypeCorrect`, `Integrity` (`ReferentialIntegrity`), `DraftsCommitted` (`DraftBuiltOnCommitted`), `NoOverwrite` (`PatchKeepsOtherColumns`), `Refinement` (`BoardSpec`), `RepliesCommitted` (`ReplyShowsCommittedRow`), `AccessAsOne` (`AccessDecidedAsOne`), `VerdictsTrue` (`VerdictsStayTrue`), `OneInternalError` (`InternalErrorOnlyOnLostProject`), `DeletedOnce` (`EachRowDeletedOnce`), `AckedSurvives` (`AckedTaskSurvives`), `ReferencesKept` (Board keeps every foreign key), `LedgerOnBoard`, `TablesAreBoards` |
| `AccountsProofs` | `Invariance`, `TypeCorrect`, `UniqueIdentity` (`OneIdentityPerEmail`), `HonestAnswers` (`AnswersBacked`), `LoginsAccepted` (`RefusedOnlyStrangers`), `UsersOnBoard` |
| `ViewsProofs` | `Invariance`, `RefusalsAgree` (`RefusedOnlyUnlisted`), `HalvesOfOneMoment` (`HalvesAgree`) |
| `PageProofs` | `PageIsAnswered` (`AnswerIsThePage`), `Invariance` (`PageWalk!IInv`), `RepeatsAreAhead` (`RepeatsBounded`), `MissesAreLeftOrLate` (`MissesBounded`), `StillListShownOnce` (`OwnTimeShownOnce`) |
| `ServerProofs` | `Invariance`, `TypeCorrect`, `NoLeak` (`ConnectionsReturned`), `Drained` (`DrainedBeforeClose`), `Refinement` (`ServiceSpec`) |
| `SessionProofs` | `Invariance`, `TypeCorrect`, `HoldersOnly` (`CallerIsHolder`), `HoldersServed` (`LiveTokenAccepted`) |
| `FieldsProofs` | `TypeCorrect` (`IInv`), `ValidIsStorable` (`InternalErrorOnlyForNulOrZone`), `NeverCleared` (`NothingIsCleared`), `FilterFinds` (`FilterFindsWhatWasSet`), `AnswersShowTheRow` (`AnswerIsTheRow`) |
| `DeployProofs` | `Agreement` (`IInv`), `VersionIsTrue` (`CleanVersionIsTrue`), `SchemaServed` (`ApiHasItsSchema`), `FilesApply` (`EveryFileApplies`) |

Each module proves one inductive invariant and takes the rest from it.

*The write path.* `IInv` of TaskFlowInv is a conjunction of named parts, each
needed by a later one:

- `Flow`: which operation can be at which statement, and what its variables
  hold there. `TypeOK` alone is not inductive: that a commit writes a task row
  needs that a request in a transaction has one.
- `Minting`: the row a request creates exists only after its own 201, and no
  other request is about it before that. Without it, an INSERT might overwrite
  a row.
- `Locking`: `DraftBuiltOnCommitted`, mutual exclusion of the row locks, and
  that a project that is cascading exists. Without it a COMMIT could write a
  row into a project that has gone.
- `ReferentialIntegrity`: a task's project exists, which makes `Owns` of a task
  well-defined.
- `Checked`: what was read and is still used is still true: a task's project
  and creator are those that were loaded, the assignee exists, the caller owns
  what it is about to rename or delete. This is what makes stale checks
  harmless, and what the refinement needs.

Each part has its own step lemma, by cases over the actions; facts about
several actions (`OthersStay`, `RepliesStick`, `TaskEffects`, `ProjectEffects`)
are lemmas. `Refinement` maps the committed tables to Ledger's as they are, and
the acknowledged calls to `deeds`: commits, inserts and deletes map to Ledger's
steps (`Noted`), everything else to a stutter (`Unnoted`). `AccessAsOne` goes
from the step where the project is loaded to the one where involvement is
asked for: between them a project can go but not come under this caller
(`NoNewOwner`), so a refusal means that there was a moment without access.

What clients were told is a second invariant, `Said`, over the first: a reply
is true when it is given (`SaysTrue`, from what each statement can decide,
`Decides`), and stays true because a row that was announced and is gone is
inserted by nobody again (`GoneTaskStays`, `GoneProjectStays`), and one that is
there changes neither owner nor creator. `VerdictsTrue` and `OneInternalError`
follow from it. `DeletedOnce` uses it for the second delete: had the first been
acknowledged, the row would be gone.

*Board.* The invariant is the foreign keys together with the types.
`LedgerOnBoard`: a behaviour of Ledger is one of Board. With `Refinement`, the
tables of TaskFlow behave as Board's (`TablesAreBoards`), which is why Views
may take Board's actions for its writers.

*Accounts.* Rows are only ever inserted, so what is said of a row of the table
stays true; `MintedBy` ties a request's own row to where it is. It also shows
that an INSERT never brings an id that is there: `UsersOnBoard` maps the users
table to the one of a board without projects, on which nothing happens but
`Register`. That is all TaskFlow, Ledger and Views assume of it.

*Views.* Between the statement that finds the caller is not the owner and the
one that finds it not involved, the project may go but not come back under
another owner (`NotTheOwner`, with fresh ids in `spent`). For `HalvesAgree` the
invariant keeps `FirstIsCurrent`: until somebody writes, the number the first
statement returned is what it would return again. Then the two numbers of an
answer are two queries over the same tables. For three routes they are two
texts, each an operator of its own, that ask the same. For the stats they are
two sums, by status and by assignee, and each counts every task once: summing
the sizes of the groups of a finite set gives its size (`GroupsSum`). The
library's induction takes an operator, so that lemma takes a least set of
groups for which the sum would be wrong, by the well-foundedness of the strict
subsets of a finite set, and removes from it the group the sum adds first.

*Pagination.* `PageIsAnswered` needs that a power of two doubles with its
exponent (`PowersOfTwo`, from the sizes of powersets), that an offset which
fits is not changed by `Wrap` (`WrapFits`), and what a slice holds
(`SliceRows`). The walk's invariant says where every row of the list is, for
every list an ORDER BY may return:

- `OffsetFits`: the client asks for a page only while a total goes beyond it,
  so no OFFSET of a walk wraps. Without it the pages would not be where the
  other parts say they are.
- `RepeatsAccounted`: rows that are not after all those shown (`Passed`) are
  the ones that can still be shown twice. `RepeatsBounded` alone is not
  inductive: a row that comes in early does no harm until a later page reaches
  it, so what has been repeated and what still can be are bounded together.
- `MissesAccounted`: a row of the list is at `Place`, one more than the rows
  `Earlier` (`PlaceInList`); it is missed for good once its place lies before
  the next OFFSET (`Skipped`). A row that leaves moves one row at most over
  that edge, because no two have the same place. What the last page cuts off
  came in after its COUNT.
- `PagesJoin`: while nothing changes, the pages laid end to end are as long as
  the list, and a row whose `created_at` is its own is at its place and
  nowhere else.

TLC checked this invariant over the states of `pagination` before it was
proved; it is not among that run's properties, all of which it implies but
`AnswerIsThePage`.

*Server.* A handler's steps touch its own request and connections only
(`HandlerLocal`), so the parts of `IInv` - one connection each, held throughout
a transaction; what is committed by the time of each statement - are shown for
the request that steps and carried over for the others, and once more for the
steps of `main`. `Refinement` maps an answer that was sent to what it tells;
commits are `Apply`, the last step of a request is `Confirm`, `Deny` or
`GiveUp`, and the end of a process is `GiveUp` of all it was running, with the
writes that were in flight.

*Session.* Cutting to a second loses less than one (`SecondCut`); with it,
`nbf` is never after the issue and `exp` within a second of the lifetime's end,
for each token ever issued; both properties follow from these and the
comparisons of `ValidateToken`.

*Fields.* From decoding (`Decoded`) through the tags to the row: a valid body
gives a storable row (`CreateStorable`), and patches a storable row to one
(`UpdateStorable`), if no text has U+0000 and its due date no far zone
(`NearZone`); trimming never lengthens (`Trimmed`). `SpokenInv`, that the
spelling remembered with a row stands for its status, carries `FilterFinds`.

*Deploy.* The invariant says what the schema is at each of the three steps of a
migration, in each direction (`Migrating`). It is needed because
`CleanVersionIsTrue` alone says nothing while the mark is dirty. `Seeded` says
that the seeded user is gone only where its file has not run or was undone:
users delete projects and tasks, nobody deletes a user. Without it nothing
would keep another user from taking the address before a roll-back, and
`FilesApply` could not be shown.

Only model-checked is liveness (`EveryRequestAnswered`, `EveryRequestEnds`,
`SignalEndsProcess`, `CommandsEnd`), which is out of the prover's reach, as is
`ENABLED`: that nothing deadlocks is shown by the runs. Every safety property
of a passing run is proved.

**Fairness.** TaskFlow's `FairSpec` asks weak fairness of each request's own
statements and of nothing else. It is justified by the Go scheduler, which runs
every runnable goroutine, and by PostgreSQL, which hands a released lock to its
waiters in turn. A wait for a row ends when the transaction in front ends, and
no new one can take the row for ever, since each request runs once. Nothing
makes a client send, hang up or register. Server's `FairSpec` asks it of
`main`'s steps and its timer only: handlers may hang, and a signal must end the
process all the same. `EveryRequestEnds` has the fairness of the handlers' steps
(`NoneHangs`) as its premise; `database/sql` serves those who wait for a
connection in the order they asked. Deploy's asks it of compose, of the migrate
process and of a server that boots, which are running programs; a migrate
process whose server is gone gets an error, which is one of its steps.

## 6. Not modelled

- *CORS, logging, request ids, health, Dockerfile, sample requests*: no state.
  A recovered panic is a 500 whose transaction `WithTx` rolls back, which is
  Server's `Fail`. A health check counts for the drain.
- *Retries of creations.* A retry is another request. There is no idempotency
  key, so a repeated creation makes a second row, and nothing claims
  otherwise.
- *`updated_at`.* Of two updates that wait for each other's row, the later
  COMMIT can carry the earlier time, as PostgreSQL's CURRENT_TIMESTAMP is that
  of the transaction's start. No code reads the column; it is only shown.
- *What white space is.* A text's padding is a length; that `TrimSpace` and
  `ToLower` know Unicode is inside `Canon` and `TrimSpace`.
- *Path ids and wording.* An id that is no UUID is 400 before anything happens.
- *Code no route calls*: `FindByOwnerID`, `FindByAssigneeID`, the user list,
  `UnmarshalParam`, priority filters.
- *Tokens over a database that lost its user.* After `down -v`, or after
  `make migrate-down` has undone the seed, an old token names a user that is
  gone; Session's users are never deleted, since no route
  deletes any, and TaskFlow's `Arrive` takes a caller for registered.
- *Two operators.* golang-migrate takes an advisory lock; Deploy has one
  operator, who waits for a command to end. A roll-back of the seed deletes
  what its user has made since, by cascade; of what users make, Deploy has only
  the one row that can stand in a migration's way.
- *Due dates before the year 1.* lib/pq writes them as BC.

## 7. Plan

Done: the write path with its invariant, refinement and access history;
accounts; reads; pagination; the server with its refinement; sessions; fields;
deployment; the proofs listed above.

What would come next, most important first:

1. Server's statements joined to TaskFlow's, so that a crash is one step for
   all requests at once instead of an `Abandon` of each.
2. Session's registrations and TaskFlow's `Arrive` over one users table, so
   that a caller `CallerIsHolder` lets through is one that `Arrive` may take.
