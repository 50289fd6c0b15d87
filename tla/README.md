# A verification project for stock_quant_backend

TLA+ models of the backend in this repository, the TLC configurations that check
them on small instances, and TLAPS proofs of the properties that matter most for
every instance. Every definition is a translation of code under `src/`;
`PROJECT.json` names the lines of each one.

## 1. The system

One FastAPI application in **one uvicorn process**. Handlers are plain (`def`)
functions, so FastAPI runs them concurrently in a **thread pool**. Each request has a
database session of its own (`app/db.py`), and PostgreSQL runs at its default isolation
level READ COMMITTED. There are no row locks (`SELECT ... FOR UPDATE`), no version
columns and no serializable transactions, and several handlers **commit more than once**.
A commit also expires every ORM object of the session: the next access to an attribute
reads the row again. What a handler knows of a row therefore depends on where its commits
are, and the models follow that.

| Component | State | Operations | Talks to |
|---|---|---|---|
| Accounts, sessions, links (`routers/auth.py`, `security.py`, first part of `crud.py`) | tables `users`, `email_tokens`; JWTs in clients' hands | register, login, verify-email, resend, forgot, reset, `get_current_user` | rate limiter (before any work), e-mail sender (background task after the answer) |
| E-mail sender (`email.py`) | none; the background tasks in memory | `send_email`, never raises | auth handlers |
| Rate limiter (`ratelimit.py`) | `_hits`, `_last_sweep`, in memory, one lock | `enforce`, `check`, sweep, `reset` | auth handlers |
| Screening snapshots (`routers/ingest.py`, `routers/download.py`, `crud.py`) | tables `screen_snapshots`, `screen_snapshot_items` | ingest (replace a day), list, download one, download a range, coverage | screener (uploads, retries), browser, backtest |
| Daily prices (`crud.py`) | table `daily_prices`, key (date, symbol) | additive upsert of a day, trading calendar, price look-up | screener and back-fill tool (concurrently), backtest |
| Backtest engine (`backtest.py`, `routers/backtest.py`) | none | n-th trading day, entries, returns, summary, detail | reads snapshots and prices in separate statements |
| Records (`routers/records.py`, `crud.py`) | table `records`, unique per (user, market, symbol) | list, upsert, delete | `get_current_user` |
| Deployment (`deploy/deploy_on_vm.sh`, `entrypoint.sh`, `alembic/`) | running image, schema revision | pull, migrate, health check, roll back | the database |
| Spreadsheets, settings, schemas, logging | none | formatting and set-up | everything |

### What is hard, and what makes each part correct

- **Accounts.** `reset_password` is five commits. Between any two of them another
  request of the same account can run, and the process can die. Correct means: a password
  change ends the sessions that came before it, a link works once and older links are dead
  after a reset, one address is one account, and nothing but a reset with a link mailed to
  the account touches its password. login reads the row before it spends the bcrypt time.
- **Rate limiter.** All threads share it, and `check` reads the clock *before* it takes
  the lock, so timestamps enter a deque out of order while both the pruning loop and the
  sweep read only one end of it. Correct means: no window holds more than `limit`
  admissions, a client that obeys Retry-After is admitted, memory is bounded.
- **Snapshots.** "Delete the items, rewrite the header, insert the items" is one
  transaction, but at READ COMMITTED a second upload that waits for the first does not see
  what the first inserted. Correct means: the stored snapshot is one upload, a failed
  upload changes nothing, and a download is not a mixture.
- **Daily prices.** Uploads of screener and back-fill overlap on one trading day. Rows are
  read once and written one by one: a second upload may insert a row again, wait for the
  rows of another one in the opposite order, or write over what it never saw. Correct
  means: an upload erases nothing it does not quote, is stored whole or not at all, counts
  what it did, and ends.
- **Backtest.** Off-by-ones in the calendar arithmetic; every entry must be counted
  exactly once per horizon; sorting before cutting.
- **Records.** Insert races, and a DELETE between the read and the UPDATE of a PUT.
  Correct means: one row per user and symbol, a 204 that is true, no 500 without a race.
- **Deployment.** Three processes (the workflow on a runner, the script on the VM, the
  container) that lose each other, and a rollback that restores the image but not the
  schema. Correct means: what answers runs on its own schema, and the `deployed` tag names
  what is online and was healthy.

`hazards` in `PROJECT.json` lists these one by one, each at its line, with the properties
that would catch it.

## 2. The modules

| Module | Models | Proofs |
|---|---|---|
| `Auth` | accounts, sessions, e-mailed links, mail delivery, failures | `AuthProofs` |
| `Sessions` | abstract: what the code promises of sessions, with its one exception for resets that race; `Auth` implements it | (`AuthProofs`) |
| `Recovery` | `Auth` with counted failures and an owner who persists: what must eventually happen | |
| `RateLimiter` | the sliding-window limiter and `client_ip` | `RateLimiterProofs` |
| `Snapshots` | upload, and download of one day and of a range, one step per SQL statement | `SnapshotsProofs` |
| `PriceTable` | abstract: a trading day as additive, all-or-nothing uploads | |
| `Prices` | `upsert_daily_prices` statement by statement; implements `PriceTable` | `PricesProofs` |
| `RecordMap` | abstract: one record per user and symbol | |
| `Records` | PUT and DELETE statement by statement; implements `RecordMap` | `RecordsProofs` |
| `Backtest` | one backtest request, statement by statement, beside price uploads | `BacktestProofs` |
| `Deploy` | workflow, script on the VM, container and migrations | `DeployProofs` |
| `Induction` | no code: induction and folds as lemmas about sets | (itself) |
| `MCAuth`, `MCRecovery`, `MCRateLimiter`, `MCSnapshots`, `MCPrices`, `MCRecords`, `MCBacktest`, `MCDeploy` | values of the constants for TLC | |

Left for later: the composition of `Auth` with `RateLimiter`, for how many mails an address can be sent.

## 3. How the models correspond to the code

### Auth

`users` and `tokens` are the two tables. `reqs[r]` is the handler thread `r` is running:
its `pc` says which statement comes next and its other fields are the local variables
later statements use. `jwts` is every access token ever handed out (clients may replay
any of them), `outbox` the background tasks, `mailbox` the mails that arrived; a link can
only be used out of the mailbox. The console sender prints a usable link, so with it the mail
always arrives; with SMTP it arrives or is lost.

Handler by handler: `Register` is the 409 check, then `CreateUser` (the unique index may
refuse), `InvalidateSelect`/`InvalidateCommit`, `CreateEmailToken` and `Answer`; `Login`
is the SELECT and `VerifyPassword` the bcrypt comparison and the token; `ResetPassword`
is the check of the link, then `ConsumeEmailToken`, `ReloadUser` (`user.id` after the
commit reads the row again), `InvalidateSelect`, `InvalidateCommit` (only if rows were
found), `RereadUser` (only after that commit), `SetPassword`, `RefreshUser`,
`MarkEmailVerified` and a second `RefreshUser` (only if the address was unverified),
`Answer`. The version that `SetPassword` writes is the one read last *plus one*, which is
how the lost update arises; the version in the token of the answer is the one
`RefreshUser` read last. `Fail` ends one request at any point, `Crash` all of them and
the unsent mail. Requests that are refused before they write anything are stuttering
steps. Passwords and links are model values: hashing is a one-to-one renaming here, and
guessing a 256-bit token is not modelled.

`Answer` ends a handler with what it leaves behind: the mail of register and resend
(`VerificationMail`), that of forgot (`PasswordResetMail`), and the token in the response of
register and reset (`RegisterResponse`, `ResetResponse`).

`changes`, `overlapped`, `spent`, `outdated` and the field `asof` are history: no guard
reads them, they exist so that properties can speak of the past.

`Sessions` is the promise of `reset_password` to end every session issued before. `raced` is
`overlapped` there: an account two of whose resets raced loses the promise for its own
sessions, no other account does.

`Recovery` restricts the clients of `Auth`, not the server: an owner who wants the address
verified or a new password signs in, asks for a link when none is on its way, and uses the one
that arrived. At most `MaxFailures` steps are a failed request, a lost mail, a restart or a delay in which links and
sessions expire.

### RateLimiter

One bucket of `RULES`, keyed by client address. `client_ip` takes the last entry of the header
that is not blank, else the peer of the connection, else `Unknown`; behind nginx, as here, the
fallbacks are never taken. `ReadClock` is everything before the lock
(the key and `time.monotonic()`), `check` is the critical section: sweep, prune, refuse or
append. `Restart` models a new process: counters start empty. Time is in ticks,
`TicksPerSecond` to the second, because `retry_after` truncates to seconds. A request's
header is what the client sent with the peer appended, as nginx does. `log`, `lag` and
`promise` are history; `log` forgets a prefix that no window can reach any more. `max(..., 1)`
around `retry_after` changes nothing: the first entry that pruning leaves is inside the window.

### Snapshots

One action per SQL statement of `upsert_snapshot`. The DELETE is two actions: it chooses
the rows it sees (`DeleteItems`) and goes on when nobody else holds them (`DeleteLocked`),
without the rows that are gone by then: that is PostgreSQL's behaviour at READ
COMMITTED. `FlushHeader` is the ORM's INSERT, UPDATE or nothing at all, depending on the
header as it was *read*; the unique constraint makes a late INSERT fail. The rows that one
upload inserts appear and disappear together, so they are one element of `items`. A header
is a set of columns, each with the upload that wrote it: `Changed` are those in which the body
differs from what was *read* (`Value` says which bodies agree in which column), and only they
are written, so a header can end up with columns of two uploads. `latest` and `rivals` (the
uploads of the day that were open during one) are history. `Rollback` is a lost connection or a
restart at any point. A download reads the header in one statement and the items in
another. The download of a range reads all its headers first and then the items of each
day (`GetSnapshotItems`, `left` are the days still to come), so that an upload can commit
between any two days.

### Prices

One trading day. `IngestPrices` is the SELECT and the whole loop (nothing else can see it):
it computes the statements the flush will send. The loop is one fold over the body (`Loop`, a
bar is one `Take`), which keeps for every symbol the row object as `existing` holds it, what the
loop `Adds` and what it `Sets`; `Updates` lists the changed objects in primary-key order. The ORM sends them grouped, which is why
two uploads can lock rows in different orders: first an UPDATE of every changed row object
in primary-key order, setting only the columns that differ from what was *read*, then the
INSERTs in the order of the body. `Flush` executes one; it waits while another transaction
holds the row and fails when an INSERT finds one. `DeadlockDetected` is PostgreSQL ending
one transaction of a cycle, `Commit` makes everything visible at once, `Rollback` is a lost
connection or a restart. Because an UPDATE sets only some columns, two overlapping uploads
can leave a bar mixed from both, one that nobody uploaded; `BarOfTheRace` says column by column what such a bar may
be, and `PriceTable` what a reader of closes sees of it. `read` and `alone` are history. `name` stands for the texts a blank keeps, `volume` for the
nullable numbers.

### Records

`Put` is the SELECT; `Insert` and `Update` are the write with its commit (a transaction of one
statement, so there is nothing in between), `Refresh` the SELECT that follows a commit
and gives the answer; `Delete` and `Remove` are the two statements of a DELETE. Row ids are
UUIDs that are not used twice. An INSERT beside a committed row fails on the unique
constraint, an UPDATE or a refresh that matches no row is the ORM's error: `failed` is a 500.
`raced` and `absent` are history.

### Deploy

`job` is the workflow run (one at a time, by its concurrency group) with the shell it waits for, `script`
the scripts on the VM, one to a shell: those of workflow runs, those whose connection is gone and that
go on as orphans, and those that a person starts. `running` is the container, `db` the
revision, the schema and whether two accounts differ only in case. `DeployWorkflow` is "Check for
update" up to ssh, with `PREV_IMAGE` as the script reads it first thing;
`Up`, `HealthPassed`, `HealthFailed`, `Rollback`, `PullFails` are the script; `Migrate`, `StartUvicorn` are
`entrypoint.sh` and `Restart` is docker's restart policy; `JobFails` and `ScriptDies` are the lost
connection. A migration step is a set of tables and columns added; the chain is applied in one transaction.
`bring_up` that fails twice ends the script before the rollback (`set -e`) and leaves no container, one
that was created and not started, or the old one if docker did not answer; the next script reads whatever it
is as its `PREV_IMAGE`. Compose starts a created container and leaves one that runs the image alone. A health check that gives up races the container's late start. `healthy`,
`disturbed`, `overlapped` (another script ran beside this one) and `mixed` (that was so of the release that wrote the tag) are history.

Three things the model showed. The concurrency group serialises workflow runs and not the scripts
they leave behind: an orphan can replace the container of the next run and answer its health check, so the tag
of *that* release names an image that never served, although deploy.yml:115 calls it the truth of what is online. `TagWasHealthy` confines the damage: a tag written by a release
whose own script nobody overlapped is right, whatever happened before. After a manual deployment the `deployed` tag still names the old release, and the
workflow skips exactly that one (`TagIsOnline` excepts `disturbed`). And `PREV_IMAGE` may be an
image that never was healthy.

### Backtest

`req` is the request: `backtest_run` is the validation, `CollectEntries`, `ReadCalendar`
and one `load_close_prices` per wanted day are the statements, `Compute` the loop, the
summary, the sort and the warning. `upsert_daily_prices` is an upload as it commits and
can come between any two of them. The operators in between carry the names of the code's
functions. What the database and Python's library sort is defined by position: `Ascending` (an ORDER BY)
puts at place k the number with k - 1 below it, and `Sorted` (`list.sort`, which is stable) puts at
place k the row that k - 1 others are `Ahead` of. The second half of the module says what an answer means without any of that
arithmetic: the exit day is the day with exactly N open days after the entry, an entry
contributes one row or none, and the detail is told by which entry each row is of. Dates are numbers,
prices whole numbers, and a return is rounded down to a percentage where the code rounds to
four digits; the buckets of the summary go by the unrounded return, as in the code. Mean, median and win rate, which
only round these numbers, are left out.

The screenings are a constant of the model: no upload of snapshots comes between the two reads of a request
that touch them (the range and the entries), nor between the aggregates of `get_snapshot_coverage`.
`HeaderDays` are the days of its snapshots, those without items included, from which `resolve_range` takes an
open end.

For a question about N = 0 only, a last screening day without prices is announced as "N days have not passed
yet" even when later days have prices, where `_coverage_warning` means to say that prices are missing.
`WarningsAreHonest` states when the code says to wait for every question: about N = 0, exactly when the last entry day
has no prices.

## 4. The runs

| Run | Instance | Shows |
|---|---|---|
| `auth_races` | 2 threads, 1 account with 2 spellings, 3 links | under overlapping registers, logins, resets and forgots: `OneAccountPerAddress`, `VerifiedMeansMailedLink`, `SessionsDie`, `OlderLinksDead`, `LiveLinksBounded`, `AccountChangesOnlyByReset`, `ImplementsSessions` |
| `auth_double_submit` | 2 threads | **violates** `SingleUse` |
| `auth_lost_bump` | 2 threads | **violates** `ResetEndsEverySession` |
| `auth_recovery` | 2 threads, 1 account, 4 links, 1 failure or expiry anywhere | a link is spent once and a reset ends every session unless clients overlap there, and an owner who persists gets there: `LinksAreSpentOnce`, `ResetsEndSessions`, `NeverALockout`, `ResetGetsThrough` |
| `limiter` | 2 threads, 2 peers, forged and blank headers, limit 2, window 4, lag 1, clock to 6 | `WindowLimitUpToLag`, `DequeBounded`, `SweptKeysGone`, `RetryHonoured` |
| `snapshots_races` | 2 requests at a time, 2 days, 3 uploads | `UploadAloneReplaces`, `HeaderOfTheRace`, `RacesLoseNothing`, `WorkbookIsOneUpload`, `UploadsEnd` |
| `snapshots_overlap` | 2 overlapping uploads of one day | **violates** `LastUploadReplaces` |
| `backtest` | 4 days, 2 symbols, 4 price uploads, 3 sets of entries, 8 questions of which 3 are refused | `QuietAnswersAreRight`, `DetailIsTheBest`, `OneUploadInventsNothing`, `WarningsAreHonest` |
| `prices` | 2 uploads at a time, any number in a row, 2 symbols, 6 bodies | `TypeOK`, `FailsOnlyInRaces`, `BarOfTheRace`, `CountsAreTrue`, `ImplementsPriceTable`, `UploadsEnd` |
| `records` | 2 threads, 2 users, 2 symbols, 2 columns of 2 values, 2 rows at a time | `OneRowPerKey`, `DeletedMeansAbsent`, `AloneRequestSucceeds`, `ImplementsRecordMap` |
| `deploy` | 2 images: one before migration 0003, one with it; 2 scripts at a time | `ServedSchema`, `NoClashPast0003`, `TagWasHealthy`, `TagIsOnline`, `SoundImageServes`, `DeploymentsEnd` |
| `deploy_rollback` | 3 images: these two and one that never starts | **violates** `RollbackServes` |

`TypeOK` is checked by the run of `Prices`, where it says that no bar without a close is stored; in every module it is a
theorem (section 5). So are `AloneUploadOverwrites` and `OwnRecordsOnly`, which `BarOfTheRace` and `ImplementsRecordMap`
contain. The
violated properties are sentences of the repository's own documentation and
docstrings, quoted under `findings`; the passing runs say what remains true of them:
when no two requests redeem one link (`LinksAreSpentOnce`) and no two resets of one account overlap (`ResetsEndSessions`,
`auth_recovery`), for an upload that no other one overlaps
(`snapshots_races`), for the image that does answer (`deploy`).

Of further promises the runs check the form that does hold.
forgot_password (routers/auth.py:248) means to leave "exactly one working link": two requests that overlap leave two, because
`invalidate_email_tokens` and `create_email_token` are two transactions, and `LiveLinksBounded` says what is left, at
most one live link per worker thread. The rule of
the limiter fails when a check waits for the lock after it read the clock, and
`WindowLimitUpToLag` says by how much: the window shrinks by twice the longest wait. The bars of overlapping uploads, the
tag of an overlapped release and the warning about N = 0 are told in section 3.

**Bounds.** Two threads are enough for every race found: each needs one request that reads, another
that commits, and the first that writes. Three links allow an old link, the one being
used and a new one. In `auth_recovery` links and JWTs may expire once; in `auth_races` the clock
stands still, and expiry can only make fewer things acceptable (the theorems of section 5
have no such bound). Three uploads are a stored snapshot and two that race over it, one of
them in the middle of a download of both days. The six bodies of `prices` name two symbols in both
orders, one twice, one without a name, one without a close, and none; the table may change
without end. `records` stores two rows at a time: two records that stand beside each other, or one that races over its own
row; a first PUT that races while another record stands needs a third row and is left to the theorems. A clock of 6 with a
window of 4 lets a deque drain, be swept and fill
again. In `backtest`, four days hold an entry on a day without prices, one between two
open days and one whose N days have not passed; four uploads open every day or correct a
close, before, between and during the requests; entries include one without a price,
one with price 0 and two that are equal in everything. `OneUploadInventsNothing` is exactly as strong as the code: with two
uploads in the middle TLC finds an exit day and a close that never belonged together.
In `auth_recovery` the one failure may be a delay in which everything issued expires; four links are one of each purpose and
more of either after the failure (the run would not pass if they ran out). Deadlock is not checked there: an owner
who got the password may be done, and the links of the instance are finite. In `deploy`, people deploy only the older image by hand; two shells are a script and another one it
overlaps. The image that never starts is in `deploy_rollback` only; in `deploy` an image that meets a revision it does not know takes
its part.

Symmetry is used over threads, tokens, clients, users, symbols of records, values and shells, in runs without liveness only.

**Fairness.** `auth_recovery`, `snapshots_races` and `prices` assume weak fairness of the steps of a
request in flight (the thread pool keeps running a handler; PostgreSQL hands a released
lock to the waiting statement, and its `deadlock_timeout` looks for cycles) and `auth_recovery` of
sending a queued mail. The properties of `Recovery` have a hypothesis about the owner of the account, who does not give up
for good (`KeepsVerifying`, `KeepsResetting`: what is possible again and again is tried again and again); it is
stated in the property and no part of the specification. `prices` assumes strong fairness of `Flush`: a statement that waits for a row is
the next in line when the row is released, so newcomers cannot pass it for ever. `deploy` assumes that docker runs and
restarts the container and that the workflow and the scripts go on (every step of theirs has
a timeout). Nothing else is assumed of clients, nothing of people, of the clock, or of failures.

**Refinements.** `ImplementsSessions` (the JWTs that `get_current_user` accepts are the live
sessions, with any number of threads, since `Sessions` itself excepts an account whose resets raced), `ImplementsPriceTable` (the committed closes) and `ImplementsRecordMap` (the record of each
user and symbol) are abstract specifications as properties; every step of the detailed module
is one step of the abstract one or none.

## 5. What is proved

For every value of the constants, by TLAPS:

| Module | Theorem | Property |
|---|---|---|
| `AuthProofs` | `TypeCorrect` | `TypeOK` |
| | `PasswordChangeEndsSessions` | `SessionsDie` |
| | `ResetRetiresLinks` | `OlderLinksDead` |
| | `VerificationNeedsMail` | `VerifiedMeansMailedLink` |
| | `OneAccount` | `OneAccountPerAddress` |
| | `AccountsAreSafe` | `AccountChangesOnlyByReset` |
| | `LiveLinks` | `LiveLinksBounded` |
| | `OncePerThread` | a link changes the password at most once per worker thread |
| | `SpentOnce` | `LinksAreSpentOnce`: `SingleUse`, while no two requests redeem one link at the same time (`LinksRedeemedApart`) |
| | `SessionsImplemented` | `ImplementsSessions` |
| | `ResetsApartEndSessions` | `ResetsEndSessions`: `ResetEndsEverySession`, while no two resets of one account overlap (`ResetsApart`) |
| `RateLimiterProofs` | `LimiterTypeCorrect` | `TypeOK`, and every check counts under the address nginx appended (`KeyedByPeer`) |
| | `RuleHolds` | `WindowLimitUpToLag` |
| | `DequesAreBounded` | `DequeBounded` |
| | `SweepReaches` | `SweptKeysGone` |
| | `WaitIsEnough` | `RetryHonoured` |
| `RecordsProofs` | `RecordsTypeCorrect` | `TypeOK` |
| | `OneRow` | `OneRowPerKey` |
| | `DeletesAreTrue` | `DeletedMeansAbsent` |
| | `AloneSucceeds` | `AloneRequestSucceeds` |
| | `OwnRecords` | `OwnRecordsOnly` |
| | `TableImplementsMap` | `ImplementsRecordMap` |
| `DeployProofs` | `DeployTypeCorrect` | `TypeOK` |
| | `SchemaServed` | `ServedSchema` |
| | `NoClash` | `NoClashPast0003` |
| | `TagHealthy` | `TagWasHealthy` |
| | `TagOnline` | `TagIsOnline` |
| `SnapshotsProofs` | `SnapshotsTypeCorrect` | `TypeOK` |
| | `AloneReplaces` | `UploadAloneReplaces` |
| | `HeadersAreOfTheRace` | `HeaderOfTheRace` |
| | `NothingIsLost` | `RacesLoseNothing` |
| | `WorkbookIsWhole` | `WorkbookIsOneUpload` |
| `PricesProofs` | `PricesTypeCorrect` | `TypeOK` |
| | `FailsInRaces` | `FailsOnlyInRaces` |
| | `AloneOverwrites` | `AloneUploadOverwrites` |
| | `BarsOfTheRace` | `BarOfTheRace` |
| | `TrueCounts` | `CountsAreTrue` |
| | `UploadsImplementTable` | `ImplementsPriceTable` |
| `BacktestProofs` | `BacktestTypeCorrect` | `TypeOK` |
| | `SummariesAreRight` | `QuietAnswersAreRight` |
| | `DetailIsBest` | `DetailIsTheBest` |
| | `OneUploadIsHarmless` | `OneUploadInventsNothing` |
| | `WarningsHonest` | `WarningsAreHonest` |

Each module has one inductive invariant, `Inv` (`IInv` in `BacktestProofs`); the assumptions are the named ones of the modelled
module. None of the safety properties is inductive by itself.

- **Auth** assumes that `Norm` is idempotent, the thread pool is finite, times are naturals and NULL is no value. `SessionsDie` needs to know that, as long as no two resets of the
  account overlapped, the stored version *is* the number of password changes, and that the
  version in a request or a JWT is the number of changes at the moment it was read; `OlderLinksDead` needs that a reset past its
  consume step has a used link and that every link it saw at submission is used by the time
  it sets the password; the account properties need that rows are stored under normalised
  addresses and that a request past `create` has its row. `LiveLinksBounded` says that a set is small, which no step
can see: the invariant (`LinksOK`) is that the unused links of an account can be assigned to threads one to one, because a
thread that issues a link has just retired the one it issued before. `OncePerThread` counts password changes together
with the threads that still may make one (`SpentOK`); that number only grows while the link is unused, when it is
at most the number of threads. If no two requests redeem one link at a time it is at most one (`OnceOK`), and
the link is spent once. The refinement of `Sessions` needs that no version was issued ahead of its time (`AsofOK`). If no
two resets of one account are under way at once, `overlapped` stays false (`SerialOK`), and the exception disappears
from `SessionsDie`. `LinksRedeemedApart` and `ResetsApart` are hypotheses about behaviours with any number of threads,
not about the size of the pool.
- **RateLimiter** assumes that limits and windows are positive, that no window of RULES is wider than
  `Widest`, and that a blank entry or NULL is no address. An admission that can still share a window with a
  new one is in the deque, as far from its end as it is from the end of the log (`KeptOK`): so the
  deque's length counts the window. That survives the sweep, which looks only at the last entry,
  because entries are out of order by at most the longest wait (`OrderOK`), and pruning, because
  what the loop pops is expired for every later call too. `RetryHonoured` follows from `PromiseOK`: the first
  entry of the deque expires before the time the client was told.
- **Records**: a request that nobody raced still sees the row it read (`Undisturbed`), a row that a
  DELETE found is either still there or somebody removed it during the request (`SeenGone`), and `raced` is set whenever
  two requests of one record are open (`RacesKnown`). The refinement maps each step, with
  `OneRowPerKey` saying which row is the record.
- **Deploy** assumes that every image contains a migration of the chain and at least the first. A workflow that waits
  does so for a script of its own target (`JobScript`), a container past `alembic upgrade head` has the revision of
  its image (`DbOK`), an undisturbed health check speaks of the image it was meant for
  (`CheckOK`), and between the tag and the container there is always the `prev` of the script that runs (`OnlineOK`).

- **Snapshots** assumes finitely many days, given as numbers, and that NULL is no body. An upload that
  nobody has overlapped still knows the header it read, and from its DELETE on it holds exactly the rows of its
  day (`AloneOK`); after a commit the day holds at least the rows of that upload, and no others if it ran alone (`DayOK`). For the
  workbook the invariant follows the headers a download carries: none is newer than the last upload that ran alone, and an upload
  that runs alone now has a higher id than all of them (`NotNewer`). For the columns of a header: the uploads that
  an upload overlaps are its rivals, and only they write a column after it read the header (`RivalsOK`).
- **Prices** assumes that the primary key orders the symbols without repetition and that bodies are sequences of
  items. An upload decides everything when it reads the day and executes the decision later, so the
  proof has two halves. The first says what the decision is, for a body of any length: after `n` items the row of a symbol is its
  last quote and its last name (`Taken`), by induction over `n`; the flush then updates each changed row and inserts each new item once
  (`FlushPlan`). The second half is the invariant: an open transaction executes the plan of the day it read, whose rows
  are still there and which is the stored day if nobody overlapped it (`Planned`), and what it
  has executed it alone holds (`Executed`, `Locked`).
- **Backtest** assumes finitely many days, given as numbers like symbols and closes, and that NULL is neither a number
  nor a warning. The invariant says what a request knows while uploads go on: its entries are all it
  was asked for (`Listed`), its calendar is that of one table it lived through, the closes of each day come from
  one that came no earlier (`ReadOf`), days with prices only grow, and if only one upload
  came, all tables agree but for one day (`OneDayApart`). An entry touches at most two days of which that one day can be at most one, so it was seen as it
  is on *one* of the tables (`SeenApart`); that is `OneUploadInventsNothing`, and with no upload it is the table itself. What
  is computed from there is proved for lists of any length: a bisection counts the days below or up to a day
  (`Bisections`), so `nth_trading_day` finds the day of the definition (`NthTradingDay`); after k entries the loop holds the
  rows of those that trade, in order, and has counted the others (`TalliedStep`, by induction); places in a finite strict order are
  taken once each (`Ranks`), so the sorted list has every row once, each ahead of the next ones (`SortedLists`). The
  warning looks at the last entry day and the longest horizon only; that is enough because fewer days are left after a later
  day (`LatestExit`).
- **Induction**: the provers cannot instantiate a rule over predicates, but they can use a set of numbers. A set that
  contains 0 and with each number the next one contains them all (`NaturalInduction`), by well-foundedness of finite
  sets; `FoldExists` builds the iteration that a left fold chooses. So what a fold computes can be
  proved after all, one step at a time.

Only model-checked: liveness (`NeverALockout`, `ResetGetsThrough`, `UploadsEnd`, `SoundImageServes`, `DeploymentsEnd`), which with ENABLED is
beyond the prover. Every safety invariant, action property and refinement that a passing run
checks is a theorem; `LinksAreSpentOnce` and `ResetsEndSessions` carry the hypothesis that
the requests in question do not overlap, because without it `SingleUse` and `ResetEndsEverySession` are false.

## 6. What is not modelled

Workbook layout (`download_xlsx.py`, `backtest_xlsx.py`), message texts, logging, settings and request validation
(`schemas.py`): formatting or constants. Columns that nothing decides on (`display_name`, `password_changed_at`,
`created_at`). The list and coverage pages, which only read (their aggregates are several
statements and may disagree with each other while an upload commits, which nobody promises
otherwise). The rounded averages of the backtest. The downgrades of the migrations, which nothing calls;
the CI build and the one-time set-up of the cloud project. Tests run on SQLite with one connection, so none of the
interleavings here can occur in them.
