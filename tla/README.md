# A TLA+ development for xqlite

xqlite binds SQLite to the BEAM: Elixir modules under `lib/`, and a Rust NIF
library under `native/xqlitenif/src/` on top of rusqlite and the SQLite C API.
This directory models the parts of it that run concurrently, own memory, span
several calls or translate data in ways that are easy to get wrong. It checks
them with TLC on small instances, and proves the safety properties of all but
the modules about data with TLAPS, for every instance.

## The system

| Part | Code | State it owns |
| --- | --- | --- |
| Connection | `connection.rs`, `open`/`close` in `nif.rs` | `Mutex<Option<Connection>>`, hook slots, hook lists, dispatch tables |
| Prepared statements | `statement.rs`, `stmt_*` in `nif.rs` | `AtomicPtr<sqlite3_stmt>`, a reference to the connection |
| Streams | `stream.rs`, `stream_*` in `nif.rs` | the same, and column names |
| Incremental blobs | `blob.rs` | `AtomicPtr<sqlite3_blob>`, a reference to the connection |
| Sessions, changesets | `session.rs`, `session_*` in `nif.rs` | `Mutex<Option<Session>>`, a reference to the connection |
| Busy slot | `busy_handler.rs`, `hook_util.rs`, `Xqlite.busy_timeout/2` | a boxed policy with its observers behind a raw pointer |
| Hook lists | `hook_util.rs`, `update_hook.rs`, `commit_hook.rs`, `rollback_hook.rs` | copy-on-write lists of subscribers |
| Progress, cancellation | `progress_dispatch.rs`, `cancel.rs` | tokens and tick subscribers on one C callback |
| WAL hook | `wal_hook.rs`, the repair in `set_pragma` | a slot shared with SQLite's autocheckpoint |
| Log hook | `log_hook.rs` | a process-wide subscriber list |
| Backup | `backup*` in `nif.rs` | a step loop under the mutex |
| Transactions, STRICT rebuild | `transaction.rs`, `lib/xqlite.ex` | SQLite's transaction state, over several NIF calls |
| Stream consumer | `lib/xqlite/stream_resource_callbacks.ex` | the accumulator of `Stream.resource/3` |
| Telemetry bridge | `lib/xqlite/telemetry/bridge.ex` | several registrations and a forwarder process |
| Authorizer, extension loading | `authorizer.rs`, `nif.rs` | a deny list, an enabled flag |
| Queries, value conversion | `query.rs`, `util.rs` | none: one call |
| Schema introspection, EXPLAIN ANALYZE, errors | `schema.rs`, `explain_analyze.rs`, `error.rs`, `constraint_parse.rs` | none: one call |
| Type extensions, Mix tasks, library entry | `lib/xqlite/type_extension*`, `lib/mix`, `lib.rs` | none |

How they interact:

* Every BEAM process may call any NIF with any handle it has. A NIF runs on a
  (dirty) scheduler thread, so two calls with the same handle run in parallel.
* SQLite is opened without its own mutexes. All calls of SQLite are meant to
  be made under the connection's Rust mutex; the exceptions are the connection
  destructor, which has no one left to exclude, and looks at an atomic pointer.
* Statements, streams, blobs and sessions are resources with a reference
  (`conn_resource_arc`) to the connection resource. A destructor runs on
  whichever thread drops the last reference, at any time.
* A panic inside a NIF unwinds to rustler and poisons the mutexes held.
* SQLite calls back (busy, progress, update, commit, rollback, WAL) while the
  mutex is held by the calling NIF; the callbacks read state through raw
  pointers that the connection resource owns.

`PROJECT.json` lists every component with its status, and the hazards at the
lines where they bite.

## Modules

| Module | What it is |
| --- | --- |
| `SqliteContract` | what SQLite asks of its caller: an abstract specification |
| `HandleLifecycle` | connection, statements, streams, blobs, sessions: mutexes, pointers, destructors, panics; implements `SqliteContract` |
| `HandleLifecycle_control`, `HandleLifecycle_proofs` | the proofs about the lifecycle, in two parts |
| `BusySlot`, `BusySlot_proofs` | the busy handler: policy, observers, PRAGMA busy_timeout, busy events |
| `FanOut` | what a subscriber list promises: an abstract specification |
| `HookList`, `HookList_proofs` | the copy-on-write list; implements `FanOut` |
| `Cancellation` | cancel tokens, guards and tick subscribers on the one progress callback |
| `AutoCheckpoint` | what the autocheckpoint threshold promises: an abstract specification |
| `WalHook` | the WAL hook slot, its emulated autocheckpoint (implements `AutoCheckpoint`), `set_pragma`, `wal_checkpoint` |
| `LogHook` | the process-wide log hook |
| `Transactions` | transactions and savepoints, and a process that follows them through the hooks |
| `Backup` | `backup`, `restore`, `backup_with_progress` |
| `ExtensionGate` | the flag and the switch of extension loading |
| `Authorizer` | the deny list and the statements it decides about |
| `Values`, `Params` | conversion of terms and values; parameters of every call that takes some |
| `RowDelivery` | rows in batches: streams with their three error modes, `multi_step` |
| `BlobIO` | offset arithmetic, handles whose row changes under them |
| `Changeset` | capture, and `changeset_apply` with its conflict strategies |
| `StrictRebuild` | `enable_strict_table/2` over its separate NIF calls |
| `TelemetryBridge` | bridging and unbridging several hooks |
| `Errors` | classification of errors, details parsed from messages |
| `DefaultLiteral`, `SchemaIntrospection` | column defaults; the five introspection calls |
| `ExplainAnalyze` | the statements behind `explain_analyze` and their ends |
| `MCHandleLifecycle` | the lifecycle for TLC: at most `MaxHandles` handles born |
| `MCSubscribers` | for TLC: `HookList`, `LogHook`, `TelemetryBridge` |
| `MCRunningCalls` | for TLC: `Cancellation`, `Backup`, `RowDelivery` |
| `MCCommits` | for TLC: `WalHook`, `Transactions`, `StrictRebuild` |
| `MCTranslations` | for TLC: `Params`, `Errors`, `DefaultLiteral`, `SchemaIntrospection` |
| `MCFeatures` | for TLC: `ExtensionGate`, `Authorizer`, `BlobIO`, `Changeset`, `ExplainAnalyze` |
| `Subscribers_proofs`, `RunningCalls_proofs`, `Commits_proofs`, `Features_proofs` | the proofs about the components of the MC module of that name |

The MC modules other than `MCHandleLifecycle` group components that share no state and are asked the same kind
of question. A variable `focus`, chosen at the start, says which component
moves; the others rest in their initial states. A behaviour of such a module is
thus a behaviour of one component, and a property stated there is the one that
the component's module states.

Definitions with an underscore and a lower-case suffix (`LoadPtr_stale`) are
deliberately wrong variants of the definition after which they are named. No
specification uses them. Each one shows that some property can fail.

Most runs check one property per component and question, which is the
conjunction of the statements the module makes above it: `SlotSound`, say, of
`TypeOK`, `SlotOwnsItsBox`, `CallbackReadsCurrentState` and `RetryBudget`. Each
conjunct has its own comment, and each fails under a wrong variant named for
the property in `PROJECT.json`.

### SqliteContract

External: SQLite's rules, as far as `native/xqlitenif` depends on them. The
state is the connection (`open`, `zombie`, `freed`), each object opened on it
(`none`, `live`, `dead`) and what each thread's current call works on. A call
is an interval, `Enter` to `Leave`. `Enter` needs that no other thread is
inside and that the target is `Legal`; `Leave` applies the effect: create,
destroy, close, or none. A live statement or blob keeps a closed connection
from being freed; a session does not.

### HandleLifecycle

One connection, its handles, and the threads that use them. A step is one
access to shared memory. Variables and the code:

| Variable | Code |
| --- | --- |
| `lock`, `poisoned` | the mutex around `XqliteConn.conn` |
| `slock` | the mutex of each `XqliteSession` |
| `conn` | the `Option<Connection>` is `Some` |
| `db`, `obj` | SQLite's side: the connection and each object |
| `ptr` | a handle's `AtomicPtr` is not null (a session's `Option` is `Some`) |
| `res`, `refs` | the resource and the processes that hold a reference |
| `connRes`, `connRefs` | the same for `XqliteConn` |
| `pc`, `op`, `arg`, `left` | where each thread is, in which operation, on which handle, rows left in a batch |

The operations as paths through the control points:

| NIF | Path |
| --- | --- |
| queries | lock, check, call |
| `stmt_prepare`, `stream_open`, `blob_open`, `session_new` | lock, check, call; the handle is born (`Born`), born empty (`BornEmpty`, a stream over an empty statement), lost (`Orphan`) or not created (`NotOpened`) |
| `close` | lock, check (`CloseTake` takes the `Option`), call |
| `stmt_*`, `blob_*` | lock, check, load (the pointer, under the lock), call |
| `stream_fetch` | a look at the pointer, lock, check, load, call per row, take and free on the last one |
| `stream_close`, `stmt_finalize`, `blob_close`, destructors | swap (without the lock), lock, free |
| `session_*` | lock, check, slock, load, call |
| `session_delete`, destructor | lock, slock, take, free, or forget when the connection is closed |
| connection destructor | cdrop, cclose, cfree: the body of `drop`, the connection, the other fields |

`Panic` may happen in any call: it poisons the mutexes the thread holds. `Share`
sends a handle to another process. `DropRef`, `DropConnRef` drop a reference,
and the last one starts the destructor. `ReleaseRef` is the end of a child's
destructor, where its reference to the connection goes.

No guard mentions SQLite's rules. `Contract` instantiates `SqliteContract` with
`target` computed from `pc`, `op` and `arg`; `SqliteCallsLegal` is its
specification.

Data is left out: SQL, parameters, rows, offsets. A failing SQLite call and a
successful one differ only where the code then does something else with the
handle.

### BusySlot

One connection's busy handler. The heap is explicit: `box` maps addresses to
`BusySlotState`s, `slot` is the raw pointer of the connection, `handler` is
SQLite's copy. Each operation runs under the connection mutex and is one step,
with SQLite's acceptance of the registration as a choice. A busy event spans
several steps and holds the mutex; the clock ticks at any time.
`Xqlite.busy_timeout/2` is two NIF calls and so two actions, `TimeoutRemove`
and `TimeoutPragma`, with other processes in between. Handles restart at 0
when the slot empties, as in `snapshot`. `Repeat` says whether processes
unregister the same handle twice. Sleeping between retries is time that passes
(`Tick`); the messages to observers are left out.

### FanOut and HookList

`HookList` is the list behind the update, commit, rollback, WAL and progress
hooks, one step per access to shared memory: fetch a handle, load the head,
build the copy, swap, free the old one; or, for a callback, load the head and
walk. `live` and `vec` are the heap. The callback takes no lock of its own: it
runs inside a NIF that holds the connection mutex. `FanOut` has three
variables, the handles registered, the handles ever given out and what the
current event has still to reach; `HookList` implements it with `Subscribers`
(the list the head points to) for the first and the walk's remainder for the
last. The other modules that need a subscriber list take it as `FanOut`
promises it.

### Cancellation

Tokens are flags that any process sets without a lock and that are freed with
their last reference. A call takes the mutex, registers a raw pointer to each of
its tokens (`GuardRegister`, one per step), runs, is called back (`Fire`,
`CheckOne` per subscriber, then `Interrupt` or `TickPass`), and drops its guard.
A panic of the callback is a step of its own. A statement may end without any
callback: SQLite calls back only every `PROGRESS_NUM_OPS` instructions. Tick
subscribers keep their counters across the copying of the list.

### WalHook and AutoCheckpoint

SQLite has one `wal_hook` slot and implements its autocheckpoint in it. `slot`
says who is there. `SetPragma` is the NIF with its repair, `RawPragma` the same
pragma as plain SQL, `Commit` a commit with our callback in the slot or not,
`WalCheckpoint` the NIF. `SqlitePragma` reads a value as SQLite does, with C's
`atoi` on a small `int`. Readers and checkpointers of other connections decide
how far a checkpoint gets.

### LogHook

The log callback and the writers exclude each other by `MASTER_LOCK` only. A
panic poisons it: writers fail from then on, callbacks go on.

### Transactions

Each NIF is one step. Next to SQLite's state there is a follower, a process
that knows the connection only by the messages of its update, commit and
rollback hooks and keeps a copy of the table. `StatementFails` is a statement
that breaks a constraint behind some rows, of which the update hook has already
told; SQLite takes them back, or with OR FAIL keeps them. SQLite has no message
for three things, and the history variables record them: a commit that fails
after the commit hook spoke (`announced`), and rows taken back by ROLLBACK TO or
by a statement that failed inside a transaction (`rewound`). `torn` says that
one of these has reached the follower's copy for good; `FollowerAgrees` makes no
claim from then on.

### Backup

One call at a time; `Poll` looks at the tokens, `Step` copies pages, `StepBusy`
meets a lock, `Others` lets another connection write or lock. A change of the
source makes the next step start over (`pass`). `backup` and `restore` are
loops of rusqlite and give up when busy; `backup_with_progress` is the code's
own loop and does not.

### ExtensionGate and Authorizer

`ExtensionGate` separates the look at the flag, the lock and the question to
SQLite. `Authorizer` has the deny list, its installation, which expires prepared
statements, its removal, which does not, and statements that are prepared,
started, under way or finished.

### Values, Params, RowDelivery

`Values` has the two conversions to SQLite and back, `encode_val` for queries and
streams and `column_to_term` for stepped statements, on one value per case the
code tells apart. `Params` applies them: `OneShot` is a call of `query`,
`execute`, `stream_open` or `explain_analyze`; `StmtBind`, `StmtStep`,
`StmtReset` and `StmtClearBindings` are the manual interface. A bind that fails
leaves the parameters before the failure bound to the new values; `mixed` is the
set of those. `RowDelivery` abstracts a row to readable or not. `pos` is how far
SQLite has stepped since the statement started, `seen` what the consumer got,
`lost` what was read and dropped with a failed batch. An error of `sqlite3_step`
may hit any step. It ends a stream; for `multi_step` SQLite resets the statement
by itself, and the next call starts over at the first row (`MultiStepFails`).

### BlobIO, Changeset

`BlobIO` keeps the widths: offsets are `usize`, SQLite's sizes are `c_int`, both
a few bits wide. `size` is the length SQLite noted when the handle was put on its
row. An UPDATE, which may make the blob longer or shorter, or a DELETE expires
the handle and leaves `size` alone; the next access aborts it, and from then on
it counts no bytes. `HandleLifecycle` leaves this out: it takes every open blob to be one that still has its statement.
`Changeset` has a source table, a capture, and a replica to which the changes
are applied in any order, with SQLite's deferral and retry of constraints and
its foreign key check at the end; `ConflictHandler` is the code's closure.

### StrictRebuild, TelemetryBridge

Both are Elixir functions of several NIF calls, one step each, with others in
between. `StrictRebuild` has the table, the temporary table and the indexes;
another connection inserts and creates indexes whenever SQLite's write lock
lets it. The one column of the table is plain, a primary key, or the key of a
WITHOUT ROWID table, whose DDL the rewrite does not recognise. `late` has what
the other connection added after the check, and after the list of indexes.
One handle has one caller, as `guides/gotchas.md:307` advises.
`TelemetryBridge` has the hook lists, each bridge's process with its mailbox,
and a connection that is closed at any moment. Its busy hook is bridged like
the others, although `lib/xqlite/telemetry.ex:455` and
`guides/wiring_telemetry.md:103` leave it out.

### Errors, DefaultLiteral, SchemaIntrospection, ExplainAnalyze

Sequential code against a reference. In `Errors` an incident is what happened,
`Message` is the text SQLite makes of it (a sequence of names and of the fixed
words), `ClassifySqliteError` and `ParseDetails` are the code, and the properties
ask for the incident back. `DefaultLiteral` reads texts of characters as the
code does and as SQLite does. In `SchemaIntrospection` DDL builds a schema and
each call translates what the PRAGMA shows of it: a foreign key with its
columns, its two actions and its target columns if any, an index with its
origin and flags. `ExplainAnalyze` follows the two statements of a call through
every early return. A run that fails leaves any part of its writes. `held` and
`ran` are history: the statements there were when the call began, and whether it
got as far as running its own.

## Runs

| Run | Instance | Shows |
| --- | --- | --- |
| `lifecycle` | 2 processes; any two of a statement, a stream, a blob and a session; batches of up to 2 rows | legal calls; nothing lost silently; nothing but tear-down after a close or a panic; callback state outlives every call; garbage collection frees the connection; the inductive invariant of the proof (`IInv`, `CallbackStateAlive`, `SqliteCallsLegal`, `CollectionFreesConnection`) |
| `lifecycle_liveness` | 2 processes, 1 stream, 1 session | the mutex is always released; destructors finish and close the connection (`LockAlwaysReleased`, `TeardownCompletes`) |
| `busy_slot` | 2 processes, 2 boxes, 3 handles, up to 2 retries, 3 ticks | memory, observers, budgets, effect of changes; every busy event ends (`SlotSound`, `ObserversKept`, `FreshClock`, `ChangeTakesEffect`, `BusyEventEnds`) |
| `subscribers` | hook list: 3 threads, 3 addresses, 4 handles | no list freed while walked, none kept; handles unique; `FanOut` implemented (`ListSound`, `FanOutSpec`) |
| | log hook: 3 threads, 4 handles | every registered subscriber is served, no event lost, also after a panic (`EveryoneServed`) |
| | bridges: 2 bridges, 2 hooks, 2 events | nothing left behind, no interference, events emitted once and in order (`BridgesKeepTheirLists`, `EmitsWhatItHeard`) |
| `running_calls` | cancellation: 2 threads, 2 tokens, lists with none, one, both and a repeated one, 1 panic | flags alive; guards leave nothing behind; only own tokens interrupt; a callback that meets a spent token interrupts; a signalled token stops a statement that would run for ever (`DispatchSound`, `SpentTokenInterrupts`, `CancelStopsStatement`) |
| | ticks: 2 tick subscribers, 5 callbacks | each subscriber keeps its own cadence (`TickCadence`) |
| | backups: 3 pages, steps of 0, 1, 2, 5 pages, 2 writes, 2 calls | success means a complete copy; a token ends the call; the call returns when the locks are gone (`OkMeansCopied`, `BackupEnds`) |
| | rows: up to 4 rows, batches of 0, 1, 2, 3, 5, a step failing at any point | no failed read looks like a completed stream; order kept; only `multi_step` starts over, and says so; every enumeration ends, that of `multi_step` unless its step fails for ever (`DeliversTheResult`, `EnumerationEnds`) |
| `commits` | WAL: 2 databases, logs of up to 3 frames, `int` from -3 to 2, 1 fault | the emulated autocheckpoint is SQLite's; no commit goes unheard except past the repair; `get_pragma` reports the threshold in force (`AutoCheckpointSpec`, `KeepsBothBehaviors`) |
| | transactions: 2 rows, 2 savepoint names, depth 2, 3 changes in all | a follower of the hooks keeps a true copy, except where SQLite has no message; reported changes are the statement's own (`FollowerAgrees`, `ReportedIsOwn`) |
| | STRICT rebuild: 2 rows, 2 indexes, 6 types and 3 roles of the column, every call failing or not | all or nothing; the check foresees the copy, except for a NULL in a primary key (`AllOrNothing`, `CheckForeseesCopy`) |
| `translations` | parameters: 2 named ones, lists of up to 3 terms, 13 kinds of terms (5 of them for a manual statement); 8 kinds of column values | what runs is what was given, through every call; bindings follow the successful binds; both conversions agree (`OneShotRunsWhatWasGiven`, `SteppedIsQueried`) |
| | errors: names that hold the separators | the class and the details are those of the incident (`ErrorIsTheIncident`) |
| | defaults: texts of up to 5 of 9 characters, 4-bit integers | literals are SQLite's, none is missed, decoding inverts encoding (`DefaultIsSqlites`) |
| | schema: declared types of up to 3 words, 2 elements, key indexes up to 256 | affinities are SQLite's; answers lose nothing; every call answers, except about a foreign key without target columns and a key index beyond its type (`SchemaIsAnswered`) |
| `features` | extensions: 3 threads, 5 calls | a load that raced a disable is refused (`GateHolds`) |
| | authorizer: 2 statements, 2 known actions and an unknown one | what is denied never starts (`DenyListHolds`) |
| | blobs: 4-bit `usize`, 3-bit `c_int`, 2 rows of 0 to 2 bytes that change and go, 8 offsets and lengths up to the largest | reads and writes touch exactly their range; a handle whose row changed answers no byte (`TouchesItsRange`) |
| | changesets: 2 keys, 3 values, 3 writes, every replica | applied or untouched; `:ok` means applied; `:omit` skips only conflicts (`ApplyKeepsItsPromise`) |
| | EXPLAIN ANALYZE: 2 calls, 2 rows, 2 loops | a report is of a whole run; a statement that ran is finalized, however the run ended (`RunIsWhole`) |

Bounds. A race on a handle needs the handle, one thread that frees it and one
that uses it, and a destructor is always alone with its resource. Two handles of
any kinds together show that the end of one does not free the other's
connection. Two rows per batch give a fetch that
continues and one that ends in the middle. Two boxes are all the busy slot ever
has at once: the old one and its successor; the time limit (3) and the retry
limit (2) differ, so that they cannot be mixed up unnoticed. A hook list needs
two addresses at a time, and a third shows that addresses are used again. Two
tokens and two threads give a call with a foreign token signalled. Five
callbacks cover two periods of the slower tick subscriber. Three pages with
steps of one and two give copies that are interrupted before, between and after
steps; five is more than there is. Small integers put every overflow within
reach: a 3-bit `c_int` against a 4-bit `usize`, an `int` up to 2 against
thresholds beyond it. Two rows with one deferred key between them are what a
broken commit needs. Two hooks give a first that registers and a second that
fails. Two keys and three values let two rows exchange a unique value, which is
what makes SQLite put a change off.

Deadlock is not checked: every system here may really stop, with all references
dropped, the connection closed, the one call of a sequential module answered or
the bound on calls, handles or events reached. Blocking is covered by
`LockAlwaysReleased`, `TeardownCompletes`, `CancelStopsStatement`, `BackupEnds`
and `EnumerationEnds`.

Fairness. `FairSpec` of `HandleLifecycle` is weak fairness of `Step(t)` for
each thread: a thread that is inside a NIF or a destructor goes on when it can.
Mutex acquisition needs no more than that in these properties, since they ask
for release, and for tear-down when the other threads are done. Nothing is
assumed about a process calling a NIF or dropping a reference.
`FairSpec` of `BusySlot` is weak fairness of `BusyCallback`: SQLite calls the
handler again as long as it finds the database locked. `FairSpec` of
`Cancellation` is weak fairness of each thread's steps after it has the mutex,
`Fire` included: a running statement executes instructions, and SQLite calls
back every few of them. Nothing is assumed about statements ending. In `Backup`
the steps of the running call are fair and those of others are not;
`CallReturns` is conditional on the locks going away for good. In `RowDelivery`
the consumer goes on asking until the enumeration has ended or it stops; a
consumer of `multi_step` may be sent back to the first row for ever, and
`EnumerationEnds` claims nothing of that case.

### Where code and comments disagree

These runs state what a comment or the documentation says and find it violated
by the code. `PROJECT.json` quotes the lines.

| Run | Disagreement |
| --- | --- |
| `stream_open_leak` | "finalized on error before returning" (`nif.rs:1078`): a parameter that does not decode returns by `?` after the statement was prepared, and nothing finalizes it |
| `busy_handle_reuse` | "an unknown or already-removed handle is a no-op" (`xqlite.ex:1434`): the handle may have been given out again to another process |
| `blob_teardown` | closing is sound after the connection was closed, because an open blob keeps it alive (`blob.rs:248`): an aborted one does not |
| `strict_in_tx` | "left untouched" on error (`xqlite.ex:489`): inside a transaction of the caller, that transaction is rolled back |

Other sentences the models follow the code on, and not the text. They have no
run; the definition named is where the model shows the behaviour.

| Where | Text and code |
| --- | --- |
| `BusySlot`, `UninstallHook` | the sentence of `busy_handle_reuse`: on an empty slot the call still resets SQLite's busy handler and discards a plain timeout |
| `BusySlot`, `TimeoutPragma` | "keeps both sides consistent" (`xqlite.ex:1454`): not if another process sets a policy between the two NIF calls |
| `HandleLifecycle`, `ConnDrop` | "`conn` drops first" (`connection.rs:60`): the body of `drop` runs before the fields are dropped. Nothing calls SQLite in between, so no callback is affected (`CallbackStateAlive`) |
| `Cancellation`, `SpentTokenInterrupts` | a spent token cancels the next operation "the moment it starts stepping" (`gotchas.md:177`): at its first callback; a statement that ends before it completes |
| `WalHook`, `SetPragma` | `set_pragma` "keeps both behaviors" (`xqlitenif.ex:1364`): not with the name in capitals |
| `WalHook`, `WalCheckpoint` | a nil schema is "the main database" (`xqlitenif.ex:885`): it is every attached one; passive "never returns `busy: true`" (`xqlitenif.ex:876`): it does while another connection checkpoints |
| `Transactions`, `Commit` | a rollback message after "deferred-FK failure at commit" (`xqlitenif.ex:1414`): nothing is rolled back and nothing sent |
| `Params`, `OneShot` | "not supported for `execute/3`" (`xqlitenif.ex:283`): keyword lists are bound by name |
| `RowDelivery`, `HandleFetchError` | "`{:ok, row}` for each row" (`xqlite.ex:883`): rows read in the batch of the error are dropped |
| `RowDelivery`, `StreamFetch` | a `batch_size` of 0 returns an empty list (`xqlitenif.ex:1121`): it is an error |
| `BlobIO`, `Read` | a read returns empty "at or past the end" (`blob.rs:129`): also anywhere in a handle SQLite has aborted |
| `BlobIO`, `Read` | "bytes available" (`blob.rs:129`): those of the size noted at opening, so after an UPDATE that made the blob longer a read past the old end answers empty and not an error |
| `StrictRebuild`, `StrictSql` | "Converts an existing table to STRICT mode" (`xqlite.ex:482`): a table whose DDL ends in WITHOUT ROWID is rebuilt as it was, and the answer is `:ok`; where a column has a type for the check to query, the check fails, since its query names the rowid |
| `StrictRebuild`, `NothingMissed` | violations come from `check_strict_violations/2` (`xqlite.ex:487`): it passes a NULL in a primary key, which the copy then refuses with SQLite's own error |
| `StrictRebuild`, `AllOrNothing` | "preserves indexes" (`strict_table_test.exs:216`): not one created between the reading of the list and BEGIN IMMEDIATE |
| `Changeset`, `Capture` | changes "since ... the last changeset capture" (`xqlitenif.ex:1633`): a capture does not reset the session |
| `ExplainAnalyze`, `CollectQueryPlan` | "no resource leaks" (`README.md:227`): the statement is not finalized when the plan cannot be had |
| `SchemaIntrospection`, `EverySchemaAnswered` | `to_column` "can be `nil`" (`foreign_key_info.ex:16`): such a key makes the call fail |
| `SchemaIntrospection`, `AffinityIsSqlites` | "the resolved data type affinity" (`column_info.ex:52`): ANY is `:binary` also where SQLite makes it NUMERIC |

## Proofs

All from the assumptions on the constants only. They are stated in the modules
that declare the constants, and TLC evaluates them in the runs:
`LifecycleAssumption` (the kinds of handles are disjoint, `MaxBatch > 0`, `Db`
and `None` are distinct from the rest); `BusyAssumption` (the bounds are natural
numbers, `None` is none of the other values); in the other modules, that `NULL`,
`Nobody` or `Absent` is none of the values it stands beside and that bounds are
natural numbers; in `MCFeatures`, that a `c_int` is no wider than a `usize`, that
blobs have a length a `c_int` can say and that offsets and lengths fit a `usize`
(`WidthAssumption`, `ContentsAssumption`, `ArgsAssumption`, `ChunksAssumption`);
in `MCCommits`, that a statement changes finitely many rows (`RowsAssumption`)
and that SQLite's default threshold fits its `int`; in `MCRunningCalls`, that
page counts and batch sizes are integers. Any number of threads, handles,
boxes, observers, lists, tokens, rows and calls.

| Module | Theorem | States |
| --- | --- | --- |
| `HandleLifecycle_proofs` | `Invariant` | `Spec => []IInv` |
| | `CallsLegal` | `Spec => SqliteCallsLegal`: `HandleLifecycle` implements `SqliteContract` |
| | `LifecycleSafe` | `TypeOK`, `NothingLostSilently`, `QuietAfterCloseOrPoison`, `CallbackStateAlive` always hold |
| | `CollectionFrees` | `Spec => CollectionFreesConnection` |
| `BusySlot_proofs` | `SlotSafe` | `Spec => []SlotSound`: `TypeOK`, `SlotOwnsItsBox`, `CallbackReadsCurrentState`, `RetryBudget` |
| | `ObserversSafe` | `ObserversKept` always holds if no handle is unregistered twice |
| | `ChangesReachSqlite` | `Spec => ChangeTakesEffect` |
| | `FirstRetryGranted` | `Spec => FreshClock` |
| `HookList_proofs` | `Invariant`, `ListSafe` | `IInv`; `Spec => []ListSound`: `TypeOK`, `SnapshotLive`, `NothingRetained` |
| | `ListIsFanOut` | `Spec => FanOutSpec`: `HookList` implements `FanOut` |
| | `HandlesFresh` | `Spec => HandleNeverReused` |
| `Subscribers_proofs` | `LogServesAll` | of `LogHook`: `EveryoneServed` |
| | `BridgesSafe`, `BridgeEmits` | of `TelemetryBridge`: `BridgesKeepTheirLists`, `EmitsWhatItHeard` |
| `RunningCalls_proofs` | `Invariant`, `DispatchSafe` | of `Cancellation`: `IInv`; `DispatchSound`, which is `TypeOK`, `FlagsAlive`, `GuardScoped`, `OwnTokensOnly` |
| | `SpentNeverPasses`, `TicksInCadence` | of `Cancellation`: `SpentTokenInterrupts`, `TickCadence` |
| | `OkIsACopy` | of `Backup`: `OkMeansCopied` |
| | `RowsDelivered` | of `RowDelivery`: `DeliversTheResult` |
| `Commits_proofs` | `FollowerSafe`, `ReportsOwnRows` | of `Transactions`: `FollowerAgrees`, `ReportedIsOwn` |
| | `BothBehaviorsKept` | of `WalHook`: `KeepsBothBehaviors` |
| | `EmulatesAutoCheckpoint` | `WalHook` implements `AutoCheckpoint` |
| | `RebuildSafe`, `CheckIsExact` | of `StrictRebuild`: `AllOrNothing`, `CheckForeseesCopy` |
| `Features_proofs` | `Invariant`, `FlagFaithful`, `DisabledForGood`, `GateSafe` | of `ExtensionGate`: `IInv`; `FlagMirrorsSwitch`; `DisabledMeansNoLoad`; `GateHolds`, the two together |
| | `DenyListDecides` | of `Authorizer`: `DenyListHolds` |
| | `BlobRangesExact` | of `BlobIO`: `TouchesItsRange` |
| | `ApplySafe` | of `Changeset`: `ApplyKeepsItsPromise` |
| | `RunsWhole` | of `ExplainAnalyze`: `RunIsWhole` |

The theorems of the last four modules are about each component's own
specification, reached through its instance in the MC module.

**Lifecycle.** That SQLite is called legally is not inductive: it depends on
who holds what at every other control point. `IInv` says it in layers:

* `LockInv`: a thread is between lock and unlock exactly when it holds the mutex.
* `ControlInv`: which operation may be at which control point on which kind of handle.
* `RefInv`: a call holds a reference to what it works on; a destructor is alone with its resource.
* `ConnInv`: the connection destructor runs once, when no reference and no child is left.
* `ObjInv`: a non-null pointer points to a live object; a thread that swapped it
  out is the only owner of a live object; a call that loaded it under the lock
  works on a live object.
* `DbInv`: `Some(conn)` means open; freed means that no statement or blob is live.
* `QuietAfterCloseOrPoison` and `NothingLostSilently` complete it.

The key is ownership: finalizing needs the swap *and* the mutex, using needs
the load *under* the mutex, so between a load and the end of its call no one
can free the object, although the swap itself takes no lock.
There is one lemma per layer, with one step per action or per family of alike
actions (entering a NIF, opening a handle): types, `LockInv`, `ControlInv`,
`RefInv` and `ConnInv` in `HandleLifecycle_control`, the rest in
`HandleLifecycle_proofs`. They are two modules because the prover slows down as
a module grows. `HandleLifecycle_proofs` then shows that each step enters SQLite legally,
leaves it with one of the allowed effects, or does not touch what the contract
sees. `IInv` is also checked by TLC (`lifecycle`).

**Busy slot.** `SlotInv` adds `EventServed` to the invariants: during a busy
event our handler is registered. `ObserverInv` adds that all handles in
use are below the counter, which is what makes new handles new; it holds only
while nobody unregisters twice, and `busy_handle_reuse` shows why.

**Hook list.** `SnapshotLive` says nothing of who may free what. `IInv` adds:
`LockInv`, a thread inside a NIF holds the mutex; `LiveInv`, the lists allocated
are the published one and, in the hands of one writer, the one it is about to
publish or has just unpublished; `PtrInv`, what a thread has loaded is still the
head; `HandleInv`, handles in the list and in a writer's hands are below the
counter; `PublishInv`, what a writer will publish is the present list with its
one change. The last one is what the refinement needs: the swap is the step that
maps to `Register` or `Unregister`, and all others map to `Fire`, `Deliver` or a
stutter.

**Cancellation.** `IInv` adds to the types: `LockInv`; `OwnInv`, the subscribers
are those of the call that holds the mutex; `TargetInv`, they point at that
call's tokens; `LiveInv`, the tokens of a call in progress are alive, since the
call's arguments hold references to them; `HitInv`, a callback that wants an
interrupt has seen a signalled token of its own call. `RoomInv` is about the
bound on callbacks. `CoverInv` and `SpentInv` are for `SpentTokenInterrupts`: no
token of a call is without its subscriber once the statement runs, and a
callback of a call that began with a spent token has met it or has it before it.
`Cadence` counts what each tick subscriber was sent and what is left of the
period.

**Log hook and bridge.** `LogInv`: whoever reads or writes the list holds
`MASTER_LOCK`, and what a walk has told and what it has still to tell are the
list. `BridgeInv`: on an open connection a bridge's entries in the lists are
exactly the handles it holds; while it registers, the handles and the hooks
still to come are what was asked for; what it emitted and its mailbox together
are the events that were due.

**Backup and rows.** `CopyInv`: nothing is in the destination before the step
that completes it. `RowsInv`: every row stepped over is in `seen` or in `lost`,
`seen` is increasing, whoever lost a row was told unless the mode is `:halt`, and
a statement that was given back early had been read to its end. That `pos`
goes back only in `MultiStepFails` is a separate step.

**Transactions.** `FollowerInv`: the mirror with the buffer applied is the table
the connection sees, unless the open transaction took rows back; the mirror is
the committed table, unless the commit was announced in vain. The toggling of
rows is associative, so a buffer grows as the table does. `CountInv` is for the
reported rows.

**WAL hook.** `SlotInv`: our callback is in the slot unless raw SQL went past
the repair, and a hook of SQLite's own has a positive threshold. The refinement
maps each commit and each pragma to the step of `AutoCheckpoint`.

**STRICT rebuild.** `RebuildInv`: what a rollback would restore is the table and
the indexes that were found (`SavedInv`), the two tables are as far as the next
call needs them (`ProgressInv`), and the list of indexes lacks only the late
ones (`ListedInv`). `CheckedInv` carries what the check saw to the copy: every
row but the late ones has an allowed class.

**Features.** Extension gate: `IInv` adds that only a thread between telling
SQLite and storing the flag holds the mutex across steps, and that with the
mutex free the switch is what the last successful call asked for. Authorizer:
`AuthInv`, no list is left behind where no authorizer is installed. Blobs:
`BlobInv`, the size a handle knows fits a `c_int`, so that what is clamped to it
is cast to itself, and on a live handle it is the length of the row. Changesets:
`SetInv` relates what is still pending, the replica as it was and the replica as
it is; under `:omit` a change that was left out was so for a reason that lasts.
EXPLAIN ANALYZE: `RunInv`, each stage has everything of the stages before it,
and `HeldInv`, from the plan to its return a call holds one statement more than
it found.

Only model-checked: liveness (`LockAlwaysReleased`, `TeardownCompletes`,
`BusyEventEnds`, `CancelStopsStatement`, `BackupEnds`, `EnumerationEnds`), which
is out of the prover's reach, and the modules about data, `Params`, `Values`,
`Errors`, `DefaultLiteral` and `SchemaIntrospection`, which compare recursive
definitions or need an induction over texts and lists. `DefaultLiteral` leaves
two things out of its comparison: a float stands for its text, so its value is
not compared; and the hexadecimal integers SQLite itself refuses, the too wide and
the least one negated, may be answered as expressions.

## Not modelled

* `serialize` and `deserialize`, `changeset_invert` and `changeset_concat`: one
  SQLite call on a binary each. The first two are, as NIF bodies, query calls of
  `HandleLifecycle`; the others take no handle.
* `schema_databases`, `get_create_sql`, `compile_options`, `connection_stats`
  and other readers that hand over what SQLite returns.
* Opening a connection (path, flags): I/O, and the initial state of the models.
* The encoding of error variants, results and reports as terms, and the table of
  pragma specifications in `lib/`: formatting and data.
* Type extensions walk a list of stateless codecs. `lib.rs` declares atoms and
  resource types. Mix tasks are tooling.
* A second enumeration of a stream, whose statement the first one has used up:
  the repository does not say what it should yield.
* What becomes of the hooks of a bridge when its caller rescues the exception of
  a hook list with `:all` in it, and of the linked process of
  `bridge_log_global` when SQLite's log callback cannot be installed.
* Foreign keys and triggers of a table that is rebuilt as STRICT: the code does
  not look at them.
* `Errors` takes names that do not contain the words "already exists": a table
  name with them is told apart by no one.

The modules are composed where one relies on another. `HandleLifecycle` shows
that NIF bodies exclude each other and that a connection's callback state
outlives every call; `BusySlot`, `WalHook`, `Transactions` and the other modules
with one step per NIF call rest on that. `HookList` shows that the lists keep
`FanOut` as long as writers and callbacks exclude each other; `Cancellation`,
`WalHook` and `TelemetryBridge` rest on that. `LogHook` shows the exclusion for
its static list, which has another lock.

## Plan

1. `FinalizeContract`: what the finalize NIFs promise their caller, as a second
   abstract specification for `HandleLifecycle`.
2. `HandleLifecycle` with blobs that SQLite aborts, joining it with `BlobIO`.
3. A second enumeration of a stream in `RowDelivery`, once its meaning is
   settled.
