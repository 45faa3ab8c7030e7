# HomeOfThings: formal specifications

TLA+ models of the stateful core of the HomeOfThings repository, the TLC
configurations that check them on small instances, and proofs, checked by
TLAPS, that the most important properties hold for every size of the system.

The core of the repository is the path from a web request to a SQLite session:
the interceptor and the connection manager of `nestjs-sqlite3`, the connection
pool of `sqlite3orm`, and the transactions on a connection. Around it are modelled
the upgrade of the database schema, with crashes; the objects and rows of
`BaseDAO`, with the clauses its filters become; the metadata that classes sharing
a table merge; the tree of asynchronous contexts of `asyncctx`; the children and
pipelines of `node-sys`; and `jsonpointerx`. All of it is asynchronous,
single-threaded JavaScript: nothing runs in parallel, but at every `await` (a
callback of the native SQLite module, a timer, an event) anything else may run.
That is what most of the models are about.

## Inventory

Paths are below `src/packages/node/` unless stated otherwise.

| component | state | operations | hard behaviour | what makes it correct |
|---|---|---|---|---|
| connection pool (`sqlite3orm/src/lib/core/SqlConnectionPool.ts`, `SqlConnectionPoolDatabase.ts`) | file and mode, queue of idle connections, set of lent ones, the promise of the current open; per connection: native handle, pool, dirty mark | open, close, get (with timeout), release; close and open (steal) of a pooled connection | every operation awaits the native module and the others go on meanwhile; failing opens; a handle moves from the returned wrapper to a new one | a session has one user at a time and reaches the next one without a transaction; no handle and no slot is lost; waiting ends |
| database connection (`core/SqlDatabase.ts`, `SqlDatabaseSettings.ts`) | native handle, dirty mark | open, close, run, exec, transactionalize, endTransaction, settings | statements of several callers interleave on one connection; BEGIN and COMMIT may be refused; the process may die | a transaction is atomic, and none stays open |
| prepared statements (`core/SqlStatement.ts`) | native statement | bind, run, get, all, each, finalize | none of its own | forwards each call |
| online backup (`core/SqlBackup.ts`) | native backup | init, step, finish | steps beside writers | the copy is a state the source has had |
| schema upgrade (`AutoUpgrader.ts`, `dbcatalog/DbCatalogDAO.ts`) | none; reads the catalog, writes the schema | upgradeTables: create, alter or recreate each table | several statements, only recreate in a transaction; foreign keys are off meanwhile | no row is lost; a second upgrade finds nothing to do; foreign keys are on again |
| data access object (`BaseDAO.ts`) | none; objects that stand for rows | insert, replace, update, delete, select, relations, each for all or some columns | an object outlives its row, ids come back, others change the row between read and write | a call reaches the row the object stands for, or is rejected; it leaves the columns alone it does not name |
| query model (`query/*`) | none | a where-object becomes a WHERE clause | nesting, parameters numbered across parts, NULL, empty parts | the clause selects what the where-object says |
| metadata (`metadata/*`) | registered models and tables, with merged fields, keys, indexes | init and destroy of models | tables and fields shared by models; a definition that throws half-way; what is computed once, early | a table exists as long as a model uses it, and has what its models have declared |
| request connections (`@homeofthings/nestjs-sqlite3/src/lib/service/connection-manager.ts`, `sqlite3-interceptor.ts`, `repository.ts`, `entity-manager.ts`, `@homeofthings/node-utils/src/lib/async-context/async-context.ts`) | pools by name, a dictionary of connections for every asynchronous context | openConnectionPool, closeAllConnectionPools, createConnectionContext, closeConnectionContext, getConnection | a dictionary is read before the await of the pool and written after it; several pools; shutdown | requests do not share connections, all go back, the response tells what was committed |
| module wiring (`nestjs-sqlite3/src/lib/sqlite3-core.module.ts`, `nestjs-utils/.../dynamic-root.module.ts`) | registered options | start, shutdown hook | order of the providers | pools are open before they are used and closed once |
| continuation local storage (`asyncctx/src/lib/*`) | a tree of asynchronous contexts | init, before, after and destroy hooks, get and set | the events of the resources come in any order; the tree is pruned while others hang on it | a resource inherits from the nearest started one that triggered it; nothing is held for ever |
| caches and sessions (`node-utils/src/lib/lru-cache/lru-cache.ts`, `hot-server/src/lib/user/user-ssession.service.ts`) | an ordered map; rows | get, set, delete; createSession, getSessionById | overlapping lookups; capacity 0 | bounded, the least recently used entry goes first |
| configuration (`node-utils/src/lib/config`, `nestjs-config`) | merged tree | load | order of sources | the later source wins |
| processes and pipes (`node-sys/src/lib/process/*`) | the last child of every command, options | spawn, run, wait, pipe | exits, errors and output in any order; a command that is started again, a child that does not start | a wait tells the end of the child it was for; a run settles |
| file system helpers (`node-sys/src/lib/fs`, `node-utils/.../write-file-if-changed.ts`) | none | thin promises | none of their own | - |
| json pointer (`src/packages/js/jsonpointerx`) | none; a document changed in place | compile, print, get, set and remove | encodings on top of each other, array ends, missing ancestors | what is set is read back, and nothing else changes |
| logging (`nestjs-logger`, `node-utils/src/lib/log`) | loggers by name | log | none | - |
| authentication (`hot-server/src/lib/authentication`, `user`) | none | login guard, user lookup | a guard runs before the interceptor | uses a connection of its own request |
| gateway and command line (`hot-gateway`, `hot-cli`) | none | start-up | none | - |
| build tooling (`src/build`) | none | release scripts | run by hand | - |

How they interact: a guard, handler or service calls a `Repository` or
`EntityManager`; each operation calls `ConnectionManager.getConnection(name)`,
which looks into the dictionary of the asynchronous context and, if there is no
connection, calls `SqlConnectionPool.get`. The operation then runs on that
`SqlDatabase` through `BaseDAO`. When the handler's observable emits or fails,
the interceptor calls `closeConnectionContext`, which ends the transactions and
closes the connections, and `SqlConnectionPoolDatabase.close` is
`SqlConnectionPool.release`. A release rolls back, moves the native handle to a
new wrapper and puts that into the queue of idle connections. `BaseDAO` takes its
columns, keys and conversions from the metadata of its class. The other packages
do not call each other: `asyncctx`, `node-sys` and `jsonpointerx` are libraries.

## Modules

| module | stands for |
|---|---|
| `SessionLease` | what the pool promises: abstract specification, and the pool as `ConnectionManager` sees it |
| `SqlConnectionPool` | the pool in detail; `LeaseContract` says that it implements `SessionLease` |
| `SqlTransaction` | calls of `transactionalize` on connections to one database file |
| `ConnectionManager` | interceptor, contexts and named pools, on top of `SessionLease` |
| `SchemaUpgrade` | `AutoUpgrader.upgradeTables` by several processes on one file |
| `MetaRegistry` | classes mapped to tables: definition, merging, destruction |
| `QueryFilter` | where-objects, the clauses they become, and what they mean (definitions only) |
| `RowAccess` | `BaseDAO` with one object on rows that others change, and the where-objects of `QueryFilter` |
| `ContextTree` | `ContinuationLocalStorage` under the events of async_hooks |
| `Processes` | `Exec` and `Pipe` with their children |
| `JsonPointer` | `jsonpointerx` on a document that pointers have built |
| `SqlConnectionPoolProofs`, `SqlTransactionProofs`, `ConnectionManagerProofs`, `SchemaUpgradeProofs`, `RowAccessProofs`, `MetaRegistryProofs`, `ProcessesProofs` | theorems about the module they are named after |
| `LibraryProofs` | theorems about `ContextTree` and `JsonPointer` |
| `MC...` | model values, constants and symmetry for TLC |

### SqlConnectionPool

Code between two awaits is one action; an await is a value of `call[c].pc`.
`databaseFile`, `mode`, `inPool`, `inUse`, `opening`, `db`, `member` (the field
`pool` of a connection) and `dirty` are the fields of the two classes; `fileOf`
and `txn` are the native sessions; `stage` and `wfile` are native opens under
way; `app` is what the application holds.

- `Get`, `Poll`, `GetOpened`, `GetFailed`: `get`, with the ticks of `wait`.
- `Drop`, `Recycle`, `RolledBack`, `Reapplied`: `close` of a connection, which
  is `release` and `recycleByPool`. `Reapplied` is the only point where the old
  wrapper and the new one both have the handle.
- `Steal`, `StealOpen`, `StealOpened`: `open` of a pooled connection.
- `Open`, `OpenResume`, `OpenStart`, `FirstOpened`, `RestOpened`, `OpenFails`,
  `OpenRejects`, `OrphanOpened`, `Close`: `open` and `close` of the pool. Calls
  woken by one `this._opening` run before any other callback (`Draining`): they
  are microtasks.
- `DbOpened`, `Transact`, `SchemaQuery`: the native module, and what the
  application does with a connection.

Abstractions: `inPool` is a set (which idle connection is served first matters
to no property); a connection has one native open under way, so a call does not
steal one that `get` handed out while the open of the pool is still opening it; closing a handle is one step, because the code unhooks the
handle before it awaits; wrappers and handles that nothing refers to are reused.
`Overlap`, `AppOps` and `Faults` say what the environment does, so that each run
and each theorem names its proviso:

- `"admin"`: `open` and `close` of the pool may overlap other calls;
- `"double"`: a connection is closed again while its first close is pending;
- `"steal"`, `"schema"`, `"txn"`: stealing, dirty connections, transactions;
- `"open"`, `"settings"`, `"rollback"`: native calls that fail.

### SqlTransaction

`pc` is where the promise chain of a call is, `lock` the connection whose
transaction is open, `buf` its statements and `stored` the durable ones. SQLite
is external: BEGIN IMMEDIATE takes the write lock or is refused, COMMIT may be
refused with the transaction still open (a reader is active) or be rolled back,
and a crash undoes the open transaction. `transactionalize` has one `catch` for
all of its steps, so a refused BEGIN is followed by a ROLLBACK: that is
`BeginRefused` and `RolledBack`. A statement outside a transaction is durable at
once, which happens to a call whose transaction another call on the same
connection has ended.

### ConnectionManager

A dictionary is an object (`Holders`): `getConnection` reads which one it is
before the await and writes into it afterwards, even if the context has been
given another one meanwhile. `ctx` is the store of `AsyncLocalStorage`,
`Default` the value `AsyncContext` falls back to. `Succeed` is the interceptor's
`next` callback: it sends the response and takes the connections over,
`EndTransactionAnswered` is one answer to the COMMITs it has sent, and
`CloseConnections` follows all of them. `Fail` closes at once and leaves the
rollback to the pool (`PoolCleans`). `EarlyOps` lets operations run before the
interceptor, as the guards of `hot-server` do (`UserLoginGuard`, through the
passport strategy, `UserService` and its repository). A handler's observable
emits one value, and the handler awaits its own operations (`Idle`, the guard of
`Succeed` and `Fail`, which the code does not have).

### SchemaUpgrade

`up[u].pc` is the statement process `u` waits for, the rest of `up[u]` what its
promise chain has captured: the tables left (`queue`), the catalog as read
(`seen`), the columns and indexes to do. `saved` are the tables as everybody
reads them, `db` those inside the open transaction `txn`, `fk` the PRAGMA of
each connection.

- `UpgradeTables`, `ForeignKeysOff`, `ForeignKeysOn`, `NextTable`, `Failed`:
  `upgradeTables`; `UpgradeMode` is `getUpgradeInfo`, `UpgradeTable` is
  `_upgradeTable` with the statements it chooses.
- `ReadColumns`, `ReadRest`: `readTableInfo`, in two parts between which
  another process may change the table. `ReadRest` takes the statements about
  indexes, foreign keys and the text in `sqlite_master` as one.
- `Begin`, `Rename`, `Create`, `Copy`, `DropOld`, `AddColumn`, `DropIndex`,
  `CreateIndex`, `Commit`, `RolledBack`: one statement each. `Create` without
  `Begin` is `createTable`; columns are added, and indexes made, in any order.
- `Impossible`: SQLite cannot execute a statement because another process has
  been faster; `Fault`, `Crash`: any other refusal, and the death of a process.
- `Insert`: another connection writes a row. `kept` and `due` remember which
  content has to survive: that of the columns that stay, unless the upgrade
  itself creates them.

Abstractions: `strict` stands for all that is compared of a column (NOT NULL,
type, default) and adding such a column to a table with rows fails; an index has
one column; a foreign key is the table it refers to; a row is the set of its
cells. A statement that finds another transaction open waits, or is refused by
`Fault`. A database to start from has no temporary tables, and a table without
columns does not exist. SQLite is external: ALTER TABLE RENAME rewrites the foreign
keys of the other tables (since 3.26 whatever the PRAGMA says), DROP TABLE deletes
the rows that refer to the dropped ones while foreign keys are enforced.

### MetaRegistry

`tables` is `mapNameToTable`, `decl` what a model has declared, `transform` and
`qmCache` what a property and a query model compute once. Definition of a class is
synchronous, so `Define` is one step: `Initialising` is the table after
`getOrAddTable` and after each of the three passes over the properties, for their
fields, indexes and foreign keys; it stays as it is from the first conflict on. `Destroy` gives up the table with its last model;
`NewDAO` fills the cache of foreign keys; `SetDateInMilliSeconds` changes the
default of the schema. `debris` and `blind` are history: they say where a
definition has thrown, and where options that decide about the rowid were given
without adding the key again, which the code does not follow up. `RowIdFits` and
`TablesInUse` make these exceptions and no others.

Abstractions: three of the options of a column (the others are merged by the same
code), one type affinity per option, names without quotes; a class is defined at most once. The
type of a property is one of those with a conversion of their own: UNKNOWN and
conversions that a class brings along (`MetaProperty.ts:63-65`) are left out.

### QueryFilter and RowAccess

`QueryFilter!toSql` follows `Where` and the predicates to a clause with numbered host
parameters, `Evaluate` is what SQLite makes of the clause with its three truth
values, and `Means` what the documentation says the where-object means, without
clauses and parameters. `Throws` and `IsFilter` are the ways out. A where-object is
the list of its conditions in the order in which the recursive calls of `toSql`
return: each one after those it consists of, which it names by their places, and the
whole at the end (`IsWhere`). So nesting of any depth is a loop over the list
(`Translating`, `Evaluate`, `Meanings`) and open to proofs.

A call of `BaseDAO` runs one statement, so it is one step: `Insert`, `Replace`,
`Update` (each with all columns or with those the object has), `Delete`,
`UpdatePartialAll`, `DeleteAll`, `Select`, `SelectOne`, `SelectParentOf`,
`SelectAllOf`, `Count`. `model` is the object, which stays what it is while the
`Others...` actions change the table. `kind` is the kind of the table; `Generated`
the id SQLite chooses, with or without AUTOINCREMENT. A row carries the number of
its birth, and the object that of the row it was read from or written as: that
is how `NeverAnotherRow` tells a row from another one that got its id.

Abstractions: one table whose foreign key refers to itself; integer columns; one
object at a time, whose last call is remembered in `last`. Others insert by
letting SQLite choose the id. Failing statements (constraints but the key's) change
nothing and are left out.

### ContextTree

The hooks `init`, `before`, `after` and `destroy` are `Create`, `Before`, `After`
and `Destroy`; the operations `SetContext`, `SetRootContext`, `Enable`, `Disable`
and `Dispose`. `idHookMap` is the map, `hook` the objects in it, which stay
reachable through `triggerHook` after they have left it. `stack`, `last` and `gone`
are what node does: it numbers resources, runs their callbacks, and reports the
destroyed ones between callbacks. The history keeps the whole tree: `trigger`,
`ran`, `value`. `Owner` walks through it to say whose context a resource is in,
which `OwnContext` compares with what the pruned tree answers. `Nested` and
`LateTriggers` say whether node runs a resource inside another one
(`runInAsyncScope`) and whether a destroyed one triggers others.

### Processes

`context` is `options.context` of an `Exec`, its last child. `child` has the state
of each child (starting, running, exited, failed), the child it reads from
(`source`) and whether it has output left that is collected (`unread`). A call of
`run`, `start` or `wait` has the children it has started (`own`), the promises of
`wait` with their listeners (`waits`), and `seen`, the last child of the program
when the call went on for the last time.

- `Begin`: `run` or `start` up to its first await; `LaunchNext`: the loop of
  `Pipe.spawn` after an await, which reads `options.context` of the item
  again to find its output; `GiveUp`: the rejection.
- `Spawned`, `SpawnFails`: the report of a child. The listeners of those who wait
  for the child already hear an error too.
- `AllStarted`: `run` after `await this.spawn`: `Listen` attaches to the child each
  `Exec` has by then, which need not be the one the call has started. `Wait` does
  the same at any time.
- `Exit`, `Abort`, `Read`: exit code or signal, an error of a running child,
  output. Reports and promises come before node returns to its event
  loop (`EventLoop`), but other code of the program runs between any two of them:
  `Begin` and `Wait` are enabled then, for the same `Exec` as well.

`Outcome` is `Promise.all`. With `setIgnoreExitCode` the code answered is that of
the child the `Exec` has at that time (`stale` when it is not the one waited for).
`Alone` says that no `Exec` of a call has been started again between the call's own
start of it and the moment the call was done with starting. The properties except
the other cases, and `stale`, by name.

Abstractions: `echo`, `ref`, shells and the text of commands are left out, and so
are stdin from a list and stderr; options are set before the first start. A
child is only started when the number left (`Due`) is enough for the calls under way.

### JsonPointer

Segments are sequences of characters, because the encodings are what it is about:
`toString` and `toURIFragmentIdentifier` print, `compile` parses, `Literal` is the
text that `compileFunctions` generates. `set` works in place, so the operator
returns the document with or without an exception: `Way` goes down from node to
node and makes the ancestors that are missing, `Setting` puts the value, or what an
exception has left, into the nodes from the last one up. `doc` is every document
that pointers can build from an empty object or array, and the properties look at
each pointer and value in each of them.

`compileFunctions` writes a segment between quotes and escapes backslashes and quotes
only, so a segment with a line break is no literal (`IsLiteral`, external) and
`new Function` throws (`Compiles`): such a pointer has no `compiledGet`.

Loops over characters and segments are recursive functions on the positions
(`Replacing`, `Decoding`, `Splitting`, `Walk`, `Way`, `Setting`), so that they can be
reasoned about. Elements of an array are found by number (`Key`). Bounds:
`Chars` are characters that `encodeURIComponent` leaves alone, and those in the table
`URIComponent`; `IndexAssumption` leaves out signs and white space in front of digits,
which `parseInt` skips, and numbers above `MaxIndex`, which are no indexes; segments are no names
that every object or array has (`length`), and none that is blacklisted.

## Runs

| run | instance | what it shows |
|---|---|---|
| `pool_steady` | 3 calls, 4 connections, 3 handles, min 1, max 2, settings, opens and closes of the pool between other calls | `LeaseContract`, `NoOrphan`, `NoLeakedSlot` |
| `pool_lifecycle` | 2 calls, min 3, max 3, pool opens and closes at any time, failing opens and settings | `TypeOK`, `Exclusive`, `IdleClean`, `IdleUsable`, `LeaseContract` |
| `pool_wait` | 3 calls on a pool of one connection, fairness | `WaiterHasReason`, `NeverForgotten` |
| `pool_opens` | 3 overlapping `open` calls of 2 connections each, failing opens, fairness | `OpensSettle` |
| `transactions` | 3 calls of 2 statements on 2 connections, refusals, a crash | `AllOrNothing`, `NoDanglingTxn` |
| `contexts` | 2 requests, a scarce pool and an ample one, refused COMMITs, failing opens, shutdown, fairness | `Isolation`, `NoLeak`, `OutcomeHonest`, `SameConnection`, `Served` |
| `upgrade` | 2 processes, one of them with foreign keys enforced, a parent and a child table, 3 databases to start from, 3 options, a writer, one refusal or crash, fairness | `RowsKept`, `NoDebris`, `ResolvedIsActual`, `ForeignKeysRestored`, `Converges` |
| `context_tree` | 4 resources, 2 values, hooks switched twice | `OwnContext`, `OnlyPendingHold` |
| `registry` | 3 classes on one table, with options that agree, complete or conflict | `TablesInUse`, `DeclarationsHold`, `RowIdFits`, `CacheIsCurrent` |
| `rows` | 2 ids, 2 columns, 3 kinds of tables, 2 objects, 5 where-objects, 2 insert modes | `NeverAnotherRow`, `OnlyMatching`, `OthersKept`, `AnswersHonest` |
| `processes` | 2 commands, alone and as a pipe, 3 calls, 3 children, collected output, fairness | `WaitHonest`, `RunResolves`, `Connected`, `RunSettles` |
| `pointers` | 5 segments, pointers of 2, undefined, null and a number as values | `SetThenGet`, `AppendKeeps`, `FailedSetKeeps` |

What the properties say is in the comments before them. The type invariants of
`ConnectionManager`, `SchemaUpgrade`, `ContextTree`, `MetaRegistry` and `Processes` are
proved, and that of `RowAccess` holds in the instance above and can be added
to the .cfg file; the runs are kept to the properties that say more. The
inductive invariants are not in a run, because they are proved.

Why the bounds are enough: two calls show every pairwise interleaving of awaits
and the third one is the bystander that takes what they lose. A recycle needs
two wrappers for one handle, and two recycles at once four. Min 2 is the smallest
pool with a `Promise.all`, min 3 the smallest where one open of it fails while
another is under way (`OrphanOpened`); max 1 or 2 is reached with the calls there
are. `MaxAdmin` bounds calls of `open` and `close`: three
are needed for an open that waits, one that runs and one that interferes. In
`Get` one call is kept free, so that an application all of whose calls wait can
still return a connection. Two statements are the fewest for which half of a
transaction can be durable; three calls on two connections always share one.
For requests, one session of the scarce pool and two requests make them wait.
Constants beyond these are covered by the proofs, where there are any. For
upgrades, a parent and a child are the fewest tables with a foreign key. The
databases to start from are an empty one, one where the parent has to be
recreated and the child altered, and one where it is the other way round; indexes are
missing, on another column, or right. One fault is
enough to cut an upgrade off anywhere, while the other process goes on.

In `ContextTree` four resources are the root and a chain of three, the shortest
in which the middle one can be gone while the last one has not started. Three classes are
the fewest of which one leaves a table to two that conflict. `MaxId` 2 and
`MaxBirths` 2 let an id come back once, for a row the object has not been read
from; the column "a" has a default, and "limit" is named like a member of a filter.
Three calls with three children are a pipe, a restart of one of its commands and
somebody who waits, with their starts and exits in any order; two runs of a whole pipe
need four children, and the same properties hold with 4 children and 2 calls. Exit codes are 0 and a signal. The segments of a pointer are an index,
one that only looks like one, "-", and two keys that have between them every
character that any of the encodings replaces, one of them with a line break.

`CHECK_DEADLOCK FALSE` is set where the system may stop: an application need not
make further calls, and the bounded counters run out.

## Fairness

- `SqlConnectionPool!Fairness`: the native module answers every request and the
  interval timer of `wait` fires (weak fairness of `Poll` and of the callbacks;
  JavaScript runs queued callbacks in order and starves none). `Returns`, part
  of `FairSpec`, is an assumption about the application: it closes what it holds.
- `ConnectionManager!Fairness`: answers as above; handlers end. An operation
  and the end of a handler compete, because a handler may start one operation
  after the other; strong fairness of `Fail \/ Succeed` says that it does not do
  so for ever. A waiting `getConnection` is polled, hence weakly fair: it may
  miss a session that is free only between two of its polls, and `Served` holds
  because the number of requests is finite.

- `SchemaUpgrade!FairSpec`: SQLite answers every statement, and each process
  upgrades again until it has succeeded, as an application does that upgrades
  whenever it starts.
- `Processes!FairSpec`: node reports what becomes of every start, a call
  goes on when what it awaits has settled, and every child ends, by itself or by a
  signal. Nothing is assumed of the program or of output. Exits and output wait
  for `EventLoop`: a program that keeps node from its event loop for ever, by endless
  promises, is not considered (its calls are bounded).

## What is proved

`tlapm` checks every step; no step is assumed. Every theorem holds for all values
of the constants that satisfy the assumption of its module; what else it needs is
in its ASSUME and named here. An invariant that a run checks is seldom inductive;
the inductive one was checked by TLC on the instances above before it was proved.

### The pool

`SqlConnectionPoolProofs`, for all sets of calls, connections, handles and files,
all min and max, with or without settings. All of it assumes that the application
does not close a connection a second time while the first close is pending
(`"double" \notin Overlap`).

With failing opens, and with `open` and `close` of the pool overlapping anything:

- `PoolTypeCorrect` (`[]TypeOK`) and `PoolExclusive` (`[]Exclusive`). `Exclusive` is
  not inductive: that a recycled handle enters the queue once needs that no other
  call works on its wrapper. The inductive invariant is `Structure`: two wrappers
  share a handle only while one call is between `RolledBack` and `Reapplied`
  (`AliasOnlyInRecycle`), each call in flight works on connections that are in
  none of the sets (`CallsPlaced`), on which no other call works (`CallsApart`),
  and an idle connection is not lent (`IdleApart`).
- `PoolIdleClean` (`[]IdleClean`), if a ROLLBACK does not fail. `TxnPlaced` adds
  where transactions are: on open handles, held by the application or by a call
  about to roll them back.
- `PoolIdleUsable` (`[]IdleUsable`). `Opening` says where native opens are under way,
  that they open for the call that waits for them, and that two calls never wait
  for the same one; `IdleOpen` that an idle connection has a handle or is in the
  `Promise.all` of a call of `open`.
- `PoolKeepsLease` (`Spec => LeaseContract`), if a ROLLBACK does not fail: the pool
  implements `SessionLease`. The mapping chooses the holder of a handle;
  `Structure` makes it unique (`HolderIs`, `HolderWillBe`), and each action is a
  `Lease`, a `GiveBack`, a step of a transaction or a stutter (`GivesBack`,
  `Leases`, `LeaseStep`).

Without overlapping `open` and `close` of the pool, and without failing opens and
settings (`Overlap = {}`, `Faults \cap {"open", "settings"} = {}`; the findings say
what goes wrong otherwise):

- `PoolNoOrphan` (`[]NoOrphan`) and `PoolNoLeakedSlot` (`[]NoLeakedSlot`). `InOrder`
  says that a call that opens the pool is alone, `Accounts` keeps the books: a lent
  connection is held by the application and open, an open handle is idle, held
  or in the hands of a call, and what each call knows of it.
- `PoolWaiterHasReason` (`[]WaiterHasReason`), also without stolen and dirty
  connections (`AppOps`): the argument counts the connections on the books, which
  an operation moves from one set to another and never takes away.

### Transactions

`SqlTransactionProofs`, for any number of calls, connections and statements:

- `TransactionInvariant` (`[]IInv`) and `TransactionsAtomic` (`[]AllOrNothing`): a
  call that has its connection for itself is atomic. A call that is alone owns
  the open transaction as long as its callback runs (`OwnsTransaction`), with
  exactly the statements it has run, so only its own COMMIT makes them durable.
- `NoTransactionLeftOpen` (`[]NoDanglingTxn`), also for calls that share.

### Request connections

`ConnectionManagerProofs`, for any number of requests, pools and sessions, with
failing opens, refused COMMITs and shutdown, where operations run in a context
(`~EarlyOps`; the default dictionary is a finding):

- `RequestsIsolated` (`[](TypeOK /\ Isolation)`), also for handlers with several
  operations in flight. The invariant is `Apart`: two requests in a context never
  have the same dictionary (`ContextsApart`), an operation writes into that of its request
  (`OpsInContext`), the session under a name is held for the dictionary unless its
  pool has been closed (`DictPlaced`), and what an interceptor is committing is
  held by a dictionary that is nobody's context any more (`ClosingPlaced`,
  `ClosingApart`).
- `ManagerKeepsLease` (`Spec => LeaseSpec`): the manager uses sessions as
  `SessionLease` lends them, with the dictionaries as holders. Together with
  `PoolKeepsLease` this is where the two models meet.
- `NothingLeaks` (`[]NoLeak`), `OneConnectionPerRequest` (`[]SameConnection`) and
  `ResponsesHonest` (`[]OutcomeHonest`), for handlers that await each operation
  (`OneAtATime`). `Kept` says that the slot of a dictionary is still free when the
  answer of the pool is written into it (`SlotFree`), that the sessions a request
  has used are those in its dictionary, and where each transaction is that was
  begun for it (`AuthorOf`, `TransactionsTraced`).

### Schema upgrade

`SchemaUpgradeProofs`, for any tables, definitions and databases to begin with, any
number of processes on one file, refused statements and crashes at any point:

- `UpgradesLoseNothing` (`[]RowsKept`), `UpgradesLeaveNoDebris` (`[]NoDebris`) and
  `UpgradeTypeCorrect` (`[]TypeOK`). A table is renamed and dropped in a transaction
  only (`Transactions`), so others never see the step where its rows are
  elsewhere. What has to survive is a column of the stored table (`SavedFits`), of
  the table or its renamed copy inside the transaction (`OpenFits`), and of the
  catalog a process has read however long ago (`SeenFits`), which is why copying
  only the columns it knows of keeps it.
- `UpgradesRestoreForeignKeys` (`[]ForeignKeysRestored`), if the PRAGMA itself is not
  refused: an upgrade under way remembers the setting (`ForeignKeysKnown`).
- `UpgradesSucceed` (`[]ResolvedIsActual`), for what one upgrade can settle at all
  (`Upgradable`): it is given all tables, those that refer to a table after it
  (the findings say what goes wrong otherwise), index names are unique, and no
  index has moved to another table, as `CREATE INDEX IF NOT EXISTS` does nothing
  while that table has it. TLC checks that the databases of `upgrade`
  satisfy `Upgradable`. The invariant `JInv` says that what a stored table lacks is owed:
  by an upgrader that has yet to look at the table, has noted it (`Noted`), or is
  recreating it (`RefsOwed`, `IndexesOwed`); that a table an upgrader is done with
  lacks nothing but foreign keys and indexes, whatever others do to it meanwhile
  (`Relies`); and that a transaction rebuilds one table and breaks foreign keys
  only of tables that come later (`OpenRight`). That no step of any process makes a
  table worse for the others (`Better`, `ReliesKept`) is what lets several
  upgrade one file; an upgrader that has failed owes every table again.

### Objects and rows

`RowAccessProofs`, for tables and values of any size and any where-objects:
`ObjectsKeepToTheirRow` (`NeverAnotherRow`), `UpdatesKeepTheRest` (`OthersKept`) and
`WritesAreTold` (`AnswersHonest`), properties of steps. The first one rests on `SameRow`: in
a table with AUTOINCREMENT the id of an object that stands for a row has been given
out before, and if there is a row under it, it is that row.

`WheresReachWhatTheyMean` (`OnlyMatching`) is about where-objects of any size and depth,
with any values: what the database makes of the clause (`Selects`) is what was
meant (`SelectsMeant`). The translation takes a new name for each value
(`FreshName`: one of n + 1 names is free if n are in use) and never binds a name
again (`More`), so that at the end every predicate still has its values
(`Binds`, `toSqlIs`); a clause is empty exactly if the condition says nothing
(`EmptyOrSaid`); and the truths of clauses (`EvaluateIs`) and of conditions
(`MeaningsIs`) then agree, one after the other. That the functions which are
defined from their own smaller values exist at all is `CourseExists`.
`RowAccessAssumption` asks for well-formed where-objects and finitely many columns.

### Contexts

`LibraryProofs`, for any number of resources and values, where callbacks do not nest
and a destroyed resource triggers nothing (`~Nested`, `~LateTriggers`; the first is
a finding otherwise): `ContextsInherited` (`[](TypeOK /\ OwnContext)`) and `TreeIsPruned`
(`[]OnlyPendingHold`). While the hooks are on, the pruned tree mirrors the graph of the
triggers (`Mirrored`): the hook of a pending resource leads past the pruned ones
to the same owner. `Owner` follows links from resource to resource; that it is
defined for all of them, and unchanged when a link is cut short, is proved by
well-founded induction, as every link goes to a smaller number.

### Processes

`ProcessesProofs`, for any children, commands, pipes (with a command twice as well)
and calls:

- `WaitsTellTheTruth` (`[](TypeOK /\ WaitHonest)`), with `Honest` for every entry of
  every call.
- `RunsResolveAtTheEnd` (`[]RunResolves`). When a call that is `Alone` listens, the
  child each of its `Exec`s has is the one it has started (`LastChild`: a context
  is the last child of its `Exec`), so its entries are for its own children, and
  what `Honest` says of them is what the run tells; the answer is that of the last one.
- `PipesStayConnected` (`[]Connected`), for the same reason: when `LaunchNext` looks up
  the output of the item before, the child found there is the call's own.

### Metadata

`MetaRegistryProofs`, for any classes, tables, columns and declarations:
`DeclarationsAlwaysHold` (`[]DeclarationsHold`), `TablesAreInUse` (`[]TablesInUse`),
`RowIdAlwaysFits` (`[]RowIdFits`), `CacheStaysCurrent` (`[]CacheIsCurrent`) and
`TypeCorrect`, all from the invariant `MInv`. The code throws in the middle of a
definition and takes nothing back, so the argument is that nothing is ever taken
away: `Extends(x, y)` says that whatever the table x has, y has as well, and every step of
a definition, whether it fails or not, only extends the table (`FieldAdded`,
`IndexAdded`, `FKAdded`, `TableMerged`). What a living class has declared (`Holds`),
and what is in a cache (`CacheHolds`), therefore stays. `Reached` is what k steps of
a definition have brought about: all that the class declares up to there unless it
has failed, and a settled rowid field if a key was gone over, or if nothing that
decides about it was given. `InitialisedReached` is the induction over k, which
needs no induction theorem: the least step that fails to keep `Reached` would
follow one that does (`UpTo`). `UndefAssumption` says that the value for "not given" is none of
the values it stands in for.

### Pointers

`LibraryProofs`, for any segments of the characters that `Chars` may have, any values,
pointers of any length and documents of any size:

- `DocumentIsTree` (`[]IsTree(doc)`): what pointers build is made of objects, of arrays
  whose elements are below their length, and of the values that are set
  (`FragmentAssumption`: these are such values themselves). The other three
  theorems hold in every such document.
- `FailedSetKeepsAlways` (`[]FailedSetKeeps`). `set` throws only at a node that was
  there before: a new ancestor is an object, or an array for a "-", and both take
  what comes next. Above that node every assignment puts back what was there
  (`SettingKeeps`).
- `AppendKeepsAlways` (`[]AppendKeeps`). `SettingIs` says what each node of the way is
  after a set that did not throw; for the last one this is the array with one
  more element.
- `SetThenGetAlways` (`[]SetThenGet`), in two halves. The text: whatever the
  characters are, printing and parsing gives the segments back (`CompiledString`,
  `CompiledURI`), as reading a text in which some characters stand for codes takes
  exactly one code per character (`DecodedReplaced`), for encodings in which no code
  is the beginning of another or starts with a plain character; and splitting at "/"
  undoes joining, since no encoded segment has one (`SplitJoin`). A segment on one line
is written as a literal that stands for it (`LiteralIs`); with a line break there is
no compiled get, and the property says nothing of it (`OneLine`). The document: the
  way that `get` goes after `set` is the way `set` went, with the values it left there
  (`WalkBack`, `WalkWay`), and a pointer that is not a part of the other one leaves
  that way at some node through another member. That two segments which differ are
  two elements of an array is where it matters that an index can be written in only
  one way (`OneText`); without `CanonicalPaths` "1" and "01" would be one element.

Induction over positions is that over the least position that fails (`UpTo`), as
in `MetaRegistryProofs`.

### Only model-checked

- Liveness (`NeverForgotten`, `OpensSettle`, `Served`, `Converges`, `RunSettles`):
  fairness is out of the prover's reach.

## Findings

These are statements of the documentation, a comment or a test that the code does
not keep. Each is a definition of a module and can be checked; what is in brackets
differs from the run of that module.

- `SqlConnectionPool!MaxRespected` (in `pool_steady`): `get` compares `inUse.size`
  with max before it awaits the open of a new connection, so gets that run together
  exceed max.
- `SqlConnectionPool!ClosedPoolIsEmpty` (in `pool_lifecycle`): a connection that is
  recycled, or opened by `get`, while the pool is closed ends up in the closed pool
  and is handed out later.
- `ConnectionManager!SameConnection` (`Ops <- TwoOps`): parallel operations of a
  request get different connections.
- `ConnectionManager!NoContextNoConnection` (`EarlyOps = TRUE`): outside of a
  context there is the default dictionary, which never ends, instead of an error.
- `SchemaUpgrade!ResolvedIsActual` (`Order <- ChildFirst`, `Options <- PlainOnly`,
  one upgrader, no faults): `recreateTable` renames the old parent before it creates the
  new one, SQLite follows with the child's foreign key, and the child keeps a
  reference to `<parent>_autoupgrade`, which is dropped. In `upgrade` the parent
  comes first, and the child is then recreated.
- `MetaRegistry!SharedFormat`: "you can map the same table to different model
  classes" (`sqlite3orm/README.md:70`), but a property chooses its conversion when
  its class is defined (`MetaProperty.ts:101-149`). A class defined later that says a date
  is text, or in milliseconds, changes the column of both and the conversion of one.
- `MetaRegistry!CacheIsComplete`: the foreign keys of a query model are looked up once
  (`QueryModelBase.ts:17`); one that another class adds to the table later, over columns this
  class maps too, is not found by its relations. `CacheIsCurrent` is about the keys
  that are in the cache.
- `RowAccess!ReplaceKeepsOthers`: the comment before `replacePartial` (`BaseDAO.ts`)
  says of an update that columns mapped to excluded properties are not affected; the
  statement is INSERT OR REPLACE, which gives them their defaults.
- `Processes!OutputComplete`: `run` of a command with `setStdOut` resolves on `exit`
  (`spawn.ts:93`) and not on `close`, so output may still be missing
  (`node-sys/README.md:18`, `pipe.integration.spec.ts:42`).
- `Processes!RunWaits`: "spawn a child process and wait until it has exited"
  (`exec.ts:59`, `pipe.ts:29`), but `run` reads `options.context` again after it has awaited the
  start (`exec.ts:63`). Of two runs of one `Exec` in one tick both wait for the second
  child, and the first resolves while its own child runs; if the second child
  cannot be started, the first run never settles. Two runs of one pipe may connect
  a command to the output of the other run (`pipe.ts:79`). `RunResolves`, `RunSettles` and
  `Connected` except such calls (`Alone`).
- `ContextTree!OwnContext` (`Nested = TRUE`): `after` goes back to the root
  (`ContinuationLocalStorage.ts:114-118`), so code that goes on after a nested callback
  has lost its context (`asyncctx/README.md:48-51`).
- `JsonPointer!InvalidIndexThrows`: "throws on invalid array index references", but
  `parseInt` (`jsonpointerx.ts:92`) takes "01" and "1x" for 1.

What else the models show, as the proviso of a property:

- A waiting `get` polls only for idle connections. When the lent one is dirty or
  stolen it is closed on release, the pool shrinks below max, and the waiter
  starves although it could open one. `WaiterHasReason` is checked without these.
- When one open of `Promise.all` fails, the pool is closed while the others are
  under way: their handles are never closed. The same holds for a handle whose
  settings could not be applied. `NoOrphan` is checked without such failures.
- Of three `open` calls on one pool two wait for the first; woken by it they run
  side by side, and with different files the pool may serve a connection to the
  file of the other. `pool_opens` shows that all three settle; that only "the
  last one wins" is not claimed.
- A connection closed twice at once moves one handle into the queue twice, with
  settings, or makes `close` reject with a TypeError, without.
- A failed ROLLBACK is ignored by `recycleByPool`; the next user inherits the
  transaction.
- Two calls of `transactionalize` on one connection: the second is refused, and
  its ROLLBACK ends the transaction of the first, whose other statements are
  durable one by one. `AllOrNothing` excludes `shared` calls for that reason.
- Refused COMMITs are ignored by `closeConnectionContext`, after the response has
  been sent: `OutcomeHonest` states exactly that much.
- `pool.get` has no timeout there: requests that take two scarce pools in
  opposite order wait for each other for ever. `Served` is checked where at most
  one pool is scarce.
- A process that has read the catalog before another one adds a column, and then
  recreates the table, copies the old columns only: values written into the new
  column meanwhile are lost. `RowsKept` is about the columns that were there.
- When the PRAGMA that switches foreign keys on again is refused, the connection
  stays without them, and the next upgrade takes that for the original setting.
  `Faults` has "pragma" for it; `ForeignKeysRestored` is checked without.
- A `getConnection` still pending when its context is closed loses its
  connection. `NoLeak` is checked for handlers that await their operations.
- Without AUTOINCREMENT the id of a deleted row comes back, and an object read from
  it updates, replaces or deletes the new row. `NeverAnotherRow` is about tables
  with AUTOINCREMENT whose ids are left to SQLite.
- A where-object with a condition on a property named like a member of `Filter`
  (`where`, `order`, `limit`, ...) is taken for a filter without conditions:
  `deleteAll` and `updatePartialAll` then reach every row. `OnlyMatching` excepts it.
- `updatePartialAll` with the key among its values, and `selectAllOf` with a
  where-object (`BaseDAO.ts:385`), are always refused by SQLite;
  `selectPartialAll` binds the text of the statement (`QueryModel.ts:111`).
- A `wait` for a child that has already exited never settles; `RunSettles` is about
  `run`. A command that fails to start leaves the earlier ones of its pipe running.
  `Promise.all` rejects a `run` with the first failure while other children go on,
  although `pipe.ts:29` and `:44` say that it waits for all; `RunResolves` is about
  runs that resolve.
- A command with `setIgnoreExitCode` that is started again answers, for its
  earlier child, with the exit code of the later one.
- A table whose options are given by a class that does not map the key keeps the
  rowid field it had (`blind` in `MetaRegistry`), and a definition that throws leaves
  the table it has created (`debris`).
- A segment with a line break makes the generated function a SyntaxError
  (`jsonpointerx.ts:183`), and the constructor throws: `OneLine` in `SetThenGet`.
- `set` of undefined below a missing ancestor creates the ancestors; `compile` decodes `~` before `%` (`:214`), which is right for what the
  library prints.

Seen while reading and not modelled: the name of a pool stays taken when its open
fails (`connection-manager.ts:39`); a handler whose observable completes without a
value never closes its context (`sqlite3-interceptor.ts:16`); `LruCache` with
`maxEntries` 0 never returns from `set`; two lookups of one session that miss the
cache at once make two objects; a limit of 0 is no limit, and an offset without a
limit is a statement that SQLite refuses (`QueryModel.ts:290-300`).

## Plan

The order follows what depends on what, and what can go wrong.

1. Done: `SessionLease`, `SqlConnectionPool`, `SqlTransaction`,
   `ConnectionManager`, with their proofs.
2. Done, with proofs: `SchemaUpgrade`.
3. Done, with proofs: `ContextTree`, `MetaRegistry`, `QueryFilter`, `RowAccess`,
   `Processes`, `JsonPointer`.
4. Done: `LeaseContract` as a theorem, with that of `ConnectionManager` beside it.
5. Perhaps: several objects in `RowAccess` over the lease of a connection;
   the other event orders of a pipeline (stream errors).

## Not modelled

Prepared statements, online backup and file system helpers forward to native code
and keep no state. The session service reads and writes single rows through an
`LruCache`, a bounded map; a session never changes once it is made, so that no
entry can be stale. Configuration is typed getters over a tree that another
package merges. Logging, gateway, command line and build scripts carry no state a
property is about. The native module `@homeofthings/sqlite3` and SQLite are
external and modelled only as far as the code relies on them: `open`, `close`,
BEGIN, COMMIT, ROLLBACK and their refusals, the schema statements of an upgrade,
the id of a new row and the truth of a clause. The same holds for async_hooks, child
processes, `encodeURIComponent` and `parseInt`. Changes of
uniqueness, sort order and AUTOINCREMENT, WITHOUT ROWID tables and tables of
attached databases are left out of `SchemaUpgrade`, as are two upgrades on one
connection. Sorting, limits, selected columns and the text of statements are left
out of `QueryFilter`. Dependency injection and the rxjs stream of a
handler are the framework's.
