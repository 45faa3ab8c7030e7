--------------------------- MODULE SchemaUpgrade ---------------------------
(* AutoUpgrader.upgradeTables of sqlite3orm: every registered table of a    *)
(* database file is created, altered or recreated until it is as the models *)
(* define it.  Each statement is handed to the native module and answered   *)
(* later; only the statements that recreate a table are one transaction.    *)
(* Several processes may upgrade one file, others write rows, any statement *)
(* may be refused and any process may die.                                  *)
EXTENDS Integers, Sequences, FiniteSets, Functions

CONSTANTS
    Upgraders,   \* processes that upgrade, each on a connection of its own
    Tables, Cols, Indexes, Rows,
    None,
    Model,       \* the registered definitions, without content
    Starts,      \* databases to begin with
    Order,       \* the argument of upgradeTables
    Options,     \* UpgradeOptions: keepOldColumns and forceRecreate
    Enforcing,   \* processes whose connection enforces foreign keys
    Faults,      \* what may go wrong: "statement", "pragma", "crash"
    MaxFaults    \* bound on how often

\* Tables by name, and the name a table has while it is recreated
Names == Tables \X {"live", "tmp"}
Live(t) == <<t, "live">>
Tmp(t) == <<t, "tmp">>

\* strict stands for all that is compared of a column (NOT NULL, type, default),
\* an index has one column, and refs are the tables of the foreign keys
TableState == [cols : SUBSET Cols, strict : SUBSET Cols, key : SUBSET Cols,
               refs : SUBSET Names, idx : SUBSET (Indexes \X Cols),
               cells : SUBSET (Rows \X Cols)]

\* a table without columns does not exist: that is how readTableInfo tells
NoTable == [cols |-> {}, strict |-> {}, key |-> {}, refs |-> {}, idx |-> {},
            cells |-> {}]

ASSUME UpgradeAssumption ==
    /\ Model \in [Tables -> TableState]
    /\ \A t \in Tables : Model[t].cols # {} /\ Model[t].cells = {}
    /\ Starts \subseteq [Names -> TableState]
    /\ \A d \in Starts, t \in Tables : d[Tmp(t)] = NoTable
    /\ \A d \in Starts, n \in Names : d[n].cols = {} => d[n] = NoTable
    /\ Order \in Seq(Tables) /\ Order # <<>>
    /\ Options \subseteq [keep : BOOLEAN, force : BOOLEAN]
    /\ Faults \subseteq {"statement", "pragma", "crash"} /\ MaxFaults \in Nat
    /\ None \notin Upgraders

VARIABLES
    db,       \* the tables as the connection in a transaction sees them
    saved,    \* the tables as everybody else sees them
    txn,      \* the upgrader whose transaction is open
    fk,       \* are foreign keys enforced on the connection of an upgrader
    up,       \* the progress of every upgrader
    opts,     \* the options all use
    faults,   \* what has gone wrong so far
    kept,     \* history: the columns of a table whose content has to survive
    due       \* history: that content

fileVars == <<db, saved, txn>>
history == <<kept, due>>
vars == <<fileVars, fk, up, opts, faults, history>>

\* pc: the statement under way; queue: tables left; seen: the table as read from
\* the catalog; cols, drops, makes: columns to add, indexes to drop and to
\* create; was: were foreign keys enforced; err: has a statement failed
Progress == [pc : {"idle", "fkOff", "columns", "rest", "begin", "rename", "create",
                   "copy", "drop", "work", "commit", "rollback", "fkOn",
                   "resolved", "rejected"},
             queue : Seq(Tables), seen : TableState, cols : SUBSET Cols,
             drops : SUBSET Indexes, makes : SUBSET Indexes,
             was : BOOLEAN, err : BOOLEAN]

Idle == [pc |-> "idle", queue |-> <<>>, seen |-> NoTable, cols |-> {}, drops |-> {},
         makes |-> {}, was |-> FALSE, err |-> FALSE]

TypeOK ==
    /\ db \in [Names -> TableState] /\ saved \in [Names -> TableState]
    /\ txn \in Upgraders \cup {None}
    /\ fk \in [Upgraders -> BOOLEAN]
    /\ up \in [Upgraders -> Progress]
    /\ opts \in Options
    /\ faults \in 0..MaxFaults
    /\ kept \in [Tables -> SUBSET Cols] /\ due \subseteq Tables \X Rows \X Cols

Exists(d, n) == d[n].cols # {}

Init ==
    /\ db \in Starts /\ saved = db /\ txn = None
    /\ fk = [u \in Upgraders |-> u \in Enforcing]
    /\ up = [u \in Upgraders |-> Idle]
    /\ opts \in Options /\ faults = 0
    /\ kept = [t \in Tables |->
          IF ~Exists(db, Live(t)) THEN Model[t].cols
          ELSE IF opts.keep THEN db[Live(t)].cols
          ELSE db[Live(t)].cols \cap Model[t].cols]
    /\ due = {x \in Tables \X Rows \X Cols :
                 x[3] \in kept[x[1]] /\ <<x[2], x[3]>> \in db[Live(x[1])].cells}

-----------------------------------------------------------------------------
\* What an upgrade has to do

IndexNames(idx) == {i \in Indexes : \E c \in Cols : <<i, c>> \in idx}

\* getUpgradeInfo for the table t, found as s
UpgradeMode(t, s, o) ==
    LET m == Model[t] IN
    IF s = NoTable THEN "create"
    ELSE IF \/ o.force
            \/ s.refs # {Live(p[1]) : p \in m.refs}
            \/ \E c \in s.cols \ m.cols : ~o.keep \/ c \in s.strict
            \/ \E c \in s.cols \cap m.cols : (c \in s.strict) # (c \in m.strict)
            \/ s.key # m.key
         THEN "recreate"
    ELSE IF m.cols \ s.cols # {} \/ s.idx # m.idx THEN "alter"
    ELSE "actual"

\* indexes alterTable drops: those not defined any more, or otherwise
Outdated(t, s) == {i \in IndexNames(s.idx) :
                      \E c \in Cols : <<i, c>> \in s.idx \ Model[t].idx}

\* columns recreateTable adds to the definition, always nullable, and copies
Extra(t, s) == IF opts.keep THEN s.cols \ Model[t].cols ELSE {}
Copied(t, s) == IF opts.keep THEN s.cols ELSE s.cols \cap Model[t].cols

\* the table being upgraded
Table(u) == Head(up[u].queue)

-----------------------------------------------------------------------------
\* Control

Goto(u, s) == up' = [up EXCEPT ![u] = s]

Finished(s) == [s EXCEPT !.pc = IF s.err THEN "rejected" ELSE "resolved"]

\* the table is done: the next one, or the end of upgradeTables
NextTable(s) ==
    LET q == Tail(s.queue)  n == [Idle EXCEPT !.queue = q, !.was = s.was] IN
    IF q # <<>> THEN [n EXCEPT !.pc = "columns"]
    ELSE IF s.was THEN [n EXCEPT !.pc = "fkOn"] ELSE Finished(n)

\* mutant: an error is returned at once
FailedAtOnce(s) == Finished([Idle EXCEPT !.err = TRUE])

\* a statement has failed: the other tables are not upgraded
Failed(s) ==
    LET n == [Idle EXCEPT !.was = s.was, !.err = TRUE] IN
    IF s.was THEN [n EXCEPT !.pc = "fkOn"] ELSE Finished(n)

\* columns and indexes left to do, or the end of the table
Working(u, s) ==
    IF s.cols # {} \/ s.drops # {} \/ s.makes # {} THEN [s EXCEPT !.pc = "work"]
    ELSE IF txn = u THEN [s EXCEPT !.pc = "commit"] ELSE NextTable(s)

\* a statement that is answered leaves the tables d
Write(u, d) ==
    /\ txn \in {u, None}
    /\ db' = d /\ saved' = IF txn = u THEN saved ELSE d
    /\ UNCHANGED <<txn, fk, opts, faults, history>>

-----------------------------------------------------------------------------
\* upgradeTables: read the enforcement of foreign keys, then switch it off
UpgradeTables(u) ==
    /\ up[u].pc \in {"idle", "rejected"}
    /\ Goto(u, [Idle EXCEPT !.queue = Order, !.was = fk[u],
                            !.pc = IF fk[u] THEN "fkOff" ELSE "columns"])
    /\ UNCHANGED <<fileVars, fk, opts, faults, history>>

\* mutant: foreign keys stay enforced
ForeignKeysStayOn(u) ==
    /\ up[u].pc = "fkOff"
    /\ Goto(u, [up[u] EXCEPT !.pc = "columns"])
    /\ UNCHANGED <<fileVars, fk, opts, faults, history>>

ForeignKeysOff(u) ==
    /\ up[u].pc = "fkOff"
    /\ fk' = [fk EXCEPT ![u] = FALSE]
    /\ Goto(u, [up[u] EXCEPT !.pc = "columns"])
    /\ UNCHANGED <<fileVars, opts, faults, history>>

\* _upgradeTable, of the table found as s: its first statement, or the next table
UpgradeTable(u, s) ==
    LET t == Table(u)
        mode == UpgradeMode(t, s, opts)
        names == IndexNames(Model[t].idx)
        old == Outdated(t, s)
    IN
    \/ mode = "actual" /\ Goto(u, NextTable(up[u]))
    \/ mode = "create"
       /\ Goto(u, [up[u] EXCEPT !.pc = "create", !.seen = s, !.makes = names])
    \/ mode = "alter"
       /\ Goto(u, Working(u, [up[u] EXCEPT
             !.cols = Model[t].cols \ s.cols, !.drops = old,
             !.makes = names \ (IndexNames(s.idx) \ old)]))
    \/ mode = "recreate"
       /\ Goto(u, [up[u] EXCEPT !.pc = "begin", !.seen = s, !.makes = names])

\* readTableInfo, first part: the columns
ReadColumns(u) ==
    LET s == saved[Live(Table(u))] IN
    /\ up[u].pc = "columns"
    /\ IF s = NoTable THEN UpgradeTable(u, NoTable)
       ELSE Goto(u, [up[u] EXCEPT !.pc = "rest", !.seen = [s EXCEPT !.cells = {}]])
    /\ UNCHANGED <<fileVars, fk, opts, faults, history>>

\* readTableInfo, second part: indexes and foreign keys, whose four statements
\* are taken as one
ReadRest(u) ==
    LET now == saved[Live(Table(u))] IN
    /\ up[u].pc = "rest"
    /\ UpgradeTable(u, [up[u].seen EXCEPT !.refs = now.refs, !.idx = now.idx])
    /\ UNCHANGED <<fileVars, fk, opts, faults, history>>

-----------------------------------------------------------------------------
\* The statements.  Can... : SQLite can execute it.

\* mutant: the table is recreated without a transaction
BeginNothing(u) ==
    /\ up[u].pc = "begin" /\ txn = None
    /\ Goto(u, [up[u] EXCEPT !.pc = "rename"])
    /\ UNCHANGED <<fileVars, fk, opts, faults, history>>

\* transactionalize: BEGIN IMMEDIATE
Begin(u) ==
    /\ up[u].pc = "begin" /\ txn = None
    /\ txn' = u
    /\ Goto(u, [up[u] EXCEPT !.pc = "rename"])
    /\ UNCHANGED <<db, saved, fk, opts, faults, history>>

CanRename(u) == Exists(db, Live(Table(u))) /\ ~Exists(db, Tmp(Table(u)))

\* the old table gets another name; SQLite rewrites all foreign keys to it
Rename(u) ==
    LET n == Live(Table(u))  o == Tmp(Table(u))
        follow(s) == [s EXCEPT !.refs = {IF r = n THEN o ELSE r : r \in @}]
    IN
    /\ up[u].pc = "rename" /\ CanRename(u)
    /\ Write(u, [x \in Names |-> IF x = n THEN NoTable
                                 ELSE IF x = o THEN follow(db[n]) ELSE follow(db[x])])
    /\ Goto(u, [up[u] EXCEPT !.pc = "create"])

CanCreate(u) == ~Exists(db, Live(Table(u)))

Create(u) ==
    LET t == Table(u)  m == Model[t]
        new == [m EXCEPT !.cols = @ \cup Extra(t, up[u].seen), !.idx = {}]
    IN
    /\ up[u].pc = "create" /\ CanCreate(u)
    /\ Write(u, [db EXCEPT ![Live(t)] = new])
    /\ Goto(u, IF up[u].seen = NoTable THEN Working(u, up[u])
               ELSE [up[u] EXCEPT !.pc = "copy"])

\* the columns exist on both sides, and no value of a NOT NULL column is missing
CanCopy(u) ==
    LET t == Table(u)  old == db[Tmp(t)]  new == db[Live(t)] IN
    /\ Copied(t, up[u].seen) \subseteq old.cols \cap new.cols
    /\ \A r \in Rows, c \in new.strict :
          (\E k \in Cols : <<r, k>> \in old.cells) =>
              <<r, c>> \in old.cells /\ c \in Copied(t, up[u].seen)

Copy(u) ==
    LET t == Table(u) IN
    /\ up[u].pc = "copy" /\ CanCopy(u)
    /\ Write(u, [db EXCEPT ![Live(t)].cells =
                    @ \cup {x \in db[Tmp(t)].cells : x[2] \in Copied(t, up[u].seen)}])
    /\ Goto(u, [up[u] EXCEPT !.pc = "drop"])

\* mutant: the indexes of a recreated table are forgotten
DropOldOnly(u) ==
    LET o == Tmp(Table(u)) IN
    /\ up[u].pc = "drop"
    /\ Write(u, [db EXCEPT ![o] = NoTable])
    /\ Goto(u, Working(u, [up[u] EXCEPT !.makes = {}]))

\* DROP TABLE deletes the rows first: where foreign keys are enforced, which are
\* all ON DELETE CASCADE, the rows that refer to them go as well
DropOld(u) ==
    LET o == Tmp(Table(u)) IN
    /\ up[u].pc = "drop"
    /\ Write(u, [x \in Names |->
          IF x = o THEN NoTable
          ELSE IF fk[u] /\ o \in db[x].refs THEN [db[x] EXCEPT !.cells = {}]
          ELSE db[x]])
    /\ Goto(u, Working(u, up[u]))

CanAdd(u, c) ==
    LET s == db[Live(Table(u))] IN
    /\ s # NoTable /\ c \notin s.cols
    /\ c \in Model[Table(u)].strict => s.cells = {}

AddColumn(u, c) ==
    LET n == Live(Table(u)) IN
    /\ up[u].pc = "work" /\ c \in up[u].cols /\ CanAdd(u, c)
    /\ Write(u, [db EXCEPT
          ![n].cols = @ \cup {c},
          ![n].strict = IF c \in Model[Table(u)].strict THEN @ \cup {c} ELSE @])
    /\ Goto(u, Working(u, [up[u] EXCEPT !.cols = @ \ {c}]))

\* IF EXISTS: not finding it is no error
DropIndex(u, i) ==
    /\ up[u].pc = "work" /\ up[u].cols = {} /\ i \in up[u].drops
    /\ Write(u, [x \in Names |->
                    [db[x] EXCEPT !.idx = {e \in @ : e[1] # i}]])
    /\ Goto(u, Working(u, [up[u] EXCEPT !.drops = @ \ {i}]))

CanIndex(u, i) ==
    \A c \in Cols : <<i, c>> \in Model[Table(u)].idx => c \in db[Live(Table(u))].cols

\* IF NOT EXISTS: an index of that name, on whatever table, is left alone
CreateIndex(u, i) ==
    LET n == Live(Table(u)) IN
    /\ up[u].pc = "work" /\ up[u].cols = {} /\ up[u].drops = {}
    /\ i \in up[u].makes /\ CanIndex(u, i)
    /\ Write(u, IF \E x \in Names : i \in IndexNames(db[x].idx) THEN db
                ELSE [db EXCEPT ![n].idx =
                         @ \cup {e \in Model[Table(u)].idx : e[1] = i}])
    /\ Goto(u, Working(u, [up[u] EXCEPT !.makes = @ \ {i}]))

Commit(u) ==
    /\ up[u].pc = "commit" /\ txn = u
    /\ txn' = None /\ saved' = db
    /\ Goto(u, NextTable(up[u]))
    /\ UNCHANGED <<db, fk, opts, faults, history>>

\* mutant: the catch of transactionalize only passes the error on
ErrorPassedOn(u) ==
    /\ up[u].pc = "rollback"
    /\ Goto(u, Failed(up[u]))
    /\ UNCHANGED <<fileVars, fk, opts, faults, history>>

\* the catch of transactionalize
RolledBack(u) ==
    /\ up[u].pc = "rollback"
    /\ IF txn = u THEN db' = saved /\ txn' = None ELSE UNCHANGED <<db, txn>>
    /\ Goto(u, Failed(up[u]))
    /\ UNCHANGED <<saved, fk, opts, faults, history>>

ForeignKeysOn(u) ==
    /\ up[u].pc = "fkOn"
    /\ fk' = [fk EXCEPT ![u] = TRUE]
    /\ Goto(u, Finished(up[u]))
    /\ UNCHANGED <<fileVars, opts, faults, history>>

-----------------------------------------------------------------------------
\* Failures

\* the statement under way is answered with an error
Refuse(u) ==
    LET s == up[u] IN
    /\ \/ /\ s.pc \in {"rename", "copy", "drop", "commit", "begin"} \/ txn = u
          /\ Goto(u, [s EXCEPT !.pc = "rollback"])
       \/ /\ s.pc \in {"columns", "rest", "create", "work"} /\ txn # u
          /\ Goto(u, Failed(s))
       \/ s.pc = "fkOff" /\ Goto(u, Finished([Idle EXCEPT !.err = TRUE]))
       \/ s.pc = "fkOn" /\ Goto(u, Finished([s EXCEPT !.err = TRUE]))
    /\ UNCHANGED <<fileVars, fk, opts, history>>

\* SQLite cannot execute it: the tables are not as expected
Impossible(u) ==
    LET s == up[u] IN
    /\ txn \in {u, None}
    /\ \/ s.pc = "rename" /\ ~CanRename(u)
       \/ s.pc = "create" /\ ~CanCreate(u)
       \/ s.pc = "copy" /\ ~CanCopy(u)
       \/ s.pc = "work" /\ \E c \in s.cols : ~CanAdd(u, c)
       \/ s.pc = "work" /\ s.cols = {} /\ s.drops = {}
          /\ \E i \in s.makes : ~CanIndex(u, i)
    /\ Refuse(u) /\ UNCHANGED faults

\* it is refused for another reason: busy, disk full, a violated constraint
Fault(u) ==
    /\ faults < MaxFaults /\ faults' = faults + 1
    /\ IF up[u].pc \in {"fkOff", "fkOn"} THEN "pragma" \in Faults
       ELSE "statement" \in Faults
    /\ up[u].pc \notin {"idle", "rollback", "resolved", "rejected"}
    /\ Refuse(u)

\* the process dies, its transaction is undone, and it will have a new connection
Crash(u) ==
    /\ "crash" \in Faults /\ faults < MaxFaults /\ faults' = faults + 1
    /\ up[u].pc \notin {"idle", "resolved", "rejected"}
    /\ Goto(u, Idle)
    /\ fk' = [fk EXCEPT ![u] = u \in Enforcing]
    /\ IF txn = u THEN db' = saved /\ txn' = None ELSE UNCHANGED <<db, txn>>
    /\ UNCHANGED <<saved, opts, history>>

\* another connection writes the row r, in all columns there are
Insert(t, r) ==
    LET s == db[Live(t)] IN
    /\ txn = None /\ s # NoTable /\ \A c \in Cols : <<r, c>> \notin s.cells
    /\ db' = [db EXCEPT ![Live(t)].cells = @ \cup ({r} \X s.cols)]
    /\ saved' = db'
    /\ due' = due \cup ({t} \X {r} \X (s.cols \cap kept[t]))
    /\ UNCHANGED <<txn, fk, up, opts, faults, kept>>

-----------------------------------------------------------------------------
Statement(u) ==
    \/ ForeignKeysOff(u) \/ ReadColumns(u) \/ ReadRest(u) \/ Begin(u) \/ Rename(u)
    \/ Create(u) \/ Copy(u) \/ DropOld(u) \/ Commit(u) \/ RolledBack(u)
    \/ ForeignKeysOn(u) \/ Impossible(u)
    \/ \E c \in Cols : AddColumn(u, c)
    \/ \E i \in Indexes : DropIndex(u, i) \/ CreateIndex(u, i)

Next ==
    \/ \E u \in Upgraders : UpgradeTables(u) \/ Statement(u) \/ Fault(u) \/ Crash(u)
    \/ \E t \in Tables, r \in Rows : Insert(t, r)

Spec == Init /\ [][Next]_vars

\* SQLite answers every statement, and every process upgrades until it succeeds
FairSpec ==
    Spec /\ \A u \in Upgraders : WF_vars(UpgradeTables(u) \/ Statement(u))

-----------------------------------------------------------------------------
\* Properties

\* No content of a column that stays is ever lost to others: neither in the
\* middle of an upgrade, nor by a refused statement, a crash, a cascade of
\* foreign keys or another process that upgrades from an outdated catalog.
RowsKept == \A x \in due : <<x[2], x[3]>> \in saved[Live(x[1])].cells

\* No half-done recreation can be seen: the table with the temporary name, which
\* would make every later upgrade fail, is gone with the transaction.
NoDebris == \A t \in Tables : ~Exists(saved, Tmp(t))

Actual(t) ==
    UpgradeMode(t, [saved[Live(t)] EXCEPT !.cells = {}],
                [opts EXCEPT !.force = FALSE]) = "actual"

\* The tables after one in the order refer to it, where others do.
ReferringLater(q) ==
    \A k \in DOMAIN q, c \in Tables :
        c # q[k] /\ Live(q[k]) \in Model[c].refs =>
            \E j \in DOMAIN q : j > k /\ q[j] = c

\* What one upgrade can settle: it is given all tables, those that refer to a
\* table after it (recreating a table breaks the foreign keys to it), and no
\* index has moved from one table to another (it is not created while the other
\* table has it).
Upgradable ==
    /\ Upgraders # {}
    /\ Range(Order) = Tables /\ ReferringLater(Order)
    /\ \A t \in Tables : /\ Model[t].refs \subseteq {Live(p) : p \in Tables}
                        /\ Model[t].strict \subseteq Model[t].cols
                        /\ \A e, f \in Model[t].idx : e[1] = f[1] => e = f
    /\ \A s, t \in Tables :
          /\ s # t => IndexNames(Model[s].idx) \cap IndexNames(Model[t].idx) = {}
          /\ \A d \in Starts :
                /\ d[Live(t)].strict \subseteq d[Live(t)].cols
                /\ s # t => IndexNames(d[Live(s)].idx) \cap IndexNames(Model[t].idx) = {}

\* When all upgrades have succeeded, a further one would find nothing to do, if
\* one can settle it at all (Upgradable).
ResolvedIsActual ==
    (\A u \in Upgraders : up[u].pc = "resolved") => \A t \in Tables : Actual(t)

\* However an upgrade ends, foreign keys are enforced as before (unless the
\* PRAGMA itself is refused).
ForeignKeysRestored ==
    \A u \in Upgraders : up[u].pc \in {"idle", "resolved", "rejected"} =>
        fk[u] = (u \in Enforcing)

\* After crashes and refused statements at any point, repeated upgrades lead to
\* the defined tables, and stay there.
Converges == <>[](\A t \in Tables : Actual(t))
=============================================================================
