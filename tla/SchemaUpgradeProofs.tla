------------------------- MODULE SchemaUpgradeProofs -------------------------
(* Proofs about SchemaUpgrade, for any tables, definitions and databases to  *)
(* begin with, and any number of processes that upgrade.                     *)
EXTENDS SchemaUpgrade, TLAPS, SequenceTheorems

-----------------------------------------------------------------------------
\* The inductive invariant

\* An upgrader with a table in hand, and those whose upgrade is over or not begun.
AtTable == {"columns", "rest", "begin", "rename", "create", "copy", "drop", "work",
            "commit"}
AtRest == {"idle", "resolved", "rejected"}

Typed ==
    /\ TypeOK
    /\ \A u \in Upgraders :
          up[u].pc \in AtTable \cup {"fkOff"} => up[u].queue # <<>>
    /\ \A n \in Names : /\ db[n].cols = {} => db[n] = NoTable
                        /\ saved[n].cols = {} => saved[n] = NoTable

Recreating(u) == \/ up[u].pc \in {"rename", "copy", "drop"}
                 \/ up[u].pc = "create" /\ up[u].seen # NoTable

\* Tables are recreated in transactions, and nothing else is done in one.
Transactions ==
    /\ txn = None => db = saved
    /\ \A u \in Upgraders :
          /\ Recreating(u) \/ up[u].pc = "commit" => txn = u
          /\ txn = u => \/ Recreating(u)
                        \/ up[u].pc \in {"work", "commit", "rollback"}

\* The columns whose content has to survive are columns of the table t in d, or
\* will be when it is created.
Stays(d, t) ==
    IF Exists(d, Live(t)) THEN kept[t] \subseteq d[Live(t)].cols
    ELSE kept[t] \subseteq Model[t].cols

HistoryFits ==
    /\ \A t \in Tables : opts.keep \/ kept[t] \subseteq Model[t].cols
    /\ \A x \in due : x[3] \in kept[x[1]]

\* They are in the catalog an upgrader has read, however long ago.
SeenFits ==
    \A u \in Upgraders :
        up[u].pc \in {"rest", "begin"} \/ Recreating(u) =>
            up[u].seen.cols # {} /\ kept[Table(u)] \subseteq up[u].seen.cols

\* Where the content of t is in the transaction of u.
Holding(u, t) ==
    IF up[u].pc \in {"create", "copy"} /\ t = Table(u) THEN Tmp(t) ELSE Live(t)

SavedFits == RowsKept /\ NoDebris /\ \A t \in Tables : Stays(saved, t)

\* A transaction has what it would commit in its tables, from the first
\* statement on.
OpenFits ==
    \A u \in Upgraders : txn = u /\ up[u].pc # "rollback" =>
        /\ \A x \in due : <<x[2], x[3]>> \in db[Holding(u, x[1])].cells
        /\ \A t \in Tables : Exists(db, Tmp(t)) =>
              t = Table(u) /\ up[u].pc \in {"create", "copy", "drop"}
        /\ \A t \in Tables :
              t # Table(u) \/ up[u].pc # "create" => Stays(db, t)

\* DROP TABLE would delete the rows that refer to the table otherwise.
ForeignKeysOffMeanwhile == \A u \in Upgraders : up[u].pc \in AtTable => ~fk[u]

IInv ==
    /\ Typed /\ Transactions /\ HistoryFits /\ SeenFits /\ SavedFits /\ OpenFits
    /\ ForeignKeysOffMeanwhile

-----------------------------------------------------------------------------
\* Names, tables and the progress of an upgrade

\* A table has two names, which nothing else has.
LEMMA NamesApart ==
    /\ \A t \in Tables : Live(t) \in Names /\ Tmp(t) \in Names
    /\ \A s, t \in Tables : /\ Live(s) # Tmp(t)
                            /\ Live(s) = Live(t) => s = t
                            /\ Tmp(s) = Tmp(t) => s = t
    /\ \A n \in Names : \E t \in Tables : n = Live(t) \/ n = Tmp(t)
BY DEF Names, Live, Tmp

\* No table is a table.
LEMMA NoTableIsTable == NoTable \in TableState /\ NoTable.cols = {}
BY DEF NoTable, TableState

\* The end of an upgrade leaves nothing to do.
LEMMA FinishedIs ==
    ASSUME NEW s \in Progress
    PROVE  /\ Finished(s) \in Progress /\ Finished(s).pc \in {"resolved", "rejected"}
BY DEF Finished, Progress

\* What an upgrader keeps from one state of its progress to the next.
LEMMA ProgressForms ==
    ASSUME NEW s \in Progress, NEW q \in Seq(Tables), NEW x \in TableState,
           NEW C \in SUBSET Cols, NEW D \in SUBSET Indexes, NEW M \in SUBSET Indexes,
           NEW was \in BOOLEAN,
           NEW p \in {"idle", "fkOff", "columns", "rest", "begin", "rename", "create",
                      "copy", "drop", "work", "commit", "rollback", "fkOn",
                      "resolved", "rejected"}
    PROVE  /\ Idle \in Progress
           /\ [s EXCEPT !.pc = p] \in Progress
           /\ [s EXCEPT !.pc = p, !.seen = x] \in Progress
           /\ [s EXCEPT !.pc = p, !.seen = x, !.makes = M] \in Progress
           /\ [s EXCEPT !.cols = C, !.drops = D, !.makes = M] \in Progress
           /\ [s EXCEPT !.cols = C] \in Progress
           /\ [s EXCEPT !.drops = D] \in Progress
           /\ [s EXCEPT !.makes = M] \in Progress
           /\ [s EXCEPT !.err = TRUE] \in Progress
           /\ [s EXCEPT !.queue = q, !.was = was] \in Progress
           /\ [s EXCEPT !.was = was, !.err = TRUE] \in Progress
           /\ [s EXCEPT !.queue = q, !.was = was, !.pc = p] \in Progress
<1>1. Idle \in Progress
  BY NoTableIsTable DEF Idle, Progress
<1>2. /\ [s EXCEPT !.pc = p] \in Progress
      /\ [s EXCEPT !.cols = C] \in Progress
      /\ [s EXCEPT !.drops = D] \in Progress
      /\ [s EXCEPT !.makes = M] \in Progress
      /\ [s EXCEPT !.err = TRUE] \in Progress
  BY DEF Progress
<1>3. [s EXCEPT !.pc = p, !.seen = x] \in Progress
  BY DEF Progress
<1>4. [s EXCEPT !.pc = p, !.seen = x, !.makes = M] \in Progress
  BY DEF Progress
<1>5. [s EXCEPT !.cols = C, !.drops = D, !.makes = M] \in Progress
  BY DEF Progress
<1>6. [s EXCEPT !.queue = q, !.was = was] \in Progress
  BY DEF Progress
<1>7. [s EXCEPT !.was = was, !.err = TRUE] \in Progress
  BY DEF Progress
<1>8. [s EXCEPT !.queue = q, !.was = was, !.pc = p] \in Progress
  BY DEF Progress
<1> QED
  BY <1>1, <1>2, <1>3, <1>4, <1>5, <1>6, <1>7, <1>8

\* After a table an upgrader goes on to one that is left, or to the end.
LEMMA NextTableIs ==
    ASSUME NEW s \in Progress, s.queue # <<>>
    PROVE  /\ NextTable(s) \in Progress
           /\ NextTable(s).pc \in {"columns", "fkOn", "resolved", "rejected"}
           /\ NextTable(s).pc = "columns" => NextTable(s).queue # <<>>
<1> DEFINE q == Tail(s.queue)
           n == [Idle EXCEPT !.queue = q, !.was = s.was]
<1>1. q \in Seq(Tables) /\ s.was \in BOOLEAN
  BY HeadTailProperties DEF Progress
<1>2. Idle \in Progress
  BY NoTableIsTable DEF Idle, Progress
<1>3. n \in Progress /\ n.queue = q /\ n.was = s.was
  BY <1>1, <1>2 DEF Progress
<1>4. NextTable(s) = IF q # <<>> THEN [n EXCEPT !.pc = "columns"]
                     ELSE IF s.was THEN [n EXCEPT !.pc = "fkOn"] ELSE Finished(n)
  BY DEF NextTable
<1> HIDE DEF q, n
<1>5. CASE q # <<>>
  <2>1. NextTable(s) = [n EXCEPT !.pc = "columns"]
    BY <1>4, <1>5
  <2> QED
    BY <1>3, <1>5, <2>1 DEF Progress
<1>6. CASE q = <<>> /\ s.was
  <2>1. NextTable(s) = [n EXCEPT !.pc = "fkOn"]
    BY <1>4, <1>6
  <2> QED
    BY <1>3, <2>1 DEF Progress
<1>7. CASE q = <<>> /\ ~s.was
  <2>1. NextTable(s) = Finished(n)
    BY <1>4, <1>7
  <2> QED
    BY <1>3, <2>1, FinishedIs
<1> QED
  BY <1>5, <1>6, <1>7

\* After an error an upgrader goes to the end.
LEMMA FailedIs ==
    ASSUME NEW s \in Progress
    PROVE  Failed(s) \in Progress /\ Failed(s).pc \in {"fkOn", "resolved", "rejected"}
<1> DEFINE n == [Idle EXCEPT !.was = s.was, !.err = TRUE]
<1>1. Idle \in Progress /\ s.was \in BOOLEAN
  BY NoTableIsTable DEF Idle, Progress
<1>2. n \in Progress
  BY <1>1 DEF Progress
<1>3. Failed(s) = IF s.was THEN [n EXCEPT !.pc = "fkOn"] ELSE Finished(n)
  BY DEF Failed
<1> HIDE DEF n
<1>4. CASE s.was
  BY <1>2, <1>3, <1>4 DEF Progress
<1>5. CASE ~s.was
  BY <1>2, <1>3, <1>5, FinishedIs
<1> QED
  BY <1>4, <1>5

\* While columns and indexes are left an upgrader stays at its table; then it
\* commits, if it is in a transaction.
LEMMA WorkingIs ==
    ASSUME NEW u \in Upgraders, NEW s \in Progress, s.queue # <<>>
    PROVE  /\ Working(u, s) \in Progress
           /\ Working(u, s).pc \in {"work", "commit"} => Working(u, s).queue = s.queue
           /\ Working(u, s).pc = "columns" => Working(u, s).queue # <<>>
           /\ Working(u, s).pc = "commit" => txn = u
           /\ \/ Working(u, s).pc \in {"work", "commit"}
              \/ txn # u /\ Working(u, s).pc \in {"columns", "fkOn", "resolved", "rejected"}
<1>1. CASE s.cols # {} \/ s.drops # {} \/ s.makes # {}
  <2>1. Working(u, s) = [s EXCEPT !.pc = "work"]
    BY <1>1 DEF Working
  <2> QED
    BY <2>1 DEF Progress
<1>2. CASE ~(s.cols # {} \/ s.drops # {} \/ s.makes # {}) /\ txn = u
  <2>1. Working(u, s) = [s EXCEPT !.pc = "commit"]
    BY <1>2 DEF Working
  <2> QED
    BY <1>2, <2>1 DEF Progress
<1>3. CASE ~(s.cols # {} \/ s.drops # {} \/ s.makes # {}) /\ txn # u
  <2>1. Working(u, s) = NextTable(s)
    BY <1>3 DEF Working
  <2> QED
    BY <1>3, <2>1, NextTableIs
<1> QED
  BY <1>1, <1>2, <1>3

-----------------------------------------------------------------------------
\* Steps that leave the tables alone

\* An upgrader that has a table in hand has one of the tables.
LEMMA TableIsTable ==
    ASSUME Typed, NEW u \in Upgraders, up[u].queue # <<>>
    PROVE  Table(u) \in Tables
BY HeadTailProperties DEF Typed, TypeOK, Progress, Table

\* A step of u that changes nothing but its progress and its foreign keys keeps
\* the invariant, if it does not enter a transaction and has a catalog that
\* shows the columns whose content stays.
LEMMA QuietStep ==
    ASSUME IInv, NEW u \in Upgraders, NEW s \in Progress, Goto(u, s),
           UNCHANGED <<fileVars, opts, history>>, faults' \in 0..MaxFaults,
           fk' \in [Upgraders -> BOOLEAN], \A v \in Upgraders \ {u} : fk'[v] = fk[v],
           s.pc \in AtTable \cup {"fkOff"} => s.queue # <<>>,
           s.pc \in AtTable => ~fk'[u],
           s.pc \notin {"rename", "copy", "drop", "commit"},
           s.pc = "create" => s.seen = NoTable,
           txn = u => s.pc = "rollback",
           s.pc \in {"rest", "begin"} =>
               s.seen.cols # {} /\ kept[Head(s.queue)] \subseteq s.seen.cols
    PROVE  IInv'
<1>1. /\ up' \in [Upgraders -> Progress] /\ up'[u] = s
      /\ \A v \in Upgraders \ {u} : up'[v] = up[v]
  BY DEF IInv, Typed, TypeOK, Goto
<1>2. db' = db /\ saved' = saved /\ txn' = txn /\ opts' = opts /\ kept' = kept /\ due' = due
  BY DEF fileVars, history
<1>3. \A v \in Upgraders \ {u} : /\ Recreating(v)' = Recreating(v) /\ Table(v)' = Table(v)
                                 /\ \A t \in Tables : Holding(v, t)' = Holding(v, t)
  BY <1>1 DEF Recreating, Table, Holding
<1>4. ~Recreating(u)' /\ Table(u)' = Head(s.queue)
  BY <1>1 DEF Recreating, Table
<1>5. \A t \in Tables : Stays(db, t)' = Stays(db, t) /\ Stays(saved, t)' = Stays(saved, t)
  BY <1>2 DEF Stays, Exists
<1>6. Typed'
  BY <1>1, <1>2 DEF IInv, Typed, TypeOK
<1>7. Transactions'
  BY <1>1, <1>2, <1>3, <1>4 DEF IInv, Transactions
<1>8. HistoryFits'
  BY <1>2 DEF IInv, HistoryFits
<1>9. SeenFits'
  BY <1>1, <1>2, <1>3, <1>4 DEF IInv, SeenFits
<1>10. SavedFits'
  BY <1>2, <1>5 DEF IInv, SavedFits, RowsKept, NoDebris, Exists
<1>11. OpenFits'
  <2> SUFFICES ASSUME NEW v \in Upgraders, txn' = v, up'[v].pc # "rollback"
               PROVE  /\ \A x \in due : <<x[2], x[3]>> \in db[Holding(v, x[1])'].cells
                      /\ \A t \in Tables : Exists(db, Tmp(t)) =>
                            t = Table(v)' /\ up'[v].pc \in {"create", "copy", "drop"}
                      /\ \A t \in Tables :
                            t # Table(v)' \/ up'[v].pc # "create" => Stays(db, t)
    BY <1>2, <1>5 DEF OpenFits, Exists
  <2>1. v # u
    BY <1>1, <1>2
  <2>2. \A x \in due : x[1] \in Tables
    BY DEF IInv, Typed, TypeOK
  <2> QED
    BY <1>1, <1>2, <1>3, <2>1, <2>2 DEF IInv, OpenFits
<1>12. ForeignKeysOffMeanwhile'
  BY <1>1 DEF IInv, ForeignKeysOffMeanwhile
<1> QED
  BY <1>6, <1>7, <1>8, <1>9, <1>10, <1>11, <1>12 DEF IInv

\* A table that does not exist is created, and no other.
LEMMA CreateMode ==
    ASSUME NEW t \in Tables, NEW s \in TableState, NEW o
    PROVE  /\ UpgradeMode(t, s, o) = "create" <=> s = NoTable
           /\ UpgradeMode(t, s, o) \in {"create", "recreate", "alter", "actual"}
BY DEF UpgradeMode

\* Choosing what to do with the table an upgrader has in hand keeps the
\* invariant, if the catalog shows the columns whose content stays.
LEMMA ChoosingStep ==
    ASSUME IInv, NEW u \in Upgraders, up[u].pc \in {"columns", "rest"},
           NEW s \in TableState, s.cols = {} => s = NoTable,
           s.cols # {} => kept[Table(u)] \subseteq s.cols,
           UpgradeTable(u, s), UNCHANGED <<fileVars, fk, opts, faults, history>>
    PROVE  IInv'
<1> DEFINE t == Table(u)
           names == IndexNames(Model[t].idx)
           old == Outdated(t, s)
<1>1. /\ up[u] \in Progress /\ up[u].queue # <<>> /\ txn # u /\ ~fk[u] /\ t \in Tables
      /\ fk \in [Upgraders -> BOOLEAN] /\ faults \in 0..MaxFaults
  <2>1. up[u].queue # <<>> /\ up[u] \in Progress
    BY DEF IInv, Typed, TypeOK, AtTable
  <2>2. txn # u
    BY DEF IInv, Transactions, Recreating
  <2> QED
    BY <2>1, <2>2, TableIsTable DEF IInv, Typed, TypeOK, ForeignKeysOffMeanwhile, AtTable
<1>2. /\ fk' = fk /\ faults' = faults /\ UNCHANGED <<fileVars, opts, history>>
      /\ t = Head(up[u].queue)
  BY DEF Table
<1>3. /\ names \in SUBSET Indexes /\ old \in SUBSET Indexes
      /\ names \ (IndexNames(s.idx) \ old) \in SUBSET Indexes
      /\ Model[t].cols \ s.cols \in SUBSET Cols
  BY <1>1, UpgradeAssumption DEF IndexNames, Outdated, UpgradeAssumption, TableState
<1> HIDE DEF names, old
<1>4. CASE Goto(u, NextTable(up[u]))
  <2>1. /\ NextTable(up[u]) \in Progress
        /\ NextTable(up[u]).pc \in {"columns", "fkOn", "resolved", "rejected"}
        /\ NextTable(up[u]).pc = "columns" => NextTable(up[u]).queue # <<>>
    BY <1>1, NextTableIs
  <2> QED
    BY <1>1, <1>2, <1>4, <2>1, QuietStep DEF AtTable
<1>5. CASE s = NoTable /\ Goto(u, [up[u] EXCEPT !.pc = "create", !.seen = s, !.makes = names])
  <2> DEFINE n == [up[u] EXCEPT !.pc = "create", !.seen = s, !.makes = names]
  <2>1. n \in Progress /\ n.pc = "create" /\ n.seen = s /\ n.queue = up[u].queue
    BY <1>1, <1>3 DEF Progress
  <2> HIDE DEF n
  <2> QED
    BY <1>1, <1>2, <1>5, <2>1, QuietStep DEF n
<1>6. CASE Goto(u, Working(u, [up[u] EXCEPT
             !.cols = Model[t].cols \ s.cols, !.drops = old,
             !.makes = names \ (IndexNames(s.idx) \ old)]))
  <2> DEFINE n == [up[u] EXCEPT !.cols = Model[t].cols \ s.cols, !.drops = old,
                                !.makes = names \ (IndexNames(s.idx) \ old)]
  <2>1. n \in Progress /\ n.queue = up[u].queue
    BY <1>1, <1>3 DEF Progress
  <2>2. Goto(u, Working(u, n))
    BY <1>6
  <2> HIDE DEF n
  <2>3. /\ Working(u, n) \in Progress
        /\ Working(u, n).pc \in {"work", "columns", "fkOn", "resolved", "rejected"}
        /\ Working(u, n).pc \in {"work", "columns"} => Working(u, n).queue # <<>>
    BY <1>1, <2>1, WorkingIs
  <2> QED
    BY <1>1, <1>2, <2>2, <2>3, QuietStep DEF AtTable
<1>7. CASE s # NoTable /\ Goto(u, [up[u] EXCEPT !.pc = "begin", !.seen = s, !.makes = names])
  <2> DEFINE n == [up[u] EXCEPT !.pc = "begin", !.seen = s, !.makes = names]
  <2>1. n \in Progress /\ n.pc = "begin" /\ n.seen = s /\ n.queue = up[u].queue
    BY <1>1, <1>3 DEF Progress
  <2> HIDE DEF n
  <2> QED
    BY <1>1, <1>2, <1>7, <2>1, QuietStep DEF n
<1> QED
  BY <1>1, <1>4, <1>5, <1>6, <1>7, CreateMode DEF UpgradeTable, names, old

\* The start of an upgrade keeps the invariant,
LEMMA UpgradeTablesStep ==
    ASSUME IInv, NEW u \in Upgraders, UpgradeTables(u)
    PROVE  IInv'
<1> DEFINE p == IF fk[u] THEN "fkOff" ELSE "columns"
           s == [Idle EXCEPT !.queue = Order, !.was = fk[u], !.pc = p]
<1>1. /\ fk \in [Upgraders -> BOOLEAN] /\ faults \in 0..MaxFaults /\ fk[u] \in BOOLEAN
      /\ Order \in Seq(Tables) /\ Order # <<>> /\ Idle \in Progress
  BY UpgradeAssumption, NoTableIsTable
     DEF IInv, Typed, TypeOK, UpgradeAssumption, Idle, Progress
<1>2. s \in Progress /\ s.pc = p /\ s.queue = Order
  BY <1>1 DEF Progress
<1>3. txn # u
  BY DEF IInv, Transactions, Recreating, UpgradeTables
<1>4. Goto(u, s) /\ fk' = fk /\ faults' = faults /\ UNCHANGED <<fileVars, opts, history>>
  BY DEF UpgradeTables
<1> HIDE DEF s
<1>5. p \in {"fkOff", "columns"} /\ (p = "columns" => ~fk[u])
  OBVIOUS
<1> HIDE DEF p
<1> QED
  BY <1>1, <1>2, <1>3, <1>4, <1>5, QuietStep DEF AtTable

\* as do switching foreign keys off,
LEMMA ForeignKeysOffStep ==
    ASSUME IInv, NEW u \in Upgraders, ForeignKeysOff(u)
    PROVE  IInv'
<1> DEFINE s == [up[u] EXCEPT !.pc = "columns"]
<1>1. /\ fk \in [Upgraders -> BOOLEAN] /\ faults \in 0..MaxFaults /\ up[u] \in Progress
      /\ up[u].queue # <<>>
  BY DEF IInv, Typed, TypeOK, ForeignKeysOff
<1>2. s \in Progress /\ s.pc = "columns" /\ s.queue # <<>>
  BY <1>1 DEF Progress
<1>3. txn # u
  BY DEF IInv, Transactions, Recreating, ForeignKeysOff
<1>4. /\ Goto(u, s) /\ UNCHANGED <<fileVars, opts, history>>
      /\ fk' = [fk EXCEPT ![u] = FALSE] /\ faults' = faults
  BY DEF ForeignKeysOff
<1> HIDE DEF s
<1>5. /\ fk' \in [Upgraders -> BOOLEAN] /\ ~fk'[u]
      /\ \A v \in Upgraders \ {u} : fk'[v] = fk[v]
  BY <1>1, <1>4
<1> QED
  BY <1>1, <1>2, <1>3, <1>4, <1>5, QuietStep

\* and on again,
LEMMA ForeignKeysOnStep ==
    ASSUME IInv, NEW u \in Upgraders, ForeignKeysOn(u)
    PROVE  IInv'
<1>1. /\ fk \in [Upgraders -> BOOLEAN] /\ faults \in 0..MaxFaults /\ up[u] \in Progress
  BY DEF IInv, Typed, TypeOK
<1>2. Finished(up[u]) \in Progress /\ Finished(up[u]).pc \in {"resolved", "rejected"}
  BY <1>1, FinishedIs
<1>3. txn # u
  BY DEF IInv, Transactions, Recreating, ForeignKeysOn
<1>4. /\ Goto(u, Finished(up[u])) /\ UNCHANGED <<fileVars, opts, history>>
      /\ fk' = [fk EXCEPT ![u] = TRUE] /\ faults' = faults
  BY DEF ForeignKeysOn
<1> QED
  BY <1>1, <1>2, <1>3, <1>4, QuietStep DEF AtTable


\* reading the columns of a table,
LEMMA ReadColumnsStep ==
    ASSUME IInv, NEW u \in Upgraders, ReadColumns(u)
    PROVE  IInv'
<1> DEFINE s == saved[Live(Table(u))]
           n == [up[u] EXCEPT !.pc = "rest", !.seen = [s EXCEPT !.cells = {}]]
<1>1. /\ up[u] \in Progress /\ up[u].queue # <<>> /\ txn # u /\ Table(u) \in Tables
      /\ up[u].pc = "columns" /\ ~fk[u]
  <2>1. up[u].queue # <<>> /\ up[u] \in Progress /\ up[u].pc = "columns"
    BY DEF IInv, Typed, TypeOK, AtTable, ReadColumns
  <2> QED
    BY <2>1, TableIsTable
       DEF IInv, Typed, TypeOK, Transactions, Recreating, ForeignKeysOffMeanwhile, AtTable
<1>2. s \in TableState /\ (s.cols = {} => s = NoTable)
  BY <1>1, NamesApart DEF IInv, Typed, TypeOK
<1>3. s.cols # {} => kept[Table(u)] \subseteq s.cols
  BY <1>1 DEF IInv, SavedFits, Stays, Exists
<1>4. UNCHANGED <<fileVars, fk, opts, faults, history>>
  BY DEF ReadColumns
<1>5. CASE s = NoTable /\ UpgradeTable(u, NoTable)
  BY <1>1, <1>2, <1>3, <1>4, <1>5, ChoosingStep
<1>6. CASE s # NoTable /\ Goto(u, n)
  <2>1. /\ [s EXCEPT !.cells = {}] \in TableState /\ [s EXCEPT !.cells = {}].cols = s.cols
    BY <1>2 DEF TableState
  <2>2. n \in Progress /\ n.pc = "rest" /\ n.queue = up[u].queue /\ n.seen.cols = s.cols
    BY <1>1, <2>1 DEF Progress
  <2>3. fk \in [Upgraders -> BOOLEAN] /\ fk' = fk /\ faults \in 0..MaxFaults
        /\ faults' = faults /\ UNCHANGED <<fileVars, opts, history>>
    BY <1>4 DEF IInv, Typed, TypeOK
  <2> HIDE DEF n
  <2>4. kept[Head(n.queue)] \subseteq n.seen.cols /\ n.seen.cols # {}
    BY <1>2, <1>3, <1>6, <2>2 DEF Table
  <2>5. n.pc \notin {"rename", "copy", "drop", "commit", "create"}
    BY <2>2
  <2> QED
    BY <1>1, <1>6, <2>2, <2>3, <2>4, <2>5, QuietStep
<1> QED
  BY <1>5, <1>6 DEF ReadColumns

\* and the rest of it, even where it has changed in between,
LEMMA ReadRestStep ==
    ASSUME IInv, NEW u \in Upgraders, ReadRest(u)
    PROVE  IInv'
<1> DEFINE now == saved[Live(Table(u))]
           s == [up[u].seen EXCEPT !.refs = now.refs, !.idx = now.idx]
<1>1. /\ up[u] \in Progress /\ up[u].queue # <<>> /\ Table(u) \in Tables
      /\ up[u].pc = "rest"
  <2>1. up[u].queue # <<>> /\ up[u] \in Progress /\ up[u].pc = "rest"
    BY DEF IInv, Typed, TypeOK, AtTable, ReadRest
  <2> QED
    BY <2>1, TableIsTable DEF IInv
<1>2. now \in TableState /\ up[u].seen \in TableState
  BY <1>1, NamesApart DEF IInv, Typed, TypeOK, Progress
<1>3. s \in TableState /\ s.cols = up[u].seen.cols
  BY <1>2 DEF TableState
<1>4. s.cols # {} /\ kept[Table(u)] \subseteq s.cols
  BY <1>1, <1>3 DEF IInv, SeenFits
<1>5. UpgradeTable(u, s) /\ UNCHANGED <<fileVars, fk, opts, faults, history>>
  BY DEF ReadRest
<1> HIDE DEF s
<1> QED
  BY <1>1, <1>3, <1>4, <1>5, ChoosingStep

\* and a statement that is refused.
LEMMA RefuseStep ==
    ASSUME IInv, NEW u \in Upgraders, Refuse(u), faults' \in 0..MaxFaults
    PROVE  IInv'
<1> DEFINE s == up[u]
           r == [s EXCEPT !.pc = "rollback"]
           e == [s EXCEPT !.err = TRUE]
           f == [Idle EXCEPT !.err = TRUE]
<1>1. s \in Progress /\ fk \in [Upgraders -> BOOLEAN] /\ Idle \in Progress
  BY NoTableIsTable DEF IInv, Typed, TypeOK, Idle, Progress
<1>2. UNCHANGED <<fileVars, opts, history>> /\ fk' = fk
  BY DEF Refuse
<1>3. r \in Progress /\ r.pc = "rollback" /\ e \in Progress /\ f \in Progress
  BY <1>1 DEF Progress
<1>4. CASE Goto(u, r)
  <2> HIDE DEF r
  <2> QED
    BY <1>1, <1>2, <1>3, <1>4, QuietStep DEF AtTable
<1>5. CASE txn # u /\ Goto(u, Failed(s))
  <2>1. Failed(s) \in Progress /\ Failed(s).pc \in {"fkOn", "resolved", "rejected"}
    BY <1>1, FailedIs
  <2> QED
    BY <1>1, <1>2, <1>5, <2>1, QuietStep DEF AtTable
<1>6. CASE s.pc \in {"fkOff", "fkOn"} /\ (Goto(u, Finished(f)) \/ Goto(u, Finished(e)))
  <2>1. PICK x \in {f, e} : Goto(u, Finished(x))
    BY <1>6
  <2>2. Finished(x) \in Progress /\ Finished(x).pc \in {"resolved", "rejected"}
    BY <1>3, <2>1, FinishedIs
  <2>3. txn # u
    BY <1>6 DEF IInv, Transactions, Recreating
  <2> QED
    BY <1>1, <1>2, <2>1, <2>2, <2>3, QuietStep DEF AtTable
<1> QED
  BY <1>4, <1>5, <1>6 DEF Refuse

-----------------------------------------------------------------------------
\* Steps inside and outside of transactions

\* A statement in the transaction of u keeps the invariant, if the tables still
\* have what would be committed.
LEMMA InsideStep ==
    ASSUME IInv, NEW u \in Upgraders, NEW s \in Progress, Goto(u, s),
           txn \in {u, None}, txn' = u, saved' = saved,
           UNCHANGED <<fk, opts, faults, history>>,
           db' \in [Names -> TableState], \A n \in Names : db'[n].cols = {} => db'[n] = NoTable,
           up[u].queue # <<>>, ~fk[u], s.queue = up[u].queue,
           s.pc \in {"rename", "create", "copy", "drop", "work", "commit"},
           s.pc \in {"rename", "create", "copy", "drop"} =>
               /\ s.seen # NoTable /\ s.seen.cols # {}
               /\ kept[Table(u)] \subseteq s.seen.cols,
           \A x \in due : <<x[2], x[3]>> \in
               db'[IF s.pc \in {"create", "copy"} /\ x[1] = Table(u) THEN Tmp(x[1])
                   ELSE Live(x[1])].cells,
           \A t \in Tables : Exists(db', Tmp(t)) =>
               t = Table(u) /\ s.pc \in {"create", "copy", "drop"},
           \A t \in Tables : t # Table(u) \/ s.pc # "create" => Stays(db', t)
    PROVE  IInv'
<1>1. /\ up' \in [Upgraders -> Progress] /\ up'[u] = s
      /\ \A v \in Upgraders \ {u} : up'[v] = up[v]
  BY DEF IInv, Typed, TypeOK, Goto
<1>2. fk' = fk /\ opts' = opts /\ faults' = faults /\ kept' = kept /\ due' = due
  BY DEF history
<1>3. \A v \in Upgraders \ {u} : /\ Recreating(v)' = Recreating(v) /\ Table(v)' = Table(v)
                                 /\ txn # v /\ ~Recreating(v) /\ up[v].pc # "commit"
  <2>1. None \notin Upgraders
    BY UpgradeAssumption DEF UpgradeAssumption
  <2> QED
    BY <1>1, <2>1 DEF IInv, Transactions, Recreating, Table
<1>4. Table(u)' = Table(u)
  BY <1>1 DEF Table
<1>5. \A t \in Tables : /\ Stays(db, t)' = Stays(db', t)
                        /\ Stays(saved, t)' = Stays(saved, t)
  BY <1>2 DEF Stays, Exists
<1>6. Typed'
  BY <1>1, <1>2 DEF IInv, Typed, TypeOK
<1>7. Transactions'
  <2>1. \A v \in Upgraders : v = u \/ (~Recreating(v)' /\ up'[v].pc # "commit" /\ txn' # v)
    BY <1>1, <1>3
  <2>2. Recreating(u)' \/ up'[u].pc \in {"work", "commit", "rollback"}
    BY <1>1 DEF Recreating
  <2>3. txn' # None
    BY UpgradeAssumption DEF UpgradeAssumption
  <2> QED
    BY <1>1, <2>1, <2>2, <2>3 DEF Transactions
<1>8. HistoryFits'
  BY <1>2 DEF IInv, HistoryFits
<1>9. SeenFits'
  <2>1. \A v \in Upgraders \ {u} :
            up'[v].pc \in {"rest", "begin"} \/ Recreating(v)' =>
                up'[v].seen.cols # {} /\ kept'[Table(v)'] \subseteq up'[v].seen.cols
    BY <1>1, <1>2, <1>3 DEF IInv, SeenFits
  <2>2. up'[u].pc \in {"rest", "begin"} \/ Recreating(u)' =>
            up'[u].seen.cols # {} /\ kept'[Table(u)'] \subseteq up'[u].seen.cols
    BY <1>1, <1>2, <1>4 DEF Recreating
  <2> QED
    BY <2>1, <2>2 DEF SeenFits
<1>10. SavedFits'
  BY <1>2, <1>5 DEF IInv, SavedFits, RowsKept, NoDebris, Exists
<1>11. OpenFits'
  <2> SUFFICES /\ \A x \in due : <<x[2], x[3]>> \in db'[Holding(u, x[1])'].cells
               /\ \A t \in Tables : Exists(db', Tmp(t)) =>
                     t = Table(u)' /\ up'[u].pc \in {"create", "copy", "drop"}
               /\ \A t \in Tables :
                     t # Table(u)' \/ up'[u].pc # "create" => Stays(db', t)
    BY <1>2, <1>5 DEF OpenFits, Exists
  <2>1. \A x \in due : Holding(u, x[1])' =
            IF s.pc \in {"create", "copy"} /\ x[1] = Table(u) THEN Tmp(x[1])
            ELSE Live(x[1])
    BY <1>1, <1>4 DEF Holding
  <2> QED
    BY <1>1, <1>4, <2>1
<1>12. ForeignKeysOffMeanwhile'
  BY <1>1, <1>2 DEF IInv, ForeignKeysOffMeanwhile
<1> QED
  BY <1>6, <1>7, <1>8, <1>9, <1>10, <1>11, <1>12 DEF IInv

\* A statement of u while no transaction is open keeps the invariant, if no
\* content is lost by it.
LEMMA OutsideStep ==
    ASSUME IInv, NEW u \in Upgraders, NEW s \in Progress, Goto(u, s),
           txn = None, txn' = None, saved' = db', UNCHANGED <<fk, opts, faults, history>>,
           db' \in [Names -> TableState], \A n \in Names : db'[n].cols = {} => db'[n] = NoTable,
           ~fk[u], s.pc \in {"work", "columns", "fkOn", "resolved", "rejected"},
           s.pc \in {"work", "columns"} => s.queue # <<>>,
           \A x \in due : <<x[2], x[3]>> \in db'[Live(x[1])].cells,
           \A t \in Tables : ~Exists(db', Tmp(t)) /\ Stays(db', t)
    PROVE  IInv'
<1>1. /\ up' \in [Upgraders -> Progress] /\ up'[u] = s
      /\ \A v \in Upgraders \ {u} : up'[v] = up[v]
  BY DEF IInv, Typed, TypeOK, Goto
<1>2. fk' = fk /\ opts' = opts /\ faults' = faults /\ kept' = kept /\ due' = due
  BY DEF history
<1>3. \A v \in Upgraders \ {u} : Recreating(v)' = Recreating(v) /\ Table(v)' = Table(v)
  BY <1>1 DEF Recreating, Table
<1>4. ~Recreating(u)'
  BY <1>1 DEF Recreating
<1>5. None \notin Upgraders
  BY UpgradeAssumption DEF UpgradeAssumption
<1>6. Typed'
  BY <1>1, <1>2 DEF IInv, Typed, TypeOK, AtTable
<1>7. Transactions'
  BY <1>1, <1>3, <1>4, <1>5 DEF IInv, Transactions
<1>8. HistoryFits'
  BY <1>2 DEF IInv, HistoryFits
<1>9. SeenFits'
  BY <1>1, <1>2, <1>3, <1>4 DEF IInv, SeenFits
<1>10. SavedFits'
  BY <1>2 DEF SavedFits, RowsKept, NoDebris, Exists, Stays
<1>11. OpenFits'
  BY <1>5 DEF OpenFits
<1>12. ForeignKeysOffMeanwhile'
  BY <1>1, <1>2 DEF IInv, ForeignKeysOffMeanwhile
<1> QED
  BY <1>6, <1>7, <1>8, <1>9, <1>10, <1>11, <1>12 DEF IInv

\* An open transaction is undone, of an upgrader that has failed or died.
LEMMA UndoneStep ==
    ASSUME IInv, NEW u \in Upgraders, NEW s \in Progress, Goto(u, s),
           IF txn = u THEN db' = saved /\ txn' = None ELSE UNCHANGED <<db, txn>>,
           UNCHANGED <<saved, opts, history>>, faults' \in 0..MaxFaults,
           fk' \in [Upgraders -> BOOLEAN], \A v \in Upgraders \ {u} : fk'[v] = fk[v],
           s.pc \in {"idle", "fkOn", "resolved", "rejected"}
    PROVE  IInv'
<1>1. /\ up' \in [Upgraders -> Progress] /\ up'[u] = s
      /\ \A v \in Upgraders \ {u} : up'[v] = up[v]
  BY DEF IInv, Typed, TypeOK, Goto
<1>2. saved' = saved /\ opts' = opts /\ kept' = kept /\ due' = due
  BY DEF history
<1>3. \A v \in Upgraders \ {u} : /\ Recreating(v)' = Recreating(v) /\ Table(v)' = Table(v)
                                 /\ \A t \in Tables : Holding(v, t)' = Holding(v, t)
  BY <1>1 DEF Recreating, Table, Holding
<1>4. ~Recreating(u)'
  BY <1>1 DEF Recreating
<1>5. None \notin Upgraders
  BY UpgradeAssumption DEF UpgradeAssumption
<1>6. /\ txn' # u /\ txn' \in {txn, None} /\ (txn' = None => db' = saved)
      /\ txn' # None => db' = db /\ txn' = txn
  BY <1>5 DEF IInv, Transactions
<1>7. Typed'
  <2>1. db' \in {db, saved} /\ txn' \in Upgraders \cup {None}
    BY DEF IInv, Typed, TypeOK
  <2> QED
    BY <1>1, <1>2, <2>1 DEF IInv, Typed, TypeOK, AtTable
<1>8. Transactions'
  <2>1. \A v \in Upgraders \ {u} : txn = v <=> txn' = v
    BY <1>5, <1>6
  <2>2. \A v \in Upgraders \ {u} :
            /\ Recreating(v)' \/ up'[v].pc = "commit" => txn' = v
            /\ txn' = v => \/ Recreating(v)'
                           \/ up'[v].pc \in {"work", "commit", "rollback"}
    BY <1>1, <1>3, <2>1 DEF IInv, Transactions
  <2>3. up'[u].pc # "commit" /\ txn' # u
    BY <1>1, <1>6
  <2> QED
    BY <1>2, <1>4, <1>6, <2>2, <2>3 DEF Transactions
<1>9. HistoryFits'
  BY <1>2 DEF IInv, HistoryFits
<1>10. SeenFits'
  BY <1>1, <1>2, <1>3, <1>4 DEF IInv, SeenFits
<1>11. SavedFits'
  BY <1>2 DEF IInv, SavedFits, RowsKept, NoDebris, Exists, Stays
<1>12. OpenFits'
  <2> SUFFICES ASSUME NEW v \in Upgraders, txn' = v, up'[v].pc # "rollback"
               PROVE  /\ \A x \in due : <<x[2], x[3]>> \in db[Holding(v, x[1])'].cells
                      /\ \A t \in Tables : Exists(db, Tmp(t)) =>
                            t = Table(v)' /\ up'[v].pc \in {"create", "copy", "drop"}
                      /\ \A t \in Tables :
                            t # Table(v)' \/ up'[v].pc # "create" => Stays(db, t)
    BY <1>2, <1>5, <1>6 DEF OpenFits, Exists, Stays
  <2>1. v # u /\ txn = v
    BY <1>5, <1>6
  <2>2. \A x \in due : x[1] \in Tables
    BY DEF IInv, Typed, TypeOK
  <2> QED
    BY <1>1, <1>2, <1>3, <2>1, <2>2 DEF IInv, OpenFits
<1>13. ForeignKeysOffMeanwhile'
  BY <1>1 DEF IInv, ForeignKeysOffMeanwhile, AtTable
<1> QED
  BY <1>7, <1>8, <1>9, <1>10, <1>11, <1>12, <1>13 DEF IInv

-----------------------------------------------------------------------------
\* The statements that recreate a table

\* What is known of an upgrader that writes.
LEMMA Writer ==
    ASSUME IInv, NEW u \in Upgraders, up[u].pc \in AtTable
    PROVE  /\ up[u] \in Progress /\ up[u].queue # <<>> /\ Table(u) \in Tables
           /\ up[u].seen \in TableState /\ ~fk[u] /\ opts \in Options
           /\ db \in [Names -> TableState] /\ saved \in [Names -> TableState]
           /\ due \subseteq Tables \X Rows \X Cols
           /\ Model[Table(u)] \in TableState /\ Model[Table(u)].cols # {}
           /\ Model[Table(u)].cells = {}
<1>1. up[u].queue # <<>> /\ up[u] \in Progress
  BY DEF IInv, Typed, TypeOK
<1>2. Table(u) \in Tables
  BY <1>1, TableIsTable DEF IInv
<1> QED
  BY <1>1, <1>2, UpgradeAssumption
     DEF IInv, Typed, TypeOK, Progress, ForeignKeysOffMeanwhile, UpgradeAssumption

\* What a transaction of u has in its tables where it has not failed.
LEMMA InTransaction ==
    ASSUME IInv, NEW u \in Upgraders, txn = u, up[u].pc # "rollback"
    PROVE  /\ \A x \in due : <<x[2], x[3]>> \in db[Holding(u, x[1])].cells
           /\ \A t \in Tables : Exists(db, Tmp(t)) =>
                 t = Table(u) /\ up[u].pc \in {"create", "copy", "drop"}
           /\ \A t \in Tables :
                 t # Table(u) \/ up[u].pc # "create" => Stays(db, t)
BY DEF IInv, OpenFits

\* The columns whose content stays are copied.
LEMMA StayingIsCopied ==
    ASSUME IInv, NEW u \in Upgraders, Recreating(u) \/ up[u].pc = "begin"
    PROVE  /\ kept[Table(u)] \subseteq Copied(Table(u), up[u].seen)
           /\ kept[Table(u)] \subseteq Model[Table(u)].cols \cup Extra(Table(u), up[u].seen)
           /\ up[u].seen # NoTable /\ up[u].seen.cols # {}
           /\ kept[Table(u)] \subseteq up[u].seen.cols
<1>1. /\ kept[Table(u)] \subseteq up[u].seen.cols /\ up[u].seen.cols # {}
  BY DEF IInv, SeenFits
<1>2. Table(u) \in Tables
  BY Writer DEF Recreating, AtTable
<1>3. opts.keep \/ kept[Table(u)] \subseteq Model[Table(u)].cols
  BY <1>2 DEF IInv, HistoryFits
<1> QED
  BY <1>1, <1>3, NoTableIsTable DEF Copied, Extra

\* The transaction begins with the tables as they are.
LEMMA BeginStep ==
    ASSUME IInv, NEW u \in Upgraders, Begin(u)
    PROVE  IInv'
<1> DEFINE s == [up[u] EXCEPT !.pc = "rename"]
<1>1. /\ up[u].pc = "begin" /\ txn = None /\ txn' = u /\ Goto(u, s)
      /\ UNCHANGED <<db, saved, fk, opts, faults, history>>
  BY DEF Begin
<1>2. up[u].pc \in AtTable
  BY <1>1 DEF AtTable
<1>3. s \in Progress /\ s.pc = "rename" /\ s.queue = up[u].queue /\ s.seen = up[u].seen
  BY <1>2, Writer DEF Progress
<1>4. db = saved /\ \A n \in Names : db[n].cols = {} => db[n] = NoTable
  BY <1>1 DEF IInv, Transactions, Typed
<1>5. \A x \in due : <<x[2], x[3]>> \in db[Live(x[1])].cells
  BY <1>4 DEF IInv, SavedFits, RowsKept
<1>6. \A t \in Tables : ~Exists(db, Tmp(t)) /\ Stays(db, t)
  BY <1>4 DEF IInv, SavedFits, NoDebris
<1> HIDE DEF s
<1>7. /\ s.seen # NoTable /\ s.seen.cols # {} /\ kept[Table(u)] \subseteq s.seen.cols
  BY <1>1, <1>3, StayingIsCopied
<1>8. /\ db' = db /\ saved' = saved /\ UNCHANGED <<fk, opts, faults, history>>
  BY <1>1
<1> QED
  BY <1>1, <1>2, <1>3, <1>4, <1>5, <1>6, <1>7, <1>8, Writer, InsideStep

\* Renaming moves the table and its content, and nothing else.
LEMMA RenameStep ==
    ASSUME IInv, NEW u \in Upgraders, Rename(u)
    PROVE  IInv'
<1> DEFINE t == Table(u)
           n == Live(t)
           o == Tmp(t)
           s == [up[u] EXCEPT !.pc = "create"]
           follow(x) == [x EXCEPT !.refs = {IF r = n THEN o ELSE r : r \in @}]
<1>1. /\ up[u].pc = "rename" /\ CanRename(u) /\ Goto(u, s)
      /\ db' = [x \in Names |-> IF x = n THEN NoTable
                                ELSE IF x = o THEN follow(db[n]) ELSE follow(db[x])]
      /\ UNCHANGED <<txn, fk, opts, faults, history>>
  BY DEF Rename, Write
<1>2. txn = u /\ txn' = u /\ saved' = saved
  BY <1>1 DEF IInv, Transactions, Recreating, Rename, Write
<1>3. up[u].pc \in AtTable /\ Recreating(u)
  BY <1>1 DEF AtTable, Recreating
<1>4. s \in Progress /\ s.pc = "create" /\ s.queue = up[u].queue /\ s.seen = up[u].seen
  BY <1>3, Writer DEF Progress
<1>5. t \in Tables /\ n \in Names /\ o \in Names
  BY <1>3, Writer, NamesApart
<1>6. ASSUME NEW x \in TableState
      PROVE  /\ follow(x) \in TableState /\ follow(x).cols = x.cols
             /\ follow(x).cells = x.cells
             /\ x = NoTable => follow(x) = NoTable
  <2>1. {IF r = n THEN o ELSE r : r \in x.refs} \in SUBSET Names
    BY <1>5 DEF TableState
  <2>2. follow(x) \in TableState /\ follow(x).cols = x.cols /\ follow(x).cells = x.cells
    BY <2>1 DEF TableState
  <2>3. ASSUME x = NoTable PROVE follow(x) = NoTable
    <3>1. {IF r = n THEN o ELSE r : r \in x.refs} = {} /\ x.refs = {}
      BY <2>3 DEF NoTable
    <3>2. follow(x) = [x EXCEPT !.refs = {}]
      BY <3>1
    <3>3. [x EXCEPT !.refs = {}] = x
      BY <3>1 DEF TableState
    <3> QED
      BY <2>3, <3>2, <3>3
  <2> QED
    BY <2>2, <2>3
<1> HIDE DEF follow, s
<1>7. db' \in [Names -> TableState]
  <2>1. \A x \in Names : follow(db[x]) \in TableState
    BY <1>3, <1>6, Writer
  <2> QED
    BY <1>1, <1>5, <2>1, NoTableIsTable
<1>8. \A x \in Names : db'[x].cols = {} => db'[x] = NoTable
  <2> SUFFICES ASSUME NEW x \in Names, db'[x].cols = {} PROVE db'[x] = NoTable
    OBVIOUS
  <2>1. \A y \in Names : db[y] \in TableState /\ (db[y].cols = {} => db[y] = NoTable)
    BY <1>3, Writer DEF IInv, Typed
  <2>2. CASE x = n
    BY <1>1, <2>2
  <2>3. CASE x # n /\ x = o
    <3>1. db'[x] = follow(db[n])
      BY <1>1, <1>5, <2>3
    <3> QED
      BY <1>5, <1>6, <2>1, <3>1
  <2>4. CASE x # n /\ x # o
    <3>1. db'[x] = follow(db[x])
      BY <1>1, <2>4
    <3> QED
      BY <1>6, <2>1, <3>1
  <2> QED
    BY <2>2, <2>3, <2>4
<1>9. /\ db'[o].cells = db[n].cells
      /\ \A r \in Tables \ {t} : /\ db'[Live(r)].cells = db[Live(r)].cells
                                 /\ db'[Live(r)].cols = db[Live(r)].cols
                                 /\ db'[Tmp(r)].cols = db[Tmp(r)].cols
  <2>1. db'[o] = follow(db[n]) /\ db[n] \in TableState
    BY <1>1, <1>3, <1>5, NamesApart, Writer
  <2>2. ASSUME NEW r \in Tables \ {t}
        PROVE  /\ Live(r) \in Names /\ Tmp(r) \in Names
               /\ db'[Live(r)] = follow(db[Live(r)]) /\ db'[Tmp(r)] = follow(db[Tmp(r)])
    <3>1. Live(r) \in Names /\ Live(r) # n /\ Live(r) # o
      BY <1>5, NamesApart
    <3>2. Tmp(r) \in Names /\ Tmp(r) # n /\ Tmp(r) # o
      BY <1>5, NamesApart
    <3> QED
      BY <1>1, <3>1, <3>2
  <2>3. \A y \in Names : db[y] \in TableState
    BY <1>3, Writer
  <2> QED
    BY <1>6, <2>1, <2>2, <2>3
<1> HIDE DEF t, n, o
<1>10. \A x \in due : <<x[2], x[3]>> \in db'[IF x[1] = t THEN Tmp(x[1]) ELSE Live(x[1])].cells
  <2> SUFFICES ASSUME NEW x \in due
               PROVE  <<x[2], x[3]>> \in db'[IF x[1] = t THEN Tmp(x[1]) ELSE Live(x[1])].cells
    OBVIOUS
  <2>1. x[1] \in Tables
    BY <1>3, Writer
  <2>2. <<x[2], x[3]>> \in db[Live(x[1])].cells
    BY <1>1, <1>2, InTransaction DEF Holding
  <2> QED
    BY <1>9, <2>1, <2>2 DEF t, n, o
<1>11. \A r \in Tables : Exists(db', Tmp(r)) => r = t
  BY <1>1, <1>2, <1>9, InTransaction DEF Exists
<1>12. \A r \in Tables : r # t => Stays(db', r)
  BY <1>1, <1>2, <1>9, InTransaction, SMTT(30) DEF Stays, Exists, t
<1>13. /\ s.seen # NoTable /\ s.seen.cols # {} /\ kept[Table(u)] \subseteq s.seen.cols
  BY <1>3, <1>4, StayingIsCopied
<1> QED
  BY <1>1, <1>2, <1>3, <1>4, <1>7, <1>8, <1>10, <1>11, <1>12, <1>13, Writer, InsideStep
     DEF t

\* A new table is empty, and has the columns whose content stays.
LEMMA CreateStep ==
    ASSUME IInv, NEW u \in Upgraders, Create(u)
    PROVE  IInv'
<1> DEFINE t == Table(u)
           m == Model[t]
           n == Live(t)
           new == [m EXCEPT !.cols = @ \cup Extra(t, up[u].seen), !.idx = {}]
           s == [up[u] EXCEPT !.pc = "copy"]
<1>1. /\ up[u].pc = "create" /\ CanCreate(u) /\ txn \in {u, None}
      /\ db' = [db EXCEPT ![n] = new] /\ saved' = IF txn = u THEN saved ELSE db'
      /\ UNCHANGED <<txn, fk, opts, faults, history>>
      /\ Goto(u, IF up[u].seen = NoTable THEN Working(u, up[u]) ELSE s)
  BY DEF Create, Write
<1>2. up[u].pc \in AtTable
  BY <1>1 DEF AtTable
<1>3. s \in Progress /\ s.pc = "copy" /\ s.queue = up[u].queue /\ s.seen = up[u].seen
  BY <1>2, Writer, ZenonT(30) DEF Progress
<1>4. t \in Tables /\ n \in Names /\ db[n].cols = {} /\ db[n] = NoTable
  BY <1>1, <1>2, Writer, NamesApart DEF CanCreate, Exists, IInv, Typed
<1>5. /\ new \in TableState /\ new.cols = m.cols \cup Extra(t, up[u].seen)
      /\ new.cols # {} /\ new.cells = {}
  <2>1. m \in TableState /\ m.cols # {} /\ m.cells = {}
    BY <1>2, Writer
  <2>2. Extra(t, up[u].seen) \in SUBSET Cols
    BY <1>2, Writer DEF Extra, TableState
  <2> QED
    BY <2>1, <2>2 DEF TableState
<1> HIDE DEF new
<1>6. /\ db' \in [Names -> TableState] /\ db'[n] = new
      /\ \A x \in Names : x # n => db'[x] = db[x]
      /\ \A x \in Names : db'[x].cols = {} => db'[x] = NoTable
  <2>1. db \in [Names -> TableState] /\ \A x \in Names : db[x].cols = {} => db[x] = NoTable
    BY DEF IInv, Typed, TypeOK
  <2> QED
    BY <1>1, <1>4, <1>5, <2>1
<1>7. \A r \in Tables : Tmp(r) \in Names /\ db'[Tmp(r)] = db[Tmp(r)]
  BY <1>4, <1>6, NamesApart
<1>8. \A r \in Tables \ {t} : Live(r) \in Names /\ db'[Live(r)] = db[Live(r)]
  BY <1>4, <1>6, NamesApart
<1> HIDE DEF s, n
<1>9. CASE up[u].seen = NoTable
  <2>1. txn = None /\ db = saved
    BY <1>1, <1>9 DEF IInv, Transactions, Recreating
  <2>2. /\ Working(u, up[u]) \in Progress
        /\ Working(u, up[u]).pc \in {"work", "columns", "fkOn", "resolved", "rejected"}
        /\ Working(u, up[u]).pc \in {"work", "columns"} => Working(u, up[u]).queue # <<>>
    <3>1. txn # u
      BY <2>1, UpgradeAssumption DEF UpgradeAssumption
    <3> QED
      BY <1>2, <3>1, Writer, WorkingIs
  <2>3. saved' = db' /\ txn' = None /\ UNCHANGED <<fk, opts, faults, history>>
    BY <1>1, <2>1, UpgradeAssumption DEF UpgradeAssumption
  <2>4. ASSUME NEW x \in due PROVE <<x[2], x[3]>> \in db'[Live(x[1])].cells
    <3>1. x[1] \in Tables /\ <<x[2], x[3]>> \in db[Live(x[1])].cells
      BY <1>2, <2>1, Writer DEF IInv, SavedFits, RowsKept
    <3>2. db[n].cells = {}
      BY <1>4 DEF NoTable
    <3> QED
      BY <1>8, <3>1, <3>2 DEF n
  <2>5. ASSUME NEW r \in Tables PROVE ~Exists(db', Tmp(r)) /\ Stays(db', r)
    <3>1. ~Exists(db', Tmp(r)) /\ Stays(db, r)
      BY <1>7, <2>1 DEF IInv, SavedFits, NoDebris, Exists
    <3>2. CASE r = t
      <4>1. kept[t] \subseteq m.cols
        BY <1>4, <3>1, <3>2 DEF Stays, Exists, n
      <4> QED
        BY <1>5, <1>6, <3>1, <3>2, <4>1 DEF Stays, Exists, n
    <3>3. CASE r # t
      BY <1>8, <3>1, <3>3 DEF Stays, Exists
    <3> QED
      BY <3>1, <3>2, <3>3
  <2> QED
    BY <1>1, <1>2, <1>6, <1>9, <2>1, <2>2, <2>3, <2>4, <2>5, Writer, OutsideStep
<1>10. CASE up[u].seen # NoTable
  <2>1. Recreating(u) /\ txn = u
    BY <1>1, <1>10 DEF IInv, Transactions, Recreating
  <2>2. txn' = u /\ saved' = saved /\ UNCHANGED <<fk, opts, faults, history>> /\ Goto(u, s)
    BY <1>1, <1>10, <2>1
  <2>3. ASSUME NEW x \in due
        PROVE  <<x[2], x[3]>> \in db'[IF x[1] = t THEN Tmp(x[1]) ELSE Live(x[1])].cells
    <3>1. x[1] \in Tables
      BY <1>2, Writer
    <3>2. <<x[2], x[3]>> \in db[IF x[1] = t THEN Tmp(x[1]) ELSE Live(x[1])].cells
      BY <1>1, <2>1, InTransaction DEF Holding
    <3> QED
      BY <1>7, <1>8, <3>1, <3>2
  <2>4. \A r \in Tables : Exists(db', Tmp(r)) => r = t
    BY <1>1, <1>7, <2>1, InTransaction DEF Exists
  <2>5. ASSUME NEW r \in Tables PROVE Stays(db', r)
    <3>1. CASE r = t
      <4>1. kept[t] \subseteq new.cols
        BY <1>5, <2>1, StayingIsCopied
      <4> QED
        BY <1>5, <1>6, <3>1, <4>1 DEF Stays, Exists, n
    <3>2. CASE r # t
      BY <1>1, <1>8, <2>1, <3>2, InTransaction DEF Stays, Exists
    <3> QED
      BY <3>1, <3>2
  <2>6. /\ s.seen # NoTable /\ s.seen.cols # {} /\ kept[Table(u)] \subseteq s.seen.cols
    BY <1>3, <2>1, StayingIsCopied
  <2>7. \A x \in due : <<x[2], x[3]>> \in
            db'[IF s.pc \in {"create", "copy"} /\ x[1] = Table(u) THEN Tmp(x[1])
                ELSE Live(x[1])].cells
    BY <1>3, <2>3
  <2>8. up[u].queue # <<>> /\ ~fk[u] /\ txn \in {u, None}
    BY <1>2, <2>1, Writer
  <2> QED
    BY <1>3, <1>6, <2>2, <2>4, <2>5, <2>6, <2>7, <2>8, InsideStep
<1> QED
  BY <1>9, <1>10

\* The content that stays is copied.
LEMMA CopyStep ==
    ASSUME IInv, NEW u \in Upgraders, Copy(u)
    PROVE  IInv'
<1> DEFINE t == Table(u)
           n == Live(t)
           more == {x \in db[Tmp(t)].cells : x[2] \in Copied(t, up[u].seen)}
           new == [db[n] EXCEPT !.cells = @ \cup more]
           s == [up[u] EXCEPT !.pc = "drop"]
<1>1. /\ up[u].pc = "copy" /\ txn \in {u, None}
      /\ db' = [db EXCEPT ![n].cells = @ \cup more] /\ saved' = IF txn = u THEN saved ELSE db'
      /\ UNCHANGED <<txn, fk, opts, faults, history>> /\ Goto(u, s)
  BY DEF Copy, Write
<1>2. up[u].pc \in AtTable /\ Recreating(u) /\ txn = u
  BY <1>1 DEF AtTable, Recreating, IInv, Transactions
<1>3. s \in Progress /\ s.pc = "drop" /\ s.queue = up[u].queue /\ s.seen = up[u].seen
  BY <1>2, Writer DEF Progress
<1>4. t \in Tables /\ n \in Names /\ Tmp(t) \in Names
  BY <1>2, Writer, NamesApart
<1>5. db' = [db EXCEPT ![n] = new]
  BY <1>1
<1>6. /\ new \in TableState /\ new.cols = db[n].cols
      /\ new.cells = db[n].cells \cup more /\ more \subseteq Rows \X Cols
      /\ db[n] \in TableState
  <2>1. db[n] \in TableState /\ db[Tmp(t)] \in TableState
    BY <1>2, <1>4, Writer
  <2>2. more \subseteq Rows \X Cols
    BY <2>1 DEF TableState
  <2> QED
    BY <2>1, <2>2 DEF TableState
<1>7. new.cols = {} => new = NoTable
  <2> SUFFICES ASSUME new.cols = {} PROVE new = NoTable
    OBVIOUS
  <2>1. db[n] = NoTable
    BY <1>4, <1>6 DEF IInv, Typed
  <2>2. Copied(t, up[u].seen) = {}
    BY <1>6 DEF Copy, CanCopy
  <2>3. new = [NoTable EXCEPT !.cells = @ \cup {}]
    BY <2>1, <2>2
  <2> QED
    BY <2>3 DEF NoTable
<1> HIDE DEF new, s
<1>8. /\ db' \in [Names -> TableState] /\ db'[n] = new
      /\ \A x \in Names : x # n => db'[x] = db[x]
      /\ \A x \in Names : db'[x].cols = {} => db'[x] = NoTable
  <2>1. db \in [Names -> TableState] /\ \A x \in Names : db[x].cols = {} => db[x] = NoTable
    BY DEF IInv, Typed, TypeOK
  <2> QED
    BY <1>4, <1>5, <1>6, <1>7, <2>1
<1>9. /\ \A r \in Tables : Tmp(r) \in Names /\ db'[Tmp(r)] = db[Tmp(r)]
      /\ \A r \in Tables \ {t} : Live(r) \in Names /\ db'[Live(r)] = db[Live(r)]
  BY <1>4, <1>8, NamesApart
<1>10. ASSUME NEW x \in due PROVE <<x[2], x[3]>> \in db'[Live(x[1])].cells
  <2>1. x \in Tables \X Rows \X Cols /\ x[3] \in kept[x[1]]
    BY <1>2, Writer DEF IInv, HistoryFits
  <2>2. CASE x[1] = t
    <3>1. <<x[2], x[3]>> \in db[Tmp(t)].cells
      BY <1>1, <1>2, <2>2, InTransaction DEF Holding
    <3>2. x[3] \in Copied(t, up[u].seen)
      BY <1>2, <2>1, <2>2, StayingIsCopied
    <3>3. <<x[2], x[3]>> \in more
      BY <3>1, <3>2
    <3> QED
      BY <1>6, <1>8, <2>2, <3>3
  <2>3. CASE x[1] # t
    <3>1. <<x[2], x[3]>> \in db[Live(x[1])].cells
      BY <1>1, <1>2, <2>3, InTransaction DEF Holding
    <3> QED
      BY <1>9, <2>1, <2>3, <3>1
  <2> QED
    BY <2>2, <2>3
<1> HIDE DEF n, more
<1>11. ASSUME NEW r \in Tables PROVE Stays(db', r) /\ (Exists(db', Tmp(r)) => r = t)
  <2>1. Stays(db, r) /\ (Exists(db, Tmp(r)) => r = t)
    BY <1>1, <1>2, InTransaction
  <2>2. db'[Live(r)].cols = db[Live(r)].cols
    BY <1>6, <1>8, <1>9 DEF n
  <2> QED
    BY <1>9, <2>1, <2>2 DEF Stays, Exists
<1>12. /\ s.seen # NoTable /\ s.seen.cols # {} /\ kept[Table(u)] \subseteq s.seen.cols
  BY <1>2, <1>3, StayingIsCopied
<1>13. txn' = u /\ saved' = saved /\ UNCHANGED <<fk, opts, faults, history>>
  BY <1>1, <1>2
<1> QED
  BY <1>1, <1>2, <1>3, <1>8, <1>10, <1>11, <1>12, <1>13, Writer, InsideStep

\* Dropping the old table deletes no other rows, as foreign keys are not enforced.
LEMMA DropOldStep ==
    ASSUME IInv, NEW u \in Upgraders, DropOld(u)
    PROVE  IInv'
<1> DEFINE t == Table(u)
           o == Tmp(t)
           s == Working(u, up[u])
<1>1. /\ up[u].pc = "drop" /\ txn \in {u, None} /\ Goto(u, s)
      /\ saved' = IF txn = u THEN saved ELSE db'
      /\ UNCHANGED <<txn, fk, opts, faults, history>>
  BY DEF DropOld, Write
<1>2. up[u].pc \in AtTable /\ Recreating(u) /\ txn = u
  BY <1>1 DEF AtTable, Recreating, IInv, Transactions
<1>3. db' = [x \in Names |-> IF x = o THEN NoTable ELSE db[x]]
  <2>1. ~fk[u]
    BY <1>2, Writer
  <2> QED
    BY <2>1 DEF DropOld, Write
<1>4. s \in Progress /\ s.pc \in {"work", "commit"} /\ s.queue = up[u].queue
  BY <1>2, Writer, WorkingIs
<1>5. t \in Tables /\ o \in Names
  BY <1>2, Writer, NamesApart
<1>6. /\ db' \in [Names -> TableState]
      /\ \A x \in Names : db'[x].cols = {} => db'[x] = NoTable
  BY <1>3, NoTableIsTable DEF IInv, Typed, TypeOK
<1>7. /\ \A r \in Tables : Live(r) \in Names /\ db'[Live(r)] = db[Live(r)]
      /\ \A r \in Tables \ {t} : Tmp(r) \in Names /\ db'[Tmp(r)] = db[Tmp(r)]
      /\ db'[o] = NoTable
  BY <1>3, <1>5, NamesApart
<1> HIDE DEF s
<1>8. ASSUME NEW x \in due PROVE <<x[2], x[3]>> \in db'[Live(x[1])].cells
  <2>1. x[1] \in Tables
    BY <1>2, Writer
  <2> QED
    BY <1>1, <1>2, <1>7, <2>1, InTransaction DEF Holding
<1>9. ASSUME NEW r \in Tables PROVE Stays(db', r) /\ ~Exists(db', Tmp(r))
  <2>1. Stays(db, r) /\ (Exists(db, Tmp(r)) => r = t)
    BY <1>1, <1>2, InTransaction
  <2> QED
    BY <1>7, <2>1, NoTableIsTable DEF Stays, Exists
<1>10. txn' = u /\ saved' = saved /\ UNCHANGED <<fk, opts, faults, history>>
  BY <1>1, <1>2
<1> QED
  BY <1>1, <1>2, <1>4, <1>6, <1>8, <1>9, <1>10, Writer, InsideStep

-----------------------------------------------------------------------------
\* The statements that alter a table, and the end of a transaction

\* A statement on columns or indexes, inside or outside of a transaction, keeps
\* the invariant: it takes nothing from the tables and makes none.
LEMMA WorkStep ==
    ASSUME IInv, NEW u \in Upgraders, up[u].pc = "work",
           NEW s \in Progress, s.queue = up[u].queue, Goto(u, Working(u, s)),
           NEW d \in [Names -> TableState], Write(u, d),
           \A n \in Names : /\ db[n].cols \subseteq d[n].cols /\ d[n].cells = db[n].cells
                            /\ d[n].cols = {} => d[n] = NoTable
                            /\ db[n].cols = {} => d[n].cols = {}
    PROVE  IInv'
<1> DEFINE w == Working(u, s)
<1>1. up[u].pc \in AtTable
  BY DEF AtTable
<1>2. /\ db' = d /\ txn \in {u, None} /\ saved' = IF txn = u THEN saved ELSE d
      /\ txn' = txn /\ UNCHANGED <<fk, opts, faults, history>>
  BY DEF Write
<1>3. /\ w \in Progress /\ up[u].queue # <<>> /\ ~fk[u]
      /\ w.pc \in {"work", "commit"} => w.queue = up[u].queue
      /\ w.pc = "columns" => w.queue # <<>>
      /\ w.pc = "commit" => txn = u
      /\ \/ w.pc \in {"work", "commit"}
         \/ txn # u /\ w.pc \in {"columns", "fkOn", "resolved", "rejected"}
  BY <1>1, Writer, WorkingIs
<1> HIDE DEF w
<1>4. \A t \in Tables : /\ Live(t) \in Names /\ Tmp(t) \in Names
                        /\ Exists(d, Live(t)) <=> Exists(db, Live(t))
                        /\ Exists(d, Tmp(t)) <=> Exists(db, Tmp(t))
  BY NamesApart DEF Exists
<1>5. \A t \in Tables : Stays(db, t) => Stays(d, t)
  BY <1>4 DEF Stays, Exists
<1>6. \A x \in due : x[1] \in Tables
  BY <1>1, Writer
<1>7. CASE txn = u
  <2>1. \A x \in due : <<x[2], x[3]>> \in d[Live(x[1])].cells
    BY <1>4, <1>6, <1>7, InTransaction DEF Holding
  <2>2. \A t \in Tables : ~Exists(d, Tmp(t)) /\ Stays(d, t)
    BY <1>4, <1>5, <1>7, InTransaction
  <2>3. w.pc \in {"work", "commit"} /\ w.queue = up[u].queue /\ Goto(u, w)
    BY <1>3, <1>7 DEF w
  <2> QED
    BY <1>2, <1>3, <1>7, <2>1, <2>2, <2>3, InsideStep
<1>8. CASE txn = None
  <2>1. db = saved /\ txn # u
    BY <1>8, UpgradeAssumption DEF IInv, Transactions, UpgradeAssumption
  <2>2. \A x \in due : <<x[2], x[3]>> \in d[Live(x[1])].cells
    BY <1>4, <1>6, <2>1 DEF IInv, SavedFits, RowsKept
  <2>3. \A t \in Tables : ~Exists(d, Tmp(t)) /\ Stays(d, t)
    BY <1>4, <1>5, <2>1 DEF IInv, SavedFits, NoDebris
  <2>4. /\ w.pc \in {"work", "columns", "fkOn", "resolved", "rejected"} /\ Goto(u, w)
        /\ w.pc \in {"work", "columns"} => w.queue # <<>>
    BY <1>3, <2>1 DEF w
  <2>5. db' = d /\ saved' = d /\ txn' = None /\ UNCHANGED <<fk, opts, faults, history>>
    BY <1>2, <1>8, <2>1
  <2> QED
    BY <1>3, <1>8, <2>2, <2>3, <2>4, <2>5, OutsideStep
<1> QED
  BY <1>2, <1>7, <1>8

\* This holds for a new column,
LEMMA AddColumnStep ==
    ASSUME IInv, NEW u \in Upgraders, NEW c \in Cols, AddColumn(u, c)
    PROVE  IInv'
<1> DEFINE n == Live(Table(u))
           strict == IF c \in Model[Table(u)].strict THEN db[n].strict \cup {c}
                     ELSE db[n].strict
           new == [db[n] EXCEPT !.cols = @ \cup {c}, !.strict = strict]
           d == [db EXCEPT ![n] = new]
           s == [up[u] EXCEPT !.cols = @ \ {c}]
<1>1. /\ up[u].pc = "work" /\ CanAdd(u, c) /\ Goto(u, Working(u, s))
      /\ Write(u, [db EXCEPT
             ![n].cols = @ \cup {c},
             ![n].strict = IF c \in Model[Table(u)].strict THEN @ \cup {c} ELSE @])
  BY DEF AddColumn
<1>2. up[u].pc \in AtTable
  BY <1>1 DEF AtTable
<1>3. n \in Names /\ db[n] \in TableState /\ db \in [Names -> TableState]
  BY <1>2, Writer, NamesApart
<1>4. Write(u, d)
  BY <1>1, <1>3
<1>5. s \in Progress /\ s.queue = up[u].queue
  BY <1>2, Writer DEF Progress
<1>6. strict \in SUBSET Cols /\ db[n].cols \cup {c} \in SUBSET Cols
  BY <1>3 DEF TableState
<1>7. /\ new \in TableState /\ new.cols = db[n].cols \cup {c} /\ new.cells = db[n].cells
  BY <1>3, <1>6 DEF TableState
<1>8. db[n].cols # {}
  BY <1>1, <1>3 DEF CanAdd, IInv, Typed
<1> HIDE DEF new, s
<1>9. d \in [Names -> TableState] /\ d[n] = new /\ \A x \in Names : x # n => d[x] = db[x]
  BY <1>3, <1>7
<1>10. \A x \in Names : db[x].cols = {} => db[x] = NoTable
  BY DEF IInv, Typed
<1> HIDE DEF d, n
<1>11. \A x \in Names : /\ db[x].cols \subseteq d[x].cols /\ d[x].cells = db[x].cells
                        /\ d[x].cols = {} => d[x] = NoTable
                        /\ db[x].cols = {} => d[x].cols = {}
  BY <1>7, <1>8, <1>9, <1>10
<1> QED
  BY <1>1, <1>4, <1>5, <1>9, <1>11, WorkStep

\* for an index that goes,
LEMMA DropIndexStep ==
    ASSUME IInv, NEW u \in Upgraders, NEW i \in Indexes, DropIndex(u, i)
    PROVE  IInv'
<1> DEFINE less(x) == [x EXCEPT !.idx = {e \in @ : e[1] # i}]
           d == [n \in Names |-> less(db[n])]
           s == [up[u] EXCEPT !.drops = @ \ {i}]
<1>1. up[u].pc = "work" /\ Goto(u, Working(u, s)) /\ Write(u, d)
  BY DEF DropIndex
<1>2. up[u].pc \in AtTable
  BY <1>1 DEF AtTable
<1>3. db \in [Names -> TableState]
  BY <1>2, Writer
<1>4. s \in Progress /\ s.queue = up[u].queue
  BY <1>2, Writer DEF Progress
<1>5. ASSUME NEW x \in TableState
      PROVE  /\ less(x) \in TableState /\ less(x).cols = x.cols /\ less(x).cells = x.cells
             /\ x = NoTable => less(x) = NoTable
  <2>1. {e \in x.idx : e[1] # i} \in SUBSET (Indexes \X Cols)
    BY DEF TableState
  <2>2. less(x) \in TableState /\ less(x).cols = x.cols /\ less(x).cells = x.cells
    BY <2>1 DEF TableState
  <2>3. ASSUME x = NoTable PROVE less(x) = NoTable
    <3>1. {e \in x.idx : e[1] # i} = {} /\ x.idx = {}
      BY <2>3 DEF NoTable
    <3>2. less(x) = [x EXCEPT !.idx = {}]
      BY <3>1
    <3>3. [x EXCEPT !.idx = {}] = x
      BY <3>1 DEF TableState
    <3> QED
      BY <2>3, <3>2, <3>3
  <2> QED
    BY <2>2, <2>3
<1> HIDE DEF less, s
<1>6. d \in [Names -> TableState] /\ \A n \in Names : d[n] = less(db[n])
  BY <1>3, <1>5
<1>7. \A n \in Names : db[n].cols = {} => db[n] = NoTable
  BY DEF IInv, Typed
<1> HIDE DEF d
<1>8. \A x \in Names : /\ db[x].cols \subseteq d[x].cols /\ d[x].cells = db[x].cells
                       /\ d[x].cols = {} => d[x] = NoTable
                       /\ db[x].cols = {} => d[x].cols = {}
  BY <1>3, <1>5, <1>6, <1>7
<1> QED
  BY <1>1, <1>4, <1>6, <1>8, WorkStep

\* and for one that comes.
LEMMA CreateIndexStep ==
    ASSUME IInv, NEW u \in Upgraders, NEW i \in Indexes, CreateIndex(u, i)
    PROVE  IInv'
<1> DEFINE n == Live(Table(u))
           more == {e \in Model[Table(u)].idx : e[1] = i}
           new == [db[n] EXCEPT !.idx = @ \cup more]
           d == [db EXCEPT ![n] = new]
           s == [up[u] EXCEPT !.makes = @ \ {i}]
<1>1. /\ up[u].pc = "work" /\ CanIndex(u, i) /\ Goto(u, Working(u, s))
      /\ Write(u, IF \E x \in Names : i \in IndexNames(db[x].idx) THEN db
                  ELSE [db EXCEPT ![n].idx = @ \cup more])
  BY DEF CreateIndex
<1>2. up[u].pc \in AtTable
  BY <1>1 DEF AtTable
<1>3. n \in Names /\ db[n] \in TableState /\ db \in [Names -> TableState]
  BY <1>2, Writer, NamesApart
<1>4. Write(u, db) \/ Write(u, d)
  BY <1>1
<1>5. s \in Progress /\ s.queue = up[u].queue
  BY <1>2, Writer, SMTT(30) DEF Progress
<1>6. more \in SUBSET (Indexes \X Cols)
  BY <1>2, Writer DEF TableState
<1>7. /\ new \in TableState /\ new.cols = db[n].cols /\ new.cells = db[n].cells
  BY <1>3, <1>6 DEF TableState
<1>8. db[n].cols = {} => new = NoTable
  <2> SUFFICES ASSUME db[n].cols = {} PROVE new = NoTable
    OBVIOUS
  <2>1. db[n] = NoTable
    BY <1>3 DEF IInv, Typed
  <2>2. more = {}
    <3> SUFFICES ASSUME NEW e \in more PROVE FALSE
      OBVIOUS
    <3>1. PICK c \in Cols : e = <<i, c>>
      BY <1>6
    <3>2. c \in db[n].cols
      BY <1>1, <3>1 DEF CanIndex
    <3> QED
      BY <3>2
  <2>3. new = [NoTable EXCEPT !.idx = @ \cup {}]
    BY <2>1, <2>2
  <2> QED
    BY <2>3 DEF NoTable
<1> HIDE DEF new, s
<1>9. d \in [Names -> TableState] /\ d[n] = new /\ \A x \in Names : x # n => d[x] = db[x]
  BY <1>3, <1>7
<1>10. \A x \in Names : db[x].cols = {} => db[x] = NoTable
  BY DEF IInv, Typed
<1> HIDE DEF d, n
<1>11. \A x \in Names : /\ db[x].cols \subseteq d[x].cols /\ d[x].cells = db[x].cells
                        /\ d[x].cols = {} => d[x] = NoTable
                        /\ db[x].cols = {} => d[x].cols = {}
  BY <1>7, <1>8, <1>9, <1>10
<1>12. CASE Write(u, d)
  BY <1>1, <1>5, <1>9, <1>11, <1>12, WorkStep
<1>13. CASE Write(u, db)
  BY <1>1, <1>3, <1>5, <1>10, <1>13, WorkStep
<1> QED
  BY <1>4, <1>12, <1>13

\* A commit shows to everybody what the transaction has in its tables.
LEMMA CommitStep ==
    ASSUME IInv, NEW u \in Upgraders, Commit(u)
    PROVE  IInv'
<1> DEFINE s == NextTable(up[u])
<1>1. /\ up[u].pc = "commit" /\ txn = u /\ txn' = None /\ saved' = db /\ db' = db
      /\ UNCHANGED <<fk, opts, faults, history>> /\ Goto(u, s)
  BY DEF Commit
<1>2. up[u].pc \in AtTable
  BY <1>1 DEF AtTable
<1>3. /\ s \in Progress /\ s.pc \in {"columns", "fkOn", "resolved", "rejected"}
      /\ s.pc = "columns" => s.queue # <<>>
  BY <1>2, Writer, NextTableIs
<1> HIDE DEF s
<1>4. /\ \A x \in due : <<x[2], x[3]>> \in db[Live(x[1])].cells
      /\ \A t \in Tables : ~Exists(db, Tmp(t)) /\ Stays(db, t)
  BY <1>1, InTransaction DEF Holding
<1>5. /\ up' \in [Upgraders -> Progress] /\ up'[u] = s
      /\ \A v \in Upgraders \ {u} : up'[v] = up[v]
  BY <1>1, <1>3 DEF IInv, Typed, TypeOK, Goto
<1>6. fk' = fk /\ opts' = opts /\ faults' = faults /\ kept' = kept /\ due' = due
  BY <1>1 DEF history
<1>7. None \notin Upgraders
  BY UpgradeAssumption DEF UpgradeAssumption
<1>8. \A v \in Upgraders \ {u} :
          /\ Recreating(v)' = Recreating(v) /\ Table(v)' = Table(v)
          /\ ~Recreating(v) /\ up[v].pc # "commit"
  BY <1>1, <1>5 DEF IInv, Transactions, Recreating, Table
<1>9. ~Recreating(u)'
  BY <1>3, <1>5 DEF Recreating
<1>10. Typed'
  BY <1>1, <1>3, <1>5, <1>6 DEF IInv, Typed, TypeOK, AtTable
<1>11. Transactions'
  BY <1>1, <1>3, <1>5, <1>7, <1>8, <1>9 DEF Transactions
<1>12. HistoryFits'
  BY <1>6 DEF IInv, HistoryFits
<1>13. SeenFits'
  BY <1>3, <1>5, <1>6, <1>8, <1>9 DEF IInv, SeenFits
<1>14. SavedFits'
  BY <1>1, <1>4, <1>6 DEF SavedFits, RowsKept, NoDebris, Exists, Stays
<1>15. OpenFits'
  BY <1>1, <1>7 DEF OpenFits
<1>16. ForeignKeysOffMeanwhile'
  <2>1. ~fk[u]
    BY <1>2, Writer
  <2> QED
    BY <1>5, <1>6, <2>1 DEF IInv, ForeignKeysOffMeanwhile
<1> QED
  BY <1>10, <1>11, <1>12, <1>13, <1>14, <1>15, <1>16 DEF IInv

\* A rollback and a crash undo it.
LEMMA RolledBackStep ==
    ASSUME IInv, NEW u \in Upgraders, RolledBack(u)
    PROVE  IInv'
<1>1. /\ up[u] \in Progress /\ fk \in [Upgraders -> BOOLEAN] /\ faults \in 0..MaxFaults
  BY DEF IInv, Typed, TypeOK
<1>2. Failed(up[u]) \in Progress /\ Failed(up[u]).pc \in {"fkOn", "resolved", "rejected"}
  BY <1>1, FailedIs
<1>3. /\ Goto(u, Failed(up[u])) /\ UNCHANGED <<saved, opts, history>>
      /\ fk' = fk /\ faults' = faults
      /\ IF txn = u THEN db' = saved /\ txn' = None ELSE UNCHANGED <<db, txn>>
  BY DEF RolledBack
<1> QED
  BY <1>1, <1>2, <1>3, UndoneStep

\* A crash loses the upgrader's progress and what it has not committed.
LEMMA CrashStep ==
    ASSUME IInv, NEW u \in Upgraders, Crash(u)
    PROVE  IInv'
<1>1. /\ Idle \in Progress /\ Idle.pc = "idle" /\ fk \in [Upgraders -> BOOLEAN]
      /\ faults \in 0..MaxFaults /\ MaxFaults \in Nat
  BY NoTableIsTable, UpgradeAssumption
     DEF IInv, Typed, TypeOK, Idle, Progress, UpgradeAssumption
<1>2. /\ Goto(u, Idle) /\ UNCHANGED <<saved, opts, history>>
      /\ fk' = [fk EXCEPT ![u] = u \in Enforcing]
      /\ faults < MaxFaults /\ faults' = faults + 1
      /\ IF txn = u THEN db' = saved /\ txn' = None ELSE UNCHANGED <<db, txn>>
  BY DEF Crash
<1>3. faults' \in 0..MaxFaults
  BY <1>1, <1>2
<1>4. fk' \in [Upgraders -> BOOLEAN] /\ \A v \in Upgraders \ {u} : fk'[v] = fk[v]
  BY <1>1, <1>2
<1> QED
  BY <1>1, <1>2, <1>3, <1>4, UndoneStep

\* What others write is in the columns that stay, and stays from then on.
LEMMA InsertStep ==
    ASSUME IInv, NEW t \in Tables, NEW r \in Rows, Insert(t, r)
    PROVE  IInv'
<1> DEFINE n == Live(t)
           s == db[n]
           new == [s EXCEPT !.cells = @ \cup ({r} \X s.cols)]
<1>1. /\ txn = None /\ s # NoTable /\ db' = [db EXCEPT ![n] = new] /\ saved' = db'
      /\ due' = due \cup ({t} \X {r} \X (s.cols \cap kept[t]))
      /\ UNCHANGED <<txn, fk, up, opts, faults, kept>>
  BY DEF Insert
<1>2. /\ n \in Names /\ s \in TableState /\ db \in [Names -> TableState]
      /\ due \subseteq Tables \X Rows \X Cols /\ kept \in [Tables -> SUBSET Cols]
  BY NamesApart DEF IInv, Typed, TypeOK
<1>3. new \in TableState /\ new.cols = s.cols /\ new.cells = s.cells \cup ({r} \X s.cols)
  <2>1. s.cells \cup ({r} \X s.cols) \in SUBSET (Rows \X Cols)
    BY <1>2 DEF TableState
  <2> QED
    BY <1>2, <2>1 DEF TableState
<1>4. s.cols # {} /\ db = saved
  BY <1>1, <1>2 DEF IInv, Typed, Transactions
<1> HIDE DEF new
<1>5. /\ db' \in [Names -> TableState] /\ db'[n] = new
      /\ \A x \in Names : x # n => db'[x] = db[x]
      /\ \A x \in Names : db'[x].cols = db[x].cols
  BY <1>1, <1>2, <1>3
<1>6. \A x \in Names : db'[x].cols = {} => db'[x] = NoTable
  BY <1>3, <1>4, <1>5 DEF IInv, Typed
<1>7. \A x \in Tables : /\ Live(x) \in Names /\ Tmp(x) \in Names
                        /\ Stays(db, x)' = Stays(saved, x) /\ Exists(db', Tmp(x)) = Exists(db, Tmp(x))
                        /\ Stays(saved, x)' = Stays(saved, x)
  BY <1>1, <1>4, <1>5, NamesApart DEF Stays, Exists
<1>8. /\ due' \subseteq Tables \X Rows \X Cols
      /\ \A x \in due' : \/ x \in due
                         \/ x = <<t, r, x[3]>> /\ x[3] \in s.cols \cap kept[t]
  <2>1. s.cols \subseteq Cols
    BY <1>2 DEF TableState
  <2>2. ASSUME NEW x \in {t} \X {r} \X (s.cols \cap kept[t])
        PROVE  /\ x = <<t, r, x[3]>> /\ x[3] \in s.cols \cap kept[t]
               /\ x \in Tables \X Rows \X Cols
    BY <2>1
  <2> QED
    BY <1>1, <1>2, <2>2
<1>9. \A u \in Upgraders : /\ Recreating(u)' = Recreating(u) /\ Table(u)' = Table(u)
                           /\ txn # u
  BY <1>1, UpgradeAssumption DEF Recreating, Table, UpgradeAssumption
<1>10. Typed'
  BY <1>1, <1>5, <1>6, <1>8 DEF IInv, Typed, TypeOK
<1>11. Transactions'
  BY <1>1, <1>9 DEF IInv, Transactions
<1>12. HistoryFits'
  BY <1>1, <1>8 DEF IInv, HistoryFits
<1>13. SeenFits'
  BY <1>1, <1>9 DEF IInv, SeenFits
<1>14. SavedFits'
  <2>1. RowsKept'
    <3> SUFFICES ASSUME NEW x \in due' PROVE <<x[2], x[3]>> \in db'[Live(x[1])].cells
      BY <1>1 DEF RowsKept
    <3>1. CASE x \in due
      <4>1. x[1] \in Tables /\ <<x[2], x[3]>> \in db[Live(x[1])].cells
        BY <1>2, <1>4, <3>1 DEF IInv, SavedFits, RowsKept
      <4>2. Live(x[1]) \in Names
        BY <4>1, NamesApart
      <4> QED
        BY <1>3, <1>5, <4>1, <4>2
    <3>2. CASE x = <<t, r, x[3]>> /\ x[3] \in s.cols
      BY <1>3, <1>5, <3>2
    <3> QED
      BY <1>8, <3>1, <3>2
  <2>2. NoDebris'
    BY <1>1, <1>4, <1>7 DEF IInv, SavedFits, NoDebris
  <2> QED
    BY <1>7, <2>1, <2>2 DEF IInv, SavedFits
<1>15. OpenFits'
  BY <1>1, <1>9 DEF OpenFits
<1>16. ForeignKeysOffMeanwhile'
  BY <1>1 DEF IInv, ForeignKeysOffMeanwhile
<1> QED
  BY <1>10, <1>11, <1>12, <1>13, <1>14, <1>15, <1>16 DEF IInv

-----------------------------------------------------------------------------
\* The theorems

\* The invariant holds before any upgrade,
LEMMA InitInv == Init => IInv
<1> SUFFICES ASSUME Init PROVE IInv
  OBVIOUS
<1>1. /\ db \in Starts /\ saved = db /\ txn = None /\ opts \in Options /\ faults = 0
      /\ fk = [u \in Upgraders |-> u \in Enforcing] /\ up = [u \in Upgraders |-> Idle]
      /\ kept = [t \in Tables |->
             IF ~Exists(db, Live(t)) THEN Model[t].cols
             ELSE IF opts.keep THEN db[Live(t)].cols
             ELSE db[Live(t)].cols \cap Model[t].cols]
      /\ due = {x \in Tables \X Rows \X Cols :
                    x[3] \in kept[x[1]] /\ <<x[2], x[3]>> \in db[Live(x[1])].cells}
  BY DEF Init
<1>2. /\ db \in [Names -> TableState] /\ Model \in [Tables -> TableState]
      /\ \A t \in Tables : db[Tmp(t)] = NoTable
      /\ \A n \in Names : db[n].cols = {} => db[n] = NoTable
      /\ opts \in [keep : BOOLEAN, force : BOOLEAN] /\ MaxFaults \in Nat
      /\ None \notin Upgraders
  BY <1>1, UpgradeAssumption DEF UpgradeAssumption
<1>3. Idle \in Progress /\ Idle.pc = "idle"
  BY NoTableIsTable DEF Idle, Progress
<1>4. \A t \in Tables : db[Live(t)] \in TableState /\ Model[t] \in TableState
  BY <1>2, NamesApart
<1>5. kept \in [Tables -> SUBSET Cols]
  BY <1>1, <1>4 DEF TableState
<1>6. \A t \in Tables : /\ Stays(db, t)
                        /\ opts.keep \/ kept[t] \subseteq Model[t].cols
  BY <1>1, <1>2 DEF Stays
<1>7. \A u \in Upgraders : up[u].pc = "idle" /\ ~Recreating(u) /\ txn # u
  BY <1>1, <1>2, <1>3 DEF Recreating
<1>8. Typed
  BY <1>1, <1>2, <1>3, <1>5 DEF Typed, TypeOK, AtTable
<1>9. Transactions
  BY <1>1, <1>7 DEF Transactions
<1>10. HistoryFits
  BY <1>1, <1>6 DEF HistoryFits
<1>11. SeenFits
  BY <1>7 DEF SeenFits
<1>12. SavedFits
  BY <1>1, <1>2, <1>6, NoTableIsTable DEF SavedFits, RowsKept, NoDebris, Exists
<1>13. OpenFits
  BY <1>7 DEF OpenFits
<1>14. ForeignKeysOffMeanwhile
  BY <1>7 DEF ForeignKeysOffMeanwhile, AtTable
<1> QED
  BY <1>8, <1>9, <1>10, <1>11, <1>12, <1>13, <1>14 DEF IInv

\* is kept by every failure,
LEMMA FailureStep ==
    ASSUME IInv, NEW u \in Upgraders, Impossible(u) \/ Fault(u)
    PROVE  IInv'
<1>1. faults \in 0..MaxFaults /\ MaxFaults \in Nat
  BY UpgradeAssumption DEF IInv, Typed, TypeOK, UpgradeAssumption
<1>2. CASE Impossible(u)
  BY <1>1, <1>2, RefuseStep DEF Impossible
<1>3. CASE Fault(u)
  <2>1. faults' \in 0..MaxFaults
    BY <1>1, <1>3 DEF Fault
  <2> QED
    BY <1>3, <2>1, RefuseStep DEF Fault
<1> QED
  BY <1>2, <1>3

\* by a step that changes nothing,
LEMMA StutterStep == IInv /\ UNCHANGED vars => IInv'
<1> SUFFICES ASSUME IInv, UNCHANGED vars PROVE IInv'
  OBVIOUS
<1>1. /\ db' = db /\ saved' = saved /\ txn' = txn /\ fk' = fk /\ up' = up /\ opts' = opts
      /\ faults' = faults /\ kept' = kept /\ due' = due
  BY DEF vars, fileVars, history
<1>2. /\ \A u \in Upgraders : Recreating(u)' = Recreating(u) /\ Table(u)' = Table(u)
      /\ \A u \in Upgraders, t \in Tables : Holding(u, t)' = Holding(u, t)
      /\ \A t \in Tables : Stays(db, t)' = Stays(db, t) /\ Stays(saved, t)' = Stays(saved, t)
  BY <1>1 DEF Recreating, Table, Holding, Stays, Exists
<1>3. Typed' /\ Transactions' /\ HistoryFits' /\ SeenFits' /\ ForeignKeysOffMeanwhile'
  BY <1>1, <1>2 DEF IInv, Typed, TypeOK, Transactions, HistoryFits, SeenFits,
                    ForeignKeysOffMeanwhile
<1>4. SavedFits'
  BY <1>1, <1>2 DEF IInv, SavedFits, RowsKept, NoDebris, Exists
<1>5. OpenFits'
  <2>1. \A x \in due : x[1] \in Tables
    BY DEF IInv, Typed, TypeOK
  <2> QED
    BY <1>1, <1>2, <2>1 DEF IInv, OpenFits, Exists
<1> QED
  BY <1>3, <1>4, <1>5 DEF IInv

\* and so by every step.
LEMMA NextInv == IInv /\ [Next]_vars => IInv'
<1> SUFFICES ASSUME IInv, [Next]_vars PROVE IInv'
  OBVIOUS
<1>1. CASE \E u \in Upgraders : UpgradeTables(u) \/ Crash(u) \/ Fault(u)
  BY <1>1, UpgradeTablesStep, CrashStep, FailureStep
<1>2. ASSUME NEW u \in Upgraders, Statement(u) PROVE IInv'
  <2>1. CASE ForeignKeysOff(u) \/ ReadColumns(u) \/ ReadRest(u) \/ ForeignKeysOn(u)
    BY <2>1, ForeignKeysOffStep, ReadColumnsStep, ReadRestStep, ForeignKeysOnStep
  <2>2. CASE Begin(u) \/ Rename(u) \/ Create(u) \/ Copy(u) \/ DropOld(u)
    BY <2>2, BeginStep, RenameStep, CreateStep, CopyStep, DropOldStep
  <2>3. CASE Commit(u) \/ RolledBack(u) \/ Impossible(u)
    BY <2>3, CommitStep, RolledBackStep, FailureStep
  <2>4. CASE \E c \in Cols : AddColumn(u, c)
    BY <2>4, AddColumnStep
  <2>5. CASE \E i \in Indexes : DropIndex(u, i) \/ CreateIndex(u, i)
    BY <2>5, DropIndexStep, CreateIndexStep
  <2> QED
    BY <1>2, <2>1, <2>2, <2>3, <2>4, <2>5 DEF Statement
<1>3. CASE \E t \in Tables, r \in Rows : Insert(t, r)
  BY <1>3, InsertStep
<1>4. CASE UNCHANGED vars
  BY <1>4, StutterStep
<1> QED
  BY <1>1, <1>2, <1>3, <1>4 DEF Next

\* No content of a column that stays is ever lost to others, whichever tables
\* are upgraded how by how many processes, beside writers, and whatever is
\* refused or crashes: a table is recreated in a transaction of its own, with
\* foreign keys off, from a catalog that shows at least the columns that stay.
THEOREM UpgradesLoseNothing == Spec => []RowsKept
<1>1. IInv => RowsKept
  BY DEF IInv, SavedFits
<1> QED
  BY InitInv, NextInv, <1>1, PTL DEF Spec

\* The table with the temporary name is never seen outside of the transaction
\* that recreates a table, so no crash leaves one to later upgrades.
THEOREM UpgradesLeaveNoDebris == Spec => []NoDebris
<1>1. IInv => NoDebris
  BY DEF IInv, SavedFits
<1> QED
  BY InitInv, NextInv, <1>1, PTL DEF Spec

\* Every reachable state of an upgrade is well typed.
THEOREM UpgradeTypeCorrect == Spec => []TypeOK
<1>1. IInv => TypeOK
  BY DEF IInv, Typed
<1> QED
  BY InitInv, NextInv, <1>1, PTL DEF Spec

-----------------------------------------------------------------------------
\* Foreign keys

\* An upgrader with progress s knows whether foreign keys were enforced on its
\* connection, on which f now tells it: they are as they were while it rests, and
\* off in between.
Known(u, s, f) ==
    IF s.pc \in AtRest \cup {"fkOff"} THEN
        /\ f = (u \in Enforcing)
        /\ s.pc = "fkOff" => f /\ s.was
    ELSE /\ ~f /\ s.was = (u \in Enforcing)
         /\ s.pc = "fkOn" => s.was

ForeignKeysKnown == \A u \in Upgraders : Known(u, up[u], fk[u])

\* Going on after a table, after an error or with the work at a table is to
\* remember it.
LEMMA FinishedKnows ==
    ASSUME NEW u \in Upgraders, NEW s \in Progress, NEW f \in BOOLEAN, f = (u \in Enforcing)
    PROVE  Known(u, Finished(s), f)
BY FinishedIs DEF Known, AtRest

\* The next table, or the end of the queue,
LEMMA NextTableKnows ==
    ASSUME NEW u \in Upgraders, NEW s \in Progress, s.queue # <<>>,
           NEW f \in BOOLEAN, ~f, s.was = (u \in Enforcing)
    PROVE  Known(u, NextTable(s), f)
<1> DEFINE q == Tail(s.queue)
           n == [Idle EXCEPT !.queue = q, !.was = s.was]
<1>1. q \in Seq(Tables) /\ s.was \in BOOLEAN
  BY HeadTailProperties DEF Progress
<1>2. Idle \in Progress
  BY NoTableIsTable DEF Idle, Progress
<1>3. n \in Progress /\ n.queue = q /\ n.was = s.was
  BY <1>1, <1>2 DEF Progress
<1>4. NextTable(s) = IF q # <<>> THEN [n EXCEPT !.pc = "columns"]
                     ELSE IF s.was THEN [n EXCEPT !.pc = "fkOn"] ELSE Finished(n)
  BY DEF NextTable
<1> HIDE DEF q, n
<1>5. CASE q # <<>>
  <2>1. NextTable(s).pc = "columns" /\ NextTable(s).was = s.was
    BY <1>3, <1>4, <1>5 DEF Progress
  <2> QED
    BY <2>1 DEF Known, AtRest
<1>6. CASE q = <<>> /\ s.was
  <2>1. NextTable(s).pc = "fkOn" /\ NextTable(s).was = s.was
    BY <1>3, <1>4, <1>6 DEF Progress
  <2> QED
    BY <1>6, <2>1 DEF Known, AtRest
<1>7. CASE q = <<>> /\ ~s.was
  <2>1. f = (u \in Enforcing)
    BY <1>1, <1>7
  <2>2. NextTable(s) = Finished(n)
    BY <1>4, <1>7
  <2> QED
    BY <1>3, <2>1, <2>2, FinishedKnows
<1> QED
  BY <1>5, <1>6, <1>7

\* an error,
LEMMA FailedKnows ==
    ASSUME NEW u \in Upgraders, NEW s \in Progress,
           NEW f \in BOOLEAN, ~f, s.was = (u \in Enforcing)
    PROVE  Known(u, Failed(s), f)
<1> DEFINE n == [Idle EXCEPT !.was = s.was, !.err = TRUE]
<1>1. Idle \in Progress /\ s.was \in BOOLEAN
  BY NoTableIsTable DEF Idle, Progress
<1>2. n \in Progress /\ n.was = s.was
  BY <1>1 DEF Progress
<1>3. Failed(s) = IF s.was THEN [n EXCEPT !.pc = "fkOn"] ELSE Finished(n)
  BY DEF Failed
<1> HIDE DEF n
<1>4. CASE s.was
  <2>1. Failed(s).pc = "fkOn" /\ Failed(s).was = s.was
    BY <1>2, <1>3, <1>4 DEF Progress
  <2> QED
    BY <1>4, <2>1 DEF Known, AtRest
<1>5. CASE ~s.was
  <2>1. f = (u \in Enforcing)
    BY <1>1, <1>5
  <2>2. Failed(s) = Finished(n)
    BY <1>3, <1>5
  <2> QED
    BY <1>2, <2>1, <2>2, FinishedKnows
<1> QED
  BY <1>4, <1>5

\* and the end of the work at a table remember it.
LEMMA WorkingKnows ==
    ASSUME NEW u \in Upgraders, NEW s \in Progress, s.queue # <<>>,
           NEW f \in BOOLEAN, ~f, s.was = (u \in Enforcing)
    PROVE  Known(u, Working(u, s), f)
<1>1. CASE s.cols # {} \/ s.drops # {} \/ s.makes # {}
  <2>1. Working(u, s).pc = "work" /\ Working(u, s).was = s.was
    BY <1>1 DEF Working, Progress
  <2> QED
    BY <2>1 DEF Known, AtRest
<1>2. CASE ~(s.cols # {} \/ s.drops # {} \/ s.makes # {}) /\ txn = u
  <2>1. Working(u, s).pc = "commit" /\ Working(u, s).was = s.was
    BY <1>2 DEF Working, Progress
  <2> QED
    BY <2>1 DEF Known, AtRest
<1>3. CASE ~(s.cols # {} \/ s.drops # {} \/ s.makes # {}) /\ txn # u
  BY <1>3, NextTableKnows DEF Working
<1> QED
  BY <1>1, <1>2, <1>3

\* A step of u is all there is to look at.
LEMMA KnownStep ==
    ASSUME IInv, ForeignKeysKnown, NEW u \in Upgraders, NEW s, Goto(u, s),
           \A v \in Upgraders \ {u} : fk'[v] = fk[v], Known(u, s, fk'[u])
    PROVE  ForeignKeysKnown'
<1>1. up'[u] = s /\ \A v \in Upgraders \ {u} : up'[v] = up[v]
  BY DEF IInv, Typed, TypeOK, Goto
<1>2. \A v \in Upgraders : Known(v, up'[v], fk'[v])
  BY <1>1 DEF ForeignKeysKnown
<1> QED
  BY <1>2 DEF ForeignKeysKnown, Known

\* What is known of an upgrader that is under way.
LEMMA UnderWay ==
    ASSUME IInv, ForeignKeysKnown, NEW u \in Upgraders,
           up[u].pc \notin AtRest \cup {"fkOff"}
    PROVE  /\ up[u] \in Progress /\ fk[u] \in BOOLEAN /\ ~fk[u]
           /\ up[u].was = (u \in Enforcing)
           /\ up[u].pc = "fkOn" => up[u].was
           /\ up[u].pc \in AtTable => up[u].queue # <<>>
BY DEF IInv, Typed, TypeOK, ForeignKeysKnown, Known

\* The steps that leave the progress of u where it remembers.
LEMMA KnownOnTheWay ==
    ASSUME IInv, ForeignKeysKnown, NEW u \in Upgraders, UNCHANGED fk,
           up[u].pc \in AtTable,
           NEW s \in Progress, s.was = up[u].was, s.queue = up[u].queue,
           \/ Goto(u, s) /\ s.pc \in AtTable \cup {"rollback"}
           \/ Goto(u, Working(u, s)) \/ Goto(u, NextTable(s))
    PROVE  ForeignKeysKnown'
<1>1. /\ fk[u] \in BOOLEAN /\ ~fk[u] /\ s.was = (u \in Enforcing) /\ s.queue # <<>>
      /\ fk' = fk
  BY UnderWay DEF AtTable, AtRest
<1>2. Known(u, Working(u, s), fk[u]) /\ Known(u, NextTable(s), fk[u])
  BY <1>1, WorkingKnows, NextTableKnows
<1>3. s.pc \in AtTable \cup {"rollback"} => Known(u, s, fk[u])
  BY <1>1 DEF Known, AtTable, AtRest
<1> QED
  BY <1>1, <1>2, <1>3, KnownStep

\* Choosing what to do with a table is one of them.
LEMMA ChoosingKnows ==
    ASSUME IInv, ForeignKeysKnown, NEW u \in Upgraders, up[u].pc \in {"columns", "rest"},
           NEW x \in TableState, UpgradeTable(u, x), UNCHANGED fk
    PROVE  ForeignKeysKnown'
<1> DEFINE t == Table(u)
           names == IndexNames(Model[t].idx)
           old == Outdated(t, x)
<1>1. up[u] \in Progress /\ up[u].pc \in AtTable
  BY DEF IInv, Typed, TypeOK, AtTable
<1>2. /\ names \in SUBSET Indexes /\ old \in SUBSET Indexes
      /\ names \ (IndexNames(x.idx) \ old) \in SUBSET Indexes
      /\ Model[t].cols \ x.cols \in SUBSET Cols
  BY <1>1, Writer DEF IndexNames, Outdated, TableState
<1> HIDE DEF names, old, t
<1>3. CASE Goto(u, NextTable(up[u]))
  BY <1>1, <1>3, KnownOnTheWay
<1>4. CASE Goto(u, [up[u] EXCEPT !.pc = "create", !.seen = x, !.makes = names])
  <2> DEFINE n == [up[u] EXCEPT !.pc = "create", !.seen = x, !.makes = names]
  <2>1. n \in Progress /\ n.pc = "create" /\ n.was = up[u].was /\ n.queue = up[u].queue
    BY <1>1, <1>2 DEF Progress
  <2> HIDE DEF n
  <2> QED
    BY <1>1, <1>4, <2>1, KnownOnTheWay DEF n, AtTable
<1>5. CASE Goto(u, Working(u, [up[u] EXCEPT
             !.cols = Model[t].cols \ x.cols, !.drops = old,
             !.makes = names \ (IndexNames(x.idx) \ old)]))
  <2> DEFINE n == [up[u] EXCEPT !.cols = Model[t].cols \ x.cols, !.drops = old,
                                !.makes = names \ (IndexNames(x.idx) \ old)]
  <2>1. n \in Progress /\ n.was = up[u].was /\ n.queue = up[u].queue
    BY <1>1, <1>2 DEF Progress
  <2>2. Goto(u, Working(u, n))
    BY <1>5
  <2> HIDE DEF n
  <2> QED
    BY <1>1, <2>1, <2>2, KnownOnTheWay
<1>6. CASE Goto(u, [up[u] EXCEPT !.pc = "begin", !.seen = x, !.makes = names])
  <2> DEFINE n == [up[u] EXCEPT !.pc = "begin", !.seen = x, !.makes = names]
  <2>1. n \in Progress /\ n.pc = "begin" /\ n.was = up[u].was /\ n.queue = up[u].queue
    BY <1>1, <1>2 DEF Progress
  <2> HIDE DEF n
  <2> QED
    BY <1>1, <1>6, <2>1, KnownOnTheWay DEF n, AtTable
<1> QED
  BY <1>3, <1>4, <1>5, <1>6 DEF UpgradeTable, names, old, t

\* So are the statements at a table.
LEMMA StatementKnows ==
    ASSUME IInv, ForeignKeysKnown, NEW u \in Upgraders,
           \/ Begin(u) \/ Rename(u) \/ Create(u) \/ Copy(u) \/ DropOld(u) \/ Commit(u)
           \/ \E c \in Cols : AddColumn(u, c)
           \/ \E i \in Indexes : DropIndex(u, i) \/ CreateIndex(u, i)
    PROVE  ForeignKeysKnown'
<1>1. UNCHANGED fk /\ up[u].pc \in AtTable
  BY DEF Begin, Rename, Create, Copy, DropOld, Commit, AddColumn, DropIndex, CreateIndex,
         Write, AtTable
<1>2. up[u] \in Progress
  BY DEF IInv, Typed, TypeOK
<1>3. /\ \A p \in AtTable : /\ [up[u] EXCEPT !.pc = p] \in Progress
                            /\ [up[u] EXCEPT !.pc = p].pc = p
                            /\ [up[u] EXCEPT !.pc = p].was = up[u].was
                            /\ [up[u] EXCEPT !.pc = p].queue = up[u].queue
      /\ \A c \in Cols : /\ [up[u] EXCEPT !.cols = @ \ {c}] \in Progress
                         /\ [up[u] EXCEPT !.cols = @ \ {c}].was = up[u].was
                         /\ [up[u] EXCEPT !.cols = @ \ {c}].queue = up[u].queue
      /\ \A i \in Indexes : /\ [up[u] EXCEPT !.drops = @ \ {i}] \in Progress
                            /\ [up[u] EXCEPT !.drops = @ \ {i}].was = up[u].was
                            /\ [up[u] EXCEPT !.drops = @ \ {i}].queue = up[u].queue
                            /\ [up[u] EXCEPT !.makes = @ \ {i}] \in Progress
                            /\ [up[u] EXCEPT !.makes = @ \ {i}].was = up[u].was
                            /\ [up[u] EXCEPT !.makes = @ \ {i}].queue = up[u].queue
  BY <1>2 DEF Progress, AtTable
<1>4. CASE Begin(u) \/ Rename(u) \/ Copy(u)
  <2>1. \E p \in AtTable : Goto(u, [up[u] EXCEPT !.pc = p])
    BY <1>4 DEF Begin, Rename, Copy, AtTable
  <2>2. PICK p \in AtTable : Goto(u, [up[u] EXCEPT !.pc = p])
    BY <2>1
  <2> DEFINE s == [up[u] EXCEPT !.pc = p]
  <2>3. s \in Progress /\ s.pc \in AtTable /\ s.was = up[u].was /\ s.queue = up[u].queue
    BY <1>3
  <2>4. Goto(u, s)
    BY <2>2
  <2> HIDE DEF s
  <2> QED
    BY <1>1, <2>3, <2>4, KnownOnTheWay
<1>5. CASE Create(u)
  <2>1. Goto(u, [up[u] EXCEPT !.pc = "copy"]) \/ Goto(u, Working(u, up[u]))
    BY <1>5 DEF Create
  <2>2. CASE Goto(u, Working(u, up[u]))
    BY <1>1, <1>2, <2>2, KnownOnTheWay
  <2>3. CASE Goto(u, [up[u] EXCEPT !.pc = "copy"])
    <3> DEFINE s == [up[u] EXCEPT !.pc = "copy"]
    <3>1. "copy" \in AtTable
      BY DEF AtTable
    <3>2. s \in Progress /\ s.pc \in AtTable /\ s.was = up[u].was /\ s.queue = up[u].queue
      BY <1>3, <3>1
    <3>3. Goto(u, s)
      BY <2>3
    <3> HIDE DEF s
    <3> QED
      BY <1>1, <3>2, <3>3, KnownOnTheWay
  <2> QED
    BY <2>1, <2>2, <2>3
<1>6. CASE DropOld(u) \/ Commit(u)
  <2>1. Goto(u, NextTable(up[u])) \/ Goto(u, Working(u, up[u]))
    BY <1>6 DEF DropOld, Commit
  <2> QED
    BY <1>1, <1>2, <2>1, KnownOnTheWay
<1>7. ASSUME NEW c \in Cols, AddColumn(u, c) PROVE ForeignKeysKnown'
  <2>1. Goto(u, Working(u, [up[u] EXCEPT !.cols = @ \ {c}]))
    BY <1>7 DEF AddColumn
  <2> QED
    BY <1>1, <1>3, <2>1, KnownOnTheWay
<1>8. ASSUME NEW i \in Indexes, DropIndex(u, i) PROVE ForeignKeysKnown'
  <2>1. Goto(u, Working(u, [up[u] EXCEPT !.drops = @ \ {i}]))
    BY <1>8 DEF DropIndex
  <2> QED
    BY <1>1, <1>3, <2>1, KnownOnTheWay
<1>9. ASSUME NEW i \in Indexes, CreateIndex(u, i) PROVE ForeignKeysKnown'
  <2>1. Goto(u, Working(u, [up[u] EXCEPT !.makes = @ \ {i}]))
    BY <1>9 DEF CreateIndex
  <2> QED
    BY <1>1, <1>3, <2>1, KnownOnTheWay
<1> QED
  BY <1>4, <1>5, <1>6, <1>7, <1>8, <1>9

\* And so are all steps of an upgrade, unless a PRAGMA is refused.
LEMMA ForeignKeysStep ==
    ASSUME "pragma" \notin Faults, IInv, ForeignKeysKnown, [Next]_vars
    PROVE  ForeignKeysKnown'
<1>1. ASSUME NEW u \in Upgraders, UpgradeTables(u) PROVE ForeignKeysKnown'
  <2> DEFINE p == IF fk[u] THEN "fkOff" ELSE "columns"
             s == [Idle EXCEPT !.queue = Order, !.was = fk[u], !.pc = p]
  <2>1. Goto(u, s) /\ fk' = fk /\ up[u].pc \in AtRest
    BY <1>1 DEF UpgradeTables, AtRest
  <2>2. fk[u] = (u \in Enforcing) /\ fk[u] \in BOOLEAN
    BY <2>1 DEF ForeignKeysKnown, Known, IInv, Typed, TypeOK
  <2>3. Idle \in Progress
    BY NoTableIsTable DEF Idle, Progress
  <2>4. s.pc = p /\ s.was = fk[u]
    BY <2>3 DEF Progress
  <2> HIDE DEF s
  <2>5. Known(u, s, fk[u])
    BY <2>2, <2>4 DEF Known, AtRest
  <2> QED
    BY <2>1, <2>5, KnownStep
<1>2. ASSUME NEW u \in Upgraders, Crash(u) PROVE ForeignKeysKnown'
  <2>1. /\ Goto(u, Idle) /\ fk' = [fk EXCEPT ![u] = u \in Enforcing]
        /\ fk \in [Upgraders -> BOOLEAN]
    BY <1>2 DEF Crash, IInv, Typed, TypeOK
  <2>2. Known(u, Idle, fk'[u])
    BY <2>1 DEF Known, AtRest, Idle
  <2> QED
    BY <2>1, <2>2, KnownStep
<1>3. ASSUME NEW u \in Upgraders, Impossible(u) \/ Fault(u) PROVE ForeignKeysKnown'
  <2>1. Refuse(u) /\ up[u].pc \notin {"fkOff", "fkOn"} \cup AtRest /\ fk' = fk
    BY <1>3 DEF Impossible, Fault, Refuse, AtRest
  <2>2. /\ up[u] \in Progress /\ fk[u] \in BOOLEAN /\ ~fk[u]
        /\ up[u].was = (u \in Enforcing)
    BY <2>1, UnderWay
  <2>3. CASE Goto(u, [up[u] EXCEPT !.pc = "rollback"])
    <3> DEFINE s == [up[u] EXCEPT !.pc = "rollback"]
    <3>1. s.pc = "rollback" /\ s.was = up[u].was
      BY <2>2 DEF Progress
    <3> HIDE DEF s
    <3>2. Known(u, s, fk'[u])
      BY <2>1, <2>2, <3>1 DEF Known, AtRest
    <3> QED
      BY <2>1, <2>3, <3>2, KnownStep DEF s
  <2>4. CASE Goto(u, Failed(up[u]))
    BY <2>1, <2>2, <2>4, FailedKnows, KnownStep
  <2> QED
    BY <2>1, <2>3, <2>4 DEF Refuse
<1>4. ASSUME NEW u \in Upgraders, ForeignKeysOff(u) PROVE ForeignKeysKnown'
  <2> DEFINE s == [up[u] EXCEPT !.pc = "columns"]
  <2>1. /\ Goto(u, s) /\ fk' = [fk EXCEPT ![u] = FALSE] /\ up[u].pc = "fkOff"
        /\ fk \in [Upgraders -> BOOLEAN] /\ up[u] \in Progress
    BY <1>4 DEF ForeignKeysOff, IInv, Typed, TypeOK
  <2>2. u \in Enforcing /\ up[u].was
    BY <2>1 DEF ForeignKeysKnown, Known
  <2>3. s.pc = "columns" /\ s.was = up[u].was /\ up[u].was \in BOOLEAN
    BY <2>1 DEF Progress
  <2> HIDE DEF s
  <2>4. ~fk'[u] /\ s.was = (u \in Enforcing)
    BY <2>1, <2>2, <2>3
  <2>5. Known(u, s, fk'[u])
    BY <2>3, <2>4 DEF Known, AtRest
  <2> QED
    BY <2>1, <2>5, KnownStep
<1>5. ASSUME NEW u \in Upgraders, ForeignKeysOn(u) PROVE ForeignKeysKnown'
  <2>1. /\ Goto(u, Finished(up[u])) /\ fk' = [fk EXCEPT ![u] = TRUE] /\ up[u].pc = "fkOn"
        /\ fk \in [Upgraders -> BOOLEAN] /\ up[u] \in Progress
    BY <1>5 DEF ForeignKeysOn, IInv, Typed, TypeOK
  <2>2. u \in Enforcing /\ fk'[u] = TRUE
    BY <2>1, UnderWay DEF AtRest
  <2>3. Known(u, Finished(up[u]), fk'[u])
    BY <2>1, <2>2, FinishedKnows
  <2> QED
    BY <2>1, <2>3, KnownStep
<1>6. ASSUME NEW u \in Upgraders, RolledBack(u) PROVE ForeignKeysKnown'
  <2>1. Goto(u, Failed(up[u])) /\ fk' = fk /\ up[u].pc = "rollback"
    BY <1>6 DEF RolledBack
  <2>2. /\ up[u] \in Progress /\ fk[u] \in BOOLEAN /\ ~fk[u]
        /\ up[u].was = (u \in Enforcing)
    BY <2>1, UnderWay DEF AtRest
  <2> QED
    BY <2>1, <2>2, FailedKnows, KnownStep
<1>7. ASSUME NEW u \in Upgraders, ReadColumns(u) PROVE ForeignKeysKnown'
  <2> DEFINE x == saved[Live(Table(u))]
             s == [up[u] EXCEPT !.pc = "rest", !.seen = [x EXCEPT !.cells = {}]]
  <2>1. up[u].pc = "columns" /\ up[u].pc \in AtTable /\ fk' = fk
    BY <1>7 DEF ReadColumns, AtTable
  <2>2. up[u] \in Progress /\ x \in TableState
    BY <2>1, Writer, NamesApart
  <2>3. s \in Progress /\ s.pc = "rest" /\ s.was = up[u].was /\ s.queue = up[u].queue
    <3>1. [x EXCEPT !.cells = {}] \in TableState
      BY <2>2 DEF TableState
    <3> QED
      BY <2>2, <3>1 DEF Progress
  <2>4. UpgradeTable(u, NoTable) \/ Goto(u, s)
    BY <1>7 DEF ReadColumns
  <2> HIDE DEF s
  <2>5. s.pc \in AtTable
    BY <2>3 DEF AtTable
  <2> QED
    BY <2>1, <2>3, <2>4, <2>5, NoTableIsTable, ChoosingKnows, KnownOnTheWay
<1>8. ASSUME NEW u \in Upgraders, ReadRest(u) PROVE ForeignKeysKnown'
  <2> DEFINE now == saved[Live(Table(u))]
             x == [up[u].seen EXCEPT !.refs = now.refs, !.idx = now.idx]
  <2>1. up[u].pc = "rest" /\ up[u].pc \in AtTable /\ fk' = fk /\ UpgradeTable(u, x)
    BY <1>8 DEF ReadRest, AtTable
  <2>2. now \in TableState /\ up[u].seen \in TableState
    BY <2>1, Writer, NamesApart
  <2>3. x \in TableState
    BY <2>2 DEF TableState
  <2> HIDE DEF x
  <2> QED
    BY <2>1, <2>3, ChoosingKnows
<1>9. CASE UNCHANGED vars \/ \E t \in Tables, r \in Rows : Insert(t, r)
  <2>1. up' = up /\ fk' = fk
    BY <1>9 DEF vars, Insert
  <2> QED
    BY <2>1 DEF ForeignKeysKnown, Known
<1>10. ASSUME NEW u \in Upgraders, Statement(u) PROVE ForeignKeysKnown'
  BY <1>3, <1>4, <1>5, <1>6, <1>7, <1>8, <1>10, StatementKnows DEF Statement
<1> QED
  BY <1>1, <1>2, <1>3, <1>9, <1>10 DEF Next

\* However an upgrade ends, foreign keys are enforced on its connection as they
\* were before, if no PRAGMA is refused: what upgradeTables has read at its
\* beginning is remembered through all tables, errors and rollbacks.
THEOREM UpgradesRestoreForeignKeys ==
    ASSUME "pragma" \notin Faults
    PROVE  Spec => []ForeignKeysRestored
<1>1. Init => ForeignKeysKnown
  <2> SUFFICES ASSUME Init, NEW u \in Upgraders PROVE Known(u, up[u], fk[u])
    BY DEF ForeignKeysKnown
  <2>1. fk[u] = (u \in Enforcing) /\ up[u] = Idle
    BY DEF Init
  <2> QED
    BY <2>1 DEF Known, AtRest, Idle
<1>2. IInv /\ ForeignKeysKnown /\ [Next]_vars => ForeignKeysKnown'
  BY ForeignKeysStep
<1>3. ForeignKeysKnown => ForeignKeysRestored
  BY DEF ForeignKeysKnown, ForeignKeysRestored, Known, AtRest
<1> QED
  BY InitInv, NextInv, <1>1, <1>2, <1>3, PTL DEF Spec

-----------------------------------------------------------------------------
\* What upgrades that succeed have achieved.  What the stored tables lack is
\* always owed by some upgrader, who has noted it or has still to look.

\* the indexes a table is meant to have, by name
Defined(t) == IndexNames(Model[t].idx)

\* A table d that need not be recreated but for its foreign keys, and one that
\* lacks nothing but foreign keys and indexes.
Fits(o, t, d) ==
    /\ d.cols # {} /\ d.key = Model[t].key
    /\ \A c \in d.cols \ Model[t].cols : o.keep /\ c \notin d.strict
    /\ \A c \in d.cols \cap Model[t].cols : c \in d.strict <=> c \in Model[t].strict

Done(o, t, d) ==
    Fits(o, t, d) /\ Model[t].cols \subseteq d.cols /\ d.idx \subseteq Model[t].idx

\* An upgrader with progress s has still to look at t before it succeeds; or it
\* has the table in hand.
Owes(s, t) ==
    \/ s.pc \in {"idle", "rejected", "fkOff", "rollback"}
    \/ s.pc = "fkOn" /\ s.err
    \/ s.pc = "columns" /\ t \in Range(s.queue)
    \/ s.pc \in AtTable \ {"columns"} /\ t \in Range(Tail(s.queue))

InHand(s, t) == s.pc \in AtTable \ {"columns"} /\ t = Head(s.queue)

Recreates(s) == s.pc \in {"rename", "copy", "drop"} \/ (s.pc = "create" /\ s.seen # NoTable)

\* What it has noted to do.
Noted(s) ==
    /\ s.pc \in AtTable \cup {"fkOff"} => ReferringLater(s.queue)
    /\ s.pc = "fkOff" => Range(s.queue) = Tables
    /\ s.pc \in AtTable \cup {"fkOff"} /\ s.pc # "work" => s.cols = {} /\ s.drops = {}
    /\ s.pc \in {"begin", "rename", "create", "copy", "drop"} =>
          s.makes = Defined(Head(s.queue))
    /\ s.pc = "work" =>
          /\ s.cols \subseteq Model[Head(s.queue)].cols
          /\ \A i \in s.drops, t \in Tables :
                i \in Defined(t) => t = Head(s.queue) /\ i \in s.makes

\* What it relies on of the table d it has in hand, and of others it has done,
\* whatever others do with them; it is in a transaction or not (inside).
HandRelies(o, s, inside, t, d) ==
    /\ d.cols # {} \/ (s.pc = "create" /\ ~inside)
    /\ s.pc = "rest" => /\ Fits(o, t, s.seen) => Fits(o, t, d)
                        /\ Model[t].cols \cap s.seen.cols \subseteq d.cols
    /\ s.pc = "work" /\ ~inside =>
          /\ Fits(o, t, d) /\ Model[t].cols \subseteq d.cols \cup s.cols
          /\ \A e \in d.idx \ Model[t].idx : e[1] \in s.drops

Relies(o, s, inside, t, d) ==
    ~Owes(s, t) => IF InHand(s, t) THEN HandRelies(o, s, inside, t, d) ELSE Done(o, t, d)

\* It will see to the foreign keys of t, or to an index.
Owing(s, inside, t) ==
    \/ Owes(s, t)
    \/ InHand(s, t) /\ (s.pc \in {"rest", "begin"} \/ Recreates(s) \/ inside)

OwingIndex(s, inside, t, i) ==
    Owing(s, inside, t) \/ (InHand(s, t) /\ s.pc = "work" /\ i \in s.makes)

RefsOwed(t, d) ==
    d.cols # {} /\ d.refs # Model[t].refs =>
        \E v \in Upgraders : Owing(up[v], txn = v, t)

IndexesOwed(t, d) ==
    d.cols # {} => \A e \in Model[t].idx \ d.idx :
        \E v \in Upgraders : OwingIndex(up[v], txn = v, t, e[1])

\* What a transaction has done to its table n, and to the others.
Rebuilt(o, s, n) ==
    LET t == Head(s.queue) IN
    /\ s.pc \in {"copy", "drop", "work", "commit"} =>
          Done(o, t, n) /\ n.refs = Model[t].refs /\ n.strict \subseteq n.cols
    /\ s.pc \in {"work", "commit"} => \A e \in Model[t].idx \ n.idx : e[1] \in s.makes
    /\ s.pc = "commit" => s.makes = {}
    /\ s.pc = "work" => s.cols = {} /\ s.drops = {}

Untouched(q, t, x, y) ==
    /\ x.cols = y.cols /\ x.strict = y.strict /\ x.key = y.key /\ x.idx = y.idx
    /\ x.refs = y.refs \/ y.refs # Model[t].refs \/ t \in Range(Tail(q))

OpenRight == \A u \in Upgraders :
    txn = u /\ up[u].pc # "rollback" =>
        /\ Rebuilt(opts, up[u], db[Live(Head(up[u].queue))])
        /\ \A t \in Tables \ {Head(up[u].queue)} :
              Untouched(up[u].queue, t, db[Live(t)], saved[Live(t)])

Sound(t, d) == 
    /\ d.strict \subseteq d.cols
    /\ \A s \in Tables \ {t} : IndexNames(d.idx) \cap Defined(s) = {}

JInv ==
    /\ \A u \in Upgraders : Noted(up[u])
    /\ \A u \in Upgraders, t \in Tables : Relies(opts, up[u], txn = u, t, saved[Live(t)])
    /\ \A t \in Tables : /\ RefsOwed(t, saved[Live(t)]) /\ IndexesOwed(t, saved[Live(t)])
                         /\ Sound(t, saved[Live(t)])
    /\ OpenRight

-----------------------------------------------------------------------------
\* A table that is e after a step has not become worse than d.
Better(o, t, d, e) ==
    /\ d.cols # {} => e.cols # {}
    /\ Fits(o, t, d) => Fits(o, t, e)
    /\ d.cols \cap Model[t].cols \subseteq e.cols
    /\ \A x \in e.idx \ Model[t].idx : x \in d.idx

\* What is missing after a step was missing before, or the one who has made the
\* step will see to it.
OwedStill(u, s, t, d, e) ==
    e.cols # {} =>
    /\ e.refs # Model[t].refs =>
          \/ Owing(s, txn' = u, t)
          \/ d.cols # {} /\ d.refs # Model[t].refs /\ ~Owing(up[u], txn = u, t)
    /\ \A x \in Model[t].idx \ e.idx :
          \/ OwingIndex(s, txn' = u, t, x[1])
          \/ d.cols # {} /\ x \notin d.idx /\ ~OwingIndex(up[u], txn = u, t, x[1])

\* What others rely on is still so when the tables have not become worse.
LEMMA ReliesKept ==
    ASSUME NEW o, NEW s, NEW inside \in BOOLEAN, NEW t, NEW d, NEW e,
           Relies(o, s, inside, t, d), Better(o, t, d, e)
    PROVE  Relies(o, s, inside, t, e)
<1>1. Done(o, t, d) => Done(o, t, e)
  BY DEF Done, Better
<1>2. HandRelies(o, s, inside, t, d) => HandRelies(o, s, inside, t, e)
  BY DEF HandRelies, Better
<1> QED
  BY <1>1, <1>2 DEF Relies

\* A step of u keeps the invariant if it is right for u, no table becomes worse,
\* and u takes on what it leaves missing.
LEMMA StepKeeps ==
    ASSUME IInv, JInv, NEW u \in Upgraders, NEW s, Goto(u, s), opts' = opts,
           \A v \in Upgraders \ {u} : (txn = v) <=> (txn' = v),
           txn \notin {u, None} => db' = db /\ saved' = saved,
           Noted(s),
           \A t \in Tables : /\ Relies(opts, s, txn' = u, t, saved'[Live(t)])
                             /\ Better(opts, t, saved[Live(t)], saved'[Live(t)])
                             /\ OwedStill(u, s, t, saved[Live(t)], saved'[Live(t)])
                             /\ Sound(t, saved'[Live(t)]),
           txn' = u /\ s.pc # "rollback" =>
               /\ Rebuilt(opts, s, db'[Live(Head(s.queue))])
               /\ \A t \in Tables \ {Head(s.queue)} :
                     Untouched(s.queue, t, db'[Live(t)], saved'[Live(t)])
    PROVE  JInv'
<1>1. up'[u] = s /\ \A v \in Upgraders \ {u} : up'[v] = up[v]
  BY DEF IInv, Typed, TypeOK, Goto
<1>2. \A v \in Upgraders : Noted(up'[v])
  BY <1>1 DEF JInv
<1>3. \A v \in Upgraders, t \in Tables :
         Relies(opts, up'[v], txn' = v, t, saved'[Live(t)])
  <2> SUFFICES ASSUME NEW v \in Upgraders, v # u, NEW t \in Tables
               PROVE  Relies(opts, up'[v], txn' = v, t, saved'[Live(t)])
    BY <1>1
  <2>1. Relies(opts, up[v], txn = v, t, saved[Live(t)])
    BY DEF JInv
  <2>2. Relies(opts, up[v], txn = v, t, saved'[Live(t)])
    BY <2>1, ReliesKept
  <2>3. (txn' = v) = (txn = v) /\ up'[v] = up[v]
    BY <1>1
  <2> QED
    BY <2>2, <2>3
<1>4. \A t \in Tables : RefsOwed(t, saved[Live(t)])'
  <2> SUFFICES ASSUME NEW t \in Tables, saved'[Live(t)].cols # {},
                      saved'[Live(t)].refs # Model[t].refs
               PROVE  \E v \in Upgraders : Owing(up'[v], txn' = v, t)
    BY DEF RefsOwed
  <2>1. CASE Owing(s, txn' = u, t)
    BY <1>1, <2>1
  <2>2. CASE /\ saved[Live(t)].cols # {} /\ saved[Live(t)].refs # Model[t].refs
             /\ ~Owing(up[u], txn = u, t)
    <3>1. PICK v \in Upgraders : Owing(up[v], txn = v, t)
      BY <2>2 DEF JInv, RefsOwed
    <3>2. v # u
      BY <2>2, <3>1
    <3>3. (txn' = v) = (txn = v) /\ up'[v] = up[v]
      BY <1>1, <3>2
    <3> QED
      BY <3>1, <3>3
  <2> QED
    BY <2>1, <2>2 DEF OwedStill
<1>5. \A t \in Tables : IndexesOwed(t, saved[Live(t)])'
  <2> SUFFICES ASSUME NEW t \in Tables, saved'[Live(t)].cols # {},
                      NEW x \in Model[t].idx \ saved'[Live(t)].idx
               PROVE  \E v \in Upgraders : OwingIndex(up'[v], txn' = v, t, x[1])
    BY DEF IndexesOwed
  <2>1. CASE OwingIndex(s, txn' = u, t, x[1])
    BY <1>1, <2>1
  <2>2. CASE /\ saved[Live(t)].cols # {} /\ x \notin saved[Live(t)].idx
             /\ ~OwingIndex(up[u], txn = u, t, x[1])
    <3>1. PICK v \in Upgraders : OwingIndex(up[v], txn = v, t, x[1])
      BY <2>2 DEF JInv, IndexesOwed
    <3>2. v # u
      BY <2>2, <3>1
    <3>3. (txn' = v) = (txn = v) /\ up'[v] = up[v]
      BY <1>1, <3>2
    <3> QED
      BY <3>1, <3>3
  <2> QED
    BY <2>1, <2>2 DEF OwedStill
<1>6. OpenRight'
  <2> SUFFICES ASSUME NEW v \in Upgraders, txn' = v, up'[v].pc # "rollback"
               PROVE  /\ Rebuilt(opts, up'[v], db'[Live(Head(up'[v].queue))])
                      /\ \A t \in Tables \ {Head(up'[v].queue)} :
                            Untouched(up'[v].queue, t, db'[Live(t)], saved'[Live(t)])
    BY DEF OpenRight
  <2>1. CASE v = u
    BY <1>1, <2>1
  <2>2. CASE v # u
    <3>1. txn = v /\ up'[v] = up[v] /\ txn \notin {u, None}
      BY <1>1, <2>2, UpgradeAssumption DEF UpgradeAssumption
    <3> QED
      BY <3>1 DEF JInv, OpenRight
  <2> QED
    BY <2>1, <2>2
<1> QED
  BY <1>2, <1>3, <1>4, <1>5, <1>6 DEF JInv

\* The first table of a queue and the others.
LEMMA QueueParts ==
    ASSUME NEW q \in Seq(Tables), q # <<>>
    PROVE  /\ Head(q) \in Tables /\ Tail(q) \in Seq(Tables)
           /\ Range(q) = {Head(q)} \cup Range(Tail(q))
           /\ ReferringLater(q) => ReferringLater(Tail(q))
           /\ ReferringLater(q) =>
                 \A c \in Tables : c # Head(q) /\ Live(Head(q)) \in Model[c].refs =>
                     c \in Range(Tail(q))
<1>1. /\ Head(q) \in Tables /\ Tail(q) \in Seq(Tables)
      /\ Len(q) \in Nat /\ Len(q) >= 1 /\ Head(q) = q[1] /\ DOMAIN q = 1..Len(q)
      /\ Len(Tail(q)) = Len(q) - 1 /\ DOMAIN Tail(q) = 1..Len(q) - 1
      /\ \A k \in 1..Len(q) - 1 : Tail(q)[k] = q[k + 1]
  BY HeadTailProperties, LenProperties, EmptySeq
<1>2. \A k \in 2..Len(q) : k - 1 \in DOMAIN Tail(q) /\ Tail(q)[k - 1] = q[k]
  BY <1>1
<1>3. Range(q) \subseteq {Head(q)} \cup Range(Tail(q))
  <2> SUFFICES ASSUME NEW k \in 1..Len(q), k # 1 PROVE q[k] \in Range(Tail(q))
    BY <1>1 DEF Range
  <2>1. k \in 2..Len(q)
    BY <1>1
  <2> QED
    BY <1>2, <2>1 DEF Range
<1>4. {Head(q)} \cup Range(Tail(q)) \subseteq Range(q)
  <2>1. \A k \in 1..Len(q) - 1 : k + 1 \in DOMAIN q /\ Tail(q)[k] = q[k + 1]
    BY <1>1
  <2>2. 1 \in DOMAIN q
    BY <1>1
  <2> QED
    BY <1>1, <2>1, <2>2 DEF Range
<1>5. ASSUME ReferringLater(q) PROVE ReferringLater(Tail(q))
  <2> SUFFICES ASSUME NEW k \in 1..Len(q) - 1, NEW c \in Tables, c # Tail(q)[k],
                      Live(Tail(q)[k]) \in Model[c].refs
               PROVE  \E j \in 1..Len(q) - 1 : j > k /\ Tail(q)[j] = c
    <3>1. DOMAIN Tail(q) = 1..Len(q) - 1
      BY <1>1
    <3> QED
      BY <3>1 DEF ReferringLater
  <2>1. k + 1 \in 1..Len(q) /\ Tail(q)[k] = q[k + 1]
    BY <1>1
  <2>2. PICK j \in 1..Len(q) : j > k + 1 /\ q[j] = c
    BY <1>1, <1>5, <2>1 DEF ReferringLater
  <2>3. j \in 2..Len(q) /\ j - 1 \in 1..Len(q) - 1 /\ j - 1 > k
    BY <1>1, <2>2
  <2> QED
    BY <1>2, <2>2, <2>3
<1>6. ASSUME ReferringLater(q), NEW c \in Tables, c # Head(q),
             Live(Head(q)) \in Model[c].refs
      PROVE  c \in Range(Tail(q))
  <2>1. 1 \in DOMAIN q /\ q[1] = Head(q)
    BY <1>1
  <2>2. PICK j \in DOMAIN q : j > 1 /\ q[j] = c
    BY <1>6, <2>1 DEF ReferringLater
  <2>3. j \in 2..Len(q)
    BY <1>1, <2>2
  <2> QED
    BY <1>2, <2>2, <2>3 DEF Range
<1> QED
  BY <1>1, <1>3, <1>4, <1>5, <1>6

\* An upgrader that has finished owes the tables only after an error.
LEMMA FinishedOwes ==
    ASSUME NEW s \in Progress, NEW t
    PROVE  /\ Finished(s) \in Progress /\ Noted(Finished(s)) /\ ~InHand(Finished(s), t)
           /\ Owes(Finished(s), t) <=> s.err
<1>1. /\ Finished(s) \in Progress
      /\ Finished(s).pc = IF s.err THEN "rejected" ELSE "resolved"
  BY FinishedIs DEF Finished, Progress
<1> QED
  BY <1>1 DEF Noted, InHand, Owes, AtTable

\* After a table those that are left are owed.
LEMMA NextTableOwes ==
    ASSUME NEW s \in Progress, s.queue # <<>>, ReferringLater(s.queue), NEW t
    PROVE  /\ NextTable(s) \in Progress /\ Noted(NextTable(s)) /\ ~InHand(NextTable(s), t)
           /\ NextTable(s).pc \notin AtTable \ {"columns"}
           /\ NextTable(s).pc # "rollback"
           /\ Owes(NextTable(s), t) <=> t \in Range(Tail(s.queue))
<1> DEFINE q == Tail(s.queue)
           n == [Idle EXCEPT !.queue = q, !.was = s.was]
<1>1. q \in Seq(Tables) /\ s.was \in BOOLEAN /\ ReferringLater(q)
  BY QueueParts DEF Progress
<1>2. Idle \in Progress /\ Idle.cols = {} /\ Idle.drops = {} /\ ~Idle.err
  BY NoTableIsTable DEF Idle, Progress
<1>3. n \in Progress /\ n.queue = q /\ n.cols = {} /\ n.drops = {} /\ ~n.err
  BY <1>1, <1>2 DEF Progress
<1>4. NextTable(s) = IF q # <<>> THEN [n EXCEPT !.pc = "columns"]
                     ELSE IF s.was THEN [n EXCEPT !.pc = "fkOn"] ELSE Finished(n)
  BY DEF NextTable
<1>5. q = <<>> => Range(q) = {}
  BY EmptySeq DEF Range
<1>6. NextTable(s) \in Progress
  BY NextTableIs
<1> HIDE DEF n
<1>7. CASE q # <<>>
  <2>1. NextTable(s) = [n EXCEPT !.pc = "columns"]
    BY <1>4, <1>7
  <2>2. /\ NextTable(s).pc = "columns" /\ NextTable(s).queue = q
        /\ NextTable(s).cols = {} /\ NextTable(s).drops = {}
    BY <1>3, <2>1 DEF Progress
  <2> QED
    BY <1>1, <1>6, <2>2 DEF Noted, Owes, InHand, AtTable
<1>8. CASE q = <<>> /\ s.was
  <2>1. NextTable(s) = [n EXCEPT !.pc = "fkOn"]
    BY <1>4, <1>8
  <2>2. NextTable(s).pc = "fkOn" /\ ~NextTable(s).err
    BY <1>3, <2>1 DEF Progress
  <2> QED
    BY <1>5, <1>6, <1>8, <2>2 DEF Noted, Owes, InHand, AtTable
<1>9. CASE q = <<>> /\ ~s.was
  <2>1. NextTable(s) = Finished(n)
    BY <1>4, <1>9
  <2> QED
    BY <1>3, <1>5, <1>6, <1>9, <2>1, FinishedOwes, FinishedIs DEF AtTable
<1> QED
  BY <1>7, <1>8, <1>9

\* After an error all tables are owed.
LEMMA FailedOwes ==
    ASSUME NEW s \in Progress, NEW t
    PROVE  Failed(s) \in Progress /\ Noted(Failed(s)) /\ Owes(Failed(s), t)
<1> DEFINE n == [Idle EXCEPT !.was = s.was, !.err = TRUE]
<1>1. Idle \in Progress /\ s.was \in BOOLEAN
  BY NoTableIsTable DEF Idle, Progress
<1>2. n \in Progress /\ n.err
  BY <1>1 DEF Progress
<1>3. Failed(s) = IF s.was THEN [n EXCEPT !.pc = "fkOn"] ELSE Finished(n)
  BY DEF Failed
<1>4. Failed(s) \in Progress
  BY FailedIs
<1> HIDE DEF n
<1>5. CASE s.was
  <2>1. Failed(s).pc = "fkOn" /\ Failed(s).err
    BY <1>2, <1>3, <1>5 DEF Progress
  <2> QED
    BY <1>4, <2>1 DEF Noted, Owes, AtTable
<1>6. CASE ~s.was
  <2>1. Failed(s) = Finished(n)
    BY <1>3, <1>6
  <2> QED
    BY <1>2, <1>4, <2>1, FinishedOwes
<1> QED
  BY <1>5, <1>6

\* Whoever owes a table relies on nothing, and will see to all of it.
LEMMA OwesAll ==
    ASSUME NEW o, NEW s, NEW inside, NEW t, NEW d, Owes(s, t)
    PROVE  /\ Relies(o, s, inside, t, d) /\ Owing(s, inside, t)
           /\ \A i : OwingIndex(s, inside, t, i)
BY DEF Relies, Owing, OwingIndex

\* A step that leaves the stored tables as they are.
LEMMA SavedStays ==
    ASSUME IInv, JInv, NEW u \in Upgraders, NEW s, Goto(u, s), opts' = opts,
           saved' = saved, \A v \in Upgraders \ {u} : (txn = v) <=> (txn' = v),
           txn \notin {u, None} => db' = db,
           Noted(s),
           \A t \in Tables :
               /\ Relies(opts, s, txn' = u, t, saved[Live(t)])
               /\ Owing(up[u], txn = u, t) => Owing(s, txn' = u, t)
               /\ \A x \in Model[t].idx : OwingIndex(up[u], txn = u, t, x[1]) =>
                                              OwingIndex(s, txn' = u, t, x[1]),
           txn' = u /\ s.pc # "rollback" =>
               /\ Rebuilt(opts, s, db'[Live(Head(s.queue))])
               /\ \A t \in Tables \ {Head(s.queue)} :
                     Untouched(s.queue, t, db'[Live(t)], saved[Live(t)])
    PROVE  JInv'
<1>1. \A t \in Tables : Better(opts, t, saved[Live(t)], saved'[Live(t)])
  BY DEF Better
<1>2. \A t \in Tables : Sound(t, saved'[Live(t)])
  BY DEF JInv
<1>3. ASSUME NEW t \in Tables PROVE OwedStill(u, s, t, saved[Live(t)], saved'[Live(t)])
  BY DEF OwedStill
<1> QED
  BY <1>1, <1>2, <1>3, StepKeeps

\* An upgrader that will look at all tables again.
LEMMA StartsOver ==
    ASSUME IInv, JInv, NEW u \in Upgraders, NEW s, Goto(u, s), opts' = opts,
           saved' = saved, \A v \in Upgraders \ {u} : (txn = v) <=> (txn' = v),
           txn \notin {u, None} => db' = db,
           Noted(s), \A t \in Tables : Owes(s, t), txn' = u => s.pc = "rollback"
    PROVE  JInv'
<1>1. \A t \in Tables :
         /\ Relies(opts, s, txn' = u, t, saved[Live(t)])
         /\ Owing(s, txn' = u, t)
         /\ \A x \in Model[t].idx : OwingIndex(s, txn' = u, t, x[1])
  BY OwesAll
<1> QED
  BY <1>1, SavedStays

\* Only one who has a table in hand is in a transaction.
LEMMA InsideAt ==
    ASSUME IInv, NEW u \in Upgraders
    PROVE  /\ txn = u => up[u].pc \in {"rename", "create", "copy", "drop", "work",
                                       "commit", "rollback"}
           /\ txn = u /\ up[u].pc = "create" => up[u].seen # NoTable
BY DEF IInv, Transactions, Recreating

\* An upgrade that begins will look at every table.
LEMMA UpgradeTablesRight ==
    ASSUME Upgradable, IInv, JInv, NEW u \in Upgraders, UpgradeTables(u)
    PROVE  JInv'
<1> DEFINE s == [Idle EXCEPT !.queue = Order, !.was = fk[u],
                             !.pc = IF fk[u] THEN "fkOff" ELSE "columns"]
<1>1. /\ Goto(u, s) /\ up[u].pc \in {"idle", "rejected"}
      /\ UNCHANGED <<fileVars, fk, opts, faults, history>>
  BY DEF UpgradeTables
<1>2. txn' = txn /\ db' = db /\ saved' = saved /\ opts' = opts /\ txn # u
  BY <1>1, InsideAt DEF fileVars
<1>3. Idle \in Progress /\ Idle.cols = {} /\ Idle.drops = {}
  BY NoTableIsTable DEF Idle, Progress
<1>4. /\ s.queue = Order /\ s.pc \in {"fkOff", "columns"}
      /\ s.cols = {} /\ s.drops = {}
  BY <1>3 DEF Progress
<1> HIDE DEF s
<1>5. Noted(s) /\ \A t \in Tables : Owes(s, t)
  BY <1>4 DEF Noted, Owes, Upgradable, AtTable
<1> QED
  BY <1>1, <1>2, <1>5, StartsOver

\* Switching foreign keys off is no step of it.
LEMMA ForeignKeysOffRight ==
    ASSUME IInv, JInv, NEW u \in Upgraders, ForeignKeysOff(u)
    PROVE  JInv'
<1> DEFINE s == [up[u] EXCEPT !.pc = "columns"]
<1>1. Goto(u, s) /\ up[u].pc = "fkOff" /\ UNCHANGED <<fileVars, opts, faults, history>>
  BY DEF ForeignKeysOff
<1>2. txn' = txn /\ db' = db /\ saved' = saved /\ opts' = opts /\ txn # u
  BY <1>1, InsideAt DEF fileVars
<1>3. up[u] \in Progress /\ Noted(up[u])
  BY DEF IInv, Typed, TypeOK, JInv
<1>4. /\ s.queue = up[u].queue /\ s.pc = "columns"
      /\ s.cols = up[u].cols /\ s.drops = up[u].drops
  BY <1>3 DEF Progress
<1> HIDE DEF s
<1>5. Noted(s) /\ \A t \in Tables : Owes(s, t)
  BY <1>1, <1>3, <1>4 DEF Noted, Owes, AtTable
<1> QED
  BY <1>1, <1>2, <1>5, StartsOver

\* Nor is switching them on, after the last table.
LEMMA ForeignKeysOnRight ==
    ASSUME IInv, JInv, NEW u \in Upgraders, ForeignKeysOn(u)
    PROVE  JInv'
<1> DEFINE s == Finished(up[u])
<1>1. Goto(u, s) /\ up[u].pc = "fkOn" /\ UNCHANGED <<fileVars, opts, faults, history>>
  BY DEF ForeignKeysOn
<1>2. txn' = txn /\ db' = db /\ saved' = saved /\ opts' = opts /\ txn # u
  BY <1>1, InsideAt DEF fileVars
<1>3. up[u] \in Progress
  BY DEF IInv, Typed, TypeOK
<1>4. Noted(s) /\ \A t \in Tables : ~InHand(s, t) /\ (Owes(s, t) <=> up[u].err)
  BY <1>3, FinishedOwes
<1>5. \A t \in Tables : ~InHand(up[u], t) /\ (Owes(up[u], t) <=> up[u].err)
  BY <1>1 DEF InHand, Owes, AtTable
<1> HIDE DEF s
<1>6. \A t \in Tables :
         /\ Relies(opts, s, txn' = u, t, saved[Live(t)])
         /\ Owing(up[u], txn = u, t) => Owing(s, txn' = u, t)
         /\ \A x \in Model[t].idx : OwingIndex(up[u], txn = u, t, x[1]) =>
                                        OwingIndex(s, txn' = u, t, x[1])
  BY <1>4, <1>5 DEF JInv, Relies, Owing, OwingIndex
<1> QED
  BY <1>1, <1>2, <1>4, <1>6, SavedStays

\* A refused statement: whoever fails has not succeeded, and will look at every
\* table when it begins anew.
LEMMA FailureRight ==
    ASSUME IInv, JInv, NEW u \in Upgraders, Impossible(u) \/ Fault(u)
    PROVE  JInv'
<1>1. Refuse(u) /\ UNCHANGED <<fileVars, fk, opts, history>>
  BY DEF Impossible, Fault, Refuse
<1>2. txn' = txn /\ db' = db /\ saved' = saved /\ opts' = opts
  BY <1>1 DEF fileVars
<1>3. up[u] \in Progress
  BY DEF IInv, Typed, TypeOK
<1>4. CASE Goto(u, [up[u] EXCEPT !.pc = "rollback"])
  <2> DEFINE s == [up[u] EXCEPT !.pc = "rollback"]
  <2>1. s.pc = "rollback"
    BY <1>3 DEF Progress
  <2> HIDE DEF s
  <2>2. Noted(s)
    BY <2>1 DEF Noted, AtTable
  <2>3. \A t \in Tables : Owes(s, t)
    BY <2>1 DEF Owes
  <2> QED
    BY <1>2, <1>4, <2>1, <2>2, <2>3, StartsOver DEF s
<1>5. CASE txn # u /\ Goto(u, Failed(up[u]))
  <2>1. Noted(Failed(up[u])) /\ \A t \in Tables : Owes(Failed(up[u]), t)
    BY <1>3, FailedOwes
  <2> QED
    BY <1>2, <1>5, <2>1, StartsOver
<1>6. ASSUME NEW r \in Progress, r.err, Goto(u, Finished(r)), up[u].pc \in {"fkOff", "fkOn"}
      PROVE  JInv'
  <2>1. Noted(Finished(r)) /\ \A t \in Tables : Owes(Finished(r), t)
    BY <1>6, FinishedOwes
  <2>2. txn # u
    BY <1>6, InsideAt
  <2> QED
    BY <1>2, <1>6, <2>1, <2>2, StartsOver
<1>7. CASE up[u].pc = "fkOff" /\ Goto(u, Finished([Idle EXCEPT !.err = TRUE]))
  <2>1. Idle \in Progress
    BY NoTableIsTable DEF Idle, Progress
  <2>2. [Idle EXCEPT !.err = TRUE] \in Progress /\ [Idle EXCEPT !.err = TRUE].err
    BY <2>1 DEF Progress
  <2> QED
    BY <1>6, <1>7, <2>2
<1>8. CASE up[u].pc = "fkOn" /\ Goto(u, Finished([up[u] EXCEPT !.err = TRUE]))
  <2>1. [up[u] EXCEPT !.err = TRUE] \in Progress /\ [up[u] EXCEPT !.err = TRUE].err
    BY <1>3 DEF Progress
  <2> QED
    BY <1>6, <1>8, <2>1
<1> QED
  BY <1>1, <1>4, <1>5, <1>7, <1>8 DEF Refuse

\* So will one that starts again after a crash,
LEMMA CrashRight ==
    ASSUME IInv, JInv, NEW u \in Upgraders, Crash(u)
    PROVE  JInv'
<1>1. /\ Goto(u, Idle) /\ UNCHANGED <<saved, opts, history>>
      /\ IF txn = u THEN db' = saved /\ txn' = None ELSE UNCHANGED <<db, txn>>
  BY DEF Crash
<1>2. Idle.pc = "idle"
  BY DEF Idle
<1>3. Noted(Idle) /\ \A t \in Tables : Owes(Idle, t)
  BY <1>2 DEF Noted, Owes, AtTable
<1>4. None \notin Upgraders
  BY UpgradeAssumption DEF UpgradeAssumption
<1>5. txn' # u
  BY <1>1, <1>4
<1>6. \A v \in Upgraders \ {u} : (txn = v) <=> (txn' = v)
  BY <1>1, <1>4
<1> QED
  BY <1>1, <1>3, <1>5, <1>6, StartsOver

\* and one whose transaction has been undone.
LEMMA RolledBackRight ==
    ASSUME IInv, JInv, NEW u \in Upgraders, RolledBack(u)
    PROVE  JInv'
<1>1. /\ Goto(u, Failed(up[u])) /\ UNCHANGED <<saved, fk, opts, faults, history>>
      /\ IF txn = u THEN db' = saved /\ txn' = None ELSE UNCHANGED <<db, txn>>
  BY DEF RolledBack
<1>2. up[u] \in Progress
  BY DEF IInv, Typed, TypeOK
<1>3. Noted(Failed(up[u])) /\ \A t \in Tables : Owes(Failed(up[u]), t)
  BY <1>2, FailedOwes
<1>4. None \notin Upgraders
  BY UpgradeAssumption DEF UpgradeAssumption
<1>5. txn' # u
  BY <1>1, <1>4
<1>6. \A v \in Upgraders \ {u} : (txn = v) <=> (txn' = v)
  BY <1>1, <1>4
<1> QED
  BY <1>1, <1>3, <1>5, <1>6, StartsOver

\* What UpgradeMode tells of a table that exists.
LEMMA ModeTells ==
    ASSUME Upgradable, NEW t \in Tables, NEW d \in TableState, NEW o,
           d.cols # {}
    PROVE  LET mode == UpgradeMode(t, d, o) IN
           /\ mode # "create"
           /\ mode \in {"alter", "actual"} => Fits(o, t, d) /\ d.refs = Model[t].refs
           /\ mode = "actual" => Model[t].cols \subseteq d.cols /\ d.idx = Model[t].idx
           /\ /\ Done(o, t, d) /\ d.refs = Model[t].refs /\ d.idx = Model[t].idx
              /\ ~o.force
              => mode = "actual"
<1> DEFINE m == Model[t]
           refs == {Live(p[1]) : p \in m.refs}
           differs == \/ d.refs # refs
                      \/ \E c \in d.cols \ m.cols : ~o.keep \/ c \in d.strict
                      \/ \E c \in d.cols \cap m.cols : (c \in d.strict) # (c \in m.strict)
                      \/ d.key # m.key
<1>1. \A p \in Tables : Live(p)[1] = p
  BY DEF Live
<1>2. refs = m.refs
  BY <1>1 DEF Upgradable
<1>3. d # NoTable
  BY NoTableIsTable
<1>4. UpgradeMode(t, d, o) = IF o.force \/ differs THEN "recreate"
                             ELSE IF m.cols \ d.cols # {} \/ d.idx # m.idx THEN "alter"
                             ELSE "actual"
  BY <1>3 DEF UpgradeMode
<1>5. ~differs <=> Fits(o, t, d) /\ d.refs = m.refs
  <2>1. \A c : ((c \in d.strict) # (c \in m.strict)) <=> ~((c \in d.strict) <=> (c \in m.strict))
    OBVIOUS
  <2>2. ~differs <=> /\ d.refs = m.refs /\ d.key = m.key
                     /\ \A c \in d.cols \ m.cols : o.keep /\ c \notin d.strict
                     /\ \A c \in d.cols \cap m.cols : c \in d.strict <=> c \in m.strict
    BY <1>2, <2>1
  <2> QED
    BY <2>2 DEF Fits
<1> HIDE DEF differs, m
<1>6. UpgradeMode(t, d, o) # "create"
  BY <1>4
<1>7. UpgradeMode(t, d, o) \in {"alter", "actual"} => ~differs
  BY <1>4
<1>8. UpgradeMode(t, d, o) = "actual" => m.cols \subseteq d.cols /\ d.idx = m.idx
  BY <1>4
<1>9. ~differs /\ ~o.force /\ m.cols \subseteq d.cols /\ d.idx = m.idx =>
         UpgradeMode(t, d, o) = "actual"
  BY <1>4
<1> QED
  BY <1>5, <1>6, <1>7, <1>8, <1>9 DEF Done, m

\* An upgrader with progress s has the tables after the first one of q still to
\* look at, and may have that one in hand.
GoesOn(s, q) == \A t \in Tables : /\ Owes(s, t) <=> t \in Range(Tail(q))
                                  /\ InHand(s, t) => t = Head(q)

\* Nothing is missing in e that is not missing in d.
NoWorse(t, d, e) ==
    e.cols # {} =>
    /\ e.refs # Model[t].refs => d.cols # {} /\ d.refs # Model[t].refs
    /\ \A x \in Model[t].idx \ e.idx : d.cols # {} /\ x \notin d.idx

\* One with a table in hand,
LEMMA AtTableGoesOn ==
    ASSUME NEW s, s.pc \in AtTable \ {"columns"}
    PROVE  GoesOn(s, s.queue) /\ \A t : InHand(s, t) <=> t = Head(s.queue)
BY DEF GoesOn, Owes, InHand, AtTable

\* and one that has just left it.
LEMMA NextTableGoesOn ==
    ASSUME NEW s \in Progress, s.queue # <<>>, ReferringLater(s.queue)
    PROVE  GoesOn(NextTable(s), s.queue)
BY NextTableOwes DEF GoesOn

\* What a step of u means for the tables it has not in hand.
LEMMA OtherTables ==
    ASSUME JInv, NEW u \in Upgraders, NEW s, NEW q,
           GoesOn(up[u], q), GoesOn(s, q),
           NEW t \in Tables, t # Head(q) \/ t \in Range(Tail(q)),
           NEW e, Better(opts, t, saved[Live(t)], e),
           t \in Range(Tail(q)) \/ NoWorse(t, saved[Live(t)], e)
    PROVE  /\ Relies(opts, s, txn' = u, t, e)
           /\ OwedStill(u, s, t, saved[Live(t)], e)
<1> DEFINE d == saved[Live(t)]
<1>1. CASE t \in Range(Tail(q))
  <2>1. Owes(s, t)
    BY <1>1 DEF GoesOn
  <2> QED
    BY <2>1, OwesAll DEF OwedStill
<1>2. CASE t \notin Range(Tail(q)) /\ t # Head(q)
  <2>1. ~Owes(s, t) /\ ~InHand(s, t) /\ ~Owes(up[u], t) /\ ~InHand(up[u], t)
    BY <1>2 DEF GoesOn
  <2>2. Done(opts, t, d)
    BY <2>1 DEF JInv, Relies
  <2>3. Done(opts, t, e)
    BY <2>2 DEF Done, Better
  <2>4. ~Owing(up[u], txn = u, t) /\ \A i : ~OwingIndex(up[u], txn = u, t, i)
    BY <2>1 DEF Owing, OwingIndex
  <2> QED
    BY <1>2, <2>1, <2>3, <2>4 DEF Relies, OwedStill, NoWorse
<1> QED
  BY <1>1, <1>2

\* A table that stays as it is.
LEMMA SameTable ==
    ASSUME NEW o, NEW t, NEW d, NEW e, e.cols = d.cols, e.strict = d.strict,
           e.key = d.key, e.refs = d.refs, e.idx = d.idx
    PROVE  Better(o, t, d, e) /\ NoWorse(t, d, e) /\ (Sound(t, d) => Sound(t, e))
           /\ (Done(o, t, d) <=> Done(o, t, e)) /\ (Fits(o, t, d) <=> Fits(o, t, e))
BY DEF Better, NoWorse, Sound, Done, Fits

\* What is known of an upgrader at a table.
LEMMA AtTableKnows ==
    ASSUME IInv, JInv, NEW u \in Upgraders, up[u].pc \in AtTable
    PROVE  /\ up[u] \in Progress /\ up[u].queue # <<>> /\ up[u].queue \in Seq(Tables)
           /\ Table(u) \in Tables /\ Table(u) = Head(up[u].queue)
           /\ Noted(up[u]) /\ ReferringLater(up[u].queue)
           /\ \A t \in Tables : saved[Live(t)] \in TableState
           /\ saved[Live(Table(u))].cols = {} => saved[Live(Table(u))] = NoTable
           /\ Model[Table(u)] \in TableState
<1>1. up[u] \in Progress /\ up[u].queue # <<>> /\ up[u].queue \in Seq(Tables)
  BY DEF IInv, Typed, TypeOK, Progress
<1>2. Table(u) \in Tables /\ Table(u) = Head(up[u].queue)
  BY <1>1, HeadTailProperties DEF Table
<1>3. Noted(up[u]) /\ ReferringLater(up[u].queue)
  BY DEF JInv, Noted
<1>4. Live(Table(u)) \in Names /\ \A t \in Tables : Live(t) \in Names
  BY <1>2, NamesApart
<1> QED
  BY <1>1, <1>2, <1>3, <1>4, UpgradeAssumption DEF IInv, Typed, TypeOK, UpgradeAssumption

\* nothing is left to add, to drop or to create
Nothing(s) == s.cols = {} /\ s.drops = {} /\ s.makes = {}

\* An upgrader at work stays at its table until nothing is left to do.
LEMMA WorkingGoesOn ==
    ASSUME NEW u \in Upgraders, NEW s \in Progress, s.queue # <<>>, ReferringLater(s.queue),
           s.cols \subseteq Model[Head(s.queue)].cols,
           \A i \in s.drops, t \in Tables :
               i \in Defined(t) => t = Head(s.queue) /\ i \in s.makes
    PROVE  LET w == Working(u, s) IN
           /\ w \in Progress /\ Noted(w) /\ GoesOn(w, s.queue) /\ w.pc # "rollback"
           /\ ~Nothing(s) => /\ w.pc = "work" /\ w.queue = s.queue /\ w.cols = s.cols
                             /\ w.drops = s.drops /\ w.makes = s.makes
           /\ Nothing(s) /\ txn = u => w.pc = "commit" /\ w.queue = s.queue /\ w.makes = {}
           /\ Nothing(s) /\ txn # u => /\ w.pc \notin AtTable \ {"columns"}
                                       /\ \A t : ~InHand(w, t)
<1> DEFINE w == Working(u, s)
<1>1. w \in Progress
  BY WorkingIs
<1>2. CASE ~Nothing(s)
  <2>1. w = [s EXCEPT !.pc = "work"]
    BY <1>2 DEF Working, Nothing
  <2>2. /\ w.pc = "work" /\ w.queue = s.queue /\ w.cols = s.cols
        /\ w.drops = s.drops /\ w.makes = s.makes
    BY <2>1 DEF Progress
  <2> HIDE DEF w
  <2>3. GoesOn(w, s.queue)
    BY <2>2, AtTableGoesOn DEF AtTable
  <2>4. Noted(w)
    BY <2>2 DEF Noted
  <2> QED
    BY <1>1, <1>2, <2>2, <2>3, <2>4 DEF w
<1>3. CASE Nothing(s) /\ txn = u
  <2>1. w = [s EXCEPT !.pc = "commit"]
    BY <1>3 DEF Working, Nothing
  <2>2. /\ w.pc = "commit" /\ w.queue = s.queue /\ w.cols = {}
        /\ w.drops = {} /\ w.makes = {}
    BY <1>3, <2>1 DEF Progress, Nothing
  <2> HIDE DEF w
  <2>3. GoesOn(w, s.queue)
    BY <2>2, AtTableGoesOn DEF AtTable
  <2>4. Noted(w)
    BY <2>2 DEF Noted
  <2> QED
    BY <1>1, <1>3, <2>2, <2>3, <2>4 DEF w
<1>4. CASE Nothing(s) /\ txn # u
  <2>1. w = NextTable(s)
    BY <1>4 DEF Working, Nothing
  <2> QED
    BY <1>1, <1>4, <2>1, NextTableOwes, NextTableGoesOn
<1> QED
  BY <1>2, <1>3, <1>4

\* A table found missing will be created, indexes and all; of another one it is
\* still to be read what is missing.
LEMMA ReadColumnsRight ==
    ASSUME IInv, JInv, NEW u \in Upgraders, ReadColumns(u)
    PROVE  JInv'
<1> DEFINE t == Table(u)
           q == up[u].queue
           d == saved[Live(t)]
           seen == [d EXCEPT !.cells = {}]
           c == [up[u] EXCEPT !.pc = "create", !.seen = NoTable, !.makes = Defined(t)]
           r == [up[u] EXCEPT !.pc = "rest", !.seen = seen]
<1>1. /\ up[u].pc = "columns" /\ UNCHANGED <<fileVars, fk, opts, faults, history>>
      /\ \/ d = NoTable /\ Goto(u, c)
         \/ d # NoTable /\ Goto(u, r)
  BY DEF ReadColumns, UpgradeTable, UpgradeMode, Defined
<1>2. /\ txn' = txn /\ db' = db /\ saved' = saved /\ opts' = opts
      /\ up[u].pc \in AtTable /\ txn # u
  BY <1>1, InsideAt DEF fileVars, AtTable
<1>3. /\ up[u] \in Progress /\ q # <<>> /\ t = Head(q) /\ t \in Tables /\ q \in Seq(Tables)
      /\ Noted(up[u]) /\ d \in TableState /\ (d.cols = {} => d = NoTable)
  BY <1>2, AtTableKnows
<1>4. /\ c.pc = "create" /\ c.seen = NoTable /\ c.queue = q /\ c.makes = Defined(t)
      /\ c.cols = up[u].cols /\ c.drops = up[u].drops
  BY <1>3 DEF Progress
<1>5. /\ r.pc = "rest" /\ r.seen = seen /\ r.queue = q
      /\ r.cols = up[u].cols /\ r.drops = up[u].drops
  BY <1>3 DEF Progress
<1>6. /\ seen.cols = d.cols /\ seen.strict = d.strict /\ seen.key = d.key
      /\ seen.refs = d.refs /\ seen.idx = d.idx
  BY <1>3 DEF TableState
<1>7. Range(q) = {t} \cup Range(Tail(q))
  BY <1>3, QueueParts
<1>8. \A x \in Tables : (Owes(up[u], x) <=> x \in Range(q)) /\ ~InHand(up[u], x)
  BY <1>1 DEF Owes, InHand
<1> HIDE DEF c, r, seen, d, t, q
<1>9. ASSUME NEW s, s = c \/ s = r, Goto(u, s),
             Relies(opts, s, txn' = u, t, d), OwedStill(u, s, t, d, d)
      PROVE  JInv'
  <2>1. /\ s.queue = q /\ s.pc \in AtTable \ {"columns"} /\ s.pc \in {"create", "rest"}
        /\ s.cols = up[u].cols /\ s.drops = up[u].drops /\ (s.pc = "create" => s.makes = Defined(t))
    BY <1>4, <1>5, <1>9 DEF AtTable
  <2>2. Noted(s)
    BY <1>1, <1>3, <2>1 DEF Noted, AtTable, q
  <2>3. ASSUME NEW x \in Tables, x # t
        PROVE  /\ Relies(opts, s, txn' = u, x, saved[Live(x)])
               /\ OwedStill(u, s, x, saved[Live(x)], saved[Live(x)])
    <3>1. (Owes(s, x) <=> x \in Range(Tail(q))) /\ ~InHand(s, x)
      BY <1>3, <2>1, <2>3, AtTableGoesOn DEF GoesOn
    <3>2. Owes(up[u], x) <=> Owes(s, x)
      BY <1>7, <1>8, <2>3, <3>1
    <3>3. Relies(opts, up[u], txn = u, x, saved[Live(x)])
      BY DEF JInv
    <3>4. CASE Owes(s, x)
      BY <3>4, OwesAll DEF OwedStill
    <3>5. CASE ~Owes(s, x)
      BY <1>8, <3>1, <3>2, <3>3, <3>5 DEF Relies, OwedStill, Owing, OwingIndex
    <3> QED
      BY <3>4, <3>5
  <2>4. ASSUME NEW x \in Tables
        PROVE  /\ Relies(opts, s, txn' = u, x, saved'[Live(x)])
               /\ Better(opts, x, saved[Live(x)], saved'[Live(x)])
               /\ OwedStill(u, s, x, saved[Live(x)], saved'[Live(x)])
               /\ Sound(x, saved'[Live(x)])
    <3>1. Better(opts, x, saved[Live(x)], saved[Live(x)])
      BY SameTable
    <3>2. Sound(x, saved[Live(x)])
      BY DEF JInv
    <3> QED
      BY <1>2, <1>9, <2>3, <3>1, <3>2 DEF d
  <2> QED
    BY <1>2, <1>9, <2>2, <2>4, StepKeeps
<1>10. CASE d = NoTable /\ Goto(u, c)
  <2>1. d.cols = {}
    BY <1>10, NoTableIsTable
  <2>2. Relies(opts, c, txn' = u, t, d)
    BY <1>2, <1>4 DEF Relies, HandRelies, InHand, AtTable, t, q, Table
  <2>3. OwedStill(u, c, t, d, d)
    BY <2>1 DEF OwedStill
  <2> QED
    BY <1>9, <1>10, <2>2, <2>3
<1>11. CASE d # NoTable /\ Goto(u, r)
  <2>1. d.cols # {}
    BY <1>3, <1>11
  <2>2. InHand(r, t)
    BY <1>3, <1>5 DEF InHand, AtTable
  <2>3. Fits(opts, t, seen) => Fits(opts, t, d)
    BY <1>6, SameTable
  <2>4. Relies(opts, r, txn' = u, t, d)
    BY <1>5, <1>6, <2>1, <2>2, <2>3 DEF Relies, HandRelies
  <2>5. OwedStill(u, r, t, d, d)
    BY <1>5, <2>2 DEF OwedStill, Owing, OwingIndex
  <2> QED
    BY <1>9, <1>11, <2>4, <2>5
<1> QED
  BY <1>1, <1>10, <1>11

\* A step of u at its table keeps the invariant if the table it has in hand is
\* right and the others have not become worse.
LEMMA TableStep ==
    ASSUME IInv, JInv, NEW u \in Upgraders, up[u].pc \in AtTable \ {"columns"},
           NEW s, Goto(u, s), opts' = opts,
           \A v \in Upgraders \ {u} : (txn = v) <=> (txn' = v),
           txn \notin {u, None} => db' = db /\ saved' = saved,
           Noted(s), GoesOn(s, up[u].queue),
           \A x \in Tables : /\ Better(opts, x, saved[Live(x)], saved'[Live(x)])
                             /\ Sound(x, saved'[Live(x)])
                             /\ \/ x = Table(u) \/ x \in Range(Tail(up[u].queue))
                                \/ NoWorse(x, saved[Live(x)], saved'[Live(x)]),
           LET t == Table(u) IN
           t \notin Range(Tail(up[u].queue)) =>
               /\ Relies(opts, s, txn' = u, t, saved'[Live(t)])
               /\ OwedStill(u, s, t, saved[Live(t)], saved'[Live(t)]),
           txn' = u /\ s.pc # "rollback" =>
               /\ Rebuilt(opts, s, db'[Live(Head(s.queue))])
               /\ \A x \in Tables \ {Head(s.queue)} :
                     Untouched(s.queue, x, db'[Live(x)], saved'[Live(x)])
    PROVE  JInv'
<1> DEFINE q == up[u].queue
<1>1. Table(u) = Head(q)
  BY DEF Table
<1>2. GoesOn(up[u], q)
  BY AtTableGoesOn
<1>3. ASSUME NEW x \in Tables
      PROVE  /\ Relies(opts, s, txn' = u, x, saved'[Live(x)])
             /\ OwedStill(u, s, x, saved[Live(x)], saved'[Live(x)])
  <2>1. CASE x # Table(u)
    <3>1. x # Head(q) \/ x \in Range(Tail(q))
      BY <1>1, <2>1
    <3>2. /\ Better(opts, x, saved[Live(x)], saved'[Live(x)])
          /\ x \in Range(Tail(q)) \/ NoWorse(x, saved[Live(x)], saved'[Live(x)])
      BY <2>1
    <3> HIDE DEF q
    <3> QED
      BY <1>2, <3>1, <3>2, OtherTables DEF q
  <2>2. CASE x = Table(u) /\ x \in Range(Tail(q))
    <3>1. Owes(s, x)
      BY <2>2 DEF GoesOn
    <3> QED
      BY <3>1, OwesAll DEF OwedStill
  <2>3. CASE x = Table(u) /\ x \notin Range(Tail(q))
    BY <2>3
  <2> QED
    BY <2>1, <2>2, <2>3
<1> QED
  BY <1>3, StepKeeps

\* The same, of a step that writes nothing.
LEMMA TableStepWritesNothing ==
    ASSUME IInv, JInv, NEW u \in Upgraders, up[u].pc \in AtTable \ {"columns"},
           NEW s, Goto(u, s), UNCHANGED <<db, saved, txn, opts>>, txn # u,
           Noted(s), GoesOn(s, up[u].queue),
           LET t == Table(u) IN
           t \notin Range(Tail(up[u].queue)) =>
               /\ Relies(opts, s, FALSE, t, saved[Live(t)])
               /\ OwedStill(u, s, t, saved[Live(t)], saved[Live(t)])
    PROVE  JInv'
<1>1. saved' = saved /\ opts' = opts /\ txn' = txn /\ db' = db /\ (txn' = u) = FALSE
  OBVIOUS
<1>2. \A x \in Tables : /\ Better(opts, x, saved[Live(x)], saved[Live(x)])
                        /\ Sound(x, saved[Live(x)])
                        /\ NoWorse(x, saved[Live(x)], saved[Live(x)])
  BY SameTable DEF JInv
<1> QED
  BY <1>1, <1>2, TableStep

\* An index of a table has a name and a column.
LEMMA IndexNamed ==
    ASSUME NEW d \in TableState, NEW e \in d.idx
    PROVE  e[1] \in IndexNames(d.idx) /\ e = <<e[1], e[2]>> /\ e[1] \in Indexes /\ e[2] \in Cols
BY DEF TableState, IndexNames

\* What is missing is noted, or the table is as defined.
LEMMA ReadRestRight ==
    ASSUME Upgradable, IInv, JInv, NEW u \in Upgraders, ReadRest(u)
    PROVE  JInv'
<1> DEFINE t == Table(u)
           q == up[u].queue
           d == saved[Live(t)]
           m == Model[t]
           seen == up[u].seen
           f == [seen EXCEPT !.refs = d.refs, !.idx = d.idx]
           old == Outdated(t, f)
           w == [up[u] EXCEPT !.cols = m.cols \ f.cols, !.drops = old,
                              !.makes = Defined(t) \ (IndexNames(f.idx) \ old)]
           b == [up[u] EXCEPT !.pc = "begin", !.seen = f, !.makes = Defined(t)]
           mode == UpgradeMode(t, f, opts)
<1>1. /\ up[u].pc = "rest" /\ UNCHANGED <<fileVars, fk, opts, faults, history>>
      /\ \/ mode = "actual" /\ Goto(u, NextTable(up[u]))
         \/ mode = "create"
         \/ mode = "alter" /\ Goto(u, Working(u, w))
         \/ mode = "recreate" /\ Goto(u, b)
  BY DEF ReadRest, UpgradeTable, Defined
<1>2. /\ UNCHANGED <<db, saved, txn, opts>>
      /\ up[u].pc \in AtTable /\ up[u].pc \in AtTable \ {"columns"} /\ txn # u
  BY <1>1, InsideAt DEF fileVars, AtTable
<1>3. /\ up[u] \in Progress /\ q # <<>> /\ t = Head(q) /\ t \in Tables /\ q \in Seq(Tables)
      /\ Noted(up[u]) /\ d \in TableState /\ ReferringLater(q) /\ m \in TableState
      /\ up[u].cols = {} /\ up[u].drops = {} /\ seen \in TableState
  <2>1. /\ up[u] \in Progress /\ q # <<>> /\ t = Head(q) /\ t \in Tables /\ q \in Seq(Tables)
        /\ Noted(up[u]) /\ d \in TableState /\ ReferringLater(q) /\ m \in TableState
    BY <1>2, AtTableKnows
  <2> QED
    BY <1>1, <1>2, <2>1 DEF Noted, Progress
<1>4. seen.cols # {}
  BY <1>1 DEF IInv, SeenFits
<1>5. /\ f \in TableState /\ f.cols = seen.cols /\ f.strict = seen.strict
      /\ f.key = seen.key /\ f.refs = d.refs /\ f.idx = d.idx
  BY <1>3 DEF TableState
<1>6. t \notin Range(Tail(q)) => HandRelies(opts, up[u], txn = u, t, d)
  <2>1. InHand(up[u], t) /\ GoesOn(up[u], q)
    BY <1>2, <1>3, AtTableGoesOn
  <2> QED
    BY <1>3, <2>1 DEF GoesOn, JInv, Relies
<1> HIDE DEF f
<1>7. /\ mode # "create"
      /\ mode \in {"alter", "actual"} => Fits(opts, t, f) /\ f.refs = m.refs
      /\ mode = "actual" => m.cols \subseteq f.cols /\ f.idx = m.idx
  BY <1>3, <1>4, <1>5, ModeTells
<1>8. ASSUME t \notin Range(Tail(q)), mode \in {"alter", "actual"}
      PROVE  /\ d.cols # {} /\ Fits(opts, t, d) /\ m.cols \cap f.cols \subseteq d.cols
             /\ d.refs = m.refs
  <2>1. Fits(opts, t, seen)
    BY <1>5, <1>7, <1>8 DEF Fits
  <2> QED
    BY <1>1, <1>5, <1>6, <1>7, <1>8, <2>1 DEF HandRelies
<1> HIDE DEF mode, t, q, d, m, seen
<1>9. CASE mode = "actual" /\ Goto(u, NextTable(up[u]))
  <2> DEFINE s == NextTable(up[u])
  <2>1. Noted(s) /\ GoesOn(s, q) /\ ~InHand(s, t)
    BY <1>3, NextTableOwes, NextTableGoesOn DEF q
  <2>2. ASSUME t \notin Range(Tail(q))
        PROVE  Relies(opts, s, FALSE, t, d) /\ OwedStill(u, s, t, d, d)
    <3>1. Done(opts, t, d) /\ d.refs = m.refs /\ d.idx = m.idx
      BY <1>5, <1>7, <1>8, <1>9, <2>2 DEF Done, m
    <3> HIDE DEF s
    <3>2. Relies(opts, s, FALSE, t, d)
      BY <2>1, <3>1 DEF Relies
    <3>3. OwedStill(u, s, t, d, d)
      BY <3>1 DEF OwedStill, m
    <3> QED
      BY <3>2, <3>3
  <2> HIDE DEF s
  <2> QED
    BY <1>2, <1>9, <2>1, <2>2, TableStepWritesNothing DEF s, t, q, d
<1>10. CASE mode = "recreate" /\ Goto(u, b)
  <2>1. b.pc = "begin" /\ b.queue = q /\ b.cols = {} /\ b.drops = {} /\ b.makes = Defined(t)
    BY <1>3 DEF Progress, q
  <2> HIDE DEF b
  <2>2. GoesOn(b, q) /\ InHand(b, t) /\ b.pc \in AtTable \ {"columns"}
    BY <1>3, <2>1, AtTableGoesOn DEF AtTable
  <2>3. Noted(b)
    BY <1>3, <2>1 DEF Noted
  <2>4. ASSUME t \notin Range(Tail(q))
        PROVE  Relies(opts, b, FALSE, t, d) /\ OwedStill(u, b, t, d, d)
    <3>1. d.cols # {}
      BY <1>1, <1>6, <2>4 DEF HandRelies
    <3> QED
      BY <2>1, <2>2, <3>1 DEF Relies, HandRelies, OwedStill, Owing, OwingIndex
  <2> QED
    BY <1>2, <1>10, <2>2, <2>3, <2>4, TableStepWritesNothing DEF t, q, d
<1>11. CASE mode = "alter" /\ Goto(u, Working(u, w))
  <2> DEFINE s == Working(u, w)
  <2>1. /\ old \in SUBSET Indexes /\ Defined(t) \in SUBSET Indexes
        /\ m.cols \ f.cols \in SUBSET Cols
    BY <1>3 DEF Outdated, IndexNames, Defined, TableState
  <2>2. /\ w \in Progress /\ w.queue = q /\ w.cols = m.cols \ f.cols /\ w.drops = old
        /\ w.makes = Defined(t) \ (IndexNames(f.idx) \ old)
    BY <1>3, <2>1 DEF Progress, q
  <2> HIDE DEF w
  <2>3. old = {i \in IndexNames(d.idx) : \E c \in Cols : <<i, c>> \in d.idx \ m.idx}
    BY <1>5 DEF Outdated, m
  <2> HIDE DEF old
  <2>4. ASSUME NEW i \in w.drops, NEW x \in Tables, i \in Defined(x)
        PROVE  x = t /\ i \in w.makes
    <3>1. i \in IndexNames(d.idx)
      BY <2>2, <2>3, <2>4
    <3>2. Sound(t, d)
      BY <1>3 DEF JInv, d, t
    <3>3. x = t
      BY <2>4, <3>1, <3>2 DEF Sound
    <3> QED
      BY <2>2, <2>4, <3>3
  <2>5. w.cols \subseteq Model[Head(w.queue)].cols
    BY <1>3, <2>2 DEF m
  <2>6. /\ Noted(s) /\ GoesOn(s, q)
        /\ ~Nothing(w) => /\ s.pc = "work" /\ s.queue = w.queue /\ s.cols = w.cols
                          /\ s.drops = w.drops /\ s.makes = w.makes
        /\ Nothing(w) => ~InHand(s, t)
    <3>1. t = Head(w.queue) /\ w.queue # <<>> /\ ReferringLater(w.queue)
      BY <1>3, <2>2
    <3> QED
      BY <1>2, <2>2, <2>4, <2>5, <3>1, WorkingGoesOn
  <2> HIDE DEF s
  <2>7. ASSUME t \notin Range(Tail(q))
        PROVE  Relies(opts, s, FALSE, t, d) /\ OwedStill(u, s, t, d, d)
    <3>1. d.cols # {} /\ Fits(opts, t, d) /\ d.refs = m.refs /\ m.cols \subseteq d.cols \cup w.cols
      BY <1>8, <1>11, <2>2, <2>7
    <3>2. ASSUME NEW e \in d.idx \ m.idx PROVE e[1] \in w.drops
      <4>1. e[1] \in IndexNames(d.idx) /\ e[2] \in Cols /\ e = <<e[1], e[2]>>
        BY <1>3, <3>2, IndexNamed
      <4>2. <<e[1], e[2]>> \in d.idx \ m.idx
        BY <3>2, <4>1
      <4> QED
        BY <2>2, <2>3, <4>1, <4>2
    <3>3. ASSUME NEW e \in m.idx \ d.idx PROVE e[1] \in w.makes
      <4>1. e[1] \in Defined(t) /\ e \in m.idx
        BY <1>3, <3>3, IndexNamed DEF Defined, m
      <4>2. SUFFICES ASSUME e[1] \in IndexNames(d.idx) PROVE e[1] \in old
        BY <1>5, <2>2, <4>1
      <4>3. PICK c \in Cols : <<e[1], c>> \in d.idx
        BY <4>2 DEF IndexNames
      <4>4. <<e[1], c>> \notin m.idx
        <5>1. \A x, y \in m.idx : x[1] = y[1] => x = y
          BY <1>3 DEF Upgradable, m
        <5>2. <<e[1], c>>[1] = e[1]
          OBVIOUS
        <5> QED
          BY <3>3, <4>3, <5>1, <5>2
      <4> QED
        BY <2>3, <4>2, <4>3, <4>4
    <3>4. CASE Nothing(w)
      <4>1. Done(opts, t, d)
        BY <3>1, <3>2, <3>4 DEF Done, Nothing, m
      <4>2. m.idx \subseteq d.idx
        BY <3>3, <3>4 DEF Nothing
      <4> QED
        BY <2>6, <3>1, <3>4, <4>1, <4>2 DEF Relies, OwedStill, m
    <3>5. CASE ~Nothing(w)
      <4>1. s.pc = "work" /\ s.cols = w.cols /\ s.drops = w.drops /\ s.makes = w.makes
            /\ InHand(s, t)
        BY <1>3, <2>2, <2>6, <3>5 DEF InHand, AtTable
      <4>2. Relies(opts, s, FALSE, t, d)
        BY <3>1, <3>2, <4>1 DEF Relies, HandRelies, m
      <4>3. OwedStill(u, s, t, d, d)
        BY <3>1, <3>3, <4>1 DEF OwedStill, OwingIndex, m
      <4> QED
        BY <4>2, <4>3
    <3> QED
      BY <3>4, <3>5
  <2> QED
    BY <1>2, <1>11, <2>6, <2>7, TableStepWritesNothing DEF s, t, q, d
<1> QED
  BY <1>1, <1>7, <1>9, <1>10, <1>11

\* A step into or in a transaction, which the stored tables do not show.
LEMMA TransactionStep ==
    ASSUME IInv, JInv, NEW u \in Upgraders, up[u].pc \in AtTable \ {"columns"},
           txn = u \/ (up[u].pc = "begin" /\ txn = None), txn' = u,
           NEW s, Goto(u, s), opts' = opts, saved' = saved,
           s.pc \in {"rename", "create", "copy", "drop", "work", "commit"},
           s.queue = up[u].queue, Noted(s),
           Rebuilt(opts, s, db'[Live(Table(u))]),
           \A x \in Tables \ {Table(u)} :
               Untouched(up[u].queue, x, db'[Live(x)], saved[Live(x)])
    PROVE  JInv'
<1>1. s.pc \in AtTable \ {"columns"}
  BY DEF AtTable
<1>2. ASSUME NEW x \in Tables
      PROVE  /\ Owes(s, x) <=> Owes(up[u], x)
             /\ InHand(s, x) <=> InHand(up[u], x)
  BY <1>1, AtTableGoesOn DEF GoesOn
<1>3. ASSUME NEW x \in Tables
      PROVE  /\ Relies(opts, s, TRUE, x, saved[Live(x)])
             /\ Owing(up[u], txn = u, x) => Owing(s, TRUE, x)
             /\ \A i : OwingIndex(up[u], txn = u, x, i) => OwingIndex(s, TRUE, x, i)
  <2>1. Relies(opts, up[u], txn = u, x, saved[Live(x)])
    BY DEF JInv
  <2>2. Relies(opts, s, TRUE, x, saved[Live(x)])
    BY <1>2, <2>1 DEF Relies, HandRelies
  <2>3. Owing(up[u], txn = u, x) => Owing(s, TRUE, x)
    BY <1>2 DEF Owing
  <2>4. \A i : OwingIndex(up[u], txn = u, x, i) => OwingIndex(s, TRUE, x, i)
    BY <1>2, <2>3 DEF OwingIndex, Owing
  <2> QED
    BY <2>2, <2>3, <2>4
<1>4. (txn' = u) = TRUE /\ (\A v \in Upgraders \ {u} : (txn = v) <=> (txn' = v))
      /\ txn \in {u, None}
  BY UpgradeAssumption DEF UpgradeAssumption
<1>5. Table(u) = Head(s.queue)
  BY DEF Table
<1>6. \A x \in Tables :
         /\ Relies(opts, s, txn' = u, x, saved[Live(x)])
         /\ Owing(up[u], txn = u, x) => Owing(s, txn' = u, x)
         /\ \A y \in Model[x].idx : OwingIndex(up[u], txn = u, x, y[1]) =>
                                        OwingIndex(s, txn' = u, x, y[1])
  BY <1>3, <1>4
<1>7. /\ Rebuilt(opts, s, db'[Live(Head(s.queue))])
      /\ \A x \in Tables \ {Head(s.queue)} :
            Untouched(s.queue, x, db'[Live(x)], saved[Live(x)])
  BY <1>5
<1> QED
  BY <1>4, <1>6, <1>7, SavedStays

\* BEGIN: the transaction has made nothing yet.
LEMMA BeginRight ==
    ASSUME IInv, JInv, NEW u \in Upgraders, Begin(u)
    PROVE  JInv'
<1> DEFINE s == [up[u] EXCEPT !.pc = "rename"]
<1>1. /\ up[u].pc = "begin" /\ txn = None /\ txn' = u /\ Goto(u, s)
      /\ UNCHANGED <<db, saved, fk, opts, faults, history>>
  BY DEF Begin
<1>2. up[u] \in Progress /\ Noted(up[u])
  BY <1>1, AtTableKnows DEF AtTable
<1>3. /\ s.pc = "rename" /\ s.queue = up[u].queue /\ s.cols = up[u].cols
      /\ s.drops = up[u].drops /\ s.makes = up[u].makes
  BY <1>2 DEF Progress
<1> HIDE DEF s
<1>4. Noted(s)
  BY <1>1, <1>2, <1>3 DEF Noted, AtTable
<1>5. Rebuilt(opts, s, db'[Live(Table(u))])
  BY <1>3 DEF Rebuilt
<1>6. db' = saved
  BY <1>1 DEF IInv, Transactions
<1>7. \A x \in Tables : Untouched(up[u].queue, x, db'[Live(x)], saved[Live(x)])
  BY <1>6 DEF Untouched
<1>8. /\ up[u].pc \in AtTable \ {"columns"} /\ opts' = opts /\ saved' = saved
      /\ s.pc \in {"rename", "create", "copy", "drop", "work", "commit"}
  BY <1>1, <1>3 DEF AtTable
<1>9. \A x \in Tables \ {Table(u)} :
         Untouched(up[u].queue, x, db'[Live(x)], saved[Live(x)])
  BY <1>7
<1> QED
  BY <1>1, <1>3, <1>4, <1>5, <1>8, <1>9, TransactionStep

\* What is known of an upgrader in a transaction.
LEMMA InsideKnows ==
    ASSUME IInv, JInv, NEW u \in Upgraders, txn = u, up[u].pc # "rollback"
    PROVE  /\ up[u].pc \in AtTable \ {"columns"} /\ up[u].pc \in AtTable
           /\ Rebuilt(opts, up[u], db[Live(Table(u))])
           /\ \A x \in Tables \ {Table(u)} :
                 Untouched(up[u].queue, x, db[Live(x)], saved[Live(x)])
           /\ db[Live(Table(u))] \in TableState
<1>1. up[u].pc \in AtTable \ {"columns"} /\ up[u].pc \in AtTable
  BY InsideAt DEF AtTable
<1>2. Table(u) \in Tables /\ Live(Table(u)) \in Names
  BY <1>1, AtTableKnows, NamesApart
<1> QED
  BY <1>1, <1>2 DEF JInv, OpenRight, Table, IInv, Typed, TypeOK

\* A table with the same columns, keys and indexes is as good.
LEMMA UntouchedStill ==
    ASSUME NEW q, NEW t, NEW x, NEW y, NEW z, Untouched(q, t, x, z),
           y.cols = x.cols, y.strict = x.strict, y.key = x.key, y.idx = x.idx,
           y.refs = x.refs
    PROVE  Untouched(q, t, y, z)
BY DEF Untouched

\* Renaming breaks the foreign keys to the table, of tables that come later.
LEMMA RenameRight ==
    ASSUME IInv, JInv, NEW u \in Upgraders, Rename(u)
    PROVE  JInv'
<1> DEFINE t == Table(u)
           q == up[u].queue
           n == Live(t)
           o == Tmp(t)
           s == [up[u] EXCEPT !.pc = "create"]
           follow(x) == [x EXCEPT !.refs = {IF r = n THEN o ELSE r : r \in @}]
           d == [x \in Names |-> IF x = n THEN NoTable
                                 ELSE IF x = o THEN follow(db[n]) ELSE follow(db[x])]
<1>1. up[u].pc = "rename" /\ Write(u, d) /\ Goto(u, s)
  BY DEF Rename
<1>2. txn = u /\ up[u].pc \in AtTable
  BY <1>1 DEF IInv, Transactions, Recreating, AtTable
<1>3. txn' = u /\ db' = d /\ saved' = saved /\ opts' = opts
  BY <1>1, <1>2 DEF Write
<1>4. /\ up[u] \in Progress /\ Noted(up[u]) /\ t = Head(q) /\ t \in Tables
      /\ q \in Seq(Tables) /\ q # <<>> /\ ReferringLater(q)
  BY <1>2, AtTableKnows
<1>5. /\ s.pc = "create" /\ s.queue = q /\ s.cols = up[u].cols
      /\ s.drops = up[u].drops /\ s.makes = up[u].makes
  BY <1>4 DEF Progress
<1> HIDE DEF s
<1>6. Noted(s) /\ Rebuilt(opts, s, db'[Live(t)])
  BY <1>1, <1>4, <1>5 DEF Noted, AtTable, Rebuilt
<1>7. ASSUME NEW x \in Tables, x # t PROVE Untouched(q, x, db'[Live(x)], saved[Live(x)])
  <2> DEFINE old == db[Live(x)]
             new == db'[Live(x)]
  <2>1. Live(x) \in Names /\ Live(x) # n /\ Live(x) # o
    BY <1>4, <1>7, NamesApart
  <2>2. old \in TableState
    BY <2>1 DEF IInv, Typed, TypeOK
  <2>3. new = follow(old)
    BY <1>3, <2>1
  <2>4. /\ new.cols = old.cols /\ new.strict = old.strict /\ new.key = old.key
        /\ new.idx = old.idx /\ new.refs = {IF r = n THEN o ELSE r : r \in old.refs}
    BY <2>2, <2>3 DEF TableState
  <2>5. Untouched(q, x, old, saved[Live(x)])
    BY <1>1, <1>2, <1>7, InsideKnows
  <2>6. CASE n \in old.refs
    <3>1. n \in Model[x].refs => x \in Range(Tail(q))
      BY <1>4, <1>7, QueueParts
    <3> QED
      BY <2>4, <2>5, <2>6, <3>1 DEF Untouched
  <2>7. CASE n \notin old.refs
    <3>1. new.refs = old.refs
      BY <2>4, <2>7
    <3> HIDE DEF new, old
    <3> QED
      BY <2>4, <2>5, <3>1, UntouchedStill DEF new
  <2> QED
    BY <2>6, <2>7
<1>8. /\ up[u].pc \in AtTable \ {"columns"}
      /\ s.pc \in {"rename", "create", "copy", "drop", "work", "commit"}
  BY <1>1, <1>5 DEF AtTable
<1>9. \A x \in Tables \ {Table(u)} :
         Untouched(up[u].queue, x, db'[Live(x)], saved[Live(x)])
  BY <1>7
<1> HIDE DEF d, t, n, o, q
<1> QED
  BY <1>1, <1>2, <1>3, <1>5, <1>6, <1>8, <1>9, TransactionStep DEF t, n, q

\* A step that leaves the other tables of the transaction as they are.
LEMMA OthersUntouched ==
    ASSUME IInv, JInv, NEW u \in Upgraders, txn = u, up[u].pc # "rollback",
           \A x \in Tables \ {Table(u)} :
               LET a == db'[Live(x)]  b == db[Live(x)] IN
               /\ a.cols = b.cols /\ a.strict = b.strict /\ a.key = b.key
               /\ a.idx = b.idx /\ a.refs = b.refs
    PROVE  \A x \in Tables \ {Table(u)} :
               Untouched(up[u].queue, x, db'[Live(x)], saved[Live(x)])
BY InsideKnows, UntouchedStill

\* The table made from the definition, with the columns kept.
Made(t, x) == [Model[t] EXCEPT !.cols = @ \cup Extra(t, x), !.idx = {}]

\* It lacks nothing but indexes.
LEMMA MadeIsDone ==
    ASSUME Upgradable, NEW t \in Tables, NEW x \in TableState
    PROVE  /\ Made(t, x).refs = Model[t].refs /\ Made(t, x).idx = {}
           /\ Made(t, x).strict = Model[t].strict
           /\ Made(t, x).strict \subseteq Made(t, x).cols
           /\ Done(opts, t, Made(t, x))
<1> DEFINE m == Model[t]
           new == Made(t, x)
<1>1. m \in TableState /\ m.cols # {} /\ m.strict \subseteq m.cols
  BY UpgradeAssumption DEF UpgradeAssumption, Upgradable
<1>2. /\ new.refs = m.refs /\ new.idx = {} /\ new.strict = m.strict
      /\ new.cols = m.cols \cup Extra(t, x) /\ new.key = m.key
  BY <1>1 DEF TableState, Made
<1>3. \A c \in Extra(t, x) : opts.keep
  BY DEF Extra
<1> HIDE DEF new
<1>4. Done(opts, t, new)
  BY <1>1, <1>2, <1>3 DEF Done, Fits
<1> QED
  BY <1>1, <1>2, <1>4 DEF new

\* The table is created as defined, but for its indexes.
LEMMA CreateRight ==
    ASSUME Upgradable, IInv, JInv, NEW u \in Upgraders, Create(u)
    PROVE  JInv'
<1> DEFINE t == Table(u)
           q == up[u].queue
           n == Live(t)
           seen == up[u].seen
           new == Made(t, seen)
           d == [db EXCEPT ![n] = new]
           c == [up[u] EXCEPT !.pc = "copy"]
           w == Working(u, up[u])
<1>1. /\ up[u].pc = "create" /\ ~Exists(db, n) /\ Write(u, d)
      /\ Goto(u, IF seen = NoTable THEN w ELSE c)
  BY DEF Create, CanCreate, Made
<1>2. up[u].pc \in AtTable /\ up[u].pc \in AtTable \ {"columns"}
  BY <1>1 DEF AtTable
<1>3. /\ up[u] \in Progress /\ Noted(up[u]) /\ t = Head(q) /\ t \in Tables
      /\ q \in Seq(Tables) /\ q # <<>> /\ ReferringLater(q) /\ up[u].seen \in TableState
      /\ up[u].cols = {} /\ up[u].drops = {} /\ up[u].makes = Defined(t)
  <2>1. /\ up[u] \in Progress /\ Noted(up[u]) /\ t = Head(q) /\ t \in Tables
        /\ q \in Seq(Tables) /\ q # <<>> /\ ReferringLater(q)
    BY <1>2, AtTableKnows
  <2> QED
    BY <1>1, <1>2, <2>1 DEF Noted, Progress
<1>4. db \in [Names -> TableState] /\ n \in Names
      /\ \A x \in Tables : Live(x) \in Names /\ (x # t => Live(x) # n)
  BY <1>3, NamesApart DEF IInv, Typed, TypeOK
<1>5. d[n] = new /\ \A x \in Tables \ {t} : d[Live(x)] = db[Live(x)]
  BY <1>4
<1>6. /\ new.refs = Model[t].refs /\ new.idx = {} /\ new.strict = Model[t].strict
      /\ new.strict \subseteq new.cols /\ Done(opts, t, new)
  BY <1>3, MadeIsDone
<1> HIDE DEF new, d, seen
<1>7. CASE seen # NoTable
  <2>1. txn = u
    BY <1>1, <1>7 DEF IInv, Transactions, Recreating, seen
  <2>2. txn' = u /\ db' = d /\ saved' = saved /\ opts' = opts /\ Goto(u, c)
    BY <1>1, <1>7, <2>1 DEF Write
  <2>3. /\ c.pc = "copy" /\ c.queue = q /\ c.cols = {} /\ c.drops = {} /\ c.makes = Defined(t)
    BY <1>3 DEF Progress
  <2> HIDE DEF c
  <2>4. Noted(c)
    BY <1>3, <2>3 DEF Noted
  <2>5. Rebuilt(opts, c, db'[n])
    BY <1>3, <1>5, <1>6, <2>2, <2>3 DEF Rebuilt
  <2>6. \A x \in Tables \ {t} : db'[Live(x)] = db[Live(x)]
    BY <1>5, <2>2
  <2>7. \A x \in Tables \ {t} : Untouched(q, x, db'[Live(x)], saved[Live(x)])
    BY <1>1, <2>1, <2>6, OthersUntouched
  <2>8. c.pc \in {"rename", "create", "copy", "drop", "work", "commit"}
    BY <2>3
  <2> HIDE DEF t, q, n
  <2> QED
    BY <1>2, <2>1, <2>2, <2>3, <2>4, <2>5, <2>7, <2>8, TransactionStep DEF t, q, n
<1>8. CASE seen = NoTable
  <2>1. txn = None /\ txn # u
    <3>1. txn # u
      BY <1>1, <1>8, InsideAt DEF seen
    <3> QED
      BY <1>1, <3>1 DEF Write
  <2>2. /\ txn' = txn /\ db' = d /\ saved' = d /\ opts' = opts /\ db = saved /\ Goto(u, w)
    BY <1>1, <1>8, <2>1 DEF Write, IInv, Transactions
  <2>3. saved[n].cols = {}
    BY <1>1, <2>2 DEF Exists
  <2>4. /\ Noted(w) /\ GoesOn(w, q)
        /\ ~Nothing(up[u]) => /\ w.pc = "work" /\ w.queue = q /\ w.cols = {}
                              /\ w.drops = {} /\ w.makes = Defined(t)
        /\ Nothing(up[u]) => ~InHand(w, t)
    BY <1>3, <2>1, WorkingGoesOn
  <2> HIDE DEF w
  <2>5. Relies(opts, w, FALSE, t, new)
    <3>1. CASE Nothing(up[u])
      BY <1>6, <2>4, <3>1 DEF Relies
    <3>2. CASE ~Nothing(up[u])
      <4>1. InHand(w, t)
        BY <1>3, <2>4, <3>2 DEF InHand, AtTable
      <4> QED
        BY <1>6, <2>4, <3>2, <4>1 DEF Relies, HandRelies, Done, Fits
    <3> QED
      BY <3>1, <3>2
  <2>6. OwedStill(u, w, t, saved[n], new)
    <3>1. ASSUME NEW e \in Model[t].idx PROVE OwingIndex(w, FALSE, t, e[1])
      <4>1. Model[t] \in TableState
        BY <1>3, UpgradeAssumption DEF UpgradeAssumption
      <4>2. e[1] \in Defined(t)
        BY <4>1, IndexNamed DEF Defined
      <4>3. ~Nothing(up[u])
        BY <1>3, <4>2 DEF Nothing
      <4> QED
        BY <1>3, <2>4, <4>2, <4>3 DEF OwingIndex, InHand, AtTable
    <3>2. (txn' = u) = FALSE
      BY <2>1, <2>2
    <3> QED
      BY <1>6, <3>1, <3>2 DEF OwedStill
  <2>7. Better(opts, t, saved[n], new)
    BY <1>6, <2>3 DEF Better, Done, Fits
  <2>8. Sound(t, new)
    BY <1>6 DEF Sound, IndexNames
  <2>9. \A x \in Tables : /\ Better(opts, x, saved[Live(x)], saved'[Live(x)])
                          /\ Sound(x, saved'[Live(x)])
                          /\ x = t \/ NoWorse(x, saved[Live(x)], saved'[Live(x)])
    <3> SUFFICES ASSUME NEW x \in Tables, x # t
                 PROVE  /\ Better(opts, x, saved[Live(x)], saved'[Live(x)])
                        /\ Sound(x, saved'[Live(x)])
                        /\ NoWorse(x, saved[Live(x)], saved'[Live(x)])
      BY <1>5, <2>2, <2>7, <2>8
    <3>1. saved'[Live(x)] = saved[Live(x)]
      BY <1>5, <2>2
    <3>2. Sound(x, saved[Live(x)])
      BY DEF JInv
    <3> QED
      BY <3>1, <3>2, SameTable
  <2>10. /\ Relies(opts, w, txn' = u, t, saved'[n])
         /\ OwedStill(u, w, t, saved[n], saved'[n])
    BY <1>5, <2>1, <2>2, <2>5, <2>6
  <2> HIDE DEF t, q, n
  <2> QED
    BY <1>2, <2>1, <2>2, <2>4, <2>9, <2>10, TableStep DEF t, q, n
<1> QED
  BY <1>7, <1>8

\* Copying rows changes no definition,
LEMMA CopyRight ==
    ASSUME IInv, JInv, NEW u \in Upgraders, Copy(u)
    PROVE  JInv'
<1> DEFINE t == Table(u)
           q == up[u].queue
           n == Live(t)
           d == [db EXCEPT ![n].cells =
                    @ \cup {x \in db[Tmp(t)].cells : x[2] \in Copied(t, up[u].seen)}]
           s == [up[u] EXCEPT !.pc = "drop"]
<1>1. up[u].pc = "copy" /\ Write(u, d) /\ Goto(u, s)
  BY DEF Copy
<1>2. txn = u /\ up[u].pc \in AtTable /\ up[u].pc \in AtTable \ {"columns"}
  BY <1>1 DEF IInv, Transactions, Recreating, AtTable
<1>3. txn' = u /\ db' = d /\ saved' = saved /\ opts' = opts
  BY <1>1, <1>2 DEF Write
<1>4. /\ up[u] \in Progress /\ Noted(up[u]) /\ t = Head(q) /\ t \in Tables
  BY <1>2, AtTableKnows
<1>5. /\ s.pc = "drop" /\ s.queue = q /\ s.cols = up[u].cols
      /\ s.drops = up[u].drops /\ s.makes = up[u].makes
  BY <1>4 DEF Progress
<1> HIDE DEF s
<1>6. Noted(s)
  BY <1>1, <1>2, <1>4, <1>5 DEF Noted
<1>7. db \in [Names -> TableState] /\ n \in Names /\ db[n] \in TableState
  BY <1>4, NamesApart DEF IInv, Typed, TypeOK
<1>8. /\ d[n].cols = db[n].cols /\ d[n].strict = db[n].strict /\ d[n].key = db[n].key
      /\ d[n].refs = db[n].refs /\ d[n].idx = db[n].idx
  BY <1>7 DEF TableState
<1>9. \A x \in Tables \ {t} : d[Live(x)] = db[Live(x)]
  BY <1>4, <1>7, NamesApart
<1> HIDE DEF d
<1>10. Rebuilt(opts, up[u], db[n])
  BY <1>1, <1>2, InsideKnows
<1>11. Done(opts, t, d[n]) /\ d[n].refs = Model[t].refs /\ d[n].strict \subseteq d[n].cols
  <2>1. /\ Done(opts, t, db[n]) /\ db[n].refs = Model[t].refs
        /\ db[n].strict \subseteq db[n].cols
    BY <1>1, <1>4, <1>10 DEF Rebuilt
  <2> QED
    BY <1>8, <2>1, SameTable
<1>12. Rebuilt(opts, s, db'[n])
  BY <1>3, <1>4, <1>5, <1>11 DEF Rebuilt
<1>13. \A x \in Tables \ {t} : Untouched(q, x, db'[Live(x)], saved[Live(x)])
  BY <1>1, <1>2, <1>3, <1>9, OthersUntouched
<1>14. s.pc \in {"rename", "create", "copy", "drop", "work", "commit"}
  BY <1>5
<1> HIDE DEF t, q, n
<1> QED
  BY <1>1, <1>2, <1>3, <1>5, <1>6, <1>12, <1>13, <1>14, TransactionStep DEF t, q, n

\* nor does dropping the old table; its indexes have to be created again.
LEMMA DropOldRight ==
    ASSUME IInv, JInv, NEW u \in Upgraders, DropOld(u)
    PROVE  JInv'
<1> DEFINE t == Table(u)
           q == up[u].queue
           n == Live(t)
           o == Tmp(t)
           d == [x \in Names |->
                    IF x = o THEN NoTable
                    ELSE IF fk[u] /\ o \in db[x].refs THEN [db[x] EXCEPT !.cells = {}]
                    ELSE db[x]]
           s == Working(u, up[u])
<1>1. up[u].pc = "drop" /\ Write(u, d) /\ Goto(u, s)
  BY DEF DropOld
<1>2. txn = u /\ up[u].pc \in AtTable /\ up[u].pc \in AtTable \ {"columns"}
  BY <1>1 DEF IInv, Transactions, Recreating, AtTable
<1>3. txn' = u /\ db' = d /\ saved' = saved /\ opts' = opts
  BY <1>1, <1>2 DEF Write
<1>4. /\ up[u] \in Progress /\ Noted(up[u]) /\ t = Head(q) /\ t \in Tables
      /\ q # <<>> /\ ReferringLater(q) /\ Model[t] \in TableState
  BY <1>2, AtTableKnows
<1>5. up[u].cols = {} /\ up[u].drops = {} /\ up[u].makes = Defined(t)
  BY <1>1, <1>2, <1>4 DEF Noted
<1>6. /\ Noted(s) /\ s.pc \in {"work", "commit"} /\ s.queue = q /\ s.makes = Defined(t)
      /\ s.pc = "work" => s.cols = {} /\ s.drops = {}
      /\ s.pc = "commit" => s.makes = {}
  BY <1>2, <1>4, <1>5, WorkingGoesOn DEF Nothing
<1> HIDE DEF s
<1>7. ASSUME NEW x \in Tables
      PROVE  /\ d[Live(x)].cols = db[Live(x)].cols /\ d[Live(x)].strict = db[Live(x)].strict
             /\ d[Live(x)].key = db[Live(x)].key /\ d[Live(x)].refs = db[Live(x)].refs
             /\ d[Live(x)].idx = db[Live(x)].idx
  <2>1. Live(x) \in Names /\ Live(x) # o /\ db[Live(x)] \in TableState
    BY <1>4, NamesApart DEF IInv, Typed, TypeOK
  <2>2. d[Live(x)] \in {db[Live(x)], [db[Live(x)] EXCEPT !.cells = {}]}
    BY <2>1
  <2> HIDE DEF d
  <2> QED
    BY <2>1, <2>2 DEF TableState
<1> HIDE DEF d
<1>8. Rebuilt(opts, up[u], db[n])
  BY <1>1, <1>2, InsideKnows
<1>9. Done(opts, t, d[n]) /\ d[n].refs = Model[t].refs /\ d[n].strict \subseteq d[n].cols
  <2>1. /\ Done(opts, t, db[n]) /\ db[n].refs = Model[t].refs
        /\ db[n].strict \subseteq db[n].cols
    BY <1>1, <1>4, <1>8 DEF Rebuilt
  <2> HIDE DEF t
  <2> QED
    BY <1>4, <1>7, <2>1, SameTable
<1>10. \A e \in Model[t].idx : e[1] \in s.makes
  BY <1>4, <1>6, IndexNamed DEF Defined
<1>11. Rebuilt(opts, s, db'[n])
  BY <1>3, <1>4, <1>6, <1>9, <1>10 DEF Rebuilt
<1>12. \A x \in Tables \ {t} : Untouched(q, x, db'[Live(x)], saved[Live(x)])
  BY <1>1, <1>2, <1>3, <1>7, OthersUntouched
<1>13. s.pc \in {"rename", "create", "copy", "drop", "work", "commit"}
  BY <1>6
<1> HIDE DEF t, q, n
<1> QED
  BY <1>1, <1>2, <1>3, <1>6, <1>11, <1>12, <1>13, TransactionStep DEF t, q, n

\* What an upgrader at work outside a transaction relies on of its table.
LEMMA WorkKnows ==
    ASSUME IInv, JInv, NEW u \in Upgraders, up[u].pc = "work", txn # u,
           Table(u) \notin Range(Tail(up[u].queue))
    PROVE  LET d == saved[Live(Table(u))] IN
           /\ d.cols # {} /\ Fits(opts, Table(u), d)
           /\ Model[Table(u)].cols \subseteq d.cols \cup up[u].cols
           /\ \A e \in d.idx \ Model[Table(u)].idx : e[1] \in up[u].drops
           /\ ~Owing(up[u], txn = u, Table(u))
<1>1. /\ up[u].pc \in AtTable \ {"columns"} /\ up[u].pc \in AtTable
      /\ Table(u) \in Tables /\ Table(u) = Head(up[u].queue)
  BY AtTableKnows DEF AtTable
<1>2. InHand(up[u], Table(u)) /\ ~Owes(up[u], Table(u))
  BY <1>1, AtTableGoesOn DEF GoesOn
<1>3. HandRelies(opts, up[u], txn = u, Table(u), saved[Live(Table(u))])
  BY <1>1, <1>2 DEF JInv, Relies
<1>4. ~Owing(up[u], txn = u, Table(u))
  BY <1>2 DEF Owing, Recreates
<1> QED
  BY <1>3, <1>4 DEF HandRelies

\* A step of an upgrader at work, outside a transaction.
LEMMA WorkOutside ==
    ASSUME IInv, JInv, NEW u \in Upgraders, up[u].pc = "work", txn = None, txn' = txn,
           saved' = db', opts' = opts,
           NEW s \in Progress, Goto(u, Working(u, s)), s.queue = up[u].queue,
           s.cols \subseteq up[u].cols, s.drops \subseteq up[u].drops,
           \A i \in s.drops : i \in up[u].makes => i \in s.makes,
           \A x \in Tables : /\ Better(opts, x, saved[Live(x)], saved'[Live(x)])
                             /\ Sound(x, saved'[Live(x)])
                             /\ x = Table(u) \/ NoWorse(x, saved[Live(x)], saved'[Live(x)]),
           LET t == Table(u)  d == saved[Live(t)]  e == saved'[Live(t)] IN
           t \notin Range(Tail(up[u].queue)) =>
               /\ e.refs = d.refs /\ Model[t].cols \subseteq e.cols \cup s.cols
               /\ \A x \in e.idx \ Model[t].idx : x[1] \in s.drops
               /\ \A x \in Model[t].idx \ e.idx :
                     x[1] \in s.makes \/ (x \notin d.idx /\ x[1] \notin up[u].makes)
    PROVE  JInv'
<1> DEFINE t == Table(u)
           q == up[u].queue
           d == saved[Live(t)]
           e == saved'[Live(t)]
           w == Working(u, s)
           m == Model[t]
<1>1. /\ up[u].pc \in AtTable /\ up[u].pc \in AtTable \ {"columns"}
      /\ txn # u /\ None \notin Upgraders
  BY UpgradeAssumption DEF AtTable, UpgradeAssumption
<1>2. /\ Noted(up[u]) /\ t = Head(q) /\ t \in Tables /\ q # <<>> /\ ReferringLater(q)
  BY <1>1, AtTableKnows
<1>3. /\ s.cols \subseteq Model[Head(s.queue)].cols
      /\ \A i \in s.drops, x \in Tables :
            i \in Defined(x) => x = Head(s.queue) /\ i \in s.makes
  BY <1>1, <1>2 DEF Noted
<1>4. /\ Noted(w) /\ GoesOn(w, q)
      /\ ~Nothing(s) => /\ w.pc = "work" /\ w.queue = q /\ w.cols = s.cols
                        /\ w.drops = s.drops /\ w.makes = s.makes
      /\ Nothing(s) => ~InHand(w, t)
  BY <1>1, <1>2, <1>3, WorkingGoesOn
<1> HIDE DEF w
<1>5. ~Nothing(s) => InHand(w, t)
  BY <1>2, <1>4 DEF InHand, AtTable
<1>6. ASSUME t \notin Range(Tail(q))
      PROVE  Relies(opts, w, FALSE, t, e) /\ OwedStill(u, w, t, d, e)
  <2>1. /\ e.refs = d.refs /\ m.cols \subseteq e.cols \cup s.cols
        /\ \A x \in e.idx \ m.idx : x[1] \in s.drops
        /\ \A x \in m.idx \ e.idx :
              x[1] \in s.makes \/ (x \notin d.idx /\ x[1] \notin up[u].makes)
    BY <1>6
  <2>2. d.cols # {} /\ Fits(opts, t, d) /\ ~Owing(up[u], txn = u, t)
    BY <1>1, <1>6, WorkKnows
  <2>3. Fits(opts, t, e)
    BY <1>2, <2>2 DEF Better
  <2> HIDE DEF t, q, d, e, m
  <2>4. Relies(opts, w, FALSE, t, e)
    <3>1. CASE Nothing(s)
      <4>1. Done(opts, t, e)
        BY <2>1, <2>3, <3>1 DEF Done, Nothing, m
      <4> QED
        BY <1>4, <3>1, <4>1 DEF Relies
    <3>2. CASE ~Nothing(s)
      BY <1>4, <1>5, <2>1, <2>3, <3>2 DEF Relies, HandRelies, Fits, m
    <3> QED
      BY <3>1, <3>2
  <2>5. OwedStill(u, w, t, d, e)
    <3>1. ASSUME NEW x \in m.idx \ e.idx
          PROVE  \/ OwingIndex(w, txn' = u, t, x[1])
                 \/ d.cols # {} /\ x \notin d.idx /\ ~OwingIndex(up[u], txn = u, t, x[1])
      <4>1. CASE x[1] \in s.makes
        BY <1>4, <1>5, <4>1 DEF OwingIndex, Nothing
      <4>2. CASE x \notin d.idx /\ x[1] \notin up[u].makes
        BY <2>2, <4>2 DEF OwingIndex
      <4> QED
        BY <2>1, <4>1, <4>2
    <3> QED
      BY <2>1, <2>2, <3>1 DEF OwedStill, m
  <2> QED
    BY <2>4, <2>5
<1>7. (txn' = u) = FALSE
  BY <1>1
<1>8. /\ \A v \in Upgraders \ {u} : (txn = v) <=> (txn' = v)
      /\ txn \notin {u, None} => db' = db /\ saved' = saved
      /\ Goto(u, w)
  BY DEF w
<1>9. ASSUME Table(u) \notin Range(Tail(up[u].queue))
      PROVE  /\ Relies(opts, w, txn' = u, Table(u), saved'[Live(Table(u))])
             /\ OwedStill(u, w, Table(u), saved[Live(Table(u))], saved'[Live(Table(u))])
  BY <1>6, <1>7, <1>9
<1>10. Noted(w) /\ GoesOn(w, up[u].queue)
  BY <1>4
<1> HIDE DEF t, q, d, e, m
<1> QED
  BY <1>1, <1>7, <1>8, <1>9, <1>10, TableStep

\* In a transaction only indexes are left to create, when the table is made.
LEMMA WorkInside ==
    ASSUME IInv, JInv, NEW u \in Upgraders, up[u].pc = "work", txn = u
    PROVE  up[u].cols = {} /\ up[u].drops = {}
<1>1. Rebuilt(opts, up[u], db[Live(Table(u))])
  BY InsideKnows
<1> QED
  BY <1>1 DEF Rebuilt

\* A column less to add, or it was the last thing to do.
LEMMA AddColumnRight ==
    ASSUME IInv, JInv, NEW u \in Upgraders, NEW c \in Cols, AddColumn(u, c)
    PROVE  JInv'
<1> DEFINE t == Table(u)
           q == up[u].queue
           n == Live(t)
           d == saved[n]
           m == Model[t]
           e == [d EXCEPT !.cols = @ \cup {c},
                          !.strict = IF c \in m.strict THEN @ \cup {c} ELSE @]
           s == [up[u] EXCEPT !.cols = @ \ {c}]
<1>1. /\ up[u].pc = "work" /\ c \in up[u].cols /\ CanAdd(u, c)
      /\ Write(u, [db EXCEPT ![n].cols = @ \cup {c},
                             ![n].strict = IF c \in m.strict THEN @ \cup {c} ELSE @])
      /\ Goto(u, Working(u, s))
  BY DEF AddColumn
<1>2. txn = None /\ up[u].pc \in AtTable
  BY <1>1, WorkInside DEF Write, AtTable
<1>3. db = saved /\ None \notin Upgraders
  BY <1>2, UpgradeAssumption DEF IInv, Transactions, UpgradeAssumption
<1>4. /\ up[u] \in Progress /\ Noted(up[u]) /\ t = Head(q) /\ t \in Tables
      /\ d \in TableState
  BY <1>2, AtTableKnows
<1>5. db \in [Names -> TableState] /\ n \in Names /\ \A x \in Tables : Live(x) \in Names
  BY <1>4, NamesApart DEF IInv, Typed, TypeOK
<1>6. e.cols = d.cols \cup {c} /\ e.key = d.key /\ e.refs = d.refs /\ e.idx = d.idx
      /\ e.strict = IF c \in m.strict THEN d.strict \cup {c} ELSE d.strict
  BY <1>4 DEF TableState
<1>7. /\ txn' = txn /\ saved' = db' /\ opts' = opts /\ db'[n] = e
      /\ \A x \in Tables \ {t} : db'[Live(x)] = saved[Live(x)]
  <2>1. /\ db' = [db EXCEPT ![n].cols = @ \cup {c},
                            ![n].strict = IF c \in m.strict THEN @ \cup {c} ELSE @]
        /\ saved' = db' /\ txn' = txn /\ opts' = opts
    BY <1>1, <1>2, <1>3 DEF Write
  <2>2. \A x \in Tables \ {t} : Live(x) # n
    BY <1>4, NamesApart
  <2> QED
    BY <1>3, <1>5, <2>1, <2>2
<1>8. /\ s \in Progress /\ s.queue = q /\ s.cols = up[u].cols \ {c}
      /\ s.drops = up[u].drops /\ s.makes = up[u].makes
  BY <1>4, SMTT(30) DEF Progress
<1> HIDE DEF s, e
<1>9. c \in m.cols /\ c \notin d.cols
  BY <1>1, <1>3, <1>4 DEF Noted, CanAdd
<1>10. Sound(t, d)
  BY <1>4 DEF JInv
<1>11. Better(opts, t, d, e) /\ Sound(t, e)
  <2>1. c \notin d.strict
    BY <1>9, <1>10 DEF Sound
  <2>2. ASSUME Fits(opts, t, d) PROVE Fits(opts, t, e)
    <3>1. \A x \in e.cols \ m.cols : opts.keep /\ x \notin e.strict
      BY <1>6, <1>9, <2>2 DEF Fits
    <3>2. \A x \in e.cols \cap m.cols : x \in e.strict <=> x \in m.strict
      BY <1>6, <1>9, <2>1, <2>2 DEF Fits
    <3> QED
      BY <1>6, <2>2, <3>1, <3>2 DEF Fits
  <2>3. Better(opts, t, d, e)
    BY <1>6, <2>2 DEF Better
  <2>4. Sound(t, e)
    BY <1>6, <1>10 DEF Sound
  <2> QED
    BY <2>3, <2>4
<1>12. ASSUME NEW x \in Tables
       PROVE  /\ Better(opts, x, saved[Live(x)], saved'[Live(x)])
              /\ Sound(x, saved'[Live(x)])
              /\ x = Table(u) \/ NoWorse(x, saved[Live(x)], saved'[Live(x)])
  <2>1. CASE x = t
    BY <1>7, <1>11, <2>1
  <2>2. CASE x # t
    <3>1. saved'[Live(x)] = saved[Live(x)]
      BY <1>7, <2>2
    <3>2. Sound(x, saved[Live(x)])
      BY DEF JInv
    <3> QED
      BY <3>1, <3>2, SameTable
  <2> QED
    BY <2>1, <2>2
<1>13. ASSUME t \notin Range(Tail(q))
       PROVE  /\ e.refs = d.refs /\ m.cols \subseteq e.cols \cup s.cols
              /\ \A x \in e.idx \ m.idx : x[1] \in s.drops
              /\ \A x \in m.idx \ e.idx :
                    x[1] \in s.makes \/ (x \notin d.idx /\ x[1] \notin up[u].makes)
  <2>1. /\ m.cols \subseteq d.cols \cup up[u].cols
        /\ \A x \in d.idx \ m.idx : x[1] \in up[u].drops
    BY <1>1, <1>2, <1>3, <1>13, WorkKnows
  <2> HIDE DEF t, q, d, m
  <2>2. m.cols \subseteq e.cols \cup s.cols
    BY <1>6, <1>8, <2>1
  <2> QED
    BY <1>6, <1>8, <2>1, <2>2
<1>14. LET x == Table(u)  y == saved[Live(x)]  z == saved'[Live(x)] IN
       x \notin Range(Tail(up[u].queue)) =>
           /\ z.refs = y.refs /\ Model[x].cols \subseteq z.cols \cup s.cols
           /\ \A i \in z.idx \ Model[x].idx : i[1] \in s.drops
           /\ \A i \in Model[x].idx \ z.idx :
                 i[1] \in s.makes \/ (i \notin y.idx /\ i[1] \notin up[u].makes)
  BY <1>7, <1>13
<1>15. /\ s.queue = up[u].queue /\ s.cols \subseteq up[u].cols
       /\ s.drops \subseteq up[u].drops
       /\ \A i \in s.drops : i \in up[u].makes => i \in s.makes
  BY <1>8
<1> HIDE DEF t, q, n, d, m
<1> QED
  BY <1>1, <1>2, <1>7, <1>8, <1>12, <1>14, <1>15, WorkOutside

\* Dropping an index: no other table is meant to have one of that name, and this
\* one will create it again, if it is defined.
LEMMA DropIndexRight ==
    ASSUME IInv, JInv, NEW u \in Upgraders, NEW i \in Indexes, DropIndex(u, i)
    PROVE  JInv'
<1> DEFINE t == Table(u)
           q == up[u].queue
           d(x) == saved[Live(x)]
           m == Model[t]
           e(x) == saved'[Live(x)]
           s == [up[u] EXCEPT !.drops = @ \ {i}]
<1>1. /\ up[u].pc = "work" /\ up[u].cols = {} /\ i \in up[u].drops
      /\ Write(u, [x \in Names |-> [db[x] EXCEPT !.idx = {y \in @ : y[1] # i}]])
      /\ Goto(u, Working(u, s))
  BY DEF DropIndex
<1>2. txn = None /\ up[u].pc \in AtTable
  BY <1>1, WorkInside DEF Write, AtTable
<1>3. db = saved /\ None \notin Upgraders
  BY <1>2, UpgradeAssumption DEF IInv, Transactions, UpgradeAssumption
<1>4. up[u] \in Progress /\ Noted(up[u]) /\ t = Head(q) /\ t \in Tables
  BY <1>2, AtTableKnows
<1>5. /\ txn' = txn /\ saved' = db' /\ opts' = opts
      /\ db' = [x \in Names |-> [db[x] EXCEPT !.idx = {y \in @ : y[1] # i}]]
  BY <1>1, <1>2, <1>3 DEF Write
<1>6. ASSUME NEW x \in Tables
      PROVE  /\ e(x).cols = d(x).cols /\ e(x).strict = d(x).strict /\ e(x).key = d(x).key
             /\ e(x).refs = d(x).refs /\ e(x).idx = {y \in d(x).idx : y[1] # i}
             /\ d(x) \in TableState
  <2>1. Live(x) \in Names /\ d(x) \in TableState
    BY NamesApart DEF IInv, Typed, TypeOK
  <2>2. e(x) = [d(x) EXCEPT !.idx = {y \in @ : y[1] # i}]
    BY <1>3, <1>5, <2>1
  <2> QED
    BY <2>1, <2>2 DEF TableState
<1>7. /\ s \in Progress /\ s.queue = q /\ s.cols = up[u].cols
      /\ s.drops = up[u].drops \ {i} /\ s.makes = up[u].makes
  BY <1>4 DEF Progress
<1> HIDE DEF s, e, d
<1>8. \A x \in Tables : i \in Defined(x) => x = t /\ i \in up[u].makes
  BY <1>1, <1>4 DEF Noted
<1>9. ASSUME NEW x \in Tables, NEW y \in Model[x].idx, y[1] = i
      PROVE  x = t /\ i \in up[u].makes
  <2>1. Model[x] \in TableState
    BY UpgradeAssumption DEF UpgradeAssumption
  <2>2. i \in Defined(x)
    BY <1>9, <2>1, IndexNamed DEF Defined
  <2> QED
    BY <1>8, <2>2
<1>10. ASSUME NEW x \in Tables
       PROVE  /\ Better(opts, x, d(x), e(x)) /\ Sound(x, e(x))
              /\ x = t \/ NoWorse(x, d(x), e(x))
  <2>1. Better(opts, x, d(x), e(x))
    BY <1>6 DEF Better, Fits
  <2>2. Sound(x, d(x))
    BY DEF JInv, d
  <2>3. IndexNames(e(x).idx) \subseteq IndexNames(d(x).idx)
    BY <1>6 DEF IndexNames
  <2>4. Sound(x, e(x))
    BY <1>6, <2>2, <2>3 DEF Sound
  <2>5. ASSUME x # t PROVE NoWorse(x, d(x), e(x))
    <3>1. \A y \in Model[x].idx \ e(x).idx : y \notin d(x).idx
      BY <1>6, <1>9, <2>5
    <3> QED
      BY <1>6, <3>1 DEF NoWorse
  <2> QED
    BY <2>1, <2>4, <2>5
<1>11. ASSUME t \notin Range(Tail(q))
       PROVE  /\ e(t).refs = d(t).refs /\ m.cols \subseteq e(t).cols \cup s.cols
              /\ \A x \in e(t).idx \ m.idx : x[1] \in s.drops
              /\ \A x \in m.idx \ e(t).idx :
                    x[1] \in s.makes \/ (x \notin d(t).idx /\ x[1] \notin up[u].makes)
  <2>1. /\ m.cols \subseteq d(t).cols \cup up[u].cols
        /\ \A x \in d(t).idx \ m.idx : x[1] \in up[u].drops
    BY <1>1, <1>2, <1>3, <1>11, WorkKnows DEF d
  <2>2. ASSUME NEW x \in m.idx \ e(t).idx
        PROVE  x[1] \in s.makes \/ (x \notin d(t).idx /\ x[1] \notin up[u].makes)
    BY <1>4, <1>6, <1>7, <1>9, <2>2
  <2> HIDE DEF m
  <2> QED
    BY <1>4, <1>6, <1>7, <2>1, <2>2
<1>12. /\ s.queue = up[u].queue /\ s.cols \subseteq up[u].cols
       /\ s.drops \subseteq up[u].drops
       /\ \A x \in s.drops : x \in up[u].makes => x \in s.makes
  BY <1>7
<1>13. LET x == Table(u)  y == saved[Live(x)]  z == saved'[Live(x)] IN
       x \notin Range(Tail(up[u].queue)) =>
           /\ z.refs = y.refs /\ Model[x].cols \subseteq z.cols \cup s.cols
           /\ \A j \in z.idx \ Model[x].idx : j[1] \in s.drops
           /\ \A j \in Model[x].idx \ z.idx :
                 j[1] \in s.makes \/ (j \notin y.idx /\ j[1] \notin up[u].makes)
  BY <1>11 DEF d, e
<1>14. \A x \in Tables : /\ Better(opts, x, saved[Live(x)], saved'[Live(x)])
                         /\ Sound(x, saved'[Live(x)])
                         /\ x = Table(u) \/ NoWorse(x, saved[Live(x)], saved'[Live(x)])
  BY <1>10 DEF d, e
<1> HIDE DEF t, q, m
<1> QED
  BY <1>1, <1>2, <1>5, <1>7, <1>12, <1>13, <1>14, WorkOutside

\* The tables D after CREATE INDEX IF NOT EXISTS for the table t.
Indexed(D, t, i) ==
    IF \E x \in Names : i \in IndexNames(D[x].idx) THEN D
    ELSE [D EXCEPT ![Live(t)].idx = @ \cup {e \in Model[t].idx : e[1] = i}]

\* The index is there, if no other table has one of that name; nothing else is
\* changed.
LEMMA IndexedHas ==
    ASSUME Upgradable, NEW D \in [Names -> TableState], NEW t \in Tables, NEW i \in Indexes
    PROVE  LET d == D[Live(t)]  e == Indexed(D, t, i)[Live(t)] IN
           /\ \A x \in Tables \ {t} : Indexed(D, t, i)[Live(x)] = D[Live(x)]
           /\ e.cols = d.cols /\ e.strict = d.strict /\ e.key = d.key /\ e.refs = d.refs
           /\ d.idx \subseteq e.idx /\ e.idx \subseteq d.idx \cup Model[t].idx
           /\ /\ d.idx \subseteq Model[t].idx
              /\ \A x \in Tables : /\ D[Tmp(x)].idx = {}
                                   /\ x # t => IndexNames(D[Live(x)].idx) \cap Defined(t) = {}
              => \A y \in Model[t].idx : y[1] = i => y \in e.idx
<1> DEFINE d == D[Live(t)]
           m == Model[t]
           E == Indexed(D, t, i)
           e == E[Live(t)]
           new == {y \in m.idx : y[1] = i}
<1>1. /\ Live(t) \in Names /\ d \in TableState /\ m \in TableState
      /\ \A x \in Tables : Live(x) \in Names /\ (x # t => Live(x) # Live(t))
  BY NamesApart, UpgradeAssumption DEF UpgradeAssumption
<1>2. CASE \E x \in Names : i \in IndexNames(D[x].idx)
  <2>1. E = D
    BY <1>2 DEF Indexed
  <2>2. ASSUME d.idx \subseteq m.idx, NEW y \in m.idx, y[1] = i,
               \A x \in Tables : /\ D[Tmp(x)].idx = {}
                                 /\ x # t => IndexNames(D[Live(x)].idx) \cap Defined(t) = {}
        PROVE  y \in d.idx
    <3>1. y[1] \in Defined(t)
      BY <1>1, IndexNamed DEF Defined
    <3>2. PICK n \in Names : i \in IndexNames(D[n].idx)
      BY <1>2
    <3>3. PICK x \in Tables : n = Live(x) \/ n = Tmp(x)
      BY NamesApart
    <3>4. n = Live(x)
      BY <2>2, <3>2, <3>3 DEF IndexNames
    <3>5. x = t
      BY <2>2, <3>1, <3>2, <3>4
    <3>6. PICK c \in Cols : <<i, c>> \in d.idx
      BY <3>2, <3>4, <3>5 DEF IndexNames
    <3>7. <<i, c>>[1] = i
      OBVIOUS
    <3>8. <<i, c>> = y
      BY <2>2, <3>6, <3>7 DEF Upgradable
    <3> QED
      BY <3>6, <3>8
  <2> QED
    BY <2>1, <2>2
<1>3. CASE ~ \E x \in Names : i \in IndexNames(D[x].idx)
  <2>1. E = [D EXCEPT ![Live(t)].idx = @ \cup new]
    BY <1>3 DEF Indexed
  <2>2. e = [d EXCEPT !.idx = @ \cup new]
    BY <1>1, <2>1
  <2>3. \A x \in Tables \ {t} : E[Live(x)] = D[Live(x)]
    BY <1>1, <2>1
  <2>4. /\ e.cols = d.cols /\ e.strict = d.strict /\ e.key = d.key /\ e.refs = d.refs
        /\ e.idx = d.idx \cup new
    BY <1>1, <2>2 DEF TableState
  <2> HIDE DEF E, e
  <2> QED
    BY <2>3, <2>4 DEF e, E
<1> QED
  BY <1>2, <1>3

\* The names of defined indexes are defined.
LEMMA NamesOfDefined ==
    ASSUME NEW t, NEW x, x \subseteq Model[t].idx
    PROVE  IndexNames(x) \subseteq Defined(t)
BY DEF IndexNames, Defined

\* Creating an index: it is there afterwards, as no other table has one of that
\* name.
LEMMA CreateIndexRight ==
    ASSUME Upgradable, IInv, JInv, NEW u \in Upgraders, NEW i \in Indexes, CreateIndex(u, i)
    PROVE  JInv'
<1> DEFINE t == Table(u)
           q == up[u].queue
           n == Live(t)
           m == Model[t]
           e == db'[n]
           s == [up[u] EXCEPT !.makes = @ \ {i}]
           w == Working(u, s)
<1>1. /\ up[u].pc = "work" /\ up[u].cols = {} /\ up[u].drops = {} /\ i \in up[u].makes
      /\ Write(u, Indexed(db, t, i)) /\ Goto(u, w)
  BY DEF CreateIndex, Indexed
<1>2. up[u].pc \in AtTable /\ up[u].pc \in AtTable \ {"columns"}
  BY <1>1 DEF AtTable
<1>3. /\ up[u] \in Progress /\ Noted(up[u]) /\ t = Head(q) /\ t \in Tables
      /\ q # <<>> /\ ReferringLater(q)
  BY <1>2, AtTableKnows
<1>4. /\ db' = Indexed(db, t, i) /\ txn' = txn /\ opts' = opts /\ txn \in {u, None}
      /\ saved' = IF txn = u THEN saved ELSE db'
  BY <1>1 DEF Write
<1>5. db \in [Names -> TableState]
  BY DEF IInv, Typed, TypeOK
<1>6. /\ \A x \in Tables \ {t} : db'[Live(x)] = db[Live(x)]
      /\ e.cols = db[n].cols /\ e.strict = db[n].strict /\ e.key = db[n].key
      /\ e.refs = db[n].refs /\ db[n].idx \subseteq e.idx
      /\ e.idx \subseteq db[n].idx \cup m.idx
      /\ /\ db[n].idx \subseteq m.idx
         /\ \A x \in Tables : /\ db[Tmp(x)].idx = {}
                              /\ x # t => IndexNames(db[Live(x)].idx) \cap Defined(t) = {}
         => \A y \in m.idx : y[1] = i => y \in e.idx
  BY <1>3, <1>4, <1>5, IndexedHas
<1>7. /\ s \in Progress /\ s.queue = q /\ s.cols = {} /\ s.drops = {}
      /\ s.makes = up[u].makes \ {i}
  BY <1>1, <1>3 DEF Progress
<1> HIDE DEF s
<1>8. \A x \in Tables : db[Tmp(x)].idx = {}
  <2> SUFFICES ASSUME NEW x \in Tables PROVE db[Tmp(x)].cols = {}
    BY NamesApart DEF IInv, Typed, NoTable
  <2>1. CASE txn = u
    BY <1>1, <2>1 DEF IInv, OpenFits, Exists
  <2>2. CASE txn = None
    BY <2>2 DEF IInv, Transactions, SavedFits, NoDebris, Exists
  <2> QED
    BY <1>4, <2>1, <2>2
<1>9. \A x \in Tables : Sound(x, saved[Live(x)])
  BY DEF JInv
<1>10. CASE txn = u
  <2>1. Rebuilt(opts, up[u], db[n])
    BY <1>1, <1>10, InsideKnows
  <2>2. /\ Done(opts, t, db[n]) /\ db[n].refs = m.refs /\ db[n].strict \subseteq db[n].cols
        /\ \A y \in m.idx \ db[n].idx : y[1] \in up[u].makes
    BY <1>1, <1>3, <2>1 DEF Rebuilt
  <2>3. \A x \in Tables \ {t} : Untouched(q, x, db[Live(x)], saved[Live(x)])
    BY <1>1, <1>10, InsideKnows
  <2>4. \A x \in Tables \ {t} : Untouched(q, x, db'[Live(x)], saved[Live(x)])
    BY <1>6, <2>3
  <2>5. ASSUME NEW x \in Tables, x # t
        PROVE  IndexNames(db[Live(x)].idx) \cap Defined(t) = {}
    <3>1. db[Live(x)].idx = saved[Live(x)].idx
      BY <2>3, <2>5 DEF Untouched
    <3> QED
      BY <1>3, <1>9, <2>5, <3>1 DEF Sound
  <2>6. \A y \in m.idx : y[1] = i => y \in e.idx
    BY <1>6, <1>8, <2>2, <2>5 DEF Done
  <2>7. \A y \in m.idx \ e.idx : y[1] \in s.makes
    BY <1>6, <1>7, <2>2, <2>6
  <2>8. Done(opts, t, e) /\ e.refs = m.refs /\ e.strict \subseteq e.cols
    BY <1>6, <2>2 DEF Done, Fits
  <2>9. /\ Noted(w) /\ w.pc \in {"work", "commit"} /\ w.queue = q /\ w.makes = s.makes
        /\ w.pc = "work" => w.cols = {} /\ w.drops = {}
        /\ w.pc = "commit" => w.makes = {}
    <3>1. /\ s.cols \subseteq Model[Head(s.queue)].cols
          /\ \A j \in s.drops, x \in Tables :
                j \in Defined(x) => x = Head(s.queue) /\ j \in s.makes
      BY <1>7
    <3> QED
      BY <1>3, <1>7, <1>10, <3>1, WorkingGoesOn DEF Nothing
  <2> HIDE DEF w
  <2>10. Rebuilt(opts, w, db'[n])
    BY <1>3, <2>7, <2>8, <2>9 DEF Rebuilt
  <2>11. /\ w.pc \in {"rename", "create", "copy", "drop", "work", "commit"}
         /\ txn' = u /\ saved' = saved
    BY <1>4, <1>10, <2>9
  <2> HIDE DEF t, q, n, m, e
  <2> QED
    BY <1>1, <1>2, <1>4, <1>10, <2>4, <2>9, <2>10, <2>11, TransactionStep DEF t, q, n
<1>11. CASE txn = None /\ txn # u
  <2>1. db = saved /\ saved' = db'
    BY <1>4, <1>11 DEF IInv, Transactions
  <2>2. /\ Better(opts, t, saved[n], e) /\ Sound(t, e)
    <3>1. \A x \in Tables \ {t} : IndexNames(e.idx) \cap Defined(x) = {}
      <4> SUFFICES ASSUME NEW x \in Tables \ {t}, NEW j \in IndexNames(e.idx), j \in Defined(x)
                   PROVE  FALSE
        OBVIOUS
      <4>1. PICK c \in Cols : <<j, c>> \in e.idx
        BY DEF IndexNames
      <4>2. CASE <<j, c>> \in saved[n].idx
        <5>1. j \in IndexNames(saved[n].idx)
          BY <4>2 DEF IndexNames
        <5> QED
          BY <1>3, <1>9, <5>1 DEF Sound
      <4>3. CASE <<j, c>> \in m.idx
        <5>1. j \in Defined(t)
          BY <4>3 DEF Defined, IndexNames
        <5> QED
          BY <1>3, <5>1 DEF Upgradable, Defined
      <4> QED
        BY <1>6, <2>1, <4>1, <4>2, <4>3
    <3>2. Better(opts, t, saved[n], e)
      BY <1>6, <2>1, SMTT(30) DEF Better, Fits
    <3>3. e.strict \subseteq e.cols
      BY <1>3, <1>6, <1>9, <2>1 DEF Sound
    <3> QED
      BY <3>1, <3>2, <3>3 DEF Sound
  <2>3. ASSUME NEW x \in Tables
        PROVE  /\ Better(opts, x, saved[Live(x)], saved'[Live(x)])
               /\ Sound(x, saved'[Live(x)])
               /\ x = Table(u) \/ NoWorse(x, saved[Live(x)], saved'[Live(x)])
    <3>1. CASE x = t
      BY <2>1, <2>2, <3>1
    <3>2. CASE x # t
      <4>1. saved'[Live(x)] = saved[Live(x)]
        BY <1>6, <2>1, <3>2
      <4> QED
        BY <1>9, <4>1, SameTable
    <3> QED
      BY <3>1, <3>2
  <2>4. ASSUME t \notin Range(Tail(q))
        PROVE  /\ e.refs = saved[n].refs /\ m.cols \subseteq e.cols \cup s.cols
               /\ \A x \in e.idx \ m.idx : x[1] \in s.drops
               /\ \A x \in m.idx \ e.idx :
                     x[1] \in s.makes \/ (x \notin saved[n].idx /\ x[1] \notin up[u].makes)
    <3>1. /\ m.cols \subseteq saved[n].cols \cup up[u].cols
          /\ \A x \in saved[n].idx \ m.idx : x[1] \in up[u].drops
      BY <1>1, <1>11, <2>4, WorkKnows
    <3>2. m.cols \subseteq saved[n].cols /\ saved[n].idx \subseteq m.idx
      BY <1>1, <3>1
    <3>3. \A x \in Tables : x # t => IndexNames(db[Live(x)].idx) \cap Defined(t) = {}
      BY <1>3, <1>9, <2>1 DEF Sound
    <3>4. \A y \in m.idx : y[1] = i => y \in e.idx
      BY <1>6, <1>8, <2>1, <3>2, <3>3
    <3> HIDE DEF t, q, n, m, e
    <3> QED
      BY <1>6, <1>7, <2>1, <3>2, <3>4
  <2>5. LET x == Table(u)  y == saved[Live(x)]  z == saved'[Live(x)] IN
        x \notin Range(Tail(up[u].queue)) =>
            /\ z.refs = y.refs /\ Model[x].cols \subseteq z.cols \cup s.cols
            /\ \A j \in z.idx \ Model[x].idx : j[1] \in s.drops
            /\ \A j \in Model[x].idx \ z.idx :
                  j[1] \in s.makes \/ (j \notin y.idx /\ j[1] \notin up[u].makes)
    BY <2>1, <2>4
  <2>6. /\ s.queue = up[u].queue /\ s.cols \subseteq up[u].cols
        /\ s.drops \subseteq up[u].drops
        /\ \A x \in s.drops : x \in up[u].makes => x \in s.makes
    BY <1>7
  <2> HIDE DEF t, q, n, m, e
  <2> QED
    BY <1>1, <1>4, <1>7, <1>11, <2>1, <2>3, <2>5, <2>6, WorkOutside
<1> QED
  BY <1>4, <1>10, <1>11, UpgradeAssumption DEF UpgradeAssumption

\* COMMIT: the table is as defined, and who has lost a foreign key comes later.
LEMMA CommitRight ==
    ASSUME Upgradable, IInv, JInv, NEW u \in Upgraders, Commit(u)
    PROVE  JInv'
<1> DEFINE t == Table(u)
           q == up[u].queue
           n == Live(t)
           m == Model[t]
           s == NextTable(up[u])
           e == db[n]
<1>1. /\ up[u].pc = "commit" /\ txn = u /\ txn' = None /\ saved' = db /\ db' = db
      /\ opts' = opts /\ Goto(u, s) /\ None \notin Upgraders
  BY UpgradeAssumption DEF Commit, UpgradeAssumption
<1>2. up[u].pc \in AtTable /\ up[u].pc \in AtTable \ {"columns"}
  BY <1>1 DEF AtTable
<1>3. /\ up[u] \in Progress /\ Noted(up[u]) /\ t = Head(q) /\ t \in Tables
      /\ q # <<>> /\ ReferringLater(q)
  BY <1>2, AtTableKnows
<1>4. Noted(s) /\ GoesOn(s, q) /\ ~InHand(s, t)
  BY <1>3, NextTableOwes, NextTableGoesOn
<1> HIDE DEF s
<1>5. \A x \in Tables : Sound(x, saved[Live(x)])
  BY DEF JInv
<1>6. Rebuilt(opts, up[u], e)
  BY <1>1, InsideKnows
<1>7. /\ Done(opts, t, e) /\ e.refs = m.refs /\ e.strict \subseteq e.cols
      /\ e.idx = m.idx
  <2>1. /\ Done(opts, t, e) /\ e.refs = m.refs /\ e.strict \subseteq e.cols
        /\ \A y \in m.idx \ e.idx : y[1] \in up[u].makes
        /\ up[u].makes = {}
    BY <1>1, <1>3, <1>6 DEF Rebuilt
  <2> QED
    BY <2>1 DEF Done
<1>8. /\ Better(opts, t, saved[n], e) /\ Sound(t, e)
      /\ Relies(opts, s, txn' = u, t, e) /\ OwedStill(u, s, t, saved[n], e)
  <2>1. Better(opts, t, saved[n], e)
    BY <1>7 DEF Better, Done, Fits
  <2>2. Sound(t, e)
    BY <1>3, <1>7 DEF Sound, Upgradable, Defined
  <2>3. Relies(opts, s, txn' = u, t, e)
    BY <1>4, <1>7 DEF Relies
  <2>4. OwedStill(u, s, t, saved[n], e)
    BY <1>7 DEF OwedStill
  <2> QED
    BY <2>1, <2>2, <2>3, <2>4
<1>9. ASSUME NEW x \in Tables, x # t
      PROVE  /\ Better(opts, x, saved[Live(x)], db[Live(x)]) /\ Sound(x, db[Live(x)])
             /\ x \in Range(Tail(q)) \/ NoWorse(x, saved[Live(x)], db[Live(x)])
  <2> DEFINE a == saved[Live(x)]
             b == db[Live(x)]
  <2>1. Untouched(q, x, b, a)
    BY <1>1, <1>9, InsideKnows
  <2>2. Sound(x, a)
    BY <1>5
  <2> HIDE DEF a, b
  <2>3. Better(opts, x, a, b) /\ Sound(x, b)
    BY <2>1, <2>2 DEF Untouched, Better, Fits, Sound
  <2>4. x \in Range(Tail(q)) \/ NoWorse(x, a, b)
    BY <2>1 DEF Untouched, NoWorse
  <2> QED
    BY <2>3, <2>4 DEF a, b
<1>10. \A x \in Tables : /\ Better(opts, x, saved[Live(x)], saved'[Live(x)])
                         /\ Sound(x, saved'[Live(x)])
                         /\ \/ x = Table(u) \/ x \in Range(Tail(up[u].queue))
                            \/ NoWorse(x, saved[Live(x)], saved'[Live(x)])
  BY <1>1, <1>8, <1>9
<1>11. /\ \A v \in Upgraders \ {u} : (txn = v) <=> (txn' = v)
       /\ txn \in {u, None} /\ txn' # u
  BY <1>1
<1>12. /\ Relies(opts, s, txn' = u, Table(u), saved'[Live(Table(u))])
       /\ OwedStill(u, s, Table(u), saved[Live(Table(u))], saved'[Live(Table(u))])
  BY <1>1, <1>8
<1> HIDE DEF t, n, m, e
<1> QED
  BY <1>1, <1>2, <1>4, <1>10, <1>11, <1>12, TableStep

\* Rows are not a matter of definition.
LEMMA InsertRight ==
    ASSUME IInv, JInv, NEW t \in Tables, NEW r \in Rows, Insert(t, r)
    PROVE  JInv'
<1> DEFINE n == Live(t)
           d == [db EXCEPT ![n].cells = @ \cup ({r} \X db[n].cols)]
<1>1. /\ txn = None /\ txn' = txn /\ db' = d /\ saved' = d /\ up' = up /\ opts' = opts
      /\ db = saved /\ db \in [Names -> TableState] /\ None \notin Upgraders
  BY UpgradeAssumption
     DEF Insert, IInv, Transactions, Typed, TypeOK, UpgradeAssumption
<1>2. ASSUME NEW x \in Tables
      PROVE  LET a == saved[Live(x)]  b == saved'[Live(x)] IN
             /\ b.cols = a.cols /\ b.strict = a.strict /\ b.key = a.key
             /\ b.refs = a.refs /\ b.idx = a.idx
  <2>1. Live(x) \in Names /\ db[Live(x)] \in TableState
    BY <1>1, NamesApart
  <2>2. d[Live(x)] = db[Live(x)]
        \/ d[Live(x)] = [db[Live(x)] EXCEPT !.cells = @ \cup ({r} \X db[n].cols)]
    BY <1>1, <2>1
  <2> HIDE DEF d, n
  <2> QED
    BY <1>1, <2>1, <2>2 DEF TableState
<1> HIDE DEF d, n
<1>3. \A v \in Upgraders : Noted(up'[v])
  BY <1>1 DEF JInv
<1>4. ASSUME NEW v \in Upgraders, NEW x \in Tables
      PROVE  Relies(opts', up'[v], txn' = v, x, saved'[Live(x)])
  <2>1. Relies(opts, up[v], txn = v, x, saved[Live(x)])
    BY DEF JInv
  <2>2. Better(opts, x, saved[Live(x)], saved'[Live(x)])
    BY <1>2, SameTable
  <2>3. Relies(opts, up[v], txn = v, x, saved'[Live(x)])
    BY <2>1, <2>2, ReliesKept
  <2> QED
    BY <1>1, <2>3
<1>5. ASSUME NEW x \in Tables
      PROVE  /\ RefsOwed(x, saved[Live(x)])' /\ IndexesOwed(x, saved[Live(x)])'
             /\ Sound(x, saved'[Live(x)])
  <2>1. /\ RefsOwed(x, saved[Live(x)]) /\ IndexesOwed(x, saved[Live(x)])
        /\ Sound(x, saved[Live(x)])
    BY DEF JInv
  <2>2. RefsOwed(x, saved[Live(x)])'
    BY <1>1, <1>2, <2>1 DEF RefsOwed
  <2>3. IndexesOwed(x, saved[Live(x)])'
    BY <1>1, <1>2, <2>1 DEF IndexesOwed
  <2>4. Sound(x, saved'[Live(x)])
    BY <1>2, <2>1, SameTable
  <2> QED
    BY <2>2, <2>3, <2>4
<1>6. OpenRight'
  BY <1>1 DEF OpenRight
<1> QED
  BY <1>3, <1>4, <1>5, <1>6 DEF JInv

\* At first every upgrade has still to look at every table.
LEMMA InitRight ==
    ASSUME Upgradable, Init
    PROVE  JInv
<1>1. /\ \A u \in Upgraders : up[u] = Idle
      /\ txn = None /\ saved \in Starts /\ None \notin Upgraders
  BY UpgradeAssumption DEF Init, UpgradeAssumption
<1>2. Idle.pc = "idle"
  BY DEF Idle
<1>3. Noted(Idle) /\ \A t : Owes(Idle, t)
  BY <1>2 DEF Noted, Owes, AtTable
<1>4. PICK v \in Upgraders : TRUE
  BY DEF Upgradable
<1>5. ASSUME NEW u \in Upgraders, NEW t \in Tables
      PROVE  /\ Relies(opts, up[u], txn = u, t, saved[Live(t)])
             /\ Owing(up[u], txn = u, t)
             /\ \A i : OwingIndex(up[u], txn = u, t, i)
  BY <1>1, <1>3, OwesAll
<1>6. ASSUME NEW t \in Tables
      PROVE  /\ RefsOwed(t, saved[Live(t)]) /\ IndexesOwed(t, saved[Live(t)])
             /\ Sound(t, saved[Live(t)])
  <2>1. RefsOwed(t, saved[Live(t)]) /\ IndexesOwed(t, saved[Live(t)])
    BY <1>4, <1>5 DEF RefsOwed, IndexesOwed
  <2>2. Sound(t, saved[Live(t)])
    BY <1>1 DEF Sound, Upgradable, Defined
  <2> QED
    BY <2>1, <2>2
<1>7. OpenRight
  BY <1>1 DEF OpenRight
<1> QED
  BY <1>1, <1>3, <1>5, <1>6, <1>7 DEF JInv

\* A step that changes nothing keeps the invariant,
LEMMA StutterRight == JInv /\ UNCHANGED vars => JInv'
<1> SUFFICES ASSUME JInv, UNCHANGED vars PROVE JInv'
  OBVIOUS
<1>1. up' = up /\ txn' = txn /\ saved' = saved /\ db' = db /\ opts' = opts
  BY DEF vars, fileVars
<1>2. \A u \in Upgraders : Noted(up'[u])
  BY <1>1 DEF JInv
<1>3. \A u \in Upgraders, t \in Tables :
         Relies(opts', up'[u], txn' = u, t, saved'[Live(t)])
  BY <1>1 DEF JInv
<1>4. ASSUME NEW t \in Tables
      PROVE  /\ RefsOwed(t, saved[Live(t)])' /\ IndexesOwed(t, saved[Live(t)])'
             /\ Sound(t, saved'[Live(t)])
  BY <1>1 DEF JInv, RefsOwed, IndexesOwed
<1>5. OpenRight'
  BY <1>1 DEF JInv, OpenRight
<1> QED
  BY <1>2, <1>3, <1>4, <1>5 DEF JInv

\* and so does every other, for tables that can be upgraded.
LEMMA NextRight ==
    ASSUME Upgradable
    PROVE  IInv /\ JInv /\ [Next]_vars => JInv'
<1> SUFFICES ASSUME IInv, JInv, [Next]_vars PROVE JInv'
  OBVIOUS
<1>1. CASE \E u \in Upgraders : UpgradeTables(u) \/ Crash(u) \/ Fault(u)
  BY <1>1, UpgradeTablesRight, CrashRight, FailureRight
<1>2. ASSUME NEW u \in Upgraders, Statement(u) PROVE JInv'
  <2>1. CASE ForeignKeysOff(u) \/ ReadColumns(u) \/ ReadRest(u) \/ ForeignKeysOn(u)
    BY <2>1, ForeignKeysOffRight, ReadColumnsRight, ReadRestRight, ForeignKeysOnRight
  <2>2. CASE Begin(u) \/ Rename(u) \/ Create(u) \/ Copy(u) \/ DropOld(u)
    BY <2>2, BeginRight, RenameRight, CreateRight, CopyRight, DropOldRight
  <2>3. CASE Commit(u) \/ RolledBack(u) \/ Impossible(u)
    BY <2>3, CommitRight, RolledBackRight, FailureRight
  <2>4. CASE \E c \in Cols : AddColumn(u, c)
    BY <2>4, AddColumnRight
  <2>5. CASE \E i \in Indexes : DropIndex(u, i) \/ CreateIndex(u, i)
    BY <2>5, DropIndexRight, CreateIndexRight
  <2> QED
    BY <1>2, <2>1, <2>2, <2>3, <2>4, <2>5 DEF Statement
<1>3. CASE \E t \in Tables, r \in Rows : Insert(t, r)
  BY <1>3, InsertRight
<1>4. CASE UNCHANGED vars
  BY <1>4, StutterRight
<1> QED
  BY <1>1, <1>2, <1>3, <1>4 DEF Next

\* When nobody has anything left to see to, the tables are as defined.
LEMMA NothingOwed ==
    ASSUME Upgradable, IInv, JInv
    PROVE  ResolvedIsActual
<1> SUFFICES ASSUME \A u \in Upgraders : up[u].pc = "resolved", NEW t \in Tables
             PROVE  Actual(t)
  BY DEF ResolvedIsActual
<1> DEFINE d == saved[Live(t)]
           e == [d EXCEPT !.cells = {}]
           o == [opts EXCEPT !.force = FALSE]
<1>1. \A u \in Upgraders : ~Owes(up[u], t) /\ ~InHand(up[u], t)
  BY DEF Owes, InHand, AtTable
<1>2. \A u \in Upgraders : /\ ~Owing(up[u], txn = u, t)
                           /\ \A i : ~OwingIndex(up[u], txn = u, t, i)
  BY <1>1 DEF Owing, OwingIndex
<1>3. Done(opts, t, d) /\ d.cols # {}
  <2>1. PICK u \in Upgraders : TRUE
    BY DEF Upgradable
  <2>2. Done(opts, t, d)
    BY <1>1, <2>1 DEF JInv, Relies
  <2> QED
    BY <2>2 DEF Done, Fits
<1>4. d.refs = Model[t].refs
  BY <1>2, <1>3 DEF JInv, RefsOwed
<1>5. d.idx = Model[t].idx
  <2>1. Model[t].idx \subseteq d.idx
    BY <1>2, <1>3 DEF JInv, IndexesOwed
  <2> QED
    BY <1>3, <2>1 DEF Done
<1>6. d \in TableState /\ opts \in [keep : BOOLEAN, force : BOOLEAN]
  BY NamesApart, UpgradeAssumption DEF IInv, Typed, TypeOK, UpgradeAssumption
<1>7. o.keep = opts.keep /\ ~o.force
  BY <1>6
<1>8. /\ e \in TableState /\ e.cols = d.cols /\ e.strict = d.strict /\ e.key = d.key
      /\ e.refs = d.refs /\ e.idx = d.idx
  BY <1>6 DEF TableState
<1> HIDE DEF d, e, o
<1>9. Done(o, t, e)
  BY <1>3, <1>7, <1>8 DEF Done, Fits
<1>10. UpgradeMode(t, e, o) = "actual"
  BY <1>3, <1>4, <1>5, <1>7, <1>8, <1>9, ModeTells
<1> QED
  BY <1>10 DEF Actual, d, e, o

\* When all upgrades have succeeded, a further one would find nothing to do: of
\* what is missing in a table, some upgrader that has not ended has always noted
\* that it will see to it, or will look at the table again.
THEOREM UpgradesSucceed ==
    ASSUME Upgradable
    PROVE  Spec => []ResolvedIsActual
<1>1. Init => JInv
  BY InitRight
<1>2. IInv /\ JInv /\ [Next]_vars => JInv'
  BY NextRight
<1>3. IInv /\ JInv => ResolvedIsActual
  BY NothingOwed
<1> QED
  BY InitInv, NextInv, <1>1, <1>2, <1>3, PTL DEF Spec
==============================================================================
