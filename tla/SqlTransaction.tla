--------------------------- MODULE SqlTransaction ---------------------------
(* SqlDatabase.transactionalize: BEGIN IMMEDIATE, the callback, then COMMIT *)
(* or, after any error, ROLLBACK; each is a statement handed to the native  *)
(* module and answered later, so transactions on other connections, or on   *)
(* the same one, run in between.  All connections are on one database file, *)
(* whose write lock SQLite grants to one connection at a time.              *)
EXTENDS Integers, FiniteSets

CONSTANTS
    Txns,        \* calls of transactionalize
    Conns,       \* open connections to the database file
    None,        \* no connection
    Steps,       \* statements the callback of every call runs
    Faults,      \* statements SQLite may refuse: "begin", "commit"
    MaxCrashes   \* bound on the number of crashes of the process

ASSUME TransactionAssumption ==
    /\ Steps \in Nat \ {0} /\ MaxCrashes \in Nat
    /\ Faults \subseteq {"begin", "commit"}
    /\ None \notin Conns

VARIABLES
    pc,       \* control state of every call
    conn,     \* the connection of every call
    left,     \* statements the callback has still to run
    lock,     \* the connection whose transaction is open, None: there is none
    buf,      \* statements of the open transaction
    stored,   \* statements that are durable
    shared,   \* history: calls that met another one on their connection
    crashes   \* crashes so far

callVars == <<pc, conn, left, shared>>
fileVars == <<lock, buf, stored>>
vars == <<callVars, fileVars, crashes>>

\* begin, commit, rollback: that statement is under way; body: the callback is;
\* resolved: COMMIT has succeeded; lost: the process died before
Running == {"begin", "body", "commit", "rollback"}
Settled == {"resolved", "rejected", "lost"}

\* the statements of the call t; those it has run
Statements(t) == {t} \X (1..Steps)
Ran(t) == {t} \X ((left[t] + 1)..Steps)

TypeOK ==
    /\ pc \in [Txns -> Running \cup Settled \cup {"idle"}]
    /\ conn \in [Txns -> Conns \cup {None}]
    /\ left \in [Txns -> 0..Steps]
    /\ lock \in Conns \cup {None}
    /\ buf \subseteq Txns \X (1..Steps) /\ stored \subseteq Txns \X (1..Steps)
    /\ shared \subseteq Txns
    /\ crashes \in 0..MaxCrashes

Init ==
    /\ pc = [t \in Txns |-> "idle"] /\ conn = [t \in Txns |-> None]
    /\ left = [t \in Txns |-> Steps]
    /\ lock = None /\ buf = {} /\ stored = {}
    /\ shared = {} /\ crashes = 0

-----------------------------------------------------------------------------
\* Helpers

RunningOn(c) == {t \in Txns : conn[t] = c /\ pc[t] \in Running}

Goto(t, p) == pc' = [pc EXCEPT ![t] = p] /\ UNCHANGED <<conn, shared, crashes>>

\* SQLite ends the open transaction and keeps or forgets its statements
EndOpen(keep) ==
    /\ lock' = None /\ buf' = {}
    /\ stored' = IF keep THEN stored \cup buf ELSE stored

-----------------------------------------------------------------------------
\* transactionalize, called on the connection c: BEGIN is handed over
Transactionalize(t, c) ==
    /\ pc[t] = "idle"
    /\ pc' = [pc EXCEPT ![t] = "begin"]
    /\ conn' = [conn EXCEPT ![t] = c]
    /\ shared' = IF RunningOn(c) = {} THEN shared
                 ELSE shared \cup RunningOn(c) \cup {t}
    /\ UNCHANGED <<left, fileVars, crashes>>

Begun(t) ==
    /\ pc[t] = "begin" /\ lock = None
    /\ lock' = conn[t]
    /\ Goto(t, "body")
    /\ UNCHANGED <<left, buf, stored>>

\* BEGIN is refused inside a transaction of the connection, or while another
\* connection has the lock; the catch of the promise chain covers it as well
BeginRefused(t) ==
    /\ pc[t] = "begin" /\ (lock # None \/ "begin" \in Faults)
    /\ Goto(t, "rollback")
    /\ UNCHANGED <<left, fileVars>>

\* a statement of the callback: part of the open transaction of its connection,
\* or a transaction of its own when there is none
Run(t) ==
    /\ pc[t] = "body" /\ left[t] > 0 /\ lock \in {conn[t], None}
    /\ left' = [left EXCEPT ![t] = @ - 1]
    /\ IF lock = None
       THEN stored' = stored \cup {<<t, left[t]>>} /\ UNCHANGED buf
       ELSE buf' = buf \cup {<<t, left[t]>>} /\ UNCHANGED stored
    /\ UNCHANGED <<pc, conn, shared, lock, crashes>>

\* the callback throws, or one of its statements is refused
CallbackRejects(t) ==
    /\ pc[t] = "body"
    /\ Goto(t, "rollback")
    /\ UNCHANGED <<left, fileVars>>

CallbackResolves(t) ==
    /\ pc[t] = "body" /\ left[t] = 0
    /\ Goto(t, "commit")
    /\ UNCHANGED <<left, fileVars>>

Committed(t) ==
    /\ pc[t] = "commit" /\ lock = conn[t]
    /\ EndOpen(TRUE)
    /\ Goto(t, "resolved")
    /\ UNCHANGED left

\* mutant: an error of COMMIT is passed on without a ROLLBACK
CommitErrorPassedOn(t) ==
    /\ pc[t] = "commit"
    /\ lock # conn[t] \/ "commit" \in Faults
    /\ UNCHANGED fileVars
    /\ Goto(t, "rejected")
    /\ UNCHANGED left

\* COMMIT is refused: there is no transaction, SQLite is busy and keeps it
\* open, or it fails and is rolled back
CommitRefused(t) ==
    /\ pc[t] = "commit"
    /\ \/ (lock # conn[t] \/ "commit" \in Faults) /\ UNCHANGED fileVars
       \/ lock = conn[t] /\ "commit" \in Faults /\ EndOpen(FALSE)
    /\ Goto(t, "rollback")
    /\ UNCHANGED left

\* mutant: the catch block commits
CommitInCatch(t) ==
    /\ pc[t] = "rollback"
    /\ IF lock = conn[t] THEN EndOpen(TRUE) ELSE UNCHANGED fileVars
    /\ Goto(t, "rejected")
    /\ UNCHANGED left

\* ROLLBACK ends the transaction of the connection, whoever began it; where
\* there is none its error replaces the first one, the call rejects either way
RolledBack(t) ==
    /\ pc[t] = "rollback"
    /\ IF lock = conn[t] THEN EndOpen(FALSE) ELSE UNCHANGED fileVars
    /\ Goto(t, "rejected")
    /\ UNCHANGED left

\* the process dies: SQLite's journal undoes the open transaction
Crash ==
    /\ crashes < MaxCrashes /\ crashes' = crashes + 1
    /\ EndOpen(FALSE)
    /\ pc' = [t \in Txns |-> IF pc[t] \in Running THEN "lost" ELSE pc[t]]
    /\ UNCHANGED <<conn, left, shared>>

Answer(t) ==
    \/ Begun(t) \/ BeginRefused(t) \/ Run(t) \/ CallbackRejects(t)
    \/ CallbackResolves(t) \/ Committed(t) \/ CommitRefused(t) \/ RolledBack(t)

Next ==
    \/ \E t \in Txns : Answer(t) \/ \E c \in Conns : Transactionalize(t, c)
    \/ Crash

Spec == Init /\ [][Next]_vars

-----------------------------------------------------------------------------
\* Properties

\* A call that has its connection for itself is atomic: at any time all or none
\* of its statements are durable, all of them when it has resolved, none when
\* it has rejected, even when calls on other connections compete for the lock,
\* COMMIT fails or the process dies.
AllOrNothing ==
    \A t \in Txns \ shared :
        LET durable == stored \cap Statements(t) IN
        /\ durable \in {{}, Statements(t)}
        /\ pc[t] = "resolved" => durable = Statements(t)
        /\ pc[t] = "rejected" => durable = {}

\* An open transaction, and with it the write lock of the file, always has a
\* call that will end it, even where calls share a connection, end each other's
\* transaction and run statements outside any.
NoDanglingTxn ==
    lock # None => \E t \in Txns : conn[t] = lock /\ pc[t] \in Running \ {"begin"}

\* The inductive invariant behind AllOrNothing

\* a call under way has a connection, and has it for itself if it is not shared
Alone == \A t \in Txns : pc[t] \in Running =>
    /\ conn[t] # None
    /\ t \notin shared => RunningOn(conn[t]) = {t}

\* while its callback runs a call that is alone has the open transaction, and
\* exactly the statements it has run are in it; else none of them is
OwnsTransaction == \A t \in Txns \ shared :
    /\ pc[t] \in {"body", "commit"} =>
          lock = conn[t] /\ buf \cap Statements(t) = Ran(t)
    /\ pc[t] \in {"idle", "begin"} => left[t] = Steps
    /\ pc[t] = "commit" => left[t] = 0
    /\ pc[t] \notin {"body", "commit", "rollback"} \/ lock # conn[t] =>
          buf \cap Statements(t) = {}

\* nothing of it is durable before it has resolved
DurableWhenResolved == \A t \in Txns \ shared :
    stored \cap Statements(t) = IF pc[t] = "resolved" THEN Statements(t) ELSE {}

\* The inductive invariant: a call that has its connection for itself owns the
\* open transaction, with exactly the statements it has run, until it resolves.
IInv == TypeOK /\ Alone /\ OwnsTransaction /\ DurableWhenResolved
=============================================================================
