------------------------ MODULE SqlTransactionProofs ------------------------
(* Theorems about SqlTransaction, for any number of calls, connections and  *)
(* statements.                                                              *)
EXTENDS SqlTransaction, TLAPS

\* Every step keeps every variable in its type.
LEMMA TxnTypeStep == TypeOK /\ [Next]_vars => TypeOK'
<1> SUFFICES ASSUME TypeOK, [Next]_vars PROVE TypeOK'
  OBVIOUS
<1> USE TransactionAssumption DEF TypeOK, Running, Settled, callVars, fileVars
<1>1. CASE UNCHANGED vars
  BY <1>1 DEF vars
<1>2. ASSUME NEW t \in Txns, NEW c \in Conns, Transactionalize(t, c) PROVE TypeOK'
  BY <1>2 DEF Transactionalize, RunningOn
<1>3. ASSUME NEW t \in Txns, Begun(t) PROVE TypeOK'
  <2>1. conn[t] \in Conns \cup {None}
    OBVIOUS
  <2>2. QED
    BY <1>3, <2>1 DEF Begun, Goto
<1>4. ASSUME NEW t \in Txns, BeginRefused(t) PROVE TypeOK'
  BY <1>4 DEF BeginRefused, Goto
<1>5. ASSUME NEW t \in Txns, Run(t) PROVE TypeOK'
  <2>1. left[t] \in 1..Steps
    BY <1>5 DEF Run
  <2>2. left' \in [Txns -> 0..Steps]
    BY <1>5, <2>1 DEF Run
  <2>3. <<t, left[t]>> \in Txns \X (1..Steps)
    BY <2>1
  <2>4. QED
    BY <1>5, <2>2, <2>3 DEF Run
<1>6. ASSUME NEW t \in Txns, CallbackRejects(t) PROVE TypeOK'
  BY <1>6 DEF CallbackRejects, Goto
<1>7. ASSUME NEW t \in Txns, CallbackResolves(t) PROVE TypeOK'
  BY <1>7 DEF CallbackResolves, Goto
<1>8. ASSUME NEW t \in Txns, Committed(t) PROVE TypeOK'
  BY <1>8 DEF Committed, Goto, EndOpen
<1>9. ASSUME NEW t \in Txns, CommitRefused(t) PROVE TypeOK'
  BY <1>9 DEF CommitRefused, Goto, EndOpen
<1>10. ASSUME NEW t \in Txns, RolledBack(t) PROVE TypeOK'
  BY <1>10 DEF RolledBack, Goto, EndOpen
<1>11. ASSUME Crash PROVE TypeOK'
  BY <1>11 DEF Crash, EndOpen
<1>12. QED
  BY <1>1, <1>2, <1>3, <1>4, <1>5, <1>6, <1>7, <1>8, <1>9, <1>10, <1>11
  DEF Next, Answer

\* The initial state satisfies the inductive invariant.
LEMMA TxnInit == Init => IInv
BY TransactionAssumption
DEF Init, IInv, TypeOK, Alone, OwnsTransaction, DurableWhenResolved, Running, Settled,
    Statements, Ran, RunningOn

\* A call that is alone has not the connection of any other call under way.
LEMMA AloneApart ==
    ASSUME Alone, NEW t \in Txns \ shared, NEW u \in Txns, u # t,
           pc[t] \in Running, pc[u] \in Running
    PROVE  conn[u] # conn[t]
BY DEF Alone, RunningOn

\* An answer to the call u changes no other call, and neither the connections
\* of the calls nor which of them are shared.
LEMMA AnswerLocal ==
    ASSUME TypeOK, NEW u \in Txns, Answer(u)
    PROVE  /\ conn' = conn /\ shared' = shared /\ pc[u] \in Running
           /\ \A v \in Txns : v # u => pc'[v] = pc[v] /\ left'[v] = left[v]
BY DEF Answer, TypeOK, Begun, BeginRefused, Run, CallbackRejects, CallbackResolves,
       Committed, CommitRefused, RolledBack, Goto, callVars, Running

\* Alone is kept: answers start no call, and a new call that meets another one
\* on its connection marks both as shared.
LEMMA AloneStep == TypeOK /\ Alone /\ [Next]_vars => Alone'
<1> SUFFICES ASSUME TypeOK, Alone, [Next]_vars PROVE Alone'
  OBVIOUS
<1>1. CASE UNCHANGED vars
  BY <1>1 DEF vars, callVars, Alone, RunningOn
<1>2. ASSUME NEW u \in Txns, Answer(u) PROVE Alone'
  <2>1. /\ conn' = conn /\ shared' = shared
        /\ \A v \in Txns : pc'[v] \in Running => pc[v] \in Running
    BY <1>2, AnswerLocal
  <2>2. QED
    BY <2>1 DEF Alone, RunningOn
<1>3. ASSUME NEW u \in Txns, NEW c \in Conns, Transactionalize(u, c) PROVE Alone'
  <2>1. /\ pc[u] = "idle" /\ c # None /\ pc'[u] = "begin" /\ conn'[u] = c
        /\ \A v \in Txns : v # u => pc'[v] = pc[v] /\ conn'[v] = conn[v]
        /\ shared \subseteq shared'
        /\ RunningOn(c) # {} => RunningOn(c) \cup {u} \subseteq shared'
    BY <1>3, TransactionAssumption DEF Transactionalize, TypeOK
  <2>2. ASSUME NEW t \in Txns, pc'[t] \in Running
        PROVE  conn'[t] # None /\ (t \notin shared' => RunningOn(conn[t])' = {t})
    <3>1. CASE t = u
      BY <2>1, <2>2, <3>1 DEF RunningOn, Running
    <3>2. CASE t # u /\ conn[t] = c
      BY <2>1, <2>2, <3>2 DEF RunningOn, Alone
    <3>3. CASE t # u /\ conn[t] # c
      BY <2>1, <2>2, <3>3 DEF RunningOn, Alone, Running
    <3>4. QED
      BY <3>1, <3>2, <3>3
  <2>3. QED
    BY <2>2 DEF Alone
<1>4. ASSUME Crash PROVE Alone'
  BY <1>4 DEF Crash, TypeOK, Alone, Running
<1>5. QED
  BY <1>1, <1>2, <1>3, <1>4 DEF Next

\* While it is alone, an answer to the call t itself keeps what IInv says of
\* its statements.
LEMMA OwnAnswer ==
    ASSUME IInv, NEW t \in Txns \ shared, Answer(t)
    PROVE  /\ (/\ pc[t] \in {"body", "commit"} =>
                    lock = conn[t] /\ buf \cap Statements(t) = Ran(t)
               /\ pc[t] \in {"idle", "begin"} => left[t] = Steps
               /\ pc[t] = "commit" => left[t] = 0
               /\ pc[t] \notin {"body", "commit", "rollback"} \/ lock # conn[t] =>
                    buf \cap Statements(t) = {})'
           /\ stored' \cap Statements(t) =
                IF pc'[t] = "resolved" THEN Statements(t) ELSE {}
<1>0. /\ TypeOK
      /\ pc[t] \in Running => conn[t] # None
      /\ pc[t] \in {"body", "commit"} =>
            lock = conn[t] /\ buf \cap Statements(t) = Ran(t)
      /\ pc[t] \in {"idle", "begin"} => left[t] = Steps
      /\ pc[t] = "commit" => left[t] = 0
      /\ pc[t] \notin {"body", "commit", "rollback"} \/ lock # conn[t] =>
            buf \cap Statements(t) = {}
      /\ stored \cap Statements(t) =
            IF pc[t] = "resolved" THEN Statements(t) ELSE {}
  BY DEF IInv, Alone, OwnsTransaction, DurableWhenResolved
<1> USE TransactionAssumption DEF TypeOK, Running, callVars, fileVars
<1>1. CASE Begun(t)
  <2>1. /\ pc[t] = "begin" /\ pc'[t] = "body" /\ lock' = conn[t] /\ conn' = conn
        /\ left' = left /\ buf' = buf /\ stored' = stored
    BY <1>0, <1>1 DEF Begun, Goto
  <2>2. left[t] = Steps
    BY <1>0, <2>1
  <2>3. QED
    BY <1>0, <2>1, <2>2 DEF Ran, Statements
<1>2. CASE BeginRefused(t)
  BY <1>0, <1>2 DEF BeginRefused, Goto, Statements
<1>3. CASE Run(t)
  <2>1. /\ pc[t] = "body" /\ pc' = pc /\ conn' = conn /\ lock' = lock
        /\ buf' = buf \cup {<<t, left[t]>>} /\ stored' = stored
        /\ left[t] \in 1..Steps /\ left'[t] = left[t] - 1
    BY <1>0, <1>3 DEF Run
  <2>2. <<t, left[t]>> \in Statements(t)
    BY <2>1 DEF Statements
  <2>3. Ran(t)' = Ran(t) \cup {<<t, left[t]>>}
    BY <2>1 DEF Ran
  <2>4. QED
    BY <1>0, <2>1, <2>2, <2>3 DEF Statements
<1>4. CASE CallbackRejects(t)
  BY <1>0, <1>4 DEF CallbackRejects, Goto, Statements
<1>5. CASE CallbackResolves(t)
  BY <1>0, <1>5 DEF CallbackResolves, Goto, Statements, Ran
<1>6. CASE Committed(t)
  <2>1. /\ pc[t] = "commit" /\ pc'[t] = "resolved" /\ lock' = None /\ buf' = {}
        /\ stored' = stored \cup buf
    BY <1>0, <1>6 DEF Committed, Goto, EndOpen
  <2>2. Ran(t) = Statements(t)
    BY <1>0, <2>1 DEF Ran, Statements
  <2>3. stored' \cap Statements(t) = Statements(t)
    BY <1>0, <2>1, <2>2
  <2>4. QED
    BY <2>1, <2>3
<1>7. CASE CommitRefused(t)
  BY <1>0, <1>7 DEF CommitRefused, Goto, EndOpen, Statements
<1>8. CASE RolledBack(t)
  BY <1>0, <1>8 DEF RolledBack, Goto, EndOpen, Statements
<1>9. QED
  BY <1>1, <1>2, <1>3, <1>4, <1>5, <1>6, <1>7, <1>8 DEF Answer

\* An answer to another call u changes nothing IInv says of the call t that is
\* alone: u has another connection, so it cannot end t's transaction.
LEMMA OthersAnswer ==
    ASSUME IInv, NEW t \in Txns \ shared, NEW u \in Txns, u # t, Answer(u)
    PROVE  /\ (/\ pc[t] \in {"body", "commit"} =>
                    lock = conn[t] /\ buf \cap Statements(t) = Ran(t)
               /\ pc[t] \in {"idle", "begin"} => left[t] = Steps
               /\ pc[t] = "commit" => left[t] = 0
               /\ pc[t] \notin {"body", "commit", "rollback"} \/ lock # conn[t] =>
                    buf \cap Statements(t) = {})'
           /\ stored' \cap Statements(t) =
                IF pc'[t] = "resolved" THEN Statements(t) ELSE {}
<1>0. /\ TypeOK
      /\ pc[t] \in Running => conn[t] # None
      /\ pc[t] \in {"body", "commit"} =>
            lock = conn[t] /\ buf \cap Statements(t) = Ran(t)
      /\ pc[t] \in {"idle", "begin"} => left[t] = Steps
      /\ pc[t] = "commit" => left[t] = 0
      /\ pc[t] \notin {"body", "commit", "rollback"} \/ lock # conn[t] =>
            buf \cap Statements(t) = {}
      /\ stored \cap Statements(t) =
            IF pc[t] = "resolved" THEN Statements(t) ELSE {}
  BY DEF IInv, Alone, OwnsTransaction, DurableWhenResolved
<1>1. /\ conn' = conn /\ pc'[t] = pc[t] /\ left'[t] = left[t]
      /\ pc[t] \in Running => conn[u] # conn[t]
  BY <1>0, AnswerLocal, AloneApart DEF IInv
<1> USE DEF callVars, fileVars
<1>2. CASE pc[t] \in {"body", "commit", "rollback"} /\ lock = conn[t]
  <2>1. lock # None /\ lock # conn[u]
    BY <1>0, <1>1, <1>2 DEF Running
  <2>2. UNCHANGED fileVars
    BY <2>1 DEF Answer, Begun, BeginRefused, Run, CallbackRejects, CallbackResolves,
                Committed, CommitRefused, RolledBack, Goto
  <2>3. QED
    BY <1>0, <1>1, <2>2 DEF Ran, Statements
<1>3. CASE ~(pc[t] \in {"body", "commit", "rollback"} /\ lock = conn[t])
  <2>1. buf \cap Statements(t) = {} /\ pc[t] \notin {"body", "commit"}
    BY <1>0, <1>3
  <2>2. <<u, left[u]>> \notin Statements(t)
    BY DEF Statements
  <2>3. /\ buf' \cap Statements(t) = {}
        /\ stored' \cap Statements(t) = stored \cap Statements(t)
    BY <2>1, <2>2 DEF Answer, Begun, BeginRefused, Run, CallbackRejects,
       CallbackResolves, Committed, CommitRefused, RolledBack, Goto, EndOpen
  <2>4. QED
    BY <1>0, <1>1, <2>1, <2>3 DEF Statements
<1>4. QED
  BY <1>2, <1>3

\* Every step keeps the inductive invariant.
LEMMA TxnStep == IInv /\ [Next]_vars => IInv'
<1> SUFFICES ASSUME IInv, [Next]_vars PROVE IInv'
  OBVIOUS
<1>0. TypeOK' /\ Alone'
  BY TxnTypeStep, AloneStep DEF IInv
<1> DEFINE Mine(t) ==
      /\ pc[t] \in {"body", "commit"} =>
            lock = conn[t] /\ buf \cap Statements(t) = Ran(t)
      /\ pc[t] \in {"idle", "begin"} => left[t] = Steps
      /\ pc[t] = "commit" => left[t] = 0
      /\ pc[t] \notin {"body", "commit", "rollback"} \/ lock # conn[t] =>
            buf \cap Statements(t) = {}
      /\ stored \cap Statements(t) =
            IF pc[t] = "resolved" THEN Statements(t) ELSE {}
<1>inv. \A t \in Txns \ shared : Mine(t)
  BY DEF IInv, OwnsTransaction, DurableWhenResolved
<1>1. CASE UNCHANGED vars
  BY <1>0, <1>1, <1>inv DEF IInv, OwnsTransaction, DurableWhenResolved, vars, callVars,
                       fileVars, Ran, Statements
<1>2. ASSUME NEW u \in Txns, Answer(u) PROVE \A t \in Txns \ shared : Mine(t)'
  BY <1>2, OwnAnswer, OthersAnswer
<1>3. ASSUME NEW u \in Txns, NEW c \in Conns, Transactionalize(u, c)
      PROVE  \A t \in Txns \ shared : Mine(t)'
  BY <1>3, <1>inv DEF Transactionalize, IInv, TypeOK, fileVars, Ran, Statements
<1>4. ASSUME Crash PROVE \A t \in Txns \ shared : Mine(t)'
  BY <1>4, <1>inv DEF Crash, EndOpen, IInv, TypeOK, Ran, Statements, Running
<1>5. shared \subseteq shared'
  BY AnswerLocal DEF IInv, Next, Transactionalize, Crash, vars, callVars
<1>6. QED
  BY <1>0, <1>1, <1>2, <1>3, <1>4, <1>5
  DEF Next, IInv, OwnsTransaction, DurableWhenResolved

\* A call of transactionalize that has its connection for itself is atomic, for
\* any number of calls, connections and statements and with refused BEGIN and
\* COMMIT statements and crashes at any point.
THEOREM TransactionsAtomic == Spec => []AllOrNothing
<1>1. IInv => AllOrNothing
  BY DEF IInv, DurableWhenResolved, AllOrNothing
<1>2. QED
  BY TxnInit, TxnStep, <1>1, PTL DEF Spec

\* The inductive invariant behind it, in every reachable state.
THEOREM TransactionInvariant == Spec => []IInv
BY TxnInit, TxnStep, PTL DEF Spec

-----------------------------------------------------------------------------
\* An open transaction has a call that will end it, in the presence of calls
\* that share a connection: this part needs only the types and itself.
LEMMA DanglingStep == TypeOK /\ NoDanglingTxn /\ [Next]_vars => NoDanglingTxn'
<1> SUFFICES ASSUME TypeOK, NoDanglingTxn, [Next]_vars PROVE NoDanglingTxn'
  OBVIOUS
<1> USE DEF NoDanglingTxn, Running, callVars, fileVars
<1>1. CASE UNCHANGED vars
  BY <1>1 DEF vars
<1>2. ASSUME NEW t \in Txns, NEW c \in Conns, Transactionalize(t, c) PROVE NoDanglingTxn'
  BY <1>2 DEF Transactionalize, TypeOK
<1>3. ASSUME NEW t \in Txns, Begun(t) PROVE NoDanglingTxn'
  BY <1>3 DEF Begun, Goto, TypeOK
<1>4. ASSUME NEW t \in Txns, BeginRefused(t) \/ CallbackRejects(t) \/ CallbackResolves(t)
      PROVE  NoDanglingTxn'
  BY <1>4 DEF BeginRefused, CallbackRejects, CallbackResolves, Goto, TypeOK
<1>5. ASSUME NEW t \in Txns, Run(t) PROVE NoDanglingTxn'
  BY <1>5 DEF Run
<1>6. ASSUME NEW t \in Txns, Committed(t) \/ RolledBack(t) PROVE NoDanglingTxn'
  BY <1>6 DEF Committed, RolledBack, EndOpen, Goto, TypeOK
<1>7. ASSUME NEW t \in Txns, CommitRefused(t) PROVE NoDanglingTxn'
  BY <1>7 DEF CommitRefused, EndOpen, Goto, TypeOK
<1>8. ASSUME Crash PROVE NoDanglingTxn'
  BY <1>8 DEF Crash, EndOpen
<1>9. QED
  BY <1>1, <1>2, <1>3, <1>4, <1>5, <1>6, <1>7, <1>8 DEF Next, Answer

\* The write lock is never left behind: in every reachable state the call that
\* will end the open transaction is still under way.
THEOREM NoTransactionLeftOpen == Spec => []NoDanglingTxn
<1>1. Init => TypeOK /\ NoDanglingTxn
  BY TxnInit DEF Init, IInv, NoDanglingTxn
<1>2. QED
  BY <1>1, TxnTypeStep, DanglingStep, PTL DEF Spec
=============================================================================
