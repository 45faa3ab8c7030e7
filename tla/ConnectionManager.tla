------------------------- MODULE ConnectionManager -------------------------
(* nestjs-sqlite3: the ConnectionManager and the Sqlite3Interceptor, which  *)
(* give every web request its own connections, on top of the pools.         *)
(*                                                                          *)
(* A request runs in an asynchronous context.  The context points to a      *)
(* dictionary object, from the name of a pool to the connection got from    *)
(* it; dictionaries are objects, an operation that awaits a pool goes on    *)
(* with the one it has read before.  The pools are taken from SessionLease  *)
(* (which SqlConnectionPool implements): the holder of a session is the     *)
(* dictionary it has been leased for.                                       *)
EXTENDS SessionLease, FiniteSets

CONSTANTS
    Requests,    \* web requests
    Ops,         \* repository operations a request may have in flight
    Names,       \* names of the connection pools
    PoolOf,      \* the name of the pool of a session
    Default,     \* the dictionary given to the constructor of AsyncContext
    EarlyOps,    \* do operations run before the interceptor (in a guard)
    Faults       \* what SQLite may refuse: "open", "commit"

ASSUME ManagerAssumption ==
    /\ PoolOf \in [Sessions -> Names]
    /\ Default \in Holders /\ EarlyOps \in BOOLEAN
    /\ Faults \subseteq {"open", "commit"}
    /\ None \notin Sessions \cup Requests \cup Names

VARIABLES
    pools,     \* _connectionPools: the state of the pool of a name, "none" before
               \* it is defined and "down" after it has been deleted
    ctx,       \* the dictionary of the context of a request
    dict,      \* the content of the dictionaries
    phase,     \* where a request is
    op,        \* the operations in flight
    closing,   \* the connections closeConnectionContext has taken over
    outcome,   \* the response of a request
    author,    \* history: the request that began the transaction of a session
    log,       \* history: what became of the transactions of a request
    got        \* history: the sessions a request has got for its context

managerVars == <<pools, ctx, dict>>
requestVars == <<phase, op, closing, outcome>>
history == <<author, log, got>>
vars == <<leaseVars, managerVars, requestVars, history>>

Empty == [n \in Names |-> None]
IdleOp == [pc |-> "idle", name |-> None, in |-> None, on |-> None]
OpState == [pc : {"idle", "waiting", "working"}, name : Names \cup {None},
            in : Holders \cup {None}, on : Sessions \cup {None}]

TypeOK ==
    /\ holder \in [Sessions -> Holders \cup {None}] /\ unclean \subseteq Sessions
    /\ pools \in [Names -> {"none", "opening", "open", "failed", "down"}]
    /\ ctx \in [Requests -> Holders]
    /\ dict \in [Holders -> [Names -> Sessions \cup {None}]]
    /\ phase \in [Requests -> {"before", "handling", "committing", "done"}]
    /\ op \in [Requests -> [Ops -> OpState]]
    /\ closing \in [Requests -> [all : SUBSET Sessions, left : SUBSET Sessions]]
    /\ outcome \in [Requests -> {"none", "ok", "error"}]
    /\ author \in [Sessions -> Requests \cup {None}]
    /\ log \subseteq Requests \X Names \X {"begun", "committed", "refused"}
    /\ got \subseteq Requests \X Sessions

Init ==
    /\ LeaseInit
    /\ pools = [n \in Names |-> "none"]
    /\ ctx = [r \in Requests |-> Default]
    /\ dict = [d \in Holders |-> Empty]
    /\ phase = [r \in Requests |-> "before"]
    /\ op = [r \in Requests |-> [o \in Ops |-> IdleOp]]
    /\ closing = [r \in Requests |-> [all |-> {}, left |-> {}]]
    /\ outcome = [r \in Requests |-> "none"]
    /\ author = [s \in Sessions |-> None] /\ log = {} /\ got = {}

-----------------------------------------------------------------------------
\* Helpers

Held(d) == {s \in Sessions : holder[s] = d}
Entries(d) == {dict[d][n] : n \in Names} \ {None}

\* {}: an object nobody refers to
Fresh(d) ==
    /\ d # Default /\ \A r \in Requests : ctx[r] # d
    /\ Held(d) = {} /\ \A r \in Requests, o \in Ops : op[r][o].in # d

NewContext(r) ==
    LET d == CHOOSE x \in Holders : Fresh(x) IN
    /\ \E x \in Holders : Fresh(x)
    /\ ctx' = [ctx EXCEPT ![r] = d] /\ dict' = [dict EXCEPT ![d] = Empty]

Idle(r) == \A o \in Ops : op[r][o] = IdleOp

\* the sessions S are given back to their pools
Return(S) == holder' = [s \in Sessions |-> IF s \in S THEN None ELSE holder[s]]

-----------------------------------------------------------------------------
\* openConnectionPool: the name is taken before the pool is open, and stays
\* taken when it cannot be opened
OpenConnectionPool(n) ==
    /\ pools[n] = "none"
    /\ pools' = [pools EXCEPT ![n] = "opening"]
    /\ UNCHANGED <<leaseVars, ctx, dict, requestVars, history>>

PoolOpened(n) ==
    /\ pools[n] = "opening"
    /\ pools' \in {[pools EXCEPT ![n] = p] :
                     p \in {"open"} \cup (IF "open" \in Faults THEN {"failed"} ELSE {})}
    /\ UNCHANGED <<leaseVars, ctx, dict, requestVars, history>>

\* closeAllConnectionPools at shutdown: the handles are closed under whoever
\* uses them, which rolls back
CloseAllConnectionPools ==
    /\ \A n \in Names : pools[n] \in {"open", "failed"}
    /\ pools' = [n \in Names |-> "down"]
    /\ Return(Sessions) /\ unclean' = {}
    /\ UNCHANGED <<ctx, dict, requestVars, history>>

\* a pool rolls back the transaction of a session it has back
PoolCleans(s) ==
    /\ holder[s] = None /\ s \in unclean
    /\ unclean' = unclean \ {s}
    /\ UNCHANGED <<holder, managerVars, requestVars, history>>

-----------------------------------------------------------------------------
\* mutant: the dictionary of the surrounding context is inherited
InterceptInherits(r) ==
    /\ phase[r] = "before" /\ Idle(r)
    /\ phase' = [phase EXCEPT ![r] = "handling"]
    /\ UNCHANGED <<leaseVars, managerVars, op, closing, outcome, history>>

\* Sqlite3Interceptor.intercept, and the createConnectionContext it calls
Intercept(r) ==
    /\ phase[r] = "before" /\ Idle(r)
    /\ phase' = [phase EXCEPT ![r] = "handling"]
    /\ NewContext(r)
    /\ UNCHANGED <<leaseVars, pools, op, closing, outcome, history>>

\* getConnection, called by every operation of a Repository or EntityManager;
\* it rejects, and nothing changes, while there is no open pool of that name
GetConnection(r, o, n) ==
    LET d == ctx[r] IN
    /\ op[r][o] = IdleOp
    /\ phase[r] = "handling" \/ (phase[r] = "before" /\ EarlyOps)
    /\ \/ /\ dict[d][n] # None
          /\ op' = [op EXCEPT ![r][o] = [pc |-> "working", name |-> n, in |-> d,
                                         on |-> dict[d][n]]]
       \/ /\ dict[d][n] = None /\ pools[n] = "open"
          /\ op' = [op EXCEPT ![r][o] = [pc |-> "waiting", name |-> n, in |-> d,
                                         on |-> None]]
    /\ UNCHANGED <<leaseVars, managerVars, phase, closing, outcome, history>>

\* mutant: the connection is not put into the dictionary
GotUnrecorded(r, o, s) ==
    LET d == op[r][o].in  n == op[r][o].name IN
    /\ op[r][o].pc = "waiting" /\ n = PoolOf[s] /\ pools[n] = "open"
    /\ Lease(s, d)
    /\ op' = [op EXCEPT ![r][o] = [pc |-> "working", name |-> n, in |-> d, on |-> s]]
    /\ got' = IF phase[r] = "handling" THEN got \cup {<<r, s>>} ELSE got
    /\ UNCHANGED <<managerVars, phase, closing, outcome, author, log>>

\* pool.get resolves: the connection is put into the dictionary read before,
\* in place of one that has come in the meantime (what a pool closed meanwhile
\* does is the matter of SqlConnectionPool)
Got(r, o, s) ==
    LET d == op[r][o].in  n == op[r][o].name IN
    /\ op[r][o].pc = "waiting" /\ n = PoolOf[s] /\ pools[n] = "open"
    /\ Lease(s, d)
    /\ dict' = [dict EXCEPT ![d][n] = s]
    /\ op' = [op EXCEPT ![r][o] = [pc |-> "working", name |-> n, in |-> d, on |-> s]]
    /\ got' = IF phase[r] = "handling" THEN got \cup {<<r, s>>} ELSE got
    /\ UNCHANGED <<pools, ctx, phase, closing, outcome, author, log>>

\* the handler begins a transaction on a connection of its context
BeginTransaction(r, o) ==
    LET s == op[r][o].on IN
    /\ phase[r] = "handling" /\ op[r][o].pc = "working"
    /\ holder[s] = op[r][o].in /\ s \notin unclean
    /\ Work(s)
    /\ author' = [author EXCEPT ![s] = r]
    /\ log' = log \cup {<<r, PoolOf[s], "begun">>}
    /\ UNCHANGED <<managerVars, requestVars, got>>

\* the operation is over (or fails, when its connection has been closed)
OperationEnds(r, o) ==
    /\ op[r][o].pc = "working"
    /\ op' = [op EXCEPT ![r][o] = IdleOp]
    /\ UNCHANGED <<leaseVars, managerVars, phase, closing, outcome, history>>

\* mutant: after an error the connections are forgotten instead of closed
FailAndForget(r) ==
    /\ phase[r] = "handling" /\ Idle(r)
    /\ phase' = [phase EXCEPT ![r] = "done"]
    /\ outcome' = [outcome EXCEPT ![r] = "error"]
    /\ NewContext(r)
    /\ UNCHANGED <<leaseVars, pools, op, closing, history>>

\* the handler fails: closeConnectionContext(false) closes the connections
Fail(r) ==
    /\ phase[r] = "handling" /\ Idle(r)
    /\ phase' = [phase EXCEPT ![r] = "done"]
    /\ outcome' = [outcome EXCEPT ![r] = "error"]
    /\ Return(Entries(ctx[r]))
    /\ NewContext(r)
    /\ UNCHANGED <<unclean, pools, op, closing, history>>

\* the handler succeeds: the response goes out, and closeConnectionContext(true)
\* takes over the connections and hands a COMMIT to each
Succeed(r) ==
    LET S == Entries(ctx[r]) IN
    /\ phase[r] = "handling" /\ Idle(r)
    /\ phase' = [phase EXCEPT ![r] = "committing"]
    /\ outcome' = [outcome EXCEPT ![r] = "ok"]
    /\ closing' = [closing EXCEPT ![r] = [all |-> S, left |-> S]]
    /\ NewContext(r)
    /\ UNCHANGED <<leaseVars, pools, op, history>>

\* one COMMIT is answered: there was no transaction (or no connection any
\* more), it is committed, or it is refused, which nobody gets to know
EndTransactionAnswered(r, s) ==
    /\ phase[r] = "committing" /\ s \in closing[r].left
    /\ closing' = [closing EXCEPT ![r].left = @ \ {s}]
    /\ \/ /\ s \notin unclean
          /\ UNCHANGED <<leaseVars, log>>
       \/ /\ s \in unclean /\ Work(s)
          /\ log' = log \cup {<<author[s], PoolOf[s], "committed">>}
       \/ /\ s \in unclean /\ "commit" \in Faults
          /\ log' = log \cup {<<author[s], PoolOf[s], "refused">>}
          /\ UNCHANGED leaseVars
    /\ UNCHANGED <<managerVars, phase, op, outcome, author, got>>

\* mutant: the connections are closed before their COMMIT is answered
CloseAtOnce(r) ==
    /\ phase[r] = "committing"
    /\ phase' = [phase EXCEPT ![r] = "done"]
    /\ Return(closing[r].all)
    /\ closing' = [closing EXCEPT ![r] = [all |-> {}, left |-> {}]]
    /\ UNCHANGED <<unclean, managerVars, op, outcome, history>>

\* all are answered: the connections are closed
CloseConnections(r) ==
    /\ phase[r] = "committing" /\ closing[r].left = {}
    /\ phase' = [phase EXCEPT ![r] = "done"]
    /\ Return(closing[r].all)
    /\ closing' = [closing EXCEPT ![r] = [all |-> {}, left |-> {}]]
    /\ UNCHANGED <<unclean, managerVars, op, outcome, history>>

-----------------------------------------------------------------------------
RequestStep(r) ==
    \/ Intercept(r) \/ Fail(r) \/ Succeed(r) \/ CloseConnections(r)
    \/ \E o \in Ops : \/ OperationEnds(r, o) \/ BeginTransaction(r, o)
                      \/ \E n \in Names : GetConnection(r, o, n)
                      \/ \E s \in Sessions : Got(r, o, s)
    \/ \E s \in Sessions : EndTransactionAnswered(r, s)

Next ==
    \/ \E r \in Requests : RequestStep(r)
    \/ \E n \in Names : OpenConnectionPool(n) \/ PoolOpened(n)
    \/ \E s \in Sessions : PoolCleans(s)
    \/ CloseAllConnectionPools

Spec == Init /\ [][Next]_vars

\* SQLite answers, timers fire, and every handler ends
Fairness ==
    /\ \A r \in Requests :
          /\ SF_vars(Fail(r) \/ Succeed(r)) /\ WF_vars(CloseConnections(r))
          /\ \A s \in Sessions : WF_vars(EndTransactionAnswered(r, s))
          /\ \A o \in Ops : /\ WF_vars(OperationEnds(r, o))
                            /\ WF_vars(\E s \in Sessions : Got(r, o, s))
    /\ \A s \in Sessions : WF_vars(PoolCleans(s))

FairSpec == Spec /\ Fairness

-----------------------------------------------------------------------------
\* Properties

Live == {Default} \cup {ctx[r] : r \in Requests}

\* No request can reach the connection of another one, neither one in use nor
\* one that is being committed and closed, as long as operations run in a context.
Isolation ==
    \A r, q \in Requests : r # q =>
        Entries(ctx[r]) \cap (Entries(ctx[q]) \cup closing[q].all) = {}

\* Every leased connection is found again when its context is closed: it is in
\* the dictionary it was leased for, which is that of a context, or a
\* closeConnectionContext under way has it.
NoLeak ==
    \A s \in Sessions : holder[s] # None =>
        \/ holder[s] \in Live /\ s \in Entries(holder[s])
        \/ \E r \in Requests : s \in closing[r].all

\* The response tells what became of the transactions the handler left to the
\* interceptor: none is committed after an error; after a success each has been
\* committed before its connection goes back, unless SQLite refused the COMMIT
\* (which is ignored) or the pools were closed meanwhile.
OutcomeHonest ==
    \A r \in Requests, n \in Names :
        /\ <<r, n, "committed">> \in log => outcome[r] = "ok"
        /\ <<r, n, "begun">> \in log /\ outcome[r] = "ok" /\ phase[r] = "done" =>
              \/ <<r, n, "committed">> \in log \/ <<r, n, "refused">> \in log
              \/ pools[n] = "down"

\* README: getConnection is "to get the same database connection from the pool
\* throughout the lifetime of a web request".
SameConnection ==
    \A r \in Requests, s, t \in Sessions :
        <<r, s>> \in got /\ <<r, t>> \in got /\ PoolOf[s] = PoolOf[t] => s = t

\* A test and the README want getConnection to fail outside of a context.
NoContextNoConnection == Held(Default) = {}

\* An operation that waits for a connection gets one, although the requests
\* that have all of them go on for a while, unless the pools are closed: pool.get
\* waits without a timeout.
Served ==
    \A r \in Requests, o \in Ops :
        op[r][o].pc = "waiting" ~>
            op[r][o].pc # "waiting" \/ \E n \in Names : pools[n] = "down"
=============================================================================
