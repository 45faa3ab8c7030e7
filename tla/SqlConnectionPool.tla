------------------------- MODULE SqlConnectionPool -------------------------
(* The connection pool of sqlite3orm: SqlConnectionPool with the            *)
(* SqlConnectionPoolDatabase objects it hands out.                          *)
(*                                                                          *)
(* The code is single-threaded JavaScript: what runs between two awaits is  *)
(* one step here, and every await of a native callback or a timer is a      *)
(* control state ("pc") of the call that waits for it, so any other call    *)
(* may run in between.  A "connection" is a JavaScript wrapper object, a    *)
(* "handle" the native database session it points to; recycling moves one  *)
(* handle from the returned wrapper to a new one.                           *)
EXTENDS Integers, FiniteSets

CONSTANTS
    Calls,        \* asynchronous calls that may be in flight at once
    Conns,        \* SqlConnectionPoolDatabase objects
    Handles,      \* native database sessions
    Files,        \* database files the pool is opened with
    None,         \* JavaScript's undefined
    Min, Max,     \* the arguments min and max of open (max 0: no limit)
    HasSettings,  \* is open called with SqlDatabaseSettings
    Timeouts,     \* timeouts of get, in polls of wait (0: forever)
    Faults,       \* native calls that may fail: "open", "settings", "rollback"
    AppOps,       \* what the application does with a connection
    Overlap,      \* calls the application lets overlap
    MaxAdmin      \* bound on the number of pool.open and pool.close calls

ASSUME PoolAssumption ==
    /\ Min \in Nat /\ Max \in Nat /\ MaxAdmin \in Nat
    /\ HasSettings \in BOOLEAN
    /\ Timeouts \subseteq Nat
    /\ Faults \subseteq {"open", "settings", "rollback"}
    /\ AppOps \subseteq {"txn", "schema", "steal"}
    \* "admin": pool.open and pool.close overlap other calls
    \* "double": a connection is closed again before its first close settled
    /\ Overlap \subseteq {"admin", "double"}
    /\ None \notin Calls \cup Conns \cup Handles \cup Files

VARIABLES
    databaseFile, \* the file of the pool; None: the pool is closed
    mode,         \* "create" until the first connection is open, then "plain"
    inPool,       \* idle connections (the order of the queue is abstracted)
    inUse,        \* connections the pool counts as lent
    opening,      \* the call whose openInternal promise is this._opening
    db,           \* the handle of a connection, None when it is not open
    member,       \* the connections whose field pool is set
    dirty,        \* the connections marked dirty
    stage,        \* progress of an open: "no", "db" (sqlite3_open), "settings"
    wfile,        \* the file a connection in stage "db" is being opened with
    fileOf,       \* the file of a handle, None: the handle is closed
    txn,          \* the handles with an open transaction
    call,         \* the control state of every call
    app,          \* the connections the application holds
    admin         \* pool.open and pool.close calls made so far

poolVars == <<databaseFile, mode, inPool, inUse, opening>>
connVars == <<db, member, dirty, stage, wfile>>
handleVars == <<fileOf, txn>>
vars == <<poolVars, connVars, handleVars, call, app, admin>>

PoolMin == IF Min < 1 THEN 1 ELSE Min

OpenPcs == {"openWait", "resumeOk", "resumeErr", "openClosed", "openFirst",
            "openRest", "openFailed"}
Pcs == {"idle", "waiting", "getOpen", "rollback", "reapply", "stealing",
        "stealOpen"} \cup OpenPcs

\* w: the connection the call is about, n: the connection recycled to,
\* f: the file to open, on: the open call waited for, left: polls left,
\* pend: connections of Promise.all still opening
CallState == [pc : Pcs, w : Conns \cup {None}, n : Conns \cup {None},
              f : Files \cup {None}, on : Calls \cup {None}, left : Nat,
              pend : SUBSET Conns]

IdleCall == [pc |-> "idle", w |-> None, n |-> None, f |-> None, on |-> None,
             left |-> 0, pend |-> {}]

TypeOK ==
    /\ databaseFile \in Files \cup {None}
    /\ mode \in {"create", "plain"}
    /\ inPool \subseteq Conns /\ inUse \subseteq Conns /\ app \subseteq Conns
    /\ member \subseteq Conns /\ dirty \subseteq Conns
    /\ opening \in Calls \cup {None}
    /\ db \in [Conns -> Handles \cup {None}]
    /\ stage \in [Conns -> {"no", "db", "settings"}]
    /\ wfile \in [Conns -> Files \cup {None}]
    /\ fileOf \in [Handles -> Files \cup {None}]
    /\ txn \subseteq Handles
    /\ call \in [Calls -> CallState]
    /\ admin \in 0..MaxAdmin

Init ==
    /\ databaseFile = None /\ mode = "create"
    /\ inPool = {} /\ inUse = {} /\ opening = None
    /\ db = [w \in Conns |-> None] /\ member = {} /\ dirty = {}
    /\ stage = [w \in Conns |-> "no"] /\ wfile = [w \in Conns |-> None]
    /\ fileOf = [h \in Handles |-> None] /\ txn = {}
    /\ call = [c \in Calls |-> IdleCall] /\ app = {} /\ admin = 0

-----------------------------------------------------------------------------
\* Helpers

\* a call in flight works on w
Busy(w) == \E c \in Calls : w \in {call[c].w, call[c].n}

\* an open call has w among its Promise.all
Pending(w) == \E c \in Calls : w \in call[c].pend

\* objects not yet allocated, or garbage
FreshConns == {w \in Conns : /\ w \notin inPool \cup inUse \cup app \cup member
                             /\ db[w] = None /\ stage[w] = "no" /\ ~Busy(w)}
FreshHandles == {h \in Handles : fileOf[h] = None /\ \A w \in Conns : db[w] # h}

\* open calls woken by a settled this._opening run before anything else
Draining == \E c \in Calls : call[c].pc \in {"resumeOk", "resumeErr"}

\* the call c is resumed from the await p
At(c, p) == ~Draining /\ call[c].pc = p

\* the application starts a call
CanStart(c) == /\ ~Draining /\ call[c] = IdleCall
               /\ "admin" \in Overlap \/ \A d \in Calls : call[d].pc \notin OpenPcs

\* the application starts pool.open or pool.close
CanAdmin(c) == /\ CanStart(c) /\ admin < MaxAdmin
               /\ "admin" \in Overlap \/ \A d \in Calls : call[d] = IdleCall

Becomes(c, state) == call' = [call EXCEPT ![c] = state]

\* the handles of the connections S are closed, which rolls back; the
\* connections are left without pool and handle
CloseAll(S) ==
    LET closed == {h \in Handles : \E w \in S : db[w] = h} IN
    /\ db' = [w \in Conns |-> IF w \in S THEN None ELSE db[w]]
    /\ member' = member \ S
    /\ fileOf' = [h \in Handles |-> IF h \in closed THEN None ELSE fileOf[h]]
    /\ txn' = txn \ closed

\* the synchronous part of pool.close
ClosePool ==
    /\ databaseFile' = None /\ mode' = "create"
    /\ inPool' = {} /\ inUse' = {}
    /\ CloseAll(inPool \cup inUse)

\* new Database(f, ...) for the connections S; the open of w is over
StartOpens(S, f, w) ==
    /\ stage' = [x \in Conns |-> IF x \in S THEN "db" ELSE
                                 IF x = w THEN "no" ELSE stage[x]]
    /\ wfile' = [x \in Conns |-> IF x \in S THEN f ELSE
                                 IF x = w THEN None ELSE wfile[x]]

\* the native open of w has succeeded: only openByPool sets the field pool
Attach(w) ==
    /\ stage[w] = "db" /\ wfile[w] # None
    /\ \E h \in FreshHandles : /\ db' = [db EXCEPT ![w] = h]
                               /\ fileOf' = [fileOf EXCEPT ![h] = wfile[w]]
    /\ member' = IF \E c \in Calls : call[c].pc = "stealOpen" /\ call[c].w = w
                 THEN member ELSE member \cup {w}

\* openByPool or open of w resolves in this step
Ready(w) ==
    \/ ~HasSettings /\ Attach(w)
    \/ stage[w] = "settings" /\ UNCHANGED <<db, member, fileOf>>

\* openByPool or open of w rejects in this step (a handle that could not be
\* configured stays open); new Database(undefined) always fails
Fails(w) ==
    \/ stage[w] = "db" /\ ("open" \in Faults \/ wfile[w] = None)
    \/ stage[w] = "settings" /\ "settings" \in Faults

-----------------------------------------------------------------------------
\* get

MustWait == Max > 0 /\ inPool = {} /\ Cardinality(inUse) >= Max

\* mutant: the first idle connection is lent, but stays in the queue
ServeFirst(c, w) ==
    /\ inUse' = inUse \cup {w} /\ app' = app \cup {w}
    /\ Becomes(c, IdleCall)
    /\ UNCHANGED <<databaseFile, mode, inPool, opening, connVars, handleVars, admin>>

\* inPool.shift(), inUse.add, and the promise of get resolves
Serve(c, w) ==
    /\ inPool' = inPool \ {w} /\ inUse' = inUse \cup {w} /\ app' = app \cup {w}
    /\ Becomes(c, IdleCall)
    /\ UNCHANGED <<databaseFile, mode, opening, connVars, handleVars, admin>>

\* model bound: one call stays free, so that an application whose other calls
\* all wait can still close a connection
Get(c, t) ==
    /\ CanStart(c) /\ \E d \in Calls \ {c} : call[d] = IdleCall
    /\ \/ /\ MustWait
          /\ Becomes(c, [IdleCall EXCEPT !.pc = "waiting", !.left = t])
          /\ UNCHANGED <<poolVars, connVars, handleVars, app, admin>>
       \/ \E w \in inPool : Serve(c, w)
       \/ /\ inPool = {} /\ ~MustWait /\ databaseFile # None
          /\ \E w \in FreshConns :
                /\ StartOpens({w}, databaseFile, w)
                /\ Becomes(c, [IdleCall EXCEPT !.pc = "getOpen", !.w = w])
          /\ UNCHANGED <<poolVars, db, member, dirty, handleVars, app, admin>>

\* mutant: a timer that is not stopped at its timeout
PollForEver(c) ==
    /\ At(c, "waiting")
    /\ \/ \E w \in inPool : Serve(c, w)
       \/ /\ inPool = {} /\ Becomes(c, [call[c] EXCEPT !.left = @ - 1])
          /\ UNCHANGED <<poolVars, connVars, handleVars, app, admin>>

\* one tick of the interval timer of wait
Poll(c) ==
    /\ At(c, "waiting")
    /\ \/ \E w \in inPool : Serve(c, w)
       \/ /\ inPool = {} /\ call[c].left > 0
          /\ Becomes(c, IF call[c].left = 1 THEN IdleCall
                        ELSE [call[c] EXCEPT !.left = @ - 1])
          /\ UNCHANGED <<poolVars, connVars, handleVars, app, admin>>

GetOpened(c) ==
    LET w == call[c].w IN
    /\ At(c, "getOpen")
    /\ Ready(w) /\ StartOpens({}, None, w)
    /\ inUse' = inUse \cup {w} /\ app' = app \cup {w}
    /\ Becomes(c, IdleCall)
    /\ UNCHANGED <<databaseFile, mode, inPool, opening, dirty, txn, admin>>

GetFailed(c) ==
    /\ At(c, "getOpen")
    /\ Fails(call[c].w) /\ StartOpens({}, None, call[c].w)
    /\ Becomes(c, IdleCall)
    /\ UNCHANGED <<poolVars, db, member, dirty, handleVars, app, admin>>

-----------------------------------------------------------------------------
\* release: what SqlConnectionPoolDatabase.close does with a pool member

Releasable(w) ==
    IF w \in app THEN ~Busy(w) ELSE
    /\ "double" \in Overlap
    /\ \E d \in Calls : call[d].pc \in {"rollback", "reapply"} /\ call[d].w = w

\* mutant: only members of the pool are closed, a stolen connection is dropped
DropMember(c, w) ==
    /\ CanStart(c) /\ Releasable(w)
    /\ w \in member => db[w] = None \/ w \in dirty \/ Cardinality(inPool) >= PoolMin
    /\ inUse' = IF w \in member THEN inUse \ {w} ELSE inUse
    /\ app' = app \ {w} /\ dirty' = dirty \ {w}
    /\ CloseAll(IF w \in member THEN {w} ELSE {})
    /\ UNCHANGED <<databaseFile, mode, inPool, opening, stage, wfile, call, admin>>

\* mutant: the lent connections are counted among the idle ones
DropCountsLent(c, w) ==
    /\ CanStart(c) /\ Releasable(w)
    /\ w \in member => db[w] = None \/ w \in dirty
                        \/ Cardinality(inPool \cup inUse) >= PoolMin
    /\ inUse' = IF w \in member THEN inUse \ {w} ELSE inUse
    /\ app' = app \ {w} /\ dirty' = dirty \ {w}
    /\ CloseAll({w})
    /\ UNCHANGED <<databaseFile, mode, inPool, opening, stage, wfile, call, admin>>

\* not a member: SqlDatabase.close; dirty, or enough idle ones: closeByPool
Drop(c, w) ==
    /\ CanStart(c) /\ Releasable(w)
    /\ w \in member => db[w] = None \/ w \in dirty \/ Cardinality(inPool) >= PoolMin
    /\ inUse' = IF w \in member THEN inUse \ {w} ELSE inUse
    /\ app' = app \ {w} /\ dirty' = dirty \ {w}
    /\ CloseAll({w})
    /\ UNCHANGED <<databaseFile, mode, inPool, opening, stage, wfile, call, admin>>

\* recycleByPool up to the await of ROLLBACK
Recycle(c, w) ==
    /\ CanStart(c) /\ Releasable(w)
    /\ w \in member /\ db[w] # None
    /\ w \notin dirty /\ Cardinality(inPool) < PoolMin
    /\ \E n \in FreshConns :
          Becomes(c, [IdleCall EXCEPT !.pc = "rollback", !.w = w, !.n = n])
    /\ inUse' = inUse \ {w} /\ app' = app \ {w}
    /\ UNCHANGED <<databaseFile, mode, inPool, opening, connVars, handleVars, admin>>

\* mutant: the handle moves without a ROLLBACK
MovedAsIs(c) ==
    LET w == call[c].w  n == call[c].n IN
    /\ At(c, "rollback")
    /\ db' = [db EXCEPT ![n] = db[w], ![w] = None]
    /\ member' = (member \ {w}) \cup {n}
    /\ inPool' = inPool \cup {n}
    /\ Becomes(c, IdleCall)
    /\ UNCHANGED <<databaseFile, mode, inUse, opening, dirty, stage, wfile,
                   handleVars, app, admin>>

\* the ROLLBACK has been answered: its error is ignored and the handle moves,
\* unless another call has taken the handle (TypeError, release rejects)
RolledBack(c) ==
    LET w == call[c].w  n == call[c].n IN
    /\ At(c, "rollback")
    /\ txn' \in {txn \ {db[w]}} \cup (IF "rollback" \in Faults THEN {txn} ELSE {})
    /\ \/ /\ db[w] = None
          /\ Becomes(c, IdleCall)
          /\ UNCHANGED <<inPool, db, member>>
       \/ /\ db[w] # None /\ HasSettings
          /\ db' = [db EXCEPT ![n] = db[w]] /\ member' = member \cup {n}
          /\ Becomes(c, [call[c] EXCEPT !.pc = "reapply"])
          /\ UNCHANGED inPool
       \/ /\ db[w] # None /\ ~HasSettings
          /\ db' = [db EXCEPT ![n] = db[w], ![w] = None]
          /\ member' = (member \ {w}) \cup {n}
          /\ inPool' = inPool \cup {n}
          /\ Becomes(c, IdleCall)
    /\ UNCHANGED <<databaseFile, mode, inUse, opening, dirty, stage, wfile,
                   fileOf, app, admin>>

\* applySettings has settled (its error is ignored): the old wrapper is cleared
Reapplied(c) ==
    LET w == call[c].w  n == call[c].n IN
    /\ At(c, "reapply")
    /\ db' = [db EXCEPT ![w] = None] /\ member' = member \ {w}
    /\ inPool' = inPool \cup {n}
    /\ Becomes(c, IdleCall)
    /\ UNCHANGED <<databaseFile, mode, inUse, opening, dirty, stage, wfile,
                   handleVars, app, admin>>

-----------------------------------------------------------------------------
\* open of a connection of the pool: it is stolen from the pool

\* mutant: closeByPool without pool.release, the slot stays counted
StealUnreleased(c, w, f) ==
    /\ "steal" \in AppOps /\ CanStart(c)
    /\ w \in app /\ ~Busy(w) /\ stage[w] = "no"
    /\ CloseAll({w})
    /\ Becomes(c, [IdleCall EXCEPT !.pc = "stealing", !.w = w, !.f = f])
    /\ UNCHANGED <<poolVars, stage, wfile, dirty, app, admin>>

\* bound: one native open of a connection at a time (one that get has handed
\* out while an overlapping open of the pool still opens it is not stolen)
Steal(c, w, f) ==
    /\ "steal" \in AppOps /\ CanStart(c)
    /\ w \in app /\ ~Busy(w) /\ stage[w] = "no"
    /\ \/ /\ db[w] # None
          /\ inUse' = IF w \in member THEN inUse \ {w} ELSE inUse
          /\ CloseAll({w})
          /\ Becomes(c, [IdleCall EXCEPT !.pc = "stealing", !.w = w, !.f = f])
          /\ UNCHANGED <<stage, wfile>>
       \/ /\ db[w] = None
          /\ member' = member \ {w}
          /\ StartOpens({w}, f, w)
          /\ Becomes(c, [IdleCall EXCEPT !.pc = "stealOpen", !.w = w])
          /\ UNCHANGED <<inUse, db, handleVars>>
    /\ UNCHANGED <<databaseFile, mode, inPool, opening, dirty, app, admin>>

StealOpen(c) ==
    LET w == call[c].w IN
    /\ At(c, "stealing")
    /\ member' = member \ {w}
    /\ StartOpens({w}, call[c].f, w)
    /\ Becomes(c, [IdleCall EXCEPT !.pc = "stealOpen", !.w = w])
    /\ UNCHANGED <<poolVars, db, dirty, handleVars, app, admin>>

StealOpened(c) ==
    /\ At(c, "stealOpen")
    /\ \/ Ready(call[c].w)
       \/ Fails(call[c].w) /\ UNCHANGED <<db, member, fileOf>>
    /\ StartOpens({}, None, call[c].w)
    /\ Becomes(c, IdleCall)
    /\ UNCHANGED <<poolVars, dirty, txn, app, admin>>

-----------------------------------------------------------------------------
\* open and close of the pool

\* this._opening is replaced and openInternal runs up to the await of close
OpenInternal(c, f) ==
    /\ opening' = c
    /\ ClosePool
    /\ Becomes(c, [IdleCall EXCEPT !.pc = "openClosed", !.f = f])
    /\ UNCHANGED <<dirty, stage, wfile, app>>

Open(c, f) ==
    /\ CanAdmin(c) /\ admin' = admin + 1
    /\ \/ opening = None /\ OpenInternal(c, f)
       \/ /\ opening # None
          /\ Becomes(c, [IdleCall EXCEPT !.pc = "openWait", !.f = f, !.on = opening])
          /\ UNCHANGED <<poolVars, connVars, handleVars, app>>

\* a call that awaited this._opening: it returns when the pool is already
\* opened as asked for, else it opens the pool without looking again
OpenResume(c) ==
    LET f == call[c].f IN
    /\ call[c].pc \in {"resumeOk", "resumeErr"}
    /\ IF call[c].pc = "resumeOk" /\ databaseFile = f /\ mode = "plain"
       THEN Becomes(c, IdleCall) /\ UNCHANGED <<poolVars, connVars, handleVars, app>>
       ELSE OpenInternal(c, f)
    /\ UNCHANGED admin

OpenStart(c) ==
    LET f == call[c].f IN
    /\ At(c, "openClosed")
    /\ databaseFile' = f /\ mode' = "create" /\ inPool' = {}
    /\ \E w \in FreshConns :
          /\ StartOpens({w}, f, w)
          /\ Becomes(c, [call[c] EXCEPT !.pc = "openFirst", !.w = w])
    /\ UNCHANGED <<inUse, opening, db, member, dirty, handleVars, app, admin>>

\* mutant: only one of the calls that await c is woken
SettleOne(c, pcOfWoken) ==
    LET waiting == {d \in Calls : call[d].pc = "openWait" /\ call[d].on = c} IN
    /\ opening' = None
    /\ call' = [d \in Calls |->
          IF d = c THEN IdleCall
          ELSE IF d \in waiting /\ d = CHOOSE e \in waiting : TRUE
          THEN [call[d] EXCEPT !.pc = pcOfWoken, !.on = None] ELSE call[d]]

\* the open call c settles: this._opening is cleared, whoever it belongs to,
\* and the calls that awaited c are woken
Settle(c, pcOfWoken) ==
    /\ opening' = None
    /\ call' = [d \in Calls |->
          IF d = c THEN IdleCall
          ELSE IF call[d].pc = "openWait" /\ call[d].on = c
          THEN [call[d] EXCEPT !.pc = pcOfWoken, !.on = None] ELSE call[d]]

\* the first connection is pushed; the others are pushed before they are open
FirstOpened(c) ==
    LET w == call[c].w IN
    /\ At(c, "openFirst")
    /\ mode' = "plain"
    /\ Ready(w)
    /\ \E R \in SUBSET FreshConns :
          /\ Cardinality(R) = PoolMin - 1
          /\ StartOpens(R, databaseFile, w)
          /\ inPool' = inPool \cup {w} \cup R
          /\ IF R = {} THEN Settle(c, "resumeOk")
             ELSE /\ Becomes(c, [IdleCall EXCEPT !.pc = "openRest", !.pend = R])
                  /\ UNCHANGED opening
    /\ UNCHANGED <<databaseFile, inUse, dirty, txn, app, admin>>

RestOpened(c, w) ==
    /\ At(c, "openRest") /\ w \in call[c].pend
    /\ Ready(w) /\ StartOpens({}, None, w)
    /\ IF call[c].pend = {w} THEN Settle(c, "resumeOk")
       ELSE /\ Becomes(c, [call[c] EXCEPT !.pend = @ \ {w}])
            /\ UNCHANGED opening
    /\ UNCHANGED <<databaseFile, mode, inPool, inUse, dirty, txn, app, admin>>

\* mutant: the catch block of openInternal does not close the pool
OpenFailsOnly(c, w) ==
    /\ \/ At(c, "openFirst") /\ call[c].w = w
       \/ At(c, "openRest") /\ w \in call[c].pend
    /\ Fails(w) /\ StartOpens({}, None, w)
    /\ Becomes(c, [IdleCall EXCEPT !.pc = "openFailed"])
    /\ UNCHANGED <<poolVars, db, member, dirty, handleVars, app, admin>>

\* one open fails: the pool is closed whatever the other opens still do
OpenFails(c, w) ==
    /\ \/ At(c, "openFirst") /\ call[c].w = w
       \/ At(c, "openRest") /\ w \in call[c].pend
    /\ Fails(w) /\ StartOpens({}, None, w)
    /\ ClosePool
    /\ Becomes(c, [IdleCall EXCEPT !.pc = "openFailed"])
    /\ UNCHANGED <<opening, dirty, app, admin>>

OpenRejects(c) ==
    /\ At(c, "openFailed")
    /\ Settle(c, "resumeErr")
    /\ UNCHANGED <<databaseFile, mode, inPool, inUse, connVars, handleVars, app, admin>>

\* an open whose Promise.all has been given up
OrphanOpened(w) ==
    /\ ~Draining /\ stage[w] # "no" /\ ~Busy(w) /\ ~Pending(w)
    /\ Ready(w) \/ (Fails(w) /\ UNCHANGED <<db, member, fileOf>>)
    /\ StartOpens({}, None, w)
    /\ UNCHANGED <<poolVars, dirty, txn, call, app, admin>>

Close(c) ==
    /\ CanAdmin(c) /\ admin' = admin + 1
    /\ ClosePool
    /\ UNCHANGED <<opening, dirty, stage, wfile, call, app>>

-----------------------------------------------------------------------------
\* native callback of sqlite3_open when settings are to be applied next
DbOpened(w) ==
    /\ ~Draining /\ HasSettings /\ Attach(w)
    /\ stage' = [stage EXCEPT ![w] = "settings"]
    /\ wfile' = [wfile EXCEPT ![w] = None]
    /\ UNCHANGED <<poolVars, dirty, txn, call, app, admin>>

\* the application opens or ends a transaction on a connection it holds
Transact(w) ==
    /\ ~Draining /\ "txn" \in AppOps /\ w \in app /\ ~Busy(w) /\ db[w] # None
    /\ txn' = IF db[w] \in txn THEN txn \ {db[w]} ELSE txn \cup {db[w]}
    /\ UNCHANGED <<poolVars, connVars, fileOf, call, app, admin>>

\* a schema query marks the connection dirty
SchemaQuery(w) ==
    /\ ~Draining /\ "schema" \in AppOps /\ w \in app /\ ~Busy(w) /\ db[w] # None
    /\ dirty' = dirty \cup {w}
    /\ UNCHANGED <<poolVars, db, member, stage, wfile, handleVars, call, app, admin>>

-----------------------------------------------------------------------------
\* callbacks of the native module and timers
Callback ==
    \/ \E c \in Calls : \/ Poll(c)
                        \/ GetOpened(c) \/ GetFailed(c)
                        \/ RolledBack(c) \/ Reapplied(c)
                        \/ StealOpen(c) \/ StealOpened(c)
                        \/ OpenStart(c) \/ FirstOpened(c) \/ OpenRejects(c)
                        \/ \E w \in Conns : RestOpened(c, w) \/ OpenFails(c, w)
    \/ \E w \in Conns : DbOpened(w) \/ OrphanOpened(w)

\* calls of the application
Request ==
    \/ \E c \in Calls : \/ \E t \in Timeouts : Get(c, t)
                        \/ \E w \in Conns : Drop(c, w) \/ Recycle(c, w)
                        \/ \E w \in Conns, f \in Files : Steal(c, w, f)
                        \/ \E f \in Files : Open(c, f)
                        \/ Close(c)
    \/ \E w \in Conns : Transact(w) \/ SchemaQuery(w)

Next ==
    \/ \E c \in Calls : OpenResume(c)
    \/ Callback
    \/ Request

Spec == Init /\ [][Next]_vars

-----------------------------------------------------------------------------
\* Properties

\* No native session is reachable twice: neither two connections held by the
\* application nor one held and one idle share a handle, and the pool does not
\* count a connection both as idle and as lent (recycleByPool moves the handle
\* before the old wrapper is cleared).
Exclusive ==
    /\ \A v, w \in app \cup inPool : v # w /\ db[v] # None => db[v] # db[w]
    /\ inPool \cap (inUse \cup app) = {}

\* A connection waiting in the pool carries no transaction of its last user.
IdleClean == \A w \in inPool : db[w] \notin txn

\* An idle connection is open, or the open of the pool is still opening it.
IdleUsable == \A w \in inPool : db[w] # None \/ stage[w] = "db"

\* Every open handle can still be closed: it belongs to an idle connection, to
\* one the application holds, or to one a call in flight works on.  Holds while
\* pool.open and pool.close do not overlap other calls and no native call fails.
NoOrphan ==
    \A w \in Conns : db[w] # None => w \in inPool \cup app \/ Busy(w) \/ Pending(w)

\* The pool counts no connection as lent that nobody will give back (the count
\* is what get compares with max); same proviso.
NoLeakedSlot == inUse \subseteq app

\* A get that waits for an idle connection waits for one that will come: there
\* is an idle one, a lent one, or one being recycled.  Holds as long as no
\* connection is dirty or stolen: those are closed instead of recycled, and
\* wait polls only for idle connections, not for a free slot below max.
WaiterHasReason ==
    (\E c \in Calls : call[c].pc = "waiting") =>
        \/ inPool \cup inUse # {}
        \/ \E c \in Calls : call[c].pc \in {"rollback", "reapply"}

\* The inductive invariant behind Exclusive and IdleClean

\* two connections share a handle only while one is recycled to the other
AliasOnlyInRecycle ==
    \A v, w \in Conns : v # w /\ db[v] # None /\ db[v] = db[w] =>
        \E c \in Calls : call[c].pc = "reapply" /\ {v, w} = {call[c].w, call[c].n}

\* where the connections of a call in flight are
CallsPlaced == \A c \in Calls :
    LET w == call[c].w  n == call[c].n  p == call[c].pc
        away == Conns \ (inPool \cup inUse \cup app)
    IN  /\ p \in {"rollback", "reapply"} => w \in away /\ n \in away /\ w # n
        /\ p \in {"getOpen", "openFirst"} => w \in away
        /\ p \in {"stealing", "stealOpen"} => w \in Conns \ inPool
        /\ w # None => p \in {"rollback", "reapply", "getOpen", "openFirst",
                              "stealing", "stealOpen"}
        /\ n # None => p \in {"rollback", "reapply"}

\* no two calls in flight work on the same connection
CallsApart == \A c, d \in Calls :
    c # d => {call[c].w, call[c].n} \cap {call[d].w, call[d].n} \subseteq {None}

\* a transaction is open only on an open handle, and the handle is the
\* application's or about to be rolled back
TxnPlaced ==
    /\ \A h \in txn : fileOf[h] # None
    /\ \A w \in Conns : db[w] # None => fileOf[db[w]] # None
    /\ \A w \in Conns : db[w] \in txn =>
          w \in app \/ \E c \in Calls : call[c].pc = "rollback" /\ call[c].w = w

IdleApart == inPool \cap (inUse \cup app) = {}

\* what Exclusive follows from, whatever becomes of transactions
Structure == TypeOK /\ AliasOnlyInRecycle /\ CallsPlaced /\ CallsApart /\ IdleApart

\* The inductive invariant: connections share a handle only in the middle of
\* recycleByPool, no two calls work on one connection, and a transaction is open
\* only on a handle that is lent or about to be rolled back.
IInv == Structure /\ TxnPlaced

\* The pool implements SessionLease: a session is leased to the connection the
\* application holds it by.
HolderOf(h) == IF \E w \in app : db[w] = h THEN CHOOSE w \in app : db[w] = h ELSE None

Contract == INSTANCE SessionLease WITH
    Sessions <- Handles, Holders <- Conns,
    holder <- [h \in Handles |-> HolderOf(h)], unclean <- txn

\* The pool keeps the contract of SessionLease: every get is given a session
\* nobody else has and without a transaction, every transaction runs on a leased
\* session, and a session goes back to the pool whatever becomes of it there.
LeaseContract == Contract!LeaseSpec

\* What the documentation, a comment and the tests say, and the code does not do

\* SqlConnectionPool.open: "maximum connections which can be opened by this
\* connection pool"
MaxRespected == Max > 0 => Cardinality(inUse) <= Max

\* After pool.close the tests find no connection in the pool and none in use.
ClosedPoolIsEmpty ==
    databaseFile = None /\ (\A c \in Calls : call[c] = IdleCall) =>
        inPool = {} /\ inUse = {}

-----------------------------------------------------------------------------
\* Fairness: the native module answers every request and timers fire; an
\* application that returns its connections is an assumption of FairSpec only.

Fairness ==
    /\ \A c \in Calls : WF_vars(Poll(c))
    /\ \A c \in Calls : WF_vars(OpenResume(c))
    /\ WF_vars(\E c \in Calls :
                  \/ GetOpened(c) \/ GetFailed(c) \/ RolledBack(c) \/ Reapplied(c)
                  \/ StealOpen(c) \/ StealOpened(c) \/ OpenStart(c)
                  \/ FirstOpened(c) \/ OpenRejects(c)
                  \/ \E w \in Conns : RestOpened(c, w) \/ OpenFails(c, w))
    /\ \A w \in Conns : WF_vars(DbOpened(w))

Returns == \A w \in Conns :
    WF_vars(\E c \in Calls : Drop(c, w) \/ Recycle(c, w))

FairSpec == Spec /\ Fairness /\ Returns

\* Every pool.open settles, although calls that open concurrently replace and
\* clear each other's this._opening and close each other's connections.
OpensSettle == \A c \in Calls : call[c].pc \in OpenPcs ~> call[c] = IdleCall

\* A get without timeout that is never served is starved, not forgotten: other
\* calls are served for ever.
NeverForgotten == \A c \in Calls :
    <>[](call[c].pc = "waiting") => []<><<~(app' \subseteq app)>>_vars

=============================================================================
