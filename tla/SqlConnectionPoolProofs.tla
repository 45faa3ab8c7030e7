---------------------- MODULE SqlConnectionPoolProofs ----------------------
(* Machine-checked safety of the connection pool for every number of calls, *)
(* connections, handles and files, every min and max, with and without      *)
(* settings: first whatever native opens fail and however pool.open,        *)
(* pool.close, get, release and steals overlap, at the end what holds as    *)
(* long as opening and closing the pool overlap no other call.              *)
EXTENDS SqlConnectionPool, FiniteSetTheorems, TLAPS

-----------------------------------------------------------------------------
\* The helpers

\* A call that is not in flight refers to nothing.
LEMMA CallStates ==
    /\ IdleCall \in CallState
    /\ IdleCall.pc = "idle" /\ IdleCall.w = None /\ IdleCall.n = None
    /\ IdleCall.pend = {} /\ IdleCall.on = None /\ IdleCall.f = None
BY DEF IdleCall, CallState, Pcs

\* Replacing the state of a call by a well-typed one keeps the calls well typed.
LEMMA BecomesType ==
    ASSUME NEW c \in Calls, NEW state \in CallState, TypeOK, Becomes(c, state)
    PROVE  call' \in [Calls -> CallState]
BY DEF TypeOK, Becomes

\* Closing connections (pool.close, closeByPool) keeps its variables well typed.
LEMMA CloseAllType ==
    ASSUME NEW S, TypeOK, CloseAll(S)
    PROVE  /\ db' \in [Conns -> Handles \cup {None}]
           /\ member' \subseteq Conns
           /\ fileOf' \in [Handles -> Files \cup {None}]
           /\ txn' \subseteq Handles
BY DEF TypeOK, CloseAll

\* So does starting native opens (new Database),
LEMMA StartOpensType ==
    ASSUME NEW S, NEW f \in Files \cup {None}, NEW w, TypeOK, StartOpens(S, f, w)
    PROVE  /\ stage' \in [Conns -> {"no", "db", "settings"}]
           /\ wfile' \in [Conns -> Files \cup {None}]
BY DEF TypeOK, StartOpens

\* the answer of a native open, which gives a connection its handle,
LEMMA AttachType ==
    ASSUME NEW w \in Conns, TypeOK, Attach(w)
    PROVE  /\ db' \in [Conns -> Handles \cup {None}]
           /\ member' \subseteq Conns
           /\ fileOf' \in [Handles -> Files \cup {None}]
BY DEF TypeOK, Attach, FreshHandles

\* and the end of openByPool, with or without settings.
LEMMA ReadyType ==
    ASSUME NEW w \in Conns, TypeOK, Ready(w)
    PROVE  /\ db' \in [Conns -> Handles \cup {None}]
           /\ member' \subseteq Conns
           /\ fileOf' \in [Handles -> Files \cup {None}]
BY AttachType DEF TypeOK, Ready

\* Settling this._opening wakes the waiting open calls in well-typed states.
LEMMA SettleType ==
    ASSUME NEW c \in Calls, NEW p \in Pcs, TypeOK, Settle(c, p)
    PROVE  call' \in [Calls -> CallState] /\ opening' \in Calls \cup {None}
<1>1. \A d \in Calls : [call[d] EXCEPT !.pc = p, !.on = None] \in CallState
  BY ZenonT(30) DEF TypeOK, CallState
<1>. QED  BY <1>1, CallStates DEF TypeOK, Settle

\* The states a call passes through are well typed.
LEMMA StateForms ==
    ASSUME NEW p \in Pcs, NEW w \in Conns, NEW n \in Conns,
           NEW f \in Files \cup {None}, NEW d \in Calls, NEW t \in Nat,
           NEW R \in SUBSET Conns
    PROVE  /\ [IdleCall EXCEPT !.pc = p, !.left = t] \in CallState
           /\ [IdleCall EXCEPT !.pc = p] \in CallState
           /\ [IdleCall EXCEPT !.pc = p, !.w = w] \in CallState
           /\ [IdleCall EXCEPT !.pc = p, !.w = w, !.n = n] \in CallState
           /\ [IdleCall EXCEPT !.pc = p, !.w = w, !.f = f] \in CallState
           /\ [IdleCall EXCEPT !.pc = p, !.f = f] \in CallState
           /\ [IdleCall EXCEPT !.pc = p, !.f = f, !.on = d] \in CallState
           /\ [IdleCall EXCEPT !.pc = p, !.pend = R] \in CallState
BY CallStates DEF CallState

-----------------------------------------------------------------------------
\* Type correctness

\* A new pool is well typed.
LEMMA TypeInit == Init => TypeOK
BY PoolAssumption, CallStates DEF Init, TypeOK, PoolAssumption

\* Serving a get from the queue keeps type correctness,
LEMMA ServeType ==
    ASSUME NEW c \in Calls, NEW w \in inPool, TypeOK, Serve(c, w)
    PROVE  TypeOK'
BY CallStates DEF TypeOK, Serve, Becomes, connVars, handleVars

\* as does a get, whether it waits, is served or opens a connection,
LEMMA GetType ==
    ASSUME NEW c \in Calls, NEW t \in Timeouts, TypeOK, Get(c, t)
    PROVE  TypeOK'
<1>1. CASE \E w \in inPool : Serve(c, w)
  BY <1>1, ServeType
<1>2. CASE /\ MustWait
           /\ Becomes(c, [IdleCall EXCEPT !.pc = "waiting", !.left = t])
           /\ UNCHANGED <<poolVars, connVars, handleVars, app, admin>>
  BY <1>2, CallStates, PoolAssumption, ZenonT(30)
  DEF TypeOK, Becomes, CallState, Pcs, poolVars, connVars, handleVars, PoolAssumption
<1>3. CASE /\ inPool = {} /\ ~MustWait /\ databaseFile # None
           /\ \E w \in FreshConns :
                 /\ StartOpens({w}, databaseFile, w)
                 /\ Becomes(c, [IdleCall EXCEPT !.pc = "getOpen", !.w = w])
           /\ UNCHANGED <<poolVars, db, member, dirty, handleVars, app, admin>>
  <2>1. PICK w \in FreshConns :
          /\ StartOpens({w}, databaseFile, w)
          /\ Becomes(c, [IdleCall EXCEPT !.pc = "getOpen", !.w = w])
    BY <1>3
  <2>2. databaseFile \in Files \cup {None} /\ w \in Conns
    BY DEF TypeOK, FreshConns
  <2>3. /\ stage' \in [Conns -> {"no", "db", "settings"}]
        /\ wfile' \in [Conns -> Files \cup {None}]
    BY <2>1, <2>2, StartOpensType
  <2>4. [IdleCall EXCEPT !.pc = "getOpen", !.w = w] \in CallState
    BY <2>2, StateForms DEF Pcs
  <2>. QED  BY <1>3, <2>1, <2>3, <2>4 DEF TypeOK, Becomes, poolVars, handleVars
<1>. QED  BY <1>1, <1>2, <1>3 DEF Get

\* a tick of the timer of a waiting get,
LEMMA PollType ==
    ASSUME NEW c \in Calls, TypeOK, Poll(c)
    PROVE  TypeOK'
<1>1. CASE \E w \in inPool : Serve(c, w)
  BY <1>1, ServeType
<1>2. CASE /\ inPool = {} /\ call[c].left > 0
           /\ Becomes(c, IF call[c].left = 1 THEN IdleCall
                         ELSE [call[c] EXCEPT !.left = @ - 1])
           /\ UNCHANGED <<poolVars, connVars, handleVars, app, admin>>
  <2>1. (IF call[c].left = 1 THEN IdleCall ELSE [call[c] EXCEPT !.left = @ - 1])
           \in CallState
    BY <1>2, CallStates DEF TypeOK, CallState
  <2>. QED  BY <1>2, <2>1 DEF TypeOK, Becomes, poolVars, connVars, handleVars
<1>. QED  BY <1>1, <1>2 DEF Poll

\* the end of the open a get has started,
LEMMA GetEndsType ==
    ASSUME NEW c \in Calls, TypeOK, CallsPlaced, GetOpened(c) \/ GetFailed(c)
    PROVE  TypeOK'
<1>1. call[c].w \in Conns
  BY DEF GetOpened, GetFailed, At, CallsPlaced
<1>2. /\ stage' \in [Conns -> {"no", "db", "settings"}]
      /\ wfile' \in [Conns -> Files \cup {None}]
  BY StartOpensType DEF GetOpened, GetFailed
<1>3. call' \in [Calls -> CallState]
  BY BecomesType, CallStates DEF GetOpened, GetFailed
<1>4. CASE GetOpened(c)
  BY <1>1, <1>2, <1>3, <1>4, ReadyType DEF TypeOK, GetOpened
<1>5. CASE GetFailed(c)
  BY <1>2, <1>3, <1>5 DEF TypeOK, GetFailed, poolVars, handleVars
<1>. QED  BY <1>4, <1>5

\* a release, whether it closes or recycles,
LEMMA ReleaseType ==
    ASSUME NEW c \in Calls, NEW w \in Conns, TypeOK, Drop(c, w) \/ Recycle(c, w)
    PROVE  TypeOK'
<1>1. CASE Drop(c, w)
  BY <1>1, CloseAllType DEF TypeOK, Drop
<1>2. CASE Recycle(c, w)
  <2>1. PICK n \in FreshConns :
          Becomes(c, [IdleCall EXCEPT !.pc = "rollback", !.w = w, !.n = n])
    BY <1>2, Zenon DEF Recycle
  <2>2. [IdleCall EXCEPT !.pc = "rollback", !.w = w, !.n = n] \in CallState
    BY StateForms DEF Pcs, FreshConns
  <2>3. call' \in [Calls -> CallState]
    BY <2>1, <2>2, BecomesType
  <2>. QED  BY <1>2, <2>3 DEF TypeOK, Recycle, connVars, handleVars
<1>. QED  BY <1>1, <1>2

\* the two awaits inside recycleByPool,
LEMMA RecycleEndsType ==
    ASSUME NEW c \in Calls, TypeOK, CallsPlaced, RolledBack(c) \/ Reapplied(c)
    PROVE  TypeOK'
<1>1. call[c].w \in Conns /\ call[c].n \in Conns
  BY DEF RolledBack, Reapplied, At, CallsPlaced
<1>2. CASE RolledBack(c)
  <2>1. [call[c] EXCEPT !.pc = "reapply"] \in CallState
    BY DEF TypeOK, CallState, Pcs
  <2>2. call' \in [Calls -> CallState]
    BY <1>2, <2>1, CallStates, BecomesType DEF RolledBack
  <2>3. txn' \subseteq Handles
    BY <1>2 DEF RolledBack, TypeOK
  <2>4. /\ db' \in [Conns -> Handles \cup {None}]
        /\ inPool' \subseteq Conns /\ member' \subseteq Conns
    BY <1>1, <1>2 DEF RolledBack, TypeOK
  <2>. QED  BY <1>2, <2>2, <2>3, <2>4 DEF TypeOK, RolledBack
<1>3. CASE Reapplied(c)
  <2>1. call' \in [Calls -> CallState]
    BY <1>3, CallStates, BecomesType DEF Reapplied
  <2>. QED  BY <1>1, <1>3, <2>1 DEF TypeOK, Reapplied, handleVars
<1>. QED  BY <1>2, <1>3

\* open called on a connection of the pool,
LEMMA StealType ==
    ASSUME NEW c \in Calls, NEW w \in Conns, NEW f \in Files, TypeOK, Steal(c, w, f)
    PROVE  TypeOK'
<1>1. /\ [IdleCall EXCEPT !.pc = "stealing", !.w = w, !.f = f] \in CallState
      /\ [IdleCall EXCEPT !.pc = "stealOpen", !.w = w] \in CallState
  BY StateForms DEF Pcs
<1>2. call' \in [Calls -> CallState]
  BY <1>1, BecomesType DEF Steal
<1>3. CASE CloseAll({w}) /\ UNCHANGED <<stage, wfile>>
  BY <1>2, <1>3, CloseAllType DEF TypeOK, Steal
<1>4. CASE /\ StartOpens({w}, f, w) /\ member' = member \ {w}
           /\ UNCHANGED <<inUse, db, handleVars>>
  BY <1>2, <1>4, StartOpensType DEF TypeOK, Steal, handleVars
<1>. QED  BY <1>3, <1>4 DEF Steal

\* and its continuation on the stolen connection,
LEMMA StealEndsType ==
    ASSUME NEW c \in Calls, TypeOK, CallsPlaced, StealOpen(c) \/ StealOpened(c)
    PROVE  TypeOK'
<1>1. call[c].w \in Conns
  BY DEF StealOpen, StealOpened, At, CallsPlaced
<1>2. CASE StealOpen(c)
  <2>1. [IdleCall EXCEPT !.pc = "stealOpen", !.w = call[c].w] \in CallState
    BY <1>1, StateForms DEF Pcs
  <2>2. call' \in [Calls -> CallState]
    BY <1>2, <2>1, BecomesType DEF StealOpen
  <2>3. call[c].f \in Files \cup {None}
    BY DEF TypeOK, CallState
  <2>4. /\ stage' \in [Conns -> {"no", "db", "settings"}]
        /\ wfile' \in [Conns -> Files \cup {None}]
    BY <1>2, <2>3, StartOpensType DEF StealOpen
  <2>. QED  BY <1>2, <2>2, <2>4 DEF TypeOK, StealOpen, poolVars, handleVars
<1>3. CASE StealOpened(c)
  <2>1. call' \in [Calls -> CallState]
    BY <1>3, CallStates, BecomesType DEF StealOpened
  <2>2. /\ stage' \in [Conns -> {"no", "db", "settings"}]
        /\ wfile' \in [Conns -> Files \cup {None}]
    BY <1>3, StartOpensType DEF StealOpened
  <2>3. /\ db' \in [Conns -> Handles \cup {None}]
        /\ member' \subseteq Conns
        /\ fileOf' \in [Handles -> Files \cup {None}]
    BY <1>1, <1>3, ReadyType DEF StealOpened, TypeOK
  <2>. QED  BY <1>3, <2>1, <2>2, <2>3 DEF TypeOK, StealOpened, poolVars
<1>. QED  BY <1>2, <1>3

\* the synchronous start of openInternal,
LEMMA OpenInternalType ==
    ASSUME NEW c \in Calls, NEW f \in Files \cup {None}, TypeOK, OpenInternal(c, f),
           admin' \in 0..MaxAdmin
    PROVE  TypeOK'
<1>1. [IdleCall EXCEPT !.pc = "openClosed", !.f = f] \in CallState
  BY CallStates DEF CallState, Pcs, OpenPcs
<1>2. call' \in [Calls -> CallState]
  BY <1>1, BecomesType DEF OpenInternal
<1>3. /\ db' \in [Conns -> Handles \cup {None}] /\ member' \subseteq Conns
      /\ fileOf' \in [Handles -> Files \cup {None}] /\ txn' \subseteq Handles
  BY CloseAllType DEF OpenInternal, ClosePool
<1>. QED  BY <1>2, <1>3 DEF TypeOK, OpenInternal, ClosePool

\* pool.open, whether it starts or waits for another one,
LEMMA OpenType ==
    ASSUME NEW c \in Calls, NEW f \in Files, TypeOK, Open(c, f)
    PROVE  TypeOK'
<1>1. admin' \in 0..MaxAdmin
  BY PoolAssumption DEF TypeOK, Open, CanAdmin, PoolAssumption
<1>2. CASE OpenInternal(c, f)
  BY <1>1, <1>2, OpenInternalType
<1>3. CASE /\ opening # None
           /\ Becomes(c, [IdleCall EXCEPT !.pc = "openWait", !.f = f, !.on = opening])
           /\ UNCHANGED <<poolVars, connVars, handleVars, app>>
  <2>1. [IdleCall EXCEPT !.pc = "openWait", !.f = f, !.on = opening] \in CallState
    BY <1>3, CallStates DEF TypeOK, CallState, Pcs, OpenPcs
  <2>2. call' \in [Calls -> CallState]
    BY <1>3, <2>1, BecomesType
  <2>. QED  BY <1>1, <1>3, <2>2 DEF TypeOK, poolVars, connVars, handleVars
<1>. QED  BY <1>2, <1>3 DEF Open

\* an open call that is woken,
LEMMA OpenResumeType ==
    ASSUME NEW c \in Calls, TypeOK, OpenResume(c)
    PROVE  TypeOK'
<1>1. call[c].f \in Files \cup {None} /\ admin' \in 0..MaxAdmin
  BY DEF TypeOK, CallState, OpenResume
<1>2. CASE OpenInternal(c, call[c].f)
  BY <1>1, <1>2, OpenInternalType
<1>3. CASE Becomes(c, IdleCall) /\ UNCHANGED <<poolVars, connVars, handleVars, app>>
  <2>1. call' \in [Calls -> CallState]
    BY <1>3, CallStates, BecomesType
  <2>. QED  BY <1>1, <1>3, <2>1 DEF TypeOK, poolVars, connVars, handleVars
<1>. QED  BY <1>2, <1>3 DEF OpenResume

\* the open of the first connection,
LEMMA OpenStartType ==
    ASSUME NEW c \in Calls, TypeOK, OpenStart(c)
    PROVE  TypeOK'
<1>1. PICK w \in FreshConns :
        /\ StartOpens({w}, call[c].f, w)
        /\ Becomes(c, [call[c] EXCEPT !.pc = "openFirst", !.w = w])
  BY DEF OpenStart
<1>2. call[c].f \in Files \cup {None} /\ w \in Conns
  BY DEF TypeOK, CallState, FreshConns
<1>3. /\ stage' \in [Conns -> {"no", "db", "settings"}]
      /\ wfile' \in [Conns -> Files \cup {None}]
  BY <1>1, <1>2, StartOpensType
<1>4. [call[c] EXCEPT !.pc = "openFirst", !.w = w] \in CallState
  <2>1. call[c] \in CallState
    BY DEF TypeOK
  <2>2. "openFirst" \in Pcs /\ w \in Conns \cup {None}
    BY <1>2 DEF Pcs, OpenPcs
  <2> QED
    BY <2>1, <2>2 DEF CallState
<1>5. call' \in [Calls -> CallState]
  BY <1>1, <1>4, BecomesType
<1>. QED  BY <1>2, <1>3, <1>5 DEF TypeOK, OpenStart, handleVars

\* which then starts the others,
LEMMA FirstOpenedType ==
    ASSUME NEW c \in Calls, TypeOK, CallsPlaced, FirstOpened(c)
    PROVE  TypeOK'
<1>1. call[c].w \in Conns
  BY DEF FirstOpened, At, CallsPlaced
<1>2. PICK R \in SUBSET FreshConns :
        /\ StartOpens(R, databaseFile, call[c].w)
        /\ inPool' = inPool \cup {call[c].w} \cup R
        /\ IF R = {} THEN Settle(c, "resumeOk")
           ELSE /\ Becomes(c, [IdleCall EXCEPT !.pc = "openRest", !.pend = R])
                /\ UNCHANGED opening
  BY DEF FirstOpened
<1>3. R \in SUBSET Conns /\ databaseFile \in Files \cup {None}
  BY DEF FreshConns, TypeOK
<1>4. /\ stage' \in [Conns -> {"no", "db", "settings"}]
      /\ wfile' \in [Conns -> Files \cup {None}]
  BY <1>2, <1>3, StartOpensType
<1>5. /\ db' \in [Conns -> Handles \cup {None}] /\ member' \subseteq Conns
      /\ fileOf' \in [Handles -> Files \cup {None}]
  BY <1>1, ReadyType DEF FirstOpened
<1>6. [IdleCall EXCEPT !.pc = "openRest", !.pend = R] \in CallState
  BY <1>3, CallStates DEF CallState, Pcs, OpenPcs
<1>7. call' \in [Calls -> CallState] /\ opening' \in Calls \cup {None}
  <2>1. CASE R = {}
    BY <1>2, <2>1, SettleType DEF Pcs, OpenPcs
  <2>2. CASE R # {}
    BY <1>2, <1>6, <2>2, BecomesType DEF TypeOK
  <2>. QED  BY <2>1, <2>2
<1>. QED  BY <1>1, <1>2, <1>3, <1>4, <1>5, <1>7 DEF TypeOK, FirstOpened

\* the open of one of the others,
LEMMA RestOpenedType ==
    ASSUME NEW c \in Calls, NEW w \in Conns, TypeOK, RestOpened(c, w)
    PROVE  TypeOK'
<1>1. /\ stage' \in [Conns -> {"no", "db", "settings"}]
      /\ wfile' \in [Conns -> Files \cup {None}]
  BY StartOpensType DEF RestOpened
<1>2. /\ db' \in [Conns -> Handles \cup {None}] /\ member' \subseteq Conns
      /\ fileOf' \in [Handles -> Files \cup {None}]
  BY ReadyType DEF RestOpened
<1>3. [call[c] EXCEPT !.pend = @ \ {w}] \in CallState
  BY DEF TypeOK, CallState
<1>4. call' \in [Calls -> CallState] /\ opening' \in Calls \cup {None}
  <2>1. CASE Settle(c, "resumeOk")
    BY <2>1, SettleType DEF Pcs, OpenPcs
  <2>2. CASE Becomes(c, [call[c] EXCEPT !.pend = @ \ {w}]) /\ UNCHANGED opening
    BY <1>3, <2>2, BecomesType DEF TypeOK
  <2>. QED  BY <2>1, <2>2 DEF RestOpened
<1>. QED  BY <1>1, <1>2, <1>4 DEF TypeOK, RestOpened

\* a failed open, which closes the pool,
LEMMA OpenFailsType ==
    ASSUME NEW c \in Calls, NEW w \in Conns, TypeOK, OpenFails(c, w)
    PROVE  TypeOK'
<1>1. /\ stage' \in [Conns -> {"no", "db", "settings"}]
      /\ wfile' \in [Conns -> Files \cup {None}]
  BY StartOpensType DEF OpenFails
<1>2. /\ db' \in [Conns -> Handles \cup {None}] /\ member' \subseteq Conns
      /\ fileOf' \in [Handles -> Files \cup {None}] /\ txn' \subseteq Handles
  BY CloseAllType DEF OpenFails, ClosePool
<1>3. [IdleCall EXCEPT !.pc = "openFailed"] \in CallState
  BY CallStates DEF CallState, Pcs, OpenPcs
<1>4. call' \in [Calls -> CallState]
  BY <1>3, BecomesType DEF OpenFails
<1>. QED  BY <1>1, <1>2, <1>4 DEF TypeOK, OpenFails, ClosePool

\* and its rejection,
LEMMA OpenRejectsType ==
    ASSUME NEW c \in Calls, TypeOK, OpenRejects(c)
    PROVE  TypeOK'
<1>1. call' \in [Calls -> CallState] /\ opening' \in Calls \cup {None}
  BY SettleType DEF OpenRejects, Pcs, OpenPcs
<1>. QED  BY <1>1 DEF TypeOK, OpenRejects, connVars, handleVars

\* pool.close,
LEMMA CloseType ==
    ASSUME NEW c \in Calls, TypeOK, Close(c)
    PROVE  TypeOK'
<1>1. admin' \in 0..MaxAdmin
  BY PoolAssumption DEF TypeOK, Close, CanAdmin, PoolAssumption
<1>2. /\ db' \in [Conns -> Handles \cup {None}] /\ member' \subseteq Conns
      /\ fileOf' \in [Handles -> Files \cup {None}] /\ txn' \subseteq Handles
  BY CloseAllType DEF Close, ClosePool
<1>. QED  BY <1>1, <1>2 DEF TypeOK, Close, ClosePool

\* answers of the native module nobody in a call waits for,
LEMMA NativeType ==
    ASSUME NEW w \in Conns, TypeOK, DbOpened(w) \/ OrphanOpened(w)
    PROVE  TypeOK'
<1>1. CASE DbOpened(w)
  BY <1>1, AttachType DEF TypeOK, DbOpened, poolVars
<1>2. CASE OrphanOpened(w)
  <2>1. /\ stage' \in [Conns -> {"no", "db", "settings"}]
        /\ wfile' \in [Conns -> Files \cup {None}]
    BY <1>2, StartOpensType DEF OrphanOpened
  <2>2. /\ db' \in [Conns -> Handles \cup {None}] /\ member' \subseteq Conns
        /\ fileOf' \in [Handles -> Files \cup {None}]
    BY <1>2, ReadyType DEF OrphanOpened, TypeOK
  <2>. QED  BY <1>2, <2>1, <2>2 DEF TypeOK, OrphanOpened, poolVars
<1>. QED  BY <1>1, <1>2

\* and what the application does on a connection.
LEMMA AppType ==
    ASSUME NEW w \in Conns, TypeOK, Transact(w) \/ SchemaQuery(w)
    PROVE  TypeOK'
BY DEF TypeOK, Transact, SchemaQuery, poolVars, connVars, handleVars

\* Every step preserves type correctness.
LEMMA TypeStep == ASSUME TypeOK, CallsPlaced, [Next]_vars  PROVE TypeOK'
<1>1. CASE UNCHANGED vars
  BY <1>1 DEF TypeOK, vars, poolVars, connVars, handleVars
<1>2. ASSUME NEW c \in Calls, OpenResume(c)  PROVE TypeOK'
  BY <1>2, OpenResumeType
<1>3. CASE Callback
  BY <1>3, PollType, GetEndsType, RecycleEndsType, StealEndsType, OpenStartType,
     FirstOpenedType, OpenRejectsType, RestOpenedType, OpenFailsType, NativeType
  DEF Callback
<1>4. CASE Request
  BY <1>4, GetType, ReleaseType, StealType, OpenType, CloseType, AppType DEF Request
<1>. QED  BY <1>1, <1>2, <1>3, <1>4 DEF Next

-----------------------------------------------------------------------------
\* Where connections and handles are

\* What is true of a newly allocated connection.
LEMMA FreshFacts ==
    ASSUME NEW w \in FreshConns
    PROVE  /\ w \in Conns \ (inPool \cup inUse \cup app)
           /\ db[w] = None
           /\ \A c \in Calls : w \notin {call[c].w, call[c].n}
BY DEF FreshConns, Busy

\* A call that changes its state leaves the other calls alone.
LEMMA BecomesFacts ==
    ASSUME NEW c \in Calls, NEW state, TypeOK, Becomes(c, state)
    PROVE  call'[c] = state /\ \A d \in Calls \ {c} : call'[d] = call[d]
BY DEF TypeOK, Becomes

\* The invariant survives a step that frees a call or leaves its connections,
\* and moves connections without opening any handle.
LEMMA ServeStructure ==
    ASSUME NEW c \in Calls, NEW w \in inPool, Structure, Serve(c, w),
           call[c].pc \in {"idle", "waiting"}
    PROVE  Structure'
<1>1. call'[c] = IdleCall /\ \A d \in Calls \ {c} : call'[d] = call[d]
  BY BecomesFacts DEF Serve, Structure
<1>2. TypeOK'
  BY ServeType DEF Structure
<1>3. AliasOnlyInRecycle'
  BY <1>1, CallStates DEF Structure, AliasOnlyInRecycle, Serve, connVars
<1>4. CallsPlaced'
  BY <1>1, CallStates DEF Structure, CallsPlaced, Serve
<1>5. CallsApart'
  BY <1>1, CallStates DEF Structure, CallsApart
<1>6. IdleApart'
  BY DEF Structure, IdleApart, Serve
<1>. QED  BY <1>2, <1>3, <1>4, <1>5, <1>6 DEF Structure

\* A get keeps the structure: what it opens is a fresh connection.
LEMMA GetStructure ==
    ASSUME NEW c \in Calls, NEW t \in Timeouts, Structure, Get(c, t)
    PROVE  Structure'
<1>0. call[c] = IdleCall
  BY DEF Get, CanStart
<1>1. CASE \E w \in inPool : Serve(c, w)
  BY <1>0, <1>1, ServeStructure, CallStates
<1>2. CASE /\ Becomes(c, [IdleCall EXCEPT !.pc = "waiting", !.left = t])
           /\ UNCHANGED <<poolVars, connVars, handleVars, app, admin>>
  <2>1. /\ call'[c].pc = "waiting" /\ call'[c].w = None /\ call'[c].n = None
        /\ \A d \in Calls \ {c} : call'[d] = call[d]
    BY <1>2 DEF Structure, TypeOK, Becomes, IdleCall
  <2>2. AliasOnlyInRecycle'
    BY <1>0, <1>2, <2>1, CallStates DEF Structure, AliasOnlyInRecycle, connVars
  <2>3. CallsPlaced'
    BY <1>2, <2>1 DEF Structure, CallsPlaced, poolVars
  <2>4. CallsApart'
    BY <2>1 DEF Structure, CallsApart
  <2>5. IdleApart'
    BY <1>2 DEF Structure, IdleApart, poolVars
  <2>. QED  BY <2>2, <2>3, <2>4, <2>5, GetType DEF Structure
<1>3. CASE /\ \E w \in FreshConns :
                 /\ StartOpens({w}, databaseFile, w)
                 /\ Becomes(c, [IdleCall EXCEPT !.pc = "getOpen", !.w = w])
           /\ UNCHANGED <<poolVars, db, member, dirty, handleVars, app, admin>>
  <2>0. PICK w \in FreshConns :
                 Becomes(c, [IdleCall EXCEPT !.pc = "getOpen", !.w = w])
    BY <1>3
  <2>1. /\ call'[c].pc = "getOpen" /\ call'[c].w = w /\ call'[c].n = None
        /\ \A d \in Calls \ {c} : call'[d] = call[d]
    BY <2>0 DEF Structure, TypeOK, Becomes, IdleCall
  <2>2. AliasOnlyInRecycle'
    BY <1>0, <1>3, <2>1, CallStates DEF Structure, AliasOnlyInRecycle
  <2>3. CallsPlaced'
    BY <1>3, <2>1, FreshFacts DEF Structure, CallsPlaced, poolVars
  <2>4. CallsApart'
    BY <2>1, FreshFacts DEF Structure, CallsApart
  <2>5. IdleApart'
    BY <1>3 DEF Structure, IdleApart, poolVars
  <2>. QED  BY <2>2, <2>3, <2>4, <2>5, GetType DEF Structure
<1>. QED  BY <1>1, <1>2, <1>3 DEF Get

\* A tick of a waiting get keeps the structure: it serves or gives up.
LEMMA PollStructure ==
    ASSUME NEW c \in Calls, Structure, Poll(c)
    PROVE  Structure'
<1>1. CASE \E w \in inPool : Serve(c, w)
  BY <1>1, ServeStructure DEF Poll, At
<1>2. CASE /\ call[c].left > 0
           /\ Becomes(c, IF call[c].left = 1 THEN IdleCall
                         ELSE [call[c] EXCEPT !.left = @ - 1])
           /\ UNCHANGED <<poolVars, connVars, handleVars, app, admin>>
  <2>0. call[c].pc = "waiting" /\ call[c].w = None /\ call[c].n = None
    BY DEF Poll, At, Structure, CallsPlaced
  <2>1. /\ call'[c].pc \in {"idle", "waiting"}
        /\ call'[c].w = None /\ call'[c].n = None
        /\ \A d \in Calls \ {c} : call'[d] = call[d]
    BY <1>2, <2>0, CallStates DEF Structure, TypeOK, CallState, Becomes
  <2>2. AliasOnlyInRecycle'
    BY <1>2, <2>0, <2>1 DEF Structure, AliasOnlyInRecycle, connVars
  <2>3. CallsPlaced'
    BY <1>2, <2>1 DEF Structure, CallsPlaced, poolVars
  <2>4. CallsApart'
    BY <2>1 DEF Structure, CallsApart
  <2>5. IdleApart'
    BY <1>2 DEF Structure, IdleApart, poolVars
  <2>. QED  BY <2>2, <2>3, <2>4, <2>5, PollType DEF Structure
<1>. QED  BY <1>1, <1>2 DEF Poll

\* A handle opened in this step is new: nothing else refers to it.
LEMMA AttachAlias ==
    ASSUME NEW x \in Conns, TypeOK, Ready(x) \/ Attach(x) \/ UNCHANGED db,
           NEW v \in Conns, NEW w \in Conns, v # w, db'[v] # None, db'[v] = db'[w]
    PROVE  db[v] # None /\ db[v] = db[w]
BY DEF TypeOK, Ready, Attach, FreshHandles

\* The connection get has opened becomes a lent one with a handle of its own.
LEMMA GetEndsStructure ==
    ASSUME NEW c \in Calls, Structure, GetOpened(c) \/ GetFailed(c)
    PROVE  Structure'
<1>0. call[c].pc = "getOpen" /\ call[c].w \in Conns \ (inPool \cup inUse \cup app)
  BY DEF GetOpened, GetFailed, At, Structure, CallsPlaced
<1>1. call'[c] = IdleCall /\ \A d \in Calls \ {c} : call'[d] = call[d]
  BY DEF GetOpened, GetFailed, Becomes, Structure, TypeOK
<1>2. AliasOnlyInRecycle'
  <2>1. Ready(call[c].w) \/ UNCHANGED db
    BY DEF GetOpened, GetFailed
  <2>2. SUFFICES ASSUME NEW v \in Conns, NEW w \in Conns, v # w,
                        db'[v] # None, db'[v] = db'[w]
                 PROVE  \E d \in Calls : /\ call'[d].pc = "reapply"
                                         /\ {v, w} = {call'[d].w, call'[d].n}
    BY DEF AliasOnlyInRecycle
  <2>3. db[v] # None /\ db[v] = db[w]
    BY <1>0, <2>1, <2>2, AttachAlias DEF Structure
  <2>. QED  BY <1>0, <1>1, <2>2, <2>3 DEF Structure, AliasOnlyInRecycle
<1>3. CallsPlaced'
  <2>1. SUFFICES ASSUME NEW d \in Calls, d # c
                 PROVE  call[d].w # call[c].w /\ call[d].n # call[c].w
    BY <1>0, <1>1, CallStates DEF Structure, CallsPlaced, GetOpened, GetFailed, poolVars
  <2>. QED  BY <1>0, <2>1, PoolAssumption DEF Structure, CallsApart, PoolAssumption
<1>4. CallsApart'
  BY <1>1, CallStates DEF Structure, CallsApart
<1>5. IdleApart'
  BY <1>0 DEF Structure, IdleApart, GetOpened, GetFailed, poolVars
<1>. QED  BY <1>2, <1>3, <1>4, <1>5, GetEndsType DEF Structure

\* A release lets go of the connection before it recycles to a fresh one.
LEMMA ReleaseStructure ==
    ASSUME NEW c \in Calls, NEW w \in Conns, "double" \notin Overlap, Structure,
           Drop(c, w) \/ Recycle(c, w)
    PROVE  Structure'
<1>0. w \in app /\ ~Busy(w) /\ w \notin inPool /\ call[c] = IdleCall
  BY DEF Drop, Recycle, Releasable, CanStart, Structure, IdleApart
<1>1. CASE Drop(c, w)
  <2>1. \A v \in Conns : db'[v] \in {db[v], None}
    BY <1>1 DEF Drop, CloseAll
  <2>2. AliasOnlyInRecycle'
    BY <1>1, <2>1 DEF Structure, AliasOnlyInRecycle, Drop
  <2>3. CallsPlaced' /\ CallsApart' /\ IdleApart'
    BY <1>1 DEF Structure, CallsPlaced, CallsApart, IdleApart, Drop
  <2>. QED  BY <2>2, <2>3, ReleaseType DEF Structure
<1>2. CASE Recycle(c, w)
  <2>0. PICK n \in FreshConns :
          Becomes(c, [IdleCall EXCEPT !.pc = "rollback", !.w = w, !.n = n])
    BY <1>2 DEF Recycle
  <2>1. /\ call'[c].pc = "rollback" /\ call'[c].w = w /\ call'[c].n = n
        /\ \A d \in Calls \ {c} : call'[d] = call[d]
    BY <2>0 DEF Structure, TypeOK, Becomes, IdleCall
  <2>a. /\ inPool' = inPool /\ inUse' = inUse \ {w} /\ app' = app \ {w}
        /\ db' = db
    BY <1>2 DEF Recycle, connVars
  <2>b. call[c].pc = "idle"
    BY <1>0, CallStates
  <2>2. AliasOnlyInRecycle'
    BY <2>a, <2>b, <2>1 DEF Structure, AliasOnlyInRecycle
  <2>c. n \in Conns \ (inPool \cup inUse \cup app) /\ w # n
    BY <1>0, FreshFacts
  <2>3. CallsPlaced'
    <3>1. SUFFICES ASSUME NEW d \in Calls, d # c
                   PROVE  w # call[d].w /\ w # call[d].n
      BY <1>0, <2>a, <2>c, <2>1 DEF Structure, CallsPlaced
    <3>. QED  BY <1>0, <3>1 DEF Busy
  <2>4. CallsApart'
    BY <1>0, <2>1, FreshFacts DEF Structure, CallsApart, Busy
  <2>5. IdleApart'
    BY <1>2 DEF Structure, IdleApart, Recycle
  <2>. QED  BY <2>2, <2>3, <2>4, <2>5, ReleaseType DEF Structure
<1>. QED  BY <1>1, <1>2

\* recycleByPool: old and new wrapper share the handle only in between.
LEMMA RecycleEndsStructure ==
    ASSUME NEW c \in Calls, Structure, RolledBack(c) \/ Reapplied(c)
    PROVE  Structure'
<1>. DEFINE w == call[c].w  n == call[c].n
<1>0. /\ w \in Conns \ (inPool \cup inUse \cup app)
      /\ n \in Conns \ (inPool \cup inUse \cup app)
      /\ w # n /\ call[c].pc \in {"rollback", "reapply"}
  BY DEF RolledBack, Reapplied, At, Structure, CallsPlaced
<1>1. \A d \in Calls \ {c} : /\ call'[d] = call[d]
                             /\ w \notin {call[d].w, call[d].n}
                             /\ n \notin {call[d].w, call[d].n}
  <2>. SUFFICES ASSUME NEW d \in Calls \ {c}
                PROVE  /\ call'[d] = call[d]
                       /\ w \notin {call[d].w, call[d].n}
                       /\ n \notin {call[d].w, call[d].n}
    OBVIOUS
  <2>1. call'[d] = call[d]
    BY DEF RolledBack, Reapplied, Becomes, Structure, TypeOK
  <2>2. {w, n} \cap {call[d].w, call[d].n} \subseteq {None}
    BY DEF Structure, CallsApart
  <2>3. w # None /\ n # None
    BY <1>0, PoolAssumption DEF PoolAssumption
  <2>. QED  BY <2>1, <2>2, <2>3
<1>2. \A v \in Conns \ {w, n} : db[v] # None => db[v] # db[w] /\ db[v] # db[n]
  <2>. SUFFICES ASSUME NEW v \in Conns \ {w, n}, NEW x \in {w, n},
                       db[v] # None, db[v] = db[x]
                PROVE  FALSE
    OBVIOUS
  <2>1. PICK d \in Calls : call[d].pc = "reapply" /\ {v, x} = {call[d].w, call[d].n}
    BY <1>0 DEF Structure, AliasOnlyInRecycle
  <2>2. CASE d = c
    BY <2>1, <2>2
  <2>3. CASE d # c
    BY <1>1, <2>1, <2>3
  <2>. QED  BY <2>2, <2>3
<1>3. inUse' = inUse /\ app' = app /\ db \in [Conns -> Handles \cup {None}]
  BY DEF RolledBack, Reapplied, Structure, TypeOK
<1>4. TypeOK'
  BY RecycleEndsType DEF Structure
<1>5. CASE /\ Becomes(c, IdleCall)
           /\ inPool' \subseteq inPool \cup {n}
           /\ \/ UNCHANGED db /\ db[w] = None
              \/ db' = [db EXCEPT ![n] = db[w], ![w] = None]
              \/ db' = [db EXCEPT ![w] = None]
  <2>1. call'[c] = IdleCall
    BY <1>5 DEF Becomes, Structure, TypeOK
  <2>2. AliasOnlyInRecycle'
    <3>. SUFFICES ASSUME NEW u \in Conns, NEW v \in Conns, u # v,
                         db'[u] # None, db'[u] = db'[v]
                  PROVE  \E d \in Calls : /\ call'[d].pc = "reapply"
                                          /\ {u, v} = {call'[d].w, call'[d].n}
      BY DEF AliasOnlyInRecycle
    <3>1. db[u] # None /\ db[u] = db[v] /\ w \notin {u, v}
      BY <1>0, <1>2, <1>3, <1>5
    <3>2. PICK d \in Calls : call[d].pc = "reapply" /\ {u, v} = {call[d].w, call[d].n}
      BY <3>1 DEF Structure, AliasOnlyInRecycle
    <3>3. d # c
      BY <3>1, <3>2
    <3>. QED  BY <1>1, <3>2, <3>3
  <2>3. CallsPlaced'
    BY <1>1, <1>3, <1>5, <2>1, CallStates DEF Structure, CallsPlaced
  <2>4. CallsApart'
    BY <1>1, <2>1, CallStates DEF Structure, CallsApart
  <2>5. IdleApart'
    BY <1>0, <1>3, <1>5 DEF Structure, IdleApart
  <2>. QED  BY <1>4, <2>2, <2>3, <2>4, <2>5 DEF Structure
<1>6. CASE /\ call[c].pc = "rollback"
           /\ Becomes(c, [call[c] EXCEPT !.pc = "reapply"])
           /\ inPool' = inPool /\ db' = [db EXCEPT ![n] = db[w]]
  <2>1. call'[c].pc = "reapply" /\ call'[c].w = w /\ call'[c].n = n
    BY <1>6 DEF Becomes, Structure, TypeOK, CallState
  <2>2. AliasOnlyInRecycle'
    <3>. SUFFICES ASSUME NEW u \in Conns, NEW v \in Conns, u # v,
                         db'[u] # None, db'[u] = db'[v]
                  PROVE  \E d \in Calls : /\ call'[d].pc = "reapply"
                                          /\ {u, v} = {call'[d].w, call'[d].n}
      BY DEF AliasOnlyInRecycle
    <3>1. CASE {u, v} = {w, n}
      BY <2>1, <3>1
    <3>2. CASE {u, v} # {w, n}
      <4>1. db[u] # None /\ db[u] = db[v] /\ n \notin {u, v}
        BY <1>0, <1>2, <1>3, <1>6, <3>2
      <4>2. PICK d \in Calls : call[d].pc = "reapply" /\ {u, v} = {call[d].w, call[d].n}
        BY <4>1 DEF Structure, AliasOnlyInRecycle
      <4>. QED  BY <1>1, <1>6, <4>2
    <3>. QED  BY <3>1, <3>2
  <2>3. CallsPlaced'
    BY <1>0, <1>1, <1>3, <1>6, <2>1 DEF Structure, CallsPlaced
  <2>4. CallsApart'
    BY <1>1, <2>1 DEF Structure, CallsApart
  <2>5. IdleApart'
    BY <1>3, <1>6 DEF Structure, IdleApart
  <2>. QED  BY <1>4, <2>2, <2>3, <2>4, <2>5 DEF Structure
<1>7. CASE RolledBack(c)
  BY <1>5, <1>6, <1>7 DEF RolledBack, At
<1>8. CASE Reapplied(c)
  BY <1>5, <1>8 DEF Reapplied
<1>. QED  BY <1>7, <1>8

\* A stolen connection leaves the books of the pool before it is reopened.
LEMMA StealStructure ==
    ASSUME NEW c \in Calls, NEW w \in Conns, NEW f \in Files, Structure, Steal(c, w, f)
    PROVE  Structure'
<1>0. w \in app /\ ~Busy(w) /\ w \notin inPool /\ call[c].pc = "idle"
  BY CallStates DEF Steal, CanStart, Structure, IdleApart
<1>1. /\ call'[c].pc \in {"stealing", "stealOpen"} /\ call'[c].w = w /\ call'[c].n = None
      /\ \A d \in Calls \ {c} : call'[d] = call[d]
  <2>1. PICK s \in {[IdleCall EXCEPT !.pc = "stealing", !.w = w, !.f = f],
                    [IdleCall EXCEPT !.pc = "stealOpen", !.w = w]} : Becomes(c, s)
    BY DEF Steal
  <2>2. s.pc \in {"stealing", "stealOpen"} /\ s.w = w /\ s.n = None
    BY DEF IdleCall
  <2>3. call'[c] = s /\ \A d \in Calls \ {c} : call'[d] = call[d]
    BY <2>1 DEF Becomes, Structure, TypeOK
  <2> QED
    BY <2>2, <2>3
<1>2. /\ inPool' = inPool /\ inUse' \subseteq inUse /\ app' = app
      /\ \A v \in Conns : db'[v] \in {db[v], None}
  BY DEF Steal, CloseAll
<1>3. AliasOnlyInRecycle'
  BY <1>0, <1>1, <1>2 DEF Structure, AliasOnlyInRecycle
<1>4. CallsPlaced'
  BY <1>0, <1>1, <1>2 DEF Structure, CallsPlaced
<1>5. CallsApart'
  BY <1>0, <1>1 DEF Structure, CallsApart, Busy
<1>6. IdleApart'
  BY <1>2 DEF Structure, IdleApart
<1>. QED  BY <1>3, <1>4, <1>5, <1>6, StealType DEF Structure

\* A step keeps the structure when it opens or closes handles, lets calls go,
\* and adds only connections P to the pool that nobody else has.
LEMMA KeepStructure ==
    ASSUME Structure, TypeOK', NEW P \in SUBSET Conns,
           inPool' \subseteq inPool \cup P, inUse' \subseteq inUse, app' \subseteq app,
           P \cap (inUse \cup app) = {},
           \A d \in Calls :
              /\ call'[d].w \notin P /\ call'[d].n \notin P
              /\ \/ /\ call'[d].pc = call[d].pc
                    /\ call'[d].w = call[d].w /\ call'[d].n = call[d].n
                 \/ /\ call[d].pc # "reapply"
                    /\ call'[d].pc \notin {"rollback", "reapply", "getOpen",
                          "openFirst", "stealing", "stealOpen"}
                    /\ call'[d].w = None /\ call'[d].n = None,
           \A v, w \in Conns : v # w /\ db'[v] # None /\ db'[v] = db'[w] =>
                                  db[v] # None /\ db[v] = db[w]
    PROVE  Structure'
<1>1. AliasOnlyInRecycle'
  BY DEF Structure, AliasOnlyInRecycle
<1>2. CallsPlaced'
  BY DEF Structure, CallsPlaced
<1>3. CallsApart'
  BY DEF Structure, CallsApart
<1>4. IdleApart'
  BY DEF Structure, IdleApart
<1>. QED  BY <1>1, <1>2, <1>3, <1>4 DEF Structure

\* The same for a step that adds nothing to the pool.
LEMMA ShrinkStructure ==
    ASSUME Structure, TypeOK',
           inPool' \subseteq inPool, inUse' \subseteq inUse, app' \subseteq app,
           \A d \in Calls :
              \/ /\ call'[d].pc = call[d].pc
                 /\ call'[d].w = call[d].w /\ call'[d].n = call[d].n
              \/ /\ call[d].pc # "reapply"
                 /\ call'[d].pc \notin {"rollback", "reapply", "getOpen",
                       "openFirst", "stealing", "stealOpen"}
                 /\ call'[d].w = None /\ call'[d].n = None,
           \A v, w \in Conns : v # w /\ db'[v] # None /\ db'[v] = db'[w] =>
                                  db[v] # None /\ db[v] = db[w]
    PROVE  Structure'
<1>1. AliasOnlyInRecycle'
  BY DEF Structure, AliasOnlyInRecycle
<1>2. CallsPlaced'
  BY DEF Structure, CallsPlaced
<1>3. CallsApart'
  BY DEF Structure, CallsApart
<1>4. IdleApart'
  BY DEF Structure, IdleApart
<1>. QED  BY <1>1, <1>2, <1>3, <1>4 DEF Structure

\* The reopened connection has a handle of its own.
LEMMA StealEndsStructure ==
    ASSUME NEW c \in Calls, Structure, StealOpen(c) \/ StealOpened(c)
    PROVE  Structure'
<1>0. /\ call[c].w \in Conns \ inPool /\ call[c].pc \in {"stealing", "stealOpen"}
      /\ TypeOK /\ TypeOK'
  BY StealEndsType DEF StealOpen, StealOpened, At, Structure, CallsPlaced
<1>1. CASE StealOpen(c)
  <2>1. /\ call'[c].pc = "stealOpen" /\ call'[c].w = call[c].w /\ call'[c].n = None
        /\ \A d \in Calls \ {c} : call'[d] = call[d]
    BY <1>1 DEF StealOpen, Structure, TypeOK, Becomes, IdleCall
  <2>2. AliasOnlyInRecycle'
    BY <1>0, <1>1, <2>1 DEF Structure, AliasOnlyInRecycle, StealOpen
  <2>3. CallsPlaced'
    BY <1>0, <1>1, <2>1 DEF Structure, CallsPlaced, StealOpen, poolVars
  <2>4. CallsApart'
    BY <2>1 DEF Structure, CallsApart
  <2>5. IdleApart'
    BY <1>1 DEF Structure, IdleApart, StealOpen, poolVars
  <2>. QED  BY <1>0, <2>2, <2>3, <2>4, <2>5 DEF Structure
<1>2. CASE StealOpened(c)
  <2>1. call'[c] = IdleCall /\ \A d \in Calls \ {c} : call'[d] = call[d]
    BY <1>2 DEF StealOpened, Becomes, Structure, TypeOK
  <2>2. \A v, w \in Conns : v # w /\ db'[v] # None /\ db'[v] = db'[w] =>
                               db[v] # None /\ db[v] = db[w]
    BY <1>0, <1>2, AttachAlias DEF StealOpened
  <2>3. inPool' = inPool /\ inUse' = inUse /\ app' = app
    BY <1>2 DEF StealOpened, poolVars
  <2>4. \A d \in Calls :
           \/ /\ call'[d].pc = call[d].pc
              /\ call'[d].w = call[d].w /\ call'[d].n = call[d].n
           \/ /\ call[d].pc # "reapply"
              /\ call'[d].pc \notin {"rollback", "reapply", "getOpen",
                    "openFirst", "stealing", "stealOpen"}
              /\ call'[d].w = None /\ call'[d].n = None
    BY <1>0, <2>1, CallStates
  <2>. QED  BY <1>0, <2>2, <2>3, <2>4, ShrinkStructure
<1>. QED  BY <1>1, <1>2

\* Closing connections creates no alias.
LEMMA CloseAlias ==
    ASSUME NEW S, CloseAll(S)
    PROVE  \A v, w \in Conns : v # w /\ db'[v] # None /\ db'[v] = db'[w] =>
                                  db[v] # None /\ db[v] = db[w]
BY DEF CloseAll

\* The start of openInternal closes the pool and creates no alias.
LEMMA OpenInternalStructure ==
    ASSUME NEW c \in Calls, NEW f \in Files \cup {None}, Structure, TypeOK',
           call[c].pc \in {"idle", "resumeOk", "resumeErr"}, OpenInternal(c, f)
    PROVE  Structure'
<1>1. /\ call'[c].pc = "openClosed" /\ call'[c].w = None /\ call'[c].n = None
      /\ \A d \in Calls \ {c} : call'[d] = call[d]
  BY DEF OpenInternal, Structure, TypeOK, Becomes, IdleCall
<1>2. inPool' = {} /\ inUse' = {} /\ app' = app
  BY DEF OpenInternal, ClosePool
<1>3. \A v, w \in Conns : v # w /\ db'[v] # None /\ db'[v] = db'[w] =>
                             db[v] # None /\ db[v] = db[w]
  BY CloseAlias DEF OpenInternal, ClosePool
<1>. QED  BY <1>1, <1>2, <1>3, ShrinkStructure

\* pool.open keeps the structure,
LEMMA OpenStructure ==
    ASSUME NEW c \in Calls, NEW f \in Files, Structure, Open(c, f)
    PROVE  Structure'
<1>0. TypeOK' /\ call[c].pc = "idle" /\ call[c].w = None /\ call[c].n = None
  BY OpenType, CallStates DEF Structure, Open, CanAdmin, CanStart
<1>1. CASE OpenInternal(c, f)
  BY <1>0, <1>1, OpenInternalStructure
<1>2. CASE /\ Becomes(c, [IdleCall EXCEPT !.pc = "openWait", !.f = f, !.on = opening])
           /\ UNCHANGED <<poolVars, connVars, handleVars, app>>
  <2>1. /\ call'[c].pc = "openWait" /\ call'[c].w = None /\ call'[c].n = None
        /\ \A d \in Calls \ {c} : call'[d] = call[d]
    BY <1>2 DEF Structure, TypeOK, Becomes, IdleCall
  <2>. QED  BY <1>0, <1>2, <2>1, ShrinkStructure DEF poolVars, connVars
<1>. QED  BY <1>1, <1>2 DEF Open

\* an open call that is woken does,
LEMMA OpenResumeStructure ==
    ASSUME NEW c \in Calls, Structure, OpenResume(c)
    PROVE  Structure'
<1>0. /\ TypeOK' /\ call[c].f \in Files \cup {None}
      /\ call[c].pc \in {"resumeOk", "resumeErr"}
  BY OpenResumeType DEF Structure, OpenResume, TypeOK, CallState
<1>1. CASE OpenInternal(c, call[c].f)
  BY <1>0, <1>1, OpenInternalStructure
<1>2. CASE Becomes(c, IdleCall) /\ UNCHANGED <<poolVars, connVars, handleVars, app>>
  <2>1. call'[c] = IdleCall /\ \A d \in Calls \ {c} : call'[d] = call[d]
    BY <1>2 DEF Becomes, Structure, TypeOK
  <2>. QED  BY <1>0, <1>2, <2>1, CallStates, ShrinkStructure DEF poolVars, connVars
<1>. QED  BY <1>1, <1>2 DEF OpenResume

\* and the open of the first connection, which is a fresh one.
LEMMA OpenStartStructure ==
    ASSUME NEW c \in Calls, Structure, OpenStart(c)
    PROVE  Structure'
<1>0. PICK w \in FreshConns :
        Becomes(c, [call[c] EXCEPT !.pc = "openFirst", !.w = w])
  BY DEF OpenStart
<1>1. /\ call[c].pc = "openClosed" /\ call[c].n = None
      /\ call'[c].pc = "openFirst" /\ call'[c].w = w /\ call'[c].n = None
      /\ \A d \in Calls \ {c} : call'[d] = call[d]
  <2>1. call[c].pc = "openClosed" /\ call[c].n = None
    BY DEF OpenStart, At, Structure, CallsPlaced
  <2>2. call \in [Calls -> CallState]
    BY DEF Structure, TypeOK
  <2>. QED  BY <1>0, <2>1, <2>2 DEF Becomes, CallState
<1>2. inPool' = {} /\ inUse' = inUse /\ app' = app /\ db' = db
  BY DEF OpenStart
<1>3. AliasOnlyInRecycle'
  BY <1>1, <1>2 DEF Structure, AliasOnlyInRecycle
<1>4. CallsPlaced'
  BY <1>1, <1>2, FreshFacts DEF Structure, CallsPlaced
<1>5. CallsApart'
  BY <1>1, FreshFacts DEF Structure, CallsApart
<1>6. IdleApart'
  BY <1>2 DEF IdleApart
<1>. QED  BY <1>3, <1>4, <1>5, <1>6, OpenStartType DEF Structure

\* Settling an open call frees it; the calls it wakes refer to no connection.
LEMMA SettleFrees ==
    ASSUME NEW c \in Calls, NEW p \in {"resumeOk", "resumeErr"}, Structure,
           Settle(c, p), call[c].pc # "reapply", NEW d \in Calls
    PROVE  \/ d # c /\ call'[d] = call[d]
           \/ /\ call[d].pc # "reapply"
              /\ call'[d].pc \notin {"rollback", "reapply", "getOpen",
                    "openFirst", "stealing", "stealOpen"}
              /\ call'[d].w = None /\ call'[d].n = None
<1>1. CASE d = c
  BY <1>1, CallStates DEF Settle
<1>2. CASE d # c /\ call[d].pc = "openWait" /\ call[d].on = c
  <2>1. call[d].w = None /\ call[d].n = None
    BY <1>2 DEF Structure, CallsPlaced
  <2>2. call[d] \in CallState
    BY DEF Structure, TypeOK
  <2>3. call'[d] = [call[d] EXCEPT !.pc = p, !.on = None]
    BY <1>2 DEF Settle
  <2>4. call'[d].pc = p /\ call'[d].w = None /\ call'[d].n = None
    BY <2>1, <2>2, <2>3 DEF CallState
  <2>. QED  BY <1>2, <2>4
<1>3. CASE d # c /\ ~(call[d].pc = "openWait" /\ call[d].on = c)
  BY <1>3 DEF Settle
<1>. QED  BY <1>1, <1>2, <1>3

\* The first connection and the fresh ones after it enter the pool, once each.
LEMMA FirstOpenedStructure ==
    ASSUME NEW c \in Calls, Structure, FirstOpened(c)
    PROVE  Structure'
<1>. DEFINE w == call[c].w
<1>0. /\ w \in Conns \ (inPool \cup inUse \cup app) /\ w # None
      /\ call[c].pc = "openFirst"
  BY PoolAssumption DEF FirstOpened, At, Structure, CallsPlaced, PoolAssumption
<1>1. PICK R \in SUBSET FreshConns :
        /\ inPool' = inPool \cup {w} \cup R
        /\ IF R = {} THEN Settle(c, "resumeOk")
           ELSE /\ Becomes(c, [IdleCall EXCEPT !.pc = "openRest", !.pend = R])
                /\ UNCHANGED opening
  BY DEF FirstOpened
<1>2. \A d \in Calls :
         \/ d # c /\ call'[d] = call[d]
         \/ /\ call[d].pc # "reapply"
            /\ call'[d].pc \notin {"rollback", "reapply", "getOpen",
                  "openFirst", "stealing", "stealOpen"}
            /\ call'[d].w = None /\ call'[d].n = None
  <2>1. CASE Settle(c, "resumeOk")
    BY <1>0, <2>1, SettleFrees
  <2>2. CASE Becomes(c, [IdleCall EXCEPT !.pc = "openRest", !.pend = R])
    BY <1>0, <2>2 DEF Structure, TypeOK, Becomes, IdleCall
  <2>. QED  BY <1>1, <2>1, <2>2
<1>3. \A d \in Calls \ {c} : call[d].w # w /\ call[d].n # w
  BY <1>0 DEF Structure, CallsApart
<1>4. {w} \cup R \subseteq Conns /\ ({w} \cup R) \cap (inUse \cup app) = {}
  BY <1>0, FreshFacts
<1>5. \A d \in Calls : call'[d].w \notin {w} \cup R /\ call'[d].n \notin {w} \cup R
  <2>. SUFFICES ASSUME NEW d \in Calls
                PROVE  call'[d].w \notin {w} \cup R /\ call'[d].n \notin {w} \cup R
    OBVIOUS
  <2>1. CASE d # c /\ call'[d] = call[d]
    BY <1>3, <2>1, FreshFacts
  <2>2. CASE call'[d].w = None /\ call'[d].n = None
    BY <1>4, <2>2, PoolAssumption DEF PoolAssumption
  <2>. QED  BY <1>2, <2>1, <2>2
<1>6. \A u, v \in Conns : u # v /\ db'[u] # None /\ db'[u] = db'[v] =>
                             db[u] # None /\ db[u] = db[v]
  BY <1>0, AttachAlias DEF FirstOpened, Structure
<1>7. inUse' = inUse /\ app' = app /\ inPool' \subseteq inPool \cup ({w} \cup R)
  BY <1>1 DEF FirstOpened
<1>8. TypeOK'
  BY FirstOpenedType DEF Structure
<1>. QED  BY <1>2, <1>4, <1>5, <1>6, <1>7, <1>8, KeepStructure, ZenonT(30)

\* One of the others gets a handle of its own.
LEMMA RestOpenedStructure ==
    ASSUME NEW c \in Calls, NEW x \in Conns, Structure, RestOpened(c, x)
    PROVE  Structure'
<1>1. \A d \in Calls :
         \/ /\ call'[d].pc = call[d].pc
            /\ call'[d].w = call[d].w /\ call'[d].n = call[d].n
         \/ /\ call[d].pc # "reapply"
            /\ call'[d].pc \notin {"rollback", "reapply", "getOpen",
                  "openFirst", "stealing", "stealOpen"}
            /\ call'[d].w = None /\ call'[d].n = None
  <2>1. CASE Settle(c, "resumeOk")
    BY <2>1, SettleFrees DEF RestOpened, At
  <2>2. CASE Becomes(c, [call[c] EXCEPT !.pend = @ \ {x}])
    BY <2>2 DEF Structure, TypeOK, CallState, Becomes
  <2>. QED  BY <2>1, <2>2 DEF RestOpened
<1>2. \A u, v \in Conns : u # v /\ db'[u] # None /\ db'[u] = db'[v] =>
                             db[u] # None /\ db[u] = db[v]
  BY AttachAlias DEF RestOpened, Structure
<1>3. TypeOK' /\ inPool' = inPool /\ inUse' = inUse /\ app' = app
  BY RestOpenedType DEF RestOpened, Structure
<1>. QED  BY <1>1, <1>2, <1>3, ShrinkStructure

\* A failed open closes connections and lets the call go,
LEMMA OpenFailsStructure ==
    ASSUME NEW c \in Calls, NEW x \in Conns, Structure, OpenFails(c, x)
    PROVE  Structure'
<1>1. /\ call'[c].pc = "openFailed" /\ call'[c].w = None /\ call'[c].n = None
      /\ call[c].pc # "reapply"
      /\ \A d \in Calls \ {c} : call'[d] = call[d]
  BY DEF OpenFails, At, Structure, TypeOK, Becomes, IdleCall
<1>2. \A u, v \in Conns : u # v /\ db'[u] # None /\ db'[u] = db'[v] =>
                             db[u] # None /\ db[u] = db[v]
  BY CloseAlias DEF OpenFails, ClosePool
<1>3. TypeOK' /\ inPool' = {} /\ inUse' = {} /\ app' = app
  BY OpenFailsType DEF OpenFails, ClosePool, Structure
<1>. QED  BY <1>1, <1>2, <1>3, ShrinkStructure

\* and its rejection changes no connection.
LEMMA OpenRejectsStructure ==
    ASSUME NEW c \in Calls, Structure, OpenRejects(c)
    PROVE  Structure'
<1>1. \A d \in Calls :
         \/ d # c /\ call'[d] = call[d]
         \/ /\ call[d].pc # "reapply"
            /\ call'[d].pc \notin {"rollback", "reapply", "getOpen",
                  "openFirst", "stealing", "stealOpen"}
            /\ call'[d].w = None /\ call'[d].n = None
  BY SettleFrees DEF OpenRejects, At
<1>2. TypeOK' /\ inPool' = inPool /\ inUse' = inUse /\ app' = app /\ db' = db
  BY OpenRejectsType DEF OpenRejects, connVars, Structure
<1>. QED  BY <1>1, <1>2, ShrinkStructure

\* pool.close keeps the structure while other calls are in flight.
LEMMA CloseStructure ==
    ASSUME NEW c \in Calls, Structure, Close(c)
    PROVE  Structure'
<1>1. \A u, v \in Conns : u # v /\ db'[u] # None /\ db'[u] = db'[v] =>
                             db[u] # None /\ db[u] = db[v]
  BY CloseAlias DEF Close, ClosePool
<1>2. TypeOK' /\ inPool' = {} /\ inUse' = {} /\ app' = app /\ call' = call
  BY CloseType DEF Close, ClosePool, Structure
<1>. QED  BY <1>1, <1>2, ShrinkStructure

\* Late answers of the native module keep the structure, also those of a given-up open.
LEMMA NativeStructure ==
    ASSUME NEW x \in Conns, Structure,
           DbOpened(x) \/ OrphanOpened(x) \/ Transact(x) \/ SchemaQuery(x)
    PROVE  Structure'
<1>1. \A u, v \in Conns : u # v /\ db'[u] # None /\ db'[u] = db'[v] =>
                             db[u] # None /\ db[u] = db[v]
  BY AttachAlias DEF DbOpened, OrphanOpened, Transact, SchemaQuery, connVars, Structure
<1>2. /\ inPool' = inPool /\ inUse' = inUse /\ app' = app /\ call' = call
      /\ TypeOK'
  BY NativeType, AppType
  DEF DbOpened, OrphanOpened, Transact, SchemaQuery, poolVars, Structure
<1>. QED  BY <1>1, <1>2, ShrinkStructure

\* Every step preserves the structure, if no connection is closed twice at once.
LEMMA StructureStep ==
    ASSUME "double" \notin Overlap, Structure, [Next]_vars  PROVE Structure'
<1>1. CASE UNCHANGED vars
  BY <1>1, TypeStep, ShrinkStructure DEF Structure, vars, poolVars, connVars
<1>2. ASSUME NEW c \in Calls, OpenResume(c)  PROVE Structure'
  BY <1>2, OpenResumeStructure
<1>3. CASE Callback
  BY <1>3, PollStructure, GetEndsStructure, RecycleEndsStructure,
     StealEndsStructure, OpenStartStructure, FirstOpenedStructure,
     OpenRejectsStructure, RestOpenedStructure, OpenFailsStructure, NativeStructure
  DEF Callback
<1>4. CASE Request
  BY <1>4, GetStructure, ReleaseStructure, StealStructure, OpenStructure,
     CloseStructure, NativeStructure
  DEF Request
<1>. QED  BY <1>1, <1>2, <1>3, <1>4 DEF Next


-----------------------------------------------------------------------------
\* Where transactions are

\* Connections that are idle or lent share no handle with another one.
LEMMA Unshared ==
    ASSUME Structure, NEW w \in inPool \cup inUse \cup app,
           NEW v \in Conns, v # w, db[v] # None
    PROVE  db[v] # db[w]
<1>. SUFFICES ASSUME db[v] = db[w]  PROVE FALSE
  OBVIOUS
<1>1. w \in Conns
  BY DEF Structure, TypeOK
<1>2. PICK c \in Calls : call[c].pc = "reapply" /\ {v, w} = {call[c].w, call[c].n}
  BY <1>1 DEF Structure, AliasOnlyInRecycle
<1>3. call[c].w \notin inPool \cup inUse \cup app /\ call[c].n \notin inPool \cup inUse \cup app
  BY <1>2 DEF Structure, CallsPlaced
<1>. QED  BY <1>2, <1>3

\* The structure gives Exclusive: only the two connections of a recycling share
\* a handle, and neither is idle or held.
LEMMA StructureExclusive == Structure => Exclusive
<1>. SUFFICES ASSUME Structure  PROVE Exclusive
  OBVIOUS
<1>1. app \cup inPool \subseteq Conns
  BY DEF Structure, TypeOK
<1>. QED  BY <1>1, Unshared DEF Structure, IdleApart, Exclusive

\* Closing idle or lent connections.
LEMMA CloseTxn ==
    ASSUME NEW S \in SUBSET (inPool \cup inUse \cup app), Structure, TxnPlaced,
           CloseAll(S)
    PROVE  /\ \A h \in txn' : fileOf'[h] # None
           /\ \A w \in Conns : db'[w] # None => fileOf'[db'[w]] # None
           /\ \A w \in Conns : db'[w] \in txn' => w \notin S /\ db[w] \in txn
<1>1. txn \subseteq Handles /\ db \in [Conns -> Handles \cup {None}]
  BY DEF Structure, TypeOK
<1>2. \A v \in Conns \ S, w \in S : db[v] # None => db[v] # db[w]
  BY Unshared
<1>3. \A h \in txn' : fileOf'[h] # None
  BY <1>1 DEF CloseAll, TxnPlaced
<1>4. \A w \in Conns : db'[w] # None => fileOf'[db'[w]] # None
  BY <1>1, <1>2 DEF CloseAll, TxnPlaced
<1>5. \A w \in Conns : db'[w] \in txn' => w \notin S /\ db[w] \in txn
  BY <1>1, PoolAssumption DEF CloseAll, PoolAssumption
<1>. QED  BY <1>3, <1>4, <1>5

\* Opening a connection: the new handle carries no transaction.
LEMMA AttachTxn ==
    ASSUME NEW x \in Conns, TypeOK, TxnPlaced, txn' = txn,
           Ready(x) \/ Attach(x) \/ UNCHANGED <<db, fileOf>>
    PROVE  /\ \A h \in txn' : fileOf'[h] # None
           /\ \A w \in Conns : db'[w] # None => fileOf'[db'[w]] # None
           /\ \A w \in Conns : db'[w] \in txn' => db[w] \in txn
<1>1. CASE UNCHANGED <<db, fileOf>>
  BY <1>1 DEF TxnPlaced
<1>2. CASE Attach(x)
  <2>1. PICK h \in FreshHandles : /\ db' = [db EXCEPT ![x] = h]
                                  /\ fileOf' = [fileOf EXCEPT ![h] = wfile[x]]
                                  /\ wfile[x] # None
    BY <1>2 DEF Attach
  <2>2. h \in Handles \ txn /\ \A w \in Conns : db[w] # h
    BY DEF FreshHandles, TxnPlaced
  <2>3. /\ db \in [Conns -> Handles \cup {None}] /\ txn \subseteq Handles
        /\ fileOf \in [Handles -> Files \cup {None}]
    BY DEF TypeOK
  <2>4. \A g \in txn' : fileOf'[g] # None
    BY <2>1, <2>2, <2>3 DEF TxnPlaced
  <2>5. \A w \in Conns : db'[w] # None => fileOf'[db'[w]] # None
    BY <2>1, <2>2, <2>3 DEF TxnPlaced
  <2>6. \A w \in Conns : db'[w] \in txn' => db[w] \in txn
    BY <2>1, <2>2, <2>3
  <2>. QED  BY <2>4, <2>5, <2>6
<1>. QED  BY <1>1, <1>2 DEF Ready

\* The obligations that remain once CloseTxn or AttachTxn has been applied.
LEMMA KeepTxn ==
    ASSUME TxnPlaced,
           \A h \in txn' : fileOf'[h] # None,
           \A w \in Conns : db'[w] # None => fileOf'[db'[w]] # None,
           \A w \in Conns : db'[w] \in txn' => db[w] \in txn,
           app \subseteq app',
           \A c \in Calls : call[c].pc = "rollback" => call'[c] = call[c]
    PROVE  TxnPlaced'
BY DEF TxnPlaced

\* A release closes the handle of a transaction or sends it a ROLLBACK.
LEMMA ReleaseTxn ==
    ASSUME NEW c \in Calls, NEW w \in Conns, "double" \notin Overlap, Structure,
           TxnPlaced, Drop(c, w) \/ Recycle(c, w)
    PROVE  TxnPlaced'
<1>0. w \in app /\ call[c] = IdleCall
  BY DEF Drop, Recycle, Releasable, CanStart
<1>1. CASE Drop(c, w)
  <2>1. /\ \A h \in txn' : fileOf'[h] # None
        /\ \A v \in Conns : db'[v] # None => fileOf'[db'[v]] # None
        /\ \A v \in Conns : db'[v] \in txn' => v # w /\ db[v] \in txn
    BY <1>0, <1>1, CloseTxn DEF Drop
  <2>2. app' = app \ {w} /\ call' = call
    BY <1>1 DEF Drop
  <2>. QED  BY <2>1, <2>2 DEF TxnPlaced
<1>2. CASE Recycle(c, w)
  <2>1. PICK n \in FreshConns :
          Becomes(c, [IdleCall EXCEPT !.pc = "rollback", !.w = w, !.n = n])
    BY <1>2 DEF Recycle
  <2>2. /\ call'[c].pc = "rollback" /\ call'[c].w = w
        /\ \A d \in Calls \ {c} : call'[d] = call[d]
    BY <2>1 DEF Structure, TypeOK, Becomes, IdleCall
  <2>3. app' = app \ {w} /\ db' = db /\ txn' = txn /\ fileOf' = fileOf
    BY <1>2 DEF Recycle, connVars, handleVars
  <2>4. call[c].pc = "idle"
    BY <1>0, CallStates
  <2>. QED  BY <2>2, <2>3, <2>4 DEF TxnPlaced
<1>. QED  BY <1>1, <1>2

\* The handle that enters the pool has been rolled back.
LEMMA RecycleEndsTxn ==
    ASSUME NEW c \in Calls, "rollback" \notin Faults, Structure, TxnPlaced,
           RolledBack(c) \/ Reapplied(c)
    PROVE  TxnPlaced'
<1>. DEFINE w == call[c].w  n == call[c].n
<1>0. /\ w \in Conns /\ n \in Conns /\ w # n /\ app' = app /\ fileOf' = fileOf
      /\ db \in [Conns -> Handles \cup {None}] /\ txn \subseteq Handles
      /\ call[c].pc \in {"rollback", "reapply"}
  BY DEF RolledBack, Reapplied, At, Structure, CallsPlaced, TypeOK, handleVars
<1>1. \A d \in Calls \ {c} : call'[d] = call[d]
  BY DEF RolledBack, Reapplied, Becomes, Structure, TypeOK
<1>2. CASE RolledBack(c)
  <2>1. txn' = txn \ {db[w]}
    BY <1>2 DEF RolledBack
  <2>2. \/ db' = db
        \/ db' = [db EXCEPT ![n] = db[w]]
        \/ db' = [db EXCEPT ![n] = db[w], ![w] = None]
    BY <1>2 DEF RolledBack
  <2>3. \A v \in Conns : db'[v] # None => fileOf'[db'[v]] # None
    BY <1>0, <2>2 DEF TxnPlaced
  <2>4. \A v \in Conns : db'[v] \in txn' => v # w /\ db[v] \in txn
    BY <1>0, <2>1, <2>2, PoolAssumption DEF PoolAssumption
  <2>. QED  BY <1>0, <1>1, <2>1, <2>3, <2>4 DEF TxnPlaced
<1>3. CASE Reapplied(c)
  <2>1. db' = [db EXCEPT ![w] = None] /\ txn' = txn /\ call[c].pc = "reapply"
    BY <1>3 DEF Reapplied, At, handleVars
  <2>2. \A v \in Conns : db'[v] # None => db'[v] = db[v] /\ v # w
    BY <1>0, <2>1
  <2>3. None \notin txn
    BY <1>0, PoolAssumption DEF PoolAssumption
  <2>. QED  BY <1>0, <1>1, <2>1, <2>2, <2>3 DEF TxnPlaced
<1>. QED  BY <1>2, <1>3

\* Stealing closes the old handle with its transaction.
LEMMA StealTxn ==
    ASSUME NEW c \in Calls, NEW w \in Conns, NEW f \in Files, Structure, TxnPlaced,
           Steal(c, w, f)
    PROVE  TxnPlaced'
<1>0. /\ w \in app /\ call[c].pc = "idle" /\ app' = app
      /\ \A d \in Calls \ {c} : call'[d] = call[d]
  BY CallStates DEF Steal, CanStart, Becomes, Structure, TypeOK
<1>1. /\ \A h \in txn' : fileOf'[h] # None
      /\ \A v \in Conns : db'[v] # None => fileOf'[db'[v]] # None
      /\ \A v \in Conns : db'[v] \in txn' => db[v] \in txn
  <2>1. CASE CloseAll({w})
    BY <1>0, <2>1, CloseTxn
  <2>2. CASE UNCHANGED <<db, handleVars>>
    BY <2>2 DEF TxnPlaced, handleVars
  <2>. QED  BY <2>1, <2>2 DEF Steal
<1>. QED  BY <1>0, <1>1, KeepTxn

\* The start of openInternal closes the handles of the pool with their transactions.
LEMMA OpenInternalTxn ==
    ASSUME NEW c \in Calls, NEW f, Structure, TxnPlaced, OpenInternal(c, f),
           call[c].pc # "rollback"
    PROVE  TxnPlaced'
<1>1. inPool \cup inUse \in SUBSET (inPool \cup inUse \cup app)
  OBVIOUS
<1>2. /\ \A h \in txn' : fileOf'[h] # None
      /\ \A v \in Conns : db'[v] # None => fileOf'[db'[v]] # None
      /\ \A v \in Conns : db'[v] \in txn' => db[v] \in txn
  BY <1>1, CloseTxn DEF OpenInternal, ClosePool
<1>3. app' = app /\ \A d \in Calls \ {c} : call'[d] = call[d]
  BY DEF OpenInternal, Becomes, Structure, TypeOK
<1>. QED  BY <1>2, <1>3, KeepTxn

\* pool.open, and an open call that is woken, keep transactions where they belong.
LEMMA OpenTxn ==
    ASSUME NEW c \in Calls, Structure, TxnPlaced,
           (\E f \in Files : Open(c, f)) \/ OpenResume(c) \/ Close(c) \/ OpenRejects(c)
    PROVE  TxnPlaced'
<1>0. call[c].pc # "rollback"
  BY CallStates DEF Open, OpenResume, Close, OpenRejects, CanAdmin, CanStart, At
<1>1. CASE \E f : OpenInternal(c, f)
  BY <1>0, <1>1, OpenInternalTxn
<1>2. CASE Close(c)
  <2>1. inPool \cup inUse \in SUBSET (inPool \cup inUse \cup app)
    OBVIOUS
  <2>2. /\ \A h \in txn' : fileOf'[h] # None
        /\ \A v \in Conns : db'[v] # None => fileOf'[db'[v]] # None
        /\ \A v \in Conns : db'[v] \in txn' => db[v] \in txn
    BY <1>2, <2>1, CloseTxn DEF Close, ClosePool
  <2>. QED  BY <1>2, <2>2, KeepTxn DEF Close
<1>3. CASE OpenRejects(c)
  <2>1. \A d \in Calls : call[d].pc = "rollback" => call'[d] = call[d]
    BY <1>0, <1>3 DEF OpenRejects, Settle
  <2>. QED  BY <1>3, <2>1 DEF OpenRejects, TxnPlaced, connVars, handleVars
<1>4. CASE \E state : Becomes(c, state) /\ UNCHANGED <<poolVars, connVars, handleVars, app>>
  <2>1. \A d \in Calls \ {c} : call'[d] = call[d]
    BY <1>4 DEF Becomes, Structure, TypeOK
  <2>. QED  BY <1>0, <1>4, <2>1 DEF TxnPlaced, connVars, handleVars
<1>. QED  BY <1>1, <1>2, <1>3, <1>4 DEF Open, OpenResume

\* The steps that only open connections.
LEMMA OpeningTxn ==
    ASSUME NEW c \in Calls, Structure, TxnPlaced,
           \/ \E t \in Timeouts : Get(c, t)
           \/ Poll(c) \/ GetOpened(c) \/ GetFailed(c)
           \/ StealOpen(c) \/ StealOpened(c) \/ OpenStart(c)
           \/ FirstOpened(c) \/ \E x \in Conns : RestOpened(c, x)
    PROVE  TxnPlaced'
<1>0. call[c].pc # "rollback"
  BY CallStates, Zenon DEF Get, CanStart, Poll, GetOpened, GetFailed, StealOpen, StealOpened,
                    OpenStart, FirstOpened, RestOpened, At
<1>1. txn' = txn /\ app \subseteq app'
  BY Zenon DEF Get, Serve, Poll, GetOpened, GetFailed, StealOpen, StealOpened, OpenStart,
         FirstOpened, RestOpened, handleVars
<1>2. UNCHANGED <<db, fileOf>> \/ \E y \in Conns : Ready(y)
  <2>1. call[c].pc \in {"getOpen", "stealOpen", "openFirst"} => call[c].w \in Conns
    BY DEF Structure, CallsPlaced
  <2>. QED
    BY <2>1, Zenon DEF Get, Serve, Poll, GetOpened, GetFailed, StealOpen, StealOpened,
       OpenStart, FirstOpened, RestOpened, At, connVars, handleVars
<1>3. \A d \in Calls : call[d].pc = "rollback" => call'[d] = call[d]
  BY <1>0 DEF Get, Serve, Poll, GetOpened, GetFailed, StealOpen, StealOpened,
     OpenStart, FirstOpened, RestOpened, Settle, Becomes, Structure, TypeOK
<1>4. /\ \A h \in txn' : fileOf'[h] # None
      /\ \A v \in Conns : db'[v] # None => fileOf'[db'[v]] # None
      /\ \A v \in Conns : db'[v] \in txn' => db[v] \in txn
  <2>1. CASE UNCHANGED <<db, fileOf>>
    BY <1>1, <2>1 DEF TxnPlaced
  <2>2. CASE \E y \in Conns : Ready(y)
    BY <1>1, <2>2, AttachTxn DEF Structure
  <2>. QED  BY <1>2, <2>1, <2>2
<1>. QED  BY <1>1, <1>3, <1>4, KeepTxn

\* A failed open closes handles and opens no transaction.
LEMMA OpenFailsTxn ==
    ASSUME NEW c \in Calls, NEW x \in Conns, Structure, TxnPlaced, OpenFails(c, x)
    PROVE  TxnPlaced'
<1>1. inPool \cup inUse \in SUBSET (inPool \cup inUse \cup app)
  OBVIOUS
<1>2. /\ \A h \in txn' : fileOf'[h] # None
      /\ \A v \in Conns : db'[v] # None => fileOf'[db'[v]] # None
      /\ \A v \in Conns : db'[v] \in txn' => db[v] \in txn
  BY <1>1, CloseTxn DEF OpenFails, ClosePool
<1>3. /\ app' = app /\ call[c].pc # "rollback"
      /\ \A d \in Calls \ {c} : call'[d] = call[d]
  BY DEF OpenFails, At, Becomes, Structure, TypeOK
<1>. QED  BY <1>2, <1>3, KeepTxn

\* Only the application begins transactions, on connections it holds.
LEMMA NativeTxn ==
    ASSUME NEW x \in Conns, Structure, TxnPlaced,
           DbOpened(x) \/ OrphanOpened(x) \/ Transact(x) \/ SchemaQuery(x)
    PROVE  TxnPlaced'
<1>0. app' = app /\ call' = call
  BY DEF DbOpened, OrphanOpened, Transact, SchemaQuery
<1>1. CASE DbOpened(x) \/ OrphanOpened(x)
  <2>1. txn' = txn /\ (Ready(x) \/ Attach(x) \/ UNCHANGED <<db, fileOf>>)
    BY <1>1 DEF DbOpened, OrphanOpened
  <2>2. /\ \A h \in txn' : fileOf'[h] # None
        /\ \A v \in Conns : db'[v] # None => fileOf'[db'[v]] # None
        /\ \A v \in Conns : db'[v] \in txn' => db[v] \in txn
    BY <2>1, AttachTxn DEF Structure
  <2>. QED  BY <1>0, <2>2, KeepTxn
<1>2. CASE Transact(x)
  <2>1. /\ x \in app /\ db[x] # None /\ db' = db /\ fileOf' = fileOf
        /\ txn' \subseteq txn \cup {db[x]}
    BY <1>2 DEF Transact, connVars
  <2>2. \A v \in Conns : v # x /\ db[v] # None => db[v] # db[x]
    BY <2>1, Unshared
  <2>3. db[x] \in Handles /\ x \in Conns /\ None \notin txn
    BY <2>1, PoolAssumption DEF Structure, TypeOK, PoolAssumption
  <2>. QED  BY <1>0, <2>1, <2>2, <2>3 DEF TxnPlaced
<1>3. CASE SchemaQuery(x)
  BY <1>0, <1>3 DEF SchemaQuery, TxnPlaced, handleVars
<1>. QED  BY <1>1, <1>2, <1>3

\* Every step keeps transactions where they belong, if no ROLLBACK fails.
LEMMA TxnStep ==
    ASSUME "double" \notin Overlap, "rollback" \notin Faults,
           Structure, TxnPlaced, [Next]_vars
    PROVE  TxnPlaced'
<1>1. CASE UNCHANGED vars
  BY <1>1 DEF TxnPlaced, vars, connVars, handleVars
<1>2. ASSUME NEW c \in Calls, OpenResume(c)  PROVE TxnPlaced'
  BY <1>2, OpenTxn
<1>3. CASE Callback
  BY <1>3, OpeningTxn, OpenTxn, RecycleEndsTxn, OpenFailsTxn, NativeTxn DEF Callback
<1>4. CASE Request
  BY <1>4, OpeningTxn, ReleaseTxn, StealTxn, OpenTxn, NativeTxn DEF Request
<1>. QED  BY <1>1, <1>2, <1>3, <1>4 DEF Next

-----------------------------------------------------------------------------
\* The theorems

\* A new pool has the structure.
LEMMA StructureInit == Init => Structure
<1>. SUFFICES ASSUME Init  PROVE Structure
  OBVIOUS
<1>1. \A c \in Calls : call[c].pc = "idle" /\ call[c].w = None /\ call[c].n = None
  BY CallStates DEF Init
<1>2. \A w \in Conns : db[w] = None
  BY DEF Init
<1>. QED  BY <1>1, <1>2, TypeInit
          DEF Init, Structure, AliasOnlyInRecycle, CallsPlaced, CallsApart, IdleApart

\* Every variable of the pool stays in its domain.
THEOREM PoolTypeCorrect ==
    ASSUME "double" \notin Overlap  PROVE Spec => []TypeOK
<1>1. Structure /\ [Next]_vars => Structure'
  BY StructureStep
<1>2. Structure => TypeOK
  BY DEF Structure
<1>. QED  BY <1>1, <1>2, StructureInit, PTL DEF Spec

\* No native session is ever held twice, or held and idle at once.
THEOREM PoolExclusive ==
    ASSUME "double" \notin Overlap  PROVE Spec => []Exclusive
<1>1. Structure /\ [Next]_vars => Structure'
  BY StructureStep
<1>. QED  BY <1>1, StructureExclusive, StructureInit, PTL DEF Spec

\* As long as no ROLLBACK of the pool fails, an idle connection never carries
\* a transaction of the application that returned it.
THEOREM PoolIdleClean ==
    ASSUME "double" \notin Overlap, "rollback" \notin Faults
    PROVE  Spec => []IdleClean
<1>1. Init => IInv
  BY StructureInit DEF Init, IInv, TxnPlaced
<1>2. IInv /\ [Next]_vars => IInv'
  BY StructureStep, TxnStep DEF IInv
<1>3. IInv => IdleClean
  BY DEF IInv, Structure, TypeOK, TxnPlaced, CallsPlaced, IdleApart, IdleClean
<1>. QED  BY <1>1, <1>2, <1>3, PTL DEF Spec

-----------------------------------------------------------------------------
\* Where native opens are

\* A call that is opening, or about to open, a connection, and one that moves a
\* handle.
OpeningPcs == {"getOpen", "openFirst", "stealing", "stealOpen"}
MovingPcs == {"rollback", "reapply"}

\* What a call in flight knows of its connections: those it opens have no handle
\* before the native module answers, the one it recycles to is not being opened.
OpensRight(c) ==
    LET w == call[c].w  n == call[c].n  p == call[c].pc IN
    /\ call[c].pend # {} => p = "openRest"
    /\ \A x \in call[c].pend : stage[x] # "no"
    /\ p \in MovingPcs => stage[n] = "no"
    /\ p = "reapply" => db[n] # None
    /\ p = "stealing" => stage[w] = "no" /\ db[w] = None
    /\ p \in {"getOpen", "openFirst"} =>
          stage[w] = "db" \/ (stage[w] = "settings" /\ db[w] # None)

\* No two calls wait for the same native open.
OpensApart(c, d) ==
    /\ c # d => call[c].pend \cap call[d].pend = {}
    /\ call[c].pc \in OpeningPcs => call[c].w \notin call[d].pend

Unopened == \A w \in Conns : stage[w] = "db" => db[w] = None

Opening ==
    /\ Unopened
    /\ \A c \in Calls : OpensRight(c)
    /\ \A c, d \in Calls : OpensApart(c, d)

\* An idle connection is open or one of those an open of the pool waits for.
IdleOpen == \A w \in inPool :
    /\ db[w] # None \/ stage[w] = "db"
    /\ stage[w] = "db" => Pending(w)

\* What a call knows of its connections does not depend on others: a step that
\* moves or opens handles elsewhere, or closes connections of the pool or the
\* application, leaves it true.
LEMMA OpensRightKept ==
    ASSUME Structure, NEW d \in Calls, OpensRight(d), call'[d] = call[d],
           NEW X \in SUBSET Conns, NEW Y \in SUBSET Conns,
           \A w \in Conns \ X : \/ db'[w] = db[w]
                                \/ db'[w] = None /\ w \in inPool \cup inUse \cup app,
           \A w \in Conns \ Y : stage'[w] = stage[w],
           call[d].pc \in OpeningPcs => call[d].w \notin X \cup Y,
           call[d].pc \in MovingPcs => call[d].n \notin X \cup Y,
           call[d].pend \cap Y = {}
    PROVE  OpensRight(d)'
<1>1. call[d].pend \subseteq Conns
  BY DEF Structure, TypeOK, CallState
<1>2. /\ call[d].pc \in OpeningPcs => call[d].w \in Conns
      /\ call[d].pc \in {"getOpen", "openFirst"} =>
            call[d].w \notin inPool \cup inUse \cup app
      /\ call[d].pc \in MovingPcs => call[d].n \in Conns \ (inPool \cup inUse \cup app)
  BY DEF Structure, CallsPlaced, OpeningPcs, MovingPcs
<1> QED
  BY <1>1, <1>2 DEF OpensRight, OpeningPcs, MovingPcs

\* A step of the call c keeps all that is known of native opens: it moves handles
\* of X, answers or starts opens of Y, and the calls it wakes wait for none.
LEMMA KeepOpening ==
    ASSUME Structure, Opening, NEW c \in Calls,
           NEW X \in SUBSET Conns, NEW Y \in SUBSET Conns,
           \A w \in Conns \ X : \/ db'[w] = db[w]
                                \/ db'[w] = None /\ w \in inPool \cup inUse \cup app,
           \A w \in Conns \ Y : stage'[w] = stage[w],
           \A w \in X \cup Y : stage'[w] = "db" => db'[w] = None,
           \A d \in Calls \ {c} :
              \/ /\ call'[d] = call[d]
                 /\ call[d].pc \in OpeningPcs => call[d].w \notin X \cup Y
                 /\ call[d].pc \in MovingPcs => call[d].n \notin X \cup Y
                 /\ call[d].pend \cap Y = {}
              \/ call'[d].pend = {} /\ call'[d].pc \notin OpeningPcs \cup MovingPcs
                 /\ call'[d].pc # "openRest",
           OpensRight(c)',
           \A d \in Calls \ {c} :
              /\ call'[c].pend \cap call[d].pend = {}
              /\ call'[c].pc \in OpeningPcs => call'[c].w \notin call[d].pend
              /\ call[d].pc \in OpeningPcs => call[d].w \notin call'[c].pend
    PROVE  Opening'
<1>1. Unopened'
  BY DEF Opening, Unopened
<1>2. ASSUME NEW d \in Calls  PROVE OpensRight(d)'
  <2>1. CASE d # c /\ call'[d] = call[d]
             /\ (call[d].pc \in OpeningPcs => call[d].w \notin X \cup Y)
             /\ (call[d].pc \in MovingPcs => call[d].n \notin X \cup Y)
             /\ call[d].pend \cap Y = {}
    BY <2>1, OpensRightKept DEF Opening
  <2>2. CASE call'[d].pend = {} /\ call'[d].pc \notin OpeningPcs \cup MovingPcs
    BY <2>2 DEF OpensRight, OpeningPcs, MovingPcs
  <2> QED
    BY <2>1, <2>2
<1>3. ASSUME NEW d \in Calls, NEW e \in Calls  PROVE OpensApart(d, e)'
  <2>1. OpensApart(d, e) /\ OpensRight(c)'
    BY DEF Opening
  <2>2. call'[c].pc \in OpeningPcs => call'[c].pend = {}
    BY <2>1 DEF OpensRight, OpeningPcs
  <2> QED
    BY <2>1, <2>2 DEF OpensApart
<1> QED
  BY <1>1, <1>2, <1>3 DEF Opening

\* Nobody opens a fresh connection, or waits for it.
LEMMA FreshUnopened ==
    ASSUME Opening, NEW w \in FreshConns, NEW d \in Calls
    PROVE  /\ stage[w] = "no" /\ db[w] = None /\ w \notin call[d].pend
           /\ call[d].w # w /\ call[d].n # w
BY DEF FreshConns, Opening, OpensRight, Busy

\* A call that works on a connection works on it alone.
LEMMA OwnConnection ==
    ASSUME Structure, NEW c \in Calls, NEW d \in Calls \ {c}, NEW x \in Conns,
           x \in {call[c].w, call[c].n}
    PROVE  call[d].w # x /\ call[d].n # x
<1>1. {call[c].w, call[c].n} \cap {call[d].w, call[d].n} \subseteq {None}
  BY DEF Structure, CallsApart
<1>2. x # None
  BY PoolAssumption DEF PoolAssumption
<1> QED
  BY <1>1, <1>2

\* The same for a step after which no call opens or moves more than before.
LEMMA LetGoOpening ==
    ASSUME Structure, Opening, NEW X \in SUBSET Conns, NEW Y \in SUBSET Conns,
           \A w \in Conns \ X : \/ db'[w] = db[w]
                                \/ db'[w] = None /\ w \in inPool \cup inUse \cup app,
           \A w \in Conns \ Y : stage'[w] = stage[w],
           \A w \in X \cup Y : stage'[w] = "db" => db'[w] = None,
           \A d \in Calls :
              \/ /\ call'[d] = call[d]
                 /\ call[d].pc \in OpeningPcs => call[d].w \notin X \cup Y
                 /\ call[d].pc \in MovingPcs => call[d].n \notin X \cup Y
                 /\ call[d].pend \cap Y = {}
              \/ call'[d].pend = {} /\ call'[d].pc \notin OpeningPcs \cup MovingPcs
                 /\ call'[d].pc # "openRest"
    PROVE  Opening'
<1>1. Unopened'
  BY DEF Opening, Unopened
<1>2. ASSUME NEW d \in Calls  PROVE OpensRight(d)'
  <2>1. CASE call'[d] = call[d]
             /\ (call[d].pc \in OpeningPcs => call[d].w \notin X \cup Y)
             /\ (call[d].pc \in MovingPcs => call[d].n \notin X \cup Y)
             /\ call[d].pend \cap Y = {}
    BY <2>1, OpensRightKept DEF Opening
  <2>2. CASE call'[d].pend = {} /\ call'[d].pc \notin OpeningPcs \cup MovingPcs
    BY <2>2 DEF OpensRight, OpeningPcs, MovingPcs
  <2> QED
    BY <2>1, <2>2
<1>3. ASSUME NEW d \in Calls, NEW e \in Calls  PROVE OpensApart(d, e)'
  <2>1. OpensApart(d, e)
    BY DEF Opening
  <2> QED
    BY <2>1 DEF OpensApart
<1> QED
  BY <1>1, <1>2, <1>3 DEF Opening

\* When the native module has opened w, w has a handle; nothing else changes.
LEMMA ReadyGives ==
    ASSUME Structure, NEW w \in Conns, Ready(w) \/ Attach(w)
    PROVE  /\ \A v \in Conns \ {w} : db'[v] = db[v]
           /\ \/ stage[w] = "settings" /\ db' = db
              \/ stage[w] = "db" /\ db'[w] # None
<1>1. CASE Attach(w)
  <2>1. PICK h \in FreshHandles : db' = [db EXCEPT ![w] = h]
    BY <1>1 DEF Attach
  <2>2. h # None /\ db \in [Conns -> Handles \cup {None}]
    BY PoolAssumption DEF FreshHandles, PoolAssumption, Structure, TypeOK
  <2> QED
    BY <1>1, <2>1, <2>2 DEF Attach
<1>2. CASE stage[w] = "settings" /\ UNCHANGED <<db, member, fileOf>>
  BY <1>2
<1> QED
  BY <1>1, <1>2 DEF Ready

\* Starting the opens of S and ending that of w changes these only.
LEMMA StartOpensGives ==
    ASSUME NEW S \in SUBSET Conns, NEW f, NEW w, StartOpens(S, f, w)
    PROVE  /\ \A v \in S : stage'[v] = "db" /\ wfile'[v] = f
           /\ w \in Conns \ S => stage'[w] = "no"
           /\ \A v \in Conns \ (S \cup {w}) : stage'[v] = stage[v] /\ wfile'[v] = wfile[v]
BY DEF StartOpens

\* The same of a step that opens one connection, and of one that opens none.
LEMMA OneOpenStarts ==
    ASSUME NEW w \in Conns, NEW f, StartOpens({w}, f, w)
    PROVE  /\ stage'[w] = "db" /\ wfile'[w] = f
           /\ \A v \in Conns \ {w} : stage'[v] = stage[v] /\ wfile'[v] = wfile[v]
BY StartOpensGives, SMTT(30)

LEMMA NoOpenStarts ==
    ASSUME NEW w \in Conns, StartOpens({}, None, w)
    PROVE  /\ stage'[w] = "no"
           /\ \A v \in Conns \ {w} : stage'[v] = stage[v] /\ wfile'[v] = wfile[v]
BY StartOpensGives

\* A call that opens a connection, or recycles to one, is the only one to do so.
LEMMA OpensAlone ==
    ASSUME Structure, Opening, NEW c \in Calls, NEW d \in Calls \ {c}, NEW x \in Conns,
           \/ call[c].pc \in OpeningPcs /\ x = call[c].w
           \/ x \in call[c].pend
    PROVE  /\ call[d].pc \in OpeningPcs => call[d].w # x
           /\ call[d].pc \in MovingPcs => call[d].n # x
           /\ x \notin call[d].pend
<1>1. OpensApart(c, d) /\ OpensApart(d, c) /\ OpensRight(c) /\ OpensRight(d)
  BY DEF Opening
<1>2. CASE call[c].pc \in OpeningPcs /\ x = call[c].w
  BY <1>1, <1>2, OwnConnection DEF OpensApart
<1>3. CASE x \in call[c].pend
  BY <1>1, <1>3 DEF OpensApart, OpensRight
<1> QED
  BY <1>2, <1>3

-----------------------------------------------------------------------------
\* Every step keeps what is known of native opens

\* A step that answers or starts no open keeps the idle connections as they are.
LEMMA IdleOpenKept ==
    ASSUME IdleOpen, inPool' \subseteq inPool,
           \A w \in inPool' : db'[w] = db[w] /\ stage'[w] = stage[w],
           \A d \in Calls : call[d].pend # {} => call'[d].pend = call[d].pend
    PROVE  IdleOpen'
BY DEF IdleOpen, Pending

\* Waiting, serving, giving up and closing open nothing.
LEMMA QuietOpening ==
    ASSUME Structure, Opening, stage' = stage,
           \A w \in Conns : \/ db'[w] = db[w]
                            \/ db'[w] = None /\ w \in inPool \cup inUse \cup app,
           \A d \in Calls :
              \/ call'[d] = call[d]
              \/ /\ call'[d].pend = {}
                 /\ call'[d].pc \notin OpeningPcs \cup MovingPcs \cup {"openRest"}
    PROVE  Opening'
<1> DEFINE X == {}
<1>1. X \in SUBSET Conns /\ \A w : w \notin X \cup X
  OBVIOUS
<1>2. \A d \in Calls : call[d].pend \cap X = {}
  OBVIOUS
<1> HIDE DEF X
<1>3. \A w \in Conns \ X : \/ db'[w] = db[w]
                           \/ db'[w] = None /\ w \in inPool \cup inUse \cup app
  OBVIOUS
<1>4. \A w \in Conns \ X : stage'[w] = stage[w]
  OBVIOUS
<1>5. \A w \in X \cup X : stage'[w] = "db" => db'[w] = None
  BY <1>1
<1>6. \A d \in Calls :
         \/ /\ call'[d] = call[d]
            /\ call[d].pc \in OpeningPcs => call[d].w \notin X \cup X
            /\ call[d].pc \in MovingPcs => call[d].n \notin X \cup X
            /\ call[d].pend \cap X = {}
         \/ call'[d].pend = {} /\ call'[d].pc \notin OpeningPcs \cup MovingPcs
            /\ call'[d].pc # "openRest"
  BY <1>1, <1>2
<1> QED
  BY <1>1, <1>3, <1>4, <1>5, <1>6, LetGoOpening

\* The two lemmas for a step that opens or answers one connection.
LEMMA LetGoOne ==
    ASSUME Structure, Opening, NEW x \in Conns,
           \A w \in Conns \ {x} : db'[w] = db[w] /\ stage'[w] = stage[w],
           stage'[x] = "db" => db'[x] = None,
           \A d \in Calls :
              \/ /\ call'[d] = call[d]
                 /\ call[d].pc \in OpeningPcs => call[d].w # x
                 /\ call[d].pc \in MovingPcs => call[d].n # x
                 /\ x \notin call[d].pend
              \/ call'[d].pend = {} /\ call'[d].pc \notin OpeningPcs \cup MovingPcs
                 /\ call'[d].pc # "openRest"
    PROVE  Opening'
<1> DEFINE X == {x}
<1>1. X \in SUBSET Conns /\ \A w : w \in X \cup X <=> w = x
  OBVIOUS
<1>2. \A d \in Calls : x \notin call[d].pend => call[d].pend \cap X = {}
  OBVIOUS
<1>3. \A w \in Conns \ X : w # x
  OBVIOUS
<1> HIDE DEF X
<1>4. \A w \in Conns \ X : \/ db'[w] = db[w]
                           \/ db'[w] = None /\ w \in inPool \cup inUse \cup app
  BY <1>3
<1>5. \A w \in Conns \ X : stage'[w] = stage[w]
  BY <1>3
<1>6. \A w \in X \cup X : stage'[w] = "db" => db'[w] = None
  BY <1>1
<1>7. \A d \in Calls :
         \/ /\ call'[d] = call[d]
            /\ call[d].pc \in OpeningPcs => call[d].w \notin X \cup X
            /\ call[d].pc \in MovingPcs => call[d].n \notin X \cup X
            /\ call[d].pend \cap X = {}
         \/ call'[d].pend = {} /\ call'[d].pc \notin OpeningPcs \cup MovingPcs
            /\ call'[d].pc # "openRest"
  BY <1>1, <1>2
<1> QED
  BY <1>1, <1>4, <1>5, <1>6, <1>7, LetGoOpening

\* The same for a step of the call c that goes on with the connection x.
LEMMA KeepOne ==
    ASSUME Structure, Opening, NEW c \in Calls, NEW x \in Conns,
           \A w \in Conns \ {x} : db'[w] = db[w] /\ stage'[w] = stage[w],
           stage'[x] = "db" => db'[x] = None,
           \A d \in Calls \ {c} : /\ call'[d] = call[d]
                                  /\ call[d].pc \in OpeningPcs => call[d].w # x
                                  /\ call[d].pc \in MovingPcs => call[d].n # x
                                  /\ x \notin call[d].pend,
           OpensRight(c)', call'[c].pend = {}, call'[c].w = x
    PROVE  Opening'
<1> DEFINE X == {x}
<1>1. X \in SUBSET Conns /\ \A w : w \in X \cup X <=> w = x
  OBVIOUS
<1>2. \A d \in Calls : x \notin call[d].pend => call[d].pend \cap X = {}
  OBVIOUS
<1>3. \A w \in Conns \ X : w # x
  OBVIOUS
<1> HIDE DEF X
<1>4. \A w \in Conns \ X : \/ db'[w] = db[w]
                           \/ db'[w] = None /\ w \in inPool \cup inUse \cup app
  BY <1>3
<1>5. \A w \in Conns \ X : stage'[w] = stage[w]
  BY <1>3
<1>6. \A w \in X \cup X : stage'[w] = "db" => db'[w] = None
  BY <1>1
<1>7. \A d \in Calls \ {c} :
         \/ /\ call'[d] = call[d]
            /\ call[d].pc \in OpeningPcs => call[d].w \notin X \cup X
            /\ call[d].pc \in MovingPcs => call[d].n \notin X \cup X
            /\ call[d].pend \cap X = {}
         \/ call'[d].pend = {} /\ call'[d].pc \notin OpeningPcs \cup MovingPcs
            /\ call'[d].pc # "openRest"
  BY <1>1, <1>2
<1>8. \A d \in Calls \ {c} :
         /\ call'[c].pend \cap call[d].pend = {}
         /\ call'[c].pc \in OpeningPcs => call'[c].w \notin call[d].pend
         /\ call[d].pc \in OpeningPcs => call[d].w \notin call'[c].pend
  OBVIOUS
<1> QED
  BY <1>1, <1>4, <1>5, <1>6, <1>7, <1>8, KeepOpening

\* A call that waits for no native open.
LEMMA NotPending ==
    ASSUME Opening, NEW c \in Calls, call[c].pc # "openRest"
    PROVE  call[c].pend = {}
BY DEF Opening, OpensRight

\* A get opens a fresh connection, if it opens one.
LEMMA GetOpening ==
    ASSUME Structure, Opening, IdleOpen, NEW c \in Calls, NEW t \in Timeouts, Get(c, t)
    PROVE  Opening' /\ IdleOpen'
<1>0. call[c].pc = "idle" /\ call[c].pend = {}
  BY CallStates DEF Get, CanStart
<1>1. CASE \/ /\ Becomes(c, [IdleCall EXCEPT !.pc = "waiting", !.left = t])
              /\ UNCHANGED <<poolVars, connVars, handleVars, app, admin>>
           \/ \E w \in inPool : Serve(c, w)
  <2>1. /\ db' = db /\ stage' = stage /\ inPool' \subseteq inPool
        /\ call'[c].pend = {} /\ call'[c].pc \in {"idle", "waiting"}
        /\ \A d \in Calls \ {c} : call'[d] = call[d]
    <3>1. CASE \E w \in inPool : Serve(c, w)
      BY <3>1, CallStates DEF Serve, Becomes, connVars, Structure, TypeOK
    <3>2. CASE /\ Becomes(c, [IdleCall EXCEPT !.pc = "waiting", !.left = t])
               /\ UNCHANGED <<poolVars, connVars, handleVars, app, admin>>
      BY <3>2 DEF Becomes, IdleCall, poolVars, connVars, Structure, TypeOK
    <3> QED
      BY <1>1, <3>1, <3>2
  <2>2. Opening'
    BY <2>1, QuietOpening DEF OpeningPcs, MovingPcs
  <2>3. IdleOpen'
    BY <1>0, <2>1, IdleOpenKept DEF Structure, TypeOK
  <2> QED
    BY <2>2, <2>3
<1>2. CASE /\ inPool = {}
           /\ \E w \in FreshConns :
                 /\ StartOpens({w}, databaseFile, w)
                 /\ Becomes(c, [IdleCall EXCEPT !.pc = "getOpen", !.w = w])
           /\ UNCHANGED <<poolVars, db, member, dirty, handleVars, app, admin>>
  <2>1. PICK w \in FreshConns :
          /\ StartOpens({w}, databaseFile, w)
          /\ Becomes(c, [IdleCall EXCEPT !.pc = "getOpen", !.w = w])
    BY <1>2
  <2>2. /\ call'[c].pc = "getOpen" /\ call'[c].w = w /\ call'[c].pend = {}
        /\ \A d \in Calls \ {c} : call'[d] = call[d]
    BY <2>1 DEF Structure, TypeOK, Becomes, IdleCall
  <2>3. w \in Conns /\ {w} \in SUBSET Conns
    BY DEF FreshConns
  <2>4. stage'[w] = "db" /\ \A v \in Conns \ {w} : stage'[v] = stage[v]
    BY <2>1, <2>3, StartOpensGives
  <2>5. db' = db /\ db[w] = None /\ inPool' = {}
    BY <1>2, FreshUnopened DEF poolVars, FreshConns
  <2>6. \A d \in Calls : w \notin call[d].pend /\ call[d].w # w /\ call[d].n # w
    BY FreshUnopened
  <2>7. OpensRight(c)'
    BY <2>2, <2>4 DEF OpensRight, MovingPcs
  <2>8. Opening'
    BY <2>2, <2>3, <2>4, <2>5, <2>6, <2>7, KeepOne
  <2> QED
    BY <2>5, <2>8 DEF IdleOpen
<1> QED
  BY <1>1, <1>2 DEF Get

\* A tick of a waiting get opens nothing.
LEMMA PollOpening ==
    ASSUME Structure, Opening, IdleOpen, NEW c \in Calls, Poll(c)
    PROVE  Opening' /\ IdleOpen'
<1>0. call[c].pc = "waiting" /\ call[c].pend = {}
  BY NotPending DEF Poll, At
<1>1. /\ db' = db /\ stage' = stage /\ inPool' \subseteq inPool
      /\ \A d \in Calls \ {c} : call'[d] = call[d]
  BY DEF Poll, Serve, Becomes, poolVars, connVars, Structure, TypeOK
<1>2. call'[c].pend = {} /\ call'[c].pc \in {"idle", "waiting"}
  BY <1>0, CallStates DEF Poll, Serve, Becomes, Structure, TypeOK, CallState
<1>3. Opening'
  BY <1>1, <1>2, QuietOpening DEF OpeningPcs, MovingPcs
<1>4. IdleOpen'
  BY <1>0, <1>1, IdleOpenKept
<1> QED
  BY <1>3, <1>4

\* The answer for a connection that one call opens leaves the other calls alone.
LEMMA AnsweredOpening ==
    ASSUME Structure, Opening, IdleOpen, NEW c \in Calls,
           call[c].pc \in OpeningPcs, call[c].w \in Conns,
           call'[c] = IdleCall, \A d \in Calls \ {c} : call'[d] = call[d],
           Ready(call[c].w) \/ UNCHANGED db, StartOpens({}, None, call[c].w),
           inPool' = inPool
    PROVE  Opening' /\ IdleOpen'
<1> DEFINE w == call[c].w
<1>0. {} \in SUBSET Conns /\ {w} \in SUBSET Conns /\ w \in Conns
  OBVIOUS
<1>1. stage'[w] = "no" /\ \A v \in Conns \ {w} : stage'[v] = stage[v]
  BY <1>0, StartOpensGives
<1>2. \A v \in Conns \ {w} : db'[v] = db[v]
  BY <1>0, ReadyGives
<1>3. call[c].pend = {} /\ call'[c].pend = {} /\ call'[c].pc = "idle"
  BY NotPending, CallStates DEF OpeningPcs
<1>4. \A d \in Calls \ {c} : /\ call[d].pc \in OpeningPcs => call[d].w # w
                             /\ call[d].pc \in MovingPcs => call[d].n # w
                             /\ w \notin call[d].pend
  BY <1>0, OpensAlone
<1> HIDE DEF w
<1>6. Opening'
  BY <1>0, <1>1, <1>2, <1>3, <1>4, LetGoOne DEF OpeningPcs, MovingPcs
<1>7. IdleOpen'
  <2> SUFFICES ASSUME NEW v \in inPool
               PROVE  /\ db'[v] # None \/ stage'[v] = "db"
                      /\ stage'[v] = "db" => Pending(v)'
    BY DEF IdleOpen
  <2>1. CASE v # w
    BY <1>1, <1>2, <1>3, <2>1 DEF IdleOpen, Pending, Structure, TypeOK
  <2>2. CASE v = w
    <3>1. ~Pending(w)
      BY <1>3, <1>4 DEF Pending
    <3>2. db[w] # None /\ stage[w] # "db"
      BY <2>2, <3>1 DEF IdleOpen
    <3> QED
      BY <1>0, <1>1, <2>2, <3>2, ReadyGives DEF w
  <2> QED
    BY <2>1, <2>2
<1> QED
  BY <1>6, <1>7

\* The end of the open of a get, and of a stolen connection.
LEMMA EndsOpening ==
    ASSUME Structure, Opening, IdleOpen, NEW c \in Calls,
           GetOpened(c) \/ GetFailed(c) \/ StealOpened(c)
    PROVE  Opening' /\ IdleOpen'
<1>1. /\ call[c].pc \in OpeningPcs /\ call[c].w \in Conns
      /\ call'[c] = IdleCall /\ \A d \in Calls \ {c} : call'[d] = call[d]
  BY DEF GetOpened, GetFailed, StealOpened, At, Becomes, OpeningPcs, Structure, TypeOK,
     CallsPlaced
<1>2. /\ Ready(call[c].w) \/ UNCHANGED db
      /\ StartOpens({}, None, call[c].w) /\ inPool' = inPool
  BY DEF GetOpened, GetFailed, StealOpened, poolVars
<1> QED
  BY <1>1, <1>2, AnsweredOpening

\* A release closes a connection, or is about to recycle to a fresh one.
LEMMA ReleaseOpening ==
    ASSUME Structure, Opening, IdleOpen, NEW c \in Calls, NEW w \in Conns,
           "double" \notin Overlap, Drop(c, w) \/ Recycle(c, w)
    PROVE  Opening' /\ IdleOpen'
<1>0. /\ w \in app /\ w \notin inPool /\ call[c].pc = "idle" /\ call[c].pend = {}
  BY CallStates DEF Drop, Recycle, Releasable, CanStart, Structure, IdleApart
<1>1. CASE Drop(c, w)
  <2>1. /\ \A v \in Conns : \/ db'[v] = db[v]
                            \/ db'[v] = None /\ v \in inPool \cup inUse \cup app
        /\ \A v \in inPool : db'[v] = db[v]
        /\ stage' = stage /\ call' = call /\ inPool' = inPool
    BY <1>0, <1>1 DEF Drop, CloseAll, Structure, TypeOK
  <2>2. Opening'
    BY <2>1, QuietOpening
  <2> QED
    BY <2>1, <2>2, IdleOpenKept
<1>2. CASE Recycle(c, w)
  <2>1. PICK n \in FreshConns :
          Becomes(c, [IdleCall EXCEPT !.pc = "rollback", !.w = w, !.n = n])
    BY <1>2 DEF Recycle
  <2>2. /\ call'[c].pc = "rollback" /\ call'[c].n = n /\ call'[c].pend = {}
        /\ \A d \in Calls \ {c} : call'[d] = call[d]
    BY <2>1 DEF Structure, TypeOK, Becomes, IdleCall
  <2>3. db' = db /\ stage' = stage /\ inPool' = inPool
    BY <1>2 DEF Recycle, connVars
  <2>4. stage[n] = "no"
    BY FreshUnopened DEF FreshConns
  <2>5. \A d \in Calls \ {c} : OpensRight(d)'
    BY <2>2, <2>3 DEF Opening, OpensRight
  <2>6. OpensRight(c)'
    BY <2>2, <2>3, <2>4 DEF OpensRight, MovingPcs
  <2>7. \A d, e \in Calls : OpensApart(d, e)'
    BY <1>0, <2>2 DEF Opening, OpensApart, OpeningPcs
  <2>8. Opening'
    BY <2>3, <2>5, <2>6, <2>7 DEF Opening, Unopened
  <2>9. IdleOpen'
    BY <1>0, <2>2, <2>3, IdleOpenKept DEF Structure, TypeOK
  <2> QED
    BY <2>8, <2>9
<1> QED
  BY <1>1, <1>2

\* The connection that takes over the handle is not being opened.
LEMMA RecycleEndsOpening ==
    ASSUME Structure, Opening, IdleOpen, NEW c \in Calls, RolledBack(c) \/ Reapplied(c)
    PROVE  Opening' /\ IdleOpen'
<1> DEFINE w == call[c].w  n == call[c].n
<1>0. /\ w \in Conns /\ n \in Conns /\ w # n
      /\ w \notin inPool /\ n \notin inPool
      /\ call[c].pc \in MovingPcs /\ call[c].pend = {}
      /\ stage[n] = "no" /\ (call[c].pc = "reapply" => db[n] # None)
  BY NotPending DEF RolledBack, Reapplied, At, Structure, CallsPlaced, MovingPcs,
                    Opening, OpensRight
<1>1. /\ stage' = stage /\ db \in [Conns -> Handles \cup {None}]
      /\ \A d \in Calls \ {c} : call'[d] = call[d]
  BY DEF RolledBack, Reapplied, Becomes, Structure, TypeOK
<1>2. \A d \in Calls \ {c} : call[d].w \notin {w, n} /\ call[d].n \notin {w, n}
  BY <1>0, OwnConnection
<1>3. /\ \/ /\ call'[c] = IdleCall
            /\ \/ db' = db /\ inPool' = inPool
               \/ /\ db' = [db EXCEPT ![n] = db[w], ![w] = None] /\ db[w] # None
                  /\ inPool' = inPool \cup {n}
               \/ /\ db' = [db EXCEPT ![w] = None] /\ inPool' = inPool \cup {n}
                  /\ call[c].pc = "reapply"
         \/ /\ call'[c] = [call[c] EXCEPT !.pc = "reapply"]
            /\ db' = [db EXCEPT ![n] = db[w]] /\ db[w] # None /\ inPool' = inPool
  BY DEF RolledBack, Reapplied, At, Becomes, Structure, TypeOK
<1>4. /\ call'[c].pend = {}
      /\ \/ call'[c].pc = "idle"
         \/ call'[c].pc = "reapply" /\ call'[c].n = n /\ db'[n] # None
  BY <1>0, <1>1, <1>3, CallStates DEF Structure, TypeOK, CallState
<1>5. /\ \A v \in Conns \ {w, n} : db'[v] = db[v]
      /\ db'[w] \in {db[w], None}
      /\ inPool' = inPool \/ (inPool' = inPool \cup {n} /\ db'[n] # None)
  BY <1>0, <1>1, <1>3
<1> HIDE DEF w, n
<1>6. Unopened'
  BY <1>0, <1>1, <1>5 DEF Opening, Unopened
<1>7. \A d \in Calls \ {c} : OpensRight(d)'
  <2> SUFFICES ASSUME NEW d \in Calls \ {c}  PROVE OpensRight(d)'
    OBVIOUS
  <2>1. call[d].pend \subseteq Conns /\ OpensRight(d) /\ call'[d] = call[d]
    BY <1>1 DEF Structure, TypeOK, CallState, Opening
  <2>2. /\ call[d].pc \in OpeningPcs => call[d].w \in Conns
        /\ call[d].pc \in MovingPcs => call[d].n \in Conns
    BY DEF Structure, CallsPlaced, OpeningPcs, MovingPcs
  <2> QED
    BY <1>1, <1>2, <1>5, <2>1, <2>2 DEF OpensRight, OpeningPcs, MovingPcs
<1>8. OpensRight(c)'
  BY <1>0, <1>1, <1>4 DEF OpensRight, MovingPcs
<1>9. \A d, e \in Calls : OpensApart(d, e)'
  BY <1>0, <1>1, <1>4 DEF Opening, OpensApart, OpeningPcs
<1>10. Opening'
  BY <1>6, <1>7, <1>8, <1>9 DEF Opening
<1>11. IdleOpen'
  <2> SUFFICES ASSUME NEW v \in inPool'
               PROVE  /\ db'[v] # None \/ stage'[v] = "db"
                      /\ stage'[v] = "db" => Pending(v)'
    BY DEF IdleOpen
  <2>1. CASE v = n /\ v \notin inPool
    BY <1>0, <1>1, <1>5, <2>1
  <2>2. CASE v \in inPool
    <3>1. v \in Conns /\ v \notin {w, n}
      BY <1>0, <2>2 DEF Structure, TypeOK
    <3> QED
      BY <1>0, <1>1, <1>5, <2>2, <3>1 DEF IdleOpen, Pending
  <2> QED
    BY <1>5, <2>1, <2>2
<1> QED
  BY <1>10, <1>11

\* A connection is closed before it is stolen, and reopened only then.
LEMMA StealOpening ==
    ASSUME Structure, Opening, IdleOpen, NEW c \in Calls,
           \/ \E w \in Conns, f \in Files : Steal(c, w, f)
           \/ StealOpen(c)
    PROVE  Opening' /\ IdleOpen'
<1>1. ASSUME NEW w \in Conns, stage[w] = "no", w \notin inPool, db[w] = None, db' = db,
             NEW f, StartOpens({w}, f, w), inPool' = inPool,
             Becomes(c, [IdleCall EXCEPT !.pc = "stealOpen", !.w = w]),
             call[c].pend = {},
             \A d \in Calls \ {c} : call[d].w # w /\ call[d].n # w
      PROVE  Opening' /\ IdleOpen'
  <2>1. /\ call'[c].pc = "stealOpen" /\ call'[c].w = w /\ call'[c].pend = {}
        /\ \A d \in Calls \ {c} : call'[d] = call[d]
    BY <1>1 DEF Structure, TypeOK, Becomes, IdleCall
  <2>2. {w} \in SUBSET Conns
    BY <1>1
  <2>3. stage'[w] = "db" /\ \A v \in Conns \ {w} : stage'[v] = stage[v]
    BY <1>1, <2>2, StartOpensGives, ZenonT(30)
  <2>4. \A d \in Calls : w \notin call[d].pend
    BY <1>1 DEF Opening, OpensRight
  <2>5. OpensRight(c)'
    BY <2>1 DEF OpensRight, MovingPcs
  <2>6. Opening'
    BY <1>1, <2>1, <2>3, <2>4, <2>5, KeepOne
  <2>7. IdleOpen'
    BY <1>1, <2>1, <2>3, IdleOpenKept DEF Structure, TypeOK
  <2> QED
    BY <2>6, <2>7
<1>2. CASE StealOpen(c)
  <2>1. /\ call[c].pc = "stealing" /\ call[c].w \in Conns \ inPool /\ call[c].pend = {}
        /\ stage[call[c].w] = "no" /\ db[call[c].w] = None
    BY <1>2, NotPending DEF StealOpen, At, Structure, CallsPlaced, Opening, OpensRight
  <2>2. \A d \in Calls \ {c} : call[d].w # call[c].w /\ call[d].n # call[c].w
    BY <2>1, OwnConnection
  <2> QED
    BY <1>1, <1>2, <2>1, <2>2 DEF StealOpen, poolVars
<1>3. ASSUME NEW w \in Conns, NEW f \in Files, Steal(c, w, f)
      PROVE  Opening' /\ IdleOpen'
  <2>0. /\ w \in app /\ w \notin inPool /\ stage[w] = "no" /\ call[c].pend = {}
        /\ \A d \in Calls : call[d].w # w /\ call[d].n # w
        /\ inPool' = inPool
    BY <1>3, CallStates DEF Steal, CanStart, Busy, Structure, IdleApart
  <2>1. CASE /\ CloseAll({w})
             /\ Becomes(c, [IdleCall EXCEPT !.pc = "stealing", !.w = w, !.f = f])
             /\ UNCHANGED <<stage, wfile>>
    <3>1. /\ call'[c].pc = "stealing" /\ call'[c].w = w /\ call'[c].pend = {}
          /\ \A d \in Calls \ {c} : call'[d] = call[d]
      BY <2>1 DEF Structure, TypeOK, Becomes, IdleCall
    <3>2. /\ stage' = stage /\ db'[w] = None
          /\ \A v \in Conns \ {w} : db'[v] = db[v]
      BY <2>1 DEF CloseAll
    <3>3. \A d \in Calls : w \notin call[d].pend
      BY <2>0 DEF Opening, OpensRight
    <3>4. OpensRight(c)'
      BY <2>0, <3>1, <3>2 DEF OpensRight, MovingPcs
    <3>5. Opening'
      BY <2>0, <3>1, <3>2, <3>3, <3>4, KeepOne
    <3>6. IdleOpen'
      BY <2>0, <3>1, <3>2, IdleOpenKept DEF Structure, TypeOK
    <3> QED
      BY <3>5, <3>6
  <2>2. CASE /\ db[w] = None
             /\ StartOpens({w}, f, w)
             /\ Becomes(c, [IdleCall EXCEPT !.pc = "stealOpen", !.w = w])
             /\ UNCHANGED <<inUse, db, handleVars>>
    BY <1>1, <2>0, <2>2
  <2> QED
    BY <1>3, <2>1, <2>2, Zenon DEF Steal
<1> QED
  BY <1>2, <1>3

\* Closing the pool closes idle and lent connections, and none is idle after it.
LEMMA ClosePoolGives ==
    ASSUME ClosePool
    PROVE  /\ inPool' = {} /\ inUse' = {}
           /\ \A w \in Conns : \/ db'[w] = db[w]
                               \/ db'[w] = None /\ w \in inPool \cup inUse \cup app
BY DEF ClosePool, CloseAll

\* Settling this._opening frees the call; those it wakes wait for no native open.
LEMMA SettleOpening ==
    ASSUME Opening, TypeOK, NEW c \in Calls, NEW p \in {"resumeOk", "resumeErr"}, Settle(c, p),
           NEW d \in Calls
    PROVE  \/ d # c /\ call'[d] = call[d]
           \/ /\ call'[d].pend = {}
              /\ d # c => call[d].pend = {}
              /\ call'[d].pc \notin OpeningPcs \cup MovingPcs \cup {"openRest"}
<1>1. CASE d = c
  BY <1>1, CallStates DEF Settle, OpeningPcs, MovingPcs
<1>2. CASE d # c /\ call[d].pc = "openWait" /\ call[d].on = c
  <2>1. call[d].pend = {} /\ call[d] \in CallState
    BY <1>2, NotPending DEF TypeOK
  <2>2. call'[d] = [call[d] EXCEPT !.pc = p, !.on = None]
    BY <1>2 DEF Settle
  <2>3. call'[d].pc = p /\ call'[d].pend = {}
    BY <2>1, <2>2 DEF CallState
  <2> QED
    BY <2>1, <2>3 DEF OpeningPcs, MovingPcs
<1>3. CASE d # c /\ ~(call[d].pc = "openWait" /\ call[d].on = c)
  BY <1>3 DEF Settle
<1> QED
  BY <1>1, <1>2, <1>3

\* pool.open and pool.close open nothing before the pool is closed.
LEMMA AdminOpening ==
    ASSUME Structure, Opening, IdleOpen, NEW c \in Calls,
           \/ \E f \in Files : Open(c, f)
           \/ OpenResume(c) \/ Close(c) \/ OpenRejects(c)
    PROVE  Opening' /\ IdleOpen'
<1>0. call[c].pc # "openRest" /\ call[c].pend = {}
  <2>1. call[c].pc # "openRest"
    BY CallStates DEF Open, OpenResume, Close, OpenRejects, CanAdmin, CanStart, At
  <2> QED
    BY <2>1, NotPending
<1>1. ASSUME NEW f, OpenInternal(c, f)  PROVE Opening' /\ IdleOpen'
  <2>1. /\ call'[c].pc = "openClosed" /\ call'[c].pend = {}
        /\ \A d \in Calls \ {c} : call'[d] = call[d]
    BY <1>1 DEF OpenInternal, Structure, TypeOK, Becomes, IdleCall
  <2>2. /\ inPool' = {} /\ stage' = stage
        /\ \A w \in Conns : \/ db'[w] = db[w]
                            \/ db'[w] = None /\ w \in inPool \cup inUse \cup app
    BY <1>1, ClosePoolGives DEF OpenInternal
  <2>3. Opening'
    BY <2>1, <2>2, QuietOpening DEF OpeningPcs, MovingPcs
  <2> QED
    BY <2>2, <2>3 DEF IdleOpen
<1>2. CASE Close(c)
  <2>1. /\ inPool' = {} /\ stage' = stage /\ call' = call
        /\ \A w \in Conns : \/ db'[w] = db[w]
                            \/ db'[w] = None /\ w \in inPool \cup inUse \cup app
    BY <1>2, ClosePoolGives DEF Close
  <2>2. Opening'
    BY <2>1, QuietOpening
  <2> QED
    BY <2>1, <2>2 DEF IdleOpen
<1>3. ASSUME inPool' = inPool, db' = db, stage' = stage,
             \A d \in Calls \ {c} : \/ call'[d] = call[d]
                                    \/ /\ call'[d].pend = {} /\ call[d].pend = {}
                                       /\ call'[d].pc \notin OpeningPcs \cup MovingPcs
                                                               \cup {"openRest"},
             call'[c].pend = {},
             call'[c].pc \notin OpeningPcs \cup MovingPcs \cup {"openRest"}
      PROVE  Opening' /\ IdleOpen'
  <2>1. Opening'
    BY <1>3, QuietOpening
  <2>2. IdleOpen'
    BY <1>0, <1>3, IdleOpenKept DEF Structure, TypeOK
  <2> QED
    BY <2>1, <2>2
<1>4. CASE OpenRejects(c)
  <2>1. /\ \A d \in Calls \ {c} : \/ call'[d] = call[d]
                                  \/ /\ call'[d].pend = {} /\ call[d].pend = {}
                                     /\ call'[d].pc \notin OpeningPcs \cup MovingPcs
                                                             \cup {"openRest"}
        /\ call'[c].pend = {}
        /\ call'[c].pc \notin OpeningPcs \cup MovingPcs \cup {"openRest"}
    BY <1>4, SettleOpening DEF OpenRejects, Structure
  <2> QED
    BY <1>3, <1>4, <2>1 DEF OpenRejects, connVars
<1>5. CASE \E f \in Files : /\ Becomes(c, [IdleCall EXCEPT !.pc = "openWait", !.f = f,
                                                           !.on = opening])
                            /\ UNCHANGED <<poolVars, connVars, handleVars, app>>
  <2>1. /\ call'[c].pc = "openWait" /\ call'[c].pend = {}
        /\ \A d \in Calls \ {c} : call'[d] = call[d]
    BY <1>5 DEF Structure, TypeOK, Becomes, IdleCall
  <2> QED
    BY <1>3, <1>5, <2>1 DEF OpeningPcs, MovingPcs, poolVars, connVars
<1>6. CASE Becomes(c, IdleCall) /\ UNCHANGED <<poolVars, connVars, handleVars, app>>
  <2>1. /\ call'[c].pc = "idle" /\ call'[c].pend = {}
        /\ \A d \in Calls \ {c} : call'[d] = call[d]
    BY <1>6, CallStates DEF Structure, TypeOK, Becomes
  <2> QED
    BY <1>3, <1>6, <2>1 DEF OpeningPcs, MovingPcs, poolVars, connVars
<1>7. CASE \E f \in Files : Open(c, f)
  BY <1>1, <1>5, <1>7 DEF Open
<1>8. CASE OpenResume(c)
  BY <1>1, <1>6, <1>8 DEF OpenResume
<1> QED
  BY <1>2, <1>4, <1>7, <1>8

\* The first connection of the pool is a fresh one.
LEMMA OpenStartOpening ==
    ASSUME Structure, Opening, NEW c \in Calls, OpenStart(c)
    PROVE  Opening' /\ IdleOpen'
<1>1. PICK w \in FreshConns :
        /\ StartOpens({w}, call[c].f, w)
        /\ Becomes(c, [call[c] EXCEPT !.pc = "openFirst", !.w = w])
  BY DEF OpenStart
<1>2. call[c].pend = {} /\ call[c] \in CallState
  BY NotPending DEF OpenStart, At, Structure, TypeOK
<1>3. /\ call'[c].pc = "openFirst" /\ call'[c].w = w /\ call'[c].pend = {}
      /\ \A d \in Calls \ {c} : call'[d] = call[d]
  BY <1>1, <1>2 DEF Structure, TypeOK, Becomes, CallState
<1>4. w \in Conns /\ {w} \in SUBSET Conns
  BY DEF FreshConns
<1>5. stage'[w] = "db" /\ \A v \in Conns \ {w} : stage'[v] = stage[v]
  BY <1>1, <1>4, StartOpensGives
<1>6. db' = db /\ db[w] = None /\ inPool' = {}
  BY FreshFacts DEF OpenStart
<1>7. \A d \in Calls : w \notin call[d].pend /\ call[d].w # w /\ call[d].n # w
  BY FreshUnopened
<1>8. OpensRight(c)'
  BY <1>3, <1>5 DEF OpensRight, MovingPcs
<1>9. Opening'
  BY <1>3, <1>4, <1>5, <1>6, <1>7, <1>8, KeepOne
<1> QED
  BY <1>6, <1>9 DEF IdleOpen

\* The other connections of the pool are idle before they are open.
LEMMA FirstOpenedOpening ==
    ASSUME Structure, Opening, IdleOpen, NEW c \in Calls, FirstOpened(c)
    PROVE  Opening' /\ IdleOpen'
<1> DEFINE w == call[c].w
<1>1. /\ call[c].pc = "openFirst" /\ w \in Conns /\ call[c].pend = {}
      /\ stage[w] = "db" \/ (stage[w] = "settings" /\ db[w] # None)
  BY NotPending DEF FirstOpened, At, Structure, CallsPlaced, Opening, OpensRight
<1>2. PICK R \in SUBSET FreshConns :
        /\ StartOpens(R, databaseFile, w)
        /\ inPool' = inPool \cup {w} \cup R
        /\ IF R = {} THEN Settle(c, "resumeOk")
           ELSE Becomes(c, [IdleCall EXCEPT !.pc = "openRest", !.pend = R])
  BY DEF FirstOpened
<1>3. R \in SUBSET Conns /\ w \notin R
  BY <1>1, FreshFacts DEF FreshConns, Busy
<1>4. /\ \A v \in R : stage'[v] = "db" /\ stage[v] = "no" /\ db[v] = None
      /\ stage'[w] = "no"
      /\ \A v \in Conns \ (R \cup {w}) : stage'[v] = stage[v]
  BY <1>1, <1>2, <1>3, StartOpensGives, FreshUnopened
<1>5. db'[w] # None /\ \A v \in Conns \ {w} : db'[v] = db[v]
  BY <1>1, ReadyGives DEF FirstOpened
<1>6. \A d \in Calls : /\ R \cap call[d].pend = {}
                       /\ call[d].w \notin R /\ call[d].n \notin R
  BY FreshUnopened
<1>7. \A d \in Calls \ {c} : /\ call[d].pc \in OpeningPcs => call[d].w # w
                             /\ call[d].pc \in MovingPcs => call[d].n # w
                             /\ w \notin call[d].pend
  BY <1>1, OpensAlone DEF OpeningPcs
<1>8. /\ call'[c].pend = R /\ call'[c].pc \notin OpeningPcs \cup MovingPcs
      /\ R # {} => call'[c].pc = "openRest"
      /\ \A d \in Calls \ {c} :
            \/ call'[d] = call[d]
            \/ /\ call'[d].pend = {} /\ call[d].pend = {}
               /\ call'[d].pc \notin OpeningPcs \cup MovingPcs \cup {"openRest"}
  <2>1. CASE R = {}
    BY <1>2, <2>1, SettleOpening DEF Structure
  <2>2. CASE R # {}
    <3>1. Becomes(c, [IdleCall EXCEPT !.pc = "openRest", !.pend = R])
      BY <1>2, <2>2
    <3>2. call'[c].pc = "openRest" /\ call'[c].pend = R
      BY <3>1 DEF Becomes, IdleCall, Structure, TypeOK
    <3> QED
      BY <3>1, <3>2 DEF Becomes, Structure, TypeOK, OpeningPcs, MovingPcs
  <2> QED
    BY <2>1, <2>2
<1> HIDE DEF w
<1>9. Opening'
  <2> DEFINE Y == R \cup {w}  X == {w}
  <2>1. X \in SUBSET Conns /\ Y \in SUBSET Conns
    BY <1>1, <1>3
  <2>2. \A v : (v \in X <=> v = w) /\ (v \in X \cup Y <=> v \in R \/ v = w)
    OBVIOUS
  <2>3. \A d \in Calls : w \notin call[d].pend => call[d].pend \cap Y = {}
    BY <1>6
  <2>4. \A v \in Conns \ X : \/ db'[v] = db[v]
                             \/ db'[v] = None /\ v \in inPool \cup inUse \cup app
    BY <1>5
  <2>5. \A v \in Conns \ Y : stage'[v] = stage[v]
    BY <1>4
  <2> HIDE DEF X, Y
  <2>6. \A v \in X \cup Y : stage'[v] = "db" => db'[v] = None
    BY <1>1, <1>3, <1>4, <1>5, <2>2
  <2>7. \A d \in Calls \ {c} :
           \/ /\ call'[d] = call[d]
              /\ call[d].pc \in OpeningPcs => call[d].w \notin X \cup Y
              /\ call[d].pc \in MovingPcs => call[d].n \notin X \cup Y
              /\ call[d].pend \cap Y = {}
           \/ call'[d].pend = {} /\ call'[d].pc \notin OpeningPcs \cup MovingPcs
              /\ call'[d].pc # "openRest"
    BY <1>6, <1>7, <1>8, <2>2, <2>3
  <2>8. OpensRight(c)'
    BY <1>4, <1>8 DEF OpensRight, OpeningPcs, MovingPcs
  <2>9. \A d \in Calls \ {c} :
           /\ call'[c].pend \cap call[d].pend = {}
           /\ call'[c].pc \in OpeningPcs => call'[c].w \notin call[d].pend
           /\ call[d].pc \in OpeningPcs => call[d].w \notin call'[c].pend
    BY <1>6, <1>8
  <2> QED
    BY <2>1, <2>4, <2>5, <2>6, <2>7, <2>8, <2>9, KeepOpening
<1>10. IdleOpen'
  <2> SUFFICES ASSUME NEW v \in inPool \cup {w} \cup R
               PROVE  /\ db'[v] # None \/ stage'[v] = "db"
                      /\ stage'[v] = "db" => Pending(v)'
    BY <1>2 DEF IdleOpen
  <2>1. CASE v = w
    BY <1>4, <1>5, <2>1
  <2>2. CASE v \in R
    BY <1>4, <1>8, <2>2 DEF Pending
  <2>3. CASE v \in inPool /\ v \notin R \cup {w}
    <3>1. v \in Conns /\ stage'[v] = stage[v] /\ db'[v] = db[v]
      BY <1>4, <1>5, <2>3 DEF Structure, TypeOK
    <3>2. stage[v] = "db" => \E d \in Calls \ {c} : v \in call[d].pend
      BY <1>1, <2>3 DEF IdleOpen, Pending
    <3>3. stage[v] = "db" => \E d \in Calls \ {c} : v \in call'[d].pend
      BY <1>8, <3>2
    <3> QED
      BY <2>3, <3>1, <3>3 DEF IdleOpen, Pending
  <2> QED
    BY <2>1, <2>2, <2>3
<1> QED
  BY <1>9, <1>10

\* An answer for one of the other connections of the pool, which may be lent or
\* given back by now.
LEMMA RestOpenedOpening ==
    ASSUME Structure, Opening, IdleOpen, NEW c \in Calls, NEW x \in Conns,
           RestOpened(c, x)
    PROVE  Opening' /\ IdleOpen'
<1>1. /\ call[c].pc = "openRest" /\ x \in call[c].pend
      /\ StartOpens({}, None, x) /\ inPool' = inPool
  BY DEF RestOpened, At
<1>3. stage'[x] = "no" /\ \A v \in Conns \ {x} : stage'[v] = stage[v]
  BY <1>1, NoOpenStarts
<1>4. /\ \A v \in Conns \ {x} : db'[v] = db[v]
      /\ (stage[x] = "settings" /\ db' = db) \/ db'[x] # None
  BY ReadyGives DEF RestOpened
<1>5. \A d \in Calls \ {c} : /\ call[d].pc \in OpeningPcs => call[d].w # x
                             /\ call[d].pc \in MovingPcs => call[d].n # x
                             /\ x \notin call[d].pend
  BY <1>1, OpensAlone
<1>6. /\ \A d \in Calls \ {c} : /\ call'[d].pend = call[d].pend
                                /\ \/ call'[d] = call[d]
                                   \/ /\ call'[d].pend = {}
                                      /\ call'[d].pc \notin OpeningPcs \cup MovingPcs
                                                              \cup {"openRest"}
      /\ call'[c].pend = call[c].pend \ {x}
      /\ call'[c].pc \notin OpeningPcs \cup MovingPcs
      /\ call'[c].pend # {} => call'[c].pc = "openRest"
  <2>1. CASE call[c].pend = {x}
    <3>1. Settle(c, "resumeOk")
      BY <2>1 DEF RestOpened
    <3> QED
      BY <2>1, <3>1, SettleOpening DEF Structure
  <2>2. CASE call[c].pend # {x}
    <3>1. Becomes(c, [call[c] EXCEPT !.pend = @ \ {x}])
      BY <2>2 DEF RestOpened
    <3>2. call[c] \in CallState /\ call \in [Calls -> CallState]
      BY DEF Structure, TypeOK
    <3>3. call'[c].pc = "openRest" /\ call'[c].pend = call[c].pend \ {x}
      BY <1>1, <3>1, <3>2 DEF Becomes, CallState
    <3> QED
      BY <3>1, <3>2, <3>3 DEF Becomes, OpeningPcs, MovingPcs
  <2> QED
    BY <2>1, <2>2
<1>7. Unopened'
  BY <1>3, <1>4 DEF Opening, Unopened
<1>8. \A d \in Calls : OpensRight(d)'
  <2> SUFFICES ASSUME NEW d \in Calls  PROVE OpensRight(d)'
    OBVIOUS
  <2>1. /\ call[d].pend \subseteq Conns /\ OpensRight(d)
        /\ call[d].pc \in OpeningPcs => call[d].w \in Conns
        /\ call[d].pc \in MovingPcs => call[d].n \in Conns
    BY DEF Opening, Structure, TypeOK, CallState, CallsPlaced, OpeningPcs, MovingPcs
  <2>2. CASE d = c
    BY <1>3, <1>6, <2>1, <2>2 DEF OpensRight, OpeningPcs, MovingPcs
  <2>3. CASE d # c /\ call'[d] = call[d]
    BY <1>3, <1>4, <1>5, <2>1, <2>3 DEF OpensRight, OpeningPcs, MovingPcs
  <2>4. CASE d # c /\ call'[d] # call[d]
    BY <1>6, <2>4 DEF OpensRight, OpeningPcs, MovingPcs
  <2> QED
    BY <2>2, <2>3, <2>4
<1>9. \A d, e \in Calls : OpensApart(d, e)'
  BY <1>6 DEF Opening, OpensApart
<1>10. Opening'
  BY <1>7, <1>8, <1>9 DEF Opening
<1>11. IdleOpen'
  <2> SUFFICES ASSUME NEW v \in inPool
               PROVE  /\ db'[v] # None \/ stage'[v] = "db"
                      /\ stage'[v] = "db" => Pending(v)'
    BY <1>1 DEF IdleOpen
  <2>1. CASE v # x
    <3>1. stage'[v] = stage[v] /\ db'[v] = db[v]
      BY <1>3, <1>4, <2>1 DEF Structure, TypeOK
    <3>2. Pending(v) => Pending(v)'
      BY <1>6, <2>1 DEF Pending
    <3> QED
      BY <3>1, <3>2 DEF IdleOpen
  <2>2. CASE v = x
    BY <1>3, <1>4, <2>2 DEF IdleOpen
  <2> QED
    BY <2>1, <2>2
<1> QED
  BY <1>10, <1>11

\* When an open fails no connection is idle any more.
LEMMA OpenFailsOpening ==
    ASSUME Structure, Opening, NEW c \in Calls, NEW x \in Conns, OpenFails(c, x)
    PROVE  Opening' /\ IdleOpen'
<1>1. /\ \/ call[c].pc \in OpeningPcs /\ x = call[c].w
         \/ x \in call[c].pend
      /\ StartOpens({}, None, x) /\ {} \in SUBSET Conns
  BY DEF OpenFails, At, OpeningPcs
<1>2. stage'[x] = "no" /\ \A v \in Conns \ {x} : stage'[v] = stage[v]
  BY <1>1, StartOpensGives
<1>3. /\ inPool' = {}
      /\ \A v \in Conns : \/ db'[v] = db[v]
                          \/ db'[v] = None /\ v \in inPool \cup inUse \cup app
  BY ClosePoolGives DEF OpenFails
<1>4. \A d \in Calls \ {c} : /\ call[d].pc \in OpeningPcs => call[d].w # x
                             /\ call[d].pc \in MovingPcs => call[d].n # x
                             /\ x \notin call[d].pend
  BY <1>1, OpensAlone
<1>5. /\ call'[c].pc = "openFailed" /\ call'[c].pend = {}
      /\ \A d \in Calls \ {c} : call'[d] = call[d]
  BY DEF OpenFails, Structure, TypeOK, Becomes, IdleCall
<1>6. Opening'
  <2> DEFINE X == {}  Y == {x}
  <2>1. /\ X \in SUBSET Conns /\ Y \in SUBSET Conns
        /\ \A v : v \in X \cup Y <=> v = x
        /\ \A d \in Calls : x \notin call[d].pend => call[d].pend \cap Y = {}
    OBVIOUS
  <2>2. \A v \in Conns \ Y : stage'[v] = stage[v]
    BY <1>2
  <2>3. \A v \in Conns \ X : \/ db'[v] = db[v]
                             \/ db'[v] = None /\ v \in inPool \cup inUse \cup app
    BY <1>3
  <2> HIDE DEF X, Y
  <2>4. \A v \in X \cup Y : stage'[v] = "db" => db'[v] = None
    BY <1>2, <2>1
  <2>5. \A d \in Calls :
           \/ /\ call'[d] = call[d]
              /\ call[d].pc \in OpeningPcs => call[d].w \notin X \cup Y
              /\ call[d].pc \in MovingPcs => call[d].n \notin X \cup Y
              /\ call[d].pend \cap Y = {}
           \/ call'[d].pend = {} /\ call'[d].pc \notin OpeningPcs \cup MovingPcs
              /\ call'[d].pc # "openRest"
    BY <1>4, <1>5, <2>1 DEF OpeningPcs, MovingPcs
  <2> QED
    BY <2>1, <2>2, <2>3, <2>4, <2>5, LetGoOpening
<1> QED
  BY <1>3, <1>6 DEF IdleOpen

\* The answers of the native module that no call waits for, and what the
\* application does with a connection.
LEMMA NativeOpening ==
    ASSUME Structure, Opening, IdleOpen, NEW x \in Conns,
           DbOpened(x) \/ OrphanOpened(x) \/ Transact(x) \/ SchemaQuery(x)
    PROVE  Opening' /\ IdleOpen'
<1>0. call' = call /\ inPool' = inPool
  BY DEF DbOpened, OrphanOpened, Transact, SchemaQuery, poolVars
<1>1. CASE Transact(x) \/ SchemaQuery(x)
  <2>1. db' = db /\ stage' = stage
    BY <1>1 DEF Transact, SchemaQuery, connVars
  <2>2. Opening'
    BY <1>0, <2>1, QuietOpening
  <2> QED
    BY <1>0, <2>1, <2>2, IdleOpenKept
<1>2. CASE DbOpened(x)
  <2>1. stage \in [Conns -> {"no", "db", "settings"}]
    BY DEF Structure, TypeOK
  <2>2. /\ stage[x] = "db" /\ stage'[x] = "settings" /\ db'[x] # None
        /\ \A v \in Conns \ {x} : stage'[v] = stage[v] /\ db'[v] = db[v]
    BY <1>2, <2>1, ReadyGives DEF DbOpened, Attach
  <2>3. Unopened'
    BY <2>2 DEF Opening, Unopened
  <2>4. ASSUME NEW d \in Calls  PROVE OpensRight(d)'
    <3>1. /\ call[d].pend \subseteq Conns /\ OpensRight(d)
          /\ call[d].pc \in OpeningPcs => call[d].w \in Conns
          /\ call[d].pc \in MovingPcs => call[d].n \in Conns
      BY DEF Opening, Structure, TypeOK, CallState, CallsPlaced, OpeningPcs, MovingPcs
    <3> QED
      BY <1>0, <2>2, <3>1 DEF OpensRight, OpeningPcs, MovingPcs
  <2>5. \A d, e \in Calls : OpensApart(d, e)'
    BY <1>0 DEF Opening, OpensApart
  <2>6. Opening'
    BY <2>3, <2>4, <2>5 DEF Opening
  <2>7. IdleOpen'
    BY <1>0, <2>2 DEF IdleOpen, Pending, Structure, TypeOK
  <2> QED
    BY <2>6, <2>7
<1>3. CASE OrphanOpened(x)
  <2>1. /\ ~Busy(x) /\ ~Pending(x) /\ StartOpens({}, None, x) /\ {} \in SUBSET Conns
        /\ Ready(x) \/ UNCHANGED db
    BY <1>3 DEF OrphanOpened
  <2>2. stage'[x] = "no" /\ \A v \in Conns \ {x} : stage'[v] = stage[v]
    BY <2>1, StartOpensGives
  <2>3. \A v \in Conns \ {x} : db'[v] = db[v]
    BY <2>1, ReadyGives
  <2>4. \A d \in Calls : call[d].w # x /\ call[d].n # x /\ x \notin call[d].pend
    BY <2>1 DEF Busy, Pending
  <2>5. Opening'
    BY <1>0, <2>2, <2>3, <2>4, LetGoOne
  <2>6. IdleOpen'
    <3> SUFFICES ASSUME NEW v \in inPool
                 PROVE  /\ db'[v] # None \/ stage'[v] = "db"
                        /\ stage'[v] = "db" => Pending(v)'
      BY <1>0 DEF IdleOpen
    <3>1. CASE v # x
      BY <1>0, <2>2, <2>3, <3>1 DEF IdleOpen, Pending, Structure, TypeOK
    <3>2. CASE v = x
      <4>1. db[x] # None /\ stage[x] # "db"
        BY <2>1, <3>2 DEF IdleOpen
      <4> QED
        BY <2>1, <2>2, <3>2, <4>1, ReadyGives
    <3> QED
      BY <3>1, <3>2
  <2> QED
    BY <2>5, <2>6
<1> QED
  BY <1>1, <1>2, <1>3

\* Every step keeps what is known of native opens, whatever calls overlap and
\* whatever fails, if no connection is closed twice at once.
LEMMA OpeningStep ==
    ASSUME "double" \notin Overlap, Structure, Opening, IdleOpen, [Next]_vars
    PROVE  Opening' /\ IdleOpen'
<1>1. CASE UNCHANGED vars
  <2>1. db' = db /\ stage' = stage /\ call' = call /\ inPool' = inPool
    BY <1>1 DEF vars, poolVars, connVars
  <2>2. Opening'
    BY <2>1, QuietOpening
  <2> QED
    BY <2>1, <2>2, IdleOpenKept
<1>2. ASSUME NEW c \in Calls, OpenResume(c)  PROVE Opening' /\ IdleOpen'
  BY <1>2, AdminOpening
<1>3. CASE Callback
  BY <1>3, PollOpening, EndsOpening, RecycleEndsOpening, StealOpening, OpenStartOpening,
     FirstOpenedOpening, AdminOpening, RestOpenedOpening, OpenFailsOpening, NativeOpening
  DEF Callback
<1>4. CASE Request
  BY <1>4, GetOpening, ReleaseOpening, StealOpening, AdminOpening, NativeOpening
  DEF Request
<1> QED
  BY <1>1, <1>2, <1>3, <1>4 DEF Next

\* At the beginning nothing is being opened.
LEMMA OpeningInit == Init => Opening /\ IdleOpen
<1> SUFFICES ASSUME Init  PROVE Opening /\ IdleOpen
  OBVIOUS
<1>1. \A c \in Calls : call[c].pc = "idle" /\ call[c].pend = {}
  BY CallStates DEF Init
<1>2. (\A w \in Conns : stage[w] = "no") /\ inPool = {}
  BY DEF Init
<1> QED
  BY <1>1, <1>2 DEF Opening, Unopened, OpensRight, OpensApart, OpeningPcs, MovingPcs, IdleOpen

-----------------------------------------------------------------------------
\* The pool implements SessionLease

\* What is chosen among the connections A, with the handles D, is the one with
\* the handle h.
LEMMA ChosenIs ==
    ASSUME NEW A \in SUBSET Conns, NEW D, NEW h, NEW H,
           \A v, w \in A : D[v] = h /\ D[w] = h => v = w,
           H = IF \E w \in A : D[w] = h THEN CHOOSE w \in A : D[w] = h ELSE None
    PROVE  /\ H \in Conns \cup {None}
           /\ \A w \in A : D[w] = h => H = w
           /\ H # None => H \in A /\ D[H] = h
           /\ (\A w \in A : D[w] # h) => H = None
<1>1. CASE \E w \in A : D[w] = h
  <2>1. H \in A /\ D[H] = h
    BY <1>1
  <2> QED
    BY <1>1, <2>1
<1>2. CASE ~\E w \in A : D[w] = h
  BY <1>2
<1> QED
  BY <1>1, <1>2

\* The holder of a session is the connection the application holds it by,
LEMMA HolderIs ==
    ASSUME Structure, NEW h \in Handles
    PROVE  /\ HolderOf(h) \in Conns \cup {None}
           /\ \A w \in app : db[w] = h => HolderOf(h) = w
           /\ HolderOf(h) # None => HolderOf(h) \in app /\ db[HolderOf(h)] = h
           /\ (\A w \in app : db[w] # h) => HolderOf(h) = None
<1>1. h # None /\ app \in SUBSET Conns
  BY PoolAssumption DEF PoolAssumption, Structure, TypeOK
<1>2. \A v, w \in app : db[v] = h /\ db[w] = h => v = w
  BY <1>1, StructureExclusive DEF Exclusive
<1>3. HolderOf(h) = IF \E w \in app : db[w] = h THEN CHOOSE w \in app : db[w] = h ELSE None
  BY DEF HolderOf
<1> QED
  BY <1>1, <1>2, <1>3, ChosenIs

\* also after a step.
LEMMA HolderWillBe ==
    ASSUME Structure', NEW h \in Handles
    PROVE  /\ HolderOf(h)' \in Conns \cup {None}
           /\ \A w \in app' : db'[w] = h => HolderOf(h)' = w
           /\ HolderOf(h)' # None => HolderOf(h)' \in app' /\ db'[HolderOf(h)'] = h
           /\ (\A w \in app' : db'[w] # h) => HolderOf(h)' = None
<1>1. h # None /\ app' \in SUBSET Conns
  BY PoolAssumption DEF PoolAssumption, Structure, TypeOK
<1>2. Exclusive'
  BY StructureExclusive, PTL
<1>3. \A v, w \in app' : db'[v] = h /\ db'[w] = h => v = w
  BY <1>1, <1>2 DEF Exclusive
<1>4. HolderOf(h)' = IF \E w \in app' : db'[w] = h THEN CHOOSE w \in app' : db'[w] = h
                                                   ELSE None
  BY DEF HolderOf
<1> QED
  BY <1>1, <1>3, <1>4, ChosenIs

\* Sessions are given back by a step after which the application holds nothing
\* new, and that ends no transaction of what it holds.
LEMMA GivesBack ==
    ASSUME Structure, Structure',
           \A w \in app' : db'[w] # None => w \in app /\ db'[w] = db[w],
           txn' \subseteq txn,
           \A w \in app' : db'[w] \in txn => db'[w] \in txn'
    PROVE  Contract!GiveBack
<1>0. \A h \in Handles : h # None
  BY PoolAssumption DEF PoolAssumption
<1>1. \A h \in Handles : HolderOf(h)' \in {HolderOf(h), None}
  <2> SUFFICES ASSUME NEW h \in Handles, HolderOf(h)' # None
               PROVE  HolderOf(h)' = HolderOf(h)
    OBVIOUS
  <2>1. HolderOf(h)' \in app' /\ db'[HolderOf(h)'] = h
    BY HolderWillBe
  <2> QED
    BY <1>0, <2>1, HolderIs
<1>2. \A h \in Handles : HolderOf(h)' \in Conns \cup {None}
  BY HolderWillBe
<1>3. \A h \in txn : h \in Handles /\ (HolderOf(h)' # None => h \in txn')
  <2>1. txn \subseteq Handles
    BY DEF Structure, TypeOK
  <2> QED
    BY <2>1, HolderWillBe
<1> DEFINE held == [h \in Handles |-> HolderOf(h)]
<1>4. held' = [h \in Handles |-> HolderOf(h)']
  OBVIOUS
<1>5. /\ held' \in [Handles -> Conns \cup {None}]
      /\ \A h \in Handles : held'[h] \in {held[h], None}
      /\ \A h \in txn : held'[h] # None => h \in txn'
  BY <1>1, <1>2, <1>3
<1> QED
  BY <1>5 DEF Contract!GiveBack

\* A session is leased by a step after which the application has one more
\* connection with a handle, or a handle for one, that nobody held before and
\* that has no transaction.
LEMMA Leases ==
    ASSUME Structure, Structure', NEW w \in app', NEW h \in Handles, db'[w] = h,
           \A v \in app : db[v] # h /\ (v # w => v \in app'),
           w \in app => db[w] = None,
           \A v \in app' : v # w => v \in app /\ db'[v] = db[v],
           h \notin txn, txn' = txn
    PROVE  Contract!Lease(h, w) /\ w \in Conns
<1>0. (\A g \in Handles : g # None) /\ w \in Conns
  BY PoolAssumption DEF PoolAssumption, Structure, TypeOK
<1>1. HolderOf(h) = None /\ HolderOf(h)' = w
  BY HolderIs, HolderWillBe
<1>2. \A g \in Handles : g # h => HolderOf(g)' = HolderOf(g)
  <2> SUFFICES ASSUME NEW g \in Handles, g # h  PROVE HolderOf(g)' = HolderOf(g)
    OBVIOUS
  <2>1. CASE \E v \in app : db[v] = g
    <3>1. PICK v \in app : db[v] = g
      BY <2>1
    <3>2. v \in app' /\ db'[v] = g
      BY <1>0, <3>1
    <3> QED
      BY <3>1, <3>2, HolderIs, HolderWillBe
  <2>2. CASE \A v \in app : db[v] # g
    <3>1. \A v \in app' : db'[v] # g
      BY <2>2
    <3> QED
      BY <2>2, <3>1, HolderIs, HolderWillBe
  <2> QED
    BY <2>1, <2>2
<1> DEFINE held == [g \in Handles |-> HolderOf(g)]
<1>3. held' = [g \in Handles |-> HolderOf(g)']
  OBVIOUS
<1>4. held[h] = None /\ held' = [held EXCEPT ![h] = w]
  BY <1>1, <1>2
<1> QED
  BY <1>0, <1>4 DEF Contract!Lease

\* A step that closes connections, or none, gives sessions back.
LEMMA ClosingGivesBack ==
    ASSUME Structure, Structure', NEW S \in SUBSET (inPool \cup inUse \cup app),
           CloseAll(S), app' \subseteq app
    PROVE  Contract!GiveBack
<1>1. \A w \in app' : db'[w] # None => w \in app /\ w \notin S /\ db'[w] = db[w]
  BY DEF CloseAll, Structure, TypeOK
<1>2. txn' \subseteq txn
  BY DEF CloseAll
<1>3. \A w \in app' : db'[w] \in txn => db'[w] \in txn'
  <2> SUFFICES ASSUME NEW w \in app', db'[w] \in txn  PROVE db'[w] \in txn'
    OBVIOUS
  <2>1. db'[w] # None
    BY PoolAssumption DEF PoolAssumption, Structure, TypeOK
  <2>2. w \in app /\ w \in Conns /\ w \notin S /\ db'[w] = db[w] /\ db[w] # None
    BY <1>1, <2>1 DEF Structure, TypeOK
  <2>3. \A v \in S : db[v] # db[w]
    BY <2>2, Unshared DEF Structure, TypeOK
  <2> QED
    BY <2>2, <2>3 DEF CloseAll
<1> QED
  BY <1>1, <1>2, <1>3, GivesBack

\* The application gives connections back, and nothing else changes.
LEMMA NothingTaken ==
    ASSUME Structure, Structure', app' \subseteq app, txn' = txn,
           \A w \in app' : db'[w] = db[w]
    PROVE  Contract!GiveBack
BY GivesBack

\* A get that is served leases a session that was idle, and clean.
LEMMA ServeLease ==
    ASSUME IInv, Structure', NEW c \in Calls, NEW w \in inPool, Serve(c, w)
    PROVE  Contract!LeaseNext
<1>1. /\ w \in Conns /\ w \notin app /\ app' = app \cup {w} /\ db' = db /\ txn' = txn
      /\ db \in [Conns -> Handles \cup {None}] /\ app \subseteq Conns
  BY DEF Serve, connVars, handleVars, IInv, Structure, TypeOK, IdleApart
<1>2. CASE db[w] = None
  <2>1. Contract!GiveBack
    BY <1>1, <1>2, GivesBack DEF IInv
  <2> QED
    BY <2>1 DEF Contract!LeaseNext
<1>3. CASE db[w] # None
  <2>1. db[w] \in Handles /\ \A v \in app : db[v] # db[w]
    <3>1. \A v \in app : v # w
      BY <1>1
    <3>2. \A v \in app : db[v] # None => db[v] # db[w]
      BY <1>1, <3>1, Unshared DEF IInv
    <3> QED
      BY <1>1, <1>3, <3>2
  <2>2. db[w] \notin txn
    BY <1>1 DEF IInv, Structure, TxnPlaced, CallsPlaced
  <2>3. Contract!Lease(db[w], w) /\ w \in Conns
    BY <1>1, <1>3, <2>1, <2>2, Leases DEF IInv
  <2> QED
    BY <2>1, <2>3 DEF Contract!LeaseNext
<1> QED
  BY <1>2, <1>3

\* A session that has just been opened is leased, if the application holds the
\* connection already.
LEMMA AttachLease ==
    ASSUME IInv, Structure', Opening, NEW x \in Conns, app' = app, txn' = txn,
           Ready(x) \/ Attach(x) \/ UNCHANGED db
    PROVE  Contract!LeaseNext
<1>0. app \subseteq Conns
  BY DEF IInv, Structure, TypeOK
<1>1. CASE UNCHANGED db
  <2>1. Contract!GiveBack
    BY <1>1, NothingTaken DEF IInv
  <2> QED
    BY <2>1 DEF Contract!LeaseNext
<1>2. CASE Attach(x)
  <2>1. PICK h \in FreshHandles : db' = [db EXCEPT ![x] = h]
    BY <1>2 DEF Attach
  <2>2. /\ h \in Handles /\ h \notin txn /\ \A v \in Conns : db[v] # h
        /\ db \in [Conns -> Handles \cup {None}]
    BY DEF FreshHandles, IInv, TxnPlaced, Structure, TypeOK
  <2>3. db[x] = None
    BY <1>2 DEF Attach, Opening, Unopened
  <2>4. CASE x \in app
    <3>1. Contract!Lease(h, x)
      BY <1>0, <2>1, <2>2, <2>3, <2>4, Leases DEF IInv
    <3> QED
      BY <2>2, <3>1 DEF Contract!LeaseNext
  <2>5. CASE x \notin app
    <3>1. Contract!GiveBack
      BY <1>0, <2>1, <2>2, <2>5, NothingTaken DEF IInv
    <3> QED
      BY <3>1 DEF Contract!LeaseNext
  <2> QED
    BY <2>4, <2>5
<1> QED
  BY <1>1, <1>2 DEF Ready

\* A get leases the session it has opened.
LEMMA GetOpenedLease ==
    ASSUME IInv, Structure', Opening, NEW c \in Calls, GetOpened(c)
    PROVE  Contract!LeaseNext
<1> DEFINE w == call[c].w
<1>1. /\ call[c].pc = "getOpen" /\ w \in Conns /\ w \notin app
      /\ app' = app \cup {w} /\ txn' = txn /\ Ready(w)
      /\ app \subseteq Conns /\ db \in [Conns -> Handles \cup {None}]
      /\ stage[w] = "db" \/ (stage[w] = "settings" /\ db[w] # None)
  BY DEF GetOpened, At, IInv, Structure, TypeOK, CallsPlaced, Opening, OpensRight
<1> HIDE DEF w
<1>2. CASE stage[w] = "settings"
  <2>1. db' = db /\ db[w] \in Handles
    BY <1>1, <1>2 DEF Ready, Attach
  <2>2. \A v \in app : db[v] # db[w]
    <3>1. \A v \in app : db[v] # None => db[w] # db[v]
      BY <1>1, <2>1, Unshared, PoolAssumption DEF IInv, PoolAssumption
    <3> QED
      BY <1>1, <1>2, <2>1, <3>1
  <2>3. db[w] \notin txn
    <3>1. \A d \in Calls : call[d].pc = "rollback" => call[d].w # w
      BY <1>1, OwnConnection DEF IInv, w
    <3> QED
      BY <1>1, <3>1 DEF IInv, TxnPlaced
  <2>4. Contract!Lease(db[w], w)
    BY <1>1, <2>1, <2>2, <2>3, Leases DEF IInv
  <2> QED
    BY <1>1, <2>1, <2>4 DEF Contract!LeaseNext
<1>3. CASE stage[w] = "db"
  <2>1. PICK h \in FreshHandles : db' = [db EXCEPT ![w] = h]
    BY <1>1, <1>3 DEF Ready, Attach
  <2>2. /\ h \in Handles /\ h \notin txn /\ \A v \in Conns : db[v] # h
    BY DEF FreshHandles, IInv, TxnPlaced
  <2>3. Contract!Lease(h, w)
    BY <1>1, <2>1, <2>2, Leases DEF IInv
  <2> QED
    BY <1>1, <2>2, <2>3 DEF Contract!LeaseNext
<1> QED
  BY <1>1, <1>2, <1>3

\* Recycling cleans and moves sessions that nobody holds.
LEMMA RecycleLease ==
    ASSUME IInv, Structure', NEW c \in Calls, RolledBack(c) \/ Reapplied(c)
    PROVE  Contract!LeaseNext
<1> DEFINE w == call[c].w  n == call[c].n
<1>1. /\ w \in Conns /\ n \in Conns /\ w \notin app /\ n \notin app
      /\ app' = app /\ app \subseteq Conns /\ db \in [Conns -> Handles \cup {None}]
      /\ txn' \in {txn, txn \ {db[w]}}
  BY DEF RolledBack, Reapplied, At, IInv, Structure, TypeOK, CallsPlaced, handleVars
<1>2. \A v \in Conns : v # w /\ v # n => db'[v] = db[v]
  BY <1>1 DEF RolledBack, Reapplied
<1>3. \A v \in app : db'[v] = db[v]
  BY <1>1, <1>2
<1> HIDE DEF w, n
<1>4. \A v \in app : db[v] \in txn => db[v] \in txn'
  <2> SUFFICES ASSUME NEW v \in app, db[v] \in txn, db[v] = db[w]  PROVE FALSE
    BY <1>1
  <2>1. db[w] # None
    BY PoolAssumption DEF PoolAssumption, IInv, Structure, TypeOK
  <2> QED
    BY <1>1, <2>1, Unshared DEF IInv
<1>5. Contract!GiveBack
  BY <1>1, <1>3, <1>4, GivesBack DEF IInv
<1> QED
  BY <1>5 DEF Contract!LeaseNext

\* The application works on a session it holds.
LEMMA WorkLease ==
    ASSUME Structure, Structure', NEW w \in Conns, Transact(w)
    PROVE  Contract!LeaseNext
<1>1. /\ w \in app /\ db[w] # None /\ db' = db /\ app' = app
      /\ txn' = IF db[w] \in txn THEN txn \ {db[w]} ELSE txn \cup {db[w]}
      /\ db[w] \in Handles
  BY DEF Transact, connVars, Structure, TypeOK
<1>2. HolderOf(db[w]) # None
  BY <1>1, HolderIs, PoolAssumption DEF Structure, TypeOK, PoolAssumption
<1>3. \A h \in Handles : HolderOf(h)' = HolderOf(h)
  BY <1>1 DEF HolderOf
<1> DEFINE held == [h \in Handles |-> HolderOf(h)]
<1>4. held[db[w]] # None /\ held' = held
  BY <1>1, <1>2, <1>3
<1>5. Contract!Work(db[w])
  BY <1>1, <1>4 DEF Contract!Work
<1> QED
  BY <1>1, <1>5 DEF Contract!LeaseNext

\* Every step of the pool leases a session, gives some back, or is work of the
\* application, if no connection is closed twice at once.
LEMMA LeaseStep ==
    ASSUME "double" \notin Overlap, IInv, Structure', Opening, [Next]_vars
    PROVE  Contract!LeaseNext
<1>1. ASSUME app' \subseteq app, txn' = txn, db' = db  PROVE Contract!LeaseNext
  BY <1>1, NothingTaken DEF IInv, Contract!LeaseNext
<1>2. ASSUME ClosePool, app' = app  PROVE Contract!LeaseNext
  <2> DEFINE S == inPool \cup inUse
  <2>1. S \in SUBSET (inPool \cup inUse \cup app) /\ CloseAll(S)
    BY <1>2 DEF ClosePool
  <2> HIDE DEF S
  <2> QED
    BY <1>2, <2>1, ClosingGivesBack DEF IInv, Contract!LeaseNext
<1>3. CASE UNCHANGED vars
  BY <1>1, <1>3 DEF vars, connVars, handleVars
<1>4. ASSUME NEW c \in Calls, OpenResume(c) \/ OpenRejects(c) \/ Close(c)
                              \/ \E f \in Files : Open(c, f)
      PROVE  Contract!LeaseNext
  <2>1. CASE \E f : OpenInternal(c, f)
    BY <1>2, <2>1 DEF OpenInternal
  <2>2. CASE Close(c)
    BY <1>2, <2>2 DEF Close
  <2>3. CASE app' = app /\ txn' = txn /\ db' = db
    BY <1>1, <2>3
  <2> QED
    BY <1>4, <2>1, <2>2, <2>3 DEF OpenResume, OpenRejects, Open, connVars, handleVars
<1>5. ASSUME NEW c \in Calls, (\E t \in Timeouts : Get(c, t)) \/ Poll(c)
      PROVE  Contract!LeaseNext
  <2>1. CASE \E w \in inPool : Serve(c, w)
    BY <2>1, ServeLease
  <2>2. CASE app' = app /\ txn' = txn /\ db' = db
    BY <1>1, <2>2
  <2> QED
    BY <1>5, <2>1, <2>2 DEF Get, Poll, connVars, handleVars
<1>6. ASSUME NEW c \in Calls, GetFailed(c) \/ StealOpen(c) \/ OpenStart(c)
      PROVE  Contract!LeaseNext
  BY <1>1, <1>6 DEF GetFailed, StealOpen, OpenStart, handleVars
<1>7. ASSUME NEW c \in Calls, NEW w \in Conns, Drop(c, w) \/ Recycle(c, w)
                              \/ \E f \in Files : Steal(c, w, f)
      PROVE  Contract!LeaseNext
  <2>1. CASE Recycle(c, w)
    BY <1>1, <2>1 DEF Recycle, connVars, handleVars
  <2>2. CASE CloseAll({w}) /\ app' \subseteq app /\ w \in app
    <3> DEFINE S == {w}
    <3>1. S \in SUBSET (inPool \cup inUse \cup app) /\ CloseAll(S)
      BY <2>2
    <3> HIDE DEF S
    <3> QED
      BY <2>2, <3>1, ClosingGivesBack DEF IInv, Contract!LeaseNext
  <2>3. CASE app' = app /\ txn' = txn /\ db' = db
    BY <1>1, <2>3
  <2> QED
    BY <1>7, <2>1, <2>2, <2>3 DEF Drop, Releasable, Steal, handleVars
<1>8. ASSUME NEW c \in Calls, StealOpened(c) \/ FirstOpened(c)
                              \/ \E w \in Conns : RestOpened(c, w)
      PROVE  Contract!LeaseNext
  <2>1. app' = app /\ txn' = txn /\ \E x \in Conns : Ready(x) \/ UNCHANGED db
    <3>1. CASE StealOpened(c) \/ FirstOpened(c)
      <4>1. call[c].w \in Conns
        BY <3>1 DEF StealOpened, FirstOpened, At, IInv, Structure, CallsPlaced
      <4> QED
        BY <3>1, <4>1 DEF StealOpened, FirstOpened
    <3>2. CASE \E w \in Conns : RestOpened(c, w)
      BY <3>2 DEF RestOpened
    <3> QED
      BY <1>8, <3>1, <3>2
  <2> QED
    BY <2>1, AttachLease
<1>9. ASSUME NEW c \in Calls, NEW w \in Conns, OpenFails(c, w)
      PROVE  Contract!LeaseNext
  BY <1>2, <1>9 DEF OpenFails
<1>10. ASSUME NEW w \in Conns, DbOpened(w) \/ OrphanOpened(w)
       PROVE  Contract!LeaseNext
  <2>1. app' = app /\ txn' = txn /\ (Ready(w) \/ Attach(w) \/ UNCHANGED db)
    BY <1>10 DEF DbOpened, OrphanOpened
  <2> QED
    BY <2>1, AttachLease
<1>11. ASSUME NEW w \in Conns, Transact(w) \/ SchemaQuery(w)
       PROVE  Contract!LeaseNext
  <2>1. CASE Transact(w)
    BY <2>1, WorkLease DEF IInv
  <2>2. CASE SchemaQuery(w)
    BY <1>1, <2>2 DEF SchemaQuery, handleVars
  <2> QED
    BY <1>11, <2>1, <2>2
<1>12. CASE Callback
  BY <1>4, <1>5, <1>6, <1>8, <1>9, <1>10, <1>12, GetOpenedLease, RecycleLease DEF Callback
<1>13. CASE Request
  BY <1>4, <1>5, <1>7, <1>11, <1>13 DEF Request
<1> QED
  BY <1>3, <1>4, <1>12, <1>13 DEF Next

\* Every idle connection is open, or the open of the pool still opens it: a get
\* is never given a connection that nobody will open, whatever fails.
THEOREM PoolIdleUsable ==
    ASSUME "double" \notin Overlap  PROVE Spec => []IdleUsable
<1> DEFINE Inv == Structure /\ Opening /\ IdleOpen
<1>1. Init => Inv
  BY StructureInit, OpeningInit
<1>2. Inv /\ [Next]_vars => Inv'
  BY StructureStep, OpeningStep
<1>3. Inv => IdleUsable
  BY DEF IdleOpen, IdleUsable
<1> QED
  BY <1>1, <1>2, <1>3, PTL DEF Spec

\* The pool keeps the contract of SessionLease, for any numbers of calls and
\* connections, while pool.open, pool.close, releases and steals overlap gets.
THEOREM PoolKeepsLease ==
    ASSUME "double" \notin Overlap, "rollback" \notin Faults
    PROVE  Spec => LeaseContract
<1> DEFINE Inv == IInv /\ Opening /\ IdleOpen
<1>1. Init => Inv
  BY StructureInit, OpeningInit DEF Init, IInv, TxnPlaced
<1>2. Inv /\ [Next]_vars => Inv'
  BY StructureStep, TxnStep, OpeningStep DEF IInv
<1>3. Init => Contract!LeaseInit
  <2> SUFFICES ASSUME Init  PROVE Contract!LeaseInit
    OBVIOUS
  <2>1. txn = {} /\ \A h \in Handles : HolderOf(h) = None
    BY DEF Init, HolderOf
  <2> QED
    BY <2>1 DEF Contract!LeaseInit
<1>4. Inv /\ Inv' /\ [Next]_vars => [Contract!LeaseNext]_(Contract!leaseVars)
  BY LeaseStep DEF IInv
<1> HIDE DEF Inv
<1> QED
  BY <1>1, <1>2, <1>3, <1>4, PTL DEF Spec, LeaseContract, Contract!LeaseSpec

-----------------------------------------------------------------------------
\* Accounts: where the connections are, while no open of the pool overlaps
\* another call and no native open fails

\* A native open is that of one call.
Owned(w) ==
    \/ Pending(w)
    \/ \E c \in Calls : call[c].pc \in {"getOpen", "openFirst", "stealOpen"} /\ call[c].w = w

\* The call that opens the pool is alone, and knows the file.
InOrder ==
    /\ opening # None => \E c \in Calls : call[c].pc \in {"openClosed", "openFirst", "openRest"}
    /\ \A c \in Calls :
          /\ call[c].pc \notin {"openWait", "resumeOk", "resumeErr", "openFailed"}
          /\ call[c].pc \in OpenPcs => \A d \in Calls \ {c} : call[d] = IdleCall
          /\ call[c].pc = "openFirst" => databaseFile # None
          /\ call[c].pc \in {"stealing", "openClosed"} => call[c].f # None
          /\ call[c].pc = "openClosed" => inPool = {}
          /\ call[c].pend \subseteq inPool
    /\ \A w \in Conns : stage[w] = "db" => wfile[w] # None

\* A connection in the books of the pool is open and a member of the pool, or
\* will be; one that is open is in the books, held, or in the hands of a call.
ConnAccounts(w) ==
    /\ stage[w] # "no" => Owned(w)
    /\ w \in inPool => w \in member \/ stage[w] = "db"
    /\ w \in inUse => w \in app /\ w \in member /\ db[w] # None
    /\ db[w] # None => w \in inPool \cup app \/ Busy(w) \/ Pending(w)

\* What a call in flight knows of the books.
CallAccounts(c) ==
    LET w == call[c].w  n == call[c].n  p == call[c].pc IN
    /\ p \in {"stealing", "stealOpen"} => w \in app /\ w \notin inUse
    /\ p \in {"getOpen", "openFirst"} => w \in member \/ stage[w] = "db"
    /\ p = "rollback" => db[w] # None
    /\ p = "reapply" => n \in member

Accounts ==
    /\ \A w \in Conns : ConnAccounts(w)
    /\ \A c \in Calls : CallAccounts(c)

Orderly == Structure /\ Opening /\ IdleOpen /\ InOrder /\ Accounts

\* While the pool is not being opened no call waits for several native opens.
LEMMA NotOpening ==
    ASSUME Opening, \A d \in Calls : call[d].pc \notin OpenPcs
    PROVE  /\ \A d \in Calls : call[d].pend = {}
           /\ \A w \in Conns : ~Pending(w)
BY NotPending DEF OpenPcs, Pending

\* A step outside of an open of the pool keeps the order.
LEMMA KeepOrder ==
    ASSUME InOrder, opening' = opening,
           \A d \in Calls : call[d].pc \notin OpenPcs,
           \A d \in Calls : /\ call'[d].pc \notin OpenPcs /\ call'[d].pend = {}
                            /\ call'[d].pc = "stealing" => call'[d].f # None,
           \A w \in Conns : stage'[w] = "db" => wfile'[w] # None
    PROVE  InOrder'
BY DEF InOrder, OpenPcs

\* A step leaves the connections outside of X as they are.
Outside(X) == \A v \in Conns \ X :
    /\ db'[v] = db[v] /\ stage'[v] = stage[v]
    /\ v \in app' <=> v \in app
    /\ v \in inUse' <=> v \in inUse
    /\ v \in inPool' <=> v \in inPool
    /\ v \in member' <=> v \in member

\* A step is one of the call c alone, and no other call works on X.
Alone(c, X) == \A d \in Calls \ {c} :
    call'[d] = call[d] /\ call[d].w \notin X /\ call[d].n \notin X

\* Outside of an open of the pool a step of the call c that concerns the
\* connections X keeps the accounts, if it keeps those of X and its own.
LEMMA KeepAccounts ==
    ASSUME Structure, Accounts, NEW c \in Calls, NEW X \in SUBSET Conns,
           \A d \in Calls : call[d].pend = {} /\ call'[d].pend = {},
           Alone(c, X), Outside(X),
           call[c].w \in X \cup {None}, call[c].n \in X \cup {None},
           \A x \in X : ConnAccounts(x)', CallAccounts(c)'
    PROVE  Accounts'
<1>0. \A d \in Calls : /\ call[d].pc \in {"stealing", "stealOpen", "getOpen", "openFirst",
                                           "rollback"} => call[d].w \in Conns
                       /\ call[d].pc = "reapply" => call[d].n \in Conns
  BY DEF Structure, CallsPlaced
<1>1. ASSUME NEW v \in Conns  PROVE ConnAccounts(v)'
  <2>1. CASE v \in X
    BY <2>1
  <2>2. CASE v \notin X
    <3>1. ConnAccounts(v) /\ v # None /\ v # call[c].w /\ v # call[c].n
      BY <2>2, PoolAssumption DEF Accounts, PoolAssumption
    <3>2. Owned(v) => Owned(v)'
      BY <3>1 DEF Owned, Pending, Alone
    <3>3. Busy(v) => Busy(v)'
      BY <3>1 DEF Busy, Alone
    <3>4. ~Pending(v)
      BY DEF Pending
    <3> QED
      BY <2>2, <3>1, <3>2, <3>3, <3>4 DEF ConnAccounts, Outside
  <2> QED
    BY <2>1, <2>2
<1>2. ASSUME NEW d \in Calls  PROVE CallAccounts(d)'
  <2>1. CASE d # c
    BY <1>0, <2>1 DEF Accounts, CallAccounts, Alone, Outside
  <2> QED
    BY <2>1
<1> QED
  BY <1>1, <1>2 DEF Accounts

\* A call in flight that is no open of the pool shows that the pool is not being
\* opened.
LEMMA NotAlone ==
    ASSUME InOrder, NEW c \in Calls, call[c].pc \notin OpenPcs, call[c].pc # "idle"
    PROVE  \A d \in Calls : call[d].pc \notin OpenPcs
BY CallStates DEF InOrder

\* A get that is served gets an open member of the pool.
LEMMA ServeOrderly ==
    ASSUME Orderly, NEW c \in Calls, NEW w \in inPool, Serve(c, w),
           call[c].pc \in {"idle", "waiting"}, \A d \in Calls : call[d].pc \notin OpenPcs
    PROVE  InOrder' /\ Accounts'
<1>1. /\ w \in Conns /\ w \notin inUse /\ w \notin app /\ None \notin Conns
      /\ call[c].w = None /\ call[c].n = None
  BY PoolAssumption DEF Orderly, Structure, TypeOK, IdleApart, CallsPlaced, PoolAssumption
<1>2. /\ inPool' = inPool \ {w} /\ inUse' = inUse \cup {w} /\ app' = app \cup {w}
      /\ db' = db /\ stage' = stage /\ wfile' = wfile /\ member' = member
      /\ opening' = opening /\ call'[c] = IdleCall
      /\ \A d \in Calls \ {c} : call'[d] = call[d]
  BY DEF Serve, Becomes, connVars, Orderly, Structure, TypeOK
<1>3. /\ \A d \in Calls : call[d].pend = {} /\ call'[d].pend = {}
      /\ \A v \in Conns : ~Pending(v)
  BY <1>2, NotOpening, CallStates DEF Orderly
<1>4. InOrder'
  BY <1>2, <1>3, CallStates, KeepOrder DEF OpenPcs, Orderly, InOrder
<1>5. w \in member /\ db[w] # None
  BY <1>1, <1>3 DEF Orderly, IdleOpen, Accounts, ConnAccounts
<1>6. \A d \in Calls \ {c} : call[d].pc \in {"stealing", "stealOpen"} => call[d].w # w
  BY <1>1 DEF Orderly, Accounts, CallAccounts
<1>7. ASSUME NEW v \in Conns  PROVE ConnAccounts(v)'
  <2>1. ConnAccounts(v)
    BY DEF Orderly, Accounts
  <2>2. Owned(v) => Owned(v)'
    BY <1>2, <1>3, <1>1 DEF Owned, Pending
  <2>3. Busy(v) => Busy(v)'
    BY <1>1, <1>2 DEF Busy
  <2> QED
    BY <1>2, <1>3, <1>5, <2>1, <2>2, <2>3 DEF ConnAccounts
<1>8. ASSUME NEW d \in Calls  PROVE CallAccounts(d)'
  BY <1>2, <1>6, CallStates DEF Orderly, Accounts, CallAccounts
<1> QED
  BY <1>4, <1>7, <1>8 DEF Accounts

\* A call that waits or gives up changes nothing.
LEMMA QuietOrderly ==
    ASSUME Orderly, NEW c \in Calls, \A d \in Calls : call[d].pc \notin OpenPcs,
           call[c].w = None, call[c].n = None,
           UNCHANGED <<poolVars, connVars, app>>,
           \A d \in Calls \ {c} : call'[d] = call[d],
           call'[c].pc \in {"idle", "waiting"}, call'[c].pend = {},
           call'[c].w = None, call'[c].n = None
    PROVE  InOrder' /\ Accounts'
<1>1. /\ db' = db /\ stage' = stage /\ wfile' = wfile /\ member' = member /\ app' = app
      /\ inPool' = inPool /\ inUse' = inUse /\ opening' = opening
  BY DEF poolVars, connVars
<1>2. /\ \A d \in Calls : call[d].pend = {} /\ call'[d].pend = {}
      /\ \A v \in Conns : ~Pending(v)
  BY NotOpening DEF Orderly
<1>3. InOrder'
  BY <1>1, <1>2, KeepOrder DEF OpenPcs, Orderly, InOrder
<1>4. ASSUME NEW v \in Conns  PROVE ConnAccounts(v)'
  <2>1. ConnAccounts(v) /\ v # None
    BY PoolAssumption DEF Orderly, Accounts, PoolAssumption
  <2>2. Owned(v) => Owned(v)'
    BY <1>2, <2>1 DEF Owned, Pending
  <2>3. Busy(v) => Busy(v)'
    BY <2>1 DEF Busy
  <2> QED
    BY <1>1, <1>2, <2>1, <2>2, <2>3 DEF ConnAccounts
<1>5. ASSUME NEW d \in Calls  PROVE CallAccounts(d)'
  BY <1>1 DEF Orderly, Accounts, CallAccounts
<1> QED
  BY <1>3, <1>4, <1>5 DEF Accounts

\* A get keeps the accounts: a fresh connection is owned by the call,
LEMMA GetOrderly ==
    ASSUME Orderly, NEW c \in Calls, NEW t \in Timeouts, Get(c, t), "admin" \notin Overlap
    PROVE  InOrder' /\ Accounts'
<1>0. /\ call[c].pc = "idle" /\ call[c].w = None /\ call[c].n = None
      /\ \A d \in Calls : call[d].pc \notin OpenPcs
  BY CallStates DEF Get, CanStart
<1>1. CASE \E w \in inPool : Serve(c, w)
  BY <1>0, <1>1, ServeOrderly
<1>2. CASE /\ Becomes(c, [IdleCall EXCEPT !.pc = "waiting", !.left = t])
           /\ UNCHANGED <<poolVars, connVars, handleVars, app, admin>>
  <2>1. /\ call'[c].pc = "waiting" /\ call'[c].w = None /\ call'[c].n = None
        /\ call'[c].pend = {}
        /\ \A d \in Calls \ {c} : call'[d] = call[d]
    BY <1>2 DEF Orderly, Structure, TypeOK, Becomes, IdleCall
  <2> QED
    BY <1>0, <1>2, <2>1, QuietOrderly
<1>3. CASE /\ inPool = {} /\ databaseFile # None
           /\ \E w \in FreshConns :
                 /\ StartOpens({w}, databaseFile, w)
                 /\ Becomes(c, [IdleCall EXCEPT !.pc = "getOpen", !.w = w])
           /\ UNCHANGED <<poolVars, db, member, dirty, handleVars, app, admin>>
  <2>1. PICK w \in FreshConns :
          /\ StartOpens({w}, databaseFile, w)
          /\ Becomes(c, [IdleCall EXCEPT !.pc = "getOpen", !.w = w])
    BY <1>3
  <2>2. /\ call'[c].pc = "getOpen" /\ call'[c].w = w /\ call'[c].pend = {}
        /\ call'[c].n = None
        /\ \A d \in Calls \ {c} : call'[d] = call[d]
    BY <2>1 DEF Orderly, Structure, TypeOK, Becomes, IdleCall
  <2>3. /\ w \in Conns /\ {w} \in SUBSET Conns /\ w \notin inPool /\ w \notin inUse
        /\ w \notin app /\ db[w] = None
        /\ \A d \in Calls : call[d].w # w /\ call[d].n # w
    BY FreshFacts
  <2>4. /\ stage'[w] = "db" /\ wfile'[w] = databaseFile
        /\ \A v \in Conns \ {w} : stage'[v] = stage[v] /\ wfile'[v] = wfile[v]
    BY <2>1, <2>3, StartOpensGives
  <2>5. /\ db' = db /\ member' = member /\ app' = app /\ inPool' = inPool
        /\ inUse' = inUse /\ opening' = opening
    BY <1>3 DEF poolVars
  <2>6. \A d \in Calls : call[d].pend = {} /\ call'[d].pend = {}
    BY <1>0, <2>2, NotOpening DEF Orderly
  <2>7. InOrder'
    BY <1>0, <1>3, <2>2, <2>4, <2>5, <2>6, KeepOrder DEF OpenPcs, Orderly, InOrder
  <2>8. ConnAccounts(w)'
    BY <2>2, <2>3, <2>4, <2>5 DEF ConnAccounts, Owned
  <2>9. CallAccounts(c)'
    BY <2>2, <2>4 DEF CallAccounts
  <2>10. Accounts'
    <3> DEFINE X == {w}
    <3>1. X \in SUBSET Conns /\ \A v : v \in X <=> v = w
      BY <2>3
    <3> HIDE DEF X
    <3> QED
      BY <1>0, <2>2, <2>3, <2>4, <2>5, <2>6, <2>8, <2>9, <3>1, KeepAccounts DEF Orderly, Alone, Outside
  <2> QED
    BY <2>7, <2>10
<1> QED
  BY <1>0, <1>1, <1>2, <1>3 DEF Get

\* which becomes a lent member of the pool when it is open.
LEMMA GetOpenedOrderly ==
    ASSUME Orderly, NEW c \in Calls, GetOpened(c)
    PROVE  InOrder' /\ Accounts'
<1>01. call[c].w \in Conns
  BY DEF GetOpened, At, Orderly, Structure, CallsPlaced
<1>02. PICK w \in Conns : w = call[c].w
  BY <1>01
<1>0. /\ call[c].pc = "getOpen" /\ w = call[c].w /\ w \notin inPool /\ w \notin inUse
      /\ w \notin app /\ call[c].n = None
  BY <1>02 DEF GetOpened, At, Orderly, Structure, CallsPlaced
<1>1. \A d \in Calls : call[d].pc \notin OpenPcs
  BY <1>0, NotAlone DEF OpenPcs, Orderly
<1>2. /\ call'[c] = IdleCall /\ \A d \in Calls \ {c} : call'[d] = call[d]
      /\ inUse' = inUse \cup {w} /\ app' = app \cup {w} /\ inPool' = inPool
      /\ opening' = opening
  BY <1>0 DEF GetOpened, Becomes, Orderly, Structure, TypeOK
<1>3. /\ stage'[w] = "no"
      /\ \A v \in Conns \ {w} : stage'[v] = stage[v] /\ wfile'[v] = wfile[v]
  <2>1. w \in Conns /\ StartOpens({}, None, w)
    BY <1>0 DEF GetOpened
  <2> QED
    BY <2>1, NoOpenStarts
<1>4. db'[w] # None /\ \A v \in Conns \ {w} : db'[v] = db[v]
  BY <1>0, ReadyGives DEF GetOpened, Orderly, Opening, OpensRight
<1>5. \A d \in Calls \ {c} : call[d].w # w /\ call[d].n # w
  BY <1>0, OwnConnection DEF Orderly
<1>6. member' = member \cup {w}
  <2>1. ~\E d \in Calls : call[d].pc = "stealOpen" /\ call[d].w = w
    BY <1>0, <1>5
  <2>2. CASE Attach(w)
    BY <2>1, <2>2 DEF Attach
  <2>3. CASE stage[w] = "settings" /\ UNCHANGED <<db, member, fileOf>>
    BY <1>0, <2>3 DEF Orderly, Accounts, CallAccounts
  <2> QED
    BY <1>0, <2>2, <2>3 DEF GetOpened, Ready
<1>7. \A d \in Calls : call[d].pend = {} /\ call'[d].pend = {}
  BY <1>1, <1>2, NotOpening, CallStates DEF Orderly
<1>8. InOrder'
  BY <1>0, <1>1, <1>2, <1>3, <1>7, CallStates, KeepOrder DEF OpenPcs, Orderly, InOrder
<1>9. ConnAccounts(w)'
  BY <1>0, <1>2, <1>3, <1>4, <1>6 DEF ConnAccounts
<1>10. CallAccounts(c)'
  <2>1. call'[c].pc = "idle"
    BY <1>2 DEF IdleCall
  <2> QED
    BY <2>1 DEF CallAccounts
<1>11. Accounts'
  <2> DEFINE X == {w}
  <2>1. X \in SUBSET Conns
    OBVIOUS
  <2>2. Alone(c, X)
    BY <1>2, <1>5 DEF Alone
  <2>3. call[c].w \in X \cup {None} /\ call[c].n \in X \cup {None}
    BY <1>0
  <2>4. Outside(X)
    BY <1>2, <1>3, <1>4, <1>6 DEF Outside
  <2>5. \A x \in X : ConnAccounts(x)'
    BY <1>9
  <2>6. /\ Structure /\ Accounts
        /\ \A d \in Calls : call[d].pend = {} /\ call'[d].pend = {}
    BY <1>7 DEF Orderly
  <2> HIDE DEF X
  <2> QED
    BY <1>0, <1>10, <2>1, <2>2, <2>3, <2>4, <2>5, <2>6, KeepAccounts
<1> QED
  BY <1>8, <1>11

\* A step of a call that opens no pool keeps order and accounts, if it keeps those
\* of the connections X it concerns and its own.
LEMMA OwnStep ==
    ASSUME Orderly, NEW c \in Calls, NEW X \in SUBSET Conns,
           \A d \in Calls : call[d].pc \notin OpenPcs, opening' = opening,
           call'[c].pc \notin OpenPcs, call'[c].pend = {},
           call'[c].pc = "stealing" => call'[c].f # None,
           \A x \in X : stage'[x] = "db" => wfile'[x] # None,
           \A v \in Conns \ X : wfile'[v] = wfile[v],
           Alone(c, X), Outside(X),
           call[c].w \in X \cup {None}, call[c].n \in X \cup {None},
           \A x \in X : ConnAccounts(x)', CallAccounts(c)'
    PROVE  InOrder' /\ Accounts'
<1>1. \A d \in Calls : call[d].pend = {} /\ call'[d].pend = {}
  BY NotOpening DEF Orderly, Alone
<1>2. \A d \in Calls : /\ call'[d].pc \notin OpenPcs
                       /\ call'[d].pc = "stealing" => call'[d].f # None
  BY DEF Alone, Orderly, InOrder
<1>3. \A v \in Conns : stage'[v] = "db" => wfile'[v] # None
  BY DEF Outside, Orderly, InOrder
<1>4. InOrder'
  BY <1>1, <1>2, <1>3, KeepOrder DEF Orderly
<1>5. Accounts'
  BY <1>1, KeepAccounts DEF Orderly
<1> QED
  BY <1>4, <1>5

\* As long as no native open fails, none of those in flight will.
LEMMA NeverFails ==
    ASSUME InOrder, Faults \cap {"open", "settings"} = {}, NEW w \in Conns
    PROVE  ~Fails(w)
BY DEF InOrder, Fails

\* Closing one connection concerns that one only.
LEMMA CloseOneGives ==
    ASSUME NEW w \in Conns, CloseAll({w})
    PROVE  /\ db'[w] = None /\ w \notin member'
           /\ \A v \in Conns \ {w} : db'[v] = db[v] /\ (v \in member' <=> v \in member)
BY DEF CloseAll

\* A connection no call works on is not being opened, except by an open of the
\* pool.
LEMMA NotOwned ==
    ASSUME Orderly, NEW w \in Conns, ~Busy(w), \A d \in Calls : call[d].pc \notin OpenPcs
    PROVE  stage[w] = "no"
<1>1. ~Owned(w)
  BY NotOpening DEF Owned, Busy, Orderly
<1> QED
  BY <1>1 DEF Orderly, Accounts, ConnAccounts

\* A poll keeps the accounts,
LEMMA PollOrderly ==
    ASSUME Orderly, NEW c \in Calls, Poll(c)
    PROVE  InOrder' /\ Accounts'
<1>1. call[c].pc = "waiting"
  BY DEF Poll, At
<1>2. /\ \A d \in Calls : call[d].pc \notin OpenPcs
      /\ call[c].w = None /\ call[c].n = None
  BY <1>1, NotAlone DEF OpenPcs, Orderly, Structure, CallsPlaced
<1>3. CASE \E w \in inPool : Serve(c, w)
  BY <1>1, <1>2, <1>3, ServeOrderly
<1>4. CASE /\ Becomes(c, IF call[c].left = 1 THEN IdleCall
                         ELSE [call[c] EXCEPT !.left = @ - 1])
           /\ UNCHANGED <<poolVars, connVars, handleVars, app, admin>>
  <2>1. \A d \in Calls \ {c} : call'[d] = call[d]
    BY <1>4 DEF Orderly, Structure, TypeOK, Becomes
  <2>2. \/ call'[c] = IdleCall
        \/ call'[c] = [call[c] EXCEPT !.left = @ - 1]
    BY <1>4 DEF Orderly, Structure, TypeOK, Becomes
  <2>3. call[c] \in CallState /\ call[c].pend = {}
    BY <1>2, NotOpening DEF Orderly, Structure, TypeOK
  <2>4. /\ call'[c].pc \in {"idle", "waiting"} /\ call'[c].pend = {}
        /\ call'[c].w = None /\ call'[c].n = None
    BY <1>1, <1>2, <2>2, <2>3, CallStates DEF CallState
  <2> QED
    BY <1>2, <1>4, <2>1, <2>4, QuietOrderly
<1> QED
  BY <1>3, <1>4 DEF Poll

\* a close, which takes the connection out of the books before it is closed,
LEMMA DropOrderly ==
    ASSUME Orderly, NEW c \in Calls, NEW w \in Conns, Drop(c, w),
           Overlap = {}
    PROVE  InOrder' /\ Accounts'
<1>0. /\ w \in app /\ ~Busy(w) /\ w \notin inPool /\ call[c] = IdleCall
      /\ \A d \in Calls : call[d].pc \notin OpenPcs
  BY DEF Drop, Releasable, CanStart, Orderly, Structure, IdleApart
<1>1. /\ call' = call /\ opening' = opening /\ inPool' = inPool
      /\ stage' = stage /\ wfile' = wfile /\ app' = app \ {w}
      /\ inUse' = IF w \in member THEN inUse \ {w} ELSE inUse
  BY DEF Drop
<1>2. /\ db'[w] = None /\ w \notin member'
      /\ \A v \in Conns \ {w} : db'[v] = db[v] /\ (v \in member' <=> v \in member)
  BY CloseOneGives DEF Drop
<1>3. stage[w] = "no" /\ w \notin inUse'
  BY <1>0, <1>1, NotOwned DEF Orderly, Accounts, ConnAccounts
<1>4. ConnAccounts(w)'
  BY <1>0, <1>1, <1>2, <1>3 DEF ConnAccounts
<1>5. CallAccounts(c)'
  BY <1>0, <1>1, CallStates DEF CallAccounts
<1> DEFINE X == {w}
<1>6. X \in SUBSET Conns /\ Alone(c, X) /\ Outside(X)
  BY <1>0, <1>1, <1>2 DEF Alone, Outside, Busy
<1>7. \A x \in X : ConnAccounts(x)' /\ (stage'[x] = "db" => wfile'[x] # None)
  BY <1>1, <1>3, <1>4
<1> HIDE DEF X
<1> QED
  BY <1>0, <1>1, <1>5, <1>6, <1>7, CallStates, OwnStep DEF OpenPcs

\* which hands it to the recycling call,
LEMMA RecycleOrderly ==
    ASSUME Orderly, NEW c \in Calls, NEW w \in Conns, Recycle(c, w),
           Overlap = {}
    PROVE  InOrder' /\ Accounts'
<1>0. /\ w \in app /\ ~Busy(w) /\ w \notin inPool /\ call[c] = IdleCall
      /\ \A d \in Calls : call[d].pc \notin OpenPcs
  BY DEF Recycle, Releasable, CanStart, Orderly, Structure, IdleApart
<1>1. PICK n \in FreshConns :
        Becomes(c, [IdleCall EXCEPT !.pc = "rollback", !.w = w, !.n = n])
  BY DEF Recycle
<1>2. /\ call'[c].pc = "rollback" /\ call'[c].w = w /\ call'[c].n = n
      /\ call'[c].pend = {}
      /\ \A d \in Calls \ {c} : call'[d] = call[d]
  BY <1>1 DEF Orderly, Structure, TypeOK, Becomes, IdleCall
<1>3. /\ n \in Conns /\ n \notin inPool /\ n \notin inUse /\ n \notin app /\ db[n] = None
      /\ \A d \in Calls : call[d].w # n /\ call[d].n # n
  BY <1>1, FreshFacts
<1>4. /\ opening' = opening /\ inPool' = inPool /\ stage' = stage /\ wfile' = wfile
      /\ db' = db /\ member' = member /\ app' = app \ {w} /\ inUse' = inUse \ {w}
      /\ db[w] # None
  BY DEF Recycle, connVars
<1>5. stage[w] = "no" /\ stage[n] = "no"
  BY <1>0, <1>3, NotOwned DEF Busy
<1>6. Busy(w)'
  BY <1>2 DEF Busy
<1>7. ConnAccounts(w)'
  BY <1>0, <1>4, <1>5, <1>6 DEF ConnAccounts
<1>8. ConnAccounts(n)'
  BY <1>3, <1>4, <1>5 DEF ConnAccounts
<1>9. CallAccounts(c)'
  BY <1>2, <1>4 DEF CallAccounts
<1> DEFINE X == {w, n}
<1>10. X \in SUBSET Conns /\ Alone(c, X) /\ Outside(X)
  BY <1>0, <1>2, <1>3, <1>4 DEF Alone, Outside, Busy
<1>11. \A x \in X : ConnAccounts(x)' /\ (stage'[x] = "db" => wfile'[x] # None)
  BY <1>4, <1>5, <1>7, <1>8
<1> HIDE DEF X
<1> QED
  BY <1>0, <1>2, <1>4, <1>9, <1>10, <1>11, CallStates, OwnStep DEF OpenPcs

\* until the handle has moved to the new connection, which is idle then.
LEMMA RecycleEndsOrderly ==
    ASSUME Orderly, NEW c \in Calls, RolledBack(c) \/ Reapplied(c)
    PROVE  InOrder' /\ Accounts'
<1>1. call[c].pc \in {"rollback", "reapply"}
  BY DEF RolledBack, Reapplied, At
<1>2. /\ call[c].w \in Conns \ (inPool \cup inUse \cup app)
      /\ call[c].n \in Conns \ (inPool \cup inUse \cup app)
      /\ call[c].w # call[c].n
  BY <1>1 DEF Orderly, Structure, CallsPlaced
<1>3. PICK w \in Conns, n \in Conns : w = call[c].w /\ n = call[c].n
  BY <1>2
<1>4. /\ \A d \in Calls : call[d].pc \notin OpenPcs
      /\ \A d \in Calls : call[d].pend = {}
  BY <1>1, NotAlone, NotOpening DEF OpenPcs, Orderly
<1>5. \A d \in Calls \ {c} : /\ call[d].w # w /\ call[d].n # w
                             /\ call[d].w # n /\ call[d].n # n
  BY <1>3, OwnConnection DEF Orderly
<1>6. stage[w] = "no" /\ stage[n] = "no"
  <2>1. ~Owned(w) /\ ~Owned(n)
    BY <1>1, <1>2, <1>3, <1>4, <1>5 DEF Owned, Pending
  <2> QED
    BY <2>1 DEF Orderly, Accounts, ConnAccounts
<1>7. /\ opening' = opening /\ stage' = stage /\ wfile' = wfile
      /\ inUse' = inUse /\ app' = app
  BY DEF RolledBack, Reapplied
<1> DEFINE X == {w, n}
<1>8. X \in SUBSET Conns /\ \A x \in X : x = w \/ x = n
  OBVIOUS
<1>9. call[c].w \in X \cup {None} /\ call[c].n \in X \cup {None}
  BY <1>3
<1>10. (\A d \in Calls \ {c} : call'[d] = call[d]) => Alone(c, X)
  BY <1>5 DEF Alone
<1>11. (\A v \in Conns \ X : /\ db'[v] = db[v] /\ (v \in member' <=> v \in member)
                             /\ (v \in inPool' <=> v \in inPool)) => Outside(X)
  BY <1>7 DEF Outside
<1>12. w \in X /\ n \in X
  OBVIOUS
<1> HIDE DEF X
<1>13. CASE /\ db' = [db EXCEPT ![n] = db[w]] /\ member' = member \cup {n}
            /\ Becomes(c, [call[c] EXCEPT !.pc = "reapply"])
            /\ UNCHANGED inPool
  <2>1. /\ call'[c].pc = "reapply" /\ call'[c].w = w /\ call'[c].n = n
        /\ call'[c].pend = {}
        /\ \A d \in Calls \ {c} : call'[d] = call[d]
    BY <1>3, <1>4, <1>13, BecomesFacts DEF Orderly, Structure, TypeOK, CallState, Becomes
  <2>2. /\ inPool' = inPool /\ \A v \in Conns \ {n} : db'[v] = db[v]
        /\ n \in member' /\ \A v \in Conns \ {n} : v \in member' <=> v \in member
    BY <1>13 DEF Orderly, Structure, TypeOK
  <2>3. Busy(w)' /\ Busy(n)'
    BY <2>1 DEF Busy
  <2>4. ConnAccounts(w)' /\ ConnAccounts(n)'
    BY <1>2, <1>3, <1>6, <1>7, <2>2, <2>3 DEF ConnAccounts
  <2>5. CallAccounts(c)'
    BY <2>1, <2>2 DEF CallAccounts
  <2>6. Alone(c, X) /\ Outside(X)
    BY <1>10, <1>11, <1>12, <2>1, <2>2
  <2>7. \A x \in X : ConnAccounts(x)' /\ (stage'[x] = "db" => wfile'[x] # None)
    BY <1>6, <1>7, <1>8, <2>4
  <2>8. \A v \in Conns \ X : wfile'[v] = wfile[v]
    BY <1>7
  <2> QED
    BY <1>4, <1>7, <1>8, <1>9, <2>1, <2>5, <2>6, <2>7, <2>8, OwnStep DEF OpenPcs
<1>14. CASE /\ db'[w] = None /\ \A v \in Conns \ X : db'[v] = db[v]
            /\ n \in member' /\ \A v \in Conns \ X : v \in member' <=> v \in member
            /\ inPool' = inPool \cup {n}
            /\ Becomes(c, IdleCall)
  <2>1. call'[c] = IdleCall /\ \A d \in Calls \ {c} : call'[d] = call[d]
    BY <1>14, BecomesFacts DEF Orderly, Structure
  <2>2. ConnAccounts(w)'
    BY <1>2, <1>3, <1>6, <1>7, <1>14 DEF ConnAccounts
  <2>3. ConnAccounts(n)'
    BY <1>2, <1>3, <1>6, <1>7, <1>14 DEF ConnAccounts
  <2>4. CallAccounts(c)'
    BY <2>1, CallStates DEF CallAccounts
  <2>5. Alone(c, X) /\ Outside(X)
    BY <1>10, <1>11, <1>12, <1>14, <2>1
  <2>6. \A x \in X : ConnAccounts(x)' /\ (stage'[x] = "db" => wfile'[x] # None)
    BY <1>6, <1>7, <1>8, <2>2, <2>3
  <2>7. \A v \in Conns \ X : wfile'[v] = wfile[v]
    BY <1>7
  <2> QED
    BY <1>4, <1>7, <1>8, <1>9, <2>1, <2>4, <2>5, <2>6, <2>7, CallStates, OwnStep DEF OpenPcs
<1>15. CASE RolledBack(c)
  <2>1. db[w] # None
    BY <1>3, <1>15 DEF RolledBack, At, Orderly, Accounts, CallAccounts
  <2>2. CASE /\ db' = [db EXCEPT ![n] = db[w], ![w] = None]
             /\ member' = (member \ {w}) \cup {n}
             /\ inPool' = inPool \cup {n}
             /\ Becomes(c, IdleCall)
    BY <1>2, <1>3, <1>12, <1>14, <2>2 DEF Orderly, Structure, TypeOK
  <2> QED
    BY <1>3, <1>13, <1>15, <2>1, <2>2 DEF RolledBack
<1>16. CASE Reapplied(c)
  <2>1. n \in member /\ w # n
    BY <1>2, <1>3, <1>16 DEF Reapplied, At, Orderly, Accounts, CallAccounts
  <2>2. /\ db' = [db EXCEPT ![w] = None] /\ member' = member \ {w}
        /\ inPool' = inPool \cup {n} /\ Becomes(c, IdleCall)
    BY <1>3, <1>16 DEF Reapplied
  <2> QED
    BY <1>12, <1>14, <2>1, <2>2 DEF Orderly, Structure, TypeOK
<1> QED
  BY <1>15, <1>16

\* Stealing a connection takes it out of the books; it stays with the application,
LEMMA StealOrderly ==
    ASSUME Orderly, NEW c \in Calls, NEW w \in Conns, NEW f \in Files, Steal(c, w, f),
           Overlap = {}
    PROVE  InOrder' /\ Accounts'
<1>0. /\ w \in app /\ ~Busy(w) /\ w \notin inPool /\ call[c] = IdleCall /\ stage[w] = "no"
      /\ \A d \in Calls : call[d].pc \notin OpenPcs
      /\ f # None
  BY PoolAssumption DEF Steal, CanStart, Orderly, Structure, IdleApart, PoolAssumption
<1>1. opening' = opening /\ inPool' = inPool /\ app' = app
  BY DEF Steal
<1>2. /\ w \in inUse => w \in member /\ db[w] # None
  BY DEF Orderly, Accounts, ConnAccounts
<1> DEFINE X == {w}
<1>3. /\ X \in SUBSET Conns /\ w \in X /\ \A x \in X : x = w
      /\ call[c].w \in X \cup {None} /\ call[c].n \in X \cup {None}
  BY <1>0, CallStates
<1>4. (\A d \in Calls \ {c} : call'[d] = call[d]) => Alone(c, X)
  BY <1>0 DEF Alone, Busy
<1> HIDE DEF X
<1>5. CASE /\ inUse' = IF w \in member THEN inUse \ {w} ELSE inUse
           /\ CloseAll({w})
           /\ Becomes(c, [IdleCall EXCEPT !.pc = "stealing", !.w = w, !.f = f])
           /\ UNCHANGED <<stage, wfile>>
  <2>1. /\ call'[c].pc = "stealing" /\ call'[c].w = w /\ call'[c].n = None
        /\ call'[c].f = f /\ call'[c].pend = {}
        /\ \A d \in Calls \ {c} : call'[d] = call[d]
    BY <1>5 DEF Orderly, Structure, TypeOK, Becomes, IdleCall
  <2>2. /\ db'[w] = None /\ w \notin member'
        /\ \A v \in Conns \ {w} : db'[v] = db[v] /\ (v \in member' <=> v \in member)
    BY <1>5, CloseOneGives
  <2>3. stage' = stage /\ wfile' = wfile /\ w \notin inUse'
    BY <1>2, <1>5
  <2>4. ConnAccounts(w)'
    BY <1>0, <1>1, <2>2, <2>3 DEF ConnAccounts
  <2>5. CallAccounts(c)'
    BY <1>0, <1>1, <2>1, <2>3 DEF CallAccounts
  <2>6. Alone(c, X) /\ Outside(X)
    BY <1>1, <1>3, <1>4, <1>5, <2>1, <2>2 DEF Outside
  <2>7. \A x \in X : ConnAccounts(x)' /\ (stage'[x] = "db" => wfile'[x] # None)
    BY <1>0, <1>3, <2>3, <2>4
  <2> QED
    BY <1>0, <1>1, <1>3, <2>1, <2>3, <2>5, <2>6, <2>7, OwnStep DEF OpenPcs
<1>6. CASE /\ db[w] = None
           /\ member' = member \ {w}
           /\ StartOpens({w}, f, w)
           /\ Becomes(c, [IdleCall EXCEPT !.pc = "stealOpen", !.w = w])
           /\ UNCHANGED <<inUse, db, handleVars>>
  <2>1. /\ call'[c].pc = "stealOpen" /\ call'[c].w = w /\ call'[c].n = None
        /\ call'[c].pend = {}
        /\ \A d \in Calls \ {c} : call'[d] = call[d]
    BY <1>6 DEF Orderly, Structure, TypeOK, Becomes, IdleCall
  <2>2. /\ stage'[w] = "db" /\ wfile'[w] = f
        /\ \A v \in Conns \ {w} : stage'[v] = stage[v] /\ wfile'[v] = wfile[v]
    BY <1>6, OneOpenStarts
  <2>3. Owned(w)'
    BY <2>1 DEF Owned
  <2>4. ConnAccounts(w)'
    BY <1>0, <1>1, <1>2, <1>6, <2>3 DEF ConnAccounts
  <2>5. CallAccounts(c)'
    BY <1>0, <1>1, <1>2, <1>6, <2>1 DEF CallAccounts
  <2>6. Alone(c, X) /\ Outside(X)
    BY <1>1, <1>3, <1>4, <1>6, <2>1, <2>2 DEF Outside
  <2>7. \A x \in X : ConnAccounts(x)' /\ (stage'[x] = "db" => wfile'[x] # None)
    BY <1>0, <1>3, <2>2, <2>4
  <2>8. \A v \in Conns \ X : wfile'[v] = wfile[v]
    BY <1>3, <2>2
  <2> QED
    BY <1>0, <1>1, <1>3, <2>1, <2>5, <2>6, <2>7, <2>8, OwnStep DEF OpenPcs
<1> QED
  BY <1>5, <1>6 DEF Steal

\* whether the open that steals it has closed it, or has been answered.
LEMMA StealEndsOrderly ==
    ASSUME Orderly, NEW c \in Calls, StealOpen(c) \/ StealOpened(c)
    PROVE  InOrder' /\ Accounts'
<1>1. call[c].pc \in {"stealing", "stealOpen"}
  BY DEF StealOpen, StealOpened, At
<1>2. /\ call[c].w \in Conns \ inPool /\ call[c].n = None
  BY <1>1 DEF Orderly, Structure, CallsPlaced
<1>3. PICK w \in Conns : w = call[c].w
  BY <1>2
<1>4. /\ w \in app /\ w \notin inUse /\ w \notin inPool
      /\ \A d \in Calls : call[d].pc \notin OpenPcs
      /\ \A d \in Calls \ {c} : call[d].w # w /\ call[d].n # w
  BY <1>1, <1>2, <1>3, NotAlone, OwnConnection DEF OpenPcs, Orderly, Accounts, CallAccounts
<1>5. /\ opening' = opening /\ inPool' = inPool /\ app' = app /\ inUse' = inUse
  BY DEF StealOpen, StealOpened, poolVars
<1> DEFINE X == {w}
<1>6. /\ X \in SUBSET Conns /\ w \in X /\ \A x \in X : x = w
      /\ call[c].w \in X \cup {None} /\ call[c].n \in X \cup {None}
  BY <1>2, <1>3
<1>7. (\A d \in Calls \ {c} : call'[d] = call[d]) => Alone(c, X)
  BY <1>4 DEF Alone
<1> HIDE DEF X
<1>8. CASE StealOpen(c)
  <2>1. /\ call'[c].pc = "stealOpen" /\ call'[c].w = w /\ call'[c].n = None
        /\ call'[c].pend = {}
        /\ \A d \in Calls \ {c} : call'[d] = call[d]
    BY <1>3, <1>8 DEF StealOpen, Orderly, Structure, TypeOK, Becomes, IdleCall
  <2>2. /\ stage'[w] = "db" /\ wfile'[w] = call[c].f
        /\ \A v \in Conns \ {w} : stage'[v] = stage[v] /\ wfile'[v] = wfile[v]
        /\ member' = member \ {w} /\ db' = db
    <3>1. /\ StartOpens({w}, call[c].f, w) /\ {w} \in SUBSET Conns
          /\ member' = member \ {w} /\ db' = db
      BY <1>3, <1>8 DEF StealOpen
    <3> QED
      BY <3>1, StartOpensGives
  <2>3. call[c].f # None
    BY <1>8 DEF StealOpen, At, Orderly, InOrder
  <2>4. Owned(w)'
    BY <2>1 DEF Owned
  <2>5. ConnAccounts(w)'
    BY <1>4, <1>5, <2>4 DEF ConnAccounts
  <2>6. CallAccounts(c)'
    BY <1>4, <1>5, <2>1 DEF CallAccounts
  <2>7. Alone(c, X) /\ Outside(X)
    BY <1>5, <1>6, <1>7, <2>1, <2>2 DEF Outside
  <2>8. \A x \in X : ConnAccounts(x)' /\ (stage'[x] = "db" => wfile'[x] # None)
    BY <1>6, <2>2, <2>3, <2>5
  <2>9. \A v \in Conns \ X : wfile'[v] = wfile[v]
    BY <1>6, <2>2
  <2> QED
    BY <1>4, <1>5, <1>6, <2>1, <2>6, <2>7, <2>8, <2>9, OwnStep DEF OpenPcs
<1>9. CASE StealOpened(c)
  <2>1. call'[c] = IdleCall /\ \A d \in Calls \ {c} : call'[d] = call[d]
    BY <1>9, BecomesFacts DEF StealOpened, Orderly, Structure
  <2>2. /\ stage'[w] = "no"
        /\ \A v \in Conns \ {w} : stage'[v] = stage[v] /\ wfile'[v] = wfile[v]
    <3>1. {} \in SUBSET Conns
      OBVIOUS
    <3> QED
      BY <1>3, <1>9, <3>1, StartOpensGives DEF StealOpened
  <2>3. \A v \in Conns \ {w} : db'[v] = db[v] /\ (v \in member' <=> v \in member)
    BY <1>3, <1>9 DEF StealOpened, Ready, Attach, Orderly, Structure, TypeOK
  <2>4. ConnAccounts(w)'
    BY <1>4, <1>5, <2>2 DEF ConnAccounts
  <2>5. CallAccounts(c)'
    BY <2>1, CallStates DEF CallAccounts
  <2>6. Alone(c, X) /\ Outside(X)
    BY <1>5, <1>6, <1>7, <2>1, <2>2, <2>3 DEF Outside
  <2>7. \A x \in X : ConnAccounts(x)' /\ (stage'[x] = "db" => wfile'[x] # None)
    BY <1>6, <2>2, <2>4
  <2>8. \A v \in Conns \ X : wfile'[v] = wfile[v]
    BY <1>6, <2>2
  <2> QED
    BY <1>4, <1>5, <1>6, <2>1, <2>5, <2>6, <2>7, <2>8, CallStates, OwnStep DEF OpenPcs
<1> QED
  BY <1>8, <1>9

\* The answer of a native open without settings yet makes the connection a member
\* of the pool, unless it is being stolen.
LEMMA NativeOrderly ==
    ASSUME Orderly, NEW x \in Conns, DbOpened(x)
    PROVE  InOrder' /\ Accounts'
<1>1. /\ call' = call /\ opening' = opening /\ inPool' = inPool /\ inUse' = inUse
      /\ app' = app /\ databaseFile' = databaseFile
  BY DEF DbOpened, poolVars
<1>2. /\ stage[x] = "db" /\ stage'[x] = "settings"
      /\ \A v \in Conns \ {x} : stage'[v] = stage[v] /\ wfile'[v] = wfile[v]
  BY DEF DbOpened, Attach, Orderly, Structure, TypeOK
<1>3. db'[x] # None /\ \A v \in Conns \ {x} : db'[v] = db[v]
  BY <1>2, ReadyGives DEF DbOpened, Orderly
<1>4. /\ \A v \in Conns \ {x} : v \in member' <=> v \in member
      /\ x \in member => x \in member'
      /\ (\A c \in Calls : call[c].pc = "stealOpen" => call[c].w # x) => x \in member'
  BY DEF DbOpened, Attach
<1>5. InOrder'
  <2>1. \A w \in Conns : stage'[w] = "db" => wfile'[w] # None
    BY <1>2 DEF Orderly, InOrder
  <2> QED
    BY <1>1, <2>1 DEF Orderly, InOrder
<1>6. ASSUME NEW v \in Conns  PROVE ConnAccounts(v)'
  <2>0. /\ ConnAccounts(v) /\ ConnAccounts(x)
        /\ Owned(v)' <=> Owned(v)
        /\ Busy(v)' <=> Busy(v)
        /\ Pending(v)' <=> Pending(v)
    BY <1>1 DEF Owned, Busy, Pending, Orderly, Accounts
  <2>1. CASE v # x
    BY <1>1, <1>2, <1>3, <1>4, <2>0, <2>1 DEF ConnAccounts
  <2>2. CASE v = x
    <3>1. Busy(x) \/ Pending(x)
      BY <1>2, <2>0, <2>2 DEF ConnAccounts, Owned, Busy
    <3>2. x \in inPool => x \in member'
      BY <1>4 DEF Orderly, Structure, CallsPlaced
    <3> QED
      BY <1>1, <1>2, <1>3, <1>4, <2>0, <2>2, <3>1, <3>2 DEF ConnAccounts
  <2> QED
    BY <2>1, <2>2
<1>7. ASSUME NEW c \in Calls  PROVE CallAccounts(c)'
  <2>0. /\ CallAccounts(c) /\ call'[c] = call[c]
        /\ \A w \in Conns : db[w] # None => db'[w] # None
        /\ \A w \in Conns : w \in member => w \in member'
    BY <1>1, <1>3, <1>4 DEF Orderly, Accounts
  <2>1. /\ call[c].pc \in {"getOpen", "openFirst", "rollback"} => call[c].w \in Conns
        /\ call[c].pc = "reapply" => call[c].n \in Conns
    BY DEF Orderly, Structure, CallsPlaced
  <2>2. call[c].pc \in {"getOpen", "openFirst"} /\ call[c].w = x => x \in member'
    <3>1. SUFFICES ASSUME call[c].pc \in {"getOpen", "openFirst"}, call[c].w = x
                   PROVE  \A d \in Calls : call[d].pc = "stealOpen" => call[d].w # x
      BY <1>4
    <3> QED
      BY <3>1, OwnConnection DEF Orderly
  <2> QED
    BY <1>1, <1>2, <2>0, <2>1, <2>2 DEF CallAccounts
<1> QED
  BY <1>5, <1>6, <1>7 DEF Accounts

\* A step that touches neither calls nor books.
LEMMA SameOrderly ==
    ASSUME Orderly, call' = call, opening' = opening, databaseFile' = databaseFile,
           inPool' = inPool, inUse' = inUse, app' = app, stage' = stage, wfile' = wfile,
           db' = db, member' = member
    PROVE  InOrder' /\ Accounts'
BY DEF Orderly, InOrder, Accounts, ConnAccounts, CallAccounts, Owned, Busy, Pending

\* No open of a connection is given up, as none fails.
LEMMA NoneGivenUp ==
    ASSUME Orderly, NEW x \in Conns
    PROVE  ~OrphanOpened(x)
BY DEF OrphanOpened, Orderly, Accounts, ConnAccounts, Owned, Busy

\* The calls that are not the one that opens or closes the pool are idle,
LEMMA AdminAlone ==
    ASSUME Orderly, NEW c \in Calls, \A d \in Calls \ {c} : call[d] = IdleCall,
           call[c].pc \notin {"getOpen", "openFirst", "stealOpen"}, call[c].w = None,
           call[c].pend = {}, call[c].n = None
    PROVE  \A w \in Conns : /\ stage[w] = "no" /\ ~Busy(w)
                            /\ db[w] # None => w \in inPool \cup app
                            /\ w \in inPool => w \in member
                            /\ w \in inUse => w \in app
<1>1. ASSUME NEW w \in Conns  PROVE ~Owned(w) /\ ~Busy(w) /\ ~Pending(w)
  BY CallStates, PoolAssumption DEF Owned, Busy, Pending, PoolAssumption
<1> QED
  BY <1>1 DEF Orderly, Accounts, ConnAccounts

\* so that closing the pool leaves only connections the application holds.
LEMMA CloseOrderly ==
    ASSUME Orderly, NEW c \in Calls, Overlap = {},
           Close(c) \/ \E f \in Files : Open(c, f)
    PROVE  InOrder' /\ Accounts'
<1>1. /\ \A d \in Calls : call[d] = IdleCall
      /\ \A d \in Calls : call[d].w = None /\ call[d].n = None /\ call[d].pend = {}
                          /\ call[d].pc = "idle"
  BY CallStates DEF Close, Open, CanAdmin, CanStart
<1>2. opening = None
  BY <1>1 DEF Orderly, InOrder
<1>3. ClosePool /\ stage' = stage /\ wfile' = wfile /\ app' = app
  BY <1>2 DEF Close, Open, OpenInternal
<1>4. /\ inPool' = {} /\ inUse' = {}
      /\ \A w \in Conns : w \notin inPool \cup inUse => db'[w] = db[w]
      /\ \A w \in Conns : w \in inPool \cup inUse => db'[w] = None
  BY <1>3 DEF ClosePool, CloseAll
<1>5. \A w \in Conns : /\ stage[w] = "no" /\ ~Busy(w)
                       /\ db[w] # None => w \in inPool \cup app
  BY <1>1, AdminAlone
<1>6. \A w \in Conns : ConnAccounts(w)'
  BY <1>3, <1>4, <1>5 DEF ConnAccounts
<1>7. CASE call' = call /\ opening' = opening
  <2>1. \A d \in Calls : CallAccounts(d)'
    BY <1>1, <1>7 DEF CallAccounts
  <2>2. InOrder'
    BY <1>1, <1>2, <1>3, <1>5, <1>7 DEF InOrder, OpenPcs
  <2> QED
    BY <1>6, <2>1, <2>2 DEF Accounts
<1>8. CASE \E f \in Files : OpenInternal(c, f)
  <2>1. PICK f \in Files : OpenInternal(c, f)
    BY <1>8
  <2>2. /\ call'[c].pc = "openClosed" /\ call'[c].pend = {} /\ call'[c].f = f
        /\ \A d \in Calls \ {c} : call'[d] = call[d]
    BY <2>1 DEF OpenInternal, Orderly, Structure, TypeOK, Becomes, IdleCall
  <2>3. \A d \in Calls : CallAccounts(d)'
    BY <1>1, <2>2 DEF CallAccounts
  <2>4. f # None
    BY PoolAssumption DEF PoolAssumption
  <2>5. \A d \in Calls : d = c \/ (call'[d] = IdleCall /\ call'[d].pc = "idle" /\ call'[d].pend = {})
    BY <1>1, <2>2
  <2>6. InOrder'
    BY <1>3, <1>4, <1>5, <2>2, <2>4, <2>5 DEF InOrder, OpenPcs
  <2> QED
    BY <1>6, <2>3, <2>6 DEF Accounts
<1> QED
  BY <1>2, <1>7, <1>8 DEF Close, Open

\* The first connection of a pool being opened is owned by the open,
LEMMA OpenStartOrderly ==
    ASSUME Orderly, NEW c \in Calls, OpenStart(c)
    PROVE  InOrder' /\ Accounts'
<1>1. /\ call[c].pc = "openClosed" /\ call[c].w = None /\ call[c].n = None
      /\ call[c].pend = {} /\ call[c] \in CallState
      /\ \A d \in Calls \ {c} : call[d] = IdleCall
      /\ inPool = {} /\ call[c].f # None
  <2>1. call[c].pc = "openClosed"
    BY DEF OpenStart, At
  <2> QED
    BY <2>1 DEF Orderly, Structure, TypeOK, CallsPlaced, InOrder, OpenPcs
<1>2. PICK w \in FreshConns :
        /\ StartOpens({w}, call[c].f, w)
        /\ Becomes(c, [call[c] EXCEPT !.pc = "openFirst", !.w = w])
  BY DEF OpenStart
<1>3. /\ w \in Conns /\ {w} \in SUBSET Conns /\ w \notin inPool /\ w \notin inUse
      /\ w \notin app /\ db[w] = None
  BY <1>2, FreshFacts
<1>4. /\ call'[c].pc = "openFirst" /\ call'[c].w = w /\ call'[c].pend = {}
      /\ \A d \in Calls \ {c} : call'[d] = call[d]
  <2>1. /\ call'[c] = [call[c] EXCEPT !.pc = "openFirst", !.w = w]
        /\ \A d \in Calls \ {c} : call'[d] = call[d]
    BY <1>2 DEF Orderly, Structure, TypeOK, Becomes
  <2> QED
    BY <1>1, <2>1 DEF CallState
<1>5. /\ stage'[w] = "db" /\ wfile'[w] = call[c].f
      /\ \A v \in Conns \ {w} : stage'[v] = stage[v] /\ wfile'[v] = wfile[v]
  BY <1>2, <1>3, StartOpensGives
<1>6. /\ inPool' = {} /\ inUse' = inUse /\ app' = app /\ db' = db /\ member' = member
      /\ opening' = opening /\ databaseFile' = call[c].f
  BY DEF OpenStart
<1>7. \A v \in Conns : /\ stage[v] = "no"
                       /\ db[v] # None => v \in app
  BY <1>1, AdminAlone
<1>8. ASSUME NEW v \in Conns  PROVE ConnAccounts(v)'
  <2>1. ConnAccounts(v)
    BY DEF Orderly, Accounts
  <2>2. v = w => Owned(v)'
    BY <1>4 DEF Owned
  <2> QED
    BY <1>3, <1>5, <1>6, <1>7, <2>1, <2>2 DEF ConnAccounts
<1>9. ASSUME NEW d \in Calls  PROVE CallAccounts(d)'
  BY <1>1, <1>4, <1>5, CallStates DEF CallAccounts
<1>10. InOrder'
  <2>1. \A v \in Conns : stage'[v] = "db" => wfile'[v] # None
    BY <1>1, <1>5, <1>7
  <2>2. \A d \in Calls : d = c \/ (call'[d] = IdleCall /\ call'[d].pc = "idle" /\ call'[d].pend = {})
    BY <1>1, <1>4, CallStates
  <2> QED
    BY <1>1, <1>4, <1>6, <2>1, <2>2 DEF InOrder, OpenPcs
<1> QED
  BY <1>8, <1>9, <1>10 DEF Accounts

\* joins the pool when it is open, with the others that are being opened,
LEMMA FirstOpenedOrderly ==
    ASSUME Orderly, NEW c \in Calls, FirstOpened(c)
    PROVE  InOrder' /\ Accounts'
<1>1. /\ call[c].pc = "openFirst" /\ call[c].w \in Conns /\ call[c].pend = {}
      /\ \A d \in Calls \ {c} : call[d] = IdleCall
      /\ databaseFile # None
  <2>1. call[c].pc = "openFirst"
    BY DEF FirstOpened, At
  <2> QED
    BY <2>1, NotPending DEF Orderly, Structure, CallsPlaced, InOrder, OpenPcs
<1>2. PICK w \in Conns : w = call[c].w
  BY <1>1
<1>3. PICK R \in SUBSET FreshConns :
          /\ StartOpens(R, databaseFile, w)
          /\ inPool' = inPool \cup {w} \cup R
          /\ IF R = {} THEN Settle(c, "resumeOk")
             ELSE /\ Becomes(c, [IdleCall EXCEPT !.pc = "openRest", !.pend = R])
                  /\ UNCHANGED opening
  BY <1>2 DEF FirstOpened
<1>4. R \in SUBSET Conns /\ \A x \in R : /\ x \notin inUse /\ x # w /\ db[x] = None
  BY <1>1, <1>2, <1>3, FreshFacts
<1>5. /\ \A v \in R : stage'[v] = "db" /\ wfile'[v] = databaseFile
      /\ stage'[w] = "no"
      /\ \A v \in Conns \ (R \cup {w}) : stage'[v] = stage[v] /\ wfile'[v] = wfile[v]
  BY <1>3, <1>4, StartOpensGives
<1>6. /\ db'[w] # None /\ \A v \in Conns \ {w} : db'[v] = db[v]
  BY <1>1, <1>2, ReadyGives DEF FirstOpened, Orderly, Opening, OpensRight
<1>7. inUse' = inUse /\ app' = app /\ databaseFile' = databaseFile
  BY DEF FirstOpened
<1>8. w \in member' /\ \A v \in Conns \ {w} : v \in member' <=> v \in member
  <2>1. ~\E d \in Calls : call[d].pc = "stealOpen" /\ call[d].w = w
    BY <1>1, CallStates
  <2>2. stage[w] = "settings" => w \in member
    BY <1>1, <1>2 DEF Orderly, Accounts, CallAccounts
  <2> QED
    BY <1>2, <2>1, <2>2 DEF FirstOpened, Ready, Attach
<1>9. \A d \in Calls \ {c} : call'[d] = IdleCall
  BY <1>1, <1>3, CallStates DEF Settle, Orderly, Structure, TypeOK, Becomes
<1>10. \/ R = {} /\ call'[c] = IdleCall /\ opening' = None
       \/ call'[c].pc = "openRest" /\ call'[c].pend = R /\ opening' = opening
  BY <1>3 DEF Settle, Orderly, Structure, TypeOK, Becomes, IdleCall
<1>11. \A v \in Conns \ {w} : stage[v] = "no" /\ ~Busy(v) /\ ~Pending(v)
  <2>1. ASSUME NEW v \in Conns \ {w}  PROVE ~Owned(v) /\ ~Busy(v) /\ ~Pending(v)
    <3>1. call[c].n = None
      BY <1>1 DEF Orderly, Structure, CallsPlaced
    <3> QED
      BY <1>1, <1>2, <3>1, CallStates, PoolAssumption DEF Owned, Busy, Pending, PoolAssumption
  <2> QED
    BY <2>1 DEF Orderly, Accounts, ConnAccounts
<1>12. \A v \in R : Pending(v)'
  BY <1>10 DEF Pending
<1>13. ASSUME NEW v \in Conns  PROVE ConnAccounts(v)'
  <2>1. ConnAccounts(v)
    BY DEF Orderly, Accounts
  <2>2. CASE v = w
    BY <1>3, <1>5, <1>6, <1>7, <1>8, <2>1, <2>2 DEF ConnAccounts
  <2>3. CASE v \in R
    BY <1>4, <1>5, <1>6, <1>7, <1>12, <2>3 DEF ConnAccounts, Owned
  <2>4. CASE v \in Conns \ (R \cup {w})
    BY <1>3, <1>5, <1>6, <1>7, <1>8, <1>11, <2>1, <2>4 DEF ConnAccounts
  <2> QED
    BY <2>2, <2>3, <2>4
<1>14. ASSUME NEW d \in Calls  PROVE CallAccounts(d)'
  BY <1>9, <1>10, CallStates DEF CallAccounts
<1>15. InOrder'
  <2>1. \A v \in Conns : stage'[v] = "db" => wfile'[v] # None
    BY <1>1, <1>4, <1>5, <1>11
  <2>2. \A d \in Calls : d = c \/ (call'[d] = IdleCall /\ call'[d].pc = "idle" /\ call'[d].pend = {})
    BY <1>9, CallStates
  <2>3. R \subseteq inPool'
    BY <1>3
  <2> QED
    BY <1>10, <2>1, <2>2, <2>3, CallStates DEF InOrder, OpenPcs
<1> QED
  BY <1>13, <1>14, <1>15 DEF Accounts

\* and so does each of the others.
LEMMA RestOpenedOrderly ==
    ASSUME Orderly, NEW c \in Calls, NEW x \in Conns, RestOpened(c, x)
    PROVE  InOrder' /\ Accounts'
<1>1. /\ call[c].pc = "openRest" /\ x \in call[c].pend /\ call[c] \in CallState
      /\ call[c].w = None /\ call[c].n = None
      /\ \A d \in Calls \ {c} : call[d] = IdleCall
      /\ call[c].pend \subseteq inPool
  <2>1. call[c].pc = "openRest" /\ x \in call[c].pend
    BY DEF RestOpened, At
  <2> QED
    BY <2>1 DEF Orderly, Structure, TypeOK, CallsPlaced, InOrder, OpenPcs
<1>2. /\ stage'[x] = "no"
      /\ \A v \in Conns \ {x} : stage'[v] = stage[v] /\ wfile'[v] = wfile[v]
  <2>1. {} \in SUBSET Conns /\ StartOpens({}, None, x)
    BY DEF RestOpened
  <2> QED
    BY <2>1, StartOpensGives
<1>3. \A v \in Conns \ {x} : db'[v] = db[v] /\ (v \in member' <=> v \in member)
  BY DEF RestOpened, Ready, Attach, Orderly, Structure, TypeOK
<1>4. x \in inPool /\ x \in member'
  <2>1. ~\E d \in Calls : call[d].pc = "stealOpen" /\ call[d].w = x
    BY <1>1, CallStates
  <2>2. stage[x] = "settings" => x \in member
    BY <1>1 DEF Orderly, Accounts, ConnAccounts
  <2> QED
    BY <1>1, <2>1, <2>2 DEF RestOpened, Ready, Attach
<1>5. inPool' = inPool /\ inUse' = inUse /\ app' = app /\ databaseFile' = databaseFile
  BY DEF RestOpened
<1>6. \A d \in Calls \ {c} : call'[d] = IdleCall
  BY <1>1, CallStates DEF RestOpened, Settle, Orderly, Structure, TypeOK, Becomes
<1>7. \/ call[c].pend = {x} /\ call'[c] = IdleCall /\ opening' = None
      \/ /\ call'[c].pc = "openRest" /\ call'[c].pend = call[c].pend \ {x}
         /\ opening' = opening
  <2>1. CASE Settle(c, "resumeOk") /\ call[c].pend = {x}
    BY <2>1 DEF Settle
  <2>2. CASE Becomes(c, [call[c] EXCEPT !.pend = @ \ {x}]) /\ opening' = opening
    BY <1>1, <2>2, BecomesFacts DEF CallState, Orderly, Structure
  <2> QED
    BY <2>1, <2>2 DEF RestOpened
<1>8. \A v \in Conns \ {x} : v \in call[c].pend => Pending(v)'
  BY <1>7 DEF Pending
<1>9. \A v \in Conns : /\ ~Busy(v)
                       /\ Owned(v) => v \in call[c].pend
                       /\ Pending(v) => v \in call[c].pend
  BY <1>1, CallStates, PoolAssumption DEF Owned, Busy, Pending, PoolAssumption
<1>10. ASSUME NEW v \in Conns  PROVE ConnAccounts(v)'
  <2>1. ConnAccounts(v)
    BY DEF Orderly, Accounts
  <2>2. CASE v = x
    <3>1. x \notin inUse
      BY <1>4 DEF Orderly, Structure, IdleApart
    <3> QED
      BY <1>2, <1>4, <1>5, <2>2, <3>1 DEF ConnAccounts
  <2>3. CASE v # x
    BY <1>2, <1>3, <1>5, <1>8, <1>9, <2>1, <2>3 DEF ConnAccounts, Owned
  <2> QED
    BY <2>2, <2>3
<1>11. ASSUME NEW d \in Calls  PROVE CallAccounts(d)'
  BY <1>6, <1>7, CallStates DEF CallAccounts
<1>12. InOrder'
  <2>1. \A v \in Conns : stage'[v] = "db" => wfile'[v] # None
    BY <1>2 DEF Orderly, InOrder
  <2>2. \A d \in Calls : d = c \/ (call'[d] = IdleCall /\ call'[d].pc = "idle" /\ call'[d].pend = {})
    BY <1>6, CallStates
  <2> QED
    BY <1>1, <1>5, <1>7, <2>1, <2>2, CallStates DEF InOrder, OpenPcs
<1> QED
  BY <1>10, <1>11, <1>12 DEF Accounts

\* Every step keeps the accounts in order: what fails, overlaps or is given up
\* does not happen.
LEMMA OrderlyStep ==
    ASSUME Overlap = {}, Faults \cap {"open", "settings"} = {}, Orderly, [Next]_vars
    PROVE  Orderly'
<1>1. Structure' /\ Opening' /\ IdleOpen'
  BY StructureStep, OpeningStep DEF Orderly
<1>2. CASE UNCHANGED vars
  BY <1>1, <1>2, SameOrderly DEF vars, poolVars, connVars, Orderly
<1>3. ASSUME NEW c \in Calls, OpenResume(c) \/ OpenRejects(c)  PROVE FALSE
  BY <1>3 DEF OpenResume, OpenRejects, At, Orderly, InOrder
<1>4. ASSUME NEW c \in Calls, GetFailed(c)  PROVE FALSE
  BY <1>4, NeverFails DEF GetFailed, At, Orderly, Structure, CallsPlaced
<1>5. ASSUME NEW c \in Calls, NEW w \in Conns, OpenFails(c, w)  PROVE FALSE
  BY <1>5, NeverFails DEF OpenFails, Orderly
<1>6. ASSUME NEW w \in Conns, Transact(w) \/ SchemaQuery(w)  PROVE InOrder' /\ Accounts'
  BY <1>6, SameOrderly DEF Transact, SchemaQuery, poolVars, connVars
<1>7. CASE Callback
  BY <1>3, <1>4, <1>5, <1>7, PollOrderly, GetOpenedOrderly, RecycleEndsOrderly,
     StealEndsOrderly, OpenStartOrderly, FirstOpenedOrderly, RestOpenedOrderly,
     NativeOrderly, NoneGivenUp, <1>1
  DEF Callback, Orderly
<1>8. CASE Request
  BY <1>1, <1>6, <1>8, GetOrderly, DropOrderly, RecycleOrderly, StealOrderly, CloseOrderly
  DEF Request, Orderly
<1> QED
  BY <1>2, <1>3, <1>7, <1>8 DEF Next

\* The pool starts with empty books.
LEMMA OrderlyInit == Init => Orderly
<1> SUFFICES ASSUME Init  PROVE Orderly
  OBVIOUS
<1>1. \A c \in Calls : call[c] = IdleCall /\ call[c].pc = "idle" /\ call[c].pend = {}
  BY CallStates DEF Init
<1>2. /\ \A w \in Conns : stage[w] = "no" /\ db[w] = None
      /\ inPool = {} /\ inUse = {} /\ opening = None
  BY DEF Init
<1>3. InOrder
  BY <1>1, <1>2 DEF InOrder, OpenPcs
<1>4. Accounts
  BY <1>1, <1>2 DEF Accounts, ConnAccounts, CallAccounts
<1> QED
  BY <1>3, <1>4, StructureInit, OpeningInit DEF Orderly

\* As long as opening and closing the pool overlap no other call, a connection is
\* not closed twice at once, and no native open fails, every open handle can still
\* be closed,
THEOREM PoolNoOrphan ==
    ASSUME Overlap = {}, Faults \cap {"open", "settings"} = {}
    PROVE  Spec => []NoOrphan
<1>1. Orderly /\ [Next]_vars => Orderly'
  BY OrderlyStep
<1>2. Orderly => NoOrphan
  BY DEF Orderly, Accounts, ConnAccounts, NoOrphan
<1> QED
  BY <1>1, <1>2, OrderlyInit, PTL DEF Spec

\* and every connection the pool counts as lent is held by somebody.
THEOREM PoolNoLeakedSlot ==
    ASSUME Overlap = {}, Faults \cap {"open", "settings"} = {}
    PROVE  Spec => []NoLeakedSlot
<1>1. Orderly /\ [Next]_vars => Orderly'
  BY OrderlyStep
<1>2. Orderly => NoLeakedSlot
  BY DEF Orderly, Structure, TypeOK, Accounts, ConnAccounts, NoLeakedSlot
<1> QED
  BY <1>1, <1>2, OrderlyInit, PTL DEF Spec

-----------------------------------------------------------------------------
\* What a waiting get waits for

\* No connection is dirty, and a waiting get has a reason to wait.
Awaited == dirty = {} /\ WaiterHasReason

\* The reason stays as long as no connection leaves the books.
LEMMA ReasonKept ==
    ASSUME WaiterHasReason, inPool \cup inUse \subseteq inPool' \cup inUse',
           \A d \in Calls : /\ call'[d].pc = "waiting" => call[d].pc = "waiting"
                            /\ call[d].pc \in {"rollback", "reapply"} => call'[d] = call[d]
    PROVE  WaiterHasReason'
BY DEF WaiterHasReason

\* A get waits while max connections are lent,
LEMMA GetAwaited ==
    ASSUME WaiterHasReason, TypeOK, NEW c \in Calls, NEW t \in Timeouts, Get(c, t)
    PROVE  WaiterHasReason'
<1>0. call[c].pc = "idle"
  BY CallStates DEF Get, CanStart
<1>1. CASE \E w \in inPool : Serve(c, w)
  BY <1>1 DEF Serve, WaiterHasReason
<1>2. CASE MustWait /\ UNCHANGED <<poolVars, connVars, handleVars, app, admin>>
  <2>1. inUse # {}
    BY <1>2, FS_EmptySet, PoolAssumption DEF MustWait, PoolAssumption
  <2> QED
    BY <1>2, <2>1 DEF WaiterHasReason, poolVars
<1>3. CASE /\ \E w \in FreshConns :
                Becomes(c, [IdleCall EXCEPT !.pc = "getOpen", !.w = w])
           /\ UNCHANGED <<poolVars, db, member, dirty, handleVars, app, admin>>
  <2>1. /\ call'[c].pc = "getOpen" /\ \A d \in Calls \ {c} : call'[d] = call[d]
        /\ inPool' = inPool /\ inUse' = inUse
    BY <1>3 DEF TypeOK, Becomes, IdleCall, poolVars
  <2> QED
    BY <1>0, <2>1, ReasonKept
<1> QED
  BY <1>1, <1>2, <1>3 DEF Get

\* and a lent connection that is clean is closed only if others are idle.
LEMMA ReleaseAwaited ==
    ASSUME Orderly, Awaited, NEW c \in Calls, NEW w \in Conns, Overlap = {},
           Drop(c, w) \/ Recycle(c, w)
    PROVE  WaiterHasReason'
<1>1. CASE Drop(c, w)
  <2>1. CASE w \in inUse
    <3>1. w \in member /\ db[w] # None /\ w \notin dirty
      BY <2>1 DEF Orderly, Accounts, ConnAccounts, Awaited
    <3>2. inPool # {} /\ inPool' = inPool
      BY <1>1, <3>1, FS_EmptySet, PoolAssumption DEF Drop, PoolMin, PoolAssumption
    <3> QED
      BY <3>2 DEF WaiterHasReason
  <2>2. CASE w \notin inUse
    <3>1. inUse' = inUse /\ inPool' = inPool /\ call' = call
      BY <1>1, <2>2 DEF Drop
    <3> QED
      BY <3>1, ReasonKept DEF Awaited
  <2> QED
    BY <2>1, <2>2
<1>2. CASE Recycle(c, w)
  <2>1. call'[c].pc = "rollback"
    BY <1>2 DEF Recycle, Becomes, IdleCall, Orderly, Structure, TypeOK
  <2> QED
    BY <2>1 DEF WaiterHasReason
<1> QED
  BY <1>1, <1>2

\* A recycled connection is idle at the end.
LEMMA RecycledAwaited ==
    ASSUME Orderly, NEW c \in Calls, RolledBack(c) \/ Reapplied(c)
    PROVE  WaiterHasReason'
<1>1. CASE RolledBack(c)
  <2>1. db[call[c].w] # None
    BY <1>1 DEF RolledBack, At, Orderly, Accounts, CallAccounts
  <2>2. CASE inPool' = inPool \cup {call[c].n}
    BY <2>2 DEF WaiterHasReason
  <2>3. CASE Becomes(c, [call[c] EXCEPT !.pc = "reapply"])
    <3>1. call'[c].pc = "reapply"
      BY <2>3, BecomesFacts DEF Orderly, Structure, TypeOK, CallState
    <3> QED
      BY <3>1 DEF WaiterHasReason
  <2> QED
    BY <1>1, <2>1, <2>2, <2>3 DEF RolledBack
<1>2. CASE Reapplied(c)
  BY <1>2 DEF Reapplied, WaiterHasReason
<1> QED
  BY <1>1, <1>2

\* While the pool is being opened or closed nobody waits.
LEMMA AdminAwaited ==
    ASSUME Orderly, Orderly', NEW c \in Calls, Overlap = {},
           \/ Close(c) \/ (\E f \in Files : Open(c, f))
           \/ OpenStart(c) \/ FirstOpened(c) \/ (\E x \in Conns : RestOpened(c, x))
    PROVE  WaiterHasReason'
<1>1. \A d \in Calls \ {c} : call[d].pc = "idle" /\ call[d] = IdleCall
  BY CallStates DEF Close, Open, CanAdmin, CanStart, OpenStart, FirstOpened, RestOpened,
                    At, Orderly, InOrder, OpenPcs
<1>2. \A d \in Calls \ {c} : call'[d] = call[d]
  <2>1. CASE Close(c)
    BY <2>1 DEF Close
  <2>2. CASE \E f \in Files : Open(c, f)
    BY <2>2 DEF Open, OpenInternal, Becomes, Orderly, Structure, TypeOK
  <2>3. CASE OpenStart(c)
    BY <2>3 DEF OpenStart, Becomes, Orderly, Structure, TypeOK
  <2>4. CASE FirstOpened(c) \/ \E x \in Conns : RestOpened(c, x)
    <3>1. Settle(c, "resumeOk") \/ \E s : Becomes(c, s)
      BY <2>4 DEF FirstOpened, RestOpened
    <3>2. \A d \in Calls \ {c} : call[d].pc # "openWait"
      BY <1>1
    <3> QED
      BY <3>1, <3>2, Zenon DEF Settle, Becomes, Orderly, Structure, TypeOK
  <2> QED
    BY <2>1, <2>2, <2>3, <2>4
<1>3. call'[c].pc # "waiting"
  <2>1. CASE Close(c)
    BY <2>1, CallStates DEF Close, CanAdmin, CanStart
  <2>2. CASE \E f \in Files : Open(c, f)
    BY <2>2, ZenonT(30) DEF Open, OpenInternal, Becomes, IdleCall, Orderly, Structure, TypeOK
  <2>3. CASE OpenStart(c)
    <3>1. PICK w \in FreshConns : call'[c] = [call[c] EXCEPT !.pc = "openFirst", !.w = w]
      BY <2>3 DEF OpenStart, Becomes, Orderly, Structure, TypeOK
    <3>2. call[c] \in CallState
      BY DEF Orderly, Structure, TypeOK
    <3> QED
      BY <3>1, <3>2 DEF CallState
  <2>4. CASE FirstOpened(c)
    <3>1. PICK R \in SUBSET FreshConns :
            IF R = {} THEN Settle(c, "resumeOk")
            ELSE Becomes(c, [IdleCall EXCEPT !.pc = "openRest", !.pend = R])
      BY <2>4 DEF FirstOpened
    <3>2. \/ call'[c] = IdleCall
          \/ call'[c] = [IdleCall EXCEPT !.pc = "openRest", !.pend = R]
      BY <3>1 DEF Settle, Becomes, Orderly, Structure, TypeOK
    <3>3. [IdleCall EXCEPT !.pc = "openRest", !.pend = R].pc = "openRest"
      BY DEF IdleCall
    <3> QED
      BY <3>2, <3>3, CallStates
  <2>5. CASE \E x \in Conns : RestOpened(c, x)
    <3>1. PICK x \in Conns : RestOpened(c, x)
      BY <2>5
    <3>2. \/ call'[c] = IdleCall
          \/ call'[c] = [call[c] EXCEPT !.pend = @ \ {x}]
      BY <3>1 DEF RestOpened, Settle, Becomes, Orderly, Structure, TypeOK
    <3>3. call[c].pc = "openRest" /\ call[c] \in CallState
      BY <3>1 DEF RestOpened, At, Orderly, Structure, TypeOK
    <3> QED
      BY <3>2, <3>3, CallStates DEF CallState
  <2> QED
    BY <2>1, <2>2, <2>3, <2>4, <2>5
<1> QED
  BY <1>1, <1>2, <1>3 DEF WaiterHasReason

\* Every step leaves waiting gets a reason.
LEMMA AwaitedStep ==
    ASSUME Overlap = {}, Faults \cap {"open", "settings"} = {},
           AppOps \cap {"steal", "schema"} = {}, Orderly, Orderly', Awaited, [Next]_vars
    PROVE  Awaited'
<1>1. dirty' = {}
  <2>1. dirty = {} /\ "schema" \notin AppOps
    BY DEF Awaited
  <2>2. CASE Callback
    BY <2>1, <2>2, ZenonT(30) DEF Callback, Poll, Serve, GetOpened, GetFailed, RolledBack, Reapplied,
           StealOpen, StealOpened, OpenStart, FirstOpened, OpenRejects, RestOpened, OpenFails,
           DbOpened, OrphanOpened, connVars
  <2>3. CASE Request
    <3>1. ASSUME NEW c \in Calls, NEW t \in Timeouts, Get(c, t) PROVE dirty' = dirty
      BY <3>1 DEF Get, Serve, connVars
    <3>2. ASSUME NEW c \in Calls, NEW w \in Conns, Drop(c, w) \/ Recycle(c, w)
          PROVE  dirty' = {}
      BY <2>1, <3>2 DEF Drop, Recycle, connVars
    <3>3. ASSUME NEW c \in Calls, Close(c) \/ \E f \in Files : Open(c, f)
          PROVE  dirty' = dirty
      BY <3>3 DEF Open, OpenInternal, Close, connVars
    <3>4. ASSUME NEW w \in Conns, Transact(w) PROVE dirty' = dirty
      BY <3>4 DEF Transact, connVars
    <3>5. ASSUME NEW c \in Calls, NEW w \in Conns, NEW f \in Files, Steal(c, w, f)
          PROVE  dirty' = dirty
      BY <3>5 DEF Steal
    <3>6. ASSUME NEW w \in Conns, SchemaQuery(w) PROVE FALSE
      BY <2>1, <3>6 DEF SchemaQuery
    <3> QED
      BY <2>1, <2>3, <3>1, <3>2, <3>3, <3>4, <3>5, <3>6 DEF Request
  <2>4. CASE \E c \in Calls : OpenResume(c)
    BY <2>1, <2>4 DEF OpenResume, OpenInternal, connVars
  <2>5. CASE UNCHANGED vars
    BY <2>1, <2>5 DEF vars, connVars
  <2> QED
    BY <2>2, <2>3, <2>4, <2>5 DEF Next
<1>0. SUFFICES WaiterHasReason'
  BY <1>1 DEF Awaited
<1>2. TypeOK /\ InOrder /\ WaiterHasReason
  BY DEF Orderly, Structure, Awaited
<1>3. CASE call' = call /\ inPool' = inPool /\ inUse' = inUse
  BY <1>2, <1>3 DEF WaiterHasReason
<1>4. ASSUME NEW c \in Calls, OpenResume(c) \/ OpenRejects(c)  PROVE FALSE
  BY <1>2, <1>4 DEF OpenResume, OpenRejects, At, InOrder
<1>5. ASSUME NEW c \in Calls, GetFailed(c)  PROVE FALSE
  BY <1>5, NeverFails DEF GetFailed, At, Orderly, Structure, CallsPlaced
<1>6. ASSUME NEW c \in Calls, NEW w \in Conns, OpenFails(c, w)  PROVE FALSE
  BY <1>6, NeverFails DEF OpenFails, Orderly
<1>7. ASSUME NEW c \in Calls, Poll(c)  PROVE WaiterHasReason'
  <2>1. CASE \E w \in inPool : Serve(c, w)
    BY <2>1 DEF Serve, WaiterHasReason
  <2>2. CASE UNCHANGED <<poolVars, connVars, handleVars, app, admin>>
    <3>1. /\ call[c].pc = "waiting" /\ \A d \in Calls \ {c} : call'[d] = call[d]
          /\ inPool' = inPool /\ inUse' = inUse
      BY <1>2, <1>7, <2>2 DEF Poll, At, Serve, Becomes, TypeOK, poolVars
    <3> QED
      BY <1>2, <3>1, ReasonKept
  <2> QED
    BY <1>7, <2>1, <2>2 DEF Poll
<1>8. ASSUME NEW c \in Calls, GetOpened(c)  PROVE WaiterHasReason'
  BY <1>8 DEF GetOpened, WaiterHasReason
<1>9. ASSUME NEW c \in Calls, NEW w \in Conns, NEW f \in Files, Steal(c, w, f)  PROVE FALSE
  BY <1>9 DEF Steal
<1>10. ASSUME NEW c \in Calls, StealOpen(c) \/ StealOpened(c)  PROVE WaiterHasReason'
  <2>1. /\ call[c].pc \notin {"rollback", "reapply"} /\ inPool' = inPool /\ inUse' = inUse
        /\ call'[c].pc # "waiting" /\ \A d \in Calls \ {c} : call'[d] = call[d]
    <3>1. CASE StealOpen(c)
      BY <1>2, <3>1 DEF StealOpen, At, Becomes, IdleCall, TypeOK, poolVars
    <3>2. CASE StealOpened(c)
      BY <1>2, <3>2 DEF StealOpened, At, Becomes, IdleCall, TypeOK, poolVars
    <3> QED
      BY <1>10, <3>1, <3>2
  <2> QED
    BY <1>2, <2>1, ReasonKept
<1>11. ASSUME NEW w \in Conns, DbOpened(w) \/ OrphanOpened(w) \/ Transact(w) \/ SchemaQuery(w)
       PROVE  WaiterHasReason'
  BY <1>3, <1>11 DEF DbOpened, OrphanOpened, Transact, SchemaQuery, poolVars
<1>12. CASE UNCHANGED vars
  BY <1>3, <1>12 DEF vars, poolVars
<1>13. CASE Callback
  BY <1>4, <1>5, <1>6, <1>7, <1>8, <1>10, <1>11, <1>13, RecycledAwaited, AdminAwaited DEF Callback
<1>14. CASE Request
  BY <1>2, <1>9, <1>11, <1>14, GetAwaited, ReleaseAwaited, AdminAwaited DEF Request
<1> QED
  BY <1>1, <1>4, <1>12, <1>13, <1>14 DEF Next

\* As long as nothing overlaps or fails and the application neither steals
\* connections nor changes the schema, a get that waits for an idle connection
\* waits for one that is idle, lent or being recycled.
THEOREM PoolWaiterHasReason ==
    ASSUME Overlap = {}, Faults \cap {"open", "settings"} = {},
           AppOps \cap {"steal", "schema"} = {}
    PROVE  Spec => []WaiterHasReason
<1>1. Init => Orderly /\ Awaited
  BY OrderlyInit, CallStates DEF Init, Awaited, WaiterHasReason
<1>2. Orderly /\ [Next]_vars => Orderly'
  BY OrderlyStep
<1>3. Orderly /\ Orderly' /\ Awaited /\ [Next]_vars => Awaited'
  BY AwaitedStep
<1>4. Awaited => WaiterHasReason
  BY DEF Awaited
<1> QED
  BY <1>1, <1>2, <1>3, <1>4, PTL DEF Spec
=============================================================================
