---------------------- MODULE ConnectionManagerProofs ----------------------
(* Machine-checked safety of the request connections, for every number of    *)
(* requests, pools, sessions and dictionaries.  Apart says where contexts,   *)
(* their sessions and the sessions being committed are, for any number of    *)
(* operations in flight; Kept adds what a handler may rely on that awaits     *)
(* every operation it starts.                                                *)
EXTENDS ConnectionManager, TLAPS

-----------------------------------------------------------------------------
\* The inductive invariant

Down(s) == pools[PoolOf[s]] = "down"

ContextsApart ==
    /\ \A r \in Requests : ctx[r] = Default <=> phase[r] = "before"
    /\ \A r, q \in Requests : r # q /\ ctx[r] = ctx[q] => ctx[r] = Default

OpsInContext ==
    \A r \in Requests, o \in Ops : op[r][o] # IdleOp =>
        /\ phase[r] = "handling" /\ op[r][o].in = ctx[r]
        /\ op[r][o].pc = "working" => op[r][o].on \in Sessions

DictPlaced ==
    \A r \in Requests, n \in Names :
        dict[ctx[r]][n] # None =>
            /\ phase[r] = "handling" /\ PoolOf[dict[ctx[r]][n]] = n
            /\ holder[dict[ctx[r]][n]] = ctx[r] \/ Down(dict[ctx[r]][n])

ClosingPlaced ==
    \A r \in Requests :
        /\ closing[r].left \subseteq closing[r].all
        /\ closing[r].all # {} => phase[r] = "committing"
        /\ \A s \in closing[r].all :
              Down(s) \/ (holder[s] # None /\ \A q \in Requests : ctx[q] # holder[s])

ClosingApart ==
    \A r, q \in Requests : r # q => closing[r].all \cap closing[q].all = {}

Shutdown == \A s \in Sessions : Down(s) => holder[s] = None

Authored == \A s \in unclean : author[s] \in Requests

Apart ==
    /\ TypeOK /\ ContextsApart /\ OpsInContext /\ DictPlaced /\ ClosingPlaced
    /\ ClosingApart /\ Shutdown /\ Authored /\ Isolation

\* The entries of a dictionary are the sessions it has a name for,
LEMMA EntriesOf ==
    ASSUME NEW d, NEW s
    PROVE  s \in Entries(d) <=> (s # None /\ \E n \in Names : dict[d][n] = s)
BY DEF Entries

\* all of them sessions.
LEMMA EntriesAreSessions ==
    ASSUME TypeOK, NEW d \in Holders
    PROVE  Entries(d) \subseteq Sessions
BY DEF Entries, TypeOK

\* A new context starts with an empty dictionary of its own.
LEMMA NewContextFresh ==
    ASSUME NEW r \in Requests, NewContext(r)
    PROVE  \E d \in Holders : /\ Fresh(d) /\ ctx' = [ctx EXCEPT ![r] = d]
                              /\ dict' = [dict EXCEPT ![d] = Empty]
BY DEF NewContext

\* openConnectionPool takes a name.
LEMMA OpenApart ==
    ASSUME Apart, ~EarlyOps, NEW n \in Names,
           OpenConnectionPool(n)
    PROVE  Apart'
<1>1. TypeOK'
  BY DEF Apart, TypeOK, OpenConnectionPool, leaseVars, requestVars, history
<1>2. DictPlaced'
  BY DEF Apart, TypeOK, ContextsApart, DictPlaced, Down, OpenConnectionPool, leaseVars, requestVars, history
<1>3. ClosingPlaced'
  BY DEF Apart, TypeOK, ClosingPlaced, Down, OpenConnectionPool, leaseVars, requestVars, history
<1>4. Shutdown'
  BY DEF Apart, TypeOK, Shutdown, Down, OpenConnectionPool, leaseVars, requestVars, history
<1>5. ContextsApart' /\ OpsInContext' /\ ClosingApart' /\ Authored' /\ Isolation'
  BY SMTT(30) DEF Apart, ContextsApart, OpsInContext, ClosingApart, Authored, Isolation, IdleOp, Entries, OpenConnectionPool, leaseVars, requestVars, history
<1>. QED  BY <1>1, <1>2, <1>3, <1>4, <1>5 DEF Apart

\* The pool of a name is open, or is not.
LEMMA OpenedApart ==
    ASSUME Apart, ~EarlyOps, NEW n \in Names,
           PoolOpened(n)
    PROVE  Apart'
<1>u. UNCHANGED <<leaseVars, ctx, dict, requestVars, history>>
  BY DEF PoolOpened
<1>1. TypeOK'
  BY DEF Apart, TypeOK, PoolOpened, leaseVars, requestVars, history
<1>2. DictPlaced'
  BY DEF Apart, TypeOK, ContextsApart, DictPlaced, Down, PoolOpened, leaseVars, requestVars, history
<1>3. ClosingPlaced'
  <2>1. \A t \in Sessions : Down(t)' <=> Down(t)
    BY ManagerAssumption DEF Apart, TypeOK, Down, PoolOpened, ManagerAssumption
  <2>. QED  BY <2>1 DEF Apart, TypeOK, ClosingPlaced, PoolOpened, leaseVars, requestVars
<1>4. Shutdown'
  <2>1. \A t \in Sessions : Down(t)' <=> Down(t)
    BY ManagerAssumption DEF Apart, TypeOK, Down, PoolOpened, ManagerAssumption
  <2>. QED  BY <2>1 DEF Apart, TypeOK, Shutdown, PoolOpened, leaseVars, requestVars
<1>5. ContextsApart' /\ OpsInContext' /\ ClosingApart' /\ Authored' /\ Isolation'
  BY <1>u DEF Apart, ContextsApart, OpsInContext, ClosingApart, Authored, Isolation, IdleOp, Entries, leaseVars, requestVars, history
<1>. QED  BY <1>1, <1>2, <1>3, <1>4, <1>5 DEF Apart

\* Shutdown takes every session away and no pool opens again.
LEMMA CloseAllApart ==
    ASSUME Apart, ~EarlyOps,
           CloseAllConnectionPools
    PROVE  Apart'
<1>1. TypeOK'
  BY DEF Apart, TypeOK, ManagerAssumption, CloseAllConnectionPools, Return, requestVars, history
<1>2. DictPlaced'
  BY DEF Apart, TypeOK, ContextsApart, DictPlaced, Down, CloseAllConnectionPools, Return, requestVars, history
<1>3. ClosingPlaced'
  <2>1. \A t \in Sessions : Down(t)'
    BY ManagerAssumption DEF ManagerAssumption, Down, CloseAllConnectionPools
  <2>. QED  BY <2>1 DEF Apart, TypeOK, ClosingPlaced, CloseAllConnectionPools, requestVars
<1>4. Shutdown'
  BY DEF Apart, TypeOK, Shutdown, Down, CloseAllConnectionPools, Return, requestVars, history
<1>5. Authored'
  BY DEF Apart, TypeOK, Authored, CloseAllConnectionPools, Return, requestVars, history
<1>6. ContextsApart' /\ OpsInContext' /\ ClosingApart' /\ Isolation'
  BY SMTT(30) DEF Apart, ContextsApart, OpsInContext, ClosingApart, Isolation, IdleOp, Entries, CloseAllConnectionPools, Return, requestVars, history
<1>. QED  BY <1>1, <1>2, <1>3, <1>4, <1>5, <1>6 DEF Apart

\* A pool cleans a session nobody holds.
LEMMA CleansApart ==
    ASSUME Apart, ~EarlyOps, NEW s \in Sessions,
           PoolCleans(s)
    PROVE  Apart'
<1>1. TypeOK'
  BY DEF Apart, TypeOK, PoolCleans, managerVars, requestVars, history
<1>2. Authored'
  BY DEF Apart, TypeOK, Authored, PoolCleans, managerVars, requestVars, history
<1>3. ContextsApart' /\ OpsInContext' /\ DictPlaced' /\ ClosingPlaced' /\ ClosingApart' /\ Shutdown' /\ Isolation'
  BY DEF Apart, ContextsApart, OpsInContext, DictPlaced, ClosingPlaced, ClosingApart, Shutdown, Isolation, IdleOp, Down, Entries, PoolCleans, managerVars, requestVars, history
<1>. QED  BY <1>1, <1>2, <1>3 DEF Apart

\* The interceptor gives the request a dictionary of its own.
LEMMA InterceptApart ==
    ASSUME Apart, ~EarlyOps, NEW r \in Requests,
           Intercept(r)
    PROVE  Apart'
<1>d. PICK d \in Holders : /\ Fresh(d) /\ ctx' = [ctx EXCEPT ![r] = d]
                           /\ dict' = [dict EXCEPT ![d] = Empty]
  BY NewContextFresh DEF Intercept
<1>1. TypeOK'
  <2>1. Empty \in [Names -> Sessions \cup {None}]
    BY DEF Empty
  <2>2. ctx' \in [Requests -> Holders] /\ dict' \in [Holders -> [Names -> Sessions \cup {None}]]
    BY <1>d, <2>1 DEF Apart, TypeOK
  <2>3. phase' \in [Requests -> {"before", "handling", "committing", "done"}]
    BY DEF Apart, TypeOK, Intercept
  <2>4. holder' \in [Sessions -> Holders \cup {None}] /\ unclean' \subseteq Sessions
    BY DEF Apart, TypeOK, Intercept, leaseVars
  <2>. QED  BY <2>2, <2>3, <2>4 DEF Apart, TypeOK, Intercept, history
<1>2. ContextsApart'
  BY <1>d DEF Apart, TypeOK, ContextsApart, Fresh, Intercept, Idle, leaseVars, history
<1>3. OpsInContext'
  BY <1>d DEF Apart, TypeOK, ContextsApart, OpsInContext, IdleOp, Idle, Intercept, Idle, leaseVars, history
<1>4. DictPlaced'
  BY <1>d DEF Apart, TypeOK, ContextsApart, DictPlaced, Down, Fresh, Empty, Intercept, Idle, leaseVars, history
<1>5. ClosingPlaced'
  BY <1>d DEF Apart, TypeOK, ClosingPlaced, Down, Fresh, Held, Intercept, Idle, leaseVars, history
<1>6. Isolation'
  BY <1>d DEF Apart, TypeOK, ContextsApart, Isolation, Fresh, Empty, Entries, Intercept, Idle, leaseVars, history
<1>7. ClosingApart' /\ Shutdown' /\ Authored'
  BY DEF Apart, ClosingApart, Shutdown, Authored, Down, Intercept, Idle, leaseVars, history
<1>. QED  BY <1>1, <1>2, <1>3, <1>4, <1>5, <1>6, <1>7 DEF Apart

\* An operation takes the connection it finds, or starts to wait.
LEMMA GetConnectionApart ==
    ASSUME Apart, ~EarlyOps, NEW r \in Requests, NEW o \in Ops, NEW n \in Names,
           GetConnection(r, o, n)
    PROVE  Apart'
<1>1. TypeOK'
  <2>1. ctx[r] \in Holders /\ dict[ctx[r]][n] \in Sessions \cup {None}
    BY DEF Apart, TypeOK
  <2>2. PICK new \in OpState : op' = [op EXCEPT ![r][o] = new]
    BY <2>1 DEF GetConnection, OpState
  <2>. QED  BY <2>2 DEF Apart, TypeOK, GetConnection, leaseVars, managerVars, history
<1>2. OpsInContext'
  <2>1. ctx[r] \in Holders /\ dict[ctx[r]][n] \in Sessions \cup {None}
    BY DEF Apart, TypeOK
  <2>2. PICK new \in OpState : /\ op' = [op EXCEPT ![r][o] = new] /\ new.in = ctx[r]
                               /\ new.pc = "working" => new.on \in Sessions
    <3>w. DEFINE w == [pc |-> "working", name |-> n, in |-> ctx[r], on |-> dict[ctx[r]][n]]
                 v == [pc |-> "waiting", name |-> n, in |-> ctx[r], on |-> None]
    <3>1. CASE dict[ctx[r]][n] # None /\ op' = [op EXCEPT ![r][o] = w]
      <4>1. w \in OpState /\ w.in = ctx[r] /\ w.on \in Sessions
        BY <2>1, <3>1 DEF OpState
      <4>. QED  BY <3>1, <4>1
    <3>2. CASE op' = [op EXCEPT ![r][o] = v]
      <4>1. v \in OpState /\ v.in = ctx[r] /\ v.pc # "working"
        BY <2>1 DEF OpState
      <4>. QED  BY <3>2, <4>1
    <3>. QED  BY <3>1, <3>2 DEF GetConnection
  <2>3. phase[r] = "handling" /\ phase' = phase /\ ctx' = ctx
    BY DEF GetConnection, managerVars
  <2>4. op \in [Requests -> [Ops -> OpState]]
    BY DEF Apart, TypeOK
  <2>5. op'[r][o] = new /\ \A q \in Requests, p \in Ops : q # r \/ p # o => op'[q][p] = op[q][p]
    <3>1. op' = [op EXCEPT ![r][o] = new]
      BY <2>2
    <3>. QED  BY <3>1, <2>4
  <2>6. \A q \in Requests, p \in Ops : q # r \/ p # o => (op'[q][p] # IdleOp =>
           /\ phase'[q] = "handling" /\ op'[q][p].in = ctx'[q]
           /\ op'[q][p].pc = "working" => op'[q][p].on \in Sessions)
    BY <2>3, <2>5 DEF Apart, OpsInContext, IdleOp
  <2>. QED  BY <2>2, <2>3, <2>5, <2>6 DEF OpsInContext
<1>3. ContextsApart' /\ DictPlaced' /\ ClosingPlaced' /\ ClosingApart' /\ Shutdown' /\ Authored' /\ Isolation'
  BY DEF Apart, ContextsApart, DictPlaced, ClosingPlaced, ClosingApart, Shutdown, Authored, Isolation, Down, Entries, GetConnection, leaseVars, managerVars, history
<1>. QED  BY <1>1, <1>2, <1>3 DEF Apart

\* A session nobody holds comes into the dictionary of the context.
LEMMA GotApart ==
    ASSUME Apart, ~EarlyOps, NEW r \in Requests, NEW o \in Ops, NEW s \in Sessions,
           Got(r, o, s)
    PROVE  Apart'
<1>1. TypeOK'
  <2>1. op[r][o] \in OpState /\ op[r][o].in = ctx[r] /\ ctx[r] \in Holders /\ op[r][o].name \in Names
    BY ManagerAssumption DEF Apart, TypeOK, OpsInContext, IdleOp, Got, ManagerAssumption
  <2>2. [pc |-> "working", name |-> op[r][o].name, in |-> op[r][o].in, on |-> s] \in OpState
    BY <2>1 DEF OpState
  <2>4. op' \in [Requests -> [Ops -> OpState]]
    BY <2>2 DEF Apart, TypeOK, Got
  <2>5. /\ holder' \in [Sessions -> Holders \cup {None}]
        /\ dict' \in [Holders -> [Names -> Sessions \cup {None}]]
    BY <2>1 DEF Apart, TypeOK, Got, Lease
  <2>6. got' \subseteq Requests \X Sessions
    BY DEF Apart, TypeOK, Got
  <2>. QED  BY <2>4, <2>5, <2>6 DEF Apart, TypeOK, Got, Lease
<1>2. OpsInContext'
  BY DEF Apart, TypeOK, ContextsApart, OpsInContext, IdleOp, Got, Lease
<1>3. DictPlaced'
  <2>1. /\ op[r][o].in = ctx[r] /\ phase[r] = "handling" /\ op[r][o].name = PoolOf[s]
        /\ ctx[r] \in Holders /\ PoolOf[s] \in Names
    BY ManagerAssumption DEF Apart, OpsInContext, IdleOp, Got, TypeOK, ManagerAssumption
  <2>2. holder' = [holder EXCEPT ![s] = ctx[r]] /\ pools' = pools /\ phase' = phase /\ ctx' = ctx
        /\ holder[s] = None
    BY <2>1 DEF Got, Lease
  <2>3. dict'[ctx[r]] = [dict[ctx[r]] EXCEPT ![PoolOf[s]] = s]
    BY <2>1 DEF Apart, TypeOK, Got
  <2>4. \A q \in Requests \ {r} : dict'[ctx[q]] = dict[ctx[q]]
    BY <2>1 DEF Apart, TypeOK, ContextsApart, Got
  <2>5. \A q \in Requests, n \in Names :
           \/ q = r /\ n = PoolOf[s] /\ dict'[ctx[q]][n] = s
           \/ dict'[ctx[q]][n] = dict[ctx[q]][n]
    BY <2>1, <2>3, <2>4 DEF Apart, TypeOK
  <2>6. \A q \in Requests, n \in Names : dict[ctx[q]][n] \in Sessions \cup {None}
    BY DEF Apart, TypeOK
  <2>7. holder'[s] = ctx[r] /\ \A t \in Sessions \ {s} : holder'[t] = holder[t]
    BY <2>2 DEF Apart, TypeOK
  <2>8. \A q \in Requests : ctx[q] \in Holders /\ ctx[q] # None
    BY LeaseAssumption DEF Apart, TypeOK
  <2>. QED  BY <2>1, <2>2, <2>5, <2>6, <2>7, <2>8 DEF Apart, DictPlaced, Down
<1>4. ClosingPlaced'
  BY DEF Apart, TypeOK, ClosingPlaced, Down, OpsInContext, IdleOp, Got, Lease
<1>5. Shutdown'
  BY DEF Apart, TypeOK, Shutdown, Down, Got, Lease
<1>6. Isolation'
  <2>1. /\ op[r][o].in = ctx[r] /\ ctx[r] # Default /\ PoolOf[s] \in Names
        /\ ctx[r] \in Holders /\ op[r][o].name = PoolOf[s]
    BY ManagerAssumption DEF Apart, OpsInContext, ContextsApart, IdleOp, Got, TypeOK, ManagerAssumption
  <2>2. holder[s] = None /\ ~Down(s)
    BY DEF Got, Lease, Down
  <2>3. \A q \in Requests : s \notin Entries(ctx[q]) \cup closing[q].all
    BY <2>2, LeaseAssumption, EntriesOf DEF Apart, DictPlaced, ClosingPlaced, TypeOK
  <2>4. \A q \in Requests \ {r} : dict'[ctx[q]] = dict[ctx[q]]
    BY <2>1 DEF Apart, TypeOK, ContextsApart, Got
  <2>5. \A q \in Requests \ {r} : Entries(ctx[q])' = Entries(ctx[q])
    BY <2>4 DEF Entries, Got
  <2>6. Entries(ctx[r])' \subseteq Entries(ctx[r]) \cup {s}
    BY <2>1 DEF Entries, Got, Apart, TypeOK
  <2>7. closing' = closing /\ ctx' = ctx
    BY DEF Got
  <2>8. \A q \in Requests : Entries(ctx[q])' \subseteq Entries(ctx[q]) \cup (IF q = r THEN {s} ELSE {})
    BY <2>5, <2>6
  <2>. QED  BY <2>3, <2>7, <2>8 DEF Apart, Isolation
<1>7. ContextsApart' /\ ClosingApart' /\ Authored'
  BY DEF Apart, ContextsApart, ClosingApart, Authored, Got, Lease
<1>. QED  BY <1>1, <1>2, <1>3, <1>4, <1>5, <1>6, <1>7 DEF Apart

\* A transaction begins on a session of the context.
LEMMA BeginApart ==
    ASSUME Apart, ~EarlyOps, NEW r \in Requests, NEW o \in Ops,
           BeginTransaction(r, o)
    PROVE  Apart'
<1>1. TypeOK'
  <2>1. op[r][o].on \in Sessions
    BY DEF Apart, OpsInContext, IdleOp, BeginTransaction
  <2>2. PoolOf[op[r][o].on] \in Names
    BY <2>1, ManagerAssumption DEF ManagerAssumption
  <2>. QED  BY <2>1, <2>2 DEF Apart, TypeOK, BeginTransaction, Work, managerVars, requestVars
<1>2. Authored'
  BY DEF Apart, TypeOK, Authored, OpsInContext, IdleOp, BeginTransaction, Work, managerVars, requestVars
<1>3. ContextsApart' /\ OpsInContext' /\ DictPlaced' /\ ClosingPlaced' /\ ClosingApart' /\ Shutdown' /\ Isolation'
  BY DEF Apart, ContextsApart, OpsInContext, DictPlaced, ClosingPlaced, ClosingApart, Shutdown, Isolation, IdleOp, Down, Entries, BeginTransaction, Work, managerVars, requestVars
<1>. QED  BY <1>1, <1>2, <1>3 DEF Apart

\* An operation ends.
LEMMA OperationEndsApart ==
    ASSUME Apart, ~EarlyOps, NEW r \in Requests, NEW o \in Ops,
           OperationEnds(r, o)
    PROVE  Apart'
<1>1. TypeOK'
  BY DEF Apart, TypeOK, OpState, IdleOp, OperationEnds, leaseVars, managerVars, history
<1>2. OpsInContext'
  BY DEF Apart, TypeOK, ContextsApart, OpsInContext, IdleOp, OperationEnds, leaseVars, managerVars, history
<1>3. ContextsApart' /\ DictPlaced' /\ ClosingPlaced' /\ ClosingApart' /\ Shutdown' /\ Authored' /\ Isolation'
  BY DEF Apart, ContextsApart, DictPlaced, ClosingPlaced, ClosingApart, Shutdown, Authored, Isolation, Down, Entries, OperationEnds, leaseVars, managerVars, history
<1>. QED  BY <1>1, <1>2, <1>3 DEF Apart

\* After an error the sessions of the context go back.
LEMMA FailApart ==
    ASSUME Apart, ~EarlyOps, NEW r \in Requests,
           Fail(r)
    PROVE  Apart'
<1>d. PICK d \in Holders : /\ Fresh(d) /\ ctx' = [ctx EXCEPT ![r] = d]
                           /\ dict' = [dict EXCEPT ![d] = Empty]
  BY NewContextFresh DEF Fail
<1>1. TypeOK'
  <2>1. Empty \in [Names -> Sessions \cup {None}]
    BY DEF Empty
  <2>2. ctx' \in [Requests -> Holders] /\ dict' \in [Holders -> [Names -> Sessions \cup {None}]]
    BY <1>d, <2>1 DEF Apart, TypeOK
  <2>3. phase' \in [Requests -> {"before", "handling", "committing", "done"}]
    BY DEF Apart, TypeOK, Fail
  <2>4. holder' \in [Sessions -> Holders \cup {None}] /\ unclean' \subseteq Sessions
    BY DEF Apart, TypeOK, Fail, leaseVars, Return
  <2>. QED  BY <2>2, <2>3, <2>4 DEF Apart, TypeOK, Fail, history
<1>2. ContextsApart'
  BY <1>d DEF Apart, TypeOK, ContextsApart, Fresh, Fail, Return, history
<1>3. OpsInContext'
  BY <1>d DEF Apart, TypeOK, ContextsApart, OpsInContext, IdleOp, Idle, Fail, Return, history
<1>4. DictPlaced'
  BY <1>d DEF Apart, TypeOK, ContextsApart, DictPlaced, Down, Fresh, Empty, Isolation, Entries, Fail, Return, history
<1>5. ClosingPlaced'
  BY <1>d DEF Apart, TypeOK, ClosingPlaced, Down, Fresh, Held, Isolation, Fail, Return, history
<1>6. Shutdown'
  BY DEF Apart, TypeOK, Shutdown, Down, Fail, Return, history
<1>7. Isolation'
  BY <1>d DEF Apart, TypeOK, ContextsApart, Isolation, Fresh, Empty, Entries, Fail, Return, history
<1>8. ClosingApart' /\ Authored'
  BY DEF Apart, ClosingApart, Authored, Fail, Return, history
<1>. QED  BY <1>1, <1>2, <1>3, <1>4, <1>5, <1>6, <1>7, <1>8 DEF Apart

\* After a success closeConnectionContext takes them over.
LEMMA SucceedApart ==
    ASSUME Apart, ~EarlyOps, NEW r \in Requests,
           Succeed(r)
    PROVE  Apart'
<1>d. PICK d \in Holders : /\ Fresh(d) /\ ctx' = [ctx EXCEPT ![r] = d]
                           /\ dict' = [dict EXCEPT ![d] = Empty]
  BY NewContextFresh DEF Succeed
<1>1. TypeOK'
  <2>1. Empty \in [Names -> Sessions \cup {None}]
    BY DEF Empty
  <2>2. ctx' \in [Requests -> Holders] /\ dict' \in [Holders -> [Names -> Sessions \cup {None}]]
    BY <1>d, <2>1 DEF Apart, TypeOK
  <2>3. phase' \in [Requests -> {"before", "handling", "committing", "done"}]
    BY DEF Apart, TypeOK, Succeed
  <2>4. holder' \in [Sessions -> Holders \cup {None}] /\ unclean' \subseteq Sessions
    BY DEF Apart, TypeOK, Succeed, leaseVars
  <2>5. Entries(ctx[r]) \subseteq Sessions
    BY EntriesAreSessions DEF Apart, TypeOK
  <2>6. closing' \in [Requests -> [all : SUBSET Sessions, left : SUBSET Sessions]]
    BY <2>5 DEF Apart, TypeOK, Succeed
  <2>. QED  BY <2>2, <2>3, <2>4, <2>6 DEF Apart, TypeOK, Succeed, history
<1>2. ContextsApart'
  BY <1>d DEF Apart, TypeOK, ContextsApart, Fresh, Succeed, leaseVars, history
<1>3. OpsInContext'
  BY <1>d DEF Apart, TypeOK, ContextsApart, OpsInContext, IdleOp, Idle, Succeed, leaseVars, history
<1>4. DictPlaced'
  BY <1>d DEF Apart, TypeOK, ContextsApart, DictPlaced, Down, Fresh, Empty, Succeed, leaseVars, history
<1>5. ClosingPlaced'
  <2>1. closing' = [closing EXCEPT ![r] = [all |-> Entries(ctx[r]), left |-> Entries(ctx[r])]]
    BY DEF Succeed
  <2>2. \A t \in Entries(ctx[r]) : t \in Sessions /\ (holder[t] = ctx[r] \/ Down(t))
    BY EntriesOf, EntriesAreSessions DEF Apart, TypeOK, DictPlaced
  <2>3. ctx[r] # None /\ ctx[r] # d /\ \A q \in Requests \ {r} : ctx[q] # ctx[r]
    BY <1>d, LeaseAssumption DEF Apart, TypeOK, ContextsApart, Fresh, Succeed
  <2>4. \A t \in Entries(ctx[r]) : Down(t)' \/ (holder'[t] # None /\ \A q \in Requests : ctx'[q] # holder'[t])
    BY <1>d, <2>2, <2>3 DEF Apart, TypeOK, Down, Succeed, leaseVars
  <2>5. \A q \in Requests \ {r} : \A t \in closing[q].all :
           Down(t)' \/ (holder'[t] # None /\ \A p \in Requests : ctx'[p] # holder'[t])
    BY <1>d DEF Apart, TypeOK, ClosingPlaced, Down, Fresh, Held, Succeed, leaseVars
  <2>. QED  BY <2>1, <2>4, <2>5 DEF Apart, TypeOK, ClosingPlaced, Succeed
<1>6. ClosingApart'
  BY DEF Apart, TypeOK, ClosingApart, Isolation, Succeed, leaseVars, history
<1>7. Isolation'
  BY <1>d DEF Apart, TypeOK, ContextsApart, Isolation, Fresh, Empty, Entries, ClosingApart, Succeed, leaseVars, history
<1>8. Shutdown' /\ Authored'
  BY DEF Apart, Shutdown, Authored, Down, Succeed, leaseVars, history
<1>. QED  BY <1>1, <1>2, <1>3, <1>4, <1>5, <1>6, <1>7, <1>8 DEF Apart

\* What an answer changes of what has been taken over.
LEMMA AnsweredClosing ==
    ASSUME TypeOK, NEW r \in Requests, NEW s \in Sessions,
           EndTransactionAnswered(r, s)
    PROVE  /\ closing' \in [Requests -> [all : SUBSET Sessions, left : SUBSET Sessions]]
           /\ \A q \in Requests : closing'[q].all = closing[q].all
           /\ \A q \in Requests \ {r} : closing'[q] = closing[q]
           /\ closing'[r].left = closing[r].left \ {s}
<1>1. closing' = [closing EXCEPT ![r].left = @ \ {s}]
  BY DEF EndTransactionAnswered
<1>2. closing \in [Requests -> [all : SUBSET Sessions, left : SUBSET Sessions]]
  BY DEF TypeOK
<1>. QED  BY <1>1, <1>2

\* A COMMIT is answered.
LEMMA AnsweredApart ==
    ASSUME Apart, ~EarlyOps, NEW r \in Requests, NEW s \in Sessions,
           EndTransactionAnswered(r, s)
    PROVE  Apart'
<1>c. /\ closing' \in [Requests -> [all : SUBSET Sessions, left : SUBSET Sessions]]
      /\ \A q \in Requests : closing'[q].all = closing[q].all
      /\ \A q \in Requests \ {r} : closing'[q] = closing[q]
      /\ closing'[r].left = closing[r].left \ {s}
  BY AnsweredClosing DEF Apart
<1>u. UNCHANGED <<managerVars, phase, op, outcome, author, got>>
  BY DEF EndTransactionAnswered
<1>h. holder' = holder /\ unclean' \subseteq unclean
  BY DEF EndTransactionAnswered, Work, leaseVars
<1>1. TypeOK'
  <2>1. author[s] \in Requests \/ s \notin unclean
    BY DEF Apart, Authored
  <2>2. PoolOf[s] \in Names
    BY ManagerAssumption DEF ManagerAssumption
  <2>3. log' \subseteq Requests \X Names \X {"begun", "committed", "refused"}
    BY <2>1, <2>2 DEF Apart, TypeOK, EndTransactionAnswered
  <2>. QED  BY <1>c, <1>u, <1>h, <2>3 DEF Apart, TypeOK, managerVars
<1>2. ClosingPlaced'
  BY <1>c, <1>u, <1>h DEF Apart, ClosingPlaced, Down, managerVars
<1>3. ClosingApart'
  BY <1>c DEF Apart, ClosingApart
<1>4. Authored'
  BY <1>u, <1>h DEF Apart, Authored
<1>5. Isolation'
  BY <1>c, <1>u DEF Apart, Isolation, Entries, managerVars
<1>6. ContextsApart' /\ OpsInContext' /\ DictPlaced' /\ Shutdown'
  BY <1>u, <1>h DEF Apart, ContextsApart, OpsInContext, DictPlaced, Shutdown, IdleOp, Down, managerVars
<1>. QED  BY <1>1, <1>2, <1>3, <1>4, <1>5, <1>6 DEF Apart

\* The sessions that have been taken over go back.
LEMMA CloseConnectionsApart ==
    ASSUME Apart, ~EarlyOps, NEW r \in Requests,
           CloseConnections(r)
    PROVE  Apart'
<1>1. TypeOK'
  BY DEF Apart, TypeOK, CloseConnections, Return, managerVars, history
<1>2. ContextsApart'
  BY DEF Apart, TypeOK, ContextsApart, CloseConnections, Return, managerVars, history
<1>3. OpsInContext'
  BY DEF Apart, TypeOK, ContextsApart, OpsInContext, IdleOp, CloseConnections, Return, managerVars, history
<1>4. DictPlaced'
  BY DEF Apart, TypeOK, ContextsApart, DictPlaced, Down, Isolation, Entries, CloseConnections, Return, managerVars, history
<1>5. ClosingPlaced'
  BY DEF Apart, TypeOK, ClosingPlaced, Down, ClosingApart, CloseConnections, Return, managerVars, history
<1>6. ClosingApart'
  BY DEF Apart, TypeOK, ClosingApart, CloseConnections, Return, managerVars, history
<1>7. Shutdown'
  BY DEF Apart, TypeOK, Shutdown, Down, CloseConnections, Return, managerVars, history
<1>8. Isolation'
  <2>1. closing' = [closing EXCEPT ![r] = [all |-> {}, left |-> {}]]
    BY DEF CloseConnections
  <2>. QED  BY <2>1 DEF Apart, TypeOK, Isolation, Entries, CloseConnections, managerVars
<1>9. Authored'
  BY DEF Apart, Authored, CloseConnections, Return, managerVars, history
<1>. QED  BY <1>1, <1>2, <1>3, <1>4, <1>5, <1>6, <1>7, <1>8, <1>9 DEF Apart

-----------------------------------------------------------------------------

\* A step of a request keeps the invariant.
LEMMA RequestStepApart ==
    ASSUME Apart, ~EarlyOps, NEW r \in Requests, RequestStep(r)
    PROVE  Apart'
BY InterceptApart, FailApart, SucceedApart, CloseConnectionsApart, OperationEndsApart,
   BeginApart, GetConnectionApart, GotApart, AnsweredApart DEF RequestStep

\* A stuttering step keeps the invariant.
LEMMA StutterApart ==
    ASSUME Apart, UNCHANGED vars
    PROVE  Apart'
<1>1. UNCHANGED <<holder, unclean, pools, ctx, dict, phase, op, closing, outcome, author, log, got>>
  BY DEF vars, leaseVars, managerVars, requestVars, history
<1>2. TypeOK'
  BY <1>1 DEF Apart, TypeOK
<1>3. ContextsApart' /\ OpsInContext' /\ DictPlaced' /\ ClosingPlaced'
  BY <1>1 DEF Apart, ContextsApart, OpsInContext, DictPlaced, ClosingPlaced, IdleOp, Down
<1>4. ClosingApart' /\ Shutdown' /\ Authored' /\ Isolation'
  BY <1>1 DEF Apart, ClosingApart, Shutdown, Authored, Isolation, Down, Entries
<1>. QED  BY <1>2, <1>3, <1>4 DEF Apart

\* The invariant holds at the start.
LEMMA InitApart ==
    ASSUME Init
    PROVE  Apart
<1>1. TypeOK
  BY ManagerAssumption DEF Init, LeaseInit, TypeOK, OpState, IdleOp, Empty, ManagerAssumption
<1>2. \A d \in Holders, n \in Names : dict[d][n] = None
  BY DEF Init, Empty
<1>3. ContextsApart /\ OpsInContext /\ ClosingPlaced /\ ClosingApart
  BY DEF Init, ContextsApart, OpsInContext, ClosingPlaced, ClosingApart
<1>4. DictPlaced /\ Isolation
  BY <1>1, <1>2 DEF TypeOK, DictPlaced, Isolation, Entries
<1>5. Shutdown /\ Authored
  BY DEF Init, LeaseInit, Shutdown, Authored
<1>. QED  BY <1>1, <1>3, <1>4, <1>5 DEF Apart

\* Every step keeps the invariant.
LEMMA NextApart ==
    ASSUME Apart, ~EarlyOps, [Next]_vars
    PROVE  Apart'
BY RequestStepApart, OpenApart, OpenedApart, CleansApart, CloseAllApart, StutterApart DEF Next

\* As long as operations run in a context, what has been said holds always.
LEMMA AlwaysApart ==
    ASSUME ~EarlyOps
    PROVE  Spec => []Apart
<1>1. Init => Apart
  BY InitApart
<1>2. Apart /\ [Next]_vars => Apart'
  BY NextApart
<1>. QED  BY <1>1, <1>2, PTL DEF Spec






-----------------------------------------------------------------------------
\* Operations one at a time

\* a handler awaits an operation before it starts the next one
OneAtATime == \A o, p \in Ops : o = p

SlotFree ==
    \A r \in Requests, o \in Ops :
        op[r][o].pc = "waiting" =>
            op[r][o].name \in Names /\ dict[ctx[r]][op[r][o].name] = None

GotIsEntry ==
    \A r \in Requests, s \in Sessions : <<r, s>> \in got =>
        phase[r] # "before" /\ (phase[r] = "handling" => dict[ctx[r]][PoolOf[s]] = s)

AuthorOf ==
    \A r \in Requests : \A s \in Entries(ctx[r]) \cup closing[r].all :
        s \in unclean => author[s] = r

Committable(n, S) == \E s \in S : s \in unclean /\ PoolOf[s] = n

OutcomeOfPhase ==
    \A r \in Requests :
        /\ outcome[r] = "none" <=> phase[r] \in {"before", "handling"}
        /\ phase[r] = "committing" => outcome[r] = "ok"

ToCommit(r, n) ==
    \/ phase[r] = "handling" /\ Committable(n, Entries(ctx[r]))
    \/ phase[r] = "committing" /\ Committable(n, closing[r].left)

Traced(r, n) ==
    /\ <<r, n, "committed">> \in log => outcome[r] = "ok"
    /\ <<r, n, "begun">> \in log =>
          /\ phase[r] # "before"
          /\ \/ pools[n] = "down" \/ outcome[r] = "error"
             \/ <<r, n, "committed">> \in log \/ <<r, n, "refused">> \in log
             \/ ToCommit(r, n)

TransactionsTraced == \A r \in Requests, n \in Names : Traced(r, n)

Kept ==
    /\ SlotFree /\ NoLeak /\ GotIsEntry /\ SameConnection
    /\ AuthorOf /\ OutcomeOfPhase /\ TransactionsTraced

\* A session of a context is held for that context, or its pool is closed.
LEMMA EntryHeld ==
    ASSUME Apart, NEW r \in Requests, NEW s \in Entries(ctx[r])
    PROVE  /\ s \in Sessions /\ phase[r] = "handling"
           /\ holder[s] = ctx[r] \/ (Down(s) /\ holder[s] = None)
<1>1. s \in Sessions
  BY EntriesAreSessions DEF Apart, TypeOK
<1>. QED  BY <1>1, EntriesOf DEF Apart, DictPlaced, Shutdown

\* The context of a request that is being handled is its own.
LEMMA OwnDictionary ==
    ASSUME Apart, NEW r \in Requests, phase[r] = "handling"
    PROVE  /\ ctx[r] \in Holders /\ ctx[r] # Default /\ ctx[r] # None
           /\ \A q \in Requests \ {r} : ctx[q] # ctx[r]
BY LeaseAssumption DEF Apart, TypeOK, ContextsApart

\* What a new context changes: the entries of the others stay, its own are none.
LEMMA NewContextEntries ==
    ASSUME Apart, NEW r \in Requests, NEW d \in Holders, Fresh(d),
           ctx' = [ctx EXCEPT ![r] = d], dict' = [dict EXCEPT ![d] = Empty]
    PROVE  /\ ctx'[r] = d /\ \A n \in Names : dict'[d][n] = None
           /\ Entries(ctx[r])' = {}
           /\ \A q \in Requests \ {r} : /\ ctx'[q] = ctx[q] /\ dict'[ctx[q]] = dict[ctx[q]]
                                        /\ Entries(ctx[q])' = Entries(ctx[q])
           /\ dict'[Default] = dict[Default] /\ Default \in Holders
<1>1. ctx'[r] = d /\ dict'[d] = Empty
  BY DEF Apart, TypeOK
<1>2. \A q \in Requests \ {r} : ctx'[q] = ctx[q] /\ dict'[ctx[q]] = dict[ctx[q]]
  BY DEF Apart, TypeOK, Fresh
<1>3. dict'[Default] = dict[Default] /\ Default \in Holders
  BY ManagerAssumption DEF Apart, TypeOK, Fresh, ManagerAssumption
<1>. QED  BY <1>1, <1>2, <1>3 DEF Entries, Empty

\* A request that is being handled loses its dictionary, whose sessions have a
\* new place: nothing is leaked.
LEMMA ContextLeft ==
    ASSUME Apart, NoLeak, NEW r \in Requests, phase[r] = "handling",
           NEW d \in Holders, Fresh(d),
           ctx' = [ctx EXCEPT ![r] = d], dict' = [dict EXCEPT ![d] = Empty],
           \A q \in Requests \ {r} : closing'[q].all = closing[q].all,
           \A s \in Sessions : holder'[s] \in {holder[s], None},
           \A s \in Entries(ctx[r]) : holder'[s] = None \/ s \in closing'[r].all
    PROVE  NoLeak'
<1>1. SUFFICES ASSUME NEW s \in Sessions, holder'[s] # None
               PROVE  \/ holder'[s] \in Live' /\ s \in Entries(holder[s])'
                      \/ \E q \in Requests : s \in closing'[q].all
  BY DEF NoLeak
<1>2. holder'[s] = holder[s] /\ holder[s] # None
  BY <1>1
<1>3. CASE \E q \in Requests : s \in closing[q].all
  <2>1. closing[r].all = {}
    BY DEF Apart, ClosingPlaced
  <2>. QED  BY <1>3, <2>1
<1>4. CASE holder[s] \in Live /\ s \in Entries(holder[s])
  <2>1. CASE holder[s] = ctx[r]
    BY <1>1, <1>4, <2>1
  <2>2. CASE holder[s] # ctx[r]
    <3>1. holder[s] = Default \/ \E q \in Requests \ {r} : holder[s] = ctx[q]
      BY <1>4, <2>2 DEF Live
    <3>2. /\ dict'[Default] = dict[Default]
          /\ \A q \in Requests \ {r} : ctx'[q] = ctx[q] /\ dict'[ctx[q]] = dict[ctx[q]]
      BY NewContextEntries
    <3>3. dict'[holder[s]] = dict[holder[s]]
      BY <3>1, <3>2
    <3>4. holder[s] \in Live'
      BY <3>1, <3>2 DEF Live
    <3>. QED  BY <1>2, <1>4, <3>3, <3>4 DEF Entries
  <2>. QED  BY <2>1, <2>2
<1>. QED  BY <1>2, <1>3, <1>4 DEF NoLeak

\* An open pool of a name, or one that cannot be opened, changes nothing.
LEMMA OpenKept ==
    ASSUME Kept, NEW n \in Names, OpenConnectionPool(n) \/ PoolOpened(n), Apart
    PROVE  Kept'
<1>1. \A m \in Names : pools[m] = "down" => pools'[m] = "down"
  BY DEF OpenConnectionPool, PoolOpened, Apart, TypeOK
<1>2. UNCHANGED <<leaseVars, ctx, dict, requestVars, history>>
  BY DEF OpenConnectionPool, PoolOpened
<1>3. SlotFree' /\ NoLeak' /\ GotIsEntry' /\ SameConnection' /\ AuthorOf' /\ OutcomeOfPhase'
  BY <1>2 DEF Kept, SlotFree, NoLeak, GotIsEntry, SameConnection, AuthorOf, OutcomeOfPhase,
              Live, Entries, leaseVars, requestVars, history
<1>4. TransactionsTraced'
  <2>1. \A r \in Requests, m \in Names : ToCommit(r, m)' <=> ToCommit(r, m)
    BY <1>2 DEF ToCommit, Committable, Entries, leaseVars, requestVars
  <2>. QED  BY <1>1, <1>2, <2>1 DEF Kept, TransactionsTraced, Traced, requestVars, history
<1>. QED  BY <1>3, <1>4 DEF Kept

\* After the shutdown nothing is held.
LEMMA CloseAllKept ==
    ASSUME Kept, CloseAllConnectionPools
    PROVE  Kept'
<1>1. UNCHANGED <<ctx, dict, requestVars, history>>
  BY DEF CloseAllConnectionPools
<1>2. \A s \in Sessions : holder'[s] = None
  BY DEF CloseAllConnectionPools, Return
<1>3. unclean' = {} /\ \A n \in Names : pools'[n] = "down"
  BY DEF CloseAllConnectionPools
<1>4. SlotFree' /\ GotIsEntry' /\ SameConnection' /\ OutcomeOfPhase'
  BY <1>1 DEF Kept, SlotFree, GotIsEntry, SameConnection, OutcomeOfPhase, requestVars, history
<1>5. NoLeak' /\ AuthorOf'
  BY <1>2, <1>3 DEF NoLeak, AuthorOf
<1>6. TransactionsTraced'
  BY <1>1, <1>3 DEF Kept, TransactionsTraced, Traced, requestVars, history
<1>. QED  BY <1>4, <1>5, <1>6 DEF Kept

\* Cleaning a session nobody holds takes nothing from a request.
LEMMA CleansKept ==
    ASSUME Apart, Kept, NEW t \in Sessions, PoolCleans(t)
    PROVE  Kept'
<1>1. UNCHANGED <<holder, managerVars, requestVars, history>> /\ unclean' = unclean \ {t}
  BY DEF PoolCleans
<1>2. SlotFree' /\ NoLeak' /\ GotIsEntry' /\ SameConnection' /\ AuthorOf' /\ OutcomeOfPhase'
  BY <1>1 DEF Kept, SlotFree, NoLeak, GotIsEntry, SameConnection, AuthorOf, OutcomeOfPhase,
              Live, Entries, managerVars, requestVars, history
<1>3. \A r \in Requests : t \in Entries(ctx[r]) \cup closing[r].left => Down(t)
  <2>1. holder[t] = None
    BY DEF PoolCleans
  <2>2. \A r \in Requests : t \in closing[r].left => Down(t)
    BY <2>1 DEF Apart, ClosingPlaced
  <2>3. \A r \in Requests : t \in Entries(ctx[r]) => Down(t)
    BY <2>1, EntryHeld, OwnDictionary
  <2>. QED  BY <2>2, <2>3
<1>4. \A r \in Requests, n \in Names : ToCommit(r, n) => ToCommit(r, n)' \/ pools[n] = "down"
  BY <1>1, <1>3 DEF ToCommit, Committable, Down, Entries, managerVars, requestVars
<1>5. TransactionsTraced'
  BY <1>1, <1>4 DEF Kept, TransactionsTraced, Traced, managerVars, requestVars, history
<1>. QED  BY <1>2, <1>5 DEF Kept

\* A new context starts with nothing.
LEMMA InterceptKept ==
    ASSUME Apart, Kept, NEW r \in Requests, Intercept(r)
    PROVE  Kept'
<1>d. PICK d \in Holders : /\ Fresh(d) /\ ctx' = [ctx EXCEPT ![r] = d]
                           /\ dict' = [dict EXCEPT ![d] = Empty]
  BY NewContextFresh DEF Intercept
<1>u. UNCHANGED <<leaseVars, pools, op, closing, outcome, history>>
  BY DEF Intercept
<1>p. phase[r] = "before" /\ phase'[r] = "handling" /\ \A q \in Requests \ {r} : phase'[q] = phase[q]
  BY DEF Intercept, Apart, TypeOK
<1>e. /\ ctx'[r] = d /\ \A n \in Names : dict'[d][n] = None
      /\ Entries(ctx[r])' = {}
      /\ \A q \in Requests \ {r} : /\ ctx'[q] = ctx[q] /\ dict'[ctx[q]] = dict[ctx[q]]
                                   /\ Entries(ctx[q])' = Entries(ctx[q])
      /\ dict'[Default] = dict[Default] /\ Default \in Holders
  BY <1>d, NewContextEntries
<1>1. SlotFree'
  BY <1>u, <1>e DEF Kept, SlotFree
<1>2. NoLeak'
  <2>1. ctx[r] = Default
    BY <1>p DEF Apart, ContextsApart
  <2>2. \A x \in Live : x \in Live' /\ dict'[x] = dict[x]
    BY <2>1, <1>e DEF Live
  <2>. QED  BY <2>2, <1>u DEF Kept, NoLeak, Entries, leaseVars
<1>3. GotIsEntry' /\ SameConnection'
  BY <1>u, <1>e, <1>p DEF Kept, GotIsEntry, SameConnection, history
<1>4. AuthorOf'
  BY <1>u, <1>e DEF Kept, AuthorOf, leaseVars, history
<1>5. OutcomeOfPhase'
  BY <1>u, <1>p DEF Kept, OutcomeOfPhase
<1>6. TransactionsTraced'
  <2>1. \A q \in Requests \ {r}, n \in Names : ToCommit(q, n)' <=> ToCommit(q, n)
    BY <1>u, <1>e, <1>p DEF ToCommit, Committable, leaseVars
  <2>2. \A n \in Names : <<r, n, "begun">> \notin log
    BY <1>p DEF Kept, TransactionsTraced, Traced
  <2>. QED  BY <2>1, <2>2, <1>u, <1>p DEF Kept, TransactionsTraced, Traced, history
<1>. QED  BY <1>1, <1>2, <1>3, <1>4, <1>5, <1>6 DEF Kept

\* After an error nothing is held any more, and nothing is committed.
LEMMA FailKept ==
    ASSUME Apart, Kept, NEW r \in Requests, Fail(r)
    PROVE  Kept'
<1>d. PICK d \in Holders : /\ Fresh(d) /\ ctx' = [ctx EXCEPT ![r] = d]
                           /\ dict' = [dict EXCEPT ![d] = Empty]
  BY NewContextFresh DEF Fail
<1>u. UNCHANGED <<unclean, pools, op, closing, history>> /\ Idle(r)
  BY DEF Fail
<1>p. /\ phase[r] = "handling" /\ phase'[r] = "done" /\ outcome'[r] = "error"
      /\ \A q \in Requests \ {r} : phase'[q] = phase[q] /\ outcome'[q] = outcome[q]
  BY DEF Fail, Apart, TypeOK
<1>e. /\ ctx'[r] = d /\ \A n \in Names : dict'[d][n] = None
      /\ Entries(ctx[r])' = {}
      /\ \A q \in Requests \ {r} : /\ ctx'[q] = ctx[q] /\ dict'[ctx[q]] = dict[ctx[q]]
                                   /\ Entries(ctx[q])' = Entries(ctx[q])
  BY <1>d, NewContextEntries
<1>1. SlotFree'
  BY <1>u, <1>e DEF Kept, SlotFree
<1>2. NoLeak'
  <2>1. \A s \in Sessions : holder'[s] = IF s \in Entries(ctx[r]) THEN None ELSE holder[s]
    BY DEF Fail, Return
  <2>2. Entries(ctx[r]) \subseteq Sessions
    BY EntriesAreSessions DEF Apart, TypeOK
  <2>. QED  BY <1>d, <1>u, <1>p, <2>1, <2>2, ContextLeft DEF Kept
<1>3. GotIsEntry' /\ SameConnection'
  BY <1>u, <1>e, <1>p DEF Kept, GotIsEntry, SameConnection, history
<1>4. AuthorOf'
  BY <1>u, <1>e DEF Kept, AuthorOf, history
<1>5. OutcomeOfPhase'
  BY <1>p DEF Kept, OutcomeOfPhase
<1>6. TransactionsTraced'
  <2>1. \A n \in Names : <<r, n, "committed">> \notin log
    BY <1>p DEF Kept, TransactionsTraced, Traced, OutcomeOfPhase
  <2>2. \A q \in Requests \ {r}, n \in Names : ToCommit(q, n)' <=> ToCommit(q, n)
    BY <1>u, <1>e, <1>p DEF ToCommit, Committable
  <2>. QED  BY <2>1, <2>2, <1>u, <1>p DEF Kept, TransactionsTraced, Traced, history
<1>. QED  BY <1>1, <1>2, <1>3, <1>4, <1>5, <1>6 DEF Kept

\* After a success every session of the context is taken over, to be committed.
LEMMA SucceedKept ==
    ASSUME Apart, Kept, NEW r \in Requests, Succeed(r)
    PROVE  Kept'
<1>d. PICK d \in Holders : /\ Fresh(d) /\ ctx' = [ctx EXCEPT ![r] = d]
                           /\ dict' = [dict EXCEPT ![d] = Empty]
  BY NewContextFresh DEF Succeed
<1>u. UNCHANGED <<leaseVars, pools, op, history>> /\ Idle(r)
  BY DEF Succeed
<1>p. /\ phase[r] = "handling" /\ phase'[r] = "committing" /\ outcome'[r] = "ok"
      /\ \A q \in Requests \ {r} : phase'[q] = phase[q] /\ outcome'[q] = outcome[q]
  BY DEF Succeed, Apart, TypeOK
<1>c. /\ closing'[r].all = Entries(ctx[r]) /\ closing'[r].left = Entries(ctx[r])
      /\ \A q \in Requests \ {r} : closing'[q] = closing[q]
  BY DEF Succeed, Apart, TypeOK
<1>e. /\ ctx'[r] = d /\ \A n \in Names : dict'[d][n] = None
      /\ Entries(ctx[r])' = {}
      /\ \A q \in Requests \ {r} : /\ ctx'[q] = ctx[q] /\ dict'[ctx[q]] = dict[ctx[q]]
                                   /\ Entries(ctx[q])' = Entries(ctx[q])
  BY <1>d, NewContextEntries
<1>1. SlotFree'
  BY <1>u, <1>e DEF Kept, SlotFree
<1>2. NoLeak'
  BY <1>d, <1>u, <1>p, <1>c, ContextLeft DEF Kept, leaseVars
<1>3. GotIsEntry' /\ SameConnection'
  BY <1>u, <1>e, <1>p DEF Kept, GotIsEntry, SameConnection, history
<1>4. AuthorOf'
  BY <1>u, <1>e, <1>c DEF Kept, AuthorOf, leaseVars, history
<1>5. OutcomeOfPhase'
  BY <1>p DEF Kept, OutcomeOfPhase
<1>6. TransactionsTraced'
  <2>1. \A n \in Names : <<r, n, "committed">> \notin log /\ outcome[r] = "none"
    BY <1>p DEF Kept, TransactionsTraced, Traced, OutcomeOfPhase
  <2>2. \A q \in Requests \ {r}, n \in Names : ToCommit(q, n)' <=> ToCommit(q, n)
    BY <1>u, <1>e, <1>p, <1>c DEF ToCommit, Committable, leaseVars
  <2>3. \A n \in Names : ToCommit(r, n) => ToCommit(r, n)'
    BY <1>u, <1>p, <1>c DEF ToCommit, Committable, leaseVars
  <2>. QED  BY <2>1, <2>2, <2>3, <1>u, <1>p DEF Kept, TransactionsTraced, Traced, history
<1>. QED  BY <1>1, <1>2, <1>3, <1>4, <1>5, <1>6 DEF Kept

\* An operation that finds no connection is the only one to wait for it.
LEMMA GetConnectionKept ==
    ASSUME Apart, Kept, NEW r \in Requests, NEW o \in Ops, NEW n \in Names,
           GetConnection(r, o, n)
    PROVE  Kept'
<1>u. UNCHANGED <<leaseVars, managerVars, phase, closing, outcome, history>>
  BY DEF GetConnection
<1>1. SlotFree'
  <2>1. /\ \A q \in Requests, p \in Ops : q # r \/ p # o => op'[q][p] = op[q][p]
        /\ op'[r][o].pc = "waiting" => op'[r][o].name = n /\ dict[ctx[r]][n] = None
    <3>w. DEFINE w == [pc |-> "working", name |-> n, in |-> ctx[r], on |-> dict[ctx[r]][n]]
                 v == [pc |-> "waiting", name |-> n, in |-> ctx[r], on |-> None]
    <3>1. \A x : op' = [op EXCEPT ![r][o] = x] =>
             op'[r][o] = x /\ \A q \in Requests, p \in Ops : q # r \/ p # o => op'[q][p] = op[q][p]
      BY DEF Apart, TypeOK
    <3>2. \/ op' = [op EXCEPT ![r][o] = w]
          \/ op' = [op EXCEPT ![r][o] = v] /\ dict[ctx[r]][n] = None
      BY DEF GetConnection
    <3>3. w.pc = "working" /\ v.pc = "waiting" /\ v.name = n
      OBVIOUS
    <3>. QED  BY <3>1, <3>2, <3>3
  <2>2. \A q \in Requests, p \in Ops :
           op'[q][p].pc = "waiting" => op'[q][p].name \in Names /\ dict[ctx[q]][op'[q][p].name] = None
    BY <2>1 DEF Kept, SlotFree
  <2>. QED  BY <2>2, <1>u DEF SlotFree, managerVars
<1>2. NoLeak' /\ GotIsEntry' /\ SameConnection' /\ AuthorOf' /\ OutcomeOfPhase'
  BY <1>u DEF Kept, NoLeak, GotIsEntry, SameConnection, AuthorOf, OutcomeOfPhase,
              Live, Entries, leaseVars, managerVars, history
<1>3. TransactionsTraced'
  <2>1. \A q \in Requests, m \in Names : ToCommit(q, m)' <=> ToCommit(q, m)
    BY <1>u DEF ToCommit, Committable, Entries, leaseVars, managerVars
  <2>. QED  BY <2>1, <1>u DEF Kept, TransactionsTraced, Traced, managerVars, history
<1>. QED  BY <1>1, <1>2, <1>3 DEF Kept

\* What a session that has been got changes.
LEMMA GotEntries ==
    ASSUME Apart, NEW r \in Requests, NEW o \in Ops, NEW s \in Sessions, Got(r, o, s)
    PROVE  /\ phase[r] = "handling" /\ op[r][o].in = ctx[r] /\ op[r][o].name = PoolOf[s]
           /\ PoolOf[s] \in Names
           /\ holder[s] = None /\ holder'[s] = ctx[r] /\ s \notin unclean
           /\ \A t \in Sessions \ {s} : holder'[t] = holder[t]
           /\ \A d \in Holders \ {ctx[r]} : dict'[d] = dict[d]
           /\ dict'[ctx[r]] = [dict[ctx[r]] EXCEPT ![PoolOf[s]] = s]
<1>1. PoolOf[s] \in Names
  BY ManagerAssumption DEF ManagerAssumption
<1>2. phase[r] = "handling" /\ op[r][o].in = ctx[r] /\ op[r][o].name = PoolOf[s]
  BY DEF Apart, OpsInContext, IdleOp, Got
<1>3. ctx[r] \in Holders
  BY DEF Apart, TypeOK
<1>4. /\ holder[s] = None /\ holder'[s] = ctx[r] /\ s \notin unclean
      /\ \A t \in Sessions \ {s} : holder'[t] = holder[t]
  BY <1>2 DEF Got, Lease, Apart, TypeOK
<1>5. dict' = [dict EXCEPT ![ctx[r]][PoolOf[s]] = s]
  BY <1>2 DEF Got
<1>6. /\ \A d \in Holders \ {ctx[r]} : dict'[d] = dict[d]
      /\ dict'[ctx[r]] = [dict[ctx[r]] EXCEPT ![PoolOf[s]] = s]
  BY <1>3, <1>5 DEF Apart, TypeOK
<1>. QED  BY <1>1, <1>2, <1>4, <1>6

\* The session is put where there was none: every one got before is still there.
LEMMA GotKept ==
    ASSUME OneAtATime, Apart, Kept, NEW r \in Requests, NEW o \in Ops, NEW s \in Sessions,
           Got(r, o, s)
    PROVE  Kept'
<1>u. /\ UNCHANGED <<unclean, pools, ctx, phase, closing, outcome, author, log>>
      /\ got' = got \cup {<<r, s>>}
  <2>1. UNCHANGED <<unclean, pools, ctx, phase, closing, outcome, author, log>>
    BY DEF Got, Lease
  <2>2. phase[r] = "handling"
    BY GotEntries
  <2>. QED  BY <2>1, <2>2 DEF Got
<1>g. /\ phase[r] = "handling" /\ op[r][o].in = ctx[r] /\ op[r][o].name = PoolOf[s]
      /\ PoolOf[s] \in Names
      /\ holder[s] = None /\ holder'[s] = ctx[r] /\ s \notin unclean
      /\ \A t \in Sessions \ {s} : holder'[t] = holder[t]
      /\ \A d \in Holders \ {ctx[r]} : dict'[d] = dict[d]
      /\ dict'[ctx[r]] = [dict[ctx[r]] EXCEPT ![PoolOf[s]] = s]
  BY GotEntries
<1>c. /\ ctx[r] \in Holders /\ ctx[r] # Default /\ ctx[r] # None
      /\ \A q \in Requests \ {r} : ctx[q] # ctx[r]
  BY <1>g, OwnDictionary
<1>t. /\ \A q \in Requests : ctx[q] \in Holders /\ dict[ctx[q]] \in [Names -> Sessions \cup {None}]
      /\ Default \in Holders
  BY ManagerAssumption DEF Apart, TypeOK, ManagerAssumption
<1>n. s # None
  BY ManagerAssumption DEF ManagerAssumption
<1>f. dict[ctx[r]][PoolOf[s]] = None
  BY <1>g DEF Kept, SlotFree, Got
<1>o. \A n \in Names : n # PoolOf[s] => dict'[ctx[r]][n] = dict[ctx[r]][n]
  BY <1>g, <1>t
<1>h. dict'[ctx[r]][PoolOf[s]] = s
  BY <1>g, <1>t
<1>e. /\ \A q \in Requests \ {r} : dict'[ctx[q]] = dict[ctx[q]] /\ Entries(ctx[q])' = Entries(ctx[q])
      /\ Entries(ctx[r])' = Entries(ctx[r]) \cup {s}
  <2>1. \A q \in Requests \ {r} : dict'[ctx[q]] = dict[ctx[q]]
    BY <1>g, <1>c, <1>t
  <2>2. ctx' = ctx
    BY <1>u
  <2>3. Entries(ctx[r])' = Entries(ctx[r]) \cup {s}
    BY <2>2, <1>g, <1>f, <1>o, <1>h, <1>n DEF Entries
  <2>4. \A q \in Requests \ {r} : Entries(ctx[q])' = Entries(ctx[q])
    <3>1. \A q \in Requests \ {r} : ctx'[q] = ctx[q] /\ dict'[ctx'[q]] = dict[ctx[q]]
      BY <2>1, <2>2
    <3>. QED  BY <3>1 DEF Entries
  <2>. QED  BY <2>1, <2>3, <2>4
<1>1. SlotFree'
  <2>1. op'[r][o].pc = "working" /\ \A q \in Requests \ {r} : op'[q] = op[q]
    BY DEF Got, Apart, TypeOK
  <2>. QED  BY <2>1, <1>u, <1>e DEF OneAtATime, Kept, SlotFree
<1>2. NoLeak'
  <2>1. Live' = Live
    BY <1>u DEF Live
  <2>2. ctx[r] \in Live
    BY DEF Live
  <2>3. \A x \in Live \ {ctx[r]} : Entries(x)' = Entries(x)
    BY <1>e, <1>g, <1>c, <1>t, <1>u DEF Live, Entries
  <2>4. \A t \in Sessions \ {s} : holder'[t] # None =>
           \/ holder'[t] \in Live' /\ t \in Entries(holder[t])'
           \/ \E q \in Requests : t \in closing'[q].all
    <3>1. SUFFICES ASSUME NEW t \in Sessions \ {s}, holder'[t] # None,
                          \A q \in Requests : t \notin closing'[q].all
                   PROVE  holder'[t] \in Live' /\ t \in Entries(holder[t])'
      OBVIOUS
    <3>2. holder'[t] = holder[t] /\ holder[t] \in Live /\ t \in Entries(holder[t])
      BY <3>1, <1>u, <1>g DEF Kept, NoLeak
    <3>3. CASE holder[t] = ctx[r]
      <4>1. dict[ctx[r]] = dict[holder[t]] /\ dict'[ctx[r]] = dict'[holder'[t]]
        BY <3>2, <3>3
      <4>2. t \in {dict'[ctx[r]][n] : n \in Names} \ {None}
        BY <3>2, <3>3, <1>f, <1>o, <4>1 DEF Entries
      <4>. QED  BY <3>2, <3>3, <2>1, <4>1, <4>2 DEF Entries
    <3>4. CASE holder[t] # ctx[r]
      <4>1. dict'[holder[t]] = dict[holder[t]]
        BY <3>2, <3>4, <1>g, <1>t DEF Live
      <4>. QED  BY <3>2, <2>1, <4>1 DEF Entries
    <3>. QED  BY <3>3, <3>4
  <2>5. holder'[s] \in Live' /\ s \in Entries(holder[s])'
    <3>1. holder'[s] = ctx[r]
      BY <1>g
    <3>2. s \in {dict'[ctx[r]][n] : n \in Names} \ {None}
      BY <1>h, <1>g, <1>n
    <3>. QED  BY <3>1, <3>2, <2>1, <2>2 DEF Entries
  <2>. QED  BY <2>4, <2>5 DEF NoLeak
<1>3. GotIsEntry'
  <2>1. SUFFICES ASSUME NEW q \in Requests, NEW t \in Sessions, <<q, t>> \in got'
                 PROVE  phase[q] # "before" /\ (phase[q] = "handling" => dict'[ctx[q]][PoolOf[t]] = t)
    BY <1>u DEF GotIsEntry
  <2>2. CASE q = r /\ t = s
    BY <2>2, <1>g, <1>h
  <2>3. CASE <<q, t>> \in got
    <3>1. phase[q] # "before" /\ (phase[q] = "handling" => dict[ctx[q]][PoolOf[t]] = t)
      BY <2>3 DEF Kept, GotIsEntry
    <3>2. t # None /\ PoolOf[t] \in Names
      BY ManagerAssumption DEF ManagerAssumption
    <3>3. CASE q = r
      BY <3>1, <3>2, <3>3, <1>g, <1>f, <1>o
    <3>4. CASE q # r
      BY <3>1, <3>4, <1>e
    <3>. QED  BY <3>3, <3>4
  <2>. QED  BY <2>1, <2>2, <2>3, <1>u
<1>4. SameConnection'
  <2>1. \A t \in Sessions : <<r, t>> \in got => PoolOf[t] # PoolOf[s]
    BY <1>f, <1>g, ManagerAssumption DEF Kept, GotIsEntry, ManagerAssumption
  <2>. QED  BY <2>1, <1>u DEF Kept, SameConnection
<1>5. AuthorOf'
  BY <1>u, <1>g, <1>e DEF Kept, AuthorOf
<1>6. OutcomeOfPhase'
  BY <1>u DEF Kept, OutcomeOfPhase
<1>7. TransactionsTraced'
  <2>1. \A q \in Requests, m \in Names : ToCommit(q, m)' <=> ToCommit(q, m)
    BY <1>u, <1>e, <1>g DEF ToCommit, Committable
  <2>. QED  BY <2>1, <1>u DEF Kept, TransactionsTraced, Traced
<1>. QED  BY <1>1, <1>2, <1>3, <1>4, <1>5, <1>6, <1>7 DEF Kept

\* A transaction begins on a session that is in the context, and in no other.
LEMMA BeginKept ==
    ASSUME Apart, Kept, NEW r \in Requests, NEW o \in Ops, BeginTransaction(r, o)
    PROVE  Kept'
<1>s. PICK s \in Sessions : s = op[r][o].on
  BY DEF Apart, OpsInContext, IdleOp, BeginTransaction
<1>u. UNCHANGED <<holder, managerVars, requestVars, got>>
  BY DEF BeginTransaction, Work
<1>h. /\ holder[s] = ctx[r] /\ phase[r] = "handling"
      /\ s \notin unclean /\ unclean' = unclean \cup {s}
  BY <1>s DEF Apart, OpsInContext, IdleOp, BeginTransaction, Work
<1>a. author'[s] = r /\ \A t \in Sessions \ {s} : author'[t] = author[t]
  BY <1>s DEF BeginTransaction, Apart, TypeOK
<1>l. log' = log \cup {<<r, PoolOf[s], "begun">>}
  BY <1>s DEF BeginTransaction
<1>c. ctx[r] # None /\ \A q \in Requests \ {r} : ctx[q] # ctx[r]
  BY <1>h, OwnDictionary
<1>d. ~Down(s)
  BY <1>h, <1>c DEF Apart, Shutdown
<1>n. \A q \in Requests : s \notin closing[q].all
  BY <1>h, <1>d DEF Apart, ClosingPlaced
<1>e. s \in Entries(ctx[r])
  BY <1>h, <1>c, <1>n DEF Kept, NoLeak
<1>o. \A q \in Requests \ {r} : s \notin Entries(ctx[q])
  BY <1>e DEF Apart, Isolation
<1>1. SlotFree' /\ NoLeak' /\ GotIsEntry' /\ SameConnection' /\ OutcomeOfPhase'
  BY <1>u DEF Kept, SlotFree, NoLeak, GotIsEntry, SameConnection, OutcomeOfPhase,
              Live, Entries, managerVars, requestVars
<1>2. AuthorOf'
  <2>1. \A q \in Requests : Entries(ctx[q]) \cup closing[q].all \subseteq Sessions
    BY EntriesAreSessions DEF Apart, TypeOK
  <2>2. \A q \in Requests : Entries(ctx[q])' = Entries(ctx[q]) /\ closing'[q] = closing[q]
    BY <1>u DEF Entries, managerVars, requestVars
  <2>. QED  BY <2>1, <2>2, <1>h, <1>a, <1>n, <1>o DEF Kept, AuthorOf
<1>3. TransactionsTraced'
  <2>1. \A q \in Requests, m \in Names : ToCommit(q, m) => ToCommit(q, m)'
    BY <1>u, <1>h DEF ToCommit, Committable, Entries, managerVars, requestVars
  <2>2. ToCommit(r, PoolOf[s])'
    BY <1>u, <1>h, <1>e DEF ToCommit, Committable, Entries, managerVars, requestVars
  <2>3. \A q \in Requests, m \in Names :
           /\ <<q, m, "committed">> \in log' <=> <<q, m, "committed">> \in log
           /\ <<q, m, "refused">> \in log' <=> <<q, m, "refused">> \in log
           /\ <<q, m, "begun">> \in log' => <<q, m, "begun">> \in log \/ (q = r /\ m = PoolOf[s])
    BY <1>l
  <2>4. UNCHANGED <<pools, phase, outcome>>
    BY <1>u DEF managerVars, requestVars
  <2>. QED  BY <2>1, <2>2, <2>3, <2>4, <1>h DEF Kept, TransactionsTraced, Traced
<1>. QED  BY <1>1, <1>2, <1>3 DEF Kept

\* The end of an operation leaves the sessions where they are.
LEMMA OperationEndsKept ==
    ASSUME Apart, Kept, NEW r \in Requests, NEW o \in Ops, OperationEnds(r, o)
    PROVE  Kept'
<1>u. UNCHANGED <<leaseVars, managerVars, phase, closing, outcome, history>>
  BY DEF OperationEnds
<1>1. SlotFree'
  <2>1. /\ op'[r][o].pc = "idle"
        /\ \A q \in Requests, p \in Ops : q # r \/ p # o => op'[q][p] = op[q][p]
    BY DEF OperationEnds, IdleOp, Apart, TypeOK
  <2>. QED  BY <2>1, <1>u DEF Kept, SlotFree, managerVars
<1>2. NoLeak' /\ GotIsEntry' /\ SameConnection' /\ AuthorOf' /\ OutcomeOfPhase'
  BY <1>u DEF Kept, NoLeak, GotIsEntry, SameConnection, AuthorOf, OutcomeOfPhase,
              Live, Entries, leaseVars, managerVars, history
<1>3. TransactionsTraced'
  <2>1. \A q \in Requests, m \in Names : ToCommit(q, m)' <=> ToCommit(q, m)
    BY <1>u DEF ToCommit, Committable, Entries, leaseVars, managerVars
  <2>. QED  BY <2>1, <1>u DEF Kept, TransactionsTraced, Traced, managerVars, history
<1>. QED  BY <1>1, <1>2, <1>3 DEF Kept

\* An answer settles the transaction of the session, which is that of the request.
LEMMA AnsweredKept ==
    ASSUME Apart, Kept, NEW r \in Requests, NEW s \in Sessions, EndTransactionAnswered(r, s)
    PROVE  Kept'
<1>c. /\ \A q \in Requests : closing'[q].all = closing[q].all
      /\ \A q \in Requests \ {r} : closing'[q] = closing[q]
      /\ closing'[r].left = closing[r].left \ {s}
  BY AnsweredClosing DEF Apart
<1>u. UNCHANGED <<holder, managerVars, phase, op, outcome, author, got>>
  BY DEF EndTransactionAnswered, Work, leaseVars
<1>p. phase[r] = "committing" /\ s \in closing[r].left /\ s \in closing[r].all /\ outcome[r] = "ok"
  BY DEF EndTransactionAnswered, Apart, ClosingPlaced, Kept, OutcomeOfPhase
<1>l. \/ s \notin unclean /\ log' = log /\ unclean' = unclean
      \/ \E x \in {"committed", "refused"} :
            /\ s \in unclean /\ author[s] = r /\ log' = log \cup {<<r, PoolOf[s], x>>}
            /\ unclean \ {s} \subseteq unclean' /\ unclean' \subseteq unclean
  <2>1. s \in unclean => author[s] = r
    BY <1>p DEF Kept, AuthorOf
  <2>. QED  BY <2>1 DEF EndTransactionAnswered, Work, leaseVars
<1>k. unclean \ {s} \subseteq unclean' /\ unclean' \subseteq unclean
  BY <1>l
<1>1. SlotFree' /\ GotIsEntry' /\ SameConnection' /\ OutcomeOfPhase'
  BY <1>u DEF Kept, SlotFree, GotIsEntry, SameConnection, OutcomeOfPhase, managerVars
<1>2. NoLeak'
  BY <1>u, <1>c DEF Kept, NoLeak, Live, Entries, managerVars
<1>3. AuthorOf'
  BY <1>u, <1>c, <1>k DEF Kept, AuthorOf, Entries, managerVars
<1>4. TransactionsTraced'
  <2>1. \A q \in Requests \ {r}, m \in Names : ToCommit(q, m) => ToCommit(q, m)'
    <3>1. \A q \in Requests \ {r} : s \notin Entries(ctx[q]) /\ s \notin closing[q].left
      BY <1>p DEF Apart, Isolation, ClosingApart, ClosingPlaced
    <3>. QED  BY <3>1, <1>u, <1>c, <1>k DEF ToCommit, Committable, Entries, managerVars
  <2>2. \A m \in Names : ToCommit(r, m) => ToCommit(r, m)' \/ (s \in unclean /\ PoolOf[s] = m)
    BY <1>p, <1>u, <1>c, <1>k DEF ToCommit, Committable
  <2>3. s \in unclean => <<r, PoolOf[s], "committed">> \in log' \/ <<r, PoolOf[s], "refused">> \in log'
    BY <1>l
  <2>4. \A q \in Requests, m \in Names :
           /\ <<q, m, "begun">> \in log' <=> <<q, m, "begun">> \in log
           /\ <<q, m, "committed">> \in log' => <<q, m, "committed">> \in log \/ q = r
           /\ <<q, m, "committed">> \in log => <<q, m, "committed">> \in log'
           /\ <<q, m, "refused">> \in log => <<q, m, "refused">> \in log'
    BY <1>l
  <2>. QED  BY <2>1, <2>2, <2>3, <2>4, <1>u, <1>p DEF Kept, TransactionsTraced, Traced, managerVars
<1>. QED  BY <1>1, <1>2, <1>3, <1>4 DEF Kept

\* What goes back has been settled.
LEMMA CloseConnectionsKept ==
    ASSUME Apart, Kept, NEW r \in Requests, CloseConnections(r)
    PROVE  Kept'
<1>u. UNCHANGED <<unclean, managerVars, op, outcome, history>>
  BY DEF CloseConnections
<1>c. /\ closing[r].left = {} /\ closing'[r].all = {} /\ closing'[r].left = {}
      /\ \A q \in Requests \ {r} : closing'[q] = closing[q]
  BY DEF CloseConnections, Apart, TypeOK
<1>p. /\ phase[r] = "committing" /\ phase'[r] = "done"
      /\ \A q \in Requests \ {r} : phase'[q] = phase[q]
  BY DEF CloseConnections, Apart, TypeOK
<1>1. SlotFree' /\ GotIsEntry' /\ SameConnection' /\ OutcomeOfPhase'
  BY <1>u, <1>p DEF Kept, SlotFree, GotIsEntry, SameConnection, OutcomeOfPhase, managerVars, history
<1>2. NoLeak'
  <2>1. \A t \in Sessions : holder'[t] = IF t \in closing[r].all THEN None ELSE holder[t]
    BY DEF CloseConnections, Return
  <2>. QED  BY <2>1, <1>u, <1>c DEF Kept, NoLeak, Live, Entries, managerVars
<1>3. AuthorOf'
  BY <1>u, <1>c DEF Kept, AuthorOf, Entries, managerVars, history
<1>4. TransactionsTraced'
  <2>1. \A q \in Requests \ {r}, m \in Names : ToCommit(q, m)' <=> ToCommit(q, m)
    BY <1>u, <1>c, <1>p DEF ToCommit, Committable, Entries, managerVars
  <2>2. \A m \in Names : ~ToCommit(r, m)
    BY <1>c, <1>p DEF ToCommit, Committable
  <2>. QED  BY <2>1, <2>2, <1>u, <1>p DEF Kept, TransactionsTraced, Traced, managerVars, history
<1>. QED  BY <1>1, <1>2, <1>3, <1>4 DEF Kept

-----------------------------------------------------------------------------
\* Theorems

\* At the start nothing is held, logged or waited for.
LEMMA InitKept ==
    ASSUME Init
    PROVE  Kept
<1>1. SlotFree /\ NoLeak /\ GotIsEntry /\ SameConnection /\ OutcomeOfPhase /\ TransactionsTraced
  BY DEF Init, LeaseInit, IdleOp, SlotFree, NoLeak, GotIsEntry, SameConnection, OutcomeOfPhase,
         TransactionsTraced, Traced
<1>2. AuthorOf
  BY DEF Init, LeaseInit, AuthorOf
<1>. QED  BY <1>1, <1>2 DEF Kept

\* A stuttering step keeps the invariant.
LEMMA StutterKept ==
    ASSUME Kept, UNCHANGED vars
    PROVE  Kept'
<1>1. UNCHANGED <<holder, unclean, pools, ctx, dict, phase, op, closing, outcome, author, log, got>>
  BY DEF vars, leaseVars, managerVars, requestVars, history
<1>2. SlotFree' /\ NoLeak' /\ GotIsEntry' /\ SameConnection'
  BY <1>1 DEF Kept, SlotFree, NoLeak, Live, Entries, GotIsEntry, SameConnection
<1>3. AuthorOf' /\ OutcomeOfPhase'
  BY <1>1 DEF Kept, AuthorOf, Entries, OutcomeOfPhase
<1>4. TransactionsTraced'
  <2>1. \A r \in Requests, n \in Names : ToCommit(r, n)' <=> ToCommit(r, n)
    BY <1>1 DEF ToCommit, Committable, Entries
  <2>. QED  BY <2>1, <1>1 DEF Kept, TransactionsTraced, Traced
<1>. QED  BY <1>2, <1>3, <1>4 DEF Kept

\* Every step keeps both invariants.
LEMMA NextKept ==
    ASSUME OneAtATime, ~EarlyOps, Apart, Kept, [Next]_vars
    PROVE  Kept'
<1>1. ASSUME NEW r \in Requests, RequestStep(r)  PROVE Kept'
  BY <1>1, InterceptKept, FailKept, SucceedKept, CloseConnectionsKept, OperationEndsKept,
     BeginKept, GetConnectionKept, GotKept, AnsweredKept DEF RequestStep
<1>. QED  BY <1>1, OpenKept, CleansKept, CloseAllKept, StutterKept DEF Next

\* With operations in contexts, one at a time in each, both invariants hold always.
LEMMA AlwaysKept ==
    ASSUME OneAtATime, ~EarlyOps
    PROVE  Spec => [](Apart /\ Kept)
<1>1. Init => Apart /\ Kept
  BY InitApart, InitKept
<1>2. Apart /\ Kept /\ [Next]_vars => (Apart /\ Kept)'
  BY NextApart, NextKept
<1>. QED  BY <1>1, <1>2, PTL DEF Spec

\* Every step of the manager is one the pools allow.
LEMMA NextLease ==
    ASSUME Apart, ~EarlyOps, [Next]_vars
    PROVE  [LeaseNext]_leaseVars
<1>h. holder \in [Sessions -> Holders \cup {None}] /\ unclean \subseteq Sessions
  BY DEF Apart, TypeOK
<1>s. ASSUME UNCHANGED leaseVars  PROVE [LeaseNext]_leaseVars
  BY <1>s
<1>r. ASSUME NEW S, Return(S), UNCHANGED unclean  PROVE GiveBack
  BY <1>h, <1>r DEF Return, GiveBack
<1>1. ASSUME NEW r \in Requests, RequestStep(r)  PROVE [LeaseNext]_leaseVars
  <2>1. CASE Intercept(r) \/ Succeed(r)
    BY <2>1, <1>s DEF Intercept, Succeed
  <2>2. CASE Fail(r) \/ CloseConnections(r)
    BY <2>2, <1>r DEF Fail, CloseConnections, LeaseNext
  <2>3. ASSUME NEW o \in Ops, NEW s \in Sessions, Got(r, o, s)  PROVE LeaseNext
    <3>1. op[r][o].in \in Holders
      <4>1. op[r][o].in = ctx[r]
        BY <2>3, GotEntries
      <4>. QED  BY <4>1 DEF Apart, TypeOK
    <3>. QED  BY <2>3, <3>1 DEF Got, LeaseNext
  <2>4. ASSUME NEW o \in Ops, BeginTransaction(r, o)  PROVE LeaseNext
    <3>1. op[r][o].on \in Sessions
      BY <2>4 DEF Apart, OpsInContext, IdleOp, BeginTransaction
    <3>. QED  BY <2>4, <3>1 DEF BeginTransaction, LeaseNext
  <2>5. ASSUME NEW s \in Sessions, EndTransactionAnswered(r, s)  PROVE [LeaseNext]_leaseVars
    BY <2>5, <1>s DEF EndTransactionAnswered, LeaseNext
  <2>6. ASSUME NEW o \in Ops, OperationEnds(r, o) \/ \E n \in Names : GetConnection(r, o, n)
        PROVE  [LeaseNext]_leaseVars
    BY <2>6, <1>s DEF OperationEnds, GetConnection
  <2>. QED  BY <1>1, <2>1, <2>2, <2>3, <2>4, <2>5, <2>6 DEF RequestStep
<1>2. ASSUME NEW n \in Names, OpenConnectionPool(n) \/ PoolOpened(n)  PROVE [LeaseNext]_leaseVars
  BY <1>2, <1>s DEF OpenConnectionPool, PoolOpened
<1>3. ASSUME NEW s \in Sessions, PoolCleans(s)  PROVE LeaseNext
  <2>1. GiveBack
    BY <1>3, <1>h DEF PoolCleans, GiveBack
  <2>. QED  BY <2>1 DEF LeaseNext
<1>4. ASSUME CloseAllConnectionPools  PROVE LeaseNext
  <2>1. holder' = [s \in Sessions |-> None] /\ unclean' = {}
    BY <1>4, <1>h DEF CloseAllConnectionPools, Return
  <2>2. GiveBack
    BY <2>1, <1>h DEF GiveBack
  <2>. QED  BY <2>2 DEF LeaseNext
<1>5. CASE UNCHANGED vars
  BY <1>5, <1>s DEF vars
<1>. QED  BY <1>1, <1>2, <1>3, <1>4, <1>5 DEF Next

\* However many requests and operations overlap, no request can reach a
\* connection that another one uses or is committing.
THEOREM RequestsIsolated ==
    ASSUME ~EarlyOps
    PROVE  Spec => [](TypeOK /\ Isolation)
<1>1. Apart => TypeOK /\ Isolation
  BY DEF Apart
<1>. QED  BY <1>1, AlwaysApart, PTL

\* A request that awaits its operations never loses a connection, not by an
\* error, nor by a COMMIT that is refused, nor by a context that is replaced.
THEOREM NothingLeaks ==
    ASSUME OneAtATime, ~EarlyOps
    PROVE  Spec => []NoLeak
<1>1. Apart /\ Kept => NoLeak
  BY DEF Kept
<1>. QED  BY <1>1, AlwaysKept, PTL

\* The connection to a database stays the same while a request that awaits its
\* operations is handled.
THEOREM OneConnectionPerRequest ==
    ASSUME OneAtATime, ~EarlyOps
    PROVE  Spec => []SameConnection
<1>1. Apart /\ Kept => SameConnection
  BY DEF Kept
<1>. QED  BY <1>1, AlwaysKept, PTL

\* The response of a request tells what became of the transactions it left to
\* the interceptor.
THEOREM ResponsesHonest ==
    ASSUME OneAtATime, ~EarlyOps
    PROVE  Spec => []OutcomeHonest
<1>1. ASSUME Apart, Kept  PROVE OutcomeHonest
  <2>1. \A r \in Requests, n \in Names : Traced(r, n)
    BY <1>1 DEF Kept, TransactionsTraced
  <2>. QED  BY <2>1 DEF OutcomeHonest, Traced, ToCommit
<1>. QED  BY <1>1, AlwaysKept, PTL

\* The manager uses the sessions as the pools lend them: it implements
\* SessionLease, with a dictionary as the holder of a session.
THEOREM ManagerKeepsLease ==
    ASSUME ~EarlyOps
    PROVE  Spec => LeaseSpec
<1>1. Init => LeaseInit
  BY DEF Init
<1>2. Apart /\ [Next]_vars => [LeaseNext]_leaseVars
  BY NextLease
<1>. QED  BY <1>1, <1>2, AlwaysApart, PTL DEF Spec, LeaseSpec

=============================================================================
