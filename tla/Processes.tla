------------------------------ MODULE Processes ------------------------------
(* Exec and Pipe of node-sys: child processes that are started alone or as a *)
(* pipeline, and the calls that start them and wait for them.  Between the   *)
(* start of a child and its report, and between the report and what the call *)
(* does next, other code of the program runs and may start the same Exec     *)
(* again.  Exits and output are events that wait until all of it is done.    *)
EXTENDS Integers, Sequences, FiniteSets

CONSTANTS
    Execs,     \* the Exec objects of the program
    Items,     \* those of its Pipe, in their order
    MaxCalls,  \* bound on the calls of run, start and wait
    Codes,     \* the codes children exit with; None when a signal ends them
    Ignoring,  \* the Exec objects with setIgnoreExitCode
    Capturing, \* those whose output the program may collect
    MaxSpawn,  \* bound on the children
    None

Children == 1..MaxSpawn

ASSUME ProcessesAssumption ==
    /\ Items \in Seq(Execs) \ {<<>>} /\ Ignoring \subseteq Execs /\ Capturing \subseteq Execs
    /\ Codes \subseteq Nat \cup {None}
    /\ MaxSpawn \in Nat /\ MaxCalls \in Nat /\ None \notin Int

VARIABLES
    spawnId,   \* the children so far; a child is known by its number
    context,   \* options.context of an Exec: its last child
    captured,  \* the Exec objects that have options.output
    child,     \* the Exec of each child, the child it reads from, and its end
    calls      \* the calls of run, start and wait, in their order

vars == <<spawnId, context, captured, child, calls>>

Unborn == [exec |-> None, source |-> None, state |-> "none", code |-> None,
           exitCode |-> None, aborted |-> FALSE, unread |-> FALSE]
NewChild(e, source) ==
    [Unborn EXCEPT !.exec = e, !.source = source, !.state = "starting"]
Wait0(e, p) == [exec |-> e, child |-> p, state |-> "pending", value |-> None, stale |-> FALSE]

\* own are the children that a call has started for its items so far, and seen
\* the last child of the program when it went on for the last time.
NewCall(op, items, state, own, seen) ==
    [op |-> op, items |-> items, state |-> state, own |-> own, seen |-> seen,
     waits |-> <<>>, value |-> None]

TypeOK ==
    /\ spawnId \in 0..MaxSpawn
    /\ context \in [Execs -> Children \cup {None}] /\ captured \subseteq Capturing
    /\ \A p \in Children : child[p].state = "none" <=> p > spawnId
    /\ \A c \in DOMAIN calls : calls[c].state \in {"starting", "pending", "resolved", "rejected"}

Init ==
    /\ spawnId = 0
    /\ context = [e \in Execs |-> None] /\ captured = {}
    /\ child = [p \in Children |-> Unborn]
    /\ calls = <<>>

-----------------------------------------------------------------------------
\* Options

\* bound: options are set before the first child is started
SetStdOut(e) ==
    /\ spawnId = 0
    /\ captured' = captured \cup {e} /\ UNCHANGED <<spawnId, context, child, calls>>

-----------------------------------------------------------------------------
\* Starting children

Starting(c) == calls[c].state = "starting"

\* the children that calls have still to start
Due == Cardinality({d \in (DOMAIN calls) \X (1..Len(Items)) :
                      Starting(d[1]) /\ d[2] \in Len(calls[d[1]].own) + 1..Len(calls[d[1]].items)})

\* A new child takes the place of the last one of e.  What one item of a pipe
\* writes is read by the next, and not collected.
Launch(e, inner, source) ==
    /\ spawnId < MaxSpawn /\ spawnId' = spawnId + 1
    /\ context' = [context EXCEPT ![e] = spawnId']
    /\ captured' = IF inner THEN captured \ {e} ELSE captured
    /\ child' = [child EXCEPT ![spawnId'] = NewChild(e, source)]

\* what an Exec reads when it is not given anything else: what it has read before
Stdin(e) == IF context[e] = None THEN None ELSE child[context[e]].source

\* run or start up to the first await
Begin(op, items) ==
    /\ Len(calls) < MaxCalls /\ spawnId + Len(items) + Due <= MaxSpawn
    /\ Launch(items[1], Len(items) > 1, Stdin(items[1]))
    /\ calls' = Append(calls, NewCall(op, items, "starting", <<spawnId'>>, spawnId'))

\* the last child that a call has started, of which it awaits the report
Latest(c) == child[calls[c].own[Len(calls[c].own)]]

\* mutant: the next item reads what the last child of the program writes
StdoutOfLatest(e) == spawnId

\* the child whose output is that of e now
Stdout(e) == context[e]

LaunchNext(c) ==
    LET items == calls[c].items
        n == Len(calls[c].own)
    IN /\ Starting(c) /\ Latest(c).state = "running" /\ n < Len(items)
       /\ Launch(items[n + 1], n + 1 < Len(items), Stdout(items[n]))
       /\ calls' = [calls EXCEPT ![c].own = Append(@, spawnId'), ![c].seen = spawnId']

GiveUp(c) ==
    /\ Starting(c) /\ Latest(c).state = "failed"
    /\ calls' = [calls EXCEPT ![c].state = "rejected"]
    /\ UNCHANGED <<spawnId, context, captured, child>>

-----------------------------------------------------------------------------
\* Waiting

\* mutant: a pipe settles with its last child
OutcomeOfLast(call) ==
    IF call.state # "pending" \/ call.waits = <<>> THEN call
    ELSE LET w == call.waits[Len(call.waits)] IN [call EXCEPT !.state = w.state, !.value = w.value]

\* mutant: a pipe answers with the code of its first child
OutcomeOfFirst(call) ==
    LET ws == {call.waits[k] : k \in 1..Len(call.waits)} IN
    IF call.state # "pending" THEN call
    ELSE IF \E w \in ws : w.state = "rejected" THEN [call EXCEPT !.state = "rejected"]
    ELSE IF \E w \in ws : w.state = "pending" THEN call
    ELSE [call EXCEPT !.state = "resolved", !.value = IF ws = {} THEN 0 ELSE call.waits[1].value]

\* mutant: a child that fails does not settle the call
OutcomeWithoutReject(call) ==
    LET ws == {call.waits[k] : k \in 1..Len(call.waits)} IN
    IF call.state # "pending" \/ \E w \in ws : w.state # "resolved" THEN call
    ELSE [call EXCEPT !.state = "resolved",
                      !.value = IF ws = {} THEN 0 ELSE call.waits[Len(call.waits)].value]

\* a promise settles once; Promise.all with the first rejection, or with all
Outcome(call) ==
    LET ws == {call.waits[k] : k \in 1..Len(call.waits)} IN
    IF call.state # "pending" THEN call
    ELSE IF \E w \in ws : w.state = "rejected" THEN [call EXCEPT !.state = "rejected"]
    ELSE IF \E w \in ws : w.state = "pending" THEN call
    ELSE [call EXCEPT !.state = "resolved",
                      !.value = IF ws = {} THEN 0 ELSE call.waits[Len(call.waits)].value]

\* listeners are attached to the child an Exec has now, whatever its state
Listen(call) ==
    Outcome([call EXCEPT !.state = "pending", !.waits =
        [k \in 1..Len(call.items) |->
            IF context[call.items[k]] = None
            THEN [Wait0(call.items[k], None) EXCEPT !.state = "rejected"]
            ELSE Wait0(call.items[k], context[call.items[k]])]])

\* All children have reported their start: run goes on with wait, start is done.
AllStarted(c) ==
    LET call == [calls[c] EXCEPT !.seen = spawnId] IN
    /\ Starting(c) /\ Latest(c).state = "running"
    /\ Len(call.own) = Len(call.items)
    /\ calls' = [calls EXCEPT ![c] = IF call.op = "run" THEN Listen(call)
                                     ELSE [call EXCEPT !.state = "resolved"]]
    /\ UNCHANGED <<spawnId, context, captured, child>>

Wait(items) ==
    /\ Len(calls) < MaxCalls
    /\ calls' = Append(calls, Listen(NewCall("wait", items, "pending", <<>>, spawnId)))
    /\ UNCHANGED <<spawnId, context, captured, child>>

-----------------------------------------------------------------------------
\* Events

\* the listeners that a wait has on a child, until one of them is called
Awaits(w, p) == w.child = p /\ w.state = "pending"

Awaited(p) ==
    \E c \in DOMAIN calls : \E k \in 1..Len(calls[c].waits) : Awaits(calls[c].waits[k], p)

Settled(w, state, value, stale) ==
    [exec |-> w.exec, child |-> w.child, state |-> state, value |-> value, stale |-> stale]

\* every pending wait for the child is settled by what As makes of it
Notify(p, As(_)) ==
    calls' = [c \in DOMAIN calls |-> Outcome([calls[c] EXCEPT !.waits =
                  [k \in 1..Len(calls[c].waits) |->
                      IF Awaits(calls[c].waits[k], p) THEN As(calls[c].waits[k])
                      ELSE calls[c].waits[k]]])]

\* a child has started; what it writes is collected if its Exec has an output now
Spawned(p) ==
    /\ child[p].state = "starting"
    /\ child' = [child EXCEPT ![p].state = "running", ![p].unread = child[p].exec \in captured]
    /\ UNCHANGED <<spawnId, context, captured, calls>>

\* a child cannot be started, which those who wait for it already hear as well
SpawnFails(p) ==
    /\ child[p].state = "starting"
    /\ child' = [child EXCEPT ![p].state = "failed"]
    /\ Notify(p, LAMBDA w : Settled(w, "rejected", None, FALSE))
    /\ UNCHANGED <<spawnId, context, captured>>

\* node returns to its event loop when the reports and what awaits them are done
EventLoop == \A c \in DOMAIN calls : ~Starting(c)

\* mutant: the exit code of a child ended by a signal is taken for 0
ExitCodeOf0(code) == IF code = None THEN 0 ELSE code

ExitCodeOf(code) == IF code = None THEN -1 ELSE code

\* With setIgnoreExitCode the answer is the code of the child the Exec has now,
\* if that one is known to have exited.
Exit(p, code) ==
    LET exitCode == ExitCodeOf(code)
        heard == Awaited(p) \/ child[p].aborted
        known(q) == IF q = p THEN exitCode ELSE child[q].exitCode
        As(w) ==
            LET now == context[w.exec]
                ignored == w.exec \in Ignoring /\ known(now) # None
            IN IF exitCode = 0 THEN Settled(w, "resolved", 0, FALSE)
               ELSE IF ignored THEN Settled(w, "resolved", known(now), now # p)
               ELSE Settled(w, "rejected", None, now # p)
    IN /\ EventLoop /\ child[p].state = "running"
       /\ child' = [child EXCEPT ![p] =
              IF heard THEN [@ EXCEPT !.state = "exited", !.code = code, !.exitCode = exitCode]
              ELSE [@ EXCEPT !.state = "exited"]]
       /\ Notify(p, As)
       /\ UNCHANGED <<spawnId, context, captured>>

\* An error of a running child, such as an abort, rejects those who wait for it;
\* without any of them it would end the program.  Bound: one abort.
Abort(p) ==
    /\ child[p].state = "running" /\ Awaited(p)
    /\ \A q \in Children : ~child[q].aborted
    /\ child' = [child EXCEPT ![p].aborted = TRUE]
    /\ Notify(p, LAMBDA w : Settled(w, "rejected", None, FALSE))
    /\ UNCHANGED <<spawnId, context, captured>>

\* the output of a child arrives, before or after it exits
Read(p) ==
    /\ EventLoop /\ child[p].state \in {"running", "exited"} /\ child[p].unread
    /\ child' = [child EXCEPT ![p].unread = FALSE]
    /\ UNCHANGED <<spawnId, context, captured, calls>>

Next ==
    \/ \E e \in Capturing : SetStdOut(e)
    \/ \E items \in {<<e>> : e \in Execs} \cup {Items} :
          Begin("run", items) \/ Begin("start", items) \/ Wait(items)
    \/ \E c \in DOMAIN calls : LaunchNext(c) \/ GiveUp(c) \/ AllStarted(c)
    \/ \E p \in Children :
          \/ Spawned(p) \/ SpawnFails(p) \/ Abort(p) \/ Read(p)
          \/ \E code \in Codes : Exit(p, code)

Spec == Init /\ [][Next]_vars

\* Node reports what becomes of a start, promises are followed up, and children
\* come to their end, by themselves or by a signal.
FairSpec ==
    /\ Spec
    /\ \A p \in Children :
          /\ WF_vars(Spawned(p) \/ SpawnFails(p))
          /\ WF_vars(\E code \in Codes : Exit(p, code))
    /\ \A c \in 1..MaxCalls :
          WF_vars(c \in DOMAIN calls /\ (LaunchNext(c) \/ GiveUp(c) \/ AllStarted(c)))

-----------------------------------------------------------------------------
\* Properties

WaitsOf(c) == {calls[c].waits[k] : k \in 1..Len(calls[c].waits)}
Answer(q) == IF q.code = None THEN -1 ELSE q.code

\* A wait that has settled tells the end of the child it was for: it resolves
\* with the code of that child and only with 0 unless codes are ignored, and it
\* rejects for no other reason than a code, an abort, a start that fails or a
\* missing child.  An Exec that ignores codes and has been started again in
\* between is the exception.
WaitHonest ==
    \A c \in DOMAIN calls : \A w \in WaitsOf(c) :
        LET q == child[w.child] IN
        /\ w.state = "resolved" /\ ~w.stale =>
              /\ q.state = "exited" /\ w.value = Answer(q)
              /\ w.value = 0 \/ w.exec \in Ignoring
        /\ w.state = "rejected" /\ w.child # None /\ ~w.stale =>
              \/ q.aborted \/ q.state = "failed"
              \/ q.state = "exited" /\ q.code # 0 /\ w.exec \notin Ignoring

\* nobody has started an Exec of the call again between the call's own start of
\* it and the moment the call was done with starting
Alone(call) ==
    \A k \in 1..Len(call.own) :
        \A q \in call.own[k] + 1..call.seen : child[q].exec # call.items[k]

\* exec.ts:61, pipe.ts:31: a run that resolves has started all of its children and
\* seen each of them exit, with 0 unless codes are ignored, and answers with the
\* code of the last one, whoever else waits for them and whatever is started again
\* once it listens.  What is started again before that is the exception, see
\* RunWaits, and so is the answer of a last Exec that ignores codes (stale).
RunResolves ==
    \A c \in DOMAIN calls :
        LET call == calls[c]
            n == Len(call.items)
        IN call.op = "run" /\ call.state = "resolved" /\ Alone(call) =>
              /\ Len(call.own) = n
              /\ \A k \in 1..n :
                    /\ child[call.own[k]].state = "exited"
                    /\ child[call.own[k]].code = 0 \/ call.items[k] \in Ignoring
              /\ call.waits[n].stale \/ call.value = Answer(child[call.own[n]])

\* A run settles, if its children come to an end, with the same exception.
RunSettles ==
    \A c \in 1..MaxCalls :
        (c \in DOMAIN calls /\ calls[c].op = "run")
            ~> (/\ c \in DOMAIN calls
                /\ calls[c].state \in {"resolved", "rejected"} \/ ~Alone(calls[c]))

\* pipe.ts:68-79: each child of a pipe reads what the child before it writes, the
\* one that was started for this call, whatever else is started meanwhile; with
\* the same exception.
Connected ==
    \A c \in DOMAIN calls : Alone(calls[c]) =>
        \A k \in 1..Len(calls[c].own) - 1 :
            child[calls[c].own[k + 1]].source = calls[c].own[k]

\* exec.ts:59: "spawn a child process and wait until it has exited".  A run whose
\* Exec is started again before it listens waits for the other child.
RunWaits ==
    \A c \in DOMAIN calls : calls[c].op = "run" /\ calls[c].state = "resolved" =>
        \A k \in 1..Len(calls[c].own) : child[calls[c].own[k]].state = "exited"

\* README: "await exec(...).setStdOut(out).run()" collects the output of the child
OutputComplete ==
    \A c \in DOMAIN calls : calls[c].state = "resolved" =>
        \A w \in WaitsOf(c) : ~child[w.child].unread
=============================================================================
