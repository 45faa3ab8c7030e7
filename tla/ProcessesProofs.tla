-------------------------- MODULE ProcessesProofs --------------------------
(* Proofs about Processes, for any Exec objects, pipes, children and calls.  *)
EXTENDS Processes, TLAPS, SequenceTheorems

-----------------------------------------------------------------------------
\* The inductive invariant

SettledState == {"pending", "resolved", "rejected"}
WaitType == [exec : Execs, child : Children \cup {None}, state : SettledState,
             value : Int \cup {None}, stale : BOOLEAN]
CallType == [op : {"run", "start", "wait"}, items : Seq(Execs),
             state : {"starting"} \cup SettledState, own : Seq(Children), seen : Int,
             waits : Seq(WaitType), value : Int \cup {None}]
ChildType == [exec : Execs \cup {None}, source : Children \cup {None},
              state : {"none", "starting", "running", "failed", "exited"},
              code : Codes \cup {None}, exitCode : Int \cup {None},
              aborted : BOOLEAN, unread : BOOLEAN]

Typed ==
    /\ spawnId \in 0..MaxSpawn
    /\ context \in [Execs -> (1..spawnId) \cup {None}] /\ captured \subseteq Capturing
    /\ child \in [Children -> ChildType]
    /\ \A p \in Children : child[p].state = "none" <=> p > spawnId
    /\ calls \in Seq(CallType)

\* What an Exec has is its last child.
LastChild ==
    \A e \in Execs :
        /\ context[e] # None => child[context[e]].exec = e
        /\ \A q \in 1..spawnId : child[q].exec = e => context[e] # None /\ q <= context[e]

\* What a settled wait says of its child, which has been started before.
HonestWait(w) ==
    /\ w.child # None => w.child \in 1..spawnId /\ context[w.exec] # None
    /\ w.state = "resolved" =>
          /\ w.child # None /\ child[w.child].state = "exited"
          /\ (w.value = 0 /\ ~w.stale) \/ w.exec \in Ignoring
          /\ ~w.stale => w.value = ExitCodeOf(child[w.child].code)
    /\ w.state = "rejected" /\ w.child # None /\ ~w.stale =>
          \/ child[w.child].aborted \/ child[w.child].state = "failed"
          \/ /\ child[w.child].state = "exited" /\ child[w.child].code # 0
             /\ w.exec \notin Ignoring

\* A call that waits resolves when all its waits have, with the value of the last one.
HonestCall(call) ==
    /\ \A k \in 1..Len(call.waits) : HonestWait(call.waits[k])
    /\ call.state = "resolved" /\ call.op # "start" =>
          /\ \A k \in 1..Len(call.waits) : call.waits[k].state = "resolved"
          /\ Len(call.waits) > 0 => call.value = call.waits[Len(call.waits)].value

\* The children of a call are those of its items; a run that listens has them all,
\* and listens to them if nobody has started its items again.
OwnCall(call) ==
    /\ call.seen <= spawnId /\ Len(call.items) > 0 /\ Len(call.own) <= Len(call.items)
    /\ call.state = "starting" => Len(call.own) > 0 /\ call.op # "wait"
    /\ \A k \in 1..Len(call.own) :
          call.own[k] \in 1..call.seen /\ child[call.own[k]].exec = call.items[k]
    /\ call.op = "run" /\ call.state \in {"pending", "resolved"} =>
          /\ Len(call.own) = Len(call.items) /\ Len(call.waits) = Len(call.items)
          /\ \A k \in 1..Len(call.items) :
                /\ call.waits[k].exec = call.items[k]
                /\ Alone(call) => call.waits[k].child = call.own[k]
    /\ Alone(call) =>
          \A k \in 1..Len(call.own) - 1 : child[call.own[k + 1]].source = call.own[k]

Honest == \A c \in DOMAIN calls : HonestCall(calls[c]) /\ OwnCall(calls[c])

IInv == Typed /\ LastChild /\ Honest

-----------------------------------------------------------------------------
\* Sequences and calls

\* A function on 1..n is a sequence.
LEMMA SeqOf ==
    ASSUME NEW S, NEW n \in Nat, NEW f \in [1..n -> S]
    PROVE  f \in Seq(S) /\ Len(f) = n
<1>1. f \in Seq(S)
  BY SeqDef
<1>2. DOMAIN f = 1..Len(f) /\ Len(f) \in Nat
  BY <1>1, LenProperties
<1>3. DOMAIN f = 1..n
  OBVIOUS
<1> QED
  BY <1>1, <1>2, <1>3

\* What is settled of a call is its state and value, and it resolves only when
\* all of its waits have.
LEMMA OutcomeKeeps ==
    ASSUME NEW call \in CallType
    PROVE  /\ Outcome(call) \in CallType
           /\ Outcome(call).op = call.op /\ Outcome(call).items = call.items
           /\ Outcome(call).own = call.own /\ Outcome(call).seen = call.seen
           /\ Outcome(call).waits = call.waits
           /\ Outcome(call).state = "resolved" =>
                 \/ call.state = "resolved" /\ Outcome(call).value = call.value
                 \/ /\ \A k \in 1..Len(call.waits) : call.waits[k].state = "resolved"
                    /\ Len(call.waits) > 0 =>
                          Outcome(call).value = call.waits[Len(call.waits)].value
           /\ Outcome(call).state \in {"pending", "resolved"} =>
                 call.state \in {"pending", "resolved"}
           /\ Outcome(call).state = "starting" => call.state = "starting"
<1> DEFINE n == Len(call.waits)
           ws == {call.waits[k] : k \in 1..n}
           v == IF ws = {} THEN 0 ELSE call.waits[n].value
<1>1. call.waits \in Seq(WaitType) /\ n \in Nat /\ call.state \in {"starting"} \cup SettledState
  BY DEF CallType
<1>2. \A k \in 1..n : call.waits[k] \in WaitType
  BY <1>1, ElementOfSeq
<1>3. v \in Int \cup {None} /\ (n > 0 => v = call.waits[n].value)
  <2>1. CASE ws = {}
    <3>1. n > 0 => call.waits[1] \in ws
      BY <1>1
    <3>2. ~(n > 0) /\ v = 0
      BY <2>1, <3>1, Zenon
    <3> QED
      BY <3>2
  <2>2. CASE ws # {}
    <3>1. n \in 1..n
      BY <1>1, <2>2
    <3> QED
      BY <1>2, <2>2, <3>1 DEF WaitType
  <2> QED
    BY <2>1, <2>2
<1>4. CASE call.state # "pending"
  BY <1>4 DEF Outcome
<1>5. CASE call.state = "pending" /\ \E w \in ws : w.state = "rejected"
  <2>1. Outcome(call) = [call EXCEPT !.state = "rejected"]
    BY <1>5 DEF Outcome
  <2> QED
    BY <1>5, <2>1 DEF CallType, SettledState
<1>6. CASE /\ call.state = "pending" /\ ~\E w \in ws : w.state = "rejected"
           /\ \E w \in ws : w.state = "pending"
  BY <1>6 DEF Outcome
<1>7. CASE /\ call.state = "pending" /\ ~\E w \in ws : w.state = "rejected"
           /\ ~\E w \in ws : w.state = "pending"
  <2>1. Outcome(call) = [call EXCEPT !.state = "resolved", !.value = v]
    BY <1>7 DEF Outcome
  <2>2. \A k \in 1..n : call.waits[k].state = "resolved"
    BY <1>2, <1>7 DEF WaitType, SettledState
  <2> HIDE DEF v
  <2> QED
    BY <1>3, <1>7, <2>1, <2>2 DEF CallType, SettledState
<1> QED
  BY <1>4, <1>5, <1>6, <1>7

-----------------------------------------------------------------------------
\* What becomes of the children

\* More children are started; whose they are and what they read stays, one that
\* has exited or failed stays as it is, but for its output, and an abort is not
\* undone; an Exec keeps having a child.
Evolves ==
    /\ spawnId' >= spawnId
    /\ \A p \in 1..spawnId :
          /\ child'[p].exec = child[p].exec /\ child'[p].source = child[p].source
          /\ child[p].state = "exited" =>
                child'[p].state = "exited" /\ child'[p].code = child[p].code
          /\ child[p].state = "failed" => child'[p].state = "failed"
          /\ child[p].aborted => child'[p].aborted
    /\ \A e \in Execs : context[e] # None => context'[e] # None

\* What a wait says stays true.
LEMMA WaitKept ==
    ASSUME Typed, spawnId' \in Int, Evolves, NEW w \in WaitType, HonestWait(w)
    PROVE  HonestWait(w)'
<1>1. CASE w.child = None
  BY <1>1 DEF HonestWait
<1>2. CASE w.child # None
  <2>1. w.child \in 1..spawnId /\ spawnId \in Int
    BY <1>2 DEF HonestWait, Typed
  <2>2. w.child \in 1..spawnId' /\ context'[w.exec] # None
    BY <1>2, <2>1 DEF Evolves, HonestWait, WaitType
  <2> QED
    BY <1>2, <2>1, <2>2 DEF HonestWait, Evolves
<1> QED
  BY <1>1, <1>2

\* What is said of the children of a call stays true.
LEMMA OwnKept ==
    ASSUME Typed, spawnId' \in Int, Evolves, NEW call \in CallType, OwnCall(call)
    PROVE  OwnCall(call)'
<1>1. /\ spawnId \in Int /\ call.seen \in Int /\ call.own \in Seq(Children)
      /\ Len(call.own) \in Nat /\ call.seen <= spawnId
  BY LenProperties DEF Typed, CallType, OwnCall
<1>2. \A k \in 1..Len(call.own) : call.own[k] \in 1..call.seen
  BY DEF OwnCall
<1>3. \A q \in 1..call.seen : /\ child'[q].exec = child[q].exec
                             /\ child'[q].source = child[q].source
  BY <1>1 DEF Evolves
<1>4. Alone(call)' <=> Alone(call)
  <2>1. \A k \in 1..Len(call.own) : \A q \in call.own[k] + 1..call.seen : q \in 1..call.seen
    BY <1>1, <1>2
  <2> QED
    BY <1>3, <2>1 DEF Alone
<1>5. \A k \in 1..Len(call.own) - 1 : k + 1 \in 1..Len(call.own)
  BY <1>1
<1>6. call.seen <= spawnId'
  BY <1>1 DEF Evolves
<1> QED
  BY <1>2, <1>3, <1>4, <1>5, <1>6 DEF OwnCall

\* new is what becomes of a call whose waits become W: they are honest, they are
\* for the same children, and those that have resolved stay as they are.
Settles(call, W, new) ==
    /\ Len(W) = Len(call.waits) /\ new = Outcome([call EXCEPT !.waits = W])
    /\ \A k \in 1..Len(W) :
          /\ HonestWait(W[k])' /\ W[k].child = call.waits[k].child
          /\ W[k].exec = call.waits[k].exec
          /\ call.waits[k].state = "resolved" => W[k] = call.waits[k]

\* What a call says stays true then.
LEMMA CallKept ==
    ASSUME Typed, spawnId' \in Int, Evolves, NEW call \in CallType, HonestCall(call),
           OwnCall(call), NEW W \in Seq(WaitType), NEW new, Settles(call, W, new)
    PROVE  new \in CallType /\ HonestCall(new)' /\ OwnCall(new)'
<1> DEFINE c == [call EXCEPT !.waits = W]
<1>1. /\ c \in CallType /\ c.waits = W /\ c.state = call.state /\ c.value = call.value
      /\ c.op = call.op /\ c.items = call.items /\ c.own = call.own /\ c.seen = call.seen
  BY DEF CallType
<1> HIDE DEF c
<1>2. new = Outcome(c) /\ Len(W) = Len(call.waits) /\ Len(W) \in Nat
  BY LenProperties DEF Settles, c
<1>3. /\ new \in CallType
      /\ new.op = call.op /\ new.items = call.items
      /\ new.own = call.own /\ new.seen = call.seen /\ new.waits = W
      /\ new.state = "resolved" =>
            \/ call.state = "resolved" /\ new.value = call.value
            \/ /\ \A k \in 1..Len(W) : W[k].state = "resolved"
               /\ Len(W) > 0 => new.value = W[Len(W)].value
      /\ new.state \in {"pending", "resolved"} => call.state \in {"pending", "resolved"}
      /\ new.state = "starting" => call.state = "starting"
  BY <1>1, <1>2, OutcomeKeeps
<1>4. ASSUME NEW k \in 1..Len(W)
      PROVE  /\ k \in 1..Len(call.waits) /\ HonestWait(W[k])' /\ W[k].child = call.waits[k].child
             /\ W[k].exec = call.waits[k].exec
             /\ call.waits[k].state = "resolved" => W[k] = call.waits[k]
  BY <1>2 DEF Settles
<1>5. HonestCall(new)'
  <2>1. ASSUME new.state = "resolved", new.op # "start"
        PROVE  /\ \A k \in 1..Len(W) : W[k].state = "resolved"
               /\ Len(W) > 0 => new.value = W[Len(W)].value
    <3>1. CASE call.state = "resolved" /\ new.value = call.value
      <4>1. /\ \A k \in 1..Len(W) : call.waits[k].state = "resolved"
            /\ Len(W) > 0 => call.value = call.waits[Len(W)].value
        BY <1>2, <1>3, <2>1, <3>1 DEF HonestCall
      <4>2. Len(W) > 0 => Len(W) \in 1..Len(W)
        BY <1>2
      <4> QED
        BY <1>4, <3>1, <4>1, <4>2
    <3> QED
      BY <1>3, <2>1, <3>1
  <2> QED
    BY <1>3, <1>4, <2>1 DEF HonestCall
<1>6. OwnCall(new)'
  <2>1. OwnCall(call)'
    BY OwnKept
  <2>2. Alone(new)' <=> Alone(call)'
    BY <1>3 DEF Alone
  <2>3. ASSUME new.op = "run", new.state \in {"pending", "resolved"}, NEW k \in 1..Len(new.items)
        PROVE  /\ Len(new.own) = Len(new.items) /\ Len(new.waits) = Len(new.items)
               /\ new.waits[k].exec = new.items[k]
               /\ Alone(new)' => new.waits[k].child = new.own[k]
    <3>1. /\ Len(call.own) = Len(call.items) /\ Len(call.waits) = Len(call.items)
          /\ call.waits[k].exec = call.items[k]
          /\ Alone(call)' => call.waits[k].child = call.own[k]
      BY <1>3, <2>1, <2>3 DEF OwnCall
    <3>2. k \in 1..Len(W)
      BY <1>2, <1>3, <2>3, <3>1
    <3> QED
      BY <1>2, <1>3, <1>4, <2>2, <3>1, <3>2
  <2>4. Len(new.items) > 0 /\ (new.state = "starting" => Len(new.own) > 0 /\ new.op # "wait")
    BY <1>3, <2>1 DEF OwnCall
  <2>5. new.op = "run" /\ new.state \in {"pending", "resolved"} =>
           Len(new.own) = Len(new.items) /\ Len(new.waits) = Len(new.items)
    BY <1>2, <1>3, <2>1 DEF OwnCall
  <2> QED
    BY <1>3, <2>1, <2>2, <2>3, <2>4, <2>5 DEF OwnCall
<1> QED
  BY <1>3, <1>5, <1>6

\* What all calls say stays true.
LEMMA CallStays ==
    ASSUME Typed, spawnId' \in Int, Evolves, NEW call \in CallType, HonestCall(call),
           OwnCall(call)
    PROVE  HonestCall(call)' /\ OwnCall(call)'
<1>1. \A k \in 1..Len(call.waits) : call.waits[k] \in WaitType
  BY ElementOfSeq DEF CallType
<1>2. \A k \in 1..Len(call.waits) : HonestWait(call.waits[k])'
  BY <1>1, WaitKept DEF HonestCall
<1>3. OwnCall(call)'
  BY OwnKept
<1> QED
  BY <1>2, <1>3 DEF HonestCall

\* Where the calls stay as they are, so does what they say.
LEMMA CallsStay ==
    ASSUME Typed, spawnId' \in Int, Evolves, Honest, calls' = calls
    PROVE  Honest'
<1>1. \A c \in DOMAIN calls : calls[c] \in CallType
  BY LenProperties, ElementOfSeq DEF Typed
<1>2. \A c \in DOMAIN calls : HonestCall(calls[c])' /\ OwnCall(calls[c])'
  <2> SUFFICES ASSUME NEW c \in DOMAIN calls PROVE HonestCall(calls[c])' /\ OwnCall(calls[c])'
    OBVIOUS
  <2> QED
    BY <1>1, CallStays DEF Honest
<1> QED
  BY <1>2 DEF Honest

\* A call is added.
LEMMA CallAdded ==
    ASSUME Typed, spawnId' \in Int, Evolves, Honest, NEW new \in CallType,
           HonestCall(new)', OwnCall(new)', calls' = Append(calls, new)
    PROVE  calls' \in Seq(CallType) /\ Honest'
<1>1. calls \in Seq(CallType) /\ Len(calls) \in Nat
  BY LenProperties DEF Typed
<1>2. /\ calls' \in Seq(CallType) /\ DOMAIN calls = 1..Len(calls)
      /\ DOMAIN calls' = 1..Len(calls) + 1
      /\ \A c \in 1..Len(calls) : calls'[c] = calls[c]
      /\ calls'[Len(calls) + 1] = new
  BY <1>1
<1>3. ASSUME NEW c \in DOMAIN calls' PROVE HonestCall(calls[c])' /\ OwnCall(calls[c])'
  <2>1. CASE c \in 1..Len(calls)
    <3>1. PICK call \in CallType : HonestCall(call) /\ OwnCall(call) /\ call = calls[c]
      BY <1>1, <1>2, <2>1, ElementOfSeq DEF Honest
    <3>2. HonestCall(call)' /\ OwnCall(call)'
      BY <3>1, CallStays
    <3> QED
      BY <1>2, <2>1, <3>1, <3>2
  <2>2. CASE c = Len(calls) + 1
    BY <1>2, <2>2
  <2> QED
    BY <1>1, <1>2, <2>1, <2>2
<1> QED
  BY <1>2, <1>3 DEF Honest

\* One call goes on.
LEMMA CallReplaced ==
    ASSUME Typed, spawnId' \in Int, Evolves, Honest, NEW d \in DOMAIN calls,
           NEW new \in CallType, HonestCall(new)', OwnCall(new)',
           calls' = [calls EXCEPT ![d] = new]
    PROVE  calls' \in Seq(CallType) /\ Honest'
<1>1. /\ calls \in Seq(CallType) /\ Len(calls) \in Nat /\ DOMAIN calls = 1..Len(calls)
      /\ calls \in [1..Len(calls) -> CallType]
  BY LenProperties, SeqDef DEF Typed
<1>2. /\ calls' \in [1..Len(calls) -> CallType] /\ DOMAIN calls' = DOMAIN calls
      /\ \A c \in DOMAIN calls : calls'[c] = IF c = d THEN new ELSE calls[c]
  BY <1>1
<1>3. calls' \in Seq(CallType)
  BY <1>1, <1>2, SeqOf
<1>4. ASSUME NEW c \in DOMAIN calls PROVE HonestCall(calls[c])' /\ OwnCall(calls[c])'
  <2>1. CASE c = d
    BY <1>2, <2>1
  <2>2. CASE c # d
    <3>1. PICK call \in CallType : HonestCall(call) /\ OwnCall(call) /\ call = calls[c]
      BY <1>1, ElementOfSeq DEF Honest
    <3>2. HonestCall(call)' /\ OwnCall(call)'
      BY <3>1, CallStays
    <3> QED
      BY <1>2, <2>2, <3>1, <3>2
  <2> QED
    BY <2>1, <2>2
<1> QED
  BY <1>2, <1>3, <1>4 DEF Honest

\* Waits are settled: g holds what becomes of the waits of every call.
LEMMA WaitsSettled ==
    ASSUME Typed, spawnId' \in Int, Evolves, Honest, NEW g, DOMAIN calls' = DOMAIN calls,
           calls' = [c \in DOMAIN calls' |-> calls'[c]],
           \A c \in DOMAIN calls : g[c] \in Seq(WaitType) /\ Settles(calls[c], g[c], calls'[c])
    PROVE  calls' \in Seq(CallType) /\ Honest'
<1>1. calls \in Seq(CallType) /\ DOMAIN calls = 1..Len(calls) /\ Len(calls) \in Nat
  BY LenProperties DEF Typed
<1>2. ASSUME NEW c \in DOMAIN calls
      PROVE  calls'[c] \in CallType /\ HonestCall(calls[c])' /\ OwnCall(calls[c])'
  <2>1. PICK call \in CallType : call = calls[c] /\ HonestCall(call) /\ OwnCall(call)
    BY <1>1, ElementOfSeq DEF Honest
  <2>2. PICK W \in Seq(WaitType) : W = g[c]
    OBVIOUS
  <2>3. PICK new : new = calls'[c]
    OBVIOUS
  <2>4. Settles(call, W, new)
    BY <2>1, <2>2, <2>3
  <2>5. new \in CallType /\ HonestCall(new)' /\ OwnCall(new)'
    BY <2>1, <2>4, CallKept
  <2> QED
    BY <2>3, <2>5
<1>3. calls' \in Seq(CallType)
  <2>1. calls' \in [1..Len(calls) -> CallType]
    BY <1>1, <1>2
  <2> QED
    BY <1>1, <2>1, SeqOf
<1> QED
  BY <1>1, <1>2, <1>3 DEF Honest

\* A new child of e is started: what there has been stays, and e has it.
LEMMA LaunchFacts ==
    ASSUME ProcessesAssumption, Typed, LastChild, NEW e \in Execs, NEW inner \in BOOLEAN,
           NEW source \in Children \cup {None}, Launch(e, inner, source)
    PROVE  /\ Evolves /\ LastChild'
           /\ spawnId' = spawnId + 1 /\ spawnId \in Int /\ spawnId' \in Children
           /\ spawnId' \in 0..MaxSpawn /\ context' \in [Execs -> (1..spawnId') \cup {None}]
           /\ captured' \subseteq Capturing /\ child' \in [Children -> ChildType]
           /\ \A p \in Children : child'[p].state = "none" <=> p > spawnId'
           /\ child'[spawnId'].exec = e /\ child'[spawnId'].source = source
<1>1. /\ spawnId \in 0..MaxSpawn /\ spawnId < MaxSpawn /\ MaxSpawn \in Nat
      /\ spawnId' = spawnId + 1
  BY DEF Launch, Typed, ProcessesAssumption
<1>2. /\ spawnId \in Int /\ spawnId' \in Children /\ spawnId' \in 0..MaxSpawn
      /\ \A p \in 1..spawnId : p \in Children /\ p # spawnId'
      /\ \A p \in 1..spawnId' : p \in 1..spawnId \/ p = spawnId'
      /\ Children \subseteq Int /\ None \notin Int
  BY <1>1 DEF Children, ProcessesAssumption
<1>3. PICK n \in Children : n = spawnId'
  BY <1>2
<1>4. /\ context' = [context EXCEPT ![e] = n]
      /\ child' = [child EXCEPT ![n] = NewChild(e, source)]
  BY <1>3 DEF Launch
<1>5. PICK new \in ChildType : new = NewChild(e, source)
  BY DEF NewChild, Unborn, ChildType
<1>6. new.exec = e /\ new.source = source /\ new.state = "starting"
  BY <1>5 DEF NewChild, Unborn
<1>7. /\ child' \in [Children -> ChildType] /\ child'[n] = new
      /\ \A p \in Children \ {n} : child'[p] = child[p]
  BY <1>4, <1>5 DEF Typed
<1>8. /\ context' \in [Execs -> (1..spawnId') \cup {None}] /\ context'[e] = n
      /\ \A d \in Execs \ {e} : context'[d] = context[d]
  <2>1. context \in [Execs -> (1..spawnId') \cup {None}] /\ n \in 1..spawnId'
    <3>1. 1..spawnId \subseteq 1..spawnId' /\ n \in 1..spawnId'
      BY <1>1, <1>3
    <3> QED
      BY <3>1 DEF Typed
  <2> QED
    BY <1>4, <2>1
<1>9. Evolves
  <2>1. spawnId' >= spawnId
    BY <1>1
  <2>2. \A p \in 1..spawnId : child'[p] = child[p]
    BY <1>2, <1>3, <1>7
  <2>3. \A d \in Execs : context[d] # None => context'[d] # None
    BY <1>2, <1>3, <1>8
  <2> QED
    BY <2>1, <2>2, <2>3 DEF Evolves
<1>10. LastChild'
  <2> SUFFICES ASSUME NEW d \in Execs
               PROVE  /\ context'[d] # None => child'[context'[d]].exec = d
                      /\ \A q \in 1..spawnId' : child'[q].exec = d =>
                            context'[d] # None /\ q <= context'[d]
    BY DEF LastChild
  <2>1. CASE d = e
    <3>1. \A q \in 1..spawnId' : q <= n
      BY <1>1, <1>3
    <3>2. n # None
      BY <1>2
    <3> QED
      BY <1>6, <1>7, <1>8, <2>1, <3>1, <3>2
  <2>2. CASE d # e
    <3>1. context'[d] = context[d] /\ context[d] \in (1..spawnId) \cup {None}
      BY <1>8, <2>2 DEF Typed
    <3>2. context[d] # None => child'[context[d]] = child[context[d]]
      BY <1>2, <1>3, <1>7, <3>1
    <3>3. ASSUME NEW q \in 1..spawnId', child'[q].exec = d
          PROVE  q \in 1..spawnId /\ child'[q] = child[q]
      BY <1>2, <1>3, <1>6, <1>7, <2>2, <3>3
    <3> QED
      BY <3>1, <3>2, <3>3 DEF LastChild
  <2> QED
    BY <2>1, <2>2
<1>11. \A p \in Children : child'[p].state = "none" <=> p > spawnId'
  <2> SUFFICES ASSUME NEW p \in Children PROVE child'[p].state = "none" <=> p > spawnId'
    OBVIOUS
  <2>1. CASE p = n
    BY <1>1, <1>3, <1>6, <1>7, <2>1
  <2>2. CASE p # n
    <3>1. p \in Int /\ (p > spawnId <=> p > spawnId')
      BY <1>1, <1>2, <1>3, <2>2
    <3> QED
      BY <1>7, <2>2, <3>1 DEF Typed
  <2> QED
    BY <2>1, <2>2
<1>12. captured' \subseteq Capturing
  BY DEF Launch, Typed
<1> QED
  BY <1>1, <1>2, <1>3, <1>6, <1>7, <1>8, <1>9, <1>10, <1>11, <1>12

\* Nothing is said yet of a wait that is new; what it is for is the child the Exec
\* has now.
LEMMA ListenFacts ==
    ASSUME ProcessesAssumption, Typed, UNCHANGED <<spawnId, context, child>>,
           NEW call \in CallType
    PROVE  \E new \in CallType :
               /\ new = Listen(call) /\ HonestCall(new)'
               /\ new.op = call.op /\ new.items = call.items
               /\ new.own = call.own /\ new.seen = call.seen
               /\ Len(new.waits) = Len(call.items)
               /\ \A k \in 1..Len(call.items) :
                     /\ new.waits[k].exec = call.items[k]
                     /\ new.waits[k].child = context[call.items[k]]
<1>0. PICK ctx : ctx = context /\ ctx = context'
  OBVIOUS
<1> DEFINE items == call.items
           W == [k \in 1..Len(items) |->
                    IF ctx[items[k]] = None
                    THEN [Wait0(items[k], None) EXCEPT !.state = "rejected"]
                    ELSE Wait0(items[k], ctx[items[k]])]
<1>1. items \in Seq(Execs) /\ Len(items) \in Nat /\ \A k \in 1..Len(items) : items[k] \in Execs
  BY LenProperties, ElementOfSeq DEF CallType
<1>2. ASSUME NEW k \in 1..Len(items)
      PROVE  /\ W[k] \in WaitType /\ W[k].child = ctx[items[k]]
             /\ W[k].exec = items[k]
             /\ W[k].state \in {"pending", "rejected"}
             /\ W[k].state = "rejected" => W[k].child = None
  <2>1. items[k] \in Execs /\ ctx[items[k]] \in Children \cup {None}
    BY <1>0, <1>1 DEF Children, ProcessesAssumption, Typed
  <2>2. CASE ctx[items[k]] = None
    BY <2>1, <2>2 DEF Wait0, WaitType, SettledState
  <2>3. CASE ctx[items[k]] # None
    BY <2>1, <2>3 DEF Wait0, WaitType, SettledState
  <2> QED
    BY <2>2, <2>3
<1>3. W \in Seq(WaitType) /\ Len(W) = Len(items)
  <2>1. W \in [1..Len(items) -> WaitType]
    BY <1>2
  <2> HIDE DEF W
  <2> QED
    BY <1>1, <2>1, SeqOf
<1>4. PICK V \in Seq(WaitType) :
          /\ V = W /\ Len(V) = Len(items)
          /\ \A k \in 1..Len(items) :
                /\ V[k].child = ctx[items[k]] /\ V[k].exec = items[k] /\ V[k] \in WaitType
                /\ V[k].state \in {"pending", "rejected"}
                /\ V[k].state = "rejected" => V[k].child = None
  BY <1>2, <1>3
<1>5. Listen(call) = Outcome([call EXCEPT !.state = "pending", !.waits = V])
  <2>1. V = [k \in 1..Len(call.items) |->
               IF context[call.items[k]] = None
               THEN [Wait0(call.items[k], None) EXCEPT !.state = "rejected"]
               ELSE Wait0(call.items[k], context[call.items[k]])]
    BY <1>0, <1>4
  <2> QED
    BY <2>1 DEF Listen
<1> HIDE DEF W
<1>6. ASSUME NEW k \in 1..Len(V) PROVE HonestWait(V[k])'
  <2>0. PICK w : w = V[k]
    OBVIOUS
  <2>1. /\ w.child = ctx[w.exec] /\ w.exec \in Execs
        /\ w.state \in {"pending", "rejected"}
        /\ w.state = "rejected" => w.child = None
    <3>1. k \in 1..Len(items)
      BY <1>4
    <3>2. items[k] \in Execs
      BY <1>1, <3>1
    <3> QED
      BY <1>4, <2>0, <3>1, <3>2
  <2>2. w.child # None => w.child \in 1..spawnId' /\ context'[w.exec] # None
    BY <1>0, <2>1 DEF Typed
  <2>3. HonestWait(w)'
    BY <2>1, <2>2 DEF HonestWait
  <2> QED
    BY <2>0, <2>3
<1>7. PICK c : c = [call EXCEPT !.state = "pending", !.waits = V]
  OBVIOUS
<1>8. /\ c \in CallType /\ c.waits = V /\ c.own = call.own /\ c.op = call.op /\ c.items = call.items
      /\ c.seen = call.seen /\ c.state = "pending"
  BY <1>4, <1>7 DEF CallType, SettledState
<1>9. PICK r : r = Outcome(c)
  OBVIOUS
<1>10. /\ r \in CallType /\ r.own = call.own /\ r.waits = V /\ r.op = call.op
       /\ r.items = call.items /\ r.seen = call.seen
       /\ r.state = "resolved" =>
             /\ \A k \in 1..Len(V) : V[k].state = "resolved"
             /\ Len(V) > 0 => r.value = V[Len(V)].value
  BY <1>8, <1>9, OutcomeKeeps
<1>11. HonestCall(r)'
  <2>1. \A k \in 1..Len(r.waits) : HonestWait(r.waits[k])'
    BY <1>6, <1>10
  <2>2. r.state = "resolved" =>
            /\ \A k \in 1..Len(r.waits) : r.waits[k].state = "resolved"
            /\ Len(r.waits) > 0 => r.value = r.waits[Len(r.waits)].value
    BY <1>10
  <2> QED
    BY <2>1, <2>2 DEF HonestCall
<1>12. r = Listen(call) /\ Len(r.waits) = Len(call.items)
  BY <1>4, <1>5, <1>7, <1>9, <1>10
<1>13. \A k \in 1..Len(call.items) :
          r.waits[k].exec = call.items[k] /\ r.waits[k].child = context[call.items[k]]
  BY <1>0, <1>4, <1>10
<1> QED
  BY <1>10, <1>11, <1>12, <1>13

-----------------------------------------------------------------------------
\* The steps

\* Initially.
LEMMA InitInv ==
    ASSUME ProcessesAssumption, Init
    PROVE  IInv
<1>1. /\ child \in [Children -> ChildType] /\ \A p \in Children : child[p].state = "none"
      /\ spawnId = 0 /\ calls = <<>> /\ captured = {} /\ context = [e \in Execs |-> None]
  BY DEF Init, Unborn, ChildType
<1>2. Typed
  BY <1>1 DEF Typed, Children, ProcessesAssumption
<1>3. LastChild
  BY <1>1 DEF LastChild
<1>4. DOMAIN calls = {}
  BY <1>1
<1> QED
  BY <1>2, <1>3, <1>4 DEF IInv, Honest

\* The options of an Exec.
LEMMA SetStdOutInv ==
    ASSUME IInv, NEW e \in Capturing, SetStdOut(e)
    PROVE  IInv'
<1>1. Typed' /\ LastChild' /\ Evolves /\ spawnId' \in Int /\ calls' = calls
  BY DEF IInv, SetStdOut, Typed, Evolves, LastChild
<1> QED
  BY <1>1, CallsStay DEF IInv

\* A call starts its first child.
LEMMA BeginInv ==
    ASSUME ProcessesAssumption, IInv, NEW op \in {"run", "start"},
           NEW items \in Seq(Execs) \ {<<>>}, Begin(op, items)
    PROVE  IInv'
<1>1. /\ Typed /\ LastChild /\ Honest /\ Len(items) \in Nat /\ Len(items) >= 1
      /\ items[1] \in Execs
  <2>1. Len(items) \in Nat /\ Len(items) # 0
    BY LenProperties, EmptySeq
  <2> QED
    BY <2>1, ElementOfSeq DEF IInv
<1>2. PICK e \in Execs : e = items[1]
  BY <1>1
<1>3. Stdin(e) \in Children \cup {None}
  <2>1. context[e] # None => context[e] \in Children
    BY <1>1 DEF Typed, Children, ProcessesAssumption
  <2> QED
    BY <1>1, <2>1 DEF Stdin, Typed, ChildType
<1>4. /\ Launch(e, Len(items) > 1, Stdin(e))
      /\ calls' = Append(calls, NewCall(op, items, "starting", <<spawnId'>>, spawnId'))
  BY <1>2 DEF Begin
<1>5. /\ Evolves /\ LastChild'
      /\ spawnId' = spawnId + 1 /\ spawnId \in Int /\ spawnId' \in Children
      /\ spawnId' \in 0..MaxSpawn /\ context' \in [Execs -> (1..spawnId') \cup {None}]
      /\ captured' \subseteq Capturing /\ child' \in [Children -> ChildType]
      /\ \A p \in Children : child'[p].state = "none" <=> p > spawnId'
      /\ child'[spawnId'].exec = e
  <2>1. (Len(items) > 1) \in BOOLEAN
    OBVIOUS
  <2> QED
    BY <1>1, <1>3, <1>4, <2>1, LaunchFacts
<1>6. PICK n \in Children : n = spawnId' /\ n \in Int /\ n >= 1
  BY <1>5 DEF Children
<1>7. PICK new \in CallType : new = NewCall(op, items, "starting", <<n>>, n)
  <2>1. <<n>> \in Seq(Children) /\ <<>> \in Seq(WaitType) /\ items \in Seq(Execs)
    BY <1>6
  <2> QED
    BY <1>6, <2>1 DEF NewCall, CallType
<1>8. /\ new.op = op /\ new.items = items /\ new.state = "starting" /\ new.own = <<n>>
      /\ new.seen = n /\ new.waits = <<>>
  BY <1>7 DEF NewCall
<1>9. HonestCall(new)'
  BY <1>8 DEF HonestCall
<1>10. OwnCall(new)'
  <2>1. Len(<<n>>) = 1 /\ \A k \in 1..1 : <<n>>[k] = n /\ k = 1
    OBVIOUS
  <2> QED
    BY <1>1, <1>2, <1>5, <1>6, <1>8, <2>1 DEF OwnCall
<1>11. calls' \in Seq(CallType) /\ Honest'
  BY <1>1, <1>4, <1>5, <1>6, <1>7, <1>9, <1>10, CallAdded
<1> QED
  BY <1>5, <1>11 DEF IInv, Typed

\* The next item of a pipe is started; it reads from the child its Exec has, which
\* is the one the call has started if it is alone.
LEMMA LaunchNextInv ==
    ASSUME ProcessesAssumption, IInv, NEW d \in DOMAIN calls, LaunchNext(d)
    PROVE  IInv'
<1>1. Typed /\ LastChild /\ Honest /\ calls \in Seq(CallType)
  BY DEF IInv, Typed
<1>2. PICK call \in CallType : call = calls[d] /\ OwnCall(call) /\ HonestCall(call)
  BY <1>1, LenProperties, ElementOfSeq DEF Honest
<1> DEFINE m == Len(call.own)
<1>3. /\ m \in Nat /\ Len(call.items) \in Nat /\ m < Len(call.items) /\ m > 0
      /\ call.items \in Seq(Execs) /\ call.own \in Seq(Children)
      /\ call.state = "starting" /\ call.seen \in Int /\ call.seen <= spawnId
  BY <1>2, LenProperties DEF LaunchNext, Starting, CallType, OwnCall
<1>4. PICK e \in Execs, f \in Execs : e = call.items[m + 1] /\ f = call.items[m]
  <2>1. m \in 1..Len(call.items) /\ m + 1 \in 1..Len(call.items)
    BY <1>3
  <2> QED
    BY <1>3, <2>1, ElementOfSeq
<1>5. PICK source \in Children \cup {None} : source = context[f]
  <2>1. (1..spawnId) \subseteq Children
    BY <1>1 DEF Typed, Children, ProcessesAssumption
  <2> QED
    BY <1>1, <2>1 DEF Typed
<1>6. /\ Launch(e, m + 1 < Len(call.items), source)
      /\ calls' = [calls EXCEPT ![d].own = Append(@, spawnId'), ![d].seen = spawnId']
  BY <1>2, <1>4, <1>5 DEF LaunchNext, Stdout
<1>7. /\ Evolves /\ LastChild'
      /\ spawnId' = spawnId + 1 /\ spawnId \in Int /\ spawnId' \in Children
      /\ spawnId' \in 0..MaxSpawn /\ context' \in [Execs -> (1..spawnId') \cup {None}]
      /\ captured' \subseteq Capturing /\ child' \in [Children -> ChildType]
      /\ \A p \in Children : child'[p].state = "none" <=> p > spawnId'
      /\ child'[spawnId'].exec = e /\ child'[spawnId'].source = source
  <2>1. (m + 1 < Len(call.items)) \in BOOLEAN
    OBVIOUS
  <2> QED
    BY <1>1, <1>6, <2>1, LaunchFacts
<1>8. PICK n \in Children : n = spawnId' /\ n \in Int /\ n >= 1
  BY <1>7 DEF Children
<1>9. PICK new : new = [call EXCEPT !.own = Append(call.own, n), !.seen = n]
  OBVIOUS
<1>10. /\ new \in CallType /\ new.own = Append(call.own, n) /\ new.seen = n
       /\ new.op = call.op /\ new.items = call.items /\ new.state = "starting"
       /\ new.waits = call.waits
  <2>1. Append(call.own, n) \in Seq(Children)
    BY <1>3, <1>8, AppendProperties
  <2> QED
    BY <1>3, <1>8, <1>9, <2>1 DEF CallType
<1>11. /\ Len(new.own) = m + 1 /\ new.own[m + 1] = n
       /\ \A k \in 1..m : new.own[k] = call.own[k]
  BY <1>3, <1>8, <1>10, AppendProperties
<1>12. calls' = [calls EXCEPT ![d] = new]
  BY <1>1, <1>2, <1>6, <1>8, <1>9, LenProperties
<1>13. OwnCall(call)' /\ HonestCall(call)'
  BY <1>1, <1>2, <1>7, CallStays
<1>14. HonestCall(new)'
  BY <1>10, <1>13 DEF HonestCall
<1>15. OwnCall(new)'
  <2>1. \A k \in 1..m : call.own[k] \in 1..call.seen /\ child'[call.own[k]].exec = call.items[k]
    BY <1>13 DEF OwnCall
  <2>2. \A k \in 1..m + 1 : new.own[k] \in 1..n /\ child'[new.own[k]].exec = new.items[k]
    <3> SUFFICES ASSUME NEW k \in 1..m + 1
                 PROVE  new.own[k] \in 1..n /\ child'[new.own[k]].exec = new.items[k]
      OBVIOUS
    <3>1. CASE k \in 1..m
      BY <1>3, <1>7, <1>8, <1>10, <1>11, <2>1, <3>1
    <3>2. CASE k = m + 1
      BY <1>4, <1>7, <1>8, <1>10, <1>11, <3>2
    <3> QED
      BY <1>3, <3>1, <3>2
  <2>3. ASSUME Alone(new)', NEW k \in 1..m PROVE child'[new.own[k + 1]].source = new.own[k]
    <3>1. \A j \in 1..m + 1 : \A q \in new.own[j] + 1..n : child'[q].exec # call.items[j]
      BY <1>10, <1>11, <2>3 DEF Alone
    <3>2. CASE k < m
      <4>1. Alone(call)'
        <5> SUFFICES ASSUME NEW j \in 1..m, NEW q \in call.own[j] + 1..call.seen
                     PROVE  child'[q].exec # call.items[j]
          BY DEF Alone
        <5>1. j \in 1..m + 1 /\ new.own[j] = call.own[j] /\ call.own[j] \in Int
          BY <1>3, <1>11, <2>1
        <5>2. q \in new.own[j] + 1..n
          BY <1>3, <1>7, <1>8, <5>1
        <5> QED
          BY <3>1, <5>1, <5>2
      <4>2. k \in 1..m - 1 /\ k + 1 \in 1..m
        BY <1>3, <3>2
      <4>3. child'[call.own[k + 1]].source = call.own[k]
        BY <1>13, <4>1, <4>2 DEF OwnCall
      <4> QED
        BY <1>11, <4>2, <4>3
    <3>3. CASE k = m
      <4>1. call.own[m] \in 1..call.seen /\ child'[call.own[m]].exec = f
        BY <1>3, <1>4, <2>1
      <4>2. call.own[m] \in 1..spawnId /\ child[call.own[m]].exec = f
        <5>1. call.own[m] \in 1..spawnId
          BY <1>3, <1>7, <4>1
        <5> QED
          BY <1>7, <4>1, <5>1 DEF Evolves
      <4>3. context[f] # None /\ call.own[m] <= context[f] /\ child[context[f]].exec = f
        BY <1>1, <4>2 DEF LastChild
      <4>4. context[f] \in 1..spawnId
        BY <1>1, <4>3 DEF Typed
      <4>5. child'[context[f]].exec = f
        BY <1>7, <4>3, <4>4 DEF Evolves
      <4>6. ~(context[f] \in call.own[m] + 1..n)
        <5>1. m \in 1..m /\ m \in 1..m + 1
          BY <1>3
        <5>2. new.own[m] = call.own[m]
          BY <1>11, <5>1
        <5> QED
          BY <1>4, <3>1, <4>5, <5>1, <5>2
      <4>7. context[f] = call.own[m]
        BY <1>7, <1>8, <4>2, <4>3, <4>4, <4>6
      <4> QED
        BY <1>3, <1>5, <1>7, <1>8, <1>11, <3>3, <4>7
    <3> QED
      BY <1>3, <3>2, <3>3
  <2>4. /\ Len(new.items) > 0 /\ Len(new.own) <= Len(new.items) /\ Len(new.own) > 0
        /\ new.op # "wait"
    BY <1>2, <1>3, <1>10, <1>11 DEF OwnCall
  <2>5. Len(new.own) - 1 = m
    BY <1>3, <1>11
  <2> QED
    BY <1>7, <1>8, <1>10, <1>11, <2>2, <2>3, <2>4, <2>5 DEF OwnCall
<1>16. calls' \in Seq(CallType) /\ Honest'
  BY <1>1, <1>7, <1>8, <1>10, <1>12, <1>14, <1>15, CallReplaced
<1> QED
  BY <1>7, <1>16 DEF IInv, Typed

\* A call gives up.
LEMMA GiveUpInv ==
    ASSUME ProcessesAssumption, IInv, NEW d \in DOMAIN calls, GiveUp(d)
    PROVE  IInv'
<1>1. /\ Typed /\ LastChild /\ Honest /\ calls \in Seq(CallType)
      /\ UNCHANGED <<spawnId, context, captured, child>> /\ spawnId' \in Int
  BY DEF IInv, Typed, GiveUp
<1>2. PICK call \in CallType : call = calls[d] /\ OwnCall(call) /\ HonestCall(call)
  BY <1>1, LenProperties, ElementOfSeq DEF Honest
<1>3. PICK new : new = [call EXCEPT !.state = "rejected"]
  OBVIOUS
<1>4. /\ new \in CallType /\ new.own = call.own /\ new.seen = call.seen
      /\ new.op = call.op /\ new.items = call.items /\ new.state = "rejected"
      /\ new.waits = call.waits
  BY <1>3 DEF CallType, SettledState
<1>5. calls' = [calls EXCEPT ![d] = new]
  BY <1>1, <1>2, <1>3, LenProperties DEF GiveUp
<1>6. Evolves /\ LastChild'
  BY <1>1 DEF Evolves, LastChild
<1>7. OwnCall(call)' /\ HonestCall(call)'
  BY <1>1, <1>2, <1>6, CallStays
<1>8. Alone(new)' <=> Alone(call)'
  BY <1>4 DEF Alone
<1>9. HonestCall(new)' /\ OwnCall(new)'
  BY <1>4, <1>7, <1>8 DEF HonestCall, OwnCall
<1>10. calls' \in Seq(CallType) /\ Honest'
  BY <1>1, <1>4, <1>5, <1>6, <1>9, CallReplaced
<1> QED
  BY <1>1, <1>6, <1>10 DEF IInv, Typed

\* All children of a call have started: a run listens to those it has started if it
\* is alone.
LEMMA AllStartedInv ==
    ASSUME ProcessesAssumption, IInv, NEW d \in DOMAIN calls, AllStarted(d)
    PROVE  IInv'
<1>1. /\ Typed /\ LastChild /\ Honest /\ calls \in Seq(CallType)
      /\ UNCHANGED <<spawnId, context, captured, child>> /\ spawnId' \in Int /\ spawnId \in Int
  BY DEF IInv, Typed, AllStarted
<1>2. PICK old \in CallType : old = calls[d] /\ OwnCall(old) /\ HonestCall(old)
  BY <1>1, LenProperties, ElementOfSeq DEF Honest
<1>3. PICK call : call = [old EXCEPT !.seen = spawnId]
  OBVIOUS
<1>4. /\ call \in CallType /\ call.own = old.own /\ call.items = old.items /\ call.op = old.op
      /\ call.seen = spawnId /\ call.waits = old.waits
      /\ Len(old.own) = Len(old.items) /\ Len(old.own) \in Nat /\ old.seen \in Int
      /\ old.seen <= spawnId /\ old.state = "starting"
      /\ calls' = [calls EXCEPT ![d] = IF call.op = "run" THEN Listen(call)
                                       ELSE [call EXCEPT !.state = "resolved"]]
  BY <1>1, <1>2, <1>3, LenProperties DEF AllStarted, Starting, CallType, OwnCall
<1>5. Evolves /\ LastChild'
  BY <1>1 DEF Evolves, LastChild
<1>6. OwnCall(old)' /\ HonestCall(old)'
  BY <1>1, <1>2, <1>5, CallStays
<1>7. \A k \in 1..Len(old.own) :
          old.own[k] \in 1..old.seen /\ child'[old.own[k]].exec = old.items[k]
  BY <1>6 DEF OwnCall
<1>8. \A k \in 1..Len(old.own) : old.own[k] \in 1..spawnId /\ old.own[k] \in Int
  BY <1>1, <1>4, <1>7
<1>9. Alone(call)' => Alone(old)'
  <2> SUFFICES ASSUME Alone(call)', NEW j \in 1..Len(old.own), NEW q \in old.own[j] + 1..old.seen
               PROVE  child'[q].exec # old.items[j]
    BY DEF Alone
  <2>1. q \in call.own[j] + 1..call.seen
    BY <1>1, <1>4, <1>8
  <2> QED
    BY <1>4, <2>1 DEF Alone
<1>10. Alone(call)' => \A k \in 1..Len(call.own) - 1 : child'[call.own[k + 1]].source = call.own[k]
  BY <1>4, <1>6, <1>9 DEF OwnCall
<1>11. \A k \in 1..Len(call.own) : call.own[k] \in 1..call.seen /\ child'[call.own[k]].exec = call.items[k]
  BY <1>4, <1>7, <1>8
<1>12. ASSUME Alone(call)', NEW k \in 1..Len(call.items) PROVE context[call.items[k]] = call.own[k]
  <2>1. PICK e \in Execs : e = call.items[k]
    BY <1>4, ElementOfSeq DEF CallType
  <2>2. k \in 1..Len(call.own) /\ call.own[k] \in 1..spawnId /\ child[call.own[k]].exec = e
    BY <1>1, <1>4, <1>8, <1>11, <2>1
  <2>3. context[e] # None /\ call.own[k] <= context[e] /\ child[context[e]].exec = e
    BY <1>1, <2>2 DEF LastChild
  <2>4. context[e] \in 1..spawnId
    BY <1>1, <2>3 DEF Typed
  <2>5. ~(context[e] \in call.own[k] + 1..spawnId)
    BY <1>1, <1>4, <1>12, <2>1, <2>2, <2>3 DEF Alone
  <2> QED
    BY <1>1, <2>1, <2>2, <2>3, <2>4, <2>5
<1>13. Len(call.items) > 0
  BY <1>2, <1>4 DEF OwnCall
<1>14. CASE call.op = "run"
  <2>1. PICK new \in CallType :
            /\ new = Listen(call) /\ HonestCall(new)'
            /\ new.op = call.op /\ new.items = call.items
            /\ new.own = call.own /\ new.seen = call.seen
            /\ Len(new.waits) = Len(call.items)
            /\ \A k \in 1..Len(call.items) :
                  /\ new.waits[k].exec = call.items[k]
                  /\ new.waits[k].child = context[call.items[k]]
    BY <1>1, <1>4, ListenFacts
  <2>2. Alone(new)' <=> Alone(call)'
    BY <2>1 DEF Alone
  <2>3. Len(new.own) > 0 /\ new.op # "wait"
    BY <1>4, <1>13, <1>14, <2>1
  <2>4. OwnCall(new)'
    BY <1>1, <1>4, <1>10, <1>11, <1>12, <1>13, <2>1, <2>2, <2>3 DEF OwnCall
  <2>5. calls' = [calls EXCEPT ![d] = new]
    BY <1>4, <1>14, <2>1
  <2>6. calls' \in Seq(CallType) /\ Honest'
    BY <1>1, <1>5, <2>1, <2>4, <2>5, CallReplaced
  <2> QED
    BY <1>1, <1>5, <2>6 DEF IInv, Typed
<1>15. CASE call.op # "run"
  <2>1. PICK new : new = [call EXCEPT !.state = "resolved"]
    OBVIOUS
  <2>2. /\ new \in CallType /\ new.own = call.own /\ new.seen = call.seen
        /\ new.op = call.op /\ new.items = call.items /\ new.state = "resolved"
        /\ new.waits = call.waits
    BY <1>4, <2>1 DEF CallType, SettledState
  <2>3. Alone(new)' <=> Alone(call)'
    BY <2>2 DEF Alone
  <2>4. OwnCall(new)'
    BY <1>1, <1>4, <1>10, <1>11, <1>13, <1>15, <2>2, <2>3 DEF OwnCall
  <2>5. HonestCall(new)'
    <3>1. new.op = "start"
      BY <1>2, <1>4, <1>15, <2>2 DEF OwnCall, CallType
    <3> QED
      BY <1>4, <1>6, <2>2, <3>1 DEF HonestCall
  <2>6. calls' = [calls EXCEPT ![d] = new]
    BY <1>4, <1>15, <2>1
  <2>7. calls' \in Seq(CallType) /\ Honest'
    BY <1>1, <1>5, <2>2, <2>4, <2>5, <2>6, CallReplaced
  <2> QED
    BY <1>1, <1>5, <2>7 DEF IInv, Typed
<1> QED
  BY <1>14, <1>15

\* Children that have been started before are waited for.
LEMMA WaitInv ==
    ASSUME ProcessesAssumption, IInv, NEW items \in Seq(Execs) \ {<<>>}, Wait(items)
    PROVE  IInv'
<1>1. /\ Typed /\ LastChild /\ Honest /\ UNCHANGED <<spawnId, context, captured, child>>
      /\ spawnId' \in Int /\ spawnId \in Int /\ Len(items) \in Nat /\ Len(items) > 0
  BY EmptySeq DEF IInv, Wait, Typed
<1>2. Evolves /\ LastChild'
  BY <1>1 DEF Evolves, LastChild
<1>3. PICK call : call = NewCall("wait", items, "pending", <<>>, spawnId)
  OBVIOUS
<1>4. /\ call \in CallType /\ call.op = "wait" /\ call.items = items /\ call.own = <<>>
      /\ call.seen = spawnId
  <2>1. <<>> \in Seq(Children) /\ <<>> \in Seq(WaitType)
    OBVIOUS
  <2> QED
    BY <1>1, <1>3, <2>1 DEF NewCall, CallType, SettledState
<1>5. PICK new \in CallType :
          /\ new = Listen(call) /\ HonestCall(new)'
          /\ new.op = call.op /\ new.items = call.items
          /\ new.own = call.own /\ new.seen = call.seen
  BY <1>1, <1>4, ListenFacts
<1>6. new.state # "starting"
  <2>1. /\ [call EXCEPT !.state = "pending", !.waits = new.waits].state = "pending"
    BY <1>4 DEF CallType
  <2> QED
    BY <1>3, <1>5 DEF Listen, Outcome, NewCall
<1>7. OwnCall(new)'
  <2>1. Len(<<>>) = 0
    OBVIOUS
  <2> QED
    BY <1>1, <1>4, <1>5, <1>6, <2>1 DEF OwnCall
<1>8. calls' = Append(calls, new)
  BY <1>3, <1>5 DEF Wait
<1>9. calls' \in Seq(CallType) /\ Honest'
  BY <1>1, <1>2, <1>5, <1>7, <1>8, CallAdded
<1> QED
  BY <1>1, <1>2, <1>9 DEF IInv, Typed

\* What becomes of the waits of a call: they are settled, or stay as they are.
Honestly(call, W) ==
    /\ W \in [1..Len(call.waits) -> WaitType]
    /\ \A k \in 1..Len(call.waits) :
          /\ HonestWait(W[k])' /\ W[k].child = call.waits[k].child
          /\ W[k].exec = call.waits[k].exec
          /\ call.waits[k].state = "resolved" => W[k] = call.waits[k]

Become(g) == calls' = [c \in DOMAIN calls |-> Outcome([calls[c] EXCEPT !.waits = g[c]])]

\* The calls stay honest if what becomes of their waits is.
LEMMA Notified ==
    ASSUME Typed, spawnId' \in Int, Evolves, Honest, NEW g, Become(g),
           \A c \in DOMAIN calls : Honestly(calls[c], g[c])
    PROVE  calls' \in Seq(CallType) /\ Honest'
<1>1. /\ DOMAIN calls' = DOMAIN calls /\ calls' = [c \in DOMAIN calls' |-> calls'[c]]
      /\ \A c \in DOMAIN calls : calls'[c] = Outcome([calls[c] EXCEPT !.waits = g[c]])
  BY DEF Become
<1>2. ASSUME NEW c \in DOMAIN calls
      PROVE  g[c] \in Seq(WaitType) /\ Settles(calls[c], g[c], calls'[c])
  <2>1. calls[c] \in CallType
    BY ElementOfSeq, LenProperties DEF Typed
  <2>2. Len(calls[c].waits) \in Nat
    BY <2>1, LenProperties DEF CallType
  <2>3. g[c] \in Seq(WaitType) /\ Len(g[c]) = Len(calls[c].waits)
    BY <2>2, SeqOf DEF Honestly
  <2> QED
    BY <1>1, <2>3 DEF Settles, Honestly
<1> QED
  BY <1>1, <1>2, WaitsSettled

\* One child goes on, and stays whose it is.
LEMMA ChildChanged ==
    ASSUME ProcessesAssumption, Typed, LastChild, UNCHANGED <<spawnId, context, captured>>,
           NEW p \in Children, NEW new \in ChildType, child' = [child EXCEPT ![p] = new],
           child[p].state \notin {"none", "failed"}, new.state # "none",
           new.exec = child[p].exec, new.source = child[p].source,
           child[p].state = "exited" => new.state = "exited" /\ new.code = child[p].code,
           child[p].aborted => new.aborted
    PROVE  /\ Evolves /\ LastChild' /\ child' \in [Children -> ChildType]
           /\ \A q \in Children : child'[q].state = "none" <=> q > spawnId'
           /\ child'[p] = new /\ \A q \in Children \ {p} : child'[q] = child[q]
           /\ spawnId \in Int /\ spawnId' \in Int /\ p \in 1..spawnId /\ p # None
<1>1. /\ spawnId \in 0..MaxSpawn /\ spawnId' = spawnId /\ context' = context
      /\ Children \subseteq Int /\ (\A q \in 1..spawnId : q \in Children) /\ None \notin Int
      /\ child \in [Children -> ChildType]
      /\ \A q \in Children : child[q].state = "none" <=> q > spawnId
  BY DEF Typed, Children, ProcessesAssumption
<1>2. /\ child' \in [Children -> ChildType] /\ child'[p] = new
      /\ \A q \in Children \ {p} : child'[q] = child[q]
  BY <1>1
<1>3. \A q \in Children : child'[q].state = "none" <=> q > spawnId'
  BY <1>1, <1>2
<1>4. p \in 1..spawnId
  BY <1>1 DEF Children
<1>5. \A q \in Children : child'[q].exec = child[q].exec /\ child'[q].source = child[q].source
  BY <1>2
<1>6. LastChild'
  <2>1. \A e \in Execs : context[e] # None => context[e] \in Children
    BY <1>1 DEF Typed
  <2> QED
    BY <1>1, <1>5, <2>1 DEF LastChild
<1>7. Evolves
  <2>1. \A q \in 1..spawnId :
           /\ child[q].state = "exited" => child'[q].state = "exited" /\ child'[q].code = child[q].code
           /\ child[q].state = "failed" => child'[q].state = "failed"
           /\ child[q].aborted => child'[q].aborted
    BY <1>1, <1>2
  <2> QED
    BY <1>1, <1>5, <2>1 DEF Evolves
<1> QED
  BY <1>1, <1>2, <1>3, <1>4, <1>6, <1>7

\* A child reports its start.
LEMMA SpawnedInv ==
    ASSUME ProcessesAssumption, IInv, NEW p \in Children, Spawned(p)
    PROVE  IInv'
<1>1. /\ Typed /\ LastChild /\ Honest /\ UNCHANGED <<spawnId, context, captured, calls>>
      /\ child[p].state = "starting" /\ child[p] \in ChildType
      /\ child' = [child EXCEPT ![p].state = "running", ![p].unread = child[p].exec \in captured]
  BY DEF IInv, Typed, Spawned
<1> DEFINE collected == child[p].exec \in captured
<1>2. PICK b \in BOOLEAN : b = collected
  <2>1. collected \in BOOLEAN
    OBVIOUS
  <2> HIDE DEF collected
  <2> QED
    BY <2>1
<1>3. PICK new : new = [child[p] EXCEPT !.state = "running", !.unread = b]
  OBVIOUS
<1>4. /\ new \in ChildType /\ new.state = "running" /\ new.exec = child[p].exec
      /\ new.source = child[p].source /\ new.aborted = child[p].aborted
  BY <1>1, <1>3 DEF ChildType
<1>5. child' = [child EXCEPT ![p] = new]
  BY <1>1, <1>2, <1>3 DEF Typed
<1>6. /\ Evolves /\ LastChild' /\ child' \in [Children -> ChildType]
      /\ \A q \in Children : child'[q].state = "none" <=> q > spawnId'
      /\ spawnId' \in Int
  BY <1>1, <1>4, <1>5, ChildChanged
<1>7. Honest'
  BY <1>1, <1>6, CallsStay
<1> QED
  BY <1>1, <1>6, <1>7 DEF IInv, Typed

\* The output of a child is read.
LEMMA ReadInv ==
    ASSUME ProcessesAssumption, IInv, NEW p \in Children, Read(p)
    PROVE  IInv'
<1>1. /\ Typed /\ LastChild /\ Honest /\ UNCHANGED <<spawnId, context, captured, calls>>
      /\ child[p].state \in {"running", "exited"} /\ child[p] \in ChildType
      /\ child' = [child EXCEPT ![p].unread = FALSE]
  BY DEF IInv, Typed, Read
<1>2. PICK new : new = [child[p] EXCEPT !.unread = FALSE]
  OBVIOUS
<1>3. /\ new \in ChildType /\ new.state = child[p].state /\ new.exec = child[p].exec
      /\ new.source = child[p].source /\ new.aborted = child[p].aborted
      /\ new.code = child[p].code
  BY <1>1, <1>2 DEF ChildType
<1>4. child' = [child EXCEPT ![p] = new]
  BY <1>1, <1>2 DEF Typed
<1>5. /\ Evolves /\ LastChild' /\ child' \in [Children -> ChildType]
      /\ \A q \in Children : child'[q].state = "none" <=> q > spawnId'
      /\ spawnId' \in Int
  BY <1>1, <1>3, <1>4, ChildChanged
<1>6. Honest'
  BY <1>1, <1>5, CallsStay
<1> QED
  BY <1>1, <1>5, <1>6 DEF IInv, Typed

\* A child fails, by an error when it starts or later: whoever waits for it is told.
LEMMA ErrorTold ==
    ASSUME ProcessesAssumption, IInv, NEW p \in Children, Evolves, LastChild',
           UNCHANGED <<spawnId, context, captured>>, child' \in [Children -> ChildType],
           \A q \in Children : child'[q].state = "none" <=> q > spawnId',
           p \in 1..spawnId, p # None, child'[p].aborted \/ child'[p].state = "failed",
           Notify(p, LAMBDA w : Settled(w, "rejected", None, FALSE))
    PROVE  IInv'
<1> DEFINE After(w) == IF Awaits(w, p) THEN Settled(w, "rejected", None, FALSE) ELSE w
           G == [c \in DOMAIN calls |->
                   [k \in 1..Len(calls[c].waits) |-> After(calls[c].waits[k])]]
<1>1. Typed /\ Honest /\ calls \in Seq(CallType) /\ spawnId \in Int /\ spawnId' \in Int
  BY DEF IInv, Typed
<1>2. ASSUME NEW w \in WaitType, HonestWait(w), NEW nw, nw = After(w)
      PROVE  /\ nw \in WaitType /\ HonestWait(nw)' /\ nw.child = w.child /\ nw.exec = w.exec
             /\ w.state = "resolved" => nw = w
  <2>1. CASE ~Awaits(w, p)
    BY <1>1, <1>2, <2>1, WaitKept
  <2>2. CASE Awaits(w, p)
    <3>1. /\ w.child = p /\ w.state = "pending" /\ p \in 1..spawnId'
          /\ context'[w.exec] # None /\ w.exec \in Execs
          /\ nw = Settled(w, "rejected", None, FALSE)
      BY <1>1, <1>2, <2>2 DEF Awaits, HonestWait, WaitType
    <3>2. nw \in WaitType
      BY <3>1 DEF Settled, WaitType, SettledState
    <3>3. nw.child = p /\ nw.exec = w.exec /\ nw.state = "rejected"
      BY <3>1 DEF Settled
    <3> QED
      BY <3>1, <3>2, <3>3 DEF HonestWait
  <2> QED
    BY <2>1, <2>2
<1>3. calls' = [c \in DOMAIN calls |-> Outcome([calls[c] EXCEPT !.waits = G[c]])]
  <2>1. calls' = [c \in DOMAIN calls |-> Outcome([calls[c] EXCEPT !.waits =
                     [k \in 1..Len(calls[c].waits) |-> After(calls[c].waits[k])]])]
    BY DEF Notify
  <2> HIDE DEF After
  <2> QED
    BY <2>1
<1> HIDE DEF After
<1>4. PICK g : g = G
  OBVIOUS
<1>5. ASSUME NEW c \in DOMAIN calls PROVE Honestly(calls[c], g[c])
  <2>1. calls[c] \in CallType /\ HonestCall(calls[c])
    BY <1>1, ElementOfSeq, LenProperties DEF Honest
  <2>2. \A k \in 1..Len(calls[c].waits) : calls[c].waits[k] \in WaitType
    BY <2>1, ElementOfSeq DEF CallType
  <2>3. ASSUME NEW k \in 1..Len(calls[c].waits)
        PROVE  /\ g[c][k] \in WaitType /\ HonestWait(g[c][k])'
               /\ g[c][k].child = calls[c].waits[k].child
               /\ g[c][k].exec = calls[c].waits[k].exec
               /\ calls[c].waits[k].state = "resolved" => g[c][k] = calls[c].waits[k]
    <3>1. PICK w \in WaitType : w = calls[c].waits[k] /\ HonestWait(w)
      BY <2>1, <2>2 DEF HonestCall
    <3>2. g[c][k] = After(w)
      BY <1>4, <3>1
    <3> QED
      BY <1>2, <3>1, <3>2
  <2> QED
    BY <1>4, <2>3 DEF Honestly
<1>6. Become(g)
  BY <1>3, <1>4 DEF Become
<1>7. calls' \in Seq(CallType) /\ Honest'
  BY <1>1, <1>5, <1>6, Notified
<1> QED
  BY <1>1, <1>7 DEF IInv, Typed

\* A child cannot be started.
LEMMA SpawnFailsInv ==
    ASSUME ProcessesAssumption, IInv, NEW p \in Children, SpawnFails(p)
    PROVE  IInv'
<1>1. /\ Typed /\ LastChild /\ UNCHANGED <<spawnId, context, captured>>
      /\ child[p].state = "starting" /\ child[p] \in ChildType
      /\ child' = [child EXCEPT ![p].state = "failed"]
      /\ Notify(p, LAMBDA w : Settled(w, "rejected", None, FALSE))
  BY DEF IInv, Typed, SpawnFails
<1>2. PICK new : new = [child[p] EXCEPT !.state = "failed"]
  OBVIOUS
<1>3. /\ new \in ChildType /\ new.state = "failed" /\ new.exec = child[p].exec
      /\ new.source = child[p].source /\ new.aborted = child[p].aborted
  BY <1>1, <1>2 DEF ChildType
<1>4. child' = [child EXCEPT ![p] = new]
  BY <1>1, <1>2 DEF Typed
<1>5. /\ Evolves /\ LastChild' /\ child' \in [Children -> ChildType]
      /\ \A q \in Children : child'[q].state = "none" <=> q > spawnId'
      /\ p \in 1..spawnId /\ p # None /\ child'[p].state = "failed"
  BY <1>1, <1>3, <1>4, ChildChanged
<1> QED
  BY <1>1, <1>5, ErrorTold

\* A child is aborted.
LEMMA AbortInv ==
    ASSUME ProcessesAssumption, IInv, NEW p \in Children, Abort(p)
    PROVE  IInv'
<1>1. /\ Typed /\ LastChild /\ UNCHANGED <<spawnId, context, captured>>
      /\ child[p].state = "running" /\ child[p] \in ChildType
      /\ child' = [child EXCEPT ![p].aborted = TRUE]
      /\ Notify(p, LAMBDA w : Settled(w, "rejected", None, FALSE))
  BY DEF IInv, Typed, Abort
<1>2. PICK new : new = [child[p] EXCEPT !.aborted = TRUE]
  OBVIOUS
<1>3. /\ new \in ChildType /\ new.state = "running" /\ new.exec = child[p].exec
      /\ new.source = child[p].source /\ new.aborted
  BY <1>1, <1>2 DEF ChildType
<1>4. child' = [child EXCEPT ![p] = new]
  BY <1>1, <1>2 DEF Typed
<1>5. /\ Evolves /\ LastChild' /\ child' \in [Children -> ChildType]
      /\ \A q \in Children : child'[q].state = "none" <=> q > spawnId'
      /\ p \in 1..spawnId /\ p # None /\ child'[p].aborted
  BY <1>1, <1>3, <1>4, ChildChanged
<1> QED
  BY <1>1, <1>5, ErrorTold

\* A child exits: whoever waits for it is told.
LEMMA ExitInv ==
    ASSUME ProcessesAssumption, IInv, NEW p \in Children, NEW code \in Codes, Exit(p, code)
    PROVE  IInv'
<1> DEFINE x == ExitCodeOf(code)
           known(q) == IF q = p THEN x ELSE child[q].exitCode
           As(w) == IF x = 0 THEN Settled(w, "resolved", 0, FALSE)
                    ELSE IF w.exec \in Ignoring /\ known(context[w.exec]) # None
                    THEN Settled(w, "resolved", known(context[w.exec]), context[w.exec] # p)
                    ELSE Settled(w, "rejected", None, context[w.exec] # p)
           After(w) == IF Awaits(w, p) THEN As(w) ELSE w
           G == [c \in DOMAIN calls |->
                   [k \in 1..Len(calls[c].waits) |-> After(calls[c].waits[k])]]
<1>1. /\ Typed /\ LastChild /\ Honest /\ UNCHANGED <<spawnId, context, captured>>
      /\ spawnId \in Int /\ child[p].state = "running" /\ child[p] \in ChildType
      /\ calls \in Seq(CallType)
  BY DEF IInv, Typed, Exit
<1>2. x \in Int /\ (x = 0 <=> code = 0) /\ code \in Codes \cup {None} /\ x # None
  BY DEF ProcessesAssumption, ExitCodeOf
<1> DEFINE heard == Awaited(p) \/ child[p].aborted
<1>3. Awaited(p) => heard
  OBVIOUS
<1>4. PICK new : new = IF heard
                       THEN [child[p] EXCEPT !.state = "exited", !.code = code, !.exitCode = x]
                       ELSE [child[p] EXCEPT !.state = "exited"]
  OBVIOUS
<1>5. /\ new \in ChildType /\ new.state = "exited" /\ new.exec = child[p].exec
      /\ new.source = child[p].source /\ new.aborted = child[p].aborted
      /\ Awaited(p) => new.code = code
  <2> HIDE DEF x, heard
  <2> QED
    BY <1>1, <1>2, <1>3, <1>4 DEF ChildType
<1>6. child' = [child EXCEPT ![p] = new]
  <2>1. child' = [child EXCEPT ![p] =
                     IF heard
                     THEN [child[p] EXCEPT !.state = "exited", !.code = code, !.exitCode = x]
                     ELSE [child[p] EXCEPT !.state = "exited"]]
    BY DEF Exit
  <2> HIDE DEF heard, x
  <2> QED
    BY <1>4, <2>1
<1>7. /\ Evolves /\ LastChild' /\ child' \in [Children -> ChildType]
      /\ \A q \in Children : child'[q].state = "none" <=> q > spawnId'
      /\ child'[p] = new /\ p \in 1..spawnId' /\ p # None /\ spawnId' \in Int
  BY <1>1, <1>5, <1>6, ChildChanged
<1>8. ASSUME NEW w \in WaitType, HonestWait(w), Awaits(w, p) => Awaited(p),
             NEW nw, nw = After(w)
      PROVE  /\ nw \in WaitType /\ HonestWait(nw)' /\ nw.child = w.child /\ nw.exec = w.exec
             /\ w.state = "resolved" => nw = w
  <2>1. CASE ~Awaits(w, p)
    BY <1>1, <1>7, <1>8, <2>1, WaitKept
  <2>2. CASE Awaits(w, p)
    <3>1. /\ w.child = p /\ w.state = "pending"
          /\ context'[w.exec] = context[w.exec] /\ context[w.exec] # None
          /\ w.exec \in Execs /\ nw = As(w)
          /\ child'[p].state = "exited" /\ child'[p].code = code
      BY <1>1, <1>5, <1>7, <1>8, <2>2 DEF Awaits, HonestWait, WaitType
    <3>2. PICK now \in Children : now = context[w.exec]
      BY <1>1, <3>1 DEF Typed, Children, ProcessesAssumption
    <3>3. known(now) \in Int \cup {None} /\ (now = p => known(now) = x)
      BY <1>1, <1>2 DEF Typed, ChildType
    <3> HIDE DEF x, known
    <3>4. CASE x = 0
      <4>1. nw = Settled(w, "resolved", 0, FALSE)
        BY <3>1, <3>4
      <4> QED
        BY <1>2, <1>7, <3>1, <3>4, <4>1 DEF Settled, HonestWait, WaitType, SettledState, x
    <3>5. CASE x # 0 /\ w.exec \in Ignoring /\ known(now) # None
      <4>1. nw = Settled(w, "resolved", known(now), now # p)
        BY <3>1, <3>2, <3>5
      <4>2. nw \in WaitType
        BY <3>1, <3>3, <4>1 DEF Settled, WaitType, SettledState
      <4>3. /\ nw.child = p /\ nw.exec = w.exec /\ nw.state = "resolved"
            /\ nw.value = known(now) /\ (~nw.stale => now = p)
        <5>1. nw.stale <=> now # p
          BY <4>1, Zenon DEF Settled
        <5> QED
          BY <3>1, <4>1, <5>1 DEF Settled
      <4> QED
        BY <1>2, <1>7, <3>1, <3>3, <3>5, <4>2, <4>3 DEF HonestWait, x
    <3>6. CASE x # 0 /\ ~(w.exec \in Ignoring /\ known(now) # None)
      <4>1. nw = Settled(w, "rejected", None, now # p)
        BY <3>1, <3>2, <3>6
      <4>2. nw \in WaitType
        BY <3>1, <4>1 DEF Settled, WaitType, SettledState
      <4>3. /\ nw.child = p /\ nw.exec = w.exec /\ nw.state = "rejected"
            /\ (~nw.stale => now = p)
        <5>1. nw.stale <=> now # p
          BY <4>1, Zenon DEF Settled
        <5> QED
          BY <3>1, <4>1, <5>1 DEF Settled
      <4> QED
        BY <1>2, <1>7, <3>1, <3>3, <3>6, <4>2, <4>3 DEF HonestWait, x
    <3> QED
      BY <3>4, <3>5, <3>6
  <2> QED
    BY <2>1, <2>2
<1>9. calls' = [c \in DOMAIN calls |-> Outcome([calls[c] EXCEPT !.waits = G[c]])]
  <2>1. calls' = [c \in DOMAIN calls |-> Outcome([calls[c] EXCEPT !.waits =
                     [k \in 1..Len(calls[c].waits) |-> After(calls[c].waits[k])]])]
    BY DEF Exit, Notify
  <2> HIDE DEF After
  <2> QED
    BY <2>1
<1> HIDE DEF After
<1>10. PICK g : g = G
  OBVIOUS
<1>11. ASSUME NEW c \in DOMAIN calls PROVE Honestly(calls[c], g[c])
  <2>1. calls[c] \in CallType /\ HonestCall(calls[c])
    BY <1>1, ElementOfSeq, LenProperties DEF Honest
  <2>2. \A k \in 1..Len(calls[c].waits) : calls[c].waits[k] \in WaitType
    BY <2>1, ElementOfSeq DEF CallType
  <2>3. ASSUME NEW k \in 1..Len(calls[c].waits)
        PROVE  /\ g[c][k] \in WaitType /\ HonestWait(g[c][k])'
               /\ g[c][k].child = calls[c].waits[k].child
               /\ g[c][k].exec = calls[c].waits[k].exec
               /\ calls[c].waits[k].state = "resolved" => g[c][k] = calls[c].waits[k]
    <3>1. PICK w \in WaitType : w = calls[c].waits[k] /\ HonestWait(w)
      BY <2>1, <2>2 DEF HonestCall
    <3>2. Awaits(w, p) => Awaited(p)
      BY <3>1 DEF Awaited
    <3>3. g[c][k] = After(w)
      BY <1>10, <3>1
    <3> QED
      BY <1>8, <3>1, <3>2, <3>3
  <2> QED
    BY <1>10, <2>3 DEF Honestly
<1>12. Become(g)
  BY <1>9, <1>10 DEF Become
<1>13. calls' \in Seq(CallType) /\ Honest'
  BY <1>1, <1>7, <1>11, <1>12, Notified
<1> QED
  BY <1>1, <1>7, <1>13 DEF IInv, Typed

\* Nothing changes.
LEMMA StutterInv ==
    ASSUME IInv, UNCHANGED vars
    PROVE  IInv'
<1>1. /\ UNCHANGED <<spawnId, context, captured, child, calls>> /\ Typed' /\ LastChild'
      /\ Typed /\ Honest /\ spawnId' \in Int
  BY DEF IInv, vars, Typed, LastChild
<1>2. Evolves
  BY <1>1 DEF Evolves, Typed
<1> QED
  BY <1>1, <1>2, CallsStay DEF IInv

\* Every step keeps the inductive invariant.
LEMMA NextInv ==
    ASSUME ProcessesAssumption, IInv, [Next]_vars
    PROVE  IInv'
<1>1. ASSUME NEW e \in Capturing, SetStdOut(e) PROVE IInv'
  BY <1>1, SetStdOutInv
<1>2. ASSUME NEW items \in {<<e>> : e \in Execs} \cup {Items},
             Begin("run", items) \/ Begin("start", items) \/ Wait(items)
      PROVE  IInv'
  <2>1. items \in Seq(Execs) \ {<<>>}
    <3>1. CASE items = Items
      BY <3>1 DEF ProcessesAssumption
    <3>2. CASE items \in {<<e>> : e \in Execs}
      <4>1. PICK e \in Execs : items = <<e>>
        BY <3>2
      <4> QED
        BY <4>1
    <3> QED
      BY <3>1, <3>2
  <2> QED
    BY <1>2, <2>1, BeginInv, WaitInv
<1>3. ASSUME NEW c \in DOMAIN calls, LaunchNext(c) \/ GiveUp(c) \/ AllStarted(c)
      PROVE  IInv'
  BY <1>3, LaunchNextInv, GiveUpInv, AllStartedInv
<1>4. ASSUME NEW p \in Children,
             \/ Spawned(p) \/ SpawnFails(p) \/ Abort(p) \/ Read(p)
             \/ \E code \in Codes : Exit(p, code)
      PROVE  IInv'
  BY <1>4, SpawnedInv, SpawnFailsInv, AbortInv, ReadInv, ExitInv
<1>5. CASE UNCHANGED vars
  BY <1>5, StutterInv
<1> QED
  BY <1>1, <1>2, <1>3, <1>4, <1>5 DEF Next

-----------------------------------------------------------------------------
\* A wait that has settled tells the end of the child it was for, however many
\* children there are, whoever else waits for them or starts the Exec again (the
\* waits of an Exec that has been started again excepted, see WaitHonest); and the
\* types are as declared.
THEOREM WaitsTellTheTruth == Spec => [](TypeOK /\ WaitHonest)
<1>1. Init => IInv
  BY ProcessesAssumption, InitInv
<1>2. IInv /\ [Next]_vars => IInv'
  BY ProcessesAssumption, NextInv
<1>3. IInv => WaitHonest
  <2> SUFFICES ASSUME IInv, NEW c \in DOMAIN calls, NEW w \in WaitsOf(c)
               PROVE  /\ w.state = "resolved" /\ ~w.stale =>
                            /\ child[w.child].state = "exited"
                            /\ w.value = Answer(child[w.child])
                            /\ w.value = 0 \/ w.exec \in Ignoring
                      /\ w.state = "rejected" /\ w.child # None /\ ~w.stale =>
                            \/ child[w.child].aborted \/ child[w.child].state = "failed"
                            \/ /\ child[w.child].state = "exited"
                               /\ child[w.child].code # 0 /\ w.exec \notin Ignoring
    BY DEF WaitHonest
  <2>1. HonestWait(w)
    BY DEF IInv, Honest, HonestCall, WaitsOf
  <2> QED
    BY <2>1 DEF HonestWait, ExitCodeOf, Answer
<1>4. IInv => TypeOK
  <2> SUFFICES ASSUME Typed PROVE TypeOK
    BY DEF IInv
  <2>1. context \in [Execs -> Children \cup {None}]
    BY ProcessesAssumption DEF Typed, Children
  <2>2. \A c \in DOMAIN calls : calls[c].state \in {"starting", "pending", "resolved", "rejected"}
    <3> SUFFICES ASSUME NEW c \in DOMAIN calls
                 PROVE  calls[c].state \in {"starting", "pending", "resolved", "rejected"}
      OBVIOUS
    <3>1. calls[c] \in CallType
      BY LenProperties, ElementOfSeq DEF Typed
    <3> QED
      BY <3>1 DEF CallType, SettledState
  <2> QED
    BY <2>1, <2>2 DEF Typed, TypeOK
<1> QED
  BY <1>1, <1>2, <1>3, <1>4, PTL DEF Spec

\* A run that resolves has started all of its children and seen each of them exit,
\* and answers with the code of the last one, whatever happens in between, unless one
\* of its Exec objects is started again before the run listens; for any pipe, also
\* one that holds an Exec twice (which starts it again).
THEOREM RunsResolveAtTheEnd == Spec => []RunResolves
<1>1. Init => IInv
  BY ProcessesAssumption, InitInv
<1>2. IInv /\ [Next]_vars => IInv'
  BY ProcessesAssumption, NextInv
<1>3. IInv => RunResolves
  <2> SUFFICES ASSUME IInv, NEW c \in DOMAIN calls, NEW call, call = calls[c],
                      call.op = "run", call.state = "resolved", Alone(call)
               PROVE  /\ Len(call.own) = Len(call.items)
                      /\ \A k \in 1..Len(call.items) :
                            /\ child[call.own[k]].state = "exited"
                            /\ child[call.own[k]].code = 0 \/ call.items[k] \in Ignoring
                      /\ \/ call.waits[Len(call.items)].stale
                         \/ call.value = Answer(child[call.own[Len(call.items)]])
    BY DEF RunResolves
  <2>1. call \in CallType /\ HonestCall(call) /\ OwnCall(call)
    BY LenProperties, ElementOfSeq DEF IInv, Typed, Honest
  <2>2. Len(call.items) \in Nat /\ Len(call.items) \in 1..Len(call.items)
    BY <2>1, LenProperties DEF CallType, OwnCall
  <2>3. /\ Len(call.own) = Len(call.items) /\ Len(call.waits) = Len(call.items)
        /\ \A k \in 1..Len(call.items) : /\ call.waits[k].exec = call.items[k]
                                         /\ call.waits[k].child = call.own[k]
    BY <2>1 DEF OwnCall
  <2>4. /\ \A k \in 1..Len(call.items) :
              HonestWait(call.waits[k]) /\ call.waits[k].state = "resolved"
        /\ call.value = call.waits[Len(call.items)].value
    BY <2>1, <2>2, <2>3 DEF HonestCall
  <2>5. ASSUME NEW k \in 1..Len(call.items)
        PROVE  /\ child[call.own[k]].state = "exited"
               /\ child[call.own[k]].code = 0 \/ call.items[k] \in Ignoring
               /\ call.waits[k].stale \/ call.waits[k].value = Answer(child[call.own[k]])
    <3>1. HonestWait(call.waits[k]) /\ call.waits[k].state = "resolved"
          /\ call.waits[k].exec = call.items[k] /\ call.waits[k].child = call.own[k]
      BY <2>3, <2>4
    <3>2. /\ child[call.own[k]].state = "exited"
          /\ (call.waits[k].value = 0 /\ ~call.waits[k].stale) \/ call.items[k] \in Ignoring
          /\ ~call.waits[k].stale => call.waits[k].value = ExitCodeOf(child[call.own[k]].code)
      BY <3>1 DEF HonestWait
    <3> QED
      BY <3>2 DEF ExitCodeOf, Answer
  <2> QED
    BY <2>2, <2>3, <2>4, <2>5
<1> QED
  BY <1>1, <1>2, <1>3, PTL DEF Spec

\* Each child of a pipe reads what the child before it writes, the one that was started
\* for the same call, however many calls start and wait at the same time, unless one of
\* the Exec objects is started again before all of the pipe has started.
THEOREM PipesStayConnected == Spec => []Connected
<1>1. Init => IInv
  BY ProcessesAssumption, InitInv
<1>2. IInv /\ [Next]_vars => IInv'
  BY ProcessesAssumption, NextInv
<1>3. IInv => Connected
  BY DEF IInv, Honest, OwnCall, Connected
<1> QED
  BY <1>1, <1>2, <1>3, PTL DEF Spec
=============================================================================
