--------------------------- MODULE LibraryProofs ---------------------------
(* Proofs about the two libraries that stand alone.                          *)
(* ContextTree (asyncctx): one callback runs at a time (~Nested), and a      *)
(* destroyed resource triggers nothing (~LateTriggers), for any number of    *)
(* resources, any contexts and any number of calls of enable, disable and    *)
(* dispose.                                                                  *)
(* JsonPointer (jsonpointerx): for any segments and any values that are set, *)
(* pointers of any length and documents of any size.                         *)
EXTENDS ContextTree, JsonPointer, TLAPS, SequenceTheorems, WellFoundedInduction

-----------------------------------------------------------------------------
\* Following links to smaller numbers

\* A set of numbers that is not empty has a smallest member.
LEMMA SmallestMember ==
    ASSUME NEW S \in SUBSET Nat, S # {}
    PROVE  \E m \in S : \A k \in S : m <= k
<1>1. IsWellFoundedOn(OpToRel(<, Nat), Nat)
  BY NatLessThanWellFounded
<1>2. PICK m \in S : \A k \in S : ~(<<k, m>> \in OpToRel(<, Nat))
  BY <1>1, WFMin
<1>3. m \in Nat
  OBVIOUS
<1>4. \A k \in S : m <= k
  <2> SUFFICES ASSUME NEW k \in S PROVE m <= k
    OBVIOUS
  <2>1. k \in Nat
    OBVIOUS
  <2>2. ~(k < m)
    BY <1>2, <1>3, <2>1 DEF OpToRel
  <2> QED
    BY <1>3, <2>1, <2>2
<1> QED
  BY <1>4

\* Every number that is not in stop has a link to a smaller one.
Links(n, stop, next) ==
    n \in Nat /\ \A i \in (1..n) \ stop : next[i] \in 1..i - 1

\* f is what base says of the number that the links lead to.
Follows(f, n, stop, base, next) ==
    f = [i \in 1..n |-> IF i \in stop THEN base[i] ELSE f[next[i]]]

\* f is the set of the numbers that the links lead to.
Gathers(f, n, stop, next) ==
    f = [i \in 1..n |-> {i} \cup IF i \in stop THEN {} ELSE f[next[i]]]

\* There is such an f.
LEMMA FollowExists ==
    ASSUME NEW n, NEW stop, NEW base, NEW next, Links(n, stop, next)
    PROVE  \E f : Follows(f, n, stop, base, next)
<1> DEFINE Defined(m) == \E f : Follows(f, m, stop, base, next)
           B == {m \in 0..n : ~Defined(m)}
<1>0. n \in Nat /\ n \in 0..n /\ Defined(n) => \E f : Follows(f, n, stop, base, next)
  BY DEF Links
<1>1. Defined(0)
  <2>1. Follows([i \in 1..0 |-> 0], 0, stop, base, next)
    BY DEF Follows
  <2> QED
    BY <2>1
<1>2. ASSUME NEW m \in 1..n, Defined(m - 1)
      PROVE  Defined(m)
  <2>1. PICK f : f = [i \in 1..m - 1 |-> IF i \in stop THEN base[i] ELSE f[next[i]]]
    BY <1>2 DEF Follows
  <2> DEFINE g == [i \in 1..m |->
          IF i = m THEN IF m \in stop THEN base[m] ELSE f[next[m]] ELSE f[i]]
  <2>2. m \in Nat /\ \A i \in 1..m : i \notin stop =>
            next[i] \in 1..m - 1 /\ g[next[i]] = f[next[i]]
    BY DEF Links
  <2>3. ASSUME NEW i \in 1..m
        PROVE  g[i] = IF i \in stop THEN base[i] ELSE g[next[i]]
    <3>1. CASE i = m
      BY <2>2, <3>1
    <3>2. CASE i # m
      <4>1. i \in 1..m - 1 /\ g[i] = f[i]
        BY <2>2, <3>2
      <4>2. f[i] = IF i \in stop THEN base[i] ELSE f[next[i]]
        BY <2>1, <4>1
      <4> QED
        BY <2>2, <4>1, <4>2
    <3> QED
      BY <3>1, <3>2
  <2>4. g = [i \in 1..m |-> IF i \in stop THEN base[i] ELSE g[next[i]]]
    BY <2>3
  <2>5. Follows(g, m, stop, base, next)
    BY <2>4 DEF Follows
  <2> QED
    BY <2>5
<1> HIDE DEF Defined
<1>3. SUFFICES ASSUME B # {} PROVE FALSE
  <2>1. n \in Nat /\ n \in 0..n
    BY DEF Links
  <2>2. B = {} => Defined(n)
    BY <2>1
  <2> QED
    BY <1>0, <1>3, <2>1, <2>2
<1>4. B \in SUBSET Nat
  OBVIOUS
<1>5. PICK m \in B : \A k \in B : m <= k
  BY <1>3, <1>4, SmallestMember
<1>6. m \in 1..n /\ Defined(m - 1)
  BY <1>1, <1>5 DEF Links
<1> QED
  BY <1>2, <1>5, <1>6

\* The same for the set.
LEMMA GatherExists ==
    ASSUME NEW n, NEW stop, NEW next, Links(n, stop, next)
    PROVE  \E f : Gathers(f, n, stop, next)
<1> DEFINE Defined(m) == \E f : Gathers(f, m, stop, next)
           B == {m \in 0..n : ~Defined(m)}
<1>0. n \in Nat /\ n \in 0..n /\ Defined(n) => \E f : Gathers(f, n, stop, next)
  BY DEF Links
<1>1. Defined(0)
  <2>1. Gathers([i \in 1..0 |-> 0], 0, stop, next)
    BY DEF Gathers
  <2> QED
    BY <2>1
<1>2. ASSUME NEW m \in 1..n, Defined(m - 1)
      PROVE  Defined(m)
  <2>1. PICK f : f = [i \in 1..m - 1 |-> {i} \cup IF i \in stop THEN {} ELSE f[next[i]]]
    BY <1>2 DEF Gathers
  <2> DEFINE g == [i \in 1..m |->
          IF i = m THEN {m} \cup IF m \in stop THEN {} ELSE f[next[m]] ELSE f[i]]
  <2>2. m \in Nat /\ \A i \in 1..m : i \notin stop =>
            next[i] \in 1..m - 1 /\ g[next[i]] = f[next[i]]
    BY DEF Links
  <2>3. ASSUME NEW i \in 1..m
        PROVE  g[i] = {i} \cup IF i \in stop THEN {} ELSE g[next[i]]
    <3>1. CASE i = m
      BY <2>2, <3>1
    <3>2. CASE i # m
      <4>1. i \in 1..m - 1 /\ g[i] = f[i]
        BY <2>2, <3>2
      <4>2. f[i] = {i} \cup IF i \in stop THEN {} ELSE f[next[i]]
        BY <2>1, <4>1
      <4> QED
        BY <2>2, <4>1, <4>2
    <3> QED
      BY <3>1, <3>2
  <2>4. g = [i \in 1..m |-> {i} \cup IF i \in stop THEN {} ELSE g[next[i]]]
    BY <2>3
  <2>5. Gathers(g, m, stop, next)
    BY <2>4 DEF Gathers
  <2> QED
    BY <2>5
<1> HIDE DEF Defined
<1>3. SUFFICES ASSUME B # {} PROVE FALSE
  <2>1. n \in Nat /\ n \in 0..n
    BY DEF Links
  <2>2. B = {} => Defined(n)
    BY <2>1
  <2> QED
    BY <1>0, <1>3, <2>1, <2>2
<1>4. B \in SUBSET Nat
  OBVIOUS
<1>5. PICK m \in B : \A k \in B : m <= k
  BY <1>3, <1>4, SmallestMember
<1>6. m \in 1..n /\ Defined(m - 1)
  BY <1>1, <1>5 DEF Links
<1> QED
  BY <1>2, <1>5, <1>6

-----------------------------------------------------------------------------
\* The inductive invariant

\* While the hooks are enabled, the map mirrors the tree that node has built:
\* the registered resources are those that have not been destroyed; one that has
\* started has its context in its own hook and no link, one that has not has the
\* link to its trigger, which has been there before; and the current resource is
\* the one that runs, which has started, or the root for one nobody has seen.
Mirrored ==
    /\ idHookMap = known \ gone
    /\ \A i \in Ids : hook[i].activated <=> i \in ran
    /\ \A i \in Ids \ (known \ ran) : hook[i].triggerHook = 0
    /\ \A i \in ran : hook[i].data = value[i]
    /\ \A i \in known \ ran :
          hook[i].triggerHook = trigger[i] /\ trigger[i] \in known \cap (1..i - 1)
    /\ currId = IF Top \in known THEN Top ELSE Root
    /\ Top \in known => Top \in ran

\* What holds without the hooks: at most one callback runs, of a resource that
\* has not been destroyed, and the root keeps its context.
Ordered ==
    /\ stack = <<>> \/ \E id \in 2..last \ gone : stack = <<id>>
    /\ known \subseteq 1..last /\ gone \subseteq 2..last
    /\ Root \in ran /\ hook[Root].data = value[Root]

IInv == TypeOK /\ Ordered /\ (enabled => Mirrored)

-----------------------------------------------------------------------------
\* Owner and findActivatedNode

\* The equation of Owner.
LEMMA OwnerDef ==
    ASSUME TreeAssumption, TypeOK, Mirrored
    PROVE  \A i \in Ids : Owner[i] =
               IF i \notin known THEN Root ELSE IF i \in ran THEN i ELSE Owner[trigger[i]]
<1> DEFINE stop == (Ids \ known) \cup ran
           base == [i \in Ids |-> IF i \notin known THEN Root ELSE i]
<1>1. Links(MaxId, stop, trigger)
  BY DEF TreeAssumption, Mirrored, Ids, Links
<1>2. PICK f : Follows(f, MaxId, stop, base, trigger)
  <2> HIDE DEF stop, base
  <2> QED
    BY <1>1, FollowExists
<1>3. f = [i \in Ids |-> IF i \notin known THEN Root ELSE IF i \in ran THEN i
                         ELSE f[trigger[i]]]
  <2>1. f = [i \in Ids |-> IF i \in stop THEN base[i] ELSE f[trigger[i]]]
    BY <1>2 DEF Follows, Ids
  <2>2. \A i \in Ids : f[i] = IF i \notin known THEN Root ELSE IF i \in ran THEN i
                               ELSE f[trigger[i]]
    BY <2>1 DEF TypeOK
  <2> QED
    BY <2>1, <2>2
<1>4. Owner = [i \in Ids |-> IF i \notin known THEN Root ELSE IF i \in ran THEN i
                             ELSE Owner[trigger[i]]]
  BY <1>3 DEF Owner
<1> QED
  BY <1>4

\* The equation of findActivatedNode.
LEMMA ActivatedDef ==
    ASSUME TreeAssumption, TypeOK, Mirrored
    PROVE  \A i \in Ids : findActivatedNode[i] =
               IF hook[i].activated THEN i
               ELSE IF hook[i].triggerHook = 0 THEN Root
               ELSE findActivatedNode[hook[i].triggerHook]
<1> DEFINE stop == {i \in Ids : hook[i].activated \/ hook[i].triggerHook = 0}
           base == [i \in Ids |-> IF hook[i].activated THEN i ELSE Root]
           next == [i \in Ids |-> hook[i].triggerHook]
<1>1. Links(MaxId, stop, next)
  <2> SUFFICES ASSUME NEW i \in Ids, i \notin stop PROVE next[i] \in 1..i - 1
    BY DEF TreeAssumption, Links, Ids
  <2>1. i \in known \ ran
    BY DEF Mirrored
  <2> QED
    BY <2>1 DEF Mirrored
<1>2. PICK f : Follows(f, MaxId, stop, base, next)
  <2> HIDE DEF stop, base, next
  <2> QED
    BY <1>1, FollowExists
<1>3. f = [i \in Ids |-> IF hook[i].activated THEN i
                         ELSE IF hook[i].triggerHook = 0 THEN Root
                         ELSE f[hook[i].triggerHook]]
  <2>1. f = [i \in Ids |-> IF i \in stop THEN base[i] ELSE f[next[i]]]
    BY <1>2 DEF Follows, Ids
  <2>2. \A i \in Ids : f[i] = IF hook[i].activated THEN i
                               ELSE IF hook[i].triggerHook = 0 THEN Root
                               ELSE f[hook[i].triggerHook]
    BY <2>1
  <2> QED
    BY <2>1, <2>2
<1>4. findActivatedNode = [i \in Ids |-> IF hook[i].activated THEN i
                                         ELSE IF hook[i].triggerHook = 0 THEN Root
                                         ELSE findActivatedNode[hook[i].triggerHook]]
  BY <1>3 DEF findActivatedNode
<1> QED
  BY <1>4

\* The chain of triggerHook, which skips what has started, ends where the chain
\* of triggers does: at a resource that has started.
LEMMA SameOwner ==
    ASSUME TreeAssumption, TypeOK, Mirrored
    PROVE  \A i \in known : Owner[i] \in ran /\ findActivatedNode[i] = Owner[i]
<1> DEFINE Good(i) == Owner[i] \in ran /\ findActivatedNode[i] = Owner[i]
           B == {i \in known : ~Good(i)}
<1>1. SUFFICES ASSUME B # {} PROVE FALSE
  BY <1>1
<1>2. B \in SUBSET Nat /\ known \subseteq Ids
  <2>1. known \subseteq Ids /\ Ids \subseteq Nat
    BY DEF TypeOK, Ids
  <2>2. B \subseteq known
    OBVIOUS
  <2> QED
    BY <2>1, <2>2
<1>3. PICK m \in B : \A k \in B : m <= k
  <2> HIDE DEF B
  <2> QED
    BY <1>1, <1>2, SmallestMember
<1>4. m \in known /\ m \in Ids /\ ~Good(m)
  BY <1>2, <1>3
<1>5. Owner[m] = IF m \in ran THEN m ELSE Owner[trigger[m]]
  BY <1>4, OwnerDef
<1>6. findActivatedNode[m] = IF hook[m].activated THEN m
                             ELSE IF hook[m].triggerHook = 0 THEN Root
                             ELSE findActivatedNode[hook[m].triggerHook]
  BY <1>4, ActivatedDef
<1>7. CASE m \in ran
  BY <1>4, <1>5, <1>6, <1>7 DEF Mirrored
<1>8. CASE m \notin ran
  <2> DEFINE t == trigger[m]
  <2>1. t \in known /\ t \in 1..m - 1 /\ hook[m].triggerHook = t /\ ~hook[m].activated
    BY <1>4, <1>8 DEF Mirrored
  <2>2. Good(t)
    <3>1. m \in Nat /\ t \in Nat /\ ~(m <= t)
      BY <1>4, <2>1 DEF Ids
    <3> QED
      BY <1>3, <2>1, <3>1
  <2>3. Owner[m] = Owner[t] /\ findActivatedNode[m] = findActivatedNode[t]
    BY <1>5, <1>6, <1>8, <2>1
  <2> QED
    BY <1>4, <2>2, <2>3
<1> QED
  BY <1>7, <1>8

\* What is found for a resource is its context.
LEMMA OwnData ==
    ASSUME TreeAssumption, TypeOK, Mirrored
    PROVE  \A i \in known : hook[findActivatedNode[i]].data = value[Owner[i]]
BY SameOwner DEF Mirrored

\* Hence the program finds the context of the resource it runs in.
LEMMA InvOwnContext ==
    ASSUME TreeAssumption, IInv
    PROVE  OwnContext
<1> SUFFICES ASSUME enabled PROVE getContext = value[Owner[Top]]
  BY DEF OwnContext
<1> USE DEF IInv
<1>1. Top \in Ids /\ Top \notin gone /\ Root \in known /\ Root \notin gone
  BY DEF Ordered, TypeOK, Top, Ids, Root, TreeAssumption
<1>2. currId \in idHookMap /\ currId \in ran
  BY <1>1 DEF Mirrored, Ordered
<1>3. Owner[Top] = currId
  BY <1>1, OwnerDef DEF Mirrored
<1> QED
  BY <1>2, <1>3 DEF Mirrored, getContext

\* And a resource that has started leads to no other.
LEMMA InvOnlyPendingHold ==
    ASSUME TreeAssumption, IInv
    PROVE  OnlyPendingHold
<1> SUFFICES ASSUME NEW g \in gone, enabled, g \in Held
             PROVE  \E i \in idHookMap : ~hook[i].activated /\ g \in leadsTo[i]
  BY DEF OnlyPendingHold
<1> USE DEF IInv
<1> DEFINE stop == {i \in Ids : hook[i].triggerHook = 0}
           next == [i \in Ids |-> hook[i].triggerHook]
<1>1. Links(MaxId, stop, next)
  <2> SUFFICES ASSUME NEW i \in Ids, i \notin stop PROVE next[i] \in 1..i - 1
    BY DEF TreeAssumption, Links, Ids
  <2>1. i \in known \ ran
    BY DEF Mirrored
  <2> QED
    BY <2>1 DEF Mirrored
<1>2. PICK f : Gathers(f, MaxId, stop, next)
  <2> HIDE DEF stop, next
  <2> QED
    BY <1>1, GatherExists
<1>3. f = [i \in Ids |-> {i} \cup IF hook[i].triggerHook = 0 THEN {}
                                  ELSE f[hook[i].triggerHook]]
  <2>1. f = [i \in Ids |-> {i} \cup IF i \in stop THEN {} ELSE f[next[i]]]
    BY <1>2 DEF Gathers, Ids
  <2>2. \A i \in Ids : f[i] = {i} \cup IF hook[i].triggerHook = 0 THEN {}
                                        ELSE f[hook[i].triggerHook]
    BY <2>1
  <2> QED
    BY <2>1, <2>2
<1>4. leadsTo = [i \in Ids |-> {i} \cup IF hook[i].triggerHook = 0 THEN {}
                                        ELSE leadsTo[hook[i].triggerHook]]
  BY <1>3 DEF leadsTo
<1>5. PICK i \in idHookMap : g \in leadsTo[i]
  BY DEF Held
<1>6. i \in Ids /\ i # g /\ i \in known
  BY DEF TypeOK, Mirrored
<1>7. ~hook[i].activated
  <2> SUFFICES ASSUME hook[i].activated PROVE FALSE
    OBVIOUS
  <2>1. hook[i].triggerHook = 0
    BY <1>6 DEF Mirrored
  <2>2. leadsTo[i] = {i}
    BY <1>4, <1>6, <2>1
  <2> QED
    BY <1>5, <1>6, <2>2
<1> QED
  BY <1>5, <1>7

-----------------------------------------------------------------------------
\* The steps.  The provers read the state of the stack as its top.

\* Initially.
LEMMA InitInv ==
    ASSUME TreeAssumption, Init
    PROVE  IInv
<1>1. TypeOK
  BY DEF Init, TypeOK, TreeAssumption, Ids, Root, HookInfo, RootHook, NoHook
<1>2. Ordered
  BY DEF Init, Ordered, TreeAssumption, Ids, Root, RootHook
<1>3. Mirrored
  <2>1. known = {Root} /\ ran = {Root} /\ gone = {} /\ idHookMap = {Root} /\ currId = Root
    BY DEF Init
  <2>2. Top = Root
    BY DEF Init, Top
  <2>3. \A i \in Ids : /\ hook[i].activated <=> i = Root
                       /\ hook[i].triggerHook = 0 /\ hook[i].data = None /\ value[i] = None
    BY DEF Init, RootHook, NoHook
  <2>4. Root \in Ids
    BY DEF Root, Ids, TreeAssumption
  <2> QED
    BY <2>1, <2>2, <2>3, <2>4 DEF Mirrored
<1> QED
  BY <1>1, <1>2, <1>3 DEF IInv

\* A new resource, linked to its trigger.
LEMMA CreateInv ==
    ASSUME TreeAssumption, ~LateTriggers, IInv, NEW t \in Ids, Create(t)
    PROVE  IInv'
<1> DEFINE id == last + 1
           p == IF t \in idHookMap THEN t ELSE Root
<1> USE DEF IInv
<1>1. /\ id \in Ids /\ last \in Nat /\ id \in Nat /\ last' = id
      /\ t \in 1..last /\ t \notin gone /\ Root \in 1..last
  BY DEF Create, TypeOK, TreeAssumption, Ids, Root
<1>2. Ordered'
  <2>1. id # Root
    BY <1>1 DEF Root
  <2>2. hook'[Root] = hook[Root] /\ value' = value /\ ran' = ran
    BY <1>1, <2>1 DEF Create, TypeOK, Ids
  <2>3. known' \subseteq 1..last' /\ gone' \subseteq 2..last' /\ stack' = stack
    <3>1. known' \subseteq known \cup {id} /\ gone' = gone /\ stack' = stack
      BY DEF Create
    <3>2. known \subseteq 1..last /\ gone \subseteq 2..last
      BY DEF Ordered
    <3> QED
      BY <1>1, <3>1, <3>2
  <2>4. stack = <<>> \/ \E k \in 2..last' \ gone' : stack = <<k>>
    BY <1>1 DEF Create, Ordered
  <2> QED
    BY <2>2, <2>3, <2>4 DEF Ordered
<1>3. CASE enabled
  <2>1. /\ id \notin known /\ id \notin gone /\ id \notin ran
        /\ p \in known /\ p \in 1..id - 1 /\ p = IF t \in known THEN t ELSE Root
    BY <1>1, <1>3 DEF Ordered, Mirrored, TypeOK
  <2>2. /\ hook' = [hook EXCEPT ![id] = [triggerHook |-> p, activated |-> FALSE,
                                       data |-> None]]
        /\ trigger' = [trigger EXCEPT ![id] = p]
        /\ known' = known \cup {id} /\ idHookMap' = idHookMap \cup {id}
        /\ UNCHANGED <<enabled, currId, stack, gone, toggles, ran, value>>
    BY <1>3, <2>1 DEF Create
  <2> HIDE DEF p, id
  <2>3. TypeOK'
    <3>1. p \in 0..MaxId
      BY <2>1, <1>1 DEF TypeOK, Ids, TreeAssumption
    <3>2. hook' \in [Ids -> HookInfo] /\ trigger' \in [Ids -> 0..MaxId]
      BY <1>1, <2>2, <3>1 DEF TypeOK, HookInfo
    <3> QED
      BY <1>1, <2>2, <3>2 DEF TypeOK
  <2>4. /\ hook'[id] = [triggerHook |-> p, activated |-> FALSE, data |-> None]
        /\ trigger'[id] = p
        /\ \A i \in Ids \ {id} : hook'[i] = hook[i] /\ trigger'[i] = trigger[i]
    BY <1>1, <2>2 DEF TypeOK
  <2>5. Top' = Top /\ Top # id
    <3>1. Top' = Top
      BY <2>2 DEF Top
    <3>2. Top \in 1..last
      BY <1>1 DEF Ordered, Top
    <3> QED
      BY <1>1, <3>1, <3>2 DEF id
  <2>6. Mirrored'
    <3>1. idHookMap' = known' \ gone'
      BY <1>3, <2>1, <2>2 DEF Mirrored
    <3>2. \A i \in Ids : hook'[i].activated <=> i \in ran'
      BY <1>3, <2>1, <2>2, <2>4 DEF Mirrored
    <3>3. \A i \in Ids \ (known' \ ran') : hook'[i].triggerHook = 0
      BY <1>3, <2>1, <2>2, <2>4 DEF Mirrored
    <3>4. \A i \in ran' : hook'[i].data = value'[i]
      BY <1>3, <2>1, <2>2, <2>4 DEF Mirrored, TypeOK
    <3>5. \A i \in known' \ ran' :
             hook'[i].triggerHook = trigger'[i] /\ trigger'[i] \in known' \cap (1..i - 1)
      BY <1>3, <2>1, <2>2, <2>4 DEF Mirrored, TypeOK
    <3>6. currId' = (IF Top' \in known' THEN Top' ELSE Root) /\ (Top' \in known' => Top' \in ran')
      BY <1>3, <2>2, <2>5 DEF Mirrored
    <3> QED
      BY <3>1, <3>2, <3>3, <3>4, <3>5, <3>6 DEF Mirrored
  <2> QED
    BY <1>2, <2>3, <2>6
<1>4. CASE ~enabled
  <2>1. TypeOK' /\ ~enabled'
    BY <1>1, <1>4 DEF Create, TypeOK
  <2> QED
    BY <1>2, <2>1
<1> QED
  BY <1>3, <1>4 DEF TypeOK

\* A callback starts: the resource takes over the context of its owner.
LEMMA BeforeInv ==
    ASSUME TreeAssumption, ~Nested, IInv, NEW id \in Ids, Before(id)
    PROVE  IInv'
<1> USE DEF IInv
<1>1. stack = <<>> /\ stack' = <<id>> /\ Top' = id
  <2>1. stack = <<>> /\ stack' = Append(stack, id)
    BY Zenon DEF Before
  <2>2. stack' = <<id>>
    BY <2>1
  <2>3. Len(stack') = 1 /\ stack'[1] = id /\ stack' # <<>>
    BY <2>2
  <2> QED
    BY <2>1, <2>2, <2>3 DEF Top
<1>2. /\ id \in 2..last \ gone /\ id # Root
      /\ UNCHANGED <<enabled, idHookMap, last, gone, toggles, known, trigger>>
  BY DEF Before, Root
<1>3. stack' \in Seq(Ids)
  BY <1>1
<1>4. CASE enabled /\ id \in idHookMap
  <2> DEFINE d == hook[findActivatedNode[id]].data
  <2>1. id \in known /\ d = value[Owner[id]] /\ Owner[id] \in Ids
    BY <1>4, OwnData, SameOwner DEF Mirrored, TypeOK
  <2>2. /\ hook' = [hook EXCEPT ![id] = RootHook(d)]
        /\ ran' = ran \cup {id} /\ value' = [value EXCEPT ![id] = d] /\ currId' = id
    BY <1>4, <2>1 DEF Before, Activated
  <2>3. d \in Values \cup {None}
    BY <2>1 DEF TypeOK
  <2> HIDE DEF d
  <2>4. TypeOK'
    <3>1. RootHook(d) \in HookInfo
      BY <2>3 DEF RootHook, HookInfo, TreeAssumption
    <3>2. hook' \in [Ids -> HookInfo] /\ value' \in [Ids -> Values \cup {None}]
      BY <2>2, <2>3, <3>1 DEF TypeOK
    <3> QED
      BY <1>2, <1>3, <2>1, <2>2, <3>2 DEF TypeOK
  <2>5. /\ hook'[id].activated /\ hook'[id].triggerHook = 0 /\ hook'[id].data = d
        /\ value'[id] = d
        /\ \A i \in Ids \ {id} : hook'[i] = hook[i] /\ value'[i] = value[i]
    BY <2>2 DEF TypeOK, RootHook
  <2>6. Ordered'
    <3>1. Root \in ran' /\ hook'[Root].data = value'[Root]
      BY <1>2, <2>2, <2>5 DEF Ordered, Root, Ids, TreeAssumption
    <3>2. stack' = <<id>> /\ id \in 2..last' \ gone'
      BY <1>1, <1>2
    <3> QED
      BY <1>2, <3>1, <3>2 DEF Ordered
  <2>7. Mirrored'
    <3>1. idHookMap' = known' \ gone'
      BY <1>2, <1>4 DEF Mirrored
    <3>2. \A i \in Ids : hook'[i].activated <=> i \in ran'
      BY <1>4, <2>2, <2>5 DEF Mirrored
    <3>3. \A i \in Ids \ (known' \ ran') : hook'[i].triggerHook = 0
      BY <1>2, <1>4, <2>2, <2>5 DEF Mirrored
    <3>4. \A i \in ran' : hook'[i].data = value'[i]
      BY <1>4, <2>2, <2>5 DEF Mirrored, TypeOK
    <3>5. \A i \in known' \ ran' :
             hook'[i].triggerHook = trigger'[i] /\ trigger'[i] \in known' \cap (1..i - 1)
      BY <1>2, <1>4, <2>2, <2>5 DEF Mirrored, TypeOK
    <3>6. currId' = (IF Top' \in known' THEN Top' ELSE Root) /\ (Top' \in known' => Top' \in ran')
      BY <1>1, <1>2, <2>1, <2>2
    <3> QED
      BY <3>1, <3>2, <3>3, <3>4, <3>5, <3>6 DEF Mirrored
  <2> QED
    BY <2>4, <2>6, <2>7
<1>5. CASE ~(enabled /\ id \in idHookMap)
  <2>1. UNCHANGED <<hook, ran, value>> /\ currId' = IF enabled THEN Root ELSE currId
    BY <1>5 DEF Before
  <2>2. TypeOK'
    BY <1>2, <1>3, <2>1 DEF TypeOK, Root, Ids, TreeAssumption
  <2>3. Ordered'
    <3>1. stack' = <<id>> /\ id \in 2..last' \ gone'
      BY <1>1, <1>2
    <3> QED
      BY <1>2, <2>1, <3>1 DEF Ordered
  <2>4. ASSUME enabled PROVE Mirrored'
    <3>1. id \notin known
      BY <1>2, <1>5, <2>4 DEF Mirrored
    <3> QED
      BY <1>1, <1>2, <2>1, <2>4, <3>1 DEF Mirrored
  <2> QED
    BY <1>2, <2>2, <2>3, <2>4
<1> QED
  BY <1>4, <1>5

\* It ends.
LEMMA AfterInv ==
    ASSUME TreeAssumption, IInv, After
    PROVE  IInv'
<1> USE DEF IInv
<1>1. PICK id \in 2..last \ gone : stack = <<id>>
  BY DEF After, Ordered
<1>2. Top = id /\ Len(stack) = 1
  <2>1. Len(stack) = 1 /\ stack[1] = id /\ stack # <<>>
    BY <1>1
  <2> QED
    BY <2>1 DEF Top
<1>3. stack' = <<>> /\ Top' = Root
  <2>1. stack' = SubSeq(stack, 1, 0)
    BY <1>2 DEF After
  <2>2. stack' = <<>>
    BY <1>1, <2>1
  <2> QED
    BY <2>2 DEF Top
<1>4. UNCHANGED <<enabled, idHookMap, hook, last, gone, toggles, known, trigger, ran, value>>
  BY DEF After, history
<1>5. TypeOK'
  <2>1. currId' \in Ids
    BY DEF After, TypeOK, Root, Ids, TreeAssumption
  <2> QED
    BY <1>3, <1>4, <2>1 DEF TypeOK
<1>6. Ordered'
  BY <1>3, <1>4 DEF Ordered
<1>7. ASSUME enabled PROVE Mirrored'
  <2>1. currId' = Root
    BY <1>7 DEF After, Mirrored
  <2> QED
    BY <1>3, <1>4, <1>7, <2>1 DEF Mirrored, Ordered
<1> QED
  BY <1>4, <1>5, <1>6, <1>7

\* A resource is destroyed; its hook is no longer registered.
LEMMA DestroyInv ==
    ASSUME TreeAssumption, IInv, NEW id \in Ids, Destroy(id)
    PROVE  IInv'
<1> USE DEF IInv
<1>1. /\ stack = <<>> /\ stack' = stack /\ Top = Root /\ Top' = Root
      /\ UNCHANGED <<enabled, hook, currId, last, toggles, known, trigger, ran, value>>
  BY DEF Destroy, history, Top
<1>2. gone' = gone \cup {id} /\ id \in 2..last
      /\ idHookMap' = IF enabled THEN idHookMap \ {id} ELSE idHookMap
  BY DEF Destroy
<1>3. TypeOK'
  BY <1>1, <1>2 DEF TypeOK
<1>4. Ordered'
  BY <1>1, <1>2 DEF Ordered
<1>5. ASSUME enabled PROVE Mirrored'
  BY <1>1, <1>2, <1>5 DEF Mirrored
<1> QED
  BY <1>1, <1>3, <1>4, <1>5

\* A context is set, in the hook of a resource and in the history alike.
LEMMA DataInv ==
    ASSUME TreeAssumption, IInv, NEW v \in Values, NEW c \in Ids,
           hook' = [hook EXCEPT ![c].data = v], value' = [value EXCEPT ![c] = v],
           UNCHANGED <<enabled, idHookMap, currId, last, stack, gone, toggles, known,
                       trigger, ran>>
    PROVE  IInv'
<1> USE DEF IInv
<1>1. /\ UNCHANGED <<enabled, idHookMap, currId, last, stack, gone, toggles, known,
                     trigger, ran>>
      /\ hook' = [hook EXCEPT ![c].data = v]
  OBVIOUS
<1>2. value' = [value EXCEPT ![c] = v]
  OBVIOUS
<1>3. Top' = Top
  BY <1>1 DEF Top
<1>4. /\ hook'[c] = [hook[c] EXCEPT !.data = v] /\ value'[c] = v
      /\ \A i \in Ids \ {c} : hook'[i] = hook[i] /\ value'[i] = value[i]
  BY <1>1, <1>2 DEF TypeOK
<1>5. /\ \A i \in Ids : /\ hook'[i].activated = hook[i].activated
                        /\ hook'[i].triggerHook = hook[i].triggerHook
      /\ \A i \in Ids : hook[i].data = value[i] => hook'[i].data = value'[i]
  <2>1. /\ hook'[c].activated = hook[c].activated
        /\ hook'[c].triggerHook = hook[c].triggerHook
        /\ hook'[c].data = v
    BY <1>4 DEF TypeOK, HookInfo
  <2> QED
    BY <1>4, <2>1
<1>6. TypeOK'
  <2>1. hook \in [Ids -> HookInfo] /\ hook[c] \in HookInfo
    BY DEF TypeOK
  <2>2. [hook[c] EXCEPT !.data = v] \in HookInfo
    BY <2>1 DEF HookInfo
  <2>3. hook' \in [Ids -> HookInfo]
    BY <1>1, <2>1, <2>2
  <2>4. value' \in [Ids -> Values \cup {None}]
    BY <1>2 DEF TypeOK
  <2> QED
    BY <1>1, <2>3, <2>4 DEF TypeOK
<1>7. Ordered'
  <2>1. Root \in Ids
    BY DEF Ids, Root, TreeAssumption
  <2>2. hook'[Root].data = value'[Root]
    BY <1>5, <2>1 DEF Ordered
  <2> QED
    BY <1>1, <2>2 DEF Ordered
<1>8. ASSUME enabled PROVE Mirrored'
  <2>1. \A i \in ran' : hook'[i].data = value'[i]
    BY <1>1, <1>5, <1>8 DEF Mirrored, TypeOK
  <2>2. \A i \in Ids : hook'[i].activated <=> i \in ran'
    BY <1>1, <1>5, <1>8 DEF Mirrored
  <2>3. /\ \A i \in Ids \ (known' \ ran') : hook'[i].triggerHook = 0
        /\ \A i \in known' \ ran' :
              hook'[i].triggerHook = trigger'[i] /\ trigger'[i] \in known' \cap (1..i - 1)
    BY <1>1, <1>5, <1>8 DEF Mirrored, TypeOK
  <2> QED
    BY <1>1, <1>3, <1>8, <2>1, <2>2, <2>3 DEF Mirrored
<1> QED
  BY <1>1, <1>6, <1>7, <1>8
\* The context of the current resource, which is the owner of the one that runs.
LEMMA SetContextInv ==
    ASSUME TreeAssumption, IInv, NEW v \in Values, SetContext(v)
    PROVE  IInv'
<1> USE DEF IInv
<1>1. /\ UNCHANGED <<enabled, idHookMap, currId, last, stack, gone, toggles, known,
                     trigger, ran>>
      /\ hook' = [hook EXCEPT ![currId].data = v]
  BY DEF SetContext, node
<1>2. value' = [value EXCEPT ![currId] = v]
  <2>1. CASE enabled
    <3>1. Top \in Ids
      BY DEF Ordered, TypeOK, Top, Ids, Root, TreeAssumption
    <3>2. Owner[Top] = currId
      BY <2>1, <3>1, OwnerDef DEF Mirrored
    <3> QED
      BY <2>1, <3>2 DEF SetContext
  <2>2. CASE ~enabled
    BY <2>2 DEF SetContext
  <2> QED
    BY <2>1, <2>2 DEF TypeOK
<1>3. currId \in Ids
  BY DEF TypeOK
<1> QED
  BY <1>1, <1>2, <1>3, DataInv

\* The context of the root.
LEMMA SetRootContextInv ==
    ASSUME TreeAssumption, IInv, NEW v \in Values, SetRootContext(v)
    PROVE  IInv'
<1>1. Root \in Ids
  BY DEF Ids, Root, TreeAssumption
<1> QED
  BY <1>1, DataInv DEF SetRootContext, node

\* The map is made anew.
LEMMA EnableInv ==
    ASSUME TreeAssumption, IInv, Enable
    PROVE  IInv'
<1> USE DEF IInv
<1>1. /\ idHookMap' = {Root} /\ currId' = Root /\ known' = {Root} /\ ran' = {Root}
      /\ UNCHANGED <<last, stack, gone>> /\ enabled' = TRUE /\ toggles' \in 0..MaxToggles
  BY DEF Enable, Toggle, TypeOK, TreeAssumption
<1>2. /\ hook' = [i \in Ids |-> IF i = Root THEN RootHook(hook[Root].data) ELSE NoHook]
      /\ trigger' = [i \in Ids |-> 0]
      /\ value' = [i \in Ids |-> IF i = Root THEN value[Root] ELSE None]
  BY DEF Enable
<1>3. Root \in Ids /\ Root \in 1..last
  BY DEF Ids, Root, TreeAssumption, TypeOK
<1>4. TypeOK'
  <2>1. hook[Root].data \in Values \cup {None} /\ value[Root] \in Values \cup {None}
    BY <1>3 DEF TypeOK, HookInfo
  <2>2. RootHook(hook[Root].data) \in HookInfo /\ NoHook \in HookInfo
    BY <2>1 DEF RootHook, NoHook, HookInfo, TreeAssumption
  <2>3. /\ hook' \in [Ids -> HookInfo] /\ value' \in [Ids -> Values \cup {None}]
        /\ trigger' \in [Ids -> 0..MaxId]
    BY <1>2, <2>1, <2>2 DEF TreeAssumption
  <2> QED
    BY <1>1, <1>3, <2>3 DEF TypeOK
<1>5. Ordered'
  <2>1. hook'[Root].data = value'[Root]
    BY <1>2, <1>3 DEF RootHook, Ordered
  <2> QED
    BY <1>1, <1>3, <2>1 DEF Ordered
<1>6. Mirrored'
  <2>1. Root \notin gone
    BY DEF Ordered, Root, TypeOK, Ids
  <2>2. \A i \in Ids : /\ hook'[i].activated <=> i = Root
                       /\ hook'[i].triggerHook = 0
    BY <1>2 DEF RootHook, NoHook
  <2>3. hook'[Root].data = value'[Root]
    BY <1>2, <1>3 DEF RootHook, Ordered
  <2>4. currId' = IF Top' \in known' THEN Top' ELSE Root
    BY <1>1
  <2> QED
    BY <1>1, <2>1, <2>2, <2>3, <2>4 DEF Mirrored
<1> QED
  BY <1>1, <1>4, <1>5, <1>6

\* The hooks are disabled, and the map may be cleared.
LEMMA DisableInv ==
    ASSUME TreeAssumption, IInv, Disable \/ Dispose
    PROVE  IInv'
<1> USE DEF IInv
<1>1. /\ UNCHANGED <<hook, currId, last, stack, gone, known, trigger, ran, value>>
      /\ idHookMap' \in {idHookMap, {}} /\ enabled' = FALSE
      /\ toggles' \in 0..MaxToggles
  BY DEF Disable, Dispose, Toggle, TypeOK, history, TreeAssumption
<1>2. TypeOK' /\ Ordered'
  BY <1>1 DEF TypeOK, Ordered
<1> QED
  BY <1>1, <1>2

\* Nothing changes.
LEMMA StutterInv ==
    ASSUME IInv, UNCHANGED vars
    PROVE  IInv'
<1>1. /\ UNCHANGED <<enabled, idHookMap, hook, currId, last, stack, gone, toggles,
                     known, trigger, ran, value>>
      /\ Top' = Top
  BY DEF vars, cls, node, history, Top
<1> QED
  BY <1>1 DEF IInv, TypeOK, Ordered, Mirrored

\* Every step keeps the inductive invariant.
LEMMA NextInv ==
    ASSUME TreeAssumption, ~Nested, ~LateTriggers, IInv, [Next]_vars
    PROVE  IInv'
<1>1. ASSUME NEW t \in Ids, Create(t) PROVE IInv'
  BY <1>1, CreateInv
<1>2. ASSUME NEW id \in Ids, Before(id) \/ Destroy(id) PROVE IInv'
  BY <1>2, BeforeInv, DestroyInv
<1>3. CASE After
  BY <1>3, AfterInv
<1>4. ASSUME NEW v \in Values, SetContext(v) \/ SetRootContext(v) PROVE IInv'
  BY <1>4, SetContextInv, SetRootContextInv
<1>5. CASE Enable
  BY <1>5, EnableInv
<1>6. CASE Disable \/ Dispose
  BY <1>6, DisableInv
<1>7. CASE UNCHANGED vars
  BY <1>7, StutterInv
<1> QED
  BY <1>1, <1>2, <1>3, <1>4, <1>5, <1>6, <1>7 DEF Next

\* The inductive invariant holds in every reachable state.
LEMMA Invariant ==
    ASSUME ~Nested, ~LateTriggers
    PROVE  Spec => []IInv
<1>1. Init => IInv
  BY TreeAssumption, InitInv
<1>2. IInv /\ [Next]_vars => IInv'
  BY TreeAssumption, NextInv
<1> QED
  BY <1>1, <1>2, PTL DEF Spec

-----------------------------------------------------------------------------
\* The program always finds the context of the resource it runs in: its own, or
\* the one it has inherited from the nearest ancestor that had started when it
\* started, however much of the tree has been destroyed or pruned, however many
\* resources there are, and however often the hooks are disabled, disposed of and
\* enabled again.
THEOREM ContextsInherited ==
    ASSUME ~Nested, ~LateTriggers
    PROVE  Spec => [](TypeOK /\ OwnContext)
<1>1. IInv => TypeOK /\ OwnContext
  BY TreeAssumption, InvOwnContext DEF IInv
<1> QED
  BY <1>1, Invariant, PTL

\* A destroyed resource is held in memory only as long as a descendant of it has
\* not started, so chains of timers and promises do not grow for ever.
THEOREM TreeIsPruned ==
    ASSUME ~Nested, ~LateTriggers
    PROVE  Spec => []OnlyPendingHold
<1>1. IInv => OnlyPendingHold
  BY TreeAssumption, InvOnlyPendingHold
<1> QED
  BY <1>1, Invariant, PTL

-----------------------------------------------------------------------------
\* Recursion

\* What holds for 0, and for k + 1 if for k, holds up to N.
LEMMA UpTo ==
    ASSUME NEW N \in Nat, NEW S, 0 \in S, \A k \in 0..N - 1 : k \in S => k + 1 \in S
    PROVE  0..N \subseteq S
<1> DEFINE B == {k \in 0..N : k \notin S}
<1> SUFFICES ASSUME B # {} PROVE FALSE
  OBVIOUS
<1>1. B \in SUBSET Nat /\ B # {}
  OBVIOUS
<1>2. PICK m \in B : \A k \in B : m <= k
  <2> HIDE DEF B
  <2> QED
    BY <1>1, SmallestMember
<1>3. m \in 0..N /\ m # 0 /\ m \notin S
  BY <1>2
<1>4. m - 1 \in 0..N - 1 /\ m - 1 \in 0..N /\ m - 1 + 1 = m
  BY <1>3
<1>5. m - 1 \in B
  BY <1>3, <1>4
<1> QED
  BY <1>2, <1>4, <1>5

\* There is a run of N steps that apply G, from any beginning.
IsRun(f, N, x, X, G) ==
    f \in [0..N -> X] /\ f[0] = x /\ \A k \in 1..N : f[k] = G[<<f[k - 1], k>>]

LEMMA RunExists ==
    ASSUME NEW N \in Nat, NEW x, NEW X, x \in X, NEW G \in [X \X (1..N) -> X]
    PROVE  \E f : IsRun(f, N, x, X, G)
<1> DEFINE Run(n, f) == f[0] = x /\ \A k \in 1..n : f[k] = G[<<f[k - 1], k>>]
           S == {n \in 0..N : \E f \in [0..n -> X] : Run(n, f)}
<1>1. 0 \in S
  <2> DEFINE f == [k \in 0..0 |-> x]
  <2>1. f \in [0..0 -> X]
    OBVIOUS
  <2>2. f[0] = x /\ 1..0 = {} /\ 0 \in 0..N
    OBVIOUS
  <2> HIDE DEF f
  <2> QED
    BY <2>1, <2>2
<1>2. ASSUME NEW n \in 0..N - 1, n \in S PROVE n + 1 \in S
  <2>1. PICK f \in [0..n -> X] : Run(n, f)
    BY <1>2
  <2> DEFINE end == G[<<f[n], n + 1>>]
             g == [k \in 0..n + 1 |-> IF k = n + 1 THEN end ELSE f[k]]
  <2>2. end \in X
    <3>1. <<f[n], n + 1>> \in X \X (1..N)
      OBVIOUS
    <3> QED
      BY <3>1
  <2>3. g \in [0..n + 1 -> X] /\ g[n + 1] = end /\ \A k \in 0..n : g[k] = f[k]
    <3> HIDE DEF end
    <3> QED
      BY <2>2
  <2>4. Run(n + 1, g)
    <3>1. g[0] = x
      BY <2>1, <2>3
    <3>2. ASSUME NEW k \in 1..n + 1 PROVE g[k] = G[<<g[k - 1], k>>]
      <4>1. k - 1 \in 0..n
        OBVIOUS
      <4>2. CASE k = n + 1
        <5>1. k - 1 = n /\ n \in 0..n
          BY <4>2
        <5>2. g[k - 1] = f[n] /\ g[k] = end
          <6> HIDE DEF end, g
          <6> QED
            BY <2>3, <4>2, <5>1
        <5> QED
          BY <4>2, <5>2
      <4>3. CASE k \in 1..n
        <5>1. g[k] = f[k] /\ g[k - 1] = f[k - 1]
          BY <2>3, <4>1, <4>3
        <5>2. f[k] = G[<<f[k - 1], k>>]
          BY <2>1, <4>3
        <5> QED
          BY <5>1, <5>2
      <4> QED
        BY <4>2, <4>3
    <3> QED
      BY <3>1, <3>2
  <2>5. n + 1 \in 0..N
    OBVIOUS
  <2> QED
    BY <2>3, <2>4, <2>5
<1>3. N \in S
  <2> HIDE DEF S
  <2> QED
    BY <1>1, <1>2, UpTo
<1> QED
  BY <1>3 DEF IsRun

\* What is computed step by step from x stays in X, if every step does.
LEMMA RunTyped ==
    ASSUME NEW N \in Nat, NEW h, NEW X, h[0] \in X,
           \A k \in 1..N : h[k - 1] \in X => h[k] \in X
    PROVE  \A k \in 0..N : h[k] \in X
<1> DEFINE S == {k \in 0..N : h[k] \in X}
<1>1. 0 \in S
  OBVIOUS
<1>2. ASSUME NEW k \in 0..N - 1, k \in S PROVE k + 1 \in S
  <2>1. k + 1 \in 1..N /\ k + 1 - 1 = k
    OBVIOUS
  <2> QED
    BY <1>2, <2>1
<1>3. 0..N \subseteq S
  <2> HIDE DEF S
  <2> QED
    BY <1>1, <1>2, UpTo
<1> QED
  BY <1>3

-----------------------------------------------------------------------------
\* The recursive functions are functions, of these types

Text == Seq(Chars)

\* Tables of codes for characters.
IsTable(T) == /\ DOMAIN T \subseteq Chars
              /\ \A c \in DOMAIN T : T[c] \in Text /\ T[c] # <<>>

ReadState == [more : BOOLEAN, value : Nat \cup {NaN}]

LEMMA DigitValue == \A c : IsDigit(c) => DigitOf(c) \in 0..9
BY DEF IsDigit, DigitOf

LEMMA ReadDigitType ==
    ASSUME NEW r \in ReadState, NEW c
    PROVE  ReadDigit(r, c) \in ReadState
<1>1. CASE ~r.more \/ ~IsDigit(c)
  BY <1>1 DEF ReadState, ReadDigit
<1>2. CASE r.more /\ IsDigit(c)
  <2> DEFINE v == IF r.value = NaN THEN DigitOf(c) ELSE 10 * r.value + DigitOf(c)
  <2>1. v \in Nat
    BY <1>2, DigitValue DEF ReadState, NaN
  <2>2. ReadDigit(r, c) = [r EXCEPT !.value = v]
    BY <1>2 DEF ReadDigit
  <2> HIDE DEF v
  <2> QED
    BY <2>1, <2>2 DEF ReadState
<1> QED
  BY <1>1, <1>2 DEF ReadState

\* What parseInt does: it reads one character after the other.
LEMMA ReadingIs ==
    ASSUME NEW k \in Text
    PROVE  /\ Reading(k)[0] = [more |-> TRUE, value |-> NaN]
           /\ \A j \in 1..Len(k) : Reading(k)[j] = ReadDigit(Reading(k)[j - 1], k[j])
           /\ \A j \in 0..Len(k) : Reading(k)[j] \in ReadState
<1> DEFINE N == Len(k)
           x == [more |-> TRUE, value |-> NaN]
           G == [z \in ReadState \X (1..N) |-> ReadDigit(z[1], k[z[2]])]
           h == Reading(k)
<1>0. N \in Nat
  BY DEF Text
<1>1. x \in ReadState
  BY DEF ReadState
<1>2. ASSUME NEW t \in ReadState, NEW j \in 1..N
      PROVE  ReadDigit(t, k[j]) \in ReadState
  BY ReadDigitType
<1>3. /\ G \in [ReadState \X (1..N) -> ReadState]
      /\ \A t \in ReadState, j \in 1..N : G[<<t, j>>] = ReadDigit(t, k[j])
  <2> HIDE DEF N
  <2> QED
    BY <1>2
<1> HIDE DEF G, x, N
<1>4. PICK f : IsRun(f, N, x, ReadState, G)
  BY <1>0, <1>1, <1>3, RunExists
<1>5. f = [j \in 0..N |-> IF j = 0 THEN x ELSE ReadDigit(f[j - 1], k[j])]
  <2>1. ASSUME NEW j \in 0..N
        PROVE  f[j] = IF j = 0 THEN x ELSE ReadDigit(f[j - 1], k[j])
    <3>1. j # 0 => j \in 1..N /\ j - 1 \in 0..N
      BY <1>0
    <3> QED
      BY <1>3, <1>4, <3>1 DEF IsRun
  <2> QED
    BY <1>4, <2>1 DEF IsRun
<1>6. h = [j \in 0..N |-> IF j = 0 THEN x ELSE ReadDigit(h[j - 1], k[j])]
  BY <1>5 DEF Reading, x, N
<1> HIDE DEF h
<1>7. h[0] = x /\ \A j \in 1..N : h[j] = ReadDigit(h[j - 1], k[j])
  BY <1>0, <1>6
<1>8. \A j \in 0..N : h[j] \in ReadState
  <2>1. h[0] \in ReadState /\ \A j \in 1..N : h[j - 1] \in ReadState => h[j] \in ReadState
    BY <1>1, <1>2, <1>7
  <2> QED
    BY <1>0, <2>1, RunTyped
<1> QED
  BY <1>7, <1>8 DEF h, x, N

\* The code of a character.
Code(c, T) == IF c \in DOMAIN T THEN T[c] ELSE <<c>>

LEMMA CodeType ==
    ASSUME NEW T, IsTable(T), NEW c \in Chars
    PROVE  Code(c, T) \in Text /\ Code(c, T) # <<>>
<1>1. <<c>> \in Seq(Chars) /\ <<c>> # <<>>
  OBVIOUS
<1> QED
  BY <1>1 DEF IsTable, Code, Text

LEMMA AddCodeIs ==
    ASSUME NEW T, IsTable(T), NEW c \in Chars, NEW t \in Text
    PROVE  AddCode(t, c, T) = t \o Code(c, T) /\ AddCode(t, c, T) \in Text
<1>1. AddCode(t, c, T) = t \o Code(c, T)
  BY DEF AddCode, Code
<1> QED
  BY <1>1, CodeType, ConcatProperties DEF Text

\* What replace does: it adds the code of one character after the other.
LEMMA ReplacingIs ==
    ASSUME NEW s \in Text, NEW T, IsTable(T)
    PROVE  /\ Replacing(s, T)[0] = <<>>
           /\ \A j \in 1..Len(s) : Replacing(s, T)[j] = AddCode(Replacing(s, T)[j - 1], s[j], T)
           /\ \A j \in 0..Len(s) : Replacing(s, T)[j] \in Text
<1> DEFINE N == Len(s)
           x == <<>>
           G == [z \in Text \X (1..N) |-> AddCode(z[1], s[z[2]], T)]
           h == Replacing(s, T)
<1>0. N \in Nat
  BY DEF Text
<1>1. x \in Text
  BY DEF Text
<1>2. ASSUME NEW t \in Text, NEW j \in 1..N
      PROVE  AddCode(t, s[j], T) \in Text
  <2>1. s[j] \in Chars
    BY DEF Text
  <2> QED
    BY <2>1, AddCodeIs
<1>3. /\ G \in [Text \X (1..N) -> Text]
      /\ \A t \in Text, j \in 1..N : G[<<t, j>>] = AddCode(t, s[j], T)
  <2> HIDE DEF N
  <2> QED
    BY <1>2
<1> HIDE DEF G, x, N
<1>4. PICK f : IsRun(f, N, x, Text, G)
  BY <1>0, <1>1, <1>3, RunExists
<1>5. f = [j \in 0..N |-> IF j = 0 THEN x ELSE AddCode(f[j - 1], s[j], T)]
  <2>1. ASSUME NEW j \in 0..N
        PROVE  f[j] = IF j = 0 THEN x ELSE AddCode(f[j - 1], s[j], T)
    <3>1. j # 0 => j \in 1..N /\ j - 1 \in 0..N
      BY <1>0
    <3> QED
      BY <1>3, <1>4, <3>1 DEF IsRun
  <2> QED
    BY <1>4, <2>1 DEF IsRun
<1>6. h = [j \in 0..N |-> IF j = 0 THEN x ELSE AddCode(h[j - 1], s[j], T)]
  BY <1>5 DEF Replacing, x, N
<1> HIDE DEF h
<1>7. h[0] = x /\ \A j \in 1..N : h[j] = AddCode(h[j - 1], s[j], T)
  BY <1>0, <1>6
<1>8. \A j \in 0..N : h[j] \in Text
  <2>1. h[0] \in Text /\ \A j \in 1..N : h[j - 1] \in Text => h[j] \in Text
    BY <1>1, <1>2, <1>7
  <2> QED
    BY <1>0, <2>1, RunTyped
<1> QED
  BY <1>7, <1>8 DEF h, x, N

LEMMA AddSegmentIs ==
    ASSUME NEW t \in Text, NEW q \in Text
    PROVE  AddSegment(t, q) \in Text
<1>1. <<"/">> \in Seq(Chars)
  BY JsonAssumption DEF Signs
<1>2. <<"/">> \o q \in Seq(Chars)
  BY <1>1, ConcatProperties DEF Text
<1> QED
  BY <1>2, ConcatProperties DEF Text, AddSegment

\* Segments are joined one after the other.
LEMMA JoiningIs ==
    ASSUME NEW q \in Seq(Text)
    PROVE  /\ Joining(q)[0] = <<>>
           /\ \A j \in 1..Len(q) : Joining(q)[j] = AddSegment(Joining(q)[j - 1], q[j])
           /\ \A j \in 0..Len(q) : Joining(q)[j] \in Text
<1> DEFINE N == Len(q)
           x == <<>>
           G == [z \in Text \X (1..N) |-> AddSegment(z[1], q[z[2]])]
           h == Joining(q)
<1>0. N \in Nat
  OBVIOUS
<1>1. x \in Text
  BY DEF Text
<1>2. ASSUME NEW t \in Text, NEW j \in 1..N
      PROVE  AddSegment(t, q[j]) \in Text
  BY AddSegmentIs
<1>3. /\ G \in [Text \X (1..N) -> Text]
      /\ \A t \in Text, j \in 1..N : G[<<t, j>>] = AddSegment(t, q[j])
  <2> HIDE DEF N
  <2> QED
    BY <1>2
<1> HIDE DEF G, x, N
<1>4. PICK f : IsRun(f, N, x, Text, G)
  BY <1>0, <1>1, <1>3, RunExists
<1>5. f = [j \in 0..N |-> IF j = 0 THEN x ELSE AddSegment(f[j - 1], q[j])]
  <2>1. ASSUME NEW j \in 0..N
        PROVE  f[j] = IF j = 0 THEN x ELSE AddSegment(f[j - 1], q[j])
    <3>1. j # 0 => j \in 1..N /\ j - 1 \in 0..N
      BY <1>0
    <3> QED
      BY <1>3, <1>4, <3>1 DEF IsRun
  <2> QED
    BY <1>4, <2>1 DEF IsRun
<1>6. h = [j \in 0..N |-> IF j = 0 THEN x ELSE AddSegment(h[j - 1], q[j])]
  BY <1>5 DEF Joining, x, N
<1> HIDE DEF h
<1>7. h[0] = x /\ \A j \in 1..N : h[j] = AddSegment(h[j - 1], q[j])
  BY <1>0, <1>6
<1>8. \A j \in 0..N : h[j] \in Text
  <2>1. h[0] \in Text /\ \A j \in 1..N : h[j - 1] \in Text => h[j] \in Text
    BY <1>1, <1>2, <1>7
  <2> QED
    BY <1>0, <2>1, RunTyped
<1> QED
  BY <1>7, <1>8 DEF h, x, N

DecodeState == [out : Text, skip : Nat]

LEMMA ReadCodeType ==
    ASSUME NEW T, IsTable(T), NEW s \in Text, NEW j \in 1..Len(s), NEW r \in DecodeState
    PROVE  ReadCode(r, s, j, T) \in DecodeState
<1>1. s[j] \in Chars
  BY DEF Text
<1>2. \A c \in StartsAt(s, j, T) : c \in Chars /\ Len(T[c]) - 1 \in Nat
  BY DEF StartsAt, IsTable, Text
<1>3. CASE r.skip > 0
  BY <1>3 DEF ReadCode, DecodeState
<1>4. CASE ~(r.skip > 0) /\ StartsAt(s, j, T) = {}
  <2>1. Append(r.out, s[j]) \in Text
    BY <1>1 DEF DecodeState, Text
  <2> QED
    BY <1>4, <2>1 DEF ReadCode, DecodeState
<1>5. CASE ~(r.skip > 0) /\ StartsAt(s, j, T) # {}
  <2> DEFINE c == CHOOSE c \in StartsAt(s, j, T) : TRUE
  <2>1. c \in StartsAt(s, j, T)
    BY <1>5
  <2>2. ReadCode(r, s, j, T) = [out |-> Append(r.out, c), skip |-> Len(T[c]) - 1]
    BY <1>5 DEF ReadCode
  <2> HIDE DEF c
  <2>3. Append(r.out, c) \in Text
    BY <1>2, <2>1 DEF DecodeState, Text
  <2> QED
    BY <1>2, <2>1, <2>2, <2>3 DEF DecodeState
<1> QED
  BY <1>3, <1>4, <1>5

\* A text is decoded from left to right.
LEMMA DecodingIs ==
    ASSUME NEW s \in Text, NEW T, IsTable(T)
    PROVE  /\ Decoding(s, T)[0] = [out |-> <<>>, skip |-> 0]
           /\ \A j \in 1..Len(s) : Decoding(s, T)[j] = ReadCode(Decoding(s, T)[j - 1], s, j, T)
           /\ \A j \in 0..Len(s) : Decoding(s, T)[j] \in DecodeState
<1> DEFINE N == Len(s)
           x == [out |-> <<>>, skip |-> 0]
           G == [z \in DecodeState \X (1..N) |-> ReadCode(z[1], s, z[2], T)]
           h == Decoding(s, T)
<1>0. N \in Nat
  BY DEF Text
<1>1. x \in DecodeState
  BY DEF DecodeState, Text
<1>2. ASSUME NEW t \in DecodeState, NEW j \in 1..N
      PROVE  ReadCode(t, s, j, T) \in DecodeState
  BY ReadCodeType
<1>3. /\ G \in [DecodeState \X (1..N) -> DecodeState]
      /\ \A t \in DecodeState, j \in 1..N : G[<<t, j>>] = ReadCode(t, s, j, T)
  <2> HIDE DEF N
  <2> QED
    BY <1>2
<1> HIDE DEF G, x, N
<1>4. PICK f : IsRun(f, N, x, DecodeState, G)
  BY <1>0, <1>1, <1>3, RunExists
<1>5. f = [j \in 0..N |-> IF j = 0 THEN x ELSE ReadCode(f[j - 1], s, j, T)]
  <2>1. ASSUME NEW j \in 0..N
        PROVE  f[j] = IF j = 0 THEN x ELSE ReadCode(f[j - 1], s, j, T)
    <3>1. j # 0 => j \in 1..N /\ j - 1 \in 0..N
      BY <1>0
    <3> QED
      BY <1>3, <1>4, <3>1 DEF IsRun
  <2> QED
    BY <1>4, <2>1 DEF IsRun
<1>6. h = [j \in 0..N |-> IF j = 0 THEN x ELSE ReadCode(h[j - 1], s, j, T)]
  BY <1>5 DEF Decoding, x, N
<1> HIDE DEF h
<1>7. h[0] = x /\ \A j \in 1..N : h[j] = ReadCode(h[j - 1], s, j, T)
  BY <1>0, <1>6
<1>8. \A j \in 0..N : h[j] \in DecodeState
  <2>1. h[0] \in DecodeState /\ \A j \in 1..N : h[j - 1] \in DecodeState => h[j] \in DecodeState
    BY <1>1, <1>2, <1>7
  <2> QED
    BY <1>0, <2>1, RunTyped
<1> QED
  BY <1>7, <1>8 DEF h, x, N

LEMMA SplitAtType ==
    ASSUME NEW p \in Seq(Text), NEW c \in Chars
    PROVE  SplitAt(p, c) \in Seq(Text)
<1>1. CASE c = "/"
  BY <1>1 DEF SplitAt, Text
<1>2. CASE c # "/" /\ p = <<>>
  BY <1>2 DEF SplitAt
<1>3. CASE c # "/" /\ p # <<>>
  <2>1. Len(p) \in 1..Len(p) /\ p[Len(p)] \in Text
    BY <1>3
  <2>2. Append(p[Len(p)], c) \in Text
    <3> DEFINE end == p[Len(p)]
    <3>1. end \in Seq(Chars)
      BY <2>1 DEF Text
    <3> HIDE DEF end
    <3>2. Append(end, c) \in Seq(Chars)
      BY <3>1
    <3> QED
      BY <3>2 DEF end, Text
  <2> QED
    BY <1>3, <2>1, <2>2 DEF SplitAt
<1> QED
  BY <1>1, <1>2, <1>3

\* A text is split from left to right.
LEMMA SplittingIs ==
    ASSUME NEW s \in Text
    PROVE  /\ Splitting(s)[0] = <<>>
           /\ \A j \in 1..Len(s) : Splitting(s)[j] = SplitAt(Splitting(s)[j - 1], s[j])
           /\ \A j \in 0..Len(s) : Splitting(s)[j] \in Seq(Text)
<1> DEFINE N == Len(s)
           x == <<>>
           G == [z \in Seq(Text) \X (1..N) |-> SplitAt(z[1], s[z[2]])]
           h == Splitting(s)
<1>0. N \in Nat
  BY DEF Text
<1>1. x \in Seq(Text)
  OBVIOUS
<1>2. ASSUME NEW t \in Seq(Text), NEW j \in 1..N
      PROVE  SplitAt(t, s[j]) \in Seq(Text)
  <2>1. s[j] \in Chars
    BY DEF Text
  <2> QED
    BY <2>1, SplitAtType
<1>3. /\ G \in [Seq(Text) \X (1..N) -> Seq(Text)]
      /\ \A t \in Seq(Text), j \in 1..N : G[<<t, j>>] = SplitAt(t, s[j])
  <2> HIDE DEF N
  <2> QED
    BY <1>2
<1> HIDE DEF G, x, N
<1>4. PICK f : IsRun(f, N, x, Seq(Text), G)
  BY <1>0, <1>1, <1>3, RunExists
<1>5. f = [j \in 0..N |-> IF j = 0 THEN x ELSE SplitAt(f[j - 1], s[j])]
  <2>1. ASSUME NEW j \in 0..N
        PROVE  f[j] = IF j = 0 THEN x ELSE SplitAt(f[j - 1], s[j])
    <3>1. j # 0 => j \in 1..N /\ j - 1 \in 0..N
      BY <1>0
    <3> QED
      BY <1>3, <1>4, <3>1 DEF IsRun
  <2> QED
    BY <1>4, <2>1 DEF IsRun
<1>6. h = [j \in 0..N |-> IF j = 0 THEN x ELSE SplitAt(h[j - 1], s[j])]
  BY <1>5 DEF Splitting, x, N
<1> HIDE DEF h
<1>7. h[0] = x /\ \A j \in 1..N : h[j] = SplitAt(h[j - 1], s[j])
  BY <1>0, <1>6
<1>8. \A j \in 0..N : h[j] \in Seq(Text)
  <2>1. h[0] \in Seq(Text) /\ \A j \in 1..N : h[j - 1] \in Seq(Text) => h[j] \in Seq(Text)
    BY <1>1, <1>2, <1>7
  <2> QED
    BY <1>0, <2>1, RunTyped
<1> QED
  BY <1>7, <1>8 DEF h, x, N
-----------------------------------------------------------------------------
\* Sequences

\* b begins with a, and goes on with c.
Extends(b, a, c) ==
    /\ Len(a) \in Nat /\ Len(c) \in Nat /\ Len(b) = Len(a) + Len(c)
    /\ \A i \in 1..Len(a) : b[i] = a[i]
    /\ \A i \in 1..Len(c) : b[Len(a) + i] = c[i]

LEMMA ConcatExtends ==
    ASSUME NEW S, NEW a \in Seq(S), NEW c \in Seq(S)
    PROVE  a \o c \in Seq(S) /\ Extends(a \o c, a, c)
<1>1. PICK m \in Nat : m = Len(a)
  BY LenProperties
<1>2. PICK n \in Nat : n = Len(c)
  BY LenProperties
<1> DEFINE b == a \o c
<1>3. /\ b \in Seq(S) /\ Len(b) = m + n
      /\ \A i \in 1..m + n : b[i] = IF i <= m THEN a[i] ELSE c[i - m]
  BY <1>1, <1>2, ConcatProperties
<1> HIDE DEF b
<1>4. ASSUME NEW i \in 1..m PROVE b[i] = a[i]
  BY <1>3
<1>5. ASSUME NEW i \in 1..n PROVE b[m + i] = c[i]
  <2>1. m + i \in 1..m + n /\ ~(m + i <= m) /\ m + i - m = i
    OBVIOUS
  <2> QED
    BY <1>3, <2>1
<1> QED
  BY <1>1, <1>2, <1>3, <1>4, <1>5 DEF b, Extends

IsFront(a, e) ==
    /\ Len(a) \in Nat /\ Len(e) \in Nat /\ Len(a) <= Len(e)
    /\ \A i \in 1..Len(a) : e[i] = a[i]

LEMMA FrontOfFront ==
    ASSUME NEW a, NEW b, NEW c, NEW e, Extends(b, a, c), IsFront(b, e)
    PROVE  /\ IsFront(a, e) /\ Len(a) + Len(c) <= Len(e)
           /\ \A i \in 1..Len(c) : e[Len(a) + i] = c[i]
<1>1. PICK m \in Nat : m = Len(a)
  BY DEF Extends
<1>2. PICK n \in Nat : n = Len(c)
  BY DEF Extends
<1>3. PICK l \in Nat : l = Len(e)
  BY DEF IsFront
<1>4. /\ Len(b) = m + n /\ m + n <= l
      /\ \A i \in 1..m + n : e[i] = b[i]
      /\ \A i \in 1..m : b[i] = a[i]
      /\ \A i \in 1..n : b[m + i] = c[i]
  BY <1>1, <1>2, <1>3 DEF Extends, IsFront
<1>5. m <= l /\ \A i \in 1..m : e[i] = a[i]
  BY <1>4
<1>6. ASSUME NEW i \in 1..n PROVE e[m + i] = c[i]
  <2>1. m + i \in 1..m + n
    OBVIOUS
  <2> QED
    BY <1>4, <2>1
<1> QED
  BY <1>1, <1>2, <1>3, <1>4, <1>5, <1>6 DEF IsFront

\* The first characters of a text, one more each time.
LEMMA FrontGrows ==
    ASSUME NEW S, NEW s \in Seq(S), NEW k \in 1..Len(s)
    PROVE  Append(SubSeq(s, 1, k - 1), s[k]) = SubSeq(s, 1, k)
<1>1. /\ SubSeq(s, 1, k) \in Seq(S) /\ Len(SubSeq(s, 1, k)) = k
      /\ \A i \in 1..k : SubSeq(s, 1, k)[i] = s[i]
  BY SubSeqProperties
<1>2. /\ SubSeq(s, 1, k - 1) \in Seq(S) /\ Len(SubSeq(s, 1, k - 1)) = k - 1
      /\ \A i \in 1..k - 1 : SubSeq(s, 1, k - 1)[i] = s[i]
  BY SubSeqProperties
<1> DEFINE a == SubSeq(s, 1, k - 1)
           b == SubSeq(s, 1, k)
<1> HIDE DEF a, b
<1>3. s[k] \in S
  OBVIOUS
<1>4. /\ Append(a, s[k]) \in Seq(S) /\ Len(Append(a, s[k])) = k
      /\ \A i \in 1..k - 1 : Append(a, s[k])[i] = a[i]
      /\ Append(a, s[k])[k] = s[k]
  BY <1>2, <1>3, AppendProperties DEF a
<1>5. \A i \in 1..k : Append(a, s[k])[i] = b[i]
  BY <1>1, <1>2, <1>4 DEF a, b
<1>6. b \in Seq(S) /\ Len(b) = k
  BY <1>1 DEF b
<1>7. Append(a, s[k]) = b
  BY <1>4, <1>5, <1>6, SeqEqual
<1> QED
  BY <1>7 DEF a, b

-----------------------------------------------------------------------------
\* Text: what is encoded is decoded

\* The codes of a table are told apart from each other and from other characters.
Readable(T) ==
    /\ IsTable(T)
    /\ \A c \in DOMAIN T : T[c][1] \in DOMAIN T
    /\ \A c, d \in DOMAIN T : Len(T[c]) = Len(T[d]) /\ (T[c] = T[d] => c = d)

\* Every character adds its code to the encoded text.
LEMMA ReplacingGrows ==
    ASSUME NEW s \in Text, NEW T, IsTable(T), NEW k \in 1..Len(s)
    PROVE  /\ Code(s[k], T) \in Text /\ Code(s[k], T) # <<>>
           /\ Extends(Replacing(s, T)[k], Replacing(s, T)[k - 1], Code(s[k], T))
<1>1. s[k] \in Chars /\ k - 1 \in 0..Len(s)
  BY DEF Text
<1>2. Replacing(s, T)[k - 1] \in Text
  BY <1>1, ReplacingIs
<1>3. Replacing(s, T)[k] = AddCode(Replacing(s, T)[k - 1], s[k], T)
  BY ReplacingIs
<1>4. Replacing(s, T)[k] = Replacing(s, T)[k - 1] \o Code(s[k], T)
  BY <1>1, <1>2, <1>3, AddCodeIs
<1>5. Code(s[k], T) \in Text /\ Code(s[k], T) # <<>>
  BY <1>1, CodeType
<1> QED
  BY <1>2, <1>4, <1>5, ConcatExtends DEF Text

\* What has been encoded stays at the beginning of the text.
LEMMA ReplacingFront ==
    ASSUME NEW s \in Text, NEW T, IsTable(T), NEW j \in 0..Len(s)
    PROVE  IsFront(Replacing(s, T)[j], Replaced(s, T))
<1> DEFINE N == Len(s)
           e == Replaced(s, T)
           S == {m \in 0..N : IsFront(Replacing(s, T)[N - m], e)}
<1>1. N \in Nat /\ e = Replacing(s, T)[N] /\ e \in Text
  BY ReplacingIs DEF Replaced, Text
<1>2. 0 \in S
  BY <1>1, LenProperties DEF IsFront, Text
<1>3. ASSUME NEW m \in 0..N - 1, m \in S PROVE m + 1 \in S
  <2>1. N - m \in 1..N /\ N - m - 1 = N - (m + 1) /\ m + 1 \in 0..N
    BY <1>1
  <2>2. Extends(Replacing(s, T)[N - m], Replacing(s, T)[N - m - 1], Code(s[N - m], T))
    BY <2>1, ReplacingGrows
  <2>3. IsFront(Replacing(s, T)[N - m - 1], e)
    BY <1>3, <2>2, FrontOfFront
  <2> QED
    BY <2>1, <2>3
<1>4. 0..N \subseteq S
  <2> HIDE DEF S
  <2> QED
    BY <1>1, <1>2, <1>3, UpTo
<1>5. N - j \in 0..N /\ N - (N - j) = j
  BY <1>1
<1>6. N - j \in S
  BY <1>4, <1>5
<1> QED
  BY <1>5, <1>6

\* The code of the kth character is in the text where the code before it ends.
Place(s, T, k) == Len(Replacing(s, T)[k])

LEMMA CodeInText ==
    ASSUME NEW s \in Text, NEW T, IsTable(T), NEW k \in 1..Len(s)
    PROVE  /\ Place(s, T, k - 1) \in Nat /\ Len(Code(s[k], T)) \in Nat \ {0}
           /\ Place(s, T, k) = Place(s, T, k - 1) + Len(Code(s[k], T))
           /\ Len(Replaced(s, T)) \in Nat /\ Place(s, T, k) <= Len(Replaced(s, T))
           /\ \A i \in 1..Len(Code(s[k], T)) :
                 Replaced(s, T)[Place(s, T, k - 1) + i] = Code(s[k], T)[i]
<1>1. Extends(Replacing(s, T)[k], Replacing(s, T)[k - 1], Code(s[k], T))
  BY ReplacingGrows
<1>2. k \in 0..Len(s)
  BY DEF Text
<1>3. IsFront(Replacing(s, T)[k], Replaced(s, T))
  BY <1>2, ReplacingFront
<1>4. Len(Code(s[k], T)) \in Nat \ {0}
  BY ReplacingGrows, EmptySeq DEF Text
<1>5. /\ Place(s, T, k - 1) + Len(Code(s[k], T)) <= Len(Replaced(s, T))
      /\ \A i \in 1..Len(Code(s[k], T)) :
            Replaced(s, T)[Place(s, T, k - 1) + i] = Code(s[k], T)[i]
  <2> DEFINE x == Replacing(s, T)[k - 1]
             c == Code(s[k], T)
             e == Replaced(s, T)
  <2> HIDE DEF x, c, e
  <2>1. Extends(Replacing(s, T)[k], x, c) /\ IsFront(Replacing(s, T)[k], e)
    BY <1>1, <1>3 DEF x, c, e
  <2>2. Len(x) + Len(c) <= Len(e) /\ \A i \in 1..Len(c) : e[Len(x) + i] = c[i]
    BY <2>1, FrontOfFront
  <2> QED
    BY <2>2 DEF x, c, e, Place
<1> QED
  BY <1>1, <1>3, <1>4, <1>5 DEF Extends, IsFront, Place

\* The n characters of a text after the first a.
LEMMA Part ==
    ASSUME NEW e \in Text, NEW a \in Nat, NEW n \in Nat \ {0}, a + n <= Len(e)
    PROVE  /\ SubSeq(e, a + 1, a + n) \in Text /\ Len(SubSeq(e, a + 1, a + n)) = n
           /\ \A i \in 1..n : SubSeq(e, a + 1, a + n)[i] = e[a + i]
<1>1. PICK l \in Nat : l = Len(e)
  BY LenProperties DEF Text
<1>2. \A i \in 1..l : e[i] \in Chars
  BY <1>1 DEF Text
<1>3. a + 1 \in Int /\ a + n \in Int /\ a + 1 <= a + n /\ a + n - (a + 1) + 1 = n
  OBVIOUS
<1>4. \A i \in a + 1..a + n : i \in 1..l
  BY <1>1
<1>5. \A i \in a + 1..a + n : e[i] \in Chars
  BY <1>2, <1>4
<1> DEFINE f == SubSeq(e, a + 1, a + n)
<1>6. /\ f \in Seq(Chars) /\ Len(f) = n
      /\ \A i \in 1..n : f[i] = e[a + 1 + i - 1]
  <2>1. PICK u \in Int, v \in Int : u = a + 1 /\ v = a + n
    BY <1>3
  <2>2. /\ SubSeq(e, u, v) \in Seq(Chars)
        /\ Len(SubSeq(e, u, v)) = IF u <= v THEN v - u + 1 ELSE 0
        /\ \A i \in 1..v - u + 1 : SubSeq(e, u, v)[i] = e[u + i - 1]
    BY <1>5, <2>1, SubSeqProperties
  <2>3. u <= v /\ v - u + 1 = n
    BY <1>3, <2>1
  <2> QED
    BY <2>1, <2>2, <2>3
<1> HIDE DEF f
<1>7. \A i \in 1..n : a + 1 + i - 1 = a + i
  OBVIOUS
<1>8. \A i \in 1..n : f[i] = e[a + i]
  BY <1>6, <1>7
<1> QED
  BY <1>6, <1>8 DEF f, Text

\* At the place of a code, it is the only one that starts there; at the place of
\* another character, none does.
LEMMA StartsRight ==
    ASSUME NEW T, Readable(T), NEW e \in Text, NEW c \in Chars, NEW a \in Nat,
           a + Len(Code(c, T)) <= Len(e),
           \A i \in 1..Len(Code(c, T)) : e[a + i] = Code(c, T)[i]
    PROVE  StartsAt(e, a + 1, T) = IF c \in DOMAIN T THEN {c} ELSE {}
<1>1. PICK l \in Nat : l = Len(e)
  BY LenProperties DEF Text
<1>2. /\ \A d \in DOMAIN T : /\ T[d] \in Text /\ Len(T[d]) \in Nat \ {0}
                             /\ T[d][1] \in DOMAIN T
      /\ \A d, x \in DOMAIN T : Len(T[d]) = Len(T[x]) /\ (T[d] = T[x] => d = x)
  BY EmptySeq DEF Readable, IsTable, Text
<1>3. CASE c \notin DOMAIN T
  <2>1. e[a + 1] = c
    BY <1>3 DEF Code
  <2>2. ASSUME NEW d \in StartsAt(e, a + 1, T) PROVE FALSE
    <3>1. PICK n \in Nat \ {0} : n = Len(T[d])
      BY <1>2 DEF StartsAt
    <3>2. d \in DOMAIN T /\ a + 1 + n - 1 <= l /\ SubSeq(e, a + 1, a + 1 + n - 1) = T[d]
      BY <1>1, <3>1 DEF StartsAt
    <3>3. a + 1 + n - 1 = a + n /\ 1 \in 1..n
      OBVIOUS
    <3>4. a + n <= Len(e) /\ SubSeq(e, a + 1, a + n) = T[d]
      BY <1>1, <3>2, <3>3
    <3>5. SubSeq(e, a + 1, a + n)[1] = e[a + 1]
      BY <3>3, <3>4, Part
    <3>6. T[d][1] = c
      BY <2>1, <3>4, <3>5
    <3> QED
      BY <1>2, <1>3, <3>2, <3>6
  <2> QED
    BY <1>3, <2>2
<1>4. CASE c \in DOMAIN T
  <2>1. PICK n \in Nat \ {0} : n = Len(T[c])
    BY <1>2, <1>4
  <2>2. Code(c, T) = T[c]
    BY <1>4 DEF Code
  <2>3. a + n <= Len(e) /\ \A i \in 1..n : e[a + i] = T[c][i]
    BY <2>1, <2>2
  <2>4. SubSeq(e, a + 1, a + n) = T[c]
    <3>1. /\ SubSeq(e, a + 1, a + n) \in Text /\ Len(SubSeq(e, a + 1, a + n)) = n
          /\ \A i \in 1..n : SubSeq(e, a + 1, a + n)[i] = e[a + i]
      BY <2>3, Part
    <3> DEFINE f == SubSeq(e, a + 1, a + n)
    <3> HIDE DEF f
    <3>2. f \in Seq(Chars) /\ T[c] \in Seq(Chars) /\ Len(f) = Len(T[c])
          /\ \A i \in 1..Len(f) : f[i] = T[c][i]
      BY <1>2, <1>4, <2>1, <2>3, <3>1 DEF f, Text
    <3>3. f = T[c]
      BY <3>2, SeqEqual
    <3> QED
      BY <3>3 DEF f
  <2>5. a + 1 + n - 1 = a + n
    OBVIOUS
  <2>6. c \in StartsAt(e, a + 1, T)
    BY <1>4, <2>1, <2>3, <2>4, <2>5 DEF StartsAt
  <2>7. ASSUME NEW d \in StartsAt(e, a + 1, T) PROVE d = c
    <3>1. d \in DOMAIN T /\ Len(T[d]) = n
      BY <1>2, <1>4, <2>1 DEF StartsAt
    <3>2. SubSeq(e, a + 1, a + n) = T[d]
      BY <2>5, <3>1 DEF StartsAt
    <3> QED
      BY <1>2, <1>4, <2>4, <3>1, <3>2
  <2> QED
    BY <1>4, <2>6, <2>7
<1> QED
  BY <1>3, <1>4

\* The code that starts there is taken as a whole.
LEMMA ReadCodeStart ==
    ASSUME NEW s, NEW T, NEW k, NEW c, NEW o, StartsAt(s, k, T) = {c}
    PROVE  ReadCode([out |-> o, skip |-> 0], s, k, T) = [out |-> Append(o, c), skip |-> Len(T[c]) - 1]
<1> DEFINE r == [out |-> o, skip |-> 0]
           d == CHOOSE d \in StartsAt(s, k, T) : TRUE
<1>1. ~(r.skip > 0) /\ r.out = o
  OBVIOUS
<1>2. ReadCode(r, s, k, T) = [out |-> Append(r.out, d), skip |-> Len(T[d]) - 1]
  <2>1. StartsAt(s, k, T) # {}
    OBVIOUS
  <2> HIDE DEF r
  <2> QED
    BY <1>1, <2>1, Zenon DEF ReadCode
<1>3. d \in StartsAt(s, k, T)
  OBVIOUS
<1>4. d = c
  BY <1>3
<1> HIDE DEF r, d
<1> QED
  BY <1>1, <1>2, <1>4 DEF r

\* Reading the code of a character gives the character.
LEMMA DecodeStep ==
    ASSUME NEW T, Readable(T), NEW s \in Text, NEW k \in 1..Len(s), NEW o \in Text,
           Decoding(Replaced(s, T), T)[Place(s, T, k - 1)] = [out |-> o, skip |-> 0]
    PROVE  Decoding(Replaced(s, T), T)[Place(s, T, k)]
              = [out |-> Append(o, s[k]), skip |-> 0]
<1> DEFINE e == Replaced(s, T)
           D == Decoding(e, T)
           c == s[k]
<1>1. IsTable(T) /\ c \in Chars /\ e \in Text
  BY ReplacingIs DEF Readable, Replaced, Text
<1>2. PICK a \in Nat, n \in Nat \ {0}, l \in Nat :
          /\ a = Place(s, T, k - 1) /\ n = Len(Code(c, T)) /\ l = Len(e)
          /\ Place(s, T, k) = a + n /\ a + n <= l
          /\ \A i \in 1..n : e[a + i] = Code(c, T)[i]
  <2>1. /\ Place(s, T, k - 1) \in Nat /\ Len(Code(c, T)) \in Nat \ {0}
        /\ Place(s, T, k) = Place(s, T, k - 1) + Len(Code(c, T))
        /\ Len(e) \in Nat /\ Place(s, T, k) <= Len(e)
        /\ \A i \in 1..Len(Code(c, T)) : e[Place(s, T, k - 1) + i] = Code(c, T)[i]
    BY <1>1, CodeInText
  <2> DEFINE a == Place(s, T, k - 1)
             n == Len(Code(c, T))
             l == Len(e)
  <2>2. /\ a \in Nat /\ n \in Nat \ {0} /\ l \in Nat
        /\ Place(s, T, k) = a + n /\ a + n <= l
        /\ \A i \in 1..n : e[a + i] = Code(c, T)[i]
    BY <2>1
  <2> QED
    BY <2>2
<1>3. \A j \in 1..l : D[j] = ReadCode(D[j - 1], e, j, T)
  BY <1>1, <1>2, DecodingIs
<1>4. D[a] = [out |-> o, skip |-> 0]
  BY <1>2
<1>5. StartsAt(e, a + 1, T) = IF c \in DOMAIN T THEN {c} ELSE {}
  BY <1>1, <1>2, StartsRight
<1> HIDE DEF D, e
<1>6. D[a + 1] = ReadCode(D[a], e, a + 1, T)
  <2>1. a + 1 \in 1..l /\ a + 1 - 1 = a
    BY <1>2
  <2> QED
    BY <1>3, <2>1
<1>7. CASE c \notin DOMAIN T
  <2>1. e[a + 1] = c /\ n = 1
    BY <1>2, <1>7 DEF Code
  <2>2. D[a + 1] = [[out |-> o, skip |-> 0] EXCEPT !.out = Append(@, e[a + 1])]
    BY <1>4, <1>5, <1>6, <1>7 DEF ReadCode
  <2>3. D[a + n] = [out |-> Append(o, c), skip |-> 0]
    BY <2>1, <2>2
  <2> QED
    BY <1>2, <2>3 DEF D, e
<1>8. CASE c \in DOMAIN T
  <2>1. n = Len(T[c])
    BY <1>2, <1>8 DEF Code
  <2>2. D[a + 1] = [out |-> Append(o, c), skip |-> n - 1]
    <3>1. StartsAt(e, a + 1, T) = {c}
      BY <1>5, <1>8
    <3>2. D[a + 1] = [out |-> Append(o, c), skip |-> Len(T[c]) - 1]
      <4>1. ReadCode([out |-> o, skip |-> 0], e, a + 1, T) = [out |-> Append(o, c), skip |-> Len(T[c]) - 1]
        <5> HIDE DEF c
        <5> QED
          BY SMTT(30), <3>1, ReadCodeStart
      <4> QED
        BY <1>4, <1>6, <4>1
    <3> QED
      BY <2>1, <3>2
  <2> DEFINE p == Append(o, c)
             S == {i \in 0..n - 1 : D[a + 1 + i] = [out |-> p, skip |-> n - 1 - i]}
  <2> HIDE DEF p
  <2>3. 0 \in S
    BY <2>2 DEF p
  <2>4. ASSUME NEW i \in 0..(n - 1) - 1, i \in S PROVE i + 1 \in S
    <3>1. /\ a + 1 + (i + 1) \in 1..l /\ a + 1 + (i + 1) - 1 = a + 1 + i
          /\ i + 1 \in 0..n - 1 /\ n - 1 - i > 0 /\ n - 1 - i - 1 = n - 1 - (i + 1)
      BY SMTT(30), <1>2
    <3>2. D[a + 1 + (i + 1)] = ReadCode([out |-> p, skip |-> n - 1 - i], e, a + 1 + (i + 1), T)
      BY <1>3, <2>4, <3>1
    <3>3. D[a + 1 + (i + 1)] = [out |-> p, skip |-> n - 1 - i - 1]
      BY <3>1, <3>2 DEF ReadCode
    <3> QED
      BY <3>1, <3>3
  <2>5. 0..n - 1 \subseteq S
    <3>1. n - 1 \in Nat
      OBVIOUS
    <3> HIDE DEF S
    <3> QED
      BY <2>3, <2>4, <3>1, UpTo
  <2>6. n - 1 \in S /\ a + 1 + (n - 1) = a + n /\ n - 1 - (n - 1) = 0
    <3>1. n - 1 \in 0..n - 1 /\ a + 1 + (n - 1) = a + n /\ n - 1 - (n - 1) = 0
      OBVIOUS
    <3> HIDE DEF S
    <3> QED
      BY <2>5, <3>1
  <2>7. D[a + n] = [out |-> p, skip |-> 0]
    BY <2>6
  <2> QED
    BY <1>2, <2>7 DEF D, e, p
<1> QED
  BY <1>7, <1>8

\* What replace has encoded is decoded.
LEMMA DecodedReplaced ==
    ASSUME NEW T, Readable(T), NEW s \in Text
    PROVE  Decoded(Replaced(s, T), T) = s
<1> DEFINE e == Replaced(s, T)
           D == Decoding(e, T)
           S == {k \in 0..Len(s) : D[Place(s, T, k)] = [out |-> SubSeq(s, 1, k), skip |-> 0]}
<1>1. IsTable(T) /\ e \in Text /\ Len(s) \in Nat
  BY ReplacingIs DEF Readable, Replaced, Text
<1>2. 0 \in S
  <2>1. Replacing(s, T)[0] = <<>>
    BY <1>1, ReplacingIs
  <2>2. Place(s, T, 0) = 0
    BY <2>1 DEF Place
  <2>3. D[0] = [out |-> <<>>, skip |-> 0]
    BY <1>1, DecodingIs
  <2>4. SubSeq(s, 1, 0) = <<>>
    BY SubSeqEmpty
  <2> QED
    BY <1>1, <2>2, <2>3, <2>4
<1>3. ASSUME NEW k \in 0..Len(s) - 1, k \in S PROVE k + 1 \in S
  <2>1. k + 1 \in 1..Len(s) /\ k + 1 - 1 = k /\ k + 1 \in 0..Len(s)
    BY <1>1
  <2> DEFINE o == SubSeq(s, 1, k)
  <2>2. o \in Text
    <3>1. \A i \in 1..k : s[i] \in Chars
      BY <1>1 DEF Text
    <3> QED
      BY <3>1, SubSeqProperties DEF Text
  <2>3. D[Place(s, T, k + 1 - 1)] = [out |-> o, skip |-> 0]
    BY <1>3, <2>1
  <2> HIDE DEF o
  <2>4. D[Place(s, T, k + 1)] = [out |-> Append(o, s[k + 1]), skip |-> 0]
    BY <2>1, <2>2, <2>3, DecodeStep
  <2>5. Append(o, s[k + 1]) = SubSeq(s, 1, k + 1)
    <3>1. Append(SubSeq(s, 1, k + 1 - 1), s[k + 1]) = SubSeq(s, 1, k + 1)
      BY <2>1, FrontGrows DEF Text
    <3> QED
      BY <2>1, <3>1 DEF o
  <2> QED
    BY <2>1, <2>4, <2>5
<1>4. Len(s) \in S
  <2> HIDE DEF S
  <2>1. 0..Len(s) \subseteq S
    BY <1>1, <1>2, <1>3, UpTo
  <2> QED
    BY <1>1, <2>1
<1>5. Place(s, T, Len(s)) = Len(e)
  BY DEF Place, Replaced
<1>6. SubSeq(s, 1, Len(s)) = s
  BY SubSeqFull DEF Text
<1>7. D[Len(e)].out = s
  BY <1>4, <1>5, <1>6
<1> QED
  BY <1>7 DEF Decoded

-----------------------------------------------------------------------------
\* Text: the tables of the code

LEMMA ReplacedType ==
    ASSUME NEW s \in Text, NEW T, IsTable(T)
    PROVE  Replaced(s, T) \in Text
<1>1. Len(s) \in 0..Len(s)
  BY LenProperties DEF Text
<1> QED
  BY <1>1, ReplacingIs DEF Replaced

LEMMA DecodedType ==
    ASSUME NEW s \in Text, NEW T, IsTable(T)
    PROVE  Decoded(s, T) \in Text
<1>1. Len(s) \in 0..Len(s)
  BY LenProperties DEF Text
<1> QED
  BY <1>1, DecodingIs DEF Decoded, DecodeState

LEMMA ReadableJpString == Readable(toJpString)
<1>1. "~" \in Chars /\ "/" \in Chars /\ "0" \in Chars /\ "1" \in Chars
  BY JsonAssumption DEF Signs
<1>2. /\ DOMAIN toJpString = {"~", "/"}
      /\ toJpString["/"] = <<"~", "1">> /\ toJpString["~"] = <<"~", "0">>
  BY DEF toJpString
<1>3. <<"~", "1">> # <<"~", "0">>
  OBVIOUS
<1>4. \A c \in DOMAIN toJpString : toJpString[c] \in Text /\ toJpString[c] # <<>> /\ toJpString[c][1] \in DOMAIN toJpString /\ Len(toJpString[c]) = 2
  <2>1. ASSUME NEW t, NEW D, NEW a \in Chars, NEW b \in Chars, a \in D, t = <<a, b>>
        PROVE  t \in Text /\ t # <<>> /\ t[1] \in D /\ Len(t) = 2
    BY <2>1 DEF Text
  <2>2. toJpString["/"] \in Text /\ toJpString["/"] # <<>> /\ toJpString["/"][1] \in DOMAIN toJpString /\ Len(toJpString["/"]) = 2
    BY <1>1, <1>2, <2>1
  <2>3. toJpString["~"] \in Text /\ toJpString["~"] # <<>> /\ toJpString["~"][1] \in DOMAIN toJpString /\ Len(toJpString["~"]) = 2
    BY <1>1, <1>2, <2>1
  <2> QED
    BY <1>2, <2>2, <2>3
<1>5. \A c, d \in DOMAIN toJpString : toJpString[c] = toJpString[d] => c = d
  BY <1>2, <1>3
<1>6. DOMAIN toJpString \subseteq Chars
  BY <1>1, <1>2
<1> QED
  BY <1>4, <1>5, <1>6 DEF Readable, IsTable

LEMMA ReadableURIComponent == Readable(URIComponent)
<1> DEFINE D == DOMAIN URIComponent
           CodeIs(c, x, y) == URIComponent[c] = <<"%", x, y>> /\ x \in Chars /\ y \in Chars
<1>1. /\ "%" \in Chars /\ "/" \in Chars /\ "\\" \in Chars /\ "#" \in Chars /\ "\n" \in Chars /\ "\r" \in Chars
      /\ "0" \in Chars /\ "2" \in Chars /\ "3" \in Chars /\ "5" \in Chars
      /\ "A" \in Chars /\ "C" \in Chars /\ "D" \in Chars /\ "F" \in Chars
  BY JsonAssumption DEF Signs, LineBreaks
<1>2. D = {"%", "/", "\\", "#", "\n", "\r"}
  BY DEF URIComponent, LineBreaks
<1>3. /\ CodeIs("%", "2", "5") /\ CodeIs("/", "2", "F") /\ CodeIs("\\", "5", "C")
      /\ CodeIs("#", "2", "3") /\ CodeIs("\n", "0", "A") /\ CodeIs("\r", "0", "D")
  BY <1>1 DEF URIComponent, LineBreaks
<1>4. \A c \in D : URIComponent[c] \in Text /\ URIComponent[c] # <<>> /\ URIComponent[c][1] \in D /\ Len(URIComponent[c]) = 3
  <2>1. ASSUME NEW c, NEW x, NEW y, CodeIs(c, x, y)
        PROVE  URIComponent[c] \in Text /\ URIComponent[c] # <<>> /\ URIComponent[c][1] \in D /\ Len(URIComponent[c]) = 3
    <3>1. ASSUME NEW t, NEW a \in Chars, NEW b \in Chars, t = <<"%", a, b>>
          PROVE  t \in Text /\ t # <<>> /\ t[1] = "%" /\ Len(t) = 3
      BY <1>1, <3>1 DEF Text
    <3> HIDE DEF D
    <3> QED
      BY <1>2, <2>1, <3>1
  <2> QED
    <3> HIDE DEF CodeIs, D
    <3> QED
      BY <1>2, <1>3, <2>1
<1>5. \A c, d \in D : URIComponent[c] = URIComponent[d] => c = d
  <2> DEFINE Third(c) == URIComponent[c][3]
  <2>1. ASSUME NEW c, NEW x, NEW y, CodeIs(c, x, y) PROVE Third(c) = y
    BY <2>1
  <2>2. /\ Third("%") = "5" /\ Third("/") = "F" /\ Third("\\") = "C"
        /\ Third("#") = "3" /\ Third("\n") = "A" /\ Third("\r") = "D"
    <3> HIDE DEF CodeIs, Third
    <3> QED
      BY <1>3, <2>1
  <2>3. \A c, d \in D : URIComponent[c] = URIComponent[d] => Third(c) = Third(d)
    OBVIOUS
  <2> HIDE DEF D, Third
  <2> QED
    BY <1>2, <2>2, <2>3
<1>6. D \subseteq Chars
  BY <1>1, <1>2
<1> QED
  BY <1>4, <1>5, <1>6 DEF Readable, IsTable

LEMMA LiteralRead ==
    ASSUME NEW s \in Text
    PROVE  LiteralValue(Literal(s)) = s
<1> DEFINE T == [c \in {"\\", "'"} |-> <<"\\", c>>]
<1>1. "\\" \in Chars /\ "'" \in Chars
  BY JsonAssumption DEF Signs
<1>2. DOMAIN T = {"\\", "'"} /\ T["\\"] = <<"\\", "\\">> /\ T["'"] = <<"\\", "'">>
  OBVIOUS
<1>3. <<"\\", "\\">> # <<"\\", "'">>
  OBVIOUS
<1> HIDE DEF T
<1>4. \A c \in DOMAIN T : T[c] \in Text /\ T[c] # <<>> /\ T[c][1] \in DOMAIN T /\ Len(T[c]) = 2
  <2>1. ASSUME NEW t, NEW D, NEW a \in Chars, NEW b \in Chars, a \in D, t = <<a, b>>
        PROVE  t \in Text /\ t # <<>> /\ t[1] \in D /\ Len(t) = 2
    BY <2>1 DEF Text
  <2>2. T["\\"] \in Text /\ T["\\"] # <<>> /\ T["\\"][1] \in DOMAIN T /\ Len(T["\\"]) = 2
    BY <1>1, <1>2, <2>1
  <2>3. T["'"] \in Text /\ T["'"] # <<>> /\ T["'"][1] \in DOMAIN T /\ Len(T["'"]) = 2
    BY <1>1, <1>2, <2>1
  <2> QED
    BY <1>2, <2>2, <2>3
<1>5. \A c, d \in DOMAIN T : T[c] = T[d] => c = d
  BY <1>2, <1>3
<1>6. DOMAIN T \subseteq Chars
  BY <1>1, <1>2
<1>7. Readable(T)
  BY <1>4, <1>5, <1>6 DEF Readable, IsTable
<1>8. Decoded(Replaced(s, T), T) = s
  BY <1>7, DecodedReplaced
<1> QED
  BY <1>8 DEF T, Literal, LiteralValue

\* The tables are tables.
LEMMA Tables == IsTable(toJpString) /\ IsTable(URIComponent)
BY ReadableJpString, ReadableURIComponent DEF Readable

\* A segment without "/".
Plain == Seq(Chars \ {"/"})

LEMMA PlainIsText == Plain \subseteq Text
BY DEF Plain, Text

\* toJpString leaves no "/".
LEMMA JpStringPlain ==
    ASSUME NEW s \in Text
    PROVE  Replaced(s, toJpString) \in Plain
<1> DEFINE h == Replacing(s, toJpString)
           T == toJpString
<1>1. Len(s) \in Nat
  BY DEF Text
<1>2. /\ h[0] = <<>>
      /\ \A j \in 1..Len(s) : h[j] = AddCode(h[j - 1], s[j], T)
  BY ReplacingIs, Tables
<1>3. ASSUME NEW j \in 1..Len(s), h[j - 1] \in Plain PROVE h[j] \in Plain
  <2>1. s[j] \in Chars
    BY DEF Text
  <2>2. "~" \in Chars /\ "0" \in Chars /\ "1" \in Chars
    BY JsonAssumption DEF Signs
  <2>3. (IF s[j] \in DOMAIN T THEN T[s[j]] ELSE <<s[j]>>) \in Plain
    <3>1. CASE s[j] = "/"
      BY <2>2, <3>1 DEF toJpString, Plain
    <3>2. CASE s[j] = "~"
      BY <2>2, <3>2 DEF toJpString, Plain
    <3>3. CASE s[j] \notin {"/", "~"}
      BY <2>1, <3>3 DEF toJpString, Plain
    <3> QED
      BY <3>1, <3>2, <3>3
  <2> DEFINE t == h[j - 1]
             c == IF s[j] \in DOMAIN T THEN T[s[j]] ELSE <<s[j]>>
  <2>4. h[j] = t \o c
    BY <1>2 DEF AddCode
  <2> HIDE DEF t, c
  <2>5. t \o c \in Plain
    BY <1>3, <2>3, ConcatProperties DEF Plain, t, c
  <2> QED
    BY <2>4, <2>5
<1>4. h[0] \in Plain
  BY <1>2 DEF Plain
<1> HIDE DEF h
<1>5. \A j \in 0..Len(s) : h[j] \in Plain
  BY <1>1, <1>3, <1>4, RunTyped
<1> QED
  BY <1>1, <1>5 DEF h, Replaced

-----------------------------------------------------------------------------
\* Text: what is joined is split

\* A segment, with what stands before it.
Slashed(seg) == <<"/">> \o seg

LEMMA SlashedIs ==
    ASSUME NEW seg \in Text
    PROVE  /\ Slashed(seg) \in Text /\ Len(seg) \in Nat /\ Len(Slashed(seg)) = Len(seg) + 1
           /\ Slashed(seg)[1] = "/" /\ \A i \in 1..Len(seg) : Slashed(seg)[i + 1] = seg[i]
<1>1. <<"/">> \in Seq(Chars) /\ Len(<<"/">>) = 1 /\ <<"/">>[1] = "/"
  BY JsonAssumption DEF Signs
<1> DEFINE a == <<"/">>
<1>2. a \o seg \in Seq(Chars) /\ Extends(a \o seg, a, seg)
  <2> HIDE DEF a
  <2> QED
    BY <1>1, ConcatExtends DEF a, Text
<1> DEFINE b == a \o seg
<1>3. b \in Seq(Chars) /\ Extends(b, a, seg)
  BY <1>2
<1>4. PICK n \in Nat : n = Len(seg)
  BY LenProperties DEF Text
<1> HIDE DEF a, b
<1>5. Len(b) = 1 + n /\ b[1] = "/" /\ \A i \in 1..n : b[1 + i] = seg[i]
  BY <1>1, <1>3, <1>4 DEF Extends, a
<1>6. Len(b) = n + 1 /\ \A i \in 1..n : 1 + i = i + 1
  BY <1>5
<1> QED
  BY <1>3, <1>4, <1>5, <1>6 DEF Slashed, a, b, Text

\* Every segment is added to the text.
LEMMA JoiningGrows ==
    ASSUME NEW q \in Seq(Text), NEW k \in 1..Len(q)
    PROVE  Extends(Joining(q)[k], Joining(q)[k - 1], Slashed(q[k]))
<1>1. q[k] \in Text /\ k - 1 \in 0..Len(q)
  OBVIOUS
<1>2. Joining(q)[k - 1] \in Text
  BY <1>1, JoiningIs
<1>3. Joining(q)[k] = AddSegment(Joining(q)[k - 1], q[k])
  BY JoiningIs
<1>4. Joining(q)[k] = Joining(q)[k - 1] \o Slashed(q[k])
  BY <1>3 DEF AddSegment, Slashed
<1> DEFINE x == Joining(q)[k - 1]
           c == Slashed(q[k])
<1>5. x \in Text /\ c \in Text
  BY <1>1, <1>2, SlashedIs
<1> HIDE DEF x, c
<1>6. Extends(x \o c, x, c)
  BY <1>5, ConcatExtends DEF Text
<1> QED
  BY <1>4, <1>6 DEF x, c

\* What has been joined stays at the beginning of the text.
LEMMA JoiningFront ==
    ASSUME NEW q \in Seq(Text), NEW j \in 0..Len(q)
    PROVE  IsFront(Joining(q)[j], Join(q))
<1> DEFINE N == Len(q)
           e == Join(q)
           S == {m \in 0..N : IsFront(Joining(q)[N - m], e)}
<1>1. N \in Nat /\ e = Joining(q)[N] /\ e \in Text
  BY JoiningIs DEF Join
<1>2. 0 \in S
  BY <1>1, LenProperties DEF IsFront, Text
<1>3. ASSUME NEW m \in 0..N - 1, m \in S PROVE m + 1 \in S
  <2>1. N - m \in 1..N /\ N - m - 1 = N - (m + 1) /\ m + 1 \in 0..N
    BY <1>1
  <2>2. Extends(Joining(q)[N - m], Joining(q)[N - m - 1], Slashed(q[N - m]))
    BY <2>1, JoiningGrows
  <2>3. IsFront(Joining(q)[N - m - 1], e)
    BY <1>3, <2>2, FrontOfFront
  <2> QED
    BY <2>1, <2>3
<1>4. 0..N \subseteq S
  <2> HIDE DEF S
  <2> QED
    BY <1>1, <1>2, <1>3, UpTo
<1>5. N - j \in 0..N /\ N - (N - j) = j
  BY <1>1
<1>6. N - j \in S
  BY <1>4, <1>5
<1> QED
  BY <1>5, <1>6

\* The kth segment is in the text where the segment before it ends.
SegPlace(q, k) == Len(Joining(q)[k])

LEMMA SegmentInText ==
    ASSUME NEW q \in Seq(Text), NEW k \in 1..Len(q)
    PROVE  /\ SegPlace(q, k - 1) \in Nat /\ Len(q[k]) \in Nat /\ Len(Join(q)) \in Nat
           /\ SegPlace(q, k) = SegPlace(q, k - 1) + 1 + Len(q[k])
           /\ SegPlace(q, k) <= Len(Join(q))
           /\ Join(q)[SegPlace(q, k - 1) + 1] = "/"
           /\ \A i \in 1..Len(q[k]) : Join(q)[SegPlace(q, k - 1) + 1 + i] = q[k][i]
<1>1. Extends(Joining(q)[k], Joining(q)[k - 1], Slashed(q[k]))
  BY JoiningGrows
<1>2. k \in 0..Len(q) /\ q[k] \in Text
  OBVIOUS
<1>3. IsFront(Joining(q)[k], Join(q))
  BY <1>2, JoiningFront
<1> DEFINE b == Joining(q)[k]
           x == Joining(q)[k - 1]
           seg == q[k]
           c == Slashed(seg)
           e == Join(q)
<1>4. Extends(b, x, c) /\ IsFront(b, e)
  BY <1>1, <1>3
<1>5. /\ Len(seg) \in Nat /\ Len(c) = Len(seg) + 1
      /\ c[1] = "/" /\ \A i \in 1..Len(seg) : c[i + 1] = seg[i]
  BY <1>2, SlashedIs
<1> HIDE DEF b, x, seg, c, e
<1>6. Len(x) + Len(c) <= Len(e) /\ \A i \in 1..Len(c) : e[Len(x) + i] = c[i]
  BY <1>4, FrontOfFront
<1>7. PICK m \in Nat, n \in Nat, l \in Nat : m = Len(x) /\ n = Len(seg) /\ l = Len(e)
  BY <1>4, <1>5 DEF Extends, IsFront
<1>8. Len(b) = m + 1 + n /\ m + 1 + n <= l
  BY <1>4, <1>5, <1>7 DEF Extends, IsFront
<1>9. \A i \in 1..n + 1 : e[m + i] = c[i]
  BY <1>5, <1>6, <1>7
<1>10. e[m + 1] = "/"
  BY <1>5, <1>9
<1>11. ASSUME NEW i \in 1..n PROVE e[m + 1 + i] = seg[i]
  <2>1. i + 1 \in 1..n + 1 /\ m + (i + 1) = m + 1 + i
    OBVIOUS
  <2>2. e[m + (i + 1)] = c[i + 1] /\ c[i + 1] = seg[i]
    BY <1>5, <1>7, <1>9, <2>1
  <2> QED
    BY <2>1, <2>2
<1> QED
  BY <1>7, <1>8, <1>10, <1>11 DEF b, x, seg, c, e, SegPlace

\* A character that is not "/" is added to the last part.
LEMMA SplitAtEnd ==
    ASSUME NEW o \in Seq(Text), NEW t \in Text, NEW c \in Chars, c # "/"
    PROVE  SplitAt(Append(o, t), c) = Append(o, Append(t, c))
<1> DEFINE p == Append(o, t)
           r == Append(t, c)
           q == Append(o, r)
<1>1. PICK n \in Nat : n = Len(o)
  BY LenProperties
<1>2. /\ p \in Seq(Text) /\ Len(p) = n + 1 /\ p # <<>> /\ p[n + 1] = t
      /\ \A i \in 1..n : p[i] = o[i]
  BY <1>1, AppendProperties
<1>3. r \in Text
  BY AppendProperties DEF Text
<1>4. SplitAt(p, c) = [p EXCEPT ![n + 1] = r]
  <2> HIDE DEF p
  <2> QED
    BY <1>2 DEF SplitAt
<1> HIDE DEF p, r
<1>5. /\ q \in Seq(Text) /\ Len(q) = n + 1 /\ q[n + 1] = r
      /\ \A i \in 1..n : q[i] = o[i]
  BY <1>1, <1>3, AppendProperties
<1> DEFINE x == [p EXCEPT ![n + 1] = r]
<1> HIDE DEF q
<1>6. x \in Seq(Text) /\ Len(x) = n + 1 /\ \A i \in 1..n + 1 : x[i] = IF i = n + 1 THEN r ELSE p[i]
  <2>1. n + 1 \in 1..Len(p)
    BY <1>2
  <2> QED
    BY <1>2, <1>3, <2>1, ExceptSeq
<1> HIDE DEF x
<1>7. ASSUME NEW i \in 1..n + 1 PROVE x[i] = q[i]
  <2>1. CASE i = n + 1
    BY <1>5, <1>6, <2>1
  <2>2. CASE i # n + 1
    <3>1. i \in 1..n /\ x[i] = p[i]
      BY <1>6, <2>2
    <3> QED
      BY <1>2, <1>5, <3>1
  <2> QED
    BY <2>1, <2>2
<1>8. x = q
  BY <1>5, <1>6, <1>7, SeqEqual
<1> QED
  BY <1>4, <1>8 DEF p, q, r, x

\* Splitting e, in which q has been joined after its first b characters.
Holds(e, b, q) ==
    /\ e \in Text /\ b \in Nat /\ Len(e) = b + Len(Join(q))
    /\ \A i \in 1..Len(Join(q)) : e[b + i] = Join(q)[i]

\* The kth segment is one more part.
LEMMA SplitStep ==
    ASSUME NEW e, NEW b, NEW q \in Seq(Plain), Holds(e, b, q),
           NEW k \in 1..Len(q), NEW o \in Seq(Text),
           Splitting(e)[b + SegPlace(q, k - 1)] = o
    PROVE  Splitting(e)[b + SegPlace(q, k)] = Append(o, q[k])
<1> DEFINE seg == q[k]
           P == Splitting(e)
<1>1. q \in Seq(Text) /\ seg \in Plain /\ seg \in Text
  <2>1. \A j \in 1..Len(q) : q[j] \in Text
    BY PlainIsText
  <2>2. Len(q) \in Nat /\ q = [j \in 1..Len(q) |-> q[j]]
    OBVIOUS
  <2>3. q \in Seq(Text)
    BY <2>1, <2>2
  <2> QED
    BY <2>1, <2>3
<1>2. PICK m \in Nat, n \in Nat, l \in Nat :
          /\ m = SegPlace(q, k - 1) /\ n = Len(seg) /\ l = Len(Join(q))
          /\ SegPlace(q, k) = m + 1 + n /\ m + 1 + n <= l
          /\ Join(q)[m + 1] = "/" /\ \A i \in 1..n : Join(q)[m + 1 + i] = seg[i]
  <2> DEFINE m == SegPlace(q, k - 1)
             n == Len(seg)
             l == Len(Join(q))
  <2>1. /\ m \in Nat /\ n \in Nat /\ l \in Nat
        /\ SegPlace(q, k) = m + 1 + n /\ SegPlace(q, k) <= l
        /\ Join(q)[m + 1] = "/" /\ \A i \in 1..n : Join(q)[m + 1 + i] = seg[i]
    BY <1>1, SegmentInText
  <2>2. m + 1 + n <= l
    BY <2>1
  <2> QED
    BY <2>1, <2>2
<1>3. PICK a \in Nat : a = b + m
  BY <1>2 DEF Holds
<1>4. b \in Nat /\ Len(e) = b + l /\ \A i \in 1..l : e[b + i] = Join(q)[i]
  BY <1>2 DEF Holds
<1> HIDE DEF seg, P
<1>20. m + 1 + n <= l /\ a = b + m /\ b \in Nat /\ a \in Nat
  BY <1>2, <1>3, <1>4
<1>5. e[a + 1] = "/"
  <2>1. m + 1 \in 1..l /\ b + (m + 1) = a + 1
    BY <1>20
  <2> QED
    BY <1>2, <1>4, <2>1
<1>6. ASSUME NEW i \in 1..n PROVE e[a + 1 + i] = seg[i]
  <2>1. m + 1 + i \in 1..l /\ b + (m + 1 + i) = a + 1 + i
    BY <1>20
  <2> QED
    BY <1>2, <1>4, <2>1
<1>7. ASSUME NEW i \in 0..n
      PROVE  a + 1 + i \in 1..Len(e) /\ a + 1 + i - 1 = a + i
  <2>1. a + 1 + i \in 1..b + l /\ a + 1 + i - 1 = a + i
    BY <1>20
  <2> QED
    BY <1>4, <2>1
<1>8. \A j \in 1..Len(e) : P[j] = SplitAt(P[j - 1], e[j])
  BY SplittingIs DEF Holds, P
<1>9. P[a] = o
  BY <1>2, <1>3 DEF P
<1>10. \A i \in 1..n : seg[i] \in Chars /\ seg[i] # "/"
  BY SMTT(30), <1>1, <1>2 DEF Plain
<1> DEFINE S == {i \in 0..n : P[a + 1 + i] = Append(o, SubSeq(seg, 1, i))}
<1>11. 0 \in S
  <2>1. a + 1 + 0 \in 1..Len(e) /\ a + 1 + 0 - 1 = a /\ a + 1 + 0 = a + 1
    BY <1>7
  <2>2. P[a + 1] = SplitAt(o, "/")
    BY <1>5, <1>8, <1>9, <2>1
  <2>3. SubSeq(seg, 1, 0) = <<>>
    BY SubSeqEmpty
  <2>4. P[a + 1] = Append(o, <<>>)
    BY <2>2 DEF SplitAt
  <2>5. P[a + 1 + 0] = Append(o, SubSeq(seg, 1, 0)) /\ 0 \in 0..n
    <3> DEFINE z == SubSeq(seg, 1, 0)
               x == <<>>
    <3>1. z = x /\ P[a + 1] = Append(o, x)
      BY <2>3, <2>4
    <3> HIDE DEF z, x
    <3>2. P[a + 1 + 0] = Append(o, z)
      BY <2>1, <3>1
    <3> QED
      BY <3>2 DEF z
  <2> QED
    BY <2>5
<1>12. ASSUME NEW i \in 0..n - 1, i \in S PROVE i + 1 \in S
  <2>1. i + 1 \in 1..n /\ i + 1 \in 0..n /\ i + 1 - 1 = i /\ a + (i + 1) = a + 1 + i
    OBVIOUS
  <2>2. a + 1 + (i + 1) \in 1..Len(e) /\ a + 1 + (i + 1) - 1 = a + 1 + i
    BY <1>7, <2>1
  <2> DEFINE t == SubSeq(seg, 1, i)
             c == seg[i + 1]
  <2>3. P[a + 1 + (i + 1)] = SplitAt(Append(o, t), c)
    <3>1. e[a + 1 + (i + 1)] = c
      BY <1>6, <2>1
    <3>2. P[a + 1 + i] = Append(o, t)
      BY <1>12
    <3> DEFINE x == a + 1 + (i + 1)
               y == a + 1 + i
    <3>3. x \in 1..Len(e) /\ x - 1 = y /\ e[x] = c /\ P[y] = Append(o, t)
      BY <2>2, <3>1, <3>2
    <3> HIDE DEF c, t, x, y
    <3>4. P[x] = SplitAt(Append(o, t), c)
      BY <1>8, <3>3
    <3> QED
      BY <3>4 DEF x
  <2>4. t \in Text
    <3>1. \A j \in 1..i : seg[j] \in Chars
      BY <1>10
    <3> QED
      BY <3>1, SubSeqProperties DEF Text
  <2>5. c \in Chars /\ c # "/"
    BY <1>10, <2>1
  <2>6. Append(t, c) = SubSeq(seg, 1, i + 1)
    <3>1. i + 1 \in 1..Len(seg)
      BY <1>2, <2>1
    <3>2. Append(SubSeq(seg, 1, i + 1 - 1), seg[i + 1]) = SubSeq(seg, 1, i + 1)
      BY <1>1, <3>1, FrontGrows DEF Text
    <3> QED
      BY <2>1, <3>2
  <2> HIDE DEF t, c
  <2>7. SplitAt(Append(o, t), c) = Append(o, Append(t, c))
    BY <2>4, <2>5, SplitAtEnd
  <2>8. P[a + 1 + (i + 1)] = Append(o, SubSeq(seg, 1, i + 1))
    BY <2>3, <2>6, <2>7, Zenon
  <2> QED
    BY <2>1, <2>8
<1>13. n \in S
  <2> HIDE DEF S
  <2>1. 0..n \subseteq S
    BY <1>11, <1>12, UpTo
  <2> QED
    BY <2>1
<1>14. SubSeq(seg, 1, n) = seg
  BY <1>1, <1>2, SubSeqFull DEF Text
<1>15. b + SegPlace(q, k) = a + 1 + n
  BY SMTT(30), <1>2, <1>3, <1>4
<1> QED
  BY <1>13, <1>14, <1>15 DEF P, seg

\* What has been joined is split, after b characters that are no part.
LEMMA SplitJoin ==
    ASSUME NEW e, NEW b, NEW q \in Seq(Plain), Holds(e, b, q), Splitting(e)[b] = <<>>
    PROVE  Split(e) = q
<1> DEFINE P == Splitting(e)
           S == {k \in 0..Len(q) : P[b + SegPlace(q, k)] = SubSeq(q, 1, k)}
<1>1. PICK n \in Nat : n = Len(q)
  BY LenProperties
<1>2. q \in Seq(Text) /\ \A j \in 1..n : q[j] \in Text
  <2>1. \A j \in 1..Len(q) : q[j] \in Text
    BY PlainIsText
  <2>2. Len(q) \in Nat /\ q = [j \in 1..Len(q) |-> q[j]]
    OBVIOUS
  <2>3. q \in Seq(Text)
    BY <2>1, <2>2
  <2> QED
    BY <1>1, <2>1, <2>3
<1>3. b \in Nat
  BY DEF Holds
<1>4. 0 \in S
  <2>1. Joining(q)[0] = <<>>
    BY <1>2, JoiningIs
  <2>2. SegPlace(q, 0) = 0
    BY <2>1 DEF SegPlace
  <2>3. SubSeq(q, 1, 0) = <<>>
    BY SubSeqEmpty
  <2>4. b + 0 = b
    BY <1>3
  <2> QED
    <3>1. P[b] = <<>>
      OBVIOUS
    <3>2. b + SegPlace(q, 0) = b
      BY <2>2, <2>4
    <3>3. P[b + SegPlace(q, 0)] = SubSeq(q, 1, 0) /\ 0 \in 0..Len(q)
      <4> HIDE DEF P
      <4>1. P[b + SegPlace(q, 0)] = P[b]
        BY <3>2
      <4>2. 0 \in 0..Len(q)
        BY <1>1
      <4> QED
        BY <2>3, <3>1, <4>1, <4>2, Zenon
    <3> QED
      BY <3>3
<1>5. ASSUME NEW k \in 0..n - 1, k \in S PROVE k + 1 \in S
  <2>1. k + 1 \in 1..Len(q) /\ k + 1 - 1 = k /\ k + 1 \in 0..Len(q)
    BY <1>1
  <2> DEFINE o == SubSeq(q, 1, k)
  <2>2. o \in Seq(Text)
    <3>1. \A i \in 1..k : q[i] \in Text
      BY <1>2
    <3> QED
      BY <3>1, SubSeqProperties
  <2>3. P[b + SegPlace(q, k + 1 - 1)] = o
    BY <1>5, <2>1
  <2> HIDE DEF o
  <2>4. P[b + SegPlace(q, k + 1)] = Append(o, q[k + 1])
    BY <2>1, <2>2, <2>3, SplitStep
  <2>5. Append(o, q[k + 1]) = SubSeq(q, 1, k + 1)
    <3>1. Append(SubSeq(q, 1, k + 1 - 1), q[k + 1]) = SubSeq(q, 1, k + 1)
      BY <2>1, <1>2, FrontGrows
    <3> QED
      BY <2>1, <3>1 DEF o
  <2> QED
    BY <2>1, <2>4, <2>5
<1>6. n \in S
  <2> HIDE DEF S
  <2>1. 0..n \subseteq S
    BY <1>4, <1>5, UpTo
  <2> QED
    BY <2>1
<1>7. b + SegPlace(q, n) = Len(e)
  BY <1>1 DEF SegPlace, Join, Holds
<1>8. SubSeq(q, 1, n) = q
  BY <1>1, SubSeqFull
<1> QED
  BY <1>6, <1>7, <1>8 DEF Split

\* The segments as they are written.
Written(p) == [k \in 1..Len(p) |-> Replaced(p[k], toJpString)]
WrittenURI(p) == [k \in 1..Len(p) |-> Replaced(Replaced(p[k], URIComponent), toJpString)]

\* The first character of segments that are joined.
LEMMA JoinStarts ==
    ASSUME NEW q \in Seq(Text), q # <<>>
    PROVE  Join(q) \in Text /\ Join(q) # <<>> /\ Join(q)[1] = "/"
<1>1. PICK n \in Nat \ {0} : n = Len(q)
  BY EmptySeq, LenProperties
<1>2. 1 \in 1..Len(q) /\ 1 - 1 = 0
  BY <1>1
<1>3. SegPlace(q, 0) = 0
  <2>1. Joining(q)[0] = <<>>
    BY JoiningIs
  <2> QED
    BY <2>1 DEF SegPlace
<1>4. /\ Len(q[1]) \in Nat /\ Len(Join(q)) \in Nat
      /\ SegPlace(q, 1) = SegPlace(q, 0) + 1 + Len(q[1])
      /\ SegPlace(q, 1) <= Len(Join(q)) /\ Join(q)[SegPlace(q, 0) + 1] = "/"
  BY <1>2, SegmentInText
<1>5. Len(Join(q)) >= 1 /\ Join(q)[1] = "/"
  BY <1>3, <1>4
<1>6. Len(q) \in 0..Len(q)
  BY <1>1
<1>7. Join(q) \in Text
  BY <1>6, JoiningIs DEF Join
<1> QED
  BY <1>5, <1>7 DEF Text

\* A pointer that is printed and parsed is the same.
LEMMA CompiledString ==
    ASSUME NEW p \in Seq(Text), p # <<>>
    PROVE  compile(toString(p)) = p
<1> DEFINE q == Written(p)
           e == toString(p)
<1>1. PICK n \in Nat \ {0} : n = Len(p)
  BY EmptySeq, LenProperties
<1>2. \A k \in 1..n : p[k] \in Text /\ Replaced(p[k], toJpString) \in Plain
  BY <1>1, JpStringPlain
<1>3. q \in Seq(Plain) /\ Len(q) = n /\ \A k \in 1..n : q[k] = Replaced(p[k], toJpString)
  BY <1>1, <1>2 DEF Written
<1>4. e = Join(q)
  BY DEF toString, Written
<1> HIDE DEF q
<1>5. q \in Seq(Text) /\ q # <<>>
  <2>1. \A j \in 1..n : q[j] \in Text
    BY <1>2, <1>3, PlainIsText
  <2>2. q = [j \in 1..n |-> q[j]]
    BY <1>3
  <2> QED
    BY <1>1, <1>3, <2>1, <2>2
<1>6. e \in Text /\ e # <<>> /\ e[1] = "/"
  BY <1>4, <1>5, JoinStarts
<1>7. Holds(e, 0, q)
  <2>1. PICK l \in Nat : l = Len(e)
    BY <1>6, LenProperties DEF Text
  <2> QED
    BY <1>4, <1>6, <2>1 DEF Holds
<1> HIDE DEF e
<1>8. Splitting(e)[0] = <<>>
  BY <1>6, SplittingIs
<1>9. Split(e) = q
  BY <1>3, <1>7, <1>8, SplitJoin
<1>10. ~(e # <<>> /\ e[1] = "#")
  BY <1>6
<1>11. compile(e) = [k \in 1..n |-> fromJpString(q[k])]
  BY <1>3, <1>9, <1>10 DEF compile
<1>12. \A k \in 1..n : fromJpString(q[k]) = p[k]
  BY <1>2, <1>3, ReadableJpString, DecodedReplaced DEF fromJpString
<1>13. p = [k \in 1..n |-> p[k]]
  BY <1>1
<1> QED
  BY <1>11, <1>12, <1>13 DEF e

LEMMA CompiledURI ==
    ASSUME NEW p \in Seq(Text), p # <<>>
    PROVE  compile(toURIFragmentIdentifier(p)) = p
<1> DEFINE q == WrittenURI(p)
           j == Join(q)
           h == <<"#">>
           e == toURIFragmentIdentifier(p)
<1>1. PICK n \in Nat \ {0} : n = Len(p)
  BY EmptySeq, LenProperties
<1>2. \A k \in 1..n :
          /\ p[k] \in Text /\ Replaced(p[k], URIComponent) \in Text
          /\ Replaced(Replaced(p[k], URIComponent), toJpString) \in Plain
  BY <1>1, JpStringPlain, ReplacedType, Tables
<1>3. /\ q \in Seq(Plain) /\ Len(q) = n
      /\ \A k \in 1..n : q[k] = Replaced(Replaced(p[k], URIComponent), toJpString)
  BY <1>1, <1>2 DEF WrittenURI
<1>4. e = h \o j
  BY DEF toURIFragmentIdentifier, WrittenURI
<1> HIDE DEF q
<1>5. q \in Seq(Text) /\ q # <<>>
  <2>1. \A i \in 1..n : q[i] \in Text
    BY <1>2, <1>3, PlainIsText
  <2>2. q = [i \in 1..n |-> q[i]]
    BY <1>3
  <2> QED
    BY <1>1, <1>3, <2>1, <2>2
<1>6. j \in Text
  BY <1>5, JoinStarts
<1>7. h \in Text /\ Len(h) = 1 /\ h[1] = "#"
  BY JsonAssumption DEF Signs, Text
<1> HIDE DEF h, j, e
<1>8. e \in Text /\ Extends(e, h, j)
  BY <1>4, <1>6, <1>7, ConcatExtends DEF Text
<1>9. PICK l \in Nat : l = Len(j)
  BY <1>8 DEF Extends
<1>10. Len(e) = 1 + l /\ e[1] = "#" /\ \A i \in 1..l : e[1 + i] = j[i]
  BY <1>7, <1>8, <1>9 DEF Extends
<1>11. Holds(e, 1, q)
  BY <1>8, <1>9, <1>10 DEF Holds, j
<1>12. Splitting(e)[1] = <<>>
  <2>1. 1 \in 1..Len(e) /\ 1 - 1 = 0
    BY <1>10
  <2>2. Splitting(e)[1] = SplitAt(<<>>, "#")
    BY <1>8, <1>10, <2>1, SplittingIs
  <2> QED
    BY <2>2 DEF SplitAt
<1>13. Split(e) = q
  BY <1>3, <1>11, <1>12, SplitJoin
<1>14. e # <<>> /\ e[1] = "#"
  BY <1>8, <1>10
<1>15. compile(e) = [k \in 1..n |-> decodeURIComponent(fromJpString(q[k]))]
  BY <1>3, <1>13, <1>14 DEF compile
<1>16. \A k \in 1..n : decodeURIComponent(fromJpString(q[k])) = p[k]
  <2> SUFFICES ASSUME NEW k \in 1..n PROVE decodeURIComponent(fromJpString(q[k])) = p[k]
    OBVIOUS
  <2>1. fromJpString(q[k]) = Replaced(p[k], URIComponent)
    BY <1>2, <1>3, ReadableJpString, DecodedReplaced DEF fromJpString
  <2> QED
    BY <1>2, <2>1, ReadableURIComponent, DecodedReplaced DEF decodeURIComponent
<1>17. p = [k \in 1..n |-> p[k]]
  BY <1>1
<1> QED
  BY <1>15, <1>16, <1>17 DEF e

\* Both forms of a pointer are compiled to it.
LEMMA CompiledIs ==
    ASSUME NEW p \in Paths
    PROVE  p \in Seq(Text) /\ p # <<>> /\ Compiled[p] = {p}
<1>1. PICK n \in 1..MaxDepth : p \in [1..n -> Segs]
  BY DEF Paths
<1>2. \A k \in 1..n : p[k] \in Text
  BY <1>1, JsonAssumption DEF Text
<1>3. n \in Nat /\ n # 0
  BY JsonAssumption
<1>4. p \in Seq(Text) /\ p # <<>>
  BY <1>1, <1>2, <1>3
<1>5. compile(toString(p)) = p /\ compile(toURIFragmentIdentifier(p)) = p
  BY <1>4, CompiledString, CompiledURI
<1>6. Compiled[p] = {p}
  BY <1>5 DEF Compiled
<1> QED
  BY <1>4, <1>6

\* A segment on one line.
Line == Seq(Chars \ LineBreaks)

\* What is added in front of a quote or a backslash is no line break.
LEMMA LiteralIs ==
    ASSUME NEW s \in Text, \A j \in 1..Len(s) : s[j] \notin LineBreaks
    PROVE  IsLiteral(Literal(s))
<1> DEFINE T == [c \in {"\\", "'"} |-> <<"\\", c>>]
           h == Replacing(s, T)
<1>1. Len(s) \in Nat
  BY DEF Text
<1>2. "\\" \in Chars \ LineBreaks /\ "'" \in Chars \ LineBreaks
  BY JsonAssumption DEF Signs, LineBreaks
<1>3. IsTable(T)
  <2>1. DOMAIN T = {"\\", "'"} /\ T["\\"] = <<"\\", "\\">> /\ T["'"] = <<"\\", "'">>
    OBVIOUS
  <2>2. ASSUME NEW t, NEW a \in Chars, NEW b \in Chars, t = <<a, b>> PROVE t \in Text /\ t # <<>>
    BY <2>2 DEF Text
  <2> HIDE DEF T
  <2>3. T["\\"] \in Text /\ T["\\"] # <<>> /\ T["'"] \in Text /\ T["'"] # <<>>
    BY <1>2, <2>1, <2>2
  <2> QED
    BY <1>2, <2>1, <2>3 DEF IsTable
<1>4. /\ h[0] = <<>>
      /\ \A j \in 1..Len(s) : h[j] = AddCode(h[j - 1], s[j], T)
  BY <1>3, ReplacingIs
<1>5. ASSUME NEW j \in 1..Len(s), h[j - 1] \in Line PROVE h[j] \in Line
  <2>1. s[j] \in Chars \ LineBreaks
    BY DEF Text
  <2>2. (IF s[j] \in DOMAIN T THEN T[s[j]] ELSE <<s[j]>>) \in Line
    <3>1. CASE s[j] = "\\"
      BY <1>2, <3>1 DEF Line
    <3>2. CASE s[j] = "'"
      BY <1>2, <3>2 DEF Line
    <3>3. CASE s[j] \notin {"\\", "'"}
      BY <2>1, <3>3 DEF Line
    <3> QED
      BY <3>1, <3>2, <3>3
  <2> DEFINE t == h[j - 1]
             c == IF s[j] \in DOMAIN T THEN T[s[j]] ELSE <<s[j]>>
  <2>3. h[j] = t \o c
    BY <1>4 DEF AddCode
  <2> HIDE DEF t, c
  <2>4. t \o c \in Line
    BY <1>5, <2>2, ConcatProperties DEF Line, t, c
  <2> QED
    BY <2>3, <2>4
<1>6. Literal(s) = h[Len(s)]
  BY DEF Literal, Replaced
<1> HIDE DEF h
<1>7. h[0] \in Line
  BY <1>4 DEF Line
<1>8. \A j \in 0..Len(s) : h[j] \in Line
  BY <1>1, <1>5, <1>7, RunTyped
<1>9. Literal(s) \in Line
  BY <1>1, <1>6, <1>8
<1> QED
  BY <1>9 DEF Line, IsLiteral

\* On one line, the compiled get reads what the other one reads.
LEMMA CompiledGetIs ==
    ASSUME NEW p \in Seq(Text), NEW n, OneLine(p)
    PROVE  compiledGet(p, n) = Done(get(p, n))
<1>1. Len(p) \in Nat /\ \A k \in 1..Len(p) : p[k] \in Text
  OBVIOUS
<1>2. \A k \in 1..Len(p) : LiteralValue(Literal(p[k])) = p[k]
  BY <1>1, LiteralRead
<1>3. p = [k \in 1..Len(p) |-> p[k]]
  BY <1>1
<1>4. [k \in 1..Len(p) |-> LiteralValue(Literal(p[k]))] = p
  BY <1>2, <1>3
<1>5. Compiles(p)
  BY <1>1, LiteralIs DEF OneLine, Compiles
<1> QED
  BY <1>4, <1>5 DEF compiledGet

-----------------------------------------------------------------------------
\* Documents

IsFun(f) == f = [k \in DOMAIN f |-> f[k]]

\* A function, with one place more and with one less.
With(f, x, v) == [y \in DOMAIN f \cup {x} |-> IF y = x THEN v ELSE f[y]]
Without(f, x) == [y \in DOMAIN f \ {x} |-> f[y]]

LEMMA PutObject ==
    ASSUME NEW f, NEW x, NEW v
    PROVE  PutMember(Object(f), x, v) = Object(With(f, x, v))
BY DEF PutMember, Object, With

LEMMA PutArray ==
    ASSUME NEW f, NEW l, NEW x, NEW v
    PROVE  PutMember(Array(f, l), x, v) = Array(With(f, x, v), l)
BY DEF PutMember, Array, With

LEMMA PutIndexIs ==
    ASSUME NEW f, NEW l, NEW i, NEW v
    PROVE  PutIndex(Array(f, l), i, v) = Array(With(f, i, v), IF i >= l THEN i + 1 ELSE l)
<1>1. PutMember(Array(f, l), i, v) = Array(With(f, i, v), l)
  BY PutArray
<1> QED
  BY <1>1 DEF PutIndex, Array

LEMMA RemoveObject ==
    ASSUME NEW f, NEW k
    PROVE  RemoveMember(Object(f), k) = Object(Without(f, k))
BY DEF RemoveMember, Object, Without, Key

LEMMA RemoveArray ==
    ASSUME NEW f, NEW l, NEW k
    PROVE  RemoveMember(Array(f, l), k) = Array(Without(f, Key(Array(f, l), k)), l)
BY DEF RemoveMember, Array, Without, Key

\* A value is a scalar, an object or an array.
LEMMA NodeIs ==
    ASSUME NEW n, IsNode(n)
    PROVE  \/ \E v : n = Scalar(v)
           \/ \E f : n = Object(f) /\ IsFun(f)
           \/ \E f : \E l \in Nat : /\ n = Array(f, l) /\ IsFun(f)
                                    /\ DOMAIN f \subseteq 0..l - 1
<1>1. CASE n.t = "scalar" /\ n = Scalar(n.v)
  BY <1>1
<1>2. CASE n.t = "object" /\ n = Object([k \in DOMAIN n.f |-> n.f[k]])
  <2> DEFINE f == [k \in DOMAIN n.f |-> n.f[k]]
  <2>1. n = Object(f) /\ IsFun(f)
    BY <1>2 DEF IsFun
  <2> QED
    BY <2>1
<1>3. CASE /\ n.t = "array" /\ n = Array([k \in DOMAIN n.f |-> n.f[k]], n.len)
           /\ n.len \in Nat /\ DOMAIN n.f \subseteq 0..n.len - 1
  <2> DEFINE f == [k \in DOMAIN n.f |-> n.f[k]]
  <2>1. n = Array(f, n.len) /\ IsFun(f) /\ DOMAIN f = DOMAIN n.f
    BY <1>3 DEF IsFun
  <2> QED
    BY <1>3, <2>1
<1> QED
  BY <1>1, <1>2, <1>3 DEF IsNode

LEMMA ScalarNode == \A v : IsNode(Scalar(v)) /\ Scalar(v).t = "scalar"
BY DEF IsNode, Scalar

LEMMA ObjectNode ==
    ASSUME NEW f, IsFun(f)
    PROVE  IsNode(Object(f)) /\ Object(f).t = "object" /\ Object(f).f = f
BY DEF IsNode, Object, IsFun

LEMMA ArrayNode ==
    ASSUME NEW f, NEW l \in Nat, IsFun(f), DOMAIN f \subseteq 0..l - 1
    PROVE  /\ IsNode(Array(f, l)) /\ Array(f, l).t = "array"
           /\ Array(f, l).f = f /\ Array(f, l).len = l
BY DEF IsNode, Array, IsFun

\* The values of S, and what can be made of them.
Over(S, n) == IsNode(n) /\ (n.t # "scalar" => \A k \in DOMAIN n.f : n.f[k] \in S)
Whole(S) == Closed(S) /\ Nothing \in S /\ EmptyObject \in S /\ EmptyArray \in S

LEMMA EmptyOver == \A S : Over(S, Nothing) /\ Over(S, EmptyObject) /\ Over(S, EmptyArray)
<1> DEFINE f == [k \in {} |-> Nothing]
<1>1. DOMAIN f = {} /\ IsFun(f)
  BY DEF IsFun
<1> HIDE DEF f
<1>2. /\ IsNode(Object(f)) /\ Object(f).t = "object" /\ Object(f).f = f
      /\ IsNode(Array(f, 0)) /\ Array(f, 0).t = "array" /\ Array(f, 0).f = f
  <2>1. 0 \in Nat /\ DOMAIN f \subseteq 0..0 - 1
    BY <1>1
  <2> QED
    BY <1>1, <2>1, ObjectNode, ArrayNode
<1>3. IsNode(Nothing) /\ Nothing.t = "scalar"
  BY ScalarNode DEF Nothing
<1>4. Object(f) = EmptyObject /\ Array(f, 0) = EmptyArray
  BY DEF f, EmptyObject, EmptyArray
<1> QED
  BY <1>1, <1>2, <1>3, <1>4 DEF Over

\* Closed sets may be joined, and what is made of their values may be added.
LEMMA MoreValues ==
    ASSUME NEW S, Closed(S), NEW U, \A n \in U : Over(S, n) \/ Over(U, n)
    PROVE  Closed(S \cup U)
BY DEF Closed, Over

LEMMA SomeValues ==
    ASSUME NEW S, Closed(S)
    PROVE  Whole(S \cup {Nothing, EmptyObject, EmptyArray})
<1>1. Closed(S \cup {Nothing, EmptyObject, EmptyArray})
  BY EmptyOver, MoreValues
<1> QED
  BY <1>1 DEF Whole

\* What stays in a closed set.
LEMMA MemberIn ==
    ASSUME NEW S, Whole(S), NEW n \in S, NEW k
    PROVE  Member(n, k) \in S
BY DEF Member, Whole, Closed

LEMMA NextIn ==
    ASSUME NEW S, Whole(S), NEW n \in S, NEW k, NEW l
    PROVE  NextNode(n, k, l) \in S
BY MemberIn DEF NextNode, NewAncestor, Whole

-----------------------------------------------------------------------------
\* The recursive functions of get and set are functions

\* The nodes that get goes through.
LEMMA WalkIs ==
    ASSUME NEW segs, Len(segs) \in Nat, NEW S, Whole(S), NEW n \in S
    PROVE  /\ Walk(segs, n)[0] = n
           /\ \A j \in 1..Len(segs) : Walk(segs, n)[j] = (IF IsNil(Walk(segs, n)[j - 1]) THEN Nothing ELSE Member(Walk(segs, n)[j - 1], segs[j]))
           /\ \A j \in 0..Len(segs) : Walk(segs, n)[j] \in S
<1> DEFINE N == Len(segs)
           x == n
           G == [z \in S \X (1..N) |-> (IF IsNil(z[1]) THEN Nothing ELSE Member(z[1], segs[z[2]]))]
           h == Walk(segs, n)
<1>0. N \in Nat
  OBVIOUS
<1>1. x \in S
  OBVIOUS
<1>2. ASSUME NEW t \in S, NEW j \in 1..N
      PROVE  (IF IsNil(t) THEN Nothing ELSE Member(t, segs[j])) \in S
  BY MemberIn DEF Whole
<1>3. /\ G \in [S \X (1..N) -> S]
      /\ \A t \in S, j \in 1..N : G[<<t, j>>] = (IF IsNil(t) THEN Nothing ELSE Member(t, segs[j]))
  <2> HIDE DEF N
  <2> QED
    BY <1>2
<1> HIDE DEF G, x, N
<1>4. PICK f : IsRun(f, N, x, S, G)
  BY <1>0, <1>1, <1>3, RunExists
<1>5. f = [j \in 0..N |-> IF j = 0 THEN x ELSE (IF IsNil(f[j - 1]) THEN Nothing ELSE Member(f[j - 1], segs[j]))]
  <2>1. ASSUME NEW j \in 0..N
        PROVE  f[j] = IF j = 0 THEN x ELSE (IF IsNil(f[j - 1]) THEN Nothing ELSE Member(f[j - 1], segs[j]))
    <3>1. j # 0 => j \in 1..N /\ j - 1 \in 0..N
      BY <1>0
    <3> QED
      BY <1>3, <1>4, <3>1 DEF IsRun
  <2> QED
    BY <1>4, <2>1 DEF IsRun
<1>6. h = [j \in 0..N |-> IF j = 0 THEN x ELSE (IF IsNil(h[j - 1]) THEN Nothing ELSE Member(h[j - 1], segs[j]))]
  BY <1>5 DEF Walk, x, N
<1> HIDE DEF h
<1>7. h[0] = x /\ \A j \in 1..N : h[j] = (IF IsNil(h[j - 1]) THEN Nothing ELSE Member(h[j - 1], segs[j]))
  BY <1>0, <1>6
<1>8. \A j \in 0..N : h[j] \in S
  <2>1. h[0] \in S /\ \A j \in 1..N : h[j - 1] \in S => h[j] \in S
    BY <1>1, <1>2, <1>7
  <2> QED
    BY <1>0, <2>1, RunTyped
<1> QED
  BY <1>7, <1>8 DEF h, x, N

\* The nodes that set goes through.
LEMMA WayIs ==
    ASSUME NEW segs, Len(segs) \in Nat \ {0}, NEW S, Whole(S), NEW n \in S
    PROVE  /\ Way(segs, n)[0] = n
           /\ \A j \in 1..(Len(segs) - 1) : Way(segs, n)[j] = NextNode(Way(segs, n)[j - 1], segs[j], segs[j + 1])
           /\ \A j \in 0..(Len(segs) - 1) : Way(segs, n)[j] \in S
<1> DEFINE N == (Len(segs) - 1)
           x == n
           G == [z \in S \X (1..N) |-> NextNode(z[1], segs[z[2]], segs[z[2] + 1])]
           h == Way(segs, n)
<1>0. N \in Nat
  OBVIOUS
<1>1. x \in S
  OBVIOUS
<1>2. ASSUME NEW t \in S, NEW j \in 1..N
      PROVE  NextNode(t, segs[j], segs[j + 1]) \in S
  BY NextIn
<1>3. /\ G \in [S \X (1..N) -> S]
      /\ \A t \in S, j \in 1..N : G[<<t, j>>] = NextNode(t, segs[j], segs[j + 1])
  <2> HIDE DEF N
  <2> QED
    BY <1>2
<1> HIDE DEF G, x, N
<1>4. PICK f : IsRun(f, N, x, S, G)
  BY <1>0, <1>1, <1>3, RunExists
<1>5. f = [j \in 0..N |-> IF j = 0 THEN x ELSE NextNode(f[j - 1], segs[j], segs[j + 1])]
  <2>1. ASSUME NEW j \in 0..N
        PROVE  f[j] = IF j = 0 THEN x ELSE NextNode(f[j - 1], segs[j], segs[j + 1])
    <3>1. j # 0 => j \in 1..N /\ j - 1 \in 0..N
      BY <1>0
    <3> QED
      BY <1>3, <1>4, <3>1 DEF IsRun
  <2> QED
    BY <1>4, <2>1 DEF IsRun
<1>6. h = [j \in 0..N |-> IF j = 0 THEN x ELSE NextNode(h[j - 1], segs[j], segs[j + 1])]
  BY <1>5 DEF Way, x, N
<1> HIDE DEF h
<1>7. h[0] = x /\ \A j \in 1..N : h[j] = NextNode(h[j - 1], segs[j], segs[j + 1])
  BY <1>0, <1>6
<1>8. \A j \in 0..N : h[j] \in S
  <2>1. h[0] \in S /\ \A j \in 1..N : h[j - 1] \in S => h[j] \in S
    BY <1>1, <1>2, <1>7
  <2> QED
    BY <1>0, <2>1, RunTyped
<1> QED
  BY <1>7, <1>8 DEF h, x, N

\* What set does, from the last node to the first one.
LEMMA SettingIs ==
    ASSUME NEW segs, Len(segs) \in Nat \ {0}, NEW n, NEW v
    PROVE  LET end == Len(segs) - 1
               done == Setting(segs, n, v)
               way == Way(segs, n)
           IN /\ done[0] = SetLast(way[end], segs[end + 1], v)
              /\ \A k \in 1..end : done[k] = SetAbove(way[end - k], segs[end - k + 1], done[k - 1])
<1> DEFINE end == Len(segs) - 1
           way == Way(segs, n)
           x == SetLast(way[end], segs[end + 1], v)
           Step(t, k) == SetAbove(way[end - k], segs[end - k + 1], t)
           IsDone(m, f) == /\ f = [k \in 0..m |-> f[k]] /\ f[0] = x
                           /\ \A k \in 1..m : f[k] = Step(f[k - 1], k)
           S == {m \in 0..end : \E f : IsDone(m, f)}
<1>0. end \in Nat
  OBVIOUS
<1> HIDE DEF x, end
<1>1. 0 \in S
  <2> DEFINE f == [k \in 0..0 |-> x]
  <2>1. DOMAIN f = 0..0 /\ f[0] = x /\ 0 \in 0..end /\ 1..0 = {}
    BY <1>0
  <2>2. f = [k \in 0..0 |-> f[k]]
    OBVIOUS
  <2> HIDE DEF f
  <2>3. IsDone(0, f)
    BY <2>1, <2>2
  <2> QED
    BY <2>1, <2>3
<1>2. ASSUME NEW m \in 0..end - 1, m \in S PROVE m + 1 \in S
  <2>1. PICK f : IsDone(m, f)
    BY <1>2
  <2> DEFINE y == Step(f[m], m + 1)
             g == [k \in 0..m + 1 |-> IF k = m + 1 THEN y ELSE f[k]]
  <2>2. m \in Nat /\ m + 1 \in 0..end
    BY <1>0
  <2> HIDE DEF y
  <2>3. /\ g = [k \in 0..m + 1 |-> g[k]] /\ g[m + 1] = y /\ \A k \in 0..m : g[k] = f[k]
    BY <2>2
  <2> HIDE DEF g
  <2>4. g[0] = x
    <3>1. 0 \in 0..m
      BY <2>2
    <3> QED
      BY <2>1, <2>3, <3>1
  <2>5. ASSUME NEW k \in 1..m + 1 PROVE g[k] = Step(g[k - 1], k)
    <3>1. k - 1 \in 0..m
      BY <2>2
    <3>2. g[k - 1] = f[k - 1]
      BY <2>3, <3>1
    <3>3. CASE k = m + 1
      <4>1. k - 1 = m
        BY <2>2, <3>3
      <4>2. g[k] = Step(f[m], m + 1)
        BY <2>3, <3>3 DEF y
      <4> HIDE DEF Step
      <4> QED
        BY <3>2, <3>3, <4>1, <4>2
    <3>4. CASE k \in 1..m
      <4>1. k \in 0..m
        BY <2>2, <3>4
      <4>2. g[k] = f[k] /\ f[k] = Step(f[k - 1], k)
        BY <2>1, <2>3, <3>4, <4>1
      <4> HIDE DEF Step
      <4> QED
        BY <3>2, <4>2
    <3> QED
      BY <2>2, <3>3, <3>4
  <2>6. IsDone(m + 1, g)
    BY <2>3, <2>4, <2>5
  <2> HIDE DEF IsDone
  <2> QED
    BY <2>2, <2>6
<1>3. end \in S
  <2>1. 0..end \subseteq S
    <3> HIDE DEF S
    <3> QED
      BY <1>0, <1>1, <1>2, UpTo
  <2> HIDE DEF S
  <2> QED
    BY <1>0, <2>1
<1>4. PICK f : IsDone(end, f)
  BY <1>3
<1> DEFINE h == Setting(segs, n, v)
<1>5. f = [k \in 0..end |-> IF k = 0 THEN x ELSE Step(f[k - 1], k)]
  <2>1. ASSUME NEW k \in 0..end PROVE f[k] = IF k = 0 THEN x ELSE Step(f[k - 1], k)
    <3> HIDE DEF Step
    <3>1. k # 0 => k \in 1..end
      BY <1>0
    <3> QED
      BY <1>4, <3>1
  <2> HIDE DEF Step
  <2> QED
    BY <1>4, <2>1
<1>6. h = [k \in 0..end |-> IF k = 0 THEN x ELSE Step(h[k - 1], k)]
  BY <1>5 DEF Setting, x, end
<1> HIDE DEF h
<1>7. h[0] = x /\ \A k \in 1..end : h[k] = Step(h[k - 1], k)
  <2> HIDE DEF Step
  <2>1. 0 \in 0..end /\ \A k \in 1..end : k \in 0..end /\ k # 0
    BY <1>0
  <2> QED
    BY <1>6, <2>1
<1> QED
  BY <1>7 DEF h, x, end

LEMMA parseIntType ==
    ASSUME NEW k \in Text
    PROVE  parseInt(k) \in Nat \cup {NaN}
<1>1. Len(k) \in 0..Len(k)
  BY LenProperties DEF Text
<1> QED
  BY <1>1, ReadingIs DEF parseInt, ReadState

-----------------------------------------------------------------------------
\* What set makes is a document

LEMMA WithIs ==
    ASSUME NEW f, NEW x, NEW v
    PROVE  /\ DOMAIN With(f, x, v) = DOMAIN f \cup {x}
           /\ IsFun(With(f, x, v))
           /\ With(f, x, v)[x] = v /\ \A k \in DOMAIN f \ {x} : With(f, x, v)[k] = f[k]
BY DEF With, IsFun

LEMMA WithoutIs ==
    ASSUME NEW f, NEW x
    PROVE  /\ DOMAIN Without(f, x) = DOMAIN f \ {x}
           /\ IsFun(Without(f, x))
           /\ \A k \in DOMAIN f \ {x} : Without(f, x)[k] = f[k]
BY DEF Without, IsFun

\* The values of a function are in S.
Into(f, S) == \A k \in DOMAIN f : f[k] \in S

LEMMA WithInto ==
    ASSUME NEW f, NEW x, NEW v, NEW S, Into(f, S), v \in S
    PROVE  Into(With(f, x, v), S)
<1> DEFINE g == With(f, x, v)
<1>1. DOMAIN g = DOMAIN f \cup {x} /\ g[x] = v /\ \A k \in DOMAIN f \ {x} : g[k] = f[k]
  BY DEF With
<1> HIDE DEF g
<1>2. Into(g, S)
  BY <1>1 DEF Into
<1> QED
  BY <1>2 DEF g

LEMMA WithoutInto ==
    ASSUME NEW f, NEW x, NEW S, Into(f, S)
    PROVE  Into(Without(f, x), S)
<1> DEFINE g == Without(f, x)
<1>1. DOMAIN g = DOMAIN f \ {x} /\ \A k \in DOMAIN f \ {x} : g[k] = f[k]
  BY DEF Without
<1> HIDE DEF g
<1>2. Into(g, S)
  BY <1>1 DEF Into
<1> QED
  BY <1>2 DEF g

LEMMA ObjectOver ==
    ASSUME NEW f, IsFun(f), NEW S, Into(f, S)
    PROVE  Over(S, Object(f))
BY ObjectNode DEF Over, Into

LEMMA ArrayOver ==
    ASSUME NEW f, IsFun(f), NEW l \in Nat, DOMAIN f \subseteq 0..l - 1,
           NEW S, Into(f, S)
    PROVE  Over(S, Array(f, l))
BY ArrayNode DEF Over, Into

\* A value of S is of one of these forms.
LEMMA ValueIs ==
    ASSUME NEW S, Whole(S), NEW n \in S
    PROVE  \/ \E v : n = Scalar(v) /\ n.t = "scalar"
           \/ \E f : n = Object(f) /\ n.t = "object" /\ IsFun(f) /\ Into(f, S)
           \/ \E f : \E l \in Nat : /\ n = Array(f, l) /\ n.t = "array"
                                    /\ IsFun(f) /\ DOMAIN f \subseteq 0..l - 1
                                    /\ Into(f, S)
<1>1. IsNode(n) /\ (n.t # "scalar" => \A k \in DOMAIN n.f : n.f[k] \in S)
  BY DEF Whole, Closed
<1>2. CASE \E v : n = Scalar(v)
  BY <1>2, ScalarNode
<1>3. ASSUME NEW f, n = Object(f), IsFun(f)
      PROVE  n.t = "object" /\ Into(f, S)
  <2>1. n.t = "object" /\ n.f = f
    BY <1>3, ObjectNode
  <2> QED
    BY <1>1, <2>1 DEF Into
<1>4. ASSUME NEW f, NEW l \in Nat, n = Array(f, l), IsFun(f),
             DOMAIN f \subseteq 0..l - 1
      PROVE  n.t = "array" /\ Into(f, S)
  <2>1. n.t = "array" /\ n.f = f
    BY <1>4, ArrayNode
  <2> QED
    BY <1>1, <2>1 DEF Into
<1> QED
  BY <1>1, <1>2, <1>3, <1>4, NodeIs

\* Assigning an index makes an array.
LEMMA PutIndexOver ==
    ASSUME NEW f, IsFun(f), NEW l \in Nat, DOMAIN f \subseteq 0..l - 1,
           NEW S, Into(f, S), NEW i \in Nat, NEW v \in S
    PROVE  Over(S, PutIndex(Array(f, l), i, v))
<1> DEFINE g == With(f, i, v)
           m == IF i >= l THEN i + 1 ELSE l
<1>1. Into(g, S)
  BY WithInto
<1>2. DOMAIN g = DOMAIN f \cup {i} /\ IsFun(g)
  BY WithIs
<1>3. m \in Nat /\ 0..l - 1 \subseteq 0..m - 1 /\ i \in 0..m - 1
  OBVIOUS
<1>4. PutIndex(Array(f, l), i, v) = Array(g, m)
  BY PutIndexIs
<1> HIDE DEF g, m
<1>5. DOMAIN g \subseteq 0..m - 1
  BY <1>2, <1>3
<1>6. Over(S, Array(g, m))
  BY <1>1, <1>2, <1>3, <1>5, ArrayOver
<1> QED
  BY <1>4, <1>6

LEMMA AssignOver ==
    ASSUME NEW S, Whole(S), NEW n \in S, NEW part \in Text, NEW v \in S
    PROVE  Over(S, Assign(n, part, v).node)
<1>1. Over(S, n)
  BY DEF Over, Whole, Closed
<1>2. CASE n.t = "scalar"
  BY <1>1, <1>2 DEF Assign, Thrown
<1>3. ASSUME NEW f, n = Object(f), n.t = "object", IsFun(f), Into(f, S)
      PROVE  Over(S, Assign(n, part, v).node)
  <2>1. Assign(n, part, v).node = Object(With(f, part, v))
    BY <1>3, PutObject DEF Assign, Done
  <2>2. Over(S, Object(With(f, part, v)))
    BY <1>3, WithIs, WithInto, ObjectOver
  <2> QED
    BY <2>1, <2>2
<1>4. ASSUME NEW f, NEW l \in Nat, n = Array(f, l), n.t = "array",
             IsFun(f), DOMAIN f \subseteq 0..l - 1, Into(f, S)
      PROVE  Over(S, Assign(n, part, v).node)
  <2>1. n.len = l
    BY <1>4, ArrayNode
  <2>2. CASE part = <<"-">>
    <3>1. Assign(n, part, v).node = PutIndex(n, l, v)
      BY <1>4, <2>1, <2>2 DEF Assign, Done
    <3>2. Over(S, PutIndex(Array(f, l), l, v))
      BY <1>4, PutIndexOver
    <3> QED
      BY <1>4, <3>1, <3>2
  <2>3. CASE part # <<"-">> /\ parseInt(part) = NaN
    BY <1>1, <1>4, <2>3 DEF Assign, Thrown
  <2>4. CASE part # <<"-">> /\ parseInt(part) # NaN
    <3> DEFINE i == parseInt(part)
    <3>1. i \in Nat
      BY <2>4, parseIntType
    <3>2. Assign(n, part, v).node = PutIndex(n, i, v)
      BY <1>4, <2>4 DEF Assign, Done
    <3> HIDE DEF i
    <3>3. Over(S, PutIndex(Array(f, l), i, v))
      BY <1>4, <3>1, PutIndexOver
    <3> QED
      BY <1>4, <3>2, <3>3
  <2> QED
    BY <2>2, <2>3, <2>4
<1> QED
  BY <1>2, <1>3, <1>4, ValueIs

LEMMA RemoveOver ==
    ASSUME NEW S, Whole(S), NEW n \in S, NEW part
    PROVE  Over(S, RemoveMember(n, part))
<1>1. Over(S, n)
  BY DEF Over, Whole, Closed
<1>2. CASE n.t = "scalar"
  BY <1>1, <1>2 DEF RemoveMember
<1>3. ASSUME NEW f, n = Object(f), IsFun(f), Into(f, S)
      PROVE  Over(S, RemoveMember(n, part))
  <2>1. RemoveMember(n, part) = Object(Without(f, part))
    BY <1>3, RemoveObject
  <2>2. Over(S, Object(Without(f, part)))
    BY <1>3, WithoutIs, WithoutInto, ObjectOver
  <2> QED
    BY <2>1, <2>2
<1>4. ASSUME NEW f, NEW l \in Nat, n = Array(f, l),
             IsFun(f), DOMAIN f \subseteq 0..l - 1, Into(f, S)
      PROVE  Over(S, RemoveMember(n, part))
  <2> DEFINE x == Key(n, part)
  <2>1. RemoveMember(n, part) = Array(Without(f, x), l)
    BY <1>4, RemoveArray
  <2> HIDE DEF x
  <2>2. DOMAIN Without(f, x) \subseteq 0..l - 1
    BY <1>4, WithoutIs
  <2>3. Over(S, Array(Without(f, x), l))
    BY <1>4, <2>2, WithoutIs, WithoutInto, ArrayOver
  <2> QED
    BY <2>1, <2>3
<1> QED
  BY <1>2, <1>3, <1>4, ValueIs

LEMMA PutOver ==
    ASSUME NEW S, Whole(S), NEW n \in S, n.t # "scalar", NEW x \in DOMAIN n.f, NEW v \in S
    PROVE  Over(S, PutMember(n, x, v))
<1>1. ASSUME NEW f, n = Object(f), IsFun(f), Into(f, S)
      PROVE  Over(S, PutMember(n, x, v))
  <2>1. Over(S, Object(With(f, x, v)))
    BY <1>1, WithIs, WithInto, ObjectOver
  <2> QED
    BY <1>1, <2>1, PutObject
<1>2. ASSUME NEW f, NEW l \in Nat, n = Array(f, l),
             IsFun(f), DOMAIN f \subseteq 0..l - 1, Into(f, S)
      PROVE  Over(S, PutMember(n, x, v))
  <2>1. x \in DOMAIN f
    BY <1>2, ArrayNode
  <2>2. DOMAIN With(f, x, v) \subseteq 0..l - 1
    <3>1. DOMAIN With(f, x, v) = DOMAIN f \cup {x}
      BY WithIs
    <3> QED
      BY <1>2, <2>1, <3>1
  <2>3. Over(S, Array(With(f, x, v), l))
    BY <1>2, <2>2, WithIs, WithInto, ArrayOver
  <2> QED
    BY <1>2, <2>3, PutArray
<1> QED
  BY <1>1, <1>2, ValueIs

LEMMA AssignOk == \A n, part, v : Assign(n, part, v).ok \in BOOLEAN
BY DEF Assign, Done, Thrown

LEMMA AboveNode ==
    ASSUME NEW n, NEW part, NEW ok, NEW below, below = [ok |-> ok, node |-> below.node]
    PROVE  SetAbove(n, part, below) =
              IF ~IsNil(Member(n, part))
              THEN [ok |-> ok, node |-> PutMember(n, Key(n, part), below.node)]
              ELSE [ok |-> Assign(n, part, below.node).ok /\ ok,
                    node |-> Assign(n, part, below.node).node]
BY DEF SetAbove, Assign, Done, Thrown

-----------------------------------------------------------------------------
\* A set that throws

IsOutcome(d) == d.ok \in BOOLEAN /\ d = [ok |-> d.ok, node |-> d.node]

LEMMA DoneIs == \A n : /\ IsOutcome(Done(n)) /\ Done(n).ok /\ Done(n).node = n
                       /\ IsOutcome(Thrown(n)) /\ ~Thrown(n).ok /\ Thrown(n).node = n
BY DEF IsOutcome, Done, Thrown

LEMMA AssignOutcome == \A n, part, v : IsOutcome(Assign(n, part, v))
BY DoneIs DEF Assign

LEMMA SetLastOutcome == \A n, part, v : IsOutcome(SetLast(n, part, v))
BY DoneIs, AssignOutcome DEF SetLast

LEMMA SetAboveIs ==
    ASSUME NEW n, NEW part, NEW d, IsOutcome(d)
    PROVE  SetAbove(n, part, d) =
              IF ~IsNil(Member(n, part))
              THEN [ok |-> d.ok, node |-> PutMember(n, Key(n, part), d.node)]
              ELSE [ok |-> Assign(n, part, d.node).ok /\ d.ok, node |-> Assign(n, part, d.node).node]
<1>1. d = [ok |-> d.ok, node |-> d.node]
  BY DEF IsOutcome
<1>2. Assign(n, part, d.node) = [ok |-> Assign(n, part, d.node).ok, node |-> Assign(n, part, d.node).node]
  BY AssignOutcome DEF IsOutcome
<1> DEFINE a == Assign(n, part, d.node)
<1>3. CASE ~IsNil(Member(n, part))
  BY <1>1, <1>3 DEF SetAbove
<1>4. CASE IsNil(Member(n, part))
  <2>1. SetAbove(n, part, d) = [a EXCEPT !.ok = @ /\ d.ok]
    BY <1>4 DEF SetAbove
  <2> HIDE DEF a
  <2>2. a = [ok |-> a.ok, node |-> a.node]
    BY <1>2 DEF a
  <2> DEFINE b == a.ok /\ d.ok
  <2>3. SetAbove(n, part, d) = [a EXCEPT !.ok = b]
    BY <2>1
  <2> HIDE DEF b
  <2>4. SetAbove(n, part, d) = [ok |-> b, node |-> a.node]
    BY <2>2, <2>3
  <2> QED
    BY <1>4, <2>4 DEF a, b
<1> QED
  BY <1>3, <1>4

LEMMA SetAboveOutcome ==
    ASSUME NEW n, NEW part, NEW d, IsOutcome(d)
    PROVE  IsOutcome(SetAbove(n, part, d))
<1>1. d.ok \in BOOLEAN /\ Assign(n, part, d.node).ok \in BOOLEAN
  BY AssignOutcome DEF IsOutcome
<1> QED
  BY <1>1, SetAboveIs DEF IsOutcome

\* The nodes of a way, and the outcomes from its end to its beginning.
LEMMA Outcomes ==
    ASSUME NEW segs, Len(segs) \in Nat \ {0}, NEW n, NEW v
    PROVE  \A j \in 0..Len(segs) - 1 : IsOutcome(Setting(segs, n, v)[j])
<1> DEFINE end == Len(segs) - 1
           done == Setting(segs, n, v)
           way == Way(segs, n)
           S == {j \in 0..end : IsOutcome(done[j])}
<1>1. end \in Nat
  OBVIOUS
<1>2. /\ done[0] = SetLast(way[end], segs[end + 1], v)
      /\ \A k \in 1..end : done[k] = SetAbove(way[end - k], segs[end - k + 1], done[k - 1])
  BY SettingIs
<1> HIDE DEF end, done, way
<1>3. 0 \in S
  BY <1>1, <1>2, SetLastOutcome
<1>4. ASSUME NEW j \in 0..end - 1, j \in S PROVE j + 1 \in S
  <2>1. j + 1 \in 1..end /\ j + 1 - 1 = j /\ j + 1 \in 0..end
    BY <1>1
  <2>2. IsOutcome(done[j])
    BY <1>4
  <2>3. done[j + 1] = SetAbove(way[end - (j + 1)], segs[end - (j + 1) + 1], done[j])
    BY <1>2, <2>1
  <2>4. IsOutcome(done[j + 1])
    BY <2>2, <2>3, SetAboveOutcome
  <2> QED
    BY <2>1, <2>4
<1>5. 0..end \subseteq S
  <2> HIDE DEF S
  <2> QED
    BY <1>1, <1>3, <1>4, UpTo
<1> QED
  BY <1>5 DEF end, done

\* A new ancestor has no member, and takes what is assigned to it.
LEMMA AncestorIs ==
    ASSUME NEW part, NEW v, NEW n, n = NewAncestor(part)
    PROVE  /\ Assign(n, part, v).ok /\ Member(n, part) = Nothing /\ ~IsNil(n)
           /\ n.t # "scalar" /\ \A q : Member(n, q) = Nothing
<1> DEFINE f == [k \in {} |-> Nothing]
<1>1. DOMAIN f = {}
  OBVIOUS
<1>2. n = IF part = <<"-">> THEN Array(f, 0) ELSE Object(f)
  BY DEF NewAncestor, EmptyObject, EmptyArray
<1> HIDE DEF f
<1>3. CASE part = <<"-">>
  <2>1. n.t = "array" /\ n.f = f
    BY <1>2, <1>3 DEF Array
  <2>2. \A q : Member(n, q) = Nothing
    BY <1>1, <2>1 DEF Member
  <2>3. Assign(n, part, v).ok
    BY <1>3, <2>1, DoneIs DEF Assign
  <2>4. ~IsNil(n)
    BY <2>1 DEF IsNil, Nothing, Scalar
  <2> QED
    BY <2>1, <2>2, <2>3, <2>4
<1>4. CASE part # <<"-">>
  <2>1. n.t = "object" /\ n.f = f
    BY <1>2, <1>4 DEF Object
  <2>2. \A q : Member(n, q) = Nothing
    BY <1>1, <2>1 DEF Member
  <2>3. Assign(n, part, v).ok
    BY <2>1, DoneIs DEF Assign
  <2>4. ~IsNil(n)
    BY <2>1 DEF IsNil, Nothing, Scalar
  <2> QED
    BY <2>1, <2>2, <2>3, <2>4
<1> QED
  BY <1>3, <1>4

LEMMA NothingIsNil == IsNil(Nothing)
BY DEF IsNil

\* Putting a member where it is changes nothing.
LEMMA PutSame ==
    ASSUME NEW S, Whole(S), NEW n \in S, NEW part, ~IsNil(Member(n, part))
    PROVE  /\ n.t # "scalar" /\ Key(n, part) \in DOMAIN n.f
           /\ PutMember(n, Key(n, part), Member(n, part)) = n
<1>1. n.t # "scalar" /\ Key(n, part) \in DOMAIN n.f /\ Member(n, part) = n.f[Key(n, part)]
  BY NothingIsNil DEF Member
<1> DEFINE x == Key(n, part)
           v == n.f[x]
<1>2. ASSUME NEW f, IsFun(f), x \in DOMAIN f
      PROVE  With(f, x, f[x]) = f
  BY <1>2 DEF With, IsFun
<1>3. x \in DOMAIN n.f /\ Member(n, part) = v
  BY <1>1
<1> HIDE DEF x
<1>4. ASSUME NEW f, n = Object(f), IsFun(f) PROVE PutMember(n, x, v) = n
  <2>1. n.f = f
    BY <1>4, ObjectNode
  <2>2. With(f, x, v) = f
    BY <1>2, <1>3, <1>4, <2>1
  <2>3. PutMember(n, x, v) = Object(With(f, x, v))
    BY <1>4, PutObject
  <2> QED
    BY <1>4, <2>2, <2>3
<1>5. ASSUME NEW f, NEW l \in Nat, n = Array(f, l), IsFun(f), DOMAIN f \subseteq 0..l - 1
      PROVE  PutMember(n, x, v) = n
  <2>1. n.f = f
    BY <1>5, ArrayNode
  <2>2. With(f, x, v) = f
    BY <1>2, <1>3, <1>5, <2>1
  <2>3. PutMember(n, x, v) = Array(With(f, x, v), l)
    BY <1>5, PutArray
  <2> QED
    BY <1>5, <2>2, <2>3
<1>6. PutMember(n, x, v) = n
  BY <1>1, <1>4, <1>5, ValueIs
<1> QED
  BY <1>1, <1>3, <1>6 DEF x

\* What a call that throws leaves; a call in a new ancestor does not throw.
Keeps(d, n, part) == (~d.ok => d.node = n) /\ (n = NewAncestor(part) => d.ok)

LEMMA LastKeeps ==
    ASSUME NEW n, NEW part, NEW v
    PROVE  Keeps(SetLast(n, part, v), n, part)
<1>1. ~SetLast(n, part, v).ok => SetLast(n, part, v).node = n
  BY DoneIs DEF SetLast, Assign
<1>2. ASSUME n = NewAncestor(part) PROVE SetLast(n, part, v).ok
  BY <1>2, AncestorIs, DoneIs DEF SetLast
<1> QED
  BY <1>1, <1>2 DEF Keeps

LEMMA AboveKeeps ==
    ASSUME NEW S, Whole(S), NEW n \in S, NEW part, NEW next, NEW d, IsOutcome(d),
           Keeps(d, NextNode(n, part, next), next)
    PROVE  Keeps(SetAbove(n, part, d), n, part)
<1> DEFINE m == Member(n, part)
           a == Assign(n, part, d.node)
           r == SetAbove(n, part, d)
<1>1. CASE ~IsNil(m)
  <2>1. NextNode(n, part, next) = m
    BY <1>1 DEF NextNode
  <2>2. r = [ok |-> d.ok, node |-> PutMember(n, Key(n, part), d.node)]
    BY <1>1, SetAboveIs
  <2>3. ~d.ok => PutMember(n, Key(n, part), d.node) = n
    BY <1>1, <2>1, PutSame DEF Keeps
  <2>4. n # NewAncestor(part)
    BY <1>1, AncestorIs, NothingIsNil
  <2> QED
    BY <2>2, <2>3, <2>4 DEF Keeps
<1>2. CASE IsNil(m)
  <2>1. NextNode(n, part, next) = NewAncestor(next)
    BY <1>2 DEF NextNode
  <2>2. d.ok
    BY <2>1 DEF Keeps
  <2>3. r.ok = (a.ok /\ d.ok) /\ r.node = a.node
    BY <1>2, SetAboveIs
  <2>4. ~a.ok => a.node = n
    BY DoneIs DEF Assign
  <2>5. n = NewAncestor(part) => a.ok
    BY AncestorIs
  <2> QED
    BY <2>2, <2>3, <2>4, <2>5 DEF Keeps
<1> QED
  BY <1>1, <1>2

\* set changes nothing when it throws.
LEMMA SettingKeeps ==
    ASSUME NEW segs, Len(segs) \in Nat \ {0}, NEW S, Whole(S), NEW n \in S, NEW v
    PROVE  \A j \in 0..Len(segs) - 1 :
              Keeps(Setting(segs, n, v)[j], Way(segs, n)[Len(segs) - 1 - j], segs[Len(segs) - j])
<1> DEFINE end == Len(segs) - 1
           done == Setting(segs, n, v)
           way == Way(segs, n)
           B == {j \in 0..end : Keeps(done[j], way[end - j], segs[end - j + 1])}
<1>1. end \in Nat
  OBVIOUS
<1>2. /\ done[0] = SetLast(way[end], segs[end + 1], v)
      /\ \A k \in 1..end : done[k] = SetAbove(way[end - k], segs[end - k + 1], done[k - 1])
  BY SettingIs
<1>3. \A j \in 0..end : IsOutcome(done[j])
  BY Outcomes
<1>4. /\ \A k \in 1..end : way[k] = NextNode(way[k - 1], segs[k], segs[k + 1])
      /\ \A k \in 0..end : way[k] \in S
  BY WayIs
<1>5. \A j \in 0..end : Len(segs) - 1 - j = end - j /\ Len(segs) - j = end - j + 1
  OBVIOUS
<1> HIDE DEF end, done, way
<1>6. 0 \in B
  <2>1. end - 0 = end
    BY <1>1
  <2> QED
    BY <1>1, <1>2, <2>1, LastKeeps
<1>7. ASSUME NEW j \in 0..end - 1, j \in B PROVE j + 1 \in B
  <2> DEFINE k == end - j
  <2>1. /\ j + 1 \in 1..end /\ j + 1 - 1 = j /\ j + 1 \in 0..end /\ j \in 0..end
        /\ end - (j + 1) = k - 1 /\ end - (j + 1) + 1 = k /\ k \in 1..end /\ k - 1 \in 0..end
    BY <1>1
  <2>2. Keeps(done[j], way[k], segs[k + 1])
    BY <1>7
  <2> HIDE DEF k
  <2>3. done[j + 1] = SetAbove(way[k - 1], segs[k], done[j])
    BY <1>2, <2>1
  <2>4. way[k] = NextNode(way[k - 1], segs[k], segs[k + 1]) /\ way[k - 1] \in S
    BY <1>4, <2>1
  <2>5. Keeps(done[j + 1], way[k - 1], segs[k])
    BY <1>3, <2>1, <2>2, <2>3, <2>4, AboveKeeps
  <2> QED
    BY <2>1, <2>5
<1>8. 0..end \subseteq B
  <2> HIDE DEF B
  <2> QED
    BY <1>1, <1>6, <1>7, UpTo
<1> QED
  BY <1>5, <1>8 DEF end, done, way

LEMMA SetKeeps ==
    ASSUME NEW segs \in Seq(Text), NEW S, Whole(S), NEW n \in S, NEW v, ~set(segs, n, v).ok
    PROVE  set(segs, n, v).node = n
<1>1. CASE segs = <<>>
  BY <1>1, DoneIs DEF set
<1>2. CASE segs # <<>>
  <2>1. Len(segs) \in Nat \ {0}
    BY <1>2, EmptySeq
  <2> DEFINE end == Len(segs) - 1
  <2>2. set(segs, n, v) = Setting(segs, n, v)[end]
    BY <1>2 DEF set
  <2>3. end \in 0..Len(segs) - 1 /\ Len(segs) - 1 - end = 0
    BY <2>1
  <2>4. Keeps(Setting(segs, n, v)[end], Way(segs, n)[0], segs[Len(segs) - end])
    BY <2>1, <2>3, SettingKeeps
  <2>5. Way(segs, n)[0] = n
    BY <2>1, WayIs
  <2> QED
    BY <2>2, <2>4, <2>5 DEF Keeps
<1> QED
  BY <1>1, <1>2

-----------------------------------------------------------------------------
\* The documents a program can get to

\* A document is a value that all values it is made of are known of.
IsTree(n) == \E S : Whole(S) /\ n \in S

\* U has all values of S, and d.node.
Grown(S, U, d) == Whole(U) /\ S \subseteq U /\ d.node \in U

LEMMA OverGrown ==
    ASSUME NEW S, NEW U, Whole(U), S \subseteq U, NEW d, Over(U, d.node)
    PROVE  Grown(S, U \cup {d.node}, d)
<1>1. Closed(U \cup {d.node})
  BY MoreValues DEF Whole
<1> QED
  BY <1>1 DEF Grown, Whole

LEMMA LastGrown ==
    ASSUME NEW S, Whole(S), NEW n \in S, NEW part \in Text, NEW v \in S
    PROVE  \E U : Grown(S, U, SetLast(n, part, v))
<1> DEFINE d == SetLast(n, part, v)
<1>1. Over(S, n)
  BY DEF Over, Whole, Closed
<1>2. Over(S, d.node)
  <2>1. CASE v # Nothing
    BY <2>1, AssignOver DEF SetLast
  <2>2. CASE v = Nothing /\ IsNil(n)
    BY <1>1, <2>2, DoneIs DEF SetLast
  <2>3. CASE v = Nothing /\ ~IsNil(n)
    <3>1. d.node = RemoveMember(n, part)
      BY <2>3, DoneIs DEF SetLast
    <3> QED
      BY <3>1, RemoveOver
  <2> QED
    BY <2>1, <2>2, <2>3
<1> HIDE DEF d
<1>3. Grown(S, S \cup {d.node}, d)
  BY <1>2, OverGrown
<1> QED
  BY <1>3 DEF d

LEMMA AboveGrown ==
    ASSUME NEW S, NEW n \in S, NEW part \in Text, NEW d, IsOutcome(d), NEW W, Grown(S, W, d)
    PROVE  \E U : Grown(S, U, SetAbove(n, part, d))
<1> DEFINE r == SetAbove(n, part, d)
<1>1. Whole(W) /\ n \in W /\ d.node \in W /\ S \subseteq W
  BY DEF Grown
<1>2. Over(W, r.node)
  <2>1. CASE ~IsNil(Member(n, part))
    <3>1. r.node = PutMember(n, Key(n, part), d.node)
      BY <2>1, SetAboveIs
    <3>2. n.t # "scalar" /\ Key(n, part) \in DOMAIN n.f
      BY <1>1, <2>1, PutSame
    <3>3. Over(W, PutMember(n, Key(n, part), d.node))
      BY <1>1, <3>2, PutOver
    <3> QED
      BY <3>1, <3>3
  <2>2. CASE IsNil(Member(n, part))
    <3>1. r.node = Assign(n, part, d.node).node
      BY <2>2, SetAboveIs
    <3>2. Over(W, Assign(n, part, d.node).node)
      BY <1>1, AssignOver
    <3> QED
      BY <3>1, <3>2
  <2> QED
    BY <2>1, <2>2
<1> HIDE DEF r
<1>3. Grown(S, W \cup {r.node}, r)
  BY <1>1, <1>2, OverGrown
<1> QED
  BY <1>3 DEF r

LEMMA SettingGrown ==
    ASSUME NEW segs \in Seq(Text), segs # <<>>, NEW S, Whole(S), NEW n \in S, NEW v \in S
    PROVE  \A j \in 0..Len(segs) - 1 : \E U : Grown(S, U, Setting(segs, n, v)[j])
<1> DEFINE end == Len(segs) - 1
           done == Setting(segs, n, v)
           way == Way(segs, n)
           B == {j \in 0..end : \E U : Grown(S, U, done[j])}
<1>0. Len(segs) \in Nat \ {0}
  BY EmptySeq
<1>1. end \in Nat
  BY <1>0
<1>2. /\ done[0] = SetLast(way[end], segs[end + 1], v)
      /\ \A k \in 1..end : done[k] = SetAbove(way[end - k], segs[end - k + 1], done[k - 1])
  BY <1>0, SettingIs
<1>3. \A j \in 0..end : IsOutcome(done[j])
  BY <1>0, Outcomes
<1>4. \A k \in 0..end : way[k] \in S
  BY <1>0, WayIs
<1>5. \A k \in 0..end : segs[k + 1] \in Text
  <2>1. \A k \in 0..end : k + 1 \in 1..Len(segs)
    BY <1>0
  <2> QED
    BY <2>1
<1> HIDE DEF end, done, way
<1>6. 0 \in B
  <2>1. end \in 0..end /\ 0 \in 0..end
    BY <1>1
  <2>2. \E U : Grown(S, U, done[0])
    BY <1>2, <1>4, <1>5, <2>1, LastGrown
  <2> QED
    BY <2>1, <2>2
<1>7. ASSUME NEW j \in 0..end - 1, j \in B PROVE j + 1 \in B
  <2> DEFINE k == end - (j + 1)
  <2>1. /\ j + 1 \in 1..end /\ j + 1 - 1 = j /\ j + 1 \in 0..end /\ j \in 0..end
        /\ k \in 0..end
    BY <1>1
  <2>2. PICK W : Grown(S, W, done[j])
    BY <1>7
  <2>3. done[j + 1] = SetAbove(way[k], segs[k + 1], done[j])
    BY <1>2, <2>1
  <2> HIDE DEF k
  <2>4. \E U : Grown(S, U, done[j + 1])
    BY <1>3, <1>4, <1>5, <2>1, <2>2, <2>3, AboveGrown
  <2> QED
    BY <2>1, <2>4
<1>8. 0..end \subseteq B
  <2> HIDE DEF B
  <2> QED
    BY <1>1, <1>6, <1>7, UpTo
<1> QED
  BY <1>8 DEF end, done

LEMMA SetTree ==
    ASSUME NEW segs \in Seq(Text), segs # <<>>, NEW n, IsTree(n), NEW v \in Fragments
    PROVE  IsTree(set(segs, n, v).node)
<1>1. PICK T : Whole(T) /\ n \in T
  BY DEF IsTree
<1> DEFINE S == T \cup Fragments
<1>2. Whole(S) /\ n \in S /\ v \in S
  <2>1. Closed(S)
    BY <1>1, FragmentAssumption DEF Whole, Closed
  <2> QED
    BY <1>1, <2>1 DEF Whole
<1> HIDE DEF S
<1>3. Len(segs) \in Nat \ {0}
  BY EmptySeq
<1> DEFINE end == Len(segs) - 1
           d == Setting(segs, n, v)[end]
<1>4. end \in 0..Len(segs) - 1
  BY <1>3
<1>5. PICK U : Grown(S, U, d)
  BY <1>2, <1>4, SettingGrown
<1>6. set(segs, n, v) = d
  BY DEF set
<1> HIDE DEF d
<1> QED
  BY <1>5, <1>6 DEF Grown, IsTree

LEMMA EmptyTree == IsTree(EmptyObject) /\ IsTree(EmptyArray)
<1>1. Closed({})
  BY DEF Closed
<1>2. Whole({} \cup {Nothing, EmptyObject, EmptyArray})
  BY <1>1, SomeValues
<1> QED
  BY <1>2 DEF IsTree

\* The document is one, whatever the program sets.
THEOREM DocumentIsTree == JsonSpec => []IsTree(doc)
<1>1. JsonInit => IsTree(doc)
  BY EmptyTree DEF JsonInit
<1>2. IsTree(doc) /\ [JsonNext]_doc => IsTree(doc)'
  <2> SUFFICES ASSUME IsTree(doc), [JsonNext]_doc PROVE IsTree(doc)'
    OBVIOUS
  <2>1. CASE JsonNext
    <3>1. PICK p \in Paths, v \in Fragments : \E segs \in Compiled[p] : Set(segs, v)
      BY <2>1 DEF JsonNext
    <3>2. p \in Seq(Text) /\ p # <<>> /\ Compiled[p] = {p}
      BY <3>1, CompiledIs
    <3>3. doc' = set(p, doc, v).node
      BY <3>1, <3>2 DEF Set
    <3>4. IsTree(set(p, doc, v).node)
      BY <3>1, <3>2, SetTree
    <3> QED
      BY <3>3, <3>4 DEF IsTree
  <2>2. CASE UNCHANGED doc
    BY <2>2 DEF IsTree
  <2> QED
    BY <2>1, <2>2
<1> QED
  BY <1>1, <1>2, PTL DEF JsonSpec

\* A set that throws leaves the document as it was: it throws before its first
\* assignment, since it does not throw in what it has made itself.
THEOREM FailedSetKeepsAlways == JsonSpec => []FailedSetKeeps
<1>1. IsTree(doc) => FailedSetKeeps
  <2> SUFFICES ASSUME IsTree(doc), NEW p \in Paths, NEW v \in Fragments, ~set(p, doc, v).ok
               PROVE  set(p, doc, v).node = doc
    BY DEF FailedSetKeeps
  <2>1. PICK S : Whole(S) /\ doc \in S
    BY DEF IsTree
  <2>2. p \in Seq(Text)
    BY CompiledIs
  <2> QED
    BY <2>1, <2>2, SetKeeps
<1> QED
  BY <1>1, DocumentIsTree, PTL

-----------------------------------------------------------------------------
\* Numbers as texts

LEMMA DigitIs ==
    ASSUME NEW c, IsDigit(c)
    PROVE  DigitOf(c) \in 0..9 /\ c = Digits[DigitOf(c) + 1]
<1> DEFINE i == CHOOSE i \in 1..10 : Digits[i] = c
<1>1. i \in 1..10 /\ Digits[i] = c
  BY DEF IsDigit
<1>2. DigitOf(c) = i - 1
  BY DEF DigitOf
<1> HIDE DEF i
<1>3. DigitOf(c) + 1 = i /\ i - 1 \in 0..9
  BY <1>1, <1>2
<1> QED
  BY <1>1, <1>2, <1>3

\* The value of the first j characters of a text of digits.
Value(k, j) == Reading(k)[j].value

LEMMA ValueGrows ==
    ASSUME NEW k \in Text, IsIndex(k)
    PROVE  /\ Len(k) \in Nat \ {0}
           /\ Value(k, 1) = DigitOf(k[1])
           /\ \A j \in 1..Len(k) : Value(k, j) \in Nat /\ Reading(k)[j].more
           /\ \A j \in 2..Len(k) : Value(k, j) = 10 * Value(k, j - 1) + DigitOf(k[j])
<1>0. PICK n \in Nat \ {0} : n = Len(k)
  BY EmptySeq, LenProperties DEF IsIndex, Text
<1> DEFINE h == Reading(k)
           S == {j \in 0..n : h[j].more /\ (j > 0 => h[j].value \in Nat)}
<1>1. /\ h[0] = [more |-> TRUE, value |-> NaN]
      /\ \A j \in 1..n : h[j] = ReadDigit(h[j - 1], k[j])
      /\ \A j \in 0..n : h[j] \in ReadState
  BY <1>0, ReadingIs
<1>2. \A j \in 1..n : IsDigit(k[j])
  BY <1>0 DEF IsIndex
<1>3. ASSUME NEW j \in 1..n, h[j - 1].more
      PROVE  /\ h[j].more
             /\ h[j].value = IF h[j - 1].value = NaN THEN DigitOf(k[j])
                             ELSE 10 * h[j - 1].value + DigitOf(k[j])
  <2>1. h[j - 1] \in ReadState
    BY <1>1
  <2>2. h[j] = ReadDigit(h[j - 1], k[j])
    BY <1>1
  <2> DEFINE r == h[j - 1]
             c == k[j]
             x == IF r.value = NaN THEN DigitOf(c) ELSE 10 * r.value + DigitOf(c)
  <2>3. h[j] = [r EXCEPT !.value = x]
    BY <1>2, <1>3, <2>2 DEF ReadDigit
  <2> HIDE DEF x
  <2>4. h[j].more = r.more /\ h[j].value = x
    BY <2>1, <2>3 DEF ReadState
  <2> QED
    BY <1>3, <2>4 DEF x
<1> HIDE DEF h
<1>4. 0 \in S
  BY <1>0, <1>1
<1>5. ASSUME NEW j \in 0..n - 1, j \in S PROVE j + 1 \in S
  <2>1. j + 1 \in 1..n /\ j + 1 - 1 = j /\ j + 1 \in 0..n
    BY <1>0
  <2>2. h[j].more /\ DigitOf(k[j + 1]) \in 0..9 /\ (h[j].value = NaN \/ h[j].value \in Nat)
    BY <1>1, <1>2, <1>5, <2>1, DigitIs DEF ReadState
  <2>3. h[j + 1].more /\ h[j + 1].value \in Nat
    BY <1>3, <2>1, <2>2
  <2> QED
    BY <2>1, <2>3
<1>6. \A j \in 0..n : h[j].more /\ (j > 0 => h[j].value \in Nat)
  <2>1. 0..n \subseteq S
    <3> HIDE DEF S
    <3> QED
      BY <1>0, <1>4, <1>5, UpTo
  <2> QED
    BY <2>1
<1>7. \A j \in 1..n : h[j].value \in Nat /\ h[j].more
  BY <1>6
<1>8. h[1].value = DigitOf(k[1])
  <2>1. 1 \in 1..n /\ 1 - 1 = 0 /\ h[0].more /\ h[0].value = NaN
    BY <1>0, <1>1
  <2> QED
    BY <1>3, <2>1
<1>9. ASSUME NEW j \in 2..n PROVE h[j].value = 10 * h[j - 1].value + DigitOf(k[j])
  <2>1. j \in 1..n /\ j - 1 \in 1..n
    BY <1>0
  <2>2. h[j - 1].more /\ h[j - 1].value \in Nat
    BY <1>7, <2>1
  <2>3. h[j - 1].value # NaN
    BY <2>2 DEF NaN
  <2> QED
    BY <1>3, <2>1, <2>2, <2>3
<1> QED
  BY <1>0, <1>7, <1>8, <1>9 DEF h, Value

LEMMA IndexValue ==
    ASSUME NEW k \in Text, IsIndex(k)
    PROVE  parseInt(k) \in Nat /\ parseInt(k) = Value(k, Len(k))
<1>1. Len(k) \in 1..Len(k)
  BY ValueGrows
<1>2. Value(k, Len(k)) \in Nat
  BY <1>1, ValueGrows
<1> QED
  BY <1>2 DEF parseInt, Value

\* Only a number of one digit is less than ten.
LEMMA LongIsLarge ==
    ASSUME NEW k \in Text, IsIndex(k), NEW j \in 2..Len(k)
    PROVE  Value(k, j) >= 10
<1>0. PICK n \in Nat \ {0} : n = Len(k)
  BY ValueGrows
<1>1. 1 \in 1..n /\ n >= 2
  BY <1>0
<1>2. IsDigit(k[1]) /\ k[1] # "0"
  BY <1>0, <1>1 DEF IsIndex
<1>3. DigitOf(k[1]) >= 1
  <2>1. DigitOf(k[1]) \in 0..9 /\ k[1] = Digits[DigitOf(k[1]) + 1]
    BY <1>2, DigitIs
  <2>2. CASE DigitOf(k[1]) = 0
    <3>1. k[1] = Digits[1]
      BY <2>1, <2>2
    <3> QED
      BY <1>2, <3>1 DEF Digits
  <2> QED
    BY <2>1, <2>2
<1>4. \A i \in 2..n : /\ Value(k, i) = 10 * Value(k, i - 1) + DigitOf(k[i])
                      /\ DigitOf(k[i]) \in 0..9
  <2>1. \A i \in 2..n : i \in 1..n
    OBVIOUS
  <2> QED
    BY <1>0, <2>1, ValueGrows, DigitIs DEF IsIndex
<1>5. \A i \in 1..n : Value(k, i) \in Nat
  BY <1>0, ValueGrows
<1>6. Value(k, 1) >= 1
  BY <1>3, ValueGrows
<1> DEFINE S == {i \in 0..n - 1 : Value(k, i + 1) >= 1}
<1>7. 0 \in S
  BY <1>0, <1>6
<1>8. ASSUME NEW i \in 0..(n - 1) - 1, i \in S PROVE i + 1 \in S
  <2>1. i + 1 + 1 \in 2..n /\ i + 1 + 1 - 1 = i + 1 /\ i + 1 \in 0..n - 1 /\ i + 1 \in 1..n
    BY <1>0
  <2>2. Value(k, i + 1) \in Nat /\ Value(k, i + 1) >= 1
    BY <1>5, <1>8, <2>1
  <2>3. Value(k, i + 1 + 1) = 10 * Value(k, i + 1) + DigitOf(k[i + 1 + 1])
        /\ DigitOf(k[i + 1 + 1]) \in 0..9
    BY <1>4, <2>1
  <2>4. Value(k, i + 1 + 1) >= 1
    BY <2>2, <2>3
  <2> QED
    BY <2>1, <2>4
<1>9. 0..n - 1 \subseteq S
  <2>1. n - 1 \in Nat
    BY <1>0
  <2> HIDE DEF S
  <2> QED
    BY <1>7, <1>8, <2>1, UpTo
<1>10. j - 2 \in 0..n - 1 /\ j - 2 + 1 = j - 1 /\ j \in 2..n /\ j - 1 \in 1..n
  BY <1>0
<1>11. Value(k, j - 1) >= 1 /\ Value(k, j - 1) \in Nat
  BY <1>5, <1>9, <1>10
<1>12. Value(k, j) = 10 * Value(k, j - 1) + DigitOf(k[j]) /\ DigitOf(k[j]) \in 0..9
  BY <1>4, <1>10
<1> QED
  BY <1>11, <1>12

\* An index is written in one way only.
LEMMA OneText ==
    ASSUME NEW k \in Text, IsIndex(k), NEW l \in Text, IsIndex(l), parseInt(k) = parseInt(l)
    PROVE  k = l
<1>0. PICK n \in Nat \ {0}, m \in Nat \ {0} : n = Len(k) /\ m = Len(l)
  BY ValueGrows
<1> DEFINE Same(a, b) == a = b /\ \A i \in 1..a : k[i] = l[i]
           S == {a \in 0..n - 1 : \A b \in 1..m : Value(k, a + 1) = Value(l, b) => Same(a + 1, b)}
<1>1. /\ \A i \in 1..n : IsDigit(k[i]) /\ DigitOf(k[i]) \in 0..9 /\ k[i] = Digits[DigitOf(k[i]) + 1]
      /\ \A i \in 1..m : IsDigit(l[i]) /\ DigitOf(l[i]) \in 0..9 /\ l[i] = Digits[DigitOf(l[i]) + 1]
  BY <1>0, DigitIs DEF IsIndex
<1>2. /\ Value(k, 1) = DigitOf(k[1]) /\ \A j \in 1..n : Value(k, j) \in Nat
      /\ \A j \in 2..n : Value(k, j) = 10 * Value(k, j - 1) + DigitOf(k[j]) /\ Value(k, j) >= 10
  BY <1>0, ValueGrows, LongIsLarge
<1>3. /\ Value(l, 1) = DigitOf(l[1]) /\ \A j \in 1..m : Value(l, j) \in Nat
      /\ \A j \in 2..m : Value(l, j) = 10 * Value(l, j - 1) + DigitOf(l[j]) /\ Value(l, j) >= 10
  BY <1>0, ValueGrows, LongIsLarge
<1>4. 0 \in S
  <2> SUFFICES ASSUME NEW b \in 1..m, Value(k, 1) = Value(l, b) PROVE Same(1, b)
    BY <1>0
  <2>1. 1 \in 1..n /\ 1 \in 1..m /\ (b # 1 => b \in 2..m)
    BY <1>0
  <2>2. Value(k, 1) \in 0..9
    BY <1>1, <1>2, <2>1
  <2>3. b = 1
    BY <1>3, <2>1, <2>2
  <2>4. DigitOf(k[1]) = DigitOf(l[1])
    BY <1>2, <1>3, <2>3
  <2>5. k[1] = l[1]
    BY <1>1, <2>1, <2>4
  <2> QED
    BY <2>3, <2>5
<1>5. ASSUME NEW a \in 0..(n - 1) - 1, a \in S PROVE a + 1 \in S
  <2>0. a + 1 \in 0..n - 1 /\ a + 1 + 1 \in 2..n /\ a + 1 + 1 \in 1..n /\ a + 1 + 1 - 1 = a + 1 /\ a + 1 \in 1..n
    BY <1>0
  <2> SUFFICES ASSUME NEW b \in 1..m, Value(k, a + 1 + 1) = Value(l, b) PROVE Same(a + 1 + 1, b)
    BY <2>0
  <2>1. b \in 2..m /\ b - 1 \in 1..m
    <3>1. Value(l, b) >= 10
      BY <1>2, <2>0
    <3>2. CASE b = 1
      <4>1. Value(l, 1) \in 0..9
        <5>1. 1 \in 1..m
          BY <1>0
        <5> QED
          BY <1>1, <1>3, <5>1
      <4> QED
        BY <3>1, <3>2, <4>1
    <3> QED
      BY <1>0, <3>2
  <2> DEFINE x == Value(k, a + 1)
             y == Value(l, b - 1)
             d == DigitOf(k[a + 1 + 1])
             e == DigitOf(l[b])
  <2>2. x \in Nat /\ y \in Nat /\ d \in 0..9 /\ e \in 0..9 /\ 10 * x + d = 10 * y + e
    BY <1>1, <1>2, <1>3, <2>0, <2>1
  <2>3. x = y /\ d = e
    <3> HIDE DEF x, y, d, e
    <3> QED
      BY <2>2
  <2>4. Same(a + 1, b - 1)
    BY <1>5, <2>1, <2>3
  <2>5. k[a + 1 + 1] = l[b]
    BY <1>1, <2>0, <2>1, <2>3
  <2>6. a + 1 + 1 = b
    BY <2>0, <2>1, <2>4
  <2>7. ASSUME NEW i \in 1..a + 1 + 1 PROVE k[i] = l[i]
    <3>1. i = a + 1 + 1 \/ i \in 1..a + 1
      BY <2>0
    <3> QED
      BY <2>4, <2>5, <2>6, <3>1
  <2> QED
    BY <2>6, <2>7
<1>6. n - 1 \in S /\ n - 1 + 1 = n
  <2>1. 0..n - 1 \subseteq S
    <3>1. n - 1 \in Nat
      BY <1>0
    <3> HIDE DEF S
    <3> QED
      BY <1>4, <1>5, <3>1, UpTo
  <2>2. n - 1 \in 0..n - 1 /\ n - 1 + 1 = n
    BY <1>0
  <2> HIDE DEF S
  <2> QED
    BY <2>1, <2>2
<1>7. Value(k, n) = Value(l, m) /\ m \in 1..m
  BY <1>0, IndexValue
<1>8. Same(n, m)
  BY <1>6, <1>7
<1>9. k \in Seq(Chars) /\ l \in Seq(Chars) /\ Len(k) = Len(l) /\ \A i \in 1..Len(k) : k[i] = l[i]
  BY <1>0, <1>8 DEF Text
<1> QED
  BY <1>9, SeqEqual

-----------------------------------------------------------------------------
\* What is set is read back

\* In m, v stands where part leads to, and all else is as in n.
Reads(m, n, part, v) ==
    /\ ~IsNil(m) /\ Member(m, part) = v
    /\ \A q \in Text \ {part} : Member(m, q) = Member(n, q)

LEMMA NotNil == \A n : n.t # "scalar" => ~IsNil(n)
BY DEF IsNil, Nothing, Scalar

LEMMA MemberObject ==
    ASSUME NEW f, NEW k
    PROVE  Member(Object(f), k) = (IF k \in DOMAIN f THEN f[k] ELSE Nothing)
BY DEF Member, Object, Key

LEMMA MemberArray ==
    ASSUME NEW f, NEW l, NEW k
    PROVE  Member(Array(f, l), k) =
              LET x == IF IsIndex(k) THEN parseInt(k) ELSE NaN
              IN IF x \in DOMAIN f THEN f[x] ELSE Nothing
BY DEF Member, Array, Key

LEMMA ObjectReads ==
    ASSUME NEW f, NEW part, NEW v
    PROVE  /\ Reads(Object(With(f, part, v)), Object(f), part, v)
           /\ Reads(Object(Without(f, part)), Object(f), part, Nothing)
<1> DEFINE g == With(f, part, v)
           h == Without(f, part)
<1>1. DOMAIN g = DOMAIN f \cup {part} /\ g[part] = v /\ \A q \in DOMAIN f \ {part} : g[q] = f[q]
  BY DEF With
<1>2. DOMAIN h = DOMAIN f \ {part} /\ \A q \in DOMAIN f \ {part} : h[q] = f[q]
  BY DEF Without
<1> HIDE DEF g, h
<1>3. Object(g).t = "object" /\ Object(h).t = "object"
  BY DEF Object
<1>4. ~IsNil(Object(g)) /\ ~IsNil(Object(h))
  BY <1>3, NotNil
<1>5. \A q : /\ Member(Object(f), q) = (IF q \in DOMAIN f THEN f[q] ELSE Nothing)
             /\ Member(Object(g), q) = (IF q \in DOMAIN g THEN g[q] ELSE Nothing)
             /\ Member(Object(h), q) = (IF q \in DOMAIN h THEN h[q] ELSE Nothing)
  BY MemberObject
<1>6. Reads(Object(g), Object(f), part, v)
  BY <1>1, <1>4, <1>5 DEF Reads
<1>7. Reads(Object(h), Object(f), part, Nothing)
  BY <1>2, <1>4, <1>5 DEF Reads
<1> QED
  BY <1>6, <1>7 DEF g, h

\* The place in an array.
IndexPlace(k) == IF IsIndex(k) THEN parseInt(k) ELSE NaN

LEMMA PlacesDiffer ==
    ASSUME NEW k \in Text, NEW q \in Text \ {k}
    PROVE  IndexPlace(k) = IndexPlace(q) => IndexPlace(k) = NaN
<1>1. IsIndex(k) => parseInt(k) \in Nat
  BY IndexValue
<1>2. IsIndex(q) => parseInt(q) \in Nat
  BY IndexValue
<1>3. NaN \notin Nat
  BY DEF NaN
<1> QED
  BY <1>1, <1>2, <1>3, OneText DEF IndexPlace

LEMMA ArrayReads ==
    ASSUME NEW f, NEW l \in Nat, DOMAIN f \subseteq 0..l - 1, NEW m, NEW part \in Text, NEW v
    PROVE  /\ IsIndex(part) => Reads(Array(With(f, parseInt(part), v), m), Array(f, l), part, v)
           /\ Reads(Array(Without(f, IndexPlace(part)), m), Array(f, l), part, Nothing)
<1> DEFINE x == IndexPlace(part)
           g == With(f, x, v)
           h == Without(f, x)
<1>1. DOMAIN g = DOMAIN f \cup {x} /\ g[x] = v /\ \A q \in DOMAIN f \ {x} : g[q] = f[q]
  BY DEF With
<1>2. DOMAIN h = DOMAIN f \ {x} /\ \A q \in DOMAIN f \ {x} : h[q] = f[q]
  BY DEF Without
<1>3. NaN \notin DOMAIN f
  BY DEF NaN
<1>4. \A q \in Text \ {part} : IndexPlace(q) = x => x = NaN
  BY PlacesDiffer
<1>5. IsIndex(part) => x # NaN /\ x = parseInt(part)
  BY IndexValue DEF IndexPlace, NaN
<1> HIDE DEF g, h, x
<1>6. Array(g, m).t = "array" /\ Array(h, m).t = "array"
  BY DEF Array
<1>7. ~IsNil(Array(g, m)) /\ ~IsNil(Array(h, m))
  BY <1>6, NotNil
<1>8. \A q : /\ Member(Array(f, l), q) = (IF IndexPlace(q) \in DOMAIN f THEN f[IndexPlace(q)] ELSE Nothing)
             /\ Member(Array(g, m), q) = (IF IndexPlace(q) \in DOMAIN g THEN g[IndexPlace(q)] ELSE Nothing)
             /\ Member(Array(h, m), q) = (IF IndexPlace(q) \in DOMAIN h THEN h[IndexPlace(q)] ELSE Nothing)
  BY MemberArray DEF IndexPlace
<1>9. IndexPlace(part) = x
  BY DEF x
<1>10. ASSUME IsIndex(part) PROVE Reads(Array(g, m), Array(f, l), part, v)
  <2>1. Member(Array(g, m), part) = v
    BY <1>1, <1>8, <1>9
  <2>2. ASSUME NEW q \in Text \ {part} PROVE Member(Array(g, m), q) = Member(Array(f, l), q)
    <3>1. IndexPlace(q) # x
      BY <1>4, <1>5, <1>10
    <3> QED
      BY <1>1, <1>8, <3>1
  <2> QED
    BY <1>7, <2>1, <2>2 DEF Reads
<1>11. Reads(Array(h, m), Array(f, l), part, Nothing)
  <2>1. Member(Array(h, m), part) = Nothing
    BY <1>2, <1>8, <1>9
  <2>2. ASSUME NEW q \in Text \ {part} PROVE Member(Array(h, m), q) = Member(Array(f, l), q)
    <3>1. IndexPlace(q) = x => x \notin DOMAIN f
      BY <1>3, <1>4
    <3> QED
      BY <1>2, <1>8, <3>1
  <2> QED
    BY <1>7, <2>1, <2>2 DEF Reads
<1> QED
  BY <1>5, <1>10, <1>11 DEF g, h, x

LEMMA AssignReads ==
    ASSUME NEW S, Whole(S), NEW n \in S, NEW part \in Text, Canonical(part), NEW v,
           Assign(n, part, v).ok
    PROVE  Reads(Assign(n, part, v).node, n, part, v)
<1>1. CASE n.t = "scalar"
  BY <1>1, DoneIs DEF Assign
<1>2. ASSUME NEW f, n = Object(f), n.t = "object"
      PROVE  Reads(Assign(n, part, v).node, n, part, v)
  <2>1. Assign(n, part, v).node = Object(With(f, part, v))
    BY <1>2, PutObject, DoneIs DEF Assign
  <2> QED
    BY <1>2, <2>1, ObjectReads
<1>3. ASSUME NEW f, NEW l \in Nat, n = Array(f, l), n.t = "array", DOMAIN f \subseteq 0..l - 1
      PROVE  Reads(Assign(n, part, v).node, n, part, v)
  <2>1. part # <<"-">> /\ (parseInt(part) # NaN => IsIndex(part))
    BY DEF Canonical
  <2>2. parseInt(part) # NaN
    BY <1>3, <2>1, DoneIs DEF Assign
  <2>3. Assign(n, part, v).node = PutIndex(n, parseInt(part), v)
    BY <1>3, <2>1, <2>2, DoneIs DEF Assign
  <2> DEFINE i == parseInt(part)
             m == IF i >= l THEN i + 1 ELSE l
  <2>4. PutIndex(Array(f, l), i, v) = Array(With(f, i, v), m)
    BY PutIndexIs
  <2>5. Assign(n, part, v).node = Array(With(f, i, v), m)
    BY <1>3, <2>3, <2>4
  <2> HIDE DEF m
  <2>6. Reads(Array(With(f, i, v), m), Array(f, l), part, v)
    BY <1>3, <2>1, <2>2, ArrayReads
  <2> QED
    BY <1>3, <2>5, <2>6
<1> QED
  BY <1>1, <1>2, <1>3, ValueIs

LEMMA LastReads ==
    ASSUME NEW S, Whole(S), NEW n \in S, NEW part \in Text, Canonical(part), NEW v,
           SetLast(n, part, v).ok
    PROVE  Reads(SetLast(n, part, v).node, n, part, v)
<1>1. CASE v # Nothing
  BY <1>1, AssignReads DEF SetLast
<1>2. CASE v = Nothing
  <2>1. ~IsNil(n) /\ SetLast(n, part, v).node = RemoveMember(n, part)
    BY <1>2, DoneIs DEF SetLast
  <2>2. CASE n.t = "scalar"
    <3>1. \A q : Member(n, q) = Nothing
      BY <2>2 DEF Member
    <3>2. RemoveMember(n, part) = n
      BY <2>2 DEF RemoveMember
    <3> QED
      BY <1>2, <2>1, <3>1, <3>2 DEF Reads
  <2>3. ASSUME NEW f, n = Object(f)
        PROVE  Reads(RemoveMember(n, part), n, part, Nothing)
    BY <2>3, RemoveObject, ObjectReads
  <2>4. ASSUME NEW f, NEW l \in Nat, n = Array(f, l), DOMAIN f \subseteq 0..l - 1
        PROVE  Reads(RemoveMember(n, part), n, part, Nothing)
    <3>1. Key(Array(f, l), part) = IndexPlace(part)
      BY DEF Key, Array, IndexPlace
    <3>2. RemoveMember(Array(f, l), part) = Array(Without(f, IndexPlace(part)), l)
      BY <3>1, RemoveArray
    <3>3. Reads(Array(Without(f, IndexPlace(part)), l), Array(f, l), part, Nothing)
      BY <2>4, ArrayReads
    <3> QED
      BY <2>4, <3>2, <3>3
  <2> QED
    BY <1>2, <2>1, <2>2, <2>3, <2>4, ValueIs
<1> QED
  BY <1>1, <1>2

\* A new ancestor.
LEMMA AboveNil ==
    ASSUME NEW n, NEW part, NEW d, IsOutcome(d), IsNil(Member(n, part))
    PROVE  /\ SetAbove(n, part, d).ok = (Assign(n, part, d.node).ok /\ d.ok)
           /\ SetAbove(n, part, d).node = Assign(n, part, d.node).node
BY SetAboveIs

\* A node above the last one.
LEMMA AboveReads ==
    ASSUME NEW S, Whole(S), NEW n \in S, NEW part \in Text, Canonical(part), NEW d, IsOutcome(d),
           SetAbove(n, part, d).ok
    PROVE  d.ok /\ Reads(SetAbove(n, part, d).node, n, part, d.node)
<1> DEFINE m == Member(n, part)
           v == d.node
<1>1. CASE IsNil(m)
  <2>1. d.ok /\ Assign(n, part, v).ok /\ SetAbove(n, part, d).node = Assign(n, part, v).node
    BY <1>1, AboveNil
  <2> QED
    BY <2>1, AssignReads
<1>2. CASE ~IsNil(m)
  <2>1. d.ok /\ SetAbove(n, part, d).node = PutMember(n, Key(n, part), v)
    BY <1>2, SetAboveIs
  <2>2. n.t # "scalar" /\ Key(n, part) \in DOMAIN n.f
    BY <1>2, PutSame
  <2> HIDE DEF m, v
  <2>3. ASSUME NEW f, n = Object(f), n.t = "object"
        PROVE  Reads(PutMember(n, Key(n, part), v), n, part, v)
    <3>1. Key(n, part) = part
      BY <2>3 DEF Key
    <3> QED
      BY <2>3, <3>1, PutObject, ObjectReads
  <2>4. ASSUME NEW f, NEW l \in Nat, n = Array(f, l), n.t = "array", DOMAIN f \subseteq 0..l - 1
        PROVE  Reads(PutMember(n, Key(n, part), v), n, part, v)
    <3>1. n.f = f
      BY <2>4 DEF Array
    <3>2. Key(n, part) # NaN
      BY <2>2, <2>4, <3>1 DEF NaN
    <3>3. IsIndex(part) /\ Key(n, part) = parseInt(part)
      BY <2>4, <3>2 DEF Key
    <3>4. PutMember(n, Key(n, part), v) = Array(With(f, parseInt(part), v), l)
      BY <2>4, <3>3, PutArray
    <3>5. Reads(Array(With(f, parseInt(part), v), l), Array(f, l), part, v)
      BY <2>4, <3>3, ArrayReads
    <3> QED
      BY <2>4, <3>4, <3>5
  <2>5. Reads(PutMember(n, Key(n, part), v), n, part, v)
    BY <2>2, <2>3, <2>4, ValueIs
  <2> QED
    BY <2>1, <2>5 DEF v
<1> QED
  BY <1>1, <1>2

-----------------------------------------------------------------------------
\* From the document to the place that is set

\* Where q goes the way of segs, for i segments.
Along(q, segs, i) == i \in Nat /\ i <= Len(q) /\ \A k \in 1..i : q[k] = segs[k]

\* A set that does not throw has not thrown at any node.
LEMMA AllDone ==
    ASSUME NEW segs \in Seq(Text), segs # <<>>, NEW S, Whole(S), NEW n \in S, NEW v,
           \A k \in 1..Len(segs) - 1 : Canonical(segs[k]),
           Setting(segs, n, v)[Len(segs) - 1].ok
    PROVE  \A j \in 0..Len(segs) - 1 : Setting(segs, n, v)[j].ok
<1> DEFINE end == Len(segs) - 1
           done == Setting(segs, n, v)
           way == Way(segs, n)
           B == {j \in 0..end : done[end - j].ok}
<1>0. Len(segs) \in Nat \ {0}
  BY EmptySeq
<1>1. end \in Nat
  BY <1>0
<1>2. \A k \in 1..end : done[k] = SetAbove(way[end - k], segs[end - k + 1], done[k - 1])
  BY <1>0, SettingIs
<1>3. \A j \in 0..end : IsOutcome(done[j])
  BY <1>0, Outcomes
<1>4. \A k \in 0..end : way[k] \in S
  BY <1>0, WayIs
<1>5. \A k \in 1..end : segs[k] \in Text /\ Canonical(segs[k])
  <2>1. \A k \in 1..end : k \in 1..Len(segs)
    BY <1>0
  <2> QED
    BY <2>1
<1>6. done[end].ok
  OBVIOUS
<1> HIDE DEF end, done, way
<1>7. 0 \in B
  <2>1. end - 0 = end /\ 0 \in 0..end
    BY <1>1
  <2> QED
    BY <1>6, <2>1
<1>8. ASSUME NEW j \in 0..end - 1, j \in B PROVE j + 1 \in B
  <2> DEFINE k == end - j
  <2>1. /\ j + 1 \in 0..end /\ k \in 1..end /\ k - 1 = end - (j + 1) /\ k - 1 \in 0..end
        /\ end - k \in 0..end /\ end - k + 1 \in 1..end
    BY <1>1
  <2>2. done[k].ok
    BY <1>8
  <2> HIDE DEF k
  <2>3. done[k] = SetAbove(way[end - k], segs[end - k + 1], done[k - 1])
    BY <1>2, <2>1
  <2>4. done[k - 1].ok
    <3> DEFINE w == way[end - k]
               part == segs[end - k + 1]
               d == done[k - 1]
    <3>1. w \in S /\ part \in Text /\ Canonical(part) /\ IsOutcome(d)
      BY <1>3, <1>4, <1>5, <2>1
    <3>2. SetAbove(w, part, d).ok
      BY <2>2, <2>3
    <3> HIDE DEF w, part, d
    <3>3. d.ok
      BY <3>1, <3>2, AboveReads
    <3> QED
      BY <3>3 DEF d
  <2> QED
    BY <2>1, <2>4
<1>9. 0..end \subseteq B
  <2> HIDE DEF B
  <2> QED
    BY <1>1, <1>7, <1>8, UpTo
<1>10. ASSUME NEW j \in 0..end PROVE done[j].ok
  <2>1. end - j \in 0..end /\ end - (end - j) = j
    BY <1>1
  <2> QED
    BY <1>9, <2>1
<1> QED
  BY <1>10 DEF end, done

\* What is at a node when all is done, and what was there.
NodeReads(segs, n, v, k) ==
    Reads(Setting(segs, n, v)[Len(segs) - 1 - k].node, Way(segs, n)[k], segs[k + 1],
          IF k = Len(segs) - 1 THEN v ELSE Setting(segs, n, v)[Len(segs) - 1 - k - 1].node)

LEMMA AllRead ==
    ASSUME NEW segs \in Seq(Text), segs # <<>>, NEW S, Whole(S), NEW n \in S, NEW v,
           \A k \in 1..Len(segs) - 1 : Canonical(segs[k]),
           Setting(segs, n, v)[Len(segs) - 1].ok,
           NEW k \in 0..Len(segs) - 1, Canonical(segs[k + 1])
    PROVE  NodeReads(segs, n, v, k)
<1> DEFINE end == Len(segs) - 1
           done == Setting(segs, n, v)
           way == Way(segs, n)
<1>0. Len(segs) \in Nat \ {0}
  BY EmptySeq
<1>1. end \in Nat /\ k + 1 \in 1..Len(segs)
  BY <1>0
<1>2. /\ done[0] = SetLast(way[end], segs[end + 1], v)
      /\ \A j \in 1..end : done[j] = SetAbove(way[end - j], segs[end - j + 1], done[j - 1])
  BY <1>0, SettingIs
<1>3. \A j \in 0..end : IsOutcome(done[j])
  BY <1>0, Outcomes
<1>4. way[k] \in S
  BY <1>0, WayIs
<1>5. \A j \in 0..end : done[j].ok
  BY AllDone
<1>6. segs[k + 1] \in Text /\ k \in 0..end
  BY <1>1
<1> HIDE DEF end, done, way
<1> DEFINE w == way[k]
           part == segs[k + 1]
           d == done[end - k]
<1>7. w \in S /\ part \in Text /\ Canonical(part)
  BY <1>4, <1>6
<1>8. CASE k = end
  <2>1. end - k = 0 /\ 0 \in 0..end
    BY <1>1, <1>8
  <2>2. d = SetLast(w, part, v) /\ d.ok
    BY <1>2, <1>5, <1>8, <2>1
  <2> HIDE DEF w, part, d
  <2>3. Reads(d.node, w, part, v)
    BY <1>7, <2>2, LastReads
  <2> QED
    BY <1>8, <2>3 DEF w, part, d, NodeReads, end, done, way
<1>9. CASE k # end
  <2> DEFINE j == end - k
             x == done[j - 1]
  <2>1. j \in 1..end /\ end - j = k /\ j - 1 \in 0..end /\ j \in 0..end
    BY <1>1, <1>6, <1>9
  <2>2. d = SetAbove(w, part, x) /\ d.ok /\ IsOutcome(x)
    <3> HIDE DEF j
    <3>1. done[j] = SetAbove(way[k], segs[k + 1], done[j - 1]) /\ done[j].ok /\ IsOutcome(done[j - 1])
      BY <1>2, <1>3, <1>5, <2>1
    <3> QED
      BY <3>1 DEF j
  <2>3. x = done[end - k - 1]
    OBVIOUS
  <2> HIDE DEF w, part, d, x
  <2>4. Reads(d.node, w, part, x.node)
    BY <1>7, <2>2, AboveReads
  <2> QED
    BY <1>9, <2>3, <2>4 DEF w, part, d, NodeReads, end, done, way
<1> QED
  BY <1>8, <1>9

\* A path that begins like segs leads, in the new document, through the nodes
\* that set has left.
LEMMA WalkBack ==
    ASSUME NEW segs \in Seq(Text), segs # <<>>, NEW S, Whole(S), NEW n \in S, NEW v,
           \A k \in 1..Len(segs) - 1 : Canonical(segs[k]),
           Setting(segs, n, v)[Len(segs) - 1].ok,
           NEW q \in Seq(Text), NEW i \in 0..Len(segs) - 1, Along(q, segs, i),
           NEW U, Whole(U), Setting(segs, n, v)[Len(segs) - 1].node \in U
    PROVE  \A k \in 0..i : Walk(q, Setting(segs, n, v)[Len(segs) - 1].node)[k]
                              = Setting(segs, n, v)[Len(segs) - 1 - k].node
<1> DEFINE end == Len(segs) - 1
           done == Setting(segs, n, v)
           m == done[end].node
           at == Walk(q, m)
           B == {k \in 0..i : at[k] = done[end - k].node}
<1>0. Len(segs) \in Nat \ {0} /\ Len(q) \in Nat /\ i \in Nat /\ i <= Len(q)
  BY EmptySeq DEF Along
<1>1. end \in Nat /\ i <= end
  BY <1>0
<1>2. \A k \in 0..end - 1 : k + 1 \in 1..Len(segs) - 1
  BY <1>0
<1>3. \A k \in 0..end - 1 : NodeReads(segs, n, v, k)
  BY <1>0, <1>2, AllRead
<1>4. at[0] = m /\ \A k \in 1..Len(q) : at[k] = (IF IsNil(at[k - 1]) THEN Nothing ELSE Member(at[k - 1], q[k]))
  BY <1>0, WalkIs
<1>5. ASSUME NEW k \in 0..end - 1
      PROVE  /\ ~IsNil(done[end - k].node)
             /\ Member(done[end - k].node, segs[k + 1]) = done[end - k - 1].node
  <2>1. k # end
    BY <1>1
  <2> QED
    BY <1>3, <2>1 DEF NodeReads, Reads
<1> HIDE DEF end, done, m, at
<1>6. 0 \in B
  <2>1. 0 \in 0..i /\ end - 0 = end
    BY <1>0, <1>1
  <2> QED
    BY <1>4, <2>1 DEF m
<1>7. ASSUME NEW k \in 0..i - 1, k \in B PROVE k + 1 \in B
  <2>1. /\ k + 1 \in 1..Len(q) /\ k + 1 - 1 = k /\ k + 1 \in 0..i /\ k + 1 \in 1..i
        /\ k \in 0..end - 1 /\ end - (k + 1) = end - k - 1
    BY <1>0, <1>1
  <2>2. at[k] = done[end - k].node
    BY <1>7
  <2>3. q[k + 1] = segs[k + 1]
    BY <2>1 DEF Along
  <2>4. at[k + 1] = IF IsNil(at[k]) THEN Nothing ELSE Member(at[k], q[k + 1])
    BY <1>4, <2>1
  <2>5. at[k + 1] = done[end - k - 1].node
    BY <1>5, <2>1, <2>2, <2>3, <2>4
  <2> QED
    BY <2>1, <2>5
<1>8. 0..i \subseteq B
  <2> HIDE DEF B
  <2> QED
    BY <1>0, <1>6, <1>7, UpTo
<1> QED
  BY <1>8 DEF end, done, m, at

\* Before the set, it leads through the nodes of the way, as far as there are any.
Instead(w, x, part) == w = x \/ (IsNil(x) /\ w = NewAncestor(part))

LEMMA NilMember == \A n, k : IsNil(n) => Member(n, k) = Nothing
BY DEF IsNil, Member, Nothing, Scalar

LEMMA WalkWay ==
    ASSUME NEW segs \in Seq(Text), segs # <<>>, NEW S, Whole(S), NEW n \in S,
           NEW q \in Seq(Text), NEW i \in 0..Len(segs) - 1, Along(q, segs, i)
    PROVE  \A k \in 0..i : Instead(Way(segs, n)[k], Walk(q, n)[k], segs[k + 1])
<1> DEFINE end == Len(segs) - 1
           way == Way(segs, n)
           at == Walk(q, n)
           B == {k \in 0..i : Instead(way[k], at[k], segs[k + 1])}
<1>0. Len(segs) \in Nat \ {0} /\ Len(q) \in Nat /\ i \in Nat /\ i <= Len(q)
  BY EmptySeq DEF Along
<1>1. end \in Nat /\ i <= end
  BY <1>0
<1>2. way[0] = n /\ \A k \in 1..end : way[k] = NextNode(way[k - 1], segs[k], segs[k + 1])
  BY <1>0, WayIs
<1>3. at[0] = n /\ \A k \in 1..Len(q) : at[k] = (IF IsNil(at[k - 1]) THEN Nothing ELSE Member(at[k - 1], q[k]))
  BY <1>0, WalkIs
<1> HIDE DEF end, way, at
<1>4. 0 \in B
  BY <1>0, <1>2, <1>3 DEF Instead
<1>5. ASSUME NEW k \in 0..i - 1, k \in B PROVE k + 1 \in B
  <2>1. /\ k + 1 \in 1..Len(q) /\ k + 1 - 1 = k /\ k + 1 \in 0..i /\ k + 1 \in 1..i
        /\ k + 1 \in 1..end
    BY <1>0, <1>1
  <2> DEFINE w == way[k]
             x == at[k]
             part == segs[k + 1]
             next == segs[k + 1 + 1]
  <2>2. Instead(w, x, part)
    BY <1>5
  <2>3. q[k + 1] = part
    BY <2>1 DEF Along
  <2>4. at[k + 1] = IF IsNil(x) THEN Nothing ELSE Member(x, part)
    BY <1>3, <2>1, <2>3
  <2>5. way[k + 1] = NextNode(w, part, next)
    BY <1>2, <2>1
  <2> DEFINE y == at[k + 1]
             z == way[k + 1]
  <2>6. y = (IF IsNil(x) THEN Nothing ELSE Member(x, part)) /\ z = NextNode(w, part, next)
    BY <2>4, <2>5
  <2> HIDE DEF w, x, part, next, y, z
  <2>7. Instead(z, y, next)
    <3>1. CASE w = x /\ ~IsNil(x)
      BY <2>6, <3>1 DEF Instead, NextNode
    <3>2. CASE w = x /\ IsNil(x)
      BY <2>6, <3>2, NilMember, NothingIsNil DEF Instead, NextNode
    <3>3. CASE IsNil(x) /\ w = NewAncestor(part)
      <4>1. Member(w, part) = Nothing
        BY <3>3, AncestorIs
      <4> QED
        BY <2>6, <3>3, <4>1, NothingIsNil DEF Instead, NextNode
    <3> QED
      BY <2>2, <3>1, <3>2, <3>3 DEF Instead
  <2> QED
    BY <2>1, <2>7 DEF y, z, next
<1>6. 0..i \subseteq B
  <2> HIDE DEF B
  <2> QED
    BY <1>0, <1>4, <1>5, UpTo
<1> QED
  BY <1>6 DEF way, at

-----------------------------------------------------------------------------
\* What "-" adds

LEMMA Added ==
    ASSUME NEW S, Whole(S), NEW w \in S, NEW v, w.t # "object", Assign(w, <<"-">>, v).ok
    PROVE  LET new == Assign(w, <<"-">>, v).node
           IN /\ w.t = "array" /\ new.t = "array" /\ new.f[new.len - 1] = v
              /\ new.len = w.len + 1 /\ \A k \in DOMAIN w.f : new.f[k] = w.f[k]
<1> DEFINE new == Assign(w, <<"-">>, v).node
<1>1. w.t # "scalar"
  BY DoneIs DEF Assign
<1>2. PICK f : \E l \in Nat : w = Array(f, l) /\ w.t = "array" /\ DOMAIN f \subseteq 0..l - 1
  BY <1>1, ValueIs
<1>3. PICK l \in Nat : w = Array(f, l) /\ w.t = "array" /\ DOMAIN f \subseteq 0..l - 1
  BY <1>2
<1>4. w.f = f /\ w.len = l
  BY <1>3 DEF Array
<1>5. new = PutIndex(w, l, v)
  BY <1>3, <1>4, DoneIs DEF Assign
<1> DEFINE g == With(f, l, v)
<1>6. g[l] = v /\ \A k \in DOMAIN f \ {l} : g[k] = f[k]
  BY DEF With
<1>7. PutIndex(Array(f, l), l, v) = Array(g, IF l >= l THEN l + 1 ELSE l)
  BY PutIndexIs
<1> HIDE DEF g, new
<1>8. new = Array(g, l + 1)
  BY <1>3, <1>5, <1>7
<1>9. new.t = "array" /\ new.f = g /\ new.len = l + 1
  BY <1>8 DEF Array
<1>10. l \notin DOMAIN f /\ l + 1 - 1 = l
  BY <1>3
<1>11. new.f[new.len - 1] = v
  BY <1>6, <1>9, <1>10
<1>12. new.len = w.len + 1
  BY <1>4, <1>9
<1>13. \A k \in DOMAIN w.f : new.f[k] = w.f[k]
  BY <1>4, <1>6, <1>9, <1>10
<1> QED
  BY <1>3, <1>9, <1>11, <1>12, <1>13 DEF new

LEMMA EmptyArrayIs == EmptyArray.t = "array" /\ EmptyArray.t # "object"
BY DEF EmptyArray, Array

\* "-" adds to the end of the array that is there, or makes one; what is at a
\* new ancestor is read back like the rest.
THEOREM AppendKeepsAlways == JsonSpec => []AppendKeeps
<1>1. IsTree(doc) => AppendKeeps
  <2> SUFFICES ASSUME IsTree(doc), NEW p \in CanonicalPaths, NEW v \in Fragments \ {Nothing},
                      set(Append(p, <<"-">>), doc, v).ok, get(p, doc).t # "object"
               PROVE  LET r == set(Append(p, <<"-">>), doc, v)
                          old == get(p, doc)
                          new == get(p, r.node)
                      IN /\ new.t = "array" /\ new.f[new.len - 1] = v
                         /\ old.t = "array" =>
                              new.len = old.len + 1 /\ \A k \in DOMAIN old.f : new.f[k] = old.f[k]
    BY DEF AppendKeeps
  <2> DEFINE minus == <<"-">>
             segs == Append(p, minus)
             r == set(segs, doc, v)
             old == get(p, doc)
             new == get(p, r.node)
  <2>1. p \in Seq(Text) /\ p # <<>> /\ \A k \in 1..Len(p) : Canonical(p[k])
    BY CompiledIs DEF CanonicalPaths
  <2>2. PICK l \in Nat \ {0} : l = Len(p)
    BY <2>1, EmptySeq, LenProperties
  <2>3. minus \in Text
    BY JsonAssumption DEF Signs, Text
  <2>4. /\ segs \in Seq(Text) /\ Len(segs) = l + 1 /\ segs[l + 1] = minus
        /\ \A k \in 1..l : segs[k] = p[k]
    <3> HIDE DEF minus
    <3> QED
      BY <2>1, <2>2, <2>3, AppendProperties
  <2>5. PICK S : Whole(S) /\ doc \in S
    BY DEF IsTree
  <2> HIDE DEF segs
  <2>6. segs # <<>> /\ Len(segs) \in Nat \ {0} /\ Len(segs) - 1 = l
    <3>1. Len(segs) # 0 /\ Len(segs) \in Nat \ {0} /\ Len(segs) - 1 = l
      BY <2>2, <2>4
    <3> QED
      BY <2>4, <3>1, EmptySeq
  <2> DEFINE done == Setting(segs, doc, v)
             way == Way(segs, doc)
  <2>7. r = done[l] /\ done[Len(segs) - 1].ok /\ r = done[Len(segs) - 1]
    BY <2>6 DEF set, segs
  <2>8. PICK U : Whole(U) /\ r.node \in U
    BY <2>4, <2>6, SetTree DEF IsTree
  <2>9. \A k \in 1..Len(segs) - 1 : Canonical(segs[k])
    BY <2>1, <2>2, <2>4, <2>6
  <2>10. l \in 0..Len(segs) - 1 /\ Along(p, segs, l)
    BY <2>2, <2>4, <2>6 DEF Along
  <2>11. 0 \in 0..Len(segs) - 1 /\ l \in 0..l /\ Len(segs) - 1 - l = 0
    BY <2>6
  <2>12. \A k \in 0..l : Walk(p, done[Len(segs) - 1].node)[k] = done[Len(segs) - 1 - k].node
    <3>1. Setting(segs, doc, v)[Len(segs) - 1].ok /\ Setting(segs, doc, v)[Len(segs) - 1].node \in U
      BY <2>7, <2>8
    <3>2. segs \in Seq(Text) /\ segs # <<>> /\ p \in Seq(Text)
      BY <2>1, <2>4, <2>6
    <3> HIDE DEF r
    <3> QED
      BY <2>5, <2>8, <2>9, <2>10, <3>1, <3>2, WalkBack
  <2>13. new = done[0].node
    <3>1. new = Walk(p, done[Len(segs) - 1].node)[l]
      BY <2>2, <2>7 DEF get
    <3> HIDE DEF done, new
    <3> QED
      BY <2>11, <2>12, <3>1
  <2>14. done[0].ok
    BY <2>4, <2>5, <2>6, <2>7, <2>9, <2>11, AllDone
  <2>15. done[0] = SetLast(way[l], segs[l + 1], v)
    BY <2>6, SettingIs
  <2>16. done[0] = Assign(way[l], minus, v)
    BY <2>4, <2>15 DEF SetLast
  <2>17. Instead(way[l], Walk(p, doc)[l], segs[l + 1])
    BY <2>1, <2>4, <2>5, <2>6, <2>10, <2>11, WalkWay
  <2>18. old = Walk(p, doc)[l]
    BY <2>2 DEF get
  <2>19. way[l] \in S
    BY <2>5, <2>6, <2>11, WayIs
  <2> HIDE DEF done, way, new, old
  <2>20. CASE way[l] = old
    <3>1. way[l].t # "object" /\ Assign(way[l], <<"-">>, v).ok
      BY <2>14, <2>16, <2>20 DEF old
    <3> QED
      BY <2>5, <2>13, <2>16, <2>19, <2>20, <3>1, Added DEF new, old, r, segs
  <2>21. CASE IsNil(old) /\ way[l] = NewAncestor(minus)
    <3>1. way[l].t # "object" /\ Assign(way[l], <<"-">>, v).ok
      BY <2>14, <2>16, <2>21, EmptyArrayIs DEF NewAncestor
    <3>2. old.t # "array"
      BY <2>21 DEF IsNil, Nothing, Scalar
    <3>3. new.t = "array" /\ new.f[new.len - 1] = v
      BY <2>5, <2>13, <2>16, <2>19, <3>1, Added
    <3> QED
      BY <3>2, <3>3 DEF new, old, r, segs
  <2> QED
    BY <2>4, <2>17, <2>18, <2>20, <2>21 DEF Instead
<1> QED
  BY <1>1, DocumentIsTree, PTL

-----------------------------------------------------------------------------
\* What is set, and what is not

\* Two paths of which none goes on with the other part somewhere.
LEMMA PartSomewhere ==
    ASSUME NEW p \in Seq(Text), NEW q \in Seq(Text), ~IsPrefix(p, q), ~IsPrefix(q, p)
    PROVE  \E i \in Nat : i < Len(p) /\ i < Len(q) /\ Along(q, p, i) /\ q[i + 1] # p[i + 1]
<1>1. PICK n \in Nat, m \in Nat : n = Len(p) /\ m = Len(q)
  BY LenProperties
<1> SUFFICES ASSUME \A i \in Nat : i < n /\ i < m /\ Along(q, p, i) => q[i + 1] = p[i + 1]
             PROVE  FALSE
  BY <1>1
<1> DEFINE e == IF n <= m THEN n ELSE m
           S == {i \in 0..e : Along(q, p, i)}
<1>2. e \in Nat /\ e <= n /\ e <= m
  OBVIOUS
<1> HIDE DEF e
<1>3. 0 \in S
  BY <1>1, <1>2 DEF Along
<1>4. ASSUME NEW i \in 0..e - 1, i \in S PROVE i + 1 \in S
  <2>1. i \in Nat /\ i < n /\ i < m /\ i + 1 \in 0..e /\ i + 1 <= m
    BY <1>2
  <2>2. Along(q, p, i)
    BY <1>4
  <2>3. q[i + 1] = p[i + 1]
    BY <2>1, <2>2
  <2>4. \A k \in 1..i + 1 : k \in 1..i \/ k = i + 1
    BY <2>1
  <2>5. Along(q, p, i + 1)
    BY <1>1, <2>1, <2>2, <2>3, <2>4 DEF Along
  <2> QED
    BY <2>1, <2>5
<1>5. Along(q, p, e)
  <2>1. 0..e \subseteq S
    <3> HIDE DEF S
    <3> QED
      BY <1>2, <1>3, <1>4, UpTo
  <2>2. e \in 0..e
    BY <1>2
  <2> QED
    BY <2>1, <2>2
<1>6. \A k \in 1..e : q[k] = p[k]
  BY <1>5 DEF Along
<1>7. SubSeq(p, 1, e) = SubSeq(q, 1, e)
  <2>1. \A k \in 1..e : p[k] \in Text
    BY <1>1, <1>2
  <2>2. \A k \in 1..e : q[k] \in Text
    BY <1>1, <1>2
  <2>3. /\ SubSeq(p, 1, e) \in Seq(Text) /\ Len(SubSeq(p, 1, e)) = e
        /\ \A k \in 1..e : SubSeq(p, 1, e)[k] = p[k]
    BY <1>2, <2>1, SubSeqProperties
  <2>4. /\ SubSeq(q, 1, e) \in Seq(Text) /\ Len(SubSeq(q, 1, e)) = e
        /\ \A k \in 1..e : SubSeq(q, 1, e)[k] = q[k]
    BY <1>2, <2>2, SubSeqProperties
  <2> DEFINE a == SubSeq(p, 1, e)
             b == SubSeq(q, 1, e)
  <2>5. /\ a \in Seq(Text) /\ b \in Seq(Text) /\ Len(a) = e /\ Len(b) = e
        /\ \A k \in 1..e : a[k] = p[k] /\ b[k] = q[k]
    BY <2>3, <2>4
  <2> HIDE DEF a, b
  <2>6. a = b
    BY <1>6, <2>5, SeqEqual
  <2> QED
    BY <2>6 DEF a, b
<1>8. CASE n <= m
  BY <1>1, <1>7, <1>8 DEF e, IsPrefix
<1>9. CASE ~(n <= m)
  <2>1. m <= n /\ e = m
    BY <1>1, <1>9 DEF e
  <2> QED
    BY <1>1, <1>7, <2>1 DEF IsPrefix
<1> QED
  BY <1>8, <1>9

\* From the same node on, the same is read.
LEMMA SameOn ==
    ASSUME NEW q, Len(q) \in Nat, NEW S, Whole(S), NEW n \in S, NEW U, Whole(U), NEW m \in U,
           NEW i \in 0..Len(q), Walk(q, m)[i] = Walk(q, n)[i]
    PROVE  get(q, m) = get(q, n)
<1> DEFINE a == Walk(q, m)
           b == Walk(q, n)
           l == Len(q) - i
           B == {k \in 0..l : a[i + k] = b[i + k]}
<1>1. \A k \in 1..Len(q) : a[k] = (IF IsNil(a[k - 1]) THEN Nothing ELSE Member(a[k - 1], q[k]))
  BY WalkIs
<1>2. \A k \in 1..Len(q) : b[k] = (IF IsNil(b[k - 1]) THEN Nothing ELSE Member(b[k - 1], q[k]))
  BY WalkIs
<1>3. l \in Nat /\ i + l = Len(q) /\ i \in Nat /\ i + 0 = i
  OBVIOUS
<1>4. a[i] = b[i]
  OBVIOUS
<1> HIDE DEF a, b, l
<1>5. 0 \in B
  BY <1>3, <1>4
<1>6. ASSUME NEW k \in 0..l - 1, k \in B PROVE k + 1 \in B
  <2>1. i + (k + 1) \in 1..Len(q) /\ i + (k + 1) - 1 = i + k /\ k + 1 \in 0..l
    BY <1>3
  <2>2. a[i + k] = b[i + k]
    BY <1>6
  <2> DEFINE j == i + (k + 1)
             h == i + k
  <2>3. j \in 1..Len(q) /\ j - 1 = h /\ a[h] = b[h]
    BY <2>1, <2>2
  <2> HIDE DEF j, h
  <2>4. a[j] = b[j]
    BY <1>1, <1>2, <2>3
  <2> QED
    BY <2>1, <2>4 DEF j
<1>7. l \in B
  <2> HIDE DEF B
  <2>1. 0..l \subseteq B
    BY <1>3, <1>5, <1>6, UpTo
  <2> QED
    BY <1>3, <2>1
<1>8. a[Len(q)] = b[Len(q)]
  BY <1>3, <1>7
<1> QED
  BY <1>8 DEF a, b, get

\* What a set through p leaves is read back, and the rest is as it was.
LEMMA SetReads ==
    ASSUME NEW p \in Seq(Text), p # <<>>, \A k \in 1..Len(p) : Canonical(p[k]),
           IsTree(doc), NEW v \in Fragments, set(p, doc, v).ok
    PROVE  /\ get(p, set(p, doc, v).node) = v
           /\ \A q \in Seq(Text) :
                 ~IsPrefix(p, q) /\ ~IsPrefix(q, p) => get(q, set(p, doc, v).node) = get(q, doc)
<1> DEFINE end == Len(p) - 1
           done == Setting(p, doc, v)
           way == Way(p, doc)
           m == done[end].node
<1>1. PICK l \in Nat \ {0} : l = Len(p)
  BY EmptySeq, LenProperties
<1>2. end = l - 1 /\ end \in Nat /\ end \in 0..end
  BY <1>1
<1>3. set(p, doc, v) = done[end] /\ done[end].ok
  BY DEF set
<1>4. PICK S : Whole(S) /\ doc \in S
  BY DEF IsTree
<1>5. PICK U : Whole(U) /\ m \in U
  BY <1>3, SetTree DEF IsTree
<1>6. /\ \A k \in 1..Len(p) - 1 : Canonical(p[k])
      /\ \A k \in 0..Len(p) - 1 : Canonical(p[k + 1])
  BY <1>1
<1>7. \A k \in 0..end : NodeReads(p, doc, v, k)
  BY <1>3, <1>4, <1>6, AllRead
<1>8. ASSUME NEW q \in Seq(Text), NEW i \in 0..end, Along(q, p, i)
      PROVE  /\ Walk(q, m)[i] = done[end - i].node
             /\ Instead(way[i], Walk(q, doc)[i], p[i + 1])
  <2>1. i \in 0..Len(p) - 1 /\ i \in 0..i
    BY <1>2
  <2>2. \A k \in 0..i : Walk(q, m)[k] = done[end - k].node
    BY <1>3, <1>4, <1>5, <1>6, <1>8, <2>1, WalkBack
  <2>3. \A k \in 0..i : Instead(way[k], Walk(q, doc)[k], p[k + 1])
    BY <1>4, <1>8, <2>1, WalkWay
  <2> QED
    BY <2>1, <2>2, <2>3
<1>9. get(p, m) = v
  <2>1. Along(p, p, end)
    BY <1>1, <1>2 DEF Along
  <2>2. Walk(p, m)[end] = done[end - end].node
    BY <1>2, <1>8, <2>1
  <2>3. NodeReads(p, doc, v, end)
    BY <1>2, <1>7
  <2>4. ~IsNil(done[end - end].node) /\ Member(done[end - end].node, p[end + 1]) = v
    BY <2>3 DEF NodeReads, Reads
  <2>5. Walk(p, m)[l] = (IF IsNil(Walk(p, m)[l - 1]) THEN Nothing ELSE Member(Walk(p, m)[l - 1], p[l]))
    <3>1. l \in 1..Len(p) /\ Len(p) \in Nat
      BY <1>1
    <3> HIDE DEF m
    <3> QED
      BY <1>5, <3>1, WalkIs
  <2>6. l - 1 = end /\ end + 1 = l
    BY <1>2
  <2> HIDE DEF m, end, done
  <2>7. Walk(p, m)[l] = v
    BY <2>2, <2>4, <2>5, <2>6
  <2> QED
    BY <1>1, <2>7 DEF get
<1>10. ASSUME NEW q \in Seq(Text), ~IsPrefix(p, q), ~IsPrefix(q, p)
       PROVE  get(q, m) = get(q, doc)
  <2>1. PICK i \in Nat : i < Len(p) /\ i < Len(q) /\ Along(q, p, i) /\ q[i + 1] # p[i + 1]
    BY <1>10, PartSomewhere
  <2>2. /\ i \in 0..end /\ Len(q) \in Nat /\ i + 1 \in 1..Len(q) /\ i + 1 \in 0..Len(q)
        /\ i + 1 - 1 = i /\ i + 1 \in 1..Len(p)
    BY <1>1, <1>2, <2>1, LenProperties
  <2> DEFINE x == Walk(q, doc)[i]
             y == done[end - i].node
             w == way[i]
             a == q[i + 1]
             b == p[i + 1]
  <2>3. Walk(q, m)[i] = y /\ Instead(w, x, b)
    BY <1>8, <2>1, <2>2
  <2>4. a \in Text /\ b \in Text /\ a # b
    BY <2>1, <2>2
  <2>5. ~IsNil(y) /\ Member(y, a) = Member(w, a)
    <3> HIDE DEF a, b, m, x
    <3>1. NodeReads(p, doc, v, i)
      BY <1>7, <2>2
    <3> QED
      BY <2>4, <3>1 DEF NodeReads, Reads, a, b
  <2>6. Walk(q, m)[i + 1] = (IF IsNil(Walk(q, m)[i]) THEN Nothing ELSE Member(Walk(q, m)[i], a))
    <3> HIDE DEF m
    <3>1. \A k \in 1..Len(q) : Walk(q, m)[k]
             = (IF IsNil(Walk(q, m)[k - 1]) THEN Nothing ELSE Member(Walk(q, m)[k - 1], q[k]))
      BY <1>5, <2>2, WalkIs
    <3> QED
      BY <2>2, <3>1
  <2>7. Walk(q, doc)[i + 1] = (IF IsNil(x) THEN Nothing ELSE Member(x, a))
    <3>1. \A k \in 1..Len(q) : Walk(q, doc)[k]
             = (IF IsNil(Walk(q, doc)[k - 1]) THEN Nothing ELSE Member(Walk(q, doc)[k - 1], q[k]))
      BY <1>4, <2>2, WalkIs
    <3> QED
      BY <2>2, <3>1
  <2> HIDE DEF x, y, w, a, b, m
  <2>8. Member(w, a) = (IF IsNil(x) THEN Nothing ELSE Member(x, a))
    <3>1. CASE w = x
      BY <3>1, NilMember
    <3>2. CASE IsNil(x) /\ w = NewAncestor(b)
      BY <3>2, AncestorIs
    <3> QED
      BY <2>3, <3>1, <3>2 DEF Instead
  <2>9. Walk(q, m)[i + 1] = Walk(q, doc)[i + 1]
    BY <2>3, <2>5, <2>6, <2>7, <2>8
  <2> QED
    BY <1>4, <1>5, <2>2, <2>9, SameOn
<1> QED
  BY <1>3, <1>9, <1>10

\* What is set through a pointer once it has been printed and parsed is read back
\* by notCompiledGet, whatever its segments contain, and by the compiled get,
\* unless a segment has a line break; and nothing else is changed.
THEOREM SetThenGetAlways == JsonSpec => []SetThenGet
<1>1. IsTree(doc) => SetThenGet
  <2> SUFFICES ASSUME IsTree(doc), NEW p \in CanonicalPaths, NEW v \in Fragments,
                      NEW segs \in Compiled[p], set(segs, doc, v).ok
               PROVE  /\ get(p, set(segs, doc, v).node) = v
                      /\ OneLine(p) => compiledGet(p, set(segs, doc, v).node) = Done(v)
                      /\ \A q \in Apart(p) : get(q, set(segs, doc, v).node) = get(q, doc)
    BY DEF SetThenGet
  <2>1. p \in Paths /\ p \in Seq(Text) /\ p # <<>> /\ segs = p /\ \A k \in 1..Len(p) : Canonical(p[k])
    BY CompiledIs DEF CanonicalPaths
  <2>2. /\ get(p, set(p, doc, v).node) = v
        /\ \A q \in Seq(Text) :
              ~IsPrefix(p, q) /\ ~IsPrefix(q, p) => get(q, set(p, doc, v).node) = get(q, doc)
    BY <2>1, SetReads
  <2>3. OneLine(p) => compiledGet(p, set(p, doc, v).node) = Done(v)
    BY <2>1, <2>2, CompiledGetIs
  <2>4. \A q \in Apart(p) : q \in Seq(Text) /\ ~IsPrefix(p, q) /\ ~IsPrefix(q, p)
    BY CompiledIs DEF Apart
  <2> QED
    BY <2>1, <2>2, <2>3, <2>4
<1> QED
  BY <1>1, DocumentIsTree, PTL
=============================================================================
