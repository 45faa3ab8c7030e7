---------------------------- MODULE ContextTree ----------------------------
(* ContinuationLocalStorage of asyncctx: a tree of asynchronous resources,  *)
(* kept up to date by the init, before, after and destroy hooks of node, in *)
(* which a resource inherits the context of what has triggered it.  The     *)
(* tree is pruned as soon as a resource starts; the history variables keep  *)
(* the whole of it, to tell what every resource has to see.                 *)
EXTENDS Naturals, Sequences

CONSTANTS
    MaxId,         \* bound on the resources node creates
    Values,        \* contexts (truthy)
    None,
    Nested,        \* may a resource run inside another one (runInAsyncScope)
    LateTriggers,  \* may a destroyed resource trigger others
    MaxToggles     \* bound on the calls of enable, disable and dispose

Root == 1      \* ROOT_ID, the main program
Ids == 1..MaxId

ASSUME TreeAssumption ==
    /\ MaxId \in Nat \ {0} /\ MaxToggles \in Nat
    /\ None \notin Values /\ Nested \in BOOLEAN /\ LateTriggers \in BOOLEAN

VARIABLES
    enabled,     \* does node call the hooks
    idHookMap,   \* the registered resources
    hook,        \* their HookInfo; triggerHook 0 is undefined
    currId,
    last,        \* node: the last id given to a resource
    stack,       \* node: the resources whose callbacks are running
    gone,        \* node: the destroyed resources
    toggles,
    known,       \* history: resources created since the hooks were enabled
    trigger,     \* history: what has triggered them
    ran,         \* history: those that have started
    value        \* history: their contexts

cls == <<enabled, idHookMap, hook, currId>>
node == <<last, stack, gone, toggles>>
history == <<known, trigger, ran, value>>
vars == <<cls, node, history>>

HookInfo == [triggerHook : 0..MaxId, activated : BOOLEAN, data : Values \cup {None}]
NoHook == [triggerHook |-> 0, activated |-> FALSE, data |-> None]
RootHook(v) == [triggerHook |-> 0, activated |-> TRUE, data |-> v]

TypeOK ==
    /\ enabled \in BOOLEAN /\ idHookMap \subseteq Ids
    /\ hook \in [Ids -> HookInfo] /\ currId \in Ids
    /\ last \in Ids /\ stack \in Seq(Ids) /\ gone \subseteq Ids
    /\ toggles \in 0..MaxToggles
    /\ known \subseteq Ids /\ trigger \in [Ids -> 0..MaxId] /\ ran \subseteq known
    /\ value \in [Ids -> Values \cup {None}]

\* the constructor has enabled the hooks
Init ==
    /\ enabled = TRUE /\ idHookMap = {Root} /\ currId = Root
    /\ hook = [i \in Ids |-> IF i = Root THEN RootHook(None) ELSE NoHook]
    /\ last = Root /\ stack = <<>> /\ gone = {} /\ toggles = 0
    /\ known = {Root} /\ trigger = [i \in Ids |-> 0] /\ ran = {Root}
    /\ value = [i \in Ids |-> None]

-----------------------------------------------------------------------------
\* What a resource has to see

\* the resource whose running callback executes the program now
Top == IF stack = <<>> THEN Root ELSE stack[Len(stack)]

\* whose context a resource is in: its own once it has started, else that of
\* what has triggered it; the root's for resources nobody has seen coming
Owner[i \in Ids] ==
    IF i \notin known THEN Root ELSE IF i \in ran THEN i ELSE Owner[trigger[i]]

-----------------------------------------------------------------------------
\* The hooks

\* init: a resource is created, triggered by t
Create(t) ==
    LET id == last + 1 IN
    /\ last < MaxId /\ last' = id
    /\ t \in 1..last /\ (t \in gone => LateTriggers)
    /\ IF enabled
       THEN /\ idHookMap' = idHookMap \cup {id}
            /\ hook' = [hook EXCEPT ![id] =
                  [triggerHook |-> IF t \in idHookMap THEN t ELSE Root,
                   activated |-> FALSE, data |-> None]]
            /\ known' = known \cup {id}
            /\ trigger' = [trigger EXCEPT ![id] = IF t \in known THEN t ELSE Root]
       ELSE UNCHANGED <<idHookMap, hook, known, trigger>>
    /\ UNCHANGED <<enabled, currId, stack, gone, toggles, ran, value>>

\* where the chain of triggers ends, the root
findActivatedNode[i \in Ids] ==
    IF hook[i].activated THEN i
    ELSE IF hook[i].triggerHook = 0 THEN Root
    ELSE findActivatedNode[hook[i].triggerHook]

\* mutant: the context of the direct trigger is taken, started or not
ActivatedByTrigger(id) ==
    IF hook[id].activated THEN hook[id] ELSE RootHook(hook[hook[id].triggerHook].data)

\* mutant: the link to the trigger is kept
ActivatedLinked(id) ==
    IF hook[id].activated THEN hook[id]
    ELSE [hook[id] EXCEPT !.activated = TRUE, !.data = hook[findActivatedNode[id]].data]

\* it takes over the context, and the link to the trigger is cut
Activated(id) == RootHook(hook[findActivatedNode[id]].data)

\* before: a callback of the resource starts
Before(id) ==
    /\ id \in 2..last \ gone
    /\ stack = <<>> \/ Nested
    /\ \A k \in 1..Len(stack) : stack[k] # id
    /\ stack' = Append(stack, id)
    /\ IF enabled /\ id \in idHookMap
       THEN /\ currId' = id /\ hook' = [hook EXCEPT ![id] = Activated(id)]
            /\ ran' = ran \cup {id} /\ value' = [value EXCEPT ![id] = value[Owner[id]]]
       ELSE /\ currId' = IF enabled THEN Root ELSE currId
            /\ UNCHANGED <<hook, ran, value>>
    /\ UNCHANGED <<enabled, idHookMap, last, gone, toggles, known, trigger>>

\* after: it ends
After ==
    /\ stack # <<>> /\ stack' = SubSeq(stack, 1, Len(stack) - 1)
    /\ currId' = IF enabled /\ Top = currId THEN Root ELSE currId
    /\ UNCHANGED <<enabled, idHookMap, hook, last, gone, toggles, history>>

\* destroy: node reports destroyed resources when nothing is running
Destroy(id) ==
    /\ stack = <<>> /\ id \in 2..last \ gone
    /\ gone' = gone \cup {id}
    /\ idHookMap' = IF enabled THEN idHookMap \ {id} ELSE idHookMap
    /\ UNCHANGED <<enabled, hook, currId, last, stack, toggles, history>>

-----------------------------------------------------------------------------
\* The operations

getContext == IF currId \in idHookMap THEN hook[currId].data ELSE None

\* it throws where the current resource is not registered; while the hooks are
\* disabled nothing tells which resource is running
SetContext(v) ==
    /\ currId \in idHookMap
    /\ hook' = [hook EXCEPT ![currId].data = v]
    /\ value' = [value EXCEPT ![IF enabled THEN Owner[Top] ELSE currId] = v]
    /\ UNCHANGED <<enabled, idHookMap, currId, node, known, trigger, ran>>

SetRootContext(v) ==
    /\ Root \in idHookMap
    /\ hook' = [hook EXCEPT ![Root].data = v]
    /\ value' = [value EXCEPT ![Root] = v]
    /\ UNCHANGED <<enabled, idHookMap, currId, node, known, trigger, ran>>

Toggle == toggles < MaxToggles /\ toggles' = toggles + 1

\* the map is made anew, with the root's context; it throws after dispose
Enable ==
    /\ Toggle /\ Root \in idHookMap
    /\ enabled' = TRUE /\ idHookMap' = {Root} /\ currId' = Root
    /\ hook' = [i \in Ids |-> IF i = Root THEN RootHook(hook[Root].data) ELSE NoHook]
    /\ known' = {Root} /\ ran' = {Root}
    /\ trigger' = [i \in Ids |-> 0]
    /\ value' = [i \in Ids |-> IF i = Root THEN value[Root] ELSE None]
    /\ UNCHANGED <<last, stack, gone>>

Disable ==
    /\ Toggle /\ enabled' = FALSE
    /\ UNCHANGED <<idHookMap, hook, currId, last, stack, gone, history>>

Dispose ==
    /\ Toggle /\ enabled' = FALSE /\ idHookMap' = {}
    /\ UNCHANGED <<hook, currId, last, stack, gone, history>>

-----------------------------------------------------------------------------
Next ==
    \/ \E t \in Ids : Create(t)
    \/ \E id \in Ids : Before(id) \/ Destroy(id)
    \/ After
    \/ \E v \in Values : SetContext(v) \/ SetRootContext(v)
    \/ Enable \/ Disable \/ Dispose

Spec == Init /\ [][Next]_vars

-----------------------------------------------------------------------------
\* Properties

\* The program always finds the context of the resource it runs in: its own
\* one, or what it has inherited from the nearest ancestor that had started,
\* however much of the tree between them has been destroyed or pruned.
OwnContext == enabled => getContext = value[Owner[Top]]

\* the hooks that stay in memory: registered ones, and what they lead to
leadsTo[i \in Ids] ==
    {i} \cup IF hook[i].triggerHook = 0 THEN {} ELSE leadsTo[hook[i].triggerHook]
Held == UNION {leadsTo[i] : i \in idHookMap}

\* A destroyed resource is held in memory only for descendants that have not
\* started yet, so a chain of timers or promises does not grow for ever.
OnlyPendingHold ==
    \A g \in gone : enabled /\ g \in Held =>
        \E i \in idHookMap : ~hook[i].activated /\ g \in leadsTo[i]
=============================================================================
