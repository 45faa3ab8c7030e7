---------------------------- MODULE SessionLease ----------------------------
(* What the connection pool promises to the application, without the pool:  *)
(* a native session is leased to one holder at a time, and a lease starts   *)
(* with a session that carries no transaction of an earlier holder.         *)
CONSTANTS Sessions, Holders, None

ASSUME LeaseAssumption == None \notin Holders

VARIABLES
    holder,   \* the holder of every session, None when nobody has leased it
    unclean   \* the sessions with an open transaction

leaseVars == <<holder, unclean>>

LeaseInit == holder = [s \in Sessions |-> None] /\ unclean = {}

\* x gets the free and clean session s
Lease(s, x) ==
    /\ holder[s] = None /\ s \notin unclean
    /\ holder' = [holder EXCEPT ![s] = x]
    /\ UNCHANGED unclean

\* the holder of s begins or ends a transaction
Work(s) ==
    /\ holder[s] # None
    /\ unclean' = IF s \in unclean THEN unclean \ {s} ELSE unclean \cup {s}
    /\ UNCHANGED holder

\* sessions are given back or taken away, and sessions nobody holds are
\* cleaned, any time before they are leased again
GiveBack ==
    /\ holder' \in [Sessions -> Holders \cup {None}]
    /\ \A s \in Sessions : holder'[s] \in {holder[s], None}
    /\ unclean' \subseteq unclean
    /\ \A s \in unclean : holder'[s] # None => s \in unclean'

LeaseNext ==
    \/ \E s \in Sessions, x \in Holders : Lease(s, x)
    \/ \E s \in Sessions : Work(s)
    \/ GiveBack

LeaseSpec == LeaseInit /\ [][LeaseNext]_leaseVars
=============================================================================
