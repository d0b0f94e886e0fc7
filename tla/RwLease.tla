------------------------------ MODULE RwLease ------------------------------
(***************************************************************************)
(* What InstanceLockManager promises about every instance, whatever its    *)
(* queue, tokens, clocks and callers do: an exclusive lease excludes every *)
(* other lease, observer leases coexist, and a lease is granted only when  *)
(* it is compatible with the leases in force.                              *)
(* (docs.rs, "Lock Types": "Only one session can hold an exclusive lock.   *)
(* [...] Multiple observers can coexist with each other, but not with an   *)
(* exclusive lock.")                                                       *)
(***************************************************************************)
CONSTANTS Sessions, Instances, NoHolder

VARIABLES
    exclusive,  \* the session that holds the exclusive lease, if any
    observers   \* the sessions that hold an observer lease

vars == <<exclusive, observers>>

Init ==
    /\ exclusive = [i \in Instances |-> NoHolder]
    /\ observers = [i \in Instances |-> {}]

\* A session that observes alone may upgrade.
GrantExclusive(s, i) ==
    /\ exclusive[i] = NoHolder /\ observers[i] \subseteq {s}
    /\ exclusive' = [exclusive EXCEPT ![i] = s]
    /\ observers' = [observers EXCEPT ![i] = {}]

GrantObserver(s, i) ==
    /\ exclusive[i] = NoHolder
    /\ observers' = [observers EXCEPT ![i] = @ \cup {s}]
    /\ UNCHANGED exclusive

EndExclusive(i) ==
    /\ exclusive' = [exclusive EXCEPT ![i] = NoHolder]
    /\ UNCHANGED observers

EndObservers(i, S) ==
    /\ observers' = [observers EXCEPT ![i] = @ \ S]
    /\ UNCHANGED exclusive

Next ==
    \E i \in Instances :
        \/ \E s \in Sessions : GrantExclusive(s, i) \/ GrantObserver(s, i)
        \/ EndExclusive(i)
        \/ \E S \in SUBSET Sessions : EndObservers(i, S)

Spec == Init /\ [][Next]_vars
=============================================================================
