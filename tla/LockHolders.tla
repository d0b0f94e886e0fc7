---------------------------- MODULE LockHolders ----------------------------
(***************************************************************************)
(* LockManager with what its callers were told: a session is in holders[i] *)
(* from the moment a call grants it the exclusive lock of instance i until *)
(* that lock is released, upgraded away or reaped.  An entry that is       *)
(* removed from the map tells nobody anything.                             *)
(***************************************************************************)
EXTENDS LockManager

VARIABLE holders

Exclusives(i) == {s \in Sessions : HoldsExclusive(locks[i], s)}

HInit == Init /\ holders = [i \in Instances |-> {}]

HNext ==
    /\ Next
    /\ holders' = [i \in Instances |->
           IF i \in keys \ keys' THEN holders[i]
           ELSE (holders[i] \ Exclusives(i)) \cup Exclusives(i)']

HSpec == HInit /\ [][HNext]_<<vars, holders>>

\* docs.rs, "Lock Types": "Only one session can hold an exclusive lock."
OneExclusiveHolder ==
    \A i \in Instances : \A s, r \in holders[i] : s = r
=============================================================================
