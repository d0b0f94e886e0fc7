---------------------------- MODULE LockManager ----------------------------
(***************************************************************************)
(* InstanceLockManager (crates/vscreen-server/src/lock_manager.rs): leases *)
(* on browser instances, shared by every MCP session of the server.        *)
(*                                                                         *)
(* The manager is a library.  Its callers are tokio tasks that run in      *)
(* parallel, and the only mutual exclusion between them is the shard lock  *)
(* a DashMap entry holds: one action below is what one call does under one *)
(* such lock.  A call that takes it several times is several actions, and  *)
(* `pc` says where it stands between them:                                 *)
(*   enqueue   acquire_or_wait, after its first attempt failed;            *)
(*   waiting   acquire_or_wait, awaiting its receiver or the timer;        *)
(*   timedOut  acquire_or_wait, before remove_from_queue;                  *)
(*   release   release_all_for_session, first pass over the instances;     *)
(*   purge     release_all_for_session, second pass.                       *)
(* A release that empties an entry unlocks it before it removes it from    *)
(* the map: `emptied` holds the instance meanwhile.  Calls that take one   *)
(* lock only (acquire, acquire_auto, renew and the queries) need no task:  *)
(* any number of them may run at any time, for any session.                *)
(*                                                                         *)
(* A definition named Bug_Op is Op with a plausible bug, put before it.    *)
(* Nothing uses it: it shows which property the bug would violate.         *)
(***************************************************************************)
EXTENDS LockTable

CONSTANTS
    Instances,  \* InstanceId
    Reaper,     \* the background task of spawn_reaper
    NoRequest   \* no call in progress

VARIABLES
    keys,       \* the keys of the map `locks`
    locks,      \* its values; an instance that is no key maps to EmptyState
    active,     \* active_sessions
    pc,         \* where each task stands in its call
    req,        \* the arguments of that call
    todo,       \* instance_ids a pass over the table has still to visit
    emptied,    \* the instance the actor is about to remove from the map
    notified    \* the waiting tasks whose receiver holds a value

vars == <<keys, locks, active, pc, req, todo, emptied, notified>>

Actors == Tasks \cup {Reaper}

PC == {"idle", "enqueue", "waiting", "timedOut", "release", "purge"}

Request      == [session : Sessions, inst : Instances, type : LockType]
CloseRequest == [session : Sessions]

ASSUME ReaperAssumption == Reaper \notin Tasks
ASSUME NoRequestAssumption == NoRequest \notin Request \cup CloseRequest

Init ==
    /\ keys = {}
    /\ locks = [i \in Instances |-> EmptyState]
    /\ active = {}
    /\ pc = [t \in Tasks |-> "idle"]
    /\ req = [t \in Tasks |-> NoRequest]
    /\ todo = [a \in Actors |-> {}]
    /\ emptied = [a \in Actors |-> {}]
    /\ notified = {}

Idle(t) == pc[t] = "idle" /\ emptied[t] = {}

-----------------------------------------------------------------------------
(* Steps under one entry's lock.  `entry(..).or_insert_with(..)` makes the *)
(* instance a key even when the call goes on to fail.                      *)

NoInsert_SetEntry(i, st) ==
    /\ keys' = keys
    /\ locks' = [locks EXCEPT ![i] = st]

SetEntry(i, st) ==
    /\ keys' = keys \cup {i}
    /\ locks' = [locks EXCEPT ![i] = st]

\* oneshot::Sender::send reaches a task that still holds its receiver.
Wake(tasks) == notified' = notified \cup {t \in tasks : pc[t] = "waiting"}

\* release_with_token for an actor, up to the unlocking of the entry.
ReleaseEntry(a, i, S) ==
    LET st   == locks[i]
        next == IF Holds(st, S) THEN Released(st, S) ELSE st
    IN  /\ SetEntry(i, next)
        /\ Wake(Popped(st, next))
        /\ emptied' = [emptied EXCEPT ![a] =
               IF Holds(st, S) /\ IsEmpty(next) THEN {i} ELSE {}]

\* `self.locks.remove(id)`, after the entry was unlocked: whatever the entry
\* holds by now goes with it, the senders of its queue included.
RemoveEntry(a) ==
    \E i \in emptied[a] :
        /\ keys' = keys \ {i}
        /\ locks' = [locks EXCEPT ![i] = EmptyState]
        /\ emptied' = [emptied EXCEPT ![a] = {}]
        /\ UNCHANGED <<active, pc, req, todo, notified>>

-----------------------------------------------------------------------------
(* acquire, acquire_auto, renew_with_token, register_session               *)

Register(s) ==
    /\ active' = active \cup {s}
    /\ UNCHANGED <<keys, locks, pc, req, todo, emptied, notified>>

Acquire(s, i, type, auto) ==
    /\ SetEntry(i, IF Acquirable(locks[i], s, type)
                   THEN Acquired(locks[i], s, type, auto) ELSE locks[i])
    /\ UNCHANGED <<active, pc, req, todo, emptied, notified>>

\* The lock that matched is the one of session s.
Renew(s, i) ==
    /\ i \in keys /\ IsHeldBy(locks[i], s)
    /\ locks' = [locks EXCEPT ![i] = Renewed(@, s)]
    /\ UNCHANGED <<keys, active, pc, req, todo, emptied, notified>>

-----------------------------------------------------------------------------
(* acquire_or_wait                                                         *)

\* Where the first attempt succeeds the call is an Acquire.
AcquireOrWait(t, s, i, type) ==
    /\ Idle(t)
    /\ ~Acquirable(locks[i], s, type)
    /\ SetEntry(i, locks[i])
    /\ pc' = [pc EXCEPT ![t] = "enqueue"]
    /\ req' = [req EXCEPT ![t] = [session |-> s, inst |-> i, type |-> type]]
    /\ UNCHANGED <<active, todo, emptied, notified>>

Enqueue(t) ==
    /\ pc[t] = "enqueue"
    /\ LET r == req[t]
       IN  SetEntry(r.inst, Enqueued(locks[r.inst], t, r.session, r.type))
    /\ pc' = [pc EXCEPT ![t] = "waiting"]
    /\ UNCHANGED <<active, req, todo, emptied, notified>>

Return(t) ==
    /\ pc' = [pc EXCEPT ![t] = "idle"]
    /\ req' = [req EXCEPT ![t] = NoRequest]

\* The second attempt returns its result, a lock or InstanceLocked.
Notified(t) ==
    /\ pc[t] = "waiting" /\ t \in notified
    /\ LET r == req[t] IN
       SetEntry(r.inst,
                IF Acquirable(locks[r.inst], r.session, r.type)
                THEN Acquired(locks[r.inst], r.session, r.type, FALSE)
                ELSE locks[r.inst])
    /\ notified' = notified \ {t}
    /\ Return(t)
    /\ UNCHANGED <<active, todo, emptied>>

NoTimer_Timeout(t) ==
    /\ pc[t] = "waiting" /\ t \notin notified
    /\ t \notin Queued(locks[req[t].inst].queue)
    /\ pc' = [pc EXCEPT ![t] = "timedOut"]
    /\ UNCHANGED <<keys, locks, active, req, todo, emptied, notified>>

\* tokio::time::timeout polls the receiver first, so a value that arrived
\* wins; the same arm is taken when the sender was dropped.
Timeout(t) ==
    /\ pc[t] = "waiting" /\ t \notin notified
    /\ pc' = [pc EXCEPT ![t] = "timedOut"]
    /\ UNCHANGED <<keys, locks, active, req, todo, emptied, notified>>

StaysQueued_RemoveFromQueue(t) ==
    /\ pc[t] = "timedOut"
    /\ Return(t)
    /\ UNCHANGED <<keys, locks, active, todo, emptied, notified>>

RemoveFromQueue(t) ==
    /\ pc[t] = "timedOut"
    /\ locks' = [locks EXCEPT ![req[t].inst] =
                     WithoutWaiters(@, req[t].session)]
    /\ Return(t)
    /\ UNCHANGED <<keys, active, todo, emptied, notified>>

-----------------------------------------------------------------------------
(* release_with_token and unregister_session                               *)

Release(t, i, S) ==
    /\ Idle(t)
    /\ ReleaseEntry(t, i, S)
    /\ UNCHANGED <<active, pc, req, todo>>

\* active_sessions.remove, then the ids release_all_for_session will visit.
\* The SessionGuard of a registered session calls it, when it is dropped.
Unregister(t, s) ==
    /\ Idle(t) /\ s \in active
    /\ active' = active \ {s}
    /\ pc' = [pc EXCEPT ![t] = "release"]
    /\ req' = [req EXCEPT ![t] = [session |-> s]]
    /\ todo' = [todo EXCEPT ![t] = keys]
    /\ UNCHANGED <<keys, locks, emptied, notified>>

CloseRelease(t, i) ==
    /\ pc[t] = "release" /\ emptied[t] = {} /\ i \in todo[t]
    /\ ReleaseEntry(t, i, {req[t].session})
    /\ todo' = [todo EXCEPT ![t] = @ \ {i}]
    /\ UNCHANGED <<active, pc, req>>

StartPurge(t) ==
    /\ pc[t] = "release" /\ emptied[t] = {} /\ todo[t] = {}
    /\ pc' = [pc EXCEPT ![t] = "purge"]
    /\ todo' = [todo EXCEPT ![t] = keys]
    /\ UNCHANGED <<keys, locks, active, req, emptied, notified>>

Purge(t, i) ==
    /\ pc[t] = "purge" /\ i \in todo[t]
    /\ locks' = [locks EXCEPT ![i] = WithoutWaiters(@, req[t].session)]
    /\ todo' = [todo EXCEPT ![t] = @ \ {i}]
    /\ UNCHANGED <<keys, active, pc, req, emptied, notified>>

Unregistered(t) ==
    /\ pc[t] = "purge" /\ todo[t] = {}
    /\ Return(t)
    /\ UNCHANGED <<keys, locks, active, todo, emptied, notified>>

-----------------------------------------------------------------------------
(* spawn_reaper and reap_expired                                           *)

Reaping == todo[Reaper] # {} \/ emptied[Reaper] # {}

StartReaping ==
    /\ ~Reaping
    /\ todo' = [todo EXCEPT ![Reaper] = keys]
    /\ UNCHANGED <<keys, locks, active, pc, req, emptied, notified>>

Reap(i) ==
    /\ i \in todo[Reaper] /\ emptied[Reaper] = {}
    /\ todo' = [todo EXCEPT ![Reaper] = @ \ {i}]
    /\ locks' = [locks EXCEPT ![i] = Reaped(@)]
    /\ Wake(Popped(locks[i], locks'[i]))
    /\ emptied' = [emptied EXCEPT ![Reaper] =
           IF i \in keys /\ IsEmpty(locks'[i]) THEN {i} ELSE {}]
    /\ UNCHANGED <<keys, active, pc, req>>

\* Only the reaper compares expires_at with the time, which it reads once
\* before it visits the instances: a lock that expires during a pass counts
\* as expired from its end on.
Expire(s, i) ==
    /\ ~Reaping
    /\ IsHeldBy(locks[i], s)
    /\ locks' = [locks EXCEPT ![i] = Expired(@, s)]
    /\ UNCHANGED <<keys, active, pc, req, todo, emptied, notified>>

-----------------------------------------------------------------------------
CallStep(t) ==
    \/ Enqueue(t) \/ Notified(t) \/ Timeout(t) \/ RemoveFromQueue(t)
    \/ \E i \in Instances : CloseRelease(t, i) \/ Purge(t, i)
    \/ StartPurge(t) \/ Unregistered(t)
    \/ RemoveEntry(t)

ReaperStep == StartReaping \/ (\E i \in Instances : Reap(i)) \/ RemoveEntry(Reaper)

\* A release names its own session and, by its token, at most one other.
Matches == {{s, r} : s, r \in Sessions}

Next ==
    \/ \E s \in Sessions : Register(s)
    \/ \E s \in Sessions, i \in Instances, type \in LockType, auto \in BOOLEAN :
           Acquire(s, i, type, auto)
    \/ \E s \in Sessions, i \in Instances : Renew(s, i) \/ Expire(s, i)
    \/ \E t \in Tasks, s \in Sessions, i \in Instances, type \in LockType :
           AcquireOrWait(t, s, i, type)
    \/ \E t \in Tasks, i \in Instances, S \in Matches : Release(t, i, S)
    \/ \E t \in Tasks, s \in Sessions : Unregister(t, s)
    \/ \E t \in Tasks : CallStep(t)
    \/ ReaperStep

Spec == Init /\ [][Next]_vars

\* A call in progress is polled until it returns, its timer fires, and the
\* reaper's interval ticks.
Fairness == (\A t \in Tasks : WF_vars(CallStep(t))) /\ WF_vars(ReaperStep)

FairSpec == Spec /\ Fairness

-----------------------------------------------------------------------------
(* Properties                                                              *)

\* Every variable keeps its type, a call in progress has its arguments, an
\* instance that is no key of the map has no lock state, and wait queues are
\* total orders of calls.
TypeOK ==
    /\ keys \subseteq Instances
    /\ locks \in [Instances -> LockState]
    /\ active \subseteq Sessions
    /\ pc \in [Tasks -> PC]
    /\ req \in [Tasks -> Request \cup CloseRequest \cup {NoRequest}]
    /\ \A t \in Tasks :
           /\ pc[t] \in {"enqueue", "waiting", "timedOut"} => req[t] \in Request
           /\ pc[t] \in {"release", "purge"} => req[t] \in CloseRequest
    /\ todo \in [Actors -> SUBSET Instances]
    /\ emptied \in [Actors -> SUBSET Instances]
    /\ notified \subseteq Tasks
    /\ \A i \in Instances \ keys : locks[i] = EmptyState
    /\ \A i \in Instances : IsOrdered(locks[i].queue)

\* acquire_inner: an exclusive lock excludes every observer lock, and a
\* session never holds two observer locks on one instance (which lets
\* release, renew and the queue of reclaims name a lock by its session).
LocksCompatible ==
    \A i \in Instances :
        /\ locks[i].exclusive # NoLock => locks[i].observers = {}
        /\ \A o, p \in locks[i].observers : o.session = p.session => o = p

\* acquire_or_wait: an entry of a wait queue belongs to a call that has not
\* returned yet and asks for what the entry says, and a call whose receiver
\* holds a value has no entry left.  An entry that outlived its call would
\* swallow the promotion of the next waiter.
WaitersAreLive ==
    /\ \A i \in Instances : \A w \in locks[i].queue :
           /\ pc[w.task] \in {"waiting", "timedOut"}
           /\ req[w.task] = [session |-> w.session, inst |-> i, type |-> w.type]
           /\ w.task \notin notified
    /\ \A t \in notified : pc[t] = "waiting"

\* try_promote is first come, first served: a call is woken after, or with,
\* every call ahead of it in the queue that still waits.
NoOvertaking ==
    [][\A i \in Instances : \A v, w \in locks[i].queue :
           /\ v.task \in w.ahead
           /\ w.task \in notified' \ notified
           => v.task \in notified' \/ pc[v.task] # "waiting"]_vars

\* acquire_or_wait and unregister_session return, whatever happens to the
\* instance and to the queue they wait in.
CallsReturn == \A t \in Tasks : pc[t] # "idle" ~> pc[t] = "idle"

\* spawn_reaper: an expired lock does not stay.  Its holder renews it, or it
\* goes, even though nothing but the reaper looks at expires_at.
ExpiredLocksEnd ==
    \A i \in Instances :
        ExclusiveExpired(locks[i]) \/ ExpiredObservers(locks[i]) # {} ~>
            ~ExclusiveExpired(locks[i]) /\ ExpiredObservers(locks[i]) = {}

\* The table of locks implements reader-writer leases: no call, promotion,
\* expiry or removal grants a lease next to one it conflicts with.
Leases == INSTANCE RwLease WITH
    exclusive <- [i \in Instances |-> IF locks[i].exclusive = NoLock THEN NoLock
                                      ELSE locks[i].exclusive.session],
    observers <- [i \in Instances |-> {o.session : o \in locks[i].observers}],
    NoHolder  <- NoLock
ImplementsLeases == Leases!Spec

-----------------------------------------------------------------------------
(* What the documents and comments say and the code does not do            *)

Unheld(st) == st.exclusive = NoLock /\ st.observers = {}

\* docs.rs, wait_timeout_seconds: "wait this many seconds for it to become
\* available".  While an instance is free, some call that waits for it has
\* been woken.
FreeLockIsOffered ==
    \A i \in Instances :
        Unheld(locks[i]) /\ locks[i].queue # {} =>
            \E t \in notified : req[t].inst = i
=============================================================================
