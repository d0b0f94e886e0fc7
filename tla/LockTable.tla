------------------------------ MODULE LockTable ------------------------------
(***************************************************************************)
(* The state of one browser instance's lock and the operations performed   *)
(* on it while its map entry is locked: `InstanceLockState` and the bodies *)
(* of acquire_inner, release_with_token, renew_with_token, check_access,   *)
(* try_promote and reap_expired (crates/vscreen-server/src/lock_manager.rs)*)
(*                                                                         *)
(* Abstractions.  A LockInfo keeps its session, whether it was acquired    *)
(* automatically, and whether its time to live has elapsed; its type is    *)
(* given by the slot it is in.  `observers` is a Vec that never holds two  *)
(* locks of one session (LockManager!LocksCompatible), so it is a set      *)
(* here.  On one instance a session has at most one lock, hence a token,   *)
(* which is a fresh uuid per grant, names the holding session or nothing:  *)
(* a call made with a session and a token is a call made with the set of   *)
(* the sessions whose locks the two match.  The VecDeque of waiters is the *)
(* set of its entries, each with the calls ahead of it: popping and        *)
(* filtering are then set operations, and a waiting call has one entry.    *)
(*                                                                         *)
(* A definition named Bug_Op is Op with a plausible bug (see LockManager). *)
(***************************************************************************)
EXTENDS FiniteSets

CONSTANTS
    Sessions,   \* MCP sessions (SessionId, a fresh uuid each)
    Tasks,      \* concurrent callers of the lock manager (tokio tasks)
    NoLock      \* Option<LockInfo>::None

Exclusive == "exclusive"
Observer  == "observer"
LockType  == {Exclusive, Observer}

LockInfo  == [session : Sessions, auto : BOOLEAN, expired : BOOLEAN]
\* `task` stands for the oneshot sender: the call that waits on its receiver.
WaitEntry == [task : Tasks, session : Sessions, type : LockType,
              ahead : SUBSET Tasks]

ASSUME NoLockAssumption == NoLock \notin LockInfo \cup Sessions

LockState == [exclusive : LockInfo \cup {NoLock},
              observers : SUBSET LockInfo,
              queue     : SUBSET WaitEntry]

EmptyState == [exclusive |-> NoLock, observers |-> {}, queue |-> {}]

IsEmpty(st) ==
    /\ st.exclusive = NoLock
    /\ st.observers = {}
    /\ st.queue = {}

HoldsExclusive(st, s) == st.exclusive # NoLock /\ st.exclusive.session = s
HoldsObserver(st, s)  == \E o \in st.observers : o.session = s
IsHeldBy(st, s)       == HoldsExclusive(st, s) \/ HoldsObserver(st, s)

-----------------------------------------------------------------------------
(* acquire_inner                                                           *)

NewLock(s, auto) == [session |-> s, auto |-> auto, expired |-> FALSE]

\* "If this session already holds the requested lock type, renew it": an
\* exclusive holder is renewed whatever type it asks for.
Renews(st, s, type) ==
    \/ HoldsExclusive(st, s)
    \/ type = Observer /\ HoldsObserver(st, s)

NotAlone_IsSelfUpgrade(st, s) ==
    st.exclusive = NoLock /\ HoldsObserver(st, s)

\* is_self_upgrade: no exclusive holder and the only observer is the caller.
IsSelfUpgrade(st, s) ==
    /\ st.exclusive = NoLock
    /\ \E o \in st.observers : o.session = s /\ st.observers = {o}

Grantable(st, s, type) ==
    /\ st.exclusive = NoLock
    /\ type = Exclusive => st.observers = {} \/ IsSelfUpgrade(st, s)

Acquirable(st, s, type) == Renews(st, s, type) \/ Grantable(st, s, type)

\* A renewal moves expires_at forward and keeps every other field, the
\* auto_acquired tag included.
Renewed(st, s) ==
    [st EXCEPT
       !.exclusive = IF @ # NoLock /\ @.session = s
                     THEN [@ EXCEPT !.expired = FALSE] ELSE @,
       !.observers = {IF o.session = s THEN [o EXCEPT !.expired = FALSE]
                                       ELSE o : o \in @}]

KeepsObserver_Granted(st, s, type, auto) ==
    IF type = Exclusive
    THEN [st EXCEPT !.exclusive = NewLock(s, auto)]
    ELSE [st EXCEPT !.observers = @ \cup {NewLock(s, auto)}]

Granted(st, s, type, auto) ==
    IF type = Exclusive
    THEN [st EXCEPT !.exclusive = NewLock(s, auto), !.observers = {}]
    ELSE [st EXCEPT !.observers = @ \cup {NewLock(s, auto)}]

Acquired(st, s, type, auto) ==
    IF Renews(st, s, type) THEN Renewed(st, s)
                           ELSE Granted(st, s, type, auto)

-----------------------------------------------------------------------------
(* The wait queue and try_promote                                          *)

Queued(q) == {w.task : w \in q}

\* The entries of q are in one order, each with the calls ahead of it.
IsOrdered(q) ==
    /\ \A w \in q : w.ahead \subseteq Queued(q) \ {w.task}
    /\ \A v, w \in q :
           /\ v # w => v.task # w.task
           /\ v # w => (v.task \in w.ahead <=> w.task \notin v.ahead)
           /\ v.task \in w.ahead => v.ahead \subseteq w.ahead

\* push_back
Enqueued(st, t, s, type) ==
    [st EXCEPT !.queue = @ \cup {[task |-> t, session |-> s, type |-> type,
                                  ahead |-> Queued(@)]}]

\* The queue q once the entries of gone have left it.
Without(q, gone) ==
    {[w EXCEPT !.ahead = @ \ Queued(gone)] : w \in q \ gone}

\* retain(|w| w.session_id != s)
WithoutWaiters(st, s) ==
    [st EXCEPT !.queue = Without(@, {w \in @ : w.session = s})]

\* Only requests for an observer lock are ahead of w.
BehindObservers(q, w) ==
    \A v \in q : v.task \in w.ahead => v.type = Observer

SkipsExclusive_Promotable(st) ==
    {w \in st.queue : /\ st.exclusive = NoLock
                      /\ w.type = Exclusive =>
                             /\ BehindObservers(st.queue, w)
                             /\ st.observers = {}}

\* The loop pops the leading observers and then, unless an observer holds the
\* lock, the exclusive waiter it stops at.
Promotable(st) ==
    {w \in st.queue : /\ st.exclusive = NoLock
                      /\ BehindObservers(st.queue, w)
                      /\ w.type = Exclusive => st.observers = {}}

Promoted(st) == [st EXCEPT !.queue = Without(@, Promotable(st))]

\* The calls whose sender is used when promotion turns st into next.
Popped(st, next) == Queued(st.queue) \ Queued(next.queue)

-----------------------------------------------------------------------------
(* release_with_token and reap_expired                                     *)

Dropped(st, S) ==
    [st EXCEPT
       !.exclusive = IF @ # NoLock /\ @.session \in S THEN NoLock ELSE @,
       !.observers = {o \in @ : o.session \notin S}]

Holds(st, S) == \E s \in S : IsHeldBy(st, s)

Released(st, S) == Promoted(Dropped(st, S))

ExclusiveExpired(st) == st.exclusive # NoLock /\ st.exclusive.expired
ExpiredObservers(st) == {o \in st.observers : o.expired}

\* reap_expired promotes after it drops the exclusive lock, and once more if
\* it then drops an observer.
ReapedExclusive(st) ==
    IF ExclusiveExpired(st)
    THEN Promoted([st EXCEPT !.exclusive = NoLock]) ELSE st

ReapedObservers(st) ==
    IF ExpiredObservers(st) # {}
    THEN Promoted([st EXCEPT !.observers = @ \ ExpiredObservers(st)]) ELSE st

ExclusiveOnly_Reaped(st) == ReapedExclusive(st)

Reaped(st) == ReapedObservers(ReapedExclusive(st))

\* What time does to the lock of session s: expires_at is no longer ahead.
Expired(st, s) ==
    [st EXCEPT
       !.exclusive = IF @ # NoLock /\ @.session = s
                     THEN [@ EXCEPT !.expired = TRUE] ELSE @,
       !.observers = {IF o.session = s THEN [o EXCEPT !.expired = TRUE]
                                       ELSE o : o \in @}]

-----------------------------------------------------------------------------
(* check_access for a caller that presents its session id only.            *)

CheckAccess(st, s, required) ==
    \/ HoldsExclusive(st, s)
    \/ required = Observer /\ st.exclusive = NoLock /\ HoldsObserver(st, s)

\* LockError::InstanceLocked rather than LockError::NotHeld.
LockedByOther(st, s) == st.exclusive # NoLock /\ st.exclusive.session # s

\* is_auto_acquired: the exclusive holder's tag, else all observers' tags.
IsAutoAcquired(st) ==
    IF st.exclusive # NoLock THEN st.exclusive.auto
    ELSE st.observers # {} /\ \A o \in st.observers : o.auto
=============================================================================
