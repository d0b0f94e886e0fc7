------------------------- MODULE LockManagerProofs -------------------------
(***************************************************************************)
(* Proofs about LockManager, for any sets of sessions, tasks and instances.*)
(* First what the operators of LockTable do to one entry of the map, then  *)
(* that every step of the manager keeps the inductive invariant            *)
(*     TypeOK /\ LocksCompatible /\ WaitersAreLive.                        *)
(* WaitersAreLive is needed for TypeOK: a call that enqueues has no entry  *)
(* in the queue yet, which keeps the queue a total order.  From it follow  *)
(* that no waiter is overtaken and that the manager implements RwLease.    *)
(***************************************************************************)
EXTENDS LockManager, TLAPS

-----------------------------------------------------------------------------
(* Wait queues                                                             *)

\* An entry that stays is the old one with fewer calls ahead of it.
LEMMA WithoutEntry ==
    ASSUME NEW q \in SUBSET WaitEntry, NEW gone \in SUBSET q
    PROVE  \A x \in Without(q, gone) : \E w \in q \ gone :
               /\ x \in WaitEntry
               /\ x.task = w.task /\ x.session = w.session /\ x.type = w.type
               /\ x.ahead = w.ahead \ Queued(gone)
  BY DEF Without, WaitEntry

\* Leaving a queue gives a queue of well-formed entries.
LEMMA WithoutType ==
    ASSUME NEW q \in SUBSET WaitEntry, NEW gone \in SUBSET q
    PROVE  Without(q, gone) \in SUBSET WaitEntry
  BY WithoutEntry

\* Once gone have left, the calls queued are those of the other entries.
LEMMA WithoutQueued ==
    ASSUME NEW q \in SUBSET WaitEntry, NEW gone \in SUBSET q
    PROVE  Queued(Without(q, gone)) = Queued(q \ gone)
<1>1. \A x \in Without(q, gone) : x.task \in Queued(q \ gone)
  BY WithoutEntry DEF Queued
<1>2. ASSUME NEW w \in q \ gone
      PROVE  w.task \in Queued(Without(q, gone))
  <2> DEFINE x == [w EXCEPT !.ahead = @ \ Queued(gone)]
  <2>1. x \in Without(q, gone)
    BY DEF Without
  <2>2. x.task = w.task
    BY DEF WaitEntry
  <2> QED BY <2>1, <2>2 DEF Queued
<1> QED BY <1>1, <1>2 DEF Queued

\* Leaving a queue keeps the order of the others.
LEMMA WithoutOrdered ==
    ASSUME NEW q \in SUBSET WaitEntry, NEW gone \in SUBSET q, IsOrdered(q)
    PROVE  IsOrdered(Without(q, gone))
<1> DEFINE r == Without(q, gone)
<1>1. \A w \in q \ gone : w.task \notin Queued(gone)
  BY DEF IsOrdered, Queued
<1>2. ASSUME NEW x \in r
      PROVE  x.ahead \subseteq Queued(r) \ {x.task}
  <2>1. PICK w \in q \ gone : x = [w EXCEPT !.ahead = @ \ Queued(gone)]
    BY DEF Without
  <2>2. x.task = w.task /\ x.ahead = w.ahead \ Queued(gone)
    BY <2>1 DEF WaitEntry
  <2>3. w.ahead \subseteq Queued(q) \ {w.task}
    BY DEF IsOrdered
  <2>4. Queued(q) \ Queued(gone) \subseteq Queued(q \ gone)
    BY DEF Queued
  <2>5. Queued(r) = Queued(q \ gone)
    BY WithoutQueued
  <2> QED BY <2>2, <2>3, <2>4, <2>5
<1>3. ASSUME NEW x \in r, NEW y \in r
      PROVE  /\ x # y => x.task # y.task
             /\ x # y => (x.task \in y.ahead <=> y.task \notin x.ahead)
             /\ x.task \in y.ahead => x.ahead \subseteq y.ahead
  <2>1. PICK v \in q \ gone : x = [v EXCEPT !.ahead = @ \ Queued(gone)]
    BY DEF Without
  <2>2. PICK w \in q \ gone : y = [w EXCEPT !.ahead = @ \ Queued(gone)]
    BY DEF Without
  <2>3. /\ x.task = v.task /\ x.ahead = v.ahead \ Queued(gone)
        /\ y.task = w.task /\ y.ahead = w.ahead \ Queued(gone)
    BY <2>1, <2>2 DEF WaitEntry
  <2>4. x # y => v # w
    BY <2>1, <2>2
  <2>5. /\ v # w => v.task # w.task
        /\ v # w => (v.task \in w.ahead <=> w.task \notin v.ahead)
        /\ v.task \in w.ahead => v.ahead \subseteq w.ahead
    BY DEF IsOrdered
  <2> QED BY <1>1, <2>3, <2>4, <2>5
<1> QED BY <1>2, <1>3 DEF IsOrdered

\* push_back puts a call that is not queued behind all others.
LEMMA EnqueuedOrdered ==
    ASSUME NEW st \in LockState, NEW t \in Tasks, NEW s \in Sessions,
           NEW type \in LockType, IsOrdered(st.queue), t \notin Queued(st.queue)
    PROVE  /\ Enqueued(st, t, s, type) \in LockState
           /\ IsOrdered(Enqueued(st, t, s, type).queue)
<1> DEFINE q == st.queue
           e == [task |-> t, session |-> s, type |-> type, ahead |-> Queued(q)]
<1>1. q \in SUBSET WaitEntry /\ Queued(q) \in SUBSET Tasks
  BY DEF LockState, WaitEntry, Queued
<1>2. e \in WaitEntry
  BY <1>1 DEF WaitEntry
<1>3. Enqueued(st, t, s, type) = [st EXCEPT !.queue = q \cup {e}]
  BY DEF Enqueued
<1>4. /\ Enqueued(st, t, s, type) \in LockState
      /\ Enqueued(st, t, s, type).queue = q \cup {e}
  BY <1>1, <1>2, <1>3 DEF LockState
<1>5. e.task = t /\ e.ahead = Queued(q)
  OBVIOUS
<1>6. \A w \in q : w.task \in Queued(q) /\ w.ahead \subseteq Queued(q) \ {w.task}
  BY DEF Queued, IsOrdered
<1> HIDE DEF e
<1>7. Queued(q \cup {e}) = Queued(q) \cup {t}
  BY <1>5 DEF Queued
<1>8. IsOrdered(q \cup {e})
  <2>1. ASSUME NEW w \in q \cup {e}
        PROVE  w.ahead \subseteq Queued(q \cup {e}) \ {w.task}
    BY <1>5, <1>6, <1>7
  <2>2. ASSUME NEW v \in q \cup {e}, NEW w \in q \cup {e}
        PROVE  /\ v # w => v.task # w.task
               /\ v # w => (v.task \in w.ahead <=> w.task \notin v.ahead)
               /\ v.task \in w.ahead => v.ahead \subseteq w.ahead
    BY <1>5, <1>6 DEF IsOrdered
  <2> QED BY <2>1, <2>2 DEF IsOrdered
<1> QED BY <1>4, <1>8

-----------------------------------------------------------------------------
(* What the operations do to one entry of the map                          *)

\* A wait queue holds calls that wait for instance i.
QueueOK(st, i) ==
    \A w \in st.queue :
        /\ pc[w.task] \in {"waiting", "timedOut"}
        /\ req[w.task] = [session |-> w.session, inst |-> i, type |-> w.type]
        /\ w.task \notin notified

Compatible(st) ==
    /\ st.exclusive # NoLock => st.observers = {}
    /\ \A o, p \in st.observers : o.session = p.session => o = p

\* What all entries of the map have in common.
EntryOK(st) == st \in LockState /\ IsOrdered(st.queue) /\ Compatible(st)

\* next has the locks of a compatible state and no waiter st does not have.
LEMMA EmptyEntry == EntryOK(EmptyState)
  BY NoLockAssumption DEF EntryOK, EmptyState, LockState, IsOrdered, Compatible

\* Promotion keeps the locks and takes entries out of the queue.
LEMMA PromotedEntry ==
    ASSUME NEW st, EntryOK(st)
    PROVE  /\ EntryOK(Promoted(st))
           /\ Promoted(st).exclusive = st.exclusive
           /\ Promoted(st).observers = st.observers
           /\ Promoted(st).queue = Without(st.queue, Promotable(st))
<1>1. Promotable(st) \in SUBSET st.queue /\ st.queue \in SUBSET WaitEntry
  BY DEF Promotable, EntryOK, LockState
<1>2. Without(st.queue, Promotable(st)) \in SUBSET WaitEntry
  BY <1>1, WithoutType
<1>3. IsOrdered(Without(st.queue, Promotable(st)))
  BY <1>1, WithoutOrdered DEF EntryOK
<1>4. /\ Promoted(st) \in LockState
      /\ Promoted(st).exclusive = st.exclusive
      /\ Promoted(st).observers = st.observers
      /\ Promoted(st).queue = Without(st.queue, Promotable(st))
  BY <1>2 DEF Promoted, EntryOK, LockState
<1> QED BY <1>3, <1>4 DEF EntryOK, Compatible

\* The waiters of next are some of the waiters of st.
QueueShrinks(st, next) ==
    \A x \in next.queue : \E w \in st.queue :
        x.task = w.task /\ x.session = w.session /\ x.type = w.type

\* Taking waiters out of a queue.
LEMMA WithoutShrinks ==
    ASSUME NEW st \in LockState, NEW next, NEW gone \in SUBSET st.queue,
           next.queue = Without(st.queue, gone)
    PROVE  QueueShrinks(st, next)
<1>1. st.queue \in SUBSET WaitEntry
  BY DEF LockState
<1>2. ASSUME NEW x \in Without(st.queue, gone)
      PROVE  \E w \in st.queue :
                 x.task = w.task /\ x.session = w.session /\ x.type = w.type
  <2>1. PICK w \in st.queue : x = [w EXCEPT !.ahead = @ \ Queued(gone)]
    BY DEF Without
  <2>2. x.task = w.task /\ x.session = w.session /\ x.type = w.type
    BY <1>1, <2>1 DEF WaitEntry
  <2> QED BY <2>2
<1> QED BY <1>2 DEF QueueShrinks

\* promote_waiters only takes waiters out of the queue.
LEMMA PromotedShrinks ==
    ASSUME NEW st, EntryOK(st)
    PROVE  QueueShrinks(st, Promoted(st))
<1>1. st \in LockState /\ Promotable(st) \in SUBSET st.queue
  BY DEF EntryOK, Promotable
<1>2. Promoted(st).queue = Without(st.queue, Promotable(st))
  BY PromotedEntry
<1> QED BY <1>1, <1>2, WithoutShrinks

\* Giving up locks keeps the others compatible.
LEMMA DroppedEntry ==
    ASSUME NEW st, EntryOK(st), NEW S
    PROVE  EntryOK(Dropped(st, S)) /\ Dropped(st, S).queue = st.queue
<1>1. /\ Dropped(st, S) \in LockState
      /\ Dropped(st, S).queue = st.queue
      /\ Dropped(st, S).observers \subseteq st.observers
      /\ Dropped(st, S).exclusive \in {st.exclusive, NoLock}
  BY DEF Dropped, EntryOK, LockState
<1> QED BY <1>1 DEF EntryOK, Compatible

\* A release keeps an entry consistent and its queue in order.
LEMMA ReleasedEntry ==
    ASSUME NEW st, EntryOK(st), NEW S
    PROVE  EntryOK(Released(st, S)) /\ QueueShrinks(st, Released(st, S))
  BY DroppedEntry, PromotedEntry, PromotedShrinks DEF Released, QueueShrinks

\* So does the reaper.
LEMMA ReapedEntry ==
    ASSUME NEW st, EntryOK(st)
    PROVE  EntryOK(Reaped(st)) /\ QueueShrinks(st, Reaped(st))
<1>1. ASSUME NEW u, EntryOK(u)
      PROVE  /\ EntryOK(ReapedExclusive(u))
             /\ QueueShrinks(u, ReapedExclusive(u))
  <2> DEFINE v == [u EXCEPT !.exclusive = NoLock]
  <2>1. EntryOK(v) /\ v.queue = u.queue
    BY <1>1 DEF EntryOK, Compatible, LockState
  <2>2. EntryOK(Promoted(v)) /\ QueueShrinks(v, Promoted(v))
    BY <2>1, PromotedEntry, PromotedShrinks
  <2>3. QueueShrinks(u, Promoted(v)) /\ QueueShrinks(u, u)
    BY <2>1, <2>2 DEF QueueShrinks
  <2> QED BY <1>1, <2>2, <2>3 DEF ReapedExclusive
<1>2. ASSUME NEW u, EntryOK(u)
      PROVE  /\ EntryOK(ReapedObservers(u))
             /\ QueueShrinks(u, ReapedObservers(u))
  <2> DEFINE v == [u EXCEPT !.observers = @ \ ExpiredObservers(u)]
  <2>1. EntryOK(v) /\ v.queue = u.queue
    BY <1>2 DEF EntryOK, Compatible, LockState
  <2>2. EntryOK(Promoted(v)) /\ QueueShrinks(v, Promoted(v))
    BY <2>1, PromotedEntry, PromotedShrinks
  <2>3. QueueShrinks(u, Promoted(v)) /\ QueueShrinks(u, u)
    BY <2>1, <2>2 DEF QueueShrinks
  <2> QED BY <1>2, <2>2, <2>3 DEF ReapedObservers
<1> QED BY <1>1, <1>2 DEF Reaped, QueueShrinks

\* Setting the expired flag of one session's lock, either way.
LEMMA RenewedEntry ==
    ASSUME NEW st, EntryOK(st), NEW s
    PROVE  EntryOK(Renewed(st, s)) /\ Renewed(st, s).queue = st.queue
<1> DEFINE exc == IF st.exclusive # NoLock /\ st.exclusive.session = s
                  THEN [st.exclusive EXCEPT !.expired = FALSE] ELSE st.exclusive
           obs == {IF o.session = s THEN [o EXCEPT !.expired = FALSE] ELSE o :
                      o \in st.observers}
<1>1. st.exclusive \in LockInfo \cup {NoLock} /\ st.observers \subseteq LockInfo
  BY DEF EntryOK, LockState
<1>2. /\ exc \in LockInfo \cup {NoLock}
      /\ exc = NoLock <=> st.exclusive = NoLock
  BY <1>1, NoLockAssumption DEF LockInfo
<1>3. \A x \in obs : x \in LockInfo /\ \E o \in st.observers :
          x = (IF o.session = s THEN [o EXCEPT !.expired = FALSE] ELSE o)
  BY <1>1 DEF LockInfo
<1>4. Renewed(st, s) = [st EXCEPT !.exclusive = exc, !.observers = obs]
  BY DEF Renewed
<1> HIDE DEF exc, obs
<1>5. /\ Renewed(st, s) \in LockState /\ Renewed(st, s).queue = st.queue
      /\ Renewed(st, s).exclusive = exc /\ Renewed(st, s).observers = obs
  BY <1>2, <1>3, <1>4 DEF EntryOK, LockState
<1>6. st.observers = {} => obs = {}
  BY <1>3
<1>7. ASSUME NEW x \in obs, NEW y \in obs, x.session = y.session
      PROVE  x = y
  <2>1. PICK o \in st.observers :
            x = (IF o.session = s THEN [o EXCEPT !.expired = FALSE] ELSE o)
    BY <1>3
  <2>2. PICK p \in st.observers :
            y = (IF p.session = s THEN [p EXCEPT !.expired = FALSE] ELSE p)
    BY <1>3
  <2>3. o.session = p.session
    BY <1>1, <1>7, <2>1, <2>2 DEF LockInfo
  <2> QED BY <2>1, <2>2, <2>3 DEF EntryOK, Compatible
<1>8. Compatible(Renewed(st, s))
  BY <1>2, <1>5, <1>6, <1>7 DEF EntryOK, Compatible
<1> QED BY <1>5, <1>8 DEF EntryOK

\* A session's locks that expire leave an entry consistent.
LEMMA ExpiredEntry ==
    ASSUME NEW st, EntryOK(st), NEW s
    PROVE  EntryOK(Expired(st, s)) /\ Expired(st, s).queue = st.queue
<1> DEFINE exc == IF st.exclusive # NoLock /\ st.exclusive.session = s
                  THEN [st.exclusive EXCEPT !.expired = TRUE] ELSE st.exclusive
           obs == {IF o.session = s THEN [o EXCEPT !.expired = TRUE] ELSE o :
                      o \in st.observers}
<1>1. st.exclusive \in LockInfo \cup {NoLock} /\ st.observers \subseteq LockInfo
  BY DEF EntryOK, LockState
<1>2. /\ exc \in LockInfo \cup {NoLock}
      /\ exc = NoLock <=> st.exclusive = NoLock
  BY <1>1, NoLockAssumption DEF LockInfo
<1>3. \A x \in obs : x \in LockInfo /\ \E o \in st.observers :
          x = (IF o.session = s THEN [o EXCEPT !.expired = TRUE] ELSE o)
  BY <1>1 DEF LockInfo
<1>4. Expired(st, s) = [st EXCEPT !.exclusive = exc, !.observers = obs]
  BY DEF Expired
<1> HIDE DEF exc, obs
<1>5. /\ Expired(st, s) \in LockState /\ Expired(st, s).queue = st.queue
      /\ Expired(st, s).exclusive = exc /\ Expired(st, s).observers = obs
  BY <1>2, <1>3, <1>4 DEF EntryOK, LockState
<1>6. st.observers = {} => obs = {}
  BY <1>3
<1>7. ASSUME NEW x \in obs, NEW y \in obs, x.session = y.session
      PROVE  x = y
  <2>1. PICK o \in st.observers :
            x = (IF o.session = s THEN [o EXCEPT !.expired = TRUE] ELSE o)
    BY <1>3
  <2>2. PICK p \in st.observers :
            y = (IF p.session = s THEN [p EXCEPT !.expired = TRUE] ELSE p)
    BY <1>3
  <2>3. o.session = p.session
    BY <1>1, <1>7, <2>1, <2>2 DEF LockInfo
  <2> QED BY <2>1, <2>2, <2>3 DEF EntryOK, Compatible
<1>8. Compatible(Expired(st, s))
  BY <1>2, <1>5, <1>6, <1>7 DEF EntryOK, Compatible
<1> QED BY <1>5, <1>8 DEF EntryOK

\* acquire_inner renews, or grants what no lock in force conflicts with.
LEMMA AcquiredEntry ==
    ASSUME NEW st, EntryOK(st), NEW s \in Sessions, NEW type \in LockType,
           NEW auto \in BOOLEAN, Acquirable(st, s, type)
    PROVE  /\ EntryOK(Acquired(st, s, type, auto))
           /\ Acquired(st, s, type, auto).queue = st.queue
<1>1. CASE Renews(st, s, type)
  BY <1>1, RenewedEntry DEF Acquired
<1>2. CASE ~Renews(st, s, type)
  <2> DEFINE next == Granted(st, s, type, auto)
  <2>1. NewLock(s, auto) \in LockInfo /\ NewLock(s, auto).session = s
    BY DEF NewLock, LockInfo
  <2>2. Grantable(st, s, type) /\ Acquired(st, s, type, auto) = next
    BY <1>2 DEF Acquirable, Acquired
  <2>3. CASE type = Exclusive
    BY <2>1, <2>2, <2>3 DEF Granted, EntryOK, LockState, Compatible
  <2>4. CASE type # Exclusive
    <3>1. type = Observer /\ st.exclusive = NoLock
      BY <2>2, <2>4 DEF LockType, Grantable
    <3>2. \A o \in st.observers : o.session # s
      BY <1>2, <3>1 DEF Renews, HoldsObserver
    <3>3. /\ next \in LockState /\ next.queue = st.queue
          /\ next.exclusive = NoLock
          /\ next.observers = st.observers \cup {NewLock(s, auto)}
      BY <2>1, <2>4, <3>1 DEF Granted, EntryOK, LockState
    <3>4. Compatible(next)
      BY <2>1, <3>2, <3>3 DEF Compatible, EntryOK
    <3> QED BY <2>2, <3>3, <3>4 DEF EntryOK
  <2> QED BY <2>3, <2>4
<1> QED BY <1>1, <1>2

-----------------------------------------------------------------------------
(* The inductive invariant                                                 *)

IInv == TypeOK /\ LocksCompatible /\ WaitersAreLive

\* The invariant again, in two parts: the map, entry by entry, and the calls.
TableOK ==
    /\ keys \subseteq Instances
    /\ locks = [i \in Instances |-> locks[i]]
    /\ \A i \in Instances : EntryOK(locks[i]) /\ QueueOK(locks[i], i)
    /\ \A i \in Instances \ keys : locks[i] = EmptyState

CallsOK ==
    /\ active \subseteq Sessions
    /\ pc \in [Tasks -> PC]
    /\ req \in [Tasks -> Request \cup CloseRequest \cup {NoRequest}]
    /\ \A t \in Tasks :
           /\ pc[t] \in {"enqueue", "waiting", "timedOut"} => req[t] \in Request
           /\ pc[t] \in {"release", "purge"} => req[t] \in CloseRequest
    /\ todo \in [Actors -> SUBSET Instances]
    /\ emptied \in [Actors -> SUBSET Instances]
    /\ notified \subseteq Tasks
    /\ \A t \in notified : pc[t] = "waiting"

\* The invariant, as that of the table and that of the calls.
LEMMA IInvParts == IInv <=> TableOK /\ CallsOK
<1>1. (locks \in [Instances -> LockState]) <=>
          /\ locks = [i \in Instances |-> locks[i]]
          /\ \A i \in Instances : locks[i] \in LockState
  OBVIOUS
<1> QED
  BY <1>1 DEF IInv, TypeOK, LocksCompatible, WaitersAreLive, TableOK, CallsOK,
              EntryOK, Compatible, QueueOK

\* Nothing is locked, and no call is in progress.
LEMMA InitIInv == Init => IInv
<1> SUFFICES ASSUME Init PROVE IInv
  OBVIOUS
<1>1. TableOK
  BY EmptyEntry DEF Init, TableOK, QueueOK, EmptyState
<1>2. CallsOK
  BY DEF Init, CallsOK, PC
<1> QED BY <1>1, <1>2, IInvParts

\* A step that takes entry i to next, with no new waiter, and whose own call
\* is in no queue afterwards.
LEMMA EntryStep ==
    ASSUME TableOK, CallsOK, NEW i \in Instances, NEW next,
           EntryOK(next), QueueShrinks(locks[i], next),
           keys' \subseteq Instances, keys \ {i} \subseteq keys',
           i \in keys' \/ next = EmptyState,
           locks' = [locks EXCEPT ![i] = next],
           notified' \subseteq notified \cup Popped(locks[i], next),
           \A j \in Instances : \A w \in locks'[j].queue :
               pc'[w.task] = pc[w.task] /\ req'[w.task] = req[w.task]
    PROVE  TableOK'
<1>1. \A j \in Instances : locks'[j] = IF j = i THEN next ELSE locks[j]
  BY DEF TableOK
<1>2. ASSUME NEW j \in Instances, NEW x \in locks'[j].queue
      PROVE  /\ pc[x.task] \in {"waiting", "timedOut"}
             /\ req[x.task] = [session |-> x.session, inst |-> j, type |-> x.type]
             /\ x.task \notin notified
             /\ x.task \notin Popped(locks[i], next)
  <2>1. PICK w \in locks[j].queue :
            x.task = w.task /\ x.session = w.session /\ x.type = w.type
    BY <1>1 DEF QueueShrinks
  <2>2. /\ pc[w.task] \in {"waiting", "timedOut"}
        /\ req[w.task] = [session |-> w.session, inst |-> j, type |-> w.type]
        /\ w.task \notin notified
    BY DEF TableOK, QueueOK
  <2>3. x.task \notin Popped(locks[i], next)
    <3>1. CASE j = i
      BY <1>1, <3>1 DEF Popped, Queued
    <3>2. CASE j # i
      <4>1. SUFFICES ASSUME NEW v \in locks[i].queue, v.task = x.task
                     PROVE  FALSE
        BY DEF Popped, Queued
      <4>2. req[v.task] = [session |-> v.session, inst |-> i, type |-> v.type]
        BY DEF TableOK, QueueOK
      <4> QED BY <2>1, <2>2, <3>2, <4>1, <4>2
    <3> QED BY <3>1, <3>2
  <2> QED BY <2>1, <2>2, <2>3
<1>3. ASSUME NEW j \in Instances
      PROVE  QueueOK(locks[j], j)'
  <2>1. ASSUME NEW x \in locks'[j].queue
        PROVE  /\ pc'[x.task] \in {"waiting", "timedOut"}
               /\ req'[x.task] = [session |-> x.session, inst |-> j, type |-> x.type]
               /\ x.task \notin notified'
    BY <1>2
  <2> QED BY <2>1 DEF QueueOK
<1>4. \A j \in Instances : EntryOK(locks'[j])
  BY <1>1 DEF TableOK
<1>5. \A j \in Instances \ keys' : locks'[j] = EmptyState
  BY <1>1 DEF TableOK
<1>6. locks' = [j \in Instances |-> locks'[j]]
  BY DEF TableOK
<1> QED BY <1>3, <1>4, <1>5, <1>6 DEF TableOK, EntryOK, IsOrdered, Compatible

\* A step on entry i that leaves every call where it is.
LEMMA LocalStep ==
    ASSUME TableOK, CallsOK, NEW i \in Instances, NEW next,
           EntryOK(next), QueueShrinks(locks[i], next), SetEntry(i, next),
           notified' \subseteq notified \cup Popped(locks[i], next),
           UNCHANGED <<pc, req>>
    PROVE  TableOK'
  BY EntryStep DEF SetEntry, TableOK

\* A queue that stays the same.
LEMMA SameQueue ==
    ASSUME NEW st, NEW next, next.queue = st.queue
    PROVE  QueueShrinks(st, next)
  BY DEF QueueShrinks

\* acquire, whether it succeeds or not.
LEMMA AttemptEntry ==
    ASSUME NEW st, EntryOK(st), NEW s \in Sessions, NEW type \in LockType,
           NEW auto \in BOOLEAN
    PROVE  LET next == IF Acquirable(st, s, type)
                       THEN Acquired(st, s, type, auto) ELSE st
           IN  EntryOK(next) /\ QueueShrinks(st, next)
  BY AcquiredEntry, SameQueue

\* A release of one instance's locks, within any step that makes one.
LEMMA ReleaseStep ==
    ASSUME TableOK, CallsOK, NEW a \in Actors, NEW i \in Instances, NEW S,
           ReleaseEntry(a, i, S), UNCHANGED <<pc, req>>
    PROVE  /\ TableOK'
           /\ emptied' \in [Actors -> SUBSET Instances]
           /\ notified' \subseteq Tasks
           /\ \A t \in notified' : pc'[t] = "waiting"
<1> DEFINE next == IF Holds(locks[i], S) THEN Released(locks[i], S) ELSE locks[i]
<1>1. EntryOK(locks[i])
  BY DEF TableOK
<1>2. EntryOK(next) /\ QueueShrinks(locks[i], next)
  BY <1>1, ReleasedEntry, SameQueue
<1>3. /\ SetEntry(i, next)
      /\ notified' = notified \cup {t \in Popped(locks[i], next) : pc[t] = "waiting"}
      /\ emptied' = [emptied EXCEPT ![a] =
             IF Holds(locks[i], S) /\ IsEmpty(next) THEN {i} ELSE {}]
  BY DEF ReleaseEntry, Wake
<1> HIDE DEF next
<1>4. TableOK'
  BY <1>2, <1>3, LocalStep
<1>5. Popped(locks[i], next) \subseteq Tasks
  BY <1>1 DEF EntryOK, LockState, WaitEntry, Popped, Queued
<1> QED BY <1>3, <1>4, <1>5 DEF CallsOK

\* release and reclaim remove an entry that became empty.
LEMMA RemoveEntryStep ==
    ASSUME TableOK, CallsOK, NEW a \in Actors, RemoveEntry(a)
    PROVE  TableOK' /\ CallsOK'
<1>1. PICK i \in emptied[a] :
          /\ keys' = keys \ {i}
          /\ locks' = [locks EXCEPT ![i] = EmptyState]
          /\ emptied' = [emptied EXCEPT ![a] = {}]
          /\ UNCHANGED <<active, pc, req, todo, notified>>
  BY DEF RemoveEntry
<1>2. i \in Instances
  BY DEF CallsOK
<1>3. QueueShrinks(locks[i], EmptyState)
  BY DEF QueueShrinks, EmptyState
<1>4. TableOK'
  <2>1. keys' \subseteq Instances /\ keys \ {i} \subseteq keys'
    BY <1>1 DEF TableOK
  <2> QED BY <1>1, <1>2, <1>3, <2>1, EmptyEntry, EntryStep
<1>5. CallsOK'
  BY <1>1 DEF CallsOK
<1> QED BY <1>4, <1>5

\* acquire, renew and the clock.
LEMMA OneLockSteps ==
    ASSUME TableOK, CallsOK, NEW s \in Sessions, NEW i \in Instances
    PROVE  /\ \A type \in LockType, auto \in BOOLEAN :
                  Acquire(s, i, type, auto) => TableOK' /\ CallsOK'
           /\ Renew(s, i) \/ Expire(s, i) => TableOK' /\ CallsOK'
<1>1. EntryOK(locks[i]) /\ (i \in keys \/ locks[i] = EmptyState)
  BY DEF TableOK
<1>2. ASSUME NEW type \in LockType, NEW auto \in BOOLEAN,
             Acquire(s, i, type, auto)
      PROVE  TableOK' /\ CallsOK'
  <2>1. TableOK'
    BY <1>1, <1>2, AttemptEntry, LocalStep DEF Acquire
  <2>2. CallsOK'
    BY <1>2 DEF Acquire, CallsOK
  <2> QED BY <2>1, <2>2
<1>3. ASSUME Renew(s, i)
      PROVE  TableOK' /\ CallsOK'
  <2>1. EntryOK(Renewed(locks[i], s)) /\ QueueShrinks(locks[i], Renewed(locks[i], s))
    BY <1>1, RenewedEntry, SameQueue
  <2>2. TableOK'
    BY <1>3, <2>1, EntryStep DEF Renew, TableOK
  <2>3. CallsOK'
    BY <1>3 DEF Renew, CallsOK
  <2> QED BY <2>2, <2>3
<1>4. ASSUME Expire(s, i)
      PROVE  TableOK' /\ CallsOK'
  <2>1. EntryOK(Expired(locks[i], s)) /\ QueueShrinks(locks[i], Expired(locks[i], s))
    BY <1>1, ExpiredEntry, SameQueue
  <2>2. i \in keys
    <3>1. ~IsHeldBy(EmptyState, s)
      BY DEF IsHeldBy, HoldsExclusive, HoldsObserver, EmptyState
    <3> QED BY <1>1, <1>4, <3>1 DEF Expire
  <2>3. TableOK'
    BY <1>4, <2>1, <2>2, EntryStep DEF Expire, TableOK
  <2>4. CallsOK'
    BY <1>4 DEF Expire, CallsOK
  <2> QED BY <2>3, <2>4
<1> QED BY <1>2, <1>3, <1>4

\* A call that is not in its receive loop is in no queue.
LEMMA NotQueued ==
    ASSUME TableOK, NEW t \in Tasks,
           pc[t] \notin {"waiting", "timedOut"} \/ t \in notified
    PROVE  \A i \in Instances : t \notin Queued(locks[i].queue)
  BY DEF TableOK, QueueOK, Queued

\* acquire_or_wait up to the queue.
LEMMA AcquireOrWaitStep ==
    ASSUME TableOK, CallsOK, NEW t \in Tasks, NEW s \in Sessions,
           NEW i \in Instances, NEW type \in LockType, AcquireOrWait(t, s, i, type)
    PROVE  TableOK' /\ CallsOK'
<1>1. EntryOK(locks[i]) /\ QueueShrinks(locks[i], locks[i])
  BY SameQueue DEF TableOK
<1>2. \A j \in Instances : t \notin Queued(locks[j].queue)
  BY NotQueued DEF AcquireOrWait, Idle
<1>3. TableOK'
  <2>1. \A j \in Instances : locks'[j] = locks[j]
    BY DEF AcquireOrWait, SetEntry, TableOK
  <2>2. \A j \in Instances : \A w \in locks'[j].queue : w.task \in Tasks /\ w.task # t
    BY <1>2, <2>1 DEF Queued, TableOK, EntryOK, LockState, WaitEntry
  <2>3. \A j \in Instances : \A w \in locks'[j].queue :
            pc'[w.task] = pc[w.task] /\ req'[w.task] = req[w.task]
    BY <2>2 DEF AcquireOrWait, CallsOK
  <2> QED BY <1>1, <2>3, EntryStep DEF AcquireOrWait, SetEntry, TableOK
<1>4. CallsOK'
  <2>1. [session |-> s, inst |-> i, type |-> type] \in Request
    BY DEF Request
  <2>2. \A u \in notified : u # t
    BY DEF AcquireOrWait, Idle, CallsOK
  <2> QED BY <2>1, <2>2 DEF AcquireOrWait, CallsOK, PC
<1> QED BY <1>3, <1>4

\* acquire joins the queue.
LEMMA EnqueueStep ==
    ASSUME TableOK, CallsOK, NEW t \in Tasks, Enqueue(t)
    PROVE  TableOK' /\ CallsOK'
<1> DEFINE r == req[t]
           i == r.inst
           next == Enqueued(locks[i], t, r.session, r.type)
<1>1. /\ r \in Request /\ pc[t] = "enqueue"
      /\ i \in Instances /\ r.session \in Sessions /\ r.type \in LockType
      /\ r = [session |-> r.session, inst |-> i, type |-> r.type]
  BY DEF Enqueue, CallsOK, Request
<1>2. /\ keys' = keys \cup {i} /\ locks' = [locks EXCEPT ![i] = next]
      /\ pc' = [pc EXCEPT ![t] = "waiting"]
      /\ UNCHANGED <<active, req, todo, emptied, notified>>
  BY DEF Enqueue, SetEntry
<1>3. t \notin notified /\ \A j \in Instances : t \notin Queued(locks[j].queue)
  BY <1>1, NotQueued DEF CallsOK
<1>4. EntryOK(locks[i])
  BY <1>1 DEF TableOK
<1>5. /\ EntryOK(next) /\ next.exclusive = locks[i].exclusive
      /\ \A x \in next.queue :
             \/ x \in locks[i].queue
             \/ x.task = t /\ x.session = r.session /\ x.type = r.type
  <2>1. next \in LockState /\ IsOrdered(next.queue)
    BY <1>1, <1>3, <1>4, EnqueuedOrdered DEF EntryOK
  <2>2. /\ next.exclusive = locks[i].exclusive
        /\ next.observers = locks[i].observers
        /\ next.queue = locks[i].queue \cup
               {[task |-> t, session |-> r.session, type |-> r.type,
                 ahead |-> Queued(locks[i].queue)]}
    BY <1>4 DEF Enqueued, EntryOK, LockState
  <2> QED BY <1>4, <2>1, <2>2 DEF EntryOK, Compatible
<1> HIDE DEF next, i, r
<1>6. \A j \in Instances : locks'[j] = IF j = i THEN next ELSE locks[j]
  BY <1>2 DEF TableOK
<1>7. ASSUME NEW j \in Instances, NEW x \in locks'[j].queue
      PROVE  /\ pc'[x.task] \in {"waiting", "timedOut"}
             /\ req'[x.task] = [session |-> x.session, inst |-> j, type |-> x.type]
             /\ x.task \notin notified'
  <2>1. CASE x \in locks[j].queue
    <3>1. x.task # t /\ x.task \in Tasks
      BY <1>3, <2>1 DEF Queued, TableOK, EntryOK, LockState, WaitEntry
    <3> QED BY <1>2, <2>1, <3>1 DEF TableOK, QueueOK, CallsOK
  <2>2. CASE x \notin locks[j].queue
    <3>1. j = i /\ x.task = t /\ x.session = r.session /\ x.type = r.type
      BY <1>5, <1>6, <2>2
    <3>2. req[t] = [session |-> r.session, inst |-> i, type |-> r.type]
      BY <1>1 DEF i, r
    <3> QED BY <1>2, <1>3, <3>1, <3>2 DEF CallsOK
  <2> QED BY <2>1, <2>2
<1>8. \A j \in Instances : QueueOK(locks[j], j)'
  BY <1>7 DEF QueueOK
<1>9. \A j \in Instances : EntryOK(locks'[j])
  BY <1>5, <1>6 DEF TableOK
<1>10. TableOK'
  BY <1>1, <1>2, <1>6, <1>8, <1>9 DEF TableOK, EntryOK, IsOrdered, Compatible
<1>11. CallsOK'
  BY <1>1, <1>2 DEF CallsOK, PC, r
<1> QED BY <1>10, <1>11

\* The call returns: its task is in no queue any more.
LEMMA ReturnCalls ==
    ASSUME CallsOK, NEW t \in Tasks, Return(t), t \notin notified',
           notified' \subseteq notified, UNCHANGED <<active, todo, emptied>>
    PROVE  CallsOK'
  BY DEF CallsOK, Return, PC

\* A waiter that was notified goes on.
LEMMA NotifiedStep ==
    ASSUME TableOK, CallsOK, NEW t \in Tasks, Notified(t)
    PROVE  TableOK' /\ CallsOK'
<1> DEFINE r == req[t]
           i == r.inst
           next == IF Acquirable(locks[i], r.session, r.type)
                   THEN Acquired(locks[i], r.session, r.type, FALSE)
                   ELSE locks[i]
<1>1. /\ r \in Request
      /\ i \in Instances /\ r.session \in Sessions /\ r.type \in LockType
  BY DEF Notified, CallsOK, Request
<1>2. EntryOK(locks[i])
  BY <1>1 DEF TableOK
<1>3. /\ EntryOK(next) /\ next.queue = locks[i].queue
      /\ QueueShrinks(locks[i], next)
  BY <1>1, <1>2, AcquiredEntry, SameQueue
<1>4. \A j \in Instances : t \notin Queued(locks[j].queue)
  BY NotQueued DEF Notified
<1>5. /\ keys' = keys \cup {i} /\ locks' = [locks EXCEPT ![i] = next]
      /\ notified' = notified \ {t} /\ Return(t)
      /\ UNCHANGED <<active, todo, emptied>>
  BY DEF Notified, SetEntry
<1> HIDE DEF next, i, r
<1>6. \A j \in Instances : locks'[j].queue = locks[j].queue
  BY <1>3, <1>5 DEF TableOK
<1>7. \A j \in Instances : \A w \in locks'[j].queue :
          pc'[w.task] = pc[w.task] /\ req'[w.task] = req[w.task]
  <2>1. \A j \in Instances : \A w \in locks'[j].queue : w.task \in Tasks /\ w.task # t
    BY <1>4, <1>6 DEF Queued, TableOK, EntryOK, LockState, WaitEntry
  <2> QED BY <1>5, <2>1 DEF Return, CallsOK
<1>8. TableOK'
  BY <1>1, <1>3, <1>5, <1>7, EntryStep DEF TableOK
<1> QED BY <1>5, <1>8, ReturnCalls

\* A waiter gives up.
LEMMA TimeoutStep ==
    ASSUME TableOK, CallsOK, NEW t \in Tasks, Timeout(t)
    PROVE  TableOK' /\ CallsOK'
<1>1. /\ pc' = [pc EXCEPT ![t] = "timedOut"]
      /\ pc[t] = "waiting" /\ t \notin notified
      /\ UNCHANGED <<keys, locks, active, req, todo, emptied, notified>>
  BY DEF Timeout
<1>2. \A j \in Instances : QueueOK(locks[j], j)'
  <2>1. ASSUME NEW j \in Instances, NEW w \in locks'[j].queue
        PROVE  /\ pc'[w.task] \in {"waiting", "timedOut"}
               /\ req'[w.task] = [session |-> w.session, inst |-> j, type |-> w.type]
               /\ w.task \notin notified'
    BY <1>1 DEF TableOK, QueueOK, CallsOK
  <2> QED BY <2>1 DEF QueueOK
<1>3. TableOK'
  BY <1>1, <1>2 DEF TableOK, EntryOK, IsOrdered, Compatible
<1>4. CallsOK'
  BY <1>1 DEF CallsOK, PC
<1> QED BY <1>3, <1>4

\* retain(|w| w.session_id != s)
LEMMA WithoutWaitersEntry ==
    ASSUME NEW st, EntryOK(st), NEW s
    PROVE  /\ EntryOK(WithoutWaiters(st, s))
           /\ QueueShrinks(st, WithoutWaiters(st, s))
           /\ \A x \in WithoutWaiters(st, s).queue : x.session # s
<1> DEFINE gone == {w \in st.queue : w.session = s}
           next == WithoutWaiters(st, s)
<1>1. st \in LockState /\ st.queue \in SUBSET WaitEntry /\ gone \in SUBSET st.queue
  BY DEF EntryOK, LockState
<1>2. next = [st EXCEPT !.queue = Without(st.queue, gone)]
  BY DEF WithoutWaiters
<1>3. /\ next \in LockState /\ next.queue = Without(st.queue, gone)
      /\ next.exclusive = st.exclusive /\ next.observers = st.observers
  BY <1>1, <1>2, WithoutType DEF LockState
<1>4. IsOrdered(next.queue)
  BY <1>1, <1>3, WithoutOrdered DEF EntryOK
<1>5. QueueShrinks(st, next)
  BY <1>1, <1>3, WithoutShrinks
<1>6. ASSUME NEW x \in next.queue
      PROVE  x.session # s
  <2>1. PICK w \in st.queue \ gone : x = [w EXCEPT !.ahead = @ \ Queued(gone)]
    BY <1>3 DEF Without
  <2> QED BY <1>1, <2>1 DEF WaitEntry
<1> QED BY <1>3, <1>4, <1>5, <1>6 DEF EntryOK, Compatible

\* One that gave up leaves the queue.
LEMMA RemoveFromQueueStep ==
    ASSUME TableOK, CallsOK, NEW t \in Tasks, RemoveFromQueue(t)
    PROVE  TableOK' /\ CallsOK'
<1> DEFINE i == req[t].inst
           s == req[t].session
           next == WithoutWaiters(locks[i], s)
<1>1. i \in Instances /\ pc[t] = "timedOut" /\ t \notin notified
  BY DEF RemoveFromQueue, CallsOK, Request
<1>2. EntryOK(locks[i]) /\ (i \in keys \/ locks[i] = EmptyState)
  BY <1>1 DEF TableOK
<1>3. /\ EntryOK(next) /\ QueueShrinks(locks[i], next)
      /\ \A x \in next.queue : x.session # s
  BY <1>2, WithoutWaitersEntry
<1>4. i \in keys \/ next = EmptyState
  <2>1. WithoutWaiters(EmptyState, s) = EmptyState
    BY DEF WithoutWaiters, EmptyState, Without
  <2> QED BY <1>2, <2>1
<1>5. /\ locks' = [locks EXCEPT ![i] = next] /\ Return(t)
      /\ UNCHANGED <<keys, active, todo, emptied, notified>>
  BY DEF RemoveFromQueue
<1> HIDE DEF next
<1>6. ASSUME NEW j \in Instances, NEW x \in locks'[j].queue
      PROVE  x.task \in Tasks /\ x.task # t
  <2>1. locks'[j] = IF j = i THEN next ELSE locks[j]
    BY <1>5 DEF TableOK
  <2>2. PICK w \in locks[j].queue :
            x.task = w.task /\ x.session = w.session
    BY <1>3, <2>1 DEF QueueShrinks
  <2>3. /\ w.task \in Tasks
        /\ req[w.task] = [session |-> w.session, inst |-> j, type |-> w.type]
    BY DEF TableOK, QueueOK, EntryOK, LockState, WaitEntry
  <2>4. w.task = t => j = i /\ w.session = s
    BY <2>3
  <2> QED BY <1>3, <2>1, <2>2, <2>3, <2>4
<1>7. \A j \in Instances : \A w \in locks'[j].queue :
          pc'[w.task] = pc[w.task] /\ req'[w.task] = req[w.task]
  BY <1>5, <1>6 DEF Return, CallsOK
<1>8. TableOK'
  BY <1>1, <1>3, <1>4, <1>5, <1>7, EntryStep DEF TableOK
<1> QED BY <1>1, <1>5, <1>8, ReturnCalls

\* release and the two passes of release_all_for_session.
LEMMA ReleaseCallStep ==
    ASSUME TableOK, CallsOK, NEW t \in Tasks, NEW i \in Instances, NEW S,
           Release(t, i, S)
    PROVE  TableOK' /\ CallsOK'
<1>1. t \in Actors
  BY DEF Actors
<1>2. ReleaseEntry(t, i, S) /\ UNCHANGED <<active, pc, req, todo>>
  BY DEF Release
<1>3. /\ TableOK' /\ emptied' \in [Actors -> SUBSET Instances]
      /\ notified' \subseteq Tasks /\ \A u \in notified' : pc'[u] = "waiting"
  BY <1>1, <1>2, ReleaseStep
<1> QED BY <1>2, <1>3 DEF CallsOK

\* The steps of a session that is unregistered.
LEMMA UnregisterSteps ==
    ASSUME TableOK, CallsOK, NEW t \in Tasks
    PROVE  /\ \A s \in Sessions : Unregister(t, s) => TableOK' /\ CallsOK'
           /\ \A i \in Instances :
                  CloseRelease(t, i) \/ Purge(t, i) => TableOK' /\ CallsOK'
           /\ StartPurge(t) \/ Unregistered(t) => TableOK' /\ CallsOK'
<1>1. t \in Actors /\ keys \in SUBSET Instances
  BY DEF Actors, TableOK
<1>2. ASSUME UNCHANGED <<keys, locks, notified>>,
             \A u \in Tasks \ {t} : pc'[u] = pc[u] /\ req'[u] = req[u],
             pc[t] \notin {"waiting", "timedOut"}
      PROVE  TableOK'
  <2>1. ASSUME NEW j \in Instances, NEW w \in locks[j].queue
        PROVE  /\ w.task \in Tasks /\ w.task # t
               /\ pc[w.task] \in {"waiting", "timedOut"}
               /\ req[w.task] = [session |-> w.session, inst |-> j, type |-> w.type]
               /\ w.task \notin notified
    BY <1>2 DEF TableOK, QueueOK, EntryOK, LockState, WaitEntry
  <2>2. \A j \in Instances : QueueOK(locks[j], j)'
    <3> SUFFICES ASSUME NEW j \in Instances, NEW w \in locks[j].queue
                 PROVE  /\ pc'[w.task] \in {"waiting", "timedOut"}
                        /\ req'[w.task] = [session |-> w.session, inst |-> j,
                                          type |-> w.type]
                        /\ w.task \notin notified'
      BY <1>2 DEF QueueOK
    <3>1. pc'[w.task] = pc[w.task] /\ req'[w.task] = req[w.task]
      BY <1>2, <2>1
    <3> QED BY <1>2, <2>1, <3>1
  <2> QED BY <1>2, <2>2 DEF TableOK, EntryOK, IsOrdered, Compatible
<1>3. ASSUME NEW s \in Sessions, Unregister(t, s)
      PROVE  TableOK' /\ CallsOK'
  <2>1. TableOK'
    BY <1>2, <1>3 DEF Unregister, Idle, CallsOK
  <2>2. [session |-> s] \in CloseRequest
    BY DEF CloseRequest
  <2>3. CallsOK'
    BY <1>1, <1>3, <2>2 DEF Unregister, Idle, CallsOK, PC
  <2> QED BY <2>1, <2>3
<1>4. ASSUME NEW i \in Instances, CloseRelease(t, i)
      PROVE  TableOK' /\ CallsOK'
  <2>1. /\ ReleaseEntry(t, i, {req[t].session})
        /\ todo' = [todo EXCEPT ![t] = @ \ {i}]
        /\ UNCHANGED <<active, pc, req>>
    BY <1>4 DEF CloseRelease
  <2>2. /\ TableOK' /\ emptied' \in [Actors -> SUBSET Instances]
        /\ notified' \subseteq Tasks /\ \A u \in notified' : pc'[u] = "waiting"
    BY <1>1, <2>1, ReleaseStep
  <2> QED BY <1>1, <2>1, <2>2 DEF CallsOK
<1>5. ASSUME NEW i \in Instances, Purge(t, i)
      PROVE  TableOK' /\ CallsOK'
  <2> DEFINE next == WithoutWaiters(locks[i], req[t].session)
  <2>1. EntryOK(locks[i]) /\ (i \in keys \/ locks[i] = EmptyState)
    BY DEF TableOK
  <2>2. EntryOK(next) /\ QueueShrinks(locks[i], next)
    BY <2>1, WithoutWaitersEntry
  <2>3. i \in keys \/ next = EmptyState
    <3>1. WithoutWaiters(EmptyState, req[t].session) = EmptyState
      BY DEF WithoutWaiters, EmptyState, Without
    <3> QED BY <2>1, <3>1
  <2>4. /\ locks' = [locks EXCEPT ![i] = next]
        /\ todo' = [todo EXCEPT ![t] = @ \ {i}]
        /\ UNCHANGED <<keys, active, pc, req, emptied, notified>>
    BY <1>5 DEF Purge
  <2> HIDE DEF next
  <2>5. TableOK'
    BY <2>2, <2>3, <2>4, EntryStep DEF TableOK
  <2>6. CallsOK'
    BY <1>1, <2>4 DEF CallsOK
  <2> QED BY <2>5, <2>6
<1>6. ASSUME StartPurge(t)
      PROVE  TableOK' /\ CallsOK'
  <2>1. TableOK'
    BY <1>2, <1>6 DEF StartPurge, CallsOK
  <2>2. CallsOK'
    BY <1>1, <1>6 DEF StartPurge, CallsOK, PC
  <2> QED BY <2>1, <2>2
<1>7. ASSUME Unregistered(t)
      PROVE  TableOK' /\ CallsOK'
  <2>1. pc[t] = "purge" /\ t \notin notified
    BY <1>7 DEF Unregistered, CallsOK
  <2>2. TableOK'
    BY <1>2, <1>7, <2>1 DEF Unregistered, Return, CallsOK
  <2>3. CallsOK'
    BY <1>7, <2>1, ReturnCalls DEF Unregistered
  <2> QED BY <2>2, <2>3
<1> QED BY <1>3, <1>4, <1>5, <1>6, <1>7

\* The steps of the reaper.
LEMMA ReaperSteps ==
    ASSUME TableOK, CallsOK
    PROVE  /\ StartReaping => TableOK' /\ CallsOK'
           /\ \A i \in Instances : Reap(i) => TableOK' /\ CallsOK'
<1>1. Reaper \in Actors /\ keys \in SUBSET Instances
  BY DEF Actors, TableOK
<1>2. ASSUME StartReaping
      PROVE  TableOK' /\ CallsOK'
  <2>1. TableOK'
    BY <1>2 DEF StartReaping, TableOK, QueueOK, EntryOK, IsOrdered, Compatible
  <2>2. CallsOK'
    BY <1>1, <1>2 DEF StartReaping, CallsOK
  <2> QED BY <2>1, <2>2
<1>3. ASSUME NEW i \in Instances, Reap(i)
      PROVE  TableOK' /\ CallsOK'
  <2> DEFINE next == Reaped(locks[i])
  <2>1. EntryOK(locks[i]) /\ (i \in keys \/ locks[i] = EmptyState)
    BY DEF TableOK
  <2>2. EntryOK(next) /\ QueueShrinks(locks[i], next)
    BY <2>1, ReapedEntry
  <2>3. Reaped(EmptyState) = EmptyState
    BY DEF Reaped, ReapedExclusive, ReapedObservers, ExclusiveExpired,
           ExpiredObservers, EmptyState
  <2>4. i \in keys \/ next = EmptyState
    BY <2>1, <2>3
  <2>5. /\ locks' = [locks EXCEPT ![i] = next] /\ locks'[i] = next
        /\ todo' = [todo EXCEPT ![Reaper] = @ \ {i}]
        /\ UNCHANGED <<keys, active, pc, req>>
        /\ notified' = notified \cup {t \in Popped(locks[i], next) : pc[t] = "waiting"}
        /\ emptied' = [emptied EXCEPT ![Reaper] =
               IF i \in keys /\ IsEmpty(next) THEN {i} ELSE {}]
    BY <1>3 DEF Reap, Wake, TableOK
  <2> HIDE DEF next
  <2>6. TableOK'
    BY <2>2, <2>4, <2>5, EntryStep DEF TableOK
  <2>7. Popped(locks[i], next) \subseteq Tasks
    BY <2>1 DEF EntryOK, LockState, WaitEntry, Popped, Queued
  <2>8. CallsOK'
    BY <1>1, <2>5, <2>7 DEF CallsOK
  <2> QED BY <2>6, <2>8
<1> QED BY <1>2, <1>3

-----------------------------------------------------------------------------
(* The theorems                                                            *)

\* Every step of the manager keeps the invariant.
LEMMA NextIInv == IInv /\ [Next]_vars => IInv'
<1> SUFFICES ASSUME TableOK, CallsOK, [Next]_vars
             PROVE  TableOK' /\ CallsOK'
  <2>1. (IInv <=> TableOK /\ CallsOK) /\ (IInv <=> TableOK /\ CallsOK)'
    BY IInvParts, PTL
  <2> QED BY <2>1
<1>1. ASSUME NEW s \in Sessions, Register(s)
      PROVE  TableOK' /\ CallsOK'
  BY <1>1 DEF Register, TableOK, CallsOK, QueueOK, EntryOK, IsOrdered, Compatible
<1>2. ASSUME NEW s \in Sessions, NEW i \in Instances, NEW type \in LockType,
             NEW auto \in BOOLEAN, Acquire(s, i, type, auto)
      PROVE  TableOK' /\ CallsOK'
  BY <1>2, OneLockSteps
<1>3. ASSUME NEW s \in Sessions, NEW i \in Instances, Renew(s, i) \/ Expire(s, i)
      PROVE  TableOK' /\ CallsOK'
  BY <1>3, OneLockSteps
<1>4. ASSUME NEW t \in Tasks, NEW s \in Sessions, NEW i \in Instances,
             NEW type \in LockType, AcquireOrWait(t, s, i, type)
      PROVE  TableOK' /\ CallsOK'
  BY <1>4, AcquireOrWaitStep
<1>5. ASSUME NEW t \in Tasks, NEW i \in Instances, NEW S \in Matches, Release(t, i, S)
      PROVE  TableOK' /\ CallsOK'
  BY <1>5, ReleaseCallStep
<1>6. ASSUME NEW t \in Tasks, NEW s \in Sessions, Unregister(t, s)
      PROVE  TableOK' /\ CallsOK'
  BY <1>6, UnregisterSteps
<1>7. ASSUME NEW t \in Tasks, CallStep(t)
      PROVE  TableOK' /\ CallsOK'
  <2>1. CASE Enqueue(t)
    BY <2>1, EnqueueStep
  <2>2. CASE Notified(t)
    BY <2>2, NotifiedStep
  <2>3. CASE Timeout(t)
    BY <2>3, TimeoutStep
  <2>4. CASE RemoveFromQueue(t)
    BY <2>4, RemoveFromQueueStep
  <2>5. ASSUME NEW i \in Instances, CloseRelease(t, i) \/ Purge(t, i)
        PROVE  TableOK' /\ CallsOK'
    BY <2>5, UnregisterSteps
  <2>6. CASE StartPurge(t) \/ Unregistered(t)
    BY <2>6, UnregisterSteps
  <2>7. CASE RemoveEntry(t)
    BY <2>7, RemoveEntryStep DEF Actors
  <2> QED BY <1>7, <2>1, <2>2, <2>3, <2>4, <2>5, <2>6, <2>7 DEF CallStep
<1>8. ASSUME ReaperStep
      PROVE  TableOK' /\ CallsOK'
  BY <1>8, ReaperSteps, RemoveEntryStep DEF ReaperStep, Actors
<1>9. CASE UNCHANGED vars
  BY <1>9 DEF vars, TableOK, CallsOK, QueueOK, EntryOK, IsOrdered, Compatible
<1> QED BY <1>1, <1>2, <1>3, <1>4, <1>5, <1>6, <1>7, <1>8, <1>9 DEF Next

\* InstanceLockManager keeps its invariant in every run, whoever calls it.
THEOREM Invariance == Spec => []IInv
  BY InitIInv, NextIInv, PTL DEF Spec

\* The table, the calls in progress and the wait queues stay well formed.
THEOREM TypeCorrect == Spec => []TypeOK
  BY Invariance, PTL DEF IInv

\* acquire_inner: an exclusive lock excludes all others, and a session has at
\* most one lock on an instance.
THEOREM LocksAlwaysCompatible == Spec => []LocksCompatible
  BY Invariance, PTL DEF IInv

\* acquire_or_wait: no entry of a queue outlives the call that waits in it.
THEOREM WaitersAlwaysLive == Spec => []WaitersAreLive
  BY Invariance, PTL DEF IInv

-----------------------------------------------------------------------------
(* LockManager implements RwLease: under the refinement mapping that keeps *)
(* of an entry its exclusive holder and the set of its observers, every    *)
(* step of the manager is a grant, the end of some leases, or no step.     *)

Holder(st) == IF st.exclusive = NoLock THEN NoLock ELSE st.exclusive.session
Watchers(st) == {o.session : o \in st.observers}

\* What may happen to one entry in one step of RwLease.
LeaseStep(st, next) ==
    \/ Holder(next) = Holder(st) /\ Watchers(next) = Watchers(st)
    \/ \E s \in Sessions :
           /\ Holder(st) = NoLock /\ Watchers(st) \subseteq {s}
           /\ Holder(next) = s /\ Watchers(next) = {}
    \/ \E s \in Sessions :
           /\ Holder(st) = NoLock /\ Holder(next) = NoLock
           /\ Watchers(next) = Watchers(st) \cup {s}
    \/ Holder(next) = NoLock /\ Watchers(next) = Watchers(st)
    \/ /\ Holder(next) = Holder(st)
       /\ \E S \in SUBSET Sessions : Watchers(next) = Watchers(st) \ S

\* A step that changes one entry as a lease may change is a step of RwLease.
LEMMA LeaseStepRefines ==
    ASSUME TableOK, NEW i \in Instances, NEW next, LeaseStep(locks[i], next),
           locks' = [locks EXCEPT ![i] = next]
    PROVE  [Leases!Next]_(Leases!vars)
<1> DEFINE ex == [j \in Instances |-> Holder(locks[j])]
           ob == [j \in Instances |-> Watchers(locks[j])]
<1>1. \A j \in Instances : locks'[j] = IF j = i THEN next ELSE locks[j]
  BY DEF TableOK
<1>2. /\ ex' = [ex EXCEPT ![i] = Holder(next)]
      /\ ob' = [ob EXCEPT ![i] = Watchers(next)]
  <2>1. /\ ex' = [j \in Instances |-> Holder(locks'[j])]
        /\ ob' = [j \in Instances |-> Watchers(locks'[j])]
    BY DEF Holder, Watchers
  <2>2. ASSUME NEW j \in Instances
        PROVE  /\ Holder(locks'[j]) = IF j = i THEN Holder(next) ELSE Holder(locks[j])
               /\ Watchers(locks'[j]) = IF j = i THEN Watchers(next) ELSE Watchers(locks[j])
    <3>1. CASE j = i
      BY <1>1, <3>1
    <3>2. CASE j # i
      <4>1. locks'[j] = locks[j]
        BY <1>1, <3>2
      <4> QED BY <3>2, <4>1
    <3> QED BY <3>1, <3>2
  <2>3. /\ ex' = [j \in Instances |-> IF j = i THEN Holder(next) ELSE Holder(locks[j])]
        /\ ob' = [j \in Instances |-> IF j = i THEN Watchers(next) ELSE Watchers(locks[j])]
    BY <2>1, <2>2
  <2>4. /\ [ex EXCEPT ![i] = Holder(next)]
             = [j \in Instances |-> IF j = i THEN Holder(next) ELSE Holder(locks[j])]
        /\ [ob EXCEPT ![i] = Watchers(next)]
             = [j \in Instances |-> IF j = i THEN Watchers(next) ELSE Watchers(locks[j])]
    OBVIOUS
  <2> QED BY <2>3, <2>4
<1>3. ex[i] = Holder(locks[i]) /\ ob[i] = Watchers(locks[i])
  OBVIOUS
<1>4. /\ ex = [j \in Instances |-> IF locks[j].exclusive = NoLock THEN NoLock
                                   ELSE locks[j].exclusive.session]
      /\ ob = [j \in Instances |-> {o.session : o \in locks[j].observers}]
  BY DEF Holder, Watchers
<1>5. /\ ex' = [j \in Instances |-> IF locks'[j].exclusive = NoLock THEN NoLock
                                    ELSE locks'[j].exclusive.session]
      /\ ob' = [j \in Instances |-> {o.session : o \in locks'[j].observers}]
  BY DEF Holder, Watchers
<1>6. /\ ex = [ex EXCEPT ![i] = ex[i]]
      /\ ob = [ob EXCEPT ![i] = ob[i]]
  OBVIOUS
<1> HIDE DEF ex, ob
<1>7. CASE Holder(next) = Holder(locks[i]) /\ Watchers(next) = Watchers(locks[i])
  <2>1. ex' = ex /\ ob' = ob
    BY <1>2, <1>3, <1>6, <1>7
  <2> QED BY <1>4, <1>5, <2>1 DEF Leases!vars
<1>8. ASSUME NEW s \in Sessions,
             Holder(locks[i]) = NoLock, Watchers(locks[i]) \subseteq {s},
             Holder(next) = s, Watchers(next) = {}
      PROVE  Leases!Next
  <2>1. Leases!GrantExclusive(s, i)
    BY <1>2, <1>3, <1>4, <1>5, <1>8 DEF Leases!GrantExclusive
  <2> QED BY <2>1 DEF Leases!Next
<1>9. ASSUME NEW s \in Sessions, Holder(locks[i]) = NoLock, Holder(next) = NoLock,
             Watchers(next) = Watchers(locks[i]) \cup {s}
      PROVE  Leases!Next
  <2>1. ex' = ex /\ ob' = [ob EXCEPT ![i] = ob[i] \cup {s}] /\ ex[i] = NoLock
    BY <1>2, <1>3, <1>6, <1>9
  <2>2. Leases!GrantObserver(s, i)
    BY <1>4, <1>5, <2>1 DEF Leases!GrantObserver
  <2> QED BY <2>2 DEF Leases!Next
<1>10. ASSUME Holder(next) = NoLock, Watchers(next) = Watchers(locks[i])
       PROVE  Leases!Next
  <2>1. ex' = [ex EXCEPT ![i] = NoLock] /\ ob' = ob
    BY <1>2, <1>3, <1>6, <1>10
  <2>2. Leases!EndExclusive(i)
    BY <1>4, <1>5, <2>1 DEF Leases!EndExclusive
  <2> QED BY <2>2 DEF Leases!Next
<1>11. ASSUME Holder(next) = Holder(locks[i]), NEW S \in SUBSET Sessions,
              Watchers(next) = Watchers(locks[i]) \ S
       PROVE  Leases!Next
  <2>1. ex' = ex /\ ob' = [ob EXCEPT ![i] = ob[i] \ S]
    BY <1>2, <1>3, <1>6, <1>11
  <2>2. Leases!EndObservers(i, S)
    BY <1>4, <1>5, <2>1 DEF Leases!EndObservers
  <2> QED BY <2>2 DEF Leases!Next
<1> QED BY <1>7, <1>8, <1>9, <1>10, <1>11 DEF LeaseStep

-----------------------------------------------------------------------------
(* What the operations do to the leases of one entry                       *)

\* A state of the locks that stays the same is no step of the leases.
LEMMA SameLeases ==
    ASSUME NEW st, NEW next,
           next.exclusive = st.exclusive, next.observers = st.observers
    PROVE  LeaseStep(st, next)
  BY DEF LeaseStep, Holder, Watchers

\* Giving up locks ends leases: never an exclusive one and others at once,
\* since they are compatible.
LEMMA EndedLeases ==
    ASSUME NEW st, EntryOK(st), NEW next,
           next.exclusive \in {st.exclusive, NoLock},
           next.observers \subseteq st.observers
    PROVE  LeaseStep(st, next)
<1>1. CASE st.exclusive = NoLock
  <2> DEFINE S == Watchers(st) \ Watchers(next)
  <2>1. Watchers(st) \subseteq Sessions /\ Watchers(next) \subseteq Watchers(st)
    BY DEF Watchers, EntryOK, LockState, LockInfo
  <2>2. S \in SUBSET Sessions /\ Watchers(next) = Watchers(st) \ S
    BY <2>1
  <2>3. Holder(next) = Holder(st)
    BY <1>1 DEF Holder
  <2> QED BY <2>2, <2>3 DEF LeaseStep
<1>2. CASE st.exclusive # NoLock
  <2>1. next.observers = st.observers
    BY <1>2 DEF EntryOK, Compatible
  <2>2. CASE next.exclusive = st.exclusive
    BY <2>1, <2>2, SameLeases
  <2>3. CASE next.exclusive = NoLock
    BY <2>1, <2>3 DEF LeaseStep, Holder, Watchers
  <2> QED BY <2>2, <2>3
<1> QED BY <1>1, <1>2

\* A release is a step of the leases, with the promotions it makes.
LEMMA ReleasedLeases ==
    ASSUME NEW st, EntryOK(st), NEW S
    PROVE  LeaseStep(st, Released(st, S))
<1>1. EntryOK(Dropped(st, S))
  BY DroppedEntry
<1>2. /\ Dropped(st, S).exclusive \in {st.exclusive, NoLock}
      /\ Dropped(st, S).observers \subseteq st.observers
  BY DEF Dropped, EntryOK, LockState
<1>3. /\ Released(st, S).exclusive = Dropped(st, S).exclusive
      /\ Released(st, S).observers = Dropped(st, S).observers
  BY <1>1, PromotedEntry DEF Released
<1> QED BY <1>2, <1>3, EndedLeases

\* The reaper ends leases and grants none.
LEMMA ReapedLocks ==
    ASSUME NEW st, EntryOK(st)
    PROVE  /\ Reaped(st).exclusive \in {st.exclusive, NoLock}
           /\ Reaped(st).observers \subseteq st.observers
<1>1. ASSUME NEW u, EntryOK(u)
      PROVE  /\ EntryOK(ReapedExclusive(u))
             /\ ReapedExclusive(u).exclusive \in {u.exclusive, NoLock}
             /\ ReapedExclusive(u).observers = u.observers
  <2> DEFINE v == [u EXCEPT !.exclusive = NoLock]
  <2>1. EntryOK(v) /\ v.exclusive = NoLock /\ v.observers = u.observers
    BY <1>1 DEF EntryOK, Compatible, LockState
  <2>2. /\ EntryOK(Promoted(v))
        /\ Promoted(v).exclusive = NoLock /\ Promoted(v).observers = u.observers
    BY <2>1, PromotedEntry
  <2> QED BY <1>1, <2>2 DEF ReapedExclusive
<1>2. ASSUME NEW u, EntryOK(u)
      PROVE  /\ ReapedObservers(u).exclusive = u.exclusive
             /\ ReapedObservers(u).observers \subseteq u.observers
  <2> DEFINE v == [u EXCEPT !.observers = @ \ ExpiredObservers(u)]
  <2>1. /\ EntryOK(v) /\ v.exclusive = u.exclusive
        /\ v.observers \subseteq u.observers
    BY <1>2 DEF EntryOK, Compatible, LockState
  <2>2. /\ Promoted(v).exclusive = u.exclusive
        /\ Promoted(v).observers \subseteq u.observers
    BY <2>1, PromotedEntry
  <2> QED BY <1>2, <2>2 DEF ReapedObservers
<1> QED BY <1>1, <1>2 DEF Reaped

\* So is what the reaper does to one instance.
LEMMA ReapedLeases ==
    ASSUME NEW st, EntryOK(st)
    PROVE  LeaseStep(st, Reaped(st))
  BY ReapedLocks, EndedLeases

\* A renewal and an expiry change what a lease says, not who holds it.
LEMMA FlaggedLeases ==
    ASSUME NEW st, EntryOK(st), NEW s
    PROVE  LeaseStep(st, Renewed(st, s)) /\ LeaseStep(st, Expired(st, s))
<1>1. st.exclusive \in LockInfo \cup {NoLock} /\ st.observers \subseteq LockInfo
  BY DEF EntryOK, LockState
<1>2. ASSUME NEW b \in BOOLEAN, NEW next,
             next = [st EXCEPT
                       !.exclusive = IF @ # NoLock /\ @.session = s
                                     THEN [@ EXCEPT !.expired = b] ELSE @,
                       !.observers = {IF o.session = s
                                      THEN [o EXCEPT !.expired = b]
                                      ELSE o : o \in @}]
      PROVE  LeaseStep(st, next)
  <2> DEFINE exc == IF st.exclusive # NoLock /\ st.exclusive.session = s
                    THEN [st.exclusive EXCEPT !.expired = b] ELSE st.exclusive
             flagged(o) == IF o.session = s THEN [o EXCEPT !.expired = b] ELSE o
  <2>1. next.exclusive = exc /\ next.observers = {flagged(o) : o \in st.observers}
    BY <1>2 DEF EntryOK, LockState
  <2>2. \A o \in st.observers : flagged(o).session = o.session
    BY <1>1 DEF LockInfo
  <2>3. /\ exc = NoLock <=> st.exclusive = NoLock
        /\ exc # NoLock => exc.session = st.exclusive.session
    BY <1>1, NoLockAssumption DEF LockInfo
  <2> HIDE DEF exc, flagged
  <2>4. Holder(next) = Holder(st)
    BY <2>1, <2>3 DEF Holder
  <2>5. Watchers(next) = Watchers(st)
    BY <2>1, <2>2 DEF Watchers
  <2> QED BY <2>4, <2>5 DEF LeaseStep
<1> QED BY <1>2 DEF Renewed, Expired

\* acquire_inner grants what no lease in force conflicts with.
LEMMA AttemptLeases ==
    ASSUME NEW st, EntryOK(st), NEW s \in Sessions, NEW type \in LockType,
           NEW auto \in BOOLEAN
    PROVE  LeaseStep(st, IF Acquirable(st, s, type)
                         THEN Acquired(st, s, type, auto) ELSE st)
<1>1. CASE Renews(st, s, type)
  BY <1>1, FlaggedLeases DEF Acquired, Acquirable
<1>2. CASE ~Renews(st, s, type) /\ Grantable(st, s, type)
  <2> DEFINE lock == NewLock(s, auto)
             next == Granted(st, s, type, auto)
  <2>1. lock # NoLock /\ lock.session = s
    <3>1. lock \in LockInfo /\ lock.session = s
      BY DEF NewLock, LockInfo
    <3> QED BY <3>1, NoLockAssumption
  <2>2. st.exclusive = NoLock /\ Holder(st) = NoLock
    BY <1>2 DEF Grantable, Holder
  <2>3. CASE type = Exclusive
    <3>1. next.exclusive = lock /\ next.observers = {}
      BY <2>3 DEF Granted, EntryOK, LockState
    <3>2. Watchers(st) \subseteq {s}
      BY <1>2, <2>3 DEF Grantable, IsSelfUpgrade, Watchers
    <3>3. Holder(next) = s /\ Watchers(next) = {}
      BY <2>1, <3>1 DEF Holder, Watchers
    <3> HIDE DEF next
    <3>4. LeaseStep(st, next)
      BY <2>2, <3>2, <3>3 DEF LeaseStep
    <3> QED BY <1>2, <3>4 DEF Acquirable, Acquired, next
  <2>4. CASE type # Exclusive
    <3>1. next.exclusive = NoLock /\ next.observers = st.observers \cup {lock}
      BY <2>2, <2>4 DEF Granted, EntryOK, LockState
    <3>2. Holder(next) = NoLock /\ Watchers(next) = Watchers(st) \cup {s}
      BY <2>1, <3>1 DEF Holder, Watchers
    <3> HIDE DEF next
    <3>3. LeaseStep(st, next)
      BY <2>2, <3>2 DEF LeaseStep
    <3> QED BY <1>2, <3>3 DEF Acquirable, Acquired, next
  <2> QED BY <2>3, <2>4
<1>3. CASE ~Acquirable(st, s, type)
  BY <1>3, SameLeases
<1> QED BY <1>1, <1>2, <1>3 DEF Acquirable

-----------------------------------------------------------------------------
(* The refinement                                                          *)

\* No leases at first.
LEMMA LeaseInit == Init => Leases!Init
  BY DEF Init, Leases!Init, EmptyState

\* A step that leaves the table as it is.
LEMMA UnchangedLeases ==
    ASSUME locks' = locks
    PROVE  [Leases!Next]_(Leases!vars)
  BY DEF Leases!vars

\* A step that puts back the entry it found.
LEMMA RestoredEntry ==
    ASSUME TableOK, NEW i \in Instances, SetEntry(i, locks[i])
    PROVE  locks' = locks
  BY DEF SetEntry, TableOK

\* release_with_token, for whichever actor.
LEMMA ReleaseEntryLeases ==
    ASSUME TableOK, NEW a \in Actors, NEW i \in Instances, NEW S,
           ReleaseEntry(a, i, S)
    PROVE  [Leases!Next]_(Leases!vars)
<1>1. EntryOK(locks[i])
  BY DEF TableOK
<1> DEFINE next == IF Holds(locks[i], S) THEN Released(locks[i], S) ELSE locks[i]
<1>2. LeaseStep(locks[i], next)
  BY <1>1, ReleasedLeases, SameLeases
<1>3. locks' = [locks EXCEPT ![i] = next]
  BY DEF ReleaseEntry, SetEntry
<1> HIDE DEF next
<1> QED BY <1>2, <1>3, LeaseStepRefines

\* An empty entry has no leases to lose.
LEMMA RemoveEntryLeases ==
    ASSUME TableOK, CallsOK, NEW a \in Actors, RemoveEntry(a)
    PROVE  [Leases!Next]_(Leases!vars)
<1>1. PICK i \in emptied[a] : locks' = [locks EXCEPT ![i] = EmptyState]
  BY DEF RemoveEntry
<1>2. i \in Instances
  BY DEF CallsOK
<1>3. EntryOK(locks[i])
  BY <1>2 DEF TableOK
<1>4. LeaseStep(locks[i], EmptyState)
  BY <1>3, EndedLeases DEF EmptyState
<1> QED BY <1>1, <1>2, <1>4, LeaseStepRefines

\* retain changes the queue only.
LEMMA WithoutWaitersLeases ==
    ASSUME TableOK, NEW i \in Instances, NEW s,
           locks' = [locks EXCEPT ![i] = WithoutWaiters(@, s)]
    PROVE  [Leases!Next]_(Leases!vars)
<1> DEFINE next == WithoutWaiters(locks[i], s)
<1>1. next.exclusive = locks[i].exclusive /\ next.observers = locks[i].observers
  BY DEF WithoutWaiters, TableOK, EntryOK, LockState
<1>2. LeaseStep(locks[i], next)
  BY <1>1, SameLeases
<1> HIDE DEF next
<1>3. locks' = [locks EXCEPT ![i] = next]
  BY DEF next
<1> QED BY <1>2, <1>3, LeaseStepRefines

\* An attempt to acquire grants a lease or none.
LEMMA AttemptLeasesStep ==
    ASSUME TableOK, NEW i \in Instances, NEW s \in Sessions,
           NEW type \in LockType, NEW auto \in BOOLEAN,
           SetEntry(i, IF Acquirable(locks[i], s, type)
                       THEN Acquired(locks[i], s, type, auto) ELSE locks[i])
    PROVE  [Leases!Next]_(Leases!vars)
<1> DEFINE next == IF Acquirable(locks[i], s, type)
                   THEN Acquired(locks[i], s, type, auto) ELSE locks[i]
<1>1. LeaseStep(locks[i], next)
  BY AttemptLeases DEF TableOK
<1>2. locks' = [locks EXCEPT ![i] = next]
  BY DEF SetEntry
<1> HIDE DEF next
<1> QED BY <1>1, <1>2, LeaseStepRefines

\* The steps of acquire_or_wait.
LEMMA WaitLeases ==
    ASSUME TableOK, CallsOK, NEW t \in Tasks,
           Enqueue(t) \/ Notified(t) \/ Timeout(t) \/ RemoveFromQueue(t)
    PROVE  [Leases!Next]_(Leases!vars)
<1>1. CASE Enqueue(t)
  <2> DEFINE r    == req[t]
             next == Enqueued(locks[r.inst], t, r.session, r.type)
  <2>1. r.inst \in Instances
    BY <1>1 DEF Enqueue, CallsOK, Request
  <2>2. locks[r.inst] \in LockState
    BY <2>1 DEF TableOK, EntryOK
  <2>3. /\ next.exclusive = locks[r.inst].exclusive
        /\ next.observers = locks[r.inst].observers
    BY <2>2 DEF Enqueued, LockState
  <2>4. LeaseStep(locks[r.inst], next)
    BY <2>3, SameLeases
  <2>5. locks' = [locks EXCEPT ![r.inst] = next]
    BY <1>1 DEF Enqueue, SetEntry
  <2> HIDE DEF next
  <2> QED BY <2>1, <2>4, <2>5, LeaseStepRefines
<1>2. CASE Notified(t)
  <2>1. /\ req[t].inst \in Instances /\ req[t].session \in Sessions
        /\ req[t].type \in LockType
    BY <1>2 DEF Notified, CallsOK, Request
  <2> QED BY <1>2, <2>1, AttemptLeasesStep DEF Notified
<1>3. CASE Timeout(t)
  BY <1>3, UnchangedLeases DEF Timeout
<1>4. CASE RemoveFromQueue(t)
  <2>1. req[t].inst \in Instances
    BY <1>4 DEF RemoveFromQueue, CallsOK, Request
  <2> QED BY <1>4, <2>1, WithoutWaitersLeases DEF RemoveFromQueue
<1> QED BY <1>1, <1>2, <1>3, <1>4

\* Every step of the manager is a step of the leases.
LEMMA NextLeases == IInv /\ [Next]_vars => [Leases!Next]_(Leases!vars)
<1> SUFFICES ASSUME TableOK, CallsOK, [Next]_vars
             PROVE  [Leases!Next]_(Leases!vars)
  BY IInvParts
<1>1. ASSUME NEW s \in Sessions, Register(s)
      PROVE  [Leases!Next]_(Leases!vars)
  BY <1>1, UnchangedLeases DEF Register
<1>2. ASSUME NEW s \in Sessions, NEW i \in Instances, NEW type \in LockType,
             NEW auto \in BOOLEAN, Acquire(s, i, type, auto)
      PROVE  [Leases!Next]_(Leases!vars)
  BY <1>2, AttemptLeasesStep DEF Acquire
<1>3. ASSUME NEW s \in Sessions, NEW i \in Instances, Renew(s, i) \/ Expire(s, i)
      PROVE  [Leases!Next]_(Leases!vars)
  <2>1. EntryOK(locks[i])
    BY DEF TableOK
  <2>2. CASE Renew(s, i)
    BY <2>1, <2>2, FlaggedLeases, LeaseStepRefines DEF Renew
  <2>3. CASE Expire(s, i)
    BY <2>1, <2>3, FlaggedLeases, LeaseStepRefines DEF Expire
  <2> QED BY <1>3, <2>2, <2>3
<1>4. ASSUME NEW t \in Tasks, NEW s \in Sessions, NEW i \in Instances,
             NEW type \in LockType, AcquireOrWait(t, s, i, type)
      PROVE  [Leases!Next]_(Leases!vars)
  BY <1>4, RestoredEntry, UnchangedLeases DEF AcquireOrWait
<1>5. ASSUME NEW t \in Tasks, NEW i \in Instances, NEW S \in Matches, Release(t, i, S)
      PROVE  [Leases!Next]_(Leases!vars)
  BY <1>5, ReleaseEntryLeases DEF Release, Actors
<1>6. ASSUME NEW t \in Tasks, NEW s \in Sessions, Unregister(t, s)
      PROVE  [Leases!Next]_(Leases!vars)
  BY <1>6, UnchangedLeases DEF Unregister
<1>7. ASSUME NEW t \in Tasks, CallStep(t)
      PROVE  [Leases!Next]_(Leases!vars)
  <2>1. CASE Enqueue(t) \/ Notified(t) \/ Timeout(t) \/ RemoveFromQueue(t)
    BY <2>1, WaitLeases
  <2>2. ASSUME NEW i \in Instances, CloseRelease(t, i)
        PROVE  [Leases!Next]_(Leases!vars)
    BY <2>2, ReleaseEntryLeases DEF CloseRelease, Actors
  <2>3. ASSUME NEW i \in Instances, Purge(t, i)
        PROVE  [Leases!Next]_(Leases!vars)
    BY <2>3, WithoutWaitersLeases DEF Purge
  <2>4. CASE StartPurge(t) \/ Unregistered(t)
    BY <2>4, UnchangedLeases DEF StartPurge, Unregistered
  <2>5. CASE RemoveEntry(t)
    BY <2>5, RemoveEntryLeases DEF Actors
  <2> QED BY <1>7, <2>1, <2>2, <2>3, <2>4, <2>5 DEF CallStep
<1>8. ASSUME ReaperStep
      PROVE  [Leases!Next]_(Leases!vars)
  <2>1. CASE StartReaping
    BY <2>1, UnchangedLeases DEF StartReaping
  <2>2. ASSUME NEW i \in Instances, Reap(i)
        PROVE  [Leases!Next]_(Leases!vars)
    <3>1. LeaseStep(locks[i], Reaped(locks[i]))
      BY ReapedLeases DEF TableOK
    <3> QED BY <2>2, <3>1, LeaseStepRefines DEF Reap
  <2>3. CASE RemoveEntry(Reaper)
    BY <2>3, RemoveEntryLeases DEF Actors
  <2> QED BY <1>8, <2>1, <2>2, <2>3 DEF ReaperStep
<1>9. CASE UNCHANGED vars
  BY <1>9, UnchangedLeases DEF vars
<1> QED BY <1>1, <1>2, <1>3, <1>4, <1>5, <1>6, <1>7, <1>8, <1>9 DEF Next

\* InstanceLockManager implements reader-writer leases: whatever its callers,
\* the reaper and the removal of empty entries do, and in whichever order, a
\* lease is granted only next to leases it is compatible with.
THEOREM Refinement == Spec => ImplementsLeases
  BY Invariance, LeaseInit, NextLeases, PTL DEF Spec, ImplementsLeases, Leases!Spec

-----------------------------------------------------------------------------
(* try_promote is first come, first served                                 *)

\* Of the waiters of st, those that left before next are ahead of the rest.
InOrder(st, next) ==
    \A v, w \in st.queue :
        v.task \in w.ahead /\ w.task \in Popped(st, next) =>
            v.task \in Popped(st, next)

\* Those that are left stand as they stood.
KeepsAhead(st, next) ==
    \A v, w \in st.queue :
        /\ v.task \in w.ahead
        /\ v.task \in Queued(next.queue) /\ w.task \in Queued(next.queue)
        => \E x, y \in next.queue :
               x.task = v.task /\ y.task = w.task /\ x.task \in y.ahead

\* What can be promoted is a prefix of the queue.
LEMMA PromotableAhead ==
    ASSUME NEW st, IsOrdered(st.queue), NEW v \in st.queue,
           NEW w \in Promotable(st), v.task \in w.ahead
    PROVE  v \in Promotable(st)
<1>1. /\ w \in st.queue /\ st.exclusive = NoLock
      /\ BehindObservers(st.queue, w)
  BY DEF Promotable
<1>2. v.type = Observer /\ v.type # Exclusive
  BY <1>1 DEF BehindObservers, Observer, Exclusive
<1>3. v.ahead \subseteq w.ahead
  BY <1>1 DEF IsOrdered
<1>4. BehindObservers(st.queue, v)
  BY <1>1, <1>3 DEF BehindObservers
<1> QED BY <1>1, <1>2, <1>4 DEF Promotable

\* promote_waiters passes over nobody who could be ahead.
LEMMA PromotedInOrder ==
    ASSUME NEW st, EntryOK(st)
    PROVE  InOrder(st, Promoted(st)) /\ KeepsAhead(st, Promoted(st))
<1> DEFINE q == st.queue
           gone == Promotable(st)
           next == Promoted(st)
<1>1. gone \in SUBSET q /\ q \in SUBSET WaitEntry /\ IsOrdered(q)
  BY DEF EntryOK, LockState, Promotable
<1>2. next.queue = Without(q, gone) /\ Queued(next.queue) = Queued(q \ gone)
  BY <1>1, PromotedEntry, WithoutQueued
<1>3. \A w \in q : w.task \in Queued(next.queue) <=> w \notin gone
  <2> HIDE DEF next, gone, q
  <2>1. \A v, w \in q : v.task = w.task => v = w
    BY <1>1 DEF IsOrdered
  <2>2. \A w \in q : w.task \in Queued(q \ gone) <=> w \notin gone
    BY <1>1, <2>1 DEF Queued
  <2> QED BY <1>2, <2>2
<1>4. \A v \in q, w \in gone : v.task \in w.ahead => v \in gone
  BY <1>1, PromotableAhead
<1>5. InOrder(st, next)
  <2>1. \A w \in q : w.task \in Popped(st, next) <=> w \in gone
    BY <1>3 DEF Popped, Queued
  <2> HIDE DEF next, gone
  <2> QED BY <1>4, <2>1 DEF InOrder
<1>6. ASSUME NEW v \in q, NEW w \in q, v.task \in w.ahead,
             v \notin gone, w \notin gone
      PROVE  \E x, y \in next.queue :
                 x.task = v.task /\ y.task = w.task /\ x.task \in y.ahead
  <2> DEFINE x == [v EXCEPT !.ahead = @ \ Queued(gone)]
             y == [w EXCEPT !.ahead = @ \ Queued(gone)]
  <2>1. x \in next.queue /\ y \in next.queue
    BY <1>2, <1>6 DEF Without
  <2>2. /\ x.task = v.task
        /\ y.task = w.task /\ y.ahead = w.ahead \ Queued(gone)
    BY <1>1 DEF WaitEntry
  <2>3. v.task \notin Queued(gone)
    BY <1>1, <1>6 DEF Queued, IsOrdered
  <2> QED BY <1>6, <2>1, <2>2, <2>3
<1>7. KeepsAhead(st, next)
  <2> HIDE DEF next, gone
  <2> QED BY <1>3, <1>6 DEF KeepsAhead
<1> QED BY <1>5, <1>7

\* Two promotions in a row pop a prefix of the queue as well.
LEMMA InOrderTwice ==
    ASSUME NEW st, NEW u, NEW next, InOrder(st, u), KeepsAhead(st, u),
           InOrder(u, next), QueueShrinks(u, next)
    PROVE  InOrder(st, next)
<1> SUFFICES ASSUME NEW v \in st.queue, NEW w \in st.queue,
                    v.task \in w.ahead, w.task \in Popped(st, next)
             PROVE  v.task \notin Queued(next.queue)
  BY DEF InOrder, Popped, Queued
<1>1. Queued(next.queue) \subseteq Queued(u.queue)
  BY DEF QueueShrinks, Queued
<1>2. CASE w.task \notin Queued(u.queue)
  <2>1. w.task \in Popped(st, u)
    BY <1>2 DEF Popped
  <2>2. v.task \in Popped(st, u)
    BY <2>1 DEF InOrder
  <2> QED BY <1>1, <2>2 DEF Popped
<1>3. CASE v.task \notin Queued(u.queue)
  BY <1>1, <1>3
<1>4. CASE v.task \in Queued(u.queue) /\ w.task \in Queued(u.queue)
  <2>1. PICK x \in u.queue, y \in u.queue :
            x.task = v.task /\ y.task = w.task /\ x.task \in y.ahead
    BY <1>4 DEF KeepsAhead
  <2>2. y.task \in Popped(u, next)
    BY <1>4, <2>1 DEF Popped
  <2>3. x.task \in Popped(u, next)
    BY <2>1, <2>2 DEF InOrder
  <2> QED BY <2>1, <2>3 DEF Popped
<1> QED BY <1>2, <1>3, <1>4

\* An entry whose queue is the same pops nobody.
LEMMA SameInOrder ==
    ASSUME NEW st, NEW u, NEW next, u.queue = st.queue,
           InOrder(u, next), KeepsAhead(u, next)
    PROVE  InOrder(st, next) /\ KeepsAhead(st, next)
  BY DEF InOrder, KeepsAhead, Popped

\* A queue that stays the same is in order.
LEMMA UnchangedInOrder ==
    ASSUME NEW st, NEW next, next.queue = st.queue
    PROVE  InOrder(st, next) /\ KeepsAhead(st, next)
  BY DEF InOrder, KeepsAhead, Popped

\* A release wakes waiters in order, however often it promotes.
LEMMA ReleasedInOrder ==
    ASSUME NEW st, EntryOK(st), NEW S
    PROVE  InOrder(st, Released(st, S))
<1> DEFINE u == Dropped(st, S)
<1>1. EntryOK(u) /\ u.queue = st.queue
  BY DroppedEntry
<1>2. InOrder(u, Promoted(u)) /\ KeepsAhead(u, Promoted(u))
  BY <1>1, PromotedInOrder
<1>3. Released(st, S) = Promoted(u)
  BY DEF Released
<1> HIDE DEF u
<1> QED BY <1>1, <1>2, <1>3, SameInOrder

\* So does the reaper.
LEMMA ReapedInOrder ==
    ASSUME NEW st, EntryOK(st)
    PROVE  InOrder(st, Reaped(st))
<1>1. /\ EntryOK(ReapedExclusive(st))
      /\ InOrder(st, ReapedExclusive(st)) /\ KeepsAhead(st, ReapedExclusive(st))
  <2> DEFINE v == [st EXCEPT !.exclusive = NoLock]
  <2>1. EntryOK(v) /\ v.queue = st.queue
    BY DEF EntryOK, Compatible, LockState
  <2>2. /\ EntryOK(Promoted(v))
        /\ InOrder(v, Promoted(v)) /\ KeepsAhead(v, Promoted(v))
    BY <2>1, PromotedEntry, PromotedInOrder
  <2>3. InOrder(st, Promoted(v)) /\ KeepsAhead(st, Promoted(v))
    <3> HIDE DEF v
    <3> QED BY <2>1, <2>2, SameInOrder
  <2>4. ReapedExclusive(st) \in {st, Promoted(v)}
    BY DEF ReapedExclusive
  <2> HIDE DEF v
  <2> QED BY <2>2, <2>3, <2>4, UnchangedInOrder
<1>2. ASSUME NEW u, EntryOK(u)
      PROVE  InOrder(u, ReapedObservers(u)) /\ QueueShrinks(u, ReapedObservers(u))
  <2> DEFINE v == [u EXCEPT !.observers = @ \ ExpiredObservers(u)]
  <2>1. EntryOK(v) /\ v.queue = u.queue
    BY <1>2 DEF EntryOK, Compatible, LockState
  <2>2. InOrder(v, Promoted(v)) /\ KeepsAhead(v, Promoted(v))
    BY <2>1, PromotedInOrder
  <2>3. InOrder(u, Promoted(v))
    <3> HIDE DEF v
    <3> QED BY <2>1, <2>2, SameInOrder
  <2>4. QueueShrinks(v, Promoted(v)) /\ QueueShrinks(u, u)
    BY <2>1, PromotedShrinks, SameQueue
  <2>5. QueueShrinks(u, Promoted(v))
    BY <2>1, <2>4 DEF QueueShrinks
  <2>6. ReapedObservers(u) \in {u, Promoted(v)}
    BY DEF ReapedObservers
  <2> HIDE DEF v
  <2> QED BY <2>3, <2>4, <2>5, <2>6, UnchangedInOrder
<1>3. Reaped(st) = ReapedObservers(ReapedExclusive(st))
  BY DEF Reaped
<1> QED BY <1>1, <1>2, <1>3, InOrderTwice

\* A call is woken with every call ahead of it that still waits.
Fair ==
    \A i \in Instances : \A v, w \in locks[i].queue :
        /\ v.task \in w.ahead
        /\ w.task \in notified' \ notified
        => v.task \in notified' \/ pc[v.task] # "waiting"

\* One entry's queue is popped in order, and those popped are woken.
LEMMA WokenInOrder ==
    ASSUME TableOK, NEW i \in Instances, NEW next, InOrder(locks[i], next),
           Wake(Popped(locks[i], next))
    PROVE  Fair
<1> SUFFICES ASSUME NEW j \in Instances,
                    NEW v \in locks[j].queue, NEW w \in locks[j].queue,
                    v.task \in w.ahead, w.task \in notified' \ notified
             PROVE  v.task \in notified' \/ pc[v.task] # "waiting"
  BY Zenon DEF Fair
<1>1. w.task \in Popped(locks[i], next)
  BY DEF Wake
<1>2. PICK x \in locks[i].queue : x.task = w.task
  BY <1>1 DEF Popped, Queued
<1>3. j = i
  <2>1. /\ req[w.task] = [session |-> w.session, inst |-> j, type |-> w.type]
        /\ req[x.task] = [session |-> x.session, inst |-> i, type |-> x.type]
    BY <1>2 DEF TableOK, QueueOK
  <2> QED BY <1>2, <2>1
<1>4. v.task \in Popped(locks[i], next)
  BY <1>1, <1>3 DEF InOrder
<1> QED BY <1>4 DEF Wake

\* A release within any step that makes one.
LEMMA ReleaseEntryFair ==
    ASSUME TableOK, NEW a \in Actors, NEW i \in Instances, NEW S,
           ReleaseEntry(a, i, S)
    PROVE  Fair
<1> DEFINE next == IF Holds(locks[i], S) THEN Released(locks[i], S) ELSE locks[i]
<1>1. EntryOK(locks[i])
  BY DEF TableOK
<1>2. InOrder(locks[i], next)
  BY <1>1, ReleasedInOrder, UnchangedInOrder
<1>3. Wake(Popped(locks[i], next))
  BY DEF ReleaseEntry
<1> HIDE DEF next
<1> QED BY <1>2, <1>3, WokenInOrder

\* Every step wakes waiters in order.
LEMMA NextFair == IInv /\ [Next]_vars => Fair
<1> SUFFICES ASSUME TableOK, CallsOK, [Next]_vars
             PROVE  Fair
  BY IInvParts
<1>1. ASSUME notified' \subseteq notified
      PROVE  Fair
  BY <1>1 DEF Fair
<1>2. ASSUME NEW s \in Sessions, Register(s)
      PROVE  Fair
  BY <1>1, <1>2 DEF Register
<1>3. ASSUME NEW s \in Sessions, NEW i \in Instances, NEW type \in LockType,
             NEW auto \in BOOLEAN, Acquire(s, i, type, auto)
      PROVE  Fair
  BY <1>1, <1>3 DEF Acquire
<1>4. ASSUME NEW s \in Sessions, NEW i \in Instances, Renew(s, i) \/ Expire(s, i)
      PROVE  Fair
  BY <1>1, <1>4 DEF Renew, Expire
<1>5. ASSUME NEW t \in Tasks, NEW s \in Sessions, NEW i \in Instances,
             NEW type \in LockType, AcquireOrWait(t, s, i, type)
      PROVE  Fair
  BY <1>1, <1>5 DEF AcquireOrWait
<1>6. ASSUME NEW t \in Tasks, NEW i \in Instances, NEW S \in Matches, Release(t, i, S)
      PROVE  Fair
  BY <1>6, ReleaseEntryFair DEF Release, Actors
<1>7. ASSUME NEW t \in Tasks, NEW s \in Sessions, Unregister(t, s)
      PROVE  Fair
  BY <1>1, <1>7 DEF Unregister
<1>8. ASSUME NEW t \in Tasks, CallStep(t)
      PROVE  Fair
  <2>1. CASE Enqueue(t) \/ Notified(t) \/ Timeout(t) \/ RemoveFromQueue(t)
    BY <1>1, <2>1 DEF Enqueue, Notified, Timeout, RemoveFromQueue
  <2>2. ASSUME NEW i \in Instances, CloseRelease(t, i)
        PROVE  Fair
    BY <2>2, ReleaseEntryFair DEF CloseRelease, Actors
  <2>3. ASSUME NEW i \in Instances, Purge(t, i)
        PROVE  Fair
    BY <1>1, <2>3 DEF Purge
  <2>4. CASE StartPurge(t) \/ Unregistered(t) \/ RemoveEntry(t)
    BY <1>1, <2>4 DEF StartPurge, Unregistered, RemoveEntry
  <2> QED BY <1>8, <2>1, <2>2, <2>3, <2>4 DEF CallStep
<1>9. ASSUME NEW i \in Instances, Reap(i)
      PROVE  Fair
  <2>1. InOrder(locks[i], Reaped(locks[i]))
    BY ReapedInOrder DEF TableOK
  <2>2. locks'[i] = Reaped(locks[i]) /\ Wake(Popped(locks[i], locks'[i]))
    BY <1>9 DEF Reap, TableOK
  <2> QED BY <2>1, <2>2, WokenInOrder
<1>10. CASE StartReaping \/ RemoveEntry(Reaper)
  BY <1>1, <1>10 DEF StartReaping, RemoveEntry
<1>11. CASE UNCHANGED vars
  BY <1>1, <1>11 DEF vars
<1> QED BY <1>2, <1>3, <1>4, <1>5, <1>6, <1>7, <1>8, <1>9, <1>10, <1>11
           DEF Next, ReaperStep

\* try_promote is first come, first served: whatever releases or reaps, and
\* however often it promotes, nobody is woken before a call ahead of it.
THEOREM NobodyOvertakes == Spec => NoOvertaking
<1>1. IInv /\ [Next]_vars => [Fair]_vars
  BY NextFair
<1> QED BY <1>1, Invariance, PTL DEF Spec, NoOvertaking, Fair
=============================================================================
