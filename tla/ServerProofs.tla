---------------------------- MODULE ServerProofs ----------------------------
(***************************************************************************)
(* Theorems about what the server keeps.  Server: by how much concurrent   *)
(* creations can exceed the limit on instances.  Rtsp: its types, and that *)
(* no sender goes on without a session that plays and knows it.            *)
(***************************************************************************)
EXTENDS Server, Rtsp, FiniteSetTheorems, TLAPS

-----------------------------------------------------------------------------
(* Server: the limit on instances                                          *)

\* The creations that have passed the check and not inserted yet.
Pending == {r \in Requests : requests[r].at = "insert"}

Typed ==
    /\ registry \in [Ids -> {"absent", "Created", "Running"}]
    /\ requests \in [Requests -> [at : {"idle", "insert", "removed", "stop"},
                                  id : Ids \cup {Nobody}]]
    /\ \A r \in Requests : requests[r].at # "idle" => requests[r].id \in Ids

\* Until main serves, there is no request, and no instance but its own.
Early ==
    main \notin {"serve", "stop", "done"} =>
        Pending = {} /\ (\A r \in Requests : requests[r] = Idle) /\ Registered \subseteq {Dev}

\* Every creation that is under way leaves room for itself.
Bounded ==
    Cardinality(Registered) + Cardinality(Pending) < MaxInstances + Cardinality(Requests)

LimitInv == Typed /\ Early /\ Bounded

-----------------------------------------------------------------------------
\* The sets that are counted are finite.
LEMMA Finite ==
    /\ IsFiniteSet(Registered) /\ Cardinality(Registered) \in Nat
    /\ IsFiniteSet(Pending) /\ Cardinality(Pending) \in Nat
    /\ Cardinality(Pending) <= Cardinality(Requests)
    /\ Cardinality(Requests) \in Nat \ {0} /\ MaxInstances \in Nat \ {0}
<1>1. Registered \in SUBSET Ids /\ Pending \in SUBSET Requests
  BY DEF Registered, Pending
<1>2. IsFiniteSet(Registered) /\ IsFiniteSet(Pending) /\ Cardinality(Pending) <= Cardinality(Requests)
  BY <1>1, FS_Subset, ServerAssumption
<1>3. Cardinality(Requests) \in Nat /\ Cardinality(Requests) # 0
  BY FS_CardinalityType, FS_EmptySet, ServerAssumption
<1> QED BY <1>2, <1>3, FS_CardinalityType, ServerAssumption

\* Steps that register no instance and begin no creation keep the bound.
LEMMA NoMore ==
    ASSUME Bounded, Registered' \subseteq Registered, Pending' \subseteq Pending
    PROVE  Bounded'
<1>1. Cardinality(Registered') <= Cardinality(Registered) /\ IsFiniteSet(Registered')
  BY Finite, FS_Subset
<1>2. Cardinality(Pending') <= Cardinality(Pending) /\ IsFiniteSet(Pending')
  BY Finite, FS_Subset
<1>3. Cardinality(Registered') \in Nat /\ Cardinality(Pending') \in Nat
  BY <1>1, <1>2, FS_CardinalityType
<1> QED BY <1>1, <1>2, <1>3, Finite DEF Bounded

\* There is nothing at first.
LEMMA InitLimitInv == ServerInit => LimitInv
<1> SUFFICES ASSUME ServerInit PROVE LimitInv
  OBVIOUS
<1>1. Registered = {} /\ Pending = {}
  BY DEF ServerInit, Registered, Pending, Idle
<1>2. Bounded
  BY <1>1, Finite, FS_EmptySet DEF Bounded
<1>3. Typed
  BY DEF ServerInit, Typed, Idle
<1> QED BY <1>1, <1>2, <1>3 DEF LimitInv, Early, ServerInit

\* Main registers its own instance while there is no other.
LEMMA DevStep ==
    ASSUME LimitInv, CreateDev \/ Publish
    PROVE  LimitInv'
<1>1. main \notin {"serve", "stop", "done"} /\ requests' = requests
  BY DEF CreateDev, Publish, Main
<1>2. registry' = [registry EXCEPT ![Dev] = "Created"] \/ registry' = [registry EXCEPT ![Dev] = "Running"]
  BY DEF CreateDev, Publish
<1>3. Typed'
  BY <1>1, <1>2, ServerAssumption DEF LimitInv, Typed
<1>4. Registered \subseteq {Dev} /\ Pending = {}
  BY <1>1 DEF LimitInv, Early
<1>5. Registered' \subseteq {Dev} /\ Pending' = {}
  BY <1>1, <1>2, <1>4 DEF Registered, Pending, LimitInv, Typed
<1>6. Early'
  BY <1>1, <1>5 DEF LimitInv, Early, Idle
<1>7. Bounded'
  <2>1. Cardinality(Registered') <= 1 /\ IsFiniteSet(Registered')
    <3>1. IsFiniteSet({Dev}) /\ Cardinality({Dev}) = 1
      BY FS_Singleton
    <3>2. Registered' \in SUBSET {Dev}
      BY <1>5
    <3>3. IsFiniteSet(Registered') /\ Cardinality(Registered') <= Cardinality({Dev})
      BY <3>1, <3>2, FS_Subset
    <3> QED BY <3>1, <3>3
  <2>2. Cardinality(Registered') \in Nat
    BY <2>1, FS_CardinalityType
  <2>3. Cardinality(Pending') = 0
    BY <1>5, FS_EmptySet
  <2> QED BY <2>1, <2>2, <2>3, Finite DEF Bounded
<1> QED BY <1>3, <1>6, <1>7 DEF LimitInv

\* A creation passes the check.
LEMMA CheckStep ==
    ASSUME LimitInv, NEW r \in Requests, NEW id \in Ids, CheckLimit(r, id)
    PROVE  LimitInv'
<1>1. /\ main = "serve" /\ main' = main /\ requests[r] = Idle /\ registry' = registry
      /\ Cardinality(Registered) < MaxInstances
      /\ requests' = [requests EXCEPT ![r] = [at |-> "insert", id |-> id]]
  BY DEF CheckLimit, Serves, Goes
<1>2. Typed'
  BY <1>1 DEF LimitInv, Typed
<1>3. Registered' = Registered
  BY <1>1 DEF Registered
<1>4. Cardinality(Pending') <= Cardinality(Requests)
      /\ Cardinality(Pending') \in Nat
  <2>1. Pending' \in SUBSET Requests
    BY DEF Pending
  <2> QED BY <2>1, FS_Subset, FS_CardinalityType, ServerAssumption
<1>5. Bounded'
  BY <1>1, <1>3, <1>4, Finite DEF Bounded
<1> QED BY <1>1, <1>2, <1>5 DEF LimitInv, Early

\* A creation inserts its instance, or finds the id taken.
LEMMA InsertStep ==
    ASSUME LimitInv, NEW r \in Requests, Insert(r)
    PROVE  LimitInv'
<1> DEFINE id == requests[r].id
<1>1. /\ main' = main /\ requests[r].at = "insert" /\ id \in Ids
      /\ registry' = [registry EXCEPT ![id] = IF @ = "absent" THEN "Created" ELSE @]
      /\ requests' = [requests EXCEPT ![r] = Idle]
  BY DEF Insert, Goes, LimitInv, Typed
<1>2. Typed'
  BY <1>1 DEF LimitInv, Typed, Idle
<1>3. main \in {"serve", "stop", "done"}
  BY <1>1 DEF LimitInv, Early, Idle
<1>4. Registered' = Registered \cup {id}
  BY <1>1 DEF Registered, LimitInv, Typed
<1>5. Pending' = Pending \ {r} /\ r \in Pending
  BY <1>1 DEF Pending, Idle, LimitInv, Typed
<1>6. Cardinality(Registered') <= Cardinality(Registered) + 1 /\ Cardinality(Registered') \in Nat
  <2> DEFINE more == Registered \cup {id}
  <2>1. /\ IsFiniteSet(more)
        /\ Cardinality(more) = Cardinality(Registered)
           \/ Cardinality(more) = Cardinality(Registered) + 1
    BY Finite, FS_AddElement
  <2>2. Cardinality(more) \in Nat
    BY <2>1, FS_CardinalityType
  <2>3. Cardinality(more) <= Cardinality(Registered) + 1
    BY <2>1, <2>2, Finite
  <2>4. Registered' = more
    BY <1>4
  <2> QED BY <2>2, <2>3, <2>4
<1>7. Cardinality(Pending') = Cardinality(Pending) - 1
  BY <1>5, Finite, FS_RemoveElement
<1>8. Bounded'
  BY <1>6, <1>7, Finite DEF LimitInv, Bounded
<1> QED BY <1>1, <1>2, <1>3, <1>8 DEF LimitInv, Early

\* The other steps of requests.
LEMMA RequestStep ==
    ASSUME LimitInv, NEW r \in Requests,
           RemoveSupervisor(r) \/ Deleted(r) \/ \E id \in Ids : Remove(r, id)
    PROVE  LimitInv'
<1>1. main' = main
  BY DEF RemoveSupervisor, Deleted, Remove
<1>2. PICK next : requests' = [requests EXCEPT ![r] = next]
           /\ next \in [at : {"idle", "removed", "stop"}, id : Ids \cup {Nobody}]
           /\ (next.at # "idle" => next.id \in Ids)
  BY ServerAssumption DEF RemoveSupervisor, Deleted, Remove, Goes, Idle
<1>3. Typed'
  <2>1. registry' \in [Ids -> {"absent", "Created", "Running"}]
    BY DEF RemoveSupervisor, Deleted, Remove, LimitInv, Typed
  <2> QED BY <1>2, <2>1 DEF LimitInv, Typed
<1>4. main \in {"serve", "stop", "done"}
  <2>1. CASE requests[r].at # "idle"
    BY <2>1 DEF LimitInv, Early, Idle
  <2>2. CASE \E id \in Ids : Remove(r, id)
    BY <2>2 DEF Remove, Serves
  <2> QED BY <2>1, <2>2 DEF RemoveSupervisor, Deleted
<1>5. Registered' \subseteq Registered
  BY DEF Registered, RemoveSupervisor, Deleted, Remove, LimitInv, Typed
<1>6. Pending' \subseteq Pending
  BY <1>2 DEF Pending, LimitInv, Typed
<1>7. Bounded'
  BY <1>5, <1>6, NoMore DEF LimitInv
<1> QED BY <1>1, <1>3, <1>4, <1>7 DEF LimitInv, Early

\* Everything else leaves instances and requests alone, and main never goes back.
LEMMA OtherStep ==
    ASSUME LimitInv, registry' = registry, requests' = requests,
           main' \notin {"serve", "stop", "done"} => main \notin {"serve", "stop", "done"}
    PROVE  LimitInv'
<1>1. Registered' = Registered /\ Pending' = Pending
  BY DEF Registered, Pending
<1>2. Typed'
  BY DEF LimitInv, Typed
<1>3. Early'
  BY <1>1 DEF LimitInv, Early
<1> QED BY <1>1, <1>2, <1>3 DEF LimitInv, Bounded

\* The invariant is inductive: one step for each action.
LEMMA NextLimitInv == LimitInv /\ [ServerNext]_serverVars => LimitInv'
<1> SUFFICES ASSUME LimitInv, [ServerNext]_serverVars PROVE LimitInv'
  OBVIOUS
<1>1. CASE CreateDev \/ Publish
  BY <1>1, DevStep
<1>2. CASE Connect \/ Prepare \/ VideoReady \/ AudioReady
  BY <1>2, OtherStep DEF Connect, Prepare, VideoReady, AudioReady, Main
<1>3. CASE Signal \/ StopSupervisors \/ Exit \/ Sent
  BY <1>3, OtherStep DEF Signal, StopSupervisors, Exit, Sent, Main
<1>4. ASSUME NEW t, Send(t) \/ TaskFails(t) \/ TaskEnds(t) PROVE LimitInv'
  BY <1>4, OtherStep DEF Send, TaskFails, TaskEnds
<1>5. ASSUME NEW r \in Requests, NEW id \in Ids, CheckLimit(r, id) PROVE LimitInv'
  BY <1>5, CheckStep
<1>6. ASSUME NEW r \in Requests, Insert(r) PROVE LimitInv'
  BY <1>6, InsertStep
<1>7. ASSUME NEW r \in Requests,
             RemoveSupervisor(r) \/ Deleted(r) \/ \E id \in Ids : Remove(r, id)
      PROVE  LimitInv'
  BY <1>7, RequestStep
<1>8. CASE UNCHANGED serverVars
  BY <1>8, OtherStep DEF serverVars
<1> QED
  BY <1>1, <1>2, <1>3, <1>4, <1>5, <1>6, <1>7, <1>8 DEF ServerNext, start, HandleRequest

-----------------------------------------------------------------------------
(* Theorems                                                                *)

\* Whatever creations, deletions and shutdowns interleave, the instances stay
\* below the limit and the number of requests at the same time together.
THEOREM LimitAlwaysNearlyKept == ServerSpec => []LimitNearlyKept
<1>1. LimitInv => LimitNearlyKept
  BY Finite DEF LimitInv, Bounded, LimitNearlyKept
<1> QED BY <1>1, InitLimitInv, NextLimitInv, PTL DEF ServerSpec

-----------------------------------------------------------------------------
(* Rtsp: sessions and senders                                              *)

\* What a request is about: SETUP may be without a session.
Wanted ==
    [method : {"SETUP"}, sid : Sids \cup {None}, track : Tracks, transport : Ports \cup {Tcp}]
        \cup [method : {"PLAY", "PAUSE", "TEARDOWN", "GET_PARAMETER"}, sid : Sids]

RequestsTyped == request \in [Clients -> Wanted \cup {None}]

\* A sender that runs is the sender of a track.
RunnersTyped ==
    \A t \in Senders : Runs(t) => sender[t].sid \in Sids /\ sender[t].track \in Tracks

RtspInv == RtspTypeOK /\ SendersBelong /\ RequestsTyped /\ RunnersTyped

\* The parts of the type invariant, for the sessions and for the senders.
SessionType ==
    [state : {"unused", "Ready", "Playing", "Paused", "gone"},
     fresh : BOOLEAN,
     track : [Tracks -> [transport : Ports \cup {Tcp, None}, task : Senders \cup {None}]]]

SenderType ==
    [at : {"none", "start", "sending", "blocked", "ended"},
     sid : Sids \cup {None}, track : Tracks \cup {None},
     transport : Ports \cup {Tcp, None},
     cancelled : BOOLEAN, aborted : BOOLEAN]

Known ==
    \A s \in Sids, k \in Tracks :
        TaskOf(s, k) # None => sender[TaskOf(s, k)].sid = s /\ sender[TaskOf(s, k)].track = k

Loops == todo \in [Reapers \cup {Run} -> SUBSET Sids] /\ stopping \in BOOLEAN
            /\ swept \subseteq Reapers \cup {Run}

\* What has to be shown of the sessions and the senders.
Core ==
    /\ session \in [Sids -> SessionType]
    /\ sender \in [Senders -> SenderType]
    /\ Known
    /\ RunnersTyped
    /\ SendersBelong

\* The invariant is that, and the types of the other variables.
LEMMA Parts == RtspInv <=> Core /\ Loops /\ RequestsTyped
BY DEF RtspInv, Core, Loops, RtspTypeOK, SessionType, SenderType, Known

\* And so after a step.
LEMMA PartsPrimed == RtspInv' <=> Core' /\ Loops' /\ RequestsTyped'
BY DEF RtspInv, Core, Loops, RtspTypeOK, SessionType, SenderType, Known, SendersBelong,
       RequestsTyped, RunnersTyped, Runs, TaskOf, Wanted

\* Nothing runs at first.
LEMMA InitRtspInv == RtspInit => RtspInv
<1> SUFFICES ASSUME RtspInit PROVE RtspInv
  OBVIOUS
<1>1. session \in [Sids -> SessionType]
  BY DEF RtspInit, Unused, NewSession, NoTrack, SessionType
<1>2. sender \in [Senders -> SenderType]
  BY DEF RtspInit, NoSender, SenderType
<1>3. \A s \in Sids, k \in Tracks : TaskOf(s, k) = None
  BY DEF RtspInit, Unused, NewSession, NoTrack, TaskOf
<1>4. \A t \in Senders : ~Runs(t)
  BY DEF RtspInit, NoSender, Runs
<1>5. Loops /\ RequestsTyped
  BY DEF RtspInit, Loops, RequestsTyped
<1> QED BY <1>1, <1>2, <1>3, <1>4, <1>5, Parts DEF Core, Known, RunnersTyped, SendersBelong

-----------------------------------------------------------------------------
(* What the steps do to sessions and senders                               *)

\* A session that is created, touched, expires or gets a track keeps its state, as
\* far as senders care, and its tasks.
LEMMA SessionStep ==
    ASSUME Core, sender' = sender, session' \in [Sids -> SessionType],
           \A s \in Sids :
              /\ session[s].state = "Playing" => session'[s].state = "Playing"
              /\ \A k \in Tracks : session'[s].track[k].task = session[s].track[k].task
    PROVE  Core'
<1>1. \A s \in Sids, k \in Tracks : TaskOf(s, k)' = TaskOf(s, k)
  BY DEF TaskOf
<1>2. \A t \in Senders : Runs(t)' <=> Runs(t)
  BY DEF Runs
<1>3. Known'
  BY <1>1 DEF Core, Known
<1>4. RunnersTyped'
  BY <1>2 DEF Core, RunnersTyped
<1>5. SendersBelong'
  BY <1>1, <1>2 DEF Core, SendersBelong, RunnersTyped
<1> QED BY <1>3, <1>4, <1>5 DEF Core

\* A sender that starts, blocks or goes on.
LEMMA AtStep ==
    ASSUME Core, NEW t \in Senders, NEW at \in {"sending", "blocked"}, Runs(t), At(t, at),
           session' = session
    PROVE  Core'
<1>1. sender' = [sender EXCEPT ![t].at = at]
  BY DEF At
<1>2. sender' \in [Senders -> SenderType]
  BY <1>1 DEF Core, SenderType
<1>3. \A u \in Senders :
         /\ sender'[u].sid = sender[u].sid /\ sender'[u].track = sender[u].track
         /\ sender'[u].aborted = sender[u].aborted /\ sender'[u].cancelled = sender[u].cancelled
         /\ Runs(u)' <=> Runs(u)
  BY <1>1 DEF Core, SenderType, Runs
<1>4. Known'
  <2>1. \A s \in Sids, k \in Tracks : TaskOf(s, k)' = TaskOf(s, k)
                                       /\ TaskOf(s, k) \in Senders \cup {None}
    BY DEF TaskOf, Core, SessionType
  <2> QED BY <1>3, <2>1 DEF Core, Known
<1>5. RunnersTyped'
  BY <1>3 DEF Core, RunnersTyped
<1>6. SendersBelong'
  BY <1>3 DEF Core, SendersBelong, TaskOf
<1> QED BY <1>2, <1>4, <1>5, <1>6 DEF Core

\* A sender that ends: its track may keep its handle.
LEMMA EndStep ==
    ASSUME Core, NEW t \in Senders, Runs(t), End(t), session' = session
    PROVE  Core'
<1> DEFINE s == sender[t].sid
           k == sender[t].track
           ended == IF TaskOf(s, k) = t
                    THEN [NoSender EXCEPT !.at = "ended", !.sid = s, !.track = k] ELSE NoSender
<1>1. s \in Sids /\ k \in Tracks
  BY DEF Core, RunnersTyped
<1>2. sender' = [sender EXCEPT ![t] = ended]
  BY DEF End
<1>3. /\ ended \in SenderType /\ ended.at \in {"ended", "none"}
      /\ TaskOf(s, k) = t => ended.sid = s /\ ended.track = k
  <2>1. CASE TaskOf(s, k) = t
    <3>1. ended = [at |-> "ended", sid |-> s, track |-> k, transport |-> None,
                   cancelled |-> FALSE, aborted |-> FALSE]
      BY <2>1 DEF NoSender
    <3> HIDE DEF ended, s, k
    <3> QED BY <1>1, <3>1 DEF SenderType
  <2>2. CASE TaskOf(s, k) # t
    BY <2>2 DEF NoSender, SenderType
  <2> QED BY <2>1, <2>2
<1> HIDE DEF ended
<1>4. sender' \in [Senders -> SenderType]
  BY <1>2, <1>3 DEF Core
<1>5. /\ sender'[t] = ended /\ ~Runs(t)'
      /\ \A u \in Senders \ {t} : sender'[u] = sender[u] /\ (Runs(u)' <=> Runs(u))
  BY <1>2, <1>3 DEF Core, Runs
<1>6. Known'
  <2> SUFFICES ASSUME NEW r \in Sids, NEW j \in Tracks, TaskOf(r, j) # None
               PROVE  sender'[TaskOf(r, j)].sid = r /\ sender'[TaskOf(r, j)].track = j
    BY DEF Known, TaskOf
  <2>1. TaskOf(r, j) \in Senders
    BY DEF TaskOf, Core, SessionType
  <2>2. sender[TaskOf(r, j)].sid = r /\ sender[TaskOf(r, j)].track = j
    BY DEF Core, Known
  <2>3. CASE TaskOf(r, j) = t
    BY <1>3, <1>5, <2>2, <2>3
  <2>4. CASE TaskOf(r, j) # t
    BY <1>5, <2>1, <2>2, <2>4
  <2> QED BY <2>3, <2>4
<1>7. RunnersTyped'
  BY <1>5 DEF Core, RunnersTyped
<1>8. SendersBelong'
  BY <1>5 DEF Core, SendersBelong, TaskOf
<1> QED BY <1>4, <1>6, <1>7, <1>8 DEF Core

\* PAUSE and removal tell every sender of the session, and forget its tasks.
LEMMA ToldStep ==
    ASSUME Core, NEW s \in Sids, NEW n \in SessionType,
           \A k \in Tracks : n.track[k].task = None,
           session' = [session EXCEPT ![s] = n], sender' = Told(s)
    PROVE  Core'
<1>1. session' \in [Sids -> SessionType]
  BY DEF Core
<1>2. \A r \in Sids, k \in Tracks :
         TaskOf(r, k)' = IF r = s THEN None ELSE TaskOf(r, k)
  BY DEF Core, TaskOf
<1>3. sender' \in [Senders -> SenderType]
  <2> SUFFICES ASSUME NEW t \in Senders PROVE Told(s)[t] \in SenderType
    BY DEF Told
  <2>1. sender[t] \in SenderType /\ NoSender \in SenderType
    BY DEF Core, NoSender, SenderType
  <2> DEFINE b == sender[t].aborted \/ t \in TasksOf(s)
  <2>2. Told(s)[t] \in {sender[t], NoSender,
                        [sender[t] EXCEPT !.cancelled = TRUE, !.aborted = b]}
    BY DEF Told
  <2>3. b \in BOOLEAN
    BY <2>1 DEF SenderType
  <2> HIDE DEF b
  <2>4. [sender[t] EXCEPT !.cancelled = TRUE, !.aborted = b] \in SenderType
    BY <2>1, <2>3 DEF SenderType
  <2> QED BY <2>1, <2>2, <2>4
<1>4. \A t \in Senders : sender[t].sid # s => sender'[t] = sender[t]
  BY DEF Told
<1>5. \A t \in Senders : sender[t].sid = s =>
         /\ Runs(t)' => Runs(t) /\ sender'[t].cancelled
         /\ Runs(t)' => sender'[t].sid = s /\ sender'[t].track = sender[t].track
  <2> SUFFICES ASSUME NEW t \in Senders, sender[t].sid = s, Runs(t)'
               PROVE  /\ Runs(t) /\ sender'[t].cancelled
                      /\ sender'[t].sid = s /\ sender'[t].track = sender[t].track
    OBVIOUS
  <2>1. sender[t] \in SenderType
    BY DEF Core
  <2>2. CASE sender[t].at = "ended"
    BY <2>2 DEF Told, NoSender, Runs
  <2>3. CASE sender[t].at # "ended"
    BY <2>1, <2>3 DEF Told, Runs, SenderType
  <2> QED BY <2>2, <2>3
<1>6. Known'
  <2> SUFFICES ASSUME NEW r \in Sids, NEW k \in Tracks, r # s, TaskOf(r, k) # None
               PROVE  sender'[TaskOf(r, k)].sid = r /\ sender'[TaskOf(r, k)].track = k
    BY <1>2 DEF Known
  <2>1. TaskOf(r, k) \in Senders
    BY DEF TaskOf, Core, SessionType
  <2>2. sender[TaskOf(r, k)].sid = r /\ sender[TaskOf(r, k)].track = k
    BY DEF Core, Known
  <2> QED BY <1>4, <2>1, <2>2
<1>7. \A t \in Senders : Runs(t)' => Runs(t)
  BY <1>4, <1>5 DEF Runs
<1>8. RunnersTyped'
  BY <1>4, <1>5, <1>7 DEF Core, RunnersTyped
<1>9. SendersBelong'
  <2> SUFFICES ASSUME NEW t \in Senders, Runs(t)', ~sender'[t].aborted, ~sender'[t].cancelled
               PROVE  /\ session'[sender'[t].sid].state = "Playing"
                      /\ session'[sender'[t].sid].track[sender'[t].track].task = t
    BY DEF SendersBelong, TaskOf
  <2>1. sender[t].sid # s /\ sender'[t] = sender[t] /\ Runs(t)
    BY <1>4, <1>5, <1>7
  <2>2. /\ session[sender[t].sid].state = "Playing"
        /\ TaskOf(sender[t].sid, sender[t].track) = t
        /\ sender[t].sid \in Sids /\ sender[t].track \in Tracks
    BY <2>1 DEF Core, SendersBelong, RunnersTyped
  <2>3. session'[sender[t].sid] = session[sender[t].sid]
    BY <2>1, <2>2 DEF Core
  <2> QED BY <2>1, <2>2, <2>3 DEF TaskOf
<1> QED BY <1>1, <1>3, <1>6, <1>8, <1>9 DEF Core

\* PLAY spawns a sender for each of the tracks `new`, and makes the session play.
LEMMA PlayStep ==
    ASSUME Core, stopping \in BOOLEAN, NEW s \in Sids, NEW new \in SUBSET Tracks,
           \A k \in new : TaskOf(s, k) = None,
           NEW spawn \in Injection(new, {t \in Senders : sender[t] = NoSender}),
           session' = [session EXCEPT ![s] = [
               state |-> "Playing",
               fresh |-> @.fresh \/ @.state # "Playing",
               track |-> [k \in Tracks |->
                   IF k \in new THEN [@.track[k] EXCEPT !.task = spawn[k]] ELSE @.track[k]]]],
           sender' = [t \in Senders |->
               IF \E k \in new : spawn[k] = t
               THEN LET k == CHOOSE k \in new : spawn[k] = t
                    IN  [at |-> "start", sid |-> s, track |-> k,
                         transport |-> session[s].track[k].transport,
                         cancelled |-> stopping, aborted |-> FALSE]
               ELSE sender[t]]
    PROVE  Core'
<1>1. /\ spawn \in [new -> Senders]
      /\ \A k \in new : sender[spawn[k]] = NoSender
      /\ \A j, k \in new : spawn[j] = spawn[k] => j = k
  BY DEF Injection, IsInjective
<1>2. session[s] \in SessionType
  BY DEF Core
<1> DEFINE fresh == session[s].fresh \/ session[s].state # "Playing"
           track == [k \in Tracks |->
                        IF k \in new THEN [session[s].track[k] EXCEPT !.task = spawn[k]]
                                     ELSE session[s].track[k]]
           n == [state |-> "Playing", fresh |-> fresh, track |-> track]
<1>3. session' = [session EXCEPT ![s] = n]
  BY DEF Core
<1>4. n \in SessionType
  <2>1. fresh \in BOOLEAN
    BY <1>2 DEF SessionType
  <2>2. track \in [Tracks -> [transport : Ports \cup {Tcp, None}, task : Senders \cup {None}]]
    <3> DEFINE Track == [transport : Ports \cup {Tcp, None}, task : Senders \cup {None}]
    <3>1. ASSUME NEW k \in Tracks, NEW old \in Track, NEW t \in Senders
          PROVE  [old EXCEPT !.task = t] \in Track
      OBVIOUS
    <3>2. \A k \in Tracks : session[s].track[k] \in Track
      BY <1>2 DEF SessionType
    <3> HIDE DEF Track
    <3>3. track \in [Tracks -> Track]
      BY <1>1, <3>1, <3>2
    <3> QED BY <3>3 DEF Track
  <2> HIDE DEF fresh, track
  <2> QED BY <2>1, <2>2 DEF SessionType
<1>5. \A k \in Tracks : n.track[k].task = IF k \in new THEN spawn[k] ELSE TaskOf(s, k)
  BY <1>2 DEF SessionType, TaskOf
<1>6. n.state = "Playing"
  OBVIOUS
<1> HIDE DEF n
<1>7. \A k \in new :
         sender'[spawn[k]] = [at |-> "start", sid |-> s, track |-> k,
                              transport |-> session[s].track[k].transport,
                              cancelled |-> stopping, aborted |-> FALSE]
  <2> SUFFICES ASSUME NEW k \in new
               PROVE  sender'[spawn[k]] = [at |-> "start", sid |-> s, track |-> k,
                                           transport |-> session[s].track[k].transport,
                                           cancelled |-> stopping, aborted |-> FALSE]
    OBVIOUS
  <2>1. (CHOOSE j \in new : spawn[j] = spawn[k]) = k
    BY <1>1
  <2>2. spawn[k] \in Senders /\ \E j \in new : spawn[j] = spawn[k]
    BY <1>1
  <2> QED BY <2>1, <2>2
<1>8. \A t \in Senders : (\A k \in new : spawn[k] # t) => sender'[t] = sender[t]
  OBVIOUS
<1>9. session' \in [Sids -> SessionType] /\ session'[s] = n
      /\ \A r \in Sids \ {s} : session'[r] = session[r]
  BY <1>3, <1>4 DEF Core
<1>10. sender' \in [Senders -> SenderType]
  <2>1. \A k \in new : session[s].track[k].transport \in Ports \cup {Tcp, None}
    BY <1>2 DEF SessionType
  <2>2. \A k \in new : sender'[spawn[k]] \in SenderType
    <3> SUFFICES ASSUME NEW k \in new PROVE sender'[spawn[k]] \in SenderType
      OBVIOUS
    <3>1. session[s].track[k].transport \in Ports \cup {Tcp, None} /\ k \in Tracks
      BY <2>1
    <3>2. [at |-> "start", sid |-> s, track |-> k,
           transport |-> session[s].track[k].transport,
           cancelled |-> stopping, aborted |-> FALSE] \in SenderType
      BY <3>1 DEF SenderType
    <3> QED BY <1>7, <3>2
  <2>3. ASSUME NEW t \in Senders PROVE sender'[t] \in SenderType
    <3>1. CASE \E k \in new : spawn[k] = t
      BY <2>2, <3>1
    <3>2. CASE \A k \in new : spawn[k] # t
      BY <1>8, <3>2 DEF Core
    <3> QED BY <3>1, <3>2
  <2> QED BY <2>3
<1>11. \A r \in Sids, k \in Tracks : TaskOf(r, k) # None =>
          /\ session'[r].track[k].task = TaskOf(r, k)
          /\ sender'[TaskOf(r, k)] = sender[TaskOf(r, k)]
  <2> SUFFICES ASSUME NEW r \in Sids, NEW k \in Tracks, TaskOf(r, k) # None
               PROVE  /\ session'[r].track[k].task = TaskOf(r, k)
                      /\ sender'[TaskOf(r, k)] = sender[TaskOf(r, k)]
    OBVIOUS
  <2>1. TaskOf(r, k) \in Senders
    BY DEF TaskOf, Core, SessionType
  <2>2. sender[TaskOf(r, k)].sid = r
    BY DEF Core, Known
  <2>3. ASSUME NEW j \in new, spawn[j] = TaskOf(r, k) PROVE FALSE
    <3>1. sender[spawn[j]] = NoSender
      BY <1>1
    <3>2. NoSender.sid = r
      BY <2>2, <2>3, <3>1
    <3> QED BY <3>2, NoneAssumption DEF NoSender
  <2>4. sender'[TaskOf(r, k)] = sender[TaskOf(r, k)]
    BY <1>8, <2>1, <2>3
  <2>5. CASE r = s
    <3>1. k \notin new /\ n.track[k].task = TaskOf(s, k)
      BY <1>5, <2>5
    <3> QED BY <1>9, <2>4, <2>5, <3>1
  <2>6. CASE r # s
    BY <1>9, <2>4, <2>6 DEF TaskOf
  <2> QED BY <2>5, <2>6
<1>12. Known'
  <2> SUFFICES ASSUME NEW r \in Sids, NEW k \in Tracks, TaskOf(r, k)' # None
               PROVE  /\ sender'[TaskOf(r, k)'].sid = r
                      /\ sender'[TaskOf(r, k)'].track = k
    BY DEF Known
  <2>1. CASE r = s /\ k \in new
    <3>1. TaskOf(r, k)' = spawn[k]
      BY <1>5, <1>9, <2>1 DEF TaskOf
    <3> DEFINE sent == sender'[spawn[k]]
               to == session[s].track[k].transport
               cancelling == stopping
               aborting == FALSE
    <3>2. sent = [at |-> "start", sid |-> s, track |-> k, transport |-> to,
                  cancelled |-> cancelling, aborted |-> aborting]
      BY <1>7, <2>1, Zenon
    <3>3. sent.sid = s /\ sent.track = k
      <4> HIDE DEF sent, to, cancelling, aborting
      <4> QED BY <3>2
    <3> QED BY <2>1, <3>1, <3>3 DEF TaskOf
  <2>2. CASE ~(r = s /\ k \in new)
    <3>1. TaskOf(r, k)' = TaskOf(r, k)
      BY <1>5, <1>9, <2>2 DEF TaskOf
    <3>2. sender'[TaskOf(r, k)] = sender[TaskOf(r, k)]
      BY <1>11, <3>1
    <3>3. sender[TaskOf(r, k)].sid = r /\ sender[TaskOf(r, k)].track = k
      BY <3>1 DEF Core, Known
    <3> QED BY <3>1, <3>2, <3>3
  <2> QED BY <2>1, <2>2
<1>13. RunnersTyped' /\ SendersBelong'
  <2> SUFFICES ASSUME NEW t \in Senders, Runs(t)'
               PROVE  /\ sender'[t].sid \in Sids /\ sender'[t].track \in Tracks
                      /\ ~sender'[t].aborted /\ ~sender'[t].cancelled =>
                            /\ session'[sender'[t].sid].state = "Playing"
                            /\ session'[sender'[t].sid].track[sender'[t].track].task = t
    BY DEF RunnersTyped, SendersBelong, TaskOf
  <2>1. CASE \E k \in new : spawn[k] = t
    <3>1. PICK k \in new : spawn[k] = t
      BY <2>1
    <3>2. sender'[t].sid = s /\ sender'[t].track = k /\ k \in Tracks
      BY <1>7, <3>1
    <3>3. session'[s].state = "Playing" /\ session'[s].track[k].task = t
      BY <1>5, <1>6, <1>9, <3>1, <3>2
    <3> QED BY <3>2, <3>3
  <2>2. CASE \A k \in new : spawn[k] # t
    <3>1. sender'[t] = sender[t] /\ Runs(t)
      BY <1>8, <2>2 DEF Runs
    <3>2. /\ sender[t].sid \in Sids /\ sender[t].track \in Tracks
          /\ ~sender[t].aborted /\ ~sender[t].cancelled =>
                /\ session[sender[t].sid].state = "Playing"
                /\ TaskOf(sender[t].sid, sender[t].track) = t
      BY <3>1 DEF Core, RunnersTyped, SendersBelong
    <3>3. t # None
      BY NoneAssumption
    <3>4. ~sender[t].aborted /\ ~sender[t].cancelled =>
             session'[sender[t].sid].track[sender[t].track].task = t
      BY <1>11, <3>2, <3>3
    <3>5. session[sender[t].sid].state = "Playing" =>
             session'[sender[t].sid].state = "Playing"
      BY <1>6, <1>9, <3>2
    <3> QED BY <3>1, <3>2, <3>4, <3>5
  <2> QED BY <2>1, <2>2
<1> QED BY <1>9, <1>10, <1>12, <1>13 DEF Core

\* Shutdown cancels every token.
LEMMA StopStep == ASSUME Core, Stop PROVE Core'
<1>1. sender' = [t \in Senders |-> [sender[t] EXCEPT !.cancelled = Runs(t)]]
      /\ session' = session
  BY DEF Stop
<1>2. \A t \in Senders : Runs(t) \in BOOLEAN
  BY DEF Runs
<1>3. \A t \in Senders :
         /\ sender'[t] \in SenderType
         /\ sender'[t].sid = sender[t].sid /\ sender'[t].track = sender[t].track
         /\ sender'[t].at = sender[t].at
         /\ sender'[t].cancelled = Runs(t)
  BY <1>1, <1>2 DEF Core, SenderType
<1>4. sender' \in [Senders -> SenderType]
  BY <1>1, <1>3
<1>5. Known'
  <2> SUFFICES ASSUME NEW s \in Sids, NEW k \in Tracks, TaskOf(s, k) # None
               PROVE  sender'[TaskOf(s, k)].sid = s /\ sender'[TaskOf(s, k)].track = k
    BY <1>1 DEF Known, TaskOf
  <2>1. TaskOf(s, k) \in Senders
    BY DEF TaskOf, Core, SessionType
  <2>2. sender[TaskOf(s, k)].sid = s /\ sender[TaskOf(s, k)].track = k
    BY DEF Core, Known
  <2> QED BY <1>3, <2>1, <2>2
<1>6. \A t \in Senders : Runs(t)' <=> Runs(t)
  BY <1>3 DEF Runs
<1>7. RunnersTyped'
  BY <1>3, <1>6 DEF Core, RunnersTyped
<1>8. SendersBelong'
  BY <1>3, <1>6 DEF SendersBelong
<1> QED BY <1>1, <1>4, <1>5, <1>7, <1>8 DEF Core

-----------------------------------------------------------------------------
(* What the actions do                                                     *)

\* An answer ends its request.
LEMMA AnswerTyped ==
    ASSUME RequestsTyped, NEW c \in Clients, Answer(c)
    PROVE  RequestsTyped'
BY DEF RequestsTyped, Answer, Wanted

\* A request for a session other than SETUP names it.
LEMMA SidOf ==
    ASSUME RequestsTyped, NEW c \in Clients,
           \E m \in {"PLAY", "PAUSE", "TEARDOWN", "GET_PARAMETER"} : Asks(c, m)
    PROVE  request[c].sid \in Sids
BY DEF RequestsTyped, Asks, Wanted

\* Removal tells the senders of a session that is there.
LEMMA RemoveStep ==
    ASSUME Core, NEW s \in Sids, remove(s)
    PROVE  Core'
<1>1. CASE Live(s)
  <2>1. Gone \in SessionType /\ \A k \in Tracks : Gone.track[k].task = None
    <3>1. Gone \in SessionType
      BY DEF Gone, NewSession, NoTrack, SessionType
    <3>2. \A k \in Tracks : Gone.track[k].task = None
      BY DEF Gone, NewSession, NoTrack
    <3> QED BY <3>1, <3>2
  <2> QED BY <1>1, <2>1, ToldStep DEF remove
<1>2. CASE ~Live(s)
  BY <1>2, SessionStep DEF remove, Core
<1> QED BY <1>1, <1>2

\* A session that is touched, or expires.
LEMMA FreshStep ==
    ASSUME Core, NEW s \in Sids, NEW b \in BOOLEAN, sender' = sender,
           session' = [session EXCEPT ![s].fresh = b]
    PROVE  Core'
<1>1. session' \in [Sids -> SessionType]
  BY DEF Core, SessionType
<1>2. \A r \in Sids : session'[r].state = session[r].state /\ session'[r].track = session[r].track
  BY DEF Core, SessionType
<1> QED BY <1>1, <1>2, SessionStep

\* PLAY starts a sender for each track that has none.
LEMMA PlayCore ==
    ASSUME RtspInv, NEW c \in Clients, Play(c)
    PROVE  Core'
<1>1. Core /\ Loops /\ request[c].sid \in Sids
  BY Parts, SidOf DEF Play
<1>2. CASE ~Live(request[c].sid)
  BY <1>1, <1>2, SessionStep DEF Play, Core
<1>3. CASE Live(request[c].sid)
  <2> DEFINE s == request[c].sid
             New(subscribed) == {k \in subscribed : session[s].track[k].transport # None
                                                    /\ TaskOf(s, k) = None}
  <2> DEFINE Spawns(subscribed, spawn) ==
           /\ session' = [session EXCEPT ![s] = [
                  state |-> "Playing",
                  fresh |-> @.fresh \/ @.state # "Playing",
                  track |-> [k \in Tracks |->
                      IF k \in New(subscribed) THEN [@.track[k] EXCEPT !.task = spawn[k]]
                                               ELSE @.track[k]]]]
           /\ sender' = [t \in Senders |->
                  IF \E k \in New(subscribed) : spawn[k] = t
                  THEN LET k == CHOOSE k \in New(subscribed) : spawn[k] = t
                       IN  [at |-> "start", sid |-> s, track |-> k,
                            transport |-> session[s].track[k].transport,
                            cancelled |-> stopping, aborted |-> FALSE]
                  ELSE sender[t]]
  <2>0. PICK subscribed \in SUBSET Tracks :
           \E spawn \in Injection(New(subscribed), {t \in Senders : sender[t] = NoSender}) :
              Spawns(subscribed, spawn)
    BY <1>3 DEF Play
  <2>1. PICK spawn \in Injection(New(subscribed), {t \in Senders : sender[t] = NoSender}) :
           Spawns(subscribed, spawn)
    BY <2>0
  <2> DEFINE new == New(subscribed)
  <2>2. new \in SUBSET Tracks /\ \A k \in new : TaskOf(s, k) = None
    OBVIOUS
  <2>3. stopping \in BOOLEAN
    BY <1>1 DEF Loops
  <2> HIDE DEF New
  <2> QED BY <1>1, <2>1, <2>2, <2>3, PlayStep
<1> QED BY <1>2, <1>3

\* PAUSE tells the senders of the session to end, and keeps its tracks.
LEMMA PauseCore ==
    ASSUME RtspInv, NEW c \in Clients, Pause(c)
    PROVE  Core'
<1> DEFINE s == request[c].sid
           n == [state |-> "Paused",
                 fresh |-> session[s].fresh \/ session[s].state = "Playing",
                 track |-> [k \in Tracks |-> [session[s].track[k] EXCEPT !.task = None]]]
<1>1. Core /\ s \in Sids
  BY Parts, SidOf DEF Pause
<1>2. CASE session[s].state \notin {"Playing", "Paused"}
  BY <1>1, <1>2, SessionStep DEF Pause, Core
<1>3. CASE session[s].state \in {"Playing", "Paused"}
  <2>1. session[s] \in SessionType
    BY <1>1 DEF Core
  <2>2. n \in SessionType /\ \A k \in Tracks : n.track[k].task = None
    <3>1. [k \in Tracks |-> [session[s].track[k] EXCEPT !.task = None]]
             \in [Tracks -> [transport : Ports \cup {Tcp, None}, task : Senders \cup {None}]]
          /\ \A k \in Tracks : n.track[k].task = None
      BY <2>1 DEF SessionType
    <3>2. (session[s].fresh \/ session[s].state = "Playing") \in BOOLEAN
      OBVIOUS
    <3> QED BY <3>1, <3>2 DEF SessionType
  <2>3. session' = [session EXCEPT ![s] = n] /\ sender' = Told(s)
    BY <1>1, <1>3 DEF Pause, Core
  <2> HIDE DEF n
  <2> QED BY <1>1, <2>2, <2>3, ToldStep
<1> QED BY <1>2, <1>3

\* A track that gets its transport is a track, and its session a session, where
\* nothing else has changed.
LEMMA TransportTyped ==
    ASSUME NEW m \in [Sids -> SessionType], NEW s \in Sids, NEW k \in Tracks,
           NEW transport \in Ports \cup {Tcp},
           NEW next, next = [m EXCEPT ![s].track[k].transport = transport]
    PROVE  /\ next \in [Sids -> SessionType]
           /\ \A r \in Sids :
                 /\ next[r].state = m[r].state
                 /\ \A j \in Tracks : next[r].track[j].task = m[r].track[j].task
<1> DEFINE TrackType == [transport : Ports \cup {Tcp, None}, task : Senders \cup {None}]
           old == m[s].track
           one == [old[k] EXCEPT !.transport = transport]
           tr == [old EXCEPT ![k] = one]
<1>1. m[s] \in SessionType
  OBVIOUS
<1>2. old \in [Tracks -> TrackType]
  BY <1>1 DEF SessionType
<1>3. one \in TrackType /\ one.task = old[k].task
  <2>1. old[k] \in TrackType
    BY <1>2
  <2> HIDE DEF old
  <2> QED BY <2>1
<1>4. tr \in [Tracks -> TrackType] /\ \A j \in Tracks : tr[j].task = old[j].task
  <2> HIDE DEF old, one, TrackType
  <2> QED BY <1>2, <1>3
<1> DEFINE new == [m[s] EXCEPT !.track = tr]
           n == [m EXCEPT ![s] = new]
<1>5. new \in SessionType /\ new.track = tr /\ new.state = m[s].state
  <2> HIDE DEF tr
  <2> QED BY <1>1, <1>4 DEF SessionType
<1>6. next = n
  OBVIOUS
<1> HIDE DEF new, tr, old, one
<1>7. n \in [Sids -> SessionType] /\ \A r \in Sids : n[r] = IF r = s THEN new ELSE m[r]
  BY <1>5
<1> HIDE DEF n
<1>8. ASSUME NEW r \in Sids
      PROVE  n[r].state = m[r].state /\ \A j \in Tracks : n[r].track[j].task = m[r].track[j].task
  <2>1. CASE r = s
    BY <1>4, <1>5, <1>7, <2>1 DEF old
  <2>2. CASE r # s
    BY <1>7, <2>2
  <2> QED BY <2>1, <2>2
<1> QED BY <1>6, <1>7, <1>8

\* SETUP adds a session without tracks, or a track without a sender.
LEMMA SetupCore ==
    ASSUME RtspInv, NEW c \in Clients, CreateSession(c) \/ AddTrack(c)
    PROVE  Core'
<1>1. Core /\ RequestsTyped
  BY Parts
<1>2. CASE CreateSession(c)
  <2>1. PICK s \in Sids : session[s] = Unused /\ session' = [session EXCEPT ![s] = NewSession]
    BY <1>2 DEF CreateSession
  <2>2. /\ NewSession \in SessionType
        /\ Unused.state = "unused"
        /\ \A k \in Tracks : Unused.track[k].task = NewSession.track[k].task
    BY DEF NewSession, Unused, NoTrack, SessionType
  <2>3. sender' = sender
    BY <1>2 DEF CreateSession
  <2> QED BY <1>1, <2>1, <2>2, <2>3, SessionStep DEF Core
<1>3. CASE AddTrack(c)
  <2> DEFINE s == request[c].sid
             k == request[c].track
  <2>1. sender' = sender
    BY <1>3 DEF AddTrack
  <2>2. CASE session' = session
    BY <1>1, <2>1, <2>2, SessionStep DEF Core
  <2>3. CASE session' # session
    <3>1. session' = [session EXCEPT ![s].fresh = TRUE,
                                     ![s].track[k].transport = request[c].transport]
      BY <1>3, <2>3 DEF AddTrack
    <3>2. s \in Sids /\ k \in Tracks /\ request[c].transport \in Ports \cup {Tcp}
      BY <1>1, <1>3 DEF AddTrack, Asks, RequestsTyped, Wanted
    <3> DEFINE touched == [session EXCEPT ![s].fresh = TRUE]
    <3>3. touched \in [Sids -> SessionType]
      BY <1>1, <3>2 DEF Core, SessionType
    <3>4. \A r \in Sids : touched[r].state = session[r].state /\ touched[r].track = session[r].track
      BY <1>1, <3>2 DEF Core, SessionType
    <3>5. session' = [touched EXCEPT ![s].track[k].transport = request[c].transport]
      BY <3>1
    <3> HIDE DEF touched, s, k
    <3>6. /\ session' \in [Sids -> SessionType]
          /\ \A r \in Sids :
                /\ session'[r].state = touched[r].state
                /\ \A j \in Tracks : session'[r].track[j].task = touched[r].track[j].task
      <4> DEFINE to == request[c].transport
                 next == session'
      <4>1. to \in Ports \cup {Tcp} /\ next = [touched EXCEPT ![s].track[k].transport = to]
        BY <3>2, <3>5
      <4> HIDE DEF to, next
      <4>2. /\ next \in [Sids -> SessionType]
            /\ \A r \in Sids :
                  /\ next[r].state = touched[r].state
                  /\ \A j \in Tracks : next[r].track[j].task = touched[r].track[j].task
        BY <3>2, <3>3, <4>1, TransportTyped
      <4> QED BY <4>2 DEF next
    <3>7. \A r \in Sids :
             /\ session'[r].state = session[r].state
             /\ \A j \in Tracks : session'[r].track[j].task = session[r].track[j].task
      BY <3>4, <3>6
    <3> QED BY <1>1, <2>1, <3>6, <3>7, SessionStep
  <2> QED BY <2>2, <2>3
<1> QED BY <1>2, <1>3

\* The steps of a sender task.
LEMMA SenderCore ==
    ASSUME RtspInv, NEW t \in Senders,
           Starts(t) \/ Ends(t) \/ Fails(t) \/ Blocks(t) \/ Unblocks(t)
    PROVE  Core'
<1>1. Core
  BY Parts
<1>2. CASE Starts(t)
  <2>1. Runs(t) /\ session' = session
    BY <1>2 DEF Starts, Runs
  <2> QED BY <1>1, <1>2, <2>1, EndStep, AtStep DEF Starts
<1>3. CASE Ends(t)
  <2>1. Runs(t) /\ session' = session /\ End(t)
    BY <1>3 DEF Ends, Runs
  <2> QED BY <1>1, <2>1, EndStep
<1>4. CASE Fails(t)
  BY <1>1, <1>4, EndStep DEF Fails
<1>5. CASE Blocks(t)
  <2>1. Runs(t) /\ session' = session /\ At(t, "blocked")
    BY <1>5 DEF Blocks, Runs
  <2> QED BY <1>1, <2>1, AtStep
<1>6. CASE Unblocks(t)
  <2>1. Runs(t) /\ session' = session /\ At(t, "sending")
    BY <1>6 DEF Unblocks, Runs
  <2> QED BY <1>1, <2>1, AtStep
<1> QED BY <1>2, <1>3, <1>4, <1>5, <1>6

\* The invariant is inductive: one step for each action.
LEMMA NextRtspInv == RtspInv /\ [RtspNext]_rtspVars => RtspInv'
<1> SUFFICES ASSUME RtspInv, [RtspNext]_rtspVars PROVE Core' /\ Loops' /\ RequestsTyped'
  BY PartsPrimed
<1>1. Core /\ Loops /\ RequestsTyped
  BY Parts
<1>2. ASSUME NEW c \in Clients, Receive(c) PROVE Core' /\ Loops' /\ RequestsTyped'
  <2>1. Core'
    BY <1>1, <1>2, SessionStep DEF Receive, Core
  <2>2. RequestsTyped'
    BY <1>1, <1>2 DEF Receive, RequestsTyped, Wanted, allocate_port_pair
  <2> QED BY <1>1, <1>2, <2>1, <2>2 DEF Receive, Loops
<1>3. ASSUME NEW c \in Clients, CreateSession(c) PROVE Core' /\ Loops' /\ RequestsTyped'
  <2>1. Core'
    BY <1>3, SetupCore
  <2>2. RequestsTyped'
    BY <1>1, <1>3 DEF CreateSession, Asks, RequestsTyped, Wanted
  <2> QED BY <1>1, <1>3, <2>1, <2>2 DEF CreateSession, Loops
<1>4. ASSUME NEW c \in Clients, AddTrack(c) PROVE Core' /\ Loops' /\ RequestsTyped'
  BY <1>1, <1>4, SetupCore, AnswerTyped DEF AddTrack, Loops
<1>5. ASSUME NEW c \in Clients, Play(c) PROVE Core' /\ Loops' /\ RequestsTyped'
  BY <1>1, <1>5, PlayCore, AnswerTyped DEF Play, Loops
<1>6. ASSUME NEW c \in Clients, Pause(c) PROVE Core' /\ Loops' /\ RequestsTyped'
  BY <1>1, <1>6, PauseCore, AnswerTyped DEF Pause, Loops
<1>7. ASSUME NEW c \in Clients, Teardown(c) PROVE Core' /\ Loops' /\ RequestsTyped'
  <2>1. request[c].sid \in Sids /\ remove(request[c].sid)
    BY <1>1, <1>7, SidOf DEF Teardown
  <2> QED BY <1>1, <1>7, <2>1, RemoveStep, AnswerTyped DEF Teardown, Loops
<1>8. ASSUME NEW c \in Clients, GetParameter(c) PROVE Core' /\ Loops' /\ RequestsTyped'
  <2>1. request[c].sid \in Sids
    BY <1>1, <1>8, SidOf DEF GetParameter
  <2>2. Core'
    <3>1. CASE Live(request[c].sid)
      BY <1>1, <1>8, <2>1, <3>1, FreshStep DEF GetParameter, touch
    <3>2. CASE ~Live(request[c].sid)
      BY <1>1, <1>8, <3>2, SessionStep DEF GetParameter, Core
    <3> QED BY <3>1, <3>2
  <2> QED BY <1>1, <1>8, <2>2, AnswerTyped DEF GetParameter, Loops
<1>9. ASSUME NEW s \in Sids, InterleavedData(s) \/ Expires(s)
      PROVE  Core' /\ Loops' /\ RequestsTyped'
  <2>1. Core'
    BY <1>1, <1>9, FreshStep DEF InterleavedData, Expires, touch
  <2> QED BY <1>1, <1>9, <2>1 DEF InterleavedData, Expires, Loops, RequestsTyped
<1>10. ASSUME NEW s \in Sids, audio_stream_teardown(s) PROVE Core' /\ Loops' /\ RequestsTyped'
  BY <1>1, <1>10, RemoveStep DEF audio_stream_teardown, Loops, RequestsTyped
<1>11. ASSUME NEW t \in Senders, Starts(t) \/ Ends(t) \/ Fails(t) \/ Blocks(t) \/ Unblocks(t)
       PROVE  Core' /\ Loops' /\ RequestsTyped'
  <2>1. UNCHANGED <<request, todo, stopping, swept>>
    BY <1>11 DEF Starts, Ends, Fails, Blocks, Unblocks
  <2> QED BY <1>1, <1>11, <2>1, SenderCore DEF Loops, RequestsTyped
<1>12. ASSUME NEW t \in Senders, Tick(t) PROVE Core' /\ Loops' /\ RequestsTyped'
  <2>1. Runs(t) /\ sender[t].sid \in Sids
    BY <1>1, <1>12 DEF Tick, Runs, Core, RunnersTyped
  <2>2. Core'
    BY <1>1, <1>12, <2>1, FreshStep DEF Tick, touch
  <2> QED BY <1>1, <1>12, <2>2 DEF Tick, Loops, RequestsTyped
<1>13. ASSUME NEW r \in Reapers \cup {Run}, reap_expired(r) \/ teardown_all(r)
       PROVE  Core' /\ Loops' /\ RequestsTyped'
  <2>1. Core'
    BY <1>1, <1>13, SessionStep DEF reap_expired, teardown_all, Core
  <2> QED BY <1>1, <1>13, <2>1 DEF reap_expired, teardown_all, Loops, RequestsTyped
<1>14. ASSUME NEW r \in Reapers \cup {Run}, Reap(r) PROVE Core' /\ Loops' /\ RequestsTyped'
  <2>1. PICK s \in todo[r] : remove(s) /\ todo' = [todo EXCEPT ![r] = @ \ {s}]
    BY <1>14 DEF Reap
  <2>2. s \in Sids
    BY <1>1, <2>1 DEF Loops
  <2>3. Core'
    BY <1>1, <2>1, <2>2, RemoveStep
  <2> QED BY <1>1, <1>14, <2>1, <2>3 DEF Reap, Loops, RequestsTyped
<1>15. CASE Stop
  BY <1>1, <1>15, StopStep DEF Stop, Loops, RequestsTyped
<1>16. CASE UNCHANGED rtspVars
  <2>1. Core'
    BY <1>1, <1>16, SessionStep DEF rtspVars, Core
  <2> QED BY <1>1, <1>16, <2>1 DEF rtspVars, Loops, RequestsTyped
<1> QED
  BY <1>2, <1>3, <1>4, <1>5, <1>6, <1>7, <1>8, <1>9, <1>10, <1>11, <1>12, <1>13, <1>14, <1>15,
     <1>16 DEF RtspNext, Handle, Sender, Loop

-----------------------------------------------------------------------------
(* Theorems                                                                *)

\* Both theorems are about parts of the invariant.
LEMMA AlwaysIInv == RtspSpec => []RtspInv
BY InitRtspInv, NextRtspInv, PTL DEF RtspSpec

\* Sessions, senders and the passes of the reapers keep their types, and a task
\* belongs to one track of one session, for any sets of sessions, tracks,
\* senders, connections and ports.
THEOREM TypeCorrect == RtspSpec => []RtspTypeOK
<1>1. RtspInv => RtspTypeOK
  BY DEF RtspInv
<1> QED BY <1>1, AlwaysIInv, PTL

\* PAUSE, TEARDOWN, expiry and shutdown leave no sender that goes on, and PLAY
\* starts no second one for a track, however they interleave.
THEOREM SendersAlwaysBelong == RtspSpec => []SendersBelong
<1>1. RtspInv => SendersBelong
  BY DEF RtspInv
<1> QED BY <1>1, AlwaysIInv, PTL
=============================================================================
