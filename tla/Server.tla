------------------------------- MODULE Server -------------------------------
(***************************************************************************)
(* The life of `vscreen --dev` (vscreen/src/main.rs): the instance "dev",  *)
(* the supervisor that is started for it with its tasks and threads        *)
(* (supervisor.rs), the HTTP requests that create and delete instances     *)
(* while it serves (handlers.rs, state.rs), and the shutdown.  Every map   *)
(* is a DashMap of its own, and nothing makes two steps on two of them one. *)
(***************************************************************************)
EXTENDS Naturals, FiniteSets

CONSTANTS
    Ids,            \* the instance ids
    Dev,            \* the one that main creates and starts a supervisor for
    Requests,       \* HTTP requests that are handled at the same time
    MaxInstances,   \* limits.max_instances
    Nobody          \* no id, no holder of the CDP client

ASSUME ServerAssumption ==
    /\ Dev \in Ids /\ IsFiniteSet(Ids) /\ IsFiniteSet(Requests) /\ Requests # {}
    /\ MaxInstances \in Nat \ {0}

VARIABLES
    main,           \* where main is
    registry,       \* the state of each instance
    mapped,         \* the supervisor is in the map
    cancelled,      \* its cancellation token
    running,        \* its tasks and threads
    told,           \* the capture thread was told to stop
    client,         \* who keeps the lock on the CDP client
    requests,        \* what each request is doing
    shutdown        \* the server's cancellation token

serverVars == <<main, registry, mapped, cancelled, running, told, client, requests, shutdown>>

Idle == [at |-> "idle", id |-> Nobody]

\* Without --dev there is no instance and no supervisor to begin with.
ServerInit ==
    /\ main \in {"create", "serve"}
    /\ registry = [i \in Ids |-> "absent"]
    /\ mapped = FALSE /\ cancelled = FALSE
    /\ running = {} /\ told = FALSE /\ client = Nobody
    /\ requests = [r \in Requests |-> Idle]
    /\ shutdown = FALSE

Main(from, to) == main = from /\ main' = to

-----------------------------------------------------------------------------
(* InstanceSupervisor::start                                               *)

CreateDev ==
    /\ Main("create", "connect")
    /\ registry' = [registry EXCEPT ![Dev] = "Created"]
    /\ UNCHANGED <<mapped, cancelled, running, told, client, requests, shutdown>>

\* An error of start is logged, and main serves without a supervisor.
Connect ==
    /\ \/ Main("connect", "prepare") /\ running' = {"cdp"}
       \/ Main("connect", "serve") /\ UNCHANGED running
    /\ UNCHANGED <<registry, mapped, cancelled, told, client, requests, shutdown>>

\* Page.enable, the stealth script and the screencast: an error returns as it is,
\* and the loops of the CDP client go on without anybody who could end them.
Prepare ==
    /\ \/ Main("prepare", "video") /\ running' = running \cup {"video", "encode"}
       \/ Main("prepare", "serve") /\ UNCHANGED running
    /\ UNCHANGED <<registry, mapped, cancelled, told, client, requests, shutdown>>

KeepsToken_VideoReady ==
    /\ \/ /\ Main("video", "audio")
          /\ running' = running \cup {"audio", "capture"} /\ UNCHANGED cancelled
       \/ /\ Main("video", "serve")
          /\ running' = running \ {"encode"} /\ UNCHANGED cancelled
    /\ UNCHANGED <<registry, mapped, told, client, requests, shutdown>>

\* The encode thread reports that it has an encoder, or ends.
VideoReady ==
    /\ \/ /\ Main("video", "audio")
          /\ running' = running \cup {"audio", "capture"} /\ UNCHANGED cancelled
       \/ /\ Main("video", "serve")
          /\ running' = running \ {"encode"} /\ cancelled' = TRUE
    /\ UNCHANGED <<registry, mapped, told, client, requests, shutdown>>

\* The audio task has its thread and its encoder, or ends, telling the thread;
\* either way the rest is spawned, RTP output if its socket can be bound.
AudioReady ==
    /\ Main("audio", "publish")
    /\ \E audio \in BOOLEAN, rtp \in SUBSET {"rtp"} :
          /\ running' = (IF audio THEN running ELSE running \ {"audio"})
                            \cup rtp \cup {"input", "repaint"}
          /\ told' = ~audio
    /\ UNCHANGED <<registry, mapped, cancelled, client, requests, shutdown>>

\* state_tx.send(Running), set_supervisor.
Publish ==
    /\ Main("publish", "serve")
    /\ registry' = [registry EXCEPT ![Dev] = "Running"]
    /\ mapped' = TRUE
    /\ UNCHANGED <<cancelled, running, told, client, requests, shutdown>>

-----------------------------------------------------------------------------
(* Tasks and threads                                                       *)

\* The input relay, the repaint ticker and the calls of tools and requests send
\* their commands with the lock on the client; a command ends (CdpClient).
Send(t) ==
    /\ client = Nobody
    /\ \/ t \in running \cap {"input", "repaint"}
       \/ t = "call" /\ mapped
    /\ client' = t
    /\ UNCHANGED <<main, registry, mapped, cancelled, running, told, requests, shutdown>>

Sent ==
    /\ client # Nobody
    /\ client' = Nobody
    /\ UNCHANGED <<main, registry, mapped, cancelled, running, told, requests, shutdown>>

Deaf_MayEnd(t) ==
    CASE t \in {"cdp", "rtp"} -> cancelled
      [] t \in {"input", "repaint"} -> cancelled /\ client # t
      [] t = "video" -> "encode" \notin running
      [] t = "encode" -> "video" \notin running
      [] t = "audio" -> cancelled \/ "capture" \notin running
      [] t = "capture" -> told

\* What makes a task or thread look up and end.
MayEnd(t) ==
    CASE t \in {"cdp", "rtp"} -> cancelled
      [] t \in {"input", "repaint"} -> cancelled /\ client # t
      [] t = "video" -> cancelled \/ "encode" \notin running
      [] t = "encode" -> "video" \notin running
      [] t = "audio" -> cancelled \/ "capture" \notin running
      [] t = "capture" -> told

\* The audio task tells its thread, which does not end before: it is blocked on
\* PulseAudio, or on the channel of the task.
TaskEnds(t) ==
    /\ t \in running /\ MayEnd(t)
    /\ running' = running \ {t}
    /\ told' = (told \/ t = "audio")
    /\ UNCHANGED <<main, registry, mapped, cancelled, client, requests, shutdown>>

\* The RTP task cannot bind its socket, the encode thread panics.
TaskFails(t) ==
    /\ main = "serve"
    /\ t \in running \cap {"rtp", "encode"}
    /\ running' = running \ {t}
    /\ UNCHANGED <<main, registry, mapped, cancelled, told, client, requests, shutdown>>

\* stop() has awaited the tasks it knows; threads end by themselves.
Stopped == running \subseteq {"cdp", "encode", "capture"}

-----------------------------------------------------------------------------
(* Requests                                                                *)

Serves == main = "serve" /\ ~shutdown

Registered == {i \in Ids : registry[i] # "absent"}

Goes(r, next) == requests' = [requests EXCEPT ![r] = next]

OffByOne_CheckLimit(r, id) ==
    /\ Serves /\ requests[r] = Idle
    /\ Cardinality(Registered) <= MaxInstances
    /\ Goes(r, [at |-> "insert", id |-> id])
    /\ UNCHANGED <<main, registry, mapped, cancelled, running, told, client, shutdown>>

\* InstanceRegistry::create compares the number of instances with the limit ...
CheckLimit(r, id) ==
    /\ Serves /\ requests[r] = Idle
    /\ Cardinality(Registered) < MaxInstances
    /\ Goes(r, [at |-> "insert", id |-> id])
    /\ UNCHANGED <<main, registry, mapped, cancelled, running, told, client, shutdown>>

\* ... and then takes the id if it is free.
Insert(r) ==
    /\ requests[r].at = "insert"
    /\ registry' = [registry EXCEPT ![requests[r].id] = IF @ = "absent" THEN "Created" ELSE @]
    /\ Goes(r, Idle)
    /\ UNCHANGED <<main, mapped, cancelled, running, told, client, shutdown>>

\* delete_instance takes the instance out of the registry ...
Remove(r, id) ==
    /\ Serves /\ requests[r] = Idle /\ registry[id] # "absent"
    /\ registry' = [registry EXCEPT ![id] = "absent"]
    /\ Goes(r, [at |-> "removed", id |-> id])
    /\ UNCHANGED <<main, mapped, cancelled, running, told, client, shutdown>>

\* ... and then its supervisor out of the map, which it stops.
RemoveSupervisor(r) ==
    /\ requests[r].at = "removed"
    /\ IF requests[r].id = Dev /\ mapped
       THEN mapped' = FALSE /\ cancelled' = TRUE /\ Goes(r, [at |-> "stop", id |-> Dev])
       ELSE Goes(r, Idle) /\ UNCHANGED <<mapped, cancelled>>
    /\ UNCHANGED <<main, registry, running, told, client, shutdown>>

\* stop() returns, or the client goes and the handler is dropped.
Deleted(r) ==
    /\ requests[r].at = "stop"
    /\ Goes(r, Idle)
    /\ UNCHANGED <<main, registry, mapped, cancelled, running, told, client, shutdown>>

-----------------------------------------------------------------------------
(* Shutdown                                                                *)

Signal ==
    /\ main = "serve" /\ ~shutdown
    /\ shutdown' = TRUE
    /\ UNCHANGED <<main, registry, mapped, cancelled, running, told, client, requests>>

\* The server returns when its requests have; then the supervisors are stopped.
StopSupervisors ==
    /\ shutdown /\ \A r \in Requests : requests[r] = Idle
    /\ Main("serve", "stop")
    /\ cancelled' = (cancelled \/ mapped)
    /\ UNCHANGED <<registry, mapped, running, told, client, requests, shutdown>>

Exit ==
    /\ mapped => Stopped
    /\ Main("stop", "done")
    /\ mapped' = FALSE
    /\ UNCHANGED <<registry, cancelled, running, told, client, requests, shutdown>>

-----------------------------------------------------------------------------
start == CreateDev \/ Connect \/ Prepare \/ VideoReady \/ AudioReady \/ Publish

HandleRequest(r) == Insert(r) \/ RemoveSupervisor(r) \/ (Stopped /\ Deleted(r))

ServerNext ==
    \/ start \/ Signal \/ StopSupervisors \/ Exit \/ Sent
    \/ \E t \in running \cup {"call"} : Send(t) \/ TaskFails(t)
    \/ \E t \in running : TaskEnds(t)
    \/ \E r \in Requests :
           HandleRequest(r) \/ Deleted(r) \/ \E id \in Ids : CheckLimit(r, id) \/ Remove(r, id)

\* tokio polls what can make progress, and its select chooses at random between
\* the cancellation and the next input.
ServerFairness ==
    /\ WF_serverVars(start) /\ WF_serverVars(StopSupervisors) /\ WF_serverVars(Exit)
    /\ WF_serverVars(Sent)
    /\ \A t \in {"cdp", "video", "encode", "audio", "capture", "rtp"} : WF_serverVars(TaskEnds(t))
    /\ \A t \in {"input", "repaint"} : SF_serverVars(TaskEnds(t))
    /\ \A r \in Requests : WF_serverVars(HandleRequest(r))

ServerSpec == ServerInit /\ [][ServerNext]_serverVars /\ ServerFairness

-----------------------------------------------------------------------------
(* Properties                                                              *)

\* Creations that check the limit at the same time exceed it, by less than
\* there are requests at the same time (InstanceRegistry::create).
LimitNearlyKept ==
    Cardinality(Registered) < MaxInstances + Cardinality(Requests)

\* A supervisor that nobody can reach to stop it.
Orphaned == main \in {"serve", "done"} /\ ~mapped /\ "video" \in running

\* A supervisor whose start failed at the encoder, whose instance is deleted or
\* whose server stops leaves no task and no thread behind (start, stop, Drop).
SupervisorEnds == Orphaned ~> running = {}

\* The server stops when it is told to, whatever commands and deletions are
\* under way.
ShutdownEnds == shutdown ~> main = "done"
=============================================================================
