----------------------------- MODULE McpLocking -----------------------------
(***************************************************************************)
(* The lock discipline of the MCP server over InstanceLockManager          *)
(* (crates/vscreen-server/src/mcp/mod.rs): the vscreen_lock tool, and      *)
(* require_lock, which every other tool that touches a browser passes      *)
(* first.  require_lock is a check followed by attempts to acquire and to  *)
(* reclaim, each a separate call of the lock manager, and nothing keeps    *)
(* other sessions, the reaper and the rest of the same session's calls out *)
(* in between.  A call is here a task with a `tool`; its `step` is the     *)
(* call of the lock manager it makes next:                                 *)
(*   lock          vscreen_lock, inside the lock manager;                  *)
(*   acquire       require_lock, auto_acquire after NotHeld;               *)
(*   isAuto        require_lock, is_auto_acquired;                         *)
(*   status        require_lock, the snapshot of the lock's status;        *)
(*   reclaim       require_lock, releasing the locks of the snapshot;      *)
(*   reacquire     require_lock, auto_acquire after the reclaim;           *)
(*   recheck       require_lock, check_access for the error message;       *)
(*   act           require_lock returned Ok: the tool drives the browser.  *)
(* A session's guard lives as long as any of its calls, so a session is    *)
(* unregistered when none of its calls is in progress.                     *)
(* single_agent_mode, in which require_lock returns at once, is off.       *)
(***************************************************************************)
EXTENDS LockManager

CONSTANT NoTool  \* the task runs no tool

VARIABLES
    tool,       \* the session, instance and lock type of the task's tool call
    step,       \* the call of the lock manager that comes next
    snapshot    \* the reclaimable locks of the status read at `status`

mvars == <<vars, tool, step, snapshot>>

Tool == [session : Sessions, inst : Instances, type : LockType]

ASSUME NoToolAssumption == NoTool \notin Tool

Step == {"none", "lock", "acquire", "isAuto", "status", "reclaim",
         "reacquire", "recheck", "act"}

MInit ==
    /\ Init
    /\ tool = [t \in Tasks |-> NoTool]
    /\ step = [t \in Tasks |-> "none"]
    /\ snapshot = [t \in Tasks |-> {}]

Ready(t) == Idle(t) /\ step[t] = "none"

Goto(t, next) == step' = [step EXCEPT ![t] = next]

Begin(t, s, i, type, next) ==
    /\ Ready(t) /\ s \in active
    /\ tool' = [tool EXCEPT ![t] = [session |-> s, inst |-> i, type |-> type]]
    /\ Goto(t, next)
    /\ UNCHANGED snapshot

KeepsStep_Finish(t) ==
    /\ tool' = [tool EXCEPT ![t] = NoTool]
    /\ UNCHANGED <<step, snapshot>>

Finish(t) ==
    /\ tool' = [tool EXCEPT ![t] = NoTool]
    /\ Goto(t, "none")
    /\ UNCHANGED snapshot

-----------------------------------------------------------------------------
(* vscreen_lock: acquire without and with a wait, release, renew           *)

LockNow(t, s, i, type) ==
    /\ Begin(t, s, i, type, "lock")
    /\ Acquire(s, i, type, FALSE)

LockWait(t, s, i, type) ==
    /\ Begin(t, s, i, type, "lock")
    /\ AcquireOrWait(t, s, i, type)

Unlock(t, s, i, S) ==
    /\ s \in S
    /\ Begin(t, s, i, Exclusive, "lock")
    /\ Release(t, i, S)

RenewLock(s, i) ==
    /\ active # {}
    /\ Renew(s, i)
    /\ UNCHANGED <<tool, step, snapshot>>

LockDone(t) ==
    /\ step[t] = "lock" /\ Idle(t)
    /\ Finish(t)
    /\ UNCHANGED vars

-----------------------------------------------------------------------------
(* require_lock                                                            *)

AnyLock_StartTool(t, s, i, type) ==
    /\ Begin(t, s, i, type,
             IF IsHeldBy(locks[i], s) THEN "act"
             ELSE IF LockedByOther(locks[i], s) THEN "isAuto" ELSE "acquire")
    /\ UNCHANGED vars

StartTool(t, s, i, type) ==
    /\ Begin(t, s, i, type,
             IF CheckAccess(locks[i], s, type) THEN "act"
             ELSE IF LockedByOther(locks[i], s) THEN "isAuto" ELSE "acquire")
    /\ UNCHANGED vars

\* auto_acquire, then `act` if it succeeds.
AutoAcquire(t, failed) ==
    LET c == tool[t] IN
    /\ Acquire(c.session, c.inst, c.type, TRUE)
    /\ Goto(t, IF Acquirable(locks[c.inst], c.session, c.type)
               THEN "act" ELSE failed)
    /\ UNCHANGED <<tool, snapshot>>

FirstAcquire(t) == step[t] = "acquire" /\ AutoAcquire(t, "isAuto")

ShouldReclaim(t) ==
    /\ step[t] = "isAuto"
    /\ Goto(t, IF IsAutoAcquired(locks[tool[t].inst])
               THEN "status" ELSE "recheck")
    /\ UNCHANGED <<vars, tool, snapshot>>

\* An exclusive holder that is not auto_acquired by now is left alone.
Status(t) ==
    /\ step[t] = "status"
    /\ LET st == locks[tool[t].inst] IN
       snapshot' = [snapshot EXCEPT ![t] =
           {l \in {st.exclusive} \ {NoLock} : l.auto} \cup st.observers]
    /\ Goto(t, "reclaim")
    /\ UNCHANGED <<vars, tool>>

\* release(&id, &holder.session_id): whatever that session holds by now.
Reclaim(t, l) ==
    /\ step[t] = "reclaim" /\ Idle(t) /\ l \in snapshot[t]
    /\ snapshot' = [snapshot EXCEPT ![t] = @ \ {l}]
    /\ IF l.auto \/ l.session \notin active
       THEN Release(t, tool[t].inst, {l.session}) ELSE UNCHANGED vars
    /\ UNCHANGED <<tool, step>>

Reclaimed(t) ==
    /\ step[t] = "reclaim" /\ Idle(t) /\ snapshot[t] = {}
    /\ Goto(t, "reacquire")
    /\ UNCHANGED <<vars, tool, snapshot>>

SecondAcquire(t) == step[t] = "reacquire" /\ AutoAcquire(t, "recheck")

Retries_Recheck(t) ==
    LET c == tool[t] IN
    /\ step[t] = "recheck"
    /\ Goto(t, IF CheckAccess(locks[c.inst], c.session, c.type)
               THEN "act" ELSE "isAuto")
    /\ UNCHANGED <<vars, tool, snapshot>>

Recheck(t) ==
    LET c == tool[t] IN
    /\ step[t] = "recheck"
    /\ \/ /\ CheckAccess(locks[c.inst], c.session, c.type)
          /\ Goto(t, "act")
          /\ UNCHANGED <<tool, snapshot>>
       \/ /\ ~CheckAccess(locks[c.inst], c.session, c.type)
          /\ Finish(t)
    /\ UNCHANGED vars

\* The tool has sent its commands to the browser and returns.
Act(t) ==
    /\ step[t] = "act"
    /\ Finish(t)
    /\ UNCHANGED vars

-----------------------------------------------------------------------------
(* Sessions, and the composition                                           *)

InProgress(s) == \E t \in Tasks : tool[t] # NoTool /\ tool[t].session = s

NotCounted_DropSession(t, s) ==
    /\ Ready(t)
    /\ Unregister(t, s)
    /\ UNCHANGED <<tool, step, snapshot>>

\* SessionGuard::drop, when the last clone of the server is dropped.
DropSession(t, s) ==
    /\ Ready(t) /\ ~InProgress(s)
    /\ Unregister(t, s)
    /\ UNCHANGED <<tool, step, snapshot>>

\* VScreenMcpServer::new: the id of the session is fresh, so no call under
\* way refers to it (an id is used again once nothing does).
NewSession(s) ==
    /\ s \notin active
    /\ \A t \in Tasks : /\ pc[t] # "idle" => req[t].session # s
                        /\ \A l \in snapshot[t] : l.session # s
    /\ Register(s)
    /\ UNCHANGED <<tool, step, snapshot>>

ToolStep(t) ==
    \/ LockDone(t) \/ FirstAcquire(t) \/ ShouldReclaim(t) \/ Status(t)
    \/ \E l \in snapshot[t] : Reclaim(t, l)
    \/ Reclaimed(t) \/ SecondAcquire(t) \/ Recheck(t) \/ Act(t)

\* A step of the lock manager that no tool call waits for.
Inner(A) == A /\ UNCHANGED <<tool, step, snapshot>>

TaskStep(t) == Inner(CallStep(t)) \/ ToolStep(t)

MNext ==
    \/ \E s \in Sessions : NewSession(s)
    \/ \E s \in Sessions, i \in Instances :
           \/ RenewLock(s, i)
           \/ Inner(Expire(s, i))
    \/ \E t \in Tasks, s \in Sessions, i \in Instances, type \in LockType :
           \/ LockNow(t, s, i, type) \/ LockWait(t, s, i, type)
           \/ StartTool(t, s, i, type)
    \/ \E t \in Tasks, s \in Sessions, i \in Instances, S \in Matches :
           Unlock(t, s, i, S)
    \/ \E t \in Tasks, s \in Sessions : DropSession(t, s)
    \/ \E t \in Tasks : TaskStep(t)
    \/ Inner(ReaperStep)

MSpec == MInit /\ [][MNext]_mvars

MFairSpec ==
    /\ MSpec
    /\ \A t \in Tasks : WF_mvars(TaskStep(t))
    /\ WF_mvars(Inner(ReaperStep))

-----------------------------------------------------------------------------
(* Properties                                                              *)

\* Every variable keeps its type, and a task in a tool has a tool call.
McpTypeOK ==
    /\ tool \in [Tasks -> Tool \cup {NoTool}]
    /\ step \in [Tasks -> Step]
    /\ \A t \in Tasks : step[t] = "none" <=> tool[t] = NoTool
    /\ snapshot \in [Tasks -> SUBSET LockInfo]

\* SessionGuard: a session that is neither active nor being unregistered
\* holds no lock and waits for none, on any instance.
Unregistering(s) ==
    \E t \in Tasks : pc[t] \in {"release", "purge"} /\ req[t].session = s

DeadSessionsHoldNothing ==
    \A s \in Sessions \ active : \A i \in Instances :
        /\ IsHeldBy(locks[i], s) => Unregistering(s)
        /\ \A w \in locks[i].queue : w.session # s

\* require_lock lets a tool through only at a step where its session has the
\* access the tool requires, whichever of its four attempts succeeded.
ToolsEnterWithAccess ==
    [][\A t \in Tasks :
           step[t] # "act" /\ step'[t] = "act" =>
               LET c == tool'[t] IN CheckAccess(locks'[c.inst], c.session, c.type)]_mvars

\* Every tool call gets past its locks: it acts or returns an error.
ToolCallsReturn == \A t \in Tasks : step[t] # "none" ~> step[t] = "none"

-----------------------------------------------------------------------------
(* What the documents and comments say and the code does not do            *)

\* docs.rs, "When Do You Need Locking": "Explicit locking prevents agents from
\* interfering with each other".  What vscreen_lock granted is not tagged as
\* auto-acquired, "can be stolen by new sessions".
ExplicitLocksStayExplicit ==
    [][\A t \in Tasks, s \in Sessions, i \in Instances, type \in LockType :
           LockNow(t, s, i, type) /\ HoldsExclusive(locks'[i], s) =>
               ~IsAutoAcquired(locks'[i])]_mvars

\* require_lock, "check if that session is dead or auto-acquired, then
\* reclaim": a lock it releases is one or the other.
OnlyReclaimableLocksAreReclaimed ==
    [][\A t \in Tasks : \A l \in snapshot[t] :
           LET i == tool[t].inst IN
           Reclaim(t, l) /\ HoldsExclusive(locks[i], l.session) =>
               locks[i].exclusive.auto \/ l.session \notin active]_mvars
=============================================================================
