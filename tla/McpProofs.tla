----------------------------- MODULE McpProofs -----------------------------
(***************************************************************************)
(* Proofs about McpLocking, for any sets of sessions, tasks and instances. *)
(* The MCP server drives the lock manager by its calls only (MSpec => Spec)*)
(* so what LockManagerProofs shows of every run of the manager holds here. *)
(* What the server adds needs more: a session that is neither active nor   *)
(* being unregistered holds nothing because no tool of it is in progress,  *)
(* a call inside the lock manager is one of a tool in progress, and each   *)
(* instance it still holds is one its unregistering has yet to visit.      *)
(***************************************************************************)
EXTENDS McpLocking, LockManagerProofs

InQueue == {"enqueue", "waiting", "timedOut"}

\* A call of acquire_or_wait is made by the tool of its task, for its session.
WaitsAreTools ==
    \A t \in Tasks : pc[t] \in InQueue =>
        step[t] = "lock" /\ tool[t].session = req[t].session

\* A tool's session keeps its guard while the tool runs.
ToolsAreLive == \A t \in Tasks : tool[t] # NoTool => tool[t].session \in active

StillToRelease(s, i) ==
    \E t \in Tasks : pc[t] = "release" /\ req[t].session = s /\ i \in todo[t]

\* release_all_for_session has not visited what a dead session still holds.
DeadAreReleased ==
    \A s \in Sessions \ active : \A i \in Instances :
        IsHeldBy(locks[i], s) => StillToRelease(s, i)

McpInv == McpTypeOK /\ WaitsAreTools /\ ToolsAreLive /\ DeadAreReleased

-----------------------------------------------------------------------------
(* What a step of a tool does to `tool`, `step` and `snapshot`             *)

\* A task at a step of a tool call has a tool call.
LEMMA ToolOrNot ==
    ASSUME McpTypeOK, NEW t \in Tasks, step[t] # "none"
    PROVE  /\ tool[t] \in Tool /\ tool[t] # NoTool
           /\ tool[t].session \in Sessions /\ tool[t].inst \in Instances
           /\ tool[t].type \in LockType
  BY NoToolAssumption DEF McpTypeOK, Tool

\* A tool call begins.
LEMMA BeginType ==
    ASSUME McpTypeOK, NEW t \in Tasks, NEW s \in Sessions, NEW i \in Instances,
           NEW type \in LockType, NEW next \in Step \ {"none"},
           Begin(t, s, i, type, next)
    PROVE  McpTypeOK'
<1>1. [session |-> s, inst |-> i, type |-> type] \in Tool
  BY DEF Tool
<1> QED BY <1>1, NoToolAssumption DEF McpTypeOK, Begin, Goto

\* A tool call ends.
LEMMA FinishType ==
    ASSUME McpTypeOK, NEW t \in Tasks, Finish(t)
    PROVE  McpTypeOK'
  BY DEF McpTypeOK, Finish, Goto, Step

\* A tool call goes to its next step.
LEMMA GotoType ==
    ASSUME McpTypeOK, NEW t \in Tasks, NEW next \in Step \ {"none"},
           step[t] # "none", Goto(t, next), UNCHANGED <<tool, snapshot>>
    PROVE  McpTypeOK'
  BY DEF McpTypeOK, Goto

\* Every step of a tool call keeps the types.
LEMMA ToolStepType ==
    ASSUME McpTypeOK, TableOK, NEW t \in Tasks, ToolStep(t)
    PROVE  McpTypeOK'
<1>1. CASE LockDone(t) \/ Act(t)
  BY <1>1, FinishType DEF LockDone, Act
<1>2. CASE FirstAcquire(t) \/ SecondAcquire(t)
  <2>1. PICK next \in Step \ {"none"} : Goto(t, next)
    BY <1>2 DEF FirstAcquire, SecondAcquire, AutoAcquire, Step
  <2>2. step[t] # "none" /\ UNCHANGED <<tool, snapshot>>
    BY <1>2 DEF FirstAcquire, SecondAcquire, AutoAcquire
  <2> QED BY <2>1, <2>2, GotoType
<1>3. CASE ShouldReclaim(t) \/ Reclaimed(t)
  <2>1. PICK next \in Step \ {"none"} : Goto(t, next)
    BY <1>3 DEF ShouldReclaim, Reclaimed, Step
  <2>2. step[t] # "none" /\ UNCHANGED <<tool, snapshot>>
    BY <1>3 DEF ShouldReclaim, Reclaimed
  <2> QED BY <2>1, <2>2, GotoType
<1>4. CASE Status(t)
  <2> DEFINE st == locks[tool[t].inst]
             shot == {l \in {st.exclusive} \ {NoLock} : l.auto} \cup st.observers
  <2>1. step[t] = "status" /\ tool[t].inst \in Instances
    BY <1>4, ToolOrNot DEF Status
  <2>2. shot \in SUBSET LockInfo
    BY <2>1 DEF TableOK, EntryOK, LockState
  <2>3. snapshot' = [snapshot EXCEPT ![t] = shot] /\ Goto(t, "reclaim")
        /\ UNCHANGED tool
    BY <1>4 DEF Status
  <2> HIDE DEF shot
  <2> QED BY <2>1, <2>2, <2>3 DEF McpTypeOK, Goto, Step
<1>5. ASSUME NEW l \in snapshot[t], Reclaim(t, l)
      PROVE  McpTypeOK'
  BY <1>5 DEF Reclaim, McpTypeOK
<1>6. CASE Recheck(t)
  <2>1. CASE Goto(t, "act") /\ UNCHANGED <<tool, snapshot>>
    BY <1>6, <2>1, GotoType DEF Recheck, Step
  <2>2. CASE Finish(t)
    BY <2>2, FinishType
  <2> QED BY <1>6, <2>1, <2>2 DEF Recheck
<1> QED BY <1>1, <1>2, <1>3, <1>4, <1>5, <1>6 DEF ToolStep

-----------------------------------------------------------------------------
(* The server as a user of the lock manager                                *)

\* A step of a tool is a call of the manager, or none.
LEMMA ToolStepCalls ==
    ASSUME McpTypeOK, NEW t \in Tasks, ToolStep(t)
    PROVE  [Next]_vars
<1>1. CASE LockDone(t) \/ ShouldReclaim(t) \/ Status(t) \/ Reclaimed(t)
           \/ Recheck(t) \/ Act(t)
  BY <1>1 DEF LockDone, ShouldReclaim, Status, Reclaimed, Recheck, Act
<1>2. CASE FirstAcquire(t) \/ SecondAcquire(t)
  <2>1. /\ tool[t].session \in Sessions /\ tool[t].inst \in Instances
        /\ tool[t].type \in LockType
    BY <1>2, ToolOrNot DEF FirstAcquire, SecondAcquire
  <2>2. Acquire(tool[t].session, tool[t].inst, tool[t].type, TRUE)
    BY <1>2 DEF FirstAcquire, SecondAcquire, AutoAcquire
  <2> QED BY <2>1, <2>2 DEF Next
<1>3. ASSUME NEW l \in snapshot[t], Reclaim(t, l)
      PROVE  [Next]_vars
  <2>1. tool[t].inst \in Instances /\ l.session \in Sessions
    BY <1>3, ToolOrNot DEF Reclaim, McpTypeOK, LockInfo
  <2>2. {l.session} \in Matches
    BY <2>1 DEF Matches
  <2>3. CASE Release(t, tool[t].inst, {l.session})
    BY <2>1, <2>2, <2>3 DEF Next
  <2> QED BY <1>3, <2>3 DEF Reclaim
<1> QED BY <1>1, <1>2, <1>3 DEF ToolStep

\* The server changes the manager's state by calls of the manager only.
LEMMA MNextCalls == McpTypeOK /\ [MNext]_mvars => [Next]_vars
<1> SUFFICES ASSUME McpTypeOK, [MNext]_mvars
             PROVE  [Next]_vars
  OBVIOUS
<1>1. ASSUME NEW s \in Sessions, NewSession(s)
      PROVE  Next
  BY <1>1 DEF NewSession, Next
<1>2. ASSUME NEW s \in Sessions, NEW i \in Instances,
             RenewLock(s, i) \/ Inner(Expire(s, i))
      PROVE  Next
  BY <1>2 DEF RenewLock, Inner, Next
<1>3. ASSUME NEW t \in Tasks, NEW s \in Sessions, NEW i \in Instances,
             NEW type \in LockType,
             LockNow(t, s, i, type) \/ LockWait(t, s, i, type)
             \/ StartTool(t, s, i, type)
      PROVE  [Next]_vars
  <2>1. CASE LockNow(t, s, i, type)
    BY <2>1 DEF LockNow, Next
  <2>2. CASE LockWait(t, s, i, type)
    BY <2>2 DEF LockWait, Next
  <2>3. CASE StartTool(t, s, i, type)
    BY <2>3 DEF StartTool
  <2> QED BY <1>3, <2>1, <2>2, <2>3
<1>4. ASSUME NEW t \in Tasks, NEW s \in Sessions, NEW i \in Instances,
             NEW S \in Matches, Unlock(t, s, i, S)
      PROVE  Next
  BY <1>4 DEF Unlock, Next
<1>5. ASSUME NEW t \in Tasks, NEW s \in Sessions, DropSession(t, s)
      PROVE  Next
  BY <1>5 DEF DropSession, Next
<1>6. ASSUME NEW t \in Tasks, Inner(CallStep(t)) \/ ToolStep(t)
      PROVE  [Next]_vars
  BY <1>6, ToolStepCalls DEF Inner, Next
<1>7. CASE Inner(ReaperStep)
  BY <1>7 DEF Inner, Next
<1>8. CASE UNCHANGED mvars
  BY <1>8 DEF mvars
<1> QED BY <1>1, <1>2, <1>3, <1>4, <1>5, <1>6, <1>7, <1>8 DEF MNext, TaskStep

-----------------------------------------------------------------------------
(* Types                                                                   *)

\* Every step of the server keeps the types.
LEMMA McpTypeStep == McpTypeOK /\ TableOK /\ [MNext]_mvars => McpTypeOK'
<1> SUFFICES ASSUME McpTypeOK, TableOK, [MNext]_mvars
             PROVE  McpTypeOK'
  OBVIOUS
<1>1. CASE UNCHANGED <<tool, step, snapshot>>
  BY <1>1 DEF McpTypeOK
<1>2. ASSUME NEW t \in Tasks, NEW s \in Sessions, NEW i \in Instances,
             NEW type \in LockType,
             LockNow(t, s, i, type) \/ LockWait(t, s, i, type)
      PROVE  McpTypeOK'
  BY <1>2, BeginType DEF LockNow, LockWait, Step
<1>3. ASSUME NEW t \in Tasks, NEW s \in Sessions, NEW i \in Instances,
             NEW type \in LockType, StartTool(t, s, i, type)
      PROVE  McpTypeOK'
  <2>1. PICK next \in Step \ {"none"} : Begin(t, s, i, type, next)
    BY <1>3 DEF StartTool, Step
  <2> QED BY <2>1, BeginType
<1>4. ASSUME NEW t \in Tasks, NEW s \in Sessions, NEW i \in Instances,
             NEW S \in Matches, Unlock(t, s, i, S)
      PROVE  McpTypeOK'
  BY <1>4, BeginType DEF Unlock, Step, LockType
<1>5. ASSUME NEW t \in Tasks, ToolStep(t)
      PROVE  McpTypeOK'
  BY <1>5, ToolStepType
<1>6. ASSUME NEW t \in Tasks, Inner(CallStep(t))
      PROVE  McpTypeOK'
  BY <1>1, <1>6 DEF Inner
<1> QED BY <1>1, <1>2, <1>3, <1>4, <1>5, <1>6
           DEF MNext, TaskStep, NewSession, RenewLock, Inner, DropSession, mvars

-----------------------------------------------------------------------------
(* Calls inside the manager, and live tools                                *)

\* Every call that is in acquire_or_wait after the step was before, and is the
\* call of the same tool.
SameWaits ==
    \A t \in Tasks : pc'[t] \in InQueue =>
        /\ pc[t] \in InQueue /\ req'[t] = req[t]
        /\ step'[t] = step[t] /\ tool'[t] = tool[t]

\* Who waits in the lock manager stays a tool in progress.
LEMMA SameWaitsStep ==
    ASSUME WaitsAreTools, SameWaits
    PROVE  WaitsAreTools'
  BY DEF WaitsAreTools, SameWaits

\* A call of the lock manager that waits after a step waited before it.
LEMMA CallStepWaits ==
    ASSUME CallsOK, NEW t \in Tasks, CallStep(t)
    PROVE  \A u \in Tasks : pc'[u] \in InQueue =>
               pc[u] \in InQueue /\ req'[u] = req[u]
<1>1. CASE Enqueue(t) \/ Timeout(t)
  BY <1>1 DEF Enqueue, Timeout, CallsOK, InQueue
<1>2. CASE Notified(t) \/ RemoveFromQueue(t) \/ Unregistered(t)
  BY <1>2 DEF Notified, RemoveFromQueue, Unregistered, Return, CallsOK, InQueue
<1>3. CASE StartPurge(t)
  BY <1>3 DEF StartPurge, CallsOK, InQueue
<1>4. CASE UNCHANGED <<pc, req>>
  BY <1>4
<1> QED BY <1>1, <1>2, <1>3, <1>4 DEF CallStep, CloseRelease, Purge, RemoveEntry

\* A step of a tool is made outside the manager, and the calls under way in it
\* go on.
LEMMA ToolStepWaits ==
    ASSUME CallsOK, McpTypeOK, WaitsAreTools, NEW t \in Tasks, ToolStep(t)
    PROVE  SameWaits
<1>1. pc[t] \notin InQueue
  BY DEF ToolStep, LockDone, FirstAcquire, ShouldReclaim, Status, Reclaim,
         Reclaimed, SecondAcquire, Recheck, Act, WaitsAreTools, Idle, InQueue
<1>2. /\ UNCHANGED <<pc, req>>
      /\ \A u \in Tasks \ {t} : step'[u] = step[u] /\ tool'[u] = tool[u]
  <2>1. CASE LockDone(t) \/ Act(t) \/ Recheck(t)
    BY <2>1 DEF LockDone, Act, Recheck, Finish, Goto, McpTypeOK, vars
  <2>2. CASE FirstAcquire(t) \/ SecondAcquire(t)
    BY <2>2 DEF FirstAcquire, SecondAcquire, AutoAcquire, Acquire, Goto, McpTypeOK
  <2>3. CASE ShouldReclaim(t) \/ Status(t) \/ Reclaimed(t)
    BY <2>3 DEF ShouldReclaim, Status, Reclaimed, Goto, McpTypeOK, vars
  <2>4. ASSUME NEW l \in snapshot[t], Reclaim(t, l)
        PROVE  /\ UNCHANGED <<pc, req>>
               /\ \A u \in Tasks \ {t} : step'[u] = step[u] /\ tool'[u] = tool[u]
    BY <2>4 DEF Reclaim, Release, vars
  <2> QED BY <2>1, <2>2, <2>3, <2>4 DEF ToolStep
<1> QED BY <1>1, <1>2 DEF SameWaits

\* Every wait in the lock manager stays that of a tool in progress.
LEMMA WaitsStep ==
    CallsOK /\ McpTypeOK /\ WaitsAreTools /\ [MNext]_mvars => WaitsAreTools'
<1> SUFFICES ASSUME CallsOK, McpTypeOK, WaitsAreTools, [MNext]_mvars
             PROVE  WaitsAreTools'
  OBVIOUS
<1>1. ASSUME UNCHANGED <<pc, req, tool, step>>
      PROVE  WaitsAreTools'
  BY <1>1 DEF WaitsAreTools
<1>2. ASSUME NEW t \in Tasks, NEW s \in Sessions, NEW i \in Instances,
             NEW type \in LockType, NEW next \in Step,
             Begin(t, s, i, type, next), UNCHANGED <<pc, req>>
      PROVE  WaitsAreTools'
  <2>1. SameWaits
    BY <1>2 DEF Begin, Goto, Ready, Idle, SameWaits, McpTypeOK, InQueue
  <2> QED BY <2>1, SameWaitsStep
<1>3. ASSUME NEW t \in Tasks, NEW s \in Sessions, NEW i \in Instances,
             NEW type \in LockType, LockNow(t, s, i, type)
      PROVE  WaitsAreTools'
  BY <1>2, <1>3 DEF LockNow, Acquire, Step
<1>4. ASSUME NEW t \in Tasks, NEW s \in Sessions, NEW i \in Instances,
             NEW type \in LockType, LockWait(t, s, i, type)
      PROVE  WaitsAreTools'
  <2>1. /\ step' = [step EXCEPT ![t] = "lock"]
        /\ tool' = [tool EXCEPT ![t] = [session |-> s, inst |-> i, type |-> type]]
        /\ pc' = [pc EXCEPT ![t] = "enqueue"]
        /\ req' = [req EXCEPT ![t] = [session |-> s, inst |-> i, type |-> type]]
    BY <1>4 DEF LockWait, Begin, Goto, AcquireOrWait
  <2>2. step'[t] = "lock" /\ tool'[t].session = req'[t].session
    BY <2>1 DEF McpTypeOK, CallsOK
  <2>3. \A u \in Tasks \ {t} : /\ step'[u] = step[u] /\ tool'[u] = tool[u]
                               /\ pc'[u] = pc[u] /\ req'[u] = req[u]
    BY <2>1 DEF McpTypeOK, CallsOK
  <2> QED BY <2>2, <2>3 DEF WaitsAreTools
<1>5. ASSUME NEW t \in Tasks, NEW s \in Sessions, NEW i \in Instances,
             NEW type \in LockType, StartTool(t, s, i, type)
      PROVE  WaitsAreTools'
  <2>1. PICK next \in Step : Begin(t, s, i, type, next)
    BY <1>5 DEF StartTool, Step
  <2>2. UNCHANGED <<pc, req>>
    BY <1>5 DEF StartTool, vars
  <2> QED BY <1>2, <2>1, <2>2
<1>6. ASSUME NEW t \in Tasks, NEW s \in Sessions, NEW i \in Instances,
             NEW S \in Matches, Unlock(t, s, i, S)
      PROVE  WaitsAreTools'
  BY <1>2, <1>6 DEF Unlock, Release, Step, LockType
<1>7. ASSUME NEW t \in Tasks, NEW s \in Sessions, DropSession(t, s)
      PROVE  WaitsAreTools'
  <2>1. SameWaits
    BY <1>7 DEF DropSession, Unregister, SameWaits, InQueue, CallsOK
  <2> QED BY <2>1, SameWaitsStep
<1>8. ASSUME NEW t \in Tasks, Inner(CallStep(t))
      PROVE  WaitsAreTools'
  <2>1. SameWaits
    BY <1>8, CallStepWaits DEF Inner, SameWaits
  <2> QED BY <2>1, SameWaitsStep
<1>9. ASSUME NEW t \in Tasks, ToolStep(t)
      PROVE  WaitsAreTools'
  BY <1>9, ToolStepWaits, SameWaitsStep
<1>10. CASE Inner(ReaperStep)
  BY <1>1, <1>10 DEF Inner, ReaperStep, StartReaping, Reap, RemoveEntry
<1>11. ASSUME NEW s \in Sessions, NEW i \in Instances,
              RenewLock(s, i) \/ Inner(Expire(s, i))
       PROVE  WaitsAreTools'
  BY <1>1, <1>11 DEF RenewLock, Renew, Inner, Expire
<1>12. ASSUME NEW s \in Sessions, NewSession(s)
       PROVE  WaitsAreTools'
  BY <1>1, <1>12 DEF NewSession, Register
<1>13. CASE UNCHANGED mvars
  BY <1>1, <1>13 DEF mvars, vars
<1> QED BY <1>3, <1>4, <1>5, <1>6, <1>7, <1>8, <1>9, <1>10, <1>11, <1>12, <1>13
           DEF MNext, TaskStep

\* A session's guard is dropped only when no tool of it is in progress.
LEMMA LiveStep ==
    McpTypeOK /\ ToolsAreLive /\ [MNext]_mvars => ToolsAreLive'
<1> SUFFICES ASSUME McpTypeOK, ToolsAreLive, [MNext]_mvars
             PROVE  ToolsAreLive'
  OBVIOUS
<1>1. ASSUME NEW t \in Tasks, tool' \in {tool, [tool EXCEPT ![t] = NoTool]},
             active' = active
      PROVE  ToolsAreLive'
  BY <1>1 DEF ToolsAreLive, McpTypeOK
<1>2. ASSUME NEW t \in Tasks, NEW s \in Sessions, NEW i \in Instances,
             NEW type \in LockType, NEW next \in Step,
             Begin(t, s, i, type, next), active' = active
      PROVE  ToolsAreLive'
  BY <1>2 DEF Begin, ToolsAreLive, McpTypeOK
<1>3. ASSUME NEW t \in Tasks, NEW s \in Sessions, NEW i \in Instances,
             NEW type \in LockType,
             LockNow(t, s, i, type) \/ LockWait(t, s, i, type)
      PROVE  ToolsAreLive'
  BY <1>2, <1>3 DEF LockNow, LockWait, Acquire, AcquireOrWait, Step
<1>4. ASSUME NEW t \in Tasks, NEW s \in Sessions, NEW i \in Instances,
             NEW type \in LockType, StartTool(t, s, i, type)
      PROVE  ToolsAreLive'
  <2>1. PICK next \in Step : Begin(t, s, i, type, next)
    BY <1>4 DEF StartTool, Step
  <2>2. active' = active
    BY <1>4 DEF StartTool, vars
  <2> QED BY <1>2, <2>1, <2>2
<1>5. ASSUME NEW t \in Tasks, NEW s \in Sessions, NEW i \in Instances,
             NEW S \in Matches, Unlock(t, s, i, S)
      PROVE  ToolsAreLive'
  BY <1>2, <1>5 DEF Unlock, Release, Step, LockType
<1>6. ASSUME NEW t \in Tasks, NEW s \in Sessions, DropSession(t, s)
      PROVE  ToolsAreLive'
  BY <1>6 DEF DropSession, InProgress, Unregister, ToolsAreLive
<1>7. ASSUME NEW t \in Tasks, Inner(CallStep(t))
      PROVE  ToolsAreLive'
  <2>1. active' = active
    BY <1>7 DEF Inner, CallStep, Enqueue, Notified, Timeout, RemoveFromQueue,
                CloseRelease, Purge, StartPurge, Unregistered, RemoveEntry
  <2> QED BY <1>1, <1>7, <2>1 DEF Inner
<1>8. ASSUME NEW t \in Tasks, ToolStep(t)
      PROVE  ToolsAreLive'
  <2>1. CASE LockDone(t) \/ Act(t) \/ Recheck(t)
    BY <1>1, <2>1 DEF LockDone, Act, Recheck, Finish, vars
  <2>2. CASE FirstAcquire(t) \/ SecondAcquire(t)
    BY <1>1, <2>2 DEF FirstAcquire, SecondAcquire, AutoAcquire, Acquire
  <2>3. CASE ShouldReclaim(t) \/ Status(t) \/ Reclaimed(t)
    BY <1>1, <2>3 DEF ShouldReclaim, Status, Reclaimed, vars
  <2>4. ASSUME NEW l \in snapshot[t], Reclaim(t, l)
        PROVE  ToolsAreLive'
    BY <1>1, <2>4 DEF Reclaim, Release, vars
  <2> QED BY <1>8, <2>1, <2>2, <2>3, <2>4 DEF ToolStep
<1>9. ASSUME UNCHANGED tool, active \subseteq active'
      PROVE  ToolsAreLive'
  BY <1>9 DEF ToolsAreLive
<1>10. CASE Inner(ReaperStep)
  BY <1>9, <1>10 DEF Inner, ReaperStep, StartReaping, Reap, RemoveEntry
<1>11. ASSUME NEW s \in Sessions, NEW i \in Instances,
              RenewLock(s, i) \/ Inner(Expire(s, i))
       PROVE  ToolsAreLive'
  BY <1>9, <1>11 DEF RenewLock, Renew, Inner, Expire
<1>12. ASSUME NEW s \in Sessions, NewSession(s)
       PROVE  ToolsAreLive'
  BY <1>9, <1>12 DEF NewSession, Register
<1>13. CASE UNCHANGED mvars
  BY <1>9, <1>13 DEF mvars, vars
<1> QED BY <1>3, <1>4, <1>5, <1>6, <1>7, <1>8, <1>10, <1>11, <1>12, <1>13
           DEF MNext, TaskStep

-----------------------------------------------------------------------------
(* Who holds a lock                                                        *)

\* Promotion changes the queue only; what is given up is not held.
LEMMA ReleasedHolders ==
    ASSUME NEW st, EntryOK(st), NEW S
    PROVE  \A s : IsHeldBy(Released(st, S), s) => IsHeldBy(st, s) /\ s \notin S
<1>1. /\ Released(st, S).exclusive = Dropped(st, S).exclusive
      /\ Released(st, S).observers = Dropped(st, S).observers
  BY DroppedEntry, PromotedEntry DEF Released
<1>2. /\ Dropped(st, S).exclusive =
             IF st.exclusive # NoLock /\ st.exclusive.session \in S
             THEN NoLock ELSE st.exclusive
      /\ Dropped(st, S).observers = {o \in st.observers : o.session \notin S}
  BY DEF Dropped, EntryOK, LockState
<1> QED BY <1>1, <1>2 DEF IsHeldBy, HoldsExclusive, HoldsObserver

\* A state with fewer locks has fewer holders.
LEMMA FewerHolders ==
    ASSUME NEW st, NEW next, next.exclusive \in {st.exclusive, NoLock},
           next.observers \subseteq st.observers
    PROVE  \A s : IsHeldBy(next, s) => IsHeldBy(st, s)
  BY DEF IsHeldBy, HoldsExclusive, HoldsObserver

\* The reaper adds no holder.
LEMMA ReapedHolders ==
    ASSUME NEW st, EntryOK(st)
    PROVE  \A s : IsHeldBy(Reaped(st), s) => IsHeldBy(st, s)
  BY ReapedLocks, FewerHolders

\* A lock whose expiry moves, either way, stays with its session.
LEMMA FlaggedHolders ==
    ASSUME NEW st, EntryOK(st), NEW s
    PROVE  \A r : /\ IsHeldBy(Renewed(st, s), r) <=> IsHeldBy(st, r)
                  /\ HoldsExclusive(Renewed(st, s), r) <=> HoldsExclusive(st, r)
                  /\ IsHeldBy(Expired(st, s), r) <=> IsHeldBy(st, r)
<1>1. st.exclusive \in LockInfo \cup {NoLock} /\ st.observers \subseteq LockInfo
  BY DEF EntryOK, LockState
<1>2. ASSUME NEW b \in BOOLEAN, NEW next,
             next = [st EXCEPT
                       !.exclusive = IF @ # NoLock /\ @.session = s
                                     THEN [@ EXCEPT !.expired = b] ELSE @,
                       !.observers = {IF o.session = s
                                      THEN [o EXCEPT !.expired = b]
                                      ELSE o : o \in @}]
      PROVE  \A r : /\ HoldsExclusive(next, r) <=> HoldsExclusive(st, r)
                    /\ HoldsObserver(next, r) <=> HoldsObserver(st, r)
  <2> DEFINE exc == IF st.exclusive # NoLock /\ st.exclusive.session = s
                    THEN [st.exclusive EXCEPT !.expired = b] ELSE st.exclusive
             flagged(o) == IF o.session = s THEN [o EXCEPT !.expired = b] ELSE o
  <2>1. next.exclusive = exc /\ next.observers = {flagged(o) : o \in st.observers}
    BY <1>2 DEF EntryOK, LockState
  <2>2. \A o \in st.observers : flagged(o).session = o.session
    BY <1>1 DEF LockInfo
  <2>3. /\ exc = NoLock <=> st.exclusive = NoLock
        /\ exc # NoLock => exc.session = st.exclusive.session
    BY <1>1, NoLockAssumption DEF LockInfo
  <2> HIDE DEF exc, flagged
  <2>4. \A r : HoldsExclusive(next, r) <=> HoldsExclusive(st, r)
    BY <2>1, <2>3 DEF HoldsExclusive
  <2>5. \A r : HoldsObserver(next, r) <=> HoldsObserver(st, r)
    BY <2>1, <2>2 DEF HoldsObserver
  <2> QED BY <2>4, <2>5
<1> QED BY <1>2 DEF Renewed, Expired, IsHeldBy

\* acquire_inner makes the caller the only new holder.
LEMMA AttemptHolders ==
    ASSUME NEW st, EntryOK(st), NEW s \in Sessions, NEW type \in LockType,
           NEW auto \in BOOLEAN, NEW next,
           next = IF Acquirable(st, s, type)
                  THEN Acquired(st, s, type, auto) ELSE st
    PROVE  \A r : IsHeldBy(next, r) => IsHeldBy(st, r) \/ r = s
<1>1. CASE Renews(st, s, type) \/ ~Acquirable(st, s, type)
  BY <1>1, FlaggedHolders DEF Acquired
<1>2. CASE ~Renews(st, s, type) /\ Acquirable(st, s, type)
  <2> DEFINE lock == NewLock(s, auto)
  <2>1. lock.session = s
    BY DEF NewLock
  <2>2. /\ next.exclusive \in {lock, st.exclusive}
        /\ next.observers \subseteq st.observers \cup {lock}
    BY <1>2 DEF Acquired, Granted, EntryOK, LockState
  <2> HIDE DEF lock
  <2> QED BY <2>1, <2>2 DEF IsHeldBy, HoldsExclusive, HoldsObserver
<1> QED BY <1>1, <1>2

\* What acquire_inner grants is the access the tool asked for: a session that
\* renews an observer lock holds no instance another holds exclusively.
LEMMA AcquiredAccess ==
    ASSUME NEW st, EntryOK(st), NEW s \in Sessions, NEW type \in LockType,
           NEW auto \in BOOLEAN, Acquirable(st, s, type)
    PROVE  CheckAccess(Acquired(st, s, type, auto), s, type)
<1>1. CASE HoldsExclusive(st, s)
  BY <1>1, FlaggedHolders DEF Acquired, Renews, CheckAccess
<1>2. CASE ~HoldsExclusive(st, s) /\ Renews(st, s, type)
  <2>1. type = Observer /\ HoldsObserver(st, s)
    BY <1>2 DEF Renews
  <2>2. st.exclusive = NoLock
    BY <2>1 DEF HoldsObserver, EntryOK, Compatible
  <2>3. Renewed(st, s).exclusive = NoLock
    BY <2>2 DEF Renewed, EntryOK, LockState
  <2>4. HoldsObserver(Renewed(st, s), s)
    BY <2>1, <2>3, FlaggedHolders DEF IsHeldBy, HoldsExclusive
  <2> QED BY <1>2, <2>1, <2>3, <2>4 DEF Acquired, CheckAccess
<1>3. CASE ~Renews(st, s, type)
  <2> DEFINE lock == NewLock(s, auto)
  <2>1. lock # NoLock /\ lock.session = s
    <3>1. lock \in LockInfo /\ lock.session = s
      BY DEF NewLock, LockInfo
    <3> QED BY <3>1, NoLockAssumption
  <2>2. CASE type = Exclusive
    <3>1. Acquired(st, s, type, auto).exclusive = lock
      BY <1>3, <2>2 DEF Acquired, Granted, EntryOK, LockState
    <3> HIDE DEF lock
    <3> QED BY <2>1, <3>1 DEF CheckAccess, HoldsExclusive
  <2>3. CASE type # Exclusive
    <3>1. type = Observer /\ st.exclusive = NoLock
      BY <1>3, <2>3 DEF LockType, Acquirable, Grantable
    <3>2. /\ Acquired(st, s, type, auto).exclusive = NoLock
          /\ Acquired(st, s, type, auto).observers = st.observers \cup {lock}
      BY <1>3, <2>3, <3>1 DEF Acquired, Granted, EntryOK, LockState
    <3> HIDE DEF lock
    <3> QED BY <2>1, <3>1, <3>2 DEF CheckAccess, HoldsObserver
  <2> QED BY <2>2, <2>3
<1> QED BY <1>1, <1>2, <1>3

-----------------------------------------------------------------------------
(* Dead sessions                                                           *)

\* Nobody but a live session comes to hold a lock, and no unregistering skips
\* an instance.
HoldersStayOrLive ==
    \A i \in Instances, s \in Sessions :
        IsHeldBy(locks'[i], s) => IsHeldBy(locks[i], s) \/ s \in active'

ReleasesGoOn ==
    \A t \in Tasks : pc[t] = "release" /\ todo[t] # {} =>
        pc'[t] = "release" /\ req'[t] = req[t] /\ todo[t] \subseteq todo'[t]

\* Dead sessions hold no more than before, while releases go on.
LEMMA DeadStay ==
    ASSUME DeadAreReleased, HoldersStayOrLive, ReleasesGoOn, active \subseteq active'
    PROVE  DeadAreReleased'
<1> SUFFICES ASSUME NEW s \in Sessions \ active', NEW i \in Instances,
                    IsHeldBy(locks'[i], s)
             PROVE  \E t \in Tasks :
                        pc'[t] = "release" /\ req'[t].session = s /\ i \in todo'[t]
  BY DEF DeadAreReleased, StillToRelease
<1>1. IsHeldBy(locks[i], s) /\ s \in Sessions \ active
  BY DEF HoldersStayOrLive
<1>2. PICK t \in Tasks : pc[t] = "release" /\ req[t].session = s /\ i \in todo[t]
  BY <1>1 DEF DeadAreReleased, StillToRelease
<1> QED BY <1>2 DEF ReleasesGoOn

\* Nobody becomes a holder when the locks stay the same.
LEMMA SameHolders ==
    ASSUME UNCHANGED locks
    PROVE  HoldersStayOrLive
  BY DEF HoldersStayOrLive

\* Who becomes a holder at one instance is active.
LEMMA EntryHolders ==
    ASSUME TableOK, NEW i \in Instances, NEW next,
           locks' = [locks EXCEPT ![i] = next],
           \A r \in Sessions : IsHeldBy(next, r) =>
               IsHeldBy(locks[i], r) \/ r \in active'
    PROVE  HoldersStayOrLive
<1>1. \A j \in Instances : locks'[j] = IF j = i THEN next ELSE locks[j]
  BY DEF TableOK
<1> QED BY <1>1 DEF HoldersStayOrLive

\* A release leaves its sessions no lock, and promotes active ones.
LEMMA ReleaseEntryHolders ==
    ASSUME TableOK, NEW a \in Actors, NEW i \in Instances, NEW S,
           ReleaseEntry(a, i, S)
    PROVE  /\ HoldersStayOrLive
           /\ \A s \in S : ~IsHeldBy(locks'[i], s)
<1> DEFINE next == IF Holds(locks[i], S) THEN Released(locks[i], S) ELSE locks[i]
<1>1. /\ \A r : IsHeldBy(next, r) => IsHeldBy(locks[i], r)
      /\ \A s \in S : ~IsHeldBy(next, s)
  BY ReleasedHolders DEF TableOK, Holds
<1>2. locks' = [locks EXCEPT ![i] = next]
  BY DEF ReleaseEntry, SetEntry
<1>3. locks'[i] = next
  BY <1>2 DEF TableOK
<1> HIDE DEF next
<1> QED BY <1>1, <1>2, <1>3, EntryHolders

\* An empty entry that is removed has no holders.
LEMMA RemoveEntryHolders ==
    ASSUME TableOK, CallsOK, NEW a \in Actors, RemoveEntry(a)
    PROVE  HoldersStayOrLive /\ ReleasesGoOn /\ active \subseteq active'
<1>1. PICK i \in emptied[a] : locks' = [locks EXCEPT ![i] = EmptyState]
  BY DEF RemoveEntry
<1>2. i \in Instances
  BY DEF CallsOK
<1>3. \A r : ~IsHeldBy(EmptyState, r)
  BY DEF IsHeldBy, HoldsExclusive, HoldsObserver, EmptyState
<1>4. HoldersStayOrLive
  BY <1>1, <1>2, <1>3, EntryHolders
<1> QED BY <1>4 DEF RemoveEntry, ReleasesGoOn

\* Who acquires is active.
LEMMA AttemptEntryHolders ==
    ASSUME TableOK, NEW i \in Instances, NEW s \in Sessions, NEW type \in LockType,
           NEW auto \in BOOLEAN, s \in active',
           SetEntry(i, IF Acquirable(locks[i], s, type)
                       THEN Acquired(locks[i], s, type, auto) ELSE locks[i])
    PROVE  HoldersStayOrLive
<1> DEFINE next == IF Acquirable(locks[i], s, type)
                   THEN Acquired(locks[i], s, type, auto) ELSE locks[i]
<1>1. \A r : IsHeldBy(next, r) => IsHeldBy(locks[i], r) \/ r = s
  BY AttemptHolders DEF TableOK
<1>2. locks' = [locks EXCEPT ![i] = next]
  BY DEF SetEntry
<1> HIDE DEF next
<1> QED BY <1>1, <1>2, EntryHolders

\* acquire, for a tool of a live session.
LEMMA AcquireDead ==
    ASSUME TableOK, DeadAreReleased, NEW s \in Sessions, NEW i \in Instances,
           NEW type \in LockType, NEW auto \in BOOLEAN, s \in active,
           Acquire(s, i, type, auto)
    PROVE  DeadAreReleased'
<1>1. HoldersStayOrLive
  BY AttemptEntryHolders DEF Acquire
<1>2. ReleasesGoOn /\ active \subseteq active'
  BY DEF Acquire, ReleasesGoOn
<1> QED BY <1>1, <1>2, DeadStay

\* A release by vscreen_lock or at the end of a tool.
LEMMA ReleaseDead ==
    ASSUME TableOK, DeadAreReleased, NEW t \in Tasks, NEW i \in Instances, NEW S,
           Release(t, i, S)
    PROVE  DeadAreReleased'
<1>1. HoldersStayOrLive
  BY ReleaseEntryHolders DEF Release, Actors
<1>2. ReleasesGoOn /\ active \subseteq active'
  BY DEF Release, ReleasesGoOn
<1> QED BY <1>1, <1>2, DeadStay

\* The instance a step of release_all_for_session visits is not held by its
\* session after it; the others still are to be visited.
LEMMA CloseReleaseDead ==
    ASSUME TableOK, CallsOK, DeadAreReleased, NEW t \in Tasks, NEW i \in Instances,
           CloseRelease(t, i)
    PROVE  DeadAreReleased'
<1>1. /\ ReleaseEntry(t, i, {req[t].session}) /\ t \in Actors
      /\ todo' = [todo EXCEPT ![t] = @ \ {i}] /\ UNCHANGED <<active, pc, req>>
  BY DEF CloseRelease, Actors
<1>2. HoldersStayOrLive /\ ~IsHeldBy(locks'[i], req[t].session)
  BY <1>1, ReleaseEntryHolders
<1>3. \A u \in Tasks, j \in Instances : j \in todo[u] /\ ~(u = t /\ j = i) => j \in todo'[u]
  BY <1>1 DEF CallsOK, Actors
<1> SUFFICES ASSUME NEW s \in Sessions \ active', NEW j \in Instances,
                    IsHeldBy(locks'[j], s)
             PROVE  \E u \in Tasks :
                        pc'[u] = "release" /\ req'[u].session = s /\ j \in todo'[u]
  BY DEF DeadAreReleased, StillToRelease
<1>4. IsHeldBy(locks[j], s) /\ s \in Sessions \ active
  BY <1>1, <1>2 DEF HoldersStayOrLive
<1>5. PICK u \in Tasks : pc[u] = "release" /\ req[u].session = s /\ j \in todo[u]
  BY <1>4 DEF DeadAreReleased, StillToRelease
<1>6. ~(u = t /\ j = i)
  BY <1>2, <1>5
<1> QED BY <1>1, <1>3, <1>5, <1>6

\* unregister_session starts with every instance its session may hold.
LEMMA UnregisterDead ==
    ASSUME TableOK, CallsOK, DeadAreReleased, NEW t \in Tasks, NEW s \in Sessions,
           Unregister(t, s)
    PROVE  DeadAreReleased'
<1>1. /\ active' = active \ {s} /\ pc[t] = "idle"
      /\ pc' = [pc EXCEPT ![t] = "release"]
      /\ req' = [req EXCEPT ![t] = [session |-> s]]
      /\ todo' = [todo EXCEPT ![t] = keys]
      /\ UNCHANGED locks
  BY DEF Unregister, Idle
<1>2. pc'[t] = "release" /\ req'[t].session = s /\ todo'[t] = keys
  BY <1>1 DEF CallsOK, Actors
<1>3. \A u \in Tasks \ {t} :
          pc'[u] = pc[u] /\ req'[u] = req[u] /\ todo'[u] = todo[u]
  BY <1>1 DEF CallsOK, Actors
<1> SUFFICES ASSUME NEW r \in Sessions \ active', NEW i \in Instances,
                    IsHeldBy(locks[i], r)
             PROVE  \E u \in Tasks :
                        pc'[u] = "release" /\ req'[u].session = r /\ i \in todo'[u]
  BY <1>1 DEF DeadAreReleased, StillToRelease
<1>4. CASE r = s
  <2>1. i \in keys
    <3>1. ~IsHeldBy(EmptyState, r)
      BY DEF IsHeldBy, HoldsExclusive, HoldsObserver, EmptyState
    <3> QED BY <3>1 DEF TableOK
  <2> QED BY <1>2, <1>4, <2>1
<1>5. CASE r # s
  <2>1. PICK u \in Tasks : pc[u] = "release" /\ req[u].session = r /\ i \in todo[u]
    BY <1>1, <1>5 DEF DeadAreReleased, StillToRelease
  <2> QED BY <1>1, <1>3, <2>1
<1> QED BY <1>4, <1>5

\* A step of a call inside the lock manager.
LEMMA CallStepDead ==
    ASSUME TableOK, CallsOK, McpTypeOK, WaitsAreTools, ToolsAreLive, DeadAreReleased,
           NEW t \in Tasks, CallStep(t)
    PROVE  DeadAreReleased'
<1>1. ASSUME UNCHANGED <<active, todo>>, pc[t] # "release",
             \A u \in Tasks \ {t} : pc'[u] = pc[u] /\ req'[u] = req[u]
      PROVE  ReleasesGoOn /\ active \subseteq active'
  BY <1>1 DEF ReleasesGoOn
<1>2. CASE Enqueue(t)
  <2> DEFINE r == req[t]
             next == Enqueued(locks[r.inst], t, r.session, r.type)
  <2>1. r.inst \in Instances
    BY <1>2 DEF Enqueue, CallsOK, Request
  <2>2. /\ next.exclusive = locks[r.inst].exclusive
        /\ next.observers = locks[r.inst].observers
    BY <2>1 DEF Enqueued, TableOK, EntryOK, LockState
  <2>3. locks' = [locks EXCEPT ![r.inst] = next]
    BY <1>2 DEF Enqueue, SetEntry
  <2> HIDE DEF next, r
  <2>4. HoldersStayOrLive
    <3>1. \A s : IsHeldBy(next, s) => IsHeldBy(locks[r.inst], s)
      BY <2>2, FewerHolders
    <3> QED BY <2>1, <2>3, <3>1, EntryHolders
  <2>5. ReleasesGoOn /\ active \subseteq active'
    BY <1>1, <1>2 DEF Enqueue, CallsOK
  <2> QED BY <2>4, <2>5, DeadStay
<1>3. CASE Notified(t)
  <2> DEFINE r == req[t]
  <2>1. /\ r.inst \in Instances /\ r.session \in Sessions /\ r.type \in LockType
    BY <1>3 DEF Notified, CallsOK, Request
  <2>2. r.session \in active'
    <3>1. step[t] = "lock" /\ tool[t].session = r.session
      BY <1>3 DEF Notified, WaitsAreTools, InQueue
    <3>2. tool[t] # NoTool
      BY <3>1 DEF McpTypeOK
    <3> QED BY <1>3, <3>1, <3>2 DEF ToolsAreLive, Notified
  <2>3. SetEntry(r.inst, IF Acquirable(locks[r.inst], r.session, r.type)
                         THEN Acquired(locks[r.inst], r.session, r.type, FALSE)
                         ELSE locks[r.inst])
    BY <1>3 DEF Notified
  <2> HIDE DEF r
  <2>4. HoldersStayOrLive
    BY <2>1, <2>2, <2>3, AttemptEntryHolders
  <2>5. ReleasesGoOn /\ active \subseteq active'
    BY <1>1, <1>3 DEF Notified, Return, CallsOK
  <2> QED BY <2>4, <2>5, DeadStay
<1>4. CASE Timeout(t)
  <2>1. ReleasesGoOn /\ active \subseteq active'
    BY <1>1, <1>4 DEF Timeout, CallsOK
  <2> QED BY <1>4, <2>1, SameHolders, DeadStay DEF Timeout
<1>5. ASSUME NEW i \in Instances, NEW s,
             locks' = [locks EXCEPT ![i] = WithoutWaiters(@, s)]
      PROVE  HoldersStayOrLive
  <2> DEFINE next == WithoutWaiters(locks[i], s)
  <2>1. next.exclusive = locks[i].exclusive /\ next.observers = locks[i].observers
    BY DEF WithoutWaiters, TableOK, EntryOK, LockState
  <2>2. locks' = [locks EXCEPT ![i] = next]
    BY <1>5
  <2> HIDE DEF next
  <2>3. \A r : IsHeldBy(next, r) => IsHeldBy(locks[i], r)
    BY <2>1, FewerHolders
  <2> QED BY <2>2, <2>3, EntryHolders
<1>6. CASE RemoveFromQueue(t)
  <2>1. req[t].inst \in Instances
    BY <1>6 DEF RemoveFromQueue, CallsOK, Request
  <2>2. HoldersStayOrLive
    BY <1>5, <1>6, <2>1 DEF RemoveFromQueue
  <2>3. ReleasesGoOn /\ active \subseteq active'
    BY <1>1, <1>6 DEF RemoveFromQueue, Return, CallsOK
  <2> QED BY <2>2, <2>3, DeadStay
<1>7. ASSUME NEW i \in Instances, CloseRelease(t, i)
      PROVE  DeadAreReleased'
  BY <1>7, CloseReleaseDead
<1>8. ASSUME NEW i \in Instances, Purge(t, i)
      PROVE  DeadAreReleased'
  <2>1. HoldersStayOrLive
    BY <1>5, <1>8 DEF Purge
  <2>2. ReleasesGoOn /\ active \subseteq active'
    BY <1>8 DEF Purge, ReleasesGoOn, CallsOK, Actors
  <2> QED BY <2>1, <2>2, DeadStay
<1>9. CASE StartPurge(t)
  <2>1. ReleasesGoOn /\ active \subseteq active'
    BY <1>9 DEF StartPurge, ReleasesGoOn, CallsOK, Actors
  <2> QED BY <1>9, <2>1, SameHolders, DeadStay DEF StartPurge
<1>10. CASE Unregistered(t)
  <2>1. ReleasesGoOn /\ active \subseteq active'
    BY <1>1, <1>10 DEF Unregistered, Return, CallsOK
  <2> QED BY <1>10, <2>1, SameHolders, DeadStay DEF Unregistered
<1>11. CASE RemoveEntry(t)
  <2>1. HoldersStayOrLive /\ ReleasesGoOn /\ active \subseteq active'
    BY <1>11, RemoveEntryHolders DEF Actors
  <2> QED BY <2>1, DeadStay
<1> QED BY <1>2, <1>3, <1>4, <1>6, <1>7, <1>8, <1>9, <1>10, <1>11 DEF CallStep

\* A step of the reaper.
LEMMA ReaperStepDead ==
    ASSUME TableOK, CallsOK, DeadAreReleased, ReaperStep
    PROVE  DeadAreReleased'
<1>1. CASE StartReaping
  <2>1. ReleasesGoOn /\ active \subseteq active'
    BY <1>1, ReaperAssumption DEF StartReaping, ReleasesGoOn, CallsOK, Actors
  <2> QED BY <1>1, <2>1, SameHolders, DeadStay DEF StartReaping
<1>2. ASSUME NEW i \in Instances, Reap(i)
      PROVE  DeadAreReleased'
  <2>1. \A r : IsHeldBy(Reaped(locks[i]), r) => IsHeldBy(locks[i], r)
    BY ReapedHolders DEF TableOK
  <2>2. locks' = [locks EXCEPT ![i] = Reaped(locks[i])]
    BY <1>2 DEF Reap
  <2>3. HoldersStayOrLive
    BY <2>1, <2>2, EntryHolders
  <2>4. ReleasesGoOn /\ active \subseteq active'
    BY <1>2, ReaperAssumption DEF Reap, ReleasesGoOn, CallsOK, Actors
  <2> QED BY <2>3, <2>4, DeadStay
<1>3. CASE RemoveEntry(Reaper)
  <2>1. HoldersStayOrLive /\ ReleasesGoOn /\ active \subseteq active'
    BY <1>3, RemoveEntryHolders DEF Actors
  <2> QED BY <2>1, DeadStay
<1> QED BY <1>1, <1>2, <1>3 DEF ReaperStep

\* Every step of the server leaves dead sessions without locks, but for those
\* still being released.
LEMMA DeadStep ==
    TableOK /\ CallsOK /\ McpInv /\ [MNext]_mvars => DeadAreReleased'
<1> SUFFICES ASSUME TableOK, CallsOK, McpTypeOK, WaitsAreTools, ToolsAreLive,
                    DeadAreReleased, [MNext]_mvars
             PROVE  DeadAreReleased'
  BY DEF McpInv
<1>1. CASE UNCHANGED vars
  <2>1. HoldersStayOrLive /\ ReleasesGoOn /\ active \subseteq active'
    BY <1>1, SameHolders DEF vars, ReleasesGoOn
  <2> QED BY <2>1, DeadStay
<1>2. ASSUME NEW s \in Sessions, NewSession(s)
      PROVE  DeadAreReleased'
  <2>1. HoldersStayOrLive /\ ReleasesGoOn /\ active \subseteq active'
    BY <1>2, SameHolders DEF NewSession, Register, ReleasesGoOn
  <2> QED BY <2>1, DeadStay
<1>3. ASSUME NEW s \in Sessions, NEW i \in Instances,
             RenewLock(s, i) \/ Inner(Expire(s, i))
      PROVE  DeadAreReleased'
  <2>1. \A r : /\ IsHeldBy(Renewed(locks[i], s), r) => IsHeldBy(locks[i], r)
               /\ IsHeldBy(Expired(locks[i], s), r) => IsHeldBy(locks[i], r)
    BY FlaggedHolders DEF TableOK
  <2>2. \/ locks' = [locks EXCEPT ![i] = Renewed(locks[i], s)]
        \/ locks' = [locks EXCEPT ![i] = Expired(locks[i], s)]
    BY <1>3 DEF RenewLock, Renew, Inner, Expire
  <2>3. HoldersStayOrLive
    BY <2>1, <2>2, EntryHolders
  <2>4. ReleasesGoOn /\ active \subseteq active'
    BY <1>3 DEF RenewLock, Renew, Inner, Expire, ReleasesGoOn
  <2> QED BY <2>3, <2>4, DeadStay
<1>4. ASSUME NEW t \in Tasks, NEW s \in Sessions, NEW i \in Instances,
             NEW type \in LockType, LockNow(t, s, i, type)
      PROVE  DeadAreReleased'
  BY <1>4, AcquireDead DEF LockNow, Begin
<1>5. ASSUME NEW t \in Tasks, NEW s \in Sessions, NEW i \in Instances,
             NEW type \in LockType, LockWait(t, s, i, type)
      PROVE  DeadAreReleased'
  <2>1. \A j \in Instances : locks'[j] = locks[j]
    BY <1>5 DEF LockWait, AcquireOrWait, SetEntry, TableOK
  <2>2. HoldersStayOrLive
    BY <2>1 DEF HoldersStayOrLive
  <2>3. ReleasesGoOn /\ active \subseteq active'
    BY <1>5 DEF LockWait, AcquireOrWait, Idle, ReleasesGoOn, CallsOK
  <2> QED BY <2>2, <2>3, DeadStay
<1>6. ASSUME NEW t \in Tasks, NEW s \in Sessions, NEW i \in Instances,
             NEW S \in Matches, Unlock(t, s, i, S)
      PROVE  DeadAreReleased'
  BY <1>6, ReleaseDead DEF Unlock
<1>7. ASSUME NEW t \in Tasks, NEW s \in Sessions, DropSession(t, s)
      PROVE  DeadAreReleased'
  BY <1>7, UnregisterDead DEF DropSession
<1>8. ASSUME NEW t \in Tasks, Inner(CallStep(t))
      PROVE  DeadAreReleased'
  BY <1>8, CallStepDead DEF Inner
<1>9. ASSUME NEW t \in Tasks, FirstAcquire(t) \/ SecondAcquire(t)
      PROVE  DeadAreReleased'
  <2>1. /\ tool[t].session \in Sessions /\ tool[t].inst \in Instances
        /\ tool[t].type \in LockType /\ tool[t] # NoTool
    BY <1>9, ToolOrNot DEF FirstAcquire, SecondAcquire
  <2>2. tool[t].session \in active
    BY <2>1 DEF ToolsAreLive
  <2>3. Acquire(tool[t].session, tool[t].inst, tool[t].type, TRUE)
    BY <1>9 DEF FirstAcquire, SecondAcquire, AutoAcquire
  <2> QED BY <2>1, <2>2, <2>3, AcquireDead
<1>10. ASSUME NEW t \in Tasks, NEW l \in snapshot[t], Reclaim(t, l)
       PROVE  DeadAreReleased'
  <2>1. tool[t].inst \in Instances
    BY <1>10, ToolOrNot DEF Reclaim
  <2>2. CASE Release(t, tool[t].inst, {l.session})
    BY <2>1, <2>2, ReleaseDead
  <2> QED BY <1>1, <1>10, <2>2 DEF Reclaim
<1>11. ASSUME NEW t \in Tasks, ToolStep(t)
       PROVE  DeadAreReleased'
  <2>1. CASE LockDone(t) \/ ShouldReclaim(t) \/ Status(t) \/ Reclaimed(t)
             \/ Recheck(t) \/ Act(t)
    BY <1>1, <2>1 DEF LockDone, ShouldReclaim, Status, Reclaimed, Recheck, Act
  <2> QED BY <1>9, <1>10, <1>11, <2>1 DEF ToolStep
<1>12. CASE Inner(ReaperStep)
  BY <1>12, ReaperStepDead DEF Inner
<1>13. ASSUME NEW t \in Tasks, NEW s \in Sessions, NEW i \in Instances,
              NEW type \in LockType, StartTool(t, s, i, type)
       PROVE  DeadAreReleased'
  BY <1>1, <1>13 DEF StartTool
<1>14. CASE UNCHANGED mvars
  BY <1>1, <1>14 DEF mvars
<1> QED BY <1>2, <1>3, <1>4, <1>5, <1>6, <1>7, <1>8, <1>11, <1>12, <1>13, <1>14
           DEF MNext, TaskStep

-----------------------------------------------------------------------------
(* Access                                                                  *)

\* The tool of a task that comes to act has the access it requires.
Entered(t) ==
    step[t] # "act" /\ step'[t] = "act" =>
        CheckAccess(locks'[tool'[t].inst], tool'[t].session, tool'[t].type)

\* A tool call that begins.
LEMMA BeginEnters ==
    ASSUME McpTypeOK, NEW t \in Tasks, NEW s \in Sessions, NEW i \in Instances,
           NEW type \in LockType, NEW next \in Step,
           Begin(t, s, i, type, next),
           next = "act" => CheckAccess(locks'[i], s, type)
    PROVE  \A u \in Tasks : Entered(u)
<1>1. /\ tool' = [tool EXCEPT ![t] = [session |-> s, inst |-> i, type |-> type]]
      /\ step' = [step EXCEPT ![t] = next]
  BY DEF Begin, Goto
<1>2. /\ step'[t] = next /\ tool'[t].session = s /\ tool'[t].inst = i
      /\ tool'[t].type = type
      /\ \A u \in Tasks \ {t} : step'[u] = step[u]
  BY <1>1 DEF McpTypeOK
<1> QED BY <1>2 DEF Entered

\* A tool call that goes on.
LEMMA GotoEnters ==
    ASSUME McpTypeOK, NEW t \in Tasks, NEW next \in Step, Goto(t, next),
           UNCHANGED tool,
           next = "act" =>
               CheckAccess(locks'[tool[t].inst], tool[t].session, tool[t].type)
    PROVE  \A u \in Tasks : Entered(u)
<1>1. step' = [step EXCEPT ![t] = next]
  BY DEF Goto
<1>2. step'[t] = next /\ \A u \in Tasks \ {t} : step'[u] = step[u]
  BY <1>1 DEF McpTypeOK
<1> QED BY <1>2 DEF Entered

\* auto_acquire succeeded, the first time or the second.
LEMMA AutoAcquireEnters ==
    ASSUME McpTypeOK, TableOK, NEW t \in Tasks, NEW failed \in Step \ {"act"},
           step[t] # "none", AutoAcquire(t, failed)
    PROVE  \A u \in Tasks : Entered(u)
<1> DEFINE c == tool[t]
           st == locks[c.inst]
<1>1. c.session \in Sessions /\ c.inst \in Instances /\ c.type \in LockType
  BY ToolOrNot
<1>2. EntryOK(st)
  BY <1>1 DEF TableOK
<1>3. locks' = [locks EXCEPT ![c.inst] =
          IF Acquirable(st, c.session, c.type)
          THEN Acquired(st, c.session, c.type, TRUE) ELSE st]
  BY DEF AutoAcquire, Acquire, SetEntry
<1>4. Goto(t, IF Acquirable(st, c.session, c.type) THEN "act" ELSE failed)
      /\ UNCHANGED tool
  BY DEF AutoAcquire
<1>5. CASE Acquirable(st, c.session, c.type)
  <2>1. locks'[c.inst] = Acquired(st, c.session, c.type, TRUE)
    BY <1>1, <1>3, <1>5 DEF TableOK
  <2>2. CheckAccess(locks'[c.inst], c.session, c.type)
    BY <1>1, <1>2, <1>5, <2>1, AcquiredAccess
  <2>3. Goto(t, "act") /\ "act" \in Step
    BY <1>4, <1>5 DEF Step
  <2> QED BY <1>4, <2>2, <2>3, GotoEnters
<1>6. CASE ~Acquirable(st, c.session, c.type)
  <2>1. Goto(t, failed)
    BY <1>4, <1>6
  <2> QED BY <1>4, <2>1, GotoEnters
<1> QED BY <1>5, <1>6

\* Every step lets a tool through with its access only.
LEMMA EntersStep ==
    McpTypeOK /\ TableOK /\ [MNext]_mvars => \A u \in Tasks : Entered(u)
<1> SUFFICES ASSUME McpTypeOK, TableOK, [MNext]_mvars
             PROVE  \A u \in Tasks : Entered(u)
  OBVIOUS
<1>1. ASSUME UNCHANGED step
      PROVE  \A u \in Tasks : Entered(u)
  BY <1>1 DEF Entered
<1>2. ASSUME NEW t \in Tasks, NEW s \in Sessions, NEW i \in Instances,
             NEW type \in LockType,
             LockNow(t, s, i, type) \/ LockWait(t, s, i, type)
      PROVE  \A u \in Tasks : Entered(u)
  BY <1>2, BeginEnters DEF LockNow, LockWait, Step
<1>3. ASSUME NEW t \in Tasks, NEW s \in Sessions, NEW i \in Instances,
             NEW type \in LockType, StartTool(t, s, i, type)
      PROVE  \A u \in Tasks : Entered(u)
  <2>1. locks' = locks
    BY <1>3 DEF StartTool, vars
  <2>2. PICK next \in Step : /\ Begin(t, s, i, type, next)
                             /\ next = "act" => CheckAccess(locks[i], s, type)
    <3>1. CASE CheckAccess(locks[i], s, type)
      BY <1>3, <3>1 DEF StartTool, Step
    <3>2. CASE ~CheckAccess(locks[i], s, type)
      BY <1>3, <3>2 DEF StartTool, Step
    <3> QED BY <3>1, <3>2
  <2> QED BY <2>1, <2>2, BeginEnters
<1>4. ASSUME NEW t \in Tasks, NEW s \in Sessions, NEW i \in Instances,
             NEW S \in Matches, Unlock(t, s, i, S)
      PROVE  \A u \in Tasks : Entered(u)
  BY <1>4, BeginEnters DEF Unlock, Step, LockType
<1>5. ASSUME NEW t \in Tasks, ToolStep(t)
      PROVE  \A u \in Tasks : Entered(u)
  <2>1. CASE LockDone(t) \/ Act(t)
    BY <2>1 DEF LockDone, Act, Finish, Goto, Entered, McpTypeOK
  <2>2. CASE FirstAcquire(t)
    BY <2>2, AutoAcquireEnters DEF FirstAcquire, Step
  <2>3. CASE SecondAcquire(t)
    BY <2>3, AutoAcquireEnters DEF SecondAcquire, Step
  <2>4. CASE ShouldReclaim(t) \/ Status(t) \/ Reclaimed(t)
    <3>1. step' \in {[step EXCEPT ![t] = x] : x \in Step \ {"act"}}
      BY <2>4 DEF ShouldReclaim, Status, Reclaimed, Goto, Step
    <3> QED BY <3>1 DEF Entered, McpTypeOK
  <2>5. ASSUME NEW l \in snapshot[t], Reclaim(t, l)
        PROVE  \A u \in Tasks : Entered(u)
    BY <1>1, <2>5 DEF Reclaim
  <2>6. CASE Recheck(t)
    <3>1. locks' = locks
      BY <2>6 DEF Recheck, vars
    <3>2. CASE /\ CheckAccess(locks[tool[t].inst], tool[t].session, tool[t].type)
               /\ Goto(t, "act") /\ UNCHANGED tool
      BY <3>1, <3>2, GotoEnters DEF Step
    <3>3. CASE Finish(t)
      BY <3>3 DEF Finish, Goto, Entered, McpTypeOK
    <3> QED BY <2>6, <3>2, <3>3 DEF Recheck
  <2> QED BY <1>5, <2>1, <2>2, <2>3, <2>4, <2>5, <2>6 DEF ToolStep
<1>6. ASSUME NEW t \in Tasks, Inner(CallStep(t))
      PROVE  \A u \in Tasks : Entered(u)
  BY <1>1, <1>6 DEF Inner
<1> QED BY <1>1, <1>2, <1>3, <1>4, <1>5, <1>6
           DEF MNext, TaskStep, NewSession, RenewLock, Inner, DropSession, mvars

-----------------------------------------------------------------------------
(* The theorems                                                            *)

\* The invariants at first.
LEMMA McpInit == MInit => IInv /\ McpInv
<1> SUFFICES ASSUME MInit PROVE IInv /\ McpInv
  OBVIOUS
<1>1. IInv
  BY InitIInv DEF MInit
<1>2. McpTypeOK
  BY DEF MInit, McpTypeOK, Step
<1>3. WaitsAreTools /\ ToolsAreLive
  BY DEF MInit, Init, WaitsAreTools, InQueue, ToolsAreLive
<1>4. DeadAreReleased
  BY DEF MInit, Init, DeadAreReleased, EmptyState, IsHeldBy, HoldsExclusive,
         HoldsObserver
<1> QED BY <1>1, <1>2, <1>3, <1>4 DEF McpInv

\* Every step of the server keeps the invariants.
LEMMA McpNext == IInv /\ McpInv /\ [MNext]_mvars => IInv' /\ McpInv'
<1> SUFFICES ASSUME IInv, McpInv, [MNext]_mvars
             PROVE  IInv' /\ McpInv'
  OBVIOUS
<1>1. TableOK /\ CallsOK /\ McpTypeOK
  BY IInvParts DEF McpInv
<1>2. IInv'
  BY <1>1, MNextCalls, NextIInv
<1>3. McpTypeOK' /\ WaitsAreTools' /\ ToolsAreLive' /\ DeadAreReleased'
  BY <1>1, McpTypeStep, WaitsStep, LiveStep, DeadStep DEF McpInv
<1> QED BY <1>2, <1>3 DEF McpInv

\* Invariants of the MCP server over the lock manager, whatever its sessions do.
THEOREM McpInvariance == MSpec => [](IInv /\ McpInv)
  BY McpInit, McpNext, PTL DEF MSpec

\* The server uses the lock manager by its calls only, so that each of the
\* manager's properties is one of the server.
THEOREM ServerUsesManager == MSpec => Spec
<1>1. MInit => Init
  BY DEF MInit
<1>2. McpInv /\ [MNext]_mvars => [Next]_vars
  BY MNextCalls DEF McpInv
<1> QED BY <1>1, <1>2, McpInvariance, PTL DEF MSpec, Spec

\* A task has a tool call exactly while it is at a step of one.
THEOREM McpTypeCorrect == MSpec => []McpTypeOK
  BY McpInvariance, PTL DEF McpInv

\* SessionGuard: once a session was unregistered, no lock of any instance is
\* its, and no queue would hand it one.
THEOREM DeadHoldNothing == MSpec => []DeadSessionsHoldNothing
<1>1. IInv /\ McpInv => DeadSessionsHoldNothing
  <2> SUFFICES ASSUME TableOK, CallsOK, McpInv, NEW s \in Sessions \ active,
                      NEW i \in Instances
               PROVE  /\ IsHeldBy(locks[i], s) => Unregistering(s)
                      /\ \A w \in locks[i].queue : w.session # s
    BY IInvParts DEF DeadSessionsHoldNothing
  <2>1. IsHeldBy(locks[i], s) => Unregistering(s)
    BY DEF McpInv, DeadAreReleased, StillToRelease, Unregistering
  <2>2. ASSUME NEW w \in locks[i].queue
        PROVE  w.session # s
    <3>1. /\ w.task \in Tasks /\ pc[w.task] \in InQueue
          /\ req[w.task] = [session |-> w.session, inst |-> i, type |-> w.type]
      BY DEF TableOK, EntryOK, LockState, WaitEntry, QueueOK, InQueue
    <3>2. step[w.task] = "lock" /\ tool[w.task].session = w.session
      BY <3>1 DEF McpInv, WaitsAreTools
    <3>3. tool[w.task] # NoTool
      BY <3>1, <3>2 DEF McpInv, McpTypeOK
    <3> QED BY <3>1, <3>2, <3>3 DEF McpInv, ToolsAreLive
  <2> QED BY <2>1, <2>2
<1> QED BY <1>1, McpInvariance, PTL

\* require_lock: whichever attempt let a tool through, its session had the
\* access it requires then, with any number of sessions racing for it.
THEOREM ToolsAlwaysEnterWithAccess == MSpec => ToolsEnterWithAccess
<1>1. IInv /\ McpInv /\ [MNext]_mvars =>
          [\A t \in Tasks :
               step[t] # "act" /\ step'[t] = "act" =>
                   LET c == tool'[t]
                   IN  CheckAccess(locks'[c.inst], c.session, c.type)]_mvars
  BY EntersStep, IInvParts DEF McpInv, Entered
<1> QED BY <1>1, McpInvariance, PTL DEF MSpec, ToolsEnterWithAccess
=============================================================================
