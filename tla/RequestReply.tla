---------------------------- MODULE RequestReply ----------------------------
(***************************************************************************)
(* What a CdpClient promises its callers, whatever its sockets, channels   *)
(* and time-outs do: a command is executed at most once, it is answered    *)
(* only after the browser executed that very command, and its caller gets  *)
(* one result.  A failure is inconclusive: the command may have been       *)
(* executed, and may still be.                                             *)
(***************************************************************************)
EXTENDS Naturals

CONSTANT Calls

VARIABLES
    result,     \* what the caller of each command has been told
    executed    \* how many times the browser executed each command

vars == <<result, executed>>

Init ==
    /\ result = [r \in Calls |-> "none"]
    /\ executed = [r \in Calls |-> 0]

Ask(r) ==
    /\ result[r] = "none"
    /\ result' = [result EXCEPT ![r] = "awaited"]
    /\ UNCHANGED executed

Execute(r) ==
    /\ result[r] \in {"awaited", "failed"} /\ executed[r] = 0
    /\ executed' = [executed EXCEPT ![r] = 1]
    /\ UNCHANGED result

Answer(r) ==
    /\ result[r] = "awaited" /\ executed[r] = 1
    /\ result' = [result EXCEPT ![r] = "answered"]
    /\ UNCHANGED executed

\* A lost connection ends every call in progress at once.
Fail(S) ==
    /\ \A r \in S : result[r] = "awaited"
    /\ result' = [r \in Calls |-> IF r \in S THEN "failed" ELSE result[r]]
    /\ UNCHANGED executed

Next ==
    \/ \E r \in Calls : Ask(r) \/ Execute(r) \/ Answer(r)
    \/ \E S \in SUBSET Calls : Fail(S)

Spec == Init /\ [][Next]_vars
=============================================================================
