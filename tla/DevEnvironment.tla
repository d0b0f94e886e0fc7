--------------------------- MODULE DevEnvironment ---------------------------
(***************************************************************************)
(* The development environment of `vscreen --dev` (vscreen/src/dev.rs): an *)
(* Xvfb, a PulseAudio sink and a Chromium that a vscreen process starts on *)
(* one display and stops when it ends, and the PID file by which the next  *)
(* vscreen process recognises what a dead one left behind.  Several vscreen *)
(* processes start, end and die at any time; a child outlives its parent.  *)
(***************************************************************************)
CONSTANTS
    Procs,      \* the vscreen processes, each of which runs once
    NoProc      \* no process

ASSUME DevAssumption == NoProc \notin Procs

VARIABLES
    at,         \* what each process is doing
    xvfb,       \* whose Xvfb has the display
    lock,       \* the Xvfb that the X11 lock file names
    sinks,      \* the processes whose null-sink is loaded
    chromium,   \* whose Chromium has the profile and the CDP port
    pid_file,   \* the process that the PID file names
    wrote,      \* the processes that wrote the PID file
    found       \* the dead process whose PID file each process found

devVars == <<at, xvfb, lock, sinks, chromium, pid_file, wrote, found>>

Ended == {"refused", "down", "crashed"}

is_process_alive(p) == at[p] \notin Ended \cup {"none"}

DevInit ==
    /\ at = [p \in Procs |-> "none"]
    /\ xvfb = NoProc /\ lock = NoProc /\ chromium = NoProc /\ pid_file = NoProc
    /\ sinks = {} /\ wrote = {} /\ found = [p \in Procs |-> NoProc]

Go(p, from, to) == at[p] = from /\ at' = [at EXCEPT ![p] = to]

-----------------------------------------------------------------------------
(* Starting                                                                *)

\* The PID file comes first, so that what a dead process left is swept before
\* the display and the port are looked at.
check_pid_file(p) ==
    /\ \/ pid_file = NoProc /\ Go(p, "none", "display") /\ UNCHANGED found
       \/ pid_file # NoProc /\ is_process_alive(pid_file) /\ Go(p, "none", "refused")
             /\ UNCHANGED found
       \/ pid_file # NoProc /\ ~is_process_alive(pid_file) /\ Go(p, "none", "sweep, display")
             /\ found' = [found EXCEPT ![p] = pid_file]
    /\ UNCHANGED <<xvfb, lock, sinks, chromium, pid_file, wrote>>

\* The lock file names an Xvfb: one that lives takes the display.
check_display_available(p) ==
    /\ \/ lock = NoProc /\ Go(p, "display", "port")
       \/ lock # NoProc /\ lock = xvfb /\ Go(p, "display", "refused")
       \/ lock # NoProc /\ lock # xvfb /\ Go(p, "display", "sweep, port")
    /\ UNCHANGED <<xvfb, lock, sinks, chromium, pid_file, wrote, found>>

check_port_available(p) ==
    /\ Go(p, "port", IF chromium = NoProc THEN "xvfb" ELSE "refused")
    /\ UNCHANGED <<xvfb, lock, sinks, chromium, pid_file, wrote, found>>

JustReturns_Fails(p) ==
    /\ \E from \in {"xvfb", "sink", "chromium"} : Go(p, from, "down")
    /\ UNCHANGED <<xvfb, lock, sinks, chromium, pid_file, wrote, found>>

\* Any part of the start may fail: what has been started is stopped again.
Fails(p) ==
    /\ \E from \in {"xvfb", "sink", "chromium"} : Go(p, from, "stop")
    /\ UNCHANGED <<xvfb, lock, sinks, chromium, pid_file, wrote, found>>

\* An Xvfb that finds the display taken exits, and nobody looks.
start_xvfb(p) ==
    /\ Go(p, "xvfb", "sink")
    /\ IF xvfb = NoProc /\ lock = NoProc THEN xvfb' = p /\ lock' = p ELSE UNCHANGED <<xvfb, lock>>
    /\ UNCHANGED <<sinks, chromium, pid_file, wrote, found>>

\* Without a sink it goes on.
create_pulse_sink(p) ==
    /\ Go(p, "sink", "chromium")
    /\ sinks' \in {sinks, sinks \cup {p}}
    /\ UNCHANGED <<xvfb, lock, chromium, pid_file, wrote, found>>

\* A Chromium that finds its profile taken hands over to the one that has it.
launch_chromium(p) ==
    /\ Go(p, "chromium", "write")
    /\ xvfb # NoProc
    /\ chromium' = IF chromium = NoProc THEN p ELSE chromium
    /\ UNCHANGED <<xvfb, lock, sinks, pid_file, wrote, found>>

\* Last of all; a failure is logged.
write_pid_file(p) ==
    /\ Go(p, "write", "runs")
    /\ \/ pid_file' = p /\ wrote' = wrote \cup {p}
       \/ UNCHANGED <<pid_file, wrote, found>>
    /\ UNCHANGED <<xvfb, lock, sinks, chromium, found>>

-----------------------------------------------------------------------------
(* Stopping                                                                *)

Begin_stop(p) ==
    /\ Go(p, "runs", "stop")
    /\ UNCHANGED <<xvfb, lock, sinks, chromium, pid_file, wrote, found>>

stop_chromium(p) ==
    /\ Go(p, "stop", "stop sink")
    /\ chromium' = IF chromium = p THEN NoProc ELSE chromium
    /\ UNCHANGED <<xvfb, lock, sinks, pid_file, wrote, found>>

unload_sink(p) ==
    /\ Go(p, "stop sink", "stop xvfb")
    /\ sinks' = sinks \ {p}
    /\ UNCHANGED <<xvfb, lock, chromium, pid_file, wrote, found>>

\* An Xvfb that ends by itself removes its lock file, one that is killed does not.
stop_xvfb(p) ==
    /\ Go(p, "stop xvfb", "stop pid")
    /\ IF xvfb = p THEN xvfb' = NoProc /\ lock' \in {lock, NoProc} ELSE UNCHANGED <<xvfb, lock>>
    /\ UNCHANGED <<sinks, chromium, pid_file, wrote, found>>

\* The file that p wrote, whoever has written it since.
remove_pid_file(p) ==
    /\ Go(p, "stop pid", "sweep, down")
    /\ pid_file' = IF p \in wrote THEN NoProc ELSE pid_file
    /\ UNCHANGED <<xvfb, lock, sinks, chromium, wrote, found>>

\* A sweep follows a stale PID file, a stale lock file, and a stop.
Killing(p) ==
    \/ Go(p, "sweep, display", "unlock, display")
    \/ Go(p, "sweep, port", "unlock, port")
    \/ Go(p, "sweep, down", "unlock, down")

OnlyXvfb_Sweep(p) ==
    /\ Killing(p)
    /\ xvfb' = NoProc /\ sinks' = {}
    /\ UNCHANGED <<lock, chromium, pid_file, wrote, found>>

\* cleanup_stale_processes_for_display kills what runs on the display, whosever
\* it is, and a little later removes the lock file.
Sweep(p) ==
    /\ Killing(p)
    /\ xvfb' = NoProc /\ chromium' = NoProc /\ sinks' = {}
    /\ UNCHANGED <<lock, pid_file, wrote, found>>

\* After check_pid_file the stale PID file goes too.
Unlock(p) ==
    /\ \/ Go(p, "unlock, display", "display")
       \/ Go(p, "unlock, port", "port")
       \/ Go(p, "unlock, down", "down")
    /\ lock' = NoProc
    /\ pid_file' = IF at[p] = "unlock, display" THEN NoProc ELSE pid_file
    /\ UNCHANGED <<xvfb, sinks, chromium, wrote, found>>

Crash(p) ==
    /\ is_process_alive(p)
    /\ at' = [at EXCEPT ![p] = "crashed"]
    /\ UNCHANGED <<xvfb, lock, sinks, chromium, pid_file, wrote, found>>

-----------------------------------------------------------------------------
start(p) ==
    \/ check_pid_file(p) \/ check_display_available(p) \/ check_port_available(p)
    \/ start_xvfb(p) \/ create_pulse_sink(p) \/ launch_chromium(p) \/ write_pid_file(p)
    \/ Fails(p)

stop(p) ==
    \/ Begin_stop(p) \/ stop_chromium(p) \/ unload_sink(p) \/ stop_xvfb(p)
    \/ remove_pid_file(p)

DevNext == \E p \in Procs : start(p) \/ stop(p) \/ Sweep(p) \/ Unlock(p) \/ Crash(p)

DevSpec == DevInit /\ [][DevNext]_devVars

-----------------------------------------------------------------------------
(* Properties                                                              *)

Refused(p) == at[p] # "refused" /\ at'[p] = "refused"

\* What is left on the display belongs to a process that runs or that crashed:
\* a start that fails half-way and a stop leave nothing, whatever other
\* processes start, sweep and stop meanwhile (DevEnvironment::stop, Drop).
NothingLeftBehind ==
    \A p \in {xvfb, lock, chromium, pid_file} \cup sinks :
        p = NoProc \/ is_process_alive(p) \/ at[p] = "crashed"

\* A start that found the PID file of a dead process is not refused because of
\* what that process left: only another one that has come since can be in its way.
RecordedIsSwept ==
    [][\A p \in Procs : Refused(p) /\ found[p] # NoProc =>
          \E q \in Procs \ {p, found[p]} : is_process_alive(q) \/ at[q] = "crashed"]_devVars

\* "if the previous vscreen is dead but its children (Xvfb, Chromium) are still
\* alive, this cleans them up before the display/port checks run": a start is
\* refused only because of a process that runs.
DeadIsCleanedUp ==
    [][\A p \in Procs : Refused(p) => \E q \in Procs \ {p} : is_process_alive(q)]_devVars
=============================================================================
