-------------------------------- MODULE Tools --------------------------------
(***************************************************************************)
(* Callers that drive one browser at the same time: MCP tools under the    *)
(* leases that InstanceLockManager grants (RwLease; LockManager implements *)
(* it), and HTTP clients under none.  A caller plays one of the scripts of *)
(* its tool, a step at a time, through the InstanceSupervisor, whose       *)
(* commands share the lock on the CDP client (supervisor.rs).              *)
(*                                                                         *)
(* The page is one column of points: what the viewport shows starts at     *)
(* `view`, and input goes to points of the viewport.                       *)
(***************************************************************************)
EXTENDS InteractionTools, ObservationTools, NavigationTools, HttpHandlers, Integers

CONSTANTS
    Sessions,   \* the MCP sessions
    Tasks,      \* calls that may run at the same time
    Nobody,     \* no session, no task
    Inner,      \* window.innerHeight
    Margin,     \* what scroll_into_view_and_translate keeps from the edge
    MaxView,    \* how far the page scrolls
    Targets     \* the points of the page that tools aim at

ASSUME ToolsAssumption ==
    /\ Inner \in Nat \ {0} /\ Margin \in Nat /\ MaxView \in Nat
    /\ Targets \subseteq 0 .. MaxView + Inner
    /\ Nobody \notin Sessions \cup Tasks

VARIABLES
    call,       \* the call that each task runs
    client,     \* the task that keeps the lock on the CDP client
    view,       \* window.scrollY
    on          \* what is switched on in the browser (buttons, keys, ...), but
                \* for what a lost command or a call cut short left on

vars == <<call, client, view, on>>

-----------------------------------------------------------------------------
(* What may run                                                            *)

\* Tool calls that require the exclusive lock and cannot be dropped.
ExclusiveTools ==
    UNION {vscreen_click, vscreen_type, vscreen_key_press, vscreen_key_combo,
           vscreen_scroll, vscreen_drag, vscreen_hover, vscreen_fill,
           vscreen_select_option, vscreen_dismiss_dialogs, vscreen_dismiss_ads,
           vscreen_execute_js, vscreen_storage_set, vscreen_navigate,
           vscreen_browse, vscreen_interact, vscreen_synthesize,
           vscreen_solve_challenge, vscreen_synthesis_manage,
           vscreen_synthesis_scrape, vscreen_synthesis_scrape_and_create}

ObserverTools ==
    UNION {vscreen_scroll_to_element, vscreen_screenshot, vscreen_find,
           vscreen_extract_text, vscreen_accessibility_tree,
           vscreen_describe_elements, vscreen_get_page_info, vscreen_list_frames,
           vscreen_storage_get, vscreen_observe, vscreen_extract, vscreen_wait}

Requests ==
    UNION {input_dispatch, input_click, input_type, input_key, input_scroll,
           input_drag, input_hover, navigate_instance, go_back, go_forward, reload,
           screenshot, screenshot_sequence, page_info, exec_js, find_elements,
           extract_text}

\* The scripts, the lock they require, and whether their future may be dropped
\* (vscreen_solve_captcha has a time-out of its own).
Menu(lock, drops) ==
    CASE lock = "exclusive" /\ ~drops -> ExclusiveTools
      [] lock = "exclusive" /\ drops -> vscreen_solve_captcha
      [] lock = "observer" /\ ~drops -> ObserverTools
      [] lock = "none" /\ drops -> Requests
      [] OTHER -> {}

-----------------------------------------------------------------------------
(* The state of a call                                                     *)

\* A tool that aims has a point of the page in mind, and computes the point of
\* the viewport its input goes to; `sound` until something that the locks do
\* not exclude moves the page.
NoAim == [goal |-> 0, at |-> 0, frame |-> "none", sound |-> FALSE]

\* `lock` is the lease the call was let in with, until that lease ends.
NoCall == [session |-> Nobody, lock |-> "none", drops |-> FALSE,
           rest |-> <<>>, aim |-> NoAim]

Pointer(s) == s.op \in {"point", "wheel"} \/ s.thing = "button"

Aims(s) == s.op \in {"aim", "glance"}

\* The aim is used before it is taken anew.
AimUsed(rest) ==
    \E i \in DOMAIN rest :
        (Pointer(rest[i]) \/ rest[i].op \in {"aimGlance", "carry"}) /\ \A j \in 1 .. i - 1 : ~Aims(rest[j])

Owes(c, thing) ==
    \E i \in DOMAIN c.rest : c.rest[i].op = "off" /\ c.rest[i].thing = thing

Owed(c) == {thing \in on : Owes(c, thing)}

\* A change of the page made by c that c's and d's locks do not keep from d.
Excused(c, d) == c.lock = "none" \/ d.lock = "none" \/ c.session = d.session

Init ==
    /\ call = [t \in Tasks |-> NoCall]
    /\ client = Nobody
    /\ view = 0
    /\ on = {}

-----------------------------------------------------------------------------
(* Leases                                                                  *)

Holders(lock) == {call[t].session : t \in {u \in Tasks : call[u].lock = lock}}

Unlocked_Admitted(s, lock) == TRUE

\* require_lock lets the call in: the lease it needs is compatible with those
\* in force.  A lease that no call is using keeps others out and does nothing
\* else, so only the leases of the calls in progress are kept.
Admitted(s, lock) ==
    CASE lock = "exclusive" -> Holders("exclusive") \cup Holders("observer") \subseteq {s}
      [] lock = "observer" -> Holders("exclusive") \subseteq {s}
      [] lock = "none" -> TRUE

\* A lease expires, is released or reclaimed, whatever its session is doing.
LeaseEnds(s) ==
    /\ \E t \in Tasks : call[t].session = s /\ call[t].lock # "none"
    /\ call' = [t \in Tasks |-> IF call[t].session = s THEN [call[t] EXCEPT !.lock = "none"]
                                                       ELSE call[t]]
    /\ UNCHANGED <<client, view, on>>

-----------------------------------------------------------------------------
(* Steps of a call                                                         *)

Begin(t, s, lock, drops) ==
    /\ call[t] = NoCall
    /\ s = Nobody <=> lock = "none"
    /\ Admitted(s, lock)
    /\ \E script \in Menu(lock, drops) \ Skip :
           call' = [call EXCEPT ![t] = [session |-> s, lock |-> lock, drops |-> drops,
                                        rest |-> script, aim |-> NoAim]]
    /\ UNCHANGED <<client, view, on>>

\* A command that is sent may be lost with its connection; the error of one
\* that is answered does not say whether it was executed.
Outcome(s, executed, ok) ==
    CASE s.op = "raise" -> ~executed /\ ~ok
      [] s.op \in {"carry", "glance", "again"} -> executed /\ ok
      [] OTHER -> IF s.sent THEN executed => ok ELSE ok => executed

\* scroll_into_view_and_translate: a point well inside the viewport stays where
\* it is, any other is scrolled to its middle, as far as the page scrolls.
Translated(p) ==
    LET target == IF p - Inner \div 2 < 0 THEN 0 ELSE p - Inner \div 2
    IN  IF view + Margin <= p /\ p <= view + Inner - Margin THEN view
        ELSE IF target > MaxView THEN MaxView ELSE target

\* What an executed command may make of the page, and of the aim of its call.
Results(s, aim) ==
    CASE s.op = "aim" ->
             {[view |-> Translated(p),
               aim |-> [goal |-> p, at |-> p - Translated(p), frame |-> "page", sound |-> TRUE]]
                  : p \in Targets}
      [] s.op = "glance" ->
             {[view |-> view,
               aim |-> [goal |-> view + p, at |-> p, frame |-> "viewport", sound |-> TRUE]]
                  : p \in {Inner}}
      [] s.op = "aimGlance" ->
             {[view |-> Translated(aim.at),
               aim |-> [aim EXCEPT !.at = @ - Translated(aim.at), !.frame = "picture"]]}
      [] s.op = "carry" ->
             {[view |-> view, aim |-> [aim EXCEPT !.goal = p, !.at = p - (aim.goal - aim.at)]]
                  : p \in Targets}
      [] s.op \in {"script", "wheel"} ->
             {[view |-> v, aim |-> aim] : v \in {0, view, MaxView}}
      [] s.op = "top" -> {[view |-> 0, aim |-> aim]}
      [] OTHER -> {[view |-> view, aim |-> aim]}

Advanced(c, rest, aim) ==
    IF rest = <<>> THEN NoCall
    ELSE [c EXCEPT !.rest = rest, !.aim = IF AimUsed(rest) THEN aim ELSE NoAim]

\* The aims of the other calls, when c has moved the page.
Moved(c, d) == [d EXCEPT !.aim.sound = @ /\ (view' = view \/ ~Excused(c, d))]

Play(t) ==
    LET c == call[t]
        s == Head(c.rest)
    IN  /\ c # NoCall
        /\ client \in {Nobody, t}
        /\ \E executed, ok \in BOOLEAN :
              LET cut == ~ok /\ s.must
              IN  /\ Outcome(s, executed, ok)
                  /\ \E r \in (IF executed THEN Results(s, c.aim)
                                          ELSE {[view |-> view, aim |-> c.aim]}),
                        rest \in (CASE cut -> Skip
                                    [] s.op = "again" -> Skip \cup NextAttempt
                                    [] OTHER -> {Tail(c.rest)}) :
                        /\ view' = r.view
                        /\ call' = [u \in Tasks |-> IF u = t THEN Advanced(c, rest, r.aim)
                                                            ELSE Moved(c, call[u])]
                        /\ client' = IF s.keeps /\ rest # <<>> THEN t ELSE Nobody
                  /\ on' = IF cut THEN on \ Owed(c)
                           ELSE IF s.op = "on" /\ executed THEN on \cup {s.thing}
                           ELSE IF s.op \in {"off", "hold"} THEN on \ {s.thing}
                           ELSE on

KeepsClient_Drop(t) ==
    /\ call[t].drops
    /\ call' = [call EXCEPT ![t] = NoCall]
    /\ on' = on \ Owed(call[t])
    /\ UNCHANGED <<client, view>>

\* The future of the call is dropped between two steps, or during one.
Drop(t) ==
    /\ call[t].drops
    /\ call' = [call EXCEPT ![t] = NoCall]
    /\ on' = on \ Owed(call[t])
    /\ client' = IF client = t THEN Nobody ELSE client
    /\ UNCHANGED view

\* The browser shows another document, at its top: a tool, a link or the page
\* itself asked for it.
Commit ==
    /\ view' = 0
    /\ on' = on \ {"overlay"}
    /\ call' = [t \in Tasks |-> [call[t] EXCEPT !.aim.sound = FALSE]]
    /\ UNCHANGED client

Next ==
    \/ \E t \in Tasks, s \in Sessions \cup {Nobody}, drops \in BOOLEAN,
           lock \in {"exclusive", "observer", "none"} : Begin(t, s, lock, drops)
    \/ \E t \in Tasks : Play(t) \/ Drop(t)
    \/ \E s \in Sessions : LeaseEnds(s)
    \/ Commit

Spec == Init /\ [][Next]_vars

-----------------------------------------------------------------------------
(* Properties                                                              *)

Things == {"button", "key1", "key2", "metrics", "overlay", "tab"}

\* Every variable keeps its type, and who keeps the lock on the client runs.
ToolsTypeOK ==
    /\ \A t \in Tasks :
          /\ call[t].session \in Sessions \cup {Nobody}
          /\ call[t] = NoCall <=> call[t].rest = <<>>
          /\ call[t].aim.at \in Int
    /\ client \in Tasks \cup {Nobody}
    /\ client # Nobody => call[client] # NoCall
    /\ view \in 0 .. MaxView
    /\ on \subseteq Things

\* A button, a key, an overlay, a tab or the override of the device metrics
\* that a tool switched on is switched off by a later step of a call in
\* progress, unless a command was lost or a call cut short.
NothingLeftOn ==
    \A thing \in on : \E t \in Tasks : Owes(call[t], thing)

Aimed(t) == call[t].rest # <<>> /\ Pointer(Head(call[t].rest)) /\ call[t].aim.sound

\* While a tool has its lock, its input goes to the point of the page it aimed
\* at: no other session's tool moves the page in between, and a tool that
\* moves it aims again.
AimedInputLands ==
    \A t \in Tasks :
        Aimed(t) /\ call[t].aim.frame = "page" => view + call[t].aim.at = call[t].aim.goal

\* vscreen_scroll, vscreen_drag, vscreen_hover: "Coordinates can be from either
\* a viewport or full-page screenshot"; what was read off a picture of the
\* viewport is where it was.
SeenPointsAreHit ==
    \A t \in Tasks :
        Aimed(t) /\ call[t].aim.frame = "picture" => view + call[t].aim.at = call[t].aim.goal
=============================================================================
