------------------------------- MODULE Scripts -------------------------------
(***************************************************************************)
(* The language in which the tools and the HTTP handlers are written down. *)
(* A tool drives the browser through InstanceSupervisor, one command at a  *)
(* time; between two commands every other caller may run.  What a tool may *)
(* do is a set of scripts, and a script is the sequence of its steps, one  *)
(* for every command that can fail or has an effect the properties see:    *)
(*   op    what the command does (Browser: Effect);                        *)
(*   thing what an `on` switches on and an `off` switches off;             *)
(*   sent  TRUE for a command that is sent without waiting for its answer  *)
(*         (send_cdp_command, dispatch_api_input, navigate), FALSE for one *)
(*         that is answered (send_command_and_wait, evaluate_js);          *)
(*   must  TRUE when an error ends the call (`?`), FALSE when it is        *)
(*         ignored;                                                        *)
(*   keeps TRUE when the lock on the CDP client is kept for the next step. *)
(* The answers decide which of its scripts a tool follows, so a script is  *)
(* chosen at random.  Reads whose errors are ignored have no step.         *)
(***************************************************************************)
EXTENDS Naturals, Sequences

CONSTANT MaxLoops  \* how often a polling, retry or batch loop is unrolled

ASSUME MaxLoopsAssumption == MaxLoops \in Nat \ {0}

Step(op, thing, sent) ==
    {<<[op |-> op, thing |-> thing, sent |-> sent, must |-> TRUE, keeps |-> FALSE]>>}

Skip == {<<>>}

A ** B == {a \o b : a \in A, b \in B}

Maybe(A) == Skip \cup A

\* At most n times, and from one to n times.
UpTo(n, A) ==
    LET loop[i \in 0 .. n] == IF i = 0 THEN Skip ELSE Maybe(A ** loop[i - 1])
    IN  loop[n]

OneTo(n, A) == A ** UpTo(n - 1, A)

\* `let _ = ...`: errors are ignored.
Try(A) == {[i \in DOMAIN a |-> [a[i] EXCEPT !.must = FALSE]] : a \in A}

\* The steps run under one lock of the CDP client.
Locked(A) == {[i \in DOMAIN a |-> [a[i] EXCEPT !.keeps = TRUE]] : a \in A}

-----------------------------------------------------------------------------
(* The commands of InstanceSupervisor                                      *)

\* A question whose error ends the call: evaluate_js, get_page_info,
\* get_frame_tree, capture_screenshot...
Ask == Step("ask", "", FALSE)

\* The call ends with an error that was kept for later.
Raise == Step("raise", "", FALSE)

\* The call ends here, or makes another attempt.
Again == Step("again", "", FALSE)

\* JavaScript that may scroll: scrollIntoView, focus(), click(), a form's events.
Script == Step("script", "", FALSE)

\* scroll_into_view_and_translate, for a point of the page, and for a point
\* that was read off a picture of the viewport.
Aim == Step("aim", "", FALSE)
Glance == Step("glance", "", FALSE)
AimAtGlance == Step("aimGlance", "", FALSE)

\* The end of a drag, computed relative to its start.
Carry == Step("carry", "", FALSE)

\* Input.dispatchMouseEvent at the point aimed at.
Point == Step("point", "", TRUE)
Press == Step("on", "button", TRUE)
Release == Step("off", "button", TRUE)
Wheel == Step("wheel", "", TRUE)

KeyDown(key) == Step("on", key, TRUE)
KeyUp(key) == Step("off", key, TRUE)
InsertText == Step("ask", "", TRUE)

\* navigate, and Page.navigate: the answer is not awaited; the browser commits
\* the navigation when it will (Tools: Commit).
Navigate == Step("ask", "", TRUE)

MouseClick == Point ** Press ** Release

\* The page point of an element, of the agent, or one that the vision model
\* read off capture_vision_screenshot.
ClickAt == Aim ** MouseClick
ClickSeen == Glance ** AimAtGlance ** MouseClick

ForgetsClear_FullPage ==
    Locked(Ask ** Try(Step("top", "", FALSE)) ** Step("on", "metrics", FALSE)) ** Ask

\* CdpClient::capture_full_page_screenshot, under one lock of the client: the
\* page is scrolled to its top; the override is cleared whether or not the
\* picture was taken.
FullPage ==
    Locked(Ask ** Try(Step("top", "", FALSE)) ** Step("on", "metrics", FALSE))
        ** Locked(Try(Ask)) ** Try(Step("off", "metrics", FALSE)) ** Maybe(Raise)

\* capture_screenshot_sequence.
ScreenshotSequence == OneTo(MaxLoops, Ask)

\* create_ephemeral_tab: the target is created, then its own client connects.
CreateTab == Step("on", "tab", FALSE) ** Ask

CloseTab == Try(Step("off", "tab", FALSE))

\* record_action: what it reads of the browser fails for nobody, and what it
\* writes is the session memory (SessionMemory).
Record == Skip
=============================================================================
