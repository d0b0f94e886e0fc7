-------------------------- MODULE InteractionTools --------------------------
(***************************************************************************)
(* The tools of mcp/interaction.rs as scripts: what each sends to the      *)
(* browser, in which order, which errors end it and where it returns       *)
(* early.  All of them but vscreen_scroll_to_element require the           *)
(* exclusive lock (Tools: Menu).                                           *)
(***************************************************************************)
EXTENDS Scripts

-----------------------------------------------------------------------------
(* vscreen_click                                                           *)

\* The agent gives a point of the page.
ClickSingle == ClickAt ** Record

ClickDouble ==
    Aim ** Press ** Release ** Press ** Release ** Record

\* The script that finds the element scrolls it into view; it is retried while
\* it finds nothing.
ClickElement ==
    OneTo(MaxLoops, Script) ** Maybe(ClickAt ** Record)

\* The URL is polled with its errors ignored, then the link is followed by
\* script, if the caller asked for it; the page information ends the call.
ClickNavigate ==
    Ask ** Script ** Maybe(ClickAt ** Maybe(Try(Script)) ** Ask ** Record)

ClickBatch == OneTo(MaxLoops, ClickAt) ** Record

vscreen_click ==
    ClickSingle \cup ClickDouble \cup ClickElement \cup ClickNavigate \cup ClickBatch

-----------------------------------------------------------------------------
(* Keyboard, wheel and pointer                                             *)

vscreen_type == InsertText ** Record

vscreen_key_press == KeyDown("key1") ** KeyUp("key1") ** Record

\* Down in order, up in reverse.
vscreen_key_combo ==
    (   vscreen_key_press
     \cup (KeyDown("key1") ** KeyDown("key2") ** KeyUp("key2") ** KeyUp("key1")
            ** Record))

\* The descriptions of vscreen_scroll, vscreen_drag and vscreen_hover take
\* points of the page as well as points of a picture of the viewport.
AimAtEither == Aim \cup (Glance ** AimAtGlance)

vscreen_scroll == AimAtEither ** Wheel ** Record

\* The button goes down at the start, and up at the end.
vscreen_drag ==
    AimAtEither ** Point ** Press ** Carry ** OneTo(MaxLoops, Point)
        ** Release ** Record

vscreen_hover == AimAtEither ** Point ** Record

-----------------------------------------------------------------------------
(* Forms and elements                                                      *)

\* Focus and clear, insert, then the events, whose errors are ignored.
vscreen_fill == Script ** Maybe(InsertText ** Try(Script) ** Record)

vscreen_select_option == Script ** Maybe(Record)

vscreen_scroll_to_element == Script

-----------------------------------------------------------------------------
(* Dialogs and advertisements: selectors first, the vision model second    *)

vscreen_dismiss_dialogs ==
    Ask ** Maybe((ClickAt \cup ClickSeen) ** Record)

\* Polled until the deadline; the vision model is asked if an ad is playing.
vscreen_dismiss_ads ==
    OneTo(MaxLoops, Ask) ** Maybe((ClickAt \cup ClickSeen) ** Record)

-----------------------------------------------------------------------------
(* vscreen_solve_captcha                                                   *)

\* The label next to the box is found by text, the box left of it clicked.
CaptchaCheckbox == ClickAt

\* A header or a picture the round can do nothing with: skip.
CaptchaSkip == ClickAt

\* The tiles that match, then the ones whose replacement matches (TileWatcher:
\* Solver), then VERIFY.
CaptchaDynamic == OneTo(MaxLoops, ClickAt) ** UpTo(MaxLoops, ClickAt) ** ClickAt

\* All tiles that match and VERIFY; VERIFY alone if none does.
CaptchaStatic == UpTo(MaxLoops, ClickAt) ** ClickAt

\* The picture of the challenge; one that is too small has no clicks.
CaptchaRound ==
    Ask ** Maybe(CaptchaSkip \cup CaptchaDynamic \cup CaptchaStatic)

\* A page without the box costs an attempt, and so does an expired challenge.
CaptchaAttempt ==
    Ask ** Maybe(CaptchaCheckbox ** UpTo(MaxLoops, CaptchaRound)) ** Again

\* Every attempt but the first reloads the page first.
NextAttempt == Navigate ** CaptchaAttempt

vscreen_solve_captcha == CaptchaAttempt
=============================================================================
