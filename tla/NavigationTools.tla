-------------------------- MODULE NavigationTools --------------------------
(***************************************************************************)
(* The tools that go somewhere, wait, or act on what they find:            *)
(* mcp/navigation.rs, mcp/workflow.rs, mcp/workflow_interact.rs and        *)
(* mcp/synthesis.rs, as scripts.  The synthesis server is asked over HTTP; *)
(* what it answers decides where a script ends.                            *)
(***************************************************************************)
EXTENDS Scripts

-----------------------------------------------------------------------------
(* vscreen_navigate, vscreen_wait                                          *)

\* document.readyState is polled with its errors ignored.
nav_helper_goto == Navigate ** Record

\* history.back() and history.forward() are scripts.
nav_helper_history == Ask

nav_helper_reload == Navigate

vscreen_navigate == nav_helper_goto \cup nav_helper_history \cup nav_helper_reload

wait_helper_idle == OneTo(MaxLoops, Ask)
wait_helper_text == OneTo(MaxLoops, Ask)
wait_helper_selector == OneTo(MaxLoops, Ask)
wait_helper_url == OneTo(MaxLoops, Ask)

\* fetch and XMLHttpRequest are wrapped, then their counters polled.
wait_helper_network == Ask ** OneTo(MaxLoops, Ask ** Maybe(Ask))

vscreen_wait ==
    wait_helper_idle \cup wait_helper_text \cup wait_helper_selector
        \cup wait_helper_url \cup wait_helper_network

-----------------------------------------------------------------------------
(* vscreen_browse, vscreen_interact, vscreen_synthesize,                   *)
(* vscreen_solve_challenge                                                 *)

vscreen_browse ==
    Navigate ** Maybe(Try(Script)) ** (FullPage \cup Ask) ** Ask ** Record

\* A point of the page, or an element that is found and scrolled into view.
InteractTarget == Skip \cup Script

InteractAct ==
         ClickAt                       \* click
    \cup (ClickAt ** InsertText)       \* type
    \cup (Script ** Maybe(Raise))      \* select, scroll
    \cup (Aim ** Point)                \* hover

\* What is not found ends the call with a hint.
vscreen_interact ==
    InteractTarget ** Maybe(InteractAct ** Ask ** Ask ** Record)

\* The page it created is opened if the caller may; its errors are ignored.
vscreen_synthesize == Maybe(Try(Navigate))

\* Only a consent dialog is clicked away; the rest is reported.
vscreen_solve_challenge == Maybe(Ask ** Maybe(ClickAt ** Record))

-----------------------------------------------------------------------------
(* vscreen_synthesis_manage, vscreen_synthesis_scrape,                     *)
(* vscreen_synthesis_scrape_and_create                                     *)

\* The certificate of the synthesis server is accepted by two clicks.
AcceptCertificate == Maybe(Try(Script ** Script))

synthesis_manage_create == Maybe(Try(Navigate) ** AcceptCertificate)

synthesis_manage_navigate == Navigate ** AcceptCertificate

vscreen_synthesis_manage == synthesis_manage_create \cup synthesis_manage_navigate

\* To the bottom and back to the top, so that everything loads.
synthesis_scrape_single ==
    Navigate ** Try(Script) ** Try(Step("top", "", FALSE)) ** Script

\* Every URL has a tab and a client of its own; a tab that cannot be created
\* closes those before it.  The tabs are scraped in tasks whose errors are
\* outcomes, then closed.
run_parallel_scrape == CreateTab ** CloseTab

synthesis_scrape_batch == run_parallel_scrape

vscreen_synthesis_scrape == synthesis_scrape_single \cup synthesis_scrape_batch

\* The page is created and opened empty, filled while its sources are
\* scraped, and reloaded; only the tabs' errors end it.
vscreen_synthesis_scrape_and_create ==
    Maybe(Try(Navigate) ** AcceptCertificate) ** run_parallel_scrape
        ** Maybe(Try(Ask))
=============================================================================
