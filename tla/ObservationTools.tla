-------------------------- MODULE ObservationTools --------------------------
(***************************************************************************)
(* The tools that look: mcp/observation.rs, vscreen_storage, and the       *)
(* observing half of mcp/workflow.rs, as scripts.  They require the        *)
(* observer lock (Tools: Menu), but vscreen_execute_js and the actions     *)
(* that clear or set something, which require the exclusive one.           *)
(***************************************************************************)
EXTENDS Scripts

-----------------------------------------------------------------------------
(* vscreen_screenshot                                                      *)

do_screenshot_sequence == ScreenshotSequence

\* Labels are added to the page, and removed when the picture is taken; the
\* errors of the removal are ignored.
do_screenshot_annotated ==
    Step("on", "overlay", FALSE) ** Ask ** Try(Step("off", "overlay", FALSE))

vscreen_screenshot ==
    do_screenshot_sequence \cup do_screenshot_annotated \cup FullPage \cup Ask

-----------------------------------------------------------------------------
(* vscreen_find: the main frame, then the others with their errors ignored *)

do_find_elements == Ask
do_find_by_text == Ask
do_find_input == Ask

vscreen_find == do_find_elements \cup do_find_by_text \cup do_find_input

-----------------------------------------------------------------------------
(* Reading the page                                                        *)

vscreen_extract_text == Ask

\* The tree of the browser if it gives one, else one computed by script.
vscreen_accessibility_tree == Maybe(Ask)

\* Elements that cannot be pictured or described are left out.
vscreen_describe_elements == Maybe(Ask)

vscreen_get_page_info == Ask

vscreen_list_frames == Ask ** Ask

\* Any script.
vscreen_execute_js == Script

-----------------------------------------------------------------------------
(* vscreen_storage                                                         *)

\* Cookies are asked for, or set without waiting; local storage is a script.
vscreen_storage_get == Ask
vscreen_storage_set == Step("ask", "", TRUE) \cup Ask

-----------------------------------------------------------------------------
(* Workflows that observe                                                  *)

vscreen_observe == (FullPage \cup Ask) ** Ask ** Record

finish_extract == Record

\* One question for a named kind of content; `auto` tries the kinds in turn
\* and ignores errors until the last one.
vscreen_extract == Maybe(Ask) ** finish_extract
=============================================================================
