---------------------------- MODULE HttpHandlers ----------------------------
(***************************************************************************)
(* The HTTP handlers that drive a browser (handlers.rs), as scripts.  They *)
(* take no lock, and axum drops them when their client disconnects.  Their *)
(* points are those of the viewport, unless the client says page_coords.   *)
(***************************************************************************)
EXTENDS Scripts

-----------------------------------------------------------------------------
(* Input                                                                   *)

AtPoint == Glance \cup Aim

\* One event, as it is: who presses here has to release with another request.
input_dispatch ==
         (Glance ** (Point \cup Release \cup Wheel))
    \cup (UNION {Step("hold", thing, TRUE) : thing \in {"button", "key1"}})
    \cup KeyUp("key1")

input_click ==
    AtPoint ** MouseClick ** Maybe(Press ** Release)

input_type == InsertText

input_key == KeyDown("key1") ** KeyUp("key1")

input_scroll == Glance ** Wheel

input_drag ==
    Glance ** Point ** Press ** Carry ** OneTo(MaxLoops, Point) ** Release

input_hover == AtPoint ** Point

-----------------------------------------------------------------------------
(* Page, history and screenshots                                           *)

navigate_instance == Navigate

go_back == Ask
go_forward == Ask
reload == Navigate

screenshot == FullPage \cup Ask
screenshot_sequence == ScreenshotSequence

page_info == Ask
exec_js == Script
find_elements == Ask
extract_text == Ask
=============================================================================
