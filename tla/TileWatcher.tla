----------------------------- MODULE TileWatcher -----------------------------
(***************************************************************************)
(* The dynamic challenge of vscreen_solve_captcha (mcp/interaction.rs) and *)
(* the ScreenshotWatcher it listens to (screenshot_watcher.rs).  The       *)
(* solver clicks the tiles that show the target, and then, in a few        *)
(* rounds, those of them that the watcher reports as changed and that show *)
(* it still.  A click selects a tile, a second one takes it back; the page *)
(* replaces a selected tile when it will.                                  *)
(***************************************************************************)
EXTENDS Naturals, Sequences

CONSTANTS
    Cells,      \* the cells of the grid
    Images,     \* what a tile may show
    Targets,    \* the images that show what the challenge asks for
    Unseen,     \* what the watcher remembers of a cell before its first picture
    MaxRounds,  \* max_replacement_rounds
    Capacity    \* of the watcher's broadcast channel

VARIABLES
    tile,       \* the image of each cell and the clicks it has had
    clicked,    \* all_clicked
    solver,     \* what the solver does, the clicks it has still to make, its rounds
    watcher,    \* whether it runs, and the picture it took last (prev_hashes)
    events      \* the broadcast channel, and whether its receiver has lagged

vars == <<tile, clicked, solver, watcher, events>>

NoEvents == [queue |-> <<>>, lagged |-> FALSE]

\* A tile looks different when it is selected.
Looks(c) == [image |-> tile[c].image, marked |-> tile[c].clicks % 2 = 1]

Init ==
    /\ tile \in [Cells -> [image : Images, clicks : {0}]]
    /\ clicked = {}
    /\ solver = [at |-> "click", todo |-> {c \in Cells : tile[c].image \in Targets}, round |-> 0]
    /\ solver.todo # {}
    /\ watcher = [runs |-> FALSE, prev |-> [c \in Cells |-> Unseen]]
    /\ events = NoEvents

-----------------------------------------------------------------------------
(* The watcher and the page                                                *)

\* One turn of watcher_loop: on its first run every cell counts as changed.
Capture ==
    /\ watcher.runs
    /\ LET now == [c \in Cells |-> Looks(c)]
           changed == {c \in Cells : watcher.prev[c] # now[c]}
           event == [c \in changed |-> tile[c].image]
           full == Len(events.queue) = Capacity
       IN  /\ watcher' = [watcher EXCEPT !.prev = now]
           /\ events' = IF changed = {} THEN events
                        ELSE IF full THEN [queue |-> Append(Tail(events.queue), event), lagged |-> TRUE]
                        ELSE [events EXCEPT !.queue = Append(@, event)]
    /\ UNCHANGED <<tile, clicked, solver>>

\* The page replaces a tile that was clicked.
Replace(c) ==
    /\ tile[c].clicks > 0
    /\ \E i \in Images \ {tile[c].image} : tile' = [tile EXCEPT ![c] = [image |-> i, clicks |-> 0]]
    /\ UNCHANGED <<clicked, solver, watcher, events>>

-----------------------------------------------------------------------------
(* The solver                                                              *)

Click(c) ==
    /\ solver.at = "click" /\ c \in solver.todo
    /\ tile' = [tile EXCEPT ![c].clicks = @ + 1]
    /\ clicked' = clicked \cup {c}
    /\ solver' = [solver EXCEPT !.todo = @ \ {c}]
    /\ UNCHANGED <<watcher, events>>

\* The watcher is stopped, the animation given some time, and a watcher started
\* with an empty memory and a channel of its own.
StartWatcher ==
    /\ solver.at = "click" /\ solver.todo = {}
    /\ watcher' = [runs |-> TRUE, prev |-> [c \in Cells |-> Unseen]]
    /\ events' = NoEvents
    /\ solver' = [solver EXCEPT !.at = IF solver.round = MaxRounds THEN "verify" ELSE "wait"]
    /\ UNCHANGED <<tile, clicked>>

\* An event: no cell of it was clicked, none shows the target, or some do.
Receive ==
    /\ solver.at = "wait" /\ events.queue # <<>> /\ ~events.lagged
    /\ LET event == Head(events.queue)
           cells == DOMAIN event \cap clicked
           matches == {c \in cells : event[c] \in Targets}
           next == IF solver.round + 1 = MaxRounds THEN "verify" ELSE "wait"
       IN  solver' = [at |-> IF cells = {} THEN next ELSE IF matches = {} THEN "verify" ELSE "click",
                      todo |-> matches,
                      round |-> solver.round + 1]
    /\ events' = [events EXCEPT !.queue = Tail(@)]
    /\ UNCHANGED <<tile, clicked, watcher>>

\* No event in time, or one that was overwritten.
NoEvent ==
    /\ solver.at = "wait"
    /\ solver' = [solver EXCEPT !.at = "verify"]
    /\ UNCHANGED <<tile, clicked, watcher, events>>

Verify ==
    /\ solver.at = "verify"
    /\ solver' = [solver EXCEPT !.at = "done"]
    /\ watcher' = [watcher EXCEPT !.runs = FALSE]
    /\ UNCHANGED <<tile, clicked, events>>

Next ==
    \/ Capture
    \/ \E c \in Cells : Replace(c) \/ Click(c)
    \/ StartWatcher \/ Receive \/ NoEvent \/ Verify

Spec == Init /\ [][Next]_vars

-----------------------------------------------------------------------------
(* Properties                                                              *)

\* interaction.rs: "Only genuinely NEW replacement tiles (completely different
\* images) will trigger future events", so that no tile is clicked and
\* unclicked: no image is clicked a second time.
OnlyNewTilesAreClicked == \A c \in Cells : tile[c].clicks <= 1
=============================================================================
