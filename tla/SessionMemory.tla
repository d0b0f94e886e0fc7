--------------------------- MODULE SessionMemory ---------------------------
(***************************************************************************)
(* What an InstanceSupervisor remembers of its session (memory.rs): the    *)
(* screenshots and the log of the actions of the MCP tools, and the        *)
(* console messages that a shim keeps in the page until a tool fetches     *)
(* them.  Each of the three has a mutex of its own, and none is kept from  *)
(* one step of a tool to the next.                                         *)
(***************************************************************************)
EXTENDS Naturals, FiniteSets, SequencesExt

CONSTANTS
    Callers,        \* calls that may run at the same time
    MaxShots,       \* of the history (20 in the code)
    MaxEntries,     \* of the log (100)
    MaxPage,        \* messages that the page keeps (200)
    MaxMessages,    \* messages that the buffer keeps (200)
    TotalShots,     \* bound: screenshots ever taken
    TotalMessages,  \* bound: messages the page ever logs
    Nothing         \* no call, no index

ASSUME MemoryAssumption ==
    /\ {MaxShots, MaxEntries, MaxPage, MaxMessages} \subseteq Nat \ {0}
    /\ {TotalShots, TotalMessages} \subseteq Nat /\ Nothing \notin Nat

VARIABLES
    history,    \* the screenshots, numbered as they are stored
    log,        \* [index, shot]: `shot` is the one the index was taken of
    shots,      \* the screenshots stored so far
    page,       \* the document: its buffer exists, the shim is in, the messages
    buffer,     \* the ConsoleBuffer
    messages,   \* the messages logged so far
    calls       \* what each call is doing

memoryVars == <<history, log, shots, page, buffer, messages, calls>>

NewPage == [marked |-> FALSE, hooked |-> FALSE, msgs |-> <<>>]

MemoryInit ==
    /\ history = <<>> /\ log = <<>> /\ shots = 0
    /\ page = NewPage /\ buffer = <<>> /\ messages = 0
    /\ calls = [t \in Callers |-> Nothing]

LateEviction_Push(ring, entry, max) ==
    Append(IF Len(ring) > max THEN Tail(ring) ELSE ring, entry)

\* A ring buffer of `max` entries: the oldest one makes room.
Push(ring, entry, max) ==
    Append(IF Len(ring) >= max THEN Tail(ring) ELSE ring, entry)

\* One entry after another.
PushAll(ring, entries, max) ==
    LET pushed[i \in 0 .. Len(entries)] ==
            IF i = 0 THEN ring ELSE Push(pushed[i - 1], entries[i], max)
    IN  pushed[Len(entries)]

Does(t, at) == calls[t] # Nothing /\ calls[t].at = at

Goes(t, next) == calls' = [calls EXCEPT ![t] = next]

-----------------------------------------------------------------------------
(* Screenshots and actions                                                 *)

EarlyIndex_Shoot(t) ==
    /\ calls[t] = Nothing
    /\ \/ /\ shots < TotalShots
          /\ shots' = shots + 1
          /\ history' = Push(history, shots', MaxShots)
          /\ Goes(t, [at |-> "record", shot |-> shots',
                      index |-> IF history = <<>> THEN 0 ELSE Len(history) - 1])
       \/ /\ Goes(t, [at |-> "record", shot |-> Nothing, index |-> Nothing])
          /\ UNCHANGED <<history, shots>>
    /\ UNCHANGED <<log, page, buffer, messages>>

\* record_action stores a screenshot and keeps its index, or could not take one.
Shoot(t) ==
    /\ calls[t] = Nothing
    /\ \/ /\ shots < TotalShots
          /\ shots' = shots + 1
          /\ history' = Push(history, shots', MaxShots)
          /\ Goes(t, [at |-> "record", shot |-> shots', index |-> Len(history') - 1])
       \/ /\ Goes(t, [at |-> "record", shot |-> Nothing, index |-> Nothing])
          /\ UNCHANGED <<history, shots>>
    /\ UNCHANGED <<log, page, buffer, messages>>

\* Then it writes the log, under the log's own mutex.
WriteLog(t) ==
    /\ Does(t, "record")
    /\ log' = Push(log, [index |-> calls[t].index, shot |-> calls[t].shot], MaxEntries)
    /\ Goes(t, Nothing)
    /\ UNCHANGED <<history, shots, page, buffer, messages>>

\* vscreen_history and the HTTP handlers list the entries with their indices;
\* a client picks one and asks for it.
List(t) ==
    /\ calls[t] = Nothing
    /\ \E i \in DOMAIN history :
           Goes(t, [at |-> "get", shot |-> history[i], index |-> i - 1])
    /\ UNCHANGED <<history, log, shots, page, buffer, messages>>

\* vscreen_history, history_clear.
ClearHistory ==
    /\ history' = <<>>
    /\ UNCHANGED <<log, shots, page, buffer, messages, calls>>

\* What an index finds: the entry, or none.
Get(index) == IF index < Len(history) THEN history[index + 1] ELSE Nothing

Answer(t) ==
    /\ Does(t, "get")
    /\ Goes(t, Nothing)
    /\ UNCHANGED <<history, log, shots, page, buffer, messages>>

-----------------------------------------------------------------------------
(* The console                                                             *)

\* The page logs a message: the shim keeps the last MaxPage.
Log ==
    /\ messages < TotalMessages
    /\ messages' = messages + 1
    /\ page' = IF page.hooked THEN [page EXCEPT !.msgs = Push(@, messages', MaxPage)] ELSE page
    /\ UNCHANGED <<history, log, shots, buffer, calls>>

NewDocument ==
    /\ page' = NewPage
    /\ calls' = [t \in Callers |-> IF Does(t, "drain") THEN [calls[t] EXCEPT !.installed = FALSE]
                                                    ELSE calls[t]]
    /\ UNCHANGED <<history, log, shots, buffer, messages>>

\* enable_console_capture: a second time it does nothing.  A command that fails
\* may have been executed or not; vscreen_console_log goes on.
Enable(t) ==
    /\ calls[t] = Nothing
    /\ \E ok, executed \in BOOLEAN :
          /\ ok => executed
          /\ page' = IF executed /\ ~page.marked
                     THEN [marked |-> TRUE, hooked |-> TRUE, msgs |-> <<>>] ELSE page
          /\ Goes(t, [at |-> "drain", installed |-> ok])
    /\ UNCHANGED <<history, log, shots, buffer, messages>>

KeepsThem_Drain(t) ==
    /\ Does(t, "drain")
    /\ \E ok, executed \in BOOLEAN :
          /\ ok => executed
          /\ page' = IF executed THEN [page EXCEPT !.marked = TRUE] ELSE page
          /\ Goes(t, [at |-> "push", msgs |-> IF ok THEN page.msgs ELSE <<>>])
    /\ UNCHANGED <<history, log, shots, buffer, messages>>

\* The script of sync_console_messages takes the messages out of the page,
\* whether its answer arrives or not, and leaves an empty buffer there.
Drain(t) ==
    /\ Does(t, "drain")
    /\ \E ok, executed \in BOOLEAN :
          /\ ok => executed
          /\ page' = IF executed
                     THEN [marked |-> TRUE, hooked |-> page.hooked, msgs |-> <<>>] ELSE page
          /\ Goes(t, [at |-> "push", msgs |-> IF ok THEN page.msgs ELSE <<>>])
    /\ UNCHANGED <<history, log, shots, buffer, messages>>

\* Then they are stored, behind what other calls have stored meanwhile.
Store(t) ==
    /\ Does(t, "push")
    /\ buffer' = PushAll(buffer, calls[t].msgs, MaxMessages)
    /\ Goes(t, Nothing)
    /\ UNCHANGED <<history, log, shots, page, messages>>

\* vscreen_console_clear, console_clear.
ClearConsole ==
    /\ buffer' = <<>>
    /\ UNCHANGED <<history, log, shots, page, messages, calls>>

-----------------------------------------------------------------------------
MemoryNext ==
    \/ \E t \in Callers :
           \/ Shoot(t) \/ WriteLog(t) \/ List(t) \/ Answer(t)
           \/ Enable(t) \/ Drain(t) \/ Store(t)
    \/ ClearHistory \/ Log \/ NewDocument \/ ClearConsole

MemorySpec == MemoryInit /\ [][MemoryNext]_memoryVars

-----------------------------------------------------------------------------
(* Properties                                                              *)

\* Every variable keeps its type, and the ring buffers their sizes.
MemoryTypeOK ==
    /\ Len(history) <= MaxShots /\ Range(history) \subseteq 1 .. shots
    /\ Len(log) <= MaxEntries
    /\ \A i \in DOMAIN log : log[i].index \in 0 .. MaxShots - 1 \/ log[i].index = Nothing
    /\ Len(page.msgs) <= MaxPage /\ Range(page.msgs) \subseteq 1 .. messages
    /\ Len(buffer) <= MaxMessages /\ Range(buffer) \subseteq 1 .. messages
    /\ \A t \in Callers : calls[t] # Nothing => calls[t].at \in {"record", "get", "drain", "push"}

\* The indices that are remembered: in the log, and by calls.
Remembered ==
    {e \in Range(log) \cup {[index |-> calls[t].index, shot |-> calls[t].shot] :
                               t \in {u \in Callers : Does(u, "record") \/ Does(u, "get")}} :
        e.index # Nothing}

\* An index that record_action logged, or that a client read in the list, may
\* find nothing any more, or a later screenshot, but never an earlier one: no
\* action is shown with a picture from before it.
IndexNeverOlder ==
    \A e \in Remembered : Get(e.index) # Nothing => Get(e.index) >= e.shot

\* No message is reported twice, however many calls drain the page at the same
\* time.
ReportedOnce ==
    LET Storing == {t \in Callers : Does(t, "push")}
    IN  /\ \A t \in Storing : IsInjective(page.msgs \o calls[t].msgs \o buffer)
        /\ IsInjective(page.msgs \o buffer)
        /\ \A t, u \in Storing :
              Range(calls[t].msgs) \cap Range(calls[u].msgs) # {} => t = u
=============================================================================
