-------------------------------- MODULE Surfaces --------------------------------
(***************************************************************************)
(* A request on its way from a page to the user and back: the page's       *)
(* promise with its five minutes, the content script's port to the worker, *)
(* the sign flow of the worker (SignFlow, which WalletSession implements), *)
(* and the one popup window the worker opens, focuses and closes.          *)
(*                                                                         *)
(* A step of the flow and what the worker does to its window in the same   *)
(* breath are one action.  openPopupWindow awaits the browser up to three  *)
(* times; an opener is one call of it in flight.  Every request comes from *)
(* a tab of its own.                                                       *)
(*                                                                         *)
(* Left out: the toolbar popup, which the user may open at any time and    *)
(* which can decide whatever the window can.                               *)
(***************************************************************************)
EXTENDS SignFlow, Integers, FiniteSets

CONSTANTS
    Openers,   \* bound: calls of openPopupWindow in flight at once
    Windows,   \* bound: windows the worker creates
    None       \* no window

ASSUME SurfacesAssumption == None \notin Windows

VARIABLES
    page,      \* the promise of each request
    port,      \* the port of each tab
    current,   \* currentPopupWindowId
    windows,   \* popup windows on the screen
    closing,   \* windows.remove is under way
    opener,    \* calls of openPopupWindow
    dismissed, \* history: in this flow the user closed the window, or none could be made
    overlapped \* history: a window was opened or closed while another was being opened

tabs == <<page, port>>
popup == <<current, windows, closing, opener, dismissed, overlapped>>
vars == <<flow, tabs, popup>>

Idle == [step |-> "idle", id |-> None]
Creating == [step |-> "create", id |-> None]
Opening == {o \in Openers : opener[o] # Idle}

Init ==
    /\ FlowInit
    /\ page = [r \in Requests |-> "idle"] /\ port = [r \in Requests |-> "open"]
    /\ current = None /\ windows = {} /\ closing = {}
    /\ opener = [o \in Openers |-> Idle]
    /\ dismissed = FALSE /\ overlapped = FALSE

--------------------------------------------------------------------------------
(* The window, as the sign flow sees it *)

\* currentPopupWindowId after closePopupWindow.  A plausible bug, and the code.
Forgotten_KeepsId == current
Forgotten == None

\* A plausible bug, for a mutant: the window there may be is not looked for.
Opens_Blindly(cur) ==
    \E o \in Openers \ Opening : opener' = [opener EXCEPT ![o] = Creating]

\* openPopupWindow up to its first await.
Opens(cur) ==
    \E o \in Openers \ Opening :
        opener' = [opener EXCEPT ![o] =
                      IF cur = None THEN Creating ELSE [step |-> "get", id |-> cur]]

\* The listener of index.ts, and waitForUnlock.
FlowStarts == phase # "signing" /\ phase' = "signing"
SomeoneWaits == \E r \in Requests : at[r] # "waiting" /\ at'[r] = "waiting"

\* What a step of the flow does to the window: closePopupWindow when it ended the
\* flow, then openPopupWindow when it started one.
WindowFollows(ended) ==
    LET opens == FlowStarts \/ SomeoneWaits
        cur == IF ended THEN Forgotten ELSE current
    IN  /\ current' = cur
        /\ closing' = IF ended THEN closing \cup ({current} \cap windows) ELSE closing
        /\ IF opens THEN Opens(cur) ELSE UNCHANGED opener
        /\ dismissed' = (dismissed /\ ~FlowStarts)
        /\ overlapped' = (overlapped \/ ((ended \/ opens) /\ Opening # {}))
        /\ UNCHANGED windows

--------------------------------------------------------------------------------
(* Steps of the flow *)

\* The worker works on a request only once it came through the tab's port.
Received(r) == at[r] = "idle" => page[r] # "idle" /\ port[r] = "open"

RequestStep(r) ==
    /\ Received(r)
    /\ Continues(r) \/ WaitsForUnlock(r) \/ Enqueues(r) \/ AnsweredAtOnce(r) \/ Taken(r)
    /\ WindowFollows(FALSE)
    /\ UNCHANGED tabs

Decision(r) ==
    /\ Decided(r)
    /\ WindowFollows(Ends(r))
    /\ UNCHANGED tabs

WalletStep ==
    /\ Interrupted \/ Rehydrated
    /\ WindowFollows(FALSE)
    /\ UNCHANGED tabs

\* Windows outlive the worker, and one under creation may still appear.
Fresh == Windows \ (windows \cup {current} \cup {opener[o].id : o \in Openers})

Death ==
    /\ WorkerDies
    /\ port' = [r \in Requests |-> IF port[r] = "open" THEN "dead" ELSE port[r]]
    /\ current' = None
    /\ \E new \in SUBSET Fresh :
         /\ Cardinality(new) <= Cardinality({o \in Openers : opener[o] = Creating})
         /\ windows' = windows \cup new
    /\ opener' = [o \in Openers |-> Idle]
    /\ overlapped' = TRUE
    /\ UNCHANGED <<page, closing, dismissed>>

--------------------------------------------------------------------------------
(* openPopupWindow, between its awaits, and closePopupWindow's *)

OpenerAt(o, record) == opener' = [opener EXCEPT ![o] = record]

\* The window is gone: forget it and make another.
Recreates(o) == current' = None /\ OpenerAt(o, Creating)

\* The id to focus is read again: closePopupWindow may have forgotten it meanwhile.
getReturns(o) ==
    /\ opener[o].step = "get"
    /\ IF opener[o].id \in windows /\ current # None
       THEN OpenerAt(o, [step |-> "focus", id |-> current]) /\ UNCHANGED current
       ELSE Recreates(o)
    /\ UNCHANGED <<flow, tabs, windows, closing, dismissed, overlapped>>

updateReturns(o) ==
    /\ opener[o].step = "focus"
    /\ IF opener[o].id \in windows
       THEN OpenerAt(o, Idle) /\ UNCHANGED current
       ELSE Recreates(o)
    /\ UNCHANGED <<flow, tabs, windows, closing, dismissed, overlapped>>

createReturns(o) ==
    /\ opener[o] = Creating
    /\ \E w \in Fresh : windows' = windows \cup {w} /\ current' = w
    /\ OpenerAt(o, Idle)
    /\ UNCHANGED <<flow, tabs, closing, dismissed, overlapped>>

createFails(o) ==
    /\ opener[o] = Creating
    /\ OpenerAt(o, Idle)
    /\ dismissed' = TRUE
    /\ UNCHANGED <<flow, tabs, current, windows, closing, overlapped>>

removeReturns(w) ==
    /\ w \in closing
    /\ windows' = windows \ {w} /\ closing' = closing \ {w}
    /\ UNCHANGED <<flow, tabs, current, opener, dismissed, overlapped>>

UserCloses(w) ==
    /\ w \in windows \ closing
    /\ windows' = windows \ {w}
    /\ dismissed' = TRUE
    /\ UNCHANGED <<flow, tabs, current, closing, opener, overlapped>>

--------------------------------------------------------------------------------
(* The page and the content script *)

\* A closed port throws, and the page is told at once.
callPageBridge(r) ==
    /\ page[r] = "idle"
    /\ page' = [page EXCEPT ![r] = IF port[r] = "closed" THEN "settled" ELSE "pending"]
    /\ UNCHANGED <<flow, port, popup>>

\* Five minutes: the worker is not told.
callTimesOut(r) ==
    /\ page[r] = "pending"
    /\ page' = [page EXCEPT ![r] = "gaveUp"]
    /\ UNCHANGED <<flow, port, popup>>

\* The router's answer, through the port and the content script.
Answered(r) ==
    /\ page[r] = "pending" /\ at[r] = "answered" /\ port[r] # "closed"
    /\ page' = [page EXCEPT ![r] = "settled"]
    /\ UNCHANGED <<flow, port, popup>>

\* A plausible bug, for a mutant: the pending calls are dropped in silence.
Disconnected_Silently(r) ==
    /\ port[r] = "dead"
    /\ port' = [port EXCEPT ![r] = "closed"]
    /\ UNCHANGED <<flow, page, popup>>

\* onDisconnect; the content script never connects again.
Disconnected(r) ==
    /\ port[r] = "dead"
    /\ port' = [port EXCEPT ![r] = "closed"]
    /\ page' = [page EXCEPT ![r] = IF @ = "pending" THEN "settled" ELSE @]
    /\ UNCHANGED <<flow, popup>>

\* The tab loads its page afresh, before it has called.
Reloads(r) ==
    /\ page[r] = "idle" /\ port[r] = "closed"
    /\ port' = [port EXCEPT ![r] = "open"]
    /\ UNCHANGED <<flow, page, popup>>

--------------------------------------------------------------------------------
Next ==
    \/ \E r \in Requests :
         \/ RequestStep(r) \/ Decision(r)
         \/ callPageBridge(r) \/ callTimesOut(r) \/ Answered(r) \/ Disconnected(r) \/ Reloads(r)
    \/ WalletStep \/ Death
    \/ \E o \in Openers :
         getReturns(o) \/ updateReturns(o) \/ createReturns(o) \/ createFails(o)
    \/ \E w \in Windows : removeReturns(w) \/ UserCloses(w)

Spec == Init /\ [][Next]_vars

--------------------------------------------------------------------------------
(* Properties *)

\* Types; a window being removed is no longer the one the worker knows.
TypeOK ==
    /\ phase \in Phases /\ at \in [Requests -> Places]
    /\ page \in [Requests -> {"idle", "pending", "settled", "gaveUp"}]
    /\ port \in [Requests -> {"open", "dead", "closed"}]
    /\ current \in Windows \cup {None} /\ windows \subseteq Windows /\ closing \subseteq windows
    /\ \A o \in Openers :
         opener[o] \in {Idle, Creating} \cup [step : {"get", "focus"}, id : Windows]
    /\ dismissed \in BOOLEAN /\ overlapped \in BOOLEAN

\* However openings, focusing and closing overlap, a sign flow at rest has the
\* window the worker knows on the screen, unless in this flow the user closed one or
\* none could be made: then nothing opens it again until the flow ends (index.ts:70).
FlowIsShown ==
    phase = "signing" /\ Opening = {} /\ ~dismissed => current \in windows \ closing

\* popup-window.ts:9, "one window at a time": kept as long as no opening overlapped
\* another opening or a closing, and the worker lived.
OneWindow == overlapped \/ Cardinality(windows \ closing) <= 1

\* A page whose port is gone for good was told so, whatever its request had come to
\* and whatever was in transit: none is left to its five minutes by a dead worker.
PageIsTold == \A r \in Requests : port[r] = "closed" => page[r] # "pending"
================================================================================
