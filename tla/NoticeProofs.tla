------------------------------ MODULE NoticeProofs ------------------------------
(***************************************************************************)
(* Proofs about what the user and the page get to notice.                  *)
(*                                                                         *)
(* Surfaces, for every number of requests, openings and windows, and any   *)
(* number of worker deaths: a page is told that its port is gone, a sign   *)
(* flow at rest is shown, and windows come one at a time while openings    *)
(* do.                                                                     *)
(*                                                                         *)
(* Monitor, for every number of accounts, transactions and polls in        *)
(* flight, and any number of stops, failures and deaths: the saved cursor  *)
(* passes no transaction that is not explained, and a monitor that runs    *)
(* has its next poll to come.                                              *)
(***************************************************************************)
EXTENDS Surfaces, Monitor, FiniteSetTheorems, TLAPS

--------------------------------------------------------------------------------
(* The inductive invariant *)

\* Only a locked or an uninitialized wallet has requests that wait for an unlock.
FlowOK ==
    /\ phase \in Phases /\ at \in [Requests -> Places]
    /\ phase \in {"ready", "signing"} => \A r \in Requests : at[r] # "waiting"

TabsOK ==
    /\ page \in [Requests -> {"idle", "pending", "settled", "gaveUp"}]
    /\ port \in [Requests -> {"open", "dead", "closed"}]
    /\ PageIsTold

OpenerType == {Idle, Creating} \cup [step : {"get", "focus"}, id : Windows]

\* The window the worker knows is never one that is being removed.
PopupOK ==
    /\ current \in Windows \cup {None} /\ windows \subseteq Windows /\ closing \subseteq windows
    /\ current \notin closing
    /\ opener \in [Openers -> OpenerType]
    /\ dismissed \in BOOLEAN /\ overlapped \in BOOLEAN

\* An opening that will yet make a window, or see that it must.
Working(o) ==
    \/ opener[o].step \in {"create", "get"}
    \/ opener[o].step = "focus" /\ opener[o].id \notin windows

Shown ==
    phase = "signing" /\ ~dismissed =>
        current \in windows \ closing \/ \E o \in Openers : Working(o)

\* While nothing overlapped, one opening at most is in flight, it looks for the window
\* the worker knows or makes the only one, and no window is on the screen but that.
Single ==
    ~overlapped =>
        /\ \A o1, o2 \in Openers : opener[o1] # Idle /\ opener[o2] # Idle => o1 = o2
        /\ windows \ closing \subseteq {current}
        /\ \A o \in Openers :
              /\ opener[o] = Creating => current = None
              /\ opener[o] # Idle /\ opener[o] # Creating => opener[o].id = current

IInv == FlowOK /\ TabsOK /\ PopupOK /\ Shown /\ Single

LEMMA OpenerShape ==
    ASSUME NEW e \in OpenerType
    PROVE  /\ e = Idle <=> e.step = "idle"
           /\ e = Creating <=> e.step = "create"
           /\ e.step \in {"idle", "create", "get", "focus"}
           /\ e.step \in {"get", "focus"} => e.id \in Windows
BY DEF OpenerType, Idle, Creating

LEMMA NewOpener ==
    /\ Idle \in OpenerType /\ Creating \in OpenerType
    /\ Idle.step = "idle" /\ Creating.step = "create"
    /\ \A w \in Windows, s \in {"get", "focus"} :
          /\ [step |-> s, id |-> w] \in OpenerType
          /\ [step |-> s, id |-> w].step = s /\ [step |-> s, id |-> w].id = w
BY DEF OpenerType, Idle, Creating

LEMMA Initially == Init => IInv
<1> SUFFICES ASSUME Init PROVE IInv
  OBVIOUS
<1>1. FlowOK
  BY DEF Init, FlowInit, FlowOK, Phases, Places
<1>2. TabsOK
  BY DEF Init, TabsOK, PageIsTold
<1>3. PopupOK
  <2>1. opener \in [Openers -> OpenerType] /\ current \notin closing
    BY NewOpener DEF Init
  <2>2. dismissed \in BOOLEAN /\ overlapped \in BOOLEAN
    BY Zenon DEF Init
  <2> QED  BY <2>1, <2>2 DEF Init, PopupOK
<1>4. Shown
  BY DEF Init, FlowInit, Shown
<1>5. Single
  BY NewOpener DEF Init, Single
<1> QED  BY <1>1, <1>2, <1>3, <1>4, <1>5 DEF IInv

--------------------------------------------------------------------------------
(* The sign flow *)

\* What is dispatched, whoever waits: the phase asked for, or a sign flow if waiting
\* requests were woken; nobody waits any more unless the wallet was locked.
LEMMA DispatchEffect ==
    ASSUME NEW p \in Phases, NEW places \in [Requests -> Places], Dispatch(p, places)
    PROVE  /\ phase' \in {p, "signing"} /\ at' \in [Requests -> Places]
           /\ p = "locked" => phase' = p
           /\ p # "locked" => \A r \in Requests : at'[r] # "waiting"
           /\ (\A r \in Requests : places[r] # "waiting") => phase' = p
<1> DEFINE woken == IF p = "locked" THEN {} ELSE {r \in Requests : places[r] = "waiting"}
<1>1. PICK signers \in SUBSET woken :
         /\ phase' = IF signers # {} THEN "signing" ELSE p
         /\ at' = [r \in Requests |->
                      IF r \in signers THEN "queued"
                      ELSE IF r \in woken
                      THEN IF p = "uninitialized" THEN "answered" ELSE "busy"
                      ELSE places[r]]
  BY DEF Dispatch
<1>2. at' \in [Requests -> Places]
  BY <1>1 DEF Places
<1>3. p # "locked" => \A r \in Requests : at'[r] # "waiting"
  BY <1>1
<1>4. p = "locked" \/ (\A r \in Requests : places[r] # "waiting") => signers = {}
  BY <1>1
<1> QED  BY <1>1, <1>2, <1>3, <1>4

LEMMA MovesKeeps ==
    ASSUME FlowOK, NEW r \in Requests, NEW from, NEW to \in Places, Moves(r, from, to),
           to = "waiting" => phase = "locked"
    PROVE  FlowOK' /\ phase' = phase
BY DEF Moves, FlowOK

LEMMA RequestFlow ==
    ASSUME FlowOK, NEW r \in Requests,
           Continues(r) \/ WaitsForUnlock(r) \/ Enqueues(r) \/ AnsweredAtOnce(r) \/ Taken(r)
    PROVE  FlowOK'
<1>1. CASE Continues(r)
  BY <1>1, MovesKeeps DEF Continues, Places
<1>2. CASE WaitsForUnlock(r)
  BY <1>2, MovesKeeps DEF WaitsForUnlock, Places
<1>3. CASE Enqueues(r)
  <2>1. [at EXCEPT ![r] = "queued"] \in [Requests -> Places]
    BY DEF FlowOK, Places
  <2> QED  BY <1>3, <2>1, DispatchEffect DEF Enqueues, FlowOK, Phases
<1>4. CASE AnsweredAtOnce(r)
  BY <1>4, MovesKeeps DEF AnsweredAtOnce, Places
<1>5. CASE Taken(r)
  BY <1>5, MovesKeeps DEF Taken, Places
<1> QED  BY <1>1, <1>2, <1>3, <1>4, <1>5

\* A decision that ends a sign flow ends its phase: nobody waits while signing.
LEMMA DecidedFlow ==
    ASSUME FlowOK, NEW r \in Requests, Decided(r)
    PROVE  FlowOK' /\ (Ends(r) /\ phase = "signing" => phase' # "signing")
<1>1. CASE Ends(r)
  <2> DEFINE places == [at EXCEPT ![r] = "answered"]
  <2>1. places \in [Requests -> Places] /\ Dispatch("ready", places)
    BY <1>1 DEF FlowOK, Places, Decided
  <2>2. phase = "signing" => \A q \in Requests : places[q] # "waiting"
    BY DEF FlowOK
  <2> HIDE DEF places
  <2> QED  BY <2>1, <2>2, DispatchEffect DEF FlowOK, Phases
<1>2. CASE ~Ends(r)
  BY <1>2, MovesKeeps DEF Decided, Places
<1> QED  BY <1>1, <1>2

LEMMA WalletFlow ==
    ASSUME FlowOK, Interrupted \/ Rehydrated
    PROVE  FlowOK'
<1>1. CASE Interrupted
  BY <1>1, DispatchEffect DEF Interrupted, FlowOK, Phases
<1>2. CASE Rehydrated
  BY <1>2 DEF Rehydrated, FlowOK, Phases
<1> QED  BY <1>1, <1>2

--------------------------------------------------------------------------------
(* The window follows the flow *)

LEMMA WindowKeeps ==
    ASSUME IInv, NEW ended \in BOOLEAN, WindowFollows(ended), FlowOK',
           ended /\ phase = "signing" => phase' # "signing"
    PROVE  PopupOK' /\ Shown' /\ Single'
<1> DEFINE cur == IF ended THEN None ELSE current
           opens == FlowStarts \/ SomeoneWaits
<1>0. PopupOK /\ Shown /\ Single
  BY DEF IInv
<1>1. /\ current' = cur /\ windows' = windows
      /\ closing' = IF ended THEN closing \cup ({current} \cap windows) ELSE closing
      /\ opens => Opens(cur)
      /\ ~opens => opener' = opener
      /\ dismissed' = (dismissed /\ ~FlowStarts)
      /\ overlapped' = (overlapped \/ ((ended \/ opens) /\ Opening # {}))
  BY DEF WindowFollows, Forgotten
<1>2. cur \in Windows \cup {None}
  BY <1>0 DEF PopupOK
<1>3. opens => \E o \in Openers :
         /\ opener[o] = Idle
         /\ opener' = [opener EXCEPT ![o] = IF cur = None THEN Creating
                                            ELSE [step |-> "get", id |-> cur]]
  BY <1>1 DEF Opens, Opening
<1>4. FlowStarts <=> phase # "signing" /\ phase' = "signing"
  BY DEF FlowStarts
<1>5. FlowStarts => opens
  OBVIOUS
<1> HIDE DEF cur, opens
<1>6. CASE ~opens
  <2>1. PopupOK'
    <3>1. dismissed' \in BOOLEAN /\ overlapped' \in BOOLEAN
      BY <1>1
    <3>2. closing' \subseteq windows' /\ current' \notin closing'
      BY <1>0, <1>1, SurfacesAssumption DEF PopupOK, cur
    <3> QED  BY <1>0, <1>1, <1>2, <1>6, <3>1, <3>2 DEF PopupOK
  <2>2. Shown'
    <3> SUFFICES ASSUME phase' = "signing", ~dismissed'
                 PROVE  current' \in windows' \ closing' \/ \E o \in Openers : Working(o)'
      BY DEF Shown
    <3>1. phase = "signing" /\ ~FlowStarts /\ ~ended /\ ~dismissed
      BY <1>1, <1>4, <1>5, <1>6
    <3> QED  BY <1>0, <1>1, <1>6, <3>1 DEF Shown, Working, cur
  <2>3. Single'
    <3> SUFFICES ASSUME ~overlapped' PROVE
           /\ \A o1, o2 \in Openers : opener[o1] # Idle /\ opener[o2] # Idle => o1 = o2
           /\ windows' \ closing' \subseteq {current'}
           /\ \A o \in Openers :
                 /\ opener[o] = Creating => current' = None
                 /\ opener[o] # Idle /\ opener[o] # Creating => opener[o].id = current'
      BY <1>1, <1>6 DEF Single
    <3>1. ~overlapped /\ (ended => Opening = {})
      BY <1>1
    <3>2. CASE ~ended
      BY <1>0, <1>1, <3>1, <3>2 DEF Single, cur
    <3>3. CASE ended
      <4>1. \A o \in Openers : opener[o] = Idle
        BY <3>1, <3>3 DEF Opening
      <4>2. windows' \ closing' = {}
        BY <1>0, <1>1, <3>1, <3>3 DEF Single
      <4> QED  BY <4>1, <4>2, NewOpener
    <3> QED  BY <3>2, <3>3
  <2> QED  BY <2>1, <2>2, <2>3
<1>7. CASE opens
  <2> DEFINE e == IF cur = None THEN Creating ELSE [step |-> "get", id |-> cur]
  <2>1. PICK o \in Openers : opener[o] = Idle /\ opener' = [opener EXCEPT ![o] = e]
    BY <1>3, <1>7
  <2>2. /\ e \in OpenerType /\ e.step \in {"create", "get"} /\ e # Idle
        /\ e = Creating => cur = None
        /\ e # Creating => e.id = cur
    BY <1>2, NewOpener, OpenerShape
  <2> HIDE DEF e
  <2>3. opener'[o] = e /\ \A x \in Openers : x # o => opener'[x] = opener[x]
    BY <1>0, <2>1 DEF PopupOK
  <2>4. PopupOK'
    <3>1. dismissed' \in BOOLEAN /\ overlapped' \in BOOLEAN
      BY <1>1
    <3>2. closing' \subseteq windows' /\ current' \notin closing'
      BY <1>0, <1>1, SurfacesAssumption DEF PopupOK, cur
    <3>3. opener' \in [Openers -> OpenerType]
      BY <1>0, <2>1, <2>2 DEF PopupOK
    <3> QED  BY <1>0, <1>1, <1>2, <3>1, <3>2, <3>3 DEF PopupOK
  <2>5. Shown'
    BY <2>2, <2>3 DEF Shown, Working
  <2>6. Single'
    <3> SUFFICES ASSUME ~overlapped' PROVE
           /\ \A o1, o2 \in Openers : opener'[o1] # Idle /\ opener'[o2] # Idle => o1 = o2
           /\ windows' \ closing' \subseteq {current'}
           /\ \A x \in Openers :
                 /\ opener'[x] = Creating => current' = None
                 /\ opener'[x] # Idle /\ opener'[x] # Creating => opener'[x].id = current'
      BY DEF Single
    <3>1. ~overlapped /\ \A x \in Openers : opener[x] = Idle
      BY <1>1, <1>7 DEF Opening
    <3>2. \A x \in Openers : x # o => opener'[x] = Idle
      BY <2>3, <3>1
    <3>3. windows' \ closing' \subseteq {current'}
      BY <1>0, <1>1, <3>1 DEF Single, cur
    <3> QED  BY <1>1, <2>2, <2>3, <3>2, <3>3, NewOpener
  <2> QED  BY <2>4, <2>5, <2>6
<1> QED  BY <1>6, <1>7

LEMMA RequestStepKeeps ==
    ASSUME IInv, NEW r \in Requests, RequestStep(r)
    PROVE  IInv'
<1>1. FlowOK'
  BY RequestFlow DEF IInv, RequestStep
<1>2. PopupOK' /\ Shown' /\ Single'
  BY <1>1, WindowKeeps DEF RequestStep
<1>3. TabsOK'
  BY DEF IInv, RequestStep, tabs, TabsOK, PageIsTold
<1> QED  BY <1>1, <1>2, <1>3 DEF IInv

LEMMA DecisionKeeps ==
    ASSUME IInv, NEW r \in Requests, Decision(r)
    PROVE  IInv'
<1>1. FlowOK' /\ (Ends(r) /\ phase = "signing" => phase' # "signing")
  BY DecidedFlow DEF IInv, Decision
<1>2. WindowFollows(Ends(r)) /\ Ends(r) \in BOOLEAN
  BY DEF Decision, Ends
<1>3. PopupOK' /\ Shown' /\ Single'
  BY <1>1, <1>2, WindowKeeps
<1>4. TabsOK'
  BY DEF IInv, Decision, tabs, TabsOK, PageIsTold
<1> QED  BY <1>1, <1>3, <1>4 DEF IInv

LEMMA WalletStepKeeps ==
    ASSUME IInv, WalletStep
    PROVE  IInv'
<1>1. FlowOK'
  BY WalletFlow DEF IInv, WalletStep
<1>2. PopupOK' /\ Shown' /\ Single'
  BY <1>1, WindowKeeps DEF WalletStep
<1>3. TabsOK'
  BY DEF IInv, WalletStep, tabs, TabsOK, PageIsTold
<1> QED  BY <1>1, <1>2, <1>3 DEF IInv

\* The worker forgets the window; windows under creation may still appear.
LEMMA DeathKeeps ==
    ASSUME IInv, Death
    PROVE  IInv'
<1>1. /\ WorkerDies
      /\ port' = [r \in Requests |-> IF port[r] = "open" THEN "dead" ELSE port[r]]
      /\ current' = None /\ opener' = [o \in Openers |-> Idle] /\ overlapped' = TRUE
      /\ UNCHANGED <<page, closing, dismissed>>
  BY DEF Death
<1>2. windows \subseteq windows' /\ windows' \subseteq windows \cup Windows
  BY DEF Death, Fresh
<1>3. FlowOK'
  BY <1>1 DEF IInv, FlowOK, WorkerDies, Phases, Places
<1>4. TabsOK'
  BY <1>1 DEF IInv, TabsOK, PageIsTold
<1>5. PopupOK'
  <2>1. overlapped' \in BOOLEAN
    BY <1>1
  <2>2. opener' \in [Openers -> OpenerType]
    BY <1>1, NewOpener
  <2> QED  BY <1>1, <1>2, <2>1, <2>2, SurfacesAssumption DEF IInv, PopupOK
<1>6. Shown'
  BY <1>1 DEF WorkerDies, Shown
<1>7. Single'
  BY <1>1 DEF Single
<1> QED  BY <1>3, <1>4, <1>5, <1>6, <1>7 DEF IInv

--------------------------------------------------------------------------------
(* Openings, removals and the user *)

\* What an opening in flight turns to.
LEMMA OpenerMoves ==
    ASSUME PopupOK, NEW o \in Openers, NEW e \in OpenerType, OpenerAt(o, e)
    PROVE  /\ opener' \in [Openers -> OpenerType] /\ opener'[o] = e
           /\ \A x \in Openers : x # o => opener'[x] = opener[x]
BY DEF PopupOK, OpenerAt

\* The window is gone: nothing is on the screen, so the next one is the only one.
LEMMA RecreatesKeeps ==
    ASSUME IInv, NEW o \in Openers, opener[o].step \in {"get", "focus"},
           opener[o].id \notin windows \/ current = None, Recreates(o),
           UNCHANGED <<windows, closing, dismissed, overlapped, phase>>
    PROVE  PopupOK' /\ Shown' /\ Single'
<1>0. PopupOK /\ Single
  BY DEF IInv
<1>1. /\ opener' \in [Openers -> OpenerType] /\ opener'[o] = Creating
      /\ \A x \in Openers : x # o => opener'[x] = opener[x]
      /\ current' = None
  BY <1>0, OpenerMoves, NewOpener DEF Recreates
<1>2. PopupOK'
  BY <1>0, <1>1, SurfacesAssumption DEF PopupOK
<1>3. Shown'
  BY <1>1, NewOpener DEF Shown, Working
<1>4. Single'
  <2> SUFFICES ASSUME ~overlapped' PROVE
         /\ \A o1, o2 \in Openers : opener'[o1] # Idle /\ opener'[o2] # Idle => o1 = o2
         /\ windows \ closing \subseteq {None}
         /\ \A x \in Openers :
               /\ opener'[x] = Creating => current' = None
               /\ opener'[x] # Idle /\ opener'[x] # Creating => opener'[x].id = current'
    BY <1>1 DEF Single
  <2>1. opener[o] # Idle /\ opener[o] # Creating
    BY <1>0, NewOpener, OpenerShape DEF PopupOK
  <2>2. \A x \in Openers : x # o => opener'[x] = Idle
    BY <1>0, <1>1, <2>1 DEF Single
  <2>3. windows \ closing \subseteq {None}
    BY <1>0, <2>1 DEF Single
  <2> QED  BY <1>1, <2>2, <2>3, NewOpener
<1> QED  BY <1>2, <1>3, <1>4

LEMMA GetReturnsKeeps ==
    ASSUME IInv, NEW o \in Openers, getReturns(o)
    PROVE  IInv'
<1>0. PopupOK /\ Shown /\ Single
  BY DEF IInv
<1>1. /\ opener[o].step = "get"
      /\ UNCHANGED <<phase, at, page, port, windows, closing, dismissed, overlapped>>
  BY DEF getReturns, flow, tabs
<1>2. FlowOK' /\ TabsOK'
  BY <1>1 DEF IInv, FlowOK, TabsOK, PageIsTold
<1>3. CASE opener[o].id \in windows /\ current # None
  <2> DEFINE e == [step |-> "focus", id |-> current]
  <2>1. OpenerAt(o, e) /\ UNCHANGED current
    BY <1>3 DEF getReturns
  <2>2. e \in OpenerType /\ e.step = "focus" /\ e.id = current /\ e # Idle /\ e # Creating
    BY <1>0, <1>3, NewOpener, OpenerShape DEF PopupOK
  <2> HIDE DEF e
  <2>3. /\ opener' \in [Openers -> OpenerType] /\ opener'[o] = e
        /\ \A x \in Openers : x # o => opener'[x] = opener[x]
    BY <1>0, <2>1, <2>2, OpenerMoves
  <2>4. PopupOK'
    BY <1>0, <1>1, <2>1, <2>3 DEF PopupOK
  <2>5. Shown'
    BY <1>0, <1>1, <2>1, <2>2, <2>3 DEF PopupOK, Shown, Working
  <2>6. Single'
    <3>1. opener[o] # Idle
      BY <1>1, NewOpener
    <3> QED  BY <1>0, <1>1, <2>1, <2>2, <2>3, <3>1 DEF Single
  <2> QED  BY <1>2, <2>4, <2>5, <2>6 DEF IInv
<1>4. CASE ~(opener[o].id \in windows /\ current # None)
  <2>1. Recreates(o)
    BY <1>4 DEF getReturns
  <2>2. PopupOK' /\ Shown' /\ Single'
    BY <1>1, <1>4, <2>1, RecreatesKeeps
  <2> QED  BY <1>2, <2>2 DEF IInv
<1> QED  BY <1>3, <1>4

LEMMA UpdateReturnsKeeps ==
    ASSUME IInv, NEW o \in Openers, updateReturns(o)
    PROVE  IInv'
<1>0. PopupOK /\ Shown /\ Single
  BY DEF IInv
<1>1. /\ opener[o].step = "focus"
      /\ UNCHANGED <<phase, at, page, port, windows, closing, dismissed, overlapped>>
  BY DEF updateReturns, flow, tabs
<1>2. FlowOK' /\ TabsOK'
  BY <1>1 DEF IInv, FlowOK, TabsOK, PageIsTold
<1>3. CASE opener[o].id \in windows
  <2>1. OpenerAt(o, Idle) /\ UNCHANGED current
    BY <1>3 DEF updateReturns
  <2>2. /\ opener' \in [Openers -> OpenerType] /\ opener'[o] = Idle
        /\ \A x \in Openers : x # o => opener'[x] = opener[x]
    BY <1>0, <2>1, NewOpener, OpenerMoves
  <2>3. PopupOK'
    BY <1>0, <1>1, <2>1, <2>2 DEF PopupOK
  <2>4. Shown'
    <3>1. ~Working(o)
      BY <1>1, <1>3 DEF Working
    <3> QED  BY <1>0, <1>1, <2>1, <2>2, <3>1 DEF Shown, Working
  <2>5. Single'
    <3>1. Idle # Creating
      BY NewOpener
    <3> QED  BY <1>0, <1>1, <2>1, <2>2, <3>1 DEF Single
  <2> QED  BY <1>2, <2>3, <2>4, <2>5 DEF IInv
<1>4. CASE opener[o].id \notin windows
  <2>1. Recreates(o)
    BY <1>4 DEF updateReturns
  <2>2. PopupOK' /\ Shown' /\ Single'
    BY <1>1, <1>4, <2>1, RecreatesKeeps
  <2> QED  BY <1>2, <2>2 DEF IInv
<1> QED  BY <1>3, <1>4

\* The new window is on the screen, and the worker knows it.
LEMMA CreateReturnsKeeps ==
    ASSUME IInv, NEW o \in Openers, createReturns(o)
    PROVE  IInv'
<1>0. PopupOK /\ Shown /\ Single
  BY DEF IInv
<1>1. /\ opener[o] = Creating /\ OpenerAt(o, Idle)
      /\ UNCHANGED <<phase, at, page, port, closing, dismissed, overlapped>>
  BY DEF createReturns, flow, tabs
<1>2. PICK w \in Fresh : windows' = windows \cup {w} /\ current' = w
  BY DEF createReturns
<1>3. w \in Windows /\ w \notin windows /\ w \notin closing
  BY <1>0, <1>2 DEF Fresh, PopupOK
<1>4. FlowOK' /\ TabsOK'
  BY <1>1 DEF IInv, FlowOK, TabsOK, PageIsTold
<1>5. /\ opener' \in [Openers -> OpenerType] /\ opener'[o] = Idle
      /\ \A x \in Openers : x # o => opener'[x] = opener[x]
  BY <1>0, <1>1, NewOpener, OpenerMoves
<1>6. PopupOK'
  BY <1>0, <1>1, <1>2, <1>3, <1>5 DEF PopupOK
<1>7. Shown'
  BY <1>1, <1>2, <1>3 DEF Shown
<1>8. Single'
  <2> SUFFICES ASSUME ~overlapped PROVE
         /\ \A x \in Openers : opener'[x] = Idle
         /\ windows' \ closing' \subseteq {current'}
    BY <1>1, NewOpener DEF Single
  <2>1. current = None /\ \A x \in Openers : x # o => opener[x] = Idle
    BY <1>0, <1>1, NewOpener DEF Single
  <2>2. windows \ closing = {}
    BY <1>0, <2>1, SurfacesAssumption DEF Single, PopupOK
  <2> QED  BY <1>1, <1>2, <1>5, <2>1, <2>2
<1> QED  BY <1>4, <1>6, <1>7, <1>8 DEF IInv

LEMMA CreateFailsKeeps ==
    ASSUME IInv, NEW o \in Openers, createFails(o)
    PROVE  IInv'
<1>0. PopupOK /\ Shown /\ Single
  BY DEF IInv
<1>1. /\ opener[o] = Creating /\ OpenerAt(o, Idle) /\ dismissed' = TRUE
      /\ UNCHANGED <<phase, at, page, port, current, windows, closing, overlapped>>
  BY DEF createFails, flow, tabs
<1>2. FlowOK' /\ TabsOK' /\ Shown'
  BY <1>1 DEF IInv, FlowOK, TabsOK, PageIsTold, Shown
<1>3. /\ opener' \in [Openers -> OpenerType] /\ opener'[o] = Idle
      /\ \A x \in Openers : x # o => opener'[x] = opener[x]
  BY <1>0, <1>1, NewOpener, OpenerMoves
<1>4. PopupOK'
  <2>1. dismissed' \in BOOLEAN
    BY <1>1
  <2> QED  BY <1>0, <1>1, <1>3, <2>1 DEF PopupOK
<1>5. Single'
  BY <1>0, <1>1, <1>3 DEF Single
<1> QED  BY <1>2, <1>4, <1>5 DEF IInv

\* A window goes that the worker has forgotten.
LEMMA RemoveReturnsKeeps ==
    ASSUME IInv, NEW w, removeReturns(w)
    PROVE  IInv'
<1>0. PopupOK /\ Shown /\ Single
  BY DEF IInv
<1>1. /\ w \in closing /\ windows' = windows \ {w} /\ closing' = closing \ {w}
      /\ UNCHANGED <<phase, at, page, port, current, opener, dismissed, overlapped>>
  BY DEF removeReturns, flow, tabs
<1>2. FlowOK' /\ TabsOK'
  BY <1>1 DEF IInv, FlowOK, TabsOK, PageIsTold
<1>3. windows' \ closing' = windows \ closing
  BY <1>0, <1>1 DEF PopupOK
<1>4. PopupOK'
  BY <1>0, <1>1 DEF PopupOK
<1>5. Shown'
  BY <1>0, <1>1, <1>3 DEF Shown, Working
<1>6. Single'
  BY <1>0, <1>1, <1>3 DEF Single
<1> QED  BY <1>2, <1>4, <1>5, <1>6 DEF IInv

LEMMA UserClosesKeeps ==
    ASSUME IInv, NEW w, UserCloses(w)
    PROVE  IInv'
<1>0. PopupOK /\ Shown /\ Single
  BY DEF IInv
<1>1. /\ w \in windows \ closing /\ windows' = windows \ {w} /\ dismissed' = TRUE
      /\ UNCHANGED <<phase, at, page, port, current, closing, opener, overlapped>>
  BY DEF UserCloses, flow, tabs
<1>2. FlowOK' /\ TabsOK' /\ Shown'
  BY <1>1 DEF IInv, FlowOK, TabsOK, PageIsTold, Shown
<1>3. PopupOK'
  <2>1. dismissed' \in BOOLEAN
    BY <1>1
  <2> QED  BY <1>0, <1>1, <2>1 DEF PopupOK
<1>4. Single'
  BY <1>0, <1>1 DEF Single
<1> QED  BY <1>2, <1>3, <1>4 DEF IInv

--------------------------------------------------------------------------------
(* Steps of the page *)

LEMMA PageKeeps ==
    ASSUME IInv, NEW r \in Requests,
           callPageBridge(r) \/ callTimesOut(r) \/ Answered(r) \/ Disconnected(r) \/ Reloads(r)
    PROVE  IInv'
<1>1. UNCHANGED <<phase, at, current, windows, closing, opener, dismissed, overlapped>>
  BY DEF callPageBridge, callTimesOut, Answered, Disconnected, Reloads, flow, popup
<1>2. FlowOK' /\ PopupOK' /\ Shown' /\ Single'
  BY <1>1 DEF IInv, FlowOK, PopupOK, Shown, Working, Single
<1>3. TabsOK'
  <2>1. CASE callPageBridge(r)
    BY <2>1 DEF IInv, TabsOK, PageIsTold, callPageBridge
  <2>2. CASE callTimesOut(r)
    BY <2>2 DEF IInv, TabsOK, PageIsTold, callTimesOut
  <2>3. CASE Answered(r)
    BY <2>3 DEF IInv, TabsOK, PageIsTold, Answered
  <2>4. CASE Disconnected(r)
    BY <2>4 DEF IInv, TabsOK, PageIsTold, Disconnected
  <2>5. CASE Reloads(r)
    BY <2>5 DEF IInv, TabsOK, PageIsTold, Reloads
  <2> QED  BY <2>1, <2>2, <2>3, <2>4, <2>5
<1> QED  BY <1>2, <1>3 DEF IInv

--------------------------------------------------------------------------------

LEMMA NextKeeps == IInv /\ [Next]_vars => IInv'
<1> SUFFICES ASSUME IInv, [Next]_vars PROVE IInv'
  OBVIOUS
<1>1. CASE UNCHANGED vars
  BY <1>1 DEF vars, flow, tabs, popup, IInv, FlowOK, TabsOK, PageIsTold, PopupOK, Shown,
     Working, Single
<1>2. ASSUME NEW r \in Requests,
             \/ RequestStep(r) \/ Decision(r) \/ callPageBridge(r) \/ callTimesOut(r)
             \/ Answered(r) \/ Disconnected(r) \/ Reloads(r)
      PROVE  IInv'
  BY <1>2, RequestStepKeeps, DecisionKeeps, PageKeeps
<1>3. CASE WalletStep
  BY <1>3, WalletStepKeeps
<1>4. CASE Death
  BY <1>4, DeathKeeps
<1>5. ASSUME NEW o \in Openers,
             getReturns(o) \/ updateReturns(o) \/ createReturns(o) \/ createFails(o)
      PROVE  IInv'
  BY <1>5, GetReturnsKeeps, UpdateReturnsKeeps, CreateReturnsKeeps, CreateFailsKeeps
<1>6. ASSUME NEW w \in Windows, removeReturns(w) \/ UserCloses(w) PROVE IInv'
  BY <1>6, RemoveReturnsKeeps, UserClosesKeeps
<1> QED  BY <1>1, <1>2, <1>3, <1>4, <1>5, <1>6 DEF Next

LEMMA Invariant == Spec => []IInv
<1>1. Init => IInv
  BY Initially
<1>2. IInv /\ [Next]_vars => IInv'
  BY NextKeeps
<1> QED  BY <1>1, <1>2, PTL DEF Spec

\* The flow, the tabs and the window are well typed, and a window being removed is no
\* longer the one the worker knows (popup-window.ts, closePopupWindow).
THEOREM TypeCorrect == Spec => []TypeOK
<1>1. IInv => TypeOK
  BY DEF IInv, FlowOK, TabsOK, PopupOK, OpenerType, TypeOK
<1> QED  BY <1>1, Invariant, PTL

\* However openings, focusing and closing overlap, and whenever the worker dies, a sign
\* flow at rest has the worker's window on the screen unless in this flow the user
\* closed one or none could be made (popup-window.ts, openPopupWindow; index.ts).
THEOREM ShownAtRest == Spec => []FlowIsShown
<1>1. IInv => FlowIsShown
  <2> SUFFICES ASSUME IInv, phase = "signing", Opening = {}, ~dismissed
               PROVE  current \in windows \ closing
    BY DEF FlowIsShown
  <2>1. \A o \in Openers : ~Working(o)
    BY NewOpener DEF Opening, Working
  <2> QED  BY <2>1 DEF IInv, Shown
<1> QED  BY <1>1, Invariant, PTL

\* There is one popup window at a time while no opening overlapped another opening or
\* a closing and the worker lived (popup-window.ts, openPopupWindow).
THEOREM OneAtATime == Spec => []OneWindow
<1>1. IInv => OneWindow
  <2> SUFFICES ASSUME IInv, ~overlapped PROVE Cardinality(windows \ closing) <= 1
    BY DEF OneWindow
  <2>1. windows \ closing \in SUBSET {current}
    BY DEF IInv, Single
  <2>2. IsFiniteSet({current}) /\ Cardinality({current}) = 1
    BY FS_Singleton
  <2>3. Cardinality(windows \ closing) <= Cardinality({current})
    BY <2>1, <2>2, FS_Subset
  <2> QED  BY <2>2, <2>3
<1> QED  BY <1>1, Invariant, PTL

\* A page whose port is gone for good was told, whatever its request had come to
\* (content script, onDisconnect; callPageBridge).
THEOREM ToldAtOnce == Spec => []PageIsTold
<1>1. IInv => PageIsTold
  BY DEF IInv, TabsOK
<1> QED  BY <1>1, Invariant, PTL

--------------------------------------------------------------------------------
(* The invariant of the monitor *)

ListSteps == {"list", "alert", "record", "bump"}

Watched == Accounts \cup {NoAccount}

TaskType ==
    [step : {"idle", "cursors", "backfill"}] \cup
    ([step : {"latest"}, addr : Accounts] \cup
    ([step : {"page"}, addr : Accounts, cursor : Nat] \cup
     [step : ListSteps, addr : Accounts, tx : Nat, rest : SUBSET Nat, account : Watched]))

\* The transactions of account a on chain ch, and those of which history rs tells.
OfIn(ch, a) == {i \in DOMAIN ch : ch[i].account = a}

ExplainedIn(i, ch, rs) == ch[i].kind = "failed" \/ \E a \in Watched : <<a, i>> \in rs

\* A task looks at transactions of its account that are on the chain, in order.
TaskOK(k, ch) ==
    /\ k \in TaskType
    /\ k.step = "page" => k.cursor \in 0..Len(ch)
    /\ k.step \in ListSteps =>
         /\ k.tx \in OfIn(ch, k.addr) /\ k.rest \subseteq OfIn(ch, k.addr)
         /\ \A m \in k.rest : k.tx < m

\* A poll of the watched account a saves no cursor beyond a transaction of d that is
\* neither explained nor in its page.
Owed(k, ch, rs, a, d) ==
    /\ k.step = "bump" => ExplainedIn(k.tx, ch, rs)
    /\ k.step = "page" /\ k.addr = a => \A j \in d : j <= k.cursor => ExplainedIn(j, ch, rs)
    /\ k.step \in ListSteps /\ k.addr = a =>
         \A m \in k.rest \cup {k.tx} : \A j \in d :
             j <= m => ExplainedIn(j, ch, rs) \/ j \in k.rest \cup {k.tx}

NetworkOK ==
    chain \in Seq([account : Accounts, kind : Kinds]) /\ unrecorded \subseteq DOMAIN chain

StoreOK ==
    /\ rows \subseteq Watched \X DOMAIN chain /\ alerts \subseteq DOMAIN chain
    /\ lastSeen \in 0..Len(chain)

LoopOK ==
    /\ active \in Accounts /\ addr \in {NoAccount, active} /\ running = (addr # NoAccount)
    /\ addr # NoAccount => ready
    /\ ready \in BOOLEAN /\ timer \in BOOLEAN /\ orphans \in Nat

DueOK ==
    /\ due \subseteq OfIn(chain, active)
    /\ \A j \in due : j <= lastSeen => ExplainedIn(j, chain, rows)

TasksOK ==
    /\ task = [t \in Tasks |-> task[t]]
    /\ \A t \in Tasks : TaskOK(task[t], chain) /\ Owed(task[t], chain, rows, active, due)

Polling(k) == k.step \in {"cursors", "page"} \cup ListSteps

\* A monitor that runs has a timer, or a poll in flight that sets one when it ends.
GoesOn == running => timer \/ \E t \in Tasks : Polling(task[t])

MonitorInv == NetworkOK /\ StoreOK /\ LoopOK /\ DueOK /\ TasksOK /\ GoesOn

--------------------------------------------------------------------------------
(* Chains and tasks *)

LEMMA Longer ==
    ASSUME NEW ch \in Seq([account : Accounts, kind : Kinds]),
           NEW e \in [account : Accounts, kind : Kinds]
    PROVE  LET more == Append(ch, e)
           IN  /\ more \in Seq([account : Accounts, kind : Kinds])
               /\ Len(ch) \in Nat /\ Len(more) = Len(ch) + 1
               /\ DOMAIN ch = 1..Len(ch) /\ DOMAIN more = DOMAIN ch \cup {Len(ch) + 1}
               /\ \A i \in DOMAIN ch : more[i] = ch[i]
               /\ more[Len(ch) + 1] = e
               /\ Len(ch) + 1 \notin DOMAIN ch
OBVIOUS

LEMMA TaskShape ==
    ASSUME NEW k \in TaskType
    PROVE  /\ k.step \in {"idle", "cursors", "backfill", "latest", "page"} \cup ListSteps
           /\ k.step \in {"latest", "page"} \cup ListSteps => k.addr \in Accounts
           /\ k.step = "page" => k.cursor \in Nat
           /\ k.step \in ListSteps =>
                 /\ k.tx \in Nat /\ k.rest \subseteq Nat /\ k.account \in Watched
                 /\ k = [step |-> k.step, addr |-> k.addr, tx |-> k.tx, rest |-> k.rest,
                         account |-> k.account]
BY DEF TaskType, ListSteps

LEMMA ShortTasks ==
    /\ \A s \in {"idle", "cursors", "backfill"} :
          [step |-> s] \in TaskType /\ [step |-> s].step = s
    /\ \A a \in Accounts :
          LET k == [step |-> "latest", addr |-> a]
          IN  k \in TaskType /\ k.step = "latest" /\ k.addr = a
    /\ \A a \in Accounts, n \in Nat :
          LET k == [step |-> "page", addr |-> a, cursor |-> n]
          IN  k \in TaskType /\ k.step = "page" /\ k.addr = a /\ k.cursor = n
BY DEF TaskType

LEMMA ListTasks ==
    ASSUME NEW s \in ListSteps, NEW a \in Accounts, NEW i \in Nat, NEW r \in SUBSET Nat,
           NEW acc \in Watched
    PROVE  LET k == [step |-> s, addr |-> a, tx |-> i, rest |-> r, account |-> acc]
           IN  /\ k \in TaskType
               /\ k.step = s /\ k.addr = a /\ k.tx = i /\ k.rest = r /\ k.account = acc
BY DEF TaskType

\* A task that has no page owes nothing.
LEMMA OwesNothing ==
    ASSUME NEW k \in TaskType, k.step \in {"idle", "cursors", "backfill", "latest"}
    PROVE  /\ \A ch : TaskOK(k, ch)
           /\ \A ch, rs, a, d : Owed(k, ch, rs, a, d)
BY DEF TaskOK, Owed, ListSteps

LEMMA NoTaskOK ==
    /\ NoTask \in TaskType /\ NoTask.step = "idle"
    /\ \A ch : TaskOK(NoTask, ch)
    /\ \A ch, rs, a, d : Owed(NoTask, ch, rs, a, d)
<1>1. NoTask \in TaskType /\ NoTask.step = "idle"
  BY ShortTasks DEF NoTask
<1> QED  BY <1>1, OwesNothing

\* More rows and fewer debts change nothing for a task.
LEMMA OwedLess ==
    ASSUME NEW k, NEW ch, NEW rs, NEW more, rs \subseteq more, NEW a, NEW d, NEW less,
           less \subseteq d, Owed(k, ch, rs, a, d)
    PROVE  Owed(k, ch, more, a, less)
<1>1. \A i : ExplainedIn(i, ch, rs) => ExplainedIn(i, ch, more)
  BY DEF ExplainedIn
<1> QED  BY <1>1 DEF Owed

\* Nor does the loss of all debts, whoever is watched then.
LEMMA OwedNone ==
    ASSUME NEW k, NEW ch, NEW rs, NEW a, NEW d, Owed(k, ch, rs, a, d), NEW b
    PROVE  Owed(k, ch, rs, b, {})
BY DEF Owed

\* A transaction that is confirmed now is beyond what any task looks at.
LEMMA TaskLonger ==
    ASSUME NEW ch \in Seq([account : Accounts, kind : Kinds]),
           NEW e \in [account : Accounts, kind : Kinds],
           NEW k, TaskOK(k, ch), NEW rs, NEW a, NEW d, d \subseteq DOMAIN ch,
           Owed(k, ch, rs, a, d), NEW more, more \subseteq d \cup {Len(ch) + 1}
    PROVE  TaskOK(k, Append(ch, e)) /\ Owed(k, Append(ch, e), rs, a, more)
<1> DEFINE ch2 == Append(ch, e)
<1>1. /\ Len(ch) \in Nat /\ Len(ch2) = Len(ch) + 1
      /\ DOMAIN ch = 1..Len(ch) /\ DOMAIN ch2 = DOMAIN ch \cup {Len(ch) + 1}
      /\ \A i \in DOMAIN ch : ch2[i] = ch[i]
  BY Longer
<1> HIDE DEF ch2
<1>2. \A b : OfIn(ch, b) \subseteq OfIn(ch2, b)
  BY <1>1 DEF OfIn
<1>3. 0..Len(ch) \subseteq 0..Len(ch2)
  BY <1>1
<1>4. TaskOK(k, ch2)
  BY <1>2, <1>3 DEF TaskOK
<1>5. \A i \in DOMAIN ch : ExplainedIn(i, ch, rs) => ExplainedIn(i, ch2, rs)
  BY <1>1 DEF ExplainedIn
<1>6. k.step \in ListSteps => k.tx \in DOMAIN ch /\ k.rest \subseteq DOMAIN ch
  BY DEF TaskOK, OfIn
<1>7. k.step = "bump" => ExplainedIn(k.tx, ch2, rs)
  BY <1>5, <1>6 DEF Owed, ListSteps
<1>8. ASSUME NEW m \in 0..Len(ch), NEW j \in more, j <= m PROVE j \in d
  BY <1>1, <1>8
<1>9. k.step = "page" /\ k.addr = a =>
         \A j \in more : j <= k.cursor => ExplainedIn(j, ch2, rs)
  <2> SUFFICES ASSUME k.step = "page", k.addr = a, NEW j \in more, j <= k.cursor
               PROVE  ExplainedIn(j, ch2, rs)
    OBVIOUS
  <2>1. k.cursor \in 0..Len(ch)
    BY DEF TaskOK
  <2>2. j \in d
    BY <1>8, <2>1
  <2> QED  BY <1>5, <2>2 DEF Owed
<1>10. k.step \in ListSteps /\ k.addr = a =>
          \A m \in k.rest \cup {k.tx} : \A j \in more :
              j <= m => ExplainedIn(j, ch2, rs) \/ j \in k.rest \cup {k.tx}
  <2> SUFFICES ASSUME k.step \in ListSteps, k.addr = a, NEW m \in k.rest \cup {k.tx},
                      NEW j \in more, j <= m
               PROVE  ExplainedIn(j, ch2, rs) \/ j \in k.rest \cup {k.tx}
    OBVIOUS
  <2>1. m \in 0..Len(ch)
    BY <1>1, <1>6
  <2>2. j \in d
    BY <1>8, <2>1
  <2> QED  BY <1>5, <2>2 DEF Owed
<1>11. Owed(k, ch2, rs, a, more)
  BY <1>7, <1>9, <1>10 DEF Owed
<1> QED  BY <1>4, <1>11 DEF ch2

--------------------------------------------------------------------------------
(* The steps *)

LEMMA MonitorInitially == MonitorInit => MonitorInv
<1> SUFFICES ASSUME MonitorInit PROVE MonitorInv
  OBVIOUS
<1>1. NetworkOK
  BY DEF MonitorInit, NetworkOK
<1>2. StoreOK
  BY DEF MonitorInit, StoreOK
<1>3. active \in Accounts
  BY MonitorAssumption, Zenon DEF MonitorInit
<1>4. LoopOK
  <2>1. addr = active /\ active # NoAccount /\ orphans = 0 /\ running = TRUE
    BY <1>3, MonitorAssumption DEF MonitorInit
  <2>2. ready \in BOOLEAN /\ timer \in BOOLEAN /\ ready
    BY Zenon DEF MonitorInit
  <2> QED  BY <1>3, <2>1, <2>2 DEF LoopOK
<1>5. DueOK
  BY DEF MonitorInit, DueOK
<1>6. TasksOK
  <2>1. task = [t \in Tasks |->
                  IF t = CHOOSE u \in Tasks : TRUE THEN [step |-> "backfill"] ELSE NoTask]
    BY DEF MonitorInit
  <2>2. \A t \in Tasks : task[t] = NoTask \/ task[t] = [step |-> "backfill"]
    BY <2>1
  <2>3. task = [t \in Tasks |-> task[t]]
    BY <2>1
  <2>4. \A ch, rs, a, d : /\ TaskOK([step |-> "backfill"], ch)
                          /\ Owed([step |-> "backfill"], ch, rs, a, d)
    BY ShortTasks, OwesNothing
  <2> QED  BY <2>2, <2>3, <2>4, NoTaskOK DEF TasksOK
<1>7. GoesOn
  BY DEF MonitorInit, GoesOn
<1> QED  BY <1>1, <1>2, <1>4, <1>5, <1>6, <1>7 DEF MonitorInv

\* A step that gives task t the value k, and adds rows or drops debts.
LEMMA TaskSet ==
    ASSUME TasksOK, NEW t \in Tasks, NEW k, task' = [task EXCEPT ![t] = k],
           UNCHANGED <<chain, active>>, rows \subseteq rows', due' \subseteq due,
           TaskOK(k, chain), Owed(k, chain, rows', active, due')
    PROVE  TasksOK'
<1>1. task'[t] = k /\ task' = [u \in Tasks |-> task'[u]]
      /\ \A u \in Tasks : u # t => task'[u] = task[u]
  BY DEF TasksOK
<1>2. \A u \in Tasks : Owed(task[u], chain, rows', active, due')
  BY OwedLess DEF TasksOK
<1>3. \A u \in Tasks : TaskOK(task'[u], chain) /\ Owed(task'[u], chain, rows', active, due')
  BY <1>1, <1>2 DEF TasksOK
<1> QED  BY <1>1, <1>3 DEF TasksOK

\* ... and one that leaves the tasks alone.
LEMMA TasksKept ==
    ASSUME TasksOK, UNCHANGED <<task, chain, active>>, rows \subseteq rows', due' \subseteq due
    PROVE  TasksOK'
<1>1. \A u \in Tasks : Owed(task[u], chain, rows', active, due')
  BY OwedLess DEF TasksOK
<1> QED  BY <1>1 DEF TasksOK

\* A step that saves no cursor leaves the debts in order.
LEMMA DueKept ==
    ASSUME DueOK, UNCHANGED <<chain, active, lastSeen>>, rows \subseteq rows', due' \subseteq due
    PROVE  DueOK'
<1>1. \A i : ExplainedIn(i, chain, rows) => ExplainedIn(i, chain, rows')
  BY DEF ExplainedIn
<1> QED  BY <1>1 DEF DueOK

LEMMA BeginsOne ==
    ASSUME TasksOK, NEW s \in {"cursors", "backfill"}, Begins(s)
    PROVE  \E t \in Tasks : task' = [task EXCEPT ![t] = [step |-> s]]
<1>1. (CHOOSE t \in Free : TRUE) \in Free
  BY DEF Begins
<1> QED  BY <1>1 DEF Begins, Free

LEMMA BeginsKeeps ==
    ASSUME TasksOK, NEW s \in {"cursors", "backfill"}, Begins(s),
           UNCHANGED <<chain, active, rows, due>>
    PROVE  TasksOK'
<1>1. PICK t \in Tasks : task' = [task EXCEPT ![t] = [step |-> s]]
  BY BeginsOne
<1>2. TaskOK([step |-> s], chain) /\ Owed([step |-> s], chain, rows', active, due')
  BY ShortTasks, OwesNothing
<1> QED  BY <1>1, <1>2, TaskSet

LEMMA StartKeeps ==
    ASSUME LoopOK, NEW a \in Accounts, start(a), active' = a, ready' = TRUE
    PROVE  LoopOK'
<1>1. running' = TRUE /\ addr' = a /\ timer' = TRUE /\ orphans' = orphans /\ a # NoAccount
  BY MonitorAssumption DEF start
<1> QED  BY <1>1 DEF LoopOK

LEMMA StopKeeps ==
    ASSUME LoopOK, running' = FALSE, addr' = NoAccount, timer' = FALSE, orphans' \in Nat,
           UNCHANGED active, ready' \in BOOLEAN
    PROVE  LoopOK'
BY DEF LoopOK

LEMMA BecomesReadyKeeps == MonitorInv /\ BecomesReady => MonitorInv'
<1> SUFFICES ASSUME MonitorInv, BecomesReady PROVE MonitorInv'
  OBVIOUS
<1>1. UNCHANGED <<network, store, active, due>> /\ start(active) /\ ready' = TRUE
  BY DEF BecomesReady
<1>2. LoopOK'
  BY <1>1, StartKeeps DEF MonitorInv, LoopOK
<1>3. TasksOK'
  BY <1>1, BeginsKeeps DEF MonitorInv, start, network, store
<1>4. DueOK'
  BY <1>1, DueKept DEF MonitorInv, network, store
<1>5. GoesOn'
  BY <1>1 DEF GoesOn, start
<1> QED  BY <1>1, <1>2, <1>3, <1>4, <1>5 DEF MonitorInv, NetworkOK, StoreOK, network, store

LEMMA LeavesReadyKeeps == MonitorInv /\ LeavesReady => MonitorInv'
<1> SUFFICES ASSUME MonitorInv, LeavesReady PROVE MonitorInv'
  OBVIOUS
<1>1. UNCHANGED <<network, store, active, task, due>> /\ stop /\ ready' = FALSE
  BY DEF LeavesReady
<1>2. LoopOK'
  <2>1. orphans' \in Nat
    BY <1>1 DEF MonitorInv, LoopOK, stop
  <2> QED  BY <1>1, <2>1, StopKeeps DEF MonitorInv, stop
<1>3. TasksOK'
  BY <1>1, TasksKept DEF MonitorInv, network, store
<1>4. DueOK'
  BY <1>1, DueKept DEF MonitorInv, network, store
<1>5. GoesOn'
  BY <1>1 DEF GoesOn, stop
<1> QED  BY <1>1, <1>2, <1>3, <1>4, <1>5 DEF MonitorInv, NetworkOK, StoreOK, network, store

\* The switch forgives what is due, so no task owes anything to the new account.
LEMMA SwitchKeeps ==
    ASSUME MonitorInv, NEW a \in Accounts, switchAccount(a)
    PROVE  MonitorInv'
<1>1. UNCHANGED <<network, store, ready>> /\ active' = a /\ due' = {}
  BY DEF switchAccount
<1>2. CASE ready
  <2>1. start(a)
    BY <1>2 DEF switchAccount
  <2>0. ready' = TRUE
    BY <1>1, <1>2, Zenon DEF MonitorInv, LoopOK
  <2>2. LoopOK'
    BY <1>1, <2>0, <2>1, StartKeeps DEF MonitorInv
  <2>3. PICK t \in Tasks : task' = [task EXCEPT ![t] = [step |-> "backfill"]]
    BY <2>1, BeginsOne DEF MonitorInv, start
  <2> DEFINE k == [step |-> "backfill"]
  <2>4. \A ch, rs, b, d : TaskOK(k, ch) /\ Owed(k, ch, rs, b, d)
    BY ShortTasks, OwesNothing
  <2>5. task'[t] = k /\ task' = [u \in Tasks |-> task'[u]]
        /\ \A u \in Tasks : u # t => task'[u] = task[u]
    BY <2>3 DEF MonitorInv, TasksOK
  <2> HIDE DEF k
  <2>6. \A u \in Tasks : TaskOK(task'[u], chain) /\ Owed(task'[u], chain, rows, a, {})
    BY <2>4, <2>5, OwedNone DEF MonitorInv, TasksOK
  <2>7. TasksOK'
    BY <1>1, <2>5, <2>6 DEF TasksOK, network, store
  <2>8. GoesOn'
    BY <2>1 DEF GoesOn, start
  <2> QED  BY <1>1, <2>2, <2>7, <2>8 DEF MonitorInv, NetworkOK, StoreOK, DueOK, network, store
<1>3. CASE ~ready
  <2>1. UNCHANGED <<monitor, task>>
    BY <1>3 DEF switchAccount
  <2>2. TasksOK'
    BY <1>1, <2>1, OwedNone DEF MonitorInv, TasksOK, network, store
  <2>3. addr = NoAccount
    BY <1>3 DEF MonitorInv, LoopOK
  <2>4. LoopOK'
    BY <1>1, <2>1, <2>3 DEF MonitorInv, LoopOK, monitor
  <2>5. GoesOn'
    BY <2>1 DEF MonitorInv, GoesOn, monitor
  <2> QED  BY <1>1, <2>2, <2>4, <2>5 DEF MonitorInv, NetworkOK, StoreOK, DueOK, network, store
<1> QED  BY <1>2, <1>3

LEMMA DiesKeeps == MonitorInv /\ MonitorDies => MonitorInv'
<1> SUFFICES ASSUME MonitorInv, MonitorDies PROVE MonitorInv'
  OBVIOUS
<1>1. /\ UNCHANGED <<chain, store, active, due>> /\ unrecorded' = {} /\ ready' = FALSE
      /\ running' = FALSE /\ addr' = NoAccount /\ timer' = FALSE /\ orphans' = 0
      /\ task' = [t \in Tasks |-> NoTask]
  BY DEF MonitorDies
<1>2. LoopOK'
  BY <1>1, StopKeeps DEF MonitorInv
<1>3. TasksOK'
  BY <1>1, NoTaskOK DEF TasksOK
<1>4. DueOK'
  BY <1>1, DueKept DEF MonitorInv, store
<1>5. GoesOn'
  BY <1>1 DEF GoesOn
<1> QED  BY <1>1, <1>2, <1>3, <1>4, <1>5 DEF MonitorInv, NetworkOK, StoreOK, store

LEMMA TimerKeeps == MonitorInv /\ TimerFires => MonitorInv'
<1> SUFFICES ASSUME MonitorInv, TimerFires PROVE MonitorInv'
  OBVIOUS
<1>1. UNCHANGED <<network, store, wallet, running, addr, events, due>>
  BY DEF TimerFires
<1>2. PICK named \in BOOLEAN :
          /\ IF named THEN timer ELSE orphans > 0
          /\ timer' = (timer /\ ~named)
          /\ orphans' = IF named THEN orphans ELSE orphans - 1
  BY DEF TimerFires
<1>3. orphans' \in Nat
  BY <1>2 DEF MonitorInv, LoopOK
<1>4. timer' \in BOOLEAN
  BY <1>2, Zenon
<1>5. LoopOK'
  BY <1>1, <1>3, <1>4 DEF MonitorInv, LoopOK, wallet
<1>6. TasksOK'
  <2>1. CASE running
    <3>1. Begins("cursors")
      BY <2>1 DEF TimerFires
    <3> QED  BY <1>1, <3>1, BeginsKeeps DEF MonitorInv, network, store, wallet
  <2>2. CASE ~running
    <3>1. UNCHANGED task
      BY <2>2 DEF TimerFires
    <3> QED  BY <1>1, <3>1, TasksKept DEF MonitorInv, network, store, wallet
  <2> QED  BY <2>1, <2>2
<1>7. DueOK'
  BY <1>1, DueKept DEF MonitorInv, network, store, wallet
<1>8. GoesOn'
  <2>1. CASE running
    <3>1. PICK t \in Tasks : task' = [task EXCEPT ![t] = [step |-> "cursors"]]
      BY <2>1, BeginsOne DEF MonitorInv, TimerFires
    <3>2. task'[t] = [step |-> "cursors"]
      BY <3>1 DEF MonitorInv, TasksOK
    <3>3. Polling(task'[t])
      BY <3>2, ShortTasks DEF Polling
    <3> QED  BY <3>3 DEF GoesOn
  <2>2. CASE ~running
    BY <1>1, <2>2 DEF GoesOn
  <2> QED  BY <2>1, <2>2
<1> QED  BY <1>1, <1>5, <1>6, <1>7, <1>8 DEF MonitorInv, NetworkOK, StoreOK, network, store

--------------------------------------------------------------------------------
(* The steps of a task *)

LEMMA EndsLoop ==
    ASSUME LoopOK, NEW t \in Tasks, TaskEnds(t), UNCHANGED wallet
    PROVE  LoopOK'
<1>1. UNCHANGED <<running, addr, ready, active>>
  BY DEF TaskEnds, wallet
<1>2. timer' = timer \/ timer' = TRUE
  BY Zenon DEF TaskEnds, scheduleNext
<1>3. orphans' = orphans \/ orphans' = orphans + 1 \/ orphans' = orphans + 0
  BY DEF TaskEnds, scheduleNext
<1>4. timer' \in BOOLEAN
  BY <1>2, Zenon DEF LoopOK
<1>5. orphans' \in Nat
  BY <1>3 DEF LoopOK
<1> QED  BY <1>1, <1>4, <1>5 DEF LoopOK

LEMMA LoopKept ==
    ASSUME LoopOK, UNCHANGED <<wallet, monitor>>
    PROVE  LoopOK'
BY DEF LoopOK, wallet, monitor

LEMMA EndsTask ==
    ASSUME TasksOK, NEW t \in Tasks, TaskEnds(t), UNCHANGED <<chain, active>>,
           rows \subseteq rows', due' \subseteq due
    PROVE  TasksOK'
<1>1. task' = [task EXCEPT ![t] = NoTask]
  BY DEF TaskEnds, TaskMoves
<1> QED  BY <1>1, NoTaskOK, TaskSet

LEMMA EndsGoesOn ==
    ASSUME MonitorInv, NEW t \in Tasks, TaskEnds(t)
    PROVE  GoesOn'
<1>1. task' = [task EXCEPT ![t] = NoTask] /\ UNCHANGED running
  BY DEF TaskEnds, TaskMoves
<1>2. CASE task[t].step \in {"backfill", "latest"}
  <2>1. \A u \in Tasks : u # t => task'[u] = task[u]
    BY <1>1 DEF MonitorInv, TasksOK
  <2>2. ~Polling(task[t])
    BY <1>2 DEF Polling, ListSteps
  <2>3. UNCHANGED timer
    BY <1>2 DEF TaskEnds
  <2> QED  BY <1>1, <2>1, <2>2, <2>3 DEF MonitorInv, GoesOn
<1>3. CASE task[t].step \notin {"backfill", "latest"}
  BY <1>1, <1>3 DEF TaskEnds, scheduleNext, GoesOn
<1> QED  BY <1>2, <1>3

LEMMA MovesGoesOn ==
    ASSUME MonitorInv, NEW t \in Tasks, NEW k, TaskMoves(t, k), UNCHANGED monitor,
           Polling(task[t]) => Polling(k)
    PROVE  GoesOn'
<1>1. task'[t] = k /\ \A u \in Tasks : u # t => task'[u] = task[u]
  BY DEF MonitorInv, TasksOK, TaskMoves
<1>2. UNCHANGED <<running, timer>>
  BY DEF monitor
<1>3. \A u \in Tasks : Polling(task[u]) => Polling(task'[u])
  BY <1>1
<1> QED  BY <1>2, <1>3 DEF MonitorInv, GoesOn

\* A task that ends, and a step that neither saves a cursor nor writes a row.
LEMMA QuietEnd ==
    ASSUME MonitorInv, NEW t \in Tasks, TaskEnds(t), UNCHANGED <<network, store, wallet, due>>
    PROVE  MonitorInv'
<1>1. LoopOK'
  BY EndsLoop DEF MonitorInv
<1>2. TasksOK'
  BY EndsTask DEF MonitorInv, network, store, wallet
<1>3. DueOK'
  BY DueKept DEF MonitorInv, network, store, wallet
<1>4. GoesOn'
  BY EndsGoesOn
<1> QED  BY <1>1, <1>2, <1>3, <1>4 DEF MonitorInv, NetworkOK, StoreOK, network, store

\* ... and one that goes on.
LEMMA QuietMove ==
    ASSUME MonitorInv, NEW t \in Tasks, NEW k, TaskMoves(t, k),
           UNCHANGED <<network, store, wallet, monitor, due>>,
           TaskOK(k, chain), Owed(k, chain, rows, active, due), Polling(task[t]) => Polling(k)
    PROVE  MonitorInv'
<1>1. LoopOK'
  BY LoopKept DEF MonitorInv
<1>2. TasksOK'
  BY TaskSet DEF MonitorInv, TaskMoves, network, store, wallet
<1>3. DueOK'
  BY DueKept DEF MonitorInv, network, store, wallet
<1>4. GoesOn'
  BY MovesGoesOn
<1> QED  BY <1>1, <1>2, <1>3, <1>4 DEF MonitorInv, NetworkOK, StoreOK, network, store

LEMMA PollKeeps ==
    ASSUME MonitorInv, NEW t \in Tasks, pollOnce(t)
    PROVE  MonitorInv'
<1>1. UNCHANGED <<network, store, wallet, due>>
  BY DEF pollOnce
<1>2. CASE addr = NoAccount
  BY <1>1, <1>2, QuietEnd DEF pollOnce
<1>3. CASE addr # NoAccount
  <2> DEFINE k == [step |-> "page", addr |-> addr, cursor |-> lastSeen]
  <2>1. addr \in Accounts /\ lastSeen \in 0..Len(chain) /\ Len(chain) \in Nat
    BY <1>3 DEF MonitorInv, LoopOK, StoreOK, NetworkOK
  <2>2. k \in TaskType /\ k.step = "page" /\ k.addr = addr /\ k.cursor = lastSeen
    BY <2>1, ShortTasks
  <2>3. TaskMoves(t, k) /\ UNCHANGED monitor
    BY <1>3 DEF pollOnce
  <2> HIDE DEF k
  <2>4. TaskOK(k, chain) /\ Owed(k, chain, rows, active, due)
    BY <2>1, <2>2 DEF TaskOK, Owed, ListSteps, MonitorInv, DueOK
  <2> QED  BY <1>1, <2>2, <2>3, <2>4, QuietMove DEF Polling
<1> QED  BY <1>2, <1>3

\* With the page's first transaction a task becomes what it owes.
LEMMA Reconciles ==
    ASSUME MonitorInv, NEW t \in Tasks, task[t].step \in {"page"} \cup ListSteps,
           NEW left, left \subseteq OfIn(chain, task[t].addr), left # {}, Reconciling(t, left),
           NEW d, d \subseteq due,
           task[t].addr = active =>
               \A m \in left : \A j \in d :
                   j <= m => ExplainedIn(j, chain, rows) \/ j \in left
    PROVE  /\ UNCHANGED monitor
           /\ \E k : /\ TaskMoves(t, k) /\ TaskOK(k, chain)
                     /\ Owed(k, chain, rows, active, d) /\ Polling(k)
<1>1. PICK i \in left :
          /\ \A j \in left : i <= j
          /\ TaskMoves(t, [step |-> "list", addr |-> task[t].addr, tx |-> i,
                           rest |-> left \ {i}, account |-> addr])
  BY DEF Reconciling
<1> DEFINE a == task[t].addr
           r == left \ {i}
           k == [step |-> "list", addr |-> a, tx |-> i, rest |-> r, account |-> addr]
<1>2. a \in Accounts
  BY TaskShape DEF MonitorInv, TasksOK, TaskOK
<1>3. left \subseteq Nat
  <2>1. DOMAIN chain = 1..Len(chain) /\ Len(chain) \in Nat
    BY DEF MonitorInv, NetworkOK
  <2> QED  BY <2>1 DEF OfIn
<1>4. addr \in Watched
  BY DEF MonitorInv, LoopOK, Watched
<1>5. k \in TaskType /\ k.step = "list" /\ k.addr = a /\ k.tx = i /\ k.rest = r
  BY <1>2, <1>3, <1>4, ListTasks DEF ListSteps
<1>6. TaskMoves(t, k) /\ UNCHANGED monitor
  BY <1>1 DEF Reconciling
<1>7. r \cup {i} = left
  OBVIOUS
<1>8. \A m \in r : i < m
  BY <1>1, <1>3
<1>9. i \in OfIn(chain, a) /\ r \subseteq OfIn(chain, a)
  OBVIOUS
<1>10. a = active => \A m \in r \cup {i} : \A j \in d :
                         j <= m => ExplainedIn(j, chain, rows) \/ j \in r \cup {i}
  BY <1>7
<1> HIDE DEF k, r, a
<1>11. TaskOK(k, chain)
  BY <1>5, <1>8, <1>9 DEF TaskOK
<1>12. Owed(k, chain, rows, active, d)
  BY <1>5, <1>10 DEF Owed
<1>13. Polling(k)
  BY <1>5 DEF Polling, ListSteps
<1> QED  BY <1>6, <1>11, <1>12, <1>13

LEMMA PollPageKeeps ==
    ASSUME MonitorInv, NEW t \in Tasks, pollAccount(t)
    PROVE  MonitorInv'
<1> DEFINE left == {i \in Of(task[t].addr) : i > task[t].cursor}
<1>1. task[t].step = "page" /\ UNCHANGED <<network, store, wallet, due>> /\ Reconciling(t, left)
  BY DEF pollAccount
<1>2. left \subseteq OfIn(chain, task[t].addr)
  BY DEF Of, OfIn
<1>3. CASE left = {}
  BY <1>1, <1>3, QuietEnd DEF Reconciling
<1>4. CASE left # {}
  <2>1. TaskOK(task[t], chain) /\ Owed(task[t], chain, rows, active, due)
    BY DEF MonitorInv, TasksOK
  <2>2. task[t].cursor \in Nat
    BY <1>1, <2>1, TaskShape DEF TaskOK
  <2>3. ASSUME task[t].addr = active, NEW j \in due
        PROVE  ExplainedIn(j, chain, rows) \/ j \in left
    <3>1. j \in Of(active) /\ j \in Nat
      <4>1. DOMAIN chain = 1..Len(chain) /\ Len(chain) \in Nat
        BY DEF MonitorInv, NetworkOK
      <4> QED  BY <4>1 DEF MonitorInv, DueOK, Of, OfIn
    <3>2. CASE j <= task[t].cursor
      BY <1>1, <2>1, <2>3, <3>2 DEF Owed
    <3>3. CASE j > task[t].cursor
      BY <2>3, <3>1, <3>3
    <3> QED  BY <2>2, <3>1, <3>2, <3>3
  <2> HIDE DEF left
  <2>4. PICK k : /\ TaskMoves(t, k) /\ TaskOK(k, chain) /\ Owed(k, chain, rows, active, due)
                 /\ Polling(k)
    BY <1>1, <1>2, <1>4, <2>3, Reconciles
  <2>5. UNCHANGED monitor
    BY <1>1, <1>4 DEF Reconciling
  <2> QED  BY <1>1, <2>4, <2>5, QuietMove
<1> QED  BY <1>3, <1>4

LEMMA StepSet ==
    ASSUME NEW ch, NEW k, TaskOK(k, ch), k.step \in ListSteps, NEW s \in ListSteps,
           NEW rs, NEW a, NEW d, Owed(k, ch, rs, a, d),
           s = "bump" => ExplainedIn(k.tx, ch, rs)
    PROVE  /\ TaskOK([k EXCEPT !.step = s], ch) /\ Owed([k EXCEPT !.step = s], ch, rs, a, d)
           /\ Polling([k EXCEPT !.step = s])
<1> DEFINE n == [step |-> s, addr |-> k.addr, tx |-> k.tx, rest |-> k.rest,
                 account |-> k.account]
<1>1. k \in TaskType
  BY DEF TaskOK
<1>2. [k EXCEPT !.step = s] = n
  BY <1>1 DEF TaskType, ListSteps
<1>3. k.addr \in Accounts /\ k.tx \in Nat /\ k.rest \in SUBSET Nat /\ k.account \in Watched
  BY <1>1, TaskShape
<1>4. n \in TaskType /\ n.step = s /\ n.addr = k.addr /\ n.tx = k.tx /\ n.rest = k.rest
  BY <1>3, ListTasks
<1> HIDE DEF n
<1>5. TaskOK(n, ch)
  BY <1>4 DEF TaskOK, ListSteps
<1>6. Owed(n, ch, rs, a, d)
  BY <1>4 DEF Owed, ListSteps
<1>7. Polling(n)
  BY <1>4 DEF Polling
<1> QED  BY <1>2, <1>5, <1>6, <1>7

\* What is found in the history is explained.
LEMMA ReconcileKeeps ==
    ASSUME MonitorInv, NEW t \in Tasks, reconcileTransaction(t)
    PROVE  MonitorInv'
<1> DEFINE k == task[t]
           s == IF chain[k.tx].kind = "failed" THEN "record"
                ELSE IF <<k.account, k.tx>> \in rows THEN "bump" ELSE "alert"
<1>1. /\ k.step = "list" /\ UNCHANGED <<network, store, wallet, monitor, due>>
      /\ TaskMoves(t, [k EXCEPT !.step = s])
  BY DEF reconcileTransaction
<1>2. TaskOK(k, chain) /\ Owed(k, chain, rows, active, due)
  BY DEF MonitorInv, TasksOK
<1>3. k.account \in Watched
  BY <1>1, <1>2, TaskShape DEF TaskOK, ListSteps
<1>4. s = "bump" => ExplainedIn(k.tx, chain, rows)
  BY <1>3 DEF ExplainedIn
<1>5. s \in ListSteps /\ k.step \in ListSteps
  BY <1>1 DEF ListSteps
<1> HIDE DEF k, s
<1>6. /\ TaskOK([k EXCEPT !.step = s], chain) /\ Polling([k EXCEPT !.step = s])
      /\ Owed([k EXCEPT !.step = s], chain, rows, active, due)
  BY <1>2, <1>4, <1>5, StepSet
<1> QED  BY <1>1, <1>6, QuietMove

LEMMA AlertKeeps ==
    ASSUME MonitorInv, NEW t \in Tasks, appendAlert(t)
    PROVE  MonitorInv'
<1> DEFINE k == task[t]
<1>1. /\ k.step = "alert" /\ UNCHANGED <<network, rows, lastSeen, wallet, monitor, due>>
      /\ alerts' = alerts \cup {k.tx} /\ TaskMoves(t, [k EXCEPT !.step = "record"])
  BY DEF appendAlert
<1>2. TaskOK(k, chain) /\ Owed(k, chain, rows, active, due)
  BY DEF MonitorInv, TasksOK
<1>3. k.step \in ListSteps /\ "record" \in ListSteps
  BY <1>1 DEF ListSteps
<1>4. k.tx \in DOMAIN chain
  BY <1>2, <1>3 DEF TaskOK, OfIn
<1> HIDE DEF k
<1>5. /\ TaskOK([k EXCEPT !.step = "record"], chain) /\ Polling([k EXCEPT !.step = "record"])
      /\ Owed([k EXCEPT !.step = "record"], chain, rows, active, due)
  BY <1>2, <1>3, StepSet
<1>6. TasksOK'
  BY <1>1, <1>5, TaskSet DEF MonitorInv, TaskMoves, network, wallet
<1>7. DueOK'
  BY <1>1, DueKept DEF MonitorInv, network, wallet
<1>8. LoopOK'
  BY <1>1, LoopKept DEF MonitorInv
<1>9. GoesOn'
  BY <1>1, <1>5, MovesGoesOn
<1> QED  BY <1>1, <1>4, <1>6, <1>7, <1>8, <1>9 DEF MonitorInv, NetworkOK, StoreOK, network

\* A row explains the transaction the task is at.
LEMMA HistoryKeeps ==
    ASSUME MonitorInv, NEW t \in Tasks, appendHistory(t)
    PROVE  MonitorInv'
<1> DEFINE k == task[t]
<1>1. /\ k.step = "record" /\ UNCHANGED <<network, alerts, lastSeen, wallet, monitor, due>>
      /\ rows' = rows \cup {<<k.account, k.tx>>} /\ TaskMoves(t, [k EXCEPT !.step = "bump"])
  BY DEF appendHistory
<1>2. TaskOK(k, chain) /\ Owed(k, chain, rows, active, due)
  BY DEF MonitorInv, TasksOK
<1>3. k.step \in ListSteps /\ "bump" \in ListSteps
  BY <1>1 DEF ListSteps
<1>4. k.tx \in DOMAIN chain /\ k.account \in Watched
  BY <1>2, <1>3, TaskShape DEF TaskOK, OfIn
<1> HIDE DEF k
<1>5. ExplainedIn(k.tx, chain, rows') /\ rows \subseteq rows'
  BY <1>1, <1>4 DEF ExplainedIn
<1>6. Owed(k, chain, rows', active, due)
  BY <1>2, <1>5, OwedLess
<1>7. /\ TaskOK([k EXCEPT !.step = "bump"], chain) /\ Polling([k EXCEPT !.step = "bump"])
      /\ Owed([k EXCEPT !.step = "bump"], chain, rows', active, due)
  BY <1>2, <1>3, <1>5, <1>6, StepSet
<1>8. TasksOK'
  BY <1>1, <1>5, <1>7, TaskSet DEF MonitorInv, TaskMoves, network, wallet
<1>9. DueOK'
  BY <1>1, <1>5, DueKept DEF MonitorInv, network, wallet
<1>10. LoopOK'
  BY <1>1, LoopKept DEF MonitorInv
<1>11. rows' \subseteq Watched \X DOMAIN chain
  BY <1>1, <1>4 DEF MonitorInv, StoreOK
<1>12. GoesOn'
  BY <1>1, <1>7, MovesGoesOn
<1> QED  BY <1>1, <1>8, <1>9, <1>10, <1>11, <1>12 DEF MonitorInv, NetworkOK, StoreOK, network

\* The saved cursor is the transaction the task is at; a poll of another account than
\* the watched one forgives what is due.
LEMMA BumpKeeps ==
    ASSUME MonitorInv, NEW t \in Tasks, bumpLastSeen(t)
    PROVE  MonitorInv'
<1> DEFINE k == task[t]
<1>1. /\ k.step = "bump" /\ UNCHANGED <<network, rows, alerts, wallet>>
      /\ lastSeen' = k.tx /\ Reconciling(t, k.rest)
      /\ due' = IF k.addr # addr THEN {} ELSE due
  BY DEF bumpLastSeen
<1>2. TaskOK(k, chain) /\ Owed(k, chain, rows, active, due)
  BY DEF MonitorInv, TasksOK
<1>3. k.step \in ListSteps /\ k.step # "page"
  BY <1>1 DEF ListSteps
<1>4. k.tx \in OfIn(chain, k.addr) /\ k.rest \subseteq OfIn(chain, k.addr) /\ k.addr \in Accounts
      /\ \A m \in k.rest : k.tx < m
  BY <1>2, <1>3, TaskShape DEF TaskOK
<1>5. DOMAIN chain = 1..Len(chain) /\ Len(chain) \in Nat
  BY DEF MonitorInv, NetworkOK
<1>6. k.tx \in 0..Len(chain) /\ k.rest \subseteq Nat
  BY <1>4, <1>5 DEF OfIn
<1>7. due' # {} => due' = due /\ k.addr = active
  BY <1>1, <1>4, MonitorAssumption DEF MonitorInv, LoopOK
<1>8. due' \subseteq due
  BY <1>7
<1>9. ExplainedIn(k.tx, chain, rows)
  BY <1>1, <1>2 DEF Owed
<1> HIDE DEF k
<1>10. ASSUME NEW j \in due', NEW m \in k.rest \cup {k.tx}, j <= m
       PROVE  ExplainedIn(j, chain, rows) \/ j \in k.rest
  BY <1>2, <1>3, <1>7, <1>9, <1>10 DEF Owed
<1>11. DueOK'
  <2>1. ASSUME NEW j \in due', j <= k.tx PROVE ExplainedIn(j, chain, rows)
    <3>1. j \notin k.rest
      BY <1>4, <1>6, <2>1
    <3> QED  BY <1>10, <2>1, <3>1
  <2>2. due' \subseteq OfIn(chain, active)
    BY <1>8 DEF MonitorInv, DueOK
  <2> QED  BY <1>1, <2>1, <2>2 DEF DueOK, network, wallet
<1>12. StoreOK' /\ NetworkOK'
  BY <1>1, <1>6 DEF MonitorInv, StoreOK, NetworkOK, network
<1>13. CASE k.rest = {}
  <2>1. TaskEnds(t)
    BY <1>1, <1>13 DEF Reconciling
  <2>2. LoopOK'
    BY <1>1, <2>1, EndsLoop DEF MonitorInv
  <2>3. TasksOK'
    BY <1>1, <1>8, <2>1, EndsTask DEF MonitorInv, network, wallet
  <2> QED  BY <1>11, <1>12, <2>1, <2>2, <2>3, EndsGoesOn DEF MonitorInv
<1>14. CASE k.rest # {}
  <2>1. /\ UNCHANGED monitor
        /\ \E n : /\ TaskMoves(t, n) /\ TaskOK(n, chain) /\ Polling(n)
                  /\ Owed(n, chain, rows, active, due')
    <3>1. PICK d : d = due'
      OBVIOUS
    <3>2. \A m \in k.rest : \A j \in d : j <= m => ExplainedIn(j, chain, rows) \/ j \in k.rest
      BY <1>10, <3>1
    <3>3. /\ UNCHANGED monitor
          /\ \E n : /\ TaskMoves(t, n) /\ TaskOK(n, chain) /\ Polling(n)
                    /\ Owed(n, chain, rows, active, d)
      BY <1>1, <1>3, <1>4, <1>8, <1>14, <3>1, <3>2, Reconciles DEF k
    <3> QED  BY <3>1, <3>3
  <2>2. LoopOK'
    BY <1>1, <2>1, LoopKept DEF MonitorInv
  <2>3. PICK n : /\ TaskMoves(t, n) /\ TaskOK(n, chain) /\ Polling(n)
                 /\ Owed(n, chain, rows, active, due')
    BY <2>1
  <2>4. TasksOK'
    BY <1>1, <1>8, <2>3, TaskSet DEF MonitorInv, TaskMoves, network, wallet
  <2>5. GoesOn'
    BY <2>1, <2>3, MovesGoesOn
  <2> QED  BY <1>11, <1>12, <2>2, <2>4, <2>5 DEF MonitorInv
<1> QED  BY <1>13, <1>14

LEMMA BackfillKeeps ==
    ASSUME MonitorInv, NEW t \in Tasks, backfill(t)
    PROVE  MonitorInv'
<1>1. UNCHANGED <<network, store, wallet, due>>
  BY DEF backfill
<1>2. CASE lastSeen # 0 \/ addr = NoAccount
  BY <1>1, <1>2, QuietEnd DEF backfill
<1>3. CASE ~(lastSeen # 0 \/ addr = NoAccount)
  <2> DEFINE k == [step |-> "latest", addr |-> addr]
  <2>1. addr \in Accounts
    BY <1>3 DEF MonitorInv, LoopOK
  <2>2. TaskMoves(t, k) /\ UNCHANGED monitor
    BY <1>3 DEF backfill
  <2>3. k \in TaskType /\ k.step = "latest"
    BY <2>1, ShortTasks
  <2> HIDE DEF k
  <2>4. TaskOK(k, chain) /\ Owed(k, chain, rows, active, due)
    BY <2>3, OwesNothing
  <2>5. ~Polling(task[t])
    BY DEF backfill, Polling, ListSteps
  <2> QED  BY <1>1, <2>2, <2>4, <2>5, QuietMove
<1> QED  BY <1>2, <1>3

\* The first cursor forgives what is before it.
LEMMA BootstrapKeeps ==
    ASSUME MonitorInv, NEW t \in Tasks, Bootstrapped(t)
    PROVE  MonitorInv'
<1>1. UNCHANGED <<network, rows, alerts, wallet>> /\ TaskEnds(t)
  BY DEF Bootstrapped
<1>2. \/ UNCHANGED <<lastSeen, due>>
      \/ \E i \in Of(task[t].addr) : lastSeen' = i /\ due' = due \ (1..i)
  BY DEF Bootstrapped
<1>3. due' \subseteq due
  BY <1>2
<1>4. LoopOK' /\ NetworkOK'
  BY <1>1, EndsLoop DEF MonitorInv, NetworkOK, network
<1>5. TasksOK'
  BY <1>1, <1>3, EndsTask DEF MonitorInv, network, wallet
<1>6. DOMAIN chain = 1..Len(chain) /\ Len(chain) \in Nat
  BY DEF MonitorInv, NetworkOK
<1>7. GoesOn'
  BY <1>1, EndsGoesOn
<1>8. CASE UNCHANGED <<lastSeen, due>>
  BY <1>1, <1>4, <1>5, <1>7, <1>8, DueKept DEF MonitorInv, StoreOK, network, wallet
<1>9. CASE \E i \in Of(task[t].addr) : lastSeen' = i /\ due' = due \ (1..i)
  <2>1. PICK i \in 1..Len(chain) : lastSeen' = i /\ due' = due \ (1..i)
    BY <1>6, <1>9 DEF Of
  <2>2. StoreOK'
    BY <1>1, <1>6, <2>1 DEF MonitorInv, StoreOK, network
  <2>3. due \subseteq 1..Len(chain)
    BY <1>6 DEF MonitorInv, DueOK, OfIn
  <2>4. \A j \in due' : ~(j <= lastSeen')
    BY <1>6, <2>1, <2>3
  <2>5. DueOK'
    BY <1>1, <1>3, <2>4 DEF MonitorInv, DueOK, network, wallet
  <2> QED  BY <1>4, <1>5, <1>7, <2>2, <2>5 DEF MonitorInv
<1> QED  BY <1>2, <1>8, <1>9

LEMMA FailsKeeps ==
    ASSUME MonitorInv, NEW t \in Tasks, Fails(t)
    PROVE  MonitorInv'
BY QuietEnd DEF Fails

--------------------------------------------------------------------------------
(* The network and the wallet's own transactions *)

LEMMA ConfirmedKeeps ==
    ASSUME MonitorInv, NEW a \in Accounts, NEW kind \in Kinds, Confirmed(a, kind)
    PROVE  MonitorInv'
<1> DEFINE e == [account |-> a, kind |-> kind]
           new == Len(chain) + 1
<1>1. /\ chain' = Append(chain, e) /\ UNCHANGED <<store, wallet, monitor, task, events>>
      /\ unrecorded' = (IF kind = "own" THEN unrecorded \cup {Len(chain')} ELSE unrecorded)
      /\ due' = (IF a = active THEN due \cup {Len(chain')} ELSE due)
  BY DEF Confirmed
<1>2. e \in [account : Accounts, kind : Kinds] /\ e.account = a
  OBVIOUS
<1>3. chain \in Seq([account : Accounts, kind : Kinds])
  BY DEF MonitorInv, NetworkOK
<1>4. /\ chain' \in Seq([account : Accounts, kind : Kinds])
      /\ Len(chain) \in Nat /\ Len(chain') = new
      /\ DOMAIN chain = 1..Len(chain) /\ DOMAIN chain' = DOMAIN chain \cup {new}
      /\ \A i \in DOMAIN chain : chain'[i] = chain[i]
      /\ chain'[new].account = a /\ new \notin DOMAIN chain
  BY <1>1, <1>2, <1>3, Longer
<1> HIDE DEF e
<1>5. UNCHANGED <<rows, alerts, lastSeen, ready, active>>
  BY <1>1 DEF store, wallet
<1>6. NetworkOK'
  BY <1>1, <1>4 DEF MonitorInv, NetworkOK
<1>7. StoreOK'
  <2>1. 0..Len(chain) \subseteq 0..Len(chain')
    BY <1>4
  <2> QED  BY <1>4, <1>5, <2>1 DEF MonitorInv, StoreOK
<1>8. LoopOK'
  BY <1>1, LoopKept DEF MonitorInv
<1>9. due' \subseteq due \cup {new} /\ due \subseteq DOMAIN chain
  BY <1>1, <1>4 DEF MonitorInv, DueOK, OfIn
<1>10. DueOK'
  <2>1. due' \subseteq OfIn(chain', active)
    BY <1>1, <1>4 DEF MonitorInv, DueOK, OfIn
  <2>2. ASSUME NEW j \in due', j <= lastSeen PROVE ExplainedIn(j, chain', rows)
    <3>1. lastSeen \in 0..Len(chain)
      BY DEF MonitorInv, StoreOK
    <3>2. j \in due
      BY <1>4, <1>9, <2>2, <3>1
    <3>3. j \in DOMAIN chain /\ ExplainedIn(j, chain, rows)
      BY <1>9, <2>2, <3>2 DEF MonitorInv, DueOK
    <3> QED  BY <1>4, <3>3 DEF ExplainedIn
  <2> QED  BY <1>5, <2>1, <2>2 DEF DueOK
<1>11. TasksOK'
  <2>1. PICK d : d = due'
    OBVIOUS
  <2> HIDE DEF new
  <2>2. d \subseteq due \cup {Len(chain) + 1}
    BY <1>9, <2>1 DEF new
  <2>3. \A t \in Tasks : /\ TaskOK(task[t], Append(chain, e))
                         /\ Owed(task[t], Append(chain, e), rows, active, d)
    BY <1>2, <1>3, <1>9, <2>2, TaskLonger DEF MonitorInv, TasksOK, e
  <2> QED  BY <1>1, <1>5, <2>1, <2>3 DEF MonitorInv, TasksOK
<1>12. GoesOn'
  BY <1>1 DEF MonitorInv, GoesOn, monitor
<1> QED  BY <1>6, <1>7, <1>8, <1>10, <1>11, <1>12 DEF MonitorInv

LEMMA RecordedKeeps ==
    ASSUME MonitorInv, NEW i \in unrecorded, recordOwnTransaction(i)
    PROVE  MonitorInv'
<1>1. /\ unrecorded' = unrecorded \ {i} /\ rows' \in {rows, rows \cup {<<active, i>>}}
      /\ UNCHANGED <<chain, alerts, lastSeen, wallet, monitor, task, due>>
  BY DEF recordOwnTransaction
<1>2. i \in DOMAIN chain /\ active \in Watched
  BY DEF MonitorInv, NetworkOK, LoopOK, Watched
<1>3. rows \subseteq rows' /\ rows' \subseteq Watched \X DOMAIN chain
  BY <1>1, <1>2 DEF MonitorInv, StoreOK
<1>4. TasksOK'
  BY <1>1, <1>3, TasksKept DEF MonitorInv, wallet
<1>5. DueOK'
  BY <1>1, <1>3, DueKept DEF MonitorInv, wallet
<1>6. LoopOK'
  BY <1>1, LoopKept DEF MonitorInv
<1>7. GoesOn'
  BY <1>1 DEF MonitorInv, GoesOn, monitor
<1> QED  BY <1>1, <1>3, <1>4, <1>5, <1>6, <1>7 DEF MonitorInv, NetworkOK, StoreOK

--------------------------------------------------------------------------------
LEMMA MonitorStep == MonitorInv /\ [MonitorNext]_monitorVars => MonitorInv'
<1> SUFFICES ASSUME MonitorInv, [MonitorNext]_monitorVars PROVE MonitorInv'
  OBVIOUS
<1>1. ASSUME NEW t \in Tasks, Works(t) PROVE MonitorInv'
  BY <1>1, PollKeeps, PollPageKeeps, ReconcileKeeps, AlertKeeps, HistoryKeeps, BumpKeeps,
     BackfillKeeps, BootstrapKeeps DEF Works
<1>2. ASSUME NEW t \in Tasks, Fails(t) PROVE MonitorInv'
  BY <1>2, FailsKeeps
<1>3. CASE BecomesReady \/ LeavesReady \/ MonitorDies \/ TimerFires
  BY <1>3, BecomesReadyKeeps, LeavesReadyKeeps, DiesKeeps, TimerKeeps
<1>4. ASSUME NEW a \in Accounts, switchAccount(a) PROVE MonitorInv'
  BY <1>4, SwitchKeeps
<1>5. ASSUME NEW a \in Accounts, NEW kind \in Kinds, Confirmed(a, kind) PROVE MonitorInv'
  BY <1>5, ConfirmedKeeps
<1>6. ASSUME NEW i \in unrecorded, recordOwnTransaction(i) PROVE MonitorInv'
  BY <1>6, RecordedKeeps
<1>7. CASE UNCHANGED monitorVars
  <2>1. TasksOK' /\ DueOK'
    BY <1>7, TasksKept, DueKept DEF MonitorInv, monitorVars, network, store, wallet
  <2>2. LoopOK'
    BY <1>7, LoopKept DEF MonitorInv, monitorVars
  <2>3. GoesOn'
    BY <1>7 DEF MonitorInv, GoesOn, monitorVars, monitor
  <2> QED  BY <1>7, <2>1, <2>2, <2>3
             DEF MonitorInv, NetworkOK, StoreOK, monitorVars, network, store
<1> QED  BY <1>1, <1>2, <1>3, <1>4, <1>5, <1>6, <1>7 DEF MonitorNext

LEMMA MonitorInvariant == MonitorSpec => []MonitorInv
BY MonitorInitially, MonitorStep, PTL DEF MonitorSpec

\* Chain, history, cursor, loop and tasks are well typed, and the monitor runs exactly
\* while it has an account to watch (rpc/monitor.ts).
THEOREM MonitorTyped == MonitorSpec => []MonitorTypeOK
<1>1. MonitorInv => MonitorTypeOK
  <2> SUFFICES ASSUME MonitorInv PROVE MonitorTypeOK
    OBVIOUS
  <2>1. unrecorded \cup alerts \cup due \subseteq DOMAIN chain
    BY DEF MonitorInv, NetworkOK, StoreOK, DueOK, OfIn
  <2>2. \A t \in Tasks :
          /\ task[t].step \in Steps
          /\ task[t].step \in {"list", "alert", "record", "bump"} =>
                 task[t].rest \cup {task[t].tx} \subseteq Of(task[t].addr)
    BY TaskShape DEF MonitorInv, TasksOK, TaskOK, Of, OfIn, Steps, ListSteps
  <2>3. {ready, running, timer} \subseteq BOOLEAN
    <3>1. ready \in BOOLEAN /\ timer \in BOOLEAN /\ running \in BOOLEAN
      BY Zenon DEF MonitorInv, LoopOK
    <3> QED  BY <3>1, Zenon
  <2>4. /\ active \in Accounts /\ addr \in Accounts \cup {NoAccount}
        /\ running = (addr # NoAccount) /\ orphans \in Nat
    BY DEF MonitorInv, LoopOK
  <2>5. /\ chain \in Seq([account : Accounts, kind : Kinds])
        /\ rows \subseteq (Accounts \cup {NoAccount}) \X DOMAIN chain
        /\ lastSeen \in 0..Len(chain)
    BY DEF MonitorInv, NetworkOK, StoreOK, Watched
  <2> QED  BY <2>1, <2>2, <2>3, <2>4, <2>5 DEF MonitorTypeOK
<1> QED  BY <1>1, MonitorInvariant, PTL

\* The saved cursor passes no transaction of the watched account before it was
\* explained, whatever fails, stops or dies between the steps of however many polls
\* in flight; a switch of accounts forgives what was due (pollAccount, bumpLastSeen).
THEOREM CursorPassesNothing == MonitorSpec => []NothingSkipped
<1>1. MonitorInv => NothingSkipped
  BY DEF MonitorInv, DueOK, NothingSkipped, ExplainedIn, Explained, Watched
<1> QED  BY <1>1, MonitorInvariant, PTL

\* A monitor that runs has its next poll to come: a timer ticks or a poll in flight
\* schedules the next, for any number of stops, starts and failures around any number
\* of polls in flight; what DriftIsNoticed needs besides fairness (scheduleNext).
THEOREM NextPollToCome == MonitorSpec => []LoopGoesOn
<1>1. MonitorInv => LoopGoesOn
  BY DEF MonitorInv, GoesOn, LoopGoesOn, Polling, ListSteps, Steps
<1> QED  BY <1>1, MonitorInvariant, PTL
================================================================================
