-------------------------------- MODULE SignFlow --------------------------------
(***************************************************************************)
(* What the worker lets its surroundings see of its requests: the phase    *)
(* every surface shows and where each request of a dApp is.  WalletSession *)
(* implements it; Surfaces composes it with the popup window and the page. *)
(* Nothing is said here of seeds, keys, accounts or the order of answers.  *)
(***************************************************************************)
CONSTANTS Requests   \* bound: requests dApps send, each once

VARIABLES
    phase,   \* WalletState.phase
    at       \* where each request is

flow == <<phase, at>>

Phases == {"uninitialized", "locked", "ready", "signing"}

\* "busy": between two awaits of its handler; "dropped": taken and never answered.
Places == {"idle", "busy", "waiting", "queued", "performing", "answered", "dropped", "lost"}

Queue(places) == {r \in Requests : places[r] = "queued"}

FlowInit == phase = "uninitialized" /\ at = [r \in Requests |-> "idle"]

--------------------------------------------------------------------------------
\* dispatch: unless the new phase is "locked", those that wait for an unlock go on
\* or are refused, and the ones that enqueue themselves start the sign flow.
Dispatch(p, places) ==
    LET woken == IF p = "locked" THEN {} ELSE {r \in Requests : places[r] = "waiting"}
    IN  \E signers \in SUBSET woken :
          /\ p = "uninitialized" => signers = {}
          /\ phase' = IF signers # {} THEN "signing" ELSE p
          /\ at' = [r \in Requests |->
                       IF r \in signers THEN "queued"
                       ELSE IF r \in woken
                       THEN IF p = "uninitialized" THEN "answered" ELSE "busy"
                       ELSE places[r]]

Moves(r, from, to) ==
    /\ at[r] \in from
    /\ at' = [at EXCEPT ![r] = to]
    /\ UNCHANGED phase

Continues(r) == Moves(r, {"idle", "busy"}, "busy")

WaitsForUnlock(r) == phase = "locked" /\ Moves(r, {"idle", "busy"}, "waiting")

Enqueues(r) ==
    /\ at[r] \in {"idle", "busy"}
    /\ Dispatch("signing", [at EXCEPT ![r] = "queued"])

AnsweredAtOnce(r) == Moves(r, {"idle", "busy", "waiting"}, "answered")

\* tx.sign takes the request before anything else.
Taken(r) == Moves(r, {"queued"}, "performing") \/ Moves(r, {"queued"}, "dropped")

\* The user's decision; the last of the queue ends the flow.
Ends(r) == Queue(at) \subseteq {r}
Decided(r) ==
    /\ at[r] \in {"queued", "performing"}
    /\ IF Ends(r)
       THEN Dispatch("ready", [at EXCEPT ![r] = "answered"])
       ELSE Moves(r, {at[r]}, "answered")

\* A lock, an unlock, a creation or a reset, whatever is queued.
Interrupted == \E p \in {"locked", "ready", "uninitialized"} : Dispatch(p, at)

\* bootstrap replaces the state and tells no listener.
Rehydrated == phase' \in {"locked", "uninitialized"} /\ UNCHANGED at

WorkerDies ==
    /\ phase' = "uninitialized"
    /\ at' = [r \in Requests |->
                 IF at[r] \in {"idle", "answered", "dropped"} THEN at[r] ELSE "lost"]

FlowNext ==
    \/ \E r \in Requests :
         \/ Continues(r) \/ WaitsForUnlock(r) \/ Enqueues(r) \/ AnsweredAtOnce(r)
         \/ Taken(r) \/ Decided(r)
    \/ Interrupted \/ Rehydrated \/ WorkerDies

FlowSpec == FlowInit /\ [][FlowNext]_flow
================================================================================
