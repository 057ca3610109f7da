-------------------------------- MODULE Monitor --------------------------------
(***************************************************************************)
(* The post-sign monitor: while the wallet is ready it polls Horizon every *)
(* eight seconds for the transactions of the active account past a saved   *)
(* cursor, compares each with the local history, and raises a drift alert  *)
(* for one it cannot find there.                                           *)
(*                                                                         *)
(* stop() and restart() cut no poll short.  A poll reads the monitor's own *)
(* fields again after each await, so it may end on another account than it *)
(* began with.  A task is a poll or a backfill; an action is the code      *)
(* between two awaits.                                                     *)
(*                                                                         *)
(* Left out: the second scope (the smart wallet's address goes through the *)
(* same code), the page limit of 50 and the row limit of 200, the unread   *)
(* count and the notification.                                             *)
(***************************************************************************)
EXTENDS Integers, Sequences, FiniteSets

CONSTANTS
    Accounts,     \* authority addresses of the wallet's accounts
    Tasks,        \* bound: polls and backfills in flight at once
    MaxTx,        \* bound: transactions on the network
    MaxEvents     \* bound: starts, stops, switches, failures and deaths of the worker

NoAccount == "unknown"   \* authorityAddr is null

ASSUME MonitorAssumption ==
    /\ Accounts # {} /\ NoAccount \notin Accounts /\ Tasks # {} /\ IsFiniteSet(Tasks)
    /\ MaxTx \in Nat /\ MaxEvents \in Nat

VARIABLES
    chain,      \* transactions of the wallet's accounts, in paging order
    unrecorded, \* own transactions whose history entry is not written yet
    rows,       \* history: <<accountPubkey, transaction>>
    alerts,     \* transactions an alert was raised for
    lastSeen,   \* the saved cursor, 0 when there is none
    ready,      \* phase = "ready"
    active,     \* authorityAddress
    running,    \* Monitor.running
    addr,       \* Monitor.authorityAddr
    timer,      \* pollTimer is ticking
    orphans,    \* timers ticking that pollTimer no longer names
    task,       \* polls and backfills in flight
    events,     \* starts, stops, switches, failures and deaths so far
    due         \* history: transactions the monitor owes an answer

network == <<chain, unrecorded>>
store == <<rows, alerts, lastSeen>>
wallet == <<ready, active>>
monitor == <<running, addr, timer, orphans>>
monitorVars == <<network, store, wallet, monitor, task, events, due>>

NoTask == [step |-> "idle"]

\* A transaction fails, or the wallet submitted it, or somebody else did.
Kinds == {"failed", "own", "foreign"}

Of(a) == {i \in DOMAIN chain : chain[i].account = a}

\* The wallet was unlocked for the first time: start() has run.
MonitorInit ==
    /\ chain = <<>> /\ unrecorded = {}
    /\ rows = {} /\ alerts = {} /\ lastSeen = 0
    /\ ready = TRUE /\ active = CHOOSE a \in Accounts : TRUE   \* any of them: they are alike
    /\ running = TRUE /\ addr = active /\ timer = TRUE /\ orphans = 0
    /\ task = [t \in Tasks |->
                  IF t = CHOOSE u \in Tasks : TRUE THEN [step |-> "backfill"] ELSE NoTask]
    /\ events = 0
    /\ due = {}

--------------------------------------------------------------------------------
(* Starting and stopping *)

Free == {t \in Tasks : task[t] = NoTask}
Begins(step) == Free # {} /\ task' = [task EXCEPT ![CHOOSE t \in Free : TRUE] = [step |-> step]]

\* start() for account a, after a stop: the backfill and the first timer.
start(a) ==
    /\ running' = TRUE /\ addr' = a /\ timer' = TRUE
    /\ UNCHANGED orphans
    /\ Begins("backfill")

Counted == events < MaxEvents /\ events' = events + 1

\* Unlock, or the end of a sign flow: reachedReady.
BecomesReady ==
    /\ ~ready /\ ready' = TRUE
    /\ Counted
    /\ start(active)
    /\ UNCHANGED <<network, store, active, due>>

\* stop() clears the timer that pollTimer names.
stop ==
    /\ running' = FALSE /\ addr' = NoAccount /\ timer' = FALSE
    /\ UNCHANGED orphans

\* A lock, or the start of a sign flow: leftReady.
LeavesReady ==
    /\ ready /\ ready' = FALSE
    /\ Counted
    /\ stop
    /\ UNCHANGED <<network, store, active, task, due>>

\* A plausible bug, for a mutant: start() without stop(), which does nothing.
switchAccount_StartOnly(a) ==
    /\ a # active /\ active' = a
    /\ Counted
    /\ due' = {}
    /\ UNCHANGED <<network, store, ready, monitor, task>>

\* account.switched; while ready, restart().
switchAccount(a) ==
    /\ a # active /\ active' = a
    /\ Counted
    /\ IF ready THEN start(a) ELSE UNCHANGED <<monitor, task>>
    /\ due' = {}
    /\ UNCHANGED <<network, store, ready>>

\* The worker dies; it comes back locked.
MonitorDies ==
    /\ Counted
    /\ ready' = FALSE
    /\ running' = FALSE /\ addr' = NoAccount /\ timer' = FALSE /\ orphans' = 0
    /\ task' = [t \in Tasks |-> NoTask]
    /\ unrecorded' = {}
    /\ UNCHANGED <<chain, store, active, due>>

--------------------------------------------------------------------------------
(* A task *)

TaskMoves(t, record) == task' = [task EXCEPT ![t] = record]

\* scheduleNext at the end of a poll; a backfill has none.
scheduleNext ==
    IF running
    THEN /\ timer' = TRUE
         /\ orphans' = orphans + (IF timer THEN 1 ELSE 0)
    ELSE UNCHANGED <<timer, orphans>>

TaskEnds(t) ==
    /\ TaskMoves(t, NoTask)
    /\ IF task[t].step \in {"backfill", "latest"}
       THEN UNCHANGED <<timer, orphans>>
       ELSE scheduleNext
    /\ UNCHANGED <<running, addr>>

\* A timer fires; pollOnce does nothing once the monitor was stopped.
TimerFires ==
    /\ timer \/ orphans > 0
    /\ \E named \in BOOLEAN :
         /\ IF named THEN timer ELSE orphans > 0
         /\ timer' = (timer /\ ~named)
         /\ orphans' = IF named THEN orphans ELSE orphans - 1
    /\ IF running
       THEN Begins("cursors")
       ELSE UNCHANGED task
    /\ UNCHANGED <<network, store, wallet, running, addr, events, due>>

\* readLastSeen, then the request for the account that is watched by now.
pollOnce(t) ==
    /\ task[t].step = "cursors"
    /\ IF addr = NoAccount
       THEN TaskEnds(t)
       ELSE /\ TaskMoves(t, [step |-> "page", addr |-> addr, cursor |-> lastSeen])
            /\ UNCHANGED monitor
    /\ UNCHANGED <<network, store, wallet, events, due>>

\* The transactions of a page left to reconcile, in paging order: with the first,
\* the account to look under is read from the monitor.
Reconciling(t, left) ==
    IF left = {}
    THEN TaskEnds(t)
    ELSE /\ \E i \in left :
              /\ \A j \in left : i <= j
              /\ TaskMoves(t, [step |-> "list", addr |-> task[t].addr, tx |-> i,
                               rest |-> left \ {i}, account |-> addr])
         /\ UNCHANGED monitor

pollAccount(t) ==
    /\ task[t].step = "page"
    /\ Reconciling(t, {i \in Of(task[t].addr) : i > task[t].cursor})
    /\ UNCHANGED <<network, store, wallet, events, due>>

\* A failed transaction is only recorded; one found in the history is passed over.
reconcileTransaction(t) ==
    /\ task[t].step = "list"
    /\ LET i == task[t].tx
       IN  TaskMoves(t, [task[t] EXCEPT !.step =
                        IF chain[i].kind = "failed" THEN "record"
                        ELSE IF <<task[t].account, i>> \in rows THEN "bump" ELSE "alert"])
    /\ UNCHANGED <<network, store, wallet, monitor, events, due>>

appendAlert(t) ==
    /\ task[t].step = "alert"
    /\ alerts' = alerts \cup {task[t].tx}
    /\ TaskMoves(t, [task[t] EXCEPT !.step = "record"])
    /\ UNCHANGED <<network, rows, lastSeen, wallet, monitor, events, due>>

appendHistory(t) ==
    /\ task[t].step = "record"
    /\ rows' = rows \cup {<<task[t].account, task[t].tx>>}
    /\ TaskMoves(t, [task[t] EXCEPT !.step = "bump"])
    /\ UNCHANGED <<network, alerts, lastSeen, wallet, monitor, events, due>>

\* A plausible bug, for a mutant: the cursor of the page instead of the transaction.
bumpLastSeen_Page(t) ==
    /\ task[t].step = "bump"
    /\ \E i \in task[t].rest \cup {task[t].tx} :
         (\A j \in task[t].rest : j <= i) /\ lastSeen' = i
    /\ Reconciling(t, task[t].rest)
    /\ due' = IF task[t].addr # addr THEN {} ELSE due
    /\ UNCHANGED <<network, rows, alerts, wallet, events>>

\* The cursor is one for all accounts: a poll that began before a switch saves a
\* position beyond what the account watched by now may have been looked at.
bumpLastSeen(t) ==
    /\ task[t].step = "bump"
    /\ lastSeen' = task[t].tx
    /\ Reconciling(t, task[t].rest)
    /\ due' = IF task[t].addr # addr THEN {} ELSE due
    /\ UNCHANGED <<network, rows, alerts, wallet, events>>

\* The backfill looks for a cursor, and asks for the latest transaction without one.
backfill(t) ==
    /\ task[t].step = "backfill"
    /\ IF lastSeen # 0 \/ addr = NoAccount
       THEN TaskEnds(t)
       ELSE TaskMoves(t, [step |-> "latest", addr |-> addr]) /\ UNCHANGED monitor
    /\ UNCHANGED <<network, store, wallet, events, due>>

\* What is before the first cursor is not looked at.
Bootstrapped(t) ==
    /\ task[t].step = "latest"
    /\ IF Of(task[t].addr) = {}
       THEN UNCHANGED <<lastSeen, due>>
       ELSE \E i \in Of(task[t].addr) :
              /\ \A j \in Of(task[t].addr) : j <= i
              /\ lastSeen' = i
              /\ due' = due \ (1..i)
    /\ TaskEnds(t)
    /\ UNCHANGED <<network, rows, alerts, wallet, events>>

\* Horizon or the database fails; pollAccount and backfill catch it.
Fails(t) ==
    /\ task[t].step \in {"page", "latest", "list", "alert", "record", "bump"}
    /\ Counted
    /\ TaskEnds(t)
    /\ UNCHANGED <<network, store, wallet, due>>

--------------------------------------------------------------------------------
(* The network and the wallet's own transactions *)

\* A transaction is confirmed; the active account is owed an answer.
Confirmed(a, k) ==
    /\ Len(chain) < MaxTx
    /\ chain' = Append(chain, [account |-> a, kind |-> k])
    /\ unrecorded' = IF k = "own" THEN unrecorded \cup {Len(chain')} ELSE unrecorded
    /\ due' = IF a = active THEN due \cup {Len(chain')} ELSE due
    /\ UNCHANGED <<store, wallet, monitor, task, events>>

\* Horizon has confirmed a transfer; its entry goes to the account active by now,
\* or is not written at all.
recordOwnTransaction(i) ==
    /\ i \in unrecorded
    /\ unrecorded' = unrecorded \ {i}
    /\ rows' \in {rows, rows \cup {<<active, i>>}}
    /\ UNCHANGED <<chain, alerts, lastSeen, wallet, monitor, task, events, due>>

--------------------------------------------------------------------------------
Works(t) ==
    \/ pollOnce(t) \/ pollAccount(t) \/ reconcileTransaction(t) \/ appendAlert(t)
    \/ appendHistory(t) \/ bumpLastSeen(t) \/ backfill(t) \/ Bootstrapped(t)

MonitorNext ==
    \/ BecomesReady \/ LeavesReady \/ MonitorDies
    \/ \E a \in Accounts : switchAccount(a)
    \/ TimerFires
    \/ \E t \in Tasks : Works(t) \/ Fails(t)
    \/ \E a \in Accounts : \E k \in Kinds : Confirmed(a, k) /\ (k = "own" => a = active)
    \/ \E i \in unrecorded : recordOwnTransaction(i)

MonitorSpec == MonitorInit /\ [][MonitorNext]_monitorVars

\* Timers fire and every await of a task ends.
FairSpec == MonitorSpec /\ WF_monitorVars(TimerFires) /\ \A t \in Tasks : WF_monitorVars(Works(t))

--------------------------------------------------------------------------------
(* Properties *)

Steps == {"idle", "cursors", "page", "list", "alert", "record", "bump", "backfill", "latest"}

\* Types: the tasks and their pages, timers, rows and alerts of known transactions.
MonitorTypeOK ==
    /\ chain \in Seq([account : Accounts, kind : Kinds])
    /\ unrecorded \cup alerts \cup due \subseteq DOMAIN chain
    /\ rows \subseteq (Accounts \cup {NoAccount}) \X DOMAIN chain
    /\ lastSeen \in 0..Len(chain)
    /\ active \in Accounts /\ addr \in Accounts \cup {NoAccount}
    /\ {ready, running, timer} \subseteq BOOLEAN /\ running = (addr # NoAccount)
    /\ orphans \in Nat
    /\ \A t \in Tasks :
         /\ task[t].step \in Steps
         /\ task[t].step \in {"list", "alert", "record", "bump"} =>
                task[t].rest \cup {task[t].tx} \subseteq Of(task[t].addr)

Explained(i) == chain[i].kind = "failed" \/ \E a \in Accounts \cup {NoAccount} : <<a, i>> \in rows

\* The saved cursor never passes a transaction the monitor has not answered,
\* whatever fails or dies between the steps; only a switch of accounts, or a poll
\* left over from before one, loses any (pollAccount: reconcile, then bump).
NothingSkipped == \A i \in due : i <= lastSeen => Explained(i)

\* A monitor that runs has its next poll to come: its timer ticks, or a poll is in
\* flight, which schedules the next when it ends, however often the monitor was stopped
\* and started around it (scheduleNext).
LoopGoesOn ==
    running => timer \/ \E t \in Tasks : task[t].step \in Steps \ {"idle", "backfill", "latest"}

\* While the wallet stays ready on an account, every transaction confirmed on it is
\* found in the end: however often the monitor was stopped and started, and
\* whatever of a poll failed, a loop is left running.
DriftIsNoticed == <>[]ready => []<>(\A i \in due : Explained(i))
================================================================================
