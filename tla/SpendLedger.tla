------------------------------ MODULE SpendLedger ------------------------------
(***************************************************************************)
(* The rolling spend log both Soroban contracts keep per merchant: a list  *)
(* of (ledger timestamp, amount) pairs.  Ledger time never goes back and   *)
(* the contracts only append, so a log is modelled as a function from its  *)
(* timestamps to the amount recorded there.  Two payments of one second    *)
(* are one entry here; pruning and summing cannot tell the difference.     *)
(***************************************************************************)
EXTENDS Integers, FiniteSets

CONSTANT DAY_SECONDS     \* length of the trailing window

ASSUME DayAssumption == DAY_SECONDS \in Nat \ {0}

\* Every finite log with timestamps and amounts in Nat.
IsLedger(log) ==
    /\ IsFiniteSet(DOMAIN log)
    /\ DOMAIN log \subseteq Nat
    /\ log \in [DOMAIN log -> Nat]

EmptyLedger == [t \in {} |-> 0]

\* What was recorded at second t.
AmountAt(log, t) == IF t \in DOMAIN log THEN log[t] ELSE 0

\* The sum of the amounts recorded up to and including second n.
SumUpTo(log, n) ==
    LET sum[t \in 0..n] == AmountAt(log, t) + (IF t = 0 THEN 0 ELSE sum[t - 1])
    IN  sum[n]

\* The loop of prune_and_sum keeps an entry while now - ts < DAY_SECONDS ...
InWindow(log, now) == {t \in DOMAIN log : now - t < DAY_SECONDS}

Pruned(log, now) == [t \in InWindow(log, now) |-> log[t]]

\* ... and adds up what it keeps.
WindowSum(log, now) == SumUpTo(Pruned(log, now), now)

\* Vec::push_back of (t, amount).
Push(log, t, amount) ==
    [u \in DOMAIN log \cup {t} |->
        IF u = t THEN AmountAt(log, t) + amount ELSE log[u]]
================================================================================
