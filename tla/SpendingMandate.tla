---------------------------- MODULE SpendingMandate ----------------------------
(***************************************************************************)
(* What an on-chain spending mandate promises, whatever bookkeeping backs  *)
(* it: a party (a merchant, or a merchant of a wallet) that holds a live   *)
(* mandate may be paid, and the payments really made under one grant in    *)
(* any trailing DAY_SECONDS never exceed cap_per_day.  The history here is *)
(* exact: it keeps every payment since the grant, never merged or pruned.  *)
(* MerchantSpendPolicy is shown to implement it.                           *)
(***************************************************************************)
EXTENDS SpendLedger

CONSTANTS
    Parties,           \* who can be granted a mandate
    Caps,              \* the cap values a grant may carry
    Amounts,           \* the amounts a payment may ask for
    Mandates,          \* the lifetimes a grant may carry, in seconds
    MaxTime,           \* bound: the clock stops here
    RevocationIsFinal  \* TRUE where a revoked mandate cannot be resumed

VARIABLES
    now,       \* ledger timestamp
    mandate,   \* party -> caps, status and expiry, for the parties granted one
    paid       \* party -> every payment made under the current grant

mvars == <<now, mandate, paid>>

Statuses == {"Active", "Paused", "Revoked"}

MandateInit ==
    /\ now = 0
    /\ mandate = [p \in {} |-> {}]
    /\ paid = [p \in Parties |-> EmptyLedger]

\* The owner grants or renews: caps, lifetime and the window start afresh.
Grant(p, capTx, capDay, lifetime) ==
    /\ mandate' = [q \in DOMAIN mandate \cup {p} |->
                     IF q = p THEN [cap_per_tx |-> capTx, cap_per_day |-> capDay,
                                    status |-> "Active",
                                    expires_at |-> now + lifetime]
                              ELSE mandate[q]]
    /\ paid' = [paid EXCEPT ![p] = EmptyLedger]
    /\ UNCHANGED now

\* The owner pauses, resumes or revokes.
ChangeStatus(p, s) ==
    /\ p \in DOMAIN mandate
    /\ RevocationIsFinal => (mandate[p].status = "Revoked" => s = "Revoked")
    /\ mandate' = [mandate EXCEPT ![p].status = s]
    /\ UNCHANGED <<now, paid>>

\* A payment that a live mandate covers, judged on the exact history.
Pay(p, amount) ==
    /\ p \in DOMAIN mandate
    /\ mandate[p].status = "Active"
    /\ now <= mandate[p].expires_at
    /\ amount <= mandate[p].cap_per_tx
    /\ WindowSum(paid[p], now) + amount <= mandate[p].cap_per_day
    /\ paid' = [paid EXCEPT ![p] = Push(@, now, amount)]
    /\ UNCHANGED <<now, mandate>>

Pass ==
    /\ now < MaxTime
    /\ now' = now + 1
    /\ UNCHANGED <<mandate, paid>>

MandateNext ==
    \/ \E p \in Parties, capTx \in Caps, capDay \in Caps, d \in Mandates :
            Grant(p, capTx, capDay, d)
    \/ \E p \in Parties, s \in Statuses : ChangeStatus(p, s)
    \/ \E p \in Parties, a \in Amounts : Pay(p, a)
    \/ Pass

MandateSpec == MandateInit /\ [][MandateNext]_mvars
================================================================================
