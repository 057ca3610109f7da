-------------------------- MODULE MerchantSpendPolicy --------------------------
(***************************************************************************)
(* contracts/merchant-spend-policy: the Soroban policy contract a smart    *)
(* wallet consults before a merchant's sub-key may move money.  One        *)
(* deployment serves every wallet; an allowance is keyed by (wallet,       *)
(* merchant) and bound to one sub-key.                                     *)
(*                                                                         *)
(* A Soroban call is one transaction: it commits whole or a panic undoes   *)
(* it, so every entry point is one action and its panics are its guard.    *)
(* paid is a history variable: the exact payments of the current grant.    *)
(***************************************************************************)
EXTENDS SpendLedger

CONSTANTS
    Wallets,               \* smart wallets that may install the policy
    Merchants,             \* payees
    SubKeys,               \* Ed25519 sub-keys a wallet may register
    SPEND_BUCKET_SECONDS,  \* spends of one slice share a log entry
    MAX_MANDATE_SECONDS,   \* longest mandate one grant can carry
    Caps,                  \* bound: cap arguments tried, the refused 0 included
    Amounts,               \* bound: transfer amounts tried
    Mandates,              \* bound: mandate_seconds arguments tried
    MaxTime,               \* bound: last ledger timestamp explored
    MaxGrants              \* bound: grants per (wallet, merchant)

ASSUME PolicyAssumption ==
    /\ SPEND_BUCKET_SECONDS \in Nat \ {0}
    /\ DAY_SECONDS % SPEND_BUCKET_SECONDS = 0
    /\ MAX_MANDATE_SECONDS \in Nat
    /\ Caps \subseteq Int
    /\ Amounts \subseteq Int
    /\ Mandates \subseteq Nat

VARIABLES
    now,          \* env.ledger().timestamp()
    policySigner, \* wallets that hold this policy as a signer (kept by the wallet)
    installed,    \* DataKey::Installed
    allowance,    \* DataKey::Allowance, a partial function on (wallet, merchant)
    grants,       \* how many grants each pair has had
    paid          \* history: exact payments since the current grant

vars == <<now, policySigner, installed, allowance, grants, paid>>

Pairs == Wallets \X Merchants
Statuses == {"Active", "Paused", "Revoked"}
Bucket(t) == t \div SPEND_BUCKET_SECONDS

IsAllowance(a) ==
    /\ a = [signer |-> a.signer, cap_per_tx |-> a.cap_per_tx,
            cap_per_day |-> a.cap_per_day, spend_log |-> a.spend_log,
            status |-> a.status, expires_at |-> a.expires_at]
    /\ a.signer \in SubKeys
    /\ a.cap_per_tx \in Nat \ {0}
    /\ a.cap_per_day \in Nat \ {0}
    /\ IsLedger(a.spend_log)
    /\ a.status \in Statuses
    /\ a.expires_at \in Nat

TypeOK ==
    /\ now \in Nat
    /\ policySigner \subseteq Wallets
    /\ installed \subseteq Wallets
    /\ DOMAIN allowance \subseteq Pairs
    /\ allowance = [p \in DOMAIN allowance |-> allowance[p]]
    /\ \A p \in DOMAIN allowance : IsAllowance(allowance[p])
    /\ grants \in [Pairs -> Nat]
    /\ paid = [p \in Pairs |-> paid[p]]
    /\ \A p \in Pairs : IsLedger(paid[p])

Init ==
    /\ now = 0
    /\ policySigner = {}
    /\ installed = {}
    /\ allowance = [p \in {} |-> {}]
    /\ grants = [p \in Pairs |-> 0]
    /\ paid = [p \in Pairs |-> EmptyLedger]

--------------------------------------------------------------------------------
(* Faulty variants of the definitions below.  Nothing uses them: each is what   *)
(* a plausible slip in the contract would make of a definition, put in its      *)
(* place to see that a property notices.                                        *)

\* The newest entry's timestamp, log.last() in the code.
Newest(log) == CHOOSE t \in DOMAIN log : \A u \in DOMAIN log : u <= t

record_spend_KeepsOlderTime(log, amount) ==
    IF DOMAIN log # {} /\ Bucket(Newest(log)) = Bucket(now)
    THEN [log EXCEPT ![Newest(log)] = @ + amount]
    ELSE Push(log, now, amount)

record_spend_AlwaysMerges(log, amount) ==
    IF DOMAIN log # {}
    THEN [t \in (DOMAIN log \ {Newest(log)}) \cup {now} |->
             IF t = now THEN log[Newest(log)] + amount ELSE log[t]]
    ELSE Push(log, now, amount)

status_allowed_AfterRevoke(a, s) == TRUE

--------------------------------------------------------------------------------
(* The spend log *)

\* A spend in the newest entry's slice moves that entry to the later time;
\* any other spend opens an entry.
record_spend(log, amount) ==
    IF DOMAIN log # {} /\ Bucket(Newest(log)) = Bucket(now)
    THEN LET rest == DOMAIN log \ {Newest(log)}
         IN  [t \in rest \cup {now} |->
                 IF t = now THEN log[Newest(log)] + amount ELSE log[t]]
    ELSE Push(log, now, amount)

--------------------------------------------------------------------------------
(* Calls made under the wallet's own authorization *)

\* InvalidAmount and InvalidMandate.
valid_grant(capTx, capDay, mandate) ==
    /\ capTx > 0 /\ capDay > 0
    /\ mandate > 0 /\ mandate <= MAX_MANDATE_SECONDS

set_allowance(w, m, k, capTx, capDay, mandate) ==
    LET fresh == [signer |-> k, cap_per_tx |-> capTx, cap_per_day |-> capDay,
                  spend_log |-> EmptyLedger, status |-> "Active",
                  expires_at |-> now + mandate]
    IN
    /\ valid_grant(capTx, capDay, mandate)
    /\ grants[<<w, m>>] < MaxGrants
    /\ allowance' = [p \in DOMAIN allowance \cup {<<w, m>>} |->
                        IF p = <<w, m>> THEN fresh ELSE allowance[p]]
    /\ grants' = [grants EXCEPT ![<<w, m>>] = @ + 1]
    /\ paid' = [paid EXCEPT ![<<w, m>>] = EmptyLedger]
    /\ UNCHANGED <<now, policySigner, installed>>

\* A revoked allowance only ever stays revoked.
status_allowed(a, s) == a.status = "Revoked" => s = "Revoked"

set_status(w, m, s) ==
    /\ <<w, m>> \in DOMAIN allowance
    /\ status_allowed(allowance[<<w, m>>], s)
    /\ allowance' = [allowance EXCEPT ![<<w, m>>].status = s]
    /\ UNCHANGED <<now, policySigner, installed, grants, paid>>

pause(w, m)  == set_status(w, m, "Paused")
resume(w, m) == set_status(w, m, "Active")
revoke(w, m) == set_status(w, m, "Revoked")

\* The wallet's add_signer registers the policy and calls install.
install(w) ==
    /\ policySigner' = policySigner \cup {w}
    /\ installed' = installed \cup {w}
    /\ UNCHANGED <<now, allowance, grants, paid>>

\* The wallet's remove_signer; it does not call the policy back.
RemovePolicySigner(w) ==
    /\ w \in policySigner
    /\ policySigner' = policySigner \ {w}
    /\ UNCHANGED <<now, installed, allowance, grants, paid>>

--------------------------------------------------------------------------------
(* Calls anyone may make *)

\* Allowances stay behind; only the installation flag is cleared.
uninstall(w) ==
    /\ w \notin policySigner
    /\ installed' = installed \ {w}
    /\ UNCHANGED <<now, policySigner, allowance, grants, paid>>

\* The mandate is granted to one sub-key, and only that one may use it.
binds(a, k) == k = a.signer

\* The wallet asks whether sub-key k may transfer amount to m.
policy__(w, k, m, amount) ==
    LET a   == allowance[<<w, m>>]
        log == Pruned(a.spend_log, now)
    IN
    /\ w \in installed
    /\ amount > 0
    /\ <<w, m>> \in DOMAIN allowance
    /\ binds(a, k)
    /\ a.status = "Active"
    /\ now <= a.expires_at
    /\ amount <= a.cap_per_tx
    /\ WindowSum(a.spend_log, now) + amount <= a.cap_per_day
    /\ allowance' = [allowance EXCEPT ![<<w, m>>].spend_log = record_spend(log, amount)]
    /\ paid' = [paid EXCEPT ![<<w, m>>] = Push(@, now, amount)]
    /\ UNCHANGED <<now, policySigner, installed, grants>>

--------------------------------------------------------------------------------
\* A later ledger closes.
Tick ==
    /\ now < MaxTime
    /\ now' = now + 1
    /\ UNCHANGED <<policySigner, installed, allowance, grants, paid>>

Next ==
    \/ \E w \in Wallets, m \in Merchants, k \in SubKeys,
          capTx \in Caps, capDay \in Caps, d \in Mandates :
            set_allowance(w, m, k, capTx, capDay, d)
    \/ \E w \in Wallets, m \in Merchants :
            pause(w, m) \/ resume(w, m) \/ revoke(w, m)
    \/ \E w \in Wallets : install(w) \/ RemovePolicySigner(w) \/ uninstall(w)
    \/ \E w \in Wallets, m \in Merchants, k \in SubKeys, amount \in Amounts :
            policy__(w, k, m, amount)
    \/ Tick

Spec == Init /\ [][Next]_vars

--------------------------------------------------------------------------------
(* Properties *)

\* The payments really made under a grant in the trailing window never exceed
\* cap_per_day, although the log they are judged by merges and prunes entries
\* (record_spend: "the cap ... can never be exceeded").
CapNeverExceeded ==
    \A p \in DOMAIN allowance :
        WindowSum(paid[p], now) <= allowance[p].cap_per_day

\* The price of merging is bounded: an amount the log still counts was really
\* paid less than one day and one bucket ago (record_spend: "refuse a payment
\* up to 15 minutes early").
RefusesAtMostOneBucketEarly ==
    \A p \in DOMAIN allowance :
        WindowSum(allowance[p].spend_log, now)
            <= SumUpTo([t \in {u \in DOMAIN paid[p] :
                                  now - u < DAY_SECONDS + SPEND_BUCKET_SECONDS - 1}
                          |-> paid[p][t]], now)

\* A log never holds more than DAY / BUCKET + 1 entries, however many payments
\* land (lib.rs: "at most ... (97) entries").
LogBounded ==
    \A p \in DOMAIN allowance :
        Cardinality(DOMAIN allowance[p].spend_log)
            <= (DAY_SECONDS \div SPEND_BUCKET_SECONDS) + 1

\* Once revoked, an allowance is neither resumed nor spent from again until the
\* wallet grants afresh, whatever is installed, removed or paused meanwhile.
RevocationFinal ==
    [][\A p \in DOMAIN allowance :
          allowance[p].status = "Revoked" /\ grants'[p] = grants[p] =>
              allowance'[p].status = "Revoked" /\ paid'[p] = paid[p]]_vars

\* Every call refines the exact-history mandate: merging and pruning never let
\* through a payment the exact history would refuse.
Mandate == INSTANCE SpendingMandate WITH
    Parties <- Pairs,
    mandate <- [p \in DOMAIN allowance |->
                   [cap_per_tx |-> allowance[p].cap_per_tx,
                    cap_per_day |-> allowance[p].cap_per_day,
                    status |-> allowance[p].status,
                    expires_at |-> allowance[p].expires_at]],
    RevocationIsFinal <- TRUE

ImplementsMandate == Mandate!MandateSpec
================================================================================
