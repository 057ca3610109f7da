------------------------------ MODULE TxAnalysis -------------------------------
(***************************************************************************)
(* The analysis server's judgement of one transaction: which accounts and  *)
(* contracts it mentions, the balances it would leave, the findings of the *)
(* detectors, and the decision of the policy engine.  A ledger L is what   *)
(* Horizon says before the transaction; sim is what the Soroban preflight  *)
(* answered.                                                               *)
(*                                                                         *)
(* Left out: findings no policy flag and no rule reads (compute, memo,     *)
(* asset list, account flags, size of the call tree), severities, wording. *)
(***************************************************************************)
EXTENDS StellarLedger, FiniteSets, SequencesExt

CONSTANTS
    MaxSimulationOperations,  \* accounts whose state is fetched
    PPM,                      \* parts of the loss ratio: 1_000_000
    Contracts,                \* C... addresses
    RiskyContracts,           \* config.riskyContractIds
    KnownSafeContracts,       \* config.knownSafeContractIds, empty when not configured
    Malicious,                \* addresses of the reputation list
    UnlimitedTrustline        \* the int64 sentinel

ASSUME AnalysisAssumption ==
    /\ MaxSimulationOperations \in Nat \ {0}
    /\ PPM \in Nat \ {0} /\ PPM % 100 = 0
    /\ RiskyContracts \subseteq Contracts /\ KnownSafeContracts \subseteq Contracts

NoWallet == "no wallet"
NoLimit == -1           \* a numeric rule the policy leaves out

\* Flags a policy may switch on; requireSuccessfulSimulation is on unless false.
Flags == {"blockRiskyContracts", "blockUnknownContractExposure", "blockSorobanAllowanceGrants",
          "blockTrustlineChanges", "blockUnlimitedTrustlines", "blockAccountMerge",
          "blockSignerChanges", "blockMasterKeyRemoval",
          "allowWarnings", "requireSuccessfulSimulation"}

IsPolicy(p) ==
    /\ p.on \subseteq Flags
    /\ p.maxLossPercent \in 0..100 \cup {NoLimit}
    /\ p.minPostBalance \in Nat \cup {NoLimit}

--------------------------------------------------------------------------------
(* Who is mentioned: simulation/account-keys.ts *)

\* Classic accounts an operation names besides its source, in that order.
walkOperation(op) ==
    CASE op.kind \in {"payment", "createAccount", "accountMerge", "clawback",
                      "pathPaymentStrictSend", "pathPaymentStrictReceive",
                      "createClaimableBalance"} -> <<op.dest>>
      [] op.kind = "setOptions" -> SetToSeq(op.adds \cup op.drops)
      [] OTHER -> <<>>

Mentioned(tx) ==
    <<tx.source>> \o FlattenSeq([i \in DOMAIN tx.ops |->
                                    <<tx.ops[i].source>> \o walkOperation(tx.ops[i])])

classicAccountIds(tx) == ToSet(Mentioned(tx))

Ops(tx, kind) == {op \in ToSet(tx.ops) : op.kind = kind}

contractAddresses(tx) == {op.contract : op \in Ops(tx, "invokeHostFunction")}

\* The first MaxSimulationOperations distinct accounts; the others stay unread.
pickAccountsForSimulation(tx) ==
    LET first(a) == SelectInSeq(Mentioned(tx), LAMBDA b : b = a)
        before(a) == {Mentioned(tx)[j] : j \in 1..(first(a) - 1)}
    IN  {a \in classicAccountIds(tx) : Cardinality(before(a)) < MaxSimulationOperations}

truncatedAccounts(tx) == Cardinality(classicAccountIds(tx)) > MaxSimulationOperations

--------------------------------------------------------------------------------
(* What the preflight may answer: simulation/stellar-simulator.ts *)

hasSorobanOp(tx) == Ops(tx, "invokeHostFunction") # {}

\* A purely classic transaction is not preflighted.  Public nodes may leave the
\* diagnostic events out; a footprint to restore is a failure with events.
Simulations(tx) ==
    IF hasSorobanOp(tx)
    THEN [status : {"success", "failed"}, preflighted : {TRUE}, events : BOOLEAN]
    ELSE [status : {"success"}, preflighted : {FALSE}, events : {FALSE}]

--------------------------------------------------------------------------------
(* The balances it would leave: analysis/extract-deltas.ts *)

\* Rows are kept by account and asset.  A token event names its contract in hex,
\* the rest of the server in strkey, so the two never meet.
EventKey == "C:hex of the contract"
usdcContractKey == "C:strkey of USDC_CONTRACT"
Keys == {Native, USDC, EventKey}

Leg(who, key, amount) == [who |-> who, key |-> key, amount |-> amount]

preStroops(tx, L, a) ==
    IF a \in pickAccountsForSimulation(tx) THEN L.bal[a][Native] ELSE None

\* What leaves an account: a path payment is read at its worst for the payer,
\* a merge sweeps what the account held before the transaction.  Offers, pool
\* deposits and withdrawals and claimable balances fall through: no change.
Debits(tx, L, sim, op) ==
    CASE op.kind \in {"payment", "pathPaymentStrictSend", "pathPaymentStrictReceive"} ->
           {Leg(op.source, op.asset, op.amount)}
      [] op.kind = "createAccount" -> {Leg(op.source, Native, op.amount)}
      [] op.kind = "accountMerge" ->
           {Leg(op.source, Native,
                IF preStroops(tx, L, op.source) = None THEN 0 ELSE preStroops(tx, L, op.source))}
      [] op.kind = "clawback" -> {Leg(op.dest, op.asset, op.amount)}
      [] op.kind = "invokeHostFunction" /\ op.fn = "transfer" /\ sim.events ->
           {Leg(op.source, EventKey, op.amount)}
      [] OTHER -> {}

\* What an account receives: of a path payment, the least it is promised.
Credits(tx, L, sim, op) ==
    CASE op.kind \in {"pathPaymentStrictSend", "pathPaymentStrictReceive"} ->
           {Leg(op.dest, op.destAsset, op.destAmount)}
      [] op.kind = "clawback" -> {}
      [] OTHER -> {[leg EXCEPT !.who = op.dest] : leg \in Debits(tx, L, sim, op)}

\* The amount of the one leg, if it is on this row.
OnRow(legs, a, key) ==
    LET own == {leg \in legs : leg.who = a /\ leg.key = key}
    IN  IF own = {} THEN 0 ELSE (CHOOSE leg \in own : TRUE).amount

Change(tx, L, sim, op, a, key) ==
    OnRow(Credits(tx, L, sim, op), a, key) - OnRow(Debits(tx, L, sim, op), a, key)

\* applyNative and applyAsset over the operations, in order.
Changed(first, tx, L, sim, a, key) ==
    LET after[i \in 0..Len(tx.ops)] ==
            IF i = 0 THEN first ELSE after[i - 1] + Change(tx, L, sim, tx.ops[i], a, key)
    IN  after[Len(tx.ops)]

\* The fee leaves the source first.  A plausible bug, and the code.
Delta_NoFee(tx, L, sim, a, key) == Changed(0, tx, L, sim, a, key)
Delta(tx, L, sim, a, key) ==
    Changed(IF a = tx.source /\ key = Native THEN -tx.fee ELSE 0, tx, L, sim, a, key)

Known(tx, L, a, key) ==
    /\ key \in {Native, USDC}
    /\ a \in pickAccountsForSimulation(tx)
    /\ L.bal[a][key] # None

\* Is there a row, and what balance does it end with?
HasRow(tx, L, sim, a, key) ==
    \/ Known(tx, L, a, key)
    \/ \E op \in ToSet(tx.ops) :
         \E leg \in Debits(tx, L, sim, op) \cup Credits(tx, L, sim, op) :
            leg.who = a /\ leg.key = key

postBalance(tx, L, sim, a, key) ==
    (IF Known(tx, L, a, key) THEN L.bal[a][key] ELSE 0) + Delta(tx, L, sim, a, key)

\* Pool shares have no single asset and are passed over.
trustlines(tx) == {op \in Ops(tx, "changeTrust") : ~op.pool}

\* A plausible bug, for a mutant.
allowances_StaticOnly(tx, sim) ==
    {op \in Ops(tx, "invokeHostFunction") : op.fn = "approve"}

\* An approve at the top is read from the operation, one inside only from events.
allowances(tx, sim) ==
    {op \in Ops(tx, "invokeHostFunction") :
        op.fn = "approve" \/ (op.fn = "approveInside" /\ sim.events)}

--------------------------------------------------------------------------------
(* The detectors: risk/index.ts, risk/detectors *)

When(condition, code) == IF condition THEN {code} ELSE {}

detectSimulationFindings(tx, sim) ==
    When(sim.status = "failed", "SIMULATION_FAILED")
    \cup When(hasSorobanOp(tx) /\ ~sim.preflighted, "LOW_CONFIDENCE_INCOMPLETE_DATA")

detectAccountFindings(tx) ==
    When(Ops(tx, "accountMerge") # {}, "ACCOUNT_MERGE_DETECTED")
    \cup UNION {When(op.master = 0, "MASTER_KEY_REMOVED")
                \cup When(op.adds \cup op.drops # {}, "SIGNER_CHANGE_DETECTED")
                \cup When(op.threshold, "THRESHOLD_CHANGE_DETECTED") : op \in Ops(tx, "setOptions")}

detectContractFindings(tx) ==
    When(contractAddresses(tx) \cap RiskyContracts # {}, "RISKY_CONTRACT_INTERACTION")
    \cup When(KnownSafeContracts # {} /\ ~(contractAddresses(tx) \subseteq KnownSafeContracts),
              "UNKNOWN_CONTRACT_EXPOSURE")

\* A call tree beyond the parser's cap is reported as incomplete data.
detectCpiFindings(tx) ==
    When(\E op \in Ops(tx, "invokeHostFunction") : op.fn = "deep",
         "LOW_CONFIDENCE_INCOMPLETE_DATA")

detectReputationFindings(tx) ==
    When((contractAddresses(tx) \cup classicAccountIds(tx)) \cap Malicious # {},
         "KNOWN_MALICIOUS_ADDRESS")

detectAllowanceAndTrustlineFindings(tx, sim) ==
    When(allowances(tx, sim) # {}, "SOROBAN_ALLOWANCE_GRANTED")
    \cup UNION {IF op.limit = 0
                THEN {"TRUSTLINE_REMOVED"}
                ELSE {"TRUSTLINE_CHANGE_DETECTED"}
                     \cup When(op.limit >= UnlimitedTrustline, "UNLIMITED_TRUSTLINE") :
                op \in trustlines(tx)}

detectIncompleteDataFinding(p, wallet, tx) ==
    When(\/ truncatedAccounts(tx)
         \/ /\ p.maxLossPercent # NoLimit \/ p.minPostBalance # NoLimit
            /\ wallet = NoWallet,
         "LOW_CONFIDENCE_INCOMPLETE_DATA")

runRiskDetection(p, wallet, tx, sim) ==
    detectSimulationFindings(tx, sim)
    \cup detectAccountFindings(tx)
    \cup detectContractFindings(tx)
    \cup detectCpiFindings(tx)
    \cup detectReputationFindings(tx)
    \cup detectAllowanceAndTrustlineFindings(tx, sim)
    \cup detectIncompleteDataFinding(p, wallet, tx)

--------------------------------------------------------------------------------
(* The engine: policy/engine.ts *)

\* A plausible bug, for a mutant.
lossRatioPpm_OfTotal(pre, delta) ==
    IF delta >= 0 \/ pre <= 0 THEN 0 ELSE ((-delta) * PPM) \div (pre - delta)

lossRatioPpm(pre, delta) ==
    IF delta >= 0 \/ pre <= 0 THEN 0 ELSE ((-delta) * PPM) \div pre

LossExceeds(p, pre, delta) ==
    lossRatioPpm(pre, delta) > p.maxLossPercent * (PPM \div 100)

\* The rule on native loss: a wallet whose balance was not read fails it.
LossFindings(p, wallet, tx, L, sim) ==
    IF p.maxLossPercent = NoLimit
    THEN {}
    ELSE IF \/ wallet = NoWallet
            \/ ~Known(tx, L, wallet, Native)
            \/ L.bal[wallet][Native] = 0
    THEN {"LOSS_PERCENT_UNAVAILABLE"}
    ELSE When(LossExceeds(p, L.bal[wallet][Native], Delta(tx, L, sim, wallet, Native)),
              "ESTIMATED_LOSS_EXCEEDS_MAX")

\* The rule on the token balance left.  The row looked for is the classic one or
\* the one named by the contract's strkey, which no event ever makes.
BalanceFindings(p, wallet, tx, L, sim) ==
    IF p.minPostBalance = NoLimit
    THEN {}
    ELSE When(\/ wallet = NoWallet
              \/ ~\E key \in Keys \cap {USDC, usdcContractKey} :
                    /\ HasRow(tx, L, sim, wallet, key)
                    /\ postBalance(tx, L, sim, wallet, key) >= p.minPostBalance,
              "POST_BALANCE_TOO_LOW")

\* The codes each flag blocks.
Gate(flag) ==
    CASE flag = "blockRiskyContracts" -> {"RISKY_CONTRACT_INTERACTION"}
      [] flag = "blockUnknownContractExposure" -> {"UNKNOWN_CONTRACT_EXPOSURE"}
      [] flag = "blockSorobanAllowanceGrants" -> {"SOROBAN_ALLOWANCE_GRANTED"}
      [] flag = "blockTrustlineChanges" -> {"TRUSTLINE_CHANGE_DETECTED", "TRUSTLINE_REMOVED"}
      [] flag = "blockUnlimitedTrustlines" -> {"UNLIMITED_TRUSTLINE"}
      [] flag = "blockAccountMerge" -> {"ACCOUNT_MERGE_DETECTED"}
      [] flag = "blockSignerChanges" -> {"SIGNER_CHANGE_DETECTED", "THRESHOLD_CHANGE_DETECTED"}
      [] flag = "blockMasterKeyRemoval" -> {"MASTER_KEY_REMOVED"}
      [] OTHER -> {}

\* Flags that lose their force where warnings are allowed.
Tolerated(p) ==
    IF "allowWarnings" \in p.on THEN {"blockUnknownContractExposure"} ELSE {}

Violations == {"LOSS_PERCENT_UNAVAILABLE", "ESTIMATED_LOSS_EXCEEDS_MAX", "POST_BALANCE_TOO_LOW"}

isBlocked(p, sim, findings) ==
    \/ "requireSuccessfulSimulation" \in p.on /\ sim.status = "failed"
    \/ \E flag \in p.on \ Tolerated(p) : Gate(flag) \cap findings # {}
    \/ Violations \cap findings # {}
    \/ "LOW_CONFIDENCE_INCOMPLETE_DATA" \in findings /\ "allowWarnings" \notin p.on

deriveConfidence(sim, findings) ==
    IF "LOW_CONFIDENCE_INCOMPLETE_DATA" \in findings \/ sim.status = "failed"
    THEN "low"
    ELSE IF sim.preflighted THEN "high" ELSE "medium"

mergeFindings(p, wallet, tx, L, sim) ==
    runRiskDetection(p, wallet, tx, sim)
    \cup LossFindings(p, wallet, tx, L, sim)
    \cup BalanceFindings(p, wallet, tx, L, sim)

evaluatePolicy(p, wallet, tx, L, sim) ==
    LET findings == mergeFindings(p, wallet, tx, L, sim)
    IN  [safe |-> ~isBlocked(p, sim, findings),
         findings |-> findings,
         confidence |-> deriveConfidence(sim, findings)]
================================================================================
