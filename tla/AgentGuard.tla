------------------------------- MODULE AgentGuard -------------------------------
(***************************************************************************)
(* A headless agent signs one transaction through agent-guard: it asks the *)
(* analysis server (TxAnalysis) for a verdict, checks the server's         *)
(* signature when a key is pinned, signs when the verdict allows it, and   *)
(* submits to the network (StellarLedger).                                 *)
(*                                                                         *)
(* Between the two, an answer may be lost, replaced by the answer to       *)
(* another transaction, altered, stripped of its signature, or come from a *)
(* server with another key; meanwhile other transactions move the ledger.  *)
(*                                                                         *)
(* What the agent signs is an envelope: a transaction or a fee bump around *)
(* one.  Server and verifier both unwrap it and see the transaction alone; *)
(* who pays, and how much, is in the envelope (StellarLedger's charge).    *)
(*                                                                         *)
(* An action of the agent is the code between two awaits.                  *)
(***************************************************************************)
EXTENDS TxAnalysis

CONSTANTS
    User,       \* the agent's address
    Envelopes,  \* envelopes the agent may be asked to sign: [tx, charge]
    Nonces,     \* random bytes in a signed verdict
    Background, \* the user's transactions besides this call
    Ledgers,    \* ledgers to start from
    Configs,    \* configurations: [policy, pinned, canSign, secure]
    MaxMoves    \* bound: transactions of Background

ASSUME AgentAssumption ==
    /\ User \in Accounts
    /\ \A s \in Ledgers : IsLedgerState(s)
    /\ \A e \in Envelopes : IsTransaction(e.tx) /\ IsCharge(e.charge)
    /\ \A t \in Background : IsTransaction(t)
    /\ \A c \in Configs : IsPolicy(c.policy) /\ {c.pinned, c.canSign, c.secure} \subseteq BOOLEAN
    /\ MaxMoves \in Nat

VARIABLES
    ledger,     \* the network's ledger
    moves,      \* transactions of Background so far
    config,     \* ResolvedConfig
    call,       \* guardedSubmit: its envelope, options and stage
    answer,     \* the response on its way to the agent
    issued,     \* history: verdicts signed with the pinned key
    fresh       \* history: the ledger has not moved since the call's verdict

guardVars == <<ledger, moves, config, call, answer, issued, fresh>>

--------------------------------------------------------------------------------
Servers == {"pinned", "other"}    \* keys a server may sign verdicts with
NoAnswer == [kind |-> "none"]
NoSignature == [by |-> "nobody"]
NoTransaction == [source |-> "nobody", fee |-> 0, ops |-> <<>>]

\* The transaction of an envelope, which is what is analysed and hashed.
unwrapInnerTransaction(envelope) == envelope.tx

Txs == {unwrapInnerTransaction(e) : e \in Envelopes}
Charges == {e.charge : e \in Envelopes}

CallStages == {"idle", "asking", "signed", "submitting", "landed", "threw"}

\* The payload a signature is over: transaction hash, safe, findings, time and nonce.
canonicalVerdictPayload(t, verdict, signedAt, nonce) ==
    [tx |-> t, safe |-> verdict.safe, findings |-> verdict.findings,
     signedAt |-> signedAt, nonce |-> nonce]

\* The time is told by the ledger's moves.
signVerdict(key, t, verdict, nonce) ==
    [by |-> key, over |-> canonicalVerdictPayload(t, verdict, moves, nonce),
     signedAt |-> moves, nonce |-> nonce]

Response(verdict, signature) ==
    [kind |-> "verdict", safe |-> verdict.safe, findings |-> verdict.findings,
     signature |-> signature]

GuardInit ==
    /\ ledger \in Ledgers
    /\ moves = 0
    /\ config \in Configs
    /\ call = [stage |-> "idle", tx |-> NoTransaction, charge |-> OwnCharge(NoTransaction),
               allowOffline |-> FALSE, bypassedOffline |-> FALSE, served |-> FALSE]
    /\ answer = NoAnswer
    /\ issued = {}
    /\ fresh = FALSE

--------------------------------------------------------------------------------
(* The agent: agent.ts, attestation.ts, swig-guard *)

Throw == call' = [call EXCEPT !.stage = "threw"]

\* guardedSign's answer to an AnalyzeError.
OfflineOrThrow ==
    call' = IF call.allowOffline
            THEN [call EXCEPT !.stage = "signed", !.bypassedOffline = TRUE]
            ELSE [call EXCEPT !.stage = "threw"]

guardedSubmit(envelope, allowOffline) ==
    /\ call.stage = "idle"
    /\ call' = [stage |-> IF config.canSign THEN "asking" ELSE "threw",
                tx |-> unwrapInnerTransaction(envelope), charge |-> envelope.charge,
                allowOffline |-> allowOffline, bypassedOffline |-> FALSE, served |-> FALSE]
    /\ UNCHANGED <<ledger, moves, config, answer, issued, fresh>>

\* A base URL without TLS is refused before anything is sent.
assertSecureBaseUrl ==
    /\ call.stage = "asking"
    /\ ~config.secure
    /\ OfflineOrThrow
    /\ UNCHANGED <<ledger, moves, config, answer, issued, fresh>>

\* Plausible bugs, for the mutants.
Verified_AnyTransaction(t, response) ==
    /\ response.signature.by = "pinned"
    /\ response.signature.over.safe = response.safe
    /\ response.signature.over.findings = response.findings

AnalyzeFails_WithoutTimeout ==
    /\ call.stage = "asking"
    /\ config.secure
    /\ answer.kind = "refused"
    /\ OfflineOrThrow
    /\ answer' = NoAnswer
    /\ UNCHANGED <<ledger, moves, config, issued, fresh>>

Verified(t, response) ==
    /\ response.signature.by = "pinned"
    /\ response.signature.over = canonicalVerdictPayload(t, response, response.signature.signedAt,
                                                         response.signature.nonce)

\* The response arrives: verify it, apply the decision, sign.
Decide ==
    /\ call.stage = "asking"
    /\ answer.kind = "verdict"
    /\ IF \/ config.pinned /\ ~Verified(call.tx, answer)
          \/ ~answer.safe
       THEN Throw
       ELSE call' = [call EXCEPT !.stage = "signed"]
    /\ answer' = NoAnswer
    /\ UNCHANGED <<ledger, moves, config, issued, fresh>>

\* A body of another shape throws, though not an AnalyzeError.
Misread ==
    /\ call.stage = "asking"
    /\ answer.kind = "malformed"
    /\ Throw
    /\ answer' = NoAnswer
    /\ UNCHANGED <<ledger, moves, config, issued, fresh>>

\* An HTTP error, or fifteen seconds without an answer.
AnalyzeFails ==
    /\ call.stage = "asking"
    /\ config.secure
    /\ answer.kind \in {"none", "refused"}
    /\ OfflineOrThrow
    /\ answer' = NoAnswer
    /\ UNCHANGED <<ledger, moves, config, issued, fresh>>

submitTransaction ==
    /\ call.stage = "signed"
    /\ call' = [call EXCEPT !.stage = "submitting"]
    /\ UNCHANGED <<ledger, moves, config, answer, issued, fresh>>

--------------------------------------------------------------------------------
(* The server: application/analyze-transaction.ts, attestation/sign-verdict.ts *)

\* The verdict on transaction t by the server with this key, or with none.
Judge(t, sim, key, nonce) ==
    LET verdict == evaluatePolicy(config.policy, User, t, ledger, sim)
    IN  /\ answer' = Response(verdict, IF key = "none" THEN NoSignature
                                       ELSE signVerdict(key, t, verdict, nonce))
        /\ issued' = IF key = "pinned"
                     THEN issued \cup {[tx |-> t, safe |-> verdict.safe,
                                        findings |-> verdict.findings, events |-> sim.events]}
                     ELSE issued

Asked == call.stage = "asking" /\ config.secure /\ ~call.served

Served == call' = [call EXCEPT !.served = TRUE]

analyzeTransaction(key) ==
    /\ Asked
    /\ \E sim \in Simulations(call.tx) : \E nonce \in Nonces : Judge(call.tx, sim, key, nonce)
    /\ Served
    /\ fresh' = TRUE
    /\ UNCHANGED <<ledger, moves, config>>

\* Authentication, limits, payment, validation and RPC errors.
Refuse ==
    /\ Asked
    /\ Served
    /\ answer' = [kind |-> "refused"]
    /\ UNCHANGED <<ledger, moves, config, issued, fresh>>

--------------------------------------------------------------------------------
(* Faults between the two *)

\* The response to a request for another transaction is delivered instead.
MixUp ==
    /\ Asked
    /\ \E t \in Background \ {call.tx} : \E sim \in Simulations(t) : \E nonce \in Nonces :
          Judge(t, sim, "pinned", nonce)
    /\ Served
    /\ UNCHANGED <<ledger, moves, config, fresh>>

\* A signature passed off as given just now.
Restamped(signature) ==
    [by |-> signature.by, over |-> signature.over, signedAt |-> moves, nonce |-> signature.nonce]

\* The response is altered on its way.
Alter ==
    /\ answer.kind = "verdict"
    /\ \/ answer' \in {[answer EXCEPT !.safe = ~@],
                       [answer EXCEPT !.findings = {}],
                       [answer EXCEPT !.signature = NoSignature],
                       [kind |-> "malformed"],
                       NoAnswer}
       \/ /\ answer.signature # NoSignature
          /\ answer' = [answer EXCEPT !.signature = Restamped(@)]
    /\ UNCHANGED <<ledger, moves, config, call, issued, fresh>>

--------------------------------------------------------------------------------
(* The network *)

\* Another transaction is applied first.
Move ==
    /\ moves < MaxMoves
    /\ \E t \in Background : ledger' \in Outcomes(t, OwnCharge(t), ledger)
    /\ moves' = moves + 1
    /\ fresh' = FALSE
    /\ UNCHANGED <<config, call, answer, issued>>

\* The envelope is applied; the answer saying so may be lost.
Land ==
    /\ call.stage = "submitting"
    /\ ledger' \in Outcomes(call.tx, call.charge, ledger)
    /\ call' \in {[call EXCEPT !.stage = "landed"], [call EXCEPT !.stage = "threw"]}
    /\ UNCHANGED <<moves, config, answer, issued, fresh>>

\* Horizon refuses the transaction, or never answers.
Reject ==
    /\ call.stage = "submitting"
    /\ Throw
    /\ UNCHANGED <<ledger, moves, config, answer, issued, fresh>>

--------------------------------------------------------------------------------
Agent ==
    \/ \E e \in Envelopes : \E allowOffline \in BOOLEAN : guardedSubmit(e, allowOffline)
    \/ assertSecureBaseUrl \/ Decide \/ Misread \/ AnalyzeFails \/ submitTransaction

Server == Refuse \/ \E key \in Servers \cup {"none"} : analyzeTransaction(key)

GuardNext == Agent \/ Server \/ MixUp \/ Alter \/ Move \/ Land \/ Reject

GuardSpec == GuardInit /\ [][GuardNext]_guardVars

\* Every await of the agent ends: the request by its timeout, the submission by
\* Horizon's answer or its own timeout.
FairSpec ==
    /\ GuardSpec
    /\ WF_guardVars(assertSecureBaseUrl) /\ WF_guardVars(Decide) /\ WF_guardVars(Misread)
    /\ WF_guardVars(AnalyzeFails) /\ WF_guardVars(submitTransaction) /\ WF_guardVars(Reject)

--------------------------------------------------------------------------------
(* Properties *)

Signed == call.stage \in {"signed", "submitting", "landed"}

\* Types: every stage, the answers that may be on their way, what was issued.
GuardTypeOK ==
    /\ IsLedgerState(ledger)
    /\ moves \in 0..MaxMoves
    /\ config \in Configs
    /\ call \in [stage : CallStages, tx : Txs \cup {NoTransaction},
                 charge : Charges \cup {OwnCharge(NoTransaction)}, allowOffline : BOOLEAN,
                 bypassedOffline : BOOLEAN, served : BOOLEAN]
    /\ answer.kind \in {"none", "refused", "malformed", "verdict"}
    /\ answer.kind = "verdict" => answer.safe \in BOOLEAN
    /\ \A v \in issued : v.tx \in Txs \cup Background /\ v.safe \in BOOLEAN
    /\ fresh \in BOOLEAN

\* Verdicts on transaction t that the pinned server gave and found safe.
Vouchers(t) == {v \in issued : v.tx = t /\ v.safe}

\* With a pinned key, no envelope is signed whose transaction the pinned server did not
\* find safe, whatever happened to the answer; the only exception says so in its
\* result, and only a caller that asked for it gets it (agent.ts, attestation.ts).  Who
\* pays for a fee bump, and how much, is vouched for by nobody.
SignedIsVouched ==
    config.pinned /\ Signed =>
        \/ Vouchers(call.tx) # {}
        \/ call.bypassedOffline /\ call.allowOffline

\* Operations that take more from an account than the balance projection says: those
\* it passes over, a merge, which it reads from the balance before the transaction,
\* and token transfers, whose events have rows of their own.
Unfollowed ==
    {"createClaimableBalance", "manageSellOffer", "manageBuyOffer", "createPassiveSellOffer",
     "liquidityPoolDeposit", "accountMerge"}

Projected(t) ==
    \A op \in ToSet(t.ops) :
        /\ op.kind \notin Unfollowed
        /\ op.kind = "invokeHostFunction" => op.fn # "transfer"

\* The part of the fee the projection does not see: it counts the transaction's own,
\* and the charge of the envelope is taken.
UnseenFee(t, charge, a, key) ==
    (IF a = charge.payer /\ key = Native THEN charge.fee ELSE 0)
        - (IF a = t.source /\ key = Native THEN t.fee ELSE 0)

\* The balances shown to the owner never promise more than the ledger will leave, at
\* any price a path payment settles at, but for the fee nobody judged when the
\* envelope is a fee bump (extract-deltas.ts).
EstimateIsFloor ==
    call.stage = "asking" /\ Projected(call.tx) /\ Pays(call.charge, ledger) =>
        \A sim \in Simulations(call.tx) :
        \A after \in AllApplied(call.tx, call.charge, ledger) :
            \A a \in Accounts : \A key \in {Native, USDC} :
                HasRow(call.tx, ledger, sim, a, key) =>
                    postBalance(call.tx, ledger, sim, a, key)
                        <= Held(after, a, key) + UnseenFee(call.tx, call.charge, a, key)

\* An envelope lands whose transaction the pinned server found safe on this very ledger.
LandsAsJudged ==
    /\ call.stage = "submitting" /\ call'.stage # "submitting" /\ ledger' # ledger
    /\ fresh /\ ~call.bypassedOffline /\ Vouchers(call.tx) # {}

\* Loss of native balance, up to the part per million the engine rounds away.
LossWithin(p, before, after) ==
    p.maxLossPercent = NoLimit \/
    (before - after) * PPM < (p.maxLossPercent * (PPM \div 100) + 1) * before

WithinPolicy ==
    /\ LandsAsJudged /\ Projected(call.tx)
    /\ ledger' \in AllApplied(call.tx, call.charge, ledger)
    => /\ LossWithin(config.policy, Held(ledger, User, Native),
                     Held(ledger', User, Native) + UnseenFee(call.tx, call.charge, User, Native))
       /\ config.policy.minPostBalance # NoLimit =>
              Held(ledger', User, USDC) >= config.policy.minPostBalance

\* What the policy says of balances holds on the chain afterwards: the wallet lost
\* no more than the percentage, the unjudged fee of a fee bump apart, and keeps the
\* minimum (engine.ts, extract-deltas.ts).
BalancesWithinPolicy == [][WithinPolicy]_guardVars

\* What docs/policy-dsl.md says of maxLossPercent, of every envelope: what is signed on
\* a safe verdict does not let the wallet's native balance fall by more.
LossAsDocumented ==
    [][/\ LandsAsJudged /\ Projected(call.tx)
       /\ ledger' \in AllApplied(call.tx, call.charge, ledger)
       => LossWithin(config.policy, Held(ledger, User, Native), Held(ledger', User, Native))
      ]_guardVars

\* What the last case of applyClassicOperationEffects says: operations without a case
\* of their own move no balance (token calls are read from events, elsewhere).
Cases ==
    {"payment", "createAccount", "accountMerge", "changeTrust", "pathPaymentStrictSend",
     "pathPaymentStrictReceive", "clawback"}

OthersMoveNothing ==
    call.stage = "asking" /\ Pays(call.charge, ledger)
    /\ (\A op \in ToSet(call.tx.ops) : op.kind \notin Cases \cup {"invokeHostFunction"}) =>
        \A after \in AllApplied(call.tx, call.charge, ledger) :
            after.bal = Charged(call.charge, ledger).bal

StaysAway ==
    LandsAsJudged =>
        LET on == config.policy.on
            gone(s, a) == s.bal[a][Native] = None
        IN  /\ "blockAccountMerge" \in on =>
                   \A a \in Accounts : gone(ledger', a) => gone(ledger, a)
            /\ "blockSignerChanges" \in on =>
                   \A a \in Accounts : ledger'.signers[a] \subseteq ledger.signers[a]
            /\ "blockMasterKeyRemoval" \in on =>
                   \A a \in Accounts : a \in ledger.signers[a] => a \in ledger'.signers[a]
            /\ "blockTrustlineChanges" \in on =>
                   \A a \in Accounts : ledger'.bal[a][USDC] = None <=> ledger.bal[a][USDC] = None
            /\ "blockSorobanAllowanceGrants" \in on =>
                   \/ ledger'.allowances \subseteq ledger.allowances
                   \/ /\ \A op \in Ops(call.tx, "invokeHostFunction") : op.fn # "approve"
                      /\ \E v \in Vouchers(call.tx) : ~v.events

\* What the policy forbids does not happen on the chain: no account closed, no
\* signer added, no key taken from its owner, no trustline opened or closed, and no
\* allowance that the operations or the events the server saw show (risk/detectors).
ForbiddenStaysAway == [][StaysAway]_guardVars

\* A call that was made ends, whatever is lost (timeouts of analyze.ts and Horizon).
CallSettles == (call.stage = "asking") ~> (call.stage \in {"landed", "threw"})
================================================================================
