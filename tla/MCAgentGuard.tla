----------------------------- MODULE MCAgentGuard ------------------------------
(* Instances of AgentGuard: the transactions, policies and ledgers it runs on. *)
EXTENDS AgentGuard

CONSTANTS u, o, n, token, other,   \* the user, another account, one not yet created
          Pairs                    \* whether transactions of two operations are included

MCAccounts == {u, o, n}
MCContracts == {token, other}

Balances(native, usdc) == (Native :> native) @@ (USDC :> usdc)

StartingFrom(native, usdc) ==
    [bal |-> (u :> Balances(native, usdc)) @@ (o :> Balances(6, 6)) @@ (n :> Balances(None, None)),
     signers |-> (u :> {u}) @@ (o :> {o}) @@ (n :> {n}),
     allowances |-> {}]

MCLedgers == {StartingFrom(7, 4), StartingFrom(6, None)}

Pay(from, asset, amount, to) ==
    [kind |-> "payment", source |-> from, asset |-> asset, amount |-> amount, dest |-> to]
Path(kind, from, asset, amount, destAsset, destAmount, to) ==
    [kind |-> kind, source |-> from, asset |-> asset, amount |-> amount,
     destAsset |-> destAsset, destAmount |-> destAmount, dest |-> to]
Offer(kind, asset, amount, destAsset, destAmount) ==
    [kind |-> kind, source |-> u, asset |-> asset, amount |-> amount,
     destAsset |-> destAsset, destAmount |-> destAmount]
Pool(kind, native, usdc) == [kind |-> kind, source |-> u, native |-> native, usdc |-> usdc]
Trust(limit, pool) == [kind |-> "changeTrust", source |-> u, limit |-> limit, pool |-> pool]
Options(adds, drops, master, threshold) ==
    [kind |-> "setOptions", source |-> u, adds |-> adds, drops |-> drops,
     master |-> master, threshold |-> threshold]
Invoke(contract, fn) ==
    [kind |-> "invokeHostFunction", source |-> u, contract |-> contract, fn |-> fn,
     asset |-> USDC, amount |-> 3, dest |-> o]

Classic == {
    Pay(u, Native, 2, o), Pay(u, Native, 4, o), Pay(o, Native, 2, u), Pay(u, USDC, 3, o),
    Pay(o, USDC, 1, u),
    [kind |-> "createAccount", source |-> u, amount |-> 2, dest |-> n],
    [kind |-> "accountMerge", source |-> u, dest |-> o],
    [kind |-> "createClaimableBalance", source |-> u, asset |-> Native, amount |-> 4, dest |-> o],
    [kind |-> "clawback", source |-> o, asset |-> USDC, amount |-> 3, dest |-> u],
    Path("pathPaymentStrictSend", u, Native, 2, USDC, 1, u),
    Path("pathPaymentStrictReceive", u, USDC, 3, Native, 1, u),
    Offer("manageSellOffer", Native, 4, USDC, 2), Offer("manageBuyOffer", USDC, 3, Native, 1),
    Offer("createPassiveSellOffer", USDC, 2, Native, 2),
    Pool("liquidityPoolDeposit", 4, 1), Pool("liquidityPoolWithdraw", 1, 1),
    [kind |-> "claimClaimableBalance", source |-> u, asset |-> USDC, amount |-> 2],
    Trust(0, FALSE), Trust(2, FALSE), Trust(9, FALSE), Trust(9, TRUE),
    Options({o}, {}, 1, FALSE), Options({}, {o}, 1, FALSE), Options({}, {}, 0, FALSE),
    Options({}, {}, 1, TRUE)}

Soroban == {Invoke(token, "approve"), Invoke(other, "approveInside"), Invoke(other, "deep"),
            Invoke(token, "other"), Invoke(token, "transfer")}

\* The first operation of a pair, and what follows it.
First == {op \in Classic : op.kind \in {"payment", "createAccount", "accountMerge", "clawback",
                                       "pathPaymentStrictReceive", "manageSellOffer",
                                       "claimClaimableBalance"}}
         \cup {Trust(0, FALSE), Trust(2, FALSE), Options({o}, {}, 1, FALSE)}
Second == {Pay(u, Native, 2, o), Pay(o, Native, 2, u), Trust(0, FALSE),
           Path("pathPaymentStrictSend", u, Native, 2, USDC, 1, u)}

Tx(ops) == [source |-> u, fee |-> 1, ops |-> ops]

MCTxs == {Tx(<<a>>) : a \in Classic \cup Soroban}
         \cup (IF Pairs THEN {Tx(<<a, b>>) : a \in First, b \in Second} ELSE {})

Plain(t) == [tx |-> t, charge |-> OwnCharge(t)]
Bumped(t, payer, fee) == [tx |-> t, charge |-> [payer |-> payer, fee |-> fee]]

\* Fee bumps the user pays, little and much, and one that somebody else pays.
MCEnvelopes == {Plain(t) : t \in MCTxs}
               \cup {Bumped(Tx(<<a>>), u, 4) : a \in Second \cup {Invoke(token, "approve")}}
               \cup {Bumped(Tx(<<a>>), u, 2) : a \in Second}
               \cup {Bumped(Tx(<<a>>), o, 2) : a \in Second}

MCBackground == {Tx(<<Pay(u, Native, 4, o)>>)}

Rules(on, loss, min) == [on |-> on, maxLossPercent |-> loss, minPostBalance |-> min]

Strict == Rules(Flags \ {"allowWarnings"}, 50, 2)
Balanced == Rules({"blockUnlimitedTrustlines", "blockSorobanAllowanceGrants", "blockAccountMerge",
                   "blockSignerChanges", "blockMasterKeyRemoval", "blockRiskyContracts",
                   "allowWarnings", "requireSuccessfulSimulation"}, 50, NoLimit)
OnlyBalances == Rules({"allowWarnings"}, 40, 2)
Empty == Rules({"requireSuccessfulSimulation"}, NoLimit, NoLimit)

Config(policy, pinned, canSign, secure) ==
    [policy |-> policy, pinned |-> pinned, canSign |-> canSign, secure |-> secure]

MCConfigs == {Config(p, TRUE, TRUE, TRUE) : p \in {Strict, Balanced, OnlyBalances, Empty}}
             \cup {Config(Balanced, FALSE, TRUE, TRUE), Config(Balanced, TRUE, TRUE, FALSE),
                   Config(Balanced, TRUE, FALSE, TRUE)}
================================================================================
