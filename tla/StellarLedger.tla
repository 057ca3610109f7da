----------------------------- MODULE StellarLedger -----------------------------
(***************************************************************************)
(* The Stellar network, as far as the analysis of a transaction relies on  *)
(* it: what a transaction does to the ledger when it is applied.  Nothing  *)
(* of it is in the repository.                                             *)
(*                                                                         *)
(* The fee of a transaction is paid, then its operations are applied in    *)
(* order, all or none.  Inside a fee bump it is the envelope that says who *)
(* pays and how much, and the fee of the transaction itself is not taken.  *)
(* Path payments and offers settle at prices nobody knows beforehand.      *)
(***************************************************************************)
EXTENDS Integers, Sequences

CONSTANT Accounts       \* classic accounts, G...

Native == "XLM"
USDC == "USDC"          \* the one classic asset, and what USDC_CONTRACT wraps
None == -1              \* no such account, or no trustline

\* A ledger: balances, the keys that may sign for an account, token allowances.
IsLedgerState(s) ==
    s \in [bal : [Accounts -> [{Native, USDC} -> Nat \cup {None}]],
          signers : [Accounts -> SUBSET Accounts],
          allowances : SUBSET (Accounts \X Accounts)]

\* Operations as the network takes them.  The key of an account is never one of the
\* signers that its owner adds or drops.
IsOperation(op) ==
    /\ op.source \in Accounts
    /\ \/ /\ op.kind \in {"payment", "clawback", "createClaimableBalance"}
          /\ op.asset \in {Native, USDC} /\ op.amount \in Nat /\ op.dest \in Accounts
       \/ op.kind = "createAccount" /\ op.amount \in Nat /\ op.dest \in Accounts
       \/ op.kind = "accountMerge" /\ op.dest \in Accounts
       \/ /\ op.kind \in {"pathPaymentStrictSend", "pathPaymentStrictReceive"}
          /\ {op.asset, op.destAsset} \subseteq {Native, USDC}
          /\ {op.amount, op.destAmount} \subseteq Nat /\ op.dest \in Accounts
       \/ /\ op.kind \in {"manageSellOffer", "manageBuyOffer", "createPassiveSellOffer"}
          /\ {op.asset, op.destAsset} \subseteq {Native, USDC}
          /\ {op.amount, op.destAmount} \subseteq Nat
       \/ /\ op.kind \in {"liquidityPoolDeposit", "liquidityPoolWithdraw"}
          /\ {op.native, op.usdc} \subseteq Nat
       \/ op.kind = "claimClaimableBalance" /\ op.asset \in {Native, USDC} /\ op.amount \in Nat
       \/ op.kind = "changeTrust" /\ op.pool \in BOOLEAN /\ op.limit \in Nat
       \/ /\ op.kind = "setOptions"
          /\ op.adds \cup op.drops \subseteq Accounts \ {op.source}
       \/ /\ op.kind = "invokeHostFunction"
          /\ op.fn \in {"transfer", "approve", "approveInside"} => op.dest \in Accounts
          /\ op.fn = "transfer" => op.amount \in Nat

IsTransaction(tx) ==
    /\ tx.source \in Accounts /\ tx.fee \in Nat
    /\ tx.ops \in Seq({tx.ops[i] : i \in DOMAIN tx.ops})
    /\ \A i \in DOMAIN tx.ops : IsOperation(tx.ops[i])

\* Who pays for an envelope, and how much: for a transaction on its own, what it says;
\* for a fee bump, what the envelope around it says.
IsCharge(charge) == charge.payer \in Accounts /\ charge.fee \in Nat
OwnCharge(tx) == [payer |-> tx.source, fee |-> tx.fee]

\* What an account has, nothing included.
Held(s, a, key) == IF s.bal[a][key] = None THEN 0 ELSE s.bal[a][key]

With(s, a, key, n) == [s EXCEPT !.bal[a][key] = n]
Plus(s, a, key, n) == With(s, a, key, s.bal[a][key] + n)

Exchange(s, from, out, n, to, in, m) ==
    IF s.bal[from][out] >= n /\ s.bal[to][in] # None
    THEN {Plus(Plus(s, from, out, -n), to, in, m)}
    ELSE {}

Transfer(s, from, asset, n, to) == Exchange(s, from, asset, n, to, asset, n)

Leaves(s, a, key, n) == IF s.bal[a][key] >= n THEN {Plus(s, a, key, -n)} ELSE {}

Arrives(s, a, key, n) == IF s.bal[a][key] # None THEN {Plus(s, a, key, n)} ELSE {}

\* The ledgers an operation may lead to; none when it fails.  An offer is taken at
\* once or rests; what it does later is a transaction of others.  A deposit takes up
\* to its maxima, a withdrawal gives its minima or more; pool shares are not kept.
Applied(op, s) ==
    CASE op.kind = "payment" ->
           Transfer(s, op.source, op.asset, op.amount, op.dest)
      [] op.kind = "createAccount" ->
           IF s.bal[op.dest][Native] = None
           THEN Transfer(With(s, op.dest, Native, 0), op.source, Native, op.amount, op.dest)
           ELSE {}
      [] op.kind = "accountMerge" ->
           IF s.bal[op.source][USDC] = None /\ op.source # op.dest
           THEN {With(t, op.source, Native, None) :
                    t \in Transfer(s, op.source, Native, s.bal[op.source][Native], op.dest)}
           ELSE {}
      [] op.kind = "changeTrust" /\ op.pool -> {s}
      [] op.kind = "changeTrust" /\ ~op.pool ->
           IF s.bal[op.source][USDC] = None
           THEN {With(s, op.source, USDC, IF op.limit = 0 THEN None ELSE 0)}
           ELSE IF op.limit > 0
           THEN {s}
           ELSE IF s.bal[op.source][USDC] = 0
           THEN {With(s, op.source, USDC, None)}
           ELSE {}
      [] op.kind = "pathPaymentStrictSend" ->
           UNION {Exchange(s, op.source, op.asset, op.amount, op.dest, op.destAsset, n) :
                    n \in op.destAmount..op.destAmount + 1}
      [] op.kind = "pathPaymentStrictReceive" ->
           UNION {Exchange(s, op.source, op.asset, n, op.dest, op.destAsset, op.destAmount) :
                    n \in {0, op.amount}}
      [] op.kind = "clawback" ->
           Leaves(s, op.dest, op.asset, op.amount)
      [] op.kind = "createClaimableBalance" ->
           Leaves(s, op.source, op.asset, op.amount)
      [] op.kind \in {"manageSellOffer", "manageBuyOffer", "createPassiveSellOffer"} ->
           {s} \cup Exchange(s, op.source, op.asset, op.amount,
                             op.source, op.destAsset, op.destAmount)
      [] op.kind = "liquidityPoolDeposit" ->
           UNION {Leaves(t, op.source, USDC, op.usdc) :
                    t \in UNION {Leaves(s, op.source, Native, n) : n \in {0, op.native}}}
      [] op.kind = "liquidityPoolWithdraw" ->
           UNION {Arrives(t, op.source, USDC, op.usdc) :
                    t \in UNION {Arrives(s, op.source, Native, n) :
                                    n \in op.native..op.native + 1}}
      [] op.kind = "claimClaimableBalance" ->
           Arrives(s, op.source, op.asset, op.amount)
      [] op.kind = "setOptions" ->
           {[s EXCEPT !.signers[op.source] =
                ((@ \cup op.adds) \ op.drops) \ (IF op.master = 0 THEN {op.source} ELSE {})]}
      [] op.kind = "invokeHostFunction" ->
           IF op.fn = "transfer"
           THEN Transfer(s, op.source, USDC, op.amount, op.dest)
           ELSE IF op.fn \in {"approve", "approveInside"}
           THEN {[s EXCEPT !.allowances = @ \cup {<<op.source, op.dest>>}]}
           ELSE {s}

\* The ledgers an operation may lead to from one of these; its source must be an
\* account still.
AppliedToEach(op, states) ==
    UNION {Applied(op, t) : t \in {u \in states : u.bal[op.source][Native] # None}}

Charged(charge, s) == Plus(s, charge.payer, Native, -charge.fee)

\* All the ledgers the transaction's operations may lead to, applied in order.
AllApplied(tx, charge, s) ==
    LET after[i \in 0..Len(tx.ops)] ==
            IF i = 0 THEN {Charged(charge, s)} ELSE AppliedToEach(tx.ops[i], after[i - 1])
    IN  after[Len(tx.ops)]

\* An envelope whose payer can pay is included.  When an operation fails, for a reason
\* the ledger shows or for one it does not (no offer to cross, no such balance to
\* claim), the charge is all that is left of it.
Pays(charge, s) == s.bal[charge.payer][Native] >= charge.fee

Outcomes(tx, charge, s) ==
    IF Pays(charge, s) THEN AllApplied(tx, charge, s) \cup {Charged(charge, s)} ELSE {}
================================================================================
