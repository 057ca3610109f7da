------------------------------ MODULE AgentSpend ------------------------------
(***************************************************************************)
(* packages/agent-guard, `baret limits`: an owner sets an agent's limits   *)
(* on chain and the agent pays with its own key, composed with the policy  *)
(* contract itself (MerchantSpendPolicy).  Owner and agent are processes   *)
(* of their own.  Each works through the transactions of one command: it   *)
(* builds one, sends it, polls for its result and goes on to the next.     *)
(*                                                                         *)
(* A transaction that was sent stays valid until its time bound, whether   *)
(* or not the process still waits for it.  It lands at most once, in the   *)
(* order of its account's sequence numbers; landing, it takes effect or    *)
(* fails.  A dry run sends nothing and is left out.                        *)
(***************************************************************************)
EXTENDS MerchantSpendPolicy, Sequences

CONSTANTS
    Wallet, Merchant,      \* BARET_WALLET and BARET_MERCHANT
    TX_TIMEOUT_SECONDS,    \* validity window of a transaction
    POLL_MARGIN,           \* how much longer than that it is polled for
    FUND_TIMEOUT,          \* window of fund's transaction
    FUND_ATTEMPTS,         \* how long fund polls
    MANDATE_SECONDS,       \* BARET_MANDATE_DAYS
    Slots,                 \* bound: transactions that still matter, as numbers
    MaxFunds,              \* bound: tokens moved to the wallet
    MaxCommands            \* bound: commands run

ASSUME AgentSpendAssumption ==
    /\ Wallet \in Wallets /\ Merchant \in Merchants /\ SubKeys # {}
    /\ {TX_TIMEOUT_SECONDS, POLL_MARGIN, FUND_TIMEOUT, FUND_ATTEMPTS} \subseteq Nat \ {0}
    /\ MANDATE_SECONDS \in Mandates
    /\ Slots \subseteq Nat \ {0} /\ MaxFunds \in Nat /\ MaxCommands \in Nat

VARIABLES
    deployed,     \* the smart wallet exists
    signerUntil,  \* expiry of each key registered on the wallet, NoExpiry for none
    funds,        \* tokens of the wallet
    tx,           \* the transactions sent that can still land or are polled for
    proc,         \* each process: its command and where it is
    commands      \* how many commands were run

contract == <<policySigner, installed, allowance, grants, paid>>
wallet == <<deployed, signerUntil, funds>>
agentVars == <<now, contract, wallet, tx, proc, commands>>

--------------------------------------------------------------------------------
NoExpiry == -1
Processes == {"owner", "agent"}

\* A plausible bug, for a mutant.
setup_KeyFirst == <<"deploy", "install", "add_signer", "set_allowance">>

\* grantMerchant: the allowance goes first.
setup == <<"deploy", "install", "set_allowance", "add_signer">>
Granting == {"set_allowance", "add_signer"}

OwnerCommands ==
    {setup} \cup {<<c>> : c \in {"deploy", "install", "pause", "resume", "revoke", "fund"}}

AnyKey == CHOOSE k \in SubKeys : TRUE

\* What the command of a transaction nobody polls for any more has reported: nothing
\* (success, or killed); a failure that says nothing of the transaction, its answer being
\* lost or the RPC out of reach; a failure with the final status of the transaction.
Reports == {"none", "unknown", "final"}

\* current: it carries the next sequence number of its account.
NoTx == [kind |-> "none", key |-> AnyKey, amount |-> 0, src |-> "owner", current |-> FALSE,
         until |-> 0, expires |-> 0, state |-> "gone", report |-> "none"]

\* granted: the last command was a setup that reported success.
Idle == [pc |-> "idle", todo |-> << >>, key |-> AnyKey, amount |-> 0, slot |-> 0,
         next |-> NoTx, deadline |-> 0, granted |-> FALSE]

AgentInit ==
    /\ Init
    /\ deployed = FALSE /\ signerUntil = [k \in SubKeys |-> NoExpiry] /\ funds = 0
    /\ tx = [i \in Slots |-> NoTx]
    /\ proc = [p \in Processes |-> Idle]
    /\ commands = 0

CanLand(t) == t.state = "pending" /\ now <= t.until /\ t.current

Polled(i) == \E p \in Processes : proc[p].slot = i

--------------------------------------------------------------------------------
\* A plausible bug, for a mutant.
PollFor_Window(kind) == IF kind = "fund" THEN FUND_ATTEMPTS ELSE TX_TIMEOUT_SECONDS

--------------------------------------------------------------------------------
(* A command, one transaction at a time *)

At(p, pc) == proc[p].pc = pc
Throws(p) == proc' = [proc EXCEPT ![p] = Idle]
Step(p) == Head(proc[p].todo)

NextStep(p) ==
    LET todo == Tail(proc[p].todo)
    IN  proc' = [proc EXCEPT ![p] =
                    [Idle EXCEPT !.pc = IF todo = << >> THEN "idle" ELSE "build",
                                 !.todo = todo, !.key = proc[p].key,
                                 !.granted = todo = << >> /\ Step(p) \in Granting]]

OwnerRuns(command, k) ==
    /\ At("owner", "idle") /\ commands < MaxCommands
    /\ commands' = commands + 1
    /\ proc' = [proc EXCEPT !["owner"] = [Idle EXCEPT !.pc = "build", !.todo = command,
                                                      !.key = k]]
    /\ UNCHANGED <<now, contract, wallet, tx>>

payMerchant(k, amount) ==
    /\ At("agent", "idle") /\ commands < MaxCommands
    /\ amount > 0
    /\ commands' = commands + 1
    /\ proc' = [proc EXCEPT !["agent"] = [Idle EXCEPT !.pc = "build", !.todo = <<"pay">>,
                                                      !.key = k, !.amount = amount]]
    /\ UNCHANGED <<now, contract, wallet, tx>>

\* ensureWallet and ensurePolicyInstalled send nothing when it is done already.
AlreadyDone(p) ==
    /\ At(p, "build")
    /\ \/ Step(p) = "deploy" /\ deployed
       \/ Step(p) = "install" /\ Wallet \in policySigner
    /\ NextStep(p)
    /\ UNCHANGED <<now, contract, wallet, tx, commands>>

\* pay and fund fix the time bound as they build, the others as they send.
OwnWindow(p) ==
    CASE Step(p) = "pay"  -> now + TX_TIMEOUT_SECONDS
      [] Step(p) = "fund" -> now + FUND_TIMEOUT
      [] OTHER            -> 0

PollFor(kind) == IF kind = "fund" THEN FUND_ATTEMPTS ELSE TX_TIMEOUT_SECONDS + POLL_MARGIN

\* Read the account, simulate, check the fee and sign.
Build(p) ==
    /\ At(p, "build")
    /\ Step(p) = "install" => Wallet \notin policySigner
    /\ proc' = [proc EXCEPT ![p].pc = "send",
                            ![p].next = [NoTx EXCEPT !.kind = Step(p), !.key = proc[p].key,
                                            !.amount = proc[p].amount, !.src = p,
                                            !.current = TRUE, !.expires = now + MANDATE_SECONDS,
                                            !.until = OwnWindow(p)]]
    /\ UNCHANGED <<now, contract, wallet, tx, commands>>

\* A refused simulation, a fee above the ceiling, no answer.
BuildThrows(p) ==
    /\ At(p, "build") /\ Throws(p)
    /\ UNCHANGED <<now, contract, wallet, tx, commands>>

\* sendTransaction accepts the transaction; without its answer the command fails.
Send(p) ==
    /\ At(p, "send")
    /\ \E i \in {j \in Slots : tx[j] = NoTx /\ \A n \in Slots : n < j => tx[n] # NoTx},
          answered \in BOOLEAN :
        /\ tx' = [tx EXCEPT ![i] = [proc[p].next EXCEPT
                                       !.until = IF @ = 0 THEN now + TX_TIMEOUT_SECONDS ELSE @,
                                       !.state = "pending",
                                       !.report = IF answered THEN "none" ELSE "unknown"]]
        /\ IF answered
           THEN proc' = [proc EXCEPT ![p].pc = "poll", ![p].slot = i, ![p].next = NoTx,
                                     ![p].deadline = now + PollFor(proc[p].next.kind)]
           ELSE Throws(p)
    /\ UNCHANGED <<now, contract, wallet, commands>>

\* It is rejected (status ERROR) or never arrives; fund would poll in vain.
SendFails(p) ==
    /\ At(p, "send") /\ Throws(p)
    /\ UNCHANGED <<now, contract, wallet, tx, commands>>

\* Nobody waits for p's transaction any more.
Left(p, report) ==
    LET t == tx[proc[p].slot]
    IN  tx' = [tx EXCEPT ![proc[p].slot] =
                  IF CanLand(t) THEN [t EXCEPT !.report = report] ELSE NoTx]

PollSucceeds(p) ==
    /\ At(p, "poll") /\ tx[proc[p].slot].state = "landed"
    /\ Left(p, "none") /\ NextStep(p)
    /\ UNCHANGED <<now, contract, wallet, commands>>

\* NOT_FOUND after the last attempt.
GivesUp(p) == now >= proc[p].deadline

PollFails(p) ==
    /\ At(p, "poll")
    /\ \/ tx[proc[p].slot].state = "failed"
       \/ tx[proc[p].slot].state = "pending" /\ GivesUp(p)
    /\ Left(p, "final") /\ Throws(p)
    /\ UNCHANGED <<now, contract, wallet, commands>>

\* The RPC cannot be reached and the command fails, or the process is killed.
Dies(p) ==
    /\ ~At(p, "idle") /\ Throws(p)
    /\ IF At(p, "poll") THEN \E report \in {"none", "unknown"} : Left(p, report)
                         ELSE UNCHANGED tx
    /\ UNCHANGED <<now, contract, wallet, commands>>

--------------------------------------------------------------------------------
(* The chain *)

\* What a transaction does when it succeeds.
TakesEffect(t) ==
    \/ /\ t.kind = "deploy" /\ ~deployed /\ deployed' = TRUE
       /\ UNCHANGED <<now, contract, signerUntil, funds>>
    \/ /\ t.kind = "fund" /\ funds < MaxFunds /\ funds' = funds + 1
       /\ UNCHANGED <<now, contract, deployed, signerUntil>>
    \/ /\ t.kind = "add_signer" /\ deployed
       /\ signerUntil' = [signerUntil EXCEPT ![t.key] = t.expires]
       /\ UNCHANGED <<now, contract, deployed, funds>>
    \/ /\ t.kind = "install" /\ deployed /\ install(Wallet)
       /\ UNCHANGED wallet
    \/ /\ t.kind = "set_allowance" /\ deployed
       /\ \E cap \in Caps : set_allowance(Wallet, Merchant, t.key, cap, cap, MANDATE_SECONDS)
       /\ UNCHANGED wallet
    \/ /\ deployed
       /\ \/ t.kind = "pause" /\ pause(Wallet, Merchant)
          \/ t.kind = "resume" /\ resume(Wallet, Merchant)
          \/ t.kind = "revoke" /\ revoke(Wallet, Merchant)
       /\ UNCHANGED wallet
    \/ /\ t.kind = "pay" /\ now <= signerUntil[t.key] /\ t.amount <= funds
       /\ policy__(Wallet, t.key, Merchant, t.amount)
       /\ funds' = funds - t.amount
       /\ UNCHANGED <<deployed, signerUntil>>

\* Its account's sequence number moves on: whatever else carries it is void.
Settles(i, state) ==
    LET src == tx[i].src
        Outdated(t) == IF t.src = src THEN [t EXCEPT !.current = FALSE] ELSE t
    IN  /\ CanLand(tx[i])
        /\ tx' = [j \in Slots |->
                     IF ~Polled(j) /\ tx[j].src = src THEN NoTx
                     ELSE IF j = i THEN [tx[i] EXCEPT !.state = state, !.current = FALSE]
                     ELSE Outdated(tx[j])]
        /\ proc' = [proc EXCEPT ![src].next = Outdated(@)]
        /\ UNCHANGED commands

Lands(i) == Settles(i, "landed") /\ TakesEffect(tx[i])

\* Included, and refused by the contract or short of a resource.
FailsOnChain(i) == Settles(i, "failed") /\ UNCHANGED <<now, contract, wallet>>

\* Transactions past their time bound are dropped.
LedgerCloses ==
    /\ Tick
    /\ tx' = [j \in Slots |-> IF Polled(j) \/ tx[j].until > now THEN tx[j] ELSE NoTx]
    /\ UNCHANGED <<wallet, proc, commands>>

--------------------------------------------------------------------------------
ProcessStep(p) ==
    \/ AlreadyDone(p) \/ Build(p) \/ BuildThrows(p) \/ Send(p) \/ SendFails(p)
    \/ PollSucceeds(p) \/ PollFails(p) \/ Dies(p)

AgentNext ==
    \/ \E command \in OwnerCommands, k \in SubKeys : OwnerRuns(command, k)
    \/ \E k \in SubKeys, amount \in Amounts : payMerchant(k, amount)
    \/ \E p \in Processes : ProcessStep(p)
    \/ \E i \in Slots : Lands(i) \/ FailsOnChain(i)
    \/ LedgerCloses

AgentSpec == AgentInit /\ [][AgentNext]_agentVars

--------------------------------------------------------------------------------
\* How long a transaction stays valid.
Window(kind) == IF kind = "fund" THEN FUND_TIMEOUT ELSE TX_TIMEOUT_SECONDS

\* A command that reports its transaction's final status as a failure leaves nothing that
\* can still happen (spend-policy.ts: "NOT_FOUND means expired, not still pending"); fund,
\* which polls for less than its window, is the exception.  One that fails because its
\* answer was lost or a poll threw may have left a transaction that lands: but not later
\* than one window after the report, and then it may be run again.
FailureIsFinal ==
    \A i \in Slots :
        /\ tx[i].report = "final" /\ tx[i].kind # "fund" => ~CanLand(tx[i])
        /\ tx[i].report # "none" => tx[i].until <= now + Window(tx[i].kind)

\* Once setup has reported success, and until the owner runs another command, the
\* agent's key is accepted by wallet and policy for as long as the mandate lasts,
\* whatever earlier commands left unanswered (grantMerchant).
GrantedKeyWorks ==
    proc["owner"].granted =>
        LET k == proc["owner"].key
            a == allowance[<<Wallet, Merchant>>]
        IN  /\ Wallet \in installed /\ <<Wallet, Merchant>> \in DOMAIN allowance
            /\ a.signer = k /\ a.status = "Active"
            /\ now <= a.expires_at => now <= signerUntil[k]
================================================================================
