# Verification of the Baret wallet

Baret is a transaction firewall wallet for Stellar. A browser extension signs x402
payments for web pages and AI agents within caps its user granted; a Soroban policy
contract enforces the same caps on chain, for sub-keys that sign without the user; an
analysis server judges transactions before they are signed and sells its analyses by
key or by payment; a headless agent signs only what that server vouched for, within limits
its owner set on the contract.

The modules here model the code that decides *what is signed, on whose behalf, and
within which limit*. TLC checks them on small instances, and TLAPS proves for every
instance the guarantees of the contract, the allowance ledger, the session, the windows and
pages, the wallet's accounts, the sub-keys, the monitor, the anchors, the server's keys and
limits, an agent's commands and the guard in front of what it signs.
Paths below are relative to `src/`.

## 1. Inventory

### 1.1 Modelled

| Part | State it keeps | Operations | What makes it hard | What makes it correct |
|---|---|---|---|---|
| **merchant-spend-policy** (`contracts/contracts/merchant-spend-policy/src/lib.rs`) | per wallet an installed flag; per wallet and merchant an allowance with caps, status, expiry and a merged spend log | `install`, `uninstall`, `set_allowance`, `pause`, `resume`, `revoke`, `policy__` | a day-long log kept in a bounded number of entries; grants that outlive an uninstall; anyone may call `uninstall` | the real payments of any trailing day stay within the cap; revoked is final |
| **x402 allowance ledger** (`apps/extension/src/background/db/allowances.ts`, `x402/handlers.ts`, `wallet-standard/handlers.ts`, `swig/sub-key-lifecycle.ts`) | one IndexedDB row per account, merchant and asset: status, expiry, nonce, spend log; an active sub-key | two entry points that read, create, reserve, sign or queue; the popup that approves or declines; promotion and sub-key refresh; the owner's pause, unpause, revoke | every await interleaves; some writes are one transaction, others copy the row and write it back later; the worker dies | the log never passes the caps, nor do the payments signed under a reservation; nothing is signed in the background before the user approved or resumed the merchant; every request is answered |
| **session and sign queue** (`background/crypto/session.ts`, `state/`, `wallet-standard/sign-queue.ts`, `messaging/handlers.ts`, `index.ts`) | phase, decrypted seed, sub-key cache, sign queue, listeners waiting for an unlock | connect, sign, auth entry and x402 requests; the popup; lock, idle lock, unlock, create, reset; bootstrap | the phase follows no rule but the order of dispatches; listeners run inside a dispatch; locks arrive while something is being signed | signed once; a waiting request stays visible; no seed behind the lock screen; nothing hangs |
| **popup window, pages, router** (`background/popup-window.ts`, `messaging/router.ts`, `content/index.ts`, `inpage/page-bridge.ts`) | the one window id, the ports of the tabs, the promise of each page call with its five minutes | open, focus, close; post, answer, give up, disconnect | three awaits with one shared id; a worker that dies with calls pending | what waits is on the screen; one window; no page left waiting on a dead port |
| **accounts and keystore row** (`background/db/keystore.ts`, `swig/provision.ts`, `messaging/handlers.ts`) | the keystore row on disk, the session's active index, the snapshot surfaces show | add, switch, rename, provision, unlock, lock | three copies of one fact, whole-row writes after awaits of up to thirty seconds | the copies agree at rest; a smart wallet belongs to the account that deployed it; no write forgets anything |
| **sub-keys** (`swig/sub-keys.ts`, `swig/sub-key-lifecycle.ts`, `db/sub-keys.ts`, `crypto/sub-key-cache.ts`) | signers and allowance on chain, the `sub_keys` table, the mandate rows, the decrypted keys | refresh after an approval, retirement of the others, its failure path, revoke, pause, unlock, lock | one fact in three places, changed by transactions that may land without an answer | the key in use is one the chain accepts; a revoked key cannot pay; one usable key |
| **monitor, history, alerts** (`background/rpc/monitor.ts`, `db/history.ts`, `db/alerts.ts`) | the saved cursor, history rows, alerts, the loop's own fields | start, stop, restart, poll, backfill, reconcile | no poll is cut short; fields are read again after each await; one cursor for all accounts | the cursor passes nothing unexplained; a running monitor has its next poll to come; what happened on chain is noticed |
| **anchors** (`background/sep/*.ts`) | cached toml, remembered accounts, login tokens | login (SEP-10), recognising a challenge, the withdrawal guard, the trustline exception | every check leans on something read earlier, and a third party changes its mind | what the wallet confirms on the anchor's word was the anchor's word, and recent |
| **analysis server: keys, limits, payment gate** (`apps/server/src/keys`, `api/auth.ts`, `api/routes/{analyze,batch,developer}.ts`, `infra/x402.ts`, `app.ts`, `index.ts`) | key store in memory and `keys.json`, a debounced flush, two fixed-window limiters, payments settled | issue, authenticate, analyze, batch, revoke, record usage, flush, close, crash, load, also of a file it cannot read | charged in one hook and again in a route; a file write that fails; a payment presented twice | rate limit, paid analyses, keys and revocations that survive a restart |
| **analysis and policy engine** (`apps/server/src/simulation`, `analysis`, `risk`, `policy/engine.ts`, `application/analyze-transaction.ts`) | none | projected balances, findings of the detectors, verdict | worst-case prices, accounts looked at or not, rounding | the projection is a floor; what the policy forbids does not land |
| **agent-guard, attestation, swig-guard client** (`packages/agent-guard/src/{agent,attestation,config}.ts`, `packages/swig-guard/src/{analyze,guard}.ts`, `apps/server/src/attestation`) | the call in flight | `guardedSign`, `guardedSubmit` | the answer may be lost, mixed up, altered, unsigned; the ledger moves between verdict and transaction; a fee bump is judged by what is inside it | no transaction unvouched is signed; every call ends |
| **`baret limits`** (`packages/agent-guard/src/{spend-policy,limits-cli}.ts`) | owner and agent processes; transactions that can still land | setup, wallet, install, fund, pay, pause, resume, revoke | a transaction outlives the process that sent it; setup is four of them | a failed status is final, any other failure settled after one window; after setup the agent's key works |

### 1.2 How they interact

A page calls the content script, which calls the worker (`messaging/router.ts` picks the
handler). A payment request reads its *ledger* row; when it needs the user it enters the
*sign queue*, and the *popup window* is opened for it. The answer comes back through
`tx.sign`, which promotes the ledger row and refreshes the merchant's *sub-key*: the
sub-key is registered on the smart wallet under the *policy contract*, which from then on
checks each of its transfers by itself. What unlocks the seed and the sub-keys is the
*session*; which account they belong to is the *keystore row*. The *monitor* compares what
reached the chain with what the wallet recorded. A page's transaction is analysed first:
the *anchor* checks answer by themselves, everything else goes to the *server* over HTTP,
as does the *agent*'s. Between the parts travel calls and answers only; the shared state is
the ledger row, the keystore row, and the phase.

How the models compose:

* `AgentSpend` EXTENDS `MerchantSpendPolicy`: each transaction of a command takes effect
  as an action of the contract itself.
* `AgentGuard` EXTENDS `TxAnalysis`, which EXTENDS `StellarLedger`: one call of the agent,
  the server's judgement and what the network makes of the transaction.
* `Surfaces` EXTENDS `SignFlow`, and `WalletSession` implements it (`ImplementsSignFlow`):
  windows and pages rely on nothing of the session but what SignFlow says.
* `MerchantSpendPolicy` implements `SpendingMandate` (`ImplementsMandate`).
* `X402Ledger` models the queue as far as the ledger sees it (queued, approved, declined,
  lost); `WalletSession` models the queue itself and treats the review of a payment as one
  awaited step with every outcome X402Ledger shows. `SubKeyLifecycle` carries the refresh
  X402Ledger has as one awaited step through to the chain, with the policy's
  allowance reduced to what it binds (key and expiry).

The contract does not trust the extension, so its model assumes nothing about it.

### 1.3 Not modelled

| Part | Why |
|---|---|
| payment-guard contract | superseded and used by no app (`contracts/README.md:8`). Its window arithmetic is SpendLedger's; what reading it showed is in section 6 |
| popup and options pages, UI kits, showcase, web wallet, docs site | display and demonstrations: most of the repository's lines. What a surface can send is the set of the owner's actions in the models |
| generated API description, schemas, config, CORS | pure parsing and data |
| x402 parse and build, KDF, HD derivation, XDR decoding, instruction summaries, suggestions | pure; their results are inputs of the models |
| attempt limiter | one counter with a back-off; what reading it showed is in section 6 |
| analyze client of the extension | one HTTP call, an awaited step with every outcome in X402Ledger and WalletSession |
| policy DSL, profiles | the rule language is called by no route; profiles are data |
| audit store, reputation | a bounded map in order of arrival; a list |
| demo paywall, facilitator client, MCP, replay | stateless handlers around one outside call each; verify and settle are outside calls of AnalyzeServer |
| baret-adapter, fetch interceptor, provider objects | relay calls to the page bridge |
| `prove` and the other command lines of agent-guard | scripts of the modelled commands |

`PROJECT.json` lists each with its files.

## 2. The modules

### SpendLedger, SpendingMandate, MerchantSpendPolicy

`SpendLedger` is the arithmetic: a ledger is a function from timestamps to amounts,
`WindowSum(log, now)` what it holds in the trailing day. Sums are recursive functions, so
that they can be proved about. `SpendingMandate` is the abstract specification: a party
holds a mandate with caps, status and expiry, *every payment is kept for ever*, and a
payment happens only if the exact sum of the last day stays within the cap.
`MerchantSpendPolicy` is the contract: its log merges spends of one fifteen-minute slice
into one entry at the later time and prunes what left the window. Besides the contract's
own storage it keeps, as history, the exact payments (`paid`), the sub-keys that made
them, and the grants made before an uninstall. It is checked, and proved, to implement
SpendingMandate.

One action per entry point; `add_signer` and `remove_signer` of the wallet, which call
`install` and nothing, are `install` and `RemovePolicySigner`; `Tick` closes a ledger.
Storage rent is left out: an archived entry is restored unchanged.

### X402Ledger

An action is the code between two awaits, or one IndexedDB transaction. `req[r].pc`
says where request `r` is: `read`, `create`, `build`, `reserve`, `sign`, `queued`,
`perform`, `promote`, `refresh`, `rewrite`. The reads that are used later keep what they
read: the liveness (`manual`), the nonce of the terms the user is shown, the row copied by
`refreshSubKeyAfterApproval` and by `setStatus`. `tryReserveSpend` and `promoteAllowance`
are one transaction each, as in the code. A log maps the requests that reserved to the
`ts` of their entries, so a write that resurrects an entry resurrects its real time.
No action deletes the row: `clearAllAllowances` has no caller, and the schema migration
runs before any request.
`consent` and `lost` are history: whether the user ever agreed, and the first write that
dropped a live reservation. An auth entry whose reservation is refused, or which names no
mandate terms, goes to the popup and is signed there without being reserved (`before` is the
moment after); the signed requests counted in `PaidSince` are those with a reservation.

### SignFlow, WalletSession, Surfaces

`SignFlow` is the contract between the worker and what surrounds it: the phase, and for
each request one place (`busy`, `waiting`, `queued`, `performing`, `answered`, ...).

`WalletSession` is the worker. `Dispatched` is its heart: a dispatch sets the phase, its
listeners run inside, every waiter wakes unless the phase is `locked`, and each one that
enqueues itself dispatches again. Two surfaces may hold one request (`held`). A request signed in the
background is not through yet: `recording` is the time in which its history entry and notice
are written, `RecordFails` their failure, after which an auth entry goes to the user
although it is signed (`unrecorded`). `booting` is
the time between a wake-up and `rehydrate`, in which messages are already handled.
`interrupted` is history.

`Surfaces` adds the page's promise, the tab's port and the window. `openPopupWindow` has
up to three awaits (`get`, `focus`, `create`) around one shared `currentPopupWindowId`; an
`opener` is one call in flight. A step of the flow and what the worker does to its window
in the same breath are one action. `dismissed` and `overlapped` are history.

### AccountStore

Each call copies the row, awaits, and writes the copy. `meetings` counts how often a call
or a lock met another call: properties that the code only keeps for calls made one at a
time are stated under `alone`, and the module is explicit about it. What overlaps do is
listed in section 6.

### SubKeyLifecycle

The sub-keys of one merchant across chain (`installed`, `bound`, `signers`), tables
(`keys`, `mandate`) and memory (`cache`). Keys are numbered in the order they are minted;
`Legacy` is one minted under the retired policy: the chain takes what it signs as long as it
is a signer, whatever the new contract is bound to (`Accepts`). Every transaction lands, fails, or
lands and loses its answer, which the code cannot tell from a failure. `causes` is
history: which of the events the code does not repair have happened (calls that overlap, a
worker that died inside one, a removal without an answer, a repeated approval, ...).
Each property names the causes it excludes, and section 6 says what happens after them.

### StellarLedger, TxAnalysis, AgentGuard

`StellarLedger` is external: what operations do to balances, signers and allowances,
all or none, with path payments and offers at every price within their bound, and an
operation only of an account that exists. An *envelope* is a transaction and a `charge`: who
pays its fee, and how much. For a transaction on its own that is what it says itself
(`OwnCharge`), for a fee bump what the envelope around it says. An envelope that can pay may
always be included and fail for a reason the ledger does not show. An offer is taken at once
or rests, and what it does later is a transaction of others; pool shares, and what
authorization flags do to trustlines, are not kept. `TxAnalysis` is the
server's judgement as operators: which accounts are mentioned and fetched, the projected
balances (`Changed` follows the operations one by one, as the code's loop does) and
trustlines, the findings of each detector a policy flag can read, the loss
ratio in parts per million, the verdict. Operations without a case of their own in
`applyClassicOperationEffects` change nothing there, as in the code. `AgentGuard` is one
call: `guardedSubmit` asks about the transaction inside its envelope
(`unwrapInnerTransaction`), the verdict is signed with a time and a nonce, the answer travels (`Served`, `MixUp`, `Alter`, lost), `Decide` verifies and signs,
`submitTransaction` sends, `Land` applies. `fresh` is history: the ledger has not moved
since the verdict.

### AgentSpend

Owner and agent are processes of their own. A command is a sequence of transactions
(`setup` is deploy, install, set_allowance, add_signer); each is built, sent, polled for.
`tx` holds those that can still land or are polled for; one lands at most once, in the
order of its account's sequence numbers (`current`), within its time bound (`until`). A
send whose answer is lost, a poll given up or thrown and a killed process leave theirs behind;
`report` says what the command told its caller of it: a failed final status, a failure that
says nothing of the transaction, or nothing. A
landing transaction is an action of the contract.

### Monitor

A task is a poll or a backfill, an action the code between two of its awaits. A page is
the transactions it holds: `tx` is the one the loop of `pollAccount` is at, the first in
paging order, `rest` those after it (`Reconciling` takes the next). `bumpLastSeen` is last,
after the reconciliation of each transaction. Every poll ends in `scheduleNext`, also one
that failed. `orphans` are timers that tick although `pollTimer` no longer names them. `due`
is history: what the monitor owes an answer, reset by a switch of accounts.

### Anchors

There is no clock: what the code stamps with a time has an age, which stops growing where
nothing looks further back. The anchor publishes one toml after the other (`Tomls`), and
closes orders; a job is the analysis of one transaction with what it read on its way.
`asked`, `old` and `signed` are history.

### AnalyzeServer

Requests walk the hooks of `app.ts` in order: `AuthenticatedByKey` or
`isGatedByX402Instead`, then the body, the gate (`preHandlerAnalyze`, `VerifyReturns`),
the analysis, `settleAfterSuccess`, and `recordUsage` when the answer is out. The file is
replaced whole or not at all, and a write may fail; the first failure switches
persistence off as in `flushNow`. A start may find the file unreadable, set it aside and
begin empty, or skip malformed keys of it (`load`). `charged`, `analyses`, `promised`,
`dead`, `lost` and `delivered` are history. It uses `SpendLedger` for the trailing windows of its limiter.

## 3. The runs

| Run | Question | Bounds, and why they are enough |
|---|---|---|
| `policy_window` | do merging and pruning keep the cap, refuse little, make revocation final, refine the mandate? | one merchant, two sub-keys; a day of 4 ticks with buckets of 2, eight ticks: two windows, so entries merge, age across a bucket's edge and are pruned; two grants: every rebinding and renewal; caps and lifetimes of zero and above the maximum exercise the refusals. More wallets, merchants and sub-keys are the theorems' |
| `ledger_race` | two requests, popup and one owner call in every order, under fairness | merchant unknown at first, both entry points, the automatic mode switched on and off, one tick. Longer histories are the theorem's (`CapsHold`) |
| `ledger_create` | does the daily cap hold? *violated* | two first payments |
| `wallet_session` | two requests of four kinds against lock, idle lock, unlock, create, reset and worker death; does it implement SignFlow? | two requests are what a queue needs to hide one behind another; one call of a surface at a time, locks and requests at any moment of it |
| `surfaces` | is the window there, once; is the page told? | two requests, two openings at once, three windows, any number of deaths and gestures |
| `account_store` | do row, session and snapshot agree? | three accounts, two calls, one overlap |
| `sub_keys` | is the key in use one the chain accepts, a revoked one dead, the usable one unique? | two calls at once on one asset, two keys, two promotions, one kind of event out of the ordinary: each kind is met, alone, at every moment |
| `monitor` | is every transaction explained, whatever stops, restarts and dies? | two accounts, two transactions, two tasks in flight, two events |
| `anchors` | is the anchor's word its word, and recent? | two accounts, one login and one analysis at a time, two tomls (a key and an account replaced by others), one order, tokens that outlive what the code keeps by one step |
| `agent_guard` | is what is signed vouched for, the projection a floor, the policy kept on chain? | more than a hundred envelopes (each kind of operation alone, most pairs, and fee bumps), four policies, pinned or not, two ledgers, one transaction of others at any moment |
| `agent_spend` | is a failed status final, any other failure bounded, does setup work? | one key, two transactions outstanding, three commands, four ticks: a command, the one that failed before it and the one that lands late |
| `analyze_server` | limits, payments and what callers are told of keys, over a stop and a restart | two requests and one payment they may share, two keys of which one may exist (so revoked keys fill the store), two windows, failing writes, one stop and a start that may find the file unreadable. More keys and stops are the theorems' |

Clocks stop at `MaxTime`, and histories at the bounds the modules name. The bounds that
say how much may happen (`MaxEvents`, `MaxMoves`, `MaxCommands`, `MaxMeetings`, `MaxUses`,
`MaxStops`, ...) are guards of the actions they bound. Deadlock is not checked where
the modelled world may really stop: `ledger_race` and `ledger_create` (every request
answered, the clock at its bound), `agent_guard` (the call is over), `agent_spend` (no
command left, nothing outstanding), `monitor`, `surfaces` and `anchors` (nothing left to
happen). The symmetric sets are used symmetrically; no property of the runs with SYMMETRY is
temporal beyond `[][A]_vars`.

Every property has a mutant in `PROJECT.json`: a plausible slip in a mapped definition
that makes the property fail on the same bounds.

### Where the code does not keep what is written of it

The run `ledger_create` checks a sentence of the documentation that the code does not keep:
two first payments of a merchant; the second `put` of a default row erases the first one's
reservation, and both can be approved past the daily cap, which `docs/x402-defense.md:106`
says concurrent requests cannot do.

Six more configurations stand beside the runs and end in a counterexample on purpose. They
are kept to be run by hand (`tlc -config LedgerRelease.cfg X402Ledger`) and none of them is
among the runs of `PROJECT.json`. Each checks one sentence of a comment or a doc:

| Configuration | Module | Property | What happens, and what is written |
|---|---|---|---|
| `LedgerRelease.cfg` | `X402Ledger` | `ReleaseSparesOthers` | A payment that fails to sign releases the newest entry of its amount, which is another payment's when that one was reserved in between; `allowances.ts:239` says this can never happen |
| `LedgerEntryPoints.cfg` | `X402Ledger` | `EntryPointsEnforceCaps` | An auth entry over the cap goes to the popup and is signed there uncounted, where `x402Review` declines; `wallet-standard/handlers.ts:372` speaks of lockstep |
| `LedgerResume.cfg` | `X402Ledger` | `AutoSignNeedsApproval` | Resuming a merchant that was never approved is enough for background signatures, which `allowances.ts:84` and `x402/handlers.ts:252` reserve to a merchant the user manually authorized |
| `SubKeyRetired.cfg` | `MCSubKeyLifecycle` | `RetiredIsRejected` | A paused merchant is approved again and the renewal fails: the key is retired though its mandate has not lapsed, against `sub-key-lifecycle.ts:131` |
| `GuardFeeBump.cfg` | `MCAgentGuard` | `LossAsDocumented` | Of a fee bump only the inside is judged; the outer fee takes the wallet past the percentage `docs/policy-dsl.md:27` promises |
| `GuardOtherOperations.cfg` | `MCAgentGuard` | `OthersMoveNothing` | Offers, pool deposits and withdrawals and claimable balances move balances, which the comment at `extract-deltas.ts:223` denies of operations without a case |

## 4. Fairness

* X402Ledger: the steps of a request inside the worker, and of an owner's call once made,
  are weakly fair: the event loop runs every task that is ready, and the calls they await
  return or throw.
* WalletSession: the 120-second timer fires and awaited calls return.
* Monitor: the timer fires and the awaits of a poll return; each `Works(t)` has its own
  fairness, a failure is always possible instead. Nothing makes the wallet ready;
  `DriftIsNoticed` asks that it stays so.
* AgentGuard: the fifteen-second timeout of the HTTP call fires and Horizon answers or
  fails; nothing is assumed of the server.

Nothing is assumed of a page, of the user at the popup, of unlocks or of the worker
staying alive: requests are answered, *put before the user*, or lost with the worker. The
other modules state safety only: where something must happen eventually, it waits for a
user, a network or an anchor that owes nothing.

## 5. The proofs

`SpendLedgerProofs` proves the arithmetic: sums are well defined, monotone, shift by what
is pushed, lose nothing to pruning, and shrink when time passes. The recursive sum is
unfolded by `SumUpToDef`, and induction is done through the least element of a set of
naturals (`NatSetInduction`), since the library's induction theorems take an operator.

`AgentProofs` proves of the contract, for all wallets, merchants, sub-keys, caps, lengths of
the day and buckets (`PolicyAssumption` asks only for positive numbers with the bucket
dividing the day, which is how the constants of `lib.rs` are):

| Theorem | Says |
|---|---|
| `TypeCorrect` | `[]TypeOK` |
| `CapIsKept` | `[]CapNeverExceeded` |
| `RefusesLittleEarly` | `[]RefusesAtMostOneBucketEarly` |
| `LogIsBounded` | `[]LogBounded` |
| `RevocationIsFinal` | `RevocationFinal` |
| `Refinement` | `ImplementsMandate` |

The cap is not inductive by itself: `policy__` checks the *merged* log, the property speaks
of the exact payments. The strengthening `IInv` adds that the log dominates the payments:
for every start of a window not after now, the sum of the log's entries from there on is
at least the sum of the exact payments from there on. Merging moves an amount to a *later*
time, so it is counted longer, never shorter (`MergeIsPush`, `RecordSpend`); pruning drops
what no window ahead can reach; a tick only narrows the window. With the check of
`policy__` on the log, the cap follows for the payments. `IInv` also has one entry per
bucket, none in the future and none a day older than another, which bounds the
log. Refinement uses the same domination: what the log admits, the exact history admits.

The price of merging is the opposite bound: the log must not count more than was paid. That
is false from an arbitrary instant on, since an entry moves forward, but an entry moves
only inside its slice. `BoundedInv` therefore speaks of the *starts* of slices: from each of
them on, the log counts no more than the payments (`RecordSpendInSlice`). The window that
matters starts somewhere inside a slice, and the start of that slice is less than one bucket
earlier (`SliceStart`), which is the bucket of the property.

`X402LedgerProofs` proves, for every number of requests and owner calls, all caps, windows
and amounts, and both starting states (`LedgerAssumption` asks for natural caps and an hour
no longer than a day):

| Theorem | Says |
|---|---|
| `TypeCorrect` | `[]TypeOK` |
| `LogKeepsCaps` | `[]LogWithinCaps` |
| `ConsentBeforeAutoSign` | `[]AutoSignNeedsConsent` |
| `CapsHold` | `[]CapsHoldUnlessLost` |

None of the last three is inductive on the row alone, because a copy somebody holds may be
written back at any later step. Each strengthening therefore says of *every copy*, the
owner's and each request's, what it says of the row.

* `TInv` adds to the types when there is a row (`RowExists`): a step that writes the row
  found one, since no action deletes it.
* `CapInv` (`WithinCaps`): the counted entries of the row and of every copy are within the
  caps, and no copy has an entry of a request that has not reserved yet. The second half
  makes a reservation add its amount exactly once. A copy stays within the caps because
  entries only age, and a written row is a copy with no more in its log
  (`NextRowOrigin`), a fresh one, or one that passed `CapsAllow`.
* `AutoSignNeedsConsent` accepts a merchant resumed by hand, which `LedgerResume.cfg` shows is
  less than the comments ask. `ConsentInv`: without consent neither the row nor a copy is active, so no request is on
  the way to an automatic signature (`NotAuto`).
* `ReservedInv`: a request turned down is through (`EndInv`); an entry of any copy has the
  time its request reserved at (`DatedInv`); and unless a loss was noted, the row holds
  each reservation that still counts (`KeptInv`). `NextWatched` shows that only the
  four writes which look for a loss can remove an entry, apart from the pruning of
  `tryReserveSpend`. With `CapInv`, what was paid in a window is part of a log within the
  caps (`PaidIsLogged`).

`CapsHold` covers what no run reaches: owner calls together with three and more payments.
It speaks of the payments signed under a reservation, and *until* a loss: `ledger_create` and
`LedgerRelease.cfg` show that the code does lose, `LedgerEntryPoints.cfg` that it signs without a
reservation. The theorem says there is no fourth way past the caps.

`AgentProofs` goes on to owner and agent over the contract: it proves, for all keys, amounts,
windows, polling times and any number of transactions and commands
(`AgentSpendAssumption` asks for positive windows and margins, and a mandate the contract accepts):

| Theorem | Says |
|---|---|
| `AgentTypeCorrect` | `[]AgentTypeOK` |
| `FailureIsFinalHolds` | `[]FailureIsFinal` |
| `AgentObeysContract` | `AgentSpec => Spec`: every behaviour of owner and agent is one of the contract |
| `AgentWithinCap` | `[]CapNeverExceeded` under retries, late landings and abandoned commands |
| `GrantHolds` | `[]GrantedKeyWorks` |

* `Waiting` adds to the types what each process waits for: the transaction it sent, with a
  deadline past the time bound of that transaction, because `PollFor` exceeds the window.
  A poll that is given up is therefore given up on something that cannot land
  (`GivenUpIsOver`), unless it is fund's. A lost answer or a poll that throws leaves a
  transaction that can land; of those `TxInv` says that no time bound is further ahead than
  one window, whatever the clock, which is when the command may be repeated.
* `StepOfContract` maps each step to a step of the contract or to none, so
  `CapIsKept` carries over without being proved again.
* `GrantInv` is what `GrantedKeyWorks` needs. `Stages` says what each step of a setup has
  achieved on chain (`Wallet` installed, then the key bound, then the key registered for at
  least as long as the allowance), and `NoneCurrent` why no earlier command can undo it: the
  transaction that landed took the sequence number of every other one of the owner. Those
  still current while `add_signer` is on its way are copies of it (`Registers`). `Roles`
  says that the agent only pays, which leaves the grant alone (`ChainKept`).

`RevocationIsFinal` carries over to the agent the same way.

`AgentProofs` ends with the guard: for all accounts, policies, ledgers, and transactions of
any number of operations that meet `IsTransaction`, which says what the network takes
(`AgentAssumption`, `AnalysisAssumption`):

| Theorem | Says |
|---|---|
| `GuardTypeCorrect` | `[]GuardTypeOK` |
| `SignedWasVouched` | `[]SignedIsVouched` |
| `BalancesShownAreFloor` | `[]EstimateIsFloor` |
| `PolicyHoldsOnChain` | `BalancesWithinPolicy` |
| `ForbiddenIsKeptAway` | `ForbiddenStaysAway` |

* `VouchInv`: the answer on its way is `Genuine`, that is, a signature of the pinned key on
  it is over the payload of a verdict that server issued. Altering an answer keeps what its
  signature is over, restamps it or drops it, so `Verified` finds the verdict the payload was
  made of. It is a verdict on the transaction inside the envelope: the charge of a fee bump
  is in nobody's payload.
* `JudgedInv`: until the ledger moves, every safe verdict on the call's transaction is what
  the server would say of the ledger *as it is* (`JudgedOn`); before a request was answered
  there is none. The ledger moves at the end of a call only by `Land` (`LandsByLand`).
* What lands is then a matter of one transaction. `AllApplied` and `Changed` are recursive
  functions over its operations. `AppliedInOrder` and `ChangedInOrder` unfold them one
  operation at a time, and `AlongOperations` is the induction, from `NatSetInduction`.
* `Spared`: each part of a ledger is as it was unless an operation of the kind that may
  touch it is there (`OperationAlone` for one, `TransactionSpares` for all). With
  `SafeHasNone`, a safe verdict means the detectors saw no such operation.
* `DeltaIsFloor`: operation by operation, no account ends with less than the projection
  says (`ChangeIsFloor`), at any price, with the fee the transaction itself names; what the
  envelope charges beyond that is `UnseenFee`, which is nothing unless it is a fee bump. With what a safe verdict says of
  the projection (`SafeLossIsBounded`, `SafeBalanceIsLeft`) the policy's limits hold of the
  ledger; `RoundedLoss` is the part per million the engine's division drops.

The bounds of the run do not show these: a floor for one or two operations is no floor for a
hundred, which is what Stellar takes.

`WalletSessionProofs` proves, for any number of requests and of calls of the surfaces:

| Theorem | Says |
|---|---|
| `TypeCorrect` | `[]TypeOK` |
| `SignedOnce` | `[]SignedAtMostOnce` |
| `NothingHidden` | `[]AnswersHideNothing` |
| `NoSeedBehindLock` | `[]LockedHoldsNoSeed` |
| `Refinement` | `ImplementsSignFlow` |

* `FlowOK` says that a request is in one place: the queue lists exactly the requests at
  `queued`, the waiters those `waiting`, each once (`Lists`). A dispatch inside which
  listeners enqueue themselves keeps this (`DispatchedFlow`), which is most of the work:
  what the model says about the order of the listeners is one definition, `InOrder`, and the
  queue is shortened by one entry with `RemoveFirst`. A recursive selection says the same
  and could not be reasoned about.
* `SignedInv`: a request was signed only if it is answered or being recorded, and an answered
  one is in no queue that a second approval could take it from. An auth entry whose record
  failed comes back to the queue with one signature (`Before`), and takes one more.
* `BootInv`: a worker that has not rehydrated has no seed and no call past its first step;
  hence whoever holds a seed behind the lock screen is about to announce it.
* Refinement needs only `FlowInv`: each step changes phase and places as an action of
  SignFlow with the set of requests that wake, or as a stutter.

`NoticeProofs` proves, for any number of requests, openings, windows and worker deaths:

| Theorem | Says |
|---|---|
| `TypeCorrect` | `[]TypeOK` |
| `ShownAtRest` | `[]FlowIsShown` |
| `OneAtATime` | `[]OneWindow` |
| `ToldAtOnce` | `[]PageIsTold` |

`FlowIsShown` speaks of flows at rest; `Shown` adds what holds while an opening runs: the
window is there, or some opening is still going to see to it (`Working`). `OneWindow` is
kept by `Single`: without an overlap one opening at most runs, what it read of the shared id
is still the id, and an opening about to create a window does so because there is none.
Since WalletSession implements SignFlow, the theorems hold of windows and pages around the
session itself.

It also proves of the monitor, for any accounts, chain and history, any finite set of polls
in flight, and any number of stops, starts, switches, failures and deaths
(`MonitorAssumption` asks that "no account" is none of them):

| Theorem | Says |
|---|---|
| `MonitorTyped` | `[]MonitorTypeOK` |
| `CursorPassesNothing` | `[]NothingSkipped` |
| `NextPollToCome` | `[]LoopGoesOn` |

* `NothingSkipped` says nothing of the polls in flight, each of which will save a cursor of
  its own. `Owed` says for each what it will not pass: a poll of the watched account that
  holds a page has, up to any transaction of the page, only what is explained or is in the
  page itself, and at `bump` the transaction it is at is explained. So the cursor saved by
  the last of several overlapping polls is as safe as that of the first, also when it goes
  back.
* `TaskOK` keeps a page in paging order and on the chain, so that a transaction confirmed
  meanwhile lies beyond every page (`TaskLonger`); `OwedLess` and `OwedNone` say that rows
  and forgiven debts make the rest easier.
* A poll of another account owes nothing, and forgives what is due when it saves its cursor:
  the exception of section 6 is in `due`, not in the property.
* `GoesOn` is inductive with the types: while the monitor runs, its timer goes only when it
  fires and begins a poll, and a poll goes only in `scheduleNext`, which sets the timer.

`KeyStoreProofs` proves of the server, for any keys, requests and payments, all limits, window
lengths and numbers of stops, in every mode (`ServerAssumption` asks for finitely many keys,
positive windows, and the gate switched on where the mode needs it, as `config/index.ts` does):

| Theorem | Says |
|---|---|
| `TypeCorrect` | `[]TypeOK` |
| `BudgetHolds` | `[]RateKept` |
| `NothingForFree` | `[]AnalysesCharged` |
| `ToldIsKept` | `[]PromisesSurvive` |
| `PaymentSpentOnce` | `[]PaidOnce` |

* `RateInv` relates the limiter's entry to the exact hits. `Bounds`: from the start of the
  entry's window on, the hits are at most its count; from any instant less than a window
  before that, at most one full limit more. `Rested`: a key whose entry was swept had no
  hit in this instant and at most one limit's worth in the trailing window, so that
  a fresh entry may start from nothing (`OverIsRested`, `FreshBounds`). The sums are those
  of `SpendLedgerProofs`, at the length of the limiter's window.
* `ChargeInv` adds to the analyses begun those that a request has been charged for and has
  not begun (`Pending`): a batch is charged in two hooks, the first of which pays for one.
* `KeysInv`: what was promised is in the file, and in memory while the server is up, except
  for the keys a start could not read (`lost`), which the code gives up; no timer runs while
  it is down.
* `PaidOnce` is inductive with the types: a settlement finds a payment unsettled.

It also proves of the wallet's accounts, for any number of accounts, of calls in progress
and of meetings (`AccountAssumption` asks for one account at least):

| Theorem | Says |
|---|---|
| `StoreTyped` | `[]StoreTypeOK` |
| `SessionSnapshotRow` | `[]AloneAgrees` |
| `WalletOfItsAuthority` | `[]OwnSmartWallet` |
| `RowForgetsNothing` | `AloneForgetsNothing` |

* `Typed` holds however calls interleave: what a call copied is a row without a gap, and
  stays one when the call writes it over another.
* The other three speak of calls that come one at a time. While nothing met a call in
  progress there is at most one (`One`), and `Holds` says what its copy is to row, session
  and snapshot: before the write the copy forgets nothing of the row and gives each account
  its own wallet (`Ahead`); after it the copy is the row, and an account under deployment is
  the active one and has none yet (`Copied`).
* `SessionMoves` and `SnapshotLags` name the only steps between which session and row, or
  snapshot and row, name two accounts: a switch moves the session before the row, an
  addition after it, and provisioning shows its wallet one read later. At rest, with no
  call in progress, none of them is left.
* A death of the worker leaves row and snapshot alike, since `bootstrap` reads the one from
  the other, so it needs no exception.

`SubKeyLifecycleProofs` proves, for any assets and calls, every number of keys, promotions
and events in any combination:

| Theorem | Says |
|---|---|
| `TypeCorrect` | `[]TypeOK` |
| `KeyKeptInStep` | `[]KeyInStep` |
| `RevokedPaysNothing` | `[]RevokedCannotPay` |
| `OneKeyAtRest` | `[]OneUsableKey` |

All three properties speak of rest and say nothing of the middle of a call, where the code
is out of step on purpose. The invariants describe the middle.

* `PairsInv`: of two usable keys, some call in flight is on its way to retire one, either
  about to list them or with the key on its list (`WillRetire`). It holds with any number
  of overlapping refreshes, since the one that writes its key last lists the others.
* `StepInv`: until an event the code does not repair, each stage of a call knows how far
  chain, table and mandate have come (`StepCall`): before the row is written the mandate
  may be ahead of its key, afterwards not.
* `RevokedInv`: a key marked retired has lost its signer or its allowance, and a call that is
  about to mark one has seen to it (`RevokedCall`). `RemovedInv`: a key the owner revoked is
  no signer, of whichever policy, and no call under way can make it one again.
* `AloneInv` and `CountInv`: without an overlap at most one call is busy, and the calls that
  may still mint a key have room for it.

`KeyKeptInStep` and `RevokedPaysNothing` name their exceptions in the property itself
(`causes`); section 6 says what the code does after each.

`AnchorsProofs` proves, for any tomls, orders and transactions, any number of logins and
analyses side by side, and all times to live and timeouts (`AnchorsAssumption` asks that
the token's margin covers the two readings before a request and the request itself, and
that a day is longer than two requests, as `session.ts` and `anchor-accounts.ts` have them):

| Theorem | Says |
|---|---|
| `TypeCorrect` | `[]TypeOK` |
| `WithdrawalConfirmed` | `[]ConfirmedWithdrawal` |
| `AnchorPaymentGuarded` | `[]NoQuietAnchorPayment` |
| `AnchorVouches` | `[]VouchedByTheAnchor` |
| `TokenLasts` | `[]TokenLastsTheRequest` |

The properties speak of answers; the invariant says what a call knows at each stage.

* `ClockInv`, `Read` and `KnownInv` date the copies: a cached toml was current when it was
  read, at most `TomlTimeout` before it was stored, and the remembered accounts were current
  at most a toml's life before that. Both stay true because `Current(ticks)` only grows with
  the ticks it looks back (`CurrentGrows`) and with the clock.
* `LoginInv` and `JobInv` (`Going`, `Answered`) say how long each stage has taken, what its
  token still has left, and which toml it holds. `TokenLasts` is the sum of the three timeouts
  against the margin.
* `Open`: while the anchor may still be asked, every waiting order of the account is among
  `asked`, so an answer can only confirm one that waited when the analysis began; orders
  close and never open again.
* `Unlisted` is the form of `NoQuietAnchorPayment` that a step of the clock keeps. It
  speaks of accounts *every* toml of the last day lists: one the anchor drops and lists again
  may be paid unguarded, on a memory made in between.

Model-checked only, on the bounds of section 3:

* liveness (`RequestsAnswered`, `RequestsSettle`, and what `monitor` and `agent_guard` ask
  to happen eventually): fairness and ENABLED are out of the prover's reach. Of
  `DriftIsNoticed` the safety part is proved, that a running monitor has its next poll to
  come (`NextPollToCome`) and that its cursor leaves nothing behind (`CursorPassesNothing`).

Of offers, pool deposits, claimable balances created, merges and token transfers the floor is
not claimed: the code does not follow them (section 6), and `Projected` leaves them out of the
properties. Pool withdrawals and claims only add to a balance; they are not followed
either, and do no harm to a floor.

The type invariants and `LoopGoesOn`, the safety part of `DriftIsNoticed`, are not listed in
the runs: each is a theorem, and was checked on the instances of section 3 while its module
was written.

## 6. What the models show beside the properties

Behaviours of the code met while modelling that no run reports, because nothing in the
repository settles what should happen, because the models leave the other side out, or
because a property names them as its exception.

Policy contract:

* `uninstall` leaves allowances behind which a later install makes spendable again until
  their own expiry; the comment at `lib.rs:341` calls them inert. The caps still hold.

Allowance ledger:

* `ledger.unpause` makes any row active, a pending one included, and leaves its expiry
  null: live for ever without a popup (`LedgerResume.cfg`).
* A change of status leaves the nonce alone: a popup opened before a revocation and
  approved after it makes the merchant active again.
* The status is read before the payment is built: a pause in that time is not seen.
* A release removes the newest entry of the same amount, possibly another request's
  (`LedgerRelease.cfg`).
* Declining the popup keeps the reservation (`x402/handlers.ts:353`): the next payments are
  refused as if it had been paid. `allowances.ts:153` says callers must release.
* A payment approved by hand through `wsSignAuthEntry` is never reserved
  (`LedgerEntryPoints.cfg`).

Session and queue:

* `sign.end` sets `ready` although the wallet was locked meanwhile (`machine.ts:106`); the
  idle lock clears the seed and not the sub-key cache (`session.ts:98`).
* `tx.sign` takes a request from the queue before it looks for an account, which throws
  when the wallet was reset: the page is never answered (`dropped`).
* When `appendHistory` or `notifyAutoApproved` throws after an auth entry was signed in the
  background (`wallet-standard/handlers.ts:484`), the catch at 337 takes it for a failed
  auto-approval: the user is asked about an entry already signed, and it is signed again
  (hence the exception in `SignedAtMostOnce`). `x402Review` answers with the error instead,
  and the signed payment is not sent.
* The sign queue survives a reset; an unlock in progress announces itself after a lock or
  a reset that came in between (hence the exception in `LockedHoldsNoSeed`).
* A message that wakes the worker is handled before `rehydrate`: its request is queued,
  then the phase becomes `locked` and nothing shows it (hence `interrupted`).
* The attempt limiter is asked before the passphrase is tried and told after it: attempts
  that overlap pass the check together; each worker starts with a fresh count.

Windows and pages:

* A popup is opened only when the phase turns to `signing` (`index.ts:70`): after the user
  closed the window, a further request opens nothing until the flow has ended.
* Openings that overlap, or a worker that died, leave two windows; one that was being
  created when the flow ended stays. `resetPopupWindow` is never called.
* After the worker died the content script never opens its port again: every later call of
  that page is refused until it is reloaded.
* The page gives up after five minutes while the request stays queued: the user may
  still approve what nobody receives.
* A trusted site that connects while the wallet is locked leaves the unlock window open.

Accounts and sub-keys:

* Provisioning writes a row copied before the deployment, at the index active by then.
  Account calls that overlap may forget each other's write (hence `alone`).
* A repeated approval under a live mandate extends the mandate and keeps the key
  (`sub-key-lifecycle.ts:66`), whose signer and allowance on chain keep the first expiry:
  from then on payments are signed by a key the chain refuses, where the header of that
  file speaks of a key "in step with its mandate".
* A merchant that charges in two assets has one key and two mandates: pause and revoke
  act on the first row only.
* A key of the retired policy pays under that policy's own cap until its signer expires, also
  when its row says retired; only the owner's revoke takes the signer away. (The header of
  `sub-key-lifecycle.ts` and `db/sub-keys.ts:40` say so.)
* A pause, or a revocation in the table only, then an approval whose refresh fails, retires
  a key that is still good on chain (`SubKeyRetired.cfg`); a lost answer of `remove_signer` leaves a dead key in
  use; a worker that dies between `add_signer` and the write of the row leaves a signer
  nobody holds.
* A switch of accounts does not preload the new account's sub-keys.

Monitor:

* One cursor serves all accounts: after a switch, or through a poll left over from before
  one, another account's transactions are skipped.
* A restart with a poll in flight leaves two loops.
* An own transaction confirmed before its history row is written, or recorded under the
  account switched to, raises a false alert (`LIMITATIONS.md` knows of false alerts).
* A missing cursor (its backfill failed) replays the whole history.

Anchors:

* A login in flight when the wallet locks signs with the key it captured before and saves
  its token after `lock()` cleared them; `session.ts:6` says `lock()` clears it.
* Without a readable toml and nothing remembered, a payment is analysed as anyone's (there
  is a test for it), where `withdraw-guard.ts:14` speaks of failing closed; a withdrawn
  key is believed until the cached toml ages out.
* The same order can be verified twice before the anchor notices its payment.
* A request analysed under one account can be signed after a switch with the other's key.

Server and analysis:

* One failed write of `keys.json` ends persistence until the next start: a revocation after
  it is answered `revoked: true` without a warning and undone by the restart.
* A start that cannot read or parse `keys.json` sets it aside and begins empty, and skips
  malformed keys of one it can (`key-store.ts:231`): keys that callers hold are refused from
  then on (hence `lost` in `PromisesSurvive`).
* Revoked keys count against `maxIssuedKeys`.
* A settlement that times out is answered 502 though the payment may be gone.
* The batch remainder may be charged in a later window than its first analysis.
* Offers, pool deposits and claimable balances created are projected to move nothing
  (`GuardOtherOperations.cfg`), a merge is read from the balance before the transaction,
  transfers by token contracts stay in rows of their own (`Projected`): no balance rule sees
  them. An offer that rests and trades later is in no projection at all. Token events and contracts are keyed in two spellings that never
  meet. The x402 asset check never matches a Soroban asset (`detectors/x402.ts:71`).

Agent:

* `allowOffline` signs after any failure of the call, an answer of 4xx included, where
  `agent.ts:62` says unreachable.
* A verdict's signature covers its time and a nonce, but the verifier checks neither against
  anything (`attestation.ts:109`), so an old verdict is as good as a new one; it does not
  cover the policy that was judged by.
* Of a fee bump, server and verifier see the transaction inside, and the agent signs the
  envelope: its fee, and who pays it, nobody judged (`GuardFeeBump.cfg`).
* A command of `baret limits` also fails when the answer of a send is lost or a poll throws
  (`spend-policy.ts:369`, `374`, `501`, `505`): its transaction may then land, for as long as
  its window lasts. The message does not tell this failure from a final one.
* `fund` polls 20 s for a transaction valid for 30 and does not look at the status of the
  send (`limits-cli.ts:149`): a fund that failed may still land, and again when repeated.
* A renewed grant starts a fresh day of spending.

payment-guard (read, not modelled): `resume` reopens a revoked merchant, `set_allowance`
resets the window, and an expired mandate keeps its reserve.

The `hazards` of `PROJECT.json` name the line of each and the property that watches it; where
the code does what the hazard says and no property forbids it, the note says so.

## 7. Plan

Done: every part of section 1.1 is modelled and checked, and each of its rows has proofs:
every invariant and action property of a passing run is a theorem. What is left:

* Liveness stays with TLC, for the reason given in section 5.
* `payment-guard` as a second refinement of SpendingMandate, only if it comes back into use.
* The second scope of the monitor (the smart wallet's own transactions), the trimming of the
  history and the attempt limiter, each of them now left out by name.
