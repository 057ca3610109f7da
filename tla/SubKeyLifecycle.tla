---------------------------- MODULE SubKeyLifecycle ----------------------------
(***************************************************************************)
(* The sub-keys of one merchant of one account, from the approval that     *)
(* mints one to the revocation that removes it, across three places: the   *)
(* chain (signers of the smart wallet, the allowance of                    *)
(* MerchantSpendPolicy), IndexedDB (the sub_keys table, the mandate rows   *)
(* of X402Ledger) and the worker's memory (the decrypted keys).            *)
(*                                                                         *)
(* Every transaction is sent and awaited: it lands, it fails, or it lands  *)
(* and the answer is lost, which the code cannot tell from a failure.  An  *)
(* action is the code between two awaits.  Calls of the surfaces interleave *)
(* with each other, with locks and worker death.                           *)
(*                                                                         *)
(* Keys are numbered in the order they are generated.  Legacy stands for a *)
(* key minted under the retired policy contract, which caps it until its   *)
(* signer expires.  Sub-keys belong to an origin, mandates to an origin    *)
(* and an asset.  A row that the code marks "revoked" is "revoked" here    *)
(* when the owner had the signer removed (it has a revokeSignature) and    *)
(* "retired" when the wallet only stopped using the key.                   *)
(***************************************************************************)
EXTENDS Integers, FiniteSets, FiniteSetsExt

CONSTANTS
    Assets,        \* assets the merchant charges in, as numbers: the order of listAllowances
    Calls,         \* bound: calls of the surfaces at a time
    MandateTicks,  \* mandateSecondsFor(policy), in ticks
    MaxKeys,       \* bound: keys generated
    MaxNonce,      \* bound: promotions of one mandate
    MaxEvents,     \* bound: kinds of events in causes
    MaxTime        \* bound: the clock

ASSUME LifecycleAssumption ==
    /\ IsFiniteSet(Assets) /\ Assets # {} /\ Assets \subseteq Nat
    /\ MandateTicks \in Nat /\ MaxKeys \in Nat /\ MaxNonce \in Nat
    /\ MaxEvents \in Nat /\ MaxTime \in Nat

VARIABLES
    now,         \* the clock of the worker and of the chain
    installed,   \* the policy is a signer of the wallet
    bound,       \* the policy's allowance for the merchant: key and expiry
    signers,     \* what each key may sign on the wallet: asset and expiry
    keys,        \* status of each row of sub_keys
    mandate,     \* per asset, the row of the allowance ledger
    unlocked,    \* session.ts holds the seed
    cache,       \* sub-key-cache.ts holds these keys decrypted
    minted,      \* keys generated so far
    call,        \* where each call is
    causes       \* history: events after which the key may be out of step

chain == <<installed, bound, signers>>
db == <<keys, mandate>>
memory == <<unlocked, cache>>
vars == <<now, chain, db, memory, minted, call, causes>>

--------------------------------------------------------------------------------
Legacy == 0
Keys == Legacy..MaxKeys
NoKey == -1
NoExpiry == -1

Events == {"overlap", "died", "extended", "unreported", "assets", "retired"}

NoCall == [pc |-> "idle", asset |-> Min(Assets), seen |-> 0, live |-> FALSE,
           existing |-> NoKey, key |-> NoKey, todo |-> {},
           copy |-> [status |-> "pending", until |-> NoExpiry, nonce |-> 0]]

Init ==
    /\ now = 0
    /\ installed = FALSE /\ bound = [key |-> NoKey, until |-> NoExpiry]
    /\ keys \in {[k \in Keys |-> IF k = Legacy THEN s ELSE "absent"] : s \in {"absent", "active"}}
    /\ signers = [k \in Keys |-> [asset |-> Min(Assets),
                                  until |-> IF keys[k] = "active" THEN MandateTicks ELSE NoExpiry]]
    /\ mandate = [a \in Assets |-> NoCall.copy]
    /\ unlocked = FALSE /\ cache = {}
    /\ minted = 0
    /\ call = [c \in Calls |-> NoCall]
    /\ causes = {}

isMandateLive(row) == row.status = "active" /\ (row.until = NoExpiry \/ now <= row.until)

\* The rows findActiveSubKeyForMerchant may return: those of the policy in use.
listActive == {k \in Keys : keys[k] = "active"}
bindable == listActive \ {Legacy}

\* What the chain lets a key pay: __check_auth of the wallet, then policy__ of the
\* contract in use; the retired contract answers for its own key.
Accepts(k, a) ==
    /\ signers[k].until >= now /\ signers[k].asset = a
    /\ k = Legacy \/ (installed /\ bound.key = k /\ bound.until >= now)

Busy(c) == call[c].pc \notin {"idle", "shown"}
Quiet == \A c \in Calls : ~Busy(c)

Noted(events) ==
    /\ causes' = causes \cup events
    /\ Cardinality(causes') <= MaxEvents

\* A call that begins while another is under way.
Meeting(c) == IF \E d \in Calls \ {c} : Busy(d) THEN {"overlap"} ELSE {}

At(c, pc) == call[c].pc = pc
Goes(c, pc) == call' = [call EXCEPT ![c].pc = pc]
Ends(c) == call' = [call EXCEPT ![c] = NoCall]

\* A transaction: whether it takes effect, and whether the code learns of it.
Outcomes == {"lands", "fails", "unreported"}

--------------------------------------------------------------------------------
(* Plausible bugs, for the mutants. *)

Kept_IgnoresLapse(c, k) == k # NoKey

Others_OnlyExisting(c) == {call[c].existing} \ {NoKey}

Removed_WhateverTheAnswer(c, outcome) == Goes(c, "removed")

--------------------------------------------------------------------------------
(* txSignHandler: the answer to a payment request, and the promotion *)

\* A popup shows the terms of a mandate; its nonce is read when it is queued.
Shows(c, a) ==
    /\ At(c, "idle") /\ mandate[a].nonce < MaxNonce
    /\ call' = [call EXCEPT ![c] = [NoCall EXCEPT !.pc = "shown", !.asset = a,
                                                  !.seen = mandate[a].nonce]]
    /\ UNCHANGED <<now, chain, db, memory, minted, causes>>

\* The payment is signed and the row read before it is promoted.
Approves(c) ==
    /\ At(c, "shown") /\ unlocked
    /\ minted + Cardinality({d \in Calls : Busy(d)}) < MaxKeys
    /\ call' = [call EXCEPT ![c].pc = "promote", ![c].live = isMandateLive(mandate[call[c].asset])]
    /\ Noted(Meeting(c))
    /\ UNCHANGED <<now, chain, db, memory, minted>>

promoteAllowance(c) ==
    LET a == call[c].asset
    IN  /\ At(c, "promote")
        /\ IF mandate[a].nonce # call[c].seen
           THEN Ends(c) /\ UNCHANGED <<mandate, causes>>
           ELSE /\ mandate' = [mandate EXCEPT ![a] = [status |-> "active",
                                                      until |-> now + MandateTicks,
                                                      nonce |-> mandate[a].nonce + 1]]
                /\ call' = [call EXCEPT ![c].pc = "row", ![c].seen = 0]
                /\ Noted(IF call[c].live /\ mandate[a].until # now + MandateTicks
                         THEN {"extended"} ELSE {})
        /\ UNCHANGED <<now, chain, keys, memory, minted>>

--------------------------------------------------------------------------------
(* refreshSubKeyAfterApproval *)

refreshReadsRow(c) ==
    /\ At(c, "row")
    /\ call' = [call EXCEPT ![c].pc = "find", ![c].copy = mandate[call[c].asset]]
    /\ UNCHANGED <<now, chain, db, memory, minted, causes>>

Kept(c, k) == k # NoKey /\ call[c].live

\* The catch clause: a key that was there is retired.
Catches(c, k) ==
    IF k = NoKey THEN Ends(c)
    ELSE call' = [call EXCEPT ![c] = [NoCall EXCEPT !.pc = "retireFailed", !.asset = call[c].asset,
                                                    !.existing = k]]

\* The passphrase is remembered for five minutes after an unlock: that it is
\* forgotten by now is a choice.  Then, or when locked, the refresh fails.
findActiveSubKeyForMerchant(c) ==
    /\ At(c, "find")
    /\ \E k \in IF bindable = {} THEN {NoKey} ELSE bindable :
          \/ Kept(c, k) /\ Ends(c)
          \/ ~Kept(c, k) /\ Catches(c, k)
          \/ /\ ~Kept(c, k) /\ unlocked
             /\ call' = [call EXCEPT ![c].pc = "install", ![c].live = FALSE, ![c].existing = k]
    /\ UNCHANGED <<now, chain, db, memory, minted, causes>>

\* provisionMerchantSubKey; ensurePolicyInstalled sends nothing when it is installed.
ensurePolicyInstalled(c) ==
    /\ At(c, "install")
    /\ \E outcome \in IF installed THEN {"lands"} ELSE Outcomes :
          /\ installed' = (installed \/ outcome # "fails")
          /\ IF outcome = "lands" THEN Goes(c, "grant") ELSE Catches(c, call[c].existing)
    /\ UNCHANGED <<now, bound, signers, db, memory, minted, causes>>

setAllowance(c) ==
    /\ At(c, "grant")
    /\ minted' = minted + 1
    /\ \E outcome \in Outcomes :
          /\ bound' = IF outcome = "fails" THEN bound
                      ELSE [key |-> minted', until |-> now + MandateTicks]
          /\ IF outcome = "lands"
             THEN call' = [call EXCEPT ![c].pc = "add", ![c].key = minted']
             ELSE Catches(c, call[c].existing)
    /\ UNCHANGED <<now, installed, signers, db, memory, causes>>

buildAddSubKeyTransaction(c) ==
    /\ At(c, "add")
    /\ \E outcome \in Outcomes :
          /\ signers' = IF outcome = "fails" THEN signers
                        ELSE [signers EXCEPT ![call[c].key] =
                                 [asset |-> call[c].asset, until |-> now + MandateTicks]]
          /\ IF outcome = "lands" THEN Goes(c, "write") ELSE Catches(c, call[c].existing)
    /\ UNCHANGED <<now, installed, bound, db, memory, minted, causes>>

putSubKey(k) == cache' = cache \cup {k}

writeSubKey(c) ==
    /\ At(c, "write")
    /\ keys' = [keys EXCEPT ![call[c].key] = "active"]
    /\ putSubKey(call[c].key)
    /\ Goes(c, "list")
    /\ Noted(IF Assets = {call[c].asset} THEN {} ELSE {"assets"})
    /\ UNCHANGED <<now, chain, mandate, unlocked, minted>>

Others(c) == listActive \ {call[c].key}

listOthers(c) ==
    /\ At(c, "list")
    /\ call' = [call EXCEPT ![c].pc = IF Others(c) = {} THEN "save" ELSE "retire",
                            ![c].todo = Others(c)]
    /\ UNCHANGED <<now, chain, db, memory, minted, causes>>

\* setSubKeyStatus(k, "revoked") and evictSubKey(k); without a revokeSignature the
\* row keeps the one it has.
Marked(k, status) ==
    /\ keys' = [keys EXCEPT ![k] = status]
    /\ cache' = cache \ {k}
    /\ UNCHANGED <<mandate, unlocked>>

Retired(k) == Marked(k, IF keys[k] = "revoked" THEN "revoked" ELSE "retired")

retireOther(c) ==
    /\ At(c, "retire")
    /\ \E k \in call[c].todo :
          LET left == call[c].todo \ {k}
          IN  /\ Retired(k)
              /\ call' = [call EXCEPT ![c].pc = IF left = {} THEN "save" ELSE "retire",
                                      ![c].todo = left]
    /\ UNCHANGED <<now, chain, minted, causes>>

retireFailed(c) ==
    /\ At(c, "retireFailed")
    /\ Retired(call[c].existing)
    /\ Noted({"retired"})
    /\ Goes(c, "reread")
    /\ UNCHANGED <<now, chain, minted>>

refreshRereadsRow(c) ==
    /\ At(c, "reread")
    /\ call' = [call EXCEPT ![c].pc = "save", ![c].copy = mandate[call[c].asset]]
    /\ UNCHANGED <<now, chain, db, memory, minted, causes>>

\* The last write of a refresh and of setStatus: the whole row, as it was copied.
writeAllowance(c) ==
    /\ At(c, "save")
    /\ mandate' = [mandate EXCEPT ![call[c].asset] = call[c].copy]
    /\ Ends(c)
    /\ UNCHANGED <<now, chain, keys, memory, minted, causes>>

--------------------------------------------------------------------------------
(* The owner: ledger.pause, ledger.unpause, ledger.revoke *)

\* listAllowances(...).find: the first row of the origin.
Target == Min(Assets)

\* setStatus reads the row; writeAllowance puts it back.
setStatusReads(c, status) ==
    call' = [call EXCEPT ![c].pc = "save", ![c].asset = Target,
                         ![c].copy = [mandate[Target] EXCEPT !.status = status]]

ledgerPause(c) ==
    /\ At(c, "idle")
    /\ \E status \in {"paused", "active"} : setStatusReads(c, status)
    /\ Noted(Meeting(c))
    /\ UNCHANGED <<now, chain, db, memory, minted>>

ledgerRevoke(c) ==
    /\ At(c, "idle") /\ unlocked
    /\ IF listActive = {} THEN setStatusReads(c, "revoked")
       ELSE call' = [call EXCEPT ![c].pc = "remove", ![c].todo = listActive]
    /\ Noted(Meeting(c))
    /\ UNCHANGED <<now, chain, db, memory, minted>>

Removed(c, outcome) == IF outcome = "lands" THEN Goes(c, "removed") ELSE Ends(c)

\* Removing what is no signer any more may fail or succeed.
buildRemoveSubKeyTransaction(c) ==
    /\ At(c, "remove")
    /\ \E outcome \in Outcomes, k \in {Min(call[c].todo)} :
          /\ signers' = IF outcome = "fails" THEN signers
                        ELSE [signers EXCEPT ![k].until = NoExpiry]
          /\ Noted(IF outcome = "unreported" THEN {"unreported"} ELSE {})
          /\ Removed(c, outcome)
    /\ UNCHANGED <<now, installed, bound, db, memory, minted>>

\* The row of the removed key, then the next key or the status of the mandate.
markRevoked(c) ==
    LET k == Min(call[c].todo)
    IN  /\ At(c, "removed")
        /\ Marked(k, "revoked")
        /\ call' = [call EXCEPT ![c].pc = IF call[c].todo = {k} THEN "status" ELSE "remove",
                                ![c].todo = call[c].todo \ {k}]
        /\ UNCHANGED <<now, chain, minted, causes>>

revokeMandate(c) ==
    /\ At(c, "status")
    /\ setStatusReads(c, "revoked")
    /\ UNCHANGED <<now, chain, db, memory, minted, causes>>

--------------------------------------------------------------------------------
(* The session *)

\* unlockWith and preloadActiveSubKeys, in one step.  Every active key is then in
\* the cache until it is locked again, so the lazy decryption of getSubKeypair has
\* nothing left to do.
unlock ==
    /\ ~unlocked /\ unlocked' = TRUE
    /\ cache' = cache \cup listActive
    /\ UNCHANGED <<now, chain, db, minted, call, causes>>

\* clearSubKeyCache and lock; the idle timer locks and leaves the cache alone.
lock ==
    /\ unlocked /\ unlocked' = FALSE
    /\ cache' \in {{}, cache}
    /\ UNCHANGED <<now, chain, db, minted, call, causes>>

WorkerDies ==
    /\ unlocked' = FALSE /\ cache' = {}
    /\ call' = [c \in Calls |-> NoCall]
    /\ Noted(IF Quiet THEN {} ELSE {"died"})
    /\ UNCHANGED <<now, chain, db, minted>>

Tick ==
    /\ now < MaxTime /\ now' = now + 1
    /\ UNCHANGED <<chain, db, memory, minted, call, causes>>

--------------------------------------------------------------------------------
CallStep(c) ==
    \/ promoteAllowance(c) \/ refreshReadsRow(c) \/ findActiveSubKeyForMerchant(c)
    \/ ensurePolicyInstalled(c) \/ setAllowance(c) \/ buildAddSubKeyTransaction(c)
    \/ writeSubKey(c) \/ listOthers(c) \/ retireOther(c)
    \/ retireFailed(c) \/ refreshRereadsRow(c) \/ writeAllowance(c)
    \/ buildRemoveSubKeyTransaction(c) \/ markRevoked(c) \/ revokeMandate(c)

CallBegins(c) ==
    \/ \E a \in Assets : Shows(c, a)
    \/ Approves(c) \/ ledgerPause(c) \/ ledgerRevoke(c)

Next ==
    \/ \E c \in Calls : CallBegins(c) \/ CallStep(c)
    \/ unlock \/ lock \/ WorkerDies \/ Tick

Spec == Init /\ [][Next]_vars

--------------------------------------------------------------------------------
\* Well typed; a key has a row only if it was generated, the policy is bound to a
\* generated key, and a failed refresh retires one that exists.
TypeOK ==
    /\ now \in 0..MaxTime /\ minted \in 0..MaxKeys /\ installed \in BOOLEAN
    /\ keys \in [Keys -> {"absent", "active", "retired", "revoked"}]
    /\ \A k \in Keys : keys[k] # "absent" => k <= minted
    /\ bound.key \in {NoKey} \cup 1..minted
    /\ \A k \in Keys : signers[k].asset \in Assets
    /\ unlocked \in BOOLEAN /\ cache \subseteq Keys
    /\ \A c \in Calls : At(c, "retireFailed") => call[c].existing \in 1..minted
    /\ causes \subseteq Events

\* The key a live mandate is paid with is one the chain accepts, at rest and until
\* something happens that the code does not repair: two calls at once, a worker
\* that dies in one, a repeated approval that extends the mandate and not the key,
\* a removal that landed without an answer, a second asset of the merchant
\* (sub-key-lifecycle.ts, header: "in step with its mandate").
KeyInStep ==
    causes \subseteq {"retired"} /\ Quiet =>
        \A a \in Assets, k \in bindable : isMandateLive(mandate[a]) => Accepts(k, a)

\* A key the owner revoked pays nothing from then on, however calls overlapped,
\* transactions failed, answers were lost or the worker died.  One the wallet only
\* stopped using pays nothing either, while calls came one at a time and no failed
\* renewal retired it; a key of the retired policy may, under that policy's own cap
\* (ledgerRevokeHandler, refreshSubKeyAfterApproval).
RevokedCannotPay ==
    \A a \in Assets, k \in Keys :
        /\ keys[k] = "revoked" => ~Accepts(k, a)
        /\ keys[k] = "retired" /\ k # Legacy /\ causes \cap {"overlap", "retired"} = {} =>
              ~Accepts(k, a)

\* What sub-key-lifecycle.ts:131-132 says of a key whose renewal failed: its mandate
\* lapsed on the chain, so anything it signs would be rejected.
RetiredIsRejected ==
    causes \subseteq {"retired"} /\ Quiet =>
        \A a \in Assets, k \in Keys \ {Legacy} : keys[k] = "retired" => ~Accepts(k, a)

\* However approvals overlap, at rest the merchant has one usable key at most, so
\* findActiveSubKeyForMerchant has no choice (the loop of refreshSubKeyAfterApproval).
OneUsableKey == Quiet /\ "died" \notin causes => Cardinality(bindable) <= 1
================================================================================
