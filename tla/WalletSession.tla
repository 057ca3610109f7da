----------------------------- MODULE WalletSession -----------------------------
(***************************************************************************)
(* The session of the extension's service worker: the phase every surface  *)
(* shows, the decrypted seed, the sub-key cache, and the requests of dApps *)
(* on their way to the user: waiting for an unlock, waiting in the sign    *)
(* queue, being signed.                                                    *)
(*                                                                         *)
(* The phase is no function of the session: session.ts decides whether the *)
(* seed is in memory, machine.ts what the phase is, and each handler keeps *)
(* the two together by the order of its own calls.  An action is the code  *)
(* between two awaits.  Listeners of the store run inside dispatch, and a  *)
(* promise they resolve continues before any other task: Dispatched        *)
(* includes both.  All of it dies with the worker; the keystore stays.     *)
(***************************************************************************)
EXTENDS Integers, Sequences, FiniteSets, SequencesExt

CONSTANTS
    Requests,   \* bound: requests dApps send, each once
    Calls       \* bound: wallet.create, wallet.unlock and wallet.reset calls at a time

VARIABLES
    phase,       \* WalletState.phase
    authority,   \* WalletState.authorityAddress is set
    keystore,    \* a keystore row is on disk
    unlocked,    \* session.ts holds the decrypted seed
    cache,       \* the sub-key cache holds a decrypted key
    remembered,  \* ... and the passphrase to decrypt others
    booting,     \* bootstrap has not rehydrated the state yet
    call,        \* where each call of a surface is
    kind, pc,    \* what each request asks for, and where it is
    waiters,     \* waitForUnlock's listeners, in order of subscription
    queue,       \* the sign queue
    held,        \* requests some open surface shows
    interrupted, \* history: requests queued when a lock, unlock or reset came
    signed,      \* history: signatures made for each request
    unrecorded   \* history: auth entries signed unasked whose record failed

session == <<authority, keystore, unlocked, cache, remembered, booting, call>>
flow == <<phase, pc, waiters, queue, interrupted>>
signatures == <<signed, unrecorded>>
vars == <<session, flow, kind, held, signatures>>

Phases == {"uninitialized", "locked", "ready", "signing"}

Kinds == {"connect", "sign", "authEntry", "x402"}

Steps == {"idle", "waiting", "permission", "review", "recording", "queueing", "queued",
          "performing", "answered", "dropped", "lost"}

CallSteps == {"idle", "decrypt", "preload", "encrypt", "announce", "clear"}

Init ==
    /\ keystore \in BOOLEAN
    /\ phase = "uninitialized" /\ booting = TRUE
    /\ authority = FALSE /\ unlocked = FALSE /\ cache = FALSE /\ remembered = FALSE
    /\ call = [c \in Calls |-> "idle"]
    /\ kind = [r \in Requests |-> "sign"] /\ pc = [r \in Requests |-> "idle"]
    /\ waiters = <<>> /\ queue = <<>>
    /\ held = {} /\ interrupted = {}
    /\ signed = [r \in Requests |-> 0] /\ unrecorded = {}

--------------------------------------------------------------------------------
(* The store and its listeners *)

\* The members of S in the order in which the sequence s holds them.
InOrder(s, S) ==
    {t \in Bijection(1..Cardinality(S), S) :
        \A i, j \in DOMAIN t, k, l \in DOMAIN s :
            t[i] = s[k] /\ t[j] = s[l] /\ k < l => i < j}

\* A dispatch brings the phase to p, with queue q and requests at pcs.  Unless p
\* is "locked" every waiter wakes: a reset refuses it, otherwise connect goes on
\* to read its permission and a signature enqueues itself and starts the flow.
Dispatched(p, q, pcs) ==
    LET woken == IF p = "locked" THEN {} ELSE Range(waiters)
    IN  \E signers \in InOrder(waiters,
                               {r \in woken : p # "uninitialized" /\ kind[r] # "connect"}) :
        /\ phase' = IF signers # <<>> THEN "signing" ELSE p
        /\ queue' = q \o signers
        /\ waiters' = IF p = "locked" THEN waiters ELSE <<>>
        /\ pc' = [r \in Requests |->
                     IF r \notin woken THEN pcs[r]
                     ELSE IF p = "uninitialized" THEN "answered"
                     ELSE IF kind[r] = "connect" THEN "permission" ELSE "queued"]

\* wallet.locked, wallet.unlocked, wallet.created and wallet.reset set the phase
\* whatever is queued.
Interrupts(p) ==
    /\ Dispatched(p, queue, pc)
    /\ interrupted' = interrupted \cup Range(queue)

At(r, step) == [pc EXCEPT ![r] = step]

\* enqueue and sign.start.
Enqueued(r) ==
    /\ Dispatched("signing", Append(queue, r), At(r, "queued"))
    /\ UNCHANGED interrupted

Continues(r, step) ==
    /\ pc' = At(r, step)
    /\ UNCHANGED <<phase, waiters, queue, interrupted>>

\* Plausible bugs, for the mutants.
take_KeepsEntry(q, r) == q

endSignFlowIfDrained_Always(r, q) ==
    Dispatched("ready", q, At(r, "answered")) /\ UNCHANGED interrupted

unlockWaitTimesOut_Never(r) == pc[r] = "waiting" /\ UNCHANGED vars

lock_KeepsSecret == UNCHANGED unlocked /\ Interrupts("locked")

\* sign-queue.ts, and the listener a timeout unsubscribes.
take(q, r) == RemoveFirst(q, r)

\* The request is answered; the sign flow ends when nothing else is queued.
endSignFlowIfDrained(r, q) ==
    /\ IF q = <<>>
       THEN Dispatched("ready", q, At(r, "answered"))
       ELSE phase' = phase /\ queue' = q /\ waiters' = waiters /\ pc' = At(r, "answered")
    /\ UNCHANGED interrupted

--------------------------------------------------------------------------------
(* Requests of dApps *)

\* waitForUnlock, unless the wallet is open: a phase other than "locked" counts as
\* open.
queueAndWait(r) ==
    IF ~unlocked /\ phase = "locked"
    THEN /\ waiters' = Append(waiters, r)
         /\ pc' = At(r, "waiting")
         /\ UNCHANGED <<phase, queue, interrupted>>
    ELSE Enqueued(r)

wsConnect(r) ==
    IF phase = "locked"
    THEN waiters' = Append(waiters, r) /\ pc' = At(r, "waiting")
         /\ UNCHANGED <<phase, queue, interrupted>>
    ELSE Continues(r, IF phase = "uninitialized" \/ ~authority THEN "answered"
                      ELSE "permission")

Arrives(r, k) ==
    /\ pc[r] = "idle"
    /\ kind' = [kind EXCEPT ![r] = k]
    /\ CASE k = "connect"   -> wsConnect(r)
         [] k = "sign"      -> queueAndWait(r)
         [] k = "authEntry" -> Continues(r, IF unlocked THEN "review" ELSE "queueing")
         [] k = "x402"      -> Continues(r, IF unlocked THEN "review" ELSE "answered")
    /\ UNCHANGED <<session, held, signatures>>

\* The 120 seconds of waitForUnlock are over.
unlockWaitTimesOut(r) ==
    /\ pc[r] = "waiting"
    /\ waiters' = take(waiters, r)
    /\ pc' = At(r, "answered")
    /\ UNCHANGED <<session, phase, queue, interrupted, kind, held, signatures>>

\* A remembered permission answers at once, otherwise the user is asked.
readSitePermission(r) ==
    /\ pc[r] = "permission"
    /\ Continues(r, "answered") \/ Enqueued(r)
    /\ UNCHANGED <<session, kind, held, signatures>>

\* The review of a payment reads no lock after its first line: it signs with the
\* merchant's sub-key where the cache yields one, with the authority otherwise.
AutoSigns(r) ==
    /\ pc[r] = "review"
    /\ \/ (cache \/ remembered) /\ cache' = TRUE
       \/ unlocked /\ UNCHANGED cache
    /\ signed' = [signed EXCEPT ![r] = @ + 1]
    /\ Continues(r, "recording")
    /\ UNCHANGED <<authority, keystore, unlocked, remembered, booting, call, kind, held,
                   unrecorded>>

\* appendHistory and notifyAutoApproved: the page gets its signature.
Records(r) ==
    /\ pc[r] = "recording"
    /\ Continues(r, "answered")
    /\ UNCHANGED <<session, kind, held, signatures>>

\* ... or one of them throws.  x402Review answers with the error; wsSignAuthEntry
\* takes it for a failed auto-approval and asks about an entry already signed.
RecordFails(r) ==
    /\ pc[r] = "recording"
    /\ IF kind[r] = "x402"
       THEN Continues(r, "answered") /\ UNCHANGED unrecorded
       ELSE Continues(r, "queueing") /\ unrecorded' = unrecorded \cup {r}
    /\ UNCHANGED <<session, kind, held, signed>>

\* Declined, sent to the user, or the signature failed.
ReviewEnds(r) ==
    /\ pc[r] = "review"
    /\ IF kind[r] = "x402"
       THEN Continues(r, "answered") \/ Enqueued(r)
       ELSE Continues(r, "queueing")
    /\ UNCHANGED <<session, kind, held, signatures>>

deriveValidUntilLedger(r) ==
    /\ pc[r] = "queueing"
    /\ queueAndWait(r)
    /\ UNCHANGED <<session, kind, held, signatures>>

--------------------------------------------------------------------------------
(* The user at the popup *)

\* A surface polls the head of the queue and keeps what it got.  The toolbar
\* popup and the window may hold the same request.  Loading a surface, like what
\* a person does in it, takes longer than bootstrap.
peekRequest ==
    /\ phase = "signing" /\ queue # <<>> /\ ~booting
    /\ held' = held \cup {Head(queue)}
    /\ UNCHANGED <<session, flow, kind, signatures>>

\* requireActiveAccountPubkey throws after the request left the queue: nobody
\* answers it.
txSignWithoutAccount(r) ==
    /\ r \in held /\ r \in Range(queue) /\ ~authority
    /\ queue' = take(queue, r)
    /\ pc' = At(r, "dropped")
    /\ UNCHANGED <<session, phase, waiters, interrupted, kind, held, signatures>>

\* Declined, a connect decided either way, or approved with no seed to sign with.
txSignAnswers(r) ==
    /\ r \in held /\ r \in Range(queue) /\ authority
    /\ endSignFlowIfDrained(r, take(queue, r))
    /\ UNCHANGED <<session, kind, held, signatures>>

txSignPerforms(r) ==
    /\ r \in held /\ r \in Range(queue) /\ authority
    /\ kind[r] # "connect" /\ unlocked
    /\ queue' = take(queue, r)
    /\ pc' = At(r, "performing")
    /\ UNCHANGED <<session, phase, waiters, interrupted, kind, held, signatures>>

\* performSign returns or throws; the queue is looked at now.
performSignEnds(r) ==
    /\ pc[r] = "performing"
    /\ endSignFlowIfDrained(r, queue)
    /\ \/ signed' = [signed EXCEPT ![r] = @ + 1]
       \/ UNCHANGED signed
    /\ UNCHANGED <<session, kind, held, unrecorded>>

--------------------------------------------------------------------------------
(* Lock, unlock, create, reset *)

\* lock(): the sub-key cache is not session.ts's to clear.
lock ==
    /\ unlocked' = FALSE
    /\ Interrupts("locked")

\* unlockWith and the useAuthority of a popup signature armed the timer afresh,
\* and what they await ends within its fifteen minutes.
idleTimeout ==
    /\ unlocked /\ lock
    /\ \A c \in Calls : call[c] \notin {"preload", "announce"}
    /\ \A r \in Requests : pc[r] # "performing"
    /\ UNCHANGED <<authority, keystore, cache, remembered, booting, call, kind, held, signatures>>

\* Surfaces offer it in phase "ready" only.
lockHandler ==
    /\ phase = "ready" /\ ~booting
    /\ lock
    /\ cache' = FALSE /\ remembered' = FALSE
    /\ UNCHANGED <<authority, keystore, booting, call, kind, held, signatures>>

CallAt(c, step) == call' = [call EXCEPT ![c] = step]

\* The unlock screen is shown in phase "locked"; the passphrase is right.
unlockStarts(c) ==
    /\ call[c] = "idle" /\ phase = "locked" /\ keystore /\ ~booting
    /\ CallAt(c, "decrypt")
    /\ UNCHANGED <<authority, keystore, unlocked, cache, remembered, booting, flow, kind,
                   held, signatures>>

\* An old iteration count makes unlock write the row back.
unlockWith(c) ==
    /\ call[c] = "decrypt"
    /\ unlocked' = TRUE /\ remembered' = TRUE
    /\ keystore' \in {keystore, TRUE}
    /\ CallAt(c, "preload")
    /\ UNCHANGED <<authority, cache, booting, flow, kind, held, signatures>>

walletUnlocked(c) ==
    /\ call[c] = "preload"
    /\ cache' \in {cache, TRUE}
    /\ authority' = TRUE
    /\ Interrupts("ready")
    /\ CallAt(c, "idle")
    /\ UNCHANGED <<keystore, unlocked, remembered, booting, kind, held, signatures>>

createStarts(c) ==
    /\ call[c] = "idle" /\ phase = "uninitialized" /\ ~booting /\ ~keystore
    /\ CallAt(c, "encrypt")
    /\ UNCHANGED <<authority, keystore, unlocked, cache, remembered, booting, flow, kind,
                   held, signatures>>

createWrites(c) ==
    /\ call[c] = "encrypt"
    /\ keystore' = TRUE /\ unlocked' = TRUE
    /\ CallAt(c, "announce")
    /\ UNCHANGED <<authority, cache, remembered, booting, flow, kind, held, signatures>>

walletCreated(c) ==
    /\ call[c] = "announce"
    /\ authority' = TRUE
    /\ Interrupts("ready")
    /\ CallAt(c, "idle")
    /\ UNCHANGED <<keystore, unlocked, cache, remembered, booting, kind, held, signatures>>

resetLocks(c) ==
    /\ call[c] = "idle" /\ keystore /\ ~booting
    /\ lock
    /\ CallAt(c, "clear")
    /\ UNCHANGED <<authority, keystore, cache, remembered, booting, kind, held, signatures>>

walletReset(c) ==
    /\ call[c] = "clear"
    /\ keystore' = FALSE /\ authority' = FALSE
    /\ Interrupts("uninitialized")
    /\ CallAt(c, "idle")
    /\ UNCHANGED <<unlocked, cache, remembered, booting, kind, held, signatures>>

passphraseExpires ==
    /\ remembered /\ remembered' = FALSE
    /\ UNCHANGED <<authority, keystore, unlocked, cache, booting, call, flow, kind, held,
                   signatures>>

--------------------------------------------------------------------------------
(* The life of the worker *)

\* The message that wakes the worker is handled while this still reads the
\* keystore; rehydrate then replaces the state and tells no listener.
bootstrap ==
    /\ booting /\ booting' = FALSE
    /\ phase' = IF keystore THEN "locked" ELSE "uninitialized"
    /\ authority' = keystore
    /\ interrupted' = interrupted \cup Range(queue)
    /\ UNCHANGED <<keystore, unlocked, cache, remembered, call, pc, waiters, queue, kind,
                   held, signatures>>

WorkerDies ==
    /\ ~booting /\ booting' = TRUE
    /\ phase' = "uninitialized" /\ authority' = FALSE
    /\ unlocked' = FALSE /\ cache' = FALSE /\ remembered' = FALSE
    /\ call' = [c \in Calls |-> "idle"]
    /\ pc' = [r \in Requests |->
                 IF pc[r] \in {"idle", "answered", "dropped", "lost"} THEN pc[r] ELSE "lost"]
    /\ waiters' = <<>> /\ queue' = <<>> /\ held' = {} /\ interrupted' = {}
    /\ UNCHANGED <<keystore, kind, signatures>>

RequestNext(r) ==
    \/ \E k \in Kinds : Arrives(r, k)
    \/ unlockWaitTimesOut(r) \/ readSitePermission(r)
    \/ AutoSigns(r) \/ Records(r) \/ RecordFails(r) \/ ReviewEnds(r)
    \/ deriveValidUntilLedger(r)
    \/ txSignWithoutAccount(r) \/ txSignAnswers(r) \/ txSignPerforms(r)
    \/ performSignEnds(r)

CallNext(c) ==
    \/ unlockStarts(c) \/ unlockWith(c) \/ walletUnlocked(c)
    \/ createStarts(c) \/ createWrites(c) \/ walletCreated(c)
    \/ resetLocks(c) \/ walletReset(c)

Next ==
    \/ \E r \in Requests : RequestNext(r)
    \/ \E c \in Calls : CallNext(c)
    \/ peekRequest \/ idleTimeout \/ lockHandler \/ passphraseExpires
    \/ bootstrap \/ WorkerDies

Spec == Init /\ [][Next]_vars

\* Timers fire and awaited calls return; nothing is assumed of the user.
Fairness ==
    \A r \in Requests :
        /\ WF_vars(unlockWaitTimesOut(r))
        /\ WF_vars(readSitePermission(r))
        /\ WF_vars(AutoSigns(r) \/ ReviewEnds(r))
        /\ WF_vars(Records(r) \/ RecordFails(r))
        /\ WF_vars(deriveValidUntilLedger(r))
        /\ WF_vars(performSignEnds(r))

FairSpec == Spec /\ Fairness

--------------------------------------------------------------------------------
\* Well typed, and each request is in exactly the structure its step says: the
\* queue and the listeners hold it once and nobody else's answer is pending.
TypeOK ==
    /\ phase \in Phases
    /\ \A b \in {authority, keystore, unlocked, cache, remembered, booting} : b \in BOOLEAN
    /\ call \in [Calls -> CallSteps]
    /\ kind \in [Requests -> Kinds] /\ pc \in [Requests -> Steps]
    /\ {queue, waiters} \subseteq Seq(Requests)
    /\ Range(queue) = {r \in Requests : pc[r] = "queued"} /\ IsInjective(queue)
    /\ Range(waiters) = {r \in Requests : pc[r] = "waiting"} /\ IsInjective(waiters)
    /\ held \subseteq Requests /\ interrupted \subseteq Requests
    /\ signed \in [Requests -> Nat] /\ unrecorded \subseteq Requests

\* A request is signed at most once, though two surfaces show it and both
\* approve (sign-queue.ts, take).  Only an auth entry signed in the background whose
\* history or notice failed is put before the user and signed a second time, and
\* then no more (wallet-standard/handlers.ts, wsSignAuthEntry).
SignedAtMostOnce ==
    \A r \in Requests : signed[r] <= IF r \in unrecorded THEN 2 ELSE 1

\* A queued request leaves the screen only because a lock, an unlock, a reset or
\* a restart came in between: answering one request never hides another
\* (messaging/handlers.ts, endSignFlowIfDrained).
AnswersHideNothing ==
    phase # "signing" => Range(queue) \subseteq interrupted

\* Behind the lock screen there is no seed in memory, unless an unlock or a
\* creation is about to announce itself (session.ts, lock).
LockedHoldsNoSeed ==
    phase = "locked" /\ unlocked => \E c \in Calls : call[c] \in {"preload", "announce"}

\* A request never hangs inside the wallet: it is answered, put before the user,
\* or lost with the worker (waitForUnlock, performSign).
RequestsSettle ==
    \A r \in Requests :
        pc[r] \in {"waiting", "permission", "review", "recording", "queueing",
                   "performing"}
            ~> pc[r] \in {"queued", "answered", "dropped", "lost"}

\* What a surface and a page can see of a step.
Seen == [r \in Requests |->
            IF pc[r] \in {"permission", "review", "recording", "queueing"} THEN "busy"
            ELSE pc[r]]

F == INSTANCE SignFlow WITH at <- Seen

\* The session implements the flow the popup window and the pages rely on: the
\* phase and the place of every request change only as SignFlow says, whatever
\* locks, resets, timeouts and deaths do in between.
ImplementsSignFlow == F!FlowSpec
================================================================================
