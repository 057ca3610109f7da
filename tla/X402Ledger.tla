------------------------------ MODULE X402Ledger ------------------------------
(***************************************************************************)
(* The extension's off-chain allowance of one (account, merchant, asset):  *)
(* the IndexedDB row, the x402 payment requests that race for it through   *)
(* two entry points (x402Review and wsSignAuthEntry), the user who answers *)
(* the popup, and the owner who pauses, resumes or revokes the merchant.   *)
(*                                                                         *)
(* The service worker runs one task at a time; tasks interleave at every   *)
(* await.  An action is what runs between two awaits, or one IndexedDB      *)
(* transaction with the code up to the next await.  The worker may die at  *)
(* any moment: what is in memory is gone, the row stays.                   *)
(*                                                                         *)
(* Each request reserves at most once, so a spend-log entry {ts, amount}   *)
(* is named by the request that pushed it, and a log is a function from     *)
(* those requests to the ts of their entries.                              *)
(***************************************************************************)
EXTENDS Integers

CONSTANTS
    DAY_MS, HOUR_MS,   \* the two trailing windows, in ticks of the model clock
    MandateMs,         \* mandateSeconds(policy) * 1000
    CapPerTx, CapPerHour, CapPerDay,  \* caps createDefaultAllowance gives a row
    MaxX402PerTx,      \* the global per-payment cap of the policy
    AutoApprove,       \* values policy.x402AutoApprove takes while requests run
    EntryPoints,       \* {"review", "auth"} or one of them
    OwnerCalls,        \* which of "pause", "unpause", "revoke" the owner makes
    StartsLive,        \* TRUE: the merchant was approved before; FALSE: no row yet
    NumRequests,       \* bound: payment requests
    Amounts,           \* bound: amounts requested
    MaxOwnerCalls,     \* bound: owner calls
    MaxTime            \* bound: the clock stops here

ASSUME LedgerAssumption ==
    /\ DAY_MS \in Nat \ {0} /\ HOUR_MS \in 1..DAY_MS
    /\ MandateMs \in Nat \ {0}
    /\ CapPerTx \in Nat /\ CapPerHour \in Nat /\ CapPerDay \in Nat
    /\ MaxX402PerTx \in Nat
    /\ AutoApprove \subseteq BOOLEAN /\ StartsLive \in BOOLEAN
    /\ EntryPoints \subseteq {"review", "auth"}
    /\ OwnerCalls \subseteq {"pause", "unpause", "revoke"}
    /\ NumRequests \in Nat /\ Amounts \subseteq Nat /\ MaxTime \in Nat

INSTANCE SpendLedger WITH DAY_SECONDS <- DAY_MS

VARIABLES
    now,        \* Date.now()
    row,        \* the allowance row in IndexedDB
    hasKey,     \* an active sub-key of the merchant is registered
    req,        \* what the worker holds of each payment request
    owner,      \* the owner's call in progress
    ownerCalls, \* owner calls made so far
    consent,    \* history: the user "approved" a mandate, or only "resumed" the merchant
    lost        \* history: the first write that dropped a live reservation

vars == <<now, row, hasKey, req, owner, ownerCalls, consent, lost>>

Requests == 1..NumRequests

Null == -1     \* expiresAt: null, no mandate attached, nothing reserved

AbsentRow == [status |-> "absent"]

EmptyLog == [r \in {} |-> 0]

DefaultRow == [status |-> "pending", expiresAt |-> Null, nonce |-> 0, log |-> EmptyLog]

Unsent == [pc |-> "idle", kind |-> "review", amount |-> 0, manual |-> TRUE,
           nonce |-> Null, live |-> FALSE, copy |-> AbsentRow,
           at |-> Null, answer |-> "none"]

NoCall == [call |-> "none", pc |-> "idle", copy |-> AbsentRow]

IsLog(log) == DOMAIN log \subseteq Requests /\ log \in [DOMAIN log -> Nat]

IsRow(a) == /\ a \in [status : {"pending", "active", "paused", "revoked"},
                      expiresAt : Nat \cup {Null}, nonce : Nat, log : {a.log}]
            /\ IsLog(a.log)

RowOrAbsent(a) == a = AbsentRow \/ IsRow(a)

Steps == {"idle", "read", "create", "build", "reserve", "sign", "record", "release",
          "queued", "perform", "before", "promote", "refresh", "provision", "reread", "rewrite",
          "done"}

IsRequest(q) ==
    /\ q \in [pc : Steps, kind : {"review", "auth"}, amount : Nat, manual : BOOLEAN,
              nonce : Nat \cup {Null}, live : BOOLEAN, copy : {q.copy}, at : Nat \cup {Null},
              answer : {"none", "signed", "autoSigned", "declined", "lost"}]
    /\ RowOrAbsent(q.copy)

IsCall(o) ==
    /\ o \in [call : {"none", "pause", "unpause", "revoke"},
              pc : {"idle", "chain", "read", "write"}, copy : {o.copy}]
    /\ RowOrAbsent(o.copy)

TypeOK ==
    /\ now \in Nat
    /\ RowOrAbsent(row)
    /\ hasKey \in BOOLEAN
    /\ req = [r \in Requests |-> req[r]] /\ \A r \in Requests : IsRequest(req[r])
    /\ IsCall(owner)
    /\ ownerCalls \in Nat
    /\ consent \in {"none", "resumed", "approved"}
    /\ lost \in {"none", "create", "release", "refresh", "setStatus"}

Init ==
    /\ now = 0
    /\ row = IF StartsLive THEN [DefaultRow EXCEPT !.status = "active",
                                                   !.expiresAt = MandateMs, !.nonce = 1]
                           ELSE AbsentRow
    /\ hasKey = StartsLive
    /\ req = [r \in Requests |-> Unsent]
    /\ owner = NoCall
    /\ ownerCalls = 0
    /\ consent = IF StartsLive THEN "approved" ELSE "none"
    /\ lost = "none"

--------------------------------------------------------------------------------
(* Faulty variants of the definitions below: what a plausible slip would make of *)
(* them.  Nothing uses them; each shows that a property notices.                 *)

\* Only the sums before the new amount are checked.
CapsAllow_OldSums(log, amount) ==
    LET total(window) == SumUpTo([r \in {q \in DOMAIN log : now - log[q] < window}
                                     |-> req[r].amount], NumRequests)
    IN  /\ CapPerTx > 0 => amount <= CapPerTx
        /\ CapPerHour > 0 => total(HOUR_MS) <= CapPerHour
        /\ CapPerDay > 0 => total(DAY_MS) <= CapPerDay

--------------------------------------------------------------------------------
(* db/allowances.ts *)

\* The amounts of a set of requests, in total.
Total(S) == SumUpTo([r \in S |-> req[r].amount], NumRequests)

\* A log with an entry pushed, and some of its entries.
Pushed(log, r, ts) == [e \in DOMAIN log \cup {r} |-> IF e = r THEN ts ELSE log[e]]

Only(log, S) == [e \in DOMAIN log \cap S |-> log[e]]

\* The entries of a log that are younger than the given window.
Recent(log, window) == Only(log, {e \in DOMAIN log : now - log[e] < window})

\* A cap of 0 is no cap.
Within(cap, sum) == cap > 0 => sum <= cap

isMandateLive(a) ==
    /\ a.status = "active"
    /\ a.expiresAt = Null \/ now <= a.expiresAt

\* The check of tryReserveSpend, made on the row inside its transaction.
CapsAllow(log, amount) ==
    /\ Within(CapPerTx, amount)
    /\ Within(CapPerHour, Total(DOMAIN Recent(log, HOUR_MS)) + amount)
    /\ Within(CapPerDay, Total(DOMAIN Recent(log, DAY_MS)) + amount)

\* releaseReservedSpend removes the newest entry of the same amount; two entries
\* of one tick and amount are the same to the code.
ReleasedEntry(r) ==
    LET same   == {e \in DOMAIN row.log : req[e].amount = req[r].amount}
        newest == {e \in same : \A f \in same : row.log[f] <= row.log[e]}
    IN  IF r \in newest THEN {r}
        ELSE IF newest = {} THEN {} ELSE {CHOOSE e \in newest : TRUE}

\* The row was written by cause; did a reservation still in the window go?
Note(cause) ==
    lost' = IF /\ lost = "none"
               /\ \E r \in Requests : /\ req'[r].at # Null
                                      /\ req'[r].answer \notin {"declined", "lost"}
                                      /\ now - req'[r].at < DAY_MS
                                      /\ r \notin DOMAIN row'.log
            THEN cause ELSE lost

--------------------------------------------------------------------------------
(* A request up to its answer *)

\* The worker is through with a request; its locals are gone.
Finished(r, answer) == [Unsent EXCEPT !.pc = "done", !.kind = req[r].kind,
                                      !.amount = req[r].amount, !.at = req[r].at,
                                      !.answer = answer]

Declined(r) == Finished(r, "declined")

\* In the sign queue, with the mandate terms of nonce, or without.
Queued(r, nonce) == [req[r] EXCEPT !.pc = "queued", !.nonce = nonce, !.manual = TRUE]

\* Requests arrive in the order of their numbers.
Arrives(r, kind, amount) ==
    /\ req[r].pc = "idle"
    /\ \A q \in 1..(r - 1) : req[q].pc # "idle"
    /\ req' = [req EXCEPT ![r] = [@ EXCEPT !.pc = "read", !.kind = kind, !.amount = amount]]
    /\ UNCHANGED <<now, row, hasKey, owner, ownerCalls, consent, lost>>

\* A lock, a policy list, an unprovisioned wallet or an unrecognised entry stops
\* the request before the row is read: x402Review declines, wsSignAuthEntry asks
\* the user without mandate terms.  The auth path checks the global cap here.
ScreenedOut(r) ==
    /\ req[r].pc = "read"
    /\ req' = [req EXCEPT ![r] = IF @.kind = "review" THEN Declined(r) ELSE Queued(r, Null)]
    /\ UNCHANGED <<now, row, hasKey, owner, ownerCalls, consent, lost>>

\* What the request does next, given the row it has just read or created.
Decided(r, seen, auto) ==
    LET manual == ~auto \/ ~isMandateLive(seen)
        review == req[r].kind = "review"
    IN  IF seen.status \in {"revoked", "paused"}
        THEN IF review THEN Declined(r) ELSE Queued(r, Null)
        ELSE IF review
        THEN [req[r] EXCEPT !.pc = "build", !.manual = manual, !.nonce = seen.nonce]
        ELSE IF manual
        THEN Queued(r, seen.nonce)
        ELSE [req[r] EXCEPT !.pc = "reserve", !.manual = FALSE, !.nonce = seen.nonce]

readAllowance(r) ==
    /\ req[r].pc = "read"
    /\ req[r].kind = "auth" => req[r].amount <= MaxX402PerTx
    /\ IF row = AbsentRow
       THEN req' = [req EXCEPT ![r].pc = "create"]
       ELSE \E auto \in AutoApprove : req' = [req EXCEPT ![r] = Decided(r, row, auto)]
    /\ UNCHANGED <<now, row, hasKey, owner, ownerCalls, consent, lost>>

\* The put is unconditional: the row may exist by now.
createDefaultAllowance(r) ==
    /\ req[r].pc = "create"
    /\ row' = DefaultRow
    /\ \E auto \in AutoApprove : req' = [req EXCEPT ![r] = Decided(r, DefaultRow, auto)]
    /\ Note("create")
    /\ UNCHANGED <<now, hasKey, owner, ownerCalls, consent>>

\* x402Review builds the payment, then applies the global cap.
buildX402Payment(r) ==
    /\ req[r].pc = "build"
    /\ \E built \in BOOLEAN :
          req' = [req EXCEPT ![r] = IF built /\ @.amount <= MaxX402PerTx
                                    THEN [@ EXCEPT !.pc = "reserve"]
                                    ELSE Declined(r)]
    /\ UNCHANGED <<now, row, hasKey, owner, ownerCalls, consent, lost>>

\* One transaction; then auto-sign, or open the popup with the reservation held.
tryReserveSpend(r) ==
    /\ req[r].pc = "reserve"
    /\ CapsAllow(row.log, req[r].amount)
    /\ row' = [row EXCEPT !.log = Pushed(Recent(@, DAY_MS), r, now)]
    /\ req' = [req EXCEPT ![r] = [(IF @.manual THEN Queued(r, @.nonce)
                                   ELSE [@ EXCEPT !.pc = "sign"]) EXCEPT !.at = now]]
    /\ UNCHANGED <<now, hasKey, owner, ownerCalls, consent, lost>>

\* Faulty: only one of the entry points handles a refused reservation.
ReserveRefused_ReviewOnly(r) ==
    /\ req[r].pc = "reserve" /\ req[r].kind = "review"
    /\ ~CapsAllow(row.log, req[r].amount)
    /\ req' = [req EXCEPT ![r] = Declined(r)]
    /\ UNCHANGED <<now, row, hasKey, owner, ownerCalls, consent, lost>>

\* Over a cap: x402Review declines, wsSignAuthEntry asks the user.
ReserveRefused(r) ==
    /\ req[r].pc = "reserve"
    /\ ~CapsAllow(row.log, req[r].amount)
    /\ req' = [req EXCEPT ![r] = IF @.kind = "review" THEN Declined(r) ELSE Queued(r, @.nonce)]
    /\ UNCHANGED <<now, row, hasKey, owner, ownerCalls, consent, lost>>

\* Signed in the background under the mandate that was live when it was read ...
AutoSigns(r) ==
    /\ req[r].pc = "sign"
    /\ req' = [req EXCEPT ![r].pc = "record"]
    /\ UNCHANGED <<now, row, hasKey, owner, ownerCalls, consent, lost>>

\* ... unless the session or the sub-key is gone.
AutoSignFails(r) ==
    /\ req[r].pc = "sign"
    /\ req' = [req EXCEPT ![r].pc = "release"]
    /\ UNCHANGED <<now, row, hasKey, owner, ownerCalls, consent, lost>>

\* appendHistory and notifyAutoApproved come before the answer.
Records(r) ==
    /\ req[r].pc = "record"
    /\ req' = [req EXCEPT ![r] = Finished(r, "autoSigned")]
    /\ UNCHANGED <<now, row, hasKey, owner, ownerCalls, consent, lost>>

\* One of them throws: x402Review answers with an error and the signed payment is
\* gone, wsSignAuthEntry asks the user without mandate terms; neither releases.
RecordFails(r) ==
    /\ req[r].pc = "record"
    /\ req' = [req EXCEPT ![r] = IF @.kind = "review" THEN Finished(r, "lost")
                                                     ELSE Queued(r, Null)]
    /\ UNCHANGED <<now, row, hasKey, owner, ownerCalls, consent, lost>>

releaseReservedSpend(r) ==
    /\ req[r].pc = "release"
    /\ row' = [row EXCEPT !.log = Recent(Only(@, Requests \ ReleasedEntry(r)), DAY_MS)]
    /\ req' = [req EXCEPT ![r] = [(IF @.kind = "review" THEN Declined(r)
                                   ELSE Queued(r, @.nonce)) EXCEPT !.at = Null]]
    /\ Note("release")
    /\ UNCHANGED <<now, hasKey, owner, ownerCalls, consent>>

--------------------------------------------------------------------------------
(* The user answers the popup: tx.sign *)

UserDeclines(r) ==
    /\ req[r].pc = "queued"
    /\ req' = [req EXCEPT ![r] = Declined(r)]
    /\ UNCHANGED <<now, row, hasKey, owner, ownerCalls, consent, lost>>

UserApproves(r) ==
    /\ req[r].pc = "queued"
    /\ req' = [req EXCEPT ![r].pc = "perform"]
    /\ UNCHANGED <<now, row, hasKey, owner, ownerCalls, consent, lost>>

\* The dApp has its answer; with mandate terms the handler goes on to promote.
performSign(r) ==
    /\ req[r].pc = "perform"
    /\ \E works \in BOOLEAN :
          req' = [req EXCEPT ![r] =
                    IF ~works THEN Declined(r)
                    ELSE IF @.nonce = Null THEN Finished(r, "signed")
                    ELSE [@ EXCEPT !.answer = "signed", !.pc = "before"]]
    /\ UNCHANGED <<now, row, hasKey, owner, ownerCalls, consent, lost>>

\* Was the mandate live before the promotion makes it look so?
ReadBefore(r) ==
    /\ req[r].pc = "before"
    /\ req' = [req EXCEPT ![r] = [@ EXCEPT !.pc = "promote",
                                           !.live = row # AbsentRow /\ isMandateLive(row)]]
    /\ UNCHANGED <<now, row, hasKey, owner, ownerCalls, consent, lost>>

\* One transaction, guarded by the nonce of the terms the user saw.
promoteAllowance(r) ==
    /\ req[r].pc = "promote"
    /\ row # AbsentRow /\ row.nonce = req[r].nonce
    /\ row' = [row EXCEPT !.status = "active", !.expiresAt = now + MandateMs, !.nonce = @ + 1]
    /\ req' = [req EXCEPT ![r].pc = "refresh"]
    /\ consent' = "approved"
    /\ UNCHANGED <<now, hasKey, owner, ownerCalls, lost>>

PromotionSkipped(r) ==
    /\ req[r].pc = "promote"
    /\ row = AbsentRow \/ row.nonce # req[r].nonce
    /\ req' = [req EXCEPT ![r] = Finished(r, @.answer)]
    /\ UNCHANGED <<now, row, hasKey, owner, ownerCalls, consent, lost>>

\* refreshSubKeyAfterApproval copies the row; a live mandate keeps its sub-key,
\* otherwise a new one is minted on-chain while the copy ages.  From here on
\* live records whether a sub-key existed.
refreshSubKeyAfterApproval(r) ==
    /\ req[r].pc = "refresh"
    /\ req' = [req EXCEPT ![r] = IF hasKey /\ @.live
                                 THEN Finished(r, @.answer)
                                 ELSE [@ EXCEPT !.pc = "provision", !.copy = row,
                                                !.live = hasKey]]
    /\ UNCHANGED <<now, row, hasKey, owner, ownerCalls, consent, lost>>

SubKeyMinted(r) ==
    /\ req[r].pc = "provision"
    /\ hasKey' = TRUE
    /\ req' = [req EXCEPT ![r].pc = "rewrite"]
    /\ UNCHANGED <<now, row, owner, ownerCalls, consent, lost>>

\* A lapsed key is retired and the row read again; with no key there is nothing
\* to undo.
MintingFails(r) ==
    /\ req[r].pc = "provision"
    /\ hasKey' = (hasKey /\ ~req[r].live)
    /\ req' = [req EXCEPT ![r] = IF @.live THEN [@ EXCEPT !.pc = "reread", !.copy = AbsentRow]
                                           ELSE Finished(r, @.answer)]
    /\ UNCHANGED <<now, row, owner, ownerCalls, consent, lost>>

RereadRow(r) ==
    /\ req[r].pc = "reread"
    /\ req' = [req EXCEPT ![r] = [@ EXCEPT !.pc = "rewrite", !.copy = row]]
    /\ UNCHANGED <<now, row, hasKey, owner, ownerCalls, consent, lost>>

\* writeAllowance of the whole copied row, for one field.
RewriteRow(r) ==
    /\ req[r].pc = "rewrite"
    /\ row' = req[r].copy
    /\ req' = [req EXCEPT ![r] = Finished(r, @.answer)]
    /\ Note("refresh")
    /\ UNCHANGED <<now, hasKey, owner, ownerCalls, consent>>

--------------------------------------------------------------------------------
(* The owner: ledger.pause, ledger.unpause, ledger.revoke *)

OwnerCallStarts(call) ==
    /\ owner.call = "none"
    /\ ownerCalls < MaxOwnerCalls
    /\ row # AbsentRow
    /\ owner' = [NoCall EXCEPT !.call = call,
                               !.pc = IF call = "revoke" /\ hasKey THEN "chain" ELSE "read"]
    /\ ownerCalls' = ownerCalls + 1
    /\ UNCHANGED <<now, row, hasKey, req, consent, lost>>

\* Revoking removes the sub-keys on-chain first; a failure ends the call.
RemoveSubKeys ==
    /\ owner.pc = "chain"
    /\ \E removed \in BOOLEAN :
          /\ hasKey' = (hasKey /\ ~removed)
          /\ owner' = IF removed THEN [owner EXCEPT !.pc = "read"] ELSE NoCall
    /\ UNCHANGED <<now, row, req, ownerCalls, consent, lost>>

\* setStatus reads the row in one transaction ...
setStatusRead ==
    /\ owner.pc = "read"
    /\ owner' = [owner EXCEPT !.pc = "write", !.copy = row]
    /\ UNCHANGED <<now, row, hasKey, req, ownerCalls, consent, lost>>

StatusAfter(call) ==
    CASE call = "pause" -> "paused" [] call = "revoke" -> "revoked" [] OTHER -> "active"

\* ... and writes it back in another.
setStatusWrite ==
    /\ owner.pc = "write"
    /\ row' = [owner.copy EXCEPT !.status = StatusAfter(owner.call)]
    /\ owner' = NoCall
    /\ consent' = IF consent = "none" /\ owner.call = "unpause" THEN "resumed" ELSE consent
    /\ req' = req
    /\ Note("setStatus")
    /\ UNCHANGED <<now, hasKey, ownerCalls>>

--------------------------------------------------------------------------------
(* The service worker dies and the clock ticks *)

InFlight(r) == req[r].pc \notin {"idle", "done"}

WorkerDies ==
    /\ (\E r \in Requests : InFlight(r)) \/ owner # NoCall
    /\ req' = [r \in Requests |->
                  IF InFlight(r)
                  THEN Finished(r, IF req[r].answer = "none" THEN "lost" ELSE req[r].answer)
                  ELSE req[r]]
    /\ owner' = NoCall
    /\ UNCHANGED <<now, row, hasKey, ownerCalls, consent, lost>>

Tick ==
    /\ now < MaxTime
    /\ now' = now + 1
    /\ UNCHANGED <<row, hasKey, req, owner, ownerCalls, consent, lost>>

\* The worker's own steps on a request; the others wait for a page or the user.
WorkerStep(r) ==
    \/ ScreenedOut(r) \/ readAllowance(r) \/ createDefaultAllowance(r)
    \/ buildX402Payment(r) \/ tryReserveSpend(r) \/ ReserveRefused(r)
    \/ AutoSigns(r) \/ AutoSignFails(r) \/ Records(r) \/ RecordFails(r)
    \/ releaseReservedSpend(r)
    \/ performSign(r) \/ ReadBefore(r) \/ promoteAllowance(r) \/ PromotionSkipped(r)
    \/ refreshSubKeyAfterApproval(r) \/ SubKeyMinted(r) \/ MintingFails(r)
    \/ RereadRow(r) \/ RewriteRow(r)

OwnerStep == RemoveSubKeys \/ setStatusRead \/ setStatusWrite

Next ==
    \/ \E r \in Requests, kind \in EntryPoints, amount \in Amounts : Arrives(r, kind, amount)
    \/ \E r \in Requests : WorkerStep(r) \/ UserApproves(r) \/ UserDeclines(r)
    \/ \E call \in OwnerCalls : OwnerCallStarts(call)
    \/ OwnerStep
    \/ WorkerDies
    \/ Tick

\* The event loop runs every task that is ready; nothing makes a page ask or the
\* user answer.
Fairness == /\ \A r \in Requests : WF_vars(WorkerStep(r))
            /\ WF_vars(OwnerStep)

Spec == Init /\ [][Next]_vars
FairSpec == Spec /\ Fairness
--------------------------------------------------------------------------------
(* Properties *)

Paid(r) == req[r].answer \in {"signed", "autoSigned"}

\* The payments signed under a reservation of the last window, by reserving time.
PaidSince(window) ==
    {r \in Requests : Paid(r) /\ req[r].at # Null /\ now - req[r].at < window}

\* Whatever writes raced, the log the caps are checked against never sums to more
\* than the caps: no write merges two rows into one nobody checked.
LogWithinCaps ==
    row # AbsentRow =>
        /\ Within(CapPerDay, Total(DOMAIN Recent(row.log, DAY_MS)))
        /\ Within(CapPerHour, Total(DOMAIN Recent(row.log, HOUR_MS)))

\* The payments signed under a reservation stay within the caps as long as no write
\* has dropped a live reservation: crashes, declines, failed signatures and failed
\* records lead to no other way past them.  It does not speak of an auth entry the
\* user signs after a refused reservation or without mandate terms: those are
\* neither reserved nor counted (EntryPointsEnforceCaps).
CapsHoldUnlessLost ==
    lost = "none" => /\ Within(CapPerDay, Total(PaidSince(DAY_MS)))
                     /\ Within(CapPerHour, Total(PaidSince(HOUR_MS)))

\* Every request that came in is answered, waits for the user, or was lost with
\* the worker: no path through the reservations hangs.
RequestsAnswered ==
    \A r \in Requests :
        req[r].pc = "read" ~> (req[r].answer # "none" \/ req[r].pc = "queued")

--------------------------------------------------------------------------------
(* What comments and docs say, and the code does not do *)

\* x402-defense.md: concurrent requests cannot add up to more than the cap.
DayCapHolds == Within(CapPerDay, Total(PaidSince(DAY_MS)))

\* wallet-standard/handlers.ts: the entry point for auth entries enforces the same
\* caps as x402Review, so what the user has just signed under mandate terms fits the
\* daily cap together with all that the log counts.
EntryPointsEnforceCaps ==
    \A r \in Requests :
        req[r].pc = "before" =>
            Within(CapPerDay, Total(DOMAIN Recent(row.log, DAY_MS) \cup {r}))

\* allowances.ts, releaseReservedSpend: releasing one failed reservation never
\* cancels another, still valid one of the same amount.
Standing == {r \in Requests : /\ req[r].at # Null
                              /\ req[r].answer \notin {"declined", "lost"}
                              /\ now - req[r].at < DAY_MS}

ReleaseSparesOthers ==
    [][\A r \in Requests : releaseReservedSpend(r) =>
          (Standing \ {r}) \cap DOMAIN row.log \subseteq DOMAIN row'.log]_vars

\* allowances.ts, isMandateLive: only a merchant the user authorized by hand has a
\* live mandate, never one that is still pending; x402Review signs unasked under
\* nothing less.
AutoSignNeedsApproval ==
    (\E r \in Requests : req[r].answer = "autoSigned") => consent = "approved"

\* What holds instead: the user approved the merchant, or resumed it after a pause.
AutoSignNeedsConsent ==
    (\E r \in Requests : req[r].answer = "autoSigned") => consent # "none"
================================================================================
