----------------------------- MODULE AnalyzeServer -----------------------------
(***************************************************************************)
(* The analysis server: developer keys kept in memory and in keys.json,    *)
(* the per-key and per-address limiters, and an analyze, batch or revoke   *)
(* request on its way through the hooks of app.ts: authenticated and       *)
(* charged before its body is read, then paid for over x402 or charged for *)
(* a batch, analysed, settled, answered, counted.                          *)
(*                                                                         *)
(* Node runs one task at a time: an action is the code between two awaits. *)
(* A deployment stops the process at any point; the file stays.            *)
(*                                                                         *)
(* One caller address, issued keys only: operator keys are neither limited *)
(* nor counted.  The usage of a key is its total; the days and routes it   *)
(* breaks down into move with it.                                          *)
(***************************************************************************)
EXTENDS Integers, FiniteSets, FiniteSetsExt

CONSTANTS
    Keys, NoKey,       \* keys that can be issued; a request without one
    Payments,          \* bound: signed x402 payloads clients hold
    NoPayment,
    Requests,          \* bound: requests in flight
    BatchSizes,        \* bound: transactions of a batch
    AuthMode,          \* config.authMode
    X402Enabled,       \* config.x402.enabled
    HasDataDir,        \* a dataDir is configured
    RateLimit,         \* rateLimitPerMin
    WINDOW_MS,         \* windowMs of keyLimiter, in ticks
    KeysPerHour,       \* keyIssuePerIpPerHour
    HOUR_MS,           \* windowMs of issueLimiter, in ticks
    MaxKeys,           \* maxIssuedKeys
    SWEEP_THRESHOLD,
    MaxUses,           \* bound: the usage of a key is counted up to here
    MaxTime,           \* bound: the clock stops here
    MaxStops           \* bound: process ends

ASSUME ServerAssumption ==
    /\ NoKey \notin Keys /\ NoPayment \notin Payments /\ IsFiniteSet(Keys)
    /\ BatchSizes \subseteq Nat \ {0}
    /\ AuthMode \in {"api_key", "x402", "both"}
    /\ X402Enabled \in BOOLEAN /\ HasDataDir \in BOOLEAN
    /\ AuthMode # "api_key" => X402Enabled
    /\ RateLimit \in Nat /\ KeysPerHour \in Nat /\ MaxKeys \in Nat
    /\ WINDOW_MS \in Nat \ {0} /\ HOUR_MS \in Nat \ {0}
    /\ SWEEP_THRESHOLD \in Nat /\ MaxUses \in Nat /\ MaxTime \in Nat /\ MaxStops \in Nat

Log == INSTANCE SpendLedger WITH DAY_SECONDS <- WINDOW_MS

VARIABLES
    now,        \* Date.now()
    up,         \* the process runs
    store,      \* KeyStore.byId and byHash: key -> revoked, total
    file,       \* keys.json
    failed,     \* persistenceFailed
    timer,      \* flushTimer is set
    budget,     \* keyLimiter.entries
    issuance,   \* issueLimiter.entries, of the one address
    req,        \* requests in flight
    settled,    \* payments settled on chain
    issued,     \* keys ever issued: a key is 192 random bits
    stops,      \* process ends so far
    charged,    \* history: hits admitted per key, by time, in this process
    analyses,   \* history: analyses begun per key, in this process
    promised,   \* history: keys answered to survive a restart
    dead,       \* history: keys whose revocation was written
    lost,       \* history: keys a start could not read from the file
    delivered   \* history: analyses answered for each payment

keyVars == <<store, file, failed, timer, issued, promised, dead, lost>>
vars == <<now, up, keyVars, budget, issuance, req, settled, stops, charged, analyses,
          delivered>>

NoMap == [k \in {} |-> 0]

Address == "address"

Unsent == [pc |-> "idle", kind |-> "analyze", key |-> NoKey, payment |-> NoPayment,
           size |-> 1]

Init ==
    /\ now = 0 /\ up = TRUE
    /\ store = NoMap /\ file = NoMap /\ failed = FALSE /\ timer = FALSE
    /\ budget = NoMap /\ issuance = NoMap
    /\ req = [r \in Requests |-> Unsent]
    /\ settled = {} /\ issued = {} /\ stops = 0
    /\ charged = [k \in Keys |-> Log!EmptyLedger]
    /\ analyses = [k \in Keys |-> 0]
    /\ promised = {} /\ dead = {} /\ lost = {}
    /\ delivered = [p \in Payments |-> 0]

With(f, k, v) == [x \in DOMAIN f \cup {k} |-> IF x = k THEN v ELSE f[x]]

--------------------------------------------------------------------------------
(* Plausible bugs, for the mutants. *)

sweep_All(entries, window) == NoMap

BatchCost_Nothing(r) == 0

persistent_Configured == HasDataDir

--------------------------------------------------------------------------------
(* limiter.ts *)

Live(entries, window) == {k \in DOMAIN entries : now - entries[k].windowStart < window}

\* Only expired windows go, and only from a map that has grown.
sweep(entries, window) ==
    IF Cardinality(DOMAIN entries) > SWEEP_THRESHOLD
    THEN [k \in Live(entries, window) |-> entries[k]] ELSE entries

\* The window of k, fresh if there is none or it is over.
Entry(entries, k, window) ==
    IF k \in DOMAIN entries /\ now - entries[k].windowStart < window
    THEN entries[k] ELSE [windowStart |-> now, count |-> 0]

allowed(entries, k, limit, window, cost) ==
    Entry(sweep(entries, window), k, window).count + cost <= limit

\* A refused hit opens a window but is not counted.
hit(entries, k, limit, window, cost) ==
    LET swept == sweep(entries, window)
        e     == Entry(swept, k, window)
    IN  With(swept, k, IF e.count + cost <= limit THEN [e EXCEPT !.count = @ + cost] ELSE e)

\* identity.consume(cost)
consume(k, cost) ==
    /\ budget' = hit(budget, k, RateLimit, WINDOW_MS, cost)
    /\ charged' = IF allowed(budget, k, RateLimit, WINDOW_MS, cost)
                  THEN [charged EXCEPT ![k] = Log!Push(@, now, cost)] ELSE charged

--------------------------------------------------------------------------------
(* key-store.ts *)

\* The file is replaced whole or not at all; the chmod after it may fail too.
\* After one failure nothing is written until the next start.
flushNow(s) ==
    IF ~HasDataDir \/ failed THEN UNCHANGED <<file, failed>>
    ELSE \/ file' = s /\ failed' \in BOOLEAN
         \/ file' = file /\ failed' = TRUE

persistent == HasDataDir /\ ~failed'

scheduleFlush == timer' = HasDataDir

valid(k) == k \in DOMAIN store /\ ~store[k].revoked

\* Revoked keys count too: they are never removed.
full == Cardinality(DOMAIN store) >= MaxKeys

\* POST /v1/keys: throttled by address before the body is looked at, which may be
\* invalid; a full store refuses too.
createKey(k) ==
    /\ up /\ k \notin issued
    /\ allowed(issuance, Address, KeysPerHour, HOUR_MS, 1)
    /\ issuance' = hit(issuance, Address, KeysPerHour, HOUR_MS, 1)
    /\ \/ /\ ~full
          /\ store' = With(store, k, [revoked |-> FALSE, total |-> 0])
          /\ flushNow(store')
          /\ issued' = issued \cup {k}
          /\ promised' = IF persistent THEN promised \cup {k} ELSE promised
       \/ UNCHANGED <<store, file, failed, issued, promised>>
    /\ UNCHANGED <<now, up, timer, budget, req, settled, stops, charged, analyses, dead,
                   lost, delivered>>

--------------------------------------------------------------------------------
(* A request up to its body *)

To(r, step) == req' = [req EXCEPT ![r].pc = step]

\* Answered: only its key matters from here on.
Sent(r) == req' = [req EXCEPT ![r] = [Unsent EXCEPT !.pc = "sent", !.key = req[r].key]]

\* The auth hook, with a valid key: charged 1, refused with 429 over the limit.
AuthenticatedByKey(r, kind, k, p, n) ==
    /\ up /\ req[r].pc = "idle" /\ valid(k)
    /\ consume(k, 1)
    /\ req' = IF allowed(budget, k, RateLimit, WINDOW_MS, 1)
              THEN [req EXCEPT ![r] = [pc |-> "body", kind |-> kind, key |-> k,
                                       payment |-> p, size |-> n]]
              ELSE req
    /\ UNCHANGED <<now, up, keyVars, issuance, settled, stops, analyses, delivered>>

\* Without one only POST /v1/analyze may go on, to the payment gate.
isGatedByX402Instead(r, p) ==
    /\ up /\ req[r].pc = "idle"
    /\ X402Enabled /\ AuthMode \in {"x402", "both"}
    /\ req' = [req EXCEPT ![r] = [Unsent EXCEPT !.pc = "body", !.payment = p]]
    /\ UNCHANGED <<now, up, keyVars, budget, issuance, settled, stops, charged, analyses,
                   delivered>>

\* The body is malformed, too large, or fails the schema of its route.
BadBody(r) ==
    /\ req[r].pc = "body" /\ req[r].kind # "revoke"
    /\ Sent(r)
    /\ UNCHANGED <<now, up, keyVars, budget, issuance, settled, stops, charged, analyses,
                   delivered>>

--------------------------------------------------------------------------------
(* POST /v1/analyze *)

\* In mode "both" the key is looked up once more.
grantsAccess(r) == AuthMode = "both" /\ valid(req[r].key)

\* analyzeTransaction starts; p is the verified payment it is to be settled with.
BeginsAnalysis(r, p) ==
    /\ req' = [req EXCEPT ![r] = [Unsent EXCEPT !.pc = "analyze", !.payment = p,
                                               !.key = req[r].key]]
    /\ analyses' = IF req[r].key \in Keys THEN [analyses EXCEPT ![req[r].key] = @ + req[r].size]
                   ELSE analyses

preHandlerAnalyze(r) ==
    /\ req[r].pc = "body" /\ req[r].kind = "analyze"
    /\ IF ~X402Enabled \/ grantsAccess(r)
       THEN BeginsAnalysis(r, NoPayment)
       ELSE /\ IF req[r].payment = NoPayment THEN Sent(r) ELSE To(r, "verify")
            /\ UNCHANGED analyses
    /\ UNCHANGED <<now, up, keyVars, budget, issuance, settled, stops, charged, delivered>>

\* The facilitator refuses a payload whose nonce is used, or cannot be reached.
VerifyReturns(r) ==
    /\ req[r].pc = "verify"
    /\ \/ Sent(r) /\ UNCHANGED analyses
       \/ req[r].payment \notin settled /\ BeginsAnalysis(r, req[r].payment)
    /\ UNCHANGED <<now, up, keyVars, budget, issuance, settled, stops, charged, delivered>>

\* An error, or a decision the response schema refuses, ends the request unsettled.
AnalysisReturns(r) ==
    /\ req[r].pc = "analyze"
    /\ Sent(r) \/ (req[r].payment \in Payments /\ To(r, "settle"))
    /\ UNCHANGED <<now, up, keyVars, budget, issuance, settled, stops, charged, analyses,
                   delivered>>

\* Plausible bug, for the mutants.
settleAfterSuccess_AnswersAnyway(r) ==
    /\ req[r].pc = "settle"
    /\ LET p == req[r].payment
       IN  /\ settled' \in {settled, settled \cup {p}}
           /\ delivered' = [delivered EXCEPT ![p] = @ + 1]
    /\ Sent(r)
    /\ UNCHANGED <<now, up, keyVars, budget, issuance, stops, charged, analyses>>

\* Settled and told so; settled but the answer is lost; or not settled.
settleAfterSuccess(r) ==
    /\ req[r].pc = "settle"
    /\ LET p == req[r].payment
       IN  \/ /\ p \notin settled /\ settled' = settled \cup {p}
              /\ delivered' \in {delivered, [delivered EXCEPT ![p] = @ + 1]}
           \/ UNCHANGED <<settled, delivered>>
    /\ Sent(r)
    /\ UNCHANGED <<now, up, keyVars, budget, issuance, stops, charged, analyses>>

--------------------------------------------------------------------------------
(* POST /v1/analyze/batch and /stream, DELETE /v1/keys/me *)

\* The auth hook already charged 1.
BatchCost(r) == req[r].size - 1

\* Over the limit: 429, which is not usage.
chargeBatch(r) ==
    /\ req[r].pc = "body" /\ req[r].kind = "batch"
    /\ consume(req[r].key, BatchCost(r))
    /\ IF allowed(budget, req[r].key, RateLimit, WINDOW_MS, BatchCost(r))
       THEN BeginsAnalysis(r, NoPayment)
       ELSE req' = [req EXCEPT ![r] = Unsent] /\ UNCHANGED analyses
    /\ UNCHANGED <<now, up, keyVars, issuance, settled, stops, delivered>>

revoke(r) ==
    LET k == req[r].key IN
    /\ req[r].pc = "body" /\ req[r].kind = "revoke"
    /\ IF valid(k)
       THEN /\ store' = [store EXCEPT ![k].revoked = TRUE]
            /\ flushNow(store')
            /\ dead' = IF persistent \/ ~HasDataDir THEN dead \cup {k} ELSE dead
       ELSE UNCHANGED <<store, file, failed, dead>>
    /\ Sent(r)
    /\ UNCHANGED <<now, up, timer, issued, promised, lost, budget, issuance, settled, stops,
                   charged, analyses, delivered>>

\* The onResponse hook of app.ts.
recordUsage(r) ==
    LET k == req[r].key IN
    /\ req[r].pc = "sent"
    /\ IF k \in DOMAIN store
       THEN store' = [store EXCEPT ![k].total = Min({@ + 1, MaxUses})] /\ scheduleFlush
       ELSE UNCHANGED <<store, timer>>
    /\ req' = [req EXCEPT ![r] = Unsent]
    /\ UNCHANGED <<now, up, file, failed, issued, promised, dead, lost, budget, issuance,
                   settled, stops, charged, analyses, delivered>>

--------------------------------------------------------------------------------
(* The process *)

FlushTimerFires ==
    /\ timer /\ timer' = FALSE
    /\ flushNow(store)
    /\ UNCHANGED <<now, up, store, issued, promised, dead, lost, budget, issuance, req,
                   settled, stops, charged, analyses, delivered>>

Stops ==
    /\ up /\ stops < MaxStops
    /\ up' = FALSE /\ stops' = stops + 1
    /\ store' = NoMap /\ timer' = FALSE
    /\ budget' = NoMap /\ issuance' = NoMap
    /\ req' = [r \in Requests |-> Unsent]
    /\ charged' = [k \in Keys |-> Log!EmptyLedger]
    /\ analyses' = [k \in Keys |-> 0]
    /\ UNCHANGED <<now, issued, promised, dead, lost, settled, delivered>>

\* SIGTERM closes the store first.
close == Stops /\ flushNow(store)

Crashes == Stops /\ UNCHANGED <<file, failed>>

\* A file that cannot be read or parsed is set aside, or stays if that fails too, and
\* the server starts empty; malformed keys of one that can are skipped.  The directory
\* may turn out not to be writable.
load ==
    /\ ~up /\ up' = TRUE
    /\ \E found \in SUBSET DOMAIN file :
          /\ store' = [k \in found |-> file[k]]
          /\ file' \in (IF found = {} THEN {file, NoMap} ELSE {file})
          /\ lost' = lost \cup (DOMAIN file \ found)
    /\ failed' \in (IF HasDataDir THEN BOOLEAN ELSE {FALSE})
    /\ UNCHANGED <<now, timer, issued, promised, dead, budget, issuance, req, settled,
                   stops, charged, analyses, delivered>>

Tick ==
    /\ now < MaxTime /\ now' = now + 1
    /\ UNCHANGED <<up, keyVars, budget, issuance, req, settled, stops, charged, analyses,
                   delivered>>

RequestNext(r) ==
    \/ BadBody(r) \/ preHandlerAnalyze(r) \/ VerifyReturns(r)
    \/ AnalysisReturns(r) \/ settleAfterSuccess(r) \/ chargeBatch(r) \/ revoke(r)
    \/ recordUsage(r)

Arrives(r) ==
    \/ \E k \in Keys :
          \/ \E p \in Payments \cup {NoPayment} : AuthenticatedByKey(r, "analyze", k, p, 1)
          \/ \E n \in BatchSizes : AuthenticatedByKey(r, "batch", k, NoPayment, n)
          \/ AuthenticatedByKey(r, "revoke", k, NoPayment, 1)
    \/ \E p \in Payments \cup {NoPayment} : isGatedByX402Instead(r, p)

Next ==
    \/ \E k \in Keys : createKey(k)
    \/ \E r \in Requests : Arrives(r) \/ RequestNext(r)
    \/ FlushTimerFires \/ close \/ Crashes \/ load \/ Tick

Spec == Init /\ [][Next]_vars

--------------------------------------------------------------------------------
Maps(D, V) == UNION {[S -> V] : S \in SUBSET D}

Windows == [windowStart : 0..now, count : Nat]

\* Well typed; the store never holds more keys than configured, and a key that
\* lives in memory was issued.
TypeOK ==
    /\ now \in Nat /\ stops \in 0..MaxStops
    /\ \A b \in {up, failed, timer} : b \in BOOLEAN
    /\ \A s \in {store, file} :
          /\ DOMAIN s \subseteq issued /\ Cardinality(DOMAIN s) <= MaxKeys
          /\ \A k \in DOMAIN s : s[k] \in [revoked : BOOLEAN, total : Nat]
    /\ DOMAIN budget \subseteq Keys /\ DOMAIN issuance \subseteq {Address}
    /\ \A k \in DOMAIN budget : budget[k] \in Windows /\ budget[k].count <= RateLimit
    /\ \A a \in DOMAIN issuance : issuance[a] \in Windows /\ issuance[a].count <= KeysPerHour
    /\ req \in [Requests ->
                  [pc : {"idle", "body", "verify", "analyze", "settle", "sent"},
                   kind : {"analyze", "batch", "revoke"}, key : Keys \cup {NoKey},
                   payment : Payments \cup {NoPayment}, size : Nat \ {0}]]
    /\ settled \subseteq Payments /\ issued \subseteq Keys
    /\ promised \subseteq issued /\ dead \subseteq issued /\ lost \subseteq issued

\* The budget of a key holds for its analyses whatever restarts of the window,
\* sweeps and refused batches did: at most RateLimit hits since its window began,
\* at most twice that in any trailing window (limiter.ts, hit).
RateKept ==
    \A k \in Keys :
        /\ k \in DOMAIN budget =>
              Log!SumUpTo([t \in {u \in DOMAIN charged[k] : u >= budget[k].windowStart}
                              |-> charged[k][t]], now) <= RateLimit
        /\ Log!WindowSum(charged[k], now) <= 2 * RateLimit

\* Batching is not a way around the limit: every analysis begun for a key was
\* charged to it first, also when its hits came in different windows (batch.ts,
\* chargeBatch).
AnalysesCharged == \A k \in Keys : analyses[k] <= Log!SumUpTo(charged[k], now)

\* What a caller was told of a key survives stops, failed writes and restarts: a
\* key issued without the warning is there unless a start could not read it from the
\* file, and a revocation that was written stays.  A revocation answered after a
\* failed write is not written, and promises nothing here (key-store.ts: "keys
\* survive a restart").
PromisesSurvive ==
    up => /\ promised \ lost \subseteq DOMAIN store
          /\ \A k \in dead \cap DOMAIN store : store[k].revoked

\* One payment buys at most one analysis, and only if it was settled, though
\* requests that carry the same payload are verified side by side (analyze.ts).
PaidOnce ==
    \A p \in Payments : delivered[p] <= (IF p \in settled THEN 1 ELSE 0)
================================================================================
