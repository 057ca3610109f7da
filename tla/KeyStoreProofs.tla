----------------------------- MODULE KeyStoreProofs -----------------------------
(***************************************************************************)
(* Proofs about the two places where keys are kept and written back whole: *)
(* the API keys of the server and the accounts of the wallet.              *)
(*                                                                         *)
(* AnalyzeServer, for every number of keys and requests, all limits and    *)
(* windows, and any number of stops: a key's budget holds, every analysis  *)
(* is charged, what a caller was told of a key survives, and a payment     *)
(* buys one analysis.                                                      *)
(*                                                                         *)
(* AccountStore, for every number of accounts, calls and meetings: calls   *)
(* that come one at a time keep row, session and snapshot in agreement,    *)
(* give each account its own smart wallet, and forget nothing.             *)
(***************************************************************************)
EXTENDS AnalyzeServer, AccountStore, FiniteSetTheorems, TLAPS

Sums == INSTANCE SpendLedgerProofs WITH DAY_SECONDS <- WINDOW_MS

--------------------------------------------------------------------------------
(* Logs of admitted hits *)

IsLog(log, n) == Sums!IsLedger(log) /\ DOMAIN log \subseteq 0..n

\* What SpendLedgerProofs says of its sums holds of the ones used here.
LEMMA SameSums ==
    ASSUME NEW log, NEW n
    PROVE  /\ Log!SumUpTo(log, n) = Sums!SumUpTo(log, n)
           /\ Log!WindowSum(log, n) = Sums!WindowSum(log, n)
           /\ \A c : Log!Push(log, n, c) = Sums!Push(log, n, c)
           /\ Log!EmptyLedger = Sums!EmptyLedger
<1>1. \A l, m : Log!SumUpTo(l, m) = Sums!SumUpTo(l, m)
  BY DEF Log!SumUpTo, Sums!SumUpTo, Log!AmountAt, Sums!AmountAt
<1>2. Log!Pruned(log, n) = Sums!Pruned(log, n)
  BY DEF Log!Pruned, Sums!Pruned, Log!InWindow, Sums!InWindow
<1>3. Log!WindowSum(log, n) = Sums!WindowSum(log, n)
  BY <1>1, <1>2 DEF Log!WindowSum, Sums!WindowSum
<1>4. \A c : Log!Push(log, n, c) = Sums!Push(log, n, c)
  BY DEF Log!Push, Sums!Push, Log!AmountAt, Sums!AmountAt
<1>5. Log!EmptyLedger = Sums!EmptyLedger
  BY DEF Log!EmptyLedger, Sums!EmptyLedger
<1> QED  BY <1>1, <1>3, <1>4, <1>5

\* All of a log is the part of it from second 0 on.
LEMMA AllFromZero ==
    ASSUME NEW n \in Nat, NEW log, IsLog(log, n)
    PROVE  Sums!From(log, 0) = log
BY DEF IsLog, Sums!From, Sums!IsLedger

LEMMA TotalType ==
    ASSUME NEW n \in Nat, NEW log, IsLog(log, n)
    PROVE  Log!SumUpTo(log, n) \in Nat
BY ServerAssumption, SameSums, Sums!SumType DEF IsLog

\* A hit admitted now adds its cost to the sum from any second that has come.
LEMMA PushedLog ==
    ASSUME NEW n \in Nat, NEW log, IsLog(log, n), NEW cost \in Nat
    PROVE  LET more == Log!Push(log, n, cost)
           IN  /\ IsLog(more, n)
               /\ DOMAIN more = DOMAIN log \cup {n}
               /\ Log!SumUpTo(more, n) = Log!SumUpTo(log, n) + cost
               /\ \A from \in Int :
                     Sums!SumFrom(more, from, n)
                        = Sums!SumFrom(log, from, n) + (IF from <= n THEN cost ELSE 0)
<1> DEFINE more == Sums!Push(log, n, cost)
<1>0. Log!Push(log, n, cost) = more
  BY SameSums
<1>1. DOMAIN more = DOMAIN log \cup {n}
  BY DEF Sums!Push
<1>2. Sums!IsLedger(log) /\ Sums!IsLedger(more)
  BY ServerAssumption, Sums!PushType DEF IsLog
<1>3. IsLog(more, n)
  BY <1>1, <1>2 DEF IsLog
<1>4. \A from \in Int :
         Sums!SumFrom(more, from, n)
            = Sums!SumFrom(log, from, n) + (IF from <= n THEN cost ELSE 0)
  BY <1>2, ServerAssumption, Sums!SumFromPush
<1>5. Sums!SumUpTo(more, n) = Sums!SumUpTo(log, n) + cost
  <2>1. Sums!From(more, 0) = more /\ Sums!From(log, 0) = log
    <3> HIDE DEF more
    <3> QED  BY <1>3, AllFromZero
  <2>2. Sums!SumFrom(more, 0, n) = Sums!SumFrom(log, 0, n) + cost
    BY <1>4
  <2> QED  BY <2>1, <2>2 DEF Sums!SumFrom
<1> HIDE DEF more
<1> QED  BY <1>0, <1>1, <1>3, <1>4, <1>5, SameSums

\* Time adds nothing to a log.
LEMMA TickedLog ==
    ASSUME NEW n \in Nat, NEW log, IsLog(log, n)
    PROVE  /\ IsLog(log, n + 1)
           /\ Log!SumUpTo(log, n + 1) = Log!SumUpTo(log, n)
           /\ \A from \in Int : Sums!SumFrom(log, from, n + 1) = Sums!SumFrom(log, from, n)
<1>1. IsLog(log, n + 1)
  BY DEF IsLog
<1>2. \A from \in Int : Sums!SumFrom(log, from, n + 1) = Sums!SumFrom(log, from, n)
  BY ServerAssumption, Sums!SumFromTick DEF IsLog
<1>3. Sums!From(log, 0) = log
  BY AllFromZero
<1>4. Sums!SumUpTo(log, n + 1) = Sums!SumUpTo(log, n)
  BY <1>2, <1>3 DEF Sums!SumFrom
<1> QED  BY <1>1, <1>2, <1>4, SameSums

LEMMA NoHits ==
    ASSUME NEW n \in Nat
    PROVE  /\ IsLog(Log!EmptyLedger, n)
           /\ DOMAIN Log!EmptyLedger = {}
           /\ Log!SumUpTo(Log!EmptyLedger, n) \in Nat
           /\ \A from \in Int : Sums!SumFrom(Log!EmptyLedger, from, n) = 0
<1>1. IsLog(Log!EmptyLedger, n)
  BY ServerAssumption, SameSums, Sums!EmptyLedgerType DEF IsLog, Sums!EmptyLedger
<1>2. \A from \in Int : Sums!SumFrom(Log!EmptyLedger, from, n) = 0
  <2> SUFFICES ASSUME NEW from \in Int PROVE Sums!SumFrom(Log!EmptyLedger, from, n) = 0
    OBVIOUS
  <2>1. Sums!From(Log!EmptyLedger, from) = Sums!EmptyLedger
    BY DEF Log!EmptyLedger, Sums!EmptyLedger, Sums!From
  <2> DEFINE S == {t \in Nat : Sums!SumUpTo(Sums!EmptyLedger, t) = 0}
  <2>2. \A t \in Nat : Sums!AmountAt(Sums!EmptyLedger, t) = 0
    BY DEF Sums!AmountAt, Sums!EmptyLedger
  <2>3. 0 \in S /\ \A t \in Nat : t \in S => t + 1 \in S
    BY <2>2, ServerAssumption, Sums!SumUpToDef
  <2>4. Nat \subseteq S
    <3> HIDE DEF S
    <3> QED  BY <2>3, ServerAssumption, Sums!NatSetInduction
  <2> QED  BY <2>1, <2>4 DEF Sums!SumFrom
<1> QED  BY <1>1, <1>2, TotalType DEF Log!EmptyLedger

--------------------------------------------------------------------------------
(* The limiter *)

\* An entry bounds what a key was admitted since its window began, and the key's
\* log goes no further than the window does.  What the log adds up to from
\* anywhere in the window's length before it is the window's count and at most one
\* full window more.
Bounds(w, log, n) ==
    /\ \A t \in DOMAIN log : t < w.windowStart + WINDOW_MS
    /\ Sums!SumFrom(log, w.windowStart, n) <= w.count
    /\ \A from \in Int :
          w.windowStart - WINDOW_MS < from
             => Sums!SumFrom(log, from, n) <= w.count + RateLimit

\* A key without an entry had its last hit before now, and at most one window's
\* worth of them in the trailing window.
Rested(log, n) ==
    /\ \A t \in DOMAIN log : t < n
    /\ \A from \in Int : n - WINDOW_MS < from => Sums!SumFrom(log, from, n) <= RateLimit

IsWindow(w, limit, n) ==
    w \in [windowStart : 0..n, count : Nat] /\ w.count <= limit

\* A window that is over leaves its key rested.
LEMMA OverIsRested ==
    ASSUME NEW n \in Nat, NEW log, IsLog(log, n), NEW w, IsWindow(w, RateLimit, n),
           Bounds(w, log, n), n - w.windowStart >= WINDOW_MS
    PROVE  Rested(log, n)
<1>0. w.windowStart \in Nat /\ w.count \in Nat /\ w.count <= RateLimit
  BY DEF IsWindow
<1>1. \A t \in DOMAIN log : t < n
  BY <1>0, ServerAssumption DEF Bounds, IsLog
<1>2. ASSUME NEW from \in Int, n - WINDOW_MS < from
      PROVE  Sums!SumFrom(log, from, n) <= RateLimit
  <2>1. w.windowStart <= from
    BY <1>0, <1>2, ServerAssumption
  <2>2. Sums!SumFrom(log, from, n) <= Sums!SumFrom(log, w.windowStart, n)
    BY <1>0, <2>1, ServerAssumption, Sums!SumFromMonotone DEF IsLog
  <2>3. Sums!SumFrom(log, from, n) \in Nat /\ Sums!SumFrom(log, w.windowStart, n) \in Nat
    BY <1>0, ServerAssumption, Sums!SumFromType DEF IsLog
  <2> QED  BY <1>0, <2>2, <2>3, ServerAssumption DEF Bounds
<1> QED  BY <1>1, <1>2 DEF Rested

\* A fresh window bounds the log of a rested key.
LEMMA FreshBounds ==
    ASSUME NEW n \in Nat, NEW log, IsLog(log, n), Rested(log, n)
    PROVE  Bounds([windowStart |-> n, count |-> 0], log, n)
<1>1. \A t \in DOMAIN log : t < n + WINDOW_MS
  BY ServerAssumption DEF Rested, IsLog
<1>2. Sums!SumFrom(log, n, n) = 0
  <2>1. Sums!From(log, n) = Sums!EmptyLedger
    <3>1. {u \in DOMAIN log : n <= u} = {}
      BY DEF Rested, IsLog
    <3> QED  BY <3>1 DEF Sums!From, Sums!EmptyLedger
  <2>2. Sums!From(Log!EmptyLedger, n) = Sums!EmptyLedger
    BY DEF Log!EmptyLedger, Sums!EmptyLedger, Sums!From
  <2> QED  BY <2>1, <2>2, NoHits DEF Sums!SumFrom
<1>3. \A from \in Int : n - WINDOW_MS < from => Sums!SumFrom(log, from, n) <= RateLimit
  BY DEF Rested
<1> QED  BY <1>1, <1>2, <1>3, ServerAssumption DEF Bounds

\* A hit is counted in the window it falls in.
LEMMA PushBounds ==
    ASSUME NEW n \in Nat, NEW log, IsLog(log, n), NEW cost \in Nat,
           NEW w, IsWindow(w, RateLimit, n), n - w.windowStart < WINDOW_MS,
           Bounds(w, log, n)
    PROVE  Bounds([w EXCEPT !.count = @ + cost], Log!Push(log, n, cost), n)
<1> DEFINE v    == [w EXCEPT !.count = @ + cost]
           more == Log!Push(log, n, cost)
<1>0. w.windowStart \in Nat /\ w.windowStart <= n /\ w.count \in Nat
  BY DEF IsWindow
<1>1. v.windowStart = w.windowStart /\ v.count = w.count + cost
  BY DEF IsWindow
<1>2. /\ DOMAIN more = DOMAIN log \cup {n}
      /\ \A from \in Int :
            Sums!SumFrom(more, from, n)
               = Sums!SumFrom(log, from, n) + (IF from <= n THEN cost ELSE 0)
  BY PushedLog
<1>3. \A from \in Int : Sums!SumFrom(log, from, n) \in Nat
  BY ServerAssumption, Sums!SumFromType DEF IsLog
<1> HIDE DEF v, more
<1>4. \A t \in DOMAIN more : t < v.windowStart + WINDOW_MS
  BY <1>0, <1>1, <1>2, ServerAssumption DEF Bounds
<1>5. Sums!SumFrom(more, v.windowStart, n) <= v.count
  BY <1>0, <1>1, <1>2, <1>3 DEF Bounds
<1>6. ASSUME NEW from \in Int, v.windowStart - WINDOW_MS < from
      PROVE  Sums!SumFrom(more, from, n) <= v.count + RateLimit
  <2>1. Sums!SumFrom(log, from, n) <= w.count + RateLimit
    BY <1>1, <1>6 DEF Bounds
  <2>2. /\ Sums!SumFrom(more, from, n)
              = Sums!SumFrom(log, from, n) + (IF from <= n THEN cost ELSE 0)
        /\ Sums!SumFrom(log, from, n) \in Nat
    BY <1>2, <1>3
  <2> QED  BY <1>0, <1>1, <2>1, <2>2, ServerAssumption
<1>7. Bounds(v, more, n)
  BY <1>4, <1>5, <1>6 DEF Bounds
<1> QED  BY <1>7 DEF v, more

LEMMA TickBounds ==
    ASSUME NEW n \in Nat, NEW log, IsLog(log, n)
    PROVE  /\ \A w : IsWindow(w, RateLimit, n) /\ Bounds(w, log, n)
                       => Bounds(w, log, n + 1)
           /\ Rested(log, n) => Rested(log, n + 1)
<1>1. \A from \in Int : Sums!SumFrom(log, from, n + 1) = Sums!SumFrom(log, from, n)
  BY TickedLog
<1>2. \A w : IsWindow(w, RateLimit, n) => w.windowStart \in Int
  BY DEF IsWindow
<1>3. \A w : IsWindow(w, RateLimit, n) /\ Bounds(w, log, n) => Bounds(w, log, n + 1)
  BY <1>1, <1>2 DEF Bounds
<1>4. Rested(log, n) => Rested(log, n + 1)
  <2>1. \A from \in Int : (n + 1) - WINDOW_MS < from => n - WINDOW_MS < from
    BY ServerAssumption
  <2>2. (\A t \in DOMAIN log : t < n) => \A t \in DOMAIN log : t < n + 1
    BY DEF IsLog
  <2> QED  BY <1>1, <2>1, <2>2 DEF Rested
<1> QED  BY <1>3, <1>4

--------------------------------------------------------------------------------
(* The inductive invariant *)

ClockOK ==
    /\ now \in Nat /\ stops \in 0..MaxStops
    /\ up \in BOOLEAN /\ failed \in BOOLEAN /\ timer \in BOOLEAN

WindowsOK ==
    /\ DOMAIN budget \subseteq Keys /\ DOMAIN issuance \subseteq {Address}
    /\ \A k \in DOMAIN budget : IsWindow(budget[k], RateLimit, now)
    /\ \A a \in DOMAIN issuance : IsWindow(issuance[a], KeysPerHour, now)

\* What a key was admitted is bounded by its entry, if it has one.
RateInv ==
    /\ DOMAIN charged = Keys
    /\ \A k \in Keys :
          /\ IsLog(charged[k], now)
          /\ k \in DOMAIN budget => Bounds(budget[k], charged[k], now)
          /\ k \notin DOMAIN budget => Rested(charged[k], now)

\* Keys in memory or in the file.
IsStore(s) ==
    /\ DOMAIN s \subseteq issued /\ Cardinality(DOMAIN s) <= MaxKeys
    /\ s = [k \in DOMAIN s |-> s[k]]
    /\ \A k \in DOMAIN s : s[k] \in [revoked : BOOLEAN, total : Nat]
    /\ \A k \in dead \cap DOMAIN s : s[k].revoked

\* The file, too, holds what was promised; a process that is down holds nothing.
KeysInv ==
    /\ IsStore(store) /\ IsStore(file)
    /\ issued \subseteq Keys /\ promised \subseteq issued /\ dead \subseteq issued
    /\ lost \subseteq issued
    /\ promised \ lost \subseteq DOMAIN file
    /\ up => promised \ lost \subseteq DOMAIN store
    /\ ~up => DOMAIN store = {} /\ ~timer
    /\ ~HasDataDir => DOMAIN file = {}

RequestType ==
    [pc : {"idle", "body", "verify", "analyze", "settle", "sent"},
     kind : {"analyze", "batch", "revoke"}, key : Keys \cup {NoKey},
     payment : Payments \cup {NoPayment}, size : Nat \ {0}]

\* Only a batch has a size, only a key batches or revokes, and only a payment is
\* settled.
IsRequest(q) ==
    /\ q \in RequestType
    /\ q.pc \in {"body", "verify"} /\ q.kind # "batch" => q.size = 1
    /\ q.pc = "body" /\ q.kind # "analyze" => q.key \in Keys
    /\ q.pc = "verify" => q.kind = "analyze" /\ q.payment \in Payments
    /\ q.pc = "settle" => q.payment \in Payments

ReqInv == req = [r \in Requests |-> req[r]] /\ \A r \in Requests : IsRequest(req[r])

PayInv ==
    /\ settled \subseteq Payments /\ delivered \in [Payments -> Nat]
    /\ PaidOnce

\* Requests with k that were charged and have not begun their analyses.
Pending(k) == {r \in Requests : req[r].pc \in {"body", "verify"} /\ req[r].key = k}

\* Each of them still has its hit to spend.
ChargeInv ==
    /\ analyses \in [Keys -> Nat]
    /\ \A k \in Keys :
          /\ IsFiniteSet(Pending(k))
          /\ analyses[k] + Cardinality(Pending(k)) <= Log!SumUpTo(charged[k], now)

IInv == ClockOK /\ WindowsOK /\ RateInv /\ KeysInv /\ ReqInv /\ PayInv /\ ChargeInv

LEMMA KeysFinite ==
    ASSUME NEW s, IsStore(s), issued \subseteq Keys
    PROVE  /\ DOMAIN s \subseteq Keys /\ IsFiniteSet(DOMAIN s)
           /\ NoKey \notin DOMAIN s
BY ServerAssumption, FS_Subset DEF IsStore

LEMMA UnsentIsRequest == IsRequest(Unsent) /\ Unsent.pc = "idle"
BY DEF IsRequest, RequestType, Unsent

\* Each part holds on while what it reads stays.
LEMMA Untouched ==
    /\ ClockOK /\ UNCHANGED <<now, up, failed, timer, stops>> => ClockOK'
    /\ WindowsOK /\ UNCHANGED <<now, budget, issuance>> => WindowsOK'
    /\ RateInv /\ UNCHANGED <<now, budget, charged>> => RateInv'
    /\ KeysInv /\ UNCHANGED <<up, store, file, issued, promised, dead, lost, timer>>
       => KeysInv'
    /\ ReqInv /\ UNCHANGED req => ReqInv'
    /\ PayInv /\ UNCHANGED <<settled, delivered>> => PayInv'
    /\ ChargeInv /\ UNCHANGED <<now, req, analyses, charged>> => ChargeInv'
<1>1. ClockOK /\ UNCHANGED <<now, up, failed, timer, stops>> => ClockOK'
  BY DEF ClockOK
<1>2. WindowsOK /\ UNCHANGED <<now, budget, issuance>> => WindowsOK'
  BY DEF WindowsOK
<1>3. RateInv /\ UNCHANGED <<now, budget, charged>> => RateInv'
  BY DEF RateInv
<1>4. KeysInv /\ UNCHANGED <<up, store, file, issued, promised, dead, lost, timer>>
       => KeysInv'
  BY DEF KeysInv, IsStore
<1>5. ReqInv /\ UNCHANGED req => ReqInv'
  BY DEF ReqInv
<1>6. PayInv /\ UNCHANGED <<settled, delivered>> => PayInv'
  BY DEF PayInv, PaidOnce
<1>7. ChargeInv /\ UNCHANGED <<now, req, analyses, charged>> => ChargeInv'
  BY DEF ChargeInv, Pending
<1> QED  BY <1>1, <1>2, <1>3, <1>4, <1>5, <1>6, <1>7

LEMMA Initially == Init => IInv
<1> SUFFICES ASSUME Init PROVE IInv
  OBVIOUS
<1>1. DOMAIN NoMap = {} /\ NoMap = [k \in DOMAIN NoMap |-> NoMap[k]]
  BY DEF NoMap
<1>2. ClockOK
  <2>1. now \in Nat /\ stops \in 0..MaxStops
    BY ServerAssumption DEF Init
  <2>2. up \in BOOLEAN /\ failed \in BOOLEAN /\ timer \in BOOLEAN
    BY Zenon DEF Init
  <2> QED  BY <2>1, <2>2 DEF ClockOK
<1>3. WindowsOK
  BY <1>1 DEF Init, WindowsOK
<1>4. RateInv
  <2>1. Rested(Log!EmptyLedger, 0)
    BY NoHits, ServerAssumption DEF Rested
  <2> QED  BY <1>1, <2>1, NoHits DEF Init, RateInv
<1>5. KeysInv
  BY <1>1, FS_EmptySet, ServerAssumption DEF Init, KeysInv, IsStore
<1>6. ReqInv
  BY UnsentIsRequest DEF Init, ReqInv
<1>7. PayInv
  BY DEF Init, PayInv, PaidOnce
<1>8. ChargeInv
  <2>1. \A k \in Keys : Pending(k) = {}
    BY UnsentIsRequest DEF Init, Pending
  <2>2. \A k \in Keys : IsFiniteSet(Pending(k)) /\ Cardinality(Pending(k)) = 0
    BY <2>1, FS_EmptySet
  <2>3. \A k \in Keys : analyses[k] = 0 /\ charged[k] = Log!EmptyLedger
    BY DEF Init
  <2>4. now \in Nat /\ analyses \in [Keys -> Nat]
    BY DEF Init
  <2>5. Log!SumUpTo(Log!EmptyLedger, now) \in Nat
    BY <2>4, NoHits
  <2>6. \A k \in Keys : analyses[k] + Cardinality(Pending(k)) <= Log!SumUpTo(charged[k], now)
    BY <2>2, <2>3, <2>5
  <2> QED  BY <2>2, <2>4, <2>6 DEF ChargeInv
<1> QED  BY <1>2, <1>3, <1>4, <1>5, <1>6, <1>7, <1>8 DEF IInv

--------------------------------------------------------------------------------
(* A hit *)

\* A hit opens or keeps the window of k, counts what it admits there, and drops
\* only windows that are over.
LEMMA HitEffect ==
    ASSUME ClockOK, NEW entries, NEW k, NEW limit \in Nat, NEW window \in Nat \ {0},
           NEW cost \in Nat, \A x \in DOMAIN entries : IsWindow(entries[x], limit, now)
    PROVE  LET h == hit(entries, k, limit, window, cost)
               e == Entry(entries, k, window)
               a == allowed(entries, k, limit, window, cost)
           IN  /\ DOMAIN h \subseteq DOMAIN entries \cup {k} /\ k \in DOMAIN h
               /\ IsWindow(e, limit, now) /\ now - e.windowStart < window
               /\ h[k] = IF a THEN [e EXCEPT !.count = @ + cost] ELSE e
               /\ \A x \in DOMAIN h : x # k => h[x] = entries[x]
               /\ \A x \in DOMAIN entries : x \notin DOMAIN h =>
                     now - entries[x].windowStart >= window
               /\ a <=> e.count + cost <= limit
               /\ \A x \in DOMAIN h : IsWindow(h[x], limit, now)
<1> DEFINE s == sweep(entries, window)
           e == Entry(entries, k, window)
           h == hit(entries, k, limit, window, cost)
           a == allowed(entries, k, limit, window, cost)
<1>0. now \in Nat /\ \A x \in DOMAIN entries : entries[x].windowStart \in Nat
  BY DEF ClockOK, IsWindow
<1>1. /\ DOMAIN s \subseteq DOMAIN entries
      /\ \A x \in DOMAIN s : s[x] = entries[x]
      /\ \A x \in DOMAIN entries : x \notin DOMAIN s => now - entries[x].windowStart >= window
  <2>1. \A x \in DOMAIN entries : x \notin Live(entries, window)
           => now - entries[x].windowStart >= window
    BY <1>0 DEF Live
  <2>2. Live(entries, window) \subseteq DOMAIN entries
    BY DEF Live
  <2> QED  BY <1>0, <2>1, <2>2 DEF sweep
<1>2. Entry(s, k, window) = e
  <2> HIDE DEF s
  <2> QED  BY <1>0, <1>1 DEF Entry
<1>3. IsWindow(e, limit, now) /\ now - e.windowStart < window
  <2>1. IsWindow([windowStart |-> now, count |-> 0], limit, now)
    BY <1>0 DEF IsWindow
  <2> QED  BY <1>0, <2>1 DEF Entry
<1>4. a <=> e.count + cost <= limit
  BY <1>2 DEF allowed
<1>5. h = With(s, k, IF a THEN [e EXCEPT !.count = @ + cost] ELSE e)
  <2> HIDE DEF e, s
  <2> QED  BY <1>2, <1>4 DEF hit, s
<1>6. /\ DOMAIN h = DOMAIN s \cup {k}
      /\ h[k] = IF a THEN [e EXCEPT !.count = @ + cost] ELSE e
      /\ \A x \in DOMAIN s : x # k => h[x] = s[x]
  <2> HIDE DEF h, s, e, a
  <2> QED  BY <1>5 DEF With
<1>7. a => IsWindow([e EXCEPT !.count = @ + cost], limit, now)
  <2> HIDE DEF e, a
  <2> QED  BY <1>3, <1>4 DEF IsWindow
<1> HIDE DEF h, s, e, a
<1>8. \A x \in DOMAIN h : IsWindow(h[x], limit, now)
  BY <1>1, <1>3, <1>6, <1>7
<1>9. /\ DOMAIN h \subseteq DOMAIN entries \cup {k} /\ k \in DOMAIN h
      /\ \A x \in DOMAIN h : x # k => h[x] = entries[x]
      /\ \A x \in DOMAIN entries : x \notin DOMAIN h => now - entries[x].windowStart >= window
  BY <1>1, <1>6
<1>10. IsWindow(e, limit, now) /\ now - e.windowStart < window
  BY <1>3
<1>11. h[k] = IF a THEN [e EXCEPT !.count = @ + cost] ELSE e
  BY <1>6
<1>12. a <=> e.count + cost <= limit
  BY <1>4
<1> QED  BY <1>8, <1>9, <1>10, <1>11, <1>12 DEF h, s, e, a

\* identity.consume keeps every key's budget, and adds to k's log what it admits.
LEMMA ConsumeKeeps ==
    ASSUME ClockOK, WindowsOK, RateInv, NEW k \in Keys, NEW cost \in Nat,
           consume(k, cost), now' = now, issuance' = issuance
    PROVE  /\ WindowsOK' /\ RateInv'
           /\ \A x \in Keys : Log!SumUpTo(charged'[x], now') =
                 Log!SumUpTo(charged[x], now)
                    + (IF x = k /\ allowed(budget, k, RateLimit, WINDOW_MS, cost)
                       THEN cost ELSE 0)
<1> DEFINE e == Entry(budget, k, WINDOW_MS)
           a == allowed(budget, k, RateLimit, WINDOW_MS, cost)
<1>0. now \in Nat /\ RateLimit \in Nat /\ WINDOW_MS \in Nat \ {0}
  BY ServerAssumption DEF ClockOK
<1>1. /\ DOMAIN budget' \subseteq DOMAIN budget \cup {k} /\ k \in DOMAIN budget'
      /\ IsWindow(e, RateLimit, now) /\ now - e.windowStart < WINDOW_MS
      /\ budget'[k] = IF a THEN [e EXCEPT !.count = @ + cost] ELSE e
      /\ \A x \in DOMAIN budget' : x # k => budget'[x] = budget[x]
      /\ \A x \in DOMAIN budget : x \notin DOMAIN budget' =>
            now - budget[x].windowStart >= WINDOW_MS
      /\ \A x \in DOMAIN budget' : IsWindow(budget'[x], RateLimit, now)
  <2> DEFINE h == hit(budget, k, RateLimit, WINDOW_MS, cost)
  <2>1. budget' = h
    BY DEF consume
  <2>2. \A x \in DOMAIN budget : IsWindow(budget[x], RateLimit, now)
    BY DEF WindowsOK
  <2>3. /\ DOMAIN h \subseteq DOMAIN budget \cup {k} /\ k \in DOMAIN h
        /\ IsWindow(e, RateLimit, now) /\ now - e.windowStart < WINDOW_MS
        /\ h[k] = IF a THEN [e EXCEPT !.count = @ + cost] ELSE e
        /\ \A x \in DOMAIN h : x # k => h[x] = budget[x]
        /\ \A x \in DOMAIN budget : x \notin DOMAIN h =>
              now - budget[x].windowStart >= WINDOW_MS
        /\ \A x \in DOMAIN h : IsWindow(h[x], RateLimit, now)
    BY SMTT(30), <1>0, <2>2, HitEffect
  <2> HIDE DEF h, e, a
  <2> QED  BY <2>1, <2>3
<1>2. charged' = IF a THEN [charged EXCEPT ![k] = Log!Push(@, now, cost)] ELSE charged
  BY DEF consume
<1> HIDE DEF a
<1>3. WindowsOK'
  BY <1>1 DEF WindowsOK
<1>4. /\ DOMAIN charged' = Keys
      /\ \A x \in Keys : charged'[x] = IF x = k /\ a THEN Log!Push(charged[x], now, cost)
                                       ELSE charged[x]
  BY <1>2 DEF RateInv
<1>5. Bounds(e, charged[k], now)
  <2>1. CASE k \in DOMAIN budget /\ now - budget[k].windowStart < WINDOW_MS
    BY <2>1 DEF Entry, RateInv
  <2>2. CASE ~(k \in DOMAIN budget /\ now - budget[k].windowStart < WINDOW_MS)
    <3>1. Rested(charged[k], now)
      <4>1. CASE k \notin DOMAIN budget
        BY <4>1 DEF RateInv
      <4>2. CASE k \in DOMAIN budget
        <5>1. IsWindow(budget[k], RateLimit, now) /\ Bounds(budget[k], charged[k], now)
              /\ IsLog(charged[k], now)
          BY <4>2 DEF WindowsOK, RateInv
        <5>2. now - budget[k].windowStart >= WINDOW_MS
          BY <2>2, <4>2, <5>1, <1>0 DEF IsWindow
        <5> QED  BY <5>1, <5>2, <1>0, OverIsRested
      <4> QED  BY <4>1, <4>2
    <3>2. e = [windowStart |-> now, count |-> 0]
      BY <2>2 DEF Entry
    <3> HIDE DEF e
    <3> QED  BY <3>1, <3>2, <1>0, FreshBounds DEF RateInv
  <2> QED  BY <2>1, <2>2
<1> HIDE DEF e
<1>6. ASSUME NEW x \in Keys
      PROVE  /\ IsLog(charged'[x], now)
             /\ x \in DOMAIN budget' => Bounds(budget'[x], charged'[x], now)
             /\ x \notin DOMAIN budget' => Rested(charged'[x], now)
             /\ Log!SumUpTo(charged'[x], now) = Log!SumUpTo(charged[x], now)
                    + (IF x = k /\ a THEN cost ELSE 0)
  <2>0. IsLog(charged[x], now) /\ Log!SumUpTo(charged[x], now) \in Nat
    BY <1>0, TotalType DEF RateInv
  <2>1. CASE x = k /\ a
    <3>1. charged'[x] = Log!Push(charged[x], now, cost)
      BY <1>4, <2>1
    <3>2. budget'[x] = [e EXCEPT !.count = @ + cost] /\ x \in DOMAIN budget'
      BY <1>1, <2>1
    <3>3. /\ IsLog(charged'[x], now)
          /\ Log!SumUpTo(charged'[x], now) = Log!SumUpTo(charged[x], now) + cost
      <4> DEFINE l == charged[x]
                 more == Log!Push(l, now, cost)
      <4>1. IsLog(more, now) /\ Log!SumUpTo(more, now) = Log!SumUpTo(l, now) + cost
        <5> HIDE DEF l
        <5>1. IsLog(l, now)
          BY <2>0 DEF l
        <5> QED  BY ZenonT(30), <5>1, <1>0, PushedLog
      <4> QED  BY <4>1, <3>1
    <3>4. Bounds(budget'[x], charged'[x], now)
      BY <1>0, <1>1, <1>5, <2>0, <2>1, <3>1, <3>2, PushBounds
    <3> QED  BY <2>1, <3>2, <3>3, <3>4
  <2>2. CASE x = k /\ ~a
    BY <1>0, <1>1, <1>4, <1>5, <2>0, <2>2
  <2>3. CASE x # k
    <3>1. charged'[x] = charged[x]
      BY <1>4, <2>3
    <3>2. CASE x \in DOMAIN budget'
      BY <1>1, <2>0, <2>3, <3>1, <3>2 DEF RateInv
    <3>3. CASE x \notin DOMAIN budget' /\ x \notin DOMAIN budget
      BY <2>0, <2>3, <3>1, <3>3 DEF RateInv
    <3>4. CASE x \notin DOMAIN budget' /\ x \in DOMAIN budget
      <4>1. IsWindow(budget[x], RateLimit, now) /\ Bounds(budget[x], charged[x], now)
        BY <3>4 DEF WindowsOK, RateInv
      <4>2. now - budget[x].windowStart >= WINDOW_MS
        BY <1>1, <3>4
      <4>3. Rested(charged[x], now)
        BY <4>1, <4>2, <2>0, <1>0, OverIsRested
      <4> QED  BY <4>3, <2>0, <2>3, <3>1, <3>4
    <3> QED  BY <3>2, <3>3, <3>4
  <2> QED  BY <2>1, <2>2, <2>3
<1>7. RateInv'
  BY <1>4, <1>6 DEF RateInv
<1> QED  BY <1>3, <1>6, <1>7 DEF a

--------------------------------------------------------------------------------
(* A request's step *)

\* 1 while q holds a hit of k it has not spent.
Owes(q, k) == IF q.pc \in {"body", "verify"} /\ q.key = k THEN 1 ELSE 0

\* A request moves on to q.  Analyses stay charged if what is begun and what is
\* still owed grow by no more than what was charged.
LEMMA RequestMoves ==
    ASSUME IInv, NEW r \in Requests, NEW q, IsRequest(q),
           req' = [req EXCEPT ![r] = q],
           now' = now, RateInv', analyses' \in [Keys -> Nat],
           \A k \in Keys :
              analyses'[k] + Owes(q, k) + Log!SumUpTo(charged[k], now)
                <= analyses[k] + Owes(req[r], k) + Log!SumUpTo(charged'[k], now)
    PROVE  ReqInv' /\ ChargeInv'
<1>1. ReqInv /\ ChargeInv /\ RateInv /\ now \in Nat
  BY DEF IInv, ClockOK
<1>2. ReqInv'
  BY <1>1 DEF ReqInv
<1>3. ASSUME NEW k \in Keys
      PROVE  /\ IsFiniteSet(Pending(k)')
             /\ analyses'[k] + Cardinality(Pending(k)') <= Log!SumUpTo(charged'[k], now')
  <2> DEFINE S == Pending(k)
             T == Pending(k)'
             Old == Log!SumUpTo(charged[k], now)
             New == Log!SumUpTo(charged'[k], now)
  <2>1. IsFiniteSet(S) /\ analyses[k] + Cardinality(S) <= Old /\ analyses[k] \in Nat
    BY <1>1 DEF ChargeInv
  <2>2. Old \in Nat /\ New \in Nat
    BY <1>1, TotalType DEF RateInv
  <2>3. analyses'[k] \in Nat
    OBVIOUS
  <2>4. analyses'[k] + Owes(q, k) + Old <= analyses[k] + Owes(req[r], k) + New
    OBVIOUS
  <2>5. /\ r \in S <=> Owes(req[r], k) = 1
        /\ r \notin S <=> Owes(req[r], k) = 0
        /\ r \in T <=> Owes(q, k) = 1
        /\ r \notin T <=> Owes(q, k) = 0
        /\ T \ {r} = S \ {r}
    <3>1. req'[r] = q /\ \A x \in Requests : x # r => req'[x] = req[x]
      BY <1>1 DEF ReqInv
    <3> QED  BY <3>1 DEF Pending, Owes
  <2> HIDE DEF S, T, Old, New
  <2>6. IsFiniteSet(T) /\ Cardinality(T) + Owes(req[r], k) = Cardinality(S) + Owes(q, k)
    <3>1. T = IF r \in T THEN (S \ {r}) \cup {r} ELSE S \ {r}
      BY <2>5
    <3>2. /\ IsFiniteSet(S \ {r})
          /\ Cardinality(S \ {r}) = IF r \in S THEN Cardinality(S) - 1 ELSE Cardinality(S)
      BY <2>1, FS_RemoveElement
    <3>3. /\ IsFiniteSet((S \ {r}) \cup {r})
          /\ Cardinality((S \ {r}) \cup {r}) = Cardinality(S \ {r}) + 1
      BY <3>2, FS_AddElement
    <3>4. Cardinality(S) \in Nat
      BY <2>1, FS_CardinalityType
    <3>5. CASE r \in T
      <4>1. IsFiniteSet(T) /\ Cardinality(T) = Cardinality(S \ {r}) + 1
        BY <3>1, <3>3, <3>5
      <4> QED  BY <4>1, <2>5, <3>2, <3>4, <3>5
    <3>6. CASE r \notin T
      <4>1. IsFiniteSet(T) /\ Cardinality(T) = Cardinality(S \ {r})
        BY <3>1, <3>2, <3>6
      <4> QED  BY <4>1, <2>5, <3>2, <3>4, <3>6
    <3> QED  BY <3>5, <3>6
  <2>7. Cardinality(S) \in Nat /\ Cardinality(T) \in Nat
    BY <2>1, <2>6, FS_CardinalityType
  <2>8. Owes(q, k) \in Nat /\ Owes(req[r], k) \in Nat
    BY DEF Owes
  <2>9. analyses'[k] + Cardinality(T) <= New
    BY <2>1, <2>2, <2>3, <2>4, <2>6, <2>7, <2>8
  <2> QED  BY <2>6, <2>9 DEF T, New
<1>4. ChargeInv'
  BY <1>3 DEF ChargeInv
<1> QED  BY <1>2, <1>4

\* What a request in flight looks like.
LEMMA InFlight ==
    ASSUME ReqInv, NEW r \in Requests
    PROVE  /\ IsRequest(req[r]) /\ req[r] \in RequestType
           /\ req[r] = [pc |-> req[r].pc, kind |-> req[r].kind, key |-> req[r].key,
                        payment |-> req[r].payment, size |-> req[r].size]
BY DEF ReqInv, IsRequest, RequestType

\* It ends: nothing is begun, nothing more is owed.
LEMMA EndsKeep ==
    ASSUME IInv, NEW r \in Requests, NEW q, IsRequest(q), q.pc \notin {"body", "verify"},
           req' = [req EXCEPT ![r] = q], UNCHANGED <<now, budget, charged, analyses>>
    PROVE  RateInv' /\ ReqInv' /\ ChargeInv'
<1>1. RateInv'
  BY Untouched DEF IInv
<1>2. analyses \in [Keys -> Nat] /\ \A k \in Keys : Log!SumUpTo(charged[k], now) \in Nat
  BY TotalType DEF IInv, ClockOK, ChargeInv, RateInv
<1>3. \A k \in Keys : Owes(q, k) = 0 /\ Owes(req[r], k) \in {0, 1}
  BY DEF Owes
<1>4. \A k \in Keys : analyses'[k] + Owes(q, k) + Log!SumUpTo(charged[k], now)
                <= analyses[k] + Owes(req[r], k) + Log!SumUpTo(charged'[k], now)
  BY <1>2, <1>3
<1> QED  BY <1>1, <1>2, <1>4, RequestMoves

\* The fields an answered or a new request starts from.
LEMMA UnsentShape ==
    /\ Unsent \in RequestType
    /\ Unsent.kind = "analyze" /\ Unsent.key = NoKey /\ Unsent.payment = NoPayment
    /\ Unsent.size = 1
BY DEF Unsent, RequestType

LEMMA SentKeeps ==
    ASSUME IInv, NEW r \in Requests, Sent(r), UNCHANGED <<now, budget, charged, analyses>>
    PROVE  RateInv' /\ ReqInv' /\ ChargeInv'
<1> DEFINE q == [Unsent EXCEPT !.pc = "sent", !.key = req[r].key]
<1>1. IsRequest(q) /\ q.pc = "sent"
  <2>1. req[r] \in RequestType
    BY InFlight DEF IInv
  <2>2. req[r].key \in Keys \cup {NoKey}
    BY <2>1 DEF RequestType
  <2> QED  BY <2>2, UnsentShape DEF IsRequest, RequestType
<1>2. req' = [req EXCEPT ![r] = q]
  BY DEF Sent
<1> HIDE DEF q
<1> QED  BY <1>1, <1>2, EndsKeep

\* It goes on to a step that owes no more than the one before.
LEMMA ToKeeps ==
    ASSUME IInv, NEW r \in Requests, NEW step, To(r, step),
           IsRequest([req[r] EXCEPT !.pc = step]),
           req[r].pc = "body" \/ step \notin {"body", "verify"},
           UNCHANGED <<now, budget, charged, analyses>>
    PROVE  RateInv' /\ ReqInv' /\ ChargeInv'
<1> DEFINE q == [req[r] EXCEPT !.pc = step]
<1>1. req[r] \in RequestType
  BY InFlight DEF IInv
<1>2. q.pc = step /\ q.key = req[r].key
  BY <1>1 DEF RequestType
<1>3. req' = [req EXCEPT ![r] = q]
  BY DEF To
<1>4. RateInv'
  BY Untouched DEF IInv
<1>5. analyses \in [Keys -> Nat] /\ \A k \in Keys : Log!SumUpTo(charged[k], now) \in Nat
  BY TotalType DEF IInv, ClockOK, ChargeInv, RateInv
<1>6. IsRequest(q)
  OBVIOUS
<1> HIDE DEF q
<1>7. \A k \in Keys : /\ Owes(q, k) \in {0, 1} /\ Owes(req[r], k) \in {0, 1}
                      /\ Owes(q, k) <= Owes(req[r], k)
  BY <1>2 DEF Owes
<1>8. \A k \in Keys : analyses'[k] + Owes(q, k) + Log!SumUpTo(charged[k], now)
                <= analyses[k] + Owes(req[r], k) + Log!SumUpTo(charged'[k], now)
  BY <1>5, <1>7
<1> QED  BY <1>3, <1>4, <1>5, <1>6, <1>8, RequestMoves

\* An analysis, or those of a batch, begins: it spends the hit the request was
\* admitted with, and those charged with it.
LEMMA BeginsKeeps ==
    ASSUME IInv, NEW r \in Requests, NEW p \in Payments \cup {NoPayment},
           BeginsAnalysis(r, p), req[r].pc \in {"body", "verify"}, now' = now, RateInv',
           \A k \in Keys : Log!SumUpTo(charged'[k], now) =
              Log!SumUpTo(charged[k], now) + (IF k = req[r].key THEN req[r].size - 1 ELSE 0)
    PROVE  ReqInv' /\ ChargeInv'
<1> DEFINE q == [Unsent EXCEPT !.pc = "analyze", !.payment = p, !.key = req[r].key]
<1>1. req[r] \in RequestType
  BY InFlight DEF IInv
<1>2. IsRequest(q) /\ q.pc = "analyze"
  <2>1. req[r].key \in Keys \cup {NoKey}
    BY <1>1 DEF RequestType
  <2> QED  BY <2>1, UnsentShape DEF IsRequest, RequestType
<1>3. req' = [req EXCEPT ![r] = q]
  BY DEF BeginsAnalysis
<1> HIDE DEF q
<1>4. req[r].size \in Nat \ {0}
  BY <1>1 DEF RequestType
<1>5. analyses \in [Keys -> Nat] /\ \A k \in Keys : Log!SumUpTo(charged[k], now) \in Nat
  BY TotalType DEF IInv, ClockOK, ChargeInv, RateInv
<1>6. /\ analyses' \in [Keys -> Nat]
      /\ \A k \in Keys : analyses'[k] = analyses[k] + (IF k = req[r].key THEN req[r].size ELSE 0)
  BY <1>4, <1>5 DEF BeginsAnalysis
<1>7. \A k \in Keys : Owes(q, k) = 0 /\ Owes(req[r], k) = IF k = req[r].key THEN 1 ELSE 0
  BY <1>2 DEF Owes
<1>8. ASSUME NEW k \in Keys
      PROVE  analyses'[k] + Owes(q, k) + Log!SumUpTo(charged[k], now)
                <= analyses[k] + Owes(req[r], k) + Log!SumUpTo(charged'[k], now)
  <2>1. analyses[k] \in Nat /\ Log!SumUpTo(charged[k], now) \in Nat
    BY <1>5
  <2>2. CASE k = req[r].key
    BY <2>1, <2>2, <1>4, <1>6, <1>7
  <2>3. CASE k # req[r].key
    BY <2>1, <2>3, <1>6, <1>7
  <2> QED  BY <2>2, <2>3
<1> QED  BY <1>2, <1>3, <1>6, <1>8, RequestMoves

\* The auth hook admits a request with one hit, or charges nothing.
LEMMA AuthenticatedKeeps ==
    ASSUME IInv, NEW r \in Requests, NEW kind \in {"analyze", "batch", "revoke"},
           NEW k \in Keys, NEW p \in Payments \cup {NoPayment}, NEW n \in Nat \ {0},
           kind # "batch" => n = 1, AuthenticatedByKey(r, kind, k, p, n)
    PROVE  IInv'
<1> DEFINE q == [pc |-> "body", kind |-> kind, key |-> k, payment |-> p, size |-> n]
           a == allowed(budget, k, RateLimit, WINDOW_MS, 1)
<1>1. /\ WindowsOK' /\ RateInv'
      /\ \A x \in Keys : Log!SumUpTo(charged'[x], now') =
            Log!SumUpTo(charged[x], now) + (IF x = k /\ a THEN 1 ELSE 0)
  BY ConsumeKeeps DEF IInv, AuthenticatedByKey
<1>2. ClockOK' /\ KeysInv' /\ PayInv'
  BY Untouched DEF IInv, AuthenticatedByKey, keyVars
<1>3. /\ req[r].pc = "idle" /\ now' = now /\ analyses' = analyses
      /\ req' = IF a THEN [req EXCEPT ![r] = q] ELSE req
  BY DEF AuthenticatedByKey
<1>4. analyses \in [Keys -> Nat] /\ \A x \in Keys : Log!SumUpTo(charged[x], now) \in Nat
  BY TotalType DEF IInv, ClockOK, ChargeInv, RateInv
<1>5. IsRequest(q)
  BY DEF IsRequest, RequestType
<1>6. \A x \in Keys : Owes(q, x) = (IF x = k THEN 1 ELSE 0) /\ Owes(req[r], x) = 0
  BY <1>3 DEF Owes
<1> HIDE DEF a, q
<1>7. CASE a
  <2>1. \A x \in Keys : analyses'[x] + Owes(q, x) + Log!SumUpTo(charged[x], now)
                <= analyses[x] + Owes(req[r], x) + Log!SumUpTo(charged'[x], now)
    BY <1>1, <1>3, <1>4, <1>6, <1>7
  <2>2. ReqInv' /\ ChargeInv'
    BY <1>1, <1>3, <1>4, <1>5, <1>7, <2>1, RequestMoves
  <2> QED  BY <1>1, <1>2, <2>2 DEF IInv
<1>8. CASE ~a
  <2>1. charged' = charged
    BY <1>8 DEF AuthenticatedByKey, consume, a
  <2>2. ReqInv' /\ ChargeInv'
    BY <1>3, <1>8, <2>1, Untouched DEF IInv
  <2> QED  BY <1>1, <1>2, <2>2 DEF IInv
<1> QED  BY <1>7, <1>8

LEMMA ArrivesKeeps ==
    ASSUME IInv, NEW r \in Requests, Arrives(r)
    PROVE  IInv'
<1>1. ASSUME NEW k \in Keys, NEW p \in Payments \cup {NoPayment},
             AuthenticatedByKey(r, "analyze", k, p, 1)
      PROVE  IInv'
  BY <1>1, AuthenticatedKeeps
<1>2. ASSUME NEW k \in Keys, NEW n \in BatchSizes,
             AuthenticatedByKey(r, "batch", k, NoPayment, n)
      PROVE  IInv'
  BY <1>2, AuthenticatedKeeps, ServerAssumption
<1>3. ASSUME NEW k \in Keys, AuthenticatedByKey(r, "revoke", k, NoPayment, 1)
      PROVE  IInv'
  BY <1>3, AuthenticatedKeeps
<1>4. ASSUME NEW p \in Payments \cup {NoPayment}, isGatedByX402Instead(r, p)
      PROVE  IInv'
  <2> DEFINE q == [Unsent EXCEPT !.pc = "body", !.payment = p]
  <2>1. q.pc = "body" /\ q.key = NoKey /\ IsRequest(q)
    BY UnsentShape DEF IsRequest, RequestType
  <2>2. req' = [req EXCEPT ![r] = q] /\ UNCHANGED <<now, charged, analyses, budget>>
    BY <1>4 DEF isGatedByX402Instead
  <2> HIDE DEF q
  <2>3. IsRequest(q)
    BY <2>1
  <2>4. \A k \in Keys : Owes(q, k) = 0 /\ Owes(req[r], k) \in {0, 1}
    BY <2>1, ServerAssumption DEF Owes
  <2>5. ClockOK' /\ WindowsOK' /\ RateInv' /\ KeysInv' /\ PayInv'
    BY <1>4, Untouched DEF IInv, isGatedByX402Instead, keyVars
  <2>6. analyses \in [Keys -> Nat] /\ \A k \in Keys : Log!SumUpTo(charged[k], now) \in Nat
    BY TotalType DEF IInv, ClockOK, ChargeInv, RateInv
  <2>7. \A k \in Keys : analyses'[k] + Owes(q, k) + Log!SumUpTo(charged[k], now)
                <= analyses[k] + Owes(req[r], k) + Log!SumUpTo(charged'[k], now)
    BY <2>2, <2>4, <2>6
  <2>8. ReqInv' /\ ChargeInv'
    BY <2>2, <2>3, <2>5, <2>6, <2>7, RequestMoves
  <2> QED  BY <2>5, <2>8 DEF IInv
<1> QED  BY <1>1, <1>2, <1>3, <1>4 DEF Arrives

--------------------------------------------------------------------------------
(* Steps of a request that leave the keys alone *)

LEMMA BadBodyKeeps ==
    ASSUME IInv, NEW r \in Requests, BadBody(r)
    PROVE  IInv'
<1>1. RateInv' /\ ReqInv' /\ ChargeInv'
  BY SentKeeps DEF BadBody
<1>2. ClockOK' /\ WindowsOK' /\ KeysInv' /\ PayInv'
  BY Untouched DEF IInv, BadBody, keyVars
<1> QED  BY <1>1, <1>2 DEF IInv

LEMMA PreHandlerKeeps ==
    ASSUME IInv, NEW r \in Requests, preHandlerAnalyze(r)
    PROVE  IInv'
<1>1. ClockOK' /\ WindowsOK' /\ RateInv' /\ KeysInv' /\ PayInv'
  BY Untouched DEF IInv, preHandlerAnalyze, keyVars
<1>2. /\ req[r].pc = "body" /\ req[r].kind = "analyze"
      /\ UNCHANGED <<now, budget, charged>>
  BY DEF preHandlerAnalyze
<1>3. IsRequest(req[r]) /\ req[r] \in RequestType /\ req[r].size = 1
  BY <1>2, InFlight DEF IInv, IsRequest
<1>4. CASE BeginsAnalysis(r, NoPayment)
  <2>1. \A k \in Keys : Log!SumUpTo(charged'[k], now) =
           Log!SumUpTo(charged[k], now) + (IF k = req[r].key THEN req[r].size - 1 ELSE 0)
    <3>1. \A k \in Keys : Log!SumUpTo(charged[k], now) \in Nat
      BY TotalType DEF IInv, ClockOK, RateInv
    <3> QED  BY <1>2, <1>3, <3>1
  <2>2. ReqInv' /\ ChargeInv'
    BY <1>1, <1>2, <1>4, <2>1, BeginsKeeps
  <2> QED  BY <1>1, <2>2 DEF IInv
<1>5. CASE Sent(r) /\ UNCHANGED analyses
  <2>1. ReqInv' /\ ChargeInv'
    BY <1>2, <1>5, SentKeeps
  <2> QED  BY <1>1, <2>1 DEF IInv
<1>6. CASE To(r, "verify") /\ req[r].payment # NoPayment /\ UNCHANGED analyses
  <2>1. IsRequest([req[r] EXCEPT !.pc = "verify"])
    BY <1>2, <1>3, <1>6 DEF IsRequest, RequestType
  <2>2. ReqInv' /\ ChargeInv'
    BY <1>2, <1>6, <2>1, ToKeeps
  <2> QED  BY <1>1, <2>2 DEF IInv
<1> QED  BY <1>4, <1>5, <1>6 DEF preHandlerAnalyze

LEMMA VerifyKeeps ==
    ASSUME IInv, NEW r \in Requests, VerifyReturns(r)
    PROVE  IInv'
<1>1. ClockOK' /\ WindowsOK' /\ RateInv' /\ KeysInv' /\ PayInv'
  BY Untouched DEF IInv, VerifyReturns, keyVars
<1>2. req[r].pc = "verify" /\ UNCHANGED <<now, budget, charged>>
  BY DEF VerifyReturns
<1>3. req[r].size = 1 /\ req[r].payment \in Payments
  BY <1>2, InFlight DEF IInv, IsRequest
<1>4. CASE Sent(r) /\ UNCHANGED analyses
  <2>1. ReqInv' /\ ChargeInv'
    BY <1>2, <1>4, SentKeeps
  <2> QED  BY <1>1, <2>1 DEF IInv
<1>5. CASE BeginsAnalysis(r, req[r].payment)
  <2>1. \A k \in Keys : Log!SumUpTo(charged'[k], now) =
           Log!SumUpTo(charged[k], now) + (IF k = req[r].key THEN req[r].size - 1 ELSE 0)
    <3>1. \A k \in Keys : Log!SumUpTo(charged[k], now) \in Nat
      BY TotalType DEF IInv, ClockOK, RateInv
    <3> QED  BY <1>2, <1>3, <3>1
  <2>2. ReqInv' /\ ChargeInv'
    BY <1>1, <1>2, <1>3, <1>5, <2>1, BeginsKeeps
  <2> QED  BY <1>1, <2>2 DEF IInv
<1> QED  BY <1>4, <1>5 DEF VerifyReturns

LEMMA AnalysisReturnsKeeps ==
    ASSUME IInv, NEW r \in Requests, AnalysisReturns(r)
    PROVE  IInv'
<1>1. ClockOK' /\ WindowsOK' /\ RateInv' /\ KeysInv' /\ PayInv'
  BY Untouched DEF IInv, AnalysisReturns, keyVars
<1>2. UNCHANGED <<now, budget, charged, analyses>>
  BY DEF AnalysisReturns
<1>3. CASE Sent(r)
  <2>1. ReqInv' /\ ChargeInv'
    BY <1>2, <1>3, SentKeeps
  <2> QED  BY <1>1, <2>1 DEF IInv
<1>4. CASE req[r].payment \in Payments /\ To(r, "settle")
  <2>1. req[r] \in RequestType
    BY InFlight DEF IInv
  <2>2. IsRequest([req[r] EXCEPT !.pc = "settle"])
    BY <1>4, <2>1 DEF IsRequest, RequestType
  <2>3. ReqInv' /\ ChargeInv'
    BY <1>2, <1>4, <2>2, ToKeeps
  <2> QED  BY <1>1, <2>3 DEF IInv
<1> QED  BY <1>3, <1>4 DEF AnalysisReturns

\* A payment is settled at most once, and only then is its analysis answered.
LEMMA SettleKeeps ==
    ASSUME IInv, NEW r \in Requests, settleAfterSuccess(r)
    PROVE  IInv'
<1>1. RateInv' /\ ReqInv' /\ ChargeInv'
  BY SentKeeps DEF settleAfterSuccess
<1>2. ClockOK' /\ WindowsOK' /\ KeysInv'
  BY Untouched DEF IInv, settleAfterSuccess, keyVars
<1>3. req[r].payment \in Payments
  BY InFlight DEF IInv, settleAfterSuccess, IsRequest
<1>4. PayInv'
  <2> DEFINE p == req[r].payment
  <2>1. CASE p \notin settled /\ settled' = settled \cup {p}
             /\ delivered' \in {delivered, [delivered EXCEPT ![p] = @ + 1]}
    <3>1. p \in Payments
      BY <1>3
    <3> HIDE DEF p
    <3>2. delivered[p] = 0
      BY <2>1, <3>1 DEF IInv, PayInv, PaidOnce
    <3> QED  BY <2>1, <3>1, <3>2 DEF IInv, PayInv, PaidOnce
  <2>2. CASE UNCHANGED <<settled, delivered>>
    BY <2>2, Untouched DEF IInv
  <2> QED  BY <2>1, <2>2 DEF settleAfterSuccess
<1> QED  BY <1>1, <1>2, <1>4 DEF IInv

\* A batch is charged what it will begin, before it begins, or ends there.
LEMMA ChargeBatchKeeps ==
    ASSUME IInv, NEW r \in Requests, chargeBatch(r)
    PROVE  IInv'
<1> DEFINE k == req[r].key
           cost == BatchCost(r)
           a == allowed(budget, k, RateLimit, WINDOW_MS, cost)
<1>1. req[r].pc = "body" /\ req[r].kind = "batch" /\ UNCHANGED <<now, issuance>>
  BY DEF chargeBatch
<1>2. req[r] \in RequestType /\ k \in Keys /\ cost \in Nat /\ cost = req[r].size - 1
  <2>1. IsRequest(req[r]) /\ req[r] \in RequestType
    BY InFlight DEF IInv
  <2>2. k \in Keys
    BY <1>1, <2>1 DEF IsRequest
  <2>3. req[r].size \in Nat \ {0}
    BY <2>1 DEF RequestType
  <2> QED  BY <2>1, <2>2, <2>3 DEF BatchCost
<1>3. /\ WindowsOK' /\ RateInv'
      /\ \A x \in Keys : Log!SumUpTo(charged'[x], now') =
            Log!SumUpTo(charged[x], now) + (IF x = k /\ a THEN cost ELSE 0)
  <2>1. consume(k, cost)
    BY DEF chargeBatch
  <2> HIDE DEF k, cost
  <2> QED  BY <1>1, <1>2, <2>1, ConsumeKeeps DEF IInv
<1>4. ClockOK' /\ KeysInv' /\ PayInv'
  BY Untouched DEF IInv, chargeBatch, keyVars
<1>5. CASE a
  <2>1. BeginsAnalysis(r, NoPayment)
    BY <1>5 DEF chargeBatch
  <2> HIDE DEF a, cost
  <2>2. \A x \in Keys : Log!SumUpTo(charged'[x], now) =
           Log!SumUpTo(charged[x], now) + (IF x = req[r].key THEN req[r].size - 1 ELSE 0)
    BY <1>1, <1>2, <1>3, <1>5
  <2>3. ReqInv' /\ ChargeInv'
    BY <1>1, <1>3, <2>1, <2>2, BeginsKeeps
  <2> QED  BY <1>3, <1>4, <2>3 DEF IInv
<1>6. CASE ~a
  <2>1. req' = [req EXCEPT ![r] = Unsent] /\ UNCHANGED analyses /\ charged' = charged
    BY <1>6 DEF chargeBatch, consume
  <2>2. analyses \in [Keys -> Nat] /\ \A x \in Keys : Log!SumUpTo(charged[x], now) \in Nat
    BY TotalType DEF IInv, ClockOK, ChargeInv, RateInv
  <2>3. \A x \in Keys : Owes(Unsent, x) = 0 /\ Owes(req[r], x) \in {0, 1}
    BY UnsentIsRequest DEF Owes
  <2>4. \A x \in Keys : analyses'[x] + Owes(Unsent, x) + Log!SumUpTo(charged[x], now)
                <= analyses[x] + Owes(req[r], x) + Log!SumUpTo(charged'[x], now)
    BY <2>1, <2>2, <2>3
  <2>5. ReqInv' /\ ChargeInv'
    BY <1>1, <1>3, <2>1, <2>2, <2>4, UnsentIsRequest, RequestMoves
  <2> QED  BY <1>3, <1>4, <2>5 DEF IInv
<1> QED  BY <1>5, <1>6

--------------------------------------------------------------------------------
(* Steps that change the keys *)

\* Whatever a write comes to, the file is the old one or the new one; it is the new
\* one if the caller may be told so.
LEMMA FlushOutcome ==
    ASSUME ClockOK, NEW s, flushNow(s)
    PROVE  /\ failed' \in BOOLEAN
           /\ file' = s \/ file' = file
           /\ persistent => file' = s
           /\ ~HasDataDir => file' = file
BY DEF flushNow, persistent, ClockOK

LEMMA CreateKeyKeeps ==
    ASSUME IInv, NEW k \in Keys, createKey(k)
    PROVE  IInv'
<1>1. /\ up /\ k \notin issued
      /\ UNCHANGED <<now, up, timer, budget, req, settled, stops, charged, analyses, dead,
                     lost, delivered>>
  BY DEF createKey
<1>2. RateInv' /\ ReqInv' /\ PayInv' /\ ChargeInv'
  BY <1>1, Untouched DEF IInv
<1>3. WindowsOK'
  <2> DEFINE h == hit(issuance, Address, KeysPerHour, HOUR_MS, 1)
  <2>1. issuance' = h
    BY DEF createKey
  <2>2. KeysPerHour \in Nat /\ HOUR_MS \in Nat \ {0} /\ ClockOK
        /\ \A x \in DOMAIN issuance : IsWindow(issuance[x], KeysPerHour, now)
    BY ServerAssumption DEF IInv, WindowsOK
  <2>3. DOMAIN h \subseteq DOMAIN issuance \cup {Address}
        /\ \A x \in DOMAIN h : IsWindow(h[x], KeysPerHour, now)
    BY <2>2, HitEffect
  <2> HIDE DEF h
  <2> QED  BY <1>1, <2>1, <2>3 DEF IInv, WindowsOK
<1>4. CASE UNCHANGED <<store, file, failed, issued, promised>>
  <2>1. KeysInv' /\ ClockOK'
    BY <1>1, <1>4, Untouched DEF IInv
  <2> QED  BY <1>2, <1>3, <2>1 DEF IInv
<1>5. CASE /\ ~full
           /\ store' = With(store, k, [revoked |-> FALSE, total |-> 0])
           /\ flushNow(store')
           /\ issued' = issued \cup {k}
           /\ promised' = IF persistent THEN promised \cup {k} ELSE promised
  <2>1. /\ failed' \in BOOLEAN
        /\ file' = store' \/ file' = file
        /\ persistent => file' = store'
        /\ ~HasDataDir => file' = file
    BY <1>5, FlushOutcome DEF IInv
  <2>2. ClockOK'
    BY <1>1, <2>1 DEF IInv, ClockOK
  <2>3. KeysInv
    BY DEF IInv
  <2>4. /\ DOMAIN store' = DOMAIN store \cup {k}
        /\ store' = [x \in DOMAIN store' |-> store'[x]]
        /\ store'[k] = [revoked |-> FALSE, total |-> 0]
        /\ \A x \in DOMAIN store : x # k => store'[x] = store[x]
    BY <1>5 DEF With
  <2>5. k \notin dead /\ k \notin DOMAIN store
    BY <1>1, <2>3 DEF KeysInv, IsStore
  <2>6. Cardinality(DOMAIN store') <= MaxKeys
    <3>1. IsFiniteSet(DOMAIN store) /\ Cardinality(DOMAIN store) \in Nat
      BY <2>3, KeysFinite, FS_CardinalityType DEF KeysInv
    <3>2. Cardinality(DOMAIN store') = Cardinality(DOMAIN store) + 1
      BY <2>4, <2>5, <3>1, FS_AddElement
    <3>3. Cardinality(DOMAIN store) < MaxKeys
      BY <1>5, <3>1, ServerAssumption DEF full
    <3> QED  BY <3>1, <3>2, <3>3, ServerAssumption
  <2>7. DOMAIN store' \subseteq issued'
    BY <1>5, <2>3, <2>4 DEF KeysInv, IsStore
  <2>8. \A x \in DOMAIN store' : store'[x] \in [revoked : BOOLEAN, total : Nat]
    <3>1. [revoked |-> FALSE, total |-> 0] \in [revoked : BOOLEAN, total : Nat]
      OBVIOUS
    <3>2. \A x \in DOMAIN store : store[x] \in [revoked : BOOLEAN, total : Nat]
      BY <2>3 DEF KeysInv, IsStore
    <3> QED  BY <2>4, <3>1, <3>2
  <2>9. \A x \in dead \cap DOMAIN store' : store'[x].revoked
    BY <2>3, <2>4, <2>5 DEF KeysInv, IsStore
  <2>10. IsStore(store)'
    BY <1>1, <2>4, <2>6, <2>7, <2>8, <2>9 DEF IsStore
  <2>11. IsStore(file)'
    <3>1. CASE file' = store'
      BY <2>10, <3>1 DEF IsStore
    <3>2. CASE file' = file
      BY <1>1, <1>5, <2>3, <3>2 DEF KeysInv, IsStore
    <3> QED  BY <2>1, <3>1, <3>2
  <2>12. promised' \ lost' \subseteq DOMAIN file' /\ promised' \ lost' \subseteq DOMAIN store'
    <3>1. /\ promised \ lost \subseteq DOMAIN file /\ promised \ lost \subseteq DOMAIN store
          /\ lost' = lost
      BY <1>1, <2>3 DEF KeysInv
    <3>2. CASE persistent
      BY <1>5, <2>1, <2>4, <3>1, <3>2
    <3>3. CASE ~persistent
      BY <1>5, <2>1, <2>4, <3>1, <3>3
    <3> QED  BY <3>2, <3>3
  <2>13. promised' \subseteq issued' /\ issued' \subseteq Keys /\ dead' \subseteq issued'
         /\ lost' \subseteq issued'
    BY <1>1, <1>5, <2>3 DEF KeysInv
  <2>14. up' /\ (~HasDataDir => DOMAIN file' = {})
    BY <1>1, <2>1, <2>3 DEF KeysInv
  <2>15. KeysInv'
    BY <2>10, <2>11, <2>12, <2>13, <2>14 DEF KeysInv
  <2> QED  BY <1>2, <1>3, <2>2, <2>15 DEF IInv
<1> QED  BY <1>4, <1>5 DEF createKey

\* A revocation that was answered without a warning is in the file.
LEMMA RevokeKeeps ==
    ASSUME IInv, NEW r \in Requests, revoke(r)
    PROVE  IInv'
<1> DEFINE k == req[r].key
<1>1. /\ Sent(r)
      /\ UNCHANGED <<now, up, timer, issued, promised, lost, budget, issuance, settled,
                     stops, charged, analyses, delivered>>
  BY DEF revoke
<1>2. RateInv' /\ ReqInv' /\ ChargeInv'
  BY <1>1, SentKeeps
<1>3. WindowsOK' /\ PayInv'
  BY <1>1, Untouched DEF IInv
<1>4. CASE UNCHANGED <<store, file, failed, dead>>
  <2>1. KeysInv' /\ ClockOK'
    BY <1>1, <1>4, Untouched DEF IInv
  <2> QED  BY <1>2, <1>3, <2>1 DEF IInv
<1>5. CASE /\ valid(k)
           /\ store' = [store EXCEPT ![k].revoked = TRUE]
           /\ flushNow(store')
           /\ dead' = IF persistent \/ ~HasDataDir THEN dead \cup {k} ELSE dead
  <2> HIDE DEF k
  <2>1. /\ failed' \in BOOLEAN
        /\ file' = store' \/ file' = file
        /\ persistent => file' = store'
        /\ ~HasDataDir => file' = file
    BY <1>5, FlushOutcome DEF IInv
  <2>2. ClockOK'
    BY <1>1, <2>1 DEF IInv, ClockOK
  <2>3. KeysInv /\ k \in DOMAIN store
    BY <1>5 DEF IInv, valid
  <2>4. /\ DOMAIN store' = DOMAIN store
        /\ store' = [x \in DOMAIN store' |-> store'[x]]
        /\ \A x \in DOMAIN store : x # k => store'[x] = store[x]
        /\ store'[k] = [store[k] EXCEPT !.revoked = TRUE]
    BY ZenonT(30), <1>5, <2>3 DEF KeysInv, IsStore
  <2>5. store'[k].revoked /\ store'[k] \in [revoked : BOOLEAN, total : Nat]
    BY <2>3, <2>4 DEF KeysInv, IsStore
  <2>6. dead \subseteq dead' /\ dead' \subseteq dead \cup {k}
    BY <1>5
  <2>7. DOMAIN store' \subseteq issued' /\ Cardinality(DOMAIN store') <= MaxKeys
    BY <1>1, <2>3, <2>4 DEF KeysInv, IsStore
  <2>8. \A x \in DOMAIN store' : store'[x] \in [revoked : BOOLEAN, total : Nat]
    BY <2>3, <2>4, <2>5 DEF KeysInv, IsStore
  <2>9. \A x \in dead' \cap DOMAIN store' : store'[x].revoked
    BY <2>3, <2>4, <2>5, <2>6 DEF KeysInv, IsStore
  <2>10. IsStore(store)'
    BY <2>4, <2>7, <2>8, <2>9 DEF IsStore
  <2>11. IsStore(file)'
    <3>1. CASE file' = store'
      BY <2>10, <3>1 DEF IsStore
    <3>2. CASE file' = file /\ dead' = dead
      BY <1>1, <2>3, <3>2 DEF KeysInv, IsStore
    <3>3. CASE file' = file /\ ~HasDataDir
      <4>1. DOMAIN file' = {}
        BY <2>3, <3>3 DEF KeysInv
      <4> QED  BY <1>1, <2>3, <3>3, <4>1 DEF KeysInv, IsStore
    <3> QED  BY <1>5, <2>1, <3>1, <3>2, <3>3
  <2>12. /\ promised' \ lost' \subseteq DOMAIN file'
         /\ up' => promised' \ lost' \subseteq DOMAIN store'
    <3>1. up
      BY <2>3 DEF KeysInv
    <3>2. promised \ lost \subseteq DOMAIN file /\ promised \ lost \subseteq DOMAIN store
      BY <2>3, <3>1 DEF KeysInv
    <3> QED  BY <1>1, <2>1, <2>4, <3>2
  <2>13. promised' \subseteq issued' /\ issued' \subseteq Keys /\ dead' \subseteq issued'
         /\ lost' \subseteq issued'
    BY <1>1, <2>3, <2>6 DEF KeysInv, IsStore
  <2>14. (~up' => DOMAIN store' = {} /\ ~timer') /\ (~HasDataDir => DOMAIN file' = {})
    BY <1>1, <2>1, <2>3, <2>4 DEF KeysInv
  <2>15. KeysInv'
    BY <2>10, <2>11, <2>12, <2>13, <2>14 DEF KeysInv
  <2> QED  BY <1>2, <1>3, <2>2, <2>15 DEF IInv
<1> QED  BY <1>4, <1>5 DEF revoke

LEMMA MinIsNat ==
    ASSUME NEW a \in Nat, NEW b \in Nat
    PROVE  Min({a, b}) \in Nat
<1>1. \E x \in {a, b} : \A y \in {a, b} : x <= y
  OBVIOUS
<1>2. Min({a, b}) \in {a, b}
  BY <1>1 DEF Min
<1> QED  BY <1>2

LEMMA RecordUsageKeeps ==
    ASSUME IInv, NEW r \in Requests, recordUsage(r)
    PROVE  IInv'
<1> DEFINE k == req[r].key
<1>1. /\ req[r].pc = "sent" /\ req' = [req EXCEPT ![r] = Unsent]
      /\ UNCHANGED <<now, up, file, failed, issued, promised, dead, lost, budget, issuance,
                     settled, stops, charged, analyses, delivered>>
  BY DEF recordUsage
<1>2. RateInv' /\ ReqInv' /\ ChargeInv'
  BY <1>1, UnsentIsRequest, EndsKeep
<1>3. WindowsOK' /\ PayInv'
  BY <1>1, Untouched DEF IInv
<1>4. CASE UNCHANGED <<store, timer>>
  <2>1. KeysInv' /\ ClockOK'
    BY <1>1, <1>4, Untouched DEF IInv
  <2> QED  BY <1>2, <1>3, <2>1 DEF IInv
<1>5. CASE /\ k \in DOMAIN store
           /\ store' = [store EXCEPT ![k].total = Min({@ + 1, MaxUses})] /\ scheduleFlush
  <2> HIDE DEF k
  <2>0. KeysInv /\ up
    BY <1>5 DEF IInv, KeysInv
  <2>1. store[k] \in [revoked : BOOLEAN, total : Nat]
    BY <1>5, <2>0 DEF KeysInv, IsStore
  <2>2. Min({store[k].total + 1, MaxUses}) \in Nat
    BY <2>1, MinIsNat, ServerAssumption
  <2>3. /\ DOMAIN store' = DOMAIN store
        /\ store' = [x \in DOMAIN store' |-> store'[x]]
        /\ \A x \in DOMAIN store : x # k => store'[x] = store[x]
        /\ store'[k] = [store[k] EXCEPT !.total = Min({store[k].total + 1, MaxUses})]
    BY <1>5, <2>0 DEF KeysInv, IsStore
  <2>4. store'[k] \in [revoked : BOOLEAN, total : Nat] /\ store'[k].revoked = store[k].revoked
    BY <2>1, <2>2, <2>3
  <2>5. ClockOK'
    BY <1>1, <1>5, ServerAssumption DEF IInv, ClockOK, scheduleFlush
  <2>6. DOMAIN store' \subseteq issued' /\ Cardinality(DOMAIN store') <= MaxKeys
    BY <1>1, <2>0, <2>3 DEF KeysInv, IsStore
  <2>7. \A x \in DOMAIN store' : store'[x] \in [revoked : BOOLEAN, total : Nat]
    BY <2>0, <2>3, <2>4 DEF KeysInv, IsStore
  <2>8. \A x \in dead' \cap DOMAIN store' : store'[x].revoked
    BY <1>1, <2>0, <2>3, <2>4 DEF KeysInv, IsStore
  <2>9. IsStore(store)'
    BY <2>3, <2>6, <2>7, <2>8 DEF IsStore
  <2>10. IsStore(file)'
    BY <1>1, <2>0 DEF KeysInv, IsStore
  <2>11. KeysInv'
    BY <1>1, <2>0, <2>3, <2>9, <2>10 DEF KeysInv
  <2> QED  BY <1>2, <1>3, <2>5, <2>11 DEF IInv
<1> QED  BY <1>4, <1>5 DEF recordUsage

--------------------------------------------------------------------------------
(* Steps of the process *)

LEMMA FlushTimerKeeps ==
    ASSUME IInv, FlushTimerFires
    PROVE  IInv'
<1>1. /\ timer /\ timer' = FALSE /\ flushNow(store)
      /\ UNCHANGED <<now, up, store, issued, promised, dead, lost, budget, issuance, req,
                     settled, stops, charged, analyses, delivered>>
  BY DEF FlushTimerFires
<1>2. WindowsOK' /\ RateInv' /\ ReqInv' /\ PayInv' /\ ChargeInv'
  BY <1>1, Untouched DEF IInv
<1>3. /\ failed' \in BOOLEAN
      /\ file' = store \/ file' = file
      /\ ~HasDataDir => file' = file
  BY <1>1, FlushOutcome DEF IInv
<1>4. ClockOK'
  <2>1. timer' \in BOOLEAN
    BY <1>1
  <2> QED  BY <1>1, <1>3, <2>1 DEF IInv, ClockOK
<1>5. KeysInv /\ up
  BY <1>1 DEF IInv, KeysInv
<1>6. IsStore(store)' /\ IsStore(file)'
  <2>1. IsStore(store)'
    BY <1>1, <1>5 DEF KeysInv, IsStore
  <2>2. CASE file' = store
    BY <1>1, <1>5, <2>2 DEF KeysInv, IsStore
  <2>3. CASE file' = file
    BY <1>1, <1>5, <2>3 DEF KeysInv, IsStore
  <2> QED  BY <1>3, <2>1, <2>2, <2>3
<1>7. promised' \ lost' \subseteq DOMAIN file' /\ promised' \ lost' \subseteq DOMAIN store'
  BY <1>1, <1>3, <1>5 DEF KeysInv
<1>8. KeysInv'
  BY <1>1, <1>3, <1>5, <1>6, <1>7 DEF KeysInv
<1> QED  BY <1>2, <1>4, <1>8 DEF IInv

\* Ending the process forgets the windows with the hits they bounded.
LEMMA StopsKeeps ==
    ASSUME IInv, Stops, UNCHANGED <<file, failed>> \/ flushNow(store)
    PROVE  IInv'
<1>1. /\ up /\ stops < MaxStops /\ up' = FALSE /\ stops' = stops + 1
      /\ store' = NoMap /\ timer' = FALSE /\ budget' = NoMap /\ issuance' = NoMap
      /\ req' = [r \in Requests |-> Unsent]
      /\ charged' = [k \in Keys |-> Log!EmptyLedger]
      /\ analyses' = [k \in Keys |-> 0]
      /\ UNCHANGED <<now, issued, promised, dead, lost, settled, delivered>>
  BY DEF Stops
<1>2. DOMAIN NoMap = {} /\ NoMap = [k \in DOMAIN NoMap |-> NoMap[k]]
  BY DEF NoMap
<1>3. /\ failed' \in BOOLEAN
      /\ file' = store \/ file' = file
      /\ ~HasDataDir => file' = file
  <2>1. CASE UNCHANGED <<file, failed>>
    BY <2>1 DEF IInv, ClockOK
  <2>2. CASE flushNow(store)
    BY <2>2, FlushOutcome DEF IInv
  <2> QED  BY <2>1, <2>2
<1>4. ClockOK'
  <2>1. up' \in BOOLEAN /\ timer' \in BOOLEAN
    BY <1>1
  <2>2. now' \in Nat /\ stops' \in 0..MaxStops
    BY <1>1, ServerAssumption DEF IInv, ClockOK
  <2> QED  BY <1>3, <2>1, <2>2 DEF ClockOK
<1>5. WindowsOK'
  BY <1>1, <1>2 DEF WindowsOK
<1>6. now \in Nat
  BY DEF IInv, ClockOK
<1>7. RateInv'
  <2>1. Rested(Log!EmptyLedger, now)
    BY <1>6, NoHits, ServerAssumption DEF Rested
  <2>2. \A k \in Keys : charged'[k] = Log!EmptyLedger
    BY <1>1
  <2> QED  BY <1>1, <1>2, <1>6, <2>1, <2>2, NoHits DEF RateInv
<1>8. KeysInv'
  <2>1. KeysInv
    BY DEF IInv
  <2>2. IsStore(store)'
    <3>1. IsStore(NoMap)'
      BY <1>2, FS_EmptySet, ServerAssumption DEF IsStore
    <3> QED  BY <1>1, <3>1 DEF IsStore
  <2>3. IsStore(file)'
    <3>1. CASE file' = store
      BY <1>1, <2>1, <3>1 DEF KeysInv, IsStore
    <3>2. CASE file' = file
      BY <1>1, <2>1, <3>2 DEF KeysInv, IsStore
    <3> QED  BY <1>3, <3>1, <3>2
  <2>4. promised' \ lost' \subseteq DOMAIN file'
    BY <1>1, <1>3, <2>1 DEF KeysInv
  <2> QED  BY <1>1, <1>2, <1>3, <2>1, <2>2, <2>3, <2>4 DEF KeysInv
<1>9. ReqInv'
  BY <1>1, UnsentIsRequest DEF ReqInv
<1>10. PayInv'
  BY <1>1, Untouched DEF IInv
<1>11. ChargeInv'
  <2>1. \A r \in Requests : req'[r].pc = "idle"
    BY <1>1, UnsentIsRequest
  <2>2. \A k \in Keys : Pending(k)' = {}
    BY <2>1 DEF Pending
  <2>3. \A k \in Keys : IsFiniteSet(Pending(k)') /\ Cardinality(Pending(k)') = 0
    BY <2>2, FS_EmptySet
  <2>4. Log!SumUpTo(Log!EmptyLedger, now) \in Nat
    BY <1>6, NoHits
  <2>5. \A k \in Keys : analyses'[k] = 0 /\ charged'[k] = Log!EmptyLedger
    BY <1>1
  <2>6. analyses' \in [Keys -> Nat]
    BY <1>1
  <2>7. \A k \in Keys :
           analyses'[k] + Cardinality(Pending(k)') <= Log!SumUpTo(charged'[k], now')
    BY <1>1, <2>3, <2>4, <2>5
  <2> QED  BY <2>3, <2>6, <2>7 DEF ChargeInv
<1> QED  BY <1>4, <1>5, <1>7, <1>8, <1>9, <1>10, <1>11 DEF IInv

LEMMA LoadKeeps ==
    ASSUME IInv, load
    PROVE  IInv'
<1>1. /\ ~up /\ up' = TRUE
      /\ failed' \in (IF HasDataDir THEN BOOLEAN ELSE {FALSE})
      /\ UNCHANGED <<now, timer, issued, promised, dead, budget, issuance, req,
                     settled, stops, charged, analyses, delivered>>
  BY DEF load
<1>2. WindowsOK' /\ RateInv' /\ ReqInv' /\ PayInv' /\ ChargeInv'
  BY <1>1, Untouched DEF IInv
<1>3. failed' \in BOOLEAN
  <2>1. CASE HasDataDir
    BY <1>1, <2>1
  <2>2. CASE ~HasDataDir
    BY <1>1, <2>2
  <2> QED  BY <2>1, <2>2
<1>4. ClockOK'
  BY <1>1, <1>3 DEF IInv, ClockOK
<1>5. KeysInv
  BY DEF IInv
<1>6. PICK found \in SUBSET DOMAIN file :
          /\ store' = [k \in found |-> file[k]]
          /\ file' \in (IF found = {} THEN {file, NoMap} ELSE {file})
          /\ lost' = lost \cup (DOMAIN file \ found)
  BY DEF load
<1>7. file' = file \/ (file' = NoMap /\ found = {})
  BY <1>6
<1>8. DOMAIN NoMap = {} /\ NoMap = [k \in DOMAIN NoMap |-> NoMap[k]] /\ Cardinality({}) = 0
  BY FS_EmptySet DEF NoMap
<1>9. IsStore(store)'
  <2>1. IsFiniteSet(DOMAIN file) /\ Cardinality(DOMAIN file) \in Nat
    BY <1>5, KeysFinite, FS_CardinalityType DEF KeysInv
  <2>2. Cardinality(found) \in Nat /\ Cardinality(found) <= Cardinality(DOMAIN file)
    BY <1>6, <2>1, FS_Subset, FS_CardinalityType
  <2>3. Cardinality(found) <= MaxKeys
    BY <1>5, <2>1, <2>2, ServerAssumption DEF KeysInv, IsStore
  <2> QED  BY <1>1, <1>5, <1>6, <2>3 DEF KeysInv, IsStore
<1>10. IsStore(file)'
  <2>1. CASE file' = file
    BY <1>1, <1>5, <2>1 DEF KeysInv, IsStore
  <2>2. CASE file' = NoMap
    BY <1>8, <2>2, ServerAssumption DEF IsStore
  <2> QED  BY <1>7, <2>1, <2>2
<1>11. /\ promised' \ lost' \subseteq DOMAIN store' /\ promised' \ lost' \subseteq DOMAIN file'
       /\ lost' \subseteq issued'
  BY <1>1, <1>5, <1>6, <1>7 DEF KeysInv, IsStore
<1>12. ~HasDataDir => DOMAIN file' = {}
  BY <1>5, <1>7, <1>8 DEF KeysInv
<1>13. KeysInv'
  BY <1>1, <1>5, <1>9, <1>10, <1>11, <1>12 DEF KeysInv
<1> QED  BY <1>2, <1>4, <1>13 DEF IInv

LEMMA TickKeeps ==
    ASSUME IInv, Tick
    PROVE  IInv'
<1>1. /\ now' = now + 1
      /\ UNCHANGED <<up, store, file, failed, timer, issued, promised, dead, lost, budget,
                     issuance, req, settled, stops, charged, analyses, delivered>>
  BY DEF Tick, keyVars
<1>2. now \in Nat
  BY DEF IInv, ClockOK
<1>3. ClockOK' /\ KeysInv' /\ ReqInv' /\ PayInv'
  <2>1. KeysInv' /\ ReqInv' /\ PayInv'
    BY <1>1, Untouched DEF IInv
  <2>2. ClockOK'
    BY <1>1 DEF IInv, ClockOK
  <2> QED  BY <2>1, <2>2
<1>4. \A w, limit : IsWindow(w, limit, now) => IsWindow(w, limit, now + 1)
  BY <1>2 DEF IsWindow
<1>5. WindowsOK'
  BY <1>1, <1>4 DEF IInv, WindowsOK
<1>6. RateInv'
  <2>1. ASSUME NEW k \in Keys
        PROVE  /\ IsLog(charged[k], now + 1)
               /\ k \in DOMAIN budget => Bounds(budget[k], charged[k], now + 1)
               /\ k \notin DOMAIN budget => Rested(charged[k], now + 1)
    <3>1. IsLog(charged[k], now)
      BY DEF IInv, RateInv
    <3>2. IsLog(charged[k], now + 1)
      BY <1>2, <3>1, TickedLog
    <3>3. CASE k \in DOMAIN budget
      <4>1. IsWindow(budget[k], RateLimit, now) /\ Bounds(budget[k], charged[k], now)
        BY <3>3 DEF IInv, WindowsOK, RateInv
      <4> QED  BY <1>2, <3>1, <3>2, <3>3, <4>1, TickBounds
    <3>4. CASE k \notin DOMAIN budget
      <4>1. Rested(charged[k], now)
        BY <3>4 DEF IInv, RateInv
      <4> QED  BY <1>2, <3>1, <3>2, <3>4, <4>1, TickBounds
    <3> QED  BY <3>3, <3>4
  <2> QED  BY <1>1, <2>1 DEF IInv, RateInv
<1>7. ChargeInv'
  <2>1. \A k \in Keys : Log!SumUpTo(charged[k], now + 1) = Log!SumUpTo(charged[k], now)
    BY <1>2, TickedLog DEF IInv, RateInv
  <2>2. \A k \in Keys : Pending(k)' = Pending(k)
    BY <1>1 DEF Pending
  <2> QED  BY <1>1, <2>1, <2>2 DEF IInv, ChargeInv
<1> QED  BY <1>3, <1>5, <1>6, <1>7 DEF IInv

--------------------------------------------------------------------------------

LEMMA NextKeeps == IInv /\ [Next]_vars => IInv'
<1> SUFFICES ASSUME IInv, [Next]_vars PROVE IInv'
  OBVIOUS
<1>1. CASE UNCHANGED vars
  BY <1>1, Untouched DEF IInv, vars, keyVars
<1>2. ASSUME NEW k \in Keys, createKey(k) PROVE IInv'
  BY <1>2, CreateKeyKeeps
<1>3. ASSUME NEW r \in Requests, Arrives(r) PROVE IInv'
  BY <1>3, ArrivesKeeps
<1>4. ASSUME NEW r \in Requests, RequestNext(r) PROVE IInv'
  BY <1>4, BadBodyKeeps, PreHandlerKeeps, VerifyKeeps, AnalysisReturnsKeeps, SettleKeeps,
     ChargeBatchKeeps, RevokeKeeps, RecordUsageKeeps DEF RequestNext
<1>5. CASE FlushTimerFires
  BY <1>5, FlushTimerKeeps
<1>6. CASE close \/ Crashes
  BY <1>6, StopsKeeps DEF close, Crashes
<1>7. CASE load
  BY <1>7, LoadKeeps
<1>8. CASE Tick
  BY <1>8, TickKeeps
<1> QED  BY <1>1, <1>2, <1>3, <1>4, <1>5, <1>6, <1>7, <1>8 DEF Next

LEMMA Invariant == Spec => []IInv
<1>1. Init => IInv
  BY Initially
<1>2. IInv /\ [Next]_vars => IInv'
  BY NextKeeps
<1> QED  BY <1>1, <1>2, PTL DEF Spec

\* Keys, windows and requests are well typed; the store never holds more keys than
\* configured, no window counts more than its limit (key-store.ts, limiter.ts).
THEOREM TypeCorrect == Spec => []TypeOK
<1>1. IInv => TypeOK
  <2> SUFFICES ASSUME IInv PROVE TypeOK
    OBVIOUS
  <2>1. now \in Nat /\ stops \in 0..MaxStops
    BY DEF IInv, ClockOK
  <2>2. \A b \in {up, failed, timer} : b \in BOOLEAN
    BY DEF IInv, ClockOK
  <2>3. \A s \in {store, file} :
          /\ DOMAIN s \subseteq issued /\ Cardinality(DOMAIN s) <= MaxKeys
          /\ \A k \in DOMAIN s : s[k] \in [revoked : BOOLEAN, total : Nat]
    BY DEF IInv, KeysInv, IsStore
  <2>4. /\ DOMAIN budget \subseteq Keys /\ DOMAIN issuance \subseteq {Address}
        /\ \A k \in DOMAIN budget : budget[k] \in Windows /\ budget[k].count <= RateLimit
        /\ \A a \in DOMAIN issuance :
              issuance[a] \in Windows /\ issuance[a].count <= KeysPerHour
    BY DEF IInv, WindowsOK, IsWindow, Windows
  <2>5. req \in [Requests -> RequestType]
    BY DEF IInv, ReqInv, IsRequest
  <2>6. /\ settled \subseteq Payments /\ issued \subseteq Keys
        /\ promised \subseteq issued /\ dead \subseteq issued /\ lost \subseteq issued
    BY DEF IInv, KeysInv, PayInv
  <2> QED  BY <2>1, <2>2, <2>3, <2>4, <2>5, <2>6 DEF TypeOK, RequestType
<1> QED  BY <1>1, Invariant, PTL

\* A key's budget holds whatever restarts of its window, sweeps of the map and refused
\* batches did: at most RateLimit hits since its window began, and at most twice that
\* in any trailing window (limiter.ts, hit and sweep; batch.ts, chargeBatch).
THEOREM BudgetHolds == Spec => []RateKept
<1>1. IInv => RateKept
  <2> SUFFICES ASSUME IInv, NEW k \in Keys
               PROVE  /\ k \in DOMAIN budget =>
                            Log!SumUpTo([t \in {u \in DOMAIN charged[k] :
                                                  u >= budget[k].windowStart}
                                            |-> charged[k][t]], now) <= RateLimit
                      /\ Log!WindowSum(charged[k], now) <= 2 * RateLimit
    BY DEF RateKept
  <2> DEFINE log == charged[k]
             from == now - WINDOW_MS + 1
  <2>1. now \in Nat /\ IsLog(log, now) /\ RateLimit \in Nat /\ WINDOW_MS \in Nat \ {0}
    BY ServerAssumption DEF IInv, ClockOK, RateInv
  <2>2. Log!WindowSum(log, now) = Sums!SumFrom(log, from, now)
    BY <2>1, ServerAssumption, SameSums, Sums!WindowIsSumFrom DEF IsLog
  <2>3. from \in Int /\ now - WINDOW_MS < from
    BY <2>1
  <2>4. Sums!SumFrom(log, from, now) \in Nat
    BY <2>1, <2>3, ServerAssumption, Sums!SumFromType DEF IsLog
  <2>5. CASE k \in DOMAIN budget
    <3>1. IsWindow(budget[k], RateLimit, now) /\ Bounds(budget[k], log, now)
      BY <2>5 DEF IInv, WindowsOK, RateInv
    <3>2. /\ budget[k].windowStart \in 0..now /\ budget[k].count \in Nat
          /\ budget[k].count <= RateLimit
      BY <3>1 DEF IsWindow
    <3>3. Sums!SumFrom(log, from, now) <= budget[k].count + RateLimit
      BY <2>1, <2>3, <3>1, <3>2 DEF Bounds
    <3>4. Sums!SumFrom(log, budget[k].windowStart, now) <= budget[k].count
      BY <3>1 DEF Bounds
    <3>5. Sums!SumFrom(log, budget[k].windowStart, now) \in Nat
      BY <2>1, <3>2, ServerAssumption, Sums!SumFromType DEF IsLog
    <3>6. Sums!SumFrom(log, budget[k].windowStart, now)
             = Log!SumUpTo([t \in {u \in DOMAIN log : u >= budget[k].windowStart}
                               |-> log[t]], now)
      <4>1. {u \in DOMAIN log : u >= budget[k].windowStart}
               = {u \in DOMAIN log : budget[k].windowStart <= u}
        OBVIOUS
      <4> QED  BY <4>1, SameSums DEF Sums!SumFrom, Sums!From
    <3>7. Log!WindowSum(log, now) <= 2 * RateLimit
      BY <2>1, <2>2, <2>4, <3>2, <3>3
    <3>8. Sums!SumFrom(log, budget[k].windowStart, now) <= RateLimit
      BY <2>1, <3>2, <3>4, <3>5
    <3> QED  BY <3>6, <3>7, <3>8
  <2>6. CASE k \notin DOMAIN budget
    <3>1. Rested(log, now)
      BY <2>6 DEF IInv, RateInv
    <3>2. Sums!SumFrom(log, from, now) <= RateLimit
      BY <2>3, <3>1 DEF Rested
    <3> QED  BY <2>1, <2>2, <2>4, <2>6, <3>2
  <2> QED  BY <2>5, <2>6
<1> QED  BY <1>1, Invariant, PTL

\* Every analysis begun for a key was charged to it first, one by one or in a batch,
\* also when its hits came in different windows (app.ts, the auth hook; batch.ts,
\* chargeBatch).
THEOREM NothingForFree == Spec => []AnalysesCharged
<1>1. IInv => AnalysesCharged
  <2> SUFFICES ASSUME IInv, NEW k \in Keys
               PROVE  analyses[k] <= Log!SumUpTo(charged[k], now)
    BY DEF AnalysesCharged
  <2>1. /\ analyses[k] \in Nat /\ IsFiniteSet(Pending(k))
        /\ analyses[k] + Cardinality(Pending(k)) <= Log!SumUpTo(charged[k], now)
    BY DEF IInv, ChargeInv
  <2>2. Cardinality(Pending(k)) \in Nat /\ Log!SumUpTo(charged[k], now) \in Nat
    BY <2>1, FS_CardinalityType, TotalType DEF IInv, ClockOK, RateInv
  <2> QED  BY <2>1, <2>2
<1> QED  BY <1>1, Invariant, PTL

\* What a caller was told of a key survives stops, crashes, failed writes and restarts:
\* an issued key is there unless a start could not read it from the file, and a
\* revocation that was written stays (key-store.ts).
THEOREM ToldIsKept == Spec => []PromisesSurvive
<1>1. IInv => PromisesSurvive
  BY DEF IInv, KeysInv, IsStore, PromisesSurvive
<1> QED  BY <1>1, Invariant, PTL

\* One payment buys at most one analysis, and only if it was settled, though requests
\* that carry the same payload are verified side by side (analyze.ts, settleAfterSuccess).
THEOREM PaymentSpentOnce == Spec => []PaidOnce
<1>1. IInv => PaidOnce
  BY DEF IInv, PayInv
<1> QED  BY <1>1, Invariant, PTL

--------------------------------------------------------------------------------
(* AccountStore: what a call holds *)

Ops == {"none", "add", "switch", "rename", "provision", "unlock"}
Pcs == {"idle", "read", "write", "deploy", "reread", "unlockWith", "finish"}

RowOK(r) == r \in Rows /\ r.active \in Accounts(r)

\* What a call holds: the row it copied, with what it will write, and the account.
CallOK(k) ==
    /\ k = [op |-> k.op, pc |-> k.pc, arg |-> k.arg, copy |-> k.copy]
    /\ k.op \in Ops /\ k.pc \in Pcs /\ k.arg \in Indices \cup {None}
    /\ k.pc = "idle" => k = NoCall
    /\ k.pc \in {"write", "deploy", "unlockWith", "finish"} => RowOK(k.copy)
    /\ k.pc = "deploy" => k.arg \in Indices
    /\ k.pc # "idle" /\ k.op \in {"switch", "rename"} => k.arg \in Indices
    /\ k.pc \in {"write", "finish"} /\ k.op = "add" => k.arg \in Indices

Typed ==
    /\ RowOK(row) /\ RowOK([smart |-> snap.smart, named |-> snap.named,
                            active |-> snap.active, old |-> FALSE])
    /\ snap = Shown(snap)
    /\ unlocked \in BOOLEAN /\ active \in Indices /\ meetings \in 0..MaxMeetings
    /\ call = [c \in Calls |-> call[c]]
    /\ \A c \in Calls : CallOK(call[c])

--------------------------------------------------------------------------------
(* AccountStore: calls one at a time *)

Own(r) == \A i \in Accounts(r) : r.smart[i] \in {None, i}

Keeps(r, s) ==
    /\ Accounts(r) \subseteq Accounts(s) /\ r.named \subseteq s.named
    /\ \A i \in Accounts(r) : r.smart[i] # None => s.smart[i] = r.smart[i]

Busy(k) == k.pc # "idle"

\* A call before it writes: what it will write forgets nothing of row r, and each
\* account of it has its own smart wallet; a is the account of the session.
Ahead(k, r, a) ==
    k.pc = "write" =>
        /\ Keeps(r, k.copy) /\ Own(k.copy)
        /\ k.op \in {"add", "switch"} => k.copy.active = k.arg
        /\ k.op \notin {"add", "switch"} => k.copy.active = r.active
        /\ k.op \in {"rename", "unlock"} => k.copy.smart = r.smart
        /\ k.op = "switch" => a = k.arg

\* ... and when its copy is the row.
Copied(k, r, a) ==
    /\ k.pc \in {"finish", "unlockWith", "deploy"} => k.copy = r
    /\ k.pc = "finish" /\ k.op = "add" => r.active = k.arg
    /\ k.pc = "deploy" => k.arg = a /\ a = r.active /\ r.smart[a] = None

\* The steps between which session and row, or snapshot and row, name two accounts.
SessionMoves(k) == <<k.op, k.pc>> \in {<<"switch", "write">>, <<"add", "finish">>}

SnapshotLags(k) ==
    <<k.op, k.pc>> \in {<<"add", "finish">>, <<"switch", "finish">>, <<"provision", "reread">>}

Holds(k, r, u, a, s) ==
    /\ Own(r)
    /\ Ahead(k, r, a)
    /\ Copied(k, r, a)
    /\ Busy(k) /\ k.op \in {"add", "switch", "provision"} => u
    /\ u => a = r.active \/ SessionMoves(k)
    /\ (s.smart = r.smart /\ s.active = r.active) \/ SnapshotLags(k)

\* Calls that came one at a time: one at most is in progress, and it holds the state.
One ==
    /\ \A c, d \in Calls : Busy(call[c]) /\ Busy(call[d]) => c = d
    /\ \A c \in Calls : Busy(call[c]) => Holds(call[c], row, unlocked, active, snap)
    /\ Idle => Holds(NoCall, row, unlocked, active, snap)

StoreInv == Typed /\ (alone => One)

--------------------------------------------------------------------------------
(* Rows *)

LEMMA IndicesAreIntegers ==
    /\ Indices \subseteq Int /\ 0 \in Indices /\ None \in Int /\ None \notin Indices
    /\ \A n \in Indices : 0..n \subseteq Indices
BY AccountAssumption DEF Indices, None

LEMMA RowFields ==
    ASSUME NEW r, RowOK(r)
    PROVE  /\ r = [smart |-> r.smart, named |-> r.named, active |-> r.active, old |-> r.old]
           /\ \E n \in Indices : r.smart \in [0..n -> Indices \cup {None}] /\ DOMAIN r.smart = 0..n
           /\ r.named \subseteq Indices /\ r.active \in Indices /\ r.old \in BOOLEAN
           /\ r.active \in Accounts(r)
BY DEF RowOK, Rows

LEMMA RowParts ==
    ASSUME NEW r, RowOK(r)
    PROVE  \E s, names, a, o :
               r = [smart |-> s, named |-> names, active |-> a, old |-> o]
BY RowFields

LEMMA RowBuilt ==
    ASSUME NEW n \in Indices, NEW s \in [0..n -> Indices \cup {None}],
           NEW names \in SUBSET Indices, NEW a \in 0..n, NEW o \in BOOLEAN
    PROVE  RowOK([smart |-> s, named |-> names, active |-> a, old |-> o])
BY IndicesAreIntegers DEF RowOK, Rows, Accounts

LEMMA TopOfInterval ==
    ASSUME NEW n \in Nat
    PROVE  Max(0..n) = n
<1>1. n \in 0..n /\ \A y \in 0..n : n >= y
  OBVIOUS
<1>2. \A x \in 0..n : (\A y \in 0..n : x >= y) => x = n
  OBVIOUS
<1> QED  BY <1>1, <1>2, Zenon DEF Max

LEMMA AccountAdded ==
    ASSUME NEW r, RowOK(r), Max(Accounts(r)) + 1 \in Indices
    PROVE  LET i == Max(Accounts(r)) + 1 IN
           /\ RowOK(addedAccount(r, i))
           /\ Keeps(r, addedAccount(r, i))
           /\ Own(r) => Own(addedAccount(r, i))
           /\ addedAccount(r, i).active = i
<1> DEFINE i == Max(Accounts(r)) + 1
           s == [j \in Accounts(r) \cup {i} |-> IF j = i THEN None ELSE r.smart[j]]
<1>1. PICK n \in Indices : r.smart \in [0..n -> Indices \cup {None}] /\ DOMAIN r.smart = 0..n
  BY RowFields
<1>2. n \in Nat /\ Accounts(r) = 0..n
  BY <1>1 DEF Indices, Accounts
<1>3. i = n + 1
  BY <1>2, TopOfInterval
<1>4. i \in Indices
  OBVIOUS
<1>5. Accounts(r) \cup {i} = 0..i
  BY <1>2, <1>3
<1> HIDE DEF i
<1>6. addedAccount(r, i) = [smart |-> s, named |-> r.named, active |-> i, old |-> r.old]
  BY DEF addedAccount
<1>7. s \in [0..i -> Indices \cup {None}]
  BY <1>1, <1>2, <1>5
<1>8. i \in 0..i
  BY <1>5
<1>9. RowOK(addedAccount(r, i))
  <2> HIDE DEF s
  <2>1. r.named \in SUBSET Indices /\ r.old \in BOOLEAN
    BY RowFields
  <2> QED  BY <1>4, <1>6, <1>7, <1>8, <2>1, RowBuilt
<1> DEFINE t == addedAccount(r, i)
<1>10. t.smart = s /\ t.named = r.named /\ t.active = i /\ DOMAIN s = Accounts(r) \cup {i}
  BY <1>6
<1>11. i \notin Accounts(r)
  BY <1>2, <1>3
<1>12. \A j \in Accounts(r) : s[j] = r.smart[j]
  BY <1>11
<1>13. s[i] = None
  OBVIOUS
<1>14. Keeps(r, t)
  <2> HIDE DEF s, t
  <2> QED  BY <1>10, <1>12 DEF Keeps, Accounts
<1>15. Own(r) => Own(t)
  <2> HIDE DEF s, t
  <2> QED  BY <1>10, <1>12, <1>13 DEF Own, Accounts
<1> QED  BY <1>9, <1>10, <1>14, <1>15 DEF i

LEMMA WalletEntered ==
    ASSUME NEW r, RowOK(r), NEW i, NEW a \in Indices
    PROVE  /\ RowOK(updateAccountEntry(r, i, a))
           /\ updateAccountEntry(r, i, a).active = r.active
           /\ i \in Accounts(r) /\ r.smart[i] = None => Keeps(r, updateAccountEntry(r, i, a))
           /\ a = i /\ Own(r) => Own(updateAccountEntry(r, i, a))
<1> DEFINE t == updateAccountEntry(r, i, a)
<1>1. CASE i \notin Accounts(r)
  BY <1>1 DEF updateAccountEntry
<1>2. CASE i \in Accounts(r)
  <2> DEFINE s == [r.smart EXCEPT ![i] = a]
  <2>1. t = [smart |-> s, named |-> r.named, active |-> r.active, old |-> r.old]
    BY <1>2, RowParts DEF updateAccountEntry
  <2>2. PICK n \in Indices : r.smart \in [0..n -> Indices \cup {None}] /\ DOMAIN r.smart = 0..n
    BY RowFields
  <2>3. Accounts(r) = 0..n /\ r.active \in 0..n
    BY <2>2, RowFields DEF Accounts
  <2>4. s \in [0..n -> Indices \cup {None}]
    BY <2>2
  <2>5. RowOK(t)
    <3> HIDE DEF s
    <3>1. r.named \in SUBSET Indices /\ r.old \in BOOLEAN
      BY RowFields
    <3> QED  BY <2>1, <2>3, <2>4, <3>1, RowBuilt
  <2>6. DOMAIN s = Accounts(r) /\ s[i] = a /\ \A j \in Accounts(r) : j # i => s[j] = r.smart[j]
    BY <1>2, <2>2, <2>3
  <2>7. t.smart = s /\ t.named = r.named /\ t.active = r.active
    BY <2>1
  <2> HIDE DEF s, t
  <2>8. r.smart[i] = None => Keeps(r, t)
    BY <2>6, <2>7 DEF Keeps, Accounts
  <2>9. a = i /\ Own(r) => Own(t)
    BY <2>6, <2>7 DEF Own, Accounts
  <2> QED  BY <2>5, <2>7, <2>8, <2>9 DEF t
<1> QED  BY <1>1, <1>2

LEMMA ActiveSet ==
    ASSUME NEW r, RowOK(r), NEW i \in Accounts(r)
    PROVE  LET t == [r EXCEPT !.active = i] IN
           RowOK(t) /\ t.active = i /\ t.smart = r.smart /\ t.named = r.named
<1>1. [r EXCEPT !.active = i] =
          [smart |-> r.smart, named |-> r.named, active |-> i, old |-> r.old]
  BY RowParts
<1>2. PICK n \in Indices : r.smart \in [0..n -> Indices \cup {None}] /\ DOMAIN r.smart = 0..n
  BY RowFields
<1>3. i \in 0..n
  BY <1>2 DEF Accounts
<1> QED  BY <1>1, <1>2, <1>3, RowBuilt, RowFields

LEMMA NameAdded ==
    ASSUME NEW r, RowOK(r), NEW i \in Indices
    PROVE  LET t == [r EXCEPT !.named = @ \cup {i}] IN
           /\ RowOK(t) /\ t.active = r.active /\ t.smart = r.smart
           /\ r.named \subseteq t.named
<1>1. [r EXCEPT !.named = @ \cup {i}] =
          [smart |-> r.smart, named |-> r.named \cup {i}, active |-> r.active, old |-> r.old]
  BY RowParts
<1>2. PICK n \in Indices : r.smart \in [0..n -> Indices \cup {None}] /\ DOMAIN r.smart = 0..n
  BY RowFields
<1>3. r.active \in 0..n /\ r.named \cup {i} \in SUBSET Indices
  BY <1>2, RowFields DEF Accounts
<1> QED  BY <1>1, <1>2, <1>3, RowBuilt, RowFields

LEMMA Renewed ==
    ASSUME NEW r, RowOK(r)
    PROVE  LET t == [r EXCEPT !.old = FALSE] IN
           RowOK(t) /\ t.active = r.active /\ t.smart = r.smart /\ t.named = r.named
<1>1. [r EXCEPT !.old = FALSE] =
          [smart |-> r.smart, named |-> r.named, active |-> r.active, old |-> FALSE]
  <2>1. \A x : [r EXCEPT !.old = x] =
                  [smart |-> r.smart, named |-> r.named, active |-> r.active, old |-> x]
    BY RowParts
  <2> QED  BY <2>1, Zenon
<1>2. PICK n \in Indices : r.smart \in [0..n -> Indices \cup {None}] /\ DOMAIN r.smart = 0..n
  BY RowFields
<1>3. r.active \in 0..n
  BY <1>2, RowFields DEF Accounts
<1>4. RowOK([smart |-> r.smart, named |-> r.named, active |-> r.active, old |-> FALSE])
  BY <1>2, <1>3, RowBuilt, RowFields
<1> QED  BY <1>1, <1>4

LEMMA SameWallets ==
    ASSUME NEW r, NEW t, t.smart = r.smart, r.named \subseteq t.named
    PROVE  Keeps(r, t) /\ (Own(r) => Own(t))
BY DEF Keeps, Own, Accounts

LEMMA ShownRow ==
    ASSUME NEW r, RowOK(r)
    PROVE  LET s == Shown(r) IN
           /\ RowOK([smart |-> s.smart, named |-> s.named, active |-> s.active, old |-> FALSE])
           /\ s = Shown(s) /\ s.smart = r.smart /\ s.active = r.active
<1>1. PICK n \in Indices : r.smart \in [0..n -> Indices \cup {None}] /\ DOMAIN r.smart = 0..n
  BY RowFields
<1>2. r.active \in 0..n
  BY <1>1, RowFields DEF Accounts
<1> QED  BY <1>1, <1>2, RowBuilt, RowFields DEF Shown

--------------------------------------------------------------------------------
(* Types *)

LEMMA CallFields ==
    \A op, step, arg, copy :
        LET k == [op |-> op, pc |-> step, arg |-> arg, copy |-> copy]
        IN  /\ k.op = op /\ k.pc = step /\ k.arg = arg /\ k.copy = copy
            /\ k = [op |-> k.op, pc |-> k.pc, arg |-> k.arg, copy |-> k.copy]
OBVIOUS

LEMMA NoCallIdle ==
    /\ CallOK(NoCall) /\ ~Busy(NoCall)
    /\ NoCall.op = "none" /\ NoCall.pc = "idle" /\ NoCall.arg = None
BY DEF CallOK, NoCall, Ops, Pcs, Busy

\* The steps of a call write its record and no other.
LEMMA Written ==
    ASSUME Typed, NEW c \in Calls, NEW k, call' = [call EXCEPT ![c] = k]
    PROVE  /\ call'[c] = k /\ call' = [d \in Calls |-> call'[d]]
           /\ \A d \in Calls : d # c => call'[d] = call[d]
BY DEF Typed

LEMMA MovesWrites ==
    ASSUME Typed, NEW c \in Calls, NEW step, NEW arg, NEW copy, Moves(c, step, arg, copy)
    PROVE  call' = [call EXCEPT ![c] = [op |-> call[c].op, pc |-> step, arg |-> arg,
                                        copy |-> copy]]
BY DEF Typed, Moves

LEMMA TypedCalls ==
    ASSUME Typed, NEW c \in Calls, NEW k, CallOK(k), call' = [call EXCEPT ![c] = k]
    PROVE  call' = [d \in Calls |-> call'[d]] /\ \A d \in Calls : CallOK(call'[d])
BY Written DEF Typed

LEMMA TypedMove ==
    ASSUME Typed, NEW c \in Calls, NEW step \in Pcs \ {"idle"}, NEW arg \in Indices \cup {None},
           NEW copy, Moves(c, step, arg, copy), call[c].pc # "idle",
           step \in {"write", "deploy", "unlockWith", "finish"} => RowOK(copy),
           step = "deploy" \/ call[c].op \in {"switch", "rename"} => arg \in Indices,
           step \in {"write", "finish"} /\ call[c].op = "add" => arg \in Indices
    PROVE  call' = [d \in Calls |-> call'[d]] /\ \A d \in Calls : CallOK(call'[d])
<1> DEFINE k == [op |-> call[c].op, pc |-> step, arg |-> arg, copy |-> copy]
<1>1. call' = [call EXCEPT ![c] = k]
  BY MovesWrites
<1>2. k.op = call[c].op /\ k.pc = step /\ k.arg = arg /\ k.copy = copy
      /\ k = [op |-> k.op, pc |-> k.pc, arg |-> k.arg, copy |-> k.copy]
  BY CallFields
<1>3. call[c].op \in Ops
  BY DEF Typed, CallOK
<1> HIDE DEF k
<1>4. CallOK(k)
  BY <1>2, <1>3 DEF CallOK
<1> QED  BY <1>1, <1>4, TypedCalls

LEMMA TypedEnd ==
    ASSUME Typed, NEW c \in Calls, Ends(c)
    PROVE  call' = [d \in Calls |-> call'[d]] /\ \A d \in Calls : CallOK(call'[d])
BY NoCallIdle, TypedCalls DEF Ends

LEMMA MeetsCounts ==
    ASSUME Typed, Meets
    PROVE  /\ meetings' \in 0..MaxMeetings
           /\ meetings' = 0 => meetings = 0 /\ Idle
BY AccountAssumption DEF Typed, Meets

LEMMA StoreInitially == StoreInit => StoreInv
<1> SUFFICES ASSUME StoreInit PROVE StoreInv
  OBVIOUS
<1>1. PICK old \in BOOLEAN :
          row = [smart |-> [i \in {0} |-> None], named |-> {}, active |-> 0, old |-> old]
  BY DEF StoreInit
<1>2. RowOK(row) /\ row.smart = [i \in {0} |-> None] /\ row.active = 0
  <2>1. 0 \in Indices /\ 0..0 = {0}
    BY IndicesAreIntegers
  <2>2. [i \in {0} |-> None] \in [0..0 -> Indices \cup {None}]
    BY <2>1
  <2> QED  BY <1>1, <2>1, <2>2, RowBuilt
<1>3. Typed
  <2>1. meetings \in 0..MaxMeetings /\ active \in Indices
    BY AccountAssumption, IndicesAreIntegers DEF StoreInit
  <2>2. call = [c \in Calls |-> NoCall]
    BY DEF StoreInit
  <2>3. call = [c \in Calls |-> call[c]] /\ \A c \in Calls : CallOK(call[c])
    BY <2>2, NoCallIdle
  <2>4. snap = Shown(row) /\ unlocked \in BOOLEAN
    BY Zenon DEF StoreInit
  <2> QED  BY <1>2, <2>1, <2>3, <2>4, ShownRow DEF Typed
<1>4. One
  <2>1. \A c \in Calls : ~Busy(call[c])
    BY NoCallIdle DEF StoreInit
  <2>2. Own(row)
    BY <1>2 DEF Own, Accounts
  <2>3. snap.smart = row.smart /\ snap.active = row.active
    BY <1>2, ShownRow DEF StoreInit
  <2>4. Ahead(NoCall, row, active) /\ Copied(NoCall, row, active)
    BY NoCallIdle DEF Ahead, Copied
  <2> QED  BY <2>1, <2>2, <2>3, <2>4, NoCallIdle DEF One, Holds, StoreInit
<1> QED  BY <1>3, <1>4 DEF StoreInv

LEMMA TypedStarts ==
    ASSUME Typed, NEW c \in Calls, CallNext(c),
           \/ \E op \in {"add", "provision", "unlock"} : CallStarts(c, op, None)
           \/ \E op \in {"switch", "rename"}, i \in Accounts(snap) : CallStarts(c, op, i)
    PROVE  Typed'
<1>1. PICK op \in Ops \ {"none"}, arg \in Indices \cup {None} :
          CallStarts(c, op, arg) /\ (op \in {"switch", "rename"} => arg \in Indices)
  <2>1. Accounts(snap) \subseteq Indices
    <3> DEFINE r == [smart |-> snap.smart, named |-> snap.named, active |-> snap.active,
                     old |-> FALSE]
    <3>1. RowOK(r) /\ r.smart = snap.smart
      BY DEF Typed
    <3>2. \E n \in Indices : DOMAIN r.smart = 0..n
      BY <3>1, RowFields
    <3> QED  BY <3>1, <3>2, IndicesAreIntegers DEF Accounts
  <2> QED  BY <2>1 DEF Ops
<1> DEFINE k == [op |-> op, pc |-> "read", arg |-> arg, copy |-> None]
<1>2. k.op = op /\ k.pc = "read" /\ k.arg = arg
      /\ k = [op |-> k.op, pc |-> k.pc, arg |-> k.arg, copy |-> k.copy]
  BY CallFields
<1>3. call' = [call EXCEPT ![c] = k] /\ Meets /\ UNCHANGED <<row, unlocked, active, snap>>
  BY <1>1 DEF CallStarts
<1> HIDE DEF k
<1>4. CallOK(k)
  BY <1>1, <1>2 DEF CallOK, Pcs
<1>5. call' = [d \in Calls |-> call'[d]] /\ \A d \in Calls : CallOK(call'[d])
  BY <1>3, <1>4, TypedCalls
<1>6. meetings' \in 0..MaxMeetings
  BY <1>3, MeetsCounts
<1> QED  BY <1>3, <1>5, <1>6 DEF Typed

\* A step that sets nothing ill typed.
LEMMA TypedRest ==
    ASSUME Typed, call' = [d \in Calls |-> call'[d]], \A d \in Calls : CallOK(call'[d]),
           UNCHANGED row \/ RowOK(row'),
           UNCHANGED snap \/ (\E r : RowOK(r) /\ snap' = Shown(r)),
           UNCHANGED unlocked \/ unlocked' = TRUE \/ unlocked' = FALSE,
           UNCHANGED active \/ active' \in Indices, UNCHANGED meetings
    PROVE  Typed'
<1>1. unlocked' \in BOOLEAN
  BY Zenon DEF Typed
<1>2. /\ snap' = Shown(snap')
      /\ RowOK([smart |-> snap'.smart, named |-> snap'.named, active |-> snap'.active,
                old |-> FALSE])
  <2>1. CASE UNCHANGED snap
    BY <2>1 DEF Typed
  <2>2. CASE \E r : RowOK(r) /\ snap' = Shown(r)
    BY <2>2, ShownRow
  <2> QED  BY <2>1, <2>2
<1>3. RowOK(row') /\ active' \in Indices /\ meetings' \in 0..MaxMeetings
  BY DEF Typed
<1> QED  BY <1>1, <1>2, <1>3 DEF Typed

LEMMA TypedWrites ==
    ASSUME Typed, NEW c \in Calls, NEW step \in {"finish", "reread", "unlockWith"},
           writeKeystore(c, step)
    PROVE  Typed'
<1>1. CallOK(call[c]) /\ call[c].pc = "write" /\ RowOK(call[c].copy)
  BY DEF Typed, CallOK, writeKeystore
<1>2. call' = [d \in Calls |-> call'[d]] /\ \A d \in Calls : CallOK(call'[d])
  <2> DEFINE k == [op |-> call[c].op, pc |-> step, arg |-> call[c].arg, copy |-> call[c].copy]
  <2>1. call' = [call EXCEPT ![c] = k]
    BY MovesWrites DEF writeKeystore
  <2>2. /\ k.op = call[c].op /\ k.pc = step /\ k.arg = call[c].arg /\ k.copy = call[c].copy
        /\ k = [op |-> k.op, pc |-> k.pc, arg |-> k.arg, copy |-> k.copy]
    BY CallFields
  <2> HIDE DEF k
  <2>3. CallOK(k)
    BY <1>1, <2>2 DEF CallOK, Pcs
  <2> QED  BY <2>1, <2>3, TypedCalls
<1>3. UNCHANGED <<unlocked, active, snap, meetings>> /\ row' = call[c].copy
  BY DEF writeKeystore
<1> QED  BY <1>1, <1>2, <1>3, TypedRest

\* A call that ends, and shows a row or does not.
LEMMA TypedFinishes ==
    ASSUME Typed, NEW c \in Calls, Ends(c), UNCHANGED <<row, unlocked, meetings>>,
           UNCHANGED snap \/ (\E r : RowOK(r) /\ snap' = Shown(r)),
           UNCHANGED active \/ active' \in Indices
    PROVE  Typed'
BY TypedEnd, TypedRest

LEMMA TypedStep == Typed /\ [StoreNext]_storeVars => Typed'
<1> SUFFICES ASSUME Typed, [StoreNext]_storeVars PROVE Typed'
  OBVIOUS
<1>0. RowOK(row) /\ row.active \in Indices /\ Accounts(row) \subseteq Indices /\ active \in Indices
  <2>1. RowOK(row) /\ active \in Indices
    BY DEF Typed
  <2> QED  BY <2>1, RowFields, IndicesAreIntegers DEF Accounts
<1>1. ASSUME NEW c \in Calls, CallNext(c) PROVE Typed'
  <2>0. CallOK(call[c]) /\ call[c].op \in Ops /\ None \in Indices \cup {None}
    BY DEF Typed, CallOK
  <2> DEFINE steps == {"read", "write", "deploy", "reread", "unlockWith", "finish"}
  <2>00. steps = Pcs \ {"idle"}
    BY DEF Pcs
  <2>1. CASE \/ \E op \in {"add", "provision", "unlock"} : CallStarts(c, op, None)
             \/ \E op \in {"switch", "rename"}, i \in Accounts(snap) : CallStarts(c, op, i)
    BY <1>1, <2>1, TypedStarts
  <2>2. CASE addAccount(c)
    <3> DEFINE next == Max(Accounts(row)) + 1
    <3>1. next \in Indices /\ call[c].op = "add" /\ call[c].pc = "read"
      BY <2>2 DEF addAccount, At
    <3>2. Moves(c, "write", next, addedAccount(row, next)) \/ Ends(c)
      BY <2>2, Zenon DEF addAccount
    <3>3. RowOK(addedAccount(row, next))
      BY <1>0, <3>1, AccountAdded
    <3> HIDE DEF next
    <3>4. call' = [d \in Calls |-> call'[d]] /\ \A d \in Calls : CallOK(call'[d])
      BY <3>1, <3>2, <3>3, <2>00, TypedMove, TypedEnd
    <3> QED  BY <2>2, <3>4, TypedRest DEF addAccount
  <2>3. CASE addAccountWrites(c)
    BY <2>3, TypedWrites DEF addAccountWrites
  <2>4. CASE addAccountFinishes(c)
    <3>1. call[c].arg \in Indices /\ RowOK(call[c].copy)
      BY <2>0, <2>4 DEF CallOK, addAccountFinishes, At
    <3>2. Ends(c) /\ UNCHANGED <<row, unlocked, meetings>>
          /\ (active' = active \/ active' = call[c].arg)
          /\ (snap' = snap \/ snap' = Shown(call[c].copy))
      BY <2>4 DEF addAccountFinishes
    <3> QED  BY <3>1, <3>2, TypedFinishes
  <2>5. CASE switchAccount(c)
    <3>1. call[c].op = "switch" /\ call[c].pc = "read" /\ call[c].arg \in Indices
      BY <2>0, <2>5 DEF switchAccount, At, CallOK
    <3>2. \/ /\ call[c].arg \in Accounts(row) /\ active' = call[c].arg
             /\ Moves(c, "write", call[c].arg, [row EXCEPT !.active = call[c].arg])
          \/ Ends(c) /\ UNCHANGED active
      BY <2>5, Zenon DEF switchAccount
    <3>3. call[c].arg \in Accounts(row) => RowOK([row EXCEPT !.active = call[c].arg])
      BY <1>0, ActiveSet
    <3>4. call' = [d \in Calls |-> call'[d]] /\ \A d \in Calls : CallOK(call'[d])
      BY <3>1, <3>2, <3>3, <2>00, TypedMove, TypedEnd
    <3>5. UNCHANGED <<row, unlocked, snap, meetings>>
      BY <2>5 DEF switchAccount
    <3> QED  BY <3>1, <3>2, <3>4, <3>5, TypedRest
  <2>6. CASE switchAccountWrites(c)
    BY <2>6, TypedWrites DEF switchAccountWrites
  <2>7. CASE switchAccountFinishes(c)
    <3>1. RowOK(call[c].copy)
      BY <2>0, <2>7 DEF CallOK, switchAccountFinishes, At
    <3> QED  BY <2>7, <3>1, TypedFinishes DEF switchAccountFinishes
  <2>8. CASE renameAccount(c)
    <3>1. call[c].op = "rename" /\ call[c].pc = "read" /\ call[c].arg \in Indices
      BY <2>0, <2>8 DEF renameAccount, At, CallOK
    <3>2. \/ Moves(c, "write", call[c].arg, [row EXCEPT !.named = @ \cup {call[c].arg}])
          \/ Ends(c)
      BY <2>8, Zenon DEF renameAccount
    <3>3. RowOK([row EXCEPT !.named = @ \cup {call[c].arg}])
      BY <1>0, <3>1, NameAdded
    <3>4. call' = [d \in Calls |-> call'[d]] /\ \A d \in Calls : CallOK(call'[d])
      BY <3>1, <3>2, <3>3, <2>00, TypedMove, TypedEnd
    <3> QED  BY <2>8, <3>4, TypedRest DEF renameAccount
  <2>9. CASE renameAccountWrites(c)
    BY <2>9, TypedWrites DEF renameAccountWrites
  <2>10. CASE renameAccountFinishes(c)
    <3>1. RowOK(call[c].copy)
      BY <2>0, <2>10 DEF CallOK, renameAccountFinishes, At
    <3> QED  BY <2>10, <3>1, TypedFinishes DEF renameAccountFinishes
  <2>11. CASE provisionSmartWallet(c)
    <3>1. call[c].op = "provision" /\ call[c].pc = "read"
      BY <2>11 DEF provisionSmartWallet, At
    <3>2. \/ Moves(c, "reread", None, None) \/ Moves(c, "deploy", active, row) \/ Ends(c)
      BY <2>11, Zenon DEF provisionSmartWallet
    <3>3. call' = [d \in Calls |-> call'[d]] /\ \A d \in Calls : CallOK(call'[d])
      BY <1>0, <3>1, <3>2, <2>00, TypedMove, TypedEnd
    <3> QED  BY <2>11, <3>3, TypedRest DEF provisionSmartWallet
  <2>12. CASE deploySmartWallet(c)
    <3>1. /\ call[c].op = "provision" /\ call[c].pc = "deploy"
          /\ call[c].arg \in Indices /\ RowOK(call[c].copy)
      BY <2>0, <2>12 DEF deploySmartWallet, At, CallOK
    <3>2. \/ Moves(c, "write", call[c].arg,
                   updateAccountEntry(call[c].copy, active, call[c].arg))
          \/ Ends(c)
      BY <2>12, Zenon DEF deploySmartWallet
    <3>3. RowOK(updateAccountEntry(call[c].copy, active, call[c].arg))
      BY <3>1, WalletEntered
    <3>4. call' = [d \in Calls |-> call'[d]] /\ \A d \in Calls : CallOK(call'[d])
      BY <3>1, <3>2, <3>3, <2>00, TypedMove, TypedEnd
    <3> QED  BY <2>12, <3>4, TypedRest DEF deploySmartWallet
  <2>13. CASE provisionWrites(c)
    BY <2>13, TypedWrites DEF provisionWrites
  <2>14. CASE provisionFinishes(c)
    BY <1>0, <2>14, TypedFinishes DEF provisionFinishes
  <2>15. CASE unlock(c)
    <3>1. call[c].op = "unlock" /\ call[c].pc = "read"
      BY <2>15 DEF unlock, At
    <3>2. Moves(c, "write", None, [row EXCEPT !.old = FALSE]) \/ Moves(c, "unlockWith", None, row)
      BY <2>15, Zenon DEF unlock
    <3>3. RowOK([row EXCEPT !.old = FALSE])
      BY <1>0, Renewed
    <3>4. call' = [d \in Calls |-> call'[d]] /\ \A d \in Calls : CallOK(call'[d])
      BY <1>0, <3>1, <3>2, <3>3, <2>00, TypedMove
    <3> QED  BY <2>15, <3>4, TypedRest DEF unlock
  <2>16. CASE unlockWrites(c)
    BY <2>16, TypedWrites DEF unlockWrites
  <2>17. CASE unlockWith(c)
    <3>1. call[c].op = "unlock" /\ call[c].pc = "unlockWith" /\ RowOK(call[c].copy)
      BY <2>0, <2>17 DEF CallOK, unlockWith, At
    <3>2. Moves(c, "finish", None, call[c].copy)
      BY <2>17 DEF unlockWith
    <3>3. call' = [d \in Calls |-> call'[d]] /\ \A d \in Calls : CallOK(call'[d])
      BY <3>1, <3>2, <2>00, TypedMove
    <3>4. active' \in Indices /\ unlocked' = TRUE /\ UNCHANGED <<row, snap, meetings>>
      BY <2>17, <3>1, RowFields DEF unlockWith
    <3> QED  BY <3>3, <3>4, TypedRest
  <2>18. CASE unlockFinishes(c)
    <3>1. RowOK(call[c].copy)
      BY <2>0, <2>18 DEF CallOK, unlockFinishes, At
    <3> QED  BY <2>18, <3>1, TypedFinishes DEF unlockFinishes
  <2> QED  BY <1>1, <2>1, <2>2, <2>3, <2>4, <2>5, <2>6, <2>7, <2>8, <2>9, <2>10, <2>11, <2>12,
              <2>13, <2>14, <2>15, <2>16, <2>17, <2>18 DEF CallNext
<1>2. CASE lock
  <2>1. meetings' \in 0..MaxMeetings /\ active' \in Indices
    BY <1>2, MeetsCounts, IndicesAreIntegers DEF lock
  <2>2. unlocked' \in BOOLEAN
    BY <1>2, Zenon DEF lock
  <2> QED  BY <1>2, <2>1, <2>2 DEF lock, Typed
<1>3. CASE WorkerDies
  <2>1. call' = [d \in Calls |-> call'[d]] /\ \A d \in Calls : CallOK(call'[d])
    BY <1>3, NoCallIdle DEF WorkerDies
  <2>2. active' \in Indices
    BY <1>3, IndicesAreIntegers DEF WorkerDies
  <2> QED  BY <1>0, <1>3, <2>1, <2>2, TypedRest DEF WorkerDies
<1>4. CASE UNCHANGED storeVars
  BY <1>4 DEF storeVars, Typed
<1> QED  BY <1>1, <1>2, <1>3, <1>4 DEF StoreNext

--------------------------------------------------------------------------------
(* Calls one at a time *)

LEMMA OneAfter ==
    ASSUME Typed', NEW c \in Calls, \A d \in Calls : d # c => ~Busy(call'[d]),
           Holds(call'[c], row', unlocked', active', snap')
    PROVE  One'
<1>1. ~Busy(call'[c]) => call'[c] = NoCall
  BY DEF Typed, CallOK, Busy
<1>2. Idle' => ~Busy(call'[c])
  BY DEF Idle, Busy
<1> QED  BY <1>1, <1>2, Zenon DEF One

\* The call in progress is the only one.
LEMMA OneBefore ==
    ASSUME One, NEW c \in Calls, Busy(call[c])
    PROVE  /\ Holds(call[c], row, unlocked, active, snap)
           /\ \A d \in Calls : d # c => ~Busy(call[d])
BY DEF One

LEMMA OneMoves ==
    ASSUME Typed, Typed', One, NEW c \in Calls, Busy(call[c]), NEW step, NEW arg, NEW copy,
           Moves(c, step, arg, copy),
           \A k : k.op = call[c].op /\ k.pc = step /\ k.arg = arg /\ k.copy = copy =>
                      Holds(k, row', unlocked', active', snap')
    PROVE  One'
<1> DEFINE k == [op |-> call[c].op, pc |-> step, arg |-> arg, copy |-> copy]
<1>1. call' = [call EXCEPT ![c] = k]
  BY MovesWrites
<1>2. call'[c] = k /\ \A d \in Calls : d # c => call'[d] = call[d]
  BY <1>1, Written
<1>3. k.op = call[c].op /\ k.pc = step /\ k.arg = arg /\ k.copy = copy
  BY CallFields
<1> HIDE DEF k
<1> QED  BY <1>2, <1>3, OneBefore, OneAfter

LEMMA OneEnds ==
    ASSUME Typed, Typed', One, NEW c \in Calls, Busy(call[c]), Ends(c),
           Holds(NoCall, row', unlocked', active', snap')
    PROVE  One'
<1>1. call'[c] = NoCall /\ \A d \in Calls : d # c => call'[d] = call[d]
  BY Written DEF Ends
<1> QED  BY <1>1, OneBefore, OneAfter

LEMMA OneWrites ==
    ASSUME Typed, Typed', One, NEW c \in Calls, NEW step, writeKeystore(c, step),
           <<call[c].op, step>> \in
               {<<"add", "finish">>, <<"switch", "finish">>, <<"rename", "finish">>,
                <<"provision", "reread">>, <<"unlock", "unlockWith">>}
    PROVE  One' /\ Keeps(row, row')
<1> DEFINE h == call[c]
<1>1. /\ h.pc = "write" /\ Busy(h) /\ row' = h.copy
      /\ UNCHANGED <<unlocked, active, snap>> /\ Moves(c, step, h.arg, h.copy)
  BY DEF writeKeystore, Busy
<1>2. Holds(h, row, unlocked, active, snap)
  BY <1>1, OneBefore
<1> HIDE DEF h
<1>3. Keeps(row, h.copy) /\ Own(h.copy)
  BY <1>1, <1>2 DEF Holds, Ahead
<1>4. ASSUME NEW k, k.op = h.op, k.pc = step, k.arg = h.arg, k.copy = h.copy
      PROVE  Holds(k, row', unlocked', active', snap')
  <2>1. Ahead(k, row', active') /\ Copied(k, row', active')
    BY <1>1, <1>2, <1>4 DEF h, Holds, Ahead, Copied
  <2>2. Busy(k) /\ k.op \in {"add", "switch", "provision"} => unlocked'
    BY <1>1, <1>2, <1>4 DEF Holds
  <2>3. unlocked' => active' = row'.active \/ SessionMoves(k)
    BY <1>1, <1>2, <1>4 DEF h, Holds, Ahead, SessionMoves
  <2>4. (snap'.smart = row'.smart /\ snap'.active = row'.active) \/ SnapshotLags(k)
    BY <1>1, <1>2, <1>4 DEF h, Holds, Ahead, SnapshotLags
  <2> QED  BY <1>1, <1>3, <2>1, <2>2, <2>3, <2>4 DEF Holds
<1> QED  BY <1>1, <1>3, <1>4, OneMoves DEF h

LEMMA OneStarts ==
    ASSUME Typed, Typed', One, Idle, NEW c \in Calls, NEW op, NEW arg, CallStarts(c, op, arg),
           op \in {"add", "switch", "rename", "provision", "unlock"}
    PROVE  One'
<1> DEFINE k == [op |-> op, pc |-> "read", arg |-> arg, copy |-> None]
<1>1. k.op = op /\ k.pc = "read"
  BY CallFields
<1>2. call' = [call EXCEPT ![c] = k] /\ UNCHANGED <<row, unlocked, active, snap>>
  BY DEF CallStarts
<1>3. op \in {"add", "switch", "provision"} => unlocked
  BY Zenon DEF CallStarts
<1> HIDE DEF k
<1>4. call'[c] = k /\ \A d \in Calls : d # c => ~Busy(call'[d])
  BY <1>2, Written DEF Idle, Busy
<1>5. Holds(NoCall, row, unlocked, active, snap)
  BY DEF One
<1>6. (snap.smart = row.smart /\ snap.active = row.active) /\ (unlocked => active = row.active)
  BY <1>5, NoCallIdle DEF Holds, SnapshotLags, SessionMoves
<1>7. Ahead(k, row, active) /\ Copied(k, row, active)
  BY <1>1 DEF Ahead, Copied
<1>8. Holds(k, row, unlocked, active, snap)
  BY <1>1, <1>3, <1>5, <1>6, <1>7 DEF Holds
<1> QED  BY <1>2, <1>4, <1>8, OneAfter

\* What a call that has just begun, or writes nothing, finds.
LEMMA AtRest ==
    ASSUME NEW k, NEW r, NEW u, NEW a, NEW s, Holds(k, r, u, a, s),
           k.pc \in {"idle", "read", "deploy", "unlockWith"}
    PROVE  /\ Own(r) /\ (u => a = r.active)
           /\ s.smart = r.smart /\ s.active = r.active
           /\ k.pc # "idle" /\ k.op \in {"add", "switch", "provision"} => u
BY DEF Holds, SessionMoves, SnapshotLags, Busy

LEMMA RestHolds ==
    ASSUME NEW r, NEW u, NEW a, NEW s, Own(r), u => a = r.active,
           s.smart = r.smart, s.active = r.active
    PROVE  Holds(NoCall, r, u, a, s)
BY NoCallIdle DEF Holds, Ahead, Copied

LEMMA KeepsSame ==
    ASSUME NEW r
    PROVE  Keeps(r, r)
BY DEF Keeps

LEMMA OneAdds ==
    ASSUME Typed, Typed', One, NEW c \in Calls, addAccount(c) \/ addAccountFinishes(c)
    PROVE  One'
<1> DEFINE h == call[c]
<1>0. RowOK(row)
  BY DEF Typed
<1>1. CASE addAccount(c)
  <2> DEFINE next == Max(Accounts(row)) + 1
  <2>1. h.op = "add" /\ h.pc = "read" /\ Busy(h) /\ next \in Indices
    BY <1>1 DEF addAccount, At, Busy
  <2>2. Holds(h, row, unlocked, active, snap)
    BY <2>1, OneBefore
  <2>3. /\ UNCHANGED <<row, unlocked, active, snap>>
        /\ Moves(c, "write", next, addedAccount(row, next)) \/ Ends(c)
    BY <1>1, Zenon DEF addAccount
  <2>4. /\ Own(row) /\ (unlocked => active = row.active) /\ unlocked
        /\ snap.smart = row.smart /\ snap.active = row.active
    BY <2>1, <2>2, AtRest
  <2>5. Holds(NoCall, row', unlocked', active', snap')
    BY <2>3, <2>4, RestHolds
  <2> DEFINE t == addedAccount(row, next)
  <2>6. Keeps(row, t) /\ Own(t) /\ t.active = next
    BY <1>0, <2>1, <2>4, AccountAdded
  <2> HIDE DEF h, next, t
  <2>7. ASSUME NEW k, k.op = h.op, k.pc = "write", k.arg = next, k.copy = t
        PROVE  Holds(k, row', unlocked', active', snap')
    <3>1. Ahead(k, row, active) /\ Copied(k, row, active)
      BY <2>1, <2>6, <2>7 DEF Ahead, Copied
    <3> QED  BY <2>3, <2>4, <3>1 DEF Holds
  <2> QED  BY <2>1, <2>3, <2>5, <2>7, OneMoves, OneEnds DEF h, t
<1>2. CASE addAccountFinishes(c)
  <2>1. h.op = "add" /\ h.pc = "finish" /\ Busy(h) /\ Ends(c) /\ UNCHANGED <<row, unlocked>>
    BY <1>2 DEF addAccountFinishes, At, Busy
  <2>2. Holds(h, row, unlocked, active, snap)
    BY <2>1, OneBefore
  <2>3. unlocked /\ row = h.copy /\ row.active = h.arg /\ Own(row)
    BY <2>1, <2>2 DEF Holds, Copied
  <2>4. active' = h.arg /\ snap' = Shown(row)
    BY <1>2, <2>3 DEF addAccountFinishes
  <2>5. Holds(NoCall, row', unlocked', active', snap')
    BY <1>0, <2>1, <2>3, <2>4, ShownRow, RestHolds
  <2> QED  BY <2>1, <2>5, OneEnds
<1> QED  BY <1>1, <1>2

LEMMA OneSwitches ==
    ASSUME Typed, Typed', One, NEW c \in Calls, switchAccount(c) \/ switchAccountFinishes(c)
    PROVE  One'
<1> DEFINE h == call[c]
<1>0. RowOK(row)
  BY DEF Typed
<1>1. CASE switchAccount(c)
  <2> DEFINE t == [row EXCEPT !.active = h.arg]
  <2>1. h.op = "switch" /\ h.pc = "read" /\ Busy(h) /\ UNCHANGED <<row, unlocked, snap>>
    BY <1>1 DEF switchAccount, At, Busy
  <2>2. Holds(h, row, unlocked, active, snap)
    BY <2>1, OneBefore
  <2>3. \/ h.arg \in Accounts(row) /\ active' = h.arg /\ Moves(c, "write", h.arg, t)
        \/ Ends(c) /\ UNCHANGED active
    BY <1>1, Zenon DEF switchAccount
  <2>4. /\ Own(row) /\ (unlocked => active = row.active) /\ unlocked
        /\ snap.smart = row.smart /\ snap.active = row.active
    BY <2>1, <2>2, AtRest
  <2>5. UNCHANGED active => Holds(NoCall, row', unlocked', active', snap')
    BY <2>1, <2>4, RestHolds
  <2>6. h.arg \in Accounts(row) => Keeps(row, t) /\ Own(t) /\ t.active = h.arg
    BY <1>0, <2>4, ActiveSet, SameWallets
  <2> HIDE DEF h, t
  <2>7. ASSUME h.arg \in Accounts(row), active' = h.arg, NEW k, k.op = h.op, k.pc = "write",
               k.arg = h.arg, k.copy = t
        PROVE  Holds(k, row', unlocked', active', snap')
    <3>1. Ahead(k, row, active') /\ Copied(k, row, active')
      BY <2>1, <2>6, <2>7 DEF Ahead, Copied
    <3>2. SessionMoves(k)
      BY <2>1, <2>7 DEF SessionMoves
    <3> QED  BY <2>1, <2>4, <3>1, <3>2 DEF Holds
  <2> QED  BY <2>1, <2>3, <2>5, <2>7, OneMoves, OneEnds DEF h
<1>2. CASE switchAccountFinishes(c)
  <2>1. /\ h.op = "switch" /\ h.pc = "finish" /\ Busy(h) /\ Ends(c)
        /\ UNCHANGED <<row, unlocked, active>>
    BY <1>2 DEF switchAccountFinishes, At, Busy
  <2>2. Holds(h, row, unlocked, active, snap)
    BY <2>1, OneBefore
  <2>3. unlocked /\ row = h.copy /\ active = row.active /\ Own(row)
    BY <2>1, <2>2 DEF Holds, Copied, SessionMoves
  <2>4. snap' = Shown(row)
    BY <1>2, <2>3 DEF switchAccountFinishes
  <2>5. Holds(NoCall, row', unlocked', active', snap')
    BY <1>0, <2>1, <2>3, <2>4, ShownRow, RestHolds
  <2> QED  BY <2>1, <2>5, OneEnds
<1> QED  BY <1>1, <1>2

LEMMA OneRenames ==
    ASSUME Typed, Typed', One, NEW c \in Calls, renameAccount(c) \/ renameAccountFinishes(c)
    PROVE  One'
<1> DEFINE h == call[c]
<1>0. RowOK(row)
  BY DEF Typed
<1>1. CASE renameAccount(c)
  <2> DEFINE t == [row EXCEPT !.named = @ \cup {h.arg}]
  <2>1. h.op = "rename" /\ h.pc = "read" /\ Busy(h) /\ UNCHANGED <<row, unlocked, active, snap>>
    BY <1>1 DEF renameAccount, At, Busy
  <2>2. Holds(h, row, unlocked, active, snap)
    BY <2>1, OneBefore
  <2>3. Moves(c, "write", h.arg, t) \/ Ends(c)
    BY <1>1, Zenon DEF renameAccount
  <2>4. /\ Own(row) /\ (unlocked => active = row.active)
        /\ snap.smart = row.smart /\ snap.active = row.active
    BY <2>1, <2>2, AtRest
  <2>5. Holds(NoCall, row', unlocked', active', snap')
    BY <2>1, <2>4, RestHolds
  <2>6. h.arg \in Indices
    BY <2>1 DEF Typed, CallOK
  <2>7. Keeps(row, t) /\ Own(t) /\ t.active = row.active /\ t.smart = row.smart
    BY <1>0, <2>4, <2>6, NameAdded, SameWallets
  <2> HIDE DEF h, t
  <2>8. ASSUME NEW k, k.op = h.op, k.pc = "write", k.arg = h.arg, k.copy = t
        PROVE  Holds(k, row', unlocked', active', snap')
    <3>1. Ahead(k, row, active) /\ Copied(k, row, active)
      BY <2>1, <2>7, <2>8 DEF Ahead, Copied
    <3> QED  BY <2>1, <2>4, <2>8, <3>1 DEF Holds
  <2> QED  BY <2>1, <2>3, <2>5, <2>8, OneMoves, OneEnds DEF h, t
<1>2. CASE renameAccountFinishes(c)
  <2>1. /\ h.op = "rename" /\ h.pc = "finish" /\ Busy(h) /\ Ends(c)
        /\ UNCHANGED <<row, unlocked, active>>
    BY <1>2 DEF renameAccountFinishes, At, Busy
  <2>2. Holds(h, row, unlocked, active, snap)
    BY <2>1, OneBefore
  <2>3. row = h.copy /\ (unlocked => active = row.active) /\ Own(row)
        /\ snap.smart = row.smart /\ snap.active = row.active
    BY <2>1, <2>2 DEF Holds, Copied, SessionMoves, SnapshotLags
  <2>4. snap' = Shown(row) \/ snap' = snap
    BY <1>2, <2>3, Zenon DEF renameAccountFinishes
  <2>5. snap'.smart = row.smart /\ snap'.active = row.active
    BY <1>0, <2>3, <2>4, ShownRow
  <2>6. Holds(NoCall, row', unlocked', active', snap')
    BY <2>1, <2>3, <2>5, RestHolds
  <2> QED  BY <2>1, <2>6, OneEnds
<1> QED  BY <1>1, <1>2

LEMMA OneProvisions ==
    ASSUME Typed, Typed', One, NEW c \in Calls,
           provisionSmartWallet(c) \/ deploySmartWallet(c) \/ provisionFinishes(c)
    PROVE  One'
<1> DEFINE h == call[c]
<1>0. RowOK(row) /\ active \in Indices
  BY DEF Typed
<1>1. CASE provisionSmartWallet(c)
  <2>1. /\ h.op = "provision" /\ h.pc = "read" /\ Busy(h)
        /\ UNCHANGED <<row, unlocked, active, snap>>
    BY <1>1 DEF provisionSmartWallet, At, Busy
  <2>2. Holds(h, row, unlocked, active, snap)
    BY <2>1, OneBefore
  <2>3. \/ Moves(c, "reread", None, None)
        \/ row.smart[row.active] = None /\ Moves(c, "deploy", active, row)
        \/ Ends(c)
    BY <1>1, Zenon DEF provisionSmartWallet
  <2>4. /\ Own(row) /\ unlocked /\ active = row.active
        /\ snap.smart = row.smart /\ snap.active = row.active
    BY <2>1, <2>2, AtRest
  <2>5. Holds(NoCall, row', unlocked', active', snap')
    BY <2>1, <2>4, RestHolds
  <2> HIDE DEF h
  <2>6. ASSUME NEW k, k.pc = "reread" PROVE Holds(k, row', unlocked', active', snap')
    <3>1. Ahead(k, row, active) /\ Copied(k, row, active)
      BY <2>6 DEF Ahead, Copied
    <3> QED  BY <2>1, <2>4, <3>1 DEF Holds
  <2>7. ASSUME row.smart[row.active] = None, NEW k, k.pc = "deploy", k.arg = active, k.copy = row
        PROVE  Holds(k, row', unlocked', active', snap')
    <3>1. Ahead(k, row, active) /\ Copied(k, row, active)
      BY <2>4, <2>7 DEF Ahead, Copied
    <3> QED  BY <2>1, <2>4, <3>1 DEF Holds
  <2> QED  BY <2>1, <2>3, <2>5, <2>6, <2>7, OneMoves, OneEnds DEF h
<1>2. CASE deploySmartWallet(c)
  <2> DEFINE t == updateAccountEntry(h.copy, active, h.arg)
  <2>1. /\ h.op = "provision" /\ h.pc = "deploy" /\ Busy(h)
        /\ UNCHANGED <<row, unlocked, active, snap>>
    BY <1>2 DEF deploySmartWallet, At, Busy
  <2>2. Holds(h, row, unlocked, active, snap)
    BY <2>1, OneBefore
  <2>3. Moves(c, "write", h.arg, t) \/ Ends(c)
    BY <1>2, Zenon DEF deploySmartWallet
  <2>4. /\ Own(row) /\ unlocked /\ active = row.active
        /\ snap.smart = row.smart /\ snap.active = row.active
    BY <2>1, <2>2, AtRest
  <2>5. Holds(NoCall, row', unlocked', active', snap')
    BY <2>1, <2>4, RestHolds
  <2>6. h.copy = row /\ h.arg = active /\ row.smart[active] = None
    BY <2>1, <2>2 DEF Holds, Copied
  <2>7. active \in Accounts(row)
    BY <1>0, <2>4 DEF RowOK
  <2>8. Keeps(row, t) /\ Own(t) /\ t.active = row.active
    BY <1>0, <2>4, <2>6, <2>7, WalletEntered
  <2> HIDE DEF h, t
  <2>9. ASSUME NEW k, k.op = h.op, k.pc = "write", k.arg = h.arg, k.copy = t
        PROVE  Holds(k, row', unlocked', active', snap')
    <3>1. Ahead(k, row, active) /\ Copied(k, row, active)
      BY <2>1, <2>8, <2>9 DEF Ahead, Copied
    <3> QED  BY <2>1, <2>4, <2>9, <3>1 DEF Holds
  <2> QED  BY <2>1, <2>3, <2>5, <2>9, OneMoves, OneEnds DEF h
<1>3. CASE provisionFinishes(c)
  <2>1. /\ h.op = "provision" /\ h.pc = "reread" /\ Busy(h) /\ Ends(c)
        /\ UNCHANGED <<row, unlocked, active>> /\ snap' = Shown(row)
    BY <1>3 DEF provisionFinishes, At, Busy
  <2>2. Holds(h, row, unlocked, active, snap)
    BY <2>1, OneBefore
  <2>3. Own(row) /\ (unlocked => active = row.active)
    BY <2>1, <2>2 DEF Holds, SessionMoves
  <2>4. Holds(NoCall, row', unlocked', active', snap')
    BY <1>0, <2>1, <2>3, ShownRow, RestHolds
  <2> QED  BY <2>1, <2>4, OneEnds
<1> QED  BY <1>1, <1>2, <1>3

LEMMA OneUnlocks ==
    ASSUME Typed, Typed', One, NEW c \in Calls, unlock(c) \/ unlockWith(c) \/ unlockFinishes(c)
    PROVE  One'
<1> DEFINE h == call[c]
<1>0. RowOK(row)
  BY DEF Typed
<1>1. CASE unlock(c)
  <2> DEFINE t == [row EXCEPT !.old = FALSE]
  <2>1. h.op = "unlock" /\ h.pc = "read" /\ Busy(h) /\ UNCHANGED <<row, unlocked, active, snap>>
    BY <1>1 DEF unlock, At, Busy
  <2>2. Holds(h, row, unlocked, active, snap)
    BY <2>1, OneBefore
  <2>3. Moves(c, "write", None, t) \/ Moves(c, "unlockWith", None, row)
    BY <1>1, Zenon DEF unlock
  <2>4. /\ Own(row) /\ (unlocked => active = row.active)
        /\ snap.smart = row.smart /\ snap.active = row.active
    BY <2>1, <2>2, AtRest
  <2>5. Keeps(row, t) /\ Own(t) /\ t.active = row.active /\ t.smart = row.smart
    BY <1>0, <2>4, Renewed, SameWallets
  <2> HIDE DEF h, t
  <2>6. ASSUME NEW k, k.op = h.op, k.pc = "write", k.copy = t
        PROVE  Holds(k, row', unlocked', active', snap')
    <3>1. Ahead(k, row, active) /\ Copied(k, row, active)
      BY <2>1, <2>5, <2>6 DEF Ahead, Copied
    <3> QED  BY <2>1, <2>4, <2>6, <3>1 DEF Holds
  <2>7. ASSUME NEW k, k.op = h.op, k.pc = "unlockWith", k.copy = row
        PROVE  Holds(k, row', unlocked', active', snap')
    <3>1. Ahead(k, row, active) /\ Copied(k, row, active)
      BY <2>7 DEF Ahead, Copied
    <3> QED  BY <2>1, <2>4, <2>7, <3>1 DEF Holds
  <2> QED  BY <2>1, <2>3, <2>6, <2>7, OneMoves DEF h
<1>2. CASE unlockWith(c)
  <2>1. h.op = "unlock" /\ h.pc = "unlockWith" /\ Busy(h) /\ UNCHANGED <<row, snap>>
    BY <1>2 DEF unlockWith, At, Busy
  <2>2. Holds(h, row, unlocked, active, snap)
    BY <2>1, OneBefore
  <2>3. /\ Own(row) /\ h.copy = row
        /\ snap.smart = row.smart /\ snap.active = row.active
    BY <2>1, <2>2, AtRest DEF Holds, Copied
  <2>4. active' = row.active /\ Moves(c, "finish", None, h.copy)
    BY <1>2, <2>3 DEF unlockWith
  <2> HIDE DEF h
  <2>5. ASSUME NEW k, k.op = h.op, k.pc = "finish", k.copy = h.copy
        PROVE  Holds(k, row', unlocked', active', snap')
    <3>1. Ahead(k, row, active') /\ Copied(k, row, active')
      BY <2>1, <2>3, <2>5 DEF Ahead, Copied
    <3> QED  BY <2>1, <2>3, <2>4, <2>5, <3>1 DEF Holds
  <2> QED  BY <2>1, <2>4, <2>5, OneMoves DEF h
<1>3. CASE unlockFinishes(c)
  <2>1. /\ h.op = "unlock" /\ h.pc = "finish" /\ Busy(h) /\ Ends(c)
        /\ UNCHANGED <<row, unlocked, active>> /\ snap' = Shown(h.copy)
    BY <1>3 DEF unlockFinishes, At, Busy
  <2>2. Holds(h, row, unlocked, active, snap)
    BY <2>1, OneBefore
  <2>3. Own(row) /\ (unlocked => active = row.active) /\ h.copy = row
    BY <2>1, <2>2 DEF Holds, Copied, SessionMoves
  <2>4. Holds(NoCall, row', unlocked', active', snap')
    BY <1>0, <2>1, <2>3, ShownRow, RestHolds
  <2> QED  BY <2>1, <2>4, OneEnds
<1> QED  BY <1>1, <1>2, <1>3

\* A lock, and the death of the worker, find no call in progress or leave none.
LEMMA OneLocks ==
    ASSUME Typed, Typed', One, lock \/ WorkerDies, alone'
    PROVE  One'
<1>0. RowOK(row)
  BY DEF Typed
<1>1. CASE lock
  <2>1. Idle
    BY <1>1, MeetsCounts DEF lock, alone
  <2>2. Holds(NoCall, row, unlocked, active, snap)
    BY <2>1 DEF One
  <2>3. Own(row) /\ snap.smart = row.smart /\ snap.active = row.active
    BY <2>2, NoCallIdle, AtRest
  <2>4. Holds(NoCall, row', unlocked', active', snap')
    BY <1>1, <2>3, RestHolds DEF lock
  <2>5. \A d \in Calls : ~Busy(call'[d])
    BY <1>1, <2>1 DEF lock, Idle, Busy
  <2> QED  BY <2>4, <2>5, Zenon DEF One
<1>2. CASE WorkerDies
  <2>1. \A d \in Calls : ~Busy(call'[d])
    BY <1>2, NoCallIdle DEF WorkerDies
  <2>2. Own(row)
    <3>1. CASE Idle
      BY <3>1 DEF One, Holds
    <3>2. CASE ~Idle
      <4>1. PICK c \in Calls : Busy(call[c])
        BY <3>2 DEF Idle, Busy
      <4> QED  BY <4>1, OneBefore DEF Holds
    <3> QED  BY <3>1, <3>2
  <2>3. unlocked' = FALSE /\ snap' = Shown(row) /\ row' = row
    BY <1>2 DEF WorkerDies
  <2>4. Holds(NoCall, row', unlocked', active', snap')
    BY <1>0, <2>2, <2>3, ShownRow, RestHolds
  <2> QED  BY <2>1, <2>4, Zenon DEF One
<1> QED  BY <1>1, <1>2

LEMMA AloneBefore == Typed /\ [StoreNext]_storeVars /\ alone' => alone
<1> SUFFICES ASSUME Typed, [StoreNext]_storeVars, meetings' = 0 PROVE meetings = 0
  BY DEF alone
<1>1. ASSUME Meets PROVE meetings = 0
  BY <1>1, MeetsCounts
<1>2. ASSUME NEW c \in Calls, CallNext(c) PROVE Meets \/ UNCHANGED meetings
  BY <1>2 DEF CallNext, CallStarts, addAccount, addAccountWrites, addAccountFinishes,
     switchAccount, switchAccountWrites, switchAccountFinishes, renameAccount,
     renameAccountWrites, renameAccountFinishes, provisionSmartWallet, deploySmartWallet,
     provisionWrites, provisionFinishes, unlock, unlockWrites, unlockWith, unlockFinishes,
     writeKeystore
<1>3. lock \/ WorkerDies => Meets \/ UNCHANGED meetings
  BY DEF lock, WorkerDies
<1> QED  BY <1>1, <1>2, <1>3 DEF StoreNext, storeVars

LEMMA OneStep ==
    Typed /\ Typed' /\ One /\ [StoreNext]_storeVars /\ alone' => One' /\ Keeps(row, row')
<1> SUFFICES ASSUME Typed, Typed', One, [StoreNext]_storeVars, alone' PROVE One' /\ Keeps(row, row')
  OBVIOUS
<1>1. ASSUME NEW c \in Calls, CallNext(c) PROVE One' /\ Keeps(row, row')
  <2> DEFINE writes == \/ addAccountWrites(c) \/ switchAccountWrites(c) \/ renameAccountWrites(c)
                       \/ provisionWrites(c) \/ unlockWrites(c)
  <2>1. CASE writes
    BY <2>1, OneWrites DEF addAccountWrites, switchAccountWrites, renameAccountWrites,
         provisionWrites, unlockWrites
  <2>2. ASSUME NEW op \in {"add", "provision", "unlock", "switch", "rename"}, NEW arg,
               CallStarts(c, op, arg)
        PROVE  One' /\ UNCHANGED row
    <3>1. Idle
      BY <2>2, MeetsCounts DEF CallStarts, alone
    <3> QED  BY <2>2, <3>1, OneStarts DEF CallStarts
  <2>3. ASSUME addAccount(c) \/ addAccountFinishes(c) PROVE One'
    BY <2>3, OneAdds DEF addAccount, addAccountFinishes
  <2>4. ASSUME switchAccount(c) \/ switchAccountFinishes(c) PROVE One'
    BY <2>4, OneSwitches DEF switchAccount, switchAccountFinishes
  <2>5. ASSUME renameAccount(c) \/ renameAccountFinishes(c) PROVE One'
    BY <2>5, OneRenames DEF renameAccount, renameAccountFinishes
  <2>6. ASSUME provisionSmartWallet(c) \/ deploySmartWallet(c) \/ provisionFinishes(c) PROVE One'
    BY <2>6, OneProvisions DEF provisionSmartWallet, deploySmartWallet, provisionFinishes
  <2>7. ASSUME unlock(c) \/ unlockWith(c) \/ unlockFinishes(c) PROVE One'
    BY <2>7, OneUnlocks DEF unlock, unlockWith, unlockFinishes
  <2>8. UNCHANGED row => Keeps(row, row')
    BY KeepsSame
  <2>9. \/ writes
         \/ \E op \in {"add", "provision", "unlock", "switch", "rename"} :
              \E arg : CallStarts(c, op, arg)
         \/ addAccount(c) \/ addAccountFinishes(c)
         \/ switchAccount(c) \/ switchAccountFinishes(c)
         \/ renameAccount(c) \/ renameAccountFinishes(c)
         \/ provisionSmartWallet(c) \/ deploySmartWallet(c) \/ provisionFinishes(c)
         \/ unlock(c) \/ unlockWith(c) \/ unlockFinishes(c)
    BY <1>1 DEF CallNext
  <2>10. UNCHANGED row \/ writes
    BY <2>9 DEF CallStarts, addAccount, addAccountFinishes, switchAccount,
         switchAccountFinishes, renameAccount, renameAccountFinishes, provisionSmartWallet,
         deploySmartWallet, provisionFinishes, unlock, unlockWith, unlockFinishes
  <2> HIDE DEF writes
  <2>11. writes \/ One'
    BY <2>2, <2>3, <2>4, <2>5, <2>6, <2>7, <2>9
  <2> QED  BY <2>1, <2>8, <2>10, <2>11
<1>2. CASE lock \/ WorkerDies
  <2>1. One'
    BY <1>2, OneLocks
  <2> QED  BY <1>2, <2>1, KeepsSame DEF lock, WorkerDies
<1>3. CASE UNCHANGED storeVars
  <2>1. One'
    BY <1>3 DEF storeVars, One, Idle
  <2> QED  BY <1>3, <2>1, KeepsSame DEF storeVars
<1> QED  BY <1>1, <1>2, <1>3 DEF StoreNext

LEMMA StoreInvariant == StoreSpec => []StoreInv
<1>1. StoreInv /\ [StoreNext]_storeVars => StoreInv'
  BY TypedStep, AloneBefore, OneStep DEF StoreInv
<1> QED  BY <1>1, StoreInitially, PTL DEF StoreSpec

\* However calls interleave, row, session and snapshot are well typed, the indices of
\* the row have no gap and its active one is listed (keystore/keystore.ts).
THEOREM StoreTyped == StoreSpec => []StoreTypeOK
<1>1. Typed => StoreTypeOK
  <2> SUFFICES ASSUME Typed PROVE StoreTypeOK
    OBVIOUS
  <2>1. row \in Rows /\ row.active \in Accounts(row)
    BY DEF Typed, RowOK
  <2>2. \E r \in {[smart |-> snap.smart, named |-> snap.named, active |-> snap.active,
                   old |-> FALSE]} : r \in Rows /\ r.active \in Accounts(r)
    BY DEF Typed, RowOK
  <2>3. \A c \in Calls : call[c].arg \in Indices \cup {None}
    BY DEF Typed, CallOK
  <2>4. unlocked \in BOOLEAN /\ active \in Indices /\ meetings \in 0..MaxMeetings
    BY DEF Typed
  <2> QED  BY <2>1, <2>2, <2>3, <2>4 DEF StoreTypeOK
<1> QED  BY <1>1, StoreInvariant, PTL DEF StoreInv

\* As long as calls come one at a time, session, snapshot and row name the same account
\* whenever the wallet is open and at rest (addAccountHandler to
\* provisionSmartWalletHandler).
THEOREM SessionSnapshotRow == StoreSpec => []AloneAgrees
<1>1. StoreInv => AloneAgrees
  <2> SUFFICES ASSUME One, Idle, unlocked
               PROVE  active = row.active /\ snap.active = row.active /\ snap.smart = row.smart
    BY DEF StoreInv, AloneAgrees
  <2>1. Holds(NoCall, row, unlocked, active, snap)
    BY DEF One
  <2> QED  BY <2>1, NoCallIdle DEF Holds, SessionMoves, SnapshotLags
<1> QED  BY <1>1, StoreInvariant, PTL

\* ... and each account holds the smart wallet its own authority deployed
\* (provisionSmartWallet reads the account before the deployment and after it).
THEOREM WalletOfItsAuthority == StoreSpec => []OwnSmartWallet
<1>1. StoreInv => OwnSmartWallet
  <2> SUFFICES ASSUME StoreInv, alone PROVE Own(row)
    BY DEF OwnSmartWallet, Own
  <2>1. One
    BY DEF StoreInv
  <2>2. CASE Idle
    BY <2>1, <2>2 DEF One, Holds
  <2>3. CASE ~Idle
    <3>1. PICK c \in Calls : Busy(call[c])
      BY <2>3 DEF Idle, Busy
    <3> QED  BY <2>1, <3>1, OneBefore DEF Holds
  <2> QED  BY <2>2, <2>3
<1> QED  BY <1>1, StoreInvariant, PTL

\* ... and no write of the whole row forgets an account, a name or a smart wallet
\* (writeKeystore takes the row as one value).
THEOREM RowForgetsNothing == StoreSpec => AloneForgetsNothing
<1>1. StoreInv /\ StoreInv' /\ [StoreNext]_storeVars =>
          [alone' => /\ Accounts(row) \subseteq Accounts(row') /\ row.named \subseteq row'.named
                     /\ \A i \in Accounts(row) :
                           row.smart[i] # None => row'.smart[i] = row.smart[i]]_storeVars
  <2> SUFFICES ASSUME StoreInv, StoreInv', [StoreNext]_storeVars, alone'
               PROVE  Keeps(row, row')
    BY DEF Keeps
  <2> QED  BY AloneBefore, OneStep DEF StoreInv
<1> QED  BY <1>1, StoreInvariant, PTL DEF StoreSpec, AloneForgetsNothing
================================================================================
