------------------------------ MODULE AgentProofs ------------------------------
(***************************************************************************)
(* Proofs about an agent that pays: the contract that limits it, the two   *)
(* programs that drive that contract, and the guard in front of what the   *)
(* agent signs.                                                            *)
(*                                                                         *)
(* First MerchantSpendPolicy, for every set of wallets, merchants, keys    *)
(* and arguments and every length of the day and of a bucket.  Then        *)
(* AgentSpend over it, for every set of keys and amounts, every window and *)
(* polling time, and any number of transactions and commands: a failure is *)
(* final, a setup that succeeded leaves a key that works, and owner and    *)
(* agent keep to the contract.                                             *)
(*                                                                         *)
(* Last AgentGuard, for every set of accounts, transactions of any length, *)
(* ledgers and policies: what is signed was vouched for, the balances      *)
(* shown are a floor, and what the policy forbids does not land.           *)
(***************************************************************************)
EXTENDS AgentSpend, AgentGuard, SpendLedgerProofs

\* One entry per slice, none in the future, none a day older than another.
WellKept(log) ==
    /\ DOMAIN log \subseteq 0..now
    /\ \A t, u \in DOMAIN log : Bucket(t) = Bucket(u) => t = u
    /\ \A t, u \in DOMAIN log : u - t < DAY_SECONDS

\* From any second of the window on, the log counts at least what was paid.
Dominates(log, exact) ==
    \A from \in Int : now - DAY_SECONDS < from =>
        SumFrom(exact, from, now) <= SumFrom(log, from, now)

LogInv ==
    \A p \in DOMAIN allowance :
        /\ WellKept(allowance[p].spend_log)
        /\ DOMAIN paid[p] \subseteq 0..now
        /\ Dominates(allowance[p].spend_log, paid[p])
        /\ WindowSum(paid[p], now) <= allowance[p].cap_per_day

\* The inductive invariant.  CapNeverExceeded is its last part; that part is
\* kept by a payment only because the log dominates the exact history.
IInv == TypeOK /\ LogInv

--------------------------------------------------------------------------------
(* Slices of time *)

\* Buckets are numbers and later seconds lie in no earlier bucket.
LEMMA BucketMonotone ==
    ASSUME NEW t \in Nat, NEW u \in Nat, t <= u
    PROVE  Bucket(t) \in Nat /\ Bucket(u) \in Nat /\ Bucket(t) <= Bucket(u)
BY PolicyAssumption DEF Bucket

\* Two seconds less than k buckets apart lie in slices at most k apart.
LEMMA BucketDistance ==
    ASSUME NEW t \in Nat, NEW u \in Nat, NEW k \in Nat,
           u - t < k * SPEND_BUCKET_SECONDS
    PROVE  Bucket(u) <= Bucket(t) + k
BY PolicyAssumption DEF Bucket

--------------------------------------------------------------------------------
(* The log operations *)

LEMMA NewestIsLast ==
    ASSUME now \in Nat, NEW log, DOMAIN log \subseteq 0..now, DOMAIN log # {}
    PROVE  Newest(log) \in DOMAIN log /\ \A u \in DOMAIN log : u <= Newest(log)
<1>1. \E t \in DOMAIN log : \A u \in DOMAIN log : u <= t
  BY NatMax
<1> QED  BY <1>1 DEF Newest

\* Moving the newest entry to now and adding to it is taking it out and pushing.
LEMMA MergeIsPush ==
    ASSUME now \in Nat, NEW log, IsLedger(log), DOMAIN log \subseteq 0..now,
           NEW u \in DOMAIN log, \A t \in DOMAIN log : t <= u, NEW amount \in Nat
    PROVE  [t \in (DOMAIN log \ {u}) \cup {now} |->
               IF t = now THEN log[u] + amount ELSE log[t]]
             = Push(Without(log, u), now, log[u] + amount)
<1>1. now \notin DOMAIN log \ {u}
  BY DEF IsLedger
<1>2. DOMAIN Without(log, u) = DOMAIN log \ {u}
  BY DEF Without
<1>3. AmountAt(Without(log, u), now) = 0 /\ log[u] \in Nat
  BY <1>1, <1>2 DEF AmountAt, IsLedger
<1> QED  BY <1>2, <1>3 DEF Push, Without

\* record_spend counts the new amount from every second on, and loses nothing.
LEMMA RecordSpend ==
    ASSUME now \in Nat, NEW log, IsLedger(log), WellKept(log), NEW amount \in Nat,
           \A t \in DOMAIN log : now - t < DAY_SECONDS
    PROVE  /\ IsLedger(record_spend(log, amount))
           /\ WellKept(record_spend(log, amount))
           /\ \A from \in Int :
                SumFrom(log, from, now) + (IF from <= now THEN amount ELSE 0)
                    <= SumFrom(record_spend(log, amount), from, now)
<1> DEFINE new == record_spend(log, amount)
           u == Newest(log)
<1>1. CASE DOMAIN log # {} /\ Bucket(u) = Bucket(now)
  <2>1. u \in DOMAIN log /\ (\A t \in DOMAIN log : t <= u) /\ u \in 0..now
    BY <1>1, NewestIsLast DEF WellKept
  <2>2. new = Push(Without(log, u), now, log[u] + amount)
    BY <1>1, <2>1, MergeIsPush DEF record_spend, WellKept
  <2>3. log[u] \in Nat /\ log[u] + amount \in Nat
    BY <2>1 DEF IsLedger
  <2>4. IsLedger(Without(log, u))
    BY WithoutType
  <2>5. IsLedger(new)
    BY <2>2, <2>3, <2>4, PushType
  <2>6. DOMAIN new = (DOMAIN log \ {u}) \cup {now}
    BY <2>2 DEF Push, Without
  <2>7. WellKept(new)
    <3>1. \A t, v \in DOMAIN new : Bucket(t) = Bucket(v) => t = v
      <4> HIDE DEF new, u
      <4> QED  BY <1>1, <2>1, <2>6 DEF WellKept
    <3>2. \A t, v \in DOMAIN new : v - t < DAY_SECONDS
      <4> HIDE DEF new, u
      <4> QED  BY <2>6, DayAssumption DEF WellKept
    <3>3. DOMAIN new \subseteq 0..now
      BY <2>6 DEF WellKept
    <3> QED  BY <3>1, <3>2, <3>3 DEF WellKept
  <2>8. ASSUME NEW from \in Int
        PROVE  SumFrom(log, from, now) + (IF from <= now THEN amount ELSE 0)
                    <= SumFrom(new, from, now)
    <3>1. SumFrom(log, from, now) = SumFrom(Without(log, u), from, now)
                                    + (IF from <= u THEN log[u] ELSE 0)
      BY <2>1, SumFromWithout
    <3>2. SumFrom(new, from, now) = SumFrom(Without(log, u), from, now)
                                    + (IF from <= now THEN log[u] + amount ELSE 0)
      BY <2>2, <2>3, <2>4, SumFromPush
    <3>3. SumFrom(Without(log, u), from, now) \in Nat
      BY <2>4, SumFromType
    <3> HIDE DEF new, u
    <3> QED  BY <2>1, <2>3, <3>1, <3>2, <3>3
  <2> QED  BY <2>5, <2>7, <2>8
<1>2. CASE ~ (DOMAIN log # {} /\ Bucket(u) = Bucket(now))
  <2>1. new = Push(log, now, amount)
    BY <1>2 DEF record_spend
  <2>2. IsLedger(new)
    BY <2>1, PushType
  <2>3. DOMAIN new = DOMAIN log \cup {now}
    BY <2>1 DEF Push
  <2>4. \A t \in DOMAIN log : Bucket(t) # Bucket(now)
    <3> SUFFICES ASSUME NEW t \in DOMAIN log, Bucket(t) = Bucket(now) PROVE FALSE
      OBVIOUS
    <3>1. u \in DOMAIN log /\ t <= u /\ u <= now /\ u \in Nat /\ t \in Nat
      BY NewestIsLast DEF WellKept
    <3>2. Bucket(u) = Bucket(t)
      <4>1. Bucket(t) <= Bucket(u) /\ Bucket(u) <= Bucket(now)
        BY <3>1, PolicyAssumption, BucketMonotone
      <4>2. Bucket(t) \in Int /\ Bucket(u) \in Int /\ Bucket(now) \in Int
        BY <3>1, PolicyAssumption, BucketMonotone
      <4> QED  BY <4>1, <4>2
    <3> QED  BY <1>2, <3>2
  <2>5. WellKept(new)
    <3>1. \A t, v \in DOMAIN new : Bucket(t) = Bucket(v) => t = v
      <4> HIDE DEF new
      <4> QED  BY <2>3, <2>4 DEF WellKept
    <3>2. \A t, v \in DOMAIN new : v - t < DAY_SECONDS
      <4> HIDE DEF new
      <4> QED  BY <2>3, DayAssumption DEF WellKept
    <3>3. DOMAIN new \subseteq 0..now
      BY <2>3 DEF WellKept
    <3> QED  BY <3>1, <3>2, <3>3 DEF WellKept
  <2>6. ASSUME NEW from \in Int
        PROVE  SumFrom(log, from, now) + (IF from <= now THEN amount ELSE 0)
                    <= SumFrom(new, from, now)
    <3>1. SumFrom(new, from, now) = SumFrom(log, from, now)
                                    + (IF from <= now THEN amount ELSE 0)
      BY <2>1, SumFromPush
    <3>2. SumFrom(log, from, now) \in Nat
      BY SumFromType
    <3> HIDE DEF new
    <3> QED  BY <3>1, <3>2
  <2> QED  BY <2>2, <2>5, <2>6
<1> QED  BY <1>1, <1>2

--------------------------------------------------------------------------------
(* The invariant, entry point by entry point *)

LEMMA InitIInv == Init => IInv
<1> SUFFICES ASSUME Init PROVE IInv
  OBVIOUS
<1>1. TypeOK
  BY EmptyLedgerType DEF Init, TypeOK, Pairs
<1>2. LogInv
  BY DEF Init, LogInv
<1> QED  BY <1>1, <1>2 DEF IInv

\* A fresh log is well kept and dominates the fresh, empty history.
LEMMA FreshLog ==
    ASSUME now \in Nat
    PROVE  /\ IsLedger(EmptyLedger) /\ WellKept(EmptyLedger)
           /\ Dominates(EmptyLedger, EmptyLedger)
           /\ WindowSum(EmptyLedger, now) = 0
<1>1. IsLedger(EmptyLedger)
  BY EmptyLedgerType
<1>2. WellKept(EmptyLedger)
  BY DEF WellKept, EmptyLedger
<1>3. \A from \in Int : SumFrom(EmptyLedger, from, now) \in Nat
  BY <1>1, SumFromType
<1>4. Dominates(EmptyLedger, EmptyLedger)
  BY <1>3 DEF Dominates
<1>5. \A n \in Nat : SumUpTo(EmptyLedger, n) = 0
  <2> DEFINE S == {n \in Nat : SumUpTo(EmptyLedger, n) = 0}
  <2>1. \A n \in Nat : AmountAt(EmptyLedger, n) = 0
    BY DEF AmountAt, EmptyLedger
  <2>2. 0 \in S
    BY <2>1, SumUpToDef
  <2>3. \A n \in Nat : n \in S => n + 1 \in S
    BY <2>1, SumUpToDef
  <2>4. Nat \subseteq S
    <3> HIDE DEF S
    <3> QED  BY <2>2, <2>3, NatSetInduction
  <2> QED  BY <2>4
<1>6. Pruned(EmptyLedger, now) = EmptyLedger
  BY DEF Pruned, InWindow, EmptyLedger
<1> QED  BY <1>1, <1>2, <1>4, <1>5, <1>6 DEF WindowSum

LEMMA SetAllowanceIInv ==
    ASSUME IInv, NEW w \in Wallets, NEW m \in Merchants, NEW k \in SubKeys,
           NEW capTx \in Caps, NEW capDay \in Caps, NEW d \in Mandates,
           set_allowance(w, m, k, capTx, capDay, d)
    PROVE  IInv'
<1> DEFINE p0 == <<w, m>>
<1>1. now \in Nat /\ p0 \in Pairs /\ now' = now
  BY DEF IInv, TypeOK, Pairs, set_allowance
<1>2. DOMAIN allowance' = DOMAIN allowance \cup {p0}
  BY DEF set_allowance
<1>3. /\ allowance'[p0].spend_log = EmptyLedger
      /\ allowance'[p0].cap_per_day = capDay
      /\ paid'[p0] = EmptyLedger
      /\ IsAllowance(allowance'[p0])
  <2>1. d \in Nat /\ capTx \in Nat \ {0} /\ capDay \in Nat \ {0}
    BY PolicyAssumption DEF set_allowance, valid_grant
  <2>2. allowance'[p0] = [signer |-> k, cap_per_tx |-> capTx, cap_per_day |-> capDay,
                  spend_log |-> EmptyLedger, status |-> "Active", expires_at |-> now + d]
    BY DEF set_allowance
  <2>3. paid'[p0] = EmptyLedger
    BY <1>1 DEF set_allowance, IInv, TypeOK
  <2>4. now + d \in Nat
    BY <1>1, <2>1
  <2> QED  BY <2>1, <2>2, <2>3, <2>4, EmptyLedgerType DEF IsAllowance, Statuses
<1>4. \A p \in DOMAIN allowance : p # p0 => allowance'[p] = allowance[p]
  BY DEF set_allowance
<1>5. \A p \in Pairs : p # p0 => paid'[p] = paid[p]
  BY DEF set_allowance, IInv, TypeOK
<1>6. TypeOK'
  <2>1. /\ DOMAIN allowance' \subseteq Pairs
        /\ allowance' = [p \in DOMAIN allowance' |-> allowance'[p]]
    BY <1>1 DEF set_allowance, IInv, TypeOK
  <2>2. \A p \in DOMAIN allowance' : IsAllowance(allowance'[p])
    BY <1>2, <1>3, <1>4 DEF IInv, TypeOK
  <2>3. paid' = [p \in Pairs |-> paid'[p]] /\ \A p \in Pairs : IsLedger(paid'[p])
    BY <1>3, <1>5, EmptyLedgerType DEF set_allowance, IInv, TypeOK
  <2>4. grants' \in [Pairs -> Nat]
    BY <1>1 DEF set_allowance, IInv, TypeOK
  <2>5. policySigner' \subseteq Wallets /\ installed' \subseteq Wallets
    BY DEF set_allowance, IInv, TypeOK
  <2> QED  BY <1>1, <2>1, <2>2, <2>3, <2>4, <2>5 DEF TypeOK
<1>7. LogInv'
  <2>1. /\ WellKept(EmptyLedger) /\ Dominates(EmptyLedger, EmptyLedger)
        /\ WindowSum(EmptyLedger, now) = 0 /\ DOMAIN EmptyLedger = {}
    BY <1>1, FreshLog DEF EmptyLedger
  <2>2. capDay \in Nat
    BY PolicyAssumption DEF set_allowance, valid_grant
  <2> SUFFICES ASSUME NEW p \in DOMAIN allowance'
               PROVE  /\ WellKept(allowance[p].spend_log)'
                      /\ DOMAIN paid'[p] \subseteq 0..now'
                      /\ Dominates(allowance[p].spend_log, paid[p])'
                      /\ WindowSum(paid'[p], now') <= allowance'[p].cap_per_day
    BY DEF LogInv
  <2>3. CASE p = p0
    BY <1>1, <1>3, <2>1, <2>2, <2>3 DEF WellKept, Dominates
  <2>4. CASE p # p0
    <3>1. p \in DOMAIN allowance /\ p \in Pairs
      BY <1>2, <2>4 DEF IInv, TypeOK
    <3>2. allowance'[p] = allowance[p] /\ paid'[p] = paid[p]
      BY <1>4, <1>5, <2>4, <3>1
    <3> QED  BY <1>1, <3>1, <3>2 DEF IInv, LogInv, WellKept, Dominates
  <2> QED  BY <2>3, <2>4
<1> QED  BY <1>6, <1>7 DEF IInv

LEMMA SetStatusIInv ==
    ASSUME IInv, NEW w \in Wallets, NEW m \in Merchants, NEW s \in Statuses,
           set_status(w, m, s)
    PROVE  IInv'
<1> DEFINE p0 == <<w, m>>
<1>1. /\ DOMAIN allowance' = DOMAIN allowance /\ p0 \in DOMAIN allowance
      /\ now' = now /\ paid' = paid
      /\ allowance' = [p \in DOMAIN allowance' |-> allowance'[p]]
  BY DEF set_status
<1>2. ASSUME NEW p \in DOMAIN allowance
      PROVE  /\ IsAllowance(allowance'[p])
             /\ allowance'[p].spend_log = allowance[p].spend_log
             /\ allowance'[p].cap_per_day = allowance[p].cap_per_day
  <2>1. IsAllowance(allowance[p])
    BY DEF IInv, TypeOK
  <2> QED  BY <2>1 DEF set_status, IsAllowance
<1>3. TypeOK'
  BY <1>1, <1>2 DEF set_status, IInv, TypeOK
<1>4. LogInv'
  BY <1>1, <1>2 DEF IInv, LogInv, WellKept, Dominates
<1> QED  BY <1>3, <1>4 DEF IInv

LEMMA LifecycleIInv ==
    ASSUME IInv, NEW w \in Wallets,
           install(w) \/ RemovePolicySigner(w) \/ uninstall(w)
    PROVE  IInv'
<1>1. UNCHANGED <<now, allowance, grants, paid>>
  BY DEF install, RemovePolicySigner, uninstall
<1>2. policySigner' \subseteq Wallets /\ installed' \subseteq Wallets
  BY DEF install, RemovePolicySigner, uninstall, IInv, TypeOK
<1>3. TypeOK'
  BY <1>1, <1>2 DEF IInv, TypeOK
<1>4. LogInv'
  BY <1>1 DEF IInv, LogInv, WellKept, Dominates
<1> QED  BY <1>3, <1>4 DEF IInv

\* What an approved payment does to the log and to the exact history, and that
\* the exact history would have approved it too.
LEMMA ApprovedPayment ==
    ASSUME IInv, NEW w \in Wallets, NEW m \in Merchants, NEW k \in SubKeys,
           NEW amount \in Amounts, policy__(w, k, m, amount)
    PROVE  LET p   == <<w, m>>
               new == allowance'[p].spend_log
           IN  /\ amount \in Nat /\ p \in DOMAIN allowance
               /\ IsLedger(new) /\ IsLedger(paid'[p])
               /\ WellKept(new) /\ DOMAIN paid'[p] \subseteq 0..now
               /\ Dominates(new, paid'[p])
               /\ WindowSum(paid[p], now) + amount <= allowance[p].cap_per_day
               /\ WindowSum(paid'[p], now) = WindowSum(paid[p], now) + amount
               /\ paid'[p] = Push(paid[p], now, amount)
               /\ new = record_spend(Pruned(allowance[p].spend_log, now), amount)
<1> DEFINE p   == <<w, m>>
           log == Pruned(allowance[p].spend_log, now)
           new == record_spend(log, amount)
           old == allowance[p].spend_log
           P   == paid[p]
           first == now - DAY_SECONDS + 1
<1>1. amount \in Nat /\ now \in Nat /\ p \in DOMAIN allowance /\ p \in Pairs /\ first \in Int
  BY PolicyAssumption, DayAssumption DEF policy__, IInv, TypeOK
<1>2. IsAllowance(allowance[p]) /\ IsLedger(old) /\ IsLedger(P)
  BY <1>1 DEF IInv, TypeOK, IsAllowance
<1>3. allowance'[p].spend_log = new /\ paid'[p] = Push(P, now, amount)
  <2>1. allowance'[p].spend_log = new
    <3> HIDE DEF new
    <3>1. allowance' = [allowance EXCEPT ![p].spend_log = new]
      BY DEF policy__, new
    <3> QED  BY <1>1, <1>2, <3>1 DEF IsAllowance
  <2>2. paid'[p] = Push(P, now, amount)
    BY <1>1 DEF policy__, IInv, TypeOK
  <2> QED  BY <2>1, <2>2
<1>4. /\ WellKept(old) /\ DOMAIN P \subseteq 0..now /\ Dominates(old, P)
      /\ WindowSum(P, now) <= allowance[p].cap_per_day
  BY <1>1 DEF IInv, LogInv
<1>5. IsLedger(log) /\ WellKept(log) /\ \A t \in DOMAIN log : now - t < DAY_SECONDS
  BY <1>1, <1>2, <1>4, PrunedType DEF Pruned, InWindow, WellKept
<1>6. /\ IsLedger(new) /\ WellKept(new)
      /\ \A from \in Int : SumFrom(log, from, now) + (IF from <= now THEN amount ELSE 0)
                              <= SumFrom(new, from, now)
  <2> HIDE DEF log
  <2> QED  BY <1>1, <1>5, RecordSpend
<1> HIDE DEF log, new, old, P, first
<1>7. IsLedger(Push(P, now, amount)) /\ DOMAIN Push(P, now, amount) \subseteq 0..now
  <2>1. DOMAIN Push(P, now, amount) = DOMAIN P \cup {now}
    BY DEF Push
  <2> QED  BY <1>1, <1>2, <1>4, <2>1, PushType
<1>8. \A from \in Int : /\ SumFrom(Push(P, now, amount), from, now)
                             = SumFrom(P, from, now) + (IF from <= now THEN amount ELSE 0)
                        /\ SumFrom(P, from, now) \in Nat /\ SumFrom(log, from, now) \in Nat
                        /\ SumFrom(new, from, now) \in Nat
  <2> SUFFICES ASSUME NEW from \in Int
               PROVE  /\ SumFrom(Push(P, now, amount), from, now)
                             = SumFrom(P, from, now) + (IF from <= now THEN amount ELSE 0)
                      /\ SumFrom(P, from, now) \in Nat /\ SumFrom(log, from, now) \in Nat
                      /\ SumFrom(new, from, now) \in Nat
    OBVIOUS
  <2>1. SumFrom(Push(P, now, amount), from, now)
                             = SumFrom(P, from, now) + (IF from <= now THEN amount ELSE 0)
    BY <1>1, <1>2, SumFromPush
  <2>2. SumFrom(P, from, now) \in Nat /\ SumFrom(log, from, now) \in Nat
    BY <1>1, <1>2, <1>5, SumFromType
  <2>3. SumFrom(new, from, now) \in Nat
    BY <1>1, <1>6, SumFromType
  <2> QED  BY <2>1, <2>2, <2>3
<1>9. \A from \in Int : now - DAY_SECONDS < from =>
          SumFrom(log, from, now) = SumFrom(old, from, now)
  BY <1>1, <1>2, SumFromPruned DEF log, old
<1>10. Dominates(new, Push(P, now, amount))
  <2> SUFFICES ASSUME NEW from \in Int, now - DAY_SECONDS < from
               PROVE  SumFrom(Push(P, now, amount), from, now) <= SumFrom(new, from, now)
    BY DEF Dominates
  <2>1. SumFrom(P, from, now) <= SumFrom(log, from, now)
    BY <1>4, <1>9 DEF Dominates
  <2> QED  BY SMTT(30), <1>1, <1>6, <1>8, <2>1
<1>11. WindowSum(P, now) + amount <= allowance[p].cap_per_day
  <2>1. WindowSum(old, now) + amount <= allowance[p].cap_per_day
    BY DEF policy__, old
  <2>2. WindowSum(P, now) = SumFrom(P, first, now) /\ WindowSum(old, now) = SumFrom(old, first, now)
    BY <1>1, <1>2, WindowIsSumFrom DEF first
  <2>3. SumFrom(P, first, now) <= SumFrom(old, first, now)
    BY <1>1, <1>4, DayAssumption DEF Dominates, first
  <2>4. SumFrom(P, first, now) \in Nat /\ SumFrom(old, first, now) \in Nat
    BY <1>1, <1>2, SumFromType
  <2>5. allowance[p].cap_per_day \in Nat
    BY <1>2 DEF IsAllowance
  <2> QED  BY <1>1, <2>1, <2>2, <2>3, <2>4, <2>5
<1>12. WindowSum(Push(P, now, amount), now) = WindowSum(P, now) + amount
  <2>1. first <= now
    BY <1>1, DayAssumption DEF first
  <2>2. WindowSum(P, now) = SumFrom(P, first, now)
    BY <1>1, <1>2, WindowIsSumFrom DEF first
  <2>3. WindowSum(Push(P, now, amount), now) = SumFrom(Push(P, now, amount), first, now)
    BY <1>1, <1>7, WindowIsSumFrom DEF first
  <2> QED  BY <1>1, <1>8, <2>1, <2>2, <2>3
<1> QED  BY <1>1, <1>3, <1>6, <1>7, <1>10, <1>11, <1>12 DEF P, log, new, old

LEMMA PolicyIInv ==
    ASSUME IInv, NEW w \in Wallets, NEW m \in Merchants, NEW k \in SubKeys,
           NEW amount \in Amounts, policy__(w, k, m, amount)
    PROVE  IInv'
<1> DEFINE p0  == <<w, m>>
           new == allowance'[p0].spend_log
<1>1. /\ amount \in Nat /\ p0 \in DOMAIN allowance /\ IsLedger(new) /\ IsLedger(paid'[p0])
      /\ WellKept(new) /\ DOMAIN paid'[p0] \subseteq 0..now /\ Dominates(new, paid'[p0])
      /\ WindowSum(paid'[p0], now) <= allowance[p0].cap_per_day
  BY ApprovedPayment
<1>2. /\ now' = now /\ p0 \in Pairs /\ DOMAIN allowance' = DOMAIN allowance
      /\ allowance' = [p \in DOMAIN allowance' |-> allowance'[p]]
      /\ paid' = [p \in Pairs |-> paid'[p]]
  BY DEF policy__, Pairs, IInv, TypeOK
<1>3. \A p \in DOMAIN allowance : p # p0 => allowance'[p] = allowance[p]
  BY DEF policy__
<1>4. \A p \in Pairs : p # p0 => paid'[p] = paid[p]
  BY DEF policy__, IInv, TypeOK
<1>5. IsAllowance(allowance'[p0]) /\ allowance'[p0].cap_per_day = allowance[p0].cap_per_day
  <2>1. IsAllowance(allowance[p0])
    BY <1>1 DEF IInv, TypeOK
  <2>2. allowance'[p0] = [allowance[p0] EXCEPT !.spend_log = new]
    BY <1>1, <2>1 DEF policy__, IsAllowance
  <2> HIDE DEF new
  <2> QED  BY <1>1, <2>1, <2>2 DEF IsAllowance
<1>6. TypeOK'
  <2>1. \A p \in DOMAIN allowance' : IsAllowance(allowance'[p])
    BY <1>2, <1>3, <1>5 DEF IInv, TypeOK
  <2>2. \A p \in Pairs : IsLedger(paid'[p])
    BY <1>1, <1>4 DEF IInv, TypeOK
  <2> QED  BY <1>2, <2>1, <2>2 DEF policy__, IInv, TypeOK
<1>7. LogInv'
  <2> SUFFICES ASSUME NEW p \in DOMAIN allowance'
               PROVE  /\ WellKept(allowance[p].spend_log)'
                      /\ DOMAIN paid'[p] \subseteq 0..now'
                      /\ Dominates(allowance[p].spend_log, paid[p])'
                      /\ WindowSum(paid'[p], now') <= allowance'[p].cap_per_day
    BY DEF LogInv
  <2>1. CASE p = p0
    BY <1>1, <1>2, <1>5, <2>1 DEF WellKept, Dominates
  <2>2. CASE p # p0
    <3>1. p \in DOMAIN allowance /\ p \in Pairs
      BY <1>2 DEF IInv, TypeOK
    <3>2. allowance'[p] = allowance[p] /\ paid'[p] = paid[p]
      BY <1>3, <1>4, <2>2, <3>1
    <3> QED  BY <1>2, <3>1, <3>2 DEF IInv, LogInv, WellKept, Dominates
  <2> QED  BY <2>1, <2>2
<1> QED  BY <1>6, <1>7 DEF IInv

\* When time passes the window only shrinks at its old end.
LEMMA TickIInv ==
    ASSUME IInv, Tick
    PROVE  IInv'
<1>1. now \in Nat /\ now' = now + 1 /\ now' \in Nat
      /\ UNCHANGED <<policySigner, installed, allowance, grants, paid>>
  BY DEF Tick, IInv, TypeOK
<1>2. TypeOK'
  BY <1>1 DEF IInv, TypeOK
<1>3. LogInv'
  <2> SUFFICES ASSUME NEW p \in DOMAIN allowance
               PROVE  /\ WellKept(allowance[p].spend_log)'
                      /\ DOMAIN paid[p] \subseteq 0..(now + 1)
                      /\ Dominates(allowance[p].spend_log, paid[p])'
                      /\ WindowSum(paid[p], now + 1) <= allowance[p].cap_per_day
    BY <1>1 DEF LogInv
  <2> DEFINE log == allowance[p].spend_log
             P   == paid[p]
  <2>1. /\ IsLedger(log) /\ IsLedger(P) /\ allowance[p].cap_per_day \in Nat
        /\ WellKept(log) /\ DOMAIN P \subseteq 0..now /\ Dominates(log, P)
        /\ WindowSum(P, now) <= allowance[p].cap_per_day
    BY DEF IInv, TypeOK, IsAllowance, LogInv
  <2> HIDE DEF P, log
  <2>2. \A from \in Int : /\ SumFrom(log, from, now + 1) = SumFrom(log, from, now)
                          /\ SumFrom(P, from, now + 1) = SumFrom(P, from, now)
    BY <1>1, <2>1, SumFromTick DEF WellKept
  <2>3. \A from \in Int : (now + 1) - DAY_SECONDS < from =>
            SumFrom(P, from, now + 1) <= SumFrom(log, from, now + 1)
    <3> TAKE from \in Int
    <3> HAVE (now + 1) - DAY_SECONDS < from
    <3>1. now - DAY_SECONDS < from
      BY <1>1, DayAssumption
    <3> QED  BY <2>1, <2>2, <3>1 DEF Dominates
  <2>4. WindowSum(P, now + 1) <= allowance[p].cap_per_day
    <3> DEFINE first == now - DAY_SECONDS + 1
    <3>1. first \in Int /\ first + 1 \in Int /\ first <= first + 1
      BY <1>1, DayAssumption
    <3>2. WindowSum(P, now + 1) = SumFrom(P, first + 1, now + 1)
      <4>1. (now + 1) - DAY_SECONDS + 1 = first + 1
        BY <1>1, DayAssumption
      <4> QED  BY <1>1, <2>1, <4>1, WindowIsSumFrom
    <3>3. WindowSum(P, now) = SumFrom(P, first, now)
      BY <1>1, <2>1, WindowIsSumFrom
    <3> HIDE DEF first
    <3>4. SumFrom(P, first + 1, now + 1) = SumFrom(P, first + 1, now)
      BY <2>2, <3>1
    <3>5. SumFrom(P, first + 1, now) <= SumFrom(P, first, now)
      BY <1>1, <2>1, <3>1, SumFromMonotone
    <3>6. SumFrom(P, first + 1, now) \in Nat /\ SumFrom(P, first, now) \in Nat
      BY <1>1, <2>1, <3>1, SumFromType
    <3> QED  BY <2>1, <3>2, <3>3, <3>4, <3>5, <3>6
  <2>5. WellKept(log)' /\ DOMAIN P \subseteq 0..(now + 1)
    BY <1>1, <2>1 DEF WellKept, log, P
  <2>6. Dominates(allowance[p].spend_log, paid[p])'
    BY <1>1, <2>3 DEF Dominates, log, P
  <2> QED  BY <2>4, <2>5, <2>6 DEF log, P
<1> QED  BY <1>2, <1>3 DEF IInv

LEMMA NextIInv == IInv /\ [Next]_vars => IInv'
<1> SUFFICES ASSUME IInv, [Next]_vars PROVE IInv'
  OBVIOUS
<1>1. ASSUME NEW w \in Wallets, NEW m \in Merchants, NEW k \in SubKeys,
             NEW capTx \in Caps, NEW capDay \in Caps, NEW d \in Mandates,
             set_allowance(w, m, k, capTx, capDay, d)
      PROVE  IInv'
  BY <1>1, SetAllowanceIInv
<1>2. ASSUME NEW w \in Wallets, NEW m \in Merchants,
             pause(w, m) \/ resume(w, m) \/ revoke(w, m)
      PROVE  IInv'
  <2>1. PICK s \in Statuses : set_status(w, m, s)
    BY <1>2 DEF pause, resume, revoke, Statuses
  <2> QED  BY <2>1, SetStatusIInv
<1>3. ASSUME NEW w \in Wallets, install(w) \/ RemovePolicySigner(w) \/ uninstall(w)
      PROVE  IInv'
  BY <1>3, LifecycleIInv
<1>4. ASSUME NEW w \in Wallets, NEW m \in Merchants, NEW k \in SubKeys,
             NEW amount \in Amounts, policy__(w, k, m, amount)
      PROVE  IInv'
  BY <1>4, PolicyIInv
<1>5. CASE Tick
  BY <1>5, TickIInv
<1>6. CASE UNCHANGED vars
  BY <1>6 DEF vars, IInv, TypeOK, LogInv, WellKept, Dominates
<1> QED  BY <1>1, <1>2, <1>3, <1>4, <1>5, <1>6 DEF Next

LEMMA Invariance == Spec => []IInv
BY InitIInv, NextIInv, PTL DEF Spec

--------------------------------------------------------------------------------
(* What follows *)

\* Every reachable state is well typed.
THEOREM TypeCorrect == Spec => []TypeOK
<1>1. IInv => TypeOK
  BY DEF IInv
<1> QED  BY <1>1, Invariance, PTL

\* For every cap and every sequence of calls, the payments really made under a
\* grant in the trailing day stay within cap_per_day.
THEOREM CapIsKept == Spec => []CapNeverExceeded
<1>1. IInv => CapNeverExceeded
  BY DEF IInv, LogInv, CapNeverExceeded
<1> QED  BY <1>1, Invariance, PTL

\* For every length of the day and of a bucket, a log never grows past one entry
\* per bucket of the day and one more: its entries lie in distinct buckets, and
\* less than a day separates the oldest from the newest.
THEOREM LogIsBounded == Spec => []LogBounded
<1> DEFINE K == DAY_SECONDS \div SPEND_BUCKET_SECONDS
<1>1. ASSUME IInv, NEW p \in DOMAIN allowance
      PROVE  Cardinality(DOMAIN allowance[p].spend_log) <= K + 1
  <2> DEFINE S == DOMAIN allowance[p].spend_log
  <2>1. /\ IsFiniteSet(S) /\ S \subseteq Nat
        /\ \A t, u \in S : Bucket(t) = Bucket(u) => t = u
        /\ \A t, u \in S : u - t < DAY_SECONDS
    BY <1>1 DEF IInv, TypeOK, IsAllowance, IsLedger, LogInv, WellKept
  <2>2. K \in Nat /\ DAY_SECONDS = K * SPEND_BUCKET_SECONDS
    BY DayAssumption, PolicyAssumption
  <2> HIDE DEF S, K
  <2>3. CASE S = {}
    BY <2>2, <2>3, FS_EmptySet DEF S
  <2>4. CASE S # {}
    <3>1. PICK first \in S : \A t \in S : first <= t
      BY <2>1, <2>4, NatMin
    <3> DEFINE T == Bucket(first)..(Bucket(first) + K)
               f == [t \in S |-> Bucket(t)]
    <3>2. first \in Nat /\ Bucket(first) \in Nat
      BY <2>1, <3>1, BucketMonotone
    <3>3. \A t \in S : Bucket(t) \in T
      <4> SUFFICES ASSUME NEW t \in S PROVE Bucket(t) \in T
        OBVIOUS
      <4>1. t \in Nat /\ first <= t /\ t - first < K * SPEND_BUCKET_SECONDS
        BY <2>1, <2>2, <3>1
      <4>2. Bucket(first) <= Bucket(t) /\ Bucket(t) \in Nat
        BY <3>2, <4>1, BucketMonotone
      <4>3. Bucket(t) <= Bucket(first) + K
        BY <2>2, <3>2, <4>1, BucketDistance
      <4> QED  BY <2>2, <3>2, <4>2, <4>3
    <3>4. f \in Injection(S, T)
      <4> HIDE DEF T
      <4> QED  BY <2>1, <3>3 DEF Injection, IsInjective
    <3>5. IsFiniteSet(T) /\ Cardinality(T) = K + 1
      <4>1. Bucket(first) \in Int /\ Bucket(first) + K \in Int
            /\ ~ (Bucket(first) > Bucket(first) + K)
            /\ (Bucket(first) + K) - Bucket(first) + 1 = K + 1
        BY <2>2, <3>2
      <4> QED  BY <4>1, FS_Interval
    <3>6. Cardinality(S) <= Cardinality(T)
      <4> HIDE DEF T, f
      <4> QED  BY <3>4, <3>5, FS_Injection
    <3> QED  BY <3>5, <3>6 DEF S
  <2> QED  BY <2>3, <2>4
<1>2. IInv => LogBounded
  BY <1>1 DEF LogBounded
<1> QED  BY <1>2, Invariance, PTL

\* Revocation is final for every wallet and merchant: only a fresh grant makes a
\* revoked pair spendable again.
THEOREM RevocationIsFinal == Spec => RevocationFinal
<1> DEFINE Final(p) ==
        allowance[p].status = "Revoked" /\ grants'[p] = grants[p] =>
              allowance'[p].status = "Revoked" /\ paid'[p] = paid[p]
<1>1. IInv /\ [Next]_vars => [\A p \in DOMAIN allowance : Final(p)]_vars
  <2> SUFFICES ASSUME IInv, Next, NEW p \in DOMAIN allowance PROVE Final(p)
    OBVIOUS
  <2>1. p \in Pairs /\ IsAllowance(allowance[p]) /\ grants \in [Pairs -> Nat]
        /\ paid = [q \in Pairs |-> paid[q]]
    BY DEF IInv, TypeOK
  <2>2. ASSUME NEW w \in Wallets, NEW m \in Merchants, NEW k \in SubKeys,
               NEW capTx \in Caps, NEW capDay \in Caps, NEW d \in Mandates,
               set_allowance(w, m, k, capTx, capDay, d)
        PROVE  Final(p)
    <3>1. CASE p = <<w, m>>
      BY <2>1, <2>2, <3>1 DEF set_allowance
    <3>2. CASE p # <<w, m>>
      BY <2>1, <2>2, <3>2 DEF set_allowance
    <3> QED  BY <3>1, <3>2
  <2>3. ASSUME NEW w \in Wallets, NEW m \in Merchants, NEW s \in Statuses, set_status(w, m, s)
        PROVE  Final(p)
    <3>1. CASE p = <<w, m>>
      BY <2>1, <2>3, <3>1 DEF set_status, status_allowed, IsAllowance
    <3>2. CASE p # <<w, m>>
      BY <2>1, <2>3, <3>2 DEF set_status
    <3> QED  BY <3>1, <3>2
  <2>4. ASSUME NEW w \in Wallets, install(w) \/ RemovePolicySigner(w) \/ uninstall(w)
        PROVE  Final(p)
    BY <2>4 DEF install, RemovePolicySigner, uninstall
  <2>5. ASSUME NEW w \in Wallets, NEW m \in Merchants, NEW k \in SubKeys,
               NEW amount \in Amounts, policy__(w, k, m, amount)
        PROVE  Final(p)
    <3>1. CASE p = <<w, m>>
      BY <2>5, <3>1 DEF policy__
    <3>2. CASE p # <<w, m>>
      BY <2>1, <2>5, <3>2 DEF policy__
    <3> QED  BY <3>1, <3>2
  <2>6. CASE Tick
    BY <2>6 DEF Tick
  <2> HIDE DEF Final
  <2>7. \A w \in Wallets, m \in Merchants : pause(w, m) \/ resume(w, m) \/ revoke(w, m) => Final(p)
    BY <2>3 DEF pause, resume, revoke, Statuses
  <2> QED  BY <2>2, <2>4, <2>5, <2>6, <2>7 DEF Next
<1> QED  BY <1>1, Invariance, PTL DEF Spec, RevocationFinal

--------------------------------------------------------------------------------
(* How early a payment is refused *)

\* No slice begins before this second and ends at or after it.
StartsSlice(from) ==
    \A t, u \in Nat : Bucket(t) = Bucket(u) /\ from <= u => from <= t

\* From the start of any slice on, the log counts no more than was paid: an entry
\* moves within its slice only.
Bounded(log, exact) ==
    \A from \in Int : StartsSlice(from) => SumFrom(log, from, now) <= SumFrom(exact, from, now)

BoundedInv == \A p \in DOMAIN allowance : Bounded(allowance[p].spend_log, paid[p])

\* record_spend adds the amount, and nothing but it, from the start of each slice on.
LEMMA RecordSpendInSlice ==
    ASSUME now \in Nat, NEW log, IsLedger(log), DOMAIN log \subseteq 0..now,
           NEW amount \in Nat, NEW from \in Int, StartsSlice(from)
    PROVE  SumFrom(record_spend(log, amount), from, now)
              = SumFrom(log, from, now) + (IF from <= now THEN amount ELSE 0)
<1> DEFINE u == Newest(log)
<1>1. CASE DOMAIN log # {} /\ Bucket(u) = Bucket(now)
  <2>1. u \in DOMAIN log /\ (\A t \in DOMAIN log : t <= u) /\ u \in 0..now /\ u \in Nat
    BY <1>1, NewestIsLast
  <2>2. record_spend(log, amount) = Push(Without(log, u), now, log[u] + amount)
    BY <1>1, <2>1, MergeIsPush DEF record_spend
  <2>3. log[u] \in Nat /\ log[u] + amount \in Nat /\ IsLedger(Without(log, u))
    BY <2>1, WithoutType DEF IsLedger
  <2>4. from <= u <=> from <= now
    BY <1>1, <2>1 DEF StartsSlice
  <2>5. SumFrom(log, from, now) = SumFrom(Without(log, u), from, now)
                                  + (IF from <= u THEN log[u] ELSE 0)
    BY <2>1, SumFromWithout
  <2>6. SumFrom(record_spend(log, amount), from, now)
           = SumFrom(Without(log, u), from, now)
             + (IF from <= now THEN log[u] + amount ELSE 0)
    BY <2>2, <2>3, SumFromPush
  <2>7. SumFrom(Without(log, u), from, now) \in Nat
    BY <2>3, SumFromType
  <2> HIDE DEF u
  <2> QED  BY <2>3, <2>4, <2>5, <2>6, <2>7
<1>2. CASE ~ (DOMAIN log # {} /\ Bucket(u) = Bucket(now))
  <2>1. record_spend(log, amount) = Push(log, now, amount)
    BY <1>2 DEF record_spend
  <2> QED  BY <2>1, SumFromPush
<1> QED  BY <1>1, <1>2

\* Pruning leaves no more than there was.
LEMMA PrunedIsLess ==
    ASSUME NEW log, IsLedger(log), NEW t0 \in Nat, NEW from \in Int, NEW n \in Nat
    PROVE  SumFrom(Pruned(log, t0), from, n) <= SumFrom(log, from, n)
<1>1. IsLedger(Pruned(log, t0))
  BY PrunedType
<1>2. IsLedger(From(log, from)) /\ IsLedger(From(Pruned(log, t0), from))
  BY <1>1, FromType
<1>3. \A t \in Nat : AmountAt(From(Pruned(log, t0), from), t) <= AmountAt(From(log, from), t)
  BY DEF IsLedger, AmountAt, From, Pruned, InWindow
<1> QED  BY <1>2, <1>3, SumMonotone DEF SumFrom

\* The slice of a second starts less than a slice before it.
LEMMA SliceStart ==
    ASSUME NEW first \in Int
    PROVE  \E from \in Int : /\ StartsSlice(from)
                             /\ from <= first /\ first - SPEND_BUCKET_SECONDS + 1 <= from
<1>1. CASE first < 0
  BY <1>1, PolicyAssumption DEF StartsSlice
<1>2. CASE first >= 0
  <2> DEFINE from == SPEND_BUCKET_SECONDS * Bucket(first)
  <2>1. /\ first \in Nat /\ Bucket(first) \in Nat /\ from \in Int
        /\ from <= first /\ first - SPEND_BUCKET_SECONDS + 1 <= from
    BY <1>2, PolicyAssumption DEF Bucket
  <2>2. ASSUME NEW t \in Nat, NEW u \in Nat, Bucket(t) = Bucket(u), from <= u
        PROVE  from <= t
    BY <2>1, <2>2, PolicyAssumption DEF Bucket
  <2>3. StartsSlice(from)
    BY <2>2 DEF StartsSlice
  <2> QED  BY <2>1, <2>3
<1> QED  BY <1>1, <1>2

LEMMA BoundedInvariant == Spec => []BoundedInv
<1>1. Init => BoundedInv
  BY DEF Init, BoundedInv
<1>2. IInv /\ BoundedInv /\ [Next]_vars => BoundedInv'
  <2> SUFFICES ASSUME IInv, BoundedInv, [Next]_vars PROVE BoundedInv'
    OBVIOUS
  <2>1. /\ now \in Nat /\ \A q \in DOMAIN allowance : q \in Pairs /\ IsAllowance(allowance[q])
        /\ paid = [q \in Pairs |-> paid[q]] /\ \A q \in Pairs : IsLedger(paid[q])
    BY DEF IInv, TypeOK
  <2>2. ASSUME NEW w \in Wallets, NEW m \in Merchants, NEW k \in SubKeys,
               NEW capTx \in Caps, NEW capDay \in Caps, NEW d \in Mandates,
               set_allowance(w, m, k, capTx, capDay, d)
        PROVE  BoundedInv'
    <3> SUFFICES ASSUME NEW p \in DOMAIN allowance'
                 PROVE  Bounded(allowance[p].spend_log, paid[p])'
      BY DEF BoundedInv
    <3>1. now' = now
      BY <2>2 DEF set_allowance
    <3>2. CASE p = <<w, m>>
      <4>1. allowance'[p].spend_log = EmptyLedger /\ paid'[p] = EmptyLedger
        BY <2>1, <2>2, <3>2 DEF set_allowance, Pairs
      <4>2. \A from \in Int : SumFrom(EmptyLedger, from, now) \in Nat
        BY <2>1, EmptyLedgerType, SumFromType
      <4> QED  BY <3>1, <4>1, <4>2 DEF Bounded
    <3>3. CASE p # <<w, m>>
      <4>1. p \in DOMAIN allowance /\ allowance'[p] = allowance[p] /\ paid'[p] = paid[p]
        BY <2>1, <2>2, <3>3 DEF set_allowance
      <4> QED  BY <3>1, <4>1 DEF BoundedInv, Bounded
    <3> QED  BY <3>2, <3>3
  <2>3. ASSUME NEW w \in Wallets, NEW m \in Merchants, NEW s \in Statuses, set_status(w, m, s)
        PROVE  BoundedInv'
    <3>1. /\ now' = now /\ paid' = paid /\ DOMAIN allowance' = DOMAIN allowance
          /\ \A p \in DOMAIN allowance : allowance'[p].spend_log = allowance[p].spend_log
      BY <2>1, <2>3 DEF set_status, IsAllowance
    <3> QED  BY <3>1 DEF BoundedInv, Bounded
  <2>4. ASSUME NEW w \in Wallets, install(w) \/ RemovePolicySigner(w) \/ uninstall(w)
        PROVE  BoundedInv'
    BY <2>4 DEF install, RemovePolicySigner, uninstall, BoundedInv, Bounded
  <2>5. ASSUME NEW w \in Wallets, NEW m \in Merchants, NEW k \in SubKeys,
               NEW amount \in Amounts, policy__(w, k, m, amount)
        PROVE  BoundedInv'
    <3> DEFINE p0 == <<w, m>>
               log == allowance[p0].spend_log
               kept == Pruned(log, now)
               P == paid[p0]
    <3>1. /\ now' = now /\ p0 \in DOMAIN allowance /\ amount \in Nat
          /\ DOMAIN allowance' = DOMAIN allowance
      BY <2>5, ApprovedPayment DEF policy__
    <3>2. allowance'[p0].spend_log = record_spend(kept, amount) /\ paid'[p0] = Push(P, now, amount)
      BY <2>1, <2>5, <3>1 DEF policy__, IsAllowance
    <3>3. /\ \A p \in DOMAIN allowance : p # p0 => allowance'[p] = allowance[p]
          /\ \A p \in Pairs : p # p0 => paid'[p] = paid[p]
      BY <2>1, <2>5 DEF policy__
    <3>4. /\ IsLedger(log) /\ IsLedger(kept) /\ IsLedger(P) /\ DOMAIN kept \subseteq 0..now
          /\ Bounded(log, P)
      BY <2>1, <3>1, PrunedType
         DEF IsAllowance, Pruned, InWindow, IInv, LogInv, WellKept, BoundedInv
    <3> HIDE DEF kept, log, P
    <3>5. ASSUME NEW from \in Int, StartsSlice(from)
          PROVE  SumFrom(record_spend(kept, amount), from, now)
                    <= SumFrom(Push(P, now, amount), from, now)
      <4>1. SumFrom(record_spend(kept, amount), from, now)
               = SumFrom(kept, from, now) + (IF from <= now THEN amount ELSE 0)
        BY <2>1, <3>1, <3>4, <3>5, RecordSpendInSlice
      <4>2. SumFrom(Push(P, now, amount), from, now)
               = SumFrom(P, from, now) + (IF from <= now THEN amount ELSE 0)
        BY <2>1, <3>1, <3>4, SumFromPush
      <4>3. SumFrom(kept, from, now) <= SumFrom(log, from, now)
        BY <2>1, <3>4, PrunedIsLess DEF kept
      <4>4. SumFrom(log, from, now) <= SumFrom(P, from, now)
        BY <3>4, <3>5 DEF Bounded
      <4>5. /\ SumFrom(kept, from, now) \in Nat /\ SumFrom(log, from, now) \in Nat
            /\ SumFrom(P, from, now) \in Nat
        BY <2>1, <3>4, SumFromType
      <4> QED  BY <3>1, <4>1, <4>2, <4>3, <4>4, <4>5
    <3>6. Bounded(allowance[p0].spend_log, paid[p0])'
      BY <3>1, <3>2, <3>5 DEF Bounded
    <3>7. ASSUME NEW p \in DOMAIN allowance, p # p0
          PROVE  Bounded(allowance[p].spend_log, paid[p])'
      BY <2>1, <3>1, <3>3, <3>7 DEF BoundedInv, Bounded
    <3> QED  BY <3>1, <3>6, <3>7 DEF BoundedInv
  <2>6. CASE Tick
    <3>1. now' = now + 1 /\ allowance' = allowance /\ paid' = paid
      BY <2>6 DEF Tick
    <3> SUFFICES ASSUME NEW p \in DOMAIN allowance, NEW from \in Int, StartsSlice(from)
                 PROVE  SumFrom(allowance[p].spend_log, from, now + 1)
                           <= SumFrom(paid[p], from, now + 1)
      BY <3>1 DEF BoundedInv, Bounded
    <3>2. /\ IsLedger(allowance[p].spend_log) /\ DOMAIN allowance[p].spend_log \subseteq 0..now
          /\ IsLedger(paid[p]) /\ DOMAIN paid[p] \subseteq 0..now
      BY <2>1 DEF IsAllowance, IInv, LogInv, WellKept
    <3>3. /\ SumFrom(allowance[p].spend_log, from, now + 1)
                = SumFrom(allowance[p].spend_log, from, now)
          /\ SumFrom(paid[p], from, now + 1) = SumFrom(paid[p], from, now)
      BY <2>1, <3>2, SumFromTick
    <3> QED  BY <3>3 DEF BoundedInv, Bounded
  <2>7. CASE UNCHANGED vars
    BY <2>7 DEF vars, BoundedInv, Bounded
  <2>8. \A w \in Wallets, m \in Merchants :
            pause(w, m) \/ resume(w, m) \/ revoke(w, m) => BoundedInv'
    BY <2>3 DEF pause, resume, revoke, Statuses
  <2> QED  BY <2>2, <2>4, <2>5, <2>6, <2>7, <2>8 DEF Next
<1> QED  BY <1>1, <1>2, Invariance, PTL DEF Spec

\* The price of merging is at most one slice, for every length of the day and of a
\* slice: what the log still counts was really paid less than a day and a slice ago.
THEOREM RefusesLittleEarly == Spec => []RefusesAtMostOneBucketEarly
<1>1. ASSUME IInv, BoundedInv, NEW p \in DOMAIN allowance
      PROVE  WindowSum(allowance[p].spend_log, now)
                <= SumUpTo([t \in {u \in DOMAIN paid[p] :
                                      now - u < DAY_SECONDS + SPEND_BUCKET_SECONDS - 1}
                              |-> paid[p][t]], now)
  <2> DEFINE log == allowance[p].spend_log
             P == paid[p]
             first == now - DAY_SECONDS + 1
             early == first - SPEND_BUCKET_SECONDS + 1
  <2>1. now \in Nat /\ IsLedger(log) /\ IsLedger(P) /\ Bounded(log, P)
    BY <1>1 DEF IInv, TypeOK, IsAllowance, BoundedInv
  <2>2. first \in Int /\ early \in Int
    BY <2>1, DayAssumption, PolicyAssumption
  <2>3. {u \in DOMAIN P : now - u < DAY_SECONDS + SPEND_BUCKET_SECONDS - 1}
           = {u \in DOMAIN P : early <= u}
    BY <2>1, DayAssumption, PolicyAssumption DEF IsLedger
  <2>4. WindowSum(log, now) = SumFrom(log, first, now)
    BY <2>1, WindowIsSumFrom
  <2> HIDE DEF log, P, first
  <2>5. PICK from \in Int : StartsSlice(from) /\ from <= first /\ early <= from
    BY <2>2, SliceStart
  <2> HIDE DEF early
  <2>6. SumFrom(log, first, now) <= SumFrom(log, from, now)
    BY <2>1, <2>2, <2>5, SumFromMonotone
  <2>7. SumFrom(log, from, now) <= SumFrom(P, from, now)
    BY <2>1, <2>5 DEF Bounded
  <2>8. SumFrom(P, from, now) <= SumFrom(P, early, now)
    BY <2>1, <2>2, <2>5, SumFromMonotone
  <2>9. /\ SumFrom(log, first, now) \in Nat /\ SumFrom(log, from, now) \in Nat
        /\ SumFrom(P, from, now) \in Nat /\ SumFrom(P, early, now) \in Nat
    BY <2>1, <2>2, <2>5, SumFromType
  <2>10. WindowSum(log, now) <= SumFrom(P, early, now)
    BY <2>4, <2>6, <2>7, <2>8, <2>9
  <2> QED  BY <2>3, <2>10 DEF log, P, SumFrom, From
<1>2. IInv /\ BoundedInv => RefusesAtMostOneBucketEarly
  BY <1>1 DEF RefusesAtMostOneBucketEarly
<1> QED  BY <1>2, Invariance, BoundedInvariant, PTL

--------------------------------------------------------------------------------
(* The contract implements SpendingMandate *)

\* What the mandate of the abstract specification keeps of an allowance.
Terms(a) == [cap_per_tx |-> a.cap_per_tx, cap_per_day |-> a.cap_per_day,
             status |-> a.status, expires_at |-> a.expires_at]

AbstractMandate == [p \in DOMAIN allowance |-> Terms(allowance[p])]

LEMMA InitRefines == Init => Mandate!MandateInit
<1> SUFFICES ASSUME Init PROVE Mandate!MandateInit
  OBVIOUS
<1>1. AbstractMandate = [p \in {} |-> {}]
  BY DEF Init, AbstractMandate
<1> QED  BY <1>1 DEF Init, Mandate!MandateInit, Mandate!EmptyLedger, EmptyLedger,
                     AbstractMandate, Terms

LEMMA StepRefines == IInv /\ [Next]_vars => [Mandate!MandateNext]_(Mandate!mvars)
<1> SUFFICES ASSUME IInv, [Next]_vars
             PROVE  Mandate!MandateNext \/ UNCHANGED Mandate!mvars
  OBVIOUS
<1>0. \A p \in DOMAIN allowance : p \in Pairs /\ IsAllowance(allowance[p])
  BY DEF IInv, TypeOK
<1>1. ASSUME NEW w \in Wallets, NEW m \in Merchants, NEW k \in SubKeys,
             NEW capTx \in Caps, NEW capDay \in Caps, NEW d \in Mandates,
             set_allowance(w, m, k, capTx, capDay, d)
      PROVE  Mandate!MandateNext
  <2> DEFINE p0 == <<w, m>>
  <2>1. p0 \in Pairs
    BY DEF Pairs
  <2>2. AbstractMandate' = [q \in DOMAIN AbstractMandate \cup {p0} |->
                     IF q = p0 THEN [cap_per_tx |-> capTx, cap_per_day |-> capDay,
                                    status |-> "Active", expires_at |-> now + d]
                              ELSE AbstractMandate[q]]
    BY <1>1 DEF set_allowance, AbstractMandate, Terms
  <2>3. Mandate!Grant(p0, capTx, capDay, d)
    BY <1>1, <2>2 DEF set_allowance, Mandate!Grant, AbstractMandate, Terms,
                       Mandate!EmptyLedger, EmptyLedger
  <2> QED  BY <2>1, <2>3 DEF Mandate!MandateNext
<1>2. ASSUME NEW w \in Wallets, NEW m \in Merchants, NEW s \in Statuses, set_status(w, m, s)
      PROVE  Mandate!MandateNext
  <2> DEFINE p0 == <<w, m>>
  <2>1. p0 \in Pairs /\ p0 \in DOMAIN allowance /\ IsAllowance(allowance[p0])
    BY <1>0, <1>2 DEF set_status
  <2>2. AbstractMandate' = [AbstractMandate EXCEPT ![p0].status = s]
    <3>1. DOMAIN allowance' = DOMAIN allowance
      BY <1>2 DEF set_status
    <3>2. \A q \in DOMAIN allowance : Terms(allowance'[q])
                = IF q = p0 THEN [Terms(allowance[q]) EXCEPT !.status = s]
                            ELSE Terms(allowance[q])
      BY <1>0, <1>2 DEF set_status, Terms, IsAllowance
    <3> QED  BY <3>1, <3>2 DEF AbstractMandate
  <2>3. Mandate!ChangeStatus(p0, s)
    BY <1>2, <2>1, <2>2 DEF set_status, status_allowed, Mandate!ChangeStatus, AbstractMandate, Terms
  <2> QED  BY <2>1, <2>3 DEF Mandate!MandateNext, Statuses, Mandate!Statuses
<1>3. ASSUME NEW w \in Wallets, install(w) \/ RemovePolicySigner(w) \/ uninstall(w)
      PROVE  UNCHANGED Mandate!mvars
  BY <1>3 DEF install, RemovePolicySigner, uninstall, Mandate!mvars
<1>4. ASSUME NEW w \in Wallets, NEW m \in Merchants, NEW k \in SubKeys,
             NEW amount \in Amounts, policy__(w, k, m, amount)
      PROVE  Mandate!MandateNext
  <2> DEFINE p0 == <<w, m>>
  <2>1. p0 \in Pairs /\ p0 \in DOMAIN allowance /\ IsAllowance(allowance[p0])
    BY <1>0, <1>4 DEF policy__
  <2>2. WindowSum(paid[p0], now) + amount <= allowance[p0].cap_per_day
    BY <1>4, ApprovedPayment
  <2>3. AbstractMandate' = AbstractMandate
    <3>1. DOMAIN allowance' = DOMAIN allowance
      BY <1>4 DEF policy__
    <3>2. \A q \in DOMAIN allowance : Terms(allowance'[q]) = Terms(allowance[q])
      BY <1>0, <1>4 DEF policy__, Terms, IsAllowance
    <3> QED  BY <3>1, <3>2 DEF AbstractMandate
  <2>4. Mandate!Pay(p0, amount)
    BY <1>4, <2>1, <2>2, <2>3
    DEF policy__, Mandate!Pay, AbstractMandate, Terms, Mandate!WindowSum, Mandate!Push,
        Mandate!SumUpTo, Mandate!Pruned, Mandate!InWindow, Mandate!AmountAt,
        WindowSum, Push, SumUpTo, Pruned, InWindow, AmountAt
  <2> QED  BY <2>1, <2>4 DEF Mandate!MandateNext
<1>5. CASE Tick
  BY <1>5 DEF Tick, Mandate!MandateNext, Mandate!Pass
<1>6. CASE UNCHANGED vars
  BY <1>6 DEF vars, Mandate!mvars
<1>7. \A w \in Wallets, m \in Merchants :
          pause(w, m) \/ resume(w, m) \/ revoke(w, m) => Mandate!MandateNext
  BY <1>2 DEF pause, resume, revoke, Statuses
<1> QED  BY <1>1, <1>3, <1>4, <1>5, <1>6, <1>7 DEF Next

\* Judged call by call, the contract never approves what the exact payment
\* history of the grant would refuse: it implements SpendingMandate.
THEOREM Refinement == Spec => ImplementsMandate
BY InitRefines, StepRefines, Invariance, PTL
DEF Spec, ImplementsMandate, Mandate!MandateSpec

--------------------------------------------------------------------------------
(* Owner and agent over the network *)


Kinds == {"none", "deploy", "install", "set_allowance", "add_signer",
          "pause", "resume", "revoke", "fund", "pay"}

Transactions ==
    [kind : Kinds, key : SubKeys, amount : Amounts \cup {0}, src : Processes,
     current : BOOLEAN, until : Nat, expires : Nat,
     state : {"gone", "pending", "landed", "failed"}, report : Reports]

\* What is left of a command.
Todos == {<< >>, setup, <<"install", "set_allowance", "add_signer">>,
          <<"set_allowance", "add_signer">>, <<"add_signer">>}
         \cup {<<c>> : c \in {"deploy", "install", "pause", "resume", "revoke", "fund", "pay"}}

ProcessStates ==
    [pc : {"idle", "build", "send", "poll"}, todo : Todos, key : SubKeys,
     amount : Amounts \cup {0}, slot : Slots \cup {0}, next : Transactions,
     deadline : Nat, granted : BOOLEAN]

AgentTypeOK ==
    /\ now \in Nat
    /\ signerUntil \in [SubKeys -> Int]
    /\ tx \in [Slots -> Transactions]
    /\ proc \in [Processes -> ProcessStates]

LEMMA KeyExists == AnyKey \in SubKeys
BY AgentSpendAssumption DEF AnyKey

LEMMA NoTxType == NoTx \in Transactions
BY KeyExists DEF NoTx, Transactions, Kinds, Processes, Reports

LEMMA DraftType ==
    ASSUME NEW kind \in Kinds, NEW key \in SubKeys, NEW amount \in Amounts \cup {0},
           NEW p \in Processes, NEW expires \in Nat, NEW until \in Nat
    PROVE  [NoTx EXCEPT !.kind = kind, !.key = key, !.amount = amount, !.src = p,
               !.current = TRUE, !.expires = expires, !.until = until] \in Transactions
BY NoTxType DEF Transactions

LEMMA IdleType == Idle \in ProcessStates
BY KeyExists, NoTxType DEF Idle, ProcessStates, Todos

LEMMA AgentInitType == AgentInit => AgentTypeOK
BY NoTxType, IdleType DEF AgentInit, Init, AgentTypeOK, NoExpiry

\* What follows a step is a rest of a command again.
LEMMA TailOfTodo ==
    ASSUME NEW todo \in Todos, todo # << >>
    PROVE  Tail(todo) \in Todos /\ Head(todo) \in Kinds \ {"none"}
<1>1. CASE todo = setup
  <2>1. Tail(todo) = <<"install", "set_allowance", "add_signer">> /\ Head(todo) = "deploy"
    BY <1>1 DEF setup
  <2> QED  BY <2>1 DEF Todos, Kinds
<1>2. CASE todo = <<"install", "set_allowance", "add_signer">>
  <2>1. Tail(todo) = <<"set_allowance", "add_signer">> /\ Head(todo) = "install"
    BY <1>2
  <2> QED  BY <2>1 DEF Todos, Kinds
<1>3. CASE todo = <<"set_allowance", "add_signer">>
  <2>1. Tail(todo) = <<"add_signer">> /\ Head(todo) = "set_allowance"
    BY <1>3
  <2> QED  BY <2>1 DEF Todos, Kinds
<1>4. ASSUME NEW c \in Kinds \ {"none"}, todo = <<c>>
      PROVE  Tail(todo) \in Todos /\ Head(todo) \in Kinds \ {"none"}
  <2>1. Tail(todo) = << >> /\ Head(todo) = c
    BY <1>4
  <2> QED  BY <2>1 DEF Todos
<1> QED  BY <1>1, <1>2, <1>3, <1>4 DEF Todos, Kinds

LEMMA ThrowsType ==
    ASSUME AgentTypeOK, NEW p \in Processes, Throws(p)
    PROVE  proc' \in [Processes -> ProcessStates]
BY IdleType DEF AgentTypeOK, Throws

LEMMA NextStepType ==
    ASSUME AgentTypeOK, NEW p \in Processes, proc[p].todo # << >>, NextStep(p)
    PROVE  proc' \in [Processes -> ProcessStates]
<1>1. Tail(proc[p].todo) \in Todos /\ proc[p].key \in SubKeys
  BY TailOfTodo DEF AgentTypeOK, ProcessStates
<1> DEFINE todo == Tail(proc[p].todo)
           s == [Idle EXCEPT !.pc = IF todo = << >> THEN "idle" ELSE "build",
                             !.todo = todo, !.key = proc[p].key,
                             !.granted = todo = << >> /\ Step(p) \in Granting]
<1>2. s \in ProcessStates
  <2> HIDE DEF todo
  <2>1. todo \in Todos
    BY <1>1 DEF todo
  <2>2. (todo = << >> /\ Step(p) \in Granting) \in BOOLEAN
    OBVIOUS
  <2> QED  BY <1>1, <2>1, <2>2, IdleType DEF ProcessStates
<1>3. proc' = [proc EXCEPT ![p] = s]
  BY DEF NextStep
<1> QED
  <2> HIDE DEF s
  <2> QED  BY <1>2, <1>3 DEF AgentTypeOK
--------------------------------------------------------------------------------
(* What a process waits for *)

InTime(t) == t.until <= now + Window(t.kind)

\* A process that polls waits for the transaction it sent, which can land no more
\* once its deadline has passed, unless it is fund's.
ProcessInv(p) ==
    LET s == proc[p] IN
    /\ s.pc = "idle" <=> s.todo = << >>
    /\ s.granted => s.pc = "idle"
    /\ s.pc # "poll" => s.slot = 0
    /\ s.pc = "send" =>
         /\ s.next.kind = Step(p) /\ s.next.src = p /\ s.next.key = s.key
         /\ s.next.report = "none" /\ InTime(s.next)
         /\ s.next.kind = "fund" => s.next.until # 0
    /\ s.pc = "poll" =>
         /\ s.slot \in Slots
         /\ tx[s.slot].kind = Step(p) /\ tx[s.slot].src = p /\ tx[s.slot].key = s.key
         /\ tx[s.slot].kind # "fund" => tx[s.slot].until < s.deadline

\* Every transaction lands within its window or never; of those that a command reported
\* failed with their final status, only one of fund may still land.
TxInv ==
    \A i \in Slots : (tx[i].report = "final" => tx[i].kind = "fund") /\ InTime(tx[i])

Waiting == AgentTypeOK /\ (\A p \in Processes : ProcessInv(p)) /\ TxInv

\* What the others wait for is not touched.
Kept(p) ==
    /\ proc'[p] = proc[p]
    /\ proc[p].pc = "poll" => /\ tx'[proc[p].slot].kind = tx[proc[p].slot].kind
                              /\ tx'[proc[p].slot].src = tx[proc[p].slot].src
                              /\ tx'[proc[p].slot].key = tx[proc[p].slot].key
                              /\ tx'[proc[p].slot].until = tx[proc[p].slot].until

LEMMA WindowType == \A kind : Window(kind) \in Nat
BY AgentSpendAssumption DEF Window

\* No transaction at all, and one whose window and kind are kept, are in time.
LEMMA NoTxInTime ==
    ASSUME now' \in Nat
    PROVE  NoTx.until <= now' + Window(NoTx.kind)
BY WindowType DEF NoTx

LEMMA StillInTime ==
    ASSUME NEW t \in Transactions, now \in Nat, now' \in Nat, now <= now', InTime(t)
    PROVE  t.until <= now' + Window(t.kind)
<1>1. t.until \in Nat /\ Window(t.kind) \in Nat
  BY WindowType DEF Transactions
<1> QED  BY <1>1 DEF InTime

\* The transactions that are kept as they were stay as well kept.
LEMMA KeptTxInv ==
    ASSUME Waiting, now' \in Nat, now <= now',
           NEW i \in Slots,
           \/ tx'[i] = NoTx
           \/ /\ tx'[i].kind = tx[i].kind /\ tx'[i].until = tx[i].until
              /\ tx'[i].report = tx[i].report
    PROVE  /\ tx'[i].report = "final" => tx'[i].kind = "fund"
           /\ tx'[i].until <= now' + Window(tx'[i].kind)
<1>1. tx[i] \in Transactions /\ now \in Nat /\ InTime(tx[i])
      /\ (tx[i].report = "final" => tx[i].kind = "fund")
  BY DEF Waiting, AgentTypeOK, TxInv
<1>2. tx[i].until <= now' + Window(tx[i].kind)
  BY <1>1, StillInTime
<1>3. NoTx.until <= now' + Window(NoTx.kind) /\ NoTx.report # "final"
  BY NoTxInTime DEF NoTx
<1> QED  BY <1>1, <1>2, <1>3

LEMMA KeptInv ==
    ASSUME Waiting, NEW p \in Processes, Kept(p), now' \in Nat, now <= now'
    PROVE  ProcessInv(p)'
<1>1. ProcessInv(p) /\ proc[p] \in ProcessStates
  BY DEF Waiting, AgentTypeOK
<1>2. proc[p].next.until \in Nat /\ now \in Nat
  BY <1>1 DEF ProcessStates, Transactions, Waiting, AgentTypeOK
<1>3. proc[p].pc = "send" => proc[p].next.until <= now' + Window(proc[p].next.kind)
  BY <1>1, StillInTime, <1>2 DEF ProcessStates, ProcessInv
<1> QED  BY <1>1, <1>2, <1>3 DEF Kept, ProcessInv, Step, InTime

\* A process that threw waits for nothing.
LEMMA IdleInv ==
    ASSUME AgentTypeOK, NEW p \in Processes, proc'[p] = Idle
    PROVE  ProcessInv(p)'
BY DEF Idle, ProcessInv

\* Nor does one that has just gone on to its next step.
LEMMA NextStepInv ==
    ASSUME Waiting, NEW p \in Processes, NextStep(p)
    PROVE  ProcessInv(p)'
<1> DEFINE todo == Tail(proc[p].todo)
           s == [Idle EXCEPT !.pc = IF todo = << >> THEN "idle" ELSE "build",
                             !.todo = todo, !.key = proc[p].key,
                             !.granted = todo = << >> /\ Step(p) \in Granting]
<1>1. proc'[p] = s
  BY DEF NextStep, Waiting, AgentTypeOK
<1>2. /\ s.pc = IF todo = << >> THEN "idle" ELSE "build"
      /\ s.todo = todo /\ s.granted = (todo = << >> /\ Step(p) \in Granting) /\ s.slot = 0
  BY DEF Idle
<1> HIDE DEF s, todo
<1> QED  BY <1>1, <1>2 DEF ProcessInv

\* Letting go of a transaction touches no other.
LEMMA LeftFrame ==
    ASSUME Waiting, NEW p \in Processes, At(p, "poll"), NEW report \in Reports,
           Left(p, report),
           report = "final" /\ tx[proc[p].slot].kind # "fund" => ~CanLand(tx[proc[p].slot]),
           now' = now
    PROVE  /\ tx' \in [Slots -> Transactions] /\ TxInv'
           /\ \A i \in Slots \ {proc[p].slot} : tx'[i] = tx[i]
           /\ \A q \in Processes \ {p} : proc[q].pc = "poll" => proc[q].slot # proc[p].slot
<1>1. ProcessInv(p) /\ proc[p].slot \in Slots /\ tx[proc[p].slot] \in Transactions
  BY DEF Waiting, AgentTypeOK, ProcessInv, At
<1> DEFINE t == tx[proc[p].slot]
           u == IF CanLand(t) THEN [t EXCEPT !.report = report] ELSE NoTx
<1>2. tx' = [tx EXCEPT ![proc[p].slot] = u]
  BY DEF Left
<1>3. u \in Transactions
  BY <1>1, NoTxType DEF Transactions
<1>4. u.report = "final" => u.kind = "fund"
  BY <1>1 DEF Transactions, NoTx
<1>5. tx \in [Slots -> Transactions] /\ TxInv /\ now \in Nat
  BY DEF Waiting, AgentTypeOK
<1>6. \A q \in Processes \ {p} : proc[q].pc = "poll" => proc[q].slot # proc[p].slot
  <2> SUFFICES ASSUME NEW q \in Processes \ {p}, proc[q].pc = "poll"
               PROVE  proc[q].slot # proc[p].slot
    OBVIOUS
  <2>1. tx[proc[q].slot].src = q
    BY DEF Waiting, ProcessInv
  <2>2. tx[proc[p].slot].src = p
    BY DEF Waiting, ProcessInv, At
  <2> QED  BY <2>1, <2>2
<1>7. u = NoTx \/ (u.until = t.until /\ u.kind = t.kind)
  BY <1>1 DEF Transactions
<1> HIDE DEF u
<1>8. u.until <= now' + Window(u.kind)
  <2>1. now' \in Nat /\ t.until <= now' + Window(t.kind)
    BY <1>1, <1>5 DEF TxInv, InTime
  <2> HIDE DEF t
  <2> QED  BY <1>7, <2>1, NoTxInTime
<1>9. /\ tx' \in [Slots -> Transactions] /\ tx'[proc[p].slot] = u
      /\ \A i \in Slots \ {proc[p].slot} : tx'[i] = tx[i]
  BY <1>1, <1>2, <1>3, <1>5
<1>10. ASSUME NEW i \in Slots
       PROVE  /\ tx'[i].report = "final" => tx'[i].kind = "fund"
              /\ tx'[i].until <= now' + Window(tx'[i].kind)
  <2>1. CASE i = proc[p].slot
    BY <1>4, <1>8, <1>9, <2>1
  <2>2. CASE i # proc[p].slot
    BY <1>5, <1>9, <2>2 DEF TxInv, InTime
  <2> QED  BY <2>1, <2>2
<1>11. TxInv'
  BY <1>10 DEF TxInv, InTime
<1> QED  BY <1>6, <1>9, <1>11

\* A step of p alone that leaves the transactions and the clock as they are.
LEMMA AloneInv ==
    ASSUME Waiting, NEW p \in Processes, proc' \in [Processes -> ProcessStates],
           \A q \in Processes \ {p} : proc'[q] = proc[q], ProcessInv(p)',
           UNCHANGED <<now, signerUntil, tx>>
    PROVE  Waiting'
<1>1. \A q \in Processes \ {p} : Kept(q)
  BY DEF Kept
<1>2. \A q \in Processes \ {p} : ProcessInv(q)'
  BY <1>1, KeptInv DEF Waiting, AgentTypeOK
<1> QED  BY <1>2 DEF Waiting, AgentTypeOK, TxInv, InTime

LEMMA OwnerRunsWaiting ==
    ASSUME Waiting, NEW command \in OwnerCommands, NEW k \in SubKeys, OwnerRuns(command, k)
    PROVE  Waiting'
<1> DEFINE s == [Idle EXCEPT !.pc = "build", !.todo = command, !.key = k]
<1>1. command \in Todos /\ command # << >>
  BY DEF OwnerCommands, Todos, setup
<1>2. s \in ProcessStates
  BY <1>1, IdleType DEF ProcessStates
<1>3. proc' = [proc EXCEPT !["owner"] = s] /\ "owner" \in Processes
  BY DEF OwnerRuns, Processes
<1>4. s.pc = "build" /\ s.todo # << >> /\ s.slot = 0 /\ s.granted = FALSE
  BY <1>1 DEF Idle
<1> HIDE DEF s
<1>5. proc' \in [Processes -> ProcessStates] /\ proc'["owner"] = s
      /\ \A q \in Processes \ {"owner"} : proc'[q] = proc[q]
  BY <1>2, <1>3 DEF Waiting, AgentTypeOK
<1>6. ProcessInv("owner")'
  BY <1>4, <1>5 DEF ProcessInv
<1> QED  BY <1>3, <1>5, <1>6, AloneInv DEF OwnerRuns, wallet

LEMMA payMerchantWaiting ==
    ASSUME Waiting, NEW k \in SubKeys, NEW amount \in Amounts, payMerchant(k, amount)
    PROVE  Waiting'
<1> DEFINE s == [Idle EXCEPT !.pc = "build", !.todo = <<"pay">>, !.key = k, !.amount = amount]
<1>1. <<"pay">> \in Todos /\ <<"pay">> # << >>
  BY DEF Todos
<1>2. s \in ProcessStates
  BY <1>1, IdleType DEF ProcessStates
<1>3. proc' = [proc EXCEPT !["agent"] = s] /\ "agent" \in Processes
  BY DEF payMerchant, Processes
<1>4. s.pc = "build" /\ s.todo # << >> /\ s.slot = 0 /\ s.granted = FALSE
  BY <1>1 DEF Idle
<1> HIDE DEF s
<1>5. proc' \in [Processes -> ProcessStates] /\ proc'["agent"] = s
      /\ \A q \in Processes \ {"agent"} : proc'[q] = proc[q]
  BY <1>2, <1>3 DEF Waiting, AgentTypeOK
<1>6. ProcessInv("agent")'
  BY <1>4, <1>5 DEF ProcessInv
<1> QED  BY <1>3, <1>5, <1>6, AloneInv DEF payMerchant, wallet

LEMMA AlreadyDoneWaiting ==
    ASSUME Waiting, NEW p \in Processes, AlreadyDone(p)
    PROVE  Waiting'
<1>1. proc[p].todo # << >> /\ NextStep(p)
  BY DEF AlreadyDone, At, Waiting, ProcessInv
<1>2. proc' \in [Processes -> ProcessStates]
  BY <1>1, NextStepType DEF Waiting
<1>3. \A q \in Processes \ {p} : proc'[q] = proc[q]
  BY <1>1 DEF NextStep, Waiting, AgentTypeOK
<1>4. ProcessInv(p)'
  BY <1>1, NextStepInv
<1> QED  BY <1>2, <1>3, <1>4, AloneInv DEF AlreadyDone, wallet

LEMMA ThrowsWaiting ==
    ASSUME Waiting, NEW p \in Processes, Throws(p), UNCHANGED <<now, signerUntil, tx>>
    PROVE  Waiting'
<1>1. proc' \in [Processes -> ProcessStates]
  BY ThrowsType DEF Waiting
<1>2. proc'[p] = Idle /\ \A q \in Processes \ {p} : proc'[q] = proc[q]
  BY DEF Throws, Waiting, AgentTypeOK
<1>3. ProcessInv(p)'
  BY <1>2, IdleInv DEF Waiting
<1> QED  BY <1>1, <1>2, <1>3, AloneInv

LEMMA BuildWaiting ==
    ASSUME Waiting, NEW p \in Processes, Build(p)
    PROVE  Waiting'
<1> DEFINE t == [NoTx EXCEPT !.kind = Step(p), !.key = proc[p].key,
                   !.amount = proc[p].amount, !.src = p, !.current = TRUE,
                   !.expires = now + MANDATE_SECONDS, !.until = OwnWindow(p)]
           s == [proc[p] EXCEPT !.pc = "send", !.next = t]
<1>1. /\ proc[p] \in ProcessStates /\ now \in Nat /\ ProcessInv(p)
      /\ proc[p].pc = "build" /\ proc[p].todo # << >>
  BY DEF Build, At, Waiting, AgentTypeOK, ProcessInv
<1>2. proc' = [proc EXCEPT ![p] = s]
  BY DEF Build
<1>3. OwnWindow(p) \in Nat /\ MANDATE_SECONDS \in Nat
      /\ (Step(p) # "fund" => OwnWindow(p) <= now + TX_TIMEOUT_SECONDS)
  BY <1>1, AgentSpendAssumption, PolicyAssumption DEF OwnWindow
<1>4. Step(p) \in Kinds
  BY <1>1, TailOfTodo DEF Step, ProcessStates
<1>5. t \in Transactions
  <2>1. proc[p].key \in SubKeys /\ proc[p].amount \in Amounts \cup {0}
        /\ now + MANDATE_SECONDS \in Nat
    BY <1>1, <1>3 DEF ProcessStates
  <2> QED  BY <1>3, <1>4, <2>1, DraftType
<1>6. t.kind = Step(p) /\ t.src = p /\ t.key = proc[p].key /\ t.report = "none"
      /\ t.until = OwnWindow(p)
  BY DEF NoTx
<1> HIDE DEF t
<1>7. s \in ProcessStates
  BY <1>1, <1>5 DEF ProcessStates
<1>8. /\ s.pc = "send" /\ s.todo = proc[p].todo /\ s.slot = proc[p].slot
      /\ s.granted = proc[p].granted /\ s.next = t /\ s.key = proc[p].key
  BY <1>1 DEF ProcessStates
<1> HIDE DEF s
<1>9. proc' \in [Processes -> ProcessStates] /\ proc'[p] = s
      /\ \A q \in Processes \ {p} : proc'[q] = proc[q]
  BY <1>2, <1>7 DEF Waiting, AgentTypeOK
<1>10. UNCHANGED <<now, signerUntil, tx>>
  BY DEF Build, wallet
<1>11. Step(p)' = Step(p)
  BY <1>8, <1>9 DEF Step
<1>12. ProcessInv(p)'
  <2>1. t.until <= now + Window(t.kind)
    BY <1>3, <1>6, WindowType DEF OwnWindow, Window
  <2>2. t.kind = "fund" => t.until # 0
    <3>1. t.kind = "fund" => t.until = now + FUND_TIMEOUT
      BY <1>6 DEF OwnWindow
    <3>2. now + FUND_TIMEOUT # 0
      BY AgentSpendAssumption DEF Waiting, AgentTypeOK
    <3> QED  BY <3>1, <3>2
  <2> QED  BY <1>1, <1>3, <1>6, <1>8, <1>9, <1>10, <1>11, <2>1, <2>2
           DEF ProcessInv, InTime
<1> QED  BY <1>9, <1>10, <1>12, AloneInv

LEMMA SendWaiting ==
    ASSUME Waiting, NEW p \in Processes, Send(p)
    PROVE  Waiting'
<1>1. PICK i \in Slots, answered \in BOOLEAN :
        /\ tx[i] = NoTx
        /\ tx' = [tx EXCEPT ![i] = [proc[p].next EXCEPT
                                       !.until = IF @ = 0 THEN now + TX_TIMEOUT_SECONDS ELSE @,
                                       !.state = "pending",
                                       !.report = IF answered THEN "none" ELSE "unknown"]]
        /\ IF answered
           THEN proc' = [proc EXCEPT ![p].pc = "poll", ![p].slot = i, ![p].next = NoTx,
                                     ![p].deadline = now + PollFor(proc[p].next.kind)]
           ELSE Throws(p)
  BY DEF Send
<1> DEFINE n == proc[p].next
           u == [n EXCEPT !.until = IF @ = 0 THEN now + TX_TIMEOUT_SECONDS ELSE @,
                          !.state = "pending",
                          !.report = IF answered THEN "none" ELSE "unknown"]
           s == [proc[p] EXCEPT !.pc = "poll", !.slot = i, !.next = NoTx,
                                !.deadline = now + PollFor(n.kind)]
<1>2. /\ proc[p] \in ProcessStates /\ n \in Transactions /\ now \in Nat /\ ProcessInv(p)
      /\ proc[p].pc = "send" /\ proc[p].todo # << >> /\ tx \in [Slots -> Transactions]
  BY DEF Send, At, Waiting, AgentTypeOK, ProcessInv, ProcessStates
<1>3. TX_TIMEOUT_SECONDS \in Nat /\ POLL_MARGIN \in Nat \ {0} /\ FUND_ATTEMPTS \in Nat
  BY AgentSpendAssumption
<1>4. u \in Transactions
  <2> DEFINE v == IF n.until = 0 THEN now + TX_TIMEOUT_SECONDS ELSE n.until
         w == IF answered THEN "none" ELSE "unknown"
  <2>1. u = [n EXCEPT !.until = v, !.state = "pending", !.report = w]
    BY <1>2 DEF Transactions
  <2>2. v \in Nat
    BY <1>2, <1>3 DEF Transactions
  <2>3. w \in Reports
    BY DEF Reports
  <2> HIDE DEF n, u, v, w
  <2> QED  BY <1>2, <2>1, <2>2, <2>3 DEF Transactions
<1>5. /\ u.kind = n.kind /\ u.src = n.src /\ u.key = n.key /\ u.report \in {"none", "unknown"}
      /\ u.until = IF n.until = 0 THEN now + TX_TIMEOUT_SECONDS ELSE n.until
  BY <1>2 DEF Transactions
<1>6. PollFor(n.kind) \in Nat
      /\ (n.kind # "fund" => PollFor(n.kind) = TX_TIMEOUT_SECONDS + POLL_MARGIN)
  BY <1>3 DEF PollFor
<1>7. n.kind = Step(p) /\ n.src = p /\ n.key = proc[p].key /\ n.report = "none"
      /\ (n.kind # "fund" => n.until <= now + TX_TIMEOUT_SECONDS)
      /\ (n.kind = "fund" => n.until <= now + FUND_TIMEOUT /\ n.until # 0)
  BY <1>2 DEF ProcessInv, InTime, Window
<1>8. tx' = [tx EXCEPT ![i] = u]
  BY <1>1
<1>9. s \in ProcessStates
  <2> DEFINE d == now + PollFor(n.kind)
  <2>1. s = [proc[p] EXCEPT !.pc = "poll", !.slot = i, !.next = NoTx, !.deadline = d]
    OBVIOUS
  <2>2. d \in Nat
    BY <1>2, <1>6
  <2> HIDE DEF s, d
  <2> QED  BY <1>2, <2>1, <2>2, NoTxType DEF ProcessStates
<1>10. /\ s.pc = "poll" /\ s.slot = i /\ s.todo = proc[p].todo /\ s.key = proc[p].key
       /\ s.deadline = now + PollFor(n.kind) /\ s.granted = proc[p].granted
  BY <1>2 DEF ProcessStates
<1>11. answered => proc' = [proc EXCEPT ![p] = s]
  BY <1>1
<1>12. n.kind # "none"
  BY <1>2, <1>7, TailOfTodo DEF Step, ProcessStates
<1>13. n.until \in Nat
  BY <1>2 DEF Transactions
<1> HIDE DEF u, s, n
<1>14. proc' \in [Processes -> ProcessStates] /\ \A q \in Processes \ {p} : proc'[q] = proc[q]
  <2>1. CASE answered
    BY <1>9, <1>11, <2>1 DEF Waiting, AgentTypeOK
  <2>2. CASE ~answered
    <3>1. Throws(p)
      BY <1>1, <2>2
    <3> QED  BY <3>1, ThrowsType DEF Throws, Waiting, AgentTypeOK
  <2> QED  BY <2>1, <2>2
<1>15. UNCHANGED <<now, signerUntil>>
  BY DEF Send, wallet
<1>16. tx' \in [Slots -> Transactions] /\ TxInv'
  <2>1. u.until <= now + Window(u.kind) /\ u.report # "final"
    BY <1>2, <1>3, <1>5, <1>7, <1>13 DEF Window
  <2>2. tx' \in [Slots -> Transactions] /\ tx'[i] = u /\ \A j \in Slots \ {i} : tx'[j] = tx[j]
    BY <1>2, <1>4, <1>8
  <2>3. ASSUME NEW j \in Slots
        PROVE  /\ tx'[j].report = "final" => tx'[j].kind = "fund"
               /\ tx'[j].until <= now' + Window(tx'[j].kind)
    <3>1. CASE j = i
      BY <1>15, <2>1, <2>2, <3>1
    <3>2. CASE j # i
      BY <1>15, <2>2, <3>2 DEF Waiting, TxInv, InTime
    <3> QED  BY <3>1, <3>2
  <2> QED  BY <2>2, <2>3 DEF TxInv, InTime
<1>17. \A q \in Processes \ {p} : ProcessInv(q)'
  <2> SUFFICES ASSUME NEW q \in Processes \ {p} PROVE ProcessInv(q)'
    OBVIOUS
  <2>1. proc[q].pc = "poll" => proc[q].slot \in Slots /\ proc[q].slot # i
    <3> SUFFICES ASSUME proc[q].pc = "poll" PROVE proc[q].slot \in Slots /\ proc[q].slot # i
      OBVIOUS
    <3>1. /\ proc[q] \in ProcessStates /\ proc[q].slot \in Slots
          /\ tx[proc[q].slot].kind = Step(q) /\ proc[q].todo # << >>
      BY DEF Waiting, AgentTypeOK, ProcessInv
    <3>2. Step(q) # "none"
      BY <3>1, TailOfTodo DEF Step, ProcessStates
    <3> QED  BY <1>1, <3>1, <3>2 DEF NoTx
  <2>2. Kept(q)
    BY <1>2, <1>8, <1>14, <2>1 DEF Kept
  <2> QED  BY <1>2, <1>15, <2>2, KeptInv
<1>18. ProcessInv(p)'
  <2>1. CASE answered
    <3>1. proc'[p] = s /\ tx'[i] = u
      BY <1>2, <1>8, <1>11, <2>1 DEF Waiting, AgentTypeOK
    <3>2. Step(p)' = Step(p)
      BY <1>10, <3>1 DEF Step
    <3>3. u.kind # "fund" => u.until < s.deadline
      BY <1>2, <1>3, <1>5, <1>6, <1>7, <1>10, <1>13
    <3> QED  BY <1>2, <1>5, <1>7, <1>10, <3>1, <3>2, <3>3 DEF ProcessInv
  <2>2. CASE ~answered
    <3>1. proc'[p] = Idle
      BY <1>1, <2>2 DEF Throws, Waiting, AgentTypeOK
    <3> QED  BY <3>1, IdleInv DEF Waiting
  <2> QED  BY <2>1, <2>2
<1> QED  BY <1>14, <1>15, <1>16, <1>17, <1>18 DEF Waiting, AgentTypeOK

LEMMA LeftWaiting ==
    ASSUME Waiting, NEW p \in Processes, At(p, "poll"), NEW report \in Reports,
           Left(p, report),
           report = "final" /\ tx[proc[p].slot].kind # "fund" => ~CanLand(tx[proc[p].slot]),
           proc' \in [Processes -> ProcessStates],
           \A q \in Processes \ {p} : proc'[q] = proc[q],
           ProcessInv(p)', UNCHANGED <<now, signerUntil>>
    PROVE  Waiting'
<1>1. /\ tx' \in [Slots -> Transactions] /\ TxInv'
      /\ \A i \in Slots \ {proc[p].slot} : tx'[i] = tx[i]
      /\ \A q \in Processes \ {p} : proc[q].pc = "poll" => proc[q].slot # proc[p].slot
  BY LeftFrame
<1>2. ASSUME NEW q \in Processes \ {p}
      PROVE  ProcessInv(q)'
  <2>1. proc[q].pc = "poll" => proc[q].slot \in Slots \ {proc[p].slot}
    BY <1>1 DEF Waiting, ProcessInv
  <2>2. Kept(q)
    BY <1>1, <2>1 DEF Kept
  <2> QED  BY <2>2, KeptInv DEF Waiting, AgentTypeOK
<1> QED  BY <1>1, <1>2 DEF Waiting, AgentTypeOK

LEMMA PollSucceedsWaiting ==
    ASSUME Waiting, NEW p \in Processes, PollSucceeds(p)
    PROVE  Waiting'
<1>1. proc[p].todo # << >> /\ NextStep(p) /\ Left(p, "none") /\ At(p, "poll")
      /\ "none" \in Reports /\ "none" # "final"
  BY DEF PollSucceeds, At, Waiting, ProcessInv, Reports
<1>2. proc' \in [Processes -> ProcessStates]
  BY <1>1, NextStepType DEF Waiting
<1>3. \A q \in Processes \ {p} : proc'[q] = proc[q]
  BY <1>1 DEF NextStep, Waiting, AgentTypeOK
<1>4. ProcessInv(p)'
  BY <1>1, NextStepInv
<1>5. UNCHANGED <<now, signerUntil>>
  BY DEF PollSucceeds, wallet
<1> QED  BY <1>1, <1>2, <1>3, <1>4, <1>5, LeftWaiting

\* A poll is given up after the transaction's time bound: it lands no more.
LEMMA GivenUpIsOver ==
    ASSUME Waiting, NEW p \in Processes, PollFails(p), tx[proc[p].slot].kind # "fund"
    PROVE  ~CanLand(tx[proc[p].slot])
<1> DEFINE t == tx[proc[p].slot]
<1>1. ProcessInv(p) /\ proc[p].pc = "poll" /\ proc[p] \in ProcessStates /\ t \in Transactions
  BY DEF PollFails, At, Waiting, AgentTypeOK, ProcessInv
<1>2. t.until < proc[p].deadline /\ t.until \in Nat /\ proc[p].deadline \in Nat /\ now \in Nat
  BY <1>1 DEF ProcessInv, ProcessStates, Transactions, Waiting, AgentTypeOK
<1>3. t.state = "failed" \/ now >= proc[p].deadline
  BY DEF PollFails, GivesUp
<1> QED  BY <1>2, <1>3 DEF CanLand

LEMMA PollFailsWaiting ==
    ASSUME Waiting, NEW p \in Processes, PollFails(p)
    PROVE  Waiting'
<1>1. Throws(p) /\ Left(p, "final") /\ At(p, "poll") /\ "final" \in Reports
  BY DEF PollFails, Reports
<1>2. proc' \in [Processes -> ProcessStates]
  BY <1>1, ThrowsType DEF Waiting
<1>3. proc'[p] = Idle /\ \A q \in Processes \ {p} : proc'[q] = proc[q]
  BY <1>1 DEF Throws, Waiting, AgentTypeOK
<1>4. ProcessInv(p)'
  BY <1>3, IdleInv DEF Waiting
<1>5. UNCHANGED <<now, signerUntil>>
  BY DEF PollFails, wallet
<1> QED  BY <1>1, <1>2, <1>3, <1>4, <1>5, GivenUpIsOver, LeftWaiting

LEMMA DiesWaiting ==
    ASSUME Waiting, NEW p \in Processes, Dies(p)
    PROVE  Waiting'
<1>1. Throws(p) /\ UNCHANGED <<now, signerUntil>>
  BY DEF Dies, wallet
<1>2. proc' \in [Processes -> ProcessStates]
  BY <1>1, ThrowsType DEF Waiting
<1>3. proc'[p] = Idle /\ \A q \in Processes \ {p} : proc'[q] = proc[q]
  BY <1>1 DEF Throws, Waiting, AgentTypeOK
<1>4. ProcessInv(p)'
  BY <1>3, IdleInv DEF Waiting
<1>5. CASE At(p, "poll")
  <2>1. PICK report \in Reports \ {"final"} : Left(p, report)
    BY <1>5 DEF Dies, Reports
  <2> QED  BY <1>1, <1>2, <1>3, <1>4, <1>5, <2>1, LeftWaiting
<1>6. CASE ~At(p, "poll")
  BY <1>1, <1>6, ThrowsWaiting DEF Dies
<1> QED  BY <1>5, <1>6

--------------------------------------------------------------------------------
(* The chain *)

\* What landing does to a slot and to a process, whichever of them it is.
SlotKept(j) ==
    \/ tx'[j] = tx[j] \/ tx'[j] = [tx[j] EXCEPT !.current = FALSE]
    \/ \E state \in {"landed", "failed"} :
          tx'[j] = [tx[j] EXCEPT !.state = state, !.current = FALSE]

LEMMA SettlesFrame ==
    ASSUME Waiting, NEW i \in Slots, NEW state \in {"landed", "failed"}, Settles(i, state)
    PROVE  /\ tx' \in [Slots -> Transactions]
           /\ \A j \in Slots : tx'[j] = NoTx \/ SlotKept(j)
           /\ \A j \in Slots : Polled(j) => SlotKept(j)
           /\ proc' \in [Processes -> ProcessStates]
           /\ \A q \in Processes :
                \/ proc'[q] = proc[q]
                \/ proc'[q] = [proc[q] EXCEPT !.next = [@ EXCEPT !.current = FALSE]]
<1> DEFINE src == tx[i].src
           Outdated(t) == IF t.src = src THEN [t EXCEPT !.current = FALSE] ELSE t
           New(j) == IF ~Polled(j) /\ tx[j].src = src THEN NoTx
                     ELSE IF j = i THEN [tx[i] EXCEPT !.state = state, !.current = FALSE]
                     ELSE Outdated(tx[j])
<1>1. tx \in [Slots -> Transactions] /\ proc \in [Processes -> ProcessStates]
  BY DEF Waiting, AgentTypeOK
<1>2. src \in Processes
  BY <1>1 DEF Transactions
<1>3. tx' = [j \in Slots |-> New(j)]
  BY DEF Settles
<1>4. proc' = [proc EXCEPT ![src].next = Outdated(@)]
  BY DEF Settles
<1>5. \A t \in Transactions :
        Outdated(t) \in Transactions
        /\ (Outdated(t) = t \/ Outdated(t) = [t EXCEPT !.current = FALSE])
  BY DEF Transactions
<1>6. ASSUME NEW j \in Slots
      PROVE  /\ New(j) \in Transactions
             /\ New(j) = NoTx \/ New(j) = tx[j] \/ New(j) = [tx[j] EXCEPT !.current = FALSE]
                \/ New(j) = [tx[j] EXCEPT !.state = state, !.current = FALSE]
             /\ Polled(j) => \/ New(j) = tx[j] \/ New(j) = [tx[j] EXCEPT !.current = FALSE]
                             \/ New(j) = [tx[j] EXCEPT !.state = state, !.current = FALSE]
  <2>1. tx[j] \in Transactions
    BY <1>1
  <2>2. [tx[j] EXCEPT !.state = state, !.current = FALSE] \in Transactions
    BY <2>1 DEF Transactions
  <2> HIDE DEF Outdated
  <2> QED  BY <1>5, <2>1, <2>2, NoTxType
<1>7. \A j \in Slots : tx'[j] = New(j)
  BY <1>3
<1>8. proc[src].next \in Transactions
  BY <1>1, <1>2 DEF ProcessStates
<1>9. Outdated(proc[src].next) \in Transactions
      /\ (Outdated(proc[src].next) = proc[src].next
          \/ Outdated(proc[src].next) = [proc[src].next EXCEPT !.current = FALSE])
  BY <1>5, <1>8
<1> HIDE DEF New
<1>10. proc' \in [Processes -> ProcessStates]
  <2> HIDE DEF Outdated
  <2> QED  BY <1>1, <1>2, <1>4, <1>9 DEF ProcessStates
<1>11. ASSUME NEW q \in Processes
       PROVE  \/ proc'[q] = proc[q]
              \/ proc'[q] = [proc[q] EXCEPT !.next = [@ EXCEPT !.current = FALSE]]
  <2> HIDE DEF src, Outdated
  <2>1. CASE q # src
    BY <1>1, <1>4, <2>1
  <2>2. CASE q = src
    <3>1. proc'[q] = [proc[q] EXCEPT !.next = Outdated(proc[src].next)]
      BY <1>1, <1>2, <1>4, <2>2
    <3>2. proc[q] \in ProcessStates
      BY <1>1
    <3>3. CASE Outdated(proc[src].next) = proc[src].next
      <4>1. [proc[q] EXCEPT !.next = proc[q].next] = proc[q]
        BY <3>2 DEF ProcessStates
      <4> QED  BY <2>2, <3>1, <3>3, <4>1
    <3>4. CASE Outdated(proc[src].next) = [proc[src].next EXCEPT !.current = FALSE]
      BY <2>2, <3>1, <3>2, <3>4 DEF ProcessStates
    <3> QED  BY <1>9, <3>3, <3>4
  <2> QED  BY <2>1, <2>2
<1>12. tx' \in [Slots -> Transactions]
  BY <1>3, <1>6
<1> QED  BY <1>6, <1>7, <1>10, <1>11, <1>12 DEF SlotKept

\* Taking effect takes no time, and registers keys for a time.
LEMMA EffectFrame ==
    ASSUME AgentTypeOK, NEW t \in Transactions, TakesEffect(t)
    PROVE  /\ now' = now
           /\ signerUntil' \in [SubKeys -> Int]
           /\ t.kind # "add_signer" => signerUntil' = signerUntil
           /\ t.kind = "add_signer" => signerUntil' = [signerUntil EXCEPT ![t.key] = t.expires]
<1>1. signerUntil \in [SubKeys -> Int] /\ t.key \in SubKeys /\ t.expires \in Int
  BY DEF AgentTypeOK, Transactions
<1>2. CASE t.kind = "add_signer"
  <2>1. signerUntil' = [signerUntil EXCEPT ![t.key] = t.expires] /\ now' = now
    BY <1>2 DEF TakesEffect
  <2> QED  BY <1>1, <1>2, <2>1
<1>3. CASE t.kind # "add_signer"
  <2>1. now' = now /\ signerUntil' = signerUntil
    BY <1>3 DEF TakesEffect, install, set_allowance, pause, resume, revoke, set_status,
                policy__, wallet
  <2> QED  BY <1>1, <1>3, <2>1
<1> QED  BY <1>2, <1>3

LEMMA SettlesWaiting ==
    ASSUME Waiting, NEW i \in Slots, NEW state \in {"landed", "failed"}, Settles(i, state),
           now' = now, signerUntil' \in [SubKeys -> Int]
    PROVE  Waiting'
<1>1. /\ tx' \in [Slots -> Transactions]
      /\ \A j \in Slots : tx'[j] = NoTx \/ SlotKept(j)
      /\ \A j \in Slots : Polled(j) => SlotKept(j)
      /\ proc' \in [Processes -> ProcessStates]
      /\ \A q \in Processes :
            \/ proc'[q] = proc[q]
            \/ proc'[q] = [proc[q] EXCEPT !.next = [@ EXCEPT !.current = FALSE]]
  BY SettlesFrame
<1>2. tx \in [Slots -> Transactions] /\ proc \in [Processes -> ProcessStates] /\ now \in Nat
  BY DEF Waiting, AgentTypeOK
<1>3. ASSUME NEW j \in Slots, SlotKept(j)
      PROVE  /\ tx'[j].kind = tx[j].kind /\ tx'[j].src = tx[j].src /\ tx'[j].key = tx[j].key
             /\ tx'[j].until = tx[j].until /\ tx'[j].report = tx[j].report
  <2>1. tx[j] \in Transactions
    BY <1>2
  <2>2. CASE tx'[j] = tx[j]
    BY <2>2
  <2>3. CASE tx'[j] = [tx[j] EXCEPT !.current = FALSE]
    BY <2>1, <2>3 DEF Transactions
  <2>4. ASSUME NEW s \in {"landed", "failed"},
               tx'[j] = [tx[j] EXCEPT !.state = s, !.current = FALSE]
        PROVE  /\ tx'[j].kind = tx[j].kind /\ tx'[j].src = tx[j].src /\ tx'[j].key = tx[j].key
               /\ tx'[j].until = tx[j].until /\ tx'[j].report = tx[j].report
    BY <2>1, <2>4 DEF Transactions
  <2> QED  BY <1>3, <2>2, <2>3, <2>4 DEF SlotKept
<1>4. TxInv'
  BY <1>1, <1>2, <1>3, KeptTxInv DEF TxInv, InTime
<1>5. ASSUME NEW q \in Processes
      PROVE  ProcessInv(q)'
  <2>1. ProcessInv(q) /\ proc[q] \in ProcessStates /\ proc[q].next \in Transactions
    BY <1>2 DEF Waiting, ProcessStates
  <2>2. /\ proc'[q].pc = proc[q].pc /\ proc'[q].todo = proc[q].todo
        /\ proc'[q].key = proc[q].key /\ proc'[q].slot = proc[q].slot
        /\ proc'[q].deadline = proc[q].deadline /\ proc'[q].granted = proc[q].granted
        /\ proc'[q].next.kind = proc[q].next.kind /\ proc'[q].next.src = proc[q].next.src
        /\ proc'[q].next.key = proc[q].next.key /\ proc'[q].next.report = proc[q].next.report
        /\ proc'[q].next.until = proc[q].next.until
    <3>1. CASE proc'[q] = proc[q]
      BY <3>1
    <3>2. CASE proc'[q] = [proc[q] EXCEPT !.next = [@ EXCEPT !.current = FALSE]]
      <4>1. proc'[q] = [proc[q] EXCEPT !.next = [proc[q].next EXCEPT !.current = FALSE]]
        BY <3>2
      <4> QED  BY <2>1, <4>1 DEF ProcessStates, Transactions
    <3> QED  BY <1>1, <3>1, <3>2
  <2>3. proc[q].pc = "poll" => proc[q].slot \in Slots /\ SlotKept(proc[q].slot)
    BY <1>1, <2>1 DEF ProcessInv, Polled
  <2> QED  BY <1>3, <2>1, <2>2, <2>3 DEF ProcessInv, Step, InTime
<1> QED  BY <1>1, <1>2, <1>4, <1>5 DEF Waiting, AgentTypeOK

LEMMA LandsWaiting ==
    ASSUME Waiting, NEW i \in Slots, Lands(i) \/ FailsOnChain(i)
    PROVE  Waiting'
<1>1. tx[i] \in Transactions /\ AgentTypeOK
  BY DEF Waiting, AgentTypeOK
<1>2. CASE Lands(i)
  BY <1>1, <1>2, EffectFrame, SettlesWaiting DEF Lands
<1>3. CASE FailsOnChain(i)
  BY <1>1, <1>3, SettlesWaiting DEF FailsOnChain, wallet, AgentTypeOK
<1> QED  BY <1>2, <1>3

LEMMA LedgerClosesWaiting ==
    ASSUME Waiting, LedgerCloses
    PROVE  Waiting'
<1>1. /\ now \in Nat /\ now' = now + 1 /\ signerUntil' = signerUntil /\ proc' = proc
      /\ tx' = [j \in Slots |-> IF Polled(j) \/ tx[j].until > now THEN tx[j] ELSE NoTx]
  BY DEF LedgerCloses, Tick, wallet, Waiting, AgentTypeOK
<1>2. \A j \in Slots : tx'[j] = tx[j] \/ tx'[j] = NoTx
  BY <1>1
<1>3. tx' \in [Slots -> Transactions] /\ TxInv'
  <2>1. now' \in Nat /\ now <= now'
    BY <1>1
  <2>2. TxInv'
    BY <1>2, <2>1, KeptTxInv DEF TxInv, InTime
  <2> QED  BY <1>1, <2>2, NoTxType DEF Waiting, AgentTypeOK
<1>4. ASSUME NEW q \in Processes
      PROVE  ProcessInv(q)'
  <2>1. proc[q].pc = "poll" => proc[q].slot \in Slots /\ Polled(proc[q].slot)
    BY DEF Waiting, ProcessInv, Polled
  <2>2. Kept(q)
    BY <1>1, <2>1 DEF Kept
  <2> QED  BY <1>1, <2>2, KeptInv
<1> QED  BY <1>1, <1>3, <1>4 DEF Waiting, AgentTypeOK

LEMMA NextWaiting == Waiting /\ [AgentNext]_agentVars => Waiting'
<1> SUFFICES ASSUME Waiting, [AgentNext]_agentVars PROVE Waiting'
  OBVIOUS
<1>1. ASSUME NEW command \in OwnerCommands, NEW k \in SubKeys, OwnerRuns(command, k)
      PROVE  Waiting'
  BY <1>1, OwnerRunsWaiting
<1>2. ASSUME NEW k \in SubKeys, NEW amount \in Amounts, payMerchant(k, amount)
      PROVE  Waiting'
  BY <1>2, payMerchantWaiting
<1>3. ASSUME NEW p \in Processes, ProcessStep(p)
      PROVE  Waiting'
  <2>1. CASE AlreadyDone(p)
    BY <2>1, AlreadyDoneWaiting
  <2>2. CASE Build(p)
    BY <2>2, BuildWaiting
  <2>3. CASE BuildThrows(p)
    BY <2>3, ThrowsWaiting DEF BuildThrows, wallet
  <2>4. CASE Send(p)
    BY <2>4, SendWaiting
  <2>5. CASE SendFails(p)
    BY <2>5, ThrowsWaiting DEF SendFails, wallet
  <2>6. CASE PollSucceeds(p)
    BY <2>6, PollSucceedsWaiting
  <2>7. CASE PollFails(p)
    BY <2>7, PollFailsWaiting
  <2>8. CASE Dies(p)
    BY <2>8, DiesWaiting
  <2> QED  BY <1>3, <2>1, <2>2, <2>3, <2>4, <2>5, <2>6, <2>7, <2>8 DEF ProcessStep
<1>4. ASSUME NEW i \in Slots, Lands(i) \/ FailsOnChain(i)
      PROVE  Waiting'
  BY <1>4, LandsWaiting
<1>5. CASE LedgerCloses
  BY <1>5, LedgerClosesWaiting
<1>6. CASE UNCHANGED agentVars
  <2>1. UNCHANGED <<now, signerUntil, tx, proc>>
    BY <1>6 DEF agentVars, wallet
  <2> QED  BY <2>1 DEF Waiting, AgentTypeOK, ProcessInv, Step, TxInv, InTime
<1> QED  BY <1>1, <1>2, <1>3, <1>4, <1>5, <1>6 DEF AgentNext

LEMMA InitWaiting == AgentInit => Waiting
<1> SUFFICES ASSUME AgentInit PROVE Waiting
  OBVIOUS
<1>1. AgentTypeOK
  BY AgentInitType
<1>2. \A p \in Processes : proc[p] = Idle
  BY DEF AgentInit
<1>3. \A i \in Slots : tx[i] = NoTx
  BY DEF AgentInit
<1>4. TxInv
  BY <1>1, <1>3, WindowType DEF TxInv, InTime, NoTx, AgentTypeOK
<1> QED  BY <1>1, <1>2, <1>4 DEF Waiting, ProcessInv, Idle

LEMMA AlwaysWaiting == AgentSpec => []Waiting
BY InitWaiting, NextWaiting, PTL DEF AgentSpec

\* Every reachable state of processes and transactions is well typed.
THEOREM AgentTypeCorrect == AgentSpec => []AgentTypeOK
<1>1. Waiting => AgentTypeOK
  BY DEF Waiting
<1> QED  BY <1>1, AlwaysWaiting, PTL

\* Whatever the windows, the number of transactions outstanding and the commands
\* before it: a transaction whose final status a command reported as a failure lands no
\* more (fund's excepted), and one whose command failed without knowing its status lands
\* no later than one window after the report.
THEOREM FailureIsFinalHolds == AgentSpec => []FailureIsFinal
<1>1. Waiting => FailureIsFinal
  BY DEF Waiting, TxInv, InTime, FailureIsFinal
<1> QED  BY <1>1, AlwaysWaiting, PTL

--------------------------------------------------------------------------------
(* The contract under it *)

\* Every step of owner, agent and network is a step of the contract, or leaves it.
LEMMA StepOfContract == Waiting /\ [AgentNext]_agentVars => [Next]_vars
<1> SUFFICES ASSUME Waiting, [AgentNext]_agentVars PROVE [Next]_vars
  OBVIOUS
<1>1. CASE UNCHANGED <<now, contract>>
  BY <1>1 DEF vars, contract
<1>2. ASSUME NEW i \in Slots, Lands(i)
      PROVE  [Next]_vars
  <2> DEFINE t == tx[i]
  <2>1. TakesEffect(t)
    BY <1>2 DEF Lands
  <2>2. t.key \in SubKeys /\ t.amount \in Amounts \cup {0}
    BY DEF Waiting, AgentTypeOK, Transactions
  <2>3. Wallet \in Wallets /\ Merchant \in Merchants /\ MANDATE_SECONDS \in Mandates
    BY AgentSpendAssumption
  <2> HIDE DEF t
  <2>4. CASE t.kind \in {"deploy", "fund", "add_signer"}
    BY <2>1, <2>4 DEF TakesEffect, vars, contract
  <2>5. CASE t.kind = "install"
    <3>1. install(Wallet)
      BY <2>1, <2>5 DEF TakesEffect
    <3> QED  BY <2>3, <3>1 DEF Next
  <2>6. CASE t.kind = "set_allowance"
    <3>1. PICK cap \in Caps : set_allowance(Wallet, Merchant, t.key, cap, cap, MANDATE_SECONDS)
      BY <2>1, <2>6 DEF TakesEffect
    <3> QED  BY <2>2, <2>3, <3>1 DEF Next
  <2>7. CASE t.kind \in {"pause", "resume", "revoke"}
    <3>1. pause(Wallet, Merchant) \/ resume(Wallet, Merchant) \/ revoke(Wallet, Merchant)
      BY <2>1, <2>7 DEF TakesEffect
    <3> QED  BY <2>3, <3>1 DEF Next
  <2>8. CASE t.kind = "pay"
    <3>1. policy__(Wallet, t.key, Merchant, t.amount)
      BY <2>1, <2>8 DEF TakesEffect
    <3>2. t.amount \in Amounts
      BY <2>2, <3>1 DEF policy__
    <3> QED  BY <2>2, <2>3, <3>1, <3>2 DEF Next
  <2> QED  BY <2>1, <2>4, <2>5, <2>6, <2>7, <2>8 DEF TakesEffect
<1>3. CASE LedgerCloses
  BY <1>3 DEF LedgerCloses, Next
<1>4. ASSUME NEW p \in Processes, ProcessStep(p)
      PROVE  UNCHANGED <<now, contract>>
  BY <1>4 DEF ProcessStep, AlreadyDone, Build, BuildThrows, Send, SendFails, PollSucceeds,
              PollFails, Dies
<1>5. ASSUME NEW command, NEW k, OwnerRuns(command, k) \/ payMerchant(k, command)
      PROVE  UNCHANGED <<now, contract>>
  BY <1>5 DEF OwnerRuns, payMerchant
<1>6. ASSUME NEW i \in Slots, FailsOnChain(i)
      PROVE  UNCHANGED <<now, contract>>
  BY <1>6 DEF FailsOnChain
<1>7. CASE UNCHANGED agentVars
  BY <1>1, <1>7 DEF agentVars
<1> QED  BY <1>1, <1>2, <1>3, <1>4, <1>5, <1>6, <1>7 DEF AgentNext

\* Owner and agent drive the contract as MerchantSpendPolicy describes it: whatever
\* holds of the contract holds under them.
THEOREM AgentObeysContract == AgentSpec => Spec
<1>1. AgentInit => Init
  BY DEF AgentInit
<1> QED  BY <1>1, AlwaysWaiting, StepOfContract, PTL DEF AgentSpec, Spec

\* However commands are retried, answered late or abandoned, the agent's payments of
\* any trailing day stay within the cap.
THEOREM AgentWithinCap == AgentSpec => []CapNeverExceeded
BY AgentObeysContract, CapIsKept, PTL

--------------------------------------------------------------------------------
(* A setup that reported success leaves the agent a key that works for the     *)
(* whole mandate, whatever earlier commands left behind.  Stages says what     *)
(* each step of setup has achieved, and that no earlier transaction of the     *)
(* owner can undo it: the one that landed took the sequence number of all.     *)

Pair == <<Wallet, Merchant>>
owner == proc["owner"]

\* The policy lets k pay, for no longer than a mandate from now.
BoundTo(k) ==
    /\ Wallet \in installed /\ Pair \in DOMAIN allowance
    /\ allowance[Pair].signer = k /\ allowance[Pair].status = "Active"
    /\ allowance[Pair].expires_at <= now + MANDATE_SECONDS

Outlasts(until) == allowance[Pair].expires_at <= until

\* t registers k for at least as long as that.
Registers(t, k) == t.kind = "add_signer" /\ t.key = k /\ Outlasts(t.expires)

Landed == owner.pc = "poll" /\ tx[owner.slot].state = "landed"

OwnerCurrent(j) == tx[j].src = "owner" /\ tx[j].current
NoneCurrent == \A j \in Slots : ~OwnerCurrent(j)

\* What the chain owes the owner at each step of a setup.
InstallStage ==
    owner.todo # << >> /\ Step("owner") = "install" /\ Landed => Wallet \in installed

AllowanceStage ==
    owner.todo = <<"set_allowance", "add_signer">> =>
        /\ Wallet \in installed
        /\ Landed => BoundTo(owner.key) /\ NoneCurrent

SignerStage ==
    owner.todo = <<"add_signer">> =>
        /\ BoundTo(owner.key)
        /\ \A j \in Slots : OwnerCurrent(j) => Registers(tx[j], owner.key)
        /\ owner.pc = "send" => Registers(owner.next, owner.key)
        /\ Landed => Outlasts(signerUntil[owner.key]) /\ NoneCurrent

GrantedStage ==
    owner.granted => BoundTo(owner.key) /\ Outlasts(signerUntil[owner.key]) /\ NoneCurrent

Stages == InstallStage /\ AllowanceStage /\ SignerStage /\ GrantedStage

\* The policy is a signer only where it was installed; an agent only pays.
Roles ==
    /\ Wallet \in policySigner => Wallet \in installed
    /\ proc["agent"].todo \in {<< >>, <<"pay">>}
    /\ \A j \in Slots : tx[j].src = "agent" => tx[j].kind = "pay"

GrantInv == Roles /\ Stages

--------------------------------------------------------------------------------
(* Steps that leave the grant alone *)

\* What a step may do to the chain without disturbing a grant.
ChainKept ==
    /\ now' \in Nat /\ now <= now' /\ signerUntil' = signerUntil
    /\ Wallet \in installed => Wallet \in installed'
    /\ Pair \in DOMAIN allowance =>
         /\ Pair \in DOMAIN allowance'
         /\ allowance'[Pair].signer = allowance[Pair].signer
         /\ allowance'[Pair].status = allowance[Pair].status
         /\ allowance'[Pair].expires_at = allowance[Pair].expires_at

\* What it may do to a transaction outstanding.
Aged(j) ==
    /\ tx'[j].kind = tx[j].kind /\ tx'[j].src = tx[j].src /\ tx'[j].key = tx[j].key
    /\ tx'[j].expires = tx[j].expires
    /\ tx'[j].current => tx[j].current

LEMMA GrantTypes ==
    ASSUME Waiting, TypeOK
    PROVE  /\ now \in Nat /\ owner \in ProcessStates /\ owner.next \in Transactions
           /\ \A j \in Slots : tx[j] \in Transactions
           /\ Pair \in DOMAIN allowance => allowance[Pair].expires_at \in Nat
           /\ owner.pc = "poll" => owner.slot \in Slots /\ Polled(owner.slot)
           /\ "owner" \in Processes /\ "agent" \in Processes /\ MANDATE_SECONDS \in Nat
<1>1. "owner" \in Processes /\ "agent" \in Processes
  BY DEF Processes
<1>2. now \in Nat /\ owner \in ProcessStates /\ \A j \in Slots : tx[j] \in Transactions
  BY <1>1 DEF Waiting, AgentTypeOK, owner
<1>3. Pair \in DOMAIN allowance => allowance[Pair].expires_at \in Nat
  BY DEF TypeOK, IsAllowance
<1>4. owner.pc = "poll" => owner.slot \in Slots /\ Polled(owner.slot)
  BY <1>1 DEF Waiting, ProcessInv, Polled, owner
<1>5. MANDATE_SECONDS \in Nat
  BY AgentSpendAssumption, PolicyAssumption
<1> QED  BY <1>1, <1>2, <1>3, <1>4, <1>5 DEF ProcessStates

LEMMA BoundKept ==
    ASSUME Waiting, TypeOK, ChainKept, NEW k, BoundTo(k)
    PROVE  BoundTo(k)' /\ allowance'[Pair].expires_at = allowance[Pair].expires_at
BY GrantTypes DEF ChainKept, BoundTo, Pair

LEMMA StagesKept ==
    ASSUME Waiting, TypeOK, Stages, ChainKept,
           owner'.pc = owner.pc, owner'.todo = owner.todo, owner'.key = owner.key,
           owner'.granted = owner.granted,
           owner.pc = "send" => /\ owner'.next.kind = owner.next.kind
                                /\ owner'.next.key = owner.next.key
                                /\ owner'.next.expires = owner.next.expires,
           \A j \in Slots : OwnerCurrent(j)' => Aged(j),
           Landed' => Landed
    PROVE  Stages'
<1> DEFINE k == owner.key
<1>1. \A j \in Slots : OwnerCurrent(j)' => OwnerCurrent(j)
  BY DEF Aged, OwnerCurrent
<1>2. NoneCurrent => NoneCurrent'
  BY <1>1 DEF NoneCurrent
<1>3. InstallStage'
  BY DEF Stages, InstallStage, ChainKept, Step, owner
<1>4. BoundTo(owner.key) => /\ BoundTo(owner.key)'
                            /\ allowance'[Pair].expires_at = allowance[Pair].expires_at
  <2>1. PICK x : x = owner.key
    OBVIOUS
  <2>2. BoundTo(x) => BoundTo(x)' /\ allowance'[Pair].expires_at = allowance[Pair].expires_at
    BY BoundKept
  <2> QED  BY <2>1, <2>2 DEF BoundTo
<1>5. AllowanceStage'
  BY <1>2, <1>4 DEF Stages, AllowanceStage, ChainKept
<1>6. SignerStage'
  <2> SUFFICES ASSUME owner.todo = <<"add_signer">> PROVE SignerStage'
    BY DEF SignerStage
  <2>1. /\ BoundTo(owner.key) /\ \A j \in Slots : OwnerCurrent(j) => Registers(tx[j], owner.key)
        /\ owner.pc = "send" => Registers(owner.next, owner.key)
        /\ Landed => Outlasts(signerUntil[owner.key]) /\ NoneCurrent
    BY DEF Stages, SignerStage
  <2>2. \A j \in Slots : OwnerCurrent(j)' => Registers(tx[j], owner.key)'
    BY <1>1, <1>4, <2>1 DEF Aged, Registers, Outlasts
  <2>3. owner'.pc = "send" => Registers(owner.next, owner.key)'
    BY <1>4, <2>1 DEF Registers, Outlasts
  <2>4. Landed' => Outlasts(signerUntil[owner.key])' /\ NoneCurrent'
    BY <1>2, <1>4, <2>1 DEF Outlasts, ChainKept
  <2> QED  BY <1>4, <2>1, <2>2, <2>3, <2>4 DEF SignerStage
<1>7. GrantedStage'
  BY <1>2, <1>4 DEF Stages, GrantedStage, Outlasts, ChainKept
<1> QED  BY <1>3, <1>5, <1>6, <1>7 DEF Stages

\* A step of the agent alone.
LEMMA BesidesStages ==
    ASSUME Waiting, TypeOK, Stages, UNCHANGED <<now, contract, wallet>>,
           proc'["owner"] = proc["owner"],
           \A j \in Slots : OwnerCurrent(j)' => Aged(j),
           owner.pc = "poll" => tx'[owner.slot].state = tx[owner.slot].state
    PROVE  Stages'
<1>1. ChainKept
  BY GrantTypes DEF ChainKept, contract, wallet
<1>2. Landed' => Landed
  BY DEF Landed, owner
<1> QED  BY <1>1, <1>2, StagesKept DEF owner

\* A step of the owner after which no setup is under way.
LEMMA NoSetupStages ==
    ASSUME ~owner'.granted, owner'.todo # <<"add_signer">>,
           owner'.todo # <<"set_allowance", "add_signer">>, ~Landed'
    PROVE  Stages'
BY DEF Stages, InstallStage, AllowanceStage, SignerStage, GrantedStage

LEMMA ThrowsStages ==
    ASSUME Waiting, Throws("owner")
    PROVE  Stages'
<1>1. owner' = Idle
  BY DEF Throws, owner, Waiting, AgentTypeOK, Processes
<1> QED  BY <1>1, NoSetupStages DEF Idle, Landed

\* Roles are kept by a step that makes no transaction.
LEMMA RolesKept ==
    ASSUME Waiting, TypeOK, Roles, proc'["agent"].todo \in {<< >>, <<"pay">>},
           \A j \in Slots : tx'[j] = NoTx \/ Aged(j),
           Wallet \in policySigner' => Wallet \in installed'
    PROVE  Roles'
BY DEF Roles, Aged, NoTx

LEMMA UntouchedIsAged ==
    ASSUME NEW j \in Slots, tx'[j] = tx[j]
    PROVE  Aged(j)
BY DEF Aged

\* Letting go of a transaction.
LEMMA LeftAges ==
    ASSUME Waiting, TypeOK, NEW p \in Processes, At(p, "poll"), NEW report \in Reports,
           Left(p, report)
    PROVE  /\ \A j \in Slots : tx'[j] = NoTx \/ Aged(j)
           /\ \A j \in Slots \ {proc[p].slot} : tx'[j] = tx[j]
           /\ tx[proc[p].slot].src = p
<1>1. ProcessInv(p) /\ proc[p].slot \in Slots /\ tx[proc[p].slot] \in Transactions
  BY GrantTypes DEF Waiting, ProcessInv, At
<1>2. tx[proc[p].slot].src = p /\ tx \in [Slots -> Transactions]
  BY <1>1 DEF ProcessInv, At, Waiting, AgentTypeOK
<1> DEFINE t == tx[proc[p].slot]
           u == IF CanLand(t) THEN [t EXCEPT !.report = report] ELSE NoTx
<1>3. tx' = [tx EXCEPT ![proc[p].slot] = u]
  BY DEF Left
<1>4. \/ u = NoTx
      \/ /\ u.kind = t.kind /\ u.src = t.src /\ u.key = t.key
         /\ u.expires = t.expires /\ u.current = t.current
  BY <1>1 DEF Transactions
<1> HIDE DEF t, u
<1>5. tx'[proc[p].slot] = u
  BY <1>1, <1>2, <1>3
<1>6. \A j \in Slots \ {proc[p].slot} : tx'[j] = tx[j]
  BY <1>2, <1>3
<1>7. tx'[proc[p].slot] = NoTx \/ Aged(proc[p].slot)
  BY <1>4, <1>5 DEF Aged, t
<1> QED  BY <1>2, <1>6, <1>7 DEF Aged

\* What the owner waits for is no transaction of the agent.
LEMMA OwnersSlot ==
    ASSUME Waiting, owner.pc = "poll"
    PROVE  /\ owner.slot \in Slots /\ tx[owner.slot].src = "owner"
           /\ tx[owner.slot].kind = Step("owner") /\ tx[owner.slot].key = owner.key
BY DEF Waiting, ProcessInv, owner, Processes

\* Sending takes a free slot.
LEMMA SendFrame ==
    ASSUME Waiting, TypeOK, NEW p \in Processes, Send(p)
    PROVE  \E i \in Slots :
              /\ \A j \in Slots \ {i} : tx'[j] = tx[j]
              /\ tx'[i].kind = proc[p].next.kind /\ tx'[i].key = proc[p].next.key
              /\ tx'[i].src = p /\ tx'[i].expires = proc[p].next.expires
              /\ tx'[i].state = "pending"
              /\ owner.pc = "poll" => owner.slot # i
              /\ \/ Throws(p)
                 \/ proc' = [proc EXCEPT ![p].pc = "poll", ![p].slot = i, ![p].next = NoTx,
                                         ![p].deadline = now + PollFor(proc[p].next.kind)]
<1>1. PICK i \in Slots, answered \in BOOLEAN :
        /\ tx[i] = NoTx
        /\ tx' = [tx EXCEPT ![i] = [proc[p].next EXCEPT
                                       !.until = IF @ = 0 THEN now + TX_TIMEOUT_SECONDS ELSE @,
                                       !.state = "pending",
                                       !.report = IF answered THEN "none" ELSE "unknown"]]
        /\ IF answered
           THEN proc' = [proc EXCEPT ![p].pc = "poll", ![p].slot = i, ![p].next = NoTx,
                                     ![p].deadline = now + PollFor(proc[p].next.kind)]
           ELSE Throws(p)
  BY DEF Send
<1> DEFINE n == proc[p].next
           v == IF n.until = 0 THEN now + TX_TIMEOUT_SECONDS ELSE n.until
           w == IF answered THEN "none" ELSE "unknown"
           u == [n EXCEPT !.until = v, !.state = "pending", !.report = w]
<1>2. n \in Transactions /\ n.src = p /\ tx \in [Slots -> Transactions]
  BY DEF Send, At, Waiting, AgentTypeOK, ProcessInv, ProcessStates
<1>3. tx' = [tx EXCEPT ![i] = u]
  <2>1. u = [n EXCEPT !.until = IF @ = 0 THEN now + TX_TIMEOUT_SECONDS ELSE @,
                      !.state = "pending", !.report = w]
    BY <1>2 DEF Transactions
  <2> QED  BY <1>1, <2>1
<1>4. /\ u.kind = n.kind /\ u.key = n.key /\ u.src = p /\ u.expires = n.expires
      /\ u.state = "pending"
  BY <1>2 DEF Transactions
<1>5. owner.pc = "poll" => owner.slot # i
  <2> SUFFICES ASSUME owner.pc = "poll", owner.slot = i PROVE FALSE
    OBVIOUS
  <2>1. owner.todo \in Todos /\ owner.todo # << >>
    BY GrantTypes DEF Waiting, ProcessInv, Processes, owner, ProcessStates
  <2>2. Step("owner") # "none"
    BY <2>1, TailOfTodo DEF Step, owner
  <2>3. Step("owner") = "none"
    BY <1>1, OwnersSlot DEF NoTx
  <2> QED  BY <2>2, <2>3
<1> HIDE DEF v, u
<1>6. tx'[i] = u /\ \A j \in Slots \ {i} : tx'[j] = tx[j]
  BY <1>2, <1>3
<1>7. \/ Throws(p)
      \/ proc' = [proc EXCEPT ![p].pc = "poll", ![p].slot = i, ![p].next = NoTx,
                              ![p].deadline = now + PollFor(proc[p].next.kind)]
  BY <1>1
<1> QED  BY <1>4, <1>5, <1>6, <1>7 DEF n

--------------------------------------------------------------------------------
(* Steps of the agent *)

LEMMA OthersStay ==
    ASSUME Waiting, NEW p \in Processes, ProcessStep(p)
    PROVE  \A q \in Processes \ {p} : proc'[q] = proc[q]
<1>1. CASE AlreadyDone(p) \/ PollSucceeds(p)
  BY <1>1 DEF AlreadyDone, PollSucceeds, NextStep, Waiting, AgentTypeOK
<1>2. CASE Build(p)
  BY <1>2 DEF Build, Waiting, AgentTypeOK
<1>3. CASE Send(p)
  BY <1>3 DEF Send, Throws, Waiting, AgentTypeOK
<1>4. CASE BuildThrows(p) \/ SendFails(p) \/ PollFails(p) \/ Dies(p)
  BY <1>4 DEF BuildThrows, SendFails, PollFails, Dies, Throws, Waiting, AgentTypeOK
<1> QED  BY <1>1, <1>2, <1>3, <1>4 DEF ProcessStep

LEMMA AgentStages ==
    ASSUME Waiting, TypeOK, GrantInv, ProcessStep("agent")
    PROVE  Stages'
<1>1. UNCHANGED <<now, contract, wallet>>
  BY DEF ProcessStep, AlreadyDone, Build, BuildThrows, Send, SendFails, PollSucceeds,
         PollFails, Dies
<1>2. proc'["owner"] = proc["owner"]
  BY OthersStay, GrantTypes DEF Processes
<1>3. CASE tx' = tx
  BY <1>1, <1>2, <1>3, UntouchedIsAged, BesidesStages DEF GrantInv
<1>4. CASE Send("agent")
  <2>1. PICK i \in Slots : /\ \A j \in Slots \ {i} : tx'[j] = tx[j]
                           /\ tx'[i].src = "agent"
                           /\ owner.pc = "poll" => owner.slot # i
    <3>1. "agent" \in Processes
      BY DEF Processes
    <3> QED  BY ZenonT(30), <1>4, <3>1, SendFrame
  <2>2. \A j \in Slots : OwnerCurrent(j)' => Aged(j)
    BY <2>1 DEF OwnerCurrent, Aged
  <2> QED  BY <1>1, <1>2, <2>1, <2>2, GrantTypes, BesidesStages DEF GrantInv
<1>5. ASSUME NEW report \in Reports, Left("agent", report), At("agent", "poll")
      PROVE  Stages'
  <2>1. /\ \A j \in Slots : tx'[j] = NoTx \/ Aged(j)
        /\ \A j \in Slots \ {proc["agent"].slot} : tx'[j] = tx[j]
        /\ tx[proc["agent"].slot].src = "agent"
    BY <1>5, GrantTypes, LeftAges
  <2>2. \A j \in Slots : OwnerCurrent(j)' => Aged(j)
    BY <2>1 DEF OwnerCurrent, NoTx
  <2>3. owner.pc = "poll" => tx'[owner.slot].state = tx[owner.slot].state
    BY <2>1, OwnersSlot
  <2> QED  BY <1>1, <1>2, <2>2, <2>3, BesidesStages DEF GrantInv
<1>6. CASE AlreadyDone("agent") \/ Build("agent") \/ BuildThrows("agent") \/ SendFails("agent")
  BY <1>3, <1>6 DEF AlreadyDone, Build, BuildThrows, SendFails
<1>7. CASE PollSucceeds("agent") \/ PollFails("agent")
  BY <1>5, <1>7 DEF PollSucceeds, PollFails, Reports
<1>8. CASE Dies("agent")
  <2>1. tx' = tx \/ (At("agent", "poll") /\ \E report \in Reports : Left("agent", report))
    BY <1>8 DEF Dies, Reports
  <2> QED  BY <1>3, <1>5, <2>1
<1> QED  BY <1>4, <1>6, <1>7, <1>8 DEF ProcessStep

--------------------------------------------------------------------------------
(* Steps of the owner *)

LEMMA OwnerRunsStages ==
    ASSUME Waiting, NEW command \in OwnerCommands, NEW k \in SubKeys, OwnerRuns(command, k)
    PROVE  Stages'
<1>1. /\ owner'.todo = command /\ owner'.granted = FALSE /\ owner'.pc = "build"
  BY DEF OwnerRuns, owner, Waiting, AgentTypeOK, Processes, Idle
<1>2. command # <<"add_signer">> /\ command # <<"set_allowance", "add_signer">>
  BY DEF OwnerCommands, setup
<1> QED  BY <1>1, <1>2, NoSetupStages DEF Landed

\* Going on to the next step of a command.
LEMMA NextStepStages ==
    ASSUME Waiting, TypeOK, Stages, NextStep("owner"), owner.todo # << >>,
           UNCHANGED <<now, contract, wallet>>,
           \A j \in Slots : tx'[j] = NoTx \/ Aged(j),
           Step("owner") = "install" => Wallet \in installed,
           Step("owner") # "install" /\ Step("owner") # "deploy" => Landed
    PROVE  Stages'
<1> DEFINE todo == Tail(owner.todo)
           s == [Idle EXCEPT !.pc = IF todo = << >> THEN "idle" ELSE "build",
                             !.todo = todo, !.key = owner.key,
                             !.granted = todo = << >> /\ Step("owner") \in Granting]
<1>1. owner' = s
  BY DEF NextStep, owner, Waiting, AgentTypeOK, Processes
<1>2. /\ s.pc \in {"idle", "build"} /\ s.todo = todo /\ s.key = owner.key
      /\ s.granted => todo = << >> /\ Step("owner") \in Granting
  BY DEF Idle
<1> HIDE DEF s
<1>3. ~Landed'
  BY <1>1, <1>2 DEF Landed
<1>4. owner.todo \in Todos /\ Step("owner") = Head(owner.todo)
  BY GrantTypes DEF ProcessStates, Step, owner
<1>5. NoneCurrent => NoneCurrent'
  BY DEF NoneCurrent, OwnerCurrent, Aged, NoTx
<1>6. \A x : BoundTo(x) => BoundTo(x)'
  BY DEF BoundTo, contract
<1>7. \A x : Outlasts(signerUntil[x]) => Outlasts(signerUntil[x])'
  BY DEF Outlasts, contract, wallet
<1>8. CASE owner.todo = <<"add_signer">>
  <2>1. todo = << >> /\ Step("owner") = "add_signer"
    BY <1>4, <1>8
  <2>2. BoundTo(owner.key) /\ Outlasts(signerUntil[owner.key]) /\ NoneCurrent
    BY <1>8, <2>1 DEF Stages, SignerStage
  <2>3. BoundTo(owner.key)' /\ Outlasts(signerUntil[owner.key])' /\ NoneCurrent'
    BY <1>1, <1>2, <1>5, <2>2 DEF BoundTo, Outlasts, contract, wallet
  <2> QED  BY <1>1, <1>2, <1>3, <2>1, <2>3
              DEF Stages, InstallStage, AllowanceStage, SignerStage, GrantedStage
<1>9. CASE owner.todo = <<"set_allowance", "add_signer">>
  <2>1. todo = <<"add_signer">> /\ Step("owner") = "set_allowance"
    BY <1>4, <1>9
  <2>2. BoundTo(owner.key) /\ NoneCurrent
    BY <1>9, <2>1 DEF Stages, AllowanceStage
  <2>3. BoundTo(owner.key)' /\ NoneCurrent'
    BY <1>1, <1>2, <1>5, <2>2 DEF BoundTo, contract
  <2>4. ~s.granted /\ s.pc # "send"
    BY <1>2, <2>1
  <2> QED  BY <1>1, <1>2, <1>3, <2>1, <2>3, <2>4
              DEF Stages, InstallStage, AllowanceStage, SignerStage, GrantedStage, NoneCurrent
<1>10. CASE owner.todo = <<"install", "set_allowance", "add_signer">>
  <2>1. todo = <<"set_allowance", "add_signer">> /\ Step("owner") = "install"
    BY <1>4, <1>10
  <2>2. (Wallet \in installed)'
    BY <2>1 DEF contract
  <2>3. ~s.granted
    BY <1>2, <2>1
  <2> QED  BY <1>1, <1>2, <1>3, <2>1, <2>2, <2>3
              DEF Stages, InstallStage, AllowanceStage, SignerStage, GrantedStage
<1>11. CASE owner.todo = setup
  <2>1. todo = <<"install", "set_allowance", "add_signer">>
    BY <1>11 DEF setup
  <2>2. ~s.granted
    BY <1>2, <2>1
  <2> QED  BY <1>1, <1>2, <1>3, <2>1, <2>2, NoSetupStages
<1>12. ASSUME NEW c \in {"deploy", "install", "pause", "resume", "revoke", "fund", "pay"},
              owner.todo = <<c>>
       PROVE  Stages'
  <2>1. todo = << >> /\ Step("owner") = c
    BY <1>4, <1>12
  <2>2. ~s.granted
    BY <1>2, <2>1 DEF Granting
  <2> QED  BY <1>1, <1>2, <1>3, <2>1, <2>2, NoSetupStages
<1> QED  BY <1>4, <1>8, <1>9, <1>10, <1>11, <1>12 DEF Todos

LEMMA BuildStages ==
    ASSUME Waiting, TypeOK, Stages, Build("owner")
    PROVE  Stages'
<1> DEFINE t == [NoTx EXCEPT !.kind = Step("owner"), !.key = owner.key,
                   !.amount = owner.amount, !.src = "owner", !.current = TRUE,
                   !.expires = now + MANDATE_SECONDS, !.until = OwnWindow("owner")]
           s == [owner EXCEPT !.pc = "send", !.next = t]
<1>1. owner' = s
  BY GrantTypes DEF Build, owner, Waiting, AgentTypeOK
<1>2. t.kind = Step("owner") /\ t.key = owner.key /\ t.expires = now + MANDATE_SECONDS
  BY DEF NoTx
<1> HIDE DEF t
<1>3. /\ s.pc = "send" /\ s.todo = owner.todo /\ s.key = owner.key
      /\ s.granted = owner.granted /\ s.next = t
  BY GrantTypes DEF ProcessStates
<1> HIDE DEF s
<1>4. ~owner.granted
  BY GrantTypes DEF Build, At, owner, Waiting, ProcessInv
<1>5. UNCHANGED <<now, contract, wallet, tx>>
  BY DEF Build
<1>6. ~Landed'
  BY <1>1, <1>3 DEF Landed
<1>7. CASE owner.todo = <<"add_signer">>
  <2>1. /\ BoundTo(owner.key)
        /\ \A j \in Slots : OwnerCurrent(j) => Registers(tx[j], owner.key)
    BY <1>7 DEF Stages, SignerStage
  <2>2. Step("owner") = "add_signer"
    BY <1>7 DEF Step, owner
  <2>3. BoundTo(owner.key)' /\ Registers(owner.next, owner.key)'
    BY <1>1, <1>2, <1>3, <1>5, <2>1, <2>2 DEF BoundTo, Registers, Outlasts, contract
  <2>4. \A j \in Slots : OwnerCurrent(j)' => Registers(tx[j], owner.key)'
    BY <1>1, <1>3, <1>5, <2>1 DEF OwnerCurrent, Registers, Outlasts, contract
  <2> QED  BY <1>1, <1>3, <1>4, <1>6, <1>7, <2>3, <2>4
              DEF Stages, InstallStage, AllowanceStage, SignerStage, GrantedStage
<1>8. CASE owner.todo # <<"add_signer">>
  BY <1>1, <1>3, <1>4, <1>5, <1>6, <1>8
     DEF Stages, InstallStage, AllowanceStage, SignerStage, GrantedStage, contract
<1> QED  BY <1>7, <1>8

LEMMA SendStages ==
    ASSUME Waiting, TypeOK, Stages, Send("owner")
    PROVE  Stages'
<1>1. PICK i \in Slots :
        /\ \A j \in Slots \ {i} : tx'[j] = tx[j]
        /\ tx'[i].kind = owner.next.kind /\ tx'[i].key = owner.next.key
        /\ tx'[i].expires = owner.next.expires /\ tx'[i].state = "pending"
        /\ \/ Throws("owner")
           \/ proc' = [proc EXCEPT !["owner"].pc = "poll", !["owner"].slot = i,
                                   !["owner"].next = NoTx,
                                   !["owner"].deadline = now + PollFor(owner.next.kind)]
  BY ZenonT(30), SendFrame, GrantTypes DEF owner
<1>2. CASE Throws("owner")
  BY <1>2, ThrowsStages
<1>3. CASE ~Throws("owner")
  <2> DEFINE s == [owner EXCEPT !.pc = "poll", !.slot = i, !.next = NoTx,
                                !.deadline = now + PollFor(owner.next.kind)]
  <2>1. owner' = s
    BY <1>1, <1>3, GrantTypes DEF owner, Waiting, AgentTypeOK
  <2>2. /\ s.pc = "poll" /\ s.slot = i /\ s.todo = owner.todo /\ s.key = owner.key
        /\ s.granted = owner.granted
    BY GrantTypes DEF ProcessStates
  <2> HIDE DEF s
  <2>3. ~owner.granted /\ owner.pc = "send"
    BY GrantTypes DEF Send, At, owner, Waiting, ProcessInv
  <2>4. UNCHANGED <<now, contract, wallet>>
    BY DEF Send
  <2>5. ~Landed'
    BY <1>1, <2>1, <2>2 DEF Landed
  <2>6. CASE owner.todo = <<"add_signer">>
    <3>1. /\ BoundTo(owner.key) /\ Registers(owner.next, owner.key)
          /\ \A j \in Slots : OwnerCurrent(j) => Registers(tx[j], owner.key)
      BY <2>3, <2>6 DEF Stages, SignerStage
    <3>2. BoundTo(owner.key)'
      BY <2>1, <2>2, <2>4, <3>1 DEF BoundTo, contract
    <3>3. \A j \in Slots : OwnerCurrent(j)' => Registers(tx[j], owner.key)'
      BY <1>1, <2>1, <2>2, <2>4, <3>1 DEF OwnerCurrent, Registers, Outlasts, contract
    <3> QED  BY <2>1, <2>2, <2>3, <2>5, <2>6, <3>2, <3>3
                DEF Stages, InstallStage, AllowanceStage, SignerStage, GrantedStage
  <2>7. CASE owner.todo # <<"add_signer">>
    BY <2>1, <2>2, <2>3, <2>4, <2>5, <2>7
       DEF Stages, InstallStage, AllowanceStage, SignerStage, GrantedStage, contract
  <2> QED  BY <2>6, <2>7
<1> QED  BY <1>2, <1>3

LEMMA OwnerStages ==
    ASSUME Waiting, TypeOK, GrantInv, ProcessStep("owner")
    PROVE  Stages'
<1>1. CASE AlreadyDone("owner")
  <2>1. owner.todo # << >>
    BY <1>1, GrantTypes DEF AlreadyDone, At, owner, Waiting, ProcessInv
  <2>2. \A j \in Slots : Aged(j)
    BY <1>1, UntouchedIsAged DEF AlreadyDone
  <2>3. Step("owner") = "deploy" \/ (Step("owner") = "install" /\ Wallet \in installed)
    BY <1>1 DEF AlreadyDone, GrantInv, Roles
  <2> QED  BY <1>1, <2>1, <2>2, <2>3, NextStepStages DEF AlreadyDone, GrantInv
<1>2. CASE Build("owner")
  BY <1>2, BuildStages DEF GrantInv
<1>3. CASE Send("owner")
  BY <1>3, SendStages DEF GrantInv
<1>4. CASE BuildThrows("owner") \/ SendFails("owner") \/ PollFails("owner") \/ Dies("owner")
  BY <1>4, ThrowsStages DEF BuildThrows, SendFails, PollFails, Dies
<1>5. CASE PollSucceeds("owner")
  <2>1. owner.todo # << >> /\ Landed
    BY <1>5, GrantTypes DEF PollSucceeds, At, owner, Landed, Waiting, ProcessInv
  <2>2. \A j \in Slots : tx'[j] = NoTx \/ Aged(j)
    BY <1>5, GrantTypes, LeftAges DEF PollSucceeds, Reports
  <2>3. Step("owner") = "install" => Wallet \in installed
    BY <2>1 DEF GrantInv, Stages, InstallStage
  <2> QED  BY <1>5, <2>1, <2>2, <2>3, NextStepStages DEF PollSucceeds, GrantInv
<1> QED  BY <1>1, <1>2, <1>3, <1>4, <1>5 DEF ProcessStep

--------------------------------------------------------------------------------
(* Steps of the chain *)

\* A transaction that settles takes the sequence number of all its account's.
LEMMA SettlesAges ==
    ASSUME Waiting, TypeOK, NEW i \in Slots, NEW state \in {"landed", "failed"},
           Settles(i, state)
    PROVE  /\ OwnerCurrent(i) \/ tx[i].src = "agent"
           /\ \A j \in Slots : tx'[j] = NoTx \/ Aged(j)
           /\ \A j \in Slots : tx'[j].src = tx[i].src => ~tx'[j].current
           /\ \A j \in Slots : Polled(j) /\ j # i => tx'[j].state = tx[j].state
           /\ Polled(i) => tx'[i].state = state
           /\ \A q \in Processes :
                 /\ proc'[q].pc = proc[q].pc /\ proc'[q].todo = proc[q].todo
                 /\ proc'[q].key = proc[q].key /\ proc'[q].slot = proc[q].slot
                 /\ proc'[q].granted = proc[q].granted
                 /\ proc'[q].next.kind = proc[q].next.kind
                 /\ proc'[q].next.key = proc[q].next.key
                 /\ proc'[q].next.expires = proc[q].next.expires
<1> DEFINE src == tx[i].src
           Outdated(t) == IF t.src = src THEN [t EXCEPT !.current = FALSE] ELSE t
<1>1. \A t \in Transactions :
        /\ Outdated(t).kind = t.kind /\ Outdated(t).src = t.src /\ Outdated(t).key = t.key
        /\ Outdated(t).expires = t.expires /\ Outdated(t).state = t.state
        /\ Outdated(t).current => t.current
        /\ t.src = src => ~Outdated(t).current
  BY DEF Transactions
<1> DEFINE u == [tx[i] EXCEPT !.state = state, !.current = FALSE]
<1>2. /\ u.kind = tx[i].kind /\ u.src = tx[i].src /\ u.key = tx[i].key
      /\ u.expires = tx[i].expires /\ u.state = state /\ u.current = FALSE
      /\ NoTx.current = FALSE
  BY GrantTypes DEF Transactions, NoTx
<1>3. \A j \in Slots :
        tx'[j] = IF ~Polled(j) /\ tx[j].src = src THEN NoTx
                 ELSE IF j = i THEN u ELSE Outdated(tx[j])
  BY DEF Settles
<1>4. proc' = [proc EXCEPT ![src].next = Outdated(@)]
  BY DEF Settles
<1>5. src \in Processes /\ proc \in [Processes -> ProcessStates] /\ tx[i].current
  BY GrantTypes DEF Transactions, Waiting, AgentTypeOK, Settles, CanLand
<1> HIDE DEF u, Outdated
<1>6. ASSUME NEW j \in Slots
      PROVE  (tx'[j] = NoTx \/ Aged(j)) /\ (tx'[j].src = src => ~tx'[j].current)
  <2>1. CASE tx'[j] = NoTx
    BY <1>2, <2>1
  <2>2. CASE tx'[j] = u /\ j = i
    BY <1>2, <2>2 DEF Aged
  <2>3. CASE tx'[j] = Outdated(tx[j])
    BY <1>1, <2>3, GrantTypes DEF Aged
  <2> QED  BY <1>3, <2>1, <2>2, <2>3
<1>8. \A j \in Slots : Polled(j) /\ j # i => tx'[j].state = tx[j].state
  BY <1>1, <1>3, GrantTypes
<1>9. Polled(i) => tx'[i].state = state
  BY <1>2, <1>3
<1>10. ASSUME NEW q \in Processes
       PROVE  /\ proc'[q].pc = proc[q].pc /\ proc'[q].todo = proc[q].todo
              /\ proc'[q].key = proc[q].key /\ proc'[q].slot = proc[q].slot
              /\ proc'[q].granted = proc[q].granted
              /\ proc'[q].next.kind = proc[q].next.kind
              /\ proc'[q].next.key = proc[q].next.key
              /\ proc'[q].next.expires = proc[q].next.expires
  <2>1. CASE q # src
    BY <1>4, <1>5, <2>1
  <2>2. CASE q = src
    <3>1. proc'[q] = [proc[q] EXCEPT !.next = Outdated(proc[q].next)]
      BY <1>4, <1>5, <2>2
    <3>2. proc[q] \in ProcessStates /\ proc[q].next \in Transactions
      BY <1>5 DEF ProcessStates
    <3> QED  BY <1>1, <3>1, <3>2 DEF ProcessStates
  <2> QED  BY <2>1, <2>2
<1>11. OwnerCurrent(i) \/ tx[i].src = "agent"
  BY <1>5 DEF OwnerCurrent, Processes
<1> QED  BY <1>6, <1>8, <1>9, <1>10, <1>11

\* Taking effect never uninstalls the policy, and a payment keeps the grant.
LEMMA EffectOnGrant ==
    ASSUME Waiting, TypeOK, Roles, NEW t \in Transactions, TakesEffect(t)
    PROVE  /\ Wallet \in installed => Wallet \in installed'
           /\ Wallet \in policySigner' => Wallet \in installed'
           /\ t.kind = "install" => Wallet \in installed'
           /\ t.kind = "pay" => ChainKept
           /\ t.kind = "add_signer" => UNCHANGED <<now, contract>>
<1>1. now \in Nat /\ (Wallet \in policySigner => Wallet \in installed)
  BY GrantTypes DEF Roles
<1>2. CASE t.kind \in {"deploy", "fund", "add_signer"}
  BY <1>1, <1>2 DEF TakesEffect, contract
<1>3. CASE t.kind = "install"
  BY <1>3 DEF TakesEffect, install
<1>4. CASE t.kind = "set_allowance"
  BY <1>1, <1>4 DEF TakesEffect, set_allowance
<1>5. CASE t.kind \in {"pause", "resume", "revoke"}
  BY <1>1, <1>5 DEF TakesEffect, pause, resume, revoke, set_status
<1>6. CASE t.kind = "pay"
  <2>1. policy__(Wallet, t.key, Merchant, t.amount) /\ UNCHANGED signerUntil
    BY <1>6 DEF TakesEffect
  <2> DEFINE log == record_spend(Pruned(allowance[Pair].spend_log, now), t.amount)
  <2>2. /\ Pair \in DOMAIN allowance
        /\ allowance' = [allowance EXCEPT ![Pair].spend_log = log]
        /\ UNCHANGED <<now, policySigner, installed>>
    BY <2>1 DEF policy__, Pair
  <2>3. allowance = [p \in DOMAIN allowance |-> allowance[p]] /\ IsAllowance(allowance[Pair])
    BY <2>2 DEF TypeOK
  <2> HIDE DEF log
  <2>4. DOMAIN allowance' = DOMAIN allowance
        /\ allowance'[Pair] = [allowance[Pair] EXCEPT !.spend_log = log]
    BY <2>2, <2>3
  <2>5. /\ allowance'[Pair].signer = allowance[Pair].signer
        /\ allowance'[Pair].status = allowance[Pair].status
        /\ allowance'[Pair].expires_at = allowance[Pair].expires_at
    BY <2>3, <2>4 DEF IsAllowance
  <2> QED  BY <1>1, <1>6, <2>1, <2>2, <2>4, <2>5 DEF ChainKept
<1> QED  BY <1>2, <1>3, <1>4, <1>5, <1>6 DEF TakesEffect

\* An allowance lets exactly its key pay, from now on.
LEMMA EffectBinds ==
    ASSUME Waiting, TypeOK, NEW t \in Transactions, TakesEffect(t),
           t.kind = "set_allowance", Wallet \in installed, NEW k, k = t.key
    PROVE  BoundTo(k)'
<1>1. PICK cap \in Caps : set_allowance(Wallet, Merchant, t.key, cap, cap, MANDATE_SECONDS)
  BY DEF TakesEffect
<1>2. /\ installed' = installed /\ now' = now
      /\ allowance' = [p \in DOMAIN allowance \cup {Pair} |->
                          IF p = Pair
                          THEN [signer |-> t.key, cap_per_tx |-> cap, cap_per_day |-> cap,
                                spend_log |-> EmptyLedger, status |-> "Active",
                                expires_at |-> now + MANDATE_SECONDS]
                          ELSE allowance[p]]
  BY <1>1 DEF set_allowance, Pair
<1>3. now + MANDATE_SECONDS <= now + MANDATE_SECONDS
  BY GrantTypes
<1> QED  BY <1>2, <1>3 DEF BoundTo

LEMMA AgentLandsStages ==
    ASSUME Waiting, TypeOK, GrantInv, NEW i \in Slots, Lands(i), tx[i].src = "agent"
    PROVE  Stages'
<1>1. Settles(i, "landed") /\ TakesEffect(tx[i]) /\ tx[i] \in Transactions /\ tx[i].kind = "pay"
  BY GrantTypes DEF Lands, GrantInv, Roles
<1>2. ChainKept
  BY <1>1, EffectOnGrant DEF GrantInv
<1>3. \A j \in Slots : OwnerCurrent(j)' => Aged(j)
  BY <1>1, SettlesAges DEF OwnerCurrent, NoTx
<1>4. /\ owner'.pc = owner.pc /\ owner'.todo = owner.todo /\ owner'.key = owner.key
      /\ owner'.granted = owner.granted /\ owner'.slot = owner.slot
      /\ owner'.next.kind = owner.next.kind /\ owner'.next.key = owner.next.key
      /\ owner'.next.expires = owner.next.expires
  BY <1>1, SettlesAges, GrantTypes DEF owner
<1>5. Landed' => Landed
  <2>1. owner.pc = "poll" => owner.slot \in Slots /\ owner.slot # i /\ Polled(owner.slot)
    BY OwnersSlot, GrantTypes
  <2> QED  BY <1>1, <1>4, <2>1, SettlesAges DEF Landed
<1> QED  BY <1>2, <1>3, <1>4, <1>5, StagesKept DEF GrantInv

LEMMA FailsStages ==
    ASSUME Waiting, TypeOK, GrantInv, NEW i \in Slots, FailsOnChain(i)
    PROVE  Stages'
<1>1. Settles(i, "failed") /\ UNCHANGED <<now, contract, wallet>>
  BY DEF FailsOnChain
<1>2. ChainKept
  BY <1>1, GrantTypes DEF ChainKept, contract, wallet
<1>3. \A j \in Slots : OwnerCurrent(j)' => Aged(j)
  BY <1>1, SettlesAges DEF OwnerCurrent, NoTx
<1>4. /\ owner'.pc = owner.pc /\ owner'.todo = owner.todo /\ owner'.key = owner.key
      /\ owner'.granted = owner.granted /\ owner'.slot = owner.slot
      /\ owner'.next.kind = owner.next.kind /\ owner'.next.key = owner.next.key
      /\ owner'.next.expires = owner.next.expires
  BY <1>1, SettlesAges, GrantTypes DEF owner
<1>5. Landed' => Landed
  <2>1. owner.pc = "poll" => owner.slot \in Slots /\ Polled(owner.slot)
    BY GrantTypes
  <2>2. Polled(i) => tx'[i].state = "failed"
    BY <1>1, SettlesAges
  <2>3. \A j \in Slots : Polled(j) /\ j # i => tx'[j].state = tx[j].state
    BY <1>1, SettlesAges
  <2> QED  BY <1>4, <2>1, <2>2, <2>3 DEF Landed
<1> QED  BY <1>2, <1>3, <1>4, <1>5, StagesKept DEF GrantInv

LEMMA OwnerLandsStages ==
    ASSUME Waiting, TypeOK, GrantInv, NEW i \in Slots, Lands(i), tx[i].src = "owner"
    PROVE  Stages'
<1>1. Settles(i, "landed") /\ TakesEffect(tx[i]) /\ tx[i] \in Transactions
  BY GrantTypes DEF Lands
<1>2. OwnerCurrent(i) /\ ~NoneCurrent
  BY <1>1, SettlesAges DEF NoneCurrent
<1>3. NoneCurrent'
  BY <1>1, SettlesAges DEF NoneCurrent, OwnerCurrent
<1>4. /\ owner'.pc = owner.pc /\ owner'.todo = owner.todo /\ owner'.key = owner.key
      /\ owner'.granted = owner.granted /\ owner'.slot = owner.slot
      /\ owner'.next.kind = owner.next.kind /\ owner'.next.key = owner.next.key
      /\ owner'.next.expires = owner.next.expires
  BY <1>1, SettlesAges, GrantTypes DEF owner
<1>5. ~owner.granted
  BY <1>2 DEF GrantInv, Stages, GrantedStage
<1>6. Landed' => Landed \/ owner.slot = i
  <2>1. owner.pc = "poll" => owner.slot \in Slots /\ Polled(owner.slot)
    BY GrantTypes
  <2>2. \A j \in Slots : Polled(j) /\ j # i => tx'[j].state = tx[j].state
    BY <1>1, SettlesAges
  <2> QED  BY <1>4, <2>1, <2>2 DEF Landed
<1>7. Wallet \in installed => Wallet \in installed'
  BY <1>1, EffectOnGrant DEF GrantInv
<1>8. Landed' /\ owner.slot = i => tx[i].kind = Step("owner") /\ tx[i].key = owner.key
  BY <1>4, OwnersSlot DEF Landed
<1>9. InstallStage'
  <2>1. Landed' /\ owner.slot = i /\ Step("owner") = "install" => Wallet \in installed'
    BY <1>1, <1>8, EffectOnGrant DEF GrantInv
  <2>2. Step("owner")' = Step("owner")
    BY <1>4 DEF Step, owner
  <2> QED  BY <1>4, <1>6, <1>7, <2>1, <2>2 DEF GrantInv, Stages, InstallStage
<1>10. AllowanceStage'
  <2> SUFFICES ASSUME owner.todo = <<"set_allowance", "add_signer">> PROVE AllowanceStage'
    BY <1>4 DEF AllowanceStage
  <2>1. Wallet \in installed /\ ~Landed
    BY <1>2 DEF GrantInv, Stages, AllowanceStage
  <2>2. Step("owner") = "set_allowance"
    BY DEF Step, owner
  <2>3. ASSUME Landed'
        PROVE  BoundTo(owner.key)'
    <3>1. tx[i].kind = "set_allowance" /\ tx[i].key = owner.key
      BY <1>6, <1>8, <2>1, <2>2, <2>3
    <3>2. PICK k : k = owner.key
      OBVIOUS
    <3>3. BoundTo(k)'
      BY <1>1, <2>1, <3>1, <3>2, EffectBinds
    <3> QED  BY <1>4, <3>2, <3>3 DEF BoundTo
  <2> QED  BY <1>3, <1>7, <2>1, <2>3 DEF AllowanceStage
<1>11. SignerStage'
  <2> SUFFICES ASSUME owner.todo = <<"add_signer">> PROVE SignerStage'
    BY <1>4 DEF SignerStage
  <2>1. /\ BoundTo(owner.key) /\ Registers(tx[i], owner.key) /\ ~Landed
        /\ owner.pc = "send" => Registers(owner.next, owner.key)
    BY <1>2 DEF GrantInv, Stages, SignerStage
  <2>2. /\ UNCHANGED <<now, contract>>
        /\ signerUntil' = [signerUntil EXCEPT ![tx[i].key] = tx[i].expires]
    BY <1>1, <2>1, EffectOnGrant, EffectFrame DEF GrantInv, Registers, Waiting
  <2>3. BoundTo(owner.key)'
    BY <1>4, <2>1, <2>2 DEF BoundTo, contract
  <2>4. owner'.pc = "send" => Registers(owner.next, owner.key)'
    BY <1>4, <2>1, <2>2 DEF Registers, Outlasts, contract
  <2>5. Outlasts(signerUntil[owner.key])'
    <3>1. signerUntil'[tx[i].key] = tx[i].expires
      BY <1>1, <2>2 DEF Waiting, AgentTypeOK, Transactions
    <3> QED  BY <1>4, <2>1, <2>2, <3>1 DEF Registers, Outlasts, contract
  <2> QED  BY <1>3, <2>3, <2>4, <2>5 DEF SignerStage, NoneCurrent
<1>12. GrantedStage'
  BY <1>4, <1>5 DEF GrantedStage
<1> QED  BY <1>9, <1>10, <1>11, <1>12 DEF Stages

LEMMA LedgerClosesStages ==
    ASSUME Waiting, TypeOK, GrantInv, LedgerCloses
    PROVE  Stages'
<1>1. /\ now' = now + 1 /\ UNCHANGED <<contract, wallet, proc>>
      /\ tx' = [j \in Slots |-> IF Polled(j) \/ tx[j].until > now THEN tx[j] ELSE NoTx]
  BY DEF LedgerCloses, Tick, contract
<1>2. ChainKept
  BY <1>1, GrantTypes DEF ChainKept, contract, wallet
<1>3. \A j \in Slots : OwnerCurrent(j)' => Aged(j)
  BY <1>1 DEF OwnerCurrent, Aged, NoTx
<1>4. Landed' => Landed
  BY <1>1, GrantTypes DEF Landed, owner
<1> QED  BY <1>1, <1>2, <1>3, <1>4, StagesKept DEF owner, GrantInv

--------------------------------------------------------------------------------
(* Roles *)

LEMMA StepRoles ==
    ASSUME Waiting, TypeOK, Roles, NEW p \in Processes, ProcessStep(p)
    PROVE  Roles'
<1>1. UNCHANGED <<now, contract, wallet>>
  BY DEF ProcessStep, AlreadyDone, Build, BuildThrows, Send, SendFails, PollSucceeds,
         PollFails, Dies
<1>2. proc'["agent"].todo \in {<< >>, <<"pay">>}
  <2>1. CASE p # "agent"
    <3>1. proc'["agent"] = proc["agent"]
      BY <2>1, OthersStay, GrantTypes
    <3> QED  BY <3>1 DEF Roles
  <2>2. CASE p = "agent"
    <3>1. proc["agent"].todo \in {<< >>, <<"pay">>} /\ proc["agent"] \in ProcessStates
      BY GrantTypes DEF Roles, Waiting, AgentTypeOK
    <3>2. CASE Throws(p)
      BY <2>2, <3>2, GrantTypes DEF Throws, Idle, Waiting, AgentTypeOK
    <3>3. CASE NextStep(p) /\ proc[p].todo # << >>
      <4> DEFINE todo == Tail(proc["agent"].todo)
      <4>1. proc'["agent"].todo = todo
        BY <2>2, <3>3, GrantTypes DEF NextStep, Idle, Waiting, AgentTypeOK
      <4>2. proc["agent"].todo = <<"pay">>
        BY <2>2, <3>1, <3>3
      <4>3. todo = << >>
        BY <4>2
      <4> HIDE DEF todo
      <4> QED  BY <4>1, <4>3
    <3>4. CASE Build(p)
      <4>1. PICK t : proc' = [proc EXCEPT ![p].pc = "send", ![p].next = t]
        BY <3>4 DEF Build
      <4>2. proc'["agent"].todo = proc["agent"].todo
        BY <2>2, <3>1, <4>1, GrantTypes DEF Waiting, AgentTypeOK, ProcessStates
      <4> QED  BY <3>1, <4>2
    <3>5. CASE Send(p)
      <4>1. PICK i \in Slots :
               \/ Throws(p)
               \/ proc' = [proc EXCEPT ![p].pc = "poll", ![p].slot = i, ![p].next = NoTx,
                                       ![p].deadline = now + PollFor(proc[p].next.kind)]
        BY <3>5, SendFrame
      <4>2. Throws(p) \/ proc'["agent"].todo = proc["agent"].todo
        BY <2>2, <3>1, <4>1, GrantTypes DEF Waiting, AgentTypeOK, ProcessStates
      <4> QED  BY <3>1, <3>2, <4>2
    <3>6. NextStep(p) => proc[p].todo # << >> \/ ~(AlreadyDone(p) \/ PollSucceeds(p))
      BY DEF AlreadyDone, PollSucceeds, At, Waiting, ProcessInv
    <3> QED  BY <3>2, <3>3, <3>4, <3>5, <3>6
                DEF ProcessStep, AlreadyDone, BuildThrows, SendFails, PollSucceeds, PollFails, Dies
  <2> QED  BY <2>1, <2>2
<1>3. CASE Send(p)
  <2>1. PICK i \in Slots : /\ \A j \in Slots \ {i} : tx'[j] = tx[j]
                           /\ tx'[i].kind = proc[p].next.kind /\ tx'[i].src = p
    BY <1>3, SendFrame
  <2>2. p = "agent" => proc[p].next.kind = "pay"
    <3> SUFFICES ASSUME p = "agent" PROVE proc[p].next.kind = "pay"
      OBVIOUS
    <3>1. proc[p].todo # << >> /\ proc[p].next.kind = Step(p)
      BY <1>3 DEF Send, At, Waiting, ProcessInv
    <3>2. proc[p].todo = <<"pay">>
      BY <3>1 DEF Roles
    <3> QED  BY <3>1, <3>2 DEF Step
  <2>3. \A j \in Slots : tx'[j].src = "agent" => tx'[j].kind = "pay"
    BY <2>1, <2>2 DEF Roles
  <2> QED  BY <1>1, <1>2, <2>3 DEF Roles, contract
<1>4. CASE \A j \in Slots : tx'[j] = NoTx \/ Aged(j)
  BY <1>1, <1>2, <1>4, RolesKept DEF Roles, contract
<1>5. CASE tx' = tx
  BY <1>4, <1>5, UntouchedIsAged
<1>6. ASSUME NEW report \in Reports, Left(p, report), At(p, "poll")
      PROVE  Roles'
  BY <1>4, <1>6, LeftAges
<1>7. CASE AlreadyDone(p) \/ Build(p) \/ BuildThrows(p) \/ SendFails(p)
  BY <1>5, <1>7 DEF AlreadyDone, Build, BuildThrows, SendFails
<1>8. CASE PollSucceeds(p) \/ PollFails(p)
  BY <1>6, <1>8 DEF PollSucceeds, PollFails, Reports
<1>9. CASE Dies(p)
  BY <1>5, <1>6, <1>9 DEF Dies, Reports
<1> QED  BY <1>3, <1>7, <1>8, <1>9 DEF ProcessStep

LEMMA CommandRoles ==
    ASSUME Waiting, TypeOK, Roles, NEW command, NEW k,
           OwnerRuns(command, k) \/ payMerchant(k, command)
    PROVE  Roles'
<1>1. UNCHANGED <<contract, tx>>
  BY DEF OwnerRuns, payMerchant
<1>2. proc'["agent"].todo \in {<< >>, <<"pay">>}
  <2>1. CASE OwnerRuns(command, k)
    <3>1. proc'["agent"] = proc["agent"]
      BY <2>1, GrantTypes DEF OwnerRuns, Waiting, AgentTypeOK
    <3> QED  BY <3>1 DEF Roles
  <2>2. CASE payMerchant(k, command)
    BY <2>2, GrantTypes DEF payMerchant, Idle, Waiting, AgentTypeOK
  <2> QED  BY <2>1, <2>2
<1> QED  BY <1>1, <1>2 DEF Roles, contract

LEMMA ChainRoles ==
    ASSUME Waiting, TypeOK, Roles, NEW i \in Slots, Lands(i) \/ FailsOnChain(i)
    PROVE  Roles'
<1>1. PICK state \in {"landed", "failed"} : Settles(i, state)
  BY DEF Lands, FailsOnChain
<1>2. /\ \A j \in Slots : tx'[j] = NoTx \/ Aged(j)
      /\ proc'["agent"].todo = proc["agent"].todo
  BY <1>1, SettlesAges, GrantTypes
<1>3. CASE Lands(i)
  <2>1. Wallet \in policySigner' => Wallet \in installed'
    BY <1>3, EffectOnGrant, GrantTypes DEF Lands
  <2> QED  BY <1>2, <2>1, RolesKept DEF Roles
<1>4. CASE FailsOnChain(i)
  BY <1>2, <1>4, RolesKept DEF FailsOnChain, contract, Roles
<1> QED  BY <1>3, <1>4

LEMMA LedgerClosesRoles ==
    ASSUME Waiting, TypeOK, Roles, LedgerCloses
    PROVE  Roles'
<1>1. /\ UNCHANGED <<contract, proc>>
      /\ \A j \in Slots : tx'[j] = tx[j] \/ tx'[j] = NoTx
  BY DEF LedgerCloses, Tick, contract
<1> QED  BY <1>1, UntouchedIsAged, RolesKept DEF Roles, contract

--------------------------------------------------------------------------------

LEMMA InitGrant == AgentInit => GrantInv
<1> SUFFICES ASSUME AgentInit PROVE GrantInv
  OBVIOUS
<1>1. policySigner = {} /\ owner = Idle /\ proc["agent"] = Idle
      /\ \A j \in Slots : tx[j] = NoTx
  BY DEF AgentInit, Init, owner, Processes
<1>2. Roles
  BY <1>1 DEF Roles, Idle, NoTx
<1>3. Stages
  BY <1>1 DEF Stages, InstallStage, AllowanceStage, SignerStage, GrantedStage, Idle
<1> QED  BY <1>2, <1>3 DEF GrantInv

LEMMA NextGrant == Waiting /\ TypeOK /\ GrantInv /\ [AgentNext]_agentVars => GrantInv'
<1> SUFFICES ASSUME Waiting, TypeOK, GrantInv, [AgentNext]_agentVars PROVE GrantInv'
  OBVIOUS
<1> Roles /\ Stages
  BY DEF GrantInv
<1>1. ASSUME NEW command \in OwnerCommands, NEW k \in SubKeys, OwnerRuns(command, k)
      PROVE  GrantInv'
  BY <1>1, CommandRoles, OwnerRunsStages DEF GrantInv
<1>2. ASSUME NEW k \in SubKeys, NEW amount \in Amounts, payMerchant(k, amount)
      PROVE  GrantInv'
  <2>1. UNCHANGED <<now, contract, wallet, tx>> /\ proc'["owner"] = proc["owner"]
    BY <1>2, GrantTypes DEF payMerchant, Waiting, AgentTypeOK
  <2>2. Stages'
    BY <2>1, UntouchedIsAged, BesidesStages
  <2> QED  BY <1>2, <2>2, CommandRoles DEF GrantInv
<1>3. ASSUME NEW p \in Processes, ProcessStep(p)
      PROVE  GrantInv'
  BY <1>3, StepRoles, OwnerStages, AgentStages DEF GrantInv, Processes
<1>4. ASSUME NEW i \in Slots, Lands(i)
      PROVE  GrantInv'
  <2>1. tx[i].src = "owner" \/ tx[i].src = "agent"
    BY GrantTypes DEF Transactions, Processes
  <2> QED  BY <1>4, <2>1, ChainRoles, OwnerLandsStages, AgentLandsStages DEF GrantInv
<1>5. ASSUME NEW i \in Slots, FailsOnChain(i)
      PROVE  GrantInv'
  BY <1>5, ChainRoles, FailsStages DEF GrantInv
<1>6. CASE LedgerCloses
  BY <1>6, LedgerClosesRoles, LedgerClosesStages DEF GrantInv
<1>7. CASE UNCHANGED agentVars
  <2>1. UNCHANGED <<now, contract, wallet, tx, proc>>
    BY <1>7 DEF agentVars
  <2>2. Roles'
    BY <2>1 DEF Roles, contract
  <2>3. Stages'
    BY <2>1, UntouchedIsAged, BesidesStages
  <2> QED  BY <2>2, <2>3 DEF GrantInv
<1> QED  BY <1>1, <1>2, <1>3, <1>4, <1>5, <1>6, <1>7 DEF AgentNext

\* Whatever earlier commands left unanswered and however many transactions are
\* outstanding, a setup that reported success has given the agent a key that wallet
\* and policy accept for as long as the mandate lasts (grantMerchant).
THEOREM GrantHolds == AgentSpec => []GrantedKeyWorks
<1>1. Waiting /\ TypeOK /\ GrantInv => GrantedKeyWorks
  <2> SUFFICES ASSUME Waiting, TypeOK, GrantInv, owner.granted PROVE GrantedKeyWorks
    BY DEF GrantedKeyWorks, owner
  <2>1. BoundTo(owner.key) /\ Outlasts(signerUntil[owner.key])
    BY DEF GrantInv, Stages, GrantedStage
  <2>2. owner.key \in SubKeys /\ signerUntil[owner.key] \in Int /\ now \in Nat
    BY GrantTypes DEF ProcessStates, Waiting, AgentTypeOK
  <2>3. now <= allowance[Pair].expires_at => now <= signerUntil[owner.key]
    BY <2>1, <2>2, GrantTypes DEF BoundTo, Outlasts
  <2> QED  BY <2>1, <2>3 DEF BoundTo, GrantedKeyWorks, Pair, owner
<1>2. AgentSpec => []TypeOK
  BY AgentObeysContract, TypeCorrect, PTL
<1> QED  BY <1>1, <1>2, AlwaysWaiting, InitGrant, NextGrant, PTL DEF AgentSpec

--------------------------------------------------------------------------------
(* What an operation does to a ledger *)

\* An induction along the operations of a transaction.
LEMMA AlongOperations ==
    ASSUME NEW S, NEW n \in Nat, 0 \in S, \A i \in 1..n : i - 1 \in S => i \in S
    PROVE  \A i \in 0..n : i \in S
<1> DEFINE T == {i \in Nat : i <= n => i \in S}
<1>1. 0 \in T
  OBVIOUS
<1>2. \A i \in Nat : i \in T => i + 1 \in T
  <2> SUFFICES ASSUME NEW i \in Nat, i \in T, i + 1 <= n  PROVE i + 1 \in S
    OBVIOUS
  <2>1. i + 1 \in 1..n /\ (i + 1) - 1 = i /\ i \in S
    OBVIOUS
  <2> QED  BY <2>1
<1>3. Nat \subseteq T
  <2> HIDE DEF T
  <2> QED  BY <1>1, <1>2, NatSetInduction
<1> QED  BY <1>3

Assets == {Native, USDC}

\* One balance is set, and nothing else.
Sets(s, t, a, k, v) ==
    /\ IsLedgerState(t) /\ t.signers = s.signers /\ t.allowances = s.allowances
    /\ \A b \in Accounts, j \in Assets :
          t.bal[b][j] = IF b = a /\ j = k THEN v ELSE s.bal[b][j]

LEMMA WithSets ==
    ASSUME NEW s, IsLedgerState(s), NEW a \in Accounts, NEW k \in Assets,
           NEW v \in Nat \cup {None}
    PROVE  Sets(s, With(s, a, k, v), a, k, v)
<1> DEFINE t == With(s, a, k, v)
<1> DEFINE row == [s.bal[a] EXCEPT ![k] = v]
<1> DEFINE bal == [s.bal EXCEPT ![a] = row]
<1> DEFINE Bals == [Accounts -> [Assets -> Nat \cup {None}]]
<1> DEFINE Keys2 == [Accounts -> SUBSET Accounts]
<1> DEFINE Allows == SUBSET (Accounts \X Accounts)
<1>0. \A u : IsLedgerState(u) <=> u \in [bal : Bals, signers : Keys2, allowances : Allows]
  BY DEF IsLedgerState, Assets
<1>1. s.bal[a] \in [Assets -> Nat \cup {None}] /\ s.bal \in Bals
  BY <1>0
<1>2. row \in [Assets -> Nat \cup {None}]
      /\ \A j \in Assets : row[j] = IF j = k THEN v ELSE s.bal[a][j]
  BY <1>1
<1>3. t = [s EXCEPT !.bal = bal]
  BY DEF With
<1> HIDE DEF row
<1>4. bal \in Bals /\ \A b \in Accounts : bal[b] = IF b = a THEN row ELSE s.bal[b]
  BY <1>1, <1>2
<1> HIDE DEF bal, t, Bals, Keys2, Allows
<1>5. t = [bal |-> bal, signers |-> s.signers, allowances |-> s.allowances]
  BY <1>0, <1>3
<1>6. t.bal = bal /\ t.signers = s.signers /\ t.allowances = s.allowances
  BY <1>5
<1>7. IsLedgerState(t)
  BY <1>0, <1>4, <1>5
<1>8. \A b \in Accounts, j \in Assets : t.bal[b][j] = IF b = a /\ j = k THEN v ELSE s.bal[b][j]
  <2> SUFFICES ASSUME NEW b \in Accounts, NEW j \in Assets
               PROVE  bal[b][j] = IF b = a /\ j = k THEN v ELSE s.bal[b][j]
    BY <1>6
  <2>1. CASE b = a
    BY <1>2, <1>4, <2>1
  <2>2. CASE b # a
    BY <1>4, <2>2
  <2> QED  BY <2>1, <2>2
<1> QED  BY <1>6, <1>7, <1>8 DEF Sets, t

LEMMA BalanceType ==
    ASSUME NEW s, IsLedgerState(s)
    PROVE  \A b \in Accounts, j \in Assets : s.bal[b][j] \in Nat \cup {None}
BY DEF IsLedgerState, Assets

\* What leaves an account was there; what arrives finds its account.
LEMMA ExchangeEffect ==
    ASSUME NEW s, IsLedgerState(s), NEW from \in Accounts, NEW to \in Accounts,
           NEW out \in Assets, NEW in \in Assets, NEW n \in Nat, NEW m \in Nat,
           NEW t \in Exchange(s, from, out, n, to, in, m)
    PROVE  /\ IsLedgerState(t) /\ t.signers = s.signers /\ t.allowances = s.allowances
           /\ \A b \in Accounts, j \in Assets :
                 /\ t.bal[b][j] = None <=> s.bal[b][j] = None
                 /\ Held(t, b, j) = Held(s, b, j) - (IF b = from /\ j = out THEN n ELSE 0)
                                                 + (IF b = to /\ j = in THEN m ELSE 0)
<1> DEFINE r == Plus(s, from, out, -n)
<1>1. s.bal[from][out] >= n /\ s.bal[to][in] # None /\ t = Plus(r, to, in, m)
  BY DEF Exchange
<1>2. \A b \in Accounts, j \in Assets : s.bal[b][j] \in Nat \cup {None}
  BY BalanceType
<1>3. s.bal[from][out] + (-n) \in Nat
  BY <1>1, <1>2 DEF None
<1>4. Sets(s, r, from, out, s.bal[from][out] + (-n))
  <2>1. s.bal[from][out] + (-n) \in Nat \cup {None}
    BY <1>3
  <2> QED  BY <2>1, WithSets DEF Plus
<1> HIDE DEF r
<1>5. r.bal[to][in] + m \in Nat
  BY <1>1, <1>2, <1>3, <1>4 DEF Sets, None
<1>6. Sets(r, t, to, in, r.bal[to][in] + m)
  <2>1. r.bal[to][in] + m \in Nat \cup {None} /\ IsLedgerState(r)
    BY <1>4, <1>5 DEF Sets
  <2> QED  BY <1>1, <2>1, WithSets DEF Plus
<1>7. /\ IsLedgerState(t) /\ t.signers = s.signers /\ t.allowances = s.allowances
  BY <1>4, <1>6 DEF Sets
<1>8. ASSUME NEW b \in Accounts, NEW j \in Assets
      PROVE  /\ t.bal[b][j] = None <=> s.bal[b][j] = None
             /\ Held(t, b, j) = Held(s, b, j) - (IF b = from /\ j = out THEN n ELSE 0)
                                             + (IF b = to /\ j = in THEN m ELSE 0)
  <2>1. r.bal[b][j] = IF b = from /\ j = out THEN s.bal[from][out] + (-n) ELSE s.bal[b][j]
    BY <1>4 DEF Sets
  <2>2. t.bal[b][j] = IF b = to /\ j = in THEN r.bal[to][in] + m ELSE r.bal[b][j]
    BY <1>6 DEF Sets
  <2>3. s.bal[b][j] \in Nat \cup {-1} /\ s.bal[from][out] >= n
    BY <1>1, <1>2 DEF None
  <2> QED  BY <1>1, <1>3, <1>5, <2>1, <2>2, <2>3 DEF Held, None
<1> QED  BY <1>7, <1>8

LEMMA LeavesEffect ==
    ASSUME NEW s, IsLedgerState(s), NEW a \in Accounts, NEW k \in Assets, NEW n \in Nat,
           NEW t \in Leaves(s, a, k, n)
    PROVE  /\ IsLedgerState(t) /\ t.signers = s.signers /\ t.allowances = s.allowances
           /\ \A b \in Accounts, j \in Assets :
                 /\ t.bal[b][j] = None <=> s.bal[b][j] = None
                 /\ Held(t, b, j) = Held(s, b, j) - (IF b = a /\ j = k THEN n ELSE 0)
<1>1. s.bal[a][k] >= n /\ t = Plus(s, a, k, -n)
  BY DEF Leaves
<1>2. \A b \in Accounts, j \in Assets : s.bal[b][j] \in Nat \cup {None}
  BY BalanceType
<1>3. s.bal[a][k] + (-n) \in Nat
  BY <1>1, <1>2 DEF None
<1>4. Sets(s, t, a, k, s.bal[a][k] + (-n))
  <2>1. s.bal[a][k] + (-n) \in Nat \cup {None}
    BY <1>3
  <2> QED  BY <1>1, <2>1, WithSets DEF Plus
<1> QED  BY <1>1, <1>2, <1>3, <1>4 DEF Sets, Held, None

LEMMA ArrivesEffect ==
    ASSUME NEW s, IsLedgerState(s), NEW a \in Accounts, NEW k \in Assets, NEW n \in Nat,
           NEW t \in Arrives(s, a, k, n)
    PROVE  /\ IsLedgerState(t) /\ t.signers = s.signers /\ t.allowances = s.allowances
           /\ \A b \in Accounts, j \in Assets :
                 /\ t.bal[b][j] = None <=> s.bal[b][j] = None
                 /\ Held(t, b, j) >= Held(s, b, j)
<1>1. s.bal[a][k] # None /\ t = Plus(s, a, k, n)
  BY DEF Arrives
<1>2. \A b \in Accounts, j \in Assets : s.bal[b][j] \in Nat \cup {None}
  BY BalanceType
<1>3. s.bal[a][k] + n \in Nat
  BY <1>1, <1>2 DEF None
<1>4. Sets(s, t, a, k, s.bal[a][k] + n)
  <2>1. s.bal[a][k] + n \in Nat \cup {None}
    BY <1>3
  <2> QED  BY <1>1, <2>1, WithSets DEF Plus
<1>5. ASSUME NEW b \in Accounts, NEW j \in Assets
      PROVE  /\ t.bal[b][j] = None <=> s.bal[b][j] = None
             /\ Held(t, b, j) >= Held(s, b, j)
  <2>1. t.bal[b][j] = IF b = a /\ j = k THEN s.bal[a][k] + n ELSE s.bal[b][j]
    BY <1>4 DEF Sets
  <2>2. s.bal[b][j] \in Nat \cup {-1} /\ s.bal[a][k] \in Nat
    BY <1>1, <1>2 DEF None
  <2> QED  BY <2>1, <2>2 DEF Held, None
<1> QED  BY <1>4, <1>5 DEF Sets

--------------------------------------------------------------------------------
(* What an operation leaves alone *)

\* The operations that may touch each part of a ledger.
Closes(op) == op.kind = "accountMerge"
Trusts(op) == op.kind = "changeTrust" /\ ~op.pool
Signs(op) == op.kind = "setOptions" /\ op.adds \cup op.drops # {}
DropsMaster(op) == op.kind = "setOptions" /\ op.master = 0
Approves(op) == op.kind = "invokeHostFunction" /\ op.fn \in {"approve", "approveInside"}

NoneClosed(s, t) == \A a \in Accounts : t.bal[a][Native] = None => s.bal[a][Native] = None
SameTrust(s, t) == \A a \in Accounts : t.bal[a][USDC] = None <=> s.bal[a][USDC] = None
NoSignerAdded(s, t) == \A a \in Accounts : t.signers[a] \subseteq s.signers[a]
MastersKept(s, t) == \A a \in Accounts : a \in s.signers[a] => a \in t.signers[a]

LeavesAlone(op, s, t) ==
    /\ IsLedgerState(t)
    /\ Closes(op) \/ NoneClosed(s, t)
    /\ Trusts(op) \/ SameTrust(s, t)
    /\ Signs(op) \/ NoSignerAdded(s, t)
    /\ DropsMaster(op) \/ MastersKept(s, t)
    /\ Approves(op) \/ t.allowances = s.allowances

LEMMA Untouched ==
    ASSUME NEW op, NEW s, NEW t, IsLedgerState(t), t.signers = s.signers,
           t.allowances = s.allowances,
           \A b \in Accounts, j \in Assets : t.bal[b][j] = None <=> s.bal[b][j] = None
    PROVE  LeavesAlone(op, s, t)
BY DEF LeavesAlone, NoneClosed, SameTrust, NoSignerAdded, MastersKept, Assets

LEMMA ExchangeAlone ==
    ASSUME NEW op, NEW s, IsLedgerState(s), NEW from \in Accounts, NEW to \in Accounts,
           NEW out \in Assets, NEW in \in Assets, NEW n \in Nat, NEW m \in Nat,
           NEW t \in Exchange(s, from, out, n, to, in, m)
    PROVE  LeavesAlone(op, s, t)
BY ExchangeEffect, Untouched

\* A deposit takes from two balances, a withdrawal gives to two.
LEMMA DepositEffect ==
    ASSUME NEW op, IsOperation(op), op.kind = "liquidityPoolDeposit", NEW s, IsLedgerState(s),
           NEW t \in Applied(op, s)
    PROVE  /\ IsLedgerState(t) /\ t.signers = s.signers /\ t.allowances = s.allowances
           /\ \A b \in Accounts, j \in Assets : t.bal[b][j] = None <=> s.bal[b][j] = None
<1>1. op.source \in Accounts /\ Native \in Assets /\ USDC \in Assets
      /\ op.native \in Nat /\ op.usdc \in Nat
  BY DEF IsOperation, Assets
<1>2. PICK n \in {0, op.native} : \E r \in Leaves(s, op.source, Native, n) :
          t \in Leaves(r, op.source, USDC, op.usdc)
  BY DEF Applied
<1>3. PICK r \in Leaves(s, op.source, Native, n) : t \in Leaves(r, op.source, USDC, op.usdc)
  BY <1>2
<1>4. n \in Nat
  BY <1>1, <1>2
<1>5. /\ IsLedgerState(r) /\ r.signers = s.signers /\ r.allowances = s.allowances
      /\ \A b \in Accounts, j \in Assets : r.bal[b][j] = None <=> s.bal[b][j] = None
  BY <1>1, <1>3, <1>4, LeavesEffect
<1>6. /\ IsLedgerState(t) /\ t.signers = r.signers /\ t.allowances = r.allowances
      /\ \A b \in Accounts, j \in Assets : t.bal[b][j] = None <=> r.bal[b][j] = None
  BY <1>1, <1>3, <1>5, LeavesEffect
<1> QED  BY <1>5, <1>6

LEMMA WithdrawEffect ==
    ASSUME NEW op, IsOperation(op), op.kind = "liquidityPoolWithdraw", NEW s, IsLedgerState(s),
           NEW t \in Applied(op, s)
    PROVE  /\ IsLedgerState(t) /\ t.signers = s.signers /\ t.allowances = s.allowances
           /\ \A b \in Accounts, j \in Assets :
                 /\ t.bal[b][j] = None <=> s.bal[b][j] = None
                 /\ Held(t, b, j) >= Held(s, b, j)
<1>1. op.source \in Accounts /\ Native \in Assets /\ USDC \in Assets
      /\ op.native \in Nat /\ op.usdc \in Nat
  BY DEF IsOperation, Assets
<1>2. PICK n \in op.native..op.native + 1 : \E r \in Arrives(s, op.source, Native, n) :
          t \in Arrives(r, op.source, USDC, op.usdc)
  BY DEF Applied
<1>3. PICK r \in Arrives(s, op.source, Native, n) : t \in Arrives(r, op.source, USDC, op.usdc)
  BY <1>2
<1>4. n \in Nat
  BY <1>1, <1>2
<1>5. /\ IsLedgerState(r) /\ r.signers = s.signers /\ r.allowances = s.allowances
      /\ \A b \in Accounts, j \in Assets : /\ r.bal[b][j] = None <=> s.bal[b][j] = None
                                           /\ Held(r, b, j) >= Held(s, b, j)
  BY <1>1, <1>3, <1>4, ArrivesEffect
<1>6. /\ IsLedgerState(t) /\ t.signers = r.signers /\ t.allowances = r.allowances
      /\ \A b \in Accounts, j \in Assets : /\ t.bal[b][j] = None <=> r.bal[b][j] = None
                                           /\ Held(t, b, j) >= Held(r, b, j)
  BY <1>1, <1>3, <1>5, ArrivesEffect
<1>7. \A b \in Accounts, j \in Assets :
          Held(s, b, j) \in Nat /\ Held(r, b, j) \in Nat /\ Held(t, b, j) \in Nat
  BY <1>5, <1>6, BalanceType DEF Held, None
<1>8. \A b \in Accounts, j \in Assets : Held(t, b, j) >= Held(s, b, j)
  BY <1>5, <1>6, <1>7
<1> QED  BY <1>5, <1>6, <1>8

LEMMA OperationAlone ==
    ASSUME NEW op, IsOperation(op), NEW s, IsLedgerState(s), s.bal[op.source][Native] # None,
           NEW t \in Applied(op, s)
    PROVE  LeavesAlone(op, s, t)
<1> DEFINE src == op.source
<1>1. src \in Accounts /\ Native \in Assets /\ USDC \in Assets
  BY DEF IsOperation, Assets
<1>2. \A b \in Accounts, j \in Assets : s.bal[b][j] \in Nat \cup {None}
  BY BalanceType
<1>3. CASE op.kind = "payment"
  <2>1. op.dest \in Accounts /\ op.amount \in Nat /\ op.asset \in Assets
    BY <1>3 DEF IsOperation, Assets
  <2>2. t \in Exchange(s, src, op.asset, op.amount, op.dest, op.asset, op.amount)
    BY <1>3 DEF Applied, Transfer
  <2> QED  BY <1>1, <2>1, <2>2, ExchangeAlone
<1>4. CASE op.kind = "createAccount"
  <2> DEFINE r == With(s, op.dest, Native, 0)
  <2>1. op.dest \in Accounts /\ op.amount \in Nat
    BY <1>4 DEF IsOperation
  <2>2. s.bal[op.dest][Native] = None
        /\ t \in Exchange(r, src, Native, op.amount, op.dest, Native, op.amount)
    BY <1>4 DEF Applied, Transfer
  <2>3. Sets(s, r, op.dest, Native, 0)
    BY <1>1, <2>1, WithSets
  <2> HIDE DEF r
  <2>4. /\ IsLedgerState(t) /\ t.signers = r.signers /\ t.allowances = r.allowances
        /\ \A b \in Accounts, j \in Assets : t.bal[b][j] = None <=> r.bal[b][j] = None
    BY <1>1, <2>1, <2>2, <2>3, ExchangeEffect DEF Sets
  <2>5. \A a \in Accounts : /\ r.bal[a][Native] = None => s.bal[a][Native] = None
                            /\ r.bal[a][USDC] = s.bal[a][USDC]
    BY <1>1, <2>2, <2>3 DEF Sets, Native, USDC
  <2>6. NoneClosed(s, t) /\ SameTrust(s, t)
    BY <1>1, <2>4, <2>5 DEF NoneClosed, SameTrust
  <2> QED  BY <2>3, <2>4, <2>6 DEF Sets, LeavesAlone, NoSignerAdded, MastersKept
<1>5. CASE op.kind = "accountMerge"
  <2>1. op.dest \in Accounts /\ s.bal[src][Native] \in Nat
    BY <1>1, <1>2, <1>5 DEF IsOperation
  <2>2. PICK r \in Exchange(s, src, Native, s.bal[src][Native],
                           op.dest, Native, s.bal[src][Native]) :
            t = With(r, src, Native, None)
    BY <1>5 DEF Applied, Transfer
  <2>3. /\ IsLedgerState(r) /\ r.signers = s.signers /\ r.allowances = s.allowances
        /\ \A b \in Accounts, j \in Assets : r.bal[b][j] = None <=> s.bal[b][j] = None
    BY <1>1, <2>1, <2>2, ExchangeEffect
  <2>4. Sets(r, t, src, Native, None)
    BY <1>1, <2>2, <2>3, WithSets
  <2>5. SameTrust(s, t)
    BY <1>1, <2>3, <2>4 DEF Sets, SameTrust, Native, USDC
  <2> QED  BY <1>5, <2>3, <2>4, <2>5 DEF Sets, LeavesAlone, NoSignerAdded, MastersKept, Closes
<1>6. CASE op.kind = "changeTrust" /\ op.pool
  <2>1. t = s
    BY <1>6 DEF Applied
  <2> QED  BY <2>1, Untouched
<1>7. CASE op.kind = "changeTrust" /\ ~op.pool
  <2>1. t = s \/ \E v \in {None, 0} : t = With(s, src, USDC, v)
    BY <1>7 DEF Applied
  <2>2. CASE t = s
    BY <2>2, Untouched
  <2>3. ASSUME NEW v \in {None, 0}, t = With(s, src, USDC, v)  PROVE LeavesAlone(op, s, t)
    <3>1. Sets(s, t, src, USDC, v)
      BY <1>1, <2>3, WithSets
    <3>2. NoneClosed(s, t)
      BY <1>1, <3>1 DEF Sets, NoneClosed, Native, USDC
    <3> QED  BY <1>7, <3>1, <3>2 DEF Sets, LeavesAlone, NoSignerAdded, MastersKept, Trusts
  <2> QED  BY <2>1, <2>2, <2>3
<1>8. CASE op.kind = "pathPaymentStrictSend"
  <2>1. op.dest \in Accounts /\ {op.amount, op.destAmount} \subseteq Nat
        /\ {op.asset, op.destAsset} \subseteq Assets
    BY <1>8 DEF IsOperation, Assets
  <2>2. PICK n \in op.destAmount..op.destAmount + 1 :
            t \in Exchange(s, src, op.asset, op.amount, op.dest, op.destAsset, n)
    BY <1>8 DEF Applied
  <2> QED  BY <1>1, <2>1, <2>2, ExchangeAlone
<1>9. CASE op.kind = "pathPaymentStrictReceive"
  <2>1. op.dest \in Accounts /\ {op.amount, op.destAmount} \subseteq Nat
        /\ {op.asset, op.destAsset} \subseteq Assets
    BY <1>9 DEF IsOperation, Assets
  <2>2. PICK n \in {0, op.amount} :
            t \in Exchange(s, src, op.asset, n, op.dest, op.destAsset, op.destAmount)
    BY <1>9 DEF Applied
  <2> QED  BY <1>1, <2>1, <2>2, ExchangeAlone
<1>10. CASE op.kind \in {"clawback", "createClaimableBalance"}
  <2>1. op.dest \in Accounts /\ op.amount \in Nat /\ op.asset \in Assets
    BY <1>10 DEF IsOperation, Assets
  <2>2. t \in Leaves(s, op.dest, op.asset, op.amount) \/ t \in Leaves(s, src, op.asset, op.amount)
    BY <1>10 DEF Applied
  <2> QED  BY <1>1, <2>1, <2>2, LeavesEffect, Untouched
<1>11. CASE op.kind = "setOptions"
  <2> DEFINE after == ((s.signers[src] \cup op.adds) \ op.drops)
                         \ (IF op.master = 0 THEN {src} ELSE {})
  <2>1. op.adds \cup op.drops \subseteq Accounts \ {src}
    BY <1>11 DEF IsOperation
  <2>2. t = [s EXCEPT !.signers = [@ EXCEPT ![src] = after]]
    BY <1>11 DEF Applied
  <2>3. s.signers \in [Accounts -> SUBSET Accounts]
    BY DEF IsLedgerState
  <2>4. after \subseteq Accounts
    BY <1>1, <2>1, <2>3
  <2>5. (~Signs(op) => after \subseteq s.signers[src])
        /\ (~DropsMaster(op) /\ src \in s.signers[src] => src \in after)
    BY <1>11, <2>1 DEF Signs, DropsMaster
  <2> HIDE DEF after
  <2> DEFINE signers == [s.signers EXCEPT ![src] = after]
  <2>6. signers \in [Accounts -> SUBSET Accounts]
        /\ \A a \in Accounts : signers[a] = IF a = src THEN after ELSE s.signers[a]
    BY <1>1, <2>3, <2>4
  <2>7. t = [s EXCEPT !.signers = signers]
    BY <2>2
  <2> HIDE DEF signers
  <2>8. t = [bal |-> s.bal, signers |-> signers, allowances |-> s.allowances]
    BY <2>7 DEF IsLedgerState
  <2>9. t.bal = s.bal /\ t.signers = signers /\ t.allowances = s.allowances
    BY <2>8
  <2>10. IsLedgerState(t)
    BY <2>6, <2>8 DEF IsLedgerState
  <2>11. NoneClosed(s, t) /\ SameTrust(s, t)
    BY <2>9 DEF NoneClosed, SameTrust
  <2>12. Signs(op) \/ NoSignerAdded(s, t)
    BY <2>5, <2>6, <2>9 DEF NoSignerAdded
  <2>13. DropsMaster(op) \/ MastersKept(s, t)
    BY <2>5, <2>6, <2>9 DEF MastersKept
  <2> QED  BY <2>9, <2>10, <2>11, <2>12, <2>13 DEF LeavesAlone
<1>12. CASE op.kind = "invokeHostFunction"
  <2>1. CASE op.fn = "transfer"
    <3>1. op.dest \in Accounts /\ op.amount \in Nat
      BY <1>12, <2>1 DEF IsOperation
    <3>2. t \in Exchange(s, src, USDC, op.amount, op.dest, USDC, op.amount)
      BY <1>12, <2>1 DEF Applied, Transfer
    <3> QED  BY <1>1, <3>1, <3>2, ExchangeAlone
  <2>2. CASE op.fn \in {"approve", "approveInside"}
    <3>1. op.dest \in Accounts
      BY <1>12, <2>2 DEF IsOperation
    <3> DEFINE allowed == s.allowances \cup {<<src, op.dest>>}
    <3>2. t = [s EXCEPT !.allowances = allowed]
      BY <1>12, <2>2 DEF Applied
    <3>3. allowed \in SUBSET (Accounts \X Accounts)
      BY <1>1, <3>1 DEF IsLedgerState
    <3> HIDE DEF allowed
    <3>4. t = [bal |-> s.bal, signers |-> s.signers, allowances |-> allowed]
      BY <3>2 DEF IsLedgerState
    <3>5. IsLedgerState(t)
      BY <3>3, <3>4 DEF IsLedgerState
    <3> QED
      BY <1>12, <2>2, <3>4, <3>5
      DEF LeavesAlone, NoneClosed, SameTrust, NoSignerAdded, MastersKept, Approves
  <2>3. CASE op.fn \notin {"transfer", "approve", "approveInside"}
    <3>1. t = s
      BY <1>12, <2>3 DEF Applied
    <3> QED  BY <3>1, Untouched
  <2> QED  BY <2>1, <2>2, <2>3
<1>13. CASE op.kind \in {"manageSellOffer", "manageBuyOffer", "createPassiveSellOffer"}
  <2>1. {op.amount, op.destAmount} \subseteq Nat /\ {op.asset, op.destAsset} \subseteq Assets
    BY <1>13 DEF IsOperation, Assets
  <2>2. t = s \/ t \in Exchange(s, src, op.asset, op.amount, src, op.destAsset, op.destAmount)
    BY <1>13 DEF Applied
  <2> QED  BY <1>1, <2>1, <2>2, ExchangeAlone, Untouched
<1>14. CASE op.kind = "liquidityPoolDeposit"
  BY <1>14, DepositEffect, Untouched
<1>15. CASE op.kind = "liquidityPoolWithdraw"
  BY <1>15, WithdrawEffect, Untouched
<1>16. CASE op.kind = "claimClaimableBalance"
  <2>1. op.amount \in Nat /\ op.asset \in Assets
    BY <1>16 DEF IsOperation, Assets
  <2>2. t \in Arrives(s, src, op.asset, op.amount)
    BY <1>16 DEF Applied
  <2> QED  BY <1>1, <2>1, <2>2, ArrivesEffect, Untouched
<1> QED
  BY <1>3, <1>4, <1>5, <1>6, <1>7, <1>8, <1>9, <1>10, <1>11, <1>12, <1>13, <1>14, <1>15, <1>16
  DEF IsOperation

--------------------------------------------------------------------------------
(* What a transaction leaves alone *)

\* g is the function AllApplied(txn, charge, s) is computed with.
Applies(g, txn, charge, s, n) ==
    g = [i \in 0..n |-> IF i = 0 THEN {Charged(charge, s)} ELSE AppliedToEach(txn.ops[i], g[i - 1])]

LEMMA AppliesExists ==
    ASSUME NEW txn, NEW charge, NEW s
    PROVE  \A n \in Nat : \E g : Applies(g, txn, charge, s, n)
<1> DEFINE S == {n \in Nat : \E g : Applies(g, txn, charge, s, n)}
<1>1. 0 \in S
  <2> DEFINE g == [i \in 0..0 |-> {Charged(charge, s)}]
  <2>1. g = [i \in 0..0 |-> IF i = 0 THEN {Charged(charge, s)}
                           ELSE AppliedToEach(txn.ops[i], g[i - 1])]
    OBVIOUS
  <2> QED  BY <2>1 DEF Applies
<1>2. ASSUME NEW n \in Nat, NEW g, Applies(g, txn, charge, s, n)
      PROVE  \E h : Applies(h, txn, charge, s, n + 1)
  <2> DEFINE h == [i \in 0..(n + 1) |->
                     IF i = 0 THEN {Charged(charge, s)} ELSE AppliedToEach(txn.ops[i], g[i - 1])]
  <2>1. ASSUME NEW i \in 0..n  PROVE h[i] = g[i]
    <3>1. g[i] = IF i = 0 THEN {Charged(charge, s)} ELSE AppliedToEach(txn.ops[i], g[i - 1])
      BY <1>2 DEF Applies
    <3>2. i \in 0..(n + 1)
      OBVIOUS
    <3> QED  BY <3>1, <3>2
  <2>2. \A i \in 0..(n + 1) : i # 0 => h[i - 1] = g[i - 1]
    <3> HIDE DEF h
    <3>1. \A i \in 0..(n + 1) : i # 0 => i - 1 \in 0..n
      OBVIOUS
    <3> QED  BY <2>1, <3>1
  <2>3. h = [i \in 0..(n + 1) |->
               IF i = 0 THEN {Charged(charge, s)} ELSE AppliedToEach(txn.ops[i], h[i - 1])]
    BY <2>2
  <2> QED  BY <2>3 DEF Applies
<1>3. Nat \subseteq S
  <2>1. \A n \in Nat : n \in S => n + 1 \in S
    BY <1>2
  <2> HIDE DEF S
  <2> QED  BY <1>1, <2>1, NatSetInduction
<1> QED  BY <1>3

\* The ledgers after each operation, from the charge to the end.
InOrder(g, txn, charge, s) ==
    /\ g[0] = {Charged(charge, s)}
    /\ \A i \in 1..Len(txn.ops) : g[i] = AppliedToEach(txn.ops[i], g[i - 1])
    /\ AllApplied(txn, charge, s) = g[Len(txn.ops)]

LEMMA AppliedInOrder ==
    ASSUME NEW txn, IsTransaction(txn), NEW charge, NEW s
    PROVE  /\ Len(txn.ops) \in Nat /\ DOMAIN txn.ops = 1..Len(txn.ops)
           /\ \E g : InOrder(g, txn, charge, s)
<1> DEFINE n == Len(txn.ops)
<1>1. n \in Nat /\ DOMAIN txn.ops = 1..n
  BY DEF IsTransaction
<1> DEFINE g == CHOOSE g : Applies(g, txn, charge, s, n)
<1>2. AllApplied(txn, charge, s) = g[n]
  BY DEF AllApplied, Applies
<1> HIDE DEF n
<1>3. Applies(g, txn, charge, s, n)
  BY <1>1, AppliesExists
<1> HIDE DEF g
<1>4. g[0] = {Charged(charge, s)}
  BY <1>1, <1>3 DEF Applies
<1>5. \A i \in 1..n : g[i] = AppliedToEach(txn.ops[i], g[i - 1])
  <2> SUFFICES ASSUME NEW i \in 1..n  PROVE g[i] = AppliedToEach(txn.ops[i], g[i - 1])
    OBVIOUS
  <2>1. i \in 0..n /\ i # 0
    BY <1>1
  <2> QED  BY <1>3, <2>1 DEF Applies
<1>6. InOrder(g, txn, charge, s)
  BY <1>2, <1>4, <1>5 DEF InOrder, n
<1> QED  BY <1>1, <1>6 DEF n

LEMMA FeeLeaves ==
    ASSUME NEW charge, NEW s, Pays(charge, s)
    PROVE  Charged(charge, s) \in Leaves(s, charge.payer, Native, charge.fee)
BY DEF Charged, Pays, Leaves

\* What no operation of the transaction may touch has stayed.
Spared(txn, s, t) ==
    LET ops == {txn.ops[i] : i \in DOMAIN txn.ops}
    IN  /\ IsLedgerState(t)
        /\ (\E op \in ops : Closes(op)) \/ NoneClosed(s, t)
        /\ (\E op \in ops : Trusts(op)) \/ SameTrust(s, t)
        /\ (\E op \in ops : Signs(op)) \/ NoSignerAdded(s, t)
        /\ (\E op \in ops : DropsMaster(op)) \/ MastersKept(s, t)
        /\ (\E op \in ops : Approves(op)) \/ t.allowances = s.allowances

LEMMA SparedStep ==
    ASSUME NEW txn, NEW s, NEW u, NEW t, NEW i \in DOMAIN txn.ops, Spared(txn, s, u),
           LeavesAlone(txn.ops[i], u, t)
    PROVE  Spared(txn, s, t)
<1>1. NoneClosed(s, u) /\ NoneClosed(u, t) => NoneClosed(s, t)
  BY DEF NoneClosed
<1>2. SameTrust(s, u) /\ SameTrust(u, t) => SameTrust(s, t)
  BY DEF SameTrust
<1>3. NoSignerAdded(s, u) /\ NoSignerAdded(u, t) => NoSignerAdded(s, t)
  BY DEF NoSignerAdded
<1>4. MastersKept(s, u) /\ MastersKept(u, t) => MastersKept(s, t)
  BY DEF MastersKept
<1> QED  BY <1>1, <1>2, <1>3, <1>4 DEF Spared, LeavesAlone

LEMMA FeeSpared ==
    ASSUME NEW txn, IsTransaction(txn), NEW charge, IsCharge(charge), NEW s, IsLedgerState(s),
           Pays(charge, s)
    PROVE  Spared(txn, s, Charged(charge, s))
<1>1. charge.payer \in Accounts /\ Native \in Assets /\ charge.fee \in Nat
  BY DEF IsCharge, Assets
<1> DEFINE t == Charged(charge, s)
<1>2. /\ IsLedgerState(t) /\ t.signers = s.signers /\ t.allowances = s.allowances
      /\ \A b \in Accounts, j \in Assets : t.bal[b][j] = None <=> s.bal[b][j] = None
  <2> HIDE DEF t
  <2>1. t \in Leaves(s, charge.payer, Native, charge.fee)
    BY FeeLeaves DEF t
  <2> QED  BY <1>1, <2>1, LeavesEffect
<1> HIDE DEF t
<1>3. Spared(txn, s, t)
  BY <1>2 DEF Spared, NoneClosed, SameTrust, NoSignerAdded, MastersKept, Assets
<1> QED  BY <1>3 DEF t

LEMMA TransactionSpares ==
    ASSUME NEW txn, IsTransaction(txn), NEW charge, IsCharge(charge), NEW s, IsLedgerState(s),
           Pays(charge, s)
    PROVE  \A t \in AllApplied(txn, charge, s) : Spared(txn, s, t)
<1> DEFINE n == Len(txn.ops)
<1>1. n \in Nat /\ DOMAIN txn.ops = 1..n
  BY AppliedInOrder
<1>0. PICK g : InOrder(g, txn, charge, s)
  BY AppliedInOrder
<1>2. /\ g[0] = {Charged(charge, s)}
      /\ \A i \in 1..n : g[i] = AppliedToEach(txn.ops[i], g[i - 1])
      /\ AllApplied(txn, charge, s) = g[n]
  BY <1>0 DEF InOrder
<1> HIDE DEF n
<1> DEFINE S == {i \in 0..n : \A t \in g[i] : Spared(txn, s, t)}
<1>3. 0 \in S
  BY <1>1, <1>2, FeeSpared
<1>4. \A i \in 1..n : i - 1 \in S => i \in S
  <2> SUFFICES ASSUME NEW i \in 1..n, i - 1 \in S, NEW t \in g[i]  PROVE Spared(txn, s, t)
    BY <1>1
  <2>1. PICK u \in g[i - 1] : u.bal[txn.ops[i].source][Native] # None
        /\ t \in Applied(txn.ops[i], u)
    BY <1>2 DEF AppliedToEach
  <2>2. Spared(txn, s, u) /\ IsLedgerState(u)
    BY <2>1 DEF Spared
  <2>3. i \in DOMAIN txn.ops /\ IsOperation(txn.ops[i])
    BY <1>1 DEF IsTransaction
  <2>4. LeavesAlone(txn.ops[i], u, t)
    BY <2>1, <2>2, <2>3, OperationAlone
  <2> QED  BY <2>2, <2>3, <2>4, SparedStep
<1>5. \A i \in 0..n : i \in S
  <2> HIDE DEF S
  <2> QED  BY <1>1, <1>3, <1>4, AlongOperations
<1> QED  BY <1>1, <1>2, <1>5

\* Whether its operations are applied or only its charge is taken.
LEMMA OutcomeSpares ==
    ASSUME NEW txn, IsTransaction(txn), NEW charge, IsCharge(charge), NEW s, IsLedgerState(s),
           NEW t \in Outcomes(txn, charge, s)
    PROVE  Pays(charge, s) /\ Spared(txn, s, t)
BY TransactionSpares, FeeSpared DEF Outcomes

--------------------------------------------------------------------------------
(* The projected balances are a floor *)

LEMMA OneLeg ==
    ASSUME NEW who, NEW k, NEW n, NEW a, NEW j
    PROVE  OnRow({Leg(who, k, n)}, a, j) = IF who = a /\ k = j THEN n ELSE 0
<1> DEFINE own == {leg \in {Leg(who, k, n)} : leg.who = a /\ leg.key = j}
<1>1. CASE who = a /\ k = j
  <2>1. own = {Leg(who, k, n)}
    BY <1>1 DEF Leg
  <2> HIDE DEF own
  <2>2. (CHOOSE leg \in own : TRUE) = Leg(who, k, n)
    BY <2>1
  <2>3. OnRow({Leg(who, k, n)}, a, j) = IF own = {} THEN 0 ELSE (CHOOSE leg \in own : TRUE).amount
    BY DEF OnRow, own
  <2> QED  BY <1>1, <2>1, <2>2, <2>3 DEF Leg
<1>2. CASE ~(who = a /\ k = j)
  <2>1. own = {}
    BY <1>2 DEF Leg
  <2> QED  BY <1>2, <2>1 DEF OnRow
<1> QED  BY <1>1, <1>2

LEMMA NoLeg == ASSUME NEW a, NEW j  PROVE OnRow({}, a, j) = 0
BY DEF OnRow

\* The operations that Projected admits.
Follows(op) ==
    /\ op.kind \notin Unfollowed
    /\ op.kind = "invokeHostFunction" => op.fn # "transfer"

\* A payment, at whatever price, leaves what the projection says or more.
LEMMA ExchangeIsFloor ==
    ASSUME NEW s, IsLedgerState(s), NEW from \in Accounts, NEW to \in Accounts,
           NEW out \in Assets, NEW in \in Assets, NEW n \in Nat, NEW m \in Nat,
           NEW t \in Exchange(s, from, out, n, to, in, m), NEW most \in Nat, n <= most,
           NEW least \in Nat, least <= m, NEW a \in Accounts, NEW j \in Assets
    PROVE  Held(t, a, j) >= Held(s, a, j) + (OnRow({Leg(to, in, least)}, a, j)
                                             - OnRow({Leg(from, out, most)}, a, j))
<1>1. Held(t, a, j) = Held(s, a, j) - (IF a = from /\ j = out THEN n ELSE 0)
                                    + (IF a = to /\ j = in THEN m ELSE 0)
  BY ExchangeEffect
<1>2. Held(s, a, j) \in Nat
  BY BalanceType DEF Held, None
<1>3. /\ OnRow({Leg(to, in, least)}, a, j) = IF to = a /\ in = j THEN least ELSE 0
      /\ OnRow({Leg(from, out, most)}, a, j) = IF from = a /\ out = j THEN most ELSE 0
  BY OneLeg
<1> QED  BY <1>1, <1>2, <1>3

LEMMA ChangeType ==
    ASSUME NEW op, IsOperation(op), Follows(op), NEW txn, NEW L, NEW sim, NEW a, NEW j
    PROVE  Change(txn, L, sim, op, a, j) \in Int
<1> DEFINE d == Debits(txn, L, sim, op)
<1> DEFINE c == Credits(txn, L, sim, op)
<1>1. OnRow(d, a, j) \in Int /\ OnRow(c, a, j) \in Int
  <2>1. CASE op.kind \in {"payment", "createAccount"}
    <3> DEFINE k == IF op.kind = "payment" THEN op.asset ELSE Native
    <3>1. d = {Leg(op.source, k, op.amount)} /\ op.amount \in Nat
      BY <2>1 DEF Debits, IsOperation
    <3>2. c = {Leg(op.dest, k, op.amount)}
      BY <2>1, <3>1 DEF Credits, Leg
    <3> QED  BY <3>1, <3>2, OneLeg
  <2>2. CASE op.kind \in {"pathPaymentStrictSend", "pathPaymentStrictReceive"}
    <3>1. d = {Leg(op.source, op.asset, op.amount)}
          /\ c = {Leg(op.dest, op.destAsset, op.destAmount)}
          /\ {op.amount, op.destAmount} \subseteq Nat
      BY <2>2 DEF Debits, Credits, IsOperation
    <3> QED  BY <3>1, OneLeg
  <2>3. CASE op.kind = "clawback"
    <3>1. d = {Leg(op.dest, op.asset, op.amount)} /\ c = {} /\ op.amount \in Nat
      BY <2>3 DEF Debits, Credits, IsOperation
    <3> QED  BY <3>1, OneLeg, NoLeg
  <2>4. CASE op.kind \in {"changeTrust", "setOptions", "invokeHostFunction",
                         "claimClaimableBalance", "liquidityPoolWithdraw"}
    <3>1. d = {} /\ c = {}
      BY <2>4 DEF Debits, Credits, Follows
    <3> QED  BY <3>1, NoLeg
  <2> QED  BY <2>1, <2>2, <2>3, <2>4 DEF IsOperation, Follows, Unfollowed
<1> QED  BY <1>1 DEF Change

LEMMA ChangeIsFloor ==
    ASSUME NEW op, IsOperation(op), Follows(op), NEW txn, NEW L, NEW sim,
           NEW s, IsLedgerState(s), s.bal[op.source][Native] # None,
           NEW t \in Applied(op, s), NEW a \in Accounts, NEW j \in Assets
    PROVE  Held(t, a, j) >= Held(s, a, j) + Change(txn, L, sim, op, a, j)
<1> DEFINE src == op.source
<1>1. src \in Accounts /\ Native \in Assets /\ USDC \in Assets
  BY DEF IsOperation, Assets
<1>2. CASE op.kind = "payment"
  <2>1. op.dest \in Accounts /\ op.amount \in Nat /\ op.asset \in Assets
    BY <1>2 DEF IsOperation, Assets
  <2>2. t \in Exchange(s, src, op.asset, op.amount, op.dest, op.asset, op.amount)
    BY <1>2 DEF Applied, Transfer
  <2>3. Debits(txn, L, sim, op) = {Leg(src, op.asset, op.amount)}
    BY <1>2 DEF Debits
  <2>4. Credits(txn, L, sim, op) = {Leg(op.dest, op.asset, op.amount)}
    BY <1>2, <2>3 DEF Credits, Leg
  <2> QED  BY <1>1, <2>1, <2>2, <2>3, <2>4, ExchangeIsFloor DEF Change
<1>3. CASE op.kind = "createAccount"
  <2> DEFINE r == With(s, op.dest, Native, 0)
  <2>1. op.dest \in Accounts /\ op.amount \in Nat
    BY <1>3 DEF IsOperation
  <2>2. s.bal[op.dest][Native] = None
        /\ t \in Exchange(r, src, Native, op.amount, op.dest, Native, op.amount)
    BY <1>3 DEF Applied, Transfer
  <2>3. Sets(s, r, op.dest, Native, 0)
    BY <1>1, <2>1, WithSets
  <2> HIDE DEF r
  <2>4. IsLedgerState(r) /\ Held(r, a, j) = Held(s, a, j)
    BY <2>2, <2>3 DEF Sets, Held, None
  <2>5. Debits(txn, L, sim, op) = {Leg(src, Native, op.amount)}
    BY <1>3 DEF Debits
  <2>6. Credits(txn, L, sim, op) = {Leg(op.dest, Native, op.amount)}
    BY <1>3, <2>5 DEF Credits, Leg
  <2>7. Held(t, a, j) >= Held(r, a, j) + Change(txn, L, sim, op, a, j)
    BY <1>1, <2>1, <2>2, <2>4, <2>5, <2>6, ExchangeIsFloor DEF Change
  <2> QED  BY <2>4, <2>7
<1>4. CASE op.kind \in {"pathPaymentStrictSend", "pathPaymentStrictReceive"}
  <2>1. op.dest \in Accounts /\ {op.amount, op.destAmount} \subseteq Nat
        /\ {op.asset, op.destAsset} \subseteq Assets
    BY <1>4 DEF IsOperation, Assets
  <2>2. PICK n \in Nat : \E m \in Nat :
           /\ n <= op.amount /\ op.destAmount <= m
           /\ t \in Exchange(s, src, op.asset, n, op.dest, op.destAsset, m)
    <3>1. CASE op.kind = "pathPaymentStrictSend"
      <4>1. PICK m \in op.destAmount..op.destAmount + 1 :
               t \in Exchange(s, src, op.asset, op.amount, op.dest, op.destAsset, m)
        BY <3>1 DEF Applied
      <4>2. m \in Nat /\ op.destAmount <= m /\ op.amount \in Nat /\ op.amount <= op.amount
        BY <2>1, <4>1
      <4> QED  BY <4>1, <4>2
    <3>2. CASE op.kind = "pathPaymentStrictReceive"
      <4>1. PICK n \in {0, op.amount} :
               t \in Exchange(s, src, op.asset, n, op.dest, op.destAsset, op.destAmount)
        BY <3>2 DEF Applied
      <4>2. n \in Nat /\ n <= op.amount /\ op.destAmount \in Nat /\ op.destAmount <= op.destAmount
        BY <2>1, <4>1
      <4> QED  BY <4>1, <4>2
    <3> QED  BY <1>4, <3>1, <3>2
  <2>3. PICK m \in Nat : /\ n <= op.amount /\ op.destAmount <= m
                         /\ t \in Exchange(s, src, op.asset, n, op.dest, op.destAsset, m)
    BY <2>2
  <2>4. Debits(txn, L, sim, op) = {Leg(src, op.asset, op.amount)}
        /\ Credits(txn, L, sim, op) = {Leg(op.dest, op.destAsset, op.destAmount)}
    BY <1>4 DEF Debits, Credits
  <2> QED  BY <1>1, <2>1, <2>3, <2>4, ExchangeIsFloor DEF Change
<1>5. CASE op.kind = "clawback"
  <2>1. op.dest \in Accounts /\ op.amount \in Nat /\ op.asset \in Assets
    BY <1>5 DEF IsOperation, Assets
  <2>2. t \in Leaves(s, op.dest, op.asset, op.amount)
    BY <1>5 DEF Applied
  <2>3. Held(t, a, j) = Held(s, a, j) - (IF a = op.dest /\ j = op.asset THEN op.amount ELSE 0)
    BY <2>1, <2>2, LeavesEffect
  <2>4. Debits(txn, L, sim, op) = {Leg(op.dest, op.asset, op.amount)}
        /\ Credits(txn, L, sim, op) = {}
    BY <1>5 DEF Debits, Credits
  <2>5. Change(txn, L, sim, op, a, j) = 0 - (IF op.dest = a /\ op.asset = j THEN op.amount ELSE 0)
    BY <2>4, OneLeg, NoLeg DEF Change
  <2>6. Held(s, a, j) \in Nat
    BY BalanceType DEF Held, None
  <2> QED  BY <2>1, <2>3, <2>5, <2>6
<1>6. CASE op.kind \in {"changeTrust", "setOptions", "invokeHostFunction"}
  <2>1. Debits(txn, L, sim, op) = {} /\ Credits(txn, L, sim, op) = {}
    BY <1>6 DEF Debits, Credits, Follows
  <2>2. Change(txn, L, sim, op, a, j) = 0
    BY <2>1, NoLeg DEF Change
  <2>3. Held(s, a, j) \in Nat
    BY BalanceType DEF Held, None
  <2>4. Held(t, a, j) = Held(s, a, j)
    <3>1. CASE t = s \/ t.bal = s.bal
      BY <3>1 DEF Held
    <3>2. CASE op.kind = "changeTrust" /\ ~op.pool /\ t # s
      <4>1. PICK v \in {None, 0} : t = With(s, src, USDC, v) /\ s.bal[src][USDC] \in {None, 0}
        BY <3>2 DEF Applied
      <4>2. Sets(s, t, src, USDC, v)
        BY <1>1, <4>1, WithSets
      <4> QED  BY <4>1, <4>2 DEF Sets, Held, None
    <3>3. CASE op.kind = "changeTrust" /\ op.pool
      BY <3>1, <3>3 DEF Applied
    <3>4. CASE op.kind = "setOptions"
      <4>1. \E signers : t = [s EXCEPT !.signers = signers]
        BY <3>4 DEF Applied
      <4> QED  BY <3>1, <4>1 DEF IsLedgerState
    <3>5. CASE op.kind = "invokeHostFunction"
      <4>1. t = s \/ \E allowed : t = [s EXCEPT !.allowances = allowed]
        BY <3>5 DEF Applied, Follows
      <4> QED  BY <3>1, <4>1 DEF IsLedgerState
    <3> QED  BY <1>6, <3>1, <3>2, <3>3, <3>4, <3>5
  <2> QED  BY <2>2, <2>3, <2>4
<1>7. CASE op.kind \in {"claimClaimableBalance", "liquidityPoolWithdraw"}
  <2>1. Debits(txn, L, sim, op) = {} /\ Credits(txn, L, sim, op) = {}
    BY <1>7 DEF Debits, Credits
  <2>2. Change(txn, L, sim, op, a, j) = 0
    BY <2>1, NoLeg DEF Change
  <2>3. Held(s, a, j) \in Nat
    BY BalanceType DEF Held, None
  <2>4. Held(t, a, j) >= Held(s, a, j)
    <3>1. CASE op.kind = "claimClaimableBalance"
      <4>1. op.amount \in Nat /\ op.asset \in Assets
        BY <3>1 DEF IsOperation, Assets
      <4>2. t \in Arrives(s, src, op.asset, op.amount)
        BY <3>1 DEF Applied
      <4> QED  BY <1>1, <4>1, <4>2, ArrivesEffect
    <3>2. CASE op.kind = "liquidityPoolWithdraw"
      BY <3>2, WithdrawEffect
    <3> QED  BY <1>7, <3>1, <3>2
  <2> QED  BY <2>2, <2>3, <2>4
<1> QED  BY <1>2, <1>3, <1>4, <1>5, <1>6, <1>7 DEF IsOperation, Follows, Unfollowed

\* g is the function Changed(first, txn, L, sim, a, j) is computed with.
Projects(g, first, txn, L, sim, a, j, n) ==
    g = [i \in 0..n |-> IF i = 0 THEN first ELSE g[i - 1] + Change(txn, L, sim, txn.ops[i], a, j)]

LEMMA ProjectsExists ==
    ASSUME NEW first, NEW txn, NEW L, NEW sim, NEW a, NEW j
    PROVE  \A n \in Nat : \E g : Projects(g, first, txn, L, sim, a, j, n)
<1> DEFINE D(i) == Change(txn, L, sim, txn.ops[i], a, j)
<1> DEFINE S == {n \in Nat : \E g : g = [i \in 0..n |-> IF i = 0 THEN first ELSE g[i - 1] + D(i)]}
<1> HIDE DEF D
<1>1. 0 \in S
  <2> DEFINE g == [i \in 0..0 |-> first]
  <2>1. g = [i \in 0..0 |-> IF i = 0 THEN first ELSE g[i - 1] + D(i)]
    OBVIOUS
  <2> QED  BY <2>1
<1>2. ASSUME NEW n \in Nat, NEW g, g = [i \in 0..n |-> IF i = 0 THEN first ELSE g[i - 1] + D(i)]
      PROVE  \E h : h = [i \in 0..(n + 1) |-> IF i = 0 THEN first ELSE h[i - 1] + D(i)]
  <2> DEFINE h == [i \in 0..(n + 1) |-> IF i = 0 THEN first ELSE g[i - 1] + D(i)]
  <2>1. ASSUME NEW i \in 0..n  PROVE h[i] = g[i]
    <3>1. g[i] = IF i = 0 THEN first ELSE g[i - 1] + D(i)
      BY <1>2
    <3>2. i \in 0..(n + 1)
      OBVIOUS
    <3> QED  BY <3>1, <3>2
  <2>2. \A i \in 0..(n + 1) : i # 0 => h[i - 1] = g[i - 1]
    <3> HIDE DEF h
    <3>1. \A i \in 0..(n + 1) : i # 0 => i - 1 \in 0..n
      OBVIOUS
    <3> QED  BY <2>1, <3>1
  <2>3. h = [i \in 0..(n + 1) |-> IF i = 0 THEN first ELSE h[i - 1] + D(i)]
    BY <2>2
  <2> QED  BY <2>3
<1>3. Nat \subseteq S
  <2>1. \A n \in Nat : n \in S => n + 1 \in S
    BY <1>2
  <2> HIDE DEF S
  <2> QED  BY <1>1, <2>1, NatSetInduction
<1> QED  BY <1>3 DEF D, Projects

\* The projection after each operation.
LEMMA ChangedInOrder ==
    ASSUME NEW txn, Len(txn.ops) \in Nat, NEW first, NEW L, NEW sim, NEW a, NEW j
    PROVE  \E g : /\ g[0] = first
                  /\ \A i \in 1..Len(txn.ops) :
                        g[i] = g[i - 1] + Change(txn, L, sim, txn.ops[i], a, j)
                  /\ Changed(first, txn, L, sim, a, j) = g[Len(txn.ops)]
<1> DEFINE n == Len(txn.ops)
<1> DEFINE g == CHOOSE g : Projects(g, first, txn, L, sim, a, j, n)
<1>1. Changed(first, txn, L, sim, a, j) = g[n]
  BY DEF Changed, Projects
<1> HIDE DEF n
<1>2. n \in Nat
  BY DEF n
<1>3. Projects(g, first, txn, L, sim, a, j, n)
  BY <1>2, ProjectsExists
<1> HIDE DEF g
<1>4. g[0] = first
  BY <1>2, <1>3 DEF Projects
<1>5. ASSUME NEW i \in 1..n  PROVE g[i] = g[i - 1] + Change(txn, L, sim, txn.ops[i], a, j)
  <2>1. i \in 0..n /\ i # 0
    BY <1>2
  <2> QED  BY <1>3, <2>1 DEF Projects
<1> QED  BY <1>1, <1>4, <1>5 DEF n

LEMMA ProjectedFollows ==
    ASSUME NEW txn, IsTransaction(txn), Projected(txn)
    PROVE  \A i \in DOMAIN txn.ops : Follows(txn.ops[i])
BY DEF Projected, Follows, ToSet

\* No operation brings an account less than the projection says; the fee, no less but for
\* what is unseen of it.
LEMMA DeltaIsFloor ==
    ASSUME NEW txn, IsTransaction(txn), Projected(txn), NEW charge, IsCharge(charge),
           NEW s, IsLedgerState(s), Pays(charge, s), NEW sim, NEW a \in Accounts, NEW j \in Assets,
           NEW t \in AllApplied(txn, charge, s)
    PROVE  /\ Delta(txn, s, sim, a, j) \in Int
           /\ UnseenFee(txn, charge, a, j) \in Int
           /\ Held(t, a, j) + UnseenFee(txn, charge, a, j)
                  >= Held(s, a, j) + Delta(txn, s, sim, a, j)
<1> DEFINE n == Len(txn.ops)
<1> DEFINE first == IF a = txn.source /\ j = Native THEN -txn.fee ELSE 0
<1>1. n \in Nat /\ DOMAIN txn.ops = 1..n
  BY AppliedInOrder
<1>0. PICK g : InOrder(g, txn, charge, s)
  BY AppliedInOrder
<1>2. /\ g[0] = {Charged(charge, s)}
      /\ \A i \in 1..n : g[i] = AppliedToEach(txn.ops[i], g[i - 1])
      /\ AllApplied(txn, charge, s) = g[n]
  BY <1>0 DEF InOrder
<1>3. PICK d : /\ d[0] = first
               /\ \A i \in 1..n : d[i] = d[i - 1] + Change(txn, s, sim, txn.ops[i], a, j)
               /\ Changed(first, txn, s, sim, a, j) = d[n]
  BY SMTT(30), <1>1, ChangedInOrder
<1>4. Delta(txn, s, sim, a, j) = d[n]
  BY <1>3 DEF Delta
<1> DEFINE unseen == UnseenFee(txn, charge, a, j)
<1>5. first \in Int /\ charge.payer \in Accounts /\ Native \in Assets /\ txn.fee \in Nat
      /\ charge.fee \in Nat /\ unseen \in Int
  BY DEF IsTransaction, IsCharge, Assets, UnseenFee
<1>6. \A u : IsLedgerState(u) => Held(u, a, j) \in Nat
  BY BalanceType DEF Held, None
<1> HIDE DEF n
<1> DEFINE S == {i \in 0..n : /\ d[i] \in Int
                              /\ \A u \in g[i] : /\ IsLedgerState(u)
                                                 /\ Held(u, a, j) + unseen >= Held(s, a, j) + d[i]}
<1>7. 0 \in S
  <2> DEFINE u == Charged(charge, s)
  <2> HIDE DEF u
  <2>1. u \in Leaves(s, charge.payer, Native, charge.fee)
    BY FeeLeaves DEF u
  <2>2. IsLedgerState(u)
        /\ Held(u, a, j) =
               Held(s, a, j) - (IF a = charge.payer /\ j = Native THEN charge.fee ELSE 0)
    BY <1>5, <2>1, LeavesEffect
  <2>3. Held(u, a, j) + unseen >= Held(s, a, j) + first
    BY <1>5, <1>6, <2>2 DEF UnseenFee
  <2> QED  BY <1>1, <1>2, <1>3, <1>5, <2>2, <2>3 DEF u
<1> HIDE DEF first, unseen
<1>8. \A i \in 1..n : i - 1 \in S => i \in S
  <2> SUFFICES ASSUME NEW i \in 1..n, i - 1 \in S
               PROVE  /\ d[i] \in Int
                      /\ \A u \in g[i] : /\ IsLedgerState(u)
                                         /\ Held(u, a, j) + unseen >= Held(s, a, j) + d[i]
    BY <1>1
  <2> DEFINE c == Change(txn, s, sim, txn.ops[i], a, j)
  <2>1. IsOperation(txn.ops[i]) /\ Follows(txn.ops[i])
    BY <1>1, ProjectedFollows DEF IsTransaction
  <2>2. c \in Int
    BY <2>1, ChangeType
  <2>3. d[i - 1] \in Int /\ d[i] = d[i - 1] + c
    BY <1>3
  <2>4. ASSUME NEW u \in g[i]
        PROVE  IsLedgerState(u) /\ Held(u, a, j) + unseen >= Held(s, a, j) + d[i]
    <3>1. PICK w \in g[i - 1] : w.bal[txn.ops[i].source][Native] # None
          /\ u \in Applied(txn.ops[i], w)
      BY <1>2 DEF AppliedToEach
    <3>2. IsLedgerState(w) /\ Held(w, a, j) + unseen >= Held(s, a, j) + d[i - 1]
      BY <3>1
    <3>3. IsLedgerState(u)
      BY <2>1, <3>1, <3>2, OperationAlone DEF LeavesAlone
    <3>4. Held(u, a, j) >= Held(w, a, j) + c
      BY <2>1, <3>1, <3>2, ChangeIsFloor
    <3>5. Held(u, a, j) \in Nat /\ Held(w, a, j) \in Nat /\ Held(s, a, j) \in Nat
      BY <1>6, <3>2, <3>3
    <3> HIDE DEF c, S
    <3> QED  BY <1>5, <2>2, <2>3, <3>2, <3>3, <3>4, <3>5
  <2> QED  BY <2>2, <2>3, <2>4
<1>9. \A i \in 0..n : i \in S
  <2> HIDE DEF S
  <2> QED  BY <1>1, <1>7, <1>8, AlongOperations
<1>10. n \in S
  BY <1>1, <1>9
<1> QED  BY <1>2, <1>4, <1>5, <1>10 DEF unseen

LEMMA PostBalanceIsFloor ==
    ASSUME NEW txn, IsTransaction(txn), Projected(txn), NEW charge, IsCharge(charge),
           NEW s, IsLedgerState(s), Pays(charge, s), NEW sim, NEW a \in Accounts, NEW j \in Assets,
           NEW t \in AllApplied(txn, charge, s)
    PROVE  postBalance(txn, s, sim, a, j) <= Held(t, a, j) + UnseenFee(txn, charge, a, j)
<1>1. /\ Delta(txn, s, sim, a, j) \in Int /\ UnseenFee(txn, charge, a, j) \in Int
      /\ Held(t, a, j) + UnseenFee(txn, charge, a, j)
             >= Held(s, a, j) + Delta(txn, s, sim, a, j)
  BY DeltaIsFloor
<1>2. IsLedgerState(t)
  BY TransactionSpares DEF Spared
<1>3. Held(s, a, j) \in Nat /\ Held(t, a, j) \in Nat
  BY <1>2, BalanceType DEF Held, None
<1>4. Known(txn, s, a, j) => s.bal[a][j] = Held(s, a, j)
  BY DEF Known, Held
<1> QED  BY <1>1, <1>3, <1>4 DEF postBalance

--------------------------------------------------------------------------------
(* One guarded call: what is signed was vouched for *)

CallShape ==
    call = [stage |-> call.stage, tx |-> call.tx, charge |-> call.charge,
            allowOffline |-> call.allowOffline, bypassedOffline |-> call.bypassedOffline,
            served |-> call.served]

\* Whatever happened to an answer, a signature with the pinned key on it is over the
\* payload of a verdict the pinned server gave.
Genuine(response) ==
    /\ response = Response(response, response.signature) /\ response.safe \in BOOLEAN
    /\ response.signature.by = "pinned" =>
          \E v \in issued : \E signedAt, nonce :
             response.signature.over = canonicalVerdictPayload(v.tx, v, signedAt, nonce)

\* What a signature rests on: the answer on its way, or the exception asked for.
VouchInv ==
    /\ CallShape
    /\ call.bypassedOffline => call.allowOffline
    /\ answer.kind = "verdict" => Genuine(answer)
    /\ SignedIsVouched

LEMMA GuardStarts == GuardInit => VouchInv
BY DEF GuardInit, VouchInv, CallShape, NoAnswer, SignedIsVouched, Signed

\* A verdict is safe or not, and signed by the server or by another.
LEMMA JudgeIsGenuine ==
    ASSUME NEW t, NEW sim, NEW key \in Servers \cup {"none"}, NEW nonce, Judge(t, sim, key, nonce)
    PROVE  /\ answer'.kind = "verdict" /\ Genuine(answer)'
           /\ issued \subseteq issued'
<1> DEFINE verdict == evaluatePolicy(config.policy, User, t, ledger, sim)
<1> DEFINE signature == IF key = "none" THEN NoSignature ELSE signVerdict(key, t, verdict, nonce)
<1>1. verdict.safe \in BOOLEAN
  BY DEF evaluatePolicy
<1> HIDE DEF verdict
<1>2. answer' = Response(verdict, signature)
  BY DEF Judge, verdict
<1>3. answer'.kind = "verdict" /\ answer'.safe = verdict.safe /\ answer'.findings = verdict.findings
      /\ answer'.signature = signature
  BY <1>2 DEF Response
<1>4. ASSUME signature.by = "pinned"
      PROVE  \E v \in issued' : \E signedAt, n :
                signature.over = canonicalVerdictPayload(v.tx, v, signedAt, n)
  <2>1. key = "pinned"
    BY <1>4 DEF NoSignature, signVerdict, Servers
  <2>2. signature.over = canonicalVerdictPayload(t, verdict, moves, nonce)
    BY <2>1 DEF signVerdict
  <2> DEFINE v == [tx |-> t, safe |-> verdict.safe, findings |-> verdict.findings,
                   events |-> sim.events]
  <2>3. v \in issued'
    BY <2>1 DEF Judge, verdict
  <2>4. signature.over = canonicalVerdictPayload(v.tx, v, moves, nonce)
    BY <2>2 DEF canonicalVerdictPayload
  <2> QED  BY <2>3, <2>4
<1>5. issued \subseteq issued'
  BY DEF Judge
<1> QED  BY <1>1, <1>2, <1>3, <1>4, <1>5 DEF Genuine, Response

\* A signed transaction stays vouched for while its call goes on.
LEMMA StaysVouched ==
    ASSUME SignedIsVouched, config' = config, issued \subseteq issued', call'.tx = call.tx,
           call'.bypassedOffline = call.bypassedOffline, call'.allowOffline = call.allowOffline,
           Signed' => Signed
    PROVE  SignedIsVouched'
BY DEF SignedIsVouched, Vouchers

LEMMA AnswerKept ==
    ASSUME answer.kind = "verdict" => Genuine(answer), UNCHANGED answer, issued \subseteq issued'
    PROVE  answer'.kind = "verdict" => Genuine(answer)'
BY DEF Genuine

\* guardedSign goes on without an answer only when told that it may.
LEMMA OfflineVouched ==
    ASSUME VouchInv, OfflineOrThrow, UNCHANGED <<config, issued>>, call.stage = "asking"
    PROVE  /\ CallShape' /\ (call'.bypassedOffline => call'.allowOffline)
           /\ SignedIsVouched'
<1>1. CASE call.allowOffline
  BY <1>1 DEF VouchInv, CallShape, OfflineOrThrow, SignedIsVouched
<1>2. CASE ~call.allowOffline
  BY <1>2 DEF VouchInv, CallShape, OfflineOrThrow, SignedIsVouched, Signed
<1> QED  BY <1>1, <1>2

\* With a pinned key, only the payload of a verdict given on this transaction and found
\* safe gets past Decide.
LEMMA DecideVouched ==
    ASSUME VouchInv, Decide  PROVE VouchInv'
<1> USE DEF VouchInv
<1>1. answer.kind = "verdict" /\ answer' = NoAnswer /\ UNCHANGED <<config, issued>>
  BY DEF Decide
<1>2. CASE call' = [call EXCEPT !.stage = "threw"]
  BY <1>1, <1>2 DEF CallShape, SignedIsVouched, Signed, NoAnswer
<1>3. CASE /\ call' = [call EXCEPT !.stage = "signed"]
           /\ ~(config.pinned /\ ~Verified(call.tx, answer)) /\ answer.safe
  <2>1. ASSUME config.pinned  PROVE \E v \in issued : v.tx = call.tx /\ v.safe
    <3>1. PICK at, once : /\ answer.signature.by = "pinned"
                          /\ answer.signature.over =
                                 canonicalVerdictPayload(call.tx, answer, at, once)
      BY <1>3, <2>1 DEF Verified
    <3>2. PICK v \in issued : \E signedAt, nonce :
             answer.signature.over = canonicalVerdictPayload(v.tx, v, signedAt, nonce)
      BY <1>1, <3>1 DEF Genuine
    <3>3. PICK signedAt, nonce :
             answer.signature.over = canonicalVerdictPayload(v.tx, v, signedAt, nonce)
      BY <3>2
    <3>4. v.tx = call.tx /\ v.safe = answer.safe
      BY <3>1, <3>3 DEF canonicalVerdictPayload
    <3> QED  BY <3>4, <1>3
  <2>2. call'.tx = call.tx /\ CallShape' /\ (call'.bypassedOffline => call'.allowOffline)
    BY <1>3 DEF CallShape
  <2>3. SignedIsVouched'
    BY <1>1, <2>1, <2>2 DEF SignedIsVouched, Vouchers
  <2> QED  BY <1>1, <2>2, <2>3 DEF NoAnswer
<1>4. \/ call' = [call EXCEPT !.stage = "threw"]
      \/ /\ call' = [call EXCEPT !.stage = "signed"]
         /\ ~(config.pinned /\ ~Verified(call.tx, answer)) /\ answer.safe
  BY DEF Decide, Throw
<1> QED  BY <1>2, <1>3, <1>4

\* Altering an answer keeps what its signature is over, or drops the signature.
LEMMA AlterVouched ==
    ASSUME VouchInv, Alter  PROVE VouchInv'
<1> USE DEF VouchInv
<1>1. UNCHANGED <<config, call, issued>> /\ Genuine(answer)
  BY DEF Alter
<1>2. answer.safe \in BOOLEAN /\ answer = [kind |-> "verdict", safe |-> answer.safe,
                 findings |-> answer.findings, signature |-> answer.signature]
  BY <1>1 DEF Genuine, Response
<1>3. ASSUME answer'.kind = "verdict"  PROVE Genuine(answer)'
  <2>1. CASE answer' = [answer EXCEPT !.safe = ~@]
    <3>1. answer' = [kind |-> "verdict", safe |-> ~answer.safe, findings |-> answer.findings,
                     signature |-> answer.signature]
      BY <1>2, <2>1
    <3> QED  BY <1>1, <1>2, <3>1 DEF Genuine, Response
  <2>2. CASE answer' = [answer EXCEPT !.findings = {}]
    <3>1. answer' = [kind |-> "verdict", safe |-> answer.safe, findings |-> {},
                     signature |-> answer.signature]
      BY <1>2, <2>2
    <3> QED  BY <1>1, <1>2, <3>1 DEF Genuine, Response
  <2>3. CASE answer' = [answer EXCEPT !.signature = NoSignature]
    <3>1. answer' = [kind |-> "verdict", safe |-> answer.safe, findings |-> answer.findings,
                     signature |-> NoSignature]
      BY <1>2, <2>3
    <3> QED  BY <1>1, <1>2, <3>1 DEF Genuine, Response, NoSignature
  <2>4. CASE answer' = [kind |-> "malformed"] \/ answer' = NoAnswer
    BY <1>3, <2>4 DEF NoAnswer
  <2>5. CASE answer' = [answer EXCEPT !.signature = Restamped(@)]
    <3>1. answer' = [kind |-> "verdict", safe |-> answer.safe, findings |-> answer.findings,
                     signature |-> Restamped(answer.signature)]
      BY <1>2, <2>5
    <3>2. /\ Restamped(answer.signature).by = answer.signature.by
          /\ Restamped(answer.signature).over = answer.signature.over
      BY DEF Restamped
    <3> HIDE DEF Restamped
    <3> QED  BY <1>1, <1>2, <3>1, <3>2 DEF Genuine, Response
  <2> QED  BY <2>1, <2>2, <2>3, <2>4, <2>5 DEF Alter
<1>4. CallShape' /\ (call'.bypassedOffline => call'.allowOffline) /\ SignedIsVouched'
  BY <1>1, StaysVouched DEF CallShape, Signed
<1> QED  BY <1>3, <1>4

LEMMA GuardKeeps == VouchInv /\ [GuardNext]_guardVars => VouchInv'
<1> SUFFICES ASSUME VouchInv, [GuardNext]_guardVars  PROVE VouchInv'
  OBVIOUS
<1> USE DEF VouchInv
\* A step of the call that leaves answers alone, and keeps or ends the call.
<1>a. ASSUME UNCHANGED <<config, issued>>, answer' \in {answer, NoAnswer, [kind |-> "refused"]},
             call'.tx = call.tx, call'.allowOffline = call.allowOffline,
             call'.bypassedOffline = call.bypassedOffline, Signed' => Signed, CallShape'
      PROVE  VouchInv'
  <2>1. SignedIsVouched'
    BY <1>a, StaysVouched
  <2>2. answer'.kind = "verdict" => Genuine(answer)'
    BY <1>a, AnswerKept DEF NoAnswer
  <2> QED  BY <1>a, <2>1, <2>2
<1>1. CASE UNCHANGED guardVars
  <2>1. Signed' = Signed
    BY <1>1 DEF guardVars, Signed
  <2> QED  BY <1>1, <1>a, <2>1 DEF guardVars, CallShape
<1>2. ASSUME NEW e \in Envelopes, NEW allowOffline \in BOOLEAN, guardedSubmit(e, allowOffline)
      PROVE  VouchInv'
  <2>1. call'.stage \in {"asking", "threw"} /\ call'.bypassedOffline = FALSE
        /\ UNCHANGED <<config, answer, issued>> /\ CallShape'
    BY <1>2 DEF guardedSubmit, CallShape
  <2> QED  BY <2>1, AnswerKept DEF SignedIsVouched, Signed
<1>3. CASE assertSecureBaseUrl
  <2>1. OfflineOrThrow /\ UNCHANGED <<config, issued, answer>> /\ call.stage = "asking"
    BY <1>3 DEF assertSecureBaseUrl
  <2> QED  BY <2>1, OfflineVouched, AnswerKept
<1>4. CASE Decide
  BY <1>4, DecideVouched
<1>5. CASE Misread
  <2>1. call' = [call EXCEPT !.stage = "threw"] /\ answer' = NoAnswer
        /\ UNCHANGED <<config, issued>>
    BY <1>5 DEF Misread, Throw
  <2> QED  BY <2>1, <1>a DEF CallShape, Signed
<1>6. CASE AnalyzeFails
  <2>1. OfflineOrThrow /\ answer' = NoAnswer /\ UNCHANGED <<config, issued>>
        /\ call.stage = "asking"
    BY <1>6 DEF AnalyzeFails
  <2> QED  BY <2>1, OfflineVouched DEF NoAnswer
<1>7. CASE submitTransaction
  <2>1. call' = [call EXCEPT !.stage = "submitting"] /\ call.stage = "signed"
        /\ UNCHANGED <<config, issued, answer>>
    BY <1>7 DEF submitTransaction
  <2> QED  BY <2>1, <1>a DEF CallShape, Signed
<1>8. CASE Refuse
  <2>1. call' = [call EXCEPT !.served = TRUE] /\ answer' = [kind |-> "refused"]
        /\ UNCHANGED <<config, issued>>
    BY <1>8 DEF Refuse, Served
  <2> QED  BY <2>1, <1>a DEF CallShape, Signed
<1>9. ASSUME NEW t, NEW sim, NEW key \in Servers \cup {"none"}, NEW nonce,
             Judge(t, sim, key, nonce), Served, UNCHANGED config
      PROVE  VouchInv'
  <2>1. answer'.kind = "verdict" /\ Genuine(answer)' /\ issued \subseteq issued'
    BY <1>9, JudgeIsGenuine
  <2>2. call' = [call EXCEPT !.served = TRUE]
    BY <1>9 DEF Served
  <2>3. call'.tx = call.tx /\ call'.allowOffline = call.allowOffline /\ CallShape'
        /\ call'.bypassedOffline = call.bypassedOffline /\ call'.stage = call.stage
    BY <2>2 DEF CallShape
  <2>4. SignedIsVouched'
    BY <1>9, <2>1, <2>3, StaysVouched DEF Signed
  <2> QED  BY <2>1, <2>3, <2>4
<1>10. ASSUME NEW key \in Servers \cup {"none"}, analyzeTransaction(key)  PROVE VouchInv'
  BY <1>9, <1>10 DEF analyzeTransaction
<1>11. CASE MixUp
  BY <1>9, <1>11 DEF MixUp, Servers
<1>12. CASE Alter
  BY <1>12, AlterVouched
<1>13. CASE Move
  <2>1. UNCHANGED <<config, call, answer, issued>>
    BY <1>13 DEF Move
  <2> QED  BY <2>1, <1>a DEF CallShape, Signed
<1>14. CASE Land
  <2>1. UNCHANGED <<config, answer, issued>> /\ call.stage = "submitting"
        /\ \E s \in {"landed", "threw"} : call' = [call EXCEPT !.stage = s]
    BY <1>14 DEF Land
  <2> QED  BY <2>1, <1>a DEF CallShape, Signed
<1>15. CASE Reject
  <2>1. call' = [call EXCEPT !.stage = "threw"] /\ UNCHANGED <<config, answer, issued>>
    BY <1>15 DEF Reject, Throw
  <2> QED  BY <2>1, <1>a DEF CallShape, Signed
<1> QED
  BY <1>1, <1>2, <1>3, <1>4, <1>5, <1>6, <1>7, <1>8, <1>10, <1>11, <1>12, <1>13, <1>14, <1>15
  DEF GuardNext, Agent, Server

\* With a pinned key nothing is signed that the pinned server did not find safe, whatever
\* happened to the answer, or the caller asked for the exception (agent.ts, attestation.ts).
THEOREM SignedWasVouched == GuardSpec => []SignedIsVouched
<1>1. VouchInv => SignedIsVouched
  BY DEF VouchInv
<1> QED  BY <1>1, GuardStarts, GuardKeeps, PTL DEF GuardSpec

--------------------------------------------------------------------------------
(* One guarded call: what lands is what was judged *)

\* A verdict the server gives on this transaction over the ledger as it is.
JudgedOn(txn, v) ==
    \E sim \in Simulations(txn) :
        /\ evaluatePolicy(config.policy, User, txn, ledger, sim).safe
        /\ v.events = sim.events

Before == {"asking", "signed", "submitting"}

\* Until the ledger moves, every safe verdict on the call is what the server would say
\* of this ledger; before a request was answered there is none.
JudgedInv ==
    /\ IsLedgerState(ledger) /\ config \in Configs
    /\ CallShape /\ (call.stage # "idle" => call.tx \in Txs /\ call.charge \in Charges)
    /\ call.stage = "idle" => ~call.served
    /\ ~call.served => issued = {} /\ ~fresh
    /\ fresh /\ call.stage \in Before => \A v \in Vouchers(call.tx) : JudgedOn(call.tx, v)

\* Every envelope holds a transaction and a charge.
LEMMA InsideEnvelopes ==
    /\ \A t \in Txs : IsTransaction(t)
    /\ \A charge \in Charges : IsCharge(charge)
    /\ \A t \in Background : IsTransaction(t) /\ IsCharge(OwnCharge(t))
BY AgentAssumption DEF Txs, Charges, unwrapInnerTransaction, IsTransaction, IsCharge, OwnCharge

LEMMA JudgedStarts == GuardInit => JudgedInv
BY AgentAssumption DEF GuardInit, JudgedInv, CallShape

\* The invariant of the next state, with the transaction of the call held fast.
LEMMA JudgedForm ==
    ASSUME NEW txn, call'.tx = txn, IsLedgerState(ledger)', config' \in Configs, CallShape',
           call'.stage # "idle" => call'.tx \in Txs /\ call'.charge \in Charges,
           call'.stage = "idle" => ~call'.served,
           ~call'.served => issued' = {} /\ ~fresh',
           fresh' /\ call'.stage \in Before =>
               \A v \in issued' : v.tx = txn /\ v.safe => JudgedOn(txn, v)'
    PROVE  JudgedInv'
BY DEF JudgedInv, JudgedOn, Vouchers

\* What a step of the call that touches neither ledger nor verdicts leaves true.
LEMMA JudgedStays ==
    ASSUME JudgedInv, UNCHANGED <<ledger, config, issued, fresh>>, CallShape',
           call'.tx = call.tx, call'.charge = call.charge, call'.served \in {call.served, TRUE},
           call.stage # "idle" \/ (call'.stage = "idle" /\ call'.served = call.served),
           call'.stage # "idle" \/ call.stage = "idle",
           call'.stage \in Before => call.stage \in Before
    PROVE  JudgedInv'
<1> USE DEF JudgedInv
<1>1. PICK txn : txn = call.tx
  OBVIOUS
<1>2. ASSUME fresh', call'.stage \in Before, NEW v \in issued', v.tx = txn, v.safe
      PROVE  JudgedOn(txn, v)'
  <2>1. v \in Vouchers(call.tx)
    BY <1>1, <1>2 DEF Vouchers
  <2>2. JudgedOn(call.tx, v)
    BY <1>2, <2>1
  <2> QED  BY <1>1, <2>2 DEF JudgedOn
<1> QED  BY <1>1, <1>2, JudgedForm

\* A verdict on this transaction; on another, none that counts.
LEMMA JudgedAnswer ==
    ASSUME JudgedInv, Asked, NEW t, NEW sim \in Simulations(t), NEW key \in Servers \cup {"none"},
           NEW nonce, Judge(t, sim, key, nonce), Served, UNCHANGED <<ledger, config>>,
           (t = call.tx /\ fresh' = TRUE) \/ (t # call.tx /\ fresh' = fresh)
    PROVE  JudgedInv'
<1> USE DEF JudgedInv
<1>1. ~call.served /\ issued = {} /\ ~fresh /\ call.stage = "asking"
  BY DEF Asked
<1>2. call' = [call EXCEPT !.served = TRUE]
  BY DEF Served
<1>3. CallShape' /\ call'.tx = call.tx /\ call'.charge = call.charge /\ call'.stage = call.stage
      /\ call'.served
  BY <1>2 DEF CallShape
<1>4. PICK txn : txn = call.tx
  OBVIOUS
<1>5. ASSUME fresh', NEW v \in issued', v.tx = txn, v.safe  PROVE JudgedOn(txn, v)'
  <2> DEFINE verdict == evaluatePolicy(config.policy, User, t, ledger, sim)
  <2>1. t = txn
    BY <1>1, <1>4, <1>5
  <2>2. v = [tx |-> t, safe |-> verdict.safe, findings |-> verdict.findings, events |-> sim.events]
    BY <1>1, <1>5 DEF Judge
  <2> HIDE DEF verdict
  <2>3. verdict.safe /\ v.events = sim.events
    BY <1>5, <2>2
  <2> QED  BY <2>1, <2>3 DEF JudgedOn, verdict
<1> QED  BY <1>1, <1>3, <1>4, <1>5, JudgedForm

LEMMA JudgedKeeps == JudgedInv /\ [GuardNext]_guardVars => JudgedInv'
<1> SUFFICES ASSUME JudgedInv, [GuardNext]_guardVars  PROVE JudgedInv'
  OBVIOUS
<1>a. CallShape
  BY DEF JudgedInv
<1>1. CASE UNCHANGED guardVars
  BY <1>1, <1>a, JudgedStays DEF guardVars, CallShape
<1>2. ASSUME NEW e \in Envelopes, NEW allowOffline \in BOOLEAN, guardedSubmit(e, allowOffline)
      PROVE  JudgedInv'
  <2>1. UNCHANGED <<ledger, config, issued, fresh>> /\ ~fresh /\ issued = {} /\ CallShape'
        /\ call'.tx \in Txs /\ call'.charge \in Charges /\ call'.stage # "idle"
    BY <1>2 DEF guardedSubmit, JudgedInv, CallShape, Txs, Charges
  <2> QED  BY <2>1, JudgedForm DEF JudgedInv
<1>3. ASSUME NEW s \in CallStages \ {"idle"}, NEW b \in BOOLEAN,
             UNCHANGED <<ledger, config, issued, fresh>>,
             call' = [[call EXCEPT !.stage = s] EXCEPT !.bypassedOffline = b],
             call.stage # "idle", s \in Before => call.stage \in Before
      PROVE  JudgedInv'
  <2>1. CallShape' /\ call'.tx = call.tx /\ call'.charge = call.charge
        /\ call'.served = call.served /\ call'.stage = s
    BY <1>3, <1>a DEF CallShape
  <2> QED  BY <1>3, <2>1, JudgedStays
<1>4. ASSUME NEW s \in CallStages \ {"idle"}, call' = [call EXCEPT !.stage = s],
             UNCHANGED <<ledger, config, issued, fresh>>,
             call.stage # "idle", s \in Before => call.stage \in Before
      PROVE  JudgedInv'
  <2>1. CallShape' /\ call'.tx = call.tx /\ call'.charge = call.charge
        /\ call'.served = call.served /\ call'.stage = s
    BY <1>4, <1>a DEF CallShape
  <2> QED  BY <1>4, <2>1, JudgedStays
<1>5. ASSUME OfflineOrThrow, call.stage = "asking", UNCHANGED <<ledger, config, issued, fresh>>
      PROVE  JudgedInv'
  <2>1. CallShape' /\ call'.tx = call.tx /\ call'.charge = call.charge
        /\ call'.served = call.served /\ call'.stage \in {"signed", "threw"}
    BY <1>5, <1>a DEF OfflineOrThrow, CallShape
  <2> QED  BY <1>5, <2>1, JudgedStays DEF Before
<1>6. CASE assertSecureBaseUrl \/ AnalyzeFails
  BY <1>5, <1>6 DEF assertSecureBaseUrl, AnalyzeFails
<1>7. CASE Decide \/ Misread
  <2>1. UNCHANGED <<ledger, config, issued, fresh>> /\ call.stage = "asking"
        /\ \E s \in {"signed", "threw"} : call' = [call EXCEPT !.stage = s]
    BY <1>7 DEF Decide, Misread, Throw
  <2> QED  BY <1>4, <2>1 DEF CallStages, Before
<1>8. CASE submitTransaction
  <2>1. UNCHANGED <<ledger, config, issued, fresh>> /\ call.stage = "signed"
        /\ call' = [call EXCEPT !.stage = "submitting"]
    BY <1>8 DEF submitTransaction
  <2> QED  BY <1>4, <2>1 DEF CallStages, Before
<1>9. CASE Refuse
  <2>1. UNCHANGED <<ledger, config, issued, fresh>> /\ call.stage = "asking"
        /\ call' = [call EXCEPT !.served = TRUE]
    BY <1>9 DEF Refuse, Asked, Served
  <2>2. CallShape' /\ call'.tx = call.tx /\ call'.charge = call.charge /\ call'.served = TRUE
        /\ call'.stage = call.stage
    BY <1>a, <2>1 DEF CallShape
  <2>3. call'.served \in {call.served, TRUE} /\ call.stage # "idle" /\ call'.stage # "idle"
        /\ (call'.stage \in Before => call.stage \in Before)
    BY <2>1, <2>2
  <2>4. UNCHANGED <<ledger, config, issued, fresh>> /\ CallShape' /\ call'.tx = call.tx
        /\ call'.charge = call.charge
    BY <2>1, <2>2
  <2> QED  BY <2>3, <2>4, JudgedStays
<1>10. ASSUME NEW key \in Servers \cup {"none"}, analyzeTransaction(key)  PROVE JudgedInv'
  <2>0. PICK t : t = call.tx
    OBVIOUS
  <2>1. PICK sim \in Simulations(t) : \E nonce \in Nonces : Judge(t, sim, key, nonce)
    BY <1>10, <2>0 DEF analyzeTransaction
  <2>5. PICK nonce \in Nonces : Judge(t, sim, key, nonce)
    BY <2>1
  <2>2. Asked /\ Served /\ fresh' = TRUE /\ UNCHANGED <<ledger, config>>
    BY <1>10 DEF analyzeTransaction
  <2>3. (t = call.tx /\ fresh' = TRUE) \/ (t # call.tx /\ fresh' = fresh)
    BY <2>0, <2>2
  <2>4. Asked /\ Served /\ UNCHANGED <<ledger, config>>
    BY <2>2
  <2> QED  BY <2>3, <2>4, <2>5, JudgedAnswer
<1>11. CASE MixUp
  <2>1. PICK t \in Background \ {call.tx} : \E sim \in Simulations(t) : \E nonce \in Nonces :
           Judge(t, sim, "pinned", nonce)
    BY <1>11 DEF MixUp
  <2>2. PICK sim \in Simulations(t), nonce \in Nonces : Judge(t, sim, "pinned", nonce)
    BY <2>1
  <2>3. Asked /\ Served /\ fresh' = fresh /\ UNCHANGED <<ledger, config>> /\ t # call.tx
    BY <1>11, <2>1 DEF MixUp
  <2>4. "pinned" \in Servers \cup {"none"}
    BY DEF Servers
  <2> QED  BY <2>2, <2>3, <2>4, JudgedAnswer
<1>12. CASE Alter
  <2>1. UNCHANGED <<ledger, config, call, issued, fresh>>
    BY <1>12 DEF Alter
  <2> QED  BY <1>a, <2>1, JudgedStays DEF CallShape
<1>13. CASE Move
  <2>1. PICK t \in Background : ledger' \in Outcomes(t, OwnCharge(t), ledger)
    BY <1>13 DEF Move
  <2>2. IsLedgerState(ledger)'
    BY <2>1, OutcomeSpares, InsideEnvelopes DEF JudgedInv, Spared
  <2>3. UNCHANGED <<config, call, issued>> /\ fresh' = FALSE
    BY <1>13 DEF Move
  <2>4. PICK txn : txn = call'.tx
    OBVIOUS
  <2>5. /\ config' \in Configs /\ CallShape' /\ (call'.stage # "idle" => call'.tx \in Txs)
        /\ (call'.stage # "idle" => call'.charge \in Charges)
        /\ (call'.stage = "idle" => ~call'.served) /\ (~call'.served => issued' = {})
    BY <2>3 DEF JudgedInv, CallShape
  <2> QED  BY <2>2, <2>3, <2>4, <2>5, JudgedForm
<1>14. CASE Land
  <2>1. PICK s \in {"landed", "threw"} : call' = [call EXCEPT !.stage = s]
    BY <1>14 DEF Land
  <2>2. call.stage = "submitting" /\ ledger' \in Outcomes(call.tx, call.charge, ledger)
        /\ UNCHANGED <<config, issued, fresh>>
    BY <1>14 DEF Land
  <2>3. IsLedgerState(ledger)'
    BY <2>2, OutcomeSpares, InsideEnvelopes DEF JudgedInv, Spared
  <2>4. CallShape' /\ call'.tx = call.tx /\ call'.charge = call.charge
        /\ call'.served = call.served /\ call'.stage = s
    BY <1>a, <2>1 DEF CallShape
  <2>5. PICK txn : txn = call'.tx
    OBVIOUS
  <2>6. /\ config' \in Configs /\ call'.tx \in Txs /\ call'.charge \in Charges
        /\ call'.stage # "idle"
        /\ call'.stage \notin Before /\ (~call'.served => issued' = {} /\ ~fresh')
    BY <2>2, <2>4 DEF JudgedInv, Before
  <2> QED  BY <2>3, <2>4, <2>5, <2>6, JudgedForm
<1>15. CASE Reject
  <2>1. UNCHANGED <<ledger, config, issued, fresh>> /\ call.stage = "submitting"
        /\ call' = [call EXCEPT !.stage = "threw"]
    BY <1>15 DEF Reject, Throw
  <2> QED  BY <1>4, <2>1 DEF CallStages, Before
<1> QED
  BY <1>1, <1>2, <1>6, <1>7, <1>8, <1>9, <1>10, <1>11, <1>12, <1>13, <1>14, <1>15
  DEF GuardNext, Agent, Server

LEMMA Judged == GuardSpec => []JudgedInv
BY JudgedStarts, JudgedKeeps, PTL DEF GuardSpec

\* What the types add to the two invariants.
Calls == [stage : CallStages, tx : Txs \cup {NoTransaction},
          charge : Charges \cup {OwnCharge(NoTransaction)}, allowOffline : BOOLEAN,
          bypassedOffline : BOOLEAN, served : BOOLEAN]

OfTypes ==
    /\ moves \in 0..MaxMoves /\ call \in Calls /\ fresh \in BOOLEAN
    /\ answer.kind \in {"none", "refused", "malformed", "verdict"}
    /\ \A v \in issued : v.tx \in Txs \cup Background /\ v.safe \in BOOLEAN

LEMMA TypesOfStage ==
    ASSUME call \in Calls, NEW s \in CallStages, NEW b \in BOOLEAN, NEW served \in BOOLEAN
    PROVE  /\ [call EXCEPT !.stage = s] \in Calls /\ [call EXCEPT !.served = served] \in Calls
           /\ [[call EXCEPT !.stage = s] EXCEPT !.bypassedOffline = b] \in Calls
BY DEF Calls

LEMMA JudgeTypes ==
    ASSUME OfTypes, NEW t \in Txs \cup Background, NEW sim, NEW key, NEW nonce,
           Judge(t, sim, key, nonce)
    PROVE  /\ answer'.kind = "verdict"
           /\ \A v \in issued' : v.tx \in Txs \cup Background /\ v.safe \in BOOLEAN
<1> DEFINE verdict == evaluatePolicy(config.policy, User, t, ledger, sim)
<1>1. verdict.safe \in BOOLEAN
  BY DEF evaluatePolicy
<1> HIDE DEF verdict
<1>2. issued' \subseteq issued \cup {[tx |-> t, safe |-> verdict.safe,
                                     findings |-> verdict.findings, events |-> sim.events]}
  BY DEF Judge, verdict
<1>3. answer'.kind = "verdict"
  BY DEF Judge, Response
<1> QED  BY <1>1, <1>2, <1>3 DEF OfTypes

LEMMA TypesStart == GuardInit => OfTypes
<1> SUFFICES ASSUME GuardInit  PROVE OfTypes
  OBVIOUS
<1>1. MaxMoves \in Nat
  BY AgentAssumption
<1>2. moves \in 0..MaxMoves /\ answer.kind = "none" /\ issued = {} /\ fresh = FALSE
  BY <1>1 DEF GuardInit, NoAnswer
<1>3. call \in Calls
  BY DEF GuardInit, Calls, CallStages
<1> QED  BY <1>2, <1>3 DEF OfTypes

LEMMA TypesKeep == OfTypes /\ VouchInv /\ JudgedInv /\ [GuardNext]_guardVars => OfTypes'
<1> SUFFICES ASSUME OfTypes, VouchInv, JudgedInv, [GuardNext]_guardVars  PROVE OfTypes'
  OBVIOUS
<1> USE DEF OfTypes
<1>s. CallStages = {"idle", "asking", "signed", "submitting", "landed", "threw"}
  BY DEF CallStages
<1>1. CASE UNCHANGED guardVars
  BY <1>1 DEF guardVars
<1>2. ASSUME NEW e \in Envelopes, NEW allowOffline \in BOOLEAN, guardedSubmit(e, allowOffline)
      PROVE  OfTypes'
  BY <1>2, <1>s DEF guardedSubmit, Calls, Txs, Charges
<1>3. CASE assertSecureBaseUrl \/ AnalyzeFails
  <2>1. UNCHANGED <<moves, issued, fresh>> /\ answer' \in {answer, NoAnswer}
        /\ OfflineOrThrow
    BY <1>3 DEF assertSecureBaseUrl, AnalyzeFails
  <2>2. call' \in Calls
    BY <1>s, <2>1, TypesOfStage DEF OfflineOrThrow
  <2> QED  BY <2>1, <2>2 DEF NoAnswer
<1>4. CASE Decide \/ Misread
  <2>1. UNCHANGED <<moves, issued, fresh>> /\ answer' = NoAnswer
        /\ \E s \in {"signed", "threw"} : call' = [call EXCEPT !.stage = s]
    BY <1>4 DEF Decide, Misread, Throw
  <2>2. call' \in Calls
    BY <1>s, <2>1, TypesOfStage
  <2> QED  BY <2>1, <2>2 DEF NoAnswer
<1>5. CASE submitTransaction \/ Reject
  <2>1. UNCHANGED <<moves, answer, issued, fresh>>
        /\ \E s \in {"submitting", "threw"} : call' = [call EXCEPT !.stage = s]
    BY <1>5 DEF submitTransaction, Reject, Throw
  <2>2. call' \in Calls
    BY <1>s, <2>1, TypesOfStage
  <2> QED  BY <2>1, <2>2
<1>6. Served => call' \in Calls
  BY <1>s, TypesOfStage DEF Served
<1>7. CASE Refuse
  BY <1>6, <1>7 DEF Refuse
<1>8. ASSUME NEW key \in Servers \cup {"none"}, analyzeTransaction(key)  PROVE OfTypes'
  <2>0. PICK t : t = call.tx
    OBVIOUS
  <2>1. PICK sim \in Simulations(t), nonce \in Nonces : Judge(t, sim, key, nonce)
    BY <1>8, <2>0 DEF analyzeTransaction
  <2>2. t \in Txs \cup Background
    BY <1>8, <2>0 DEF analyzeTransaction, Asked, JudgedInv
  <2>3. Served /\ fresh' = TRUE /\ UNCHANGED moves
    BY <1>8 DEF analyzeTransaction
  <2> QED  BY <1>6, <2>1, <2>2, <2>3, JudgeTypes
<1>9. CASE MixUp
  <2>1. PICK t \in Background \ {call.tx} : \E sim \in Simulations(t) : \E nonce \in Nonces :
           Judge(t, sim, "pinned", nonce)
    BY <1>9 DEF MixUp
  <2>2. PICK sim \in Simulations(t), nonce \in Nonces : Judge(t, sim, "pinned", nonce)
    BY <2>1
  <2>3. Served /\ UNCHANGED <<moves, fresh>>
    BY <1>9 DEF MixUp
  <2> QED  BY <1>6, <2>2, <2>3, JudgeTypes
<1>10. CASE Move
  <2>1. MaxMoves \in Nat
    BY AgentAssumption
  <2>2. UNCHANGED <<call, answer, issued>> /\ moves < MaxMoves /\ moves' = moves + 1
        /\ fresh' = FALSE
    BY <1>10 DEF Move
  <2>3. moves' \in 0..MaxMoves
    BY <2>1, <2>2
  <2> QED  BY <2>2, <2>3
<1>11. CASE Land
  <2>1. UNCHANGED <<moves, answer, issued, fresh>>
        /\ \E s \in {"landed", "threw"} : call' = [call EXCEPT !.stage = s]
    BY <1>11 DEF Land
  <2>2. call' \in Calls
    BY <1>s, <2>1, TypesOfStage
  <2> QED  BY <2>1, <2>2
<1>12. CASE Alter
  <2>1. answer = [kind |-> "verdict", safe |-> answer.safe, findings |-> answer.findings,
                  signature |-> answer.signature]
    BY <1>12 DEF Alter, VouchInv, Genuine, Response
  <2>2. answer'.kind \in {"none", "malformed", "verdict"}
    BY <1>12, <2>1 DEF Alter, NoAnswer
  <2> QED  BY <1>12, <2>2 DEF Alter
<1> QED
  BY <1>1, <1>2, <1>3, <1>4, <1>5, <1>7, <1>8, <1>9, <1>10, <1>11, <1>12
  DEF GuardNext, Agent, Server

\* The types of the guarded call, in every state (agent.ts, analyze.ts).
THEOREM GuardTypeCorrect == GuardSpec => []GuardTypeOK
<1>1. VouchInv /\ JudgedInv /\ OfTypes => GuardTypeOK
  BY DEF VouchInv, JudgedInv, OfTypes, GuardTypeOK, Genuine, Calls
<1>2. GuardSpec => []VouchInv
  BY GuardStarts, GuardKeeps, PTL DEF GuardSpec
<1>3. GuardSpec => []OfTypes
  BY <1>2, Judged, TypesStart, TypesKeep, PTL DEF GuardSpec
<1> QED  BY <1>1, <1>2, <1>3, Judged, PTL

\* The ledger moves at the end of a call only by its own transaction.
LEMMA LandsByLand ==
    ASSUME JudgedInv, GuardNext, LandsAsJudged
    PROVE  /\ ledger' \in Outcomes(call.tx, call.charge, ledger)
           /\ IsTransaction(call.tx) /\ IsCharge(call.charge)
           /\ \A v \in Vouchers(call.tx) : JudgedOn(call.tx, v)
<1>1. call.stage = "submitting" /\ call'.stage # "submitting" /\ ledger' # ledger /\ fresh
  BY DEF LandsAsJudged
<1>2. Land
  <2>1. ~Move
    BY <1>1 DEF Move
  <2>2. UNCHANGED ledger \/ Land \/ Move
    BY DEF GuardNext, Agent, Server, guardedSubmit, assertSecureBaseUrl, Decide, Misread,
           AnalyzeFails, submitTransaction, Refuse, analyzeTransaction, MixUp, Alter, Reject
  <2> QED  BY <1>1, <2>1, <2>2
<1>3. call.tx \in Txs /\ call.charge \in Charges
  BY <1>1 DEF JudgedInv
<1> QED  BY <1>1, <1>2, <1>3, InsideEnvelopes DEF Land, JudgedInv, Before

--------------------------------------------------------------------------------
(* What a safe verdict says *)

LEMMA SafeBlocksNothing ==
    ASSUME NEW p, NEW txn, NEW L, NEW sim, evaluatePolicy(p, User, txn, L, sim).safe
    PROVE  /\ \A flag \in p.on \ Tolerated(p) : \A code \in Gate(flag) :
                 code \notin runRiskDetection(p, User, txn, sim)
           /\ \A code \in Violations : /\ code \notin LossFindings(p, User, txn, L, sim)
                                       /\ code \notin BalanceFindings(p, User, txn, L, sim)
<1> DEFINE findings == mergeFindings(p, User, txn, L, sim)
<1>1. ~isBlocked(p, sim, findings)
  BY DEF evaluatePolicy
<1>2. \A code : code \notin findings =>
          /\ code \notin runRiskDetection(p, User, txn, sim)
          /\ code \notin LossFindings(p, User, txn, L, sim)
          /\ code \notin BalanceFindings(p, User, txn, L, sim)
  BY DEF mergeFindings
<1> HIDE DEF findings
<1>3. /\ \A flag \in p.on \ Tolerated(p) : Gate(flag) \cap findings = {}
      /\ Violations \cap findings = {}
  BY <1>1 DEF isBlocked
<1> QED  BY <1>2, <1>3

\* The two halves of detectAllowanceAndTrustlineFindings.
LEMMA TrustlinesAreSeen ==
    ASSUME NEW txn, NEW sim, NEW op \in trustlines(txn)
    PROVE  \E code \in {"TRUSTLINE_CHANGE_DETECTED", "TRUSTLINE_REMOVED"} :
               code \in detectAllowanceAndTrustlineFindings(txn, sim)
<1> DEFINE codes(o) == IF o.limit = 0
                       THEN {"TRUSTLINE_REMOVED"}
                       ELSE {"TRUSTLINE_CHANGE_DETECTED"}
                            \cup When(o.limit >= UnlimitedTrustline, "UNLIMITED_TRUSTLINE")
<1>1. UNION {codes(o) : o \in trustlines(txn)}
          \subseteq detectAllowanceAndTrustlineFindings(txn, sim)
  BY DEF detectAllowanceAndTrustlineFindings
<1>2. \E code \in {"TRUSTLINE_CHANGE_DETECTED", "TRUSTLINE_REMOVED"} : code \in codes(op)
  OBVIOUS
<1> HIDE DEF codes
<1> QED  BY <1>1, <1>2

LEMMA AllowancesAreSeen ==
    ASSUME NEW txn, NEW sim, NEW op \in allowances(txn, sim)
    PROVE  "SOROBAN_ALLOWANCE_GRANTED" \in detectAllowanceAndTrustlineFindings(txn, sim)
<1>1. When(allowances(txn, sim) # {}, "SOROBAN_ALLOWANCE_GRANTED")
          \subseteq detectAllowanceAndTrustlineFindings(txn, sim)
  BY DEF detectAllowanceAndTrustlineFindings
<1> QED  BY <1>1 DEF When

\* No operation that a flag forbids: the detectors find each of them.
LEMMA SafeHasNone ==
    ASSUME NEW p, NEW txn, NEW L, NEW sim, evaluatePolicy(p, User, txn, L, sim).safe,
           NEW i \in DOMAIN txn.ops
    PROVE  /\ "blockAccountMerge" \in p.on => ~Closes(txn.ops[i])
           /\ "blockTrustlineChanges" \in p.on => ~Trusts(txn.ops[i])
           /\ "blockSignerChanges" \in p.on => ~Signs(txn.ops[i])
           /\ "blockMasterKeyRemoval" \in p.on => ~DropsMaster(txn.ops[i])
           /\ "blockSorobanAllowanceGrants" \in p.on =>
                  ~Approves(txn.ops[i]) \/ (txn.ops[i].fn # "approve" /\ ~sim.events)
<1> DEFINE op == txn.ops[i]
<1> DEFINE seen == runRiskDetection(p, User, txn, sim)
<1>1. \A flag \in p.on \ Tolerated(p) : \A code \in Gate(flag) : code \notin seen
  BY SafeBlocksNothing
<1>2. \A kind : op.kind = kind => op \in Ops(txn, kind)
  BY DEF Ops, ToSet
<1> HIDE DEF op
<1>3. \A flag \in p.on : flag # "blockUnknownContractExposure" => flag \in p.on \ Tolerated(p)
  BY DEF Tolerated
<1>4. Closes(op) => "ACCOUNT_MERGE_DETECTED" \in seen
  <2> SUFFICES ASSUME op.kind = "accountMerge"  PROVE "ACCOUNT_MERGE_DETECTED" \in seen
    BY DEF Closes
  <2>1. "ACCOUNT_MERGE_DETECTED" \in detectAccountFindings(txn)
    BY <1>2 DEF detectAccountFindings, When
  <2> QED  BY <2>1 DEF runRiskDetection
<1>5. Trusts(op) => \E code \in {"TRUSTLINE_CHANGE_DETECTED", "TRUSTLINE_REMOVED"} : code \in seen
  <2> SUFFICES ASSUME Trusts(op)
               PROVE  \E code \in {"TRUSTLINE_CHANGE_DETECTED", "TRUSTLINE_REMOVED"} : code \in seen
    OBVIOUS
  <2>1. op \in trustlines(txn)
    BY <1>2 DEF Trusts, trustlines
  <2>2. \E code \in {"TRUSTLINE_CHANGE_DETECTED", "TRUSTLINE_REMOVED"} :
            code \in detectAllowanceAndTrustlineFindings(txn, sim)
    BY <2>1, TrustlinesAreSeen
  <2> QED  BY <2>2 DEF runRiskDetection
<1>6. Signs(op) => "SIGNER_CHANGE_DETECTED" \in seen
  <2> SUFFICES ASSUME Signs(op)  PROVE "SIGNER_CHANGE_DETECTED" \in seen
    OBVIOUS
  <2>1. op \in Ops(txn, "setOptions") /\ op.adds \cup op.drops # {}
    BY <1>2 DEF Signs
  <2>2. "SIGNER_CHANGE_DETECTED" \in detectAccountFindings(txn)
    BY <2>1 DEF detectAccountFindings, When
  <2> QED  BY <2>2 DEF runRiskDetection
<1>7. DropsMaster(op) => "MASTER_KEY_REMOVED" \in seen
  <2> SUFFICES ASSUME DropsMaster(op)  PROVE "MASTER_KEY_REMOVED" \in seen
    OBVIOUS
  <2>1. op \in Ops(txn, "setOptions") /\ op.master = 0
    BY <1>2 DEF DropsMaster
  <2>2. "MASTER_KEY_REMOVED" \in detectAccountFindings(txn)
    BY <2>1 DEF detectAccountFindings, When
  <2> QED  BY <2>2 DEF runRiskDetection
<1>8. Approves(op) /\ (op.fn = "approve" \/ sim.events) => "SOROBAN_ALLOWANCE_GRANTED" \in seen
  <2> SUFFICES ASSUME Approves(op), op.fn = "approve" \/ sim.events
               PROVE  "SOROBAN_ALLOWANCE_GRANTED" \in seen
    OBVIOUS
  <2>1. op \in allowances(txn, sim)
    BY <1>2 DEF Approves, allowances
  <2>2. "SOROBAN_ALLOWANCE_GRANTED" \in detectAllowanceAndTrustlineFindings(txn, sim)
    BY <2>1, AllowancesAreSeen
  <2> QED  BY <2>2 DEF runRiskDetection
<1> HIDE DEF seen
<1>9. /\ "ACCOUNT_MERGE_DETECTED" \in Gate("blockAccountMerge")
      /\ {"TRUSTLINE_CHANGE_DETECTED", "TRUSTLINE_REMOVED"} \subseteq Gate("blockTrustlineChanges")
      /\ "SIGNER_CHANGE_DETECTED" \in Gate("blockSignerChanges")
      /\ "MASTER_KEY_REMOVED" \in Gate("blockMasterKeyRemoval")
      /\ "SOROBAN_ALLOWANCE_GRANTED" \in Gate("blockSorobanAllowanceGrants")
  BY DEF Gate
<1>10. "blockAccountMerge" \in p.on => ~Closes(op)
  BY <1>1, <1>3, <1>4, <1>9
<1>11. "blockTrustlineChanges" \in p.on => ~Trusts(op)
  BY <1>1, <1>3, <1>5, <1>9
<1>12. "blockSignerChanges" \in p.on => ~Signs(op)
  BY <1>1, <1>3, <1>6, <1>9
<1>13. "blockMasterKeyRemoval" \in p.on => ~DropsMaster(op)
  BY <1>1, <1>3, <1>7, <1>9
<1>14. "blockSorobanAllowanceGrants" \in p.on =>
           ~Approves(op) \/ (op.fn # "approve" /\ ~sim.events)
  BY <1>1, <1>3, <1>8, <1>9
<1> QED  BY <1>10, <1>11, <1>12, <1>13, <1>14 DEF op

\* What a transaction lands on its own verdict: the verdict, and what it spares.
LEMMA LandsOnVerdict ==
    ASSUME JudgedInv, GuardNext, LandsAsJudged
    PROVE  \E v \in Vouchers(call.tx), sim \in Simulations(call.tx) :
              /\ evaluatePolicy(config.policy, User, call.tx, ledger, sim).safe
              /\ v.events = sim.events
<1>1. PICK v \in Vouchers(call.tx) : TRUE
  BY DEF LandsAsJudged
<1>2. JudgedOn(call.tx, v)
  BY <1>1, LandsByLand
<1> QED  BY <1>1, <1>2 DEF JudgedOn

LEMMA ForbiddenStep ==
    ASSUME JudgedInv, GuardNext  PROVE StaysAway
<1> SUFFICES ASSUME LandsAsJudged  PROVE StaysAway
  BY DEF StaysAway
<1>1. PICK v \in Vouchers(call.tx), sim \in Simulations(call.tx) :
          /\ evaluatePolicy(config.policy, User, call.tx, ledger, sim).safe
          /\ v.events = sim.events
  BY LandsOnVerdict
<1>2. PICK txn, charge, s, t, p : /\ txn = call.tx /\ charge = call.charge
                                  /\ s = ledger /\ t = ledger' /\ p = config.policy
  OBVIOUS
<1>3. t \in Outcomes(txn, charge, s) /\ IsTransaction(txn) /\ IsCharge(charge) /\ IsLedgerState(s)
  BY <1>2, LandsByLand DEF JudgedInv
<1>4. Spared(txn, s, t)
  BY <1>3, OutcomeSpares
<1>5. evaluatePolicy(p, User, txn, s, sim).safe /\ sim \in Simulations(txn)
  BY <1>1, <1>2
<1> DEFINE ops == {txn.ops[i] : i \in DOMAIN txn.ops}
<1>6. \A op \in ops :
          /\ "blockAccountMerge" \in p.on => ~Closes(op)
          /\ "blockTrustlineChanges" \in p.on => ~Trusts(op)
          /\ "blockSignerChanges" \in p.on => ~Signs(op)
          /\ "blockMasterKeyRemoval" \in p.on => ~DropsMaster(op)
          /\ "blockSorobanAllowanceGrants" \in p.on =>
                 ~Approves(op) \/ (op.fn # "approve" /\ ~sim.events)
  BY <1>5, SafeHasNone
<1>7. /\ "blockAccountMerge" \in p.on => NoneClosed(s, t)
      /\ "blockTrustlineChanges" \in p.on => SameTrust(s, t)
      /\ "blockSignerChanges" \in p.on => NoSignerAdded(s, t)
      /\ "blockMasterKeyRemoval" \in p.on => MastersKept(s, t)
  BY <1>4, <1>6 DEF Spared
<1>8. ASSUME "blockSorobanAllowanceGrants" \in p.on, ~(t.allowances \subseteq s.allowances)
      PROVE  /\ \A op \in ops : op.kind = "invokeHostFunction" => op.fn # "approve"
             /\ ~v.events
  <2>1. PICK op \in ops : Approves(op)
    BY <1>4, <1>8 DEF Spared
  <2>2. ~sim.events
    BY <1>6, <1>8, <2>1
  <2>3. \A one \in ops : ~Approves(one) \/ one.fn # "approve"
    BY <1>6, <1>8
  <2> QED  BY <1>1, <2>2, <2>3 DEF Approves
<1> QED
  BY <1>1, <1>2, <1>7, <1>8
  DEF StaysAway, NoneClosed, SameTrust, NoSignerAdded, MastersKept, Ops, ToSet

\* What the policy forbids does not land on a verdict of the pinned server, as long as the
\* ledger is the one it judged (risk/detectors, engine.ts).
THEOREM ForbiddenIsKeptAway == GuardSpec => ForbiddenStaysAway
<1>1. JudgedInv /\ [GuardNext]_guardVars => [StaysAway]_guardVars
  BY ForbiddenStep
<1> QED  BY <1>1, Judged, PTL DEF GuardSpec, ForbiddenStaysAway

\* The balances shown are a floor, at any price, but for the unjudged fee of a fee bump
\* (extract-deltas.ts).
THEOREM BalancesShownAreFloor == GuardSpec => []EstimateIsFloor
<1>1. JudgedInv => EstimateIsFloor
  <2> SUFFICES ASSUME JudgedInv, call.stage = "asking", Projected(call.tx),
                      Pays(call.charge, ledger), NEW sim \in Simulations(call.tx),
                      NEW after \in AllApplied(call.tx, call.charge, ledger),
                      NEW a \in Accounts, NEW key \in {Native, USDC}
               PROVE  postBalance(call.tx, ledger, sim, a, key)
                          <= Held(after, a, key) + UnseenFee(call.tx, call.charge, a, key)
    BY DEF EstimateIsFloor
  <2>1. IsTransaction(call.tx) /\ IsCharge(call.charge) /\ IsLedgerState(ledger)
        /\ key \in Assets
    BY InsideEnvelopes DEF JudgedInv, Assets
  <2> QED  BY <2>1, PostBalanceIsFloor
<1> QED  BY <1>1, Judged, PTL

--------------------------------------------------------------------------------
(* The rules on balances *)

LEMMA DivisionLeaves ==
    ASSUME NEW x \in Nat, NEW y \in Nat \ {0}  PROVE x < (x \div y + 1) * y
OBVIOUS

LEMMA Scaled ==
    ASSUME NEW x \in Int, NEW y \in Int, NEW k \in Nat, x <= y  PROVE x * k <= y * k
OBVIOUS

\* Loss of at least the ratio allowed is a loss the engine sees; what is left below it may
\* be a part per million more, rounded away.
LEMMA RoundedLoss ==
    ASSUME NEW before \in Nat, before # 0, NEW after \in Int, NEW d \in Int, after >= before + d,
           NEW m \in Nat, lossRatioPpm(before, d) <= m
    PROVE  (before - after) * PPM < (m + 1) * before
<1>1. PPM \in Nat
  BY AnalysisAssumption
<1>2. CASE d >= 0
  <2>1. (before - after) * PPM <= 0 * PPM
    <3>1. before - after \in Int /\ before - after <= 0
      BY <1>2
    <3> QED  BY <1>1, <3>1, Scaled
  <2>2. (m + 1) * before > 0
    <3>1. 1 * before <= (m + 1) * before
      BY Scaled
    <3> QED  BY <3>1
  <2>3. (before - after) * PPM \in Int /\ (m + 1) * before \in Int
    BY <1>1
  <2> QED  BY <1>1, <2>1, <2>2, <2>3
<1>3. CASE d < 0
  <2> DEFINE x == (-d) * PPM
  <2>1. x \in Nat
    BY <1>1, <1>3
  <2>2. before - after \in Int /\ -d \in Int /\ before - after <= -d
    OBVIOUS
  <2>3. (before - after) * PPM <= x
    BY <1>1, <2>2, Scaled
  <2>4. lossRatioPpm(before, d) = x \div before
    BY <1>3 DEF lossRatioPpm
  <2> HIDE DEF x
  <2>5. x < (x \div before + 1) * before
    BY <2>1, DivisionLeaves
  <2>6. x \div before \in Int /\ x \div before + 1 <= m + 1
    BY <2>1, <2>4
  <2>7. (x \div before + 1) * before <= (m + 1) * before
    BY <2>6, Scaled
  <2>8. (before - after) * PPM \in Int /\ (m + 1) * before \in Int
        /\ (x \div before + 1) * before \in Int
    BY <1>1, <2>6
  <2> QED  BY <2>1, <2>3, <2>5, <2>7, <2>8
<1> QED  BY <1>2, <1>3

LEMMA SafeLossIsBounded ==
    ASSUME NEW p, IsPolicy(p), NEW txn, NEW L, IsLedgerState(L), NEW sim, NEW after \in Int,
           evaluatePolicy(p, User, txn, L, sim).safe, Delta(txn, L, sim, User, Native) \in Int,
           after >= Held(L, User, Native) + Delta(txn, L, sim, User, Native)
    PROVE  LossWithin(p, Held(L, User, Native), after)
<1> SUFFICES ASSUME p.maxLossPercent # NoLimit
             PROVE  LossWithin(p, Held(L, User, Native), after)
  BY DEF LossWithin
<1> DEFINE pre == L.bal[User][Native]
<1> DEFINE d == Delta(txn, L, sim, User, Native)
<1> DEFINE m == p.maxLossPercent * (PPM \div 100)
<1>1. \A code \in Violations : code \notin LossFindings(p, User, txn, L, sim)
  BY SafeBlocksNothing
<1>2. Known(txn, L, User, Native) /\ pre # 0 /\ ~LossExceeds(p, pre, d)
  BY <1>1 DEF LossFindings, Violations, When
<1>3. pre \in Nat \cup {None} /\ pre # None
  BY <1>2, BalanceType, AgentAssumption DEF Known, Assets
<1>4. pre \in Nat \ {0} /\ Held(L, User, Native) = pre
  BY <1>2, <1>3 DEF Held, None
<1>5. PPM \in Nat /\ p.maxLossPercent \in Nat
  BY AnalysisAssumption DEF IsPolicy
<1>6. m \in Nat
  <2>1. PPM \div 100 \in Nat
    BY <1>5
  <2> QED  BY <1>5, <2>1
<1>7. lossRatioPpm(pre, d) \in Int /\ ~(lossRatioPpm(pre, d) > m)
  <2>1. d >= 0 => lossRatioPpm(pre, d) = 0
    BY DEF lossRatioPpm
  <2>2. d < 0 => (-d) * PPM \in Nat /\ lossRatioPpm(pre, d) = ((-d) * PPM) \div pre
    BY <1>4, <1>5 DEF lossRatioPpm
  <2>3. ~(lossRatioPpm(pre, d) > m)
    BY <1>2 DEF LossExceeds
  <2> HIDE DEF d, pre
  <2>4. \A x \in Nat : x \div pre \in Int
    BY <1>4
  <2> QED  BY <2>1, <2>2, <2>3, <2>4 DEF d
<1>8. after >= pre + d
  BY <1>4
<1> HIDE DEF d, m, pre
<1>9. lossRatioPpm(pre, d) <= m
  BY <1>6, <1>7
<1>10. (pre - after) * PPM < (m + 1) * pre
  BY <1>4, <1>6, <1>8, <1>9, RoundedLoss DEF d
<1> QED  BY <1>4, <1>10 DEF LossWithin, m

LEMMA SafeBalanceIsLeft ==
    ASSUME NEW p, p.minPostBalance # NoLimit, NEW txn, NEW L, NEW sim,
           evaluatePolicy(p, User, txn, L, sim).safe
    PROVE  postBalance(txn, L, sim, User, USDC) >= p.minPostBalance
<1>1. \A code \in Violations : code \notin BalanceFindings(p, User, txn, L, sim)
  BY SafeBlocksNothing
<1>2. Keys \cap {USDC, usdcContractKey} = {USDC}
  BY DEF Keys, usdcContractKey, Native, USDC, EventKey
<1>3. \E key \in Keys \cap {USDC, usdcContractKey} :
          postBalance(txn, L, sim, User, key) >= p.minPostBalance
  BY <1>1 DEF BalanceFindings, Violations, When
<1> QED  BY <1>2, <1>3

LEMMA BalancesStep ==
    ASSUME JudgedInv, GuardNext  PROVE WithinPolicy
<1> SUFFICES ASSUME LandsAsJudged, Projected(call.tx),
                    ledger' \in AllApplied(call.tx, call.charge, ledger)
             PROVE  WithinPolicy
  BY DEF WithinPolicy
<1>1. PICK sim \in Simulations(call.tx) :
          evaluatePolicy(config.policy, User, call.tx, ledger, sim).safe
  BY LandsOnVerdict
<1>2. PICK txn, charge, s, t, p : /\ txn = call.tx /\ charge = call.charge
                                  /\ s = ledger /\ t = ledger' /\ p = config.policy
  OBVIOUS
<1>3. /\ IsTransaction(txn) /\ Projected(txn) /\ IsCharge(charge) /\ IsLedgerState(s)
      /\ Pays(charge, s) /\ t \in AllApplied(txn, charge, s) /\ IsPolicy(p) /\ User \in Accounts
  BY <1>2, LandsByLand, OutcomeSpares, AgentAssumption DEF JudgedInv
<1>4. IsLedgerState(t)
  BY <1>3, TransactionSpares DEF Spared
<1>5. Native \in Assets /\ USDC \in Assets
  BY DEF Assets
<1>6. \A j \in Assets : Held(t, User, j) \in Nat
  BY <1>3, <1>4, BalanceType DEF Held, None
<1>7. evaluatePolicy(p, User, txn, s, sim).safe
  BY <1>1, <1>2
<1>8. LossWithin(p, Held(s, User, Native),
                 Held(t, User, Native) + UnseenFee(txn, charge, User, Native))
  <2>1. /\ Delta(txn, s, sim, User, Native) \in Int
        /\ UnseenFee(txn, charge, User, Native) \in Int
        /\ Held(t, User, Native) + UnseenFee(txn, charge, User, Native)
               >= Held(s, User, Native) + Delta(txn, s, sim, User, Native)
    BY <1>3, <1>5, DeltaIsFloor
  <2> QED  BY <1>3, <1>5, <1>6, <1>7, <2>1, SafeLossIsBounded
<1>9. p.minPostBalance # NoLimit => Held(t, User, USDC) >= p.minPostBalance
  <2> SUFFICES ASSUME p.minPostBalance # NoLimit  PROVE Held(t, User, USDC) >= p.minPostBalance
    OBVIOUS
  <2>1. postBalance(txn, s, sim, User, USDC) >= p.minPostBalance
    BY <1>7, SafeBalanceIsLeft
  <2>2. postBalance(txn, s, sim, User, USDC)
            <= Held(t, User, USDC) + UnseenFee(txn, charge, User, USDC)
    BY <1>3, <1>5, PostBalanceIsFloor
  <2>4. UnseenFee(txn, charge, User, USDC) = 0
    BY DEF UnseenFee, Native, USDC
  <2>3. postBalance(txn, s, sim, User, USDC) \in Int /\ p.minPostBalance \in Int
    <3>1. Delta(txn, s, sim, User, USDC) \in Int
      BY <1>3, <1>5, DeltaIsFloor
    <3>2. s.bal[User][USDC] \in Int
      BY <1>3, <1>5, BalanceType DEF None
    <3> QED  BY <1>3, <3>1, <3>2 DEF postBalance, IsPolicy, NoLimit
  <2> QED  BY <1>5, <1>6, <2>1, <2>2, <2>3, <2>4
<1> QED  BY <1>2, <1>8, <1>9 DEF WithinPolicy

\* What lands on a verdict of the pinned server, on the ledger it judged, costs the wallet
\* no more than the policy's percentage, the unjudged fee of a fee bump apart, and leaves
\* its minimum (engine.ts, extract-deltas.ts).
THEOREM PolicyHoldsOnChain == GuardSpec => BalancesWithinPolicy
<1>1. JudgedInv /\ [GuardNext]_guardVars => [WithinPolicy]_guardVars
  BY BalancesStep
<1> QED  BY <1>1, Judged, PTL DEF GuardSpec, BalancesWithinPolicy
================================================================================
