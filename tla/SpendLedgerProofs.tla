--------------------------- MODULE SpendLedgerProofs ---------------------------
(***************************************************************************)
(* Facts about spend logs, for every log and every length of the day:      *)
(* induction over the natural numbers in set form, what SumUpTo computes,  *)
(* and how pushing, pruning and moving an entry change a window's sum.     *)
(***************************************************************************)
EXTENDS SpendLedger, FiniteSetTheorems, WellFoundedInduction, TLAPS

--------------------------------------------------------------------------------
(* Induction over Nat, stated for sets *)

\* Every nonempty set of natural numbers has a least element.
LEMMA NatMin ==
    ASSUME NEW T, T \subseteq Nat, T # {}
    PROVE  \E x \in T : \A y \in T : x <= y
<1> DEFINE R == {ss \in Nat \X Nat : ss[1] < ss[2]}
<1>1. IsWellFoundedOn(R, Nat)
  BY NatLessThanWellFounded DEF OpToRel
<1>2. PICK x \in T : \A y \in T : ~ (<<y, x>> \in R)
  <2> HIDE DEF R
  <2> QED  BY <1>1, WFMin
<1>3. \A y \in T : ~ (y < x)
  BY <1>2
<1> QED  BY <1>2, <1>3

\* A set that contains 0 and, with n, also n + 1 contains every natural number.
LEMMA NatSetInduction ==
    ASSUME NEW S, 0 \in S, \A n \in Nat : n \in S => n + 1 \in S
    PROVE  Nat \subseteq S
<1> DEFINE B == Nat \ S
<1> SUFFICES ASSUME B # {} PROVE FALSE
  OBVIOUS
<1>1. PICK x \in B : \A y \in B : x <= y
  BY NatMin
<1>2. x # 0 /\ x - 1 \in Nat /\ x - 1 \notin B
  BY <1>1
<1> QED  BY <1>1, <1>2

\* A nonempty set of natural numbers with an upper bound has a greatest element.
LEMMA NatMax ==
    ASSUME NEW T, T \subseteq Nat, T # {}, NEW n \in Nat, \A y \in T : y <= n
    PROVE  \E x \in T : \A y \in T : y <= x
<1> DEFINE D == {d \in Nat : \E y \in T : d = n - y}
<1>1. D \subseteq Nat /\ D # {}
  <2>1. PICK y \in T : TRUE
    OBVIOUS
  <2>2. n - y \in Nat
    BY <2>1
  <2> QED  BY <2>1, <2>2
<1>2. PICK d \in D : \A e \in D : d <= e
  <2> HIDE DEF D
  <2> QED  BY <1>1, NatMin
<1>3. PICK x \in T : d = n - x
  BY <1>2
<1>4. \A y \in T : y <= x
  <2> SUFFICES ASSUME NEW y \in T PROVE y <= x
    OBVIOUS
  <2>1. n - y \in D
    OBVIOUS
  <2>2. d <= n - y
    <3> HIDE DEF D
    <3> QED  BY <1>2, <2>1
  <2> QED  BY <1>3, <2>2
<1> QED  BY <1>3, <1>4

--------------------------------------------------------------------------------
(* SumUpTo obeys its recursion equations *)

\* g is the function SumUpTo(log, n) is computed with.
Computes(g, log, n) ==
    g = [t \in 0..n |-> AmountAt(log, t) + (IF t = 0 THEN 0 ELSE g[t - 1])]

LEMMA ComputesStep ==
    ASSUME NEW log, NEW n \in Nat, NEW g, Computes(g, log, n)
    PROVE  \E h : Computes(h, log, n + 1)
<1> DEFINE h == [t \in 0..(n + 1) |->
                   AmountAt(log, t) + (IF t = 0 THEN 0 ELSE g[t - 1])]
<1>1. \A t \in 0..n : h[t] = g[t]
  BY DEF Computes
<1>2. \A t \in 0..(n + 1) : t # 0 => h[t - 1] = g[t - 1]
  <2> HIDE DEF h
  <2>1. \A t \in 0..(n + 1) : t # 0 => t - 1 \in 0..n
    OBVIOUS
  <2> QED  BY <1>1, <2>1
<1>3. h = [t \in 0..(n + 1) |->
             AmountAt(log, t) + (IF t = 0 THEN 0 ELSE h[t - 1])]
  BY <1>2
<1> QED  BY <1>3 DEF Computes

LEMMA ComputesExists ==
    ASSUME NEW log
    PROVE  \A n \in Nat : \E g : Computes(g, log, n)
<1> DEFINE S == {n \in Nat : \E g : Computes(g, log, n)}
<1>1. 0 \in S
  <2> DEFINE g == [t \in 0..0 |-> AmountAt(log, 0) + 0]
  <2>1. g = [t \in 0..0 |-> AmountAt(log, t) + (IF t = 0 THEN 0 ELSE g[t - 1])]
    OBVIOUS
  <2> QED  BY <2>1 DEF Computes
<1>2. \A n \in Nat : n \in S => n + 1 \in S
  BY ComputesStep
<1>3. Nat \subseteq S
  <2> HIDE DEF S
  <2> QED  BY <1>1, <1>2, NatSetInduction
<1> QED  BY <1>3

LEMMA ComputesUnique ==
    ASSUME NEW log, NEW n \in Nat, NEW m \in Nat, n <= m,
           NEW g, Computes(g, log, n), NEW h, Computes(h, log, m)
    PROVE  \A t \in 0..n : g[t] = h[t]
<1> DEFINE S == {t \in Nat : t <= n => g[t] = h[t]}
<1>1. 0 \in S
  BY DEF Computes
<1>2. \A t \in Nat : t \in S => t + 1 \in S
  <2> SUFFICES ASSUME NEW t \in Nat, t \in S, t + 1 <= n PROVE g[t + 1] = h[t + 1]
    OBVIOUS
  <2>1. g[t + 1] = AmountAt(log, t + 1) + g[t]
    <3>1. t + 1 \in 0..n /\ t + 1 # 0 /\ (t + 1) - 1 = t
      OBVIOUS
    <3> QED  BY <3>1 DEF Computes
  <2>2. h[t + 1] = AmountAt(log, t + 1) + h[t]
    <3>1. t + 1 \in 0..m /\ t + 1 # 0 /\ (t + 1) - 1 = t
      OBVIOUS
    <3> QED  BY <3>1 DEF Computes
  <2> QED  BY <2>1, <2>2
<1>3. Nat \subseteq S
  <2> HIDE DEF S
  <2> QED  BY <1>1, <1>2, NatSetInduction
<1> QED  BY <1>3

\* The two equations by which every other fact about sums is proved.
LEMMA SumUpToDef ==
    ASSUME NEW log
    PROVE  /\ SumUpTo(log, 0) = AmountAt(log, 0) + 0
           /\ \A n \in Nat :
                 SumUpTo(log, n + 1) = AmountAt(log, n + 1) + SumUpTo(log, n)
<1> DEFINE G(n) == CHOOSE g : Computes(g, log, n)
<1>1. \A n \in Nat : Computes(G(n), log, n)
  BY ComputesExists
<1>2. \A n : SumUpTo(log, n) = G(n)[n]
  BY DEF SumUpTo, Computes
<1>3. SumUpTo(log, 0) = AmountAt(log, 0) + 0
  <2> HIDE DEF G
  <2> QED  BY <1>1, <1>2 DEF Computes
<1>4. ASSUME NEW n \in Nat
      PROVE  SumUpTo(log, n + 1) = AmountAt(log, n + 1) + SumUpTo(log, n)
  <2> HIDE DEF G
  <2>1. Computes(G(n), log, n) /\ Computes(G(n + 1), log, n + 1)
    BY <1>1
  <2>2. G(n + 1)[n + 1] = AmountAt(log, n + 1) + G(n + 1)[n]
    <3>1. n + 1 \in 0..(n + 1) /\ n + 1 # 0 /\ (n + 1) - 1 = n
      OBVIOUS
    <3> QED  BY <2>1, <3>1 DEF Computes
  <2>3. G(n)[n] = G(n + 1)[n]
    BY <2>1, ComputesUnique
  <2> QED  BY <1>2, <2>2, <2>3
<1> QED  BY <1>3, <1>4

--------------------------------------------------------------------------------
(* Sums of logs *)

LEMMA AmountType ==
    ASSUME NEW log, IsLedger(log)
    PROVE  \A t \in Nat : AmountAt(log, t) \in Nat
BY DEF IsLedger, AmountAt

LEMMA SumType ==
    ASSUME NEW log, IsLedger(log)
    PROVE  \A n \in Nat : SumUpTo(log, n) \in Nat
<1> DEFINE S == {n \in Nat : SumUpTo(log, n) \in Nat}
<1>1. 0 \in S
  BY SumUpToDef, AmountType
<1>2. \A n \in Nat : n \in S => n + 1 \in S
  <2> SUFFICES ASSUME NEW n \in Nat, n \in S PROVE SumUpTo(log, n + 1) \in Nat
    OBVIOUS
  <2>1. AmountAt(log, n + 1) \in Nat
    BY AmountType
  <2>2. SumUpTo(log, n) \in Nat
    OBVIOUS
  <2> HIDE DEF S
  <2>3. SumUpTo(log, n + 1) = AmountAt(log, n + 1) + SumUpTo(log, n)
    BY SumUpToDef
  <2> QED  BY <2>1, <2>2, <2>3
<1>3. Nat \subseteq S
  <2> HIDE DEF S
  <2> QED  BY <1>1, <1>2, NatSetInduction
<1> QED  BY <1>3

\* Two logs that differ only at second u, where one holds d more.
LEMMA SumShift ==
    ASSUME NEW A, IsLedger(A), NEW B, IsLedger(B), NEW u \in Nat, NEW d \in Nat,
           AmountAt(B, u) = AmountAt(A, u) + d,
           \A t \in Nat : t # u => AmountAt(B, t) = AmountAt(A, t)
    PROVE  \A n \in Nat :
              SumUpTo(B, n) = SumUpTo(A, n) + (IF u <= n THEN d ELSE 0)
<1> DEFINE S == {n \in Nat : SumUpTo(B, n) = SumUpTo(A, n) + (IF u <= n THEN d ELSE 0)}
<1>1. 0 \in S
  <2>1. AmountAt(A, 0) \in Nat /\ AmountAt(B, 0) \in Nat
    BY AmountType
  <2>2. SumUpTo(A, 0) = AmountAt(A, 0) /\ SumUpTo(B, 0) = AmountAt(B, 0)
    BY <2>1, SumUpToDef
  <2>3. CASE u = 0
    BY <2>1, <2>2, <2>3
  <2>4. CASE u # 0
    BY <2>1, <2>2, <2>4
  <2> QED  BY <2>3, <2>4
<1>2. \A n \in Nat : n \in S => n + 1 \in S
  <2> SUFFICES ASSUME NEW n \in Nat, n \in S
               PROVE  SumUpTo(B, n + 1)
                         = SumUpTo(A, n + 1) + (IF u <= n + 1 THEN d ELSE 0)
    OBVIOUS
  <2>1. /\ AmountAt(A, n + 1) \in Nat /\ AmountAt(B, n + 1) \in Nat
        /\ SumUpTo(A, n) \in Nat /\ SumUpTo(B, n) \in Nat
    BY AmountType, SumType
  <2>2. /\ SumUpTo(A, n + 1) = AmountAt(A, n + 1) + SumUpTo(A, n)
        /\ SumUpTo(B, n + 1) = AmountAt(B, n + 1) + SumUpTo(B, n)
    BY SumUpToDef
  <2>3. SumUpTo(B, n) = SumUpTo(A, n) + (IF u <= n THEN d ELSE 0)
    OBVIOUS
  <2> HIDE DEF S
  <2>4. CASE u = n + 1
    <3>1. AmountAt(B, n + 1) = AmountAt(A, n + 1) + d /\ ~ (u <= n) /\ u <= n + 1
      BY <2>4
    <3> QED  BY <2>1, <2>2, <2>3, <3>1
  <2>5. CASE u # n + 1
    <3>1. AmountAt(B, n + 1) = AmountAt(A, n + 1) /\ (u <= n <=> u <= n + 1)
      BY <2>5
    <3> QED  BY <2>1, <2>2, <2>3, <3>1
  <2> QED  BY <2>4, <2>5
<1>3. Nat \subseteq S
  <2> HIDE DEF S
  <2> QED  BY <1>1, <1>2, NatSetInduction
<1> QED  BY <1>3

\* A log that holds at least as much at every second sums to at least as much.
LEMMA SumMonotone ==
    ASSUME NEW A, IsLedger(A), NEW B, IsLedger(B),
           \A t \in Nat : AmountAt(A, t) <= AmountAt(B, t)
    PROVE  \A n \in Nat : SumUpTo(A, n) <= SumUpTo(B, n)
<1> DEFINE S == {n \in Nat : SumUpTo(A, n) <= SumUpTo(B, n)}
<1>1. 0 \in S
  BY SumUpToDef, AmountType
<1>2. \A n \in Nat : n \in S => n + 1 \in S
  <2> SUFFICES ASSUME NEW n \in Nat, n \in S
               PROVE  SumUpTo(A, n + 1) <= SumUpTo(B, n + 1)
    OBVIOUS
  <2>1. /\ AmountAt(A, n + 1) \in Nat /\ AmountAt(B, n + 1) \in Nat
        /\ SumUpTo(A, n) \in Nat /\ SumUpTo(B, n) \in Nat
        /\ AmountAt(A, n + 1) <= AmountAt(B, n + 1)
    BY AmountType, SumType
  <2>2. /\ SumUpTo(A, n + 1) = AmountAt(A, n + 1) + SumUpTo(A, n)
        /\ SumUpTo(B, n + 1) = AmountAt(B, n + 1) + SumUpTo(B, n)
    BY SumUpToDef
  <2>3. SumUpTo(A, n) <= SumUpTo(B, n)
    OBVIOUS
  <2> HIDE DEF S
  <2> QED  BY <2>1, <2>2, <2>3
<1>3. Nat \subseteq S
  <2> HIDE DEF S
  <2> QED  BY <1>1, <1>2, NatSetInduction
<1> QED  BY <1>3

--------------------------------------------------------------------------------
(* The part of a log from second from on, and how the calls change its sum *)

From(log, from) == [t \in {u \in DOMAIN log : from <= u} |-> log[t]]

SumFrom(log, from, n) == SumUpTo(From(log, from), n)

Without(log, u) == [t \in DOMAIN log \ {u} |-> log[t]]

LEMMA FromType ==
    ASSUME NEW log, IsLedger(log), NEW from \in Int
    PROVE  IsLedger(From(log, from))
<1>1. IsFiniteSet({u \in DOMAIN log : from <= u})
  BY FS_Subset DEF IsLedger
<1> QED  BY <1>1 DEF IsLedger, From

LEMMA WithoutType ==
    ASSUME NEW log, IsLedger(log), NEW u
    PROVE  IsLedger(Without(log, u))
<1>1. IsFiniteSet(DOMAIN log \ {u})
  BY FS_Subset DEF IsLedger
<1> QED  BY <1>1 DEF IsLedger, Without

LEMMA PrunedType ==
    ASSUME NEW log, IsLedger(log), NEW now \in Nat
    PROVE  IsLedger(Pruned(log, now))
<1>1. IsFiniteSet(InWindow(log, now))
  BY FS_Subset DEF IsLedger, InWindow
<1> QED  BY <1>1 DEF IsLedger, Pruned, InWindow

LEMMA PushType ==
    ASSUME NEW log, IsLedger(log), NEW t \in Nat, NEW amount \in Nat
    PROVE  IsLedger(Push(log, t, amount))
<1>1. IsFiniteSet(DOMAIN log \cup {t})
  BY FS_AddElement DEF IsLedger
<1>2. AmountAt(log, t) + amount \in Nat
  BY AmountType
<1>3. \A u \in DOMAIN log : log[u] \in Nat
  BY DEF IsLedger
<1>4. Push(log, t, amount) \in [DOMAIN log \cup {t} -> Nat]
  BY <1>2, <1>3 DEF Push
<1> QED  BY <1>1, <1>4 DEF IsLedger

LEMMA EmptyLedgerType == IsLedger(EmptyLedger)
BY FS_EmptySet DEF IsLedger, EmptyLedger

\* What the code sums starts one day back.
LEMMA WindowIsSumFrom ==
    ASSUME NEW log, IsLedger(log), NEW now \in Nat
    PROVE  WindowSum(log, now) = SumFrom(log, now - DAY_SECONDS + 1, now)
<1>1. InWindow(log, now) = {u \in DOMAIN log : now - DAY_SECONDS + 1 <= u}
  BY DayAssumption DEF InWindow, IsLedger
<1> QED  BY <1>1 DEF WindowSum, SumFrom, Pruned, From

LEMMA SumFromType ==
    ASSUME NEW log, IsLedger(log), NEW from \in Int, NEW n \in Nat
    PROVE  SumFrom(log, from, n) \in Nat
BY FromType, SumType DEF SumFrom

\* Starting later sums to no more.
LEMMA SumFromMonotone ==
    ASSUME NEW log, IsLedger(log), NEW from \in Int, NEW later \in Int,
           from <= later, NEW n \in Nat
    PROVE  SumFrom(log, later, n) <= SumFrom(log, from, n)
<1>1. IsLedger(From(log, from)) /\ IsLedger(From(log, later))
  BY FromType
<1>2. \A t \in Nat : AmountAt(From(log, later), t) <= AmountAt(From(log, from), t)
  BY DEF IsLedger, AmountAt, From
<1> QED  BY <1>1, <1>2, SumMonotone DEF SumFrom

\* Pruning does not touch a sum inside the window.
LEMMA SumFromPruned ==
    ASSUME NEW log, IsLedger(log), NEW now \in Nat, NEW from \in Int,
           now - DAY_SECONDS < from, NEW n \in Nat
    PROVE  SumFrom(Pruned(log, now), from, n) = SumFrom(log, from, n)
<1>1. {u \in DOMAIN Pruned(log, now) : from <= u} = {u \in DOMAIN log : from <= u}
  BY DayAssumption DEF Pruned, InWindow, IsLedger
<1>2. From(Pruned(log, now), from) = From(log, from)
  BY <1>1 DEF From, Pruned
<1> QED  BY <1>2 DEF SumFrom

\* A second later nothing is added to a log whose entries are all in the past.
LEMMA SumFromTick ==
    ASSUME NEW log, IsLedger(log), NEW n \in Nat, DOMAIN log \subseteq 0..n,
           NEW from \in Int
    PROVE  SumFrom(log, from, n + 1) = SumFrom(log, from, n)
<1>1. AmountAt(From(log, from), n + 1) = 0
  BY DEF AmountAt, From
<1>2. SumFrom(log, from, n) \in Nat
  BY SumFromType
<1> QED  BY SMTT(30), <1>1, <1>2, SumUpToDef DEF SumFrom

LEMMA SumFromPush ==
    ASSUME NEW log, IsLedger(log), NEW now \in Nat, NEW amount \in Nat,
           NEW from \in Int
    PROVE  SumFrom(Push(log, now, amount), from, now)
              = SumFrom(log, from, now) + (IF from <= now THEN amount ELSE 0)
<1> DEFINE d == IF from <= now THEN amount ELSE 0
           A == From(log, from)
           B == From(Push(log, now, amount), from)
<1>1. IsLedger(A) /\ IsLedger(B) /\ d \in Nat
  BY FromType, PushType
<1>2. AmountAt(B, now) = AmountAt(A, now) + d
  BY AmountType DEF AmountAt, From, Push, IsLedger
<1>3. \A t \in Nat : t # now => AmountAt(B, t) = AmountAt(A, t)
  BY DEF AmountAt, From, Push
<1>4. SumUpTo(B, now) = SumUpTo(A, now) + (IF now <= now THEN d ELSE 0)
  <2> HIDE DEF A, B, d
  <2> QED  BY <1>1, <1>2, <1>3, SumShift
<1> QED  BY <1>4 DEF SumFrom

LEMMA SumFromWithout ==
    ASSUME NEW log, IsLedger(log), NEW now \in Nat, NEW u \in DOMAIN log, u <= now,
           NEW from \in Int
    PROVE  SumFrom(log, from, now)
              = SumFrom(Without(log, u), from, now) + (IF from <= u THEN log[u] ELSE 0)
<1> DEFINE d == IF from <= u THEN log[u] ELSE 0
           A == From(Without(log, u), from)
           B == From(log, from)
<1>1. IsLedger(A) /\ IsLedger(B) /\ d \in Nat /\ u \in Nat
  <2>1. d \in Nat /\ u \in Nat
    BY DEF IsLedger
  <2> QED  BY <2>1, FromType, WithoutType
<1>2. AmountAt(B, u) = AmountAt(A, u) + d
  BY <1>1 DEF AmountAt, From, Without
<1>3. \A t \in Nat : t # u => AmountAt(B, t) = AmountAt(A, t)
  BY DEF AmountAt, From, Without
<1>4. SumUpTo(B, now) = SumUpTo(A, now) + (IF u <= now THEN d ELSE 0)
  <2> HIDE DEF A, B, d
  <2> QED  BY <1>1, <1>2, <1>3, SumShift
<1> QED  BY <1>4 DEF SumFrom
================================================================================
