-------------------------- MODULE WalletSessionProofs --------------------------
(***************************************************************************)
(* Proofs about WalletSession for any number of requests and of calls of   *)
(* the surfaces: a request is in one place and is signed once, an answer   *)
(* hides no other request, the lock screen holds no seed, and the session  *)
(* implements SignFlow.                                                    *)
(***************************************************************************)
EXTENDS WalletSession, FiniteSetTheorems, SequenceTheorems, TLAPS

--------------------------------------------------------------------------------
(* Sequences without duplicates *)

\* q holds the members of S, each once.
Lists(q, S) == q \in Seq(S) /\ Range(q) = S /\ IsInjective(q)

LEMMA EmptyLists == Lists(<<>>, {})
BY DEF Lists, Range, IsInjective

LEMMA ListsEmpty ==
    ASSUME NEW S, NEW q, Lists(q, S)
    PROVE  q = <<>> <=> S = {}
<1>1. ASSUME q # <<>> PROVE S # {}
  <2>1. 1 \in DOMAIN q
    BY <1>1 DEF Lists
  <2> QED  BY <2>1 DEF Lists, Range
<1>2. ASSUME q = <<>> PROVE S = {}
  BY <1>2 DEF Lists, Range
<1> QED  BY <1>1, <1>2

LEMMA AppendLists ==
    ASSUME NEW S, NEW q, Lists(q, S), NEW r, r \notin S
    PROVE  Lists(Append(q, r), S \cup {r})
<1> DEFINE a == Append(q, r)
<1>1. q \in Seq(S \cup {r}) /\ Len(q) \in Nat /\ DOMAIN q = 1..Len(q)
  BY DEF Lists
<1>2. a \in Seq(S \cup {r}) /\ DOMAIN a = 1..(Len(q) + 1)
  BY <1>1
<1>3. \A i \in 1..Len(q) : a[i] = q[i] /\ q[i] \in S
  BY <1>1 DEF Lists
<1>4. a[Len(q) + 1] = r
  BY <1>1
<1>5. Range(a) = S \cup {r}
  <2>1. \A x \in S : \E i \in 1..Len(q) : q[i] = x
    BY <1>1 DEF Lists, Range
  <2> HIDE DEF a
  <2>2. \A x \in S \cup {r} : \E i \in DOMAIN a : a[i] = x
    BY <2>1, <1>1, <1>2, <1>3, <1>4
  <2>3. \A i \in DOMAIN a : a[i] \in S \cup {r}
    BY <1>1, <1>2, <1>3, <1>4
  <2> QED  BY <2>2, <2>3 DEF Range
<1>6. IsInjective(a)
  <2> HIDE DEF a
  <2> SUFFICES ASSUME NEW i \in DOMAIN a, NEW j \in DOMAIN a, a[i] = a[j] PROVE i = j
    BY DEF IsInjective
  <2> QED  BY <1>1, <1>2, <1>3, <1>4 DEF Lists, IsInjective
<1> QED  BY <1>2, <1>5, <1>6 DEF Lists

LEMMA ConcatLists ==
    ASSUME NEW S, NEW q, Lists(q, S), NEW T, NEW t, Lists(t, T), S \cap T = {}
    PROVE  Lists(q \o t, S \cup T)
<1> DEFINE a == q \o t
<1>1. /\ q \in Seq(S \cup T) /\ Len(q) \in Nat /\ DOMAIN q = 1..Len(q)
      /\ t \in Seq(S \cup T) /\ Len(t) \in Nat /\ DOMAIN t = 1..Len(t)
  BY DEF Lists
<1>2. a \in Seq(S \cup T) /\ DOMAIN a = 1..(Len(q) + Len(t))
  BY <1>1
<1>3. \A i \in 1..Len(q) : a[i] = q[i] /\ q[i] \in S
  BY <1>1 DEF Lists
<1>4. \A i \in 1..Len(t) : a[Len(q) + i] = t[i] /\ t[i] \in T
  BY <1>1 DEF Lists
<1>5. \A i \in DOMAIN a : i \notin 1..Len(q) =>
         i - Len(q) \in 1..Len(t) /\ a[i] = t[i - Len(q)] /\ a[i] \in T
  <2> SUFFICES ASSUME NEW i \in DOMAIN a, i \notin 1..Len(q)
               PROVE  i - Len(q) \in 1..Len(t) /\ a[i] = t[i - Len(q)] /\ a[i] \in T
    OBVIOUS
  <2>1. i \in Int /\ i - Len(q) \in 1..Len(t) /\ Len(q) + (i - Len(q)) = i
    BY <1>1, <1>2
  <2> HIDE DEF a
  <2> QED  BY <2>1, <1>4
<1>6. Range(a) = S \cup T
  <2>1. \A x \in S : \E i \in 1..Len(q) : q[i] = x
    BY <1>1 DEF Lists, Range
  <2>2. \A x \in T : \E i \in 1..Len(t) : t[i] = x
    BY <1>1 DEF Lists, Range
  <2> HIDE DEF a
  <2>3. \A x \in S : \E i \in DOMAIN a : a[i] = x
    BY SMTT(30), <2>1, <1>1, <1>2, <1>3
  <2>4. \A x \in T : \E i \in DOMAIN a : a[i] = x
    <3> SUFFICES ASSUME NEW x \in T PROVE \E i \in DOMAIN a : a[i] = x
      OBVIOUS
    <3>1. PICK i \in 1..Len(t) : t[i] = x
      BY <2>2
    <3>2. Len(q) + i \in DOMAIN a /\ a[Len(q) + i] = x
      BY <3>1, <1>1, <1>2, <1>4
    <3> QED  BY <3>2
  <2>5. \A i \in DOMAIN a : a[i] \in S \cup T
    BY <1>3, <1>5
  <2> QED  BY <2>3, <2>4, <2>5 DEF Range
<1>7. IsInjective(a)
  <2> HIDE DEF a
  <2> SUFFICES ASSUME NEW i \in DOMAIN a, NEW j \in DOMAIN a, a[i] = a[j] PROVE i = j
    BY DEF IsInjective
  <2>1. CASE i \in 1..Len(q) /\ j \in 1..Len(q)
    BY <2>1, <1>1, <1>3 DEF Lists, IsInjective
  <2>2. CASE i \notin 1..Len(q) /\ j \notin 1..Len(q)
    <3>1. i - Len(q) = j - Len(q)
      BY <2>2, <1>1, <1>5 DEF Lists, IsInjective
    <3>2. i \in Int /\ j \in Int
      BY <1>2, <1>1
    <3> QED  BY <3>1, <3>2, <1>1
  <2>3. CASE i \in 1..Len(q) /\ j \notin 1..Len(q)
    BY <2>3, <1>3, <1>5
  <2>4. CASE i \notin 1..Len(q) /\ j \in 1..Len(q)
    BY <2>4, <1>3, <1>5
  <2> QED  BY <2>1, <2>2, <2>3, <2>4
<1> QED  BY <1>2, <1>6, <1>7 DEF Lists

\* take removes r and nothing else.
LEMMA TakeLists ==
    ASSUME NEW S, NEW q, Lists(q, S), NEW r \in S
    PROVE  Lists(take(q, r), S \ {r})
<1>1. Len(q) \in Nat /\ DOMAIN q = 1..Len(q) /\ \A i \in 1..Len(q) : q[i] \in S
  BY DEF Lists
<1>2. PICK n \in 1..Len(q) : q[n] = r
  BY <1>1 DEF Lists, Range
<1>3. \A i \in 1..Len(q) : q[i] = r <=> i = n
  BY <1>1, <1>2 DEF Lists, IsInjective
<1>4. take(q, r) = SubSeq(q, 1, n - 1) \o SubSeq(q, n + 1, Len(q))
  <2>1. {i \in 1..Len(q) : q[i] = r} = {n}
    BY <1>2, <1>3
  <2>2. Min({n}) = n
    BY <1>2 DEF Min
  <2>3. SelectInSeq(q, LAMBDA v : v = r) = n
    BY <2>1, <2>2 DEF SelectInSeq
  <2> QED  BY <2>3, <1>2 DEF take, RemoveFirst, RemoveAt
<1> DEFINE a == [i \in 1..(Len(q) - 1) |-> IF i < n THEN q[i] ELSE q[i + 1]]
<1>5. take(q, r) = a
  <2> DEFINE b == SubSeq(q, 1, n - 1)
             c == SubSeq(q, n + 1, Len(q))
  <2>1. b \in Seq(S) /\ Len(b) = n - 1 /\ \A i \in 1..(n - 1) : b[i] = q[i]
    <3>1. 1 \in Int /\ n - 1 \in Int /\ \A i \in 1..(n - 1) : q[i] \in S
      BY <1>1, <1>2
    <3> QED  BY <3>1, <1>1, <1>2, SubSeqProperties
  <2>2. c \in Seq(S) /\ Len(c) = Len(q) - n /\ \A i \in 1..(Len(q) - n) : c[i] = q[n + i]
    <3>1. n + 1 \in Int /\ Len(q) \in Int /\ \A i \in (n + 1)..Len(q) : q[i] \in S
      BY <1>1, <1>2
    <3>2. /\ c \in Seq(S)
          /\ Len(c) = IF n + 1 <= Len(q) THEN Len(q) - (n + 1) + 1 ELSE 0
          /\ \A i \in 1..(Len(q) - (n + 1) + 1) : c[i] = q[(n + 1) + i - 1]
      BY <3>1, SubSeqProperties
    <3> HIDE DEF c
    <3>3. n \in Int /\ Len(q) \in Int /\ n <= Len(q)
      BY <1>1, <1>2
    <3>4. Len(q) - (n + 1) + 1 = Len(q) - n
      BY <3>3
    <3>5. \A i \in 1..(Len(q) - n) : c[i] = q[n + i]
      <4> SUFFICES ASSUME NEW i \in 1..(Len(q) - n) PROVE c[i] = q[n + i]
        OBVIOUS
      <4>1. (n + 1) + i - 1 = n + i
        BY <3>3
      <4> QED  BY <3>2, <3>4, <4>1
    <3> QED  BY <3>2, <3>3, <3>5
  <2> HIDE DEF b, c
  <2>3. b \o c \in Seq(S) /\ Len(b \o c) = Len(q) - 1
    <3>1. b \o c \in Seq(S) /\ Len(b \o c) = Len(b) + Len(c)
      BY <2>1, <2>2, ConcatProperties
    <3> QED  BY <3>1, <2>1, <2>2, <1>1, <1>2
  <2>4. \A i \in 1..(Len(q) - 1) : (b \o c)[i] = IF i < n THEN q[i] ELSE q[i + 1]
    <3> SUFFICES ASSUME NEW i \in 1..(Len(q) - 1)
                 PROVE  (b \o c)[i] = IF i < n THEN q[i] ELSE q[i + 1]
      OBVIOUS
    <3>1. CASE i < n
      BY <3>1, <2>1, <2>2, <1>1, <1>2
    <3>2. CASE ~(i < n)
      <4>1. (b \o c)[i] = c[i - (n - 1)]
        BY <3>2, <2>1, <2>2, <1>1, <1>2
      <4>2. i - (n - 1) \in 1..(Len(q) - n) /\ n + (i - (n - 1)) = i + 1
        BY <3>2, <1>1, <1>2
      <4> QED  BY <4>1, <4>2, <2>2, <3>2
    <3> QED  BY <3>1, <3>2
  <2>5. a \in Seq(S) /\ Len(a) = Len(q) - 1
    BY <1>1, <1>2
  <2>6. b \o c = a
    <3>1. \A i \in 1..Len(b \o c) : (b \o c)[i] = a[i]
      BY <2>3, <2>4
    <3> HIDE DEF a
    <3> QED  BY <3>1, <2>3, <2>5, SeqEqual
  <2> QED  BY <2>6, <1>4 DEF b, c
<1>6. a \in Seq(S \ {r}) /\ DOMAIN a = 1..(Len(q) - 1)
  BY <1>1, <1>2, <1>3
<1>7. Range(a) = S \ {r}
  <2>1. \A x \in S \ {r} : \E i \in DOMAIN a : a[i] = x
    <3> SUFFICES ASSUME NEW x \in S \ {r} PROVE \E i \in DOMAIN a : a[i] = x
      OBVIOUS
    <3>1. PICK j \in 1..Len(q) : q[j] = x
      BY <1>1 DEF Lists, Range
    <3>2. j # n
      BY <3>1, <1>2
    <3>3. CASE j < n
      <4>1. j \in 1..(Len(q) - 1) /\ a[j] = x
        BY <3>1, <3>3, <1>1, <1>2
      <4> QED  BY <4>1
    <3>4. CASE j > n
      <4>1. j - 1 \in 1..(Len(q) - 1) /\ ~(j - 1 < n) /\ (j - 1) + 1 = j
        BY <3>4, <1>1, <1>2
      <4> QED  BY <4>1, <3>1
    <3> QED  BY <3>2, <3>3, <3>4, <1>1, <1>2
  <2> QED  BY <2>1, <1>6 DEF Range
<1>8. IsInjective(a)
  <2> SUFFICES ASSUME NEW i \in 1..(Len(q) - 1), NEW j \in 1..(Len(q) - 1), a[i] = a[j]
               PROVE  i = j
    BY DEF IsInjective
  <2>1. \A k, l \in 1..Len(q) : q[k] = q[l] => k = l
    BY <1>1 DEF Lists, IsInjective
  <2>2. \A k \in 1..(Len(q) - 1) : k \in Int /\ k \in 1..Len(q) /\ k + 1 \in 1..Len(q)
    BY <1>1
  <2>3. CASE i < n /\ j < n
    BY <2>1, <2>2, <2>3
  <2>4. CASE i < n /\ ~(j < n)
    <3>1. i = j + 1
      BY <2>1, <2>2, <2>4
    <3> QED  BY <3>1, <2>2, <2>4, <1>1, <1>2
  <2>5. CASE ~(i < n) /\ j < n
    <3>1. i + 1 = j
      BY <2>1, <2>2, <2>5
    <3> QED  BY <3>1, <2>2, <2>5, <1>1, <1>2
  <2>6. CASE ~(i < n) /\ ~(j < n)
    <3>1. i + 1 = j + 1
      BY <2>1, <2>2, <2>6
    <3> QED  BY <3>1, <2>2
  <2> QED  BY <2>3, <2>4, <2>5, <2>6
<1> QED  BY <1>5, <1>6, <1>7, <1>8 DEF Lists

\* InOrder lists the members it is asked for.
LEMMA InOrderLists ==
    ASSUME NEW S, NEW s, Lists(s, S), NEW T \in SUBSET S, NEW t \in InOrder(s, T)
    PROVE  Lists(t, T)
<1>1. IsFiniteSet(S)
  <2>1. Len(s) \in Nat /\ s \in Surjection(1..Len(s), S)
    BY DEF Lists, Range, Surjection
  <2> QED  BY <2>1, FS_NatSurjection DEF ExistsSurjection
<1>2. Cardinality(T) \in Nat
  BY <1>1, FS_Subset, FS_CardinalityType
<1>3. /\ t \in [1..Cardinality(T) -> T] /\ IsInjective(t)
      /\ \A x \in T : \E i \in 1..Cardinality(T) : t[i] = x
  BY DEF InOrder, Bijection, Injection, Surjection
<1>4. t \in Seq(T)
  BY <1>2, <1>3
<1>5. Range(t) = T
  BY <1>3 DEF Range
<1> QED  BY <1>3, <1>4, <1>5 DEF Lists

--------------------------------------------------------------------------------
(* The flow *)

Queued(pcs) == {r \in Requests : pcs[r] = "queued"}
Waiting(pcs) == {r \in Requests : pcs[r] = "waiting"}

\* The flow part of TypeOK.
FlowOK ==
    /\ phase \in Phases
    /\ pc \in [Requests -> Steps]
    /\ Lists(queue, Queued(pc)) /\ Lists(waiters, Waiting(pc))
    /\ interrupted \subseteq Requests

\* The waiters a dispatch wakes, and those that enqueue themselves.
Woken(p, pcs) == IF p = "locked" THEN {} ELSE Waiting(pcs)
Signers(p, pcs) == {r \in Woken(p, pcs) : p # "uninitialized" /\ kind[r] # "connect"}

\* What a dispatch does, in terms of sets.
LEMMA DispatchedEffect ==
    ASSUME NEW p, NEW q, NEW pcs,
           Lists(q, Queued(pcs)), Lists(waiters, Waiting(pcs)), Dispatched(p, q, pcs)
    PROVE  /\ phase' = IF Signers(p, pcs) # {} THEN "signing" ELSE p
           /\ Lists(queue', Queued(pcs) \cup Signers(p, pcs))
           /\ Signers(p, pcs) = {} => queue' = q
           /\ Lists(waiters', Waiting(pcs) \ Woken(p, pcs))
           /\ pc' = [r \in Requests |->
                        IF r \notin Woken(p, pcs) THEN pcs[r]
                        ELSE IF p = "uninitialized" THEN "answered"
                        ELSE IF r \in Signers(p, pcs) THEN "queued" ELSE "permission"]
<1> DEFINE W == Woken(p, pcs)
           S == Signers(p, pcs)
<1>1. Range(waiters) = Waiting(pcs)
  BY DEF Lists
<1>2. (IF p = "locked" THEN {} ELSE Range(waiters)) = W
  BY <1>1 DEF Woken
<1>3. PICK signers \in InOrder(waiters, S) :
        /\ phase' = IF signers # <<>> THEN "signing" ELSE p
        /\ queue' = q \o signers
        /\ waiters' = IF p = "locked" THEN waiters ELSE <<>>
        /\ pc' = [r \in Requests |->
                     IF r \notin W THEN pcs[r]
                     ELSE IF p = "uninitialized" THEN "answered"
                     ELSE IF kind[r] = "connect" THEN "permission" ELSE "queued"]
  BY <1>2 DEF Dispatched, Signers
<1>4. S \in SUBSET Waiting(pcs)
  BY DEF Signers, Woken
<1>5. Lists(signers, S)
  BY <1>3, <1>4, InOrderLists
<1>6. signers # <<>> <=> S # {}
  BY <1>5, ListsEmpty
<1>7. Lists(queue', Queued(pcs) \cup S)
  <2>1. Queued(pcs) \cap S = {}
    BY <1>4 DEF Queued, Waiting
  <2> QED  BY <2>1, <1>3, <1>5, ConcatLists
<1>8. S = {} => queue' = q
  <2>1. q \in Seq(Queued(pcs))
    BY DEF Lists
  <2> QED  BY <2>1, <1>3, <1>6, ConcatEmptySeq
<1>9. Lists(waiters', Waiting(pcs) \ W)
  <2>1. CASE p = "locked"
    BY <2>1, <1>3 DEF Woken
  <2>2. CASE p # "locked"
    <3>1. Waiting(pcs) \ W = {}
      BY <2>2 DEF Woken
    <3> QED  BY <3>1, <2>2, <1>3, EmptyLists
  <2> QED  BY <2>1, <2>2
<1>10. \A r \in W : p # "uninitialized" => (r \in S <=> kind[r] # "connect")
  BY DEF Signers
<1> QED  BY <1>3, <1>6, <1>7, <1>8, <1>9, <1>10

\* ... and it leaves each request in the structure its step says.
LEMMA DispatchedFlow ==
    ASSUME NEW p \in Phases, NEW q, NEW pcs \in [Requests -> Steps],
           Lists(q, Queued(pcs)), Lists(waiters, Waiting(pcs)), Dispatched(p, q, pcs)
    PROVE  /\ phase' \in Phases /\ pc' \in [Requests -> Steps]
           /\ Lists(queue', Queued(pc')) /\ Lists(waiters', Waiting(pc'))
<1> DEFINE S == Signers(p, pcs)
           W == Woken(p, pcs)
<1>0. /\ W \subseteq Waiting(pcs) /\ S \subseteq W
      /\ p = "uninitialized" => S = {}
  BY DEF Woken, Signers
<1> HIDE DEF S, W
<1>1. /\ phase' = IF S # {} THEN "signing" ELSE p
      /\ Lists(queue', Queued(pcs) \cup S)
      /\ Lists(waiters', Waiting(pcs) \ W)
      /\ pc' = [r \in Requests |->
                   IF r \notin W THEN pcs[r]
                   ELSE IF p = "uninitialized" THEN "answered"
                   ELSE IF r \in S THEN "queued" ELSE "permission"]
  BY DispatchedEffect DEF S, W
<1>2. phase' \in Phases
  BY <1>1 DEF Phases
<1>3. pc' \in [Requests -> Steps]
  BY <1>1 DEF Steps
<1>4. Queued(pc') = Queued(pcs) \cup S
  BY <1>0, <1>1 DEF Queued, Waiting
<1>5. Waiting(pc') = Waiting(pcs) \ W
  BY <1>0, <1>1 DEF Waiting
<1> QED  BY <1>1, <1>2, <1>3, <1>4, <1>5

LEMMA DispatchedAnswers ==
    ASSUME NEW p, NEW q, NEW pcs,
           Lists(q, Queued(pcs)), Lists(waiters, Waiting(pcs)), Dispatched(p, q, pcs)
    PROVE  \A r \in Requests :
              /\ pcs[r] # "waiting" => pc'[r] = pcs[r]
              /\ pcs[r] = "waiting" => pc'[r] \in {"waiting", "answered", "permission", "queued"}
<1>1. \A r \in Woken(p, pcs) : pcs[r] = "waiting"
  BY DEF Woken, Waiting
<1>2. pc' = [r \in Requests |->
               IF r \notin Woken(p, pcs) THEN pcs[r]
               ELSE IF p = "uninitialized" THEN "answered"
               ELSE IF r \in Signers(p, pcs) THEN "queued" ELSE "permission"]
  BY DispatchedEffect
<1> QED  BY <1>1, <1>2

--------------------------------------------------------------------------------
(* The ways a step moves a request *)

\* r is in the hands of its handler, which has not signed it unasked.
Loose(r) == pc[r] \notin {"queued", "waiting", "recording", "answered", "lost"}

\* The flow is in order, and what AnswersHideNothing says.
FlowInv == FlowOK /\ AnswersHideNothing

\* Before the popup is asked; and where a step on other requests leaves a request.
Early == {"idle", "review", "recording"}
Settled == {"recording", "answered", "lost"}

\* What a step owes besides: an answer is final, and nobody goes back.
AnswersStay ==
    \A r \in Requests : /\ pc[r] \in Settled => pc'[r] \in Settled
                        /\ pc'[r] \in Early => pc[r] \in Early

FlowKept == FlowInv' /\ AnswersStay

LEMMA ContinuesFlow ==
    ASSUME FlowInv, NEW r \in Requests, Loose(r),
           NEW step \in Steps \ {"queued", "waiting"}, Continues(r, step),
           step \in Early => pc[r] \in Early
    PROVE  FlowKept
<1>1. pc' \in [Requests -> Steps]
  BY DEF FlowInv, FlowOK, Continues, At
<1>2. Queued(pc') = Queued(pc) /\ Waiting(pc') = Waiting(pc)
  BY DEF FlowInv, FlowOK, Continues, At, Loose, Queued, Waiting
<1>3. AnswersStay
  BY DEF FlowInv, FlowOK, Continues, At, Loose, AnswersStay, Settled
<1> QED  BY <1>1, <1>2, <1>3 DEF FlowKept, FlowInv, FlowOK, Continues, AnswersHideNothing

\* The record of a background signature, written or not.
LEMMA RecordedFlow ==
    ASSUME FlowInv, NEW r \in Requests, pc[r] = "recording",
           NEW step \in {"answered", "queueing"}, Continues(r, step)
    PROVE  FlowInv' /\ (step = "answered" => AnswersStay)
<1>1. pc' \in [Requests -> Steps]
  BY DEF FlowInv, FlowOK, Continues, At, Steps
<1>2. Queued(pc') = Queued(pc) /\ Waiting(pc') = Waiting(pc)
  BY DEF FlowInv, FlowOK, Continues, At, Queued, Waiting
<1>3. step = "answered" => AnswersStay
  BY DEF FlowInv, FlowOK, Continues, At, AnswersStay, Settled, Early
<1> QED  BY <1>1, <1>2, <1>3 DEF FlowInv, FlowOK, Continues, AnswersHideNothing

\* A listener subscribes.
LEMMA WaitsFlow ==
    ASSUME FlowInv, NEW r \in Requests, Loose(r), waiters' = Append(waiters, r),
           pc' = At(r, "waiting"), UNCHANGED <<phase, queue, interrupted>>
    PROVE  FlowKept
<1>1. pc' \in [Requests -> Steps]
  BY DEF FlowInv, FlowOK, At, Steps
<1>2. Queued(pc') = Queued(pc) /\ Waiting(pc') = Waiting(pc) \cup {r}
  BY DEF FlowInv, FlowOK, At, Loose, Queued, Waiting
<1>3. Lists(waiters', Waiting(pc'))
  BY <1>2, AppendLists DEF FlowInv, FlowOK, Loose, Waiting
<1>4. AnswersStay
  BY DEF FlowInv, FlowOK, At, Loose, AnswersStay, Settled, Early
<1> QED  BY <1>1, <1>2, <1>3, <1>4 DEF FlowKept, FlowInv, FlowOK, AnswersHideNothing

\* ... and unsubscribes.
LEMMA UnsubscribesFlow ==
    ASSUME FlowInv, NEW r \in Requests, pc[r] = "waiting", waiters' = take(waiters, r),
           NEW step \in Steps \ ({"queued", "waiting"} \cup Early), pc' = At(r, step),
           UNCHANGED <<phase, queue, interrupted>>
    PROVE  FlowKept
<1>1. pc' \in [Requests -> Steps]
  BY DEF FlowInv, FlowOK, At, Steps
<1>2. Queued(pc') = Queued(pc) /\ Waiting(pc') = Waiting(pc) \ {r}
  BY DEF FlowInv, FlowOK, At, Queued, Waiting
<1>3. Lists(waiters', Waiting(pc'))
  BY <1>2, TakeLists DEF FlowInv, FlowOK, Waiting
<1>4. AnswersStay
  BY DEF FlowInv, FlowOK, At, AnswersStay, Settled
<1> QED  BY <1>1, <1>2, <1>3, <1>4 DEF FlowKept, FlowInv, FlowOK, AnswersHideNothing

\* A request leaves the queue.
LEMMA TakenLists ==
    ASSUME FlowInv, NEW r \in Range(queue), NEW step \in Steps \ {"queued", "waiting"}
    PROVE  /\ r \in Requests /\ pc[r] = "queued"
           /\ Lists(take(queue, r), Queued(At(r, step)))
           /\ Lists(waiters, Waiting(At(r, step)))
           /\ Range(take(queue, r)) \subseteq Range(queue)
           /\ At(r, step) \in [Requests -> Steps]
<1>1. r \in Queued(pc)
  BY DEF FlowInv, FlowOK, Lists
<1>2. r \in Requests /\ pc[r] = "queued"
  BY <1>1 DEF Queued
<1>3. Queued(At(r, step)) = Queued(pc) \ {r} /\ Waiting(At(r, step)) = Waiting(pc)
  BY <1>2 DEF FlowInv, FlowOK, At, Queued, Waiting
<1>4. Lists(take(queue, r), Queued(pc) \ {r})
  BY <1>1, TakeLists DEF FlowInv, FlowOK
<1>5. At(r, step) \in [Requests -> Steps]
  BY DEF FlowInv, FlowOK, At
<1> QED  BY <1>2, <1>3, <1>4, <1>5 DEF FlowInv, FlowOK, Lists

LEMMA TakenFlow ==
    ASSUME FlowInv, NEW r \in Range(queue),
           NEW step \in Steps \ ({"queued", "waiting"} \cup Early),
           queue' = take(queue, r), pc' = At(r, step),
           UNCHANGED <<phase, waiters, interrupted>>
    PROVE  FlowKept
<1>1. AnswersStay
  BY TakenLists DEF FlowInv, FlowOK, At, AnswersStay, Settled
<1> QED  BY <1>1, TakenLists DEF FlowKept, FlowInv, FlowOK, AnswersHideNothing

LEMMA EnqueuedFlow ==
    ASSUME FlowInv, NEW r \in Requests, Loose(r), Enqueued(r)
    PROVE  FlowKept /\ phase' = "signing"
<1> DEFINE pcs == At(r, "queued")
           q == Append(queue, r)
<1>1. pcs \in [Requests -> Steps]
  BY DEF FlowInv, FlowOK, At, Steps
<1>2. Queued(pcs) = Queued(pc) \cup {r} /\ Waiting(pcs) = Waiting(pc)
  BY DEF FlowInv, FlowOK, At, Loose, Queued, Waiting
<1>3. Lists(q, Queued(pcs)) /\ Lists(waiters, Waiting(pcs))
  BY <1>2, AppendLists DEF FlowInv, FlowOK, Loose, Queued
<1>4. Dispatched("signing", q, pcs) /\ UNCHANGED interrupted /\ "signing" \in Phases
  BY DEF Enqueued, Phases
<1> HIDE DEF pcs, q
<1>5. /\ phase' \in Phases /\ pc' \in [Requests -> Steps]
      /\ Lists(queue', Queued(pc')) /\ Lists(waiters', Waiting(pc'))
  BY <1>1, <1>3, <1>4, DispatchedFlow
<1>6. phase' = "signing"
  BY <1>3, <1>4, DispatchedEffect
<1>7. AnswersStay
  <2>1. /\ pc[r] \notin Settled /\ pcs[r] = "queued"
        /\ \A x \in Requests \ {r} : pcs[x] = pc[x]
    BY DEF pcs, At, FlowInv, FlowOK, Loose, Settled
  <2> QED  BY <2>1, <1>3, <1>4, DispatchedAnswers DEF AnswersStay, Settled, Early
<1> QED  BY <1>4, <1>5, <1>6, <1>7 DEF FlowKept, FlowInv, FlowOK, AnswersHideNothing

\* An answer: q is what is queued besides r.
LEMMA AnsweredFlow ==
    ASSUME FlowInv, NEW r \in Requests, NEW q, endSignFlowIfDrained(r, q),
           At(r, "answered") \in [Requests -> Steps],
           Lists(q, Queued(At(r, "answered"))), Lists(waiters, Waiting(At(r, "answered"))),
           Range(q) \subseteq Range(queue), pc[r] \notin Settled
    PROVE  FlowKept /\ pc'[r] = "answered"
<1> DEFINE pcs == At(r, "answered")
<1>4. pcs[r] = "answered" /\ \A x \in Requests \ {r} : pcs[x] = pc[x]
  BY DEF At, FlowInv, FlowOK
<1>0. interrupted' = interrupted /\ "ready" \in Phases
  BY DEF endSignFlowIfDrained, Phases
<1>1. CASE q = <<>>
  <2> HIDE DEF pcs
  <2>1. Dispatched("ready", q, pcs)
    BY <1>1 DEF endSignFlowIfDrained, pcs
  <2>2. /\ phase' \in Phases /\ pc' \in [Requests -> Steps]
        /\ Lists(queue', Queued(pc')) /\ Lists(waiters', Waiting(pc'))
    BY <2>1, <1>0, DispatchedFlow DEF pcs
  <2>3. phase' # "signing" => queue' = <<>>
    BY <2>1, <1>1, DispatchedEffect DEF pcs
  <2>4. AnswersHideNothing'
    BY <2>3, ListsEmpty, EmptyLists DEF AnswersHideNothing, Lists
  <2>5. AnswersStay /\ pc'[r] = "answered"
    <3> HIDE DEF pcs
    <3> QED  BY <2>1, <1>4, DispatchedAnswers DEF AnswersStay, pcs, Settled, Early
  <2> QED  BY <1>0, <2>2, <2>4, <2>5 DEF FlowKept, FlowInv, FlowOK
<1>2. CASE q # <<>>
  <2>1. phase' = phase /\ queue' = q /\ waiters' = waiters /\ pc' = pcs
    BY <1>2 DEF endSignFlowIfDrained
  <2>2. AnswersStay /\ pc'[r] = "answered"
    BY <2>1, <1>4 DEF AnswersStay, Settled, Early
  <2> QED  BY <2>1, <2>2, <1>0 DEF FlowKept, FlowInv, FlowOK, AnswersHideNothing
<1> QED  BY <1>1, <1>2

LEMMA InterruptsFlow ==
    ASSUME FlowInv, NEW p \in Phases, Interrupts(p)
    PROVE  FlowKept
<1>1. /\ Dispatched(p, queue, pc) /\ interrupted' = interrupted \cup Range(queue)
      /\ pc \in [Requests -> Steps]
      /\ Lists(queue, Queued(pc)) /\ Lists(waiters, Waiting(pc))
  BY DEF Interrupts, FlowInv, FlowOK
<1>2. /\ phase' \in Phases /\ pc' \in [Requests -> Steps]
      /\ Lists(queue', Queued(pc')) /\ Lists(waiters', Waiting(pc'))
  BY <1>1, DispatchedFlow
<1>3. phase' # "signing" => queue' = queue
  BY <1>1, DispatchedEffect
<1>4. interrupted' \subseteq Requests
  BY <1>1 DEF FlowInv, FlowOK, Lists, Queued
<1>5. AnswersStay
  BY <1>1, DispatchedAnswers DEF AnswersStay, Settled, Early
<1> QED  BY <1>1, <1>2, <1>3, <1>4, <1>5 DEF FlowKept, FlowInv, FlowOK, AnswersHideNothing

--------------------------------------------------------------------------------
(* The inductive invariant *)

\* The rest of TypeOK.
SessionOK ==
    /\ \A b \in {authority, keystore, unlocked, cache, remembered, booting} : b \in BOOLEAN
    /\ call \in [Calls -> CallSteps] /\ kind \in [Requests -> Kinds]
    /\ held \subseteq Requests

\* How often r may have been signed before its handler settles.
Before(r) == IF r \in unrecorded THEN 1 ELSE 0

\* Until it settles a request is signed only if its record failed, which happens
\* once and late.
SignedInv ==
    /\ signed \in [Requests -> Nat] /\ unrecorded \subseteq Requests
    /\ \A r \in Requests :
          /\ signed[r] <= Before(r) + 1
          /\ pc[r] \notin Settled => signed[r] <= Before(r)
          /\ pc[r] \in Early => r \notin unrecorded

\* Until bootstrap is through nobody can have unlocked anything.
BootInv == booting => ~unlocked /\ \A c \in Calls : call[c] = "idle"

SeedInv == BootInv /\ LockedHoldsNoSeed

IInv == FlowInv /\ SessionOK /\ SignedInv /\ SeedInv

LEMMA InitInv == Init => IInv
<1> SUFFICES ASSUME Init PROVE IInv
  OBVIOUS
<1>1. Queued(pc) = {} /\ Waiting(pc) = {}
  BY DEF Init, Queued, Waiting
<1>2. FlowInv
  BY <1>1, EmptyLists
  DEF Init, FlowInv, FlowOK, AnswersHideNothing, Phases, Steps, Lists
<1>3. SessionOK
  BY DEF Init, SessionOK, CallSteps, Kinds
<1>4. SignedInv /\ SeedInv
  BY DEF Init, SignedInv, Before, SeedInv, BootInv, LockedHoldsNoSeed
<1> QED  BY <1>2, <1>3, <1>4 DEF IInv

--------------------------------------------------------------------------------
(* The steps of a request *)

LEMMA QueueAndWaitFlow ==
    ASSUME FlowInv, NEW r \in Requests, Loose(r), queueAndWait(r)
    PROVE  FlowKept
BY EnqueuedFlow, WaitsFlow DEF queueAndWait

LEMMA ArrivesKeeps ==
    ASSUME FlowInv, NEW r \in Requests, NEW k \in Kinds, Arrives(r, k)
    PROVE  FlowKept
<1>1. Loose(r)
  BY DEF Arrives, Loose
<1>0. pc[r] \in Early
  BY DEF Arrives, Early
<1>2. CASE k = "connect"
  <2>1. wsConnect(r)
    BY <1>2 DEF Arrives
  <2> QED  BY <2>1, <1>0, <1>1, WaitsFlow, ContinuesFlow DEF wsConnect, Steps
<1>3. CASE k = "sign"
  <2>1. queueAndWait(r)
    BY <1>3 DEF Arrives
  <2> QED  BY <2>1, <1>1, QueueAndWaitFlow
<1>4. CASE k = "authEntry"
  <2>1. Continues(r, IF unlocked THEN "review" ELSE "queueing")
    BY <1>4 DEF Arrives
  <2> QED  BY <2>1, <1>0, <1>1, ContinuesFlow DEF Steps
<1>5. CASE k = "x402"
  <2>1. Continues(r, IF unlocked THEN "review" ELSE "answered")
    BY <1>5 DEF Arrives
  <2> QED  BY <2>1, <1>0, <1>1, ContinuesFlow DEF Steps
<1> QED  BY <1>2, <1>3, <1>4, <1>5 DEF Kinds

LEMMA AnswersKeeps ==
    ASSUME FlowInv, NEW r \in Range(queue), endSignFlowIfDrained(r, take(queue, r))
    PROVE  FlowKept
<1>1. "answered" \in Steps \ {"queued", "waiting"}
  BY DEF Steps
<1>2. pc[r] \notin Settled
  BY <1>1, TakenLists DEF Settled
<1> QED  BY <1>1, <1>2, TakenLists, AnsweredFlow

LEMMA PerformedKeeps ==
    ASSUME FlowInv, NEW r \in Requests, performSignEnds(r)
    PROVE  FlowKept /\ pc'[r] = "answered"
<1>1. endSignFlowIfDrained(r, queue) /\ pc[r] = "performing"
  BY DEF performSignEnds
<1>2. /\ Queued(At(r, "answered")) = Queued(pc) /\ Waiting(At(r, "answered")) = Waiting(pc)
      /\ At(r, "answered") \in [Requests -> Steps] /\ pc[r] \notin Settled
  BY <1>1 DEF FlowInv, FlowOK, At, Queued, Waiting, Steps, Settled
<1> QED  BY <1>1, <1>2, AnsweredFlow DEF FlowInv, FlowOK

LEMMA RequestKeeps ==
    ASSUME FlowInv, NEW r \in Requests, RequestNext(r)
    PROVE  FlowKept \/ (FlowInv' /\ RecordFails(r))
<1>1. CASE \E k \in Kinds : Arrives(r, k)
  BY <1>1, ArrivesKeeps
<1>2. CASE unlockWaitTimesOut(r)
  BY <1>2, UnsubscribesFlow DEF unlockWaitTimesOut, Steps, Early
<1>3. CASE readSitePermission(r)
  BY <1>3, ContinuesFlow, EnqueuedFlow DEF readSitePermission, Loose, Steps, Early
<1>4. CASE AutoSigns(r)
  BY <1>4, ContinuesFlow DEF AutoSigns, Loose, Steps, Early
<1>5. CASE ReviewEnds(r)
  BY <1>5, ContinuesFlow, EnqueuedFlow DEF ReviewEnds, Loose, Steps, Early
<1>6. CASE deriveValidUntilLedger(r)
  BY <1>6, QueueAndWaitFlow DEF deriveValidUntilLedger, Loose
<1>7. CASE txSignWithoutAccount(r)
  BY <1>7, TakenFlow DEF txSignWithoutAccount, Steps, Early
<1>8. CASE txSignAnswers(r)
  BY <1>8, AnswersKeeps DEF txSignAnswers
<1>9. CASE txSignPerforms(r)
  BY <1>9, TakenFlow DEF txSignPerforms, Steps, Early
<1>10. CASE performSignEnds(r)
  BY <1>10, PerformedKeeps
<1>11. CASE Records(r)
  BY <1>11, RecordedFlow DEF Records, FlowKept
<1>12. CASE RecordFails(r)
  BY <1>12, RecordedFlow DEF RecordFails
<1> QED  BY <1>1, <1>2, <1>3, <1>4, <1>5, <1>6, <1>7, <1>8, <1>9, <1>10, <1>11, <1>12
         DEF RequestNext

\* A step that leaves the flow alone.
LEMMA FlowStays == ASSUME FlowInv, UNCHANGED flow PROVE FlowKept
BY DEF FlowInv, FlowOK, FlowKept, AnswersStay, AnswersHideNothing, flow, Queued, Waiting

LEMMA CallKeeps ==
    ASSUME FlowInv, NEW c \in Calls, CallNext(c)
    PROVE  FlowKept
<1>0. {"locked", "ready", "uninitialized"} \subseteq Phases
  BY DEF Phases
<1>1. CASE unlockStarts(c) \/ unlockWith(c) \/ createStarts(c) \/ createWrites(c)
  BY <1>1, FlowStays DEF unlockStarts, unlockWith, createStarts, createWrites
<1>2. CASE walletUnlocked(c) \/ walletCreated(c)
  BY <1>0, <1>2, InterruptsFlow DEF walletUnlocked, walletCreated
<1>3. CASE resetLocks(c)
  BY <1>0, <1>3, InterruptsFlow DEF resetLocks, lock
<1>4. CASE walletReset(c)
  BY <1>0, <1>4, InterruptsFlow DEF walletReset
<1> QED  BY <1>1, <1>2, <1>3, <1>4 DEF CallNext

LEMMA BootstrapKeeps == ASSUME FlowInv, bootstrap PROVE FlowKept
<1>1. /\ UNCHANGED <<pc, waiters, queue>> /\ phase' \in Phases
      /\ interrupted' = interrupted \cup Range(queue)
  BY DEF bootstrap, Phases
<1>2. interrupted' \subseteq Requests
  BY <1>1 DEF FlowInv, FlowOK, Lists, Queued
<1> QED  BY <1>1, <1>2
     DEF FlowInv, FlowOK, FlowKept, AnswersStay, AnswersHideNothing, Queued, Waiting

LEMMA WorkerDiesKeeps == ASSUME FlowInv, WorkerDies PROVE FlowKept
<1>1. /\ pc' = [r \in Requests |->
                  IF pc[r] \in {"idle", "answered", "dropped", "lost"} THEN pc[r] ELSE "lost"]
      /\ waiters' = <<>> /\ queue' = <<>> /\ interrupted' = {} /\ phase' \in Phases
  BY DEF WorkerDies, Phases
<1>2. Queued(pc') = {} /\ Waiting(pc') = {}
  BY <1>1 DEF Queued, Waiting
<1>3. pc' \in [Requests -> Steps]
  BY <1>1 DEF Steps
<1>4. AnswersStay
  BY <1>1 DEF AnswersStay, Settled, Early
<1>5. Range(queue') = {}
  BY <1>1, EmptyLists DEF Lists
<1> QED  BY <1>1, <1>2, <1>3, <1>4, <1>5, EmptyLists
     DEF FlowKept, FlowInv, FlowOK, AnswersHideNothing

LEMMA FlowStep ==
    ASSUME FlowInv, [Next]_vars
    PROVE  FlowInv' /\ (AnswersStay \/ \E r \in Requests : RecordFails(r))
<1> SUFFICES FlowKept \/ (FlowInv' /\ \E r \in Requests : RecordFails(r))
  BY DEF FlowKept
<1>1. CASE \E r \in Requests : RequestNext(r)
  BY <1>1, RequestKeeps
<1>2. CASE \E c \in Calls : CallNext(c)
  BY <1>2, CallKeeps
<1>3. CASE peekRequest \/ passphraseExpires
  BY <1>3, FlowStays DEF peekRequest, passphraseExpires
<1>4. CASE idleTimeout \/ lockHandler
  <2>1. Interrupts("locked") /\ "locked" \in Phases
    BY <1>4 DEF idleTimeout, lockHandler, lock, Phases
  <2> QED  BY <2>1, InterruptsFlow
<1>5. CASE bootstrap
  BY <1>5, BootstrapKeeps
<1>6. CASE WorkerDies
  BY <1>6, WorkerDiesKeeps
<1>7. CASE UNCHANGED vars
  BY <1>7, FlowStays DEF vars
<1> QED  BY <1>1, <1>2, <1>3, <1>4, <1>5, <1>6, <1>7 DEF Next

--------------------------------------------------------------------------------
(* Types of the session *)

LEMMA SessionStep == ASSUME FlowOK, SessionOK, [Next]_vars PROVE SessionOK'
<1> USE DEF SessionOK, session, flow, CallSteps
<1>1. ASSUME NEW r \in Requests, RequestNext(r) PROVE SessionOK'
  <2>1. CASE \E k \in Kinds : Arrives(r, k)
    BY <2>1 DEF Arrives
  <2>2. CASE AutoSigns(r)
    BY <2>2 DEF AutoSigns
  <2>4. CASE Records(r) \/ RecordFails(r)
    BY <2>4 DEF Records, RecordFails
  <2>3. CASE \/ unlockWaitTimesOut(r) \/ readSitePermission(r) \/ ReviewEnds(r)
             \/ deriveValidUntilLedger(r) \/ txSignWithoutAccount(r) \/ txSignAnswers(r)
             \/ txSignPerforms(r) \/ performSignEnds(r)
    BY <2>3 DEF unlockWaitTimesOut, readSitePermission, ReviewEnds, deriveValidUntilLedger,
                txSignWithoutAccount, txSignAnswers, txSignPerforms, performSignEnds
  <2> QED  BY <1>1, <2>1, <2>2, <2>3, <2>4 DEF RequestNext
<1>2. ASSUME NEW c \in Calls, CallNext(c) PROVE SessionOK'
  <2>1. CASE unlockStarts(c) \/ createStarts(c) \/ createWrites(c)
    BY <2>1 DEF unlockStarts, createStarts, createWrites, CallAt
  <2>2. CASE unlockWith(c) \/ walletUnlocked(c)
    BY <2>2 DEF unlockWith, walletUnlocked, CallAt
  <2>3. CASE walletCreated(c) \/ resetLocks(c) \/ walletReset(c)
    BY <2>3 DEF walletCreated, resetLocks, walletReset, CallAt, lock
  <2> QED  BY <1>2, <2>1, <2>2, <2>3 DEF CallNext
<1>3. ASSUME peekRequest PROVE SessionOK'
  <2>1. Head(queue) \in Requests
    BY <1>3, HeadTailProperties DEF peekRequest, FlowOK, Lists, Queued
  <2> QED  BY <1>3, <2>1 DEF peekRequest
<1>4. CASE idleTimeout \/ lockHandler \/ passphraseExpires
  BY <1>4 DEF idleTimeout, lockHandler, lock, passphraseExpires
<1>5. CASE bootstrap \/ WorkerDies
  BY <1>5 DEF bootstrap, WorkerDies
<1>6. CASE UNCHANGED vars
  BY <1>6 DEF vars
<1> QED  BY <1>1, <1>2, <1>3, <1>4, <1>5, <1>6 DEF Next

--------------------------------------------------------------------------------
(* A request is signed once *)

\* A signature is made on the way to the answer.
LEMMA SignedWith ==
    ASSUME SignedInv, AnswersStay, NEW r \in Requests, pc[r] \notin Settled,
           pc'[r] \in Settled, signed' = [signed EXCEPT ![r] = @ + 1], UNCHANGED unrecorded
    PROVE  SignedInv'
<1>1. Before(r) \in Nat /\ signed[r] \in Nat /\ signed[r] <= Before(r)
  BY DEF SignedInv, Before
<1>2. signed' \in [Requests -> Nat] /\ unrecorded' \subseteq Requests
  BY <1>1 DEF SignedInv
<1> SUFFICES ASSUME NEW x \in Requests
             PROVE  /\ signed'[x] <= Before(x)' + 1
                    /\ pc'[x] \notin Settled => signed'[x] <= Before(x)'
                    /\ pc'[x] \in Early => x \notin unrecorded'
  BY <1>2 DEF SignedInv
<1>3. Before(x)' = Before(x) /\ (pc'[x] \in Early => x \notin unrecorded')
  BY DEF SignedInv, AnswersStay, Before
<1>4. CASE x = r
  BY <1>1, <1>3, <1>4 DEF SignedInv
<1>5. CASE x # r
  BY <1>3, <1>5 DEF SignedInv, AnswersStay
<1> QED  BY <1>4, <1>5

\* A failed record allows one more, of a request signed once.
LEMMA RecordFailsSigned ==
    ASSUME FlowInv, SignedInv, NEW r \in Requests, RecordFails(r)
    PROVE  SignedInv'
<1>1. pc[r] = "recording" /\ signed' = signed /\ pc \in [Requests -> Steps]
  BY DEF RecordFails, FlowInv, FlowOK
<1>2. PICK step \in {"answered", "queueing"} :
        /\ pc' = At(r, step)
        /\ unrecorded' = IF step = "queueing" THEN unrecorded \cup {r} ELSE unrecorded
  BY DEF RecordFails, Continues
<1>3. r \notin unrecorded /\ Before(r) = 0 /\ signed[r] <= 1
  BY <1>1 DEF SignedInv, Early, Before
<1>4. pc'[r] = step /\ \A x \in Requests \ {r} : pc'[x] = pc[x]
  BY <1>1, <1>2 DEF At
<1>5. signed' \in [Requests -> Nat] /\ unrecorded' \subseteq Requests
  BY <1>1, <1>2 DEF SignedInv
<1> SUFFICES ASSUME NEW x \in Requests
             PROVE  /\ signed'[x] <= Before(x)' + 1
                    /\ pc'[x] \notin Settled => signed'[x] <= Before(x)'
                    /\ pc'[x] \in Early => x \notin unrecorded'
  BY <1>5 DEF SignedInv
<1>6. CASE x = r
  <2>1. Before(r)' = IF step = "queueing" THEN 1 ELSE 0
    BY <1>2, <1>3 DEF Before
  <2> QED  BY <1>1, <1>2, <1>3, <1>4, <1>6, <2>1 DEF Settled, Early, SignedInv
<1>7. CASE x # r
  <2>1. Before(x)' = Before(x) /\ (x \in unrecorded' => x \in unrecorded)
    BY <1>2, <1>7 DEF Before
  <2> QED  BY <1>1, <1>4, <1>7, <2>1 DEF SignedInv
<1> QED  BY <1>6, <1>7

LEMMA SignedStep == ASSUME FlowInv, SignedInv, [Next]_vars PROVE SignedInv'
<1>1. AnswersStay \/ \E r \in Requests : RecordFails(r)
  BY FlowStep
<1>2. ASSUME UNCHANGED signatures PROVE SignedInv'
  <2>1. CASE AnswersStay
    BY <1>2, <2>1 DEF SignedInv, AnswersStay, signatures, Before
  <2> QED  BY <1>1, <2>1, RecordFailsSigned
<1>3. ASSUME NEW r \in Requests, AutoSigns(r) PROVE SignedInv'
  <2>1. /\ pc[r] = "review" /\ pc'[r] = "recording" /\ UNCHANGED unrecorded
        /\ signed' = [signed EXCEPT ![r] = @ + 1]
    BY <1>3 DEF AutoSigns, Continues, At, FlowInv, FlowOK
  <2>2. AnswersStay
    <3>1. Loose(r) /\ Continues(r, "recording") /\ pc[r] \in Early
      BY <1>3 DEF AutoSigns, Loose, Early
    <3> QED  BY <3>1, ContinuesFlow DEF FlowKept, Steps
  <2> QED  BY <2>1, <2>2, SignedWith DEF Settled
<1>4. ASSUME NEW r \in Requests, performSignEnds(r) PROVE SignedInv'
  <2>1. pc[r] = "performing" /\ pc'[r] = "answered" /\ AnswersStay /\ UNCHANGED unrecorded
    BY <1>4, PerformedKeeps DEF performSignEnds, FlowKept
  <2>2. signed' = [signed EXCEPT ![r] = @ + 1] \/ UNCHANGED signed
    BY <1>4 DEF performSignEnds
  <2> QED  BY <2>1, <2>2, <1>2, SignedWith DEF Settled, signatures
<1>8. ASSUME NEW r \in Requests, RecordFails(r) PROVE SignedInv'
  BY <1>8, RecordFailsSigned
<1>5. ASSUME NEW r \in Requests, RequestNext(r), ~AutoSigns(r), ~performSignEnds(r),
             ~RecordFails(r)
      PROVE  UNCHANGED signatures
  BY <1>5 DEF RequestNext, Arrives, unlockWaitTimesOut, readSitePermission, Records, ReviewEnds,
              deriveValidUntilLedger, txSignWithoutAccount, txSignAnswers, txSignPerforms
<1>6. ASSUME NEW c \in Calls, CallNext(c) PROVE UNCHANGED signatures
  BY <1>6 DEF CallNext, unlockStarts, unlockWith, walletUnlocked, createStarts, createWrites,
              walletCreated, resetLocks, walletReset
<1>7. ASSUME \/ peekRequest \/ idleTimeout \/ lockHandler \/ passphraseExpires
             \/ bootstrap \/ WorkerDies \/ UNCHANGED vars
      PROVE  UNCHANGED signatures
  BY <1>7 DEF peekRequest, idleTimeout, lockHandler, passphraseExpires, bootstrap, WorkerDies,
              vars
<1> QED  BY <1>2, <1>3, <1>4, <1>5, <1>6, <1>7, <1>8 DEF Next

--------------------------------------------------------------------------------
(* The seed *)

\* Only the dispatch of a lock turns the phase to "locked".
LEMMA OnlyLocksLock ==
    ASSUME NEW p, NEW q, NEW pcs, Dispatched(p, q, pcs), p # "locked"
    PROVE  phase' # "locked"
BY DEF Dispatched

LEMMA RequestSeed ==
    ASSUME FlowInv, SeedInv, NEW r \in Requests, RequestNext(r)
    PROVE  SeedInv'
<1>1. UNCHANGED <<unlocked, booting, call>>
  BY DEF RequestNext, Arrives, unlockWaitTimesOut, readSitePermission, AutoSigns, Records,
         RecordFails, ReviewEnds, deriveValidUntilLedger, txSignWithoutAccount, txSignAnswers,
         txSignPerforms, performSignEnds, session
<1>2. phase' = "locked" => phase = "locked"
  <2>1. \A step : Continues(r, step) => phase' = phase
    BY DEF Continues
  <2>2. Enqueued(r) => phase' # "locked"
    BY OnlyLocksLock DEF Enqueued
  <2>3. \A q : endSignFlowIfDrained(r, q) => phase' = phase \/ phase' # "locked"
    BY OnlyLocksLock DEF endSignFlowIfDrained
  <2>4. queueAndWait(r) => phase' = phase \/ phase' # "locked"
    BY <2>2 DEF queueAndWait
  <2>5. CASE \E k \in Kinds : Arrives(r, k)
    BY <2>1, <2>4, <2>5 DEF Arrives, wsConnect, Kinds
  <2>6. CASE readSitePermission(r) \/ AutoSigns(r) \/ ReviewEnds(r) \/ deriveValidUntilLedger(r)
    BY <2>1, <2>2, <2>4, <2>6 DEF readSitePermission, AutoSigns, ReviewEnds, deriveValidUntilLedger
  <2>9. CASE Records(r) \/ RecordFails(r)
    BY <2>1, <2>9 DEF Records, RecordFails
  <2>7. CASE unlockWaitTimesOut(r) \/ txSignWithoutAccount(r) \/ txSignPerforms(r)
    BY <2>7 DEF unlockWaitTimesOut, txSignWithoutAccount, txSignPerforms
  <2>8. CASE txSignAnswers(r) \/ performSignEnds(r)
    BY <2>3, <2>8 DEF txSignAnswers, performSignEnds
  <2> QED  BY <2>5, <2>6, <2>7, <2>8, <2>9 DEF RequestNext
<1> QED  BY <1>1, <1>2 DEF SeedInv, BootInv, LockedHoldsNoSeed

LEMMA CallSeed ==
    ASSUME SessionOK, SeedInv, NEW c \in Calls, CallNext(c)
    PROVE  SeedInv'
<1> USE DEF SeedInv, BootInv, LockedHoldsNoSeed, CallAt, SessionOK
<1>1. ASSUME NEW p, Interrupts(p), p # "locked" PROVE phase' # "locked"
  BY <1>1, OnlyLocksLock DEF Interrupts
<1>2. CASE unlockStarts(c)
  BY <1>2 DEF unlockStarts, flow
<1>3. CASE unlockWith(c)
  BY <1>3 DEF unlockWith, flow
<1>4. CASE walletUnlocked(c)
  BY <1>4, <1>1 DEF walletUnlocked
<1>5. CASE createStarts(c)
  BY <1>5 DEF createStarts, flow
<1>6. CASE createWrites(c)
  BY <1>6 DEF createWrites, flow
<1>7. CASE walletCreated(c)
  BY <1>7, <1>1 DEF walletCreated
<1>8. CASE resetLocks(c)
  BY <1>8 DEF resetLocks, lock
<1>9. CASE walletReset(c)
  BY <1>9, <1>1 DEF walletReset
<1> QED  BY <1>2, <1>3, <1>4, <1>5, <1>6, <1>7, <1>8, <1>9 DEF CallNext

LEMMA SeedStep ==
    ASSUME FlowInv, SessionOK, SeedInv, [Next]_vars
    PROVE  SeedInv'
<1> USE DEF SeedInv, BootInv, LockedHoldsNoSeed, SessionOK
<1>1. CASE \E r \in Requests : RequestNext(r)
  BY <1>1, RequestSeed
<1>2. CASE \E c \in Calls : CallNext(c)
  BY <1>2, CallSeed
<1>3. CASE peekRequest \/ passphraseExpires
  BY <1>3 DEF peekRequest, passphraseExpires, session, flow
<1>4. CASE idleTimeout \/ lockHandler
  BY <1>4 DEF idleTimeout, lockHandler, lock
<1>5. CASE bootstrap \/ WorkerDies
  BY <1>5 DEF bootstrap, WorkerDies
<1>6. CASE UNCHANGED vars
  BY <1>6 DEF vars, session, flow
<1> QED  BY <1>1, <1>2, <1>3, <1>4, <1>5, <1>6 DEF Next

LEMMA InvStep == IInv /\ [Next]_vars => IInv'
BY FlowStep, SessionStep, SignedStep, SeedStep DEF IInv, FlowInv

LEMMA InvHolds == Spec => []IInv
BY InitInv, InvStep, PTL DEF Spec

--------------------------------------------------------------------------------
(* What follows *)

\* Well typed, and each request is in exactly the structure its step says
\* (sign-queue.ts, store.ts).
THEOREM TypeCorrect == Spec => []TypeOK
<1>1. IInv => TypeOK
  <2> SUFFICES ASSUME IInv PROVE TypeOK
    OBVIOUS
  <2>1. queue \in Seq(Requests) /\ waiters \in Seq(Requests)
    BY SeqMonotonic DEF IInv, FlowInv, FlowOK, Lists, Queued, Waiting
  <2>2. signed \in [Requests -> Nat] /\ unrecorded \subseteq Requests
    BY DEF IInv, SignedInv
  <2> QED  BY <2>1, <2>2
           DEF TypeOK, IInv, FlowInv, FlowOK, SessionOK, Lists, Queued, Waiting
<1> QED  BY <1>1, InvHolds, PTL

\* A request is signed at most once, though two surfaces show it and both approve
\* (sign-queue.ts, take); an auth entry whose record failed after a background
\* signature at most twice (wallet-standard/handlers.ts, wsSignAuthEntry).
THEOREM SignedOnce == Spec => []SignedAtMostOnce
<1>1. IInv => SignedAtMostOnce
  BY DEF IInv, SignedInv, SignedAtMostOnce, Before
<1> QED  BY <1>1, InvHolds, PTL

\* Answering one request never takes another off the screen
\* (messaging/handlers.ts, endSignFlowIfDrained).
THEOREM NothingHidden == Spec => []AnswersHideNothing
<1>1. IInv => AnswersHideNothing
  BY DEF IInv, FlowInv
<1> QED  BY <1>1, InvHolds, PTL

\* Behind the lock screen there is no seed in memory, unless an unlock or a
\* creation is about to announce itself (session.ts, lock).
THEOREM NoSeedBehindLock == Spec => []LockedHoldsNoSeed
<1>1. IInv => LockedHoldsNoSeed
  BY DEF IInv, SeedInv
<1> QED  BY <1>1, InvHolds, PTL

--------------------------------------------------------------------------------
(* The session implements SignFlow *)

SeenOf(pcs) ==
    [r \in Requests |-> IF pcs[r] \in {"permission", "review", "recording", "queueing"}
                        THEN "busy" ELSE pcs[r]]

\* A place other than "busy" is the step itself.
LEMMA SeenPlace ==
    ASSUME NEW pcs, NEW r \in Requests, NEW s \in {"idle", "waiting", "queued", "performing",
           "answered", "dropped", "lost"}
    PROVE  SeenOf(pcs)[r] = s <=> pcs[r] = s
BY DEF SeenOf

LEMMA DispatchedMaps ==
    ASSUME NEW p, NEW q, NEW pcs,
           Lists(q, Queued(pcs)), Lists(waiters, Waiting(pcs)), Dispatched(p, q, pcs)
    PROVE  F!Dispatch(p, SeenOf(pcs))
<1> DEFINE S == Signers(p, pcs)
           W == Woken(p, pcs)
<1>1. /\ phase' = IF S # {} THEN "signing" ELSE p
      /\ pc' = [r \in Requests |->
                   IF r \notin W THEN pcs[r]
                   ELSE IF p = "uninitialized" THEN "answered"
                   ELSE IF r \in S THEN "queued" ELSE "permission"]
  BY DispatchedEffect
<1>2. W = IF p = "locked" THEN {} ELSE {r \in Requests : SeenOf(pcs)[r] = "waiting"}
  BY SeenPlace DEF Woken, Waiting
<1>3. S \in SUBSET W /\ W \subseteq Requests /\ (p = "uninitialized" => S = {})
  BY DEF Signers, Woken, Waiting
<1> HIDE DEF S, W
<1>4. Seen' = [r \in Requests |->
                 IF r \in S THEN "queued"
                 ELSE IF r \in W THEN IF p = "uninitialized" THEN "answered" ELSE "busy"
                 ELSE SeenOf(pcs)[r]]
  BY <1>1, <1>3 DEF Seen, SeenOf
<1> QED  BY <1>1, <1>2, <1>3, <1>4 DEF F!Dispatch

\* Moving one request moves its place.
LEMMA SeenAt ==
    ASSUME FlowOK, NEW r \in Requests, NEW step
    PROVE  SeenOf(At(r, step)) =
             [Seen EXCEPT ![r] = IF step \in {"permission", "review", "recording", "queueing"}
                                 THEN "busy" ELSE step]
<1>1. pc \in [Requests -> Steps]
  BY DEF FlowOK
<1> QED  BY <1>1 DEF Seen, SeenOf, At

LEMMA MovedMaps ==
    ASSUME FlowOK, NEW r \in Requests, NEW step, pc' = At(r, step), phase' = phase
    PROVE  /\ /\ step \in {"permission", "review", "recording", "queueing"}
              /\ Seen[r] \in {"idle", "busy"}
              => F!Continues(r)
           /\ step = "answered" /\ Seen[r] \in {"idle", "busy", "waiting"} => F!AnsweredAtOnce(r)
           /\ step = "waiting" /\ Seen[r] \in {"idle", "busy"} /\ phase = "locked" =>
                 F!WaitsForUnlock(r)
           /\ step \in {"performing", "dropped"} /\ Seen[r] = "queued" => F!Taken(r)
<1>1. Seen' = SeenOf(At(r, step))
  BY DEF Seen, SeenOf
<1>2. Seen' = [Seen EXCEPT ![r] = IF step \in {"permission", "review", "recording", "queueing"}
                                  THEN "busy" ELSE step]
  BY <1>1, SeenAt
<1> QED
  BY <1>2 DEF F!Continues, F!AnsweredAtOnce, F!WaitsForUnlock, F!Taken, F!Moves

LEMMA EnqueuedMaps ==
    ASSUME FlowInv, NEW r \in Requests, Loose(r), Seen[r] \in {"idle", "busy"}, Enqueued(r)
    PROVE  F!Enqueues(r)
<1> DEFINE pcs == At(r, "queued")
           q == Append(queue, r)
<1>1. Queued(pcs) = Queued(pc) \cup {r} /\ Waiting(pcs) = Waiting(pc)
  BY DEF FlowInv, FlowOK, At, Loose, Queued, Waiting
<1>2. Lists(q, Queued(pcs)) /\ Lists(waiters, Waiting(pcs))
  BY <1>1, AppendLists DEF FlowInv, FlowOK, Loose, Queued
<1>3. Dispatched("signing", q, pcs)
  BY DEF Enqueued
<1> HIDE DEF q
<1>4. F!Dispatch("signing", SeenOf(pcs))
  BY <1>2, <1>3, DispatchedMaps
<1>5. SeenOf(pcs) = [Seen EXCEPT ![r] = "queued"]
  BY SeenAt DEF FlowInv
<1> QED  BY <1>4, <1>5 DEF F!Enqueues

\* The last of the queue ends the flow, in both.
LEMMA AnsweredMaps ==
    ASSUME FlowInv, NEW r \in Requests, Seen[r] \in {"queued", "performing"},
           NEW q, endSignFlowIfDrained(r, q),
           Lists(q, Queued(At(r, "answered"))), Lists(waiters, Waiting(At(r, "answered")))
    PROVE  F!Decided(r)
<1> DEFINE pcs == At(r, "answered")
<1>1. SeenOf(pcs) = [Seen EXCEPT ![r] = "answered"]
  BY SeenAt DEF FlowInv
<1>2. q = <<>> <=> F!Ends(r)
  <2>1. q = <<>> <=> Queued(pcs) = {}
    BY ListsEmpty
  <2>2. Queued(pcs) = Queued(pc) \ {r}
    BY DEF FlowInv, FlowOK, At, Queued
  <2>3. F!Queue(Seen) = Queued(pc)
    BY DEF F!Queue, Queued, Seen
  <2> QED  BY <2>1, <2>2, <2>3 DEF F!Ends
<1>3. CASE q = <<>>
  <2>1. Dispatched("ready", q, pcs)
    BY <1>3 DEF endSignFlowIfDrained
  <2> HIDE DEF pcs
  <2>2. F!Dispatch("ready", SeenOf(pcs))
    BY <2>1, DispatchedMaps DEF pcs
  <2> QED  BY <1>1, <1>2, <1>3, <2>2 DEF F!Decided
<1>4. CASE q # <<>>
  <2>1. phase' = phase /\ pc' = pcs
    BY <1>4 DEF endSignFlowIfDrained
  <2>2. Seen' = SeenOf(pcs)
    BY <2>1 DEF Seen, SeenOf
  <2> QED  BY <1>1, <1>2, <1>4, <2>1, <2>2 DEF F!Decided, F!Moves
<1> QED  BY <1>3, <1>4

LEMMA InterruptsMaps ==
    ASSUME FlowInv, NEW p \in {"locked", "ready", "uninitialized"}, Interrupts(p)
    PROVE  F!Interrupted
<1>1. F!Dispatch(p, SeenOf(pc))
  BY DispatchedMaps DEF Interrupts, FlowInv, FlowOK
<1>2. SeenOf(pc) = Seen
  BY DEF Seen, SeenOf
<1> QED  BY <1>1, <1>2 DEF F!Interrupted

Mapped == [F!FlowNext]_(F!flow)

LEMMA RequestMaps ==
    ASSUME FlowInv, NEW r \in Requests, RequestNext(r)
    PROVE  Mapped
<1> USE DEF Mapped, F!FlowNext
<1>0. FlowOK /\ pc \in [Requests -> Steps]
  BY DEF FlowInv, FlowOK
<1>1. Seen[r] = IF pc[r] \in {"permission", "review", "recording", "queueing"}
                THEN "busy" ELSE pc[r]
  BY DEF Seen
<1>2. ASSUME NEW step, Continues(r, step),
             step \in {"permission", "review", "recording", "queueing", "answered"},
             Seen[r] \in {"idle", "busy"}
      PROVE  Mapped
  BY <1>0, <1>2, MovedMaps DEF Continues
<1>3. ASSUME Enqueued(r), Loose(r), Seen[r] \in {"idle", "busy"} PROVE Mapped
  BY <1>3, EnqueuedMaps
<1>4. ASSUME queueAndWait(r), Loose(r), Seen[r] \in {"idle", "busy"} PROVE Mapped
  BY <1>0, <1>3, <1>4, MovedMaps DEF queueAndWait
<1>5. ASSUME NEW k \in Kinds, Arrives(r, k) PROVE Mapped
  <2>1. Seen[r] = "idle" /\ Loose(r)
    BY <1>1, <1>5 DEF Arrives, Loose
  <2>2. CASE k = "connect"
    <3>1. wsConnect(r)
      BY <1>5, <2>2 DEF Arrives
    <3> QED  BY <3>1, <2>1, <1>0, <1>2, MovedMaps DEF wsConnect
  <2>3. CASE k = "sign"
    <3>1. queueAndWait(r)
      BY <1>5, <2>3 DEF Arrives
    <3> QED  BY <3>1, <2>1, <1>4
  <2>4. CASE k = "authEntry" \/ k = "x402"
    <3>1. \E step \in {"review", "queueing", "answered"} : Continues(r, step)
      BY <1>5, <2>4 DEF Arrives
    <3> QED  BY <3>1, <2>1, <1>2
  <2> QED  BY <2>2, <2>3, <2>4 DEF Kinds
<1>6. CASE unlockWaitTimesOut(r)
  BY <1>0, <1>1, <1>6, MovedMaps DEF unlockWaitTimesOut
<1>7. CASE readSitePermission(r) \/ AutoSigns(r) \/ ReviewEnds(r) \/ deriveValidUntilLedger(r)
  <2>1. Seen[r] = "busy" /\ Loose(r)
    BY <1>1, <1>7
    DEF readSitePermission, AutoSigns, ReviewEnds, deriveValidUntilLedger, Loose
  <2> QED  BY <2>1, <1>2, <1>3, <1>4, <1>7
           DEF readSitePermission, AutoSigns, ReviewEnds, deriveValidUntilLedger
<1>11. CASE Records(r) \/ RecordFails(r)
  <2>1. Seen[r] = "busy"
    BY <1>1, <1>11 DEF Records, RecordFails
  <2> QED  BY <2>1, <1>2, <1>11 DEF Records, RecordFails
<1>8. CASE txSignWithoutAccount(r) \/ txSignPerforms(r)
  <2>1. /\ r \in Range(queue) /\ phase' = phase
        /\ pc' = At(r, "dropped") \/ pc' = At(r, "performing")
    BY <1>8 DEF txSignWithoutAccount, txSignPerforms
  <2>2. Seen[r] = "queued"
    BY <2>1, <1>1 DEF FlowInv, FlowOK, Lists, Queued
  <2> QED  BY <1>0, <2>1, <2>2, MovedMaps
<1>9. CASE txSignAnswers(r)
  <2>1. r \in Range(queue) /\ endSignFlowIfDrained(r, take(queue, r))
    BY <1>9 DEF txSignAnswers
  <2>2. Seen[r] = "queued"
    BY <2>1, <1>1 DEF FlowInv, FlowOK, Lists, Queued
  <2>3. "answered" \in Steps \ {"queued", "waiting"}
    BY DEF Steps
  <2> QED  BY <2>1, <2>2, <2>3, TakenLists, AnsweredMaps
<1>10. CASE performSignEnds(r)
  <2>1. endSignFlowIfDrained(r, queue) /\ pc[r] = "performing"
    BY <1>10 DEF performSignEnds
  <2>2. Queued(At(r, "answered")) = Queued(pc) /\ Waiting(At(r, "answered")) = Waiting(pc)
    BY <2>1, <1>0 DEF At, Queued, Waiting
  <2> QED  BY <1>1, <2>1, <2>2, AnsweredMaps DEF FlowInv, FlowOK
<1> QED  BY <1>5, <1>6, <1>7, <1>8, <1>9, <1>10, <1>11 DEF RequestNext

LEMMA StepMaps ==
    ASSUME FlowInv, [Next]_vars
    PROVE  Mapped
<1>1. CASE \E r \in Requests : RequestNext(r)
  BY <1>1, RequestMaps
<1>2. CASE UNCHANGED flow
  BY <1>2 DEF Mapped, F!flow, flow, Seen
<1>3. ASSUME NEW c \in Calls, CallNext(c) PROVE Mapped
  <2>1. CASE unlockStarts(c) \/ unlockWith(c) \/ createStarts(c) \/ createWrites(c)
    BY <1>2, <2>1 DEF unlockStarts, unlockWith, createStarts, createWrites
  <2>2. CASE walletUnlocked(c) \/ walletCreated(c) \/ resetLocks(c) \/ walletReset(c)
    BY <2>2, InterruptsMaps
    DEF walletUnlocked, walletCreated, resetLocks, walletReset, lock, Mapped, F!FlowNext
  <2> QED  BY <1>3, <2>1, <2>2 DEF CallNext
<1>4. CASE peekRequest \/ passphraseExpires
  BY <1>2, <1>4 DEF peekRequest, passphraseExpires
<1>5. CASE idleTimeout \/ lockHandler
  BY <1>5, InterruptsMaps DEF idleTimeout, lockHandler, lock, Mapped, F!FlowNext
<1>6. CASE bootstrap
  BY <1>6 DEF bootstrap, Seen, Mapped, F!FlowNext, F!Rehydrated
<1>7. CASE WorkerDies
  <2>1. Seen' = [r \in Requests |->
                   IF Seen[r] \in {"idle", "answered", "dropped"} THEN Seen[r] ELSE "lost"]
    BY <1>7 DEF WorkerDies, Seen, FlowInv, FlowOK, Steps
  <2> QED  BY <1>7, <2>1 DEF WorkerDies, Mapped, F!FlowNext, F!WorkerDies
<1>8. CASE UNCHANGED vars
  BY <1>2, <1>8 DEF vars
<1> QED  BY <1>1, <1>3, <1>4, <1>5, <1>6, <1>7, <1>8 DEF Next

\* The phase and the place of every request change only as SignFlow says, which is
\* all the popup window and the pages rely on (index.ts, page-bridge.ts).
THEOREM Refinement == Spec => ImplementsSignFlow
<1>1. Init => F!FlowInit
  BY DEF Init, F!FlowInit, Seen
<1>2. IInv /\ [Next]_vars => [F!FlowNext]_(F!flow)
  BY StepMaps DEF IInv, Mapped
<1> QED  BY <1>1, <1>2, InvHolds, PTL DEF Spec, ImplementsSignFlow, F!FlowSpec
================================================================================
