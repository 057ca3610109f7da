------------------------------ MODULE AnchorsProofs ------------------------------
(***************************************************************************)
(* Proofs about Anchors for any tomls, orders and transactions, all        *)
(* timeouts, any number of logins and analyses side by side: what the      *)
(* wallet confirms on the anchor's word was the anchor's word, and recent. *)
(***************************************************************************)
EXTENDS Anchors, SequenceTheorems, TLAPS

--------------------------------------------------------------------------------
(* The inductive invariant *)

Verdicts == {"none", "block", "advisory", "login", "analysed"}

JobType ==
    [stage : Loading \cup {"begun", "list", "shown"}, tx : Txs, user : Accounts, who : Accounts,
     age : Nat, waited : Nat, left : Nat, old : {0} \cup Versions, unread : BOOLEAN,
     quiet : BOOLEAN, asked : SUBSET Orders, answer : SUBSET [order : Orders, waiting : BOOLEAN],
     verdict : Verdicts, note : {"none", "verified", "expired"}, relaxed : BOOLEAN]

LoginType ==
    [stage : {"toml", "challenge", "post"}, account : Accounts, waited : Nat,
     v : {0} \cup Versions, signed : SUBSET Txs]

\* A transaction does what an order asks that was waiting when its analysis began.
Confirmed(r) ==
    \E o \in r.asked :
        /\ Terms[o].user = r.user
        /\ OpsOf(r.tx) = {r.tx.ops[1]} /\ Len(r.tx.ops) = 1
        /\ Matches(r.tx, Terms[o].user, [order |-> o, waiting |-> TRUE])

\* What lets a transaction go unguarded: some toml of the time did not list its target.
Unlisted(r) ==
    \A a \in paymentTargets(r.tx) :
        (\A v \in Current(r.age + AccountsTTL + TomlBound) : a \in AccountsOf(v))
            => r.unread /\ a \notin AccountsOf(r.old)

Vouches(r) ==
    \A op \in TrustOps(r.tx) :
        /\ op.from = r.user /\ op.adds
        /\ \/ op.asset = Canonical
           \/ \E v \in Current(TomlBound + r.age) : op.asset \in Tomls[v].currencies

Sound(r) ==
    /\ r \in JobType
    /\ r.note = "verified" => Confirmed(r)
    /\ r.quiet => Unlisted(r)

\* A call that may still ask the anchor for its orders knows all that wait for its
\* account, and the anchor answers with orders of that account.
Open(r) ==
    /\ {o \in waiting : Terms[o].user = r.user} \subseteq r.asked
    /\ \A w \in r.answer :
          Terms[w.order].user = r.user /\ (w.waiting => w.order \in r.asked)

\* On its way, at each stage: how long it has taken, and what its token has left.
Going(r) ==
    /\ Sound(r) /\ ~r.relaxed
    /\ r.stage \in Loading \cup {"list"} /\ r.waited <= Timeout(r.stage)
    /\ r.stage \in {"sep10", "accounts"} => r.age = r.waited
    /\ r.stage = "accounts" => ~r.quiet
    /\ r.stage = "transfer" => r.age <= AccountsTimeout + r.waited
    /\ r.stage \in {"accounts", "transfer", "list"} => Open(r)
    /\ r.stage = "list" => r.who = r.user /\ r.left > HttpTimeout - r.waited

Answered(r) ==
    /\ Sound(r) /\ r.stage = "shown"
    /\ r.verdict = "login" => IsLoginOf(r.tx, r.user, Current(TomlBound + r.age))
    /\ r.relaxed => Vouches(r)

JobInv ==
    /\ job = [j \in Jobs |-> job[j]]
    /\ \A j \in Jobs : job[j] = NoJob \/ Going(job[j]) \/ Answered(job[j])

\* A login holds a toml that was current when it was read; what it signed carries the
\* key of such a toml.
LoggingIn(r) ==
    /\ r \in LoginType /\ r.waited <= Timeout(r.stage)
    /\ r.stage = "challenge" => r.v \in Current(TomlBound + r.waited)
    /\ r.stage = "post" =>
          \A tx \in r.signed :
              IsLoginOf(tx, r.account, Current(TomlBound + HttpTimeout + r.waited))

LoginInv ==
    /\ login = [l \in Logins |-> login[l]]
    /\ \A l \in Logins : login[l] = NoLogin \/ LoggingIn(login[l])

ClockInv ==
    /\ published \in Versions /\ since \in [Versions -> 0..Horizon]
    /\ \A v \in Versions : v > published => since[v] = 0

\* A cached toml was current when it was read, which took TomlTimeout at most.
Read(c) ==
    /\ c \in [age : 0..TomlTTL, v : {0} \cup Versions]
    /\ c.v # 0 => c.v \in Current(c.age + TomlTimeout)

\* ... and so were the accounts remembered, as long as they count.
KnownInv ==
    /\ known \in [age : 0..Horizon, v : {0} \cup Versions]
    /\ Remembered => known.v \in Current(known.age + TomlBound)

WalletInv ==
    /\ unlocked \in BOOLEAN /\ active \in Accounts
    /\ sessions \in [Accounts -> Nat] /\ waiting \subseteq Orders

IInv == WalletInv /\ ClockInv /\ Read(toml) /\ KnownInv /\ LoginInv /\ JobInv

--------------------------------------------------------------------------------
(* Constants, clocks and tomls *)

LEMMA Bounds ==
    /\ TomlTTL \in Nat /\ AccountsTTL \in Nat /\ Skew \in Nat
    /\ TomlTimeout \in Nat /\ AccountsTimeout \in Nat /\ HttpTimeout \in Nat
    /\ TomlBound \in Nat /\ Horizon \in Nat
    /\ Len(Tomls) \in Nat \ {0} /\ Versions \subseteq Nat /\ 0 \notin Versions /\ 1 \in Versions
<1>1. /\ TomlTTL \in Nat /\ AccountsTTL \in Nat /\ Skew \in Nat
      /\ TomlTimeout \in Nat /\ AccountsTimeout \in Nat /\ HttpTimeout \in Nat
  BY AnchorsAssumption
<1>2. Len(Tomls) \in Nat \ {0}
  BY AnchorsAssumption, EmptySeq, LenProperties
<1> QED  BY <1>1, <1>2 DEF TomlBound, Horizon, Versions

LEMMA Timeouts ==
    /\ Timeout("sep10") = TomlTimeout /\ Timeout("trust") = TomlTimeout
    /\ Timeout("toml") = TomlTimeout
    /\ Timeout("accounts") = AccountsTimeout /\ Timeout("transfer") = AccountsTimeout
    /\ Timeout("list") = HttpTimeout /\ Timeout("challenge") = HttpTimeout
    /\ Timeout("post") = HttpTimeout
  BY DEF Timeout

\* What was current lately was current in any longer time.
LEMMA CurrentGrows ==
    ASSUME ClockInv, NEW m \in Nat, NEW n \in Nat, m <= n
    PROVE  Current(m) \subseteq Current(n) /\ Current(m) \subseteq Versions
<1>1. published \in Versions /\ since \in [Versions -> 0..Horizon] /\ Horizon \in Nat
  BY Bounds DEF ClockInv
<1>2. ASSUME NEW v \in Current(m)  PROVE v \in Current(n) /\ v \in Versions
  <2>1. v \in 1..published /\ (v < published => since[v + 1] <= m)
    BY <1>2 DEF Current
  <2>2. v \in Versions /\ (v < published => v + 1 \in Versions)
    BY <1>1, <2>1, Bounds DEF Versions
  <2>3. v < published => since[v + 1] \in Nat
    BY <1>1, <2>2
  <2> QED  BY <2>1, <2>2, <2>3 DEF Current
<1> QED  BY <1>2

\* A toml used from the cache was current within the bound.
LEMMA CachedIsRecent ==
    ASSUME ClockInv, NEW c, Read(c), Cached(c)
    PROVE  c.v \in Versions /\ c.v \in Current(TomlBound)
<1>1. c.age \in Nat /\ c.age < TomlTTL /\ c.v \in Current(c.age + TomlTimeout)
  BY Bounds DEF Read, Cached
<1>2. c.age + TomlTimeout \in Nat /\ c.age + TomlTimeout <= TomlBound
  BY <1>1, Bounds DEF TomlBound
<1> QED  BY <1>1, <1>2, CurrentGrows, Bounds

\* A toml fetched by a call that is in time was current within its timeout.
LEMMA FetchedIsRecent ==
    ASSUME ClockInv, NEW n \in Nat, n <= TomlTimeout, NEW v \in Current(n)
    PROVE  /\ v \in Versions /\ v # 0
           /\ v \in Current(TomlTimeout) /\ v \in Current(TomlBound)
           /\ Read([age |-> 0, v |-> v])
<1>1. v \in Versions /\ v \in Current(TomlTimeout)
  BY CurrentGrows, Bounds
<1>2. v \in Current(TomlBound)
  BY <1>1, CurrentGrows, Bounds DEF TomlBound
<1>3. Read([age |-> 0, v |-> v])
  BY <1>1, Bounds DEF Read
<1> QED  BY <1>1, <1>2, <1>3, Bounds

--------------------------------------------------------------------------------
(* A call ends *)

\* What Shows leaves of a call.
LEMMA ShowsFields ==
    ASSUME NEW r \in JobType, NEW verdict \in Verdicts
    PROVE  /\ Shows(r, verdict) \in JobType
           /\ Shows(r, verdict).stage = "shown" /\ Shows(r, verdict).verdict = verdict
           /\ Shows(r, verdict).tx = r.tx /\ Shows(r, verdict).user = r.user
           /\ Shows(r, verdict).age = r.age /\ Shows(r, verdict).old = r.old
           /\ Shows(r, verdict).unread = r.unread /\ Shows(r, verdict).quiet = r.quiet
           /\ Shows(r, verdict).asked = r.asked /\ Shows(r, verdict).note = r.note
           /\ Shows(r, verdict).relaxed = r.relaxed
  BY DEF Shows, JobType

\* A sound call that is not relaxed ends soundly, with a login only if it is one.
LEMMA ShowsAnswered ==
    ASSUME NEW r, Sound(r), ~r.relaxed, NEW verdict \in Verdicts,
           verdict = "login" => IsLoginOf(r.tx, r.user, Current(TomlBound + r.age))
    PROVE  Answered(Shows(r, verdict))
<1> DEFINE s == Shows(r, verdict)
<1>1. /\ s \in JobType /\ s.stage = "shown" /\ s.verdict = verdict
      /\ s.tx = r.tx /\ s.user = r.user /\ s.age = r.age /\ s.old = r.old
      /\ s.unread = r.unread /\ s.quiet = r.quiet /\ s.asked = r.asked /\ s.note = r.note
      /\ s.relaxed = r.relaxed
  BY ShowsFields DEF Sound
<1> HIDE DEF s
<1>2. Sound(s)
  BY <1>1 DEF Sound, Confirmed, Unlisted
<1>3. Answered(s)
  BY <1>1, <1>2 DEF Answered
<1> QED  BY <1>3 DEF s

\* ... and goes to the server, relaxed only if all its trustlines are vouched for.
LEMMA ToServerAnswered ==
    ASSUME NEW r, Sound(r), NEW relaxed \in BOOLEAN, relaxed => Vouches(r)
    PROVE  Answered(ToServer(r, relaxed))
<1> DEFINE s == Shows(r, "analysed")
<1> DEFINE u == [s EXCEPT !.relaxed = relaxed]
<1>1. /\ s \in JobType /\ s.stage = "shown" /\ s.verdict = "analysed"
      /\ s.tx = r.tx /\ s.user = r.user /\ s.age = r.age /\ s.old = r.old
      /\ s.unread = r.unread /\ s.quiet = r.quiet /\ s.asked = r.asked /\ s.note = r.note
  BY ShowsFields DEF Sound, Verdicts
<1> HIDE DEF s
<1>2. /\ u \in JobType /\ u.stage = "shown" /\ u.verdict = "analysed"
      /\ u.tx = r.tx /\ u.user = r.user /\ u.age = r.age /\ u.old = r.old
      /\ u.unread = r.unread /\ u.quiet = r.quiet /\ u.asked = r.asked /\ u.note = r.note
      /\ u.relaxed = relaxed
  BY <1>1 DEF JobType
<1> HIDE DEF u
<1>3. Sound(u)
  BY <1>2 DEF Sound, Confirmed, Unlisted
<1>4. Answered(u)
  BY <1>2, <1>3 DEF Answered, Vouches
<1> QED  BY <1>4 DEF u, s, ToServer

--------------------------------------------------------------------------------
(* A call waits *)

LEMMA WaitsFields ==
    ASSUME NEW r \in JobType, NEW stage \in Loading \cup {"list"}
    PROVE  /\ Waits(r, stage) \in JobType
           /\ Waits(r, stage).stage = stage /\ Waits(r, stage).waited = 0
           /\ Waits(r, stage).tx = r.tx /\ Waits(r, stage).user = r.user
           /\ Waits(r, stage).age = r.age /\ Waits(r, stage).old = r.old
           /\ Waits(r, stage).unread = r.unread /\ Waits(r, stage).quiet = r.quiet
           /\ Waits(r, stage).asked = r.asked /\ Waits(r, stage).note = r.note
           /\ Waits(r, stage).answer = r.answer /\ Waits(r, stage).relaxed = r.relaxed
  BY DEF Waits, JobType

\* A sound call may wait for a toml, if it has not taken too long for that stage.
LEMMA WaitsGoing ==
    ASSUME NEW r, Sound(r), ~r.relaxed, NEW stage \in Loading,
           stage \in {"sep10", "accounts"} => r.age = 0, stage = "accounts" => ~r.quiet,
           stage = "transfer" => r.age <= AccountsTimeout,
           stage \in {"accounts", "transfer"} => Open(r)
    PROVE  Going(Waits(r, stage))
<1> DEFINE s == Waits(r, stage)
<1>1. /\ s \in JobType /\ s.stage = stage /\ s.waited = 0
      /\ s.tx = r.tx /\ s.user = r.user /\ s.age = r.age /\ s.old = r.old
      /\ s.unread = r.unread /\ s.quiet = r.quiet /\ s.asked = r.asked /\ s.note = r.note
      /\ s.answer = r.answer /\ s.relaxed = r.relaxed
  BY WaitsFields DEF Sound
<1> HIDE DEF s
<1>2. Sound(s)
  BY <1>1 DEF Sound, Confirmed, Unlisted
<1>3. s.waited <= Timeout(s.stage)
  BY <1>1, Timeouts, Bounds DEF Loading
<1>4. stage \in {"accounts", "transfer"} => Open(s)
  BY <1>1 DEF Open
<1>5. stage = "transfer" => s.age <= AccountsTimeout + s.waited
  BY <1>1, Bounds
<1>6. stage # "list"
  BY DEF Loading
<1>7. Going(s)
  BY <1>1, <1>2, <1>3, <1>4, <1>5, <1>6 DEF Going
<1> QED  BY <1>7 DEF s

\* The token outlasts the request, since what went before took no longer than the skew
\* allows (ensureSession, getAnchorSession).
LEMMA AtSessionGoes ==
    ASSUME WalletInv, NEW r, Sound(r), ~r.relaxed, Open(r), r.age <= 2 * AccountsTimeout
    PROVE  Going(AtSession(r)) \/ Answered(AtSession(r))
<1>1. CASE ~getAnchorSession(TokenOf(r), r.age)
  <2>1. Answered(Shows(r, "block"))
    BY ShowsAnswered DEF Verdicts
  <2> QED  BY <1>1, <2>1 DEF AtSession
<1>2. CASE getAnchorSession(TokenOf(r), r.age)
  <2> DEFINE s == Waits(r, "list")
  <2> DEFINE u == [s EXCEPT !.left = sessions[TokenOf(r)], !.who = TokenOf(r)]
  <2>1. /\ s \in JobType /\ s.stage = "list" /\ s.waited = 0
        /\ s.tx = r.tx /\ s.user = r.user /\ s.age = r.age /\ s.old = r.old
        /\ s.unread = r.unread /\ s.quiet = r.quiet /\ s.asked = r.asked /\ s.note = r.note
        /\ s.answer = r.answer /\ s.relaxed = r.relaxed
    BY WaitsFields DEF Sound
  <2> HIDE DEF s
  <2>2. r.user \in Accounts /\ r.age \in Nat
    BY DEF Sound, JobType
  <2>3. sessions[r.user] \in Nat /\ sessions[r.user] + r.age > Skew
    BY <1>2, <2>2 DEF WalletInv, TokenOf, getAnchorSession
  <2>4. /\ u \in JobType /\ u.stage = "list" /\ u.waited = 0
        /\ u.tx = r.tx /\ u.user = r.user /\ u.age = r.age /\ u.old = r.old
        /\ u.unread = r.unread /\ u.quiet = r.quiet /\ u.asked = r.asked /\ u.note = r.note
        /\ u.answer = r.answer /\ u.relaxed = r.relaxed
        /\ u.left = sessions[r.user] /\ u.who = r.user
    BY <2>1, <2>2, <2>3 DEF JobType, TokenOf
  <2> HIDE DEF u
  <2>5. Sound(u)
    BY <2>4 DEF Sound, Confirmed, Unlisted
  <2>6. Open(u)
    BY <2>4 DEF Open
  <2>7. 2 * AccountsTimeout + HttpTimeout <= Skew
    BY AnchorsAssumption
  <2>8. u.left > HttpTimeout - u.waited
    BY <2>2, <2>3, <2>4, <2>7, Bounds
  <2>9. u.waited <= Timeout(u.stage)
    BY <2>4, Timeouts, Bounds
  <2>10. Going(u)
    BY <2>4, <2>5, <2>6, <2>8, <2>9 DEF Going
  <2> QED  BY <1>2, <2>10 DEF AtSession, u, s
<1> QED  BY <1>1, <1>2

LEMMA AtTransferGoes ==
    ASSUME WalletInv, NEW r, Sound(r), ~r.relaxed, Open(r), r.age <= AccountsTimeout, NEW c
    PROVE  Going(AtTransfer(r, c)) \/ Answered(AtTransfer(r, c))
<1>1. r.age <= 2 * AccountsTimeout /\ "transfer" \in Loading
  BY Bounds DEF Sound, JobType, Loading
<1>2. Going(Waits(r, "transfer"))
  BY <1>1, WaitsGoing
<1> QED  BY <1>1, <1>2, AtSessionGoes DEF AtTransfer

\* What Vouched lets through is vouched for by the asset the wallet knows, or by a toml
\* current within the bound.
LEMMA VouchedVouches ==
    ASSUME ClockInv, NEW r \in JobType, NEW v \in {0} \cup Versions,
           v # 0 => v \in Current(TomlBound), Vouched(r, Declared(v))
    PROVE  Vouches(r)
<1>1. r.age \in Nat /\ TomlBound + r.age \in Nat /\ TomlBound <= TomlBound + r.age
  BY Bounds DEF JobType
<1>2. v # 0 => v \in Current(TomlBound + r.age)
  BY <1>1, CurrentGrows, Bounds
<1> QED  BY <1>2 DEF Vouches, Vouched, Declared

LEMMA AtTrustGoes ==
    ASSUME ClockInv, NEW c, Read(c), NEW r, Sound(r), ~r.relaxed
    PROVE  Going(AtTrust(r, c)) \/ Answered(AtTrust(r, c))
<1>1. r \in JobType /\ Vouched(r, Declared(c.v)) \in BOOLEAN
  BY DEF Sound, Vouched
<1>2. Answered(ToServer(r, FALSE))
  BY ToServerAnswered
<1>3. Vouched(r, {Canonical}) => Answered(ToServer(r, TRUE))
  <2>1. Vouched(r, {Canonical}) => Vouches(r)
    BY DEF Vouched, Vouches
  <2> QED  BY <2>1, ToServerAnswered
<1>4. Cached(c) => Answered(ToServer(r, Vouched(r, Declared(c.v))))
  BY <1>1, CachedIsRecent, VouchedVouches, ToServerAnswered
<1>5. Going(Waits(r, "trust"))
  BY WaitsGoing DEF Loading
<1> QED  BY <1>2, <1>3, <1>4, <1>5 DEF AtTrust

\* A payment is guarded, or some toml of the time does not list what it pays.
LEMMA AtPaymentGoes ==
    ASSUME WalletInv, ClockInv, NEW c, Read(c), NEW r, Sound(r), ~r.relaxed, Open(r),
           r.age <= AccountsTimeout, NEW v,
           paymentTargets(r.tx) \cap AccountsOf(v) = {} => Unlisted(r)
    PROVE  Going(AtPayment(r, v, c)) \/ Answered(AtPayment(r, v, c))
<1>1. CASE paymentTargets(r.tx) \cap AccountsOf(v) = {}
  <2> DEFINE s == [r EXCEPT !.quiet = TRUE]
  <2>1. /\ s \in JobType /\ s.tx = r.tx /\ s.user = r.user /\ s.age = r.age /\ s.old = r.old
        /\ s.unread = r.unread /\ s.asked = r.asked /\ s.note = r.note /\ s.relaxed = r.relaxed
    BY DEF Sound, JobType
  <2> HIDE DEF s
  <2>2. Sound(s) /\ ~s.relaxed
    BY <1>1, <2>1 DEF Sound, Confirmed, Unlisted
  <2>3. Going(AtTrust(s, c)) \/ Answered(AtTrust(s, c))
    BY <2>2, AtTrustGoes
  <2> QED  BY <1>1, <2>3 DEF AtPayment, s
<1>2. CASE paymentTargets(r.tx) \cap AccountsOf(v) # {}
  BY <1>2, AtTransferGoes DEF AtPayment
<1> QED  BY <1>1, <1>2

--------------------------------------------------------------------------------
(* A call begins, and reads a toml *)

LEMMA ChallengeIsLogin ==
    ASSUME NEW tx, NEW user, NEW v
    PROVE  /\ analyzeSep10Challenge(tx, user, v) \in Verdicts
           /\ analyzeSep10Challenge(tx, user, v) = "login"
                 => v # 0 /\ \A S : v \in S => IsLoginOf(tx, user, S)
  BY DEF analyzeSep10Challenge, shapeViolations, Verdicts, IsLoginOf

\* A toml of the time that does not list the targets of a payment.
LEMMA NotListed ==
    ASSUME ClockInv, NEW r \in JobType, NEW n \in Nat, n <= AccountsTTL + TomlBound,
           NEW v \in Current(n), paymentTargets(r.tx) \cap AccountsOf(v) = {}
    PROVE  Unlisted(r)
<1>1. /\ r.age + AccountsTTL + TomlBound \in Nat
      /\ n <= r.age + AccountsTTL + TomlBound
  BY Bounds DEF JobType
<1>2. v \in Current(r.age + AccountsTTL + TomlBound)
  BY <1>1, CurrentGrows
<1> QED  BY <1>2 DEF Unlisted

LEMMA AtWithdrawalGoes ==
    ASSUME WalletInv, ClockInv, Read(toml), KnownInv,
           NEW r, Sound(r), ~r.relaxed, ~r.quiet, r.age = 0,
           paymentTargets(r.tx) # {} => Open(r)
    PROVE  Going(AtWithdrawal(r)) \/ Answered(AtWithdrawal(r))
<1>1. CASE paymentTargets(r.tx) = {}
  BY <1>1, AtTrustGoes DEF AtWithdrawal
<1>2. CASE paymentTargets(r.tx) # {}
  <2>1. Open(r) /\ r \in JobType /\ r.age <= AccountsTimeout
    BY <1>2, Bounds DEF Sound
  <2>2. CASE Remembered
    <3>1. known.age \in Nat /\ known.age < AccountsTTL
      BY <2>2, Bounds DEF KnownInv, Remembered
    <3>2. /\ known.v \in Current(known.age + TomlBound)
          /\ known.age + TomlBound \in Nat
          /\ known.age + TomlBound <= AccountsTTL + TomlBound
      BY <2>2, <3>1, Bounds DEF KnownInv
    <3>3. paymentTargets(r.tx) \cap AccountsOf(known.v) = {} => Unlisted(r)
      BY <2>1, <3>2, NotListed
    <3> QED  BY <1>2, <2>1, <2>2, <3>3, AtPaymentGoes DEF AtWithdrawal
  <2>3. CASE ~Remembered /\ Cached(toml)
    <3>1. toml.v \in Current(TomlBound) /\ TomlBound <= AccountsTTL + TomlBound
      BY <2>3, CachedIsRecent, Bounds
    <3>2. paymentTargets(r.tx) \cap AccountsOf(toml.v) = {} => Unlisted(r)
      BY <2>1, <3>1, NotListed, Bounds
    <3> QED  BY <1>2, <2>1, <2>3, <3>2, AtPaymentGoes DEF AtWithdrawal
  <2>4. CASE ~Remembered /\ ~Cached(toml)
    <3>1. Going(Waits(r, "accounts"))
      BY <2>1, WaitsGoing DEF Loading
    <3> QED  BY <1>2, <2>4, <3>1 DEF AtWithdrawal
  <2> QED  BY <2>2, <2>3, <2>4
<1> QED  BY <1>1, <1>2

LEMMA AtChallengeGoes ==
    ASSUME ClockInv, Read(toml), NEW r, Sound(r), ~r.relaxed, r.age = 0
    PROVE  Going(AtChallenge(r)) \/ Answered(AtChallenge(r))
<1>1. Answered(Shows(r, analyzeSep10Challenge(r.tx, r.user, 0)))
  BY ChallengeIsLogin, ShowsAnswered
<1>2. Cached(toml) => Answered(Shows(r, analyzeSep10Challenge(r.tx, r.user, toml.v)))
  <2> SUFFICES ASSUME Cached(toml)
               PROVE  Answered(Shows(r, analyzeSep10Challenge(r.tx, r.user, toml.v)))
    OBVIOUS
  <2>1. toml.v \in Current(TomlBound + r.age)
    BY CachedIsRecent, Bounds
  <2> QED  BY <2>1, ChallengeIsLogin, ShowsAnswered
<1>3. Going(Waits(r, "sep10"))
  BY WaitsGoing DEF Loading
<1> QED  BY <1>1, <1>2, <1>3 DEF AtChallenge

\* A call goes on soundly with the toml it waited for, or without one.
LEMMA AfterLoadGoes ==
    ASSUME WalletInv, ClockInv, NEW c, Read(c),
           NEW r, Going(r), r.stage \in Loading, NEW v, v = 0 \/ v \in Current(r.waited)
    PROVE  Going(AfterLoad(r, v, c)) \/ Answered(AfterLoad(r, v, c))
<1>1. /\ r \in JobType /\ Sound(r) /\ ~r.relaxed /\ r.waited \in Nat /\ r.age \in Nat
      /\ r.waited <= Timeout(r.stage)
  BY DEF Going, Sound, JobType
<1>2. r.waited <= TomlTimeout
  BY <1>1, Timeouts, Bounds, AnchorsAssumption DEF Loading
<1>3. v # 0 => v \in Versions /\ v \in Current(TomlTimeout) /\ v \in Current(TomlBound)
  BY <1>1, <1>2, FetchedIsRecent
<1>4. CASE r.stage = "sep10"
  <2>1. TomlBound <= TomlBound + r.age /\ TomlBound + r.age \in Nat
    BY <1>1, Bounds
  <2>2. v # 0 => v \in Current(TomlBound + r.age)
    BY <1>3, <2>1, CurrentGrows, Bounds
  <2>3. Answered(Shows(r, analyzeSep10Challenge(r.tx, r.user, v)))
    BY <1>1, <2>2, ChallengeIsLogin, ShowsAnswered
  <2> QED  BY <1>4, <2>3 DEF AfterLoad
<1>5. CASE r.stage = "accounts"
  <2> DEFINE s == [r EXCEPT !.unread = v = 0]
  <2> DEFINE w == IF v = 0 THEN r.old ELSE v
  <2>1. /\ s \in JobType /\ s.tx = r.tx /\ s.user = r.user /\ s.age = r.age /\ s.old = r.old
        /\ s.unread = (v = 0) /\ s.asked = r.asked /\ s.note = r.note
        /\ s.relaxed = r.relaxed /\ s.answer = r.answer /\ s.quiet = r.quiet
    BY <1>1 DEF JobType
  <2> HIDE DEF s
  <2>2. Sound(s) /\ ~s.relaxed /\ Open(s)
    BY <1>1, <1>5, <2>1 DEF Sound, Confirmed, Open, Going
  <2>3. s.age <= AccountsTimeout
    BY <1>1, <1>5, <2>1, Timeouts DEF Going
  <2>4. paymentTargets(s.tx) \cap AccountsOf(w) = {} => Unlisted(s)
    <3>1. CASE v = 0
      BY <2>1, <3>1 DEF Unlisted
    <3>2. CASE v # 0
      <4>1. v \in Current(TomlBound) /\ TomlBound <= AccountsTTL + TomlBound
        BY <1>3, <3>2, Bounds
      <4> QED  BY <2>1, <3>2, <4>1, NotListed, Bounds
    <3> QED  BY <3>1, <3>2
  <2>5. Going(AtPayment(s, w, c)) \/ Answered(AtPayment(s, w, c))
    BY <2>2, <2>3, <2>4, AtPaymentGoes
  <2> QED  BY <1>5, <2>5 DEF AfterLoad, s
<1>6. CASE r.stage = "transfer"
  <2>1. r.age <= 2 * AccountsTimeout /\ Open(r)
    BY <1>1, <1>6, Timeouts, Bounds DEF Going
  <2>2. Going(AtSession(r)) \/ Answered(AtSession(r))
    BY <1>1, <2>1, AtSessionGoes
  <2>3. Answered(Shows(r, "block"))
    BY <1>1, ShowsAnswered DEF Verdicts
  <2> QED  BY <1>6, <2>2, <2>3 DEF AfterLoad
<1>7. CASE r.stage = "trust"
  <2>1. Vouched(r, Declared(v)) \in BOOLEAN
    BY DEF Vouched
  <2>2. Vouched(r, Declared(v)) => Vouches(r)
    BY <1>1, <1>3, VouchedVouches
  <2>3. Answered(ToServer(r, Vouched(r, Declared(v))))
    BY <1>1, <2>1, <2>2, ToServerAnswered
  <2> QED  BY <1>7, <2>3 DEF AfterLoad
<1> QED  BY <1>4, <1>5, <1>6, <1>7 DEF Loading

--------------------------------------------------------------------------------
(* The withdrawal on record *)

LEMMA ListedGoes ==
    ASSUME NEW r, Going(r), r.stage = "list"
    PROVE  Going([r EXCEPT !.answer =
                     {[order |-> o, waiting |-> o \in waiting] :
                         o \in {p \in Orders : Terms[p].user = r.who}}])
<1> DEFINE ans == {[order |-> o, waiting |-> o \in waiting] :
                       o \in {p \in Orders : Terms[p].user = r.who}}
<1> DEFINE s == [r EXCEPT !.answer = ans]
<1>1. ASSUME NEW w \in ans
      PROVE  /\ w \in [order : Orders, waiting : BOOLEAN]
             /\ Terms[w.order].user = r.who /\ (w.waiting => w.order \in waiting)
  <2>1. PICK o \in Orders : Terms[o].user = r.who /\ w = [order |-> o, waiting |-> o \in waiting]
    OBVIOUS
  <2>2. (o \in waiting) \in BOOLEAN
    OBVIOUS
  <2>3. w.order = o /\ w.waiting = (o \in waiting)
    BY <2>1
  <2>4. w \in [order : Orders, waiting : BOOLEAN]
    BY <2>1, <2>2
  <2> QED  BY <2>1, <2>3, <2>4
<1>2. ans \in SUBSET [order : Orders, waiting : BOOLEAN]
  BY <1>1
<1> HIDE DEF ans
<1>3. /\ s \in JobType /\ s.stage = r.stage /\ s.waited = r.waited /\ s.left = r.left
      /\ s.tx = r.tx /\ s.user = r.user /\ s.age = r.age /\ s.old = r.old /\ s.who = r.who
      /\ s.unread = r.unread /\ s.asked = r.asked /\ s.note = r.note
      /\ s.relaxed = r.relaxed /\ s.answer = ans /\ s.quiet = r.quiet
  BY <1>2 DEF Going, Sound, JobType
<1> HIDE DEF s
<1>4. Sound(s)
  BY <1>3 DEF Going, Sound, Confirmed, Unlisted
<1>5. \A w \in ans : Terms[w.order].user = r.who /\ (w.waiting => w.order \in waiting)
  BY <1>1
<1>6. Open(s)
  BY <1>3, <1>5 DEF Going, Open
<1>7. Going(s)
  BY <1>3, <1>4, <1>6 DEF Going
<1> QED  BY <1>7 DEF s, ans

\* What is noted as verified is an order that was waiting when the analysis began.
LEMMA CheckedGoes ==
    ASSUME ClockInv, Read(toml), NEW r, Going(r), r.stage = "list",
           NEW w \in r.answer, NEW s \in Checked(r, w)
    PROVE  Going(s) \/ Answered(s)
<1>1. r \in JobType /\ Sound(r) /\ ~r.relaxed /\ Open(r)
  BY DEF Going, Sound
<1>2. CASE ~Matches(r.tx, r.user, w)
  <2>1. Answered(Shows(r, "block"))
    BY <1>1, ShowsAnswered DEF Verdicts
  <2> QED  BY <1>2, <2>1 DEF Checked
<1>3. CASE Matches(r.tx, r.user, w)
  <2>1. PICK n \in {"verified", "expired"} : s = AtTrust([r EXCEPT !.note = n], toml)
    BY <1>3 DEF Checked
  <2> DEFINE u == [r EXCEPT !.note = n]
  <2>2. /\ u \in JobType /\ u.tx = r.tx /\ u.user = r.user /\ u.age = r.age /\ u.old = r.old
        /\ u.unread = r.unread /\ u.asked = r.asked /\ u.relaxed = r.relaxed /\ u.quiet = r.quiet
    BY <1>1 DEF JobType
  <2> HIDE DEF u
  <2>3. w.order \in r.asked /\ Terms[w.order].user = r.user /\ w.waiting
    BY <1>1, <1>3 DEF Open, Matches
  <2>4. Len(r.tx.ops) = 1 /\ OpsOf(r.tx) = {r.tx.ops[1]}
    <3>1. Len(r.tx.ops) = 1 /\ r.tx.ops \in Seq(Range(r.tx.ops))
      BY <1>1, <1>3, AnchorsAssumption DEF Matches, JobType
    <3>2. DOMAIN r.tx.ops = {1}
      BY <3>1, LenProperties
    <3> QED  BY <3>1, <3>2 DEF OpsOf, Range
  <2>5. Matches(r.tx, Terms[w.order].user, [order |-> w.order, waiting |-> TRUE])
    BY <1>3, <2>3 DEF Matches
  <2>6. Confirmed(u)
    BY <2>2, <2>3, <2>4, <2>5 DEF Confirmed
  <2>7. Sound(u) /\ ~u.relaxed
    BY <1>1, <2>2, <2>6 DEF Sound, Unlisted
  <2> QED  BY <2>1, <2>7, AtTrustGoes DEF u
<1> QED  BY <1>2, <1>3

--------------------------------------------------------------------------------
(* Time and the anchor *)

\* What was current in some time still is, as long as nothing but publishing happens.
Remains ==
    /\ \A n \in Nat : Current(n) \subseteq Current(n)'
    /\ waiting' \subseteq waiting

LEMMA AnchorRemains ==
    ASSUME UNCHANGED anchor
    PROVE  Remains
<1>1. published' = published /\ since' = since /\ waiting' = waiting
  BY DEF anchor
<1>2. \A n \in Nat : Current(n)' = Current(n)
  BY <1>1 DEF Current
<1> QED  BY <1>1, <1>2 DEF Remains

\* A login's key is the anchor's in any longer time.
LEMMA LoginOfMore ==
    ASSUME NEW tx, NEW account, NEW S, NEW T, S \subseteq T, IsLoginOf(tx, account, S)
    PROVE  IsLoginOf(tx, account, T)
  BY DEF IsLoginOf

LEMMA SoundLater ==
    ASSUME NEW r, Sound(r), \A n \in Nat : Current(n) \subseteq Current(n)'
    PROVE  Sound(r)'
<1>1. r \in JobType /\ r.age + AccountsTTL + TomlBound \in Nat
  BY Bounds DEF Sound, JobType
<1>2. Current(r.age + AccountsTTL + TomlBound) \subseteq Current(r.age + AccountsTTL + TomlBound)'
  BY <1>1
<1>3. Unlisted(r) => Unlisted(r)'
  BY <1>2 DEF Unlisted
<1> QED  BY <1>1, <1>3 DEF Sound, Confirmed

LEMMA JobLater ==
    ASSUME NEW r, Going(r) \/ Answered(r), Remains
    PROVE  (Going(r) \/ Answered(r))'
<1>1. CASE Going(r)
  <2>1. Sound(r)'
    BY <1>1, SoundLater DEF Going, Remains
  <2>2. Open(r) => Open(r)'
    BY DEF Open, Remains
  <2>3. Going(r)'
    BY <1>1, <2>1, <2>2 DEF Going
  <2> QED  BY <2>3
<1>2. CASE Answered(r)
  <2>1. Sound(r)'
    BY <1>2, SoundLater DEF Answered, Remains
  <2>2. TomlBound + r.age \in Nat
    BY <1>2, Bounds DEF Answered, Sound, JobType
  <2>3. Current(TomlBound + r.age) \subseteq Current(TomlBound + r.age)'
    BY <2>2 DEF Remains
  <2>4. Vouches(r) => Vouches(r)'
    BY <2>3 DEF Vouches
  <2>5. IsLoginOf(r.tx, r.user, Current(TomlBound + r.age))
           => IsLoginOf(r.tx, r.user, Current(TomlBound + r.age)')
    BY <2>3, LoginOfMore
  <2>6. Answered(r)'
    BY <1>2, <2>1, <2>4, <2>5 DEF Answered
  <2> QED  BY <2>6
<1> QED  BY <1>1, <1>2

LEMMA LoginLater ==
    ASSUME NEW r, LoggingIn(r), \A n \in Nat : Current(n) \subseteq Current(n)'
    PROVE  LoggingIn(r)'
<1>1. TomlBound + r.waited \in Nat /\ TomlBound + HttpTimeout + r.waited \in Nat
  BY Bounds DEF LoggingIn, LoginType
<1>2. /\ Current(TomlBound + r.waited) \subseteq Current(TomlBound + r.waited)'
      /\ Current(TomlBound + HttpTimeout + r.waited)
            \subseteq Current(TomlBound + HttpTimeout + r.waited)'
  BY <1>1
<1>3. \A tx : IsLoginOf(tx, r.account, Current(TomlBound + HttpTimeout + r.waited))
            => IsLoginOf(tx, r.account, Current(TomlBound + HttpTimeout + r.waited)')
  BY <1>2, LoginOfMore
<1> QED  BY <1>2, <1>3 DEF LoggingIn

LEMMA ReadLater ==
    ASSUME NEW c, Read(c), \A n \in Nat : Current(n) \subseteq Current(n)'
    PROVE  Read(c)'
<1>1. c.age + TomlTimeout \in Nat
  BY Bounds DEF Read
<1> QED  BY <1>1 DEF Read

LEMMA KnownLater ==
    ASSUME KnownInv, UNCHANGED known, \A n \in Nat : Current(n) \subseteq Current(n)'
    PROVE  KnownInv'
<1>1. known.age + TomlBound \in Nat
  BY Bounds DEF KnownInv
<1>2. Current(known.age + TomlBound) \subseteq Current(known.age + TomlBound)'
  BY <1>1
<1> QED  BY <1>2 DEF KnownInv, Remembered

--------------------------------------------------------------------------------
(* All calls and logins *)

\* Calls that have answered are over, the others go on.
LEMMA RestKeeps ==
    ASSUME JobInv, Remains, job' = Rest
    PROVE  JobInv'
<1>1. job' = [j \in Jobs |-> job'[j]]
  BY DEF Rest
<1>2. ASSUME NEW j \in Jobs
      PROVE  job'[j] = NoJob \/ (Going(job[j]) \/ Answered(job[j]))'
  <2>1. PICK r : r = job[j]
    OBVIOUS
  <2>2. job'[j] = NoJob \/ job'[j] = r
    BY <2>1 DEF Rest
  <2>3. r = NoJob \/ Going(r) \/ Answered(r)
    BY <2>1 DEF JobInv
  <2>4. r = NoJob \/ (Going(r) \/ Answered(r))'
    BY <2>3, JobLater
  <2> QED  BY <2>2, <2>4
<1> QED  BY <1>1, <1>2 DEF JobInv

LEMMA OneMoves ==
    ASSUME JobInv, Remains, NEW j \in Jobs, NEW s, Going(s) \/ Answered(s),
           job' = [Rest EXCEPT ![j] = s]
    PROVE  JobInv'
<1>1. job' = [i \in Jobs |-> job'[i]] /\ job'[j] = s
  BY DEF Rest
<1>2. (Going(s) \/ Answered(s))'
  BY JobLater
<1>3. ASSUME NEW i \in Jobs
      PROVE  job'[i] = NoJob \/ (Going(job[i]) \/ Answered(job[i]))'
  <2>1. PICK r : r = job[i]
    OBVIOUS
  <2>2. job'[i] = NoJob \/ job'[i] = r \/ job'[i] = s
    BY <2>1 DEF Rest
  <2>3. r = NoJob \/ Going(r) \/ Answered(r)
    BY <2>1 DEF JobInv
  <2>4. r = NoJob \/ (Going(r) \/ Answered(r))'
    BY <2>3, JobLater
  <2> QED  BY <1>2, <2>2, <2>4
<1> QED  BY <1>1, <1>3 DEF JobInv

LEMMA LoginsStay ==
    ASSUME LoginInv, UNCHANGED login, \A n \in Nat : Current(n) \subseteq Current(n)'
    PROVE  LoginInv'
<1>1. ASSUME NEW l \in Logins
      PROVE  login'[l] = NoLogin \/ LoggingIn(login[l])'
  <2>1. PICK r : r = login[l]
    OBVIOUS
  <2>2. r = NoLogin \/ LoggingIn(r)'
    BY <2>1, LoginLater DEF LoginInv
  <2> QED  BY <2>1, <2>2
<1> QED  BY <1>1 DEF LoginInv

LEMMA OneLogsIn ==
    ASSUME LoginInv, NEW l \in Logins, NEW s, s = NoLogin \/ LoggingIn(s),
           LoginAt(l, s), \A n \in Nat : Current(n) \subseteq Current(n)'
    PROVE  LoginInv'
<1>1. login' = [i \in Logins |-> login'[i]] /\ login'[l] = s
  BY DEF LoginAt, LoginInv
<1>2. s = NoLogin \/ LoggingIn(s)'
  BY LoginLater
<1>3. ASSUME NEW i \in Logins
      PROVE  login'[i] = NoLogin \/ LoggingIn(login[i])'
  <2>1. PICK r : r = login[i]
    OBVIOUS
  <2>2. login'[i] = r \/ login'[i] = s
    BY <2>1 DEF LoginAt, LoginInv
  <2>3. r = NoLogin \/ LoggingIn(r)'
    BY <2>1, LoginLater DEF LoginInv
  <2> QED  BY <1>2, <2>2, <2>3
<1> QED  BY <1>1, <1>3 DEF LoginInv

--------------------------------------------------------------------------------
(* The steps *)

LEMMA Initially == Init => IInv
<1> SUFFICES ASSUME Init PROVE IInv
  OBVIOUS
<1>1. WalletInv
  BY DEF Init, WalletInv, NoSession
<1>2. ClockInv
  BY Bounds DEF Init, ClockInv
<1>3. Read(toml) /\ KnownInv
  BY Bounds DEF Init, Read, KnownInv, Nothing, Remembered
<1>4. LoginInv /\ JobInv
  BY DEF Init, LoginInv, JobInv
<1> QED  BY <1>1, <1>2, <1>3, <1>4 DEF IInv

\* The clock, the cache and the remembered accounts as they are.
LEMMA WorldStays ==
    ASSUME IInv, UNCHANGED <<published, since, toml, known>>
    PROVE  ClockInv' /\ Read(toml)' /\ KnownInv'
<1>1. \A n \in Nat : Current(n)' = Current(n)
  BY DEF Current
<1>2. Read(toml)'
  <2>1. PICK c : c = toml
    OBVIOUS
  <2>2. Read(c)'
    BY <1>1, <2>1, ReadLater DEF IInv
  <2> QED  BY <2>1, <2>2
<1>3. KnownInv'
  BY <1>1, KnownLater DEF IInv
<1> QED  BY <1>2, <1>3 DEF ClockInv, IInv

LEMMA Begins ==
    ASSUME IInv, NEW j \in Jobs, txAnalyzeRequestHandler(j)
    PROVE  IInv'
<1>1. Remains /\ \A n \in Nat : Current(n) \subseteq Current(n)'
  BY AnchorRemains DEF txAnalyzeRequestHandler, Remains
<1>2. WalletInv' /\ ClockInv' /\ UNCHANGED toml /\ UNCHANGED login
  BY DEF txAnalyzeRequestHandler, IInv, WalletInv, ClockInv, wallet, memory, anchor
<1>3. LoginInv'
  BY <1>1, <1>2, LoginsStay DEF IInv
<1>4. Read(toml)'
  <2>1. PICK c : c = toml
    OBVIOUS
  <2>2. Read(c)'
    BY <1>1, <2>1, ReadLater DEF IInv
  <2> QED  BY <1>2, <2>1, <2>2
<1>5. PICK tx \in Txs :
        LET begun == [stage |-> "begun", tx |-> tx, user |-> active, who |-> active,
                      age |-> 0, waited |-> 0, left |-> 0, old |-> Before(tx), unread |-> FALSE,
                      quiet |-> FALSE, asked |-> Asked(tx, active), answer |-> {},
                       verdict |-> "none",
                      note |-> "none", relaxed |-> FALSE]
        IN  /\ job' = [Rest EXCEPT ![j] =
                          IF parseCandidate(tx) THEN AtChallenge(begun) ELSE AtWithdrawal(begun)]
            /\ known' = IF ~parseCandidate(tx) /\ paymentTargets(tx) # {}
                           /\ ~Remembered /\ Cached(toml)
                        THEN [age |-> 0, v |-> toml.v] ELSE known
  BY DEF txAnalyzeRequestHandler
<1>6. KnownInv'
  <2>1. CASE UNCHANGED known
    BY <1>1, <2>1, KnownLater DEF IInv
  <2>2. CASE Cached(toml) /\ known' = [age |-> 0, v |-> toml.v]
    <3>1. toml.v \in Versions /\ toml.v \in Current(TomlBound)
      BY <2>2, CachedIsRecent DEF IInv
    <3>2. toml.v \in Current(TomlBound)'
      BY <1>1, <3>1, Bounds
    <3>3. known'.age = 0 /\ known'.v = toml.v /\ 0 + TomlBound = TomlBound
      BY <2>2, Bounds
    <3>4. known' \in [age : 0..Horizon, v : {0} \cup Versions]
      BY <2>2, <3>1, Bounds
    <3> QED  BY <3>2, <3>3, <3>4 DEF KnownInv
  <2> QED  BY <1>5, <2>1, <2>2
<1>7. JobInv'
  <2> DEFINE begun == [stage |-> "begun", tx |-> tx, user |-> active, who |-> active,
                       age |-> 0, waited |-> 0, left |-> 0, old |-> Before(tx), unread |-> FALSE,
                       quiet |-> FALSE, asked |-> Asked(tx, active), answer |-> {},
                       verdict |-> "none",
                       note |-> "none", relaxed |-> FALSE]
  <2>1. PICK r : r = begun
    OBVIOUS
  <2>2. Before(tx) \in {0} \cup Versions /\ Asked(tx, active) \subseteq Orders
    BY DEF IInv, KnownInv, WalletInv, Before, Asked
  <2>3. active \in Accounts
    BY DEF IInv, WalletInv
  <2>4. r \in JobType
    BY <2>1, <2>2, <2>3, Bounds DEF JobType, Verdicts
  <2>5. Sound(r) /\ ~r.relaxed /\ ~r.quiet /\ r.age = 0
    BY <2>1, <2>4 DEF Sound
  <2>6. paymentTargets(r.tx) # {} => Open(r)
    BY <2>1 DEF Open, Asked
  <2>7. Going(AtChallenge(r)) \/ Answered(AtChallenge(r))
    BY <2>5, AtChallengeGoes DEF IInv
  <2>8. Going(AtWithdrawal(r)) \/ Answered(AtWithdrawal(r))
    BY <2>5, <2>6, AtWithdrawalGoes DEF IInv
  <2>9. PICK s : s = IF parseCandidate(tx) THEN AtChallenge(r) ELSE AtWithdrawal(r)
    OBVIOUS
  <2>10. (Going(s) \/ Answered(s)) /\ job' = [Rest EXCEPT ![j] = s]
    BY <1>5, <2>1, <2>7, <2>8, <2>9
  <2> QED  BY <1>1, <2>10, OneMoves DEF IInv
<1> QED  BY <1>2, <1>3, <1>4, <1>6, <1>7 DEF IInv

LEMMA Fetches ==
    ASSUME IInv, NEW j \in Jobs, fetchAnchorToml(j)
    PROVE  IInv'
<1>1. Remains /\ \A n \in Nat : Current(n) \subseteq Current(n)'
  BY AnchorRemains DEF fetchAnchorToml, Remains
<1>2. WalletInv' /\ ClockInv' /\ UNCHANGED login
  BY DEF fetchAnchorToml, IInv, WalletInv, ClockInv, wallet, anchor
<1>3. LoginInv'
  BY <1>1, <1>2, LoginsStay DEF IInv
<1>4. PICK r : r = job[j]
  OBVIOUS
<1>5. Going(r) /\ r.stage \in Loading
  BY <1>4 DEF fetchAnchorToml, IInv, JobInv, NoJob, Answered, Loading
<1>6. PICK v \in Current(r.waited) :
        /\ toml' = [age |-> 0, v |-> v]
        /\ job' = [Rest EXCEPT ![j] = AfterLoad(@, v, toml')]
        /\ known' = IF r.stage = "accounts" THEN [age |-> r.age, v |-> v] ELSE known
  BY <1>4 DEF fetchAnchorToml, Served
<1>7. r.waited \in Nat /\ r.waited <= TomlTimeout /\ r.age \in Nat
  BY <1>5, Timeouts, Bounds, AnchorsAssumption DEF Going, Sound, JobType, Loading
<1>8. v \in Versions /\ Read([age |-> 0, v |-> v])
  BY <1>7, FetchedIsRecent DEF IInv
<1>9. PICK c : c = [age |-> 0, v |-> v]
  OBVIOUS
<1>10. Read(toml)'
  <2>1. Read(c)'
    BY <1>1, <1>8, <1>9, ReadLater
  <2> QED  BY <1>6, <1>9, <2>1
<1>11. KnownInv'
  <2>1. CASE r.stage # "accounts"
    BY <1>1, <1>6, <2>1, KnownLater DEF IInv
  <2>2. CASE r.stage = "accounts"
    <3>1. r.age = r.waited /\ r.age <= AccountsTimeout
      BY <1>5, <2>2, Timeouts DEF Going
    <3>2. known' = [age |-> r.age, v |-> v]
      BY <1>6, <2>2
    <3>3. known' \in [age : 0..Horizon, v : {0} \cup Versions]
      BY <1>7, <1>8, <3>1, <3>2, Bounds DEF Horizon
    <3>4. r.age + TomlBound \in Nat /\ r.age <= r.age + TomlBound
      BY <1>7, Bounds
    <3>5. v \in Current(r.age + TomlBound)'
      BY <1>1, <1>7, <3>1, <3>4, CurrentGrows DEF IInv
    <3> QED  BY <3>2, <3>3, <3>5 DEF KnownInv
  <2> QED  BY <2>1, <2>2
<1>12. JobInv'
  <2>1. PICK s : s = AfterLoad(r, v, c)
    OBVIOUS
  <2>2. Going(s) \/ Answered(s)
    BY <1>5, <1>8, <1>9, <2>1, AfterLoadGoes DEF IInv
  <2>3. Rest[j] = r
    BY <1>4, <1>5 DEF Rest, Loading
  <2>4. job' = [Rest EXCEPT ![j] = s]
    BY <1>6, <1>9, <2>1, <2>3
  <2> QED  BY <1>1, <2>2, <2>4, OneMoves DEF IInv
<1> QED  BY <1>2, <1>3, <1>10, <1>11, <1>12 DEF IInv

\* A step of one call that leaves the rest of the wallet and the anchor alone.
LEMMA OneCallMoves ==
    ASSUME IInv, UNCHANGED <<wallet, memory, known, anchor, login>>,
           NEW j \in Jobs, NEW s, Going(s) \/ Answered(s), job' = [Rest EXCEPT ![j] = s]
    PROVE  IInv'
<1>1. Remains
  BY AnchorRemains
<1>2. JobInv'
  BY <1>1, OneMoves DEF IInv
<1>3. LoginInv'
  BY <1>1, LoginsStay DEF IInv, Remains
<1>4. ClockInv' /\ Read(toml)' /\ KnownInv'
  BY WorldStays DEF memory, anchor
<1>5. WalletInv'
  BY DEF IInv, WalletInv, wallet, memory, anchor
<1> QED  BY <1>2, <1>3, <1>4, <1>5 DEF IInv

LEMMA FetchFails ==
    ASSUME IInv, NEW j \in Jobs, fetchAnchorTomlFails(j)
    PROVE  IInv'
<1>1. PICK r : r = job[j]
  OBVIOUS
<1>2. Going(r) /\ r.stage \in Loading
  BY <1>1 DEF fetchAnchorTomlFails, IInv, JobInv, NoJob, Answered, Loading
<1>3. PICK c : c = toml
  OBVIOUS
<1>4. PICK s : s = AfterLoad(r, 0, c)
  OBVIOUS
<1>5. Going(s) \/ Answered(s)
  BY <1>2, <1>3, <1>4, AfterLoadGoes DEF IInv
<1>6. Rest[j] = r
  BY <1>1, <1>2 DEF Rest, Loading
<1>7. job' = [Rest EXCEPT ![j] = s]
  BY <1>3, <1>4, <1>6 DEF fetchAnchorTomlFails
<1> QED  BY <1>5, <1>7, OneCallMoves DEF fetchAnchorTomlFails

LEMMA Lists ==
    ASSUME IInv, NEW j \in Jobs, AnchorLists(j)
    PROVE  IInv'
<1>1. PICK r : r = job[j]
  OBVIOUS
<1>2. Going(r) /\ r.stage = "list"
  BY <1>1 DEF AnchorLists, IInv, JobInv, NoJob, Answered
<1> DEFINE ans == {[order |-> o, waiting |-> o \in waiting] :
                       o \in {p \in Orders : Terms[p].user = r.who}}
<1>3. PICK s : s = [r EXCEPT !.answer = ans]
  OBVIOUS
<1>4. Going(s)
  BY <1>2, <1>3, ListedGoes
<1>5. Rest[j] = r
  BY <1>1, <1>2 DEF Rest
<1>6. job' = [Rest EXCEPT ![j].answer = ans]
  BY <1>1 DEF AnchorLists
<1>7. job' = [Rest EXCEPT ![j] = s]
  BY <1>3, <1>5, <1>6
<1> QED  BY <1>4, <1>7, OneCallMoves DEF AnchorLists

LEMMA Checks ==
    ASSUME IInv, NEW j \in Jobs, listSep6Withdrawals(j)
    PROVE  IInv'
<1>1. PICK r : r = job[j]
  OBVIOUS
<1>2. Going(r) /\ r.stage = "list"
  BY <1>1 DEF listSep6Withdrawals, IInv, JobInv, NoJob, Answered
<1>3. Rest[j] = r
  BY <1>1, <1>2 DEF Rest
<1>4. CASE job' = [Rest EXCEPT ![j] = Shows(@, "block")]
  <2>1. PICK s : s = Shows(r, "block")
    OBVIOUS
  <2>2. Answered(s)
    BY <1>2, <2>1, ShowsAnswered DEF Going, Verdicts
  <2>3. job' = [Rest EXCEPT ![j] = s]
    BY <1>3, <1>4, <2>1
  <2> QED  BY <2>2, <2>3, OneCallMoves DEF listSep6Withdrawals
<1>5. CASE \E w \in Claimed(r.tx, r.answer) : \E s \in Checked(r, w) : job' = [Rest EXCEPT ![j] = s]
  <2>1. PICK w \in Claimed(r.tx, r.answer) : \E s \in Checked(r, w) : job' = [Rest EXCEPT ![j] = s]
    BY <1>5
  <2>2. PICK s \in Checked(r, w) : job' = [Rest EXCEPT ![j] = s]
    BY <2>1
  <2>3. w \in r.answer
    BY DEF Claimed
  <2>4. Going(s) \/ Answered(s)
    BY <1>2, <2>3, CheckedGoes DEF IInv
  <2> QED  BY <2>2, <2>4, OneCallMoves DEF listSep6Withdrawals
<1> QED  BY <1>1, <1>4, <1>5 DEF listSep6Withdrawals

\* A step of one login that leaves the anchor, the sessions and the cache alone.
LEMMA OneLoginMoves ==
    ASSUME IInv, UNCHANGED <<wallet, memory, known, anchor>>, job' = Rest,
           NEW l \in Logins, NEW s, s = NoLogin \/ LoggingIn(s), LoginAt(l, s)
    PROVE  IInv'
<1>1. Remains
  BY AnchorRemains
<1>2. JobInv'
  BY <1>1, RestKeeps DEF IInv
<1>3. LoginInv'
  BY <1>1, OneLogsIn DEF IInv, Remains
<1>4. ClockInv' /\ Read(toml)' /\ KnownInv'
  BY WorldStays DEF memory, anchor
<1>5. WalletInv'
  BY DEF IInv, WalletInv, wallet, memory, anchor
<1> QED  BY <1>2, <1>3, <1>4, <1>5 DEF IInv

\* A login that goes on with a toml holds a recent one.
LEMMA LoginHasToml ==
    ASSUME ClockInv, NEW r \in LoginType, NEW v, v \in Versions, v \in Current(TomlBound)
    PROVE  AtLoginToml(r, v) = NoLogin \/ LoggingIn(AtLoginToml(r, v))
<1> DEFINE s == [r EXCEPT !.stage = "challenge", !.v = v, !.waited = 0]
<1>1. s \in LoginType /\ s.stage = "challenge" /\ s.v = v /\ s.waited = 0
  BY DEF LoginType
<1> HIDE DEF s
<1>2. TomlBound + s.waited = TomlBound /\ s.waited <= Timeout(s.stage)
  BY <1>1, Bounds, Timeouts
<1>3. LoggingIn(s)
  BY <1>1, <1>2 DEF LoggingIn
<1> QED  BY <1>3 DEF AtLoginToml, s

LEMMA LogsIn ==
    ASSUME IInv, NEW l \in Logins, anchorLogin(l)
    PROVE  IInv'
<1>1. PICK r : r = [stage |-> "toml", account |-> active, waited |-> 0, v |-> 0, signed |-> {}]
  OBVIOUS
<1>2. active \in Accounts
  BY DEF IInv, WalletInv
<1>3. r \in LoginType /\ r.stage = "toml" /\ r.waited = 0
  BY <1>1, <1>2 DEF LoginType
<1>4. LoggingIn(r)
  BY <1>3, Timeouts, Bounds DEF LoggingIn
<1>5. PICK s : s = IF Cached(toml) THEN AtLoginToml(r, toml.v) ELSE r
  OBVIOUS
<1>6. s = NoLogin \/ LoggingIn(s)
  BY <1>3, <1>4, <1>5, CachedIsRecent, LoginHasToml DEF IInv
<1>7. LoginAt(l, s)
  BY <1>1, <1>5 DEF anchorLogin
<1>8. UNCHANGED <<wallet, memory, known, anchor>> /\ job' = Rest
  BY DEF anchorLogin
<1> QED  BY <1>6, <1>7, <1>8, OneLoginMoves

LEMMA LoginReads ==
    ASSUME IInv, NEW l \in Logins, requireAnchorToml(l)
    PROVE  IInv'
<1>1. PICK r : r = login[l]
  OBVIOUS
<1>2. LoggingIn(r) /\ r.stage = "toml"
  BY <1>1 DEF requireAnchorToml, IInv, LoginInv, NoLogin
<1>3. r \in LoginType /\ r.waited \in Nat /\ r.waited <= TomlTimeout
  BY <1>2, Timeouts DEF LoggingIn, LoginType
<1>4. PICK v \in Current(r.waited) :
        toml' = [age |-> 0, v |-> v] /\ LoginAt(l, AtLoginToml(r, v))
  BY <1>1 DEF requireAnchorToml, Served
<1>5. v \in Versions /\ v \in Current(TomlBound) /\ Read([age |-> 0, v |-> v])
  BY <1>3, FetchedIsRecent DEF IInv
<1>6. Remains /\ \A n \in Nat : Current(n) \subseteq Current(n)'
  BY AnchorRemains DEF requireAnchorToml, Remains
<1>7. Read(toml)'
  <2>1. PICK c : c = [age |-> 0, v |-> v]
    OBVIOUS
  <2>2. Read(c)'
    BY <1>5, <1>6, <2>1, ReadLater
  <2> QED  BY <1>4, <2>1, <2>2
<1>8. LoginInv'
  <2>1. PICK s : s = AtLoginToml(r, v)
    OBVIOUS
  <2>2. s = NoLogin \/ LoggingIn(s)
    BY <1>3, <1>5, <2>1, LoginHasToml DEF IInv
  <2> QED  BY <1>4, <1>6, <2>1, <2>2, OneLogsIn DEF IInv
<1>9. JobInv' /\ KnownInv'
  BY <1>6, RestKeeps, KnownLater DEF IInv, requireAnchorToml
<1>10. WalletInv' /\ ClockInv'
  BY DEF IInv, WalletInv, ClockInv, requireAnchorToml, wallet, anchor
<1> QED  BY <1>7, <1>8, <1>9, <1>10 DEF IInv

LEMMA Signs ==
    ASSUME IInv, NEW l \in Logins, signChallenge(l)
    PROVE  IInv'
<1>1. PICK r : r = login[l]
  OBVIOUS
<1>2. LoggingIn(r) /\ r.stage = "challenge"
  BY <1>1 DEF signChallenge, IInv, LoginInv, NoLogin
<1>3. /\ r \in LoginType /\ r.waited \in Nat /\ r.waited <= HttpTimeout
      /\ r.v \in Current(TomlBound + r.waited)
  BY <1>2, Timeouts DEF LoggingIn, LoginType
<1>4. PICK tx \in Txs :
        LoginAt(l, IF parseCandidate(tx)
                      /\ analyzeSep10Challenge(tx, r.account,
                            IF tx.login = "anchor" THEN r.v ELSE 0) = "login"
                   THEN [r EXCEPT !.stage = "post", !.v = 0, !.signed = {tx}, !.waited = 0]
                   ELSE NoLogin)
  BY <1>1 DEF signChallenge
<1>5. /\ TomlBound + r.waited \in Nat /\ TomlBound + HttpTimeout + 0 \in Nat
      /\ TomlBound + r.waited <= TomlBound + HttpTimeout + 0
  BY <1>3, Bounds
<1>6. r.v \in Current(TomlBound + HttpTimeout + 0)
  BY <1>3, <1>5, CurrentGrows DEF IInv
<1> DEFINE s == [r EXCEPT !.stage = "post", !.v = 0, !.signed = {tx}, !.waited = 0]
<1>7. /\ s \in LoginType /\ s.stage = "post" /\ s.signed = {tx} /\ s.waited = 0
      /\ s.account = r.account
  BY <1>3 DEF LoginType
<1> HIDE DEF s
<1>8. ASSUME analyzeSep10Challenge(tx, r.account, IF tx.login = "anchor" THEN r.v ELSE 0) = "login"
      PROVE  LoggingIn(s)
  <2>1. IsLoginOf(tx, s.account, Current(TomlBound + HttpTimeout + 0))
    BY <1>6, <1>7, <1>8, ChallengeIsLogin
  <2>2. s.waited <= Timeout(s.stage)
    BY <1>7, Timeouts, Bounds
  <2> QED  BY <1>7, <2>1, <2>2 DEF LoggingIn
<1>9. PICK u : u = IF parseCandidate(tx)
                      /\ analyzeSep10Challenge(tx, r.account,
                            IF tx.login = "anchor" THEN r.v ELSE 0) = "login"
                   THEN s ELSE NoLogin
  OBVIOUS
<1>10. (u = NoLogin \/ LoggingIn(u)) /\ LoginAt(l, u)
  BY <1>4, <1>8, <1>9 DEF s
<1>11. UNCHANGED <<wallet, memory, known, anchor>> /\ job' = Rest
  BY DEF signChallenge
<1> QED  BY <1>10, <1>11, OneLoginMoves

LEMMA LoginEnds ==
    ASSUME IInv, NEW l \in Logins, setAnchorSession(l) \/ loginFails(l)
    PROVE  IInv'
<1>1. CASE loginFails(l)
  BY <1>1, OneLoginMoves DEF loginFails
<1>2. CASE setAnchorSession(l)
  <2>1. Remains /\ \A n \in Nat : Current(n) \subseteq Current(n)'
    BY <1>2, AnchorRemains DEF setAnchorSession, Remains
  <2>2. LoginInv'
    BY <1>2, <2>1, OneLogsIn DEF setAnchorSession, IInv
  <2>3. JobInv' /\ KnownInv'
    BY <1>2, <2>1, RestKeeps, KnownLater DEF IInv, setAnchorSession
  <2>4. sessions' \in [Accounts -> Nat]
    BY <1>2, AnchorsAssumption DEF setAnchorSession, IInv, WalletInv
  <2>5. WalletInv' /\ ClockInv' /\ Read(toml)'
    <3>1. ClockInv' /\ Read(toml)'
      BY <1>2, WorldStays DEF setAnchorSession, anchor
    <3> QED  BY <1>2, <2>4, <3>1 DEF IInv, WalletInv, setAnchorSession, wallet, anchor
  <2> QED  BY <2>2, <2>3, <2>5 DEF IInv
<1> QED  BY <1>1, <1>2

LEMMA WalletMoves ==
    ASSUME IInv, lock \/ unlock \/ switchAccount \/ WorkerDies
    PROVE  IInv'
<1>1. Remains /\ \A n \in Nat : Current(n) \subseteq Current(n)'
  BY AnchorRemains DEF lock, unlock, switchAccount, WorkerDies, Remains
<1>2. WalletInv' /\ ClockInv' /\ KnownInv'
  <2>1. UNCHANGED known
    BY DEF lock, unlock, switchAccount, WorkerDies
  <2>2. unlocked' \in BOOLEAN /\ active' \in Accounts /\ sessions' \in [Accounts -> Nat]
    <3>1. unlocked \in BOOLEAN /\ active \in Accounts /\ sessions \in [Accounts -> Nat]
      BY DEF IInv, WalletInv
    <3>2. unlocked' \in BOOLEAN
      BY <3>1 DEF lock, unlock, switchAccount, WorkerDies
    <3>3. active' \in Accounts
      BY <3>1 DEF lock, unlock, switchAccount, WorkerDies
    <3>4. [a \in Accounts |-> NoSession] \in [Accounts -> Nat]
      BY DEF NoSession
    <3>5. sessions' = sessions \/ sessions' = [a \in Accounts |-> NoSession]
      BY DEF lock, unlock, switchAccount, WorkerDies, memory
    <3>6. sessions' \in [Accounts -> Nat]
      BY <3>1, <3>4, <3>5
    <3> QED  BY <3>2, <3>3, <3>6
  <2>3. UNCHANGED anchor
    BY DEF lock, unlock, switchAccount, WorkerDies
  <2> QED  BY <1>1, <2>1, <2>2, <2>3, KnownLater DEF IInv, WalletInv, ClockInv, anchor
<1>3. CASE WorkerDies
  <2>1. LoginInv' /\ JobInv'
    BY <1>3 DEF WorkerDies, LoginInv, JobInv
  <2>2. Read(toml)'
    BY <1>3, Bounds DEF WorkerDies, Read, Nothing
  <2> QED  BY <1>2, <2>1, <2>2 DEF IInv
<1>4. CASE lock \/ unlock \/ switchAccount
  <2>1. UNCHANGED <<toml, login>> /\ job' = Rest
    BY <1>4 DEF lock, unlock, switchAccount, memory
  <2>2. LoginInv' /\ JobInv'
    BY <1>1, <2>1, LoginsStay, RestKeeps DEF IInv
  <2>3. Read(toml)'
    <3>1. PICK c : c = toml
      OBVIOUS
    <3>2. Read(c)'
      BY <1>1, <3>1, ReadLater DEF IInv
    <3> QED  BY <2>1, <3>1, <3>2
  <2> QED  BY <1>2, <2>2, <2>3 DEF IInv
<1> QED  BY <1>3, <1>4

LEMMA AnchorMoves ==
    ASSUME IInv, Publishes \/ Closes
    PROVE  IInv'
<1>1. /\ published' \in Versions /\ published <= published' /\ since' = since
      /\ published' = published \/ published' = published + 1
      /\ UNCHANGED <<wallet, memory, known, login>> /\ job' = Rest
  BY Bounds DEF Publishes, Closes, IInv, ClockInv
<1>2. /\ published \in Nat /\ since \in [Versions -> Nat]
      /\ \A v \in Versions : v > published => since[v] = 0
  BY Bounds DEF IInv, ClockInv
<1>3. waiting' \subseteq waiting
  BY DEF Publishes, Closes
<1>4. ASSUME NEW n \in Nat, NEW v \in Current(n)  PROVE v \in Current(n)'
  <2>1. v \in 1..published /\ (v < published => since[v + 1] <= n)
    BY <1>4 DEF Current
  <2>2. v \in 1..published'
    BY <1>1, <1>2, <2>1, Bounds
  <2>3. ASSUME v < published', ~(v < published)  PROVE since[v + 1] = 0
    BY <1>1, <1>2, <2>1, <2>3, Bounds
  <2> QED  BY <1>1, <2>1, <2>2, <2>3 DEF Current
<1>5. Remains /\ \A n \in Nat : Current(n) \subseteq Current(n)'
  BY <1>3, <1>4 DEF Remains
<1>6. LoginInv' /\ JobInv' /\ KnownInv'
  BY <1>1, <1>5, LoginsStay, RestKeeps, KnownLater DEF IInv
<1>7. Read(toml)'
  <2>1. PICK c : c = toml
    OBVIOUS
  <2>2. Read(c)'
    BY <1>5, <2>1, ReadLater DEF IInv
  <2> QED  BY <1>1, <2>1, <2>2 DEF memory
<1>8. ClockInv'
  BY <1>1, <1>2, Bounds DEF IInv, ClockInv
<1>9. WalletInv'
  BY <1>1, <1>3 DEF IInv, WalletInv, wallet, memory
<1> QED  BY <1>6, <1>7, <1>8, <1>9 DEF IInv

--------------------------------------------------------------------------------
(* The clock *)

\* What was current in some time is current in one tick more.
Passes == \A n \in Nat : Current(n) \subseteq Current(n + 1)'

LEMMA TimePasses ==
    ASSUME ClockInv, Tick
    PROVE  ClockInv' /\ Passes
<1>1. /\ published' = published /\ published \in Nat /\ published \in Versions
      /\ since \in [Versions -> 0..Horizon]
      /\ since' = [v \in Versions |-> IF v > published THEN 0 ELSE Older(since[v], Horizon)]
  BY Bounds DEF Tick, ClockInv
<1>2. ASSUME NEW v \in Versions
      PROVE  /\ since'[v] \in 0..Horizon /\ since'[v] <= since[v] + 1
             /\ v > published => since'[v] = 0
  BY <1>1, <1>2, Bounds DEF Older
<1>3. ASSUME NEW n \in Nat, NEW v \in Current(n)  PROVE v \in Current(n + 1)'
  <2>1. v \in 1..published /\ (v < published => since[v + 1] <= n)
    BY <1>3 DEF Current
  <2>2. v < published => v + 1 \in Versions /\ since[v + 1] \in Nat
    BY <1>1, <2>1, Bounds DEF Versions
  <2>3. v < published => since'[v + 1] <= n + 1
    BY <1>2, <2>1, <2>2, Bounds
  <2> QED  BY <1>1, <2>1, <2>3 DEF Current
<1>4. since' \in [Versions -> 0..Horizon]
  BY <1>1, <1>2
<1> QED  BY <1>1, <1>2, <1>3, <1>4 DEF ClockInv, Passes

LEMMA JobAges ==
    ASSUME NEW r, Going(r), InTime(r), Passes, UNCHANGED waiting
    PROVE  Going([r EXCEPT !.age = @ + 1, !.waited = @ + 1, !.left = Sooner(@)])'
<1> DEFINE s == [r EXCEPT !.age = @ + 1, !.waited = @ + 1, !.left = Sooner(@)]
<1>1. r \in JobType /\ r.age \in Nat /\ r.waited \in Nat /\ r.left \in Nat
  BY DEF Going, Sound, JobType
<1>2. Sooner(r.left) \in Nat /\ Sooner(r.left) >= r.left - 1
  BY <1>1 DEF Sooner
<1>3. /\ s \in JobType /\ s.stage = r.stage /\ s.waited = r.waited + 1 /\ s.age = r.age + 1
      /\ s.left = Sooner(r.left) /\ s.tx = r.tx /\ s.user = r.user /\ s.old = r.old
      /\ s.who = r.who /\ s.unread = r.unread /\ s.asked = r.asked /\ s.note = r.note
      /\ s.relaxed = r.relaxed /\ s.answer = r.answer /\ s.quiet = r.quiet
  <2> DEFINE a == r.age + 1
             w == r.waited + 1
             k == Sooner(r.left)
             t == [r EXCEPT !.age = a, !.waited = w]
  <2>1. a \in Nat /\ w \in Nat /\ k \in Nat
    BY <1>1, <1>2
  <2>2. s = [t EXCEPT !.left = k]
    BY <1>1 DEF JobType
  <2> HIDE DEF s, a, w, k
  <2>3. /\ t \in JobType /\ t.stage = r.stage /\ t.waited = w /\ t.age = a
        /\ t.tx = r.tx /\ t.user = r.user /\ t.old = r.old
        /\ t.who = r.who /\ t.unread = r.unread /\ t.asked = r.asked /\ t.note = r.note
        /\ t.relaxed = r.relaxed /\ t.answer = r.answer /\ t.quiet = r.quiet
    BY <1>1, <2>1 DEF JobType
  <2> HIDE DEF t
  <2>4. /\ s \in JobType /\ s.stage = t.stage /\ s.waited = w /\ s.age = a
        /\ s.left = k /\ s.tx = t.tx /\ s.user = t.user /\ s.old = t.old
        /\ s.who = t.who /\ s.unread = t.unread /\ s.asked = t.asked /\ s.note = t.note
        /\ s.relaxed = t.relaxed /\ s.answer = t.answer /\ s.quiet = t.quiet
    BY <2>1, <2>2, <2>3 DEF JobType
  <2> QED  BY <2>3, <2>4 DEF a, w, k
<1> HIDE DEF s
<1>4. PICK u : u = s
  OBVIOUS
<1>5. Unlisted(r) => Unlisted(u)'
  <2>1. r.age + AccountsTTL + TomlBound \in Nat
    BY <1>1, Bounds
  <2>2. u.age = r.age + 1
    BY <1>3, <1>4
  <2>3. u.age + AccountsTTL + TomlBound = (r.age + AccountsTTL + TomlBound) + 1
    BY <1>1, <2>2, Bounds
  <2>4. Current(r.age + AccountsTTL + TomlBound) \subseteq Current(u.age + AccountsTTL + TomlBound)'
    BY <2>1, <2>3 DEF Passes
  <2> QED  BY <1>3, <1>4, <2>4 DEF Unlisted
<1>6. Sound(u)'
  BY <1>3, <1>4, <1>5 DEF Going, Sound, Confirmed
<1>7. Open(r) => Open(u)'
  BY <1>3, <1>4 DEF Open
<1>8. u.waited <= Timeout(u.stage)
  <2>1. r.waited < Timeout(r.stage)
    BY DEF Going, InTime, Loading
  <2>2. Timeout(r.stage) \in Nat
    BY Timeouts, Bounds DEF Going, Loading
  <2> QED  BY <1>1, <1>3, <1>4, <2>1, <2>2
<1>9. /\ r.stage \in {"sep10", "accounts"} => u.age = u.waited
      /\ r.stage = "transfer" => u.age <= AccountsTimeout + u.waited
      /\ r.stage = "list" => u.left > HttpTimeout - u.waited
  <2>1. u.age = r.age + 1 /\ u.waited = r.waited + 1 /\ u.left >= r.left - 1 /\ u.left \in Nat
    BY <1>2, <1>3, <1>4
  <2>2. /\ r.stage \in {"sep10", "accounts"} => r.age = r.waited
        /\ r.stage = "transfer" => r.age <= AccountsTimeout + r.waited
        /\ r.stage = "list" => r.left > HttpTimeout - r.waited
    BY DEF Going
  <2>3. AccountsTimeout \in Nat /\ HttpTimeout \in Nat
    BY Bounds
  <2>4. r.age \in Nat /\ r.waited \in Nat /\ r.left \in Nat
    BY <1>1
  <2>5. r.stage \in {"sep10", "accounts"} => u.age = u.waited
    BY <2>1, <2>2
  <2>6. r.stage = "transfer" => u.age <= AccountsTimeout + u.waited
    BY <2>1, <2>2, <2>3, <2>4
  <2>7. r.stage = "list" => u.left > HttpTimeout - u.waited
    BY <2>1, <2>2, <2>3, <2>4
  <2> QED  BY <2>5, <2>6, <2>7
<1>10. /\ u.stage = r.stage /\ u.who = r.who /\ u.user = r.user
       /\ u.relaxed = r.relaxed /\ u.quiet = r.quiet
  BY <1>3, <1>4
<1>11. Going(u)'
  BY <1>6, <1>7, <1>8, <1>9, <1>10 DEF Going
<1> QED  BY <1>4, <1>11 DEF s

LEMMA LoginAges ==
    ASSUME NEW r, LoggingIn(r), InTime(r), Passes
    PROVE  LoggingIn([r EXCEPT !.waited = @ + 1])'
<1> DEFINE s == [r EXCEPT !.waited = @ + 1]
<1>1. r \in LoginType /\ r.waited \in Nat
  BY DEF LoggingIn, LoginType
<1>2. /\ s \in LoginType /\ s.stage = r.stage /\ s.waited = r.waited + 1 /\ s.v = r.v
      /\ s.account = r.account /\ s.signed = r.signed
  BY <1>1 DEF LoginType
<1> HIDE DEF s
<1>3. PICK u : u = s
  OBVIOUS
<1>4. /\ TomlBound + r.waited \in Nat /\ TomlBound + u.waited = (TomlBound + r.waited) + 1
      /\ TomlBound + HttpTimeout + r.waited \in Nat
      /\ TomlBound + HttpTimeout + u.waited = (TomlBound + HttpTimeout + r.waited) + 1
  <2>1. TomlBound \in Nat /\ HttpTimeout \in Nat /\ r.waited \in Nat
    BY <1>1, Bounds
  <2>2. u.waited = r.waited + 1
    BY <1>2, <1>3
  <2> QED  BY <2>1, <2>2
<1>5. /\ Current(TomlBound + r.waited) \subseteq Current(TomlBound + u.waited)'
      /\ Current(TomlBound + HttpTimeout + r.waited)
            \subseteq Current(TomlBound + HttpTimeout + u.waited)'
  BY <1>4 DEF Passes
<1>6. \A tx : IsLoginOf(tx, r.account, Current(TomlBound + HttpTimeout + r.waited))
            => IsLoginOf(tx, r.account, Current(TomlBound + HttpTimeout + u.waited)')
  BY <1>5, LoginOfMore
<1>7. u.waited <= Timeout(u.stage)
  <2>1. r.waited < Timeout(r.stage)
    BY <1>1 DEF InTime, LoginType
  <2>2. Timeout(r.stage) \in Nat
    BY <1>1, Timeouts, Bounds DEF LoginType
  <2> QED  BY <1>1, <1>2, <1>3, <2>1, <2>2
<1>8. LoggingIn(u)'
  BY <1>2, <1>3, <1>5, <1>6, <1>7 DEF LoggingIn
<1> QED  BY <1>3, <1>8 DEF s

LEMMA Ticks ==
    ASSUME IInv, Tick
    PROVE  IInv'
<1>1. ClockInv' /\ Passes
  BY TimePasses DEF IInv
<1>2. Read(toml)'
  <2>1. CASE Cached(toml)
    <3>1. toml.age \in Nat /\ toml.age < TomlTTL /\ toml.v \in {0} \cup Versions
      BY <2>1, Bounds DEF IInv, Read, Cached
    <3>2. PICK c : c = [toml EXCEPT !.age = @ + 1]
      OBVIOUS
    <3>3. c.age = toml.age + 1 /\ c.v = toml.v /\ c \in [age : 0..TomlTTL, v : {0} \cup Versions]
      BY SMTT(30), <3>1, <3>2, Bounds DEF IInv, Read
    <3>4. /\ toml.age + TomlTimeout \in Nat
          /\ c.age + TomlTimeout = (toml.age + TomlTimeout) + 1
      BY <3>1, <3>3, Bounds
    <3>5. Current(toml.age + TomlTimeout) \subseteq Current(c.age + TomlTimeout)'
      BY <1>1, <3>4 DEF Passes
    <3>6. Read(c)'
      BY <3>3, <3>5 DEF IInv, Read
    <3>7. toml' = c
      BY <2>1, <3>2 DEF Tick
    <3> QED  BY <3>6, <3>7
  <2>2. CASE ~Cached(toml)
    <3>1. toml' = [age |-> 0, v |-> 0]
      BY <2>2 DEF Tick, Nothing
    <3> QED  BY <3>1, Bounds DEF Read
  <2> QED  BY <2>1, <2>2
<1>3. KnownInv'
  <2>1. known.age \in 0..Horizon /\ known.v \in {0} \cup Versions
    BY DEF IInv, KnownInv
  <2>2. known' = [age |-> IF known.v = 0 THEN 0 ELSE Older(known.age, AccountsTTL), v |-> known.v]
    <3>1. known' = [known EXCEPT !.age = IF known.v = 0 THEN 0 ELSE Older(@, AccountsTTL)]
      BY DEF Tick
    <3> QED  BY <3>1 DEF IInv, KnownInv
  <2>3. known' \in [age : 0..Horizon, v : {0} \cup Versions]
    BY <2>1, <2>2, Bounds DEF Older, Horizon
  <2>4. ASSUME Remembered'  PROVE (known.v \in Current(known.age + TomlBound))'
    <3>1. known.v # 0 /\ known.age < AccountsTTL /\ known'.age = known.age + 1 /\ known'.v = known.v
      BY <2>1, <2>2, <2>4, Bounds DEF Remembered, Older
    <3>2. known.v \in Current(known.age + TomlBound) /\ known.age + TomlBound \in Nat
      BY <2>1, <3>1, Bounds DEF IInv, KnownInv, Remembered
    <3>3. known'.age + TomlBound = (known.age + TomlBound) + 1
      BY <2>1, <3>1, Bounds
    <3>4. PICK n : n = known'.age + TomlBound
      OBVIOUS
    <3>5. known.v \in Current(n)'
      BY <1>1, <3>2, <3>3, <3>4 DEF Passes
    <3> QED  BY <3>1, <3>4, <3>5
  <2> QED  BY <2>3, <2>4 DEF KnownInv
<1>4. LoginInv'
  <2>1. login' = [l \in Logins |->
                     IF login[l] = NoLogin THEN NoLogin
                     ELSE [login[l] EXCEPT !.waited = @ + 1]]
    BY DEF Tick
  <2>2. ASSUME NEW l \in Logins  PROVE login'[l] = NoLogin \/ LoggingIn(login[l])'
    <3>1. PICK r : r = login[l]
      OBVIOUS
    <3>2. r = NoLogin \/ (LoggingIn(r) /\ InTime(r))
      BY <3>1 DEF IInv, LoginInv, Tick
    <3>3. PICK s : s = [r EXCEPT !.waited = @ + 1]
      OBVIOUS
    <3>4. r = NoLogin \/ LoggingIn(s)'
      BY <1>1, <3>2, <3>3, LoginAges
    <3>5. login'[l] = IF r = NoLogin THEN NoLogin ELSE s
      BY <2>1, <3>1, <3>3
    <3> QED  BY <3>4, <3>5
  <2> QED  BY <2>1, <2>2 DEF LoginInv
<1>5. JobInv'
  <2>1. job' = [j \in Jobs |->
                   IF Rest[j] = NoJob THEN NoJob
                   ELSE [job[j] EXCEPT !.age = @ + 1, !.waited = @ + 1, !.left = Sooner(@)]]
    BY DEF Tick
  <2>2. ASSUME NEW j \in Jobs
        PROVE  job'[j] = NoJob \/ (Going(job[j]) \/ Answered(job[j]))'
    <3>1. PICK r : r = job[j]
      OBVIOUS
    <3>2. r = NoJob \/ Going(r) \/ Answered(r)
      BY <3>1 DEF IInv, JobInv
    <3>3. Rest[j] = IF r.stage = "shown" THEN NoJob ELSE r
      BY <3>1 DEF Rest
    <3>4. InTime(r) /\ waiting' = waiting
      BY <3>1 DEF Tick
    <3>5. PICK s : s = [r EXCEPT !.age = @ + 1, !.waited = @ + 1, !.left = Sooner(@)]
      OBVIOUS
    <3>6. Going(r) => Going(s)'
      BY <1>1, <3>4, <3>5, JobAges
    <3>7. job'[j] = IF Rest[j] = NoJob THEN NoJob ELSE s
      BY <2>1, <3>1, <3>5
    <3>8. Answered(r) => Rest[j] = NoJob
      BY <3>3 DEF Answered
    <3>9. r = NoJob => Rest[j] = NoJob
      BY <3>3
    <3> QED  BY <3>2, <3>6, <3>7, <3>8, <3>9
  <2> QED  BY <2>1, <2>2 DEF JobInv
<1>6. WalletInv'
  <2>1. sessions' = [a \in Accounts |-> Sooner(sessions[a])]
    BY DEF Tick
  <2>2. \A a \in Accounts : Sooner(sessions[a]) \in Nat
    BY DEF IInv, WalletInv, Sooner
  <2>3. UNCHANGED wallet /\ UNCHANGED waiting
    BY DEF Tick
  <2> QED  BY <2>1, <2>2, <2>3 DEF IInv, WalletInv, wallet
<1> QED  BY <1>1, <1>2, <1>3, <1>4, <1>5, <1>6 DEF IInv

--------------------------------------------------------------------------------
(* What follows *)

LEMMA NextKeeps == IInv /\ [Next]_vars => IInv'
<1> SUFFICES ASSUME IInv, [Next]_vars PROVE IInv'
  OBVIOUS
<1>1. CASE UNCHANGED vars
  <2>1. UNCHANGED <<unlocked, active, sessions, toml, known, published, since, waiting, login, job>>
    BY <1>1 DEF vars, wallet, memory, anchor
  <2>2. ClockInv' /\ Read(toml)' /\ KnownInv'
    BY <2>1, WorldStays
  <2>3. Remains
    BY <2>1, AnchorRemains DEF anchor
  <2>4. LoginInv'
    BY <2>1, <2>3, LoginsStay DEF IInv, Remains
  <2>5. JobInv'
    <3>1. ASSUME NEW j \in Jobs
          PROVE  job'[j] = NoJob \/ (Going(job[j]) \/ Answered(job[j]))'
      <4>1. PICK r : r = job[j]
        OBVIOUS
      <4>2. r = NoJob \/ (Going(r) \/ Answered(r))'
        BY <2>3, <4>1, JobLater DEF IInv, JobInv
      <4> QED  BY <2>1, <4>1, <4>2
    <3> QED  BY <2>1, <3>1 DEF IInv, JobInv
  <2> QED  BY <2>1, <2>2, <2>4, <2>5 DEF IInv, WalletInv
<1>2. ASSUME NEW j \in Jobs,
             \/ txAnalyzeRequestHandler(j) \/ fetchAnchorToml(j) \/ fetchAnchorTomlFails(j)
             \/ AnchorLists(j) \/ listSep6Withdrawals(j)
      PROVE  IInv'
  BY <1>2, Begins, Fetches, FetchFails, Lists, Checks
<1>3. ASSUME NEW l \in Logins,
             \/ anchorLogin(l) \/ requireAnchorToml(l) \/ signChallenge(l)
             \/ setAnchorSession(l) \/ loginFails(l)
      PROVE  IInv'
  BY <1>3, LogsIn, LoginReads, Signs, LoginEnds
<1>4. CASE lock \/ unlock \/ switchAccount \/ WorkerDies
  BY <1>4, WalletMoves
<1>5. CASE Publishes \/ Closes
  BY <1>5, AnchorMoves
<1>6. CASE Tick
  BY <1>6, Ticks
<1> QED  BY <1>1, <1>2, <1>3, <1>4, <1>5, <1>6 DEF Next

LEMMA Invariant == Spec => []IInv
<1> QED  BY Initially, NextKeeps, PTL DEF Spec

\* Cache, memory and every call in flight are well typed, whatever the anchor publishes.
THEOREM TypeCorrect == Spec => []TypeOK
<1>1. IInv => TypeOK
  <2> SUFFICES ASSUME IInv PROVE TypeOK
    OBVIOUS
  <2>1. \A l \in Logins : login[l].stage \in {"idle", "toml", "challenge", "post"}
    BY DEF IInv, LoginInv, LoggingIn, LoginType, NoLogin
  <2>2. \A j \in Jobs : job[j].stage \in Loading \cup {"idle", "list", "shown"}
    BY DEF IInv, JobInv, Going, Answered, NoJob
  <2> QED  BY <2>1, <2>2 DEF IInv, WalletInv, ClockInv, Read, KnownInv, TypeOK
<1> QED  BY <1>1, Invariant, PTL

\* The sign screen confirms a withdrawal only if an order asked for exactly that payment
\* of that account and was waiting when the analysis began, whatever happened to
\* accounts, tokens and orders between its awaits (withdraw-guard.ts, withdraw-verify.ts).
THEOREM WithdrawalConfirmed == Spec => []ConfirmedWithdrawal
<1>1. IInv => ConfirmedWithdrawal
  BY SMTT(30)
  DEF IInv, JobInv, ConfirmedWithdrawal, Shown, NoJob, Going, Answered, Sound, Confirmed, Loading
<1> QED  BY <1>1, Invariant, PTL

\* A payment to an account the anchor has listed for longer than the wallet remembers
\* is guarded, unless nothing readable lists it (anchor-accounts.ts, withdraw-guard.ts).
THEOREM AnchorPaymentGuarded == Spec => []NoQuietAnchorPayment
<1>1. IInv => NoQuietAnchorPayment
  BY DEF IInv, JobInv, NoQuietAnchorPayment, Shown, NoJob, Going, Answered, Sound, Unlisted, Loading
<1> QED  BY <1>1, Invariant, PTL

\* What is signed or shown as a login can move nothing and carries a key that the anchor
\* published lately, and so it is with the assets a trustline is let through for
\* (sep10-challenge.ts, sep10-login.ts, trustline-exception.ts).
THEOREM AnchorVouches == Spec => []VouchedByTheAnchor
<1>1. IInv => VouchedByTheAnchor
  <2> SUFFICES ASSUME IInv PROVE VouchedByTheAnchor
    OBVIOUS
  <2>1. \A l \in Logins : login[l].stage = "post" => LoggingIn(login[l])
    BY DEF IInv, LoginInv, NoLogin
  <2>2. \A j \in Shown : Answered(job[j])
    BY DEF IInv, JobInv, Shown, NoJob, Going, Loading
  <2> QED  BY <2>1, <2>2 DEF VouchedByTheAnchor, LoggingIn, Answered, Vouches
<1> QED  BY <1>1, Invariant, PTL

\* No request for the anchor's orders starts with a token that lapses before it ends,
\* although the token was judged before two other requests (session.ts).
THEOREM TokenLasts == Spec => []TokenLastsTheRequest
<1>1. IInv => TokenLastsTheRequest
  <2> SUFFICES ASSUME IInv, NEW j \in Jobs, job[j].stage = "list"
               PROVE  job[j].left > 0
    BY DEF TokenLastsTheRequest
  <2>1. Going(job[j]) /\ job[j].waited \in Nat /\ job[j].left \in Nat
    BY DEF IInv, JobInv, NoJob, Going, Answered, Sound, JobType
  <2>2. job[j].waited <= HttpTimeout /\ job[j].left > HttpTimeout - job[j].waited
    BY <2>1, Timeouts DEF Going
  <2> QED  BY <2>1, <2>2, Bounds
<1> QED  BY <1>1, Invariant, PTL
================================================================================
