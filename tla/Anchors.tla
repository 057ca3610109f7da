--------------------------------- MODULE Anchors ---------------------------------
(***************************************************************************)
(* The wallet and an anchor: logging in (SEP-10), and the checks a         *)
(* transaction of a page passes before the analyze server sees it.  The    *)
(* allowlist of the source has one anchor.                                 *)
(*                                                                         *)
(* Each check leans on something read earlier: the anchor's stellar.toml   *)
(* (cached in memory), the accounts it lists (remembered in storage for a  *)
(* day), its login token, its record of what it asked the user to pay.     *)
(* Meanwhile the anchor publishes another toml and closes orders,  *)
(* the user locks, switches accounts or the worker dies.                   *)
(*                                                                         *)
(* There is no clock: what the code stamps with a time has an age here,    *)
(* which stops growing where nothing looks any further back.               *)
(*                                                                         *)
(* Left out: the answer of the analyze server (TxAnalysis), an anchor that *)
(* publishes a toml without a transfer server (it is as if the user were   *)
(* not signed in), the order of storage reads among themselves, the limits *)
(* on sizes.                                                               *)
(***************************************************************************)
EXTENDS Integers, Sequences, FiniteSets, SequencesExt

CONSTANTS
    Accounts,        \* the accounts of the wallet
    Orders,          \* withdrawals the anchor has on record
    Terms,           \* [Orders -> [user, dest, memo, asset, amount, due]]
    Tomls,           \* what the anchor publishes, one toml after the other
    Txs,             \* transactions a page, or the anchor, may send
    Canonical,       \* the asset the wallet adds itself
    Unstated,        \* a term the anchor leaves open; no login; no key
    Logins, Jobs,    \* bounds: logins and analyses at a time
    TokenLives,      \* how long a token may last
    TomlTTL, AccountsTTL, Skew,              \* toml.ts, anchor-accounts.ts, session.ts
    TomlTimeout, AccountsTimeout, HttpTimeout

\* 3 s and 8 s for a toml, 15 s for a request, 30 s of skew, a day for the accounts.
ASSUME AnchorsAssumption ==
    /\ {TomlTTL, AccountsTTL, Skew, TomlTimeout, AccountsTimeout, HttpTimeout} \subseteq Nat
    /\ TokenLives \subseteq Nat
    /\ Tomls \in Seq(Range(Tomls)) /\ Tomls # <<>>
    /\ \A tx \in Txs : tx.ops \in Seq(Range(tx.ops))
    /\ AccountsTimeout <= TomlTimeout
    /\ 2 * AccountsTimeout + HttpTimeout <= Skew
    /\ AccountsTimeout + HttpTimeout <= AccountsTTL

VARIABLES
    unlocked, active,   \* the wallet, and its active account
    sessions,           \* sessions of session.ts: how long each token lasts, 0 for none
    toml,               \* the cache of toml.ts
    known,              \* baret.anchorAccounts.v1, in storage
    published,          \* the number of tomls published so far, the last one current
    since,              \* history: how long ago each was published
    waiting,            \* the orders still waiting for the user's payment
    login,              \* calls of loginToAnchor
    job                 \* calls of txAnalyzeRequestHandler

memory == <<sessions, toml>>
anchor == <<published, since, waiting>>
wallet == <<unlocked, active>>
vars == <<wallet, memory, known, anchor, login, job>>

Versions == 1..Len(Tomls)

\* Version 0 stands for no toml: nothing read, or nothing remembered.
Nothing == [age |-> 0, v |-> 0]
AccountsOf(v) == IF v = 0 THEN {} ELSE Tomls[v].accounts

\* How long the wallet may go on believing what a toml said: a request that took
\* TomlTimeout, read back from the cache.
TomlBound == TomlTTL + TomlTimeout

\* As far back as anything looks: past what is remembered, and the longest call.
Horizon == AccountsTTL + TomlBound + AccountsTimeout + TomlTimeout + 1

\* The tomls that were on the anchor's server at some moment of the last so many ticks.
Current(ticks) == {v \in 1..published : v < published => since[v + 1] <= ticks}

NoSession == 0
NoLogin == [stage |-> "idle"]
NoJob == [stage |-> "idle"]

\* A call that has answered is over: its answer stands in one state.
Rest == [j \in Jobs |-> IF job[j].stage = "shown" THEN NoJob ELSE job[j]]

Init ==
    /\ unlocked = TRUE /\ active \in Accounts
    /\ sessions = [a \in Accounts |-> NoSession]
    /\ toml = Nothing /\ known = Nothing
    /\ published = 1 /\ since = [v \in Versions |-> IF v = 1 THEN Horizon ELSE 0]
    /\ waiting = Orders
    /\ login = [l \in Logins |-> NoLogin] /\ job = [j \in Jobs |-> NoJob]

--------------------------------------------------------------------------------
(* Transactions *)

OpsOf(tx) == Range(tx.ops)

\* paymentTargets: "sweep" stands for path payments, merges and new accounts.
paymentTargets(tx) == {op.to : op \in {o \in OpsOf(tx) : o.type \in {"payment", "sweep"}}}
TrustOps(tx) == {op \in OpsOf(tx) : op.type = "trust"}

\* parseCandidate: a fee bump is never taken for a challenge.
parseCandidate(tx) == ~tx.bump /\ (tx.login # Unstated \/ tx.seq0)

\* shapeViolations.  A plausible bug, and the code.
shapeViolations_FirstOnly(tx) == ~tx.seq0 \/ tx.login = Unstated \/ tx.ops[1].type # "data"
shapeViolations(tx) ==
    ~tx.seq0 \/ tx.login = Unstated \/ \E op \in OpsOf(tx) : op.type # "data"

\* analyzeSep10Challenge once the toml is there (or not, version 0): it must be for
\* this network, and its key is the authority; without one any signer will do.
analyzeSep10Challenge(tx, user, v) ==
    LET unverified == v = 0 \/ Tomls[v].key = Unstated
        violated == \/ shapeViolations(tx) \/ tx.key = Unstated
                    \/ ~unverified /\ (~Tomls[v].ours \/ tx.key # Tomls[v].key)
    IN  IF violated \/ tx.client # user THEN "block"
        ELSE IF unverified THEN "advisory" ELSE "login"

--------------------------------------------------------------------------------
(* The cached toml *)

\* A plausible bug, for a mutant: a cached toml is never too old.
Cached_Forever(c) == c.v # 0

Cached(c) == c.v # 0 /\ c.age < TomlTTL

\* The clock of a request in flight.
Timeout(stage) ==
    CASE stage \in {"accounts", "transfer"} -> AccountsTimeout
      [] stage \in {"list", "challenge", "post"} -> HttpTimeout
      [] OTHER -> TomlTimeout

\* What fetchAnchorToml may answer a call that has waited for it: any of these.
Served(r) == Current(r.waited)

--------------------------------------------------------------------------------
(* txAnalyzeRequestHandler, between its awaits: each operator takes the call's *)
(* record and gives the record it next waits in.  c is the cached toml.        *)

Waits(j, stage) == [j EXCEPT !.stage = stage, !.waited = 0]
Shows(j, verdict) ==
    [j EXCEPT !.stage = "shown", !.verdict = verdict,
              !.waited = 0, !.left = 0, !.who = j.user, !.answer = {}]
ToServer(j, relaxed) == [Shows(j, "analysed") EXCEPT !.relaxed = relaxed]

\* trustlineException: are all trustline changes additions, to this account, of an
\* asset somebody vouches for?
Vouched(j, assets) ==
    \A op \in TrustOps(j.tx) : op.from = j.user /\ op.adds /\ op.asset \in assets
Declared(v) == IF v = 0 THEN {Canonical} ELSE {Canonical} \cup Tomls[v].currencies

AtTrust(j, c) ==
    IF TrustOps(j.tx) = {} \/ ~\A op \in TrustOps(j.tx) : op.from = j.user /\ op.adds
    THEN ToServer(j, FALSE)
    ELSE IF Vouched(j, {Canonical}) THEN ToServer(j, TRUE)
    ELSE IF Cached(c) THEN ToServer(j, Vouched(j, Declared(c.v)))
    ELSE Waits(j, "trust")

\* getAnchorSession, asked with the time the call began.  A plausible bug, and the code.
getAnchorSession_NoSkew(a, age) == sessions[a] # NoSession
getAnchorSession(a, age) == sessions[a] # NoSession /\ sessions[a] + age > Skew

\* Whose token the request carries.  A plausible bug, and the code.
TokenOf_Active(j) == active
TokenOf(j) == j.user

AtSession(j) ==
    IF getAnchorSession(TokenOf(j), j.age)
    THEN [Waits(j, "list") EXCEPT !.left = sessions[TokenOf(j)], !.who = TokenOf(j)]
    ELSE Shows(j, "block")

AtTransfer(j, c) == IF Cached(c) THEN AtSession(j) ELSE Waits(j, "transfer")

\* The accounts of the anchor are known, as those of version v.
AtPayment(j, v, c) ==
    IF paymentTargets(j.tx) \cap AccountsOf(v) = {}
    THEN AtTrust([j EXCEPT !.quiet = TRUE], c) ELSE AtTransfer(j, c)

Remembered == known.v # 0 /\ known.age < AccountsTTL

AtWithdrawal(j) ==
    IF paymentTargets(j.tx) = {} THEN AtTrust(j, toml)
    ELSE IF Remembered THEN AtPayment(j, known.v, toml)
    ELSE IF Cached(toml) THEN AtPayment(j, toml.v, toml)
    ELSE Waits(j, "accounts")

AtChallenge(j) ==
    IF shapeViolations(j.tx) \/ j.tx.login = "stranger"
    THEN Shows(j, analyzeSep10Challenge(j.tx, j.user, 0))
    ELSE IF Cached(toml) THEN Shows(j, analyzeSep10Challenge(j.tx, j.user, toml.v))
    ELSE Waits(j, "sep10")

\* Noted when a call begins: what was waiting for that account, and what it remembers,
\* as far as the transaction pays anybody.
Asked(tx, a) == {o \in waiting : Terms[o].user = a /\ paymentTargets(tx) # {}}
Before(tx) == IF paymentTargets(tx) = {} THEN 0 ELSE known.v

\* The call begins: its account is the active one, for good.
txAnalyzeRequestHandler(j) ==
    /\ job[j].stage \in {"idle", "shown"}
    /\ \E tx \in Txs :
         LET begun == [stage |-> "begun", tx |-> tx, user |-> active, who |-> active,
                       age |-> 0, waited |-> 0, left |-> 0, old |-> Before(tx), unread |-> FALSE,
                       quiet |-> FALSE, asked |-> Asked(tx, active), answer |-> {},
                       verdict |-> "none",
                       note |-> "none", relaxed |-> FALSE]
         IN  /\ job' = [Rest EXCEPT ![j] =
                           IF parseCandidate(tx) THEN AtChallenge(begun) ELSE AtWithdrawal(begun)]
             /\ known' = IF ~parseCandidate(tx) /\ paymentTargets(tx) # {}
                            /\ ~Remembered /\ Cached(toml)
                         THEN [age |-> 0, v |-> toml.v] ELSE known
    /\ UNCHANGED <<wallet, memory, anchor, login>>

\* What a call does with the toml it waited for; version 0 if it could not be read.
\* The remembered accounts serve then, however old.  A plausible bug, and the code.
AfterLoad_Forgetting(j, v, c) ==
    CASE j.stage = "sep10" -> Shows(j, analyzeSep10Challenge(j.tx, j.user, v))
      [] j.stage = "accounts" -> AtPayment([j EXCEPT !.unread = v = 0], v, c)
      [] j.stage = "transfer" -> IF v = 0 THEN Shows(j, "block") ELSE AtSession(j)
      [] j.stage = "trust" -> ToServer(j, Vouched(j, Declared(v)))

AfterLoad(j, v, c) ==
    CASE j.stage = "sep10" -> Shows(j, analyzeSep10Challenge(j.tx, j.user, v))
      [] j.stage = "accounts" ->
            AtPayment([j EXCEPT !.unread = v = 0], IF v = 0 THEN j.old ELSE v, c)
      [] j.stage = "transfer" -> IF v = 0 THEN Shows(j, "block") ELSE AtSession(j)
      [] j.stage = "trust" -> ToServer(j, Vouched(j, Declared(v)))

Loading == {"sep10", "accounts", "transfer", "trust"}

fetchAnchorToml(j) ==
    /\ job[j].stage \in Loading
    /\ \E v \in Served(job[j]) :
         /\ toml' = [age |-> 0, v |-> v]
         /\ job' = [Rest EXCEPT ![j] = AfterLoad(@, v, toml')]
         /\ known' = IF job[j].stage = "accounts" THEN [age |-> job[j].age, v |-> v] ELSE known
    /\ UNCHANGED <<wallet, sessions, anchor, login>>

fetchAnchorTomlFails(j) ==
    /\ job[j].stage \in Loading
    /\ job' = [Rest EXCEPT ![j] = AfterLoad(@, 0, toml)]
    /\ UNCHANGED <<wallet, memory, known, anchor, login>>

--------------------------------------------------------------------------------
(* The withdrawal on record *)

\* The anchor answers with the orders of the token's account, as they stand.
AnchorLists(j) ==
    /\ job[j].stage = "list" /\ job[j].answer = {}
    /\ job' = [Rest EXCEPT ![j].answer =
                  {[order |-> o, waiting |-> o \in waiting] :
                     o \in {p \in Orders : Terms[p].user = job[j].who}}]
    /\ UNCHANGED <<wallet, memory, known, anchor, login>>

\* A term the anchor left open is met by anything; so is an amount or an asset it states
\* in a form parseSep6Withdrawals does not read (sep6-transactions.ts:57).
Meets(given, stated) == stated = Unstated \/ given = stated

\* The rules of checkWithdrawPayment.  A plausible bug, and the code.
Matches_AnyOp(tx, user, w) ==
    LET t == Terms[w.order] IN
    /\ tx.source = user /\ tx.memo = t.memo /\ w.waiting
    /\ \E op \in OpsOf(tx) :
         /\ op.type = "payment" /\ op.from = user /\ op.to = t.dest
         /\ Meets(op.asset, t.asset) /\ Meets(op.amount, t.amount)

Matches(tx, user, w) ==
    LET t == Terms[w.order]  op == tx.ops[1] IN
    /\ Len(tx.ops) = 1 /\ op.type = "payment"
    /\ tx.source = user /\ op.from = user /\ op.to = t.dest
    /\ Meets(op.asset, t.asset) /\ Meets(op.amount, t.amount)
    /\ tx.memo = t.memo /\ w.waiting

\* The order the payment claims to fulfil: the first with its memo, else the first
\* waiting for a payment to one of its targets.  The anchor lists in any order.
Claimed(tx, answer) ==
    LET byMemo == {w \in answer : Terms[w.order].memo = tx.memo}
    IN  IF byMemo # {} THEN byMemo
        ELSE {w \in answer : w.waiting /\ Terms[w.order].dest \in paymentTargets(tx)}

\* Its time to pay has passed, or not, if the anchor states one.
Checked(j, w) ==
    IF ~Matches(j.tx, j.user, w) THEN {Shows(j, "block")}
    ELSE {AtTrust([j EXCEPT !.note = n], toml) :
             n \in {"verified"} \cup (IF Terms[w.order].due THEN {"expired"} ELSE {})}

listSep6Withdrawals(j) ==
    /\ job[j].stage = "list"
    /\ \/ /\ Claimed(job[j].tx, job[j].answer) = {}
          /\ job' = [Rest EXCEPT ![j] = Shows(@, "block")]
       \/ \E w \in Claimed(job[j].tx, job[j].answer) :
            \E shown \in Checked(job[j], w) : job' = [Rest EXCEPT ![j] = shown]
    /\ UNCHANGED <<wallet, memory, known, anchor, login>>

--------------------------------------------------------------------------------
(* anchorLogin: the key is taken when it starts, and kept across its awaits. *)

LoginAt(l, record) == login' = [login EXCEPT ![l] = record]

AtLoginToml(r, v) ==
    IF v = 0 \/ Tomls[v].key = Unstated THEN NoLogin
    ELSE [r EXCEPT !.stage = "challenge", !.v = v, !.waited = 0]

anchorLogin(l) ==
    /\ login[l] = NoLogin /\ unlocked
    /\ LET r == [stage |-> "toml", account |-> active, waited |-> 0,
                 v |-> 0, signed |-> {}]
       IN  LoginAt(l, IF Cached(toml) THEN AtLoginToml(r, toml.v) ELSE r)
    /\ UNCHANGED <<wallet, memory, known, anchor>>
    /\ job' = Rest

requireAnchorToml(l) ==
    /\ login[l].stage = "toml"
    /\ \E v \in Served(login[l]) :
         /\ toml' = [age |-> 0, v |-> v]
         /\ LoginAt(l, AtLoginToml(login[l], v))
    /\ UNCHANGED <<wallet, sessions, known, anchor>>
    /\ job' = Rest

\* The anchor's server sends a transaction, any; it is judged as a page's would be.
signChallenge(l) ==
    /\ login[l].stage = "challenge"
    /\ \E tx \in Txs :
         LoginAt(l, IF parseCandidate(tx)
                       /\ analyzeSep10Challenge(tx, login[l].account,
                             IF tx.login = "anchor" THEN login[l].v ELSE 0) = "login"
                    THEN [login[l] EXCEPT !.stage = "post", !.v = 0, !.signed = {tx}, !.waited = 0]
                    ELSE NoLogin)
    /\ UNCHANGED <<wallet, memory, known, anchor>>
    /\ job' = Rest

\* A token of somebody else, or one that has lapsed, is refused (loginFails).
setAnchorSession(l) ==
    /\ login[l].stage = "post"
    /\ \E life \in TokenLives :
         sessions' = [sessions EXCEPT ![login[l].account] = life]
    /\ LoginAt(l, NoLogin)
    /\ UNCHANGED <<wallet, toml, known, anchor>>
    /\ job' = Rest

loginFails(l) ==
    /\ login[l] # NoLogin
    /\ LoginAt(l, NoLogin)
    /\ UNCHANGED <<wallet, memory, known, anchor>>
    /\ job' = Rest

--------------------------------------------------------------------------------
(* The wallet, the anchor and the clock *)

lock ==
    /\ unlocked
    /\ unlocked' = FALSE
    /\ sessions' = [a \in Accounts |-> NoSession]
    /\ UNCHANGED <<active, toml, known, anchor, login>>
    /\ job' = Rest

unlock ==
    /\ ~unlocked
    /\ unlocked' = TRUE
    /\ UNCHANGED <<active, memory, known, anchor, login>>
    /\ job' = Rest

switchAccount ==
    /\ unlocked
    /\ \E a \in Accounts \ {active} : active' = a
    /\ UNCHANGED <<unlocked, memory, known, anchor, login>>
    /\ job' = Rest

WorkerDies ==
    /\ unlocked' = FALSE
    /\ sessions' = [a \in Accounts |-> NoSession] /\ toml' = Nothing
    /\ login' = [l \in Logins |-> NoLogin] /\ job' = [j \in Jobs |-> NoJob]
    /\ UNCHANGED <<active, known, anchor>>

Publishes ==
    /\ published + 1 \in Versions
    /\ published' = published + 1
    /\ UNCHANGED <<wallet, memory, known, since, waiting, login>>
    /\ job' = Rest

Closes ==
    /\ \E o \in waiting : waiting' = waiting \ {o}
    /\ UNCHANGED <<wallet, memory, known, published, since, login>>
    /\ job' = Rest

\* The clock: nothing in flight outlives its timeout.
InTime(r) == r.stage \notin {"idle", "shown"} => r.waited < Timeout(r.stage)
Older(age, cap) == IF age < cap THEN age + 1 ELSE cap
Sooner(left) == IF left > 0 THEN left - 1 ELSE 0

Tick ==
    /\ \A l \in Logins : InTime(login[l])
    /\ \A j \in Jobs : InTime(job[j])
    /\ toml' = IF Cached(toml) THEN [toml EXCEPT !.age = @ + 1] ELSE Nothing
    /\ known' = [known EXCEPT !.age = IF known.v = 0 THEN 0 ELSE Older(@, AccountsTTL)]
    /\ since' = [v \in Versions |-> IF v > published THEN 0 ELSE Older(since[v], Horizon)]
    /\ sessions' = [a \in Accounts |-> Sooner(sessions[a])]
    /\ login' = [l \in Logins |->
          IF login[l] = NoLogin THEN NoLogin
          ELSE [login[l] EXCEPT !.waited = @ + 1]]
    /\ job' = [j \in Jobs |->
          IF Rest[j] = NoJob THEN NoJob
          ELSE [job[j] EXCEPT !.age = @ + 1, !.waited = @ + 1, !.left = Sooner(@)]]
    /\ UNCHANGED <<wallet, published, waiting>>

--------------------------------------------------------------------------------
Next ==
    \/ \E j \in Jobs :
         \/ txAnalyzeRequestHandler(j) \/ fetchAnchorToml(j) \/ fetchAnchorTomlFails(j)
         \/ AnchorLists(j) \/ listSep6Withdrawals(j)
    \/ \E l \in Logins :
         \/ anchorLogin(l) \/ requireAnchorToml(l) \/ signChallenge(l)
         \/ setAnchorSession(l) \/ loginFails(l)
    \/ lock \/ unlock \/ switchAccount \/ WorkerDies
    \/ Publishes \/ Closes \/ Tick

Spec == Init /\ [][Next]_vars

--------------------------------------------------------------------------------
(* Properties *)

TypeOK ==
    /\ unlocked \in BOOLEAN /\ active \in Accounts
    /\ sessions \in [Accounts -> Nat]
    /\ toml \in [age : 0..TomlTTL, v : {0} \cup Versions]
    /\ known \in [age : 0..Horizon, v : {0} \cup Versions]
    /\ published \in Versions /\ since \in [Versions -> 0..Horizon]
    /\ waiting \subseteq Orders
    /\ \A l \in Logins : login[l].stage \in {"idle", "toml", "challenge", "post"}
    /\ \A j \in Jobs : job[j].stage \in Loading \cup {"idle", "list", "shown"}

Shown == {j \in Jobs : job[j].stage = "shown"}

\* The sign screen says "pays ... to the account and memo the anchor asked for,
\* nothing else" (withdraw-verify.ts:146) only of a transaction that does exactly what
\* an order of the very account it was analysed for asks, one that was waiting at some
\* moment of the analysis, whatever happened to the accounts, the tokens and the orders
\* between the awaits.  What the order leaves open, or states in a form the wallet does
\* not read, the payment may do as it likes.
ConfirmedWithdrawal ==
    \A j \in Shown : job[j].note = "verified" =>
        \E o \in job[j].asked :
            /\ Terms[o].user = job[j].user
            /\ OpsOf(job[j].tx) = {job[j].tx.ops[1]} /\ Len(job[j].tx.ops) = 1
            /\ Matches(job[j].tx, Terms[o].user, [order |-> o, waiting |-> TRUE])

\* An account the anchor has listed ever since before the wallet began to remember (a
\* day and the age of the cached toml before the call) is never paid as if it were
\* anyone's, unless the anchor could not be read and the accounts last remembered did
\* not have it either.
NoQuietAnchorPayment ==
    \A j \in Shown : job[j].quiet =>
        \A a \in paymentTargets(job[j].tx) :
            (\A v \in Current(job[j].age + AccountsTTL + TomlBound) : a \in AccountsOf(v))
            => job[j].unread /\ a \notin AccountsOf(job[j].old)

IsLoginOf(tx, account, latest) ==
    /\ tx.seq0 /\ \A op \in OpsOf(tx) : op.type = "data"
    /\ tx.client = account
    /\ \E v \in latest : tx.key = Tomls[v].key

\* What the wallet signs or shows as an anchor's login can move nothing, is a login of
\* that account, and carries a key the anchor published at most TomlBound (and the
\* requests of the call itself) ago; the same holds of the assets a trustline is let
\* through for.
VouchedByTheAnchor ==
    /\ \A l \in Logins : login[l].stage = "post" =>
         \A tx \in login[l].signed :
            IsLoginOf(tx, login[l].account, Current(TomlBound + HttpTimeout + login[l].waited))
    /\ \A j \in Shown :
         LET latest == Current(TomlBound + job[j].age) IN
         /\ job[j].verdict = "login" => IsLoginOf(job[j].tx, job[j].user, latest)
         /\ job[j].relaxed => \A op \in TrustOps(job[j].tx) :
               /\ op.from = job[j].user /\ op.adds
               /\ op.asset = Canonical \/ \E v \in latest : op.asset \in Tomls[v].currencies

\* session.ts:16, "a request never starts with a credential that lapses mid-flight":
\* although the token is judged by a time taken before two other requests.
TokenLastsTheRequest == \A j \in Jobs : job[j].stage = "list" => job[j].left > 0
================================================================================
