-------------------------- MODULE SubKeyLifecycleProofs --------------------------
(***************************************************************************)
(* Proofs about SubKeyLifecycle for any assets and calls, every number of  *)
(* keys and promotions, and events in any combination: at rest a key in    *)
(* step with its mandate pays, a revoked one does not, and there is one    *)
(* usable key at most.                                                     *)
(***************************************************************************)
EXTENDS SubKeyLifecycle, FiniteSetTheorems, WellFoundedInduction, TLAPS

--------------------------------------------------------------------------------
(* The inductive invariant *)

RowType == [status : {"pending", "active", "paused", "revoked"}, until : Int, nonce : Nat]

Steps == {"idle", "shown", "promote", "row", "find", "install", "grant", "add", "write", "list",
          "retire", "retireFailed", "reread", "save", "remove", "removed", "status"}

CallType ==
    [pc : Steps, asset : Assets, seen : Nat, live : BOOLEAN,
     existing : {NoKey} \cup 1..minted, key : {NoKey} \cup 1..minted, todo : SUBSET (0..minted),
     copy : RowType]

\* A call that has a key to make, to replace or to remove knows which.
CallStates ==
    {q \in CallType :
        /\ q.pc \in {"add", "write", "list", "retire"} => q.key # NoKey
        /\ q.pc = "retireFailed" => q.existing # NoKey
        /\ q.pc \in {"remove", "removed"} => q.todo # {}}

\* Calls that may still generate a key.
Minting == {c \in Calls : call[c].pc \in {"promote", "row", "find", "install", "grant"}}

Stopped == {"retired", "revoked"}

StateType ==
    /\ now \in 0..MaxTime /\ minted \in Nat /\ installed \in BOOLEAN
    /\ keys \in [Keys -> {"absent", "active", "retired", "revoked"}]
    /\ \A k \in Keys : keys[k] # "absent" => k <= minted
    /\ bound \in [key : {NoKey} \cup 1..minted, until : Int]
    /\ signers \in [Keys -> [asset : Assets, until : Int]]
    /\ mandate \in [Assets -> RowType]
    /\ unlocked \in BOOLEAN /\ cache \subseteq Keys
    /\ causes \subseteq Events

TypeInv == StateType /\ call \in [Calls -> CallStates]

\* The bound on generated keys counts those yet to come.
CountInv ==
    /\ IsFiniteSet({c \in Calls : Busy(c)})
    /\ minted + Cardinality(Minting) <= MaxKeys

\* Calls met only if that was noted.
AloneInv == "overlap" \notin causes => \A c, d \in Calls : Busy(c) /\ Busy(d) => c = d

\* Of two usable keys, the call that made one is on its way to retire the other.
WillRetire(c, j, k) ==
    /\ call[c].key = j
    /\ At(c, "list") \/ (At(c, "retire") /\ k \in call[c].todo)

PairsInv ==
    "died" \notin causes =>
        \A j, k \in bindable : j # k =>
            \E c \in Calls : WillRetire(c, j, k) \/ WillRetire(c, k, j)

\* What a call on its own knows of the chain: the key it made is the one the policy
\* is bound to, the key it removed is no signer any more.
RevokedCall(c) ==
    /\ call[c].pc \in {"add", "write"} =>
          call[c].key = bound.key /\ keys[call[c].key] = "absent"
    /\ call[c].pc \in {"list", "retire"} => call[c].key = bound.key
    /\ At(c, "retire") => call[c].key \notin call[c].todo
    /\ At(c, "removed") => signers[Min(call[c].todo)].until = NoExpiry

RevokedInv ==
    causes \cap {"overlap", "retired"} = {} =>
        /\ \A k \in Keys : keys[k] \in Stopped =>
              signers[k].until = NoExpiry \/ bound.key # k
        /\ \A c \in Calls : RevokedCall(c)

\* The key's grants on the chain last as long as every mandate of the merchant.
InStep(k) ==
    \A a \in Assets :
        /\ installed /\ bound.key = k /\ signers[k].asset = a
        /\ mandate[a].until # NoExpiry
        /\ signers[k].until >= mandate[a].until /\ bound.until >= mandate[a].until

AllInStep == \A k \in bindable : InStep(k)

\* From its promotion on a call's mandate is ahead of its key, until the new key is
\* granted as long and the others are retired, or the old one is.
StepCall(c) ==
    LET q == call[c]
    IN  /\ q.pc \in {"promote", "remove", "status", "save"} => AllInStep
        /\ q.pc \in {"row", "find"} /\ q.live => AllInStep
        /\ q.pc \in {"row", "find", "install", "grant", "add", "write"} =>
              mandate[q.asset].until # NoExpiry /\ mandate[q.asset].until <= now + MandateTicks
        /\ q.pc \in {"find", "install", "grant", "add", "write", "list", "retire", "save"} =>
              q.copy.until = mandate[q.asset].until
        /\ q.pc \in {"install", "grant", "add", "write", "retireFailed"} =>
              bindable \subseteq {q.existing}
        /\ q.pc \in {"grant", "add", "write"} => installed
        /\ q.pc \in {"add", "write"} =>
              bound.key = q.key /\ bound.until >= mandate[q.asset].until
        /\ q.pc = "write" =>
              signers[q.key].asset = q.asset /\ signers[q.key].until >= mandate[q.asset].until
        /\ q.pc \in {"list", "retire"} => InStep(q.key)
        /\ q.pc = "retire" => listActive \subseteq q.todo \cup {q.key}
        /\ q.pc = "reread" => bindable = {}
        /\ q.pc = "removed" => \A k \in bindable \ {Min(q.todo)} : InStep(k)

StepInv ==
    causes \subseteq {"retired"} =>
        /\ Quiet => AllInStep
        /\ \A c \in Calls : StepCall(c)

IInv == TypeInv /\ CountInv /\ AloneInv /\ PairsInv /\ RevokedInv /\ StepInv

--------------------------------------------------------------------------------
(* Numbers, keys and calls *)

\* Every nonempty set of natural numbers has a least element.
LEMMA MinIsIn ==
    ASSUME NEW T, T \subseteq Nat, T # {}
    PROVE  Min(T) \in T
<1> DEFINE R == {ss \in Nat \X Nat : ss[1] < ss[2]}
<1>1. IsWellFoundedOn(R, Nat)
  BY NatLessThanWellFounded DEF OpToRel
<1>2. PICK x \in T : \A y \in T : ~ (<<y, x>> \in R)
  <2> HIDE DEF R
  <2> QED  BY <1>1, WFMin
<1>3. \A y \in T : ~ (x > y)
  BY <1>2
<1>4. \A y \in T : x <= y
  BY <1>3
<1> QED  BY <1>4 DEF Min

LEMMA TargetIsAsset == Min(Assets) \in Assets
BY LifecycleAssumption, MinIsIn

LEMMA KeysAreNumbers ==
    ASSUME TypeInv, CountInv
    PROVE  /\ minted \in 0..MaxKeys /\ 0..minted \subseteq Keys
           /\ NoKey \notin Keys /\ \A k \in Keys : k \in Nat
<1>1. IsFiniteSet(Minting) /\ Cardinality(Minting) \in Nat
  <2>1. Minting \subseteq {c \in Calls : Busy(c)}
    BY DEF Minting, Busy
  <2>2. IsFiniteSet(Minting)
    BY <2>1, FS_Subset DEF CountInv
  <2> QED  BY <2>2, FS_CardinalityType
<1> QED  BY <1>1, LifecycleAssumption DEF TypeInv, StateType, CountInv, Keys, Legacy, NoKey

LEMMA NoCallIsCall == NoCall \in CallStates /\ NoCall.pc = "idle"
<1>1. NoCall.pc = "idle" /\ NoCall.copy \in RowType
  BY DEF NoCall, RowType, NoExpiry
<1>2. NoCall \in CallType
  BY TargetIsAsset DEF NoCall, CallType, Steps, RowType, NoExpiry
<1> QED  BY <1>1, <1>2 DEF CallStates

\* Whatever is generated later, a call stays one.
LEMMA CallsGrow ==
    ASSUME minted \in Nat, minted' \in Nat, minted <= minted'
    PROVE  CallStates \subseteq CallStates'
<1>1. 0..minted \subseteq 0..minted' /\ 1..minted \subseteq 1..minted'
  OBVIOUS
<1>2. \A S : S \subseteq 0..minted => S \subseteq 0..minted'
  BY <1>1
<1>3. CallType \subseteq CallType'
  BY <1>1, <1>2 DEF CallType
<1> QED  BY <1>3 DEF CallStates

LEMMA Initially == Init => IInv
<1> SUFFICES ASSUME Init PROVE IInv
  OBVIOUS
<1>1. /\ now = 0 /\ installed = FALSE /\ bound = [key |-> NoKey, until |-> NoExpiry]
      /\ mandate = [a \in Assets |-> NoCall.copy]
      /\ unlocked = FALSE /\ cache = {} /\ minted = 0
      /\ call = [c \in Calls |-> NoCall] /\ causes = {}
  BY DEF Init
<1>2. /\ keys \in [Keys -> {"absent", "active", "retired", "revoked"}]
      /\ \A k \in Keys : keys[k] \notin Stopped /\ (keys[k] # "absent" => k = Legacy)
  <2>1. PICK s \in {"absent", "active"} :
           keys = [k \in Keys |-> IF k = Legacy THEN s ELSE "absent"]
    BY DEF Init
  <2> QED  BY <2>1 DEF Stopped
<1>3. signers \in [Keys -> [asset : Assets, until : Int]]
  BY TargetIsAsset, LifecycleAssumption DEF Init, NoExpiry
<1>4. NoCall.copy \in RowType
  BY DEF NoCall, RowType, NoExpiry
<1>5. \A c \in Calls : call[c] = NoCall /\ call[c].pc = "idle"
  BY <1>1, NoCallIsCall
<1>6. TypeInv
  <2>1. installed \in BOOLEAN /\ unlocked \in BOOLEAN
    BY <1>1
  <2>2. bound \in [key : {NoKey} \cup 1..minted, until : Int]
    BY <1>1 DEF NoExpiry
  <2>3. \A k \in Keys : keys[k] # "absent" => k <= minted
    BY <1>1, <1>2 DEF Legacy
  <2> QED  BY <1>1, <1>2, <1>3, <1>4, <2>1, <2>2, <2>3, NoCallIsCall, LifecycleAssumption
           DEF TypeInv, StateType
<1>7. \A c \in Calls : ~Busy(c)
  BY <1>5 DEF Busy
<1>8. CountInv
  <2>1. {c \in Calls : Busy(c)} = {} /\ Minting = {}
    BY <1>5, <1>7 DEF Minting
  <2> QED  BY <1>1, <2>1, FS_EmptySet, LifecycleAssumption DEF CountInv
<1>9. bindable = {}
  BY <1>2 DEF bindable, listActive
<1>10. AloneInv /\ PairsInv
  BY <1>7, <1>9 DEF AloneInv, PairsInv
<1>11. RevokedInv
  BY <1>2, <1>5 DEF RevokedInv, RevokedCall, At
<1>12. StepInv
  BY <1>5, <1>9 DEF StepInv, StepCall, AllInStep
<1> QED  BY <1>6, <1>8, <1>10, <1>11, <1>12 DEF IInv

--------------------------------------------------------------------------------
(* A call's step *)

\* The other calls rest: c is alone under way, or the events say otherwise.
Alone(c) == \A d \in Calls \ {c} : ~Busy(d)

\* A call that rests says nothing of keys.
LEMMA AtRest ==
    ASSUME NEW d \in Calls, call[d].pc \in {"idle", "shown"}
    PROVE  RevokedCall(d) /\ StepCall(d) /\ ~Busy(d)
BY DEF RevokedCall, StepCall, At, Busy

NoneRevokedPays ==
    \A k \in Keys : keys[k] \in Stopped => signers[k].until = NoExpiry \/ bound.key # k

\* What one call's step must show, if no other call is under way or that was noted.
LEMMA CallMoves ==
    ASSUME IInv, NEW c \in Calls, NEW q, call' = [call EXCEPT ![c] = q],
           causes \subseteq causes',
           "overlap" \notin causes' => Alone(c),
           causes' \cap {"overlap", "retired"} = {} => NoneRevokedPays' /\ RevokedCall(c)',
           causes' \subseteq {"retired"} =>
              StepCall(c)' /\ (q.pc \in {"idle", "shown"} => AllInStep')
    PROVE  AloneInv' /\ RevokedInv' /\ StepInv'
<1>1. /\ call'[c] = q /\ \A d \in Calls : d # c => call'[d] = call[d]
  BY DEF IInv, TypeInv, StateType
<1>2. ASSUME "overlap" \notin causes'
      PROVE  \A d \in Calls : d # c =>
                RevokedCall(d)' /\ StepCall(d)' /\ ~Busy(d)'
  <2> SUFFICES ASSUME NEW d \in Calls, d # c
               PROVE  RevokedCall(d)' /\ StepCall(d)' /\ ~Busy(d)'
    OBVIOUS
  <2>1. call'[d].pc \in {"idle", "shown"}
    BY <1>1, <1>2 DEF Alone, Busy
  <2> QED  BY <2>1 DEF RevokedCall, StepCall, At, Busy
<1>3. AloneInv'
  BY <1>2 DEF AloneInv
<1>4. RevokedInv'
  BY <1>2 DEF RevokedInv, NoneRevokedPays
<1>5. StepInv'
  <2>1. Quiet' => q.pc \in {"idle", "shown"}
    BY <1>1 DEF Quiet, Busy
  <2> QED  BY <1>2, <2>1 DEF StepInv
<1> QED  BY <1>3, <1>4, <1>5

\* A call under way is alone unless the events say otherwise.
LEMMA BusyAlone ==
    ASSUME IInv, NEW c \in Calls, Busy(c), causes \subseteq causes', "overlap" \notin causes'
    PROVE  Alone(c)
BY DEF IInv, AloneInv, Alone

\* So is one that begins.
LEMMA BeginsAlone ==
    ASSUME NEW c \in Calls, Noted(Meeting(c)), "overlap" \notin causes'
    PROVE  Alone(c)
BY DEF Noted, Meeting, Alone

\* The types of everything but the calls hold on, and the call that moves stays one.
LEMMA TypeMoves ==
    ASSUME IInv, NEW c \in Calls, NEW q, q \in CallStates', call' = [call EXCEPT ![c] = q],
           minted <= minted', StateType'
    PROVE  TypeInv'
<1>1. CallStates \subseteq CallStates'
  BY CallsGrow DEF IInv, TypeInv, StateType
<1>2. call \in [Calls -> CallStates]
  BY DEF IInv, TypeInv, StateType
<1>3. call' \in [Calls -> CallStates']
  BY <1>1, <1>2
<1> QED  BY <1>3 DEF TypeInv

LEMMA TypeStays ==
    ASSUME IInv, NEW c \in Calls, NEW q \in CallStates, call' = [call EXCEPT ![c] = q],
           UNCHANGED <<now, chain, db, memory, minted>>, causes' \subseteq Events
    PROVE  TypeInv'
<1>1. StateType'
  BY DEF IInv, TypeInv, StateType, chain, db, memory
<1>2. minted \in Nat /\ minted' = minted
  BY DEF IInv, TypeInv, StateType
<1>3. q \in CallStates' /\ minted <= minted'
  BY <1>2, CallsGrow
<1> QED  BY <1>1, <1>2, <1>3, TypeMoves

\* The usual case: nothing but the call and what is named changes.
LEMMA CountMoves ==
    ASSUME IInv, NEW c \in Calls, NEW q, call' = [call EXCEPT ![c] = q], minted' = minted,
           q.pc \in {"promote", "row", "find", "install", "grant"} =>
              call[c].pc \in {"promote", "row", "find", "install", "grant"}
    PROVE  CountInv'
<1> DEFINE B == {d \in Calls : Busy(d)}
           BB == {d \in Calls : Busy(d)}'
<1>1. \A d \in Calls : call'[d] = IF d = c THEN q ELSE call[d]
  BY DEF IInv, TypeInv, StateType
<1>2. IsFiniteSet(BB)
  <2>1. BB \subseteq B \cup {c}
    BY <1>1 DEF Busy
  <2>2. IsFiniteSet(B \cup {c})
    BY FS_AddElement DEF IInv, CountInv
  <2> HIDE DEF B, BB
  <2> QED  BY <2>1, <2>2, FS_Subset
<1>3. Minting' \subseteq Minting
  BY <1>1 DEF Minting
<1>4. IsFiniteSet(Minting)
  <2>1. Minting \subseteq B
    BY DEF Minting, Busy
  <2> QED  BY <2>1, FS_Subset DEF IInv, CountInv
<1>5. Cardinality(Minting') <= Cardinality(Minting)
  BY <1>3, <1>4, FS_Subset
<1>6. Cardinality(Minting') \in Nat /\ Cardinality(Minting) \in Nat
  BY <1>3, <1>4, FS_Subset, FS_CardinalityType
<1> QED  BY <1>2, <1>5, <1>6, LifecycleAssumption DEF IInv, TypeInv, StateType, CountInv

\* No key becomes usable, and the call is not one that retires others.
LEMMA PairsMoves ==
    ASSUME IInv, NEW c \in Calls, NEW q, call' = [call EXCEPT ![c] = q],
           causes \subseteq causes', call[c].pc \notin {"list", "retire"},
           \A k \in Keys : keys'[k] = "active" => keys[k] = "active"
    PROVE  PairsInv'
<1>1. \A d \in Calls : call'[d] = IF d = c THEN q ELSE call[d]
  BY DEF IInv, TypeInv, StateType
<1>2. bindable' \subseteq bindable
  BY DEF bindable, listActive
<1> SUFFICES ASSUME "died" \notin causes', NEW j \in bindable', NEW k \in bindable', j # k
             PROVE  \E d \in Calls : WillRetire(d, j, k)' \/ WillRetire(d, k, j)'
  BY DEF PairsInv
<1>3. PICK d \in Calls : WillRetire(d, j, k) \/ WillRetire(d, k, j)
  BY <1>2 DEF IInv, PairsInv
<1>4. call'[d] = call[d]
  BY <1>1, <1>3 DEF WillRetire, At
<1> QED  BY <1>3, <1>4 DEF WillRetire, At

--------------------------------------------------------------------------------
(* Calls begin *)

LEMMA RowIsTyped ==
    ASSUME TypeInv, NEW a \in Assets
    PROVE  mandate[a] \in RowType /\ isMandateLive(mandate[a]) \in BOOLEAN
BY DEF TypeInv, StateType, isMandateLive

LEMMA ActiveAreMinted ==
    ASSUME TypeInv, CountInv
    PROVE  listActive \subseteq 0..minted /\ bindable \subseteq 1..minted /\ minted \in Nat
<1>1. minted \in Nat /\ \A k \in listActive : k \in Keys /\ k <= minted
  BY DEF TypeInv, StateType, listActive
<1> QED  BY <1>1, LifecycleAssumption DEF Keys, Legacy, bindable

\* A row of the ledger that setStatus changes keeps its expiry.
LEMMA StatusCall ==
    ASSUME IInv, NEW c \in Calls, NEW s \in {"paused", "active", "revoked"}
    PROVE  LET q == [call[c] EXCEPT !.pc = "save", !.asset = Target,
                                    !.copy = [mandate[Target] EXCEPT !.status = s]]
           IN  /\ q \in CallStates
               /\ q.pc = "save" /\ q.asset = Target /\ q.copy.until = mandate[Target].until
<1> DEFINE r == [mandate[Target] EXCEPT !.status = s]
<1>1. Target \in Assets
  BY TargetIsAsset DEF Target
<1>2. mandate[Target] \in RowType
  BY <1>1, RowIsTyped DEF IInv
<1>3. r \in RowType /\ r.until = mandate[Target].until
  BY <1>2 DEF RowType
<1>4. call[c] \in CallStates
  BY DEF IInv, TypeInv, StateType
<1> HIDE DEF r
<1> DEFINE q == [call[c] EXCEPT !.pc = "save", !.asset = Target, !.copy = r]
<1>5. /\ q \in CallType /\ q.todo = call[c].todo
      /\ q.pc = "save" /\ q.asset = Target /\ q.copy = r
  BY <1>1, <1>3, <1>4 DEF CallStates, CallType, Steps
<1>6. q \in CallStates
  BY <1>5 DEF CallStates
<1>7. q.copy.until = mandate[Target].until
  BY <1>3, <1>5
<1> QED  BY <1>5, <1>6, <1>7 DEF r

LEMMA ShowsKeeps ==
    ASSUME IInv, NEW c \in Calls, NEW a \in Assets, Shows(c, a)
    PROVE  IInv'
<1> DEFINE q == [NoCall EXCEPT !.pc = "shown", !.asset = a, !.seen = mandate[a].nonce]
<1>1. q \in CallStates /\ q.pc = "shown"
  <2>1. mandate[a].nonce \in Nat
    BY RowIsTyped DEF IInv, RowType
  <2> QED  BY <2>1, NoCallIsCall DEF CallStates, CallType, Steps
<1>2. call' = [call EXCEPT ![c] = q] /\ call[c].pc = "idle"
      /\ UNCHANGED <<now, chain, db, memory, minted, causes>>
  BY DEF Shows, At
<1> HIDE DEF q
<1>3. call \in [Calls -> CallStates] /\ minted \in Nat
  BY DEF IInv, TypeInv, StateType
<1>5. TypeInv'
  BY <1>1, <1>2, TypeStays DEF IInv, TypeInv, StateType
<1>6. CountInv' /\ PairsInv'
  BY <1>1, <1>2, CountMoves, PairsMoves DEF chain, db, memory
<1>7. \A d \in Calls : /\ d # c => call'[d] = call[d]
                       /\ Busy(d)' <=> Busy(d)
  BY <1>1, <1>2, <1>3 DEF Busy
<1>8. AloneInv'
  BY <1>2, <1>7 DEF IInv, AloneInv
<1>9. (RevokedCall(c) /\ StepCall(c))'
  BY <1>1, <1>2, <1>3 DEF RevokedCall, StepCall, At
<1>10. ASSUME NEW d \in Calls, d # c
       PROVE  /\ RevokedCall(d) => RevokedCall(d)'
              /\ StepCall(d) => StepCall(d)'
  <2>1. call'[d] = call[d]
    BY <1>7, <1>10
  <2>2. AllInStep' <=> AllInStep
    BY <1>2 DEF AllInStep, InStep, bindable, listActive, chain, db
  <2>3. \A k : InStep(k)' <=> InStep(k)
    BY <1>2 DEF InStep, chain, db
  <2> QED  BY SMTT(30), <1>2, <2>1, <2>2, <2>3
           DEF RevokedCall, StepCall, At, bindable, listActive, chain, db
<1>11. RevokedInv'
  BY <1>2, <1>9, <1>10 DEF IInv, RevokedInv, chain, db
<1>12. StepInv'
  <2>1. AllInStep' <=> AllInStep
    BY <1>2 DEF AllInStep, InStep, bindable, listActive, chain, db
  <2>2. Quiet' <=> Quiet
    BY <1>7 DEF Quiet
  <2> QED  BY <1>2, <1>9, <1>10, <2>1, <2>2 DEF IInv, StepInv
<1> QED  BY <1>5, <1>6, <1>8, <1>11, <1>12 DEF IInv

\* A call that begins with nothing else under way meets a key in step.
LEMMA BeginsInStep ==
    ASSUME IInv, NEW c \in Calls, ~Busy(c), Noted(Meeting(c))
    PROVE  causes' \subseteq {"retired"} => AllInStep
<1> SUFFICES ASSUME causes' \subseteq {"retired"} PROVE AllInStep
  OBVIOUS
<1>1. causes \subseteq causes' /\ "overlap" \notin causes'
  BY DEF Noted
<1>2. Quiet
  BY <1>1, BeginsAlone DEF Alone, Quiet
<1> QED  BY <1>1, <1>2 DEF IInv, StepInv

\* Nothing but the call changes, to what it does first.
LEMMA BeginKeeps ==
    ASSUME IInv, NEW c \in Calls, ~Busy(c), Noted(Meeting(c)),
           UNCHANGED <<now, chain, db, memory, minted>>,
           NEW q \in CallStates, call' = [call EXCEPT ![c] = q],
           q.pc \in {"promote", "save", "remove"},
           q.pc = "save" => q.copy.until = mandate[q.asset].until
    PROVE  TypeInv' /\ AloneInv' /\ PairsInv' /\ RevokedInv' /\ StepInv'
<1>1. /\ call \in [Calls -> CallStates] /\ minted \in Nat /\ causes \subseteq Events
      /\ call'[c] = q /\ call[c].pc \in {"idle", "shown"}
  BY DEF IInv, TypeInv, StateType, Busy
<1>2. causes \subseteq causes' /\ causes' \subseteq Events
      /\ ("overlap" \notin causes' => Alone(c))
  BY <1>1, BeginsAlone DEF Noted, Meeting, Events
<1>4. TypeInv'
  BY <1>2, TypeStays
<1>5. PairsInv'
  BY <1>1, <1>2, PairsMoves DEF chain, db, memory
<1>6. causes' \cap {"overlap", "retired"} = {} => NoneRevokedPays' /\ RevokedCall(c)'
  <2>1. RevokedCall(c)'
    BY <1>1 DEF RevokedCall, At
  <2> QED  BY <1>2, <2>1 DEF IInv, RevokedInv, NoneRevokedPays, chain, db
<1>7. causes' \subseteq {"retired"} =>
         StepCall(c)' /\ (q.pc \in {"idle", "shown"} => AllInStep')
  <2> SUFFICES ASSUME causes' \subseteq {"retired"} PROVE StepCall(c)'
    OBVIOUS
  <2>1. AllInStep'
    BY BeginsInStep DEF AllInStep, InStep, bindable, listActive, chain, db
  <2> QED  BY <1>1, <2>1 DEF StepCall, db
<1> QED  BY <1>2, <1>4, <1>5, <1>6, <1>7, CallMoves

LEMMA ApprovesKeeps ==
    ASSUME IInv, NEW c \in Calls, Approves(c)
    PROVE  IInv'
<1> DEFINE q == [call[c] EXCEPT !.pc = "promote",
                                !.live = isMandateLive(mandate[call[c].asset])]
           B == {d \in Calls : Busy(d)}
<1>1. call \in [Calls -> CallStates] /\ minted \in Nat
  BY DEF IInv, TypeInv, StateType
<1>2. q \in CallStates /\ q.pc = "promote"
  <2>1. call[c].asset \in Assets
    BY <1>1 DEF CallStates, CallType
  <2>2. isMandateLive(mandate[call[c].asset]) \in BOOLEAN
    BY <2>1, RowIsTyped DEF IInv
  <2> QED  BY ZenonT(30), <1>1, <2>2 DEF CallStates, CallType, Steps
<1>3. /\ call' = [call EXCEPT ![c] = q]
      /\ Noted(Meeting(c)) /\ UNCHANGED <<now, chain, db, memory, minted>>
      /\ ~Busy(c) /\ minted + Cardinality(B) < MaxKeys
  BY DEF Approves, At, Busy
<1> HIDE DEF q
<1>4. TypeInv' /\ AloneInv' /\ PairsInv' /\ RevokedInv' /\ StepInv'
  BY <1>2, <1>3, BeginKeeps
<1>5. CountInv'
  <2>1. \A d \in Calls : call'[d] = IF d = c THEN q ELSE call[d]
    BY <1>1, <1>3
  <2>2. {d \in Calls : Busy(d)}' \subseteq B \cup {c} /\ Minting' \subseteq B \cup {c}
    BY <2>1 DEF Busy, Minting
  <2>3. IsFiniteSet(B)
    BY DEF IInv, CountInv
  <2> HIDE DEF B
  <2>4. /\ IsFiniteSet(B \cup {c})
        /\ Cardinality(B \cup {c}) \in {Cardinality(B), Cardinality(B) + 1}
    BY <2>3, FS_AddElement
  <2>5. IsFiniteSet({d \in Calls : Busy(d)}') /\ Cardinality(Minting') <= Cardinality(B \cup {c})
        /\ IsFiniteSet(Minting')
    BY <2>2, <2>4, FS_Subset
  <2>6. Cardinality(Minting') \in Nat /\ Cardinality(B) \in Nat
    BY <2>3, <2>5, FS_CardinalityType
  <2>7. minted + Cardinality(Minting') <= MaxKeys
    BY <1>1, <1>3, <2>4, <2>5, <2>6, LifecycleAssumption
  <2> QED  BY <1>3, <2>5, <2>7 DEF CountInv
<1> QED  BY <1>4, <1>5 DEF IInv

LEMMA PauseKeeps ==
    ASSUME IInv, NEW c \in Calls, ledgerPause(c)
    PROVE  IInv'
<1>1. PICK s \in {"paused", "active"} : setStatusReads(c, s)
  BY DEF ledgerPause
<1> DEFINE q == [call[c] EXCEPT !.pc = "save", !.asset = Target,
                                !.copy = [mandate[Target] EXCEPT !.status = s]]
<1>2. q \in CallStates /\ q.pc = "save" /\ q.asset = Target
      /\ q.copy.until = mandate[Target].until
  BY StatusCall
<1>3. /\ call' = [call EXCEPT ![c] = q] /\ ~Busy(c)
      /\ Noted(Meeting(c)) /\ UNCHANGED <<now, chain, db, memory, minted>>
  BY <1>1 DEF ledgerPause, setStatusReads, At, Busy
<1> HIDE DEF q
<1>4. TypeInv' /\ AloneInv' /\ PairsInv' /\ RevokedInv' /\ StepInv'
  BY <1>2, <1>3, BeginKeeps
<1>5. CountInv'
  BY <1>2, <1>3, CountMoves
<1> QED  BY <1>4, <1>5 DEF IInv

LEMMA RevokeKeeps ==
    ASSUME IInv, NEW c \in Calls, ledgerRevoke(c)
    PROVE  IInv'
<1>1. ~Busy(c) /\ Noted(Meeting(c)) /\ UNCHANGED <<now, chain, db, memory, minted>>
  BY DEF ledgerRevoke, At, Busy
<1>2. \E q \in CallStates :
         /\ call' = [call EXCEPT ![c] = q] /\ q.pc \in {"save", "remove"}
         /\ q.pc = "save" => q.copy.until = mandate[q.asset].until
  <2>1. CASE listActive = {}
    <3> DEFINE q == [call[c] EXCEPT !.pc = "save", !.asset = Target,
                                    !.copy = [mandate[Target] EXCEPT !.status = "revoked"]]
    <3>1. q \in CallStates /\ q.pc = "save" /\ q.asset = Target
          /\ q.copy.until = mandate[Target].until
      BY StatusCall
    <3>2. call' = [call EXCEPT ![c] = q]
      BY <2>1 DEF ledgerRevoke, setStatusReads
    <3> HIDE DEF q
    <3> QED  BY <3>1, <3>2
  <2>2. CASE listActive # {}
    <3> DEFINE q == [call[c] EXCEPT !.pc = "remove", !.todo = listActive]
    <3>1. call[c] \in CallStates /\ listActive \subseteq 0..minted
      BY ActiveAreMinted DEF IInv, TypeInv, StateType
    <3>2. q \in CallStates /\ q.pc = "remove"
      BY <2>2, <3>1 DEF CallStates, CallType, Steps
    <3>3. call' = [call EXCEPT ![c] = q]
      BY <2>2 DEF ledgerRevoke
    <3> HIDE DEF q
    <3> QED  BY <3>2, <3>3
  <2> QED  BY <2>1, <2>2
<1>3. TypeInv' /\ AloneInv' /\ PairsInv' /\ RevokedInv' /\ StepInv'
  BY <1>1, <1>2, BeginKeeps
<1>4. CountInv'
  BY <1>1, <1>2, CountMoves
<1> QED  BY <1>3, <1>4 DEF IInv

--------------------------------------------------------------------------------
(* A call goes on *)

\* What a step that changes nothing but the call must show.
LEMMA OnlyCallMoves ==
    ASSUME IInv, NEW c \in Calls, Busy(c), call[c].pc \notin {"list", "retire"},
           UNCHANGED <<now, chain, db, memory, minted, causes>>,
           NEW q \in CallStates, call' = [call EXCEPT ![c] = q],
           q.pc \notin {"add", "write", "list", "retire", "removed"},
           q.pc \in {"promote", "row", "find", "install", "grant"} =>
              call[c].pc \in {"promote", "row", "find", "install", "grant"},
           causes \subseteq {"retired"} =>
              StepCall(c)' /\ (q.pc \in {"idle", "shown"} => AllInStep)
    PROVE  IInv'
<1>1. call \in [Calls -> CallStates] /\ call'[c] = q /\ causes \subseteq Events
  BY DEF IInv, TypeInv, StateType
<1>2. "overlap" \notin causes' => Alone(c)
  BY BusyAlone
<1>3. TypeInv'
  BY <1>1, TypeStays
<1>4. CountInv' /\ PairsInv'
  BY CountMoves, PairsMoves DEF chain, db, memory
<1>5. causes' \cap {"overlap", "retired"} = {} => NoneRevokedPays' /\ RevokedCall(c)'
  <2>1. RevokedCall(c)'
    BY <1>1 DEF RevokedCall, At
  <2> QED  BY <2>1 DEF IInv, RevokedInv, NoneRevokedPays, chain, db
<1>6. AllInStep' <=> AllInStep
  BY DEF AllInStep, InStep, bindable, listActive, chain, db
<1>7. AloneInv' /\ RevokedInv' /\ StepInv'
  BY <1>2, <1>5, <1>6, CallMoves
<1> QED  BY <1>3, <1>4, <1>7 DEF IInv

LEMMA ReadsRowKeeps ==
    ASSUME IInv, NEW c \in Calls, refreshReadsRow(c)
    PROVE  IInv'
<1> DEFINE q == [call[c] EXCEPT !.pc = "find", !.copy = mandate[call[c].asset]]
<1>1. call \in [Calls -> CallStates] /\ call[c] \in CallStates /\ call[c].asset \in Assets
  BY DEF IInv, TypeInv, StateType, CallStates, CallType
<1>2. mandate[call[c].asset] \in RowType
  BY <1>1, RowIsTyped DEF IInv
<1>3. /\ q \in CallStates /\ q.pc = "find" /\ q.asset = call[c].asset /\ q.live = call[c].live
      /\ q.copy = mandate[call[c].asset]
  BY <1>1, <1>2 DEF CallStates, CallType, Steps
<1>4. /\ call' = [call EXCEPT ![c] = q] /\ call[c].pc = "row" /\ Busy(c)
      /\ UNCHANGED <<now, chain, db, memory, minted, causes>>
  BY DEF refreshReadsRow, At, Busy
<1> HIDE DEF q
<1>5. ASSUME causes \subseteq {"retired"} PROVE StepCall(c)'
  <2>1. StepCall(c)
    BY <1>5 DEF IInv, StepInv
  <2>2. AllInStep' <=> AllInStep
    BY <1>4 DEF AllInStep, InStep, bindable, listActive, chain, db
  <2>3. call'[c] = q
    BY <1>1, <1>4
  <2>4. mandate' = mandate /\ now' = now
    BY <1>4 DEF db
  <2> QED  BY <1>3, <1>4, <2>1, <2>2, <2>3, <2>4 DEF StepCall
<1> QED  BY <1>3, <1>4, <1>5, OnlyCallMoves

CaughtCall(c, k) ==
    IF k = NoKey THEN NoCall
    ELSE [NoCall EXCEPT !.pc = "retireFailed", !.asset = call[c].asset, !.existing = k]

LEMMA Caught ==
    ASSUME IInv, NEW c \in Calls, NEW k \in {NoKey} \cup 1..minted
    PROVE  /\ CaughtCall(c, k) \in CallStates
           /\ k = NoKey => CaughtCall(c, k).pc = "idle"
           /\ k # NoKey => CaughtCall(c, k).pc = "retireFailed" /\ CaughtCall(c, k).existing = k
           /\ Catches(c, k) => call' = [call EXCEPT ![c] = CaughtCall(c, k)]
<1>1. call[c].asset \in Assets
  BY DEF IInv, TypeInv, StateType, CallStates, CallType
<1>2. CASE k = NoKey
  BY <1>2, NoCallIsCall DEF CaughtCall, Catches, Ends
<1>3. CASE k # NoKey
  <2> DEFINE q == [NoCall EXCEPT !.pc = "retireFailed", !.asset = call[c].asset, !.existing = k]
  <2>1. q \in CallType /\ q.pc = "retireFailed" /\ q.existing = k
    BY <1>1, NoCallIsCall DEF CallStates, CallType, Steps
  <2>2. q \in CallStates
    BY <1>3, <2>1 DEF CallStates
  <2> HIDE DEF q
  <2>3. CaughtCall(c, k) = q
    BY <1>3 DEF CaughtCall, q
  <2>4. Catches(c, k) => call' = [call EXCEPT ![c] = q]
    BY <1>3 DEF Catches, q
  <2> QED  BY <1>3, <2>1, <2>2, <2>3, <2>4
<1> QED  BY <1>2, <1>3

\* The call that asks for the merchant's key finds the only one.
LEMMA FindsTheOnlyKey ==
    ASSUME IInv, NEW c \in Calls, At(c, "find"), NEW k,
           k \in IF bindable = {} THEN {NoKey} ELSE bindable, causes \subseteq {"retired"}
    PROVE  bindable \subseteq {k}
<1> SUFFICES ASSUME NEW j \in bindable, j # k PROVE FALSE
  OBVIOUS
<1>1. k \in bindable
  OBVIOUS
<1>2. PICK d \in Calls : WillRetire(d, j, k) \/ WillRetire(d, k, j)
  BY <1>1 DEF IInv, PairsInv
<1>3. Busy(c) /\ Busy(d) /\ c # d
  BY <1>2 DEF WillRetire, At, Busy
<1> QED  BY <1>3 DEF IInv, AloneInv

LEMMA FindKeeps ==
    ASSUME IInv, NEW c \in Calls, findActiveSubKeyForMerchant(c)
    PROVE  IInv'
<1>1. PICK k \in IF bindable = {} THEN {NoKey} ELSE bindable :
          \/ Kept(c, k) /\ Ends(c)
          \/ ~Kept(c, k) /\ Catches(c, k)
          \/ call' = [call EXCEPT ![c].pc = "install", ![c].live = FALSE, ![c].existing = k]
  BY DEF findActiveSubKeyForMerchant
<1>2. /\ call \in [Calls -> CallStates] /\ call[c] \in CallStates
      /\ call[c].pc = "find" /\ At(c, "find") /\ Busy(c)
      /\ UNCHANGED <<now, chain, db, memory, minted, causes>>
  BY DEF IInv, TypeInv, StateType, findActiveSubKeyForMerchant, At, Busy
<1>3. k \in {NoKey} \cup 1..minted /\ (k = NoKey => bindable = {}) /\ NoKey \notin 1..minted
  <2>1. bindable \subseteq 1..minted
    BY ActiveAreMinted DEF IInv
  <2>2. NoKey \notin 1..minted
    BY DEF NoKey, IInv, TypeInv, StateType
  <2> QED  BY <1>1, <2>1, <2>2
<1>4. /\ AllInStep' <=> AllInStep
      /\ bindable' = bindable /\ mandate' = mandate /\ now' = now
  BY <1>2 DEF AllInStep, InStep, bindable, listActive, chain, db
<1>5. causes \subseteq {"retired"} => StepCall(c) /\ bindable \subseteq {k}
  BY <1>1, <1>2, FindsTheOnlyKey DEF IInv, StepInv
<1>6. CASE Kept(c, k) /\ Ends(c)
  <2>1. /\ call' = [call EXCEPT ![c] = NoCall] /\ NoCall \in CallStates /\ NoCall.pc = "idle"
        /\ call'[c] = NoCall /\ call[c].live
    BY <1>2, <1>6, NoCallIsCall DEF Ends, Kept
  <2>2. causes \subseteq {"retired"} => AllInStep
    BY <1>2, <1>5, <2>1 DEF StepCall
  <2>3. StepCall(c)'
    BY <2>1 DEF StepCall
  <2> QED  BY <1>2, <2>1, <2>2, <2>3, OnlyCallMoves
<1>7. CASE ~Kept(c, k) /\ Catches(c, k)
  <2> DEFINE q == CaughtCall(c, k)
  <2>1. /\ q \in CallStates
        /\ call' = [call EXCEPT ![c] = q] /\ call'[c] = q
        /\ k = NoKey => q.pc = "idle"
        /\ k # NoKey => q.pc = "retireFailed" /\ q.existing = k
    BY <1>2, <1>3, <1>7, Caught
  <2> HIDE DEF q
  <2>2. k = NoKey => AllInStep
    BY <1>3 DEF AllInStep
  <2>3. causes \subseteq {"retired"} => StepCall(c)'
    BY <1>4, <1>5, <2>1 DEF StepCall
  <2> QED  BY <1>2, <2>1, <2>2, <2>3, OnlyCallMoves
<1>8. CASE call' = [call EXCEPT ![c].pc = "install", ![c].live = FALSE, ![c].existing = k]
  <2> DEFINE q == [call[c] EXCEPT !.pc = "install", !.live = FALSE, !.existing = k]
  <2>1. /\ q \in CallStates /\ q.pc = "install" /\ q.existing = k
        /\ q.asset = call[c].asset /\ q.copy = call[c].copy
    BY <1>2, <1>3 DEF CallStates, CallType, Steps
  <2>2. call' = [call EXCEPT ![c] = q] /\ call'[c] = q
    BY <1>2, <1>8
  <2> HIDE DEF q
  <2>3. causes \subseteq {"retired"} => StepCall(c)'
    BY <1>2, <1>4, <1>5, <2>1, <2>2 DEF StepCall
  <2> QED  BY <1>2, <2>1, <2>2, <2>3, OnlyCallMoves
<1> QED  BY <1>1, <1>6, <1>7, <1>8

LEMMA RereadsRowKeeps ==
    ASSUME IInv, NEW c \in Calls, refreshRereadsRow(c)
    PROVE  IInv'
<1> DEFINE q == [call[c] EXCEPT !.pc = "save", !.copy = mandate[call[c].asset]]
<1>1. call \in [Calls -> CallStates] /\ call[c] \in CallStates /\ call[c].asset \in Assets
  BY DEF IInv, TypeInv, StateType, CallStates, CallType
<1>2. mandate[call[c].asset] \in RowType
  BY <1>1, RowIsTyped DEF IInv
<1>3. /\ q \in CallStates /\ q.pc = "save" /\ q.asset = call[c].asset
      /\ q.copy = mandate[call[c].asset]
  BY <1>1, <1>2 DEF CallStates, CallType, Steps
<1>4. /\ call' = [call EXCEPT ![c] = q] /\ call[c].pc = "reread" /\ Busy(c)
      /\ UNCHANGED <<now, chain, db, memory, minted, causes>> /\ call'[c] = q
  BY <1>1 DEF refreshRereadsRow, At, Busy
<1> HIDE DEF q
<1>5. ASSUME causes \subseteq {"retired"} PROVE StepCall(c)'
  <2>1. bindable = {}
    BY <1>4, <1>5 DEF IInv, StepInv, StepCall
  <2>2. AllInStep'
    BY <1>4, <2>1 DEF AllInStep, bindable, listActive, db
  <2>3. mandate' = mandate
    BY <1>4 DEF db
  <2> QED  BY <1>3, <1>4, <2>2, <2>3 DEF StepCall
<1> QED  BY <1>3, <1>4, <1>5, OnlyCallMoves

LEMMA RevokeMandateKeeps ==
    ASSUME IInv, NEW c \in Calls, revokeMandate(c)
    PROVE  IInv'
<1> DEFINE q == [call[c] EXCEPT !.pc = "save", !.asset = Target,
                                !.copy = [mandate[Target] EXCEPT !.status = "revoked"]]
<1>1. /\ q \in CallStates /\ q.pc = "save" /\ q.asset = Target
      /\ q.copy.until = mandate[Target].until
  BY StatusCall
<1>2. /\ call' = [call EXCEPT ![c] = q] /\ call[c].pc = "status" /\ Busy(c)
      /\ UNCHANGED <<now, chain, db, memory, minted, causes>>
  BY DEF revokeMandate, setStatusReads, At, Busy
<1> HIDE DEF q
<1>3. ASSUME causes \subseteq {"retired"} PROVE StepCall(c)'
  <2>1. AllInStep
    BY <1>2, <1>3 DEF IInv, StepInv, StepCall
  <2>2. AllInStep' /\ mandate' = mandate
    BY <1>2, <2>1 DEF AllInStep, InStep, bindable, listActive, chain, db
  <2>3. call'[c] = q
    BY <1>2 DEF IInv, TypeInv, StateType
  <2> QED  BY <1>1, <2>2, <2>3 DEF StepCall
<1> QED  BY <1>1, <1>2, <1>3, OnlyCallMoves

\* The catch clause, after a transaction that failed or did not answer.
LEMMA CatchMoves ==
    ASSUME IInv, NEW c \in Calls, call[c].pc \in {"install", "grant", "add"},
           Catches(c, call[c].existing), causes' = causes, keys' = keys, mandate' = mandate,
           causes \cap {"overlap", "retired"} = {} => NoneRevokedPays'
    PROVE  /\ AloneInv' /\ PairsInv' /\ RevokedInv' /\ StepInv'
           /\ \E q \in CallStates : /\ call' = [call EXCEPT ![c] = q]
                                    /\ q.pc \in {"idle", "retireFailed"}
<1> DEFINE k == call[c].existing
           q == CaughtCall(c, k)
<1>1. call \in [Calls -> CallStates] /\ call[c] \in CallStates /\ Busy(c)
  BY DEF IInv, TypeInv, StateType, Busy
<1>2. k \in {NoKey} \cup 1..minted
  BY <1>1 DEF CallStates, CallType
<1>3. bindable \subseteq 1..minted /\ NoKey \notin 1..minted
  BY ActiveAreMinted DEF IInv, NoKey, TypeInv, StateType
<1>4. causes \subseteq {"retired"} => bindable \subseteq {k}
  BY DEF IInv, StepInv, StepCall
<1>5. bindable' = bindable
  BY DEF bindable, listActive
<1> HIDE DEF k
<1>6. /\ q \in CallStates /\ q.pc \in {"idle", "retireFailed"}
      /\ k = NoKey => q.pc = "idle"
      /\ k # NoKey => q.pc = "retireFailed" /\ q.existing = k
      /\ call' = [call EXCEPT ![c] = q] /\ call'[c] = q
  BY <1>1, <1>2, Caught DEF k
<1> HIDE DEF q
<1>7. PairsInv'
  BY <1>6, PairsMoves
<1>8. "overlap" \notin causes' => Alone(c)
  BY <1>1, BusyAlone
<1>9. RevokedCall(c)'
  BY <1>6 DEF RevokedCall, At
<1>10. causes' \subseteq {"retired"} =>
          StepCall(c)' /\ (q.pc \in {"idle", "shown"} => AllInStep')
  <2> SUFFICES ASSUME causes' \subseteq {"retired"}
               PROVE  StepCall(c)' /\ (q.pc \in {"idle", "shown"} => AllInStep')
    OBVIOUS
  <2>1. k = NoKey => AllInStep'
    BY <1>3, <1>4, <1>5 DEF AllInStep
  <2>2. StepCall(c)'
    BY <1>4, <1>5, <1>6 DEF StepCall
  <2> QED  BY <1>6, <2>1, <2>2
<1>11. AloneInv' /\ RevokedInv' /\ StepInv'
  BY <1>6, <1>8, <1>9, <1>10, CallMoves
<1> QED  BY <1>6, <1>7, <1>11

LEMMA PromoteKeeps ==
    ASSUME IInv, NEW c \in Calls, promoteAllowance(c)
    PROVE  IInv'
<1> DEFINE a == call[c].asset
<1>1. /\ call \in [Calls -> CallStates] /\ call[c] \in CallStates /\ a \in Assets
      /\ call[c].pc = "promote" /\ Busy(c)
      /\ UNCHANGED <<now, chain, keys, memory, minted>>
  BY DEF IInv, TypeInv, StateType, CallStates, CallType, promoteAllowance, At, Busy
<1>2. causes \subseteq {"retired"} => AllInStep
  BY <1>1 DEF IInv, StepInv, StepCall
<1>3. CASE mandate[a].nonce # call[c].seen
  <2>1. /\ call' = [call EXCEPT ![c] = NoCall] /\ NoCall \in CallStates /\ NoCall.pc = "idle"
        /\ UNCHANGED <<now, chain, db, memory, minted, causes>> /\ call'[c] = NoCall
    BY <1>1, <1>3, NoCallIsCall DEF promoteAllowance, Ends, db
  <2>2. StepCall(c)'
    BY <2>1 DEF StepCall
  <2> QED  BY <1>1, <1>2, <2>1, <2>2, OnlyCallMoves
<1>4. CASE mandate[a].nonce = call[c].seen
  <2> DEFINE r == [status |-> "active", until |-> now + MandateTicks,
                   nonce |-> mandate[a].nonce + 1]
             q == [call[c] EXCEPT !.pc = "row", !.seen = 0]
             e == IF call[c].live /\ mandate[a].until # now + MandateTicks
                  THEN {"extended"} ELSE {}
  <2>1. mandate' = [mandate EXCEPT ![a] = r] /\ call' = [call EXCEPT ![c] = q] /\ Noted(e)
    BY <1>4 DEF promoteAllowance, a
  <2>2. now \in Nat /\ now' = now /\ minted \in Nat /\ MandateTicks \in Nat
    BY <1>1, LifecycleAssumption DEF IInv, TypeInv, StateType
  <2> HIDE DEF a
  <2>22. mandate \in [Assets -> RowType] /\ mandate[a] \in RowType
    BY <1>1 DEF IInv, TypeInv, StateType
  <2>3. r \in RowType /\ r.until = now + MandateTicks /\ r.until # NoExpiry
    BY <2>2, <2>22 DEF RowType, NoExpiry
  <2>4. /\ q \in CallStates /\ q.pc = "row" /\ q.asset = a /\ q.live = call[c].live
    BY <1>1 DEF CallStates, CallType, Steps, a
  <2>5. causes' = causes \cup e /\ causes' \subseteq Events /\ causes \subseteq causes'
    BY <2>1 DEF Noted, IInv, TypeInv, StateType, Events
  <2> HIDE DEF r, q
  <2>6. /\ mandate'[a] = r /\ \A b \in Assets : b # a => mandate'[b] = mandate[b]
        /\ mandate' \in [Assets -> RowType] /\ call'[c] = q
    BY <1>1, <2>1, <2>22, <2>3
  <2>7. TypeInv'
    <3>1. q \in CallStates' /\ minted <= minted'
      BY <1>1, <2>2, <2>4, CallsGrow
    <3>2. StateType'
      BY <1>1, <2>5, <2>6 DEF IInv, TypeInv, StateType, chain, memory
    <3> QED  BY <1>1, <2>1, <2>2, <3>1, <3>2, TypeMoves
  <2>8. CountInv' /\ PairsInv'
    BY <1>1, <2>1, <2>4, <2>5, CountMoves, PairsMoves
  <2>9. causes' \cap {"overlap", "retired"} = {} => NoneRevokedPays' /\ RevokedCall(c)'
    <3>1. RevokedCall(c)'
      BY <2>4, <2>6 DEF RevokedCall, At
    <3> QED  BY <1>1, <2>5, <3>1 DEF IInv, RevokedInv, NoneRevokedPays, chain
  <2>10. ASSUME causes' \subseteq {"retired"} PROVE StepCall(c)'
    <3>1. q.live => AllInStep'
      <4> SUFFICES ASSUME q.live PROVE AllInStep'
        OBVIOUS
      <4>1. mandate[a].until = r.until
        BY <2>3, <2>4, <2>5, <1>1, <1>4, <2>10 DEF a
      <4>2. \A b \in Assets : mandate'[b].until = mandate[b].until
        BY <2>6, <4>1
      <4>3. AllInStep
        BY <1>2, <2>5, <2>10
      <4> QED  BY <1>1, <4>2, <4>3 DEF AllInStep, InStep, bindable, listActive, chain
    <3>2. mandate'[q.asset].until # NoExpiry
          /\ mandate'[q.asset].until <= now' + MandateTicks
      BY <2>2, <2>3, <2>4, <2>6
    <3> QED  BY <2>4, <2>6, <3>1, <3>2 DEF StepCall
  <2>11. "overlap" \notin causes' => Alone(c)
    BY <1>1, <2>5, BusyAlone
  <2>12. AloneInv' /\ RevokedInv' /\ StepInv'
    BY <2>1, <2>4, <2>5, <2>9, <2>10, <2>11, CallMoves
  <2> QED  BY <2>7, <2>8, <2>12 DEF IInv
<1> QED  BY <1>3, <1>4

LEMMA InstallKeeps ==
    ASSUME IInv, NEW c \in Calls, ensurePolicyInstalled(c)
    PROVE  IInv'
<1>1. PICK o \in IF installed THEN {"lands"} ELSE Outcomes :
          /\ installed' = (installed \/ o # "fails")
          /\ IF o = "lands" THEN Goes(c, "grant") ELSE Catches(c, call[c].existing)
  BY DEF ensurePolicyInstalled
<1>2. /\ call \in [Calls -> CallStates] /\ call[c] \in CallStates
      /\ call[c].pc = "install" /\ Busy(c) /\ minted \in Nat
      /\ now' = now /\ bound' = bound /\ signers' = signers /\ keys' = keys
      /\ mandate' = mandate /\ unlocked' = unlocked /\ cache' = cache /\ minted' = minted
      /\ causes' = causes
  BY DEF IInv, TypeInv, StateType, ensurePolicyInstalled, At, Busy, db, memory
<1>3. /\ installed' \in BOOLEAN /\ (installed => installed')
      /\ o = "lands" => installed'
  BY <1>1
<1>4. causes \cap {"overlap", "retired"} = {} => NoneRevokedPays'
  BY <1>2 DEF IInv, RevokedInv, NoneRevokedPays
<1> DEFINE g == [call[c] EXCEPT !.pc = "grant"]
<1>5. /\ g \in CallStates /\ g.pc = "grant" /\ g.existing = call[c].existing
      /\ g.asset = call[c].asset /\ g.copy = call[c].copy
  BY <1>2 DEF CallStates, CallType, Steps
<1>6. ASSUME Goes(c, "grant"), o = "lands"
      PROVE  AloneInv' /\ PairsInv' /\ RevokedInv' /\ StepInv'
  <2>1. call' = [call EXCEPT ![c] = g]
    BY <1>6 DEF Goes
  <2> HIDE DEF g
  <2>2. call'[c] = g
    BY <1>2, <2>1
  <2>3. PairsInv'
    BY <1>2, <2>1, PairsMoves
  <2>4. RevokedCall(c)'
    BY <1>5, <2>2 DEF RevokedCall, At
  <2>5. causes' \subseteq {"retired"} => StepCall(c)'
    <3> SUFFICES ASSUME causes' \subseteq {"retired"} PROVE StepCall(c)'
      OBVIOUS
    <3>1. StepCall(c)
      BY <1>2 DEF IInv, StepInv
    <3> QED  BY <1>2, <1>3, <1>5, <1>6, <2>2, <3>1 DEF StepCall, bindable, listActive
  <2>6. "overlap" \notin causes' => Alone(c)
    BY <1>2, BusyAlone
  <2>7. AloneInv' /\ RevokedInv' /\ StepInv'
    BY <1>2, <1>4, <1>5, <2>1, <2>4, <2>5, <2>6, CallMoves
  <2> QED  BY <2>3, <2>7
<1>7. /\ AloneInv' /\ PairsInv' /\ RevokedInv' /\ StepInv'
      /\ \E q \in CallStates : /\ call' = [call EXCEPT ![c] = q]
                               /\ q.pc \in {"idle", "retireFailed", "grant"}
  <2>1. CASE o = "lands"
    <3>1. Goes(c, "grant")
      BY <1>1, <2>1
    <3> QED  BY <1>5, <1>6, <2>1, <3>1 DEF Goes
  <2>2. CASE o # "lands"
    BY <1>1, <1>2, <1>4, <2>2, CatchMoves
  <2> QED  BY <2>1, <2>2
<1> HIDE DEF g
<1>8. PICK q \in CallStates : /\ call' = [call EXCEPT ![c] = q]
                              /\ q.pc \in {"idle", "retireFailed", "grant"}
  BY <1>7
<1>9. q \in CallStates' /\ minted <= minted'
  BY <1>2, CallsGrow
<1>10. TypeInv'
  <2>1. installed' \in BOOLEAN
    BY <1>3
  <2>2. StateType'
    BY <1>2, <2>1 DEF IInv, TypeInv, StateType
  <2> QED  BY <1>2, <1>8, <1>9, <2>2, TypeMoves
<1>11. CountInv'
  BY <1>2, <1>8, CountMoves
<1> QED  BY <1>7, <1>10, <1>11 DEF IInv

\* A call that may mint has its place under the bound.
LEMMA MayMint ==
    ASSUME TypeInv, CountInv, NEW c \in Minting
    PROVE  /\ minted + 1 <= MaxKeys /\ minted + 1 \in Keys
           /\ IsFiniteSet(Minting)
           /\ Cardinality(Minting \ {c}) = Cardinality(Minting) - 1
           /\ Cardinality(Minting) \in Nat
<1>1. IsFiniteSet(Minting)
  <2>1. Minting \subseteq {d \in Calls : Busy(d)}
    BY DEF Minting, Busy
  <2> QED  BY <2>1, FS_Subset DEF CountInv
<1>2. Cardinality(Minting) \in Nat /\ Cardinality(Minting \ {c}) \in Nat
      /\ Cardinality(Minting \ {c}) = Cardinality(Minting) - 1
  BY <1>1, FS_RemoveElement, FS_CardinalityType
<1>3. minted + 1 <= MaxKeys
  BY <1>2, LifecycleAssumption DEF CountInv, TypeInv, StateType
<1> QED  BY <1>1, <1>2, <1>3, LifecycleAssumption DEF TypeInv, StateType, Keys, Legacy

LEMMA GrantKeeps ==
    ASSUME IInv, NEW c \in Calls, setAllowance(c)
    PROVE  IInv'
<1> DEFINE m == minted + 1
           b == [key |-> m, until |-> now + MandateTicks]
           g == [call[c] EXCEPT !.pc = "add", !.key = m]
<1>1. PICK o \in Outcomes :
          /\ bound' = IF o = "fails" THEN bound ELSE b
          /\ IF o = "lands" THEN call' = [call EXCEPT ![c] = g]
             ELSE Catches(c, call[c].existing)
  BY DEF setAllowance
<1>2. /\ call \in [Calls -> CallStates] /\ call[c] \in CallStates
      /\ call[c].pc = "grant" /\ Busy(c) /\ c \in Minting
      /\ minted' = m /\ now' = now /\ installed' = installed /\ signers' = signers
      /\ keys' = keys /\ mandate' = mandate /\ unlocked' = unlocked /\ cache' = cache
      /\ causes' = causes
  BY DEF IInv, TypeInv, StateType, setAllowance, At, Busy, Minting, db, memory
<1>3. /\ minted \in Nat /\ m \in Nat /\ minted <= m /\ m <= MaxKeys /\ m \in Keys
      /\ m # NoKey /\ now \in Nat /\ MandateTicks \in Nat /\ now + MandateTicks \in Int
  <2>1. minted + 1 <= MaxKeys /\ minted + 1 \in Keys
    BY <1>2, MayMint DEF IInv
  <2> QED  BY <2>1, LifecycleAssumption DEF IInv, TypeInv, StateType, NoKey
<1>4. keys[m] = "absent" /\ \A k \in Keys : keys[k] # "absent" => k # m
  BY <1>3 DEF IInv, TypeInv, StateType
<1>5. /\ b \in [key : {NoKey} \cup 1..m, until : Int]
      /\ b.key = m /\ b.until = now + MandateTicks
  BY <1>3
<1>6. StateType'
  <2>1. bound' \in [key : {NoKey} \cup 1..minted', until : Int]
    <3>1. bound \in [key : {NoKey} \cup 1..minted, until : Int]
      BY DEF IInv, TypeInv, StateType
    <3> HIDE DEF m, b
    <3>2. 1..minted \subseteq 1..m
      BY <1>3
    <3> QED  BY <1>1, <1>2, <1>5, <3>1, <3>2
  <2>2. \A k \in Keys : keys[k] # "absent" => k <= m
    <3>1. \A k \in Keys : k \in Nat /\ (keys[k] # "absent" => k <= minted)
      BY LifecycleAssumption DEF IInv, TypeInv, StateType, Keys, Legacy
    <3> QED  BY <1>3, <3>1
  <2> HIDE DEF m, b
  <2> QED  BY <1>2, <1>3, <2>1, <2>2 DEF IInv, TypeInv, StateType
<1>7. causes \cap {"overlap", "retired"} = {} => NoneRevokedPays'
  <2> SUFFICES ASSUME causes \cap {"overlap", "retired"} = {}, NEW k \in Keys,
                      keys[k] \in Stopped
               PROVE  signers[k].until = NoExpiry \/ bound'.key # k
    BY <1>2 DEF NoneRevokedPays
  <2>1. k # m
    BY <1>4 DEF Stopped
  <2> HIDE DEF m, b
  <2> QED  BY <1>1, <1>5, <2>1 DEF IInv, RevokedInv
<1>8. /\ g.pc = "add" /\ g.key = m /\ g.asset = call[c].asset /\ g.copy = call[c].copy
      /\ g.existing = call[c].existing /\ g \in CallStates'
  <2>1. CallStates \subseteq CallStates'
    BY <1>2, <1>3, CallsGrow
  <2>2. m \in {NoKey} \cup 1..minted'
    BY <1>2, <1>3
  <2>3. call[c] \in CallStates'
    BY <1>2, <2>1
  <2> HIDE DEF m
  <2>4. g \in CallType' /\ g.pc = "add" /\ g.key = m /\ g.asset = call[c].asset
        /\ g.copy = call[c].copy /\ g.existing = call[c].existing
    BY <2>2, <2>3 DEF CallStates, CallType, Steps
  <2> QED  BY <1>3, <2>4 DEF CallStates
<1> HIDE DEF b, m
<1>9. ASSUME o = "lands" PROVE AloneInv' /\ PairsInv' /\ RevokedInv' /\ StepInv'
  <2>1. call' = [call EXCEPT ![c] = g] /\ bound' = b
    BY <1>1, <1>9
  <2> HIDE DEF g
  <2>2. call'[c] = g
    BY <1>2, <2>1
  <2>3. PairsInv'
    BY <1>2, <2>1, PairsMoves
  <2>4. RevokedCall(c)'
    BY <1>2, <1>4, <1>5, <1>8, <2>1, <2>2 DEF RevokedCall, At
  <2>5. causes' \subseteq {"retired"} => StepCall(c)'
    <3> SUFFICES ASSUME causes' \subseteq {"retired"} PROVE StepCall(c)'
      OBVIOUS
    <3>1. StepCall(c)
      BY <1>2 DEF IInv, StepInv
    <3> QED  BY <1>2, <1>5, <1>8, <2>1, <2>2, <3>1 DEF StepCall, bindable, listActive
  <2>6. "overlap" \notin causes' => Alone(c)
    BY <1>2, BusyAlone
  <2>7. AloneInv' /\ RevokedInv' /\ StepInv'
    BY <1>2, <1>7, <1>8, <2>1, <2>4, <2>5, <2>6, CallMoves
  <2> QED  BY <2>3, <2>7
<1>10. /\ AloneInv' /\ PairsInv' /\ RevokedInv' /\ StepInv'
       /\ \E q \in CallStates' : /\ call' = [call EXCEPT ![c] = q]
                                 /\ q.pc \in {"idle", "retireFailed", "add"}
  <2>1. CASE o = "lands"
    BY <1>1, <1>8, <1>9, <2>1
  <2>2. CASE o # "lands"
    <3>1. CallStates \subseteq CallStates'
      BY <1>2, <1>3, CallsGrow
    <3>2. Catches(c, call[c].existing)
      BY <1>1, <2>2
    <3> QED  BY <1>2, <1>7, <3>1, <3>2, CatchMoves
  <2> QED  BY <2>1, <2>2
<1> HIDE DEF g
<1>11. PICK q \in CallStates' : /\ call' = [call EXCEPT ![c] = q]
                                /\ q.pc \in {"idle", "retireFailed", "add"}
  BY <1>10
<1>12. TypeInv'
  BY <1>2, <1>3, <1>6, <1>11, TypeMoves
<1>13. CountInv'
  <2>1. \A d \in Calls : call'[d] = IF d = c THEN q ELSE call[d]
    BY <1>2, <1>11
  <2>2. Minting' \subseteq Minting \ {c}
        /\ {d \in Calls : Busy(d)}' \subseteq {d \in Calls : Busy(d)}
    BY <1>2, <1>11, <2>1 DEF Minting, Busy
  <2>3. /\ IsFiniteSet(Minting) /\ Cardinality(Minting \ {c}) = Cardinality(Minting) - 1
        /\ Cardinality(Minting) \in Nat
    BY <1>2, MayMint DEF IInv
  <2>4. IsFiniteSet(Minting \ {c})
    BY <2>3, FS_Subset
  <2>5. IsFiniteSet({d \in Calls : Busy(d)}') /\ IsFiniteSet(Minting')
        /\ Cardinality(Minting') <= Cardinality(Minting \ {c})
    BY <2>2, <2>4, FS_Subset DEF IInv, CountInv
  <2>6. Cardinality(Minting') \in Nat
    BY <2>5, FS_CardinalityType
  <2>7. minted + Cardinality(Minting) <= MaxKeys
    BY DEF IInv, CountInv
  <2>8. minted' + Cardinality(Minting') <= MaxKeys
    BY <1>2, <1>3, <2>3, <2>5, <2>6, <2>7, LifecycleAssumption DEF m
  <2> QED  BY <2>5, <2>8 DEF CountInv
<1> QED  BY <1>10, <1>12, <1>13 DEF IInv

LEMMA AddKeeps ==
    ASSUME IInv, NEW c \in Calls, buildAddSubKeyTransaction(c)
    PROVE  IInv'
<1> DEFINE s == call[c].key
           b == [asset |-> call[c].asset, until |-> now + MandateTicks]
           g == [call[c] EXCEPT !.pc = "write"]
<1>1. PICK o \in Outcomes :
          /\ signers' = IF o = "fails" THEN signers ELSE [signers EXCEPT ![s] = b]
          /\ IF o = "lands" THEN call' = [call EXCEPT ![c] = g]
             ELSE Catches(c, call[c].existing)
  BY DEF buildAddSubKeyTransaction, Goes
<1>2. /\ call \in [Calls -> CallStates] /\ call[c] \in CallStates /\ call[c].asset \in Assets
      /\ call[c].pc = "add" /\ Busy(c) /\ minted' = minted /\ now' = now
      /\ installed' = installed /\ bound' = bound
      /\ keys' = keys /\ mandate' = mandate /\ unlocked' = unlocked /\ cache' = cache
      /\ causes' = causes
  BY DEF IInv, TypeInv, buildAddSubKeyTransaction, At, Busy, db, memory, CallStates, CallType
<1>3. /\ minted \in Nat /\ minted <= minted' /\ now + MandateTicks \in Int /\ now \in Nat
      /\ MandateTicks \in Nat /\ signers \in [Keys -> [asset : Assets, until : Int]]
  BY <1>2, LifecycleAssumption DEF IInv, TypeInv, StateType
<1>4. s \in Keys
  <2>1. s \in 1..minted /\ 0..minted \subseteq Keys
    BY <1>2, KeysAreNumbers DEF IInv, CallStates, CallType
  <2> QED  BY <2>1, <1>3
<1>5. b \in [asset : Assets, until : Int] /\ b.asset = call[c].asset
      /\ b.until = now + MandateTicks
  BY <1>2, <1>3
<1> HIDE DEF b, s
<1>6. /\ signers' \in [Keys -> [asset : Assets, until : Int]]
      /\ \A k \in Keys : k # s => signers'[k] = signers[k]
      /\ o = "lands" => signers'[s] = b
  BY <1>1, <1>3, <1>4, <1>5
<1>7. StateType'
  BY <1>2, <1>6 DEF IInv, TypeInv, StateType
<1>8. causes \cap {"overlap", "retired"} = {} => NoneRevokedPays'
  <2> SUFFICES ASSUME causes \cap {"overlap", "retired"} = {}, NEW k \in Keys,
                      keys[k] \in Stopped
               PROVE  signers'[k].until = NoExpiry \/ bound.key # k
    BY <1>2 DEF NoneRevokedPays
  <2>1. keys[s] = "absent"
    BY <1>2 DEF IInv, RevokedInv, RevokedCall, s
  <2> QED  BY <1>6, <2>1 DEF IInv, RevokedInv, Stopped
<1>9. /\ g.pc = "write" /\ g.key = s /\ g.asset = call[c].asset /\ g.copy = call[c].copy
      /\ g.existing = call[c].existing /\ g \in CallStates
  BY <1>2 DEF CallStates, CallType, Steps, s
<1>10. ASSUME o = "lands" PROVE AloneInv' /\ PairsInv' /\ RevokedInv' /\ StepInv'
  <2>1. call' = [call EXCEPT ![c] = g] /\ signers'[s] = b
    BY <1>1, <1>6, <1>10
  <2> HIDE DEF g
  <2>2. call'[c] = g
    BY <1>2, <2>1
  <2>3. PairsInv'
    BY <1>2, <2>1, PairsMoves
  <2>4. causes' \cap {"overlap", "retired"} = {} => RevokedCall(c)'
    <3>1. causes' \cap {"overlap", "retired"} = {} => RevokedCall(c)
      BY <1>2 DEF IInv, RevokedInv
    <3> QED  BY <1>2, <1>9, <2>2, <3>1 DEF RevokedCall, At, s
  <2>5. causes' \subseteq {"retired"} => StepCall(c)'
    <3> SUFFICES ASSUME causes' \subseteq {"retired"} PROVE StepCall(c)'
      OBVIOUS
    <3>1. StepCall(c)
      BY <1>2 DEF IInv, StepInv
    <3> QED  BY <1>2, <1>5, <1>9, <2>1, <2>2, <3>1 DEF StepCall, bindable, listActive, s
  <2>6. "overlap" \notin causes' => Alone(c)
    BY <1>2, BusyAlone
  <2>7. AloneInv' /\ RevokedInv' /\ StepInv'
    BY <1>2, <1>8, <1>9, <2>1, <2>4, <2>5, <2>6, CallMoves
  <2> QED  BY <2>3, <2>7
<1>11. /\ AloneInv' /\ PairsInv' /\ RevokedInv' /\ StepInv'
       /\ \E q \in CallStates : /\ call' = [call EXCEPT ![c] = q]
                                /\ q.pc \in {"idle", "retireFailed", "write"}
  <2>1. CASE o = "lands"
    BY <1>1, <1>9, <1>10, <2>1
  <2>2. CASE o # "lands"
    BY <1>1, <1>2, <1>8, <2>2, CatchMoves
  <2> QED  BY <2>1, <2>2
<1> HIDE DEF g
<1>12. PICK q \in CallStates : /\ call' = [call EXCEPT ![c] = q]
                               /\ q.pc \in {"idle", "retireFailed", "write"}
  BY <1>11
<1>13. q \in CallStates'
  BY <1>2, <1>3, CallsGrow
<1>14. TypeInv'
  BY <1>3, <1>7, <1>12, <1>13, TypeMoves
<1>15. CountInv'
  BY <1>2, <1>12, CountMoves
<1> QED  BY <1>11, <1>14, <1>15 DEF IInv

LEMMA WriteKeeps ==
    ASSUME IInv, NEW c \in Calls, writeSubKey(c)
    PROVE  IInv'
<1>0. PICK s : s = call[c].key
  OBVIOUS
<1> DEFINE g == [call[c] EXCEPT !.pc = "list"]
           e == IF Assets = {call[c].asset} THEN {} ELSE {"assets"}
<1>1. /\ keys' = [keys EXCEPT ![s] = "active"] /\ cache' = cache \cup {s}
      /\ call' = [call EXCEPT ![c] = g] /\ Noted(e)
  BY <1>0 DEF writeSubKey, putSubKey, Goes
<1>2. /\ call \in [Calls -> CallStates] /\ call[c] \in CallStates /\ call[c].asset \in Assets
      /\ call[c].pc = "write" /\ Busy(c) /\ minted' = minted /\ now' = now
      /\ installed' = installed /\ bound' = bound /\ signers' = signers
      /\ mandate' = mandate /\ unlocked' = unlocked
  BY DEF IInv, TypeInv, writeSubKey, At, Busy, chain, CallStates, CallType
<1>3. /\ causes' = causes \cup e /\ causes' \subseteq Events /\ causes \subseteq causes'
  BY <1>1 DEF Noted, IInv, TypeInv, StateType, Events
<1>4. minted \in Nat /\ minted <= minted'
  BY <1>2 DEF IInv, TypeInv, StateType
<1>5. s \in 1..minted /\ s \in Keys
  <2>1. s \in 1..minted /\ 0..minted \subseteq Keys
    BY <1>0, <1>2, KeysAreNumbers DEF IInv, CallStates, CallType
  <2> QED  BY <2>1, <1>4
<1>6. /\ g.pc = "list" /\ g.key = s /\ g.asset = call[c].asset /\ g.copy = call[c].copy
      /\ g \in CallStates
  BY <1>0, <1>2 DEF CallStates, CallType, Steps
<1> HIDE DEF g
<1>7. /\ keys' \in [Keys -> {"absent", "active", "retired", "revoked"}] /\ keys'[s] = "active"
      /\ \A k \in Keys : k # s => keys'[k] = keys[k]
      /\ call' \in [Calls -> CallStates] /\ call'[c] = g
      /\ \A d \in Calls : d # c => call'[d] = call[d]
  BY <1>1, <1>2, <1>5, <1>6 DEF IInv, TypeInv, StateType
<1>8. TypeInv'
  <2>1. \A k \in Keys : keys'[k] # "absent" => k <= minted'
    BY <1>2, <1>4, <1>5, <1>7 DEF IInv, TypeInv, StateType
  <2>2. StateType'
    BY <1>1, <1>2, <1>3, <1>5, <1>7, <2>1 DEF IInv, TypeInv, StateType
  <2>3. g \in CallStates'
    BY <1>2, <1>4, <1>6, CallsGrow
  <2> QED  BY <1>1, <1>4, <2>2, <2>3, TypeMoves
<1>9. CountInv'
  BY <1>1, <1>2, <1>6, CountMoves
<1>10. PairsInv'
  <2> SUFFICES ASSUME "died" \notin causes', NEW j \in bindable', NEW k \in bindable', j # k
               PROVE  \E d \in Calls : WillRetire(d, j, k)' \/ WillRetire(d, k, j)'
    BY DEF PairsInv
  <2>1. WillRetire(c, s, j)' /\ WillRetire(c, s, k)'
    BY <1>6, <1>7 DEF WillRetire, At
  <2>2. CASE s \in {j, k}
    BY <2>1, <2>2
  <2>3. CASE s \notin {j, k}
    <3>1. j \in bindable /\ k \in bindable
      BY <1>7, <2>3 DEF bindable, listActive
    <3>2. PICK d \in Calls : WillRetire(d, j, k) \/ WillRetire(d, k, j)
      BY <1>3, <3>1 DEF IInv, PairsInv
    <3>3. call'[d] = call[d]
      BY <1>2, <1>7, <3>2 DEF WillRetire, At
    <3> QED  BY <3>2, <3>3 DEF WillRetire, At
  <2> QED  BY <2>2, <2>3
<1>11. causes' \cap {"overlap", "retired"} = {} => NoneRevokedPays' /\ RevokedCall(c)'
  <2> SUFFICES ASSUME causes' \cap {"overlap", "retired"} = {}
               PROVE  NoneRevokedPays' /\ RevokedCall(c)'
    OBVIOUS
  <2>1. NoneRevokedPays /\ RevokedCall(c)
    BY <1>3 DEF IInv, RevokedInv, NoneRevokedPays
  <2>2. NoneRevokedPays'
    BY <1>2, <1>7, <2>1 DEF NoneRevokedPays, Stopped
  <2>3. RevokedCall(c)'
    BY <1>0, <1>2, <1>6, <1>7, <2>1 DEF RevokedCall, At
  <2> QED  BY <2>2, <2>3
<1>12. ASSUME causes' \subseteq {"retired"} PROVE StepCall(c)'
  <2>1. StepCall(c)
    BY <1>3, <1>12 DEF IInv, StepInv
  <2>2. Assets = {call[c].asset}
    BY <1>3, <1>12
  <2>3. InStep(s)'
    BY <1>0, <1>2, <2>1, <2>2 DEF StepCall, InStep
  <2> QED  BY <1>2, <1>6, <1>7, <2>1, <2>3 DEF StepCall
<1>13. "overlap" \notin causes' => Alone(c)
  BY <1>2, <1>3, BusyAlone
<1>14. AloneInv' /\ RevokedInv' /\ StepInv'
  BY <1>1, <1>3, <1>6, <1>11, <1>12, <1>13, CallMoves
<1> QED  BY <1>8, <1>9, <1>10, <1>14 DEF IInv

LEMMA ListKeeps ==
    ASSUME IInv, NEW c \in Calls, listOthers(c)
    PROVE  IInv'
<1> DEFINE s == call[c].key
           o == Others(c)
           g == [call[c] EXCEPT !.pc = IF o = {} THEN "save" ELSE "retire", !.todo = o]
<1>1. /\ call' = [call EXCEPT ![c] = g] /\ call[c].pc = "list" /\ Busy(c)
      /\ UNCHANGED <<now, chain, db, memory, minted, causes>>
  BY DEF listOthers, At, Busy
<1>2. /\ call \in [Calls -> CallStates] /\ call[c] \in CallStates /\ causes \subseteq Events
      /\ o \subseteq 0..minted /\ s \notin o /\ listActive = o \cup (listActive \cap {s})
  BY ActiveAreMinted DEF IInv, TypeInv, StateType, Others
<1> HIDE DEF o
<1>3. /\ g \in CallStates /\ g.todo = o /\ g.key = s /\ g.asset = call[c].asset
      /\ g.copy = call[c].copy /\ (o = {} => g.pc = "save") /\ (o # {} => g.pc = "retire")
  BY <1>1, <1>2 DEF CallStates, CallType, Steps
<1> HIDE DEF g
<1>4. /\ call'[c] = g /\ \A d \in Calls : d # c => call'[d] = call[d]
      /\ listActive' = listActive /\ bindable' = bindable /\ keys' = keys /\ mandate' = mandate
      /\ bound' = bound /\ signers' = signers /\ installed' = installed
  BY <1>1, <1>2 DEF bindable, listActive, db, chain
<1>5. TypeInv'
  BY <1>1, <1>2, <1>3, TypeStays
<1>6. CountInv'
  BY <1>1, <1>3, CountMoves
<1>7. PairsInv'
  <2> SUFFICES ASSUME "died" \notin causes', NEW j \in bindable', NEW k \in bindable', j # k
               PROVE  \E d \in Calls : WillRetire(d, j, k)' \/ WillRetire(d, k, j)'
    BY DEF PairsInv
  <2>1. PICK d \in Calls : WillRetire(d, j, k) \/ WillRetire(d, k, j)
    BY <1>1, <1>4 DEF IInv, PairsInv
  <2>2. CASE d # c
    <3>1. call'[d] = call[d]
      BY <1>4, <2>2
    <3> QED  BY <2>1, <3>1 DEF WillRetire, At
  <2>3. CASE d = c
    <3>1. s \in {j, k}
      BY <2>1, <2>3 DEF WillRetire
    <3>2. j \in listActive /\ k \in listActive
      BY <1>4 DEF bindable
    <3>3. (j = s => k \in o) /\ (k = s => j \in o)
      BY <3>2 DEF o, Others
    <3> QED  BY <1>3, <1>4, <3>1, <3>3 DEF WillRetire, At
  <2> QED  BY <2>2, <2>3
<1>8. causes' \cap {"overlap", "retired"} = {} => NoneRevokedPays' /\ RevokedCall(c)'
  <2> SUFFICES ASSUME causes' \cap {"overlap", "retired"} = {}
               PROVE  NoneRevokedPays' /\ RevokedCall(c)'
    OBVIOUS
  <2>1. NoneRevokedPays /\ RevokedCall(c)
    BY <1>1 DEF IInv, RevokedInv, NoneRevokedPays
  <2>2. NoneRevokedPays'
    BY <1>4, <2>1 DEF NoneRevokedPays
  <2>3. RevokedCall(c)'
    BY <1>1, <1>2, <1>3, <1>4, <2>1 DEF RevokedCall, At
  <2> QED  BY <2>2, <2>3
<1>9. ASSUME causes' \subseteq {"retired"} PROVE StepCall(c)'
  <2>1. call[c].copy.until = mandate[call[c].asset].until /\ InStep(call[c].key)
    BY <1>1, <1>9 DEF IInv, StepInv, StepCall
  <2>2. \A k : InStep(k) => InStep(k)'
    BY <1>4 DEF InStep
  <2>4. InStep(call[c].key)'
    BY <1>3, <1>4, <2>1 DEF InStep
  <2>5. o = {} => AllInStep'
    <3> SUFFICES ASSUME o = {}, NEW k \in bindable PROVE InStep(k)'
      BY <1>4 DEF AllInStep
    <3>1. k = call[c].key
      BY <1>2 DEF bindable
    <3> QED  BY <2>1, <2>2, <3>1
  <2>6. listActive' \subseteq g.todo \cup {g.key}
    BY <1>2, <1>3, <1>4
  <2> QED  BY <1>3, <1>4, <2>1, <2>4, <2>5, <2>6 DEF StepCall
<1>10. "overlap" \notin causes' => Alone(c)
  BY <1>1, BusyAlone
<1>11. AloneInv' /\ RevokedInv' /\ StepInv'
  BY <1>1, <1>3, <1>8, <1>9, <1>10, CallMoves
<1> QED  BY <1>5, <1>6, <1>7, <1>11 DEF IInv

\* The row of a key that is there is marked.
LEMMA RetiredTyped ==
    ASSUME IInv, NEW k \in 0..minted, NEW t \in Stopped, Marked(k, t),
           UNCHANGED <<now, chain, minted>>, causes' \subseteq Events
    PROVE  /\ StateType' /\ k \in Keys /\ minted \in Nat /\ minted <= minted'
           /\ keys'[k] = t /\ \A j \in Keys : j # k => keys'[j] = keys[j]
           /\ listActive' = listActive \ {k} /\ bindable' = bindable \ {k}
           /\ mandate' = mandate /\ installed' = installed /\ bound' = bound
           /\ signers' = signers
<1>1. 0..minted \subseteq Keys /\ minted \in Nat
  BY KeysAreNumbers DEF IInv, TypeInv, StateType
<1>2. /\ keys' = [keys EXCEPT ![k] = t] /\ cache' = cache \ {k}
      /\ mandate' = mandate /\ unlocked' = unlocked
      /\ now' = now /\ installed' = installed /\ bound' = bound /\ signers' = signers
      /\ minted' = minted
  BY DEF Marked, chain
<1>3. /\ keys' \in [Keys -> {"absent", "active", "retired", "revoked"}] /\ keys'[k] = t
      /\ \A j \in Keys : j # k => keys'[j] = keys[j]
  BY <1>1, <1>2 DEF IInv, TypeInv, StateType, Stopped
<1>4. \A j \in Keys : keys'[j] # "absent" => j <= minted
  BY <1>1, <1>3 DEF IInv, TypeInv, StateType
<1>5. StateType'
  BY <1>2, <1>3, <1>4 DEF IInv, TypeInv, StateType
<1>6. listActive' = listActive \ {k}
  BY <1>1, <1>3 DEF listActive, Stopped
<1> QED  BY <1>1, <1>2, <1>3, <1>5, <1>6 DEF bindable

\* What is marked may have been revoked by the owner before.
LEMMA RetiredMarks ==
    ASSUME NEW k, Retired(k)
    PROVE  \E t \in Stopped : Marked(k, t)
BY DEF Retired, Stopped

LEMMA RetireOtherKeeps ==
    ASSUME IInv, NEW c \in Calls, retireOther(c)
    PROVE  IInv'
<1>1. PICK r \in call[c].todo :
          /\ Retired(r)
          /\ call' = [call EXCEPT ![c].pc = IF call[c].todo \ {r} = {} THEN "save" ELSE "retire",
                                  ![c].todo = call[c].todo \ {r}]
  BY DEF retireOther
<1> DEFINE left == call[c].todo \ {r}
           s == call[c].key
           g == [call[c] EXCEPT !.pc = IF left = {} THEN "save" ELSE "retire", !.todo = left]
<1>2. /\ call' = [call EXCEPT ![c] = g] /\ call[c].pc = "retire" /\ Busy(c)
      /\ UNCHANGED <<now, chain, minted, causes>>
  BY <1>1 DEF retireOther, At, Busy
<1>3. /\ call \in [Calls -> CallStates] /\ call[c] \in CallStates /\ causes \subseteq Events
      /\ r \in 0..minted /\ left \subseteq 0..minted
  BY <1>1 DEF IInv, TypeInv, StateType, CallStates, CallType
<1>4. /\ g \in CallStates /\ g.todo = left /\ g.key = s /\ g.asset = call[c].asset
      /\ g.copy = call[c].copy /\ (left = {} => g.pc = "save") /\ (left # {} => g.pc = "retire")
  <2> HIDE DEF left
  <2> QED  BY <1>2, <1>3 DEF CallStates, CallType, Steps
<1> HIDE DEF g
<1>5. /\ call'[c] = g /\ \A d \in Calls : d # c => call'[d] = call[d]
  BY <1>2, <1>3
<1>6. /\ StateType' /\ r \in Keys /\ minted \in Nat /\ minted <= minted'
      /\ keys'[r] \in Stopped /\ \A j \in Keys : j # r => keys'[j] = keys[j]
      /\ listActive' = listActive \ {r} /\ bindable' = bindable \ {r}
      /\ mandate' = mandate /\ installed' = installed /\ bound' = bound
      /\ signers' = signers
  <2>1. PICK t \in Stopped : Marked(r, t)
    BY <1>1, RetiredMarks
  <2> QED  BY <1>2, <1>3, <2>1, RetiredTyped
<1>7. TypeInv'
  <2>1. g \in CallStates'
    BY <1>4, <1>6, <1>2, CallsGrow
  <2> QED  BY <1>2, <1>6, <2>1, TypeMoves
<1>8. CountInv'
  BY <1>2, <1>4, CountMoves
<1>9. PairsInv'
  <2> SUFFICES ASSUME "died" \notin causes', NEW j \in bindable', NEW k \in bindable', j # k
               PROVE  \E d \in Calls : WillRetire(d, j, k)' \/ WillRetire(d, k, j)'
    BY DEF PairsInv
  <2>1. j \in bindable /\ k \in bindable /\ j # r /\ k # r
    BY <1>6
  <2>2. PICK d \in Calls : WillRetire(d, j, k) \/ WillRetire(d, k, j)
    BY <1>2, <2>1 DEF IInv, PairsInv
  <2>3. CASE d # c
    <3>1. call'[d] = call[d]
      BY <1>5, <2>3
    <3> QED  BY <2>2, <3>1 DEF WillRetire, At
  <2>4. CASE d = c
    <3>1. (s = j /\ k \in left) \/ (s = k /\ j \in left)
      BY <1>2, <2>1, <2>2, <2>4 DEF WillRetire, At
    <3>2. call'[c].key = s /\ call'[c].todo = left /\ call'[c].pc = "retire"
      BY <1>4, <1>5, <3>1
    <3> HIDE DEF left
    <3> QED  BY <3>1, <3>2 DEF WillRetire, At
  <2> QED  BY <2>3, <2>4
<1>10. causes' \cap {"overlap", "retired"} = {} => NoneRevokedPays' /\ RevokedCall(c)'
  <2> SUFFICES ASSUME causes' \cap {"overlap", "retired"} = {}
               PROVE  NoneRevokedPays' /\ RevokedCall(c)'
    OBVIOUS
  <2>1. NoneRevokedPays /\ RevokedCall(c)
    BY <1>2 DEF IInv, RevokedInv, NoneRevokedPays
  <2>2. s = bound.key /\ s \notin call[c].todo /\ r # s
    BY <1>1, <1>2, <2>1 DEF RevokedCall, At
  <2>3. NoneRevokedPays'
    BY <1>6, <2>1, <2>2 DEF NoneRevokedPays
  <2>4. RevokedCall(c)'
    BY <1>4, <1>5, <1>6, <2>2 DEF RevokedCall, At
  <2> QED  BY <2>3, <2>4
<1>11. ASSUME causes' \subseteq {"retired"} PROVE StepCall(c)'
  <2>1. /\ call[c].copy.until = mandate[call[c].asset].until /\ InStep(call[c].key)
        /\ listActive \subseteq call[c].todo \cup {call[c].key}
    BY <1>2, <1>11 DEF IInv, StepInv, StepCall
  <2>2. \A k : InStep(k) => InStep(k)'
    BY <1>6 DEF InStep
  <2>3. InStep(call[c].key)'
    BY <1>4, <1>5, <1>6, <2>1 DEF InStep
  <2>4. listActive' \subseteq left \cup {call[c].key}
    BY <1>6, <2>1
  <2>5. left = {} => AllInStep'
    <3> SUFFICES ASSUME left = {}, NEW k \in bindable' PROVE InStep(k)'
      BY DEF AllInStep
    <3>1. k = call[c].key
      BY <2>4 DEF bindable
    <3> QED  BY <2>1, <2>2, <3>1
  <2> HIDE DEF left
  <2> QED  BY <1>4, <1>5, <1>6, <2>1, <2>3, <2>4, <2>5 DEF StepCall
<1>12. "overlap" \notin causes' => Alone(c)
  BY <1>2, BusyAlone
<1>13. AloneInv' /\ RevokedInv' /\ StepInv'
  BY <1>2, <1>4, <1>10, <1>11, <1>12, CallMoves
<1> QED  BY <1>7, <1>8, <1>9, <1>13 DEF IInv

LEMMA RetireFailedKeeps ==
    ASSUME IInv, NEW c \in Calls, retireFailed(c)
    PROVE  IInv'
<1> DEFINE r == call[c].existing
           g == [call[c] EXCEPT !.pc = "reread"]
<1>1. /\ call' = [call EXCEPT ![c] = g] /\ call[c].pc = "retireFailed" /\ Busy(c)
      /\ Retired(r) /\ causes' = causes \cup {"retired"} /\ UNCHANGED <<now, chain, minted>>
  BY DEF retireFailed, At, Busy, Goes, Noted
<1>2. /\ call \in [Calls -> CallStates] /\ call[c] \in CallStates /\ causes' \subseteq Events
      /\ r \in 0..minted
  <2>1. /\ call \in [Calls -> CallStates] /\ call[c] \in CallStates /\ causes \subseteq Events
    BY DEF IInv, TypeInv, StateType
  <2>2. r \in 1..minted
    BY <1>1, <2>1 DEF CallStates, CallType
  <2> QED  BY <1>1, <2>1, <2>2 DEF Events, IInv, TypeInv, StateType
<1>3. /\ g \in CallStates /\ g.pc = "reread"
  BY <1>2 DEF CallStates, CallType, Steps
<1> HIDE DEF g
<1>4. call'[c] = g
  BY <1>1, <1>2
<1>5. /\ StateType' /\ minted \in Nat /\ minted <= minted'
      /\ \A j \in Keys : keys'[j] = "active" => keys[j] = "active"
      /\ bindable' = bindable \ {r}
  <2>1. PICK t \in Stopped : Marked(r, t)
    BY <1>1, RetiredMarks
  <2>2. /\ keys'[r] = t /\ \A j \in Keys : j # r => keys'[j] = keys[j]
        /\ StateType' /\ minted \in Nat /\ minted <= minted' /\ bindable' = bindable \ {r}
    BY <1>1, <1>2, <2>1, RetiredTyped
  <2> QED  BY <2>2 DEF Stopped
<1>6. TypeInv'
  <2>1. g \in CallStates'
    BY <1>1, <1>3, <1>5, CallsGrow
  <2> QED  BY <1>1, <1>5, <2>1, TypeMoves
<1>7. CountInv' /\ PairsInv'
  BY <1>1, <1>3, <1>5, CountMoves, PairsMoves
<1>8. ASSUME causes' \subseteq {"retired"} PROVE StepCall(c)'
  <2>1. bindable \subseteq {r}
    BY <1>1, <1>8 DEF IInv, StepInv, StepCall
  <2> QED  BY <1>3, <1>4, <1>5, <2>1 DEF StepCall
<1>9. "overlap" \notin causes' => Alone(c)
  BY <1>1, BusyAlone
<1>10. AloneInv' /\ RevokedInv' /\ StepInv'
  BY <1>1, <1>3, <1>8, <1>9, CallMoves
<1> QED  BY <1>6, <1>7, <1>10 DEF IInv

LEMMA SaveKeeps ==
    ASSUME IInv, NEW c \in Calls, writeAllowance(c)
    PROVE  IInv'
<1> DEFINE a == call[c].asset
           r == call[c].copy
<1>1. /\ mandate' = [mandate EXCEPT ![a] = r] /\ call' = [call EXCEPT ![c] = NoCall]
      /\ call[c].pc = "save" /\ Busy(c)
      /\ now' = now /\ installed' = installed /\ bound' = bound /\ signers' = signers
      /\ keys' = keys /\ unlocked' = unlocked /\ cache' = cache /\ minted' = minted
      /\ causes' = causes
  BY DEF writeAllowance, At, Ends, Busy, chain, memory
<1>2. /\ call \in [Calls -> CallStates] /\ a \in Assets /\ r \in RowType
      /\ mandate \in [Assets -> RowType] /\ minted \in Nat /\ minted <= minted'
  BY <1>1 DEF IInv, TypeInv, StateType, CallStates, CallType
<1> HIDE DEF a, r
<1>3. /\ mandate' \in [Assets -> RowType] /\ mandate'[a] = r /\ call'[c] = NoCall
      /\ \A b \in Assets : b # a => mandate'[b] = mandate[b]
  BY <1>1, <1>2
<1>4. TypeInv'
  <2>1. StateType'
    BY <1>1, <1>3 DEF IInv, TypeInv, StateType
  <2>2. NoCall \in CallStates'
    BY <1>1, <1>2, NoCallIsCall, CallsGrow
  <2> QED  BY <1>1, <1>2, <2>1, <2>2, TypeMoves
<1>5. CountInv' /\ PairsInv'
  BY <1>1, NoCallIsCall, CountMoves, PairsMoves
<1>6. causes' \cap {"overlap", "retired"} = {} => NoneRevokedPays'
  BY <1>1 DEF IInv, RevokedInv, NoneRevokedPays
<1>7. ASSUME causes' \subseteq {"retired"} PROVE AllInStep'
  <2>1. AllInStep /\ r.until = mandate[a].until
    BY <1>1, <1>7 DEF IInv, StepInv, StepCall, a, r
  <2>2. \A b \in Assets : mandate'[b].until = mandate[b].until
    BY <1>3, <2>1
  <2> QED  BY <1>1, <2>1, <2>2 DEF AllInStep, InStep, bindable, listActive
<1>8. RevokedCall(c)' /\ StepCall(c)'
  BY <1>3, NoCallIsCall DEF RevokedCall, StepCall, At
<1>9. "overlap" \notin causes' => Alone(c)
  BY <1>1, BusyAlone
<1>10. AloneInv' /\ RevokedInv' /\ StepInv'
  BY <1>1, <1>6, <1>7, <1>8, <1>9, CallMoves
<1> QED  BY <1>4, <1>5, <1>10 DEF IInv

--------------------------------------------------------------------------------
(* The owner removes keys *)

LEMMA RemoveKeeps ==
    ASSUME IInv, NEW c \in Calls, buildRemoveSubKeyTransaction(c)
    PROVE  IInv'
<1>0. PICK r : r = Min(call[c].todo)
  OBVIOUS
<1> DEFINE g == [call[c] EXCEPT !.pc = "removed"]
<1>1. PICK o \in Outcomes :
          /\ signers' = IF o = "fails" THEN signers ELSE [signers EXCEPT ![r].until = NoExpiry]
          /\ causes' = causes \cup IF o = "unreported" THEN {"unreported"} ELSE {}
          /\ call' = IF o = "lands" THEN [call EXCEPT ![c] = g]
                     ELSE [call EXCEPT ![c] = NoCall]
  BY <1>0 DEF buildRemoveSubKeyTransaction, Noted, Removed, Goes, Ends
<1>2. /\ call \in [Calls -> CallStates] /\ call[c] \in CallStates
      /\ call[c].pc = "remove" /\ Busy(c) /\ minted' = minted /\ now' = now
      /\ installed' = installed /\ bound' = bound
      /\ keys' = keys /\ mandate' = mandate /\ unlocked' = unlocked /\ cache' = cache
  BY DEF IInv, TypeInv, buildRemoveSubKeyTransaction, At, Busy, db, memory
<1>3. /\ minted \in Nat /\ minted <= minted'
      /\ signers \in [Keys -> [asset : Assets, until : Int]]
      /\ causes \subseteq causes' /\ causes' \subseteq Events
  BY <1>1, <1>2 DEF IInv, TypeInv, StateType, Events
<1>4. r \in call[c].todo /\ r \in Keys
  <2>1. call[c].todo \subseteq 0..minted /\ call[c].todo # {} /\ 0..minted \subseteq Keys
    BY <1>2, KeysAreNumbers DEF IInv, CallStates, CallType
  <2>2. call[c].todo \subseteq Nat
    BY <1>3, <2>1
  <2> QED  BY <1>0, <2>1, <2>2, MinIsIn
<1>5. /\ g \in CallStates /\ g.pc = "removed" /\ g.todo = call[c].todo
  BY <1>2 DEF CallStates, CallType, Steps
<1> HIDE DEF g
<1>6. /\ signers' \in [Keys -> [asset : Assets, until : Int]]
      /\ \A k \in Keys : k # r => signers'[k] = signers[k]
      /\ o # "fails" => signers'[r].until = NoExpiry
      /\ o = "fails" => signers' = signers
  <2>1. [signers EXCEPT ![r].until = NoExpiry] \in [Keys -> [asset : Assets, until : Int]]
    BY <1>3, <1>4 DEF NoExpiry
  <2> QED  BY <1>1, <1>3, <1>4, <2>1
<1>7. PICK q \in CallStates :
         /\ call' = [call EXCEPT ![c] = q] /\ call'[c] = q
         /\ o = "lands" => q.pc = "removed" /\ q.todo = call[c].todo
         /\ o # "lands" => q.pc = "idle"
  BY <1>1, <1>2, <1>5, NoCallIsCall
<1>8. q.pc \in {"removed", "idle"}
  BY <1>7
<1>9. TypeInv'
  <2>1. StateType'
    BY <1>2, <1>3, <1>6 DEF IInv, TypeInv, StateType
  <2>2. q \in CallStates'
    BY <1>2, <1>3, CallsGrow
  <2> QED  BY <1>3, <1>7, <2>1, <2>2, TypeMoves
<1>10. CountInv' /\ PairsInv'
  BY <1>2, <1>3, <1>7, <1>8, CountMoves, PairsMoves
<1>11. causes' \cap {"overlap", "retired"} = {} => NoneRevokedPays' /\ RevokedCall(c)'
  <2> SUFFICES ASSUME causes' \cap {"overlap", "retired"} = {}
               PROVE  NoneRevokedPays' /\ RevokedCall(c)'
    OBVIOUS
  <2>1. NoneRevokedPays
    BY <1>3 DEF IInv, RevokedInv, NoneRevokedPays
  <2>2. NoneRevokedPays'
    BY <1>2, <1>6, <2>1 DEF NoneRevokedPays
  <2>3. RevokedCall(c)'
    BY <1>0, <1>6, <1>7 DEF RevokedCall, At
  <2> QED  BY <2>2, <2>3
<1>12. ASSUME causes' \subseteq {"retired"}
       PROVE  StepCall(c)' /\ (q.pc \in {"idle", "shown"} => AllInStep')
  <2>1. AllInStep /\ o # "unreported"
    BY <1>1, <1>2, <1>12 DEF IInv, StepInv, StepCall
  <2>2. bindable' = bindable
    BY <1>2 DEF bindable, listActive
  <2>3. CASE o = "lands"
    <3>1. \A k \in bindable \ {r} : InStep(k)'
      BY <1>2, <1>6, <2>1 DEF AllInStep, InStep, bindable, listActive
    <3> QED  BY <1>0, <1>7, <2>2, <2>3, <3>1 DEF StepCall
  <2>4. CASE o = "fails"
    <3>1. AllInStep'
      BY <1>2, <1>6, <2>1, <2>2, <2>4 DEF AllInStep, InStep
    <3> QED  BY <1>7, <2>4, <3>1 DEF StepCall
  <2> QED  BY <2>1, <2>3, <2>4 DEF Outcomes
<1>13. "overlap" \notin causes' => Alone(c)
  BY <1>2, <1>3, BusyAlone
<1>14. AloneInv' /\ RevokedInv' /\ StepInv'
  BY <1>3, <1>7, <1>11, <1>12, <1>13, CallMoves
<1> QED  BY <1>9, <1>10, <1>14 DEF IInv

LEMMA MarkRevokedKeeps ==
    ASSUME IInv, NEW c \in Calls, markRevoked(c)
    PROVE  IInv'
<1>0. PICK r : r = Min(call[c].todo)
  OBVIOUS
<1> DEFINE left == call[c].todo \ {r}
           p == IF call[c].todo = {r} THEN "status" ELSE "remove"
           g == [call[c] EXCEPT !.pc = p, !.todo = left]
<1>1. /\ call' = [call EXCEPT ![c] = g] /\ call[c].pc = "removed" /\ Busy(c)
      /\ Marked(r, "revoked") /\ UNCHANGED <<now, chain, minted, causes>>
  BY <1>0 DEF markRevoked, At, Busy
<1>2. /\ call \in [Calls -> CallStates] /\ call[c] \in CallStates /\ causes \subseteq Events
      /\ call[c].todo \subseteq 0..minted /\ call[c].todo # {} /\ minted \in Nat
  BY <1>1 DEF IInv, TypeInv, StateType, CallStates, CallType
<1>3. r \in 0..minted /\ r \in call[c].todo
  <2>1. call[c].todo \subseteq Nat
    BY <1>2
  <2> QED  BY <1>0, <1>2, <2>1, MinIsIn
<1>4. /\ g \in CallStates /\ g.pc \in {"status", "remove"}
  <2>1. p \in {"status", "remove"} /\ (p = "remove" => left # {})
    BY <1>3
  <2>2. left \subseteq 0..minted
    BY <1>2
  <2> HIDE DEF p, left
  <2> QED  BY <1>2, <2>1, <2>2 DEF CallStates, CallType, Steps
<1> HIDE DEF g
<1>5. call'[c] = g
  BY <1>1, <1>2
<1>6. /\ StateType' /\ r \in Keys /\ minted \in Nat /\ minted <= minted'
      /\ keys'[r] = "revoked" /\ \A j \in Keys : j # r => keys'[j] = keys[j]
      /\ bindable' = bindable \ {r}
      /\ mandate' = mandate /\ installed' = installed /\ bound' = bound
      /\ signers' = signers
  BY <1>1, <1>2, <1>3, RetiredTyped DEF Stopped
<1>7. TypeInv'
  <2>1. g \in CallStates'
    BY <1>1, <1>4, <1>6, CallsGrow
  <2> QED  BY <1>1, <1>6, <2>1, TypeMoves
<1>8. CountInv' /\ PairsInv'
  <2>1. \A j \in Keys : keys'[j] = "active" => keys[j] = "active"
    BY <1>6
  <2> QED  BY <1>1, <1>4, <2>1, CountMoves, PairsMoves
<1>9. causes' \cap {"overlap", "retired"} = {} => NoneRevokedPays' /\ RevokedCall(c)'
  <2> SUFFICES ASSUME causes' \cap {"overlap", "retired"} = {}
               PROVE  NoneRevokedPays' /\ RevokedCall(c)'
    OBVIOUS
  <2>1. NoneRevokedPays /\ RevokedCall(c)
    BY <1>1 DEF IInv, RevokedInv, NoneRevokedPays
  <2>2. signers[r].until = NoExpiry
    BY <1>0, <1>1, <2>1 DEF RevokedCall, At
  <2>3. NoneRevokedPays'
    BY <1>6, <2>1, <2>2 DEF NoneRevokedPays
  <2>4. RevokedCall(c)'
    BY <1>4, <1>5 DEF RevokedCall, At
  <2> QED  BY <2>3, <2>4
<1>10. ASSUME causes' \subseteq {"retired"} PROVE StepCall(c)'
  <2>1. \A k \in bindable \ {r} : InStep(k)
    BY <1>0, <1>1, <1>10 DEF IInv, StepInv, StepCall
  <2>2. AllInStep'
    BY <1>6, <2>1 DEF AllInStep, InStep
  <2> QED  BY <1>4, <1>5, <2>2 DEF StepCall
<1>11. "overlap" \notin causes' => Alone(c)
  BY <1>1, BusyAlone
<1>12. AloneInv' /\ RevokedInv' /\ StepInv'
  BY <1>1, <1>4, <1>9, <1>10, <1>11, CallMoves
<1> QED  BY <1>7, <1>8, <1>12 DEF IInv

--------------------------------------------------------------------------------
(* The session, the worker and the clock *)

\* A step of no call leaves what is known of calls and keys as it is.
LEMMA CallsStay ==
    ASSUME IInv, UNCHANGED <<chain, db, minted, call, causes>>, now' \in 0..MaxTime, now <= now',
           unlocked' \in BOOLEAN, cache' \subseteq Keys
    PROVE  IInv'
<1>1. /\ installed' = installed /\ bound' = bound /\ signers' = signers /\ keys' = keys
      /\ mandate' = mandate /\ minted' = minted /\ call' = call /\ causes' = causes
  BY DEF chain, db
<1>2. TypeInv'
  <2>1. StateType'
    BY <1>1 DEF IInv, TypeInv, StateType
  <2>2. CallStates' = CallStates
    BY <1>1 DEF CallStates, CallType
  <2> QED  BY <1>1, <2>1, <2>2 DEF IInv, TypeInv
<1>3. bindable' = bindable /\ listActive' = listActive /\ (AllInStep' <=> AllInStep)
  BY <1>1 DEF AllInStep, InStep, bindable, listActive
<1>4. CountInv'
  BY <1>1 DEF IInv, CountInv, Minting, Busy
<1>5. AloneInv'
  BY <1>1 DEF IInv, AloneInv, Busy
<1>6. PairsInv'
  BY <1>1, <1>3 DEF IInv, PairsInv, WillRetire, At
<1>7. RevokedInv'
  BY <1>1 DEF IInv, RevokedInv, RevokedCall, At
<1>8. StepInv'
  <2>1. Quiet' <=> Quiet
    BY <1>1 DEF Quiet, Busy
  <2>2. \A k : InStep(k)' <=> InStep(k)
    BY <1>1 DEF InStep
  <2>3. ASSUME NEW c \in Calls, StepCall(c) PROVE StepCall(c)'
    <3>1. now \in Nat /\ now' \in Nat /\ MandateTicks \in Nat
      BY LifecycleAssumption DEF IInv, TypeInv, StateType
    <3>2. call[c].asset \in Assets
      BY DEF IInv, TypeInv, CallStates, CallType
    <3>3. mandate[call[c].asset].until \in Int
      BY <3>2, RowIsTyped DEF IInv, RowType
    <3>4. mandate[call[c].asset].until <= now + MandateTicks =>
             mandate[call[c].asset].until <= now' + MandateTicks
      BY <3>1, <3>3
    <3> QED  BY <1>1, <1>3, <2>2, <2>3, <3>4 DEF StepCall
  <2> QED  BY <1>1, <1>3, <2>1, <2>3 DEF IInv, StepInv
<1> QED  BY <1>2, <1>4, <1>5, <1>6, <1>7, <1>8 DEF IInv

LEMMA SessionKeeps ==
    ASSUME IInv, unlock \/ lock \/ Tick
    PROVE  IInv'
<1>1. /\ now \in 0..MaxTime /\ cache \subseteq Keys /\ unlocked \in BOOLEAN
  BY DEF IInv, TypeInv, StateType
<1>2. CASE unlock
  <2>1. /\ unlocked' = TRUE /\ cache' = cache \cup listActive /\ now' = now
        /\ UNCHANGED <<chain, db, minted, call, causes>>
    BY <1>2 DEF unlock
  <2>2. unlocked' \in BOOLEAN
    BY <2>1
  <2>3. cache' \subseteq Keys /\ now' \in 0..MaxTime /\ now <= now'
    BY <1>1, <2>1, LifecycleAssumption DEF listActive
  <2> QED  BY <2>1, <2>2, <2>3, CallsStay
<1>3. CASE lock
  <2>1. /\ unlocked' = FALSE /\ cache' \in {{}, cache} /\ now' = now
        /\ UNCHANGED <<chain, db, minted, call, causes>>
    BY <1>3 DEF lock
  <2>2. unlocked' \in BOOLEAN
    BY <2>1
  <2>3. cache' \subseteq Keys /\ now' \in 0..MaxTime /\ now <= now'
    BY <1>1, <2>1, LifecycleAssumption
  <2> QED  BY <2>1, <2>2, <2>3, CallsStay
<1>4. CASE Tick
  <2>1. /\ now < MaxTime /\ now' = now + 1 /\ unlocked' = unlocked /\ cache' = cache
        /\ UNCHANGED <<chain, db, minted, call, causes>>
    BY <1>4 DEF Tick, memory
  <2>2. unlocked' \in BOOLEAN
    BY <1>1, <2>1
  <2>3. cache' \subseteq Keys /\ now' \in 0..MaxTime /\ now <= now'
    BY <1>1, <2>1, LifecycleAssumption
  <2> QED  BY <2>1, <2>2, <2>3, CallsStay
<1> QED  BY <1>2, <1>3, <1>4

LEMMA DeathKeeps ==
    ASSUME IInv, WorkerDies
    PROVE  IInv'
<1> DEFINE e == IF Quiet THEN {} ELSE {"died"}
<1>1. /\ unlocked' = FALSE /\ cache' = {} /\ call' = [c \in Calls |-> NoCall]
      /\ causes' = causes \cup e
      /\ now' = now /\ installed' = installed /\ bound' = bound /\ signers' = signers
      /\ keys' = keys /\ mandate' = mandate /\ minted' = minted
  BY DEF WorkerDies, Noted, chain, db
<1>2. causes \subseteq causes' /\ causes' \subseteq Events
      /\ ("died" \notin causes' => Quiet)
  BY <1>1 DEF IInv, TypeInv, StateType, Events
<1> HIDE DEF e
<1>3. \A c \in Calls : call'[c] = NoCall /\ call'[c].pc = "idle" /\ ~Busy(c)'
  BY <1>1, NoCallIsCall DEF Busy
<1>4. bindable' = bindable /\ (AllInStep' <=> AllInStep)
  BY <1>1 DEF AllInStep, InStep, bindable, listActive
<1>5. TypeInv'
  <2>1. unlocked' \in BOOLEAN
    BY <1>1
  <2>2. StateType'
    BY <1>1, <1>2, <2>1 DEF IInv, TypeInv, StateType
  <2>3. CallStates' = CallStates
    BY <1>1 DEF CallStates, CallType
  <2> QED  BY <1>1, <2>2, <2>3, NoCallIsCall DEF TypeInv
<1>6. CountInv'
  <2>1. {c \in Calls : Busy(c)}' = {} /\ Minting' = {}
    BY <1>3 DEF Minting
  <2>2. Cardinality({}) = 0 /\ IsFiniteSet({})
    BY FS_EmptySet
  <2>3. Cardinality(Minting) \in Nat
    <3>1. Minting \subseteq {c \in Calls : Busy(c)}
      BY DEF Minting, Busy
    <3> QED  BY <3>1, FS_Subset, FS_CardinalityType DEF IInv, CountInv
  <2>4. minted \in Nat /\ minted + Cardinality(Minting) <= MaxKeys
    BY DEF IInv, TypeInv, StateType, CountInv
  <2>5. minted' + 0 <= MaxKeys
    BY <1>1, <2>3, <2>4, LifecycleAssumption
  <2> QED  BY <2>1, <2>2, <2>5 DEF CountInv
<1>7. AloneInv'
  BY <1>3 DEF AloneInv
<1>8. PairsInv'
  <2> SUFFICES ASSUME "died" \notin causes', NEW j \in bindable, NEW k \in bindable, j # k
               PROVE  FALSE
    BY <1>4 DEF PairsInv
  <2>1. PICK c \in Calls : WillRetire(c, j, k) \/ WillRetire(c, k, j)
    BY <1>2 DEF IInv, PairsInv
  <2> QED  BY <1>2, <2>1 DEF Quiet, Busy, WillRetire, At
<1>9. RevokedInv'
  <2>1. \A c \in Calls : RevokedCall(c)'
    BY <1>3 DEF RevokedCall, At
  <2> QED  BY <1>1, <1>2, <2>1 DEF IInv, RevokedInv
<1>10. StepInv'
  <2>1. \A c \in Calls : StepCall(c)'
    BY <1>3 DEF StepCall
  <2>2. causes' \subseteq {"retired"} => AllInStep'
    BY <1>2, <1>4 DEF IInv, StepInv
  <2> QED  BY <2>1, <2>2 DEF StepInv
<1> QED  BY <1>5, <1>6, <1>7, <1>8, <1>9, <1>10 DEF IInv

--------------------------------------------------------------------------------
(* The invariant *)

LEMMA StepKeeps == IInv /\ [Next]_vars => IInv'
<1> SUFFICES ASSUME IInv, [Next]_vars PROVE IInv'
  OBVIOUS
<1>1. ASSUME NEW c \in Calls, CallBegins(c) PROVE IInv'
  BY <1>1, ShowsKeeps, ApprovesKeeps, PauseKeeps, RevokeKeeps DEF CallBegins
<1>2. ASSUME NEW c \in Calls, CallStep(c) PROVE IInv'
  <2>1. CASE promoteAllowance(c) \/ refreshReadsRow(c) \/ findActiveSubKeyForMerchant(c)
             \/ ensurePolicyInstalled(c) \/ setAllowance(c) \/ buildAddSubKeyTransaction(c)
    BY <2>1, PromoteKeeps, ReadsRowKeeps, FindKeeps, InstallKeeps, GrantKeeps, AddKeeps
  <2>2. CASE writeSubKey(c) \/ listOthers(c) \/ retireOther(c) \/ retireFailed(c)
             \/ refreshRereadsRow(c) \/ writeAllowance(c)
    BY <2>2, WriteKeeps, ListKeeps, RetireOtherKeeps, RetireFailedKeeps, RereadsRowKeeps,
       SaveKeeps
  <2>3. CASE buildRemoveSubKeyTransaction(c) \/ markRevoked(c) \/ revokeMandate(c)
    BY <2>3, RemoveKeeps, MarkRevokedKeeps, RevokeMandateKeeps
  <2> QED  BY <1>2, <2>1, <2>2, <2>3 DEF CallStep
<1>3. CASE unlock \/ lock \/ Tick
  BY <1>3, SessionKeeps
<1>4. CASE WorkerDies
  BY <1>4, DeathKeeps
<1>5. CASE UNCHANGED vars
  <2>1. /\ UNCHANGED <<chain, db, minted, call, causes>> /\ now' = now
        /\ unlocked' = unlocked /\ cache' = cache
    BY <1>5 DEF vars, memory
  <2>2. unlocked' \in BOOLEAN
    BY <2>1 DEF IInv, TypeInv, StateType
  <2>3. now' \in 0..MaxTime /\ now <= now' /\ cache' \subseteq Keys
    BY <2>1, LifecycleAssumption DEF IInv, TypeInv, StateType
  <2> QED  BY <2>1, <2>2, <2>3, CallsStay
<1> QED  BY <1>1, <1>2, <1>3, <1>4, <1>5 DEF Next

LEMMA Invariant == Spec => []IInv
<1> QED  BY Initially, StepKeeps, PTL DEF Spec

--------------------------------------------------------------------------------
(* What the owner removed *)

Making(q) == q.pc \in {"add", "write"}

\* A call makes a key without a row yet, and replaces or removes only keys with one.
Known(q, rows, grants) ==
    /\ Making(q) => rows[q.key] = "absent"
    /\ q.pc \in {"install", "grant", "add", "write", "retireFailed"} =>
          q.existing = NoKey \/ rows[q.existing] # "absent"
    /\ q.pc \in {"retire", "remove", "removed"} => \A k \in q.todo : rows[k] # "absent"
    /\ q.pc = "removed" => grants[Min(q.todo)].until = NoExpiry

\* A key the owner removed is no signer, and no call under way can make it one again.
RemovedInv ==
    /\ \A k \in Keys : keys[k] = "revoked" => signers[k].until = NoExpiry
    /\ \A c \in Calls : Known(call[c], keys, signers)
    /\ \A c, d \in Calls : c # d /\ Making(call[c]) /\ Making(call[d]) =>
          call[c].key # call[d].key

LEMMA FieldsAreKeys ==
    ASSUME IInv, NEW c \in Calls
    PROVE  /\ call[c] \in CallStates /\ call[c] \in CallType /\ call \in [Calls -> CallStates]
           /\ call[c].existing \in Keys \cup {NoKey} /\ call[c].todo \subseteq Keys
           /\ Making(call[c]) => call[c].key \in 1..minted /\ call[c].key \in Keys
           /\ call[c].pc = "retireFailed" => call[c].existing \in Keys
           /\ call[c].pc \in {"remove", "removed"} => Min(call[c].todo) \in call[c].todo
<1>1. call[c] \in CallStates /\ call[c] \in CallType /\ call \in [Calls -> CallStates]
  BY DEF IInv, TypeInv, CallStates
<1>2. 0..minted \subseteq Keys /\ minted \in Nat
  BY KeysAreNumbers DEF IInv, TypeInv, StateType
<1>3. /\ call[c].existing \in {NoKey} \cup 1..minted /\ call[c].key \in {NoKey} \cup 1..minted
      /\ call[c].todo \in SUBSET (0..minted)
  BY <1>1 DEF CallType
<1>4. 1..minted \subseteq Keys
  BY <1>2
<1>5. call[c].pc \in {"remove", "removed"} => Min(call[c].todo) \in call[c].todo
  <2>1. call[c].todo \subseteq Nat
    BY <1>3
  <2> QED  BY <1>1, <2>1, MinIsIn DEF CallStates
<1> QED  BY <1>1, <1>2, <1>3, <1>4, <1>5 DEF CallStates, Making

\* A call of which the tables and the chain keep what it knows.
LEMMA KnownStays ==
    ASSUME IInv, NEW d \in Calls, Known(call[d], keys, signers), call'[d] = call[d],
           \A k \in Keys : keys[k] # "absent" => keys'[k] # "absent",
           \A k \in Keys : keys[k] # "absent" /\ signers[k].until = NoExpiry =>
              signers'[k].until = NoExpiry,
           Making(call[d]) => keys'[call[d].key] = keys[call[d].key]
    PROVE  Known(call[d], keys, signers)'
<1>1. Making(call[d])' => keys'[call'[d].key] = "absent"
  BY DEF Known, Making
<1>2. call[d].pc \in {"retire", "remove", "removed"} =>
         \A k \in call[d].todo : keys'[k] # "absent"
  BY FieldsAreKeys DEF Known
<1>3. call[d].pc = "removed" => signers'[Min(call[d].todo)].until = NoExpiry
  BY FieldsAreKeys DEF Known
<1>4. call[d].pc \in {"install", "grant", "add", "write", "retireFailed"} =>
         call[d].existing = NoKey \/ keys'[call[d].existing] # "absent"
  BY FieldsAreKeys DEF Known
<1> QED  BY <1>1, <1>2, <1>3, <1>4 DEF Known

LEMMA RemovedMoves ==
    ASSUME IInv, RemovedInv, NEW c \in Calls,
           \A d \in Calls : d # c => call'[d] = call[d],
           \A k \in Keys : keys[k] # "absent" => keys'[k] # "absent",
           \A k \in Keys : keys[k] # "absent" /\ signers[k].until = NoExpiry =>
              signers'[k].until = NoExpiry,
           \A d \in Calls : d # c /\ Making(call[d]) => keys'[call[d].key] = keys[call[d].key],
           \A k \in Keys : keys'[k] = "revoked" => signers'[k].until = NoExpiry,
           Known(call[c], keys, signers)',
           Making(call[c])' =>
              \A d \in Calls : d # c /\ Making(call[d]) => call[d].key # call'[c].key
    PROVE  RemovedInv'
<1>1. \A d \in Calls : Known(call[d], keys, signers)'
  <2> SUFFICES ASSUME NEW d \in Calls, d # c PROVE Known(call[d], keys, signers)'
    OBVIOUS
  <2>1. Known(call[d], keys, signers)
    BY DEF RemovedInv
  <2> QED  BY <2>1, KnownStays
<1>2. \A a, b \in Calls : a # b /\ Making(call[a])' /\ Making(call[b])' =>
         call'[a].key # call'[b].key
  BY DEF RemovedInv, Making
<1> QED  BY <1>1, <1>2 DEF RemovedInv

\* The usual case: rows and signers are as they were, and the call makes no key.
LEMMA RemovedStays ==
    ASSUME IInv, RemovedInv, NEW c \in Calls,
           \A d \in Calls : d # c => call'[d] = call[d],
           keys' = keys, signers' = signers,
           call'[c].pc \notin {"add", "write", "removed"},
           call'[c].pc \in {"install", "grant", "retireFailed"} =>
              call'[c].existing = NoKey \/ keys[call'[c].existing] # "absent",
           call'[c].pc \in {"retire", "remove"} => \A k \in call'[c].todo : keys[k] # "absent"
    PROVE  RemovedInv'
<1>1. ~Making(call[c])'
  BY DEF Making
<1>2. Known(call[c], keys, signers)'
  BY <1>1 DEF Known
<1>3. \A k \in Keys : keys'[k] = "revoked" => signers'[k].until = NoExpiry
  BY DEF RemovedInv
<1> QED  BY <1>1, <1>2, <1>3, RemovedMoves

LEMMA ResetStays ==
    ASSUME IInv, RemovedInv, NEW c \in Calls, Ends(c), keys' = keys, signers' = signers
    PROVE  RemovedInv'
<1>1. call \in [Calls -> CallStates]
  BY DEF IInv, TypeInv
<1>2. call'[c] = NoCall /\ NoCall.pc = "idle" /\ \A d \in Calls : d # c => call'[d] = call[d]
  BY <1>1, NoCallIsCall DEF Ends
<1> QED  BY <1>2, RemovedStays

\* The catch clause has an existing key or none.
LEMMA CatchStays ==
    ASSUME IInv, RemovedInv, NEW c \in Calls, NEW k, k = NoKey \/ keys[k] # "absent",
           Catches(c, k), keys' = keys, signers' = signers
    PROVE  RemovedInv'
<1>1. CASE k = NoKey
  BY <1>1, ResetStays DEF Catches
<1>2. CASE k # NoKey
  <2>1. call \in [Calls -> CallStates]
    BY DEF IInv, TypeInv
  <2>2. /\ call'[c].pc = "retireFailed" /\ call'[c].existing = k
        /\ \A d \in Calls : d # c => call'[d] = call[d]
    BY <1>2, <2>1 DEF Catches, NoCall
  <2> QED  BY <1>2, <2>2, RemovedStays
<1> QED  BY <1>1, <1>2

LEMMA BeginsRemoved ==
    ASSUME IInv, RemovedInv, NEW c \in Calls, CallBegins(c)
    PROVE  RemovedInv'
<1>1. /\ call \in [Calls -> CallStates] /\ call[c] \in CallType
      /\ keys' = keys /\ signers' = signers
  BY FieldsAreKeys DEF CallBegins, Shows, Approves, ledgerPause, ledgerRevoke, chain, db
<1>2. CASE (\E a \in Assets : Shows(c, a)) \/ Approves(c) \/ ledgerPause(c)
  <2>1. /\ call'[c].pc \in {"shown", "promote", "save"}
        /\ \A d \in Calls : d # c => call'[d] = call[d]
    <3>1. CASE \E a \in Assets : Shows(c, a)
      <4>1. PICK a \in Assets : call' = [call EXCEPT ![c] = [NoCall EXCEPT !.pc = "shown",
                                              !.asset = a, !.seen = mandate[a].nonce]]
        BY <3>1 DEF Shows
      <4> QED  BY <1>1, <4>1 DEF NoCall
    <3>2. CASE Approves(c)
      BY <1>1, <3>2 DEF Approves, CallType
    <3>3. CASE ledgerPause(c)
      BY <1>1, <3>3 DEF ledgerPause, setStatusReads, CallType
    <3> QED  BY <1>2, <3>1, <3>2, <3>3
  <2> QED  BY <1>1, <2>1, RemovedStays
<1>3. CASE ledgerRevoke(c)
  <2>1. \A d \in Calls : d # c => call'[d] = call[d]
    BY <1>1, <1>3 DEF ledgerRevoke, setStatusReads
  <2>2. CASE listActive = {}
    <3>1. call'[c].pc = "save"
      BY <1>1, <1>3, <2>2 DEF ledgerRevoke, setStatusReads, CallType
    <3> QED  BY <1>1, <2>1, <3>1, RemovedStays
  <2>3. CASE listActive # {}
    <3>1. call'[c].pc = "remove" /\ call'[c].todo = listActive
      BY <1>1, <1>3, <2>3 DEF ledgerRevoke, CallType
    <3>2. \A k \in listActive : keys[k] # "absent"
      BY DEF listActive
    <3> QED  BY <1>1, <2>1, <3>1, <3>2, RemovedStays
  <2> QED  BY <2>2, <2>3
<1> QED  BY <1>2, <1>3 DEF CallBegins

\* The steps that only read the tables, or write the ledger's row.
LEMMA ReadsRemoved ==
    ASSUME IInv, RemovedInv, NEW c \in Calls,
           \/ promoteAllowance(c) \/ refreshReadsRow(c) \/ refreshRereadsRow(c)
           \/ writeAllowance(c) \/ revokeMandate(c) \/ listOthers(c)
    PROVE  RemovedInv'
<1>1. /\ call \in [Calls -> CallStates] /\ call[c] \in CallType
  BY FieldsAreKeys
<1>2. keys' = keys /\ signers' = signers
  BY DEF promoteAllowance, refreshReadsRow, refreshRereadsRow, writeAllowance, revokeMandate,
         listOthers, chain, db
<1>3. CASE \/ Ends(c)
           \/ refreshReadsRow(c) \/ refreshRereadsRow(c) \/ revokeMandate(c)
  <2>1. CASE Ends(c)
    BY <1>2, <2>1, ResetStays
  <2>2. CASE refreshReadsRow(c) \/ refreshRereadsRow(c) \/ revokeMandate(c)
    <3>1. /\ call'[c].pc \in {"find", "save"}
          /\ \A d \in Calls : d # c => call'[d] = call[d]
      BY <1>1, <2>2 DEF refreshReadsRow, refreshRereadsRow, revokeMandate, setStatusReads,
                        CallType
    <3> QED  BY <1>2, <3>1, RemovedStays
  <2> QED  BY <1>3, <2>1, <2>2
<1>4. CASE promoteAllowance(c) /\ ~Ends(c)
  <2>1. /\ call'[c].pc = "row" /\ \A d \in Calls : d # c => call'[d] = call[d]
    BY <1>1, <1>4 DEF promoteAllowance, CallType
  <2> QED  BY <1>2, <2>1, RemovedStays
<1>5. CASE listOthers(c)
  <2>1. /\ call'[c].pc \in {"save", "retire"} /\ call'[c].todo = Others(c)
        /\ \A d \in Calls : d # c => call'[d] = call[d]
    BY <1>1, <1>5 DEF listOthers, CallType
  <2>2. \A k \in Others(c) : keys[k] # "absent"
    BY DEF Others, listActive
  <2> QED  BY <1>2, <2>1, <2>2, RemovedStays
<1> QED  BY <1>3, <1>4, <1>5 DEF writeAllowance

LEMMA FindRemoved ==
    ASSUME IInv, RemovedInv, NEW c \in Calls, findActiveSubKeyForMerchant(c)
    PROVE  RemovedInv'
<1>1. /\ call \in [Calls -> CallStates] /\ call[c] \in CallType
      /\ keys' = keys /\ signers' = signers
  BY FieldsAreKeys DEF findActiveSubKeyForMerchant, chain, db
<1>2. PICK k \in (IF bindable = {} THEN {NoKey} ELSE bindable) :
          \/ Ends(c) \/ Catches(c, k)
          \/ call' = [call EXCEPT ![c].pc = "install", ![c].live = FALSE, ![c].existing = k]
  BY DEF findActiveSubKeyForMerchant
<1>3. k = NoKey \/ keys[k] # "absent"
  BY <1>2 DEF bindable, listActive
<1>4. CASE call' = [call EXCEPT ![c].pc = "install", ![c].live = FALSE, ![c].existing = k]
  <2>1. /\ call'[c].pc = "install" /\ call'[c].existing = k
        /\ \A d \in Calls : d # c => call'[d] = call[d]
    BY <1>1, <1>4 DEF CallType
  <2> QED  BY <1>1, <1>3, <2>1, RemovedStays
<1> QED  BY <1>1, <1>2, <1>3, <1>4, ResetStays, CatchStays

LEMMA InstallRemoved ==
    ASSUME IInv, RemovedInv, NEW c \in Calls, ensurePolicyInstalled(c)
    PROVE  RemovedInv'
<1>1. /\ call \in [Calls -> CallStates] /\ call[c] \in CallType /\ call[c].pc = "install"
      /\ keys' = keys /\ signers' = signers
  BY FieldsAreKeys DEF ensurePolicyInstalled, At, db
<1>2. call[c].existing = NoKey \/ keys[call[c].existing] # "absent"
  BY <1>1 DEF RemovedInv, Known
<1>3. CASE Goes(c, "grant")
  <2>1. /\ call'[c].pc = "grant" /\ call'[c].existing = call[c].existing
        /\ \A d \in Calls : d # c => call'[d] = call[d]
    BY <1>1, <1>3 DEF Goes, CallType
  <2> QED  BY <1>1, <1>2, <2>1, RemovedStays
<1>4. CASE Catches(c, call[c].existing)
  BY <1>1, <1>2, <1>4, CatchStays
<1> QED  BY <1>3, <1>4 DEF ensurePolicyInstalled

LEMMA GrantRemoved ==
    ASSUME IInv, RemovedInv, NEW c \in Calls, setAllowance(c)
    PROVE  RemovedInv'
<1>1. /\ call \in [Calls -> CallStates] /\ call[c] \in CallType /\ call[c].pc = "grant"
      /\ keys' = keys /\ signers' = signers /\ minted' = minted + 1 /\ c \in Minting
  BY FieldsAreKeys DEF setAllowance, At, db, Minting
<1>2. call[c].existing = NoKey \/ keys[call[c].existing] # "absent"
  BY <1>1 DEF RemovedInv, Known
<1>3. CASE Catches(c, call[c].existing)
  BY <1>1, <1>2, <1>3, CatchStays
<1>4. CASE call' = [call EXCEPT ![c].pc = "add", ![c].key = minted']
  <2>1. /\ call'[c].pc = "add" /\ call'[c].key = minted + 1
        /\ call'[c].existing = call[c].existing
        /\ \A d \in Calls : d # c => call'[d] = call[d]
    BY <1>1, <1>4 DEF CallType
  <2>2. minted + 1 \in Keys /\ minted \in Nat
    BY <1>1, MayMint DEF IInv, TypeInv, StateType
  <2>3. keys[minted + 1] = "absent"
    BY <2>2 DEF IInv, TypeInv, StateType
  <2>4. Known(call[c], keys, signers)'
    BY <1>1, <1>2, <2>1, <2>3 DEF Known, Making
  <2>5. \A d \in Calls : Making(call[d]) => call[d].key # call'[c].key
    <3>1. \A d \in Calls : Making(call[d]) => call[d].key \in 1..minted
      BY FieldsAreKeys
    <3> QED  BY <2>1, <2>2, <3>1
  <2>6. \A k \in Keys : keys'[k] = "revoked" => signers'[k].until = NoExpiry
    BY <1>1 DEF RemovedInv
  <2> QED  BY <1>1, <2>1, <2>4, <2>5, <2>6, RemovedMoves
<1> QED  BY <1>3, <1>4 DEF setAllowance

LEMMA AddRemoved ==
    ASSUME IInv, RemovedInv, NEW c \in Calls, buildAddSubKeyTransaction(c)
    PROVE  RemovedInv'
<1> DEFINE s == call[c].key
<1>1. /\ call \in [Calls -> CallStates] /\ call[c] \in CallType /\ call[c].pc = "add"
      /\ keys' = keys /\ s \in Keys /\ Making(call[c])
  BY FieldsAreKeys DEF buildAddSubKeyTransaction, At, db, Making
<1>2. keys[s] = "absent"
      /\ (call[c].existing = NoKey \/ keys[call[c].existing] # "absent")
  BY <1>1 DEF RemovedInv, Known
<1>3. \A k \in Keys : k # s => signers'[k] = signers[k]
  BY DEF buildAddSubKeyTransaction, IInv, TypeInv, StateType
<1>4. /\ \A k \in Keys : keys'[k] = "revoked" => signers'[k].until = NoExpiry
      /\ \A k \in Keys : keys[k] # "absent" /\ signers[k].until = NoExpiry =>
            signers'[k].until = NoExpiry
  <2> HIDE DEF s
  <2> QED  BY <1>1, <1>2, <1>3 DEF RemovedInv
<1>5. /\ \A d \in Calls : d # c => call'[d] = call[d]
      /\ \/ call'[c].pc = "write" /\ call'[c].key = s /\ call'[c].existing = call[c].existing
         \/ call'[c].pc = "idle"
         \/ call'[c].pc = "retireFailed" /\ call'[c].existing = call[c].existing
  <2>1. CASE Goes(c, "write")
    BY <1>1, <2>1 DEF Goes, CallType
  <2>2. CASE Catches(c, call[c].existing) /\ call[c].existing = NoKey
    BY <1>1, <2>2, NoCallIsCall DEF Catches, Ends
  <2>3. CASE Catches(c, call[c].existing) /\ call[c].existing # NoKey
    BY <1>1, <2>3 DEF Catches, NoCall
  <2> QED  BY <2>1, <2>2, <2>3 DEF buildAddSubKeyTransaction
<1>6. Known(call[c], keys, signers)'
  BY <1>1, <1>2, <1>5 DEF Known, Making
<1>7. Making(call[c])' => \A d \in Calls : d # c /\ Making(call[d]) => call[d].key # call'[c].key
  BY <1>1, <1>5 DEF RemovedInv, Making
<1> HIDE DEF s
<1> QED  BY <1>1, <1>4, <1>5, <1>6, <1>7, RemovedMoves

LEMMA WriteRemoved ==
    ASSUME IInv, RemovedInv, NEW c \in Calls, writeSubKey(c)
    PROVE  RemovedInv'
<1>0. PICK s : s = call[c].key
  OBVIOUS
<1>1. /\ call \in [Calls -> CallStates] /\ call[c] \in CallType /\ call[c].pc = "write"
      /\ signers' = signers /\ s \in Keys /\ Making(call[c])
      /\ keys' = [keys EXCEPT ![s] = "active"]
  BY <1>0, FieldsAreKeys DEF writeSubKey, At, chain, Making
<1>2. keys'[s] = "active" /\ \A k \in Keys : k # s => keys'[k] = keys[k]
  BY <1>1 DEF IInv, TypeInv, StateType
<1>3. /\ call'[c].pc = "list" /\ \A d \in Calls : d # c => call'[d] = call[d]
  BY <1>1 DEF writeSubKey, Goes, CallType
<1>4. Known(call[c], keys, signers)' /\ ~Making(call[c])'
  BY <1>3 DEF Known, Making
<1>5. \A d \in Calls : d # c /\ Making(call[d]) => keys'[call[d].key] = keys[call[d].key]
  <2>1. \A d \in Calls : d # c /\ Making(call[d]) => call[d].key # s /\ call[d].key \in Keys
    BY <1>0, <1>1, FieldsAreKeys DEF RemovedInv
  <2> QED  BY <1>2, <2>1
<1>6. \A k \in Keys : keys'[k] = "revoked" => signers'[k].until = NoExpiry
  BY <1>1, <1>2 DEF RemovedInv
<1>7. \A k \in Keys : keys[k] # "absent" => keys'[k] # "absent"
  BY <1>2
<1> QED  BY <1>1, <1>3, <1>4, <1>5, <1>6, <1>7, RemovedMoves

\* A row is marked, by the owner's call only when its signer is gone.
LEMMA MarkRemoved ==
    ASSUME IInv, RemovedInv, NEW c \in Calls, NEW k \in Keys, keys[k] # "absent",
           NEW t \in Stopped, Marked(k, t), signers' = signers,
           t = "revoked" => signers[k].until = NoExpiry,
           \A d \in Calls : d # c => call'[d] = call[d],
           call'[c].pc \in {"save", "retire", "reread", "status", "remove"},
           call'[c].pc \in {"retire", "remove"} => \A j \in call'[c].todo : keys[j] # "absent",
           call'[c].todo \subseteq Keys
    PROVE  RemovedInv'
<1>1. keys'[k] = t /\ \A j \in Keys : j # k => keys'[j] = keys[j]
  BY DEF Marked, IInv, TypeInv, StateType
<1>2. \A j \in Keys : keys[j] # "absent" => keys'[j] # "absent"
  BY <1>1 DEF Stopped
<1>3. \A j \in Keys : keys'[j] = "revoked" => signers'[j].until = NoExpiry
  BY <1>1 DEF RemovedInv
<1>4. \A d \in Calls : d # c /\ Making(call[d]) => keys'[call[d].key] = keys[call[d].key]
  <2>1. \A d \in Calls : Making(call[d]) => call[d].key \in Keys /\ keys[call[d].key] = "absent"
    BY FieldsAreKeys DEF RemovedInv, Known
  <2> QED  BY <1>1, <2>1
<1>5. Known(call[c], keys, signers)' /\ ~Making(call[c])'
  BY <1>2 DEF Known, Making
<1> QED  BY <1>2, <1>3, <1>4, <1>5, RemovedMoves

LEMMA RetireRemoved ==
    ASSUME IInv, RemovedInv, NEW c \in Calls, retireOther(c) \/ retireFailed(c)
    PROVE  RemovedInv'
<1>1. /\ call \in [Calls -> CallStates] /\ call[c] \in CallType /\ signers' = signers
      /\ call[c].todo \subseteq Keys
  BY FieldsAreKeys DEF retireOther, retireFailed, chain
<1>2. CASE retireOther(c)
  <2>1. PICK k \in call[c].todo :
           /\ Retired(k)
           /\ call' = [call EXCEPT ![c].pc = IF call[c].todo \ {k} = {} THEN "save" ELSE "retire",
                                   ![c].todo = call[c].todo \ {k}]
    BY <1>2 DEF retireOther
  <2>2. /\ call'[c].pc \in {"save", "retire"} /\ call'[c].todo = call[c].todo \ {k}
        /\ \A d \in Calls : d # c => call'[d] = call[d]
    BY <1>1, <2>1 DEF CallType
  <2>3. \A j \in call[c].todo : keys[j] # "absent"
    BY <1>2 DEF retireOther, At, RemovedInv, Known
  <2>4. PICK t \in Stopped : Marked(k, t) /\ (t = "revoked" => keys[k] = "revoked")
    BY <2>1 DEF Retired, Stopped
  <2>5. t = "revoked" => signers[k].until = NoExpiry
    BY <1>1, <2>4 DEF RemovedInv
  <2>6. /\ k \in Keys /\ keys[k] # "absent" /\ call'[c].todo \subseteq Keys
        /\ \A j \in call'[c].todo : keys[j] # "absent"
    BY <1>1, <2>2, <2>3
  <2> QED  BY <1>1, <2>2, <2>4, <2>5, <2>6, MarkRemoved
<1>3. CASE retireFailed(c)
  <2>0. PICK k : k = call[c].existing
    OBVIOUS
  <2>1. /\ Retired(k) /\ call[c].pc = "retireFailed" /\ k \in Keys /\ k # NoKey
    BY <1>3, <2>0, FieldsAreKeys, KeysAreNumbers DEF retireFailed, At, IInv
  <2>2. /\ call'[c].pc = "reread" /\ call'[c].todo = call[c].todo
        /\ \A d \in Calls : d # c => call'[d] = call[d]
    BY <1>1, <1>3 DEF retireFailed, Goes, CallType
  <2>3. keys[k] # "absent"
    BY <2>0, <2>1 DEF RemovedInv, Known
  <2>4. PICK t \in Stopped : Marked(k, t) /\ (t = "revoked" => keys[k] = "revoked")
    BY <2>1 DEF Retired, Stopped
  <2>5. t = "revoked" => signers[k].until = NoExpiry
    BY <2>1, <2>4 DEF RemovedInv
  <2> QED  BY <1>1, <2>1, <2>2, <2>3, <2>4, <2>5, MarkRemoved
<1> QED  BY <1>2, <1>3

LEMMA RevokeRemoved ==
    ASSUME IInv, RemovedInv, NEW c \in Calls,
           buildRemoveSubKeyTransaction(c) \/ markRevoked(c)
    PROVE  RemovedInv'
<1>0. PICK k : k = Min(call[c].todo)
  OBVIOUS
<1>1. /\ call \in [Calls -> CallStates] /\ call[c] \in CallType
      /\ call[c].todo \subseteq Keys /\ call[c].pc \in {"remove", "removed"}
      /\ k \in call[c].todo /\ k \in Keys
  BY <1>0, FieldsAreKeys DEF buildRemoveSubKeyTransaction, markRevoked, At
<1>2. \A j \in call[c].todo : keys[j] # "absent"
  BY <1>1 DEF RemovedInv, Known
<1>3. CASE buildRemoveSubKeyTransaction(c)
  <2>1. PICK o \in Outcomes :
           /\ signers' = IF o = "fails" THEN signers ELSE [signers EXCEPT ![k].until = NoExpiry]
           /\ Removed(c, o) /\ keys' = keys
    BY <1>0, <1>3 DEF buildRemoveSubKeyTransaction, db
  <2>2. /\ \A j \in Keys : j # k => signers'[j] = signers[j]
        /\ o # "fails" => signers'[k].until = NoExpiry
        /\ o = "fails" => signers' = signers
    BY <1>1, <2>1 DEF IInv, TypeInv, StateType
  <2>3. \A j \in Keys : signers[j].until = NoExpiry => signers'[j].until = NoExpiry
    BY <2>2
  <2>4. \A j \in Keys : keys'[j] = "revoked" => signers'[j].until = NoExpiry
    BY <2>1, <2>3 DEF RemovedInv
  <2>5. /\ \A d \in Calls : d # c => call'[d] = call[d]
        /\ \/ call'[c].pc = "removed" /\ call'[c].todo = call[c].todo /\ o = "lands"
           \/ call'[c].pc = "idle"
    BY <1>1, <2>1, NoCallIsCall DEF Removed, Goes, Ends, CallType
  <2>6. Known(call[c], keys, signers)' /\ ~Making(call[c])'
    BY <1>0, <1>2, <2>1, <2>2, <2>5 DEF Known, Making
  <2> QED  BY <2>1, <2>3, <2>4, <2>5, <2>6, RemovedMoves
<1>4. CASE markRevoked(c)
  <2>1. Marked(k, "revoked") /\ signers' = signers /\ call[c].pc = "removed"
    BY <1>0, <1>4 DEF markRevoked, At, chain
  <2>2. signers[k].until = NoExpiry
    BY <1>0, <2>1 DEF RemovedInv, Known
  <2>3. /\ call'[c].pc \in {"status", "remove"} /\ call'[c].todo = call[c].todo \ {k}
        /\ \A d \in Calls : d # c => call'[d] = call[d]
    BY <1>0, <1>1, <1>4 DEF markRevoked, CallType
  <2>4. /\ keys[k] # "absent" /\ call'[c].todo \subseteq Keys
        /\ \A j \in call'[c].todo : keys[j] # "absent"
    BY <1>1, <1>2, <2>3
  <2> QED  BY <1>1, <2>1, <2>2, <2>3, <2>4, MarkRemoved DEF Stopped
<1> QED  BY <1>3, <1>4

\* Whatever else happens, no row and no signer changes.
LEMMA RestRemoved ==
    ASSUME IInv, RemovedInv, unlock \/ lock \/ Tick \/ WorkerDies \/ UNCHANGED vars
    PROVE  RemovedInv'
<1>1. keys' = keys /\ signers' = signers
  BY DEF unlock, lock, Tick, WorkerDies, vars, chain, db
<1>2. call' = call \/ \A c \in Calls : call'[c] = NoCall
  BY DEF unlock, lock, Tick, WorkerDies, vars
<1>3. CASE call' = call
  BY <1>1, <1>3 DEF RemovedInv
<1>4. CASE \A c \in Calls : call'[c] = NoCall
  <2>1. \A c \in Calls : call'[c].pc = "idle"
    BY <1>4, NoCallIsCall
  <2>2. \A c \in Calls : Known(call[c], keys, signers)' /\ ~Making(call[c])'
    BY <2>1 DEF Known, Making
  <2> QED  BY <1>1, <2>2 DEF RemovedInv
<1> QED  BY <1>2, <1>3, <1>4

LEMMA RemovedKept == Spec => []RemovedInv
<1>1. Init => RemovedInv
  <2> SUFFICES ASSUME Init PROVE RemovedInv
    OBVIOUS
  <2>1. \A k \in Keys : keys[k] # "revoked"
    BY DEF Init
  <2>2. \A c \in Calls : call[c].pc = "idle"
    BY NoCallIsCall DEF Init
  <2>3. \A c \in Calls : Known(call[c], keys, signers) /\ ~Making(call[c])
    BY <2>2 DEF Known, Making
  <2> QED  BY <2>1, <2>3 DEF RemovedInv
<1>2. IInv /\ RemovedInv /\ [Next]_vars => RemovedInv'
  <2> SUFFICES ASSUME IInv, RemovedInv, [Next]_vars PROVE RemovedInv'
    OBVIOUS
  <2>1. ASSUME NEW c \in Calls, CallStep(c) PROVE RemovedInv'
    BY <2>1, ReadsRemoved, FindRemoved, InstallRemoved, GrantRemoved, AddRemoved, WriteRemoved,
       RetireRemoved, RevokeRemoved DEF CallStep
  <2> QED  BY <2>1, BeginsRemoved, RestRemoved DEF Next
<1> QED  BY <1>1, <1>2, Invariant, PTL DEF Spec

--------------------------------------------------------------------------------
(* The theorems *)

\* The state of the chain, of the tables and of every call is well typed, and no key
\* is generated past the bound, whatever the calls, the assets and the bounds.
THEOREM TypeCorrect == Spec => []TypeOK
<1>1. IInv => TypeOK
  <2> SUFFICES ASSUME IInv PROVE TypeOK
    OBVIOUS
  <2>1. minted \in 0..MaxKeys
    BY KeysAreNumbers DEF IInv
  <2>2. \A c \in Calls : At(c, "retireFailed") => call[c].existing \in 1..minted
    BY DEF IInv, TypeInv, CallStates, CallType, At
  <2>3. bound.key \in {NoKey} \cup 1..minted
    BY DEF IInv, TypeInv, StateType
  <2> QED  BY <2>1, <2>2, <2>3 DEF IInv, TypeInv, StateType, TypeOK
<1> QED  BY <1>1, Invariant, PTL

\* At rest, until something happens that the code does not repair, the chain accepts
\* the key of a live mandate (refreshSubKeyAfterApproval keeps the grants on the chain
\* at least as long as the row it promotes).
THEOREM KeyKeptInStep == Spec => []KeyInStep
<1>1. IInv => KeyInStep
  <2> SUFFICES ASSUME IInv, causes \subseteq {"retired"}, Quiet, NEW a \in Assets,
                      NEW k \in bindable, isMandateLive(mandate[a])
               PROVE  Accepts(k, a)
    BY DEF KeyInStep
  <2>1. InStep(k)
    BY DEF IInv, StepInv, AllInStep
  <2>2. /\ now \in Int /\ mandate[a].until \in Int /\ bound.until \in Int
        /\ k \in Keys /\ signers[k].until \in Int
    BY DEF IInv, TypeInv, StateType, RowType, bindable, listActive
  <2>3. now <= mandate[a].until
    BY <2>1 DEF isMandateLive, InStep
  <2> QED  BY <2>1, <2>2, <2>3 DEF InStep, Accepts
<1> QED  BY <1>1, Invariant, PTL

\* A key the owner revoked pays nothing from then on, whatever overlapped, failed or
\* died; one the wallet only stopped using pays nothing either, unless it is a key of
\* the retired policy, calls overlapped or a failed renewal retired it.
THEOREM RevokedPaysNothing == Spec => []RevokedCannotPay
<1>1. IInv /\ RemovedInv => RevokedCannotPay
  <2> SUFFICES ASSUME IInv, RemovedInv, NEW a \in Assets, NEW k \in Keys, Accepts(k, a),
                      \/ keys[k] = "revoked"
                      \/ /\ keys[k] = "retired" /\ k # Legacy
                         /\ causes \cap {"overlap", "retired"} = {}
               PROVE  FALSE
    BY DEF RevokedCannotPay
  <2>1. signers[k].until = NoExpiry
    BY DEF IInv, RevokedInv, RemovedInv, Accepts, Stopped
  <2>2. now \in Nat
    BY LifecycleAssumption DEF IInv, TypeInv, StateType
  <2> QED  BY <2>1, <2>2 DEF Accepts, NoExpiry
<1> QED  BY <1>1, Invariant, RemovedKept, PTL

\* However approvals overlap, at rest one key at most is usable: each call retires the
\* keys it finds beside its own (the loop of refreshSubKeyAfterApproval).
THEOREM OneKeyAtRest == Spec => []OneUsableKey
<1>1. IInv => OneUsableKey
  <2> SUFFICES ASSUME IInv, Quiet, "died" \notin causes PROVE Cardinality(bindable) <= 1
    BY DEF OneUsableKey
  <2>1. \A j, k \in bindable : j = k
    <3> SUFFICES ASSUME NEW j \in bindable, NEW k \in bindable, j # k PROVE FALSE
      OBVIOUS
    <3>1. PICK c \in Calls : WillRetire(c, j, k) \/ WillRetire(c, k, j)
      BY DEF IInv, PairsInv
    <3> QED  BY <3>1 DEF Quiet, Busy, WillRetire, At
  <2>2. CASE bindable = {}
    BY <2>2, FS_EmptySet
  <2>3. CASE bindable # {}
    <3>1. PICK k \in bindable : bindable = {k}
      BY <2>1, <2>3
    <3>2. Cardinality({k}) = 1
      BY FS_Singleton
    <3> QED  BY <3>1, <3>2
  <2> QED  BY <2>2, <2>3
<1> QED  BY <1>1, Invariant, PTL
================================================================================
