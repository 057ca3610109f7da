----------------------------- MODULE AccountStore ------------------------------
(***************************************************************************)
(* The accounts of the wallet, kept three times: the keystore row on disk, *)
(* the active index of the unlocked session, and the snapshot surfaces     *)
(* read.  Every call copies the row, awaits, and writes the whole row      *)
(* back; the session and the snapshot follow by further steps.  An action  *)
(* is the code between two awaits.                                         *)
(*                                                                         *)
(* Account i's authority key derives from the seed at index i, and the     *)
(* address of a smart wallet from the authority that deploys it, so i      *)
(* names the account, its authority and the smart wallet it deploys.  The  *)
(* storage.local mirror of the row follows every write and is left out.    *)
(***************************************************************************)
EXTENDS Integers, FiniteSets, FiniteSetsExt

CONSTANTS
    Calls,       \* bound: calls of surfaces in progress at a time
    MaxAccounts, \* bound: accounts of the wallet
    MaxMeetings  \* bound: times a call or a lock meets a call in progress

ASSUME AccountAssumption ==
    MaxAccounts \in Nat \ {0} /\ MaxMeetings \in Nat /\ IsFiniteSet(Calls)

VARIABLES
    row,       \* the keystore row: smartWalletAddress by index, indices the user
               \* named, activeIndex, and whether the blob has an old iteration count
    unlocked,  \* session.ts holds the seed
    active,    \* session.ts, activeIndex
    snap,      \* accounts and activeAccountIndex of the wallet state
    call,      \* where each call is, with what it holds
    meetings   \* history: how often a call, or a lock, met a call in progress

storeVars == <<row, unlocked, active, snap, call, meetings>>

Indices == 0..(MaxAccounts - 1)

None == -1

Rows == [smart : UNION {[0..n -> Indices \cup {None}] : n \in Indices},
         named : SUBSET Indices, active : Indices, old : BOOLEAN]

Shown(r) == [smart |-> r.smart, named |-> r.named, active |-> r.active]

NoCall == [op |-> "none", pc |-> "idle", arg |-> None, copy |-> None]

Idle == \A c \in Calls : call[c].pc = "idle"

alone == meetings = 0

StoreInit ==
    /\ \E old \in BOOLEAN :
         row = [smart |-> [i \in {0} |-> None], named |-> {}, active |-> 0, old |-> old]
    /\ unlocked = FALSE /\ active = 0
    /\ snap = Shown(row)
    /\ call = [c \in Calls |-> NoCall]
    /\ meetings = 0

--------------------------------------------------------------------------------
(* Reading and writing the row *)

Moves(c, step, arg, copy) ==
    call' = [call EXCEPT ![c] = [op |-> @.op, pc |-> step, arg |-> arg, copy |-> copy]]

Ends(c) == call' = [call EXCEPT ![c] = NoCall]

Meets ==
    IF Idle THEN UNCHANGED meetings
    ELSE meetings < MaxMeetings /\ meetings' = meetings + 1

At(c, op, step) == call[c].op = op /\ call[c].pc = step

Accounts(r) == DOMAIN r.smart

\* Plausible bugs, for the mutants.
updateAccountEntry_First(r, i, addr) == [r EXCEPT !.smart[0] = addr]

addedAccount_Restarts(r, i) ==
    [r EXCEPT !.smart = [j \in Accounts(r) \cup {i} |-> None], !.active = i]

\* updateAccountEntry with a smart wallet: an index that is not listed changes
\* nothing.
updateAccountEntry(r, i, addr) ==
    IF i \in Accounts(r) THEN [r EXCEPT !.smart[i] = addr] ELSE r

addedAccount(r, i) ==
    [smart |-> [j \in Accounts(r) \cup {i} |-> IF j = i THEN None ELSE r.smart[j]],
     named |-> r.named, active |-> i, old |-> r.old]

\* A surface calls; the check of the lock comes before the first await.
CallStarts(c, op, arg) ==
    /\ call[c].pc = "idle"
    /\ CASE op \in {"add", "switch", "provision"} -> unlocked
         [] op = "rename" -> TRUE
         [] op = "unlock" -> ~unlocked
    /\ call' = [call EXCEPT ![c] = [op |-> op, pc |-> "read", arg |-> arg, copy |-> None]]
    /\ Meets
    /\ UNCHANGED <<row, unlocked, active, snap>>

writeKeystore(c, step) ==
    /\ call[c].pc = "write"
    /\ row' = call[c].copy
    /\ Moves(c, step, call[c].arg, call[c].copy)
    /\ UNCHANGED <<unlocked, active, snap, meetings>>

--------------------------------------------------------------------------------
(* wallet.addAccount *)

addAccount(c) ==
    /\ At(c, "add", "read")
    /\ LET next == Max(Accounts(row)) + 1
       IN  /\ next \in Indices
           /\ IF unlocked THEN Moves(c, "write", next, addedAccount(row, next)) ELSE Ends(c)
    /\ UNCHANGED <<row, unlocked, active, snap, meetings>>

addAccountWrites(c) == call[c].op = "add" /\ writeKeystore(c, "finish")

\* setActiveIndex throws if the wallet was locked meanwhile: the row has the
\* account, the snapshot does not.
addAccountFinishes(c) ==
    /\ At(c, "add", "finish")
    /\ IF unlocked
       THEN active' = call[c].arg /\ snap' = Shown(call[c].copy)
       ELSE UNCHANGED <<active, snap>>
    /\ Ends(c)
    /\ UNCHANGED <<row, unlocked, meetings>>

--------------------------------------------------------------------------------
(* wallet.switchAccount *)

\* A plausible bug, for the mutants.
switchAccount_SnapshotOnly(c) ==
    /\ At(c, "switch", "read")
    /\ IF unlocked /\ call[c].arg \in Accounts(row)
       THEN Moves(c, "write", call[c].arg, [row EXCEPT !.active = call[c].arg])
       ELSE Ends(c)
    /\ UNCHANGED <<row, unlocked, active, snap, meetings>>

\* The session moves before the row is written.
switchAccount(c) ==
    /\ At(c, "switch", "read")
    /\ IF unlocked /\ call[c].arg \in Accounts(row)
       THEN /\ active' = call[c].arg
            /\ Moves(c, "write", call[c].arg, [row EXCEPT !.active = call[c].arg])
       ELSE Ends(c) /\ UNCHANGED active
    /\ UNCHANGED <<row, unlocked, snap, meetings>>

switchAccountWrites(c) == call[c].op = "switch" /\ writeKeystore(c, "finish")

switchAccountFinishes(c) ==
    /\ At(c, "switch", "finish")
    /\ snap' = Shown(call[c].copy)
    /\ Ends(c)
    /\ UNCHANGED <<row, unlocked, active, meetings>>

--------------------------------------------------------------------------------
(* wallet.renameAccount *)

renameAccount(c) ==
    /\ At(c, "rename", "read")
    /\ IF call[c].arg \in Accounts(row)
       THEN Moves(c, "write", call[c].arg, [row EXCEPT !.named = @ \cup {call[c].arg}])
       ELSE Ends(c)
    /\ UNCHANGED <<row, unlocked, active, snap, meetings>>

renameAccountWrites(c) == call[c].op = "rename" /\ writeKeystore(c, "finish")

\* Only the name of the active account is told to surfaces.
renameAccountFinishes(c) ==
    /\ At(c, "rename", "finish")
    /\ snap' = IF call[c].arg = call[c].copy.active THEN Shown(call[c].copy) ELSE snap
    /\ Ends(c)
    /\ UNCHANGED <<row, unlocked, active, meetings>>

--------------------------------------------------------------------------------
(* wallet.provisionSmartWallet *)

\* The account to provision is the row's active one, the authority that deploys
\* is the session's.
provisionSmartWallet(c) ==
    /\ At(c, "provision", "read")
    /\ IF row.smart[row.active] # None THEN Moves(c, "reread", None, None)
       ELSE IF unlocked THEN Moves(c, "deploy", active, row)
       ELSE Ends(c)
    /\ UNCHANGED <<row, unlocked, active, snap, meetings>>

\* Up to thirty seconds later: the address goes to the account active by now, in
\* the row copied before.
deploySmartWallet(c) ==
    /\ At(c, "provision", "deploy")
    /\ \/ Moves(c, "write", call[c].arg, updateAccountEntry(call[c].copy, active, call[c].arg))
       \/ Ends(c)
    /\ UNCHANGED <<row, unlocked, active, snap, meetings>>

provisionWrites(c) == call[c].op = "provision" /\ writeKeystore(c, "reread")

provisionFinishes(c) ==
    /\ At(c, "provision", "reread")
    /\ snap' = Shown(row)
    /\ Ends(c)
    /\ UNCHANGED <<row, unlocked, active, meetings>>

--------------------------------------------------------------------------------
(* wallet.unlock, lock, and the worker *)

\* The passphrase is right; an old iteration count makes unlock write its copy.
unlock(c) ==
    /\ At(c, "unlock", "read")
    /\ IF row.old
       THEN Moves(c, "write", None, [row EXCEPT !.old = FALSE])
       ELSE Moves(c, "unlockWith", None, row)
    /\ UNCHANGED <<row, unlocked, active, snap, meetings>>

unlockWrites(c) == call[c].op = "unlock" /\ writeKeystore(c, "unlockWith")

unlockWith(c) ==
    /\ At(c, "unlock", "unlockWith")
    /\ unlocked' = TRUE /\ active' = call[c].copy.active
    /\ Moves(c, "finish", None, call[c].copy)
    /\ UNCHANGED <<row, snap, meetings>>

unlockFinishes(c) ==
    /\ At(c, "unlock", "finish")
    /\ snap' = Shown(call[c].copy)
    /\ Ends(c)
    /\ UNCHANGED <<row, unlocked, active, meetings>>

lock ==
    /\ unlocked /\ unlocked' = FALSE
    /\ active' = 0
    /\ Meets
    /\ UNCHANGED <<row, snap, call>>

\* bootstrap reads the snapshot back from the row.
WorkerDies ==
    /\ unlocked' = FALSE /\ active' = 0
    /\ snap' = Shown(row)
    /\ call' = [c \in Calls |-> NoCall]
    /\ UNCHANGED <<row, meetings>>

CallNext(c) ==
    \/ \E op \in {"add", "provision", "unlock"} : CallStarts(c, op, None)
    \/ \E op \in {"switch", "rename"}, i \in Accounts(snap) : CallStarts(c, op, i)
    \/ addAccount(c) \/ addAccountWrites(c) \/ addAccountFinishes(c)
    \/ switchAccount(c) \/ switchAccountWrites(c) \/ switchAccountFinishes(c)
    \/ renameAccount(c) \/ renameAccountWrites(c) \/ renameAccountFinishes(c)
    \/ provisionSmartWallet(c) \/ deploySmartWallet(c)
    \/ provisionWrites(c) \/ provisionFinishes(c)
    \/ unlock(c) \/ unlockWrites(c) \/ unlockWith(c) \/ unlockFinishes(c)

StoreNext == (\E c \in Calls : CallNext(c)) \/ lock \/ WorkerDies

StoreSpec == StoreInit /\ [][StoreNext]_storeVars

--------------------------------------------------------------------------------
\* Well typed; however calls interleave, the indices of the row have no gap and
\* its active one is listed.
StoreTypeOK ==
    /\ row \in Rows /\ row.active \in Accounts(row)
    /\ unlocked \in BOOLEAN /\ active \in Indices /\ meetings \in 0..MaxMeetings
    /\ \E r \in {[smart |-> snap.smart, named |-> snap.named, active |-> snap.active,
                  old |-> FALSE]} : r \in Rows /\ r.active \in Accounts(r)
    /\ \A c \in Calls : call[c].arg \in Indices \cup {None}

\* As long as calls come one at a time, session, snapshot and row name the same
\* account whenever the wallet is open and at rest: a signature is made by the
\* account the surfaces show (messaging/handlers.ts, addAccountHandler to
\* provisionSmartWalletHandler).
AloneAgrees ==
    alone /\ Idle /\ unlocked =>
        /\ active = row.active /\ snap.active = row.active
        /\ snap.smart = row.smart

\* ... and each account holds the smart wallet its own authority deployed
\* (provision.ts).
OwnSmartWallet ==
    alone => \A i \in Accounts(row) : row.smart[i] \in {None, i}

\* ... and no write of the whole row forgets an account, a name or a smart wallet.
AloneForgetsNothing ==
    [][alone' =>
          /\ Accounts(row) \subseteq Accounts(row') /\ row.named \subseteq row'.named
          /\ \A i \in Accounts(row) : row.smart[i] # None => row'.smart[i] = row.smart[i]]_storeVars
================================================================================
