---------------------------- MODULE X402LedgerProofs ----------------------------
(***************************************************************************)
(* Proofs about X402Ledger for every number of requests, all caps, windows *)
(* and amounts: the log never sums to more than the caps, nothing is       *)
(* signed in the background without the user's consent, and the payments   *)
(* really signed stay within the caps until a reservation is lost.         *)
(***************************************************************************)
EXTENDS X402Ledger, FiniteSetTheorems, TLAPS

Sums == INSTANCE SpendLedgerProofs WITH DAY_SECONDS <- DAY_MS

--------------------------------------------------------------------------------
(* Totals *)

\* Total, with the requests it reads as an argument.
SumOf(S, rq) == SumUpTo([r \in S |-> rq[r].amount], NumRequests)

HasAmounts(rq) == \A r \in Requests : rq[r].amount \in Nat

\* The amounts of some requests are a ledger.
LEMMA AmountsAreLedger ==
    ASSUME NEW S, S \subseteq Requests, NEW rq, HasAmounts(rq)
    PROVE  IsLedger([r \in S |-> rq[r].amount])
<1>1. IsFiniteSet(Requests)
  BY LedgerAssumption, FS_Interval DEF Requests
<1>2. IsFiniteSet(S)
  BY <1>1, FS_Subset
<1> QED  BY <1>2, LedgerAssumption DEF IsLedger, HasAmounts, Requests

\* What SpendLedgerProofs says of its sums holds of the ones used here.
LEMMA SameSums ==
    ASSUME NEW log, NEW n
    PROVE  /\ SumUpTo(log, n) = Sums!SumUpTo(log, n)
           /\ AmountAt(log, n) = Sums!AmountAt(log, n)
           /\ IsLedger(log) => Sums!IsLedger(log)
<1>1. SumUpTo(log, n) = Sums!SumUpTo(log, n)
  BY DEF SumUpTo, Sums!SumUpTo, AmountAt, Sums!AmountAt
<1>2. AmountAt(log, n) = Sums!AmountAt(log, n)
  BY DEF AmountAt, Sums!AmountAt
<1>3. IsLedger(log) => Sums!IsLedger(log)
  BY DEF IsLedger, Sums!IsLedger, IsFiniteSet, Sums!IsFiniteSet
<1> QED  BY <1>1, <1>2, <1>3

LEMMA SumOfType ==
    ASSUME NEW S, S \subseteq Requests, NEW rq, HasAmounts(rq)
    PROVE  SumOf(S, rq) \in Nat
<1>1. IsLedger([r \in S |-> rq[r].amount])
  BY AmountsAreLedger
<1> QED  BY <1>1, LedgerAssumption, Sums!SumType, SameSums DEF SumOf

\* Fewer requests add up to no more.
LEMMA SumOfMonotone ==
    ASSUME NEW S, NEW T, S \subseteq T, T \subseteq Requests, NEW rq, HasAmounts(rq)
    PROVE  SumOf(S, rq) <= SumOf(T, rq)
<1> DEFINE A == [r \in S |-> rq[r].amount]
           B == [r \in T |-> rq[r].amount]
<1>1. IsLedger(A) /\ IsLedger(B)
  BY AmountsAreLedger
<1>2. \A t \in Nat : AmountAt(A, t) <= AmountAt(B, t)
  BY DEF AmountAt, HasAmounts
<1>3. \A t \in Nat : Sums!AmountAt(A, t) <= Sums!AmountAt(B, t)
  BY <1>2, SameSums
<1>4. Sums!IsLedger(A) /\ Sums!IsLedger(B)
  BY <1>1, SameSums
<1> HIDE DEF A, B
<1>5. Sums!SumUpTo(A, NumRequests) <= Sums!SumUpTo(B, NumRequests)
  BY <1>3, <1>4, LedgerAssumption, Sums!SumMonotone
<1> QED  BY <1>5, SameSums DEF SumOf, A, B

\* One request more adds its amount.
LEMMA SumOfAdd ==
    ASSUME NEW S, S \subseteq Requests, NEW r \in Requests, r \notin S,
           NEW rq, HasAmounts(rq)
    PROVE  SumOf(S \cup {r}, rq) = SumOf(S, rq) + rq[r].amount
<1> DEFINE A == [q \in S |-> rq[q].amount]
           B == [q \in S \cup {r} |-> rq[q].amount]
           d == rq[r].amount
<1>1. Sums!IsLedger(A) /\ Sums!IsLedger(B)
  BY AmountsAreLedger, SameSums
<1>2. r \in Nat /\ r <= NumRequests /\ NumRequests \in Nat /\ d \in Nat
  BY LedgerAssumption DEF Requests, HasAmounts
<1>3. AmountAt(B, r) = AmountAt(A, r) + d
  BY <1>2 DEF AmountAt
<1>4. \A t \in Nat : t # r => AmountAt(B, t) = AmountAt(A, t)
  BY DEF AmountAt
<1>5. /\ Sums!AmountAt(B, r) = Sums!AmountAt(A, r) + d
      /\ \A t \in Nat : t # r => Sums!AmountAt(B, t) = Sums!AmountAt(A, t)
  BY <1>3, <1>4, SameSums
<1> HIDE DEF A, B, d
<1>6. Sums!SumUpTo(B, NumRequests) = Sums!SumUpTo(A, NumRequests) + d
  BY <1>1, <1>2, <1>5, LedgerAssumption, Sums!SumShift
<1>7. SumUpTo(B, NumRequests) = SumUpTo(A, NumRequests) + d
  BY <1>6, SameSums
<1> QED  BY <1>7 DEF SumOf, A, B, d

LEMMA SumOfNone ==
    ASSUME NEW rq
    PROVE  SumOf({}, rq) = 0
<1> DEFINE E == [r \in {} |-> rq[r].amount]
           Z == {n \in Nat : SumUpTo(E, n) = 0}
<1>1. \A t : AmountAt(E, t) = 0
  BY DEF AmountAt
<1> HIDE DEF E
<1>2. /\ SumUpTo(E, 0) = AmountAt(E, 0) + 0
      /\ \A n \in Nat : SumUpTo(E, n + 1) = AmountAt(E, n + 1) + SumUpTo(E, n)
  BY LedgerAssumption, Sums!SumUpToDef, SameSums
<1>3. 0 \in Z /\ \A n \in Nat : n \in Z => n + 1 \in Z
  BY <1>1, <1>2
<1> HIDE DEF Z
<1>4. Nat \subseteq Z
  BY <1>3, LedgerAssumption, Sums!NatSetInduction
<1>5. SumUpTo(E, NumRequests) = 0
  BY <1>4, LedgerAssumption DEF Z
<1> QED  BY <1>5 DEF SumOf, E

\* A total depends on the amounts of its own requests only.
LEMMA SumOfSame ==
    ASSUME NEW S, NEW rq, NEW rqn, \A r \in S : rqn[r].amount = rq[r].amount
    PROVE  SumOf(S, rqn) = SumOf(S, rq)
<1>1. [r \in S |-> rqn[r].amount] = [r \in S |-> rq[r].amount]
  OBVIOUS
<1> QED  BY <1>1 DEF SumOf

--------------------------------------------------------------------------------
(* Types, and when there is a row *)

\* The steps that work on a row they found or made.
WorksOnRow == {"build", "reserve", "sign", "release", "refresh", "provision", "reread",
               "rewrite"}

RowExists ==
    /\ owner.pc # "idle" => row # AbsentRow /\ owner.call # "none"
    /\ owner.pc = "write" => owner.copy # AbsentRow
    /\ \A r \in Requests :
          /\ req[r].pc \in WorksOnRow => row # AbsentRow
          /\ req[r].pc \in {"provision", "rewrite"} => req[r].copy # AbsentRow

TInv == TypeOK /\ RowExists

LEMMA InitTInv == Init => TInv
<1> SUFFICES ASSUME Init PROVE TInv
  OBVIOUS
<1>1. RowOrAbsent(AbsentRow) /\ IsLog(EmptyLog) /\ IsRow(DefaultRow)
  BY DEF RowOrAbsent, IsRow, IsLog, DefaultRow, EmptyLog, Null
<1>2. IsRequest(Unsent) /\ IsCall(NoCall)
  BY <1>1 DEF IsRequest, IsCall, Unsent, NoCall, Null, Steps
<1>3. RowOrAbsent(row)
  BY <1>1, LedgerAssumption DEF Init, RowOrAbsent, IsRow, DefaultRow
<1>4. TypeOK
  BY <1>2, <1>3, LedgerAssumption DEF Init, TypeOK
<1>5. RowExists
  BY DEF Init, RowExists, Unsent, NoCall, WorksOnRow
<1> QED  BY <1>4, <1>5 DEF TInv

\* What keeps a log a log.
LEMMA LogTypes ==
    ASSUME NEW log, IsLog(log), NEW r \in Requests, NEW S, NEW w, now \in Nat
    PROVE  /\ IsLog(Pushed(log, r, now)) /\ IsLog(Only(log, S))
           /\ IsLog(Recent(log, w)) /\ IsLog(EmptyLog)
BY DEF IsLog, Pushed, Only, Recent, EmptyLog

GoodRequest(q) ==
    IsRequest(q) /\ (q.pc \in {"provision", "rewrite"} => q.copy # AbsentRow)

\* A step of one request, whatever it does to the row, keeps the types if the
\* request and the row are still well typed and the row did not go.
LEMMA OneRequest ==
    ASSUME TInv, NEW r \in Requests, NEW q, GoodRequest(q), req' = [req EXCEPT ![r] = q],
           q.pc \in WorksOnRow => row' # AbsentRow,
           RowOrAbsent(row'), row # AbsentRow => row' # AbsentRow,
           UNCHANGED <<now, owner, ownerCalls>>, hasKey' \in BOOLEAN,
           consent' \in {"none", "resumed", "approved"},
           lost' \in {"none", "create", "release", "refresh", "setStatus"}
    PROVE  TInv'
<1>1. TypeOK'
  BY DEF TInv, TypeOK, GoodRequest
<1>2. RowExists'
  BY DEF TInv, TypeOK, RowExists, GoodRequest
<1> QED  BY <1>1, <1>2 DEF TInv

LEMMA NoteType ==
    ASSUME TInv, NEW c \in {"create", "release", "refresh", "setStatus"}, Note(c)
    PROVE  lost' \in {"none", "create", "release", "refresh", "setStatus"}
BY DEF Note, TInv, TypeOK

\* The two places a request ends up in.
LEMMA EndTypes ==
    ASSUME TInv, NEW r \in Requests, NEW n \in Nat \cup {Null},
           NEW answer \in {"none", "signed", "autoSigned", "declined", "lost"}
    PROVE  /\ GoodRequest(Finished(r, answer)) /\ Finished(r, answer).pc = "done"
           /\ GoodRequest(Queued(r, n)) /\ Queued(r, n).pc = "queued"
           /\ GoodRequest(Declined(r)) /\ Declined(r).pc = "done"
<1>1. IsRequest(req[r])
  BY DEF TInv, TypeOK
<1>2. RowOrAbsent(AbsentRow)
  BY DEF RowOrAbsent
<1>3. \A a \in {"none", "signed", "autoSigned", "declined", "lost"} :
         GoodRequest(Finished(r, a)) /\ Finished(r, a).pc = "done"
  BY ZenonT(30), <1>1, <1>2 DEF GoodRequest, IsRequest, Finished, Unsent, Null, Steps
<1>4. GoodRequest(Queued(r, n)) /\ Queued(r, n).pc = "queued"
  BY <1>1 DEF GoodRequest, IsRequest, Queued, Steps
<1> QED  BY <1>3, <1>4 DEF Declined

\* A request that only moves on, with other notes taken, is still a request.
LEMMA MoveTypes ==
    ASSUME TInv, NEW r \in Requests, NEW step \in Steps \ {"provision", "rewrite"},
           NEW q, q \in {[req[r] EXCEPT !.pc = step]}
    PROVE  GoodRequest(q) /\ q.pc = step
BY DEF TInv, TypeOK, GoodRequest, IsRequest

LEMMA DecidedType ==
    ASSUME TInv, NEW r \in Requests, NEW seen, IsRow(seen), NEW auto \in BOOLEAN
    PROVE  GoodRequest(Decided(r, seen, auto))
<1>1. seen.nonce \in Nat
  BY DEF IsRow
<1>2. /\ GoodRequest(Declined(r)) /\ GoodRequest(Queued(r, Null))
      /\ GoodRequest(Queued(r, seen.nonce))
  BY <1>1, EndTypes
<1>3. IsRequest(req[r]) /\ isMandateLive(seen) \in BOOLEAN
  BY DEF TInv, TypeOK, isMandateLive
<1>4. GoodRequest([req[r] EXCEPT !.pc = "build", !.manual = ~auto \/ ~isMandateLive(seen),
                                 !.nonce = seen.nonce])
  BY <1>1, <1>3 DEF GoodRequest, IsRequest, Steps
<1>5. GoodRequest([req[r] EXCEPT !.pc = "reserve", !.manual = FALSE, !.nonce = seen.nonce])
  BY <1>1, <1>3 DEF GoodRequest, IsRequest, Steps
<1> QED  BY <1>2, <1>4, <1>5 DEF Decided

LEMMA WorkerTInv ==
    ASSUME TInv, NEW r \in Requests, WorkerStep(r)
    PROVE  TInv'
<1> USE DEF TInv, TypeOK
<1>0. IsRequest(req[r]) /\ req[r].nonce \in Nat \cup {Null}
  BY DEF IsRequest
<1>e. /\ GoodRequest(Declined(r)) /\ Declined(r).pc = "done"
      /\ GoodRequest(Queued(r, req[r].nonce)) /\ Queued(r, req[r].nonce).pc = "queued"
  BY <1>0, EndTypes
<1>f. /\ GoodRequest(Finished(r, req[r].answer))
      /\ Finished(r, req[r].answer).pc = "done"
  BY <1>0, EndTypes DEF IsRequest
<1>1. CASE ScreenedOut(r)
  BY <1>1, EndTypes, OneRequest DEF ScreenedOut, WorksOnRow
<1>2. CASE readAllowance(r)
  <2>1. CASE row = AbsentRow
    BY <1>2, <2>1, MoveTypes, OneRequest DEF readAllowance, WorksOnRow, Steps
  <2>2. CASE row # AbsentRow
    BY <1>2, <2>2, DecidedType, OneRequest, LedgerAssumption DEF readAllowance, RowOrAbsent
  <2> QED  BY <2>1, <2>2
<1>3. CASE createDefaultAllowance(r)
  <2>1. IsRow(DefaultRow) /\ DefaultRow # AbsentRow
    BY DEF IsRow, IsLog, EmptyLog, DefaultRow, AbsentRow, Null
  <2>2. PICK auto \in BOOLEAN : req' = [req EXCEPT ![r] = Decided(r, DefaultRow, auto)]
    BY <1>3, LedgerAssumption DEF createDefaultAllowance
  <2>3. GoodRequest(Decided(r, DefaultRow, auto))
    BY <2>1, DecidedType
  <2> QED  BY <1>3, <2>1, <2>2, <2>3, NoteType, OneRequest
           DEF createDefaultAllowance, RowOrAbsent
<1>4. CASE buildX402Payment(r)
  <2>1. GoodRequest([req[r] EXCEPT !.pc = "reserve"])
    BY MoveTypes DEF Steps
  <2>2. row # AbsentRow
    BY <1>4 DEF buildX402Payment, WorksOnRow, RowExists
  <2> QED  BY <1>4, <1>e, <2>1, <2>2, OneRequest DEF buildX402Payment
<1>5. CASE tryReserveSpend(r)
  <2>1. IsRow(row)
    BY <1>5 DEF tryReserveSpend, RowExists, WorksOnRow, RowOrAbsent
  <2>2. IsRow(row') /\ row' # AbsentRow
    BY <1>5, <2>1, LogTypes DEF tryReserveSpend, IsRow, AbsentRow
  <2>3. GoodRequest([Queued(r, req[r].nonce) EXCEPT !.at = now])
    BY <1>e DEF GoodRequest, IsRequest
  <2>4. GoodRequest([req[r] EXCEPT !.pc = "sign", !.at = now])
    BY <1>0 DEF GoodRequest, IsRequest, Steps
  <2>5. GoodRequest([[req[r] EXCEPT !.pc = "sign"] EXCEPT !.at = now])
    BY <2>4, <1>0 DEF IsRequest
  <2> QED  BY <1>5, <2>2, <2>3, <2>5, OneRequest DEF tryReserveSpend, RowOrAbsent
<1>6. CASE ReserveRefused(r)
  BY <1>6, <1>e, OneRequest DEF ReserveRefused, WorksOnRow
<1>7. CASE AutoSigns(r)
  BY SMTT(30), <1>7, MoveTypes, OneRequest DEF AutoSigns, WorksOnRow, RowExists, Steps
<1>19. CASE Records(r)
  BY <1>19, EndTypes, OneRequest DEF Records, WorksOnRow
<1>20. CASE RecordFails(r)
  <2>1. /\ GoodRequest(Finished(r, "lost")) /\ Finished(r, "lost").pc = "done"
        /\ GoodRequest(Queued(r, Null)) /\ Queued(r, Null).pc = "queued"
    BY EndTypes
  <2>2. \E e \in {Finished(r, "lost"), Queued(r, Null)} : req' = [req EXCEPT ![r] = e]
    BY <1>20 DEF RecordFails
  <2> QED  BY <1>20, <2>1, <2>2, OneRequest DEF RecordFails, WorksOnRow
<1>8. CASE AutoSignFails(r)
  BY SMTT(30), <1>8, MoveTypes, OneRequest DEF AutoSignFails, WorksOnRow, RowExists, Steps
<1>9. CASE releaseReservedSpend(r)
  <2>1. IsRow(row)
    BY <1>9 DEF releaseReservedSpend, RowExists, WorksOnRow, RowOrAbsent
  <2>2. IsRow(row') /\ row' # AbsentRow
    BY <1>9, <2>1, LogTypes DEF releaseReservedSpend, IsRow, AbsentRow
  <2>3. /\ GoodRequest([Declined(r) EXCEPT !.at = Null])
        /\ GoodRequest([Queued(r, req[r].nonce) EXCEPT !.at = Null])
    BY <1>e DEF GoodRequest, IsRequest, Null
  <2> QED  BY <1>9, <2>2, <2>3, NoteType, OneRequest DEF releaseReservedSpend, RowOrAbsent
<1>10. CASE performSign(r)
  <2>1. GoodRequest(Finished(r, "signed")) /\ Finished(r, "signed").pc = "done"
    BY EndTypes
  <2> DEFINE q == [req[r] EXCEPT !.answer = "signed", !.pc = "before"]
  <2>2. GoodRequest(q) /\ q.pc = "before"
    BY <1>0 DEF GoodRequest, IsRequest, Steps
  <2>3. \E e \in {Declined(r), Finished(r, "signed"), q} : req' = [req EXCEPT ![r] = e]
    BY <1>10 DEF performSign
  <2> HIDE DEF q
  <2> QED  BY <1>10, <1>e, <2>1, <2>2, <2>3, OneRequest DEF performSign, WorksOnRow
<1>11. CASE ReadBefore(r)
  <2>1. (row # AbsentRow /\ isMandateLive(row)) \in BOOLEAN
    BY DEF isMandateLive
  <2> DEFINE q == [req[r] EXCEPT !.pc = "promote",
                                 !.live = row # AbsentRow /\ isMandateLive(row)]
  <2>2. GoodRequest(q) /\ q.pc = "promote" /\ req' = [req EXCEPT ![r] = q]
    BY ZenonT(30), <1>0, <1>11, <2>1 DEF ReadBefore, GoodRequest, IsRequest, Steps
  <2> HIDE DEF q
  <2> QED  BY <1>11, <2>2, OneRequest DEF ReadBefore, WorksOnRow
<1>12. CASE promoteAllowance(r)
  <2>1. IsRow(row)
    BY <1>12 DEF promoteAllowance, RowOrAbsent
  <2>2. IsRow(row') /\ row' # AbsentRow
    <3>1. now + MandateMs \in Nat /\ row.nonce + 1 \in Nat
      BY <2>1, LedgerAssumption DEF IsRow
    <3>2. \A e, n \in Nat : IsRow([row EXCEPT !.status = "active", !.expiresAt = e, !.nonce = n])
      BY <2>1 DEF IsRow
    <3>3. row' = [row EXCEPT !.status = "active", !.expiresAt = now + MandateMs,
                             !.nonce = row.nonce + 1]
      BY <1>12 DEF promoteAllowance
    <3> QED  BY <3>1, <3>2, <3>3 DEF IsRow, AbsentRow
  <2>3. GoodRequest([req[r] EXCEPT !.pc = "refresh"])
    BY MoveTypes DEF Steps
  <2> QED  BY <1>12, <2>2, <2>3, OneRequest DEF promoteAllowance, RowOrAbsent
<1>13. CASE PromotionSkipped(r)
  BY <1>13, <1>f, OneRequest DEF PromotionSkipped, WorksOnRow
<1>14. CASE refreshSubKeyAfterApproval(r)
  <2>1. row # AbsentRow
    BY <1>14 DEF refreshSubKeyAfterApproval, WorksOnRow, RowExists
  <2>2. GoodRequest([req[r] EXCEPT !.pc = "provision", !.copy = row, !.live = hasKey])
    BY <1>0, <2>1 DEF GoodRequest, IsRequest, Steps
  <2> QED  BY <1>14, <1>f, <2>1, <2>2, OneRequest DEF refreshSubKeyAfterApproval, WorksOnRow
<1>15. CASE SubKeyMinted(r)
  <2>1. row # AbsentRow /\ req[r].copy # AbsentRow
    BY <1>15 DEF SubKeyMinted, WorksOnRow, RowExists
  <2>2. GoodRequest([req[r] EXCEPT !.pc = "rewrite"])
    BY <1>0, <2>1 DEF GoodRequest, IsRequest, Steps
  <2> QED  BY <1>15, <2>1, <2>2, OneRequest DEF SubKeyMinted
<1>16. CASE MintingFails(r)
  <2>1. row # AbsentRow /\ RowOrAbsent(AbsentRow)
    BY <1>16 DEF MintingFails, WorksOnRow, RowExists, RowOrAbsent
  <2>2. GoodRequest([req[r] EXCEPT !.pc = "reread", !.copy = AbsentRow])
    BY <1>0, <2>1 DEF GoodRequest, IsRequest, Steps
  <2>3. (hasKey /\ ~req[r].live) \in BOOLEAN
    OBVIOUS
  <2> QED  BY <1>16, <1>f, <2>1, <2>2, <2>3, OneRequest DEF MintingFails
<1>17. CASE RereadRow(r)
  <2>1. row # AbsentRow
    BY <1>17 DEF RereadRow, WorksOnRow, RowExists
  <2>2. GoodRequest([req[r] EXCEPT !.pc = "rewrite", !.copy = row])
    BY <1>0, <2>1 DEF GoodRequest, IsRequest, Steps
  <2> QED  BY <1>17, <2>1, <2>2, OneRequest DEF RereadRow
<1>18. CASE RewriteRow(r)
  <2>1. RowOrAbsent(req[r].copy) /\ req[r].copy # AbsentRow
    BY <1>0, <1>18 DEF RewriteRow, RowExists, IsRequest
  <2> QED  BY <1>18, <1>f, <2>1, NoteType, OneRequest DEF RewriteRow
<1> QED  BY <1>1, <1>2, <1>3, <1>4, <1>5, <1>6, <1>7, <1>8, <1>9, <1>10, <1>11, <1>12,
            <1>13, <1>14, <1>15, <1>16, <1>17, <1>18, <1>19, <1>20 DEF WorkerStep

LEMMA NextTInv == TInv /\ [Next]_vars => TInv'
<1> SUFFICES ASSUME TInv, [Next]_vars PROVE TInv'
  OBVIOUS
<1>0. TypeOK /\ \A r \in Requests : IsRequest(req[r])
  BY DEF TInv, TypeOK
<1>1. CASE UNCHANGED vars
  BY <1>1 DEF TInv, TypeOK, RowExists, vars
<1>2. ASSUME NEW r \in Requests, NEW kind \in EntryPoints, NEW amount \in Amounts,
             Arrives(r, kind, amount)
      PROVE  TInv'
  <2> DEFINE q == [req[r] EXCEPT !.pc = "read", !.kind = kind, !.amount = amount]
  <2>1. kind \in {"review", "auth"} /\ amount \in Nat
    BY LedgerAssumption
  <2>2. req' = [req EXCEPT ![r] = q]
    BY <1>2 DEF Arrives
  <2>3. IsRequest(q) /\ q.pc = "read"
    BY ZenonT(30), <1>0, <2>1 DEF IsRequest, Steps
  <2>4. GoodRequest(q)
    BY <2>3 DEF GoodRequest
  <2> HIDE DEF q
  <2> QED  BY <1>0, <1>2, <2>2, <2>3, <2>4, OneRequest DEF Arrives, WorksOnRow, TypeOK
<1>3. ASSUME NEW r \in Requests, WorkerStep(r) PROVE TInv'
  BY <1>3, WorkerTInv
<1>4. ASSUME NEW r \in Requests, UserApproves(r) PROVE TInv'
  <2> DEFINE q == [req[r] EXCEPT !.pc = "perform"]
  <2>1. GoodRequest(q) /\ q.pc = "perform" /\ req' = [req EXCEPT ![r] = q]
    BY <1>0, <1>4 DEF UserApproves, GoodRequest, IsRequest, Steps
  <2> HIDE DEF q
  <2> QED  BY <1>0, <1>4, <2>1, OneRequest DEF UserApproves, WorksOnRow, TypeOK
<1>5. ASSUME NEW r \in Requests, UserDeclines(r) PROVE TInv'
  <2>1. GoodRequest(Declined(r)) /\ Declined(r).pc = "done"
    BY EndTypes DEF Null
  <2> QED  BY <1>0, <1>5, <2>1, OneRequest DEF UserDeclines, WorksOnRow, TypeOK
<1>6. ASSUME NEW c \in OwnerCalls, OwnerCallStarts(c) PROVE TInv'
  <2>1. c \in {"pause", "unpause", "revoke"}
    BY LedgerAssumption
  <2>2. IsCall(owner') /\ owner'.call # "none" /\ owner'.pc # "write"
    BY <1>6, <2>1 DEF OwnerCallStarts, IsCall, NoCall, RowOrAbsent
  <2>3. TypeOK'
    BY <1>0, <1>6, <2>2 DEF OwnerCallStarts, TypeOK
  <2>4. RowExists'
    BY <1>6, <2>2 DEF OwnerCallStarts, TInv, RowExists
  <2> QED  BY <2>3, <2>4 DEF TInv
<1>7. CASE RemoveSubKeys
  BY <1>7 DEF RemoveSubKeys, TInv, TypeOK, RowExists, IsCall, NoCall, RowOrAbsent
<1>8. CASE setStatusRead
  BY <1>8 DEF setStatusRead, TInv, TypeOK, RowExists, IsCall
<1>9. CASE setStatusWrite
  <2>1. IsRow(owner.copy) /\ owner.call \in {"pause", "unpause", "revoke"}
    BY <1>9 DEF setStatusWrite, TInv, TypeOK, RowExists, IsCall, RowOrAbsent
  <2>2. IsRow(row') /\ row' # AbsentRow
    BY <1>9, <2>1 DEF setStatusWrite, StatusAfter, IsRow, AbsentRow
  <2>3. IsCall(owner') /\ owner'.pc = "idle"
    BY <1>9 DEF setStatusWrite, NoCall, IsCall, RowOrAbsent
  <2>4. lost' \in {"none", "create", "release", "refresh", "setStatus"}
    BY <1>9, NoteType DEF setStatusWrite
  <2>5. TypeOK'
    BY <1>0, <1>9, <2>2, <2>3, <2>4 DEF setStatusWrite, TypeOK, RowOrAbsent
  <2>6. RowExists'
    BY <1>9, <2>2, <2>3 DEF setStatusWrite, TInv, RowExists
  <2> QED  BY <2>5, <2>6 DEF TInv
<1>10. CASE WorkerDies
  <2>1. \A r \in Requests, a \in {"none", "signed", "autoSigned", "declined", "lost"} :
           GoodRequest(Finished(r, a)) /\ Finished(r, a).pc = "done"
    BY EndTypes DEF Null
  <2>2. \A r \in Requests : GoodRequest(req'[r]) /\ req'[r].pc \notin WorksOnRow
    BY <1>0, <1>10, <2>1 DEF WorkerDies, InFlight, GoodRequest, WorksOnRow, IsRequest
  <2>3. IsCall(owner') /\ owner'.pc = "idle"
    BY <1>10 DEF WorkerDies, NoCall, IsCall, RowOrAbsent
  <2>4. TypeOK'
    BY <1>0, <1>10, <2>2, <2>3 DEF WorkerDies, TypeOK, GoodRequest
  <2>5. RowExists'
    BY <2>2, <2>3 DEF RowExists, GoodRequest, WorksOnRow
  <2> QED  BY <2>4, <2>5 DEF TInv
<1>11. CASE Tick
  BY <1>11, LedgerAssumption DEF Tick, TInv, TypeOK, RowExists
<1> QED  BY <1>1, <1>2, <1>3, <1>4, <1>5, <1>6, <1>7, <1>8, <1>9, <1>10, <1>11
         DEF Next, OwnerStep

LEMMA Typing == Spec => []TInv
BY InitTInv, NextTInv, PTL DEF Spec

\* Every reachable state of the ledger is well typed: what is queued, copied and
\* logged is what the code's types say, whatever raced.
THEOREM TypeCorrect == Spec => []TypeOK
<1>1. TInv => TypeOK
  BY DEF TInv
<1> QED  BY <1>1, Typing, PTL

--------------------------------------------------------------------------------
(* The caps, on the row and on every copy of it *)

\* A request that has not reserved: it is in no log, and may still change.
Early == {"idle", "read", "create", "build", "reserve"}

Young(log, window, t) == {e \in DOMAIN log : t - log[e] < window}

WithinCaps(a, rq, t) ==
    a # AbsentRow =>
        /\ \A e \in DOMAIN a.log : rq[e].pc \notin Early
        /\ Within(CapPerDay, SumOf(Young(a.log, DAY_MS, t), rq))
        /\ Within(CapPerHour, SumOf(Young(a.log, HOUR_MS, t), rq))

\* A copy may be written back at any time, so it has to be within the caps too.
CapInv ==
    /\ WithinCaps(row, req, now) /\ WithinCaps(owner.copy, req, now)
    /\ \A r \in Requests : WithinCaps(req[r].copy, req, now)

\* Requests that may be in a log keep their amounts.
Keeps(rq, rqn) ==
    \A e \in Requests : rq[e].pc \notin Early =>
        rqn[e].pc \notin Early /\ rqn[e].amount = rq[e].amount

\* Everything b has logged, a had.
Sublog(b, a) ==
    DOMAIN b.log \subseteq DOMAIN a.log /\ \A e \in DOMAIN b.log : b.log[e] = a.log[e]

\* Later, and with less in the log, a row that was within the caps still is.
LEMMA StaysWithin ==
    ASSUME NEW a, IsRow(a), NEW b, IsRow(b), Sublog(b, a),
           NEW rq, HasAmounts(rq), NEW rqn, HasAmounts(rqn), Keeps(rq, rqn),
           NEW t \in Nat, NEW tn \in Nat, t <= tn, WithinCaps(a, rq, t)
    PROVE  WithinCaps(b, rqn, tn)
<1>1. a # AbsentRow /\ IsLog(a.log) /\ IsLog(b.log)
  BY DEF IsRow, AbsentRow
<1>2. \A e \in DOMAIN b.log : /\ rq[e].pc \notin Early /\ rqn[e].pc \notin Early
                              /\ rqn[e].amount = rq[e].amount
  BY <1>1 DEF Sublog, WithinCaps, Keeps, IsLog
<1>3. ASSUME NEW w \in Int
      PROVE  /\ SumOf(Young(b.log, w, tn), rqn) <= SumOf(Young(a.log, w, t), rq)
             /\ SumOf(Young(b.log, w, tn), rqn) \in Nat
             /\ SumOf(Young(a.log, w, t), rq) \in Nat
  <2> DEFINE Y == Young(b.log, w, tn)
             X == Young(a.log, w, t)
  <2>1. Y \subseteq X
    BY <1>1 DEF Young, Sublog, IsLog
  <2>2. X \subseteq Requests /\ Y \subseteq Requests /\ Y \subseteq DOMAIN b.log
    BY <1>1 DEF Young, IsLog
  <2> HIDE DEF X, Y
  <2>3. SumOf(Y, rqn) = SumOf(Y, rq)
    BY <1>2, <2>2, SumOfSame
  <2>4. SumOf(Y, rq) <= SumOf(X, rq)
    BY <2>1, <2>2, SumOfMonotone
  <2>5. SumOf(Y, rqn) \in Nat /\ SumOf(X, rq) \in Nat
    BY <2>2, SumOfType
  <2> QED  BY <2>3, <2>4, <2>5 DEF X, Y
<1>4. DAY_MS \in Int /\ HOUR_MS \in Int /\ CapPerDay \in Nat /\ CapPerHour \in Nat
  BY LedgerAssumption
<1> QED  BY <1>1, <1>2, <1>3, <1>4 DEF WithinCaps, Within

LEMMA FreshWithin ==
    ASSUME NEW rq, NEW t
    PROVE  WithinCaps(DefaultRow, rq, t) /\ WithinCaps(AbsentRow, rq, t)
<1>1. DefaultRow.log = EmptyLog /\ DOMAIN EmptyLog = {}
  BY DEF DefaultRow, EmptyLog
<1>2. Young(EmptyLog, DAY_MS, t) = {} /\ Young(EmptyLog, HOUR_MS, t) = {}
  BY <1>1 DEF Young
<1>3. CapPerDay \in Nat /\ CapPerHour \in Nat
  BY LedgerAssumption
<1> QED  BY <1>1, <1>2, <1>3, SumOfNone DEF WithinCaps, Within

\* The check and the push of tryReserveSpend are about the same entries.
LEMMA ReserveWithin ==
    ASSUME TInv, CapInv, NEW r \in Requests, tryReserveSpend(r), TInv'
    PROVE  WithinCaps(row', req', now')
<1>1. /\ IsRow(row) /\ IsLog(row.log) /\ row # AbsentRow /\ now \in Nat
      /\ HasAmounts(req) /\ HasAmounts(req')
  BY DEF tryReserveSpend, TInv, TypeOK, RowExists, WorksOnRow, RowOrAbsent, IsRow, IsRequest,
         HasAmounts
<1> DEFINE old == row.log
           new == Pushed(Recent(old, DAY_MS), r, now)
<1>2. row'.log = new /\ now' = now
  BY <1>1 DEF tryReserveSpend, IsRow
<1>3. /\ req'[r].pc \notin Early /\ req'[r].amount = req[r].amount
      /\ \A e \in Requests \ {r} : req'[e] = req[e]
  <2> DEFINE q == [Queued(r, req[r].nonce) EXCEPT !.at = now]
             s == [[req[r] EXCEPT !.pc = "sign"] EXCEPT !.at = now]
  <2>1. IsRequest(req[r]) /\ req = [e \in Requests |-> req[e]]
    BY DEF TInv, TypeOK
  <2>2. q.pc = "queued" /\ q.amount = req[r].amount /\ s.pc = "sign" /\ s.amount = req[r].amount
    BY <2>1 DEF Queued, IsRequest
  <2>3. req' = [req EXCEPT ![r] = q] \/ req' = [req EXCEPT ![r] = s]
    BY DEF tryReserveSpend
  <2> HIDE DEF q, s
  <2> QED  BY <2>1, <2>2, <2>3 DEF Early
<1>4. r \notin DOMAIN old /\ \A e \in DOMAIN old : req[e].pc \notin Early
  BY <1>1 DEF CapInv, WithinCaps, tryReserveSpend, Early
<1>5. 0 < HOUR_MS /\ HOUR_MS <= DAY_MS /\ HOUR_MS \in Int /\ DAY_MS \in Int
  BY LedgerAssumption
<1>6. ASSUME NEW w \in {DAY_MS, HOUR_MS}
      PROVE  SumOf(Young(new, w, now), req')
                = Total(DOMAIN Recent(old, w)) + req[r].amount
  <2> DEFINE Y == Young(old, w, now)
  <2>1. Y \subseteq Requests /\ Y \subseteq DOMAIN old /\ r \notin Y
    BY <1>1, <1>4 DEF Young, IsLog
  <2>2. Young(new, w, now) = Y \cup {r}
    BY <1>1, <1>4, <1>5 DEF Young, Pushed, Recent, Only, IsLog
  <2>3. DOMAIN Recent(old, w) = Y
    BY DEF Recent, Only, Young
  <2>4. Total(Y) = SumOf(Y, req)
    BY DEF Total, SumOf
  <2> HIDE DEF Y
  <2>5. SumOf(Y, req') = SumOf(Y, req)
    BY <1>1, <1>3, <2>1, SumOfSame
  <2>6. SumOf(Y \cup {r}, req') = SumOf(Y, req') + req'[r].amount
    BY <1>1, <2>1, SumOfAdd
  <2> QED  BY <1>3, <2>2, <2>3, <2>4, <2>5, <2>6
<1>7. /\ Within(CapPerDay, SumOf(Young(new, DAY_MS, now), req'))
      /\ Within(CapPerHour, SumOf(Young(new, HOUR_MS, now), req'))
  BY <1>6 DEF tryReserveSpend, CapsAllow
<1>8. \A e \in DOMAIN new : req'[e].pc \notin Early
  BY <1>1, <1>3, <1>4 DEF Pushed, Recent, Only, IsLog
<1> HIDE DEF new
<1> QED  BY <1>2, <1>7, <1>8 DEF WithinCaps

\* What one request is replaced by: an early one may be anything, a later one
\* keeps its amount and does not become early again; a copy is of the row.
LEMMA OneKeeps ==
    ASSUME TInv, NEW r \in Requests, NEW q, req' = [req EXCEPT ![r] = q],
           req[r].pc \in Early \/ (q.pc \notin Early /\ q.amount = req[r].amount),
           q.copy \in {req[r].copy, row, AbsentRow}
    PROVE  /\ Keeps(req, req')
           /\ \A e \in Requests : req'[e].copy \in {req[e].copy, row, AbsentRow}
BY DEF TInv, TypeOK, Keeps

LEMMA EndKeeps ==
    ASSUME TInv, NEW r \in Requests, NEW n, NEW answer
    PROVE  /\ Finished(r, answer).pc = "done" /\ Finished(r, answer).amount = req[r].amount
           /\ Finished(r, answer).copy = AbsentRow
           /\ Declined(r).pc = "done" /\ Declined(r).amount = req[r].amount
           /\ Declined(r).copy = AbsentRow
           /\ Queued(r, n).pc = "queued" /\ Queued(r, n).amount = req[r].amount
           /\ Queued(r, n).copy = req[r].copy
BY DEF Finished, Declined, Queued, Unsent, TInv, TypeOK, IsRequest

LEMMA DecidedCopy ==
    ASSUME TInv, NEW r \in Requests, NEW seen, NEW auto
    PROVE  Decided(r, seen, auto).copy \in {req[r].copy, AbsentRow}
<1>1. IsRequest(req[r])
  BY DEF TInv, TypeOK
<1> QED  BY <1>1, EndKeeps DEF Decided, IsRequest

RequestsKeep ==
    /\ Keeps(req, req')
    /\ \A e \in Requests : req'[e].copy \in {req[e].copy, row, AbsentRow}

LEMMA WorkerKeeps ==
    ASSUME TInv, NEW r \in Requests, WorkerStep(r)
    PROVE  RequestsKeep
<1> USE DEF RequestsKeep, Early
<1>0. IsRequest(req[r])
  BY DEF TInv, TypeOK
<1>1. CASE ScreenedOut(r)
  BY <1>1, EndKeeps, OneKeeps DEF ScreenedOut
<1>2. CASE readAllowance(r)
  <2>1. CASE row = AbsentRow
    BY <1>0, <1>2, <2>1, OneKeeps DEF readAllowance, IsRequest
  <2>2. CASE row # AbsentRow
    <3>1. PICK auto \in AutoApprove : req' = [req EXCEPT ![r] = Decided(r, row, auto)]
      BY <1>2, <2>2 DEF readAllowance
    <3>2. Decided(r, row, auto).copy \in {req[r].copy, AbsentRow}
      BY DecidedCopy
    <3> QED  BY <1>2, <3>1, <3>2, OneKeeps DEF readAllowance
  <2> QED  BY <2>1, <2>2
<1>3. CASE createDefaultAllowance(r)
  <2>1. PICK auto \in AutoApprove : req' = [req EXCEPT ![r] = Decided(r, DefaultRow, auto)]
    BY <1>3 DEF createDefaultAllowance
  <2>2. Decided(r, DefaultRow, auto).copy \in {req[r].copy, AbsentRow}
    BY DecidedCopy
  <2> QED  BY <1>3, <2>1, <2>2, OneKeeps DEF createDefaultAllowance
<1>4. CASE buildX402Payment(r)
  <2> DEFINE q == [req[r] EXCEPT !.pc = "reserve"]
  <2>1. q.copy = req[r].copy /\ req[r].pc \in Early
    BY <1>0, <1>4 DEF buildX402Payment, IsRequest
  <2>2. PICK e \in {Declined(r), q} : req' = [req EXCEPT ![r] = e]
    BY <1>4 DEF buildX402Payment
  <2>3. Declined(r).copy = AbsentRow
    BY EndKeeps
  <2>4. e.copy \in {req[r].copy, row, AbsentRow}
    BY <2>1, <2>3
  <2> QED  BY <2>1, <2>2, <2>4, OneKeeps
<1>5. CASE tryReserveSpend(r)
  BY <1>0, <1>5, EndKeeps, OneKeeps DEF tryReserveSpend, IsRequest, Queued
<1>6. CASE ReserveRefused(r)
  BY ZenonT(30), <1>6, EndKeeps, OneKeeps DEF ReserveRefused
<1>7. CASE AutoSigns(r)
  BY <1>0, <1>7, OneKeeps DEF AutoSigns, IsRequest
<1>19. CASE Records(r)
  BY ZenonT(30), <1>19, EndKeeps, OneKeeps DEF Records
<1>20. CASE RecordFails(r)
  BY ZenonT(30), <1>20, EndKeeps, OneKeeps DEF RecordFails
<1>8. CASE AutoSignFails(r)
  BY <1>0, <1>8, OneKeeps DEF AutoSignFails, IsRequest
<1>9. CASE releaseReservedSpend(r)
  BY <1>0, <1>9, OneKeeps DEF releaseReservedSpend, IsRequest, Declined, Finished, Queued, Unsent
<1>10. CASE performSign(r)
  <2> DEFINE q == [req[r] EXCEPT !.answer = "signed", !.pc = "before"]
  <2>1. q.copy = req[r].copy /\ q.pc = "before" /\ q.amount = req[r].amount
    BY <1>0 DEF IsRequest
  <2>2. PICK e \in {Declined(r), Finished(r, "signed"), q} : req' = [req EXCEPT ![r] = e]
    BY <1>10 DEF performSign
  <2>3. \A f \in {Declined(r), Finished(r, "signed")} :
           f.copy = AbsentRow /\ f.pc = "done" /\ f.amount = req[r].amount
    BY EndKeeps
  <2>4. /\ e.copy \in {req[r].copy, row, AbsentRow}
        /\ e.pc \notin Early /\ e.amount = req[r].amount
    BY <2>1, <2>3
  <2> QED  BY <2>2, <2>4, OneKeeps
<1>11. CASE ReadBefore(r)
  BY <1>0, <1>11, OneKeeps DEF ReadBefore, IsRequest
<1>12. CASE promoteAllowance(r)
  BY <1>0, <1>12, OneKeeps DEF promoteAllowance, IsRequest
<1>13. CASE PromotionSkipped(r)
  BY ZenonT(30), <1>13, EndKeeps, OneKeeps DEF PromotionSkipped
<1>14. CASE refreshSubKeyAfterApproval(r)
  BY ZenonT(30), <1>0, <1>14, EndKeeps, OneKeeps DEF refreshSubKeyAfterApproval, IsRequest
<1>15. CASE SubKeyMinted(r)
  BY <1>0, <1>15, OneKeeps DEF SubKeyMinted, IsRequest
<1>16. CASE MintingFails(r)
  BY ZenonT(30), <1>0, <1>16, EndKeeps, OneKeeps DEF MintingFails, IsRequest
<1>17. CASE RereadRow(r)
  BY <1>0, <1>17, OneKeeps DEF RereadRow, IsRequest
<1>18. CASE RewriteRow(r)
  BY ZenonT(30), <1>18, EndKeeps, OneKeeps DEF RewriteRow
<1> QED  BY <1>1, <1>2, <1>3, <1>4, <1>5, <1>6, <1>7, <1>8, <1>9, <1>10, <1>11, <1>12,
            <1>13, <1>14, <1>15, <1>16, <1>17, <1>18, <1>19, <1>20 DEF WorkerStep

LEMMA NextKeeps ==
    ASSUME TInv, [Next]_vars
    PROVE  RequestsKeep
<1>0. \A r \in Requests : IsRequest(req[r])
  BY DEF TInv, TypeOK
<1>1. ASSUME UNCHANGED req PROVE RequestsKeep
  BY <1>1 DEF RequestsKeep, Keeps
<1>2. ASSUME NEW r \in Requests, NEW kind \in EntryPoints, NEW amount \in Amounts,
             Arrives(r, kind, amount)
      PROVE  RequestsKeep
  BY <1>0, <1>2, OneKeeps DEF Arrives, IsRequest, RequestsKeep, Early
<1>3. ASSUME NEW r \in Requests, WorkerStep(r) PROVE RequestsKeep
  BY <1>3, WorkerKeeps
<1>4. ASSUME NEW r \in Requests, UserApproves(r) PROVE RequestsKeep
  BY <1>0, <1>4, OneKeeps DEF UserApproves, IsRequest, RequestsKeep, Early
<1>5. ASSUME NEW r \in Requests, UserDeclines(r) PROVE RequestsKeep
  BY <1>5, EndKeeps, OneKeeps DEF UserDeclines, RequestsKeep, Early
<1>6. CASE WorkerDies
  BY <1>0, <1>6, EndKeeps DEF WorkerDies, RequestsKeep, Keeps, Early
<1>7. ASSUME NEW c \in OwnerCalls, OwnerCallStarts(c) PROVE UNCHANGED req
  BY <1>7 DEF OwnerCallStarts
<1>8. OwnerStep \/ Tick \/ UNCHANGED vars => UNCHANGED req
  BY DEF OwnerStep, RemoveSubKeys, setStatusRead, setStatusWrite, Tick, vars
<1> QED  BY <1>1, <1>2, <1>3, <1>4, <1>5, <1>6, <1>7, <1>8 DEF Next

\* Where the row of the next state comes from: a row somebody held, perhaps with
\* less in its log, a fresh one, or a reservation.
ComesFrom(a) == IsRow(a) /\ IsRow(row') /\ Sublog(row', a)

RowOrigin ==
    \/ row' = row \/ row' = DefaultRow
    \/ ComesFrom(row) \/ ComesFrom(owner.copy)
    \/ \E r \in Requests : ComesFrom(req[r].copy) \/ tryReserveSpend(r)

LEMMA NextRowOrigin ==
    ASSUME TInv, TInv', [Next]_vars
    PROVE  RowOrigin
<1>0. RowOrAbsent(row) /\ RowOrAbsent(row')
  BY DEF TInv, TypeOK
<1>1. ASSUME NEW r \in Requests, releaseReservedSpend(r) PROVE RowOrigin
  <2>1. IsRow(row) /\ IsRow(row')
    BY <1>0, <1>1
       DEF releaseReservedSpend, TInv, RowExists, WorksOnRow, RowOrAbsent, AbsentRow, IsRow
  <2> QED  BY <1>1, <2>1 DEF releaseReservedSpend, RowOrigin, ComesFrom, Sublog, Recent, Only, IsRow
<1>2. ASSUME NEW r \in Requests, promoteAllowance(r) PROVE RowOrigin
  <2>1. IsRow(row) /\ IsRow(row')
    BY <1>0, <1>2 DEF promoteAllowance, RowOrAbsent, AbsentRow, IsRow
  <2> QED  BY <1>2, <2>1 DEF promoteAllowance, RowOrigin, ComesFrom, Sublog, IsRow
<1>3. ASSUME NEW r \in Requests, RewriteRow(r) PROVE RowOrigin
  <2>1. row' = req[r].copy /\ row' # AbsentRow
    BY <1>3 DEF RewriteRow, TInv, RowExists
  <2> QED  BY <1>0, <2>1 DEF RowOrigin, ComesFrom, Sublog, RowOrAbsent
<1>4. CASE setStatusWrite
  <2>1. IsRow(owner.copy)
    BY <1>4 DEF setStatusWrite, TInv, TypeOK, RowExists, IsCall, RowOrAbsent
  <2>2. IsRow(row') /\ row'.log = owner.copy.log
    BY <1>0, <1>4, <2>1 DEF setStatusWrite, RowOrAbsent, AbsentRow, IsRow, StatusAfter
  <2> QED  BY <2>1, <2>2 DEF RowOrigin, ComesFrom, Sublog
<1>5. ASSUME NEW r \in Requests, WorkerStep(r) PROVE RowOrigin
  BY <1>1, <1>2, <1>3, <1>5
     DEF WorkerStep, RowOrigin, ScreenedOut, readAllowance, createDefaultAllowance,
         buildX402Payment, ReserveRefused, AutoSigns, AutoSignFails, Records, RecordFails,
         performSign, ReadBefore, PromotionSkipped, refreshSubKeyAfterApproval, SubKeyMinted,
         MintingFails, RereadRow
<1>6. ASSUME UNCHANGED row PROVE RowOrigin
  BY <1>6 DEF RowOrigin
<1>7. ASSUME NEW r \in Requests, NEW kind, NEW amount,
             Arrives(r, kind, amount) \/ UserApproves(r) \/ UserDeclines(r)
      PROVE  UNCHANGED row
  BY <1>7 DEF Arrives, UserApproves, UserDeclines
<1>8. ASSUME NEW c, OwnerCallStarts(c) PROVE UNCHANGED row
  BY <1>8 DEF OwnerCallStarts
<1>9. RemoveSubKeys \/ setStatusRead \/ WorkerDies \/ Tick \/ UNCHANGED vars => UNCHANGED row
  BY DEF RemoveSubKeys, setStatusRead, WorkerDies, Tick, vars
<1> QED  BY <1>4, <1>5, <1>6, <1>7, <1>8, <1>9 DEF Next, OwnerStep

\* A request's step leaves the clock and the owner's call alone.
LEMMA WorkerOthers ==
    ASSUME NEW r, WorkerStep(r)
    PROVE  now' = now /\ owner' = owner
<1>1. ScreenedOut(r) \/ readAllowance(r) \/ createDefaultAllowance(r) \/ buildX402Payment(r)
      => now' = now /\ owner' = owner
  BY DEF ScreenedOut, readAllowance, createDefaultAllowance, buildX402Payment
<1>2. tryReserveSpend(r) \/ ReserveRefused(r) \/ AutoSigns(r) \/ AutoSignFails(r)
      => now' = now /\ owner' = owner
  BY DEF tryReserveSpend, ReserveRefused, AutoSigns, AutoSignFails
<1>3. releaseReservedSpend(r) \/ performSign(r) \/ ReadBefore(r) \/ promoteAllowance(r)
      => now' = now /\ owner' = owner
  BY DEF releaseReservedSpend, performSign, ReadBefore, promoteAllowance
<1>4. PromotionSkipped(r) \/ refreshSubKeyAfterApproval(r) \/ SubKeyMinted(r)
      => now' = now /\ owner' = owner
  BY DEF PromotionSkipped, refreshSubKeyAfterApproval, SubKeyMinted
<1>5. MintingFails(r) \/ RereadRow(r) \/ RewriteRow(r) \/ Records(r) \/ RecordFails(r)
      => now' = now /\ owner' = owner
  BY DEF MintingFails, RereadRow, RewriteRow, Records, RecordFails
<1> QED  BY <1>1, <1>2, <1>3, <1>4, <1>5 DEF WorkerStep

\* The clock only goes forward, and the owner's copy is of the row.
LEMMA NextOthers ==
    ASSUME TInv, [Next]_vars
    PROVE  now <= now' /\ owner'.copy \in {owner.copy, row, AbsentRow}
<1> DEFINE Claim == now <= now' /\ owner'.copy \in {owner.copy, row, AbsentRow}
<1>0. now \in Nat /\ IsCall(owner)
  BY DEF TInv, TypeOK
<1>1. ASSUME now' = now, owner' = owner PROVE Claim
  BY <1>0, <1>1
<1>2. ASSUME NEW r \in Requests, NEW kind, NEW amount, Arrives(r, kind, amount) PROVE Claim
  BY <1>1, <1>2 DEF Arrives
<1>3. ASSUME NEW r \in Requests, WorkerStep(r) \/ UserApproves(r) \/ UserDeclines(r) PROVE Claim
  BY <1>1, <1>3, WorkerOthers DEF UserApproves, UserDeclines
<1>4. ASSUME NEW c, OwnerCallStarts(c) PROVE Claim
  BY <1>0, <1>4 DEF OwnerCallStarts, NoCall
<1>5. CASE RemoveSubKeys
  BY <1>0, <1>5 DEF RemoveSubKeys, NoCall, IsCall
<1>6. CASE setStatusRead
  BY <1>0, <1>6 DEF setStatusRead, IsCall
<1>7. CASE setStatusWrite
  BY <1>0, <1>7 DEF setStatusWrite, NoCall
<1>8. CASE WorkerDies
  BY <1>0, <1>8 DEF WorkerDies, NoCall
<1>9. CASE Tick
  BY <1>0, <1>9 DEF Tick
<1>10. CASE UNCHANGED vars
  BY <1>1, <1>10 DEF vars
<1> QED  BY <1>2, <1>3, <1>4, <1>5, <1>6, <1>7, <1>8, <1>9, <1>10 DEF Next, OwnerStep

LEMMA NextCapInv == TInv /\ CapInv /\ [Next]_vars => CapInv'
<1> SUFFICES ASSUME TInv, CapInv, [Next]_vars PROVE CapInv'
  OBVIOUS
<1>1. TInv'
  BY NextTInv
<1>2. HasAmounts(req) /\ HasAmounts(req') /\ RequestsKeep
  BY <1>1, NextKeeps DEF HasAmounts, TInv, TypeOK, IsRequest
<1>3. now \in Nat /\ now' \in Nat /\ now <= now'
  BY <1>1, NextOthers DEF TInv, TypeOK
\* Nothing anybody holds leaves the caps by ageing.
<1>4. ASSUME NEW a, RowOrAbsent(a), WithinCaps(a, req, now)
      PROVE  WithinCaps(a, req', now')
  <2>1. CASE IsRow(a)
    BY <1>2, <1>3, <1>4, <2>1, StaysWithin DEF Sublog, RequestsKeep
  <2>2. CASE a = AbsentRow
    BY <2>2, FreshWithin
  <2> QED  BY <1>4, <2>1, <2>2 DEF RowOrAbsent
\* Nor by being written back with less in its log.
<1>5. ASSUME NEW a, WithinCaps(a, req, now), ComesFrom(a)
      PROVE  WithinCaps(row', req', now')
  BY <1>2, <1>3, <1>5, StaysWithin DEF ComesFrom, RequestsKeep
<1>6. WithinCaps(row', req', now')
  <2>1. RowOrigin
    BY <1>1, NextRowOrigin
  <2>2. RowOrAbsent(row) /\ WithinCaps(row, req, now) /\ WithinCaps(owner.copy, req, now)
    BY DEF TInv, TypeOK, CapInv
  <2>3. ASSUME NEW r \in Requests, tryReserveSpend(r) PROVE WithinCaps(row', req', now')
    BY <1>1, <2>3, ReserveWithin
  <2>4. ASSUME NEW r \in Requests, ComesFrom(req[r].copy) PROVE WithinCaps(row', req', now')
    BY <1>5, <2>4 DEF CapInv
  <2> QED  BY <1>4, <1>5, <2>1, <2>2, <2>3, <2>4, FreshWithin DEF RowOrigin
<1>7. WithinCaps(owner'.copy, req', now')
  <2>1. owner'.copy \in {owner.copy, row, AbsentRow}
    BY NextOthers
  <2>2. RowOrAbsent(row) /\ RowOrAbsent(owner.copy)
    BY DEF TInv, TypeOK, IsCall
  <2> QED  BY <1>4, <2>1, <2>2, FreshWithin DEF CapInv
<1>8. \A r \in Requests : WithinCaps(req'[r].copy, req', now')
  <2> TAKE r \in Requests
  <2>1. req'[r].copy \in {req[r].copy, row, AbsentRow}
    BY <1>2 DEF RequestsKeep
  <2>2. RowOrAbsent(row) /\ RowOrAbsent(req[r].copy)
    BY DEF TInv, TypeOK, IsRequest
  <2>3. WithinCaps(row, req, now) /\ WithinCaps(req[r].copy, req, now)
    BY DEF CapInv
  <2> QED  BY <1>4, <2>1, <2>2, <2>3, FreshWithin
<1> QED  BY <1>6, <1>7, <1>8 DEF CapInv

LEMMA InitCapInv == Init => CapInv
<1> SUFFICES ASSUME Init PROVE CapInv
  OBVIOUS
<1>1. \A r \in Requests : req[r].copy = AbsentRow
  BY DEF Init, Unsent
<1>2. owner.copy = AbsentRow
  BY DEF Init, NoCall
<1>3. row = AbsentRow \/ row.log = DefaultRow.log
  BY DEF Init, DefaultRow, EmptyLog
<1>4. WithinCaps(row, req, now)
  <2>1. WithinCaps(DefaultRow, req, now) /\ DefaultRow # AbsentRow
    BY FreshWithin DEF DefaultRow, AbsentRow
  <2> QED  BY <1>3, <2>1, FreshWithin DEF WithinCaps
<1> QED  BY <1>1, <1>2, <1>4, FreshWithin DEF CapInv

LEMMA CapInvMeansCaps == CapInv => LogWithinCaps
<1> SUFFICES ASSUME CapInv PROVE LogWithinCaps
  OBVIOUS
<1>1. \A w : Total(DOMAIN Recent(row.log, w)) = SumOf(Young(row.log, w, now), req)
  BY DEF Total, SumOf, Recent, Only, Young
<1> QED  BY <1>1 DEF CapInv, WithinCaps, LogWithinCaps

\* The entries of the log that count never sum to more than the daily and hourly
\* caps: no whole-row write, however old the copy, makes a row nobody checked.
THEOREM LogKeepsCaps == Spec => []LogWithinCaps
<1>1. CapInv => LogWithinCaps
  BY CapInvMeansCaps
<1> QED  BY <1>1, InitTInv, NextTInv, InitCapInv, NextCapInv, PTL DEF Spec

--------------------------------------------------------------------------------
(* Consent: before the user has approved or resumed the merchant no row and no  *)
(* copy of one is active, so no request is on its way to an automatic signature. *)

NotAuto(q) ==
    /\ q.copy.status # "active"
    /\ q.pc \notin {"sign", "record"} /\ q.answer # "autoSigned"
    /\ q.pc \in {"build", "reserve"} => q.manual

NothingActive ==
    /\ row.status # "active" /\ owner.copy.status # "active"
    /\ \A r \in Requests : NotAuto(req[r])

ConsentInv == consent = "none" => NothingActive

\* One request replaced, the row still not active.
LEMMA OneConsent ==
    ASSUME TInv, NothingActive, NEW r \in Requests, NEW q, req' = [req EXCEPT ![r] = q],
           NotAuto(q), row'.status # "active", owner' = owner
    PROVE  NothingActive'
BY DEF TInv, TypeOK, NothingActive, NotAuto

LEMMA EndConsent ==
    ASSUME TInv, NEW r \in Requests, NotAuto(req[r]), NEW n, NEW answer, answer # "autoSigned"
    PROVE  NotAuto(Finished(r, answer)) /\ NotAuto(Declined(r)) /\ NotAuto(Queued(r, n))
<1>1. IsRequest(req[r])
  BY DEF TInv, TypeOK
<1>2. /\ Finished(r, answer).pc = "done" /\ Finished(r, answer).answer = answer
      /\ Declined(r).pc = "done" /\ Declined(r).answer = "declined"
      /\ Finished(r, answer).copy = AbsentRow /\ Declined(r).copy = AbsentRow
  BY DEF Finished, Declined, Unsent
<1>3. /\ Queued(r, n).pc = "queued" /\ Queued(r, n).answer = req[r].answer
      /\ Queued(r, n).copy = req[r].copy
  BY <1>1 DEF Queued, IsRequest
<1> QED  BY <1>2, <1>3 DEF NotAuto, AbsentRow

\* A row that is not active never lets a request skip the popup.
LEMMA DecidedConsent ==
    ASSUME TInv, NEW r \in Requests, NotAuto(req[r]), NEW seen, seen.status # "active",
           NEW auto
    PROVE  NotAuto(Decided(r, seen, auto))
<1>1. IsRequest(req[r])
  BY DEF TInv, TypeOK
<1>2. NotAuto(Declined(r)) /\ NotAuto(Queued(r, Null)) /\ NotAuto(Queued(r, seen.nonce))
  BY EndConsent
<1>3. ~isMandateLive(seen)
  BY DEF isMandateLive
<1> DEFINE q == [req[r] EXCEPT !.pc = "build", !.manual = TRUE, !.nonce = seen.nonce]
<1>4. NotAuto(q)
  BY <1>1 DEF NotAuto, IsRequest
<1>5. Decided(r, seen, auto) \in {Declined(r), Queued(r, Null), Queued(r, seen.nonce), q}
  BY <1>3 DEF Decided
<1> QED  BY <1>2, <1>4, <1>5

LEMMA WorkerConsent ==
    ASSUME TInv, NothingActive, NEW r \in Requests, WorkerStep(r), ~promoteAllowance(r)
    PROVE  NothingActive'
<1>0. IsRequest(req[r]) /\ NotAuto(req[r]) /\ row.status # "active" /\ owner' = owner
  BY WorkerOthers DEF TInv, TypeOK, NothingActive
<1>1. CASE ScreenedOut(r)
  <2>1. NotAuto(Declined(r)) /\ NotAuto(Queued(r, Null))
    BY <1>0, EndConsent
  <2> QED  BY <1>0, <1>1, <2>1, OneConsent DEF ScreenedOut
<1>2. CASE readAllowance(r)
  <2> DEFINE q == [req[r] EXCEPT !.pc = "create"]
  <2>1. NotAuto(q)
    BY <1>0 DEF NotAuto, IsRequest
  <2>2. CASE row = AbsentRow
    BY <1>0, <1>2, <2>1, <2>2, OneConsent DEF readAllowance
  <2>3. CASE row # AbsentRow
    <3>1. PICK auto \in AutoApprove : req' = [req EXCEPT ![r] = Decided(r, row, auto)]
      BY <1>2, <2>3 DEF readAllowance
    <3>2. NotAuto(Decided(r, row, auto))
      BY <1>0, DecidedConsent
    <3> QED  BY <1>0, <1>2, <3>1, <3>2, OneConsent DEF readAllowance
  <2> QED  BY <2>2, <2>3
<1>3. CASE createDefaultAllowance(r)
  <2>1. PICK auto \in AutoApprove : req' = [req EXCEPT ![r] = Decided(r, DefaultRow, auto)]
    BY <1>3 DEF createDefaultAllowance
  <2>2. NotAuto(Decided(r, DefaultRow, auto))
    BY <1>0, DecidedConsent DEF DefaultRow
  <2>3. row'.status # "active"
    BY <1>3 DEF createDefaultAllowance, DefaultRow
  <2> QED  BY <1>0, <2>1, <2>2, <2>3, OneConsent
<1>4. CASE buildX402Payment(r)
  <2> DEFINE q == [req[r] EXCEPT !.pc = "reserve"]
  <2>1. NotAuto(q)
    BY <1>0, <1>4 DEF NotAuto, IsRequest, buildX402Payment
  <2>2. PICK e \in {Declined(r), q} : req' = [req EXCEPT ![r] = e]
    BY <1>4 DEF buildX402Payment
  <2>3. NotAuto(Declined(r))
    BY <1>0, EndConsent
  <2> QED  BY <1>0, <1>4, <2>1, <2>2, <2>3, OneConsent DEF buildX402Payment
<1>5. CASE tryReserveSpend(r)
  <2> DEFINE q == [Queued(r, req[r].nonce) EXCEPT !.at = now]
  <2>1. req[r].manual
    BY <1>0, <1>5 DEF NotAuto, tryReserveSpend
  <2>2. req' = [req EXCEPT ![r] = q]
    BY <1>5, <2>1 DEF tryReserveSpend
  <2>3. q.pc = "queued" /\ q.answer = req[r].answer /\ q.copy = req[r].copy
    BY <1>0 DEF Queued, IsRequest
  <2>4. NotAuto(q)
    BY <1>0, <2>3 DEF NotAuto
  <2>5. row'.status # "active"
    <3>1. RowOrAbsent(row)
      BY DEF TInv, TypeOK
    <3>2. CASE IsRow(row)
      BY <1>0, <1>5, <3>2 DEF tryReserveSpend, IsRow
    <3>3. CASE row = AbsentRow
      BY <1>5, <3>3 DEF tryReserveSpend, AbsentRow
    <3> QED  BY <3>1, <3>2, <3>3 DEF RowOrAbsent
  <2> HIDE DEF q
  <2> QED  BY <1>0, <2>2, <2>4, <2>5, OneConsent
<1>6. CASE ReserveRefused(r)
  <2>1. NotAuto(Declined(r)) /\ NotAuto(Queued(r, req[r].nonce))
    BY <1>0, EndConsent
  <2> QED  BY <1>0, <1>6, <2>1, OneConsent DEF ReserveRefused
<1>7. ~AutoSigns(r) /\ ~AutoSignFails(r) /\ ~Records(r) /\ ~RecordFails(r)
  BY <1>0 DEF AutoSigns, AutoSignFails, Records, RecordFails, NotAuto
<1>8. CASE releaseReservedSpend(r)
  <2> DEFINE q == [(IF req[r].kind = "review" THEN Declined(r)
                    ELSE Queued(r, req[r].nonce)) EXCEPT !.at = Null]
  <2>1. NotAuto(q)
    BY <1>0 DEF NotAuto, Declined, Finished, Unsent, Queued, IsRequest, AbsentRow
  <2>2. req' = [req EXCEPT ![r] = q]
    BY <1>8 DEF releaseReservedSpend
  <2>3. row'.status # "active"
    <3>1. RowOrAbsent(row)
      BY DEF TInv, TypeOK
    <3>2. CASE IsRow(row)
      BY <1>0, <1>8, <3>2 DEF releaseReservedSpend, IsRow
    <3>3. CASE row = AbsentRow
      BY <1>8, <3>3 DEF releaseReservedSpend, AbsentRow
    <3> QED  BY <3>1, <3>2, <3>3 DEF RowOrAbsent
  <2> HIDE DEF q
  <2> QED  BY <1>0, <2>1, <2>2, <2>3, OneConsent
<1>9. CASE performSign(r)
  <2> DEFINE q == [req[r] EXCEPT !.answer = "signed", !.pc = "before"]
  <2>1. NotAuto(q)
    BY <1>0 DEF NotAuto, IsRequest
  <2>2. NotAuto(Declined(r)) /\ NotAuto(Finished(r, "signed"))
    BY <1>0, EndConsent
  <2>3. PICK e \in {Declined(r), Finished(r, "signed"), q} : req' = [req EXCEPT ![r] = e]
    BY <1>9 DEF performSign
  <2> QED  BY <1>0, <1>9, <2>1, <2>2, <2>3, OneConsent DEF performSign
<1>10. CASE ReadBefore(r)
  <2> DEFINE q == [req[r] EXCEPT !.pc = "promote", !.live = row # AbsentRow /\ isMandateLive(row)]
  <2>1. NotAuto(q)
    BY <1>0 DEF NotAuto, IsRequest
  <2> QED  BY <1>0, <1>10, <2>1, OneConsent DEF ReadBefore
<1>11. req[r].answer # "autoSigned"
  BY <1>0 DEF NotAuto
<1>12. NotAuto(Finished(r, req[r].answer))
  BY <1>0, <1>11, EndConsent
<1>13. CASE PromotionSkipped(r)
  BY <1>0, <1>12, <1>13, OneConsent DEF PromotionSkipped
<1>14. CASE refreshSubKeyAfterApproval(r)
  <2> DEFINE q == [req[r] EXCEPT !.pc = "provision", !.copy = row, !.live = hasKey]
  <2>1. NotAuto(q)
    BY <1>0 DEF NotAuto, IsRequest
  <2> QED  BY <1>0, <1>12, <1>14, <2>1, OneConsent DEF refreshSubKeyAfterApproval
<1>15. CASE SubKeyMinted(r)
  <2> DEFINE q == [req[r] EXCEPT !.pc = "rewrite"]
  <2>1. NotAuto(q)
    BY <1>0 DEF NotAuto, IsRequest
  <2> QED  BY <1>0, <1>15, <2>1, OneConsent DEF SubKeyMinted
<1>16. CASE MintingFails(r)
  <2> DEFINE q == [req[r] EXCEPT !.pc = "reread", !.copy = AbsentRow]
  <2>1. NotAuto(q)
    BY <1>0 DEF NotAuto, IsRequest, AbsentRow
  <2> QED  BY <1>0, <1>12, <1>16, <2>1, OneConsent DEF MintingFails
<1>17. CASE RereadRow(r)
  <2> DEFINE q == [req[r] EXCEPT !.pc = "rewrite", !.copy = row]
  <2>1. NotAuto(q)
    BY <1>0 DEF NotAuto, IsRequest
  <2> QED  BY <1>0, <1>17, <2>1, OneConsent DEF RereadRow
<1>18. CASE RewriteRow(r)
  <2>1. row'.status # "active"
    BY <1>0, <1>18 DEF RewriteRow, NotAuto
  <2> QED  BY <1>0, <1>12, <1>18, <2>1, OneConsent DEF RewriteRow
<1> QED  BY <1>1, <1>2, <1>3, <1>4, <1>5, <1>6, <1>7, <1>8, <1>9, <1>10,
            <1>13, <1>14, <1>15, <1>16, <1>17, <1>18 DEF WorkerStep

\* Consent is given by a promotion or a resume and never taken back.
LEMMA WorkerKeepsConsent ==
    ASSUME NEW r, WorkerStep(r)
    PROVE  consent' = IF promoteAllowance(r) THEN "approved" ELSE consent
<1>1. promoteAllowance(r) => consent' = "approved"
  BY DEF promoteAllowance
<1>2. ScreenedOut(r) \/ readAllowance(r) \/ createDefaultAllowance(r) \/ buildX402Payment(r)
      \/ tryReserveSpend(r) \/ ReserveRefused(r) \/ AutoSigns(r) => consent' = consent
  BY DEF ScreenedOut, readAllowance, createDefaultAllowance, buildX402Payment,
         tryReserveSpend, ReserveRefused, AutoSigns
<1>3. AutoSignFails(r) \/ releaseReservedSpend(r) \/ performSign(r) \/ ReadBefore(r)
      \/ PromotionSkipped(r) \/ refreshSubKeyAfterApproval(r) => consent' = consent
  BY DEF AutoSignFails, releaseReservedSpend, performSign, ReadBefore, PromotionSkipped,
         refreshSubKeyAfterApproval
<1>4. SubKeyMinted(r) \/ MintingFails(r) \/ RereadRow(r) \/ RewriteRow(r)
      \/ Records(r) \/ RecordFails(r) => consent' = consent
  BY DEF SubKeyMinted, MintingFails, RereadRow, RewriteRow, Records, RecordFails
<1> QED  BY <1>1, <1>2, <1>3, <1>4 DEF WorkerStep

LEMMA NextConsentInv == TInv /\ ConsentInv /\ [Next]_vars => ConsentInv'
<1> SUFFICES ASSUME TInv, ConsentInv, [Next]_vars, consent' = "none" PROVE NothingActive'
  BY DEF ConsentInv
<1>0. \A r \in Requests : IsRequest(req[r])
  BY DEF TInv, TypeOK
<1>1. ASSUME NEW r \in Requests, WorkerStep(r) PROVE NothingActive'
  BY <1>1, WorkerKeepsConsent, WorkerConsent DEF ConsentInv
<1>2. ASSUME NEW r \in Requests, NEW kind \in EntryPoints, NEW amount \in Amounts,
             Arrives(r, kind, amount)
      PROVE  NothingActive'
  <2> DEFINE q == [req[r] EXCEPT !.pc = "read", !.kind = kind, !.amount = amount]
  <2>1. consent = "none" /\ NothingActive
    BY <1>2 DEF Arrives, ConsentInv
  <2>2. NotAuto(q)
    BY <1>0, <2>1 DEF NothingActive, NotAuto, IsRequest
  <2> QED  BY <1>2, <2>1, <2>2, OneConsent DEF Arrives, NothingActive
<1>3. ASSUME NEW r \in Requests, UserApproves(r) PROVE NothingActive'
  <2> DEFINE q == [req[r] EXCEPT !.pc = "perform"]
  <2>1. consent = "none" /\ NothingActive
    BY <1>3 DEF UserApproves, ConsentInv
  <2>2. NotAuto(q)
    BY <1>0, <2>1 DEF NothingActive, NotAuto, IsRequest
  <2> QED  BY <1>3, <2>1, <2>2, OneConsent DEF UserApproves, NothingActive
<1>4. ASSUME NEW r \in Requests, UserDeclines(r) PROVE NothingActive'
  <2>1. consent = "none" /\ NothingActive
    BY <1>4 DEF UserDeclines, ConsentInv
  <2>2. NotAuto(Declined(r))
    BY <2>1, EndConsent DEF NothingActive
  <2> QED  BY <1>4, <2>1, <2>2, OneConsent DEF UserDeclines, NothingActive
<1>5. ASSUME NEW c \in OwnerCalls, OwnerCallStarts(c) PROVE NothingActive'
  BY <1>5 DEF OwnerCallStarts, NoCall, AbsentRow, NothingActive, NotAuto, ConsentInv
<1>6. CASE RemoveSubKeys
  BY <1>6 DEF RemoveSubKeys, NoCall, AbsentRow, NothingActive, NotAuto, ConsentInv, TInv,
              TypeOK, IsCall
<1>7. CASE setStatusRead
  BY <1>7 DEF setStatusRead, NothingActive, NotAuto, ConsentInv, TInv, TypeOK, IsCall
<1>8. CASE setStatusWrite
  <2>1. consent = "none" /\ owner.call # "unpause" /\ NothingActive
    BY <1>8 DEF setStatusWrite, ConsentInv
  <2>2. owner.call \in {"pause", "revoke"} /\ IsRow(owner.copy)
    BY <1>8, <2>1 DEF setStatusWrite, TInv, TypeOK, RowExists, IsCall, RowOrAbsent
  <2>3. row'.status # "active"
    BY <1>8, <2>2 DEF setStatusWrite, StatusAfter, IsRow
  <2>4. req' = req /\ owner'.copy = AbsentRow
    BY <1>8 DEF setStatusWrite, NoCall
  <2> QED  BY <2>1, <2>3, <2>4 DEF NothingActive, NotAuto, AbsentRow
<1>9. CASE WorkerDies
  <2>1. consent = "none" /\ NothingActive
    BY <1>9 DEF WorkerDies, ConsentInv
  <2>2. ASSUME NEW r \in Requests PROVE NotAuto(req'[r])
    <3> DEFINE answer == IF req[r].answer = "none" THEN "lost" ELSE req[r].answer
    <3>1. NotAuto(req[r]) /\ answer # "autoSigned"
      BY <2>1 DEF NothingActive, NotAuto
    <3>2. NotAuto(Finished(r, answer))
      BY <3>1, EndConsent
    <3>3. req'[r] \in {Finished(r, answer), req[r]}
      BY <1>9 DEF WorkerDies
    <3> QED  BY <3>1, <3>2, <3>3
  <2>3. row' = row /\ owner'.copy = AbsentRow
    BY <1>9 DEF WorkerDies, NoCall
  <2> QED  BY <2>1, <2>2, <2>3 DEF NothingActive, NotAuto, AbsentRow
<1>10. Tick \/ UNCHANGED vars => NothingActive'
  BY DEF Tick, vars, NothingActive, NotAuto, ConsentInv
<1> QED  BY <1>1, <1>2, <1>3, <1>4, <1>5, <1>6, <1>7, <1>8, <1>9, <1>10 DEF Next, OwnerStep

LEMMA InitConsentInv == Init => ConsentInv
BY DEF Init, ConsentInv, NothingActive, NotAuto, Unsent, NoCall, AbsentRow, DefaultRow

\* No payment is signed in the background before the user approved the merchant
\* or resumed it by hand: no interleaving of requests, owner calls and crashes
\* makes a row active otherwise.
THEOREM ConsentBeforeAutoSign == Spec => []AutoSignNeedsConsent
<1>1. TInv /\ ConsentInv => AutoSignNeedsConsent
  BY DEF ConsentInv, NothingActive, NotAuto, AutoSignNeedsConsent
<1> QED  BY <1>1, InitTInv, NextTInv, InitConsentInv, NextConsentInv, PTL DEF Spec

--------------------------------------------------------------------------------
(* The caps hold for the payments really signed until a write drops a          *)
(* reservation that still counts.  The log is within the caps; what is left to *)
(* show is that it still holds every reservation of a payment that was or may  *)
(* be signed, at the time it was made.                                         *)

Bad == {"declined", "lost"}

\* An entry of a row has the time its request reserved at.
Dated(a, rq) ==
    a # AbsentRow => \A e \in DOMAIN a.log : rq[e].at # Null => a.log[e] = rq[e].at

EndInv == \A r \in Requests : req[r].answer \in Bad => req[r].pc = "done"

DatedInv ==
    /\ Dated(row, req) /\ Dated(owner.copy, req)
    /\ \A r \in Requests : Dated(req[r].copy, req)

\* Reserved in this window, and not turned down since.
Counts(q, t) == q.at # Null /\ q.answer \notin Bad /\ t - q.at < DAY_MS

KeptInv ==
    lost = "none" =>
        \A r \in Requests : Counts(req[r], now) => row # AbsentRow /\ r \in DOMAIN row.log

ReservedInv == EndInv /\ DatedInv /\ KeptInv

--------------------------------------------------------------------------------
(* How a request goes on *)

\* Other than by reserving, a request keeps its reservation or gives it up, and
\* one that is through stays as it is.
Follows(p, q) ==
    /\ q.at \in {p.at, Null}
    /\ q.answer \in Bad => q.pc = "done"
    /\ p.pc = "done" => q = p

AllFollow == \A e \in Requests : Follows(req[e], req'[e])

Moves(r, q) == q.at \in {req[r].at, Null} /\ (q.answer \in Bad => q.pc = "done")

LEMMA OneFollows ==
    ASSUME TInv, EndInv, NEW r \in Requests, req[r].pc # "done", NEW q, Moves(r, q),
           req' = [req EXCEPT ![r] = q]
    PROVE  AllFollow
BY DEF TInv, TypeOK, EndInv, Moves, AllFollow, Follows

LEMMA MovesTo ==
    ASSUME TInv, EndInv, NEW r \in Requests, req[r].pc # "done", NEW n, NEW answer
    PROVE  /\ Moves(r, Finished(r, answer)) /\ Moves(r, Declined(r)) /\ Moves(r, Queued(r, n))
           /\ \A q : q.at = req[r].at /\ q.answer \in {req[r].answer, "signed"} => Moves(r, q)
<1>1. IsRequest(req[r]) /\ req[r].answer \notin Bad
  BY DEF TInv, TypeOK, EndInv
<1>2. /\ Finished(r, answer).pc = "done" /\ Finished(r, answer).at = req[r].at
      /\ Declined(r).pc = "done" /\ Declined(r).at = req[r].at
  BY DEF Finished, Declined, Unsent
<1>3. Queued(r, n).answer = req[r].answer /\ Queued(r, n).at = req[r].at
  BY <1>1 DEF Queued, IsRequest
<1> QED  BY <1>1, <1>2, <1>3 DEF Moves, Bad

LEMMA DecidedMoves ==
    ASSUME TInv, EndInv, NEW r \in Requests, req[r].pc # "done", NEW seen, NEW auto
    PROVE  Moves(r, Decided(r, seen, auto))
<1>1. IsRequest(req[r])
  BY DEF TInv, TypeOK
<1> DEFINE b == [req[r] EXCEPT !.pc = "build", !.nonce = seen.nonce,
                               !.manual = ~auto \/ ~isMandateLive(seen)]
           s == [req[r] EXCEPT !.pc = "reserve", !.manual = FALSE, !.nonce = seen.nonce]
<1>2. b.at = req[r].at /\ b.answer = req[r].answer /\ s.at = req[r].at /\ s.answer = req[r].answer
  BY <1>1 DEF IsRequest
<1>3. Moves(r, b) /\ Moves(r, s)
  BY <1>2, MovesTo
<1>4. Decided(r, seen, auto) \in {Declined(r), Queued(r, Null), Queued(r, seen.nonce), b, s}
  BY DEF Decided
<1> QED  BY <1>3, <1>4, MovesTo

LEMMA WorkerFollows ==
    ASSUME TInv, EndInv, NEW r \in Requests, WorkerStep(r), ~tryReserveSpend(r)
    PROVE  AllFollow
<1>0. IsRequest(req[r])
  BY DEF TInv, TypeOK
<1>1. ASSUME NEW q, req[r].pc # "done", req' = [req EXCEPT ![r] = q],
             q.at = req[r].at, q.answer \in {req[r].answer, "signed"}
      PROVE  AllFollow
  BY <1>1, MovesTo, OneFollows
<1>2. ASSUME NEW q, req[r].pc # "done", req' = [req EXCEPT ![r] = q],
             NEW n, NEW a, q \in {Finished(r, a), Declined(r), Queued(r, n)}
      PROVE  AllFollow
  BY <1>2, MovesTo, OneFollows
<1>e. ASSUME NEW a, req[r].pc # "done" PROVE Moves(r, Finished(r, a)) /\ Moves(r, Declined(r))
  BY <1>e, MovesTo
<1>3. ScreenedOut(r) => AllFollow
  BY <1>2 DEF ScreenedOut
<1>4. CASE readAllowance(r)
  <2>1. CASE row = AbsentRow
    BY <1>0, <1>1, <1>4, <2>1 DEF readAllowance, IsRequest
  <2>2. CASE row # AbsentRow
    BY <1>4, <2>2, DecidedMoves, OneFollows DEF readAllowance
  <2> QED  BY <2>1, <2>2
<1>5. CASE createDefaultAllowance(r)
  BY <1>5, DecidedMoves, OneFollows DEF createDefaultAllowance
<1>6. CASE buildX402Payment(r)
  BY <1>0, <1>1, <1>2, <1>6 DEF buildX402Payment, IsRequest
<1>7. ReserveRefused(r) \/ Records(r) \/ RecordFails(r) => AllFollow
  BY <1>2 DEF ReserveRefused, Records, RecordFails
<1>8. CASE AutoSigns(r) \/ AutoSignFails(r)
  BY <1>0, <1>1, <1>8 DEF AutoSigns, AutoSignFails, IsRequest
<1>9. CASE releaseReservedSpend(r)
  <2> DEFINE d == [Declined(r) EXCEPT !.at = Null]
             w == [Queued(r, req[r].nonce) EXCEPT !.at = Null]
  <2>1. d.at = Null /\ d.pc = "done" /\ w.at = Null /\ w.answer = req[r].answer
    BY <1>0 DEF Declined, Finished, Unsent, Queued, IsRequest
  <2>2. req[r].answer \notin Bad
    BY <1>9 DEF releaseReservedSpend, EndInv
  <2>3. Moves(r, d) /\ Moves(r, w)
    BY <2>1, <2>2 DEF Moves
  <2>4. req' = [req EXCEPT ![r] = d] \/ req' = [req EXCEPT ![r] = w]
    BY <1>9 DEF releaseReservedSpend
  <2> QED  BY <1>9, <2>3, <2>4, OneFollows DEF releaseReservedSpend
<1>10. CASE performSign(r)
  <2> DEFINE q == [req[r] EXCEPT !.answer = "signed", !.pc = "before"]
  <2>1. q.at = req[r].at /\ q.answer = "signed"
    BY <1>0 DEF IsRequest
  <2>2. PICK e \in {Declined(r), Finished(r, "signed"), q} : req' = [req EXCEPT ![r] = e]
    BY <1>10 DEF performSign
  <2>3. req[r].pc # "done"
    BY <1>10 DEF performSign
  <2>4. Moves(r, e)
    BY <1>e, <2>1, <2>2, <2>3, MovesTo
  <2> QED  BY <2>2, <2>3, <2>4, OneFollows
<1>11. CASE ReadBefore(r)
  BY <1>0, <1>1, <1>11 DEF ReadBefore, IsRequest
<1>12. CASE promoteAllowance(r)
  BY <1>0, <1>1, <1>12 DEF promoteAllowance, IsRequest
<1>13. CASE PromotionSkipped(r)
  BY <1>e, <1>13, OneFollows DEF PromotionSkipped
<1>14. CASE refreshSubKeyAfterApproval(r)
  <2> DEFINE q == [req[r] EXCEPT !.pc = "provision", !.copy = row, !.live = hasKey]
  <2>1. q.at = req[r].at /\ q.answer = req[r].answer
    BY <1>0 DEF IsRequest
  <2> QED  BY <1>1, <1>e, <1>14, <2>1, OneFollows DEF refreshSubKeyAfterApproval
<1>15. CASE SubKeyMinted(r)
  BY <1>0, <1>1, <1>15 DEF SubKeyMinted, IsRequest
<1>16. CASE MintingFails(r)
  <2> DEFINE q == [req[r] EXCEPT !.pc = "reread", !.copy = AbsentRow]
  <2>1. q.at = req[r].at /\ q.answer = req[r].answer
    BY <1>0 DEF IsRequest
  <2> QED  BY <1>1, <1>e, <1>16, <2>1, OneFollows DEF MintingFails
<1>17. CASE RereadRow(r)
  BY <1>0, <1>1, <1>17 DEF RereadRow, IsRequest
<1>18. CASE RewriteRow(r)
  BY <1>e, <1>18, OneFollows DEF RewriteRow
<1> QED  BY <1>3, <1>4, <1>5, <1>6, <1>7, <1>8, <1>9, <1>10, <1>11, <1>12,
            <1>13, <1>14, <1>15, <1>16, <1>17, <1>18 DEF WorkerStep

LEMMA NextFollows ==
    ASSUME TInv, EndInv, [Next]_vars, \A r \in Requests : ~tryReserveSpend(r)
    PROVE  AllFollow
<1>0. \A r \in Requests : IsRequest(req[r])
  BY DEF TInv, TypeOK
<1>1. ASSUME UNCHANGED req PROVE AllFollow
  BY <1>1 DEF AllFollow, Follows, EndInv
<1>2. ASSUME NEW r \in Requests, NEW kind \in EntryPoints, NEW amount \in Amounts,
             Arrives(r, kind, amount)
      PROVE  AllFollow
  <2> DEFINE q == [req[r] EXCEPT !.pc = "read", !.kind = kind, !.amount = amount]
  <2>1. q.at = req[r].at /\ q.answer = req[r].answer
    BY <1>0 DEF IsRequest
  <2> QED  BY <1>2, <2>1, MovesTo, OneFollows DEF Arrives
<1>3. ASSUME NEW r \in Requests, WorkerStep(r) PROVE AllFollow
  BY <1>3, WorkerFollows
<1>4. ASSUME NEW r \in Requests, UserApproves(r) PROVE AllFollow
  <2> DEFINE q == [req[r] EXCEPT !.pc = "perform"]
  <2>1. q.at = req[r].at /\ q.answer = req[r].answer
    BY <1>0 DEF IsRequest
  <2> QED  BY <1>4, <2>1, MovesTo, OneFollows DEF UserApproves
<1>5. ASSUME NEW r \in Requests, UserDeclines(r) PROVE AllFollow
  BY <1>5, MovesTo, OneFollows DEF UserDeclines
<1>6. CASE WorkerDies
  <2> SUFFICES ASSUME NEW e \in Requests PROVE Follows(req[e], req'[e])
    BY DEF AllFollow
  <2>1. CASE InFlight(e)
    <3> DEFINE answer == IF req[e].answer = "none" THEN "lost" ELSE req[e].answer
    <3>1. req'[e] = Finished(e, answer) /\ req[e].pc # "done"
      BY <1>6, <2>1 DEF WorkerDies, InFlight
    <3>2. Moves(e, Finished(e, answer))
      BY <3>1, MovesTo
    <3> QED  BY <3>1, <3>2 DEF Moves, Follows
  <2>2. CASE ~InFlight(e)
    BY <1>6, <2>2 DEF WorkerDies, Follows, EndInv
  <2> QED  BY <2>1, <2>2
<1>7. ASSUME NEW c \in OwnerCalls, OwnerCallStarts(c) PROVE UNCHANGED req
  BY <1>7 DEF OwnerCallStarts
<1>8. OwnerStep \/ Tick \/ UNCHANGED vars => UNCHANGED req
  BY DEF OwnerStep, RemoveSubKeys, setStatusRead, setStatusWrite, Tick, vars
<1> QED  BY <1>1, <1>2, <1>3, <1>4, <1>5, <1>6, <1>7, <1>8 DEF Next

--------------------------------------------------------------------------------
(* What a reservation changes *)

Held == {row, owner.copy} \cup {req[e].copy : e \in Requests}

LEMMA HeldRows ==
    ASSUME TInv
    PROVE  \A a \in Held : RowOrAbsent(a)
BY DEF Held, TInv, TypeOK, IsCall, IsRequest

LEMMA Reserves ==
    ASSUME TInv, CapInv, NEW r \in Requests, tryReserveSpend(r)
    PROVE  /\ now' = now /\ lost' = lost /\ row # AbsentRow /\ row' # AbsentRow
           /\ row'.log = Pushed(Recent(row.log, DAY_MS), r, now)
           /\ req'[r].at = now /\ req'[r].answer = req[r].answer /\ req[r].pc # "done"
           /\ \A e \in Requests \ {r} : req'[e] = req[e]
           /\ \A a \in Held : a # AbsentRow => r \notin DOMAIN a.log
<1>1. IsRow(row)
  BY DEF tryReserveSpend, TInv, TypeOK, RowExists, WorksOnRow, RowOrAbsent
<1>2. IsRequest(req[r]) /\ req = [e \in Requests |-> req[e]]
  BY DEF TInv, TypeOK
<1> DEFINE q == [Queued(r, req[r].nonce) EXCEPT !.at = now]
           s == [[req[r] EXCEPT !.pc = "sign"] EXCEPT !.at = now]
<1>3. q.at = now /\ q.answer = req[r].answer /\ s.at = now /\ s.answer = req[r].answer
  BY <1>2 DEF Queued, IsRequest
<1>4. req' = [req EXCEPT ![r] = q] \/ req' = [req EXCEPT ![r] = s]
  BY DEF tryReserveSpend
<1>5. row'.log = Pushed(Recent(row.log, DAY_MS), r, now) /\ row' # AbsentRow
  <2> DEFINE new == [row EXCEPT !.log = Pushed(Recent(@, DAY_MS), r, now)]
  <2>1. row' = new
    BY DEF tryReserveSpend
  <2>2. new.status = row.status /\ new.log = Pushed(Recent(row.log, DAY_MS), r, now)
    BY <1>1 DEF IsRow
  <2>3. row.status # "absent"
    BY <1>1 DEF IsRow
  <2> HIDE DEF new
  <2> QED  BY <2>1, <2>2, <2>3 DEF AbsentRow
<1>6. \A a \in Held : a # AbsentRow => r \notin DOMAIN a.log
  BY DEF CapInv, WithinCaps, Held, tryReserveSpend, Early
<1> HIDE DEF q, s
<1>7. /\ req'[r].at = now /\ req'[r].answer = req[r].answer
      /\ \A e \in Requests \ {r} : req'[e] = req[e]
  BY <1>2, <1>3, <1>4
<1> QED  BY <1>1, <1>5, <1>6, <1>7 DEF tryReserveSpend, IsRow, AbsentRow

LEMMA NextEndInv ==
    ASSUME TInv, CapInv, EndInv, [Next]_vars
    PROVE  EndInv'
<1>1. CASE \E r \in Requests : tryReserveSpend(r)
  <2>1. PICK r \in Requests : tryReserveSpend(r)
    BY <1>1
  <2> QED  BY <2>1, Reserves DEF EndInv
<1>2. CASE \A r \in Requests : ~tryReserveSpend(r)
  BY <1>2, NextFollows DEF AllFollow, Follows, EndInv
<1> QED  BY <1>1, <1>2

\* No step gives an entry somebody holds another time.
LEMMA NextDated ==
    ASSUME TInv, CapInv, EndInv, DatedInv, [Next]_vars, NEW a \in Held
    PROVE  Dated(a, req')
<1>1. Dated(a, req) /\ (a # AbsentRow => DOMAIN a.log \subseteq Requests)
  BY HeldRows DEF DatedInv, Held, RowOrAbsent, IsRow, IsLog
<1>2. CASE \E r \in Requests : tryReserveSpend(r)
  <2>1. PICK r \in Requests : tryReserveSpend(r)
    BY <1>2
  <2>2. /\ a # AbsentRow => r \notin DOMAIN a.log
        /\ \A e \in Requests \ {r} : req'[e] = req[e]
    BY <2>1, Reserves
  <2> QED  BY <1>1, <2>2 DEF Dated
<1>3. CASE \A r \in Requests : ~tryReserveSpend(r)
  BY <1>1, <1>3, NextFollows DEF AllFollow, Follows, Dated
<1> QED  BY <1>2, <1>3

LEMMA NextDatedInv ==
    ASSUME TInv, CapInv, EndInv, DatedInv, [Next]_vars
    PROVE  DatedInv'
<1>1. \A a \in Held : Dated(a, req')
  BY NextDated
<1>2. Dated(AbsentRow, req') /\ Dated(DefaultRow, req')
  BY DEF Dated, DefaultRow, EmptyLog
<1>3. ASSUME NEW a \in Held, ComesFrom(a) PROVE Dated(row', req')
  BY <1>1, <1>3 DEF ComesFrom, Dated, Sublog, IsRow, AbsentRow
<1>4. ASSUME NEW r \in Requests, tryReserveSpend(r) PROVE Dated(row', req')
  <2>1. Dated(row, req')
    BY <1>1 DEF Held
  <2>2. /\ row # AbsentRow /\ row'.log = Pushed(Recent(row.log, DAY_MS), r, now)
        /\ req'[r].at = now
    BY <1>4, Reserves
  <2>3. ASSUME NEW e \in DOMAIN row'.log, req'[e].at # Null PROVE row'.log[e] = req'[e].at
    <3>1. CASE e = r
      BY <2>2, <3>1 DEF Pushed
    <3>2. CASE e # r
      <4>1. e \in DOMAIN row.log /\ row'.log[e] = row.log[e]
        BY <2>2, <2>3, <3>2 DEF Pushed, Recent, Only
      <4> QED  BY <2>1, <2>2, <2>3, <4>1 DEF Dated
    <3> QED  BY <3>1, <3>2
  <2> QED  BY <2>3 DEF Dated
<1>5. Dated(row', req')
  <2>1. RowOrigin
    BY NextTInv, NextRowOrigin
  <2> QED  BY <1>1, <1>2, <1>3, <1>4, <2>1 DEF RowOrigin, Held
<1>6. Dated(owner'.copy, req')
  BY <1>1, <1>2, NextOthers DEF Held
<1>7. \A r \in Requests : Dated(req'[r].copy, req')
  BY <1>1, <1>2, NextKeeps DEF RequestsKeep, Held
<1> QED  BY <1>5, <1>6, <1>7 DEF DatedInv

--------------------------------------------------------------------------------
(* No reservation goes unnoticed *)

Causes == {"create", "release", "refresh", "setStatus"}

\* Every write that may drop an entry looks for one it drops.
Watched ==
    \/ lost' = lost /\ row' = row
    \/ lost' = lost /\ row # AbsentRow /\ row' # AbsentRow /\ row'.log = row.log
    \/ now' = now /\ row' # AbsentRow /\ \E c \in Causes : Note(c)

LEMMA NextWatched ==
    ASSUME TInv, [Next]_vars, \A r \in Requests : ~tryReserveSpend(r)
    PROVE  Watched
<1>0. RowOrAbsent(row)
  BY DEF TInv, TypeOK
<1>1. ASSUME NEW r \in Requests, createDefaultAllowance(r) PROVE Watched
  BY <1>1 DEF createDefaultAllowance, Watched, Causes, DefaultRow, AbsentRow
<1>2. ASSUME NEW r \in Requests, releaseReservedSpend(r) PROVE Watched
  <2>1. IsRow(row)
    BY <1>0, <1>2 DEF releaseReservedSpend, TInv, RowExists, WorksOnRow, RowOrAbsent
  <2>2. row'.status # "absent"
    BY <1>2, <2>1 DEF releaseReservedSpend, IsRow
  <2> QED  BY <1>2, <2>2 DEF releaseReservedSpend, Watched, Causes, AbsentRow
<1>3. ASSUME NEW r \in Requests, promoteAllowance(r) PROVE Watched
  <2>1. IsRow(row)
    BY <1>0, <1>3 DEF promoteAllowance, RowOrAbsent
  <2>2. row'.status # "absent" /\ row'.log = row.log
    BY <1>3, <2>1 DEF promoteAllowance, IsRow
  <2> QED  BY <1>3, <2>2 DEF promoteAllowance, Watched, AbsentRow
<1>4. ASSUME NEW r \in Requests, RewriteRow(r) PROVE Watched
  BY <1>4 DEF RewriteRow, TInv, RowExists, Watched, Causes
<1>5. CASE setStatusWrite
  <2>1. IsRow(owner.copy)
    BY <1>5 DEF setStatusWrite, TInv, TypeOK, RowExists, IsCall, RowOrAbsent
  <2>2. row'.log = owner.copy.log /\ row'.status = StatusAfter(owner.call)
    BY <1>5, <2>1 DEF setStatusWrite, IsRow
  <2>3. row' # AbsentRow
    BY <2>2 DEF AbsentRow, StatusAfter
  <2> QED  BY <1>5, <2>3 DEF setStatusWrite, Watched, Causes
<1>6. ASSUME NEW r \in Requests, WorkerStep(r) PROVE Watched
  <2>1. ScreenedOut(r) \/ readAllowance(r) \/ buildX402Payment(r) \/ ReserveRefused(r)
        \/ AutoSigns(r) \/ AutoSignFails(r) \/ Records(r) \/ RecordFails(r)
        \/ performSign(r) => Watched
    BY DEF ScreenedOut, readAllowance, buildX402Payment, ReserveRefused, AutoSigns,
           AutoSignFails, Records, RecordFails, performSign, Watched
  <2>2. ReadBefore(r) \/ PromotionSkipped(r) \/ refreshSubKeyAfterApproval(r)
        \/ SubKeyMinted(r) \/ MintingFails(r) \/ RereadRow(r) => Watched
    BY DEF ReadBefore, PromotionSkipped, refreshSubKeyAfterApproval, SubKeyMinted,
           MintingFails, RereadRow, Watched
  <2> QED  BY <1>1, <1>2, <1>3, <1>4, <1>6, <2>1, <2>2 DEF WorkerStep
<1>7. ASSUME NEW r \in Requests, NEW kind, NEW amount,
             Arrives(r, kind, amount) \/ UserApproves(r) \/ UserDeclines(r)
      PROVE  Watched
  BY <1>7 DEF Arrives, UserApproves, UserDeclines, Watched
<1>8. ASSUME NEW c, OwnerCallStarts(c) PROVE Watched
  BY <1>8 DEF OwnerCallStarts, Watched
<1>9. RemoveSubKeys \/ setStatusRead \/ WorkerDies \/ Tick \/ UNCHANGED vars => Watched
  BY DEF RemoveSubKeys, setStatusRead, WorkerDies, Tick, vars, Watched
<1> QED  BY <1>5, <1>6, <1>7, <1>8, <1>9 DEF Next, OwnerStep

LEMMA NextKeptInv ==
    ASSUME TInv, CapInv, EndInv, DatedInv, KeptInv, [Next]_vars
    PROVE  KeptInv'
<1> SUFFICES ASSUME lost' = "none", NEW e \in Requests, Counts(req'[e], now')
             PROVE  row' # AbsentRow /\ e \in DOMAIN row'.log
  BY DEF KeptInv
<1>0. now \in Nat /\ now' \in Nat /\ IsRequest(req[e]) /\ IsRequest(req'[e]) /\ DAY_MS \in Nat
  BY NextTInv, LedgerAssumption DEF TInv, TypeOK
<1>1. CASE \E r \in Requests : tryReserveSpend(r)
  <2>1. PICK r \in Requests : tryReserveSpend(r)
    BY <1>1
  <2>2. /\ row'.log = Pushed(Recent(row.log, DAY_MS), r, now) /\ row' # AbsentRow
        /\ now' = now /\ lost' = lost
        /\ \A f \in Requests \ {r} : req'[f] = req[f]
    BY <2>1, Reserves
  <2>3. CASE e = r
    BY <2>2, <2>3 DEF Pushed
  <2>4. CASE e # r
    <3>1. Counts(req[e], now)
      BY <2>2, <2>4
    <3>2. row # AbsentRow /\ e \in DOMAIN row.log
      BY <2>2, <3>1 DEF KeptInv
    <3>3. row.log[e] = req[e].at
      BY <3>1, <3>2 DEF DatedInv, Dated, Counts
    <3> QED  BY <2>2, <3>1, <3>2, <3>3 DEF Counts, Pushed, Recent, Only
  <2> QED  BY <2>3, <2>4
<1>2. CASE \A r \in Requests : ~tryReserveSpend(r)
  <2>1. Watched
    BY <1>2, NextWatched
  <2>2. CASE \E c \in Causes : now' = now /\ row' # AbsentRow /\ Note(c)
    BY <2>2 DEF Note, Causes, Counts, Bad
  <2>3. CASE lost' = lost /\ (row # AbsentRow => row' # AbsentRow /\ row'.log = row.log)
    <3>1. Follows(req[e], req'[e])
      BY <1>2, NextFollows DEF AllFollow
    <3>2. Counts(req[e], now)
      BY <1>0, <3>1, NextOthers DEF Follows, Counts, EndInv, IsRequest, Null
    <3>3. row # AbsentRow /\ e \in DOMAIN row.log
      BY <2>3, <3>2 DEF KeptInv
    <3> QED  BY <2>3, <3>3
  <2> QED  BY <2>1, <2>2, <2>3 DEF Watched
<1> QED  BY <1>1, <1>2

--------------------------------------------------------------------------------
(* The caps *)

LEMMA InitReservedInv == Init => ReservedInv
<1> SUFFICES ASSUME Init PROVE ReservedInv
  OBVIOUS
<1>1. \A r \in Requests : req[r] = Unsent /\ owner = NoCall
  BY DEF Init
<1>2. Dated(row, req)
  BY DEF Init, Dated, DefaultRow, EmptyLog, AbsentRow
<1> QED  BY <1>1, <1>2 DEF ReservedInv, EndInv, DatedInv, KeptInv, Dated, Counts, Unsent,
                           Init, NoCall, Bad

LEMMA NextReservedInv == TInv /\ CapInv /\ ReservedInv /\ [Next]_vars => ReservedInv'
BY NextEndInv, NextDatedInv, NextKeptInv DEF ReservedInv

\* What was paid in a window is in the log the caps are checked against.
LEMMA PaidIsLogged ==
    ASSUME TInv, CapInv, ReservedInv, lost = "none", NEW w \in {DAY_MS, HOUR_MS},
           NEW cap \in Nat,
           row # AbsentRow => Within(cap, Total(DOMAIN Recent(row.log, w)))
    PROVE  Within(cap, Total(PaidSince(w)))
<1>0. w \in Nat /\ w <= DAY_MS /\ DAY_MS \in Nat /\ now \in Nat
  BY LedgerAssumption DEF TInv, TypeOK
<1>1. HasAmounts(req) /\ \A r \in Requests : IsRequest(req[r])
  BY DEF TInv, TypeOK, HasAmounts, IsRequest
<1>2. ASSUME NEW r \in PaidSince(w)
      PROVE  row # AbsentRow /\ r \in DOMAIN Recent(row.log, w)
  <2>1. r \in Requests /\ Counts(req[r], now) /\ now - req[r].at < w
    BY <1>0, <1>1, <1>2 DEF PaidSince, Paid, Counts, Bad, IsRequest, Null
  <2>2. row # AbsentRow /\ r \in DOMAIN row.log
    BY <2>1 DEF ReservedInv, KeptInv
  <2>3. row.log[r] = req[r].at
    BY <2>1, <2>2 DEF ReservedInv, DatedInv, Dated, Counts
  <2> QED  BY <2>1, <2>2, <2>3 DEF Recent, Only
<1>3. CASE row = AbsentRow
  <2>1. PaidSince(w) = {}
    BY <1>2, <1>3
  <2> QED  BY <2>1, SumOfNone DEF Total, SumOf, Within
<1>4. CASE row # AbsentRow
  <2> DEFINE P == PaidSince(w)
             R == DOMAIN Recent(row.log, w)
  <2>1. P \subseteq R
    BY <1>2
  <2>2. R \subseteq Requests
    BY <1>4 DEF Recent, Only, TInv, TypeOK, RowOrAbsent, IsRow, IsLog
  <2>3. Total(P) = SumOf(P, req) /\ Total(R) = SumOf(R, req)
    BY DEF Total, SumOf
  <2>4. Within(cap, Total(R))
    BY <1>4
  <2> HIDE DEF P, R
  <2>5. SumOf(P, req) <= SumOf(R, req) /\ SumOf(P, req) \in Nat /\ SumOf(R, req) \in Nat
    BY <1>1, <2>1, <2>2, SumOfMonotone, SumOfType
  <2>6. Within(cap, Total(P))
    BY <2>3, <2>4, <2>5 DEF Within
  <2> QED  BY <2>6 DEF P
<1> QED  BY <1>3, <1>4

\* The payments signed under a reservation in any trailing day and hour stay within
\* the caps, whatever requests, owner calls and crashes interleave, until a whole-row
\* write or a release drops a reservation that still counts.
THEOREM CapsHold == Spec => []CapsHoldUnlessLost
<1>1. TInv /\ CapInv /\ ReservedInv => CapsHoldUnlessLost
  <2> SUFFICES ASSUME TInv, CapInv, ReservedInv, lost = "none"
               PROVE  /\ Within(CapPerDay, Total(PaidSince(DAY_MS)))
                      /\ Within(CapPerHour, Total(PaidSince(HOUR_MS)))
    BY DEF CapsHoldUnlessLost
  <2>1. LogWithinCaps
    BY CapInvMeansCaps
  <2> QED  BY <2>1, PaidIsLogged, LedgerAssumption DEF LogWithinCaps
<1> QED  BY <1>1, InitTInv, NextTInv, InitCapInv, NextCapInv, InitReservedInv,
            NextReservedInv, PTL DEF Spec
================================================================================
