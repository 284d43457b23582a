--------------------------- MODULE PayoutsProofs ---------------------------
(* What is with the bank does not change, what is called paid was paid,    *)
(* no earning is paid twice, every payout adds up and never more is sent   *)
(* than was earned, for any number of earnings, payouts, runs of the       *)
(* dispatch job, refunds and deaths.                                       *)
EXTENDS Payouts, SumTheorems, FiniteSetTheorems, TLAPS

EarningRow == [status: EarningStatus, reversed: Nat]
ItemRow == [payout: Payouts \union {NoPayout}, amount: Nat]
PayoutRow == [status: PayoutStatus, amount: Nat, attempts: 0..MaxAttempts,
              providerId: {"NULL", "EMPTY", "ID"}, syncs: 0..MaxSyncs]
AdjustmentRow == [status: {"NONE", "PENDING", "APPLIED", "CANCELLED"},
                  earning: Earnings, amount: Nat, payout: Payouts \union {NoPayout}]
StaleRow == [payout: Payouts, attempts: Nat, sent: BOOLEAN]
JobRow == [pc: {"IDLE", "RECOVER", "CALL", "SAVE", "RELEASE", "CANCEL", "SYNC"},
           payout: Payouts \union {NoPayout}, answer: Answers \union {"NONE"},
           seen: SUBSET Earnings, stale: SUBSET StaleRow]
BankRow == [state: {"NONE", "ASKED", "PAID", "REFUSED"}, amount: Nat, covers: SUBSET Earnings]

Typed ==
  /\ earning \in [Earnings -> EarningRow]
  /\ item \in [Earnings -> ItemRow]
  /\ payout \in [Payouts -> PayoutRow]
  /\ batch \in [Payouts -> BatchStatus]
  /\ adjustment \in [Reversals -> AdjustmentRow]
  /\ job \in [Workers -> JobRow]
  /\ bank \in [Payouts -> BankRow]
  /\ statement \in [Payouts -> {"NONE", "LINE", "SETTLED"}]
  /\ crashes \in 0..MaxCrashes

LEMMA TypeIs == TypeOK <=> Typed
BY DEF TypeOK, Typed, EarningRow, ItemRow, PayoutRow, AdjustmentRow, StaleRow, JobRow, BankRow

-----------------------------------------------------------------------------
(* The inductive invariant.                                                *)

(* Runs that have a payout in hand.                                        *)
Calling(w) == job[w].pc \in {"CALL", "SAVE"}
Releasing(w) == job[w].pc \in {"RELEASE", "CANCEL"}
Handles(w, p) == (Calling(w) \/ Releasing(w)) /\ job[w].payout = p

(* The transfer of p may still be paid.                                    *)
Out(p) == bank[p].state \in {"ASKED", "PAID"}

(* A payout is claimed once: it has an attempt from then on, and only a    *)
(* transfer that was taken for sent has a provider's id.                   *)
ClaimedOnce ==
  \A p \in Payouts :
     /\ payout[p].providerId # "EMPTY"
     /\ payout[p].status \in {"NONE", "CREATED", "DISPATCHING"} => payout[p].providerId = "NULL"
     /\ payout[p].status = "DISPATCHING" => payout[p].attempts = 1
     /\ payout[p].status \in {"NONE", "CREATED"} => bank[p].state = "NONE" /\ payout[p].attempts = 0
     /\ statement[p] # "NONE" => bank[p].state = "PAID"
     /\ payout[p].status = "CONFIRMED" => bank[p].state = "PAID"

(* A run that waits for the service has the payout to itself; one that     *)
(* releases a payout knows that the service was never asked.               *)
HandlesWell(w) ==
  /\ Calling(w) => job[w].payout \in Payouts /\ payout[job[w].payout].status = "DISPATCHING"
  /\ Releasing(w) =>
       job[w].payout \in Payouts /\ Dead(job[w].payout) /\ bank[job[w].payout].state = "NONE"
  /\ job[w].pc = "SAVE" /\ job[w].answer \in RequestErrors => bank[job[w].payout].state = "NONE"

HandledAlone ==
  \A w \in Workers :
     /\ HandlesWell(w)
     /\ \A v \in Workers, p \in Payouts : Handles(w, p) /\ Handles(v, p) => v = w

(* What a run found stale has been claimed, is handled by nobody and was   *)
(* not sent, whatever has become of it meanwhile.                          *)
Listed(r) ==
  /\ r.attempts = 1 /\ ~r.sent
  /\ payout[r.payout].status \in {"DISPATCHING", "FAILED", "CANCELLED", "CONFIRMED"}
  /\ \A v \in Workers : ~Handles(v, r.payout)

ListedStale == \A w \in Workers : \A r \in job[w].stale : Listed(r)

(* An item is worth at least what is left of its earning, and an earning   *)
(* of a payout that has not failed is not owed.                            *)
Covered(e) ==
  /\ earning[e].reversed <= Net[e]
  /\ item[e].payout # NoPayout =>
       /\ item[e].amount >= Outstanding(e)
       /\ ~Dead(item[e].payout) => earning[e].status \in {"IN_PAYOUT", "PAID", "REVERSED"}

ItemsCover == \A e \in Earnings : Covered(e)

(* An earning in a transfer stays there and is not owed.                   *)
TransferHolds(p, e) ==
  /\ earning[e].status \in {"IN_PAYOUT", "PAID", "REVERSED"}
  /\ item[e].payout = p \/ (item[e].payout = NoPayout /\ earning[e].status = "REVERSED")

TransfersHold ==
  \A p \in Payouts : Out(p) =>
     /\ ItemsOf(p) \subseteq bank[p].covers
     /\ \A e \in bank[p].covers : TransferHolds(p, e)

OneTransfer ==
  \A p, q \in Payouts : Out(p) /\ Out(q) =>
     \A e \in bank[p].covers \intersect bank[q].covers : p = q

(* What a run is about to release is in no transfer.                       *)
Free(w, e) ==
  /\ Releasing(w)
  /\ earning[e].status \in {"IN_PAYOUT", "REVERSED"}
  /\ item[e].payout \in {job[w].payout, NoPayout}
  /\ item[e].payout = NoPayout => earning[e].status = "REVERSED"
  /\ \A v \in Workers : e \in job[v].seen => v = w
  /\ \A p \in Payouts : Out(p) => e \notin bank[p].covers

SeenIsFree == \A w \in Workers : \A e \in job[w].seen : Free(w, e)

WasPaid(e) ==
  earning[e].status = "PAID" => \E p \in Payouts : bank[p].state = "PAID" /\ e \in bank[p].covers

PaidIsPaid == \A e \in Earnings : WasPaid(e)

Good ==
  /\ Typed /\ ClaimedOnce /\ HandledAlone /\ ListedStale
  /\ ItemsCover /\ TransfersHold /\ OneTransfer /\ SeenIsFree /\ PaidIsPaid

-----------------------------------------------------------------------------
(* Types.                                                                  *)

LEMMA Constants ==
  /\ NoPayout \notin Payouts /\ NoPayout \in Payouts \union {NoPayout}
  /\ \A e \in Earnings : Net[e] \in Nat \ {0}
  /\ NoItem \in ItemRow /\ Idle \in JobRow /\ NewPayout \in PayoutRow
  /\ NewEarning \in EarningRow /\ NoAdjustment \in AdjustmentRow
BY PayoutConstants DEF Payouts, NoPayout, NoItem, ItemRow, Idle, JobRow, NewPayout, PayoutRow,
   NewEarning, EarningRow, NoAdjustment, AdjustmentRow, PayoutStatus, EarningStatus, Answers, StaleRow

LEMMA InitTyped == Init => Typed
BY Constants, PayoutConstants DEF Typed, Init, BatchStatus, BankRow

(* What the actions write into a payout's row.                             *)
LEMMA PayoutRowIs ==
  ASSUME NEW row \in PayoutRow
  PROVE  /\ \A n \in Nat, status \in PayoutStatus :
              /\ [row EXCEPT !.status = status, !.amount = n] \in PayoutRow
              /\ [row EXCEPT !.amount = n, !.status = status] \in PayoutRow
         /\ \A attempts \in 0..MaxAttempts, status \in PayoutStatus :
              [row EXCEPT !.status = status, !.attempts = attempts] \in PayoutRow
         /\ \A status \in PayoutStatus, id \in {"NULL", "EMPTY", "ID"} :
              [row EXCEPT !.status = status, !.providerId = id, !.syncs = 0] \in PayoutRow
         /\ \A status \in PayoutStatus :
              [row EXCEPT !.status = status, !.syncs = 0] \in PayoutRow
<1>1. 0 \in 0..MaxSyncs
  BY PayoutConstants
<1> QED BY <1>1 DEF PayoutRow

LEMMA BatchOfIs == \A s : BatchOf(s) \in BatchStatus
BY DEF BatchOf, BatchStatus

LEMMA ReleasedIs ==
  ASSUME Typed, NEW S
  PROVE  /\ Released(S) \in [Earnings -> EarningRow]
         /\ Voided(S) \in [Reversals -> AdjustmentRow]
         /\ \A e \in Earnings :
              /\ Released(S)[e].reversed = earning[e].reversed
              /\ Released(S)[e].status = IF e \in S THEN "ELIGIBLE" ELSE earning[e].status
BY DEF Typed, Released, Voided, EarningRow, EarningStatus, AdjustmentRow

(* A refund never takes more than the earning was worth.                   *)
LEMMA LessReversedIs ==
  ASSUME Typed, NEW e \in Earnings, NEW n \in 1..Net[e], Reversible(e, n)
  PROVE  /\ LessReversed(e, n) \in [Earnings -> EarningRow]
         /\ LessReversed(e, n)[e].reversed = earning[e].reversed + n
         /\ LessReversed(e, n)[e].status =
              IF earning[e].reversed + n = Net[e] THEN "REVERSED" ELSE earning[e].status
         /\ \A f \in Earnings \ {e} : LessReversed(e, n)[f] = earning[f]
BY Constants DEF Typed, LessReversed, EarningRow, EarningStatus

LEMMA ReducedIs ==
  ASSUME Typed, NEW p \in Payouts, NEW moved \in SUBSET Earnings, moved # {}
  PROVE  /\ Reduced(p, moved) \in PayoutRow
         /\ Reduced(p, moved).status = payout[p].status
         /\ Reduced(p, moved).attempts = payout[p].attempts
         /\ Reduced(p, moved).providerId = payout[p].providerId
<1> DEFINE last == CHOOSE e \in moved : \A f \in moved : f <= e
<1>1. last \in Earnings
  BY PayoutConstants
<1> DEFINE left == payout[p].amount - item[last].amount
<1>2. left \in Int
  BY <1>1 DEF Typed, ItemRow, PayoutRow
<1>3. Reduced(p, moved) = [payout[p] EXCEPT !.amount = IF left > 0 THEN left ELSE 0]
  BY DEF Reduced
<1> HIDE DEF left, last
<1> QED BY <1>2, <1>3 DEF Typed, PayoutRow

-----------------------------------------------------------------------------
(* Each action keeps the types.                                            *)

LEMMA EarningTyped ==
  ASSUME Typed
  PROVE  /\ \A e \in Earnings : CreateEarning(e) => Typed'
         /\ EligibilitySweep => Typed'
         /\ CreateBatch => Typed'
<1> USE DEF Typed
<1>1. ASSUME NEW e \in Earnings, CreateEarning(e) PROVE Typed'
  BY <1>1 DEF CreateEarning, outside, EarningRow, EarningStatus
<1>2. ASSUME EligibilitySweep PROVE Typed'
  BY <1>2 DEF EligibilitySweep, outside, EarningRow, EarningStatus
<1>3. ASSUME CreateBatch PROVE Typed'
  <2> DEFINE moving == {e \in Earnings : Batchable(e)}
             total == TotalOutstanding(moving) - TotalAdjusted(Carried)
             from == {item[e].payout : e \in moving} \ {NoPayout}
  <2>1. PICK p \in Payouts :
          /\ total \in Nat \ {0}
          /\ payout' = [q \in Payouts |->
               IF q = p THEN [payout[p] EXCEPT !.status = "CREATED", !.amount = total]
               ELSE IF q \in from THEN Reduced(q, moving \intersect ItemsOf(q)) ELSE payout[q]]
          /\ item' = [e \in Earnings |->
               IF e \in moving THEN [payout |-> p, amount |-> Outstanding(e)] ELSE item[e]]
          /\ earning' = [e \in Earnings |->
               IF e \in moving THEN [earning[e] EXCEPT !.status = "IN_PAYOUT"] ELSE earning[e]]
          /\ adjustment' = [k \in Reversals |->
               IF k \in Carried THEN [adjustment[k] EXCEPT !.status = "APPLIED", !.payout = p]
               ELSE adjustment[k]]
          /\ batch' = [q \in Payouts |->
               IF q = p THEN "DRAFT" ELSE IF q \in from THEN BatchOf(payout[q].status) ELSE batch[q]]
          /\ UNCHANGED <<job, outside, crashes>>
    BY <1>3 DEF CreateBatch
  <2> HIDE DEF total
  <2>2. \A e \in moving : Outstanding(e) \in Nat
    BY Constants DEF Batchable, Outstanding, EarningRow
  <2>3. \A q \in from : moving \intersect ItemsOf(q) # {}
    BY DEF ItemsOf
  <2>4. \A q \in Payouts \intersect from : Reduced(q, moving \intersect ItemsOf(q)) \in PayoutRow
    BY <2>3, ReducedIs
  <2>5. payout' \in [Payouts -> PayoutRow]
    <3>1. "CREATED" \in PayoutStatus
      BY DEF PayoutStatus
    <3>2. [payout[p] EXCEPT !.status = "CREATED", !.amount = total] \in PayoutRow
      BY <2>1, <3>1, PayoutRowIs
    <3> QED BY <2>1, <2>4, <3>2
  <2>6. item' \in [Earnings -> ItemRow]
    BY <2>1, <2>2 DEF ItemRow
  <2>7. earning' \in [Earnings -> EarningRow]
    BY <2>1 DEF EarningRow, EarningStatus
  <2>8. adjustment' \in [Reversals -> AdjustmentRow]
    BY <2>1 DEF AdjustmentRow
  <2>9. batch' \in [Payouts -> BatchStatus]
    BY <2>1, BatchOfIs DEF BatchStatus
  <2> QED BY <2>1, <2>5, <2>6, <2>7, <2>8, <2>9 DEF outside
<1> QED BY <1>1, <1>2, <1>3

LEMMA ReversalTyped ==
  ASSUME Typed, NEW k \in Reversals, NEW e \in Earnings, NEW n \in 1..Net[e],
         ReverseOrderEarning(k, e, n)
  PROVE  Typed'
<1> USE DEF Typed
<1>1. n \in Nat
  BY Constants
<1>2. \A status \in {"PENDING", "CANCELLED"} :
        Recorded(k, e, n, status) \in [Reversals -> AdjustmentRow]
  BY <1>1, Constants DEF Recorded, AdjustmentRow
<1>3. Reversible(e, n) => LessReversed(e, n) \in [Earnings -> EarningRow]
  BY LessReversedIs
<1>4. CASE ReverseInPlace(k, e, n)
  BY <1>2, <1>3, <1>4 DEF ReverseInPlace, outside
<1>5. CASE ReverseInPayout(k, e, n)
  <2> DEFINE p == item[e].payout
  <2>1. p \in Payouts
    BY <1>5 DEF ReverseInPayout, ItemRow
  <2>2. item' \in [Earnings -> ItemRow]
    BY <1>1, <1>5, <2>1, Constants DEF ReverseInPayout, ItemRow
  <2>3. payout' \in [Payouts -> PayoutRow]
    <3>1. payout[p] \in PayoutRow /\ n \in Nat /\ n <= payout[p].amount
      BY <1>1, <1>5, <2>1 DEF ReverseInPayout
    <3>2. payout' = [payout EXCEPT ![p] =
            [payout[p] EXCEPT !.amount = payout[p].amount - n,
               !.status = IF n = payout[p].amount THEN "CANCELLED" ELSE payout[p].status]]
      BY <1>5, <2>1, <3>1 DEF ReverseInPayout, PayoutRow
    <3>3. payout[p].amount - n \in Nat
      BY <3>1 DEF PayoutRow
    <3>4. (IF n = payout[p].amount THEN "CANCELLED" ELSE payout[p].status) \in PayoutStatus
      BY <3>1 DEF PayoutRow, PayoutStatus
    <3> QED BY <3>1, <3>2, <3>3, <3>4, PayoutRowIs
  <2>4. batch' \in [Payouts -> BatchStatus]
    BY <1>5, BatchOfIs DEF ReverseInPayout
  <2> QED BY <1>2, <1>3, <1>5, <2>2, <2>3, <2>4 DEF ReverseInPayout, outside
<1>6. CASE ReverseNextCycle(k, e, n)
  BY <1>2, <1>3, <1>6 DEF ReverseNextCycle, outside
<1> QED BY <1>4, <1>5, <1>6 DEF ReverseOrderEarning

LEMMA DispatchTyped ==
  ASSUME Typed, NEW w \in Workers,
         DispatchDuePayouts(w) \/ Authorise(w) \/ Die(w)
  PROVE  Typed'
<1> USE DEF Typed
<1>0. job[w] \in JobRow
  OBVIOUS
<1>1. CASE ListStale(w)
  <2>1. PICK S \in SUBSET {p \in Payouts : Stale(p)} :
          job' = [job EXCEPT ![w] =
            [Idle EXCEPT !.pc = "RECOVER",
                         !.stale = {[payout |-> p, attempts |-> payout[p].attempts,
                                     sent |-> payout[p].providerId = "ID"] : p \in S}]]
    BY <1>1 DEF ListStale
  <2>2. {[payout |-> p, attempts |-> payout[p].attempts,
          sent |-> payout[p].providerId = "ID"] : p \in S} \in SUBSET StaleRow
    <3>1. \A p \in S : [payout |-> p, attempts |-> payout[p].attempts,
                        sent |-> payout[p].providerId = "ID"] \in StaleRow
      BY DEF StaleRow, PayoutRow
    <3> QED BY <3>1
  <2>3. job' \in [Workers -> JobRow]
    BY <2>1, <2>2, Constants DEF JobRow
  <2> QED BY <1>1, <2>3 DEF ListStale, books, outside
<1>2. CASE RecoverStale(w)
  <2> DEFINE stale == job[w].stale
             S == {r.payout : r \in stale}
             read(p) == CHOOSE r \in stale : r.payout = p
  <2>1. \A p \in S : read(p) \in stale /\ read(p).payout = p
    OBVIOUS
  <2>2. stale \in SUBSET StaleRow
    BY <1>0 DEF JobRow
  <2>3. \A r \in StaleRow : Attempts(r) \in 0..MaxAttempts
    BY PayoutConstants DEF Attempts, StaleRow
  <2>4. \A r \in StaleRow : Recovered(r) \in PayoutRow
    <3>1. "SENT" \in PayoutStatus /\ "FAILED" \in PayoutStatus
      BY DEF PayoutStatus
    <3>2. \A r \in StaleRow : payout[r.payout] \in PayoutRow
      BY DEF StaleRow
    <3> QED BY <2>3, <3>1, <3>2, PayoutRowIs DEF Recovered
  <2>5. payout' = [p \in Payouts |-> IF p \in S THEN Recovered(read(p)) ELSE payout[p]]
    BY <1>2 DEF RecoverStale
  <2>6. payout' \in [Payouts -> PayoutRow]
    <3> HIDE DEF read, S, stale
    <3> QED BY <2>1, <2>2, <2>4, <2>5
  <2>7. batch' \in [Payouts -> BatchStatus]
    BY <1>2, BatchOfIs DEF RecoverStale
  <2>8. earning' \in [Earnings -> EarningRow] /\ adjustment' \in [Reversals -> AdjustmentRow]
    BY <1>2, ReleasedIs DEF RecoverStale
  <2>9. job' \in [Workers -> JobRow] /\ UNCHANGED <<item, outside, crashes>>
    BY <1>2, Constants DEF RecoverStale
  <2> QED BY <2>6, <2>7, <2>8, <2>9 DEF outside
<1>3. ASSUME NEW p \in Payouts, Claim(w, p) PROVE Typed'
  <2>1. payout' \in [Payouts -> PayoutRow]
    <3>1. payout' = [payout EXCEPT ![p] =
            [payout[p] EXCEPT !.status = "DISPATCHING", !.attempts = payout[p].attempts + 1]]
      BY <1>3 DEF Claim, PayoutRow
    <3>2. payout[p].attempts + 1 \in 0..MaxAttempts /\ "DISPATCHING" \in PayoutStatus
      BY <1>3, PayoutConstants DEF Claim, Claimable, PayoutRow, PayoutStatus
    <3> QED BY <3>1, <3>2, PayoutRowIs
  <2>2. job' \in [Workers -> JobRow]
    BY <1>3, Constants DEF Claim, JobRow
  <2> QED BY <1>3, <2>1, <2>2 DEF Claim, outside
<1>4. CASE Answer(w)
  <2>1. job' \in [Workers -> JobRow]
    <3>1. PICK a \in Answers : job' = [job EXCEPT ![w].pc = "SAVE", ![w].answer = a]
      BY <1>4 DEF Answer
    <3>2. [job[w] EXCEPT !.pc = "SAVE", !.answer = a] \in JobRow
      BY <1>0 DEF JobRow
    <3> QED BY <3>1, <3>2
  <2> QED BY <1>4, <2>1 DEF Answer, books, outside
<1>5. CASE SaveSent(w)
  <2>1. payout' \in [Payouts -> PayoutRow]
    <3>1. "SENT" \in PayoutStatus
      BY DEF PayoutStatus
    <3> QED BY <1>5, <3>1, PayoutRowIs DEF SaveSent
  <2>2. job' \in [Workers -> JobRow]
    BY <1>5, <1>0 DEF SaveSent, JobRow
  <2> QED BY <1>5, <2>1, <2>2 DEF SaveSent, outside
<1>6. CASE SaveFailed(w)
  <2>1. payout' \in [Payouts -> PayoutRow]
    <3> DEFINE p == job[w].payout
               attempts == IF job[w].answer = "PERMANENT" THEN MaxAttempts ELSE payout[p].attempts
    <3>1. "FAILED" \in PayoutStatus
      BY DEF PayoutStatus
    <3>2. p \in Payouts => attempts \in 0..MaxAttempts
      BY PayoutConstants DEF PayoutRow
    <3>3. payout' = [payout EXCEPT ![p] = [payout[p] EXCEPT !.status = "FAILED", !.attempts = attempts]]
      <4>1. CASE p \in Payouts
        BY <1>6, <4>1 DEF SaveFailed, PayoutRow
      <4>2. CASE p \notin Payouts
        BY <1>6, <4>2 DEF SaveFailed
      <4> QED BY <4>1, <4>2
    <3> HIDE DEF attempts, p
    <3> QED BY <3>1, <3>2, <3>3, PayoutRowIs
  <2>2. job' \in [Workers -> JobRow]
    BY <1>6, <1>0 DEF SaveFailed, JobRow
  <2> QED BY <1>6, <2>1, <2>2 DEF SaveFailed, outside
<1>7. CASE ListItems(w)
  <2>1. InPayout(job[w].payout) \in SUBSET Earnings
    BY DEF InPayout, ItemsOf
  <2>2. job' \in [Workers -> JobRow]
    BY <1>7, <1>0, <2>1 DEF ListItems, JobRow
  <2> QED BY <1>7, <2>2 DEF ListItems, books, outside
<1>8. CASE ReleaseItems(w)
  <2>1. job' \in [Workers -> JobRow]
    BY <1>8, <1>0 DEF ReleaseItems, JobRow
  <2> QED BY <1>8, <2>1, ReleasedIs DEF ReleaseItems, outside
<1>9. CASE SyncBatch(w)
  BY <1>9, Constants, BatchOfIs DEF SyncBatch, outside
<1>10. CASE Authorise(w)
  <2>1. bank' \in [Payouts -> BankRow]
    BY <1>10 DEF Authorise, BankRow, PayoutRow, ItemsOf
  <2> QED BY <1>10, <2>1 DEF Authorise, books
<1>11. CASE Die(w)
  BY <1>11, Constants, PayoutConstants DEF Die, books, outside
<1> QED BY <1>1, <1>2, <1>3, <1>4, <1>5, <1>6, <1>7, <1>8, <1>9, <1>10, <1>11
        DEF DispatchDuePayouts

LEMMA ConfirmedTyped ==
  ASSUME Typed, NEW p \in Payouts, Confirmed(p)
  PROVE  /\ payout' \in [Payouts -> PayoutRow] /\ item' = item /\ adjustment' = adjustment
         /\ earning' \in [Earnings -> EarningRow] /\ batch' \in [Payouts -> BatchStatus]
<1>1. "CONFIRMED" \in PayoutStatus /\ "CONFIRMED" \in BatchStatus
  BY DEF PayoutStatus, BatchStatus
<1>2. payout' \in [Payouts -> PayoutRow]
  BY <1>1, PayoutRowIs DEF Confirmed, Typed
<1>3. earning' \in [Earnings -> EarningRow]
  BY DEF Confirmed, Typed, EarningRow, EarningStatus
<1> QED BY <1>1, <1>2, <1>3 DEF Confirmed, Typed

LEMMA OutsideTyped ==
  ASSUME Typed, NEW p \in Payouts,
         BankPays(p) \/ BankRefuses(p) \/ StatementLine(p) \/ ConfirmManually(p)
         \/ SettlePayout(p) \/ SyncSentPayoutStatuses(p)
  PROVE  Typed'
<1> USE DEF Typed
<1>1. CASE BankPays(p) \/ BankRefuses(p)
  BY <1>1 DEF BankPays, BankRefuses, books, BankRow
<1>2. CASE StatementLine(p)
  BY <1>2 DEF StatementLine, books
<1>3. CASE ConfirmManually(p) \/ SyncConfirms(p)
  BY <1>3, ConfirmedTyped DEF ConfirmManually, SyncConfirms, outside
<1>4. CASE SettlePayout(p)
  BY <1>4, ConfirmedTyped DEF SettlePayout, books
<1>5. CASE SyncWaits(p)
  <2>1. payout[p].syncs + 1 \in 0..MaxSyncs /\ payout' = [payout EXCEPT ![p].syncs = @ + 1]
    BY <1>5, PayoutConstants DEF SyncWaits, Askable, PayoutRow
  <2> QED BY <1>5, <2>1 DEF SyncWaits, outside, PayoutRow
<1>6. CASE SyncFails(p)
  <2>1. payout[p].syncs + 1 \in 0..MaxSyncs
    BY <1>6, PayoutConstants DEF SyncFails, Askable, PayoutRow
  <2>2. payout' = [payout EXCEPT ![p].status = "FAILED", ![p].syncs = @ + 1]
    BY <1>6 DEF SyncFails
  <2>3. payout' \in [Payouts -> PayoutRow]
    BY <2>1, <2>2 DEF PayoutRow, PayoutStatus
  <2> QED BY <1>6, <2>3, ReleasedIs DEF SyncFails, outside, BatchStatus
<1> QED BY <1>1, <1>2, <1>3, <1>4, <1>5, <1>6 DEF SyncSentPayoutStatuses

LEMMA TypedStep == Typed /\ [Next]_vars => Typed'
<1> SUFFICES ASSUME Typed, [Next]_vars PROVE Typed'
  OBVIOUS
<1>1. UNCHANGED vars => Typed'
  BY DEF vars, Typed
<1> QED BY <1>1, EarningTyped, ReversalTyped, DispatchTyped, OutsideTyped
        DEF Next, OpsOrderRefund, OpsChargeback, OrderReversal

-----------------------------------------------------------------------------
(* What the larger actions do.                                             *)

(* The payout q is made; rows of the others keep all but their amount, and *)
(* those that have not failed keep that.                                   *)
BatchMade(q) ==
  /\ payout[q].status = "NONE" /\ payout'[q].status = "CREATED"
  /\ payout'[q].attempts = payout[q].attempts /\ payout'[q].providerId = payout[q].providerId
  /\ \A p \in Payouts \ {q} :
       /\ payout'[p].status = payout[p].status
       /\ payout'[p].attempts = payout[p].attempts /\ payout'[p].providerId = payout[p].providerId
       /\ ~Dead(p) => payout'[p] = payout[p]
  /\ \A e \in Earnings :
       /\ ~Batchable(e) => item'[e] = item[e] /\ earning'[e] = earning[e]
       /\ Batchable(e) => /\ item'[e] = [payout |-> q, amount |-> Outstanding(e)]
                          /\ earning'[e].status = "IN_PAYOUT"
                          /\ earning'[e].reversed = earning[e].reversed
  /\ UNCHANGED <<job, bank, statement>>

LEMMA CreateBatchIs ==
  ASSUME Typed, CreateBatch
  PROVE  \E q \in Payouts : BatchMade(q)
<1> DEFINE moving == {e \in Earnings : Batchable(e)}
           from == {item[e].payout : e \in moving} \ {NoPayout}
           total == TotalOutstanding(moving) - TotalAdjusted(Carried)
<1>1. PICK q \in Payouts :
        /\ payout[q].status = "NONE"
        /\ payout' = [p \in Payouts |->
             IF p = q THEN [payout[q] EXCEPT !.status = "CREATED", !.amount = total]
             ELSE IF p \in from THEN Reduced(p, moving \intersect ItemsOf(p)) ELSE payout[p]]
        /\ item' = [e \in Earnings |->
             IF e \in moving THEN [payout |-> q, amount |-> Outstanding(e)] ELSE item[e]]
        /\ earning' = [e \in Earnings |->
             IF e \in moving THEN [earning[e] EXCEPT !.status = "IN_PAYOUT"] ELSE earning[e]]
        /\ UNCHANGED <<job, bank, statement>>
  BY DEF CreateBatch, outside
<1> HIDE DEF total
<1>2. \A p \in Payouts \intersect from : Dead(p) /\ moving \intersect ItemsOf(p) # {}
  BY DEF Batchable, ItemsOf
<1>3. ASSUME NEW p \in Payouts \intersect from
      PROVE  LET row == Reduced(p, moving \intersect ItemsOf(p)) IN
             /\ row.status = payout[p].status /\ row.attempts = payout[p].attempts
             /\ row.providerId = payout[p].providerId
  BY <1>2, ReducedIs
<1>4. /\ payout'[q].status = "CREATED"
      /\ payout'[q].attempts = payout[q].attempts /\ payout'[q].providerId = payout[q].providerId
  BY <1>1 DEF Typed, PayoutRow
<1>5. ASSUME NEW p \in Payouts \ {q}
      PROVE  /\ payout'[p].status = payout[p].status
             /\ payout'[p].attempts = payout[p].attempts
             /\ payout'[p].providerId = payout[p].providerId
             /\ ~Dead(p) => payout'[p] = payout[p]
  <2>1. CASE p \in from
    <3>1. payout'[p] = Reduced(p, moving \intersect ItemsOf(p))
      BY <1>1, <2>1
    <3> QED BY <1>2, <1>3, <2>1, <3>1
  <2>2. CASE p \notin from
    BY <1>1, <2>2
  <2> QED BY <2>1, <2>2
<1>6. ASSUME NEW e \in Earnings
      PROVE  /\ ~Batchable(e) => item'[e] = item[e] /\ earning'[e] = earning[e]
             /\ Batchable(e) => /\ item'[e] = [payout |-> q, amount |-> Outstanding(e)]
                                /\ earning'[e].status = "IN_PAYOUT"
                                /\ earning'[e].reversed = earning[e].reversed
  BY <1>1 DEF Typed, EarningRow
<1>7. BatchMade(q)
  BY <1>1, <1>4, <1>5, <1>6 DEF BatchMade
<1> QED BY <1>7

(* A recovery rewrites the payouts on its list and no others.              *)
LEMMA RecoveryIs ==
  ASSUME Typed, NEW w \in Workers, RecoverStale(w), NEW p \in Payouts
  PROVE  \/ payout'[p] = payout[p] /\ \A r \in job[w].stale : r.payout # p
         \/ \E r \in job[w].stale : r.payout = p /\ payout'[p] = Recovered(r)
<1> DEFINE S == {r.payout : r \in job[w].stale}
           read(q) == CHOOSE r \in job[w].stale : r.payout = q
<1>1. payout'[p] = IF p \in S THEN Recovered(read(p)) ELSE payout[p]
  BY DEF RecoverStale, Typed
<1>2. p \in S => read(p) \in job[w].stale /\ read(p).payout = p
  OBVIOUS
<1>3. CASE p \in S
  <2> HIDE DEF S, read
  <2> QED BY <1>1, <1>2, <1>3
<1>4. CASE p \notin S
  BY <1>1, <1>4
<1> QED BY <1>3, <1>4

(* The row a run saves its answer to.                                      *)
LEMMA SaveIs ==
  ASSUME Typed, NEW w \in Workers, SaveSent(w) \/ SaveFailed(w), NEW p \in Payouts
  PROVE  /\ job[w].payout # p => payout'[p] = payout[p]
         /\ payout'[p].amount = payout[p].amount
         /\ job[w].payout = p /\ SaveSent(w) =>
              payout'[p].status = "SENT" /\ payout'[p].providerId = "ID"
         /\ job[w].payout = p /\ SaveFailed(w) =>
              payout'[p].status = "FAILED" /\ payout'[p].providerId = payout[p].providerId
<1>1. payout[p] \in PayoutRow
  BY DEF Typed
<1>2. CASE job[w].payout # p
  BY <1>2 DEF SaveSent, SaveFailed, Typed
<1>3. CASE job[w].payout = p /\ SaveSent(w)
  <2>1. job[w].answer \in {"OK", "IN_FLIGHT"}
    BY <1>3 DEF SaveSent
  <2>2. ~SaveFailed(w)
    BY <2>1 DEF SaveFailed
  <2> QED BY <1>1, <1>3, <2>2 DEF SaveSent, Typed, PayoutRow
<1>4. CASE job[w].payout = p /\ SaveFailed(w)
  <2>1. ~SaveSent(w)
    BY <1>4 DEF SaveFailed, SaveSent
  <2>2. payout' = [payout EXCEPT ![p] = [payout[p] EXCEPT !.status = "FAILED",
           !.attempts = IF job[w].answer = "PERMANENT" THEN MaxAttempts ELSE payout[p].attempts]]
    BY <1>1, <1>4 DEF SaveFailed, Typed, PayoutRow
  <2> QED BY <1>1, <1>4, <2>1, <2>2 DEF Typed, PayoutRow
<1> QED BY <1>2, <1>3, <1>4

-----------------------------------------------------------------------------
(* What is with the bank does not change.                                  *)

(* The amount and the items of the payout stay as they are.                *)
Frozen(p) == payout'[p].amount = payout[p].amount /\ \A e \in ItemsOf(p) : item'[e] = item[e]

LEMMA FrozenStep ==
  ASSUME Typed, [Next]_vars, NEW p \in Payouts, WithTheBank(p)
  PROVE  Frozen(p)
<1> USE DEF Frozen
<1>0. payout[p] \in PayoutRow
  BY DEF Typed
<1>1. CASE item' = item /\ payout' = payout
  BY <1>1
<1>2. ASSUME CreateBatch PROVE Frozen(p)
  <2>1. PICK q \in Payouts : BatchMade(q)
    BY <1>2, CreateBatchIs
  <2>2. p # q /\ ~Dead(p)
    BY <2>1 DEF WithTheBank, BatchMade, Dead
  <2>3. \A e \in ItemsOf(p) : ~Batchable(e)
    BY <2>2, Constants DEF ItemsOf, Batchable
  <2> QED BY <2>1, <2>2, <2>3 DEF BatchMade, ItemsOf
<1>3. ASSUME NEW e \in Earnings, NEW k \in Reversals, NEW n \in 1..Net[e],
             ReverseInPayout(k, e, n)
      PROVE  Frozen(p)
  <2>1. item[e].payout # p
    BY <1>3 DEF ReverseInPayout, Mutable, WithTheBank
  <2> QED BY <1>3, <2>1 DEF ReverseInPayout, ItemsOf, Typed
<1>4. ASSUME NEW w \in Workers, RecoverStale(w) PROVE Frozen(p)
  <2>1. \A r : Recovered(r).amount = payout[r.payout].amount \/ payout[r.payout] \notin PayoutRow
    BY DEF Recovered, PayoutRow
  <2> QED BY <1>0, <1>4, <2>1, RecoveryIs DEF RecoverStale
<1>5. ASSUME NEW q \in Payouts, Confirmed(q) PROVE Frozen(p)
  BY <1>0, <1>5 DEF Confirmed, Typed, PayoutRow
<1>6. ASSUME NEW w \in Workers, DispatchDuePayouts(w) PROVE Frozen(p)
  <2>1. ASSUME NEW q \in Payouts, Claim(w, q) PROVE Frozen(p)
    BY <1>0, <2>1 DEF Claim, Typed, PayoutRow
  <2>2. CASE SaveSent(w) \/ SaveFailed(w)
    BY <2>2, SaveIs DEF SaveSent, SaveFailed
  <2>3. CASE ListStale(w) \/ Answer(w) \/ ListItems(w)
    BY <1>1, <2>3 DEF ListStale, Answer, ListItems, books
  <2>4. CASE ReleaseItems(w) \/ SyncBatch(w)
    BY <1>1, <2>4 DEF ReleaseItems, SyncBatch
  <2> QED BY <1>4, <1>6, <2>1, <2>2, <2>3, <2>4 DEF DispatchDuePayouts
<1>7. ASSUME NEW q \in Payouts, SettlePayout(q) \/ ConfirmManually(q) \/ SyncSentPayoutStatuses(q)
      PROVE  Frozen(p)
  <2>1. CASE SyncWaits(q)
    BY <1>0, <2>1 DEF SyncWaits, Typed, PayoutRow
  <2>2. CASE SyncFails(q)
    BY <1>0, <2>2 DEF SyncFails, Typed, PayoutRow
  <2> QED BY <1>1, <1>5, <1>7, <2>1, <2>2
          DEF SettlePayout, ConfirmManually, SyncSentPayoutStatuses, SyncConfirms, books
<1>8. CASE EligibilitySweep \/ \E e \in Earnings : CreateEarning(e)
  BY <1>1, <1>8 DEF EligibilitySweep, CreateEarning
<1>9. ASSUME NEW w \in Workers, Authorise(w) \/ Die(w) PROVE Frozen(p)
  BY <1>1, <1>9 DEF Authorise, Die, books
<1>10. ASSUME NEW q \in Payouts, BankPays(q) \/ BankRefuses(q) \/ StatementLine(q)
       PROVE  Frozen(p)
  BY <1>1, <1>10 DEF BankPays, BankRefuses, StatementLine, books
<1>11. ASSUME NEW e \in Earnings, NEW k \in Reversals, OrderReversal(k, e)
       PROVE  Frozen(p)
  BY <1>1, <1>3, <1>11
     DEF OrderReversal, ReverseOrderEarning, ReverseInPlace, ReverseNextCycle
<1>12. CASE UNCHANGED vars
  BY <1>1, <1>12 DEF vars
<1> QED BY <1>2, <1>6, <1>7, <1>8, <1>9, <1>10, <1>11, <1>12
        DEF Next, OpsOrderRefund, OpsChargeback

-----------------------------------------------------------------------------
(* What a step does to an earning and its item.                            *)

(* A payout that comes back to life has paid what it holds.                *)
StaysDead(e) ==
  item[e].payout # NoPayout /\ Dead(item[e].payout) =>
    Dead(item[e].payout)' \/ earning[e].status = "REVERSED"

Kept(e) == item'[e] = item[e] /\ earning'[e] = earning[e] /\ StaysDead(e)

Owed(e) ==
  /\ item'[e] = item[e] /\ earning'[e].reversed = earning[e].reversed /\ StaysDead(e)
  /\ earning[e].status \in {"NONE", "PENDING"}
  /\ earning'[e].status \in {"PENDING", "ELIGIBLE"}

Batched(e) ==
  /\ earning[e].status = "ELIGIBLE" /\ earning'[e].status = "IN_PAYOUT"
  /\ earning'[e].reversed = earning[e].reversed
  /\ item'[e].payout \in Payouts /\ ~Out(item'[e].payout)
  /\ item'[e].amount = Outstanding(e)

Lessened(e) ==
  /\ earning'[e].reversed >= earning[e].reversed /\ earning'[e].reversed <= Net[e]
  /\ earning'[e].status =
       IF earning'[e].reversed = Net[e] THEN "REVERSED" ELSE earning[e].status
  /\ \/ /\ item'[e].payout = item[e].payout /\ StaysDead(e)
        /\ item'[e].amount >= item[e].amount - (earning'[e].reversed - earning[e].reversed)
     \/ item'[e] = NoItem /\ earning'[e].reversed = Net[e]

Freed(e) ==
  /\ item'[e] = item[e] /\ earning'[e].reversed = earning[e].reversed
  /\ earning'[e].status = "ELIGIBLE"
  /\ item[e].payout # NoPayout => Dead(item[e].payout)'
  /\ \A w \in Workers : e \notin job'[w].seen
  /\ \A p \in Payouts : Out(p) => e \notin bank[p].covers

PaidOut(e) ==
  /\ item'[e] = item[e] /\ earning'[e].reversed = earning[e].reversed
  /\ earning[e].status # "REVERSED" /\ earning'[e].status = "PAID"
  /\ item[e].payout \in Payouts /\ bank[item[e].payout].state = "PAID"

EarningStep(e) == Kept(e) \/ Owed(e) \/ Batched(e) \/ Lessened(e) \/ Freed(e) \/ PaidOut(e)

(* The bank authorises no transfer, and runs list nothing to release.      *)
NothingNew ==
  /\ \A p \in Payouts :
       /\ bank'[p].covers = bank[p].covers
       /\ Out(p)' => Out(p)
       /\ bank[p].state = "PAID" => bank'[p].state = "PAID"
  /\ \A w \in Workers :
       \/ job'[w].seen = {}
       \/ job'[w].seen = job[w].seen /\ job'[w].payout = job[w].payout /\ Releasing(w)'
       \/ job'[w] = job[w]

(* An earning that runs are about to release is not touched by the bank.   *)
LEMMA SeenIsUnpaid ==
  ASSUME Good, NEW w \in Workers, NEW e \in job[w].seen
  PROVE  /\ e \in Earnings
         /\ ~(item[e].payout \in Payouts /\ bank[item[e].payout].state = "PAID")
<1>1. e \in Earnings
  BY DEF Good, Typed, JobRow
<1>2. Free(w, e)
  BY DEF Good, SeenIsFree
<1>3. Releasing(w) => bank[job[w].payout].state = "NONE"
  BY DEF Good, HandledAlone, HandlesWell
<1> QED BY <1>1, <1>2, <1>3, Constants DEF Free

LEMMA CoveredKept ==
  ASSUME Good, Typed', NEW e \in Earnings, EarningStep(e)
  PROVE  Covered(e)'
<1> USE DEF Covered, Outstanding
<1>1. /\ earning[e] \in EarningRow /\ earning'[e] \in EarningRow
      /\ item[e] \in ItemRow /\ item'[e] \in ItemRow /\ Net[e] \in Nat
  BY Constants DEF Good, Typed
<1>2. Covered(e)
  BY DEF Good, ItemsCover
<1>3. CASE Kept(e)
  BY <1>1, <1>2, <1>3 DEF Kept, StaysDead, Dead
<1>4. CASE Owed(e)
  BY <1>1, <1>2, <1>4 DEF Owed, StaysDead, Dead
<1>5. CASE Batched(e)
  BY <1>1, <1>2, <1>5 DEF Batched, EarningRow
<1>6. CASE Lessened(e)
  <2>1. CASE item'[e] = NoItem
    BY <1>1, <1>6, <2>1 DEF Lessened, NoItem
  <2>2. CASE item'[e] # NoItem
    <3>1. item'[e].payout = item[e].payout /\ StaysDead(e)
      BY <1>6, <2>2 DEF Lessened
    <3>2. item'[e].amount >= item[e].amount - (earning'[e].reversed - earning[e].reversed)
      BY <1>6, <2>2 DEF Lessened
    <3>3. /\ earning'[e].reversed \in Nat /\ earning[e].reversed \in Nat
          /\ item[e].amount \in Nat /\ item'[e].amount \in Nat
      BY <1>1 DEF EarningRow, ItemRow
    <3>4. item[e].payout # NoPayout => item'[e].amount >= Net[e] - earning'[e].reversed
      BY <1>1, <1>2, <3>2, <3>3
    <3>5. item[e].payout # NoPayout /\ ~Dead(item[e].payout)' =>
            earning'[e].status \in {"IN_PAYOUT", "PAID", "REVERSED"}
      BY <1>2, <1>6, <3>1 DEF Lessened, StaysDead
    <3>6. earning'[e].reversed <= Net[e]
      BY <1>6 DEF Lessened
    <3> QED BY <3>1, <3>4, <3>5, <3>6 DEF Dead
  <2> QED BY <2>1, <2>2
<1>7. CASE Freed(e)
  BY <1>1, <1>2, <1>7 DEF Freed, Dead
<1>8. CASE PaidOut(e)
  BY <1>1, <1>2, <1>8 DEF PaidOut
<1> QED BY <1>3, <1>4, <1>5, <1>6, <1>7, <1>8 DEF EarningStep

LEMMA TransferKept ==
  ASSUME Good, NothingNew, NEW e \in Earnings, EarningStep(e), NEW p \in Payouts, Out(p)'
  PROVE  /\ item'[e].payout = p => e \in bank'[p].covers
         /\ e \in bank'[p].covers => TransferHolds(p, e)'
<1>1. /\ Out(p) /\ bank'[p].covers = bank[p].covers
  BY DEF NothingNew
<1>2. /\ item[e].payout = p => e \in bank[p].covers
      /\ e \in bank[p].covers => TransferHolds(p, e)
  BY <1>1 DEF Good, TransfersHold, ItemsOf
<1>3. p # NoPayout
  BY Constants
<1> USE DEF TransferHolds
<1>4. CASE Kept(e) \/ Owed(e) \/ PaidOut(e)
  BY <1>1, <1>2, <1>3, <1>4 DEF Kept, Owed, PaidOut
<1>5. CASE Batched(e)
  BY <1>1, <1>2, <1>3, <1>5 DEF Batched
<1>6. CASE Lessened(e)
  BY <1>1, <1>2, <1>3, <1>6 DEF Lessened, NoItem
<1>7. CASE Freed(e)
  BY <1>1, <1>2, <1>3, <1>7 DEF Freed
<1> QED BY <1>4, <1>5, <1>6, <1>7 DEF EarningStep

LEMMA FreeKept ==
  ASSUME Good, Typed', NothingNew, NEW w \in Workers, NEW e \in job'[w].seen, EarningStep(e)
  PROVE  Free(w, e)'
<1>1. job'[w].seen = job[w].seen /\ job'[w].payout = job[w].payout /\ (Releasing(w) => Releasing(w)')
  BY DEF NothingNew, Releasing
<1>2. e \in job[w].seen /\ Free(w, e) /\ Releasing(w)'
  BY <1>1 DEF Good, SeenIsFree, Free
<1>3. \A v \in Workers : e \in job'[v].seen => v = w
  <2>1. \A v \in Workers : e \in job'[v].seen => e \in job[v].seen
    BY DEF NothingNew
  <2> QED BY <1>2, <2>1 DEF Free
<1>4. \A p \in Payouts : Out(p)' => e \notin bank'[p].covers
  BY <1>2 DEF NothingNew, Free
<1>5. ~PaidOut(e)
  BY <1>2, SeenIsUnpaid DEF PaidOut
<1>6. ~Owed(e) /\ ~Batched(e) /\ ~Freed(e)
  BY <1>2 DEF Free, Owed, Batched, Freed
<1>7. CASE Kept(e)
  BY <1>1, <1>2, <1>3, <1>4, <1>7 DEF Free, Kept
<1>8. CASE Lessened(e)
  BY <1>1, <1>2, <1>3, <1>4, <1>8 DEF Free, Lessened, NoItem
<1> QED BY <1>5, <1>6, <1>7, <1>8 DEF EarningStep

LEMMA PaidKept ==
  ASSUME Good, NothingNew, NEW e \in Earnings, EarningStep(e)
  PROVE  WasPaid(e)'
<1>1. WasPaid(e)
  BY DEF Good, PaidIsPaid
<1>2. \A p \in Payouts : bank[p].state = "PAID" /\ e \in bank[p].covers =>
        bank'[p].state = "PAID" /\ e \in bank'[p].covers
  BY DEF NothingNew
<1>3. CASE PaidOut(e)
  <2>1. PICK p \in Payouts : p = item[e].payout /\ bank[p].state = "PAID"
    BY <1>3 DEF PaidOut
  <2>2. e \in bank[p].covers
    BY <2>1 DEF Good, TransfersHold, Out, ItemsOf
  <2> QED BY <1>2, <2>1, <2>2 DEF WasPaid
<1>4. CASE ~PaidOut(e)
  <2>1. earning'[e].status = "PAID" => earning[e].status = "PAID"
    BY <1>4 DEF EarningStep, Kept, Owed, Batched, Lessened, Freed
  <2> QED BY <1>1, <1>2, <2>1 DEF WasPaid
<1> QED BY <1>3, <1>4

LEMMA BooksStep ==
  ASSUME Good, Typed', NothingNew, \A e \in Earnings : EarningStep(e)
  PROVE  ItemsCover' /\ TransfersHold' /\ OneTransfer' /\ SeenIsFree' /\ PaidIsPaid'
<1>1. \A w \in Workers : \A e \in job'[w].seen : e \in Earnings
  BY DEF Typed, JobRow
<1>2. ItemsCover'
  BY CoveredKept DEF ItemsCover
<1>3. TransfersHold'
  <2>1. \A p \in Payouts : bank'[p].covers \subseteq Earnings
    BY DEF Typed, BankRow
  <2> QED BY <2>1, TransferKept DEF TransfersHold, ItemsOf
<1>4. SeenIsFree'
  BY <1>1, FreeKept DEF SeenIsFree
<1>5. PaidIsPaid'
  BY PaidKept DEF PaidIsPaid
<1>6. OneTransfer'
  BY DEF Good, OneTransfer, NothingNew
<1> QED BY <1>2, <1>3, <1>4, <1>5, <1>6

-----------------------------------------------------------------------------
(* What a step does to a payout, as seen by the runs at work.              *)

(* Nobody handles the payout or has it on a list, or it has failed and     *)
(* stays so, or has failed and was paid all the same.                      *)
PayoutStep(p) ==
  /\ \/ payout'[p].status = payout[p].status
     \/ payout[p].status \in {"NONE", "CREATED", "SENT"}
     \/ Dead(p) /\ Dead(p)'
     \/ payout[p].status = "FAILED" /\ bank[p].state = "PAID" /\ payout'[p].status = "CONFIRMED"
  /\ \/ bank'[p].state = bank[p].state
     \/ bank[p].state # "NONE"
     \/ payout[p].status = "SENT"

LEMMA RunsUndisturbed ==
  ASSUME Good, job' = job, \A p \in Payouts : PayoutStep(p)
  PROVE  HandledAlone' /\ ListedStale'
<1>0. \A w \in Workers : job[w].stale \subseteq StaleRow
  BY DEF Good, Typed, JobRow
<1>1. ASSUME NEW w \in Workers, Calling(w)
      PROVE  /\ job[w].payout \in Payouts /\ payout'[job[w].payout].status = "DISPATCHING"
             /\ bank[job[w].payout].state = "NONE" => bank'[job[w].payout].state = "NONE"
  <2>1. job[w].payout \in Payouts /\ payout[job[w].payout].status = "DISPATCHING"
    BY <1>1 DEF Good, HandledAlone, HandlesWell
  <2> QED BY <2>1 DEF PayoutStep, Dead
<1>2. ASSUME NEW w \in Workers, Releasing(w)
      PROVE  /\ job[w].payout \in Payouts /\ Dead(job[w].payout)'
             /\ bank'[job[w].payout].state = "NONE"
  <2>1. /\ job[w].payout \in Payouts /\ Dead(job[w].payout)
        /\ bank[job[w].payout].state = "NONE"
    BY <1>2 DEF Good, HandledAlone, HandlesWell
  <2> QED BY <2>1 DEF PayoutStep, Dead
<1>3. HandledAlone'
  <2>1. \A w \in Workers : job[w].pc = "SAVE" /\ job[w].answer \in RequestErrors =>
          bank[job[w].payout].state = "NONE"
    BY DEF Good, HandledAlone, HandlesWell
  <2>2. \A v, w \in Workers, p \in Payouts : Handles(w, p) /\ Handles(v, p) => v = w
    BY DEF Good, HandledAlone, HandlesWell
  <2> QED BY <1>1, <1>2, <2>1, <2>2 DEF HandledAlone, HandlesWell, Handles, Calling, Releasing
<1>4. ListedStale'
  <2>1. ASSUME NEW w \in Workers, NEW r \in job[w].stale
        PROVE  /\ r.attempts = 1 /\ ~r.sent
               /\ payout'[r.payout].status \in {"DISPATCHING", "FAILED", "CANCELLED", "CONFIRMED"}
               /\ \A v \in Workers : ~Handles(v, r.payout)
    <3>1. /\ r.attempts = 1 /\ ~r.sent
          /\ payout[r.payout].status \in {"DISPATCHING", "FAILED", "CANCELLED", "CONFIRMED"}
          /\ \A v \in Workers : ~Handles(v, r.payout)
      BY DEF Good, ListedStale, Listed
    <3>2. PayoutStep(r.payout)
      BY <1>0 DEF StaleRow
    <3> QED BY <3>1, <3>2 DEF PayoutStep, Dead
  <2> QED BY <2>1 DEF ListedStale, Listed, Handles, Calling, Releasing
<1> QED BY <1>3, <1>4

-----------------------------------------------------------------------------
(* The retries allow for a recovery, a call ends before its lock does, and *)
(* the status service answers.                                             *)
AsConfigured == MaxAttempts > 2 /\ ~SlowCalls /\ ~StatusErrors

(* No earning is paid twice, and what is called paid was paid: the steps   *)
(* outside the dispatch job.                                               *)

LEMMA CreateEarningGood ==
  ASSUME Good, Typed', NEW e \in Earnings, CreateEarning(e)
  PROVE  Good'
<1> USE DEF Good, Typed
<1>1. ClaimedOnce'
  BY DEF CreateEarning, outside, ClaimedOnce
<1>2. job' = job /\ \A p \in Payouts : PayoutStep(p)
  BY DEF CreateEarning, outside, PayoutStep
<1>3. NothingNew
  BY DEF CreateEarning, outside, NothingNew, Out
<1>4. \A one \in Earnings : EarningStep(one)
  BY DEF CreateEarning, EarningStep, Kept, StaysDead, Dead, Owed, EarningRow
<1> QED BY <1>1, <1>2, <1>3, <1>4, RunsUndisturbed, BooksStep

LEMMA SweepGood ==
  ASSUME Good, Typed', EligibilitySweep
  PROVE  Good'
<1> USE DEF Good, Typed
<1>1. ClaimedOnce'
  BY DEF EligibilitySweep, outside, ClaimedOnce
<1>2. job' = job /\ \A p \in Payouts : PayoutStep(p)
  BY DEF EligibilitySweep, outside, PayoutStep
<1>3. NothingNew
  BY DEF EligibilitySweep, outside, NothingNew, Out
<1>4. \A e \in Earnings : EarningStep(e)
  BY DEF EligibilitySweep, EarningStep, Kept, StaysDead, Dead, Owed, EarningRow
<1> QED BY <1>1, <1>2, <1>3, <1>4, RunsUndisturbed, BooksStep

LEMMA CreateBatchGood ==
  ASSUME Good, Typed', CreateBatch
  PROVE  Good'
<1> USE DEF Good, Typed
<1>0. PICK q \in Payouts : BatchMade(q)
  BY CreateBatchIs
<1> USE <1>0
<1>1. ClaimedOnce'
  BY DEF BatchMade, ClaimedOnce
<1>2. job' = job /\ \A p \in Payouts : PayoutStep(p)
  BY DEF BatchMade, PayoutStep
<1>3. NothingNew
  BY DEF BatchMade, NothingNew, Out
<1>4. \A e \in Earnings : EarningStep(e)
  <2>1. ASSUME NEW e \in Earnings, Batchable(e) PROVE Batched(e)
    <3>1. ~Out(q)
      BY DEF BatchMade, ClaimedOnce, Out
    <3> QED BY <2>1, <3>1 DEF BatchMade, Batchable, Batched
  <2>2. ASSUME NEW e \in Earnings, ~Batchable(e) PROVE Kept(e)
    <3>1. \A p \in Payouts : Dead(p) => Dead(p)'
      BY DEF BatchMade, Dead
    <3>2. item[e].payout # NoPayout => item[e].payout \in Payouts
      BY DEF ItemRow
    <3> QED BY <2>2, <3>1, <3>2 DEF BatchMade, Kept, StaysDead, Dead
  <2> QED BY <2>1, <2>2 DEF EarningStep
<1> QED BY <1>1, <1>2, <1>3, <1>4, RunsUndisturbed, BooksStep

LEMMA ReverseInPlaceGood ==
  ASSUME Good, Typed', NEW k \in Reversals, NEW e \in Earnings, NEW n \in 1..Net[e],
         ReverseInPlace(k, e, n)
  PROVE  Good'
<1> USE DEF Good, Typed
<1>1. ClaimedOnce'
  BY DEF ReverseInPlace, outside, ClaimedOnce
<1>2. job' = job /\ \A p \in Payouts : PayoutStep(p)
  BY DEF ReverseInPlace, outside, PayoutStep
<1>3. NothingNew
  BY DEF ReverseInPlace, outside, NothingNew, Out
<1>4. \A one \in Earnings : EarningStep(one)
  <2>1. n \in Nat /\ Net[e] \in Nat
    BY Constants
  <2>2. Lessened(e)
    BY <2>1, LessReversedIs DEF ReverseInPlace, Reversible, Lessened, StaysDead, EarningRow, ItemRow
  <2>3. ASSUME NEW f \in Earnings \ {e} PROVE Kept(f)
    BY LessReversedIs DEF ReverseInPlace, Kept, StaysDead, Dead
  <2> QED BY <2>2, <2>3 DEF EarningStep
<1> QED BY <1>1, <1>2, <1>3, <1>4, RunsUndisturbed, BooksStep

LEMMA ReverseNextCycleGood ==
  ASSUME Good, Typed', NEW k \in Reversals, NEW e \in Earnings, NEW n \in 1..Net[e],
         ReverseNextCycle(k, e, n)
  PROVE  Good'
<1> USE DEF Good, Typed
<1>1. ClaimedOnce'
  BY DEF ReverseNextCycle, outside, ClaimedOnce
<1>2. job' = job /\ \A p \in Payouts : PayoutStep(p)
  BY DEF ReverseNextCycle, outside, PayoutStep
<1>3. NothingNew
  BY DEF ReverseNextCycle, outside, NothingNew, Out
<1>4. \A one \in Earnings : EarningStep(one)
  <2>1. n \in Nat /\ Net[e] \in Nat
    BY Constants
  <2>2. Lessened(e)
    BY <2>1, LessReversedIs DEF ReverseNextCycle, Reversible, Lessened, StaysDead, Dead, EarningRow, ItemRow
  <2>3. ASSUME NEW f \in Earnings \ {e} PROVE Kept(f)
    BY LessReversedIs DEF ReverseNextCycle, Kept, StaysDead, Dead
  <2> QED BY <2>2, <2>3 DEF EarningStep
<1> QED BY <1>1, <1>2, <1>3, <1>4, RunsUndisturbed, BooksStep

LEMMA ReverseInPayoutGood ==
  ASSUME Good, Typed', NEW k \in Reversals, NEW e \in Earnings, NEW n \in 1..Net[e],
         ReverseInPayout(k, e, n)
  PROVE  Good'
<1> USE DEF Good, Typed
<1> DEFINE p == item[e].payout
<1>0. /\ p \in Payouts /\ Mutable(p) /\ UNCHANGED <<bank, statement>>
      /\ payout'[p].status \in {payout[p].status, "CANCELLED"}
      /\ payout'[p].attempts = payout[p].attempts /\ payout'[p].providerId = payout[p].providerId
      /\ \A q \in Payouts \ {p} : payout'[q] = payout[q]
  <2>1. p \in Payouts /\ payout[p] \in PayoutRow /\ Mutable(p) /\ UNCHANGED <<bank, statement>>
    BY DEF ReverseInPayout, ItemRow, outside
  <2>2. payout' = [payout EXCEPT ![p] =
          [payout[p] EXCEPT !.amount = payout[p].amount - n,
             !.status = IF n = payout[p].amount THEN "CANCELLED" ELSE payout[p].status]]
    BY <2>1 DEF ReverseInPayout, PayoutRow
  <2> QED BY <2>1, <2>2 DEF PayoutRow
<1>1. ClaimedOnce'
  BY <1>0 DEF ClaimedOnce, Mutable
<1>2. job' = job /\ \A any \in Payouts : PayoutStep(any)
  <2>1. UNCHANGED <<job, bank>>
    BY DEF ReverseInPayout, outside
  <2> QED BY <1>0, <2>1 DEF PayoutStep, Dead, Mutable
<1>3. NothingNew
  BY DEF ReverseInPayout, outside, NothingNew, Out
<1>4. \A one \in Earnings : EarningStep(one)
  <2>1. n \in Nat /\ Net[e] \in Nat
    BY Constants
  <2>2. \A q \in Payouts : Dead(q) => Dead(q)'
    BY <1>0 DEF Dead
  <2>3. Lessened(e)
    <3>1. /\ earning'[e].reversed = earning[e].reversed + n /\ earning'[e].reversed <= Net[e]
          /\ earning'[e].status =
               IF earning'[e].reversed = Net[e] THEN "REVERSED" ELSE earning[e].status
      BY LessReversedIs DEF ReverseInPayout, Reversible
    <3>2. earning[e].reversed \in Nat /\ item[e].amount \in Nat
      BY DEF EarningRow, ItemRow
    <3>3. CASE n = item[e].amount
      <4>1. item'[e] = NoItem
        BY <3>3 DEF ReverseInPayout
      <4>2. item[e].amount >= Net[e] - earning[e].reversed
        BY <1>0, Constants DEF ItemsCover, Covered, Outstanding
      <4> QED BY <2>1, <3>1, <3>2, <3>3, <4>1, <4>2 DEF Lessened
    <3>4. CASE n # item[e].amount
      <4>1. item'[e].payout = p /\ item'[e].amount = item[e].amount - n
        BY <3>4 DEF ReverseInPayout
      <4>2. StaysDead(e)
        BY <1>0, <2>2, <4>1 DEF StaysDead, Dead
      <4> QED BY <2>1, <3>1, <3>2, <4>1, <4>2 DEF Lessened
    <3> QED BY <3>3, <3>4
  <2>4. ASSUME NEW f \in Earnings \ {e} PROVE Kept(f)
    <3>1. item'[f] = item[f] /\ earning'[f] = earning[f]
      BY LessReversedIs DEF ReverseInPayout
    <3>2. item[f].payout \in Payouts \union {NoPayout}
      BY DEF ItemRow
    <3> QED BY <2>2, <3>1, <3>2 DEF Kept, StaysDead, Dead
  <2> QED BY <2>3, <2>4 DEF EarningStep
<1> QED BY <1>1, <1>2, <1>3, <1>4, RunsUndisturbed, BooksStep

LEMMA BankPaysGood ==
  ASSUME Good, Typed', NEW p \in Payouts, BankPays(p)
  PROVE  Good'
<1> USE DEF Good, Typed
<1>1. ClaimedOnce'
  BY DEF BankPays, books, ClaimedOnce, BankRow
<1>2. job' = job /\ \A any \in Payouts : PayoutStep(any)
  BY DEF BankPays, books, PayoutStep, BankRow
<1>3. NothingNew
  BY DEF BankPays, books, BankRow, NothingNew, Out
<1>4. \A e \in Earnings : EarningStep(e)
  BY DEF BankPays, books, EarningStep, Kept, StaysDead, Dead
<1> QED BY <1>1, <1>2, <1>3, <1>4, RunsUndisturbed, BooksStep

LEMMA BankRefusesGood ==
  ASSUME Good, Typed', NEW p \in Payouts, BankRefuses(p)
  PROVE  Good'
<1> USE DEF Good, Typed
<1>1. ClaimedOnce'
  BY DEF BankRefuses, books, ClaimedOnce, BankRow
<1>2. job' = job /\ \A any \in Payouts : PayoutStep(any)
  BY DEF BankRefuses, books, PayoutStep, BankRow
<1>3. NothingNew
  BY DEF BankRefuses, books, BankRow, NothingNew, Out
<1>4. \A e \in Earnings : EarningStep(e)
  BY DEF BankRefuses, books, EarningStep, Kept, StaysDead, Dead
<1> QED BY <1>1, <1>2, <1>3, <1>4, RunsUndisturbed, BooksStep

LEMMA StatementLineGood ==
  ASSUME Good, Typed', NEW p \in Payouts, StatementLine(p)
  PROVE  Good'
<1> USE DEF Good, Typed
<1>1. ClaimedOnce'
  BY DEF StatementLine, books, ClaimedOnce, BankRow
<1>2. job' = job /\ \A any \in Payouts : PayoutStep(any)
  BY DEF StatementLine, books, PayoutStep, BankRow
<1>3. NothingNew
  BY DEF StatementLine, books, BankRow, NothingNew, Out
<1>4. \A e \in Earnings : EarningStep(e)
  BY DEF StatementLine, books, EarningStep, Kept, StaysDead, Dead
<1> QED BY <1>1, <1>2, <1>3, <1>4, RunsUndisturbed, BooksStep

LEMMA SyncWaitsGood ==
  ASSUME Good, Typed', NEW p \in Payouts, SyncWaits(p)
  PROVE  Good'
<1> USE DEF Good, Typed
<1>0. \A q \in Payouts :
        /\ payout'[q].status = payout[q].status /\ payout'[q].attempts = payout[q].attempts
        /\ payout'[q].providerId = payout[q].providerId
  BY DEF SyncWaits, PayoutRow
<1>1. ClaimedOnce'
  BY <1>0 DEF SyncWaits, outside, ClaimedOnce
<1>2. job' = job /\ \A any \in Payouts : PayoutStep(any)
  BY <1>0 DEF SyncWaits, outside, PayoutStep
<1>3. NothingNew
  BY DEF SyncWaits, outside, NothingNew, Out
<1>4. \A e \in Earnings : EarningStep(e)
  <2>1. \A e \in Earnings : item[e].payout # NoPayout => item[e].payout \in Payouts
    BY DEF ItemRow
  <2> QED BY <1>0, <2>1 DEF SyncWaits, EarningStep, Kept, StaysDead, Dead
<1> QED BY <1>1, <1>2, <1>3, <1>4, RunsUndisturbed, BooksStep

LEMMA ConfirmedGood ==
  ASSUME Good, Typed', NEW p \in Payouts, Confirmed(p), bank[p].state = "PAID",
         payout[p].status \in {"SENT", "FAILED"}, UNCHANGED <<job, bank>>,
         \A q \in Payouts : statement'[q] # "NONE" => statement[q] # "NONE"
  PROVE  Good'
<1> USE DEF Good, Typed
<1>0. /\ payout'[p].status = "CONFIRMED" /\ payout'[p].providerId = payout[p].providerId
      /\ payout'[p].attempts = payout[p].attempts
      /\ \A q \in Payouts \ {p} : payout'[q] = payout[q]
  BY DEF Confirmed, PayoutRow
<1>1. ClaimedOnce'
  BY <1>0 DEF ClaimedOnce
<1>2. job' = job /\ \A any \in Payouts : PayoutStep(any)
  BY <1>0 DEF PayoutStep
<1>3. NothingNew
  BY DEF NothingNew, Out
<1>4. \A e \in Earnings : EarningStep(e)
  <2>1. ASSUME NEW e \in Earnings, e \in ItemsOf(p), earning[e].status # "REVERSED"
        PROVE  PaidOut(e)
    BY <2>1 DEF Confirmed, PaidOut, EarningRow, ItemsOf
  <2>2. ASSUME NEW e \in Earnings, e \notin ItemsOf(p) \/ earning[e].status = "REVERSED"
        PROVE  Kept(e)
    <3>1. item'[e] = item[e] /\ earning'[e] = earning[e]
      BY <2>2 DEF Confirmed
    <3>2. item[e].payout # NoPayout => item[e].payout \in Payouts
      BY DEF ItemRow
    <3>3. item[e].payout = p => e \in ItemsOf(p)
      BY DEF ItemsOf
    <3> QED BY <1>0, <2>2, <3>1, <3>2, <3>3 DEF Kept, StaysDead, Dead
  <2> QED BY <2>1, <2>2 DEF EarningStep
<1> QED BY <1>1, <1>2, <1>3, <1>4, RunsUndisturbed, BooksStep

LEMMA SyncFailsGood ==
  ASSUME Good, Typed', AsConfigured, NEW p \in Payouts, SyncFails(p)
  PROVE  Good'
<1> USE DEF Good, Typed
<1>0. /\ payout[p].status = "SENT" /\ payout'[p].status = "FAILED" /\ bank[p].state = "REFUSED"
      /\ payout'[p].providerId = payout[p].providerId /\ payout'[p].attempts = payout[p].attempts
      /\ \A q \in Payouts \ {p} : payout'[q] = payout[q]
      /\ UNCHANGED <<job, bank, statement>>
  BY DEF SyncFails, Askable, Definite, StatusAnswer, AsConfigured, PayoutRow, outside
<1>1. ClaimedOnce'
  BY <1>0 DEF ClaimedOnce
<1>2. job' = job /\ \A any \in Payouts : PayoutStep(any)
  BY <1>0 DEF PayoutStep
<1>3. NothingNew
  BY DEF SyncFails, outside, NothingNew, Out
<1>4. \A e \in Earnings : EarningStep(e)
  <2>0. \A e \in Earnings : item[e].payout # NoPayout => item[e].payout \in Payouts
    BY DEF ItemRow
  <2>1. ASSUME NEW e \in Earnings, e \in InPayout(p) PROVE Freed(e)
    <3>1. /\ item'[e] = item[e] /\ earning'[e].reversed = earning[e].reversed
          /\ earning'[e].status = "ELIGIBLE"
      BY <2>1, ReleasedIs DEF SyncFails
    <3>2. item[e].payout = p /\ earning[e].status = "IN_PAYOUT"
      BY <2>1 DEF InPayout, ItemsOf
    <3>3. Dead(item[e].payout)'
      BY <1>0, <3>1, <3>2 DEF Dead
    <3>4. \A w \in Workers : e \notin job[w].seen
      <4> SUFFICES ASSUME NEW w \in Workers, e \in job[w].seen PROVE FALSE
        OBVIOUS
      <4>1. item[e].payout = job[w].payout /\ Releasing(w)
        BY <3>2, Constants DEF SeenIsFree, Free
      <4>2. Dead(p)
        BY <3>2, <4>1 DEF HandledAlone, HandlesWell
      <4> QED BY <1>0, <4>2 DEF Dead
    <3>5. \A q \in Payouts : Out(q) => e \notin bank[q].covers
      BY <1>0, <3>2, Constants DEF TransfersHold, TransferHolds, Out
    <3> QED BY <1>0, <3>1, <3>3, <3>4, <3>5 DEF Freed
  <2>2. ASSUME NEW e \in Earnings, e \notin InPayout(p) PROVE Kept(e)
    <3>1. item'[e] = item[e] /\ earning'[e] = earning[e]
      BY <2>2 DEF SyncFails, Released
    <3> QED BY <1>0, <2>0, <3>1 DEF Kept, StaysDead, Dead
  <2> QED BY <2>1, <2>2 DEF EarningStep
<1> QED BY <1>1, <1>2, <1>3, <1>4, RunsUndisturbed, BooksStep

-----------------------------------------------------------------------------
(* The dispatch job.                                                       *)

(* A step of run w disturbs no other run: it changes what it handles       *)
(* itself, what nobody handles, or what a PayoutStep may change.           *)
LEMMA RunStep ==
  ASSUME Good, NEW w \in Workers,
         \A v \in Workers \ {w} : job'[v] = job[v],
         \A p \in Payouts :
           \/ PayoutStep(p)
           \/ Handles(w, p)
           \/ /\ \A v \in Workers : ~Handles(v, p)
              /\ payout'[p].status \in {"DISPATCHING", "FAILED", "CANCELLED", "CONFIRMED"},
         \A p \in Payouts : Handles(w, p)' => Handles(w, p) \/ payout[p].status = "CREATED",
         HandlesWell(w)',
         \A r \in job'[w].stale : r \in job[w].stale \/ Listed(r)'
  PROVE  HandledAlone' /\ ListedStale'
<1>0. \A v \in Workers : job[v].stale \subseteq StaleRow
  BY DEF Good, Typed, JobRow
<1>1. \A v \in Workers, p \in Payouts :
        Handles(v, p) => payout[p].status \in {"DISPATCHING", "FAILED", "CANCELLED"}
  BY DEF Good, HandledAlone, HandlesWell, Handles, Dead
<1>2. ASSUME NEW v \in Workers \ {w} PROVE HandlesWell(v)'
  <2>1. HandlesWell(v)
    BY DEF Good, HandledAlone
  <2>2. ASSUME NEW p \in Payouts, Handles(v, p) PROVE PayoutStep(p)
    <3>1. ~Handles(w, p)
      BY <2>2 DEF Good, HandledAlone
    <3> QED BY <2>2, <3>1
  <2>3. CASE Calling(v)
    <3>1. PICK p \in Payouts : p = job[v].payout /\ payout[p].status = "DISPATCHING"
      BY <2>1, <2>3 DEF HandlesWell
    <3>2. PayoutStep(p)
      BY <2>2, <2>3, <3>1 DEF Handles
    <3> QED BY <2>1, <2>3, <3>1, <3>2 DEF HandlesWell, PayoutStep, Calling, Releasing, Dead
  <2>4. CASE Releasing(v)
    <3>1. PICK p \in Payouts : p = job[v].payout /\ Dead(p) /\ bank[p].state = "NONE"
      BY <2>1, <2>4 DEF HandlesWell
    <3>2. PayoutStep(p)
      BY <2>2, <2>4, <3>1 DEF Handles
    <3> QED BY <2>1, <2>4, <3>1, <3>2 DEF HandlesWell, PayoutStep, Calling, Releasing, Dead
  <2> QED BY <2>3, <2>4 DEF HandlesWell, Calling, Releasing
<1>3. ASSUME NEW v \in Workers, NEW p \in Payouts, NEW u \in Workers,
             Handles(v, p)', Handles(u, p)', u # v
      PROVE  FALSE
  <2>1. \A x \in Workers \ {w} : Handles(x, p)' => Handles(x, p)
    BY DEF Handles, Calling, Releasing
  <2>2. Handles(v, p) /\ Handles(u, p)
    BY <1>1, <1>3, <2>1
  <2> QED BY <1>3, <2>2 DEF Good, HandledAlone
<1>4. HandledAlone'
  BY <1>2, <1>3 DEF HandledAlone
<1>5. ASSUME NEW v \in Workers, NEW r \in job[v].stale PROVE Listed(r)'
  <2>1. Listed(r) /\ r.payout \in Payouts
    BY <1>0 DEF Good, ListedStale, StaleRow
  <2>2. payout'[r.payout].status \in {"DISPATCHING", "FAILED", "CANCELLED", "CONFIRMED"}
    BY <2>1 DEF Listed, PayoutStep, Dead
  <2>3. ASSUME NEW x \in Workers PROVE ~Handles(x, r.payout)'
    <3>1. CASE x = w
      BY <2>1, <3>1 DEF Listed
    <3>2. CASE x # w
      BY <2>1, <3>2 DEF Listed, Handles, Calling, Releasing
    <3> QED BY <3>1, <3>2
  <2> QED BY <2>1, <2>2, <2>3 DEF Listed
<1>6. ListedStale'
  BY <1>5 DEF ListedStale
<1> QED BY <1>4, <1>6

LEMMA AnswerGood ==
  ASSUME Good, Typed', NEW w \in Workers, Answer(w)
  PROVE  Good'
<1> USE DEF Good, Typed
<1>0. job[w] \in JobRow
  OBVIOUS
<1>1. ClaimedOnce'
  BY DEF Answer, books, outside, ClaimedOnce
<1>2. \A v \in Workers \ {w} : job'[v] = job[v]
  BY DEF Answer
<1>3. \A p \in Payouts : PayoutStep(p) \/ Handles(w, p)
  BY DEF Answer, books, outside, PayoutStep
<1>4. \A p \in Payouts : Handles(w, p)' => Handles(w, p)
  BY <1>0 DEF Answer, Handles, Calling, Releasing, JobRow
<1>5. HandlesWell(w)'
  <2>1. PICK a \in Answers : /\ Dispatched(a, bank[job[w].payout].state)
                             /\ job'[w] = [job[w] EXCEPT !.pc = "SAVE", !.answer = a]
    BY DEF Answer
  <2>2. a \in RequestErrors => bank[job[w].payout].state = "NONE"
    BY <2>1 DEF Dispatched, NotInitialised, Unready, Unclear, Authorised, RequestErrors
  <2>3. Calling(w) /\ HandlesWell(w)
    BY DEF Answer, Calling, HandledAlone
  <2> QED BY <1>0, <2>1, <2>2, <2>3
          DEF Answer, books, outside, HandlesWell, Calling, Releasing, JobRow
<1>6. job'[w].stale \subseteq job[w].stale
  BY <1>0 DEF Answer, JobRow
<1>7. NothingNew
  <2>1. job'[w].seen = {}
    <3>1. job[w].seen = {}
      BY DEF Answer, SeenIsFree, Free, Releasing
    <3> QED BY <1>0, <3>1 DEF Answer, JobRow
  <2> QED BY <1>2, <2>1 DEF Answer, books, outside, NothingNew, Out
<1>8. \A e \in Earnings : EarningStep(e)
  BY DEF Answer, books, EarningStep, Kept, StaysDead, Dead
<1> QED BY <1>1, <1>2, <1>3, <1>4, <1>5, <1>6, <1>7, <1>8, RunStep, BooksStep

LEMMA SaveSentGood ==
  ASSUME Good, Typed', NEW w \in Workers, SaveSent(w)
  PROVE  Good'
<1> USE DEF Good, Typed
<1>0. job[w] \in JobRow
  OBVIOUS
<1>9. /\ Calling(w) /\ job[w].payout \in Payouts
      /\ payout[job[w].payout].status = "DISPATCHING"
  BY DEF SaveSent, Calling, HandledAlone, HandlesWell
<1>1. ClaimedOnce'
  <2>1. UNCHANGED <<bank, statement>>
    BY DEF SaveSent, outside
  <2>2. ASSUME NEW p \in Payouts, p # job[w].payout PROVE payout'[p] = payout[p]
    BY <2>2, SaveIs
  <2>3. LET p == job[w].payout IN
        /\ payout'[p].status \in {"SENT", "FAILED"}
        /\ payout'[p].providerId \in {payout[p].providerId, "ID"}
    BY <1>9, SaveIs
  <2> QED BY <1>9, <2>1, <2>2, <2>3 DEF ClaimedOnce
<1>2. \A v \in Workers \ {w} : job'[v] = job[v]
  BY DEF SaveSent
<1>3. \A p \in Payouts : PayoutStep(p) \/ Handles(w, p)
  BY <1>9, SaveIs DEF SaveSent, outside, PayoutStep, Handles
<1>4. \A p \in Payouts : Handles(w, p)' => Handles(w, p)
  BY <1>0 DEF SaveSent, Handles, Calling, Releasing, JobRow
<1>5. HandlesWell(w)'
  BY <1>0 DEF SaveSent, HandlesWell, Calling, Releasing, JobRow
<1>6. job'[w].stale \subseteq job[w].stale
  BY <1>0 DEF SaveSent, JobRow
<1>7. NothingNew
  BY <1>0, <1>9 DEF SaveSent, outside, SeenIsFree, Free, JobRow, Releasing, Calling, NothingNew, Out
<1>8. \A e \in Earnings : EarningStep(e)
  <2>1. \A e \in Earnings : item[e].payout # NoPayout => item[e].payout \in Payouts
    BY DEF ItemRow
  <2>2. \A p \in Payouts : Dead(p) => Dead(p)'
    BY <1>9, SaveIs DEF HandledAlone, HandlesWell, Dead
  <2> QED BY <2>1, <2>2 DEF SaveSent, EarningStep, Kept, StaysDead, Dead
<1> QED BY <1>1, <1>2, <1>3, <1>4, <1>5, <1>6, <1>7, <1>8, RunStep, BooksStep

LEMMA SaveFailedGood ==
  ASSUME Good, Typed', NEW w \in Workers, SaveFailed(w)
  PROVE  Good'
<1> USE DEF Good, Typed
<1>0. job[w] \in JobRow
  OBVIOUS
<1>9. /\ Calling(w) /\ job[w].payout \in Payouts
      /\ payout[job[w].payout].status = "DISPATCHING"
  BY DEF SaveFailed, Calling, HandledAlone, HandlesWell
<1>10. UNCHANGED <<bank, statement>>
  BY DEF SaveFailed, outside
<1>1. ClaimedOnce'
  <2>1. UNCHANGED <<bank, statement>>
    BY DEF SaveFailed, outside
  <2>2. ASSUME NEW p \in Payouts, p # job[w].payout PROVE payout'[p] = payout[p]
    BY <2>2, SaveIs
  <2>3. LET p == job[w].payout IN
        /\ payout'[p].status \in {"SENT", "FAILED"}
        /\ payout'[p].providerId \in {payout[p].providerId, "ID"}
    BY <1>9, SaveIs
  <2> QED BY <1>9, <2>1, <2>2, <2>3 DEF ClaimedOnce
<1>2. \A v \in Workers \ {w} : job'[v] = job[v]
  BY DEF SaveFailed
<1>3. \A p \in Payouts : PayoutStep(p) \/ Handles(w, p)
  BY <1>9, <1>10, SaveIs DEF PayoutStep, Handles
<1>4. \A p \in Payouts : Handles(w, p)' => Handles(w, p)
  BY <1>0, <1>9 DEF SaveFailed, Handles, Calling, Releasing, JobRow
<1>5. HandlesWell(w)'
  <2>1. job'[w].payout = job[w].payout /\ job'[w].pc \in {"RELEASE", "SYNC"}
    BY <1>0 DEF SaveFailed, JobRow
  <2>2. payout'[job[w].payout].status = "FAILED"
    BY <1>9, SaveIs
  <2>3. bank'[job[w].payout].state = "NONE"
    BY <1>9, <1>10 DEF SaveFailed, HandledAlone, HandlesWell, RequestErrors
  <2> QED BY <1>9, <2>1, <2>2, <2>3 DEF HandlesWell, Calling, Releasing, Dead
<1>6. job'[w].stale \subseteq job[w].stale
  BY <1>0 DEF SaveFailed, JobRow
<1>7. NothingNew
  BY <1>0, <1>9, <1>10 DEF SaveFailed, SeenIsFree, Free, JobRow, Releasing, Calling, NothingNew, Out
<1>8. \A e \in Earnings : EarningStep(e)
  <2>1. \A e \in Earnings : item[e].payout # NoPayout => item[e].payout \in Payouts
    BY DEF ItemRow
  <2>2. \A p \in Payouts : Dead(p) => Dead(p)'
    BY <1>9, SaveIs DEF HandledAlone, HandlesWell, Dead
  <2> QED BY <2>1, <2>2 DEF SaveFailed, EarningStep, Kept, StaysDead, Dead
<1> QED BY <1>1, <1>2, <1>3, <1>4, <1>5, <1>6, <1>7, <1>8, RunStep, BooksStep

LEMMA ListItemsGood ==
  ASSUME Good, Typed', NEW w \in Workers, ListItems(w)
  PROVE  Good'
<1> USE DEF Good, Typed
<1>0. job[w] \in JobRow
  OBVIOUS
<1>1. ClaimedOnce'
  BY DEF ListItems, books, outside, ClaimedOnce
<1>2. \A v \in Workers \ {w} : job'[v] = job[v]
  BY DEF ListItems
<1>3. \A p \in Payouts : PayoutStep(p) \/ Handles(w, p)
  BY DEF ListItems, books, outside, PayoutStep
<1>4. \A p \in Payouts : Handles(w, p)' => Handles(w, p)
  BY <1>0 DEF ListItems, Handles, Calling, Releasing, JobRow
<1>5. HandlesWell(w)'
  BY <1>0 DEF ListItems, books, outside, HandledAlone, HandlesWell, Calling, Releasing, Dead, JobRow
<1>6. job'[w].stale \subseteq job[w].stale
  BY <1>0 DEF ListItems, JobRow
<1>7. ItemsCover' /\ TransfersHold' /\ OneTransfer' /\ PaidIsPaid'
  BY DEF ListItems, books, outside, ItemsCover, Covered, Outstanding, Dead, TransfersHold,
         TransferHolds, OneTransfer, Out, ItemsOf, PaidIsPaid, WasPaid
<1>8. SeenIsFree'
  <2>1. /\ Releasing(w) /\ job[w].payout \in Payouts /\ bank[job[w].payout].state = "NONE"
    BY DEF ListItems, Releasing, HandledAlone, HandlesWell
  <2>2. /\ job'[w].seen = InPayout(job[w].payout) /\ job'[w].payout = job[w].payout
        /\ Releasing(w)' /\ UNCHANGED <<earning, item, bank>>
    BY <1>0 DEF ListItems, books, outside, JobRow, Releasing
  <2>3. ASSUME NEW e \in InPayout(job[w].payout), NEW v \in Workers, e \in job[v].seen PROVE v = w
    <3>1. Releasing(v) /\ item[e].payout \in {job[v].payout, NoPayout}
      BY <2>3 DEF SeenIsFree, Free
    <3>2. item[e].payout = job[w].payout
      BY DEF InPayout, ItemsOf
    <3>3. Handles(v, job[w].payout) /\ Handles(w, job[w].payout)
      BY <2>1, <3>1, <3>2, Constants DEF Handles
    <3> QED BY <2>1, <3>3 DEF HandledAlone
  <2>4. ASSUME NEW e \in InPayout(job[w].payout) PROVE Free(w, e)'
    <3>1. e \in Earnings /\ item[e].payout = job[w].payout /\ earning[e].status = "IN_PAYOUT"
      BY DEF InPayout, ItemsOf
    <3>2. \A p \in Payouts : Out(p) => e \notin bank[p].covers
      BY <2>1, <3>1, Constants DEF TransfersHold, TransferHolds, Out
    <3>3. \A v \in Workers : e \in job'[v].seen => v = w
      BY <1>2, <2>3
    <3>4. item[e].payout # NoPayout
      BY <2>1, <3>1, Constants
    <3> QED BY <2>2, <3>1, <3>2, <3>3, <3>4 DEF Free, Out
  <2>5. ASSUME NEW v \in Workers \ {w}, NEW e \in job'[v].seen PROVE Free(v, e)'
    <3>1. e \in job[v].seen /\ job'[v] = job[v] /\ Free(v, e)
      BY <1>2 DEF SeenIsFree
    <3>2. e \notin InPayout(job[w].payout)
      BY <2>3, <3>1
    <3>3. \A u \in Workers : e \in job'[u].seen => u = v
      BY <1>2, <2>2, <3>1, <3>2 DEF Free
    <3> QED BY <2>2, <3>1, <3>3 DEF Free, Out, Releasing
  <2> QED BY <2>2, <2>4, <2>5 DEF SeenIsFree
<1> QED BY <1>1, <1>2, <1>3, <1>4, <1>5, <1>6, <1>7, <1>8, RunStep

LEMMA ReleaseItemsGood ==
  ASSUME Good, Typed', NEW w \in Workers, ReleaseItems(w)
  PROVE  Good'
<1> USE DEF Good, Typed
<1>0. job[w] \in JobRow
  OBVIOUS
<1>1. ClaimedOnce'
  BY DEF ReleaseItems, outside, ClaimedOnce
<1>2. \A v \in Workers \ {w} : job'[v] = job[v]
  BY DEF ReleaseItems
<1>3. \A p \in Payouts : PayoutStep(p) \/ Handles(w, p)
  BY DEF ReleaseItems, outside, PayoutStep
<1>4. \A p \in Payouts : Handles(w, p)' => Handles(w, p)
  BY <1>0 DEF ReleaseItems, Handles, Calling, Releasing, JobRow
<1>5. HandlesWell(w)'
  BY <1>0 DEF ReleaseItems, HandlesWell, Calling, Releasing, JobRow
<1>6. job'[w].stale \subseteq job[w].stale
  BY <1>0 DEF ReleaseItems, JobRow
<1>7. NothingNew
  BY <1>0 DEF ReleaseItems, outside, JobRow, NothingNew, Out
<1>8. \A e \in Earnings : EarningStep(e)
  <2>1. ASSUME NEW e \in Earnings, e \in job[w].seen PROVE Freed(e)
    <3>1. /\ item'[e] = item[e] /\ earning'[e].reversed = earning[e].reversed
          /\ earning'[e].status = "ELIGIBLE"
      BY <2>1, ReleasedIs DEF ReleaseItems
    <3>2. Free(w, e)
      BY <2>1 DEF SeenIsFree
    <3>3. Dead(job[w].payout) /\ payout' = payout
      BY <3>2 DEF ReleaseItems, Free, HandledAlone, HandlesWell
    <3>4. \A v \in Workers : e \notin job'[v].seen
      BY <1>0, <3>2 DEF ReleaseItems, Free, JobRow
    <3> QED BY <3>1, <3>2, <3>3, <3>4 DEF Freed, Free, Dead
  <2>2. ASSUME NEW e \in Earnings, e \notin job[w].seen PROVE Kept(e)
    BY <2>2 DEF ReleaseItems, Released, Kept, StaysDead, Dead
  <2> QED BY <2>1, <2>2 DEF EarningStep
<1> QED BY <1>1, <1>2, <1>3, <1>4, <1>5, <1>6, <1>7, <1>8, RunStep, BooksStep

LEMMA SyncBatchGood ==
  ASSUME Good, Typed', NEW w \in Workers, SyncBatch(w)
  PROVE  Good'
<1> USE DEF Good, Typed
<1>0. job[w] \in JobRow
  OBVIOUS
<1>1. ClaimedOnce'
  BY DEF SyncBatch, outside, ClaimedOnce
<1>2. \A v \in Workers \ {w} : job'[v] = job[v]
  BY DEF SyncBatch
<1>3. \A p \in Payouts : PayoutStep(p) \/ Handles(w, p)
  BY DEF SyncBatch, outside, PayoutStep
<1>4. \A p \in Payouts : Handles(w, p)' => Handles(w, p)
  BY DEF SyncBatch, Handles, Calling, Releasing, Idle
<1>5. HandlesWell(w)'
  BY DEF SyncBatch, HandlesWell, Calling, Releasing, Idle
<1>6. job'[w].stale \subseteq job[w].stale
  BY DEF SyncBatch, Idle
<1>7. NothingNew
  BY DEF SyncBatch, outside, Idle, NothingNew, Out
<1>8. \A e \in Earnings : EarningStep(e)
  BY DEF SyncBatch, EarningStep, Kept, StaysDead, Dead
<1> QED BY <1>1, <1>2, <1>3, <1>4, <1>5, <1>6, <1>7, <1>8, RunStep, BooksStep

LEMMA DieGood ==
  ASSUME Good, Typed', NEW w \in Workers, Die(w)
  PROVE  Good'
<1> USE DEF Good, Typed
<1>0. job[w] \in JobRow
  OBVIOUS
<1>1. ClaimedOnce'
  BY DEF Die, books, outside, ClaimedOnce
<1>2. \A v \in Workers \ {w} : job'[v] = job[v]
  BY DEF Die
<1>3. \A p \in Payouts : PayoutStep(p) \/ Handles(w, p)
  BY DEF Die, books, outside, PayoutStep
<1>4. \A p \in Payouts : Handles(w, p)' => Handles(w, p)
  BY DEF Die, Handles, Calling, Releasing, Idle
<1>5. HandlesWell(w)'
  BY DEF Die, HandlesWell, Calling, Releasing, Idle
<1>6. job'[w].stale \subseteq job[w].stale
  BY DEF Die, Idle
<1>7. NothingNew
  BY DEF Die, outside, Idle, NothingNew, Out
<1>8. \A e \in Earnings : EarningStep(e)
  BY DEF Die, books, EarningStep, Kept, StaysDead, Dead
<1> QED BY <1>1, <1>2, <1>3, <1>4, <1>5, <1>6, <1>7, <1>8, RunStep, BooksStep

LEMMA AuthoriseGood ==
  ASSUME Good, Typed', NEW w \in Workers, Authorise(w)
  PROVE  Good'
<1> USE DEF Good, Typed
<1> DEFINE p == job[w].payout
<1>0. /\ Calling(w) /\ ~Releasing(w) /\ p \in Payouts
      /\ payout[p].status = "DISPATCHING" /\ job[w].pc # "SAVE"
  BY DEF Authorise, Calling, Releasing, HandledAlone, HandlesWell
<1>1. /\ UNCHANGED <<earning, item, payout, job, statement>>
      /\ bank[p].state = "NONE" /\ bank'[p].state = "ASKED" /\ bank'[p].covers = ItemsOf(p)
      /\ \A q \in Payouts \ {p} : bank'[q] = bank[q]
  BY <1>0 DEF Authorise, books, BankRow
<1> HIDE DEF p
<1>2. ClaimedOnce'
  BY <1>0, <1>1 DEF ClaimedOnce
<1>3. HandledAlone' /\ ListedStale'
  <2>1. \A q \in Payouts : PayoutStep(q) \/ Handles(w, q)
    BY <1>0, <1>1 DEF PayoutStep, Handles, p
  <2>2. HandlesWell(w)'
    BY <1>0, <1>1 DEF HandlesWell, Calling, Releasing, p
  <2>3. \A q \in Payouts : Handles(w, q)' => Handles(w, q)
    BY <1>1 DEF Handles, Calling, Releasing
  <2> QED BY <1>1, <2>1, <2>2, <2>3, RunStep
<1>4. ItemsCover'
  BY <1>1 DEF ItemsCover, Covered, Outstanding, Dead
<1>5. ASSUME NEW e \in Earnings, item[e].payout = p
      PROVE  earning[e].status \in {"IN_PAYOUT", "PAID", "REVERSED"}
  <2>1. Covered(e) /\ ~Dead(p) /\ p # NoPayout
    BY <1>0, Constants DEF ItemsCover, Dead
  <2> QED BY <1>5, <2>1 DEF Covered
<1>6. TransfersHold'
  <2>1. ASSUME NEW q \in Payouts \ {p}, Out(q)'
        PROVE  /\ ItemsOf(q)' \subseteq bank'[q].covers
               /\ \A e \in bank'[q].covers : TransferHolds(q, e)'
    BY <1>1, <2>1 DEF TransfersHold, TransferHolds, Out, ItemsOf
  <2>2. ItemsOf(p) = {e \in Earnings : item'[e].payout = p}
    BY <1>1 DEF ItemsOf
  <2>3. \A e \in bank'[p].covers :
          /\ earning'[e].status \in {"IN_PAYOUT", "PAID", "REVERSED"}
          /\ item'[e].payout = p
    BY <1>1, <1>5, <2>2
  <2> QED BY <1>1, <2>1, <2>2, <2>3 DEF TransfersHold, TransferHolds, ItemsOf, p
<1>7. SeenIsFree'
  <2>1. ASSUME NEW v \in Workers, NEW e \in job[v].seen PROVE Free(v, e)'
    <3>1. Free(v, e) /\ Releasing(v) /\ e \in Earnings
      BY DEF SeenIsFree, Free, JobRow
    <3>2. p # job[v].payout
      BY <1>0, <3>1 DEF HandledAlone, HandlesWell, Dead
    <3>3. e \notin ItemsOf(p)
      BY <1>0, <3>1, <3>2, Constants DEF Free, ItemsOf
    <3> QED BY <1>1, <3>1, <3>3 DEF Free, Out, Releasing
  <2> QED BY <1>1, <2>1 DEF SeenIsFree
<1>8. PaidIsPaid'
  BY <1>1 DEF PaidIsPaid, WasPaid
<1>9. OneTransfer'
  <2>1. \A q \in Payouts \ {p} : Out(q) => \A e \in ItemsOf(p) : e \notin bank[q].covers
    BY <1>0, Constants DEF TransfersHold, TransferHolds, ItemsOf
  <2> QED BY <1>1, <2>1 DEF OneTransfer, Out
<1> QED BY <1>2, <1>3, <1>4, <1>6, <1>7, <1>8, <1>9

LEMMA ClaimGood ==
  ASSUME Good, Typed', NEW w \in Workers, NEW p \in Payouts, Claim(w, p)
  PROVE  Good'
<1> USE DEF Good, Typed
<1>0. payout[p] \in PayoutRow /\ payout[p].status = "CREATED"
  BY DEF Claim, Claimable, ClaimedOnce
<1>1. /\ UNCHANGED <<earning, item, bank, statement>>
      /\ payout'[p].status = "DISPATCHING" /\ payout'[p].attempts = payout[p].attempts + 1
      /\ payout'[p].providerId = payout[p].providerId
      /\ \A q \in Payouts \ {p} : payout'[q] = payout[q]
  BY <1>0 DEF Claim, outside, PayoutRow
<1>2. /\ job'[w] = [Idle EXCEPT !.pc = "CALL", !.payout = p]
      /\ \A v \in Workers \ {w} : job'[v] = job[v]
  BY DEF Claim
<1>3. ClaimedOnce'
  BY <1>0, <1>1 DEF ClaimedOnce
<1>4. HandledAlone' /\ ListedStale'
  <2>1. \A q \in Payouts : PayoutStep(q)
    BY <1>0, <1>1 DEF PayoutStep
  <2>2. HandlesWell(w)'
    BY <1>1, <1>2 DEF HandlesWell, Calling, Releasing, Idle
  <2>3. \A q \in Payouts : Handles(w, q)' => payout[q].status = "CREATED"
    BY <1>0, <1>2 DEF Handles, Idle
  <2>4. job'[w].stale = {}
    BY <1>2 DEF Idle
  <2> QED BY <1>2, <2>1, <2>2, <2>3, <2>4, RunStep
<1>5. NothingNew
  BY <1>1, <1>2 DEF NothingNew, Out, Idle
<1>6. \A e \in Earnings : EarningStep(e)
  <2>1. \A e \in Earnings : item[e].payout # NoPayout => item[e].payout \in Payouts
    BY DEF ItemRow
  <2> QED BY <1>0, <1>1, <2>1 DEF EarningStep, Kept, StaysDead, Dead
<1> QED BY <1>3, <1>4, <1>5, <1>6, BooksStep

LEMMA ListStaleGood ==
  ASSUME Good, AsConfigured, Typed', NEW w \in Workers, ListStale(w)
  PROVE  Good'
<1> USE DEF Good, Typed
<1>0. UNCHANGED <<books, outside>> /\ \A v \in Workers \ {w} : job'[v] = job[v]
  BY DEF ListStale
<1>1. PICK S \in SUBSET {p \in Payouts : Stale(p)} :
        job'[w] = [Idle EXCEPT !.pc = "RECOVER",
          !.stale = {[payout |-> p, attempts |-> payout[p].attempts,
                      sent |-> payout[p].providerId = "ID"] : p \in S}]
  BY DEF ListStale
<1>2. ClaimedOnce'
  BY <1>0 DEF books, outside, ClaimedOnce
<1>3. HandledAlone' /\ ListedStale'
  <2>1. \A q \in Payouts : PayoutStep(q)
    BY <1>0 DEF PayoutStep, books, outside
  <2>2. ~Calling(w)' /\ ~Releasing(w)' /\ HandlesWell(w)'
    BY <1>1 DEF HandlesWell, Calling, Releasing, Idle
  <2>3. ASSUME NEW r \in job'[w].stale PROVE Listed(r)'
    <3>1. PICK p \in S : r = [payout |-> p, attempts |-> payout[p].attempts,
                              sent |-> payout[p].providerId = "ID"]
      BY <1>1 DEF Idle
    <3>2. p \in Payouts /\ payout[p].status = "DISPATCHING" /\ ~Held(p)
      BY <1>1, <3>1 DEF Stale, AsConfigured
    <3>3. payout[p].attempts = 1 /\ payout[p].providerId = "NULL"
      BY <3>2 DEF ClaimedOnce
    <3>4. \A v \in Workers : ~Handles(v, p)
      BY <3>2 DEF Held, Handles, Calling, HandledAlone, HandlesWell, Dead
    <3>5. \A v \in Workers : ~Handles(v, p)'
      BY <1>0, <2>2, <3>4 DEF Handles, Calling, Releasing
    <3> QED BY <1>0, <3>1, <3>2, <3>3, <3>5 DEF Listed, books
  <2>4. \A p \in Payouts : Handles(w, p)' => Handles(w, p)
    BY <2>2 DEF Handles
  <2> QED BY <1>0, <2>1, <2>2, <2>3, <2>4, RunStep
<1>4. NothingNew
  BY <1>0, <1>1 DEF NothingNew, Out, outside, Idle
<1>5. \A e \in Earnings : EarningStep(e)
  BY <1>0 DEF books, EarningStep, Kept, StaysDead, Dead
<1> QED BY <1>2, <1>3, <1>4, <1>5, BooksStep

(* A recovery fails what it listed and releases nothing: two attempts are  *)
(* not all of them.                                                        *)
LEMMA RecoverStaleGood ==
  ASSUME Good, AsConfigured, Typed', NEW w \in Workers, RecoverStale(w)
  PROVE  Good'
<1> USE DEF Good, Typed
<1>0. /\ job'[w] = Idle /\ \A v \in Workers \ {w} : job'[v] = job[v]
      /\ UNCHANGED <<item, bank, statement>>
  BY DEF RecoverStale, outside
<1>1. \A r \in job[w].stale : r \in StaleRow /\ Listed(r)
  BY DEF ListedStale, JobRow
<1>2. \A r \in job[w].stale : ~GivenUp(r)
  BY <1>1, PayoutConstants DEF Listed, GivenUp, Attempts, AsConfigured
<1>3. earning' = earning
  <2>1. {q \in job[w].stale : GivenUp(q)} = {}
    BY <1>2
  <2>2. earning' = Released({})
    BY <2>1 DEF RecoverStale
  <2> QED BY <2>2 DEF Released
<1>4. ASSUME NEW p \in Payouts
      PROVE  \/ payout'[p] = payout[p]
             \/ /\ payout[p].status \in {"DISPATCHING", "FAILED", "CANCELLED", "CONFIRMED"}
                /\ payout'[p].status = "FAILED" /\ payout'[p].providerId = payout[p].providerId
                /\ \A v \in Workers : ~Handles(v, p)
  <2>1. CASE payout'[p] = payout[p]
    BY <2>1
  <2>2. ASSUME NEW r \in job[w].stale, r.payout = p, payout'[p] = Recovered(r)
        PROVE  /\ payout[p].status \in {"DISPATCHING", "FAILED", "CANCELLED", "CONFIRMED"}
               /\ payout'[p].status = "FAILED" /\ payout'[p].providerId = payout[p].providerId
               /\ \A v \in Workers : ~Handles(v, p)
    <3>1. Listed(r) /\ payout[p] \in PayoutRow
      BY <1>1
    <3>2. payout'[p] = [payout[p] EXCEPT !.status = "FAILED", !.attempts = Attempts(r)]
      BY <2>2, <3>1 DEF Listed, Recovered
    <3> QED BY <2>2, <3>1, <3>2 DEF Listed, PayoutRow
  <2> QED BY <2>1, <2>2, RecoveryIs
<1>5. ClaimedOnce'
  BY <1>0, <1>4 DEF ClaimedOnce
<1>6. HandledAlone' /\ ListedStale'
  <2>1. ~Calling(w)' /\ ~Releasing(w)' /\ HandlesWell(w)' /\ job'[w].stale = {}
    BY <1>0 DEF HandlesWell, Calling, Releasing, Idle
  <2>2. ASSUME NEW p \in Payouts
        PROVE  \/ PayoutStep(p)
               \/ /\ \A v \in Workers : ~Handles(v, p)
                  /\ payout'[p].status \in {"DISPATCHING", "FAILED", "CANCELLED", "CONFIRMED"}
    BY <1>0, <1>4 DEF PayoutStep
  <2>3. \A p \in Payouts : Handles(w, p)' => Handles(w, p)
    BY <2>1 DEF Handles
  <2> QED BY <1>0, <2>1, <2>2, <2>3, RunStep
<1>7. NothingNew
  BY <1>0 DEF NothingNew, Out, Idle
<1>8. \A e \in Earnings : EarningStep(e)
  <2>1. \A e \in Earnings : item[e].payout # NoPayout => item[e].payout \in Payouts
    BY DEF ItemRow
  <2>2. \A p \in Payouts : Dead(p) => Dead(p)'
    BY <1>4 DEF Dead
  <2> QED BY <1>0, <1>3, <2>1, <2>2 DEF EarningStep, Kept, StaysDead, Dead
<1> QED BY <1>5, <1>6, <1>7, <1>8, BooksStep

LEMMA BooksKeptGood ==
  ASSUME Good, Typed', UNCHANGED <<books, job, bank>>,
         \A q \in Payouts : statement'[q] # "NONE" => statement[q] # "NONE"
  PROVE  Good'
<1> USE DEF Good, Typed, books
<1>1. ClaimedOnce'
  BY DEF ClaimedOnce
<1>2. \A p \in Payouts : PayoutStep(p)
  BY DEF PayoutStep
<1>3. NothingNew
  BY DEF NothingNew, Out
<1>4. \A e \in Earnings : EarningStep(e)
  BY DEF EarningStep, Kept, StaysDead, Dead
<1> QED BY <1>1, <1>2, <1>3, <1>4, RunsUndisturbed, BooksStep

-----------------------------------------------------------------------------
(* The books.                                                              *)

(* The payout pays for its items: it was not given up, or the bank may     *)
(* still pay it.                                                           *)
Counts(p) == payout[p].status # "NONE" /\ (Out(p) \/ ~Dead(p))

(* A payout that was not made holds nothing, and only a refund that was    *)
(* deducted names a payout.                                                *)
Unmade ==
  \A p \in Payouts : payout[p].status = "NONE" =>
     /\ \A e \in Earnings : item[e].payout # p
     /\ \A k \in Reversals : adjustment[k].payout # p

Unapplied == \A k \in Reversals : adjustment[k].status # "APPLIED" => adjustment[k].payout = NoPayout

(* The amount of a payout is that of its items less what was deducted.     *)
AddsUp(p) == payout[p].amount + TotalAdjusted(DeductedFrom({p})) = TotalInItems(ItemsOf(p))

AddUp == \A p \in Payouts : Counts(p) => AddsUp(p)

(* An item of such a payout is worth no more than its earning is now, with *)
(* the refunds that were carried over for it.                              *)
Backed(e) == item[e].amount <= Outstanding(e) + TotalAdjusted(CarriedFor({e}))

ItemsBacked == \A e \in Earnings, p \in Payouts : item[e].payout = p /\ Counts(p) => Backed(e)

Books == Unmade /\ Unapplied /\ AddUp /\ ItemsBacked

LEMMA Finite ==
  /\ IsFiniteSet(Payouts)
  /\ \A S \in SUBSET Earnings : IsFiniteSet(S)
  /\ \A K \in SUBSET Reversals : IsFiniteSet(K)
  /\ \A P \in SUBSET Payouts : IsFiniteSet(P)
<1>1. IsFiniteSet(Payouts)
  BY PayoutConstants, FS_Interval DEF Payouts
<1> QED BY <1>1, PayoutConstants, FS_Subset

(* What is added up are natural numbers.                                   *)
LEMMA Amounts ==
  ASSUME Typed
  PROVE  /\ \A e \in Earnings : item[e].amount \in Nat /\ item[e].payout \in Payouts \union {NoPayout}
         /\ \A k \in Reversals : adjustment[k].amount \in Nat /\ adjustment[k].earning \in Earnings
         /\ \A p \in Payouts : payout[p].amount \in Nat
         /\ \A e \in Earnings : earning[e].reversed \in Nat /\ Net[e] \in Nat
         /\ \A K \in SUBSET Reversals : TotalAdjusted(K) \in Nat
         /\ \A S \in SUBSET Earnings : TotalInItems(S) \in Nat
         /\ \A S \in SUBSET Earnings :
              (\A e \in S : Outstanding(e) \in Nat) => TotalOutstanding(S) \in Nat
<1>1. /\ \A e \in Earnings : item[e].amount \in Nat /\ item[e].payout \in Payouts \union {NoPayout}
      /\ \A k \in Reversals : adjustment[k].amount \in Nat /\ adjustment[k].earning \in Earnings
      /\ \A p \in Payouts : payout[p].amount \in Nat
      /\ \A e \in Earnings : earning[e].reversed \in Nat /\ Net[e] \in Nat
  BY Constants DEF Typed, ItemRow, AdjustmentRow, PayoutRow, EarningRow
<1>2. \A K \in SUBSET Reversals : TotalAdjusted(K) \in Nat
  BY <1>1, Finite, SumNat DEF TotalAdjusted
<1>3. \A S \in SUBSET Earnings : TotalInItems(S) \in Nat
  BY <1>1, Finite, SumNat DEF TotalInItems
<1>4. \A S \in SUBSET Earnings :
        (\A e \in S : Outstanding(e) \in Nat) => TotalOutstanding(S) \in Nat
  BY Finite, SumNat DEF TotalOutstanding
<1> QED BY <1>1, <1>2, <1>3, <1>4

(* Sums over the tables as they are and as they will be.                   *)
LEMMA AdjustedSame ==
  ASSUME Typed, NEW K \in SUBSET Reversals, \A k \in K : adjustment'[k].amount = adjustment[k].amount
  PROVE  TotalAdjusted(K)' = TotalAdjusted(K)
<1>1. IsFiniteSet(K) /\ \A k \in K : adjustment[k].amount \in Nat
  BY Finite, Amounts
<1> DEFINE f == [k \in Reversals |-> adjustment[k].amount]
           g == [k \in Reversals |-> adjustment'[k].amount]
<1>2. \A k \in K : f[k] \in Nat /\ f[k] = g[k]
  BY <1>1
<1> HIDE DEF f, g
<1>3. SumFunctionOnSet(f, K) = SumFunctionOnSet(g, K)
  BY <1>1, <1>2, SumSame
<1> QED BY <1>3 DEF TotalAdjusted, f, g

LEMMA InItemsSame ==
  ASSUME Typed, NEW S \in SUBSET Earnings, \A e \in S : item'[e].amount = item[e].amount
  PROVE  TotalInItems(S)' = TotalInItems(S)
<1>1. IsFiniteSet(S) /\ \A e \in S : item[e].amount \in Nat
  BY Finite, Amounts
<1> DEFINE f == [e \in Earnings |-> item[e].amount]
           g == [e \in Earnings |-> item'[e].amount]
<1>2. \A e \in S : f[e] \in Nat /\ f[e] = g[e]
  BY <1>1
<1> HIDE DEF f, g
<1>3. SumFunctionOnSet(f, S) = SumFunctionOnSet(g, S)
  BY <1>1, <1>2, SumSame
<1> QED BY <1>3 DEF TotalInItems, f, g

(* No amount and no item changes, nothing is made or deducted, and what is *)
(* given up is in no payout that counts.                                   *)
LEMMA BooksKept ==
  ASSUME Typed, Books, item' = item,
         \A p \in Payouts :
            /\ payout'[p].amount = payout[p].amount
            /\ payout'[p].status = "NONE" => payout[p].status = "NONE"
            /\ Counts(p)' => Counts(p),
         \A e \in Earnings : earning'[e].reversed = earning[e].reversed,
         \A k \in Reversals :
            \/ adjustment'[k] = adjustment[k]
            \/ /\ adjustment[k].status = "PENDING"
               /\ adjustment'[k] = [adjustment[k] EXCEPT !.status = "CANCELLED"]
               /\ \A p \in Payouts : item[adjustment[k].earning].payout = p => ~Counts(p)'
  PROVE  Books'
<1>1. ASSUME NEW k \in Reversals
      PROVE  /\ adjustment'[k].amount = adjustment[k].amount
             /\ adjustment'[k].payout = adjustment[k].payout
             /\ adjustment'[k].earning = adjustment[k].earning
             /\ adjustment'[k].status = "APPLIED" <=> adjustment[k].status = "APPLIED"
  <2>1. adjustment[k] \in AdjustmentRow
    BY DEF Typed
  <2>2. CASE adjustment'[k] = [adjustment[k] EXCEPT !.status = "CANCELLED"]
             /\ adjustment[k].status = "PENDING"
    BY <2>1, <2>2 DEF AdjustmentRow
  <2> QED BY <2>2
<1>2. Unmade' /\ Unapplied'
  BY <1>1 DEF Books, Unmade, Unapplied
<1>3. ASSUME NEW p \in Payouts, Counts(p)' PROVE AddsUp(p)'
  <2>1. DeductedFrom({p})' = DeductedFrom({p}) /\ DeductedFrom({p}) \in SUBSET Reversals
    BY <1>1 DEF DeductedFrom
  <2>2. ItemsOf(p)' = ItemsOf(p) /\ ItemsOf(p) \in SUBSET Earnings
    BY DEF ItemsOf
  <2>3. TotalAdjusted(DeductedFrom({p}))' = TotalAdjusted(DeductedFrom({p}))
    BY <1>1, <2>1, AdjustedSame
  <2>4. TotalInItems(ItemsOf(p))' = TotalInItems(ItemsOf(p))
    BY <2>2, InItemsSame
  <2>5. AddsUp(p)
    BY <1>3 DEF Books, AddUp
  <2> QED BY <2>3, <2>4, <2>5 DEF AddsUp
<1>4. ASSUME NEW e \in Earnings, NEW p \in Payouts, item[e].payout = p, Counts(p)'
      PROVE  Backed(e)'
  <2>1. CarriedFor({e})' = CarriedFor({e}) /\ CarriedFor({e}) \in SUBSET Reversals
    <3>1. ASSUME NEW k \in Reversals, adjustment[k].earning = e
          PROVE  adjustment'[k].status = adjustment[k].status
      BY <1>4, <3>1
    <3> QED BY <1>1, <3>1 DEF CarriedFor
  <2>2. TotalAdjusted(CarriedFor({e}))' = TotalAdjusted(CarriedFor({e}))
    BY <1>1, <2>1, AdjustedSame
  <2>3. Outstanding(e)' = Outstanding(e)
    BY DEF Outstanding
  <2>4. Backed(e)
    BY <1>4 DEF Books, ItemsBacked
  <2> QED BY <2>2, <2>3, <2>4 DEF Backed
<1> QED BY <1>2, <1>3, <1>4 DEF Books, AddUp, ItemsBacked

(* Most steps are quiet: they make no payout, change no amount and give    *)
(* nothing back to life that the bank has not paid.                        *)
Quiet(p) ==
  /\ payout'[p].amount = payout[p].amount
  /\ payout'[p].status = "NONE" => payout[p].status = "NONE"
  /\ Counts(p)' => Counts(p)

LEMMA EarningBooks ==
  ASSUME Good, Books, EligibilitySweep \/ \E e \in Earnings : CreateEarning(e)
  PROVE  Books'
<1>1. UNCHANGED <<item, payout, adjustment, bank>>
  BY DEF EligibilitySweep, CreateEarning, outside
<1>2. \A e \in Earnings : earning'[e].reversed = earning[e].reversed
  BY DEF EligibilitySweep, CreateEarning, Good, Typed, EarningRow
<1>3. \A p \in Payouts : Quiet(p)
  BY <1>1 DEF Quiet, Counts, Out, Dead
<1> QED BY <1>1, <1>2, <1>3, BooksKept DEF Good, Quiet

(* The bank's steps, and a run that only moves on.                         *)
LEMMA BankBooks ==
  ASSUME Good, Books, UNCHANGED <<earning, item, payout, adjustment>>,
         \A p \in Payouts : Out(p)' => Out(p) \/ payout[p].status = "DISPATCHING"
  PROVE  Books'
<1>1. \A p \in Payouts : Quiet(p)
  BY DEF Quiet, Counts, Dead
<1> QED BY <1>1, BooksKept DEF Good, Quiet

LEMMA ClaimBooks ==
  ASSUME Good, Books, NEW w \in Workers, NEW q \in Payouts, Claim(w, q)
  PROVE  Books'
<1>1. /\ UNCHANGED <<earning, item, adjustment, bank>>
      /\ payout[q].status = "CREATED" /\ payout'[q].status = "DISPATCHING"
      /\ payout'[q].amount = payout[q].amount
      /\ \A p \in Payouts \ {q} : payout'[p] = payout[p]
  BY DEF Claim, Claimable, outside, Good, Typed, PayoutRow, ClaimedOnce
<1>2. \A p \in Payouts : Quiet(p)
  BY <1>1 DEF Quiet, Counts, Out, Dead
<1> QED BY <1>1, <1>2, BooksKept DEF Good, Quiet

LEMMA SaveBooks ==
  ASSUME Good, Books, NEW w \in Workers, SaveSent(w) \/ SaveFailed(w)
  PROVE  Books'
<1>1. UNCHANGED <<earning, item, adjustment, bank>>
  BY DEF SaveSent, SaveFailed, outside
<1>2. payout[job[w].payout].status = "DISPATCHING"
  BY DEF SaveSent, SaveFailed, Good, HandledAlone, HandlesWell, Calling
<1>3. ASSUME NEW p \in Payouts PROVE Quiet(p)
  <2>1. CASE job[w].payout # p
    BY <1>1, <2>1, SaveIs DEF Good, Quiet, Counts, Out, Dead
  <2>2. CASE job[w].payout = p
    BY <1>1, <1>2, <2>2, SaveIs DEF Good, Quiet, Counts, Out, Dead
  <2> QED BY <2>1, <2>2
<1> QED BY <1>1, <1>3, BooksKept DEF Good, Quiet

(* What is released is in no payout that counts.                           *)
LEMMA ReleaseBooks ==
  ASSUME Good, Books, NEW w \in Workers, ReleaseItems(w)
  PROVE  Books'
<1>1. UNCHANGED <<item, payout, bank>>
  BY DEF ReleaseItems, outside
<1>2. PICK q \in Payouts : q = job[w].payout /\ Dead(q) /\ bank[q].state = "NONE"
  BY DEF ReleaseItems, Good, HandledAlone, HandlesWell, Releasing
<1>3. ~Counts(q)'
  BY <1>1, <1>2 DEF Counts, Out, Dead
<1>4. ASSUME NEW e \in job[w].seen \union ItemsOf(q), NEW p \in Payouts, item[e].payout = p
      PROVE  p = q
  BY <1>2, <1>4, Constants DEF ItemsOf, Good, SeenIsFree, Free
<1>5. \A p \in Payouts : Quiet(p)
  BY <1>1 DEF Quiet, Counts, Out, Dead
<1>6. \A e \in Earnings : earning'[e].reversed = earning[e].reversed
  BY ReleasedIs DEF ReleaseItems, Good
<1>7. \A k \in Reversals :
        \/ adjustment'[k] = adjustment[k]
        \/ /\ adjustment[k].status = "PENDING"
           /\ adjustment'[k] = [adjustment[k] EXCEPT !.status = "CANCELLED"]
           /\ adjustment[k].earning \in job[w].seen \union ItemsOf(q)
  <2>1. adjustment' = Voided(job[w].seen \union ItemsOf(q))
    BY <1>2 DEF ReleaseItems
  <2> QED BY <2>1 DEF Voided, Good, Typed
<1> QED BY <1>1, <1>3, <1>4, <1>5, <1>6, <1>7, BooksKept DEF Good, Quiet

LEMMA RecoverBooks ==
  ASSUME Good, Books, AsConfigured, NEW w \in Workers, RecoverStale(w)
  PROVE  Books'
<1>1. UNCHANGED <<item, bank>>
  BY DEF RecoverStale, outside
<1>2. \A r \in job[w].stale : r \in StaleRow /\ Listed(r)
  BY DEF Good, Typed, ListedStale, JobRow
<1>3. \A r \in job[w].stale : ~GivenUp(r)
  BY <1>2, PayoutConstants DEF Listed, GivenUp, Attempts, AsConfigured
<1>4. earning' = earning /\ adjustment' = adjustment
  <2>1. {q \in job[w].stale : GivenUp(q)} = {}
    BY <1>3
  <2>2. earning' = Released({}) /\ adjustment' = Voided({})
    BY <2>1 DEF RecoverStale
  <2> QED BY <2>2 DEF Released, Voided, Good, Typed
<1>5. ASSUME NEW p \in Payouts PROVE Quiet(p)
  <2>1. CASE payout'[p] = payout[p]
    BY <1>1, <2>1 DEF Quiet, Counts, Out, Dead
  <2>2. ASSUME NEW r \in job[w].stale, r.payout = p, payout'[p] = Recovered(r)
        PROVE  Quiet(p)
    <3>1. Listed(r) /\ payout[p] \in PayoutRow
      BY <1>2 DEF Good, Typed
    <3>2. payout'[p] = [payout[p] EXCEPT !.status = "FAILED", !.attempts = Attempts(r)]
      BY <2>2, <3>1 DEF Listed, Recovered
    <3> QED BY <1>1, <2>2, <3>1, <3>2 DEF Listed, PayoutRow, Quiet, Counts, Out, Dead
  <2> QED BY <2>1, <2>2, RecoveryIs DEF Good
<1> QED BY <1>1, <1>4, <1>5, BooksKept DEF Good, Quiet

LEMMA ConfirmedBooks ==
  ASSUME Good, Books, NEW q \in Payouts, Confirmed(q), bank[q].state = "PAID", bank' = bank
  PROVE  Books'
<1>1. UNCHANGED <<item, adjustment, bank>>
  BY DEF Confirmed
<1>2. payout[q].status # "NONE" /\ Out(q)
  BY DEF Good, ClaimedOnce, Out
<1>3. /\ payout'[q].status = "CONFIRMED" /\ payout'[q].amount = payout[q].amount
      /\ \A p \in Payouts \ {q} : payout'[p] = payout[p]
  BY DEF Confirmed, Good, Typed, PayoutRow
<1>4. \A e \in Earnings : earning'[e].reversed = earning[e].reversed
  BY DEF Confirmed, Good, Typed, EarningRow
<1>5. \A p \in Payouts : Quiet(p)
  BY <1>1, <1>2, <1>3 DEF Quiet, Counts, Out, Dead
<1> QED BY <1>1, <1>4, <1>5, BooksKept DEF Good, Quiet

LEMMA SyncWaitsBooks ==
  ASSUME Good, Books, NEW q \in Payouts, SyncWaits(q)
  PROVE  Books'
<1>1. /\ UNCHANGED <<earning, item, adjustment, bank>>
      /\ payout'[q].status = payout[q].status /\ payout'[q].amount = payout[q].amount
      /\ \A p \in Payouts \ {q} : payout'[p] = payout[p]
  BY DEF SyncWaits, outside, Good, Typed, PayoutRow
<1>2. \A p \in Payouts : Quiet(p)
  BY <1>1 DEF Quiet, Counts, Out, Dead
<1> QED BY <1>1, <1>2, BooksKept DEF Good, Quiet

(* Only a transfer the bank has refused is given up.                       *)
LEMMA SyncFailsBooks ==
  ASSUME Good, Books, AsConfigured, NEW q \in Payouts, SyncFails(q)
  PROVE  Books'
<1>1. /\ payout[q].status = "SENT" /\ payout'[q].status = "FAILED" /\ bank[q].state = "REFUSED"
      /\ payout'[q].amount = payout[q].amount
      /\ \A p \in Payouts \ {q} : payout'[p] = payout[p]
      /\ UNCHANGED <<item, bank>>
  BY DEF SyncFails, Askable, Definite, StatusAnswer, AsConfigured, PayoutRow, outside, Good, Typed
<1>2. ~Counts(q)'
  BY <1>1 DEF Counts, Out, Dead
<1>3. \A e \in Earnings : earning'[e].reversed = earning[e].reversed
  BY ReleasedIs DEF SyncFails, Good
<1>4. \A k \in Reversals :
        \/ adjustment'[k] = adjustment[k]
        \/ /\ adjustment[k].status = "PENDING"
           /\ adjustment'[k] = [adjustment[k] EXCEPT !.status = "CANCELLED"]
           /\ item[adjustment[k].earning].payout = q
  BY DEF SyncFails, Voided, ItemsOf
<1>5. \A p \in Payouts : Quiet(p)
  BY <1>1 DEF Quiet, Counts, Out, Dead
<1> QED BY <1>1, <1>2, <1>3, <1>4, <1>5, BooksKept DEF Good, Quiet

(* A refund that is recorded is deducted from nothing yet; if it is to be  *)
(* carried over, it is so for its earning alone.                           *)
LEMMA RecordedIs ==
  ASSUME Typed, Books, NEW k \in Reversals, NEW e \in Earnings, NEW n \in Nat,
         NEW status \in {"PENDING", "CANCELLED"}, Unused(k), adjustment' = Recorded(k, e, n, status)
  PROVE  /\ \A p \in Payouts :
              TotalAdjusted(DeductedFrom({p}))' = TotalAdjusted(DeductedFrom({p}))
         /\ \A f \in Earnings :
              TotalAdjusted(CarriedFor({f}))' =
                TotalAdjusted(CarriedFor({f})) + (IF f = e /\ status = "PENDING" THEN n ELSE 0)
         /\ Unapplied' /\ \A p \in Payouts : \A l \in Reversals :
                             adjustment'[l].payout = p => adjustment[l].payout = p
<1>1. /\ adjustment[k].status = "NONE" /\ adjustment[k].payout = NoPayout
      /\ adjustment'[k] = [status |-> status, earning |-> e, amount |-> n, payout |-> NoPayout]
      /\ \A l \in Reversals \ {k} : adjustment'[l] = adjustment[l]
  BY DEF Unused, Books, Unapplied, Recorded, Typed
<1>2. Unapplied' /\ \A p \in Payouts : \A l \in Reversals :
                       adjustment'[l].payout = p => adjustment[l].payout = p
  BY <1>1 DEF Books, Unapplied
<1>3. ASSUME NEW p \in Payouts
      PROVE  TotalAdjusted(DeductedFrom({p}))' = TotalAdjusted(DeductedFrom({p}))
  <2>1. DeductedFrom({p})' = DeductedFrom({p}) /\ DeductedFrom({p}) \in SUBSET (Reversals \ {k})
    BY <1>1, Constants DEF DeductedFrom
  <2> QED BY <1>1, <2>1, AdjustedSame
<1>4. ASSUME NEW f \in Earnings
      PROVE  TotalAdjusted(CarriedFor({f}))' =
               TotalAdjusted(CarriedFor({f})) + (IF f = e /\ status = "PENDING" THEN n ELSE 0)
  <2>1. PICK K \in SUBSET (Reversals \ {k}) : K = CarriedFor({f})
    BY <1>1 DEF CarriedFor
  <2>2. TotalAdjusted(K)' = TotalAdjusted(K) /\ TotalAdjusted(K) \in Nat
    BY <1>1, AdjustedSame, Amounts
  <2>3. CASE f = e /\ status = "PENDING"
    <3>1. PICK L \in SUBSET Reversals : L = K \union {k}
      OBVIOUS
    <3>2. CarriedFor({f})' = L
      BY <1>1, <2>1, <2>3, <3>1 DEF CarriedFor
    <3>3. TotalAdjusted(L)' = n + TotalAdjusted(K)'
      <4> DEFINE g == [l \in Reversals |-> adjustment'[l].amount]
      <4>1. g[k] = n /\ \A l \in L : g[l] \in Nat
        BY <1>1, <3>1, Amounts
      <4>2. IsFiniteSet(L) /\ L \ {k} = K /\ k \in L
        BY <3>1, Finite
      <4> HIDE DEF g
      <4>3. SumFunctionOnSet(g, L) = n + SumFunctionOnSet(g, K)
        BY <4>1, <4>2, SumAdd
      <4> QED BY <4>3 DEF TotalAdjusted, g
    <3> QED BY <2>1, <2>2, <2>3, <3>2, <3>3
  <2>4. CASE ~(f = e /\ status = "PENDING")
    <3>1. CarriedFor({f})' = K
      BY <1>1, <2>1, <2>4 DEF CarriedFor
    <3> QED BY <2>1, <2>2, <2>4, <3>1
  <2> QED BY <2>3, <2>4
<1> QED BY <1>2, <1>3, <1>4

(* A refund before the earning is in a payout.                             *)
LEMMA InPlaceBooks ==
  ASSUME Good, Books, NEW k \in Reversals, NEW e \in Earnings, NEW n \in 1..Net[e], Unused(k),
         ReverseInPlace(k, e, n)
  PROVE  Books'
<1>0. n \in Nat /\ Typed
  BY Constants DEF Good
<1>1. /\ UNCHANGED <<item, payout, bank>> /\ item[e].payout = NoPayout
      /\ adjustment' = Recorded(k, e, n, "CANCELLED")
      /\ \A f \in Earnings \ {e} : earning'[f] = earning[f]
  BY <1>0, LessReversedIs DEF ReverseInPlace, outside
<1>2. /\ \A p \in Payouts :
           TotalAdjusted(DeductedFrom({p}))' = TotalAdjusted(DeductedFrom({p}))
      /\ \A f \in Earnings : TotalAdjusted(CarriedFor({f}))' = TotalAdjusted(CarriedFor({f})) + 0
      /\ Unapplied' /\ \A p \in Payouts : \A l \in Reversals :
                          adjustment'[l].payout = p => adjustment[l].payout = p
  BY <1>0, <1>1, RecordedIs
<1>3. Unmade'
  BY <1>1, <1>2 DEF Books, Unmade
<1>4. \A p \in Payouts : Counts(p)' = Counts(p)
  BY <1>1 DEF Counts, Out, Dead
<1>5. ASSUME NEW p \in Payouts, Counts(p)' PROVE AddsUp(p)'
  <2>1. AddsUp(p)
    BY <1>4, <1>5 DEF Books, AddUp
  <2>2. TotalInItems(ItemsOf(p))' = TotalInItems(ItemsOf(p))
    BY <1>1 DEF TotalInItems, ItemsOf
  <2> QED BY <1>1, <1>2, <2>1, <2>2 DEF AddsUp
<1>6. ASSUME NEW f \in Earnings, NEW p \in Payouts, item'[f].payout = p, Counts(p)'
      PROVE  Backed(f)'
  <2>1. Backed(f) /\ f # e
    BY <1>1, <1>4, <1>6, Constants DEF Books, ItemsBacked
  <2>2. Outstanding(f)' = Outstanding(f) /\ TotalAdjusted(CarriedFor({f})) \in Nat
    <3>1. CarriedFor({f}) \in SUBSET Reversals
      BY DEF CarriedFor
    <3> QED BY <1>0, <1>1, <2>1, <3>1, Amounts DEF Outstanding
  <2> QED BY <1>1, <1>2, <2>1, <2>2 DEF Backed
<1> QED BY <1>2, <1>3, <1>5, <1>6 DEF Books, AddUp, ItemsBacked

(* A refund that is carried over.                                          *)
LEMMA NextCycleBooks ==
  ASSUME Good, Books, NEW k \in Reversals, NEW e \in Earnings, NEW n \in 1..Net[e], Unused(k),
         ReverseNextCycle(k, e, n)
  PROVE  Books'
<1>0. n \in Nat /\ Typed
  BY Constants DEF Good
<1>1. /\ UNCHANGED <<item, payout, bank>>
      /\ adjustment' = Recorded(k, e, n, "PENDING")
      /\ earning'[e].reversed = earning[e].reversed + n
      /\ \A f \in Earnings \ {e} : earning'[f] = earning[f]
  BY <1>0, LessReversedIs DEF ReverseNextCycle, outside
<1>2. /\ \A p \in Payouts :
           TotalAdjusted(DeductedFrom({p}))' = TotalAdjusted(DeductedFrom({p}))
      /\ \A f \in Earnings : TotalAdjusted(CarriedFor({f}))' =
                                TotalAdjusted(CarriedFor({f})) + (IF f = e THEN n ELSE 0)
      /\ Unapplied' /\ \A p \in Payouts : \A l \in Reversals :
                          adjustment'[l].payout = p => adjustment[l].payout = p
  BY <1>0, <1>1, RecordedIs
<1>3. Unmade'
  BY <1>1, <1>2 DEF Books, Unmade
<1>4. \A p \in Payouts : Counts(p)' = Counts(p)
  BY <1>1 DEF Counts, Out, Dead
<1>5. ASSUME NEW p \in Payouts, Counts(p)' PROVE AddsUp(p)'
  <2>1. AddsUp(p)
    BY <1>4, <1>5 DEF Books, AddUp
  <2>2. TotalInItems(ItemsOf(p))' = TotalInItems(ItemsOf(p))
    BY <1>1 DEF TotalInItems, ItemsOf
  <2> QED BY <1>1, <1>2, <2>1, <2>2 DEF AddsUp
<1>6. ASSUME NEW f \in Earnings, NEW p \in Payouts, item'[f].payout = p, Counts(p)'
      PROVE  Backed(f)'
  <2>1. Backed(f)
    BY <1>1, <1>4, <1>6 DEF Books, ItemsBacked
  <2>2. /\ Outstanding(f)' = Outstanding(f) - (IF f = e THEN n ELSE 0)
        /\ Outstanding(f) \in Int /\ item[f].amount \in Nat
        /\ TotalAdjusted(CarriedFor({f})) \in Nat
    <3>1. CarriedFor({f}) \in SUBSET Reversals
      BY DEF CarriedFor
    <3>2. /\ TotalAdjusted(CarriedFor({f})) \in Nat /\ item[f].amount \in Nat
          /\ earning[f].reversed \in Nat /\ Net[f] \in Nat
      BY <1>0, <3>1, Amounts
    <3>3. earning'[f].reversed = earning[f].reversed + (IF f = e THEN n ELSE 0)
      BY <1>1, <3>2
    <3> QED BY <1>0, <3>2, <3>3 DEF Outstanding
  <2> QED BY <1>0, <1>1, <1>2, <2>1, <2>2 DEF Backed
<1> QED BY <1>2, <1>3, <1>5, <1>6 DEF Books, AddUp, ItemsBacked

(* A refund out of a payout that is not with the bank: its item, its       *)
(* amount and the earning shrink by the same.                              *)
LEMMA ItemShrinks ==
  ASSUME Typed, Typed', NEW e \in Earnings, NEW p \in Payouts, NEW n \in Nat,
         item[e].payout = p, n <= item[e].amount,
         item'[e] = IF n = item[e].amount THEN NoItem
                    ELSE [payout |-> p, amount |-> item[e].amount - n],
         \A f \in Earnings \ {e} : item'[f] = item[f]
  PROVE  /\ TotalInItems(ItemsOf(p))' + n = TotalInItems(ItemsOf(p))
         /\ \A q \in Payouts \ {p} : TotalInItems(ItemsOf(q))' = TotalInItems(ItemsOf(q))
<1>1. TotalInItems(ItemsOf(p))' + n = TotalInItems(ItemsOf(p))
  <2>1. PICK A \in SUBSET Earnings : A = ItemsOf(p)
    BY DEF ItemsOf
  <2>2. PICK B \in SUBSET Earnings : B = ItemsOf(p)'
    BY DEF ItemsOf
  <2> DEFINE f == [d \in Earnings |-> item[d].amount]
             g == [d \in Earnings |-> item'[d].amount]
  <2>3. e \in A /\ A \ {e} = B \ {e}
    BY <2>1, <2>2 DEF ItemsOf
  <2>4. /\ f[e] = item[e].amount /\ n \in Nat /\ n <= f[e]
        /\ (IF e \in B THEN g[e] ELSE 0) = f[e] - n
    BY <2>2, Constants, Amounts DEF ItemsOf, NoItem
  <2>5. \A d \in Earnings : f[d] \in Nat /\ g[d] \in Nat
    BY Amounts DEF Typed, ItemRow
  <2>6. \A d \in A \ {e} : f[d] = g[d]
    OBVIOUS
  <2>7. TotalInItems(A) = SumFunctionOnSet(f, A) /\ TotalInItems(B)' = SumFunctionOnSet(g, B)
    BY DEF TotalInItems
  <2>8. IsFiniteSet(A) /\ IsFiniteSet(B)
    BY Finite
  <2> HIDE DEF f, g
  <2>9. SumFunctionOnSet(f, A) + (f[e] - n) = SumFunctionOnSet(g, B) + f[e]
    BY <2>3, <2>4, <2>5, <2>6, <2>8, SumChange
  <2>10. SumFunctionOnSet(f, A) \in Nat /\ SumFunctionOnSet(g, B) \in Nat
    BY <2>5, <2>8, SumNat
  <2>11. SumFunctionOnSet(g, B) + n = SumFunctionOnSet(f, A)
    BY <2>4, <2>5, <2>9, <2>10
  <2> QED BY <2>1, <2>2, <2>7, <2>11
<1>2. ASSUME NEW q \in Payouts \ {p}
      PROVE  TotalInItems(ItemsOf(q))' = TotalInItems(ItemsOf(q))
  <2>1. ItemsOf(q)' = ItemsOf(q) /\ ItemsOf(q) \in SUBSET (Earnings \ {e})
    BY Constants DEF ItemsOf, NoItem
  <2> QED BY <2>1, InItemsSame
<1> QED BY <1>1, <1>2

LEMMA InPayoutBooks ==
  ASSUME Good, Typed', Books, NEW k \in Reversals, NEW e \in Earnings, NEW n \in 1..Net[e],
         Unused(k), ReverseInPayout(k, e, n)
  PROVE  Books'
<1>0. n \in Nat /\ Typed
  BY Constants DEF Good
<1>1. PICK p \in Payouts : item[e].payout = p
  BY <1>0, Amounts DEF ReverseInPayout
<1>2. /\ n <= item[e].amount /\ n <= payout[p].amount /\ bank' = bank
      /\ adjustment' = Recorded(k, e, n, "CANCELLED")
      /\ item'[e] = IF n = item[e].amount THEN NoItem
                    ELSE [payout |-> p, amount |-> item[e].amount - n]
      /\ \A f \in Earnings \ {e} : item'[f] = item[f] /\ earning'[f] = earning[f]
      /\ earning'[e].reversed = earning[e].reversed + n
  BY <1>0, <1>1, LessReversedIs DEF ReverseInPayout, outside, Typed
<1>3. /\ payout'[p].amount = payout[p].amount - n
      /\ payout'[p].status \in {payout[p].status, "CANCELLED"} /\ payout[p].status # "NONE"
      /\ \A q \in Payouts \ {p} : payout'[q] = payout[q]
  <2>1. payout[p] \in PayoutRow
    BY <1>0 DEF Typed
  <2>2. payout' = [payout EXCEPT ![p] =
          [payout[p] EXCEPT !.amount = payout[p].amount - n,
             !.status = IF n = payout[p].amount THEN "CANCELLED" ELSE payout[p].status]]
    BY <1>1, <2>1 DEF ReverseInPayout, PayoutRow
  <2> QED BY <1>0, <1>1, <2>1, <2>2 DEF ReverseInPayout, Mutable, PayoutRow, Typed
<1>4. /\ \A q \in Payouts :
           TotalAdjusted(DeductedFrom({q}))' = TotalAdjusted(DeductedFrom({q}))
      /\ \A f \in Earnings : TotalAdjusted(CarriedFor({f}))' = TotalAdjusted(CarriedFor({f})) + 0
      /\ Unapplied' /\ \A q \in Payouts : \A l \in Reversals :
                          adjustment'[l].payout = q => adjustment[l].payout = q
  BY <1>0, <1>2, RecordedIs
<1>5. ASSUME NEW f \in Earnings, NEW q \in Payouts, item'[f].payout = q
      PROVE  item[f].payout = q
  BY <1>1, <1>2, <1>5, Constants DEF NoItem
<1>6. Unmade'
  <2>1. \A q \in Payouts : payout'[q].status = "NONE" => payout[q].status = "NONE"
    BY <1>3
  <2> QED BY <1>4, <1>5, <2>1 DEF Books, Unmade
<1>7. \A q \in Payouts : Counts(q)' => Counts(q)
  BY <1>2, <1>3 DEF Counts, Out, Dead
<1>8. ASSUME NEW q \in Payouts, Counts(q)' PROVE AddsUp(q)'
  <2>1. AddsUp(q)
    BY <1>7, <1>8 DEF Books, AddUp
  <2>2. /\ TotalInItems(ItemsOf(p))' + n = TotalInItems(ItemsOf(p))
        /\ q # p => TotalInItems(ItemsOf(q))' = TotalInItems(ItemsOf(q))
    BY <1>0, <1>1, <1>2, ItemShrinks
  <2>3. /\ payout[q].amount \in Nat /\ payout'[q].amount \in Nat
        /\ TotalAdjusted(DeductedFrom({q})) \in Nat
        /\ TotalInItems(ItemsOf(q)) \in Nat /\ TotalInItems(ItemsOf(q))' \in Nat
    <3>1. DeductedFrom({q}) \in SUBSET Reversals /\ ItemsOf(q) \in SUBSET Earnings
      BY DEF DeductedFrom, ItemsOf
    <3>2. TotalInItems(ItemsOf(q))' \in Nat
      <4>1. PICK B \in SUBSET Earnings : B = ItemsOf(q)'
        BY DEF ItemsOf
      <4>2. \A d \in Earnings : item'[d].amount \in Nat
        BY DEF Typed, ItemRow
      <4>3. TotalInItems(B)' \in Nat
        BY <4>2, Finite, SumNat DEF TotalInItems
      <4> QED BY <4>1, <4>3
    <3> QED BY <1>0, <3>1, <3>2, Amounts DEF Typed, PayoutRow
  <2> QED BY <1>0, <1>2, <1>3, <1>4, <2>1, <2>2, <2>3 DEF AddsUp
<1>9. ASSUME NEW f \in Earnings, NEW q \in Payouts, item'[f].payout = q, Counts(q)'
      PROVE  Backed(f)'
  <2>1. Backed(f)
    BY <1>5, <1>7, <1>9 DEF Books, ItemsBacked
  <2>2. /\ TotalAdjusted(CarriedFor({f})) \in Nat /\ item[f].amount \in Nat
        /\ earning[f].reversed \in Nat /\ Net[f] \in Nat
    <3>1. CarriedFor({f}) \in SUBSET Reversals
      BY DEF CarriedFor
    <3> QED BY <1>0, <3>1, Amounts
  <2>3. CASE f = e
    <3>1. item'[e].amount = item[e].amount - n
      BY <1>2, <1>9, <2>3, Constants DEF NoItem
    <3>2. Outstanding(e)' = Outstanding(e) - n /\ Outstanding(e) \in Int
      BY <1>0, <1>2, <2>2, <2>3 DEF Outstanding
    <3> QED BY <1>0, <1>4, <2>1, <2>2, <2>3, <3>1, <3>2 DEF Backed
  <2>4. CASE f # e
    <3>1. item'[f] = item[f] /\ Outstanding(f)' = Outstanding(f)
      BY <1>2, <2>4 DEF Outstanding
    <3> QED BY <1>4, <2>1, <2>2, <3>1 DEF Backed
  <2> QED BY <2>3, <2>4
<1> QED BY <1>4, <1>6, <1>8, <1>9 DEF Books, AddUp, ItemsBacked

(* A new payout takes what is owed and every refund that was carried over; *)
(* no item of a payout that counts is owed.                                *)
LEMMA CreateBatchBooks ==
  ASSUME Good, Typed', Books, CreateBatch
  PROVE  Books'
<1> DEFINE moving == {e \in Earnings : Batchable(e)}
           total == TotalOutstanding(moving) - TotalAdjusted(Carried)
           from == {item[e].payout : e \in moving} \ {NoPayout}
<1>0. Typed
  BY DEF Good
<1>1. PICK q \in Payouts :
        /\ payout[q].status = "NONE"
        /\ payout' = [p \in Payouts |->
             IF p = q THEN [payout[q] EXCEPT !.status = "CREATED", !.amount = total]
             ELSE IF p \in from THEN Reduced(p, moving \intersect ItemsOf(p)) ELSE payout[p]]
        /\ item' = [e \in Earnings |->
             IF e \in moving THEN [payout |-> q, amount |-> Outstanding(e)] ELSE item[e]]
        /\ earning' = [e \in Earnings |->
             IF e \in moving THEN [earning[e] EXCEPT !.status = "IN_PAYOUT"] ELSE earning[e]]
        /\ adjustment' = [k \in Reversals |->
             IF k \in Carried THEN [adjustment[k] EXCEPT !.status = "APPLIED", !.payout = q]
             ELSE adjustment[k]]
        /\ bank' = bank
  BY DEF CreateBatch, outside
<1> HIDE DEF total
<1>2. payout'[q].status = "CREATED" /\ payout'[q].amount = total
  BY <1>0, <1>1 DEF Typed, PayoutRow
<1>3. ASSUME NEW p \in Payouts \ {q} PROVE payout'[p].status = payout[p].status
  <2>1. CASE p \in from
    <3>1. moving \intersect ItemsOf(p) # {}
      BY <2>1 DEF ItemsOf
    <3> QED BY <1>0, <1>1, <2>1, <3>1, ReducedIs
  <2>2. CASE p \notin from
    BY <1>1, <2>2
  <2> QED BY <2>1, <2>2
<1>4. \A e \in Earnings : earning'[e].reversed = earning[e].reversed
  BY <1>0, <1>1 DEF Typed, EarningRow
<1>5. ASSUME NEW k \in Reversals
      PROVE  /\ k \notin Carried => adjustment'[k] = adjustment[k]
             /\ k \in Carried => /\ adjustment[k].status = "PENDING" /\ adjustment[k].payout = NoPayout
                                 /\ adjustment'[k].status = "APPLIED" /\ adjustment'[k].payout = q
             /\ adjustment'[k].amount = adjustment[k].amount
             /\ adjustment'[k].earning = adjustment[k].earning
  BY <1>0, <1>1 DEF Carried, Typed, AdjustmentRow, Books, Unapplied
<1>6. /\ \A e \in Earnings : item[e].payout # q
      /\ \A k \in Reversals : adjustment[k].payout # q
  BY <1>1 DEF Books, Unmade
<1>7. ASSUME NEW p \in Payouts \ {q}, Counts(p)'
      PROVE  /\ Counts(p) /\ payout'[p] = payout[p]
             /\ \A e \in ItemsOf(p) : e \notin moving
  <2>1. Counts(p)
    BY <1>1, <1>3, <1>7 DEF Counts, Out, Dead
  <2>2. ASSUME NEW e \in moving, item[e].payout = p PROVE FALSE
    <3>1. Dead(p) /\ earning[e].status = "ELIGIBLE"
      BY <2>2, Constants DEF Batchable
    <3>2. Out(p) /\ e \in ItemsOf(p)
      BY <2>1, <2>2, <3>1 DEF Counts, ItemsOf
    <3> QED BY <3>1, <3>2 DEF Good, TransfersHold, TransferHolds
  <2>3. p \notin from
    BY <2>2
  <2> QED BY <1>1, <2>1, <2>2, <2>3 DEF ItemsOf
<1>8. Unmade' /\ Unapplied'
  <2>1. ASSUME NEW p \in Payouts, payout'[p].status = "NONE"
        PROVE  p # q /\ payout[p].status = "NONE"
    BY <1>2, <1>3, <2>1
  <2>2. \A e \in Earnings : item'[e].payout = item[e].payout \/ item'[e].payout = q
    BY <1>1
  <2> QED BY <1>5, <2>1, <2>2 DEF Books, Unmade, Unapplied
<1>9. AddsUp(q)'
  <2>1. moving \in SUBSET Earnings /\ Carried \in SUBSET Reversals
    BY DEF Carried
  <2>2. ItemsOf(q)' = moving
    BY <1>1, <1>6 DEF ItemsOf
  <2>3. DeductedFrom({q})' = Carried
    BY <1>5, <1>6, <2>1 DEF DeductedFrom
  <2>4. \A e \in moving : Outstanding(e) \in Nat
    BY <1>0, Amounts DEF Batchable, Outstanding
  <2>5. PICK S \in SUBSET Earnings : S = moving
    BY <2>1
  <2>6. PICK K \in SUBSET Reversals : K = Carried
    BY <2>1
  <2>7. TotalAdjusted(K)' = TotalAdjusted(K) /\ TotalAdjusted(K) \in Nat
    BY <1>0, <1>5, AdjustedSame, Amounts
  <2>8. TotalInItems(S)' = TotalOutstanding(S) /\ TotalOutstanding(S) \in Nat
    <3> DEFINE f == [e \in Earnings |-> Outstanding(e)]
               g == [e \in Earnings |-> item'[e].amount]
    <3>1. \A e \in S : f[e] \in Nat /\ f[e] = g[e]
      BY <1>1, <2>4, <2>5
    <3>2. IsFiniteSet(S)
      BY Finite
    <3>3. TotalInItems(S)' = SumFunctionOnSet(g, S) /\ TotalOutstanding(S) = SumFunctionOnSet(f, S)
      BY DEF TotalInItems, TotalOutstanding
    <3> HIDE DEF f, g
    <3> QED BY <3>1, <3>2, <3>3, SumSame, SumNat
  <2>9. total = TotalOutstanding(S) - TotalAdjusted(K)
    BY <2>5, <2>6 DEF total
  <2> QED BY <1>2, <2>2, <2>3, <2>5, <2>6, <2>7, <2>8, <2>9 DEF AddsUp
<1>10. ASSUME NEW p \in Payouts \ {q}, Counts(p)' PROVE AddsUp(p)'
  <2>1. AddsUp(p)
    BY <1>7, <1>10 DEF Books, AddUp
  <2>2. ItemsOf(p)' = ItemsOf(p) /\ ItemsOf(p) \in SUBSET Earnings
    BY <1>1, <1>7, <1>10 DEF ItemsOf
  <2>3. \A e \in ItemsOf(p) : item'[e] = item[e]
    BY <1>1, <1>7, <1>10 DEF ItemsOf
  <2>4. DeductedFrom({p})' = DeductedFrom({p}) /\ DeductedFrom({p}) \in SUBSET Reversals
    BY <1>5, Constants DEF DeductedFrom
  <2>5. TotalInItems(ItemsOf(p))' = TotalInItems(ItemsOf(p))
    BY <1>0, <2>2, <2>3, InItemsSame
  <2>6. TotalAdjusted(DeductedFrom({p}))' = TotalAdjusted(DeductedFrom({p}))
    BY <1>0, <1>5, <2>4, AdjustedSame
  <2> QED BY <1>7, <1>10, <2>1, <2>5, <2>6 DEF AddsUp
<1>11. ASSUME NEW e \in Earnings, NEW p \in Payouts, item'[e].payout = p, Counts(p)'
       PROVE  Backed(e)'
  <2>1. CarriedFor({e})' = CarriedFor({e}) /\ CarriedFor({e}) \in SUBSET Reversals
    <3>1. \A k \in Reversals : adjustment'[k].status \in {"PENDING", "APPLIED"}
                                <=> adjustment[k].status \in {"PENDING", "APPLIED"}
      BY <1>5
    <3> QED BY <1>5, <3>1 DEF CarriedFor
  <2>2. /\ TotalAdjusted(CarriedFor({e}))' = TotalAdjusted(CarriedFor({e}))
        /\ TotalAdjusted(CarriedFor({e})) \in Nat
    BY <1>0, <1>5, <2>1, AdjustedSame, Amounts
  <2>3. Outstanding(e)' = Outstanding(e) /\ Outstanding(e) \in Int
    BY <1>0, <1>4, Amounts DEF Outstanding
  <2>4. CASE e \in moving
    <3>1. item'[e].amount = Outstanding(e)
      BY <1>1, <2>4
    <3> QED BY <2>2, <2>3, <3>1 DEF Backed
  <2>5. CASE e \notin moving
    <3>1. item'[e] = item[e]
      BY <1>1, <2>5
    <3>2. p # q
      BY <1>6, <1>11, <3>1
    <3>3. Backed(e)
      BY <1>7, <1>11, <3>1, <3>2 DEF Books, ItemsBacked
    <3> QED BY <2>2, <2>3, <3>1, <3>3 DEF Backed
  <2> QED BY <2>4, <2>5
<1> QED BY <1>8, <1>9, <1>10, <1>11 DEF Books, AddUp, ItemsBacked

LEMMA InitBooks == Init => Books
<1> SUFFICES ASSUME Init PROVE Books
  OBVIOUS
<1>1. \A p \in Payouts : ~Counts(p)
  BY DEF Init, Counts, NewPayout
<1>2. /\ \A e \in Earnings : item[e].payout = NoPayout
      /\ \A k \in Reversals : adjustment[k].payout = NoPayout
  BY DEF Init, NoItem, NoAdjustment
<1> QED BY <1>1, <1>2, Constants DEF Books, Unmade, Unapplied, AddUp, ItemsBacked

LEMMA BooksNext ==
  ASSUME AsConfigured, Good, Books, [Next]_vars
  PROVE  Books'
<1>0. Typed'
  BY TypedStep DEF Good
<1>1. ASSUME NEW w \in Workers, DispatchDuePayouts(w) PROVE Books'
  <2>1. CASE ListStale(w) \/ Answer(w) \/ ListItems(w) \/ SyncBatch(w)
    <3>1. UNCHANGED <<earning, item, payout, adjustment, bank>>
      BY <2>1 DEF ListStale, Answer, ListItems, SyncBatch, books, outside
    <3> QED BY <3>1, BankBooks DEF Out
  <2> QED BY <1>1, <2>1, RecoverBooks, ClaimBooks, SaveBooks, ReleaseBooks DEF DispatchDuePayouts
<1>2. ASSUME NEW w \in Workers, Authorise(w) \/ Die(w) PROVE Books'
  <2>1. UNCHANGED <<earning, item, payout, adjustment>>
    BY <1>2 DEF Authorise, Die, books
  <2>2. CASE Die(w)
    BY <2>1, <2>2, BankBooks DEF Die, outside, Out
  <2>3. CASE Authorise(w)
    <3>1. payout[job[w].payout].status = "DISPATCHING"
      BY <2>3 DEF Authorise, Good, HandledAlone, HandlesWell, Calling
    <3>2. \A p \in Payouts \ {job[w].payout} : bank'[p] = bank[p]
      BY <2>3 DEF Authorise, Good, Typed
    <3> QED BY <2>1, <3>1, <3>2, BankBooks DEF Out
  <2> QED BY <1>2, <2>2, <2>3
<1>3. ASSUME NEW e \in Earnings, NEW k \in Reversals, OrderReversal(k, e) PROVE Books'
  BY <1>0, <1>3, InPlaceBooks, InPayoutBooks, NextCycleBooks DEF OrderReversal, ReverseOrderEarning
<1>4. ASSUME NEW p \in Payouts, BankPays(p) \/ BankRefuses(p) \/ StatementLine(p) PROVE Books'
  <2>1. UNCHANGED <<earning, item, payout, adjustment>>
    BY <1>4 DEF BankPays, BankRefuses, StatementLine, books
  <2>2. \A q \in Payouts : Out(q)' => Out(q)
    BY <1>4 DEF BankPays, BankRefuses, StatementLine, Out, Good, Typed, BankRow
  <2> QED BY <2>1, <2>2, BankBooks
<1>5. ASSUME NEW p \in Payouts, ConfirmManually(p) PROVE Books'
  BY <1>5, ConfirmedBooks DEF ConfirmManually, outside
<1>6. ASSUME NEW p \in Payouts, SyncSentPayoutStatuses(p) PROVE Books'
  <2>1. CASE SyncConfirms(p)
    <3>1. bank[p].state = "PAID" /\ bank' = bank
      BY <2>1 DEF SyncConfirms, StatusAnswer, outside
    <3> QED BY <2>1, <3>1, ConfirmedBooks DEF SyncConfirms
  <2> QED BY <1>6, <2>1, SyncWaitsBooks, SyncFailsBooks DEF SyncSentPayoutStatuses
<1>7. ASSUME NEW p \in Payouts, SettlePayout(p) PROVE Books'
  <2>1. bank[p].state = "PAID" /\ bank' = bank
    BY <1>7 DEF SettlePayout, LineOf, Good, ClaimedOnce
  <2>2. CASE Confirmed(p)
    BY <2>1, <2>2, ConfirmedBooks
  <2>3. CASE UNCHANGED books
    BY <2>1, <2>3, BankBooks DEF books, Out
  <2> QED BY <1>7, <2>2, <2>3 DEF SettlePayout
<1>8. CASE EligibilitySweep \/ CreateBatch \/ \E e \in Earnings : CreateEarning(e)
  BY <1>0, <1>8, EarningBooks, CreateBatchBooks
<1>9. CASE UNCHANGED vars
  BY <1>9, BankBooks DEF vars, Out
<1> QED BY <1>1, <1>2, <1>3, <1>4, <1>5, <1>6, <1>7, <1>8, <1>9
        DEF Next, OpsOrderRefund, OpsChargeback

-----------------------------------------------------------------------------
(* What the bank was asked to pay.                                         *)

(* The bank was asked for what the books have, unless these gave it up.    *)
AskedAmounts == \A p \in Payouts : Out(p) /\ ~Dead(p) => bank[p].amount = payout[p].amount

(* A payout that was given up comes back only when a settlement file shows *)
(* that the bank paid it, and as much as the books have.                   *)
LEMMA ComesBack ==
  ASSUME Good, [Next]_vars, NEW p \in Payouts, Dead(p), ~Dead(p)'
  PROVE  LineOf(p) /\ payout'[p].amount = payout[p].amount
<1>0. payout[p] \in PayoutRow /\ payout[p].providerId # "EMPTY" /\ payout[p].status # "SENT"
  BY DEF Good, Typed, ClaimedOnce, Dead
<1>1. payout' # payout
  BY DEF Dead
<1>2. ASSUME CreateBatch PROVE FALSE
  <2>1. PICK q \in Payouts : BatchMade(q)
    BY <1>2, CreateBatchIs DEF Good
  <2>2. p # q
    BY <2>1 DEF BatchMade, Dead
  <2> QED BY <1>0, <2>1, <2>2 DEF BatchMade, Dead
<1>3. ASSUME NEW e \in Earnings, NEW k \in Reversals, NEW n \in 1..Net[e],
             ReverseInPayout(k, e, n)
      PROVE  FALSE
  BY <1>0, <1>3 DEF ReverseInPayout, Dead, Good, Typed, PayoutRow
<1>4. ASSUME NEW w \in Workers, RecoverStale(w) PROVE FALSE
  <2>1. PICK r \in job[w].stale : r.payout = p /\ payout'[p] = Recovered(r)
    BY <1>4, RecoveryIs DEF Good, Dead
  <2>2. ~r.sent
    BY <2>1 DEF Good, ListedStale, Listed
  <2> QED BY <1>0, <2>1, <2>2 DEF Recovered, Dead, PayoutRow
<1>5. ASSUME NEW w \in Workers, DispatchDuePayouts(w) PROVE FALSE
  <2>1. ASSUME NEW q \in Payouts, Claim(w, q) PROVE FALSE
    BY <1>0, <2>1 DEF Claim, Claimable, Dead, Good, Typed, PayoutRow
  <2>2. CASE SaveSent(w) \/ SaveFailed(w)
    <3>1. job[w].payout # p
      BY <2>2 DEF SaveSent, SaveFailed, Good, HandledAlone, HandlesWell, Calling, Dead
    <3> QED BY <2>2, <3>1, SaveIs DEF Dead, Good
  <2>3. CASE ListStale(w) \/ Answer(w) \/ ListItems(w) \/ ReleaseItems(w) \/ SyncBatch(w)
    BY <1>1, <2>3 DEF ListStale, Answer, ListItems, ReleaseItems, SyncBatch, books
  <2> QED BY <1>4, <1>5, <2>1, <2>2, <2>3 DEF DispatchDuePayouts
<1>6. ASSUME NEW q \in Payouts, q # p, Confirmed(q) PROVE FALSE
  BY <1>6 DEF Confirmed, Dead, Good, Typed
<1>7. ASSUME NEW q \in Payouts, ConfirmManually(q) PROVE FALSE
  BY <1>0, <1>6, <1>7 DEF ConfirmManually
<1>8. ASSUME NEW q \in Payouts, SyncSentPayoutStatuses(q) PROVE FALSE
  <2>1. q # p
    BY <1>0, <1>8 DEF SyncSentPayoutStatuses, SyncConfirms, SyncWaits, SyncFails, Askable
  <2> QED BY <1>6, <1>8, <2>1
          DEF SyncSentPayoutStatuses, SyncConfirms, SyncWaits, SyncFails, Dead, Good, Typed
<1>9. ASSUME NEW q \in Payouts, SettlePayout(q)
      PROVE  LineOf(p) /\ payout'[p].amount = payout[p].amount
  <2>1. LineOf(q) /\ Confirmed(q)
    BY <1>1, <1>9 DEF SettlePayout, books
  <2>2. q = p
    BY <1>6, <2>1
  <2> QED BY <1>0, <2>1, <2>2 DEF Confirmed, Good, Typed, PayoutRow
<1>10. CASE EligibilitySweep \/ \E e \in Earnings : CreateEarning(e)
  BY <1>1, <1>10 DEF EligibilitySweep, CreateEarning
<1>11. ASSUME NEW w \in Workers, Authorise(w) \/ Die(w) PROVE FALSE
  BY <1>1, <1>11 DEF Authorise, Die, books
<1>12. ASSUME NEW q \in Payouts, BankPays(q) \/ BankRefuses(q) \/ StatementLine(q) PROVE FALSE
  BY <1>1, <1>12 DEF BankPays, BankRefuses, StatementLine, books
<1>13. ASSUME NEW e \in Earnings, NEW k \in Reversals, OrderReversal(k, e) PROVE FALSE
  BY <1>1, <1>3, <1>13
     DEF OrderReversal, ReverseOrderEarning, ReverseInPlace, ReverseNextCycle
<1>14. CASE UNCHANGED vars
  BY <1>1, <1>14 DEF vars
<1> QED BY <1>2, <1>5, <1>7, <1>8, <1>9, <1>10, <1>11, <1>12, <1>13, <1>14
        DEF Next, OpsOrderRefund, OpsChargeback

(* The bank is asked for something once, and it does not forget the amount.*)
LEMMA BankStep ==
  ASSUME Good, [Next]_vars, NEW p \in Payouts, Out(p)'
  PROVE  \/ Out(p) /\ bank'[p].amount = bank[p].amount
         \/ UNCHANGED books /\ bank'[p].amount = payout[p].amount
<1>0. bank[p] \in BankRow
  BY DEF Good, Typed
<1>1. CASE bank' = bank
  BY <1>1 DEF Out
<1>2. ASSUME NEW w \in Workers, Authorise(w)
      PROVE  \/ Out(p) /\ bank'[p].amount = bank[p].amount
             \/ UNCHANGED books /\ bank'[p].amount = payout[p].amount
  BY <1>2 DEF Authorise, Out, Good, Typed
<1>3. ASSUME NEW q \in Payouts, BankPays(q) \/ BankRefuses(q)
      PROVE  Out(p) /\ bank'[p].amount = bank[p].amount
  BY <1>0, <1>3 DEF BankPays, BankRefuses, Out, Good, Typed, BankRow
<1>4. ASSUME NEW w \in Workers, DispatchDuePayouts(w) \/ Die(w) PROVE bank' = bank
  BY <1>4 DEF DispatchDuePayouts, ListStale, RecoverStale, Claim, Answer, SaveSent, SaveFailed,
       ListItems, ReleaseItems, SyncBatch, Die, outside
<1>5. ASSUME NEW q \in Payouts,
             StatementLine(q) \/ ConfirmManually(q) \/ SettlePayout(q) \/ SyncSentPayoutStatuses(q)
      PROVE  bank' = bank
  BY <1>5 DEF StatementLine, ConfirmManually, SettlePayout, SyncSentPayoutStatuses,
       SyncConfirms, SyncWaits, SyncFails, outside
<1>6. ASSUME NEW e \in Earnings, NEW k \in Reversals, OrderReversal(k, e) PROVE bank' = bank
  BY <1>6 DEF OrderReversal, ReverseOrderEarning, ReverseInPlace, ReverseInPayout,
       ReverseNextCycle, outside
<1>7. CASE EligibilitySweep \/ CreateBatch \/ \E e \in Earnings : CreateEarning(e)
  BY <1>1, <1>7 DEF EligibilitySweep, CreateBatch, CreateEarning, outside
<1>8. CASE UNCHANGED vars
  BY <1>1, <1>8 DEF vars
<1> QED BY <1>1, <1>2, <1>3, <1>4, <1>5, <1>6, <1>7, <1>8 DEF Next, OpsOrderRefund, OpsChargeback

LEMMA AskedStep ==
  ASSUME Good, AskedAmounts, [Next]_vars
  PROVE  AskedAmounts'
<1> SUFFICES ASSUME NEW p \in Payouts, Out(p)', ~Dead(p)'
             PROVE  bank'[p].amount = payout'[p].amount
  BY DEF AskedAmounts, Out, Dead
<1>1. CASE UNCHANGED books /\ bank'[p].amount = payout[p].amount
  BY <1>1 DEF books
<1>2. CASE Out(p) /\ bank'[p].amount = bank[p].amount
  <2>1. CASE Dead(p)
    BY <1>2, <2>1, ComesBack DEF LineOf
  <2>2. CASE ~Dead(p)
    <3>1. WithTheBank(p)
      BY <1>2, <2>2 DEF WithTheBank, Dead, Out, Good, ClaimedOnce, Typed, PayoutRow, PayoutStatus
    <3>2. Frozen(p)
      BY <3>1, FrozenStep DEF Good
    <3> QED BY <1>2, <2>2, <3>2 DEF Frozen, AskedAmounts
  <2> QED BY <2>1, <2>2
<1> QED BY <1>1, <1>2, BankStep

(* The payouts the bank may pay are, together, what is in their items less *)
(* what was deducted from them: those apart that a refund has shrunk       *)
(* unawares ...                                                            *)
LEMMA SentInItems ==
  ASSUME Good, Books, AskedAmounts
  PROVE  Asked(AsAsked) = TotalInItems(EarningsIn(AsAsked))
<1> DEFINE a == [p \in Payouts |-> bank[p].amount]
           d == [k \in Reversals |-> adjustment[k].amount]
           i == [e \in Earnings |-> item[e].amount]
           Sum(P) == SumFunctionOnSet(a, P) + SumFunctionOnSet(d, DeductedFrom(P))
           G == {P \in SUBSET AsAsked : Sum(P) = SumFunctionOnSet(i, EarningsIn(P))}
<1>1. /\ \A p \in Payouts : a[p] \in Nat
      /\ \A k \in Reversals : d[k] \in Nat
      /\ \A e \in Earnings : i[e] \in Nat
  BY Amounts DEF Good, Typed, BankRow
<1>2. AsAsked \in SUBSET Payouts /\ IsFiniteSet(AsAsked)
  BY Finite DEF AsAsked, Sent
<1>3. \A p \in AsAsked : a[p] + SumFunctionOnSet(d, DeductedFrom({p})) = SumFunctionOnSet(i, ItemsOf(p))
  <2> TAKE p \in AsAsked
  <2>1. Counts(p)
    BY <1>2 DEF AsAsked, Sent, Counts, Out, Good, ClaimedOnce
  <2>2. a[p] = payout[p].amount
    BY <1>2 DEF AsAsked, Sent, ShrunkUnawares, AskedAmounts, Out
  <2> QED BY <1>2, <2>1, <2>2 DEF Books, AddUp, AddsUp, TotalAdjusted, TotalInItems
<1> HIDE DEF a, d, i
<1>4. {} \in G
  <2>1. DeductedFrom({}) = {} /\ EarningsIn({}) = {}
    BY DEF DeductedFrom, EarningsIn
  <2> QED BY <2>1, SumEmpty
<1>5. ASSUME NEW P \in SUBSET AsAsked, NEW p \in P, P \ {p} \in G PROVE P \in G
  <2> DEFINE Q == P \ {p}
  <2>1. IsFiniteSet(P) /\ P \in SUBSET Payouts /\ p \in AsAsked
    BY <1>2, FS_Subset
  <2>2. SumFunctionOnSet(a, P) = a[p] + SumFunctionOnSet(a, Q)
    BY <1>1, <2>1, SumAdd
  <2>3. SumFunctionOnSet(d, DeductedFrom(P))
          = SumFunctionOnSet(d, DeductedFrom({p})) + SumFunctionOnSet(d, DeductedFrom(Q))
    <3> DEFINE D == DeductedFrom(P)
               E == DeductedFrom({p})
    <3>1. E \in SUBSET D /\ D \ E = DeductedFrom(Q) /\ D \in SUBSET Reversals
      BY DEF DeductedFrom
    <3>2. IsFiniteSet(D) /\ \A k \in D : d[k] \in Nat
      BY <1>1, <3>1, Finite
    <3> HIDE DEF D, E, G
    <3>3. SumFunctionOnSet(d, D) = SumFunctionOnSet(d, E) + SumFunctionOnSet(d, D \ E)
      BY <3>1, <3>2, SumSplit
    <3> QED BY <3>1, <3>3 DEF D, E
  <2>4. SumFunctionOnSet(i, EarningsIn(P))
          = SumFunctionOnSet(i, ItemsOf(p)) + SumFunctionOnSet(i, EarningsIn(Q))
    <3>1. /\ ItemsOf(p) \in SUBSET EarningsIn(P) /\ EarningsIn(P) \ ItemsOf(p) = EarningsIn(Q)
          /\ EarningsIn(P) \in SUBSET Earnings
      BY DEF ItemsOf, EarningsIn
    <3>2. IsFiniteSet(EarningsIn(P)) /\ \A e \in EarningsIn(P) : i[e] \in Nat
      BY <1>1, <3>1, Finite
    <3>3. SumFunctionOnSet(i, EarningsIn(P))
            = SumFunctionOnSet(i, ItemsOf(p)) + SumFunctionOnSet(i, EarningsIn(P) \ ItemsOf(p))
      BY <3>1, <3>2, SumSplit
    <3> QED BY <3>1, <3>3
  <2>5. Sum(Q) = SumFunctionOnSet(i, EarningsIn(Q))
    BY <1>5
  <2>6. /\ DeductedFrom({p}) \in SUBSET Reversals /\ DeductedFrom(Q) \in SUBSET Reversals
        /\ ItemsOf(p) \in SUBSET Earnings /\ EarningsIn(Q) \in SUBSET Earnings
        /\ Q \in SUBSET Payouts
    BY <2>1 DEF DeductedFrom, ItemsOf, EarningsIn
  <2>7. /\ SumFunctionOnSet(a, Q) \in Nat /\ a[p] \in Nat
        /\ SumFunctionOnSet(d, DeductedFrom({p})) \in Nat
        /\ SumFunctionOnSet(d, DeductedFrom(Q)) \in Nat
    BY <1>1, <2>1, <2>6, Finite, SumNat
  <2> HIDE DEF Q
  <2>8. Sum(P) = SumFunctionOnSet(i, EarningsIn(P))
    BY <1>3, <2>1, <2>2, <2>3, <2>4, <2>5, <2>7
  <2> QED BY <2>8
<1>6. AsAsked \in G
  <2> HIDE DEF G
  <2> QED BY <1>2, <1>4, <1>5, Grows
<1> QED BY <1>6 DEF Asked, TotalInItems, TotalAdjusted, a, d, i

(* ... and their items are worth no more than the earnings in them are now *)
(* and what is carried over for those.                                     *)
LEMMA InItemsEarned ==
  ASSUME Good, Books
  PROVE  TotalInItems(EarningsIn(AsAsked)) <= Earned(AsAsked)
<1> DEFINE o == [e \in Earnings |-> Outstanding(e)]
           d == [k \in Reversals |-> adjustment[k].amount]
           i == [e \in Earnings |-> item[e].amount]
           Sum(S) == SumFunctionOnSet(o, S) + SumFunctionOnSet(d, CarriedFor(S))
           G == {S \in SUBSET EarningsIn(AsAsked) : SumFunctionOnSet(i, S) <= Sum(S)}
<1>1. /\ \A e \in Earnings : o[e] \in Nat
      /\ \A k \in Reversals : d[k] \in Nat
      /\ \A e \in Earnings : i[e] \in Nat
  BY Amounts DEF Good, ItemsCover, Covered, Outstanding
<1>2. EarningsIn(AsAsked) \in SUBSET Earnings /\ IsFiniteSet(EarningsIn(AsAsked))
  BY Finite DEF EarningsIn
<1>3. \A e \in EarningsIn(AsAsked) : i[e] <= o[e] + SumFunctionOnSet(d, CarriedFor({e}))
  <2> TAKE e \in EarningsIn(AsAsked)
  <2>1. PICK p \in Payouts : item[e].payout = p /\ Out(p)
    BY DEF EarningsIn, AsAsked, Sent, Out
  <2>2. Counts(p)
    BY <2>1 DEF Counts, Out, Good, ClaimedOnce
  <2> QED BY <1>2, <2>1, <2>2 DEF Books, ItemsBacked, Backed, TotalAdjusted
<1> HIDE DEF o, d, i
<1>4. {} \in G
  <2>1. CarriedFor({}) = {}
    BY DEF CarriedFor
  <2> QED BY <2>1, SumEmpty
<1>5. ASSUME NEW S \in SUBSET EarningsIn(AsAsked), NEW e \in S, S \ {e} \in G PROVE S \in G
  <2> DEFINE T == S \ {e}
  <2>1. IsFiniteSet(S) /\ S \in SUBSET Earnings /\ e \in EarningsIn(AsAsked) /\ T \in SUBSET Earnings
    BY <1>2, FS_Subset
  <2>2. /\ SumFunctionOnSet(o, S) = o[e] + SumFunctionOnSet(o, T)
        /\ SumFunctionOnSet(i, S) = i[e] + SumFunctionOnSet(i, T)
    BY <1>1, <2>1, SumAdd
  <2>3. SumFunctionOnSet(d, CarriedFor(S))
          = SumFunctionOnSet(d, CarriedFor({e})) + SumFunctionOnSet(d, CarriedFor(T))
    <3>1. \A R : CarriedFor(R) \in SUBSET Reversals
      BY DEF CarriedFor
    <3>2. CarriedFor({e}) \in SUBSET CarriedFor(S)
      BY DEF CarriedFor
    <3>3. CarriedFor(S) \ CarriedFor({e}) = CarriedFor(T)
      BY DEF CarriedFor
    <3>4. IsFiniteSet(CarriedFor(S)) /\ \A k \in CarriedFor(S) : d[k] \in Nat
      BY <1>1, <3>1, Finite
    <3>5. SumFunctionOnSet(d, CarriedFor(S)) = SumFunctionOnSet(d, CarriedFor({e}))
            + SumFunctionOnSet(d, CarriedFor(S) \ CarriedFor({e}))
      BY <3>2, <3>4, SumSplit
    <3> QED BY <3>3, <3>5
  <2>4. SumFunctionOnSet(i, T) <= Sum(T)
    BY <1>5
  <2>5. CarriedFor({e}) \in SUBSET Reversals /\ CarriedFor(T) \in SUBSET Reversals
    BY DEF CarriedFor
  <2>6. /\ SumFunctionOnSet(i, T) \in Nat /\ SumFunctionOnSet(o, T) \in Nat
        /\ i[e] \in Nat /\ o[e] \in Nat
        /\ SumFunctionOnSet(d, CarriedFor({e})) \in Nat
        /\ SumFunctionOnSet(d, CarriedFor(T)) \in Nat
    BY <1>1, <2>1, <2>5, Finite, SumNat
  <2> HIDE DEF T
  <2>7. SumFunctionOnSet(i, S) <= Sum(S)
    BY <1>3, <2>1, <2>2, <2>3, <2>4, <2>6
  <2> QED BY <2>7
<1>6. EarningsIn(AsAsked) \in G
  <2> HIDE DEF G
  <2> QED BY <1>2, <1>4, <1>5, Grows
<1> QED BY <1>6 DEF Earned, TotalOutstanding, TotalInItems, TotalAdjusted, o, d, i

-----------------------------------------------------------------------------
(* The theorems.                                                           *)

LEMMA InitGood == Init => Good
<1> SUFFICES ASSUME Init PROVE Good
  OBVIOUS
<1> USE DEF Init
<1>1. Typed
  BY InitTyped
<1>2. ClaimedOnce
  BY DEF ClaimedOnce, NewPayout
<1>3. HandledAlone /\ ListedStale /\ SeenIsFree
  BY DEF HandledAlone, HandlesWell, Handles, Calling, Releasing, ListedStale, SeenIsFree, Idle
<1>4. ItemsCover
  BY Constants DEF ItemsCover, Covered, NewEarning, NoItem
<1>5. TransfersHold /\ OneTransfer /\ PaidIsPaid
  BY DEF TransfersHold, OneTransfer, Out, PaidIsPaid, WasPaid, NewEarning
<1> QED BY <1>1, <1>2, <1>3, <1>4, <1>5 DEF Good

LEMMA GoodStep ==
  ASSUME AsConfigured, Good, [Next]_vars
  PROVE  Good'
<1>0. Typed'
  BY TypedStep DEF Good
<1>1. ASSUME NEW w \in Workers, DispatchDuePayouts(w) PROVE Good'
  BY <1>0, <1>1, ListStaleGood, RecoverStaleGood, ClaimGood, AnswerGood, SaveSentGood,
     SaveFailedGood, ListItemsGood, ReleaseItemsGood, SyncBatchGood DEF DispatchDuePayouts
<1>2. ASSUME NEW w \in Workers, Authorise(w) \/ Die(w) PROVE Good'
  BY <1>0, <1>2, AuthoriseGood, DieGood
<1>3. ASSUME NEW e \in Earnings, NEW k \in Reversals, OrderReversal(k, e) PROVE Good'
  BY <1>0, <1>3, ReverseInPlaceGood, ReverseInPayoutGood, ReverseNextCycleGood
     DEF OrderReversal, ReverseOrderEarning
<1>4. ASSUME NEW p \in Payouts, BankPays(p) \/ BankRefuses(p) \/ StatementLine(p) PROVE Good'
  BY <1>0, <1>4, BankPaysGood, BankRefusesGood, StatementLineGood
<1>5. ASSUME NEW p \in Payouts, ConfirmManually(p) PROVE Good'
  BY <1>0, <1>5, ConfirmedGood DEF ConfirmManually, outside
<1>6. ASSUME NEW p \in Payouts, SyncSentPayoutStatuses(p) PROVE Good'
  <2>1. CASE SyncConfirms(p)
    <3>1. bank[p].state = "PAID" /\ payout[p].status = "SENT" /\ UNCHANGED <<job, outside>>
      BY <2>1 DEF SyncConfirms, StatusAnswer, Askable
    <3> QED BY <1>0, <2>1, <3>1, ConfirmedGood DEF SyncConfirms, outside
  <2> QED BY <1>0, <1>6, <2>1, SyncWaitsGood, SyncFailsGood DEF SyncSentPayoutStatuses
<1>7. ASSUME NEW p \in Payouts, SettlePayout(p) PROVE Good'
  <2>1. /\ bank[p].state = "PAID" /\ UNCHANGED <<job, bank>>
        /\ \A q \in Payouts : statement'[q] # "NONE" => statement[q] # "NONE"
    BY <1>7 DEF SettlePayout, LineOf, Good, ClaimedOnce, Typed
  <2>2. CASE Confirmed(p)
    <3>1. payout[p].status \in {"SENT", "FAILED"} \/ UNCHANGED books
      BY <1>7 DEF SettlePayout
    <3>2. CASE payout[p].status \in {"SENT", "FAILED"}
      BY <1>0, <2>1, <2>2, <3>2, ConfirmedGood
    <3>3. CASE UNCHANGED books
      BY <1>0, <2>1, <3>3, BooksKeptGood
    <3> QED BY <3>1, <3>2, <3>3
  <2>3. CASE UNCHANGED books
    BY <1>0, <2>1, <2>3, BooksKeptGood
  <2> QED BY <1>7, <2>2, <2>3 DEF SettlePayout
<1>8. CASE EligibilitySweep \/ CreateBatch \/ \E e \in Earnings : CreateEarning(e)
  BY <1>0, <1>8, SweepGood, CreateBatchGood, CreateEarningGood
<1>9. CASE UNCHANGED vars
  BY <1>0, <1>9, BooksKeptGood DEF vars, books
<1> QED BY <1>1, <1>2, <1>3, <1>4, <1>5, <1>6, <1>7, <1>8, <1>9
        DEF Next, OpsOrderRefund, OpsChargeback

LEMMA AlwaysTyped == Spec => []Typed
BY InitTyped, TypedStep, PTL DEF Spec

(* Amounts stay natural, attempts and status queries within their limits:  *)
(* no refund takes more of an item or a payout than there is.              *)
THEOREM TypeCorrect == Spec => []TypeOK
BY AlwaysTyped, TypeIs, PTL

(* From its claim on, no refund, no batch and no recovery changes what a   *)
(* payout pays and for which earnings.                                     *)
THEOREM DispatchedStaysFrozen == Spec => DispatchedIsFrozen
<1>1. Typed /\ [Next]_vars =>
        [\A p \in Payouts : WithTheBank(p) =>
           payout'[p].amount = payout[p].amount /\ \A e \in ItemsOf(p) : item'[e] = item[e]]_vars
  BY FrozenStep DEF Frozen
<1> QED BY <1>1, AlwaysTyped, PTL DEF Spec, DispatchedIsFrozen

LEMMA AlwaysGood ==
  ASSUME AsConfigured
  PROVE  Spec => []Good
<1>1. Good /\ [Next]_vars => Good'
  BY GoodStep
<1> QED BY <1>1, InitGood, PTL DEF Spec

(* What is called paid was paid by the bank.                               *)
THEOREM PaidWasPaid ==
  ASSUME AsConfigured
  PROVE  Spec => []PaidByTheBank
<1>1. Good => PaidByTheBank
  BY DEF Good, ClaimedOnce, PaidIsPaid, WasPaid, PaidByTheBank, Transfers
<1> QED BY <1>1, AlwaysGood, PTL

(* No earning is in two transfers, and none that is owed is in any.        *)
THEOREM EarningsNeverPaidTwice ==
  ASSUME AsConfigured
  PROVE  Spec => []NeverPaidTwice
<1>1. ASSUME Good PROVE NeverPaidTwice
  <2>1. ASSUME NEW e \in Earnings PROVE Cardinality(Transfers(e)) <= 1
    <3>1. \A p, q \in Transfers(e) : p = q
      <4> SUFFICES ASSUME NEW p \in Transfers(e), NEW q \in Transfers(e), p # q PROVE FALSE
        OBVIOUS
      <4>1. /\ Out(p) /\ Out(q) /\ e \in bank[p].covers /\ e \in bank[q].covers
            /\ p \in Payouts /\ q \in Payouts
        BY DEF Transfers, Out
      <4> QED BY <1>1, <4>1 DEF Good, OneTransfer
    <3>2. CASE Transfers(e) = {}
      BY <3>2, FS_EmptySet
    <3>3. ASSUME NEW p \in Transfers(e) PROVE Cardinality(Transfers(e)) <= 1
      <4>1. Transfers(e) = {p}
        BY <3>1, <3>3
      <4> QED BY <4>1, FS_Singleton
    <3> QED BY <3>2, <3>3
  <2>2. ASSUME NEW e \in Earnings, earning[e].status \in {"PENDING", "ELIGIBLE"}
        PROVE  Transfers(e) = {}
    BY <1>1, <2>2 DEF Good, TransfersHold, TransferHolds, Out, Transfers
  <2> QED BY <2>1, <2>2 DEF NeverPaidTwice
<1> QED BY <1>1, AlwaysGood, PTL

LEMMA AlwaysBooks ==
  ASSUME AsConfigured
  PROVE  Spec => [](Good /\ Books)
<1>1. Good /\ Books /\ [Next]_vars => (Good /\ Books)'
  BY GoodStep, BooksNext
<1> QED BY <1>1, InitGood, InitBooks, PTL DEF Spec

(* A payout that is not given up, or that the bank may still pay, is the   *)
(* sum of its items less the refunds that were carried over to it.         *)
THEOREM EveryPayoutAddsUp ==
  ASSUME AsConfigured
  PROVE  Spec => []PayoutsAddUp
<1>1. Books => PayoutsAddUp
  BY DEF Books, AddUp, AddsUp, Counts, Sent, Out, PayoutsAddUp
<1> QED BY <1>1, AlwaysBooks, PTL

(* The bank is never asked to pay the business more than it earned,        *)
(* however refunds meet batches, failures, releases and settlements: but   *)
(* for a refund that shrinks a payout which the books gave up and of which *)
(* they do not know that the bank was asked.                               *)
THEOREM NeverSentMoreThanEarned ==
  ASSUME AsConfigured
  PROVE  Spec => []SentIsEarned
<1>1. Init => AskedAmounts
  BY DEF Init, AskedAmounts, Out
<1>2. (Good /\ AskedAmounts) /\ [Next]_vars => AskedAmounts'
  BY AskedStep
<1>3. Good /\ Books /\ AskedAmounts => SentIsEarned
  BY SentInItems, InItemsEarned DEF SentIsEarned
<1>4. Spec => []AskedAmounts
  BY <1>1, <1>2, AlwaysGood, PTL DEF Spec
<1> QED BY <1>3, <1>4, AlwaysBooks, PTL
=============================================================================
