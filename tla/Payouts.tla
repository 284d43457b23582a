------------------------------ MODULE Payouts ------------------------------
(***************************************************************************)
(* What a business is owed and how it is paid: earnings, payouts and their *)
(* items, refunds that shrink a payout or are carried to the next one, the *)
(* dispatch job that talks to the bank's service outside any transaction,  *)
(* the status job, settlement rows and operators.                          *)
(*                                                                         *)
(* Batches are made per business and hold one payout each; the module is   *)
(* about one business.  Time is left out: the hold of an earning may end,  *)
(* a retry be due, a lock grow stale at any moment the code allows.        *)
(***************************************************************************)
EXTENDS Integers, FiniteSets, Functions

CONSTANTS
  Earnings,      \* the orders that were sold, by number
  Net,           \* Net[e]: what the business earns with e
  MaxPayouts,    \* bound: payouts made
  Reversals,     \* the idempotency keys of refunds and chargebacks
  Workers,       \* runs of the dispatch job: the scheduler's, an operator's
  MaxAttempts,   \* PAYOUT_MAX_ATTEMPTS
  MaxSyncs,      \* PAYOUT_STATUS_SYNC_MAX_ATTEMPTS
  MaxCrashes,    \* bound: runs of the dispatch job that die
  SlowCalls,     \* TRUE: a call may outlast PAYOUT_LOCK_TTL_SECONDS
  StatusErrors   \* TRUE: the status service may fail with a permanent error

ASSUME PayoutConstants ==
  /\ Earnings \subseteq Nat /\ IsFiniteSet(Earnings) /\ Earnings # {}
  /\ \A S \in (SUBSET Earnings) \ {{}} : \E last \in S : \A e \in S : e <= last
  /\ Net \in [Earnings -> Nat \ {0}] /\ IsFiniteSet(Reversals)
  /\ MaxPayouts \in Nat /\ MaxAttempts \in Nat \ {0}
  /\ MaxSyncs \in Nat /\ MaxCrashes \in Nat
  /\ SlowCalls \in BOOLEAN /\ StatusErrors \in BOOLEAN

Payouts == 1..MaxPayouts
NoPayout == 0

VARIABLES
  earning,       \* earning[e]: the business earning's row
  item,          \* item[e]: the payout item of e, if payout # NoPayout
  payout,        \* payout[p]: the payout's row
  batch,         \* batch[p]: the status of p's batch
  adjustment,    \* adjustment[k]: the amount carried to a later payout
  job,           \* job[w]: where a dispatch run stands
  bank,          \* bank[p]: what the bank's service did about p
  statement,     \* statement[p]: what a settlement file said about p
  crashes

vars == <<earning, item, payout, batch, adjustment, job, bank, statement, crashes>>
books == <<earning, item, payout, batch, adjustment>>
outside == <<bank, statement>>

EarningStatus == {"NONE", "PENDING", "ELIGIBLE", "IN_PAYOUT", "PAID", "REVERSED"}
PayoutStatus ==
  {"NONE", "CREATED", "DISPATCHING", "SENT", "CONFIRMED", "FAILED", "CANCELLED"}
BatchStatus == {"NONE", "DRAFT", "DISPATCHED", "CONFIRMED", "FAILED"}
RequestErrors == {"RETRYABLE", "PERMANENT"}
Answers == {"OK", "IN_FLIGHT"} \union RequestErrors
StatusAnswers == {"PAID", "WAITING", "REFUSED", "ITEM_MISSING", "ERROR"}

NewEarning == [status |-> "NONE", reversed |-> 0]
NewPayout == [status |-> "NONE", amount |-> 0, attempts |-> 0, providerId |-> "NULL", syncs |-> 0]
Idle == [pc |-> "IDLE", payout |-> NoPayout, answer |-> "NONE", seen |-> {},
         stale |-> {}]
NoItem == [payout |-> NoPayout, amount |-> 0]
NoAdjustment == [status |-> "NONE", earning |-> CHOOSE e \in Earnings : TRUE,
                 amount |-> 0, payout |-> NoPayout]

TypeOK ==
  /\ earning \in [Earnings -> [status: EarningStatus, reversed: Nat]]
  /\ item \in [Earnings -> [payout: Payouts \union {NoPayout}, amount: Nat]]
  /\ payout \in [Payouts -> [status: PayoutStatus, amount: Nat, attempts: 0..MaxAttempts,
                             providerId: {"NULL", "EMPTY", "ID"}, syncs: 0..MaxSyncs]]
  /\ batch \in [Payouts -> BatchStatus]
  /\ adjustment \in [Reversals -> [status: {"NONE", "PENDING", "APPLIED", "CANCELLED"},
                                   earning: Earnings, amount: Nat,
                                   payout: Payouts \union {NoPayout}]]
  /\ job \in [Workers -> [pc: {"IDLE", "RECOVER", "CALL", "SAVE", "RELEASE", "CANCEL", "SYNC"},
                          payout: Payouts \union {NoPayout},
                          answer: Answers \union {"NONE"},
                          seen: SUBSET Earnings,
                          stale: SUBSET [payout: Payouts, attempts: Nat, sent: BOOLEAN]]]
  /\ bank \in [Payouts -> [state: {"NONE", "ASKED", "PAID", "REFUSED"}, amount: Nat,
                           covers: SUBSET Earnings]]
  /\ statement \in [Payouts -> {"NONE", "LINE", "SETTLED"}]
  /\ crashes \in 0..MaxCrashes

Init ==
  /\ earning = [e \in Earnings |-> NewEarning]
  /\ item = [e \in Earnings |-> NoItem]
  /\ payout = [p \in Payouts |-> NewPayout]
  /\ batch = [p \in Payouts |-> "NONE"]
  /\ adjustment = [k \in Reversals |-> NoAdjustment]
  /\ job = [w \in Workers |-> Idle]
  /\ bank = [p \in Payouts |-> [state |-> "NONE", amount |-> 0, covers |-> {}]]
  /\ statement = [p \in Payouts |-> "NONE"]
  /\ crashes = 0

-----------------------------------------------------------------------------
(* Helpers.                                                                *)

Outstanding(e) == Net[e] - earning[e].reversed
ItemsOf(p) == {e \in Earnings : item[e].payout = p}

(* What is left of the earnings in S, and what was carried over in K.      *)
TotalOutstanding(S) == SumFunctionOnSet([e \in Earnings |-> Outstanding(e)], S)
TotalAdjusted(K) == SumFunctionOnSet([k \in Reversals |-> adjustment[k].amount], K)

(* _sync_batch_status, for a batch of one payout.                          *)
BatchOf(status) ==
  CASE status = "CONFIRMED" -> "CONFIRMED"
    [] status \in {"FAILED", "CANCELLED"} -> "FAILED"
    [] status \in {"SENT", "DISPATCHING"} -> "DISPATCHED"
    [] OTHER -> "DRAFT"

(* _release_payout_items_to_eligible: of the earnings held by the payout,  *)
(* those in it are owed again, and what was carried over for their orders  *)
(* and not used yet is void: the earning itself is smaller now.            *)
Released(S) ==
  [e \in Earnings |-> IF e \in S THEN [earning[e] EXCEPT !.status = "ELIGIBLE"] ELSE earning[e]]

(* As if the release did not ask for the order.                            *)
VoidedAll(S) ==
  [k \in Reversals |->
     IF adjustment[k].status = "PENDING" /\ S # {}
     THEN [adjustment[k] EXCEPT !.status = "CANCELLED"] ELSE adjustment[k]]

Voided(S) ==
  [k \in Reversals |->
     IF adjustment[k].status = "PENDING" /\ adjustment[k].earning \in S
     THEN [adjustment[k] EXCEPT !.status = "CANCELLED"] ELSE adjustment[k]]

InPayout(p) == {e \in ItemsOf(p) : earning[e].status = "IN_PAYOUT"}

-----------------------------------------------------------------------------
(* Earnings and batches.                                                   *)

(* create_business_earning_for_order, when an order is consumed.           *)
CreateEarning(e) ==
  /\ earning[e].status = "NONE"
  /\ earning' = [earning EXCEPT ![e].status = "PENDING"]
  /\ UNCHANGED <<item, payout, batch, adjustment, job, outside, crashes>>

EligibilitySweep ==
  \E due \in SUBSET {e \in Earnings : earning[e].status = "PENDING"} :
    /\ due # {}
    /\ earning' = [e \in Earnings |->
                     IF e \in due THEN [earning[e] EXCEPT !.status = "ELIGIBLE"] ELSE earning[e]]
    /\ UNCHANGED <<item, payout, batch, adjustment, job, outside, crashes>>

Dead(p) == payout[p].status \in {"FAILED", "CANCELLED"}

Batchable(e) ==
  /\ earning[e].status = "ELIGIBLE"
  /\ item[e].payout = NoPayout \/ Dead(item[e].payout)
  /\ Outstanding(e) > 0

Carried == {k \in Reversals : adjustment[k].status = "PENDING"}

(* A payout that loses items is reduced, each time from the amount it was  *)
(* read with: the last item counts.                                        *)
Reduced(p, moved) ==
  LET last == CHOOSE e \in moved : \A f \in moved : f <= e
      left == payout[p].amount - item[last].amount
  IN [payout[p] EXCEPT !.amount = IF left > 0 THEN left ELSE 0]

(* create_batches_for_eligible and _create_batch_for_business.             *)
CreateBatch ==
  \E p \in Payouts :
    LET moving == {e \in Earnings : Batchable(e)}
        total == TotalOutstanding(moving) - TotalAdjusted(Carried)
        from == {item[e].payout : e \in moving} \ {NoPayout}
    IN
    /\ payout[p].status = "NONE"
    /\ \A q \in Payouts : q < p => payout[q].status # "NONE"
    /\ total \in Nat \ {0}
    /\ payout' = [q \in Payouts |->
         IF q = p THEN [payout[p] EXCEPT !.status = "CREATED", !.amount = total]
         ELSE IF q \in from THEN Reduced(q, moving \intersect ItemsOf(q)) ELSE payout[q]]
    /\ item' = [e \in Earnings |->
         IF e \in moving THEN [payout |-> p, amount |-> Outstanding(e)] ELSE item[e]]
    /\ earning' = [e \in Earnings |->
         IF e \in moving THEN [earning[e] EXCEPT !.status = "IN_PAYOUT"] ELSE earning[e]]
    /\ adjustment' = [k \in Reversals |->
         IF k \in Carried THEN [adjustment[k] EXCEPT !.status = "APPLIED", !.payout = p]
         ELSE adjustment[k]]
    /\ batch' = [q \in Payouts |->
         IF q = p THEN "DRAFT" ELSE IF q \in from THEN BatchOf(payout[q].status) ELSE batch[q]]
    /\ UNCHANGED <<job, outside, crashes>>

-----------------------------------------------------------------------------
(* Refunds and chargebacks of orders: one transaction each.                *)

Reversible(e, n) ==
  /\ earning[e].status # "NONE"
  /\ earning[e].reversed + n <= Net[e]

LessReversed(e, n) ==
  [earning EXCEPT ![e] =
     [reversed |-> @.reversed + n,
      status |-> IF @.reversed + n = Net[e] THEN "REVERSED" ELSE @.status]]

(* The row of key k; only its place matters when nothing is carried over.  *)
Recorded(k, e, n, status) ==
  [adjustment EXCEPT ![k] = [status |-> status, earning |-> e, amount |-> n, payout |-> NoPayout]]

ReverseInPlace(k, e, n) ==
  /\ Reversible(e, n)
  /\ item[e].payout = NoPayout
  /\ earning[e].status \in {"PENDING", "ELIGIBLE"}
  /\ earning' = LessReversed(e, n)
  /\ adjustment' = Recorded(k, e, n, "CANCELLED")
  /\ UNCHANGED <<item, payout, batch, job, outside, crashes>>

MutableUntilSent(p) == payout[p].status \in {"CREATED", "DISPATCHING", "FAILED", "CANCELLED"}

Mutable(p) == payout[p].status \in {"CREATED", "FAILED", "CANCELLED"}

ReverseInPayoutUnchecked(k, e, n) ==
  LET p == item[e].payout IN
  /\ Reversible(e, n)
  /\ p # NoPayout /\ Mutable(p)
  /\ n <= item[e].amount
  /\ item' = [item EXCEPT ![e] = IF n = @.amount THEN NoItem
                                 ELSE [payout |-> p, amount |-> @.amount - n]]
  /\ payout' = [payout EXCEPT ![p].amount = @ - n,
                              ![p].status = IF n = payout[p].amount THEN "CANCELLED" ELSE @]
  /\ batch' = [batch EXCEPT ![p] = BatchOf(payout'[p].status)]
  /\ earning' = LessReversed(e, n)
  /\ adjustment' = Recorded(k, e, n, "CANCELLED")
  /\ UNCHANGED <<job, outside, crashes>>

ReverseInPayout(k, e, n) ==
  LET p == item[e].payout IN
  /\ Reversible(e, n)
  /\ p # NoPayout /\ Mutable(p)
  /\ n <= item[e].amount /\ n <= payout[p].amount
  /\ item' = [item EXCEPT ![e] = IF n = @.amount THEN NoItem
                                 ELSE [payout |-> p, amount |-> @.amount - n]]
  /\ payout' = [payout EXCEPT ![p].amount = @ - n,
                              ![p].status = IF n = payout[p].amount THEN "CANCELLED" ELSE @]
  /\ batch' = [batch EXCEPT ![p] = BatchOf(payout'[p].status)]
  /\ earning' = LessReversed(e, n)
  /\ adjustment' = Recorded(k, e, n, "CANCELLED")
  /\ UNCHANGED <<job, outside, crashes>>

ReverseNextCycle(k, e, n) ==
  LET p == item[e].payout IN
  /\ Reversible(e, n)
  /\ IF p = NoPayout THEN earning[e].status \notin {"PENDING", "ELIGIBLE"} ELSE ~Mutable(p)
  /\ earning' = LessReversed(e, n)
  /\ adjustment' = Recorded(k, e, n, "PENDING")
  /\ UNCHANGED <<item, payout, batch, job, outside, crashes>>

ReverseOrderEarning(k, e, n) ==
  \/ ReverseInPlace(k, e, n)
  \/ ReverseInPayout(k, e, n)
  \/ ReverseNextCycle(k, e, n)

(* _apply_order_reversal; a key that was used answers what it answered.    *)
Unused(k) == adjustment[k].status = "NONE"

OrderReversal(k, e) ==
  /\ Unused(k)
  /\ \E n \in 1..Net[e] : ReverseOrderEarning(k, e, n)

(* A refund goes to the customer's wallet, a chargeback does not; to the   *)
(* business they are the same.                                             *)
OpsOrderRefund(k, e) == OrderReversal(k, e)
OpsChargeback(k, e) == OrderReversal(k, e)

-----------------------------------------------------------------------------
(* The dispatch job.                                                       *)

(* A lock is stale when its run died, or when the run takes longer than    *)
(* the lock lives: it is dated at the start of the run, for each payout.   *)
Held(p) == \E w \in Workers : job[w].pc \in {"CALL", "SAVE"} /\ job[w].payout = p
Stale(p) == payout[p].status = "DISPATCHING" /\ (SlowCalls \/ ~Held(p))

ListStale(w) ==
  /\ job[w].pc = "IDLE"
  /\ \E S \in SUBSET {p \in Payouts : Stale(p)} :
       /\ S # {}
       /\ job' = [job EXCEPT ![w] =
            [Idle EXCEPT !.pc = "RECOVER",
                         !.stale = {[payout |-> p, attempts |-> payout[p].attempts,
                                     sent |-> payout[p].providerId = "ID"] : p \in S}]]
  /\ UNCHANGED <<books, outside, crashes>>

(* The rows are written as they were read, without asking again whether    *)
(* they are stale.  The updates, the releases and the batches' status are  *)
(* transactions of their own in the code, one step here.                   *)
Attempts(r) == IF r.attempts + 1 < MaxAttempts THEN r.attempts + 1 ELSE MaxAttempts

Recovered(r) ==
  IF r.sent THEN [payout[r.payout] EXCEPT !.status = "SENT", !.syncs = 0]
  ELSE [payout[r.payout] EXCEPT !.status = "FAILED", !.attempts = Attempts(r)]

GivenUp(r) == ~r.sent /\ Attempts(r) = MaxAttempts

RecoverStale(w) ==
  LET stale == job[w].stale
      S == {r.payout : r \in stale}
      up == {r.payout : r \in {q \in stale : GivenUp(q)}}
      read(p) == CHOOSE r \in stale : r.payout = p
  IN
  /\ job[w].pc = "RECOVER"
  /\ payout' = [p \in Payouts |-> IF p \in S THEN Recovered(read(p)) ELSE payout[p]]
  /\ batch' = [p \in Payouts |-> IF p \in S THEN BatchOf(payout'[p].status) ELSE batch[p]]
  /\ earning' = Released(UNION {InPayout(p) : p \in up})
  /\ adjustment' = Voided(UNION {ItemsOf(p) : p \in up})
  /\ job' = [job EXCEPT ![w] = Idle]
  /\ UNCHANGED <<item, outside, crashes>>

(* One conditional UPDATE; a payout that failed is claimed again only if   *)
(* its provider_payout_id is the empty string.                             *)
Claimable(p) ==
  /\ payout[p].status = "CREATED"
     \/ (payout[p].status = "FAILED" /\ payout[p].providerId = "EMPTY")
  /\ payout[p].attempts < MaxAttempts

Claim(w, p) ==
  /\ job[w].pc = "IDLE"
  /\ Claimable(p)
  /\ payout' = [payout EXCEPT ![p].status = "DISPATCHING", ![p].attempts = @ + 1]
  /\ job' = [job EXCEPT ![w] = [Idle EXCEPT !.pc = "CALL", !.payout = p]]
  /\ UNCHANGED <<earning, item, batch, adjustment, outside, crashes>>

(* The service authorises the transfer; until then a request has no        *)
(* effect.                                                                 *)
Authorise(w) ==
  LET p == job[w].payout IN
  /\ job[w].pc = "CALL" /\ bank[p].state = "NONE"
  /\ bank' = [bank EXCEPT ![p] = [state |-> "ASKED", amount |-> payout[p].amount,
                                  covers |-> ItemsOf(p)]]
  /\ UNCHANGED <<books, job, statement, crashes>>

(* The request cannot be built: the business is not approved, or its IBAN  *)
(* or name is missing.                                                     *)
Unready(answer) == answer = "PERMANENT"

(* Or the first call fails: nothing was asked for, no request id is known. *)
NotInitialised(answer, state) ==
  (Unready(answer) \/ answer \in RequestErrors) /\ state = "NONE"

(* Once there is a request id, no error tells what became of the transfer. *)
Unclear(answer) == answer = "IN_FLIGHT"

Authorised(answer, state) == answer = "OK" /\ state # "NONE"

Dispatched(answer, state) ==
  NotInitialised(answer, state) \/ Unclear(answer) \/ Authorised(answer, state)

Answer(w) ==
  /\ job[w].pc = "CALL"
  /\ \E a \in Answers :
       /\ Dispatched(a, bank[job[w].payout].state)
       /\ job' = [job EXCEPT ![w].pc = "SAVE", ![w].answer = a]
  /\ UNCHANGED <<books, outside, crashes>>

(* The result is written over whatever the row has become.  A failure with *)
(* a request id is taken as sent: the status job will tell.                *)
SaveSent(w) ==
  LET p == job[w].payout IN
  /\ job[w].pc = "SAVE" /\ job[w].answer \in {"OK", "IN_FLIGHT"}
  /\ payout' = [payout EXCEPT ![p] = [@ EXCEPT !.status = "SENT", !.providerId = "ID", !.syncs = 0]]
  /\ job' = [job EXCEPT ![w].pc = "SYNC"]
  /\ UNCHANGED <<earning, item, batch, adjustment, outside, crashes>>

SaveFailed(w) ==
  LET p == job[w].payout
      forGood == job[w].answer = "PERMANENT"
  IN
  /\ job[w].pc = "SAVE" /\ job[w].answer \in {"RETRYABLE", "PERMANENT"}
  /\ payout' = [payout EXCEPT ![p].status = "FAILED",
                              ![p].attempts = IF forGood THEN MaxAttempts ELSE @]
  /\ job' = [job EXCEPT ![w].pc = IF forGood THEN "RELEASE" ELSE "SYNC"]
  /\ UNCHANGED <<earning, item, batch, adjustment, outside, crashes>>

(* The release reads the earnings, then writes them, without a lock.       *)
ListItems(w) ==
  /\ job[w].pc = "RELEASE"
  /\ job' = [job EXCEPT ![w].pc = "CANCEL", ![w].seen = InPayout(job[w].payout)]
  /\ UNCHANGED <<books, outside, crashes>>

ReleaseItems(w) ==
  /\ job[w].pc = "CANCEL"
  /\ earning' = Released(job[w].seen)
  /\ adjustment' = Voided(job[w].seen \union ItemsOf(job[w].payout))
  /\ job' = [job EXCEPT ![w].pc = "SYNC", ![w].seen = {}]
  /\ UNCHANGED <<item, payout, batch, outside, crashes>>

SyncBatch(w) ==
  LET p == job[w].payout IN
  /\ job[w].pc = "SYNC"
  /\ batch' = [batch EXCEPT ![p] = BatchOf(payout[p].status)]
  /\ job' = [job EXCEPT ![w] = Idle]
  /\ UNCHANGED <<earning, item, payout, adjustment, outside, crashes>>

DispatchDuePayouts(w) ==
  \/ ListStale(w) \/ RecoverStale(w)
  \/ \E p \in Payouts : Claim(w, p)
  \/ Answer(w) \/ SaveSent(w) \/ SaveFailed(w)
  \/ ListItems(w) \/ ReleaseItems(w) \/ SyncBatch(w)

Die(w) ==
  /\ job[w].pc # "IDLE" /\ crashes < MaxCrashes
  /\ job' = [job EXCEPT ![w] = Idle]
  /\ crashes' = crashes + 1
  /\ UNCHANGED <<books, outside>>

-----------------------------------------------------------------------------
(* The bank's service and its settlement files.                            *)

BankPays(p) ==
  /\ bank[p].state = "ASKED"
  /\ bank' = [bank EXCEPT ![p].state = "PAID"]
  /\ UNCHANGED <<books, job, statement, crashes>>

BankRefuses(p) ==
  /\ bank[p].state = "ASKED" \/ (bank[p].state = "NONE" /\ payout[p].status = "SENT")
  /\ bank' = [bank EXCEPT ![p].state = "REFUSED"]
  /\ UNCHANGED <<books, job, statement, crashes>>

(* A line of a settlement file that names the payout and its amount.       *)
StatementLine(p) ==
  /\ bank[p].state = "PAID" /\ bank[p].amount = payout[p].amount
  /\ statement[p] = "NONE"
  /\ statement' = [statement EXCEPT ![p] = "LINE"]
  /\ UNCHANGED <<books, job, bank, crashes>>

-----------------------------------------------------------------------------
(* How a payout is confirmed, or found to have failed.                     *)

ConfirmedAll(p) ==
  /\ payout' = [payout EXCEPT ![p] = [@ EXCEPT !.status = "CONFIRMED", !.syncs = 0]]
  /\ earning' = [e \in Earnings |->
       IF earning[e].status = "IN_PAYOUT"
       THEN [earning[e] EXCEPT !.status = "PAID"] ELSE earning[e]]
  /\ batch' = [batch EXCEPT ![p] = "CONFIRMED"]
  /\ UNCHANGED <<item, adjustment>>

Confirmed(p) ==
  /\ payout' = [payout EXCEPT ![p] = [@ EXCEPT !.status = "CONFIRMED", !.syncs = 0]]
  /\ earning' = [e \in Earnings |->
       IF e \in ItemsOf(p) /\ earning[e].status # "REVERSED"
       THEN [earning[e] EXCEPT !.status = "PAID"] ELSE earning[e]]
  /\ batch' = [batch EXCEPT ![p] = "CONFIRMED"]
  /\ UNCHANGED <<item, adjustment>>

(* An operator confirms a transfer that the bank shows.                    *)
ConfirmManually(p) ==
  /\ payout[p].status = "SENT" /\ bank[p].state = "PAID"
  /\ Confirmed(p)
  /\ UNCHANGED <<job, outside, crashes>>

(* process_settlement_record, for a row of a payout: it also confirms a    *)
(* payout that was given up, as long as that still holds its items.        *)
LineOf(p) == statement[p] = "LINE" /\ bank[p].amount = payout[p].amount

SettlePayout(p) ==
  /\ LineOf(p)
  /\ \/ /\ payout[p].status = "SENT" \/ (payout[p].status = "FAILED" /\ ItemsOf(p) # {})
        /\ Confirmed(p)
     \/ payout[p].status = "CONFIRMED" /\ UNCHANGED books
  /\ statement' = [statement EXCEPT ![p] = "SETTLED"]
  /\ UNCHANGED <<job, bank, crashes>>

(* sync_sent_payout_statuses, one payout.                                  *)
Askable(p) == payout[p].status = "SENT" /\ payout[p].syncs < MaxSyncs
Proof(p) == statement[p] # "NONE" /\ bank[p].amount = payout[p].amount

StatusAnswer(answer, state) ==
  CASE answer = "PAID" -> state = "PAID"
    [] answer = "REFUSED" -> state = "REFUSED"
    [] answer = "ERROR" -> StatusErrors
    [] OTHER -> TRUE

(* Is this the definite end of the payout, or a case for review?           *)
DefiniteIfMissing(p, answer) == answer \in {"REFUSED", "ITEM_MISSING"}

Definite(p, answer) == answer \in {"REFUSED", "ERROR"} /\ ~Proof(p)

SyncConfirms(p) ==
  /\ Askable(p) /\ StatusAnswer("PAID", bank[p].state)
  /\ Confirmed(p)
  /\ UNCHANGED <<job, outside, crashes>>

SyncWaits(p) ==
  \E answer \in StatusAnswers \ {"PAID"} :
    /\ Askable(p) /\ StatusAnswer(answer, bank[p].state) /\ ~Definite(p, answer)
    /\ payout' = [payout EXCEPT ![p].syncs = @ + 1]
    /\ UNCHANGED <<earning, item, batch, adjustment, job, outside, crashes>>

SyncFails(p) ==
  \E answer \in StatusAnswers \ {"PAID"} :
    /\ Askable(p) /\ StatusAnswer(answer, bank[p].state) /\ Definite(p, answer)
    /\ payout' = [payout EXCEPT ![p].status = "FAILED", ![p].syncs = @ + 1]
    /\ earning' = Released(InPayout(p))
    /\ adjustment' = Voided(ItemsOf(p))
    /\ batch' = [batch EXCEPT ![p] = "FAILED"]
    /\ UNCHANGED <<item, job, outside, crashes>>

SyncSentPayoutStatuses(p) == SyncConfirms(p) \/ SyncWaits(p) \/ SyncFails(p)

Next ==
  \/ EligibilitySweep \/ CreateBatch
  \/ \E e \in Earnings : CreateEarning(e)
  \/ \E e \in Earnings, k \in Reversals : OpsOrderRefund(k, e) \/ OpsChargeback(k, e)
  \/ \E w \in Workers : DispatchDuePayouts(w) \/ Authorise(w) \/ Die(w)
  \/ \E p \in Payouts :
       \/ BankPays(p) \/ BankRefuses(p) \/ StatementLine(p)
       \/ ConfirmManually(p) \/ SettlePayout(p)
       \/ SyncSentPayoutStatuses(p)

Spec == Init /\ [][Next]_vars

-----------------------------------------------------------------------------
(* Properties.                                                             *)

Transfers(e) == {p \in Payouts : e \in bank[p].covers /\ bank[p].state \in {"ASKED", "PAID"}}

(* An earning that is owed is in no transfer that may still be paid, and   *)
(* none is in two of them.                                                 *)
NeverPaidTwice ==
  \A e \in Earnings :
     /\ Cardinality(Transfers(e)) <= 1
     /\ earning[e].status \in {"PENDING", "ELIGIBLE"} => Transfers(e) = {}

(* What is called paid was paid by the bank.                               *)
PaidByTheBank ==
  /\ \A p \in Payouts : payout[p].status = "CONFIRMED" => bank[p].state = "PAID"
  /\ \A e \in Earnings :
       earning[e].status = "PAID" => \E p \in Transfers(e) : bank[p].state = "PAID"

(* From its claim on, neither the amount nor the items of a payout change. *)
WithTheBank(p) == payout[p].status \in {"DISPATCHING", "SENT", "CONFIRMED"}

DispatchedIsFrozen ==
  [][\A p \in Payouts : WithTheBank(p) =>
        payout'[p].amount = payout[p].amount /\ \A e \in ItemsOf(p) : item'[e] = item[e]]_vars

(* A payout that was not given up, or that the bank may still pay, is the   *)
(* sum of its items less the refunds that were carried over to it.         *)
TotalInItems(S) == SumFunctionOnSet([e \in Earnings |-> item[e].amount], S)
DeductedFrom(S) == {k \in Reversals : adjustment[k].payout \in S}
Sent == {p \in Payouts : bank[p].state \in {"ASKED", "PAID"}}

PayoutsAddUp ==
  \A p \in Payouts : payout[p].status # "NONE" /\ (p \in Sent \/ ~Dead(p)) =>
     payout[p].amount + TotalAdjusted(DeductedFrom({p})) = TotalInItems(ItemsOf(p))

(* What the bank was asked to pay for the payouts in P, with what was       *)
(* deducted from those; and what the earnings in them are worth now, with  *)
(* what is carried over for these.                                         *)
EarningsIn(P) == {e \in Earnings : item[e].payout \in P}
CarriedFor(S) ==
  {k \in Reversals : adjustment[k].status \in {"PENDING", "APPLIED"} /\ adjustment[k].earning \in S}
Asked(P) ==
  SumFunctionOnSet([p \in Payouts |-> bank[p].amount], P) + TotalAdjusted(DeductedFrom(P))
Earned(P) == TotalOutstanding(EarningsIn(P)) + TotalAdjusted(CarriedFor(EarningsIn(P)))

(* The books gave the payout up, not knowing that the bank was asked for   *)
(* it, and a refund has shrunk it since: what the bank pays too much is    *)
(* carried nowhere.                                                        *)
ShrunkUnawares(p) == Dead(p) /\ payout[p].amount # bank[p].amount
AsAsked == {p \in Sent : ~ShrunkUnawares(p)}

(* Outside that one case, the bank is never asked to pay a business more   *)
(* than it earned: no refund is forgotten.                                 *)
SentIsEarned == Asked(AsAsked) <= Earned(AsAsked)

(* Nor less.  docs/refund_reversal_chargeback_runbook.md:139-140: a refund *)
(* is carried over because the business has been paid, and is deducted     *)
(* from its next payout.                                                   *)
BooksBalance == Asked(AsAsked) = Earned(AsAsked)

(* RUNBOOK.md:155: a payout item is shrunk before dispatch; after it, a    *)
(* refund is carried over.  The one case is then no exception.             *)
AllSentIsEarned == Asked(Sent) <= Earned(Sent)

(* What verify_financial_integrity and reconcile_business report of these  *)
(* tables.                                                                 *)
ItemSumMismatch(p) == TotalInItems(ItemsOf(p)) # payout[p].amount
ItemExceedsEarning(p) ==
  payout[p].status \in {"CREATED", "FAILED", "CANCELLED"}
  /\ \E e \in ItemsOf(p) : item[e].amount > Outstanding(e)
ReversedOverNet(e) == earning[e].reversed > Net[e]
AppliedToNothing(k) == adjustment[k].status = "APPLIED" /\ adjustment[k].payout = NoPayout
LinkedButPending(k) == adjustment[k].status = "PENDING" /\ adjustment[k].payout # NoPayout
FailedWithProof(p) == payout[p].status = "FAILED" /\ Proof(p)
Unidentified(p) == payout[p].status = "SENT" /\ payout[p].providerId # "ID"
ConfirmedUnpaid(p) ==
  payout[p].status = "CONFIRMED" /\ \E e \in ItemsOf(p) : earning[e].status # "PAID"
SettledOtherwise(p) == statement[p] = "SETTLED" /\ bank[p].amount # payout[p].amount

Issues ==
  {p \in Payouts :
     \/ ItemSumMismatch(p) \/ ItemExceedsEarning(p) \/ FailedWithProof(p)
     \/ Unidentified(p) \/ ConfirmedUnpaid(p) \/ SettledOtherwise(p)}
    \union {e \in Earnings : ReversedOverNet(e)}
AdjustmentIssues == {k \in Reversals : AppliedToNothing(k) \/ LinkedButPending(k)}

(* GO_LIVE_CHECKLIST.md:25 wants a clean report; while no payout has       *)
(* failed, nothing is wrong with the books.                                *)
CleanReport ==
  (\A p \in Payouts : ~Dead(p)) => Issues = {} /\ AdjustmentIssues = {}

(* RUNBOOK.md:110: only definitive provider failures return earnings to    *)
(* ELIGIBLE.                                                               *)
OnlyDefiniteFailuresRelease ==
  [][\A e \in Earnings :
        earning[e].status = "IN_PAYOUT" /\ earning'[e].status = "ELIGIBLE" => Transfers(e) = {}]_vars
=============================================================================
