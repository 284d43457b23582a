------------------------------- MODULE TopUps -------------------------------
(***************************************************************************)
(* Wallet top-ups: payment intents, the provider's webhooks and callbacks, *)
(* settlement records, reversals and their manual review, and the two      *)
(* pools of the wallet they post to.                                       *)
(*                                                                         *)
(* Every operation below runs in one database transaction that locks the   *)
(* intent (or the settlement record, then the intent) and the wallet, so   *)
(* it is one action; what interleaves is whole operations, in any order,   *)
(* late, repeated or never.  An operation that raises leaves nothing of    *)
(* what is modelled here behind, and is not an action.  The import of      *)
(* settlement files and the retry job are in module Settlements.           *)
(***************************************************************************)
EXTENDS Integers, FiniteSets, FiniteSetsExt

CONSTANTS
  Customers, Intents,
  Owner,         \* Owner[i]: the customer of intent i
  Amount,        \* Amount[i]: what the customer pays
  Manual,        \* the intents paid by bank transfer (provider MOCK)
  Events,        \* the webhooks providers may send: [via, intent, kind, amount], amount 0: none given
  OpsKeys,       \* the idempotency keys operators use for reversals
  Records        \* settlement rows: [intent, by, amount], by: how the row names it

(* What the provider answers about a payment, and what a webhook reports.  *)
Terminal == {"SUCCESS", "FAILURE", "CANCELLED"}
Answers == Terminal \union {"OTHER"}
Kinds == Answers \union {"REVERSAL"}

ASSUME TopUpConstants ==
  /\ Intents # {}
  /\ IsFiniteSet(Intents) /\ IsFiniteSet(Events) /\ IsFiniteSet(OpsKeys)
  /\ Owner \in [Intents -> Customers]
  /\ Amount \in [Intents -> Nat \ {0}]
  /\ Manual \subseteq Intents
  /\ Events \subseteq [via: {"MOCK", "IYZICO"}, intent: Intents, kind: Kinds, amount: Nat]
  /\ OpsKeys \intersect Events = {}
  /\ Records \subseteq [intent: Intents, by: {"CONVERSATION", "PAYMENT_ID"}, amount: Nat \ {0}]

VARIABLES
  intent,        \* intent[i]: the payment intent's row
  wallet,        \* wallet[c]: the wallet's row
  credited,      \* the intents with a TOPUP_PENDING ledger row
  direct,        \* the intents paid straight to the available balance
  spent,         \* spent[c]: paid for orders, less refunds
  delivered,     \* the webhooks recorded as provider events
  called,        \* the intents whose callback event is processed
  rev,           \* rev[k]: the reversal made under key k
  reversedTotal, \* reversedTotal[i]: sum of the amounts of i's APPLIED reversals
  record         \* record[r]: the state of the settlement record

vars == <<intent, wallet, credited, direct, spent, delivered, called, rev,
          reversedTotal, record>>
moneyVars == <<wallet, credited, direct, spent>>
reversalVars == <<rev, reversedTotal>>

IntentStatus == {"NONE", "INITIATED", "PAID", "FAILED", "CANCELLED"}
Keys == Events \union OpsKeys
NoReversal == [state |-> "NONE", intent |-> CHOOSE i \in Intents : TRUE, amount |-> 0, outstanding |-> 0]

TypeOK ==
  /\ intent \in [Intents -> [status: IntentStatus, processed: BOOLEAN,
                             settled: BOOLEAN, paymentId: BOOLEAN]]
  /\ wallet \in [Customers -> [pending: Nat, balance: Nat, active: BOOLEAN]]
  /\ credited \subseteq Intents
  /\ direct \subseteq Intents
  /\ spent \in [Customers -> Nat]
  /\ delivered \subseteq Events
  /\ called \subseteq Intents
  /\ rev \in [Keys -> [state: {"NONE", "OPEN", "APPLIED"}, intent: Intents,
                       amount: Nat, outstanding: Nat]]
  /\ reversedTotal \in [Intents -> Nat]
  /\ record \in [Records -> {"NONE", "OPEN", "PROCESSED"}]

NoIntent == [status |-> "NONE", processed |-> FALSE, settled |-> FALSE, paymentId |-> FALSE]
NewWallet == [pending |-> 0, balance |-> 0, active |-> TRUE]

Init ==
  /\ intent = [i \in Intents |-> NoIntent]
  /\ wallet = [c \in Customers |-> NewWallet]
  /\ credited = {} /\ direct = {}
  /\ spent = [c \in Customers |-> 0]
  /\ delivered = {} /\ called = {}
  /\ rev = [k \in Keys |-> NoReversal]
  /\ reversedTotal = [i \in Intents |-> 0]
  /\ record = [r \in Records |-> "NONE"]

-----------------------------------------------------------------------------
(* The wallet.                                                             *)

Operable(c) == wallet[c].active

(* A row in the ledger of waiting or of available money moves the balance  *)
(* by its amount.                                                          *)
PostPending(c, n) == [wallet EXCEPT ![c].pending = @ + n]
Post(c, n) == [wallet EXCEPT ![c].balance = @ + n]

CreditPendingAgain(i) ==
  /\ Operable(Owner[i])
  /\ credited' = credited \union {i}
  /\ wallet' = PostPending(Owner[i], Amount[i])

(* WalletService.topup_pending: once per intent.                           *)
CreditPending(i) ==
  /\ Operable(Owner[i])
  /\ credited' = credited \union {i}
  /\ wallet' = IF i \in credited THEN wallet ELSE PostPending(Owner[i], Amount[i])

(* WalletService.topup: straight to the balance, restricted wallet or not. *)
CreditBalance(i) ==
  /\ direct' = direct \union {i}
  /\ wallet' = Post(Owner[i], Amount[i])

(* WalletService.settle_pending_to_available: the pool must cover it.      *)
SettleableUnchecked(i) == Operable(Owner[i])
Settleable(i) == Operable(Owner[i]) /\ wallet[Owner[i]].pending >= Amount[i]

SettledWallet(i) ==
  [wallet EXCEPT ![Owner[i]].pending = @ - Amount[i], ![Owner[i]].balance = @ + Amount[i]]

(* WalletService.reverse_topup_payment_intent: n is taken from the pending *)
(* pool, then from the balance; what neither covers restricts the wallet.  *)
Lesser(a, b) == IF a <= b THEN a ELSE b
FromPending(c, n) == Lesser(wallet[c].pending, n)
FromBalance(c, n) == Lesser(wallet[c].balance, n - FromPending(c, n))
Uncovered(c, n) == n - FromPending(c, n) - FromBalance(c, n)

WalletAfterReversalHeld(c, n, active) ==
  [wallet EXCEPT ![c] = [pending |-> @.pending - FromPending(c, n),
                         balance |-> @.balance - FromBalance(c, n),
                         active  |-> @.active /\ active]]

WalletAfterReversal(c, n, active) ==
  [wallet EXCEPT ![c] = [pending |-> @.pending - FromPending(c, n),
                         balance |-> @.balance - FromBalance(c, n),
                         active  |-> active]]

Purchase(c) ==
  /\ Operable(c)
  /\ \E n \in 1..wallet[c].balance :
       /\ wallet' = Post(c, -n)
       /\ spent' = [spent EXCEPT ![c] = @ + n]
  /\ UNCHANGED <<intent, credited, direct, delivered, called, reversalVars, record>>

Refund(c) ==
  /\ Operable(c)
  /\ \E n \in 1..spent[c] :
       /\ wallet' = Post(c, n)
       /\ spent' = [spent EXCEPT ![c] = @ - n]
  /\ UNCHANGED <<intent, credited, direct, delivered, called, reversalVars, record>>

-----------------------------------------------------------------------------
(* Payment intents.                                                        *)

NewIntent(i) == [intent EXCEPT ![i].status = "INITIATED"]

(* A customer asks for a top-up; the same request sent again is answered   *)
(* from its idempotency record.  When the payment page cannot be opened    *)
(* the intent is rolled back.                                              *)
CreateTopup(i) ==
  /\ intent[i].status = "NONE"
  /\ intent' = NewIntent(i)
  /\ UNCHANGED <<moneyVars, delivered, called, reversalVars, record>>

(* mark_intent_terminal: the last answer wins, also over an earlier PAID.  *)
MarkTerminal(i, status) ==
  intent' = [intent EXCEPT ![i] = [status |-> status, processed |-> (status = "PAID"),
                                   settled |-> @.settled, paymentId |-> TRUE]]

(* apply_topup_terminal_event.                                             *)
AlreadyProcessed(i, answer) ==
  /\ answer = "SUCCESS" /\ intent[i].processed
  /\ UNCHANGED <<intent, moneyVars>>

Succeeds(i, answer) ==
  /\ answer = "SUCCESS" /\ ~intent[i].processed
  /\ CreditPending(i)
  /\ MarkTerminal(i, "PAID")
  /\ UNCHANGED <<direct, spent>>

Fails(i, answer) ==
  /\ answer \in {"FAILURE", "CANCELLED"}
  /\ MarkTerminal(i, IF answer = "FAILURE" THEN "FAILED" ELSE "CANCELLED")
  /\ UNCHANGED moneyVars

Ignored(answer) ==
  /\ answer \notin Terminal
  /\ UNCHANGED <<intent, moneyVars>>

TerminalEvent(i, answer) ==
  \/ AlreadyProcessed(i, answer)
  \/ Succeeds(i, answer)
  \/ Fails(i, answer)
  \/ Ignored(answer)

(* Each webhook leaves one event row, by which a repeated one is           *)
(* recognised; one that is refused is rolled back with its row, and may be *)
(* sent again.                                                             *)
Deliver(e) == e \notin delivered /\ delivered' = delivered \union {e}

(* A webhook finds its intent by its id, its conversation or its payment.  *)
Resolved(i) == intent[i].status # "NONE"

PaymentEvent(e) ==
  /\ Resolved(e.intent)
  /\ TerminalEvent(e.intent, e.kind)
  /\ UNCHANGED <<called, reversalVars, record>>

(* The browser comes back from the payment page and the code asks the      *)
(* provider: there is one callback event per intent, whatever the answer.  *)
FinalizeTopup(i, answer) ==
  /\ i \notin Manual /\ i \notin called
  /\ Resolved(i)
  /\ TerminalEvent(i, answer)
  /\ called' = called \union {i}
  /\ UNCHANGED <<delivered, reversalVars, record>>

(* An operator has seen the bank transfer arrive.                          *)
Confirmable(i) == i \in Manual /\ intent[i].status \in {"INITIATED", "PAID"}

ConfirmManualTopup(i) ==
  /\ Confirmable(i)
  /\ ~intent[i].settled
  /\ CreditBalance(i)
  /\ intent' = [intent EXCEPT ![i] = [status |-> "PAID", processed |-> TRUE,
                                      settled |-> TRUE, paymentId |-> TRUE]]
  /\ UNCHANGED <<credited, spent, delivered, called, reversalVars, record>>

ReconfirmManualTopup(i) ==
  /\ Confirmable(i)
  /\ intent[i].settled
  /\ intent' = [intent EXCEPT ![i] = [status |-> "PAID", processed |-> TRUE,
                                      settled |-> TRUE, paymentId |-> @.paymentId]]
  /\ UNCHANGED <<moneyVars, delivered, called, reversalVars, record>>

OpsManualTopupConfirm(i) == ConfirmManualTopup(i) \/ ReconfirmManualTopup(i)

-----------------------------------------------------------------------------
(* Reversals.                                                              *)

ReversibleOnce(i, n) == intent[i].status = "PAID" /\ n \in 1..Amount[i]
Reversible(i, n) == intent[i].status = "PAID" /\ n >= 1 /\ reversedTotal[i] + n <= Amount[i]

(* A reversal is found again by its idempotency key or provider event.     *)
Fresh(k) == rev[k].state = "NONE"

(* apply_topup_reversal under a key not used before; a reversal that the   *)
(* wallet cannot cover stays REQUESTED, under review.                      *)
ApplyReversal(k, i, n) ==
  LET c == Owner[i]
      rest == Uncovered(c, n)
  IN
  /\ Fresh(k)
  /\ Reversible(i, n)
  /\ Operable(c)
  /\ wallet' = WalletAfterReversal(c, n, rest = 0)
  /\ rev' = [rev EXCEPT ![k] = [state |-> IF rest = 0 THEN "APPLIED" ELSE "OPEN",
                                intent |-> i, amount |-> n, outstanding |-> rest]]
  /\ reversedTotal' = IF rest = 0 THEN [reversedTotal EXCEPT ![i] = @ + n] ELSE reversedTotal

(* The mock provider must name the amount; iyzico may leave it out and     *)
(* mean all of it.                                                         *)
ReversalAmount(e) ==
  IF e.via = "IYZICO" /\ e.amount = 0 THEN Amount[e.intent] ELSE e.amount

ReversalEvent(e) ==
  /\ Resolved(e.intent)
  /\ ApplyReversal(e, e.intent, ReversalAmount(e))
  /\ UNCHANGED <<intent, credited, direct, spent, called, record>>

(* The mock provider reports payments and reversals (of another event only *)
(* the row is kept); iyzico also reports that a payment did not succeed.   *)
ProviderWebhook(e) ==
  /\ e.via = "MOCK" /\ Deliver(e)
  /\ \/ e.kind = "SUCCESS" /\ PaymentEvent(e)
     \/ e.kind = "REVERSAL" /\ ReversalEvent(e)

IyzicoWebhook(e) ==
  /\ e.via = "IYZICO" /\ Deliver(e)
  /\ \/ e.kind # "REVERSAL" /\ PaymentEvent(e)
     \/ e.kind = "REVERSAL" /\ ReversalEvent(e)

OpsTopupReversal(k, i) ==
  /\ \E n \in 1..Amount[i] : ApplyReversal(k, i, n)
  /\ UNCHANGED <<intent, credited, direct, spent, delivered, called, record>>

UnderReview(c) == {k \in Keys : rev[k].state = "OPEN" /\ Owner[rev[k].intent] = c}

(* resolve_manual_review: take what has come in since; the wallet is       *)
(* released when nothing of this customer is under review any more.        *)
ResolveReview(k) ==
  LET i == rev[k].intent
      c == Owner[i]
      rest == Uncovered(c, rev[k].outstanding)
      free == IF rest > 0 THEN FALSE
              ELSE wallet[c].active \/ UnderReview(c) = {k}
  IN
  /\ rev[k].state = "OPEN"
  /\ wallet' = WalletAfterReversal(c, rev[k].outstanding, free)
  /\ rev' = [rev EXCEPT ![k] = [state |-> IF rest = 0 THEN "APPLIED" ELSE "OPEN",
                                intent |-> i, amount |-> @.amount, outstanding |-> rest]]
  /\ reversedTotal' = IF rest = 0 THEN [reversedTotal EXCEPT ![i] = @ + rev[k].amount]
                                  ELSE reversedTotal
  /\ UNCHANGED <<intent, credited, direct, spent, delivered, called, record>>

-----------------------------------------------------------------------------
(* Settlement rows.                                                        *)

(* A row finds its intent by the conversation it was paid in, or by the    *)
(* payment id, which the intent learns from the provider's first answer.   *)
Matched(r) ==
  IF r.by = "CONVERSATION" THEN intent[r.intent].status # "NONE"
                               ELSE intent[r.intent].paymentId

HasDuplicate(r) ==
  \E q \in Records \ {r} : record[q] = "PROCESSED" /\ q.intent = r.intent

ApplicableTwice(r) ==
  /\ Matched(r)
  /\ intent[r.intent].status = "PAID" /\ intent[r.intent].processed
  /\ r.amount = Amount[r.intent]

(* What process_settlement_record asks of the intent before it settles; a  *)
(* record that fails stays open for review.                                *)
Applicable(r) ==
  /\ Matched(r) /\ ~HasDuplicate(r)
  /\ intent[r.intent].status = "PAID" /\ intent[r.intent].processed
  /\ r.amount = Amount[r.intent]

RecordRow(r) ==
  /\ record[r] = "NONE"
  /\ record' = [record EXCEPT ![r] = "OPEN"]
  /\ UNCHANGED <<intent, moneyVars, delivered, called, reversalVars>>

(* settle_intent_from_provider: an intent that is settled already only     *)
(* closes the record.                                                      *)
ProcessRecord(r) ==
  LET i == r.intent IN
  /\ record[r] = "OPEN" /\ Applicable(r)
  /\ intent[i].settled \/ Settleable(i)
  /\ wallet' = IF intent[i].settled THEN wallet ELSE SettledWallet(i)
  /\ intent' = [intent EXCEPT ![i].settled = TRUE]
  /\ record' = [record EXCEPT ![r] = "PROCESSED"]
  /\ UNCHANGED <<credited, direct, spent, delivered, called, reversalVars>>

Next ==
  \/ \E c \in Customers : Purchase(c) \/ Refund(c)
  \/ \E i \in Intents :
       \/ CreateTopup(i) \/ OpsManualTopupConfirm(i)
       \/ \E answer \in Answers : FinalizeTopup(i, answer)
       \/ \E k \in OpsKeys : OpsTopupReversal(k, i)
  \/ \E e \in Events : ProviderWebhook(e) \/ IyzicoWebhook(e)
  \/ \E k \in Keys : ResolveReview(k)
  \/ \E r \in Records : RecordRow(r) \/ ProcessRecord(r)

Spec == Init /\ [][Next]_vars

-----------------------------------------------------------------------------
(* Properties.                                                             *)

(* No money appears or disappears: what customer c paid in is waiting, is  *)
(* available, was spent, or was taken back by the provider.                *)
Paid(S, c) == SumFunction([i \in {i \in S : Owner[i] = c} |-> Amount[i]])
PaidIn(c) == Paid(credited, c) + Paid(direct, c)

Reversals(c) == {k \in Keys : rev[k].state # "NONE" /\ Owner[rev[k].intent] = c}
TakenBack(c) == SumFunction([k \in Reversals(c) |-> rev[k].amount - rev[k].outstanding])

MoneyConserved ==
  \A c \in Customers :
     wallet[c].pending + wallet[c].balance + spent[c] + TakenBack(c) = PaidIn(c)

(* A wallet is restricted exactly while a reversal that it could not cover *)
(* is under review: neither does a review lose its hold on the wallet, nor *)
(* does a wallet stay restricted when the last exposure is recovered.      *)
RestrictedWhileUnderReview ==
  \A c \in Customers : ~wallet[c].active <=> UnderReview(c) # {}

(* A settlement row is closed only when its intent's money is available,   *)
(* and one row at most closes on an intent.                                *)
RowsSettleOnce ==
  \A r \in Records :
     record[r] = "PROCESSED" =>
        /\ intent[r.intent].settled
        /\ r.intent \in credited \union direct
        /\ ~HasDuplicate(r)

(* Where a top-up stands.  Confirming a bank transfer by hand marks it     *)
(* settled, so what the provider has credited besides waits for ever.      *)
Money ==
  [i \in Intents |-> IF i \notin credited THEN "NONE"
                     ELSE IF intent[i].settled /\ i \notin direct THEN "AVAILABLE"
                     ELSE "PENDING"]

ByHand == [i \in Intents |-> i \in direct]

OpenClaims(i) == {k \in Keys : rev[k].state = "OPEN" /\ rev[k].intent = i}

Claimed ==
  [i \in Intents |-> reversedTotal[i] +
     IF OpenClaims(i) = {} THEN 0 ELSE rev[CHOOSE k \in OpenClaims(i) : TRUE].amount]

(* Confirmations, webhooks, reversals and settlements keep the promise     *)
(* about each top-up, in any order: the provider's payment is credited and *)
(* settled once, an operator's confirmation credits once and only what is  *)
(* not settled, and no more is taken back than was paid once.              *)
Promise == INSTANCE TopUpPromise WITH money <- Money, byHand <- ByHand, claimed <- Claimed

KeepsTopUpPromise == Promise!Spec

-----------------------------------------------------------------------------
(* What the repository says of the program and the code does not do.       *)

(* A confirmation by hand credits the wallet once                          *)
(* (payments/tests/test_manual_topup_flow.py:61, "credits_wallet_once").   *)
(* It looks for a TOP_UP row of the ledger and for is_settled, and finds   *)
(* nothing when a payment webhook has credited the waiting money.          *)
CreditedOnce == credited \intersect direct = {}
=============================================================================
