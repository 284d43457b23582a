---------------------------- MODULE TopUpsProofs ----------------------------
(* Proofs about TopUps, for any customers, intents, webhooks and rows.     *)
EXTENDS TopUps, SumTheorems, TLAPS

(* A wallet under review is restricted, and while it is, nothing else can  *)
(* be taken back: so a customer has one open review at most, and what is   *)
(* claimed of an intent, under review or not, was paid.                    *)
OneReview ==
  \A j, k \in Keys :
     rev[j].state = "OPEN" /\ rev[k].state = "OPEN" /\ Owner[rev[j].intent] = Owner[rev[k].intent]
     => j = k

ClaimsFit ==
  /\ \A i \in Intents : reversedTotal[i] <= Amount[i]
  /\ \A k \in Keys :
       rev[k].state = "OPEN" =>
         /\ rev[k].outstanding \in 1..rev[k].amount
         /\ reversedTotal[rev[k].intent] + rev[k].amount <= Amount[rev[k].intent]

CameIn ==
  /\ \A i \in Intents :
       /\ intent[i].processed <=> intent[i].status = "PAID"
       /\ intent[i].processed \/ intent[i].settled => i \in credited \union direct
       /\ i \in direct => intent[i].settled

RowsClosed ==
  \A r \in Records :
     record[r] = "PROCESSED" => intent[r.intent].settled /\ ~HasDuplicate(r)

Inv ==
  /\ TypeOK
  /\ RestrictedWhileUnderReview
  /\ OneReview
  /\ ClaimsFit
  /\ CameIn
  /\ RowsClosed

-----------------------------------------------------------------------------
(* What a reversal takes.                                                  *)
LEMMA Split ==
  ASSUME TypeOK, NEW c \in Customers, NEW n \in Nat
  PROVE  /\ FromPending(c, n) \in 0..wallet[c].pending
         /\ FromBalance(c, n) \in 0..wallet[c].balance
         /\ Uncovered(c, n) \in 0..n
<1>1. wallet[c].pending \in Nat /\ wallet[c].balance \in Nat
  BY DEF TypeOK
<1>2. FromPending(c, n) \in 0..wallet[c].pending /\ FromPending(c, n) <= n
  BY <1>1 DEF FromPending, Lesser
<1>3. FromBalance(c, n) \in 0..wallet[c].balance /\ FromBalance(c, n) <= n - FromPending(c, n)
  BY <1>1, <1>2 DEF FromBalance, Lesser
<1> QED BY <1>1, <1>2, <1>3 DEF Uncovered

LEMMA SplitWallet ==
  ASSUME TypeOK, NEW c \in Customers, NEW n \in Nat, NEW active \in BOOLEAN
  PROVE  /\ WalletAfterReversal(c, n, active)
              \in [Customers -> [pending: Nat, balance: Nat, active: BOOLEAN]]
         /\ WalletAfterReversal(c, n, active)[c].active = active
         /\ \A d \in Customers \ {c} : WalletAfterReversal(c, n, active)[d] = wallet[d]
<1> DEFINE p == FromPending(c, n)
           q == FromBalance(c, n)
<1>1. p \in 0..wallet[c].pending /\ q \in 0..wallet[c].balance
  BY Split
<1>2. wallet \in [Customers -> [pending: Nat, balance: Nat, active: BOOLEAN]]
  BY DEF TypeOK
<1>3. wallet[c].pending - p \in Nat /\ wallet[c].balance - q \in Nat
  BY <1>1, <1>2
<1>4. WalletAfterReversal(c, n, active)
        = [wallet EXCEPT ![c] = [pending |-> wallet[c].pending - p,
                                 balance |-> wallet[c].balance - q, active |-> active]]
  BY DEF WalletAfterReversal
<1> HIDE DEF p, q
<1> QED BY <1>2, <1>3, <1>4

(* The money a customer pays in.                                           *)
LEMMA OwnerTypes == /\ \A i \in Intents : Owner[i] \in Customers /\ Amount[i] \in Nat /\ Amount[i] >= 1
                    /\ \A r \in Records : r.intent \in Intents
                    /\ \A e \in Events : e \in Keys /\ e.intent \in Intents /\ e.amount \in Nat
  BY TopUpConstants DEF Keys

-----------------------------------------------------------------------------
LEMMA InvInit == Init => Inv
<1> SUFFICES ASSUME Init PROVE Inv
  OBVIOUS
<1>0. (CHOOSE i \in Intents : TRUE) \in Intents
  BY TopUpConstants
<1>1. \A k \in Keys : rev[k].state = "NONE"
  BY DEF Init, NoReversal
<1>2. TypeOK
  BY <1>0 DEF Init, TypeOK, IntentStatus, NoReversal, NoIntent, NewWallet
<1>3. RestrictedWhileUnderReview
  BY <1>1 DEF Init, RestrictedWhileUnderReview, UnderReview, NewWallet
<1>4. OneReview
  BY <1>1 DEF OneReview
<1>5. ClaimsFit
  BY <1>1, OwnerTypes DEF ClaimsFit, Init
<1>6. CameIn
  BY DEF CameIn, Init, NoIntent
<1>7. RowsClosed
  BY DEF RowsClosed, Init
<1> QED BY <1>2, <1>3, <1>4, <1>5, <1>6, <1>7 DEF Inv

(* Steps that leave the reversals alone keep what is said of them as long  *)
(* as they leave the restriction of the wallets alone.                     *)
LEMMA ReviewsKept ==
  ASSUME Inv, UNCHANGED reversalVars,
         \A c \in Customers : wallet'[c].active = wallet[c].active
  PROVE  RestrictedWhileUnderReview' /\ OneReview' /\ ClaimsFit'
  BY DEF Inv, reversalVars, RestrictedWhileUnderReview, UnderReview, OneReview, ClaimsFit

(* Steps that change the status of at most one intent, and settle at most  *)
(* that one.                                                               *)
LEMMA CreditStep ==
  ASSUME Inv, NEW i \in Intents, CreditPending(i)
  PROVE  /\ wallet' \in [Customers -> [pending: Nat, balance: Nat, active: BOOLEAN]]
         /\ credited' = credited \union {i}
         /\ \A c \in Customers : wallet'[c].active = wallet[c].active
  BY OwnerTypes DEF CreditPending, PostPending, Inv, TypeOK

(* An answer of the provider about intent i.                               *)
LEMMA TerminalStep ==
  ASSUME Inv, NEW i \in Intents, NEW answer, TerminalEvent(i, answer), UNCHANGED <<reversalVars, record>>
  PROVE  /\ intent' \in [Intents -> [status: IntentStatus, processed: BOOLEAN,
                                     settled: BOOLEAN, paymentId: BOOLEAN]]
         /\ wallet' \in [Customers -> [pending: Nat, balance: Nat, active: BOOLEAN]]
         /\ credited' \subseteq Intents /\ direct' = direct /\ spent' = spent
         /\ RestrictedWhileUnderReview' /\ OneReview' /\ ClaimsFit' /\ CameIn' /\ RowsClosed'
<1> USE DEF Inv, TypeOK
<1>1. CASE AlreadyProcessed(i, answer) \/ Ignored(answer)
  <2>1. UNCHANGED <<intent, wallet, credited, direct, spent>>
    BY <1>1 DEF AlreadyProcessed, Ignored, moneyVars
  <2>2. RestrictedWhileUnderReview' /\ OneReview' /\ ClaimsFit'
    BY <2>1, ReviewsKept
  <2>3. CameIn' /\ RowsClosed'
    BY <2>1 DEF CameIn, RowsClosed, HasDuplicate
  <2> QED BY <2>1, <2>2, <2>3
<1>2. CASE Succeeds(i, answer)
  <2>1. /\ intent' = [intent EXCEPT ![i] = [status |-> "PAID", processed |-> TRUE,
                                            settled |-> intent[i].settled, paymentId |-> TRUE]]
        /\ direct' = direct /\ spent' = spent /\ CreditPending(i)
    BY <1>2 DEF Succeeds, MarkTerminal
  <2>2. /\ wallet' \in [Customers -> [pending: Nat, balance: Nat, active: BOOLEAN]]
        /\ credited' = credited \union {i}
        /\ \A c \in Customers : wallet'[c].active = wallet[c].active
    BY <2>1, CreditStep
  <2>3. RestrictedWhileUnderReview' /\ OneReview' /\ ClaimsFit'
    BY <2>2, ReviewsKept
  <2>4. CameIn' /\ RowsClosed'
    BY <2>1, <2>2, OwnerTypes DEF CameIn, RowsClosed, HasDuplicate
  <2>5. intent' \in [Intents -> [status: IntentStatus, processed: BOOLEAN,
                                 settled: BOOLEAN, paymentId: BOOLEAN]]
    BY <2>1 DEF IntentStatus
  <2> QED BY <2>1, <2>2, <2>3, <2>4, <2>5
<1>3. CASE Fails(i, answer)
  <2>1. /\ \E s \in {"FAILED", "CANCELLED"} :
              intent' = [intent EXCEPT ![i] = [status |-> s, processed |-> FALSE,
                                               settled |-> intent[i].settled, paymentId |-> TRUE]]
        /\ UNCHANGED <<wallet, credited, direct, spent>>
    BY <1>3 DEF Fails, MarkTerminal, moneyVars
  <2>2. RestrictedWhileUnderReview' /\ OneReview' /\ ClaimsFit'
    BY <2>1, ReviewsKept
  <2>3. CameIn' /\ RowsClosed'
    BY <2>1, OwnerTypes DEF CameIn, RowsClosed, HasDuplicate
  <2>4. intent' \in [Intents -> [status: IntentStatus, processed: BOOLEAN,
                                 settled: BOOLEAN, paymentId: BOOLEAN]]
    BY <2>1 DEF IntentStatus
  <2> QED BY <2>1, <2>2, <2>3, <2>4
<1> QED BY <1>1, <1>2, <1>3 DEF TerminalEvent

(* A reversal under a fresh key, of an intent that is paid and a wallet    *)
(* that is not restricted.                                                 *)
LEMMA ReversalStep ==
  ASSUME Inv, NEW k \in Keys, NEW i \in Intents, NEW n \in Nat, ApplyReversal(k, i, n)
  PROVE  /\ wallet' \in [Customers -> [pending: Nat, balance: Nat, active: BOOLEAN]]
         /\ rev' \in [Keys -> [state: {"NONE", "OPEN", "APPLIED"}, intent: Intents,
                               amount: Nat, outstanding: Nat]]
         /\ reversedTotal' \in [Intents -> Nat]
         /\ RestrictedWhileUnderReview' /\ OneReview' /\ ClaimsFit'
<1> DEFINE c == Owner[i]
           rest == Uncovered(c, n)
<1>1. c \in Customers /\ Amount[i] \in Nat
  BY OwnerTypes
<1>2. TypeOK /\ rest \in 0..n
  BY <1>1, Split DEF Inv
<1>3. /\ rev[k].state = "NONE" /\ wallet[c].active
      /\ n >= 1 /\ reversedTotal[i] + n <= Amount[i]
      /\ wallet' = WalletAfterReversal(c, n, rest = 0)
      /\ rev' = [rev EXCEPT ![k] = [state |-> IF rest = 0 THEN "APPLIED" ELSE "OPEN",
                                    intent |-> i, amount |-> n, outstanding |-> rest]]
      /\ reversedTotal' = IF rest = 0 THEN [reversedTotal EXCEPT ![i] = @ + n] ELSE reversedTotal
  BY DEF ApplyReversal, Reversible, Operable, Fresh
<1>4. /\ wallet' \in [Customers -> [pending: Nat, balance: Nat, active: BOOLEAN]]
      /\ wallet'[c].active = (rest = 0)
      /\ \A d \in Customers \ {c} : wallet'[d] = wallet[d]
  <2> DEFINE w(active) == WalletAfterReversal(c, n, active)
  <2>1. \A active \in BOOLEAN :
          /\ w(active) \in [Customers -> [pending: Nat, balance: Nat, active: BOOLEAN]]
          /\ w(active)[c].active = active
          /\ \A d \in Customers \ {c} : w(active)[d] = wallet[d]
    BY <1>1, <1>2, SplitWallet
  <2>2. (rest = 0) \in BOOLEAN /\ wallet' = w(rest = 0)
    BY <1>3
  <2> HIDE DEF w, rest
  <2> QED BY <2>1, <2>2
<1>5. UnderReview(c) = {}
  BY <1>1, <1>3 DEF Inv, RestrictedWhileUnderReview
<1> HIDE DEF rest
<1>6. rev' \in [Keys -> [state: {"NONE", "OPEN", "APPLIED"}, intent: Intents,
                         amount: Nat, outstanding: Nat]]
  BY <1>2, <1>3 DEF TypeOK
<1>7. reversedTotal' \in [Intents -> Nat]
  BY <1>2, <1>3 DEF TypeOK
<1>8. \A j \in Keys \ {k} : rev'[j] = rev[j]
  BY <1>2, <1>3 DEF TypeOK
<1>9. /\ rev'[k].state = (IF rest = 0 THEN "APPLIED" ELSE "OPEN")
      /\ rev'[k].intent = i /\ rev'[k].amount = n /\ rev'[k].outstanding = rest
  BY <1>2, <1>3 DEF TypeOK
<1>10. RestrictedWhileUnderReview'
  <2> SUFFICES ASSUME NEW d \in Customers
               PROVE  ~wallet'[d].active <=> UnderReview(d)' # {}
    BY DEF RestrictedWhileUnderReview
  <2>1. ~wallet[d].active <=> UnderReview(d) # {}
    BY DEF Inv, RestrictedWhileUnderReview
  <2>2. UnderReview(d)' = IF d = c /\ rest # 0 THEN UnderReview(d) \union {k} ELSE UnderReview(d)
    BY <1>3, <1>8, <1>9 DEF UnderReview
  <2> QED BY <2>1, <2>2, <1>4, <1>5
<1>11. OneReview'
  <2>1. \A j \in Keys : ~(rev[j].state = "OPEN" /\ Owner[rev[j].intent] = c)
    BY <1>5 DEF UnderReview
  <2> QED BY <2>1, <1>3, <1>8, <1>9 DEF OneReview, Inv
<1>12. ClaimsFit'
  <2>1. \A j \in Keys : rev[j].state = "OPEN" => rev[j].intent # i
    BY <1>5 DEF UnderReview
  <2>2. ASSUME NEW j \in Intents
        PROVE  reversedTotal'[j] <= Amount[j]
    BY <1>1, <1>2, <1>3 DEF Inv, ClaimsFit, TypeOK
  <2>3. ASSUME NEW j \in Keys, rev'[j].state = "OPEN"
        PROVE  /\ rev'[j].outstanding \in 1..rev'[j].amount
               /\ reversedTotal'[rev'[j].intent] + rev'[j].amount <= Amount[rev'[j].intent]
    <3>1. CASE j = k
      <4>1. rest # 0
        BY <2>3, <3>1, <1>9
      <4> QED BY <3>1, <4>1, <1>2, <1>3, <1>9
    <3>2. CASE j # k
      <4>1. rev'[j] = rev[j] /\ rev[j].state = "OPEN" /\ rev[j].intent # i
        BY <2>1, <2>3, <3>2, <1>8
      <4>2. reversedTotal'[rev[j].intent] = reversedTotal[rev[j].intent]
        BY <4>1, <1>2, <1>3 DEF TypeOK
      <4> QED BY <4>1, <4>2 DEF Inv, ClaimsFit
    <3> QED BY <3>1, <3>2
  <2> QED BY <2>2, <2>3 DEF ClaimsFit
<1> QED BY <1>4, <1>6, <1>7, <1>10, <1>11, <1>12

(* A review takes what it can; when nothing is outstanding the customer    *)
(* has no other review open, and the wallet is released.                   *)
LEMMA ReviewStep ==
  ASSUME Inv, NEW k \in Keys, ResolveReview(k)
  PROVE  /\ wallet' \in [Customers -> [pending: Nat, balance: Nat, active: BOOLEAN]]
         /\ rev' \in [Keys -> [state: {"NONE", "OPEN", "APPLIED"}, intent: Intents,
                               amount: Nat, outstanding: Nat]]
         /\ reversedTotal' \in [Intents -> Nat]
         /\ RestrictedWhileUnderReview' /\ OneReview' /\ ClaimsFit'
<1> DEFINE i == rev[k].intent
           c == Owner[i]
           n == rev[k].outstanding
           rest == Uncovered(c, n)
           free == IF rest > 0 THEN FALSE ELSE wallet[c].active \/ UnderReview(c) = {k}
<1>1. TypeOK /\ rev[k].state = "OPEN" /\ i \in Intents /\ n \in Nat /\ rev[k].amount \in Nat
  BY DEF Inv, TypeOK, ResolveReview
<1>2. c \in Customers /\ Amount[i] \in Nat
  BY <1>1, OwnerTypes
<1>3. /\ rest \in 0..n /\ n \in 1..rev[k].amount
      /\ reversedTotal[i] + rev[k].amount <= Amount[i]
  BY <1>1, <1>2, Split DEF Inv, ClaimsFit
<1>4. /\ wallet' = WalletAfterReversal(c, n, free)
      /\ rev' = [rev EXCEPT ![k] = [state |-> IF rest = 0 THEN "APPLIED" ELSE "OPEN",
                                    intent |-> i, amount |-> rev[k].amount, outstanding |-> rest]]
      /\ reversedTotal' = IF rest = 0 THEN [reversedTotal EXCEPT ![i] = @ + rev[k].amount]
                                      ELSE reversedTotal
  BY DEF ResolveReview
<1>5. UnderReview(c) = {k}
  BY <1>1 DEF Inv, OneReview, UnderReview
<1>6. free = (rest = 0)
  <2> HIDE DEF rest
  <2>1. rest = 0 \/ rest > 0
    BY <1>3
  <2>2. CASE rest = 0
    BY <2>2, <1>5
  <2>3. CASE rest > 0
    <3>1. free = FALSE
      BY <2>3
    <3>2. ~(rest = 0)
      BY <2>3
    <3> QED BY <3>1, <3>2
  <2> QED BY <2>1, <2>2, <2>3
<1>7. /\ wallet' \in [Customers -> [pending: Nat, balance: Nat, active: BOOLEAN]]
      /\ wallet'[c].active = (rest = 0)
      /\ \A d \in Customers \ {c} : wallet'[d] = wallet[d]
  <2> DEFINE w(active) == WalletAfterReversal(c, n, active)
  <2>1. \A active \in BOOLEAN :
          /\ w(active) \in [Customers -> [pending: Nat, balance: Nat, active: BOOLEAN]]
          /\ w(active)[c].active = active
          /\ \A d \in Customers \ {c} : w(active)[d] = wallet[d]
    BY <1>1, <1>2, SplitWallet
  <2>2. (rest = 0) \in BOOLEAN /\ wallet' = w(rest = 0)
    BY <1>4, <1>6
  <2> HIDE DEF w, rest
  <2> QED BY <2>1, <2>2
<1> HIDE DEF rest, free
<1>8. /\ rev'[k].state = (IF rest = 0 THEN "APPLIED" ELSE "OPEN")
      /\ rev'[k].intent = i /\ rev'[k].amount = rev[k].amount /\ rev'[k].outstanding = rest
      /\ \A j \in Keys \ {k} : rev'[j] = rev[j]
      /\ rev' \in [Keys -> [state: {"NONE", "OPEN", "APPLIED"}, intent: Intents,
                            amount: Nat, outstanding: Nat]]
  BY <1>1, <1>3, <1>4 DEF TypeOK
<1>9. reversedTotal' \in [Intents -> Nat]
  BY <1>1, <1>4 DEF TypeOK
<1>10. RestrictedWhileUnderReview'
  <2> SUFFICES ASSUME NEW d \in Customers
               PROVE  ~wallet'[d].active <=> UnderReview(d)' # {}
    BY DEF RestrictedWhileUnderReview
  <2>1. ~wallet[d].active <=> UnderReview(d) # {}
    BY DEF Inv, RestrictedWhileUnderReview
  <2>2. UnderReview(d)' = IF d = c /\ rest = 0 THEN UnderReview(d) \ {k} ELSE UnderReview(d)
    BY <1>1, <1>8 DEF UnderReview
  <2> QED BY <2>1, <2>2, <1>5, <1>7
<1>11. OneReview'
  BY <1>1, <1>8 DEF OneReview, Inv
<1>12. ClaimsFit'
  <2>1. \A j \in Keys \ {k} : rev[j].state = "OPEN" => rev[j].intent # i
    BY <1>5 DEF UnderReview
  <2>2. ASSUME NEW j \in Intents
        PROVE  reversedTotal'[j] <= Amount[j]
    BY <1>1, <1>2, <1>3, <1>4 DEF Inv, ClaimsFit, TypeOK
  <2>3. ASSUME NEW j \in Keys, rev'[j].state = "OPEN"
        PROVE  /\ rev'[j].outstanding \in 1..rev'[j].amount
               /\ reversedTotal'[rev'[j].intent] + rev'[j].amount <= Amount[rev'[j].intent]
    <3>1. CASE j = k
      <4>1. rest # 0
        BY <2>3, <3>1, <1>8
      <4>2. reversedTotal' = reversedTotal /\ rest \in 1..rev[k].amount
        BY <4>1, <1>1, <1>3, <1>4
      <4> QED BY <3>1, <4>2, <1>3, <1>8
    <3>2. CASE j # k
      <4>1. rev'[j] = rev[j] /\ rev[j].state = "OPEN" /\ rev[j].intent # i
        BY <2>1, <2>3, <3>2, <1>8
      <4>2. reversedTotal'[rev[j].intent] = reversedTotal[rev[j].intent]
        BY <4>1, <1>1, <1>4 DEF TypeOK
      <4> QED BY <4>1, <4>2 DEF Inv, ClaimsFit
    <3> QED BY <3>1, <3>2
  <2> QED BY <2>2, <2>3 DEF ClaimsFit
<1> QED BY <1>7, <1>8, <1>9, <1>10, <1>11, <1>12

-----------------------------------------------------------------------------
(* Every step keeps the invariant.                                         *)
LEMMA InvStep == Inv /\ [Next]_vars => Inv'
<1> SUFFICES ASSUME Inv, [Next]_vars PROVE Inv'
  OBVIOUS
<1> USE DEF Inv
<1>1. ASSUME NEW c \in Customers, Purchase(c) \/ Refund(c)
      PROVE  Inv'
  <2>1. /\ wallet' \in [Customers -> [pending: Nat, balance: Nat, active: BOOLEAN]]
        /\ spent' \in [Customers -> Nat]
        /\ \A d \in Customers : wallet'[d].active = wallet[d].active
        /\ UNCHANGED <<intent, credited, direct, delivered, called, reversalVars, record>>
    <3>1. CASE Purchase(c)
      <4>1. PICK n \in 1..wallet[c].balance :
              /\ wallet' = [wallet EXCEPT ![c].balance = @ + (-n)]
              /\ spent' = [spent EXCEPT ![c] = @ + n]
        BY <3>1 DEF Purchase, Post
      <4>2. PICK left \in Nat : left = wallet[c].balance + (-n)
        BY DEF TypeOK
      <4>3. wallet' = [wallet EXCEPT ![c].balance = left] /\ n \in Nat
        BY <4>1, <4>2
      <4>4. spent' = [spent EXCEPT ![c] = @ + n]
        BY <4>1
      <4>5. UNCHANGED <<intent, credited, direct, delivered, called, reversalVars, record>>
        BY <3>1 DEF Purchase
      <4> QED BY <4>3, <4>4, <4>5 DEF TypeOK
    <3>2. CASE Refund(c)
      <4>1. PICK n \in 1..spent[c] :
              /\ wallet' = [wallet EXCEPT ![c].balance = @ + n]
              /\ spent' = [spent EXCEPT ![c] = @ - n]
        BY <3>2 DEF Refund, Post
      <4>2. n \in Nat /\ spent[c] - n \in Nat
        BY DEF TypeOK
      <4> QED BY <3>2, <4>1, <4>2 DEF Refund, TypeOK
    <3> QED BY <1>1, <3>1, <3>2
  <2>2. RestrictedWhileUnderReview' /\ OneReview' /\ ClaimsFit'
    BY <2>1, ReviewsKept
  <2> QED BY <2>1, <2>2 DEF TypeOK, reversalVars, CameIn, RowsClosed, HasDuplicate
<1>2. ASSUME NEW i \in Intents, CreateTopup(i) \/ ReconfirmManualTopup(i)
      PROVE  Inv'
  <2>1. /\ intent' \in [Intents -> [status: IntentStatus, processed: BOOLEAN,
                                    settled: BOOLEAN, paymentId: BOOLEAN]]
        /\ UNCHANGED <<wallet, credited, direct, spent, delivered, called, reversalVars, record>>
    <3>1. CASE CreateTopup(i)
      BY <3>1 DEF CreateTopup, NewIntent, moneyVars, TypeOK, IntentStatus
    <3>2. CASE ReconfirmManualTopup(i)
      <4>1. UNCHANGED <<wallet, credited, direct, spent, delivered, called, reversalVars, record>>
        BY <3>2 DEF ReconfirmManualTopup, moneyVars
      <4>2. intent' = [intent EXCEPT ![i] = [status |-> "PAID", processed |-> TRUE,
                                             settled |-> TRUE,
                                             paymentId |-> intent[i].paymentId]]
        BY <3>2 DEF ReconfirmManualTopup
      <4> QED BY <4>1, <4>2 DEF TypeOK, IntentStatus
    <3> QED BY <1>2, <3>1, <3>2
  <2>2. RestrictedWhileUnderReview' /\ OneReview' /\ ClaimsFit'
    BY <2>1, ReviewsKept
  <2>3. CameIn' /\ RowsClosed'
    <3>1. CASE CreateTopup(i)
      BY <2>1, <3>1, OwnerTypes DEF CreateTopup, NewIntent, TypeOK, CameIn, RowsClosed, HasDuplicate
    <3>2. CASE ReconfirmManualTopup(i)
      <4>1. \A j \in Intents : intent'[j].settled = intent[j].settled
        BY <3>2 DEF ReconfirmManualTopup, TypeOK
      <4>2. \A j \in Intents \ {i} : intent'[j] = intent[j]
        BY <3>2 DEF ReconfirmManualTopup, TypeOK
      <4>3. intent[i].settled /\ intent'[i].status = "PAID" /\ intent'[i].processed
        BY <3>2 DEF ReconfirmManualTopup, TypeOK
      <4>4. RowsClosed'
        BY <2>1, <4>1, OwnerTypes DEF RowsClosed, HasDuplicate
      <4> QED BY <2>1, <4>1, <4>2, <4>3, <4>4 DEF CameIn, TypeOK
    <3> QED BY <1>2, <3>1, <3>2
  <2> QED BY <2>1, <2>2, <2>3 DEF TypeOK, reversalVars
<1>3. ASSUME NEW i \in Intents, ConfirmManualTopup(i)
      PROVE  Inv'
  <2>1. /\ intent' = [intent EXCEPT ![i] = [status |-> "PAID", processed |-> TRUE,
                                            settled |-> TRUE, paymentId |-> TRUE]]
        /\ wallet' = [wallet EXCEPT ![Owner[i]].balance = @ + Amount[i]]
        /\ direct' = direct \union {i}
        /\ UNCHANGED <<credited, spent, delivered, called, reversalVars, record>>
    BY <1>3 DEF ConfirmManualTopup, CreditBalance, Post
  <2>2. /\ wallet' \in [Customers -> [pending: Nat, balance: Nat, active: BOOLEAN]]
        /\ intent' \in [Intents -> [status: IntentStatus, processed: BOOLEAN,
                                    settled: BOOLEAN, paymentId: BOOLEAN]]
        /\ \A d \in Customers : wallet'[d].active = wallet[d].active
    BY <2>1, OwnerTypes DEF TypeOK, IntentStatus
  <2>3. RestrictedWhileUnderReview' /\ OneReview' /\ ClaimsFit'
    BY <2>1, <2>2, ReviewsKept
  <2>4. CameIn' /\ RowsClosed'
    BY <2>1, OwnerTypes DEF TypeOK, CameIn, RowsClosed, HasDuplicate
  <2> QED BY <2>1, <2>2, <2>3, <2>4 DEF TypeOK, reversalVars
<1>4. ASSUME NEW i \in Intents, NEW answer \in Answers, FinalizeTopup(i, answer)
      PROVE  Inv'
  <2>1. /\ TerminalEvent(i, answer) /\ UNCHANGED <<reversalVars, record>>
        /\ called' = called \union {i} /\ delivered' = delivered
    BY <1>4 DEF FinalizeTopup
  <2> QED BY <2>1, TerminalStep DEF TypeOK, reversalVars
<1>5. ASSUME NEW e \in Events, PaymentEvent(e), Deliver(e)
      PROVE  Inv'
  <2>1. /\ TerminalEvent(e.intent, e.kind) /\ UNCHANGED <<reversalVars, record>>
        /\ delivered' = delivered \union {e} /\ called' = called
    BY <1>5 DEF PaymentEvent, Deliver
  <2> QED BY <2>1, OwnerTypes, TerminalStep DEF TypeOK, reversalVars
<1>6. ASSUME NEW k \in Keys, NEW i \in Intents, NEW n \in Nat, ApplyReversal(k, i, n),
             UNCHANGED <<intent, credited, direct, spent, called, record>>,
             delivered' \subseteq Events
      PROVE  Inv'
  <2>1. CameIn' /\ RowsClosed'
    BY <1>6 DEF CameIn, RowsClosed, HasDuplicate
  <2> QED BY <1>6, <2>1, ReversalStep DEF TypeOK
<1>7. ASSUME NEW e \in Events, ReversalEvent(e), Deliver(e)
      PROVE  Inv'
  <2>1. /\ ApplyReversal(e, e.intent, ReversalAmount(e))
        /\ UNCHANGED <<intent, credited, direct, spent, called, record>>
        /\ delivered' = delivered \union {e}
    BY <1>7 DEF ReversalEvent, Deliver
  <2>2. e \in Keys /\ e.intent \in Intents /\ ReversalAmount(e) \in Nat
    BY OwnerTypes DEF ReversalAmount, Keys
  <2> QED BY <1>6, <2>1, <2>2 DEF TypeOK
<1>8. ASSUME NEW k \in OpsKeys, NEW i \in Intents, OpsTopupReversal(k, i)
      PROVE  Inv'
  <2>1. PICK n \in 1..Amount[i] : ApplyReversal(k, i, n)
    BY <1>8 DEF OpsTopupReversal
  <2>2. k \in Keys /\ n \in Nat
    BY OwnerTypes DEF Keys
  <2> QED BY <1>6, <1>8, <2>1, <2>2 DEF OpsTopupReversal, TypeOK
<1>9. ASSUME NEW k \in Keys, ResolveReview(k)
      PROVE  Inv'
  <2>1. UNCHANGED <<intent, credited, direct, spent, delivered, called, record>>
    BY <1>9 DEF ResolveReview
  <2>2. CameIn' /\ RowsClosed'
    BY <2>1 DEF CameIn, RowsClosed, HasDuplicate
  <2> QED BY <1>9, <2>1, <2>2, ReviewStep DEF TypeOK
<1>10. ASSUME NEW r \in Records, RecordRow(r)
       PROVE  Inv'
  <2>1. /\ record' = [record EXCEPT ![r] = "OPEN"]
        /\ UNCHANGED <<intent, wallet, credited, direct, spent, delivered, called, reversalVars>>
    BY <1>10 DEF RecordRow, moneyVars
  <2>2. RestrictedWhileUnderReview' /\ OneReview' /\ ClaimsFit'
    BY <2>1, ReviewsKept
  <2>3. CameIn' /\ RowsClosed'
    BY <2>1 DEF TypeOK, CameIn, RowsClosed, HasDuplicate
  <2> QED BY <2>1, <2>2, <2>3 DEF TypeOK, reversalVars
<1>11. ASSUME NEW r \in Records, ProcessRecord(r)
       PROVE  Inv'
  <2> DEFINE i == r.intent
  <2>1. /\ record' = [record EXCEPT ![r] = "PROCESSED"]
        /\ intent' = [intent EXCEPT ![i].settled = TRUE]
        /\ Applicable(r) /\ (intent[i].settled \/ Settleable(i))
        /\ wallet' = IF intent[i].settled THEN wallet ELSE SettledWallet(i)
        /\ UNCHANGED <<credited, direct, spent, delivered, called, reversalVars>>
    BY <1>11 DEF ProcessRecord
  <2>2. i \in Intents /\ Owner[i] \in Customers /\ Amount[i] \in Nat
    BY OwnerTypes
  <2>3. /\ wallet' \in [Customers -> [pending: Nat, balance: Nat, active: BOOLEAN]]
        /\ \A d \in Customers : wallet'[d].active = wallet[d].active
    <3>1. CASE intent[i].settled
      BY <2>1, <3>1 DEF TypeOK
    <3>2. CASE ~intent[i].settled
      <4>1. wallet[Owner[i]].pending - Amount[i] \in Nat
        BY <2>1, <2>2, <3>2 DEF Settleable, TypeOK
      <4> QED BY <2>1, <2>2, <3>2, <4>1 DEF SettledWallet, TypeOK
    <3> QED BY <3>1, <3>2
  <2>4. RestrictedWhileUnderReview' /\ OneReview' /\ ClaimsFit'
    BY <2>1, <2>3, ReviewsKept
  <2>5. CameIn'
    BY <2>1, <2>2 DEF Applicable, TypeOK, CameIn
  <2>6. RowsClosed'
    <3>1. \A q \in Records \ {r} : record[q] = "PROCESSED" => q.intent # i
      BY <2>1 DEF Applicable, HasDuplicate
    <3> QED BY <2>1, <2>2, <3>1, OwnerTypes DEF TypeOK, RowsClosed, HasDuplicate
  <2> QED BY <2>1, <2>3, <2>4, <2>5, <2>6 DEF TypeOK, reversalVars
<1>12. CASE UNCHANGED vars
  <2>1. RestrictedWhileUnderReview' /\ OneReview' /\ ClaimsFit'
    BY <1>12, ReviewsKept DEF vars, reversalVars
  <2> QED BY <1>12, <2>1 DEF vars, TypeOK, reversalVars, CameIn, RowsClosed, HasDuplicate
<1> QED BY <1>1, <1>2, <1>3, <1>4, <1>5, <1>7, <1>8, <1>9, <1>10, <1>11, <1>12
     DEF Next, OpsManualTopupConfirm, ProviderWebhook, IyzicoWebhook

LEMMA Invariance == Spec => []Inv
  BY InvInit, InvStep, PTL DEF Spec

(* Every row of the tables, and both pools of every wallet, stay in range: *)
(* neither a settlement nor a reversal drives a pool below zero.           *)
THEOREM TypeCorrect == Spec => []TypeOK
<1>1. Inv => TypeOK
  BY DEF Inv
<1> QED BY <1>1, Invariance, PTL

(* A wallet is restricted exactly while a reversal it could not cover is   *)
(* under review.                                                           *)
THEOREM ReviewsRestrict == Spec => []RestrictedWhileUnderReview
<1>1. Inv => RestrictedWhileUnderReview
  BY DEF Inv
<1> QED BY <1>1, Invariance, PTL

(* A settlement row closes only on money that has come in and is           *)
(* available, and one row at most closes on an intent.                     *)
THEOREM RowsSettle == Spec => []RowsSettleOnce
<1>1. Inv => RowsSettleOnce
  BY OwnerTypes DEF Inv, CameIn, RowsClosed, RowsSettleOnce
<1> QED BY <1>1, Invariance, PTL

-----------------------------------------------------------------------------
(* The books of a customer.                                                *)

LEMMA PaidMore ==
  ASSUME NEW S \in SUBSET Intents, NEW c
  PROVE  /\ Paid(S, c) \in Nat
         /\ \A i \in Intents \ S :
              Paid(S \union {i}, c) = Paid(S, c) + (IF Owner[i] = c THEN Amount[i] ELSE 0)
<1>1. ASSUME NEW T \in SUBSET Intents
      PROVE  /\ Paid(T, c) = SumFunctionOnSet(Amount, {j \in T : Owner[j] = c})
             /\ Paid(T, c) \in Nat
             /\ IsFiniteSet({j \in T : Owner[j] = c})
  <2> DEFINE D == {j \in T : Owner[j] = c}
             f == [j \in D |-> Amount[j]]
  <2>1. D \in SUBSET Intents /\ IsFiniteSet(D)
    BY TopUpConstants, FS_Subset
  <2>2. D = DOMAIN f /\ \A j \in D : f[j] \in Nat /\ f[j] = Amount[j]
    BY <2>1, OwnerTypes
  <2>3. Paid(T, c) = SumFunction(f)
    BY DEF Paid
  <2> HIDE DEF f, D
  <2>4. SumFunction(f) = SumFunctionOnSet(Amount, D) /\ SumFunction(f) \in Nat
    BY <2>1, <2>2, SumIs
  <2> QED BY <2>1, <2>3, <2>4 DEF D
<1>2. ASSUME NEW i \in Intents \ S
      PROVE  Paid(S \union {i}, c) = Paid(S, c) + (IF Owner[i] = c THEN Amount[i] ELSE 0)
  <2> DEFINE A == {j \in S : Owner[j] = c}
             B == {j \in S \union {i} : Owner[j] = c}
  <2>1. /\ Paid(S, c) = SumFunctionOnSet(Amount, A) /\ IsFiniteSet(A)
        /\ Paid(S \union {i}, c) = SumFunctionOnSet(Amount, B) /\ IsFiniteSet(B)
        /\ Paid(S, c) \in Nat /\ Paid(S \union {i}, c) \in Nat
    BY <1>1
  <2>2. /\ A \ {i} = B \ {i} /\ i \notin A /\ (i \in B <=> Owner[i] = c)
        /\ \A j \in A \union B : Amount[j] \in Nat
    BY OwnerTypes
  <2> HIDE DEF A, B
  <2>3. SumFunctionOnSet(Amount, A) + (IF i \in B THEN Amount[i] ELSE 0)
        = SumFunctionOnSet(Amount, B) + (IF i \in A THEN Amount[i] ELSE 0)
    BY <2>1, <2>2, SumChange
  <2> QED BY <2>1, <2>2, <2>3
<1> QED BY <1>1, <1>2

(* What each reversal has taken so far.                                    *)
Took(r) == r.amount - r.outstanding
TookOf(rv) == [k \in Keys |-> Took(rv[k])]

(* What a reversal has taken back is not below zero: no more of its amount *)
(* is outstanding than there is.                                           *)
Repaid == \A k \in Keys : rev[k].state # "NONE" => Took(rev[k]) \in Nat

LEMMA KeysFinite == \A S \in SUBSET Keys : IsFiniteSet(S)
<1>1. IsFiniteSet(Keys)
  BY TopUpConstants, FS_Union DEF Keys
<1> QED BY <1>1, FS_Subset

LEMMA TakenIs ==
  ASSUME NEW c
  PROVE  /\ Repaid => /\ TakenBack(c) = SumFunctionOnSet(TookOf(rev), Reversals(c))
                      /\ TakenBack(c) \in Nat
         /\ Repaid' => /\ TakenBack(c)' = SumFunctionOnSet(TookOf(rev'), Reversals(c)')
                       /\ TakenBack(c)' \in Nat
<1>1. ASSUME NEW rv, NEW S \in SUBSET Keys, \A k \in S : Took(rv[k]) \in Nat
      PROVE  LET t == SumFunction([k \in S |-> rv[k].amount - rv[k].outstanding])
             IN  t = SumFunctionOnSet(TookOf(rv), S) /\ t \in Nat
  <2> DEFINE f == [k \in S |-> rv[k].amount - rv[k].outstanding]
  <2>1. S = DOMAIN f /\ \A k \in S : f[k] \in Nat /\ f[k] = TookOf(rv)[k]
    BY <1>1 DEF Took, TookOf
  <2> HIDE DEF f
  <2>2. SumFunction(f) = SumFunctionOnSet(TookOf(rv), S) /\ SumFunction(f) \in Nat
    BY <2>1, KeysFinite, SumIs
  <2> QED BY <2>2 DEF f
<1>2. Reversals(c) \in SUBSET Keys /\ Reversals(c)' \in SUBSET Keys
  BY DEF Reversals
<1>3. /\ TakenBack(c) = SumFunction([k \in Reversals(c) |-> rev[k].amount - rev[k].outstanding])
      /\ TakenBack(c)' = SumFunction([k \in Reversals(c)' |-> rev'[k].amount - rev'[k].outstanding])
  BY DEF TakenBack
<1>4. /\ Repaid => \A k \in Reversals(c) : Took(rev[k]) \in Nat
      /\ Repaid' => \A k \in Reversals(c)' : Took(rev'[k]) \in Nat
  BY DEF Repaid, Reversals
<1> QED BY <1>1, <1>2, <1>3, <1>4

(* A reversal takes n more of its customer.                                *)
LEMMA TakenMore ==
  ASSUME Repaid, Repaid', NEW k \in Keys, \A j \in Keys \ {k} : rev'[j] = rev[j],
         rev'[k].state # "NONE", rev[k].state # "NONE" => rev'[k].intent = rev[k].intent,
         NEW n \in Nat,
         Took(rev'[k]) = n + (IF rev[k].state = "NONE" THEN 0 ELSE Took(rev[k])),
         NEW c
  PROVE  TakenBack(c)' = TakenBack(c) + (IF Owner[rev'[k].intent] = c THEN n ELSE 0)
<1> DEFINE A == Reversals(c)
           B == Reversals(c)'
           f == TookOf(rev)
           g == TookOf(rev')
<1>1. /\ TakenBack(c) = SumFunctionOnSet(f, A) /\ TakenBack(c) \in Nat
      /\ TakenBack(c)' = SumFunctionOnSet(g, B) /\ TakenBack(c)' \in Nat
  BY TakenIs
<1>2. /\ IsFiniteSet(A) /\ IsFiniteSet(B)
      /\ \A j \in A : f[j] \in Nat
      /\ \A j \in B : g[j] \in Nat
  BY KeysFinite DEF Reversals, TookOf, Repaid
<1>3. A \ {k} = B \ {k} /\ \A j \in A \ {k} : f[j] = g[j]
  BY DEF Reversals, TookOf
<1>4. /\ k \in B <=> Owner[rev'[k].intent] = c
      /\ k \in A <=> rev[k].state # "NONE" /\ Owner[rev'[k].intent] = c
      /\ f[k] = Took(rev[k]) /\ g[k] = Took(rev'[k])
  BY DEF Reversals, TookOf
<1> HIDE DEF A, B, f, g
<1>5. SumFunctionOnSet(f, A) + (IF k \in B THEN g[k] ELSE 0)
      = SumFunctionOnSet(g, B) + (IF k \in A THEN f[k] ELSE 0)
  BY <1>2, <1>3, SumChange
<1>6. CASE k \notin B
  <2>1. SumFunctionOnSet(f, A) = SumFunctionOnSet(g, B)
    BY <1>1, <1>4, <1>5, <1>6
  <2> QED BY <1>1, <1>4, <1>6, <2>1
<1>7. CASE k \in B /\ k \in A
  <2>1. f[k] \in Nat /\ g[k] = n + f[k]
    BY <1>2, <1>4, <1>7
  <2>2. SumFunctionOnSet(f, A) + g[k] = SumFunctionOnSet(g, B) + f[k]
    BY <1>5, <1>7
  <2>3. PICK x \in Nat, y \in Nat, z \in Nat :
          x = SumFunctionOnSet(f, A) /\ y = SumFunctionOnSet(g, B) /\ z = f[k]
    BY <1>1, <2>1
  <2>4. x + (n + z) = y + z
    BY <2>1, <2>2, <2>3
  <2>5. y = x + n
    BY <2>4
  <2> QED BY <1>1, <1>4, <1>7, <2>3, <2>5
<1>8. CASE k \in B /\ k \notin A
  <2>1. SumFunctionOnSet(f, A) + n = SumFunctionOnSet(g, B)
    <3>1. g[k] = n
      BY <1>4, <1>8
    <3> QED BY <1>1, <1>5, <1>8, <3>1
  <2> QED BY <1>1, <1>4, <1>8, <2>1
<1> QED BY <1>6, <1>7, <1>8

(* The pools lose what a reversal takes.                                   *)
LEMMA PoolsLose ==
  ASSUME TypeOK, NEW c \in Customers, NEW n \in Nat, NEW active
  PROVE  LET w == WalletAfterReversal(c, n, active) IN
         /\ w[c].pending + w[c].balance + (n - Uncovered(c, n)) = wallet[c].pending + wallet[c].balance
         /\ \A d \in Customers \ {c} : w[d] = wallet[d]
<1> DEFINE p == FromPending(c, n)
           q == FromBalance(c, n)
           w == WalletAfterReversal(c, n, active)
<1>0. /\ p \in 0..wallet[c].pending /\ q \in 0..wallet[c].balance
      /\ wallet[c].pending \in Nat /\ wallet[c].balance \in Nat
  BY Split DEF TypeOK
<1>1. /\ wallet[c].pending \in Nat /\ wallet[c].balance \in Nat
      /\ p \in Nat /\ q \in Nat /\ Uncovered(c, n) = n - p - q
  BY <1>0 DEF Uncovered
<1>2. /\ w[c].pending = wallet[c].pending - p /\ w[c].balance = wallet[c].balance - q
      /\ \A d \in Customers \ {c} : w[d] = wallet[d]
  BY DEF TypeOK, WalletAfterReversal
<1> HIDE DEF p, q, w
<1>3. w[c].pending + w[c].balance + (n - Uncovered(c, n)) = wallet[c].pending + wallet[c].balance
  BY <1>1, <1>2
<1> QED BY <1>2, <1>3 DEF w

Holds(c) == wallet[c].pending + wallet[c].balance + spent[c]

LEMMA HoldsNat ==
  ASSUME TypeOK, NEW c \in Customers
  PROVE  /\ wallet[c].pending \in Nat /\ wallet[c].balance \in Nat /\ spent[c] \in Nat
         /\ Holds(c) \in Nat /\ Paid(credited, c) \in Nat /\ Paid(direct, c) \in Nat
<1>1. wallet[c].pending \in Nat /\ wallet[c].balance \in Nat /\ spent[c] \in Nat
  BY DEF TypeOK
<1>2. credited \in SUBSET Intents /\ direct \in SUBSET Intents
  BY DEF TypeOK
<1> QED BY <1>1, <1>2, PaidMore DEF Holds

(* Steps that take nothing back and pay nothing in move the money that a   *)
(* customer has between the pools and what was spent.                      *)
LEMMA MoneyShifts ==
  ASSUME MoneyConserved, UNCHANGED <<credited, direct, rev>>,
         \A c \in Customers : Holds(c)' = Holds(c)
  PROVE  MoneyConserved'
<1>1. \A c \in Customers : TakenBack(c)' = TakenBack(c) /\ PaidIn(c)' = PaidIn(c)
  BY DEF TakenBack, Reversals, PaidIn, Paid
<1> QED BY <1>1 DEF MoneyConserved, Holds

(* A payment comes in.                                                     *)
LEMMA MoneyComesIn ==
  ASSUME TypeOK, TypeOK', Repaid, MoneyConserved, NEW i \in Intents, UNCHANGED rev,
         \/ i \notin credited /\ credited' = credited \union {i} /\ direct' = direct
         \/ i \notin direct /\ direct' = direct \union {i} /\ credited' = credited,
         \A c \in Customers : Holds(c)' = Holds(c) + (IF Owner[i] = c THEN Amount[i] ELSE 0)
  PROVE  MoneyConserved'
<1> SUFFICES ASSUME NEW c \in Customers
             PROVE  Holds(c)' + TakenBack(c)' = PaidIn(c)'
  BY DEF MoneyConserved, Holds
<1> DEFINE n == IF Owner[i] = c THEN Amount[i] ELSE 0
<1>1. TakenBack(c)' = TakenBack(c) /\ TakenBack(c) \in Nat /\ Holds(c) \in Nat /\ n \in Nat
  BY TakenIs, HoldsNat, OwnerTypes DEF TakenBack, Reversals
<1>2. credited \in SUBSET Intents /\ direct \in SUBSET Intents
  BY DEF TypeOK
<1>3. /\ Paid(credited, c) \in Nat /\ Paid(direct, c) \in Nat
      /\ i \notin credited => Paid(credited \union {i}, c) = Paid(credited, c) + n
      /\ i \notin direct => Paid(direct \union {i}, c) = Paid(direct, c) + n
  BY <1>2, PaidMore
<1>4. PaidIn(c)' = PaidIn(c) + n
  <2> HIDE DEF n
  <2>1. PaidIn(c) = Paid(credited, c) + Paid(direct, c) /\ PaidIn(c)' = Paid(credited', c) + Paid(direct', c)
    BY DEF PaidIn, Paid
  <2>2. PICK x \in Nat, y \in Nat : x = Paid(credited, c) /\ y = Paid(direct, c)
    BY <1>3
  <2>3. CASE i \notin credited /\ credited' = credited \union {i} /\ direct' = direct
    <3>1. Paid(credited', c) = x + n /\ Paid(direct', c) = y
      BY <1>3, <2>2, <2>3
    <3> QED BY <1>1, <2>1, <2>2, <3>1
  <2>4. CASE i \notin direct /\ direct' = direct \union {i} /\ credited' = credited
    <3>1. Paid(direct', c) = y + n /\ Paid(credited', c) = x
      BY <1>3, <2>2, <2>4
    <3> QED BY <1>1, <2>1, <2>2, <3>1
  <2> QED BY <2>3, <2>4
<1>5. Holds(c) + TakenBack(c) = PaidIn(c) /\ Holds(c)' = Holds(c) + n
  BY DEF MoneyConserved, Holds
<1> HIDE DEF n
<1> QED BY <1>1, <1>4, <1>5

(* The provider takes n of what customer c holds.                          *)
LEMMA MoneyGoesBack ==
  ASSUME TypeOK, TypeOK', Repaid, Repaid', MoneyConserved, UNCHANGED <<credited, direct>>,
         NEW k \in Keys, NEW n \in Nat, \A j \in Keys \ {k} : rev'[j] = rev[j],
         rev'[k].state # "NONE", rev[k].state # "NONE" => rev'[k].intent = rev[k].intent,
         Took(rev'[k]) = n + (IF rev[k].state = "NONE" THEN 0 ELSE Took(rev[k])),
         \A c \in Customers : Holds(c)' + (IF Owner[rev'[k].intent] = c THEN n ELSE 0) = Holds(c)
  PROVE  MoneyConserved'
<1> SUFFICES ASSUME NEW c \in Customers
             PROVE  Holds(c)' + TakenBack(c)' = PaidIn(c)'
  BY DEF MoneyConserved, Holds
<1> DEFINE m == IF Owner[rev'[k].intent] = c THEN n ELSE 0
<1>1. PaidIn(c)' = PaidIn(c)
  BY DEF PaidIn, Paid
<1>2. TakenBack(c)' = TakenBack(c) + m
  BY TakenMore
<1>3. Holds(c)' + m = Holds(c) /\ Holds(c) + TakenBack(c) = PaidIn(c)
  BY DEF MoneyConserved, Holds
<1>4. TakenBack(c) \in Nat /\ m \in Nat /\ Holds(c)' \in Nat /\ Holds(c) \in Nat
  <2>1. ASSUME NEW w \in [Customers -> [pending: Nat, balance: Nat, active: BOOLEAN]],
               NEW s \in [Customers -> Nat]
        PROVE  w[c].pending + w[c].balance + s[c] \in Nat
    <3>1. w[c].pending \in Nat /\ w[c].balance \in Nat /\ s[c] \in Nat
      OBVIOUS
    <3> QED BY <3>1
  <2>2. Holds(c)' \in Nat /\ Holds(c) \in Nat
    BY <2>1 DEF TypeOK, Holds
  <2> QED BY <2>2, TakenIs
<1> HIDE DEF m
<1>5. PICK h \in Nat, g \in Nat, t \in Nat, x \in Nat :
        h = Holds(c)' /\ g = Holds(c) /\ t = TakenBack(c) /\ x = m
  BY <1>4
<1>6. h + (t + x) = g + t
  BY <1>3, <1>5
<1> QED BY <1>1, <1>2, <1>3, <1>5, <1>6

LEMMA RepaidStep ==
  ASSUME Inv, Inv', Repaid, NEW k \in Keys, \A j \in Keys \ {k} : rev'[j] = rev[j],
         rev'[k].outstanding \in 0..rev'[k].amount
  PROVE  Repaid'
<1>1. rev'[k].amount \in Nat /\ rev'[k].outstanding \in Nat
  BY DEF Inv, TypeOK
<1> QED BY <1>1 DEF Repaid, Took

(* Settling moves an intent's money from one pool to the other.            *)
LEMMA PoolsShift ==
  ASSUME TypeOK, NEW i \in Intents, Settleable(i), NEW c \in Customers
  PROVE  SettledWallet(i)[c].pending + SettledWallet(i)[c].balance = wallet[c].pending + wallet[c].balance
<1> DEFINE n == Amount[i]
<1>1. wallet[c].pending \in Nat /\ wallet[c].balance \in Nat /\ n \in Nat
  BY OwnerTypes DEF TypeOK
<1>2. SettledWallet(i) = [wallet EXCEPT ![Owner[i]].pending = @ - n, ![Owner[i]].balance = @ + n]
  BY DEF SettledWallet
<1> HIDE DEF n
<1>3. CASE c = Owner[i]
  <2>1. SettledWallet(i)[c].pending = wallet[c].pending - n /\ SettledWallet(i)[c].balance = wallet[c].balance + n
    BY <1>2, <1>3 DEF TypeOK
  <2> QED BY <1>1, <2>1
<1>4. CASE c # Owner[i]
  BY <1>2, <1>4 DEF TypeOK
<1> QED BY <1>3, <1>4

LEMMA MoneyStep ==
  ASSUME Inv, Inv', Repaid, MoneyConserved, [Next]_vars
  PROVE  Repaid' /\ MoneyConserved'
<1>0. TypeOK /\ TypeOK'
  BY DEF Inv
<1>1. ASSUME UNCHANGED <<wallet, credited, direct, spent, rev>>
      PROVE  Repaid' /\ MoneyConserved'
  <2>1. \A c \in Customers : Holds(c)' = Holds(c)
    BY <1>1 DEF Holds
  <2> QED BY <1>1, <2>1, MoneyShifts DEF Repaid
<1>2. ASSUME NEW c \in Customers, Purchase(c) \/ Refund(c)
      PROVE  Repaid' /\ MoneyConserved'
  <2>1. UNCHANGED <<credited, direct, rev>>
    BY <1>2 DEF Purchase, Refund, reversalVars
  <2>2. PICK n \in Int : /\ wallet' = [wallet EXCEPT ![c].balance = @ - n]
                         /\ spent' = [spent EXCEPT ![c] = @ + n]
    <3>1. CASE Purchase(c)
      <4>1. PICK n \in 1..wallet[c].balance :
              /\ wallet' = [wallet EXCEPT ![c].balance = @ + (-n)]
              /\ spent' = [spent EXCEPT ![c] = @ + n]
        BY <3>1 DEF Purchase, Post
      <4>2. n \in Int /\ wallet[c].balance + (-n) = wallet[c].balance - n
        BY <1>0 DEF TypeOK
      <4> QED BY <4>1, <4>2
    <3>2. CASE Refund(c)
      <4>1. PICK n \in 1..spent[c] :
              /\ wallet' = [wallet EXCEPT ![c].balance = @ + n]
              /\ spent' = [spent EXCEPT ![c] = @ - n]
        BY <3>2 DEF Refund, Post
      <4>2. PICK m \in Int : m = -n
        OBVIOUS
      <4>3. wallet[c].balance + n = wallet[c].balance - m /\ spent[c] - n = spent[c] + m
        BY <1>0, <4>2 DEF TypeOK
      <4> QED BY <4>1, <4>3
    <3> QED BY <1>2, <3>1, <3>2
  <2>3. ASSUME NEW d \in Customers
        PROVE  Holds(d)' = Holds(d)
    <3>1. wallet[d].pending \in Nat /\ wallet[d].balance \in Nat /\ spent[d] \in Nat
      BY <1>0 DEF TypeOK
    <3>2. CASE d = c
      <4>1. /\ wallet'[d].pending = wallet[d].pending /\ wallet'[d].balance = wallet[d].balance - n
            /\ spent'[d] = spent[d] + n
        BY <1>0, <2>2, <3>2 DEF TypeOK
      <4> QED BY <3>1, <4>1 DEF Holds
    <3>3. CASE d # c
      BY <1>0, <2>2, <3>3 DEF TypeOK, Holds
    <3> QED BY <3>2, <3>3
  <2> QED BY <2>1, <2>3, MoneyShifts DEF Repaid
<1>3. ASSUME NEW i \in Intents, i \notin direct, CreditBalance(i), UNCHANGED <<credited, spent, rev>>
      PROVE  Repaid' /\ MoneyConserved'
  <2>1. wallet' = [wallet EXCEPT ![Owner[i]].balance = @ + Amount[i]] /\ direct' = direct \union {i}
    BY <1>3 DEF CreditBalance, Post
  <2>2. ASSUME NEW c \in Customers
        PROVE  Holds(c)' = Holds(c) + (IF Owner[i] = c THEN Amount[i] ELSE 0)
    <3>1. wallet[c].pending \in Nat /\ wallet[c].balance \in Nat /\ spent[c] \in Nat /\ Amount[i] \in Nat
      BY <1>0, OwnerTypes DEF TypeOK
    <3>2. /\ wallet'[c].pending = wallet[c].pending
          /\ wallet'[c].balance = wallet[c].balance + (IF Owner[i] = c THEN Amount[i] ELSE 0)
      BY <1>0, <2>1, <3>1 DEF TypeOK
    <3> QED BY <1>3, <3>1, <3>2 DEF Holds
  <2> QED BY <1>0, <1>3, <2>1, <2>2, MoneyComesIn DEF Repaid
<1>4. ASSUME NEW i \in Intents, NEW answer, TerminalEvent(i, answer), UNCHANGED rev
      PROVE  Repaid' /\ MoneyConserved'
  <2>1. CASE UNCHANGED moneyVars
    BY <1>1, <1>4, <2>1 DEF moneyVars
  <2>2. CASE CreditPending(i) /\ UNCHANGED <<direct, spent>>
    <3>1. CASE i \in credited
      <4>1. UNCHANGED <<wallet, credited>>
        BY <2>2, <3>1 DEF CreditPending
      <4> QED BY <1>1, <1>4, <2>2, <4>1
    <3>2. CASE i \notin credited
      <4>1. wallet' = [wallet EXCEPT ![Owner[i]].pending = @ + Amount[i]] /\ credited' = credited \union {i}
        BY <2>2, <3>2 DEF CreditPending, PostPending
      <4>2. ASSUME NEW c \in Customers
            PROVE  Holds(c)' = Holds(c) + (IF Owner[i] = c THEN Amount[i] ELSE 0)
        <5>1. wallet[c].pending \in Nat /\ wallet[c].balance \in Nat /\ spent[c] \in Nat /\ Amount[i] \in Nat
          BY <1>0, OwnerTypes DEF TypeOK
        <5>2. /\ wallet'[c].balance = wallet[c].balance
              /\ wallet'[c].pending = wallet[c].pending + (IF Owner[i] = c THEN Amount[i] ELSE 0)
          BY <1>0, <4>1, <5>1 DEF TypeOK
        <5> QED BY <2>2, <5>1, <5>2 DEF Holds
      <4> QED BY <1>0, <1>4, <2>2, <3>2, <4>1, <4>2, MoneyComesIn DEF Repaid
    <3> QED BY <3>1, <3>2
  <2> QED BY <1>4, <2>1, <2>2 DEF TerminalEvent, AlreadyProcessed, Succeeds, Fails, Ignored
<1>5. ASSUME NEW k \in Keys, NEW i \in Intents, NEW n \in Nat, ApplyReversal(k, i, n),
             UNCHANGED <<credited, direct, spent>>
      PROVE  Repaid' /\ MoneyConserved'
  <2> DEFINE c == Owner[i]
             rest == Uncovered(c, n)
  <2>1. c \in Customers /\ rest \in 0..n
    BY <1>0, OwnerTypes, Split
  <2>2. /\ rev[k].state = "NONE" /\ wallet' = WalletAfterReversal(c, n, rest = 0)
        /\ rev' = [rev EXCEPT ![k] = [state |-> IF rest = 0 THEN "APPLIED" ELSE "OPEN",
                                      intent |-> i, amount |-> n, outstanding |-> rest]]
    BY <1>5 DEF ApplyReversal, Fresh
  <2>3. /\ rev'[k].state # "NONE" /\ rev'[k].intent = i /\ rev'[k].amount = n /\ rev'[k].outstanding = rest
        /\ \A j \in Keys \ {k} : rev'[j] = rev[j]
    <3> HIDE DEF rest
    <3> QED BY <1>0, <2>2 DEF TypeOK
  <2>4. Repaid'
    BY <2>1, <2>3, RepaidStep
  <2> DEFINE m == n - rest
  <2>5. m \in Nat
    BY <2>1
  <2>6. ASSUME NEW d \in Customers
        PROVE  Holds(d)' + (IF Owner[rev'[k].intent] = d THEN m ELSE 0) = Holds(d)
    <3>1. wallet'[c].pending + wallet'[c].balance + m = wallet[c].pending + wallet[c].balance
          /\ (d # c => wallet'[d] = wallet[d])
      BY <1>0, <2>1, <2>2, PoolsLose
    <3>2. /\ wallet'[d].pending \in Nat /\ wallet'[d].balance \in Nat /\ spent[d] \in Nat
          /\ wallet[d].pending \in Nat /\ wallet[d].balance \in Nat
      BY <1>0 DEF TypeOK
    <3> HIDE DEF m, c
    <3> QED BY <1>5, <2>3, <2>5, <3>1, <3>2 DEF Holds, c
  <2>7. Took(rev'[k]) = m
    BY <2>3 DEF Took
  <2> HIDE DEF m, rest
  <2> QED BY <1>0, <1>5, <2>2, <2>3, <2>4, <2>5, <2>6, <2>7, MoneyGoesBack
<1>6. ASSUME NEW k \in Keys, ResolveReview(k)
      PROVE  Repaid' /\ MoneyConserved'
  <2> DEFINE i == rev[k].intent
             c == Owner[i]
             o == rev[k].outstanding
             rest == Uncovered(c, o)
  <2>1. /\ rev[k].state = "OPEN" /\ i \in Intents /\ o \in 1..rev[k].amount /\ rev[k].amount \in Nat
        /\ UNCHANGED <<credited, direct, spent>>
    BY <1>0, <1>6 DEF Inv, ClaimsFit, ResolveReview, TypeOK
  <2>2. c \in Customers /\ rest \in 0..o
    BY <1>0, <2>1, OwnerTypes, Split
  <2>3. \E free : wallet' = WalletAfterReversal(c, o, free)
    BY <1>6 DEF ResolveReview
  <2>4. /\ rev'[k].state # "NONE" /\ rev'[k].intent = i /\ rev'[k].amount = rev[k].amount
        /\ rev'[k].outstanding = rest /\ \A j \in Keys \ {k} : rev'[j] = rev[j]
    <3>1. rev' = [rev EXCEPT ![k] = [state |-> IF rest = 0 THEN "APPLIED" ELSE "OPEN", intent |-> i,
                                     amount |-> rev[k].amount, outstanding |-> rest]]
      BY <1>6 DEF ResolveReview
    <3> HIDE DEF rest
    <3> QED BY <1>0, <3>1 DEF TypeOK
  <2>5. Repaid'
    BY <2>1, <2>2, <2>4, RepaidStep
  <2> DEFINE m == o - rest
  <2>6. m \in Nat
    BY <2>1, <2>2
  <2>7. ASSUME NEW d \in Customers
        PROVE  Holds(d)' + (IF Owner[rev'[k].intent] = d THEN m ELSE 0) = Holds(d)
    <3>1. wallet'[c].pending + wallet'[c].balance + m = wallet[c].pending + wallet[c].balance
          /\ (d # c => wallet'[d] = wallet[d])
      BY <1>0, <2>1, <2>2, <2>3, PoolsLose
    <3>2. /\ wallet'[d].pending \in Nat /\ wallet'[d].balance \in Nat /\ spent[d] \in Nat
          /\ wallet[d].pending \in Nat /\ wallet[d].balance \in Nat
      BY <1>0 DEF TypeOK
    <3> HIDE DEF m, c
    <3> QED BY <2>1, <2>4, <2>6, <3>1, <3>2 DEF Holds, c
  <2>8. Took(rev'[k]) = m + Took(rev[k])
    BY <2>1, <2>2, <2>4 DEF Took
  <2> HIDE DEF m, rest
  <2> QED BY <1>0, <2>1, <2>4, <2>5, <2>6, <2>7, <2>8, MoneyGoesBack
<1>7. ASSUME NEW r \in Records, ProcessRecord(r)
      PROVE  Repaid' /\ MoneyConserved'
  <2> DEFINE i == r.intent
  <2>1. /\ UNCHANGED <<credited, direct, spent, rev>>
        /\ (wallet' = wallet \/ (Settleable(i) /\ wallet' = SettledWallet(i)))
    BY <1>7 DEF ProcessRecord, reversalVars
  <2>2. \A c \in Customers : Holds(c)' = Holds(c)
    BY <1>0, <2>1, OwnerTypes, PoolsShift DEF Holds
  <2> QED BY <2>1, <2>2, MoneyShifts DEF Repaid
<1>8. ASSUME NEW i \in Intents, OpsManualTopupConfirm(i)
      PROVE  Repaid' /\ MoneyConserved'
  <2>1. CASE ConfirmManualTopup(i)
    BY <1>3, <2>1 DEF ConfirmManualTopup, Inv, CameIn, reversalVars
  <2>2. CASE ReconfirmManualTopup(i)
    BY <1>1, <2>2 DEF ReconfirmManualTopup, moneyVars, reversalVars
  <2> QED BY <1>8, <2>1, <2>2 DEF OpsManualTopupConfirm
<1>9. ASSUME NEW i \in Intents, NEW k \in OpsKeys, OpsTopupReversal(k, i)
      PROVE  Repaid' /\ MoneyConserved'
  <2>1. PICK n \in 1..Amount[i] : ApplyReversal(k, i, n)
    BY <1>9 DEF OpsTopupReversal
  <2>2. k \in Keys /\ n \in Nat
    BY OwnerTypes DEF Keys
  <2> QED BY <1>5, <1>9, <2>1, <2>2 DEF OpsTopupReversal
<1>10. ASSUME NEW e \in Events, PaymentEvent(e) \/ ReversalEvent(e)
       PROVE  Repaid' /\ MoneyConserved'
  <2>1. e \in Keys /\ e.intent \in Intents /\ ReversalAmount(e) \in Nat
    BY OwnerTypes DEF ReversalAmount, Keys
  <2> QED BY <1>4, <1>5, <1>10, <2>1 DEF PaymentEvent, ReversalEvent, reversalVars
<1>11. ASSUME NEW i \in Intents, CreateTopup(i) \/ \E answer \in Answers : FinalizeTopup(i, answer)
       PROVE  Repaid' /\ MoneyConserved'
  BY <1>1, <1>4, <1>11 DEF CreateTopup, FinalizeTopup, moneyVars, reversalVars
<1>12. CASE UNCHANGED vars \/ \E r \in Records : RecordRow(r)
  BY <1>1, <1>12 DEF vars, RecordRow, moneyVars, reversalVars
<1> QED BY <1>2, <1>6, <1>7, <1>8, <1>9, <1>10, <1>11, <1>12
       DEF Next, ProviderWebhook, IyzicoWebhook

LEMMA MoneyInit == Init => Repaid /\ MoneyConserved
<1> SUFFICES ASSUME Init PROVE Repaid /\ MoneyConserved
  OBVIOUS
<1>1. \A k \in Keys : rev[k].state = "NONE"
  BY DEF Init, NoReversal
<1>2. ASSUME NEW c \in Customers
      PROVE  TakenBack(c) = 0 /\ PaidIn(c) = 0 /\ Holds(c) = 0
  <2>1. \A f : SumFunctionOnSet(f, {}) = 0
    BY SumEmpty
  <2>2. Reversals(c) = {} /\ {i \in credited : Owner[i] = c} = {} /\ {i \in direct : Owner[i] = c} = {}
    BY <1>1 DEF Init, Reversals
  <2>3. TakenBack(c) = 0 /\ Paid(credited, c) = 0 /\ Paid(direct, c) = 0
    BY <2>1, <2>2 DEF TakenBack, Paid, SumFunction
  <2>4. Holds(c) = 0
    BY DEF Init, Holds, NewWallet
  <2> QED BY <2>3, <2>4 DEF PaidIn
<1> QED BY <1>1, <1>2 DEF Repaid, MoneyConserved, Holds

(* What a customer has paid in is waiting, available, spent, or taken back *)
(* by the provider: webhooks, callbacks, confirmations, settlements and    *)
(* reversals, in any order and repeated, neither create nor lose money.    *)
THEOREM MoneyIsConserved == Spec => []MoneyConserved
<1>1. Inv /\ Inv' /\ Repaid /\ MoneyConserved /\ [Next]_vars => Repaid' /\ MoneyConserved'
  BY MoneyStep
<1> QED BY <1>1, MoneyInit, Invariance, PTL DEF Spec

-----------------------------------------------------------------------------
(* What TopUpPromise sees of a state.                                      *)
LEMMA ClaimedIs ==
  ASSUME Inv
  PROVE  /\ \A i \in Intents : OpenClaims(i) = {} => Claimed[i] = reversedTotal[i]
         /\ \A i \in Intents, k \in Keys :
              OpenClaims(i) = {k} => Claimed[i] = reversedTotal[i] + rev[k].amount
<1>1. ASSUME NEW i \in Intents, OpenClaims(i) = {}
      PROVE  Claimed[i] = reversedTotal[i]
  BY <1>1 DEF Claimed, Inv, TypeOK
<1>2. ASSUME NEW i \in Intents, NEW k \in Keys, OpenClaims(i) = {k}
      PROVE  Claimed[i] = reversedTotal[i] + rev[k].amount
  BY <1>2 DEF Claimed
<1> QED BY <1>1, <1>2

(* A step that leaves the reversals alone and, of one intent at most,      *)
(* credits the provider's payment, settles it, or credits it by hand.      *)
Kept(j) ==
  /\ j \in credited' <=> j \in credited
  /\ j \in direct' <=> j \in direct
  /\ intent'[j].settled = intent[j].settled

LEMMA MoneyMoves ==
  ASSUME Inv, UNCHANGED reversalVars, NEW i \in Intents,
         \A j \in Intents \ {i} : Kept(j),
         \/ Kept(i)
         \/ /\ i \notin credited /\ i \in credited'
            /\ (i \in direct' <=> i \in direct) /\ intent'[i].settled = intent[i].settled
         \/ /\ i \notin direct /\ i \in direct' /\ (i \in credited' <=> i \in credited)
            /\ ~intent[i].settled /\ intent'[i].settled
         \/ /\ i \in credited /\ i \in credited' /\ i \notin direct /\ i \notin direct'
            /\ ~intent[i].settled /\ intent'[i].settled
  PROVE  [Promise!Next]_(Promise!vars)
<1>1. Claimed' = Claimed
  BY DEF Claimed, OpenClaims, reversalVars
<1>2. \A j \in Intents \ {i} : Money'[j] = Money[j] /\ ByHand'[j] = ByHand[j]
  BY DEF Money, ByHand, Kept
<1>3. /\ Money = [j \in Intents |-> Money[j]] /\ ByHand = [j \in Intents |-> ByHand[j]]
      /\ Money' = [j \in Intents |-> Money'[j]] /\ ByHand' = [j \in Intents |-> ByHand'[j]]
  BY DEF Money, ByHand
<1>4. CASE Kept(i)
  <2>1. Money' = Money /\ ByHand' = ByHand
    BY <1>4, <1>2, <1>3 DEF Money, ByHand, Kept
  <2> QED BY <1>1, <2>1 DEF Promise!vars
<1>5. CASE /\ i \notin credited /\ i \in credited'
           /\ (i \in direct' <=> i \in direct) /\ intent'[i].settled = intent[i].settled
  <2>1. Money[i] = "NONE" /\ Money'[i] = "PENDING" /\ ByHand'[i] = ByHand[i]
    BY <1>5 DEF Money, ByHand, Inv, CameIn
  <2>2. Money' = [Money EXCEPT ![i] = "PENDING"] /\ ByHand' = ByHand
    BY <1>2, <1>3, <2>1
  <2> QED BY <1>1, <2>1, <2>2 DEF Promise!Next, Promise!Credit
<1>6. CASE /\ i \notin direct /\ i \in direct' /\ (i \in credited' <=> i \in credited)
           /\ ~intent[i].settled /\ intent'[i].settled
  <2>1. Money[i] # "AVAILABLE" /\ Money'[i] = Money[i] /\ ~ByHand[i] /\ ByHand'[i] = TRUE
    BY <1>6 DEF Money, ByHand
  <2>2. Money' = Money /\ ByHand' = [ByHand EXCEPT ![i] = TRUE]
    BY <1>2, <1>3, <2>1
  <2> QED BY <1>1, <2>1, <2>2 DEF Promise!Next, Promise!CreditByHand
<1>7. CASE /\ i \in credited /\ i \in credited' /\ i \notin direct /\ i \notin direct'
           /\ ~intent[i].settled /\ intent'[i].settled
  <2>1. Money[i] = "PENDING" /\ Money'[i] = "AVAILABLE"
    BY <1>7 DEF Money
  <2>2. ~ByHand[i] /\ ByHand'[i] = ByHand[i]
    <3>1. ByHand[i] = (i \in direct) /\ ByHand'[i] = (i \in direct')
      BY DEF ByHand
    <3>2. (i \in direct) = FALSE /\ (i \in direct') = FALSE
      BY <1>7
    <3> QED BY <3>1, <3>2
  <2>3. Money' = [Money EXCEPT ![i] = "AVAILABLE"] /\ ByHand' = ByHand
    BY <1>2, <1>3, <2>1, <2>2
  <2> QED BY <1>1, <2>1, <2>2, <2>3 DEF Promise!Next, Promise!Settle
<1> QED BY <1>4, <1>5, <1>6, <1>7

(* A reversal takes back more of a top-up that came in: it is claimed in   *)
(* full at once, whether or not the wallet covers it.                      *)
LEMMA ReversalClaims ==
  ASSUME Inv, Inv', NEW k \in Keys, NEW i \in Intents, NEW n \in Nat, ApplyReversal(k, i, n),
         UNCHANGED <<intent, credited, direct>>
  PROVE  [Promise!Next]_(Promise!vars)
<1> DEFINE rest == Uncovered(Owner[i], n)
<1>1. /\ rev[k].state = "NONE" /\ wallet[Owner[i]].active /\ intent[i].status = "PAID"
      /\ n >= 1 /\ reversedTotal[i] + n <= Amount[i]
      /\ rev' = [rev EXCEPT ![k] = [state |-> IF rest = 0 THEN "APPLIED" ELSE "OPEN",
                                    intent |-> i, amount |-> n, outstanding |-> rest]]
      /\ reversedTotal' = IF rest = 0 THEN [reversedTotal EXCEPT ![i] = @ + n] ELSE reversedTotal
  BY DEF ApplyReversal, Reversible, Operable, Fresh
<1> HIDE DEF rest
<1>2. TypeOK /\ CameIn /\ Owner[i] \in Customers /\ Amount[i] \in Nat
  BY OwnerTypes DEF Inv
<1>3. OpenClaims(i) = {}
  BY <1>1, <1>2 DEF Inv, RestrictedWhileUnderReview, UnderReview, OpenClaims
<1>4. Claimed[i] = reversedTotal[i] /\ reversedTotal[i] \in Nat
  BY <1>2, <1>3, ClaimedIs DEF TypeOK
<1>5. \A j \in Intents \ {i} : OpenClaims(j)' = OpenClaims(j) /\ k \notin OpenClaims(j)
  BY <1>1, <1>2 DEF OpenClaims, TypeOK
<1>6. \A j \in Intents \ {i} : reversedTotal'[j] = reversedTotal[j]
  BY <1>1, <1>2 DEF TypeOK
<1>7. \A j \in Keys \ {k} : rev'[j] = rev[j]
  BY <1>1, <1>2 DEF TypeOK
<1>8. \A j \in Intents \ {i} : Claimed'[j] = Claimed[j]
  <2> SUFFICES ASSUME NEW j \in Intents \ {i} PROVE Claimed'[j] = Claimed[j]
    OBVIOUS
  <2>1. CASE OpenClaims(j) = {}
    BY <2>1, <1>5, <1>6 DEF Claimed
  <2>2. CASE OpenClaims(j) # {}
    <3>1. (CHOOSE q \in OpenClaims(j) : TRUE) \in Keys \ {k}
      <4>1. PICK q \in OpenClaims(j) : TRUE
        BY <2>2
      <4>2. (CHOOSE p \in OpenClaims(j) : TRUE) \in OpenClaims(j)
        BY <4>1, Zenon
      <4>3. OpenClaims(j) \subseteq Keys \ {k}
        BY <1>5 DEF OpenClaims
      <4> QED BY <4>2, <4>3
    <3>2. Claimed[j] = reversedTotal[j] + rev[CHOOSE q \in OpenClaims(j) : TRUE].amount
      BY <2>2 DEF Claimed
    <3>3. OpenClaims(j)' # {}
      BY <2>2, <1>5
    <3>4. Claimed'[j] = reversedTotal'[j] + rev'[CHOOSE q \in OpenClaims(j)' : TRUE].amount
      BY <3>3 DEF Claimed
    <3>5. Claimed'[j] = reversedTotal'[j] + rev'[CHOOSE q \in OpenClaims(j) : TRUE].amount
      BY <3>4, <1>5
    <3> QED BY <3>1, <3>2, <3>5, <1>5, <1>6, <1>7
  <2> QED BY <2>1, <2>2
<1>9. Claimed'[i] = Claimed[i] + n
  <2>1. CASE rest = 0
    <3>1. OpenClaims(i)' = {}
      BY <1>1, <1>2, <1>3, <2>1 DEF OpenClaims, TypeOK
    <3>2. reversedTotal'[i] = reversedTotal[i] + n
      BY <1>1, <1>2, <2>1 DEF TypeOK
    <3>3. Claimed'[i] = reversedTotal'[i] + 0
      BY <3>1 DEF Claimed
    <3> QED BY <3>2, <3>3, <1>4
  <2>2. CASE rest # 0
    <3>1. OpenClaims(i)' = {k} /\ rev'[k].amount = n
      BY <1>1, <1>2, <1>3, <2>2 DEF OpenClaims, TypeOK
    <3>2. reversedTotal' = reversedTotal
      BY <1>1, <2>2
    <3>3. Claimed'[i] = reversedTotal'[i] + rev'[k].amount
      BY <3>1 DEF Claimed
    <3> QED BY <3>1, <3>2, <3>3, <1>4
  <2> QED BY <2>1, <2>2
<1>10. Money' = Money /\ ByHand' = ByHand /\ (Money[i] # "NONE" \/ ByHand[i])
  BY <1>1, <1>2 DEF Money, ByHand, CameIn
<1>11. Claimed' = [Claimed EXCEPT ![i] = Claimed[i] + n]
  BY <1>8, <1>9 DEF Claimed
<1>12. n \in 1..(Amount[i] - Claimed[i])
  BY <1>1, <1>2, <1>4
<1>13. Promise!Reverse(i)
  BY <1>10, <1>11, <1>12 DEF Promise!Reverse
<1> QED BY <1>13 DEF Promise!Next

(* A review only closes what was claimed already.                          *)
LEMMA ReviewClaims ==
  ASSUME Inv, Inv', NEW k \in Keys, ResolveReview(k)
  PROVE  [Promise!Next]_(Promise!vars)
<1>1. /\ TypeOK /\ rev[k].state = "OPEN"
      /\ rev[k].intent \in Intents /\ rev[k].amount \in Nat
  BY DEF Inv, TypeOK, ResolveReview
<1>0. PICK i \in Intents : i = rev[k].intent
  BY <1>1
<1> DEFINE rest == Uncovered(Owner[i], rev[k].outstanding)
<1>2. /\ rev' = [rev EXCEPT ![k] = [state |-> IF rest = 0 THEN "APPLIED" ELSE "OPEN",
                                    intent |-> i, amount |-> rev[k].amount, outstanding |-> rest]]
      /\ reversedTotal' = IF rest = 0 THEN [reversedTotal EXCEPT ![i] = @ + rev[k].amount]
                                      ELSE reversedTotal
      /\ UNCHANGED <<intent, credited, direct>>
  BY <1>0 DEF ResolveReview
<1> HIDE DEF rest
<1>3. OpenClaims(i) = {k}
  BY <1>0, <1>1 DEF Inv, OneReview, OpenClaims
<1>4. \A j \in Keys \ {k} : rev'[j] = rev[j]
  BY <1>1, <1>2 DEF TypeOK
<1>5. \A j \in Intents \ {i} : OpenClaims(j)' = OpenClaims(j) /\ k \notin OpenClaims(j)
  BY <1>0, <1>1, <1>2 DEF OpenClaims, TypeOK
<1>6. \A j \in Intents \ {i} : reversedTotal'[j] = reversedTotal[j]
  BY <1>1, <1>2 DEF TypeOK
<1>7. \A j \in Intents \ {i} : Claimed'[j] = Claimed[j]
  <2> SUFFICES ASSUME NEW j \in Intents \ {i} PROVE Claimed'[j] = Claimed[j]
    OBVIOUS
  <2>1. CASE OpenClaims(j) = {}
    BY <2>1, <1>5, <1>6 DEF Claimed
  <2>2. CASE OpenClaims(j) # {}
    <3>1. (CHOOSE q \in OpenClaims(j) : TRUE) \in Keys \ {k}
      <4>1. PICK q \in OpenClaims(j) : TRUE
        BY <2>2
      <4>2. (CHOOSE p \in OpenClaims(j) : TRUE) \in OpenClaims(j)
        BY <4>1, Zenon
      <4>3. OpenClaims(j) \subseteq Keys \ {k}
        BY <1>5 DEF OpenClaims
      <4> QED BY <4>2, <4>3
    <3>2. Claimed[j] = reversedTotal[j] + rev[CHOOSE q \in OpenClaims(j) : TRUE].amount
      BY <2>2 DEF Claimed
    <3>3. OpenClaims(j)' # {}
      BY <2>2, <1>5
    <3>4. Claimed'[j] = reversedTotal'[j] + rev'[CHOOSE q \in OpenClaims(j)' : TRUE].amount
      BY <3>3 DEF Claimed
    <3>5. Claimed'[j] = reversedTotal'[j] + rev'[CHOOSE q \in OpenClaims(j) : TRUE].amount
      BY <3>4, <1>5
    <3> QED BY <3>1, <3>2, <3>5, <1>4, <1>5, <1>6
  <2> QED BY <2>1, <2>2
<1>8. Claimed[i] = reversedTotal[i] + rev[k].amount
  BY <1>1, <1>3, ClaimedIs
<1>9. Claimed'[i] = Claimed[i]
  <2>1. CASE rest = 0
    <3>1. OpenClaims(i)' = {}
      BY <1>1, <1>2, <1>3, <2>1 DEF OpenClaims, TypeOK
    <3>2. reversedTotal'[i] = reversedTotal[i] + rev[k].amount
      BY <1>1, <1>2, <2>1 DEF TypeOK
    <3>3. Claimed'[i] = reversedTotal'[i] + 0
      BY <1>1, <3>1 DEF Claimed
    <3> QED BY <3>2, <3>3, <1>1, <1>8 DEF TypeOK
  <2>2. CASE rest # 0
    <3>1. OpenClaims(i)' = {k} /\ rev'[k].amount = rev[k].amount
      BY <1>1, <1>2, <1>3, <2>2 DEF OpenClaims, TypeOK
    <3>2. reversedTotal' = reversedTotal
      BY <1>2, <2>2
    <3>3. Claimed'[i] = reversedTotal'[i] + rev'[k].amount
      BY <1>1, <3>1 DEF Claimed
    <3> QED BY <3>1, <3>2, <3>3, <1>8
  <2> QED BY <2>1, <2>2
<1>10. Claimed' = Claimed
  BY <1>7, <1>9 DEF Claimed
<1>11. Money' = Money /\ ByHand' = ByHand
  BY <1>2 DEF Money, ByHand
<1> QED BY <1>10, <1>11 DEF Promise!vars

LEMMA PromiseStep ==
  Inv /\ Inv' /\ [Next]_vars => [Promise!Next]_(Promise!vars)
<1> SUFFICES ASSUME Inv, Inv', [Next]_vars PROVE [Promise!Next]_(Promise!vars)
  OBVIOUS
<1>0. TypeOK /\ CameIn /\ TypeOK' /\ CameIn'
  BY DEF Inv
<1>1. ASSUME UNCHANGED <<intent, credited, direct, reversalVars>>
      PROVE  [Promise!Next]_(Promise!vars)
  <2>1. Money' = Money /\ ByHand' = ByHand /\ Claimed' = Claimed
    BY <1>1 DEF Money, ByHand, Claimed, OpenClaims, reversalVars
  <2> QED BY <2>1 DEF Promise!vars
<1>2. ASSUME NEW i \in Intents, CreateTopup(i)
      PROVE  [Promise!Next]_(Promise!vars)
  <2>1. /\ UNCHANGED <<credited, direct, reversalVars>>
        /\ \A j \in Intents : intent'[j].settled = intent[j].settled
    BY <1>0, <1>2 DEF CreateTopup, NewIntent, moneyVars, TypeOK
  <2> QED BY <2>1, MoneyMoves DEF Kept
<1>3. ASSUME NEW i \in Intents, ReconfirmManualTopup(i)
      PROVE  [Promise!Next]_(Promise!vars)
  <2>1. /\ UNCHANGED <<credited, direct, reversalVars>>
        /\ \A j \in Intents : intent'[j].settled = intent[j].settled
    BY <1>0, <1>3 DEF ReconfirmManualTopup, moneyVars, TypeOK
  <2> QED BY <2>1, MoneyMoves DEF Kept
<1>4. ASSUME NEW i \in Intents, ConfirmManualTopup(i)
      PROVE  [Promise!Next]_(Promise!vars)
  <2>1. /\ UNCHANGED <<credited, reversalVars>> /\ direct' = direct \union {i}
        /\ ~intent[i].settled /\ intent'[i].settled
        /\ \A j \in Intents \ {i} : intent'[j].settled = intent[j].settled
    BY <1>0, <1>4 DEF ConfirmManualTopup, CreditBalance, TypeOK
  <2>2. i \notin direct
    BY <1>0, <2>1 DEF CameIn
  <2> QED BY <2>1, <2>2, MoneyMoves DEF Kept
<1>5. ASSUME NEW i \in Intents, NEW answer, TerminalEvent(i, answer), UNCHANGED reversalVars
      PROVE  [Promise!Next]_(Promise!vars)
  <2>1. /\ direct' = direct /\ credited' \in {credited, credited \union {i}}
        /\ \A j \in Intents : intent'[j].settled = intent[j].settled
    <3>1. CASE AlreadyProcessed(i, answer) \/ Ignored(answer)
      BY <3>1 DEF AlreadyProcessed, Ignored, moneyVars
    <3>2. CASE Succeeds(i, answer)
      BY <1>0, <3>2 DEF Succeeds, CreditPending, MarkTerminal, TypeOK
    <3>3. CASE Fails(i, answer)
      BY <1>0, <3>3 DEF Fails, MarkTerminal, moneyVars, TypeOK
    <3> QED BY <1>5, <3>1, <3>2, <3>3 DEF TerminalEvent
  <2> QED BY <1>5, <2>1, MoneyMoves DEF Kept
<1>6. ASSUME NEW r \in Records, ProcessRecord(r)
      PROVE  [Promise!Next]_(Promise!vars)
  <2> DEFINE i == r.intent
  <2>1. i \in Intents
    BY OwnerTypes
  <2>2. /\ UNCHANGED <<credited, direct, reversalVars>> /\ Applicable(r)
        /\ intent' = [intent EXCEPT ![i].settled = TRUE]
    BY <1>6 DEF ProcessRecord
  <2>3. i \in credited \union direct /\ (i \in direct => intent[i].settled)
    BY <1>0, <2>1, <2>2 DEF Applicable, CameIn
  <2>4. intent'[i].settled = TRUE
    BY <1>0, <2>1, <2>2 DEF TypeOK
  <2>5. \A j \in Intents \ {i} : intent'[j].settled = intent[j].settled
    BY <1>0, <2>1, <2>2 DEF TypeOK
  <2>6. intent[i].settled \in BOOLEAN
    BY <1>0, <2>1 DEF TypeOK
  <2> HIDE DEF i
  <2> QED BY <2>1, <2>2, <2>3, <2>4, <2>5, <2>6, MoneyMoves DEF Kept
<1>7. ASSUME NEW e \in Events, ReversalEvent(e)
      PROVE  [Promise!Next]_(Promise!vars)
  <2>1. e \in Keys /\ e.intent \in Intents /\ ReversalAmount(e) \in Nat
    BY OwnerTypes DEF ReversalAmount, Keys
  <2> QED BY <1>7, <2>1, ReversalClaims DEF ReversalEvent
<1>8. ASSUME NEW k \in OpsKeys, NEW i \in Intents, OpsTopupReversal(k, i)
      PROVE  [Promise!Next]_(Promise!vars)
  <2>1. PICK n \in 1..Amount[i] : ApplyReversal(k, i, n)
    BY <1>8 DEF OpsTopupReversal
  <2>2. k \in Keys /\ n \in Nat
    BY OwnerTypes DEF Keys
  <2> QED BY <1>8, <2>1, <2>2, ReversalClaims DEF OpsTopupReversal
<1>9. ASSUME NEW k \in Keys, ResolveReview(k)
      PROVE  [Promise!Next]_(Promise!vars)
  BY <1>9, ReviewClaims
<1>10. CASE \E c \in Customers : Purchase(c) \/ Refund(c)
  BY <1>1, <1>10 DEF Purchase, Refund
<1>11. CASE \E r \in Records : RecordRow(r)
  BY <1>1, <1>11 DEF RecordRow, moneyVars
<1>12. CASE UNCHANGED vars
  BY <1>1, <1>12 DEF vars, reversalVars
<1>13. CASE \E i \in Intents, answer \in Answers : FinalizeTopup(i, answer)
  BY <1>5, <1>13 DEF FinalizeTopup
<1>14. CASE \E e \in Events : PaymentEvent(e)
  BY <1>5, <1>14, OwnerTypes DEF PaymentEvent
<1> QED BY <1>2, <1>3, <1>4, <1>6, <1>7, <1>8, <1>9, <1>10, <1>11, <1>12, <1>13, <1>14
     DEF Next, OpsManualTopupConfirm, ProviderWebhook, IyzicoWebhook

-----------------------------------------------------------------------------
(* Whatever webhooks, callbacks, settlement rows and operators do, and     *)
(* whichever intents they name, bank transfers too: the provider's payment *)
(* is credited and settled at most once, an operator's confirmation        *)
(* credits once and only what is not settled, and no more is taken back    *)
(* than one payment.                                                       *)
THEOREM TopUpsKeepPromise == Spec => KeepsTopUpPromise
<1>1. Init => Promise!Init
  <2> SUFFICES ASSUME Init PROVE Promise!Init
    OBVIOUS
  <2>1. \A i \in Intents : OpenClaims(i) = {}
    BY DEF Init, OpenClaims, NoReversal
  <2>2. Money = [i \in Intents |-> "NONE"] /\ Claimed = [i \in Intents |-> 0]
    BY <2>1 DEF Init, Money, Claimed
  <2>3. ByHand = [i \in Intents |-> FALSE]
    <3>1. \A i \in Intents : (i \in direct) = FALSE
      BY DEF Init
    <3> QED BY <3>1 DEF ByHand
  <2> QED BY <2>2, <2>3 DEF Promise!Init
<1> QED BY <1>1, PromiseStep, Invariance, PTL DEF Spec, KeepsTopUpPromise, Promise!Spec

-----------------------------------------------------------------------------
(* From the promise alone: nothing is taken back of a top-up that never    *)
(* came in, by the provider or by hand, and never more than one payment.   *)
Covered(i) ==
  /\ Claimed[i] \in 0..Amount[i]
  /\ Money[i] = "NONE" /\ ~ByHand[i] => Claimed[i] = 0

LEMMA CoveredStep ==
  Promise!ClaimsCovered /\ [Promise!Next]_(Promise!vars) => Promise!ClaimsCovered'
<1> SUFFICES ASSUME Promise!ClaimsCovered, [Promise!Next]_(Promise!vars), NEW j \in Intents
             PROVE  Covered(j)'
  BY DEF Promise!ClaimsCovered, Covered
<1>0. Covered(j) /\ Amount[j] \in Nat
  BY OwnerTypes DEF Promise!ClaimsCovered, Covered
<1>1. /\ Claimed = [i \in Intents |-> Claimed[i]] /\ Money = [i \in Intents |-> Money[i]]
      /\ ByHand = [i \in Intents |-> ByHand[i]]
  BY DEF Claimed, Money, ByHand
<1>2. CASE UNCHANGED Promise!vars
  BY <1>0, <1>2 DEF Covered, Promise!vars
<1>3. ASSUME NEW i \in Intents, Promise!Credit(i) \/ Promise!Settle(i) \/ Promise!CreditByHand(i)
      PROVE  Covered(j)'
  <2>1. Claimed' = Claimed /\ (Money'[j] = "NONE" /\ ~ByHand'[j] => Money[j] = "NONE" /\ ~ByHand[j])
    BY <1>1, <1>3 DEF Promise!Credit, Promise!Settle, Promise!CreditByHand
  <2> QED BY <1>0, <2>1 DEF Covered
<1>4. ASSUME NEW i \in Intents, Promise!Reverse(i)
      PROVE  Covered(j)'
  <2>1. Money' = Money /\ ByHand' = ByHand /\ (Money[i] # "NONE" \/ ByHand[i])
    BY <1>4 DEF Promise!Reverse
  <2>2. PICK n \in 1..(Amount[i] - Claimed[i]) : Claimed' = [Claimed EXCEPT ![i] = Claimed[i] + n]
    BY <1>4 DEF Promise!Reverse
  <2>3. CASE i # j
    <3>1. Claimed'[j] = Claimed[j]
      BY <2>2, <2>3, <1>1
    <3> QED BY <1>0, <2>1, <3>1 DEF Covered
  <2>4. CASE i = j
    <3>1. Claimed'[j] = Claimed[j] + n
      BY <2>2, <2>4, <1>1
    <3>2. Claimed[j] + n \in 0..Amount[j]
      BY <1>0, <2>4 DEF Covered
    <3> QED BY <2>1, <2>4, <3>1, <3>2 DEF Covered
  <2> QED BY <2>3, <2>4
<1> QED BY <1>2, <1>3, <1>4 DEF Promise!Next

THEOREM ClaimsAlwaysCovered == Promise!Spec => []Promise!ClaimsCovered
<1>1. Promise!Init => Promise!ClaimsCovered
  BY OwnerTypes DEF Promise!Init, Promise!ClaimsCovered
<1> QED BY <1>1, CoveredStep, PTL DEF Promise!Spec
=============================================================================
