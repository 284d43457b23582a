-------------------------- MODULE OnboardingProofs --------------------------
(* An approved business has an active account, and a key's action commits  *)
(* once, whatever the numbers of businesses, requests, keys and faults.    *)
(* At the end, the members of a business: what the check of a membership   *)
(* change is worth when no other request runs beside it.                   *)
EXTENDS Onboarding, TLAPS

(* The requests that run the action of a key.                              *)
Runs(r, k) == req[r].pc \in InTransaction \union {"RECORDED", "COMMITTED"} /\ req[r].key = k

(* What a key's record, its runs and its commits say of each other: a run  *)
(* holds the record IN_PROGRESS and is the only one; only a COMMITTED run  *)
(* has committed while it lasts.                                           *)
KeyAgrees(k) ==
  /\ commits[k] \in {0, 1}
  /\ record[k].state = "NONE" => commits[k] = 0
  /\ record[k].state = "COMPLETED" => commits[k] = 1
  /\ \A r \in Requests : Runs(r, k) =>
       /\ record[k].state = "IN_PROGRESS"
       /\ commits[k] = IF req[r].pc = "COMMITTED" THEN 1 ELSE 0
       /\ \A q \in Requests : Runs(q, k) => q = r

Inv ==
  /\ TypeOK
  /\ ApprovedIsActive
  /\ \A k \in IdemKeys : KeyAgrees(k)

Request == {Free} \union Waiting \union Talking \union Answering
Records == [state: {"NONE", "IN_PROGRESS", "COMPLETED", "FAILED"}, code: {0, 200, 202, 409, 422}]
Accounts == [key: 0..MaxAccounts, status: ProviderStatus, doubt: BOOLEAN]
Bounds == [accounts: 0..MaxAccounts, decisions: 0..MaxDecisions,
           lapses: 0..MaxLapses, crashes: 0..MaxCrashes]

-----------------------------------------------------------------------------
(* The shapes a request may have.                                          *)

LEMMA Shapes ==
  ASSUME NEW q \in Request
  PROVE  /\ q.pc = "FREE" => q = Free
         /\ q.pc \in {"LOCKED", "RECORDED"} => q \in Waiting
         /\ q.pc \in InTransaction => q \in Talking
         /\ q.pc = "COMMITTED" => q \in Answering
BY DEF Request, Free, Waiting, Talking, Answering, InTransaction, Calling

LEMMA TalkingIs ==
  ASSUME NEW q \in Talking
  PROVE  /\ q = [pc |-> q.pc, on |-> q.on, key |-> q.key, row |-> q.row,
                 why |-> q.why, got |-> q.got, said |-> q.said]
         /\ q.pc \in InTransaction /\ q.on \in Businesses /\ q.key \in IdemKeys /\ q.row \in Row
         /\ q.why \in {"NONE", "DUPLICATE", "CREATED"} \union Errors
         /\ q.got \in Keys /\ q.said \in Said
BY DEF Talking

LEMMA RowIs ==
  ASSUME NEW row \in Row
  PROVE  /\ row = [payout |-> row.payout, sub |-> row.sub, key |-> row.key, synced |-> row.synced]
         /\ row.payout \in PayoutStatus /\ row.sub \in SubmerchantStatus
         /\ row.key \in Keys /\ row.synced \in BOOLEAN
BY DEF Row

(* A row that a call leaves is a row.                                      *)
LEMMA RowsMarked ==
  ASSUME NEW row \in Row, NEW key \in Keys, NEW said \in Said
  PROVE  /\ NeedsReview(row) \in Row /\ Refused(row) \in Row
         /\ Marked(row, key, said) \in Row
         /\ [row EXCEPT !.key = key] \in Row
<1>1. Local(said) \in SubmerchantStatus
  BY DEF Local, SubmerchantStatus
<1>2. \A s \in SubmerchantStatus, k \in Keys, y \in BOOLEAN :
        [row EXCEPT !.key = k, !.synced = y, !.sub = s] \in Row
  BY DEF Row
<1>3. NeedsReview(row) \in Row /\ Refused(row) \in Row
  BY DEF NeedsReview, Refused, Row, SubmerchantStatus
<1>4. Marked(row, key, said) \in Row
  BY <1>1, <1>2 DEF Marked, SubmerchantStatus
<1>5. [row EXCEPT !.key = key] \in Row
  BY DEF Row
<1> QED BY <1>3, <1>4, <1>5

(* The verdict on a row keeps what an approval stands for.                 *)
LEMMA VerdictSound ==
  ASSUME NEW was \in Row, NEW row \in Row,
         was.payout = "APPROVED" => was.sub = "ACTIVE" /\ was.key # 0
  PROVE  /\ Verdict(was, row) \in Row
         /\ Verdict(was, row).payout = "APPROVED" =>
              Verdict(was, row).sub = "ACTIVE" /\ Verdict(was, row).key # 0
<1> DEFINE Sound(v) == v \in Row /\ (v.payout = "APPROVED" => v.sub = "ACTIVE" /\ v.key # 0)
<1>1. \A p \in PayoutStatus \ {"APPROVED"} : Sound([row EXCEPT !.payout = p])
  BY DEF Row
<1>2. Approved(row) => Sound([row EXCEPT !.payout = "APPROVED"])
  BY DEF Row, Approved, PayoutStatus
<1>3. Sound([row EXCEPT !.payout = "PENDING", !.sub = "PENDING"])
  BY DEF Row, PayoutStatus, SubmerchantStatus
<1>4. Sound(Kept(was, row))
  <2>1. CASE was.payout = "APPROVED"
    <3>1. Kept(was, row) = [row EXCEPT !.payout = "APPROVED", !.sub = "ACTIVE", !.key = was.key]
      BY <2>1 DEF Kept
    <3>2. was.key \in Keys /\ was.key # 0
      BY <2>1 DEF Row
    <3> QED BY <3>1, <3>2 DEF Row, PayoutStatus, SubmerchantStatus
  <2>2. CASE was.payout # "APPROVED"
    <3>1. Kept(was, row) = [row EXCEPT !.payout = was.payout]
      BY <2>2 DEF Kept
    <3>2. was.payout \in PayoutStatus \ {"APPROVED"}
      BY <2>2 DEF Row
    <3> QED BY <3>1, <3>2, <1>1
  <2> QED BY <2>1, <2>2
<1>5. Sound(Inconclusive(was, row))
  <2> HIDE DEF Sound
  <2>1. "NEEDS_REVIEW" \in PayoutStatus \ {"APPROVED"}
    BY DEF PayoutStatus
  <2> QED BY <1>1, <1>3, <1>4, <2>1 DEF Inconclusive
<1>6. Sound(Verdict(was, row))
  <2> HIDE DEF Sound
  <2>1. {"PENDING", "REJECTED"} \subseteq PayoutStatus \ {"APPROVED"}
    BY DEF PayoutStatus
  <2> QED BY <1>1, <1>2, <1>5, <2>1 DEF Verdict
<1> QED BY <1>6

-----------------------------------------------------------------------------
(* A step of a conversation changes nothing but the request's own memory,  *)
(* the provider's accounts and the bounds.                                 *)

Conversed(r) ==
  /\ \E q \in Talking : /\ req' = [req EXCEPT ![r] = q]
                        /\ q.on = req[r].on /\ q.key = req[r].key
  /\ acct' \in [Businesses -> Accounts]
  /\ bounds' \in Bounds

LEMMA TalkStep ==
  ASSUME TypeOK, NEW r \in Requests, Talk(r)
  PROVE  Conversed(r) /\ req[r] \in Talking
<1> DEFINE q == req[r]
           Moves(p) == p \in Talking /\ p.on = q.on /\ p.key = q.key
           Into(p) == req' = [req EXCEPT ![r] = p]
<1>1. q \in Talking
  <2>1. q.pc \in Calling
    BY DEF Talk, UpdateAnswered, UpdateUnknown, AccountOpened, CreateDuplicate, LookupFinds,
           LookupFindsNothing, Reupdate, DetailAnswered, DetailFails, UpdateFails, CreateFails,
           LookupFails, Calling
  <2> QED BY <2>1, Shapes DEF TypeOK, Request, InTransaction
<1>2. /\ q = [pc |-> q.pc, on |-> q.on, key |-> q.key, row |-> q.row,
              why |-> q.why, got |-> q.got, said |-> q.said]
      /\ q.pc \in InTransaction /\ q.on \in Businesses /\ q.key \in IdemKeys /\ q.row \in Row
      /\ q.why \in {"NONE", "DUPLICATE", "CREATED"} \union Errors
      /\ q.got \in Keys /\ q.said \in Said
  BY <1>1, TalkingIs
<1>3. \A row \in Row : Mark(r, row) => \E p : Moves(p) /\ Into(p)
  <2> SUFFICES ASSUME NEW row \in Row, Mark(r, row) PROVE \E p : Moves(p) /\ Into(p)
    OBVIOUS
  <2> DEFINE p == [pc |-> "MARKED", on |-> q.on, key |-> q.key, row |-> row,
                   why |-> "NONE", got |-> 0, said |-> "NOTHING"]
  <2>1. Moves(p)
    BY <1>2, OnboardingConstants DEF Talking, InTransaction, Keys, Typed, Said
  <2>2. Into(p)
    BY DEF Mark, At
  <2> QED BY <2>1, <2>2
<1>4. \A why \in {"DUPLICATE", "CREATED"} \union Errors :
         Ask(r, why) => \E p : Moves(p) /\ Into(p)
  <2> SUFFICES ASSUME NEW why \in {"DUPLICATE", "CREATED"} \union Errors, Ask(r, why)
               PROVE  \E p : Moves(p) /\ Into(p)
    OBVIOUS
  <2> DEFINE p == [q EXCEPT !.pc = "LOOKUP", !.why = why]
  <2>1. Moves(p)
    BY <1>1 DEF Talking, InTransaction, Calling
  <2>2. Into(p)
    BY DEF Ask
  <2> QED BY <2>1, <2>2
<1>5. \A key \in Keys, said \in Said : Got(r, key, said) => \E p : Moves(p) /\ Into(p)
  <2> SUFFICES ASSUME NEW key \in Keys, NEW said \in Said, Got(r, key, said)
               PROVE  \E p : Moves(p) /\ Into(p)
    OBVIOUS
  <2> DEFINE p == [q EXCEPT !.pc = "DETAIL", !.why = "NONE", !.got = key, !.said = said]
  <2>1. Moves(p)
    BY <1>1 DEF Talking, InTransaction, Calling
  <2>2. Into(p)
    BY DEF Got
  <2> QED BY <2>1, <2>2
<1>6. \A e \in {"DUPLICATE", "CREATED", "NONE"} \union Errors :
         Fail(r, e) => \E p : Moves(p) /\ Into(p)
  BY <1>2, <1>3, RowsMarked, OnboardingConstants DEF Fail, Keys, Typed, Said
<1>7. Mine(r) \in Accounts /\ Mine(r).key \in Keys /\ Reports(r) \subseteq Said
  <2>1. acct \in [Businesses -> Accounts]
    BY DEF TypeOK, Accounts
  <2>2. Mine(r) \in Accounts
    BY <1>2, <2>1 DEF Mine
  <2> QED BY <2>2, OnboardingConstants DEF Accounts, Reports, Keys, Typed, Said
<1>8. \A e : Errs(r, e) => acct' \in [Businesses -> Accounts]
  <2>1. acct \in [Businesses -> Accounts]
    BY DEF TypeOK, Accounts
  <2>2. [Mine(r) EXCEPT !.doubt = TRUE] \in Accounts
    BY <1>7 DEF Accounts
  <2> QED BY <2>1, <2>2, <1>2 DEF Errs, Mine
<1>9. /\ acct \in [Businesses -> Accounts] /\ bounds \in Bounds
      /\ UNCHANGED acct => acct' \in [Businesses -> Accounts]
      /\ UNCHANGED bounds => bounds' \in Bounds
  BY DEF TypeOK, Accounts, Bounds
<1> USE DEF Errors
<1> HIDE DEF Moves, Into
<1>10. CASE UpdateAnswered(r)
  <2>1. q.row.key \in Keys
    BY <1>2, RowIs
  <2>2. \E p : Moves(p) /\ Into(p)
    BY <1>5, <1>7, <1>10, <2>1 DEF UpdateAnswered
  <2> QED BY <1>1, <1>9, <1>10, <2>2 DEF UpdateAnswered, Conversed, Moves, Into
<1>11. CASE UpdateUnknown(r)
  <2>1. q.row.synced => \E p : Moves(p) /\ Into(p)
    BY <1>6, <1>11 DEF UpdateUnknown
  <2>2. ~q.row.synced => \E p : Moves(p) /\ Into(p)
    <3> SUFFICES ASSUME ~q.row.synced PROVE \E p : Moves(p) /\ Into(p)
      OBVIOUS
    <3>0. 0 \in Keys /\ "NOTHING" \in Said
      BY OnboardingConstants DEF Keys, Typed, Said
    <3>1. PICK row \in Row : row = [q.row EXCEPT !.key = 0]
      BY <1>2, <3>0, RowsMarked
    <3>2. Moves([q EXCEPT !.pc = "CREATE", !.row = row])
      BY <1>1 DEF Moves, Talking, InTransaction, Calling
    <3>3. req' = [req EXCEPT ![r].pc = "CREATE", ![r].row.key = 0]
      BY <1>11 DEF UpdateUnknown
    <3>4. Into([q EXCEPT !.pc = "CREATE", !.row = row])
      BY <3>1, <3>3 DEF Into
    <3> QED BY <3>2, <3>4
  <2>3. \E p : Moves(p) /\ Into(p)
    BY <2>1, <2>2
  <2> QED BY <1>1, <1>9, <1>11, <2>3 DEF UpdateUnknown, Conversed, Moves, Into
<1>12. CASE \E e \in Errors : UpdateFails(r, e)
  <2>1. \E p : Moves(p) /\ Into(p)
    BY <1>4, <1>12 DEF UpdateFails
  <2> QED BY <1>1, <1>8, <1>9, <1>12, <2>1 DEF UpdateFails, Conversed, Moves, Into
<1>13. CASE AccountOpened(r)
  <2> DEFINE n == bounds.accounts + 1
  <2>1. n \in 1..MaxAccounts /\ [bounds EXCEPT !.accounts = n] \in Bounds
    BY <1>9, <1>13, OnboardingConstants DEF AccountOpened, Bounds
  <2>2. PICK status \in {"ACTIVE", "PENDING"} :
          /\ acct' = [acct EXCEPT ![q.on] =
                        [key |-> n, status |-> status, doubt |-> @.doubt \/ status # "ACTIVE"]]
          /\ \/ \E key \in {n, 0}, said \in {status, "NOTHING"} : Got(r, key, said)
             \/ Ask(r, "CREATED") \/ Ask(r, "DUPLICATE")
    BY <1>13 DEF AccountOpened
  <2>3. acct' \in [Businesses -> Accounts]
    BY <1>2, <1>9, <2>1, <2>2 DEF Accounts, ProviderStatus
  <2>4. {n, 0} \subseteq Keys /\ {status, "NOTHING"} \subseteq Said
    BY <2>1, OnboardingConstants DEF Keys, Typed, Said, ProviderStatus
  <2>5. \E p : Moves(p) /\ Into(p)
    <3> HIDE DEF n
    <3> QED BY <1>4, <1>5, <2>2, <2>4
  <2>6. bounds' \in Bounds
    BY <1>13, <2>1 DEF AccountOpened
  <2> QED BY <1>1, <2>3, <2>5, <2>6 DEF Conversed, Moves, Into
<1>14. CASE CreateDuplicate(r)
  <2>1. \E p : Moves(p) /\ Into(p)
    BY <1>4, <1>14 DEF CreateDuplicate
  <2> QED BY <1>1, <1>9, <1>14, <2>1 DEF CreateDuplicate, Conversed, Moves, Into
<1>15. CASE \E e \in Errors : CreateFails(r, e)
  <2>1. \E p : Moves(p) /\ Into(p)
    BY <1>4, <1>6, <1>15 DEF CreateFails
  <2> QED BY <1>1, <1>8, <1>9, <1>15, <2>1 DEF CreateFails, Conversed, Moves, Into
<1>16. CASE LookupFinds(r)
  <2> DEFINE key == Mine(r).key
  <2>1. ASSUME NEW said \in Reports(r),
               req' = [req EXCEPT ![r].pc = "REUPDATE", ![r].row.key = key,
                                  ![r].got = key, ![r].said = said]
        PROVE  \E p : Moves(p) /\ Into(p)
    <3>1. PICK row \in Row : row = [q.row EXCEPT !.key = key]
      BY <1>2, <1>7, RowsMarked, OnboardingConstants DEF Said
    <3>2. Moves([q EXCEPT !.pc = "REUPDATE", !.row = row, !.got = key, !.said = said])
      BY <1>1, <1>7 DEF Moves, Talking, InTransaction, Calling
    <3>3. Into([q EXCEPT !.pc = "REUPDATE", !.row = row, !.got = key, !.said = said])
      BY <2>1, <3>1 DEF Into
    <3> QED BY <3>2, <3>3
  <2>2. ASSUME NEW said \in Reports(r), Got(r, key, said)
        PROVE  \E p : Moves(p) /\ Into(p)
    BY <1>5, <1>7, <2>2
  <2>3. ASSUME q.why \in Errors, Fail(r, q.why)
        PROVE  \E p : Moves(p) /\ Into(p)
    BY <1>6, <2>3
  <2>4. \E p : Moves(p) /\ Into(p)
    <3> HIDE DEF key
    <3> QED BY <1>16, <2>1, <2>2, <2>3 DEF LookupFinds, key
  <2> QED BY <1>1, <1>9, <1>16, <2>4 DEF LookupFinds, Conversed, Moves, Into
<1>17. CASE LookupFindsNothing(r)
  <2>1. \E p : Moves(p) /\ Into(p)
    BY <1>2, <1>6, <1>17 DEF LookupFindsNothing
  <2> QED BY <1>1, <1>9, <1>17, <2>1 DEF LookupFindsNothing, Conversed, Moves, Into
<1>18. CASE \E e \in Errors : LookupFails(r, e)
  <2>1. \E p : Moves(p) /\ Into(p)
    BY <1>6, <1>18 DEF LookupFails
  <2> QED BY <1>1, <1>8, <1>9, <1>18, <2>1 DEF LookupFails, Conversed, Moves, Into
<1>19. CASE Reupdate(r)
  <2>1. Mine(r).status \in Said
    BY <1>7 DEF Reports
  <2>2. \E p : Moves(p) /\ Into(p)
    BY <1>2, <1>5, <1>19, <2>1 DEF Reupdate
  <2> QED BY <1>1, <1>9, <1>19, <2>2 DEF Reupdate, Conversed, Moves, Into
<1>20. CASE DetailAnswered(r)
  <2>1. PICK said \in {Mine(r).status, q.said}, key \in {Mine(r).key, q.got} :
          Mark(r, IF key = 0 THEN NeedsReview(q.row) ELSE Marked(q.row, key, said))
    BY <1>20 DEF DetailAnswered
  <2>2. said \in Said /\ key \in Keys
    BY <1>2, <1>7 DEF Reports
  <2>3. \E p : Moves(p) /\ Into(p)
    BY <1>2, <1>3, <2>1, <2>2, RowsMarked
  <2> QED BY <1>1, <1>9, <1>20, <2>3 DEF DetailAnswered, Conversed, Moves, Into
<1>21. CASE DetailFails(r)
  <2>1. \E p : Moves(p) /\ Into(p)
    BY <1>6, <1>21 DEF DetailFails
  <2> QED BY <1>1, <1>9, <1>21, <2>1 DEF DetailFails, Conversed, Moves, Into
<1> QED BY <1>10, <1>11, <1>12, <1>13, <1>14, <1>15, <1>16, <1>17, <1>18, <1>19, <1>20, <1>21 DEF Talk

-----------------------------------------------------------------------------
(* The types.                                                              *)

LEMMA TalkLeaves ==
  ASSUME NEW r \in Requests, Talk(r) PROVE UNCHANGED <<biz, record, commits>> /\ UNCHANGED lock
BY DEF Talk, UpdateAnswered, UpdateUnknown, AccountOpened, CreateDuplicate, LookupFinds,
       LookupFindsNothing, Reupdate, DetailAnswered, DetailFails, UpdateFails, CreateFails,
       LookupFails

LEMMA TypeIs ==
  TypeOK <=> /\ biz \in [Businesses -> Row]
             /\ acct \in [Businesses -> Accounts]
             /\ record \in [IdemKeys -> Records]
             /\ lock \in [Businesses -> Requests \union {Nobody, Dead}]
             /\ req \in [Requests -> Request]
             /\ commits \in [IdemKeys -> Nat]
             /\ bounds \in Bounds
BY DEF TypeOK, Accounts, Records, Request, Bounds

LEMMA TypeStep == TypeOK /\ ApprovedIsActive /\ [Next]_vars => TypeOK'
<1> SUFFICES ASSUME TypeOK, ApprovedIsActive, [Next]_vars PROVE TypeOK'
  OBVIOUS
<1>0. /\ biz \in [Businesses -> Row]
      /\ acct \in [Businesses -> Accounts]
      /\ record \in [IdemKeys -> Records]
      /\ lock \in [Businesses -> Requests \union {Nobody, Dead}]
      /\ req \in [Requests -> Request]
      /\ commits \in [IdemKeys -> Nat]
      /\ bounds \in Bounds
  BY TypeIs
<1> DEFINE Good == /\ biz' \in [Businesses -> Row]
                   /\ acct' \in [Businesses -> Accounts]
                   /\ record' \in [IdemKeys -> Records]
                   /\ lock' \in [Businesses -> Requests \union {Nobody, Dead}]
                   /\ req' \in [Requests -> Request]
                   /\ commits' \in [IdemKeys -> Nat]
                   /\ bounds' \in Bounds
<1>1. Free \in Request /\ Waiting \subseteq Request /\ Talking \subseteq Request /\ Answering \subseteq Request
  BY DEF Request
<1>2. ASSUME NEW r \in Requests, Leave(r)
      PROVE  /\ lock' \in [Businesses -> Requests \union {Nobody, Dead}]
             /\ req' \in [Requests -> Request]
  BY <1>0, <1>1, <1>2 DEF Leave, Released
<1>3. ASSUME NEW r \in Requests, NEW b \in Businesses, NEW k \in IdemKeys, Acquire(r, b, k)
      PROVE  Good
  <2>1. [pc |-> "LOCKED", on |-> b, key |-> k] \in Request
    BY <1>1 DEF Waiting
  <2> QED BY <1>0, <1>3, <2>1 DEF Acquire
<1>4. ASSUME NEW r \in Requests, Enter(r)
      PROVE  Good
  <2> DEFINE k == req[r].key
  <2>1. req[r] \in Waiting
    BY <1>0, <1>4, Shapes DEF Enter
  <2>2. k \in IdemKeys
    BY <2>1 DEF Waiting
  <2>3. CASE Fresh(k)
    <3>1. [req[r] EXCEPT !.pc = "RECORDED"] \in Request
      BY <1>1, <2>1 DEF Waiting
    <3>2. [state |-> "IN_PROGRESS", code |-> 0] \in Records
      BY DEF Records
    <3> QED BY <1>0, <1>4, <2>2, <2>3, <3>1, <3>2 DEF Enter
  <2>4. CASE ~Fresh(k)
    BY <1>0, <1>2, <1>4, <2>4 DEF Enter
  <2> QED BY <2>3, <2>4
<1>5. ASSUME NEW r \in Requests, NEW valid \in Validity, Begin(r, valid)
      PROVE  Good
  <2> DEFINE b == req[r].on
             Memory(pc, row) == [pc |-> pc, on |-> b, key |-> req[r].key, row |-> row,
                                 why |-> "NONE", got |-> 0, said |-> "NOTHING"]
  <2>1. req[r] \in Waiting
    BY <1>0, <1>5, Shapes DEF Begin
  <2>2. b \in Businesses /\ req[r].key \in IdemKeys
    BY <2>1 DEF Waiting
  <2>3. biz[b] \in Row
    BY <1>0, <2>2
  <2>4. 0 \in Keys /\ "NOTHING" \in Said
    BY OnboardingConstants DEF Keys, Typed, Said
  <2>5. NeedsReview(biz[b]) \in Row
    BY <2>3, <2>4, RowsMarked
  <2>6. FirstCall(biz[b]) \in InTransaction /\ "MARKED" \in InTransaction
    BY DEF FirstCall, InTransaction, Calling
  <2>7. \A pc \in InTransaction, row \in Row : Memory(pc, row) \in Request
    BY <1>1, <2>2, <2>4 DEF Talking
  <2>8. \E pc \in InTransaction, row \in Row : req' = [req EXCEPT ![r] = Memory(pc, row)]
    BY <1>5, <2>3, <2>5, <2>6 DEF Begin, At
  <2>9. req' \in [Requests -> Request]
    <3> HIDE DEF Memory
    <3> QED BY <1>0, <2>7, <2>8
  <2> QED BY <1>0, <1>5, <2>9 DEF Begin
<1>6. ASSUME NEW r \in Requests, Talk(r)
      PROVE  Good
  BY <1>0, <1>1, <1>6, TalkStep, TalkLeaves DEF Conversed
<1>7. ASSUME NEW r \in Requests, Commit(r)
      PROVE  Good
  <2> DEFINE b == req[r].on
             k == req[r].key
             verdict == Verdict(biz[b], req[r].row)
  <2>1. req[r] \in Talking
    BY <1>0, <1>7, Shapes DEF Commit, InTransaction
  <2>2. b \in Businesses /\ k \in IdemKeys /\ req[r].row \in Row
    BY <2>1, TalkingIs
  <2>3. verdict \in Row
    BY <1>0, <2>2, VerdictSound DEF ApprovedIsActive
  <2>4. [pc |-> "COMMITTED", on |-> b, key |-> k, code |-> Code(req[r].row, verdict)] \in Request
    BY <1>1, <2>2 DEF Answering, Code
  <2> HIDE DEF verdict
  <2>5. /\ biz' = [biz EXCEPT ![b] = verdict]
        /\ commits' = [commits EXCEPT ![k] = @ + 1]
        /\ req' = [req EXCEPT ![r] = [pc |-> "COMMITTED", on |-> b, key |-> k,
                                      code |-> Code(req[r].row, verdict)]]
        /\ UNCHANGED <<acct, record, lock, bounds>>
    BY <1>7 DEF Commit, verdict
  <2> QED BY <1>0, <2>2, <2>3, <2>4, <2>5
<1>8. ASSUME NEW r \in Requests, Complete(r)
      PROVE  Good
  <2>1. req[r] \in Answering
    BY <1>0, <1>8, Shapes DEF Complete
  <2>2. [state |-> "COMPLETED", code |-> req[r].code] \in Records
    BY <2>1 DEF Answering, Records
  <2> QED BY <1>0, <1>2, <1>8, <2>2 DEF Complete
<1>9. ASSUME NEW r \in Requests, Raise(r)
      PROVE  Good
  <2>1. [state |-> "FAILED", code |-> 0] \in Records
    BY DEF Records
  <2> QED BY <1>0, <1>2, <1>9, <2>1 DEF Raise
<1>10. ASSUME NEW r \in Requests, Die(r)
       PROVE  Good
  <2>1. [bounds EXCEPT !.crashes = @ + 1] \in Bounds
    BY <1>0, <1>10, OnboardingConstants DEF Die, Bounds
  <2> QED BY <1>0, <1>1, <1>10, <2>1 DEF Die
<1>11. ASSUME NEW b \in Businesses, LockRunsOut(b)
       PROVE  Good
  BY <1>0, <1>11 DEF LockRunsOut
<1>12. ASSUME NEW b \in Businesses, LockIsLost(b)
       PROVE  Good
  <2>1. [bounds EXCEPT !.lapses = @ + 1] \in Bounds
    BY <1>0, <1>12, OnboardingConstants DEF LockIsLost, Bounds
  <2> QED BY <1>0, <1>12, <2>1 DEF LockIsLost
<1>13. ASSUME NEW b \in Businesses, Provider(b)
       PROVE  Good
  <2>1. bounds.decisions < MaxDecisions => [bounds EXCEPT !.decisions = @ + 1] \in Bounds
    BY <1>0, OnboardingConstants DEF Bounds
  <2>2. \A status \in ProviderStatus :
          [acct[b] EXCEPT !.status = status, !.doubt = @ \/ status # "ACTIVE"] \in Accounts
    BY <1>0 DEF Accounts
  <2>3. [acct[b] EXCEPT !.key = 0] \in Accounts
    BY <1>0, OnboardingConstants DEF Accounts
  <2>4. ASSUME NEW status \in ProviderStatus, Decide(b, status)
        PROVE  Good
    <3>1. acct' = [acct EXCEPT ![b] =
                     [acct[b] EXCEPT !.status = status, !.doubt = @ \/ status # "ACTIVE"]]
      BY <1>0, <2>4 DEF Decide
    <3> QED BY <1>0, <2>1, <2>2, <2>4, <3>1 DEF Decide
  <2>5. ASSUME Close(b) PROVE Good
    <3>1. acct' = [acct EXCEPT ![b] = [acct[b] EXCEPT !.key = 0]]
      BY <1>0, <2>5 DEF Close
    <3> QED BY <1>0, <2>1, <2>3, <2>5, <3>1 DEF Close
  <2> QED BY <1>13, <2>4, <2>5 DEF Provider
<1>14. CASE UNCHANGED vars
  BY <1>0, <1>14, TypeIs DEF vars, TypeOK
<1>15. Next => Good
  <2> HIDE DEF Good
  <2> QED BY <1>3, <1>4, <1>5, <1>6, <1>7, <1>8, <1>9, <1>10, <1>11, <1>12, <1>13 DEF Next, Step
<1>16. Good => TypeOK'
  BY DEF TypeOK, Accounts, Records, Request, Bounds
<1> QED BY <1>14, <1>15, <1>16

-----------------------------------------------------------------------------
(* A key, its runs and its commits.                                        *)

Agree == \A k \in IdemKeys : KeyAgrees(k)

(* A request that stays on its side of the record and of the commit.       *)
LEMMA MovesAgree ==
  ASSUME Agree, NEW r \in Requests, NEW q, req' = [req EXCEPT ![r] = q], TypeOK,
         \A k \in IdemKeys :
            (q.pc \in InTransaction \union {"RECORDED", "COMMITTED"} /\ q.key = k) => Runs(r, k),
         (q.pc = "COMMITTED") = (req[r].pc = "COMMITTED"),
         UNCHANGED <<record, commits>>
  PROVE  Agree'
<1> SUFFICES ASSUME NEW k \in IdemKeys PROVE KeyAgrees(k)'
  BY DEF Agree
<1>1. req'[r] = q /\ \A s \in Requests \ {r} : req'[s] = req[s]
  BY DEF TypeOK
<1>2. \A s \in Requests : /\ Runs(s, k)' => Runs(s, k)
                          /\ (req'[s].pc = "COMMITTED") = (req[s].pc = "COMMITTED")
  BY <1>1 DEF Runs
<1>3. KeyAgrees(k)
  BY DEF Agree
<1> QED BY <1>2, <1>3 DEF KeyAgrees

(* A request that ends, and what it leaves in its record.                  *)
LEMMA EndsAgree ==
  ASSUME Agree, NEW r \in Requests, req' = [req EXCEPT ![r] = Free], TypeOK,
         UNCHANGED commits,
         \A k \in IdemKeys :
            \/ record'[k] = record[k]
            \/ /\ Runs(r, k) /\ record'[k].state \in {"COMPLETED", "FAILED"}
               /\ record'[k].state = "COMPLETED" => req[r].pc = "COMMITTED"
  PROVE  Agree'
<1> SUFFICES ASSUME NEW k \in IdemKeys PROVE KeyAgrees(k)'
  BY DEF Agree
<1>1. req'[r] = Free /\ \A s \in Requests \ {r} : req'[s] = req[s]
  BY DEF TypeOK
<1>2. \A s \in Requests : Runs(s, k)' => s # r /\ Runs(s, k) /\ req'[s].pc = req[s].pc
  BY <1>1 DEF Runs, Free, InTransaction, Calling
<1>3. KeyAgrees(k)
  BY DEF Agree
<1>4. CASE record'[k] = record[k]
  BY <1>2, <1>3, <1>4 DEF KeyAgrees
<1>5. CASE record'[k] # record[k]
  <2>1. /\ Runs(r, k) /\ record'[k].state \in {"COMPLETED", "FAILED"}
        /\ record'[k].state = "COMPLETED" => req[r].pc = "COMMITTED"
    BY <1>5
  <2>2. \A s \in Requests : ~Runs(s, k)'
    BY <1>2, <1>3, <2>1 DEF KeyAgrees
  <2> QED BY <1>3, <2>1, <2>2 DEF KeyAgrees
<1> QED BY <1>4, <1>5

LEMMA AgreeStep == TypeOK /\ Agree /\ [Next]_vars => Agree'
<1> SUFFICES ASSUME TypeOK, Agree, [Next]_vars PROVE Agree'
  OBVIOUS
<1>0. req \in [Requests -> Request] /\ record \in [IdemKeys -> Records] /\ commits \in [IdemKeys -> Nat]
  BY TypeIs
<1>1. ASSUME NEW r \in Requests, NEW b \in Businesses, NEW k \in IdemKeys, Acquire(r, b, k)
      PROVE  Agree'
  <2> DEFINE q == [pc |-> "LOCKED", on |-> b, key |-> k]
  <2>1. q.pc \notin InTransaction \union {"RECORDED", "COMMITTED"}
    BY DEF InTransaction, Calling
  <2>2. req' = [req EXCEPT ![r] = q] /\ req[r] = Free /\ UNCHANGED <<record, commits>>
    BY <1>1 DEF Acquire
  <2>3. (q.pc = "COMMITTED") = (req[r].pc = "COMMITTED")
    BY <2>2 DEF Free
  <2> HIDE DEF q
  <2> QED BY <2>1, <2>2, <2>3, MovesAgree
<1>2. ASSUME NEW r \in Requests, Enter(r)
      PROVE  Agree'
  <2> DEFINE k == req[r].key
             q == [req[r] EXCEPT !.pc = "RECORDED"]
  <2>1. req[r] \in Waiting
    BY <1>0, <1>2, Shapes DEF Enter
  <2>2. k \in IdemKeys /\ q.pc = "RECORDED" /\ q.key = k
    BY <2>1 DEF Waiting
  <2>3. CASE Fresh(k)
    <3>1. /\ req' = [req EXCEPT ![r] = q] /\ UNCHANGED commits
          /\ record' = [record EXCEPT ![k] = [state |-> "IN_PROGRESS", code |-> 0]]
      BY <1>2, <2>3 DEF Enter
    <3> HIDE DEF k, q
    <3>2. record[k].state = "NONE"
      BY <2>3 DEF Fresh
    <3>3. commits[k] = 0 /\ \A s \in Requests : ~Runs(s, k)
      BY <2>2, <3>2 DEF Agree, KeyAgrees
    <3>4. req'[r] = q /\ \A s \in Requests \ {r} : req'[s] = req[s]
      BY <1>0, <3>1
    <3> SUFFICES ASSUME NEW j \in IdemKeys PROVE KeyAgrees(j)'
      BY DEF Agree
    <3>5. CASE j = k
      <4>1. \A s \in Requests : Runs(s, j)' => s = r
        BY <3>3, <3>4, <3>5 DEF Runs
      <4>2. record'[j].state = "IN_PROGRESS" /\ commits'[j] = 0
        BY <1>0, <2>2, <3>1, <3>3, <3>5
      <4> QED BY <2>2, <3>4, <4>1, <4>2 DEF KeyAgrees
    <3>6. CASE j # k
      <4>1. \A s \in Requests : Runs(s, j)' => Runs(s, j) /\ req'[s].pc = req[s].pc
        BY <2>2, <3>4, <3>6 DEF Runs
      <4>2. record'[j] = record[j] /\ commits'[j] = commits[j]
        BY <1>0, <3>1, <3>6
      <4>3. KeyAgrees(j)
        BY DEF Agree
      <4> QED BY <4>1, <4>2, <4>3 DEF KeyAgrees
    <3> QED BY <3>5, <3>6
  <2>4. CASE ~Fresh(k)
    BY <1>2, <2>4, EndsAgree DEF Enter, Leave
  <2> QED BY <2>3, <2>4
<1>3. ASSUME NEW r \in Requests, NEW valid \in Validity, Begin(r, valid)
      PROVE  Agree'
  <2>1. PICK pc \in InTransaction, row \in {biz[req[r].on], NeedsReview(biz[req[r].on])} :
          /\ req' = [req EXCEPT ![r] = [pc |-> pc, on |-> req[r].on, key |-> req[r].key, row |-> row,
                                        why |-> "NONE", got |-> 0, said |-> "NOTHING"]]
          /\ req[r].pc = "RECORDED" /\ UNCHANGED <<record, commits>>
    BY <1>3 DEF Begin, At, FirstCall, InTransaction, Calling
  <2> DEFINE q == [pc |-> pc, on |-> req[r].on, key |-> req[r].key, row |-> row,
                   why |-> "NONE", got |-> 0, said |-> "NOTHING"]
  <2>2. q.key = req[r].key /\ q.pc # "COMMITTED"
    BY DEF InTransaction, Calling
  <2>3. \A k \in IdemKeys : q.key = k => Runs(r, k)
    BY <2>1, <2>2 DEF Runs
  <2>4. req' = [req EXCEPT ![r] = q]
    BY <2>1
  <2> HIDE DEF q
  <2> QED BY <2>1, <2>2, <2>3, <2>4, MovesAgree
<1>4. ASSUME NEW r \in Requests, Talk(r)
      PROVE  Agree'
  <2>1. PICK q \in Talking : req' = [req EXCEPT ![r] = q] /\ q.key = req[r].key
    BY <1>4, TalkStep DEF Conversed
  <2>2. q.pc \in InTransaction /\ req[r].pc \in InTransaction
    BY <1>4, TalkStep, TalkingIs
  <2>3. q.pc # "COMMITTED" /\ req[r].pc # "COMMITTED"
    BY <2>2 DEF InTransaction, Calling
  <2>4. \A k \in IdemKeys : q.key = k => Runs(r, k)
    BY <2>1, <2>2 DEF Runs
  <2> QED BY <1>4, <2>1, <2>3, <2>4, MovesAgree, TalkLeaves
<1>5. ASSUME NEW r \in Requests, Commit(r)
      PROVE  Agree'
  <2> DEFINE k == req[r].key
  <2>1. req[r] \in Talking
    BY <1>0, <1>5, Shapes DEF Commit, InTransaction
  <2>2. k \in IdemKeys /\ Runs(r, k) /\ req[r].pc # "COMMITTED"
    BY <1>5, <2>1, TalkingIs DEF Commit, Runs, InTransaction
  <2>3. PICK code : /\ req' = [req EXCEPT ![r] = [pc |-> "COMMITTED", on |-> req[r].on,
                                                  key |-> k, code |-> code]]
                    /\ commits' = [commits EXCEPT ![k] = @ + 1] /\ UNCHANGED record
    BY <1>5 DEF Commit
  <2>4. /\ req'[r].pc = "COMMITTED" /\ req'[r].key = k
        /\ \A s \in Requests \ {r} : req'[s] = req[s]
    BY <1>0, <2>3
  <2> HIDE DEF k
  <2>5. /\ commits[k] = 0 /\ record[k].state = "IN_PROGRESS"
        /\ \A s \in Requests : Runs(s, k) => s = r
    BY <2>2 DEF Agree, KeyAgrees
  <2> SUFFICES ASSUME NEW j \in IdemKeys PROVE KeyAgrees(j)'
    BY DEF Agree
  <2>6. CASE j = k
    <3>1. \A s \in Requests : Runs(s, j)' => s = r
      BY <2>4, <2>5, <2>6 DEF Runs
    <3>2. record'[j].state = "IN_PROGRESS" /\ commits'[j] = 1
      BY <1>0, <2>2, <2>3, <2>5, <2>6
    <3> QED BY <2>4, <3>1, <3>2 DEF KeyAgrees
  <2>7. CASE j # k
    <3>1. \A s \in Requests : Runs(s, j)' => Runs(s, j) /\ req'[s].pc = req[s].pc
      BY <2>4, <2>7 DEF Runs
    <3>2. record'[j] = record[j] /\ commits'[j] = commits[j]
      BY <1>0, <2>3, <2>7
    <3>3. KeyAgrees(j)
      BY DEF Agree
    <3> QED BY <3>1, <3>2, <3>3 DEF KeyAgrees
  <2> QED BY <2>6, <2>7
<1>6. ASSUME NEW r \in Requests, Complete(r)
      PROVE  Agree'
  <2>1. req[r] \in Answering
    BY <1>0, <1>6, Shapes DEF Complete
  <2>2. req[r].key \in IdemKeys /\ req[r].code \in {0, 200, 202, 409, 422} /\ Runs(r, req[r].key)
    BY <1>6, <2>1 DEF Answering, Complete, Runs
  <2>3. record' = [record EXCEPT ![req[r].key] = [state |-> "COMPLETED", code |-> req[r].code]] /\ req[r].pc = "COMMITTED"
    BY <1>6 DEF Complete
  <2>4. req' = [req EXCEPT ![r] = Free] /\ UNCHANGED commits
    BY <1>6 DEF Complete, Leave
  <2>5. /\ record'[req[r].key].state = "COMPLETED"
        /\ \A k \in IdemKeys \ {req[r].key} : record'[k] = record[k]
    BY <1>0, <2>2, <2>3
  <2>6. \A k \in IdemKeys :
           \/ record'[k] = record[k]
           \/ /\ Runs(r, k) /\ record'[k].state \in {"COMPLETED", "FAILED"}
              /\ record'[k].state = "COMPLETED" => req[r].pc = "COMMITTED"
    BY <2>2, <2>3, <2>5
  <2> QED BY <2>4, <2>6, EndsAgree
<1>7. ASSUME NEW r \in Requests, Raise(r)
      PROVE  Agree'
  <2>1. req[r] \in Talking \union Answering
    BY <1>0, <1>7, Shapes DEF Raise
  <2>2. req[r].key \in IdemKeys /\ Runs(r, req[r].key)
    BY <1>7, <2>1, TalkingIs DEF Answering, Raise, Runs
  <2>3. record' = [record EXCEPT ![req[r].key] = [state |-> "FAILED", code |-> 0]]
    BY <1>7 DEF Raise
  <2>4. req' = [req EXCEPT ![r] = Free] /\ UNCHANGED commits
    BY <1>7 DEF Raise, Leave
  <2> QED BY <1>0, <2>2, <2>3, <2>4, EndsAgree
<1>8. ASSUME NEW r \in Requests, Die(r)
      PROVE  Agree'
  BY <1>8, EndsAgree DEF Die
<1>9. UNCHANGED <<record, req, commits>> => Agree'
  BY DEF Agree, KeyAgrees, Runs
<1>10. CASE UNCHANGED vars
  BY <1>9, <1>10 DEF vars
<1>11. ASSUME NEW b \in Businesses, LockRunsOut(b) \/ LockIsLost(b) \/ Provider(b)
       PROVE  Agree'
  BY <1>9, <1>11 DEF LockRunsOut, LockIsLost, Provider, Decide, Close
<1> HIDE DEF Agree
<1> QED BY <1>1, <1>2, <1>3, <1>4, <1>5, <1>6, <1>7, <1>8, <1>10, <1>11 DEF Next, Step

-----------------------------------------------------------------------------
(* An approval is written by a commit only, and a commit keeps it sound.   *)

LEMMA ApprovedStep == TypeOK /\ ApprovedIsActive /\ [Next]_vars => ApprovedIsActive'
<1> SUFFICES ASSUME TypeOK, ApprovedIsActive, [Next]_vars PROVE ApprovedIsActive'
  OBVIOUS
<1>0. req \in [Requests -> Request] /\ biz \in [Businesses -> Row]
  BY TypeIs
<1>1. ASSUME NEW r \in Requests, Commit(r)
      PROVE  ApprovedIsActive'
  <2> DEFINE b == req[r].on
             verdict == Verdict(biz[b], req[r].row)
  <2>1. req[r] \in Talking
    BY <1>0, <1>1, Shapes DEF Commit, InTransaction
  <2>2. b \in Businesses /\ req[r].row \in Row
    BY <2>1, TalkingIs
  <2>3. verdict.payout = "APPROVED" => verdict.sub = "ACTIVE" /\ verdict.key # 0
    BY <1>0, <2>2, VerdictSound DEF ApprovedIsActive
  <2>4. biz' = [biz EXCEPT ![b] = verdict]
    BY <1>1 DEF Commit
  <2> HIDE DEF verdict
  <2> QED BY <1>0, <2>2, <2>3, <2>4 DEF ApprovedIsActive
<1>2. UNCHANGED biz => ApprovedIsActive'
  BY DEF ApprovedIsActive
<1>3. ASSUME NEW r \in Requests, Talk(r) PROVE UNCHANGED biz
  BY <1>3, TalkLeaves
<1>4. Next => UNCHANGED biz \/ \E r \in Requests : Commit(r)
  BY <1>3 DEF Next, Step, Acquire, Enter, Begin, Complete, Raise, Die, LockRunsOut, LockIsLost,
              Provider, Decide, Close
<1> QED BY <1>1, <1>2, <1>4 DEF vars

LEMMA InvInit == Init => Inv
<1> SUFFICES ASSUME Init PROVE Inv
  OBVIOUS
<1>1. NewBusiness \in Row /\ DemoBusinesses \subseteq Row
  <2>1. 0 \in Keys /\ Typed \in Keys
    BY OnboardingConstants DEF Keys, Typed
  <2> QED BY <2>1 DEF NewBusiness, DemoBusinesses, Row, PayoutStatus, SubmerchantStatus
<1>2. [key |-> 0, status |-> "PENDING", doubt |-> FALSE] \in Accounts
  BY OnboardingConstants DEF Accounts, ProviderStatus
<1>3. NoRecord \in Records /\ Free \in Request
  BY DEF NoRecord, Records, Request
<1>4. [accounts |-> 0, decisions |-> 0, lapses |-> 0, crashes |-> 0] \in Bounds
  BY OnboardingConstants DEF Bounds
<1>5. TypeOK
  BY <1>1, <1>2, <1>3, <1>4, TypeIs DEF Init
<1>6. ApprovedIsActive
  BY OnboardingConstants DEF Init, ApprovedIsActive, NewBusiness, DemoBusinesses, Typed
<1>7. \A k \in IdemKeys : KeyAgrees(k)
  BY DEF Init, KeyAgrees, Runs, NoRecord, Free, InTransaction, Calling
<1> QED BY <1>5, <1>6, <1>7 DEF Inv

LEMMA Invariance == Spec => []Inv
<1>1. Inv /\ [Next]_vars => Inv'
  BY TypeStep, ApprovedStep, AgreeStep DEF Inv, Agree
<1> QED BY <1>1, InvInit, PTL DEF Spec

-----------------------------------------------------------------------------
(* Where a verdict against a business comes from.  An account the provider *)
(* ever had is active or in doubt, a request that heard of another state   *)
(* heard it from the provider, and only a marked row is committed.         *)

Known(b) == acct[b].status = "ACTIVE" \/ acct[b].doubt
KnownNext(b) == acct'[b].status = "ACTIVE" \/ acct'[b].doubt

Learned(r) ==
  LET q == req[r]  b == req[r].on IN
  /\ q.pc = "UPDATE" => q.row.key # 0
  /\ q.pc = "LOOKUP" /\ q.why = "REFUSED" => acct[b].doubt
  /\ q.pc \in {"REUPDATE", "DETAIL"} =>
       Known(b) /\ (q.said \in {"PENDING", "REJECTED"} => acct[b].doubt)
  /\ q.pc = "MARKED" =>
       /\ q.row.sub # "DRAFT"
       /\ q.row.sub = "ACTIVE" => q.row.key # 0
       /\ q.row.sub \in {"PENDING", "REJECTED"} => acct[b].doubt

Traced ==
  /\ \A b \in Businesses : acct[b].key # 0 => Known(b)
  /\ \A r \in Requests : Learned(r)

(* Nothing that is in doubt is forgotten.                                  *)
Remembers == \A b \in Businesses : /\ acct[b].doubt => acct'[b].doubt
                                   /\ Known(b) => KnownNext(b)
                                   /\ acct'[b].key # 0 => KnownNext(b)

LEMMA TracedKept ==
  ASSUME TypeOK, Traced, NEW r \in Requests, Remembers,
         \A s \in Requests \ {r} : req'[s] = req[s], Learned(r)'
  PROVE  Traced'
<1>1. \A b \in Businesses : (acct[b].key # 0 => Known(b))'
  BY DEF Remembers, Known, KnownNext
<1>2. ASSUME NEW s \in Requests, s # r PROVE Learned(s)'
  <2>1. req'[s] = req[s] /\ Learned(s)
    BY <1>2 DEF Traced
  <2>2. CASE req[s].pc \notin InTransaction
    BY <2>1, <2>2 DEF Learned, InTransaction, Calling
  <2>3. CASE req[s].pc \in InTransaction
    <3>1. req[s].on \in Businesses
      BY <2>3, Shapes, TypeIs, TalkingIs
    <3> QED BY <2>1, <3>1 DEF Learned, Remembers, Known, KnownNext
  <2> QED BY <2>2, <2>3
<1> QED BY <1>1, <1>2 DEF Traced

(* What the calls do to the provider's accounts.                           *)
LEMMA ErrsRemember ==
  ASSUME TypeOK, Traced, NEW r \in Requests, req[r].on \in Businesses, NEW e, Errs(r, e)
  PROVE  Remembers /\ (e = "REFUSED" => acct'[req[r].on].doubt)
<1>1. acct \in [Businesses -> Accounts] /\ \A b \in Businesses : acct[b].key # 0 => Known(b)
  BY TypeIs DEF Traced
<1>2. CASE e = "REFUSED"
  <2> DEFINE b == req[r].on
  <2>1. acct' = [acct EXCEPT ![b] = [acct[b] EXCEPT !.doubt = TRUE]]
    BY <1>1, <1>2 DEF Errs
  <2>2. [acct[b] EXCEPT !.doubt = TRUE].doubt
    BY <1>1 DEF Accounts
  <2>3. acct'[b].doubt /\ \A c \in Businesses \ {b} : acct'[c] = acct[c]
    BY <1>1, <2>1, <2>2
  <2> QED BY <1>1, <1>2, <2>3 DEF Remembers, Known, KnownNext
<1>3. CASE e # "REFUSED"
  BY <1>1, <1>3 DEF Errs, Remembers, Known, KnownNext
<1> QED BY <1>2, <1>3

LEMMA StillRemembers == ASSUME TypeOK, Traced, UNCHANGED acct PROVE Remembers
  BY DEF Traced, Remembers, Known, KnownNext

(* The marks a run ends with.                                              *)
LEMMA MarkLearned ==
  ASSUME TypeOK, NEW r \in Requests, NEW row \in Row, Mark(r, row),
         row.sub # "DRAFT", row.sub = "ACTIVE" => row.key # 0,
         row.sub \in {"PENDING", "REJECTED"} => acct'[req[r].on].doubt
  PROVE  Learned(r)' /\ \A s \in Requests \ {r} : req'[s] = req[s]
BY TypeIs DEF Mark, At, Learned

LEMMA FailLearned ==
  ASSUME TypeOK, NEW r \in Requests, req[r].row \in Row, NEW e, Fail(r, e),
         e = "REFUSED" => acct'[req[r].on].doubt
  PROVE  Learned(r)' /\ \A s \in Requests \ {r} : req'[s] = req[s]
<1> DEFINE row == req[r].row
           new == IF e = "REFUSED" THEN Refused(row) ELSE NeedsReview(row)
<1>1. new \in Row
  <2>1. 0 \in Keys /\ "NOTHING" \in Said
    BY OnboardingConstants DEF Keys, Typed, Said
  <2> QED BY <2>1, RowsMarked
<1>2. new.sub = IF e = "REFUSED" THEN "REJECTED" ELSE "NEEDS_REVIEW"
  <2>1. NeedsReview(row).sub = "NEEDS_REVIEW" /\ Refused(row).sub = "REJECTED"
    BY DEF NeedsReview, Refused, Row
  <2> QED BY <2>1
<1>3. Mark(r, new)
  BY DEF Fail
<1> HIDE DEF new
<1> QED BY <1>1, <1>2, <1>3, MarkLearned

LEMMA AskLearned ==
  ASSUME TypeOK, NEW r \in Requests, req[r] \in Talking, NEW why, Ask(r, why),
         why = "REFUSED" => acct'[req[r].on].doubt
  PROVE  Learned(r)' /\ \A s \in Requests \ {r} : req'[s] = req[s]
<1> DEFINE q == [req[r] EXCEPT !.pc = "LOOKUP", !.why = why]
<1>1. q.pc = "LOOKUP" /\ q.why = why /\ q.on = req[r].on
  BY DEF Talking
<1>2. req' = [req EXCEPT ![r] = q]
  BY DEF Ask
<1> HIDE DEF q
<1> QED BY <1>1, <1>2, TypeIs DEF Learned

LEMMA GotLearned ==
  ASSUME TypeOK, NEW r \in Requests, req[r] \in Talking, NEW key, NEW said, Got(r, key, said),
         KnownNext(req[r].on), said \in {"PENDING", "REJECTED"} => acct'[req[r].on].doubt
  PROVE  Learned(r)' /\ \A s \in Requests \ {r} : req'[s] = req[s]
<1> DEFINE q == [req[r] EXCEPT !.pc = "DETAIL", !.why = "NONE", !.got = key, !.said = said]
<1>1. q.pc = "DETAIL" /\ q.said = said /\ q.on = req[r].on
  BY DEF Talking
<1>2. req' = [req EXCEPT ![r] = q]
  BY DEF Got
<1> HIDE DEF q
<1> QED BY <1>1, <1>2, TypeIs DEF Learned, Known, KnownNext

LEMMA TalkTraced ==
  ASSUME TypeOK, Traced, NEW r \in Requests, Talk(r)
  PROVE  Traced'
<1> DEFINE q == req[r]
           b == q.on
           Done == Learned(r)' /\ \A s \in Requests \ {r} : req'[s] = req[s]
<1>1. q \in Talking /\ q.row \in Row /\ b \in Businesses /\ q.key \in IdemKeys
      /\ q.why \in {"NONE", "DUPLICATE", "CREATED"} \union Errors
      /\ q.got \in Keys /\ q.said \in Said
  BY TalkStep, TalkingIs
<1>2. acct \in [Businesses -> Accounts] /\ req \in [Requests -> Request] /\ bounds \in Bounds
  BY TypeIs
<1>3. /\ acct[b].key # 0 => Known(b)
      /\ q.pc = "LOOKUP" /\ q.why = "REFUSED" => acct[b].doubt
      /\ q.pc \in {"REUPDATE", "DETAIL"} =>
           Known(b) /\ (q.said \in {"PENDING", "REJECTED"} => acct[b].doubt)
      /\ q.pc = "UPDATE" => q.row.key # 0
  BY <1>1 DEF Traced, Learned
<1>4. Known(b) => \A said \in Reports(r) : said \in {"PENDING", "REJECTED"} => acct[b].doubt
  BY DEF Known, Reports, Mine
<1>5. UNCHANGED acct => Remembers
  BY StillRemembers
<1>6. Remembers /\ Done => Traced'
  BY TracedKept
<1> HIDE DEF Done
<1>7. CASE UpdateAnswered(r)
  <2>1. PICK said \in Reports(r) : Got(r, q.row.key, said)
    BY <1>7 DEF UpdateAnswered
  <2>2. KnownNext(b) /\ UNCHANGED acct /\ Known(b)
    BY <1>3, <1>7 DEF UpdateAnswered, Mine, Known, KnownNext
  <2>3. Done
    BY <1>1, <1>4, <2>1, <2>2, GotLearned DEF Done
  <2> QED BY <1>5, <1>6, <2>2, <2>3
<1>8. CASE UpdateUnknown(r)
  <2>1. UNCHANGED acct
    BY <1>8 DEF UpdateUnknown
  <2>2. CASE q.row.synced
    <3>1. Fail(r, "RETRY")
      BY <1>8, <2>2 DEF UpdateUnknown
    <3>2. Done
      BY <1>1, <3>1, FailLearned DEF Done
    <3> QED BY <1>5, <1>6, <2>1, <3>2
  <2>3. CASE ~q.row.synced
    <3> DEFINE p == [q EXCEPT !.pc = "CREATE", !.row = [q.row EXCEPT !.key = 0]]
    <3>1. req' = [req EXCEPT ![r].pc = "CREATE", ![r].row.key = 0]
      BY <1>8, <2>3 DEF UpdateUnknown
    <3>2. req' = [req EXCEPT ![r] = p]
      BY <3>1
    <3>3. p.pc = "CREATE"
      BY <1>1 DEF Talking
    <3> HIDE DEF p
    <3>4. Done
      BY <1>2, <3>2, <3>3 DEF Done, Learned
    <3> QED BY <1>5, <1>6, <2>1, <3>4
  <2> QED BY <2>2, <2>3
<1>9. CASE \E e \in Errors : UpdateFails(r, e)
  <2>1. PICK e \in Errors : Ask(r, e) /\ Errs(r, e)
    BY <1>9 DEF UpdateFails
  <2>2. Remembers /\ (e = "REFUSED" => acct'[b].doubt)
    BY <1>1, <2>1, ErrsRemember
  <2>3. Done
    BY <1>1, <2>1, <2>2, AskLearned DEF Done
  <2> QED BY <1>6, <2>2, <2>3
<1>10. CASE AccountOpened(r)
  <2> DEFINE n == bounds.accounts + 1
  <2>1. PICK status \in {"ACTIVE", "PENDING"} :
          /\ acct' = [acct EXCEPT ![b] =
                        [key |-> n, status |-> status, doubt |-> @.doubt \/ status # "ACTIVE"]]
          /\ \/ \E key \in {n, 0}, said \in {status, "NOTHING"} : Got(r, key, said)
             \/ Ask(r, "CREATED") \/ Ask(r, "DUPLICATE")
    BY <1>10 DEF AccountOpened
  <2>2. /\ acct'[b] = [key |-> n, status |-> status, doubt |-> acct[b].doubt \/ status # "ACTIVE"]
        /\ \A c \in Businesses \ {b} : acct'[c] = acct[c]
    BY <1>1, <1>2, <2>1
  <2>3. /\ KnownNext(b) /\ (status # "ACTIVE" => acct'[b].doubt)
        /\ acct[b].doubt => acct'[b].doubt
    <3>1. acct'[b].doubt = (acct[b].doubt \/ status # "ACTIVE")
      BY <2>2
    <3>2. acct'[b].status = status
      BY <2>2
    <3> QED BY <3>1, <3>2 DEF KnownNext
  <2>5. Remembers
    BY <1>1, <2>2, <2>3 DEF Remembers, Known, KnownNext, Traced
  <2>4. Done
    <3> HIDE DEF n
    <3>1. ASSUME NEW key, NEW said \in {status, "NOTHING"}, Got(r, key, said) PROVE Done
      BY <1>1, <2>3, <3>1, GotLearned DEF Done
    <3>2. ASSUME Ask(r, "CREATED") \/ Ask(r, "DUPLICATE") PROVE Done
      BY <1>1, <3>2, AskLearned DEF Done
    <3> QED BY <2>1, <3>1, <3>2
  <2> QED BY <1>6, <2>4, <2>5
<1>11. CASE CreateDuplicate(r)
  <2>1. Ask(r, "DUPLICATE") /\ UNCHANGED acct
    BY <1>11 DEF CreateDuplicate
  <2>2. Done
    BY <1>1, <2>1, AskLearned DEF Done
  <2> QED BY <1>5, <1>6, <2>1, <2>2
<1>12. CASE \E e \in Errors : CreateFails(r, e)
  <2>1. PICK e \in Errors : CreateFails(r, e)
    BY <1>12
  <2>2. Remembers /\ (e = "REFUSED" => acct'[b].doubt)
    BY <1>1, <2>1, ErrsRemember DEF CreateFails
  <2>3. Ask(r, "CREATED") => Done
    BY <1>1, AskLearned DEF Done
  <2>4. Fail(r, e) => Done
    BY <1>1, <2>2, FailLearned DEF Done
  <2> QED BY <1>6, <2>1, <2>2, <2>3, <2>4 DEF CreateFails
<1>13. CASE LookupFinds(r)
  <2> DEFINE key == Mine(r).key
  <2>1. Known(b) /\ KnownNext(b) /\ UNCHANGED acct
    BY <1>3, <1>13 DEF LookupFinds, Mine, Known, KnownNext
  <2>2. ASSUME NEW said \in Reports(r),
               req' = [req EXCEPT ![r].pc = "REUPDATE", ![r].row.key = key,
                                  ![r].got = key, ![r].said = said]
        PROVE  Done
    <3> DEFINE p == [q EXCEPT !.pc = "REUPDATE", !.row = [q.row EXCEPT !.key = key],
                              !.got = key, !.said = said]
    <3>1. req' = [req EXCEPT ![r] = p]
      BY <2>2
    <3>2. p.pc = "REUPDATE" /\ p.said = said /\ p.on = b
      BY <1>1 DEF Talking
    <3> HIDE DEF p
    <3>3. req'[r] = p /\ \A s \in Requests \ {r} : req'[s] = req[s]
      BY <1>2, <3>1
    <3>4. said \in {"PENDING", "REJECTED"} => acct'[b].doubt
      BY <1>4, <2>1
    <3> QED BY <2>1, <3>2, <3>3, <3>4 DEF Done, Learned, Known, KnownNext
  <2>3. ASSUME NEW said \in Reports(r), Got(r, key, said) PROVE Done
    BY <1>1, <1>4, <2>1, <2>3, GotLearned DEF Done
  <2>4. ASSUME Fail(r, q.why), q.pc = "LOOKUP" PROVE Done
    BY <1>1, <1>3, <2>1, <2>4, FailLearned DEF Done
  <2>5. Done
    <3> HIDE DEF key
    <3> QED BY <1>13, <2>2, <2>3, <2>4 DEF LookupFinds, key
  <2> QED BY <1>5, <1>6, <2>1, <2>5
<1>14. CASE LookupFindsNothing(r)
  <2>1. Fail(r, q.why) /\ q.pc = "LOOKUP" /\ UNCHANGED acct
    BY <1>14 DEF LookupFindsNothing
  <2>2. Done
    BY <1>1, <1>3, <2>1, FailLearned DEF Done
  <2> QED BY <1>5, <1>6, <2>1, <2>2
<1>15. CASE \E e \in Errors : LookupFails(r, e)
  <2>1. PICK e \in Errors : Fail(r, e) /\ Errs(r, e)
    BY <1>15 DEF LookupFails
  <2>2. Remembers /\ (e = "REFUSED" => acct'[b].doubt)
    BY <1>1, <2>1, ErrsRemember
  <2>3. Done
    BY <1>1, <2>1, <2>2, FailLearned DEF Done
  <2> QED BY <1>6, <2>2, <2>3
<1>16. CASE Reupdate(r)
  <2>1. PICK said \in {Mine(r).status, q.said} : Got(r, q.got, said)
    BY <1>16 DEF Reupdate
  <2>2. KnownNext(b) /\ UNCHANGED acct /\ (said \in {"PENDING", "REJECTED"} => acct[b].doubt)
    BY <1>3, <1>4, <1>16 DEF Reupdate, Reports, Known, KnownNext
  <2>3. Done
    BY <1>1, <2>1, <2>2, GotLearned DEF Done
  <2> QED BY <1>5, <1>6, <2>2, <2>3
<1>17. CASE DetailAnswered(r)
  <2> DEFINE Row2(key, said) ==
               IF key = 0 THEN NeedsReview(q.row) ELSE Marked(q.row, key, said)
  <2>1. PICK said \in {Mine(r).status, q.said}, key \in {Mine(r).key, q.got} : Mark(r, Row2(key, said))
    BY <1>17 DEF DetailAnswered
  <2>2. UNCHANGED acct /\ (said \in {"PENDING", "REJECTED"} => acct[b].doubt)
    BY <1>3, <1>4, <1>17 DEF DetailAnswered, Reports
  <2>3. said \in Said /\ key \in Keys
    <3>1. Mine(r) \in Accounts
      BY <1>1, <1>2 DEF Mine
    <3> QED BY <1>1, <3>1, OnboardingConstants DEF Accounts, Said, Keys, Typed
  <2>4. Row2(key, said) \in Row
    BY <1>1, <2>3, RowsMarked
  <2>5. /\ NeedsReview(q.row).sub = "NEEDS_REVIEW"
        /\ Marked(q.row, key, said).key = key
        /\ Marked(q.row, key, said).sub =
             IF said = "NOTHING" /\ q.row.sub = "ACTIVE" THEN "ACTIVE" ELSE Local(said)
    BY <1>1 DEF NeedsReview, Marked, Row
  <2>6. /\ Row2(key, said).sub # "DRAFT"
        /\ Row2(key, said).sub = "ACTIVE" => Row2(key, said).key # 0
        /\ Row2(key, said).sub \in {"PENDING", "REJECTED"} => said \in {"PENDING", "REJECTED"}
    BY <2>5 DEF Local
  <2> HIDE DEF Row2
  <2>7. Done
    BY <2>1, <2>2, <2>4, <2>6, MarkLearned DEF Done
  <2> QED BY <1>5, <1>6, <2>2, <2>7
<1>18. CASE DetailFails(r)
  <2>1. Fail(r, "RETRY") /\ UNCHANGED acct
    BY <1>18 DEF DetailFails
  <2>2. Done
    BY <1>1, <2>1, FailLearned DEF Done
  <2> QED BY <1>5, <1>6, <2>1, <2>2
<1> QED BY <1>7, <1>8, <1>9, <1>10, <1>11, <1>12, <1>13, <1>14, <1>15, <1>16, <1>17, <1>18 DEF Talk

LEMMA TracedStep == TypeOK /\ Traced /\ [Next]_vars => Traced'
<1> SUFFICES ASSUME TypeOK, Traced, [Next]_vars PROVE Traced'
  OBVIOUS
<1>0. /\ req \in [Requests -> Request] /\ acct \in [Businesses -> Accounts]
      /\ biz \in [Businesses -> Row]
  BY TypeIs
<1>1. ASSUME NEW r \in Requests, NEW q, req' = [req EXCEPT ![r] = q], UNCHANGED acct,
             q.pc \notin {"UPDATE", "LOOKUP", "REUPDATE", "DETAIL", "MARKED"}
      PROVE  Traced'
  <2>1. req'[r] = q /\ \A s \in Requests \ {r} : req'[s] = req[s]
    BY <1>0, <1>1
  <2>2. Learned(r)'
    BY <1>1, <2>1 DEF Learned
  <2> QED BY <1>1, <2>1, <2>2, StillRemembers, TracedKept
<1>2. ASSUME NEW r \in Requests, req' = [req EXCEPT ![r] = Free], UNCHANGED acct
      PROVE  Traced'
  BY <1>1, <1>2 DEF Free
<1>3. UNCHANGED <<acct, req>> => Traced'
  BY DEF Traced, Learned, Known
<1>4. ASSUME NEW r \in Requests, NEW b \in Businesses, NEW k \in IdemKeys, Acquire(r, b, k)
      PROVE  Traced'
  BY <1>1, <1>4 DEF Acquire
<1>5. ASSUME NEW r \in Requests, Enter(r)
      PROVE  Traced'
  <2> DEFINE q == [req[r] EXCEPT !.pc = "RECORDED"]
  <2>1. req[r] \in Waiting
    BY <1>0, <1>5, Shapes DEF Enter
  <2>2. q.pc = "RECORDED"
    BY <2>1 DEF Waiting
  <2>3. UNCHANGED acct /\ (req' = [req EXCEPT ![r] = q] \/ req' = [req EXCEPT ![r] = Free])
    BY <1>5 DEF Enter, Leave
  <2> HIDE DEF q
  <2> QED BY <1>1, <1>2, <2>2, <2>3
<1>6. ASSUME NEW r \in Requests, NEW valid \in Validity, Begin(r, valid)
      PROVE  Traced'
  <2> DEFINE b == req[r].on
  <2>1. b \in Businesses /\ biz[b] \in Row /\ UNCHANGED acct
    <3>1. req[r] \in Waiting
      BY <1>0, <1>6, Shapes DEF Begin
    <3> QED BY <1>0, <1>6, <3>1 DEF Waiting, Begin
  <2>2. CASE valid
    <3> DEFINE q == [pc |-> FirstCall(biz[b]), on |-> b, key |-> req[r].key, row |-> biz[b],
                     why |-> "NONE", got |-> 0, said |-> "NOTHING"]
    <3>1. req' = [req EXCEPT ![r] = q]
      BY <1>6, <2>2 DEF Begin, At
    <3>2. q.pc \in {"CREATE", "UPDATE"} /\ (q.pc = "UPDATE" => q.row.key # 0)
      BY DEF FirstCall
    <3> HIDE DEF q
    <3>3. req'[r] = q /\ \A s \in Requests \ {r} : req'[s] = req[s]
      BY <1>0, <3>1
    <3>4. Learned(r)'
      BY <3>2, <3>3 DEF Learned
    <3> QED BY <2>1, <3>3, <3>4, StillRemembers, TracedKept
  <2>3. CASE ~valid
    <3>1. Mark(r, NeedsReview(biz[b]))
      BY <1>6, <2>3 DEF Begin, Mark
    <3>2. NeedsReview(biz[b]) \in Row /\ NeedsReview(biz[b]).sub = "NEEDS_REVIEW"
      BY <2>1 DEF NeedsReview, Row, SubmerchantStatus
    <3>3. Learned(r)' /\ \A s \in Requests \ {r} : req'[s] = req[s]
      BY <3>1, <3>2, MarkLearned
    <3> QED BY <2>1, <3>3, StillRemembers, TracedKept
  <2> QED BY <2>2, <2>3 DEF Validity
<1>7. ASSUME NEW r \in Requests, Talk(r) PROVE Traced'
  BY <1>7, TalkTraced
<1>8. ASSUME NEW r \in Requests, Commit(r) PROVE Traced'
  BY <1>1, <1>8 DEF Commit
<1>9. ASSUME NEW r \in Requests, Complete(r) \/ Raise(r) \/ Die(r) PROVE Traced'
  BY <1>2, <1>9 DEF Complete, Raise, Die, Leave
<1>10. ASSUME NEW b \in Businesses, LockRunsOut(b) \/ LockIsLost(b) PROVE Traced'
  BY <1>3, <1>10 DEF LockRunsOut, LockIsLost
<1>11. ASSUME NEW b \in Businesses, Provider(b) PROVE Traced'
  <2>1. UNCHANGED req /\ \A c \in Businesses \ {b} : acct'[c] = acct[c]
    BY <1>0, <1>11 DEF Provider, Decide, Close
  <2>2. /\ acct[b].doubt => acct'[b].doubt
        /\ Known(b) => KnownNext(b)
        /\ acct'[b].key # 0 => KnownNext(b)
    <3>1. ASSUME NEW status \in ProviderStatus, Decide(b, status)
          PROVE  (acct[b].doubt => acct'[b].doubt) /\ KnownNext(b)
      <4> DEFINE new == [acct[b] EXCEPT !.status = status, !.doubt = @ \/ status # "ACTIVE"]
      <4>1. acct' = [acct EXCEPT ![b] = new]
        BY <1>0, <3>1 DEF Decide
      <4>2. new.status = status
        BY <1>0 DEF Accounts
      <4>3. new.doubt = (acct[b].doubt \/ status # "ACTIVE")
        BY <1>0 DEF Accounts
      <4> HIDE DEF new
      <4>4. acct'[b] = new
        BY <1>0, <4>1
      <4> QED BY <4>2, <4>3, <4>4 DEF KnownNext
    <3>2. ASSUME Close(b)
          PROVE  acct'[b].key = 0 /\ acct'[b].status = acct[b].status /\ acct'[b].doubt = acct[b].doubt
      <4> DEFINE new == [acct[b] EXCEPT !.key = 0]
      <4>1. acct' = [acct EXCEPT ![b] = new]
        BY <1>0, <3>2 DEF Close
      <4>2. new.key = 0 /\ new.status = acct[b].status /\ new.doubt = acct[b].doubt
        BY <1>0 DEF Accounts
      <4> HIDE DEF new
      <4>3. acct'[b] = new
        BY <1>0, <4>1
      <4> QED BY <4>2, <4>3
    <3> QED BY <1>11, <3>1, <3>2 DEF Provider, Known, KnownNext
  <2>3. Remembers
    BY <2>1, <2>2 DEF Remembers, Known, KnownNext, Traced
  <2>4. ASSUME NEW r \in Requests PROVE Traced'
    <3>1. Learned(r)'
      <4>1. CASE req[r].pc \notin InTransaction
        BY <2>1, <4>1 DEF Learned, InTransaction, Calling
      <4>2. CASE req[r].pc \in InTransaction
        <5>1. req[r].on \in Businesses
          BY <1>0, <4>2, Shapes, TalkingIs
        <5>2. Learned(r)
          BY DEF Traced
        <5> QED BY <2>1, <2>3, <5>1, <5>2 DEF Learned, Remembers, Known, KnownNext
      <4> QED BY <4>1, <4>2
    <3> QED BY <2>1, <2>3, <3>1, TracedKept
  <2>5. CASE Requests = {}
    BY <2>3, <2>5 DEF Traced, Remembers, Known, KnownNext
  <2> QED BY <2>4, <2>5
<1>12. CASE UNCHANGED vars
  BY <1>3, <1>12 DEF vars
<1> HIDE DEF Traced
<1> QED BY <1>4, <1>5, <1>6, <1>7, <1>8, <1>9, <1>10, <1>11, <1>12 DEF Next, Step

(* An approval is dropped by a commit whose row heard of another state.    *)
LEMMA DroppedInDoubt ==
  ASSUME TypeOK, ApprovedIsActive, Traced, [Next]_vars, NEW b \in Businesses,
         biz[b].payout = "APPROVED", biz'[b].payout # "APPROVED"
  PROVE  acct[b].doubt
<1>0. req \in [Requests -> Request] /\ biz \in [Businesses -> Row]
  BY TypeIs
<1>1. ASSUME NEW r \in Requests, Talk(r) PROVE UNCHANGED biz
  BY <1>1, TalkLeaves
<1>2. Next => UNCHANGED biz \/ \E r \in Requests : Commit(r)
  BY <1>1 DEF Next, Step, Acquire, Enter, Begin, Complete, Raise, Die, LockRunsOut, LockIsLost,
              Provider, Decide, Close
<1>3. PICK r \in Requests : Commit(r)
  BY <1>2 DEF vars
<1> DEFINE row == req[r].row
<1>4. req[r] \in Talking /\ req[r].on \in Businesses /\ row \in Row
  <2>1. req[r] \in Talking
    BY <1>0, <1>3, Shapes DEF Commit, InTransaction
  <2> QED BY <2>1, TalkingIs
<1>5. biz' = [biz EXCEPT ![req[r].on] = Verdict(biz[req[r].on], row)]
  BY <1>3 DEF Commit
<1>6. req[r].on = b /\ biz'[b] = Verdict(biz[b], row)
  BY <1>0, <1>4, <1>5
<1>7. /\ row.sub # "DRAFT"
      /\ row.sub = "ACTIVE" => row.key # 0
      /\ row.sub \in {"PENDING", "REJECTED"} => acct[b].doubt
  BY <1>3, <1>6 DEF Commit, Traced, Learned
<1>8. biz[b].sub = "ACTIVE" /\ biz[b].key # 0
  BY DEF ApprovedIsActive
<1> SUFFICES ASSUME row.sub \notin {"PENDING", "REJECTED"} PROVE FALSE
  BY <1>7
<1>9. row.sub \in {"ACTIVE", "NEEDS_REVIEW"}
  BY <1>4, <1>7, RowIs DEF SubmerchantStatus
<1>10. CASE row.sub = "ACTIVE"
  <2>1. Verdict(biz[b], row) = [row EXCEPT !.payout = "APPROVED"]
    BY <1>7, <1>10 DEF Verdict, Approved
  <2>2. [row EXCEPT !.payout = "APPROVED"].payout = "APPROVED"
    BY <1>4 DEF Row
  <2> QED BY <1>6, <2>1, <2>2
<1>11. CASE row.sub = "NEEDS_REVIEW"
  <2>1. Verdict(biz[b], row) =
          [row EXCEPT !.payout = "APPROVED", !.sub = "ACTIVE", !.key = biz[b].key]
    BY <1>8, <1>11 DEF Verdict, Approved, Inconclusive, Kept
  <2>2. [row EXCEPT !.payout = "APPROVED", !.sub = "ACTIVE", !.key = biz[b].key].payout = "APPROVED"
    BY <1>4 DEF Row
  <2> QED BY <1>6, <2>1, <2>2
<1> QED BY <1>9, <1>10, <1>11

LEMMA TracedInit == Init => Traced
<1> SUFFICES ASSUME Init PROVE Traced
  OBVIOUS
<1>1. \A b \in Businesses : acct[b].key = 0
  BY DEF Init
<1>2. \A r \in Requests : req[r].pc = "FREE"
  BY DEF Init, Free
<1> QED BY <1>1, <1>2 DEF Traced, Learned

(* The variables keep their types; for the verdict this needs that what    *)
(* was approved has a key to keep.                                         *)
THEOREM TypeCorrect == Spec => []TypeOK
<1>1. Inv => TypeOK
  BY DEF Inv
<1> QED BY <1>1, Invariance, PTL

(* An approved business has an active account and its key, for any number  *)
(* of requests and faults (businesses/services_payout_onboarding.py).      *)
THEOREM ApprovalIsSound == Spec => []ApprovedIsActive
<1>1. Inv => ApprovedIsActive
  BY DEF Inv
<1> QED BY <1>1, Invariance, PTL

(* The action of an idempotency key commits at most once, and a completed  *)
(* record stands for a commit, though the job lock may be lost at any time *)
(* (idempotency/services.py).                                              *)
THEOREM KeysRunOnce == Spec => []OneRunPerKey
<1>1. Inv => OneRunPerKey
  BY DEF Inv, KeyAgrees, OneRunPerKey
<1> QED BY <1>1, Invariance, PTL

(* A business loses its approval only after the provider has put its       *)
(* account into another state or refused its data: timeouts, lost answers, *)
(* unknown keys, crashes and overlapping runs never cost it                *)
(* (businesses/services_payout_onboarding.py).                             *)
THEOREM ApprovalsLastUntilDoubted == Spec => ApprovalIsTheProviders
<1> DEFINE Lasts == \A b \in Businesses :
              biz[b].payout = "APPROVED" /\ biz'[b].payout # "APPROVED" => acct[b].doubt
<1>1. TypeOK /\ Traced /\ [Next]_vars => Traced'
  BY TracedStep
<1>2. TypeOK /\ ApprovedIsActive /\ Traced /\ [Next]_vars => Lasts
  BY DroppedInDoubt
<1>3. Spec => []Traced
  BY <1>1, TracedInit, TypeCorrect, PTL DEF Spec
<1>4. ApprovalIsTheProviders <=> [][Lasts]_vars
  BY DEF ApprovalIsTheProviders
<1> HIDE DEF Lasts
<1>5. Spec => [][Lasts]_vars
  BY <1>2, <1>3, TypeCorrect, ApprovalIsSound, PTL DEF Spec
<1> QED BY <1>4, <1>5

-----------------------------------------------------------------------------
(* The members of one business (Members).                                  *)
CONSTANTS Users, Admins, Owners
VARIABLES opened, member, admin

M == INSTANCE Members

(* A change that was checked leaves a critical member, if there is one.    *)
SafeChange(u, role, active) == M!Critical = {} \/ ~member[u].active \/ M!KeepsCritical(u, role, active)

CheckedChange(a) ==
  /\ admin[a].pc = "UPSERT" =>
       SafeChange(admin[a].user, admin[a].role, admin[a].active)
  /\ admin[a].pc = "DEACTIVATE" =>
       M!KeepsCritical(admin[a].user, member[admin[a].user].role, FALSE)

MembersInv ==
  /\ M!TypeOK
  /\ \A a \in Admins : CheckedChange(a)
  /\ ~opened => /\ \A a \in Admins : admin[a] = M!Idle
                /\ \A u \in Users : member[u] = M!NoMember

Alone == \A a, b \in Admins : a = b

-----------------------------------------------------------------------------
LEMMA IdleIsChecked == \A a \in Admins : admin[a] = M!Idle => CheckedChange(a)
  BY DEF M!Idle, CheckedChange

LEMMA MembersInit == M!Init => MembersInv
<1> SUFFICES ASSUME M!Init PROVE MembersInv
  OBVIOUS
<1>1. M!TypeOK
  <2>1. [role |-> "OWNER", active |-> TRUE] \in [role: M!Role, active: BOOLEAN]
    BY DEF M!Role
  <2> QED BY <2>1 DEF M!Init, M!TypeOK
<1>2. \A a \in Admins : admin[a] = M!Idle
  BY DEF M!Init
<1>3. ~opened => \A u \in Users : member[u] = M!NoMember
  BY DEF M!Init
<1> QED BY <1>1, <1>2, <1>3, IdleIsChecked DEF MembersInv

(* The write of a change that was checked in this very state.              *)
LEMMA UpsertKeeps ==
  ASSUME MembersInv, NEW a \in Admins, M!WriteUpsert(a), M!Critical # {}
  PROVE  M!Critical' # {}
<1> DEFINE u == admin[a].user
           row == [role |-> admin[a].role, active |-> admin[a].active]
<1>0. admin[a] \in M!Upserts
  BY DEF M!WriteUpsert, MembersInv, M!TypeOK, M!Upserts, M!Deactivations, M!Idle
<1>1. /\ u \in Users /\ row \in [role: M!Role, active: BOOLEAN]
      /\ SafeChange(u, admin[a].role, admin[a].active)
  BY <1>0 DEF MembersInv, CheckedChange, M!Upserts
<1>2. member' = [member EXCEPT ![u] = row] /\ member \in [Users -> {M!NoMember} \union [role: M!Role, active: BOOLEAN]]
  BY DEF M!WriteUpsert, MembersInv, M!TypeOK
<1>3. member'[u] = row /\ \A v \in Users \ {u} : member'[v] = member[v]
  BY <1>1, <1>2
<1>4. CASE admin[a].active /\ admin[a].role \in M!CriticalRoles
  BY <1>1, <1>3, <1>4 DEF M!Critical, M!ActiveMembers
<1>5. CASE M!Critical \ {u} # {}
  BY <1>3, <1>5 DEF M!Critical, M!ActiveMembers
<1>6. CASE ~member[u].active
  <2>1. M!Critical \ {u} # {}
    BY <1>6 DEF M!Critical, M!ActiveMembers
  <2> QED BY <2>1, <1>5
<1> QED BY <1>1, <1>4, <1>5, <1>6 DEF SafeChange, M!KeepsCritical

LEMMA DeactivationKeeps ==
  ASSUME MembersInv, NEW a \in Admins, M!WriteDeactivation(a)
  PROVE  M!Critical' # {}
<1> DEFINE u == admin[a].user
<1>1. admin[a] \in M!Deactivations /\ u \in Users /\ M!Critical \ {u} # {}
  BY DEF M!WriteDeactivation, MembersInv, M!TypeOK, CheckedChange, M!Upserts, M!Deactivations, M!Idle, M!KeepsCritical
<1>2. \A v \in Users \ {u} : member'[v] = member[v]
  BY <1>1 DEF M!WriteDeactivation, MembersInv, M!TypeOK
<1> QED BY <1>1, <1>2 DEF M!Critical, M!ActiveMembers

LEMMA CreationKeeps ==
  ASSUME MembersInv, NEW first, M!CreateBusiness(first)
  PROVE  \A a \in Admins : admin'[a] = M!Idle
  BY DEF M!CreateBusiness, MembersInv

LEMMA MembersTypeStep == M!TypeOK /\ [M!Next]_M!vars => M!TypeOK'
<1> SUFFICES ASSUME M!TypeOK, [M!Next]_M!vars PROVE M!TypeOK'
  OBVIOUS
<1>1. CASE M!CreateBusiness(<<>>)
  BY <1>1 DEF M!CreateBusiness, M!TypeOK
<1>2. CASE \E u \in Users, role \in M!Role : M!CreateBusiness(M!First(u, role))
  BY <1>2 DEF M!CreateBusiness, M!TypeOK, M!First
<1>3. ASSUME NEW a \in Admins, NEW u \in Users, NEW role \in M!Role, NEW active \in BOOLEAN,
             M!CheckUpsert(a, u, role, active)
      PROVE  M!TypeOK'
  BY <1>3 DEF M!CheckUpsert, M!TypeOK, M!Upserts
<1>4. ASSUME NEW a \in Admins, NEW u \in Users, M!CheckDeactivation(a, u)
      PROVE  M!TypeOK'
  BY <1>4 DEF M!CheckDeactivation, M!TypeOK, M!Deactivations
<1>5. ASSUME NEW a \in Admins, M!WriteUpsert(a)
      PROVE  M!TypeOK'
  BY <1>5 DEF M!WriteUpsert, M!TypeOK, M!Upserts, M!Deactivations, M!Idle
<1>6. ASSUME NEW a \in Admins, M!WriteDeactivation(a)
      PROVE  M!TypeOK'
  <2>1. admin[a].user \in Users
    BY <1>6 DEF M!WriteDeactivation, M!TypeOK, M!Upserts, M!Deactivations, M!Idle
  <2> DEFINE u == admin[a].user
             row == [member[u] EXCEPT !.active = FALSE]
  <2>2. row \in {M!NoMember} \union [role: M!Role, active: BOOLEAN]
    <3>1. CASE member[u] = M!NoMember
      <4>1. member[u] \in [role: {"NONE"}, active: {FALSE}]
        BY <3>1 DEF M!NoMember
      <4>2. row \in [role: {"NONE"}, active: {FALSE}]
        BY <4>1
      <4>3. \A r \in [role: {"NONE"}, active: {FALSE}] : r = M!NoMember
        <5> SUFFICES ASSUME NEW r \in [role: {"NONE"}, active: {FALSE}] PROVE r = M!NoMember
          OBVIOUS
        <5>1. r = [role |-> r.role, active |-> r.active]
          OBVIOUS
        <5>2. r.role = "NONE" /\ r.active = FALSE
          OBVIOUS
        <5> QED BY <5>1, <5>2, Zenon DEF M!NoMember
      <4> HIDE DEF row
      <4> QED BY <4>2, <4>3
    <3>2. CASE member[u] \in [role: M!Role, active: BOOLEAN]
      BY <3>2
    <3> QED BY <2>1, <3>1, <3>2 DEF M!TypeOK
  <2>3. member' = [member EXCEPT ![u] = row]
    BY <1>6 DEF M!WriteDeactivation
  <2> HIDE DEF row
  <2>4. member' \in [Users -> {M!NoMember} \union [role: M!Role, active: BOOLEAN]]
    BY <2>1, <2>2, <2>3 DEF M!TypeOK
  <2> QED BY <1>6, <2>4 DEF M!WriteDeactivation, M!TypeOK
<1>7. CASE UNCHANGED M!vars
  BY <1>7 DEF M!vars, M!TypeOK
<1> QED BY <1>1, <1>2, <1>3, <1>4, <1>5, <1>6, <1>7 DEF M!Next, M!AdminStep

-----------------------------------------------------------------------------
LEMMA MembersStep == Alone /\ MembersInv /\ [M!Next]_M!vars => MembersInv'
<1> SUFFICES ASSUME Alone, MembersInv, [M!Next]_M!vars PROVE MembersInv'
  OBVIOUS
<1>0. M!TypeOK /\ M!TypeOK'
  BY MembersTypeStep DEF MembersInv
<1>1. ASSUME opened', \A a \in Admins : admin'[a] = M!Idle
      PROVE  MembersInv'
  <2>1. \A a \in Admins : admin'[a].pc = "IDLE"
    BY <1>1 DEF M!Idle
  <2>2. \A a \in Admins : CheckedChange(a)'
    BY <2>1 DEF CheckedChange
  <2> QED BY <1>0, <1>1, <2>2 DEF MembersInv
<1>2. ASSUME NEW first, M!CreateBusiness(first)
      PROVE  MembersInv'
  BY <1>1, <1>2, CreationKeeps DEF M!CreateBusiness
<1>3. ASSUME NEW a \in Admins, M!WriteUpsert(a) \/ M!WriteDeactivation(a)
      PROVE  MembersInv'
  <2>1. admin'[a] = M!Idle
    BY <1>0, <1>3 DEF M!WriteUpsert, M!WriteDeactivation, M!TypeOK
  <2>2. opened /\ opened' = opened
    BY <1>3 DEF M!WriteUpsert, M!WriteDeactivation, MembersInv, M!Idle
  <2> QED BY <1>1, <2>1, <2>2 DEF Alone
<1>4. ASSUME NEW a \in Admins, NEW u \in Users, NEW role \in M!Role, NEW active \in BOOLEAN,
             M!CheckUpsert(a, u, role, active)
      PROVE  MembersInv'
  <2>1. /\ opened' = opened /\ opened /\ member' = member
        /\ admin'[a] = [pc |-> "UPSERT", user |-> u, role |-> role, active |-> active]
    BY <1>0, <1>4 DEF M!CheckUpsert, M!TypeOK
  <2>2. SafeChange(u, role, active)
    BY <1>4 DEF M!CheckUpsert, SafeChange, M!NoMember
  <2>3. SafeChange(u, role, active)'
    BY <2>1, <2>2 DEF SafeChange, M!Critical, M!ActiveMembers, M!KeepsCritical
  <2>4. CheckedChange(a)'
    BY <2>1, <2>3 DEF CheckedChange
  <2> QED BY <1>0, <2>1, <2>4 DEF MembersInv, Alone
<1>5. ASSUME NEW a \in Admins, NEW u \in Users, M!CheckDeactivation(a, u)
      PROVE  MembersInv'
  <2>1. /\ opened' = opened /\ opened /\ member' = member
        /\ admin'[a] = [pc |-> "DEACTIVATE", user |-> u]
        /\ M!KeepsCritical(u, member[u].role, FALSE)
    BY <1>0, <1>5 DEF M!CheckDeactivation, M!TypeOK
  <2>2. CheckedChange(a)'
    BY <2>1 DEF CheckedChange, M!KeepsCritical, M!Critical, M!ActiveMembers
  <2> QED BY <1>0, <2>1, <2>2 DEF MembersInv, Alone
<1>6. CASE UNCHANGED M!vars
  BY <1>0, <1>6 DEF M!vars, MembersInv, CheckedChange, SafeChange, M!KeepsCritical, M!Critical, M!ActiveMembers
<1> QED BY <1>2, <1>3, <1>4, <1>5, <1>6 DEF M!Next, M!AdminStep

LEMMA CriticalStep == MembersInv /\ [M!Next]_M!vars => (M!Critical # {} => M!Critical' # {})
<1> SUFFICES ASSUME MembersInv, [M!Next]_M!vars, M!Critical # {} PROVE M!Critical' # {}
  OBVIOUS
<1>1. opened
  BY DEF MembersInv, M!Critical, M!ActiveMembers, M!NoMember
<1>2. ~ \E first : M!CreateBusiness(first)
  BY <1>1 DEF M!CreateBusiness
<1>3. CASE UNCHANGED member
  BY <1>3 DEF M!Critical, M!ActiveMembers
<1>4. CASE \E a \in Admins : M!AdminStep(a)
  BY <1>3, <1>4, UpsertKeeps, DeactivationKeeps DEF M!AdminStep, M!CheckUpsert, M!CheckDeactivation
<1> QED BY <1>2, <1>3, <1>4 DEF M!Next, M!vars

(* With one admin at a time a business that has an active owner or manager *)
(* keeps one: what is missing in the code is only the lock between the     *)
(* check and the write.                                                    *)
THEOREM OneAdminKeepsCritical == ASSUME Alone PROVE M!Spec => M!CriticalStays
<1> QED BY MembersInit, MembersStep, CriticalStep, PTL DEF M!Spec, M!CriticalStays
=============================================================================
