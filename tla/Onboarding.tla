----------------------------- MODULE Onboarding -----------------------------
(***************************************************************************)
(* Opening a business's account at the payment provider: the request of an *)
(* admin takes a job lock, an idempotency record and the business's row,   *)
(* holds the row through the calls to the provider, writes the verdict and *)
(* completes the record.                                                   *)
(*                                                                         *)
(* A provider account is known by its number: 0 is none, Typed is a key    *)
(* the provider never issued (the demo data has such rows).  The calls and *)
(* the provider's own decisions interleave; the answers are all the client *)
(* tells apart.                                                            *)
(***************************************************************************)
EXTENDS Naturals

CONSTANTS
  Businesses, Requests,
  IdemKeys,         \* the Idempotency-Keys of one admin
  Nobody, Dead,     \* a free job lock; one whose request died
  MaxAccounts,      \* bound: accounts the provider opens
  MaxDecisions,     \* bound: decisions of the provider on an account, closings included
  MaxLapses,        \* bound: job locks that run out under a live request
  MaxCrashes        \* bound: requests that die

ASSUME OnboardingConstants ==
  /\ Nobody # Dead /\ {Nobody, Dead} \intersect Requests = {}
  /\ MaxAccounts \in Nat /\ MaxDecisions \in Nat /\ MaxLapses \in Nat /\ MaxCrashes \in Nat

VARIABLES
  biz,         \* biz[b]: the columns of the business's row that onboarding writes
  acct,        \* acct[b]: the provider's account of the business
  record,      \* record[k]: the idempotency record of a key
  lock,        \* lock[b]: who holds the job lock of the business
  req,         \* req[r]: where a request is and what it has in memory
  commits,     \* commits[k]: how often a run of the key has committed
  bounds       \* what the bounds count

vars == <<biz, acct, record, lock, req, commits, bounds>>

Typed == MaxAccounts + 1
Keys == 0..Typed

PayoutStatus == {"NONE", "PENDING", "APPROVED", "REJECTED", "NEEDS_REVIEW"}
SubmerchantStatus == {"DRAFT", "PENDING", "ACTIVE", "REJECTED", "NEEDS_REVIEW"}

(* What the check of the business's own data says.                         *)
Validity == BOOLEAN

(* What the provider says of an account: a status the client knows, one it *)
(* does not, or nothing.                                                   *)
ProviderStatus == {"ACTIVE", "PENDING", "REJECTED", "OTHER"}
Said == ProviderStatus \union {"NOTHING"}

(* The errors of a call: worth another try, the business's data refused,   *)
(* anything else.                                                          *)
Errors == {"RETRY", "REFUSED", "OTHER"}

Row == [payout: PayoutStatus, sub: SubmerchantStatus, key: Keys, synced: BOOLEAN]

NewBusiness == [payout |-> "NONE", sub |-> "DRAFT", key |-> 0, synced |-> FALSE]
DemoBusinesses ==
  {[payout |-> "APPROVED", sub |-> "ACTIVE", key |-> Typed, synced |-> FALSE],
   [payout |-> "PENDING", sub |-> "PENDING", key |-> Typed, synced |-> FALSE],
   [payout |-> "NEEDS_REVIEW", sub |-> "NEEDS_REVIEW", key |-> Typed, synced |-> FALSE]}

NoRecord == [state |-> "NONE", code |-> 0]
Free == [pc |-> "FREE"]

Calling == {"UPDATE", "CREATE", "LOOKUP", "REUPDATE", "DETAIL"}
InTransaction == Calling \union {"MARKED"}

Waiting == [pc: {"LOCKED", "RECORDED"}, on: Businesses, key: IdemKeys]
Talking == [pc: InTransaction, on: Businesses, key: IdemKeys, row: Row,
            why: {"NONE", "DUPLICATE", "CREATED"} \union Errors, got: Keys, said: Said]
Answering == [pc: {"COMMITTED"}, on: Businesses, key: IdemKeys, code: {200, 202, 409, 422}]

TypeOK ==
  /\ biz \in [Businesses -> Row]
  /\ acct \in [Businesses -> [key: 0..MaxAccounts, status: ProviderStatus, doubt: BOOLEAN]]
  /\ record \in [IdemKeys -> [state: {"NONE", "IN_PROGRESS", "COMPLETED", "FAILED"},
                              code: {0, 200, 202, 409, 422}]]
  /\ lock \in [Businesses -> Requests \union {Nobody, Dead}]
  /\ req \in [Requests -> {Free} \union Waiting \union Talking \union Answering]
  /\ commits \in [IdemKeys -> Nat]
  /\ bounds \in [accounts: 0..MaxAccounts, decisions: 0..MaxDecisions,
                 lapses: 0..MaxLapses, crashes: 0..MaxCrashes]

Init ==
  /\ biz \in [Businesses -> {NewBusiness} \union DemoBusinesses]
  /\ acct = [b \in Businesses |-> [key |-> 0, status |-> "PENDING", doubt |-> FALSE]]
  /\ record = [k \in IdemKeys |-> NoRecord]
  /\ lock = [b \in Businesses |-> Nobody]
  /\ req = [r \in Requests |-> Free]
  /\ commits = [k \in IdemKeys |-> 0]
  /\ bounds = [accounts |-> 0, decisions |-> 0, lapses |-> 0, crashes |-> 0]

-----------------------------------------------------------------------------
(* The job lock.                                                           *)

Acquire(r, b, k) ==
  /\ req[r] = Free /\ lock[b] = Nobody
  /\ lock' = [lock EXCEPT ![b] = r]
  /\ req' = [req EXCEPT ![r] = [pc |-> "LOCKED", on |-> b, key |-> k]]
  /\ UNCHANGED <<biz, acct, record, commits, bounds>>

(* The lock goes with its own token only.                                  *)
Released(r) == [b \in Businesses |-> IF lock[b] = r THEN Nobody ELSE lock[b]]

Leave(r) ==
  /\ lock' = Released(r)
  /\ req' = [req EXCEPT ![r] = Free]

(* Without its owner the lock runs out; the owner's thread refreshes it,   *)
(* unless the cache loses it.                                              *)
LockRunsOut(b) ==
  /\ lock[b] = Dead
  /\ lock' = [lock EXCEPT ![b] = Nobody]
  /\ UNCHANGED <<biz, acct, record, req, commits, bounds>>

LockIsLost(b) ==
  /\ lock[b] \in Requests /\ bounds.lapses < MaxLapses
  /\ lock' = [lock EXCEPT ![b] = Nobody]
  /\ bounds' = [bounds EXCEPT !.lapses = @ + 1]
  /\ UNCHANGED <<biz, acct, record, req, commits>>

-----------------------------------------------------------------------------
(* The idempotency record: the first request of a key runs the action, the *)
(* others are answered from the record.                                    *)

(* Mutant: only a completed key is answered from its record.               *)
FreshUnlessCompleted(k) == record[k].state # "COMPLETED"

Fresh(k) == record[k].state = "NONE"

Enter(r) ==
  /\ req[r].pc = "LOCKED"
  /\ LET k == req[r].key IN
     IF Fresh(k)
     THEN /\ record' = [record EXCEPT ![k] = [state |-> "IN_PROGRESS", code |-> 0]]
          /\ req' = [req EXCEPT ![r].pc = "RECORDED"]
          /\ UNCHANGED lock
     ELSE Leave(r) /\ UNCHANGED record
  /\ UNCHANGED <<biz, acct, commits, bounds>>

Complete(r) ==
  /\ req[r].pc = "COMMITTED"
  /\ record' = [record EXCEPT ![req[r].key] = [state |-> "COMPLETED", code |-> req[r].code]]
  /\ Leave(r)
  /\ UNCHANGED <<biz, acct, commits, bounds>>

(* An exception: in the transaction it undoes it, after it (the audit log) *)
(* the verdict stays and the record says FAILED all the same.              *)
Raise(r) ==
  /\ req[r].pc \in InTransaction \union {"COMMITTED"}
  /\ record' = [record EXCEPT ![req[r].key] = [state |-> "FAILED", code |-> 0]]
  /\ Leave(r)
  /\ UNCHANGED <<biz, acct, commits, bounds>>

Die(r) ==
  /\ req[r] # Free /\ bounds.crashes < MaxCrashes
  /\ lock' = [b \in Businesses |-> IF lock[b] = r THEN Dead ELSE lock[b]]
  /\ req' = [req EXCEPT ![r] = Free]
  /\ bounds' = [bounds EXCEPT !.crashes = @ + 1]
  /\ UNCHANGED <<biz, acct, record, commits>>

-----------------------------------------------------------------------------
(* The run: the row is locked, the data checked, the account updated or    *)
(* created.                                                                *)

NeedsReview(row) == [row EXCEPT !.sub = "NEEDS_REVIEW", !.synced = TRUE]
Refused(row) == [row EXCEPT !.sub = "REJECTED", !.synced = TRUE]

(* Mutant: the provider's word is stored as it comes.                      *)
LocalAsSaid(said) == said

Local(said) == IF said \in {"ACTIVE", "PENDING", "REJECTED"} THEN said ELSE "NEEDS_REVIEW"

(* A silent provider leaves an active account active.                      *)
Marked(row, key, said) ==
  [row EXCEPT !.key = key, !.synced = TRUE,
     !.sub = IF said = "NOTHING" /\ row.sub = "ACTIVE" THEN "ACTIVE" ELSE Local(said)]

RowFree(b) == \A r \in Requests : req[r].pc \in InTransaction => req[r].on # b

At(r, pc, row) ==
  req' = [req EXCEPT ![r] = [pc |-> pc, on |-> req[r].on, key |-> req[r].key, row |-> row,
                             why |-> "NONE", got |-> 0, said |-> "NOTHING"]]

FirstCall(row) == IF row.key = 0 THEN "CREATE" ELSE "UPDATE"

Begin(r, valid) ==
  /\ req[r].pc = "RECORDED"
  /\ LET b == req[r].on IN
     /\ RowFree(b)
     /\ IF valid THEN At(r, FirstCall(biz[b]), biz[b])
                 ELSE At(r, "MARKED", NeedsReview(biz[b]))
  /\ UNCHANGED <<biz, acct, record, lock, commits, bounds>>

Mine(r) == acct[req[r].on]

Mark(r, row) == At(r, "MARKED", row)
Fail(r, e) == Mark(r, IF e = "REFUSED" THEN Refused(req[r].row) ELSE NeedsReview(req[r].row))
Ask(r, why) == req' = [req EXCEPT ![r].pc = "LOOKUP", ![r].why = why]
Got(r, key, said) ==
  req' = [req EXCEPT ![r].pc = "DETAIL", ![r].why = "NONE", ![r].got = key, ![r].said = said]

(* What the provider may report of the account.                            *)
Reports(r) == {Mine(r).status, "NOTHING"}

(* An error the provider itself answers with may cost the business its     *)
(* approval.                                                               *)
Errs(r, e) ==
  acct' = IF e = "REFUSED" THEN [acct EXCEPT ![req[r].on].doubt = TRUE] ELSE acct

UpdateAnswered(r) ==
  /\ req[r].pc = "UPDATE" /\ Mine(r).key = req[r].row.key
  /\ \E said \in Reports(r) : Got(r, req[r].row.key, said)
  /\ UNCHANGED <<biz, acct, record, lock, commits, bounds>>

(* The provider does not know the key: a row without a history of calls    *)
(* starts over, any other waits for a person.                              *)
UpdateUnknown(r) ==
  /\ req[r].pc = "UPDATE" /\ Mine(r).key # req[r].row.key
  /\ IF req[r].row.synced THEN Fail(r, "RETRY")
     ELSE req' = [req EXCEPT ![r].pc = "CREATE", ![r].row.key = 0]
  /\ UNCHANGED <<biz, acct, record, lock, commits, bounds>>

UpdateFails(r, e) ==
  /\ req[r].pc = "UPDATE"
  /\ Ask(r, e) /\ Errs(r, e)
  /\ UNCHANGED <<biz, record, lock, commits, bounds>>

(* The provider opens the account; the answer may get lost, or a second    *)
(* attempt of the same call may be told of a duplicate.                    *)
AccountOpened(r) ==
  /\ req[r].pc = "CREATE" /\ Mine(r).key = 0 /\ bounds.accounts < MaxAccounts
  /\ LET n == bounds.accounts + 1 IN
     /\ bounds' = [bounds EXCEPT !.accounts = n]
     /\ \E status \in {"ACTIVE", "PENDING"} :
          /\ acct' = [acct EXCEPT ![req[r].on] =
                        [key |-> n, status |-> status, doubt |-> @.doubt \/ status # "ACTIVE"]]
          /\ \/ \E key \in {n, 0}, said \in {status, "NOTHING"} : Got(r, key, said)
             \/ Ask(r, "CREATED") \/ Ask(r, "DUPLICATE")
  /\ UNCHANGED <<biz, record, lock, commits>>

CreateDuplicate(r) ==
  /\ req[r].pc = "CREATE" /\ Mine(r).key # 0
  /\ Ask(r, "DUPLICATE")
  /\ UNCHANGED <<biz, acct, record, lock, commits, bounds>>

CreateFails(r, e) ==
  /\ req[r].pc = "CREATE"
  /\ IF e = "RETRY" THEN Ask(r, "CREATED") ELSE Fail(r, e)
  /\ Errs(r, e)
  /\ UNCHANGED <<biz, record, lock, commits, bounds>>

(* The account is looked up by the business's own number, after a          *)
(* duplicate, an unclear create or a failed update.                        *)
LookupFinds(r) ==
  /\ req[r].pc = "LOOKUP" /\ Mine(r).key # 0
  /\ LET key == Mine(r).key  why == req[r].why IN
     \/ /\ why = "DUPLICATE"
        /\ \E said \in Reports(r) :
             req' = [req EXCEPT ![r].pc = "REUPDATE", ![r].row.key = key,
                                ![r].got = key, ![r].said = said]
     \/ /\ why = "CREATED" \/ (why \in Errors /\ key = req[r].row.key)
        /\ \E said \in Reports(r) : Got(r, key, said)
     \/ /\ why \in Errors /\ key # req[r].row.key
        /\ Fail(r, why)
  /\ UNCHANGED <<biz, acct, record, lock, commits, bounds>>

LookupFindsNothing(r) ==
  /\ req[r].pc = "LOOKUP" /\ Mine(r).key = 0
  /\ Fail(r, req[r].why)
  /\ UNCHANGED <<biz, acct, record, lock, commits, bounds>>

LookupFails(r, e) ==
  /\ req[r].pc = "LOOKUP"
  /\ Fail(r, e) /\ Errs(r, e)
  /\ UNCHANGED <<biz, record, lock, commits, bounds>>

(* After a duplicate the account gets the new data; that may fail.         *)
Reupdate(r) ==
  /\ req[r].pc = "REUPDATE"
  /\ \E said \in {Mine(r).status, req[r].said} : Got(r, req[r].got, said)
  /\ UNCHANGED <<biz, acct, record, lock, commits, bounds>>

(* A last look decides; without it nothing is believed.                    *)
DetailAnswered(r) ==
  /\ req[r].pc = "DETAIL"
  /\ LET key == IF Mine(r).key # 0 THEN Mine(r).key ELSE req[r].got IN
     \E said \in {Mine(r).status, req[r].said} :
        Mark(r, IF key = 0 THEN NeedsReview(req[r].row) ELSE Marked(req[r].row, key, said))
  /\ UNCHANGED <<biz, acct, record, lock, commits, bounds>>

DetailFails(r) ==
  /\ req[r].pc = "DETAIL"
  /\ Fail(r, "RETRY")
  /\ UNCHANGED <<biz, acct, record, lock, commits, bounds>>

-----------------------------------------------------------------------------
(* The verdict.                                                            *)

Approved(row) == row.key # 0 /\ row.sub = "ACTIVE"

(* Mutant: the approval is kept, the account's state is not.               *)
KeptPayout(was, row) == [row EXCEPT !.payout = was.payout]

(* A run that learned nothing leaves a verdict as it was.                  *)
Kept(was, row) ==
  IF was.payout = "APPROVED" /\ was.sub = "ACTIVE" /\ was.key # 0
  THEN [row EXCEPT !.payout = "APPROVED", !.sub = "ACTIVE", !.key = was.key]
  ELSE [row EXCEPT !.payout = was.payout]

(* Mutant: a run that learned nothing asks for a review in any case.       *)
InconclusiveReview(was, row) == [row EXCEPT !.payout = "NEEDS_REVIEW"]

Inconclusive(was, row) ==
  CASE was.payout \in {"APPROVED", "REJECTED"} -> Kept(was, row)
    [] was.payout = "PENDING" -> [row EXCEPT !.payout = "PENDING", !.sub = "PENDING"]
    [] OTHER -> [row EXCEPT !.payout = "NEEDS_REVIEW"]

Verdict(was, row) ==
  IF Approved(row) THEN [row EXCEPT !.payout = "APPROVED"]
  ELSE IF row.sub = "NEEDS_REVIEW" THEN Inconclusive(was, row)
  ELSE IF row.sub = "PENDING" THEN [row EXCEPT !.payout = "PENDING"]
  ELSE [row EXCEPT !.payout = "REJECTED"]

Code(row, verdict) ==
  IF Approved(row) THEN 200
  ELSE IF verdict.payout = "NEEDS_REVIEW" THEN 409
  ELSE IF verdict.payout = "REJECTED" THEN 422
  ELSE 202

Commit(r) ==
  /\ req[r].pc = "MARKED"
  /\ LET b == req[r].on  k == req[r].key  verdict == Verdict(biz[b], req[r].row) IN
     /\ biz' = [biz EXCEPT ![b] = verdict]
     /\ commits' = [commits EXCEPT ![k] = @ + 1]
     /\ req' = [req EXCEPT ![r] = [pc |-> "COMMITTED", on |-> b, key |-> k,
                                   code |-> Code(req[r].row, verdict)]]
  /\ UNCHANGED <<acct, record, lock, bounds>>

-----------------------------------------------------------------------------
(* The provider decides on an account, or closes it.                       *)

Decide(b, status) ==
  /\ acct[b].key # 0 /\ acct[b].status # status /\ bounds.decisions < MaxDecisions
  /\ acct' = [acct EXCEPT ![b].status = status, ![b].doubt = @ \/ status # "ACTIVE"]
  /\ bounds' = [bounds EXCEPT !.decisions = @ + 1]
  /\ UNCHANGED <<biz, record, lock, req, commits>>

Close(b) ==
  /\ acct[b].key # 0 /\ bounds.decisions < MaxDecisions
  /\ acct' = [acct EXCEPT ![b].key = 0]
  /\ bounds' = [bounds EXCEPT !.decisions = @ + 1]
  /\ UNCHANGED <<biz, record, lock, req, commits>>

Provider(b) == Close(b) \/ \E status \in ProviderStatus : Decide(b, status)

-----------------------------------------------------------------------------
Talk(r) ==
  \/ UpdateAnswered(r) \/ UpdateUnknown(r)
  \/ AccountOpened(r) \/ CreateDuplicate(r)
  \/ LookupFinds(r) \/ LookupFindsNothing(r)
  \/ Reupdate(r) \/ DetailAnswered(r) \/ DetailFails(r)
  \/ \E e \in Errors : UpdateFails(r, e) \/ CreateFails(r, e) \/ LookupFails(r, e)

Step(r) ==
  Enter(r) \/ (\E valid \in Validity : Begin(r, valid)) \/ Talk(r) \/ Commit(r) \/ Complete(r)

Next ==
  \/ \E r \in Requests, b \in Businesses, k \in IdemKeys : Acquire(r, b, k)
  \/ \E r \in Requests : Step(r) \/ Raise(r) \/ Die(r)
  \/ \E b \in Businesses : LockRunsOut(b) \/ LockIsLost(b) \/ Provider(b)

Spec == Init /\ [][Next]_vars

-----------------------------------------------------------------------------
(* Properties.                                                             *)

(* An approved business has an active account and its key, however runs    *)
(* end and in whatever order: the payout provider checks only the key and  *)
(* the approval (iyzico_marketplace_payout.py:339-341).                    *)
ApprovedIsActive ==
  \A b \in Businesses : biz[b].payout = "APPROVED" => biz[b].sub = "ACTIVE" /\ biz[b].key # 0

(* A key's action commits once, and a completed record answers with what   *)
(* its own run committed, though locks are lost and requests die or fail   *)
(* on the way.                                                             *)
OneRunPerKey ==
  \A k \in IdemKeys :
     /\ commits[k] <= 1
     /\ record[k].state = "COMPLETED" => commits[k] = 1

(* A business loses its approval only after the provider has put its       *)
(* account into another state or refused its data: timeouts, lost answers, *)
(* unknown keys and crashes never cost it.                                 *)
ApprovalIsTheProviders ==
  [][\A b \in Businesses :
       biz[b].payout = "APPROVED" /\ biz'[b].payout # "APPROVED" => acct[b].doubt]_vars
=============================================================================
