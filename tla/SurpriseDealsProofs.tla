------------------------- MODULE SurpriseDealsProofs -------------------------
(***************************************************************************)
(* What holds of SurpriseDeals for every number of customers, deals, packs,*)
(* request threads and sessions.  Each step of the system is of one of six *)
(* kinds for the tables of deals, sessions and reservations; the theorems  *)
(* follow from the kinds.                                                  *)
(***************************************************************************)
EXTENDS SurpriseDeals, FiniteSetTheorems, TLAPS

Ended == {"CONSUMED", "EXPIRED", "CANCELLED"}

(* Shapes.                                                                 *)
Typed == TypeOK /\ req = [w \in Workers |-> req[w]]

(* What a session's status says of its reservation and its order.          *)
PackOK(s) ==
  /\ session[s].status = "NONE" <=> resv[s] = "NONE"
  /\ session[s].status # "NONE" => session[s].user \in Users /\ session[s].deal \in Deals
  /\ Live(s) => resv[s] = "RESERVED"
  /\ resv[s] = "COMMITTED" <=> s \in orders

(* An expiry on a GET path is of an allocated session, and gives its pack  *)
(* back only after it has ended the session.  The rows that a PATCH or a   *)
(* close has read exist only once one has begun.                           *)
PendingOK(r) ==
  /\ r.op = "expire" => /\ session[r.session].status # "NONE"
                        /\ r.step = "release" => ~Live(r.session)
  /\ r.op = "patch" => used.patch > 0
  /\ r.op = "close" => used.close > 0

Consistent ==
  /\ Typed
  /\ \A s \in Sessions : PackOK(s)
  /\ \A w \in Workers : PendingOK(req[w])

-----------------------------------------------------------------------------
(* The kinds of steps *)

(* A new session takes a pack.                                             *)
Takes(s, u, d) ==
  /\ session[s].status = "NONE"
  /\ deal[d].remaining > 0 /\ ~HasPack(u, d)
  /\ session' = [session EXCEPT ![s] = [status |-> "PENDING", user |-> u, deal |-> d]]
  /\ resv' = [resv EXCEPT ![s] = "RESERVED"]
  /\ deal' = [deal EXCEPT ![d] = ReservedRow(d)]
  /\ UNCHANGED <<orders, used>>

(* A session is over, and its pack is returned unless that was done.       *)
Returns(s) ==
  /\ session[s].status # "NONE"
  /\ \E st \in Ended : session' = [session EXCEPT ![s].status = st]
  /\ \E st \in {"EXPIRED", "CANCELLED"} : Release(s, st)
  /\ UNCHANGED <<orders, used>>

(* A session is over; its pack stays reserved for now.                     *)
Ends(s) ==
  /\ session[s].status # "NONE"
  /\ session' = [session EXCEPT ![s].status = "EXPIRED"]
  /\ UNCHANGED <<deal, resv, orders, used>>

(* A session's pack is sold.                                               *)
Sells(s) ==
  /\ Live(s) /\ resv[s] = "RESERVED"
  /\ session' = [session EXCEPT ![s].status = "CONSUMED"]
  /\ resv' = CommittedResv(s)
  /\ deal' = [deal EXCEPT ![session[s].deal] = CommittedRow(session[s].deal)]
  /\ orders' = orders \union {s}
  /\ UNCHANGED used

(* The business writes a deal, or closes it, as operations may do too.     *)
Edits(d) ==
  /\ UNCHANGED <<session, resv, orders>>
  /\ \/ /\ used'.patch > 0
        /\ \E row \in DealRow : /\ Saveable(d, row)
                               /\ deal' = [deal EXCEPT ![d] = row]
     \/ /\ used'.close > 0
        /\ deal' = [deal EXCEPT ![d].status = "CLOSED"]

Leaves ==
  /\ UNCHANGED <<deal, session, resv, orders>>
  /\ used'.patch >= used.patch /\ used'.close >= used.close

Step ==
  \/ \E s \in Sessions, u \in Users, d \in Deals : Takes(s, u, d)
  \/ \E s \in Sessions : Returns(s) \/ Ends(s) \/ Sells(s)
  \/ \E d \in Deals : Edits(d)
  \/ Leaves

-----------------------------------------------------------------------------
(* Rows *)

(* max(x, 0) *)
LEMMA MaxZero ==
  ASSUME NEW x \in Int
  PROVE  Max({x, 0}) = IF x >= 0 THEN x ELSE 0
BY DEF Max

(* The columns a reservation that ends leaves.                             *)
LEMMA RowsMade ==
  ASSUME RowsOK, NEW d \in Deals
  PROVE  /\ ReleasedRow(d).reserved =
              IF deal[d].reserved > 0 THEN deal[d].reserved - 1 ELSE 0
         /\ CommittedRow(d) =
              [status    |-> deal[d].status,
               total     |-> deal[d].total,
               remaining |-> deal[d].remaining,
               reserved  |-> IF deal[d].reserved > 0 THEN deal[d].reserved - 1 ELSE 0]
<1>1. deal[d] \in DealRow
  BY DEF RowsOK
<1>2. /\ deal[d].reserved \in Nat
      /\ deal[d].reserved - 1 \in Int
  BY <1>1 DEF DealRow
<1>3. Max({deal[d].reserved - 1, 0}) = IF deal[d].reserved > 0 THEN deal[d].reserved - 1 ELSE 0
  BY <1>2, MaxZero
<1>4. deal[d] = [status |-> deal[d].status, total |-> deal[d].total,
                 remaining |-> deal[d].remaining, reserved |-> deal[d].reserved]
  BY <1>1 DEF DealRow
<1>5. CommittedRow(d) =
        [status    |-> deal[d].status,
         total     |-> deal[d].total,
         remaining |-> deal[d].remaining,
         reserved  |-> Max({deal[d].reserved - 1, 0})]
  BY <1>4 DEF CommittedRow
<1>6. ReleasedRow(d).reserved = Max({deal[d].reserved - 1, 0})
  BY DEF ReleasedRow
<1> QED BY <1>3, <1>5, <1>6

(* Whatever is done to a deal's row leaves it a row.                       *)
LEMMA RowsKept ==
  ASSUME RowsOK, NEW d \in Deals
  PROVE  /\ deal[d].remaining > 0 => ReservedRow(d) \in DealRow
         /\ Saveable(d, ReleasedRow(d)) => ReleasedRow(d) \in DealRow
         /\ CommittedRow(d) \in DealRow
<1>1. deal[d] \in DealRow
  BY DEF RowsOK
<1>2. Stock \in Nat
  BY NumbersAssumption
<1>3. deal[d].remaining > 0 => ReservedRow(d) \in DealRow
  BY <1>1, <1>2 DEF DealRow, DealStatus, ReservedRow, SoldOut
<1>4. Saveable(d, ReleasedRow(d)) => ReleasedRow(d) \in DealRow
  <2>1. Max({deal[d].reserved - 1, 0}) \in Nat
    BY <1>1, RowsMade DEF DealRow, ReleasedRow
  <2> QED BY <1>1, <1>2, <2>1 DEF DealRow, DealStatus, ReleasedRow, Reopened, Saveable
<1>5. CommittedRow(d) \in DealRow
  BY <1>1, <1>2, RowsMade DEF DealRow
<1> QED BY <1>3, <1>4, <1>5

-----------------------------------------------------------------------------
(* Every step is of one of the kinds *)

LEMMA UsesMore ==
  ASSUME Typed, NEW b \in {"patch", "close", "toggle", "crash"}, Uses(b)
  PROVE  /\ used' \in [patch : Nat, close : Nat, toggle : Nat, crash : Nat]
         /\ used'.patch >= used.patch /\ used'.close >= used.close
         /\ b = "patch" => used'.patch > 0
         /\ b = "close" => used'.close > 0
BY DEF Typed, TypeOK, RowsOK, Uses

LEMMA EveryStep ==
  ASSUME Consistent, Next
  PROVE  Step
<1> USE DEF Typed, TypeOK, Consistent
<1>1. /\ used.patch \in Nat /\ used.close \in Nat
      /\ used' = used => used'.patch >= used.patch /\ used'.close >= used.close
  BY DEF RowsOK
<1>2. CASE Checkouts
  <2>1. ASSUME NEW u \in Users, NEW d \in Deals, CreateSession(u, d)
        PROVE  Step
    BY <2>1 DEF CreateSession, Step, Takes
  <2>2. ASSUME NEW s \in Sessions, CancelSession(s)
        PROVE  Returns(s)
    BY <2>2 DEF CancelSession, Unexpired, Live, SetStatus, Returns, Ended
  <2>3. ASSUME NEW s \in Sessions, ConsumeSession(s)
        PROVE  Sells(s)
    BY <2>3 DEF ConsumeSession, Consumable, SetStatus, Sells
  <2>4. ASSUME NEW s \in Sessions, ConsumeTooLate(s)
        PROVE  Returns(s)
    BY <2>4 DEF ConsumeTooLate, Consumable, Live, SetStatus, Returns, Ended
  <2>5. ASSUME NEW s \in Sessions, ConsumeUnpaid(s)
        PROVE  Returns(s)
    BY <2>5 DEF ConsumeUnpaid, Consumable, Live, SetStatus, Returns, Ended
  <2> QED BY <1>2, <2>1, <2>2, <2>3, <2>4, <2>5 DEF Checkouts, Step
<1>3. CASE LazyExpiry
  <2>1. ASSUME NEW w \in Workers,
               \/ \E s \in Sessions : ReadSession(w, s)
               \/ FindNotDue(w) \/ ExpirePackFails(w)
        PROVE  Leaves
    BY <1>1, <2>1 DEF ReadSession, FindNotDue, ExpirePackFails, Leaves, tables
  <2>2. ASSUME NEW w \in Workers, ExpireSession(w)
        PROVE  req[w].session \in Sessions /\ Ends(req[w].session)
    BY <2>2 DEF ExpireSession, InExpiry, RequestOK, Idle, PendingOK, SetStatus, Ends
  <2>3. ASSUME NEW w \in Workers, ExpirePack(w)
        PROVE  req[w].session \in Sessions /\ Returns(req[w].session)
    <3> DEFINE s == req[w].session
    <3>1. /\ s \in Sessions
          /\ session[s].status \in Ended
      BY <2>3 DEF ExpirePack, InExpiry, RequestOK, Idle, PendingOK, RowsOK, Live,
                  SessionStatus, Ended
    <3>2. session' = [session EXCEPT ![s].status = session[s].status]
      BY <2>3, <3>1 DEF ExpirePack, RowsOK
    <3> QED BY <2>3, <3>1, <3>2 DEF ExpirePack, Returns, Ended
  <2> QED BY <1>3, <2>1, <2>2, <2>3 DEF LazyExpiry, Step
<1>4. CASE ExpireCommand
  <2>1. ASSUME \/ ExpireSelect
               \/ \E s \in Sessions : ExpireFails(s)
        PROVE  Leaves
    BY <1>1, <2>1 DEF ExpireSelect, ExpireFails, Leaves, tables
  <2>2. ASSUME NEW s \in Sessions, ExpireOne(s)
        PROVE  Step
    <3>1. CASE ~Expirable(s)
      BY <1>1, <2>2, <3>1 DEF ExpireOne, Leaves, Step
    <3>2. CASE Expirable(s)
      <4> DEFINE st == IF Live(s) THEN "EXPIRED" ELSE session[s].status
      <4>1. session[s].status # "NONE" /\ st \in Ended
        BY <3>2 DEF Expirable, PackOK, RowsOK, SessionStatus, Live, Ended
      <4>2. Returns(s)
        BY <2>2, <3>2, <4>1 DEF ExpireOne, SetStatus, Returns
      <4> QED BY <4>2 DEF Step
    <3> QED BY <3>1, <3>2
  <2> QED BY <1>4, <2>1, <2>2 DEF ExpireCommand, Step
<1>5. CASE Cleanup
  BY <1>5 DEF Cleanup, CleanupSession, Live, SetStatus, Ends, Step
<1>6. CASE Business
  <2>1. ASSUME NEW w \in Workers,
               \/ \E d \in Deals : ReadDeal(w, d) \/ CheckClose(w, d)
               \/ ValidatePatch(w) \/ RefusePatch(w)
        PROVE  Leaves
    BY <1>1, <2>1, UsesMore DEF ReadDeal, CheckClose, ValidatePatch, RefusePatch, Leaves, tables
  <2>2. ASSUME NEW w \in Workers, SavePatch(w)
        PROVE  req[w].deal \in Deals /\ Edits(req[w].deal)
    <3>1. req[w].op = "patch" /\ used.patch > 0 /\ used' = used
      BY <2>2 DEF SavePatch, PendingOK
    <3>2. req[w].deal \in Deals /\ req[w].row \in DealRow
      BY <3>1 DEF RequestOK, Idle
    <3> QED BY <2>2, <3>1, <3>2 DEF SavePatch, Edits
  <2>3. ASSUME NEW w \in Workers, CloseDeal(w)
        PROVE  req[w].deal \in Deals /\ Edits(req[w].deal)
    <3>1. req[w].op = "close" /\ used.close > 0 /\ used' = used
      BY <2>3 DEF CloseDeal, PendingOK
    <3>2. req[w].deal \in Deals
      BY <3>1 DEF RequestOK, Idle
    <3> QED BY <2>3, <3>1, <3>2 DEF CloseDeal, Edits
  <2>4. ASSUME NEW d \in Deals, OpsCloseDeal(d)
        PROVE  Edits(d)
    BY <2>4, UsesMore DEF OpsCloseDeal, Edits
  <2> QED BY <1>6, <2>1, <2>2, <2>3, <2>4 DEF Business, Step
<1>7. CASE Others
  BY <1>1, <1>7, UsesMore DEF Others, SetWalletActive, DeadlinePasses, WindowEnds, CrashJob,
     CrashRequest, Leaves, Step, tables
<1> QED BY <1>2, <1>3, <1>4, <1>5, <1>6, <1>7 DEF Next

-----------------------------------------------------------------------------
(* Sessions and their packs *)

(* What Release does, for an allocated session.                            *)
LEMMA Released ==
  ASSUME Typed, NEW s \in Sessions, NEW st \in {"EXPIRED", "CANCELLED"}, Release(s, st)
  PROVE  /\ resv[s] # "RESERVED" => deal' = deal /\ resv' = resv
         /\ resv[s] = "RESERVED" =>
              /\ Saveable(session[s].deal, ReleasedRow(session[s].deal))
              /\ deal' = [deal EXCEPT ![session[s].deal] = ReleasedRow(session[s].deal)]
              /\ resv' = [resv EXCEPT ![s] = st]
         /\ resv' \in [Sessions -> ResvStatus]
         /\ resv'[s] # "RESERVED"
         /\ \A t \in Sessions : t # s => resv'[t] = resv[t]
         /\ resv'[s] = resv[s] \/ resv'[s] = st
BY DEF Release, Releasable, Typed, TypeOK, RowsOK, ResvStatus

(* Deals, sessions and reservations stay rows of their tables.             *)
TablesOK ==
  /\ deal \in [Deals -> DealRow]
  /\ \A d \in Deals : deal[d].remaining <= deal[d].total
  /\ session \in [Sessions -> [status : SessionStatus, user : Users \union {Nobody},
                               deal : Deals \union {NoDeal}]]
  /\ resv \in [Sessions -> ResvStatus]
  /\ orders \subseteq Sessions

LEMMA TablesKept ==
  ASSUME Consistent, Step
  PROVE  TablesOK'
<1> USE DEF Consistent, Typed, TypeOK, RowsOK, TablesOK
<1>1. ASSUME NEW s \in Sessions, NEW u \in Users, NEW d \in Deals, Takes(s, u, d)
      PROVE  TablesOK'
  <2>1. ReservedRow(d) \in DealRow /\ ReservedRow(d).remaining <= ReservedRow(d).total
    BY <1>1, RowsKept DEF Takes, ReservedRow, DealRow
  <2> QED BY <1>1, <2>1 DEF Takes, SessionStatus, ResvStatus
<1>2. ASSUME NEW s \in Sessions, Returns(s)
      PROVE  TablesOK'
  <2>1. PICK st \in {"EXPIRED", "CANCELLED"} : Release(s, st)
    BY <1>2 DEF Returns
  <2>2. session[s].deal \in Deals
    BY <1>2 DEF Returns, PackOK
  <2>3. /\ deal' \in [Deals -> DealRow]
        /\ \A d \in Deals : deal'[d].remaining <= deal'[d].total
    <3>1. CASE resv[s] # "RESERVED"
      BY <2>1, <3>1, Released
    <3>2. CASE resv[s] = "RESERVED"
      <4> DEFINE d == session[s].deal
      <4>1. Saveable(d, ReleasedRow(d)) /\ deal' = [deal EXCEPT ![d] = ReleasedRow(d)]
        BY <2>1, <3>2, Released
      <4>2. ReleasedRow(d) \in DealRow /\ ReleasedRow(d).remaining <= ReleasedRow(d).total
        BY <2>2, <4>1, RowsKept DEF Saveable
      <4> QED BY <2>2, <4>1, <4>2
    <3> QED BY <3>1, <3>2
  <2>4. session' \in [Sessions -> [status : SessionStatus, user : Users \union {Nobody},
                                   deal : Deals \union {NoDeal}]]
    BY <1>2 DEF Returns, Ended, SessionStatus
  <2> QED BY <1>2, <2>1, <2>3, <2>4, Released DEF Returns
<1>3. ASSUME NEW s \in Sessions, Ends(s)
      PROVE  TablesOK'
  <2>1. session' \in [Sessions -> [status : SessionStatus, user : Users \union {Nobody},
                                   deal : Deals \union {NoDeal}]]
    BY <1>3 DEF Ends, SessionStatus
  <2>2. deal' = deal /\ resv' = resv /\ orders' = orders
    BY <1>3 DEF Ends
  <2> QED BY <2>1, <2>2
<1>4. ASSUME NEW s \in Sessions, Sells(s)
      PROVE  TablesOK'
  <2>1. PICK d \in Deals : d = session[s].deal
    BY <1>4 DEF Sells, Live, PackOK
  <2>2. CommittedRow(d) \in DealRow /\ CommittedRow(d).remaining <= CommittedRow(d).total
    BY RowsKept, RowsMade
  <2>3. deal' = [deal EXCEPT ![d] = CommittedRow(d)]
    BY <1>4, <2>1 DEF Sells
  <2>4. /\ deal' \in [Deals -> DealRow]
        /\ \A e \in Deals : deal'[e].remaining <= deal'[e].total
    BY <2>2, <2>3
  <2>5. session' \in [Sessions -> [status : SessionStatus, user : Users \union {Nobody},
                                   deal : Deals \union {NoDeal}]]
    BY <1>4 DEF Sells, SessionStatus
  <2>6. resv' \in [Sessions -> ResvStatus] /\ orders' \subseteq Sessions
    BY <1>4 DEF Sells, CommittedResv, ResvStatus
  <2> QED BY <2>4, <2>5, <2>6
<1>5. ASSUME NEW d \in Deals, Edits(d)
      PROVE  TablesOK'
  <2>1. session' = session /\ resv' = resv /\ orders' = orders
    BY <1>5 DEF Edits
  <2>2. /\ deal' \in [Deals -> DealRow]
        /\ \A e \in Deals : deal'[e].remaining <= deal'[e].total
    <3>1. ASSUME NEW row \in DealRow, Saveable(d, row), deal' = [deal EXCEPT ![d] = row]
          PROVE  /\ deal' \in [Deals -> DealRow]
                 /\ \A e \in Deals : deal'[e].remaining <= deal'[e].total
      BY <3>1 DEF Saveable
    <3>2. CASE deal' = [deal EXCEPT ![d].status = "CLOSED"]
      BY <3>2 DEF DealRow, DealStatus
    <3> QED BY <1>5, <3>1, <3>2 DEF Edits
  <2> QED BY <2>1, <2>2
<1>6. CASE Leaves
  BY <1>6 DEF Leaves
<1> QED BY <1>1, <1>2, <1>3, <1>4, <1>5, <1>6 DEF Step

LEMMA PacksKept ==
  ASSUME Consistent, Step
  PROVE  \A s \in Sessions : PackOK(s)'
<1> USE DEF Consistent, Typed, TypeOK, RowsOK
<1>1. ASSUME NEW s \in Sessions, NEW u \in Users, NEW d \in Deals, Takes(s, u, d)
      PROVE  \A t \in Sessions : PackOK(t)'
  <2>1. /\ session'[s] = [status |-> "PENDING", user |-> u, deal |-> d]
        /\ resv'[s] = "RESERVED"
        /\ \A t \in Sessions \ {s} : session'[t] = session[t] /\ resv'[t] = resv[t]
        /\ orders' = orders
    BY <1>1 DEF Takes
  <2>2. s \notin orders
    BY <1>1 DEF Takes, PackOK
  <2> QED BY <2>1, <2>2 DEF PackOK, Live
<1>2. ASSUME NEW s \in Sessions, Returns(s)
      PROVE  \A t \in Sessions : PackOK(t)'
  <2>1. PICK st \in {"EXPIRED", "CANCELLED"} : Release(s, st)
    BY <1>2 DEF Returns
  <2>2. /\ resv'[s] = resv[s] \/ resv'[s] = st
        /\ resv[s] = "RESERVED" => resv'[s] = st
        /\ resv[s] # "RESERVED" => resv'[s] = resv[s]
        /\ \A t \in Sessions \ {s} : resv'[t] = resv[t]
        /\ orders' = orders
    BY <1>2, <2>1, Released DEF Returns
  <2>3. /\ session'[s].status \in Ended
        /\ session'[s].user = session[s].user /\ session'[s].deal = session[s].deal
        /\ \A t \in Sessions \ {s} : session'[t] = session[t]
        /\ session[s].status # "NONE"
    BY <1>2 DEF Returns
  <2> QED BY <2>2, <2>3 DEF PackOK, Live, Ended
<1>3. ASSUME NEW s \in Sessions, Ends(s)
      PROVE  \A t \in Sessions : PackOK(t)'
  <2>1. /\ session'[s].status = "EXPIRED"
        /\ session'[s].user = session[s].user /\ session'[s].deal = session[s].deal
        /\ \A t \in Sessions \ {s} : session'[t] = session[t]
        /\ session[s].status # "NONE"
        /\ resv' = resv /\ orders' = orders
    BY <1>3 DEF Ends
  <2> QED BY <2>1 DEF PackOK, Live
<1>4. ASSUME NEW s \in Sessions, Sells(s)
      PROVE  \A t \in Sessions : PackOK(t)'
  <2>1. /\ session'[s].status = "CONSUMED" /\ resv'[s] = "COMMITTED"
        /\ session'[s].user = session[s].user /\ session'[s].deal = session[s].deal
        /\ \A t \in Sessions \ {s} : session'[t] = session[t] /\ resv'[t] = resv[t]
        /\ orders' = orders \union {s}
        /\ session[s].status # "NONE"
    BY <1>4 DEF Sells, CommittedResv, Live
  <2> QED BY <2>1 DEF PackOK, Live
<1>5. CASE Leaves \/ \E d \in Deals : Edits(d)
  <2>1. session' = session /\ resv' = resv /\ orders' = orders
    BY <1>5 DEF Edits, Leaves
  <2> QED BY <2>1 DEF PackOK, Live
<1> QED BY <1>1, <1>2, <1>3, <1>4, <1>5 DEF Step

(* No step makes an ended session live or an allocated one vanish.         *)
LEMMA EndedForGood ==
  ASSUME Consistent, Step, NEW s \in Sessions, session[s].status # "NONE"
  PROVE  /\ session'[s].status # "NONE"
         /\ session'[s].user = session[s].user /\ session'[s].deal = session[s].deal
         /\ ~Live(s) => ~Live(s)'
<1> USE DEF Consistent, Typed, TypeOK, RowsOK, Live
<1>1. ASSUME NEW t \in Sessions, NEW u \in Users, NEW d \in Deals, Takes(t, u, d)
      PROVE  session'[s] = session[s]
  BY <1>1 DEF Takes
<1>2. ASSUME NEW t \in Sessions, Returns(t)
      PROVE  \/ session'[s] = session[s]
             \/ /\ session'[s].status \in Ended
                /\ session'[s].user = session[s].user /\ session'[s].deal = session[s].deal
  BY <1>2 DEF Returns
<1>3. ASSUME NEW t \in Sessions, Ends(t) \/ Sells(t)
      PROVE  \/ session'[s] = session[s]
             \/ /\ session'[s].status \in Ended
                /\ session'[s].user = session[s].user /\ session'[s].deal = session[s].deal
  BY <1>3 DEF Ends, Sells, Ended
<1>4. CASE Leaves \/ \E d \in Deals : Edits(d)
  BY <1>4 DEF Edits, Leaves
<1> QED BY <1>1, <1>2, <1>3, <1>4 DEF Step, Ended

-----------------------------------------------------------------------------
(* The rest of the state, and the invariant *)

LEMMA RestKept ==
  ASSUME Consistent, Next
  PROVE  /\ wallet' \in [Users -> [balance : Nat, active : BOOLEAN]]
         /\ over' \subseteq Deals
         /\ clock' \in 0 .. MaxSessions
         /\ job' \subseteq Sessions
         /\ used' \in [patch : Nat, close : Nat, toggle : Nat, crash : Nat]
         /\ used'.patch >= used.patch /\ used'.close >= used.close
<1> USE DEF Consistent, Typed, TypeOK, RowsOK
<1>1. CASE Checkouts
  <2>1. /\ wallet' \in [Users -> [balance : Nat, active : BOOLEAN]]
        /\ UNCHANGED <<over, clock, job, used>>
    <3>1. ASSUME NEW s \in Sessions, ConsumeSession(s)
          PROVE  /\ wallet' \in [Users -> [balance : Nat, active : BOOLEAN]]
                 /\ UNCHANGED <<over, clock, job, used>>
      <4>1. session[s].user \in Users
        BY <3>1 DEF ConsumeSession, Consumable, Live, PackOK
      <4>2. Price \in Nat
        BY NumbersAssumption
      <4> QED BY <3>1, <4>1, <4>2 DEF ConsumeSession, CanPay
    <3> QED BY <1>1, <3>1 DEF Checkouts, CreateSession, CancelSession, ConsumeTooLate,
               ConsumeUnpaid
  <2> QED BY <2>1
<1>2. CASE LazyExpiry
  BY <1>2 DEF LazyExpiry, ReadSession, FindNotDue, ExpireSession, ExpirePack, ExpirePackFails, tables
<1>3. CASE ExpireCommand
  <2>1. UNCHANGED <<wallet, over, clock, used>>
    BY <1>3 DEF ExpireCommand, ExpireSelect, ExpireOne, ExpireFails, tables
  <2>2. job' \subseteq Sessions
    <3>1. ExpireSelect => job' \subseteq Sessions
      BY DEF ExpireSelect, kSubset
    <3> QED BY <1>3, <3>1 DEF ExpireCommand, ExpireOne, ExpireFails
  <2> QED BY <2>1, <2>2
<1>4. CASE Cleanup
  BY <1>4 DEF Cleanup, CleanupSession
<1>5. CASE Business
  <2>1. UNCHANGED <<wallet, over, clock, job>>
    BY <1>5 DEF Business, ReadDeal, CheckClose, ValidatePatch, SavePatch, RefusePatch,
       CloseDeal, OpsCloseDeal, tables
  <2>2. used' = used \/ Uses("patch") \/ Uses("close")
    BY <1>5 DEF Business, ReadDeal, CheckClose, ValidatePatch, SavePatch, RefusePatch,
       CloseDeal, OpsCloseDeal
  <2> QED BY <2>1, <2>2, UsesMore
<1>6. CASE Others
  <2>1. ASSUME NEW u \in Users, SetWalletActive(u)
        PROVE  wallet' \in [Users -> [balance : Nat, active : BOOLEAN]]
    BY <2>1 DEF SetWalletActive
  <2>2. DeadlinePasses => clock' \in 0 .. MaxSessions
    BY NumbersAssumption DEF DeadlinePasses
  <2>3. /\ over' \subseteq Deals /\ job' \subseteq Sessions
        /\ wallet' = wallet \/ \E u \in Users : SetWalletActive(u)
        /\ clock' = clock \/ DeadlinePasses
        /\ used' = used \/ Uses("toggle") \/ Uses("crash")
    BY <1>6 DEF Others, SetWalletActive, DeadlinePasses, WindowEnds, CrashJob, CrashRequest,
       tables
  <2> QED BY <2>1, <2>2, <2>3, UsesMore
<1> QED BY <1>1, <1>2, <1>3, <1>4, <1>5, <1>6 DEF Next

(* Who remembers what: req stays a function, and its values stay requests. *)
LEMMA RequestsKept ==
  ASSUME Consistent, Next
  PROVE  /\ req' = [w \in Workers |-> req'[w]]
         /\ \A w \in Workers : RequestOK(req[w])'
<1> USE DEF Consistent, Typed, TypeOK, RowsOK
<1>1. ASSUME NEW w \in Workers, NEW r, RequestOK(r), req' = [req EXCEPT ![w] = r]
      PROVE  /\ req' = [v \in Workers |-> req'[v]]
             /\ \A v \in Workers : RequestOK(req[v])'
  BY <1>1 DEF RequestOK
<1>2. RequestOK(Idle)
  BY DEF RequestOK
<1>3. CASE LazyExpiry
  <2>1. ASSUME NEW w \in Workers, NEW s \in Sessions, ReadSession(w, s)
        PROVE  \E r : RequestOK(r) /\ req' = [req EXCEPT ![w] = r]
    BY <2>1 DEF ReadSession, RequestOK
  <2>2. ASSUME NEW w \in Workers, ExpireSession(w)
        PROVE  \E r : RequestOK(r) /\ req' = [req EXCEPT ![w] = r]
    <3> DEFINE r == [op |-> "expire", step |-> "release", session |-> req[w].session]
    <3>1. req[w] \in [op : {"expire"}, step : {"check", "release"}, session : Sessions]
      BY <2>2 DEF ExpireSession, InExpiry, RequestOK, Idle
    <3>2. [req[w] EXCEPT !.step = "release"] = r
      BY <3>1
    <3>3. RequestOK(r)
      BY <3>1 DEF RequestOK
    <3> QED BY <2>2, <3>2, <3>3 DEF ExpireSession
  <2> QED BY <1>1, <1>2, <1>3, <2>1, <2>2 DEF LazyExpiry, FindNotDue, ExpirePack, ExpirePackFails
<1>4. CASE Business
  <2>1. ASSUME NEW w \in Workers, NEW d \in Deals, ReadDeal(w, d) \/ CheckClose(w, d)
        PROVE  \E r : RequestOK(r) /\ req' = [req EXCEPT ![w] = r]
    <3>1. CASE ReadDeal(w, d)
      BY <3>1 DEF ReadDeal, RequestOK
    <3>2. CASE CheckClose(w, d)
      BY <3>2 DEF CheckClose, RequestOK
    <3> QED BY <2>1, <3>1, <3>2
  <2>2. ASSUME NEW w \in Workers, ValidatePatch(w)
        PROVE  \E r : RequestOK(r) /\ req' = [req EXCEPT ![w] = r]
    <3>1. req[w].op = "patch" /\ req[w].step = "read"
      BY <2>2 DEF ValidatePatch
    <3> DEFINE d == req[w].deal
               r == req[w].row
    <3>2. d \in Deals /\ r \in DealRow /\ r.remaining <= r.total
      BY <3>1 DEF RequestOK, Idle
    <3>3. PICK st \in PatchStatuses \union {r.status}, total \in 0 .. Stock :
            /\ r.remaining + (total - r.total) >= 0
            /\ req' = [req EXCEPT ![w] =
                         [op |-> "patch", step |-> "save", deal |-> d,
                          row |-> [status |-> st, total |-> total, reserved |-> r.reserved,
                                   remaining |-> r.remaining + (total - r.total)]]]
      BY <2>2 DEF ValidatePatch
    <3> DEFINE row == [status |-> st, total |-> total, reserved |-> r.reserved,
                       remaining |-> r.remaining + (total - r.total)]
    <3>4. row \in DealRow /\ row.remaining <= row.total
      <4>1. st \in DealStatus /\ r.reserved \in Nat
        BY <3>2, PatchAssumption DEF DealRow
      <4>2. /\ r.remaining + (total - r.total) \in 0 .. Stock
            /\ r.remaining + (total - r.total) <= total
        BY <3>2, <3>3, NumbersAssumption DEF DealRow
      <4> QED BY <4>1, <4>2 DEF DealRow
    <3>5. RequestOK([op |-> "patch", step |-> "save", deal |-> d, row |-> row])
      BY <3>2, <3>4 DEF RequestOK
    <3> QED BY <3>3, <3>5
  <2> QED BY <1>1, <1>2, <1>4, <2>1, <2>2 DEF Business, SavePatch, RefusePatch, CloseDeal, OpsCloseDeal
<1>5. CASE Others
  BY <1>1, <1>2, <1>5 DEF Others, SetWalletActive, DeadlinePasses, WindowEnds, CrashJob,
     CrashRequest, tables, RequestOK
<1>6. CASE Checkouts \/ ExpireCommand \/ Cleanup
  <2>1. req' = req
    BY <1>6 DEF Checkouts, CreateSession, CancelSession, ConsumeSession, ConsumeTooLate,
       ConsumeUnpaid, ExpireCommand, ExpireSelect, ExpireOne, ExpireFails, Cleanup,
       CleanupSession, tables
  <2> QED BY <2>1 DEF RequestOK
<1> QED BY <1>3, <1>4, <1>5, <1>6 DEF Next

(* ... and what they remember stays true of the tables.                    *)
LEMMA PendingKept ==
  ASSUME Consistent, Next, NEW w \in Workers
  PROVE  PendingOK(req[w])'
<1> USE DEF Consistent, Typed, TypeOK, RowsOK
<1>1. used'.patch >= used.patch /\ used'.close >= used.close
      /\ used'.patch \in Nat /\ used'.close \in Nat
  BY RestKept
<1>2. ASSUME NEW s \in Sessions, session[s].status # "NONE"
      PROVE  session'[s].status # "NONE" /\ (~Live(s) => ~Live(s)')
  BY <1>2, EveryStep, EndedForGood
<1>3. CASE req'[w] = req[w]
  <2>1. req[w].op = "expire" => req[w].session \in Sessions
    BY DEF RequestOK, Idle
  <2> QED BY <1>1, <1>2, <1>3, <2>1 DEF PendingOK, Live
<1>4. CASE req'[w] = Idle
  BY <1>4 DEF PendingOK, Idle
<1>5. CASE LazyExpiry
  <2>1. ASSUME NEW s \in Sessions, ReadSession(w, s)
        PROVE  PendingOK(req[w])'
    <3>1. req'[w] = [op |-> "expire", step |-> "check", session |-> s] /\ session' = session
      BY <2>1 DEF ReadSession, tables
    <3> QED BY <2>1, <3>1 DEF ReadSession, Live, PendingOK
  <2>2. CASE ExpireSession(w)
    <3>1. req[w] \in [op : {"expire"}, step : {"check", "release"}, session : Sessions]
      BY <2>2 DEF ExpireSession, InExpiry, RequestOK, Idle
    <3>2. /\ req'[w].op = "expire" /\ req'[w].session = req[w].session
          /\ session'[req[w].session].status = "EXPIRED"
      BY <2>2, <3>1 DEF ExpireSession, SetStatus
    <3> QED BY <3>2 DEF PendingOK, Live
  <2>3. \/ \E s \in Sessions : ReadSession(w, s)
        \/ ExpireSession(w)
        \/ req'[w] = req[w]
        \/ req'[w] = Idle
    BY <1>5 DEF LazyExpiry, ReadSession, FindNotDue, ExpireSession, ExpirePack, ExpirePackFails
  <2> QED BY <1>3, <1>4, <2>1, <2>2, <2>3
<1>6. CASE Business
  <2>1. ASSUME NEW d \in Deals, ReadDeal(w, d) \/ CheckClose(w, d)
        PROVE  PendingOK(req[w])'
    <3>1. CASE ReadDeal(w, d)
      <4>1. used'.patch > 0 /\ req'[w].op = "patch"
        BY <3>1, UsesMore DEF ReadDeal
      <4> QED BY <4>1 DEF PendingOK
    <3>2. CASE CheckClose(w, d)
      <4>1. used'.close > 0 /\ req'[w].op = "close"
        BY <3>2, UsesMore DEF CheckClose
      <4> QED BY <4>1 DEF PendingOK
    <3> QED BY <2>1, <3>1, <3>2
  <2>2. CASE ValidatePatch(w)
    <3>1. req[w].op = "patch" /\ req'[w].op = "patch" /\ used' = used
      BY <2>2 DEF ValidatePatch
    <3> QED BY <3>1 DEF PendingOK
  <2>3. \/ \E d \in Deals : ReadDeal(w, d) \/ CheckClose(w, d)
        \/ ValidatePatch(w)
        \/ req'[w] = req[w]
        \/ req'[w] = Idle
    <3>1. CASE \E d \in Deals : OpsCloseDeal(d)
      BY <3>1 DEF OpsCloseDeal
    <3>2. ASSUME NEW v \in Workers,
                 SavePatch(v) \/ RefusePatch(v) \/ CloseDeal(v)
          PROVE  req'[w] = req[w] \/ req'[w] = Idle
      BY <3>2 DEF SavePatch, RefusePatch, CloseDeal
    <3>3. ASSUME NEW v \in Workers,
                 ValidatePatch(v) \/ \E d \in Deals : ReadDeal(v, d) \/ CheckClose(v, d)
          PROVE  v = w \/ req'[w] = req[w]
      BY <3>3 DEF ReadDeal, CheckClose, ValidatePatch
    <3> QED BY <1>6, <3>1, <3>2, <3>3 DEF Business
  <2> QED BY <1>3, <1>4, <2>1, <2>2, <2>3
<1>7. CASE Others
  <2>1. req'[w] = req[w] \/ req'[w] = Idle
    BY <1>7 DEF Others, SetWalletActive, DeadlinePasses, WindowEnds, CrashJob, CrashRequest, tables
  <2> QED BY <1>3, <1>4, <2>1
<1>8. CASE Checkouts \/ ExpireCommand \/ Cleanup
  <2>1. req' = req
    BY <1>8 DEF Checkouts, CreateSession, CancelSession, ConsumeSession, ConsumeTooLate,
       ConsumeUnpaid, ExpireCommand, ExpireSelect, ExpireOne, ExpireFails, Cleanup,
       CleanupSession, tables
  <2> QED BY <1>3, <2>1
<1> QED BY <1>5, <1>6, <1>7, <1>8 DEF Next

LEMMA ConsistentStep ==
  ASSUME Consistent, [Next]_vars
  PROVE  Consistent'
<1>1. CASE Next
  <2>1. TablesOK' /\ \A s \in Sessions : PackOK(s)'
    BY <1>1, EveryStep, TablesKept, PacksKept
  <2>2. RowsOK'
    BY <1>1, <2>1, RestKept DEF RowsOK, TablesOK
  <2> QED BY <1>1, <2>1, <2>2, RequestsKept, PendingKept DEF Consistent, Typed, TypeOK, TablesOK
<1>2. CASE UNCHANGED vars
  BY <1>2 DEF vars, tables, Consistent, Typed, TypeOK, RowsOK, RequestOK, PackOK, PendingOK, Live
<1> QED BY <1>1, <1>2

LEMMA InitConsistent ==
  ASSUME Init
  PROVE  Consistent
<1> USE DEF Init
<1>1. Stock \in 0 .. Stock /\ Funds \in Nat /\ 0 \in 0 .. MaxSessions
  BY NumbersAssumption
<1>2. /\ deal \in [Deals -> DealRow]
      /\ \A d \in Deals : deal[d].remaining <= deal[d].total
  BY <1>1 DEF DealRow, DealStatus
<1>3. /\ session \in [Sessions -> [status : SessionStatus, user : Users \union {Nobody},
                                   deal : Deals \union {NoDeal}]]
      /\ resv \in [Sessions -> ResvStatus]
  BY DEF NoSession, SessionStatus, ResvStatus
<1>4. used \in [patch : Nat, close : Nat, toggle : Nat, crash : Nat]
  BY DEF Limit
<1>5. RowsOK
  BY <1>1, <1>2, <1>3, <1>4 DEF RowsOK
<1>6. Typed
  BY <1>2, <1>5 DEF Typed, TypeOK, RequestOK
<1>7. \A s \in Sessions : PackOK(s)
  BY DEF PackOK, NoSession, Live
<1>8. \A w \in Workers : PendingOK(req[w])
  BY DEF PendingOK, Idle
<1> QED BY <1>6, <1>7, <1>8 DEF Consistent

(* The inductive invariant holds, for any number of everything.            *)
THEOREM ConsistentAlways == Spec => []Consistent
<1>1. Init => Consistent
  BY InitConsistent
<1>2. Consistent /\ [Next]_vars => Consistent'
  BY ConsistentStep
<1> QED BY <1>1, <1>2, PTL DEF Spec

(* Every table and request keeps its shape, and full_clean's bound on the  *)
(* packs left is never exceeded, by a PATCH that saves stale counters      *)
(* either.                                                                 *)
THEOREM TypesAlwaysOK == Spec => []TypeOK
<1>1. Consistent => TypeOK
  BY DEF Consistent, Typed
<1> QED BY <1>1, ConsistentAlways, PTL

(* A session that can still be consumed holds its pack, whichever way to   *)
(* end it is under way.                                                    *)
THEOREM LiveAlwaysHoldsItsPack == Spec => []LiveHoldsItsPack
<1>1. Consistent => LiveHoldsItsPack
  BY DEF Consistent, PackOK, LiveHoldsItsPack
<1> QED BY <1>1, ConsistentAlways, PTL

-----------------------------------------------------------------------------
(* One pack per customer *)

(* Time does not go back: what is due or over stays so.                    *)
LEMMA TimePasses ==
  ASSUME Consistent, Next
  PROVE  /\ over \subseteq over'
         /\ \A s \in Sessions : s <= clock => s <= clock'
<1>1. clock \in Int
  BY DEF Consistent, Typed, TypeOK, RowsOK
<1>2. over' = over \/ \E d \in Deals : WindowEnds(d)
  BY DEF Next, Checkouts, CreateSession, CancelSession, ConsumeSession, ConsumeTooLate,
     ConsumeUnpaid, LazyExpiry, ReadSession, FindNotDue, ExpireSession, ExpirePack,
     ExpirePackFails, ExpireCommand, ExpireSelect, ExpireOne, ExpireFails, Cleanup,
     CleanupSession, Business, ReadDeal, CheckClose, ValidatePatch, SavePatch, RefusePatch,
     CloseDeal, OpsCloseDeal, Others, SetWalletActive, DeadlinePasses, CrashJob, CrashRequest
<1>3. clock' = clock \/ clock' = clock + 1
  BY DEF Next, Checkouts, CreateSession, CancelSession, ConsumeSession, ConsumeTooLate,
     ConsumeUnpaid, LazyExpiry, ReadSession, FindNotDue, ExpireSession, ExpirePack,
     ExpirePackFails, ExpireCommand, ExpireSelect, ExpireOne, ExpireFails, Cleanup,
     CleanupSession, Business, ReadDeal, CheckClose, ValidatePatch, SavePatch, RefusePatch,
     CloseDeal, OpsCloseDeal, Others, SetWalletActive, DeadlinePasses, WindowEnds, CrashJob,
     CrashRequest
<1> QED BY <1>1, <1>2, <1>3, NumbersAssumption DEF WindowEnds, Sessions

(* A reservation that is there after a step is a new one or was there.     *)
LEMMA StillReserved ==
  ASSUME Consistent, Step, NEW s \in Sessions, resv'[s] = "RESERVED"
  PROVE  \/ \E u \in Users, d \in Deals : Takes(s, u, d)
         \/ /\ resv[s] = "RESERVED"
            /\ session'[s].user = session[s].user /\ session'[s].deal = session[s].deal
<1> USE DEF Consistent, Typed, TypeOK, RowsOK
<1>1. \/ \E u \in Users, d \in Deals : Takes(s, u, d)
      \/ resv[s] = "RESERVED"
  <2>1. ASSUME NEW t \in Sessions, NEW u \in Users, NEW d \in Deals, Takes(t, u, d)
        PROVE  t = s \/ resv[s] = "RESERVED"
    BY <2>1 DEF Takes
  <2>2. ASSUME NEW t \in Sessions, Returns(t)
        PROVE  resv[s] = "RESERVED"
    BY <2>2, Released DEF Returns
  <2>3. ASSUME NEW t \in Sessions, Ends(t) \/ Sells(t)
        PROVE  resv[s] = "RESERVED"
    BY <2>3 DEF Ends, Sells, CommittedResv
  <2>4. CASE Leaves \/ \E d \in Deals : Edits(d)
    BY <2>4 DEF Leaves, Edits
  <2> QED BY <2>1, <2>2, <2>3, <2>4 DEF Step
<1>2. resv[s] = "RESERVED" => session[s].status # "NONE"
  BY DEF PackOK
<1> QED BY <1>1, <1>2, EndedForGood

LEMMA OnePackStep ==
  ASSUME Consistent, OnePackPerCustomer, Next
  PROVE  OnePackPerCustomer'
<1> USE DEF Consistent, Typed, TypeOK, RowsOK
<1> SUFFICES ASSUME NEW s \in Sessions, NEW t \in Sessions,
                    resv'[s] = "RESERVED", resv'[t] = "RESERVED", ~Due(s)', ~Due(t)',
                    session'[s].user = session'[t].user, session'[s].deal = session'[t].deal,
                    s # t
             PROVE  FALSE
  BY DEF OnePackPerCustomer
<1>1. Step
  BY EveryStep
<1>2. ASSUME NEW x \in Sessions, session'[x].deal = session[x].deal, ~Due(x)'
      PROVE  ~Due(x)
  BY <1>2, TimePasses DEF Due
<1>3. ASSUME NEW x \in Sessions, NEW y \in Sessions, x # y,
             NEW u \in Users, NEW d \in Deals, Takes(x, u, d),
             resv'[y] = "RESERVED", ~Due(y)', session'[y].user = session'[x].user,
             session'[y].deal = session'[x].deal
      PROVE  FALSE
  <2>1. /\ session'[x].user = u /\ session'[x].deal = d
        /\ session'[y] = session[y] /\ resv'[y] = resv[y]
    BY <1>3 DEF Takes
  <2>2. y \in Held(d) /\ session[y].user = u /\ ~Due(y)
    BY <1>2, <1>3, <2>1 DEF Held
  <2> QED BY <1>3, <2>2 DEF Takes, HasPack
<1>4. CASE \E u \in Users, d \in Deals : Takes(s, u, d) \/ Takes(t, u, d)
  BY <1>3, <1>4
<1>5. CASE ~\E u \in Users, d \in Deals : Takes(s, u, d) \/ Takes(t, u, d)
  <2>1. /\ resv[s] = "RESERVED" /\ session'[s].user = session[s].user
        /\ session'[s].deal = session[s].deal
        /\ resv[t] = "RESERVED" /\ session'[t].user = session[t].user
        /\ session'[t].deal = session[t].deal
    BY <1>1, <1>5, StillReserved
  <2> QED BY <1>2, <2>1 DEF OnePackPerCustomer
<1> QED BY <1>4, <1>5

(* A customer never holds two packs of a deal that are not overdue.        *)
THEOREM AlwaysOnePackPerCustomer == Spec => []OnePackPerCustomer
<1>1. Init => OnePackPerCustomer
  BY DEF Init, OnePackPerCustomer
<1>2. Consistent /\ OnePackPerCustomer /\ [Next]_vars => OnePackPerCustomer'
  <2>1. CASE UNCHANGED vars
    BY <2>1 DEF vars, tables, OnePackPerCustomer, Due
  <2> QED BY <2>1, OnePackStep
<1> QED BY <1>1, <1>2, ConsistentAlways, PTL DEF Spec

-----------------------------------------------------------------------------
(* Counters and rows agree *)

Sold(d) == {s \in orders : session[s].deal = d}

(* A deal whose counters count.                                            *)
Counted(d) ==
  /\ deal[d].reserved = Cardinality(Held(d))
  /\ deal[d].remaining + deal[d].reserved + Cardinality(Sold(d)) = deal[d].total

LEMMA FiniteRows ==
  ASSUME RowsOK, NEW d \in Deals
  PROVE  /\ IsFiniteSet(Held(d)) /\ Cardinality(Held(d)) \in Nat
         /\ IsFiniteSet(Sold(d)) /\ Cardinality(Sold(d)) \in Nat
<1>1. IsFiniteSet(Sessions)
  BY FS_Interval, NumbersAssumption DEF Sessions
<1>2. Held(d) \subseteq Sessions /\ Sold(d) \subseteq Sessions
  BY DEF Held, Sold, RowsOK
<1> QED BY <1>1, <1>2, FS_Subset, FS_CardinalityType

(* A deal nobody takes from, returns to or sells from counts as before.    *)
LEMMA SameCount ==
  ASSUME NEW d \in Deals, Counted(d), Held(d)' = Held(d), Sold(d)' = Sold(d),
         deal'[d].reserved = deal[d].reserved, deal'[d].remaining = deal[d].remaining,
         deal'[d].total = deal[d].total
  PROVE  Counted(d)'
BY DEF Counted

LEMMA OneLess ==
  ASSUME RowsOK, NEW d \in Deals, NEW s \in Held(d)
  PROVE  /\ Cardinality(Held(d) \ {s}) = Cardinality(Held(d)) - 1
         /\ Cardinality(Held(d)) > 0
<1>1. IsFiniteSet(Held(d)) /\ Cardinality(Held(d)) \in Nat
  BY FiniteRows
<1>2. Cardinality(Held(d) \ {s}) = Cardinality(Held(d)) - 1
  BY <1>1, FS_RemoveElement
<1>3. Cardinality(Held(d)) # 0
  BY <1>1, FS_EmptySet
<1> QED BY <1>1, <1>2, <1>3

LEMMA OneMoreSold ==
  ASSUME RowsOK, NEW d \in Deals, NEW s, s \notin Sold(d)
  PROVE  Cardinality(Sold(d) \union {s}) = Cardinality(Sold(d)) + 1
BY FiniteRows, FS_AddElement

(* What it takes for a deal to count after a step that touches it.         *)
LEMMA NewCount ==
  ASSUME NEW d \in Deals, Counted(d),
         deal'[d].reserved = Cardinality(Held(d)'),
         deal'[d].remaining + deal'[d].reserved + Cardinality(Sold(d)')
           = deal[d].remaining + deal[d].reserved + Cardinality(Sold(d)),
         deal'[d].total = deal[d].total
  PROVE  Counted(d)'
BY DEF Counted

LEMMA TakeCounts ==
  ASSUME Consistent, NEW s \in Sessions, NEW u \in Users, NEW d \in Deals, Takes(s, u, d),
         \A e \in Deals : Counted(e)
  PROVE  \A e \in Deals : Counted(e)'
<1> USE DEF Consistent, Typed, TypeOK, RowsOK
<1>1. /\ session'[s].deal = d /\ resv'[s] = "RESERVED"
      /\ \A t \in Sessions \ {s} : session'[t] = session[t] /\ resv'[t] = resv[t]
      /\ orders' = orders /\ s \notin orders /\ resv[s] = "NONE"
      /\ deal' = [deal EXCEPT ![d] = ReservedRow(d)]
  BY DEF Takes, PackOK
<1>2. \A e \in Deals : Sold(e)' = Sold(e)
  BY <1>1 DEF Sold
<1>3. ASSUME NEW e \in Deals \ {d}
      PROVE  Counted(e)'
  <2>1. Held(e)' = Held(e) /\ deal'[e] = deal[e]
    BY <1>1 DEF Held
  <2> QED BY <1>2, <2>1, SameCount
<1>4. Counted(d)'
  <2>1. Held(d)' = Held(d) \union {s} /\ s \notin Held(d)
    BY <1>1 DEF Held
  <2>2. Cardinality(Held(d)') = Cardinality(Held(d)) + 1
    BY <2>1, FiniteRows, FS_AddElement
  <2>3. /\ deal'[d].total = deal[d].total
        /\ deal'[d].remaining = deal[d].remaining - 1
        /\ deal'[d].reserved = deal[d].reserved + 1
    BY <1>1 DEF ReservedRow
  <2>4. deal[d].remaining \in Int /\ Cardinality(Sold(d)) \in Int
    BY FiniteRows, NumbersAssumption DEF DealRow
  <2>5. deal[d].reserved \in Int /\ deal[d].reserved = Cardinality(Held(d))
    BY DEF DealRow, Counted
  <2>6. deal'[d].reserved = Cardinality(Held(d)')
    BY <2>2, <2>3, <2>5
  <2>7. Cardinality(Sold(d)') = Cardinality(Sold(d))
    BY <1>2
  <2>8. deal'[d].remaining + deal'[d].reserved + Cardinality(Sold(d)')
          = deal[d].remaining + deal[d].reserved + Cardinality(Sold(d))
    <3>1. deal'[d].remaining + deal'[d].reserved + Cardinality(Sold(d)')
            = (deal[d].remaining - 1) + (deal[d].reserved + 1) + Cardinality(Sold(d))
      BY <2>3, <2>7
    <3> HIDE DEF Consistent, Typed, TypeOK, RowsOK
    <3> QED BY <2>4, <2>5, <3>1
  <2> QED BY <2>3, <2>6, <2>8, NewCount
<1> QED BY <1>3, <1>4

LEMMA ReturnCounts ==
  ASSUME Consistent, NEW s \in Sessions, Returns(s), \A e \in Deals : Counted(e)
  PROVE  \A e \in Deals : Counted(e)'
<1> USE DEF Consistent, Typed, TypeOK, RowsOK
<1>0. PICK d \in Deals : d = session[s].deal
  BY DEF Returns, PackOK
<1>1. PICK st \in {"EXPIRED", "CANCELLED"} : Release(s, st)
  BY DEF Returns
<1>2. /\ orders' = orders
      /\ \A t \in Sessions : session'[t].deal = session[t].deal
  BY DEF Returns
<1>3. \A e \in Deals : Sold(e)' = Sold(e)
  BY <1>2 DEF Sold
<1>4. CASE resv[s] # "RESERVED"
  <2>1. deal' = deal /\ resv' = resv
    BY <1>1, <1>4, Released
  <2>2. \A e \in Deals : Held(e)' = Held(e)
    BY <1>2, <2>1 DEF Held
  <2> QED BY <1>3, <2>1, <2>2, SameCount
<1>5. CASE resv[s] = "RESERVED"
  <2>1. /\ deal' = [deal EXCEPT ![d] = ReleasedRow(d)]
        /\ resv'[s] # "RESERVED"
        /\ \A t \in Sessions \ {s} : resv'[t] = resv[t]
    BY <1>0, <1>1, <1>5, Released
  <2>2. ASSUME NEW e \in Deals \ {d}
        PROVE  Counted(e)'
    <3>1. Held(e)' = Held(e) /\ deal'[e] = deal[e]
      BY <1>0, <1>2, <2>1 DEF Held
    <3> QED BY <1>3, <3>1, SameCount
  <2>3. Counted(d)'
    <3>1. Held(d)' = Held(d) \ {s} /\ s \in Held(d)
      BY <1>0, <1>2, <1>5, <2>1 DEF Held
    <3>2. /\ Cardinality(Held(d)') = Cardinality(Held(d)) - 1
          /\ Cardinality(Held(d)) > 0
      BY <3>1, OneLess
    <3>3. /\ deal[d].total \in Int /\ deal[d].remaining \in Int /\ deal[d].reserved \in Nat
          /\ Cardinality(Sold(d)) \in Int
      BY <1>2, FiniteRows, NumbersAssumption DEF DealRow
    <3>4. deal[d].reserved > 0
      BY <1>2, <3>2, <3>3 DEF Counted
    <3>5. /\ deal'[d].total = deal[d].total
          /\ deal'[d].remaining = deal[d].remaining + 1
          /\ deal'[d].reserved = deal[d].reserved - 1
      <4>1. deal'[d] = ReleasedRow(d)
        BY <1>2, <2>1
      <4>2. ReleasedRow(d).reserved = deal[d].reserved - 1
        BY <1>2, <3>4, RowsMade
      <4> QED BY <4>1, <4>2 DEF ReleasedRow
    <3>6. deal[d].reserved = Cardinality(Held(d))
      BY DEF Counted
    <3>7. /\ deal'[d].reserved = Cardinality(Held(d)')
          /\ deal'[d].remaining + deal'[d].reserved + Cardinality(Sold(d)')
               = deal[d].remaining + deal[d].reserved + Cardinality(Sold(d))
      BY <1>3, <3>2, <3>3, <3>5, <3>6
    <3> QED BY <3>5, <3>7, NewCount
  <2> QED BY <2>2, <2>3
<1> QED BY <1>4, <1>5

LEMMA SaleCounts ==
  ASSUME Consistent, NEW s \in Sessions, Sells(s), \A e \in Deals : Counted(e)
  PROVE  \A e \in Deals : Counted(e)'
<1> USE DEF Consistent, Typed, TypeOK, RowsOK
<1>0. PICK d \in Deals : d = session[s].deal
  BY DEF Sells, Live, PackOK
<1>1. /\ s \notin orders /\ orders' = orders \union {s}
      /\ \A t \in Sessions : session'[t].deal = session[t].deal
      /\ resv[s] = "RESERVED" /\ resv'[s] = "COMMITTED"
      /\ \A t \in Sessions \ {s} : resv'[t] = resv[t]
      /\ deal' = [deal EXCEPT ![d] = CommittedRow(d)]
  BY <1>0 DEF Sells, CommittedResv, PackOK, Live
<1>2. ASSUME NEW e \in Deals \ {d}
      PROVE  Counted(e)'
  <2>1. Held(e)' = Held(e) /\ deal'[e] = deal[e] /\ Sold(e)' = Sold(e)
    BY <1>0, <1>1 DEF Held, Sold
  <2> QED BY <2>1, SameCount
<1>3. Counted(d)'
  <2>1. /\ Held(d)' = Held(d) \ {s} /\ s \in Held(d)
        /\ Sold(d)' = Sold(d) \union {s} /\ s \notin Sold(d)
    BY <1>0, <1>1 DEF Held, Sold
  <2>2. /\ Cardinality(Held(d)') = Cardinality(Held(d)) - 1
        /\ Cardinality(Held(d)) > 0
    BY <2>1, OneLess
  <2>3. Cardinality(Sold(d)') = Cardinality(Sold(d)) + 1
    BY <2>1, OneMoreSold
  <2>4. /\ deal[d].total \in Int /\ deal[d].remaining \in Int /\ deal[d].reserved \in Nat
        /\ Cardinality(Sold(d)) \in Int
    BY <1>1, FiniteRows, NumbersAssumption DEF DealRow
  <2>5. deal[d].reserved > 0
    BY <1>1, <2>2, <2>4 DEF Counted
  <2>6. /\ deal'[d].total = deal[d].total
        /\ deal'[d].remaining = deal[d].remaining
        /\ deal'[d].reserved = deal[d].reserved - 1
    BY <1>1, <2>5, RowsMade
  <2>7. deal[d].reserved = Cardinality(Held(d))
    BY DEF Counted
  <2>8. deal'[d].reserved = Cardinality(Held(d)')
    BY <2>2, <2>6, <2>7
  <2>9. deal'[d].remaining + deal'[d].reserved + Cardinality(Sold(d)')
          = deal[d].remaining + deal[d].reserved + Cardinality(Sold(d))
    <3>1. deal'[d].remaining + deal'[d].reserved + Cardinality(Sold(d)')
            = deal[d].remaining + (deal[d].reserved - 1) + (Cardinality(Sold(d)) + 1)
      BY <2>3, <2>6
    <3> HIDE DEF Consistent, Typed, TypeOK, RowsOK
    <3> QED BY <2>4, <3>1
  <2> QED BY <2>6, <2>8, <2>9, NewCount
<1> QED BY <1>2, <1>3

LEMMA CountStep ==
  ASSUME Consistent, StockConserved, Next
  PROVE  StockConserved'
<1> USE DEF Consistent, Typed, TypeOK
<1>1. SUFFICES ASSUME used'.patch = 0
               PROVE  \A d \in Deals : Counted(d)'
  BY DEF StockConserved, Counted, Sold
<1>2. used.patch = 0
  BY <1>1, RestKept DEF RowsOK
<1>3. \A d \in Deals : Counted(d)
  BY <1>2 DEF StockConserved, Counted, Sold
<1>4. Step
  BY EveryStep
<1>5. ASSUME NEW s \in Sessions, Ends(s)
      PROVE  \A d \in Deals : Counted(d)'
  <2>1. /\ \A t \in Sessions : session'[t].deal = session[t].deal
        /\ deal' = deal /\ resv' = resv /\ orders' = orders
    BY <1>5 DEF Ends, RowsOK
  <2>2. ASSUME NEW d \in Deals
        PROVE  Held(d)' = Held(d) /\ Sold(d)' = Sold(d)
    BY <2>1 DEF Held, Sold, RowsOK
  <2> QED BY <1>3, <2>1, <2>2, SameCount
<1>6. CASE Leaves
  <2>1. deal' = deal /\ session' = session /\ resv' = resv /\ orders' = orders
    BY <1>6 DEF Leaves
  <2>2. ASSUME NEW d \in Deals
        PROVE  Held(d)' = Held(d) /\ Sold(d)' = Sold(d)
    BY <2>1 DEF Held, Sold
  <2> QED BY <1>3, <2>1, <2>2, SameCount
<1>7. ASSUME NEW e \in Deals, Edits(e)
      PROVE  \A d \in Deals : Counted(d)'
  <2>1. /\ session' = session /\ resv' = resv /\ orders' = orders
        /\ deal' = [deal EXCEPT ![e].status = "CLOSED"]
    BY <1>1, <1>7 DEF Edits
  <2>2. ASSUME NEW d \in Deals
        PROVE  Held(d)' = Held(d) /\ Sold(d)' = Sold(d)
    BY <2>1 DEF Held, Sold
  <2>3. ASSUME NEW d \in Deals
        PROVE  /\ deal'[d].reserved = deal[d].reserved
               /\ deal'[d].remaining = deal[d].remaining
               /\ deal'[d].total = deal[d].total
    BY <2>1 DEF RowsOK, DealRow
  <2> QED BY <1>3, <2>2, <2>3, SameCount
<1> QED BY <1>3, <1>4, <1>5, <1>6, <1>7, TakeCounts, ReturnCounts, SaleCounts DEF Step

(* Every pack is for sale, reserved or sold, and the counters say so, as   *)
(* long as no PATCH has written a deal's row back.                         *)
THEOREM StockAlwaysConserved == Spec => []StockConserved
<1>1. Init => StockConserved
  <2> SUFFICES ASSUME Init, NEW d \in Deals
               PROVE  Counted(d)
    BY DEF StockConserved, Counted, Sold
  <2>1. Held(d) = {} /\ Sold(d) = {}
    BY DEF Init, Held, Sold
  <2>2. deal[d].reserved = 0 /\ deal[d].remaining = Stock /\ deal[d].total = Stock
    BY DEF Init
  <2> QED BY <2>1, <2>2, FS_EmptySet, NumbersAssumption DEF Counted
<1>2. Consistent /\ StockConserved /\ [Next]_vars => StockConserved'
  <2>1. CASE UNCHANGED vars
    BY <2>1 DEF vars, tables, StockConserved, Held
  <2> QED BY <2>1, CountStep
<1> QED BY <1>1, <1>2, ConsistentAlways, PTL DEF Spec

-----------------------------------------------------------------------------
(* Packs left are on sale *)

LEMMA OnSaleStep ==
  ASSUME Consistent, UnsoldIsOnSale, Next
  PROVE  UnsoldIsOnSale'
<1> USE DEF Consistent, Typed, TypeOK, RowsOK
<1> SUFFICES ASSUME used'.patch = 0, used'.close = 0, NEW e \in Deals, e \notin over',
                    deal'[e].status = "CLOSED"
             PROVE  deal'[e].remaining = 0
  BY DEF UnsoldIsOnSale
<1>1. /\ used.patch = 0 /\ used.close = 0
      /\ e \notin over
  BY RestKept, TimePasses
<1>2. deal[e].status = "CLOSED" => deal[e].remaining = 0
  BY <1>1 DEF UnsoldIsOnSale
<1>3. ASSUME NEW s \in Sessions, NEW u \in Users, NEW d \in Deals, Takes(s, u, d)
      PROVE  deal'[e].remaining = 0
  <2>1. deal[d].remaining > 0 /\ deal' = [deal EXCEPT ![d] = ReservedRow(d)]
    BY <1>3 DEF Takes
  <2>2. CASE e # d
    BY <1>2, <2>1, <2>2
  <2>3. CASE e = d
    <3>1. deal'[e] = ReservedRow(e) /\ deal[e].remaining # 0
      BY <2>1, <2>3
    <3>2. SoldOut(e) = "CLOSED" /\ deal'[e].remaining = deal[e].remaining - 1
      BY <3>1 DEF ReservedRow
    <3>3. deal[e].remaining = 1
      BY <1>2, <3>1, <3>2 DEF SoldOut
    <3> QED BY <3>2, <3>3
  <2> QED BY <2>2, <2>3
<1>4. ASSUME NEW s \in Sessions, Returns(s)
      PROVE  deal'[e].remaining = 0
  <2>1. PICK st \in {"EXPIRED", "CANCELLED"} : Release(s, st)
    BY <1>4 DEF Returns
  <2>2. CASE deal'[e] = deal[e]
    BY <1>2, <2>2
  <2>3. CASE deal'[e] # deal[e]
    <3>1. deal'[e] = ReleasedRow(e)
      BY <2>1, <2>3, Released
    <3>2. Reopened(e) = "CLOSED"
      BY <3>1 DEF ReleasedRow
    <3> QED BY <1>1, <3>2 DEF Reopened
  <2> QED BY <2>2, <2>3
<1>5. ASSUME NEW s \in Sessions, Sells(s)
      PROVE  deal'[e].remaining = 0
  <2>1. PICK d \in Deals : d = session[s].deal
    BY <1>5 DEF Sells, Live, PackOK
  <2>2. deal' = [deal EXCEPT ![d] = CommittedRow(d)]
    BY <1>5, <2>1 DEF Sells
  <2>3. deal'[e].status = deal[e].status /\ deal'[e].remaining = deal[e].remaining
    BY <2>2, RowsMade
  <2> QED BY <1>2, <2>3
<1>6. ASSUME NEW s \in Sessions, Ends(s)
      PROVE  deal'[e].remaining = 0
  BY <1>2, <1>6 DEF Ends
<1>7. ASSUME NEW d \in Deals, Edits(d)
      PROVE  FALSE
  <2>1. used'.patch > 0 \/ used'.close > 0
    BY <1>7 DEF Edits
  <2> QED BY <2>1
<1>8. CASE Leaves
  BY <1>2, <1>8 DEF Leaves
<1> QED BY <1>3, <1>4, <1>5, <1>6, <1>7, <1>8, EveryStep DEF Step

(* A deal with packs left and time to pick them up is not CLOSED, unless   *)
(* someone closed or edited it.                                            *)
THEOREM UnsoldAlwaysOnSale == Spec => []UnsoldIsOnSale
<1>1. Init => UnsoldIsOnSale
  BY DEF Init, UnsoldIsOnSale
<1>2. Consistent /\ UnsoldIsOnSale /\ [Next]_vars => UnsoldIsOnSale'
  <2>1. CASE UNCHANGED vars
    BY <2>1 DEF vars, tables, UnsoldIsOnSale
  <2> QED BY <2>1, OnSaleStep
<1> QED BY <1>1, <1>2, ConsistentAlways, PTL DEF Spec

-----------------------------------------------------------------------------
(* The promise about stock *)

(* A session whose row and reservation are left alone claims what it did.  *)
LEMMA SameClaims ==
  ASSUME NEW s \in Sessions, session'[s].deal = session[s].deal, resv'[s] = resv[s]
  PROVE  \A d \in Deals : Claim(s, d)' = Claim(s, d)
BY DEF Claim

(* The table of claims, session by session.                                *)
LEMMA ClaimsAre ==
  ASSUME NEW C, C = [s \in Sessions |-> C[s]],
         \A s \in Sessions : C[s] = [d \in Deals |-> C[s][d]],
         \A s \in Sessions, d \in Deals : C[s][d] = Claim(s, d)'
  PROVE  Claims' = C
<1>1. Claims' = [s \in Sessions |-> [d \in Deals |-> Claim(s, d)']]
  BY DEF Claims
<1>2. \A s \in Sessions : C[s] = [d \in Deals |-> Claim(s, d)']
  OBVIOUS
<1> QED BY <1>1, <1>2

LEMMA ClaimsChange ==
  ASSUME NEW s \in Sessions, NEW g, g = [d \in Deals |-> g[d]],
         \A t \in Sessions \ {s} : session'[t].deal = session[t].deal /\ resv'[t] = resv[t],
         \A d \in Deals : Claim(s, d)' = g[d]
  PROVE  Claims' = [Claims EXCEPT ![s] = g]
<1> DEFINE C == [Claims EXCEPT ![s] = g]
<1>1. /\ Claims = [t \in Sessions |-> Claims[t]]
      /\ \A t \in Sessions : Claims[t] = [d \in Deals |-> Claims[t][d]]
      /\ \A t \in Sessions, d \in Deals : Claims[t][d] = Claim(t, d)
  BY DEF Claims
<1>2. /\ C = [t \in Sessions |-> C[t]]
      /\ C[s] = g
      /\ \A t \in Sessions \ {s} : C[t] = Claims[t]
  BY <1>1
<1>3. \A t \in Sessions \ {s}, d \in Deals : Claim(t, d)' = Claim(t, d)
  BY SameClaims
<1> HIDE DEF C
<1>4. \A t \in Sessions : C[t] = [d \in Deals |-> C[t][d]]
  BY <1>1, <1>2
<1>5. \A t \in Sessions, d \in Deals : C[t][d] = Claim(t, d)'
  BY <1>1, <1>2, <1>3
<1>6. Claims' = C
  BY <1>2, <1>4, <1>5, ClaimsAre
<1> QED BY <1>6 DEF C

LEMMA PromiseStep ==
  ASSUME Consistent, Step
  PROVE  [Promise!Next]_(Promise!vars)
<1> USE DEF Consistent, Typed, TypeOK, RowsOK, Promise!vars
<1>1. ASSUME orders' = orders,
             \A s \in Sessions : session'[s].deal = session[s].deal /\ resv'[s] = resv[s]
      PROVE  [Promise!Next]_(Promise!vars)
  <2>1. Claims' = Claims
    BY <1>1, SameClaims DEF Claims
  <2> QED BY <1>1, <2>1
<1>2. ASSUME NEW s \in Sessions, NEW u \in Users, NEW d \in Deals, Takes(s, u, d)
      PROVE  Promise!Take(s)
  <2>1. /\ session'[s].deal = d /\ resv'[s] = "RESERVED" /\ resv[s] = "NONE"
        /\ \A t \in Sessions \ {s} : session'[t].deal = session[t].deal /\ resv'[t] = resv[t]
        /\ s \notin orders /\ orders' = orders
    BY <1>2 DEF Takes, PackOK
  <2>2. \A i \in Deals : Claims[s][i] = "NONE"
    BY <2>1 DEF Claims, Claim
  <2>3. \A i \in Deals : Claim(s, i)' = IF i \in {d} THEN "RESERVED" ELSE "NONE"
    BY <2>1 DEF Claim
  <2>4. Claims' = [Claims EXCEPT ![s] = [i \in Deals |-> IF i \in {d} THEN "RESERVED" ELSE "NONE"]]
    <3> DEFINE g == [i \in Deals |-> IF i \in {d} THEN "RESERVED" ELSE "NONE"]
    <3>1. g = [i \in Deals |-> g[i]] /\ \A i \in Deals : Claim(s, i)' = g[i]
      BY <2>3
    <3> HIDE DEF g
    <3>2. Claims' = [Claims EXCEPT ![s] = g]
      BY <2>1, <3>1, ClaimsChange
    <3> QED BY <3>2 DEF g
  <2> QED BY <2>1, <2>2, <2>4 DEF Promise!Take
<1>3. ASSUME NEW s \in Sessions, Returns(s)
      PROVE  [Promise!Next]_(Promise!vars)
  <2>1. PICK st \in {"EXPIRED", "CANCELLED"} : Release(s, st)
    BY <1>3 DEF Returns
  <2>2. /\ orders' = orders
        /\ \A t \in Sessions : session'[t].deal = session[t].deal
        /\ \A t \in Sessions \ {s} : resv'[t] = resv[t]
    BY <1>3, <2>1, Released DEF Returns
  <2>3. CASE resv[s] # "RESERVED"
    BY <1>1, <2>1, <2>2, <2>3, Released
  <2>4. CASE resv[s] = "RESERVED"
    <3>1. resv'[s] \in {"EXPIRED", "CANCELLED"} /\ s \notin orders
      BY <2>1, <2>4, Released DEF PackOK
    <3>2. ASSUME NEW i \in Deals
          PROVE  Claim(s, i)' = IF Claims[s][i] = "RESERVED" THEN "RELEASED" ELSE Claims[s][i]
      BY <2>2, <2>4, <3>1 DEF Claim, Claims
    <3>3. ASSUME NEW t \in Sessions \ {s}, NEW i \in Deals
          PROVE  Claim(t, i)' = Claims[t][i]
      BY <2>2, SameClaims DEF Claims
    <3> DEFINE C == [t \in Sessions |->
                       IF t \in {s}
                       THEN [i \in Deals |-> IF Claims[t][i] = "RESERVED" THEN "RELEASED"
                                             ELSE Claims[t][i]]
                       ELSE Claims[t]]
    <3>4. Claims' = C
      <4>1. \A t \in Sessions : Claims[t] = [i \in Deals |-> Claims[t][i]]
        BY DEF Claims
      <4>2. \A t \in Sessions : C[t] = [i \in Deals |-> C[t][i]]
        BY <4>1
      <4>3. C = [t \in Sessions |-> C[t]]
        OBVIOUS
      <4>4. \A t \in Sessions, i \in Deals : C[t][i] = Claim(t, i)'
        BY <3>2, <3>3
      <4> HIDE DEF C
      <4> QED BY <4>2, <4>3, <4>4, ClaimsAre
    <3>5. Promise!GiveBack({s})
      BY <2>2, <3>1, <3>4 DEF Promise!GiveBack
    <3> QED BY <3>5 DEF Promise!Next
  <2> QED BY <2>3, <2>4
<1>4. ASSUME NEW s \in Sessions, Sells(s)
      PROVE  Promise!Sell(s)
  <2>1. PICK d \in Deals : d = session[s].deal
    BY <1>4 DEF Sells, Live, PackOK
  <2>2. /\ resv[s] = "RESERVED" /\ resv'[s] = "COMMITTED" /\ session'[s].deal = d
        /\ \A t \in Sessions \ {s} : session'[t].deal = session[t].deal /\ resv'[t] = resv[t]
        /\ s \notin orders /\ orders' = orders \union {s}
    BY <1>4, <2>1 DEF Sells, CommittedResv, PackOK
  <2>3. \A i \in Deals : Claims[s][i] = IF i = d THEN "RESERVED" ELSE "NONE"
    BY <2>1, <2>2 DEF Claims, Claim
  <2>4. \A i \in Deals : Claim(s, i)' = IF i \in {d} THEN "COMMITTED" ELSE "NONE"
    BY <2>2 DEF Claim
  <2>5. Claims' = [Claims EXCEPT ![s] = [i \in Deals |-> IF i \in {d} THEN "COMMITTED" ELSE "NONE"]]
    <3> DEFINE g == [i \in Deals |-> IF i \in {d} THEN "COMMITTED" ELSE "NONE"]
    <3>1. g = [i \in Deals |-> g[i]] /\ \A i \in Deals : Claim(s, i)' = g[i]
      BY <2>4
    <3> HIDE DEF g
    <3>2. Claims' = [Claims EXCEPT ![s] = g]
      BY <2>2, <3>1, ClaimsChange
    <3> QED BY <3>2 DEF g
  <2>6. {d} \in SUBSET Deals
    OBVIOUS
  <2>7. \A i \in Deals : Claims[s][i] # "NONE" => Claims[s][i] = "RESERVED" /\ i \in {d}
    BY <2>3
  <2>8. \A i \in {d} : Claims[s][i] = "RESERVED"
    BY <2>3
  <2> HIDE DEF Consistent, Typed, TypeOK, RowsOK
  <2> QED BY <2>2, <2>5, <2>6, <2>7, <2>8 DEF Promise!Sell
<1>5. ASSUME NEW s \in Sessions, Ends(s)
      PROVE  [Promise!Next]_(Promise!vars)
  BY <1>1, <1>5 DEF Ends
<1>6. CASE Leaves \/ \E d \in Deals : Edits(d)
  BY <1>1, <1>6 DEF Leaves, Edits
<1> QED BY <1>2, <1>3, <1>4, <1>5, <1>6 DEF Step, Promise!Next

(* Surprise deals implement the promise about stock: a session takes its   *)
(* pack once, returns or sells it once, and an order sells the pack of its *)
(* session.                                                                *)
THEOREM DealsKeepStockPromise == Spec => KeepsStockPromise
<1>1. Init => Promise!Init
  BY DEF Init, Promise!Init, Claims, Claim
<1>2. Consistent /\ [Next]_vars => [Promise!Next]_(Promise!vars)
  <2>1. CASE UNCHANGED vars
    <3>1. Claims' = Claims /\ orders' = orders
      BY <2>1 DEF vars, tables, Claims, Claim
    <3> QED BY <3>1 DEF Promise!vars
  <2> QED BY <2>1, EveryStep, PromiseStep
<1> QED BY <1>1, <1>2, ConsistentAlways, PTL DEF Spec, KeepsStockPromise, Promise!Spec
=============================================================================
