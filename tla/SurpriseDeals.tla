---------------------------- MODULE SurpriseDeals ----------------------------
(***************************************************************************)
(* Surprise deals: packs a business sells at a discount until the end of a *)
(* pickup window.  A customer reserves one pack, which opens a checkout    *)
(* session without a cart, and the cashier consumes it.  The session and   *)
(* its reservation row are created together, so one id names both.         *)
(*                                                                         *)
(* Reservations are ended by cancelling, by consuming too late or with an  *)
(* unfit wallet, by the expiry on GET paths (Checkout), which this time    *)
(* releases a pack, and by the command that expires reservations.  The     *)
(* cleanup job of Checkout ends the session and forgets the reservation.   *)
(*                                                                         *)
(* One transaction is one action.  Whether the business is visible is only *)
(* asked when a session is created, so a hidden business is a create that  *)
(* does not happen.  Windows are not moved once a deal has one.  As in     *)
(* Checkout, clock is the largest session id whose ten minutes are over,   *)
(* and a definition marked "Fault" is a mistake no action makes.           *)
(***************************************************************************)
EXTENDS Integers, FiniteSets, FiniteSetsExt

CONSTANTS
  Users, Nobody,        \* customers; the user of a session row not inserted
  Deals, NoDeal,        \* deals; the deal of such a row
  Workers,              \* request threads
  MaxSessions,          \* bounds the session ids
  Stock,                \* quantity_total of every deal at the start
  Price, Funds,         \* of a pack; of every wallet at the start
  ExpireLimit,          \* --limit of the expire command
  PatchStatuses,        \* the statuses a PATCH may set
  MaxPatches, MaxCloses, MaxToggles, MaxCrashes    \* bounds of the rest

Sessions == 1 .. MaxSessions

ASSUME NamesAssumption == Nobody \notin Users /\ NoDeal \notin Deals
ASSUME NumbersAssumption ==
  /\ MaxSessions \in Nat \ {0}
  /\ Stock \in Nat \ {0} /\ Price \in Nat \ {0} /\ Funds \in Nat
  /\ ExpireLimit \in Nat \ {0}

VARIABLES
  deal,        \* SurpriseDeal rows
  session,     \* CheckoutSession rows with source_type SURPRISE_DEAL
  resv,        \* status of the SurpriseDealReservation of each session
  wallet,      \* balance and is_active of each customer's wallet
  orders,      \* the sessions for which an Order row exists (OneToOne)
  over,        \* deals whose pickup_window_end <= now
  clock,       \* sessions 1 .. clock are ten minutes old
  req,         \* what each request thread remembers between transactions
  job,         \* the reservations the expire command has still to look at
  used         \* how much of each bound is used

tables == <<deal, session, resv, wallet, orders>>
vars   == <<tables, over, clock, req, job, used>>

-----------------------------------------------------------------------------
(* Rows *)

Idle      == [op |-> "idle"]
NoSession == [status |-> "NONE", user |-> Nobody, deal |-> NoDeal]

DealStatus    == {"DRAFT", "ACTIVE", "PAUSED", "CLOSED", "EXPIRED", "CANCELLED"}
SessionStatus == {"NONE", "PENDING", "CONSUMED", "EXPIRED", "CANCELLED"}
ResvStatus    == {"NONE", "RESERVED", "COMMITTED", "EXPIRED", "CANCELLED"}

ASSUME PatchAssumption == PatchStatuses \subseteq DealStatus

Live(s) == session[s].status = "PENDING"

(* expires_at: ten minutes, or the end of the pickup window *)
Due(s) == s <= clock \/ session[s].deal \in over

Unexpired(s) == Live(s) /\ ~Due(s)

Held(d) == {s \in Sessions : session[s].deal = d /\ resv[s] = "RESERVED"}

(* Fault: a pack held already is no obstacle. *)
AnyNumber(u, d) == FALSE

(* active_reservation_exists *)
HasPack(u, d) == \E s \in Held(d) : session[s].user = u /\ ~Due(s)

CanPay(u) == wallet[u].active /\ wallet[u].balance >= Price

(* Fault: nothing compares the packs left with the packs there were. *)
SaveableUnbounded(d, row) == row.status = "ACTIVE" => row.remaining > 0 /\ d \notin over

(* full_clean, which runs on every save of a deal *)
Saveable(d, row) ==
  /\ row.remaining <= row.total
  /\ row.status = "ACTIVE" => row.remaining > 0 /\ d \notin over

-----------------------------------------------------------------------------
(* services.py: what becomes of a deal's row *)

(* _close_if_sold_out: the deal is ACTIVE *)
SoldOut(d) == IF deal[d].remaining = 1 THEN "CLOSED" ELSE deal[d].status

(* reserve_surprise_deal *)
ReservedRow(d) ==
  [status    |-> SoldOut(d),
   total     |-> deal[d].total,
   remaining |-> deal[d].remaining - 1,
   reserved  |-> deal[d].reserved + 1]

(* _reopen_if_available_after_release *)
Reopened(d) == IF deal[d].status = "CLOSED" /\ d \notin over THEN "ACTIVE" ELSE deal[d].status

(* Fault: a deal that had been sold out stays closed. *)
ReleasedNotReopened(d) ==
  [deal[d] EXCEPT !.remaining = @ + 1, !.reserved = Max({@ - 1, 0})]

(* Fault: the pack stays counted as reserved. *)
ReleasedStillReserved(d) ==
  [deal[d] EXCEPT !.remaining = @ + 1, !.status = Reopened(d)]

(* release_surprise_deal_reservation *)
ReleasedRow(d) ==
  [status    |-> Reopened(d),
   total     |-> deal[d].total,
   remaining |-> deal[d].remaining + 1,
   reserved  |-> Max({deal[d].reserved - 1, 0})]

(* commit_surprise_deal_reservation *)
CommittedRow(d) == [deal[d] EXCEPT !.reserved = Max({@ - 1, 0})]

CommittedResv(s) == [resv EXCEPT ![s] = "COMMITTED"]

Releasable(s) ==
  resv[s] = "RESERVED" => Saveable(session[s].deal, ReleasedRow(session[s].deal))

(* Fault: whatever the status of the reservation. *)
ReleaseAnyStatus(s, st) ==
  /\ Saveable(session[s].deal, ReleasedRow(session[s].deal))
  /\ deal' = [deal EXCEPT ![session[s].deal] = ReleasedRow(session[s].deal)]
  /\ resv' = [resv EXCEPT ![s] = st]

(* Nothing but for a RESERVED reservation; the caller's transaction fails  *)
(* if the deal cannot be saved.                                            *)
Release(s, st) ==
  /\ Releasable(s)
  /\ \/ resv[s] # "RESERVED" /\ UNCHANGED <<deal, resv>>
     \/ /\ resv[s] = "RESERVED"
        /\ deal' = [deal EXCEPT ![session[s].deal] = ReleasedRow(session[s].deal)]
        /\ resv' = [resv EXCEPT ![s] = st]

SetStatus(s, st) == session' = [session EXCEPT ![s].status = st]

-----------------------------------------------------------------------------
(* Create, cancel and consume *)

(* create_surprise_deal_checkout_session: everything under the deal's row  *)
(* lock, which its first query takes.                                      *)
CreateSession(u, d) ==
  /\ deal[d].status = "ACTIVE" /\ deal[d].remaining > 0 /\ d \notin over
  /\ ~HasPack(u, d)
  /\ CanPay(u)
  /\ Saveable(d, ReservedRow(d))
  /\ \E s \in Sessions :
       /\ session[s].status = "NONE"
       /\ \A t \in Sessions : t < s => session[t].status # "NONE"
       /\ session' = [session EXCEPT ![s] = [status |-> "PENDING", user |-> u, deal |-> d]]
       /\ resv' = [resv EXCEPT ![s] = "RESERVED"]
  /\ deal' = [deal EXCEPT ![d] = ReservedRow(d)]
  /\ UNCHANGED <<wallet, orders, over, clock, req, job, used>>

(* cancel_checkout_session: an expiry it finds is rolled back *)
CancelSession(s) ==
  /\ Unexpired(s)
  /\ Release(s, "CANCELLED")
  /\ SetStatus(s, "CANCELLED")
  /\ UNCHANGED <<wallet, orders, over, clock, req, job, used>>

Consumable(s) == Live(s) /\ resv[s] = "RESERVED"

ConsumeSession(s) ==
  LET u == session[s].user
      d == session[s].deal
  IN /\ Consumable(s) /\ ~Due(s) /\ s \notin orders
     /\ CanPay(u)
     /\ Saveable(d, CommittedRow(d))
     /\ orders' = orders \union {s}
     /\ wallet' = [wallet EXCEPT ![u].balance = @ - Price]
     /\ deal' = [deal EXCEPT ![d] = CommittedRow(d)]
     /\ resv' = CommittedResv(s)
     /\ SetStatus(s, "CONSUMED")
     /\ UNCHANGED <<over, clock, req, job, used>>

(* The two failures consume commits before it reports them *)
ConsumeTooLate(s) ==
  /\ Consumable(s) /\ Due(s)
  /\ Release(s, "EXPIRED")
  /\ SetStatus(s, "EXPIRED")
  /\ UNCHANGED <<wallet, orders, over, clock, req, job, used>>

ConsumeUnpaid(s) ==
  /\ Consumable(s) /\ ~Due(s)
  /\ ~CanPay(session[s].user)
  /\ Release(s, "CANCELLED")
  /\ SetStatus(s, "CANCELLED")
  /\ UNCHANGED <<wallet, orders, over, clock, req, job, used>>

-----------------------------------------------------------------------------
(* Expiry on the GET paths (_expire_if_needed), in steps, unlocked *)

ReadSession(w, s) ==
  /\ req[w] = Idle
  /\ Live(s)
  /\ req' = [req EXCEPT ![w] = [op |-> "expire", step |-> "check", session |-> s]]
  /\ UNCHANGED <<tables, over, clock, job, used>>

InExpiry(w, step) == req[w].op = "expire" /\ req[w].step = step

FindNotDue(w) ==
  /\ InExpiry(w, "check")
  /\ ~Due(req[w].session)
  /\ req' = [req EXCEPT ![w] = Idle]
  /\ UNCHANGED <<tables, over, clock, job, used>>

(* Fault: the status is changed in memory only. *)
ExpireSessionUnsaved(w) ==
  /\ InExpiry(w, "check")
  /\ Due(req[w].session)
  /\ req' = [req EXCEPT ![w].step = "release"]
  /\ UNCHANGED <<tables, over, clock, job, used>>

ExpireSession(w) ==
  /\ InExpiry(w, "check")
  /\ Due(req[w].session)
  /\ SetStatus(req[w].session, "EXPIRED")
  /\ req' = [req EXCEPT ![w].step = "release"]
  /\ UNCHANGED <<deal, resv, wallet, orders, over, clock, job, used>>

ExpirePack(w) ==
  /\ InExpiry(w, "release")
  /\ Release(req[w].session, "EXPIRED")
  /\ req' = [req EXCEPT ![w] = Idle]
  /\ UNCHANGED <<session, wallet, orders, over, clock, job, used>>

ExpirePackFails(w) ==
  /\ InExpiry(w, "release")
  /\ ~Releasable(req[w].session)
  /\ req' = [req EXCEPT ![w] = Idle]
  /\ UNCHANGED <<tables, over, clock, job, used>>

-----------------------------------------------------------------------------
(* Jobs *)

(* cleanup_checkout_sessions: the sessions of a batch are independent here *)
CleanupSession(s) ==
  /\ Live(s) /\ Due(s)
  /\ SetStatus(s, "EXPIRED")
  /\ UNCHANGED <<deal, resv, wallet, orders, over, clock, req, job, used>>

(* expire_due_surprise_deal_reservations: select ids, then one transaction *)
(* for each.  The first that fails ends the run.                           *)
Expirable(s) == resv[s] = "RESERVED" /\ Due(s) /\ session[s].status # "CONSUMED"

ExpireSelect ==
  LET due == {s \in Sessions : Expirable(s)}
  IN /\ job = {}
     /\ job' \in kSubset(Min({ExpireLimit, Cardinality(due)}), due)
     /\ UNCHANGED <<tables, over, clock, req, used>>

ExpireOne(s) ==
  /\ s \in job
  /\ job' = job \ {s}
  /\ \/ ~Expirable(s) /\ UNCHANGED <<deal, session, resv>>
     \/ /\ Expirable(s)
        /\ Release(s, "EXPIRED")
        /\ SetStatus(s, IF Live(s) THEN "EXPIRED" ELSE session[s].status)
  /\ UNCHANGED <<wallet, orders, over, clock, req, used>>

ExpireFails(s) ==
  /\ s \in job
  /\ Expirable(s) /\ ~Releasable(s)
  /\ job' = {}
  /\ UNCHANGED <<tables, over, clock, req, used>>

-----------------------------------------------------------------------------
(* The business, the operators and the rest of the system *)

Limit == [patch |-> MaxPatches, close |-> MaxCloses, toggle |-> MaxToggles,
          crash |-> MaxCrashes]

Uses(b) == used[b] < Limit[b] /\ used' = [used EXCEPT ![b] = @ + 1]

(* PATCH: read the row, validate, save every column of it; no lock.        *)
ReadDeal(w, d) ==
  /\ req[w] = Idle
  /\ Uses("patch")
  /\ req' = [req EXCEPT ![w] = [op |-> "patch", step |-> "read", deal |-> d, row |-> deal[d]]]
  /\ UNCHANGED <<tables, over, clock, job>>

(* The new total moves what remains by as much; it may not change while a  *)
(* reservation is held.                                                    *)
ValidatePatch(w) ==
  /\ req[w].op = "patch" /\ req[w].step = "read"
  /\ LET d == req[w].deal
         r == req[w].row
     IN \E st \in PatchStatuses \union {r.status}, total \in 0 .. Stock :
          /\ st = "ACTIVE" => total > 0 /\ d \notin over
          /\ total # r.total => Held(d) = {}
          /\ r.remaining + (total - r.total) >= 0
          /\ req' = [req EXCEPT ![w] =
                       [op |-> "patch", step |-> "save", deal |-> d,
                        row |-> [status |-> st, total |-> total, reserved |-> r.reserved,
                                 remaining |-> r.remaining + (total - r.total)]]]
  /\ UNCHANGED <<tables, over, clock, job, used>>

SavePatch(w) ==
  /\ req[w].op = "patch" /\ req[w].step = "save"
  /\ Saveable(req[w].deal, req[w].row)
  /\ deal' = [deal EXCEPT ![req[w].deal] = req[w].row]
  /\ req' = [req EXCEPT ![w] = Idle]
  /\ UNCHANGED <<session, resv, wallet, orders, over, clock, job, used>>

(* The request is invalid, or the row cannot be saved as validated.        *)
RefusePatch(w) ==
  /\ req[w].op = "patch"
  /\ req[w].step = "read" \/ ~Saveable(req[w].deal, req[w].row)
  /\ req' = [req EXCEPT ![w] = Idle]
  /\ UNCHANGED <<tables, over, clock, job, used>>

(* POST close by the business: checked and saved without a lock *)
CheckClose(w, d) ==
  /\ req[w] = Idle
  /\ Held(d) = {}
  /\ Uses("close")
  /\ req' = [req EXCEPT ![w] = [op |-> "close", deal |-> d]]
  /\ UNCHANGED <<tables, over, clock, job>>

CloseDeal(w) ==
  /\ req[w].op = "close"
  /\ deal' = [deal EXCEPT ![req[w].deal].status = "CLOSED"]
  /\ req' = [req EXCEPT ![w] = Idle]
  /\ UNCHANGED <<session, resv, wallet, orders, over, clock, job, used>>

(* ... and by operations, under the row's lock *)
OpsCloseDeal(d) ==
  /\ Held(d) = {}
  /\ Uses("close")
  /\ deal' = [deal EXCEPT ![d].status = "CLOSED"]
  /\ UNCHANGED <<session, resv, wallet, orders, over, clock, req, job>>

SetWalletActive(u) ==
  /\ Uses("toggle")
  /\ wallet' = [wallet EXCEPT ![u].active = ~@]
  /\ UNCHANGED <<deal, session, resv, orders, over, clock, req, job>>

DeadlinePasses ==
  /\ clock < MaxSessions
  /\ session[clock + 1].status # "NONE"
  /\ clock' = clock + 1
  /\ UNCHANGED <<tables, over, req, job, used>>

WindowEnds(d) ==
  /\ d \notin over
  /\ over' = over \union {d}
  /\ UNCHANGED <<tables, clock, req, job, used>>

CrashRequest(w) ==
  /\ req[w] # Idle
  /\ Uses("crash")
  /\ req' = [req EXCEPT ![w] = Idle]
  /\ UNCHANGED <<tables, over, clock, job>>

CrashJob ==
  /\ job # {}
  /\ Uses("crash")
  /\ job' = {}
  /\ UNCHANGED <<tables, over, clock, req>>

-----------------------------------------------------------------------------
Init ==
  /\ deal \in [Deals -> [status : {"DRAFT", "ACTIVE"}, total : {Stock},
                         remaining : {Stock}, reserved : {0}]]
  /\ session = [s \in Sessions |-> NoSession]
  /\ resv = [s \in Sessions |-> "NONE"]
  /\ wallet = [u \in Users |-> [balance |-> Funds, active |-> TRUE]]
  /\ orders = {}
  /\ over = {}
  /\ clock = 0
  /\ req = [w \in Workers |-> Idle]
  /\ job = {}
  /\ used = [b \in DOMAIN Limit |-> 0]

Checkouts ==
  \/ \E u \in Users, d \in Deals : CreateSession(u, d)
  \/ \E s \in Sessions :
       CancelSession(s) \/ ConsumeSession(s) \/ ConsumeTooLate(s) \/ ConsumeUnpaid(s)

LazyExpiry ==
  \E w \in Workers :
     \/ \E s \in Sessions : ReadSession(w, s)
     \/ FindNotDue(w) \/ ExpireSession(w) \/ ExpirePack(w) \/ ExpirePackFails(w)

ExpireCommand == ExpireSelect \/ \E s \in Sessions : ExpireOne(s) \/ ExpireFails(s)

Cleanup == \E s \in Sessions : CleanupSession(s)

Business ==
  \/ \E w \in Workers :
       \/ \E d \in Deals : ReadDeal(w, d) \/ CheckClose(w, d)
       \/ ValidatePatch(w) \/ SavePatch(w) \/ RefusePatch(w) \/ CloseDeal(w)
  \/ \E d \in Deals : OpsCloseDeal(d)

Others ==
  \/ \E u \in Users : SetWalletActive(u)
  \/ DeadlinePasses
  \/ \E d \in Deals : WindowEnds(d)
  \/ CrashJob \/ \E w \in Workers : CrashRequest(w)

Next == Checkouts \/ LazyExpiry \/ ExpireCommand \/ Cleanup \/ Business \/ Others

(* Celery beat runs the cleanup job; nothing in the repository runs the    *)
(* expire command, which is assumed here to be run again and again.        *)
Fairness ==
  /\ WF_vars(Cleanup)
  /\ WF_vars(ExpireSelect)
  /\ WF_vars(\E s \in Sessions : ExpireOne(s) \/ ExpireFails(s))

Spec     == Init /\ [][Next]_vars
FairSpec == Spec /\ Fairness

-----------------------------------------------------------------------------
(* Properties *)

DealRow == [status : DealStatus, total : 0 .. Stock, remaining : 0 .. Stock, reserved : Nat]

RequestOK(r) ==
  \/ r = Idle
  \/ r \in [op : {"expire"}, step : {"check", "release"}, session : Sessions]
  \/ /\ r.op = "patch" /\ r.step \in {"read", "save"} /\ r.deal \in Deals
     /\ r.row \in DealRow /\ r.row.remaining <= r.row.total
  \/ r \in [op : {"close"}, deal : Deals]

RowsOK ==
  /\ deal \in [Deals -> DealRow]
  /\ session \in [Sessions -> [status : SessionStatus, user : Users \union {Nobody},
                               deal : Deals \union {NoDeal}]]
  /\ resv \in [Sessions -> ResvStatus]
  /\ wallet \in [Users -> [balance : Nat, active : BOOLEAN]]
  /\ orders \subseteq Sessions
  /\ over \subseteq Deals
  /\ clock \in 0 .. MaxSessions
  /\ job \subseteq Sessions
  /\ used \in [patch : Nat, close : Nat, toggle : Nat, crash : Nat]

(* Rows have the shape their tables give them; no counter is negative, and *)
(* no deal has more packs left than it ever had (full_clean).              *)
TypeOK ==
  /\ RowsOK
  /\ \A d \in Deals : deal[d].remaining <= deal[d].total
  /\ \A w \in Workers : RequestOK(req[w])

(* Unless a PATCH has written over a deal, its counters count: every pack  *)
(* is for sale, reserved or sold (services.py: reserve, release, commit).  *)
StockConserved ==
  used.patch = 0 => \A d \in Deals :
     LET sold == {s \in orders : session[s].deal = d}
     IN /\ deal[d].reserved = Cardinality(Held(d))
        /\ deal[d].remaining + deal[d].reserved + Cardinality(sold) = deal[d].total

(* A session that can still be consumed holds its pack, whatever of the    *)
(* five ways to end it is under way.                                       *)
LiveHoldsItsPack == \A s \in Sessions : Live(s) => resv[s] = "RESERVED"

(* A customer holds one pack of a deal at a time, but for packs that are   *)
(* overdue (active_reservation_exists).                                    *)
OnePackPerCustomer ==
  \A s, t \in Sessions :
     resv[s] = "RESERVED" /\ resv[t] = "RESERVED" /\ ~Due(s) /\ ~Due(t)
       /\ session[s].user = session[t].user /\ session[s].deal = session[t].deal
     => s = t

(* Selling the last pack closes the deal and a returned pack reopens it:   *)
(* while nobody closes or edits deals, a deal with packs left and time to  *)
(* pick them up is never CLOSED.                                           *)
UnsoldIsOnSale ==
  used.patch = 0 /\ used.close = 0 => \A d \in Deals \ over :
     deal[d].status = "CLOSED" => deal[d].remaining = 0

Claim(s, d) ==
  IF session[s].deal # d THEN "NONE"
  ELSE IF resv[s] \in {"EXPIRED", "CANCELLED"} THEN "RELEASED"
  ELSE resv[s]

Claims == [s \in Sessions |-> [d \in Deals |-> Claim(s, d)]]

(* The promise about stock, implemented by reservations of packs.          *)
Promise == INSTANCE StockPromise WITH Items <- Deals, claim <- Claims, sold <- orders
KeepsStockPromise == Promise!Spec

-----------------------------------------------------------------------------
(* What the repository says of the program and the code does not do *)

(* "Expire due surprise deal reservations and release reserved stock."     *)
(* (expire_surprise_deal_reservations.py), even when it is run forever.    *)
DueReservationsEnd ==
  \A s \in Sessions : (resv[s] = "RESERVED" /\ Due(s)) ~> (resv[s] # "RESERVED")
=============================================================================
