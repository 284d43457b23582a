------------------------------ MODULE Checkout ------------------------------
(***************************************************************************)
(* Carts, checkout sessions and menu quotas of the orders app.             *)
(*                                                                         *)
(* A customer fills the one ACTIVE cart, POST /checkout-sessions/ freezes  *)
(* it into a session that holds quota for ten minutes, and a cashier       *)
(* consumes the session: the order is created, the wallet debited and the  *)
(* held quota sold.  Sessions also end by cancellation and by expiry; and  *)
(* expiry is reached on four different paths: lazily on GETs (row by row,  *)
(* outside any transaction), when the cart is opened, and by the           *)
(* cleanup_checkout_sessions job.                                          *)
(*                                                                         *)
(* One database transaction is one action, but for the creation of a       *)
(* session, which checks before it locks.  What a request keeps in memory  *)
(* between two transactions is req[w]; it may be stale by then.  Row ids   *)
(* are allocated in order, and a session's deadline is ten minutes after   *)
(* its creation, so deadlines pass in the order of the ids: clock is the   *)
(* largest id whose deadline has passed.                                   *)
(*                                                                         *)
(* A definition marked "Fault" is a plausible mistake in the one that      *)
(* follows it.  No action uses it: it is there to be put in place of that  *)
(* definition, to see that a property notices.                             *)
(***************************************************************************)
EXTENDS Integers, FiniteSets, FiniteSetsExt

CONSTANTS
  Users, Nobody,        \* customers; the owner of a cart row not inserted yet
  Items,                \* menu items of the one business
  Workers,              \* request threads
  MaxCarts,             \* bounds the cart ids
  MaxSessions,          \* bounds the session ids
  MaxQuantity,          \* bounds the quantity of one cart line
  Prices,               \* the prices a menu item can have
  CustomerFee,          \* CUSTOMER_FIXED_FEE_KURUS
  BusinessFee,          \* BUSINESS_FIXED_FEE_KURUS
  Stock,                \* quota_total of every item at the start
  Funds,                \* balance of every wallet at the start
  CleanupLimit,         \* --limit of the cleanup job
  MaxEdits,             \* bounds price, listing and wallet changes by others
  MaxQuotaEdits,        \* bounds the business's edits of a quota
  QuotaPatches,         \* the sets of quota fields such an edit may mention
  MaxCrashes            \* bounds the requests and job runs that die half way

Carts    == 1 .. MaxCarts
Sessions == 1 .. MaxSessions
Lines    == [Items -> 0 .. MaxQuantity]
NoLines  == [i \in Items |-> 0]

ASSUME NobodyAssumption == Nobody \notin Users
ASSUME BoundsAssumption ==
  /\ MaxCarts \in Nat \ {0}
  /\ MaxSessions \in Nat \ {0}
  /\ MaxQuantity \in Nat \ {0}
  /\ Prices \subseteq Nat \ {0}
  /\ CleanupLimit \in Nat \ {0}
ASSUME AmountsAssumption ==
  /\ IsFiniteSet(Items)
  /\ Stock \in Nat /\ Funds \in Nat /\ CustomerFee \in Nat

VARIABLES
  cart,        \* orders.Cart rows with their CartItem quantities
  session,     \* orders.CheckoutSession rows with their frozen snapshots
  resv,        \* orders.CheckoutQuotaReservation rows: status per session, item
  quota,       \* menus.MenuItemQuota rows
  wallet,      \* balance and is_active of each customer's wallet
  orders,      \* the sessions for which an Order row exists (OneToOne)
  price,       \* MenuItem.price_amount
  listed,      \* the business is active, approved, listed and visible
  clock,       \* sessions 1 .. clock have expires_at <= now
  req,         \* what each request thread remembers between transactions
  job,         \* the ids the cleanup job has selected and not yet locked
  edits, quotaEdits, crashes    \* how much of each bound is used

tables == <<cart, session, resv, quota, wallet, orders>>
world  == <<price, listed, clock>>
budget == <<edits, quotaEdits, crashes>>
vars   == <<tables, world, req, job, budget>>

-----------------------------------------------------------------------------
(* Rows *)

NoCart    == [status |-> "NONE", user |-> Nobody, lines |-> NoLines]
NoSession == [status |-> "NONE", cart |-> 0, lines |-> NoLines, prices |-> NoLines]
NoResv    == [i \in Items |-> "NONE"]
Idle      == [op |-> "idle"]

CartStatus    == {"NONE", "ACTIVE", "CHECKED_OUT", "ABANDONED", "CONVERTED"}
SessionStatus == {"NONE", "PENDING", "CONSUMED", "EXPIRED", "CANCELLED"}
ResvStatus    == {"NONE", "RESERVED", "RELEASED", "COMMITTED"}
Ended         == {"CONSUMED", "EXPIRED", "CANCELLED"}

Live(s)  == session[s].status = "PENDING"
Due(s)   == s <= clock
(* Fault: any session in time, whatever its status. *)
InTime(s) == session[s].status # "NONE" /\ ~Due(s)

Unexpired(s) == Live(s) /\ ~Due(s)
Owner(s) == cart[session[s].cart].user

(* A checkout under way holds the lock of its cart's row. *)
RowLocked(c) == \E w \in Workers : req[w].op = "open" /\ req[w].cart = c

ActiveCarts(u) == {c \in Carts : cart[c].status = "ACTIVE" /\ cart[c].user = u}

(* uq_cart_user_single_active: the database lets cart c become u's ACTIVE  *)
(* cart only if u has no other.  The look-ups before such a write find no  *)
(* row to lock, so two requests can both pass them; the second one to      *)
(* write is refused, and nothing of its transaction remains.               *)
Unique(u, c) == ActiveCarts(u) \subseteq {c}

(* build_checkout_pricing_breakdown *)
Subtotal(p, l) == SumFunction([i \in Items |-> p[i] * l[i]])
Payable(p, l)  == Subtotal(p, l) + CustomerFee
(* Fault: the price now, not the price frozen in the session. *)
AmountAtCurrentPrice(s) == Payable(price, session[s].lines)

Amount(s)      == Payable(session[s].prices, session[s].lines)

(* Fault: the balance is not compared. *)
CanPayIfActive(u, amount) == wallet[u].active

CanPay(u, amount) == wallet[u].active /\ wallet[u].balance >= amount

(* The checks recompute_active_cart makes of a cart's lines against the    *)
(* quotas q: every item orderable, within its quota, and the business's    *)
(* net not negative.                                                       *)
Recomputable(l, q) ==
  /\ \A i \in Items : l[i] > 0 => listed /\ (q[i].enabled => q[i].remaining >= l[i])
  /\ l # NoLines => Subtotal(price, l) >= BusinessFee

-----------------------------------------------------------------------------
(* Quota: reserve, release, commit (services_quota.py) *)

Limited(l)    == {i \in Items : l[i] > 0 /\ quota[i].enabled}

CanReserve(l) == \A i \in Limited(l) : quota[i].remaining >= l[i]
HasRows(s)    == resv[s] # NoResv

(* reserve_quota_for_checkout_session, for lines l of session s: nothing   *)
(* if s has reservation rows of any status, else all items or none.        *)
Reserve(s, l) ==
  \/ /\ HasRows(s)
     /\ UNCHANGED <<quota, resv>>
  \/ /\ ~HasRows(s)
     /\ CanReserve(l)
     /\ quota' = [i \in Items |->
                    IF i \in Limited(l)
                    THEN [quota[i] EXCEPT !.remaining = @ - l[i], !.reserved = @ + l[i]]
                    ELSE quota[i]]
     /\ resv' = [resv EXCEPT ![s] =
                   [i \in Items |-> IF i \in Limited(l) THEN "RESERVED" ELSE "NONE"]]

(* release_quota_for_checkout_session, for every session of B in one       *)
(* transaction.  full_clean refuses a row whose remaining would exceed its *)
(* total: the exception rolls the transaction back.                        *)
(* Fault: units given back without asking for the rows' status. *)
HeldUnitsAnyStatus(B, i) == SumFunction([s \in B |-> session[s].lines[i]])

HeldUnits(B, i) ==
  SumFunction([s \in {t \in B : resv[t][i] = "RESERVED"} |-> session[s].lines[i]])

Releasable(B) ==
  \A i \in Items : HeldUnits(B, i) > 0 => quota[i].remaining + HeldUnits(B, i) <= quota[i].total

(* Fault: the units stay counted as reserved. *)
ReleasedStillReserved(B) ==
  [i \in Items |-> [quota[i] EXCEPT !.remaining = @ + HeldUnits(B, i)]]

ReleasedQuota(B) ==
  [i \in Items |->
     [quota[i] EXCEPT !.remaining = @ + HeldUnits(B, i),
                      !.reserved  = Max({@ - HeldUnits(B, i), 0})]]

(* Fault: rows given back without asking for their status. *)
ReleasedAnyResv(B) ==
  [s \in Sessions |->
     IF s \in B
     THEN [i \in Items |-> IF resv[s][i] # "NONE" THEN "RELEASED" ELSE "NONE"]
     ELSE resv[s]]

(* Fault: the counters are changed and the rows are not. *)
ReleasedNoResv(B) == [s \in Sessions |-> resv[s]]

(* Fault: only the rows of sessions that are still live. *)
ReleasedLiveResv(B) ==
  [s \in Sessions |->
     IF s \in B /\ Live(s)
     THEN [i \in Items |-> IF resv[s][i] = "RESERVED" THEN "RELEASED" ELSE resv[s][i]]
     ELSE resv[s]]

ReleasedResv(B) ==
  [s \in Sessions |->
     IF s \in B
     THEN [i \in Items |-> IF resv[s][i] = "RESERVED" THEN "RELEASED" ELSE resv[s][i]]
     ELSE resv[s]]

ExpiredSessions(B) ==
  [s \in Sessions |->
     IF s \in B THEN [session[s] EXCEPT !.status = "EXPIRED"] ELSE session[s]]

Release(B) ==
  /\ Releasable(B)
  /\ quota' = ReleasedQuota(B)
  /\ resv'  = ReleasedResv(B)

-----------------------------------------------------------------------------
(* Cart API (services_cart.py): one transaction per call *)

(* _restore_latest_expired_checked_out_cart: the sessions it filters, of   *)
(* which it takes the one with the latest deadline.                        *)
Restorable(u) ==
  {s \in Sessions : /\ Live(s) /\ Due(s) /\ Owner(s) = u
                    /\ cart[session[s].cart].status = "CHECKED_OUT"}

Newest(s, S) == \A t \in S : t <= s

(* _get_active_cart returns cart c after expiring the sessions B.          *)
Opened(u, c, B) ==
  \/ c \in ActiveCarts(u) /\ B = {}
  \/ /\ ActiveCarts(u) = {}
     /\ \E s \in Restorable(u) :
          /\ Newest(s, Restorable(u))
          /\ B = {s}
          /\ c = session[s].cart

(* ... or get_or_create_active_cart inserts the cart c.  It found no cart  *)
(* and nothing to restore when it looked, which may be long ago: only the  *)
(* constraint stands between two such requests.                            *)
Inserted(u, c, B) ==
  /\ B = {}
  /\ cart[c].status = "NONE"
  /\ \A d \in Carts : d < c => cart[d].status # "NONE"

(* Save cart c with lines l as u's ACTIVE cart and recompute it, in the    *)
(* transaction that expires B; a line that cannot be ordered rolls back    *)
(* all of it, the expiry too.                                              *)
SaveCart(u, c, B, l) ==
  /\ ~RowLocked(c)
  /\ Unique(u, c)
  /\ Release(B)
  /\ Recomputable(l, ReleasedQuota(B))
  /\ cart' = [cart EXCEPT ![c] = [status |-> "ACTIVE", user |-> u, lines |-> l]]
  /\ session' = ExpiredSessions(B)
  /\ UNCHANGED <<wallet, orders, world, job, budget>>

AddItem(u, i) ==
  \E c \in Carts, B \in SUBSET Sessions, q \in 1 .. MaxQuantity :
     /\ Opened(u, c, B) \/ Inserted(u, c, B)
     /\ listed
     /\ cart[c].lines[i] + q <= MaxQuantity
     /\ SaveCart(u, c, B, [cart[c].lines EXCEPT ![i] = @ + q])
     /\ UNCHANGED req

UpdateItemQuantity(u, i) ==
  \E c \in Carts, B \in SUBSET Sessions, q \in 1 .. MaxQuantity :
     /\ Opened(u, c, B)
     /\ cart[c].lines[i] > 0
     /\ SaveCart(u, c, B, [cart[c].lines EXCEPT ![i] = q])
     /\ UNCHANGED req

RemoveItem(u, i) ==
  \E c \in Carts, B \in SUBSET Sessions :
     /\ Opened(u, c, B)
     /\ cart[c].lines[i] > 0
     /\ SaveCart(u, c, B, [cart[c].lines EXCEPT ![i] = 0])
     /\ UNCHANGED req

ClearCart(u) ==
  \E c \in Carts, B \in SUBSET Sessions :
     /\ Opened(u, c, B)
     /\ SaveCart(u, c, B, NoLines)
     /\ UNCHANGED req

(* get_active_cart_with_recalculation, as GET /cart/ calls it *)
ViewCart(u) ==
  \E c \in Carts, B \in SUBSET Sessions :
     /\ Opened(u, c, B)
     /\ SaveCart(u, c, B, cart[c].lines)
     /\ UNCHANGED req

-----------------------------------------------------------------------------
(* POST /checkout-sessions/: two transactions.  The second works on the    *)
(* cart object the first one loaded, with the status it had then, and has  *)
(* two steps itself: it recomputes the cart, which locks the cart's row    *)
(* and reads quotas, prices and the wallet without locks, and then locks   *)
(* the quotas and reserves them.                                           *)

LoadCart(w, u) ==
  /\ req[w] = Idle
  /\ \E c \in Carts, B \in SUBSET Sessions :
       /\ Opened(u, c, B)
       /\ SaveCart(u, c, B, cart[c].lines)
       /\ req' = [req EXCEPT ![w] = [op |-> "create", cart |-> c]]

(* The checks of create_checkout_session.  It never re-reads the status;   *)
(* but full_clean of the row, ACTIVE in memory, refuses it when the user   *)
(* has another ACTIVE cart by now.                                         *)
CanCheckout(c) ==
  LET u == cart[c].user
      l == cart[c].lines
  IN /\ l # NoLines
     /\ Recomputable(l, quota)
     /\ ActiveCarts(u) \subseteq {c}
     /\ CanPay(u, Payable(price, l))

(* _get_reusable_pending_session: the candidates, newest first *)
Reusable(c) ==
  {s \in Sessions : /\ Unexpired(s) /\ session[s].cart = c
                    /\ Amount(s) = Payable(price, cart[c].lines)}

PriceCheckout(w) ==
  /\ req[w].op = "create"
  /\ LET c == req[w].cart
     IN /\ ~RowLocked(c)
        /\ CanCheckout(c)
        /\ \E s \in Sessions \union {0} :
             /\ IF Reusable(c) = {} THEN s = 0
                ELSE s \in Reusable(c) /\ Newest(s, Reusable(c))
             /\ req' = [req EXCEPT ![w] = [op |-> "open", cart |-> c,
                                           prices |-> price, reuse |-> s]]
  /\ UNCHANGED <<tables, world, job, budget>>

ReuseSession(w) ==
  /\ req[w].op = "open"
  /\ req[w].reuse # 0
  /\ Reserve(req[w].reuse, session[req[w].reuse].lines)
  /\ req' = [req EXCEPT ![w] = Idle]
  /\ UNCHANGED <<cart, session, wallet, orders, world, job, budget>>

OpenSession(w) ==
  /\ req[w].op = "open"
  /\ req[w].reuse = 0
  /\ LET c == req[w].cart
         l == cart[c].lines
     IN /\ \E s \in Sessions :
             /\ session[s].status = "NONE"
             /\ \A t \in Sessions : t < s => session[t].status # "NONE"
             /\ Reserve(s, l)
             /\ session' = [session EXCEPT ![s] = [status |-> "PENDING", cart |-> c,
                                                   lines |-> l, prices |-> req[w].prices]]
        /\ cart' = [cart EXCEPT ![c].status = "CHECKED_OUT"]
  /\ req' = [req EXCEPT ![w] = Idle]
  /\ UNCHANGED <<wallet, orders, world, job, budget>>

(* A check fails, or the quotas do not suffice under their locks: nothing  *)
(* of the transaction remains.                                             *)
RefuseCheckout(w) ==
  /\ \/ req[w].op = "create" /\ ~RowLocked(req[w].cart) /\ ~CanCheckout(req[w].cart)
     \/ /\ req[w].op = "open"
        /\ IF req[w].reuse = 0
           THEN \/ ~CanReserve(cart[req[w].cart].lines)
                \/ \A s \in Sessions : session[s].status # "NONE"   \* MaxSessions
           ELSE ~HasRows(req[w].reuse) /\ ~CanReserve(session[req[w].reuse].lines)
  /\ req' = [req EXCEPT ![w] = Idle]
  /\ UNCHANGED <<tables, world, job, budget>>

-----------------------------------------------------------------------------
(* _expire_if_needed on the GET paths (list, detail, latest, consume       *)
(* preview): the session and its cart are read in one query, then checked  *)
(* and written back in up to three transactions of their own, unlocked.    *)

ReadSession(w, s) ==
  /\ req[w] = Idle
  /\ Live(s)
  /\ req' = [req EXCEPT ![w] = [op |-> "expire", step |-> "check", session |-> s,
                                seen |-> cart[session[s].cart].status]]
  /\ UNCHANGED <<tables, world, job, budget>>

InExpiry(w, step) == req[w].op = "expire" /\ req[w].step = step

(* Fault: the row is saved as it was read. *)
FindNotDueAndSave(w) ==
  /\ InExpiry(w, "check")
  /\ ~Due(req[w].session)
  /\ session' = [session EXCEPT ![req[w].session].status = "PENDING"]
  /\ req' = [req EXCEPT ![w] = Idle]
  /\ UNCHANGED <<cart, resv, quota, wallet, orders, world, job, budget>>

FindNotDue(w) ==
  /\ InExpiry(w, "check")
  /\ ~Due(req[w].session)
  /\ req' = [req EXCEPT ![w] = Idle]
  /\ UNCHANGED <<tables, world, job, budget>>

(* Fault: the status is changed in memory only. *)
ExpireSessionUnsaved(w) ==
  /\ InExpiry(w, "check")
  /\ Due(req[w].session)
  /\ req' = [req EXCEPT ![w].step = "release"]
  /\ UNCHANGED <<tables, world, job, budget>>

(* session.save(update_fields=["status"]): whatever the row says by now *)
ExpireSession(w) ==
  /\ InExpiry(w, "check")
  /\ Due(req[w].session)
  /\ session' = ExpiredSessions({req[w].session})
  /\ req' = [req EXCEPT ![w].step = "release"]
  /\ UNCHANGED <<cart, resv, quota, wallet, orders, world, job, budget>>

ExpireQuota(w) ==
  /\ InExpiry(w, "release")
  /\ Release({req[w].session})
  /\ req' = [req EXCEPT ![w] = IF req[w].seen = "CHECKED_OUT"
                               THEN [req[w] EXCEPT !.step = "abandon"]
                               ELSE Idle]
  /\ UNCHANGED <<cart, session, wallet, orders, world, job, budget>>

ExpireQuotaFails(w) ==
  /\ InExpiry(w, "release")
  /\ ~Releasable({req[w].session})
  /\ req' = [req EXCEPT ![w] = Idle]
  /\ UNCHANGED <<tables, world, job, budget>>

ExpireCart(w) ==
  /\ InExpiry(w, "abandon")
  /\ ~RowLocked(session[req[w].session].cart)
  /\ cart' = [cart EXCEPT ![session[req[w].session].cart].status = "ABANDONED"]
  /\ req' = [req EXCEPT ![w] = Idle]
  /\ UNCHANGED <<session, resv, quota, wallet, orders, world, job, budget>>

-----------------------------------------------------------------------------
(* Cancel and consume: one transaction that locks the session row.  An     *)
(* expiry they find is rolled back by the exception that reports it.       *)

(* _release_checked_out_cart: the statuses that cart c of user u can get.  *)
(* Another ACTIVE cart that it finds stays locked; one that is inserted    *)
(* after it looked makes the constraint refuse ACTIVE.                     *)
GivenBack(u, c) ==
  CASE cart[c].status # "CHECKED_OUT" -> {cart[c].status}
    [] cart[c].status = "CHECKED_OUT" /\ ActiveCarts(u) \ {c} # {} -> {"ABANDONED", "ACTIVE"}
    [] cart[c].status = "CHECKED_OUT" /\ ActiveCarts(u) \ {c} = {} -> {"ACTIVE"}

CancelSession(s) ==
  /\ Unexpired(s)
  /\ ~RowLocked(session[s].cart)
  /\ session' = [session EXCEPT ![s].status = "CANCELLED"]
  /\ Release({s})
  /\ \E st \in GivenBack(Owner(s), session[s].cart) :
       /\ st = "ACTIVE" => Unique(Owner(s), session[s].cart)
       /\ cart' = [cart EXCEPT ![session[s].cart].status = st]
  /\ UNCHANGED <<wallet, orders, world, req, job, budget>>

(* Fault: what has a limit now, not what was reserved. *)
SoldByQuota(s) == Limited(session[s].lines)

(* The items commit_quota_for_checkout_session sells, and the quotas after *)
(* the reserve (if no reservation row exists) and the commit.              *)
Sold(s) == IF HasRows(s) THEN {i \in Items : resv[s][i] = "RESERVED"}
                         ELSE Limited(session[s].lines)

CommittedQuota(s) ==
  [i \in Items |->
     IF i \notin Sold(s) THEN quota[i]
     ELSE IF HasRows(s)
          THEN [quota[i] EXCEPT !.reserved = Max({@ - session[s].lines[i], 0})]
          ELSE [quota[i] EXCEPT !.remaining = @ - session[s].lines[i]]]

Debited(s) == [wallet EXCEPT ![Owner(s)].balance = @ - Amount(s)]

ConsumeSession(s) ==
  LET u == Owner(s)
  IN /\ Unexpired(s)
     /\ ~RowLocked(session[s].cart)
     /\ s \notin orders
     /\ listed
     /\ HasRows(s) \/ CanReserve(session[s].lines)
     /\ CanPay(u, Amount(s))
     /\ orders' = orders \union {s}
     /\ wallet' = Debited(s)
     /\ session' = [session EXCEPT ![s].status = "CONSUMED"]
     /\ quota' = CommittedQuota(s)
     /\ resv' = [resv EXCEPT ![s] =
                   [i \in Items |-> IF i \in Sold(s) THEN "COMMITTED" ELSE resv[s][i]]]
     /\ cart' = [cart EXCEPT ![session[s].cart].status = "CONVERTED"]
     /\ UNCHANGED <<world, req, job, budget>>

-----------------------------------------------------------------------------
(* cleanup_checkout_sessions: select ids, then lock, expire and release    *)
(* all of them in one transaction.  The carts are left as they are.        *)

(* Fault: strictly later than the latest deadline. *)
StaleStrictly == {s \in Sessions : Live(s) /\ s < clock}

Stale == {s \in Sessions : Live(s) /\ Due(s)}

CleanupSelect ==
  /\ job = {}
  /\ job' \in kSubset(Min({CleanupLimit, Cardinality(Stale)}), Stale)
  /\ UNCHANGED <<tables, world, req, budget>>

CleanupApply ==
  LET B == {s \in job : Live(s)}
  IN /\ job # {}
     /\ job' = {}
     /\ Release(B)
     /\ session' = ExpiredSessions(B)
     /\ UNCHANGED <<cart, wallet, orders, world, req, budget>>

CleanupFails ==
  /\ job # {}
  /\ ~Releasable({s \in job : Live(s)})
  /\ job' = {}
  /\ UNCHANGED <<tables, world, req, budget>>

-----------------------------------------------------------------------------
(* The rest of the system, as far as it touches these rows *)

(* MenuItemWriteSerializer._sync_quota: reads the row unlocked, then       *)
(* writes every column of it, the ones the PATCH does not mention from     *)
(* what it read.                                                           *)
ReadQuota(w, i) ==
  /\ req[w] = Idle
  /\ quotaEdits < MaxQuotaEdits
  /\ quotaEdits' = quotaEdits + 1
  /\ req' = [req EXCEPT ![w] = [op |-> "quota", item |-> i, row |-> quota[i]]]
  /\ UNCHANGED <<tables, world, job, edits, crashes>>

WriteQuota(w) ==
  /\ req[w].op = "quota"
  /\ \E patch \in QuotaPatches,
        e \in BOOLEAN, t, r \in 0 .. Stock :
       LET row       == req[w].row
           enabled   == IF "enabled" \in patch THEN e ELSE row.enabled
           total     == IF "total" \in patch THEN t ELSE row.total
           remaining == CASE "remaining" \in patch        -> r
                          [] "enabled" \in patch /\ e    -> total   \* refilled
                          [] OTHER                        -> row.remaining
       IN /\ remaining <= total
          /\ quota' = [quota EXCEPT ![req[w].item] =
                         [enabled |-> enabled, total |-> total,
                          remaining |-> remaining, reserved |-> row.reserved]]
  /\ req' = [req EXCEPT ![w] = Idle]
  /\ UNCHANGED <<cart, session, resv, wallet, orders, world, job, budget>>

Edited == edits < MaxEdits /\ edits' = edits + 1

UpdatePrice(i, p) ==
  /\ Edited
  /\ price' = [price EXCEPT ![i] = p]
  /\ UNCHANGED <<tables, listed, clock, req, job, quotaEdits, crashes>>

SetListed ==
  /\ Edited
  /\ listed' = ~listed
  /\ UNCHANGED <<tables, price, clock, req, job, quotaEdits, crashes>>

(* restrict_wallet and release_wallet_restriction, called by reversals *)
SetWalletActive(u) ==
  /\ Edited
  /\ wallet' = [wallet EXCEPT ![u].active = ~@]
  /\ UNCHANGED <<cart, session, resv, quota, orders, world, req, job, quotaEdits, crashes>>

DeadlinePasses ==
  /\ clock < MaxSessions
  /\ session[clock + 1].status # "NONE"
  /\ clock' = clock + 1
  /\ UNCHANGED <<tables, price, listed, req, job, budget>>

Crashed == crashes < MaxCrashes /\ crashes' = crashes + 1

CrashRequest(w) ==
  /\ req[w] # Idle
  /\ Crashed
  /\ req' = [req EXCEPT ![w] = Idle]
  /\ UNCHANGED <<tables, world, job, edits, quotaEdits>>

CrashJob ==
  /\ job # {}
  /\ Crashed
  /\ job' = {}
  /\ UNCHANGED <<tables, world, req, edits, quotaEdits>>

-----------------------------------------------------------------------------
Init ==
  /\ cart = [c \in Carts |-> NoCart]
  /\ session = [s \in Sessions |-> NoSession]
  /\ resv = [s \in Sessions |-> NoResv]
  /\ quota \in [Items -> [enabled : BOOLEAN, total : {Stock},
                          remaining : {Stock}, reserved : {0}]]
  /\ wallet = [u \in Users |-> [balance |-> Funds, active |-> TRUE]]
  /\ orders = {}
  /\ price \in [Items -> Prices]
  /\ listed = TRUE
  /\ clock = 0
  /\ req = [w \in Workers |-> Idle]
  /\ job = {}
  /\ edits = 0 /\ quotaEdits = 0 /\ crashes = 0

CartApi ==
  \E u \in Users :
     \/ ClearCart(u) \/ ViewCart(u)
     \/ \E i \in Items : AddItem(u, i) \/ UpdateItemQuantity(u, i) \/ RemoveItem(u, i)

Checkouts ==
  \E w \in Workers :
     \/ \E u \in Users : LoadCart(w, u)
     \/ PriceCheckout(w) \/ ReuseSession(w) \/ OpenSession(w) \/ RefuseCheckout(w)

LazyExpiry ==
  \E w \in Workers :
     \/ \E s \in Sessions : ReadSession(w, s)
     \/ FindNotDue(w) \/ ExpireSession(w) \/ ExpireCart(w)
     \/ ExpireQuota(w) \/ ExpireQuotaFails(w)

Endings == \E s \in Sessions : CancelSession(s) \/ ConsumeSession(s)

Cleanup == CleanupSelect \/ CleanupApply \/ CleanupFails

Others ==
  \/ \E w \in Workers : WriteQuota(w) \/ \E i \in Items : ReadQuota(w, i)
  \/ \E i \in Items, p \in Prices : UpdatePrice(i, p)
  \/ \E u \in Users : SetWalletActive(u)
  \/ SetListed \/ DeadlinePasses

Crashes == CrashJob \/ \E w \in Workers : CrashRequest(w)

Next == CartApi \/ Checkouts \/ LazyExpiry \/ Endings \/ Cleanup \/ Others \/ Crashes

(* Celery beat starts the cleanup job every five minutes and a run that    *)
(* does not crash goes to its end; so does a request.                      *)
Fairness ==
  /\ WF_vars(CleanupSelect)
  /\ WF_vars(CleanupApply \/ CleanupFails)
  /\ \A w \in Workers : WF_vars(ExpireSession(w) \/ ExpireQuota(w) \/ ExpireCart(w))

Spec     == Init /\ [][Next]_vars
FairSpec == Spec /\ Fairness

-----------------------------------------------------------------------------
(* Properties *)

RowsOK ==
  /\ cart \in [Carts -> [status : CartStatus, user : Users \union {Nobody}, lines : Lines]]
  /\ session \in [Sessions -> [status : SessionStatus, cart : Carts \union {0}, lines : Lines,
                               prices : [Items -> Prices \union {0}]]]
  /\ resv \in [Sessions -> [Items -> ResvStatus]]
  /\ orders \subseteq Sessions
  /\ price \in [Items -> Prices]
  /\ listed \in BOOLEAN
  /\ clock \in 0 .. MaxSessions
  /\ job \subseteq Sessions

RequestOK(r) ==
  \/ r = Idle
  \/ r \in [op : {"create"}, cart : Carts]
  \/ r \in [op : {"open"}, cart : Carts, prices : [Items -> Prices],
            reuse : Sessions \union {0}]
  \/ r \in [op : {"expire"}, step : {"check", "release", "abandon"},
            session : Sessions, seen : CartStatus]
  \/ r.op = "quota" /\ r.item \in Items

(* Every row and every request has the shape its table or handler gives    *)
(* it, and no quota counter or balance is ever negative.                   *)
TypeOK ==
  /\ RowsOK
  /\ \A w \in Workers : RequestOK(req[w])
  /\ \A i \in Items : /\ quota[i].enabled \in BOOLEAN
                      /\ quota[i].remaining \in 0 .. quota[i].total
                      /\ quota[i].reserved \in Nat
  /\ \A u \in Users : wallet[u].balance \in Nat /\ wallet[u].active \in BOOLEAN

Units(i, st) ==
  SumFunction([s \in {t \in Sessions : resv[t][i] = st} |-> session[s].lines[i]])

(* Quota is conserved by every interleaving of reserve, release and commit *)
(* (services_quota.py): a unit is for sale, reserved by a reservation row  *)
(* or sold, and the two counters of the row say how many.                  *)
QuotaConserved ==
  \A i \in Items :
     /\ quota[i].reserved = Units(i, "RESERVED")
     /\ quota[i].remaining + quota[i].reserved + Units(i, "COMMITTED") = quota[i].total

(* A session that can still be consumed has not given back or sold any of  *)
(* what it reserved: _consume_cart_checkout_session takes an existing      *)
(* reservation row for a valid one without looking at its status.          *)
LiveHoldsItsQuota ==
  \A s \in Sessions : Live(s) =>
     \A i \in Items : resv[s][i] \in {"NONE", "RESERVED"}

(* The quota of an order is sold, and quota is sold only to orders, even   *)
(* when an expiry on a GET path writes over the session row afterwards.    *)
OrdersSellTheirQuota ==
  \A s \in Sessions, i \in Items :
     /\ s \in orders => resv[s][i] \in {"NONE", "COMMITTED"}
     /\ resv[s][i] = "COMMITTED" => s \in orders

(* Wallet.balance has paid each order's amount once and nothing else.      *)
WalletPaysEachOrderOnce ==
  \A u \in Users :
     wallet[u].balance
       + SumFunction([s \in {t \in orders : Owner(t) = u} |-> Amount(s)]) = Funds

(* The sessions that _expire_if_needed has left EXPIRED with quota still   *)
(* reserved, and that no request is about to release.                      *)
Stranded ==
  {s \in Sessions : /\ session[s].status = "EXPIRED"
                    /\ \E i \in Items : resv[s][i] = "RESERVED"
                    /\ ~\E w \in Workers : InExpiry(w, "release") /\ req[w].session = s}

(* EXPIRED is committed before the quota is given back, and no other path  *)
(* takes up an ended session; but as long as the business edits no quota,  *)
(* only a request that dies between the two leaves quota behind: not two   *)
(* requests that expire one session, nor a cleanup, a cancel or a restored *)
(* cart that comes between, and each death leaves one session at most.     *)
StrandedByDeaths == quotaEdits = 0 => Cardinality(Stranded) <= crashes

(* A session that has ended stays ended: no stale write revives it, so     *)
(* what was given back cannot be consumed.                                 *)
NeverRevived ==
  [][\A s \in Sessions : session[s].status \in Ended => session'[s].status \in Ended]_vars

(* The promise about stock, implemented by reservations and orders.        *)
Promise == INSTANCE StockPromise WITH claim <- resv, sold <- orders
KeepsStockPromise == Promise!Spec

(* The cleanup job ends every session whose deadline has passed, whether   *)
(* or not anybody looks at it again.                                       *)
DeadlinesAreEnforced ==
  \A s \in Sessions : (Live(s) /\ Due(s)) ~> ~Live(s)

(* ... and the quota it held goes back on sale.                            *)
ExpiredQuotaReturns ==
  \A s \in Sessions, i \in Items :
     (Due(s) /\ resv[s][i] = "RESERVED") ~> (resv[s][i] # "RESERVED")

-----------------------------------------------------------------------------
(* What the repository says of the program and the code does not do *)

(* SPRINT2_CART_BACKED_CHECKOUT.md: "Checkout session is created from      *)
(* active cart snapshot."  create_checkout_session checks the status of    *)
(* the cart object it was given, which the row may have lost since.        *)
SessionsComeFromActiveCarts ==
  [][\A s \in Sessions :
       session[s].status = "NONE" /\ session'[s].status = "PENDING"
         => cart[session'[s].cart].status = "ACTIVE"]_vars

(* A consumed session stays CONSUMED (test_cleanup_checkout_sessions_      *)
(* command.py: "does not overwrite consumed sessions").                    *)
ConsumedStaysConsumed ==
  [][\A s \in Sessions :
       session[s].status = "CONSUMED" => session'[s].status = "CONSUMED"]_vars

(* "expired checkout releases reserved quota once" (test_menu_quota_flow): *)
(* a session that is EXPIRED, and not being expired just now, holds none.  *)
ExpiredHoldsNoQuota ==
  \A s \in Sessions :
     session[s].status = "EXPIRED" =>
        \/ \A i \in Items : resv[s][i] # "RESERVED"
        \/ \E w \in Workers : InExpiry(w, "release") /\ req[w].session = s
=============================================================================
