--------------------------- MODULE CheckoutProofs ---------------------------
(***************************************************************************)
(* What holds of Checkout for every number of customers, items, request    *)
(* threads, carts and sessions.  The inductive invariant Consistent says   *)
(* what reservation rows, orders and the requests in flight have to do     *)
(* with the status of a session.  On it rest four more, about amounts:     *)
(* Counters (no counter and no balance goes below zero), Unedited (until a *)
(* quota is edited, its counters are the sums of those rows), Placed (who  *)
(* pays for an order does not change) and Deaths (sessions left with their *)
(* quota are no more than the processes that died), and with them the      *)
(* theorems about sums.                                                    *)
(***************************************************************************)
EXTENDS Checkout, SumTheorems, FiniteSetTheorems, TLAPS

(* Shapes.  A request thread's memory names rows of the tables.            *)
Typed ==
  /\ RowsOK
  /\ req = [w \in Workers |-> req[w]]
  /\ \A w \in Workers : RequestOK(req[w])

(* A session points to a cart.                                             *)
Filed == \A s \in Sessions : session[s].status # "NONE" => session[s].cart \in Carts

(* What a session's status says of its reservation rows and its order.  An *)
(* order's session has ended, and a stale write never makes it live again. *)
SessionOK(s) ==
  /\ session[s].status = "NONE" => resv[s] = NoResv /\ s \notin orders
  /\ Live(s) => s \notin orders /\ \A i \in Items : resv[s][i] \in {"NONE", "RESERVED"}
  /\ s \in orders => \A i \in Items : resv[s][i] \in {"NONE", "COMMITTED"}
  /\ \A i \in Items : resv[s][i] = "COMMITTED" => s \in orders

(* An expiry on a GET path is of an allocated session, and gives back its  *)
(* quota and its cart only after it has ended the session.                 *)
ExpiryOK(r) ==
  r.op = "expire" => /\ session[r.session].status # "NONE"
                     /\ r.step # "check" => session[r.session].status \in Ended

(* A checkout that is about to reuse a session holds the lock of that      *)
(* session's cart, so nobody can have consumed it since.                   *)
ReuseOK(r) ==
  r.op = "open" /\ r.reuse # 0 => /\ session[r.reuse].status # "NONE"
                                  /\ session[r.reuse].cart = r.cart
                                  /\ r.reuse \notin orders

Lives ==
  /\ Filed
  /\ \A s \in Sessions : SessionOK(s)
  /\ \A w \in Workers : ExpiryOK(req[w]) /\ ReuseOK(req[w])

Consistent == Typed /\ Lives

-----------------------------------------------------------------------------
(* Lemmas about the operators *)

LEMMA StatusFacts ==
  /\ {"ACTIVE", "CHECKED_OUT", "ABANDONED", "CONVERTED"} \subseteq CartStatus
  /\ Ended \subseteq SessionStatus
  /\ "PENDING" \in SessionStatus \ Ended
  /\ "NONE" \in SessionStatus \ Ended
BY DEF Ended, SessionStatus, CartStatus

(* ExpiredSessions(B) is a table of sessions that differs in status only,  *)
(* and only for the sessions of B.                                         *)
LEMMA ExpiredSessionsType ==
  ASSUME RowsOK, NEW B \in SUBSET Sessions
  PROVE  /\ ExpiredSessions(B) \in [Sessions -> [status : SessionStatus,
                                     cart : Carts \union {0}, lines : Lines,
                                     prices : [Items -> Prices \union {0}]]]
         /\ \A s \in Sessions :
              /\ s \in B => ExpiredSessions(B)[s].status = "EXPIRED"
              /\ s \notin B => ExpiredSessions(B)[s] = session[s]
              /\ ExpiredSessions(B)[s].cart = session[s].cart
BY DEF RowsOK, ExpiredSessions, SessionStatus

(* ReleasedResv(B) turns the RESERVED rows of B into RELEASED ones.        *)
LEMMA ReleasedResvType ==
  ASSUME RowsOK, NEW B \in SUBSET Sessions
  PROVE  /\ ReleasedResv(B) \in [Sessions -> [Items -> ResvStatus]]
         /\ \A s \in Sessions : s \notin B => ReleasedResv(B)[s] = resv[s]
         /\ \A s \in Sessions, i \in Items :
              /\ resv[s][i] # "RESERVED" => ReleasedResv(B)[s][i] = resv[s][i]
              /\ resv[s][i] = "RESERVED" =>
                   ReleasedResv(B)[s][i] \in {"RESERVED", "RELEASED"}
BY DEF RowsOK, ReleasedResv, ResvStatus

(* Setting the status of one cart leaves everything else of the table.     *)
LEMMA CartStatusSet ==
  ASSUME RowsOK, NEW k, NEW st \in CartStatus
  PROVE  /\ [cart EXCEPT ![k].status = st] \in
              [Carts -> [status : CartStatus, user : Users \union {Nobody}, lines : Lines]]
         /\ \A d \in Carts :
              /\ [cart EXCEPT ![k].status = st][d].user = cart[d].user
              /\ d = k => [cart EXCEPT ![k].status = st][d].status = st
              /\ d # k => [cart EXCEPT ![k].status = st][d] = cart[d]
<1> DEFINE new == [cart EXCEPT ![k].status = st]
           C   == [status : CartStatus, user : Users \union {Nobody}, lines : Lines]
<1>1. cart \in [Carts -> C]
  BY DEF RowsOK
<1>2. ASSUME NEW d \in Carts
      PROVE  /\ [cart[d] EXCEPT !.status = st] \in C
             /\ [cart[d] EXCEPT !.status = st].user = cart[d].user
             /\ [cart[d] EXCEPT !.status = st].status = st
  BY <1>1
<1>3. ASSUME NEW d \in Carts
      PROVE  new[d] = IF d = k THEN [cart[d] EXCEPT !.status = st] ELSE cart[d]
  BY <1>1
<1>4. new = [d \in Carts |-> new[d]]
  BY <1>1
<1> QED BY <1>1, <1>2, <1>3, <1>4

LEMMA SessionStatusSet ==
  ASSUME RowsOK, NEW k \in Sessions, NEW st \in SessionStatus
  PROVE  /\ [session EXCEPT ![k].status = st] \in
              [Sessions -> [status : SessionStatus, cart : Carts \union {0}, lines : Lines,
                            prices : [Items -> Prices \union {0}]]]
         /\ \A s \in Sessions :
              /\ [session EXCEPT ![k].status = st][s].cart = session[s].cart
              /\ s = k => [session EXCEPT ![k].status = st][s].status = st
              /\ s # k => [session EXCEPT ![k].status = st][s] = session[s]
BY DEF RowsOK

(* Reserving touches the rows of s only, and only if there are none yet.   *)
LEMMA Reserved ==
  ASSUME RowsOK, NEW s \in Sessions, NEW l, Reserve(s, l)
  PROVE  /\ resv' \in [Sessions -> [Items -> ResvStatus]]
         /\ \A t \in Sessions : t # s => resv'[t] = resv[t]
         /\ \/ resv' = resv
            \/ /\ resv[s] = NoResv
               /\ \A i \in Items : resv'[s][i] \in {"NONE", "RESERVED"}
<1>1. CASE HasRows(s) /\ UNCHANGED <<quota, resv>>
  BY <1>1 DEF RowsOK
<1>2. CASE ~HasRows(s) /\ resv' = [resv EXCEPT ![s] =
             [i \in Items |-> IF i \in Limited(l) THEN "RESERVED" ELSE "NONE"]]
  <2>1. [i \in Items |-> IF i \in Limited(l) THEN "RESERVED" ELSE "NONE"]
          \in [Items -> ResvStatus]
    BY DEF ResvStatus
  <2>2. resv \in [Sessions -> [Items -> ResvStatus]]
    BY DEF RowsOK
  <2> QED BY <1>2, <2>1, <2>2 DEF HasRows
<1> QED BY <1>1, <1>2 DEF Reserve

(* A cart that _get_active_cart returns is the user's own.                 *)
LEMMA OpenedCart ==
  ASSUME Typed, Filed, NEW u \in Users, NEW c \in Carts, NEW B \in SUBSET Sessions,
         Opened(u, c, B)
  PROVE  /\ cart[c].user = u
         /\ cart[c].status \in {"ACTIVE", "CHECKED_OUT"}
         /\ \A d \in ActiveCarts(u) : d = c \/ c \in ActiveCarts(u)
         /\ \A s \in B : Live(s)
BY DEF Typed, Filed, Opened, ActiveCarts, Restorable, Owner

(* What all the calls of the cart API and the first half of a checkout     *)
(* come down to: a cart is opened or inserted, and saved with some lines.  *)
CartSaved(u, c, B) ==
  /\ Opened(u, c, B) \/ Inserted(u, c, B)
  /\ \E l \in Lines : SaveCart(u, c, B, l)
  /\ \/ UNCHANGED req
     \/ \E w \in Workers : /\ req[w] = Idle
                           /\ req' = [req EXCEPT ![w] = [op |-> "create", cart |-> c]]

LEMMA CartCalls ==
  ASSUME Typed, Filed,
         CartApi \/ \E w \in Workers, u \in Users : LoadCart(w, u)
  PROVE  \E u \in Users, c \in Carts, B \in SUBSET Sessions : CartSaved(u, c, B)
<1> USE BoundsAssumption
<1>1. ASSUME NEW u \in Users, NEW c \in Carts, NEW B \in SUBSET Sessions
      PROVE  /\ cart[c].lines \in Lines
             /\ NoLines \in Lines
             /\ \A i \in Items, q \in 0 .. MaxQuantity :
                  [cart[c].lines EXCEPT ![i] = q] \in Lines
  BY DEF Typed, RowsOK, Lines, NoLines
<1>2. ASSUME NEW u \in Users, ClearCart(u)
      PROVE  \E c \in Carts, B \in SUBSET Sessions : CartSaved(u, c, B)
  BY <1>1, <1>2 DEF ClearCart, CartSaved
<1>3. ASSUME NEW u \in Users, ViewCart(u)
      PROVE  \E c \in Carts, B \in SUBSET Sessions : CartSaved(u, c, B)
  BY <1>1, <1>3 DEF ViewCart, CartSaved
<1>4. ASSUME NEW u \in Users, NEW i \in Items, AddItem(u, i)
      PROVE  \E c \in Carts, B \in SUBSET Sessions : CartSaved(u, c, B)
  <2>1. PICK c \in Carts, B \in SUBSET Sessions, q \in 1 .. MaxQuantity :
          /\ Opened(u, c, B) \/ Inserted(u, c, B)
          /\ cart[c].lines[i] + q <= MaxQuantity
          /\ SaveCart(u, c, B, [cart[c].lines EXCEPT ![i] = @ + q])
          /\ UNCHANGED req
    BY <1>4 DEF AddItem
  <2>2. cart[c].lines[i] + q \in 0 .. MaxQuantity
    <3>1. cart[c].lines[i] \in 0 .. MaxQuantity
      BY <1>1 DEF Lines
    <3>2. MaxQuantity \in Nat
      BY BoundsAssumption
    <3> QED BY <2>1, <3>1, <3>2
  <2>3. [cart[c].lines EXCEPT ![i] = @ + q] \in Lines
    BY <1>1, <2>2
  <2> QED BY <2>1, <2>3 DEF CartSaved
<1>5. ASSUME NEW u \in Users, NEW i \in Items, UpdateItemQuantity(u, i)
      PROVE  \E c \in Carts, B \in SUBSET Sessions : CartSaved(u, c, B)
  <2>1. PICK c \in Carts, B \in SUBSET Sessions, q \in 1 .. MaxQuantity :
          /\ Opened(u, c, B)
          /\ SaveCart(u, c, B, [cart[c].lines EXCEPT ![i] = q])
          /\ UNCHANGED req
    BY <1>5 DEF UpdateItemQuantity
  <2>2. q \in 0 .. MaxQuantity
    OBVIOUS
  <2> QED BY <1>1, <2>1, <2>2 DEF CartSaved
<1>6. ASSUME NEW u \in Users, NEW i \in Items, RemoveItem(u, i)
      PROVE  \E c \in Carts, B \in SUBSET Sessions : CartSaved(u, c, B)
  <2>1. PICK c \in Carts, B \in SUBSET Sessions :
          /\ Opened(u, c, B)
          /\ SaveCart(u, c, B, [cart[c].lines EXCEPT ![i] = 0])
          /\ UNCHANGED req
    BY <1>6 DEF RemoveItem
  <2>2. 0 \in 0 .. MaxQuantity
    OBVIOUS
  <2> QED BY <1>1, <2>1, <2>2 DEF CartSaved
<1>7. ASSUME NEW w \in Workers, NEW u \in Users, LoadCart(w, u)
      PROVE  \E c \in Carts, B \in SUBSET Sessions : CartSaved(u, c, B)
  BY <1>1, <1>7 DEF LoadCart, CartSaved
<1> QED BY <1>2, <1>3, <1>4, <1>5, <1>6, <1>7 DEF CartApi

-----------------------------------------------------------------------------
(* Every step keeps the shapes.                                            *)
LEMMA TypedStep ==
  ASSUME Typed, Filed, [Next]_vars
  PROVE  Typed'
<1> DEFINE ReqOK == /\ req = [w \in Workers |-> req[w]]
                    /\ \A w \in Workers : RequestOK(req[w])
<1> USE DEF tables, world, budget
<1>1. ASSUME NEW u \in Users, NEW c \in Carts, NEW B \in SUBSET Sessions, CartSaved(u, c, B)
      PROVE  Typed'
  <2>1. RowsOK'
    <3>1. PICK l \in Lines : SaveCart(u, c, B, l)
      BY <1>1 DEF CartSaved
    <3>2. cart' \in [Carts -> [status : CartStatus, user : Users \union {Nobody}, lines : Lines]]
      BY <3>1 DEF SaveCart, Typed, RowsOK, CartStatus
    <3>3. /\ session' \in [Sessions -> [status : SessionStatus, cart : Carts \union {0},
                             lines : Lines, prices : [Items -> Prices \union {0}]]]
          /\ resv' \in [Sessions -> [Items -> ResvStatus]]
      BY <3>1, ExpiredSessionsType, ReleasedResvType DEF SaveCart, Release, Typed
    <3> QED BY <3>1, <3>2, <3>3 DEF SaveCart, Typed, RowsOK
  <2>2. ReqOK'
    BY <1>1 DEF CartSaved, Typed, RequestOK
  <2> QED BY <2>1, <2>2 DEF Typed
<1>2. ASSUME NEW w \in Workers, ReuseSession(w)
      PROVE  Typed'
  <2>1. RowsOK'
    <3>1. req[w].reuse \in Sessions
      BY <1>2 DEF ReuseSession, Typed, RequestOK, Idle
    <3>2. resv' \in [Sessions -> [Items -> ResvStatus]]
      BY <1>2, <3>1, Reserved DEF ReuseSession, Typed
    <3> QED BY <1>2, <3>2 DEF ReuseSession, Typed, RowsOK
  <2>2. ReqOK'
    BY <1>2 DEF ReuseSession, Typed, RequestOK
  <2> QED BY <2>1, <2>2 DEF Typed
<1>3. ASSUME NEW w \in Workers, OpenSession(w)
      PROVE  Typed'
  <2>1. req[w].cart \in Carts /\ req[w].prices \in [Items -> Prices]
    BY <1>3 DEF OpenSession, Typed, RequestOK, Idle
  <2>2. PICK s \in Sessions :
          /\ Reserve(s, cart[req[w].cart].lines)
          /\ session' = [session EXCEPT ![s] =
                 [status |-> "PENDING", cart |-> req[w].cart,
                  lines |-> cart[req[w].cart].lines, prices |-> req[w].prices]]
    BY <1>3 DEF OpenSession
  <2>3. resv' \in [Sessions -> [Items -> ResvStatus]]
    BY <2>2, Reserved DEF Typed
  <2>4. session' \in [Sessions -> [status : SessionStatus, cart : Carts \union {0},
                        lines : Lines, prices : [Items -> Prices \union {0}]]]
    BY <2>1, <2>2 DEF Typed, RowsOK, SessionStatus
  <2>5. cart' \in [Carts -> [status : CartStatus, user : Users \union {Nobody}, lines : Lines]]
    <3>1. cart' = [cart EXCEPT ![req[w].cart].status = "CHECKED_OUT"]
      BY <1>3 DEF OpenSession
    <3> QED BY <3>1, CartStatusSet, StatusFacts DEF Typed
  <2>6. RowsOK'
    BY <1>3, <2>3, <2>4, <2>5 DEF OpenSession, Typed, RowsOK
  <2>7. ReqOK'
    BY <1>3 DEF OpenSession, Typed, RequestOK
  <2> QED BY <2>6, <2>7 DEF Typed
<1>4. ASSUME NEW w \in Workers, PriceCheckout(w) \/ RefuseCheckout(w)
      PROVE  Typed'
  <2>1. RowsOK'
    BY <1>4 DEF PriceCheckout, RefuseCheckout, Typed, RowsOK
  <2>2. CASE PriceCheckout(w)
    <3>1. req[w].cart \in Carts /\ price \in [Items -> Prices]
      BY <2>2 DEF PriceCheckout, Typed, RowsOK, RequestOK, Idle
    <3>2. PICK s \in Sessions \union {0} :
            req' = [req EXCEPT ![w] = [op |-> "open", cart |-> req[w].cart,
                                       prices |-> price, reuse |-> s]]
      BY <2>2 DEF PriceCheckout
    <3>3. [op |-> "open", cart |-> req[w].cart, prices |-> price, reuse |-> s] \in
            [op : {"open"}, cart : Carts, prices : [Items -> Prices], reuse : Sessions \union {0}]
      BY <3>1
    <3> QED BY <2>1, <3>2, <3>3 DEF Typed, RequestOK
  <2>3. CASE RefuseCheckout(w)
    BY <2>1, <2>3 DEF RefuseCheckout, Typed, RequestOK
  <2> QED BY <1>4, <2>2, <2>3
<1>5. ASSUME NEW w \in Workers, NEW s \in Sessions, ReadSession(w, s)
      PROVE  Typed'
  <2>1. cart[session[s].cart].status \in CartStatus
    BY <1>5, StatusFacts DEF ReadSession, Live, Filed, Typed, RowsOK
  <2>2. RowsOK'
    BY <1>5 DEF ReadSession, Typed, RowsOK
  <2>3. ReqOK'
    BY <1>5, <2>1 DEF ReadSession, Typed, RequestOK
  <2> QED BY <2>2, <2>3 DEF Typed
<1>6. ASSUME NEW w \in Workers, FindNotDue(w) \/ ExpireQuotaFails(w)
      PROVE  Typed'
  BY <1>6 DEF FindNotDue, ExpireQuotaFails, Typed, RowsOK, RequestOK
<1>7. ASSUME NEW w \in Workers, req[w].op = "expire"
      PROVE  /\ req[w] \in [op : {"expire"}, step : {"check", "release", "abandon"},
                            session : Sessions, seen : CartStatus]
             /\ \A p \in {"release", "abandon"} : [req[w] EXCEPT !.step = p] \in
                  [op : {"expire"}, step : {"check", "release", "abandon"},
                   session : Sessions, seen : CartStatus]
  BY <1>7 DEF Typed, RequestOK, Idle
<1>8. ASSUME NEW w \in Workers, ExpireSession(w)
      PROVE  Typed'
  <2>1. RowsOK'
    <3>1. {req[w].session} \in SUBSET Sessions
      BY <1>7, <1>8 DEF ExpireSession, InExpiry
    <3>2. session' \in [Sessions -> [status : SessionStatus, cart : Carts \union {0},
                          lines : Lines, prices : [Items -> Prices \union {0}]]]
      BY <1>8, <3>1, ExpiredSessionsType DEF ExpireSession, Typed
    <3> QED BY <1>8, <3>2 DEF ExpireSession, Typed, RowsOK
  <2>2. ReqOK'
    BY <1>7, <1>8 DEF ExpireSession, InExpiry, Typed, RequestOK
  <2> QED BY <2>1, <2>2 DEF Typed
<1>9. ASSUME NEW w \in Workers, ExpireQuota(w)
      PROVE  Typed'
  <2>1. RowsOK'
    <3>1. {req[w].session} \in SUBSET Sessions
      BY <1>7, <1>9 DEF ExpireQuota, InExpiry
    <3>2. resv' \in [Sessions -> [Items -> ResvStatus]]
      BY <1>9, <3>1, ReleasedResvType DEF ExpireQuota, Release, Typed
    <3> QED BY <1>9, <3>2 DEF ExpireQuota, Typed, RowsOK
  <2>2. ReqOK'
    BY <1>7, <1>9 DEF ExpireQuota, InExpiry, Typed, RequestOK
  <2> QED BY <2>1, <2>2 DEF Typed
<1>10. ASSUME NEW w \in Workers, ExpireCart(w)
       PROVE  Typed'
  <2>1. RowsOK'
    <3>1. cart' \in [Carts -> [status : CartStatus, user : Users \union {Nobody}, lines : Lines]]
      <4>1. cart' = [cart EXCEPT ![session[req[w].session].cart].status = "ABANDONED"]
        BY <1>10 DEF ExpireCart
      <4> QED BY <4>1, CartStatusSet, StatusFacts DEF Typed
    <3> QED BY <1>10, <3>1 DEF ExpireCart, Typed, RowsOK
  <2>2. ReqOK'
    BY <1>10 DEF ExpireCart, Typed, RequestOK
  <2> QED BY <2>1, <2>2 DEF Typed
<1>11. ASSUME NEW s \in Sessions, CancelSession(s)
       PROVE  Typed'
  <2>1. session[s].cart \in Carts
    BY <1>11, StatusFacts DEF CancelSession, Unexpired, Live, Filed
  <2>2. PICK st \in GivenBack(Owner(s), session[s].cart) :
          cart' = [cart EXCEPT ![session[s].cart].status = st]
    BY <1>11 DEF CancelSession
  <2>6. st \in CartStatus
    BY <2>1, <2>2 DEF GivenBack, Typed, RowsOK, CartStatus
  <2>3. RowsOK'
    <3>1. cart' \in [Carts -> [status : CartStatus, user : Users \union {Nobody}, lines : Lines]]
      BY <2>2, <2>6, CartStatusSet DEF Typed
    <3>2. resv' \in [Sessions -> [Items -> ResvStatus]]
      BY <1>11, ReleasedResvType DEF CancelSession, Release, Typed
    <3>3. session' \in [Sessions -> [status : SessionStatus, cart : Carts \union {0},
                          lines : Lines, prices : [Items -> Prices \union {0}]]]
      BY <1>11, SessionStatusSet DEF CancelSession, Typed, SessionStatus
    <3> QED BY <1>11, <3>1, <3>2, <3>3 DEF CancelSession, Typed, RowsOK
  <2>4. ReqOK'
    BY <1>11 DEF CancelSession, Typed
  <2> QED BY <2>3, <2>4 DEF Typed
<1>12. ASSUME NEW s \in Sessions, ConsumeSession(s)
       PROVE  Typed'
  <2>1. resv' \in [Sessions -> [Items -> ResvStatus]]
    BY <1>12 DEF ConsumeSession, Typed, RowsOK, ResvStatus
  <2>2. RowsOK'
    <3>1. cart' \in [Carts -> [status : CartStatus, user : Users \union {Nobody}, lines : Lines]]
      <4>1. cart' = [cart EXCEPT ![session[s].cart].status = "CONVERTED"]
        BY <1>12 DEF ConsumeSession
      <4> QED BY <4>1, CartStatusSet, StatusFacts DEF Typed
    <3>2. session' \in [Sessions -> [status : SessionStatus, cart : Carts \union {0},
                          lines : Lines, prices : [Items -> Prices \union {0}]]]
      BY <1>12, SessionStatusSet DEF ConsumeSession, Typed, SessionStatus
    <3>3. orders' \subseteq Sessions
      BY <1>12 DEF ConsumeSession, Typed, RowsOK
    <3> QED BY <1>12, <2>1, <3>1, <3>2, <3>3 DEF ConsumeSession, Typed, RowsOK
  <2>3. ReqOK'
    BY <1>12 DEF ConsumeSession, Typed
  <2> QED BY <2>2, <2>3 DEF Typed
<1>13. CASE Cleanup
  <2>1. CASE CleanupSelect
    BY <2>1 DEF CleanupSelect, kSubset, Stale, Typed, RowsOK, RequestOK
  <2>2. CASE CleanupApply
    <3>1. {s \in job : Live(s)} \in SUBSET Sessions
      BY DEF Typed, RowsOK
    <3>2. RowsOK'
      BY <2>2, <3>1, ExpiredSessionsType, ReleasedResvType
         DEF CleanupApply, Release, Typed, RowsOK
    <3> QED BY <2>2, <3>2 DEF CleanupApply, Typed
  <2>3. CASE CleanupFails
    BY <2>3 DEF CleanupFails, Typed, RowsOK, RequestOK
  <2> QED BY <1>13, <2>1, <2>2, <2>3 DEF Cleanup
<1>14. CASE Others
  <2>1. ASSUME NEW w \in Workers, NEW i \in Items, ReadQuota(w, i)
        PROVE  Typed'
    BY <2>1 DEF ReadQuota, Typed, RowsOK, RequestOK
  <2>2. ASSUME NEW w \in Workers, WriteQuota(w)
        PROVE  Typed'
    BY <2>2 DEF WriteQuota, Typed, RowsOK, RequestOK
  <2>3. ASSUME NEW i \in Items, NEW p \in Prices, UpdatePrice(i, p)
        PROVE  Typed'
    BY <2>3 DEF UpdatePrice, Typed, RowsOK, RequestOK
  <2>4. ASSUME NEW u \in Users, SetWalletActive(u)
        PROVE  Typed'
    BY <2>4 DEF SetWalletActive, Typed, RowsOK, RequestOK
  <2>5. CASE SetListed
    BY <2>5 DEF SetListed, Typed, RowsOK, RequestOK
  <2>6. CASE DeadlinePasses
    BY <2>6, BoundsAssumption DEF DeadlinePasses, Typed, RowsOK, RequestOK
  <2> QED BY <1>14, <2>1, <2>2, <2>3, <2>4, <2>5, <2>6 DEF Others
<1>15. CASE Crashes
  <2>1. CASE CrashJob
    BY <2>1 DEF CrashJob, Typed, RowsOK, RequestOK
  <2>2. ASSUME NEW w \in Workers, CrashRequest(w)
        PROVE  Typed'
    BY <2>2 DEF CrashRequest, Typed, RowsOK, RequestOK
  <2> QED BY <1>15, <2>1, <2>2 DEF Crashes
<1>16. CASE UNCHANGED vars
  BY <1>16 DEF vars, Typed, RowsOK, RequestOK
<1>17. CASE CartApi \/ \E w \in Workers, u \in Users : LoadCart(w, u)
  BY <1>1, <1>17, CartCalls
<1> QED
  BY <1>2, <1>3, <1>4, <1>5, <1>6, <1>8, <1>9, <1>10, <1>11, <1>12, <1>13, <1>14,
     <1>15, <1>16, <1>17
     DEF Next, Checkouts, LazyExpiry, Endings

-----------------------------------------------------------------------------
(* What a step can do to the sessions, their reservation rows and the      *)
(* orders, whatever action it is.                                          *)

(* s takes its quota, unless it has reservation rows already.              *)
Takes(s) ==
  \/ resv' = resv
  \/ /\ resv[s] = NoResv
     /\ \E I \in SUBSET Items :
          resv' = [resv EXCEPT ![s] = [i \in Items |-> IF i \in I THEN "RESERVED" ELSE "NONE"]]

Opens(s) ==
  /\ session[s].status = "NONE"
  /\ \E c \in Carts : \E l, p :
       /\ session' = [session EXCEPT ![s] = [status |-> "PENDING", cart |-> c,
                                             lines |-> l, prices |-> p]]
       /\ Reserve(s, l)
  /\ Takes(s)
  /\ orders' = orders

Reuses(s) ==
  /\ session[s].status # "NONE"
  /\ s \notin orders
  /\ session' = session
  /\ Reserve(s, session[s].lines)
  /\ Takes(s)
  /\ orders' = orders

(* The sessions of B, all allocated, are ended, or were before; and their  *)
(* quota is given back, or a request is about to.                          *)
Ends(B) ==
  /\ \A s \in Sessions :
       /\ s \in B => /\ session[s].status # "NONE"
                     /\ session'[s].status \in Ended
                     /\ session'[s].cart = session[s].cart
       /\ s \notin B => session'[s] = session[s]
  /\ \/ resv' = ReleasedResv(B)
     \/ resv' = resv /\ \E w \in Workers : B = {req'[w].session} /\ InExpiry(w, "release")'
  /\ orders' = orders

Sells(s) ==
  /\ Live(s)
  /\ ~RowLocked(session[s].cart)
  /\ session' = [session EXCEPT ![s].status = "CONSUMED"]
  /\ \E I \in SUBSET Items :
       /\ \A i \in Items : resv[s][i] # "NONE" => resv[s][i] = "RESERVED" /\ i \in I
       /\ resv[s] # NoResv => \A i \in I : resv[s][i] = "RESERVED"
       /\ resv' = [resv EXCEPT ![s] = [i \in Items |-> IF i \in I THEN "COMMITTED" ELSE "NONE"]]
  /\ orders' = orders \union {s}

SessionStep ==
  \/ UNCHANGED <<session, resv, orders>>
  \/ \E s \in Sessions : Opens(s) \/ Reuses(s) \/ Sells(s)
  \/ \E B \in SUBSET Sessions : Ends(B)

LEMMA ReserveTakes ==
  ASSUME NEW s \in Sessions, NEW l, Reserve(s, l)
  PROVE  Takes(s)
<1>1. Limited(l) \in SUBSET Items
  BY DEF Limited
<1> QED BY <1>1 DEF Reserve, Takes, HasRows

LEMMA StepKinds ==
  ASSUME Typed, Lives, [Next]_vars
  PROVE  SessionStep
<1> USE DEF tables, world, budget
<1>1. Filed
  BY DEF Lives
<1>2. ASSUME NEW u \in Users, NEW c \in Carts, NEW B \in SUBSET Sessions, CartSaved(u, c, B)
      PROVE  Ends(B)
  <2>1. \A s \in B : Live(s)
    BY <1>1, <1>2, OpenedCart DEF CartSaved, Inserted
  <2>2. session' = ExpiredSessions(B) /\ resv' = ReleasedResv(B) /\ orders' = orders
    BY <1>2 DEF CartSaved, SaveCart, Release
  <2> QED BY <2>1, <2>2, ExpiredSessionsType DEF Ends, Live, Ended, Typed
<1>3. ASSUME NEW w \in Workers, ReuseSession(w)
      PROVE  \E s \in Sessions : Reuses(s)
  <2>1. req[w].reuse \in Sessions
    BY <1>3 DEF ReuseSession, Typed, RequestOK, Idle
  <2>2. Takes(req[w].reuse)
    BY <1>3, <2>1, ReserveTakes DEF ReuseSession
  <2>3. ReuseOK(req[w])
    BY DEF Lives
  <2> QED BY <1>3, <2>1, <2>2, <2>3 DEF ReuseSession, ReuseOK, Reuses
<1>4. ASSUME NEW w \in Workers, OpenSession(w)
      PROVE  \E s \in Sessions : Opens(s)
  <2>1. req[w].cart \in Carts
    BY <1>4 DEF OpenSession, Typed, RequestOK, Idle
  <2>2. PICK s \in Sessions :
          /\ session[s].status = "NONE"
          /\ Reserve(s, cart[req[w].cart].lines)
          /\ session' = [session EXCEPT ![s] =
                 [status |-> "PENDING", cart |-> req[w].cart,
                  lines |-> cart[req[w].cart].lines, prices |-> req[w].prices]]
    BY <1>4 DEF OpenSession
  <2>3. Takes(s) /\ orders' = orders
    BY <1>4, <2>2, ReserveTakes DEF OpenSession
  <2> QED BY <2>1, <2>2, <2>3 DEF Opens
<1>5. ASSUME NEW w \in Workers, ExpireSession(w)
      PROVE  \E B \in SUBSET Sessions : Ends(B)
  <2>1. req[w].session \in Sessions /\ session[req[w].session].status # "NONE"
    BY <1>5 DEF ExpireSession, InExpiry, Typed, RequestOK, Idle, Lives, ExpiryOK
  <2>2. {req[w].session} \in SUBSET Sessions
    BY <2>1
  <2>3. session' = ExpiredSessions({req[w].session}) /\ resv' = resv /\ orders' = orders
    BY <1>5 DEF ExpireSession
  <2>5. InExpiry(w, "release")' /\ req'[w].session = req[w].session
    <3>1. /\ req[w] \in [op : {"expire"}, step : {"check", "release", "abandon"},
                          session : Sessions, seen : CartStatus]
          /\ req' = [req EXCEPT ![w].step = "release"]
      BY <1>5 DEF ExpireSession, InExpiry, Typed, RequestOK, Idle
    <3> QED BY <3>1 DEF InExpiry, Typed
  <2>4. Ends({req[w].session})
    BY <2>1, <2>2, <2>3, <2>5, ExpiredSessionsType DEF Ends, Ended, Typed
  <2> QED BY <2>2, <2>4
<1>6. ASSUME NEW w \in Workers, ExpireQuota(w)
      PROVE  \E B \in SUBSET Sessions : Ends(B)
  <2>1. req[w].session \in Sessions /\ session[req[w].session].status \in Ended
    BY <1>6 DEF ExpireQuota, InExpiry, Typed, RequestOK, Idle, Lives, ExpiryOK
  <2>2. resv' = ReleasedResv({req[w].session}) /\ session' = session /\ orders' = orders
    BY <1>6 DEF ExpireQuota, Release
  <2>3. Ends({req[w].session})
    BY <2>1, <2>2 DEF Ends, Ended
  <2> QED BY <2>1, <2>3
<1>7. ASSUME NEW s \in Sessions, CancelSession(s)
      PROVE  Ends({s})
  <2>1. Live(s) /\ session' = [session EXCEPT ![s].status = "CANCELLED"]
    BY <1>7 DEF CancelSession, Unexpired
  <2>2. resv' = ReleasedResv({s}) /\ orders' = orders
    BY <1>7 DEF CancelSession, Release
  <2>3. \A t \in Sessions : /\ session'[t].cart = session[t].cart
                            /\ t = s => session'[t].status = "CANCELLED"
                            /\ t # s => session'[t] = session[t]
    <3>1. "CANCELLED" \in SessionStatus
      BY DEF SessionStatus
    <3> QED BY <2>1, <3>1, SessionStatusSet DEF Typed
  <2>4. session[s].status # "NONE"
    BY <2>1 DEF Live
  <2> QED BY <2>2, <2>3, <2>4 DEF Ends, Ended
<1>8. ASSUME NEW s \in Sessions, ConsumeSession(s)
      PROVE  Sells(s)
  <2>1. Live(s) /\ SessionOK(s)
    BY <1>8 DEF ConsumeSession, Unexpired, Lives
  <2>2. Sold(s) \in SUBSET Items
    BY DEF Sold, Limited
  <2>3. resv \in [Sessions -> [Items -> ResvStatus]]
    BY DEF Typed, RowsOK
  <2>4. ASSUME NEW i \in Items
        PROVE  /\ resv[s][i] # "NONE" => resv[s][i] = "RESERVED" /\ i \in Sold(s)
               /\ i \notin Sold(s) => resv[s][i] = "NONE"
    BY <2>1 DEF SessionOK, Sold, HasRows, NoResv
  <2>5. resv[s] # NoResv => \A i \in Sold(s) : resv[s][i] = "RESERVED"
    BY DEF Sold, HasRows
  <2>6. resv' = [resv EXCEPT ![s] =
                   [i \in Items |-> IF i \in Sold(s) THEN "COMMITTED" ELSE "NONE"]]
    BY <1>8, <2>4 DEF ConsumeSession
  <2> QED BY <1>8, <2>1, <2>2, <2>4, <2>5, <2>6 DEF ConsumeSession, Sells
<1>9. CASE CleanupApply
  <2>1. {s \in job : Live(s)} \in SUBSET Sessions
    BY DEF Typed, RowsOK
  <2>2. Ends({s \in job : Live(s)})
    BY <1>9, <2>1, ExpiredSessionsType
       DEF CleanupApply, Release, Ends, Live, Ended, Typed
  <2> QED BY <2>1, <2>2 DEF SessionStep
<1>10. CASE CleanupSelect \/ CleanupFails
  BY <1>10 DEF CleanupSelect, CleanupFails, SessionStep
<1>11. CASE Others
  BY <1>11 DEF Others, ReadQuota, WriteQuota, UpdatePrice, SetWalletActive, SetListed,
               DeadlinePasses, SessionStep
<1>12. CASE Crashes
  BY <1>12 DEF Crashes, CrashJob, CrashRequest, SessionStep
<1>13. CASE UNCHANGED vars
  BY <1>13 DEF vars, SessionStep
<1>14. CASE CartApi \/ \E w \in Workers, u \in Users : LoadCart(w, u)
  BY <1>1, <1>2, <1>14, CartCalls DEF SessionStep
<1>15. ASSUME NEW w \in Workers,
              \/ PriceCheckout(w) \/ RefuseCheckout(w)
              \/ FindNotDue(w) \/ ExpireQuotaFails(w) \/ ExpireCart(w)
              \/ \E s \in Sessions : ReadSession(w, s)
       PROVE  SessionStep
  BY <1>15 DEF PriceCheckout, RefuseCheckout, FindNotDue, ExpireQuotaFails, ExpireCart, ReadSession, SessionStep
<1>16. ASSUME NEW s \in Sessions, CancelSession(s) \/ ConsumeSession(s)
       PROVE  SessionStep
  <2>1. {s} \in SUBSET Sessions
    OBVIOUS
  <2> QED BY <1>7, <1>8, <1>16, <2>1 DEF SessionStep
<1> QED
  BY <1>3, <1>4, <1>5, <1>6, <1>9, <1>10, <1>11, <1>12, <1>13, <1>14, <1>15, <1>16
     DEF Next, Checkouts, LazyExpiry, Endings, Cleanup, SessionStep

-----------------------------------------------------------------------------
(* Selling touches the status of the one session.                          *)
LEMMA SoldSession ==
  ASSUME Typed, NEW t \in Sessions, Sells(t)
  PROVE  \A s \in Sessions : /\ session'[s].cart = session[s].cart
                             /\ s = t => session'[s].status = "CONSUMED"
                             /\ s # t => session'[s] = session[s]
<1>1. session' = [session EXCEPT ![t].status = "CONSUMED"]
  BY DEF Sells
<1>2. "CONSUMED" \in SessionStatus
  BY DEF SessionStatus
<1> QED BY <1>1, <1>2, SessionStatusSet DEF Typed

(* A session that is allocated stays so, and one that has ended stays so.  *)
LEMMA EndedForGood ==
  ASSUME Typed, SessionStep, NEW s \in Sessions
  PROVE  /\ session[s].status # "NONE" => /\ session'[s].status # "NONE"
                                          /\ session'[s].cart = session[s].cart
         /\ session[s].status \in Ended => session'[s].status \in Ended
<1> USE StatusFacts
<1>1. CASE UNCHANGED <<session, resv, orders>>
  BY <1>1
<1>2. ASSUME NEW t \in Sessions, Opens(t)
      PROVE  s # t => session'[s] = session[s]
  BY <1>2 DEF Opens, Typed, RowsOK
<1>3. ASSUME NEW t \in Sessions, Sells(t)
      PROVE  /\ s # t => session'[s] = session[s]
             /\ s = t => session'[s].status = "CONSUMED" /\ session'[s].cart = session[s].cart
  BY <1>3, SoldSession
<1>4. ASSUME NEW B \in SUBSET Sessions, Ends(B)
      PROVE  session'[s] = session[s] \/ /\ session'[s].status \in Ended
                                         /\ session'[s].cart = session[s].cart
  BY <1>4 DEF Ends
<1> QED BY <1>1, <1>2, <1>3, <1>4 DEF SessionStep, Opens, Reuses, Ended

(* Every kind of step keeps what the status says of rows and orders.       *)
LEMMA SessionOKStep ==
  ASSUME Typed, Lives, SessionStep, NEW s \in Sessions
  PROVE  SessionOK(s)' /\ (session'[s].status # "NONE" => session'[s].cart \in Carts)
<1> USE StatusFacts
<1>1. SessionOK(s) /\ (session[s].status # "NONE" => session[s].cart \in Carts)
  BY DEF Lives, Filed
<1>2. ASSUME session'[s] = session[s], resv'[s] = resv[s], s \in orders' <=> s \in orders
      PROVE  SessionOK(s)' /\ (session'[s].status # "NONE" => session'[s].cart \in Carts)
  BY <1>1, <1>2 DEF SessionOK, Live
<1>3. CASE UNCHANGED <<session, resv, orders>>
  BY <1>2, <1>3
<1>4. ASSUME NEW t \in Sessions, Takes(t)
      PROVE  /\ s # t => resv'[s] = resv[s]
             /\ s = t => \/ resv'[s] = resv[s]
                         \/ /\ resv[s] = NoResv
                            /\ \A i \in Items : resv'[s][i] \in {"NONE", "RESERVED"}
  BY <1>4 DEF Takes, Typed, RowsOK
<1>5. ASSUME NEW t \in Sessions, Opens(t)
      PROVE  SessionOK(s)' /\ (session'[s].status # "NONE" => session'[s].cart \in Carts)
  <2>1. CASE s # t
    <3>1. session'[s] = session[s]
      BY <1>5, <2>1 DEF Opens, Typed, RowsOK
    <3> QED BY <1>2, <1>4, <1>5, <2>1, <3>1 DEF Opens
  <2>2. CASE s = t
    <3>1. session'[s].status = "PENDING" /\ session'[s].cart \in Carts
      BY <1>5, <2>2 DEF Opens, Typed, RowsOK
    <3>2. \A i \in Items : resv'[s][i] \in {"NONE", "RESERVED"}
      BY <1>1, <1>4, <1>5, <2>2 DEF Opens, SessionOK, NoResv
    <3>3. s \notin orders'
      BY <1>1, <1>5, <2>2 DEF Opens, SessionOK
    <3> QED BY <3>1, <3>2, <3>3 DEF SessionOK, Live
  <2> QED BY <2>1, <2>2
<1>6. ASSUME NEW t \in Sessions, Reuses(t)
      PROVE  SessionOK(s)' /\ (session'[s].status # "NONE" => session'[s].cart \in Carts)
  <2>1. CASE resv'[s] = resv[s]
    BY <1>2, <1>6, <2>1 DEF Reuses
  <2>2. CASE s = t /\ resv[s] = NoResv /\ \A i \in Items : resv'[s][i] \in {"NONE", "RESERVED"}
    BY <1>1, <1>6, <2>2 DEF Reuses, SessionOK, Live
  <2> QED BY <1>4, <1>6, <2>1, <2>2 DEF Reuses
<1>7. ASSUME NEW B \in SUBSET Sessions, Ends(B)
      PROVE  SessionOK(s)' /\ (session'[s].status # "NONE" => session'[s].cart \in Carts)
  <2>1. CASE s \notin B
    BY <1>2, <1>7, <2>1, ReleasedResvType DEF Ends, Typed
  <2>2. CASE s \in B
    <3>1. \A i \in Items : resv'[s][i] = resv[s][i] \/
                           (resv[s][i] = "RESERVED" /\ resv'[s][i] = "RELEASED")
      BY <1>7, ReleasedResvType DEF Ends, Typed, ReleasedResv
    <3>2. /\ session[s].status # "NONE"
          /\ session'[s].status \in Ended
          /\ session'[s].cart = session[s].cart
          /\ orders' = orders
      BY <1>7, <2>2 DEF Ends
    <3> QED BY <1>1, <3>1, <3>2 DEF SessionOK, Live, Ended
  <2> QED BY <2>1, <2>2
<1>8. ASSUME NEW t \in Sessions, Sells(t)
      PROVE  SessionOK(s)' /\ (session'[s].status # "NONE" => session'[s].cart \in Carts)
  <2>1. PICK I \in SUBSET Items :
          resv' = [resv EXCEPT ![t] = [i \in Items |-> IF i \in I THEN "COMMITTED" ELSE "NONE"]]
    BY <1>8 DEF Sells
  <2>2. CASE s # t
    <3>1. resv'[s] = resv[s]
      BY <2>1, <2>2 DEF Typed, RowsOK
    <3>2. session'[s] = session[s]
      BY <1>8, <2>2, SoldSession
    <3> QED BY <1>2, <1>8, <2>2, <3>1, <3>2 DEF Sells
  <2>3. CASE s = t
    <3>1. \A i \in Items : resv'[s][i] \in {"NONE", "COMMITTED"}
      BY <2>1, <2>3 DEF Typed, RowsOK
    <3>2. session'[s].status = "CONSUMED" /\ session'[s].cart = session[s].cart
      BY <1>8, <2>3, SoldSession
    <3> QED BY <1>1, <1>8, <2>3, <3>1, <3>2 DEF Sells, SessionOK, Live
  <2> QED BY <2>2, <2>3
<1> QED BY <1>3, <1>5, <1>6, <1>7, <1>8 DEF SessionStep

(* Every step of the system keeps Lives.                                   *)
LEMMA LivesStep ==
  ASSUME Typed, Lives, [Next]_vars
  PROVE  Lives'
<1>1. SessionStep
  BY StepKinds
<1>2. Filed' /\ \A s \in Sessions : SessionOK(s)'
  BY <1>1, SessionOKStep DEF Filed
<1>3. ASSUME NEW w \in Workers
      PROVE  ExpiryOK(req[w])'
  <2>1. ASSUME req'[w] = req[w]
        PROVE  ExpiryOK(req[w])'
    <3>1. CASE req[w].op = "expire"
      <4>1. req[w].session \in Sessions
        BY <3>1 DEF Typed, RequestOK, Idle
      <4> QED BY <1>1, <2>1, <3>1, <4>1, EndedForGood DEF Lives, ExpiryOK
    <3> QED BY <2>1, <3>1 DEF ExpiryOK
  <2>2. ASSUME req'[w].op # "expire"
        PROVE  ExpiryOK(req[w])'
    BY <2>2 DEF ExpiryOK
  <2>3. ASSUME NEW s \in Sessions, ReadSession(w, s)
        PROVE  ExpiryOK(req[w])'
    BY <2>3 DEF ReadSession, Live, ExpiryOK, Typed, tables
  <2>4. CASE ExpireSession(w)
    <3>1. /\ req[w] \in [op : {"expire"}, step : {"check", "release", "abandon"},
                         session : Sessions, seen : CartStatus]
          /\ req' = [req EXCEPT ![w].step = "release"]
          /\ session' = ExpiredSessions({req[w].session})
      BY <2>4 DEF ExpireSession, InExpiry, Typed, RequestOK, Idle
    <3>2. req'[w].session = req[w].session
      BY <3>1 DEF Typed
    <3>3. session'[req[w].session].status = "EXPIRED"
      BY <3>1, ExpiredSessionsType DEF Typed
    <3> QED BY <3>2, <3>3 DEF ExpiryOK, Ended
  <2>5. CASE ExpireQuota(w)
    <3>1. /\ req[w] \in [op : {"expire"}, step : {"check", "release", "abandon"},
                         session : Sessions, seen : CartStatus]
          /\ req[w].step = "release"
          /\ session' = session
      BY <2>5 DEF ExpireQuota, InExpiry, Typed, RequestOK, Idle
    <3>2. req'[w] = Idle \/ req'[w].session = req[w].session
      BY <2>5, <3>1 DEF ExpireQuota, Typed
    <3>3. session[req[w].session].status \in Ended
      BY <3>1 DEF Lives, ExpiryOK
    <3> QED BY <3>1, <3>2, <3>3 DEF ExpiryOK, Ended, Idle
  <2>6. \/ req'[w] = req[w]
        \/ req'[w].op # "expire"
        \/ \E s \in Sessions : ReadSession(w, s)
        \/ ExpireSession(w)
        \/ ExpireQuota(w)
    <3> USE DEF tables, world, budget, Idle
    <3>1. CASE CartApi \/ \E v \in Workers, u \in Users : LoadCart(v, u)
      <4>1. PICK u \in Users, c \in Carts, B \in SUBSET Sessions : CartSaved(u, c, B)
        BY <3>1, CartCalls DEF Lives
      <4> QED BY <4>1 DEF CartSaved, Typed
    <3>2. ASSUME NEW v \in Workers,
                 PriceCheckout(v) \/ ReuseSession(v) \/ OpenSession(v) \/ RefuseCheckout(v)
          PROVE  req'[w] = req[w] \/ req'[w].op # "expire"
      BY <3>2 DEF PriceCheckout, ReuseSession, OpenSession, RefuseCheckout, Typed
    <3>3. ASSUME NEW v \in Workers, FindNotDue(v) \/ ExpireCart(v) \/ ExpireQuotaFails(v)
          PROVE  req'[w] = req[w] \/ req'[w].op # "expire"
      BY <3>3 DEF FindNotDue, ExpireCart, ExpireQuotaFails, Typed
    <3>4. ASSUME NEW v \in Workers, v # w,
                 \/ \E s \in Sessions : ReadSession(v, s)
                 \/ ExpireSession(v) \/ ExpireQuota(v)
          PROVE  req'[w] = req[w]
      BY <3>4 DEF ReadSession, ExpireSession, ExpireQuota, Typed
    <3>5. CASE Endings \/ Cleanup
      BY <3>5 DEF Endings, CancelSession, ConsumeSession,
                  Cleanup, CleanupSelect, CleanupApply, CleanupFails
    <3>6. CASE Others
      BY <3>6 DEF Others, ReadQuota, WriteQuota, UpdatePrice, SetWalletActive, SetListed,
                  DeadlinePasses, Typed
    <3>7. CASE Crashes
      BY <3>7 DEF Crashes, CrashJob, CrashRequest, Typed
    <3>8. CASE UNCHANGED vars
      BY <3>8 DEF vars
    <3> QED BY <3>1, <3>2, <3>3, <3>4, <3>5, <3>6, <3>7, <3>8
            DEF Next, Checkouts, LazyExpiry
  <2> QED BY <2>1, <2>2, <2>3, <2>4, <2>5, <2>6
<1>4. ASSUME NEW w \in Workers
      PROVE  ReuseOK(req[w])'
  <2>1. ASSUME req'[w] = req[w], req[w].op = "open", req[w].reuse # 0
        PROVE  ReuseOK(req[w])'
    <3>1. req[w].reuse \in Sessions
      BY <2>1 DEF Typed, RequestOK, Idle
    <3>2. ReuseOK(req[w])
      BY DEF Lives
    <3>3. /\ session'[req[w].reuse].status # "NONE"
          /\ session'[req[w].reuse].cart = req[w].cart
      BY <1>1, <2>1, <3>1, <3>2, EndedForGood DEF ReuseOK
    <3>4. RowLocked(session[req[w].reuse].cart)
      BY <2>1, <3>2 DEF ReuseOK, RowLocked
    <3>5. req[w].reuse \notin orders'
      BY <1>1, <2>1, <3>2, <3>4 DEF SessionStep, Opens, Reuses, Sells, Ends, ReuseOK
    <3> QED BY <2>1, <3>3, <3>5 DEF ReuseOK
  <2>2. CASE PriceCheckout(w)
    <3> DEFINE c == req[w].cart
    <3>1. PICK s \in Sessions \union {0} :
            /\ s = 0 \/ s \in Reusable(c)
            /\ req' = [req EXCEPT ![w] = [op |-> "open", cart |-> c,
                                          prices |-> price, reuse |-> s]]
      BY <2>2 DEF PriceCheckout
    <3>2. /\ req'[w].reuse = s
          /\ req'[w].cart = c
      BY <3>1 DEF Typed
    <3>3. session' = session /\ orders' = orders
      BY <2>2 DEF PriceCheckout, tables
    <3>4. CASE s = 0
      BY <3>2, <3>4 DEF ReuseOK
    <3>5. CASE s \in Reusable(c)
      <4>1. s \in Sessions /\ Live(s) /\ session[s].cart = c
        BY <3>5 DEF Reusable, Unexpired
      <4>2. s \notin orders
        BY <4>1 DEF Lives, SessionOK
      <4> QED BY <3>2, <3>3, <4>1, <4>2 DEF ReuseOK, Live
    <3> QED BY <3>1, <3>4, <3>5
  <2>3. req'[w] = req[w] \/ req'[w].op # "open" \/ PriceCheckout(w)
    <3> USE DEF tables, world, budget, Idle
    <3>1. CASE CartApi \/ \E v \in Workers, u \in Users : LoadCart(v, u)
      <4>1. PICK u \in Users, c \in Carts, B \in SUBSET Sessions : CartSaved(u, c, B)
        BY <3>1, CartCalls DEF Lives
      <4> QED BY <4>1 DEF CartSaved, Typed
    <3>2. ASSUME NEW v \in Workers, ReuseSession(v) \/ OpenSession(v) \/ RefuseCheckout(v)
          PROVE  req'[w] = req[w] \/ req'[w].op # "open"
      BY <3>2 DEF ReuseSession, OpenSession, RefuseCheckout, Typed
    <3>3. ASSUME NEW v \in Workers, FindNotDue(v) \/ ExpireCart(v) \/ ExpireQuotaFails(v)
          PROVE  req'[w] = req[w] \/ req'[w].op # "open"
      BY <3>3 DEF FindNotDue, ExpireCart, ExpireQuotaFails, Typed
    <3>4. ASSUME NEW v \in Workers, NEW s \in Sessions, ReadSession(v, s)
          PROVE  req'[w] = req[w] \/ req'[w].op # "open"
      BY <3>4 DEF ReadSession, Typed
    <3>5. ASSUME NEW v \in Workers, ExpireSession(v)
          PROVE  req'[w] = req[w] \/ req'[w].op # "open"
      <4>1. /\ req[v] \in [op : {"expire"}, step : {"check", "release", "abandon"},
                           session : Sessions, seen : CartStatus]
            /\ req' = [req EXCEPT ![v].step = "release"]
        BY <3>5 DEF ExpireSession, InExpiry, Typed, RequestOK
      <4> QED BY <4>1 DEF Typed
    <3>6. ASSUME NEW v \in Workers, ExpireQuota(v)
          PROVE  req'[w] = req[w] \/ req'[w].op # "open"
      <4>1. req[v] \in [op : {"expire"}, step : {"check", "release", "abandon"},
                        session : Sessions, seen : CartStatus]
        BY <3>6 DEF ExpireQuota, InExpiry, Typed, RequestOK
      <4> QED BY <3>6, <4>1 DEF ExpireQuota, Typed
    <3>7. ASSUME NEW v \in Workers, PriceCheckout(v)
          PROVE  req'[w] = req[w] \/ PriceCheckout(w)
      BY <3>7 DEF PriceCheckout, Typed
    <3>8. CASE Endings \/ Cleanup
      BY <3>8 DEF Endings, CancelSession, ConsumeSession,
                  Cleanup, CleanupSelect, CleanupApply, CleanupFails
    <3>9. CASE Others
      BY <3>9 DEF Others, ReadQuota, WriteQuota, UpdatePrice, SetWalletActive, SetListed,
                  DeadlinePasses, Typed
    <3>10. CASE Crashes
      BY <3>10 DEF Crashes, CrashJob, CrashRequest, Typed
    <3>11. CASE UNCHANGED vars
      BY <3>11 DEF vars
    <3> QED BY <3>1, <3>2, <3>3, <3>4, <3>5, <3>6, <3>7, <3>8, <3>9, <3>10, <3>11
            DEF Next, Checkouts, LazyExpiry
  <2>4. CASE req'[w] = req[w]
    BY <2>1, <2>4 DEF ReuseOK
  <2>5. CASE req'[w].op # "open"
    BY <2>5 DEF ReuseOK
  <2> QED BY <2>2, <2>3, <2>4, <2>5
<1> QED BY <1>2, <1>3, <1>4 DEF Lives

-----------------------------------------------------------------------------
(* Quantities: the counters of the quota rows and the balances.            *)

QuotaRow == [enabled : BOOLEAN, total : Nat, remaining : Nat, reserved : Nat]

(* What a quota edit remembers of a row.                                   *)
EditOK(r) == r.op = "quota" => r.item \in Items /\ r.row \in QuotaRow

(* Rows of counters, and the edits of them under way.                      *)
Counters ==
  /\ quota \in [Items -> QuotaRow]
  /\ \A i \in Items : quota[i].remaining <= quota[i].total
  /\ wallet \in [Users -> [balance : Nat, active : BOOLEAN]]
  /\ \A w \in Workers : EditOK(req[w])

(* What a session has frozen stays as it is once the session exists.       *)
Frozen(s) ==
  session[s].status # "NONE" => /\ session'[s].cart = session[s].cart
                                /\ session'[s].lines = session[s].lines
                                /\ session'[s].prices = session[s].prices

LEMMA ExpiredSessionsFrozen ==
  ASSUME RowsOK, NEW B \in SUBSET Sessions, NEW s \in Sessions
  PROVE  /\ ExpiredSessions(B)[s].cart = session[s].cart
         /\ ExpiredSessions(B)[s].lines = session[s].lines
         /\ ExpiredSessions(B)[s].prices = session[s].prices
BY DEF RowsOK, ExpiredSessions

LEMMA StatusSetFrozen ==
  ASSUME RowsOK, NEW k \in Sessions, NEW st, NEW s \in Sessions
  PROVE  /\ [session EXCEPT ![k].status = st][s].cart = session[s].cart
         /\ [session EXCEPT ![k].status = st][s].lines = session[s].lines
         /\ [session EXCEPT ![k].status = st][s].prices = session[s].prices
BY DEF RowsOK

(* Every step is one of five as far as quotas are concerned.               *)
QuotaStep ==
  \/ UNCHANGED <<quota, resv>>
  \/ \E s \in Sessions, l \in Lines : Reserve(s, l) /\ session'[s].lines = l
  \/ \E B \in SUBSET Sessions : Release(B)
  \/ \E s \in Sessions : ConsumeSession(s)
  \/ \E w \in Workers : WriteQuota(w)

LEMMA QuotaKinds ==
  ASSUME Typed, Lives, [Next]_vars
  PROVE  QuotaStep /\ \A s \in Sessions : Frozen(s)
<1> USE DEF tables, world, budget
<1>1. Filed /\ RowsOK
  BY DEF Lives, Typed
<1>2. ASSUME NEW u \in Users, NEW c \in Carts, NEW B \in SUBSET Sessions, CartSaved(u, c, B)
      PROVE  QuotaStep /\ \A s \in Sessions : Frozen(s)
  <2>1. Release(B) /\ session' = ExpiredSessions(B)
    BY <1>2 DEF CartSaved, SaveCart
  <2> QED BY <1>1, <2>1, ExpiredSessionsFrozen DEF QuotaStep, Frozen
<1>3. ASSUME NEW w \in Workers, ReuseSession(w)
      PROVE  QuotaStep /\ \A s \in Sessions : Frozen(s)
  <2>1. req[w].reuse \in Sessions
    BY <1>3 DEF ReuseSession, Typed, RequestOK, Idle
  <2>2. session' = session /\ session[req[w].reuse].lines \in Lines
    BY <1>1, <1>3, <2>1 DEF ReuseSession, RowsOK
  <2> QED BY <1>3, <2>1, <2>2 DEF ReuseSession, QuotaStep, Frozen
<1>4. ASSUME NEW w \in Workers, OpenSession(w)
      PROVE  QuotaStep /\ \A s \in Sessions : Frozen(s)
  <2>1. req[w].cart \in Carts
    BY <1>4 DEF OpenSession, Typed, RequestOK, Idle
  <2> DEFINE l == cart[req[w].cart].lines
  <2>2. l \in Lines
    BY <1>1, <2>1 DEF RowsOK
  <2>3. PICK s \in Sessions :
          /\ session[s].status = "NONE"
          /\ Reserve(s, l)
          /\ session' = [session EXCEPT ![s] =
                 [status |-> "PENDING", cart |-> req[w].cart, lines |-> l, prices |-> req[w].prices]]
    BY <1>4 DEF OpenSession
  <2> HIDE DEF l
  <2>4. session'[s].lines = l /\ \A t \in Sessions \ {s} : session'[t] = session[t]
    BY <1>1, <2>3 DEF RowsOK
  <2> QED BY <2>2, <2>3, <2>4 DEF QuotaStep, Frozen
<1>5. ASSUME NEW w \in Workers, ExpireSession(w)
      PROVE  QuotaStep /\ \A s \in Sessions : Frozen(s)
  <2>1. req[w].session \in Sessions
    BY <1>5 DEF ExpireSession, InExpiry, Typed, RequestOK, Idle
  <2>2. session' = ExpiredSessions({req[w].session}) /\ {req[w].session} \in SUBSET Sessions
    BY <1>5, <2>1 DEF ExpireSession
  <2> QED BY <1>1, <1>5, <2>2, ExpiredSessionsFrozen DEF ExpireSession, QuotaStep, Frozen
<1>6. ASSUME NEW w \in Workers, ExpireQuota(w)
      PROVE  QuotaStep /\ \A s \in Sessions : Frozen(s)
  <2>1. {req[w].session} \in SUBSET Sessions
    BY <1>6 DEF ExpireQuota, InExpiry, Typed, RequestOK, Idle
  <2> QED BY <1>6, <2>1 DEF ExpireQuota, QuotaStep, Frozen
<1>7. ASSUME NEW s \in Sessions, CancelSession(s)
      PROVE  QuotaStep /\ \A t \in Sessions : Frozen(t)
  <2>1. {s} \in SUBSET Sessions /\ Release({s})
        /\ session' = [session EXCEPT ![s].status = "CANCELLED"]
    BY <1>7 DEF CancelSession
  <2> QED BY <1>1, <2>1, StatusSetFrozen DEF QuotaStep, Frozen
<1>8. ASSUME NEW s \in Sessions, ConsumeSession(s)
      PROVE  QuotaStep /\ \A t \in Sessions : Frozen(t)
  <2>1. session' = [session EXCEPT ![s].status = "CONSUMED"]
    BY <1>8 DEF ConsumeSession
  <2> QED BY <1>1, <1>8, <2>1, StatusSetFrozen DEF QuotaStep, Frozen
<1>9. CASE CleanupApply
  <2>1. {s \in job : Live(s)} \in SUBSET Sessions
    BY <1>1 DEF RowsOK
  <2> QED BY <1>1, <1>9, <2>1, ExpiredSessionsFrozen DEF CleanupApply, QuotaStep, Frozen
<1>10. CASE CleanupSelect \/ CleanupFails
  BY <1>10 DEF CleanupSelect, CleanupFails, QuotaStep, Frozen
<1>11. CASE Others
  BY <1>11 DEF Others, ReadQuota, WriteQuota, UpdatePrice, SetWalletActive, SetListed,
               DeadlinePasses, QuotaStep, Frozen
<1>12. CASE Crashes
  BY <1>12 DEF Crashes, CrashJob, CrashRequest, QuotaStep, Frozen
<1>13. CASE UNCHANGED vars
  BY <1>13 DEF vars, QuotaStep, Frozen
<1>14. CASE CartApi \/ \E w \in Workers, u \in Users : LoadCart(w, u)
  BY <1>1, <1>2, <1>14, CartCalls
<1>15. ASSUME NEW w \in Workers,
              \/ PriceCheckout(w) \/ RefuseCheckout(w)
              \/ FindNotDue(w) \/ ExpireQuotaFails(w) \/ ExpireCart(w)
              \/ \E s \in Sessions : ReadSession(w, s)
       PROVE  QuotaStep /\ \A s \in Sessions : Frozen(s)
  BY <1>15 DEF PriceCheckout, RefuseCheckout, FindNotDue, ExpireQuotaFails, ExpireCart, ReadSession,
               QuotaStep, Frozen
<1> QED
  BY <1>3, <1>4, <1>5, <1>6, <1>7, <1>8, <1>9, <1>10, <1>11, <1>12, <1>13, <1>14, <1>15
     DEF Next, Checkouts, LazyExpiry, Endings, Cleanup

SessionRow == [status : SessionStatus, cart : Carts \union {0}, lines : Lines,
               prices : [Items -> Prices \union {0}]]

(* What the sessions of a table ask for of an item.                        *)
Asked(ses, i) == [s \in Sessions |-> ses[s].lines[i]]

LEMMA SessionsFinite == \A S \in SUBSET Sessions : IsFiniteSet(S)
<1>1. IsFiniteSet(1 .. MaxSessions)
  BY FS_Interval, BoundsAssumption
<1> QED BY <1>1, FS_Subset DEF Sessions

LEMMA LinesSum ==
  ASSUME NEW ses \in [Sessions -> SessionRow], NEW i \in Items, NEW S \in SUBSET Sessions
  PROVE  /\ SumFunction([s \in S |-> ses[s].lines[i]]) = SumFunctionOnSet(Asked(ses, i), S)
         /\ SumFunction([s \in S |-> ses[s].lines[i]]) \in Nat
<1> DEFINE f == [s \in S |-> ses[s].lines[i]]
<1>1. \A s \in Sessions : ses[s].lines[i] \in Nat
  BY BoundsAssumption DEF SessionRow, Lines
<1>2. DOMAIN f = S /\ \A s \in S : f[s] = Asked(ses, i)[s] /\ f[s] \in Nat
  BY <1>1 DEF Asked
<1> HIDE DEF f
<1> QED BY <1>2, SessionsFinite, SumIs DEF f

LEMMA MaxZero == \A n \in Int : Max({n, 0}) = IF n >= 0 THEN n ELSE 0
  BY DEF Max

(* The units that sessions of B hold are a number, and part of those of    *)
(* all sessions.                                                           *)
LEMMA HeldSum ==
  ASSUME RowsOK, NEW B \in SUBSET Sessions, NEW i \in Items
  PROVE  /\ HeldUnits(B, i) \in Nat
         /\ HeldUnits(B, i)
              = SumFunctionOnSet(Asked(session, i), {t \in B : resv[t][i] = "RESERVED"})
<1>1. session \in [Sessions -> SessionRow]
  BY DEF RowsOK, SessionRow
<1>2. {t \in B : resv[t][i] = "RESERVED"} \in SUBSET Sessions
  OBVIOUS
<1> QED BY <1>1, <1>2, LinesSum DEF HeldUnits

(* What a release does to a row of counters.                               *)
LEMMA ReleasedRow ==
  ASSUME RowsOK, Counters, NEW B \in SUBSET Sessions, Releasable(B), NEW i \in Items
  PROVE  /\ ReleasedQuota(B)[i] \in QuotaRow
         /\ ReleasedQuota(B)[i].enabled = quota[i].enabled
         /\ ReleasedQuota(B)[i].total = quota[i].total
         /\ ReleasedQuota(B)[i].remaining = quota[i].remaining + HeldUnits(B, i)
         /\ ReleasedQuota(B)[i].remaining <= quota[i].total
         /\ ReleasedQuota(B)[i].reserved
              = IF quota[i].reserved >= HeldUnits(B, i) THEN quota[i].reserved - HeldUnits(B, i) ELSE 0
<1> DEFINE h == HeldUnits(B, i)
<1>1. h \in Nat /\ quota[i] \in QuotaRow /\ quota[i].remaining <= quota[i].total
  BY HeldSum DEF Counters
<1>2. h > 0 => quota[i].remaining + h <= quota[i].total
  BY DEF Releasable
<1>3. ReleasedQuota(B)[i] = [quota[i] EXCEPT !.remaining = @ + h, !.reserved = Max({@ - h, 0})]
  BY DEF ReleasedQuota
<1> HIDE DEF h
<1>4. Max({quota[i].reserved - h, 0}) = IF quota[i].reserved >= h THEN quota[i].reserved - h ELSE 0
  BY <1>1, MaxZero DEF QuotaRow
<1>5. quota[i].remaining + h \in Nat /\ quota[i].remaining + h <= quota[i].total
      /\ Max({quota[i].reserved - h, 0}) \in Nat
  BY <1>1, <1>2, <1>4 DEF QuotaRow
<1> DEFINE rest == Max({quota[i].reserved - h, 0})
           more == quota[i].remaining + h
           new  == [quota[i] EXCEPT !.remaining = more, !.reserved = rest]
<1> HIDE DEF rest, more
<1>6. /\ new \in QuotaRow /\ new.enabled = quota[i].enabled /\ new.total = quota[i].total
      /\ new.remaining = more /\ new.reserved = rest
  BY <1>1, <1>5 DEF QuotaRow, rest, more
<1>7. ReleasedQuota(B)[i] = new
  BY <1>3 DEF rest, more
<1> HIDE DEF new
<1> QED BY <1>4, <1>5, <1>6, <1>7 DEF h, rest, more

LEMMA ReservedRow ==
  ASSUME Counters, NEW l \in Lines, CanReserve(l), NEW i \in Items,
         NEW row, row = IF i \in Limited(l)
                        THEN [quota[i] EXCEPT !.remaining = @ - l[i], !.reserved = @ + l[i]]
                        ELSE quota[i]
  PROVE  /\ row \in QuotaRow /\ row.total = quota[i].total /\ row.remaining <= row.total
         /\ row.remaining = quota[i].remaining - (IF i \in Limited(l) THEN l[i] ELSE 0)
         /\ row.reserved = quota[i].reserved + (IF i \in Limited(l) THEN l[i] ELSE 0)
<1>1. l[i] \in Nat
  BY BoundsAssumption DEF Lines
<1>2. quota[i] \in QuotaRow /\ quota[i].remaining <= quota[i].total
  BY DEF Counters
<1>3. i \in Limited(l) => quota[i].remaining >= l[i]
  BY DEF CanReserve
<1>4. CASE i \notin Limited(l)
  BY <1>2, <1>4 DEF QuotaRow
<1>5. CASE i \in Limited(l)
  <2> DEFINE less == quota[i].remaining - l[i]
             more == quota[i].reserved + l[i]
  <2>1. less \in Nat /\ more \in Nat /\ less <= quota[i].total
    BY <1>1, <1>2, <1>3, <1>5 DEF QuotaRow
  <2>2. row = [quota[i] EXCEPT !.remaining = less, !.reserved = more]
    BY <1>5
  <2> HIDE DEF less, more
  <2>3. /\ row \in QuotaRow /\ row.total = quota[i].total
        /\ row.remaining = less /\ row.reserved = more
    BY <1>2, <2>1, <2>2 DEF QuotaRow
  <2> QED BY <1>5, <2>1, <2>3 DEF less, more
<1> QED BY <1>4, <1>5

LEMMA CommittedRow ==
  ASSUME RowsOK, Counters, NEW s \in Sessions, NEW i \in Items,
         HasRows(s) \/ CanReserve(session[s].lines)
  PROVE  LET n == IF i \in Sold(s) THEN session[s].lines[i] ELSE 0
             row == CommittedQuota(s)[i]
         IN  /\ row \in QuotaRow /\ row.total = quota[i].total /\ row.remaining <= row.total
             /\ HasRows(s) => /\ row.remaining = quota[i].remaining
                              /\ row.reserved = IF quota[i].reserved >= n THEN quota[i].reserved - n ELSE 0
             /\ ~HasRows(s) => /\ row.remaining = quota[i].remaining - n
                               /\ row.reserved = quota[i].reserved
<1> DEFINE l == session[s].lines[i]
<1>1. l \in Nat
  BY BoundsAssumption DEF RowsOK, Lines
<1>2. quota[i] \in QuotaRow /\ quota[i].remaining <= quota[i].total
  BY DEF Counters
<1>3. ~HasRows(s) /\ i \in Sold(s) => quota[i].remaining >= l
  BY DEF CanReserve, Sold
<1>4. CommittedQuota(s)[i] =
        IF i \notin Sold(s) THEN quota[i]
        ELSE IF HasRows(s) THEN [quota[i] EXCEPT !.reserved = Max({@ - l, 0})]
        ELSE [quota[i] EXCEPT !.remaining = @ - l]
  BY DEF CommittedQuota
<1> HIDE DEF l
<1>5. Max({quota[i].reserved - l, 0}) = IF quota[i].reserved >= l THEN quota[i].reserved - l ELSE 0
  BY <1>1, <1>2, MaxZero DEF QuotaRow
<1> QED BY <1>1, <1>2, <1>3, <1>4, <1>5 DEF QuotaRow, l

(* Rows, of which each step writes one or more, keep their shape.          *)
LEMMA QuotaRowsStep ==
  ASSUME Typed, Counters, QuotaStep
  PROVE  quota' \in [Items -> QuotaRow] /\ \A i \in Items : quota'[i].remaining <= quota'[i].total
<1>1. RowsOK
  BY DEF Typed
<1>2. CASE UNCHANGED <<quota, resv>>
  BY <1>2 DEF Counters
<1>3. ASSUME NEW s \in Sessions, NEW l \in Lines, Reserve(s, l)
      PROVE  quota' \in [Items -> QuotaRow] /\ \A i \in Items : quota'[i].remaining <= quota'[i].total
  <2>1. CASE UNCHANGED quota
    BY <2>1 DEF Counters
  <2>2. CASE /\ CanReserve(l)
             /\ quota' = [i \in Items |->
                    IF i \in Limited(l)
                    THEN [quota[i] EXCEPT !.remaining = @ - l[i], !.reserved = @ + l[i]]
                    ELSE quota[i]]
    BY <2>2, ReservedRow
  <2> QED BY <1>3, <2>1, <2>2 DEF Reserve
<1>4. ASSUME NEW B \in SUBSET Sessions, Release(B)
      PROVE  quota' \in [Items -> QuotaRow] /\ \A i \in Items : quota'[i].remaining <= quota'[i].total
  <2>1. Releasable(B) /\ quota' = ReleasedQuota(B)
    BY <1>4 DEF Release
  <2>2. quota' = [i \in Items |-> quota'[i]]
    BY <2>1 DEF ReleasedQuota
  <2> QED BY <1>1, <2>1, <2>2, ReleasedRow
<1>5. ASSUME NEW s \in Sessions, ConsumeSession(s)
      PROVE  quota' \in [Items -> QuotaRow] /\ \A i \in Items : quota'[i].remaining <= quota'[i].total
  <2>1. (HasRows(s) \/ CanReserve(session[s].lines)) /\ quota' = CommittedQuota(s)
    BY <1>5 DEF ConsumeSession
  <2>2. quota' = [i \in Items |-> quota'[i]]
    BY <2>1 DEF CommittedQuota
  <2> QED BY <1>1, <2>1, <2>2, CommittedRow
<1>6. ASSUME NEW w \in Workers, WriteQuota(w)
      PROVE  quota' \in [Items -> QuotaRow] /\ \A i \in Items : quota'[i].remaining <= quota'[i].total
  <2>1. req[w].item \in Items /\ req[w].row \in QuotaRow
    BY <1>6 DEF WriteQuota, Counters, EditOK
  <2>2. PICK e \in BOOLEAN, t \in Nat, r \in Nat :
          /\ r <= t
          /\ quota' = [quota EXCEPT ![req[w].item] =
                         [enabled |-> e, total |-> t, remaining |-> r, reserved |-> req[w].row.reserved]]
    <3> DEFINE row == req[w].row
    <3>1. row.enabled \in BOOLEAN /\ row.total \in Nat /\ row.remaining \in Nat
      BY <2>1 DEF QuotaRow
    <3> HIDE DEF row
    <3>2. PICK patch \in QuotaPatches, f \in BOOLEAN, u, v \in 0 .. Stock :
            LET remaining == CASE "remaining" \in patch     -> v
                               [] "enabled" \in patch /\ f  -> IF "total" \in patch THEN u ELSE row.total
                               [] OTHER                     -> row.remaining
                total     == IF "total" \in patch THEN u ELSE row.total
            IN /\ remaining <= total
               /\ quota' = [quota EXCEPT ![req[w].item] =
                              [enabled |-> IF "enabled" \in patch THEN f ELSE row.enabled,
                               total |-> total, remaining |-> remaining, reserved |-> row.reserved]]
      BY <1>6 DEF WriteQuota, row
    <3> DEFINE total     == IF "total" \in patch THEN u ELSE row.total
               remaining == CASE "remaining" \in patch     -> v
                              [] "enabled" \in patch /\ f  -> IF "total" \in patch THEN u ELSE row.total
                              [] OTHER                     -> row.remaining
               enabled   == IF "enabled" \in patch THEN f ELSE row.enabled
    <3>3. u \in Nat /\ v \in Nat
      BY AmountsAssumption
    <3>4. total \in Nat /\ remaining \in Nat /\ enabled \in BOOLEAN
      BY <3>1, <3>3
    <3>5. /\ remaining <= total
          /\ quota' = [quota EXCEPT ![req[w].item] =
                         [enabled |-> enabled, total |-> total,
                          remaining |-> remaining, reserved |-> row.reserved]]
      BY <3>2
    <3> HIDE DEF total, remaining, enabled
    <3> QED BY <3>4, <3>5 DEF row
  <2> QED BY <2>1, <2>2 DEF Counters, QuotaRow
<1> QED BY <1>2, <1>3, <1>4, <1>5, <1>6 DEF QuotaStep

(* What an order costs is a number.                                        *)
Costs(prices, lines) == [i \in Items |-> prices[i] * lines[i]]

LEMMA PayableNat ==
  ASSUME NEW p \in [Items -> Prices \union {0}], NEW l \in Lines
  PROVE  Payable(p, l) \in Nat
<1>1. \A i \in Items : p[i] * l[i] \in Nat
  <2> SUFFICES ASSUME NEW i \in Items PROVE p[i] * l[i] \in Nat
    OBVIOUS
  <2>1. p[i] \in Prices \union {0} /\ l[i] \in 0 .. MaxQuantity
    BY DEF Lines
  <2>2. p[i] \in Nat
    <3>1. Prices \union {0} \subseteq Nat
      BY BoundsAssumption
    <3> QED BY <2>1, <3>1, Zenon
  <2>3. l[i] \in Nat
    BY <2>1, BoundsAssumption
  <2> QED BY <2>2, <2>3
<1>2. DOMAIN Costs(p, l) = Items /\ \A i \in Items : Costs(p, l)[i] \in Nat
  BY <1>1 DEF Costs
<1>3. SumFunction(Costs(p, l)) \in Nat
  BY <1>2, AmountsAssumption, SumIs
<1> QED BY <1>3, AmountsAssumption DEF Payable, Subtotal, Costs

LEMMA AmountNat ==
  ASSUME RowsOK, NEW s \in Sessions
  PROVE  Amount(s) \in Nat
BY PayableNat DEF RowsOK, Amount

(* Balances change by what a consumption debits, and rows of wallets keep  *)
(* their shape.                                                            *)
LEMMA WalletStep ==
  ASSUME Typed, Lives, Counters, [Next]_vars
  PROVE  /\ wallet' \in [Users -> [balance : Nat, active : BOOLEAN]]
         /\ \/ \E s \in Sessions : ConsumeSession(s)
            \/ orders' = orders /\ \A u \in Users : wallet'[u].balance = wallet[u].balance
<1> USE DEF tables, world, budget
<1>0. wallet \in [Users -> [balance : Nat, active : BOOLEAN]]
  BY DEF Counters
<1>1. ASSUME wallet' = wallet, orders' = orders
      PROVE  /\ wallet' \in [Users -> [balance : Nat, active : BOOLEAN]]
             /\ orders' = orders /\ \A u \in Users : wallet'[u].balance = wallet[u].balance
  BY <1>0, <1>1
<1>2. ASSUME NEW s \in Sessions, ConsumeSession(s)
      PROVE  wallet' \in [Users -> [balance : Nat, active : BOOLEAN]]
  <2> DEFINE u == Owner(s)
             n == Amount(s)
  <2>1. wallet' = [wallet EXCEPT ![u].balance = @ - n] /\ wallet[u].balance >= n /\ n \in Nat
    BY <1>2, AmountNat DEF ConsumeSession, Debited, CanPay, Typed
  <2> HIDE DEF u, n
  <2>2. u \in Users => wallet[u].balance - n \in Nat
    BY <1>0, <2>1
  <2> QED BY <1>0, <2>1, <2>2
<1>3. ASSUME NEW u \in Users, SetWalletActive(u)
      PROVE  /\ wallet' \in [Users -> [balance : Nat, active : BOOLEAN]]
             /\ orders' = orders /\ \A v \in Users : wallet'[v].balance = wallet[v].balance
  BY <1>0, <1>3 DEF SetWalletActive
<1>4. CASE CartApi
  BY <1>1, <1>4, CartCalls DEF CartSaved, SaveCart, Lives
<1>5. CASE Checkouts
  BY <1>1, <1>5 DEF Checkouts, LoadCart, SaveCart, PriceCheckout, ReuseSession, OpenSession, RefuseCheckout
<1>6. CASE LazyExpiry
  BY <1>1, <1>6 DEF LazyExpiry, ReadSession, FindNotDue, ExpireSession, ExpireQuota, ExpireQuotaFails, ExpireCart
<1>7. CASE \E s \in Sessions : CancelSession(s)
  BY <1>1, <1>7 DEF CancelSession
<1>8. CASE Cleanup
  BY <1>1, <1>8 DEF Cleanup, CleanupSelect, CleanupApply, CleanupFails
<1>9. CASE Others /\ ~ \E u \in Users : SetWalletActive(u)
  BY <1>1, <1>9 DEF Others, ReadQuota, WriteQuota, UpdatePrice, SetListed, DeadlinePasses
<1>10. CASE Crashes
  BY <1>1, <1>10 DEF Crashes, CrashJob, CrashRequest
<1>11. CASE UNCHANGED vars
  BY <1>1, <1>11 DEF vars
<1> QED BY <1>2, <1>3, <1>4, <1>5, <1>6, <1>7, <1>8, <1>9, <1>10, <1>11 DEF Next, Endings

(* A quota edit begins by remembering a row, and then waits.               *)
EditStep(v) == req'[v].op = "quota" => req'[v] = req[v] \/ \E i \in Items : ReadQuota(v, i)

LEMMA EditsStep ==
  ASSUME Typed, [Next]_vars
  PROVE  \A v \in Workers : EditStep(v)
<1> USE DEF tables, world, budget
<1>0. req = [w \in Workers |-> req[w]]
  BY DEF Typed
<1>1. ASSUME NEW w \in Workers, NEW r, r.op # "quota", req' = [req EXCEPT ![w] = r]
      PROVE  \A v \in Workers : EditStep(v)
  BY <1>0, <1>1 DEF EditStep
<1>2. Idle.op # "quota"
  BY DEF Idle
<1>3. CASE UNCHANGED req
  BY <1>3 DEF EditStep
<1>4. ASSUME NEW w \in Workers, ReuseSession(w) \/ OpenSession(w) \/ RefuseCheckout(w) \/ FindNotDue(w)
                                 \/ ExpireQuotaFails(w) \/ ExpireCart(w) \/ WriteQuota(w) \/ CrashRequest(w)
      PROVE  \A v \in Workers : EditStep(v)
  BY <1>1, <1>2, <1>4 DEF ReuseSession, OpenSession, RefuseCheckout, FindNotDue, ExpireQuotaFails,
                          ExpireCart, WriteQuota, CrashRequest
<1>5. ASSUME NEW w \in Workers, NEW u \in Users, LoadCart(w, u)
      PROVE  \A v \in Workers : EditStep(v)
  BY <1>1, <1>5 DEF LoadCart
<1>6. ASSUME NEW w \in Workers, PriceCheckout(w)
      PROVE  \A v \in Workers : EditStep(v)
  BY <1>1, <1>6 DEF PriceCheckout
<1>7. ASSUME NEW w \in Workers, NEW s \in Sessions, ReadSession(w, s)
      PROVE  \A v \in Workers : EditStep(v)
  BY <1>1, <1>7 DEF ReadSession
<1>8. ASSUME NEW w \in Workers, ExpireSession(w) \/ ExpireQuota(w)
      PROVE  \A v \in Workers : EditStep(v)
  <2>1. req[w].op = "expire" /\ req[w] # Idle
    BY <1>8 DEF ExpireSession, ExpireQuota, InExpiry, Idle
  <2>2. \A st \in {"release", "abandon"} : [req[w] EXCEPT !.step = st].op # "quota"
    <3>1. req[w] \in [op : {"expire"}, step : {"check", "release", "abandon"},
                      session : Sessions, seen : CartStatus]
      BY <2>1 DEF Typed, RequestOK
    <3> QED BY <3>1
  <2>3. req' = [req EXCEPT ![w] = [req[w] EXCEPT !.step = "release"]]
        \/ req' = [req EXCEPT ![w] = [req[w] EXCEPT !.step = "abandon"]]
        \/ req' = [req EXCEPT ![w] = Idle]
    BY <1>8 DEF ExpireSession, ExpireQuota
  <2> QED BY <1>1, <1>2, <2>2, <2>3
<1>9. ASSUME NEW w \in Workers, NEW i \in Items, ReadQuota(w, i)
      PROVE  \A v \in Workers : EditStep(v)
  BY <1>0, <1>9 DEF ReadQuota, EditStep
<1>10. CASE CartApi \/ Endings \/ Cleanup \/ CrashJob \/ UNCHANGED vars
            \/ (\E i \in Items, p \in Prices : UpdatePrice(i, p))
            \/ (\E u \in Users : SetWalletActive(u)) \/ SetListed \/ DeadlinePasses
  BY <1>3, <1>10 DEF CartApi, ClearCart, ViewCart, AddItem, UpdateItemQuantity, RemoveItem,
       Endings, CancelSession, ConsumeSession, Cleanup, CleanupSelect, CleanupApply, CleanupFails,
       CrashJob, UpdatePrice, SetWalletActive, SetListed, DeadlinePasses, vars
<1>11. CASE Checkouts
  BY <1>4, <1>5, <1>6, <1>11 DEF Checkouts
<1>12. CASE LazyExpiry
  BY <1>4, <1>7, <1>8, <1>12 DEF LazyExpiry
<1>13. CASE Others
  BY <1>4, <1>9, <1>10, <1>13 DEF Others
<1>14. CASE Crashes
  BY <1>4, <1>10, <1>14 DEF Crashes
<1> QED BY <1>10, <1>11, <1>12, <1>13, <1>14 DEF Next

(* Only the beginning of an edit counts one.                               *)
LEMMA EditsCounted ==
  ASSUME Typed, Lives, [Next]_vars
  PROVE  quotaEdits' = quotaEdits \/ \E w \in Workers, i \in Items : ReadQuota(w, i)
<1> USE DEF tables, world, budget
<1>1. CASE CartApi
  BY <1>1, CartCalls DEF CartSaved, SaveCart, Lives
<1>2. CASE Checkouts
  BY <1>2 DEF Checkouts, LoadCart, SaveCart, PriceCheckout, ReuseSession, OpenSession, RefuseCheckout
<1>3. CASE LazyExpiry
  BY <1>3 DEF LazyExpiry, ReadSession, FindNotDue, ExpireSession, ExpireQuota, ExpireQuotaFails, ExpireCart
<1>4. CASE Endings
  BY <1>4 DEF Endings, CancelSession, ConsumeSession
<1>5. CASE Cleanup
  BY <1>5 DEF Cleanup, CleanupSelect, CleanupApply, CleanupFails
<1>6. CASE Others
  BY <1>6 DEF Others, WriteQuota, UpdatePrice, SetWalletActive, SetListed, DeadlinePasses
<1>7. CASE Crashes
  BY <1>7 DEF Crashes, CrashJob, CrashRequest
<1>8. CASE UNCHANGED vars
  BY <1>8 DEF vars
<1> QED BY <1>1, <1>2, <1>3, <1>4, <1>5, <1>6, <1>7, <1>8 DEF Next

LEMMA CountersStep ==
  ASSUME Typed, Lives, Counters, [Next]_vars
  PROVE  Counters'
<1>1. RowsOK /\ QuotaStep
  BY QuotaKinds DEF Typed
<1>2. ASSUME NEW w \in Workers
      PROVE  EditOK(req[w])'
  <2>1. ASSUME NEW i \in Items, ReadQuota(w, i)
        PROVE  EditOK(req[w])'
    <3>1. req'[w] = [op |-> "quota", item |-> i, row |-> quota[i]]
      BY <2>1 DEF ReadQuota, Typed
    <3> QED BY <3>1 DEF EditOK, Counters
  <2>2. CASE req'[w] = req[w]
    BY <2>2 DEF EditOK, Counters
  <2> QED BY <2>1, <2>2, EditsStep DEF EditStep, EditOK
<1> QED BY <1>1, <1>2, QuotaRowsStep, WalletStep DEF Counters

-----------------------------------------------------------------------------
(* No quota is lost as long as nobody has edited one.                      *)
NoEdits == \A w \in Workers : req[w].op # "quota"

Unedited == quotaEdits \in Nat /\ (quotaEdits = 0 => NoEdits /\ QuotaConserved)

LEMMA NoEditsStep ==
  ASSUME Typed, Lives, Unedited, [Next]_vars
  PROVE  /\ quotaEdits' \in Nat
         /\ quotaEdits' = 0 => quotaEdits = 0 /\ NoEdits'
<1>1. ASSUME NEW w \in Workers, NEW i \in Items, ReadQuota(w, i)
      PROVE  quotaEdits' \in Nat \ {0}
  BY <1>1 DEF ReadQuota, Unedited
<1>2. CASE \E w \in Workers, i \in Items : ReadQuota(w, i)
  BY <1>1, <1>2
<1>3. CASE ~ \E w \in Workers, i \in Items : ReadQuota(w, i)
  <2>1. quotaEdits' = quotaEdits
    BY <1>3, EditsCounted
  <2>2. NoEdits => NoEdits'
    BY <1>3, EditsStep DEF NoEdits, EditStep
  <2> QED BY <2>1, <2>2 DEF Unedited
<1> QED BY <1>2, <1>3

(* The rows of item i in a status, and what their sessions ask for.        *)
With(i, st) == {t \in Sessions : resv[t][i] = st}

LEMMA UnitsSum ==
  ASSUME NEW i \in Items, NEW st
  PROVE  /\ RowsOK => /\ Units(i, st) = SumFunctionOnSet(Asked(session, i), With(i, st))
                      /\ Units(i, st) \in Nat
         /\ RowsOK' => /\ Units(i, st)' = SumFunctionOnSet(Asked(session', i), With(i, st)')
                       /\ Units(i, st)' \in Nat
<1>1. With(i, st) \in SUBSET Sessions /\ With(i, st)' \in SUBSET Sessions
  BY DEF With
<1>2. /\ Units(i, st) = SumFunction([s \in With(i, st) |-> session[s].lines[i]])
      /\ Units(i, st)' = SumFunction([s \in With(i, st)' |-> session'[s].lines[i]])
  BY DEF Units, With
<1>3. RowsOK => session \in [Sessions -> SessionRow]
  BY DEF RowsOK, SessionRow
<1>4. RowsOK' => session' \in [Sessions -> SessionRow]
  BY DEF RowsOK, SessionRow
<1> QED BY <1>1, <1>2, <1>3, <1>4, LinesSum

LEMMA AskedNat ==
  ASSUME NEW i \in Items, NEW s \in Sessions
  PROVE  (RowsOK => Asked(session, i)[s] \in Nat) /\ (RowsOK' => Asked(session', i)[s] \in Nat)
<1>1. ASSUME NEW ses \in [Sessions -> SessionRow]
      PROVE  Asked(ses, i)[s] \in Nat
  BY BoundsAssumption DEF Asked, SessionRow, Lines
<1>2. RowsOK => session \in [Sessions -> SessionRow]
  BY DEF RowsOK, SessionRow
<1>3. RowsOK' => session' \in [Sessions -> SessionRow]
  BY DEF RowsOK, SessionRow
<1> QED BY <1>1, <1>2, <1>3

(* A session that has rows has been opened, and asks for what it did.      *)
LEMMA RowsAreFrozen ==
  ASSUME Lives, \A s \in Sessions : Frozen(s), NEW i \in Items, NEW s \in Sessions,
         resv[s][i] # "NONE"
  PROVE  Asked(session', i)[s] = Asked(session, i)[s]
<1>1. session[s].status # "NONE"
  BY DEF Lives, SessionOK, NoResv
<1> QED BY <1>1 DEF Frozen, Asked

(* One session's row changes.                                              *)
LEMMA UnitsChange ==
  ASSUME RowsOK, RowsOK', Lives, \A s \in Sessions : Frozen(s),
         NEW i \in Items, NEW x \in Sessions, NEW st \in {"RESERVED", "COMMITTED"},
         \A s \in Sessions : s # x => (resv'[s][i] = st <=> resv[s][i] = st)
  PROVE  Units(i, st) + (IF resv'[x][i] = st THEN Asked(session', i)[x] ELSE 0)
         = Units(i, st)' + (IF resv[x][i] = st THEN Asked(session, i)[x] ELSE 0)
<1> DEFINE A == With(i, st)
           B == With(i, st)'
           f == Asked(session, i)
           g == Asked(session', i)
<1>1. A \ {x} = B \ {x} /\ (x \in A <=> resv[x][i] = st) /\ (x \in B <=> resv'[x][i] = st)
  BY DEF With
<1>2. \A s \in A \ {x} : f[s] = g[s]
  BY RowsAreFrozen DEF With
<1>3. A \in SUBSET Sessions /\ B \in SUBSET Sessions
  BY DEF With
<1>4. (\A s \in A : f[s] \in Nat) /\ (\A s \in B : g[s] \in Nat)
  BY <1>3, AskedNat
<1>5. Units(i, st) = SumFunctionOnSet(f, A) /\ Units(i, st)' = SumFunctionOnSet(g, B)
  BY UnitsSum
<1>6. IsFiniteSet(A) /\ IsFiniteSet(B)
  BY <1>3, SessionsFinite
<1> HIDE DEF A, B, f, g
<1>7. SumFunctionOnSet(f, A) + (IF x \in B THEN g[x] ELSE 0)
         = SumFunctionOnSet(g, B) + (IF x \in A THEN f[x] ELSE 0)
  BY <1>1, <1>2, <1>4, <1>6, SumChange
<1> QED BY <1>1, <1>5, <1>7 DEF f, g

LEMMA UnitsSame ==
  ASSUME RowsOK, RowsOK', Lives, \A s \in Sessions : Frozen(s),
         NEW i \in Items, NEW st \in {"RESERVED", "COMMITTED"},
         \A s \in Sessions : resv'[s][i] = st <=> resv[s][i] = st
  PROVE  Units(i, st)' = Units(i, st)
<1>1. With(i, st)' = With(i, st) /\ With(i, st) \in SUBSET Sessions
  BY DEF With
<1>2. \A s \in With(i, st) : Asked(session, i)[s] = Asked(session', i)[s] /\ Asked(session, i)[s] \in Nat
  BY RowsAreFrozen, AskedNat DEF With
<1>3. IsFiniteSet(With(i, st))
  BY <1>1, SessionsFinite
<1>4. SumFunctionOnSet(Asked(session, i), With(i, st)) = SumFunctionOnSet(Asked(session', i), With(i, st))
  BY <1>2, <1>3, SumSame
<1> QED BY <1>1, <1>4, UnitsSum

(* What the sessions of B give back of an item they no longer hold.        *)
LEMMA UnitsReleased ==
  ASSUME RowsOK, RowsOK', Lives, \A s \in Sessions : Frozen(s),
         NEW B \in SUBSET Sessions, resv' = ReleasedResv(B), NEW i \in Items
  PROVE  /\ Units(i, "RESERVED") = HeldUnits(B, i) + Units(i, "RESERVED")'
         /\ Units(i, "COMMITTED")' = Units(i, "COMMITTED")
<1>1. \A s \in Sessions : resv'[s][i] = IF s \in B /\ resv[s][i] = "RESERVED" THEN "RELEASED" ELSE resv[s][i]
  BY DEF ReleasedResv
<1>2. Units(i, "COMMITTED")' = Units(i, "COMMITTED")
  BY <1>1, UnitsSame
<1> DEFINE A == With(i, "RESERVED")
           T == {t \in B : resv[t][i] = "RESERVED"}
           f == Asked(session, i)
<1>3. T \in SUBSET A /\ A \ T = With(i, "RESERVED")' /\ A \in SUBSET Sessions
  BY <1>1 DEF With
<1>4. \A s \in A : f[s] \in Nat /\ f[s] = Asked(session', i)[s]
  BY RowsAreFrozen, AskedNat DEF With
<1>5. IsFiniteSet(A) /\ IsFiniteSet(A \ T)
  BY <1>3, SessionsFinite
<1>6. Units(i, "RESERVED") = SumFunctionOnSet(f, A) /\ HeldUnits(B, i) = SumFunctionOnSet(f, T)
  BY UnitsSum, HeldSum
<1>7. Units(i, "RESERVED")' = SumFunctionOnSet(Asked(session', i), A \ T)
  BY <1>3, UnitsSum
<1> HIDE DEF A, T, f
<1>8. SumFunctionOnSet(f, A) = SumFunctionOnSet(f, T) + SumFunctionOnSet(f, A \ T)
  BY <1>3, <1>4, <1>5, SumSplit
<1>9. SumFunctionOnSet(f, A \ T) = SumFunctionOnSet(Asked(session', i), A \ T)
  BY <1>4, <1>5, SumSame
<1> QED BY <1>2, <1>6, <1>7, <1>8, <1>9

(* A release moves h of the units held to those for sale.                  *)
LEMMA ReleaseSums ==
  ASSUME NEW h \in Nat, NEW held \in Nat, NEW sold \in Nat, NEW left \in Nat, NEW total,
         left + (h + held) + sold = total, NEW more, more = left + h,
         NEW now, now = IF h + held >= h THEN h + held - h ELSE 0
  PROVE  now = held /\ more + now + sold = total
OBVIOUS

LEMMA ConservedStep ==
  ASSUME Typed, Typed', Lives, Counters, QuotaConserved, QuotaStep, \A s \in Sessions : Frozen(s),
         ~ \E w \in Workers : WriteQuota(w)
  PROVE  QuotaConserved'
<1>0. RowsOK /\ RowsOK' /\ resv \in [Sessions -> [Items -> ResvStatus]]
  BY DEF Typed, RowsOK
<1> SUFFICES ASSUME NEW i \in Items
             PROVE  /\ quota'[i].reserved = Units(i, "RESERVED")'
                    /\ quota'[i].remaining + quota'[i].reserved + Units(i, "COMMITTED")' = quota'[i].total
  BY DEF QuotaConserved
<1> DEFINE r == Units(i, "RESERVED")
           c == Units(i, "COMMITTED")
           q == quota[i]
<1>1. /\ q.reserved = r /\ q.remaining + q.reserved + c = q.total
      /\ r \in Nat /\ c \in Nat /\ r' \in Nat /\ c' \in Nat
  BY <1>0, UnitsSum DEF QuotaConserved
<1>2. q \in QuotaRow /\ \A s \in Sessions : Asked(session, i)[s] \in Nat /\ Asked(session', i)[s] \in Nat
  BY <1>0, AskedNat DEF Counters
<1>3. CASE UNCHANGED <<quota, resv>>
  <2>1. r' = r /\ c' = c
    BY <1>0, <1>3, UnitsSame
  <2> QED BY <1>1, <1>3, <2>1
<1>4. ASSUME NEW s \in Sessions, NEW l \in Lines, Reserve(s, l), session'[s].lines = l
      PROVE  quota'[i].reserved = r' /\ quota'[i].remaining + quota'[i].reserved + c' = quota'[i].total
  <2>1. CASE HasRows(s)
    BY <1>3, <1>4, <2>1 DEF Reserve
  <2>2. CASE ~HasRows(s)
    <3> DEFINE n == IF i \in Limited(l) THEN l[i] ELSE 0
               row == quota'[i]
    <3>1. /\ row \in QuotaRow /\ row.total = q.total
          /\ row.remaining = q.remaining - n /\ row.reserved = q.reserved + n
      <4>1. CanReserve(l) /\ row = IF i \in Limited(l)
                                   THEN [quota[i] EXCEPT !.remaining = @ - l[i], !.reserved = @ + l[i]]
                                   ELSE quota[i]
        BY <1>4, <2>2 DEF Reserve
      <4> HIDE DEF row
      <4> QED BY <4>1, ReservedRow
    <3>2. /\ resv[s][i] = "NONE"
          /\ resv'[s][i] = IF i \in Limited(l) THEN "RESERVED" ELSE "NONE"
          /\ \A t \in Sessions : t # s => resv'[t] = resv[t]
      <4>1. resv[s] = NoResv
        BY <2>2 DEF HasRows
      <4>2. resv' = [resv EXCEPT ![s] =
                       [j \in Items |-> IF j \in Limited(l) THEN "RESERVED" ELSE "NONE"]]
        BY <1>4, <2>2 DEF Reserve
      <4> QED BY <1>0, <4>1, <4>2 DEF NoResv
    <3>3. Asked(session', i)[s] = l[i]
      BY <1>4 DEF Asked
    <3>4. r' = r + n
      <4>1. r + (IF resv'[s][i] = "RESERVED" THEN Asked(session', i)[s] ELSE 0)
            = r' + (IF resv[s][i] = "RESERVED" THEN Asked(session, i)[s] ELSE 0)
        BY <1>0, <3>2, UnitsChange
      <4> HIDE DEF r
      <4> QED BY <1>1, <3>2, <3>3, <4>1
    <3>5. c' = c
      BY <1>0, <3>2, UnitsSame
    <3>6. n \in Nat
      BY <1>2, <3>3
    <3> HIDE DEF r, c, q, n, row
    <3> QED BY <1>1, <1>2, <3>1, <3>4, <3>5, <3>6 DEF row, QuotaRow
  <2> QED BY <2>1, <2>2
<1>5. ASSUME NEW B \in SUBSET Sessions, Release(B)
      PROVE  quota'[i].reserved = r' /\ quota'[i].remaining + quota'[i].reserved + c' = quota'[i].total
  <2> DEFINE row == quota'[i]
  <2>1. PICK h \in Nat, held \in Nat, sold \in Nat :
          h = HeldUnits(B, i) /\ held = r' /\ sold = c'
    BY <1>0, <1>1, HeldSum, Zenon
  <2>2. r = h + held /\ c = sold
    BY <1>0, <1>5, <2>1, UnitsReleased DEF Release
  <2>3. /\ row.total = q.total /\ row.remaining = q.remaining + h
        /\ row.reserved = IF q.reserved >= h THEN q.reserved - h ELSE 0
    BY <1>0, <1>5, <2>1, ReleasedRow DEF Release
  <2>4. q.reserved = h + held /\ q.remaining \in Nat /\ q.remaining + (h + held) + sold = q.total
    BY <1>1, <1>2, <2>2 DEF QuotaRow
  <2> HIDE DEF r, c, q, row
  <2>5. row.reserved = IF h + held >= h THEN h + held - h ELSE 0
    BY <2>3, <2>4
  <2>6. row.reserved = held /\ row.remaining + row.reserved + sold = row.total
    BY <2>3, <2>4, <2>5, ReleaseSums
  <2> USE DEF r, c, q, row
  <2> QED BY <2>1, <2>6, Zenon
<1>6. ASSUME NEW s \in Sessions, ConsumeSession(s)
      PROVE  quota'[i].reserved = r' /\ quota'[i].remaining + quota'[i].reserved + c' = quota'[i].total
  <2> DEFINE n == IF i \in Sold(s) THEN session[s].lines[i] ELSE 0
             row == quota'[i]
  <2>1. /\ row \in QuotaRow /\ row.total = q.total
        /\ HasRows(s) => /\ row.remaining = q.remaining
                         /\ row.reserved = IF q.reserved >= n THEN q.reserved - n ELSE 0
        /\ ~HasRows(s) => row.remaining = q.remaining - n /\ row.reserved = q.reserved
    BY <1>0, <1>6, CommittedRow DEF ConsumeSession
  <2>2. Live(s) /\ session[s].status # "NONE" /\ \A j \in Items : resv[s][j] \in {"NONE", "RESERVED"}
    BY <1>6 DEF ConsumeSession, Unexpired, Live, Lives, SessionOK
  <2>3. /\ resv'[s][i] = IF i \in Sold(s) THEN "COMMITTED" ELSE resv[s][i]
        /\ \A t \in Sessions : t # s => resv'[t] = resv[t]
    BY <1>0, <1>6 DEF ConsumeSession
  <2>4. /\ HasRows(s) => (i \in Sold(s) <=> resv[s][i] = "RESERVED")
        /\ ~HasRows(s) => resv[s][i] = "NONE"
    BY DEF Sold, HasRows, NoResv
  <2>5. Asked(session, i)[s] = session[s].lines[i] /\ Asked(session', i)[s] = session[s].lines[i]
    BY <2>2 DEF Asked, Frozen
  <2>6. r + (IF resv'[s][i] = "RESERVED" THEN Asked(session', i)[s] ELSE 0)
        = r' + (IF resv[s][i] = "RESERVED" THEN Asked(session, i)[s] ELSE 0)
    BY <1>0, <2>3, UnitsChange
  <2>7. c + (IF resv'[s][i] = "COMMITTED" THEN Asked(session', i)[s] ELSE 0)
        = c' + (IF resv[s][i] = "COMMITTED" THEN Asked(session, i)[s] ELSE 0)
    BY <1>0, <2>3, UnitsChange
  <2>8. n \in Nat /\ session[s].lines[i] \in Nat
    BY <1>2, <2>5
  <2> DEFINE m == session[s].lines[i]
  <2> HIDE DEF r, c, q, m, row
  <2>9. CASE HasRows(s)
    <3>1. CASE i \in Sold(s)
      <4>0. resv[s][i] = "RESERVED" /\ resv'[s][i] = "COMMITTED" /\ n = m
        BY <2>3, <2>4, <2>9, <3>1 DEF m
      <4>1. r = r' + m /\ c + m = c' /\ n = m
        <5>1. r + 0 = r' + m
          BY <2>5, <2>6, <4>0 DEF m
        <5>2. c + m = c' + 0
          BY <2>5, <2>7, <4>0 DEF m
        <5> HIDE DEF n
        <5> QED BY <1>1, <4>0, <5>1, <5>2
      <4> HIDE DEF n
      <4> QED BY <1>1, <1>2, <2>1, <2>8, <2>9, <4>1 DEF row, QuotaRow
    <3>2. CASE i \notin Sold(s)
      <4>1. r = r' /\ c = c' /\ n = 0
        BY <1>1, <2>2, <2>3, <2>4, <2>6, <2>7, <2>9, <3>2
      <4> HIDE DEF n
      <4> QED BY <1>1, <1>2, <2>1, <2>9, <4>1 DEF row, QuotaRow
    <3> QED BY <3>1, <3>2
  <2>10. CASE ~HasRows(s)
    <3>1. r = r' /\ c + n = c'
      BY <1>1, <2>3, <2>4, <2>5, <2>6, <2>7, <2>10
    <3> HIDE DEF n
    <3> QED BY <1>1, <1>2, <2>1, <2>8, <2>10, <3>1 DEF row, QuotaRow
  <2> QED BY <2>9, <2>10
<1> QED BY <1>3, <1>4, <1>5, <1>6 DEF QuotaStep

LEMMA UneditedStep ==
  ASSUME Typed, Typed', Lives, Counters, Unedited, [Next]_vars
  PROVE  Unedited'
<1>1. CASE quotaEdits' = 0
  <2>1. quotaEdits = 0 /\ NoEdits' /\ NoEdits /\ QuotaConserved
    BY <1>1, NoEditsStep DEF Unedited
  <2>2. QuotaStep /\ \A s \in Sessions : Frozen(s)
    BY QuotaKinds
  <2>3. ~ \E w \in Workers : WriteQuota(w)
    BY <2>1 DEF NoEdits, WriteQuota
  <2>4. QuotaConserved'
    BY <2>1, <2>2, <2>3, ConservedStep
  <2> QED BY <1>1, <2>1, <2>4 DEF Unedited
<1>2. CASE quotaEdits' # 0
  BY <1>2, NoEditsStep DEF Unedited
<1> QED BY <1>1, <1>2

LEMMA InitConserved == Init => Unedited
<1> SUFFICES ASSUME Init, NEW i \in Items
             PROVE  /\ quota[i].reserved = Units(i, "RESERVED")
                    /\ quota[i].remaining + quota[i].reserved + Units(i, "COMMITTED") = quota[i].total
  BY DEF Init, Unedited, NoEdits, Idle, QuotaConserved
<1>1. ASSUME NEW st \in {"RESERVED", "COMMITTED"}
      PROVE  Units(i, st) = 0
  <2>1. {t \in Sessions : resv[t][i] = st} = {}
    BY DEF Init, NoResv
  <2> DEFINE f == [s \in {t \in Sessions : resv[t][i] = st} |-> session[s].lines[i]]
  <2>2. SumFunction(f) = SumFunctionOnSet(f, {})
    BY <2>1 DEF SumFunction
  <2> QED BY <2>2, SumEmpty DEF Units
<1>2. quota[i].reserved = 0 /\ quota[i].remaining = Stock /\ quota[i].total = Stock
  BY DEF Init
<1> QED BY <1>1, <1>2, AmountsAssumption

-----------------------------------------------------------------------------
(* Only a death leaves an ended session with quota.                        *)

(* Until a quota is edited, a session has a row for each limited item that *)
(* it asks for, so reusing it reserves nothing.                            *)
Reserving ==
  quotaEdits = 0 =>
    \A s \in Sessions, i \in Items :
       session[s].status # "NONE" /\ session[s].lines[i] > 0 /\ quota[i].enabled
         => resv[s][i] # "NONE"

LEMMA EnabledKept ==
  ASSUME Counters, QuotaStep, ~ \E w \in Workers : WriteQuota(w), NEW i \in Items
  PROVE  quota'[i].enabled = quota[i].enabled
<1>1. quota[i] \in QuotaRow
  BY DEF Counters
<1>2. ASSUME NEW s \in Sessions, NEW l \in Lines, Reserve(s, l)
      PROVE  quota'[i].enabled = quota[i].enabled
  BY <1>1, <1>2 DEF Reserve, QuotaRow
<1>3. ASSUME NEW B \in SUBSET Sessions, Release(B)
      PROVE  quota'[i].enabled = quota[i].enabled
  BY <1>1, <1>3 DEF Release, ReleasedQuota, QuotaRow
<1>4. ASSUME NEW s \in Sessions, ConsumeSession(s)
      PROVE  quota'[i].enabled = quota[i].enabled
  BY <1>1, <1>4 DEF ConsumeSession, CommittedQuota, QuotaRow
<1> QED BY <1>2, <1>3, <1>4 DEF QuotaStep

(* A reservation row, once there, stays, whatever its status.              *)
LEMMA RowsStay ==
  ASSUME RowsOK, SessionStep, NEW s \in Sessions, NEW i \in Items, resv[s][i] # "NONE"
  PROVE  resv'[s][i] # "NONE"
<1>1. resv \in [Sessions -> [Items -> ResvStatus]]
  BY DEF RowsOK
<1>2. ASSUME NEW t \in Sessions, Takes(t)
      PROVE  resv'[s][i] # "NONE"
  BY <1>1, <1>2 DEF Takes, NoResv
<1>3. ASSUME NEW t \in Sessions, Sells(t)
      PROVE  resv'[s][i] # "NONE"
  BY <1>1, <1>3 DEF Sells
<1>4. ASSUME NEW B \in SUBSET Sessions, Ends(B)
      PROVE  resv'[s][i] # "NONE"
  BY <1>1, <1>4 DEF Ends, ReleasedResv
<1> QED BY <1>2, <1>3, <1>4 DEF SessionStep, Opens, Reuses

LEMMA ReservingStep ==
  ASSUME Typed, Lives, Counters, Unedited, Reserving, [Next]_vars
  PROVE  Reserving'
<1>0. RowsOK /\ SessionStep /\ QuotaStep /\ \A s \in Sessions : Frozen(s)
  BY StepKinds, QuotaKinds DEF Typed
<1> SUFFICES ASSUME quotaEdits' = 0, NEW s \in Sessions, NEW i \in Items,
                    session'[s].status # "NONE", session'[s].lines[i] > 0, quota'[i].enabled
             PROVE  resv'[s][i] # "NONE"
  BY DEF Reserving
<1>1. quotaEdits = 0 /\ NoEdits
  BY NoEditsStep DEF Unedited
<1>2. quota'[i].enabled = quota[i].enabled
  BY <1>0, <1>1, EnabledKept DEF NoEdits, WriteQuota
<1>3. CASE session[s].status # "NONE"
  <2>1. resv[s][i] # "NONE"
    BY <1>0, <1>1, <1>2, <1>3 DEF Reserving, Frozen
  <2> QED BY <1>0, <2>1, RowsStay
<1>4. CASE session[s].status = "NONE"
  <2>1. Opens(s)
    <3>1. ASSUME NEW t \in Sessions, Opens(t), t # s
          PROVE  FALSE
      BY <1>0, <1>4, <3>1 DEF Opens, RowsOK
    <3>2. ASSUME NEW t \in Sessions, Sells(t)
          PROVE  FALSE
      BY <1>4, <3>2, SoldSession DEF Sells, Live
    <3>3. ASSUME NEW B \in SUBSET Sessions, Ends(B)
          PROVE  FALSE
      BY <1>4, <3>3 DEF Ends
    <3> QED BY <1>0, <1>4, <3>1, <3>2, <3>3 DEF SessionStep, Reuses
  <2>2. PICK l :
          /\ \E c, p : session' = [session EXCEPT ![s] = [status |-> "PENDING", cart |-> c,
                                                          lines |-> l, prices |-> p]]
          /\ Reserve(s, l)
    BY <2>1 DEF Opens
  <2>3. session'[s].lines = l /\ resv[s] = NoResv
    BY <1>0, <1>4, <2>2 DEF RowsOK, Lives, SessionOK
  <2>4. resv' = [resv EXCEPT ![s] = [j \in Items |-> IF j \in Limited(l) THEN "RESERVED" ELSE "NONE"]]
    BY <2>2, <2>3 DEF Reserve, HasRows
  <2>5. i \in Limited(l)
    BY <1>2, <2>3 DEF Limited
  <2> QED BY <1>0, <2>4, <2>5 DEF RowsOK
<1> QED BY <1>3, <1>4

(* A release that has gone wrong is one after a quota edit.                *)
LEMMA ConservedIsReleasable ==
  ASSUME RowsOK, Counters, QuotaConserved, NEW B \in SUBSET Sessions
  PROVE  Releasable(B)
<1> SUFFICES ASSUME NEW i \in Items
             PROVE  quota[i].remaining + HeldUnits(B, i) <= quota[i].total
  BY DEF Releasable
<1> DEFINE A == With(i, "RESERVED")
           T == {t \in B : resv[t][i] = "RESERVED"}
           f == Asked(session, i)
<1>1. T \in SUBSET A /\ A \in SUBSET Sessions /\ A \ T \in SUBSET Sessions
  BY DEF With
<1>2. \A s \in A : f[s] \in Nat
  BY <1>1, AskedNat
<1>3. IsFiniteSet(A) /\ IsFiniteSet(A \ T)
  BY <1>1, SessionsFinite
<1>4. /\ Units(i, "RESERVED") = SumFunctionOnSet(f, A) /\ HeldUnits(B, i) = SumFunctionOnSet(f, T)
      /\ HeldUnits(B, i) \in Nat /\ Units(i, "COMMITTED") \in Nat
  BY UnitsSum, HeldSum
<1> HIDE DEF A, T, f
<1>5. SumFunctionOnSet(f, A) = SumFunctionOnSet(f, T) + SumFunctionOnSet(f, A \ T)
  BY <1>1, <1>2, <1>3, SumSplit
<1>6. SumFunctionOnSet(f, A \ T) \in Nat
  BY <1>2, <1>3, SumNat
<1>7. /\ quota[i].reserved = Units(i, "RESERVED")
      /\ quota[i].remaining + quota[i].reserved + Units(i, "COMMITTED") = quota[i].total
      /\ quota[i].remaining \in Nat
  BY DEF QuotaConserved, Counters, QuotaRow
<1> QED BY <1>4, <1>5, <1>6, <1>7

(* A request about to give back a session's quota does so, or dies.        *)
LEMMA ReleasingStep ==
  ASSUME Typed, Lives, [Next]_vars, NEW w \in Workers, InExpiry(w, "release")
  PROVE  \/ req'[w] = req[w]
         \/ ExpireQuota(w) \/ ExpireQuotaFails(w) \/ CrashRequest(w)
<1> USE DEF tables, world, budget
<1> DEFINE Stays == req'[w] = req[w]
<1>0. req = [v \in Workers |-> req[v]] /\ req[w].op = "expire" /\ req[w].step = "release" /\ req[w] # Idle
  BY DEF Typed, InExpiry, Idle
<1>1. CASE UNCHANGED req
  BY <1>1
<1>2. CASE CartApi \/ Endings \/ Cleanup \/ CrashJob \/ UNCHANGED vars
           \/ (\E i \in Items, p \in Prices : UpdatePrice(i, p))
           \/ (\E u \in Users : SetWalletActive(u)) \/ SetListed \/ DeadlinePasses
  BY <1>1, <1>2 DEF CartApi, ClearCart, ViewCart, AddItem, UpdateItemQuantity, RemoveItem,
       Endings, CancelSession, ConsumeSession, Cleanup, CleanupSelect, CleanupApply, CleanupFails,
       CrashJob, UpdatePrice, SetWalletActive, SetListed, DeadlinePasses, vars
<1>3. ASSUME NEW v \in Workers, v # w, NEW x, req' = [req EXCEPT ![v] = x]
      PROVE  Stays
  BY <1>0, <1>3
<1>4. ASSUME NEW v \in Workers,
             \/ PriceCheckout(v) \/ ReuseSession(v) \/ OpenSession(v) \/ RefuseCheckout(v)
             \/ FindNotDue(v) \/ ExpireCart(v) \/ WriteQuota(v)
             \/ (\E u \in Users : LoadCart(v, u)) \/ (\E s \in Sessions : ReadSession(v, s))
             \/ (\E i \in Items : ReadQuota(v, i))
      PROVE  Stays
  <2>1. v # w
    BY <1>0, <1>4 DEF PriceCheckout, ReuseSession, OpenSession, RefuseCheckout, FindNotDue, ExpireCart,
         WriteQuota, LoadCart, ReadSession, ReadQuota, InExpiry
  <2>2. \E x : req' = [req EXCEPT ![v] = x]
    BY <1>4 DEF PriceCheckout, ReuseSession, OpenSession, RefuseCheckout, FindNotDue, ExpireCart,
         WriteQuota, LoadCart, ReadSession, ReadQuota
  <2> QED BY <1>3, <2>1, <2>2
<1>5. ASSUME NEW v \in Workers, ExpireSession(v)
      PROVE  Stays
  <2>1. v # w /\ req' = [req EXCEPT ![v] = [req[v] EXCEPT !.step = "release"]]
    BY <1>0, <1>5 DEF ExpireSession, InExpiry
  <2> QED BY <1>3, <2>1
<1>6. ASSUME NEW v \in Workers, v # w, ExpireQuota(v) \/ ExpireQuotaFails(v) \/ CrashRequest(v)
      PROVE  Stays
  <2>1. \E x : req' = [req EXCEPT ![v] = x]
    BY <1>6 DEF ExpireQuota, ExpireQuotaFails, CrashRequest
  <2> QED BY <1>3, <1>6, <2>1
<1> QED BY <1>2, <1>4, <1>5, <1>6 DEF Next, Checkouts, LazyExpiry, Others, Crashes

(* A step counts one death or none.                                        *)
LEMMA CrashesCounted ==
  ASSUME Typed, Lives, [Next]_vars
  PROVE  crashes' = crashes \/ crashes' = crashes + 1
<1> USE DEF tables, world, budget
<1>1. CASE CartApi
  BY <1>1, CartCalls DEF CartSaved, SaveCart, Lives
<1>2. CASE Checkouts
  BY <1>2 DEF Checkouts, LoadCart, SaveCart, PriceCheckout, ReuseSession, OpenSession, RefuseCheckout
<1>3. CASE LazyExpiry
  BY <1>3 DEF LazyExpiry, ReadSession, FindNotDue, ExpireSession, ExpireQuota, ExpireQuotaFails, ExpireCart
<1>4. CASE Endings
  BY <1>4 DEF Endings, CancelSession, ConsumeSession
<1>5. CASE Cleanup
  BY <1>5 DEF Cleanup, CleanupSelect, CleanupApply, CleanupFails
<1>6. CASE Others
  BY <1>6 DEF Others, ReadQuota, WriteQuota, UpdatePrice, SetWalletActive, SetListed, DeadlinePasses
<1>7. CASE Crashes
  BY <1>7 DEF Crashes, CrashJob, CrashRequest, Crashed
<1>8. CASE UNCHANGED vars
  BY <1>8 DEF vars
<1> QED BY <1>1, <1>2, <1>3, <1>4, <1>5, <1>6, <1>7, <1>8 DEF Next

Expired(s) == session[s].status = "EXPIRED" /\ \E i \in Items : resv[s][i] = "RESERVED"

(* A session that a step leaves with quota is that of the dying request.   *)
LEMMA NewlyStranded ==
  ASSUME Typed, Lives, Counters, Unedited, Reserving, [Next]_vars, quotaEdits' = 0,
         NEW s \in Stranded' \ Stranded
  PROVE  \E w \in Workers : CrashRequest(w) /\ s = req[w].session
<1>0. RowsOK /\ SessionStep
  BY StepKinds DEF Typed
<1>1. quotaEdits = 0 /\ QuotaConserved
  BY NoEditsStep DEF Unedited
<1>2. /\ s \in Sessions /\ Expired(s)'
      /\ \A w \in Workers : InExpiry(w, "release")' => req'[w].session # s
  BY DEF Stranded, Expired
<1>3. CASE Expired(s)
  <2>1. PICK w \in Workers : InExpiry(w, "release") /\ req[w].session = s
    BY <1>2, <1>3 DEF Stranded, Expired
  <2>2. req'[w] # req[w]
    BY <1>2, <2>1 DEF InExpiry
  <2>3. ~ExpireQuota(w)
    BY <1>2, <2>1 DEF ExpireQuota, Release, ReleasedResv, Expired
  <2>4. ~ExpireQuotaFails(w)
    BY <1>0, <1>1, <1>2, <2>1, ConservedIsReleasable DEF ExpireQuotaFails
  <2> QED BY <2>1, <2>2, <2>3, <2>4, ReleasingStep
<1>4. CASE ~Expired(s)
  <2>0. ~(session'[s] = session[s] /\ resv'[s] = resv[s])
    BY <1>2, <1>4 DEF Expired
  <2>1. ASSUME NEW t \in Sessions, Opens(t)
        PROVE  FALSE
    <3>1. session'[t].status = "PENDING" /\ (t # s => session'[s] = session[s] /\ resv'[s] = resv[s])
      BY <1>0, <1>2, <2>1 DEF Opens, Takes, RowsOK
    <3> QED BY <1>2, <2>0, <3>1 DEF Expired
  <2>2. ASSUME NEW t \in Sessions, Reuses(t)
        PROVE  FALSE
    <3>1. HasRows(t) \/ Limited(session[t].lines) = {}
      BY <1>0, <1>1, <2>2 DEF Reuses, HasRows, Limited, Reserving, NoResv
    <3>2. CASE HasRows(t)
      BY <2>0, <2>2, <3>2 DEF Reuses, Reserve
    <3>3. CASE ~HasRows(t)
      <4>1. resv' = [resv EXCEPT ![t] = [i \in Items |->
                       IF i \in Limited(session[t].lines) THEN "RESERVED" ELSE "NONE"]]
        BY <2>2, <3>3 DEF Reuses, Reserve
      <4>2. \A i \in Items : resv'[t][i] = "NONE" /\ resv[t][i] = "NONE"
        BY <1>0, <3>1, <3>3, <4>1 DEF HasRows, NoResv, RowsOK
      <4>3. s # t => resv'[s] = resv[s]
        BY <1>0, <1>2, <4>1 DEF RowsOK
      <4> QED BY <1>2, <2>0, <2>2, <4>2, <4>3 DEF Reuses, Expired
    <3> QED BY <3>2, <3>3
  <2>3. ASSUME NEW t \in Sessions, Sells(t)
        PROVE  FALSE
    <3>1. session'[t].status = "CONSUMED" /\ (t # s => session'[s] = session[s] /\ resv'[s] = resv[s])
      BY <1>0, <1>2, <2>3, SoldSession DEF Sells, RowsOK
    <3> QED BY <1>2, <2>0, <3>1 DEF Expired
  <2>4. ASSUME NEW B \in SUBSET Sessions, Ends(B)
        PROVE  FALSE
    <3>1. CASE s \in B
      BY <1>2, <2>4, <3>1 DEF Ends, ReleasedResv, Expired
    <3>2. CASE s \notin B
      <4>1. session'[s] = session[s] /\ resv'[s] = resv[s]
        BY <1>2, <2>4, <3>2 DEF Ends, ReleasedResv
      <4> QED BY <2>0, <4>1
    <3> QED BY <3>1, <3>2
  <2> QED BY <1>0, <2>0, <2>1, <2>2, <2>3, <2>4 DEF SessionStep
<1> QED BY <1>3, <1>4

Deaths == crashes \in Nat /\ StrandedByDeaths

LEMMA DeathsStep ==
  ASSUME Typed, Lives, Counters, Unedited, Reserving, Deaths, [Next]_vars
  PROVE  Deaths'
<1>1. crashes' \in Nat /\ (crashes' = crashes \/ crashes' = crashes + 1)
  BY CrashesCounted DEF Deaths
<1> SUFFICES ASSUME quotaEdits' = 0 PROVE Cardinality(Stranded') <= crashes'
  BY <1>1 DEF Deaths, StrandedByDeaths
<1>2. Cardinality(Stranded) <= crashes /\ crashes \in Nat
  BY NoEditsStep DEF Deaths, StrandedByDeaths
<1>3. Stranded \in SUBSET Sessions /\ Stranded' \in SUBSET Sessions
  BY DEF Stranded
<1>4. IsFiniteSet(Stranded) /\ IsFiniteSet(Stranded')
  BY <1>3, SessionsFinite
<1>5. Cardinality(Stranded) \in Nat /\ Cardinality(Stranded') \in Nat
  BY <1>4, FS_CardinalityType
<1>6. CASE Stranded' \subseteq Stranded
  <2>1. Cardinality(Stranded') <= Cardinality(Stranded)
    BY <1>4, <1>6, FS_Subset
  <2> HIDE DEF Stranded
  <2> QED BY <1>1, <1>2, <1>5, <2>1
<1>7. CASE ~(Stranded' \subseteq Stranded)
  <2>1. PICK w \in Workers : CrashRequest(w)
    BY <1>7, NewlyStranded
  <2>2. crashes' = crashes + 1
    BY <2>1 DEF CrashRequest, Crashed
  <2>3. \A v \in Workers : CrashRequest(v) => v = w
    BY <2>1 DEF CrashRequest, Typed
  <2>4. Stranded' \subseteq Stranded \union {req[w].session}
    BY <2>3, NewlyStranded
  <2>5. /\ IsFiniteSet(Stranded \union {req[w].session})
        /\ Cardinality(Stranded \union {req[w].session}) <= Cardinality(Stranded) + 1
    <3> HIDE DEF Stranded
    <3>1. /\ IsFiniteSet(Stranded \union {req[w].session})
          /\ Cardinality(Stranded \union {req[w].session})
               = IF req[w].session \in Stranded THEN Cardinality(Stranded) ELSE Cardinality(Stranded) + 1
      BY <1>4, FS_AddElement
    <3> QED BY <1>5, <3>1
  <2>6. Cardinality(Stranded') <= Cardinality(Stranded \union {req[w].session})
    BY <2>4, <2>5, FS_Subset
  <2>7. Cardinality(Stranded \union {req[w].session}) \in Nat
    BY <2>5, FS_CardinalityType
  <2> HIDE DEF Stranded
  <2> QED BY <1>2, <1>5, <2>2, <2>5, <2>6, <2>7
<1> QED BY <1>6, <1>7

LEMMA InitDeaths == Init => Reserving /\ Deaths
<1> SUFFICES ASSUME Init PROVE Reserving /\ Deaths
  OBVIOUS
<1>1. Reserving
  BY DEF Init, Reserving, NoSession
<1>2. Stranded = {}
  BY DEF Init, Stranded, NoSession
<1>3. Cardinality(Stranded) = 0
  BY <1>2, FS_EmptySet
<1> QED BY <1>1, <1>3 DEF Init, Deaths, StrandedByDeaths

-----------------------------------------------------------------------------
(* Whose wallet pays: the cart of an order keeps its owner.                *)

(* A cart's row, once inserted, stays and stays with its user.             *)
CartKept(c) ==
  cart[c].status # "NONE" => cart'[c].status # "NONE" /\ cart'[c].user = cart[c].user

LEMMA CartsKept ==
  ASSUME Typed, Filed, [Next]_vars
  PROVE  \A c \in Carts : CartKept(c)
<1> USE DEF tables, world, budget
<1>1. ASSUME UNCHANGED cart
      PROVE  \A c \in Carts : CartKept(c)
  BY <1>1 DEF CartKept
<1>2. ASSUME NEW k, NEW st \in CartStatus, st # "NONE" \/ st = cart[k].status,
             cart' = [cart EXCEPT ![k].status = st]
      PROVE  \A c \in Carts : CartKept(c)
  BY <1>2, CartStatusSet DEF Typed, CartKept
<1>3. ASSUME NEW u \in Users, NEW c \in Carts, NEW B \in SUBSET Sessions, CartSaved(u, c, B)
      PROVE  \A d \in Carts : CartKept(d)
  <2>1. PICK l \in Lines :
          cart' = [cart EXCEPT ![c] = [status |-> "ACTIVE", user |-> u, lines |-> l]]
    BY <1>3 DEF CartSaved, SaveCart
  <2>2. \A d \in Carts : /\ d # c => cart'[d] = cart[d]
                         /\ d = c => cart'[d].user = u /\ cart'[d].status = "ACTIVE"
    BY <2>1 DEF Typed, RowsOK
  <2>3. cart[c].status # "NONE" => cart[c].user = u
    BY <1>3, OpenedCart DEF CartSaved, Inserted
  <2> QED BY <2>2, <2>3 DEF CartKept
<1>4. ASSUME NEW s \in Sessions, CancelSession(s)
      PROVE  \A c \in Carts : CartKept(c)
  <2> DEFINE k == session[s].cart
  <2>1. PICK st \in GivenBack(Owner(s), k) : cart' = [cart EXCEPT ![k].status = st]
    BY <1>4 DEF CancelSession
  <2>2. k \in Carts
    BY <1>4 DEF CancelSession, Unexpired, Live, Filed
  <2>3. st \in CartStatus /\ (st # "NONE" \/ st = cart[k].status)
    BY <2>1, <2>2 DEF GivenBack, Typed, RowsOK, CartStatus
  <2> HIDE DEF k
  <2> QED BY <1>2, <2>1, <2>3
<1>5. ASSUME NEW s \in Sessions, ConsumeSession(s)
      PROVE  \A c \in Carts : CartKept(c)
  BY <1>2, <1>5, StatusFacts DEF ConsumeSession
<1>6. ASSUME NEW w \in Workers, OpenSession(w)
      PROVE  \A c \in Carts : CartKept(c)
  BY <1>2, <1>6, StatusFacts DEF OpenSession
<1>7. ASSUME NEW w \in Workers, ExpireCart(w)
      PROVE  \A c \in Carts : CartKept(c)
  BY <1>2, <1>7, StatusFacts DEF ExpireCart
<1>8. CASE CartApi \/ \E w \in Workers, u \in Users : LoadCart(w, u)
  BY <1>3, <1>8, CartCalls
<1>9. ASSUME NEW w \in Workers,
              \/ PriceCheckout(w) \/ ReuseSession(w) \/ RefuseCheckout(w)
              \/ FindNotDue(w) \/ ExpireSession(w) \/ ExpireQuota(w) \/ ExpireQuotaFails(w)
              \/ \E s \in Sessions : ReadSession(w, s)
       PROVE  \A c \in Carts : CartKept(c)
  BY <1>1, <1>9 DEF PriceCheckout, ReuseSession, RefuseCheckout, FindNotDue, ExpireSession, ExpireQuota,
                    ExpireQuotaFails, ReadSession
<1>10. CASE Cleanup
  BY <1>1, <1>10 DEF Cleanup, CleanupSelect, CleanupApply, CleanupFails
<1>11. CASE Others
  BY <1>1, <1>11 DEF Others, ReadQuota, WriteQuota, UpdatePrice, SetWalletActive, SetListed,
                     DeadlinePasses
<1>12. CASE Crashes
  BY <1>1, <1>12 DEF Crashes, CrashJob, CrashRequest
<1>13. CASE UNCHANGED vars
  BY <1>1, <1>13 DEF vars
<1> QED
  BY <1>4, <1>5, <1>6, <1>7, <1>8, <1>9, <1>10, <1>11, <1>12, <1>13
     DEF Next, Checkouts, LazyExpiry, Endings

(* A session, and a checkout under way, is of a cart that was inserted.    *)
NamesCart(r) == r.op \in {"create", "open"}

Placed ==
  /\ \A s \in Sessions : session[s].status # "NONE" => cart[session[s].cart].status # "NONE"
  /\ \A w \in Workers : NamesCart(req[w]) => cart[req[w].cart].status # "NONE"

LEMMA RequestsPlaced ==
  ASSUME Typed, Filed, Placed, [Next]_vars
  PROVE  \A v \in Workers : NamesCart(req'[v]) => cart'[req'[v].cart].status # "NONE"
<1> USE DEF tables, world, budget
<1>0. /\ req = [w \in Workers |-> req[w]]
      /\ \A w \in Workers : NamesCart(req[w]) => req[w].cart \in Carts /\ cart'[req[w].cart].status # "NONE"
  <2>1. ASSUME NEW w \in Workers, NamesCart(req[w])
        PROVE  req[w].cart \in Carts
    BY <2>1 DEF Typed, RequestOK, NamesCart, Idle
  <2> QED BY <2>1, CartsKept DEF Placed, CartKept, Typed
<1>1. ASSUME NEW w \in Workers, NEW r, ~NamesCart(r), req' = [req EXCEPT ![w] = r]
      PROVE  \A v \in Workers : NamesCart(req'[v]) => cart'[req'[v].cart].status # "NONE"
  BY <1>0, <1>1
<1>2. ~NamesCart(Idle)
  BY DEF NamesCart, Idle
<1>3. ASSUME UNCHANGED req
      PROVE  \A v \in Workers : NamesCart(req'[v]) => cart'[req'[v].cart].status # "NONE"
  BY <1>0, <1>3
<1>4. ASSUME NEW w \in Workers, ReuseSession(w) \/ OpenSession(w) \/ RefuseCheckout(w) \/ FindNotDue(w)
                                 \/ ExpireQuotaFails(w) \/ ExpireCart(w) \/ WriteQuota(w) \/ CrashRequest(w)
      PROVE  \A v \in Workers : NamesCart(req'[v]) => cart'[req'[v].cart].status # "NONE"
  BY <1>1, <1>2, <1>4 DEF ReuseSession, OpenSession, RefuseCheckout, FindNotDue, ExpireQuotaFails,
                          ExpireCart, WriteQuota, CrashRequest
<1>5. CASE CartApi \/ \E w \in Workers, u \in Users : LoadCart(w, u)
  <2>1. PICK u \in Users, c \in Carts, B \in SUBSET Sessions : CartSaved(u, c, B)
    BY <1>5, CartCalls
  <2>2. cart'[c].status = "ACTIVE"
    BY <2>1 DEF CartSaved, SaveCart, Typed, RowsOK
  <2>3. ASSUME NEW w \in Workers, req' = [req EXCEPT ![w] = [op |-> "create", cart |-> c]]
        PROVE  \A v \in Workers : NamesCart(req'[v]) => cart'[req'[v].cart].status # "NONE"
    BY <1>0, <2>2, <2>3
  <2> QED BY <1>3, <2>1, <2>3 DEF CartSaved
<1>6. ASSUME NEW w \in Workers, PriceCheckout(w)
      PROVE  \A v \in Workers : NamesCart(req'[v]) => cart'[req'[v].cart].status # "NONE"
  <2>1. \A v \in Workers : v # w => req'[v] = req[v]
    BY <1>0, <1>6 DEF PriceCheckout
  <2>2. req'[w].cart = req[w].cart /\ NamesCart(req[w])
    BY <1>0, <1>6 DEF PriceCheckout, NamesCart
  <2> QED BY <1>0, <2>1, <2>2
<1>7. ASSUME NEW w \in Workers, NEW s \in Sessions, ReadSession(w, s)
      PROVE  \A v \in Workers : NamesCart(req'[v]) => cart'[req'[v].cart].status # "NONE"
  BY <1>1, <1>7 DEF ReadSession, NamesCart
<1>8. ASSUME NEW w \in Workers, ExpireSession(w) \/ ExpireQuota(w)
      PROVE  \A v \in Workers : NamesCart(req'[v]) => cart'[req'[v].cart].status # "NONE"
  <2>1. req[w].op = "expire"
    BY <1>8 DEF ExpireSession, ExpireQuota, InExpiry
  <2>2. \A st \in {"release", "abandon"} : ~NamesCart([req[w] EXCEPT !.step = st])
    <3>1. req[w] \in [op : {"expire"}, step : {"check", "release", "abandon"},
                      session : Sessions, seen : CartStatus]
      BY <2>1 DEF Typed, RequestOK, Idle
    <3> QED BY <3>1 DEF NamesCart
  <2>3. req' = [req EXCEPT ![w] = [req[w] EXCEPT !.step = "release"]]
        \/ req' = [req EXCEPT ![w] = [req[w] EXCEPT !.step = "abandon"]]
        \/ req' = [req EXCEPT ![w] = Idle]
    BY <1>8 DEF ExpireSession, ExpireQuota
  <2> QED BY <1>1, <1>2, <2>2, <2>3
<1>9. ASSUME NEW w \in Workers, NEW i \in Items, ReadQuota(w, i)
      PROVE  \A v \in Workers : NamesCart(req'[v]) => cart'[req'[v].cart].status # "NONE"
  BY <1>1, <1>9 DEF ReadQuota, NamesCart
<1>10. CASE Endings \/ Cleanup \/ CrashJob \/ UNCHANGED vars
            \/ (\E i \in Items, p \in Prices : UpdatePrice(i, p))
            \/ (\E u \in Users : SetWalletActive(u)) \/ SetListed \/ DeadlinePasses
  BY <1>3, <1>10 DEF Endings, CancelSession, ConsumeSession, Cleanup, CleanupSelect, CleanupApply,
       CleanupFails, CrashJob, UpdatePrice, SetWalletActive, SetListed, DeadlinePasses, vars
<1>11. CASE LazyExpiry
  BY <1>4, <1>7, <1>8, <1>11 DEF LazyExpiry
<1>12. CASE Others
  BY <1>4, <1>9, <1>10, <1>12 DEF Others
<1>13. CASE Crashes
  BY <1>4, <1>10, <1>13 DEF Crashes
<1> QED BY <1>4, <1>5, <1>6, <1>10, <1>11, <1>12, <1>13 DEF Next, Checkouts

(* Only a checkout opens a session, and of the cart it has named.          *)
LEMMA NewSession ==
  ASSUME Typed, Lives, [Next]_vars, NEW s \in Sessions,
         session[s].status = "NONE", session'[s].status # "NONE"
  PROVE  \E w \in Workers : NamesCart(req[w]) /\ session'[s].cart = req[w].cart
<1> USE DEF tables, world, budget
<1>1. session' # session
  OBVIOUS
<1>2. Filed /\ RowsOK
  BY DEF Lives, Typed
<1>3. ~ \E u \in Users, c \in Carts, B \in SUBSET Sessions : CartSaved(u, c, B)
  <2>1. ASSUME NEW u \in Users, NEW c \in Carts, NEW B \in SUBSET Sessions, CartSaved(u, c, B)
        PROVE  FALSE
    <3>1. session' = ExpiredSessions(B) /\ \A t \in B : Live(t)
      BY <1>2, <2>1, OpenedCart DEF CartSaved, SaveCart, Inserted
    <3> QED BY <1>2, <3>1, ExpiredSessionsType DEF Live
  <2> QED BY <2>1
<1>4. ~ \E w \in Workers : ExpireSession(w)
  <2>1. ASSUME NEW w \in Workers, ExpireSession(w)
        PROVE  FALSE
    <3>1. session' = ExpiredSessions({req[w].session}) /\ session[req[w].session].status # "NONE"
          /\ {req[w].session} \in SUBSET Sessions
      BY <2>1 DEF ExpireSession, InExpiry, Lives, ExpiryOK, Typed, RequestOK, Idle
    <3> QED BY <1>2, <3>1, ExpiredSessionsType
  <2> QED BY <2>1
<1>5. ~ \E t \in Sessions : CancelSession(t) \/ ConsumeSession(t)
  <2>1. ASSUME NEW t \in Sessions, CancelSession(t) \/ ConsumeSession(t)
        PROVE  FALSE
    <3>1. session[t].status # "NONE"
          /\ (session' = [session EXCEPT ![t].status = "CANCELLED"]
              \/ session' = [session EXCEPT ![t].status = "CONSUMED"])
      BY <2>1 DEF CancelSession, ConsumeSession, Unexpired, Live
    <3>2. \A st \in {"CANCELLED", "CONSUMED"} : [session EXCEPT ![t].status = st][s] = session[s]
      BY <1>2, <3>1 DEF RowsOK
    <3> QED BY <3>1, <3>2
  <2> QED BY <2>1
<1>6. ~CleanupApply
  <2>1. CASE CleanupApply
    <3>1. session' = ExpiredSessions({t \in job : Live(t)}) /\ {t \in job : Live(t)} \in SUBSET Sessions
      BY <1>2, <2>1 DEF CleanupApply, RowsOK
    <3> QED BY <1>2, <3>1, ExpiredSessionsType DEF Live
  <2> QED BY <2>1
<1>7. ASSUME NEW w \in Workers, OpenSession(w)
      PROVE  NamesCart(req[w]) /\ session'[s].cart = req[w].cart
  <2>1. PICK t \in Sessions :
          session' = [session EXCEPT ![t] = [status |-> "PENDING", cart |-> req[w].cart,
                                       lines |-> cart[req[w].cart].lines, prices |-> req[w].prices]]
    BY <1>7 DEF OpenSession
  <2>2. s = t
    BY <1>2, <2>1 DEF RowsOK
  <2> QED BY <1>2, <1>7, <2>1, <2>2 DEF OpenSession, NamesCart, RowsOK
<1>8. \/ \E w \in Workers : OpenSession(w)
      \/ UNCHANGED session
  <2>1. ASSUME NEW w \in Workers,
               \/ PriceCheckout(w) \/ ReuseSession(w) \/ RefuseCheckout(w)
               \/ FindNotDue(w) \/ ExpireCart(w) \/ ExpireQuota(w) \/ ExpireQuotaFails(w)
               \/ \E t \in Sessions : ReadSession(w, t)
        PROVE  UNCHANGED session
    BY <2>1 DEF PriceCheckout, ReuseSession, RefuseCheckout, FindNotDue, ExpireCart, ExpireQuota,
                ExpireQuotaFails, ReadSession
  <2>2. CASE Others
    BY <2>2 DEF Others, ReadQuota, WriteQuota, UpdatePrice, SetWalletActive, SetListed, DeadlinePasses
  <2>3. CASE Crashes
    BY <2>3 DEF Crashes, CrashJob, CrashRequest
  <2>4. CASE CleanupSelect \/ CleanupFails
    BY <2>4 DEF CleanupSelect, CleanupFails
  <2>5. ~CartApi /\ ~ \E w \in Workers, u \in Users : LoadCart(w, u)
    BY <1>2, <1>3, CartCalls
  <2>6. CASE UNCHANGED vars
    BY <2>6 DEF vars
  <2> QED
    BY <1>4, <1>5, <1>6, <2>1, <2>2, <2>3, <2>4, <2>5, <2>6
       DEF Next, Checkouts, LazyExpiry, Endings, Cleanup
<1> QED BY <1>1, <1>7, <1>8

LEMMA PlacedStep ==
  ASSUME Typed, Lives, Placed, [Next]_vars
  PROVE  Placed'
<1>1. Filed /\ (\A s \in Sessions : Frozen(s)) /\ \A c \in Carts : CartKept(c)
  BY QuotaKinds, CartsKept DEF Lives
<1>2. ASSUME NEW s \in Sessions, session'[s].status # "NONE"
      PROVE  cart'[session'[s].cart].status # "NONE"
  <2>1. CASE session[s].status # "NONE"
    BY <1>1, <2>1 DEF Placed, Frozen, CartKept, Filed
  <2>2. CASE session[s].status = "NONE"
    <3>1. PICK w \in Workers : NamesCart(req[w]) /\ session'[s].cart = req[w].cart
      BY <1>2, <2>2, NewSession
    <3>2. req[w].cart \in Carts
      BY <3>1 DEF Typed, RequestOK, NamesCart, Idle
    <3> QED BY <1>1, <3>1, <3>2 DEF Placed, CartKept
  <2> QED BY <2>1, <2>2
<1> QED BY <1>1, <1>2, RequestsPlaced DEF Placed

(* What the sessions of a table cost.                                      *)
Costed(ses) == [s \in Sessions |-> Payable(ses[s].prices, ses[s].lines)]
OrdersOf(u) == {t \in orders : Owner(t) = u}

LEMMA CostedNat ==
  ASSUME NEW ses \in [Sessions -> SessionRow], NEW s \in Sessions
  PROVE  Costed(ses)[s] \in Nat
BY PayableNat DEF SessionRow, Costed

LEMMA CostSum ==
  ASSUME NEW ses \in [Sessions -> SessionRow], NEW S \in SUBSET Sessions
  PROVE  SumFunction([s \in S |-> Payable(ses[s].prices, ses[s].lines)]) = SumFunctionOnSet(Costed(ses), S)
<1> DEFINE f == [s \in S |-> Payable(ses[s].prices, ses[s].lines)]
<1>1. DOMAIN f = S /\ \A s \in S : f[s] = Costed(ses)[s]
  BY DEF Costed
<1>2. \A s \in S : f[s] \in Nat
  BY <1>1, CostedNat
<1> HIDE DEF f
<1> QED BY <1>1, <1>2, SessionsFinite, SumIs DEF f

(* An order's customer and amount never change.                            *)
LEMMA OrdersKept ==
  ASSUME Typed, Lives, Placed, [Next]_vars, NEW s \in Sessions, session[s].status # "NONE"
  PROVE  Owner(s)' = Owner(s) /\ Costed(session')[s] = Costed(session)[s] /\ Amount(s) = Costed(session)[s]
<1>1. Filed /\ (\A t \in Sessions : Frozen(t)) /\ \A c \in Carts : CartKept(c)
  BY QuotaKinds, CartsKept DEF Lives
<1>2. session[s].cart \in Carts
  BY <1>1 DEF Filed
<1> QED BY <1>1, <1>2 DEF Placed, Frozen, CartKept, Owner, Costed, Amount

Paid(u) == SumFunction([s \in {t \in orders : Owner(t) = u} |-> Amount(s)])

LEMMA PaidIs ==
  ASSUME NEW u
  PROVE  /\ RowsOK => Paid(u) = SumFunctionOnSet(Costed(session), OrdersOf(u))
         /\ RowsOK' => Paid(u)' = SumFunctionOnSet(Costed(session'), OrdersOf(u)')
<1>1. /\ Paid(u) = SumFunction([s \in OrdersOf(u) |-> Payable(session[s].prices, session[s].lines)])
      /\ Paid(u)' = SumFunction([s \in OrdersOf(u)' |-> Payable(session'[s].prices, session'[s].lines)])
  BY DEF Paid, OrdersOf, Amount
<1>2. (RowsOK => OrdersOf(u) \in SUBSET Sessions) /\ (RowsOK' => OrdersOf(u)' \in SUBSET Sessions)
  BY DEF RowsOK, OrdersOf
<1>3. RowsOK => session \in [Sessions -> SessionRow]
  BY DEF RowsOK, SessionRow
<1>4. RowsOK' => session' \in [Sessions -> SessionRow]
  BY DEF RowsOK, SessionRow
<1> QED BY <1>1, <1>2, <1>3, <1>4, CostSum

LEMMA PaidStep ==
  ASSUME Typed, Typed', Lives, Counters, Placed, WalletPaysEachOrderOnce, [Next]_vars
  PROVE  WalletPaysEachOrderOnce'
<1>0. RowsOK /\ RowsOK' /\ orders \in SUBSET Sessions /\ \A s \in orders : session[s].status # "NONE"
  BY DEF Typed, Lives, SessionOK, RowsOK
<1> SUFFICES ASSUME NEW u \in Users
             PROVE  wallet'[u].balance + Paid(u)' = Funds
  BY DEF WalletPaysEachOrderOnce, Paid
<1>1. wallet[u].balance + Paid(u) = Funds /\ wallet[u].balance \in Nat
  BY DEF WalletPaysEachOrderOnce, Paid, Counters
<1> DEFINE S == OrdersOf(u)
           f == Costed(session)
           g == Costed(session')
<1>2. S \in SUBSET Sessions /\ IsFiniteSet(S) /\ \A s \in S : f[s] = g[s]
  BY <1>0, SessionsFinite, OrdersKept DEF OrdersOf
<1>3. \A s \in Sessions : f[s] \in Nat /\ g[s] \in Nat
  <2>1. session \in [Sessions -> SessionRow] /\ session' \in [Sessions -> SessionRow]
    BY <1>0 DEF RowsOK, SessionRow
  <2> QED BY <2>1, CostedNat
<1>4. Paid(u) = SumFunctionOnSet(f, S) /\ Paid(u)' = SumFunctionOnSet(g, OrdersOf(u)')
  BY <1>0, PaidIs
<1>5. SumFunctionOnSet(f, S) = SumFunctionOnSet(g, S) /\ SumFunctionOnSet(f, S) \in Nat
  <2> HIDE DEF S, f, g
  <2> QED BY <1>2, <1>3, SumSame, SumNat
<1>6. CASE orders' = orders /\ wallet'[u].balance = wallet[u].balance
  <2>1. OrdersOf(u)' = S
    BY <1>0, <1>6, OrdersKept DEF OrdersOf
  <2> QED BY <1>1, <1>4, <1>5, <1>6, <2>1
<1>7. ASSUME NEW s \in Sessions, ConsumeSession(s)
      PROVE  wallet'[u].balance + Paid(u)' = Funds
  <2>1. /\ orders' = orders \union {s} /\ s \notin orders
        /\ wallet' = Debited(s)
    BY <1>7 DEF ConsumeSession
  <2>2. Owner(s)' = Owner(s) /\ g[s] = f[s] /\ Amount(s) = f[s]
    BY <1>7, OrdersKept DEF ConsumeSession, Unexpired, Live
  <2>3. OrdersOf(u)' = IF Owner(s) = u THEN S \union {s} ELSE S
    BY <1>0, <2>1, <2>2, OrdersKept DEF OrdersOf
  <2>4. CASE Owner(s) # u
    <3>1. wallet'[u].balance = wallet[u].balance
      BY <2>1, <2>4 DEF Debited, Counters
    <3> QED BY <1>1, <1>4, <1>5, <2>3, <2>4, <3>1
  <2>5. CASE Owner(s) = u
    <3>1. wallet'[u].balance = wallet[u].balance - f[s]
      <4> DEFINE n == Amount(s)
      <4>1. wallet' = [wallet EXCEPT ![u].balance = @ - n]
        BY <2>1, <2>5 DEF Debited
      <4> HIDE DEF n
      <4>2. wallet'[u].balance = wallet[u].balance - n
        BY <4>1 DEF Counters
      <4> QED BY <2>2, <4>2 DEF n
    <3> DEFINE T == OrdersOf(u)'
    <3>2. T = S \union {s} /\ s \in T /\ T \ {s} = S
      BY <2>1, <2>3, <2>5 DEF OrdersOf
    <3>3. T \in SUBSET Sessions /\ IsFiniteSet(T)
      BY <1>2, <3>2, SessionsFinite
    <3> HIDE DEF T, S, f, g
    <3>4. SumFunctionOnSet(g, T) = g[s] + SumFunctionOnSet(g, S)
      BY <1>3, <3>2, <3>3, SumAdd
    <3>5. f[s] \in Nat
      BY <1>3
    <3>6. PICK n \in Nat, m \in Nat : n = f[s] /\ m = SumFunctionOnSet(f, S)
      BY <1>5, <3>5
    <3>7. Paid(u)' = n + m /\ Paid(u) = m
      BY <1>4, <1>5, <2>2, <3>4, <3>6 DEF T
    <3> QED BY <1>1, <3>1, <3>6, <3>7
  <2> QED BY <2>4, <2>5
<1> QED BY <1>6, <1>7, WalletStep

LEMMA InitPaid == Init => Placed /\ WalletPaysEachOrderOnce
<1> SUFFICES ASSUME Init PROVE Placed /\ WalletPaysEachOrderOnce
  OBVIOUS
<1>1. Placed
  BY DEF Init, Placed, NoSession, NamesCart, Idle
<1>2. ASSUME NEW u \in Users
      PROVE  wallet[u].balance + Paid(u) = Funds
  <2> DEFINE f == [s \in {t \in orders : Owner(t) = u} |-> Amount(s)]
  <2>1. DOMAIN f = {}
    BY DEF Init
  <2>2. SumFunction(f) = 0
    BY <2>1, SumEmpty DEF SumFunction
  <2>3. wallet[u].balance = Funds
    BY DEF Init
  <2> QED BY <2>2, <2>3, AmountsAssumption DEF Paid
<1> QED BY <1>1, <1>2 DEF WalletPaysEachOrderOnce, Paid

-----------------------------------------------------------------------------
(* The theorems *)

LEMMA InitConsistent == Init => Consistent
<1> SUFFICES ASSUME Init PROVE Consistent
  OBVIOUS
<1> USE DEF Init, NoCart, NoSession, NoResv, NoLines, Idle
<1>1. 0 \in 0 .. MaxQuantity /\ 0 \in 0 .. MaxSessions
  BY BoundsAssumption
<1>2. NoLines \in Lines
  BY <1>1 DEF Lines
<1>3. RowsOK
  BY <1>1, <1>2 DEF RowsOK, CartStatus, SessionStatus, ResvStatus
<1>4. Typed
  BY <1>3 DEF Typed, RequestOK
<1>5. Lives
  BY DEF Lives, Filed, SessionOK, Live, ExpiryOK, ReuseOK
<1> QED BY <1>4, <1>5 DEF Consistent

LEMMA ConsistentStep == Consistent /\ [Next]_vars => Consistent'
BY TypedStep, LivesStep DEF Consistent, Lives

(* The inductive invariant holds of every behaviour of carts, checkouts,   *)
(* expiries, cancellations, consumptions, cleanups, quota edits and        *)
(* crashes, however they interleave.                                       *)
THEOREM ConsistentAlways == Spec => []Consistent
<1>1. Init => Consistent
  BY InitConsistent
<1>2. Consistent /\ [Next]_vars => Consistent'
  BY ConsistentStep
<1> QED BY <1>1, <1>2, PTL DEF Spec

(* Every table and every request keeps its shape.                          *)
THEOREM RowsAlwaysOK == Spec => []RowsOK
<1>1. Consistent => RowsOK
  BY DEF Consistent, Typed
<1> QED BY <1>1, ConsistentAlways, PTL

(* A live session has neither given back nor sold what it reserved, which  *)
(* is what _consume_cart_checkout_session relies on.                       *)
THEOREM LiveAlwaysHoldsItsQuota == Spec => []LiveHoldsItsQuota
<1>1. Consistent => LiveHoldsItsQuota
  BY DEF Consistent, Lives, SessionOK, LiveHoldsItsQuota
<1> QED BY <1>1, ConsistentAlways, PTL

(* An order's quota is sold, and no quota is sold without an order.        *)
THEOREM OrdersAlwaysSellTheirQuota == Spec => []OrdersSellTheirQuota
<1>1. Consistent => OrdersSellTheirQuota
  BY DEF Consistent, Lives, SessionOK, OrdersSellTheirQuota
<1> QED BY <1>1, ConsistentAlways, PTL

LEMMA CountersAlways == Spec => []Counters
<1>1. Init => Counters
  <2> SUFFICES ASSUME Init PROVE Counters
    OBVIOUS
  <2>1. quota \in [Items -> QuotaRow] /\ \A i \in Items : quota[i].remaining <= quota[i].total
    BY AmountsAssumption DEF Init, QuotaRow
  <2>2. wallet \in [Users -> [balance : Nat, active : BOOLEAN]]
    BY AmountsAssumption DEF Init
  <2> QED BY <2>1, <2>2 DEF Init, Counters, EditOK, Idle
<1>2. Consistent /\ Counters /\ [Next]_vars => Counters'
  BY CountersStep DEF Consistent
<1> QED BY <1>1, <1>2, ConsistentAlways, PTL DEF Spec

(* The counters too are what they are declared to be: no step takes a      *)
(* quota row's remaining or reserved units or a balance below zero, nor    *)
(* remaining above its total, quota edits included.                        *)
THEOREM CheckoutTypeCorrect == Spec => []TypeOK
<1>1. Consistent /\ Counters => TypeOK
  BY DEF Consistent, Typed, Counters, QuotaRow, TypeOK
<1> QED BY <1>1, ConsistentAlways, CountersAlways, PTL

(* As long as the business has edited no quota, every unit of an item is   *)
(* for sale, reserved by a row or sold, through every interleaving of      *)
(* reservations, expiries, cancellations, consumptions and crashes.        *)
THEOREM QuotaAlwaysConserved == Spec => [](quotaEdits = 0 => QuotaConserved)
<1>1. Consistent /\ Consistent' /\ Counters /\ Unedited /\ [Next]_vars => Unedited'
  BY UneditedStep DEF Consistent
<1>2. Unedited => (quotaEdits = 0 => QuotaConserved)
  BY DEF Unedited
<1> QED BY <1>1, <1>2, InitConserved, ConsistentAlways, CountersAlways, PTL DEF Spec

(* As long as the business edits no quota, the sessions that have ended    *)
(* with quota still reserved, and that nobody is about to release, are no  *)
(* more than the requests and job runs that have died: no other order of   *)
(* the expiry paths' separate transactions forgets a reservation.          *)
THEOREM StrandedOnlyByDeaths == Spec => []StrandedByDeaths
<1>1. /\ Consistent /\ Counters /\ Unedited /\ Reserving /\ [Next]_vars => Reserving'
      /\ Consistent /\ Counters /\ Unedited /\ Reserving /\ Deaths /\ [Next]_vars => Deaths'
      /\ Consistent /\ Consistent' /\ Counters /\ Unedited /\ [Next]_vars => Unedited'
      /\ Deaths => StrandedByDeaths
  BY ReservingStep, DeathsStep, UneditedStep DEF Consistent, Deaths
<1> QED BY <1>1, InitConserved, InitDeaths, ConsistentAlways, CountersAlways, PTL DEF Spec

(* Every balance has paid the amount of each of its orders once, at the    *)
(* prices frozen in the session, and nothing else: no retry, stale write   *)
(* or concurrent consumption debits twice or orders unpaid.                *)
THEOREM WalletAlwaysPaysOnce == Spec => []WalletPaysEachOrderOnce
<1>1. /\ Consistent /\ Placed /\ [Next]_vars => Placed'
      /\ /\ Consistent /\ Consistent' /\ Counters /\ Placed /\ WalletPaysEachOrderOnce
         /\ [Next]_vars
         => WalletPaysEachOrderOnce'
  BY PlacedStep, PaidStep DEF Consistent
<1> QED BY <1>1, InitPaid, ConsistentAlways, CountersAlways, PTL DEF Spec

(* No stale write of a session's status revives a session that has ended.  *)
THEOREM SessionsAreNeverRevived == Spec => NeverRevived
<1>1. Consistent /\ [Next]_vars =>
        [\A s \in Sessions : session[s].status \in Ended => session'[s].status \in Ended]_vars
  BY StepKinds, EndedForGood DEF Consistent
<1> QED BY <1>1, ConsistentAlways, PTL DEF Spec, NeverRevived

(* Checkout implements the promise about limited stock: every step of it   *)
(* takes, gives back or sells the claims of sessions, or leaves them.      *)
LEMMA PromiseStep ==
  ASSUME Typed, Lives, [Next]_vars
  PROVE  [Promise!Next]_(Promise!vars)
<1> USE DEF Promise!vars
<1>1. SessionStep
  BY StepKinds
<1>2. resv \in [Sessions -> [Items -> ResvStatus]] /\ orders \subseteq Sessions
  BY DEF Typed, RowsOK
<1>3. CASE resv' = resv /\ orders' = orders
  BY <1>3
<1>4. ASSUME NEW s \in Sessions, Takes(s), orders' = orders, s \notin orders
      PROVE  [Promise!Next]_(Promise!vars)
  <2>1. CASE resv' = resv
    BY <1>4, <2>1
  <2>2. CASE resv' # resv
    <3>1. Promise!Take(s)
      BY <1>4, <2>2 DEF Takes, Promise!Take, NoResv
    <3> QED BY <3>1 DEF Promise!Next
  <2> QED BY <2>1, <2>2
<1>5. ASSUME NEW s \in Sessions, Opens(s) \/ Reuses(s)
      PROVE  [Promise!Next]_(Promise!vars)
  <2>1. s \notin orders
    BY <1>5 DEF Opens, Reuses, Lives, SessionOK
  <2> QED BY <1>4, <1>5, <2>1 DEF Opens, Reuses
<1>6. ASSUME NEW B \in SUBSET Sessions, Ends(B)
      PROVE  [Promise!Next]_(Promise!vars)
  <2>1. CASE resv' = resv
    BY <1>6, <2>1 DEF Ends
  <2>2. CASE resv' = ReleasedResv(B)
    <3> DEFINE D == B \ orders
    <3>1. \A s \in orders, i \in Items : resv[s][i] # "RESERVED"
      BY <1>2 DEF Lives, SessionOK
    <3>2. ASSUME NEW s \in B \intersect orders
          PROVE  resv[s] = [i \in Items |-> IF resv[s][i] = "RESERVED" THEN "RELEASED" ELSE resv[s][i]]
      BY <1>2, <3>1
    <3>3. resv' = [s \in Sessions |->
                     IF s \in D
                     THEN [i \in Items |-> IF resv[s][i] = "RESERVED" THEN "RELEASED" ELSE resv[s][i]]
                     ELSE resv[s]]
      BY <2>2, <3>2 DEF ReleasedResv
    <3>4. Promise!GiveBack(D)
      BY <1>6, <3>3 DEF Ends, Promise!GiveBack
    <3>5. D \in SUBSET Sessions
      OBVIOUS
    <3> QED BY <3>4, <3>5 DEF Promise!Next
  <2> QED BY <1>6, <2>1, <2>2 DEF Ends
<1>7. ASSUME NEW s \in Sessions, Sells(s)
      PROVE  [Promise!Next]_(Promise!vars)
  <2>1. s \notin orders
    BY <1>7 DEF Sells, Lives, SessionOK
  <2>2. (\E i \in Items : resv[s][i] # "NONE") => resv[s] # NoResv
    BY DEF NoResv
  <2>3. Promise!Sell(s)
    BY <1>7, <2>1, <2>2 DEF Sells, Promise!Sell
  <2> QED BY <2>3 DEF Promise!Next
<1> QED BY <1>1, <1>3, <1>5, <1>6, <1>7 DEF SessionStep

THEOREM CheckoutKeepsStockPromise == Spec => KeepsStockPromise
<1>1. Init => Promise!Init
  BY DEF Init, Promise!Init, NoResv
<1>2. Consistent /\ [Next]_vars => [Promise!Next]_(Promise!vars)
  BY PromiseStep DEF Consistent
<1> QED BY <1>1, <1>2, ConsistentAlways, PTL DEF Spec, KeepsStockPromise, Promise!Spec

-----------------------------------------------------------------------------
(* What the promise about limited stock amounts to.                        *)

Promised == Promise!TypeOK /\ Promise!SoldTogether

LEMMA PromisedStep == Promised /\ [Promise!Next]_(Promise!vars) => Promised'
<1> SUFFICES ASSUME Promised, [Promise!Next]_(Promise!vars) PROVE Promised'
  OBVIOUS
<1> USE DEF Promised, Promise!TypeOK, Promise!SoldTogether, Promise!Claims
<1>1. ASSUME NEW s \in Sessions, Promise!Take(s)
      PROVE  Promised'
  <2>1. PICK I \in SUBSET Items :
          resv' = [resv EXCEPT ![s] = [i \in Items |-> IF i \in I THEN "RESERVED" ELSE "NONE"]]
    BY <1>1 DEF Promise!Take
  <2> QED BY <1>1, <2>1 DEF Promise!Take
<1>2. ASSUME NEW s \in Sessions, Promise!Sell(s)
      PROVE  Promised'
  <2>1. PICK I \in SUBSET Items :
          resv' = [resv EXCEPT ![s] = [i \in Items |-> IF i \in I THEN "COMMITTED" ELSE "NONE"]]
    BY <1>2 DEF Promise!Sell
  <2> QED BY <1>2, <2>1 DEF Promise!Sell
<1>3. ASSUME NEW B \in SUBSET Sessions, Promise!GiveBack(B)
      PROVE  Promised'
  BY <1>3 DEF Promise!GiveBack
<1>4. CASE UNCHANGED Promise!vars
  BY <1>4 DEF Promise!vars
<1> QED BY <1>1, <1>2, <1>3, <1>4 DEF Promise!Next

(* What a session gave back is never sold to its customer, and what it     *)
(* sold is never given back; the promise alone implies it.                 *)
THEOREM ClaimsAreSettledForGood == Spec => Promise!SettledForGood
<1>1. ASSUME Promised, [Promise!Next]_(Promise!vars)
      PROVE  [\A s \in Sessions, i \in Items :
                resv[s][i] \in {"RELEASED", "COMMITTED"} => resv'[s][i] = resv[s][i]]_(Promise!vars)
  <2> SUFFICES ASSUME NEW t \in Sessions, NEW i \in Items, Promise!Next,
                      resv[t][i] \in {"RELEASED", "COMMITTED"}
               PROVE  resv'[t][i] = resv[t][i]
    BY <1>1
  <2>1. ASSUME NEW s \in Sessions, Promise!Take(s)
        PROVE  resv'[t][i] = resv[t][i]
    <3>1. s # t
      BY <2>1 DEF Promise!Take
    <3> QED BY <1>1, <2>1, <3>1 DEF Promise!Take, Promised, Promise!TypeOK
  <2>2. ASSUME NEW s \in Sessions, Promise!Sell(s)
        PROVE  resv'[t][i] = resv[t][i]
    <3>1. s # t
      BY <1>1, <2>2 DEF Promise!Sell, Promised, Promise!SoldTogether
    <3> QED BY <1>1, <2>2, <3>1 DEF Promise!Sell, Promised, Promise!TypeOK
  <2>3. ASSUME NEW B \in SUBSET Sessions, Promise!GiveBack(B)
        PROVE  resv'[t][i] = resv[t][i]
    BY <1>1, <2>3 DEF Promise!GiveBack, Promised, Promise!TypeOK
  <2> QED BY <2>1, <2>2, <2>3 DEF Promise!Next
<1>2. Promise!Init => Promised
  BY DEF Promise!Init, Promised, Promise!TypeOK, Promise!SoldTogether, Promise!Claims
<1>3. Spec => Promise!Spec
  BY CheckoutKeepsStockPromise DEF KeepsStockPromise
<1> QED BY <1>1, <1>2, <1>3, PromisedStep, PTL DEF Promise!Spec, Promise!SettledForGood
=============================================================================
