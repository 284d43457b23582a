---------------------------- MODULE StockPromise ----------------------------
(***************************************************************************)
(* What checkout promises about limited stock, whatever carries it out:    *)
(* a session claims an item at most once, a claim is settled at most once  *)
(* (given back or sold), and an order is made exactly when all the claims  *)
(* of its session are sold, none of them having been given back before.    *)
(***************************************************************************)
CONSTANTS Sessions, Items

VARIABLES
  claim,     \* claim[s][i]: what session s has done to the stock of item i
  sold       \* the sessions that became orders

vars == <<claim, sold>>

Claims == {"NONE", "RESERVED", "RELEASED", "COMMITTED"}

TypeOK ==
  /\ claim \in [Sessions -> [Items -> Claims]]
  /\ sold \subseteq Sessions

Init ==
  /\ claim = [s \in Sessions |-> [i \in Items |-> "NONE"]]
  /\ sold = {}

Take(s) ==
  /\ s \notin sold
  /\ \A i \in Items : claim[s][i] = "NONE"
  /\ \E I \in SUBSET Items :
       claim' = [claim EXCEPT ![s] = [i \in Items |-> IF i \in I THEN "RESERVED" ELSE "NONE"]]
  /\ UNCHANGED sold

GiveBack(B) ==
  /\ B \intersect sold = {}
  /\ claim' = [s \in Sessions |->
                 IF s \in B
                 THEN [i \in Items |-> IF claim[s][i] = "RESERVED" THEN "RELEASED" ELSE claim[s][i]]
                 ELSE claim[s]]
  /\ UNCHANGED sold

(* Every claim of s is sold; a session without claims may sell items       *)
(* directly.                                                               *)
Sell(s) ==
  /\ s \notin sold
  /\ \E I \in SUBSET Items :
       /\ \A i \in Items : claim[s][i] # "NONE" => claim[s][i] = "RESERVED" /\ i \in I
       /\ (\E i \in Items : claim[s][i] # "NONE") => \A i \in I : claim[s][i] = "RESERVED"
       /\ claim' = [claim EXCEPT ![s] = [i \in Items |-> IF i \in I THEN "COMMITTED" ELSE "NONE"]]
  /\ sold' = sold \union {s}

Next ==
  \/ \E s \in Sessions : Take(s) \/ Sell(s)
  \/ \E B \in SUBSET Sessions : GiveBack(B)

Spec == Init /\ [][Next]_vars

(* An order's claims are all sold; a sold claim belongs to an order.       *)
SoldTogether ==
  \A s \in Sessions, i \in Items :
     /\ s \in sold => claim[s][i] \in {"NONE", "COMMITTED"}
     /\ claim[s][i] = "COMMITTED" => s \in sold

(* A claim that is given back or sold stays so: what a session gave back   *)
(* is never sold to its customer, and what it sold is never given back.    *)
SettledForGood ==
  [][\A s \in Sessions, i \in Items :
       claim[s][i] \in {"RELEASED", "COMMITTED"} => claim'[s][i] = claim[s][i]]_vars
=============================================================================
