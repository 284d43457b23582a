---------------------------- MODULE TopUpPromise ----------------------------
(***************************************************************************)
(* What the payment code promises about the money of one top-up, whatever  *)
(* webhooks, callbacks, settlement rows and operators do.  It can come in  *)
(* by the provider, waiting for its settlement, and by hand, available at  *)
(* once: by each at most once, but the code does not promise that it comes *)
(* in by one of them only.  What waits becomes available once, and never   *)
(* beside what came in by hand; and the provider can take back no more     *)
(* than the amount of one payment.                                         *)
(***************************************************************************)
EXTENDS Integers

CONSTANTS Intents, Amount

VARIABLES
  money,     \* money[i]: where the provider's payment of intent i stands
  byHand,    \* byHand[i]: an operator has credited intent i
  claimed    \* claimed[i]: how much of it the provider has taken back

vars == <<money, byHand, claimed>>

Init ==
  /\ money = [i \in Intents |-> "NONE"]
  /\ byHand = [i \in Intents |-> FALSE]
  /\ claimed = [i \in Intents |-> 0]

Credit(i) ==
  /\ money[i] = "NONE"
  /\ money' = [money EXCEPT ![i] = "PENDING"]
  /\ UNCHANGED <<byHand, claimed>>

Settle(i) ==
  /\ money[i] = "PENDING" /\ ~byHand[i]
  /\ money' = [money EXCEPT ![i] = "AVAILABLE"]
  /\ UNCHANGED <<byHand, claimed>>

CreditByHand(i) ==
  /\ money[i] # "AVAILABLE" /\ ~byHand[i]
  /\ byHand' = [byHand EXCEPT ![i] = TRUE]
  /\ UNCHANGED <<money, claimed>>

Reverse(i) ==
  /\ money[i] # "NONE" \/ byHand[i]
  /\ \E n \in 1..(Amount[i] - claimed[i]) :
       claimed' = [claimed EXCEPT ![i] = claimed[i] + n]
  /\ UNCHANGED <<money, byHand>>

Next == \E i \in Intents : Credit(i) \/ Settle(i) \/ CreditByHand(i) \/ Reverse(i)

Spec == Init /\ [][Next]_vars

(* Nothing is taken back of a top-up that never came in, and never more    *)
(* than one payment of it.                                                 *)
ClaimsCovered ==
  \A i \in Intents :
     /\ claimed[i] \in 0..Amount[i]
     /\ money[i] = "NONE" /\ ~byHand[i] => claimed[i] = 0
=============================================================================
