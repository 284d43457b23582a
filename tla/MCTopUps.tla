------------------------------ MODULE MCTopUps ------------------------------
(* A small instance of TopUps for TLC: one customer, card payments a of    *)
(* two units and b of one, and a bank transfer m of one, which webhooks    *)
(* and settlement rows may name too.                                       *)
EXTENDS TopUps

CONSTANTS c1, a, b, m

MCOwner == [i \in {a, b, m} |-> c1]
MCAmount == [i \in {a, b, m} |-> IF i = a THEN 2 ELSE 1]

Hook(via, i, kind, n) == [via |-> via, intent |-> i, kind |-> kind, amount |-> n]

MCEvents ==
  {Hook("IYZICO", a, "SUCCESS", 0), Hook("IYZICO", a, "FAILURE", 0),
   Hook("IYZICO", a, "REVERSAL", 0), Hook("MOCK", m, "SUCCESS", 0),
   Hook("MOCK", m, "REVERSAL", 1)}

Row(i, by, n) == [intent |-> i, by |-> by, amount |-> n]

MCRecords == {Row(a, "CONVERSATION", 2), Row(a, "PAYMENT_ID", 2), Row(m, "CONVERSATION", 1)}
=============================================================================
