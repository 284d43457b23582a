--------------------------- MODULE MCSettlements ---------------------------
(* A small instance of Settlements for TLC: two files that share a row.    *)
(* Both rows are about one intent: the first names it by the conversation, *)
(* the second by the payment id, which it gets when it is paid for.        *)
EXTENDS Settlements

CONSTANTS f1, f2, i1, c1, p1

MCRowsOf == [f \in {f1, f2} |-> IF f = f1 THEN <<1, 2>> ELSE <<2>>]
MCRowMarks == [r \in Records |-> IF r = 1 THEN {c1} ELSE {p1}]
MCEarlyMarks == [i \in {i1} |-> {c1}]
MCLateMarks == [i \in {i1} |-> {p1}]
=============================================================================
