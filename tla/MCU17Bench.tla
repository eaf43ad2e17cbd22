----------------------------- MODULE MCU17Bench -----------------------------
(* A byte of five values and an image of fifteen: the sum begins at 20 and  *)
(* ends before 41 in base 5, so the address carries, the end borrows and    *)
(* the sum of a full payload wraps.  One payload has the markers for its    *)
(* checksum.                                                                *)
EXTENDS U17Bench

MCPayloads ==
    {<<>>} \cup [1..2 -> {0, 1, 4}]
    \cup {[i \in 1..10 |-> IF i <= n THEN 4 ELSE 0] : n \in 3..10}

MCTemplate == [o \in Offsets |-> o % 5]
=============================================================================
