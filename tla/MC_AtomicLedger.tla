-------------------------- MODULE MC_AtomicLedger ---------------------------
(***************************************************************************)
(* A small instance of the atomic ledger, in binary: 8 fine units to a     *)
(* unit, and Decimals of 5 digits.  Amounts fall below, at and above half  *)
(* a unit, and a product or a balance of 4 units or more loses its last    *)
(* digit.  Keys are spent once and orders canceled once, so the instance   *)
(* is finite without a bound.                                              *)
(***************************************************************************)
EXTENDS AtomicLedger

CONSTANTS u1, u2, treasury, usd, btc, f1, f2, f3, k1, k2

Seed == [a \in SeededAssets |-> 10]

fund(user, asset, amount, key) ==
    [op |-> "fund", user |-> user, asset |-> asset, amount |-> amount, key |-> key]

create(user, side, price, quantity, key) ==
    [op |-> "create", user |-> user, base |-> btc, quote |-> usd, side |-> side,
     price |-> price, quantity |-> quantity, key |-> key]

Fundings == {fund(u1, usd, 5, f1), fund(u1, btc, 1, f2), fund(u2, usd, 5, f3),
             fund(u2, usd, 1, f1)}

(* In fine units: 28, a tie; 11, which with 4 units locked is 43, rounded  *)
(* to the tie 44; one whole unit; 35, rounded to the tie 36; and 5, which  *)
(* leaves 35 of 5 available units.                                         *)
OrdersOfBothUsers ==
    {create(u1, "buy", 4, 7, k1), create(u1, "buy", 1, 11, k2),
     create(u1, "sell", 1, 1, k2), create(u2, "buy", 5, 7, k1),
     create(u2, "buy", 1, 5, k1)}

Cancels == {[op |-> "cancel", user |-> u, order |-> n] : u \in Users, n \in 1 .. 3}

=============================================================================
