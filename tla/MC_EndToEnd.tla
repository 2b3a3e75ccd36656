---------------------------- MODULE MC_EndToEnd -----------------------------
(***************************************************************************)
(* One relay whose locks die with it, and two orders of one user that      *)
(* cannot both be open: the wallet holds what one of them reserves.        *)
(***************************************************************************)
EXTENDS EndToEnd

CONSTANTS r1, u1, treasury, usd, btc, f1, k1, k2

Seed == [a \in SeededAssets |-> 3]

Fundings == {[op |-> "fund", user |-> u1, asset |-> usd, amount |-> 3, key |-> f1]}

order(price, quantity, key) ==
    [op |-> "create", user |-> u1, base |-> btc, quote |-> usd, side |-> "buy",
     price |-> price, quantity |-> quantity, key |-> key]

(* With Scale = 8 and Decimals of 4 binary digits: 19, rounded to the tie  *)
(* 20, and 18, both more than half of what is funded.                      *)
Orders == {order(19, 1, k1), order(6, 3, k2)}

Cancels == {[op |-> "cancel", user |-> u1, order |-> n] : n \in OrderIds}

=============================================================================
