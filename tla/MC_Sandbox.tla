----------------------------- MODULE MC_Sandbox -----------------------------
(***************************************************************************)
(* Small instances of the API for TLC.  A run picks one group of inputs;   *)
(* every request may send any of them, so that two requests with the same  *)
(* input are a client's retry.                                             *)
(***************************************************************************)
EXTENDS SandboxInv, TLC

CONSTANTS p1, p2, p3, p4, p5, u1, u2, treasury, usd, btc, eur, f1, f2, k1, k2

ThreeRequests == {p1, p2, p3}
FourRequests  == {p1, p2, p3, p4}
FiveRequests  == {p1, p2, p3, p4, p5}
Symmetric     == Permutations(Requests)

Seed == [a \in SeededAssets |-> 3]

fund(user, asset, amount, key) ==
    [op |-> "fund", user |-> user, asset |-> asset, amount |-> amount, key |-> key]

create(user, side, price, quantity, key) ==
    [op |-> "create", user |-> user, base |-> btc, quote |-> usd, side |-> side,
     price |-> price, quantity |-> quantity, key |-> key]

cancel(user, order) == [op |-> "cancel", user |-> user, order |-> order]

None == {}

-----------------------------------------------------------------------------
(* funding_race: two users' first fundings, a key shared by both, and a    *)
(* treasury of 3 that cannot pay every request.                            *)
RacingFundings == {fund(u1, usd, 1, f1), fund(u1, usd, 2, f2),
                   fund(u2, usd, 1, f1), fund(u2, usd, 2, f1)}

(* orders_race: one user buys and sells with the same key, buys more with  *)
(* it or with another key, and cancels; the wallets allow some of it.      *)
(* Scale = 2, and all amounts are whole units.                             *)
FirstFundings == {fund(u1, usd, 3, f1), fund(u1, btc, 1, f2)}
RacingOrders  == {create(u1, "buy", 2, 2, k1), create(u1, "buy", 2, 3, k1),
                  create(u1, "sell", 2, 1, k1), create(u1, "buy", 2, 1, k2)}
CancelFirst   == {cancel(u1, 1)}

(* cancel_race, with Scale = 8: reservations of half a unit, which rounds  *)
(* to one, and of 11/8, which rounds to one and, added to one unit in a    *)
(* Decimal of 4 binary digits, to two.                                     *)
OneFunding    == {fund(u1, usd, 3, f1)}
RoundedOrders == {create(u1, "buy", 4, 1, k1), create(u1, "buy", 11, 1, k2)}

(* answers: an inactive asset with a treasury, an active one without, one  *)
(* asset on both sides, nothing to fund, another user's order, a funding   *)
(* key equal to the key of an order's ledger transaction, and with         *)
(* Scale = 4 a reservation of a quarter, which rounds to nothing.          *)
CollidingKeys   == {f1, <<u1, k1>>}
RefusedFundings == {fund(u1, usd, 2, f1), fund(u1, usd, 1, <<u1, k1>>),
                    fund(u1, btc, 1, f1), fund(u1, eur, 1, f1),
                    fund(u1, usd, 0, f1)}
buy_eur(price, key) == [create(u1, "buy", price, 1, key) EXCEPT !.base = eur]
RefusedOrders   == {buy_eur(4, k1), buy_eur(1, k1), create(u1, "buy", 4, 1, k1),
                    [buy_eur(4, k1) EXCEPT !.base = usd]}
CancelByBoth    == {cancel(u1, 1), cancel(u2, 1)}

=============================================================================
