------------------------------ MODULE Amounts ------------------------------
(***************************************************************************)
(* The arithmetic of the ledger's amounts, which rounds twice.             *)
(*                                                                         *)
(* Every balance, price, quantity and amount is a Numeric(38, 18) column:  *)
(* an integer number of units of 10^-18.  Python reads them as Decimals,   *)
(* exactly, and rounds the result of every *, + and - to the 28            *)
(* significant digits of the default Decimal context, half to even.        *)
(* PostgreSQL rounds what it is given to the column, half away from zero.  *)
(*                                                                         *)
(* Here a stored amount is a natural number of units, and a Decimal a      *)
(* natural number of fine units, Scale of them to a unit.  In the program  *)
(* Base is 10, Scale 10^18 and Precision 10^28, the least number with too  *)
(* many digits.                                                            *)
(*                                                                         *)
(* The 20 integer digits of the column are not modelled: the schemas admit *)
(* no larger amount (max_digits, decimal_places), and none is created.     *)
(***************************************************************************)
EXTENDS Integers

CONSTANTS Base, Scale, Precision

(* Base^n, by a function that proofs can unfold. *)
power(n) ==
    LET p[i \in 0 .. n] == IF i = 0 THEN 1 ELSE Base * p[i - 1]
    IN  p[n]

(* The base is even: half a unit has a representation.                     *)
ASSUME ScaleAssumption ==
    /\ Base \in Nat \ {0} /\ Base % 2 = 0
    /\ Scale \in Nat \ {0} /\ \E n \in 1 .. Scale : Scale = power(n)
    /\ Precision \in Nat \ {0}

(* A stored amount, in fine units. *)
Fine(units) == units * Scale

(* The weight of the last digit that a Decimal of this size can have.      *)
quantum(fine) ==
    power(CHOOSE n \in 0 .. fine :
              /\ fine < power(n) * Precision
              /\ \A m \in 0 .. n - 1 : power(m) * Precision <= fine)

(* The result of a Decimal operation whose exact value is this: rounded to *)
(* the digits there are, half to even.                                     *)
context(fine) ==
    LET q == quantum(fine)
        n == fine \div q
        r == fine % q
    IN  q * (IF 2 * r > q \/ (2 * r = q /\ n % 2 = 1) THEN n + 1 ELSE n)

(* What a Numeric(38, 18) column keeps of a non-negative amount given in   *)
(* fine units: PostgreSQL rounds to the nearest unit, and half a unit up.  *)
numeric(fine) == (2 * fine + Scale) \div (2 * Scale)

(* What is stored after "balance += amount" and "balance -= amount".       *)
plus(balance, amount)  == numeric(context(Fine(balance) + amount))
minus(balance, amount) == numeric(context(Fine(balance) - amount))

(* The amount an order reserves, in fine units: price * quantity of the    *)
(* quote asset for a buy order, the quantity of the base asset for a sell. *)
reservation_amount(side, price, quantity) ==
    IF side = "buy" THEN context(price * quantity) ELSE Fine(quantity)

(* An amount half way between two units.  Taken from one balance and added *)
(* to the other, it is rounded up in both.                                 *)
IsTie(fine) == 2 * (fine % Scale) = Scale

(* An amount that is not a whole number of units: a column rounds it.      *)
IsInexact(fine) == fine % Scale # 0

=============================================================================
