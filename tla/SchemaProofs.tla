---------------------------- MODULE SchemaProofs ----------------------------
(***************************************************************************)
(* Facts about the rows of the schema that the proofs of other modules     *)
(* use: what rounding to a column does to an amount, for every Scale, that *)
(* the rows the services write are well typed, and what appending or       *)
(* updating one row does to a sum over a table.                            *)
(***************************************************************************)
EXTENDS Schema, Sums, WellFoundedInduction, TLAPS

(* Induction.  A proof by it is the search for a least counterexample:     *)
(* the order of the natural numbers is well founded, so that every         *)
(* non-empty set of them has a least element.                              *)
LEMMA LeastNumber ==
    ASSUME NEW T, T \subseteq Nat, T # {}
    PROVE  \E n \in T : \A m \in T : n <= m
<1> DEFINE R == OpToRel(<, Nat)
<1>1. IsWellFoundedOn(R, Nat)
  BY NatLessThanWellFounded
<1>2. \A m, n \in Nat : <<m, n>> \in R <=> m < n
  BY DEF OpToRel
<1> HIDE DEF R
<1>3. PICK n \in T : \A m \in T : <<m, n>> \notin R
  BY <1>1, WFMin
<1>4. \A m \in T : ~(m < n)
  BY <1>2, <1>3
<1> QED
  BY <1>4

(* What contains 0 and the successor of all it contains contains them all. *)
LEMMA SetInduction ==
    ASSUME NEW T, 0 \in T, \A n \in Nat : n \in T => n + 1 \in T
    PROVE  Nat \subseteq T
<1> SUFFICES ASSUME Nat \ T # {} PROVE FALSE
  OBVIOUS
<1>1. PICK n \in Nat \ T : \A m \in Nat \ T : n <= m
  BY LeastNumber
<1> QED
  BY <1>1

-----------------------------------------------------------------------------
(* What a column keeps.                                                    *)

LEMMA ScaleNat == Scale \in Nat /\ Scale > 0
BY ScaleAssumption

(* The rounded amount is the only one within half a unit, a tie going up.  *)
LEMMA NumericIs ==
    ASSUME NEW x \in Int, NEW n \in Int
    PROVE  numeric(x) = n <=>
               2 * Fine(n) <= 2 * x + Scale /\ 2 * x + Scale < 2 * Fine(n) + 2 * Scale
BY ScaleNat DEF numeric, Fine

LEMMA NumericInt == ASSUME NEW x \in Int PROVE numeric(x) \in Int
BY ScaleNat DEF numeric

(* A balance that already fits its column is stored as it is. *)
LEMMA NumericFine == ASSUME NEW n \in Int PROVE numeric(Fine(n)) = n
BY ScaleNat, NumericIs DEF Fine

LEMMA NumericNat == ASSUME NEW x \in Nat PROVE numeric(x) \in Nat
BY ScaleNat, NumericInt, NumericIs DEF Fine

(* Crediting an amount rounds that amount. *)
LEMMA NumericAdd ==
    ASSUME NEW n \in Int, NEW x \in Int
    PROVE  numeric(Fine(n) + x) = n + numeric(x)
<1>1. n + numeric(x) \in Int
  BY NumericInt
<1>2. /\ 2 * Fine(numeric(x)) <= 2 * x + Scale
      /\ 2 * x + Scale < 2 * Fine(numeric(x)) + 2 * Scale
  BY NumericInt, NumericIs
<1>3. Fine(n + numeric(x)) = Fine(n) + Fine(numeric(x))
  BY NumericInt, ScaleNat DEF Fine
<1>4. Fine(n) \in Int /\ Fine(numeric(x)) \in Int
  BY NumericInt, ScaleNat DEF Fine
<1> QED
  BY <1>1, <1>2, <1>3, <1>4, NumericIs, ScaleNat

(* Debiting it does too, but for a tie: what is left of the balance and    *)
(* what left it are then both rounded up, and together gain one unit.      *)
LEMMA ColumnDrift ==
    ASSUME NEW n \in Nat, NEW x \in Nat
    PROVE  /\ numeric(Fine(n) + x) = n + numeric(x)
           /\ numeric(Fine(n) - x) =
                 n - numeric(x) + (IF IsTie(x) THEN 1 ELSE 0)
<1> DEFINE q == x \div Scale
           r == x % Scale
<1>1. /\ q \in Int /\ r \in Int
      /\ x = Scale * q + r /\ 0 <= r /\ r < Scale
  BY ScaleNat
<1>tie. IsTie(x) <=> 2 * r = Scale
  BY DEF IsTie
<1> HIDE DEF q, r
<1>2. Fine(n - q) = Fine(n) - Fine(q) /\ Fine(n - q - 1) = Fine(n) - Fine(q) - Scale
  BY <1>1, ScaleNat DEF Fine
<1>3. Fine(q) = Scale * q /\ Fine(q + 1) = Scale * q + Scale
      /\ Fine(n) \in Int /\ Fine(q) \in Int
  BY <1>1, ScaleNat DEF Fine
<1>4. CASE 2 * r < Scale
  <2>1. numeric(x) = q
    BY <1>1, <1>3, <1>4, NumericIs, ScaleNat
  <2>2. numeric(Fine(n) - x) = n - q
    <3>1. Fine(n) - x \in Int /\ n - q \in Int /\ Fine(q) = x - r
      BY <1>1, <1>3, ScaleNat
    <3>2. /\ 2 * Fine(n - q) <= 2 * (Fine(n) - x) + Scale
          /\ 2 * (Fine(n) - x) + Scale < 2 * Fine(n - q) + 2 * Scale
      BY <1>1, <1>2, <1>3, <1>4, <3>1, ScaleNat
    <3> QED
      BY <3>1, <3>2, NumericIs
  <2> QED
    BY <1>1, <1>tie, <1>4, <2>1, <2>2, NumericAdd, ScaleNat
<1>5. CASE 2 * r = Scale
  <2>1. numeric(x) = q + 1
    BY <1>1, <1>3, <1>5, NumericIs, ScaleNat
  <2>2. numeric(Fine(n) - x) = n - q
    BY <1>1, <1>2, <1>3, <1>5, NumericIs, ScaleNat
  <2> QED
    BY <1>1, <1>tie, <1>5, <2>1, <2>2, NumericAdd, ScaleNat
<1>6. CASE 2 * r > Scale
  <2>1. numeric(x) = q + 1
    BY <1>1, <1>3, <1>6, NumericIs, ScaleNat
  <2>2. numeric(Fine(n) - x) = n - q - 1
    BY <1>1, <1>2, <1>3, <1>6, NumericIs, ScaleNat
  <2> QED
    BY <1>1, <1>tie, <1>6, <2>1, <2>2, NumericAdd, ScaleNat
<1> QED
  BY <1>1, <1>4, <1>5, <1>6, ScaleNat

-----------------------------------------------------------------------------
(* The digits of a Decimal.  power(n) is Base^n.                           *)

PartialPowers(n, p) == p = [i \in 0 .. n |-> IF i = 0 THEN 1 ELSE Base * p[i - 1]]

LEMMA PowersExist == ASSUME NEW n \in Nat PROVE \E p : PartialPowers(n, p)
<1> DEFINE T == {k \in Nat : \E p : PartialPowers(k, p)}
<1>1. 0 \in T
  <2>1. PartialPowers(0, [i \in 0 .. 0 |-> 1])
    BY DEF PartialPowers
  <2> QED
    BY <2>1
<1>2. ASSUME NEW k \in Nat, k \in T PROVE k + 1 \in T
  <2>1. PICK p : PartialPowers(k, p)
    BY <1>2
  <2> DEFINE g == [i \in 0 .. k + 1 |-> IF i = k + 1 THEN Base * p[k] ELSE p[i]]
  <2>2. \A i \in 0 .. k + 1 : g[i] = IF i = 0 THEN 1 ELSE Base * g[i - 1]
    BY <2>1 DEF PartialPowers
  <2>3. PartialPowers(k + 1, g)
    BY <2>2 DEF PartialPowers
  <2> QED
    BY <2>3
<1> HIDE DEF T
<1>3. Nat \subseteq T
  BY <1>1, <1>2, SetInduction
<1> QED
  BY <1>3 DEF T

LEMMA PowersAgree ==
    ASSUME NEW n \in Nat, NEW m \in Nat, NEW p, NEW s,
           PartialPowers(n, p), PartialPowers(m, s), NEW k \in Nat, k <= n, k <= m
    PROVE  p[k] = s[k]
<1> DEFINE T == {j \in Nat : j <= k => p[j] = s[j]}
<1>1. 0 \in T
  BY DEF PartialPowers
<1>2. ASSUME NEW j \in Nat, j \in T PROVE j + 1 \in T
  BY <1>2 DEF PartialPowers
<1> HIDE DEF T
<1>3. Nat \subseteq T
  BY <1>1, <1>2, SetInduction
<1> QED
  BY <1>3 DEF T

LEMMA PowerIs ==
    ASSUME NEW n \in Nat
    PROVE  \E p : PartialPowers(n, p) /\ power(n) = p[n]
<1>1. \E p : PartialPowers(n, p)
  BY PowersExist
<1> DEFINE c == CHOOSE p : PartialPowers(n, p)
<1>2. PartialPowers(n, c)
  BY <1>1
<1>3. power(n) = c[n]
  BY DEF power, PartialPowers
<1> QED
  BY <1>2, <1>3

LEMMA PowerStep ==
    ASSUME NEW n \in Nat
    PROVE  power(0) = 1 /\ power(n + 1) = Base * power(n)
<1>1. PICK z : PartialPowers(0, z) /\ power(0) = z[0]
  BY PowerIs
<1>2. PICK p : PartialPowers(n, p) /\ power(n) = p[n]
  BY PowerIs
<1>3. PICK s : PartialPowers(n + 1, s) /\ power(n + 1) = s[n + 1]
  BY PowerIs
<1>4. s[n] = p[n]
  <2>1. n + 1 \in Nat /\ n <= n /\ n <= n + 1
    OBVIOUS
  <2> QED
    BY <1>2, <1>3, <2>1, PowersAgree
<1>5. z[0] = 1 /\ s[n + 1] = Base * s[n]
  BY <1>1, <1>3 DEF PartialPowers
<1> QED
  BY <1>1, <1>2, <1>3, <1>4, <1>5

LEMMA BaseIs ==
    /\ Base \in Nat /\ Base >= 2
    /\ \E h \in Nat : Base = 2 * h
<1>1. Base = 2 * (Base \div 2) /\ Base \div 2 \in Nat
  BY ScaleAssumption
<1> QED
  BY <1>1, ScaleAssumption

LEMMA PowerGrows ==
    ASSUME NEW n \in Nat PROVE power(n) \in Nat /\ n < power(n)
<1> DEFINE T == {k \in Nat : power(k) \in Nat /\ k < power(k)}
<1>1. 0 \in T
  BY PowerStep
<1>2. ASSUME NEW k \in Nat, k \in T PROVE k + 1 \in T
  <2>1. power(k + 1) = Base * power(k) /\ power(k) \in Nat /\ k < power(k)
    BY <1>2, PowerStep
  <2>2. Base * power(k) \in Nat /\ Base * power(k) >= 2 * power(k)
    BY <2>1, BaseIs
  <2> QED
    BY <2>1, <2>2
<1> HIDE DEF T
<1>3. Nat \subseteq T
  BY <1>1, <1>2, SetInduction
<1> QED
  BY <1>3 DEF T

(* A power is a multiple of every lower one. *)
LEMMA PowerDivides ==
    ASSUME NEW m \in Nat, NEW n \in Nat, m <= n
    PROVE  \E k \in Nat : power(n) = k * power(m)
<1> DEFINE T == {j \in Nat : m <= j => \E k \in Nat : power(j) = k * power(m)}
<1>1. 0 \in T
  <2>1. power(0) = 1 * power(0)
    BY PowerGrows
  <2> QED
    BY <2>1
<1>2. ASSUME NEW j \in Nat, j \in T PROVE j + 1 \in T
  <2>1. CASE m <= j
    <3>1. PICK k \in Nat : power(j) = k * power(m)
      BY <1>2, <2>1
    <3>2. power(j + 1) = Base * power(j) /\ power(m) \in Nat
      BY PowerStep, PowerGrows
    <3>3. Base * (k * power(m)) = (Base * k) * power(m) /\ Base * k \in Nat
      BY <3>2, BaseIs
    <3> QED
      BY <3>1, <3>2, <3>3
  <2>2. CASE m = j + 1
    <3>1. power(j + 1) = 1 * power(m)
      BY <2>2, PowerGrows
    <3> QED
      BY <3>1
  <2>3. CASE m > j + 1
    BY <2>3
  <2> QED
    BY <2>1, <2>2, <2>3
<1> HIDE DEF T
<1>3. Nat \subseteq T
  BY <1>1, <1>2, SetInduction
<1> QED
  BY <1>3 DEF T

(* The last digit has the least weight that leaves digits enough. *)
LEMMA QuantumIs ==
    ASSUME NEW x \in Nat
    PROVE  \E n \in Nat :
               /\ quantum(x) = power(n)
               /\ \A m \in Nat : m < n => power(m) * Precision <= x
<1> DEFINE Enough(n) == /\ x < power(n) * Precision
                        /\ \A m \in 0 .. n - 1 : power(m) * Precision <= x
           T == {n \in 0 .. x : x < power(n) * Precision}
<1>1. x \in T
  <2>1. power(x) \in Nat /\ x < power(x) /\ Precision \in Nat /\ Precision >= 1
    BY PowerGrows, ScaleAssumption
  <2>2. power(x) * Precision >= power(x) /\ power(x) * Precision \in Nat
    BY <2>1
  <2> QED
    BY <2>1, <2>2
<1>2. PICK n \in T : \A m \in T : n <= m
  <2>1. T \subseteq Nat /\ T # {}
    BY <1>1
  <2> QED
    BY <2>1, LeastNumber
<1>3. Enough(n)
  <2>1. x < power(n) * Precision
    BY <1>2
  <2>2. ASSUME NEW m \in 0 .. n - 1 PROVE power(m) * Precision <= x
    <3>1. m \in Nat /\ m \in 0 .. x /\ m < n
      BY <1>2
    <3>2. m \notin T
      BY <1>2, <3>1
    <3>3. power(m) * Precision \in Nat
      BY <3>1, PowerGrows, ScaleAssumption
    <3> QED
      BY <3>1, <3>2, <3>3
  <2> QED
    BY <2>1, <2>2
<1>4. n \in 0 .. x
  BY <1>2
<1> HIDE DEF T
<1> DEFINE c == CHOOSE k \in 0 .. x : Enough(k)
<1>5. c \in 0 .. x /\ Enough(c)
  BY <1>3, <1>4
<1>6. quantum(x) = power(c)
  BY DEF quantum
<1>7. \A m \in Nat : m < c => m \in 0 .. c - 1
  BY <1>5
<1> HIDE DEF c
<1> QED
  BY <1>5, <1>6, <1>7

LEMMA QuantumNat ==
    ASSUME NEW x \in Nat PROVE quantum(x) \in Nat /\ quantum(x) > 0
<1>1. PICK n \in Nat : quantum(x) = power(n)
  BY QuantumIs
<1>2. power(n) \in Nat /\ n < power(n)
  BY PowerGrows
<1> QED
  BY <1>1, <1>2

(* The context's result is a multiple of the last digit's weight, and the  *)
(* nearest.                                                                *)
LEMMA ContextNear ==
    ASSUME NEW x \in Nat
    PROVE  \E m \in Nat : /\ context(x) = quantum(x) * m
                          /\ 2 * x <= 2 * context(x) + quantum(x)
                          /\ 2 * context(x) <= 2 * x + quantum(x)
<1> SUFFICES ASSUME NEW q \in Nat, q > 0, q = quantum(x)
             PROVE  \E m \in Nat : /\ context(x) = q * m
                                   /\ 2 * x <= 2 * context(x) + q
                                   /\ 2 * context(x) <= 2 * x + q
  BY QuantumNat
<1> DEFINE n == x \div q
           r == x % q
<1>1. /\ n \in Nat /\ r \in Nat /\ x = q * n + r /\ r < q
  OBVIOUS
<1>2. context(x) = q * (IF 2 * r > q \/ (2 * r = q /\ n % 2 = 1) THEN n + 1 ELSE n)
  BY DEF context
<1> HIDE DEF n, r
<1>3. q * n \in Nat /\ q * (n + 1) = q * n + q /\ n + 1 \in Nat
  BY <1>1
<1>4. CASE 2 * r > q \/ (2 * r = q /\ n % 2 = 1)
  BY <1>1, <1>2, <1>3, <1>4
<1>5. CASE ~(2 * r > q \/ (2 * r = q /\ n % 2 = 1))
  BY <1>1, <1>2, <1>3, <1>5
<1> QED
  BY <1>4, <1>5

LEMMA ContextNat == ASSUME NEW x \in Nat PROVE context(x) \in Nat
<1>1. PICK m \in Nat : context(x) = quantum(x) * m
  BY ContextNear
<1>2. quantum(x) \in Nat
  BY QuantumNat
<1> QED
  BY <1>1, <1>2

-----------------------------------------------------------------------------
(* Amounts so small that they have digits after the unit.  Half a unit is  *)
(* then a multiple of the last digit's weight.                             *)

Small(x) == x \in Nat /\ Base * x < Scale * Precision

LEMMA HalfUnits ==
    ASSUME NEW x, Small(x)
    PROVE  \E k \in Nat : Scale = 2 * (k * quantum(x))
<1>1. x \in Nat /\ Base * x < Scale * Precision
  BY DEF Small
<1>2. PICK n \in Nat : /\ quantum(x) = power(n)
                       /\ \A m \in Nat : m < n => power(m) * Precision <= x
  BY <1>1, QuantumIs
<1>3. PICK s \in Nat : Scale = power(s + 1)
  <2>1. PICK z \in 1 .. Scale : Scale = power(z)
    BY ScaleAssumption
  <2>2. z - 1 \in Nat /\ z = (z - 1) + 1
    BY <2>1, ScaleAssumption
  <2> QED
    BY <2>1, <2>2
<1>4. /\ Scale = Base * power(s) /\ power(s) \in Nat
      /\ Precision \in Nat
  BY <1>3, PowerStep, PowerGrows, ScaleAssumption
<1>5. n <= s
  <2> SUFFICES ASSUME s < n PROVE FALSE
    OBVIOUS
  <2>1. power(s) * Precision <= x
    BY <1>2
  <2>2. (Base * power(s)) * Precision = Base * (power(s) * Precision)
    BY <1>4, BaseIs
  <2>3. Base * (power(s) * Precision) <= Base * x
    <3> DEFINE y == power(s) * Precision
    <3>1. y \in Nat /\ y <= x /\ Base \in Nat
      BY <1>4, <2>1, BaseIs
    <3> HIDE DEF y
    <3>2. Base * y <= Base * x
      BY <1>1, <3>1
    <3> QED
      BY <3>2 DEF y
  <2>4. Base * (power(s) * Precision) \in Nat /\ Base * x \in Nat
    BY <1>1, <1>4, BaseIs
  <2> QED
    BY <1>1, <1>4, <2>2, <2>3, <2>4
<1>6. PICK k \in Nat : power(s) = k * power(n)
  BY <1>5, PowerDivides
<1>7. PICK h \in Nat : Base = 2 * h
  BY BaseIs
<1>8. power(n) \in Nat
  BY PowerGrows
<1>9. (2 * h) * (k * power(n)) = 2 * ((h * k) * power(n)) /\ h * k \in Nat
  BY <1>8
<1> QED
  BY <1>2, <1>4, <1>6, <1>7, <1>9

(* So the context moves no amount over a whole number of half units.       *)
LEMMA HalfKept ==
    ASSUME NEW x, Small(x), NEW c \in Int
    PROVE  /\ c * Scale <= 2 * x => c * Scale <= 2 * context(x)
           /\ c * Scale >= 2 * x => c * Scale >= 2 * context(x)
<1>1. x \in Nat
  BY DEF Small
<1>2. PICK k \in Nat : Scale = 2 * (k * quantum(x))
  BY HalfUnits
<1> SUFFICES ASSUME NEW q \in Nat, q > 0, q = quantum(x)
             PROVE  /\ c * Scale <= 2 * x => c * Scale <= 2 * context(x)
                    /\ c * Scale >= 2 * x => c * Scale >= 2 * context(x)
  BY <1>1, QuantumNat
<1>3. PICK m \in Nat : /\ context(x) = q * m
                       /\ 2 * x <= 2 * (q * m) + q /\ 2 * (q * m) <= 2 * x + q
  BY <1>1, ContextNear
<1> DEFINE j == c * k
<1>4. j \in Int /\ c * Scale = 2 * (q * j)
  <2>1. Scale = 2 * (k * q)
    BY <1>2
  <2>2. c * (2 * (k * q)) = 2 * (q * (c * k))
    OBVIOUS
  <2> QED
    BY <2>1, <2>2
<1> HIDE DEF j
<1>5. q * j \in Int /\ q * m \in Int
  BY <1>4
<1>6. ASSUME q * j <= x PROVE q * j <= q * m
  <2> SUFFICES ASSUME m < j PROVE FALSE
    BY <1>4
  <2>1. m + 1 <= j
    BY <1>4
  <2>2. q * (m + 1) <= q * j
    BY <1>4, <2>1
  <2>3. q * (m + 1) = q * m + q
    OBVIOUS
  <2> QED
    BY <1>1, <1>3, <1>5, <1>6, <2>2, <2>3
<1>7. ASSUME q * j >= x PROVE q * j >= q * m
  <2> SUFFICES ASSUME j < m PROVE FALSE
    BY <1>4
  <2>1. j + 1 <= m
    BY <1>4
  <2>2. q * (j + 1) <= q * m
    BY <1>4, <2>1
  <2>3. q * (j + 1) = q * j + q
    BY <1>4
  <2> QED
    BY <1>1, <1>3, <1>5, <1>7, <2>2, <2>3
<1> QED
  BY <1>1, <1>3, <1>4, <1>5, <1>6, <1>7

-----------------------------------------------------------------------------
(* What is stored of an amount that two roundings went over.               *)

Unit(condition) == IF condition THEN 1 ELSE 0

LEMMA FineAdds ==
    ASSUME NEW m \in Int, NEW n \in Int
    PROVE  /\ Fine(m) \in Int
           /\ Fine(m + n) = Fine(m) + Fine(n)
           /\ Fine(m - n) = Fine(m) - Fine(n)
BY ScaleAssumption DEF Fine

LEMMA FineIs ==
    /\ Fine(0) = 0 /\ Fine(1) = Scale /\ Scale \in Nat /\ Scale > 0
    /\ \A n \in Nat : Fine(n) \in Nat
BY ScaleAssumption DEF Fine

(* Units are in the order of their fine units. *)
LEMMA FineOrder ==
    ASSUME NEW m \in Int, NEW n \in Int
    PROVE  /\ m <= n <=> Fine(m) <= Fine(n)
           /\ Fine(m) < Fine(n) + Scale => m <= n
<1>1. Scale \in Nat /\ Scale > 0
  BY ScaleAssumption
<1>2. m <= n => Fine(m) <= Fine(n)
  BY <1>1 DEF Fine
<1>3. ASSUME n < m PROVE Fine(n) + Scale <= Fine(m)
  <2>1. n + 1 <= m
    BY <1>3
  <2>2. (n + 1) * Scale <= m * Scale /\ (n + 1) * Scale = n * Scale + Scale
    BY <1>1, <2>1
  <2> QED
    BY <2>2 DEF Fine
<1>4. Fine(m) \in Int /\ Fine(n) \in Int
  BY FineAdds
<1> QED
  BY <1>1, <1>2, <1>3, <1>4

LEMMA ContextFine ==
    ASSUME NEW n \in Nat, Small(Fine(n))
    PROVE  context(Fine(n)) = Fine(n) /\ numeric(context(Fine(n))) = n
<1>1. Fine(n) \in Nat /\ context(Fine(n)) \in Nat
  BY ContextNat DEF Small
<1>2. 2 * n \in Int /\ (2 * n) * Scale = 2 * Fine(n)
  BY ScaleAssumption DEF Fine
<1>3. 2 * Fine(n) <= 2 * context(Fine(n)) /\ 2 * Fine(n) >= 2 * context(Fine(n))
  BY <1>1, <1>2, HalfKept
<1> QED
  BY <1>1, <1>3, NumericFine

(* The digits can move an amount to the next unit, but not to one that is  *)
(* a unit away from it.                                                    *)
LEMMA StoredBetween ==
    ASSUME NEW x, Small(x)
    PROVE  /\ numeric(context(x)) \in Nat
           /\ numeric(x) <= numeric(context(x))
           /\ Fine(numeric(context(x))) < x + Scale
<1>1. x \in Nat /\ context(x) \in Nat
  BY ContextNat DEF Small
<1> SUFFICES ASSUME NEW b \in Nat, b = context(x), NEW n \in Nat, n = numeric(x),
                    NEW k \in Nat, k = numeric(b)
             PROVE  n <= k /\ Fine(k) < x + Scale
  BY <1>1, NumericNat
<1>2. /\ 2 * Fine(n) <= 2 * x + Scale /\ 2 * x + Scale < 2 * Fine(n) + 2 * Scale
      /\ 2 * Fine(k) <= 2 * b + Scale /\ 2 * b + Scale < 2 * Fine(k) + 2 * Scale
  BY <1>1, NumericIs
<1>3. /\ Fine(n) \in Int /\ Fine(k) \in Int /\ Scale \in Nat /\ Scale > 0
  BY FineAdds, FineIs
<1>4. /\ 2 * n - 1 \in Int /\ (2 * n - 1) * Scale = 2 * Fine(n) - Scale
      /\ 2 * n \in Int /\ (2 * n) * Scale = 2 * Fine(n)
      /\ 2 * n + 1 \in Int /\ (2 * n + 1) * Scale = 2 * Fine(n) + Scale
  BY <1>3 DEF Fine
<1>5. /\ 2 * Fine(n) - Scale <= 2 * b
      /\ 2 * b <= 2 * Fine(n) + Scale
      /\ 2 * Fine(n) >= 2 * x => 2 * Fine(n) >= 2 * b
  <2>1. \A c \in Int : /\ c * Scale <= 2 * x => c * Scale <= 2 * b
                       /\ c * Scale >= 2 * x => c * Scale >= 2 * b
    BY HalfKept
  <2>2. 2 * Fine(n) - Scale <= 2 * x /\ 2 * Fine(n) + Scale >= 2 * x
    BY <1>1, <1>2, <1>3
  <2>3. 2 * Fine(n) - Scale <= 2 * b
    BY <1>4, <2>1, <2>2
  <2>4. 2 * Fine(n) + Scale >= 2 * b
    BY <1>4, <2>1, <2>2
  <2>5. 2 * Fine(n) >= 2 * x => 2 * Fine(n) >= 2 * b
    BY <1>4, <2>1
  <2> QED
    BY <1>3, <2>3, <2>4, <2>5
<1>6. Fine(n) < Fine(k) + Scale
  BY <1>2, <1>3, <1>5
<1>7. Fine(k) < x + Scale
  <2>1. Fine(k) <= Fine(n) + Scale
    BY <1>2, <1>3, <1>5
  <2>2. CASE Fine(n) < x
    BY <1>1, <1>3, <2>1, <2>2
  <2>3. CASE Fine(n) >= x
    <3>1. Fine(k) < Fine(n) + Scale
      BY <1>1, <1>2, <1>3, <1>5, <2>3
    <3>2. Fine(k) <= Fine(n)
      BY <3>1, FineOrder
    <3> QED
      BY <1>1, <1>2, <1>3, <3>2
  <2> QED
    BY <1>1, <1>3, <2>2, <2>3
<1> QED
  BY <1>6, <1>7, FineOrder

LEMMA SmallSum ==
    ASSUME NEW n \in Nat, Base * n < Precision, NEW x \in Nat, x <= Fine(n)
    PROVE  Small(x)
<1>1. Base \in Nat /\ Scale \in Nat /\ Scale > 0 /\ Precision \in Nat
  BY BaseIs, ScaleAssumption
<1>2. Base * x <= Base * Fine(n)
  BY <1>1, FineIs
<1>3. Base * Fine(n) = Scale * (Base * n)
  BY <1>1 DEF Fine
<1>4. Base * n \in Nat
  BY <1>1
<1>5. Scale * (Base * n) < Scale * Precision
  <2> DEFINE y == Base * n
  <2>1. y + 1 <= Precision /\ y \in Nat
    BY <1>1, <1>4
  <2> HIDE DEF y
  <2>2. Scale * (y + 1) <= Scale * Precision
    BY <1>1, <2>1
  <2>3. Scale * (y + 1) = Scale * y + Scale
    BY <1>1, <2>1
  <2>4. Scale * y \in Nat /\ Scale * Precision \in Nat
    BY <1>1, <2>1
  <2>5. Scale * y < Scale * Precision
    BY <1>1, <2>2, <2>3, <2>4
  <2> QED
    BY <2>5 DEF y
<1>6. Base * x \in Nat /\ Base * Fine(n) \in Nat /\ Scale * Precision \in Nat
  BY <1>1, FineIs
<1> QED
  BY <1>2, <1>3, <1>5, <1>6 DEF Small

LEMMA NumericNear ==
    ASSUME NEW x \in Nat
    PROVE  /\ numeric(x) \in Nat /\ Fine(numeric(x)) \in Nat
           /\ 2 * Fine(numeric(x)) <= 2 * x + Scale
           /\ 2 * x < 2 * Fine(numeric(x)) + Scale
           /\ ~IsInexact(x) => x = Fine(numeric(x))
<1>1. numeric(x) \in Nat /\ Fine(numeric(x)) \in Nat /\ Scale \in Nat /\ Scale > 0
  BY NumericNat, FineIs
<1>2. /\ 2 * Fine(numeric(x)) <= 2 * x + Scale
      /\ 2 * x + Scale < 2 * Fine(numeric(x)) + 2 * Scale
  BY <1>1, NumericIs
<1>3. ASSUME x % Scale = 0 PROVE x = Fine(numeric(x))
  <2>1. x = Fine(x \div Scale) /\ x \div Scale \in Nat
    BY <1>1, <1>3 DEF Fine
  <2> QED
    BY <2>1, NumericFine
<1> QED
  BY <1>1, <1>2, <1>3 DEF IsInexact

(* The four roundings of an order that moves an amount from the available  *)
(* to the locked balance, in a wallet that leaves them digits after the    *)
(* unit: each balance can gain a unit against the amount that the order    *)
(* and its entries store, but both together no more than one, and only if  *)
(* the amount is no whole number of units; one that is half way between    *)
(* two does gain it.  The locked balance is off by less than a unit from   *)
(* the amount before it was rounded.                                       *)
THEOREM RoundingDrift ==
    ASSUME NEW available \in Nat, NEW locked \in Nat,
           Base * (available + locked) < Precision,
           NEW x \in Nat, x <= Fine(available)
    PROVE  LET dl == plus(locked, x) - (locked + numeric(x))
               da == minus(available, x) - (available - numeric(x))
               error == x - (Fine(plus(locked, x)) - Fine(locked))
           IN  /\ plus(locked, x) \in Nat /\ minus(available, x) \in Nat
               /\ dl \in 0 .. Unit(IsInexact(x)) /\ da \in 0 .. Unit(IsInexact(x))
               /\ dl + da \in Unit(IsTie(x)) .. Unit(IsInexact(x))
               /\ -Fine(Unit(IsInexact(x))) <= error
               /\ 2 * error <= Fine(Unit(IsInexact(x)))
<1> DEFINE n == numeric(x)
           L == plus(locked, x)
           A == minus(available, x)
<1>1. /\ n \in Nat /\ Fine(n) \in Nat /\ Scale \in Nat /\ Scale > 0
      /\ Fine(available) \in Nat /\ Fine(locked) \in Nat
  BY NumericNear, FineIs
<1>2. Small(Fine(locked) + x) /\ Small(Fine(available) - x)
  <2>1. Fine(available + locked) = Fine(available) + Fine(locked)
    BY FineAdds
  <2> QED
    BY <1>1, <2>1, SmallSum
<1>3. /\ L \in Nat /\ numeric(Fine(locked) + x) <= L /\ Fine(L) < Fine(locked) + x + Scale
      /\ A \in Nat /\ numeric(Fine(available) - x) <= A /\ Fine(A) < Fine(available) - x + Scale
  BY <1>2, StoredBetween DEF plus, minus
<1>4. /\ numeric(Fine(locked) + x) = locked + n
      /\ numeric(Fine(available) - x) = available - n + Unit(IsTie(x))
  BY ColumnDrift DEF Unit
<1>5. /\ 2 * Fine(n) <= 2 * x + Scale /\ 2 * x < 2 * Fine(n) + Scale
      /\ ~IsInexact(x) => x = Fine(n)
  BY NumericNear
<1>6. IsTie(x) => IsInexact(x)
  BY <1>1 DEF IsTie, IsInexact
<1> HIDE DEF n, L, A
<1>7. /\ Unit(IsTie(x)) \in {0, 1} /\ Unit(IsInexact(x)) \in {0, 1}
      /\ Unit(IsTie(x)) <= Unit(IsInexact(x))
  BY <1>6 DEF Unit
<1>8. /\ Fine(L) \in Nat /\ Fine(A) \in Nat
      /\ Fine(locked + n) = Fine(locked) + Fine(n)
      /\ Fine(available - n) = Fine(available) - Fine(n)
      /\ Fine(available + locked) = Fine(available) + Fine(locked)
      /\ Fine(L + A) = Fine(L) + Fine(A)
  BY <1>1, <1>3, FineAdds, FineIs
<1>9. ASSUME IsInexact(x)
      PROVE  L <= locked + n + 1 /\ A <= available - n + 1 /\ L + A <= available + locked + 1
  <2>1. \A m \in Int : Fine(m + 1) = Fine(m) + Scale
    BY FineAdds, FineIs
  <2>2. L <= locked + n + 1
    <3>1. Fine(L) < Fine(locked + n + 1) + Scale
      BY <1>1, <1>3, <1>5, <1>8, <2>1
    <3> QED
      BY <1>1, <1>3, <3>1, FineOrder
  <2>3. A <= available - n + 1
    <3>1. Fine(A) < Fine(available - n + 1) + Scale
      BY <1>1, <1>3, <1>5, <1>8, <2>1
    <3> QED
      BY <1>1, <1>3, <3>1, FineOrder
  <2>4. L + A <= available + locked + 1
    <3>1. Fine(L + A) < Fine(available + locked + 1) + Scale
      BY <1>1, <1>3, <1>8, <2>1
    <3> QED
      BY <1>3, <3>1, FineOrder
  <2> QED
    BY <2>2, <2>3, <2>4
<1>10. ASSUME ~IsInexact(x)
       PROVE  L = locked + n /\ A = available - n /\ x = Fine(n)
  <2>1. Fine(L) < Fine(locked + n) + Scale /\ Fine(A) < Fine(available - n) + Scale
    BY <1>3, <1>5, <1>8, <1>10
  <2>2. L <= locked + n /\ A <= available - n
    BY <1>1, <1>3, <2>1, FineOrder
  <2> QED
    BY <1>1, <1>3, <1>4, <1>5, <1>6, <1>10, <2>2 DEF Unit
<1>11. LET dl == L - (locked + n)
           da == A - (available - n)
       IN  /\ dl \in 0 .. Unit(IsInexact(x)) /\ da \in 0 .. Unit(IsInexact(x))
           /\ dl + da \in Unit(IsTie(x)) .. Unit(IsInexact(x))
  <2>1. CASE IsInexact(x)
    BY <1>1, <1>3, <1>4, <1>7, <1>9, <2>1 DEF Unit
  <2>2. CASE ~IsInexact(x)
    BY <1>1, <1>3, <1>4, <1>6, <1>7, <1>10, <2>2 DEF Unit
  <2> QED
    BY <2>1, <2>2
<1>12. LET error == x - (Fine(L) - Fine(locked))
       IN  /\ -Fine(Unit(IsInexact(x))) <= error
           /\ 2 * error <= Fine(Unit(IsInexact(x)))
  <2>1. Fine(locked) + Fine(n) <= Fine(L)
    BY <1>1, <1>3, <1>4, <1>8, FineOrder
  <2>2. CASE IsInexact(x)
    <3>1. Fine(Unit(IsInexact(x))) = Scale
      BY <2>2, FineIs DEF Unit
    <3> QED
      BY <1>1, <1>3, <1>5, <1>8, <2>1, <3>1
  <2>3. CASE ~IsInexact(x)
    <3>1. Fine(Unit(IsInexact(x))) = 0
      BY <2>3, FineIs DEF Unit
    <3> QED
      BY <1>1, <1>8, <1>10, <2>3, <3>1
  <2> QED
    BY <2>2, <2>3
<1> QED
  BY <1>3, <1>11, <1>12 DEF n, L, A

(* Whole numbers of units are added and subtracted as they are.            *)
LEMMA ExactSums ==
    ASSUME NEW balance \in Nat, NEW n \in Nat
    PROVE  /\ Base * (balance + n) < Precision => plus(balance, Fine(n)) = balance + n
           /\ Base * balance < Precision /\ n <= balance
                  => minus(balance, Fine(n)) = balance - n
<1>1. /\ Fine(balance + n) = Fine(balance) + Fine(n)
      /\ Fine(balance - n) = Fine(balance) - Fine(n)
  BY FineAdds
<1>2. ASSUME Base * (balance + n) < Precision
      PROVE  plus(balance, Fine(n)) = balance + n
  <2>1. balance + n \in Nat /\ Fine(balance + n) \in Nat
    BY FineIs
  <2>2. Small(Fine(balance + n))
    BY <1>2, <2>1, SmallSum
  <2> QED
    BY <1>1, <2>1, <2>2, ContextFine DEF plus
<1>3. ASSUME Base * balance < Precision, n <= balance
      PROVE  minus(balance, Fine(n)) = balance - n
  <2>1. balance - n \in Nat /\ Fine(balance - n) \in Nat
    BY <1>3, FineIs
  <2>2. Fine(balance - n) <= Fine(balance)
    BY <1>3, <2>1, FineOrder
  <2>3. Small(Fine(balance - n))
    BY <1>3, <2>1, <2>2, SmallSum
  <2> QED
    BY <1>1, <2>1, <2>3, ContextFine DEF minus
<1> QED
  BY <1>2, <1>3

(* No balance is ever written that is negative. *)
LEMMA BalanceNat ==
    ASSUME NEW balance \in Nat, NEW x \in Nat
    PROVE  /\ plus(balance, x) \in Nat
           /\ x <= Fine(balance) => minus(balance, x) \in Nat
<1>1. Fine(balance) \in Nat /\ Fine(balance) + x \in Nat
      /\ (x <= Fine(balance) => Fine(balance) - x \in Nat)
  BY FineIs
<1> QED
  BY <1>1, ContextNat, NumericNat DEF plus, minus

(* One less has room when one more has. *)
LEMMA FitsBelow ==
    ASSUME NEW m \in Nat, NEW n \in Nat, m <= n, Base * n < Precision
    PROVE  Base * m < Precision
<1>1. Base \in Nat /\ Precision \in Nat
  BY BaseIs, ScaleAssumption
<1>2. Base * m <= Base * n /\ Base * m \in Nat /\ Base * n \in Nat
  BY <1>1
<1> QED
  BY <1>1, <1>2

-----------------------------------------------------------------------------
(* The types of the rows that are written. *)

LEMMA FundingRowTypes ==
    ASSUME NEW r \in FundingRequest
    PROVE  /\ TreasuryWallet(r.asset) \in WalletIds
           /\ UserWallet(r.user, r.asset) \in WalletIds
           /\ FundingTransaction(r) \in LedgerTransaction
           /\ r.key \in LedgerKeys
           /\ r.key # NoKey
           /\ r.amount \in Nat
BY SchemaAssumption DEF FundingRequest, TreasuryWallet, UserWallet, WalletIds,
   Owners, FundingTransaction, LedgerTransaction, LedgerEntry, Entry, LedgerKeys

LEMMA ReserveRowTypes ==
    ASSUME NEW r \in OrderCreateRequest, NEW n \in Nat
    PROVE  /\ ReserveWallet(r) \in WalletIds
           /\ reserved_amount(r) \in Nat
           /\ ReserveTransaction(r) \in LedgerTransaction
           /\ NewOrder(r, n) \in Order
           /\ CreatedEvent(n, r) \in OutboxEvent
           /\ ledger_idempotency_key(r.user, r.key) \in LedgerKeys
           /\ ledger_idempotency_key(r.user, r.key) # NoKey
<1>1. ReserveWallet(r) \in WalletIds
  BY DEF OrderCreateRequest, ReserveWallet, UserWallet, reserve_asset, WalletIds, Owners
<1>2. reserved_amount(r) \in Nat
  <2>1. r.price * r.quantity \in Nat /\ r.quantity \in Nat
    BY DEF OrderCreateRequest
  <2> QED
    BY <2>1, ContextNat, FineIs DEF reserved_amount, reservation_amount
<1>3. numeric(reserved_amount(r)) \in Nat
  BY <1>2, NumericNat
<1>4. /\ ledger_idempotency_key(r.user, r.key) \in LedgerKeys
      /\ ledger_idempotency_key(r.user, r.key) # NoKey
  BY SchemaAssumption DEF OrderCreateRequest, ledger_idempotency_key, LedgerKeys
<1>5. ReserveTransaction(r) \in LedgerTransaction
  BY <1>1, <1>3, <1>4 DEF ReserveTransaction, LedgerTransaction, LedgerEntry, Entry
<1>6. NewOrder(r, n) \in Order
  BY <1>3 DEF NewOrder, Order, OrderCreateRequest
<1>7. CreatedEvent(n, r) \in OutboxEvent
  BY <1>2 DEF CreatedEvent, OutboxEvent
<1> QED
  BY <1>1, <1>2, <1>4, <1>5, <1>6, <1>7

LEMMA ReleaseTypes ==
    ASSUME NEW o \in Order, NEW n \in Nat
    PROVE  /\ ReserveWallet(o) \in WalletIds
           /\ o.reserved \in Nat
           /\ ReleaseTransaction(o) \in LedgerTransaction
           /\ CanceledEvent(n, o) \in OutboxEvent
<1>1. ReserveWallet(o) \in WalletIds /\ o.reserved \in Nat
  BY DEF Order, ReserveWallet, UserWallet, reserve_asset, WalletIds, Owners
<1>2. ReleaseTransaction(o) \in LedgerTransaction
  BY <1>1 DEF ReleaseTransaction, LedgerTransaction, LedgerEntry, Entry, LedgerKeys
<1>3. CanceledEvent(n, o) \in OutboxEvent
  BY <1>1, ScaleAssumption DEF CanceledEvent, OutboxEvent, Fine
<1> QED
  BY <1>1, <1>2, <1>3

(* Writing balances to rows of wallets. *)
LEMMA WriteBalance ==
    ASSUME NEW W \in [WalletIds -> Wallet], NEW w \in WalletIds, NEW n \in Nat
    PROVE  /\ [W EXCEPT ![w].available = n] \in [WalletIds -> Wallet]
           /\ [W EXCEPT ![w].locked = n] \in [WalletIds -> Wallet]
           /\ [W EXCEPT ![w].exists = TRUE] \in [WalletIds -> Wallet]
<1>1. W[w] \in Wallet
  OBVIOUS
<1>2. /\ [W[w] EXCEPT !.available = n] \in Wallet
      /\ [W[w] EXCEPT !.locked = n] \in Wallet
      /\ [W[w] EXCEPT !.exists = TRUE] \in Wallet
  BY <1>1 DEF Wallet
<1> QED
  BY <1>2

(* What a row appended to a table does to it.                              *)
LEMMA Appending ==
    ASSUME NEW S, NEW s \in Seq(S), NEW x \in S
    PROVE  /\ Append(s, x) \in Seq(S)
           /\ Len(s) \in Nat
           /\ DOMAIN s = 1 .. Len(s)
           /\ DOMAIN Append(s, x) = DOMAIN s \cup {Len(s) + 1}
           /\ Len(s) + 1 \notin DOMAIN s
           /\ Append(s, x)[Len(s) + 1] = x
           /\ \A i \in DOMAIN s : Append(s, x)[i] = s[i]
OBVIOUS

-----------------------------------------------------------------------------
(* Sums.                                                                   *)

(* The equation that defines the partial sums of f.  It has a solution, or *)
(* the CHOOSE behind SumTo would say nothing, and only one.                *)
PartialSums(f, n, s) == s = [i \in 0 .. n |-> IF i = 0 THEN 0 ELSE s[i - 1] + f[i]]

LEMMA SumsExist ==
    ASSUME NEW f, NEW n \in Nat
    PROVE  \E s : PartialSums(f, n, s)
<1> DEFINE T == {k \in Nat : \E s : PartialSums(f, k, s)}
<1>1. 0 \in T
  <2>1. PartialSums(f, 0, [i \in 0 .. 0 |-> 0])
    BY DEF PartialSums
  <2> QED
    BY <2>1
<1>2. ASSUME NEW k \in Nat, k \in T PROVE k + 1 \in T
  <2>1. PICK s : PartialSums(f, k, s)
    BY <1>2
  <2> DEFINE g == [i \in 0 .. k + 1 |-> IF i = k + 1 THEN s[k] + f[k + 1] ELSE s[i]]
  <2>2. \A i \in 0 .. k + 1 : g[i] = IF i = 0 THEN 0 ELSE g[i - 1] + f[i]
    BY <2>1 DEF PartialSums
  <2>3. PartialSums(f, k + 1, g)
    BY <2>2 DEF PartialSums
  <2> QED
    BY <2>3
<1> HIDE DEF T
<1>3. Nat \subseteq T
  BY <1>1, <1>2, SetInduction
<1> QED
  BY <1>3 DEF T

(* Two sums agree as far as the summands do. *)
LEMMA SumsAgree ==
    ASSUME NEW f, NEW g, NEW n \in Nat, NEW m \in Nat, NEW s, NEW t,
           PartialSums(f, n, s), PartialSums(g, m, t), NEW k \in Nat, k <= n, k <= m,
           \A i \in 1 .. k : f[i] = g[i]
    PROVE  s[k] = t[k]
<1> DEFINE T == {j \in Nat : j <= k => s[j] = t[j]}
<1>1. 0 \in T
  BY DEF PartialSums
<1>2. ASSUME NEW j \in Nat, j \in T PROVE j + 1 \in T
  BY <1>2 DEF PartialSums
<1> HIDE DEF T
<1>3. Nat \subseteq T
  BY <1>1, <1>2, SetInduction
<1> QED
  BY <1>3 DEF T

LEMMA SumToIs ==
    ASSUME NEW f, NEW n \in Nat
    PROVE  \E s : PartialSums(f, n, s) /\ SumTo(f, n) = s[n]
<1>1. \E s : PartialSums(f, n, s)
  BY SumsExist
<1> DEFINE c == CHOOSE s : PartialSums(f, n, s)
<1>2. PartialSums(f, n, c)
  BY <1>1
<1>3. SumTo(f, n) = c[n]
  BY DEF SumTo, PartialSums
<1> QED
  BY <1>2, <1>3

(* The recursion that SumTo was written for. *)
LEMMA SumToRow ==
    ASSUME NEW f, NEW n \in Nat
    PROVE  /\ SumTo(f, 0) = 0
           /\ SumTo(f, n + 1) = SumTo(f, n) + f[n + 1]
<1>1. PICK s : PartialSums(f, 0, s) /\ SumTo(f, 0) = s[0]
  BY SumToIs
<1>2. PICK t : PartialSums(f, n, t) /\ SumTo(f, n) = t[n]
  BY SumToIs
<1>3. PICK u : PartialSums(f, n + 1, u) /\ SumTo(f, n + 1) = u[n + 1]
  BY SumToIs
<1>4. u[n] = t[n]
  <2>1. n + 1 \in Nat /\ n <= n /\ n <= n + 1
    OBVIOUS
  <2> QED
    BY <1>2, <1>3, <2>1, SumsAgree
<1>5. s[0] = 0 /\ u[n + 1] = u[n] + f[n + 1]
  BY <1>1, <1>3 DEF PartialSums
<1> QED
  BY <1>1, <1>2, <1>3, <1>4, <1>5

LEMMA SumToAgrees ==
    ASSUME NEW f, NEW g, NEW n \in Nat, \A i \in 1 .. n : f[i] = g[i]
    PROVE  SumTo(f, n) = SumTo(g, n)
<1>1. PICK s : PartialSums(f, n, s) /\ SumTo(f, n) = s[n]
  BY SumToIs
<1>2. PICK t : PartialSums(g, n, t) /\ SumTo(g, n) = t[n]
  BY SumToIs
<1>3. n <= n
  OBVIOUS
<1> QED
  BY <1>1, <1>2, <1>3, SumsAgree

LEMMA SumToInt ==
    ASSUME NEW n \in Nat, NEW f, \A i \in 1 .. n : f[i] \in Int
    PROVE  SumTo(f, n) \in Int
<1> DEFINE T == {k \in Nat : k <= n => SumTo(f, k) \in Int}
<1>1. 0 \in T
  BY SumToRow
<1>2. ASSUME NEW k \in Nat, k \in T PROVE k + 1 \in T
  <2>1. SumTo(f, k + 1) = SumTo(f, k) + f[k + 1]
    BY SumToRow
  <2> QED
    BY <1>2, <2>1
<1> HIDE DEF T
<1>3. Nat \subseteq T
  BY <1>1, <1>2, SetInduction
<1> QED
  BY <1>3 DEF T

(* One row changed changes the sum by as much. *)
LEMMA SumToChanges ==
    ASSUME NEW n \in Nat, NEW k \in 1 .. n, NEW f, NEW g,
           \A i \in 1 .. n : f[i] \in Int /\ g[i] \in Int,
           \A i \in 1 .. n : i # k => g[i] = f[i]
    PROVE  SumTo(g, n) = SumTo(f, n) - f[k] + g[k]
<1> DEFINE T == {m \in Nat : m <= n =>
                    /\ SumTo(f, m) \in Int /\ SumTo(g, m) \in Int
                    /\ SumTo(g, m) = SumTo(f, m) + (IF m < k THEN 0 ELSE g[k] - f[k])}
<1>1. 0 \in T
  BY SumToRow
<1>2. ASSUME NEW m \in Nat, m \in T PROVE m + 1 \in T
  <2>1. /\ SumTo(f, m + 1) = SumTo(f, m) + f[m + 1]
        /\ SumTo(g, m + 1) = SumTo(g, m) + g[m + 1]
    BY SumToRow
  <2> QED
    BY <1>2, <2>1
<1> HIDE DEF T
<1>3. Nat \subseteq T
  BY <1>1, <1>2, SetInduction
<1>4. n \in T /\ ~(n < k)
  BY <1>3
<1> QED
  BY <1>4 DEF T

(* A sum of numbers that are not negative is at least each of them. *)
LEMMA SumToBounds ==
    ASSUME NEW n \in Nat, NEW k \in 1 .. n, NEW f, \A i \in 1 .. n : f[i] \in Nat
    PROVE  f[k] <= SumTo(f, n)
<1> DEFINE T == {m \in Nat : m <= n =>
                    SumTo(f, m) \in Nat /\ (m >= k => f[k] <= SumTo(f, m))}
<1>1. 0 \in T
  BY SumToRow
<1>2. ASSUME NEW m \in Nat, m \in T PROVE m + 1 \in T
  <2>1. SumTo(f, m + 1) = SumTo(f, m) + f[m + 1]
    BY SumToRow
  <2> QED
    BY <1>2, <2>1
<1> HIDE DEF T
<1>3. Nat \subseteq T
  BY <1>1, <1>2, SetInduction
<1>4. n \in T /\ n >= k
  BY <1>3
<1> QED
  BY <1>4 DEF T

(* A sum of numbers that are not negative and no greater than b. *)
LEMMA SumToMost ==
    ASSUME NEW n \in Nat, NEW b \in Nat, NEW f,
           \A i \in 1 .. n : f[i] \in Nat /\ f[i] <= b
    PROVE  SumTo(f, n) \in Nat /\ SumTo(f, n) <= b * n
<1> DEFINE T == {m \in Nat : m <= n => SumTo(f, m) \in Nat /\ SumTo(f, m) <= b * m}
<1>1. 0 \in T
  BY SumToRow
<1>2. ASSUME NEW m \in Nat, m \in T PROVE m + 1 \in T
  <2>1. SumTo(f, m + 1) = SumTo(f, m) + f[m + 1]
    BY SumToRow
  <2>2. b * (m + 1) = b * m + b /\ b * m \in Nat
    OBVIOUS
  <2> QED
    BY <1>2, <2>1, <2>2
<1> HIDE DEF T
<1>3. Nat \subseteq T
  BY <1>1, <1>2, SetInduction
<1>4. n \in T
  BY <1>3
<1> QED
  BY <1>4 DEF T

-----------------------------------------------------------------------------
(* The sum over the rows of a table. *)

LEMMA RowsLen ==
    ASSUME NEW n \in Nat, NEW S, NEW f \in [1 .. n -> S]
    PROVE  Len(f) = n
OBVIOUS

LEMMA SumEmpty ==
    ASSUME NEW f \in [1 .. 0 -> Int] PROVE SumOf(f) = 0
BY RowsLen, SumToRow DEF SumOf

LEMMA SumInt ==
    ASSUME NEW n \in Nat, NEW f \in [1 .. n -> Int]
    PROVE  SumOf(f) \in Int
BY RowsLen, SumToInt DEF SumOf

(* An appended row adds to it what it holds. *)
LEMMA SumAppended ==
    ASSUME NEW n \in Nat, NEW f \in [1 .. n -> Int], NEW g \in [1 .. n + 1 -> Int],
           \A i \in 1 .. n : g[i] = f[i]
    PROVE  SumOf(g) = SumOf(f) + g[n + 1]
<1>1. Len(f) = n /\ Len(g) = n + 1
  BY RowsLen
<1>2. SumTo(g, n + 1) = SumTo(g, n) + g[n + 1]
  BY SumToRow
<1>3. SumTo(g, n) = SumTo(f, n)
  BY SumToAgrees
<1> QED
  BY <1>1, <1>2, <1>3 DEF SumOf

(* An updated row, what it holds now in place of what it held. *)
LEMMA SumUpdated ==
    ASSUME NEW n \in Nat, NEW f \in [1 .. n -> Int], NEW g \in [1 .. n -> Int],
           NEW k \in 1 .. n, \A i \in 1 .. n : i # k => g[i] = f[i]
    PROVE  SumOf(g) = SumOf(f) - f[k] + g[k]
<1>1. Len(f) = n /\ Len(g) = n
  BY RowsLen
<1> QED
  BY <1>1, SumToChanges DEF SumOf

(* No row holds more than all rows together, if none is negative. *)
LEMMA SumBounds ==
    ASSUME NEW n \in Nat, NEW f \in [1 .. n -> Nat], NEW k \in 1 .. n
    PROVE  f[k] <= SumOf(f)
BY RowsLen, SumToBounds DEF SumOf

(* What the rows hold together, when none holds more than b. *)
LEMMA SumMost ==
    ASSUME NEW n \in Nat, NEW b \in Nat, NEW f \in [1 .. n -> Nat],
           \A i \in 1 .. n : f[i] <= b
    PROVE  SumOf(f) \in Nat /\ SumOf(f) <= b * n
BY RowsLen, SumToMost DEF SumOf

=============================================================================
