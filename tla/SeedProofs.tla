----------------------------- MODULE SeedProofs -----------------------------
(***************************************************************************)
(* Proofs about the development seed, for any number of runs and assets.   *)
(***************************************************************************)
EXTENDS Seed, WellFoundedInduction, TLAPS

LEMMA PlaceTypes == Places \subseteq Nat \ {0} /\ Len(DEVELOPMENT_ASSETS) \in Nat
BY SeedAssumption DEF Places

LEMMA RowShape ==
    \A x \in Rows : /\ x[1] \in {"asset", "treasury"} /\ x[2] \in Places
                    /\ x = <<x[1], x[2]>>
BY DEF Rows

LEMMA Ranks ==
    /\ \A x \in Rows : /\ Rank(x) \in 2 .. 2 * Len(DEVELOPMENT_ASSETS) + 1
                       /\ \A y \in Rows : Rank(x) = Rank(y) => x = y
    /\ \A i : Rank(<<"asset", i>>) = 2 * i /\ Rank(<<"treasury", i>>) = 2 * i + 1
<1>1. \A x \in Rows : Rank(x) \in 2 .. 2 * Len(DEVELOPMENT_ASSETS) + 1
  BY RowShape, SeedAssumption DEF Rank, Places
<1>2. \A x, y \in Rows : Rank(x) = Rank(y) => x[1] = y[1] /\ x[2] = y[2]
  BY RowShape, SeedAssumption DEF Rank, Places
<1> QED
  BY <1>1, <1>2, RowShape DEF Rank

LEMMA InitSeedInv == Init => SeedInv
<1> SUFFICES ASSUME Init PROVE SeedInv
  OBVIOUS
<1>1. TypeOK /\ OneOfEach
  BY DEF Init, TypeOK, OneOfEach, Outcomes
<1>2. InsertsExclude /\ InsertsInOrder /\ OvertakenMeansSeeded /\ EndedMeansSeeded
  BY DEF Init, InsertsExclude, InsertsInOrder, OvertakenMeansSeeded, EndedMeansSeeded
<1>3. LoopProvides
  <2>1. \A row \in Rows : row[2] \in Places /\ ~(row[2] < 1)
    BY PlaceTypes, RowShape
  <2>2. Places # {} => 1 \in Places
    BY SeedAssumption DEF Places
  <2> QED
    BY <2>1, <2>2 DEF Init, LoopProvides
<1> QED
  BY <1>1, <1>2, <1>3 DEF SeedInv

(* A run that ends without a commit takes only its own rows with it.       *)
LEMMA EndSeedInv ==
    ASSUME SeedInv, NEW r \in Runs, NEW how \in Outcomes \ {"running"},
           how \in {"committed", "integrity_error"} => Seeded,
           End(r, how), rows' = rows
    PROVE  SeedInv'
<1> USE DEF End, SeedInv
<1>1. /\ \A q \in Runs \ {r} : /\ at'[q] = at[q] /\ outcome'[q] = outcome[q]
                               /\ pending'[q] = pending[q] /\ inserted'[q] = inserted[q]
      /\ at'[r] = "done" /\ outcome'[r] = how /\ pending'[r] = {} /\ inserted'[r] = {}
      /\ item' = item
  BY DEF TypeOK
<1>2. TypeOK'
  BY DEF TypeOK
<1>3. OneOfEach' /\ (Seeded' <=> Seeded)
  BY DEF OneOfEach, Seeded
<1>4. InsertsExclude'
  BY <1>1 DEF InsertsExclude
<1>5. \A q \in Runs \ {r}, row \in Rows : Provided(q, row)' <=> Provided(q, row)
  BY <1>1 DEF Provided, Finds
<1>6. LoopProvides'
  <2>1. \A q \in Runs : item[q] \in Places => <<"asset", item[q]>> \in Rows
    BY DEF Rows
  <2> QED
    BY <1>1, <1>5, <2>1 DEF LoopProvides
<1>7. OvertakenMeansSeeded' /\ EndedMeansSeeded'
  BY <1>1, <1>3 DEF OvertakenMeansSeeded, EndedMeansSeeded
<1>8. InsertsInOrder'
  <2>1. \A q \in Runs \ {r} : Reached(q)' = Reached(q)
    BY <1>1 DEF Reached
  <2> QED
    BY <1>1, <2>1 DEF InsertsInOrder
<1> QED
  BY <1>2, <1>3, <1>4, <1>6, <1>7, <1>8

LEMMA FlushSeedInv ==
    ASSUME SeedInv, NEW r \in Runs, Flush(r)
    PROVE  SeedInv'
<1>1. PICK row \in pending[r] :
          /\ \A q \in Runs \ {r} : row \notin inserted[q]
          /\ \/ /\ rows[row] = 0
                /\ inserted' = [inserted EXCEPT ![r] = @ \cup {row}]
                /\ pending' = [pending EXCEPT ![r] = @ \ {row}]
                /\ UNCHANGED <<at, item, outcome>>
             \/ rows[row] > 0 /\ End(r, "integrity_error")
          /\ UNCHANGED rows
  BY DEF Flush
<1>2. row \in Rows
  BY <1>1 DEF SeedInv, TypeOK
<1>3. CASE rows[row] > 0 /\ End(r, "integrity_error")
  <2>1. Seeded
    BY <1>1, <1>3 DEF SeedInv, OvertakenMeansSeeded
  <2> QED
    BY <1>1, <1>3, <2>1, EndSeedInv DEF Outcomes
<1>4. CASE /\ rows[row] = 0
           /\ inserted' = [inserted EXCEPT ![r] = @ \cup {row}]
           /\ pending' = [pending EXCEPT ![r] = @ \ {row}]
           /\ UNCHANGED <<at, item, outcome>>
  <2> USE DEF SeedInv
  <2>1. /\ inserted'[r] = inserted[r] \cup {row} /\ pending'[r] = pending[r] \ {row}
        /\ \A q \in Runs \ {r} : inserted'[q] = inserted[q] /\ pending'[q] = pending[q]
        /\ rows' = rows /\ at' = at /\ item' = item /\ outcome' = outcome
    BY <1>1, <1>4 DEF TypeOK
  <2>2. TypeOK'
    BY <1>1, <1>2, <1>4 DEF TypeOK
  <2>3. OneOfEach' /\ (Seeded' <=> Seeded) /\ EndedMeansSeeded'
    BY <2>1 DEF OneOfEach, Seeded, EndedMeansSeeded
  <2>4. InsertsExclude'
    BY <1>1, <1>4, <2>1 DEF InsertsExclude
  <2>5. \A q \in Runs, x \in Rows : Provided(q, x)' <=> Provided(q, x)
    BY <1>1, <2>1 DEF Provided, Finds
  <2>6. at[r] # "done"
    BY <1>1 DEF LoopProvides
  <2>7. LoopProvides'
    <3>1. \A q \in Runs : item[q] \in Places => <<"asset", item[q]>> \in Rows
      BY DEF Rows
    <3> QED
      BY <2>1, <2>5, <2>6, <3>1 DEF LoopProvides
  <2>8. OvertakenMeansSeeded'
    BY <2>1, <2>3 DEF OvertakenMeansSeeded
  <2>9. InsertsInOrder'
    <3>1. \A q \in Runs : Reached(q)' = Reached(q)
      BY <2>1 DEF Reached
    <3>2. pending'[r] = {}
      BY <1>1, <2>1 DEF InsertsInOrder
    <3>3. \A x \in inserted'[r] : x \in inserted[r] \cup pending[r]
      BY <1>1, <2>1
    <3> QED
      BY <2>1, <3>1, <3>2, <3>3 DEF InsertsInOrder
  <2> QED
    BY <2>2, <2>3, <2>4, <2>7, <2>8, <2>9
<1> QED
  BY <1>1, <1>3, <1>4

(* A SELECT that finds nothing adds the row.                               *)
LEMMA Adding ==
    ASSUME SeedInv, NEW r \in Runs, NEW row \in Rows,
           pending[r] = {}, AddIfMissing(r, row), UNCHANGED <<rows, inserted>>
    PROVE  /\ pending' \in [Runs -> SUBSET Rows]
           /\ InsertsExclude' /\ OvertakenMeansSeeded' /\ OneOfEach'
           /\ Provided(r, row)'
           /\ \A q \in Runs, x \in Rows : Provided(q, x) => Provided(q, x)'
           /\ pending'[r] \subseteq {row}
           /\ \A q \in Runs \ {r} : pending'[q] = pending[q]
<1>1. /\ pending'[r] = {x \in {row} : ~Finds(r, x)}
      /\ \A q \in Runs \ {r} : pending'[q] = pending[q]
      /\ pending' \in [Runs -> SUBSET Rows]
  BY DEF AddIfMissing, SeedInv, TypeOK
<1>2. InsertsExclude' /\ OneOfEach' /\ (Seeded' <=> Seeded)
  BY DEF SeedInv, InsertsExclude, OneOfEach, Seeded
<1>3. OvertakenMeansSeeded'
  BY <1>1, <1>2 DEF SeedInv, OvertakenMeansSeeded, Finds
<1>4. \A q \in Runs, x \in Rows : Finds(q, x)' <=> Finds(q, x)
  BY DEF Finds
<1> QED
  BY <1>1, <1>2, <1>3, <1>4 DEF Provided

(* The row that is added is the next one of the order.                     *)
LEMMA AddingInOrder ==
    ASSUME SeedInv, NEW r \in Runs, NEW row \in Rows,
           at[r] # "done", pending[r] = {}, pending'[r] \subseteq {row},
           Rank(row) = Reached(r), Reached(r)' = Reached(r) + 1, UNCHANGED inserted,
           \A q \in Runs \ {r} : /\ at'[q] = at[q] /\ item'[q] = item[q]
                                 /\ pending'[q] = pending[q]
    PROVE  InsertsInOrder'
<1>1. \A q \in Runs \ {r} : Reached(q)' = Reached(q)
  BY DEF Reached
<1>2. \A x \in inserted[r] \cup {row} : Rank(x) \in Int
  BY Ranks DEF SeedInv, TypeOK
<1>3. /\ \A x \in inserted[r] : Rank(x) < Rank(row)
      /\ \A x \in inserted[r] \cup {row} : Rank(x) < Rank(row) + 1
  BY <1>2 DEF SeedInv, InsertsInOrder
<1>4. /\ \A x \in inserted'[r] \cup pending'[r] : Rank(x) < Reached(r)'
      /\ \A x \in pending'[r] : /\ pending'[r] = {x}
                                /\ \A held \in inserted'[r] : Rank(held) < Rank(x)
  BY <1>3
<1> QED
  BY <1>1, <1>4 DEF SeedInv, InsertsInOrder

LEMMA FindAssetSeedInv ==
    ASSUME SeedInv, NEW r \in Runs, FindAsset(r)
    PROVE  SeedInv'
<1> SUFFICES ASSUME NEW row, row = <<"asset", item[r]>>
             PROVE  SeedInv'
  OBVIOUS
<1> USE DEF SeedInv
<1>1. row \in Rows /\ item[r] \in Places
  BY DEF FindAsset, Selects, LoopProvides, Rows
<1>2. /\ at' = [at EXCEPT ![r] = "find_treasury"] /\ UNCHANGED <<rows, item, inserted, outcome>>
      /\ pending[r] = {} /\ AddIfMissing(r, row) /\ at[r] = "find_asset"
  BY DEF FindAsset, Selects, Place
<1>3. /\ pending' \in [Runs -> SUBSET Rows]
      /\ InsertsExclude' /\ OvertakenMeansSeeded' /\ OneOfEach'
      /\ Provided(r, row)'
      /\ \A q \in Runs, x \in Rows : Provided(q, x) => Provided(q, x)'
      /\ pending'[r] \subseteq {row}
      /\ \A q \in Runs \ {r} : pending'[q] = pending[q]
  <2>1. UNCHANGED <<rows, inserted>>
    BY <1>2
  <2> HIDE DEF SeedInv
  <2> QED
    BY <1>1, <1>2, <2>1, Adding
<1>4. TypeOK'
  BY <1>2, <1>3 DEF TypeOK
<1>5. at'[r] = "find_treasury" /\ \A q \in Runs \ {r} : at'[q] = at[q]
  BY <1>2 DEF TypeOK
<1>6. LoopProvides'
  <2>1. \A q \in Runs : item[q] \in Places => <<"asset", item[q]>> \in Rows
    BY DEF Rows
  <2> QED
    BY <1>1, <1>2, <1>3, <1>5, <2>1 DEF LoopProvides
<1>7. EndedMeansSeeded'
  BY <1>2 DEF EndedMeansSeeded, Seeded
<1>8. InsertsInOrder'
  <2>1. Rank(row) = Reached(r) /\ Reached(r)' = Reached(r) + 1
    BY <1>2, <1>5, Ranks DEF Reached
  <2> HIDE DEF SeedInv
  <2> QED
    BY <1>1, <1>2, <1>3, <1>5, <2>1, AddingInOrder
<1> QED
  BY <1>3, <1>4, <1>6, <1>7, <1>8

LEMMA FindTreasurySeedInv ==
    ASSUME SeedInv, NEW r \in Runs, FindTreasury(r)
    PROVE  SeedInv'
<1> SUFFICES ASSUME NEW row, row = <<"treasury", item[r]>>
             PROVE  SeedInv'
  OBVIOUS
<1> USE DEF SeedInv
<1> DEFINE next == IF item[r] + 1 \in Places THEN "find_asset" ELSE "commit"
<1>1. row \in Rows /\ item[r] \in Places
  BY DEF FindTreasury, Selects, LoopProvides, Rows
<1>2. /\ UNCHANGED <<rows, inserted, outcome>>
      /\ item' = [item EXCEPT ![r] = item[r] + 1]
      /\ pending[r] = {} /\ AddIfMissing(r, row) /\ at[r] = "find_treasury"
  BY DEF FindTreasury, Selects, Place
<1>3. /\ at' = [at EXCEPT ![r] = next] /\ item'[r] = item[r] + 1
      /\ \A q \in Runs \ {r} : item'[q] = item[q]
  BY <1>2 DEF FindTreasury, TypeOK
<1>4. /\ pending' \in [Runs -> SUBSET Rows]
      /\ InsertsExclude' /\ OvertakenMeansSeeded' /\ OneOfEach'
      /\ Provided(r, row)'
      /\ \A q \in Runs, x \in Rows : Provided(q, x) => Provided(q, x)'
      /\ pending'[r] \subseteq {row}
      /\ \A q \in Runs \ {r} : pending'[q] = pending[q]
  <2>1. UNCHANGED <<rows, inserted>>
    BY <1>2
  <2> HIDE DEF SeedInv
  <2> QED
    BY <1>1, <1>2, <2>1, Adding
<1>5. TypeOK'
  <2>1. item[r] + 1 \in Nat \ {0} /\ next \in {"find_asset", "commit"}
    <3> HIDE DEF SeedInv
    <3>1. item[r] \in Nat
      BY <1>1, PlaceTypes
    <3> QED
      BY <3>1
  <2> QED
    BY <1>2, <1>3, <1>4, <2>1 DEF TypeOK
<1>6. at'[r] = next /\ \A q \in Runs \ {r} : at'[q] = at[q]
  BY <1>3 DEF TypeOK
<1>7. \A x \in Rows : x[2] < item[r] + 1 => Provided(r, x)'
  <2>1. SUFFICES ASSUME NEW x \in Rows, x[2] < item[r] + 1
                 PROVE  Provided(r, x)'
    OBVIOUS
  <2>2. x[2] \in Nat /\ item[r] \in Nat /\ x[1] \in {"asset", "treasury"} /\ x = <<x[1], x[2]>>
    BY <1>1, PlaceTypes, RowShape
  <2>3. CASE x[2] < item[r]
    <3>1. Provided(r, x)
      BY <1>2, <2>3 DEF LoopProvides
    <3> HIDE DEF SeedInv
    <3> QED
      BY <1>4, <3>1
  <2>4. CASE x[2] = item[r]
    <3>1. Provided(r, <<"asset", item[r]>>) /\ <<"asset", item[r]>> \in Rows
      BY <1>1, <1>2 DEF LoopProvides, Rows
    <3>2. x = row \/ x = <<"asset", item[r]>>
      BY <2>2, <2>4
    <3> QED
      BY <1>4, <3>1, <3>2
  <2> QED
    BY <2>1, <2>2, <2>3, <2>4
<1>8. item[r] + 1 \notin Places => \A x \in Rows : x[2] < item[r] + 1
  BY <1>1, SeedAssumption DEF Rows, Places
<1>9. LoopProvides'
  <2>1. \A q \in Runs : item[q] \in Places => <<"asset", item[q]>> \in Rows
    BY DEF Rows
  <2>2. /\ at'[r] # "done" /\ at'[r] # "find_treasury" /\ outcome'[r] = "running"
        /\ at'[r] = "find_asset" => item'[r] \in Places
        /\ at'[r] = "commit" => \A x \in Rows : Provided(r, x)'
        /\ at'[r] = "find_asset" => \A x \in Rows : x[2] < item'[r] => Provided(r, x)'
    <3>1. outcome'[r] = "running"
      BY <1>2 DEF LoopProvides
    <3>2. at'[r] = "commit" => \A x \in Rows : Provided(r, x)'
      BY <1>6, <1>7, <1>8
    <3> QED
      BY <1>3, <1>6, <1>7, <3>1, <3>2
  <2>3. ASSUME NEW q \in Runs \ {r}
        PROVE  /\ at'[q] = "done" => inserted'[q] = {} /\ pending'[q] = {}
               /\ at'[q] # "done" => outcome'[q] = "running"
               /\ at'[q] \in {"find_asset", "find_treasury"} => item'[q] \in Places
               /\ at'[q] = "commit" => \A x \in Rows : Provided(q, x)'
               /\ at'[q] \in {"find_asset", "find_treasury"} =>
                      \A x \in Rows : x[2] < item'[q] => Provided(q, x)'
               /\ at'[q] = "find_treasury" => Provided(q, <<"asset", item[q]>>)'
    BY <1>2, <1>3, <1>4, <1>6, <2>1 DEF LoopProvides
  <2> QED
    BY <1>3, <2>2, <2>3 DEF LoopProvides
<1>10. EndedMeansSeeded'
  BY <1>2 DEF EndedMeansSeeded, Seeded
<1>11. InsertsInOrder'
  <2>1. item[r] \in Nat
    BY <1>1, PlaceTypes
  <2>2. Rank(row) = Reached(r) /\ Reached(r)' = Reached(r) + 1
    BY <1>2, <1>3, <1>6, <2>1, Ranks DEF Reached
  <2> HIDE DEF SeedInv
  <2> QED
    BY <1>1, <1>2, <1>3, <1>4, <1>6, <2>2, AddingInOrder
<1> QED
  BY <1>4, <1>5, <1>9, <1>10, <1>11

(* Every row is there when one run has committed.                          *)
LEMMA CommitSeedInv ==
    ASSUME SeedInv, NEW r \in Runs, Commit(r)
    PROVE  SeedInv'
<1> USE DEF SeedInv
<1>1. /\ at[r] = "commit" /\ pending[r] = {} /\ End(r, "committed")
      /\ rows' = [row \in Rows |-> IF row \in inserted[r] THEN rows[row] + 1 ELSE rows[row]]
  BY DEF Commit, Selects
<1>2. /\ \A q \in Runs \ {r} : /\ at'[q] = at[q] /\ outcome'[q] = outcome[q]
                               /\ pending'[q] = pending[q] /\ inserted'[q] = inserted[q]
      /\ at'[r] = "done" /\ outcome'[r] = "committed"
      /\ pending'[r] = {} /\ inserted'[r] = {} /\ item' = item
  BY <1>1 DEF End, TypeOK
<1>3. TypeOK'
  BY <1>1 DEF End, TypeOK, Outcomes
<1>4. \A row \in Rows : rows[row] \in {0, 1} /\ (row \in inserted[r] => rows[row] = 0)
  BY DEF TypeOK, OneOfEach, InsertsExclude
<1>5. OneOfEach'
  BY <1>1, <1>4 DEF OneOfEach
<1>6. Seeded'
  <2>1. \A row \in Rows : rows[row] > 0 \/ row \in inserted[r]
    BY <1>1 DEF LoopProvides, Provided, Finds
  <2> QED
    BY <1>1, <1>4, <2>1 DEF Seeded
<1>7. InsertsExclude'
  <2>1. SUFFICES ASSUME NEW q \in Runs, NEW row \in inserted'[q]
                 PROVE  rows'[row] = 0 /\ \A s \in Runs : row \in inserted'[s] => s = q
    BY DEF InsertsExclude
  <2>2. q # r /\ row \in inserted[q] /\ row \in Rows
    BY <1>2, <2>1 DEF TypeOK
  <2>3. rows[row] = 0 /\ row \notin inserted[r] /\ \A s \in Runs : row \in inserted[s] => s = q
    BY <2>2 DEF InsertsExclude
  <2> QED
    BY <1>1, <1>2, <2>2, <2>3
<1>8. \A q \in Runs \ {r}, row \in Rows : Provided(q, row)'
  BY <1>6 DEF Provided, Finds, Seeded
<1>9. LoopProvides'
  <2>1. \A q \in Runs : item[q] \in Places => <<"asset", item[q]>> \in Rows
    BY DEF Rows
  <2> QED
    BY <1>2, <1>8, <2>1 DEF LoopProvides
<1>10. OvertakenMeansSeeded' /\ EndedMeansSeeded'
  BY <1>6 DEF OvertakenMeansSeeded, EndedMeansSeeded
<1>11. InsertsInOrder'
  <2>1. \A q \in Runs \ {r} : Reached(q)' = Reached(q)
    BY <1>2 DEF Reached
  <2> QED
    BY <1>2, <2>1 DEF InsertsInOrder
<1> QED
  BY <1>3, <1>5, <1>7, <1>9, <1>10, <1>11

LEMMA NextSeedInv == SeedInv /\ [Next]_vars => SeedInv'
<1> SUFFICES ASSUME SeedInv, [Next]_vars PROVE SeedInv'
  OBVIOUS
<1>1. CASE UNCHANGED vars
  BY <1>1 DEF vars, SeedInv, TypeOK, OneOfEach, InsertsExclude, LoopProvides,
     InsertsInOrder, Reached, OvertakenMeansSeeded, EndedMeansSeeded, Provided, Finds, Seeded
<1>2. CASE \E r \in Runs : Step(r)
  BY <1>2, FlushSeedInv, FindAssetSeedInv, FindTreasurySeedInv, CommitSeedInv DEF Step
<1>3. CASE \E r \in Runs : Kill(r)
  BY <1>3, EndSeedInv DEF Kill, Outcomes
<1> QED
  BY <1>1, <1>2, <1>3 DEF Next, Finished

-----------------------------------------------------------------------------
(* What each run relies on, whatever the others do meanwhile.              *)
THEOREM SeedInvariance == Spec => []SeedInv
<1>1. Init => SeedInv
  BY InitSeedInv
<1>2. SeedInv /\ [Next]_vars => SeedInv'
  BY NextSeedInv
<1> QED
  BY <1>1, <1>2, PTL DEF Spec

(* However many seeds run at once, none creates a row that is there.       *)
THEOREM SeedsCreateOnce == Spec => []OneOfEach
<1>1. SeedInv => OneOfEach
  BY DEF SeedInv
<1> QED
  BY <1>1, SeedInvariance, PTL

(* A seed that ended, even with an IntegrityError, leaves nothing to do.   *)
THEOREM SeedsAreComplete == Spec => []EndedMeansSeeded
<1>1. SeedInv => EndedMeansSeeded
  BY DEF SeedInv
<1> QED
  BY <1>1, SeedInvariance, PTL

-----------------------------------------------------------------------------
(* Waiting.  Of the rows that runs wait for, take the last in the order of *)
(* the loop.  The run that has inserted it can only wait for a later one.  *)

LEMMA LargestNumber ==
    ASSUME NEW n \in Nat, NEW T, T \subseteq 0 .. n, T # {}
    PROVE  \E m \in T : \A k \in T : k <= m
<1> DEFINE S == {n - k : k \in T}
           R == OpToRel(<, Nat)
<1>1. T \subseteq Nat /\ \A k \in T : n - k \in Nat
  OBVIOUS
<1>2. S \subseteq Nat /\ S # {}
  BY <1>1
<1>3. IsWellFoundedOn(R, Nat)
  BY NatLessThanWellFounded
<1>4. \A j, k \in Nat : <<j, k>> \in R <=> j < k
  BY DEF OpToRel
<1>5. PICK m \in S : \A k \in S : <<k, m>> \notin R
  <2> HIDE DEF R, S
  <2> QED
    BY <1>2, <1>3, WFMin
<1>6. \A k \in S : ~(k < m)
  <2> HIDE DEF R, S
  <2> QED
    BY <1>2, <1>4, <1>5
<1>7. PICK j \in T : m = n - j
  OBVIOUS
<1>8. \A k \in T : ~(n - k < n - j)
  BY <1>6, <1>7
<1>9. \A k \in T : k <= j
  BY <1>1, <1>8
<1> QED
  BY <1>9

(* Who is waited for has not ended, and waits for nothing it has passed.   *)
LEMMA WaitsGoUp ==
    ASSUME SeedInv, NEW r \in Runs, NEW q \in Runs, WaitsFor(r, q)
    PROVE  /\ at[q] # "done"
           /\ \A x \in pending[r], y \in pending[q] :
                  x \in Rows /\ y \in Rows /\ Rank(x) < Rank(y)
<1>1. PICK row \in pending[r] : row \in inserted[q]
  BY DEF WaitsFor
<1>2. pending[r] = {row}
  BY DEF SeedInv, InsertsInOrder
<1>3. pending[r] \subseteq Rows /\ pending[q] \subseteq Rows
  BY DEF SeedInv, TypeOK
<1> QED
  BY <1>1, <1>2, <1>3 DEF SeedInv, InsertsInOrder, LoopProvides

LEMMA NoCircle == SeedInv => SomeRunGoesOn
<1> SUFFICES ASSUME SeedInv, NEW s \in Runs, at[s] # "done",
                    \A r \in Runs : at[r] # "done" => \E q \in Runs : WaitsFor(r, q)
             PROVE  FALSE
  BY DEF SomeRunGoesOn
<1> DEFINE Awaited == {Rank(row) : row \in UNION {pending[r] : r \in Runs}}
<1>1. \A r \in Runs : at[r] # "done" => pending[r] # {}
  BY DEF WaitsFor
<1>2. /\ Awaited \subseteq 0 .. 2 * Len(DEVELOPMENT_ASSETS) + 1
      /\ 2 * Len(DEVELOPMENT_ASSETS) + 1 \in Nat
  <2>1. UNION {pending[r] : r \in Runs} \subseteq Rows
    BY DEF SeedInv, TypeOK
  <2> QED
    BY <2>1, Ranks, PlaceTypes
<1>3. Awaited # {}
  BY <1>1
<1>4. PICK last \in Awaited : \A n \in Awaited : n <= last
  <2> HIDE DEF Awaited
  <2> QED
    BY <1>2, <1>3, LargestNumber
<1>5. PICK r \in Runs : \E row \in pending[r] : last = Rank(row)
  BY <1>4
<1>6. PICK row \in pending[r] : last = Rank(row)
  BY <1>5
<1>7. at[r] # "done"
  BY <1>6 DEF SeedInv, LoopProvides
<1>8. PICK q \in Runs : WaitsFor(r, q)
  BY <1>7
<1>9. PICK later \in pending[q] : later \in Rows /\ row \in Rows /\ Rank(row) < Rank(later)
  BY <1>1, <1>6, <1>8, WaitsGoUp
<1>10. Rank(later) \in Awaited /\ Rank(later) \in Int /\ Rank(row) \in Int
  BY <1>9, Ranks
<1> QED
  BY <1>4, <1>6, <1>9, <1>10

(* However many seeds run at once, they never all wait for each other: the *)
(* loop takes the assets in the order of a tuple (seed_dev_data.py:26).    *)
THEOREM SeedsDoNotCircle == Spec => []SomeRunGoesOn
BY NoCircle, SeedInvariance, PTL

=============================================================================
