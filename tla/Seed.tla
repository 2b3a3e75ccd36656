-------------------------------- MODULE Seed --------------------------------
(***************************************************************************)
(* The development seed: main of app/scripts/seed_dev_data.py, which       *)
(* creates the development assets and the treasury wallet of each, those   *)
(* that are missing, in one READ COMMITTED transaction.  It may be started *)
(* again, or while another one is running, and it may find rows that were  *)
(* inserted by hand.                                                       *)
(*                                                                         *)
(* assets.code is unique, and so is the pair of a system account and an    *)
(* asset in wallets: an INSERT waits for another one of the same row, and  *)
(* fails when that one has committed.  The script does not catch the       *)
(* IntegrityError, and the session is closed without a commit.             *)
(*                                                                         *)
(* Left out: names, precisions and amounts, which nothing here compares,   *)
(* and runs outside development, which raise before they open a session.   *)
(***************************************************************************)
EXTENDS Integers, Sequences

CONSTANTS
    Runs,                 \* processes that run main, each of them once
    DEVELOPMENT_ASSETS    \* the codes of the assets, in their order

ASSUME SeedAssumption ==
    /\ DEVELOPMENT_ASSETS \in Seq(STRING)
    /\ \A i, j \in DOMAIN DEVELOPMENT_ASSETS :
           DEVELOPMENT_ASSETS[i] = DEVELOPMENT_ASSETS[j] => i = j

Places == 1 .. Len(DEVELOPMENT_ASSETS)

(* An asset is known by its place in the list.                             *)
Rows == {"asset", "treasury"} \X Places

VARIABLES
    rows,       \* how many rows of each kind and asset are committed
    at,         \* the statement each run is about to execute
    item,       \* the asset its loop is at
    pending,    \* what it has added to its session and not flushed
    inserted,   \* what it has flushed and not committed
    outcome     \* how it ended

vars == <<rows, at, item, pending, inserted, outcome>>

Outcomes == {"running", "committed", "integrity_error", "killed"}

(* Any of the assets may be there, and any of those may have its treasury. *)
Init ==
    /\ rows \in [Rows -> {0, 1}]
    /\ \A i \in Places : rows[<<"asset", i>>] >= rows[<<"treasury", i>>]
    /\ at = [r \in Runs |-> IF Places = {} THEN "commit" ELSE "find_asset"]
    /\ item = [r \in Runs |-> 1]
    /\ pending = [r \in Runs |-> {}]
    /\ inserted = [r \in Runs |-> {}]
    /\ outcome = [r \in Runs |-> "running"]

(* What a SELECT of the run returns: committed rows and its own. *)
Finds(r, row) == rows[row] > 0 \/ row \in inserted[r]

End(r, how) ==
    /\ at' = [at EXCEPT ![r] = "done"]
    /\ outcome' = [outcome EXCEPT ![r] = how]
    /\ pending' = [pending EXCEPT ![r] = {}]
    /\ inserted' = [inserted EXCEPT ![r] = {}]
    /\ UNCHANGED item

(* Fault: neither index is unique. *)
FlushWithoutIndex(r) ==
    /\ pending[r] # {}
    /\ inserted' = [inserted EXCEPT ![r] = @ \cup pending[r]]
    /\ pending' = [pending EXCEPT ![r] = {}]
    /\ UNCHANGED <<rows, at, item, outcome>>

(* The INSERT of what was added: by session.flush() for an asset, by the   *)
(* autoflush of the next SELECT or by session.commit() for a treasury.     *)
Flush(r) ==
    \E row \in pending[r] :
        /\ \A q \in Runs \ {r} : row \notin inserted[q]
        /\ \/ /\ rows[row] = 0
              /\ inserted' = [inserted EXCEPT ![r] = @ \cup {row}]
              /\ pending' = [pending EXCEPT ![r] = @ \ {row}]
              /\ UNCHANGED <<at, item, outcome>>
           \/ rows[row] > 0 /\ End(r, "integrity_error")
        /\ UNCHANGED rows

Selects(r, label) == at[r] = label /\ pending[r] = {}

AddIfMissing(r, row) ==
    pending' = [pending EXCEPT ![r] = {x \in {row} : ~Finds(r, x)}]

(* Fault: the assets are a set, which every process visits in its own order. *)
PlaceInSetOrder(r) ==
    IF r = CHOOSE q \in Runs : TRUE THEN item[r]
    ELSE Len(DEVELOPMENT_ASSETS) + 1 - item[r]

Place(r) == item[r]

FindAsset(r) ==
    /\ Selects(r, "find_asset")
    /\ AddIfMissing(r, <<"asset", Place(r)>>)
    /\ at' = [at EXCEPT ![r] = "find_treasury"]
    /\ UNCHANGED <<rows, item, inserted, outcome>>

(* Fault: the treasury is looked after only when the asset is new. *)
FindTreasuryOfNewAsset(r) ==
    /\ Selects(r, "find_treasury")
    /\ IF <<"asset", Place(r)>> \in inserted[r]
       THEN AddIfMissing(r, <<"treasury", Place(r)>>)
       ELSE UNCHANGED pending
    /\ item' = [item EXCEPT ![r] = @ + 1]
    /\ at' = [at EXCEPT ![r] = IF item'[r] \in Places THEN "find_asset" ELSE "commit"]
    /\ UNCHANGED <<rows, inserted, outcome>>

FindTreasury(r) ==
    /\ Selects(r, "find_treasury")
    /\ AddIfMissing(r, <<"treasury", Place(r)>>)
    /\ item' = [item EXCEPT ![r] = @ + 1]
    /\ at' = [at EXCEPT ![r] = IF item'[r] \in Places THEN "find_asset" ELSE "commit"]
    /\ UNCHANGED <<rows, inserted, outcome>>

Commit(r) ==
    /\ Selects(r, "commit")
    /\ rows' = [row \in Rows |-> IF row \in inserted[r] THEN rows[row] + 1 ELSE rows[row]]
    /\ End(r, "committed")

(* The process dies or loses its connection. *)
Kill(r) ==
    /\ at[r] # "done"
    /\ End(r, "killed")
    /\ UNCHANGED rows

Step(r) == Flush(r) \/ FindAsset(r) \/ FindTreasury(r) \/ Commit(r)

Finished == (\A r \in Runs : at[r] = "done") /\ UNCHANGED vars

Next == (\E r \in Runs : Step(r) \/ Kill(r)) \/ Finished

Spec == Init /\ [][Next]_vars

(* A process goes on, and an INSERT that waits is granted when the other   *)
(* transaction has ended.                                                  *)
FairSpec == Spec /\ \A r \in Runs : WF_vars(Step(r))

-----------------------------------------------------------------------------
TypeOK ==
    /\ rows \in [Rows -> Nat]
    /\ at \in [Runs -> {"find_asset", "find_treasury", "commit", "done"}]
    /\ item \in [Runs -> Nat \ {0}]
    /\ pending \in [Runs -> SUBSET Rows]
    /\ inserted \in [Runs -> SUBSET Rows]
    /\ outcome \in [Runs -> Outcomes]

(* However many seeds run at once, a code has one asset and an asset one   *)
(* treasury, for which one amount was created: the script looks for a row  *)
(* (seed_dev_data.py:26 and 38) and inserts it in a later statement.       *)
OneOfEach == \A row \in Rows : rows[row] <= 1

Seeded == \A row \in Rows : rows[row] > 0

(* A seed that ends, with its message or with the IntegrityError of a      *)
(* collision, leaves every development asset with its treasury, whatever   *)
(* rows were there before: nothing is left for another run to do.          *)
EndedMeansSeeded ==
    \A r \in Runs : outcome[r] \in {"committed", "integrity_error"} => Seeded

(* A row is in the hands of one run at a time, and is not committed yet.   *)
InsertsExclude ==
    \A r \in Runs : \A row \in inserted[r] :
        rows[row] = 0 /\ \A q \in Runs : row \in inserted[q] => q = r

(* What the loop has passed is there, or is about to be.                   *)
Provided(r, row) == Finds(r, row) \/ row \in pending[r]

LoopProvides ==
    \A r \in Runs :
        /\ at[r] = "done" => inserted[r] = {} /\ pending[r] = {}
        /\ at[r] # "done" => outcome[r] = "running"
        /\ at[r] \in {"find_asset", "find_treasury"} => item[r] \in Places
        /\ at[r] = "commit" => \A row \in Rows : Provided(r, row)
        /\ at[r] \in {"find_asset", "find_treasury"} =>
               \A row \in Rows : row[2] < item[r] => Provided(r, row)
        /\ at[r] = "find_treasury" => Provided(r, <<"asset", item[r]>>)

(* A row that a run did not find and that is there now was committed by    *)
(* another run, and so were all the others.                                *)
OvertakenMeansSeeded ==
    \A r \in Runs : \A row \in pending[r] : rows[row] > 0 => Seeded

(* The order in which the loop comes to the rows. *)
Rank(row) == IF row[1] = "asset" THEN 2 * row[2] ELSE 2 * row[2] + 1

Reached(r) == IF at[r] = "find_treasury" THEN 2 * item[r] + 1 ELSE 2 * item[r]

(* A run adds one row at a time, the next one of an order that is the same *)
(* for all of them: what it inserts, and may wait for, comes after all     *)
(* that it has inserted.                                                   *)
InsertsInOrder ==
    \A r \in Runs :
        /\ at[r] # "done" =>
               \A row \in inserted[r] \cup pending[r] : Rank(row) < Reached(r)
        /\ \A row \in pending[r] :
               /\ pending[r] = {row}
               /\ \A held \in inserted[r] : Rank(held) < Rank(row)

(* The inductive invariant. *)
SeedInv ==
    /\ TypeOK
    /\ OneOfEach
    /\ InsertsExclude
    /\ LoopProvides
    /\ InsertsInOrder
    /\ OvertakenMeansSeeded
    /\ EndedMeansSeeded

(* A run whose INSERT waits for the end of another one's transaction.      *)
WaitsFor(r, q) == q # r /\ pending[r] \cap inserted[q] # {}

(* The runs do not wait for each other in a circle: as long as one has not *)
(* ended, one of them is held up by nobody.                                *)
SomeRunGoesOn ==
    (\E r \in Runs : at[r] # "done") =>
        \E r \in Runs : at[r] # "done" /\ \A q \in Runs : ~WaitsFor(r, q)

(* Every seed ends: those that run at once visit the assets in one order,  *)
(* so that they do not wait for each other's rows in a circle.             *)
EveryRunEnds == \A r \in Runs : <>(at[r] = "done")

=============================================================================
