---------------------------- MODULE AtomicLedger ----------------------------
(***************************************************************************)
(* What the ledger promises: funding, reserving and releasing are atomic   *)
(* operations on the database, each decided on the rows as they are at     *)
(* that moment, and each applied at most once per idempotency key or       *)
(* order.  The handlers of module Sandbox, which read and lock rows one    *)
(* statement at a time, are shown to implement it.                         *)
(***************************************************************************)
EXTENDS Schema, Sums

VARIABLES wallets, ledger, orders, outbox

database == <<wallets, ledger, orders, outbox>>

(* Fault: only fundings are looked up by key. *)
PostedFundingKeys == {ledger[i].key : i \in {j \in DOMAIN ledger : ledger[j].type = "funding"}}

PostedKeys == {ledger[i].key : i \in DOMAIN ledger}

Init ==
    /\ wallets = SeededWallets
    /\ ledger = <<>>
    /\ orders = <<>>
    /\ outbox = <<>>

(* Sandbox funding moves an amount from the asset's treasury to the user's *)
(* wallet, which it creates if need be.                                    *)
Fund(r) ==
    LET t == TreasuryWallet(r.asset)
        u == UserWallet(r.user, r.asset)
    IN  /\ r.amount > 0
        /\ active_asset(r.asset)
        /\ r.key \notin PostedKeys
        /\ wallets[t].exists
        /\ wallets[t].available >= r.amount
        /\ wallets' = [wallets EXCEPT
               ![t].available = minus(@, Fine(r.amount)),
               ![u].available = plus(@, Fine(r.amount)),
               ![u].exists = TRUE]
        /\ ledger' = Append(ledger, FundingTransaction(r))
        /\ UNCHANGED <<orders, outbox>>

(* Creating an order moves its reservation from available to locked.       *)
Reserve(r) ==
    LET w    == ReserveWallet(r)
        need == reserved_amount(r)
    IN  /\ active_asset(r.base) /\ active_asset(r.quote)
        /\ r.base # r.quote
        /\ numeric(need) > 0
        /\ ledger_idempotency_key(r.user, r.key) \notin PostedKeys
        /\ wallets[w].exists
        /\ Fine(wallets[w].available) >= need
        /\ wallets' = [wallets EXCEPT
               ![w].available = minus(@, need),
               ![w].locked = plus(@, need)]
        /\ ledger' = Append(ledger, ReserveTransaction(r))
        /\ orders' = Append(orders, NewOrder(r, Len(ledger) + 1))
        /\ outbox' = Append(outbox, CreatedEvent(Len(orders) + 1, r))

(* Fault: the status of the order is not looked at. *)
ReleaseAgain(r) ==
    /\ r.order \in DOMAIN orders
    /\ LET o == orders[r.order]
           w == ReserveWallet(o)
       IN  /\ o.user = r.user
           /\ wallets[w].locked >= o.reserved
           /\ wallets' = [wallets EXCEPT
                  ![w].locked = minus(@, Fine(o.reserved)),
                  ![w].available = plus(@, Fine(o.reserved))]
           /\ ledger' = Append(ledger, ReleaseTransaction(o))
           /\ orders' = [orders EXCEPT ![r.order].status = "canceled"]
           /\ outbox' = Append(outbox, CanceledEvent(r.order, o))

(* Fault: what is given back is computed again, and rounded down. *)
ReleaseTruncated(r) ==
    /\ r.order \in DOMAIN orders
    /\ LET o == orders[r.order]
           w == ReserveWallet(o)
       IN  /\ o.user = r.user
           /\ o.status = "open"
           /\ wallets[w].locked >= o.reserved
           /\ wallets' = [wallets EXCEPT
                  ![w].locked = minus(@, Fine(o.reserved)),
                  ![w].available = plus(@, Fine(reserved_amount(o) \div Scale))]
           /\ ledger' = Append(ledger, ReleaseTransaction(o))
           /\ orders' = [orders EXCEPT ![r.order].status = "canceled"]
           /\ outbox' = Append(outbox, CanceledEvent(r.order, o))

(* Canceling an open order of the user moves it back. *)
Release(r) ==
    /\ r.order \in DOMAIN orders
    /\ LET o == orders[r.order]
           w == ReserveWallet(o)
       IN  /\ o.user = r.user
           /\ o.status = "open"
           /\ wallets[w].locked >= o.reserved
           /\ wallets' = [wallets EXCEPT
                  ![w].locked = minus(@, Fine(o.reserved)),
                  ![w].available = plus(@, Fine(o.reserved))]
           /\ ledger' = Append(ledger, ReleaseTransaction(o))
           /\ orders' = [orders EXCEPT ![r.order].status = "canceled"]
           /\ outbox' = Append(outbox, CanceledEvent(r.order, o))

(* Fault: the total is what is available. *)
list_available_balances(user) ==
    [a \in {b \in Assets : wallets[UserWallet(user, b)].exists} |->
        LET row == wallets[UserWallet(user, a)]
        IN  [available_balance |-> Fine(row.available),
             locked_balance    |-> Fine(row.locked),
             total_balance     |-> Fine(row.available)]]

(* GET /wallets: one SELECT over the rows that are committed.  The total   *)
(* is a Decimal that no column stores.                                     *)
list_wallet_balances(user) ==
    [a \in {b \in Assets : wallets[UserWallet(user, b)].exists} |->
        LET row == wallets[UserWallet(user, a)]
        IN  [available_balance |-> Fine(row.available),
             locked_balance    |-> Fine(row.locked),
             total_balance     |-> context(Fine(row.available) + Fine(row.locked))]]

Next ==
    \/ \E r \in FundingInputs : Fund(r)
    \/ \E r \in OrderInputs : Reserve(r)
    \/ \E r \in CancelInputs : Release(r)

Spec == Init /\ [][Next]_database

-----------------------------------------------------------------------------
TypeOK ==
    /\ wallets \in [WalletIds -> Wallet]
    /\ ledger \in Seq(LedgerTransaction)
    /\ orders \in Seq(Order)
    /\ outbox \in Seq(OutboxEvent)

(* What a bucket of a wallet holds according to its ledger entries. *)
Posted(w, bucket) ==
    SumOf([i \in DOMAIN ledger |->
        (IF ledger[i].credit.wallet = w /\ ledger[i].credit.bucket = bucket
         THEN ledger[i].credit.amount ELSE 0)
        -
        (IF ledger[i].debit.wallet = w /\ ledger[i].debit.bucket = bucket
         THEN ledger[i].debit.amount ELSE 0)])

(* What the open orders of a wallet reserve. *)
OpenReservations(w) ==
    SumOf([i \in DOMAIN orders |->
        IF ReserveWallet(orders[i]) = w /\ orders[i].status = "open"
        THEN orders[i].reserved ELSE 0])

(* How many reservations of a wallet fell half way between two units, and  *)
(* how many were no whole number of units.                                 *)
Ties(w) ==
    SumOf([i \in DOMAIN orders |->
        IF ReserveWallet(orders[i]) = w /\ IsTie(reserved_amount(orders[i]))
        THEN 1 ELSE 0])

Inexact(w) ==
    SumOf([i \in DOMAIN orders |->
        IF ReserveWallet(orders[i]) = w /\ IsInexact(reserved_amount(orders[i]))
        THEN 1 ELSE 0])

(* Every locked balance covers the reservations of the wallet's open       *)
(* orders, so that no cancellation can find too little locked              *)
(* (orders.py, OrderReservationStateError).  What is locked beyond them,   *)
(* and stays locked when the orders are gone, is one unit at most for each *)
(* order whose amount was no whole number of units: the amount alone was   *)
(* rounded down, and with the balance, which leaves it fewer digits, up    *)
(* (orders.py:239).                                                        *)
LockedCoversOpenOrders ==
    \A w \in WalletIds :
        wallets[w].locked - OpenReservations(w) \in 0 .. Inexact(w)

(* The double entry: every balance is its seed plus what the ledger        *)
(* entries posted to it, or more by what the balances have gained in       *)
(* rounding: both together one unit at most for each order whose amount is *)
(* no whole number of units, and one at least for each that is half way    *)
(* between two.                                                            *)
LedgerExplainsBalances ==
    \A w \in WalletIds :
        LET locked    == wallets[w].locked - Posted(w, "locked")
            available == wallets[w].available
                           - SeededWallets[w].available - Posted(w, "available")
        IN  /\ locked >= 0 /\ available >= 0
            /\ locked + available \in Ties(w) .. Inexact(w)

(* A key is spent at most once: of all ledger transactions with one        *)
(* idempotency key there is one, and a user has one order per key.         *)
KeysSpentOnce ==
    /\ \A i, j \in DOMAIN ledger :
           ledger[i].key = ledger[j].key /\ ledger[i].key # NoKey => i = j
    /\ \A i, j \in DOMAIN orders :
           orders[i].user = orders[j].user /\ orders[i].key = orders[j].key
               => i = j

(* The outbox tells each order's story exactly once: one order.created     *)
(* event per order, one order.canceled event if and only if the order is   *)
(* canceled, and never the cancellation before the creation.               *)
OutboxTellsOrders ==
    LET Told(type, id) == {n \in DOMAIN outbox : event_key(outbox[n]) = <<type, id>>}
    IN  /\ \A id \in DOMAIN orders :
               /\ Cardinality(Told("order.created", id)) = 1
               /\ Cardinality(Told("order.canceled", id))
                    = IF orders[id].status = "canceled" THEN 1 ELSE 0
               /\ \A m \in Told("order.created", id),
                     n \in Told("order.canceled", id) : m < n
        /\ \A n \in DOMAIN outbox : outbox[n].order \in DOMAIN orders

(* What a client reads of its balances, at any moment: orders and          *)
(* cancellations move an amount between available and locked, and add or   *)
(* remove neither a wallet nor a part of a total.  Only a reservation that *)
(* is no whole number of units may add one unit, and one that is half way  *)
(* between two does.                                                       *)
OrdersKeepTotals ==
    [][orders' # orders =>
          \A user \in Users :
              LET before == list_wallet_balances(user)
                  after  == list_wallet_balances(user)'
              IN  /\ DOMAIN after = DOMAIN before
                  /\ \A a \in DOMAIN before :
                         LET w == UserWallet(user, a)
                         IN  \E gain \in Ties(w)' - Ties(w) .. Inexact(w)' - Inexact(w) :
                                 after[a].total_balance
                                   = before[a].total_balance + Fine(gain)]_database

(* What a consumer that adds the reserved amount of every order.created    *)
(* and subtracts that of every order.canceled believes is locked, in fine  *)
(* units.                                                                  *)
BelievedLocked(w) ==
    SumOf([n \in DOMAIN outbox |->
        IF ReserveWallet(orders[outbox[n].order]) # w THEN 0
        ELSE IF outbox[n].type = "order.created" THEN outbox[n].reserved
        ELSE -outbox[n].reserved])

(* The two events of an order need not agree about the amount, nor with    *)
(* the balance: creation tells the product (orders.py:280), cancellation   *)
(* the column (:415), and the balance is rounded on its own (:239).  For   *)
(* every order that was ever created with an amount that is no whole       *)
(* number of units, the consumer believes half a unit more locked at most, *)
(* or one less; for the others it is right.                                *)
EventsExplainLocked ==
    \A w \in WalletIds :
        LET error == BelievedLocked(w) - Fine(wallets[w].locked)
        IN  -Fine(Inexact(w)) <= error /\ 2 * error <= Fine(Inexact(w))

(* The owners of wallets, one after the other, in whatever order. *)
OwnerList ==
    CHOOSE list \in [1 .. Cardinality(Owners) -> Owners] :
        \A owner \in Owners : \E i \in DOMAIN list :
            \A j \in DOMAIN list : list[j] = owner <=> j = i

(* All that one asset's wallets hold, available or locked. *)
Held(a, rows) ==
    SumOf([i \in DOMAIN OwnerList |->
        rows[<<OwnerList[i], a>>].available + rows[<<OwnerList[i], a>>].locked])

(* The same counts over all wallets of an asset.                           *)
TiesOf(a) ==
    SumOf([i \in DOMAIN orders |->
        IF reserve_asset(orders[i]) = a /\ IsTie(reserved_amount(orders[i]))
        THEN 1 ELSE 0])

InexactOf(a) ==
    SumOf([i \in DOMAIN orders |->
        IF reserve_asset(orders[i]) = a /\ IsInexact(reserved_amount(orders[i]))
        THEN 1 ELSE 0])

(* Money moves between the treasury, the users and their buckets, and no   *)
(* request loses any.  An order whose amount is no whole number of units   *)
(* can make one unit, because its two balances are rounded apart, and each *)
(* twice (orders.py:238-239, and the columns): it does if the amount is    *)
(* half way between two units.  Nothing else makes any.                    *)
MoneyIsAccounted ==
    \A a \in Assets :
        Held(a, wallets) - Held(a, SeededWallets) \in TiesOf(a) .. InexactOf(a)

-----------------------------------------------------------------------------
(* What the documentation and the tests say of the amounts, and rounding   *)
(* breaks.                                                                 *)

(* README.md:11, double entry, and the round trip of a cancellation in     *)
(* tests/integration/test_order_cancellation_service.py: money moves       *)
(* between wallets and buckets, and none appears.                          *)
MoneyConserved == \A a \in Assets : Held(a, wallets) = Held(a, SeededWallets)

=============================================================================
