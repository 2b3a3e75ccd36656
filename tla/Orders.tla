------------------------------- MODULE Orders -------------------------------
(***************************************************************************)
(* Orders: POST /orders and POST /orders/{id}/cancel, that is              *)
(* create_order_reservation and cancel_order_reservation of                *)
(* app/services/orders.py.  A creation looks for an order with its key     *)
(* before it locks the wallet, and again once it holds it and has found    *)
(* the balance sufficient.                                                 *)
(***************************************************************************)
EXTENDS Session

(* Fault: an order that was canceled is not found again. *)
OpenOrdersOf(r) ==
    {n \in DOMAIN orders : orders[n].user = r.user /\ orders[n].key = r.key
                            /\ orders[n].status = "open"}

(* The orders of the user that already carry the request's key. *)
OrdersOf(r) ==
    {n \in DOMAIN orders : orders[n].user = r.user /\ orders[n].key = r.key}

(* Fault: the quantity is not compared. *)
validate_replay_price(r, o) ==
    /\ o.base = r.base /\ o.quote = r.quote /\ o.side = r.side
    /\ o.price = r.price

validate_replay(r, o) ==
    /\ o.base = r.base /\ o.quote = r.quote /\ o.side = r.side
    /\ o.price = r.price /\ o.quantity = r.quantity

existing_order_replay(p) ==
    LET r == request[p]
    IN  \E n \in OrdersOf(r) :
            \/ validate_replay(r, orders[n]) /\ Replay(p, n)
            \/ ~validate_replay(r, orders[n]) /\ Refuse(p, "conflict")

CreateBegin(p) ==
    LET r     == request[p]
        known == active_asset(r.base) /\ active_asset(r.quote)
        valid == r.base # r.quote /\ r.price > 0 /\ r.quantity > 0
    IN  /\ At(p, "create", "start")
        /\ ConnectionFree
        /\ \/ ~known /\ Refuse(p, "asset_not_found")
           \/ known /\ ~valid /\ Refuse(p, "invalid")
           \/ known /\ valid /\ existing_order_replay(p)
           \/ /\ known /\ valid /\ OrdersOf(r) = {}
              /\ Goto(p, "lock_wallet")
              /\ UNCHANGED <<seen, holds>>

HasAvailable(r) ==
    /\ wallets[ReserveWallet(r)].exists
    /\ Fine(wallets[ReserveWallet(r)].available) >= reserved_amount(r)

CreateLockWallet(p) ==
    LET r == request[p]
        w == ReserveWallet(r)
    IN  /\ At(p, "create", "lock_wallet")
        /\ WalletReadable(p, w)
        /\ \/ ~HasAvailable(r) /\ Refuse(p, "insufficient")
           \/ /\ HasAvailable(r)
              /\ LockWallet(p, "wallet", w)
              /\ Goto(p, "recheck")

CreateRecheck(p) ==
    /\ At(p, "create", "recheck")
    /\ \/ existing_order_replay(p)
       \/ /\ OrdersOf(request[p]) = {}
          /\ Goto(p, "insert_transaction")
          /\ UNCHANGED <<seen, holds>>

(* An amount that rounds to nothing breaks the CHECKs on the amounts of    *)
(* the order and of its ledger entries.                                    *)
CreateCommit(p) ==
    LET r    == request[p]
        w    == ReserveWallet(r)
        need == reserved_amount(r)
        row  == seen[p].wallet
    IN  /\ At(p, "create", "commit")
        /\ \/ numeric(need) = 0 /\ Refuse(p, "integrity_error")
           \/ /\ numeric(need) > 0
              /\ wallets' = [wallets EXCEPT
                     ![w].available = minus(row.available, need),
                     ![w].locked = plus(row.locked, need)]
              /\ ledger' = Append(ledger, ReserveTransaction(r))
              /\ orders' = Append(orders, NewOrder(r, Len(ledger) + 1))
              /\ outbox' = Append(outbox, CreatedEvent(Len(orders) + 1, r))
              /\ Commit(p, "created", Len(orders) + 1)

-----------------------------------------------------------------------------
(* The user is read first: a cancellation that waits for the order's lock  *)
(* has its connection already.                                             *)
CancelBegin(p) ==
    /\ At(p, "cancel", "start")
    /\ ConnectionFree
    /\ Goto(p, "lock_order")
    /\ UNCHANGED <<seen, holds>>

(* Fault: the order is read without FOR UPDATE, and its lock not kept. *)
CancelReadOrder(p) ==
    LET r == request[p]
    IN  /\ At(p, "cancel", "lock_order")
        /\ r.order \in DOMAIN orders
        /\ IF orders[r.order].status = "canceled"
           THEN Replay(p, r.order)
           ELSE Goto(p, "lock_wallet") /\ UNCHANGED <<seen, holds>>

CancelLockOrder(p) ==
    LET r     == request[p]
        found == r.order \in DOMAIN orders /\ orders[r.order].user = r.user
    IN  /\ At(p, "cancel", "lock_order")
        /\ \/ ~found /\ Refuse(p, "not_found")
           \/ /\ found
              /\ Free(p, OrderRow(r.order))
              /\ CASE orders[r.order].status = "canceled" ->
                        Replay(p, r.order)
                   [] orders[r.order].status = "filled" ->
                        Refuse(p, "not_cancelable")
                   [] orders[r.order].status = "open" ->
                        /\ Hold(p, OrderRow(r.order))
                        /\ Goto(p, "lock_wallet")
                        /\ UNCHANGED seen

CancelLockWallet(p) ==
    LET o == orders[request[p].order]
        w == ReserveWallet(o)
    IN  /\ At(p, "cancel", "lock_wallet")
        /\ WalletReadable(p, w)
        /\ IF ~wallets[w].exists \/ wallets[w].locked < o.reserved
           THEN Refuse(p, "reservation_state")
           ELSE LockWallet(p, "wallet", w) /\ Goto(p, "commit")

(* Fault: what is given back is the product, not what the order stores. *)
CancelCommitOfProduct(p) ==
    LET n   == request[p].order
        o   == orders[n]
        w   == ReserveWallet(o)
        row == seen[p].wallet
    IN  /\ At(p, "cancel", "commit")
        /\ wallets' = [wallets EXCEPT
               ![w].locked = minus(row.locked, Fine(o.reserved)),
               ![w].available = plus(row.available, reserved_amount(o))]
        /\ ledger' = Append(ledger, ReleaseTransaction(o))
        /\ orders' = [orders EXCEPT ![n].status = "canceled"]
        /\ outbox' = Append(outbox, CanceledEvent(n, o))
        /\ Commit(p, "canceled", n)

(* A release has no idempotency key: nothing can make its INSERT wait. *)
CancelCommit(p) ==
    LET n   == request[p].order
        o   == orders[n]
        w   == ReserveWallet(o)
        row == seen[p].wallet
    IN  /\ At(p, "cancel", "commit")
        /\ wallets' = [wallets EXCEPT
               ![w].locked = minus(row.locked, Fine(o.reserved)),
               ![w].available = plus(row.available, Fine(o.reserved))]
        /\ ledger' = Append(ledger, ReleaseTransaction(o))
        /\ orders' = [orders EXCEPT ![n].status = "canceled"]
        /\ outbox' = Append(outbox, CanceledEvent(n, o))
        /\ Commit(p, "canceled", n)

=============================================================================
