----------------------------- MODULE SandboxInv -----------------------------
(***************************************************************************)
(* The inductive invariant of the API: what each handler can count on when *)
(* it runs its next statement, whatever the other requests do meanwhile.   *)
(***************************************************************************)
EXTENDS Sandbox

(* A handler past its first statement has validated its request; it only   *)
(* runs the statements of its operation.                                   *)
Validated ==
    \A p \in Requests :
        LET r == request[p]
        IN  pc[p] \notin {"start", "respond", "done"} =>
            \/ /\ r.op = "fund"
               /\ r.amount > 0 /\ active_asset(r.asset)
               /\ pc[p] \notin {"lock_order", "recheck"}
            \/ /\ r.op = "create"
               /\ active_asset(r.base) /\ active_asset(r.quote)
               /\ r.base # r.quote /\ r.price > 0 /\ r.quantity > 0
               /\ pc[p] \notin {"lock_order", "lock_treasury", "insert_wallet"}
            \/ /\ r.op = "cancel"
               /\ pc[p] \in {"lock_order", "lock_wallet", "commit"}

(* The locks a handler holds at a statement, at least. *)
HoldsItsLocks ==
    \A p \in Requests :
        LET r == request[p]
        IN  /\ r.op = "fund" =>
                 /\ pc[p] \in {"lock_wallet", "insert_wallet",
                               "insert_transaction", "commit"} =>
                      WalletRow(TreasuryWallet(r.asset)) \in holds[p]
                 /\ pc[p] \in {"insert_transaction", "commit"} =>
                      WalletRow(UserWallet(r.user, r.asset)) \in holds[p]
                 /\ pc[p] = "commit" =>
                      KeyClaim(transaction_key(r)) \in holds[p]
            /\ r.op = "create" =>
                 /\ pc[p] \in {"recheck", "insert_transaction", "commit"} =>
                      WalletRow(ReserveWallet(r)) \in holds[p]
                 /\ pc[p] = "commit" =>
                      KeyClaim(transaction_key(r)) \in holds[p]
            /\ r.op = "cancel" =>
                 /\ pc[p] \in {"lock_wallet", "commit"} =>
                      OrderRow(r.order) \in holds[p]
                 /\ pc[p] = "commit" =>
                      WalletRow(ReserveWallet(orders[r.order])) \in holds[p]

(* What a handler saw under its locks lets it write: the balances it will  *)
(* compute are not negative, and the wallets exist.                        *)
SeenCovers ==
    \A p \in Requests :
        LET r == request[p]
        IN  /\ r.op = "fund" =>
                 /\ pc[p] \in {"lock_wallet", "insert_wallet",
                               "insert_transaction", "commit"} =>
                      /\ seen[p].treasury.exists
                      /\ seen[p].treasury.available >= r.amount
                 /\ pc[p] \in {"start", "lock_treasury", "lock_wallet",
                               "insert_wallet"} =>
                      seen[p].wallet = NoWallet
            /\ r.op = "create" /\ pc[p] \in {"recheck", "insert_transaction",
                                             "commit"} =>
                 /\ seen[p].wallet.exists
                 /\ Fine(seen[p].wallet.available) >= reserved_amount(r)
            /\ r.op = "cancel" /\ pc[p] = "commit" =>
                 /\ seen[p].wallet.exists
                 /\ seen[p].wallet.locked >= orders[r.order].reserved

(* Until a cancellation commits, its order stays open. *)
CanceledOrderIsOpen ==
    \A p \in Requests :
        LET r == request[p]
        IN  r.op = "cancel" /\ pc[p] \in {"lock_wallet", "commit"} =>
                /\ r.order \in DOMAIN orders
                /\ orders[r.order].user = r.user
                /\ orders[r.order].status = "open"

(* A key that a handler has claimed stays unspent until it commits. *)
ClaimedKeyIsUnspent ==
    \A p \in Requests :
        request[p].op # "cancel" /\ pc[p] = "commit" =>
            transaction_key(request[p]) \notin PostedKeys

(* A wallet that has not been inserted has no balance. *)
AbsentIsEmpty ==
    \A w \in WalletIds : ~wallets[w].exists => wallets[w] = NoWallet

Inv ==
    /\ TypeOK
    /\ Validated
    /\ LocksExclude
    /\ HoldsItsLocks
    /\ SeenIsCurrent
    /\ SeenCovers
    /\ CanceledOrderIsOpen
    /\ ClaimedKeyIsUnspent
    /\ AbsentIsEmpty

-----------------------------------------------------------------------------
(* What the answers rest on. *)

(* The row an answer names holds what the request asked for. *)
RowAnswers(r, n) ==
    \/ /\ r.op = "fund"
       /\ n \in DOMAIN ledger
       /\ ledger[n] = FundingTransaction(r)
    \/ /\ r.op = "create"
       /\ n \in DOMAIN orders
       /\ [orders[n] EXCEPT !.status = "open"] = NewOrder(r, orders[n].transaction)
    \/ /\ r.op = "cancel"
       /\ n = r.order
       /\ n \in DOMAIN orders
       /\ orders[n].status = "canceled"

(* The rows a replay compares only a part of follow from that part.        *)
RowsAreSound ==
    /\ \A i \in DOMAIN ledger :
           LET credit == ledger[i].credit
           IN  ledger[i].type = "funding" =>
                   ledger[i].debit = Entry(TreasuryWallet(credit.wallet[2]),
                                           "available", credit.amount)
    /\ \A n \in DOMAIN orders : orders[n].reserved = numeric(reserved_amount(orders[n]))

(* Only requests that pass the checks at the start have left a row, and    *)
(* they would pass again.                                                  *)
RowsAreValid ==
    /\ \A i \in DOMAIN ledger :
           LET credit == ledger[i].credit
           IN  ledger[i].type = "funding" =>
                   credit.amount > 0 /\ active_asset(credit.wallet[2])
    /\ \A n \in DOMAIN orders :
           LET o == orders[n]
           IN  /\ active_asset(o.base) /\ active_asset(o.quote)
               /\ o.base # o.quote /\ o.price > 0 /\ o.quantity > 0

AnswersAreRows ==
    /\ \A p \in Requests :
           Answered(p, "created") \/ Answered(p, "replayed") =>
               RowAnswers(request[p], reply[p].row)
    /\ \A p, q \in Requests :
           /\ Answered(p, "created") /\ Answered(q, "created") /\ p # q
           /\ request[p].op = request[q].op
           => reply[p].row # reply[q].row

(* Who inserts a user's first wallet holds the treasury, so that nobody    *)
(* can have inserted it since it was found missing.                        *)
FirstWalletIsAbsent ==
    \A p \in Requests :
        LET r == request[p]
        IN  At(p, "fund", "insert_wallet") => ~wallets[UserWallet(r.user, r.asset)].exists

(* The answers are those of the rows, and stay so: with Inv, inductive.    *)
AnswerInv ==
    /\ RowsAreSound
    /\ AnswersAreRows
    /\ FirstWalletIsAbsent
    /\ OnlyKeysCollide

-----------------------------------------------------------------------------
(* What cancellations rest on. *)

(* The wallet of an open order has locked what the order reserves.  It is  *)
(* no conclusion from the rows a handler reads, but from all that were     *)
(* ever written: the sums of module AtomicLedger.                          *)
OpenIsCovered ==
    \A n \in DOMAIN orders :
        orders[n].status = "open" =>
            /\ orders[n].reserved > 0
            /\ wallets[ReserveWallet(orders[n])].locked >= orders[n].reserved

(* A request that was told "canceled" names an order that is, and stays    *)
(* so.                                                                     *)
CanceledAreRows ==
    \A p \in Requests :
        Answered(p, "canceled") =>
            /\ reply[p].row \in DOMAIN orders
            /\ orders[reply[p].row].status = "canceled"

(* With Inv and OpenIsCovered, inductive. *)
CancelInv == CancellationIsCovered /\ CanceledAreRows

-----------------------------------------------------------------------------
(* The order in which locks are taken. *)

LockRank(row) ==
    CASE row[1] = "order"  -> 1
      [] row[1] = "wallet" -> IF row[2][1] = Treasury THEN 2 ELSE 3
      [] row[1] = "key"    -> 4

(* A handler that waits for a lock holds only locks of lower rank. *)
LocksInOrder ==
    \A p \in Requests :
        \A held \in holds[p], row \in Wanted(p) : LockRank(held) < LockRank(row)

(* Every lock held at a statement ranks below this: the rank of the lock   *)
(* that the statement takes, or of the next that can follow.  Who has no   *)
(* transaction holds nothing.                                              *)
StatementRank(label) ==
    CASE label \in {"start", "respond", "done", "lock_order"} -> 1
      [] label = "lock_treasury" -> 2
      [] label \in {"lock_wallet", "insert_wallet"} -> 3
      [] label \in {"recheck", "insert_transaction"} -> 4
      [] label = "commit" -> 5

(* With Inv, inductive. *)
LockInv ==
    \A p \in Requests : \A held \in holds[p] : LockRank(held) < StatementRank(pc[p])

-----------------------------------------------------------------------------
(* All that is known of every state of the API: the conjunction is         *)
(* inductive, but for OpenIsCovered, which comes from the sums of the      *)
(* atomic ledger.                                                          *)
ApiInv ==
    /\ Inv
    /\ AnswerInv
    /\ RowsAreValid
    /\ OpenIsCovered
    /\ CancelInv
    /\ LockInv

=============================================================================
