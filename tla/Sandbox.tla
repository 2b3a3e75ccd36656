------------------------------ MODULE Sandbox ------------------------------
(***************************************************************************)
(* The API as a whole: requests of several users, each served by the       *)
(* handler of its operation, interleaved statement by statement over one   *)
(* database (app/main.py, app/api, app/db/session.py).                     *)
(***************************************************************************)
EXTENDS Funding, Orders

Init == SessionInit

(* The statements of a handler, in the order the handler runs them. *)
Serve(p) ==
    \/ FundBegin(p)
    \/ FundLockTreasury(p)
    \/ FundLockWallet(p)
    \/ FundInsertWallet(p)
    \/ FundCommit(p)
    \/ CreateBegin(p)
    \/ CreateLockWallet(p)
    \/ CreateRecheck(p)
    \/ CreateCommit(p)
    \/ CancelBegin(p)
    \/ CancelLockOrder(p)
    \/ CancelLockWallet(p)
    \/ CancelCommit(p)
    \/ InsertTransaction(p)
    \/ Respond(p)

Finished == (\A p \in Requests : pc[p] = "done") /\ UNCHANGED vars

Next == Finished \/ \E p \in Requests : Serve(p) \/ Abort(p) \/ PoolTimeout(p)

Spec == Init /\ [][Next]_vars

(* The event loop resumes a handler whose statement has returned, and      *)
(* PostgreSQL grants a lock that nobody holds.  No connection has to fail, *)
(* and nobody has to give up waiting for one.                              *)
FairSpec == Spec /\ \A p \in Requests : WF_vars(Serve(p))

-----------------------------------------------------------------------------
TypeOK ==
    /\ wallets \in [WalletIds -> Wallet]
    /\ ledger \in Seq(LedgerTransaction)
    /\ orders \in Seq(Order)
    /\ outbox \in Seq(OutboxEvent)
    /\ request \in [Requests -> Inputs]
    /\ pc \in [Requests -> Labels]
    /\ seen \in [Requests -> [treasury : Wallet, wallet : Wallet]]
    /\ holds \in [Requests -> SUBSET Lockables]
    /\ reply \in [Requests -> [outcome : Outcomes, row : Nat]]

(* The handlers implement the atomic ledger: whatever the interleaving,    *)
(* every commit does to the database what one atomic operation, decided on *)
(* the rows at the moment of the commit, would do.                         *)
Atomic == INSTANCE AtomicLedger

Linearizable == Atomic!Spec

-----------------------------------------------------------------------------
(* No row and no unique key is ever held by two transactions.  The locks   *)
(* are what every check-then-write of the handlers rests on.               *)
LocksExclude ==
    \A p, q \in Requests : p # q => holds[p] \cap holds[q] = {}

(* Between reading a wallet under its lock and committing the balance      *)
(* computed from it, nobody changes that wallet: no update is lost.        *)
SeenIsCurrent ==
    \A p \in Requests :
        LET r == request[p]
            u == UserWallet(r.user, r.asset)
        IN  /\ r.op = "fund" /\ pc[p] \in {"lock_wallet", "insert_wallet",
                                           "insert_transaction", "commit"} =>
                  seen[p].treasury = wallets[TreasuryWallet(r.asset)]
            /\ r.op = "fund" /\ pc[p] \in {"insert_transaction", "commit"} =>
                  seen[p].wallet = wallets[u]
            /\ r.op = "create"
               /\ pc[p] \in {"recheck", "insert_transaction", "commit"} =>
                  seen[p].wallet = wallets[ReserveWallet(r)]
            /\ r.op = "cancel" /\ pc[p] = "commit" =>
                  seen[p].wallet = wallets[ReserveWallet(orders[r.order])]

-----------------------------------------------------------------------------
(* The answers. *)

Answered(p, outcome) == reply[p].outcome = outcome

(* An idempotent answer: of all the requests told "created" or "replayed"  *)
(* for one key, at most one created, and all were given the same row, the  *)
(* one whose data they sent.  A client that retries after a lost answer    *)
(* learns of the row its first attempt committed.                          *)
IdempotentReplies ==
    /\ \A p \in Requests :
           Answered(p, "created") \/ Answered(p, "replayed") =>
               LET r == request[p]
                   n == reply[p].row
               IN  CASE r.op = "fund" -> ledger[n] = FundingTransaction(r)
                     [] r.op = "create" ->
                           [orders[n] EXCEPT !.status = "open"]
                               = NewOrder(r, orders[n].transaction)
                     [] r.op = "cancel" -> /\ r.order = n
                                           /\ orders[n].status = "canceled"
    /\ \A p, q \in Requests :
           /\ Answered(p, "created") /\ Answered(q, "created") /\ p # q
           /\ request[p].op = request[q].op
           => reply[p].row # reply[q].row

(* What a request asks for has been committed already: by itself, or by an *)
(* earlier attempt of its client.                                          *)
AlreadyDone(r) ==
    \/ /\ r.op = "fund"
       /\ \E i \in DOMAIN ledger : ledger[i] = FundingTransaction(r)
    \/ /\ r.op = "create"
       /\ \E n \in DOMAIN orders :
              [orders[n] EXCEPT !.status = "open"] = NewOrder(r, orders[n].transaction)

(* A retry is safe once its first attempt is committed: whatever it wrote, *)
(* and also when the order has been canceled since, a statement that looks *)
(* for the replay finds it.  The handler does not go on to a second        *)
(* transaction, nor tell of a conflict or of a request that is not valid.  *)
(* (The failures in funding_retry and order_retry are of retries that had  *)
(* looked before the first attempt was committed.)                         *)
LateRetriesReplay ==
    [][\A p \in Requests :
          /\ pc[p] \in {"start", "recheck"} /\ pc'[p] # pc[p]
          /\ AlreadyDone(request[p])
          => reply'[p].outcome \in {"replayed", "aborted", "unavailable"}]_vars

(* A cancellation never finds the locked balance short of the order's      *)
(* reservation (the OrderReservationStateError of orders.py), and is told  *)
(* "canceled" at most once per order.                                      *)
CancellationIsCovered ==
    /\ \A p \in Requests : ~Answered(p, "reservation_state")
    /\ \A p, q \in Requests :
           Answered(p, "canceled") /\ Answered(q, "canceled") /\ p # q
               => reply[p].row # reply[q].row

(* The database refuses an INSERT for two reasons only: somebody has spent *)
(* the key, or the reservation rounds to nothing.  In particular two first *)
(* fundings of one user never collide on the unique index of wallets.      *)
OnlyKeysCollide ==
    \A p \in Requests : Answered(p, "integrity_error") =>
        \/ transaction_key(request[p]) \in PostedKeys
        \/ request[p].op = "create" /\ numeric(reserved_amount(request[p])) = 0

(* The lock that a handler's next statement takes, if it takes one. *)
Wanted(p) ==
    LET r == request[p]
    IN  CASE pc[p] = "lock_order"    -> {OrderRow(r.order)}
          [] pc[p] = "lock_treasury" -> {WalletRow(TreasuryWallet(r.asset))}
          [] pc[p] \in {"lock_wallet", "insert_wallet"} ->
                {WalletRow(CASE r.op = "fund"   -> UserWallet(r.user, r.asset)
                             [] r.op = "create" -> ReserveWallet(r)
                             [] r.op = "cancel" -> ReserveWallet(orders[r.order]))}
          [] pc[p] = "insert_transaction" -> {KeyClaim(transaction_key(r))}
          [] OTHER -> {}

(* The next statement has neither a connection nor a lock to wait for. *)
Ready(p) ==
    /\ pc[p] # "done"
    /\ pc[p] \in {"start", "respond"} => ConnectionFree
    /\ \A row \in Wanted(p) : Free(p, row)

(* Nobody waits in a circle, for connections and locks taken together.     *)
SomeoneIsReady == (\E p \in Requests : pc[p] # "done") => \E p \in Requests : Ready(p)

(* No deadlock: while a request is unanswered, some request can go on      *)
(* without waiting for another to fail, and the step it can take is one of *)
(* its handler.  The handlers take their locks in one order, connection    *)
(* before row, order before wallet, treasury before user wallet, wallet    *)
(* before key; who asks the pool for a connection holds no lock and no     *)
(* other connection.                                                       *)
NoDeadlock ==
    /\ SomeoneIsReady
    /\ \A p \in Requests : Ready(p) => ENABLED Serve(p)

(* No request waits for ever: whoever holds a lock commits, is refused or  *)
(* is lost, and its locks go.                                              *)
EveryRequestAnswered == \A p \in Requests : <>(pc[p] = "done")

-----------------------------------------------------------------------------
(* What the documentation and the tests say of answers, and the code does  *)
(* not do under concurrency.                                               *)

(* README.md:12 "Idempotent sandbox funding": a funding request whose key  *)
(* has posted the same funding is answered with it, never with an error.   *)
FundingRetryReplays ==
    \A p \in Requests :
        request[p].op = "fund" /\ Answered(p, "integrity_error") =>
            ~\E i \in FundingsOf(request[p]) : FundingMatches(request[p], ledger[i])

(* README.md:13 "safe replay handling": an order request that arrives at a *)
(* decision when its order exists is answered with that order, not that    *)
(* the balance is insufficient.                                            *)
OrderRetryReplays ==
    [][\A p \in Requests :
          request[p].op = "create" /\ reply'[p].outcome = "insufficient"
          /\ reply[p].outcome = "pending"
              => ~\E n \in OrdersOf(request[p]) : validate_replay(request[p], orders[n])]_vars

=============================================================================
