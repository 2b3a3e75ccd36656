----------------------------- MODULE Refinement -----------------------------
(***************************************************************************)
(* The handlers implement the atomic ledger: every commit is one of its    *)
(* operations, decided on the rows as they are at the commit, and no other *)
(* step touches the database.                                              *)
(***************************************************************************)
EXTENDS SandboxProofs

LEMMA InitRefines == Init => Atomic!Init
BY DEF Init, SessionInit, Atomic!Init, SeededWallets, Atomic!SeededWallets,
   NoWallet, Atomic!NoWallet, WalletIds, Atomic!WalletIds, Owners, Atomic!Owners

(* The definitions of the instance are those of the module. *)
LEMMA SameAmounts ==
    /\ \A n : Atomic!power(n) = power(n)
    /\ \A x : /\ Atomic!quantum(x) = quantum(x) /\ Atomic!context(x) = context(x)
              /\ Atomic!numeric(x) = numeric(x) /\ Atomic!Fine(x) = Fine(x)
    /\ \A b, x : Atomic!plus(b, x) = plus(b, x) /\ Atomic!minus(b, x) = minus(b, x)
<1>1. \A n : Atomic!power(n) = power(n)
  BY DEF Atomic!power, power
<1>2. \A x : Atomic!quantum(x) = quantum(x)
  BY <1>1 DEF Atomic!quantum, quantum
<1>3. \A x : Atomic!context(x) = context(x)
  BY <1>2 DEF Atomic!context, context
<1>4. \A x : Atomic!numeric(x) = numeric(x) /\ Atomic!Fine(x) = Fine(x)
  BY DEF Atomic!numeric, numeric, Atomic!Fine, Fine
<1>5. \A b, x : Atomic!plus(b, x) = plus(b, x) /\ Atomic!minus(b, x) = minus(b, x)
  BY <1>3, <1>4 DEF Atomic!plus, plus, Atomic!minus, minus
<1> QED
  BY <1>1, <1>2, <1>3, <1>4, <1>5

LEMMA FundRefines ==
    ASSUME Inv, NEW p \in Requests, FundCommit(p)
    PROVE  Atomic!Fund(request[p]) /\ request[p] \in FundingInputs
<1> DEFINE r == request[p]
           t == TreasuryWallet(r.asset)
           u == UserWallet(r.user, r.asset)
<1>1. /\ r.op = "fund" /\ pc[p] = "commit"
      /\ wallets' = [wallets EXCEPT
             ![t].available = minus(seen[p].treasury.available, Fine(r.amount)),
             ![u].available = plus(seen[p].wallet.available, Fine(r.amount)),
             ![u].exists = TRUE]
      /\ ledger' = Append(ledger, FundingTransaction(r))
      /\ UNCHANGED <<orders, outbox>>
  BY DEF FundCommit, At
<1>2. /\ r \in FundingRequest /\ r \in FundingInputs /\ t \in WalletIds /\ u \in WalletIds
  <2>1. r \in FundingRequest /\ r \in Inputs
    BY <1>1, RequestTypes DEF Inv, TypeOK
  <2>2. r \notin OrderCreateRequest /\ r \notin CancelRequest
    BY <1>1 DEF OrderCreateRequest, CancelRequest
  <2>3. r \in FundingInputs
    BY <2>1, <2>2, SchemaAssumption DEF Inputs
  <2> QED
    BY <2>1, <2>3, FundingTypes
<1>3. /\ seen[p].treasury = wallets[t] /\ seen[p].wallet = wallets[u]
      /\ wallets[t].exists /\ wallets[t].available >= r.amount
  BY <1>1 DEF Inv, SeenIsCurrent, SeenCovers
<1>4. r.amount > 0 /\ active_asset(r.asset)
  BY <1>1 DEF Inv, Validated
<1>5. r.key \notin PostedKeys
  BY <1>1 DEF Inv, ClaimedKeyIsUnspent, transaction_key
<1>6. t # u
  BY <1>2, SchemaAssumption DEF TreasuryWallet, UserWallet, FundingRequest
<1>7. wallets' = [wallets EXCEPT ![t].available = minus(@, Fine(r.amount)),
                                 ![u].available = plus(@, Fine(r.amount)),
                                 ![u].exists = TRUE]
  <2>1. /\ minus(seen[p].treasury.available, Fine(r.amount))
             = minus(wallets[t].available, Fine(r.amount))
        /\ plus(seen[p].wallet.available, Fine(r.amount))
             = plus(wallets[u].available, Fine(r.amount))
    BY <1>3
  <2> QED
    BY <1>1, <2>1, Zenon
<1> QED
  BY <1>1, <1>2, <1>3, <1>4, <1>5, <1>7, SameAmounts
  DEF Atomic!Fund, Atomic!TreasuryWallet, TreasuryWallet, Atomic!UserWallet, UserWallet,
      Atomic!active_asset, active_asset, Atomic!PostedKeys, PostedKeys,
      Atomic!FundingTransaction, FundingTransaction, Atomic!Entry, Entry

LEMMA ReserveRefines ==
    ASSUME Inv, NEW p \in Requests, CreateCommit(p)
    PROVE  \/ UNCHANGED database
           \/ Atomic!Reserve(request[p]) /\ request[p] \in OrderInputs
<1> DEFINE r == request[p]
           w == ReserveWallet(r)
           need == reserved_amount(r)
<1>1. CASE Rollback(p, "integrity_error", 0)
  BY <1>1 DEF Rollback
<1>2. CASE /\ At(p, "create", "commit")
           /\ numeric(need) > 0
           /\ wallets' = [wallets EXCEPT
                  ![w].available = minus(seen[p].wallet.available, need),
                  ![w].locked = plus(seen[p].wallet.locked, need)]
           /\ ledger' = Append(ledger, ReserveTransaction(r))
           /\ orders' = Append(orders, NewOrder(r, Len(ledger) + 1))
           /\ outbox' = Append(outbox, CreatedEvent(Len(orders) + 1, r))
  <2>1. r.op = "create" /\ pc[p] = "commit"
    BY <1>2 DEF At
  <2>2. r \in OrderInputs
    <3>1. r \in Inputs
      BY DEF Inv, TypeOK
    <3>2. r \notin FundingRequest /\ r \notin CancelRequest
      BY <2>1 DEF FundingRequest, CancelRequest
    <3> QED
      BY <3>1, <3>2, SchemaAssumption DEF Inputs
  <2>3. /\ seen[p].wallet = wallets[w]
        /\ wallets[w].exists /\ Fine(wallets[w].available) >= need
    BY <2>1 DEF Inv, SeenIsCurrent, SeenCovers
  <2>4. active_asset(r.base) /\ active_asset(r.quote) /\ r.base # r.quote
    BY <2>1 DEF Inv, Validated
  <2>5. ledger_idempotency_key(r.user, r.key) \notin PostedKeys
    BY <2>1 DEF Inv, ClaimedKeyIsUnspent, transaction_key
  <2>6. wallets' = [wallets EXCEPT
            ![w].available = minus(@, need),
            ![w].locked = plus(@, need)]
    <3>1. /\ minus(seen[p].wallet.available, need) = minus(wallets[w].available, need)
          /\ plus(seen[p].wallet.locked, need) = plus(wallets[w].locked, need)
      BY <2>3
    <3> QED
      BY <1>2, <3>1, Zenon
  <2> QED
    BY <1>2, <2>2, <2>3, <2>4, <2>5, <2>6, SameAmounts
    DEF Atomic!Reserve, Atomic!ReserveWallet, ReserveWallet, Atomic!UserWallet, UserWallet,
        Atomic!reserve_asset, reserve_asset, Atomic!reserved_amount, reserved_amount,
        Atomic!reservation_amount, reservation_amount, Atomic!active_asset, active_asset,
        Atomic!PostedKeys, PostedKeys, Atomic!ledger_idempotency_key,
        ledger_idempotency_key, Atomic!ReserveTransaction, ReserveTransaction,
        Atomic!Entry, Entry, Atomic!NewOrder, NewOrder,
        Atomic!CreatedEvent, CreatedEvent
<1> QED
  BY <1>1, <1>2 DEF CreateCommit, Refuse

LEMMA ReleaseRefines ==
    ASSUME Inv, NEW p \in Requests, CancelCommit(p)
    PROVE  Atomic!Release(request[p]) /\ request[p] \in CancelInputs
<1> DEFINE r == request[p]
           o == orders[r.order]
           w == ReserveWallet(o)
<1>1. /\ r.op = "cancel" /\ pc[p] = "commit"
      /\ wallets' = [wallets EXCEPT
             ![w].locked = minus(seen[p].wallet.locked, Fine(o.reserved)),
             ![w].available = plus(seen[p].wallet.available, Fine(o.reserved))]
      /\ ledger' = Append(ledger, ReleaseTransaction(o))
      /\ orders' = [orders EXCEPT ![r.order].status = "canceled"]
      /\ outbox' = Append(outbox, CanceledEvent(r.order, o))
  BY DEF CancelCommit, At
<1>2. r \in CancelInputs
  BY <1>1, SchemaAssumption
  DEF Inv, TypeOK, Inputs, FundingRequest, OrderCreateRequest
<1>3. r.order \in DOMAIN orders /\ o.user = r.user /\ o.status = "open"
  BY <1>1 DEF Inv, CanceledOrderIsOpen
<1>4. seen[p].wallet = wallets[w] /\ wallets[w].locked >= o.reserved
  BY <1>1 DEF Inv, SeenIsCurrent, SeenCovers
<1>5. wallets' = [wallets EXCEPT ![w].locked = minus(@, Fine(o.reserved)),
                                 ![w].available = plus(@, Fine(o.reserved))]
  <2>1. /\ minus(seen[p].wallet.locked, Fine(o.reserved))
             = minus(wallets[w].locked, Fine(o.reserved))
        /\ plus(seen[p].wallet.available, Fine(o.reserved))
             = plus(wallets[w].available, Fine(o.reserved))
    BY <1>4
  <2> QED
    BY <1>1, <2>1, Zenon
<1> QED
  BY <1>1, <1>2, <1>3, <1>4, <1>5, SameAmounts
  DEF Atomic!Release, Atomic!ReserveWallet, ReserveWallet, Atomic!UserWallet, UserWallet,
      Atomic!reserve_asset, reserve_asset, Atomic!ReleaseTransaction, ReleaseTransaction,
      Atomic!Entry, Entry, Atomic!CanceledEvent, CanceledEvent

-----------------------------------------------------------------------------
(* A handler changes only its own place, and the database only when it     *)
(* commits.                                                                *)
LEMMA HandlerSteps ==
    ASSUME Inv, NEW p \in Requests, Serve(p) \/ Abort(p) \/ PoolTimeout(p)
    PROVE  /\ \A q \in Requests : q # p => pc'[q] = pc[q]
           /\ \/ UNCHANGED database
              \/ FundCommit(p) \/ CreateCommit(p) \/ CancelCommit(p)
<1> DEFINE Kept == /\ \A q \in Requests : q # p => pc'[q] = pc[q]
                   /\ UNCHANGED database
<1>1. ASSUME NEW label, Goto(p, label) PROVE Kept
  BY <1>1 DEF Goto, Inv, TypeOK, database
<1>2. ASSUME NEW outcome, NEW row, Rollback(p, outcome, row) PROVE Kept
  BY <1>2 DEF Rollback, Close, Inv, TypeOK
<1>3. ASSUME NEW outcome, NEW row, Commit(p, outcome, row)
      PROVE  \A q \in Requests : q # p => pc'[q] = pc[q]
  BY <1>3 DEF Commit, Close, Inv, TypeOK
<1> HIDE DEF Kept
<1>4. CASE FundBegin(p) \/ FundLockTreasury(p) \/ FundLockWallet(p) \/ FundInsertWallet(p)
  <2>1. Kept
    BY <1>1, <1>2, <1>4 DEF FundBegin, find_funding_replay, FundLockTreasury,
       FundLockWallet, FundInsertWallet, Refuse, Replay
  <2> QED
    BY <2>1 DEF Kept
<1>5. CASE CreateBegin(p) \/ CreateLockWallet(p) \/ CreateRecheck(p)
  <2>1. Kept
    BY <1>1, <1>2, <1>5 DEF CreateBegin, existing_order_replay, CreateLockWallet,
       CreateRecheck, Refuse, Replay
  <2> QED
    BY <2>1 DEF Kept
<1>6. CASE CancelLockOrder(p)
  <2>1. request[p].order \in DOMAIN orders =>
            orders[request[p].order].status \in {"open", "canceled", "filled"}
    BY OrderTypes DEF Inv, Order
  <2>2. \/ Goto(p, "lock_wallet")
        \/ Rollback(p, "replayed", request[p].order)
        \/ Rollback(p, "not_found", 0)
        \/ Rollback(p, "not_cancelable", 0)
    BY <1>6, <2>1 DEF CancelLockOrder, Refuse, Replay
  <2>3. Kept
    BY <1>1, <1>2, <2>2
  <2> QED
    BY <2>3 DEF Kept
<1>7. CASE \/ CancelBegin(p) \/ CancelLockWallet(p) \/ InsertTransaction(p)
           \/ Respond(p) \/ Abort(p) \/ PoolTimeout(p)
  <2>1. Kept
    BY <1>1, <1>2, <1>7 DEF CancelBegin, CancelLockWallet, InsertTransaction, Respond,
       Abort, PoolTimeout, Refuse
  <2> QED
    BY <2>1 DEF Kept
<1>8. CASE FundCommit(p) \/ CreateCommit(p) \/ CancelCommit(p)
  <2>1. CASE \E outcome, row : Commit(p, outcome, row)
    BY <1>3, <1>8, <2>1
  <2>2. CASE Refuse(p, "integrity_error")
    BY <1>2, <1>8, <2>2 DEF Refuse, Kept
  <2> QED
    BY <1>8, <2>1, <2>2 DEF FundCommit, CreateCommit, CancelCommit
<1> QED
  BY <1>4, <1>5, <1>6, <1>7, <1>8 DEF Serve

LEMMA StepRefines ==
    ASSUME Inv, [Next]_vars
    PROVE  [Atomic!Next]_(Atomic!database)
<1> USE DEF database, Atomic!database
<1>1. CASE UNCHANGED vars
  BY <1>1 DEF vars
<1>2. ASSUME NEW p \in Requests, Serve(p) \/ Abort(p) \/ PoolTimeout(p)
      PROVE  [Atomic!Next]_(Atomic!database)
  BY <1>2, HandlerSteps, FundRefines, ReserveRefines, ReleaseRefines DEF Atomic!Next
<1> QED
  BY <1>1, <1>2 DEF Next, Finished

(* Under every interleaving, with any number of requests lost, the ledger, *)
(* the balances, the orders and the outbox evolve as if each request had   *)
(* been served alone, at the instant of its commit.                        *)
THEOREM Linearizability == Spec => Linearizable
<1>1. Init => Atomic!Init
  BY InitRefines
<1>2. Inv /\ [Next]_vars => [Atomic!Next]_(Atomic!database)
  BY StepRefines
<1> QED
  BY <1>1, <1>2, Invariance, PTL DEF Spec, Linearizable, Atomic!Spec

-----------------------------------------------------------------------------
(* So what is proved of the atomic ledger holds of the handlers.  Facts    *)
(* brings its theorems; its definitions are those of Atomic.               *)
Facts == INSTANCE AtomicLedgerProofs

LEMMA SameInit == Atomic!Init => Facts!Init
BY DEF Atomic!Init, Facts!Init, Atomic!SeededWallets, Facts!SeededWallets,
   Atomic!NoWallet, Facts!NoWallet, Atomic!WalletIds, Facts!WalletIds,
   Atomic!Owners, Facts!Owners

LEMMA FactAmounts ==
    /\ \A n : Atomic!power(n) = Facts!power(n)
    /\ \A x : /\ Atomic!context(x) = Facts!context(x)
              /\ Atomic!numeric(x) = Facts!numeric(x) /\ Atomic!Fine(x) = Facts!Fine(x)
    /\ \A b, x : /\ Atomic!plus(b, x) = Facts!plus(b, x)
                 /\ Atomic!minus(b, x) = Facts!minus(b, x)
<1>1. \A n : Atomic!power(n) = Facts!power(n)
  BY DEF Atomic!power, Facts!power
<1>2. \A x : Atomic!quantum(x) = Facts!quantum(x)
  BY <1>1 DEF Atomic!quantum, Facts!quantum
<1>3. \A x : Atomic!context(x) = Facts!context(x)
  BY <1>2 DEF Atomic!context, Facts!context
<1>4. \A x : Atomic!numeric(x) = Facts!numeric(x) /\ Atomic!Fine(x) = Facts!Fine(x)
  BY DEF Atomic!numeric, Facts!numeric, Atomic!Fine, Facts!Fine
<1>5. \A b, x : /\ Atomic!plus(b, x) = Facts!plus(b, x)
               /\ Atomic!minus(b, x) = Facts!minus(b, x)
  BY <1>3, <1>4 DEF Atomic!plus, Facts!plus, Atomic!minus, Facts!minus
<1> QED
  BY <1>1, <1>3, <1>4, <1>5

LEMMA FactRows ==
    \A r : /\ Atomic!ReserveWallet(r) = Facts!ReserveWallet(r)
          /\ Atomic!reserved_amount(r) = Facts!reserved_amount(r)
          /\ Atomic!ReserveTransaction(r) = Facts!ReserveTransaction(r)
          /\ Atomic!ReleaseTransaction(r) = Facts!ReleaseTransaction(r)
          /\ \A n : /\ Atomic!NewOrder(r, n) = Facts!NewOrder(r, n)
                   /\ Atomic!CreatedEvent(n, r) = Facts!CreatedEvent(n, r)
                   /\ Atomic!CanceledEvent(n, r) = Facts!CanceledEvent(n, r)
<1> SUFFICES ASSUME NEW r, NEW n
             PROVE  /\ Atomic!ReserveWallet(r) = Facts!ReserveWallet(r)
                    /\ Atomic!reserved_amount(r) = Facts!reserved_amount(r)
                    /\ Atomic!ReserveTransaction(r) = Facts!ReserveTransaction(r)
                    /\ Atomic!ReleaseTransaction(r) = Facts!ReleaseTransaction(r)
                    /\ Atomic!NewOrder(r, n) = Facts!NewOrder(r, n)
                    /\ Atomic!CreatedEvent(n, r) = Facts!CreatedEvent(n, r)
                    /\ Atomic!CanceledEvent(n, r) = Facts!CanceledEvent(n, r)
  OBVIOUS
<1>1. Atomic!ReserveWallet(r) = Facts!ReserveWallet(r)
  BY DEF Atomic!ReserveWallet, Facts!ReserveWallet, Atomic!UserWallet, Facts!UserWallet,
     Atomic!reserve_asset, Facts!reserve_asset
<1>2. Atomic!reserved_amount(r) = Facts!reserved_amount(r)
  BY FactAmounts DEF Atomic!reserved_amount, Facts!reserved_amount,
     Atomic!reservation_amount, Facts!reservation_amount
<1>3. /\ Atomic!ReserveTransaction(r) = Facts!ReserveTransaction(r)
      /\ Atomic!ReleaseTransaction(r) = Facts!ReleaseTransaction(r)
  BY <1>1, <1>2, FactAmounts
  DEF Atomic!ReserveTransaction, Facts!ReserveTransaction,
      Atomic!ReleaseTransaction, Facts!ReleaseTransaction, Atomic!Entry, Facts!Entry,
      Atomic!ledger_idempotency_key, Facts!ledger_idempotency_key
<1>4. Atomic!NewOrder(r, n) = Facts!NewOrder(r, n)
  BY <1>2, FactAmounts DEF Atomic!NewOrder, Facts!NewOrder
<1>5. /\ Atomic!CreatedEvent(n, r) = Facts!CreatedEvent(n, r)
      /\ Atomic!CanceledEvent(n, r) = Facts!CanceledEvent(n, r)
  BY <1>2, FactAmounts DEF Atomic!CreatedEvent, Facts!CreatedEvent,
     Atomic!CanceledEvent, Facts!CanceledEvent
<1> QED
  BY <1>1, <1>2, <1>3, <1>4, <1>5

LEMMA SameStep == [Atomic!Next]_(Atomic!database) => [Facts!Next]_(Facts!database)
<1>1. ASSUME NEW r \in FundingInputs, Atomic!Fund(r) PROVE Facts!Fund(r)
  BY <1>1, FactAmounts
  DEF Atomic!Fund, Facts!Fund, Atomic!TreasuryWallet, Facts!TreasuryWallet,
      Atomic!UserWallet, Facts!UserWallet, Atomic!active_asset, Facts!active_asset,
      Atomic!PostedKeys, Facts!PostedKeys, Atomic!Entry, Facts!Entry,
      Atomic!FundingTransaction, Facts!FundingTransaction
<1>2. ASSUME NEW r \in OrderInputs, Atomic!Reserve(r) PROVE Facts!Reserve(r)
  BY <1>2, FactAmounts, FactRows
  DEF Atomic!Reserve, Facts!Reserve, Atomic!active_asset, Facts!active_asset,
      Atomic!PostedKeys, Facts!PostedKeys,
      Atomic!ledger_idempotency_key, Facts!ledger_idempotency_key
<1>3. ASSUME NEW r \in CancelInputs, Atomic!Release(r) PROVE Facts!Release(r)
  BY <1>3, FactAmounts, FactRows DEF Atomic!Release, Facts!Release
<1> QED
  BY <1>1, <1>2, <1>3 DEF Atomic!Next, Facts!Next, Atomic!database, Facts!database

(* And so are the assumptions about the constants. *)
LEMMA FactAssumptions ==
    /\ FundingInputs \subseteq Facts!FundingRequest
    /\ OrderInputs \subseteq Facts!OrderCreateRequest
    /\ CancelInputs \subseteq Facts!CancelRequest
    /\ \E n \in 1 .. Scale : Scale = Facts!power(n)
    /\ Facts!IsFiniteSet(Users) /\ Facts!IsFiniteSet(OrderKeys)
    /\ \A a \in Assets :
           Base * (Facts!SeededWallets[Facts!TreasuryWallet(a)].available
                      + Facts!Cardinality(Users \X OrderKeys)) < Precision
<1>1. /\ FundingInputs \subseteq Facts!FundingRequest
      /\ OrderInputs \subseteq Facts!OrderCreateRequest
      /\ CancelInputs \subseteq Facts!CancelRequest
  BY SchemaAssumption DEF Facts!FundingRequest, FundingRequest,
     Facts!OrderCreateRequest, OrderCreateRequest, Facts!CancelRequest, CancelRequest
<1>2. \A n : power(n) = Facts!power(n)
  BY DEF power, Facts!power
<1>3. Facts!IsFiniteSet(Users) /\ Facts!IsFiniteSet(OrderKeys)
  BY SupplyAssumption DEF IsFiniteSet, Facts!IsFiniteSet
<1>4. /\ SeededWallets = Facts!SeededWallets
      /\ \A a : TreasuryWallet(a) = Facts!TreasuryWallet(a)
      /\ Cardinality(Users \X OrderKeys) = Facts!Cardinality(Users \X OrderKeys)
  BY DEF SeededWallets, Facts!SeededWallets, NoWallet, Facts!NoWallet,
     WalletIds, Facts!WalletIds, Owners, Facts!Owners,
     TreasuryWallet, Facts!TreasuryWallet, Cardinality, Facts!Cardinality
<1> QED
  BY <1>1, <1>2, <1>3, <1>4, ScaleAssumption, SupplyAssumption

(* An execution of the API is one of the atomic ledger.                    *)
LEMMA SameLedger ==
    /\ FundingInputs \subseteq Facts!FundingRequest
    /\ OrderInputs \subseteq Facts!OrderCreateRequest
    /\ CancelInputs \subseteq Facts!CancelRequest
    => (Spec => Facts!Spec)
BY Linearizability, SameInit, SameStep, PTL DEF Linearizable, Atomic!Spec, Facts!Spec

(* What the handlers leave in the database, whatever the interleaving and  *)
(* whichever requests are lost: locked balances cover the open orders, the *)
(* entries explain the balances, the outbox tells what the orders are, its *)
(* events add up to what is locked, and no key is spent twice.             *)
THEOREM HandlersKeepThePromise ==
    Spec => []( /\ Facts!LockedCoversOpenOrders
                /\ Facts!LedgerExplainsBalances
                /\ Facts!OutboxTellsOrders
                /\ Facts!EventsExplainLocked
                /\ Facts!KeysSpentOnce )
BY FactAssumptions, SameLedger, SchemaAssumption, ScaleAssumption,
   SupplyAssumption, PTL,
   Facts!LockedCovers, Facts!LedgerExplains, Facts!OutboxTellsAll,
   Facts!EventsExplain, Facts!KeysOnce

(* No interleaving loses money, or makes any but for the units that the    *)
(* atomic ledger accounts for.                                             *)
THEOREM HandlersKeepMoney == Spec => []Facts!MoneyIsAccounted
BY FactAssumptions, SameLedger, SchemaAssumption, ScaleAssumption,
   SupplyAssumption, PTL,
   Facts!MoneyAccounted

(* The wallet of every open order has locked what the order reserves: what *)
(* the sums of the atomic ledger say of a single order.                    *)
THEOREM OpenOrdersAreCovered == Spec => []OpenIsCovered
<1>1. Facts!OpenIsCovered => OpenIsCovered
  BY DEF Facts!OpenIsCovered, OpenIsCovered, Facts!ReserveWallet, ReserveWallet,
     Facts!UserWallet, UserWallet, Facts!reserve_asset, reserve_asset
<1> QED
  BY <1>1, FactAssumptions, SameLedger, SchemaAssumption, ScaleAssumption,
     SupplyAssumption, Facts!ReleasesAreCovered, PTL

-----------------------------------------------------------------------------
(* Cancellations.                                                          *)

(* A step that answers nobody "canceled", nor with a missing reservation,  *)
(* leaves the cancellations that were told as they are.                    *)
LEMMA OtherAnswers ==
    ASSUME CancelInv,
           \A q \in Requests :
               \/ reply'[q] = reply[q]
               \/ reply'[q].outcome \notin {"canceled", "reservation_state"},
           \A n \in DOMAIN orders : n \in DOMAIN orders' /\ orders'[n] = orders[n]
    PROVE  CancelInv'
<1>1. /\ \A q \in Requests : Answered(q, "canceled")' =>
             Answered(q, "canceled") /\ reply'[q] = reply[q]
      /\ \A q \in Requests : Answered(q, "reservation_state")' =>
             Answered(q, "reservation_state")
  BY DEF Answered
<1>2. CancellationIsCovered'
  BY <1>1 DEF CancelInv, CancellationIsCovered
<1>3. CanceledAreRows'
  BY <1>1 DEF CancelInv, CanceledAreRows
<1> QED
  BY <1>2, <1>3 DEF CancelInv

LEMMA GotoCancels ==
    ASSUME Inv, CancelInv, NEW p \in Requests, NEW label, Goto(p, label)
    PROVE  CancelInv'
<1>1. UNCHANGED <<orders, reply>>
  BY DEF Goto
<1> QED
  BY <1>1, OtherAnswers

LEMMA RollbackCancels ==
    ASSUME Inv, CancelInv, NEW p \in Requests, NEW outcome, NEW row,
           Rollback(p, outcome, row),
           outcome \notin {"canceled", "reservation_state"}
    PROVE  CancelInv'
<1>1. /\ UNCHANGED orders
      /\ reply' = [reply EXCEPT ![p] = [outcome |-> outcome, row |-> row]]
  BY DEF Rollback, Close, database
<1>2. \A q \in Requests : reply'[q] = reply[q] \/ reply'[q].outcome = outcome
  BY <1>1 DEF Inv, TypeOK
<1> QED
  BY <1>1, <1>2, OtherAnswers

(* No cancellation finds its reservation missing: its order is open, and   *)
(* the wallet of an open order covers it.                                  *)
LEMMA ReservationIsThere ==
    ASSUME Inv, OpenIsCovered, NEW p \in Requests, CancelLockWallet(p)
    PROVE  Goto(p, "commit")
<1> SUFFICES ASSUME NEW o, o = orders[request[p].order], NEW w, w = ReserveWallet(o)
             PROVE  Goto(p, "commit")
  OBVIOUS
<1>1. request[p].order \in DOMAIN orders /\ o.status = "open"
  BY DEF CancelLockWallet, At, Inv, CanceledOrderIsOpen
<1>2. o.reserved > 0 /\ wallets[w].locked >= o.reserved
  BY <1>1 DEF OpenIsCovered
<1>3. w \in WalletIds /\ wallets[w] \in Wallet /\ o.reserved \in Nat
  BY <1>1, OrderTypes, ReleaseTypes DEF Inv, TypeOK
<1>4. wallets[w].exists
  BY <1>2, <1>3 DEF Inv, AbsentIsEmpty, NoWallet, Wallet
<1> QED
  BY <1>2, <1>3, <1>4 DEF CancelLockWallet, Wallet

(* The order whose cancellation commits was open, so nobody has been told  *)
(* that it is canceled.                                                    *)
LEMMA CancelCommitCancels ==
    ASSUME Inv, CancelInv, NEW p \in Requests, CancelCommit(p)
    PROVE  CancelInv'
<1> SUFFICES ASSUME NEW n, n = request[p].order PROVE CancelInv'
  OBVIOUS
<1>1. /\ n \in DOMAIN orders /\ orders[n].status = "open"
      /\ orders' = [orders EXCEPT ![n].status = "canceled"]
      /\ reply' = [reply EXCEPT ![p] = [outcome |-> "canceled", row |-> n]]
  BY DEF CancelCommit, At, Inv, CanceledOrderIsOpen, Commit, Close
<1>2. /\ reply'[p] = [outcome |-> "canceled", row |-> n]
      /\ \A q \in Requests : q # p => reply'[q] = reply[q]
  BY <1>1 DEF Inv, TypeOK
<1>3. /\ DOMAIN orders' = DOMAIN orders
      /\ orders'[n].status = "canceled"
      /\ \A m \in DOMAIN orders : m # n => orders'[m] = orders[m]
  BY <1>1, OrderTypes DEF Inv, Order
<1>4. \A q \in Requests : Answered(q, "canceled") => reply[q].row # n
  BY <1>1 DEF CancelInv, CanceledAreRows
<1>5. CanceledAreRows'
  <2> SUFFICES ASSUME NEW q \in Requests, reply'[q].outcome = "canceled",
                      NEW m, m = reply'[q].row
               PROVE  m \in DOMAIN orders' /\ orders'[m].status = "canceled"
    BY DEF CanceledAreRows, Answered
  <2>1. CASE q = p
    BY <1>1, <1>2, <1>3, <2>1
  <2>2. CASE q # p
    <3>1. m \in DOMAIN orders /\ orders[m].status = "canceled"
      BY <1>2, <2>2 DEF CancelInv, CanceledAreRows, Answered
    <3> QED
      BY <1>3, <3>1
  <2> QED
    BY <2>1, <2>2
<1>6. CancellationIsCovered'
  BY <1>2, <1>4 DEF CancelInv, CancellationIsCovered, Answered
<1> QED
  BY <1>5, <1>6 DEF CancelInv

LEMMA OtherCommitsCancel ==
    ASSUME Inv, CancelInv, NEW p \in Requests, FundCommit(p) \/ CreateCommit(p)
    PROVE  CancelInv'
<1>1. CASE FundCommit(p)
  <2>1. UNCHANGED orders /\ Commit(p, "created", Len(ledger) + 1)
    BY <1>1 DEF FundCommit
  <2>2. \A q \in Requests : reply'[q] = reply[q] \/ reply'[q].outcome = "created"
    BY <2>1 DEF Commit, Close, Inv, TypeOK
  <2> QED
    BY <2>1, <2>2, OtherAnswers
<1>2. CASE CreateCommit(p)
  <2>1. CASE Refuse(p, "integrity_error")
    BY <2>1, RollbackCancels DEF Refuse
  <2>2. ASSUME orders' = Append(orders, NewOrder(request[p], Len(ledger) + 1)),
               Commit(p, "created", Len(orders) + 1)
        PROVE  CancelInv'
    <3>1. \A n \in DOMAIN orders : n \in DOMAIN orders' /\ orders'[n] = orders[n]
      <4>1. orders \in Seq(Order) /\ Len(ledger) + 1 \in Nat
        BY DEF Inv, TypeOK
      <4>2. NewOrder(request[p], Len(ledger) + 1) \in Order
        BY <1>2, <4>1, RequestTypes, ReserveTypes DEF Inv, CreateCommit, At
      <4> QED
        BY <2>2, <4>1, <4>2, Appending
    <3>2. \A q \in Requests : reply'[q] = reply[q] \/ reply'[q].outcome = "created"
      BY <2>2 DEF Commit, Close, Inv, TypeOK
    <3> QED
      BY <3>1, <3>2, OtherAnswers
  <2> QED
    BY <1>2, <2>1, <2>2 DEF CreateCommit
<1> QED
  BY <1>1, <1>2

LEMMA NextCancels == Inv /\ OpenIsCovered /\ CancelInv /\ [Next]_vars => CancelInv'
<1> SUFFICES ASSUME Inv, OpenIsCovered, CancelInv, [Next]_vars PROVE CancelInv'
  OBVIOUS
<1>1. CASE UNCHANGED vars
  BY <1>1 DEF vars, CancelInv, CancellationIsCovered, CanceledAreRows, Answered
<1>2. ASSUME NEW p \in Requests, Serve(p)
      PROVE  CancelInv'
  <2>1. CASE FundBegin(p) \/ FundLockTreasury(p) \/ FundLockWallet(p) \/ FundInsertWallet(p)
    BY <2>1, GotoCancels, RollbackCancels DEF FundBegin, find_funding_replay,
       FundLockTreasury, FundLockWallet, FundInsertWallet, Refuse, Replay
  <2>2. CASE CreateBegin(p) \/ CreateLockWallet(p) \/ CreateRecheck(p)
    BY <2>2, GotoCancels, RollbackCancels DEF CreateBegin, existing_order_replay,
       CreateLockWallet, CreateRecheck, Refuse, Replay
  <2>3. CASE CancelLockOrder(p)
    <3>1. request[p].order \in DOMAIN orders =>
              orders[request[p].order].status \in {"open", "canceled", "filled"}
      BY OrderTypes DEF Inv, Order
    <3>2. \/ Goto(p, "lock_wallet")
          \/ Rollback(p, "replayed", request[p].order)
          \/ Rollback(p, "not_found", 0)
          \/ Rollback(p, "not_cancelable", 0)
      BY <2>3, <3>1 DEF CancelLockOrder, Refuse, Replay
    <3> QED
      BY <3>2, GotoCancels, RollbackCancels
  <2>4. CASE CancelLockWallet(p)
    BY <2>4, ReservationIsThere, GotoCancels
  <2>5. CASE CancelBegin(p) \/ InsertTransaction(p) \/ Respond(p)
    BY <2>5, GotoCancels, RollbackCancels DEF CancelBegin, InsertTransaction, Respond, Refuse
  <2> QED
    BY <1>2, <2>1, <2>2, <2>3, <2>4, <2>5, CancelCommitCancels, OtherCommitsCancel DEF Serve
<1>3. ASSUME NEW p \in Requests, Abort(p) \/ PoolTimeout(p)
      PROVE  CancelInv'
  BY <1>3, RollbackCancels DEF Abort, PoolTimeout, Refuse
<1> QED
  BY <1>1, <1>2, <1>3 DEF Next, Finished

LEMMA CancelInvariance == Spec => []CancelInv
<1>1. Init => CancelInv
  BY DEF Init, SessionInit, CancelInv, CancellationIsCovered, CanceledAreRows, Answered
<1>2. Inv /\ OpenIsCovered /\ CancelInv /\ [Next]_vars => CancelInv'
  BY NextCancels
<1> QED
  BY <1>1, <1>2, Invariance, OpenOrdersAreCovered, PTL DEF Spec

(* A cancellation is never told that its reservation is not there          *)
(* (OrderReservationStateError), and no two that one order was canceled.   *)
THEOREM CancellationsSucceed == Spec => []CancellationIsCovered
<1>1. CancelInv => CancellationIsCovered
  BY DEF CancelInv
<1> QED
  BY <1>1, CancelInvariance, PTL

-----------------------------------------------------------------------------
(* Retries.                                                                *)

LEMMA NextValid == Inv /\ RowsAreValid /\ [Next]_vars => RowsAreValid'
<1> SUFFICES ASSUME Inv, RowsAreValid, [Next]_vars PROVE RowsAreValid'
  OBVIOUS
<1>0. /\ ledger \in Seq(LedgerTransaction) /\ orders \in Seq(Order)
      /\ Len(ledger) + 1 \in Nat
  BY DEF Inv, TypeOK
<1>1. CASE UNCHANGED database
  BY <1>1 DEF database, RowsAreValid
<1>2. ASSUME NEW t \in LedgerTransaction, ledger' = Append(ledger, t),
             t.type = "funding" =>
                 t.credit.amount > 0 /\ active_asset(t.credit.wallet[2])
      PROVE  \A i \in DOMAIN ledger' :
                 LET credit == ledger'[i].credit
                 IN  ledger'[i].type = "funding" =>
                         credit.amount > 0 /\ active_asset(credit.wallet[2])
  <2>1. /\ DOMAIN ledger' = DOMAIN ledger \cup {Len(ledger) + 1}
        /\ ledger'[Len(ledger) + 1] = t
        /\ \A i \in DOMAIN ledger : ledger'[i] = ledger[i]
    BY <1>0, <1>2, Appending
  <2> QED
    BY <1>2, <2>1 DEF RowsAreValid
<1>3. ASSUME NEW p \in Requests, FundCommit(p) PROVE RowsAreValid'
  <2> DEFINE r == request[p]
             t == FundingTransaction(r)
  <2>1. /\ r.op = "fund" /\ r.amount > 0 /\ active_asset(r.asset)
        /\ ledger' = Append(ledger, t) /\ UNCHANGED orders
    BY <1>3 DEF FundCommit, At, Inv, Validated
  <2>2. t \in LedgerTransaction
    BY <2>1, RequestTypes, FundingTypes DEF Inv
  <2>3. t.credit.amount = r.amount /\ t.credit.wallet[2] = r.asset
    BY DEF FundingTransaction, Entry, UserWallet
  <2> HIDE DEF t
  <2> QED
    BY <1>2, <2>1, <2>2, <2>3 DEF RowsAreValid
<1>4. ASSUME NEW p \in Requests, CreateCommit(p) PROVE RowsAreValid'
  <2>1. CASE Refuse(p, "integrity_error")
    BY <1>1, <2>1 DEF Refuse, Rollback
  <2> DEFINE r == request[p]
             t == ReserveTransaction(r)
             o == NewOrder(r, Len(ledger) + 1)
  <2>2. CASE ledger' = Append(ledger, t) /\ orders' = Append(orders, o)
    <3>1. /\ r.op = "create" /\ active_asset(r.base) /\ active_asset(r.quote)
          /\ r.base # r.quote /\ r.price > 0 /\ r.quantity > 0
      BY <1>4 DEF CreateCommit, At, Inv, Validated
    <3>2. t \in LedgerTransaction /\ o \in Order
      BY <1>0, <3>1, RequestTypes, ReserveTypes DEF Inv
    <3>3. /\ t.type = "order_reserve"
          /\ o.base = r.base /\ o.quote = r.quote
          /\ o.price = r.price /\ o.quantity = r.quantity
      BY DEF ReserveTransaction, NewOrder
    <3> HIDE DEF t, o
    <3>4. /\ DOMAIN orders' = DOMAIN orders \cup {Len(orders) + 1}
          /\ orders'[Len(orders) + 1] = o
          /\ \A n \in DOMAIN orders : orders'[n] = orders[n]
      BY <1>0, <2>2, <3>2, Appending
    <3> QED
      BY <1>2, <2>2, <3>1, <3>2, <3>3, <3>4 DEF RowsAreValid
  <2> QED
    BY <1>4, <2>1, <2>2 DEF CreateCommit
<1>5. ASSUME NEW p \in Requests, CancelCommit(p) PROVE RowsAreValid'
  <2> DEFINE n == request[p].order
             t == ReleaseTransaction(orders[n])
  <2>1. /\ n \in DOMAIN orders
        /\ ledger' = Append(ledger, t)
        /\ orders' = [orders EXCEPT ![n].status = "canceled"]
    BY <1>5 DEF CancelCommit, At, Inv, CanceledOrderIsOpen
  <2>2. t \in LedgerTransaction /\ t.type = "order_release"
    BY <2>1, OrderTypes, ReleaseTypes DEF Inv, ReleaseTransaction
  <2>3. /\ DOMAIN orders' = DOMAIN orders
        /\ \A m \in DOMAIN orders :
               /\ orders'[m].base = orders[m].base /\ orders'[m].quote = orders[m].quote
               /\ orders'[m].price = orders[m].price
               /\ orders'[m].quantity = orders[m].quantity
    BY <2>1, OrderTypes DEF Inv, Order
  <2> HIDE DEF t
  <2> QED
    BY <1>2, <2>1, <2>2, <2>3 DEF RowsAreValid
<1>6. CASE UNCHANGED vars
  BY <1>1, <1>6 DEF vars, database
<1> QED
  BY <1>1, <1>3, <1>4, <1>5, <1>6, HandlerSteps DEF Next, Finished

LEMMA RowsStayValid == Spec => []RowsAreValid
<1>1. Init => RowsAreValid
  BY DEF Init, SessionInit, RowsAreValid
<1> QED
  BY <1>1, NextValid, Invariance, PTL DEF Spec

(* The transaction of a committed funding is the only one with its key,    *)
(* and the request that it answers is valid.                               *)
LEMMA FundingFound ==
    ASSUME Inv, RowsAreValid, Facts!KeysSpentOnce, NEW r \in FundingRequest, AlreadyDone(r)
    PROVE  /\ r.amount > 0 /\ active_asset(r.asset)
           /\ FundingsOf(r) # {}
           /\ \A j \in FundingsOf(r) : FundingMatches(r, ledger[j])
<1>1. PICK i \in DOMAIN ledger : ledger[i] = FundingTransaction(r)
  BY DEF AlreadyDone, FundingRequest
<1>2. /\ ledger[i].key = r.key /\ ledger[i].type = "funding"
      /\ ledger[i].credit = Entry(UserWallet(r.user, r.asset), "available", r.amount)
  BY <1>1 DEF FundingTransaction
<1>3. r.key # NoKey
  BY SchemaAssumption DEF FundingRequest
<1>4. \A j \in FundingsOf(r) : j = i
  BY <1>2, <1>3 DEF FundingsOf, Facts!KeysSpentOnce
<1>5. r.amount > 0 /\ active_asset(r.asset)
  BY <1>2 DEF RowsAreValid, Entry, UserWallet
<1> QED
  BY <1>1, <1>2, <1>4, <1>5 DEF FundingsOf, FundingMatches

LEMMA OrderFound ==
    ASSUME Inv, RowsAreValid, Facts!KeysSpentOnce, NEW r \in OrderCreateRequest,
           AlreadyDone(r)
    PROVE  /\ active_asset(r.base) /\ active_asset(r.quote)
           /\ r.base # r.quote /\ r.price > 0 /\ r.quantity > 0
           /\ OrdersOf(r) # {}
           /\ \A m \in OrdersOf(r) : validate_replay(r, orders[m])
<1>1. PICK n \in DOMAIN orders :
          [orders[n] EXCEPT !.status = "open"] = NewOrder(r, orders[n].transaction)
  BY DEF AlreadyDone, OrderCreateRequest
<1>2. /\ orders[n].user = r.user /\ orders[n].key = r.key
      /\ orders[n].base = r.base /\ orders[n].quote = r.quote /\ orders[n].side = r.side
      /\ orders[n].price = r.price /\ orders[n].quantity = r.quantity
  <2> DEFINE o == [orders[n] EXCEPT !.status = "open"]
             x == NewOrder(r, orders[n].transaction)
  <2>1. orders[n] \in Order
    BY OrderTypes DEF Inv
  <2>2. /\ o.user = orders[n].user /\ o.key = orders[n].key
        /\ o.base = orders[n].base /\ o.quote = orders[n].quote /\ o.side = orders[n].side
        /\ o.price = orders[n].price /\ o.quantity = orders[n].quantity
    BY <2>1 DEF Order
  <2>3. /\ x.user = r.user /\ x.key = r.key
        /\ x.base = r.base /\ x.quote = r.quote /\ x.side = r.side
        /\ x.price = r.price /\ x.quantity = r.quantity
    BY DEF NewOrder
  <2>4. o = x
    BY <1>1
  <2> HIDE DEF o, x
  <2> QED
    BY <2>2, <2>3, <2>4
<1>3. \A m \in OrdersOf(r) : m = n
  BY <1>2 DEF OrdersOf, Facts!KeysSpentOnce
<1>4. /\ active_asset(r.base) /\ active_asset(r.quote)
      /\ r.base # r.quote /\ r.price > 0 /\ r.quantity > 0
  BY <1>2 DEF RowsAreValid
<1> QED
  BY <1>1, <1>2, <1>3, <1>4 DEF OrdersOf, validate_replay

LEMMA LateRetry ==
    ASSUME Inv, RowsAreValid, Facts!KeysSpentOnce, [Next]_vars,
           NEW p \in Requests, pc[p] \in {"start", "recheck"}, pc'[p] # pc[p],
           AlreadyDone(request[p])
    PROVE  reply'[p].outcome \in {"replayed", "aborted", "unavailable"}
<1> DEFINE r == request[p]
           Told == reply'[p].outcome \in {"replayed", "aborted", "unavailable"}
<1> SUFFICES Told
  OBVIOUS
<1>1. Serve(p) \/ Abort(p) \/ PoolTimeout(p)
  <2>1. ~ UNCHANGED vars
    BY DEF vars
  <2>2. PICK q \in Requests : Serve(q) \/ Abort(q) \/ PoolTimeout(q)
    BY <2>1 DEF Next, Finished
  <2>3. q = p
    BY <2>2, HandlerSteps
  <2> QED
    BY <2>2, <2>3
<1>2. ASSUME NEW outcome \in {"replayed", "aborted", "unavailable"}, NEW row,
             Rollback(p, outcome, row)
      PROVE  Told
  <2>1. reply'[p] = [outcome |-> outcome, row |-> row]
    BY <1>2 DEF Rollback, Close, Inv, TypeOK
  <2> QED
    BY <2>1
<1> HIDE DEF Told
<1>3. CASE Abort(p) \/ PoolTimeout(p)
  BY <1>2, <1>3 DEF Abort, PoolTimeout, Refuse
<1>4. CASE FundBegin(p)
  <2>1. r \in FundingRequest
    BY <1>4, RequestTypes DEF Inv, FundBegin, At
  <2>2. /\ r.amount > 0 /\ active_asset(r.asset) /\ FundingsOf(r) # {}
        /\ \A j \in FundingsOf(r) : FundingMatches(r, ledger[j])
    BY <2>1, FundingFound
  <2>3. r.amount \in Nat
    BY <2>1 DEF FundingRequest
  <2>4. \E j \in FundingsOf(r) : Replay(p, j)
    BY <1>4, <2>2, <2>3 DEF FundBegin, find_funding_replay
  <2> QED
    BY <1>2, <2>4 DEF Replay
<1>5. CASE CreateBegin(p) \/ CreateRecheck(p)
  <2>1. r \in OrderCreateRequest
    BY <1>5, RequestTypes DEF Inv, CreateBegin, CreateRecheck, At
  <2>2. /\ active_asset(r.base) /\ active_asset(r.quote)
        /\ r.base # r.quote /\ r.price > 0 /\ r.quantity > 0
        /\ OrdersOf(r) # {}
        /\ \A n \in OrdersOf(r) : validate_replay(r, orders[n])
    BY <2>1, OrderFound
  <2>3. \E n \in OrdersOf(r) : Replay(p, n)
    BY <1>5, <2>2 DEF CreateBegin, CreateRecheck, existing_order_replay
  <2> QED
    BY <1>2, <2>3 DEF Replay
<1>6. r.op \in {"fund", "create"}
  BY DEF AlreadyDone
<1> QED
  BY <1>1, <1>3, <1>4, <1>5, <1>6 DEF Serve, FundLockTreasury, FundLockWallet,
     FundInsertWallet, FundCommit, CreateLockWallet, CreateCommit, CancelBegin,
     CancelLockOrder, CancelLockWallet, CancelCommit, InsertTransaction, Respond, At

(* A retry that arrives after its first attempt has been committed is      *)
(* answered with what that attempt wrote, or with nothing.                 *)
THEOREM LateRetries == Spec => LateRetriesReplay
<1> DEFINE Retried ==
        \A p \in Requests :
            /\ pc[p] \in {"start", "recheck"} /\ pc'[p] # pc[p]
            /\ AlreadyDone(request[p])
            => reply'[p].outcome \in {"replayed", "aborted", "unavailable"}
<1>1. Inv /\ RowsAreValid /\ Facts!KeysSpentOnce /\ [Next]_vars => [Retried]_vars
  BY LateRetry
<1>2. [][Retried]_vars => LateRetriesReplay
  BY DEF LateRetriesReplay
<1>3. Spec => []Facts!KeysSpentOnce
  BY HandlersKeepThePromise, PTL
<1> HIDE DEF Retried
<1> QED
  BY <1>1, <1>2, <1>3, Invariance, RowsStayValid, PTL DEF Spec

-----------------------------------------------------------------------------
(* Everything that is known of every state of the API, in one formula.     *)
THEOREM ApiInvariance == Spec => []ApiInv
<1>1. Inv /\ AnswerInv /\ RowsAreValid /\ OpenIsCovered /\ CancelInv /\ LockInv => ApiInv
  BY DEF ApiInv
<1> QED
  BY <1>1, Invariance, AnswerInvariance, RowsStayValid, OpenOrdersAreCovered,
     CancelInvariance, RanksInvariant, PTL

=============================================================================
