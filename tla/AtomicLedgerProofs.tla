------------------------- MODULE AtomicLedgerProofs -------------------------
(***************************************************************************)
(* Proofs about the atomic ledger, for any users, assets, keys, requests   *)
(* and Scale: its rows are well typed, keys are spent once, the outbox     *)
(* tells every order's story once, the ledger entries and the open orders  *)
(* explain every balance, orders keep the totals, and the events' amounts  *)
(* are off by the rounding and no more.                                    *)
(***************************************************************************)
EXTENDS AtomicLedger, SchemaProofs, SequenceTheorems, FiniteSetTheorems

(* Only the status of one order changes when it is canceled.               *)
LEMMA Canceling ==
    ASSUME TypeOK, NEW n \in DOMAIN orders,
           orders' = [orders EXCEPT ![n].status = "canceled"]
    PROVE  /\ orders' \in Seq(Order)
           /\ DOMAIN orders' = DOMAIN orders
           /\ orders'[n] = [orders[n] EXCEPT !.status = "canceled"]
           /\ \A i \in DOMAIN orders \ {n} : orders'[i] = orders[i]
<1>1. orders \in Seq(Order) /\ n \in 1 .. Len(orders) /\ orders[n] \in Order
  BY DEF TypeOK
<1> SUFFICES ASSUME NEW o, o = [orders[n] EXCEPT !.status = "canceled"]
             PROVE  /\ orders' \in Seq(Order)
                    /\ DOMAIN orders' = DOMAIN orders
                    /\ orders'[n] = o
                    /\ \A i \in DOMAIN orders \ {n} : orders'[i] = orders[i]
  OBVIOUS
<1>2. o \in Order /\ orders' = [orders EXCEPT ![n] = o]
  BY <1>1 DEF Order
<1>3. /\ [orders EXCEPT ![n] = o] \in Seq(Order)
      /\ Len([orders EXCEPT ![n] = o]) = Len(orders)
      /\ \A i \in 1 .. Len(orders) :
             [orders EXCEPT ![n] = o][i] = IF i = n THEN o ELSE orders[i]
  BY <1>1, <1>2, ExceptSeq
<1> QED
  BY <1>1, <1>2, <1>3

LEMMA RequestTypes ==
    /\ \A r \in FundingInputs : r \in FundingRequest
    /\ \A r \in OrderInputs : r \in OrderCreateRequest
    /\ \A r \in CancelInputs : r \in CancelRequest
BY SchemaAssumption

LEMMA OrderTypes ==
    ASSUME TypeOK, NEW n \in DOMAIN orders
    PROVE  n \in Nat /\ orders[n] \in Order
BY DEF TypeOK

-----------------------------------------------------------------------------
(* No balance is ever negative.                                            *)

LEMMA FundType ==
    ASSUME TypeOK, NEW r \in FundingInputs, Fund(r)
    PROVE  TypeOK'
<1> SUFFICES ASSUME NEW t, t = TreasuryWallet(r.asset),
                    NEW u, u = UserWallet(r.user, r.asset)
             PROVE  TypeOK'
  OBVIOUS
<1>1. /\ t \in WalletIds /\ u \in WalletIds /\ r.amount \in Nat
      /\ FundingTransaction(r) \in LedgerTransaction
  BY RequestTypes, FundingRowTypes
<1>2. /\ wallets[t].available >= r.amount
      /\ wallets' = [wallets EXCEPT ![t].available = minus(@, Fine(r.amount)),
                                    ![u].available = plus(@, Fine(r.amount)),
                                    ![u].exists = TRUE]
      /\ ledger' = Append(ledger, FundingTransaction(r))
      /\ UNCHANGED <<orders, outbox>>
  BY DEF Fund
<1>3. wallets' \in [WalletIds -> Wallet]
  <2>1. wallets \in [WalletIds -> Wallet] /\ wallets[t] \in Wallet
    BY <1>1 DEF TypeOK
  <2>2. minus(wallets[t].available, Fine(r.amount)) \in Nat
    <3>1. wallets[t].available \in Nat /\ Fine(r.amount) \in Nat
      BY <1>1, <2>1, FineIs DEF Wallet
    <3>2. Fine(r.amount) <= Fine(wallets[t].available)
      BY <1>1, <1>2, <3>1, FineOrder
    <3> QED
      BY <3>1, <3>2, BalanceNat
  <2>3. PICK W \in [WalletIds -> Wallet] :
            W = [wallets EXCEPT ![t].available =
                     minus(wallets[t].available, Fine(r.amount))]
    BY <1>1, <2>1, <2>2, WriteBalance
  <2>4. W[u] \in Wallet /\ plus(W[u].available, Fine(r.amount)) \in Nat
    <3>1. W[u] \in Wallet /\ W[u].available \in Nat
      BY <1>1, <2>3 DEF Wallet
    <3> QED
      BY <1>1, <3>1, FineIs, BalanceNat
  <2>5. PICK V \in [WalletIds -> Wallet] :
            V = [W EXCEPT ![u].available = plus(W[u].available, Fine(r.amount))]
    BY <1>1, <2>4, WriteBalance
  <2>6. [V EXCEPT ![u].exists = TRUE] \in [WalletIds -> Wallet]
    <3>1. V[u] \in Wallet
      BY <1>1
    <3>2. [V[u] EXCEPT !.exists = TRUE] \in Wallet
      BY <3>1 DEF Wallet
    <3> QED
      BY <1>1, <3>2
  <2> QED
    BY <1>2, <2>3, <2>5, <2>6
<1> QED
  BY <1>1, <1>2, <1>3, Appending DEF TypeOK

LEMMA ReserveType ==
    ASSUME TypeOK, NEW r \in OrderInputs, Reserve(r)
    PROVE  TypeOK'
<1> SUFFICES ASSUME NEW w, w = ReserveWallet(r), NEW need, need = reserved_amount(r)
             PROVE  TypeOK'
  OBVIOUS
<1>1. /\ Len(ledger) + 1 \in Nat /\ Len(orders) + 1 \in Nat
  BY DEF TypeOK
<1>2. /\ w \in WalletIds /\ need \in Nat
      /\ ReserveTransaction(r) \in LedgerTransaction
      /\ NewOrder(r, Len(ledger) + 1) \in Order
      /\ CreatedEvent(Len(orders) + 1, r) \in OutboxEvent
  BY <1>1, RequestTypes, ReserveRowTypes
<1>3. /\ Fine(wallets[w].available) >= need
      /\ wallets' = [wallets EXCEPT ![w].available = minus(@, need),
                                    ![w].locked = plus(@, need)]
      /\ ledger' = Append(ledger, ReserveTransaction(r))
      /\ orders' = Append(orders, NewOrder(r, Len(ledger) + 1))
      /\ outbox' = Append(outbox, CreatedEvent(Len(orders) + 1, r))
  BY DEF Reserve
<1>4. wallets' \in [WalletIds -> Wallet]
  <2>1. /\ wallets \in [WalletIds -> Wallet] /\ wallets[w] \in Wallet
        /\ wallets[w].available \in Nat /\ wallets[w].locked \in Nat
    BY <1>2 DEF TypeOK, Wallet
  <2>2. minus(wallets[w].available, need) \in Nat /\ plus(wallets[w].locked, need) \in Nat
    <3>1. need <= Fine(wallets[w].available)
      BY <1>2, <1>3, <2>1, FineIs
    <3> QED
      BY <1>2, <2>1, <3>1, BalanceNat
  <2>4. PICK W \in [WalletIds -> Wallet] :
            W = [wallets EXCEPT ![w].available = minus(wallets[w].available, need)]
    BY <1>2, <2>1, <2>2, WriteBalance
  <2>5. W[w].locked = wallets[w].locked
    BY <1>2, <2>1, <2>4 DEF Wallet
  <2>6. [W EXCEPT ![w].locked = plus(W[w].locked, need)] \in [WalletIds -> Wallet]
    <3>1. plus(W[w].locked, need) \in Nat
      BY <2>2, <2>5, Zenon
    <3>2. ASSUME NEW n \in Nat
          PROVE  [W EXCEPT ![w].locked = n] \in [WalletIds -> Wallet]
      BY <1>2, WriteBalance
    <3> QED
      BY <3>1, <3>2
  <2> QED
    BY <1>3, <2>4, <2>6
<1> QED
  BY <1>2, <1>3, <1>4, Appending DEF TypeOK

LEMMA ReleaseType ==
    ASSUME TypeOK, NEW r \in CancelInputs, Release(r)
    PROVE  TypeOK'
<1> SUFFICES ASSUME NEW o, o = orders[r.order], NEW w, w = ReserveWallet(o)
             PROVE  TypeOK'
  OBVIOUS
<1>1. /\ r.order \in DOMAIN orders
      /\ wallets[w].locked >= o.reserved
      /\ wallets' = [wallets EXCEPT ![w].locked = minus(@, Fine(o.reserved)),
                                    ![w].available = plus(@, Fine(o.reserved))]
      /\ ledger' = Append(ledger, ReleaseTransaction(o))
      /\ orders' = [orders EXCEPT ![r.order].status = "canceled"]
      /\ outbox' = Append(outbox, CanceledEvent(r.order, o))
  BY DEF Release
<1>2. r.order \in Nat /\ o \in Order
  BY <1>1, OrderTypes
<1>3. /\ w \in WalletIds /\ o.reserved \in Nat
      /\ ReleaseTransaction(o) \in LedgerTransaction
      /\ CanceledEvent(r.order, o) \in OutboxEvent
  BY <1>2, ReleaseTypes
<1>4. wallets' \in [WalletIds -> Wallet]
  <2>1. wallets \in [WalletIds -> Wallet] /\ wallets[w] \in Wallet
    BY <1>3 DEF TypeOK
  <2>2. minus(wallets[w].locked, Fine(o.reserved)) \in Nat
    <3>1. wallets[w].locked \in Nat /\ Fine(o.reserved) \in Nat
      BY <1>3, <2>1, FineIs DEF Wallet
    <3>2. Fine(o.reserved) <= Fine(wallets[w].locked)
      BY <1>1, <1>3, <3>1, FineOrder
    <3> QED
      BY <3>1, <3>2, BalanceNat
  <2>3. PICK W \in [WalletIds -> Wallet] :
            W = [wallets EXCEPT ![w].locked = minus(wallets[w].locked, Fine(o.reserved))]
    BY <1>3, <2>1, <2>2, WriteBalance
  <2>4. plus(W[w].available, Fine(o.reserved)) \in Nat
    <3>1. W[w].available \in Nat
      BY <1>3, <2>3 DEF Wallet
    <3> QED
      BY <1>3, <3>1, FineIs, BalanceNat
  <2>5. [W EXCEPT ![w].available = plus(W[w].available, Fine(o.reserved))]
            \in [WalletIds -> Wallet]
    <3>1. ASSUME NEW n \in Nat
          PROVE  [W EXCEPT ![w].available = n] \in [WalletIds -> Wallet]
      BY <1>3, WriteBalance
    <3> QED
      BY <2>4, <3>1
  <2> QED
    BY <1>1, <2>3, <2>5
<1>5. orders' \in Seq(Order)
  BY <1>1, Canceling
<1> QED
  BY <1>1, <1>3, <1>4, <1>5, Appending DEF TypeOK

LEMMA NextType == TypeOK /\ [Next]_database => TypeOK'
<1>1. TypeOK /\ UNCHANGED database => TypeOK'
  BY DEF TypeOK, database
<1> QED
  BY <1>1, FundType, ReserveType, ReleaseType DEF Next

LEMMA InitType == Init => TypeOK
<1>1. NoWallet \in Wallet
  BY DEF NoWallet, Wallet
<1>2. SeededWallets \in [WalletIds -> Wallet]
  BY <1>1, SchemaAssumption DEF SeededWallets, WalletIds, Wallet
<1> QED
  BY <1>2 DEF Init, TypeOK

(* Every state of the ledger is well typed: no balance and no amount is    *)
(* ever negative, whatever is funded, reserved and released.               *)
THEOREM LedgerTypeCorrect == Spec => []TypeOK
<1>1. Init => TypeOK
  BY InitType
<1>2. TypeOK /\ [Next]_database => TypeOK'
  BY NextType
<1> QED
  BY <1>1, <1>2, PTL DEF Spec

-----------------------------------------------------------------------------
(* Keys.  An order's key is that of a ledger transaction, which is what    *)
(* keeps a second order from having it.                                    *)

OrdersArePosted ==
    \A n \in DOMAIN orders :
        ledger_idempotency_key(orders[n].user, orders[n].key) \in PostedKeys

KeysInv == TypeOK /\ KeysSpentOnce /\ OrdersArePosted

LEMMA PostedGrows ==
    ASSUME TypeOK, NEW t \in LedgerTransaction, ledger' = Append(ledger, t)
    PROVE  PostedKeys' = PostedKeys \cup {t.key}
<1>1. /\ DOMAIN ledger' = DOMAIN ledger \cup {Len(ledger) + 1}
      /\ ledger'[Len(ledger) + 1] = t
      /\ \A i \in DOMAIN ledger : ledger'[i] = ledger[i]
  BY Appending DEF TypeOK
<1> QED
  BY <1>1 DEF PostedKeys

(* A transaction whose key is new, or has none, spends no key again.       *)
LEMMA PostingKeepsKeys ==
    ASSUME KeysInv, NEW t \in LedgerTransaction, ledger' = Append(ledger, t),
           t.key = NoKey \/ t.key \notin PostedKeys
    PROVE  \A i, j \in DOMAIN ledger' :
               ledger'[i].key = ledger'[j].key /\ ledger'[i].key # NoKey => i = j
<1> DEFINE n == Len(ledger) + 1
<1>1. /\ DOMAIN ledger' = DOMAIN ledger \cup {n} /\ n \notin DOMAIN ledger
      /\ ledger'[n] = t
      /\ \A i \in DOMAIN ledger : ledger'[i] = ledger[i]
  BY Appending DEF KeysInv, TypeOK
<1> HIDE DEF n
<1>2. \A i \in DOMAIN ledger : ledger[i].key \in PostedKeys
  BY DEF PostedKeys
<1> QED
  BY <1>1, <1>2 DEF KeysInv, KeysSpentOnce

LEMMA NextKeys == KeysInv /\ [Next]_database => KeysInv'
<1> SUFFICES ASSUME KeysInv, [Next]_database PROVE KeysInv'
  OBVIOUS
<1> USE DEF KeysInv
<1>1. TypeOK'
  BY NextType
<1>2. CASE UNCHANGED database
  BY <1>1, <1>2 DEF database, KeysSpentOnce, OrdersArePosted, PostedKeys
<1>3. ASSUME NEW r \in FundingInputs, Fund(r) PROVE KeysInv'
  <2>1. /\ ledger' = Append(ledger, FundingTransaction(r)) /\ orders' = orders
        /\ FundingTransaction(r).key \notin PostedKeys
    BY <1>3 DEF Fund, FundingTransaction
  <2>2. FundingTransaction(r) \in LedgerTransaction
    BY RequestTypes, FundingRowTypes
  <2>3. PostedKeys \subseteq PostedKeys'
    BY <2>1, <2>2, PostedGrows
  <2>4. OrdersArePosted'
    BY <2>1, <2>3 DEF OrdersArePosted
  <2> QED
    BY <1>1, <2>1, <2>2, <2>4, PostingKeepsKeys DEF KeysSpentOnce
<1>4. ASSUME NEW r \in OrderInputs, Reserve(r) PROVE KeysInv'
  <2> SUFFICES ASSUME NEW o, o = NewOrder(r, Len(ledger) + 1),
                      NEW t, t = ReserveTransaction(r), NEW n, n = Len(orders) + 1
               PROVE  KeysInv'
    OBVIOUS
  <2>1. /\ ledger' = Append(ledger, t) /\ orders' = Append(orders, o)
        /\ t.key = ledger_idempotency_key(r.user, r.key)
        /\ o.user = r.user /\ o.key = r.key
        /\ t.key \notin PostedKeys
    BY <1>4 DEF Reserve, ReserveTransaction, NewOrder
  <2>2. t \in LedgerTransaction /\ o \in Order
    BY RequestTypes, ReserveRowTypes DEF TypeOK
  <2>3. PostedKeys' = PostedKeys \cup {t.key}
    BY <2>1, <2>2, PostedGrows
  <2>4. /\ DOMAIN orders' = DOMAIN orders \cup {n} /\ n \notin DOMAIN orders
        /\ orders'[n] = o /\ \A i \in DOMAIN orders : orders'[i] = orders[i]
    BY <2>1, <2>2, Appending DEF TypeOK
  <2>5. OrdersArePosted'
    BY <2>1, <2>3, <2>4 DEF OrdersArePosted
  <2>6. \A i \in DOMAIN orders : ~(orders[i].user = o.user /\ orders[i].key = o.key)
    BY <2>1 DEF OrdersArePosted
  <2>7. \A i, j \in DOMAIN orders' :
            orders'[i].user = orders'[j].user /\ orders'[i].key = orders'[j].key => i = j
    BY <2>4, <2>6 DEF KeysSpentOnce
  <2> QED
    BY <1>1, <2>1, <2>2, <2>5, <2>7, PostingKeepsKeys DEF KeysSpentOnce
<1>5. ASSUME NEW r \in CancelInputs, Release(r) PROVE KeysInv'
  <2> SUFFICES ASSUME NEW o, o = orders[r.order], NEW t, t = ReleaseTransaction(o)
               PROVE  KeysInv'
    OBVIOUS
  <2>1. /\ r.order \in DOMAIN orders /\ t.key = NoKey
        /\ ledger' = Append(ledger, t)
        /\ orders' = [orders EXCEPT ![r.order].status = "canceled"]
    BY <1>5 DEF Release, ReleaseTransaction
  <2>2. o \in Order /\ t \in LedgerTransaction
    BY <2>1, OrderTypes, ReleaseTypes
  <2>3. /\ DOMAIN orders' = DOMAIN orders
        /\ \A i \in DOMAIN orders : orders'[i].user = orders[i].user
                                    /\ orders'[i].key = orders[i].key
    BY <2>1, Canceling, OrderTypes DEF Order
  <2>4. PostedKeys \subseteq PostedKeys'
    BY <2>1, <2>2, PostedGrows
  <2>5. OrdersArePosted'
    BY <2>3, <2>4 DEF OrdersArePosted
  <2> QED
    BY <1>1, <2>1, <2>2, <2>3, <2>5, PostingKeepsKeys DEF KeysSpentOnce
<1> QED
  BY <1>2, <1>3, <1>4, <1>5 DEF Next

LEMMA InitKeys == Init => KeysInv
BY InitType DEF Init, KeysInv, KeysSpentOnce, OrdersArePosted

(* No key is spent twice: not by two fundings, not by two orders, not by a *)
(* funding and an order whose digest it equals.                            *)
THEOREM KeysOnce == Spec => []KeysSpentOnce
<1>1. KeysInv => KeysSpentOnce
  BY DEF KeysInv
<1> QED
  BY <1>1, InitKeys, NextKeys, PTL DEF Spec

-----------------------------------------------------------------------------
(* The outbox.                                                             *)

Told(type, id) == {n \in DOMAIN outbox : event_key(outbox[n]) = <<type, id>>}

StoryTold(id) ==
    \E m \in Nat :
        /\ Told("order.created", id) = {m}
        /\ IF orders[id].status = "canceled"
           THEN \E n \in Nat : m < n /\ Told("order.canceled", id) = {n}
           ELSE Told("order.canceled", id) = {}

OutboxInv ==
    /\ TypeOK
    /\ \A id \in DOMAIN orders : StoryTold(id)
    /\ \A n \in DOMAIN outbox : outbox[n].order \in DOMAIN orders

LEMMA AppendTold ==
    ASSUME TypeOK, NEW e \in OutboxEvent, outbox' = Append(outbox, e)
    PROVE  /\ Len(outbox) + 1 \in Nat
           /\ \A type, id :
                  /\ \A m \in Told(type, id) : m \in Nat /\ m < Len(outbox) + 1
                  /\ Told(type, id)' = IF e.type = type /\ e.order = id
                                       THEN Told(type, id) \cup {Len(outbox) + 1}
                                       ELSE Told(type, id)
           /\ \A n \in DOMAIN outbox' :
                  outbox'[n] = e \/ (n \in DOMAIN outbox /\ outbox'[n] = outbox[n])
<1>1. /\ Len(outbox) \in Nat /\ DOMAIN outbox = 1 .. Len(outbox)
      /\ DOMAIN outbox' = DOMAIN outbox \cup {Len(outbox) + 1}
      /\ outbox'[Len(outbox) + 1] = e
      /\ \A i \in DOMAIN outbox : outbox'[i] = outbox[i]
  BY Appending DEF TypeOK
<1>2. \A type, id : event_key(e) = <<type, id>> <=> e.type = type /\ e.order = id
  BY DEF event_key
<1>3. ASSUME NEW type, NEW id
      PROVE  /\ \A m \in Told(type, id) : m \in Nat /\ m < Len(outbox) + 1
             /\ Told(type, id)' = IF e.type = type /\ e.order = id
                                  THEN Told(type, id) \cup {Len(outbox) + 1}
                                  ELSE Told(type, id)
  <2>1. \A m \in Told(type, id) : m \in Nat /\ m < Len(outbox) + 1
    BY <1>1 DEF Told
  <2>2. \A i \in DOMAIN outbox : event_key(outbox'[i]) = event_key(outbox[i])
    BY <1>1
  <2>3. Told(type, id)' = Told(type, id) \cup
                          {n \in {Len(outbox) + 1} : event_key(e) = <<type, id>>}
    BY <1>1, <2>2 DEF Told
  <2> QED
    BY <1>2, <2>1, <2>3
<1>4. /\ Len(outbox) + 1 \in Nat
      /\ \A n \in DOMAIN outbox' :
             outbox'[n] = e \/ (n \in DOMAIN outbox /\ outbox'[n] = outbox[n])
  BY <1>1
<1> QED
  BY <1>3, <1>4, Zenon

LEMMA NextOutbox == OutboxInv /\ [Next]_database => OutboxInv'
<1> SUFFICES ASSUME OutboxInv, [Next]_database PROVE OutboxInv'
  OBVIOUS
<1> USE DEF OutboxInv
<1>1. TypeOK'
  BY NextType
<1>2. ASSUME UNCHANGED <<orders, outbox>> PROVE OutboxInv'
  BY <1>1, <1>2 DEF StoryTold, Told
<1>3. ASSUME NEW r \in OrderInputs, Reserve(r) PROVE OutboxInv'
  <2> SUFFICES ASSUME NEW o, o = NewOrder(r, Len(ledger) + 1), NEW n, n = Len(orders) + 1,
                      NEW e, e = CreatedEvent(n, r), NEW m, m = Len(outbox) + 1
               PROVE  OutboxInv'
    OBVIOUS
  <2>1. /\ orders' = Append(orders, o) /\ outbox' = Append(outbox, e)
        /\ o.status = "open" /\ e.type = "order.created" /\ e.order = n
    BY <1>3 DEF Reserve, NewOrder, CreatedEvent
  <2>2. o \in Order /\ e \in OutboxEvent
    BY RequestTypes, ReserveRowTypes DEF TypeOK
  <2>3. /\ DOMAIN orders' = DOMAIN orders \cup {n} /\ n \notin DOMAIN orders
        /\ orders'[n] = o /\ \A i \in DOMAIN orders : orders'[i] = orders[i]
    BY <2>1, <2>2, Appending DEF TypeOK
  <2>4. /\ m \in Nat
        /\ \A type, id :
               Told(type, id)' = IF e.type = type /\ e.order = id
                                 THEN Told(type, id) \cup {m} ELSE Told(type, id)
        /\ \A i \in DOMAIN outbox' :
               outbox'[i] = e \/ (i \in DOMAIN outbox /\ outbox'[i] = outbox[i])
    BY <2>1, <2>2, AppendTold
  <2>5. Told("order.created", n) = {} /\ Told("order.canceled", n) = {}
    BY <2>3 DEF Told, event_key
  <2>6. StoryTold(n)'
    BY <2>1, <2>3, <2>4, <2>5 DEF StoryTold
  <2>7. ASSUME NEW id \in DOMAIN orders PROVE StoryTold(id)'
    BY <2>1, <2>3, <2>4, <2>7 DEF StoryTold
  <2>8. \A i \in DOMAIN outbox' : outbox'[i].order \in DOMAIN orders'
    BY <2>1, <2>3, <2>4
  <2> QED
    BY <1>1, <2>3, <2>6, <2>7, <2>8
<1>4. ASSUME NEW r \in CancelInputs, Release(r) PROVE OutboxInv'
  <2> SUFFICES ASSUME NEW n, n = r.order, NEW e, e = CanceledEvent(n, orders[n]),
                      NEW m, m = Len(outbox) + 1
               PROVE  OutboxInv'
    OBVIOUS
  <2>1. /\ n \in DOMAIN orders /\ orders[n].status = "open"
        /\ orders' = [orders EXCEPT ![n].status = "canceled"]
        /\ outbox' = Append(outbox, e)
        /\ e.type = "order.canceled" /\ e.order = n
    BY <1>4 DEF Release, CanceledEvent
  <2>2. orders[n] \in Order /\ e \in OutboxEvent
    BY <2>1, OrderTypes, ReleaseTypes
  <2>3. /\ DOMAIN orders' = DOMAIN orders /\ orders'[n].status = "canceled"
        /\ \A i \in DOMAIN orders \ {n} : orders'[i] = orders[i]
    BY <2>1, <2>2, Canceling DEF Order
  <2>4. /\ m \in Nat
        /\ \A type, id :
               /\ \A i \in Told(type, id) : i \in Nat /\ i < m
               /\ Told(type, id)' = IF e.type = type /\ e.order = id
                                    THEN Told(type, id) \cup {m} ELSE Told(type, id)
        /\ \A i \in DOMAIN outbox' :
               outbox'[i] = e \/ (i \in DOMAIN outbox /\ outbox'[i] = outbox[i])
    BY <2>1, <2>2, AppendTold
  <2>5. StoryTold(n)'
    <3>1. PICK k \in Nat : Told("order.created", n) = {k} /\ Told("order.canceled", n) = {}
      BY <2>1 DEF StoryTold
    <3>2. /\ Told("order.created", n)' = {k} /\ Told("order.canceled", n)' = {m} /\ k < m
      BY <2>1, <2>4, <3>1
    <3> QED
      BY <2>3, <2>4, <3>2 DEF StoryTold
  <2>6. ASSUME NEW id \in DOMAIN orders \ {n} PROVE StoryTold(id)'
    BY <2>1, <2>3, <2>4, <2>6 DEF StoryTold
  <2>7. \A i \in DOMAIN outbox' : outbox'[i].order \in DOMAIN orders'
    BY <2>1, <2>3, <2>4
  <2> QED
    BY <1>1, <2>3, <2>5, <2>6, <2>7
<1> QED
  BY <1>2, <1>3, <1>4 DEF Next, Fund, database

(* Each order's story is told once and in order, however many orders are   *)
(* created and canceled.                                                   *)
THEOREM OutboxTellsAll == Spec => []OutboxTellsOrders
<1>1. Init => OutboxInv
  BY InitType DEF Init, OutboxInv
<1>2. OutboxInv /\ [Next]_database => OutboxInv'
  BY NextOutbox
<1>3. OutboxInv => OutboxTellsOrders
  <2> SUFFICES ASSUME OutboxInv, NEW id \in DOMAIN orders
               PROVE  /\ Cardinality(Told("order.created", id)) = 1
                      /\ Cardinality(Told("order.canceled", id))
                           = IF orders[id].status = "canceled" THEN 1 ELSE 0
                      /\ \A m \in Told("order.created", id),
                            n \in Told("order.canceled", id) : m < n
    BY DEF OutboxTellsOrders, OutboxInv, Told
  <2>1. PICK m \in Nat :
            /\ Told("order.created", id) = {m}
            /\ IF orders[id].status = "canceled"
               THEN \E n \in Nat : m < n /\ Told("order.canceled", id) = {n}
               ELSE Told("order.canceled", id) = {}
    BY DEF OutboxInv, StoryTold
  <2>2. /\ \A x : Cardinality({x}) = 1
        /\ Cardinality({}) = 0
    BY FS_Singleton, FS_EmptySet
  <2> QED
    BY <2>1, <2>2
<1> QED
  BY <1>1, <1>2, <1>3, PTL DEF Spec

-----------------------------------------------------------------------------
(* Sums over the tables.  Of each there is a row: what a ledger            *)
(* transaction posts to a bucket, what an order keeps reserved, and        *)
(* whether its amount was half way between two units, or no whole number   *)
(* of them.                                                                *)

Posting(t, w, bucket) ==
    (IF t.credit.wallet = w /\ t.credit.bucket = bucket THEN t.credit.amount ELSE 0)
    -
    (IF t.debit.wallet = w /\ t.debit.bucket = bucket THEN t.debit.amount ELSE 0)

Keeping(o, w)    == IF ReserveWallet(o) = w /\ o.status = "open" THEN o.reserved ELSE 0
Tying(o, w)      == Unit(ReserveWallet(o) = w /\ IsTie(reserved_amount(o)))
Rounding(o, w)   == Unit(ReserveWallet(o) = w /\ IsInexact(reserved_amount(o)))
TyingOf(o, a)    == Unit(reserve_asset(o) = a /\ IsTie(reserved_amount(o)))
RoundingOf(o, a) == Unit(reserve_asset(o) = a /\ IsInexact(reserved_amount(o)))

(* The rows of an order in the sums over the table, by the sum's name.     *)
OrderRow(sum, o, x) ==
    IF sum = "OpenReservations" THEN Keeping(o, x)
    ELSE IF sum = "Ties" THEN Tying(o, x)
    ELSE IF sum = "Inexact" THEN Rounding(o, x)
    ELSE IF sum = "TiesOf" THEN TyingOf(o, x)
    ELSE RoundingOf(o, x)

OrderSum(sum, x) == SumOf([i \in DOMAIN orders |-> OrderRow(sum, orders[i], x)])

LEMMA OrderSums ==
    /\ \A w : /\ OpenReservations(w) = OrderSum("OpenReservations", w)
              /\ Ties(w) = OrderSum("Ties", w)
              /\ Inexact(w) = OrderSum("Inexact", w)
    /\ \A a : /\ TiesOf(a) = OrderSum("TiesOf", a)
              /\ InexactOf(a) = OrderSum("InexactOf", a)
    /\ \A w : /\ OpenReservations(w)' = OrderSum("OpenReservations", w)'
              /\ Ties(w)' = OrderSum("Ties", w)'
              /\ Inexact(w)' = OrderSum("Inexact", w)'
    /\ \A a : /\ TiesOf(a)' = OrderSum("TiesOf", a)'
              /\ InexactOf(a)' = OrderSum("InexactOf", a)'
BY DEF OpenReservations, Ties, Inexact, TiesOf, InexactOf, OrderSum, OrderRow,
   Keeping, Tying, Rounding, TyingOf, RoundingOf, Unit

LEMMA RowNumbers ==
    /\ \A t \in LedgerTransaction : \A w, bucket : Posting(t, w, bucket) \in Int
    /\ \A o \in Order : \A w : Keeping(o, w) \in Nat
    /\ \A o, x : /\ Tying(o, x) \in {0, 1} /\ Rounding(o, x) \in {0, 1}
                 /\ TyingOf(o, x) \in {0, 1} /\ RoundingOf(o, x) \in {0, 1}
    /\ \A o \in Order : \A sum, x : OrderRow(sum, o, x) \in Nat
<1>1. \A t \in LedgerTransaction : \A w, bucket : Posting(t, w, bucket) \in Int
  BY DEF Posting, LedgerTransaction, LedgerEntry
<1>2. \A o \in Order : \A w : Keeping(o, w) \in Nat
  BY DEF Keeping, Order
<1>3. \A o, x : /\ Tying(o, x) \in {0, 1} /\ Rounding(o, x) \in {0, 1}
                /\ TyingOf(o, x) \in {0, 1} /\ RoundingOf(o, x) \in {0, 1}
  BY DEF Tying, Rounding, TyingOf, RoundingOf, Unit
<1>4. \A o \in Order : \A sum, x : OrderRow(sum, o, x) \in Nat
  BY <1>2, <1>3 DEF OrderRow
<1> QED
  BY <1>1, <1>2, <1>3, <1>4

(* What happens to an order's amount is told by its request already.       *)
LEMMA OrderOfRequest ==
    ASSUME NEW r, NEW n, NEW o, o = NewOrder(r, n)
    PROVE  /\ ReserveWallet(o) = ReserveWallet(r) /\ reserve_asset(o) = reserve_asset(r)
           /\ reserved_amount(o) = reserved_amount(r)
           /\ o.reserved = numeric(reserved_amount(r)) /\ o.status = "open"
           /\ \A x : /\ Tying(o, x) = Tying(r, x) /\ Rounding(o, x) = Rounding(r, x)
                     /\ TyingOf(o, x) = TyingOf(r, x)
                     /\ RoundingOf(o, x) = RoundingOf(r, x)
<1>1. /\ ReserveWallet(o) = ReserveWallet(r) /\ reserve_asset(o) = reserve_asset(r)
      /\ reserved_amount(o) = reserved_amount(r)
      /\ o.reserved = numeric(reserved_amount(r)) /\ o.status = "open"
  BY DEF NewOrder, ReserveWallet, reserve_asset, reserved_amount
<1> QED
  BY <1>1 DEF Tying, Rounding, TyingOf, RoundingOf

LEMMA OrderSumNat ==
    ASSUME TypeOK, NEW sum, NEW x
    PROVE  /\ OrderSum(sum, x) \in Int
           /\ sum # "OpenReservations" =>
                  OrderSum(sum, x) \in Nat /\ OrderSum(sum, x) <= Len(orders)
<1> DEFINE n == Len(orders)
           f == [i \in DOMAIN orders |-> OrderRow(sum, orders[i], x)]
<1>1. /\ n \in Nat /\ DOMAIN orders = 1 .. n
      /\ \A i \in 1 .. n : orders[i] \in Order
  BY DEF TypeOK
<1>2. f \in [1 .. n -> Nat] /\ f \in [1 .. n -> Int]
  BY <1>1, RowNumbers
<1>3. sum # "OpenReservations" => \A i \in 1 .. n : f[i] <= 1
  BY <1>1, RowNumbers DEF OrderRow
<1> HIDE DEF f, n
<1>4. 1 \in Nat /\ 1 * n = n
  BY <1>1
<1>5. SumOf(f) \in Int
  BY <1>1, <1>2, SumInt
<1>6. sum # "OpenReservations" => SumOf(f) \in Nat /\ SumOf(f) <= 1 * n
  BY <1>1, <1>2, <1>3, <1>4, SumMost
<1> QED
  BY <1>4, <1>5, <1>6 DEF OrderSum, f, n

LEMMA PostedInt ==
    ASSUME TypeOK, NEW w, NEW bucket PROVE Posted(w, bucket) \in Int
<1> DEFINE f == [i \in DOMAIN ledger |-> Posting(ledger[i], w, bucket)]
<1>1. Posted(w, bucket) = SumOf(f)
  BY DEF Posted, Posting
<1>2. Len(ledger) \in Nat /\ f \in [1 .. Len(ledger) -> Int]
  BY RowNumbers DEF TypeOK
<1> HIDE DEF f
<1> QED
  BY <1>1, <1>2, SumInt

LEMMA TableSums ==
    TypeOK => \A x : /\ OpenReservations(x) \in Int
                     /\ Ties(x) \in Nat /\ Inexact(x) \in Nat
                     /\ TiesOf(x) \in Nat /\ InexactOf(x) \in Nat
                     /\ InexactOf(x) <= Len(orders)
<1> SUFFICES ASSUME TypeOK, NEW x
             PROVE  /\ OpenReservations(x) \in Int
                    /\ Ties(x) \in Nat /\ Inexact(x) \in Nat
                    /\ TiesOf(x) \in Nat /\ InexactOf(x) \in Nat
                    /\ InexactOf(x) <= Len(orders)
  OBVIOUS
<1>1. /\ OrderSum("OpenReservations", x) \in Int
      /\ OrderSum("Ties", x) \in Nat /\ OrderSum("Inexact", x) \in Nat
      /\ OrderSum("TiesOf", x) \in Nat
      /\ OrderSum("InexactOf", x) \in Nat /\ OrderSum("InexactOf", x) <= Len(orders)
  BY OrderSumNat
<1> QED
  BY <1>1, OrderSums

LEMMA CountsLater ==
    ASSUME TypeOK', NEW a PROVE TiesOf(a)' \in Int /\ InexactOf(a)' \in Int
<1> DEFINE n == Len(orders')
           f == [i \in DOMAIN orders' |-> TyingOf(orders'[i], a)]
           g == [i \in DOMAIN orders' |-> RoundingOf(orders'[i], a)]
<1>1. TiesOf(a)' = SumOf(f) /\ InexactOf(a)' = SumOf(g)
  BY DEF TiesOf, TyingOf, InexactOf, RoundingOf, Unit
<1>2. n \in Nat /\ f \in [1 .. n -> Int] /\ g \in [1 .. n -> Int]
  BY RowNumbers DEF TypeOK
<1> HIDE DEF f, g, n
<1> QED
  BY <1>1, <1>2, SumInt

LEMMA PostedAppends ==
    ASSUME TypeOK, NEW t \in LedgerTransaction, ledger' = Append(ledger, t),
           NEW w, NEW bucket
    PROVE  Posted(w, bucket)' = Posted(w, bucket) + Posting(t, w, bucket)
<1> DEFINE n == Len(ledger)
           f == [i \in DOMAIN ledger |-> Posting(ledger[i], w, bucket)]
           g == [i \in DOMAIN ledger' |-> Posting(ledger'[i], w, bucket)]
<1>1. Posted(w, bucket) = SumOf(f) /\ Posted(w, bucket)' = SumOf(g)
  BY DEF Posted, Posting
<1>2. /\ n \in Nat /\ DOMAIN ledger = 1 .. n /\ DOMAIN ledger' = 1 .. n + 1
      /\ ledger'[n + 1] = t
      /\ \A i \in 1 .. n : ledger'[i] = ledger[i] /\ ledger[i] \in LedgerTransaction
  BY DEF TypeOK
<1>3. /\ f \in [1 .. n -> Int] /\ g \in [1 .. n + 1 -> Int]
      /\ g[n + 1] = Posting(t, w, bucket)
      /\ \A i \in 1 .. n : g[i] = f[i]
  BY <1>2, RowNumbers
<1> HIDE DEF f, g, n
<1> QED
  BY <1>1, <1>2, <1>3, SumAppended

LEMMA OrderSumAppend ==
    ASSUME TypeOK, NEW o \in Order, orders' = Append(orders, o), NEW sum, NEW x
    PROVE  OrderSum(sum, x)' = OrderSum(sum, x) + OrderRow(sum, o, x)
<1> DEFINE n == Len(orders)
           f == [i \in DOMAIN orders |-> OrderRow(sum, orders[i], x)]
           g == [i \in DOMAIN orders' |-> OrderRow(sum, orders'[i], x)]
<1>1. OrderSum(sum, x) = SumOf(f) /\ OrderSum(sum, x)' = SumOf(g)
  BY DEF OrderSum
<1>2. /\ n \in Nat /\ DOMAIN orders = 1 .. n /\ DOMAIN orders' = 1 .. n + 1
      /\ orders'[n + 1] = o
      /\ \A i \in 1 .. n : orders'[i] = orders[i] /\ orders[i] \in Order
  BY DEF TypeOK
<1>3. /\ f \in [1 .. n -> Int] /\ g \in [1 .. n + 1 -> Int]
      /\ g[n + 1] = OrderRow(sum, o, x)
      /\ \A i \in 1 .. n : g[i] = f[i]
  BY <1>2, RowNumbers
<1> HIDE DEF f, g, n
<1> QED
  BY <1>1, <1>2, <1>3, SumAppended

LEMMA OrderSumCancel ==
    ASSUME TypeOK, NEW j \in DOMAIN orders,
           orders' = [orders EXCEPT ![j].status = "canceled"], NEW sum, NEW x
    PROVE  OrderSum(sum, x)' = OrderSum(sum, x)
               - (IF sum = "OpenReservations" THEN Keeping(orders[j], x) ELSE 0)
<1> DEFINE n == Len(orders)
           f == [i \in DOMAIN orders |-> OrderRow(sum, orders[i], x)]
           g == [i \in DOMAIN orders' |-> OrderRow(sum, orders'[i], x)]
<1>1. OrderSum(sum, x) = SumOf(f) /\ OrderSum(sum, x)' = SumOf(g)
  BY DEF OrderSum
<1>2. /\ n \in Nat /\ j \in 1 .. n
      /\ DOMAIN orders = 1 .. n /\ DOMAIN orders' = 1 .. n
      /\ orders'[j] = [orders[j] EXCEPT !.status = "canceled"]
      /\ \A i \in 1 .. n : orders[i] \in Order /\ orders'[i] \in Order
      /\ \A i \in (1 .. n) \ {j} : orders'[i] = orders[i]
  <2>1. /\ orders \in Seq(Order) /\ n \in Nat /\ DOMAIN orders = 1 .. n
    BY DEF TypeOK
  <2>2. /\ orders' \in Seq(Order) /\ DOMAIN orders' = 1 .. n
        /\ orders'[j] = [orders[j] EXCEPT !.status = "canceled"]
        /\ \A i \in (1 .. n) \ {j} : orders'[i] = orders[i]
    BY <2>1, Canceling
  <2>3. \A i \in 1 .. n : orders[i] \in Order /\ orders'[i] \in Order
    BY <2>1, <2>2
  <2> QED
    BY <2>1, <2>2, <2>3
<1>3. OrderRow(sum, orders'[j], x)
          = IF sum = "OpenReservations" THEN 0 ELSE OrderRow(sum, orders[j], x)
  <2>1. /\ orders'[j].status = "canceled"
        /\ ReserveWallet(orders'[j]) = ReserveWallet(orders[j])
        /\ reserve_asset(orders'[j]) = reserve_asset(orders[j])
        /\ reserved_amount(orders'[j]) = reserved_amount(orders[j])
    BY <1>2 DEF Order, ReserveWallet, reserve_asset, reserved_amount
  <2> QED
    BY <2>1 DEF OrderRow, Keeping, Tying, Rounding, TyingOf, RoundingOf
<1>4. /\ f \in [1 .. n -> Int] /\ g \in [1 .. n -> Int]
      /\ f[j] = OrderRow(sum, orders[j], x) /\ g[j] = OrderRow(sum, orders'[j], x)
      /\ f[j] \in Int
      /\ \A i \in 1 .. n : i # j => g[i] = f[i]
  BY <1>2, RowNumbers
<1>5. OrderRow("OpenReservations", orders[j], x) = Keeping(orders[j], x)
  BY DEF OrderRow
<1> HIDE DEF f, g, n
<1>6. SumOf(f) \in Int
  BY <1>2, <1>4, SumInt
<1>7. SumOf(g) = SumOf(f) - f[j] + g[j]
  <2>1. n \in Nat /\ j \in 1 .. n
    BY <1>2
  <2> QED
    BY <1>4, <2>1, SumUpdated
<1> QED
  BY <1>1, <1>3, <1>4, <1>5, <1>6, <1>7

LEMMA OrderSumsAppend ==
    ASSUME TypeOK, NEW o \in Order, orders' = Append(orders, o), NEW x
    PROVE  /\ OpenReservations(x)' = OpenReservations(x) + Keeping(o, x)
           /\ Ties(x)' = Ties(x) + Tying(o, x)
           /\ Inexact(x)' = Inexact(x) + Rounding(o, x)
           /\ TiesOf(x)' = TiesOf(x) + TyingOf(o, x)
           /\ InexactOf(x)' = InexactOf(x) + RoundingOf(o, x)
<1>1. \A sum : OrderSum(sum, x)' = OrderSum(sum, x) + OrderRow(sum, o, x)
  BY OrderSumAppend
<1> QED
  BY <1>1, OrderSums DEF OrderRow

LEMMA OrderSumsCancel ==
    ASSUME TypeOK, NEW j \in DOMAIN orders,
           orders' = [orders EXCEPT ![j].status = "canceled"], NEW x
    PROVE  /\ OpenReservations(x)' = OpenReservations(x) - Keeping(orders[j], x)
           /\ Ties(x)' = Ties(x) /\ Inexact(x)' = Inexact(x)
           /\ TiesOf(x)' = TiesOf(x) /\ InexactOf(x)' = InexactOf(x)
<1>1. \A sum : /\ OrderSum(sum, x) \in Int
               /\ OrderSum(sum, x)' = OrderSum(sum, x)
                      - (IF sum = "OpenReservations" THEN Keeping(orders[j], x) ELSE 0)
  BY OrderSumCancel, OrderSumNat
<1> QED
  BY <1>1, OrderSums

LEMMA OrderSumsStay ==
    ASSUME orders' = orders, NEW x
    PROVE  /\ OpenReservations(x)' = OpenReservations(x)
           /\ Ties(x)' = Ties(x) /\ Inexact(x)' = Inexact(x)
           /\ TiesOf(x)' = TiesOf(x) /\ InexactOf(x)' = InexactOf(x)
BY DEF OpenReservations, Ties, Inexact, TiesOf, InexactOf

(* Of an empty table every sum is zero. *)
LEMMA InitSums ==
    ASSUME Init, NEW x, NEW bucket
    PROVE  /\ Posted(x, bucket) = 0 /\ OpenReservations(x) = 0
           /\ Ties(x) = 0 /\ Inexact(x) = 0 /\ TiesOf(x) = 0 /\ InexactOf(x) = 0
<1>1. DOMAIN ledger = 1 .. 0 /\ DOMAIN orders = 1 .. 0
  BY DEF Init
<1> DEFINE f == [i \in DOMAIN ledger |-> Posting(ledger[i], x, bucket)]
           g(sum) == [i \in DOMAIN orders |-> OrderRow(sum, orders[i], x)]
<1>2. Posted(x, bucket) = SumOf(f) /\ \A sum : OrderSum(sum, x) = SumOf(g(sum))
  BY DEF Posted, Posting, OrderSum
<1>3. f \in [1 .. 0 -> Int] /\ \A sum : g(sum) \in [1 .. 0 -> Int]
  BY <1>1
<1> HIDE DEF f, g
<1>4. Posted(x, bucket) = 0 /\ \A sum : OrderSum(sum, x) = 0
  BY <1>2, <1>3, SumEmpty
<1> QED
  BY <1>4, OrderSums

-----------------------------------------------------------------------------
(* All that an asset's wallets hold.  The sum over all owners' wallets is  *)
(* one over a list of owners, which exists because there are finitely      *)
(* many.                                                                   *)

Total(row) == row.available + row.locked

LEMMA OwnersListed ==
    /\ Cardinality(Owners) \in Nat
    /\ OwnerList \in [1 .. Cardinality(Owners) -> Owners]
    /\ \A owner \in Owners : \E i \in 1 .. Cardinality(Owners) :
           \A j \in 1 .. Cardinality(Owners) : OwnerList[j] = owner <=> j = i
<1> DEFINE n == Cardinality(Owners)
           Lists(list) == \A owner \in Owners : \E i \in DOMAIN list :
                              \A j \in DOMAIN list : list[j] = owner <=> j = i
<1>1. IsFiniteSet(Owners)
  BY SupplyAssumption, FS_AddElement DEF Owners
<1>2. n \in Nat /\ ExistsBijection(1 .. n, Owners)
  BY <1>1, FS_CardinalityType
<1>3. PICK b : b \in Bijection(1 .. n, Owners)
  BY <1>2 DEF ExistsBijection
<1>4. b \in [1 .. n -> Owners] /\ Lists(b)
  BY <1>3 DEF Bijection, Injection, Surjection, IsInjective
<1>5. \E list \in [1 .. n -> Owners] : Lists(list)
  BY <1>4
<1>6. OwnerList = CHOOSE list \in [1 .. n -> Owners] : Lists(list)
  BY DEF OwnerList
<1> HIDE DEF Lists
<1>7. OwnerList \in [1 .. n -> Owners] /\ Lists(OwnerList)
  BY <1>5, <1>6
<1> QED
  BY <1>2, <1>7 DEF Lists

LEMMA HeldIs ==
    ASSUME NEW a \in Assets, NEW W \in [WalletIds -> Wallet]
    PROVE  /\ \A o \in Owners : /\ <<o, a>> \in WalletIds
                                /\ Total(W[<<o, a>>]) \in Nat
                                /\ Total(W[<<o, a>>]) <= Held(a, W)
           /\ Held(a, W) \in Nat
<1> DEFINE n == Cardinality(Owners)
           f == [i \in DOMAIN OwnerList |->
                    W[<<OwnerList[i], a>>].available + W[<<OwnerList[i], a>>].locked]
<1>1. \A o \in Owners : /\ <<o, a>> \in WalletIds
                        /\ W[<<o, a>>].available + W[<<o, a>>].locked \in Nat
  BY DEF WalletIds, Wallet
<1>2. n \in Nat /\ f \in [1 .. n -> Nat] /\ Held(a, W) = SumOf(f)
  BY <1>1, OwnersListed DEF Held
<1>3. ASSUME NEW o \in Owners
      PROVE  \E k \in 1 .. n : f[k] = Total(W[<<o, a>>])
  <2>1. PICK k \in 1 .. n : OwnerList[k] = o
    BY OwnersListed
  <2> QED
    BY <1>2, <2>1, OwnersListed DEF Total
<1> HIDE DEF n, f
<1>4. ASSUME NEW o \in Owners PROVE Total(W[<<o, a>>]) <= Held(a, W)
  <2>1. PICK k \in 1 .. n : f[k] = Total(W[<<o, a>>])
    BY <1>3
  <2> QED
    BY <1>2, <2>1, SumBounds
<1>5. Held(a, W) \in Nat
  <2>1. PICK k \in 1 .. n : f[k] = Total(W[<<Treasury, a>>])
    BY <1>3 DEF Owners
  <2>2. f[k] <= SumOf(f)
    BY <1>2, SumBounds
  <2>3. SumOf(f) \in Int
    BY <1>2, SumInt
  <2> QED
    BY <1>2, <2>2, <2>3
<1> QED
  BY <1>1, <1>4, <1>5 DEF Total

(* When only one owner's wallet of the asset changes, all that is held     *)
(* changes by as much.                                                     *)
LEMMA HeldChanges ==
    ASSUME NEW a \in Assets, NEW owner \in Owners,
           NEW W \in [WalletIds -> Wallet], NEW V \in [WalletIds -> Wallet],
           \A o \in Owners : o # owner => Total(V[<<o, a>>]) = Total(W[<<o, a>>])
    PROVE  Held(a, V) = Held(a, W) - Total(W[<<owner, a>>]) + Total(V[<<owner, a>>])
<1> DEFINE n == Cardinality(Owners)
           f == [i \in DOMAIN OwnerList |->
                    W[<<OwnerList[i], a>>].available + W[<<OwnerList[i], a>>].locked]
           g == [i \in DOMAIN OwnerList |->
                    V[<<OwnerList[i], a>>].available + V[<<OwnerList[i], a>>].locked]
<1>1. /\ n \in Nat /\ OwnerList \in [1 .. n -> Owners]
      /\ Held(a, W) = SumOf(f) /\ Held(a, V) = SumOf(g)
  BY OwnersListed DEF Held
<1>2. PICK k \in 1 .. n : \A j \in 1 .. n : OwnerList[j] = owner <=> j = k
  BY OwnersListed
<1>3. \A i \in 1 .. n : /\ f[i] = Total(W[<<OwnerList[i], a>>])
                        /\ g[i] = Total(V[<<OwnerList[i], a>>])
  BY <1>1 DEF Total
<1>4. DOMAIN f = 1 .. n /\ DOMAIN g = 1 .. n
  BY <1>1
<1>5. \A i \in 1 .. n : f[i] \in Int /\ g[i] \in Int /\ OwnerList[i] \in Owners
  <2>1. \A i \in 1 .. n : OwnerList[i] \in Owners
    BY <1>1
  <2>2. \A o \in Owners : Total(W[<<o, a>>]) \in Int /\ Total(V[<<o, a>>]) \in Int
    BY HeldIs
  <2> QED
    BY <1>3, <2>1, <2>2
<1>6. f \in [1 .. n -> Int] /\ g \in [1 .. n -> Int]
  BY <1>4, <1>5
<1> HIDE DEF n, f, g
<1>7. \A i \in 1 .. n : i # k => g[i] = f[i]
  BY <1>2, <1>3, <1>5
<1>8. SumOf(g) = SumOf(f) - f[k] + g[k]
  BY <1>1, <1>6, <1>7, SumUpdated
<1>9. f[k] = Total(W[<<owner, a>>]) /\ g[k] = Total(V[<<owner, a>>])
  BY <1>2, <1>3
<1> QED
  BY <1>1, <1>8, <1>9

(* Two wallets hold no more than all. *)
LEMMA HeldPair ==
    ASSUME NEW a \in Assets, NEW W \in [WalletIds -> Wallet],
           NEW o \in Owners, NEW p \in Owners, o # p
    PROVE  Total(W[<<o, a>>]) + Total(W[<<p, a>>]) <= Held(a, W)
<1>1. <<o, a>> \in WalletIds /\ <<p, a>> \in WalletIds /\ NoWallet \in Wallet
      /\ <<o, a>> # <<p, a>>
  BY DEF WalletIds, NoWallet, Wallet
<1> DEFINE V == [W EXCEPT ![<<p, a>>] = NoWallet]
<1>2. /\ V \in [WalletIds -> Wallet]
      /\ V[<<p, a>>] = NoWallet /\ V[<<o, a>>] = W[<<o, a>>]
      /\ \A q \in Owners : q # p => V[<<q, a>>] = W[<<q, a>>]
  BY <1>1
<1> HIDE DEF V
<1>3. Held(a, V) = Held(a, W) - Total(W[<<p, a>>]) + Total(V[<<p, a>>])
  BY <1>2, HeldChanges
<1>4. Total(V[<<p, a>>]) = 0
  BY <1>2 DEF Total, NoWallet
<1>5. /\ Total(W[<<o, a>>]) <= Held(a, V)
      /\ Held(a, V) \in Nat /\ Held(a, W) \in Nat
      /\ Total(W[<<p, a>>]) \in Nat /\ Total(W[<<o, a>>]) \in Nat
  <2>1. Total(V[<<o, a>>]) <= Held(a, V) /\ Held(a, V) \in Nat
    BY <1>2, HeldIs
  <2> QED
    BY <1>2, <2>1, HeldIs
<1> QED
  BY <1>3, <1>4, <1>5

LEMMA SeededType ==
    /\ SeededWallets \in [WalletIds -> Wallet]
    /\ \A w \in WalletIds :
           SeededWallets[w].locked = 0 /\ SeededWallets[w].available \in Nat
<1>1. NoWallet \in Wallet
  BY DEF NoWallet, Wallet
<1>2. SeededWallets \in [WalletIds -> Wallet]
  BY <1>1, SchemaAssumption DEF SeededWallets, WalletIds, Wallet
<1>3. \A w \in WalletIds : SeededWallets[w].locked = 0
  BY DEF SeededWallets, NoWallet, WalletIds
<1> QED
  BY <1>2, <1>3 DEF Wallet

(* At first the treasury holds all there is. *)
LEMMA HeldSeeded ==
    ASSUME NEW a \in Assets
    PROVE  Held(a, SeededWallets) = SeededWallets[TreasuryWallet(a)].available
<1> DEFINE Z == [w \in WalletIds |-> NoWallet]
           n == Cardinality(Owners)
           f == [i \in DOMAIN OwnerList |->
                    Z[<<OwnerList[i], a>>].available + Z[<<OwnerList[i], a>>].locked]
<1>1. Z \in [WalletIds -> Wallet]
  BY DEF NoWallet, Wallet
<1>2. \A o \in Owners : <<o, a>> \in WalletIds /\ Total(Z[<<o, a>>]) = 0
  BY DEF WalletIds, NoWallet, Total
<1>3. /\ n \in Nat /\ Held(a, Z) = SumOf(f)
      /\ f \in [1 .. n -> Nat] /\ \A i \in 1 .. n : f[i] <= 0
  <2>1. n \in Nat /\ OwnerList \in [1 .. n -> Owners]
    BY OwnersListed
  <2>2. DOMAIN f = 1 .. n /\ \A i \in 1 .. n : f[i] = 0
    BY <1>2, <2>1 DEF Total
  <2> QED
    BY <2>1, <2>2 DEF Held
<1> HIDE DEF f, n
<1>4. Held(a, Z) = 0
  <2>1. 0 \in Nat /\ 0 * n = 0
    BY <1>3
  <2>2. SumOf(f) \in Nat /\ SumOf(f) <= 0 * n
    BY <1>3, <2>1, SumMost
  <2> QED
    BY <1>3, <2>1, <2>2
<1>5. \A o \in Owners : o # Treasury => SeededWallets[<<o, a>>] = Z[<<o, a>>]
  BY <1>2 DEF SeededWallets
<1>6. Treasury \in Owners
  BY DEF Owners
<1> HIDE DEF Z
<1>7. Held(a, SeededWallets) = Held(a, Z) - Total(Z[<<Treasury, a>>])
                                   + Total(SeededWallets[<<Treasury, a>>])
  BY <1>1, <1>5, <1>6, SeededType, HeldChanges
<1>8. /\ SeededWallets[<<Treasury, a>>].locked = 0
      /\ SeededWallets[<<Treasury, a>>].available \in Nat
  BY <1>2, <1>6, SeededType
<1> QED
  BY <1>2, <1>4, <1>6, <1>7, <1>8 DEF Total, TreasuryWallet

-----------------------------------------------------------------------------
(* Room.  A key makes one order, an order's rounding one unit: all that an *)
(* asset's wallets hold leaves digits after the unit.                      *)

BalancesFit == \A a \in Assets : Base * Held(a, wallets) < Precision

MoneyInv == KeysInv /\ MoneyIsAccounted

LEMMA OrdersCounted ==
    ASSUME KeysInv
    PROVE  /\ Cardinality(Users \X OrderKeys) \in Nat
           /\ Len(orders) <= Cardinality(Users \X OrderKeys)
<1> DEFINE n == Len(orders)
           S == Users \X OrderKeys
           f == [i \in 1 .. n |-> <<orders[i].user, orders[i].key>>]
<1>1. n \in Nat /\ DOMAIN orders = 1 .. n /\ \A i \in 1 .. n : orders[i] \in Order
  BY DEF KeysInv, TypeOK
<1>2. \A i \in 1 .. n : f[i] \in S
  BY <1>1 DEF Order
<1>3. \A i, j \in 1 .. n : f[i] = f[j] => i = j
  BY <1>1 DEF KeysInv, KeysSpentOnce
<1>4. f \in Injection(1 .. n, S)
  BY <1>2, <1>3 DEF Injection, IsInjective
<1>5. IsFiniteSet(S)
  BY SupplyAssumption, FS_Product
<1> HIDE DEF f
<1>6. Cardinality(1 .. n) <= Cardinality(S)
  BY <1>4, <1>5, FS_Injection
<1>7. Cardinality(1 .. n) = n
  BY <1>1, FS_Interval
<1>8. Cardinality(S) \in Nat
  BY <1>5, FS_CardinalityType
<1> QED
  BY <1>6, <1>7, <1>8

LEMMA MoneyFits == MoneyInv => BalancesFit
<1> SUFFICES ASSUME MoneyInv, NEW a \in Assets
             PROVE  Base * Held(a, wallets) < Precision
  BY DEF BalancesFit
<1> DEFINE seed == SeededWallets[TreasuryWallet(a)].available
           c == Cardinality(Users \X OrderKeys)
<1>1. TypeOK /\ c \in Nat /\ Len(orders) <= c /\ Len(orders) \in Nat
  BY OrdersCounted DEF MoneyInv, KeysInv, TypeOK
<1>2. InexactOf(a) \in Nat /\ InexactOf(a) <= Len(orders) /\ TiesOf(a) \in Nat
  BY <1>1, TableSums
<1>3. Held(a, wallets) \in Nat
  BY <1>1, HeldIs DEF TypeOK
<1>4. seed \in Nat /\ Held(a, SeededWallets) = seed
  <2>1. TreasuryWallet(a) \in WalletIds
    BY DEF TreasuryWallet, WalletIds, Owners
  <2> QED
    BY <2>1, SeededType, HeldSeeded
<1>5. Held(a, wallets) - Held(a, SeededWallets) \in TiesOf(a) .. InexactOf(a)
  BY DEF MoneyInv, MoneyIsAccounted
<1>6. Base * (seed + c) < Precision
  BY SupplyAssumption
<1> HIDE DEF seed, c
<1>7. Held(a, wallets) <= seed + c /\ seed + c \in Nat
  BY <1>1, <1>2, <1>3, <1>4, <1>5
<1> QED
  BY <1>3, <1>6, <1>7, FitsBelow

(* Then any one wallet leaves them, and a user's with the treasury's.      *)
LEMMA OneFits ==
    ASSUME NEW W \in [WalletIds -> Wallet],
           \A a \in Assets : Base * Held(a, W) < Precision, NEW w \in WalletIds
    PROVE  /\ W[w].available \in Nat /\ W[w].locked \in Nat
           /\ Base * (W[w].available + W[w].locked) < Precision
<1>1. W[w].available \in Nat /\ W[w].locked \in Nat
  BY DEF Wallet
<1>2. PICK o \in Owners, a \in Assets : w = <<o, a>>
  BY DEF WalletIds
<1>3. /\ Total(W[w]) <= Held(a, W) /\ Held(a, W) \in Nat /\ Total(W[w]) \in Nat
  BY <1>1, <1>2, HeldIs
<1>4. Base * Total(W[w]) < Precision
  BY <1>3, FitsBelow
<1> QED
  BY <1>1, <1>4 DEF Total

LEMMA WalletsFit ==
    ASSUME TypeOK, BalancesFit
    PROVE  /\ \A w \in WalletIds :
                  Base * (wallets[w].available + wallets[w].locked) < Precision
           /\ \A u \in Users, a \in Assets :
                  Base * (wallets[UserWallet(u, a)].available
                            + wallets[TreasuryWallet(a)].available) < Precision
<1>1. wallets \in [WalletIds -> Wallet]
      /\ \A w \in WalletIds : wallets[w].available \in Nat /\ wallets[w].locked \in Nat
  BY DEF TypeOK, Wallet
<1>2. \A w \in WalletIds : Base * (wallets[w].available + wallets[w].locked) < Precision
  BY <1>1, OneFits DEF BalancesFit
<1>3. ASSUME NEW u \in Users, NEW a \in Assets
      PROVE  Base * (wallets[UserWallet(u, a)].available
                       + wallets[TreasuryWallet(a)].available) < Precision
  <2> SUFFICES ASSUME NEW x \in Nat, x = wallets[UserWallet(u, a)].available,
                      NEW y \in Nat, y = wallets[TreasuryWallet(a)].available
               PROVE  Base * (x + y) < Precision
    BY <1>1 DEF UserWallet, TreasuryWallet, WalletIds, Owners
  <2>1. u \in Owners /\ Treasury \in Owners /\ u # Treasury
    BY SchemaAssumption DEF Owners
  <2>2. /\ <<u, a>> \in WalletIds /\ <<Treasury, a>> \in WalletIds
        /\ wallets[<<u, a>>].locked \in Nat /\ wallets[<<Treasury, a>>].locked \in Nat
    BY <1>1, <2>1 DEF WalletIds
  <2>3. Total(wallets[<<u, a>>]) + Total(wallets[<<Treasury, a>>]) <= Held(a, wallets)
    BY <1>1, <2>1, HeldPair
  <2>4. Held(a, wallets) \in Nat
    BY <1>1, HeldIs
  <2>5. x + y <= Held(a, wallets) /\ x + y \in Nat
    BY <2>2, <2>3, <2>4 DEF Total, UserWallet, TreasuryWallet
  <2> QED
    BY <2>4, <2>5, FitsBelow DEF BalancesFit
<1> QED
  BY <1>2, <1>3

-----------------------------------------------------------------------------
(* What the operations do to each balance, while there is room.  The       *)
(* treasury is no user, so that a funding moves money between two          *)
(* different wallets; the balances of a reservation are rounded, which may *)
(* gain a unit.                                                            *)

LEMMA FundBalances ==
    ASSUME TypeOK, BalancesFit, NEW r \in FundingInputs, Fund(r), NEW w \in WalletIds
    PROVE  /\ wallets'[w].locked = wallets[w].locked
           /\ wallets'[w].available = wallets[w].available
                  + (IF w = UserWallet(r.user, r.asset) THEN r.amount ELSE 0)
                  - (IF w = TreasuryWallet(r.asset) THEN r.amount ELSE 0)
<1> SUFFICES ASSUME NEW t, t = TreasuryWallet(r.asset),
                    NEW u, u = UserWallet(r.user, r.asset)
             PROVE  /\ wallets'[w].locked = wallets[w].locked
                    /\ wallets'[w].available = wallets[w].available
                           + (IF w = u THEN r.amount ELSE 0)
                           - (IF w = t THEN r.amount ELSE 0)
  OBVIOUS
<1>1. /\ t \in WalletIds /\ u \in WalletIds /\ r.amount \in Nat
      /\ r.user \in Users /\ r.asset \in Assets
  BY RequestTypes, FundingRowTypes DEF FundingRequest
<1>2. t # u
  BY RequestTypes, SchemaAssumption DEF TreasuryWallet, UserWallet, FundingRequest
<1>3. /\ wallets' = [wallets EXCEPT ![t].available = minus(@, Fine(r.amount)),
                                    ![u].available = plus(@, Fine(r.amount)),
                                    ![u].exists = TRUE]
      /\ wallets[t].available >= r.amount
  BY DEF Fund
<1>4. wallets \in [WalletIds -> Wallet] /\ wallets[w] \in Wallet
      /\ wallets[t] \in Wallet /\ wallets[u] \in Wallet
  BY <1>1 DEF TypeOK
<1>5. /\ minus(wallets[t].available, Fine(r.amount)) = wallets[t].available - r.amount
      /\ plus(wallets[u].available, Fine(r.amount)) = wallets[u].available + r.amount
  <2> SUFFICES ASSUME NEW x \in Nat, x = wallets[t].available,
                      NEW y \in Nat, y = wallets[u].available
               PROVE  /\ minus(x, Fine(r.amount)) = x - r.amount
                      /\ plus(y, Fine(r.amount)) = y + r.amount
    BY <1>4 DEF Wallet
  <2>1. Base * (y + x) < Precision /\ r.amount <= x
    BY <1>1, <1>3, WalletsFit
  <2>2. Base * x < Precision /\ Base * (y + r.amount) < Precision
    <3>1. x <= y + x /\ y + r.amount <= y + x /\ y + x \in Nat /\ y + r.amount \in Nat
      BY <1>1, <2>1
    <3> QED
      BY <2>1, <3>1, FitsBelow
  <2> QED
    BY <1>1, <2>1, <2>2, ExactSums
<1>6. /\ wallets'[t].available = wallets[t].available - r.amount
      /\ wallets'[t].locked = wallets[t].locked
      /\ wallets'[u].available = wallets[u].available + r.amount
      /\ wallets'[u].locked = wallets[u].locked
      /\ w # t /\ w # u => wallets'[w] = wallets[w]
  BY <1>1, <1>2, <1>3, <1>4, <1>5 DEF Wallet
<1> QED
  BY <1>1, <1>2, <1>4, <1>6 DEF Wallet

LEMMA ReserveRows ==
    ASSUME TypeOK, NEW r \in OrderInputs, Reserve(r)
    PROVE  LET v == ReserveWallet(r)
               x == reserved_amount(r)
           IN  /\ v \in WalletIds /\ x \in Nat /\ numeric(x) \in Nat
               /\ x <= Fine(wallets[v].available)
               /\ wallets'[v].available = minus(wallets[v].available, x)
               /\ wallets'[v].locked = plus(wallets[v].locked, x)
               /\ wallets'[v].exists = wallets[v].exists
               /\ \A w \in WalletIds \ {v} : wallets'[w] = wallets[w]
<1> SUFFICES ASSUME NEW v, v = ReserveWallet(r), NEW x, x = reserved_amount(r)
             PROVE  /\ v \in WalletIds /\ x \in Nat /\ numeric(x) \in Nat
                    /\ x <= Fine(wallets[v].available)
                    /\ wallets'[v].available = minus(wallets[v].available, x)
                    /\ wallets'[v].locked = plus(wallets[v].locked, x)
                    /\ wallets'[v].exists = wallets[v].exists
                    /\ \A w \in WalletIds \ {v} : wallets'[w] = wallets[w]
  OBVIOUS
<1>1. v \in WalletIds /\ x \in Nat /\ numeric(x) \in Nat
  BY RequestTypes, ReserveRowTypes, NumericNat DEF TypeOK
<1>2. /\ wallets' = [wallets EXCEPT ![v].available = minus(@, x),
                                    ![v].locked = plus(@, x)]
      /\ Fine(wallets[v].available) >= x
  BY DEF Reserve
<1>3. /\ wallets \in [WalletIds -> Wallet]
      /\ DOMAIN wallets[v] = {"exists", "available", "locked"}
      /\ wallets[v].available \in Nat
  BY <1>1 DEF TypeOK, Wallet
<1>4. x <= Fine(wallets[v].available)
  BY <1>1, <1>2, <1>3, FineIs
<1> QED
  BY <1>1, <1>2, <1>3, <1>4

LEMMA ReserveBalances ==
    ASSUME TypeOK, BalancesFit, NEW r \in OrderInputs, Reserve(r), NEW w \in WalletIds
    PROVE  \E dl, da \in 0 .. Rounding(r, w) :
               /\ wallets'[w].exists = wallets[w].exists
               /\ wallets'[w].locked = wallets[w].locked + dl
                    + (IF w = ReserveWallet(r) THEN numeric(reserved_amount(r)) ELSE 0)
               /\ wallets'[w].available = wallets[w].available + da
                    - (IF w = ReserveWallet(r) THEN numeric(reserved_amount(r)) ELSE 0)
               /\ dl + da \in Tying(r, w) .. Rounding(r, w)
<1> DEFINE v == ReserveWallet(r)
           x == reserved_amount(r)
           n == numeric(x)
<1>1. /\ v \in WalletIds /\ x \in Nat /\ n \in Nat
      /\ x <= Fine(wallets[v].available)
      /\ wallets'[v].available = minus(wallets[v].available, x)
      /\ wallets'[v].locked = plus(wallets[v].locked, x)
      /\ wallets'[v].exists = wallets[v].exists
      /\ w # v => wallets'[w] = wallets[w]
  BY ReserveRows
<1>2. /\ \A y \in WalletIds : wallets[y].available \in Nat /\ wallets[y].locked \in Nat
      /\ Base * (wallets[v].available + wallets[v].locked) < Precision
  BY <1>1, WalletsFit DEF TypeOK, Wallet
<1>3. CASE w # v
  <2>1. Rounding(r, w) = 0 /\ Tying(r, w) = 0
    BY <1>3 DEF Rounding, Tying, Unit
  <2>2. wallets'[w] = wallets[w] /\ 0 \in 0 .. 0 /\ 0 + 0 \in 0 .. 0
    BY <1>1, <1>3
  <2>3. wallets[w].locked = wallets[w].locked + 0 + 0
        /\ wallets[w].available = wallets[w].available + 0 - 0
    BY <1>2
  <2> QED
    BY <1>3, <2>1, <2>2, <2>3
<1>4. CASE w = v
  <2>1. Rounding(r, w) = Unit(IsInexact(x)) /\ Tying(r, w) = Unit(IsTie(x))
    BY <1>4 DEF Rounding, Tying, Unit
  <2> DEFINE dl == wallets'[v].locked - (wallets[v].locked + n)
             da == wallets'[v].available - (wallets[v].available - n)
  <2>2. /\ dl \in 0 .. Unit(IsInexact(x)) /\ da \in 0 .. Unit(IsInexact(x))
        /\ dl + da \in Unit(IsTie(x)) .. Unit(IsInexact(x))
        /\ wallets'[v].locked \in Nat /\ wallets'[v].available \in Nat
    BY <1>1, <1>2, RoundingDrift
  <2> HIDE DEF x, n
  <2>3. /\ wallets'[v].locked = wallets[v].locked + dl + n
        /\ wallets'[v].available = wallets[v].available + da - n
    BY <1>1, <1>2, <2>2
  <2> HIDE DEF dl, da
  <2> QED
    BY <1>1, <1>4, <2>1, <2>2, <2>3 DEF n, x
<1> QED
  BY <1>3, <1>4

(* What a locked balance gains, against the amount that the event tells.   *)
LEMMA ReserveError ==
    ASSUME TypeOK, BalancesFit, NEW r \in OrderInputs, Reserve(r), NEW w \in WalletIds
    PROVE  LET told  == IF w = ReserveWallet(r) THEN reserved_amount(r) ELSE 0
               error == told - (Fine(wallets'[w].locked) - Fine(wallets[w].locked))
           IN  /\ told \in Nat /\ error \in Int
               /\ -Fine(Rounding(r, w)) <= error
               /\ 2 * error <= Fine(Rounding(r, w))
<1> DEFINE v == ReserveWallet(r)
           x == reserved_amount(r)
<1>1. /\ v \in WalletIds /\ x \in Nat
      /\ x <= Fine(wallets[v].available)
      /\ wallets'[v].locked = plus(wallets[v].locked, x)
      /\ w # v => wallets'[w] = wallets[w]
  BY ReserveRows
<1>2. /\ \A y \in WalletIds : wallets[y].available \in Nat /\ wallets[y].locked \in Nat
      /\ Base * (wallets[v].available + wallets[v].locked) < Precision
  BY <1>1, WalletsFit DEF TypeOK, Wallet
<1>3. CASE w # v
  <2>1. Fine(Rounding(r, w)) = 0
    BY <1>3, FineIs DEF Rounding, Unit
  <2>2. Fine(wallets[w].locked) \in Nat
    BY <1>2, FineIs
  <2> QED
    BY <1>1, <1>3, <2>1, <2>2
<1>4. CASE w = v
  <2>1. Rounding(r, w) = Unit(IsInexact(x))
    BY <1>4 DEF Rounding, Unit
  <2> DEFINE error == x - (Fine(plus(wallets[v].locked, x)) - Fine(wallets[v].locked))
  <2>2. /\ -Fine(Unit(IsInexact(x))) <= error
        /\ 2 * error <= Fine(Unit(IsInexact(x)))
        /\ plus(wallets[v].locked, x) \in Nat
    BY <1>1, <1>2, RoundingDrift
  <2>3. error \in Int
    BY <1>1, <1>2, <2>2, FineIs
  <2> QED
    BY <1>1, <1>4, <2>1, <2>2, <2>3
<1> QED
  BY <1>3, <1>4

LEMMA ReleaseBalances ==
    ASSUME TypeOK, BalancesFit, NEW r \in CancelInputs, Release(r), NEW w \in WalletIds
    PROVE  LET o == orders[r.order]
           IN  /\ wallets'[w].exists = wallets[w].exists
               /\ wallets'[w].locked = wallets[w].locked
                      - (IF w = ReserveWallet(o) THEN o.reserved ELSE 0)
               /\ wallets'[w].available = wallets[w].available
                      + (IF w = ReserveWallet(o) THEN o.reserved ELSE 0)
<1> SUFFICES ASSUME NEW o, o = orders[r.order], NEW v, v = ReserveWallet(o)
             PROVE  /\ wallets'[w].exists = wallets[w].exists
                    /\ wallets'[w].locked = wallets[w].locked
                           - (IF w = v THEN o.reserved ELSE 0)
                    /\ wallets'[w].available = wallets[w].available
                           + (IF w = v THEN o.reserved ELSE 0)
  OBVIOUS
<1>1. /\ r.order \in DOMAIN orders
      /\ wallets[v].locked >= o.reserved
      /\ wallets' = [wallets EXCEPT ![v].locked = minus(@, Fine(o.reserved)),
                                    ![v].available = plus(@, Fine(o.reserved))]
  BY DEF Release
<1>2. v \in WalletIds /\ o.reserved \in Nat
  BY <1>1, OrderTypes, ReleaseTypes
<1>3. /\ wallets \in [WalletIds -> Wallet]
      /\ wallets[w] \in Wallet /\ wallets[v] \in Wallet
  BY <1>2 DEF TypeOK
<1>4. /\ minus(wallets[v].locked, Fine(o.reserved)) = wallets[v].locked - o.reserved
      /\ plus(wallets[v].available, Fine(o.reserved)) = wallets[v].available + o.reserved
  <2> SUFFICES ASSUME NEW x \in Nat, x = wallets[v].available,
                      NEW y \in Nat, y = wallets[v].locked
               PROVE  /\ minus(y, Fine(o.reserved)) = y - o.reserved
                      /\ plus(x, Fine(o.reserved)) = x + o.reserved
    BY <1>3 DEF Wallet
  <2>1. Base * (x + y) < Precision /\ o.reserved <= y
    BY <1>1, <1>2, WalletsFit
  <2>2. Base * y < Precision /\ Base * (x + o.reserved) < Precision
    <3>1. y <= x + y /\ x + o.reserved <= x + y /\ x + y \in Nat /\ x + o.reserved \in Nat
      BY <1>2, <2>1
    <3> QED
      BY <2>1, <3>1, FitsBelow
  <2> QED
    BY <1>2, <2>1, <2>2, ExactSums
<1> QED
  BY <1>1, <1>2, <1>3, <1>4 DEF Wallet

-----------------------------------------------------------------------------
(* Money.                                                                  *)

(* A funding takes from one wallet what it gives to another.               *)
LEMMA FundHeld ==
    ASSUME TypeOK, TypeOK', BalancesFit, NEW r \in FundingInputs, Fund(r),
           NEW a \in Assets
    PROVE  Held(a, wallets') = Held(a, wallets)
<1> DEFINE t == TreasuryWallet(r.asset)
           u == UserWallet(r.user, r.asset)
           V == [w \in WalletIds |-> IF w = t THEN wallets'[w] ELSE wallets[w]]
<1>1. /\ wallets \in [WalletIds -> Wallet] /\ wallets' \in [WalletIds -> Wallet]
      /\ r.user \in Owners /\ Treasury \in Owners /\ r.user # Treasury
      /\ r.amount \in Nat /\ r.asset \in Assets
  BY RequestTypes, SchemaAssumption DEF TypeOK, FundingRequest, Owners
<1>2. t = <<Treasury, r.asset>> /\ u = <<r.user, r.asset>>
  BY DEF TreasuryWallet, UserWallet
<1>3. \A w \in WalletIds :
          Total(wallets'[w]) = Total(wallets[w]) + (IF w = u THEN r.amount ELSE 0)
                                                 - (IF w = t THEN r.amount ELSE 0)
  <2> SUFFICES ASSUME NEW w \in WalletIds
               PROVE  Total(wallets'[w]) = Total(wallets[w])
                          + (IF w = u THEN r.amount ELSE 0)
                          - (IF w = t THEN r.amount ELSE 0)
    OBVIOUS
  <2>1. /\ wallets'[w].locked = wallets[w].locked
        /\ wallets'[w].available = wallets[w].available
               + (IF w = u THEN r.amount ELSE 0) - (IF w = t THEN r.amount ELSE 0)
    BY FundBalances
  <2>2. wallets[w].available \in Int /\ wallets[w].locked \in Int
    BY <1>1 DEF Wallet
  <2> HIDE DEF t, u
  <2> QED
    BY <1>1, <2>1, <2>2 DEF Total
<1>4. V \in [WalletIds -> Wallet]
  BY <1>1
<1>5. \A o \in Owners : <<o, a>> \in WalletIds
  BY DEF WalletIds
<1>6. Held(a, V) = Held(a, wallets) - (IF a = r.asset THEN r.amount ELSE 0)
  <2>1. \A o \in Owners : o # Treasury => Total(V[<<o, a>>]) = Total(wallets[<<o, a>>])
    BY <1>2, <1>5
  <2>2. Held(a, V) = Held(a, wallets) - Total(wallets[<<Treasury, a>>])
                                      + Total(V[<<Treasury, a>>])
    BY <1>1, <1>4, <2>1, HeldChanges
  <2>3. Total(V[<<Treasury, a>>])
            = Total(wallets[<<Treasury, a>>]) - (IF a = r.asset THEN r.amount ELSE 0)
    <3>1. CASE a = r.asset
      <4>1. <<Treasury, a>> = t /\ <<Treasury, a>> # u
        BY <1>1, <1>2, <3>1
      <4>2. V[<<Treasury, a>>] = wallets'[<<Treasury, a>>]
        BY <1>1, <1>5, <4>1
      <4>3. Total(wallets[<<Treasury, a>>]) \in Int
        BY <1>1, HeldIs
      <4> HIDE DEF V, t, u
      <4> QED
        BY <1>1, <1>3, <1>5, <3>1, <4>1, <4>2, <4>3
    <3>2. CASE a # r.asset
      <4>1. V[<<Treasury, a>>] = wallets[<<Treasury, a>>]
        BY <1>1, <1>2, <1>5, <3>2
      <4>2. Total(wallets[<<Treasury, a>>]) \in Int
        BY <1>1, HeldIs
      <4> HIDE DEF V
      <4> QED
        BY <3>2, <4>1, <4>2
    <3> QED
      BY <3>1, <3>2
  <2>4. Held(a, wallets) \in Int /\ Total(wallets[<<Treasury, a>>]) \in Int
    BY <1>1, HeldIs
  <2> HIDE DEF V
  <2> QED
    BY <1>1, <2>2, <2>3, <2>4
<1>7. Held(a, wallets') = Held(a, V) + (IF a = r.asset THEN r.amount ELSE 0)
  <2>1. \A o \in Owners : o # r.user => Total(wallets'[<<o, a>>]) = Total(V[<<o, a>>])
    <3> SUFFICES ASSUME NEW o \in Owners, o # r.user, NEW w, w = <<o, a>>
                 PROVE  Total(wallets'[w]) = Total(V[w])
      OBVIOUS
    <3>1. w \in WalletIds /\ w # u
      BY <1>2, <1>5
    <3>2. CASE w = t
      BY <3>1, <3>2
    <3>3. CASE w # t
      <4>1. V[w] = wallets[w] /\ Total(wallets[w]) \in Int
        BY <1>1, <3>1, <3>3, HeldIs
      <4> HIDE DEF V, t, u
      <4> QED
        BY <1>3, <3>1, <3>3, <4>1
    <3> QED
      BY <3>2, <3>3
  <2>2. Held(a, wallets') = Held(a, V) - Total(V[<<r.user, a>>])
                                       + Total(wallets'[<<r.user, a>>])
    BY <1>1, <1>4, <2>1, HeldChanges
  <2>3. V[<<r.user, a>>] = wallets[<<r.user, a>>] /\ <<r.user, a>> # t
    BY <1>1, <1>2, <1>5
  <2>4. Held(a, V) \in Int /\ Total(wallets[<<r.user, a>>]) \in Int
    BY <1>1, <1>4, HeldIs
  <2>5. <<r.user, a>> \in WalletIds /\ (<<r.user, a>> = u <=> a = r.asset)
    BY <1>1, <1>2, <1>5
  <2> HIDE DEF V, t, u
  <2> QED
    BY <1>1, <1>3, <2>2, <2>3, <2>4, <2>5
<1>8. Held(a, wallets) \in Int
  BY <1>1, HeldIs
<1> HIDE DEF V
<1> QED
  BY <1>1, <1>6, <1>7, <1>8

(* An order or its cancellation changes one user's wallet of one asset.    *)
LEMMA OrderHeld ==
    ASSUME TypeOK, TypeOK', NEW user \in Users, NEW gain \in Int,
           NEW asset \in Assets, NEW a \in Assets,
           \A w \in WalletIds : Total(wallets'[w]) = Total(wallets[w])
                                   + (IF w = <<user, asset>> THEN gain ELSE 0)
    PROVE  Held(a, wallets') = Held(a, wallets) + (IF a = asset THEN gain ELSE 0)
<1>1. /\ wallets \in [WalletIds -> Wallet] /\ wallets' \in [WalletIds -> Wallet]
      /\ user \in Owners
  BY DEF TypeOK, Owners
<1>2. /\ \A o \in Owners : <<o, a>> \in WalletIds /\ Total(wallets[<<o, a>>]) \in Nat
      /\ Held(a, wallets) \in Int
  BY <1>1, HeldIs
<1>3. \A o \in Owners : o # user => Total(wallets'[<<o, a>>]) = Total(wallets[<<o, a>>])
  BY <1>2
<1>4. Held(a, wallets') = Held(a, wallets) - Total(wallets[<<user, a>>])
                                           + Total(wallets'[<<user, a>>])
  BY <1>1, <1>3, HeldChanges
<1>5. Total(wallets'[<<user, a>>])
          = Total(wallets[<<user, a>>]) + (IF a = asset THEN gain ELSE 0)
  <2>1. <<user, a>> = <<user, asset>> <=> a = asset
    OBVIOUS
  <2> QED
    BY <1>1, <1>2, <2>1
<1>6. Total(wallets[<<user, a>>]) \in Int
  BY <1>1, <1>2
<1> QED
  BY <1>2, <1>4, <1>5, <1>6

(* What one operation does to the money: a reservation may make a unit of  *)
(* its asset, and does if its amount is a tie.  Nothing else makes or      *)
(* loses any.                                                              *)
LEMMA NextHeld ==
    ASSUME TypeOK, BalancesFit, [Next]_database, NEW a \in Assets
    PROVE  /\ Held(a, wallets') - Held(a, wallets)
                 \in TiesOf(a)' - TiesOf(a) .. InexactOf(a)' - InexactOf(a)
           /\ \/ Held(a, wallets') = Held(a, wallets)
              \/ \E r \in OrderInputs : IsInexact(reserved_amount(r))
<1>1. TypeOK'
  BY NextType
<1>2. Held(a, wallets) \in Int /\ TiesOf(a) \in Int /\ InexactOf(a) \in Int
  BY HeldIs, TableSums DEF TypeOK
<1>3. ASSUME Held(a, wallets') = Held(a, wallets),
             TiesOf(a)' = TiesOf(a), InexactOf(a)' = InexactOf(a)
      PROVE  Held(a, wallets') - Held(a, wallets)
                 \in TiesOf(a)' - TiesOf(a) .. InexactOf(a)' - InexactOf(a)
  BY <1>2, <1>3
<1>4. CASE UNCHANGED database
  <2>1. wallets' = wallets /\ orders' = orders
    BY <1>4 DEF database
  <2> QED
    BY <1>3, <2>1, OrderSumsStay
<1>5. ASSUME NEW r \in FundingInputs, Fund(r)
      PROVE  /\ Held(a, wallets') = Held(a, wallets)
             /\ TiesOf(a)' = TiesOf(a) /\ InexactOf(a)' = InexactOf(a)
  <2>1. orders' = orders
    BY <1>5 DEF Fund
  <2> QED
    BY <1>1, <1>5, <2>1, FundHeld, OrderSumsStay
<1>6. ASSUME NEW r \in OrderInputs, Reserve(r)
      PROVE  /\ Held(a, wallets') - Held(a, wallets)
                   \in TiesOf(a)' - TiesOf(a) .. InexactOf(a)' - InexactOf(a)
             /\ Held(a, wallets') = Held(a, wallets) \/ IsInexact(reserved_amount(r))
  <2> DEFINE o == NewOrder(r, Len(ledger) + 1)
             asset == reserve_asset(r)
             v == <<r.user, asset>>
             x == reserved_amount(r)
             gain == Total(wallets'[v]) - Total(wallets[v])
  <2>1. /\ o \in Order /\ orders' = Append(orders, o) /\ numeric(x) \in Int
        /\ r.user \in Users /\ asset \in Assets
    <3>1. Len(ledger) + 1 \in Nat /\ r \in OrderCreateRequest
      BY RequestTypes DEF TypeOK
    <3> QED
      BY <1>6, <3>1, ReserveRowTypes, NumericNat
      DEF Reserve, OrderCreateRequest, reserve_asset
  <2>2. /\ TiesOf(a)' = TiesOf(a) + TyingOf(r, a)
        /\ InexactOf(a)' = InexactOf(a) + RoundingOf(r, a)
    BY <2>1, OrderSumsAppend, OrderOfRequest
  <2>3. v = ReserveWallet(r) /\ v \in WalletIds
    BY <2>1 DEF ReserveWallet, UserWallet, WalletIds, Owners
  <2> HIDE DEF o, v
  <2>4. \A w \in WalletIds : wallets[w].available \in Int /\ wallets[w].locked \in Int
    BY DEF TypeOK, Wallet
  <2>5. gain \in Unit(IsTie(x)) .. Unit(IsInexact(x))
    <3>1. Tying(r, v) = Unit(IsTie(x)) /\ Rounding(r, v) = Unit(IsInexact(x))
      BY <2>3 DEF Tying, Rounding, Unit
    <3>2. PICK dl, da \in 0 .. Rounding(r, v) :
              /\ wallets'[v].locked = wallets[v].locked + dl + numeric(x)
              /\ wallets'[v].available = wallets[v].available + da - numeric(x)
              /\ dl + da \in Tying(r, v) .. Rounding(r, v)
      BY <1>6, <2>3, ReserveBalances
    <3>3. dl \in Int /\ da \in Int
      BY <3>2
    <3> HIDE DEF x
    <3>4. gain = dl + da
      BY <2>1, <2>3, <2>4, <3>2, <3>3 DEF Total
    <3> QED
      BY <3>1, <3>2, <3>4
  <2>6. \A w \in WalletIds : Total(wallets'[w]) = Total(wallets[w])
                                  + (IF w = <<r.user, asset>> THEN gain ELSE 0)
    <3> SUFFICES ASSUME NEW w \in WalletIds
                 PROVE  Total(wallets'[w]) = Total(wallets[w])
                                  + (IF w = v THEN gain ELSE 0)
      BY DEF v
    <3>1. /\ Total(wallets[w]) \in Int /\ Total(wallets[v]) \in Int
          /\ Total(wallets'[v]) \in Int
      BY <1>1, <2>3 DEF TypeOK, Wallet, Total
    <3>2. w # v => wallets'[w] = wallets[w]
      BY <1>6, <2>3, ReserveRows
    <3> QED
      BY <3>1, <3>2
  <2>7. gain \in Int /\ Unit(IsTie(x)) \in {0, 1} /\ Unit(IsInexact(x)) \in {0, 1}
    BY <2>5 DEF Unit
  <2> HIDE DEF gain, x
  <2>8. Held(a, wallets') = Held(a, wallets) + (IF a = asset THEN gain ELSE 0)
    BY <1>1, <2>1, <2>6, <2>7, OrderHeld
  <2>9. /\ TyingOf(r, a) = IF a = asset THEN Unit(IsTie(x)) ELSE 0
        /\ RoundingOf(r, a) = IF a = asset THEN Unit(IsInexact(x)) ELSE 0
    BY DEF TyingOf, RoundingOf, Unit, x
  <2> HIDE DEF asset
  <2>10. Held(a, wallets') - Held(a, wallets)
             \in TiesOf(a)' - TiesOf(a) .. InexactOf(a)' - InexactOf(a)
    BY <1>2, <2>2, <2>5, <2>7, <2>8, <2>9
  <2>11. Held(a, wallets') = Held(a, wallets) \/ IsInexact(reserved_amount(r))
    <3> SUFFICES ASSUME ~IsInexact(x) PROVE Held(a, wallets') = Held(a, wallets)
      BY DEF x
    <3>1. gain = 0
      BY <2>5, <2>7 DEF Unit
    <3> QED
      BY <1>2, <2>8, <3>1
  <2> QED
    BY <2>10, <2>11
<1>7. ASSUME NEW r \in CancelInputs, Release(r)
      PROVE  /\ Held(a, wallets') = Held(a, wallets)
             /\ TiesOf(a)' = TiesOf(a) /\ InexactOf(a)' = InexactOf(a)
  <2> DEFINE o == orders[r.order]
  <2>1. /\ r.order \in DOMAIN orders
        /\ orders' = [orders EXCEPT ![r.order].status = "canceled"]
    BY <1>7 DEF Release
  <2>2. /\ o.reserved \in Int /\ o.user \in Users /\ reserve_asset(o) \in Assets
    BY <2>1, OrderTypes DEF Order, reserve_asset
  <2>3. \A w \in WalletIds : Total(wallets'[w]) = Total(wallets[w])
            + (IF w = <<o.user, reserve_asset(o)>> THEN 0 ELSE 0)
    <3> SUFFICES ASSUME NEW w \in WalletIds
                 PROVE  Total(wallets'[w]) = Total(wallets[w])
      BY DEF TypeOK, Wallet, Total
    <3>1. wallets[w].available \in Int /\ wallets[w].locked \in Int
      BY DEF TypeOK, Wallet
    <3> QED
      BY <1>7, <2>2, <3>1, ReleaseBalances DEF Total
  <2>4. Held(a, wallets') = Held(a, wallets) + (IF a = reserve_asset(o) THEN 0 ELSE 0)
    BY <1>1, <2>2, <2>3, OrderHeld
  <2>5. TiesOf(a)' = TiesOf(a) /\ InexactOf(a)' = InexactOf(a)
    BY <2>1, OrderSumsCancel
  <2> HIDE DEF o
  <2> QED
    BY <1>2, <2>4, <2>5
<1> QED
  BY <1>3, <1>4, <1>5, <1>6, <1>7 DEF Next, database

LEMMA InitMoney == Init => MoneyInv
<1> SUFFICES ASSUME Init PROVE MoneyInv
  OBVIOUS
<1>1. KeysInv
  BY InitKeys
<1>2. ASSUME NEW a \in Assets
      PROVE  Held(a, wallets) - Held(a, SeededWallets) \in TiesOf(a) .. InexactOf(a)
  <2>1. wallets = SeededWallets /\ Held(a, SeededWallets) \in Nat
    BY SeededType, HeldIs DEF Init
  <2>2. TiesOf(a) = 0 /\ InexactOf(a) = 0
    BY InitSums
  <2> QED
    BY <2>1, <2>2
<1> QED
  BY <1>1, <1>2 DEF MoneyInv, MoneyIsAccounted

LEMMA NextMoney == MoneyInv /\ [Next]_database => MoneyInv'
<1> SUFFICES ASSUME MoneyInv, [Next]_database PROVE MoneyIsAccounted'
  BY NextKeys DEF MoneyInv
<1> SUFFICES ASSUME NEW a \in Assets
             PROVE  Held(a, wallets') - Held(a, SeededWallets)
                        \in TiesOf(a)' .. InexactOf(a)'
  BY DEF MoneyIsAccounted
<1>1. TypeOK /\ TypeOK' /\ BalancesFit
  BY MoneyFits, NextType DEF MoneyInv, KeysInv
<1>2. Held(a, wallets') - Held(a, wallets)
          \in TiesOf(a)' - TiesOf(a) .. InexactOf(a)' - InexactOf(a)
  BY <1>1, NextHeld
<1>3. Held(a, wallets) - Held(a, SeededWallets) \in TiesOf(a) .. InexactOf(a)
  BY DEF MoneyInv, MoneyIsAccounted
<1>4. /\ Held(a, wallets) \in Int /\ Held(a, wallets') \in Int
      /\ Held(a, SeededWallets) \in Int
      /\ TiesOf(a) \in Int /\ InexactOf(a) \in Int
  BY <1>1, HeldIs, SeededType, TableSums DEF TypeOK
<1>5. TiesOf(a)' \in Int /\ InexactOf(a)' \in Int
  BY <1>1, CountsLater
<1> QED
  BY <1>2, <1>3, <1>4, <1>5

(* However many users fund their wallets, create orders and cancel them,   *)
(* the wallets of an asset hold what its treasury was seeded with, and one *)
(* unit at most for each order whose amount is no whole number of units,   *)
(* one at least for each whose amount is half way between two.             *)
THEOREM MoneyAccounted == Spec => []MoneyIsAccounted
<1>1. MoneyInv => MoneyIsAccounted
  BY DEF MoneyInv
<1> QED
  BY <1>1, InitMoney, NextMoney, PTL DEF Spec

LEMMA BalancesAlwaysFit == Spec => [](TypeOK /\ BalancesFit)
<1>1. MoneyInv => TypeOK /\ BalancesFit
  BY MoneyFits DEF MoneyInv, KeysInv
<1> QED
  BY <1>1, InitMoney, NextMoney, PTL DEF Spec

(* What README.md:11 says of double entry holds of all requests whose      *)
(* amounts are whole numbers of units.                                     *)
THEOREM MoneyStays ==
    ASSUME \A r \in OrderInputs : ~IsInexact(reserved_amount(r))
    PROVE  Spec => []MoneyConserved
<1>1. Init => MoneyConserved
  BY DEF Init, MoneyConserved
<1>2. TypeOK /\ BalancesFit /\ MoneyConserved /\ [Next]_database => MoneyConserved'
  BY NextHeld DEF MoneyConserved
<1> QED
  BY <1>1, <1>2, BalancesAlwaysFit, PTL DEF Spec

-----------------------------------------------------------------------------
(* What the sums say of the balances.                                      *)

Explained(w) ==
    LET locked    == wallets[w].locked - Posted(w, "locked")
        available == wallets[w].available
                       - SeededWallets[w].available - Posted(w, "available")
    IN  /\ locked >= 0 /\ available >= 0
        /\ locked + available \in Ties(w) .. Inexact(w)

BalancesInv == TypeOK /\ LockedCoversOpenOrders /\ LedgerExplainsBalances

(* What one step adds to each, and to the sums, in terms of two gains.     *)
LEMMA BalancesStep ==
    ASSUME BalancesInv, TypeOK', NEW w \in WalletIds,
           NEW dl \in Nat, NEW da \in Nat, NEW ties \in Nat, NEW inexact \in Nat,
           dl + da \in ties .. inexact,
           NEW locked \in Int, NEW available \in Int,
           wallets'[w].locked = wallets[w].locked + locked + dl,
           wallets'[w].available = wallets[w].available + available + da,
           OpenReservations(w)' = OpenReservations(w) + locked,
           Posted(w, "locked")' = Posted(w, "locked") + locked,
           Posted(w, "available")' = Posted(w, "available") + available,
           Ties(w)' = Ties(w) + ties, Inexact(w)' = Inexact(w) + inexact
    PROVE  /\ wallets'[w].locked - OpenReservations(w)' \in 0 .. Inexact(w)'
           /\ Explained(w)'
<1>1. /\ wallets[w].locked \in Int /\ wallets[w].available \in Int
      /\ OpenReservations(w) \in Int /\ Ties(w) \in Int /\ Inexact(w) \in Int
      /\ Posted(w, "locked") \in Int /\ Posted(w, "available") \in Int
      /\ SeededWallets[w].available \in Int
  <2>1. TypeOK
    BY DEF BalancesInv
  <2>2. wallets[w] \in Wallet
    BY <2>1 DEF TypeOK
  <2>3. /\ OpenReservations(w) \in Int /\ Ties(w) \in Int /\ Inexact(w) \in Int
        /\ Posted(w, "locked") \in Int /\ Posted(w, "available") \in Int
    BY <2>1, PostedInt, TableSums
  <2>4. SeededWallets[w].available \in Int
    BY SeededType
  <2> QED
    BY <2>2, <2>3, <2>4 DEF Wallet
<1>2. wallets[w].locked - OpenReservations(w) \in 0 .. Inexact(w)
  BY DEF BalancesInv, LockedCoversOpenOrders
<1>3. /\ wallets[w].locked - Posted(w, "locked") >= 0
      /\ wallets[w].available - SeededWallets[w].available - Posted(w, "available") >= 0
      /\ (wallets[w].locked - Posted(w, "locked"))
           + (wallets[w].available - SeededWallets[w].available - Posted(w, "available"))
             \in Ties(w) .. Inexact(w)
  BY DEF BalancesInv, LedgerExplainsBalances
<1>4. wallets'[w].locked - OpenReservations(w)' \in 0 .. Inexact(w)'
  BY <1>1, <1>2
<1>5. /\ wallets'[w].locked - Posted(w, "locked")'
            = wallets[w].locked - Posted(w, "locked") + dl
      /\ wallets'[w].available - SeededWallets[w].available - Posted(w, "available")'
            = wallets[w].available - SeededWallets[w].available
                - Posted(w, "available") + da
  BY <1>1
<1>6. Explained(w)'
  BY <1>1, <1>3, <1>5 DEF Explained
<1> QED
  BY <1>4, <1>6

LEMMA BalancesNow ==
    ASSUME TypeOK', \A w \in WalletIds :
               /\ wallets'[w].locked - OpenReservations(w)' \in 0 .. Inexact(w)'
               /\ Explained(w)'
    PROVE  BalancesInv'
BY DEF BalancesInv, LockedCoversOpenOrders, LedgerExplainsBalances, Explained

LEMMA InitBalances == Init => BalancesInv
<1> SUFFICES ASSUME Init PROVE BalancesInv
  OBVIOUS
<1>1. TypeOK
  BY InitType
<1> SUFFICES ASSUME NEW w \in WalletIds
             PROVE  /\ wallets[w].locked - OpenReservations(w) \in 0 .. Inexact(w)
                    /\ Explained(w)
  BY <1>1 DEF BalancesInv, LockedCoversOpenOrders, LedgerExplainsBalances, Explained
<1>2. /\ OpenReservations(w) = 0 /\ Ties(w) = 0 /\ Inexact(w) = 0
      /\ Posted(w, "locked") = 0 /\ Posted(w, "available") = 0
  BY InitSums
<1>3. /\ wallets[w].locked = 0
      /\ wallets[w].available = SeededWallets[w].available
      /\ SeededWallets[w].available \in Int
  BY SeededType DEF Init
<1> QED
  BY <1>2, <1>3 DEF Explained

LEMMA FundKeepsBalances ==
    ASSUME BalancesInv, BalancesFit, NEW r \in FundingInputs, Fund(r)
    PROVE  BalancesInv'
<1>1. TypeOK /\ TypeOK'
  BY FundType DEF BalancesInv
<1> SUFFICES ASSUME NEW w \in WalletIds
             PROVE  /\ wallets'[w].locked - OpenReservations(w)' \in 0 .. Inexact(w)'
                    /\ Explained(w)'
  BY <1>1, BalancesNow
<1> DEFINE t == FundingTransaction(r)
<1>2. t \in LedgerTransaction /\ ledger' = Append(ledger, t) /\ orders' = orders
      /\ r.amount \in Nat
  BY RequestTypes, FundingRowTypes DEF Fund
<1>3. /\ Posting(t, w, "locked") = 0
      /\ Posting(t, w, "available")
           = (IF w = UserWallet(r.user, r.asset) THEN r.amount ELSE 0)
             - (IF w = TreasuryWallet(r.asset) THEN r.amount ELSE 0)
  BY DEF Posting, FundingTransaction, Entry
<1> HIDE DEF t
<1>4. /\ Posted(w, "locked")' = Posted(w, "locked") + Posting(t, w, "locked")
      /\ Posted(w, "available")' = Posted(w, "available") + Posting(t, w, "available")
  BY <1>1, <1>2, PostedAppends
<1>5. /\ OpenReservations(w)' = OpenReservations(w)
      /\ Ties(w)' = Ties(w) /\ Inexact(w)' = Inexact(w)
  BY <1>2, OrderSumsStay
<1>6. /\ wallets'[w].locked = wallets[w].locked
      /\ wallets'[w].available = wallets[w].available + Posting(t, w, "available")
  <2>1. wallets[w].available \in Int
    BY <1>1 DEF TypeOK, Wallet
  <2> QED
    BY <1>1, <1>2, <1>3, <2>1, FundBalances
<1>7. /\ wallets[w].locked \in Int /\ wallets[w].available \in Int
      /\ OpenReservations(w) \in Int /\ Ties(w) \in Int /\ Inexact(w) \in Int
      /\ Posting(t, w, "available") \in Int
  BY <1>1, <1>2, TableSums, RowNumbers DEF TypeOK, Wallet
<1>8. /\ 0 \in Nat /\ 0 \in Int /\ 0 + 0 \in 0 .. 0
      /\ wallets'[w].locked = wallets[w].locked + 0 + 0
      /\ wallets'[w].available = wallets[w].available + Posting(t, w, "available") + 0
      /\ OpenReservations(w)' = OpenReservations(w) + 0
      /\ Posted(w, "locked")' = Posted(w, "locked") + 0
      /\ Ties(w)' = Ties(w) + 0 /\ Inexact(w)' = Inexact(w) + 0
  BY <1>3, <1>4, <1>5, <1>6, <1>7
<1> QED
  BY <1>1, <1>4, <1>7, <1>8, BalancesStep

LEMMA ReserveKeepsBalances ==
    ASSUME BalancesInv, BalancesFit, NEW r \in OrderInputs, Reserve(r)
    PROVE  BalancesInv'
<1>1. TypeOK /\ TypeOK'
  BY ReserveType DEF BalancesInv
<1> SUFFICES ASSUME NEW w \in WalletIds
             PROVE  /\ wallets'[w].locked - OpenReservations(w)' \in 0 .. Inexact(w)'
                    /\ Explained(w)'
  BY <1>1, BalancesNow
<1> DEFINE t == ReserveTransaction(r)
           o == NewOrder(r, Len(ledger) + 1)
           n == IF w = ReserveWallet(r) THEN numeric(reserved_amount(r)) ELSE 0
<1>2. /\ t \in LedgerTransaction /\ ledger' = Append(ledger, t)
      /\ o \in Order /\ orders' = Append(orders, o)
      /\ n \in Nat
  <2>1. Len(ledger) + 1 \in Nat
    BY <1>1 DEF TypeOK
  <2>2. r \in OrderCreateRequest
    BY RequestTypes
  <2>3. numeric(reserved_amount(r)) \in Nat
    BY <2>1, <2>2, ReserveRowTypes, NumericNat
  <2> QED
    BY <2>1, <2>2, <2>3, ReserveRowTypes DEF Reserve
<1>3. Posting(t, w, "locked") = n /\ Posting(t, w, "available") = -n
  BY <1>2 DEF Posting, ReserveTransaction, Entry
<1>4. /\ Keeping(o, w) = n
      /\ Tying(o, w) = Tying(r, w) /\ Rounding(o, w) = Rounding(r, w)
  BY OrderOfRequest DEF Keeping
<1> HIDE DEF t, o
<1>5. /\ Posted(w, "locked")' = Posted(w, "locked") + n
      /\ Posted(w, "available")' = Posted(w, "available") + (-n)
  BY <1>1, <1>2, <1>3, PostedAppends
<1>6. /\ OpenReservations(w)' = OpenReservations(w) + n
      /\ Ties(w)' = Ties(w) + Tying(r, w)
      /\ Inexact(w)' = Inexact(w) + Rounding(r, w)
  BY <1>1, <1>2, <1>4, OrderSumsAppend
<1>7. PICK dl, da \in 0 .. Rounding(r, w) :
          /\ wallets'[w].locked = wallets[w].locked + dl + n
          /\ wallets'[w].available = wallets[w].available + da - n
          /\ dl + da \in Tying(r, w) .. Rounding(r, w)
  BY <1>1, ReserveBalances
<1> HIDE DEF n
<1>8. /\ dl \in Nat /\ da \in Nat /\ Tying(r, w) \in Nat /\ Rounding(r, w) \in Nat
      /\ n \in Int /\ -n \in Int
      /\ wallets[w].locked \in Int /\ wallets[w].available \in Int
  <2>1. Tying(r, w) \in {0, 1} /\ Rounding(r, w) \in {0, 1}
    BY RowNumbers
  <2>2. dl \in Nat /\ da \in Nat
    BY <1>7, <2>1
  <2>3. wallets[w] \in Wallet
    BY <1>1 DEF TypeOK
  <2> QED
    BY <1>2, <2>1, <2>2, <2>3 DEF Wallet
<1>9. /\ wallets'[w].locked = wallets[w].locked + n + dl
      /\ wallets'[w].available = wallets[w].available + (-n) + da
  BY <1>7, <1>8
<1> QED
  BY <1>1, <1>5, <1>6, <1>7, <1>8, <1>9, BalancesStep

LEMMA ReleaseKeepsBalances ==
    ASSUME BalancesInv, BalancesFit, NEW r \in CancelInputs, Release(r)
    PROVE  BalancesInv'
<1>1. TypeOK /\ TypeOK'
  BY ReleaseType DEF BalancesInv
<1> SUFFICES ASSUME NEW w \in WalletIds
             PROVE  /\ wallets'[w].locked - OpenReservations(w)' \in 0 .. Inexact(w)'
                    /\ Explained(w)'
  BY <1>1, BalancesNow
<1> DEFINE o == orders[r.order]
           t == ReleaseTransaction(o)
           n == IF w = ReserveWallet(o) THEN o.reserved ELSE 0
<1>2. /\ r.order \in DOMAIN orders /\ o.status = "open"
      /\ orders' = [orders EXCEPT ![r.order].status = "canceled"]
      /\ ledger' = Append(ledger, t)
  BY DEF Release
<1>3. o \in Order /\ n \in Nat /\ t \in LedgerTransaction
  BY <1>1, <1>2, OrderTypes, ReleaseTypes
<1>4. Posting(t, w, "locked") = -n /\ Posting(t, w, "available") = n
  BY <1>3 DEF Posting, ReleaseTransaction, Entry
<1>5. Keeping(o, w) = n
  BY <1>2 DEF Keeping
<1> HIDE DEF t
<1>6. /\ Posted(w, "locked")' = Posted(w, "locked") + (-n)
      /\ Posted(w, "available")' = Posted(w, "available") + n
  BY <1>1, <1>2, <1>3, <1>4, PostedAppends
<1>7. /\ OpenReservations(w)' = OpenReservations(w) - n
      /\ Ties(w)' = Ties(w) /\ Inexact(w)' = Inexact(w)
  BY <1>1, <1>2, <1>5, OrderSumsCancel
<1>8. /\ wallets'[w].locked = wallets[w].locked - n
      /\ wallets'[w].available = wallets[w].available + n
  BY <1>1, ReleaseBalances
<1> HIDE DEF n, o
<1>9. /\ wallets[w].locked \in Int /\ wallets[w].available \in Int
      /\ OpenReservations(w) \in Int /\ Ties(w) \in Int /\ Inexact(w) \in Int
      /\ n \in Int /\ -n \in Int
  BY <1>1, <1>3, TableSums DEF TypeOK, Wallet
<1>10. /\ 0 \in Nat /\ 0 + 0 \in 0 .. 0
       /\ wallets'[w].locked = wallets[w].locked + (-n) + 0
       /\ wallets'[w].available = wallets[w].available + n + 0
       /\ OpenReservations(w)' = OpenReservations(w) + (-n)
       /\ Ties(w)' = Ties(w) + 0 /\ Inexact(w)' = Inexact(w) + 0
  BY <1>7, <1>8, <1>9
<1> QED
  BY <1>1, <1>6, <1>9, <1>10, BalancesStep

LEMMA NextBalances == BalancesInv /\ BalancesFit /\ [Next]_database => BalancesInv'
<1>1. ASSUME BalancesInv, UNCHANGED database PROVE BalancesInv'
  <2>1. /\ \A w : /\ OpenReservations(w)' = OpenReservations(w)
                  /\ Ties(w)' = Ties(w) /\ Inexact(w)' = Inexact(w)
        /\ \A w, bucket : Posted(w, bucket)' = Posted(w, bucket)
    BY <1>1, OrderSumsStay DEF Posted, database
  <2> QED
    BY <1>1, <2>1 DEF BalancesInv, TypeOK, LockedCoversOpenOrders,
       LedgerExplainsBalances, database
<1> QED
  BY <1>1, FundKeepsBalances, ReserveKeepsBalances, ReleaseKeepsBalances DEF Next

LEMMA BalancesKept == Spec => []BalancesInv
<1>1. TypeOK /\ BalancesFit => BalancesFit
  OBVIOUS
<1> QED
  BY <1>1, InitBalances, NextBalances, BalancesAlwaysFit, PTL DEF Spec

(* However many orders are created and canceled, what is locked covers     *)
(* what the open ones reserve, and what stays locked beyond it is one unit *)
(* at most for each order whose amount was no whole number of units.       *)
THEOREM LockedCovers == Spec => []LockedCoversOpenOrders
<1>1. BalancesInv => LockedCoversOpenOrders
  BY DEF BalancesInv
<1> QED
  BY <1>1, BalancesKept, PTL

(* Every balance is what its ledger entries say, but for what the two      *)
(* balances of an order gain in rounding: a unit together at most, only if *)
(* its amount is no whole number of units, and always if it is half way.   *)
THEOREM LedgerExplains == Spec => []LedgerExplainsBalances
<1>1. BalancesInv => LedgerExplainsBalances
  BY DEF BalancesInv
<1> QED
  BY <1>1, BalancesKept, PTL

-----------------------------------------------------------------------------
(* Totals.  While there is room the sum of two balances has all its        *)
(* digits.                                                                 *)

TotalsKept ==
    \A user \in Users :
        LET before == list_wallet_balances(user)
            after  == list_wallet_balances(user)'
        IN  /\ DOMAIN after = DOMAIN before
            /\ \A a \in DOMAIN before :
                   LET w == UserWallet(user, a)
                   IN  \E gain \in Ties(w)' - Ties(w) .. Inexact(w)' - Inexact(w) :
                           after[a].total_balance
                             = before[a].total_balance + Fine(gain)

LEMMA TotalFits ==
    ASSUME NEW W \in [WalletIds -> Wallet],
           \A a \in Assets : Base * Held(a, W) < Precision, NEW w \in WalletIds
    PROVE  context(Fine(W[w].available) + Fine(W[w].locked)) = Fine(Total(W[w]))
<1> SUFFICES ASSUME NEW m \in Nat, NEW n \in Nat, Base * (m + n) < Precision
             PROVE  context(Fine(m) + Fine(n)) = Fine(m + n)
  BY OneFits DEF Total
<1>1. Fine(m + n) = Fine(m) + Fine(n) /\ Fine(m + n) \in Nat /\ m + n \in Nat
  BY FineAdds, FineIs
<1>2. Small(Fine(m + n))
  BY <1>1, SmallSum
<1> QED
  BY <1>1, <1>2, ContextFine

(* It is enough to look at the rows of the wallets. *)
LEMMA TotalsOfRows ==
    ASSUME TypeOK, BalancesFit, TypeOK', BalancesFit',
           \A w \in WalletIds :
               /\ wallets'[w].exists = wallets[w].exists
               /\ \E gain \in Ties(w)' - Ties(w) .. Inexact(w)' - Inexact(w) :
                      Total(wallets'[w]) = Total(wallets[w]) + gain
    PROVE  TotalsKept
<1> SUFFICES ASSUME NEW user \in Users PROVE
             LET before == list_wallet_balances(user)
                 after  == list_wallet_balances(user)'
             IN  /\ DOMAIN after = DOMAIN before
                 /\ \A a \in DOMAIN before :
                        LET w == UserWallet(user, a)
                        IN  \E gain \in Ties(w)' - Ties(w) .. Inexact(w)' - Inexact(w) :
                                after[a].total_balance
                                  = before[a].total_balance + Fine(gain)
  BY DEF TotalsKept
<1> DEFINE before == list_wallet_balances(user)
           after  == list_wallet_balances(user)'
<1>1. \A a \in Assets : UserWallet(user, a) \in WalletIds
  BY DEF UserWallet, WalletIds, Owners
<1>2. /\ wallets \in [WalletIds -> Wallet] /\ wallets' \in [WalletIds -> Wallet]
      /\ \A a \in Assets : Base * Held(a, wallets) < Precision
      /\ \A a \in Assets : Base * Held(a, wallets') < Precision
  BY DEF TypeOK, BalancesFit
<1>3. /\ DOMAIN before = {a \in Assets : wallets[UserWallet(user, a)].exists}
      /\ DOMAIN after = {a \in Assets : wallets'[UserWallet(user, a)].exists}
      /\ \A a \in DOMAIN before : before[a].total_balance
             = context(Fine(wallets[UserWallet(user, a)].available)
                         + Fine(wallets[UserWallet(user, a)].locked))
      /\ \A a \in DOMAIN after : after[a].total_balance
             = context(Fine(wallets'[UserWallet(user, a)].available)
                         + Fine(wallets'[UserWallet(user, a)].locked))
  BY DEF list_wallet_balances
<1> HIDE DEF before, after
<1>4. DOMAIN after = DOMAIN before
  BY <1>1, <1>3
<1>5. ASSUME NEW a \in DOMAIN before, NEW w, w = UserWallet(user, a)
      PROVE  \E gain \in Ties(w)' - Ties(w) .. Inexact(w)' - Inexact(w) :
                 after[a].total_balance = before[a].total_balance + Fine(gain)
  <2>1. w \in WalletIds
    BY <1>1, <1>3, <1>5
  <2>2. /\ before[a].total_balance = Fine(Total(wallets[w]))
        /\ after[a].total_balance = Fine(Total(wallets'[w]))
    BY <1>2, <1>3, <1>4, <1>5, <2>1, TotalFits
  <2>3. PICK gain \in Ties(w)' - Ties(w) .. Inexact(w)' - Inexact(w) :
            Total(wallets'[w]) = Total(wallets[w]) + gain
    BY <2>1
  <2>4. gain \in Int /\ Total(wallets[w]) \in Int
    BY <1>2, <2>1 DEF Wallet, Total
  <2>5. Fine(Total(wallets[w]) + gain) = Fine(Total(wallets[w])) + Fine(gain)
    BY <2>4, FineAdds
  <2> QED
    BY <2>2, <2>3, <2>5
<1> QED
  BY <1>4, <1>5 DEF before, after

LEMMA NextTotals ==
    ASSUME TypeOK, BalancesFit, TypeOK', BalancesFit', Next, orders' # orders
    PROVE  TotalsKept
<1> SUFFICES ASSUME NEW w \in WalletIds
             PROVE  /\ wallets'[w].exists = wallets[w].exists
                    /\ \E gain \in Ties(w)' - Ties(w) .. Inexact(w)' - Inexact(w) :
                           Total(wallets'[w]) = Total(wallets[w]) + gain
  BY TotalsOfRows
<1>1. /\ Ties(w) \in Int /\ Inexact(w) \in Int
      /\ wallets[w].available \in Int /\ wallets[w].locked \in Int
  BY TableSums DEF TypeOK, Wallet
<1>2. ASSUME NEW r \in OrderInputs, Reserve(r)
      PROVE  /\ wallets'[w].exists = wallets[w].exists
             /\ \E gain \in Ties(w)' - Ties(w) .. Inexact(w)' - Inexact(w) :
                    Total(wallets'[w]) = Total(wallets[w]) + gain
  <2> DEFINE o == NewOrder(r, Len(ledger) + 1)
             n == IF w = ReserveWallet(r) THEN numeric(reserved_amount(r)) ELSE 0
  <2>1. o \in Order /\ orders' = Append(orders, o) /\ n \in Int
    <3>1. Len(ledger) + 1 \in Nat /\ r \in OrderCreateRequest
      BY RequestTypes DEF TypeOK
    <3> QED
      BY <1>2, <3>1, ReserveRowTypes, NumericNat DEF Reserve
  <2>2. /\ Ties(w)' = Ties(w) + Tying(r, w)
        /\ Inexact(w)' = Inexact(w) + Rounding(r, w)
        /\ Tying(r, w) \in {0, 1} /\ Rounding(r, w) \in {0, 1}
    BY <2>1, OrderSumsAppend, OrderOfRequest, RowNumbers
  <2>3. /\ wallets'[w].exists = wallets[w].exists
        /\ \E dl, da \in 0 .. Rounding(r, w) :
               /\ wallets'[w].locked = wallets[w].locked + dl + n
               /\ wallets'[w].available = wallets[w].available + da - n
               /\ dl + da \in Tying(r, w) .. Rounding(r, w)
    BY <1>2, ReserveBalances
  <2> HIDE DEF o, n
  <2>4. PICK dl, da \in 0 .. Rounding(r, w) :
            /\ wallets'[w].locked = wallets[w].locked + dl + n
            /\ wallets'[w].available = wallets[w].available + da - n
            /\ dl + da \in Tying(r, w) .. Rounding(r, w)
    BY <2>3
  <2>5. dl \in Int /\ da \in Int
    BY <2>4
  <2>6. Total(wallets'[w]) = Total(wallets[w]) + (dl + da)
    BY <1>1, <2>1, <2>4, <2>5 DEF Total
  <2>7. dl + da \in Ties(w)' - Ties(w) .. Inexact(w)' - Inexact(w)
    BY <1>1, <2>2, <2>4
  <2> QED
    BY <2>3, <2>6, <2>7
<1>3. ASSUME NEW r \in CancelInputs, Release(r)
      PROVE  /\ wallets'[w].exists = wallets[w].exists
             /\ \E gain \in Ties(w)' - Ties(w) .. Inexact(w)' - Inexact(w) :
                    Total(wallets'[w]) = Total(wallets[w]) + gain
  <2> DEFINE o == orders[r.order]
             n == IF w = ReserveWallet(o) THEN o.reserved ELSE 0
  <2>1. /\ r.order \in DOMAIN orders
        /\ orders' = [orders EXCEPT ![r.order].status = "canceled"]
    BY <1>3 DEF Release
  <2>2. n \in Int
    BY <2>1, OrderTypes, ReleaseTypes
  <2>3. Ties(w)' = Ties(w) /\ Inexact(w)' = Inexact(w)
    BY <2>1, OrderSumsCancel
  <2>4. /\ wallets'[w].exists = wallets[w].exists
        /\ wallets'[w].locked = wallets[w].locked - n
        /\ wallets'[w].available = wallets[w].available + n
    BY <1>3, ReleaseBalances
  <2> HIDE DEF n, o
  <2>5. Total(wallets'[w]) = Total(wallets[w]) + 0
    BY <1>1, <2>2, <2>4 DEF Total
  <2>6. 0 \in Ties(w)' - Ties(w) .. Inexact(w)' - Inexact(w)
    BY <1>1, <2>3
  <2> QED
    BY <2>4, <2>5, <2>6
<1> QED
  BY <1>2, <1>3 DEF Next, Fund

(* An order or a cancellation adds or removes no wallet and changes no     *)
(* total that a client reads, but for the unit that an amount which is no  *)
(* whole number of them may gain.                                          *)
THEOREM TotalsStay == Spec => OrdersKeepTotals
<1> DEFINE I == TypeOK /\ BalancesFit
<1>1. I /\ I' /\ [Next]_database => [orders' # orders => TotalsKept]_database
  BY NextTotals DEF database
<1>2. [][orders' # orders => TotalsKept]_database => OrdersKeepTotals
  BY DEF TotalsKept, OrdersKeepTotals
<1>3. Spec => []I
  BY BalancesAlwaysFit
<1> HIDE DEF I
<1> QED
  BY <1>1, <1>2, <1>3, PTL DEF Spec

-----------------------------------------------------------------------------
(* What the events say is locked.                                          *)

(* What one event adds to a consumer's sum. *)
Telling(e, w) ==
    IF ReserveWallet(orders[e.order]) # w THEN 0
    ELSE IF e.type = "order.created" THEN e.reserved ELSE -e.reserved

Error(w) == BelievedLocked(w) - Fine(wallets[w].locked)

ErrorsBounded ==
    \A w \in WalletIds :
        -Fine(Inexact(w)) <= Error(w) /\ 2 * Error(w) <= Fine(Inexact(w))

EventsInv == OutboxInv /\ ErrorsBounded

LEMMA BelievedInt ==
    ASSUME OutboxInv, NEW w PROVE BelievedLocked(w) \in Int
<1> DEFINE f == [n \in DOMAIN outbox |-> Telling(outbox[n], w)]
<1>1. BelievedLocked(w) = SumOf(f)
  BY DEF BelievedLocked, Telling
<1>2. Len(outbox) \in Nat /\ f \in [1 .. Len(outbox) -> Int]
  <2>1. outbox \in Seq(OutboxEvent) /\ DOMAIN outbox = 1 .. Len(outbox)
    BY DEF OutboxInv, TypeOK
  <2>2. ASSUME NEW e \in OutboxEvent PROVE Telling(e, w) \in Int
    <3>1. e.reserved \in Int /\ -e.reserved \in Int
      BY DEF OutboxEvent
    <3> QED
      BY <3>1 DEF Telling
  <2> QED
    BY <2>1, <2>2
<1> HIDE DEF f
<1> QED
  BY <1>1, <1>2, SumInt

LEMMA BelievedAppends ==
    ASSUME OutboxInv, NEW e \in OutboxEvent, outbox' = Append(outbox, e),
           \A k \in DOMAIN orders : ReserveWallet(orders'[k]) = ReserveWallet(orders[k]),
           NEW w
    PROVE  BelievedLocked(w)' = BelievedLocked(w)
               + (IF ReserveWallet(orders'[e.order]) # w THEN 0
                  ELSE IF e.type = "order.created" THEN e.reserved ELSE -e.reserved)
<1> DEFINE n == Len(outbox)
           x == IF ReserveWallet(orders'[e.order]) # w THEN 0
                ELSE IF e.type = "order.created" THEN e.reserved ELSE -e.reserved
           f == [i \in DOMAIN outbox |-> Telling(outbox[i], w)]
           g == [i \in DOMAIN outbox' |-> Telling(outbox[i], w)']
<1>1. BelievedLocked(w) = SumOf(f) /\ BelievedLocked(w)' = SumOf(g)
  BY DEF BelievedLocked, Telling
<1>2. /\ n \in Nat /\ DOMAIN outbox = 1 .. n /\ DOMAIN outbox' = 1 .. n + 1
      /\ outbox'[n + 1] = e /\ e.reserved \in Nat
      /\ \A i \in 1 .. n : /\ outbox'[i] = outbox[i] /\ outbox[i].reserved \in Nat
                           /\ outbox[i].order \in DOMAIN orders
  <2>1. outbox \in Seq(OutboxEvent) /\ \A y \in OutboxEvent : y.reserved \in Nat
    BY DEF OutboxInv, TypeOK, OutboxEvent
  <2>2. \A i \in DOMAIN outbox : outbox[i].order \in DOMAIN orders
    BY DEF OutboxInv
  <2> QED
    BY <2>1, <2>2
<1>3. /\ f \in [1 .. n -> Int] /\ g \in [1 .. n + 1 -> Int]
      /\ g[n + 1] = x
      /\ \A i \in 1 .. n : g[i] = f[i]
  BY <1>2 DEF Telling
<1> HIDE DEF f, g, n, x
<1>4. BelievedLocked(w)' = BelievedLocked(w) + x
  BY <1>1, <1>2, <1>3, SumAppended
<1> QED
  BY <1>4 DEF x

LEMMA ErrorInt ==
    ASSUME OutboxInv, NEW w \in WalletIds
    PROVE  /\ BelievedLocked(w) \in Int /\ wallets[w].locked \in Int
           /\ Fine(wallets[w].locked) \in Int /\ Error(w) \in Int
           /\ Inexact(w) \in Int /\ Fine(Inexact(w)) \in Int
<1>1. TypeOK /\ BelievedLocked(w) \in Int
  BY BelievedInt DEF OutboxInv
<1>2. wallets[w].locked \in Int /\ Inexact(w) \in Int
  BY <1>1, TableSums DEF TypeOK, Wallet
<1>3. Fine(wallets[w].locked) \in Int /\ Fine(Inexact(w)) \in Int
  BY <1>2, FineAdds
<1> QED
  BY <1>1, <1>2, <1>3 DEF Error

LEMMA ReserveKeepsErrors ==
    ASSUME EventsInv, BalancesFit, NEW r \in OrderInputs, Reserve(r)
    PROVE  ErrorsBounded'
<1> SUFFICES ASSUME NEW w \in WalletIds
             PROVE  -Fine(Inexact(w)') <= Error(w)' /\ 2 * Error(w)' <= Fine(Inexact(w)')
  BY DEF ErrorsBounded
<1> DEFINE n == Len(orders) + 1
           o == NewOrder(r, Len(ledger) + 1)
           e == CreatedEvent(n, r)
           x == reserved_amount(r)
<1>1. OutboxInv /\ TypeOK /\ n \in Nat /\ Len(ledger) + 1 \in Nat
      /\ r \in OrderCreateRequest
  BY RequestTypes DEF EventsInv, OutboxInv, TypeOK
<1>2. /\ o \in Order /\ e \in OutboxEvent /\ x \in Nat
      /\ orders' = Append(orders, o) /\ outbox' = Append(outbox, e)
  BY <1>1, ReserveRowTypes DEF Reserve
<1>3. /\ ReserveWallet(o) = ReserveWallet(r) /\ Rounding(o, w) = Rounding(r, w)
      /\ e.type = "order.created" /\ e.order = n /\ e.reserved = x
  BY OrderOfRequest DEF CreatedEvent
<1> HIDE DEF o, e, x
<1>4. /\ orders'[n] = o /\ \A i \in DOMAIN orders : orders'[i] = orders[i]
  BY <1>1, <1>2, Appending DEF TypeOK
<1> HIDE DEF n
<1>5. BelievedLocked(w)' = BelievedLocked(w) + (IF ReserveWallet(r) # w THEN 0 ELSE x)
  <2>1. ReserveWallet(orders'[e.order]) = ReserveWallet(r)
    BY <1>3, <1>4
  <2>2. \A k \in DOMAIN orders : ReserveWallet(orders'[k]) = ReserveWallet(orders[k])
    BY <1>4
  <2> QED
    BY <1>1, <1>2, <1>3, <2>1, <2>2, BelievedAppends
<1>6. Inexact(w)' = Inexact(w) + Rounding(r, w) /\ Rounding(r, w) \in Int
  <2>1. Rounding(r, w) \in {0, 1}
    BY RowNumbers
  <2> QED
    BY <1>1, <1>2, <1>3, <2>1, OrderSumsAppend
<1> DEFINE told  == IF w = ReserveWallet(r) THEN x ELSE 0
           error == told - (Fine(wallets'[w].locked) - Fine(wallets[w].locked))
<1>7. /\ told \in Nat /\ error \in Int
      /\ -Fine(Rounding(r, w)) <= error /\ 2 * error <= Fine(Rounding(r, w))
  BY <1>1, ReserveError DEF x
<1>8. /\ BelievedLocked(w) \in Int /\ Fine(wallets[w].locked) \in Int
      /\ Error(w) \in Int /\ Fine(Inexact(w)) \in Int
  BY <1>1, ErrorInt
<1>9. Fine(wallets'[w].locked) \in Int
  <2>1. wallets'[w].locked \in Int
    BY <1>1, ReserveType DEF TypeOK, Wallet
  <2> QED
    BY <2>1, FineAdds
<1>10. Error(w)' = Error(w) + error
  <2>1. BelievedLocked(w)' = BelievedLocked(w) + told
    BY <1>5
  <2> HIDE DEF told
  <2> QED
    BY <1>7, <1>8, <1>9, <2>1 DEF Error
<1>11. Fine(Inexact(w)') = Fine(Inexact(w)) + Fine(Rounding(r, w))
       /\ Fine(Rounding(r, w)) \in Int
  BY <1>1, <1>6, ErrorInt, FineAdds
<1>12. -Fine(Inexact(w)) <= Error(w) /\ 2 * Error(w) <= Fine(Inexact(w))
  BY DEF EventsInv, ErrorsBounded
<1> HIDE DEF error, told
<1> QED
  BY <1>7, <1>8, <1>10, <1>11, <1>12

LEMMA ReleaseKeepsErrors ==
    ASSUME EventsInv, BalancesFit, NEW r \in CancelInputs, Release(r)
    PROVE  ErrorsBounded'
<1> SUFFICES ASSUME NEW w \in WalletIds
             PROVE  Inexact(w)' = Inexact(w) /\ Error(w)' = Error(w)
  BY DEF EventsInv, ErrorsBounded
<1> DEFINE n == r.order
           o == orders[n]
           e == CanceledEvent(n, o)
<1>1. /\ n \in DOMAIN orders
      /\ orders' = [orders EXCEPT ![n].status = "canceled"]
      /\ outbox' = Append(outbox, e)
  BY DEF Release
<1>2. OutboxInv /\ TypeOK
  BY DEF EventsInv, OutboxInv
<1>3. n \in Nat /\ o \in Order /\ o.reserved \in Nat /\ e \in OutboxEvent
  BY <1>1, <1>2, OrderTypes, ReleaseTypes
<1>4. e.type = "order.canceled" /\ e.order = n /\ e.reserved = Fine(o.reserved)
  BY DEF CanceledEvent
<1>5. \A k \in DOMAIN orders : ReserveWallet(orders'[k]) = ReserveWallet(orders[k])
  <2>1. /\ orders'[n] = [o EXCEPT !.status = "canceled"]
        /\ \A k \in DOMAIN orders \ {n} : orders'[k] = orders[k]
    BY <1>1, <1>2, Canceling
  <2>2. ReserveWallet(orders'[n]) = ReserveWallet(o)
    BY <1>3, <2>1 DEF Order, ReserveWallet, reserve_asset
  <2>3. \A k \in DOMAIN orders : k # n => orders'[k] = orders[k]
    BY <2>1
  <2> QED
    BY <2>2, <2>3
<1> HIDE DEF e
<1>6. BelievedLocked(w)' = BelievedLocked(w)
          + (IF ReserveWallet(o) # w THEN 0 ELSE -Fine(o.reserved))
  BY <1>1, <1>2, <1>3, <1>4, <1>5, BelievedAppends
<1>7. wallets'[w].locked = wallets[w].locked
             - (IF w = ReserveWallet(o) THEN o.reserved ELSE 0)
  BY <1>2, ReleaseBalances
<1>8. Inexact(w)' = Inexact(w)
  BY <1>1, <1>2, OrderSumsCancel
<1>9. Error(w)' = Error(w)
  <2>1. /\ BelievedLocked(w) \in Int /\ wallets[w].locked \in Int
        /\ Fine(wallets[w].locked) \in Int
    BY <1>2, ErrorInt
  <2>2. /\ Fine(o.reserved) \in Int
        /\ Fine(wallets[w].locked - o.reserved)
             = Fine(wallets[w].locked) - Fine(o.reserved)
    <3>1. wallets[w].locked \in Int /\ o.reserved \in Int
      BY <1>3, <2>1
    <3> QED
      BY <3>1, FineAdds
  <2>3. CASE ReserveWallet(o) # w
    BY <1>6, <1>7, <2>1, <2>3 DEF Error
  <2>4. CASE ReserveWallet(o) = w
    BY <1>6, <1>7, <2>1, <2>2, <2>4 DEF Error
  <2> QED
    BY <2>3, <2>4
<1> QED
  BY <1>8, <1>9

LEMMA NextEvents == EventsInv /\ BalancesFit /\ [Next]_database => EventsInv'
<1> SUFFICES ASSUME EventsInv, BalancesFit, [Next]_database PROVE ErrorsBounded'
  BY NextOutbox DEF EventsInv
<1>1. ASSUME UNCHANGED <<orders, outbox>>,
             \A w \in WalletIds : wallets'[w].locked = wallets[w].locked
      PROVE  ErrorsBounded'
  <2>1. \A w : BelievedLocked(w)' = BelievedLocked(w) /\ Inexact(w)' = Inexact(w)
    BY <1>1, OrderSumsStay DEF BelievedLocked
  <2>2. \A w \in WalletIds : Error(w)' = Error(w)
    BY <1>1, <2>1 DEF Error
  <2> QED
    BY <2>1, <2>2 DEF EventsInv, ErrorsBounded
<1>2. CASE UNCHANGED database
  BY <1>1, <1>2 DEF database
<1>3. ASSUME NEW r \in FundingInputs, Fund(r) PROVE ErrorsBounded'
  <2>1. \A w \in WalletIds : wallets'[w].locked = wallets[w].locked
    BY <1>3, FundBalances DEF EventsInv, OutboxInv
  <2> QED
    BY <1>1, <1>3, <2>1 DEF Fund
<1> QED
  BY <1>2, <1>3, ReserveKeepsErrors, ReleaseKeepsErrors DEF Next

LEMMA InitEvents == Init => EventsInv
<1> SUFFICES ASSUME Init PROVE EventsInv
  OBVIOUS
<1>1. OutboxInv
  BY InitType DEF Init, OutboxInv
<1>2. ASSUME NEW w \in WalletIds
      PROVE  -Fine(Inexact(w)) <= Error(w) /\ 2 * Error(w) <= Fine(Inexact(w))
  <2> DEFINE f == [n \in DOMAIN outbox |-> Telling(outbox[n], w)]
  <2>1. BelievedLocked(w) = SumOf(f)
    BY DEF BelievedLocked, Telling
  <2>2. f \in [1 .. 0 -> Int]
    BY DEF Init
  <2> HIDE DEF f
  <2>3. BelievedLocked(w) = 0 /\ wallets[w].locked = 0
    BY <2>1, <2>2, SumEmpty, SeededType DEF Init
  <2>4. Fine(Inexact(w)) = 0 /\ Error(w) = 0
    BY <2>3, InitSums, FineIs DEF Error
  <2> QED
    BY <2>4
<1> QED
  BY <1>1, <1>2 DEF EventsInv, ErrorsBounded

(* A consumer that adds and subtracts what the events tell believes half a *)
(* unit more locked at most, or one less, for each order whose amount is   *)
(* no whole number of units, and is right about all others.                *)
THEOREM EventsExplain == Spec => []EventsExplainLocked
<1>1. EventsInv => EventsExplainLocked
  BY DEF EventsInv, ErrorsBounded, EventsExplainLocked, Error
<1>2. TypeOK /\ BalancesFit => BalancesFit
  OBVIOUS
<1> QED
  BY <1>1, <1>2, InitEvents, NextEvents, BalancesAlwaysFit, PTL DEF Spec

-----------------------------------------------------------------------------
(* A release is never refused for want of locked money: what the wallet of *)
(* an open order has locked is at least that order's reservation, which is *)
(* not nothing.                                                            *)

OpenIsCovered ==
    \A n \in DOMAIN orders :
        orders[n].status = "open" =>
            /\ orders[n].reserved > 0
            /\ wallets[ReserveWallet(orders[n])].locked >= orders[n].reserved

OrdersReserve == \A n \in DOMAIN orders : orders[n].reserved > 0

CoverInv == BalancesInv /\ OrdersReserve

LEMMA NextCover == CoverInv /\ BalancesFit /\ [Next]_database => CoverInv'
<1> SUFFICES ASSUME CoverInv, BalancesFit, [Next]_database PROVE OrdersReserve'
  BY NextBalances DEF CoverInv
<1> USE DEF CoverInv, BalancesInv
<1>1. CASE UNCHANGED orders
  BY <1>1 DEF OrdersReserve
<1>2. ASSUME NEW r \in OrderInputs, Reserve(r) PROVE OrdersReserve'
  <2> DEFINE o == NewOrder(r, Len(ledger) + 1)
  <2>1. orders' = Append(orders, o) /\ o.reserved > 0
    BY <1>2 DEF Reserve, NewOrder
  <2>2. o \in Order
    <3>1. Len(ledger) + 1 \in Nat /\ r \in OrderCreateRequest
      BY RequestTypes DEF TypeOK
    <3> QED
      BY <3>1, ReserveRowTypes
  <2> HIDE DEF o
  <2>3. /\ DOMAIN orders' = DOMAIN orders \cup {Len(orders) + 1}
        /\ orders'[Len(orders) + 1] = o
        /\ \A i \in DOMAIN orders : orders'[i] = orders[i]
    BY <2>1, <2>2, Appending DEF TypeOK
  <2> QED
    BY <2>1, <2>3 DEF OrdersReserve
<1>3. ASSUME NEW r \in CancelInputs, Release(r) PROVE OrdersReserve'
  <2>1. /\ r.order \in DOMAIN orders
        /\ orders' = [orders EXCEPT ![r.order].status = "canceled"]
    BY <1>3 DEF Release
  <2>2. /\ DOMAIN orders' = DOMAIN orders
        /\ \A i \in DOMAIN orders : orders'[i].reserved = orders[i].reserved
    BY <2>1, Canceling, OrderTypes DEF Order
  <2> QED
    BY <2>2 DEF OrdersReserve
<1> QED
  BY <1>1, <1>2, <1>3 DEF Next, Fund, database

(* One reservation is no more than all reservations of the wallet. *)
LEMMA Covered == CoverInv => OpenIsCovered
<1> SUFFICES ASSUME CoverInv, NEW n \in DOMAIN orders, orders[n].status = "open"
             PROVE  wallets[ReserveWallet(orders[n])].locked >= orders[n].reserved
  BY DEF OpenIsCovered, CoverInv, OrdersReserve
<1> DEFINE w == ReserveWallet(orders[n])
           f == [i \in DOMAIN orders |-> Keeping(orders[i], w)]
<1>1. orders[n] \in Order /\ w \in WalletIds
  BY OrderTypes, ReleaseTypes DEF CoverInv, BalancesInv
<1>2. /\ wallets[w].locked - OpenReservations(w) \in 0 .. Inexact(w)
      /\ OpenReservations(w) = SumOf(f)
  BY <1>1 DEF CoverInv, BalancesInv, LockedCoversOpenOrders, OpenReservations, Keeping
<1>3. /\ Len(orders) \in Nat /\ n \in 1 .. Len(orders)
      /\ f \in [1 .. Len(orders) -> Nat]
      /\ f[n] = orders[n].reserved
  <2>1. orders \in Seq(Order)
    BY DEF CoverInv, BalancesInv, TypeOK
  <2>2. f \in [1 .. Len(orders) -> Nat]
    BY <2>1, RowNumbers
  <2>3. f[n] = orders[n].reserved
    BY DEF Keeping
  <2> HIDE DEF f
  <2> QED
    BY <2>1, <2>2, <2>3
<1> HIDE DEF f
<1>4. f[n] <= SumOf(f)
  BY <1>3, SumBounds
<1>5. SumOf(f) \in Int /\ f[n] \in Int /\ wallets[w].locked \in Int
  <2>1. TypeOK
    BY DEF CoverInv, BalancesInv
  <2>2. wallets[w].locked \in Int /\ SumOf(f) \in Int
    BY <1>1, <1>2, <2>1, TableSums DEF TypeOK, Wallet
  <2> QED
    BY <1>3, <2>2
<1> QED
  BY <1>2, <1>3, <1>4, <1>5

(* However the orders of a wallet are created and canceled, each open one  *)
(* can be canceled: the amount to give back is there.                      *)
THEOREM ReleasesAreCovered == Spec => []OpenIsCovered
<1>1. Init => CoverInv
  BY InitBalances DEF Init, CoverInv, OrdersReserve
<1>2. TypeOK /\ BalancesFit => BalancesFit
  OBVIOUS
<1> QED
  BY <1>1, <1>2, NextCover, Covered, BalancesAlwaysFit, PTL DEF Spec

=============================================================================
