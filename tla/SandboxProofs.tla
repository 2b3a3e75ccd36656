--------------------------- MODULE SandboxProofs ----------------------------
(***************************************************************************)
(* The invariant of the API holds for any number of requests, users,       *)
(* assets and keys, and for every Scale.                                   *)
(***************************************************************************)
EXTENDS SandboxInv, SchemaProofs, SequenceTheorems, FiniteSetTheorems

-----------------------------------------------------------------------------
(* The types of the rows and requests. *)

LEMMA FundingTypes ==
    ASSUME NEW r \in FundingRequest
    PROVE  /\ TreasuryWallet(r.asset) \in WalletIds
           /\ UserWallet(r.user, r.asset) \in WalletIds
           /\ FundingTransaction(r) \in LedgerTransaction
           /\ transaction_key(r) \in LedgerKeys
           /\ transaction_key(r) # NoKey
           /\ r.amount \in Nat
BY FundingRowTypes DEF FundingRequest, transaction_key

LEMMA ReserveTypes ==
    ASSUME NEW r \in OrderCreateRequest, NEW n \in Nat
    PROVE  /\ ReserveWallet(r) \in WalletIds
           /\ reserved_amount(r) \in Nat
           /\ ReserveTransaction(r) \in LedgerTransaction
           /\ NewOrder(r, n) \in Order
           /\ CreatedEvent(n, r) \in OutboxEvent
           /\ transaction_key(r) \in LedgerKeys
           /\ transaction_key(r) # NoKey
BY ReserveRowTypes DEF OrderCreateRequest, transaction_key

LEMMA RequestTypes ==
    ASSUME TypeOK, NEW p \in Requests
    PROVE  LET r == request[p]
           IN  \/ r.op = "fund" /\ r \in FundingRequest
               \/ r.op = "create" /\ r \in OrderCreateRequest
               \/ r.op = "cancel" /\ r \in CancelRequest
<1>1. request[p] \in Inputs
  BY DEF TypeOK
<1> QED
  BY <1>1, SchemaAssumption
  DEF Inputs, FundingRequest, OrderCreateRequest, CancelRequest

LEMMA OrderTypes ==
    ASSUME TypeOK, NEW n \in DOMAIN orders
    PROVE  n \in Nat /\ orders[n] \in Order
BY DEF TypeOK

LEMMA LockableTypes ==
    /\ \A w \in WalletIds : WalletRow(w) \in Lockables
    /\ \A n \in Nat : OrderRow(n) \in Lockables
    /\ \A k \in LedgerKeys : KeyClaim(k) \in Lockables
BY DEF WalletRow, OrderRow, KeyClaim, Lockables

-----------------------------------------------------------------------------
(* The invariant holds initially. *)

LEMMA InitInv == Init => Inv
<1> SUFFICES ASSUME Init PROVE Inv
  OBVIOUS
<1>1. NoWallet \in Wallet /\ NothingRead \in [treasury : Wallet, wallet : Wallet]
  BY DEF NoWallet, Wallet, NothingRead
<1>2. SeededWallets \in [WalletIds -> Wallet]
  BY <1>1, SchemaAssumption DEF SeededWallets, WalletIds, Wallet
<1>3. TypeOK
  BY <1>1, <1>2 DEF Init, SessionInit, TypeOK, Labels, Outcomes
<1>4. AbsentIsEmpty
  BY DEF Init, SessionInit, AbsentIsEmpty, SeededWallets
<1>5. LocksExclude /\ Validated
  BY DEF Init, SessionInit, LocksExclude, Validated
<1>6. HoldsItsLocks /\ SeenIsCurrent /\ SeenCovers
  BY DEF Init, SessionInit, HoldsItsLocks, SeenIsCurrent, SeenCovers, NothingRead
<1>7. CanceledOrderIsOpen /\ ClaimedKeyIsUnspent
  BY DEF Init, SessionInit, CanceledOrderIsOpen, ClaimedKeyIsUnspent
<1> QED
  BY <1>3, <1>4, <1>5, <1>6, <1>7 DEF Inv

-----------------------------------------------------------------------------
(* A step that ends a transaction without writing preserves the invariant: *)
(* the request leaves, and nothing changes for the others.                 *)

LEMMA RollbackInv ==
    ASSUME Inv, NEW p \in Requests, NEW outcome \in Outcomes, NEW row \in Nat,
           Rollback(p, outcome, row)
    PROVE  Inv'
<1> USE DEF Rollback, Close, database
<1>1. NothingRead \in [treasury : Wallet, wallet : Wallet]
  BY DEF NoWallet, Wallet, NothingRead
<1>2. TypeOK'
  BY <1>1 DEF Inv, TypeOK, Labels
<1>3. Validated'
  BY DEF Inv, TypeOK, Validated
<1>4. LocksExclude'
  BY DEF Inv, TypeOK, LocksExclude
<1>5. HoldsItsLocks'
  BY DEF Inv, TypeOK, HoldsItsLocks
<1>6. SeenIsCurrent'
  BY DEF Inv, TypeOK, SeenIsCurrent
<1>7. SeenCovers'
  BY DEF Inv, TypeOK, SeenCovers
<1>8. CanceledOrderIsOpen'
  BY DEF Inv, TypeOK, CanceledOrderIsOpen
<1>9. ClaimedKeyIsUnspent' /\ AbsentIsEmpty'
  BY DEF Inv, TypeOK, ClaimedKeyIsUnspent, AbsentIsEmpty, PostedKeys
<1> QED
  BY <1>2, <1>3, <1>4, <1>5, <1>6, <1>7, <1>8, <1>9 DEF Inv

LEMMA RespondInv ==
    ASSUME Inv, NEW p \in Requests, Respond(p)
    PROVE  Inv'
<1> USE DEF Respond, Goto
<1>1. TypeOK'
  BY DEF Inv, TypeOK, Labels
<1>2. Validated' /\ LocksExclude'
  BY DEF Inv, TypeOK, Validated, LocksExclude
<1>3. HoldsItsLocks'
  BY DEF Inv, TypeOK, HoldsItsLocks
<1>4. SeenIsCurrent'
  BY DEF Inv, TypeOK, SeenIsCurrent
<1>5. SeenCovers'
  BY DEF Inv, TypeOK, SeenCovers
<1>6. CanceledOrderIsOpen'
  BY DEF Inv, TypeOK, CanceledOrderIsOpen
<1>7. ClaimedKeyIsUnspent' /\ AbsentIsEmpty'
  BY DEF Inv, TypeOK, ClaimedKeyIsUnspent, AbsentIsEmpty, PostedKeys
<1> QED
  BY <1>1, <1>2, <1>3, <1>4, <1>5, <1>6, <1>7 DEF Inv

-----------------------------------------------------------------------------
(* Funding. *)

LEMMA FundBeginInv ==
    ASSUME Inv, NEW p \in Requests, FundBegin(p)
    PROVE  Inv'
<1> DEFINE r == request[p]
<1>1. CASE \E outcome \in Outcomes, row \in Nat : Rollback(p, outcome, row)
  BY <1>1, RollbackInv
<1>2. CASE /\ At(p, "fund", "start")
           /\ r.amount > 0 /\ active_asset(r.asset)
           /\ Goto(p, "lock_treasury")
           /\ UNCHANGED <<seen, holds>>
  <2> USE <1>2 DEF Goto, At
  <2>1. TypeOK'
    BY DEF Inv, TypeOK, Labels
  <2>2. Validated' /\ LocksExclude'
    BY DEF Inv, TypeOK, Validated, LocksExclude
  <2>3. HoldsItsLocks'
    BY DEF Inv, TypeOK, HoldsItsLocks
  <2>4. SeenIsCurrent' /\ SeenCovers'
    BY DEF Inv, TypeOK, SeenIsCurrent, SeenCovers
  <2>5. CanceledOrderIsOpen' /\ ClaimedKeyIsUnspent' /\ AbsentIsEmpty'
    BY DEF Inv, TypeOK, CanceledOrderIsOpen, ClaimedKeyIsUnspent, AbsentIsEmpty, PostedKeys
  <2> QED
    BY <2>1, <2>2, <2>3, <2>4, <2>5 DEF Inv
<1>3. FundingsOf(r) \subseteq Nat
  BY DEF FundingsOf, Inv, TypeOK
<1> QED
  BY <1>1, <1>2, <1>3
  DEF FundBegin, At, find_funding_replay, Refuse, Replay, Outcomes

LEMMA FundLockTreasuryInv ==
    ASSUME Inv, NEW p \in Requests, FundLockTreasury(p)
    PROVE  Inv'
<1> DEFINE r == request[p]
           t == TreasuryWallet(r.asset)
<1>1. CASE \E outcome \in Outcomes, row \in Nat : Rollback(p, outcome, row)
  BY <1>1, RollbackInv
<1>2. CASE /\ At(p, "fund", "lock_treasury")
           /\ Free(p, WalletRow(t))
           /\ wallets[t].exists /\ wallets[t].available >= r.amount
           /\ LockWallet(p, "treasury", t)
           /\ Goto(p, "lock_wallet")
  <2> USE <1>2 DEF Goto, LockWallet, Hold, At
  <2>1. r \in FundingRequest /\ t \in WalletIds /\ WalletRow(t) \in Lockables
    BY RequestTypes, FundingTypes, LockableTypes DEF Inv
  <2>2. TypeOK'
    BY <2>1 DEF Inv, TypeOK, Labels
  <2>3. Validated'
    BY DEF Inv, TypeOK, Validated
  <2>4. LocksExclude'
    BY DEF Inv, TypeOK, LocksExclude, Free
  <2>5. HoldsItsLocks'
    BY DEF Inv, TypeOK, HoldsItsLocks
  <2>6. SeenIsCurrent'
    BY <2>1 DEF Inv, TypeOK, SeenIsCurrent
  <2>7. SeenCovers'
    BY <2>1 DEF Inv, TypeOK, SeenCovers
  <2>8. CanceledOrderIsOpen' /\ ClaimedKeyIsUnspent' /\ AbsentIsEmpty'
    BY DEF Inv, TypeOK, CanceledOrderIsOpen, ClaimedKeyIsUnspent, AbsentIsEmpty, PostedKeys
  <2> QED
    BY <2>2, <2>3, <2>4, <2>5, <2>6, <2>7, <2>8 DEF Inv
<1> QED
  BY <1>1, <1>2 DEF FundLockTreasury, WalletReadable, Refuse, Outcomes

LEMMA FundLockWalletInv ==
    ASSUME Inv, NEW p \in Requests, FundLockWallet(p)
    PROVE  Inv'
<1> DEFINE r == request[p]
           u == UserWallet(r.user, r.asset)
<1> USE DEF Goto, At
<1>1. r \in FundingRequest /\ u \in WalletIds /\ WalletRow(u) \in Lockables
  BY RequestTypes, FundingTypes, LockableTypes DEF Inv, FundLockWallet
<1>2. CASE /\ At(p, "fund", "lock_wallet")
           /\ Free(p, WalletRow(u)) /\ wallets[u].exists
           /\ LockWallet(p, "wallet", u)
           /\ Goto(p, "insert_transaction")
  <2> USE <1>1, <1>2 DEF LockWallet, Hold
  <2>1. TypeOK'
    BY DEF Inv, TypeOK, Labels
  <2>2. Validated'
    BY DEF Inv, TypeOK, Validated
  <2>3. LocksExclude'
    BY DEF Inv, TypeOK, LocksExclude, Free
  <2>4. HoldsItsLocks'
    BY DEF Inv, TypeOK, HoldsItsLocks
  <2>5. SeenIsCurrent'
    BY DEF Inv, TypeOK, SeenIsCurrent
  <2>6. SeenCovers'
    BY DEF Inv, TypeOK, SeenCovers
  <2>7. CanceledOrderIsOpen' /\ ClaimedKeyIsUnspent' /\ AbsentIsEmpty'
    BY DEF Inv, TypeOK, CanceledOrderIsOpen, ClaimedKeyIsUnspent, AbsentIsEmpty, PostedKeys
  <2> QED
    BY <2>1, <2>2, <2>3, <2>4, <2>5, <2>6, <2>7 DEF Inv
<1>3. CASE /\ At(p, "fund", "lock_wallet")
           /\ Goto(p, "insert_wallet")
           /\ UNCHANGED <<seen, holds>>
  <2> USE <1>3
  <2>1. TypeOK'
    BY DEF Inv, TypeOK, Labels
  <2>2. Validated' /\ LocksExclude'
    BY DEF Inv, TypeOK, Validated, LocksExclude
  <2>3. HoldsItsLocks'
    BY DEF Inv, TypeOK, HoldsItsLocks
  <2>4. SeenIsCurrent' /\ SeenCovers'
    BY DEF Inv, TypeOK, SeenIsCurrent, SeenCovers
  <2>5. CanceledOrderIsOpen' /\ ClaimedKeyIsUnspent' /\ AbsentIsEmpty'
    BY DEF Inv, TypeOK, CanceledOrderIsOpen, ClaimedKeyIsUnspent, AbsentIsEmpty, PostedKeys
  <2> QED
    BY <2>1, <2>2, <2>3, <2>4, <2>5 DEF Inv
<1> QED
  BY <1>2, <1>3 DEF FundLockWallet, WalletReadable

(* The wallet that is about to be inserted is seen as it is: empty. *)
LEMMA FundInsertWalletInv ==
    ASSUME Inv, NEW p \in Requests, FundInsertWallet(p)
    PROVE  Inv'
<1> DEFINE r == request[p]
           u == UserWallet(r.user, r.asset)
<1>1. CASE \E outcome \in Outcomes, row \in Nat : Rollback(p, outcome, row)
  BY <1>1, RollbackInv
<1>2. CASE /\ At(p, "fund", "insert_wallet")
           /\ Free(p, WalletRow(u)) /\ ~wallets[u].exists
           /\ Hold(p, WalletRow(u))
           /\ Goto(p, "insert_transaction")
           /\ UNCHANGED seen
  <2> USE <1>2 DEF Goto, Hold, At
  <2>1. r \in FundingRequest /\ u \in WalletIds /\ WalletRow(u) \in Lockables
    BY RequestTypes, FundingTypes, LockableTypes DEF Inv
  <2>2. seen[p].wallet = wallets[u]
    BY <2>1 DEF Inv, SeenCovers, AbsentIsEmpty
  <2>3. TypeOK'
    BY <2>1 DEF Inv, TypeOK, Labels
  <2>4. Validated'
    BY DEF Inv, TypeOK, Validated
  <2>5. LocksExclude'
    BY DEF Inv, TypeOK, LocksExclude, Free
  <2>6. HoldsItsLocks'
    BY DEF Inv, TypeOK, HoldsItsLocks
  <2>7. SeenIsCurrent'
    BY <2>2 DEF Inv, TypeOK, SeenIsCurrent
  <2>8. SeenCovers'
    BY DEF Inv, TypeOK, SeenCovers
  <2>9. CanceledOrderIsOpen' /\ ClaimedKeyIsUnspent' /\ AbsentIsEmpty'
    BY DEF Inv, TypeOK, CanceledOrderIsOpen, ClaimedKeyIsUnspent, AbsentIsEmpty, PostedKeys
  <2> QED
    BY <2>3, <2>4, <2>5, <2>6, <2>7, <2>8, <2>9 DEF Inv
<1> QED
  BY <1>1, <1>2 DEF FundInsertWallet, Refuse, Outcomes

(* A key can be claimed when nobody claims it and nobody has spent it. *)
LEMMA InsertTransactionInv ==
    ASSUME Inv, NEW p \in Requests, InsertTransaction(p)
    PROVE  Inv'
<1> DEFINE key == transaction_key(request[p])
<1>1. CASE \E outcome \in Outcomes, row \in Nat : Rollback(p, outcome, row)
  BY <1>1, RollbackInv
<1>2. CASE /\ pc[p] = "insert_transaction"
           /\ Free(p, KeyClaim(key)) /\ key \notin PostedKeys
           /\ Hold(p, KeyClaim(key))
           /\ Goto(p, "commit")
           /\ UNCHANGED seen
  <2> USE <1>2 DEF Goto, Hold
  <2>1. request[p] \in FundingRequest \cup OrderCreateRequest
    BY RequestTypes DEF Inv, Validated
  <2>2. key \in LedgerKeys /\ KeyClaim(key) \in Lockables
    BY <2>1, FundingTypes, ReserveTypes, LockableTypes
  <2>3. TypeOK'
    BY <2>2 DEF Inv, TypeOK, Labels
  <2>4. Validated'
    BY DEF Inv, TypeOK, Validated
  <2>5. LocksExclude'
    BY DEF Inv, TypeOK, LocksExclude, Free
  <2>6. HoldsItsLocks'
    BY <2>1 DEF Inv, TypeOK, HoldsItsLocks, FundingRequest, OrderCreateRequest
  <2>7. SeenIsCurrent'
    BY <2>1 DEF Inv, TypeOK, SeenIsCurrent, FundingRequest, OrderCreateRequest
  <2>8. SeenCovers'
    BY <2>1 DEF Inv, TypeOK, SeenCovers, FundingRequest, OrderCreateRequest
  <2>9. CanceledOrderIsOpen' /\ AbsentIsEmpty'
    BY <2>1 DEF Inv, TypeOK, CanceledOrderIsOpen, AbsentIsEmpty, FundingRequest, OrderCreateRequest
  <2>10. ClaimedKeyIsUnspent'
    BY DEF Inv, TypeOK, ClaimedKeyIsUnspent, PostedKeys
  <2> QED
    BY <2>3, <2>4, <2>5, <2>6, <2>7, <2>8, <2>9, <2>10 DEF Inv
<1> QED
  BY <1>1, <1>2 DEF InsertTransaction, Refuse, Outcomes

-----------------------------------------------------------------------------
(* Orders. *)

LEMMA CreateBeginInv ==
    ASSUME Inv, NEW p \in Requests, CreateBegin(p)
    PROVE  Inv'
<1> DEFINE r == request[p]
<1>1. CASE \E outcome \in Outcomes, row \in Nat : Rollback(p, outcome, row)
  BY <1>1, RollbackInv
<1>2. CASE /\ At(p, "create", "start")
           /\ active_asset(r.base) /\ active_asset(r.quote)
           /\ r.base # r.quote /\ r.price > 0 /\ r.quantity > 0
           /\ Goto(p, "lock_wallet")
           /\ UNCHANGED <<seen, holds>>
  <2> USE <1>2 DEF Goto, At
  <2>1. TypeOK'
    BY DEF Inv, TypeOK, Labels
  <2>2. Validated' /\ LocksExclude'
    BY DEF Inv, TypeOK, Validated, LocksExclude
  <2>3. HoldsItsLocks'
    BY DEF Inv, TypeOK, HoldsItsLocks
  <2>4. SeenIsCurrent' /\ SeenCovers'
    BY DEF Inv, TypeOK, SeenIsCurrent, SeenCovers
  <2>5. CanceledOrderIsOpen' /\ ClaimedKeyIsUnspent' /\ AbsentIsEmpty'
    BY DEF Inv, TypeOK, CanceledOrderIsOpen, ClaimedKeyIsUnspent, AbsentIsEmpty, PostedKeys
  <2> QED
    BY <2>1, <2>2, <2>3, <2>4, <2>5 DEF Inv
<1>3. OrdersOf(r) \subseteq Nat
  BY DEF OrdersOf, Inv, TypeOK
<1> QED
  BY <1>1, <1>2, <1>3
  DEF CreateBegin, At, existing_order_replay, Refuse, Replay, Outcomes

LEMMA CreateLockWalletInv ==
    ASSUME Inv, NEW p \in Requests, CreateLockWallet(p)
    PROVE  Inv'
<1> DEFINE r == request[p]
           w == ReserveWallet(r)
<1>1. CASE \E outcome \in Outcomes, row \in Nat : Rollback(p, outcome, row)
  BY <1>1, RollbackInv
<1>2. CASE /\ At(p, "create", "lock_wallet")
           /\ Free(p, WalletRow(w)) /\ HasAvailable(r)
           /\ LockWallet(p, "wallet", w)
           /\ Goto(p, "recheck")
  <2> USE <1>2 DEF Goto, LockWallet, Hold, At
  <2>1. r \in OrderCreateRequest /\ w \in WalletIds /\ WalletRow(w) \in Lockables
    BY RequestTypes, ReserveTypes, LockableTypes DEF Inv
  <2>2. TypeOK'
    BY <2>1 DEF Inv, TypeOK, Labels
  <2>3. Validated'
    BY DEF Inv, TypeOK, Validated
  <2>4. LocksExclude'
    BY DEF Inv, TypeOK, LocksExclude, Free
  <2>5. HoldsItsLocks'
    BY DEF Inv, TypeOK, HoldsItsLocks
  <2>6. SeenIsCurrent'
    BY <2>1 DEF Inv, TypeOK, SeenIsCurrent
  <2>7. SeenCovers'
    BY <2>1 DEF Inv, TypeOK, SeenCovers, HasAvailable
  <2>8. CanceledOrderIsOpen' /\ ClaimedKeyIsUnspent' /\ AbsentIsEmpty'
    BY DEF Inv, TypeOK, CanceledOrderIsOpen, ClaimedKeyIsUnspent, AbsentIsEmpty, PostedKeys
  <2> QED
    BY <2>2, <2>3, <2>4, <2>5, <2>6, <2>7, <2>8 DEF Inv
<1> QED
  BY <1>1, <1>2 DEF CreateLockWallet, WalletReadable, HasAvailable, Refuse, Outcomes

LEMMA CreateRecheckInv ==
    ASSUME Inv, NEW p \in Requests, CreateRecheck(p)
    PROVE  Inv'
<1> DEFINE r == request[p]
<1>1. CASE \E outcome \in Outcomes, row \in Nat : Rollback(p, outcome, row)
  BY <1>1, RollbackInv
<1>2. CASE /\ At(p, "create", "recheck")
           /\ Goto(p, "insert_transaction")
           /\ UNCHANGED <<seen, holds>>
  <2> USE <1>2 DEF Goto, At
  <2>1. TypeOK'
    BY DEF Inv, TypeOK, Labels
  <2>2. Validated' /\ LocksExclude'
    BY DEF Inv, TypeOK, Validated, LocksExclude
  <2>3. HoldsItsLocks'
    BY DEF Inv, TypeOK, HoldsItsLocks
  <2>4. SeenIsCurrent' /\ SeenCovers'
    BY DEF Inv, TypeOK, SeenIsCurrent, SeenCovers
  <2>5. CanceledOrderIsOpen' /\ ClaimedKeyIsUnspent' /\ AbsentIsEmpty'
    BY DEF Inv, TypeOK, CanceledOrderIsOpen, ClaimedKeyIsUnspent, AbsentIsEmpty, PostedKeys
  <2> QED
    BY <2>1, <2>2, <2>3, <2>4, <2>5 DEF Inv
<1>3. OrdersOf(r) \subseteq Nat
  BY DEF OrdersOf, Inv, TypeOK
<1> QED
  BY <1>1, <1>2, <1>3
  DEF CreateRecheck, existing_order_replay, Refuse, Replay, Outcomes

LEMMA CancelBeginInv ==
    ASSUME Inv, NEW p \in Requests, CancelBegin(p)
    PROVE  Inv'
<1> USE DEF CancelBegin, At, Goto
<1>1. TypeOK'
  BY DEF Inv, TypeOK, Labels
<1>2. Validated' /\ LocksExclude'
  BY DEF Inv, TypeOK, Validated, LocksExclude
<1>3. HoldsItsLocks' /\ SeenIsCurrent' /\ SeenCovers'
  BY DEF Inv, TypeOK, HoldsItsLocks, SeenIsCurrent, SeenCovers
<1>4. CanceledOrderIsOpen' /\ ClaimedKeyIsUnspent' /\ AbsentIsEmpty'
  BY DEF Inv, TypeOK, CanceledOrderIsOpen, ClaimedKeyIsUnspent, AbsentIsEmpty, PostedKeys
<1> QED
  BY <1>1, <1>2, <1>3, <1>4 DEF Inv

LEMMA CancelLockOrderInv ==
    ASSUME Inv, NEW p \in Requests, CancelLockOrder(p)
    PROVE  Inv'
<1> DEFINE r == request[p]
<1> USE DEF At
<1>1. CASE \E outcome \in Outcomes, row \in Nat : Rollback(p, outcome, row)
  BY <1>1, RollbackInv
<1>2. CASE /\ At(p, "cancel", "lock_order")
           /\ r.order \in DOMAIN orders /\ orders[r.order].user = r.user
           /\ orders[r.order].status = "open"
           /\ Free(p, OrderRow(r.order))
           /\ Hold(p, OrderRow(r.order))
           /\ Goto(p, "lock_wallet")
           /\ UNCHANGED seen
  <2> USE <1>2 DEF Goto, Hold
  <2>1. r \in CancelRequest /\ OrderRow(r.order) \in Lockables
    BY RequestTypes, LockableTypes DEF Inv, CancelRequest
  <2>2. TypeOK'
    BY <2>1 DEF Inv, TypeOK, Labels
  <2>3. Validated'
    BY DEF Inv, TypeOK, Validated
  <2>4. LocksExclude'
    BY DEF Inv, TypeOK, LocksExclude, Free
  <2>5. HoldsItsLocks'
    BY DEF Inv, TypeOK, HoldsItsLocks
  <2>6. SeenIsCurrent' /\ SeenCovers'
    BY DEF Inv, TypeOK, SeenIsCurrent, SeenCovers
  <2>7. CanceledOrderIsOpen'
    BY DEF Inv, TypeOK, CanceledOrderIsOpen
  <2>8. ClaimedKeyIsUnspent' /\ AbsentIsEmpty'
    BY DEF Inv, TypeOK, ClaimedKeyIsUnspent, AbsentIsEmpty, PostedKeys
  <2> QED
    BY <2>2, <2>3, <2>4, <2>5, <2>6, <2>7, <2>8 DEF Inv
<1>3. r.order \in DOMAIN orders =>
          r.order \in Nat /\ orders[r.order].status \in {"open", "canceled", "filled"}
  BY OrderTypes DEF Inv, Order
<1> QED
  BY <1>1, <1>2, <1>3 DEF CancelLockOrder, Refuse, Replay, Outcomes

LEMMA CancelLockWalletInv ==
    ASSUME Inv, NEW p \in Requests, CancelLockWallet(p)
    PROVE  Inv'
<1> DEFINE o == orders[request[p].order]
           w == ReserveWallet(o)
<1> USE DEF At
<1>1. CASE \E outcome \in Outcomes, row \in Nat : Rollback(p, outcome, row)
  BY <1>1, RollbackInv
<1>2. CASE /\ At(p, "cancel", "lock_wallet")
           /\ Free(p, WalletRow(w))
           /\ wallets[w].exists /\ wallets[w].locked >= o.reserved
           /\ LockWallet(p, "wallet", w)
           /\ Goto(p, "commit")
  <2> USE <1>2 DEF Goto, LockWallet, Hold
  <2>1. o \in Order
    BY DEF Inv, TypeOK, CanceledOrderIsOpen
  <2>2. w \in WalletIds /\ WalletRow(w) \in Lockables
    BY <2>1, ReleaseTypes, LockableTypes
  <2>3. TypeOK'
    BY <2>2 DEF Inv, TypeOK, Labels
  <2>4. Validated'
    BY DEF Inv, TypeOK, Validated
  <2>5. LocksExclude'
    BY DEF Inv, TypeOK, LocksExclude, Free
  <2>6. HoldsItsLocks'
    BY DEF Inv, TypeOK, HoldsItsLocks
  <2>7. SeenIsCurrent'
    BY <2>2 DEF Inv, TypeOK, SeenIsCurrent
  <2>8. SeenCovers'
    BY <2>1, <2>2 DEF Inv, TypeOK, SeenCovers
  <2>9. CanceledOrderIsOpen'
    BY DEF Inv, TypeOK, CanceledOrderIsOpen
  <2>10. ClaimedKeyIsUnspent' /\ AbsentIsEmpty'
    BY DEF Inv, TypeOK, ClaimedKeyIsUnspent, AbsentIsEmpty, PostedKeys
  <2> QED
    BY <2>3, <2>4, <2>5, <2>6, <2>7, <2>8, <2>9, <2>10 DEF Inv
<1>3. CancelLockWallet(p) /\ wallets[w].exists /\ ~(wallets[w].locked < o.reserved)
          => wallets[w].locked >= o.reserved
  <2> SUFFICES ASSUME CancelLockWallet(p) PROVE wallets[w].locked \in Nat /\ o.reserved \in Nat
    OBVIOUS
  <2>1. o \in Order
    BY DEF Inv, TypeOK, CanceledOrderIsOpen, CancelLockWallet
  <2> QED
    BY <2>1, ReleaseTypes DEF Inv, TypeOK, Wallet
<1> QED
  BY <1>1, <1>2, <1>3 DEF CancelLockWallet, WalletReadable, Refuse, Outcomes

-----------------------------------------------------------------------------
(* Commits.  A commit that writes only the rows its transaction has        *)
(* locked, and spends only a key it has claimed, disturbs no other         *)
(* request: whatever the others rely on is locked by them.                 *)

LEMMA AppendKeys ==
    ASSUME TypeOK, NEW t \in LedgerTransaction, ledger' = Append(ledger, t)
    PROVE  PostedKeys' = PostedKeys \cup {t.key}
<1>1. /\ DOMAIN ledger = 1 .. Len(ledger) /\ Len(ledger) \in Nat
      /\ DOMAIN ledger' = 1 .. (Len(ledger) + 1)
      /\ \A i \in 1 .. Len(ledger) : ledger'[i] = ledger[i]
      /\ ledger'[Len(ledger) + 1] = t
  BY DEF TypeOK
<1>2. DOMAIN ledger' = DOMAIN ledger \cup {Len(ledger) + 1}
  BY <1>1
<1> QED
  BY <1>1, <1>2 DEF PostedKeys

LEMMA CommitInv ==
    ASSUME Inv, NEW p \in Requests,
           NEW outcome \in Outcomes, NEW row \in Nat, Commit(p, outcome, row),
           wallets' \in [WalletIds -> Wallet],
           \A w \in WalletIds : \/ wallets'[w] = wallets[w]
                                \/ WalletRow(w) \in holds[p] /\ wallets'[w].exists,
           NEW t \in LedgerTransaction, ledger' = Append(ledger, t),
           t.key = NoKey \/ KeyClaim(t.key) \in holds[p],
           orders' \in Seq(Order),
           \A n \in DOMAIN orders :
               /\ n \in DOMAIN orders'
               /\ orders'[n].user = orders[n].user
               /\ ReserveWallet(orders'[n]) = ReserveWallet(orders[n])
               /\ orders'[n].reserved = orders[n].reserved
               /\ \/ orders'[n].status = orders[n].status
                  \/ OrderRow(n) \in holds[p],
           outbox' \in Seq(OutboxEvent)
    PROVE  Inv'
<1> USE DEF Commit, Close
<1>1. NothingRead \in [treasury : Wallet, wallet : Wallet]
  BY DEF NoWallet, Wallet, NothingRead
<1>2. TypeOK'
  BY <1>1 DEF Inv, TypeOK, Labels
<1>3. Validated' /\ LocksExclude'
  BY DEF Inv, TypeOK, Validated, LocksExclude
<1>4. \A q \in Requests \ {p} : \A lock \in holds[q] : lock \notin holds[p]
  BY DEF Inv, LocksExclude
<1>5. CanceledOrderIsOpen'
  <2> SUFFICES ASSUME NEW q \in Requests \ {p},
                      request[q].op = "cancel", pc[q] \in {"lock_wallet", "commit"}
               PROVE  LET n == request[q].order
                      IN  /\ n \in DOMAIN orders'
                          /\ orders'[n].user = request[q].user
                          /\ orders'[n].status = "open"
    BY DEF Inv, TypeOK, CanceledOrderIsOpen
  <2>1. OrderRow(request[q].order) \in holds[q]
    BY DEF Inv, HoldsItsLocks
  <2> QED
    BY <1>4, <2>1 DEF Inv, CanceledOrderIsOpen
<1>6. HoldsItsLocks'
  BY DEF Inv, TypeOK, HoldsItsLocks, CanceledOrderIsOpen
<1>7. SeenCovers'
  BY DEF Inv, TypeOK, SeenCovers, CanceledOrderIsOpen
<1>8. SeenIsCurrent'
  <2> SUFFICES ASSUME NEW q \in Requests, q # p, pc[q] \notin {"start", "respond", "done"}
               PROVE  LET r == request[q]
                          u == UserWallet(r.user, r.asset)
                      IN  /\ r.op = "fund" /\ pc[q] \in {"lock_wallet", "insert_wallet",
                                                         "insert_transaction", "commit"} =>
                                seen[q].treasury = wallets'[TreasuryWallet(r.asset)]
                          /\ r.op = "fund" /\ pc[q] \in {"insert_transaction", "commit"} =>
                                seen[q].wallet = wallets'[u]
                          /\ r.op = "create"
                             /\ pc[q] \in {"recheck", "insert_transaction", "commit"} =>
                                seen[q].wallet = wallets'[ReserveWallet(r)]
                          /\ r.op = "cancel" /\ pc[q] = "commit" =>
                                seen[q].wallet = wallets'[ReserveWallet(orders'[r.order])]
    BY DEF Inv, TypeOK, SeenIsCurrent
  <2>1. \A w \in WalletIds : WalletRow(w) \in holds[q] => wallets'[w] = wallets[w]
    BY <1>4
  <2>2. CASE request[q].op = "fund"
    BY <2>1, <2>2, RequestTypes, FundingTypes DEF Inv, SeenIsCurrent, HoldsItsLocks
  <2>3. CASE request[q].op = "create"
    BY <2>1, <2>3, RequestTypes, ReserveTypes DEF Inv, SeenIsCurrent, HoldsItsLocks
  <2>4. CASE request[q].op = "cancel"
    BY <2>1, <2>4, OrderTypes, ReleaseTypes
    DEF Inv, SeenIsCurrent, HoldsItsLocks, CanceledOrderIsOpen
  <2> QED
    BY <2>2, <2>3, <2>4, RequestTypes DEF Inv
<1>9. ClaimedKeyIsUnspent'
  <2>1. PostedKeys' = PostedKeys \cup {t.key}
    BY AppendKeys DEF Inv
  <2> SUFFICES ASSUME NEW q \in Requests, q # p,
                      request[q].op # "cancel", pc[q] = "commit"
               PROVE  transaction_key(request[q]) # t.key
    BY <2>1 DEF Inv, TypeOK, ClaimedKeyIsUnspent
  <2>2. request[q] \in FundingRequest \cup OrderCreateRequest
    BY RequestTypes DEF Inv
  <2>3. transaction_key(request[q]) # NoKey
    BY <2>2, FundingTypes, ReserveTypes
  <2>4. KeyClaim(transaction_key(request[q])) \in holds[q]
    BY <2>2, RequestTypes DEF Inv, HoldsItsLocks
  <2> QED
    BY <1>4, <2>3, <2>4
<1>10. AbsentIsEmpty'
  BY DEF Inv, AbsentIsEmpty
<1> QED
  BY <1>2, <1>3, <1>5, <1>6, <1>7, <1>8, <1>9, <1>10 DEF Inv

LEMMA FundCommitInv ==
    ASSUME Inv, NEW p \in Requests, FundCommit(p)
    PROVE  Inv'
<1> DEFINE r == request[p]
           t == TreasuryWallet(r.asset)
           u == UserWallet(r.user, r.asset)
           paid == minus(seen[p].treasury.available, Fine(r.amount))
           received == plus(seen[p].wallet.available, Fine(r.amount))
<1>1. /\ r.op = "fund" /\ pc[p] = "commit"
      /\ wallets' = [wallets EXCEPT ![t].available = paid,
                                    ![u].available = received,
                                    ![u].exists = TRUE]
      /\ ledger' = Append(ledger, FundingTransaction(r))
      /\ UNCHANGED <<orders, outbox>>
      /\ Commit(p, "created", Len(ledger) + 1)
  BY DEF FundCommit, At
<1>2. /\ r \in FundingRequest /\ t \in WalletIds /\ u \in WalletIds
      /\ FundingTransaction(r) \in LedgerTransaction /\ r.amount \in Nat
  BY <1>1, RequestTypes, FundingTypes DEF Inv
<1>3. /\ seen[p].treasury = wallets[t] /\ seen[p].wallet = wallets[u]
      /\ seen[p].treasury.exists /\ seen[p].treasury.available >= r.amount
  BY <1>1 DEF Inv, SeenIsCurrent, SeenCovers
<1>4. wallets[t].available \in Nat /\ wallets[u].available \in Nat
  BY <1>2 DEF Inv, TypeOK, Wallet
<1>5. paid \in Nat /\ received \in Nat
  <2>1. Fine(r.amount) \in Nat /\ Fine(r.amount) <= Fine(wallets[t].available)
    BY <1>2, <1>3, <1>4, FineIs, FineOrder
  <2> QED
    BY <1>3, <1>4, <2>1, BalanceNat
<1>6. wallets' \in [WalletIds -> Wallet]
  <2> DEFINE W1 == [wallets EXCEPT ![t].available = paid]
             W2 == [W1 EXCEPT ![u].available = received]
  <2> HIDE DEF paid, received
  <2>1. W1 \in [WalletIds -> Wallet]
    BY <1>2, <1>5, WriteBalance DEF Inv, TypeOK
  <2>2. W2 \in [WalletIds -> Wallet]
    BY <1>2, <1>5, <2>1, WriteBalance
  <2>3. [W2 EXCEPT ![u].exists = TRUE] \in [WalletIds -> Wallet]
    BY <1>2, <1>5, <2>2, WriteBalance
  <2> QED
    BY <1>1, <2>3
<1>7. \A w \in WalletIds : \/ wallets'[w] = wallets[w]
                           \/ WalletRow(w) \in holds[p] /\ wallets'[w].exists
  <2> HIDE DEF paid, received
  <2>1. WalletRow(t) \in holds[p] /\ WalletRow(u) \in holds[p]
    BY <1>1 DEF Inv, HoldsItsLocks
  <2> QED
    BY <1>1, <1>2, <1>3, <2>1 DEF Inv, TypeOK, Wallet
<1>8. KeyClaim(FundingTransaction(r).key) \in holds[p]
  BY <1>1 DEF Inv, HoldsItsLocks, transaction_key, FundingTransaction
<1>9. Len(ledger) + 1 \in Nat
  BY DEF Inv, TypeOK
<1> QED
  BY <1>1, <1>2, <1>6, <1>7, <1>8, <1>9, CommitInv DEF Inv, TypeOK, Outcomes

LEMMA CreateCommitInv ==
    ASSUME Inv, NEW p \in Requests, CreateCommit(p)
    PROVE  Inv'
<1> DEFINE r == request[p]
           w == ReserveWallet(r)
           need == reserved_amount(r)
           available == minus(seen[p].wallet.available, need)
           locked == plus(seen[p].wallet.locked, need)
<1>1. CASE Rollback(p, "integrity_error", 0)
  BY <1>1, RollbackInv DEF Outcomes
<1>2. CASE /\ At(p, "create", "commit")
           /\ wallets' = [wallets EXCEPT ![w].available = available,
                                         ![w].locked = locked]
           /\ ledger' = Append(ledger, ReserveTransaction(r))
           /\ orders' = Append(orders, NewOrder(r, Len(ledger) + 1))
           /\ outbox' = Append(outbox, CreatedEvent(Len(orders) + 1, r))
           /\ Commit(p, "created", Len(orders) + 1)
  <2>1. r.op = "create" /\ pc[p] = "commit"
    BY <1>2 DEF At
  <2>2. /\ r \in OrderCreateRequest /\ w \in WalletIds /\ need \in Nat
        /\ ReserveTransaction(r) \in LedgerTransaction
    BY <2>1, RequestTypes, ReserveTypes DEF Inv
  <2>3. /\ seen[p].wallet = wallets[w] /\ seen[p].wallet.exists
        /\ Fine(seen[p].wallet.available) >= need
    BY <2>1 DEF Inv, SeenIsCurrent, SeenCovers
  <2>4. available \in Nat /\ locked \in Nat
    <3>1. wallets[w].available \in Nat /\ wallets[w].locked \in Nat
      BY <2>2 DEF Inv, TypeOK, Wallet
    <3> QED
      BY <2>2, <2>3, <3>1, BalanceNat
  <2> HIDE DEF available, locked
  <2>5. wallets' \in [WalletIds -> Wallet]
    <3> DEFINE W1 == [wallets EXCEPT ![w].available = available]
    <3>1. W1 \in [WalletIds -> Wallet]
      BY <2>2, <2>4, WriteBalance DEF Inv, TypeOK
    <3>2. [W1 EXCEPT ![w].locked = locked] \in [WalletIds -> Wallet]
      BY <2>2, <2>4, <3>1, WriteBalance
    <3> QED
      BY <1>2, <3>2
  <2>6. \A v \in WalletIds : \/ wallets'[v] = wallets[v]
                             \/ WalletRow(v) \in holds[p] /\ wallets'[v].exists
    <3>1. WalletRow(w) \in holds[p]
      BY <2>1 DEF Inv, HoldsItsLocks
    <3> QED
      BY <1>2, <2>2, <2>3, <3>1 DEF Inv, TypeOK, Wallet
  <2>7. KeyClaim(ReserveTransaction(r).key) \in holds[p]
    BY <2>1 DEF Inv, HoldsItsLocks, transaction_key, ReserveTransaction
  <2>8. Len(ledger) + 1 \in Nat /\ Len(orders) + 1 \in Nat
    BY DEF Inv, TypeOK
  <2>9. /\ NewOrder(r, Len(ledger) + 1) \in Order
        /\ CreatedEvent(Len(orders) + 1, r) \in OutboxEvent
    BY <2>2, <2>8, ReserveTypes
  <2>10. /\ orders' \in Seq(Order) /\ outbox' \in Seq(OutboxEvent)
         /\ \A n \in DOMAIN orders : n \in DOMAIN orders' /\ orders'[n] = orders[n]
    BY <1>2, <2>9, AppendProperties DEF Inv, TypeOK
  <2> QED
    BY <1>2, <2>2, <2>5, <2>6, <2>7, <2>8, <2>10, CommitInv DEF Outcomes
<1> QED
  BY <1>1, <1>2 DEF CreateCommit, Refuse

LEMMA CancelCommitInv ==
    ASSUME Inv, NEW p \in Requests, CancelCommit(p)
    PROVE  Inv'
<1> DEFINE n == request[p].order
           o == orders[n]
           w == ReserveWallet(o)
           locked == minus(seen[p].wallet.locked, Fine(o.reserved))
           available == plus(seen[p].wallet.available, Fine(o.reserved))
<1>1. /\ request[p].op = "cancel" /\ pc[p] = "commit"
      /\ wallets' = [wallets EXCEPT ![w].locked = locked, ![w].available = available]
      /\ ledger' = Append(ledger, ReleaseTransaction(o))
      /\ orders' = [orders EXCEPT ![n].status = "canceled"]
      /\ outbox' = Append(outbox, CanceledEvent(n, o))
      /\ Commit(p, "canceled", n)
  BY DEF CancelCommit, At
<1>2. n \in DOMAIN orders /\ n \in Nat /\ o \in Order
  BY <1>1, OrderTypes DEF Inv, CanceledOrderIsOpen
<1>3. w \in WalletIds /\ o.reserved \in Nat
  BY <1>2, ReleaseTypes
<1>4. /\ seen[p].wallet = wallets[w] /\ seen[p].wallet.exists
      /\ seen[p].wallet.locked >= o.reserved
  BY <1>1 DEF Inv, SeenIsCurrent, SeenCovers
<1>5. locked \in Nat /\ available \in Nat
  <2>1. wallets[w].available \in Nat /\ wallets[w].locked \in Nat
    BY <1>3 DEF Inv, TypeOK, Wallet
  <2>2. Fine(o.reserved) \in Nat /\ Fine(o.reserved) <= Fine(wallets[w].locked)
    BY <1>3, <1>4, <2>1, FineIs, FineOrder
  <2> QED
    BY <1>4, <2>1, <2>2, BalanceNat
<1> HIDE DEF locked, available
<1>6. wallets' \in [WalletIds -> Wallet]
  <2> DEFINE W1 == [wallets EXCEPT ![w].locked = locked]
  <2>1. W1 \in [WalletIds -> Wallet]
    BY <1>3, <1>5, WriteBalance DEF Inv, TypeOK
  <2>2. [W1 EXCEPT ![w].available = available] \in [WalletIds -> Wallet]
    BY <1>3, <1>5, <2>1, WriteBalance
  <2> QED
    BY <1>1, <2>2
<1>7. \A v \in WalletIds : \/ wallets'[v] = wallets[v]
                           \/ WalletRow(v) \in holds[p] /\ wallets'[v].exists
  <2>1. WalletRow(w) \in holds[p]
    BY <1>1 DEF Inv, HoldsItsLocks
  <2> QED
    BY <1>1, <1>3, <1>4, <2>1 DEF Inv, TypeOK, Wallet
<1>8. ReleaseTransaction(o) \in LedgerTransaction /\ ReleaseTransaction(o).key = NoKey
      /\ CanceledEvent(n, o) \in OutboxEvent
  BY <1>2, ReleaseTypes DEF ReleaseTransaction
<1>9. [o EXCEPT !.status = "canceled"] \in Order
  BY <1>2 DEF Order
<1>10. orders' = [orders EXCEPT ![n] = [o EXCEPT !.status = "canceled"]]
  BY <1>1, <1>2 DEF Inv, TypeOK
<1>11. orders' \in Seq(Order) /\ outbox' \in Seq(OutboxEvent)
  BY <1>1, <1>2, <1>8, <1>9, <1>10, ExceptSeq, AppendProperties DEF Inv, TypeOK
<1>12. \A m \in DOMAIN orders :
           /\ m \in DOMAIN orders'
           /\ orders'[m].user = orders[m].user
           /\ ReserveWallet(orders'[m]) = ReserveWallet(orders[m])
           /\ orders'[m].reserved = orders[m].reserved
           /\ \/ orders'[m].status = orders[m].status
              \/ OrderRow(m) \in holds[p]
  <2>1. OrderRow(n) \in holds[p]
    BY <1>1 DEF Inv, HoldsItsLocks
  <2>2. SUFFICES ASSUME NEW m \in DOMAIN orders
               PROVE  /\ m \in DOMAIN orders'
                      /\ orders'[m] = IF m = n THEN [o EXCEPT !.status = "canceled"]
                                      ELSE orders[m]
    BY <1>2, <2>1 DEF Order, ReserveWallet, UserWallet, reserve_asset
  <2> QED
    BY <1>2, <1>10 DEF Inv, TypeOK
<1> QED
  BY <1>1, <1>2, <1>6, <1>7, <1>8, <1>11, <1>12, CommitInv DEF Outcomes

-----------------------------------------------------------------------------
(* Every step preserves the invariant. *)

LEMMA AbortInv ==
    ASSUME Inv, NEW p \in Requests, Abort(p)
    PROVE  Inv'
BY RollbackInv DEF Abort, Refuse, Outcomes

LEMMA PoolTimeoutInv ==
    ASSUME Inv, NEW p \in Requests, PoolTimeout(p)
    PROVE  Inv'
BY RollbackInv DEF PoolTimeout, Refuse, Outcomes

LEMMA NextInv == Inv /\ [Next]_vars => Inv'
<1> SUFFICES ASSUME Inv, [Next]_vars PROVE Inv'
  OBVIOUS
<1>1. CASE UNCHANGED vars
  BY <1>1 DEF vars, Inv, TypeOK, Validated, LocksExclude, HoldsItsLocks,
     SeenIsCurrent, SeenCovers, CanceledOrderIsOpen, ClaimedKeyIsUnspent,
     AbsentIsEmpty, PostedKeys
<1>2. CASE \E p \in Requests : Serve(p)
  BY <1>2, FundBeginInv, FundLockTreasuryInv, FundLockWalletInv,
     FundInsertWalletInv, FundCommitInv, CreateBeginInv, CreateLockWalletInv,
     CreateRecheckInv, CreateCommitInv, CancelBeginInv, CancelLockOrderInv, CancelLockWalletInv,
     CancelCommitInv, InsertTransactionInv, RespondInv DEF Serve
<1>3. CASE \E p \in Requests : Abort(p)
  BY <1>3, AbortInv
<1>4. CASE \E p \in Requests : PoolTimeout(p)
  BY <1>4, PoolTimeoutInv
<1> QED
  BY <1>1, <1>2, <1>3, <1>4 DEF Next, Finished

(* The invariant holds in every state the API can reach. *)
THEOREM Invariance == Spec => []Inv
<1>1. Init => Inv
  BY InitInv
<1>2. Inv /\ [Next]_vars => Inv'
  BY NextInv
<1> QED
  BY <1>1, <1>2, PTL DEF Spec

(* In particular: the state has its type, so no balance is ever negative;  *)
(* no lock is held twice; and no balance is computed from a stale row.     *)
THEOREM TypeCorrect == Spec => []TypeOK
<1>1. Inv => TypeOK
  BY DEF Inv
<1> QED
  BY <1>1, Invariance, PTL

THEOREM MutualExclusion == Spec => []LocksExclude
<1>1. Inv => LocksExclude
  BY DEF Inv
<1> QED
  BY <1>1, Invariance, PTL

THEOREM NoLostUpdate == Spec => []SeenIsCurrent
<1>1. Inv => SeenIsCurrent
  BY DEF Inv
<1> QED
  BY <1>1, Invariance, PTL

-----------------------------------------------------------------------------
(* The answers.                                                            *)

LEMMA AnswerInit == Init => AnswerInv
<1> SUFFICES ASSUME Init PROVE AnswerInv
  OBVIOUS
<1>1. RowsAreSound
  BY DEF Init, SessionInit, RowsAreSound
<1>2. AnswersAreRows /\ OnlyKeysCollide
  BY DEF Init, SessionInit, AnswersAreRows, OnlyKeysCollide, Answered
<1>3. FirstWalletIsAbsent
  BY DEF Init, SessionInit, FirstWalletIsAbsent, At
<1> QED
  BY <1>1, <1>2, <1>3 DEF AnswerInv

(* A step within a transaction answers nobody.                             *)
LEMMA GotoAnswers ==
    ASSUME Inv, AnswerInv, NEW p \in Requests, NEW label, Goto(p, label),
           label = "insert_wallet" =>
               ~wallets[UserWallet(request[p].user, request[p].asset)].exists
    PROVE  AnswerInv'
<1> USE DEF Goto
<1>1. RowsAreSound' /\ AnswersAreRows' /\ OnlyKeysCollide'
  BY DEF AnswerInv, RowsAreSound, AnswersAreRows, OnlyKeysCollide, Answered, RowAnswers,
         PostedKeys
<1>2. FirstWalletIsAbsent'
  BY DEF Inv, TypeOK, AnswerInv, FirstWalletIsAbsent, At
<1> QED
  BY <1>1, <1>2 DEF AnswerInv

(* A transaction that ends without writing can name a row that is there,   *)
(* and blame a key that is spent.                                          *)
LEMMA RollbackAnswers ==
    ASSUME Inv, AnswerInv, NEW p \in Requests, NEW outcome, NEW row,
           Rollback(p, outcome, row),
           outcome # "created",
           outcome = "replayed" => RowAnswers(request[p], row),
           outcome = "integrity_error" =>
               \/ transaction_key(request[p]) \in PostedKeys
               \/ request[p].op = "create" /\ numeric(reserved_amount(request[p])) = 0
    PROVE  AnswerInv'
<1> USE DEF Rollback, Close, database
<1>1. /\ reply'[p] = [outcome |-> outcome, row |-> row]
      /\ \A q \in Requests : q # p => reply'[q] = reply[q]
      /\ pc'[p] = "done"
      /\ \A q \in Requests : q # p => pc'[q] = pc[q]
  BY DEF Inv, TypeOK
<1>2. RowsAreSound'
  BY DEF AnswerInv, RowsAreSound
<1>3. AnswersAreRows'
  <2>1. UNCHANGED <<ledger, orders, request>>
    OBVIOUS
  <2>2. ASSUME NEW q \in Requests
        PROVE  (Answered(q, "created") \/ Answered(q, "replayed") =>
                    RowAnswers(request[q], reply[q].row))'
    <3>1. CASE q = p
      BY <1>1, <2>1, <3>1 DEF Answered, RowAnswers
    <3>2. CASE q # p /\ (Answered(q, "created") \/ Answered(q, "replayed"))
      <4> SUFFICES ASSUME NEW r, r = request[q], NEW n, n = reply[q].row
                   PROVE  RowAnswers(request[q], reply[q].row)'
        OBVIOUS
      <4>1. RowAnswers(r, n)
        BY <3>2 DEF AnswerInv, AnswersAreRows
      <4>2. request'[q] = r /\ reply'[q].row = n
        BY <1>1, <2>1, <3>2
      <4>3. RowAnswers(r, n)'
        BY <2>1, <4>1 DEF RowAnswers
      <4> QED
        BY <4>2, <4>3
    <3>3. CASE q # p /\ ~(Answered(q, "created") \/ Answered(q, "replayed"))
      BY <1>1, <3>3 DEF Answered
    <3> QED
      BY <3>1, <3>2, <3>3
  <2>3. \A q \in Requests : Answered(q, "created")' =>
            q # p /\ Answered(q, "created") /\ reply'[q] = reply[q]
    BY <1>1 DEF Answered
  <2>4. (\A q1, q2 \in Requests :
            /\ Answered(q1, "created") /\ Answered(q2, "created") /\ q1 # q2
            /\ request[q1].op = request[q2].op
            => reply[q1].row # reply[q2].row)'
    BY <2>1, <2>3 DEF AnswerInv, AnswersAreRows
  <2> QED
    BY <2>2, <2>4 DEF AnswersAreRows
<1>4. OnlyKeysCollide'
  BY <1>1 DEF AnswerInv, OnlyKeysCollide, Answered, PostedKeys
<1>5. FirstWalletIsAbsent'
  BY <1>1 DEF AnswerInv, FirstWalletIsAbsent, At
<1> QED
  BY <1>2, <1>3, <1>4, <1>5 DEF AnswerInv

LEMMA RefuseAnswers ==
    ASSUME Inv, AnswerInv, NEW p \in Requests, NEW outcome, Refuse(p, outcome),
           outcome \notin {"created", "replayed", "integrity_error"}
    PROVE  AnswerInv'
BY RollbackAnswers DEF Refuse

(* A commit adds rows, leaves the others what answers have said of them,   *)
(* and answers with a row that no answer has named.                        *)
LEMMA CommitAnswers ==
    ASSUME Inv, AnswerInv, NEW p \in Requests, NEW outcome, NEW row,
           Commit(p, outcome, row),
           RowsAreSound',
           \A n \in DOMAIN ledger : n \in DOMAIN ledger' /\ ledger'[n] = ledger[n],
           \A r, n : RowAnswers(r, n) => RowAnswers(r, n)',
           \A q \in Requests : q # p /\ At(q, "fund", "insert_wallet") =>
               LET w == UserWallet(request[q].user, request[q].asset)
               IN  wallets'[w].exists = wallets[w].exists,
           outcome \in {"created", "canceled"},
           outcome = "created" =>
               /\ RowAnswers(request[p], row)'
               /\ \A r : r.op = request[p].op => ~RowAnswers(r, row)
    PROVE  AnswerInv'
<1> USE DEF Commit, Close
<1>1. /\ reply'[p] = [outcome |-> outcome, row |-> row]
      /\ \A q \in Requests : q # p => reply'[q] = reply[q]
      /\ pc'[p] = "respond"
      /\ \A q \in Requests : q # p => pc'[q] = pc[q]
      /\ request' = request
  BY DEF Inv, TypeOK
<1>2. PostedKeys \subseteq PostedKeys'
  BY DEF PostedKeys
<1>3. AnswersAreRows'
  <2>1. ASSUME NEW q \in Requests
        PROVE  (Answered(q, "created") \/ Answered(q, "replayed") =>
                    RowAnswers(request[q], reply[q].row))'
    <3>1. CASE q = p
      BY <1>1, <3>1 DEF Answered
    <3>2. CASE q # p /\ (Answered(q, "created") \/ Answered(q, "replayed"))
      <4> SUFFICES ASSUME NEW r, r = request[q], NEW n, n = reply[q].row
                   PROVE  RowAnswers(request[q], reply[q].row)'
        OBVIOUS
      <4>1. RowAnswers(r, n)'
        BY <3>2 DEF AnswerInv, AnswersAreRows
      <4>2. request'[q] = r /\ reply'[q].row = n
        BY <1>1, <3>2
      <4> QED
        BY <4>1, <4>2
    <3>3. CASE q # p /\ ~(Answered(q, "created") \/ Answered(q, "replayed"))
      BY <1>1, <3>3 DEF Answered
    <3> QED
      BY <3>1, <3>2, <3>3
  <2>2. ASSUME NEW q \in Requests, q # p, Answered(p, "created")', Answered(q, "created")',
               request[p].op = request[q].op
        PROVE  reply'[p].row # reply'[q].row
    BY <1>1, <2>2 DEF AnswerInv, AnswersAreRows, Answered
  <2>3. ASSUME NEW q1 \in Requests, NEW q2 \in Requests, q1 # q2,
               Answered(q1, "created")', Answered(q2, "created")',
               request[q1].op = request[q2].op
        PROVE  reply'[q1].row # reply'[q2].row
    <3>1. CASE p \in {q1, q2}
      BY <2>2, <2>3, <3>1
    <3>2. CASE p \notin {q1, q2}
      BY <1>1, <2>3, <3>2 DEF AnswerInv, AnswersAreRows, Answered
    <3> QED
      BY <3>1, <3>2
  <2>4. (\A q1, q2 \in Requests :
            /\ Answered(q1, "created") /\ Answered(q2, "created") /\ q1 # q2
            /\ request[q1].op = request[q2].op
            => reply[q1].row # reply[q2].row)'
    BY <1>1, <2>3
  <2> QED
    BY <2>1, <2>4 DEF AnswersAreRows
<1>4. OnlyKeysCollide'
  BY <1>1, <1>2 DEF AnswerInv, OnlyKeysCollide, Answered
<1>5. FirstWalletIsAbsent'
  BY <1>1 DEF AnswerInv, FirstWalletIsAbsent, At
<1> QED
  BY <1>3, <1>4, <1>5 DEF AnswerInv

(* Answers go on naming rows that hold what was asked for.                 *)
LEMMA RowsKept ==
    ASSUME TypeOK,
           \A i \in DOMAIN ledger : i \in DOMAIN ledger' /\ ledger'[i] = ledger[i],
           \A n \in DOMAIN orders :
               /\ n \in DOMAIN orders'
               /\ \/ orders'[n] = orders[n]
                  \/ orders'[n] = [orders[n] EXCEPT !.status = "canceled"]
    PROVE  \A r, n : RowAnswers(r, n) => RowAnswers(r, n)'
<1> SUFFICES ASSUME NEW r, NEW n, RowAnswers(r, n) PROVE RowAnswers(r, n)'
  OBVIOUS
<1>1. CASE r.op = "fund" /\ n \in DOMAIN ledger /\ ledger[n] = FundingTransaction(r)
  BY <1>1 DEF RowAnswers
<1>2. ASSUME n \in DOMAIN orders
      PROVE  /\ [orders'[n] EXCEPT !.status = "open"] = [orders[n] EXCEPT !.status = "open"]
             /\ orders'[n].transaction = orders[n].transaction
             /\ orders[n].status = "canceled" => orders'[n].status = "canceled"
  BY <1>2, OrderTypes DEF Order
<1>3. CASE /\ r.op = "create"
           /\ n \in DOMAIN orders
           /\ [orders[n] EXCEPT !.status = "open"] = NewOrder(r, orders[n].transaction)
  BY <1>2, <1>3 DEF RowAnswers
<1>4. CASE /\ r.op = "cancel" /\ n = r.order
           /\ n \in DOMAIN orders /\ orders[n].status = "canceled"
  BY <1>2, <1>4 DEF RowAnswers
<1> QED
  BY <1>1, <1>3, <1>4 DEF RowAnswers

(* What a replay compares is enough.                                       *)
LEMMA FundingReplayed ==
    ASSUME TypeOK, RowsAreSound, NEW r \in FundingRequest,
           NEW i \in FundingsOf(r), FundingMatches(r, ledger[i])
    PROVE  RowAnswers(r, i)
<1> SUFFICES ASSUME NEW t, t = ledger[i], NEW u, u = UserWallet(r.user, r.asset)
             PROVE  RowAnswers(r, i)
  OBVIOUS
<1>1. i \in DOMAIN ledger /\ t \in LedgerTransaction /\ t.key = r.key
  BY DEF TypeOK, FundingsOf
<1>2. t.type = "funding" /\ t.credit = Entry(u, "available", r.amount) /\ u[2] = r.asset
  BY DEF FundingMatches, UserWallet
<1>3. t.debit = Entry(TreasuryWallet(r.asset), "available", r.amount)
  BY <1>1, <1>2 DEF RowsAreSound, Entry
<1>4. t = [type |-> t.type, key |-> t.key, debit |-> t.debit, credit |-> t.credit]
  BY <1>1 DEF LedgerTransaction
<1>5. t = FundingTransaction(r)
  BY <1>1, <1>2, <1>3, <1>4 DEF FundingTransaction
<1> QED
  BY <1>1, <1>5 DEF RowAnswers, FundingRequest

LEMMA OrderReplayed ==
    ASSUME TypeOK, RowsAreSound, NEW r \in OrderCreateRequest,
           NEW n \in OrdersOf(r), validate_replay(r, orders[n])
    PROVE  RowAnswers(r, n)
<1> SUFFICES ASSUME NEW o, o = orders[n], NEW x, x = NewOrder(r, orders[n].transaction)
             PROVE  RowAnswers(r, n)
  OBVIOUS
<1>1. n \in DOMAIN orders /\ o \in Order /\ o.user = r.user /\ o.key = r.key
  BY OrderTypes DEF OrdersOf
<1>2. /\ o.base = r.base /\ o.quote = r.quote /\ o.side = r.side
      /\ o.price = r.price /\ o.quantity = r.quantity
  BY DEF validate_replay
<1>3. o.reserved = numeric(reserved_amount(r))
  BY <1>1, <1>2 DEF RowsAreSound, reserved_amount
<1>4. [o EXCEPT !.status = "open"] = x
  BY <1>1, <1>2, <1>3 DEF Order, NewOrder
<1> QED
  BY <1>1, <1>4 DEF RowAnswers, OrderCreateRequest

LEMMA ReplayAnswers ==
    ASSUME Inv, AnswerInv, NEW p \in Requests, NEW n, Replay(p, n),
           RowAnswers(request[p], n)
    PROVE  AnswerInv'
BY RollbackAnswers DEF Replay

-----------------------------------------------------------------------------
(* The handlers' answers, statement by statement.                          *)

LEMMA FundingAnswers ==
    ASSUME Inv, AnswerInv, NEW p \in Requests,
           \/ FundBegin(p) \/ FundLockTreasury(p)
           \/ FundLockWallet(p) \/ FundInsertWallet(p)
    PROVE  AnswerInv'
<1> SUFFICES ASSUME NEW r, r = request[p]
             PROVE  AnswerInv'
  OBVIOUS
<1>0. r \in FundingRequest
  BY RequestTypes DEF Inv, FundBegin, FundLockTreasury, FundLockWallet, FundInsertWallet, At
<1>1. CASE FundBegin(p)
  <2>1. ASSUME NEW i \in FundingsOf(r), FundingMatches(r, ledger[i]), Replay(p, i)
        PROVE  AnswerInv'
    <3>1. RowAnswers(request[p], i)
      BY <1>0, <2>1, FundingReplayed DEF Inv, AnswerInv
    <3> QED
      BY <2>1, <3>1, ReplayAnswers
  <2> QED
    BY <1>1, <2>1, RefuseAnswers, GotoAnswers DEF FundBegin, find_funding_replay
<1>2. CASE FundLockTreasury(p)
  BY <1>2, RefuseAnswers, GotoAnswers DEF FundLockTreasury
<1>3. CASE FundLockWallet(p)
  BY <1>3, GotoAnswers DEF FundLockWallet
<1>4. CASE FundInsertWallet(p)
  <2>1. ~wallets[UserWallet(request[p].user, request[p].asset)].exists
    BY <1>4 DEF AnswerInv, FirstWalletIsAbsent, FundInsertWallet
  <2> QED
    BY <1>4, <2>1, GotoAnswers DEF FundInsertWallet
<1> QED
  BY <1>1, <1>2, <1>3, <1>4

LEMMA OrderAnswers ==
    ASSUME Inv, AnswerInv, NEW p \in Requests,
           \/ CreateBegin(p) \/ CreateLockWallet(p) \/ CreateRecheck(p)
           \/ CancelBegin(p) \/ CancelLockOrder(p) \/ CancelLockWallet(p)
    PROVE  AnswerInv'
<1> SUFFICES ASSUME NEW r, r = request[p]
             PROVE  AnswerInv'
  OBVIOUS
<1>1. ASSUME r \in OrderCreateRequest, existing_order_replay(p)
      PROVE  AnswerInv'
  <2>1. ASSUME NEW n \in OrdersOf(r), validate_replay(r, orders[n]), Replay(p, n)
        PROVE  AnswerInv'
    <3>1. RowAnswers(request[p], n)
      BY <1>1, <2>1, OrderReplayed DEF Inv, AnswerInv
    <3> QED
      BY <2>1, <3>1, ReplayAnswers
  <2> QED
    BY <1>1, <2>1, RefuseAnswers DEF existing_order_replay
<1>2. CASE CreateBegin(p)
  <2>1. r \in OrderCreateRequest
    BY <1>2, RequestTypes DEF Inv, CreateBegin, At
  <2> QED
    BY <1>1, <1>2, <2>1, RefuseAnswers, GotoAnswers DEF CreateBegin
<1>3. CASE CreateLockWallet(p)
  BY <1>3, RefuseAnswers, GotoAnswers DEF CreateLockWallet
<1>4. CASE CreateRecheck(p)
  <2>1. r \in OrderCreateRequest
    BY <1>4, RequestTypes DEF Inv, CreateRecheck, At
  <2> QED
    BY <1>1, <1>4, <2>1, GotoAnswers DEF CreateRecheck
<1>5. CASE CancelBegin(p)
  BY <1>5, GotoAnswers DEF CancelBegin
<1>6. CASE CancelLockOrder(p)
  <2>1. r.order \in DOMAIN orders =>
            orders[r.order].status \in {"open", "canceled", "filled"}
    BY OrderTypes DEF Inv, Order
  <2>2. ASSUME r.order \in DOMAIN orders, orders[r.order].status = "canceled",
               Replay(p, r.order)
        PROVE  AnswerInv'
    <3>1. RowAnswers(request[p], r.order)
      BY <1>6, <2>2 DEF RowAnswers, CancelLockOrder, At
    <3> QED
      BY <2>2, <3>1, ReplayAnswers
  <2> QED
    BY <1>6, <2>1, <2>2, RefuseAnswers, GotoAnswers DEF CancelLockOrder
<1>7. CASE CancelLockWallet(p)
  BY <1>7, RefuseAnswers, GotoAnswers DEF CancelLockWallet
<1> QED
  BY <1>2, <1>3, <1>4, <1>5, <1>6, <1>7

LEMMA SessionAnswers ==
    ASSUME Inv, AnswerInv, NEW p \in Requests,
           InsertTransaction(p) \/ Respond(p) \/ Abort(p) \/ PoolTimeout(p)
    PROVE  AnswerInv'
<1>1. CASE InsertTransaction(p)
  BY <1>1, RollbackAnswers, GotoAnswers DEF InsertTransaction, Refuse
<1>2. CASE Respond(p) \/ Abort(p) \/ PoolTimeout(p)
  BY <1>2, RefuseAnswers, GotoAnswers DEF Respond, Abort, PoolTimeout
<1> QED
  BY <1>1, <1>2

(* A row that is appended does what RowsAreSound says.                     *)
LEMMA SoundLedger ==
    ASSUME TypeOK, RowsAreSound, NEW t \in LedgerTransaction, ledger' = Append(ledger, t),
           t.type = "funding" => t.debit = Entry(TreasuryWallet(t.credit.wallet[2]),
                                                 "available", t.credit.amount),
           \A n \in DOMAIN orders' : orders'[n].reserved = numeric(reserved_amount(orders'[n]))
    PROVE  /\ RowsAreSound'
           /\ \A i \in DOMAIN ledger : i \in DOMAIN ledger' /\ ledger'[i] = ledger[i]
           /\ Len(ledger) + 1 \in DOMAIN ledger'
           /\ Len(ledger) + 1 \notin DOMAIN ledger
           /\ ledger'[Len(ledger) + 1] = t
<1>1. /\ DOMAIN ledger' = DOMAIN ledger \cup {Len(ledger) + 1}
      /\ Len(ledger) + 1 \notin DOMAIN ledger
      /\ ledger'[Len(ledger) + 1] = t
      /\ \A i \in DOMAIN ledger : ledger'[i] = ledger[i]
  BY Appending DEF TypeOK
<1>2. RowsAreSound'
  BY <1>1 DEF RowsAreSound
<1> QED
  BY <1>1, <1>2

LEMMA FundCommitAnswers ==
    ASSUME Inv, AnswerInv, NEW p \in Requests, FundCommit(p)
    PROVE  AnswerInv'
<1> SUFFICES ASSUME NEW r, r = request[p],
                    NEW t, t = TreasuryWallet(r.asset),
                    NEW u, u = UserWallet(r.user, r.asset),
                    NEW x, x = FundingTransaction(r),
                    NEW row, row = Len(ledger) + 1
             PROVE  AnswerInv'
  OBVIOUS
<1>1. /\ r.op = "fund" /\ pc[p] = "commit"
      /\ ledger' = Append(ledger, x)
      /\ UNCHANGED <<orders, outbox>>
      /\ Commit(p, "created", row)
  BY DEF FundCommit, At
<1>2. /\ r \in FundingRequest /\ t \in WalletIds /\ u \in WalletIds
      /\ x \in LedgerTransaction
  BY <1>1, RequestTypes, FundingTypes DEF Inv
<1>3. x.type = "funding" => x.debit = Entry(TreasuryWallet(x.credit.wallet[2]),
                                            "available", x.credit.amount)
  BY DEF FundingTransaction, Entry, UserWallet
<1>4. \A n \in DOMAIN orders' : orders'[n].reserved = numeric(reserved_amount(orders'[n]))
  BY <1>1 DEF AnswerInv, RowsAreSound
<1>5. /\ RowsAreSound'
      /\ \A i \in DOMAIN ledger : i \in DOMAIN ledger' /\ ledger'[i] = ledger[i]
      /\ row \in DOMAIN ledger' /\ row \notin DOMAIN ledger
      /\ ledger'[row] = x
  BY <1>1, <1>2, <1>3, <1>4, SoundLedger DEF Inv, AnswerInv
<1>6. \A a, n : RowAnswers(a, n) => RowAnswers(a, n)'
  BY <1>1, <1>5, RowsKept DEF Inv
<1>7. ASSUME NEW q \in Requests, q # p, At(q, "fund", "insert_wallet"),
             NEW w, w = UserWallet(request[q].user, request[q].asset)
      PROVE  wallets'[w].exists = wallets[w].exists
  <2>1. /\ WalletRow(TreasuryWallet(request[q].asset)) \in holds[q]
        /\ WalletRow(t) \in holds[p]
    BY <1>1, <1>7 DEF Inv, HoldsItsLocks, At
  <2>2. t # TreasuryWallet(request[q].asset)
    BY <1>7, <2>1 DEF Inv, LocksExclude
  <2>3. request[q] \in FundingRequest /\ w \in WalletIds
    BY <1>7, RequestTypes, FundingTypes DEF Inv, At
  <2>4. w # u /\ w # t
    BY <1>2, <1>7, <2>2, <2>3, SchemaAssumption DEF TreasuryWallet, UserWallet, FundingRequest
  <2>5. wallets \in [WalletIds -> Wallet]
    BY DEF Inv, TypeOK
  <2> QED
    BY <2>3, <2>4, <2>5 DEF FundCommit
<1>8. RowAnswers(r, row)' /\ request'[p] = r
  BY <1>1, <1>5 DEF RowAnswers, Commit, Close
<1>9. \A a : a.op = request[p].op => ~RowAnswers(a, row)
  BY <1>1, <1>5 DEF RowAnswers
<1>10. \A q \in Requests : q # p /\ At(q, "fund", "insert_wallet") =>
           LET w == UserWallet(request[q].user, request[q].asset)
           IN  wallets'[w].exists = wallets[w].exists
  BY <1>7
<1>11. RowAnswers(request[p], row)'
  BY <1>8
<1> QED
  BY <1>1, <1>5, <1>6, <1>9, <1>10, <1>11, CommitAnswers

LEMMA CreateCommitAnswers ==
    ASSUME Inv, AnswerInv, NEW p \in Requests, CreateCommit(p)
    PROVE  AnswerInv'
<1> SUFFICES ASSUME NEW r, r = request[p],
                    NEW w, w = ReserveWallet(r),
                    NEW t, t = ReserveTransaction(r),
                    NEW o, o = NewOrder(r, Len(ledger) + 1),
                    NEW row, row = Len(orders) + 1
             PROVE  AnswerInv'
  OBVIOUS
<1>1. CASE Refuse(p, "integrity_error") /\ numeric(reserved_amount(r)) = 0
  <2>1. r.op = "create"
    BY DEF CreateCommit, At
  <2> QED
    BY <1>1, <2>1, RollbackAnswers DEF Refuse
<1>2. CASE Commit(p, "created", row)
  <2>1. /\ r.op = "create"
        /\ ledger' = Append(ledger, t)
        /\ orders' = Append(orders, o)
    BY <1>2 DEF CreateCommit, At, Refuse, Rollback, Close, Commit, Inv, TypeOK
  <2>2. Len(ledger) + 1 \in Nat /\ orders \in Seq(Order)
    BY DEF Inv, TypeOK
  <2>3. r \in OrderCreateRequest /\ w \in WalletIds /\ t \in LedgerTransaction /\ o \in Order
    BY <2>1, <2>2, RequestTypes, ReserveTypes DEF Inv
  <2>4. /\ \A n \in DOMAIN orders : n \in DOMAIN orders' /\ orders'[n] = orders[n]
        /\ DOMAIN orders' = DOMAIN orders \cup {row}
        /\ row \notin DOMAIN orders
        /\ orders'[row] = o
    BY <2>1, <2>2, <2>3, Appending
  <2>5. o.reserved = numeric(reserved_amount(o)) /\ t.type = "order_reserve"
    BY DEF NewOrder, reserved_amount, ReserveTransaction
  <2>6. \A n \in DOMAIN orders' : orders'[n].reserved = numeric(reserved_amount(orders'[n]))
    BY <2>4, <2>5 DEF AnswerInv, RowsAreSound
  <2>7. /\ RowsAreSound'
        /\ \A i \in DOMAIN ledger : i \in DOMAIN ledger' /\ ledger'[i] = ledger[i]
    BY <2>1, <2>3, <2>5, <2>6, SoundLedger DEF Inv, AnswerInv
  <2>8. \A a, n : RowAnswers(a, n) => RowAnswers(a, n)'
    BY <2>4, <2>7, RowsKept DEF Inv
  <2>9. \A v \in WalletIds : wallets'[v].exists = wallets[v].exists
    <3>1. wallets \in [WalletIds -> Wallet]
      BY DEF Inv, TypeOK
    <3>2. wallets' = [wallets EXCEPT
              ![w].available = minus(seen[p].wallet.available, reserved_amount(r)),
              ![w].locked = plus(seen[p].wallet.locked, reserved_amount(r))]
      BY <1>2 DEF CreateCommit, Refuse, Rollback, Close, Commit, Inv, TypeOK
    <3> QED
      BY <2>3, <3>1, <3>2 DEF Wallet
  <2>10. \A q \in Requests : q # p /\ At(q, "fund", "insert_wallet") =>
             LET v == UserWallet(request[q].user, request[q].asset)
             IN  wallets'[v].exists = wallets[v].exists
    BY <2>9, RequestTypes, FundingTypes DEF Inv, At
  <2>11. RowAnswers(r, row)' /\ request'[p] = r
    <3>1. [o EXCEPT !.status = "open"] = NewOrder(r, o.transaction)
      BY DEF NewOrder
    <3>2. row \in DOMAIN orders' /\ orders'[row] = o /\ request'[p] = r
      BY <1>2, <2>4 DEF Commit, Close
    <3> QED
      BY <2>1, <3>1, <3>2 DEF RowAnswers
  <2>12. RowAnswers(request[p], row)'
    BY <2>11
  <2>13. \A a : a.op = request[p].op => ~RowAnswers(a, row)
    BY <2>1, <2>4 DEF RowAnswers
  <2> QED
    BY <1>2, <2>7, <2>8, <2>10, <2>12, <2>13, CommitAnswers
<1> QED
  BY <1>1, <1>2 DEF CreateCommit

LEMMA CancelCommitAnswers ==
    ASSUME Inv, AnswerInv, NEW p \in Requests, CancelCommit(p)
    PROVE  AnswerInv'
<1> SUFFICES ASSUME NEW n, n = request[p].order,
                    NEW w, w = ReserveWallet(orders[n]),
                    NEW t, t = ReleaseTransaction(orders[n]),
                    NEW o, o = [orders[n] EXCEPT !.status = "canceled"]
             PROVE  AnswerInv'
  OBVIOUS
<1>1. /\ request[p].op = "cancel" /\ pc[p] = "commit"
      /\ ledger' = Append(ledger, t)
      /\ orders' = [orders EXCEPT ![n].status = "canceled"]
      /\ Commit(p, "canceled", n)
  BY DEF CancelCommit, At
<1>2. n \in DOMAIN orders /\ n \in Nat /\ orders[n] \in Order /\ orders \in Seq(Order)
  BY <1>1, OrderTypes DEF Inv, CanceledOrderIsOpen, TypeOK
<1>3. w \in WalletIds /\ t \in LedgerTransaction /\ t.type = "order_release"
  BY <1>2, ReleaseTypes DEF ReleaseTransaction
<1>4. /\ DOMAIN orders' = DOMAIN orders
      /\ orders'[n] = o
      /\ \A m \in DOMAIN orders : m # n => orders'[m] = orders[m]
  BY <1>1, <1>2
<1>5. o.reserved = orders[n].reserved /\ reserved_amount(o) = reserved_amount(orders[n])
  BY <1>2 DEF Order, reserved_amount
<1>6. \A m \in DOMAIN orders' : orders'[m].reserved = numeric(reserved_amount(orders'[m]))
  BY <1>2, <1>4, <1>5 DEF AnswerInv, RowsAreSound
<1>7. /\ RowsAreSound'
      /\ \A i \in DOMAIN ledger : i \in DOMAIN ledger' /\ ledger'[i] = ledger[i]
  BY <1>1, <1>3, <1>6, SoundLedger DEF Inv, AnswerInv
<1>8. \A a, m : RowAnswers(a, m) => RowAnswers(a, m)'
  BY <1>4, <1>7, RowsKept DEF Inv
<1>9. \A v \in WalletIds : wallets'[v].exists = wallets[v].exists
  <2>1. wallets \in [WalletIds -> Wallet]
    BY DEF Inv, TypeOK
  <2>2. PICK locked, available :
            wallets' = [wallets EXCEPT ![w].locked = locked, ![w].available = available]
    BY DEF CancelCommit
  <2> QED
    BY <1>3, <2>1, <2>2 DEF Wallet
<1>10. \A q \in Requests : q # p /\ At(q, "fund", "insert_wallet") =>
           LET v == UserWallet(request[q].user, request[q].asset)
           IN  wallets'[v].exists = wallets[v].exists
  BY <1>9, RequestTypes, FundingTypes DEF Inv, At
<1> QED
  BY <1>1, <1>7, <1>8, <1>10, CommitAnswers

LEMMA AnswerNext == Inv /\ AnswerInv /\ [Next]_vars => AnswerInv'
<1> SUFFICES ASSUME Inv, AnswerInv, [Next]_vars PROVE AnswerInv'
  OBVIOUS
<1>1. CASE UNCHANGED vars
  BY <1>1 DEF vars, AnswerInv, RowsAreSound, AnswersAreRows, FirstWalletIsAbsent,
     OnlyKeysCollide, Answered, RowAnswers, PostedKeys, At
<1>2. ASSUME NEW p \in Requests, Serve(p) \/ Abort(p) \/ PoolTimeout(p)
      PROVE  AnswerInv'
  BY <1>2, FundingAnswers, OrderAnswers, SessionAnswers, FundCommitAnswers,
     CreateCommitAnswers, CancelCommitAnswers DEF Serve
<1> QED
  BY <1>1, <1>2 DEF Next, Finished

LEMMA AnswerInvariance == Spec => []AnswerInv
<1>1. Init => AnswerInv
  BY AnswerInit
<1>2. Inv /\ AnswerInv /\ [Next]_vars => AnswerInv'
  BY AnswerNext
<1> QED
  BY <1>1, <1>2, Invariance, PTL DEF Spec

(* However many clients retry, with whatever keys: answers with one row    *)
(* are answers to one request, and at most one of them says "created".     *)
THEOREM Idempotence == Spec => []IdempotentReplies
<1>1. AnswerInv => IdempotentReplies
  BY DEF AnswerInv, AnswersAreRows, RowAnswers, IdempotentReplies
<1> QED
  BY <1>1, AnswerInvariance, PTL

(* The database refuses an INSERT because of a key that is spent, or an    *)
(* amount that rounds to nothing: never because of the user's wallet.      *)
THEOREM WalletsNeverCollide == Spec => []OnlyKeysCollide
<1>1. AnswerInv => OnlyKeysCollide
  BY DEF AnswerInv
<1> QED
  BY <1>1, AnswerInvariance, PTL

-----------------------------------------------------------------------------
(* The order of the locks. *)

LEMMA LockRanks ==
    /\ \A n : LockRank(OrderRow(n)) = 1
    /\ \A a : LockRank(WalletRow(TreasuryWallet(a))) = 2
    /\ \A u \in Users : \A a : LockRank(WalletRow(UserWallet(u, a))) = 3
    /\ \A k : LockRank(KeyClaim(k)) = 4
<1>1. \A n : LockRank(OrderRow(n)) = 1
  BY DEF LockRank, OrderRow
<1>2. \A a : LockRank(WalletRow(TreasuryWallet(a))) = 2
  BY DEF LockRank, WalletRow, TreasuryWallet
<1>3. \A u \in Users : \A a : LockRank(WalletRow(UserWallet(u, a))) = 3
  <2> SUFFICES ASSUME NEW u \in Users, NEW a
               PROVE  LockRank(WalletRow(UserWallet(u, a))) = 3
    OBVIOUS
  <2>1. u # Treasury
    BY SchemaAssumption
  <2> QED
    BY <2>1 DEF LockRank, WalletRow, UserWallet
<1>4. \A k : LockRank(KeyClaim(k)) = 4
  BY DEF LockRank, KeyClaim
<1> QED
  BY <1>1, <1>2, <1>3, <1>4

LEMMA RankTypes ==
    /\ \A row \in Lockables : LockRank(row) \in 1..4
    /\ \A label \in Labels : StatementRank(label) \in 1..5
<1>1. ASSUME NEW row \in Lockables
      PROVE  LockRank(row) \in 1..4
  BY DEF Lockables, LockRank
<1>2. ASSUME NEW label \in Labels
      PROVE  StatementRank(label) \in 1..5
  BY DEF Labels, StatementRank
<1> QED
  BY <1>1, <1>2

(* The wallet that a handler reads under a lock after all others is a      *)
(* user's.                                                                 *)
LEMMA WantedRanks ==
    ASSUME Inv, NEW p \in Requests, NEW row \in Wanted(p)
    PROVE  LockRank(row) = StatementRank(pc[p])
<1> SUFFICES ASSUME NEW r, r = request[p]
             PROVE  LockRank(row) = StatementRank(pc[p])
  OBVIOUS
<1>1. CASE pc[p] = "lock_order"
  <2>1. row = OrderRow(r.order)
    BY <1>1 DEF Wanted
  <2> QED
    BY <1>1, <2>1, LockRanks DEF StatementRank
<1>2. CASE pc[p] = "lock_treasury"
  <2>1. row = WalletRow(TreasuryWallet(r.asset))
    BY <1>2 DEF Wanted
  <2> QED
    BY <1>2, <2>1, LockRanks DEF StatementRank
<1>3. CASE pc[p] \in {"lock_wallet", "insert_wallet"}
  <2>1. \E u \in Users : \E a : row = WalletRow(UserWallet(u, a))
    <3>1. CASE r.op = "fund"
      <4>1. row = WalletRow(UserWallet(r.user, r.asset))
        BY <1>3, <3>1 DEF Wanted
      <4>2. r.user \in Users
        BY <3>1, RequestTypes DEF Inv, FundingRequest
      <4> QED
        BY <4>1, <4>2
    <3>2. CASE r.op = "create"
      <4>1. row = WalletRow(ReserveWallet(r))
        BY <1>3, <3>2 DEF Wanted
      <4>2. r.user \in Users
        BY <3>2, RequestTypes DEF Inv, OrderCreateRequest
      <4> QED
        BY <4>1, <4>2 DEF ReserveWallet
    <3>3. CASE r.op = "cancel"
      <4>1. row = WalletRow(ReserveWallet(orders[r.order]))
        BY <1>3, <3>3 DEF Wanted
      <4>2. pc[p] = "lock_wallet"
        BY <1>3, <3>3 DEF Inv, Validated
      <4>3. orders[r.order].user \in Users
        BY <3>3, <4>2, OrderTypes DEF Inv, CanceledOrderIsOpen, Order
      <4> QED
        BY <4>1, <4>3 DEF ReserveWallet
    <3> QED
      BY <3>1, <3>2, <3>3, RequestTypes DEF Inv
  <2> QED
    BY <1>3, <2>1, LockRanks DEF StatementRank
<1>4. CASE pc[p] = "insert_transaction"
  <2>1. row = KeyClaim(transaction_key(r))
    BY <1>4 DEF Wanted
  <2> QED
    BY <1>4, <2>1, LockRanks DEF StatementRank
<1> QED
  BY <1>1, <1>2, <1>3, <1>4 DEF Wanted

LEMMA InOrder == Inv /\ LockInv => LocksInOrder
BY WantedRanks DEF LockInv, LocksInOrder

(* A statement that takes one lock, or none, and goes on.                  *)
LEMMA GotoRanks ==
    ASSUME Inv, LockInv, NEW p \in Requests, NEW label \in Labels, Goto(p, label),
           StatementRank(pc[p]) <= StatementRank(label),
           \/ UNCHANGED holds
           \/ \E row \in Wanted(p) :
                  Hold(p, row) /\ StatementRank(pc[p]) < StatementRank(label)
    PROVE  LockInv'
<1>1. /\ pc'[p] = label
      /\ \A q \in Requests : q # p => pc'[q] = pc[q] /\ holds'[q] = holds[q]
  BY DEF Goto, Hold, Inv, TypeOK
<1>2. \A held \in holds'[p] : \/ held \in holds[p]
                              \/ /\ LockRank(held) = StatementRank(pc[p])
                                 /\ StatementRank(pc[p]) < StatementRank(label)
  BY WantedRanks DEF Hold, Inv, TypeOK
<1>3. \A held \in holds'[p] : LockRank(held) < StatementRank(label)
  <2> SUFFICES ASSUME NEW held \in holds'[p]
               PROVE  LockRank(held) < StatementRank(label)
    OBVIOUS
  <2>1. CASE held \in holds[p]
    <3>1. held \in Lockables /\ pc[p] \in Labels
      BY <2>1 DEF Inv, TypeOK
    <3>2. /\ LockRank(held) \in 1..4
          /\ StatementRank(pc[p]) \in 1..5 /\ StatementRank(label) \in 1..5
      BY <3>1, RankTypes
    <3>3. LockRank(held) < StatementRank(pc[p])
      BY <2>1 DEF LockInv
    <3> QED
      BY <3>2, <3>3
  <2>2. CASE held \notin holds[p]
    BY <1>2, <2>2
  <2> QED
    BY <2>1, <2>2
<1> QED
  BY <1>1, <1>3 DEF LockInv

(* The end of a transaction lets go of its locks.                          *)
LEMMA CloseRanks ==
    ASSUME Inv, LockInv, NEW p \in Requests, NEW label, NEW outcome, NEW row,
           Close(p, label, outcome, row)
    PROVE  LockInv'
<1>1. /\ holds'[p] = {}
      /\ \A q \in Requests : q # p => pc'[q] = pc[q] /\ holds'[q] = holds[q]
  BY DEF Close, Inv, TypeOK
<1> QED
  BY <1>1 DEF LockInv

LEMMA NextRanks == Inv /\ LockInv /\ [Next]_vars => LockInv'
<1> SUFFICES ASSUME Inv, LockInv, [Next]_vars PROVE LockInv'
  OBVIOUS
<1> USE DEF StatementRank, Labels
<1>1. CASE UNCHANGED vars
  BY <1>1 DEF vars, LockInv
<1>2. ASSUME NEW p \in Requests, Serve(p)
      PROVE  LockInv'
  <2>1. CASE FundBegin(p) \/ CreateBegin(p) \/ CancelBegin(p)
    BY <2>1, GotoRanks, CloseRanks DEF FundBegin, find_funding_replay, CreateBegin,
       existing_order_replay, CancelBegin, At, Refuse, Replay, Rollback
  <2>2. CASE FundLockTreasury(p)
    <3>1. WalletRow(TreasuryWallet(request[p].asset)) \in Wanted(p)
      BY <2>2 DEF FundLockTreasury, At, Wanted
    <3> QED
      BY <2>2, <3>1, GotoRanks, CloseRanks DEF FundLockTreasury, At, LockWallet, Refuse, Rollback
  <2>3. CASE FundLockWallet(p) \/ FundInsertWallet(p)
    <3>1. WalletRow(UserWallet(request[p].user, request[p].asset)) \in Wanted(p)
      BY <2>3 DEF FundLockWallet, FundInsertWallet, At, Wanted
    <3> QED
      BY <2>3, <3>1, GotoRanks, CloseRanks
      DEF FundLockWallet, FundInsertWallet, At, LockWallet, Refuse, Rollback
  <2>4. CASE CreateLockWallet(p)
    <3>1. WalletRow(ReserveWallet(request[p])) \in Wanted(p)
      BY <2>4 DEF CreateLockWallet, At, Wanted
    <3> QED
      BY <2>4, <3>1, GotoRanks, CloseRanks DEF CreateLockWallet, At, LockWallet, Refuse, Rollback
  <2>5. CASE CreateRecheck(p)
    BY <2>5, GotoRanks, CloseRanks DEF CreateRecheck, existing_order_replay, At,
       Refuse, Replay, Rollback
  <2>6. CASE CancelLockOrder(p)
    <3>1. OrderRow(request[p].order) \in Wanted(p)
      BY <2>6 DEF CancelLockOrder, At, Wanted
    <3>2. request[p].order \in DOMAIN orders =>
              orders[request[p].order].status \in {"open", "canceled", "filled"}
      BY OrderTypes DEF Inv, Order
    <3>3. \/ Goto(p, "lock_wallet") /\ Hold(p, OrderRow(request[p].order))
          \/ Rollback(p, "replayed", request[p].order)
          \/ Rollback(p, "not_found", 0)
          \/ Rollback(p, "not_cancelable", 0)
      BY <2>6, <3>2 DEF CancelLockOrder, Refuse, Replay
    <3> QED
      BY <2>6, <3>1, <3>3, GotoRanks, CloseRanks DEF CancelLockOrder, At, Rollback
  <2>7. CASE CancelLockWallet(p)
    <3>1. WalletRow(ReserveWallet(orders[request[p].order])) \in Wanted(p)
      BY <2>7 DEF CancelLockWallet, At, Wanted
    <3> QED
      BY <2>7, <3>1, GotoRanks, CloseRanks DEF CancelLockWallet, At, LockWallet, Refuse, Rollback
  <2>8. CASE InsertTransaction(p)
    <3>1. KeyClaim(transaction_key(request[p])) \in Wanted(p)
      BY <2>8 DEF InsertTransaction, Wanted
    <3> QED
      BY <2>8, <3>1, GotoRanks, CloseRanks DEF InsertTransaction, Refuse, Rollback
  <2>9. CASE FundCommit(p) \/ CreateCommit(p) \/ CancelCommit(p)
    BY <2>9, CloseRanks DEF FundCommit, CreateCommit, CancelCommit, Commit, Refuse, Rollback
  <2>10. CASE Respond(p)
    BY <2>10, GotoRanks DEF Respond
  <2> QED
    BY <1>2, <2>1, <2>2, <2>3, <2>4, <2>5, <2>6, <2>7, <2>8, <2>9, <2>10 DEF Serve
<1>3. ASSUME NEW p \in Requests, Abort(p) \/ PoolTimeout(p)
      PROVE  LockInv'
  BY <1>3, CloseRanks DEF Abort, PoolTimeout, Refuse, Rollback
<1> QED
  BY <1>1, <1>2, <1>3 DEF Next, Finished

LEMMA RanksInvariant == Spec => []LockInv
<1>1. Init => LockInv
  BY DEF Init, SessionInit, LockInv
<1>2. Inv /\ LockInv /\ [Next]_vars => LockInv'
  BY NextRanks
<1> QED
  BY <1>1, <1>2, Invariance, PTL DEF Spec

(* Who waits for a lock holds only locks that rank below it: order rows    *)
(* before treasury wallets, these before the wallets of users, and the     *)
(* unique keys last.                                                       *)
THEOREM LockingOrder == Spec => []LocksInOrder
BY InOrder, Invariance, RanksInvariant, PTL

(* A holder of a lock is in a transaction, and waits for a higher one if   *)
(* for any.                                                                *)
LEMMA Holders ==
    ASSUME Inv, LockInv, NEW p \in Requests, NEW row \in Wanted(p), ~Free(p, row)
    PROVE  \E q \in Requests :
               /\ Connected(q)
               /\ StatementRank(pc[q]) > StatementRank(pc[p])
<1>1. PICK q \in Requests : row \in holds[q]
  BY DEF Free
<1>2. /\ pc[p] \in Labels /\ pc[q] \in Labels /\ row \in Lockables
  BY <1>1 DEF Inv, TypeOK
<1>3. /\ StatementRank(pc[p]) \in 1..5 /\ StatementRank(pc[q]) \in 1..5
      /\ LockRank(row) \in 1..4
  BY <1>2, RankTypes
<1>4. LockRank(row) = StatementRank(pc[p]) /\ LockRank(row) < StatementRank(pc[q])
  BY <1>1, WantedRanks DEF LockInv
<1>5. StatementRank(pc[q]) # 1
  BY <1>3, <1>4
<1>6. Connected(q)
  BY <1>5 DEF Connected, StatementRank
<1> QED
  BY <1>3, <1>4, <1>6

(* Of the handlers that are in a transaction, one at a statement of the    *)
(* highest rank has no lock to wait for.                                   *)
LEMMA HighestIsReady ==
    ASSUME Inv, LockInv, NEW p \in Requests, Connected(p)
    PROVE  \E q \in Requests : Ready(q)
<1> DEFINE Busy(n) == \E q \in Requests : Connected(q) /\ StatementRank(pc[q]) = n
           Found == \E q \in Requests : Ready(q)
<1>1. \A n : Busy(n) => Found \/ \E m \in 1..5 : m > n /\ Busy(m)
  <2> SUFFICES ASSUME NEW q \in Requests, Connected(q), ~Ready(q)
               PROVE  \E m \in 1..5 : m > StatementRank(pc[q]) /\ Busy(m)
    OBVIOUS
  <2>1. PICK row \in Wanted(q) : ~Free(q, row)
    BY DEF Ready, Connected
  <2>2. PICK z \in Requests : Connected(z) /\ StatementRank(pc[z]) > StatementRank(pc[q])
    BY <2>1, Holders
  <2>3. StatementRank(pc[z]) \in 1..5
    BY RankTypes DEF Inv, TypeOK
  <2> QED
    BY <2>2, <2>3
<1>2. \E n \in 1..5 : Busy(n)
  BY RankTypes DEF Inv, TypeOK
<1> HIDE DEF Busy, Found
<1>3. Busy(5) => Found
  BY <1>1
<1>4. Busy(4) => Found
  BY <1>1, <1>3
<1>5. Busy(3) => Found
  BY <1>1, <1>3, <1>4
<1>6. Busy(2) => Found
  BY <1>1, <1>3, <1>4, <1>5
<1>7. Busy(1) => Found
  BY <1>1, <1>3, <1>4, <1>5, <1>6
<1>8. Found
  BY <1>2, <1>3, <1>4, <1>5, <1>6, <1>7
<1> QED
  BY <1>8 DEF Found

(* Nobody waits in a circle: as long as a request is unanswered, some      *)
(* handler needs neither a connection that is taken nor a lock that        *)
(* another holds.                                                          *)
THEOREM NobodyWaitsInACircle == Spec => []SomeoneIsReady
<1>1. Inv /\ LockInv => SomeoneIsReady
  <2> SUFFICES ASSUME Inv, LockInv, NEW p \in Requests, pc[p] # "done"
               PROVE  \E q \in Requests : Ready(q)
    BY DEF SomeoneIsReady
  <2>1. CASE \E q \in Requests : Connected(q)
    BY <2>1, HighestIsReady
  <2>2. CASE \A q \in Requests : ~Connected(q)
    <3>1. {q \in Requests : Connected(q)} = {}
      BY <2>2
    <3>2. ConnectionFree
      BY <3>1, FS_EmptySet, PoolAssumption DEF ConnectionFree
    <3>3. pc[p] \in {"start", "respond"}
      BY <2>2 DEF Connected
    <3>4. Wanted(p) = {}
      BY <3>3 DEF Wanted
    <3> QED
      BY <3>2, <3>4 DEF Ready
  <2> QED
    BY <2>1, <2>2
<1> QED
  BY <1>1, Invariance, RanksInvariant, PTL

=============================================================================
