------------------------------- MODULE Schema -------------------------------
(***************************************************************************)
(* The tables of the ledger database and the rows the services write:      *)
(* wallets, ledger_transactions with their two ledger_entries, orders and  *)
(* outbox_events (app/models), and the requests the API accepts            *)
(* (app/schemas).                                                          *)
(*                                                                         *)
(* Left out, because no service reads or changes them: timestamps, names,  *)
(* descriptions and references; remaining_quantity, which stays equal to   *)
(* quantity; LedgerTransactionStatus, which is always POSTED; and the      *)
(* payload fields that repeat columns of the order.                        *)
(***************************************************************************)
EXTENDS Integers, Sequences, FiniteSets, Amounts

CONSTANTS
    Users,         \* rows of users
    Treasury,      \* the owner of the system account "funding_treasury"
    Assets,        \* the assets a request can name
    ActiveAssets,  \* those that are rows of assets with is_active set
    SeededAssets,  \* those for which the treasury wallet was created
    TreasurySeed,  \* and the available balance it was created with
    FundingKeys,   \* Idempotency-Key headers of funding requests
    OrderKeys,     \* Idempotency-Key headers of order requests
    NoKey,         \* NULL in ledger_transactions.idempotency_key
    FundingInputs, OrderInputs, CancelInputs   \* the requests clients send

Owners    == Users \cup {Treasury}
WalletIds == Owners \X Assets

(* The key of an order's ledger transaction is the SHA-256 digest of       *)
(* "user:key".  Only its being a function of the pair, and injective,      *)
(* matters.                                                                *)
ledger_idempotency_key(user, key) == <<user, key>>

LedgerKeys == FundingKeys \cup (Users \X OrderKeys) \cup {NoKey}

FundingRequest == [op : {"fund"}, user : Users, asset : Assets,
                   amount : Nat, key : FundingKeys]
OrderCreateRequest == [op : {"create"}, user : Users, base : Assets,
                       quote : Assets, side : {"buy", "sell"},
                       price : Nat, quantity : Nat, key : OrderKeys]
CancelRequest == [op : {"cancel"}, user : Users, order : Nat]

active_asset(a) == a \in ActiveAssets

Inputs == FundingInputs \cup OrderInputs \cup CancelInputs

ASSUME SchemaAssumption ==
    /\ Treasury \notin Users
    /\ ActiveAssets \subseteq Assets
    /\ SeededAssets \subseteq Assets
    /\ TreasurySeed \in [SeededAssets -> Nat]
    /\ NoKey \notin FundingKeys
    /\ NoKey \notin Users \X OrderKeys
    /\ FundingInputs \subseteq FundingRequest
    /\ OrderInputs \subseteq OrderCreateRequest
    /\ CancelInputs \subseteq CancelRequest

-----------------------------------------------------------------------------
(* Wallets: a total function, with an "exists" flag for the rows present.  *)

Wallet == [exists : BOOLEAN, available : Nat, locked : Nat]

NoWallet == [exists |-> FALSE, available |-> 0, locked |-> 0]

TreasuryWallet(asset) == <<Treasury, asset>>
UserWallet(user, asset) == <<user, asset>>

SeededWallets ==
    [w \in WalletIds |->
        IF w[1] = Treasury /\ w[2] \in SeededAssets
        THEN [exists |-> TRUE, available |-> TreasurySeed[w[2]], locked |-> 0]
        ELSE NoWallet]

(* Supply: no balance comes so near to Precision that a unit has no digit  *)
(* after it.  In the program these are 10^9 coins of an asset, of which    *)
(* the development treasury holds 10^6 at most, with as many units added   *)
(* as there are keys of orders (MoneyIsAccounted in AtomicLedger).         *)
ASSUME SupplyAssumption ==
    /\ IsFiniteSet(Users) /\ IsFiniteSet(OrderKeys)
    /\ \A a \in Assets :
           Base * (SeededWallets[TreasuryWallet(a)].available
                      + Cardinality(Users \X OrderKeys)) < Precision

-----------------------------------------------------------------------------
(* Ledger transactions: each posts one debit and one credit entry.         *)

LedgerEntry == [wallet : WalletIds, bucket : {"available", "locked"}, amount : Nat]

LedgerTransaction ==
    [type   : {"funding", "order_reserve", "order_release"},
     key    : LedgerKeys,
     debit  : LedgerEntry,
     credit : LedgerEntry]

Entry(w, bucket, amount) == [wallet |-> w, bucket |-> bucket, amount |-> amount]

FundingTransaction(r) ==
    [type   |-> "funding",
     key    |-> r.key,
     debit  |-> Entry(TreasuryWallet(r.asset), "available", r.amount),
     credit |-> Entry(UserWallet(r.user, r.asset), "available", r.amount)]

(* Shared by requests and orders, which have the same fields. *)
reserve_asset(o)   == IF o.side = "buy" THEN o.quote ELSE o.base
ReserveWallet(o)   == UserWallet(o.user, reserve_asset(o))
reserved_amount(r) == reservation_amount(r.side, r.price, r.quantity)

(* Fault: the ledger entries are posted before the amount is rounded. *)
ReserveTransactionTruncated(r) ==
    [type   |-> "order_reserve",
     key    |-> ledger_idempotency_key(r.user, r.key),
     debit  |-> Entry(ReserveWallet(r), "available", reserved_amount(r) \div Scale),
     credit |-> Entry(ReserveWallet(r), "locked", reserved_amount(r) \div Scale)]

ReserveTransaction(r) ==
    LET w == ReserveWallet(r)
        stored == numeric(reserved_amount(r))
    IN  [type   |-> "order_reserve",
         key    |-> ledger_idempotency_key(r.user, r.key),
         debit  |-> Entry(w, "available", stored),
         credit |-> Entry(w, "locked", stored)]

ReleaseTransaction(o) ==
    [type   |-> "order_release",
     key    |-> NoKey,
     debit  |-> Entry(ReserveWallet(o), "locked", o.reserved),
     credit |-> Entry(ReserveWallet(o), "available", o.reserved)]

-----------------------------------------------------------------------------
(* Orders, identified by their position in the order of their commits.     *)

Order == [user : Users, base : Assets, quote : Assets, side : {"buy", "sell"},
          price : Nat, quantity : Nat, key : OrderKeys, reserved : Nat,
          status : {"open", "canceled", "filled"}, transaction : Nat]

(* Fault: the order records the quantity as its reservation. *)
NewOrderReservingQuantity(r, transaction) ==
    [user |-> r.user, base |-> r.base, quote |-> r.quote, side |-> r.side,
     price |-> r.price, quantity |-> r.quantity, key |-> r.key,
     reserved |-> r.quantity, status |-> "open", transaction |-> transaction]

NewOrder(r, transaction) ==
    [user |-> r.user, base |-> r.base, quote |-> r.quote, side |-> r.side,
     price |-> r.price, quantity |-> r.quantity, key |-> r.key,
     reserved |-> numeric(reserved_amount(r)),
     status |-> "open", transaction |-> transaction]

-----------------------------------------------------------------------------
(* Outbox events.  The reserved amount of the payload is in fine units:    *)
(* order.created formats the Decimal before the column rounds it,          *)
(* order.canceled formats what the order's row stores.                     *)

OutboxEvent == [type : {"order.created", "order.canceled"}, order : Nat,
                reserved : Nat]

event_key(e) == <<e.type, e.order>>

CreatedEvent(id, r)  == [type |-> "order.created", order |-> id,
                         reserved |-> reserved_amount(r)]

(* Fault: the cancellation tells the quantity. *)
CanceledEventOfQuantity(id, o) == [type |-> "order.canceled", order |-> id,
                                   reserved |-> Fine(o.quantity)]

CanceledEvent(id, o) == [type |-> "order.canceled", order |-> id,
                         reserved |-> Fine(o.reserved)]

=============================================================================
