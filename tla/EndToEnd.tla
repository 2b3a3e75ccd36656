------------------------------ MODULE EndToEnd ------------------------------
(***************************************************************************)
(* The ledger and the relay together: what the exchange is told of the     *)
(* orders.  A transaction of the API changes the rows of module            *)
(* AtomicLedger and inserts its event in the same commit; the relays of    *)
(* module Relay read the rows that are committed, and nothing else.        *)
(*                                                                         *)
(* Bound: OrderIds are the orders that can be created.                     *)
(***************************************************************************)
EXTENDS Relay, Schema

VARIABLES wallets, ledger, orders, outbox

Ledger == INSTANCE AtomicLedger

database    == <<wallets, ledger, orders, outbox>>
relay_vars  == vars
system_vars == <<relay_vars, database>>

ASSUME EndToEndAssumption == OrderIds \subseteq Nat \ {0}

SystemInit == Init /\ Ledger!Init

(* A funding has no event. *)
CommitFunding ==
    /\ \E r \in FundingInputs : Ledger!Fund(r)
    /\ UNCHANGED relay_vars

Created(i)  == <<"order.created", i>>
Canceled(i) == <<"order.canceled", i>>

CommitCreation(i) ==
    /\ i = Len(orders) + 1
    /\ enqueue_outbox_event(Created(i))
    /\ \E r \in OrderInputs : Ledger!Reserve(r)

(* Fault: the event is committed by a transaction of its own. *)
CommitEventAlone(i) ==
    /\ enqueue_outbox_event(Canceled(i))
    /\ UNCHANGED database

CommitCancellation(i) ==
    /\ enqueue_outbox_event(Canceled(i))
    /\ \E r \in CancelInputs : r.order = i /\ Ledger!Release(r)

(* What the relays and the clock do changes no row of the ledger. *)
RelayStep ==
    /\ \/ \E e \in Events : Begin(e) \/ NoticeDeath(e)
       \/ \E r \in Relays : Turn(r) \/ Crash(r)
    /\ UNCHANGED database

SystemNext ==
    \/ CommitFunding
    \/ \E i \in OrderIds : CommitCreation(i) \/ CommitCancellation(i)
    \/ RelayStep

SystemSpec == SystemInit /\ [][SystemNext]_system_vars

(* The fairness of the relays, as in module Relay. *)
FairSystemSpec ==
    /\ SystemSpec
    /\ \A r \in Relays : WF_system_vars(Turn(r) /\ UNCHANGED database)
    /\ \A e \in Events : WF_system_vars(NoticeDeath(e) /\ UNCHANGED database)

-----------------------------------------------------------------------------
(* What consumers make of the messages when they handle each event_key     *)
(* once, as README.md:41 asks them to, and let a cancellation be final.    *)

told_status(i) ==
    IF sent[Canceled(i)] > 0 THEN "canceled"
    ELSE IF sent[Created(i)] > 0 THEN "open" ELSE "unknown"

status(i) == IF i \in DOMAIN orders THEN orders[i].status ELSE "unknown"

(* The rows the relay reads are those the transactions wrote, and what is  *)
(* sent has a row: the inductive invariant.                                *)
RowsMatchOrders ==
    \A i \in OrderIds :
        /\ rows[Created(i)].exists <=> i \in DOMAIN orders
        /\ rows[Canceled(i)].exists <=> status(i) = "canceled"
        /\ \A e \in {Created(i), Canceled(i)} :
               /\ sent[e] > 0 => rows[e].exists
               /\ rows[e].published => sent[e] > 0

(* The rows of the relays are the rows that the API has added to the       *)
(* outbox: each (type, order) once, and no other.                          *)
RowsAreEvents ==
    /\ \A n \in DOMAIN outbox : event_key(outbox[n]) \in Events
    /\ \A e \in Events :
           Cardinality({n \in DOMAIN outbox : event_key(outbox[n]) = e})
               = IF rows[e].exists THEN 1 ELSE 0

(* What the relays work on is what the transactions of the API wrote.      *)
RowsMatchDatabase == RowsMatchOrders /\ RowsAreEvents

(* Nothing is told that the ledger takes back: consumers may be behind,    *)
(* never ahead, however messages are repeated and whoever publishes which  *)
(* event first; and once the relay has marked what is there, they agree    *)
(* with the ledger.                                                        *)
ConsumersAreBehind ==
    \A i \in OrderIds :
        /\ told_status(i) = "canceled" => status(i) = "canceled"
        /\ told_status(i) = "open" => status(i) \in {"open", "canceled"}
        /\ (\A e \in {Created(i), Canceled(i)} : rows[e].exists => rows[e].published)
               => told_status(i) = status(i)

(* What consumers believe is locked, who add the amount of every creation  *)
(* they were told and subtract that of every cancellation, each once.      *)
told_locked(w) ==
    Ledger!SumOf([n \in DOMAIN outbox |->
        IF \/ sent[event_key(outbox[n])] = 0
           \/ ReserveWallet(orders[outbox[n].order]) # w THEN 0
        ELSE IF outbox[n].type = "order.created" THEN outbox[n].reserved
        ELSE -outbox[n].reserved])

(* When the relay has marked what is there, they know every locked balance *)
(* but for what was rounded: for each order whose amount is no whole       *)
(* number of units, they believe half a unit more at most, or one less.    *)
AmountsAreTold ==
    (\A e \in Events : rows[e].exists => rows[e].published) =>
        \A w \in WalletIds :
            LET error == told_locked(w) - Fine(wallets[w].locked)
                most  == Fine(Ledger!Inexact(w))
            IN  -most <= error /\ 2 * error <= most

(* A cancellation that was committed reaches the exchange at last, through *)
(* failures of the broker and deaths of the relay that are finitely many.  *)
CancellationIsTold ==
    \A i \in OrderIds : status(i) = "canceled" ~> told_status(i) = "canceled"

=============================================================================
