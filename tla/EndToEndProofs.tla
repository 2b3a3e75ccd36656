--------------------------- MODULE EndToEndProofs ---------------------------
(***************************************************************************)
(* Proofs about the ledger and the relays together, for any number of      *)
(* relays, orders, users and failures.                                     *)
(***************************************************************************)
EXTENDS EndToEnd, RelayProofs, SchemaProofs, SequenceTheorems, FiniteSetTheorems

(* Each order has two events of its own.                                   *)
LEMMA EventPairs ==
    ASSUME NEW i \in OrderIds, NEW j \in OrderIds
    PROVE  /\ Created(i) \in Events /\ Canceled(i) \in Events
           /\ Created(i) # Canceled(j)
           /\ Created(i) = Created(j) <=> i = j
           /\ Canceled(i) = Canceled(j) <=> i = j
BY DEF Events, Created, Canceled

-----------------------------------------------------------------------------
(* Both components behave in the system as they do alone.                  *)

LEMMA RelaySide == [SystemNext]_system_vars => [Next]_vars
<1> SUFFICES ASSUME [SystemNext]_system_vars PROVE [Next]_vars
  OBVIOUS
<1>1. CASE CommitFunding
  BY <1>1 DEF CommitFunding, relay_vars
<1>2. ASSUME NEW i \in OrderIds, CommitCreation(i) \/ CommitCancellation(i)
      PROVE  Next
  BY <1>2, EventPairs DEF CommitCreation, CommitCancellation, Next
<1>3. CASE RelayStep
  BY <1>3 DEF RelayStep, Next
<1>4. CASE UNCHANGED system_vars
  BY <1>4 DEF system_vars, relay_vars
<1> QED
  BY <1>1, <1>2, <1>3, <1>4 DEF SystemNext

LEMMA LedgerSide == [SystemNext]_system_vars => [Ledger!Next]_database
<1> SUFFICES ASSUME [SystemNext]_system_vars PROVE [Ledger!Next]_database
  OBVIOUS
<1>1. CASE CommitFunding
  BY <1>1 DEF CommitFunding, Ledger!Next
<1>2. ASSUME NEW i \in OrderIds, CommitCreation(i) \/ CommitCancellation(i)
      PROVE  Ledger!Next
  BY <1>2 DEF CommitCreation, CommitCancellation, Ledger!Next
<1>3. CASE RelayStep
  BY <1>3 DEF RelayStep
<1>4. CASE UNCHANGED system_vars
  BY <1>4 DEF system_vars
<1> QED
  BY <1>1, <1>2, <1>3, <1>4 DEF SystemNext

(* Committing an event with its rows, and reading only what is committed,  *)
(* interferes with neither side: what holds of the relays for any API, and *)
(* of the ledger for any reader of its outbox, holds of the two together.  *)
THEOREM ComponentsKept == SystemSpec => Spec /\ Ledger!Spec
<1>1. SystemInit => Init /\ Ledger!Init
  BY DEF SystemInit
<1>2. [SystemNext]_system_vars => [Ledger!Next]_(Ledger!database)
  BY LedgerSide DEF database, Ledger!database
<1> QED
  BY <1>1, <1>2, RelaySide, PTL DEF SystemSpec, Spec, Ledger!Spec

(* A single relay, whose locks die with it, tells no cancellation before   *)
(* the creation of the order has been published.                           *)
THEOREM SystemKeepsOrder ==
    ASSUME ~LocksLinger, \A r, s \in Relays : r = s
    PROVE  SystemSpec => []CreatedFirst
BY ComponentsKept, SoleRelayKeepsOrder, PTL

-----------------------------------------------------------------------------
(* The arithmetic of Ledger is that of this module.                        *)
LEMMA SameAmounts ==
    /\ \A n : Ledger!power(n) = power(n)
    /\ \A x : /\ Ledger!quantum(x) = quantum(x) /\ Ledger!context(x) = context(x)
              /\ Ledger!numeric(x) = numeric(x) /\ Ledger!Fine(x) = Fine(x)
    /\ \A r : Ledger!reserved_amount(r) = reserved_amount(r)
<1>1. \A n : Ledger!power(n) = power(n)
  BY DEF Ledger!power, power
<1>2. \A x : Ledger!quantum(x) = quantum(x)
  BY <1>1 DEF Ledger!quantum, quantum
<1>3. \A x : Ledger!context(x) = context(x)
  BY <1>2 DEF Ledger!context, context
<1>4. \A x : Ledger!numeric(x) = numeric(x) /\ Ledger!Fine(x) = Fine(x)
  BY DEF Ledger!numeric, numeric, Ledger!Fine, Fine
<1>5. \A r : Ledger!reserved_amount(r) = reserved_amount(r)
  BY <1>3, <1>4 DEF Ledger!reserved_amount, reserved_amount,
     Ledger!reservation_amount, reservation_amount
<1> QED
  BY <1>1, <1>2, <1>3, <1>4, <1>5

(* What a commit does to the orders.                                       *)

OrdersTyped ==
    /\ ledger \in Seq(LedgerTransaction)
    /\ orders \in Seq(Order)
    /\ \A n \in DOMAIN orders : orders[n].status \in {"open", "canceled"}

LEMMA FundingKeepsOrders ==
    ASSUME OrdersTyped, NEW r \in FundingInputs, Ledger!Fund(r)
    PROVE  OrdersTyped' /\ UNCHANGED orders
<1>1. FundingTransaction(r) \in LedgerTransaction
  BY SchemaAssumption, FundingRowTypes
<1>2. /\ ledger' = Append(ledger, FundingTransaction(r))
      /\ UNCHANGED orders
  BY DEF Ledger!Fund, Ledger!FundingTransaction, FundingTransaction, Ledger!Entry, Entry,
         Ledger!TreasuryWallet, TreasuryWallet, Ledger!UserWallet, UserWallet
<1> QED
  BY <1>1, <1>2 DEF OrdersTyped

LEMMA CreationAppends ==
    ASSUME OrdersTyped, NEW r \in OrderInputs, Ledger!Reserve(r)
    PROVE  /\ OrdersTyped'
           /\ DOMAIN orders' = DOMAIN orders \cup {Len(orders) + 1}
           /\ Len(orders) + 1 \notin DOMAIN orders
           /\ orders'[Len(orders) + 1].status = "open"
           /\ \A n \in DOMAIN orders : orders'[n] = orders[n]
<1> SUFFICES ASSUME NEW o, o = NewOrder(r, Len(ledger) + 1),
                    NEW t, t = ReserveTransaction(r)
             PROVE  /\ OrdersTyped'
                    /\ DOMAIN orders' = DOMAIN orders \cup {Len(orders) + 1}
                    /\ Len(orders) + 1 \notin DOMAIN orders
                    /\ orders'[Len(orders) + 1].status = "open"
                    /\ \A n \in DOMAIN orders : orders'[n] = orders[n]
  OBVIOUS
<1>1. Len(ledger) + 1 \in Nat
  BY DEF OrdersTyped
<1>2. o \in Order /\ t \in LedgerTransaction
  BY <1>1, SchemaAssumption, ReserveRowTypes
<1>3. o.status = "open"
  BY DEF NewOrder
<1>4. /\ ledger' = Append(ledger, t)
      /\ orders' = Append(orders, o)
  BY SameAmounts
  DEF Ledger!Reserve, Ledger!ReserveWallet, ReserveWallet, Ledger!UserWallet, UserWallet,
      Ledger!reserve_asset, reserve_asset,
      Ledger!ledger_idempotency_key, ledger_idempotency_key,
      Ledger!ReserveTransaction, ReserveTransaction, Ledger!Entry, Entry,
      Ledger!NewOrder, NewOrder
<1>5. /\ ledger' \in Seq(LedgerTransaction)
      /\ orders' \in Seq(Order)
      /\ DOMAIN orders' = DOMAIN orders \cup {Len(orders) + 1}
      /\ Len(orders) + 1 \notin DOMAIN orders
      /\ orders'[Len(orders) + 1] = o
      /\ \A n \in DOMAIN orders : orders'[n] = orders[n]
  BY <1>2, <1>4 DEF OrdersTyped
<1> QED
  BY <1>3, <1>5 DEF OrdersTyped

LEMMA CancellationMarks ==
    ASSUME OrdersTyped, NEW r \in CancelInputs, Ledger!Release(r)
    PROVE  /\ OrdersTyped'
           /\ r.order \in DOMAIN orders
           /\ DOMAIN orders' = DOMAIN orders
           /\ orders'[r.order].status = "canceled"
           /\ \A n \in DOMAIN orders : n # r.order => orders'[n] = orders[n]
<1> SUFFICES ASSUME NEW n, n = r.order,
                    NEW o, o = [orders[n] EXCEPT !.status = "canceled"],
                    NEW t, t = ReleaseTransaction(orders[n])
             PROVE  /\ OrdersTyped'
                    /\ n \in DOMAIN orders
                    /\ DOMAIN orders' = DOMAIN orders
                    /\ orders'[n].status = "canceled"
                    /\ \A m \in DOMAIN orders : m # n => orders'[m] = orders[m]
  OBVIOUS
<1>1. /\ n \in DOMAIN orders
      /\ ledger' = Append(ledger, t)
      /\ orders' = [orders EXCEPT ![n].status = "canceled"]
  BY DEF Ledger!Release, Ledger!ReserveWallet, ReserveWallet, Ledger!UserWallet, UserWallet,
         Ledger!reserve_asset, reserve_asset,
         Ledger!ReleaseTransaction, ReleaseTransaction, Ledger!Entry, Entry
<1>2. n \in 1 .. Len(orders) /\ orders[n] \in Order
  BY <1>1 DEF OrdersTyped
<1>3. o \in Order /\ o.status = "canceled" /\ orders' = [orders EXCEPT ![n] = o]
  BY <1>1, <1>2 DEF Order
<1>4. t \in LedgerTransaction
  BY <1>2, ReleaseTypes
<1>5. /\ [orders EXCEPT ![n] = o] \in Seq(Order)
      /\ Len([orders EXCEPT ![n] = o]) = Len(orders)
      /\ \A m \in 1 .. Len(orders) :
             [orders EXCEPT ![n] = o][m] = IF m = n THEN o ELSE orders[m]
  BY <1>2, <1>3, ExceptSeq DEF OrdersTyped
<1>6. ledger' \in Seq(LedgerTransaction)
  BY <1>1, <1>4 DEF OrdersTyped
<1>7. DOMAIN orders = 1 .. Len(orders) /\ DOMAIN orders' = 1 .. Len(orders)
  BY <1>3, <1>5 DEF OrdersTyped
<1>8. \A m \in DOMAIN orders : orders'[m] = IF m = n THEN o ELSE orders[m]
  BY <1>3, <1>5, <1>7
<1>9. OrdersTyped'
  BY <1>3, <1>5, <1>6, <1>7, <1>8 DEF OrdersTyped
<1> QED
  BY <1>1, <1>3, <1>7, <1>8, <1>9

-----------------------------------------------------------------------------
(* What is inserted, sent and marked.                                      *)

LEMMA Inserting ==
    ASSUME RelayInv, NEW e \in Events, enqueue_outbox_event(e)
    PROVE  /\ ~rows[e].exists /\ rows'[e].exists
           /\ rows'[e].published = rows[e].published
           /\ \A d \in Events : d # e => rows'[d] = rows[d]
           /\ UNCHANGED sent
BY DEF RelayInv, TypeOK, Row, enqueue_outbox_event

(* What is sent has a row and what is marked was sent, whatever a relay    *)
(* does; and no relay inserts or deletes a row.                            *)
SentHasRow(e) ==
    /\ sent[e] > 0 => rows[e].exists
    /\ rows[e].published => sent[e] > 0

LEMMA Delivering ==
    ASSUME RelayInv, RelayStep, NEW e \in Events, SentHasRow(e)
    PROVE  SentHasRow(e)' /\ (rows'[e].exists <=> rows[e].exists)
<1>1. ASSUME NEW d \in Events, Begin(d) \/ NoticeDeath(d)
      PROVE  UNCHANGED <<rows, sent>>
  BY <1>1 DEF Begin, NoticeDeath
<1>2. ASSUME NEW r \in Relays,
             Start(r) \/ Claim(r) \/ Sleep(r) \/ Refused(r) \/ Crash(r)
      PROVE  UNCHANGED <<rows, sent>>
  BY <1>2 DEF Start, Claim, Sleep, vars, Refused, Goto, Crash
<1>3. ASSUME NEW r \in Relays, Confirmed(r) \/ Unconfirmed(r)
      PROVE  SentHasRow(e)' /\ (rows'[e].exists <=> rows[e].exists)
  <2>1. /\ UNCHANGED rows
        /\ sent' = [sent EXCEPT ![relays[r].event] = @ + 1]
        /\ relays[r].at = "publishing"
    BY <1>3 DEF Confirmed, Unconfirmed, Goto, Accept
  <2>2. relays[r].event \in Events /\ rows[relays[r].event].exists
    BY <2>1, HeldEvent DEF RelayInv, ClaimsExclude
  <2>3. \A d \in Events : sent'[d] = IF d = relays[r].event THEN sent[d] + 1 ELSE sent[d]
    BY <2>1, <2>2 DEF RelayInv, TypeOK
  <2> QED
    BY <2>1, <2>2, <2>3 DEF SentHasRow, RelayInv, TypeOK
<1>4. ASSUME NEW r \in Relays, MarkPublished(r) \/ RecordError(r)
      PROVE  SentHasRow(e)' /\ (rows'[e].exists <=> rows[e].exists)
  <2>1. PICK published \in BOOLEAN :
            /\ EndTurn(r, published)
            /\ relays[r].at = IF published THEN "delivered" ELSE "failed"
    BY <1>4 DEF MarkPublished, RecordError
  <2>2. relays[r].event \in Events /\ (published => sent[relays[r].event] > 0)
    BY <2>1, HeldEvent DEF RelayInv, DeliveredWasSent
  <2>3. /\ UNCHANGED sent
        /\ rows'[relays[r].event].published = published
        /\ rows'[relays[r].event].exists = rows[relays[r].event].exists
        /\ \A d \in Events : d # relays[r].event => rows'[d] = rows[d]
    BY <2>1, <2>2 DEF EndTurn, RelayInv, TypeOK, Row
  <2> QED
    BY <2>2, <2>3 DEF SentHasRow
<1> QED
  BY <1>1, <1>2, <1>3, <1>4 DEF RelayStep, Turn, SentHasRow

-----------------------------------------------------------------------------
(* The inductive invariant.                                                *)

SystemInv == RelayInv /\ OrdersTyped /\ RowsMatchOrders

LEMMA SystemInitInv == SystemInit => SystemInv
<1> SUFFICES ASSUME SystemInit PROVE SystemInv
  OBVIOUS
<1>1. RelayInv
  BY InitInv DEF SystemInit
<1>2. orders = <<>> /\ ledger = <<>>
  BY DEF SystemInit, Ledger!Init
<1>3. OrdersTyped
  BY <1>2 DEF OrdersTyped
<1>4. \A e \in Events : ~rows[e].exists /\ ~rows[e].published /\ sent[e] = 0
  BY DEF SystemInit, Init, NoRow
<1>5. RowsMatchOrders
  BY <1>2, <1>4, EventPairs DEF RowsMatchOrders, status
<1> QED
  BY <1>1, <1>3, <1>5 DEF SystemInv

LEMMA CreationMatches ==
    ASSUME SystemInv, NEW i \in OrderIds, CommitCreation(i)
    PROVE  OrdersTyped' /\ RowsMatchOrders'
<1>1. PICK r \in OrderInputs : Ledger!Reserve(r)
  BY DEF CommitCreation
<1>2. /\ OrdersTyped'
      /\ i \notin DOMAIN orders
      /\ DOMAIN orders' = DOMAIN orders \cup {i}
      /\ orders'[i].status = "open"
      /\ \A n \in DOMAIN orders : orders'[n] = orders[n]
  BY <1>1, CreationAppends DEF SystemInv, CommitCreation
<1>3. Created(i) \in Events /\ enqueue_outbox_event(Created(i))
  BY EventPairs DEF CommitCreation
<1>4. /\ rows'[Created(i)].exists /\ ~rows[Created(i)].exists
      /\ rows'[Created(i)].published = rows[Created(i)].published
      /\ \A d \in Events : d # Created(i) => rows'[d] = rows[d]
      /\ UNCHANGED sent
  BY <1>3, Inserting DEF SystemInv
<1>5. \A j \in OrderIds : status(j)' = IF j = i THEN "open" ELSE status(j)
  BY <1>2 DEF status
<1>6. status(i) = "unknown"
  BY <1>2 DEF status
<1>7. RowsMatchOrders'
  <2> SUFFICES ASSUME NEW j \in OrderIds
               PROVE  /\ rows'[Created(j)].exists <=> j \in DOMAIN orders'
                      /\ rows'[Canceled(j)].exists <=> status(j)' = "canceled"
                      /\ \A e \in {Created(j), Canceled(j)} :
                             /\ sent'[e] > 0 => rows'[e].exists
                             /\ rows'[e].published => sent'[e] > 0
    BY DEF RowsMatchOrders, Created, Canceled
  <2>1. /\ rows'[Canceled(j)] = rows[Canceled(j)]
        /\ j # i => rows'[Created(j)] = rows[Created(j)]
    BY <1>4, EventPairs
  <2> QED
    BY <1>2, <1>4, <1>5, <1>6, <2>1 DEF SystemInv, RowsMatchOrders
<1> QED
  BY <1>2, <1>7

LEMMA CancellationMatches ==
    ASSUME SystemInv, NEW i \in OrderIds, CommitCancellation(i)
    PROVE  OrdersTyped' /\ RowsMatchOrders'
<1>1. PICK r \in CancelInputs : r.order = i /\ Ledger!Release(r)
  BY DEF CommitCancellation
<1>2. /\ OrdersTyped'
      /\ i \in DOMAIN orders
      /\ DOMAIN orders' = DOMAIN orders
      /\ orders'[i].status = "canceled"
      /\ \A n \in DOMAIN orders : n # i => orders'[n] = orders[n]
  BY <1>1, CancellationMarks DEF SystemInv
<1>3. Canceled(i) \in Events /\ enqueue_outbox_event(Canceled(i))
  BY EventPairs DEF CommitCancellation
<1>4. /\ rows'[Canceled(i)].exists
      /\ rows'[Canceled(i)].published = rows[Canceled(i)].published
      /\ \A d \in Events : d # Canceled(i) => rows'[d] = rows[d]
      /\ UNCHANGED sent
  BY <1>3, Inserting DEF SystemInv
<1>5. \A j \in OrderIds : status(j)' = IF j = i THEN "canceled" ELSE status(j)
  BY <1>2 DEF status
<1>6. RowsMatchOrders'
  <2> SUFFICES ASSUME NEW j \in OrderIds
               PROVE  /\ rows'[Created(j)].exists <=> j \in DOMAIN orders'
                      /\ rows'[Canceled(j)].exists <=> status(j)' = "canceled"
                      /\ \A e \in {Created(j), Canceled(j)} :
                             /\ sent'[e] > 0 => rows'[e].exists
                             /\ rows'[e].published => sent'[e] > 0
    BY DEF RowsMatchOrders, Created, Canceled
  <2>1. /\ rows'[Created(j)] = rows[Created(j)]
        /\ j # i => rows'[Canceled(j)] = rows[Canceled(j)]
    BY <1>4, EventPairs
  <2> QED
    BY <1>2, <1>4, <1>5, <2>1 DEF SystemInv, RowsMatchOrders
<1> QED
  BY <1>2, <1>6

LEMMA RelayStepMatches ==
    ASSUME SystemInv, RelayStep
    PROVE  OrdersTyped' /\ RowsMatchOrders'
<1>1. UNCHANGED <<ledger, orders>>
  BY DEF RelayStep, database
<1>2. \A i \in OrderIds : \A e \in {Created(i), Canceled(i)} : e \in Events /\ SentHasRow(e)
  BY EventPairs DEF SystemInv, RowsMatchOrders, SentHasRow
<1>3. \A i \in OrderIds : \A e \in {Created(i), Canceled(i)} :
          SentHasRow(e)' /\ (rows'[e].exists <=> rows[e].exists)
  BY <1>2, Delivering DEF SystemInv
<1>4. \A i \in OrderIds : status(i)' = status(i)
  BY <1>1 DEF status
<1> QED
  BY <1>1, <1>3, <1>4 DEF SystemInv, OrdersTyped, RowsMatchOrders, SentHasRow, Created, Canceled

LEMMA SystemNextInv == SystemInv /\ [SystemNext]_system_vars => SystemInv'
<1> SUFFICES ASSUME SystemInv, [SystemNext]_system_vars PROVE SystemInv'
  OBVIOUS
<1>1. RelayInv'
  BY RelaySide, NextInv DEF SystemInv
<1>2. CASE CommitFunding
  <2>1. PICK r \in FundingInputs : Ledger!Fund(r)
    BY <1>2 DEF CommitFunding
  <2>2. OrdersTyped' /\ UNCHANGED orders /\ UNCHANGED <<rows, sent>>
    BY <1>2, <2>1, FundingKeepsOrders DEF SystemInv, CommitFunding, relay_vars, vars
  <2>3. \A i \in OrderIds : status(i)' = status(i)
    BY <2>2 DEF status
  <2>4. RowsMatchOrders'
    BY <2>2, <2>3 DEF SystemInv, RowsMatchOrders, Created, Canceled
  <2> QED
    BY <1>1, <2>2, <2>4 DEF SystemInv
<1>3. ASSUME NEW i \in OrderIds, CommitCreation(i) \/ CommitCancellation(i)
      PROVE  SystemInv'
  BY <1>1, <1>3, CreationMatches, CancellationMatches DEF SystemInv
<1>4. CASE RelayStep
  BY <1>1, <1>4, RelayStepMatches DEF SystemInv
<1>5. CASE UNCHANGED system_vars
  <2>1. UNCHANGED <<ledger, orders, rows, sent>>
    BY <1>5 DEF system_vars, relay_vars, vars, database
  <2>2. \A i \in OrderIds : status(i)' = status(i)
    BY <2>1 DEF status
  <2> QED
    BY <1>1, <2>1, <2>2 DEF SystemInv, OrdersTyped, RowsMatchOrders, Created, Canceled
<1> QED
  BY <1>2, <1>3, <1>4, <1>5 DEF SystemNext

LEMMA SystemInvariance == SystemSpec => []SystemInv
<1>1. SystemInit => SystemInv
  BY SystemInitInv
<1>2. SystemInv /\ [SystemNext]_system_vars => SystemInv'
  BY SystemNextInv
<1> QED
  BY <1>1, <1>2, PTL DEF SystemSpec

(* A consumer that handles each event_key once and takes a cancellation as *)
(* final is never ahead of the ledger, however many relays publish in      *)
(* whatever order, and agrees with it about an order whose rows are        *)
(* marked.                                                                 *)
THEOREM NeverAhead == SystemSpec => []ConsumersAreBehind
<1>1. SystemInv => ConsumersAreBehind
  <2> SUFFICES ASSUME SystemInv, NEW i \in OrderIds
               PROVE  /\ told_status(i) = "canceled" => status(i) = "canceled"
                      /\ told_status(i) = "open" => status(i) \in {"open", "canceled"}
                      /\ (\A e \in {Created(i), Canceled(i)} :
                              rows[e].exists => rows[e].published)
                             => told_status(i) = status(i)
    BY DEF ConsumersAreBehind
  <2>1. /\ rows[Created(i)].exists <=> i \in DOMAIN orders
        /\ rows[Canceled(i)].exists <=> status(i) = "canceled"
        /\ sent[Created(i)] > 0 => rows[Created(i)].exists
        /\ rows[Created(i)].published => sent[Created(i)] > 0
        /\ sent[Canceled(i)] > 0 => rows[Canceled(i)].exists
        /\ rows[Canceled(i)].published => sent[Canceled(i)] > 0
    BY DEF SystemInv, RowsMatchOrders
  <2>2. IF i \in DOMAIN orders THEN status(i) \in {"open", "canceled"}
                               ELSE status(i) = "unknown"
    BY DEF SystemInv, OrdersTyped, status
  <2> QED
    BY <2>1, <2>2 DEF told_status
<1> QED
  BY <1>1, SystemInvariance, PTL

-----------------------------------------------------------------------------
(* The outbox has the row that the relays see, and has it once.            *)

RowsOf(e) == {n \in DOMAIN outbox : event_key(outbox[n]) = e}

EventsInv ==
    /\ outbox \in Seq(OutboxEvent)
    /\ \A n \in DOMAIN outbox : event_key(outbox[n]) \in Events
    /\ \A e \in Events : IF rows[e].exists THEN \E n : RowsOf(e) = {n} ELSE RowsOf(e) = {}

LEMMA AddingEvent ==
    ASSUME SystemInv, EventsInv, NEW x \in OutboxEvent, event_key(x) \in Events,
           outbox' = Append(outbox, x), enqueue_outbox_event(event_key(x))
    PROVE  EventsInv'
<1> SUFFICES ASSUME NEW d, d = event_key(x), NEW m, m = Len(outbox) + 1
             PROVE  EventsInv'
  OBVIOUS
<1>1. /\ outbox' \in Seq(OutboxEvent)
      /\ DOMAIN outbox' = DOMAIN outbox \cup {m} /\ m \notin DOMAIN outbox
      /\ outbox'[m] = x
      /\ \A n \in DOMAIN outbox : outbox'[n] = outbox[n]
  BY Appending DEF EventsInv
<1>2. /\ ~rows[d].exists /\ rows'[d].exists
      /\ \A e \in Events : e # d => rows'[e] = rows[e]
  BY Inserting DEF SystemInv
<1>3. /\ RowsOf(d)' = RowsOf(d) \cup {m}
      /\ \A e \in Events : e # d => RowsOf(e)' = RowsOf(e)
  BY <1>1 DEF RowsOf
<1>4. RowsOf(d) = {}
  BY <1>2 DEF EventsInv
<1>5. \A n \in DOMAIN outbox' : event_key(outbox'[n]) \in Events
  BY <1>1 DEF EventsInv
<1>6. ASSUME NEW e \in Events
      PROVE  IF rows'[e].exists THEN \E n : RowsOf(e)' = {n} ELSE RowsOf(e)' = {}
  BY <1>2, <1>3, <1>4, <1>6 DEF EventsInv
<1> QED
  BY <1>1, <1>5, <1>6 DEF EventsInv, RowsOf

LEMMA CreationAddsEvent ==
    ASSUME SystemInv, EventsInv, NEW i \in OrderIds, CommitCreation(i)
    PROVE  EventsInv'
<1>1. PICK r \in OrderInputs : Ledger!Reserve(r)
  BY DEF CommitCreation
<1> SUFFICES ASSUME NEW x, x = CreatedEvent(i, r) PROVE EventsInv'
  OBVIOUS
<1>2. outbox' = Append(outbox, x)
  BY <1>1, SameAmounts DEF CommitCreation, Ledger!Reserve, Ledger!CreatedEvent, CreatedEvent
<1>3. r \in OrderCreateRequest /\ i \in Nat
  BY SchemaAssumption, EndToEndAssumption
<1>4. x \in OutboxEvent
  BY <1>3, ReserveRowTypes
<1>5. event_key(x) = Created(i)
  BY DEF event_key, CreatedEvent, Created
<1>6. Created(i) \in Events /\ enqueue_outbox_event(Created(i))
  BY EventPairs DEF CommitCreation
<1> QED
  BY <1>2, <1>4, <1>5, <1>6, AddingEvent

LEMMA CancellationAddsEvent ==
    ASSUME SystemInv, EventsInv, NEW i \in OrderIds, CommitCancellation(i)
    PROVE  EventsInv'
<1>1. PICK r \in CancelInputs : r.order = i /\ Ledger!Release(r)
  BY DEF CommitCancellation
<1> SUFFICES ASSUME NEW x, x = CanceledEvent(i, orders[i]) PROVE EventsInv'
  OBVIOUS
<1>2. i \in DOMAIN orders /\ outbox' = Append(outbox, x)
  BY <1>1, SameAmounts DEF Ledger!Release, Ledger!CanceledEvent, CanceledEvent
<1>3. orders[i] \in Order /\ i \in Nat
  BY <1>2, EndToEndAssumption DEF SystemInv, OrdersTyped
<1>4. x \in OutboxEvent
  BY <1>3, ReleaseTypes
<1>5. event_key(x) = Canceled(i)
  BY DEF event_key, CanceledEvent, Canceled
<1>6. Canceled(i) \in Events /\ enqueue_outbox_event(Canceled(i))
  BY EventPairs DEF CommitCancellation
<1> QED
  BY <1>2, <1>4, <1>5, <1>6, AddingEvent

LEMMA SameEvents ==
    ASSUME EventsInv, UNCHANGED outbox,
           \A e \in Events : rows'[e].exists <=> rows[e].exists
    PROVE  EventsInv'
BY DEF EventsInv, RowsOf

LEMMA EventsNext == SystemInv /\ EventsInv /\ [SystemNext]_system_vars => EventsInv'
<1> SUFFICES ASSUME SystemInv, EventsInv, [SystemNext]_system_vars PROVE EventsInv'
  OBVIOUS
<1>1. CASE CommitFunding
  BY <1>1, SameEvents DEF CommitFunding, Ledger!Fund, relay_vars, vars
<1>2. ASSUME NEW i \in OrderIds, CommitCreation(i) \/ CommitCancellation(i)
      PROVE  EventsInv'
  BY <1>2, CreationAddsEvent, CancellationAddsEvent
<1>3. CASE RelayStep
  <2>1. \A e \in Events : \E i \in OrderIds : e \in {Created(i), Canceled(i)}
    BY DEF Events, Created, Canceled
  <2>2. \A e \in Events : SentHasRow(e)
    BY <2>1 DEF SystemInv, RowsMatchOrders, SentHasRow
  <2>3. \A e \in Events : rows'[e].exists <=> rows[e].exists
    BY <1>3, <2>2, Delivering DEF SystemInv
  <2>4. UNCHANGED outbox
    BY <1>3 DEF RelayStep, database
  <2> QED
    BY <2>3, <2>4, SameEvents
<1>4. CASE UNCHANGED system_vars
  BY <1>4, SameEvents DEF system_vars, relay_vars, vars, database
<1> QED
  BY <1>1, <1>2, <1>3, <1>4 DEF SystemNext

LEMMA EventsInvariance == SystemSpec => []EventsInv
<1>1. SystemInit => EventsInv
  <2> SUFFICES ASSUME SystemInit PROVE EventsInv
    OBVIOUS
  <2>1. outbox = <<>> /\ \A e \in Events : ~rows[e].exists
    BY DEF SystemInit, Init, NoRow, Ledger!Init
  <2> QED
    BY <2>1 DEF EventsInv, RowsOf
<1> QED
  BY <1>1, EventsNext, SystemInvariance, PTL DEF SystemSpec

(* Whatever the relays see, mark and send is a row that a transaction of   *)
(* the API has committed, exactly once, with the order it tells; and every *)
(* row of the outbox is there for them to see.                             *)
THEOREM RowsMatch == SystemSpec => []RowsMatchDatabase
<1>1. EventsInv => RowsAreEvents
  <2> SUFFICES ASSUME EventsInv, NEW e \in Events
               PROVE  Cardinality(RowsOf(e)) = IF rows[e].exists THEN 1 ELSE 0
    BY DEF RowsAreEvents, RowsOf, EventsInv
  <2>1. CASE rows[e].exists
    BY <2>1, FS_Singleton DEF EventsInv
  <2>2. CASE ~rows[e].exists
    BY <2>2, FS_EmptySet DEF EventsInv
  <2> QED
    BY <2>1, <2>2
<1>2. SystemInv /\ RowsAreEvents => RowsMatchDatabase
  BY DEF SystemInv, RowsMatchDatabase
<1> QED
  BY <1>1, <1>2, EventsInvariance, SystemInvariance, PTL

-----------------------------------------------------------------------------
(* What is proved of the atomic ledger holds of the system.  Facts brings  *)
(* its theorems; its definitions are those of Ledger.                      *)
Facts == INSTANCE AtomicLedgerProofs

LEMMA SameInit == Ledger!Init => Facts!Init
BY DEF Ledger!Init, Facts!Init, Ledger!SeededWallets, Facts!SeededWallets,
   Ledger!NoWallet, Facts!NoWallet, Ledger!WalletIds, Facts!WalletIds,
   Ledger!Owners, Facts!Owners

LEMMA FactAmounts ==
    /\ \A n : Ledger!power(n) = Facts!power(n)
    /\ \A x : /\ Ledger!context(x) = Facts!context(x)
              /\ Ledger!numeric(x) = Facts!numeric(x) /\ Ledger!Fine(x) = Facts!Fine(x)
    /\ \A b, x : /\ Ledger!plus(b, x) = Facts!plus(b, x)
                 /\ Ledger!minus(b, x) = Facts!minus(b, x)
<1>1. \A n : Ledger!power(n) = Facts!power(n)
  BY DEF Ledger!power, Facts!power
<1>2. \A x : Ledger!quantum(x) = Facts!quantum(x)
  BY <1>1 DEF Ledger!quantum, Facts!quantum
<1>3. \A x : Ledger!context(x) = Facts!context(x)
  BY <1>2 DEF Ledger!context, Facts!context
<1>4. \A x : Ledger!numeric(x) = Facts!numeric(x) /\ Ledger!Fine(x) = Facts!Fine(x)
  BY DEF Ledger!numeric, Facts!numeric, Ledger!Fine, Facts!Fine
<1>5. \A b, x : /\ Ledger!plus(b, x) = Facts!plus(b, x)
               /\ Ledger!minus(b, x) = Facts!minus(b, x)
  BY <1>3, <1>4 DEF Ledger!plus, Facts!plus, Ledger!minus, Facts!minus
<1> QED
  BY <1>1, <1>3, <1>4, <1>5

LEMMA FactRows ==
    \A r : /\ Ledger!ReserveWallet(r) = Facts!ReserveWallet(r)
          /\ Ledger!reserved_amount(r) = Facts!reserved_amount(r)
          /\ Ledger!ReserveTransaction(r) = Facts!ReserveTransaction(r)
          /\ Ledger!ReleaseTransaction(r) = Facts!ReleaseTransaction(r)
          /\ \A n : /\ Ledger!NewOrder(r, n) = Facts!NewOrder(r, n)
                   /\ Ledger!CreatedEvent(n, r) = Facts!CreatedEvent(n, r)
                   /\ Ledger!CanceledEvent(n, r) = Facts!CanceledEvent(n, r)
<1> SUFFICES ASSUME NEW r, NEW n
             PROVE  /\ Ledger!ReserveWallet(r) = Facts!ReserveWallet(r)
                    /\ Ledger!reserved_amount(r) = Facts!reserved_amount(r)
                    /\ Ledger!ReserveTransaction(r) = Facts!ReserveTransaction(r)
                    /\ Ledger!ReleaseTransaction(r) = Facts!ReleaseTransaction(r)
                    /\ Ledger!NewOrder(r, n) = Facts!NewOrder(r, n)
                    /\ Ledger!CreatedEvent(n, r) = Facts!CreatedEvent(n, r)
                    /\ Ledger!CanceledEvent(n, r) = Facts!CanceledEvent(n, r)
  OBVIOUS
<1>1. Ledger!ReserveWallet(r) = Facts!ReserveWallet(r)
  BY DEF Ledger!ReserveWallet, Facts!ReserveWallet, Ledger!UserWallet, Facts!UserWallet,
     Ledger!reserve_asset, Facts!reserve_asset
<1>2. Ledger!reserved_amount(r) = Facts!reserved_amount(r)
  BY FactAmounts DEF Ledger!reserved_amount, Facts!reserved_amount,
     Ledger!reservation_amount, Facts!reservation_amount
<1>3. /\ Ledger!ReserveTransaction(r) = Facts!ReserveTransaction(r)
      /\ Ledger!ReleaseTransaction(r) = Facts!ReleaseTransaction(r)
  BY <1>1, <1>2, FactAmounts
  DEF Ledger!ReserveTransaction, Facts!ReserveTransaction,
      Ledger!ReleaseTransaction, Facts!ReleaseTransaction, Ledger!Entry, Facts!Entry,
      Ledger!ledger_idempotency_key, Facts!ledger_idempotency_key
<1>4. Ledger!NewOrder(r, n) = Facts!NewOrder(r, n)
  BY <1>2, FactAmounts DEF Ledger!NewOrder, Facts!NewOrder
<1>5. /\ Ledger!CreatedEvent(n, r) = Facts!CreatedEvent(n, r)
      /\ Ledger!CanceledEvent(n, r) = Facts!CanceledEvent(n, r)
  BY <1>2, FactAmounts DEF Ledger!CreatedEvent, Facts!CreatedEvent,
     Ledger!CanceledEvent, Facts!CanceledEvent
<1> QED
  BY <1>1, <1>2, <1>3, <1>4, <1>5

LEMMA SameStep == [Ledger!Next]_(Ledger!database) => [Facts!Next]_(Facts!database)
<1>1. ASSUME NEW r \in FundingInputs, Ledger!Fund(r) PROVE Facts!Fund(r)
  BY <1>1, FactAmounts
  DEF Ledger!Fund, Facts!Fund, Ledger!TreasuryWallet, Facts!TreasuryWallet,
      Ledger!UserWallet, Facts!UserWallet, Ledger!active_asset, Facts!active_asset,
      Ledger!PostedKeys, Facts!PostedKeys, Ledger!Entry, Facts!Entry,
      Ledger!FundingTransaction, Facts!FundingTransaction
<1>2. ASSUME NEW r \in OrderInputs, Ledger!Reserve(r) PROVE Facts!Reserve(r)
  BY <1>2, FactAmounts, FactRows
  DEF Ledger!Reserve, Facts!Reserve, Ledger!active_asset, Facts!active_asset,
      Ledger!PostedKeys, Facts!PostedKeys,
      Ledger!ledger_idempotency_key, Facts!ledger_idempotency_key
<1>3. ASSUME NEW r \in CancelInputs, Ledger!Release(r) PROVE Facts!Release(r)
  BY <1>3, FactAmounts, FactRows DEF Ledger!Release, Facts!Release
<1> QED
  BY <1>1, <1>2, <1>3 DEF Ledger!Next, Facts!Next, Ledger!database, Facts!database

(* And so are the assumptions about the constants. *)
LEMMA FactAssumptions ==
    /\ FundingInputs \subseteq Facts!FundingRequest
    /\ OrderInputs \subseteq Facts!OrderCreateRequest
    /\ CancelInputs \subseteq Facts!CancelRequest
    /\ \E n \in 1 .. Scale : Scale = Facts!power(n)
    /\ Facts!IsFiniteSet(Users) /\ Facts!IsFiniteSet(OrderKeys)
    /\ \A a \in Assets :
           Base * (Facts!SeededWallets[Facts!TreasuryWallet(a)].available
                      + Facts!Cardinality(Users \X OrderKeys)) < Precision
<1>1. /\ FundingInputs \subseteq Facts!FundingRequest
      /\ OrderInputs \subseteq Facts!OrderCreateRequest
      /\ CancelInputs \subseteq Facts!CancelRequest
  BY SchemaAssumption DEF Facts!FundingRequest, FundingRequest,
     Facts!OrderCreateRequest, OrderCreateRequest, Facts!CancelRequest, CancelRequest
<1>2. \A n : power(n) = Facts!power(n)
  BY DEF power, Facts!power
<1>3. Facts!IsFiniteSet(Users) /\ Facts!IsFiniteSet(OrderKeys)
  BY SupplyAssumption DEF IsFiniteSet, Facts!IsFiniteSet
<1>4. /\ SeededWallets = Facts!SeededWallets
      /\ \A a : TreasuryWallet(a) = Facts!TreasuryWallet(a)
      /\ Cardinality(Users \X OrderKeys) = Facts!Cardinality(Users \X OrderKeys)
  BY DEF SeededWallets, Facts!SeededWallets, NoWallet, Facts!NoWallet,
     WalletIds, Facts!WalletIds, Owners, Facts!Owners,
     TreasuryWallet, Facts!TreasuryWallet, Cardinality, Facts!Cardinality
<1> QED
  BY <1>1, <1>2, <1>3, <1>4, ScaleAssumption, SupplyAssumption

LEMMA SystemLedger ==
    /\ FundingInputs \subseteq Facts!FundingRequest
    /\ OrderInputs \subseteq Facts!OrderCreateRequest
    /\ CancelInputs \subseteq Facts!CancelRequest
    => (SystemSpec => Facts!Spec)
BY ComponentsKept, SameInit, SameStep, PTL DEF Ledger!Spec, Facts!Spec

(* The relays read and mark the outbox while transactions commit, and the  *)
(* ledger keeps every promise it keeps without them.                       *)
THEOREM SystemKeepsThePromise ==
    SystemSpec => []( /\ Facts!LockedCoversOpenOrders
                      /\ Facts!LedgerExplainsBalances
                      /\ Facts!OutboxTellsOrders
                      /\ Facts!EventsExplainLocked
                      /\ Facts!KeysSpentOnce )
BY FactAssumptions, SystemLedger, SchemaAssumption, ScaleAssumption, SupplyAssumption, PTL,
   Facts!LockedCovers, Facts!LedgerExplains, Facts!OutboxTellsAll,
   Facts!EventsExplain, Facts!KeysOnce

(* Marked rows were sent, and the rows are the events of the outbox: what  *)
(* consumers add up is then what EventsExplainLocked adds up.              *)
LEMMA AllIsTold ==
    ASSUME SystemInv, EventsInv, Facts!EventsExplainLocked
    PROVE  AmountsAreTold
<1> SUFFICES ASSUME \A e \in Events : rows[e].exists => rows[e].published,
                    NEW w \in WalletIds
             PROVE  LET error == told_locked(w) - Fine(wallets[w].locked)
                        most  == Fine(Ledger!Inexact(w))
                    IN  -most <= error /\ 2 * error <= most
  BY DEF AmountsAreTold
<1>1. \A n \in DOMAIN outbox : sent[event_key(outbox[n])] # 0
  <2> SUFFICES ASSUME NEW n \in DOMAIN outbox
               PROVE  sent[event_key(outbox[n])] # 0
    OBVIOUS
  <2> SUFFICES ASSUME NEW e \in Events, e = event_key(outbox[n])
               PROVE  sent[e] > 0
    BY DEF EventsInv
  <2>1. n \in RowsOf(e)
    BY DEF RowsOf
  <2>2. rows[e].exists /\ rows[e].published
    BY <2>1 DEF EventsInv
  <2>3. \E i \in OrderIds : e \in {Created(i), Canceled(i)}
    BY DEF Events, Created, Canceled
  <2> QED
    BY <2>2, <2>3 DEF SystemInv, RowsMatchOrders
<1>2. told_locked(w) = Facts!BelievedLocked(w)
  <2> DEFINE told == [n \in DOMAIN outbox |->
                 IF \/ sent[event_key(outbox[n])] = 0
                    \/ ReserveWallet(orders[outbox[n].order]) # w THEN 0
                 ELSE IF outbox[n].type = "order.created" THEN outbox[n].reserved
                 ELSE -outbox[n].reserved]
             believed == [n \in DOMAIN outbox |->
                 IF ReserveWallet(orders[outbox[n].order]) # w THEN 0
                 ELSE IF outbox[n].type = "order.created" THEN outbox[n].reserved
                 ELSE -outbox[n].reserved]
  <2>1. told = believed
    BY <1>1
  <2>2. told_locked(w) = Ledger!SumOf(told)
    BY DEF told_locked
  <2>3. Facts!BelievedLocked(w) = Facts!SumOf(believed)
    BY DEF Facts!BelievedLocked, Facts!ReserveWallet, ReserveWallet,
       Facts!UserWallet, UserWallet, Facts!reserve_asset, reserve_asset
  <2>4. \A f : Ledger!SumOf(f) = Facts!SumOf(f)
    BY DEF Ledger!SumOf, Facts!SumOf, Ledger!SumTo, Facts!SumTo
  <2> QED
    BY <2>1, <2>2, <2>3, <2>4
<1>3. Ledger!Inexact(w) = Facts!Inexact(w)
  <2>1. \A r : Ledger!reserved_amount(r) = Facts!reserved_amount(r)
    BY FactRows
  <2>2. \A r : Ledger!ReserveWallet(r) = Facts!ReserveWallet(r)
    BY FactRows
  <2> DEFINE f == [i \in DOMAIN orders |->
                 IF /\ Facts!ReserveWallet(orders[i]) = w
                    /\ Facts!IsInexact(Facts!reserved_amount(orders[i]))
                 THEN 1 ELSE 0]
  <2>3. Ledger!Inexact(w) = Ledger!SumOf(f)
    BY <2>1, <2>2 DEF Ledger!Inexact, Ledger!IsInexact, Facts!IsInexact
  <2>4. \A g : Ledger!SumOf(g) = Facts!SumOf(g)
    BY DEF Ledger!SumOf, Facts!SumOf, Ledger!SumTo, Facts!SumTo
  <2> QED
    BY <2>3, <2>4 DEF Facts!Inexact
<1>4. \A x : Facts!Fine(x) = Fine(x)
  BY FactAmounts, SameAmounts
<1>5. Facts!WalletIds = WalletIds
  BY DEF Facts!WalletIds, WalletIds, Facts!Owners, Owners
<1> QED
  BY <1>2, <1>3, <1>4, <1>5 DEF Facts!EventsExplainLocked

(* A consumer that handles each event once knows, when the relay has       *)
(* caught up, what is locked, for any relays, failures and repetitions.    *)
THEOREM ConsumersKnowAmounts == SystemSpec => []AmountsAreTold
<1>1. SystemSpec => []Facts!EventsExplainLocked
  BY SystemKeepsThePromise, PTL
<1> QED
  BY <1>1, EventsInvariance, SystemInvariance, AllIsTold, PTL

=============================================================================
