# A formal model of crypto-ledger-sandbox

TLA+ modules, TLC configurations and TLAPS proofs about crypto-ledger-sandbox:
funding of sandbox wallets, reservation of balances by orders, and their release
by cancellations, each an HTTP request whose handler runs one PostgreSQL
transaction, concurrently with every other; the relay that publishes the events
of the orders; the accounts and tokens of the users; and the script that seeds
a development database.

The modules are translated from the source under `src/` (`app/services`,
`app/api`, `app/models`, `app/db`, `app/workers`, `app/events`, `app/scripts`), not from its documentation. Paths
below are relative to `src/`.

## 1. The system

| Component | State it keeps | Operations that change it |
|---|---|---|
| Tables (`app/models`) | `users`, `assets`, `wallets`, `ledger_transactions`, `ledger_entries`, `orders`, `outbox_events` | none of their own: types, CHECKs and unique indexes |
| Sessions (`app/db/session.py`) | one connection and transaction per request; a pool of 10 + 20 | commit, rollback at close |
| Funding (`app/services/ledger.py`, `routes/wallets.py`) | none of its own | `post_sandbox_funding`: treasury to user |
| Orders (`app/services/orders.py`, `routes/orders.py`) | none of its own | `create_order_reservation`: available to locked; `cancel_order_reservation`: locked to available |
| Outbox (`app/services/outbox.py`) | none of its own | `enqueue_outbox_event` in the transaction of the order; `publish_next_outbox_event` |
| Relay (`app/workers/outbox_relay.py`, `app/events/rabbitmq.py`) | a broker connection, a channel with confirms | one transaction per event: pick the oldest unpublished, publish, mark |
| Accounts (`routes/auth.py`, `deps.py`, `core/security.py`) | none of its own | `register`: insert a user, issue a JWT; `login`: issue a JWT; `get_current_active_user`: token to user |
| Read-only routes (`routes/balances.py`, `routes/me.py`, health) | none | none: one SELECT each |
| Seed (`app/scripts/seed_dev_data.py`) | none of its own | inserts the assets and treasury wallets that are missing, in one transaction |
| Migrations, configuration | none at run time | create the schema |

**How they interact.** Everything goes through the database. Each request gets
an `AsyncSession`; its first statement opens a READ COMMITTED transaction, and
the route either lets the service commit or lets an exception close the
session, which rolls back. Two requests meet only in rows (`SELECT ... FOR
UPDATE`), in unique indexes (`wallets(user_id, asset_id)`,
`ledger_transactions.idempotency_key`, `orders(user_id, idempotency_key)`,
`outbox_events.event_key`, `users.email`), and in the pool that gives each
transaction its connection. The relay meets the API in `outbox_events` only, the
accounts meet it in the id of the user that each request is identified as, and
the seed in the assets and treasuries that are there when the API starts.

**What is hard.** Handlers read before they lock and decide on what they read;
they wait for locks in the middle, so what precedes a wait may be stale after
it. They look for replays by key at one or two moments, and rely on a unique
index for the rest. A client that gets no answer does not know whether its
request committed, and retries. Balances are computed in Python from rows read
several statements before, and rounded twice: by Python's Decimals and by the column they are stored in. An
event must leave for the broker if and only if its order change was committed.
A token is valid after the account it names was deactivated. Seeds that run at
once insert the same rows.

**What makes each part correct.**

* Sessions: a row or key has one holder; locks go when the transaction ends, so
  nobody waits for ever and nobody waits in a circle.
* Funding, orders: each commit is an atomic operation decided on the rows of
  that moment; one key pays or reserves once; retries get the same row.
* Cancellation: a reservation is released once, and is always covered.
* Accounting: balances are what the ledger entries say, and locked balances cover what
  open orders reserve, but for the units that rounding makes; no money is lost.
* Outbox: the events of an order are exactly its committed changes, in order.
* Relay: every event is published at least once, and only committed ones; what
  consumers were told is behind the ledger, never ahead of it.
* Accounts: one user per email; a token is its owner's, and of no use once the
  owner is deactivated.
* Seed: one asset per code, one treasury wallet per asset, all of them when a run ends.

## 2. The modules

| Module | Models | Uses |
|---|---|---|
| `Amounts` | Python's Decimals of 28 digits, and the Numeric(38, 18) columns that round them again | |
| `Schema` | the tables' rows, the constructors of the rows the services write, the requests | `Amounts` |
| `Sums` | sums of sequences | |
| `AtomicLedger` | abstract: funding, reserving and releasing as atomic operations, and the accounting invariants | `Schema`, `Sums` |
| `Session` | transactions: connections, locks, unique keys, commit, rollback, lost requests | `Schema` |
| `Funding` | `post_sandbox_funding`, one action per statement | `Session` |
| `Orders` | `create_order_reservation`, `cancel_order_reservation`, one action per statement | `Session` |
| `Sandbox` | all requests interleaved; the properties; `Atomic == INSTANCE AtomicLedger` | `Funding`, `Orders` |
| `SandboxInv` | the inductive invariants | `Sandbox` |
| `Delivery` | abstract: what the transactional outbox promises | |
| `Relay` | the outbox relay, its publisher and the events the API commits; `Promise == INSTANCE Delivery` | |
| `EndToEnd` | the atomic ledger and the relay composed, and what consumers make of the messages; `Ledger == INSTANCE AtomicLedger` | `Relay`, `Schema` |
| `Accounts` | registration, login, and the identification of every other request's user | |
| `Seed` | the development seed, by any number of processes | |
| `MC_AtomicLedger`, `MC_Sandbox`, `MC_Relay`, `MC_EndToEnd`, `MC_Accounts`, `MC_Seed` | small instances for TLC | |
| `SchemaProofs`, `SandboxProofs`, `Refinement`, `AtomicLedgerProofs`, `RelayProofs`, `EndToEndProofs`, `AccountsProofs`, `SeedProofs` | the proofs | |

**State of the API.** `wallets`, `ledger`, `orders` and `outbox` are the committed rows.
Wallets are a total function with an `exists` flag; the others are sequences,
so that a row's id is its place in the order of the commits. For each request,
`request` is its input, `pc` the statement its handler is about to run, `seen`
the wallet rows it has read under a lock (the ORM objects it will compute
from), `holds` the rows and unique keys it keeps others waiting for, and `reply`
what its client is told. What a transaction has written and not committed is
not a variable: nobody else sees it but through `holds`, and the handler
computes all of it from `seen` and its input, so it appears at the commit.

**Actions of the API.** One action stands for one statement that reads or locks and for
the Python up to the next one:

| Statement | Action |
|---|---|
| schema validation, `active_asset`, first look for a replay | `FundBegin`, `CreateBegin` |
| treasury `FOR UPDATE`, balance test | `FundLockTreasury` |
| user wallet `FOR UPDATE`, or its absence | `FundLockWallet` |
| `INSERT` of a first wallet | `FundInsertWallet` |
| wallet `FOR UPDATE`, balance test | `CreateLockWallet` |
| second look for a replay | `CreateRecheck` |
| the user's SELECT, which opens a cancellation's transaction | `CancelBegin` |
| order `FOR UPDATE`, its status | `CancelLockOrder` |
| wallet `FOR UPDATE`, reservation test | `CancelLockWallet` |
| `INSERT` of the ledger transaction (unique key) | `InsertTransaction` |
| the remaining `INSERT`s and `UPDATE`s, `COMMIT` | `FundCommit`, `CreateCommit`, `CancelCommit` |
| refresh and answer | `Respond` |
| process, connection or client gone | `Abort` |
| no connection for `pool_timeout` | `PoolTimeout` |

The writes after the `INSERT` of the ledger transaction touch rows that the
transaction has locked or created, so nobody can tell when they happen before
the commit: they are one action with it. The unique index on
`orders(user_id, idempotency_key)` cannot fail on its own, because the ledger key
of an order is a function of the same pair and is inserted first. A release has
no key, and its event's key is protected by the order's lock.

A request is sent once. A retry is another request with the same input, and an
instance lets every request choose any input, so retries, and concurrent
duplicates, are always among the behaviours. The death of a server process is an
`Abort` of each of its requests; nothing else is in its memory.

An `Abort` can happen at any statement, also while waiting, and after the
commit; then the rows stay and only the answer is lost.

**The pool.** A session takes a connection of the engine for its first statement
and keeps it, waiting or not, until its transaction ends. So a request is `Connected`
between its first action and its commit or rollback, the first action and `Respond`, which
reads the committed row again, need a `ConnectionFree`, and a request that gets
none in time ends as `unavailable`, also when its transaction has committed. No other action
asks for a connection: whoever holds a lock has one. `PoolSize` stands for the
engine's 10 + 20. Each server process has its own pool; the model has the requests of one.

**Reading balances.** `list_wallet_balances` of `AtomicLedger` is the answer of `GET /wallets`: one SELECT, so
it shows the rows between two commits, and is a function of the state, not an action.

**The relay.** `Relay` takes from the API only what the relay sees of it: an event's
transaction begins (`Begin`, which fixes `created_at`, the value of `now()`), and later commits
(`enqueue_outbox_event`). A transaction that rolls back shows the relay nothing, and is
left out. That each order has one `order.created`, and one later `order.canceled` at
most, is what `OutboxTellsOrders` says of the API; that a cancellation begins after
its creation has committed is so because the client must have been told the order's id.
`rows` are the rows of `outbox_events`, `relays` where each relay's loop is and the row it
has locked, `sent` the messages the exchange has accepted, `orphaned` the rows locked by
connections whose process has died, until PostgreSQL notices.

| Statement | Action |
|---|---|
| `__aenter__`, connecting | `Start` |
| oldest unpublished row `FOR UPDATE SKIP LOCKED` | `Claim`, or `Sleep` if there is none |
| `await publisher(event)` | `Confirmed`, `Unconfirmed` (accepted, but it raises), `Refused` |
| `published_at`, `publish_attempts`, commit | `MarkPublished` |
| `last_error`, `publish_attempts`, commit | `RecordError` |
| killed, or a statement or commit fails | `Crash`, then `NoticeDeath` if `LocksLinger` |

A commit whose result is lost with the connection is `MarkPublished`, then `Crash`. The
one statement of a claim is one step: it is decided on the rows PostgreSQL rechecks
when it locks them.

**The arithmetic.** Every balance, price, quantity and amount is a column of 18 decimals: in the model a number of units of
10^-18. Python reads it exactly, and rounds the result of every `*`, `+` and `-` to the 28 digits of the default Decimal
context, half to even (`context`): `price * quantity` (`orders.py:60`), `available - reserved` and
`locked + reserved` (`:238-239`), the same for fundings and releases (`minus`, `plus`), and the total of `GET /wallets`.
What is stored is rounded again by PostgreSQL, half up (`numeric`). Comparisons are exact, and `reserved_amount`
and the amounts of the entries are the product, rounded once more by their own columns. Products are counted in fine units, `Scale` of them to a
unit. `Scale` is a power of `Base`, and a Decimal keeps the digits of numbers less than `Precision`; in the program
these are 10^18, 10 and 10^28. The instances are binary, and so are small enough for TLC.

**The composition.** `EndToEnd` puts the variables of `AtomicLedger` beside those of `Relay`. A
creation or cancellation is one step of both: `Ledger!Reserve` or `Ledger!Release`, and
`enqueue_outbox_event` of its event, since the code commits them together; a funding has no event;
a step of a relay or of the clock leaves the ledger alone. `told_status` is what a
consumer holds who handles each event key once, as `README.md:41` asks, and takes a
cancellation as final.

**The accounts.** `Accounts` has the rows of `users`, in the order of their commits, and for each request
`pc`, `claimed` (it has inserted a row and not committed it), `subject` (the user it has
inserted or decoded from a token), and `reply`, which names the user of the
token the client was given. `expired` are the requests whose token is past its expiry.

| Statement | Action |
|---|---|
| `register`: the SELECT by email | `RegisterSelect` |
| the `INSERT` of `session.commit()`, which waits for one of the same email; `IntegrityError` to 409 | `RegisterInsert` |
| its `COMMIT` | `RegisterCommit` |
| refresh, `create_access_token`, answer | `RegisterRespond` |
| `login`: SELECT, `is_active`, `verify_password`, answer | `LogIn` |
| `get_current_active_user`: `jwt.decode` | `Decode` |
| its SELECT of the user, `is_active` | `LoadUser` |
| `exp` passes; an administrator clears `is_active` | `Expire`, `Deactivate` |
| process, connection or client gone | `Abort` |

`login` reads one row and waits for nothing after it, so it is one step. Decoding and loading are two,
because a token may be decoded before a deactivation and its user loaded after it. No
route clears `is_active`; the code reads it in two places, for whoever clears it in the database.

**The seed.** `Seed` has the number of committed rows of each kind and asset, and for each process where
its loop is, what it has added to its session (`pending`), and what it has
inserted and not committed (`inserted`). `FindAsset` and `FindTreasury` are the two SELECTs of a turn
of the loop, `Flush` an INSERT, which SQLAlchemy issues at `session.flush()`, before the next SELECT,
or at the commit, and which waits for, or dies of, another process's row, and `Commit` the end. The initial
rows are any an earlier seed, or somebody's hand, can have left: an asset may lack its treasury.

**Faults.** A definition headed `Fault:` is a wrong variant of the definition
next to it, of the kind an edit of the code might introduce (a lock not taken, a
field not compared, a status not looked at). No specification uses them. They
show that the properties can fail: with the variant in place of the
original, TLC finds the property violated in the same run.

## 3. What TLC checks

`tlc -config <run>.cfg <module>`. 

| Run | Module | Instance | Properties |
|---|---|---|---|
| `atomic_ledger` | `MC_AtomicLedger` | 2 users, 2 assets, 3 funding keys, 2 order keys; Scale 8, 5 binary digits | `LockedCoversOpenOrders`, `LedgerExplainsBalances`, `KeysSpentOnce`, `OutboxTellsOrders`, `EventsExplainLocked`, `OrdersKeepTotals`, `MoneyIsAccounted` |
| `funding_race` | `MC_Sandbox` | 4 requests, 2 users, one shared key, treasury of 3 | `SeenIsCurrent`, `IdempotentReplies`, `Linearizable` |
| `orders_race` | `MC_Sandbox` | 4 requests of one user: fundings, 3 buys and a sell on 2 keys, a cancellation; 3 connections | `ApiInv`, `NoDeadlock`, `Linearizable`, `LateRetriesReplay` |
| `cancel_race` | `MC_Sandbox` | 5 requests, two orders of one wallet; Scale 8, 4 binary digits | `CancellationIsCovered`, `Linearizable` |
| `answers` | `MC_Sandbox` | 3 requests: inactive asset, missing treasury, equal assets, zero amounts, reservations rounding to zero, another user's order, a funding key equal to a digest; Scale 4; 2 connections; fairness, no symmetry | `IdempotentReplies`, `OnlyKeysCollide`, `Linearizable`, `EveryRequestAnswered` |
| `two_relays` | `MC_Relay` | 2 relays, 1 order, 2 failures per event, locks may linger; fairness | `RelayInv`, `DuplicatesAreExplained`, `ImplementsDelivery`, `EveryEventPublished` |
| `end_to_end` | `MC_EndToEnd` | 1 relay, 2 rounded orders that compete for one balance, 1 failure per event, locks die with the relay; fairness | `RowsMatchDatabase`, `ConsumersAreBehind`, `CreatedFirst`, `AmountsAreTold`, `CancellationIsTold` |
| `accounts` | `MC_Accounts` | 3 requests: one address in two spellings, two passwords; fairness | `AccountsInv`, `OneAccountPerEmail`, `TokensNameTheirOwner`, `ConflictMeansTaken`, `RegisteredCanLogIn`, `DeactivationRevokes`, `EveryRequestAnswered` |
| `seeds` | `MC_Seed` | 3 processes, the 2 development assets, any initial rows; fairness | `SeedInv`, `SomeRunGoesOn`, `EndedMeansSeeded`, `EveryRunEnds` |
| `funding_retry`, `order_retry`, `rounding_creates_money` | | | each one finding, see section 5 |

The properties:

* `Linearizable` is the refinement `Spec => AtomicLedger!Spec`: whatever the
  interleaving, each commit does to the database what one atomic operation,
  with its guards evaluated at that moment, would do. Hence the invariants of
  `AtomicLedger` hold of the API: they need not be checked again over the
  interleavings.
* `LockedCoversOpenOrders`: locked balances are not less than the open orders'
  reservations, so a cancellation can never find too little locked; and not more, but for one unit for each
  order ever created whose amount was no whole number of units. `locked + reserved` has fewer digits for its
  fraction than `reserved` alone, so one can be rounded up and the other down (section 5).
* `LedgerExplainsBalances`: balances are the seed plus the ledger entries, or more by what rounding has made: in
  `locked` and `available` together not more than one unit for each reservation that is no whole number of units, and not less than one for each
  that is half way between two.
* `KeysSpentOnce`, `OutboxTellsOrders`: one transaction per key; one
  `order.created` per order, one later `order.canceled` if and only if it is canceled.
* `EventsExplainLocked`: a consumer that adds up the amounts of the events is off from the locked balance by half a
  unit more at most, or one less, for each order whose amount is no whole number of units, and by nothing if there is none.
* `AmountsAreTold`: the same of a consumer of the messages, who handles each event once, at every moment at which the relays
  have marked all that is committed: what it was told adds up to what is locked, as closely, however often the messages were repeated.
* `OrdersKeepTotals`: no order and no cancellation moves a total that `GET /wallets` shows, but for the unit
  that a reservation which is no whole number of units may add, and a tie does.
* `MoneyIsAccounted`: what all wallets of an asset hold, available and locked, is the seed of its treasury, one unit
  for each reservation that was a tie, and one at most for each other that was no whole number of units. Fundings move money between wallets, orders between buckets, and nothing else moves it.
* `SeenIsCurrent`: no lost update; no balance is computed from a row that has changed since.
* `IdempotentReplies`: all requests told `created` or `replayed` are given a row
  with the data they sent, and no row is told `created` twice.
* `LateRetriesReplay`: a statement that looks for the replay of a request whose work is committed finds it, also when
  the order has been canceled since, or the balance is spent. The retry is replayed, or lost with its
  connection; it is not refused, told of a conflict, or done a second time.
* `ApiInv`: the inductive invariants of section 4: what each handler relies on at each statement, what the
  answers mean, that committed rows come from valid requests, that open orders are covered, and the order of the locks.
* `CancellationIsCovered`: `OrderReservationStateError` never occurs, and an order
  is told `canceled` once.
* `OnlyKeysCollide`: an `INSERT` fails only for a spent key, or a reservation that
  rounds to zero; the race of two first fundings never shows.
* `NoDeadlock`: the handlers lock in one order, order row, treasury wallet, user
  wallet, key, and whoever holds a lock has its connection, so some request always has neither a
  connection nor a lock to wait for (`SomeoneIsReady`), and whoever is `Ready` has a step of its handler enabled.
* `EveryRequestAnswered`: every request ends.
* `ImplementsDelivery` is the refinement `Spec => Delivery!Spec` of the relay: only committed
  events are sent, a row is marked only after its message was accepted, and a marked row is
  never sent again.
* `DuplicatesAreExplained`: each message of an event but the marked delivery's, and each attempt
  counted but that one, goes with a failure; relays alone never send an event twice.
* `CreatedFirst`: the creation of an order is published before its cancellation is sent. This
  needs a single relay whose lock is released before its successor starts. With two relays, or with
  `LocksLinger`, `SKIP LOCKED` lets a relay pass a locked `order.created` and publish the
  `order.canceled`; consumers must not count on the order.
* `EveryEventPublished`: every committed event is published.
* `RowsMatchDatabase`: an order has its event rows exactly if its changes are committed, and only they are sent
  (`RowsMatchOrders`); each row the relays see is in the outbox of the ledger, once, and none of the outbox is missing
  (`RowsAreEvents`).
* `ConsumersAreBehind`: what consumers were told of an order is a state it is in or has been in, whatever is repeated and
  whichever of its events comes first; when the relay has marked every row, it is the state it is in.
* `CancellationIsTold`: every cancellation is told at last.
* `AccountsInv`, `SeedInv`: the inductive invariants of section 4.
* `OneAccountPerEmail`, `ConflictMeansTaken`: of concurrent registrations of an address one creates the account, and
  another is refused only when it has.
* `TokensNameTheirOwner`: a token is for the account whose email and password were sent for it, also when
  registrations with different passwords race.
* `RegisteredCanLogIn`: who was told of an account can log in to it, in any spelling of the email, until it is deactivated.
* `DeactivationRevokes`: a request that starts after the deactivation is not admitted by any earlier token. One that
  had loaded the user before may still be answered: the property says `starts`, since the code promises no more.
* `EndedMeansSeeded`: a seed that ends on its own, also with an `IntegrityError`, leaves all rows there. That seeds at once
  create each row once (`OneOfEach`) is a part of `SeedInv`.
* `SomeRunGoesOn`: of the seeds that have not ended, one waits for no other. The loop visits the assets in one
  order, so they do not wait in a circle, and `EveryRunEnds`.

**Bounds.** No guard of the API has a bound: an instance is finite because each
request is sent once, and in `AtomicLedger` because each key is spent once
and each order canceled once. Three requests suffice for a lock's holder, a
waiter and a bystander that changes what the waiter finds; four allow a funding
before three orders or cancellations race, and five a funding, two orders and two
cancellations. Three connections for four requests, or two for three, let the holder of a lock, its waiters and
nobody else have one; with `PoolSize` not below the requests the pool never refuses, which leaves the other runs to
their own questions. Amounts up to 3 let the treasury, and a wallet, pay some
requests and not others. In `funding_race` and `orders_race`, with Scale 2, all amounts are whole units. In `atomic_ledger`, with
8 fine units to a unit and Decimals of 5 binary digits, there are a tie (28, that is 3 units and a half) and a product that the
Decimal makes one (35, rounded to 36); 11, of which the column alone keeps one unit, while
4 locked units and 11 fine ones are 43, rounded to the tie 44, and become 6; 5, which taken from 5 available units is
rounded in the difference; and a whole unit. `cancel_race` and `end_to_end` have the like with 4 binary digits, and
`answers` a reservation of a quarter, which rounds to nothing. The supply is small enough for the instance's
precision, as it is in the program (`SupplyAssumption`, section 4).

`MaxFailures` bounds, in the guard of each failing action of `Relay`, how often the delivery of one
event fails, and how often a relay dies between two events. With one failure per event both relays can
fail on two events at once, at each of their steps; the proofs hold for every bound. One order has the two events
whose order matters; the two orders of `end_to_end` let the events of one overtake those of the other. `OrderIds` bounds
how many orders are created there.

`Accounts` and `Seed` have no bound but the number of requests and runs, each sent or started once. Three requests are two
registrations and a login between them, or a registration, and two uses of its token around a
deactivation. Three seeds are a holder, a waiter, and one that commits or dies between them.

**Symmetry.** The safety runs of `MC_Sandbox` take requests as interchangeable:
nothing distinguishes them but their input, which is chosen per request.
`answers` checks liveness, and uses no symmetry. Users and assets are not
declared symmetric, since the inputs name them.

**Fairness.** `FairSpec` assumes weak fairness of `Serve(p)` for each request: the event
loop resumes a handler whose statement has returned, and PostgreSQL wakes a
waiter when the lock is free. A statement of a waiting handler is not enabled, so
weak fairness does not let it pass by itself: liveness comes from the holders
ending. Weak fairness suffices although a lock may be taken by somebody else in
between, since requests are finitely many. Nothing is assumed of `Abort`: no
request has to fail for another to be answered.

The relay's `FairSpec` assumes weak fairness of each relay's turn, as its loop goes on and
`docker-compose.yml` restarts it (`restart: unless-stopped`), and of `NoticeDeath`. Failures
are finitely many, by `MaxFailures`: an event that can never be published is tried for ever and,
being the oldest, keeps a single relay from all others. Nothing obliges the API to commit. `EndToEnd` assumes the same.
`Accounts` and `Seed` assume weak fairness of each handler's and each process's statements, as `Sandbox` does.
An `INSERT` that waits is not enabled, so its liveness comes from the other transaction's end.

**Deadlock.** The runs of `MC_Relay` and `MC_EndToEnd` check for deadlock: a relay with nothing to do sleeps and asks
again. So do those of `MC_Sandbox`, `MC_Accounts` and `MC_Seed`, where `Finished` is the only
stuttering step, and needs every request or run to be done. `atomic_ledger` ends when
its keys are spent, so its configuration turns that test off.

## 4. What is proved

The theorems hold for every value of the constants: any sets of users, assets,
requests, keys and inputs, any seed, base, scale and precision. They assume
`ScaleAssumption` (`Base` is even, `Scale` a power of it, `Precision` a positive natural number),
`SupplyAssumption` (below) and
`SchemaAssumption` (the treasury is not a user, active and seeded assets are
assets, the seed is not negative, `NULL` is not a key, inputs are well-formed
requests), those about handlers `PoolAssumption` (`PoolSize` is a positive natural number);
those about the relay assume `RelayAssumption` (`NoEvent` is not an event,
`LocksLinger` is a Boolean, `MaxFailures` is a natural number), and those about both
`EndToEndAssumption` (orders are positive natural numbers). `AccountsAssumption` says that
`lower` maps spellings to spellings and changes nothing the second time, `SeedAssumption` that the
codes of the assets are a sequence of different strings.

`SupplyAssumption` says that users and the keys of their orders are finitely many, and that an asset's treasury was seeded with so
little that its supply, with a unit for each of those keys, leaves a Decimal at least one digit after the unit. In the program that is a supply of less than
10^9 coins: the only code that seeds a treasury gives it 10^6 at most (`app/scripts/seed_dev_data.py:13`), and the keys
in question, those that clients use, number less than the 10^26 units that are left. With a larger supply, balances of whole units would be
rounded, which no test or document of the repository speaks of. The theorems about what a handler or a relay does in its control
(`SandboxProofs`, `RelayProofs`, `AccountsProofs`, `SeedProofs`, `Linearizability`) do not use it.

| Theorem | Module | Says |
|---|---|---|
| `Invariance` | `SandboxProofs` | `Spec => []Inv` |
| `TypeCorrect` | `SandboxProofs` | `Spec => []TypeOK`; balances are natural numbers, so the CHECKs against negative balances never fire |
| `NoLostUpdate` | `SandboxProofs` | `Spec => []SeenIsCurrent` |
| `LockingOrder`, `NobodyWaitsInACircle` | `SandboxProofs` | `Spec => []LocksInOrder`, `[]SomeoneIsReady` |
| `ApiInvariance` | `Refinement` | `Spec => []ApiInv`: all the inductive invariants of the API together |
| `LateRetries` | `Refinement` | `Spec => LateRetriesReplay` |
| `Idempotence` | `SandboxProofs` | `Spec => []IdempotentReplies` |
| `WalletsNeverCollide` | `SandboxProofs` | `Spec => []OnlyKeysCollide` |
| `Linearizability` | `Refinement` | `Spec => Linearizable` |
| `HandlersKeepThePromise` | `Refinement` | the handlers keep `LockedCoversOpenOrders`, `LedgerExplainsBalances`, `OutboxTellsOrders`, `EventsExplainLocked` and `KeysSpentOnce` |
| `HandlersKeepMoney` | `Refinement` | the handlers keep `MoneyIsAccounted` |
| `OpenOrdersAreCovered`, `CancellationsSucceed` | `Refinement` | `Spec => []OpenIsCovered`, `[]CancellationIsCovered` |
| `RelayInvariance` | `RelayProofs` | `Spec => []RelayInv` |
| `DeliveryImplemented` | `RelayProofs` | `Spec => ImplementsDelivery` |
| `FailuresExplainDuplicates` | `RelayProofs` | `Spec => []DuplicatesAreExplained` |
| `SoleRelayKeepsOrder` | `RelayProofs` | `Spec => []CreatedFirst`, if there is one relay at most and `LocksLinger` is false |
| `LedgerTypeCorrect`, `KeysOnce`, `OutboxTellsAll` | `AtomicLedgerProofs` | `Spec => []TypeOK` (no balance is negative), `[]KeysSpentOnce`, `[]OutboxTellsOrders` of the atomic ledger |
| `LockedCovers`, `LedgerExplains`, `EventsExplain` | `AtomicLedgerProofs` | `Spec => []LockedCoversOpenOrders`, `[]LedgerExplainsBalances`, `[]EventsExplainLocked` |
| `TotalsStay`, `ReleasesAreCovered` | `AtomicLedgerProofs` | `Spec => OrdersKeepTotals`, `[]OpenIsCovered` |
| `MoneyAccounted` | `AtomicLedgerProofs` | `Spec => []MoneyIsAccounted` |
| `MoneyStays` | `AtomicLedgerProofs` | `Spec => []MoneyConserved`, if every order's amount is a whole number of units |
| `ComponentsKept` | `EndToEndProofs` | the composed system's behaviours are behaviours of the relay and of the atomic ledger |
| `RowsMatch`, `NeverAhead` | `EndToEndProofs` | `SystemSpec => []RowsMatchDatabase`, `[]ConsumersAreBehind` |
| `SystemKeepsThePromise` | `EndToEndProofs` | with the relays at work the ledger keeps what `HandlersKeepThePromise` lists |
| `ConsumersKnowAmounts` | `EndToEndProofs` | `SystemSpec => []AmountsAreTold` |
| `SystemKeepsOrder` | `EndToEndProofs` | `SystemSpec => []CreatedFirst`, under the conditions of `SoleRelayKeepsOrder` |
| `AccountsInvariance` | `AccountsProofs` | `Spec => []AccountsInv` |
| `UniqueAccounts`, `SoundTokens`, `SoundConflicts` | `AccountsProofs` | `Spec => []OneAccountPerEmail`, `[]TokensNameTheirOwner`, `[]ConflictMeansTaken` |
| `CreatedAccountsOpen`, `Revocation` | `AccountsProofs` | `Spec => RegisteredCanLogIn`, `DeactivationRevokes` |
| `SeedInvariance` | `SeedProofs` | `Spec => []SeedInv` |
| `SeedsCreateOnce`, `SeedsAreComplete` | `SeedProofs` | `Spec => []OneOfEach`, `[]EndedMeansSeeded` |
| `SeedsDoNotCircle` | `SeedProofs` | `Spec => []SomeRunGoesOn` |
| `RoundingDrift` | `SchemaProofs` | what the roundings of a reservation make of the two balances: together nothing or one unit, nothing if the amount is a whole number of units, one if it is a tie |

**The inductive invariant.** None of the properties is inductive alone. That the balances
written are not negative needs the balance test to be true still at the commit,
that is, the row seen to be the row committed (`SeenIsCurrent`), what was tested to
be so of the row seen (`SeenCovers`), and the request to have been validated
(`Validated`). `SeenIsCurrent` in turn needs each handler to hold the lock of what it
has seen (`HoldsItsLocks`) and locks to exclude (`LocksExclude`). A cancellation
counts on its order staying open (`CanceledOrderIsOpen`), a creation and a
funding on their key staying unspent (`ClaimedKeyIsUnspent`). A wallet that is
not there counts as empty (`AbsentIsEmpty`), which is what a first funding
computes from. `Inv` is their conjunction; `orders_race` checks it as a part of `ApiInv`.

The proof has one lemma per action. The three commits, which alone change the
database, share `CommitInv`: a commit writes only rows and keys its transaction holds,
so by `LocksExclude` and `HoldsItsLocks` nothing another handler relies on
changes.

**The answers.** What a client is told is about a row, so `AnswerInv` ties them: every answer `created` or
`replayed` names a row that holds what was asked for, and two answers `created` name two rows (`AnswersAreRows`); the
parts of a row that a replay does not compare follow from those it does (`RowsAreSound`). Rows are appended and only an
order's status changes, so an answer stays true. `IdempotentReplies` is a consequence: two requests that are given one row
sent what the row holds. For `OnlyKeysCollide` the invariant needs that who is about to insert a first wallet
still finds none (`FirstWalletIsAbsent`), which the treasury's lock ensures.

**The refinement** maps each variable of `AtomicLedger` to itself. A step of
`Sandbox` other than a commit leaves the database alone; each commit is one atomic operation,
whose guards follow from `Inv`: the active assets from `Validated`, the unspent key from
`ClaimedKeyIsUnspent`, the sufficient balance from `SeenCovers` and `SeenIsCurrent`.

**The relay.** `RelayInv` says that a claimed event exists, is not published, is nobody else's and is
not orphaned (`ClaimsExclude`), that a relay about to mark a row has sent its message
(`DeliveredWasSent`), and that creations begin before cancellations (`CreatedEarlier`). It makes each
`Confirmed` and `Unconfirmed` a `Send` of a pending event, each `MarkPublished` an `Acknowledge`
of a sent one, and every other step of a relay a stutter. `DuplicatesAreExplained` is then preserved by each
step: counts grow together with `failures`, but for one confirmed delivery, which only the holder of the
row can make. For `SoleRelayKeepsOrder` the invariant adds that whatever cancellation the
relay has claimed has a published creation: a creation not yet published would be
older, unlocked, and claimed instead.

**The ledger's rows.** `KeysSpentOnce` is kept because each commit appends a row whose key is not posted; `OutboxTellsOrders`
because each appends the event of the one order it creates or changes, and an open order has no cancellation
event yet.

**The sums.** What a wallet has locked is compared with sums over all orders, entries or events ever written, and
`SumOf` adds up a sequence by a recursive function. That the function exists and what it does when a row is
appended or changed is proved once, in `SchemaProofs`: `SumsExist` gives it its recursion equation, `SumAppended`
and `SumUpdated` say that a new row adds its value and a changed row the difference, `SumBounds` that values between
bounds have a sum between theirs. They need an induction, which is written as one: `LeastNumber` takes the least
counterexample from the well-foundedness of `<` on the naturals, and each lemma refutes it.

**The roundings.** `power` is a recursive function too, and `SchemaProofs` proves first that it exists and grows
(`PowersExist`, `PowerGrows`), that of two powers the larger is a multiple of the smaller (`PowerDivides`), what the last digit of a Decimal
weighs (`QuantumIs`) and that rounding to it moves a number by half of that at most (`ContextNear`). While a number is
`Small`, so that its last digit is one of the fraction, half units are among the numbers it can be rounded to (`HalfUnits`), hence rounding keeps its side of every half
unit or ends on it (`HalfKept`). That is the point: a sum rounded twice is then one of the two whole units next to it
(`StoredBetween`), whole units are kept (`ContextFine`, `ExactSums`), and ties stay ties. `RoundingDrift` puts
the roundings of a reservation together: of the amount that the order and its entries store, and two of each balance.

**All the money.** That balances are `Small` is itself an invariant: the supply bounds what they hold, if little is gained, and little is gained if
balances are `Small`. `MoneyInv` breaks the circle: it counts, for each asset, what all its wallets hold
(`MoneyIsAccounted`) and has one unit per order, of which there is one per key (`OrdersCounted`), so that by `SupplyAssumption` all
balances fit (`MoneyFits`: `BalancesFit`) before each step. `Held` adds up the wallets of an asset over its owners; `OwnerList` is a sequence with
each owner once (`OwnersListed`), and a change of one wallet changes the sum by its difference (`HeldChanges`). A funding moves
an amount from one term to another, an order changes one term by what `RoundingDrift` allows, and a cancellation, of a whole number of
units, changes none (`NextHeld`). `MoneyStays` is the contrapositive of the finding `rounding_creates_money`.

Then the other sums are invariants like that one, given `BalancesFit`. `BalancesInv` states `LockedCoversOpenOrders` and `LedgerExplainsBalances`
with the types they need: a commit appends one transaction and changes two buckets by the amounts it posts and what they gain,
appends or closes one order, counts it (`OrderSums`), and leaves the sums of all other wallets alone.
`EventsInv` bounds the `Error` between what the events add up to and what is locked: a creation adds to it the
product minus what `locked` has gained (`ReserveError`), and one order to those counted; a cancellation takes the column from both sides.
`OrdersKeepTotals` needs that a total, too, has all its digits (`TotalFits`). `CoverInv` adds to `BalancesInv` that no order reserves
nothing; one open order is then a part of the sum that is covered (`Covered`).

**From the atomic ledger to the handlers.** `Facts` in `Refinement` is an instance of `AtomicLedgerProofs` with the variables of `Sandbox`: its
theorems are about an execution of the atomic ledger, which by `Linearizability` every execution of the handlers is
(`SameLedger`). `HandlersKeepThePromise` states them. A handler does not see any sum. That `CancelLockWallet` nevertheless always finds
enough locked needs `OpenIsCovered`, which comes from there, together with `CanceledOrderIsOpen` from `Inv`.
`CancelInv` adds that an order somebody was told is canceled is so (`CanceledAreRows`): the cancellation that commits finds its
order open, hence nobody was told before.

**Retries.** That a handler which looks for its replay finds the row, and compares it as equal, needs more than that the row is
there: the key must be spent on that row alone (`KeysSpentOnce`, which comes from the atomic ledger), and the row must have been
written by a valid request, or the retry would be refused before it looks (`RowsAreValid`). `FundingFound` and
`OrderFound` conclude for the two SELECTs; `LateRetry` goes through the statements. `ApiInv` is
`Inv`, `AnswerInv`, `RowsAreValid`, `OpenIsCovered`, `CancelInv` and `LockInv`, which TLC checks in `orders_race`.

**The order of the locks.** `LockRank` ranks order rows, treasury wallets, users' wallets and keys, and `StatementRank` gives each
statement the rank it is about to take. `LockInv`, all that is held ranks below the statement, is inductive with `Inv`; it
says of a request without a transaction that it holds nothing. A handler that waits at a rank waits for one in a transaction at a
higher rank (`Holders`), there are five ranks, so one of them does not wait (`HighestIsReady`); and if no request is in a
transaction, the whole pool is free. `NobodyWaitsInACircle` concludes for any number of requests and any pool.

**The composition.** `ComponentsKept` makes every theorem of the relay and of the ledger one of the system
(`SystemKeepsThePromise`, `SystemKeepsOrder`). The
invariant on top of them relates the two: `RelayInv`, orders that are typed, and `RowsMatchOrders`, which each
commit keeps because it changes an order and inserts its event in one step, and each step of a relay because it
sends only rows it has claimed. With it, each commit that adds an event to the outbox adds the row the relays see, which was
not there: the events of the outbox with that key were none and are one (`EventsInv`). Hence a consumer of marked rows adds up all events of the outbox and no other (`AllIsTold`), and
`AmountsAreTold` is `EventsExplainLocked`, which the composed system takes from `Facts`, the theorems of the atomic ledger about its
variables. `ConsumersAreBehind` follows from the invariant without any assumption on the number of relays.

**The accounts.** A registration's INSERT excludes others of its email until it commits or goes (`ClaimsExclude`): when a
row is committed there is neither another row nor another claim of that email, which makes `OneAccountPerEmail`
inductive. What a handler has in hand is a row it has committed itself or the user of an issued token
(`SubjectsAreSound`). For `Revocation`, which is about a request and a moment, the proof carries the deactivated
user along: the token was issued, the user stays deactivated, and `LoadUser` and `LogIn` look at the flag.

**The seed.** A row is inserted by one run at a time and only while it is not there (`InsertsExclude`); what the loop has
passed is committed, inserted or pending (`LoopProvides`). That a run which loses a race leaves nothing to do needs
`OvertakenMeansSeeded`: the row it did not find was committed by another run, and a commit is of all rows.
For `SomeRunGoesOn` the rows are ranked in the order of the loop. A run adds the next row after all those it has inserted
(`InsertsInOrder`), so who is waited for can itself only wait for a later one (`WaitsGoUp`); of the rows
that are waited for there is a last one (`LargestNumber`), and its holder waits for nobody.

**Only model-checked.** `NoDeadlock` says `SomeoneIsReady`, which is proved, and that the step of a request that is
ready is enabled, which is about ENABLED and is not. `EveryRequestAnswered`, `EveryEventPublished`, `CancellationIsTold` and
`EveryRunEnds` are about fairness. Both are out of the prover's reach. All other properties of the passing runs are
theorems.

## 5. What the code does otherwise than it says

Each run below ends in a counterexample.

* `funding_retry`: of two concurrent requests with one key and one input, the second waits
  for the treasury, does not look for the replay again, and fails on the unique key: an
  uncaught `IntegrityError` where "Idempotent sandbox funding" (`README.md:12`)
  promises the first one's transaction. A retry that looks after the commit succeeds (`LateRetries`).
* `order_retry`: a creation that has waited for the wallet compares the balance
  before it looks for the replay again, and tells a retry that the balance, which its own
  first attempt has reserved, is insufficient. Here too a retry that begins after the commit is replayed (`LateRetries`).
* `rounding_creates_money`: `price * quantity` has up to 36 decimals. A reservation of
  half a unit over a whole number of units is rounded up in `locked`, and so is the remainder in
  `available`: the wallet gains 10^-18. Price 0.5 and quantity 10^-18 do it; so do 1.0000000007 and
  1.000000000714285714, whose product is no tie before Python rounds it to 28 digits and is one after. And it happens without any tie: with 1000 locked, price
  1.0000000007 and quantity 1.000000000714285713, `available` and `reserved_amount` are rounded as they should be, while
  `locked + reserved` is rounded to 28 digits first and becomes one unit more. That unit stays
  locked when the order has been canceled. `RoundingDrift` proves that a reservation gains one unit at most, and none if it is a
  whole number of units, `MoneyAccounted` that over any history of the whole ledger nothing else makes money and nothing
  loses any, and `MoneyStays` that with amounts in whole units it is conserved.

Two more the models show without a run of their own. A purchase and a sale with one key lock
different wallets, so the loser fails on the unique key with an uncaught
`IntegrityError`, where `tests/integration/test_order_endpoint.py` expects a conflict
(409) of a reused key; it has the cause of `funding_retry`. And `order.created` carries the unrounded
product, `order.canceled` the stored reservation (`CreatedEvent`, `CanceledEvent` in
`Schema`); `EventsExplainLocked` says how far apart they can be.

Registration, unlike orders and fundings, is not idempotent and is not said to be: a client whose answer was lost after the
commit is told of a conflict when it retries, and can log in (`RegisteredCanLogIn` speaks of those who were told).

## 6. Not modelled

* What the broker does with a message its exchange has accepted. Nothing in the repository binds a
  queue; a message no queue is bound for is confirmed and dropped.
* Health routes: they read nothing this model has, and change nothing.
* Migrations, configuration: they run before the system does. Their constraints are
  in the model as what makes an `INSERT` fail.
* The 20 integer digits of the columns: the schemas admit no larger amount, and the supply is far below. Products are taken to have
  an exponent in the range of the Decimal context, which 36 decimals have.
* Timestamps, names, references, `remaining_quantity` (always equal to `quantity`) and the
  status of ledger transactions (always posted): no service reads them.
* The digest of an order's key is taken to be injective, a hash to verify its own password only, and a
  JWT signature to be unforgeable.
* PostgreSQL's own deadlock detection, which would end one of two transactions that wait in a circle: the models show
  that there is no circle.

## 7. Plan

Done: `Amounts`, `Schema`, `AtomicLedger`, `Session` with the pool, `Funding`, `Orders`,
`Sandbox`, `Delivery`, `Relay`, `EndToEnd`, `Accounts`, `Seed`, and their proofs. In order of what comes next:

1. **Rows of users in the ledger**: a request of `Sandbox` identified by `Accounts`, so that a deactivation between
   two statements of an order can be asked about.
2. **A consumer** beside `EndToEnd`, once the repository has one.
