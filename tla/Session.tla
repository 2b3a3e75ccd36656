------------------------------ MODULE Session ------------------------------
(***************************************************************************)
(* Database sessions: what every request handler does with PostgreSQL      *)
(* through its AsyncSession.                                               *)
(*                                                                         *)
(* A request runs one READ COMMITTED transaction.  Each of its statements  *)
(* sees the rows committed when it starts.  SELECT ... FOR UPDATE waits    *)
(* until no other transaction locks the row, and returns the row as it     *)
(* then is.  An INSERT that meets an uncommitted row with the same unique  *)
(* key waits for the other transaction, and fails when that one committed. *)
(* What a transaction writes becomes visible, and its locks are released,  *)
(* at its commit; a refused or lost request rolls back.  So the state      *)
(* holds the committed rows, and for each request where its handler is,    *)
(* the wallets it has read under a lock, and the rows and unique keys it   *)
(* holds.                                                                  *)
(***************************************************************************)
EXTENDS Schema, FiniteSets

CONSTANTS
    Requests,    \* the HTTP requests, each one sent at most once
    PoolSize     \* how many connections the engine opens at most

ASSUME PoolAssumption == PoolSize \in Nat \ {0}

VARIABLES
    wallets, ledger, orders, outbox,   \* committed rows
    request,   \* what each request asks for
    pc,        \* the statement its handler is about to run
    seen,      \* the wallet rows it has read FOR UPDATE
    holds,     \* the rows and unique keys it keeps others waiting for
    reply      \* what its client was told, and the row the answer names

database == <<wallets, ledger, orders, outbox>>
vars == <<wallets, ledger, orders, outbox, request, pc, seen, holds, reply>>

Labels == {"start", "lock_order", "lock_treasury", "lock_wallet", "insert_wallet",
           "recheck", "insert_transaction", "commit", "respond", "done"}

Outcomes == {"pending", "created", "canceled", "replayed", "invalid",
             "asset_not_found", "conflict", "insufficient", "not_initialized",
             "not_found", "not_cancelable", "reservation_state",
             "integrity_error", "unavailable", "aborted"}

WalletRow(w) == <<"wallet", w>>
OrderRow(n)  == <<"order", n>>
KeyClaim(k)  == <<"key", k>>

Lockables == ({"wallet"} \X WalletIds) \cup ({"order"} \X Nat)
                 \cup ({"key"} \X LedgerKeys)

NothingRead == [treasury |-> NoWallet, wallet |-> NoWallet]

SessionInit ==
    /\ wallets = SeededWallets
    /\ ledger = <<>>
    /\ orders = <<>>
    /\ outbox = <<>>
    /\ request \in [Requests -> Inputs]
    /\ pc = [p \in Requests |-> "start"]
    /\ seen = [p \in Requests |-> NothingRead]
    /\ holds = [p \in Requests |-> {}]
    /\ reply = [p \in Requests |-> [outcome |-> "pending", row |-> 0]]

At(p, op, label) == request[p].op = op /\ pc[p] = label

-----------------------------------------------------------------------------
(* The connection pool.  A session takes a connection for its first        *)
(* statement and gives it back when its transaction ends, so that after    *)
(* its commit a handler asks for one again.                                *)

(* Fault: the session keeps its connection after the commit. *)
ConnectedUntilDone(p) == pc[p] \notin {"start", "done"}

Connected(p) == pc[p] \notin {"start", "respond", "done"}

ConnectionFree == Cardinality({p \in Requests : Connected(p)}) < PoolSize

-----------------------------------------------------------------------------
(* Locks. *)

Free(p, row) == \A q \in Requests \ {p} : row \notin holds[q]

(* A SELECT ... FOR UPDATE of a row that does not exist has nothing to     *)
(* wait for.                                                               *)
WalletReadable(p, w) == wallets[w].exists => Free(p, WalletRow(w))

Hold(p, row) == holds' = [holds EXCEPT ![p] = @ \cup {row}]

(* Fault: the treasury is read without FOR UPDATE. *)
LockUserWalletOnly(p, slot, w) ==
    /\ IF slot = "wallet" THEN Hold(p, WalletRow(w)) ELSE UNCHANGED holds
    /\ seen' = [seen EXCEPT ![p][slot] = wallets[w]]

LockWallet(p, slot, w) ==
    /\ Hold(p, WalletRow(w))
    /\ seen' = [seen EXCEPT ![p][slot] = wallets[w]]

(* The handler goes on to its next statement, still in its transaction. *)
Goto(p, label) ==
    /\ pc' = [pc EXCEPT ![p] = label]
    /\ UNCHANGED <<wallets, ledger, orders, outbox, request, reply>>

-----------------------------------------------------------------------------
(* The end of a transaction: its locks go, and its outcome is known. *)

(* Fault: a session that is closed without commit or rollback. *)
CloseKeepingLocks(p, label, outcome, row) ==
    /\ pc' = [pc EXCEPT ![p] = label]
    /\ reply' = [reply EXCEPT ![p] = [outcome |-> outcome, row |-> row]]
    /\ seen' = [seen EXCEPT ![p] = NothingRead]
    /\ UNCHANGED <<request, holds>>

Close(p, label, outcome, row) ==
    /\ pc' = [pc EXCEPT ![p] = label]
    /\ reply' = [reply EXCEPT ![p] = [outcome |-> outcome, row |-> row]]
    /\ holds' = [holds EXCEPT ![p] = {}]
    /\ seen' = [seen EXCEPT ![p] = NothingRead]
    /\ UNCHANGED request

(* The caller says what the commit does to the database. *)
Commit(p, outcome, row) == Close(p, "respond", outcome, row)

Rollback(p, outcome, row) ==
    Close(p, "done", outcome, row) /\ UNCHANGED database

Refuse(p, outcome) == Rollback(p, outcome, 0)
Replay(p, row)     == Rollback(p, "replayed", row)

(* After the commit the handler refreshes its row and answers. *)
Respond(p) ==
    /\ pc[p] = "respond"
    /\ ConnectionFree
    /\ Goto(p, "done")
    /\ UNCHANGED <<seen, holds>>

(* The process dies, the connection drops or the client leaves, at any     *)
(* point, also while it waits for a lock.  The client learns nothing, also *)
(* when the transaction has committed.  The death of a process is an Abort *)
(* of each request it was serving.                                         *)
Abort(p) ==
    /\ pc[p] # "done"
    /\ Refuse(p, "aborted")

(* No connection has become free for 30 seconds, the pool_timeout: the     *)
(* request fails, also when its transaction has committed.                 *)
PoolTimeout(p) ==
    /\ pc[p] \in {"start", "respond"}
    /\ ~ConnectionFree
    /\ Refuse(p, "unavailable")

-----------------------------------------------------------------------------
(* session.add(transaction); session.flush(): the unique idempotency_key.  *)

(* Fault: idempotency_key is not unique. *)
NoPostedKeys == {}

PostedKeys == {ledger[i].key : i \in DOMAIN ledger}

transaction_key(r) ==
    IF r.op = "fund" THEN r.key ELSE ledger_idempotency_key(r.user, r.key)

InsertTransaction(p) ==
    LET key == transaction_key(request[p])
    IN  /\ pc[p] = "insert_transaction"
        /\ Free(p, KeyClaim(key))
        /\ \/ /\ key \in PostedKeys
              /\ Refuse(p, "integrity_error")
           \/ /\ key \notin PostedKeys
              /\ Hold(p, KeyClaim(key))
              /\ Goto(p, "commit")
              /\ UNCHANGED seen

=============================================================================
