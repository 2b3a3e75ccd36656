------------------------------ MODULE Funding ------------------------------
(***************************************************************************)
(* Sandbox funding: POST /wallets/fund, post_sandbox_funding of            *)
(* app/services/ledger.py.  It looks for a transaction with its key before *)
(* it takes any lock, and not again.                                       *)
(***************************************************************************)
EXTENDS Session

(* The transactions that already carry the key of a funding request. *)
FundingsOf(r) == {i \in DOMAIN ledger : ledger[i].key = r.key}

(* Fault: the owner of the credited wallet is not compared. *)
FundingMatchesAnyUser(r, t) ==
    /\ t.type = "funding"
    /\ t.credit.wallet[2] = r.asset
    /\ t.credit.amount = r.amount

(* Fault: the type of the transaction is not compared, nor the bucket. *)
FundingMatchesAnyType(r, t) ==
    /\ t.credit.wallet = UserWallet(r.user, r.asset)
    /\ t.credit.amount = r.amount

FundingMatches(r, t) ==
    /\ t.type = "funding"
    /\ t.credit = Entry(UserWallet(r.user, r.asset), "available", r.amount)

find_funding_replay(p) ==
    LET r == request[p]
    IN  \E i \in FundingsOf(r) :
            \/ FundingMatches(r, ledger[i]) /\ Replay(p, i)
            \/ ~FundingMatches(r, ledger[i]) /\ Refuse(p, "conflict")

FundBegin(p) ==
    LET r     == request[p]
        known == active_asset(r.asset)
    IN  /\ At(p, "fund", "start")
        /\ ConnectionFree
        /\ \/ r.amount <= 0 /\ Refuse(p, "invalid")
           \/ r.amount > 0 /\ ~known /\ Refuse(p, "asset_not_found")
           \/ r.amount > 0 /\ known /\ find_funding_replay(p)
           \/ /\ r.amount > 0 /\ known /\ FundingsOf(r) = {}
              /\ Goto(p, "lock_treasury")
              /\ UNCHANGED <<seen, holds>>

FundLockTreasury(p) ==
    LET r == request[p]
        t == TreasuryWallet(r.asset)
    IN  /\ At(p, "fund", "lock_treasury")
        /\ WalletReadable(p, t)
        /\ \/ ~wallets[t].exists /\ Refuse(p, "not_initialized")
           \/ /\ wallets[t].exists /\ wallets[t].available < r.amount
              /\ Refuse(p, "insufficient")
           \/ /\ wallets[t].exists /\ wallets[t].available >= r.amount
              /\ LockWallet(p, "treasury", t)
              /\ Goto(p, "lock_wallet")

FundLockWallet(p) ==
    LET u == UserWallet(request[p].user, request[p].asset)
    IN  /\ At(p, "fund", "lock_wallet")
        /\ WalletReadable(p, u)
        /\ \/ /\ wallets[u].exists
              /\ LockWallet(p, "wallet", u)
              /\ Goto(p, "insert_transaction")
           \/ /\ ~wallets[u].exists
              /\ Goto(p, "insert_wallet")
              /\ UNCHANGED <<seen, holds>>

(* The user's first wallet of the asset: an INSERT, under the unique index *)
(* of user and asset.                                                      *)
FundInsertWallet(p) ==
    LET u == UserWallet(request[p].user, request[p].asset)
    IN  /\ At(p, "fund", "insert_wallet")
        /\ Free(p, WalletRow(u))
        /\ IF wallets[u].exists
           THEN Refuse(p, "integrity_error")
           ELSE /\ Hold(p, WalletRow(u))
                /\ Goto(p, "insert_transaction")
                /\ UNCHANGED seen

(* The balances written are computed from the rows that were read. *)
FundCommit(p) ==
    LET r == request[p]
        t == TreasuryWallet(r.asset)
        u == UserWallet(r.user, r.asset)
    IN  /\ At(p, "fund", "commit")
        /\ wallets' = [wallets EXCEPT
               ![t].available = minus(seen[p].treasury.available, Fine(r.amount)),
               ![u].available = plus(seen[p].wallet.available, Fine(r.amount)),
               ![u].exists = TRUE]
        /\ ledger' = Append(ledger, FundingTransaction(r))
        /\ UNCHANGED <<orders, outbox>>
        /\ Commit(p, "created", Len(ledger) + 1)

=============================================================================
