------------------------------ MODULE Accounts ------------------------------
(***************************************************************************)
(* Accounts and tokens: POST /auth/register and /auth/login                *)
(* (app/api/routes/auth.py), and the identification of the user in every   *)
(* other request (get_current_active_user of app/api/deps.py), of which    *)
(* GET /auth/me answers nothing else.                                      *)
(*                                                                         *)
(* A request runs one READ COMMITTED transaction, as in module Session:    *)
(* an INSERT under the unique index of users.email waits for another one   *)
(* of the same email, and fails when that one has committed.               *)
(*                                                                         *)
(* A hash is known by the password it verifies.  A token is known by the   *)
(* request that was answered with it; its signature cannot be forged, and  *)
(* a token nobody was answered with is refused like a missing one.         *)
(***************************************************************************)
EXTENDS Integers, Sequences

CONSTANTS
    Requests,
    Spellings,    \* email addresses as clients type them
    lower,        \* str.lower()
    Passwords,
    AuthInputs    \* the requests clients send

Registration == [op : {"register"}, email : Spellings, password : Passwords]
Login        == [op : {"login"}, email : Spellings, password : Passwords]
Protected    == [op : {"me"}]

ASSUME AccountsAssumption ==
    /\ lower \in [Spellings -> Spellings]
    /\ \A s \in Spellings : lower[lower[s]] = lower[s]
    /\ AuthInputs \subseteq Registration \cup Login \cup Protected

VARIABLES
    users,      \* the rows of users, in the order of their commits
    request,    \* what each request asks for
    pc,         \* the statement its handler is about to run
    claimed,    \* the requests that have inserted a row and not committed it
    subject,    \* the user a handler has inserted, or has decoded from a token
    reply,      \* what the client was told, and the user its token names
    expired     \* the requests whose token is past its expiry

vars == <<users, request, pc, claimed, subject, reply, expired>>

User == [email : Spellings, hashed_password : Passwords, is_active : BOOLEAN]

Labels == {"start", "insert", "commit", "respond", "load_user", "done"}

Outcomes == {"pending", "created", "logged_in", "identified", "conflict",
             "unauthorized", "aborted"}

Init ==
    /\ users = <<>>
    /\ request \in [Requests -> AuthInputs]
    /\ pc = [p \in Requests |-> "start"]
    /\ claimed = {}
    /\ subject = [p \in Requests |-> 0]
    /\ reply = [p \in Requests |-> [outcome |-> "pending", user |-> 0]]
    /\ expired = {}

At(p, op, label) == request[p].op = op /\ pc[p] = label

Goto(p, label) ==
    /\ pc' = [pc EXCEPT ![p] = label]
    /\ UNCHANGED <<request, reply, expired>>

(* Fault: a session that is closed without rollback. *)
AnswerKeepingClaim(p, outcome, user) ==
    /\ pc' = [pc EXCEPT ![p] = "done"]
    /\ reply' = [reply EXCEPT ![p] = [outcome |-> outcome, user |-> user]]
    /\ UNCHANGED <<users, request, claimed, subject, expired>>

(* The handler returns or raises, and its transaction, if any, is gone. *)
Answer(p, outcome, user) ==
    /\ pc' = [pc EXCEPT ![p] = "done"]
    /\ reply' = [reply EXCEPT ![p] = [outcome |-> outcome, user |-> user]]
    /\ claimed' = claimed \ {p}
    /\ UNCHANGED <<users, request, subject, expired>>

Refuse(p, outcome) == Answer(p, outcome, 0)

Email(p) == lower[request[p].email]

(* Fault: the email is compared as it was typed. *)
AccountsAsTyped(p) == {u \in DOMAIN users : users[u].email = request[p].email}

(* select(User).where(User.email == email) *)
AccountsOf(p) == {u \in DOMAIN users : users[u].email = Email(p)}

-----------------------------------------------------------------------------
(* Registration. *)

RegisterSelect(p) ==
    /\ At(p, "register", "start")
    /\ \/ AccountsOf(p) # {} /\ Refuse(p, "conflict")
       \/ /\ AccountsOf(p) = {}
          /\ Goto(p, "insert")
          /\ UNCHANGED <<users, claimed, subject>>

Rivals(p) == {q \in claimed \ {p} : Email(q) = Email(p)}

(* Fault: the email has no unique index. *)
InsertWithoutIndex(p) ==
    /\ At(p, "register", "insert")
    /\ claimed' = claimed \cup {p}
    /\ Goto(p, "commit")
    /\ UNCHANGED <<users, subject>>

(* Fault: an insertion in progress is taken for an account. *)
InsertWithoutWaiting(p) ==
    /\ At(p, "register", "insert")
    /\ IF Rivals(p) # {} \/ AccountsOf(p) # {}
       THEN Refuse(p, "conflict")
       ELSE /\ claimed' = claimed \cup {p}
            /\ Goto(p, "commit")
            /\ UNCHANGED <<users, subject>>

(* The INSERT of session.commit().  An IntegrityError is rolled back and   *)
(* told as a conflict.                                                     *)
RegisterInsert(p) ==
    /\ At(p, "register", "insert")
    /\ Rivals(p) = {}
    /\ \/ AccountsOf(p) # {} /\ Refuse(p, "conflict")
       \/ /\ AccountsOf(p) = {}
          /\ claimed' = claimed \cup {p}
          /\ Goto(p, "commit")
          /\ UNCHANGED <<users, subject>>

RegisterCommit(p) ==
    /\ At(p, "register", "commit")
    /\ users' = Append(users, [email |-> Email(p), is_active |-> TRUE,
                               hashed_password |-> request[p].password])
    /\ claimed' = claimed \ {p}
    /\ subject' = [subject EXCEPT ![p] = Len(users) + 1]
    /\ Goto(p, "respond")

(* The row is read again, for its id, and the token made. *)
RegisterRespond(p) ==
    /\ At(p, "register", "respond")
    /\ Answer(p, "created", subject[p])

-----------------------------------------------------------------------------
(* Login. *)

(* Fault: the password is not compared. *)
VerifyNothing(p, u) == TRUE

verify_password(p, u) == users[u].hashed_password = request[p].password

(* The hash of the row that was read is verified without another wait.     *)
LogIn(p) ==
    LET Admitted == {u \in AccountsOf(p) : users[u].is_active /\ verify_password(p, u)}
    IN  /\ At(p, "login", "start")
        /\ \/ Admitted = {} /\ Refuse(p, "unauthorized")
           \/ \E u \in Admitted : Answer(p, "logged_in", u)

-----------------------------------------------------------------------------
(* Every other request presents a token, or nothing that can be decoded.   *)

Issued == {p \in Requests : reply[p].outcome \in {"created", "logged_in"}}

Decode(p) ==
    /\ At(p, "me", "start")
    /\ \/ Refuse(p, "unauthorized")
       \/ \E q \in Issued \ expired :
              /\ subject' = [subject EXCEPT ![p] = reply[q].user]
              /\ Goto(p, "load_user")
              /\ UNCHANGED <<users, claimed>>

(* Fault: the token alone identifies the user. *)
LoadAnyUser(p) ==
    /\ At(p, "me", "load_user")
    /\ Answer(p, "identified", subject[p])

LoadUser(p) ==
    LET known == subject[p] \in DOMAIN users /\ users[subject[p]].is_active
    IN  /\ At(p, "me", "load_user")
        /\ \/ ~known /\ Refuse(p, "unauthorized")
           \/ known /\ Answer(p, "identified", subject[p])

-----------------------------------------------------------------------------
(* What happens around the handlers. *)

(* The process dies, the connection drops or the client leaves. *)
Abort(p) ==
    /\ pc[p] # "done"
    /\ Refuse(p, "aborted")

(* ACCESS_TOKEN_EXPIRE_MINUTES have passed. *)
Expire(p) ==
    /\ p \in Issued \ expired
    /\ expired' = expired \cup {p}
    /\ UNCHANGED <<users, request, pc, claimed, subject, reply>>

(* An administrator clears the flag, which no route sets. *)
Deactivate(u) ==
    /\ users[u].is_active
    /\ users' = [users EXCEPT ![u].is_active = FALSE]
    /\ UNCHANGED <<request, pc, claimed, subject, reply, expired>>

Serve(p) ==
    \/ RegisterSelect(p)
    \/ RegisterInsert(p)
    \/ RegisterCommit(p)
    \/ RegisterRespond(p)
    \/ LogIn(p)
    \/ Decode(p)
    \/ LoadUser(p)

Finished == (\A p \in Requests : pc[p] = "done") /\ UNCHANGED vars

Next ==
    \/ \E p \in Requests : Serve(p) \/ Abort(p) \/ Expire(p)
    \/ \E u \in DOMAIN users : Deactivate(u)
    \/ Finished

Spec == Init /\ [][Next]_vars

(* As for the other handlers: the event loop goes on, and an INSERT that   *)
(* waits is granted when the other transaction has ended.                  *)
FairSpec == Spec /\ \A p \in Requests : WF_vars(Serve(p))

-----------------------------------------------------------------------------
TypeOK ==
    /\ users \in Seq(User)
    /\ request \in [Requests -> AuthInputs]
    /\ pc \in [Requests -> Labels]
    /\ claimed \in SUBSET Requests
    /\ subject \in [Requests -> Nat]
    /\ reply \in [Requests -> [outcome : Outcomes, user : Nat]]
    /\ expired \in SUBSET Requests

(* An insertion in progress is the only one of its email, and no account   *)
(* of that email is committed.                                             *)
ClaimsExclude ==
    /\ \A p \in Requests : p \in claimed <=> pc[p] = "commit"
    /\ \A p \in claimed :
           /\ request[p].op = "register"
           /\ AccountsOf(p) = {}
           /\ \A q \in claimed : Email(q) = Email(p) => q = p

(* What a handler has in hand, past its first statement: a registration    *)
(* the row it committed, which is nobody else's, and any other request the *)
(* user of a token that was issued.                                        *)
HasCreated(p) == pc[p] = "respond" \/ reply[p].outcome = "created"

SubjectsAreSound ==
    /\ \A p \in Requests :
           /\ pc[p] = "done" <=> reply[p].outcome # "pending"
           /\ HasCreated(p) =>
                  /\ request[p].op = "register"
                  /\ subject[p] \in DOMAIN users
                  /\ users[subject[p]].email = Email(p)
                  /\ users[subject[p]].hashed_password = request[p].password
           /\ reply[p].outcome = "created" => reply[p].user = subject[p]
           /\ pc[p] = "load_user" => \E q \in Issued : reply[q].user = subject[p]
    /\ \A p, q \in Requests :
           HasCreated(p) /\ HasCreated(q) /\ p # q => subject[p] # subject[q]

(* An email has one account, whatever the case it was typed in and however *)
(* many registrations of it run at once (auth.py:27 looks for the account  *)
(* and auth.py:38 inserts it in another statement).                        *)
OneAccountPerEmail ==
    \A u, v \in DOMAIN users :
        /\ lower[users[u].email] = users[u].email
        /\ users[u].email = users[v].email => u = v

(* A token names the account whose email and password its request sent,    *)
(* only one request is told that it created an account, and a request is   *)
(* identified as the user of a token that somebody was given.              *)
TokensNameTheirOwner ==
    /\ \A p \in Issued :
           /\ reply[p].user \in DOMAIN users
           /\ users[reply[p].user].email = Email(p)
           /\ users[reply[p].user].hashed_password = request[p].password
    /\ \A p, q \in Requests :
           /\ reply[p].outcome = "created" /\ reply[q].outcome = "created" /\ p # q
           => reply[p].user # reply[q].user
    /\ \A p \in Requests : reply[p].outcome = "identified" =>
           \E q \in Issued : reply[q].user = reply[p].user

(* A registration is refused only for an account that is there to stay,    *)
(* not for one whose registration may still be rolled back.                *)
ConflictMeansTaken ==
    \A p \in Requests : reply[p].outcome = "conflict" => AccountsOf(p) # {}

(* What each handler relies on, whatever the others do meanwhile: the      *)
(* inductive invariant.                                                    *)
AccountsInv ==
    /\ TypeOK
    /\ ClaimsExclude
    /\ SubjectsAreSound
    /\ OneAccountPerEmail
    /\ TokensNameTheirOwner
    /\ ConflictMeansTaken

(* Whoever was told that an account was created can log in to it, with the *)
(* email in any case, until it is deactivated.                             *)
RegisteredCanLogIn ==
    [][\A p \in Requests :
          request[p].op = "login" /\ reply'[p].outcome = "unauthorized"
          /\ reply[p].outcome = "pending" =>
              \A q \in Requests :
                  /\ reply[q].outcome = "created"
                  /\ Email(q) = Email(p) /\ request[q].password = request[p].password
                  => ~users[reply[q].user].is_active]_vars

(* Deactivating an account revokes its tokens at once: no request that     *)
(* begins afterwards is identified as its user or given a token for it,    *)
(* although the tokens it was given before have not expired.               *)
Deactivated(q) == q \in Issued /\ ~users[reply[q].user].is_active

Admitted(p, user) ==
    reply[p].outcome \in {"logged_in", "identified"} /\ reply[p].user = user

DeactivationRevokes ==
    \A p, q \in Requests :
        [](pc[p] = "start" /\ Deactivated(q) => []~Admitted(p, reply[q].user))

(* Every request is answered: a registration that waits for another one of *)
(* its email does not wait for ever.                                       *)
EveryRequestAnswered == \A p \in Requests : <>(pc[p] = "done")

=============================================================================
