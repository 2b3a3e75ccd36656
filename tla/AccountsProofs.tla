--------------------------- MODULE AccountsProofs ---------------------------
(***************************************************************************)
(* Proofs about accounts and tokens: the inductive invariant, and what     *)
(* follows from it for any number of requests, addresses and passwords.    *)
(***************************************************************************)
EXTENDS Accounts, SequenceTheorems, TLAPS

LEMMA RequestTypes ==
    ASSUME TypeOK, NEW p \in Requests
    PROVE  /\ request[p] \in AuthInputs
           /\ request[p].op \in {"register", "login"} =>
                  request[p].email \in Spellings /\ request[p].password \in Passwords
BY AccountsAssumption DEF TypeOK, Registration, Login, Protected

LEMMA EmailTypes ==
    ASSUME TypeOK, NEW p \in Requests, request[p].op \in {"register", "login"}
    PROVE  Email(p) \in Spellings /\ lower[Email(p)] = Email(p)
BY RequestTypes, AccountsAssumption DEF Email

LEMMA InitAccountsInv == Init => AccountsInv
BY DEF Init, AccountsInv, TypeOK, Labels, Outcomes, ClaimsExclude, SubjectsAreSound,
   HasCreated, OneAccountPerEmail, TokensNameTheirOwner, Issued, ConflictMeansTaken

-----------------------------------------------------------------------------
(* A handler that answers without a token, from any statement.             *)
LEMMA RefuseInv ==
    ASSUME AccountsInv, NEW p \in Requests, pc[p] # "done",
           NEW outcome \in {"conflict", "unauthorized", "aborted"},
           Refuse(p, outcome),
           outcome = "conflict" => AccountsOf(p) # {}
    PROVE  AccountsInv'
<1> USE DEF Refuse, Answer, AccountsInv
<1>1. TypeOK'
  BY DEF TypeOK, Labels, Outcomes
<1>2. ClaimsExclude'
  BY DEF TypeOK, ClaimsExclude, AccountsOf, Email
<1>3. Issued' = Issued
  BY DEF TypeOK, Issued, SubjectsAreSound
<1>4. SubjectsAreSound'
  BY <1>3 DEF TypeOK, SubjectsAreSound, HasCreated, Issued, Email
<1>5. OneAccountPerEmail'
  BY DEF OneAccountPerEmail
<1>6. TokensNameTheirOwner'
  BY <1>3 DEF TypeOK, TokensNameTheirOwner, Issued, Email
<1>7. ConflictMeansTaken'
  BY DEF TypeOK, ConflictMeansTaken, AccountsOf, Email
<1> QED
  BY <1>1, <1>2, <1>4, <1>5, <1>6, <1>7

(* A handler that goes on to its next statement and touches no row.        *)
LEMMA RegisterSelectInv ==
    ASSUME AccountsInv, NEW p \in Requests, RegisterSelect(p)
    PROVE  AccountsInv'
<1> USE DEF RegisterSelect, At, Goto, AccountsInv
<1>1. CASE AccountsOf(p) # {} /\ Refuse(p, "conflict")
  BY <1>1, RefuseInv
<1>2. CASE Goto(p, "insert") /\ UNCHANGED <<users, claimed, subject>>
  <2> USE <1>2
  <2>1. TypeOK'
    BY DEF TypeOK, Labels
  <2>2. ClaimsExclude'
    BY DEF TypeOK, ClaimsExclude, AccountsOf, Email
  <2>3. SubjectsAreSound'
    BY DEF TypeOK, SubjectsAreSound, HasCreated, Issued, Email
  <2>4. OneAccountPerEmail' /\ TokensNameTheirOwner' /\ ConflictMeansTaken'
    BY DEF OneAccountPerEmail, TokensNameTheirOwner, ConflictMeansTaken,
       Issued, AccountsOf, Email
  <2> QED
    BY <2>1, <2>2, <2>3, <2>4
<1> QED
  BY <1>1, <1>2

LEMMA RegisterInsertInv ==
    ASSUME AccountsInv, NEW p \in Requests, RegisterInsert(p)
    PROVE  AccountsInv'
<1> USE DEF RegisterInsert, At, Goto, AccountsInv
<1>1. CASE AccountsOf(p) # {} /\ Refuse(p, "conflict")
  BY <1>1, RefuseInv
<1>2. CASE /\ AccountsOf(p) = {}
           /\ claimed' = claimed \cup {p}
           /\ Goto(p, "commit")
           /\ UNCHANGED <<users, subject>>
  <2> USE <1>2
  <2>1. TypeOK'
    BY DEF TypeOK, Labels
  <2>2. ClaimsExclude'
    <3>1. \A q \in Requests : AccountsOf(q)' = AccountsOf(q) /\ Email(q)' = Email(q)
      BY DEF AccountsOf, Email
    <3>2. \A q \in claimed : Email(q) = Email(p) => q = p
      BY DEF Rivals
    <3> QED
      BY <3>1, <3>2 DEF TypeOK, ClaimsExclude
  <2>3. SubjectsAreSound'
    BY DEF TypeOK, SubjectsAreSound, HasCreated, Issued, Email
  <2>4. OneAccountPerEmail' /\ TokensNameTheirOwner' /\ ConflictMeansTaken'
    BY DEF OneAccountPerEmail, TokensNameTheirOwner, ConflictMeansTaken,
       Issued, AccountsOf, Email
  <2> QED
    BY <2>1, <2>2, <2>3, <2>4
<1> QED
  BY <1>1, <1>2

(* The commit: the one step that adds an account.                          *)
LEMMA RegisterCommitInv ==
    ASSUME AccountsInv, NEW p \in Requests, RegisterCommit(p)
    PROVE  AccountsInv'
<1> DEFINE row == [email |-> Email(p), is_active |-> TRUE,
                   hashed_password |-> request[p].password]
           n == Len(users) + 1
<1> USE DEF AccountsInv
<1>1. /\ p \in claimed /\ request[p].op = "register" /\ pc[p] = "commit"
      /\ users' = Append(users, row) /\ claimed' = claimed \ {p}
      /\ subject' = [subject EXCEPT ![p] = n]
      /\ pc' = [pc EXCEPT ![p] = "respond"]
      /\ UNCHANGED <<request, reply, expired>>
  BY DEF RegisterCommit, At, Goto, ClaimsExclude
<1>2. row \in User /\ lower[Email(p)] = Email(p)
  BY <1>1, RequestTypes, EmailTypes DEF User
<1>3. /\ n \in Nat /\ n \notin DOMAIN users /\ DOMAIN users' = DOMAIN users \cup {n}
      /\ users'[n] = row /\ \A u \in DOMAIN users : users'[u] = users[u]
      /\ DOMAIN users \subseteq Nat
  BY <1>1, <1>2 DEF TypeOK
<1>4. TypeOK'
  BY <1>1, <1>2, <1>3 DEF TypeOK, Labels
<1>5. \A q \in Requests :
          AccountsOf(q)' = IF Email(q) = Email(p) THEN AccountsOf(q) \cup {n}
                           ELSE AccountsOf(q)
  BY <1>1, <1>3 DEF AccountsOf, Email
<1>6. \A q \in Requests : Email(q)' = Email(q)
  BY <1>1 DEF Email
<1>7. ClaimsExclude'
  BY <1>1, <1>5, <1>6 DEF TypeOK, ClaimsExclude
<1>8. SubjectsAreSound'
  <2>1. \A q \in Requests \ {p} : HasCreated(q)' <=> HasCreated(q)
    BY <1>1 DEF TypeOK, HasCreated
  <2>2. \A q \in Requests \ {p} : HasCreated(q) => subject[q] \in DOMAIN users
    BY DEF SubjectsAreSound
  <2>3. subject'[p] = n /\ \A q \in Requests \ {p} : subject'[q] = subject[q]
    BY <1>1 DEF TypeOK
  <2>4. Issued' = Issued
    BY <1>1 DEF Issued
  <2>5. ~HasCreated(p) /\ reply[p].outcome = "pending" /\ pc'[p] = "respond"
        /\ \A q \in Requests \ {p} : pc'[q] = pc[q]
    BY <1>1 DEF SubjectsAreSound, HasCreated, TypeOK
  <2>6. \A q \in Requests :
            /\ pc'[q] = "done" <=> reply'[q].outcome # "pending"
            /\ reply'[q].outcome = "created" => reply'[q].user = subject'[q]
    BY <1>1, <2>3, <2>5 DEF SubjectsAreSound
  <2>7. \A q \in Requests : pc'[q] = "load_user" =>
            \E s \in Issued' : reply'[s].user = subject'[q]
    BY <1>1, <2>3, <2>4, <2>5 DEF SubjectsAreSound
  <2>8. \A q \in Requests : HasCreated(q)' =>
            /\ request'[q].op = "register"
            /\ subject'[q] \in DOMAIN users'
            /\ users'[subject'[q]].email = Email(q)'
            /\ users'[subject'[q]].hashed_password = request'[q].password
    BY <1>1, <1>3, <1>6, <2>1, <2>2, <2>3 DEF SubjectsAreSound
  <2>9. \A q, s \in Requests :
            HasCreated(q)' /\ HasCreated(s)' /\ q # s => subject'[q] # subject'[s]
    BY <1>3, <2>1, <2>2, <2>3 DEF SubjectsAreSound
  <2> QED
    BY <2>6, <2>7, <2>8, <2>9 DEF SubjectsAreSound
<1>9. OneAccountPerEmail'
  BY <1>1, <1>2, <1>3 DEF OneAccountPerEmail, ClaimsExclude, AccountsOf
<1>10. TokensNameTheirOwner'
  BY <1>1, <1>3, <1>6 DEF TokensNameTheirOwner, Issued
<1>11. ConflictMeansTaken'
  BY <1>1, <1>5 DEF ConflictMeansTaken
<1> QED
  BY <1>4, <1>7, <1>8, <1>9, <1>10, <1>11

-----------------------------------------------------------------------------
(* Answers with a token, and of identified requests.                       *)

LEMMA RegisterRespondInv ==
    ASSUME AccountsInv, NEW p \in Requests, RegisterRespond(p)
    PROVE  AccountsInv'
<1> USE DEF RegisterRespond, At, Answer, AccountsInv
<1>1. TypeOK'
  BY DEF TypeOK, Labels, Outcomes
<1>2. ClaimsExclude'
  BY DEF TypeOK, ClaimsExclude, AccountsOf, Email
<1>3. Issued' = Issued \cup {p} /\ \A q \in Issued : reply'[q] = reply[q]
  BY DEF TypeOK, Issued, SubjectsAreSound
<1>4. HasCreated(p) /\ reply'[p] = [outcome |-> "created", user |-> subject[p]]
  BY DEF TypeOK, HasCreated
<1>5. \A q \in Requests : (HasCreated(q)' <=> HasCreated(q)) /\ Email(q)' = Email(q)
  BY <1>4 DEF TypeOK, HasCreated, Email
<1>6. SubjectsAreSound'
  BY <1>3, <1>4, <1>5 DEF TypeOK, SubjectsAreSound
<1>7. OneAccountPerEmail'
  BY DEF OneAccountPerEmail
<1>8. TokensNameTheirOwner'
  <2>1. \A q \in Issued' :
            /\ reply'[q].user \in DOMAIN users'
            /\ users'[reply'[q].user].email = Email(q)'
            /\ users'[reply'[q].user].hashed_password = request'[q].password
    <3>1. /\ reply'[p].user \in DOMAIN users
          /\ users[reply'[p].user].email = Email(p)
          /\ users[reply'[p].user].hashed_password = request[p].password
      BY <1>4 DEF SubjectsAreSound
    <3>2. Issued \subseteq Requests
      BY DEF Issued
    <3> QED
      BY <1>3, <1>5, <3>1, <3>2 DEF TokensNameTheirOwner
  <2>2. \A q, s \in Requests :
            reply'[q].outcome = "created" /\ reply'[s].outcome = "created" /\ q # s =>
                reply'[q].user # reply'[s].user
    BY <1>4, <1>6 DEF SubjectsAreSound, HasCreated
  <2>3. \A q \in Requests : reply'[q].outcome = "identified" =>
            q # p /\ reply'[q] = reply[q]
    BY <1>4 DEF TypeOK
  <2> QED
    BY <1>3, <2>1, <2>2, <2>3 DEF TokensNameTheirOwner
<1>9. ConflictMeansTaken'
  BY DEF TypeOK, ConflictMeansTaken, AccountsOf, Email
<1> QED
  BY <1>1, <1>2, <1>6, <1>7, <1>8, <1>9

LEMMA LogInInv ==
    ASSUME AccountsInv, NEW p \in Requests, LogIn(p)
    PROVE  AccountsInv'
<1> USE DEF LogIn, At, AccountsInv
<1>1. CASE Refuse(p, "unauthorized")
  BY <1>1, RefuseInv
<1>2. ASSUME NEW u \in AccountsOf(p), verify_password(p, u), Answer(p, "logged_in", u)
      PROVE  AccountsInv'
  <2> USE <1>2 DEF Answer
  <2>1. u \in Nat /\ u \in DOMAIN users /\ users[u].email = Email(p)
        /\ users[u].hashed_password = request[p].password
    BY DEF TypeOK, AccountsOf, verify_password
  <2>2. TypeOK'
    BY <2>1 DEF TypeOK, Labels, Outcomes
  <2>3. ClaimsExclude'
    BY DEF TypeOK, ClaimsExclude, AccountsOf, Email
  <2>4. Issued' = Issued \cup {p} /\ \A q \in Issued : reply'[q] = reply[q]
    BY DEF TypeOK, Issued, SubjectsAreSound
  <2>5. reply'[p] = [outcome |-> "logged_in", user |-> u]
        /\ \A q \in Requests \ {p} : reply'[q] = reply[q]
    BY DEF TypeOK
  <2>6. \A q \in Requests : (HasCreated(q)' <=> HasCreated(q)) /\ Email(q)' = Email(q)
    BY DEF TypeOK, HasCreated, Email, SubjectsAreSound
  <2>7. SubjectsAreSound'
    <3>1. pc'[p] = "done" /\ \A q \in Requests \ {p} : pc'[q] = pc[q]
      BY DEF TypeOK
    <3>2. \A q \in Requests : pc'[q] = "load_user" =>
              \E s \in Issued' : reply'[s].user = subject'[q]
      BY <2>4, <3>1 DEF SubjectsAreSound
    <3>3. \A q \in Requests :
              /\ pc'[q] = "done" <=> reply'[q].outcome # "pending"
              /\ reply'[q].outcome = "created" => reply'[q].user = subject'[q]
      BY <2>5, <3>1 DEF SubjectsAreSound
    <3> QED
      BY <2>6, <3>2, <3>3 DEF SubjectsAreSound
  <2>8. TokensNameTheirOwner'
    <3>1. Issued \subseteq Requests
      BY DEF Issued
    <3>2. \A q \in Issued' :
              /\ reply'[q].user \in DOMAIN users
              /\ users[reply'[q].user].email = Email(q)
              /\ users[reply'[q].user].hashed_password = request[q].password
      BY <2>1, <2>4, <2>5, <3>1 DEF TokensNameTheirOwner
    <3>3. \A q, s \in Requests :
              reply'[q].outcome = "created" /\ reply'[s].outcome = "created" /\ q # s
              => reply'[q].user # reply'[s].user
      BY <2>5 DEF TokensNameTheirOwner
    <3>4. \A q \in Requests : reply'[q].outcome = "identified" =>
              \E s \in Issued' : reply'[s].user = reply'[q].user
      BY <2>4, <2>5 DEF TokensNameTheirOwner
    <3> QED
      BY <2>6, <3>1, <3>2, <3>3, <3>4, <2>4 DEF TokensNameTheirOwner
  <2>9. OneAccountPerEmail' /\ ConflictMeansTaken'
    BY DEF OneAccountPerEmail, TypeOK, ConflictMeansTaken, AccountsOf, Email
  <2> QED
    BY <2>2, <2>3, <2>7, <2>8, <2>9
<1> QED
  BY <1>1, <1>2

LEMMA DecodeInv ==
    ASSUME AccountsInv, NEW p \in Requests, Decode(p)
    PROVE  AccountsInv'
<1> USE DEF Decode, At, AccountsInv
<1>1. CASE Refuse(p, "unauthorized")
  BY <1>1, RefuseInv
<1>2. ASSUME NEW q \in Issued, subject' = [subject EXCEPT ![p] = reply[q].user],
             Goto(p, "load_user"), UNCHANGED <<users, claimed>>
      PROVE  AccountsInv'
  <2> USE <1>2 DEF Goto
  <2>1. TypeOK'
    BY DEF TypeOK, Labels, Issued
  <2>2. ClaimsExclude'
    BY DEF TypeOK, ClaimsExclude, AccountsOf, Email
  <2>3. \A s \in Requests : (HasCreated(s)' <=> HasCreated(s)) /\ Email(s)' = Email(s)
    BY DEF TypeOK, HasCreated, Email
  <2>4. ~HasCreated(p) /\ subject'[p] = reply[q].user
        /\ \A s \in Requests \ {p} : subject'[s] = subject[s]
    BY DEF TypeOK, HasCreated, SubjectsAreSound
  <2>5. Issued' = Issued
    BY DEF Issued
  <2>6. SubjectsAreSound'
    BY <2>3, <2>4, <2>5 DEF TypeOK, SubjectsAreSound, HasCreated
  <2>7. OneAccountPerEmail' /\ TokensNameTheirOwner' /\ ConflictMeansTaken'
    BY DEF OneAccountPerEmail, TokensNameTheirOwner, ConflictMeansTaken,
       Issued, AccountsOf, Email
  <2> QED
    BY <2>1, <2>2, <2>6, <2>7
<1> QED
  BY <1>1, <1>2

LEMMA LoadUserInv ==
    ASSUME AccountsInv, NEW p \in Requests, LoadUser(p)
    PROVE  AccountsInv'
<1> USE DEF LoadUser, At, AccountsInv
<1>1. CASE Refuse(p, "unauthorized")
  BY <1>1, RefuseInv
<1>2. CASE Answer(p, "identified", subject[p])
  <2> USE <1>2 DEF Answer
  <2>1. TypeOK'
    BY DEF TypeOK, Labels, Outcomes
  <2>2. ClaimsExclude'
    BY DEF TypeOK, ClaimsExclude, AccountsOf, Email
  <2>3. Issued' = Issued /\ \A q \in Issued : reply'[q] = reply[q]
    <3>1. p \notin Issued
      BY DEF Issued, SubjectsAreSound
    <3>2. reply'[p].outcome = "identified" /\ \A q \in Requests \ {p} : reply'[q] = reply[q]
      BY DEF TypeOK
    <3> QED
      BY <3>1, <3>2 DEF Issued
  <2>4. reply'[p] = [outcome |-> "identified", user |-> subject[p]]
        /\ \A q \in Requests \ {p} : reply'[q] = reply[q]
    BY DEF TypeOK
  <2>5. \A q \in Requests : (HasCreated(q)' <=> HasCreated(q)) /\ Email(q)' = Email(q)
    BY DEF TypeOK, HasCreated, Email, SubjectsAreSound
  <2>6. SubjectsAreSound'
    BY <2>3, <2>4, <2>5 DEF TypeOK, SubjectsAreSound
  <2>7. TokensNameTheirOwner'
    <3>1. Issued \subseteq Requests
      BY DEF Issued
    <3>2. \A q \in Issued' :
              /\ reply'[q].user \in DOMAIN users
              /\ users[reply'[q].user].email = Email(q)
              /\ users[reply'[q].user].hashed_password = request[q].password
      BY <2>3 DEF TokensNameTheirOwner
    <3>3. \A q, s \in Requests :
              reply'[q].outcome = "created" /\ reply'[s].outcome = "created" /\ q # s
              => reply'[q].user # reply'[s].user
      BY <2>4 DEF TokensNameTheirOwner
    <3>4. \E s \in Issued : reply[s].user = subject[p]
      BY DEF SubjectsAreSound
    <3>5. \A q \in Requests : reply'[q].outcome = "identified" =>
              \E s \in Issued' : reply'[s].user = reply'[q].user
      BY <2>3, <2>4, <3>4 DEF TokensNameTheirOwner
    <3> QED
      BY <2>3, <2>5, <3>1, <3>2, <3>3, <3>5 DEF TokensNameTheirOwner
  <2>8. OneAccountPerEmail' /\ ConflictMeansTaken'
    BY DEF OneAccountPerEmail, TypeOK, ConflictMeansTaken, AccountsOf, Email
  <2> QED
    BY <2>1, <2>2, <2>6, <2>7, <2>8
<1> QED
  BY <1>1, <1>2

-----------------------------------------------------------------------------
(* Clearing a flag changes no email and no password.                       *)
LEMMA DeactivateInv ==
    ASSUME AccountsInv, NEW u \in DOMAIN users, Deactivate(u)
    PROVE  AccountsInv'
<1> USE DEF Deactivate, AccountsInv
<1>1. users \in Seq(User)
  BY DEF TypeOK
<1>2. users[u] \in User /\ u \in 1..Len(users)
  BY <1>1
<1> DEFINE row == [users[u] EXCEPT !.is_active = FALSE]
<1>3. /\ row \in User /\ row.email = users[u].email
       /\ row.hashed_password = users[u].hashed_password
  BY <1>2 DEF User
<1> HIDE DEF row
<1>4. users' = [users EXCEPT ![u] = row]
  BY <1>1 DEF row
<1>5. users' \in Seq(User) /\ Len(users') = Len(users)
       /\ \A v \in 1..Len(users) : users'[v] = IF v = u THEN row ELSE users[v]
  <2>1. /\ [users EXCEPT ![u] = row] \in Seq(User)
        /\ Len([users EXCEPT ![u] = row]) = Len(users)
        /\ \A v \in 1..Len(users) :
               [users EXCEPT ![u] = row][v] = IF v = u THEN row ELSE users[v]
    <3> row \in User
      BY <1>3
    <3> HIDE DEF Deactivate, AccountsInv
    <3> QED
      BY <1>1, <1>2, ExceptSeq
  <2> HIDE DEF Deactivate, AccountsInv
  <2> QED
    BY <2>1, <1>4
<1>6. users' \in Seq(User) /\ DOMAIN users' = DOMAIN users
  BY <1>1, <1>5
<1>7. \A v \in DOMAIN users :
          /\ users'[v].email = users[v].email
          /\ users'[v].hashed_password = users[v].hashed_password
  BY <1>1, <1>3, <1>5
<1>8. TypeOK'
  BY <1>6 DEF TypeOK
<1>9. \A q \in Requests : /\ AccountsOf(q)' = AccountsOf(q)
                          /\ Email(q)' = Email(q)
                          /\ HasCreated(q)' <=> HasCreated(q)
  BY <1>6, <1>7 DEF AccountsOf, Email, HasCreated
<1>10. ClaimsExclude'
  BY <1>9 DEF TypeOK, ClaimsExclude
<1>11. Issued' = Issued
  BY DEF Issued
<1>12. SubjectsAreSound'
  BY <1>6, <1>7, <1>9, <1>11 DEF SubjectsAreSound
<1>13. OneAccountPerEmail'
  BY <1>6, <1>7 DEF OneAccountPerEmail
<1>14. TokensNameTheirOwner' /\ ConflictMeansTaken'
  <2>1. Issued \subseteq Requests
    BY DEF Issued
  <2>2. TokensNameTheirOwner'
    BY <1>6, <1>7, <1>9, <1>11, <2>1 DEF TokensNameTheirOwner
  <2> QED
    BY <1>9, <2>2 DEF ConflictMeansTaken
<1> QED
  BY <1>8, <1>10, <1>12, <1>13, <1>14

LEMMA UnchangedAccountsInv ==
    ASSUME AccountsInv, UNCHANGED <<users, request, pc, claimed, subject, reply>>,
           expired' \in SUBSET Requests
    PROVE  AccountsInv'
BY DEF AccountsInv, TypeOK, ClaimsExclude, SubjectsAreSound, OneAccountPerEmail,
   TokensNameTheirOwner, ConflictMeansTaken, HasCreated, Issued, AccountsOf, Email

LEMMA NextAccountsInv == AccountsInv /\ [Next]_vars => AccountsInv'
<1> SUFFICES ASSUME AccountsInv, [Next]_vars PROVE AccountsInv'
  OBVIOUS
<1>1. CASE UNCHANGED vars
  BY <1>1, UnchangedAccountsInv DEF vars, AccountsInv, TypeOK
<1>2. CASE \E p \in Requests : Serve(p)
  BY <1>2, RegisterSelectInv, RegisterInsertInv, RegisterCommitInv,
     RegisterRespondInv, LogInInv, DecodeInv, LoadUserInv DEF Serve
<1>3. CASE \E p \in Requests : Abort(p)
  BY <1>3, RefuseInv DEF Abort
<1>4. CASE \E p \in Requests : Expire(p)
  BY <1>4, UnchangedAccountsInv DEF Expire, AccountsInv, TypeOK
<1>5. CASE \E u \in DOMAIN users : Deactivate(u)
  BY <1>5, DeactivateInv
<1> QED
  BY <1>1, <1>2, <1>3, <1>4, <1>5 DEF Next, Finished

-----------------------------------------------------------------------------
(* The invariant holds in every state: in particular an email has one      *)
(* account, a token names the account whose password was sent, and a       *)
(* conflict is told only of an account that is committed.                  *)
THEOREM AccountsInvariance == Spec => []AccountsInv
<1>1. Init => AccountsInv
  BY InitAccountsInv
<1>2. AccountsInv /\ [Next]_vars => AccountsInv'
  BY NextAccountsInv
<1> QED
  BY <1>1, <1>2, PTL DEF Spec

THEOREM UniqueAccounts == Spec => []OneAccountPerEmail
<1>1. AccountsInv => OneAccountPerEmail
  BY DEF AccountsInv
<1> QED
  BY <1>1, AccountsInvariance, PTL

THEOREM SoundTokens == Spec => []TokensNameTheirOwner
<1>1. AccountsInv => TokensNameTheirOwner
  BY DEF AccountsInv
<1> QED
  BY <1>1, AccountsInvariance, PTL

THEOREM SoundConflicts == Spec => []ConflictMeansTaken
<1>1. AccountsInv => ConflictMeansTaken
  BY DEF AccountsInv
<1> QED
  BY <1>1, AccountsInvariance, PTL

-----------------------------------------------------------------------------
(* An answer that was given is not given again.                            *)
LEMMA AnsweredStays ==
    ASSUME AccountsInv, Next, NEW q \in Requests, reply[q].outcome # "pending"
    PROVE  reply'[q] = reply[q]
<1>1. pc[q] = "done" /\ reply \in [Requests -> [outcome : Outcomes, user : Nat]]
  BY DEF AccountsInv, SubjectsAreSound, TypeOK
<1>2. ASSUME NEW p \in Requests, NEW outcome, NEW user, pc[p] # "done",
             Answer(p, outcome, user)
      PROVE  reply'[q] = reply[q]
  BY <1>1, <1>2 DEF Answer
<1>3. ASSUME NEW p \in Requests, Serve(p) \/ Abort(p) \/ Expire(p)
      PROVE  reply'[q] = reply[q]
  <2> USE <1>3 DEF At, Refuse, Goto
  <2>1. CASE Expire(p)
    BY <2>1 DEF Expire
  <2>2. CASE Abort(p)
    BY <2>2, <1>2 DEF Abort
  <2>3. CASE Serve(p)
    BY <2>3, <1>2 DEF Serve, RegisterSelect, RegisterInsert, RegisterCommit,
       RegisterRespond, LogIn, Decode, LoadUser
  <2> QED
    BY <2>1, <2>2, <2>3
<1> QED
  BY <1>3 DEF Next, Deactivate, Finished, vars

(* The steps that tell a client that asked to log in, or that presented a  *)
(* token, who it is: the account is active when they do.                   *)
LEMMA AdmittedIsActive ==
    ASSUME AccountsInv, Next, NEW p \in Requests,
           reply[p].outcome = "pending",
           reply'[p].outcome \in {"logged_in", "identified"}
    PROVE  /\ reply'[p].user \in DOMAIN users
           /\ users[reply'[p].user].is_active
<1>1. reply \in [Requests -> [outcome : Outcomes, user : Nat]]
  BY DEF AccountsInv, TypeOK
<1>2. ASSUME NEW r \in Requests, NEW outcome, NEW user, Answer(r, outcome, user)
      PROVE  /\ reply'[p].outcome = outcome /\ reply'[p].user = user
             /\ outcome \in {"logged_in", "identified"}
  <2>1. reply' = [reply EXCEPT ![r] = [outcome |-> outcome, user |-> user]]
    BY <1>2 DEF Answer
  <2>2. r = p
    BY <1>1, <2>1
  <2> QED
    BY <1>1, <2>1, <2>2
<1>3. reply' # reply
  OBVIOUS
<1>4. ASSUME NEW r \in Requests
      PROVE  /\ ~Refuse(r, "aborted") /\ ~Refuse(r, "unauthorized")
             /\ ~Refuse(r, "conflict") /\ ~Answer(r, "created", subject[r])
  BY <1>2 DEF Refuse
<1>5. PICK r \in Requests : LogIn(r) \/ LoadUser(r)
  <2>1. PICK r \in Requests : Serve(r) \/ Abort(r)
    BY <1>3 DEF Next, Expire, Deactivate, Finished, vars
  <2> QED
    BY <2>1, <1>3, <1>4 DEF Serve, Abort, RegisterSelect, RegisterInsert,
       RegisterCommit, RegisterRespond, Decode, Goto
<1>6. CASE LogIn(r)
  <2>1. PICK u \in AccountsOf(r) : users[u].is_active /\ Answer(r, "logged_in", u)
    BY <1>4, <1>6 DEF LogIn
  <2> QED
    BY <2>1, <1>2 DEF AccountsOf
<1>7. CASE LoadUser(r)
  <2>1. /\ subject[r] \in DOMAIN users /\ users[subject[r]].is_active
        /\ Answer(r, "identified", subject[r])
    BY <1>4, <1>7 DEF LoadUser
  <2> QED
    BY <2>1, <1>2
<1> QED
  BY <1>5, <1>6, <1>7

(* A flag that is cleared stays cleared, and rows stay in place.           *)
LEMMA InactiveStays ==
    ASSUME AccountsInv, Next, NEW u \in DOMAIN users, ~users[u].is_active
    PROVE  u \in DOMAIN users' /\ ~users'[u].is_active
<1>1. users \in Seq(User)
  BY DEF AccountsInv, TypeOK
<1>2. CASE \E v \in DOMAIN users : Deactivate(v)
  BY <1>1, <1>2 DEF Deactivate, User
<1>3. CASE \E p \in Requests : RegisterCommit(p)
  <2>1. PICK row : users' = Append(users, row)
    BY <1>3 DEF RegisterCommit
  <2> QED
    BY <1>1, <2>1
<1>4. CASE UNCHANGED users
  BY <1>4
<1> QED
  BY <1>2, <1>3, <1>4 DEF Next, Serve, Abort, Expire, Finished, vars, RegisterSelect,
     RegisterInsert, RegisterRespond, LogIn, Decode, LoadUser, Refuse, Answer

(* Whoever was told that an account was created is not turned away from it *)
(* while it is active.                                                     *)
THEOREM CreatedAccountsOpen == Spec => RegisteredCanLogIn
<1>1. ASSUME AccountsInv, Next, NEW p \in Requests, NEW q \in Requests,
             request[p].op = "login", reply'[p].outcome = "unauthorized",
             reply[p].outcome = "pending", reply[q].outcome = "created",
             Email(q) = Email(p), request[q].password = request[p].password
      PROVE  ~users[reply[q].user].is_active
  <2>1. reply \in [Requests -> [outcome : Outcomes, user : Nat]]
    BY <1>1 DEF AccountsInv, TypeOK
  <2>2. ASSUME NEW r \in Requests, NEW outcome, NEW user, Answer(r, outcome, user)
        PROVE  r = p /\ outcome = "unauthorized"
    BY <2>1, <2>2, <1>1 DEF Answer
  <2>3. PICK r \in Requests : Serve(r) \/ Abort(r)
    BY <1>1 DEF Next, Expire, Deactivate, Finished, vars
  <2>4. LogIn(p)
    BY <2>2, <2>3, <1>1 DEF Serve, Abort, RegisterCommit, RegisterRespond, Decode,
       RegisterSelect, RegisterInsert, LogIn, LoadUser, Refuse, Goto, At
  <2>5. reply[q].user \in AccountsOf(p) /\ verify_password(p, reply[q].user)
    BY <1>1 DEF AccountsInv, TokensNameTheirOwner, Issued, AccountsOf, verify_password
  <2> QED
    BY <2>2, <2>4, <2>5 DEF LogIn
<1>2. AccountsInv /\ [Next]_vars =>
          [\A p \in Requests :
              request[p].op = "login" /\ reply'[p].outcome = "unauthorized"
              /\ reply[p].outcome = "pending" =>
                  \A q \in Requests :
                      /\ reply[q].outcome = "created"
                      /\ Email(q) = Email(p) /\ request[q].password = request[p].password
                      => ~users[reply[q].user].is_active]_vars
  BY <1>1
<1> QED
  BY <1>2, AccountsInvariance, PTL DEF Spec, RegisteredCanLogIn

(* A token is worth nothing to a request that begins after its account was *)
(* deactivated, and no token is given for that account.                    *)
THEOREM Revocation == Spec => DeactivationRevokes
<1> SUFFICES ASSUME NEW p \in Requests, NEW q \in Requests
             PROVE  Spec => [](pc[p] = "start" /\ Deactivated(q)
                                 => []~Admitted(p, reply[q].user))
  BY DEF DeactivationRevokes
<1> DEFINE Shut == Deactivated(q) /\ ~Admitted(p, reply[q].user)
<1>1. AccountsInv /\ pc[p] = "start" /\ Deactivated(q) => Shut
  BY DEF AccountsInv, SubjectsAreSound, Admitted
<1>2. ASSUME AccountsInv, Shut, Next
      PROVE  Shut'
  <2>1. /\ q \in Issued /\ reply[q].outcome # "pending"
        /\ reply[q].user \in DOMAIN users /\ ~users[reply[q].user].is_active
    BY <1>2 DEF Deactivated, Issued, AccountsInv, TokensNameTheirOwner
  <2>2. reply'[q] = reply[q]
    BY <1>2, <2>1, AnsweredStays
  <2>3. Deactivated(q)'
    BY <1>2, <2>1, <2>2, InactiveStays DEF Deactivated, Issued
  <2>4. CASE reply[p].outcome # "pending"
    BY <1>2, <2>2, <2>3, <2>4, AnsweredStays DEF Admitted
  <2>5. CASE reply[p].outcome = "pending"
    BY <1>2, <2>1, <2>2, <2>3, <2>5, AdmittedIsActive DEF Admitted
  <2> QED
    BY <2>4, <2>5
<1>3. Shut /\ UNCHANGED vars => Shut'
  BY DEF Deactivated, Admitted, Issued, vars
<1>4. AccountsInv /\ Shut /\ [Next]_vars => Shut'
  BY <1>2, <1>3
<1>5. Shut => ~Admitted(p, reply[q].user)
  OBVIOUS
<1> QED
  BY <1>1, <1>4, <1>5, AccountsInvariance, PTL DEF Spec

=============================================================================
