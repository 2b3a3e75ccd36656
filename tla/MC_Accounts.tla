---------------------------- MODULE MC_Accounts ----------------------------
(***************************************************************************)
(* A small instance of the accounts: one address in two spellings, and two *)
(* passwords, of which the two registrations of the address choose         *)
(* different ones.                                                         *)
(***************************************************************************)
EXTENDS Accounts

CONSTANTS ada, Ada, pw1, pw2

Lowercase == [s \in Spellings |-> ada]

register(email, password) ==
    [op |-> "register", email |-> email, password |-> password]
login(email, password) ==
    [op |-> "login", email |-> email, password |-> password]

SameAddress ==
    {register(Ada, pw1), register(ada, pw2), login(Ada, pw1), login(ada, pw2),
     [op |-> "me"]}

=============================================================================
