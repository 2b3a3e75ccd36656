------------------------------ MODULE MC_Seed ------------------------------
(***************************************************************************)
(* Three seeds of the two development assets, from every state of the      *)
(* tables that rows inserted by hand can leave.                            *)
(***************************************************************************)
EXTENDS Seed

CONSTANTS s1, s2, s3

Assets == <<"USDT", "BTC">>

=============================================================================
