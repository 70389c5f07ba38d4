--------------------------- MODULE MCTransaction ----------------------------
(***************************************************************************)
(* Transaction for TLC, in the proportions of testtransaction.lua: one     *)
(* transaction makes two calls (in sequence or nested), the others one, so *)
(* that one is active while two wait.                                      *)
(***************************************************************************)
EXTENDS Transaction, TLC

CONSTANTS t1, t2, t3

MCTxns == {t1, t2, t3}
MCMaxCalls == t1 :> 2 @@ t2 :> 1 @@ t3 :> 1
=============================================================================
