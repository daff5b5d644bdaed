------------------------------ MODULE MCWallet ------------------------------
(* A small instance of Wallet for TLC: one deposit of three steps, one of a *)
(* single step.                                                             *)
EXTENDS Wallet, TLC

MCMost == "c1" :> 3 @@ "c2" :> 1
=============================================================================
