------------------------- MODULE MCPaymentChannel -------------------------
(* Small instances of PaymentChannel for TLC. *)
EXTENDS PaymentChannel, TLC

\* Both channels may be accepted at the first heights and expire within the run.
MCExpiry == [c \in Channels |-> 4]
MCSymmetry == Permutations(Channels) \cup Permutations(Requests)
===========================================================================
