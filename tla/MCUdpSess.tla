----------------------------- MODULE MCUdpSess -----------------------------
(* The client writes three fragments, each stream of the exit one.          *)
EXTENDS UdpSess

MCWrites == [e \in Ends |-> IF e = Client THEN 3 ELSE 1]
============================================================================
