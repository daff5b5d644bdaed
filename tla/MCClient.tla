------------------------------ MODULE MCClient ------------------------------
(* Small instances of Client for TLC: two exits, the second one known from  *)
(* the offer of the first.                                                  *)
EXTENDS Client

MCPeers == [e \in {"e0", "e1"} |-> IF e = "e0" THEN {"e1"} ELSE {}]
MCPreference == <<"hy2", "mgt">>
MCOffers == [e \in {"e0", "e1"} |-> IF e = "e0" THEN {"hy2", "mgt"} ELSE {"mgt"}]
MCKinds == "a1" :> {"tcp"} @@ "a2" :> {"tcp", "udp", "direct"}
=============================================================================
