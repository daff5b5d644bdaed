---------------------------- MODULE MCHedgedDial ----------------------------
(* Two servers; the native transport on both, another one on the first, and *)
(* a transport that nobody offers.                                          *)
EXTENDS HedgedDial

MCServers == <<"s1", "s2">>
MCPlanes == <<"hy2", "mgt", "tuic">>
MCOffers == {<<"s1", "hy2">>, <<"s1", "mgt">>, <<"s2", "mgt">>}
=============================================================================
