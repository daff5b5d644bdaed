--------------------------- MODULE MCPlaneHealth ---------------------------
(* Two pairs, one behind the engine; a unit of time is about two seconds. *)
EXTENDS PlaneHealth, TLC

MCBackoff == <<3, 4, 6>>
MCStreams == Permutations(Streams)
============================================================================
