----------------------------- MODULE Rendezvous -----------------------------
(***************************************************************************)
(* A node's exit (src/exit.js) publishes what the rotation advertises, and *)
(* a client (src/client.js, src/offer.mjs) follows it.  One publication is *)
(* two offers with one time stamp: the DHT's leaves out hysteria2, whose   *)
(* certificate is too long for it, Nostr's has both planes.  Offers are    *)
(* lost, repeated, delayed and reordered, and the exit may be restarted.   *)
(* The native plane is in every offer and is left out here.                *)
(***************************************************************************)
EXTENDS Rotation, Sequences

CONSTANTS
  MaxStamp      \* bound: publications that say nothing new

ASSUME RendezvousAssumption == MaxStamp \in Nat

VARIABLES
  lastDp,    \* what the exit's poll of the dp file saw last
  scan,      \* publish(): "idle", "scanning" (its peer scan is awaited), or
             \* "blocked" (the last one could not persist its sequence)
  pubs,      \* pubs[t]: the generation that the publication of time t says
  held       \* the client's offer for this node

exitVars == <<lastDp, scan, pubs>>
rendezvousVars == <<vars, exitVars, held>>

Offers == [ts : Nat, reality : Gens \cup {None}, hy2 : Gens \cup {None}]
Nothing == [ts |-> 0, reality |-> None, hy2 |-> None]

\* readExtraDp(): a file the exit cannot read counts as an empty one.
ReadExtraDp == IF readable THEN dp ELSE None

\* The two views of one publication.
DhtView(t) == [ts |-> t, reality |-> pubs[t], hy2 |-> None]
NostrView(t) == [ts |-> t, reality |-> pubs[t], hy2 |-> pubs[t]]
Views(t) == {DhtView(t), NostrView(t)}

InitRendezvous ==
  /\ Init
  /\ lastDp = ReadExtraDp
  /\ scan = "scanning"          \* the first publication is due at once
  /\ pubs = <<>>
  /\ held = Nothing

-----------------------------------------------------------------------------
(* The exit.                                                                *)

\* The last publication advertises gen.
Published(gen) == pubs # <<>> /\ pubs[Len(pubs)] = gen

\* publish() returns at once while another publication is under way.
Publish == scan' = "scanning"

\* setInterval(publish, PUBLISH_MS)
Period ==
  /\ scan # "scanning"
  /\ Len(pubs) < MaxStamp \/ ~ Published(ReadExtraDp)
  /\ Publish
  /\ UNCHANGED <<vars, lastDp, pubs, held>>

\* Once a second: has the file changed?
Poll ==
  /\ ReadExtraDp # lastDp
  /\ lastDp' = ReadExtraDp
  /\ Publish
  /\ UNCHANGED <<vars, pubs, held>>

\* scanPeers() has ended: each of its lookups was answered, or has timed out.
Scanned == scan = "scanning"

\* publishOnce() after the scan: the file is read now, and both offers are sent.
PublishOnce ==
  /\ Scanned
  /\ scan' = "idle"
  /\ pubs' = Append(pubs, ReadExtraDp)
  /\ UNCHANGED <<vars, lastDp, held>>

\* publishOnce(): the sequence cannot be persisted, nothing is sent.
PublicationBlocked ==
  /\ Scanned
  /\ faults < MaxFaults /\ faults' = faults + 1
  /\ scan' = "blocked"
  /\ UNCHANGED <<files, engine, script, previous, lastDp, pubs, held>>

\* The exit is killed; systemd starts it again.
ExitRestarts ==
  /\ faults < MaxFaults /\ faults' = faults + 1
  /\ lastDp' = ReadExtraDp
  /\ scan' = "scanning"
  /\ UNCHANGED <<files, engine, script, previous, pubs, held>>

-----------------------------------------------------------------------------
(* The client.                                                              *)

\* The planes of o added to those of h.
Union(h, o) == [h EXCEPT !.reality = IF o.reality # None THEN o.reality ELSE @,
                         !.hy2 = IF o.hy2 # None THEN o.hy2 ELSE @]

\* Variant: the last offer to arrive wins.
LastWins(h, o) == IF h.ts = o.ts THEN Union(h, o) ELSE o

\* Variant: the view that came last wins within a publication.
ViewWins(h, o) == IF o.ts >= h.ts THEN o ELSE h

\* Variant: an offer that lacks a plane keeps the one held.
KeepPlanes(h, o) == IF o.ts < h.ts THEN h ELSE [Union(h, o) EXCEPT !.ts = o.ts]

\* mergeOffer(): a newer publication replaces the one held, the other view of
\* the same one is added to it, an older one is ignored.
MergeOffer(h, o) ==
  CASE o.ts > h.ts -> o
    [] o.ts = h.ts -> Union(h, o)
    [] OTHER -> h

\* handleOffer(): an offer of the newest or some earlier publication arrives.
HandleOffer(o) ==
  /\ held' = MergeOffer(held, o)
  /\ held' # held
  /\ UNCHANGED <<vars, exitVars>>

\* A record that opens is one the exit sealed, under the sequence number it has.
Sealed == DOMAIN pubs

\* Any DHT node may answer a lookup, with whatever it stores.
Lookup(t) == HandleOffer(DhtView(t))

\* A relay passes an event on, and sends the one it stores to a new subscription.
Replay(t) == HandleOffer(NostrView(t))

\* The sockets to the relays are opened again for ever, and the exit's sends its
\* last event again each time; the client repeats its lookups.
NewestArrives == pubs # <<>> /\ (Lookup(Len(pubs)) \/ Replay(Len(pubs)))

Exit == Poll \/ Period \/ PublishOnce \/ PublicationBlocked \/ ExitRestarts

RotationOnly == UNCHANGED <<exitVars, held>>

NextRendezvous ==
  \/ Next /\ RotationOnly
  \/ Exit
  \/ \E t \in Sealed : Lookup(t) \/ Replay(t)

\* The rotation as before; the exit's timers fire and its scan ends (each lookup
\* has a timeout); the newest record of each channel reaches the client in time.
SpecRendezvous ==
  /\ InitRendezvous /\ [][NextRendezvous]_rendezvousVars
  /\ WF_rendezvousVars((Start \/ Call) /\ RotationOnly)
  /\ WF_rendezvousVars(Poll \/ Period \/ PublishOnce)
  /\ WF_rendezvousVars(NewestArrives)

-----------------------------------------------------------------------------
(* Properties.                                                              *)

TypeOKRendezvous ==
  /\ TypeOK
  /\ lastDp \in Gens \cup {None}
  /\ scan \in {"idle", "scanning", "blocked"}
  /\ pubs \in Seq(Gens \cup {None})
  /\ held \in Offers

\* offer.mjs:5-14: the planes a client holds are of one publication, whatever
\* order the two views of several arrive in.
HeldIsWhole == held.reality # None /\ held.hy2 # None => held.reality = held.hy2

\* offer.mjs:27: an old offer that a stale DHT node or a relay still serves
\* never takes the client back to earlier credentials.
HeldNeverOlder == [][held'.ts >= held.ts]_rendezvousVars

\* README.md:314-315: a client that holds credentials the node accepted when it
\* got them comes to hold the ones the node advertises in the end, of both planes.
ClientFollows == <>[](held.reality = dp /\ held.hy2 = dp /\ dp \in config)
=============================================================================
