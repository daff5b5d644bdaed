------------------------------ MODULE PeerExit ------------------------------
(***************************************************************************)
(* A device that lets others use its connection (app-android/core/peer:    *)
(* client.go, presence.go, exit.go, carrier.go, lease.go, store.go) and    *)
(* the service that lists it (service.go, catalog.go).                     *)
(*                                                                         *)
(* Consent is an epoch: what withdraws it (the owner, the network, the     *)
(* owner's own VPN, a refused charge) closes the sessions and takes a new  *)
(* one.  Five threads tell the service of it.  Each composes its message   *)
(* under the client's lock and sends it later, so that the messages may    *)
(* overtake each other and the consent may have changed when they leave.   *)
(***************************************************************************)
EXTENDS Naturals, Sequences, FiniteSets

CONSTANTS
  Sessions,    \* bound: the pairings under way at once
  Slots,       \* Policy.MaxGuests
  MaxCalls,    \* bound: what the owner does
  MaxEvents,   \* bound: what the network, the disk and the flows do
  None         \* nothing there

ASSUME PeerExitAssumption == Slots \in Nat \ {0} /\ MaxCalls \in Nat /\ MaxEvents \in Nat

Threads == {"owner", "reader", "ticker", "flow", "host"}
States == {"OFFLINE", "PREPARING", "READY", "PAUSED"}
Presence == [type : {"presence"}, epoch : Nat, revision : Nat, ready : BOOLEAN]
Replies == [type : {"ack"}, epoch : Nat, revision : Nat, ready : BOOLEAN]
           \cup [type : {"hello", "error"}] \cup [type : {"offer"}, session : Sessions]

VARIABLES
  policy,      \* Store.policy.Enabled
  active,      \* Store.active
  saved,       \* policy.json
  marker,      \* whether unclean.json exists
  network,     \* Network.Ready
  epoch, sequence, advertised, sharing, state,    \* Client
  pausedReason,   \* whether there is one
  pc,          \* pc[t]: where thread t is
  out,         \* out[t]: the message that t sends
  want,        \* the consent that SetPolicy installs
  link,        \* the control connection: "none", "up", or "broken" (the client has yet to see it)
  up, down,    \* its messages
  node,        \* Catalog.nodes[device]
  handling,    \* the presence that the service is in the middle of
  phase,       \* phase[i]: how far pairing i is
  ticket,      \* ticket[i]: the epoch it was offered for
  carrier,     \* carrier[i]: whether the relay still carries it
  calls, events   \* so far

store == <<policy, active, saved, marker>>
client == <<epoch, sequence, advertised, sharing, state, pausedReason>>
threads == <<pc, out, want>>
service == <<link, up, down, node, handling>>
pairings == <<phase, ticket, carrier>>
bounds == <<calls, events>>
vars == <<store, network, client, threads, service, pairings, bounds>>

\* The process has started with the consent that its file holds.
Init ==
  /\ policy \in BOOLEAN /\ saved = policy
  /\ active = FALSE /\ marker = FALSE
  /\ network \in BOOLEAN
  /\ epoch = 0 /\ sequence = 0 /\ advertised = FALSE /\ sharing = FALSE
  /\ state = "OFFLINE" /\ pausedReason = FALSE
  /\ pc = [t \in Threads |-> "idle"] /\ out = [t \in Threads |-> None] /\ want = FALSE
  /\ link = "none" /\ up = <<>> /\ down = <<>> /\ node = None /\ handling = None
  /\ phase = [i \in Sessions |-> "idle"]
  /\ ticket = [i \in Sessions |-> 0]
  /\ carrier = [i \in Sessions |-> FALSE]
  /\ calls = 0 /\ events = 0

Event == events < MaxEvents /\ events' = events + 1 /\ UNCHANGED calls

Goes(t, place) == pc' = [pc EXCEPT ![t] = place]
Becomes(i, place) ==
  phase' = [phase EXCEPT ![i] = place] /\ UNCHANGED <<ticket, carrier>>

\* The pairing is over, and with it its ticket and its relay.
Over(i) ==
  /\ phase' = [phase EXCEPT ![i] = "idle"]
  /\ ticket' = [ticket EXCEPT ![i] = 0]
  /\ carrier' = [carrier EXCEPT ![i] = FALSE]

Available == active /\ policy
Current(i) == sharing /\ ticket[i] = epoch

-----------------------------------------------------------------------------
(* Presence.                                                                *)

\* The sessions in the client's map are closed; their goroutines end later.
Closed == [i \in Sessions |-> IF phase[i] = "serving" THEN "closing" ELSE phase[i]]

\* What every withdrawal does under the lock.
Deny ==
  /\ sharing' = FALSE /\ advertised' = FALSE
  /\ epoch' = epoch + 1
  /\ phase' = Closed

\* publishPresence, up to the end of its lock.
Compose(t) ==
  LET ready == Available /\ ~ pausedReason /\ network
  IN /\ pc[t] = "compose"
     /\ Goes(t, "send")
     /\ sequence' = sequence + 1
     /\ out' = [out EXCEPT ![t] = [type |-> "presence", epoch |-> epoch,
                                   revision |-> sequence + 1, ready |-> ready]]
     /\ advertised' = ready /\ sharing' = FALSE
     /\ state' = IF ready THEN "PREPARING" ELSE IF policy THEN "PAUSED" ELSE "OFFLINE"
     /\ UNCHANGED <<store, network, epoch, pausedReason, want, service, pairings, bounds>>

\* The message leaves on the connection of that moment, or is lost with it.
Send(t) ==
  /\ pc[t] = "send"
  /\ Goes(t, "idle") /\ out' = [out EXCEPT ![t] = None]
  /\ IF link = "up" THEN up' = Append(up, out[t]) /\ UNCHANGED state
     ELSE /\ UNCHANGED up
          /\ state' = IF t = "flow" THEN state ELSE "OFFLINE"
  /\ UNCHANGED <<store, network, epoch, sequence, advertised, sharing, pausedReason, want,
                 link, down, node, handling, pairings, bounds>>

-----------------------------------------------------------------------------
(* The owner: SetPolicy.                                                    *)

SetPolicy(enabled) ==
  /\ pc["owner"] = "idle"
  /\ calls < MaxCalls /\ calls' = calls + 1
  /\ Deny
  /\ pausedReason' = FALSE
  /\ want' = enabled
  /\ Goes("owner", "save")
  /\ UNCHANGED <<store, network, sequence, state, out, service, ticket, carrier, events>>

Save ==
  /\ pc["owner"] = "save"
  /\ policy' = want /\ saved' = want /\ want' = FALSE
  /\ Goes("owner", IF want THEN "begin" ELSE "end")
  /\ UNCHANGED <<active, marker, network, client, out, service, pairings, bounds>>

\* A write that fails, before or after it took effect, disables sharing, and
\* the service is told.
SaveFails ==
  /\ pc["owner"] = "save" /\ Event
  /\ policy' = FALSE /\ saved' \in {saved, want} /\ want' = FALSE
  /\ Goes("owner", "compose")
  /\ UNCHANGED <<active, marker, network, client, out, service, pairings>>

\* Variant: sharing begins although its marker is not written.
BeginUnmarked == active' = TRUE /\ UNCHANGED marker

\* Store.Begin: the marker comes first.
Marked == marker' = TRUE /\ active' = TRUE

\* Sharing that was disabled in the meantime does not begin.
Begin ==
  /\ pc["owner"] = "begin"
  /\ IF policy THEN Marked ELSE UNCHANGED <<marker, active>>
  /\ Goes("owner", "compose")
  /\ UNCHANGED <<policy, saved, network, client, out, want, service, pairings, bounds>>

BeginFails ==
  /\ pc["owner"] = "begin" /\ Event
  /\ policy' = FALSE /\ marker' \in {marker, TRUE}
  /\ Goes("owner", "compose")
  /\ UNCHANGED <<active, saved, network, client, out, want, service, pairings>>

\* Store.End: the consent is written once more and the marker goes.
EndSharing ==
  /\ pc["owner"] = "end"
  /\ active' = FALSE /\ saved' = policy /\ marker' = FALSE
  /\ Goes("owner", "compose")
  /\ UNCHANGED <<policy, network, client, out, want, service, pairings, bounds>>

EndFails ==
  /\ pc["owner"] = "end" /\ Event
  /\ active' = FALSE /\ marker' \in {marker, FALSE}
  /\ Goes("owner", "compose")
  /\ UNCHANGED <<policy, saved, network, client, out, want, service, pairings>>

-----------------------------------------------------------------------------
(* The network: checkNetwork each second, and the host's own VPN.           *)

NetworkChanges ==
  /\ Event /\ network' = ~ network
  /\ UNCHANGED <<store, client, threads, service, pairings>>

NetworkLost ==
  /\ pc["ticker"] = "idle" /\ link = "up" /\ ~ network
  /\ IF sharing \/ advertised
     THEN /\ epoch' = epoch + 1 /\ sequence' = sequence + 1
          /\ Goes("ticker", "compose")
     ELSE UNCHANGED <<epoch, sequence, pc>>
  /\ advertised' = FALSE /\ sharing' = FALSE /\ state' = "PAUSED"
  /\ phase' = Closed
  /\ UNCHANGED <<store, network, pausedReason, out, want, service, ticket, carrier, bounds>>

\* An exit that is paused for no reason of its own advertises again.
NetworkBack ==
  /\ pc["ticker"] = "idle" /\ link = "up" /\ network
  /\ state = "PAUSED" /\ ~ pausedReason /\ Available
  /\ Goes("ticker", "compose")
  /\ UNCHANGED <<store, network, client, out, want, service, pairings, bounds>>

SuspendExit ==
  /\ pc["host"] = "idle" /\ ~ network /\ Event
  /\ Deny
  /\ sequence' = sequence + 1 /\ state' = "PAUSED"
  /\ Goes("host", "compose")
  /\ UNCHANGED <<store, network, pausedReason, out, want, service, ticket, carrier>>

-----------------------------------------------------------------------------
(* The flows: what they carry is charged first.                             *)

\* A flow has read something, of a session that may have been closed since.
\* The charge is refused when sharing is over, when the quota does not reach,
\* or when it cannot be written.
ChargeRefused ==
  /\ pc["flow"] = "idle" /\ Event
  /\ \E i \in Sessions : phase[i] \in {"serving", "closing"}
  /\ policy' \in {policy, FALSE}
  /\ Goes("flow", "pause")
  /\ UNCHANGED <<active, saved, marker, network, client, out, want, service, pairings>>

Pause ==
  /\ pc["flow"] = "pause"
  /\ Deny
  /\ state' = "PAUSED" /\ pausedReason' = TRUE
  /\ Goes("flow", "withdraw")
  /\ UNCHANGED <<store, network, sequence, out, want, service, ticket, carrier, bounds>>

\* The second time pause takes the lock.
Withdraw ==
  /\ pc["flow"] = "withdraw"
  /\ sequence' = sequence + 1
  /\ out' = [out EXCEPT !["flow"] = [type |-> "presence", epoch |-> epoch,
                                     revision |-> sequence + 1, ready |-> FALSE]]
  /\ Goes("flow", "send")
  /\ UNCHANGED <<store, network, epoch, advertised, sharing, state, pausedReason, want,
                 service, pairings, bounds>>

-----------------------------------------------------------------------------
(* The control connection, on the client's side.                            *)

Connect ==
  /\ link = "none"
  /\ link' = "up" /\ down' = <<[type |-> "hello"]>>
  /\ UNCHANGED <<store, network, client, threads, up, node, handling, pairings, bounds>>

Reading(type) == pc["reader"] = "idle" /\ link = "up" /\ down # <<>> /\ Head(down).type = type

\* The service has authenticated this device: consent that is stored begins.
Authenticated ==
  /\ Reading("hello") /\ down' = Tail(down)
  /\ IF policy THEN Marked ELSE UNCHANGED <<marker, active>>
  /\ Goes("reader", "compose")
  /\ UNCHANGED <<policy, saved, network, client, out, want, link, up, node, handling,
                 pairings, bounds>>

\* Only the last presence, of this epoch, and while all that made it ready holds.
Acked(m) ==
  /\ m.epoch = epoch /\ m.revision = sequence /\ m.ready
  /\ advertised /\ ~ pausedReason /\ Available /\ network

PresenceAck ==
  /\ Reading("ack") /\ down' = Tail(down)
  /\ IF Acked(Head(down)) THEN sharing' = TRUE /\ state' = "READY"
     ELSE UNCHANGED <<sharing, state>>
  /\ UNCHANGED <<store, network, epoch, sequence, advertised, pausedReason, threads,
                 link, up, node, handling, pairings, bounds>>

Refused ==
  /\ Reading("error") /\ down' = Tail(down)
  /\ sharing' = FALSE /\ state' = "PAUSED"
  /\ UNCHANGED <<store, network, epoch, sequence, advertised, pausedReason, threads,
                 link, up, node, handling, pairings, bounds>>

\* The pairings that hold a place of exitSlots.
Held == {i \in Sessions : phase[i] \notin {"idle", "offered"}}

\* A ticket that has expired is ignored too, for which the guest stands.
AcceptOffer ==
  /\ Reading("offer") /\ down' = Tail(down)
  /\ LET i == Head(down).session
     IN \/ /\ Current(i) /\ policy /\ network
           /\ Cardinality(Held) < Slots
           /\ Becomes(i, "pairing")
        \/ Over(i)
  /\ UNCHANGED <<store, network, client, threads, link, up, node, handling, bounds>>

\* The connection ends: with it go the messages, the catalogue's entry and the
\* pairs of this device.
Drop ==
  /\ link' = "broken" /\ up' = <<>> /\ down' = <<>> /\ node' = None /\ handling' = None
  /\ carrier' = [i \in Sessions |-> FALSE]
  /\ phase' = [i \in Sessions |-> IF phase[i] = "offered" THEN "idle" ELSE phase[i]]
  /\ ticket' = [i \in Sessions |-> IF phase[i] = "offered" THEN 0 ELSE ticket[i]]

Breaks ==
  /\ link = "up" /\ Event
  /\ Drop
  /\ UNCHANGED <<store, network, client, threads>>

\* Stored consent whose marker cannot be written ends the connection.
AuthenticatedFails ==
  /\ Reading("hello") /\ policy /\ Event
  /\ policy' = FALSE /\ marker' \in {marker, TRUE}
  /\ Drop
  /\ UNCHANGED <<active, saved, network, client, threads>>

\* run, after readControl.
Cleanup ==
  /\ link = "broken" /\ pc["reader"] = "idle"
  /\ link' = "none"
  /\ sharing' = FALSE /\ state' = "OFFLINE"
  /\ phase' = Closed
  /\ UNCHANGED <<store, network, epoch, sequence, advertised, pausedReason, threads,
                 up, down, node, handling, ticket, carrier, bounds>>

-----------------------------------------------------------------------------
(* The pairings: one goroutine each.                                        *)

\* issueLease, inside the pinned connection to the guest.
MayLease(i) == Current(i) /\ Available /\ network

Lease(i) ==
  /\ phase[i] = "pairing" /\ carrier[i]
  /\ IF MayLease(i) THEN Becomes(i, "leased") ELSE Over(i)
  /\ UNCHANGED <<store, network, client, threads, service, bounds>>

\* Variant: a lease is as good as the check that comes after it.
OwnLeased(i) == Becomes(i, "serving")

\* The setup took its time: the consent is checked again under the lock, before
\* the session is one of the client's.
OwnCurrent(i) == IF Current(i) THEN Becomes(i, "serving") ELSE Over(i)

Own(i) ==
  /\ phase[i] = "leased"
  /\ OwnCurrent(i)
  /\ UNCHANGED <<store, network, client, threads, service, bounds>>

\* The guest does not come, is not admitted, or takes more than eight seconds.
SetupFails(i) ==
  /\ phase[i] \in {"pairing", "leased"}
  /\ Over(i)
  /\ UNCHANGED <<store, network, client, threads, service, bounds>>

\* The consent is checked once more when the management stream is open, and at
\* each renewal of the lease: what passes changes nothing here.
RenewFails(i) ==
  /\ phase[i] = "serving" /\ ~ MayLease(i)
  /\ Becomes(i, "closing")
  /\ UNCHANGED <<store, network, client, threads, service, bounds>>

\* The guest leaves, or its side of the lease ends.
Leaves(i) ==
  /\ phase[i] = "serving"
  /\ Becomes(i, "closing")
  /\ UNCHANGED <<store, network, client, threads, service, bounds>>

\* The relay has closed the pair.
CarrierLost(i) ==
  /\ phase[i] = "serving" /\ ~ carrier[i]
  /\ Becomes(i, "closing")
  /\ UNCHANGED <<store, network, client, threads, service, bounds>>

\* The flows are over; the place in exitSlots is free.
Ended(i) ==
  /\ phase[i] = "closing"
  /\ Over(i)
  /\ UNCHANGED <<store, network, client, threads, service, bounds>>

-----------------------------------------------------------------------------
(* The service.                                                             *)

\* Variant: the pairs of an exit that withdraws stay.
KeptPairs(m) == carrier

FreedPairs(m) == IF m.ready THEN carrier ELSE [i \in Sessions |-> FALSE]

\* A presence that is not ready closes the pairs of this exit first.
PresenceRead ==
  /\ link = "up" /\ up # <<>> /\ handling = None
  /\ up' = Tail(up) /\ handling' = Head(up)
  /\ carrier' = FreedPairs(Head(up))
  /\ UNCHANGED <<store, network, client, threads, link, down, node, phase, ticket, bounds>>

Stale(m) == node # None /\ m.revision <= node.revision

\* Catalog.Update, and the answer.
PresenceUpdate ==
  /\ link = "up" /\ handling # None
  /\ handling' = None
  /\ IF Stale(handling)
     THEN down' = Append(down, [type |-> "error"]) /\ UNCHANGED node
     ELSE /\ node' = handling
          /\ down' = Append(down, [handling EXCEPT !.type = "ack"])
  /\ UNCHANGED <<store, network, client, threads, link, up, pairings, bounds>>

\* A guest reserves a slot of this exit, which is told.
Reserve(i) ==
  /\ link = "up" /\ node # None /\ node.ready
  /\ phase[i] = "idle"
  /\ phase' = [phase EXCEPT ![i] = "offered"]
  /\ ticket' = [ticket EXCEPT ![i] = node.epoch]
  /\ carrier' = [carrier EXCEPT ![i] = TRUE]
  /\ down' = Append(down, [type |-> "offer", session |-> i])
  /\ UNCHANGED <<store, network, client, threads, link, up, node, handling, bounds>>

\* Heartbeats go on and change nothing.
Heartbeat == link = "up" /\ UNCHANGED vars

\* The process is killed and started again: a marker that was left revokes consent.
Recovered == IF marker THEN FALSE ELSE saved

Crash ==
  /\ Event
  /\ policy' = Recovered /\ saved' = Recovered
  /\ active' = FALSE
  /\ epoch' = 0 /\ sequence' = 0 /\ advertised' = FALSE /\ sharing' = FALSE
  /\ state' = "OFFLINE" /\ pausedReason' = FALSE
  /\ pc' = [t \in Threads |-> "idle"] /\ out' = [t \in Threads |-> None] /\ want' = FALSE
  /\ link' = "none" /\ up' = <<>> /\ down' = <<>> /\ node' = None /\ handling' = None
  /\ phase' = [i \in Sessions |-> "idle"]
  /\ ticket' = [i \in Sessions |-> 0]
  /\ carrier' = [i \in Sessions |-> FALSE]
  /\ UNCHANGED <<marker, network>>

-----------------------------------------------------------------------------
Owner == Save \/ Begin \/ EndSharing \/ Compose("owner") \/ Send("owner")
Reader == \/ Authenticated \/ PresenceAck \/ Refused \/ AcceptOffer \/ Cleanup \/ Connect
          \/ Compose("reader") \/ Send("reader")
Ticker == NetworkLost \/ NetworkBack \/ Compose("ticker") \/ Send("ticker")
Flow == Pause \/ Withdraw \/ Send("flow")
Host == Compose("host") \/ Send("host")
Pairing(i) == Lease(i) \/ Own(i) \/ SetupFails(i) \/ CarrierLost(i) \/ Ended(i)
Service == PresenceRead \/ PresenceUpdate

Environment ==
  \/ \E enabled \in BOOLEAN : SetPolicy(enabled)
  \/ SaveFails \/ BeginFails \/ EndFails \/ AuthenticatedFails \/ ChargeRefused
  \/ NetworkChanges \/ SuspendExit \/ Breaks \/ Crash
  \/ \E i \in Sessions : Reserve(i) \/ RenewFails(i) \/ Leaves(i)

Next == \/ Owner \/ Reader \/ Ticker \/ Flow \/ Host \/ Service \/ Environment \/ Heartbeat
        \/ \E i \in Sessions : Pairing(i)

Spec == Init /\ [][Next]_vars

\* No thread stops: timeouts end what the network delays, and the ticker comes
\* round each second.  That leases run out is not assumed.
Fairness ==
  /\ WF_vars(Owner) /\ WF_vars(Reader) /\ WF_vars(Ticker) /\ WF_vars(Flow) /\ WF_vars(Host)
  /\ WF_vars(Service)
  /\ \A i \in Sessions : WF_vars(Pairing(i))

FairSpec == Spec /\ Fairness

-----------------------------------------------------------------------------
(* Properties.                                                              *)

TypeOK ==
  /\ policy \in BOOLEAN /\ active \in BOOLEAN /\ saved \in BOOLEAN /\ marker \in BOOLEAN
  /\ network \in BOOLEAN
  /\ epoch \in Nat /\ sequence \in Nat /\ advertised \in BOOLEAN /\ sharing \in BOOLEAN
  /\ state \in States /\ pausedReason \in BOOLEAN
  /\ pc \in [Threads -> {"idle", "save", "begin", "end", "pause", "withdraw", "compose", "send"}]
  /\ out \in [Threads -> Presence \cup {None}] /\ want \in BOOLEAN
  /\ link \in {"none", "up", "broken"}
  /\ up \in Seq(Presence) /\ down \in Seq(Replies)
  /\ node \in Presence \cup {None} /\ handling \in Presence \cup {None}
  /\ phase \in [Sessions -> {"idle", "offered", "pairing", "leased", "serving", "closing"}]
  /\ ticket \in [Sessions -> Nat] /\ carrier \in [Sessions -> BOOLEAN]
  /\ calls \in 0 .. MaxCalls /\ events \in 0 .. MaxEvents

Open(i) == phase[i] = "serving"

\* exit.go:105-110, carrier.go:90-100: however long a pairing takes to set up and
\* whatever happens meanwhile, an open session was offered for the consent that
\* holds now: what withdraws consent leaves no session of it.
SessionsAreCurrent == \A i \in Sessions : Open(i) => ticket[i] = epoch

\* store.go:50, 168-180 "a separate, durable crash interlock": whenever the
\* process is killed while it may share, it starts without consent.
SharingIsMarked == active => marker

\* client.go:148-149, service.go:225-234: when consent is gone no session stays
\* open, also one that was opened while it was going, and no lease need run out
\* for it: what the lock does not close the service does.
WithdrawalEnds ==
  (~ policy /\ \E i \in Sessions : Open(i)) ~> (policy \/ \A i \in Sessions : ~ Open(i))
=============================================================================
