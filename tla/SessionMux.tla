------------------------------ MODULE SessionMux ------------------------------
(***************************************************************************)
(* One native session: the client's multiplexer (src/native-client.mjs),   *)
(* the exit's handler of the connection (src/exit-session.mjs), and the    *)
(* two ordered queues of frames between them.  A stream and a relay take   *)
(* their identifier from one counter of the session.                       *)
(*                                                                         *)
(* The network may be cut: nothing arrives from then on, a close neither,  *)
(* and only the timers end the two sides.  Node reports the close of a     *)
(* destroyed socket later, in a step of its own (UpClosed).  Encryption,   *)
(* padding and the sequence check of the codec are the queues' order; ping *)
(* frames are the guard of PingExpires and ExitIdle.                       *)
(***************************************************************************)
EXTENDS Integers, Sequences, FiniteSets

CONSTANTS
  MaxId,       \* bound: the identifiers a session hands out
  MaxStreams,  \* the streams and relays the exit holds for a session
  MaxQueue,    \* the data frames a socket may hold unsent (4 MiB)
  MaxLookups,  \* the datagrams of a relay whose address is being resolved
  MaxData      \* bound: the data frames of a run

ASSUME MuxAssumption ==
  {MaxId, MaxStreams, MaxQueue, MaxLookups, MaxData} \subseteq Nat

Ids == 1..MaxId

VARIABLES
  client,    \* "hello", "up", "down"
  exit,      \* "waiting" for the connection, "pending" handshake, "up", "down"
  cut,       \* the network between them is gone
  toExit, toClient,  \* the frames under way
  nextId,    \* the client's next identifier
  entry,     \* entry[i] at the client: "none", "opening", "open", "relay", "gone"
  answer,    \* what openStream's promise says: "none", "waiting", "ok", "failed"
  ended,     \* ended[i]: the halves of the client's stream that ended
  up,        \* up[i], the exit's socket: "none", "dialing", "open", "closing"
  half,      \* half[i]: the halves of that socket that ended
  tracked,   \* the exit's streams map
  relay,     \* relay[i] at the exit: "none", "open", "closed"
  looking,   \* looking[i]: the addresses being resolved for the relay
  udp,       \* the relays that own an open UDP socket
  full,      \* the upstream sockets that did not take what was written
  paused,    \* the exit does not read the session's socket
  budget     \* how many data frames may still be written

line == <<client, exit, cut, toExit, toClient>>
clientVars == <<nextId, entry, answer, ended>>
upVars == <<up, half, tracked, full, paused>>
relayVars == <<relay, looking, udp>>
vars == <<line, clientVars, upVars, relayVars, budget>>

\* What goes over the line arrives in its order, sealed and numbered.
Frame(t, i) == <<t, i>>

\* The two messages of the handshake: the client's key with the time, the exit's
\* with the client's.
Hello == Frame("MSG1", 0)
Welcome == Frame("MSG2", 0)
Held == tracked \cup {i \in Ids : relay[i] = "open"}

Init ==
  /\ client = "hello" /\ exit = "waiting" /\ cut = FALSE
  /\ toExit = <<Hello>> /\ toClient = <<>>
  /\ nextId = 1
  /\ entry = [i \in Ids |-> "none"] /\ answer = [i \in Ids |-> "none"]
  /\ ended = [i \in Ids |-> {}]
  /\ up = [i \in Ids |-> "none"] /\ half = [i \in Ids |-> {}]
  /\ tracked = {} /\ full = {} /\ paused = FALSE
  /\ relay = [i \in Ids |-> "none"] /\ looking = [i \in Ids |-> 0] /\ udp = {}
  /\ budget = MaxData

-----------------------------------------------------------------------------
(* The client's session.                                                    *)

ClientSends(frames) == toExit' = toExit \o frames /\ UNCHANGED <<client, exit, cut>>

\* Session.destroy: every stream and relay ends, every open that waits fails.
ClientDown ==
  /\ client \in {"hello", "up"}
  /\ client' = "down"
  /\ toClient' = <<>>
  /\ entry' = [i \in Ids |-> IF entry[i] = "none" THEN "none" ELSE "gone"]
  /\ answer' = [i \in Ids |-> IF answer[i] = "waiting" THEN "failed" ELSE answer[i]]
  /\ UNCHANGED <<exit, cut, toExit, nextId, ended, upVars, relayVars, budget>>

\* Without an answer in five seconds, or when the exit closed the connection.
HandshakeFails == client = "hello" /\ ClientDown

\* No pong for thirty seconds: the pings or the pongs do not arrive.
PingExpires == client = "up" /\ (cut \/ paused) /\ ClientDown
ClientSeesClose == client = "up" /\ exit = "down" /\ ~cut /\ ClientDown

CanAllocate == client = "up" /\ nextId \in Ids

OpenStream ==
  /\ CanAllocate
  /\ nextId' = nextId + 1
  /\ entry' = [entry EXCEPT ![nextId] = "opening"]
  /\ answer' = [answer EXCEPT ![nextId] = "waiting"]
  /\ ClientSends(<<Frame("OPEN", nextId)>>)
  /\ UNCHANGED <<toClient, ended, upVars, relayVars, budget>>

OpenRelay ==
  /\ CanAllocate
  /\ nextId' = nextId + 1
  /\ entry' = [entry EXCEPT ![nextId] = "relay"]
  /\ ClientSends(<<Frame("UDP_ASSOC", nextId)>>)
  /\ UNCHANGED <<toClient, answer, ended, upVars, relayVars, budget>>

\* Variant: the end of a stream that was never opened is not told.
ForgetOpened(i, more) ==
  /\ entry' = [entry EXCEPT ![i] = "gone"]
  /\ answer' = [answer EXCEPT ![i] = IF @ = "waiting" THEN "failed" ELSE @]
  /\ ClientSends(more \o (IF entry[i] = "opening" THEN <<>> ELSE
       <<Frame(IF entry[i] = "relay" THEN "UDP_CLOSE" ELSE "CLOSE", i)>>))

\* The stream's destroy, or the close of the relay's control connection.
Forget(i, more) ==
  /\ entry' = [entry EXCEPT ![i] = "gone"]
  /\ answer' = [answer EXCEPT ![i] = IF @ = "waiting" THEN "failed" ELSE @]
  /\ ClientSends(more \o <<Frame(IF entry[i] = "relay" THEN "UDP_CLOSE" ELSE "CLOSE", i)>>)

\* The program behind the SOCKS server leaves, ten seconds passed without an
\* answer, or both halves of the stream ended.
StreamEnds(i) ==
  /\ client = "up"
  /\ entry[i] \in {"opening", "open", "relay"}
  /\ Forget(i, <<>>)
  /\ UNCHANGED <<toClient, nextId, ended, upVars, relayVars, budget>>

OpenTimeout(i) == entry[i] = "opening" /\ StreamEnds(i)

\* The socket takes no more than MaxQueue: it is destroyed, and the session ends.
Write(i) ==
  /\ client = "up" /\ budget > 0
  /\ entry[i] = "open" /\ "out" \notin ended[i]
  /\ IF Len(toExit) < MaxQueue
     THEN /\ budget' = budget - 1
          /\ ClientSends(<<Frame("DATA", i)>>)
          /\ UNCHANGED <<toClient, clientVars, upVars, relayVars>>
     ELSE ClientDown

SendDatagram(i) ==
  /\ client = "up" /\ budget > 0 /\ entry[i] = "relay"
  /\ budget' = budget - 1
  /\ ClientSends(<<Frame("UDP_DATA", i)>>)
  /\ UNCHANGED <<toClient, clientVars, upVars, relayVars>>

Final(i) ==
  /\ client = "up" /\ entry[i] = "open" /\ "out" \notin ended[i]
  /\ ended' = [ended EXCEPT ![i] = @ \cup {"out"}]
  /\ ClientSends(<<Frame("END", i)>>)
  /\ UNCHANGED <<toClient, nextId, entry, answer, upVars, relayVars, budget>>

-----------------------------------------------------------------------------
(* What the client does with a frame.                                       *)

Took == toClient' = Tail(toClient)
Silent == ClientSends(<<>>) /\ UNCHANGED <<nextId, entry, answer, ended>>

ClientReads(t, i) ==
  /\ client = "up" /\ ~cut
  /\ toClient # <<>> /\ Head(toClient) = Frame(t, i)
  /\ Took /\ UNCHANGED <<upVars, relayVars, budget>>

OnOpenOk(i) ==
  /\ ClientReads("OPEN_OK", i)
  /\ IF entry[i] = "opening"
     THEN /\ entry' = [entry EXCEPT ![i] = "open"]
          /\ answer' = [answer EXCEPT ![i] = "ok"]
          /\ ClientSends(<<>>) /\ UNCHANGED <<nextId, ended>>
     ELSE Silent

\* Data for a stream that is gone is dropped; a reader that is 4 MiB behind
\* loses its stream.
OnReply(i) ==
  \/ (ClientReads("DATA", i) \/ ClientReads("UDP_DATA", i)) /\ Silent
  \/ /\ ClientReads("DATA", i) /\ entry[i] = "open"
     /\ Forget(i, <<>>) /\ UNCHANGED <<nextId, ended>>

OnPeerEnd(i) ==
  /\ ClientReads("END", i)
  /\ ended' = IF entry[i] = "open" THEN [ended EXCEPT ![i] = @ \cup {"in"}] ELSE ended
  /\ ClientSends(<<>>) /\ UNCHANGED <<nextId, entry, answer>>

\* An open stream keeps what it received: it ends both ways and is destroyed
\* when the reader has taken all of it.
OnPeerClose(i) ==
  /\ ClientReads("CLOSE", i)
  /\ \/ entry[i] \in {"none", "gone"} /\ Silent
     \/ entry[i] \in {"opening", "relay"} /\ Forget(i, <<>>) /\ UNCHANGED <<nextId, ended>>
     \/ /\ entry[i] = "open"
        /\ ended' = [ended EXCEPT ![i] = {"in", "out"}]
        /\ ClientSends(IF "out" \in ended[i] THEN <<>> ELSE <<Frame("END", i)>>)
        /\ UNCHANGED <<nextId, entry, answer>>

\* hsClientFinish: the answer is to this client's key, the session has its keys.
Finishes == Head(toClient) = Welcome /\ client' = "up"

OnMsg2 ==
  /\ client = "hello" /\ ~cut
  /\ toClient # <<>> /\ Finishes /\ Took
  /\ UNCHANGED <<exit, cut, toExit, clientVars, upVars, relayVars, budget>>

ClientReadsNext == \E i \in Ids : OnOpenOk(i) \/ OnReply(i) \/ OnPeerEnd(i) \/ OnPeerClose(i)

ClientNext ==
  \/ HandshakeFails \/ PingExpires \/ ClientSeesClose \/ OnMsg2
  \/ OpenStream \/ OpenRelay
  \/ \E i \in Ids :
       \/ StreamEnds(i) \/ Write(i) \/ SendDatagram(i) \/ Final(i)
  \/ ClientReadsNext

-----------------------------------------------------------------------------
(* The exit's sockets.                                                      *)

Reply(frames) ==
  /\ toClient' = IF exit = "up" THEN toClient \o frames ELSE toClient
  /\ UNCHANGED <<client, exit, cut, toExit>>

Live(i) == up[i] \in {"dialing", "open"}
Destroyed(i) == up' = [up EXCEPT ![i] = IF Live(i) THEN "closing" ELSE @]

\* closeRelay
RelayEnds(i) ==
  /\ relay' = [relay EXCEPT ![i] = IF @ = "open" THEN "closed" ELSE @]
  /\ udp' = udp \ {i}

\* What kill releases: it reaches the sockets its two maps hold.
KillHeld ==
  /\ up' = [i \in Ids |-> IF Live(i) /\ i \in tracked THEN "closing" ELSE up[i]]
  /\ tracked' = {}
  /\ relay' = [i \in Ids |-> IF relay[i] = "open" THEN "closed" ELSE relay[i]]
  /\ udp' = udp \ {i \in Ids : relay[i] = "open"}

Kill ==
  /\ exit # "down"
  /\ exit' = "down" /\ toExit' = <<>>
  /\ KillHeld
  /\ UNCHANGED <<client, cut, toClient, clientVars, half, full, paused, looking, budget>>

\* The limits of sessions and of pending handshakes are shared with other clients.
Accept ==
  /\ exit = "waiting" /\ ~cut
  /\ \/ /\ exit' = "pending"
        /\ UNCHANGED <<client, cut, toExit, toClient, clientVars, upVars, relayVars, budget>>
     \/ Kill

\* The answer to the first message; one that is sealed with another key, more than
\* a minute off, or known already (the memory for keys may be full) is refused.
OnMsg1 ==
  /\ exit = "pending" /\ ~cut
  /\ toExit # <<>> /\ Head(toExit) = Hello
  /\ \/ /\ exit' = "up" /\ toExit' = Tail(toExit)
        /\ toClient' = Append(toClient, Welcome)
        /\ UNCHANGED <<client, cut, clientVars, upVars, relayVars, budget>>
     \/ Kill

Deadline == exit = "pending" /\ Kill
ExitSeesClose == exit \in {"pending", "up"} /\ client = "down" /\ ~cut /\ Kill

\* Variant: what the exit sends counts as activity, and its sockets send on.
ExitNeverIdle == exit = "up" /\ cut /\ FALSE /\ Kill

\* Ten minutes without a frame: the client pings every ten seconds.
ExitIdle == exit = "up" /\ cut /\ Kill

UpConnects(i) ==
  /\ up[i] = "dialing"
  /\ up' = [up EXCEPT ![i] = "open"]
  /\ Reply(<<Frame("OPEN_OK", i)>>)
  /\ UNCHANGED <<clientVars, half, tracked, full, paused, relayVars, budget>>

\* An error, or the silence of ten seconds before and two minutes after the
\* connection.
UpFails(i) ==
  /\ Live(i) /\ Destroyed(i)
  /\ UNCHANGED <<line, clientVars, half, tracked, full, paused, relayVars, budget>>

\* The socket of a session whose queue is long is not read.
UpSends(i) ==
  /\ up[i] = "open" /\ "in" \notin half[i]
  /\ budget > 0 /\ Len(toClient) < MaxQueue
  /\ budget' = budget - 1
  /\ Reply(<<Frame("DATA", i)>>)
  /\ UNCHANGED <<clientVars, upVars, relayVars>>

EndHalf(i, h) ==
  /\ half' = [half EXCEPT ![i] = @ \cup {h}]
  /\ up' = [up EXCEPT ![i] = IF half[i] \cup {h} = {"in", "out"} /\ @ = "open"
                             THEN "closing" ELSE @]

UpEnds(i) ==
  /\ up[i] = "open" /\ "in" \notin half[i]
  /\ EndHalf(i, "in")
  /\ Reply(<<Frame("END", i)>>)
  /\ UNCHANGED <<clientVars, tracked, full, paused, relayVars, budget>>

\* The session's socket is resumed by the first of the full sockets that drains
\* or closes.
Resumes(i) ==
  /\ full' = full \ {i}
  /\ paused' = IF i \in full THEN FALSE ELSE paused

UpClosed(i) ==
  /\ up[i] = "closing"
  /\ up' = [up EXCEPT ![i] = "none"]
  /\ tracked' = tracked \ {i}
  /\ Resumes(i)
  /\ Reply(<<Frame("CLOSE", i)>>)
  /\ UNCHANGED <<clientVars, half, relayVars, budget>>

UpDrains(i) ==
  /\ Live(i) /\ i \in full /\ Resumes(i)
  /\ UNCHANGED <<line, clientVars, up, half, tracked, relayVars, budget>>

-----------------------------------------------------------------------------
(* What the exit does with a frame.                                         *)

ExitReads(t, i) ==
  /\ exit = "up" /\ ~cut /\ ~paused
  /\ toExit # <<>> /\ Head(toExit) = Frame(t, i)

Answers(frames) ==
  /\ toExit' = Tail(toExit) /\ toClient' = toClient \o frames
  /\ UNCHANGED <<client, exit, cut, clientVars, budget>>

Refuses(i) == Answers(<<Frame("CLOSE", i)>>) /\ UNCHANGED <<upVars, relayVars>>

\* A used identifier ends the session; the target may be one the exit refuses.
OnOpen(i) ==
  /\ ExitReads("OPEN", i)
  /\ IF i \in Held THEN Kill
     ELSE \/ Refuses(i)
          \/ /\ Cardinality(Held) < MaxStreams
             /\ up' = [up EXCEPT ![i] = "dialing"]
             /\ tracked' = tracked \cup {i}
             /\ Answers(<<>>) /\ UNCHANGED <<half, full, paused, relayVars>>

OnAssoc(i) ==
  /\ ExitReads("UDP_ASSOC", i)
  /\ IF i \in Held THEN Kill
     ELSE IF Cardinality(Held) >= MaxStreams THEN Refuses(i)
     ELSE /\ relay' = [relay EXCEPT ![i] = "open"]
          /\ Answers(<<>>) /\ UNCHANGED <<upVars, looking, udp>>

\* boundedWrite to the upstream socket: it takes the data, takes it and is then
\* full, which stops the reading of the session, or holds too much and ends.
OnData(i) ==
  /\ ExitReads("DATA", i)
  /\ Answers(<<>>) /\ UNCHANGED <<half, tracked, relayVars>>
  /\ \/ UNCHANGED <<up, full, paused>>
     \/ /\ i \in tracked /\ Live(i)
        /\ full' = full \cup {i} /\ paused' = TRUE /\ UNCHANGED up
     \/ /\ i \in tracked /\ Live(i)
        /\ Destroyed(i) /\ UNCHANGED <<full, paused>>

OnEnd(i) ==
  /\ ExitReads("END", i)
  /\ IF i \in tracked THEN EndHalf(i, "out") ELSE UNCHANGED <<up, half>>
  /\ Answers(<<>>) /\ UNCHANGED <<tracked, full, paused, relayVars>>

OnClose(i) ==
  /\ ExitReads("CLOSE", i) \/ ExitReads("UDP_CLOSE", i)
  /\ IF i \in tracked THEN Destroyed(i) ELSE UNCHANGED up
  /\ tracked' = tracked \ {i}
  /\ RelayEnds(i)
  /\ Answers(<<>>) /\ UNCHANGED <<half, full, paused, looking>>

\* relaySend up to its await: the address of the datagram is looked up.
OnDatagram(i) ==
  /\ ExitReads("UDP_DATA", i)
  /\ IF relay[i] # "open" THEN Refuses(i)
     ELSE IF looking[i] >= MaxLookups
          THEN RelayEnds(i) /\ Answers(<<Frame("CLOSE", i)>>) /\ UNCHANGED <<upVars, looking>>
     ELSE /\ looking' = [looking EXCEPT ![i] = @ + 1]
          /\ Answers(<<>>) /\ UNCHANGED <<upVars, relay, udp>>

\* Variant: the relay is not looked at again after the lookup.
UsableEver(i) == exit # "down"

\* The check after the await.
Usable(i) == exit # "down" /\ relay[i] = "open"

LookedUp(i) == looking[i] > 0 /\ looking' = [looking EXCEPT ![i] = @ - 1]

Resolved(i) ==
  /\ LookedUp(i)
  /\ udp' = IF Usable(i) THEN udp \cup {i} ELSE udp
  /\ UNCHANGED <<line, clientVars, upVars, relay, budget>>

\* The name does not resolve, its address is refused, or the relay has 256 peers.
Unresolved(i) ==
  /\ LookedUp(i) /\ RelayEnds(i)
  /\ Reply(<<Frame("CLOSE", i)>>)
  /\ UNCHANGED <<clientVars, upVars, budget>>

UdpFails(i) ==
  /\ i \in udp /\ RelayEnds(i)
  /\ Reply(<<Frame("CLOSE", i)>>)
  /\ UNCHANGED <<clientVars, upVars, looking, budget>>

\* A relay has no source to hold back: a session's queue that is full ends it.
UdpAnswers(i) ==
  /\ i \in udp /\ budget > 0
  /\ IF Len(toClient) < MaxQueue
     THEN /\ budget' = budget - 1 /\ Reply(<<Frame("UDP_DATA", i)>>)
          /\ UNCHANGED <<clientVars, upVars, relayVars>>
     ELSE Kill

ExitReadsNext ==
  \E i \in Ids : OnOpen(i) \/ OnAssoc(i) \/ OnData(i) \/ OnEnd(i) \/ OnClose(i) \/ OnDatagram(i)

ExitNext ==
  \/ Accept \/ OnMsg1 \/ Deadline \/ ExitSeesClose \/ ExitIdle \/ ExitReadsNext
  \/ \E i \in Ids :
       \/ UpConnects(i) \/ UpFails(i) \/ UpSends(i) \/ UpEnds(i) \/ UpClosed(i) \/ UpDrains(i)
       \/ Resolved(i) \/ Unresolved(i) \/ UdpFails(i) \/ UdpAnswers(i)

Cut ==
  /\ ~cut /\ cut' = TRUE
  /\ UNCHANGED <<client, exit, toExit, toClient, clientVars, upVars, relayVars, budget>>

Next == ClientNext \/ ExitNext \/ Cut

\* The loops read what arrived, the timers fire, sockets report their close and
\* lookups answer; nobody has to open, write or end anything.
Fairness ==
  /\ WF_vars(HandshakeFails \/ PingExpires \/ ClientSeesClose)
  /\ WF_vars(Deadline \/ ExitSeesClose \/ ExitIdle)
  /\ WF_vars(ClientReadsNext) /\ WF_vars(ExitReadsNext)
  /\ WF_vars(\E i \in Ids : OpenTimeout(i))
  /\ WF_vars(\E i \in Ids : UpClosed(i))
  /\ WF_vars(\E i \in Ids : Resolved(i) \/ Unresolved(i))

Spec == Init /\ [][Next]_vars
FairSpec == Spec /\ Fairness

-----------------------------------------------------------------------------

TypeOK ==
  /\ client \in {"hello", "up", "down"} /\ exit \in {"waiting", "pending", "up", "down"}
  /\ nextId \in 1..(MaxId + 1)
  /\ entry \in [Ids -> {"none", "opening", "open", "relay", "gone"}]
  /\ answer \in [Ids -> {"none", "waiting", "ok", "failed"}]
  /\ up \in [Ids -> {"none", "dialing", "open", "closing"}]
  /\ relay \in [Ids -> {"none", "open", "closed"}] /\ looking \in [Ids -> Nat]
  /\ tracked \subseteq Ids /\ full \subseteq Ids /\ udp \subseteq Ids
  /\ paused \in BOOLEAN /\ cut \in BOOLEAN /\ budget \in Nat

\* Whatever ends a stream, a relay or the session while a connection is made or an
\* address is looked up: the exit owns no socket its maps do not hold, so that
\* nothing it opened outlives the session (exit-session.mjs:60 and :98).
NothingIsOrphaned ==
  /\ \A i \in Ids : Live(i) => i \in tracked
  /\ \A i \in udp : relay[i] = "open"
  /\ exit = "down" => tracked = {} /\ udp = {}

Quiet ==
  /\ client = "up" /\ exit = "up" /\ ~cut
  /\ toExit = <<>> /\ toClient = <<>>
  /\ \A i \in Ids : up[i] # "closing"

\* When nothing is under way both sides hold the same streams and relays: the exit
\* keeps none the client has forgotten, and the client waits for none the exit has
\* refused or lost, although either side ends them at any time.
SidesAgree ==
  Quiet => \A i \in Ids :
    /\ i \in tracked => entry[i] \in {"opening", "open"}
    /\ relay[i] = "open" <=> entry[i] = "relay"
    /\ entry[i] = "opening" => up[i] = "dialing"
    /\ entry[i] = "open" /\ ended[i] # {"in", "out"} => i \in tracked

\* Every open is answered, and the exit gives up what the client no longer has: by
\* the frame that says so, by the close of the connection, or by its idle timer
\* when the network is gone (a stream has one life, so "again and again" is "from
\* its end on").
EverythingEnds ==
  []<>(\A i \in Ids : /\ answer[i] # "waiting"
                     /\ entry[i] = "gone" => up[i] = "none" /\ i \notin udp)
=============================================================================
