--------------------------- MODULE SessionMux_proofs ---------------------------
(***************************************************************************)
(* For any number of streams, relays and frames: whatever ends a stream, a *)
(* relay or the session, the exit owns no socket that its maps do not      *)
(* hold, and when nothing is under way both sides hold the same streams.   *)
(*                                                                         *)
(* The second is a matter of what is still in the two queues.  The         *)
(* invariant says, of each identifier, which frame on its way will bring   *)
(* the side that is behind to what the other one has.                      *)
(***************************************************************************)
EXTENDS SessionMux, SequenceTheorems, TLAPS

-----------------------------------------------------------------------------
(* Queues.                                                                  *)

Names == {"MSG1", "MSG2", "OPEN", "UDP_ASSOC", "OPEN_OK", "CLOSE", "UDP_CLOSE", "DATA", "UDP_DATA", "END"}
Frames == Names \X Nat

Has(q, f) == \E k \in 1 .. Len(q) : q[k] = f

\* Every f in the queue has one of F behind it.
Followed(q, f, F) == \A k \in 1 .. Len(q) : q[k] = f => \E l \in k + 1 .. Len(q) : q[l] \in F

Endings(i) == {Frame("CLOSE", i), Frame("UDP_CLOSE", i)}
Ending(q, i) == \E f \in Endings(i) : Has(q, f)

-----------------------------------------------------------------------------
(* The invariant.                                                           *)

Types ==
  /\ TypeOK
  /\ toExit \in Seq(Frames) /\ toClient \in Seq(Frames)
  /\ ended \in [Ids -> SUBSET {"in", "out"}]

\* An identifier has one life, and is of a stream or of a relay.
Life(i) ==
  /\ i >= nextId <=> entry[i] = "none"
  /\ i \in tracked \/ Has(toExit, Frame("OPEN", i)) => entry[i] \in {"opening", "open", "gone"}
  /\ relay[i] = "open" \/ Has(toExit, Frame("UDP_ASSOC", i)) => entry[i] \in {"relay", "gone"}
  /\ Ending(toExit, i) => entry[i] = "gone"

\* Before the handshake the client has opened, and the exit has sent and holds, nothing.
Before ==
  /\ client = "hello" => nextId = 1
  /\ exit \in {"waiting", "pending"} =>
       client # "up" /\ toClient = <<>> /\ tracked = {} /\ \A i \in Ids : up[i] = "none"

Together == exit = "up" /\ client # "down"

\* What the client has given up and the exit holds, or will, is given up by a frame on its way.
ExitWillEnd(i) ==
  entry[i] = "gone" =>
    /\ i \in tracked \/ relay[i] = "open" => Ending(toExit, i)
    /\ Followed(toExit, Frame("OPEN", i), Endings(i))
    /\ Followed(toExit, Frame("UDP_ASSOC", i), Endings(i))

\* What the client waits for comes: the exit's answer, or the end.
ClientWillKnow(i) ==
  /\ entry[i] = "opening" =>
       \/ Has(toExit, Frame("OPEN", i)) \/ up[i] \in {"dialing", "closing"}
       \/ Has(toClient, Frame("OPEN_OK", i)) \/ Has(toClient, Frame("CLOSE", i))
  /\ entry[i] = "relay" /\ relay[i] # "open" =>
       Has(toExit, Frame("UDP_ASSOC", i)) \/ Has(toClient, Frame("CLOSE", i))

\* What the exit has lost and the client has, or will, is lost by a frame on its way.
ClientWillEnd(i) ==
  i \notin tracked =>
    /\ entry[i] = "open" /\ ended[i] # {"in", "out"} => Has(toClient, Frame("CLOSE", i))
    /\ entry[i] # "gone" => Followed(toClient, Frame("OPEN_OK", i), {Frame("CLOSE", i)})

Agree(i) == ExitWillEnd(i) /\ ClientWillKnow(i) /\ ClientWillEnd(i)

Right(i) == Life(i) /\ (Together => Agree(i))

IInv == Types /\ NothingIsOrphaned /\ Before /\ \A i \in Ids : Right(i)

-----------------------------------------------------------------------------
(* Lemmas about queues.                                                     *)

\* Frames differ in the name or in the identifier.
LEMMA FramesDiffer ==
  \A t, u, i, j : Frame(t, i) = Frame(u, j) <=> t = u /\ i = j
  BY DEF Frame

LEMMA QueueTypes ==
  ASSUME NEW q \in Seq(Frames)
  PROVE  /\ q \o <<>> = q
         /\ \A t \in Names, i \in Ids : q \o <<Frame(t, i)>> \in Seq(Frames) /\ Frame(t, i) \in Frames
         /\ q # <<>> => Tail(q) \in Seq(Frames)
<1>1. \A t \in Names, i \in Ids : Frame(t, i) \in Frames
  BY DEF Frames, Frame, Ids
<1>2. \A f \in Frames : q \o <<f>> \in Seq(Frames)
  OBVIOUS
<1>3. q \o <<>> = q
  BY ConcatEmptySeq
<1>4. q # <<>> => Tail(q) \in Seq(Frames)
  OBVIOUS
<1> QED BY <1>1, <1>2, <1>3, <1>4

\* What a queue has when one more frame is sent.
LEMMA Sent ==
  ASSUME NEW q \in Seq(Frames), NEW g \in Frames
  PROVE  /\ \A f : Has(q \o <<g>>, f) <=> Has(q, f) \/ f = g
         /\ \A f, F : f # g /\ (Followed(q, f, F) \/ g \in F) => Followed(q \o <<g>>, f, F)
<1> DEFINE p == q \o <<g>>
<1>1. Len(p) = Len(q) + 1 /\ Len(q) \in Nat /\ p[Len(q) + 1] = g /\ \A k \in 1 .. Len(q) : p[k] = q[k]
  OBVIOUS
<1> HIDE DEF p
<1>2. \A k \in 1 .. Len(p) : k \in 1 .. Len(q) \/ k = Len(q) + 1
  BY <1>1
<1>3. \A f : Has(p, f) <=> Has(q, f) \/ f = g
  BY <1>1, <1>2 DEF Has
<1>4. ASSUME NEW f, NEW F, f # g, Followed(q, f, F) PROVE Followed(p, f, F)
  <2> SUFFICES ASSUME NEW k \in 1 .. Len(p), p[k] = f PROVE \E l \in k + 1 .. Len(p) : p[l] \in F
    BY DEF Followed
  <2>1. k \in 1 .. Len(q) /\ q[k] = f
    BY <1>1, <1>2, <1>4
  <2>2. PICK l \in k + 1 .. Len(q) : q[l] \in F
    BY <1>4, <2>1 DEF Followed
  <2> QED BY <1>1, <2>1, <2>2
<1>5. ASSUME NEW f, NEW F, f # g, g \in F PROVE Followed(p, f, F)
  <2> SUFFICES ASSUME NEW k \in 1 .. Len(p), p[k] = f PROVE \E l \in k + 1 .. Len(p) : p[l] \in F
    BY DEF Followed
  <2>1. k \in 1 .. Len(q)
    BY <1>1, <1>2, <1>5
  <2>2. Len(q) + 1 \in k + 1 .. Len(p) /\ p[Len(q) + 1] \in F
    BY <1>1, <1>5, <2>1
  <2> QED BY <2>2
<1> QED BY <1>3, <1>4, <1>5 DEF p

\* What a queue has when its first frame is read.
LEMMA Received ==
  ASSUME NEW q \in Seq(Frames), q # <<>>
  PROVE  /\ \A f : Has(q, f) <=> Has(Tail(q), f) \/ f = Head(q)
         /\ \A f, F : Followed(q, f, F) => Followed(Tail(q), f, F)
         /\ \A F : Followed(q, Head(q), F) => \E f \in F : Has(Tail(q), f)
<1> DEFINE p == Tail(q)
<1>1. /\ Len(q) \in Nat \ {0} /\ Len(p) = Len(q) - 1 /\ Head(q) = q[1]
      /\ \A k \in 1 .. Len(p) : p[k] = q[k + 1]
  OBVIOUS
<1> HIDE DEF p
<1>2. \A k \in 1 .. Len(q) : k = 1 \/ (k - 1 \in 1 .. Len(p) /\ p[k - 1] = q[k])
  <2> SUFFICES ASSUME NEW k \in 1 .. Len(q), k # 1 PROVE k - 1 \in 1 .. Len(p) /\ p[k - 1] = q[k]
    OBVIOUS
  <2>1. k - 1 \in 1 .. Len(p) /\ (k - 1) + 1 = k
    BY <1>1
  <2> QED BY <1>1, <2>1
<1>3. ASSUME NEW f PROVE Has(q, f) <=> Has(p, f) \/ f = Head(q)
  <2>1. Has(q, f) => Has(p, f) \/ f = Head(q)
    BY <1>1, <1>2 DEF Has
  <2>2. Has(p, f) => Has(q, f)
    <3>1. \A k \in 1 .. Len(p) : k + 1 \in 1 .. Len(q)
      BY <1>1
    <3> QED BY <1>1, <3>1 DEF Has
  <2>3. f = Head(q) => Has(q, f)
    <3>1. 1 \in 1 .. Len(q)
      BY <1>1
    <3> QED BY <1>1, <3>1 DEF Has
  <2> QED BY <2>1, <2>2, <2>3
<1>4. ASSUME NEW f, NEW F, Followed(q, f, F) PROVE Followed(p, f, F)
  <2> SUFFICES ASSUME NEW k \in 1 .. Len(p), p[k] = f PROVE \E l \in k + 1 .. Len(p) : p[l] \in F
    BY DEF Followed
  <2>1. k + 1 \in 1 .. Len(q) /\ q[k + 1] = f
    BY <1>1
  <2>2. PICK l \in (k + 1) + 1 .. Len(q) : q[l] \in F
    BY <1>4, <2>1 DEF Followed
  <2>3. l - 1 \in k + 1 .. Len(p) /\ p[l - 1] = q[l]
    BY <1>1, <1>2, <2>2
  <2> QED BY <2>2, <2>3
<1>5. ASSUME NEW F, Followed(q, Head(q), F) PROVE \E f \in F : Has(p, f)
  <2>1. PICK l \in 1 + 1 .. Len(q) : q[l] \in F
    BY <1>1, <1>5 DEF Followed
  <2>2. l - 1 \in 1 .. Len(p) /\ p[l - 1] = q[l]
    BY <1>1, <1>2, <2>1
  <2>3. Has(p, q[l])
    BY <2>2 DEF Has
  <2> QED BY <2>1, <2>3
<1> QED BY <1>3, <1>4, <1>5 DEF p

LEMMA NothingSent ==
  \A f, F : ~Has(<<>>, f) /\ Followed(<<>>, f, F)
  BY DEF Has, Followed

\* The frames that open or end something.
Signals == {"OPEN", "UDP_ASSOC", "OPEN_OK", "CLOSE", "UDP_CLOSE"}

\* Of identifier i the queue p has what q has, in an order as good.
Same(q, p, i) ==
  \A t \in Signals :
    /\ Has(p, Frame(t, i)) <=> Has(q, Frame(t, i))
    /\ \A F : Followed(q, Frame(t, i), F) => Followed(p, Frame(t, i), F)

LEMMA SameSent ==
  ASSUME NEW q \in Seq(Frames), NEW t \in Names, NEW j \in Ids, NEW i, i # j \/ t \notin Signals
  PROVE  Same(q, q \o <<Frame(t, j)>>, i)
<1>1. \A u \in Signals : Frame(u, i) # Frame(t, j)
  BY FramesDiffer
<1>2. Frame(t, j) \in Frames
  BY QueueTypes
<1> QED BY <1>1, <1>2, Sent DEF Same

LEMMA SameReceived ==
  ASSUME NEW q \in Seq(Frames), q # <<>>, NEW t, NEW j, Head(q) = Frame(t, j), NEW i,
         i # j \/ t \notin Signals
  PROVE  Same(q, Tail(q), i)
<1>1. \A u \in Signals : Frame(u, i) # Frame(t, j)
  BY FramesDiffer
<1> QED BY <1>1, Received DEF Same

\* An identifier that a step does not touch, or of which it ends an open socket.
LEMMA Untouched ==
  ASSUME NEW i \in Ids, Right(i), Same(toExit, toExit', i), Same(toClient, toClient', i),
         entry'[i] = entry[i], ended[i] = {"in", "out"} => ended'[i] = {"in", "out"},
         up[i] \in {"dialing", "closing"} => up'[i] \in {"dialing", "closing"}, relay'[i] = relay[i],
         i \in tracked' <=> i \in tracked, i >= nextId' <=> i >= nextId,
         Together' => Together
  PROVE  Right(i)'
<1>1. {"OPEN", "UDP_ASSOC", "OPEN_OK", "CLOSE", "UDP_CLOSE"} = Signals
  BY DEF Signals
<1>2. Ending(toExit', i) <=> Ending(toExit, i)
  BY <1>1 DEF Ending, Endings, Same
<1>3. Life(i)'
  BY <1>1, <1>2 DEF Right, Life, Same
<1>4. ASSUME Together' PROVE Agree(i)'
  <2>1. Agree(i)
    BY <1>4 DEF Right
  <2>2. ExitWillEnd(i)'
    BY <1>1, <1>2, <2>1 DEF Agree, ExitWillEnd, Same
  <2>3. ClientWillKnow(i)'
    BY <1>1, <2>1 DEF Agree, ClientWillKnow, Same
  <2>4. ClientWillEnd(i)'
    BY <1>1, <2>1 DEF Agree, ClientWillEnd, Same
  <2> QED BY <2>2, <2>3, <2>4 DEF Agree
<1> QED BY <1>3, <1>4 DEF Right

-----------------------------------------------------------------------------
(* Types.                                                                   *)

USE MuxAssumption DEF MuxAssumption

Upstream == {"none", "dialing", "open", "closing"}
Relays == {"none", "open", "closed"}

\* What the operators that end a socket or a relay leave.
LEMMA TypesOfEnds ==
  ASSUME Types
  PROVE  /\ \A i \in Ids : RelayEnds(i) => relay' \in [Ids -> Relays] /\ udp' \subseteq Ids
         /\ \A i \in Ids : Destroyed(i) => up' \in [Ids -> Upstream]
         /\ \A i \in Ids : \A h : EndHalf(i, h) => up' \in [Ids -> Upstream]
         /\ KillHeld => /\ up' \in [Ids -> Upstream] /\ tracked' = {}
                        /\ relay' \in [Ids -> Relays] /\ udp' \subseteq Ids
<1> USE DEF Types, TypeOK, Upstream, Relays
<1>1. ASSUME NEW i \in Ids, RelayEnds(i) PROVE relay' \in [Ids -> Relays] /\ udp' \subseteq Ids
  <2>1. relay' = [relay EXCEPT ![i] = IF @ = "open" THEN "closed" ELSE @]
    BY <1>1 DEF RelayEnds
  <2>2. CASE relay[i] = "open"
    BY <1>1, <2>1, <2>2 DEF RelayEnds
  <2>3. CASE relay[i] # "open"
    BY <1>1, <2>1, <2>3 DEF RelayEnds
  <2> QED BY <2>2, <2>3
<1>2. \A i \in Ids : Destroyed(i) => up' \in [Ids -> Upstream]
  BY DEF Destroyed
<1>3. ASSUME NEW i \in Ids, NEW h, EndHalf(i, h) PROVE up' \in [Ids -> Upstream]
  <2> DEFINE both == half[i] \cup {h} = {"in", "out"}
  <2>1. up' = [up EXCEPT ![i] = IF both /\ @ = "open" THEN "closing" ELSE @]
    BY <1>3 DEF EndHalf
  <2> HIDE DEF both
  <2> QED BY <2>1
<1>4. KillHeld => /\ up' \in [Ids -> Upstream] /\ tracked' = {}
                 /\ relay' \in [Ids -> Relays] /\ udp' \subseteq Ids
  <2>1. KillHeld => up' \in [Ids -> Upstream] /\ tracked' = {} /\ udp' \subseteq Ids
    BY DEF KillHeld
  <2>2. KillHeld => relay' \in [Ids -> Relays]
    <3>1. \A j \in Ids : (IF relay[j] = "open" THEN "closed" ELSE relay[j]) \in Relays
      OBVIOUS
    <3> QED BY <3>1 DEF KillHeld
  <2> QED BY <2>1, <2>2
<1> QED BY <1>1, <1>2, <1>3, <1>4

LEMMA TypesOfClient ==
  ASSUME Types, ClientNext
  PROVE  TypeOK' /\ ended' \in [Ids -> SUBSET {"in", "out"}]
<1> USE DEF Types, TypeOK, line, clientVars, upVars, relayVars, ClientSends
<1>1. CASE ClientDown
  BY <1>1 DEF ClientDown
<1>2. CASE OnMsg2
  BY <1>2 DEF OnMsg2, Finishes, Took
<1>3. CASE OpenStream
  BY <1>3 DEF OpenStream, CanAllocate, Ids
<1>4. CASE OpenRelay
  BY <1>4 DEF OpenRelay, CanAllocate, Ids
<1>5. ASSUME NEW i \in Ids, StreamEnds(i) PROVE TypeOK' /\ ended' \in [Ids -> SUBSET {"in", "out"}]
  BY <1>5 DEF StreamEnds, Forget
<1>6. ASSUME NEW i \in Ids, Write(i) PROVE TypeOK' /\ ended' \in [Ids -> SUBSET {"in", "out"}]
  <2>1. CASE ClientDown
    BY <1>1, <2>1
  <2>2. CASE budget' = budget - 1 /\ ClientSends(<<Frame("DATA", i)>>)
             /\ UNCHANGED <<toClient, clientVars, upVars, relayVars>>
    <3>1. budget' \in Nat
      BY <1>6, <2>2 DEF Write
    <3> HIDE DEF ClientSends
    <3>2. UNCHANGED <<client, exit, cut>>
      BY <2>2 DEF ClientSends
    <3> QED BY <2>2, <3>1, <3>2
  <2> QED BY <1>6, <2>1, <2>2 DEF Write
<1>7. ASSUME NEW i \in Ids, SendDatagram(i) PROVE TypeOK' /\ ended' \in [Ids -> SUBSET {"in", "out"}]
  <2>1. budget' \in Nat
    BY <1>7 DEF SendDatagram
  <2> QED BY <1>7, <2>1 DEF SendDatagram
<1>12. ASSUME NEW i \in Ids, Final(i) PROVE TypeOK' /\ ended' \in [Ids -> SUBSET {"in", "out"}]
  <2>1. ended' \in [Ids -> SUBSET {"in", "out"}]
    BY <1>12 DEF Final
  <2> QED BY <1>12, <2>1 DEF Final
<1>8. ASSUME NEW i \in Ids, OnOpenOk(i) PROVE TypeOK' /\ ended' \in [Ids -> SUBSET {"in", "out"}]
  BY <1>8 DEF OnOpenOk, ClientReads, Took, Silent
<1>9. ASSUME NEW i \in Ids, OnReply(i) PROVE TypeOK' /\ ended' \in [Ids -> SUBSET {"in", "out"}]
  <2>1. CASE Silent /\ (ClientReads("DATA", i) \/ ClientReads("UDP_DATA", i))
    BY <2>1 DEF ClientReads, Took, Silent
  <2>2. CASE ClientReads("DATA", i) /\ Forget(i, <<>>) /\ UNCHANGED <<nextId, ended>>
    BY <2>2 DEF ClientReads, Took, Forget
  <2> QED BY <1>9, <2>1, <2>2 DEF OnReply
<1>10. ASSUME NEW i \in Ids, OnPeerEnd(i) PROVE TypeOK' /\ ended' \in [Ids -> SUBSET {"in", "out"}]
  <2>1. TypeOK'
    BY <1>10 DEF OnPeerEnd, ClientReads, Took
  <2>2. ended' \in [Ids -> SUBSET {"in", "out"}]
    <3>1. CASE entry[i] = "open"
      BY <1>10, <3>1 DEF OnPeerEnd
    <3>2. CASE entry[i] # "open"
      BY <1>10, <3>2 DEF OnPeerEnd
    <3> QED BY <3>1, <3>2
  <2> QED BY <2>1, <2>2
<1>11. ASSUME NEW i \in Ids, OnPeerClose(i) PROVE TypeOK' /\ ended' \in [Ids -> SUBSET {"in", "out"}]
  <2> USE <1>11 DEF ClientReads, Took
  <2>1. CASE Silent
    BY <2>1 DEF OnPeerClose, Silent
  <2>2. CASE Forget(i, <<>>) /\ UNCHANGED <<nextId, ended>>
    BY <2>2 DEF OnPeerClose, Forget
  <2>3. CASE /\ ended' = [ended EXCEPT ![i] = {"in", "out"}]
             /\ ClientSends(IF "out" \in ended[i] THEN <<>> ELSE <<Frame("END", i)>>)
             /\ UNCHANGED <<nextId, entry, answer>>
    <3>1. ended' \in [Ids -> SUBSET {"in", "out"}]
      BY <2>3
    <3> QED BY <2>3, <3>1 DEF OnPeerClose
  <2> QED BY <2>1, <2>2, <2>3 DEF OnPeerClose
<1> QED BY <1>1, <1>2, <1>3, <1>4, <1>5, <1>6, <1>7, <1>8, <1>9, <1>10, <1>11, <1>12
        DEF ClientNext, ClientReadsNext, HandshakeFails, PingExpires, ClientSeesClose

LEMMA TypesOfKill ==
  ASSUME Types, Kill
  PROVE  TypeOK' /\ UNCHANGED ended
<1>1. /\ up' \in [Ids -> Upstream] /\ tracked' = {}
      /\ relay' \in [Ids -> Relays] /\ udp' \subseteq Ids
  BY TypesOfEnds DEF Kill
<1> QED BY <1>1 DEF Types, TypeOK, Kill, clientVars, Upstream, Relays

LEMMA TypesOfExit ==
  ASSUME Types, ExitNext
  PROVE  TypeOK' /\ UNCHANGED ended
<1> USE DEF Types, TypeOK, line, clientVars, upVars, relayVars
<1>1. CASE Kill
  BY <1>1, TypesOfKill
<1>2. CASE Accept \/ OnMsg1
  BY <1>1, <1>2 DEF Accept, OnMsg1
<1>3. ASSUME NEW i \in Ids, UpConnects(i) \/ UpFails(i) \/ UpSends(i) \/ UpEnds(i) \/ UpClosed(i) \/ UpDrains(i)
      PROVE  TypeOK' /\ UNCHANGED ended
  <2>1. CASE UpConnects(i) \/ UpFails(i) \/ UpSends(i)
    <3>1. CASE UpConnects(i)
      BY <3>1 DEF UpConnects, Reply
    <3>2. CASE UpFails(i)
      <4>1. up' \in [Ids -> Upstream]
        BY <3>2, TypesOfEnds DEF UpFails
      <4> QED BY <3>2, <4>1 DEF UpFails, Upstream
    <3>3. CASE UpSends(i)
      <4>1. budget' \in Nat
        BY <3>3 DEF UpSends
      <4> QED BY <3>3, <4>1 DEF UpSends, Reply
    <3> QED BY <2>1, <3>1, <3>2, <3>3
  <2>2. CASE UpEnds(i)
    <3>1. up' \in [Ids -> Upstream]
      BY <2>2, TypesOfEnds DEF UpEnds
    <3> QED BY <2>2, <3>1 DEF UpEnds, Reply, Upstream
  <2>3. CASE UpClosed(i) \/ UpDrains(i)
    <3>1. paused' \in BOOLEAN
      BY <2>3 DEF UpClosed, UpDrains, Resumes
    <3> QED BY <2>3, <3>1 DEF UpClosed, UpDrains, Resumes, Reply
  <2> QED BY <1>3, <2>1, <2>2, <2>3
<1>4. ASSUME NEW i \in Ids, Resolved(i) \/ Unresolved(i) \/ UdpFails(i) \/ UdpAnswers(i)
      PROVE  TypeOK' /\ UNCHANGED ended
  <2>1. CASE Resolved(i)
    BY <2>1 DEF Resolved, LookedUp
  <2>2. CASE Unresolved(i)
    <3>1. relay' \in [Ids -> Relays] /\ udp' \subseteq Ids
      BY <2>2, TypesOfEnds DEF Unresolved
    <3>2. looking' \in [Ids -> Nat]
      BY <2>2 DEF Unresolved, LookedUp
    <3> QED BY <2>2, <3>1, <3>2 DEF Unresolved, Reply, Relays
  <2>3. CASE UdpFails(i)
    <3>1. relay' \in [Ids -> Relays] /\ udp' \subseteq Ids
      BY <2>3, TypesOfEnds DEF UdpFails
    <3> QED BY <2>3, <3>1 DEF UdpFails, Reply, Relays
  <2>4. CASE UdpAnswers(i)
    <3>1. CASE budget' = budget - 1 /\ Reply(<<Frame("UDP_DATA", i)>>)
               /\ UNCHANGED <<clientVars, upVars, relayVars>>
      <4>1. budget' \in Nat
        BY <2>4, <3>1 DEF UdpAnswers
      <4> QED BY <3>1, <4>1 DEF Reply
    <3> QED BY <1>1, <2>4, <3>1 DEF UdpAnswers
  <2> QED BY <1>4, <2>1, <2>2, <2>3, <2>4
<1>5. ASSUME NEW i \in Ids, OnOpen(i) \/ OnAssoc(i) \/ OnData(i) \/ OnEnd(i) \/ OnClose(i) \/ OnDatagram(i)
      PROVE  TypeOK' /\ UNCHANGED ended
  <2>1. CASE OnOpen(i)
    BY <1>1, <2>1 DEF OnOpen, Refuses, Answers
  <2>2. CASE OnAssoc(i)
    BY <1>1, <2>2 DEF OnAssoc, Refuses, Answers
  <2>3. CASE OnData(i)
    BY <2>3 DEF OnData, Answers, Destroyed
  <2>4. CASE OnEnd(i)
    <3>1. up' \in [Ids -> Upstream]
      BY <2>4, TypesOfEnds DEF OnEnd, Upstream
    <3> QED BY <2>4, <3>1 DEF OnEnd, Answers, Upstream
  <2>5. CASE OnClose(i)
    <3>1. /\ relay' \in [Ids -> Relays] /\ udp' \subseteq Ids
          /\ up' \in [Ids -> Upstream]
      BY <2>5, TypesOfEnds DEF OnClose, Upstream
    <3>2. tracked' \subseteq Ids
      BY <2>5 DEF OnClose
    <3> QED BY <2>5, <3>1, <3>2 DEF OnClose, Answers, Upstream, Relays
  <2>6. CASE OnDatagram(i)
    <3>1. relay' \in [Ids -> Relays] /\ udp' \subseteq Ids
      BY <2>6, TypesOfEnds DEF OnDatagram, Refuses, Relays
    <3>2. looking' \in [Ids -> Nat]
      <4>1. looking[i] + 1 \in Nat /\ Answers(<<>>) \in BOOLEAN
        BY DEF Answers
      <4>2. looking' = looking \/ looking' = [looking EXCEPT ![i] = looking[i] + 1]
        BY <2>6 DEF OnDatagram, Refuses
      <4> QED BY <4>1, <4>2
    <3>3. UNCHANGED <<client, exit, cut, clientVars, budget, upVars>>
      BY <2>6 DEF OnDatagram, Answers, Refuses
    <3> QED BY <3>1, <3>2, <3>3 DEF Relays
  <2> QED BY <1>5, <2>1, <2>2, <2>3, <2>4, <2>5, <2>6
<1> QED BY <1>1, <1>2, <1>3, <1>4, <1>5 DEF ExitNext, ExitReadsNext, Deadline, ExitSeesClose, ExitIdle

\* One frame more, one frame less, or none.
Moved(q, p) ==
  \/ p = q \/ p = <<>>
  \/ q # <<>> /\ p = Tail(q)
  \/ \E t \in Names, i \in Ids \cup {0} : p = q \o <<Frame(t, i)>>

LEMMA TypesOfQueues ==
  ASSUME Types, NEW q, NEW p, q \in {toExit, toClient}, Moved(q, p)
  PROVE  p \in Seq(Frames)
<1>1. q \in Seq(Frames)
  BY DEF Types
<1>2. ASSUME NEW t \in Names, NEW i \in Ids \cup {0} PROVE q \o <<Frame(t, i)>> \in Seq(Frames)
  <2>1. Frame(t, i) \in Frames
    BY DEF Frame, Frames, Ids
  <2> QED BY <1>1, <2>1
<1>3. <<>> \in Seq(Frames) /\ (q # <<>> => Tail(q) \in Seq(Frames))
  BY <1>1
<1> QED BY <1>1, <1>2, <1>3 DEF Moved

-----------------------------------------------------------------------------
(* Steps that are about one identifier.                                     *)

\* What a step about identifier j does to a queue: it sends or reads one frame of j's.
Speaks(q, p, j) ==
  \/ p = q
  \/ q # <<>> /\ p = Tail(q) /\ \E t \in Names : Head(q) = Frame(t, j)
  \/ \E t \in Names : p = q \o <<Frame(t, j)>>

\* The step changes nothing of any other identifier.
Only(j) ==
  /\ Speaks(toExit, toExit', j) /\ Speaks(toClient, toClient', j)
  /\ \A i \in Ids \ {j} :
       /\ entry'[i] = entry[i] /\ ended'[i] = ended[i] /\ up'[i] = up[i] /\ relay'[i] = relay[i]
       /\ i \in tracked' <=> i \in tracked
       /\ i >= nextId' <=> i >= nextId
  /\ Together' => Together

Fine == (\A i \in Ids : Right(i)) /\ toExit \in Seq(Frames) /\ toClient \in Seq(Frames)

LEMMA SpeaksMoves ==
  ASSUME NEW q, NEW p, NEW j \in Ids, Speaks(q, p, j)
  PROVE  Moved(q, p)
  BY DEF Speaks, Moved

LEMMA SpeaksSame ==
  ASSUME NEW q \in Seq(Frames), NEW p, NEW j \in Ids, Speaks(q, p, j), NEW i \in Ids \ {j}
  PROVE  Same(q, p, i)
<1>1. CASE p = q
  BY <1>1 DEF Same
<1>2. CASE q # <<>> /\ p = Tail(q) /\ \E t \in Names : Head(q) = Frame(t, j)
  BY <1>2, SameReceived
<1>3. CASE \E t \in Names : p = q \o <<Frame(t, j)>>
  BY <1>3, SameSent
<1> QED BY <1>1, <1>2, <1>3 DEF Speaks

LEMMA Others ==
  ASSUME Types, Fine, NEW j \in Ids, Only(j), Right(j)'
  PROVE  Fine'
<1>1. ASSUME NEW i \in Ids \ {j} PROVE Right(i)'
  <2>1. Same(toExit, toExit', i) /\ Same(toClient, toClient', i)
    BY SpeaksSame DEF Only, Types
  <2> QED BY <2>1, Untouched DEF Only, Fine
<1>2. toExit' \in Seq(Frames) /\ toClient' \in Seq(Frames)
  BY SpeaksMoves, TypesOfQueues DEF Only
<1> QED BY <1>1, <1>2 DEF Fine

\* A step that sends and reads no signal, and leaves what the identifier is.
LEMMA Plain ==
  ASSUME Types, Fine, NEW j \in Ids, Only(j),
         Same(toExit, toExit', j), Same(toClient, toClient', j),
         entry'[j] = entry[j], ended[j] = {"in", "out"} => ended'[j] = {"in", "out"},
         up[j] \in {"dialing", "closing"} => up'[j] \in {"dialing", "closing"}, relay'[j] = relay[j], j \in tracked' <=> j \in tracked, nextId' = nextId
  PROVE  Fine'
<1>1. Right(j)'
  BY Untouched DEF Only, Fine
<1> QED BY <1>1, Others

-----------------------------------------------------------------------------
(* The client's steps.                                                      *)

\* What the client has given up it has told.
LEMMA ForgetIsFine ==
  ASSUME Types, Fine, NEW j \in Ids, entry[j] # "none", Forget(j, <<>>),
         Speaks(toClient, toClient', j), UNCHANGED <<nextId, ended, upVars, relayVars>>
  PROVE  Fine'
<1>1. PICK t \in {"CLOSE", "UDP_CLOSE"} : toExit' = toExit \o <<Frame(t, j)>>
  <2>1. <<>> \o <<Frame(IF entry[j] = "relay" THEN "UDP_CLOSE" ELSE "CLOSE", j)>>
          = <<Frame(IF entry[j] = "relay" THEN "UDP_CLOSE" ELSE "CLOSE", j)>>
    BY ConcatEmptySeq
  <2>2. toExit' = toExit \o (<<>> \o <<Frame(IF entry[j] = "relay" THEN "UDP_CLOSE" ELSE "CLOSE", j)>>)
    BY DEF Forget, ClientSends
  <2>3. CASE entry[j] = "relay"
    BY <2>1, <2>2, <2>3
  <2>4. CASE entry[j] # "relay"
    BY <2>1, <2>2, <2>4
  <2> QED BY <2>3, <2>4
<1>2. entry' = [entry EXCEPT ![j] = "gone"] /\ UNCHANGED <<client, exit, cut>>
  BY DEF Forget, ClientSends
<1>3. entry'[j] = "gone" /\ \A i \in Ids \ {j} : entry'[i] = entry[i]
  BY <1>2 DEF Types, TypeOK
<1>4. Only(j)
  <2>1. Speaks(toExit, toExit', j)
    BY <1>1 DEF Speaks, Names
  <2> QED BY <1>2, <1>3, <2>1 DEF Only, upVars, relayVars, Together
<1>5. /\ toExit \in Seq(Frames) /\ Frame(t, j) \in Frames /\ Frame(t, j) \in Endings(j)
      /\ \A u \in {"OPEN", "UDP_ASSOC"} : Frame(u, j) # Frame(t, j)
  BY QueueTypes, FramesDiffer DEF Types, Names, Endings
<1>6. /\ Ending(toExit', j)
      /\ \A u \in {"OPEN", "UDP_ASSOC"} :
           /\ Has(toExit', Frame(u, j)) => Has(toExit, Frame(u, j))
           /\ Followed(toExit', Frame(u, j), Endings(j))
  BY <1>1, <1>5, Sent DEF Ending
<1>7. Right(j)
  BY DEF Fine
<1>8. Life(j)'
  BY <1>3, <1>6, <1>7 DEF Right, Life, upVars, relayVars
<1>9. Agree(j)'
  BY <1>3, <1>6 DEF Agree, ExitWillEnd, ClientWillKnow, ClientWillEnd
<1> QED BY <1>4, <1>8, <1>9, Others DEF Right

\* An identifier that is handed out is one nothing is known of.
LEMMA AllocateIsFine ==
  ASSUME Types, Fine, CanAllocate, NEW j \in Ids, j = nextId, NEW t, NEW kind,
         <<t, kind>> \in {<<"OPEN", "opening">>, <<"UDP_ASSOC", "relay">>},
         nextId' = nextId + 1, entry'[j] = kind, \A i \in Ids \ {j} : entry'[i] = entry[i],
         ClientSends(<<Frame(t, nextId)>>), UNCHANGED <<toClient, ended, upVars, relayVars>>
  PROVE  Fine'
<1>1. j \in Ids /\ nextId \in Nat /\ (\A i \in Ids : i \in Nat) /\ t \in Names
  BY DEF CanAllocate, Ids, Names
<1>2. toExit' = toExit \o <<Frame(t, j)>> /\ UNCHANGED <<client, exit, cut>>
  BY DEF ClientSends
<1>3. entry'[j] = kind /\ \A i \in Ids \ {j} : entry'[i] = entry[i]
  OBVIOUS
<1>4. ~(j >= nextId') /\ \A i \in Ids \ {j} : i >= nextId' <=> i >= nextId
  BY <1>1
<1>5. Only(j)
  <2>1. Speaks(toExit, toExit', j) /\ Speaks(toClient, toClient', j)
    BY <1>1, <1>2 DEF Speaks
  <2> QED BY <1>2, <1>3, <1>4, <2>1 DEF Only, upVars, relayVars, Together
<1>6. Right(j) /\ j >= nextId
  BY <1>1 DEF Fine
<1>7. /\ entry[j] = "none" /\ j \notin tracked /\ relay[j] # "open" /\ ~Ending(toExit, j)
      /\ ~Has(toExit, Frame("OPEN", j)) /\ ~Has(toExit, Frame("UDP_ASSOC", j))
  BY <1>6 DEF Right, Life
<1>8. /\ toExit \in Seq(Frames) /\ Frame(t, j) \in Frames /\ Frame(t, j) \notin Endings(j)
      /\ \A u : Frame(u, j) = Frame(t, j) <=> u = t
  BY <1>1, QueueTypes, FramesDiffer DEF Types, Endings
<1>9. /\ \A f : Has(toExit', f) <=> Has(toExit, f) \/ f = Frame(t, j)
      /\ ~Ending(toExit', j)
  BY <1>2, <1>7, <1>8, Sent DEF Ending
<1>10. Life(j)'
  BY <1>3, <1>4, <1>7, <1>8, <1>9 DEF Life, upVars, relayVars
<1>11. ASSUME Together' PROVE Agree(j)'
  <2>1. Agree(j)
    BY <1>5, <1>6, <1>11 DEF Only, Right
  <2>2. kind = "opening" => Has(toExit', Frame("OPEN", j))
    BY <1>8, <1>9
  <2>3. kind = "relay" => Has(toExit', Frame("UDP_ASSOC", j))
    BY <1>8, <1>9
  <2> QED BY <1>3, <1>7, <2>1, <2>2, <2>3
          DEF Agree, ExitWillEnd, ClientWillKnow, ClientWillEnd, upVars
<1> QED BY <1>1, <1>5, <1>10, <1>11, Others DEF Right

\* A signal the client reads: what it still waits for is behind it.
LEMMA OpenOkIsFine ==
  ASSUME Types, Fine, NEW j \in Ids, OnOpenOk(j)
  PROVE  Fine'
<1>1. /\ toClient # <<>> /\ Head(toClient) = Frame("OPEN_OK", j) /\ toClient' = Tail(toClient)
      /\ toExit' = toExit \o <<>>
      /\ UNCHANGED <<client, exit, cut, nextId, ended, upVars, relayVars>>
      /\ entry[j] = "opening" => entry' = [entry EXCEPT ![j] = "open"]
      /\ entry[j] # "opening" => entry' = entry
  BY DEF OnOpenOk, ClientReads, Took, Silent, ClientSends
<1>2. toExit' = toExit
  BY <1>1, QueueTypes DEF Types
<1>3. /\ \A i \in Ids \ {j} : entry'[i] = entry[i]
      /\ entry'[j] = IF entry[j] = "opening" THEN "open" ELSE entry[j]
  BY <1>1 DEF Types, TypeOK
<1>4. Only(j)
  <2>1. Speaks(toExit, toExit', j) /\ Speaks(toClient, toClient', j)
    BY <1>1, <1>2 DEF Speaks, Names
  <2> QED BY <1>1, <1>3, <2>1 DEF Only, upVars, relayVars, Together
<1>5. /\ Has(toClient, Frame("CLOSE", j)) => Has(toClient', Frame("CLOSE", j))
      /\ Followed(toClient, Frame("OPEN_OK", j), {Frame("CLOSE", j)}) =>
           /\ Followed(toClient', Frame("OPEN_OK", j), {Frame("CLOSE", j)})
           /\ Has(toClient', Frame("CLOSE", j))
  <2> DEFINE close == Frame("CLOSE", j)
  <2>1. close # Head(toClient)
    BY <1>1, FramesDiffer
  <2>2. /\ \A f : Has(toClient, f) <=> Has(toClient', f) \/ f = Head(toClient)
        /\ \A f, F : Followed(toClient, f, F) => Followed(toClient', f, F)
        /\ \A F : Followed(toClient, Head(toClient), F) => \E f \in F : Has(toClient', f)
    BY <1>1, Received DEF Types
  <2> HIDE DEF close
  <2>3. Followed(toClient, Head(toClient), {close}) => Has(toClient', close)
    BY <2>2
  <2> QED BY <1>1, <2>1, <2>2, <2>3 DEF close
<1>6. Right(j)
  BY DEF Fine
<1>7. Life(j)'
  BY <1>1, <1>2, <1>3, <1>6 DEF Right, Life, upVars, relayVars
<1>8. ASSUME Together' PROVE Agree(j)'
  <2>1. Agree(j)
    BY <1>4, <1>6, <1>8 DEF Only, Right
  <2> QED BY <1>1, <1>2, <1>3, <1>5, <2>1
          DEF Agree, ExitWillEnd, ClientWillKnow, ClientWillEnd, upVars, relayVars
<1> QED BY <1>4, <1>7, <1>8, Others DEF Right

\* A close the client reads is for a stream or a relay it waits no more for.
LEMMA PeerCloseIsFine ==
  ASSUME Types, Fine, NEW j \in Ids, Only(j), Same(toExit, toExit', j),
         toClient # <<>>, Head(toClient) = Frame("CLOSE", j), toClient' = Tail(toClient),
         UNCHANGED <<nextId, entry, upVars, relayVars>>,
         entry[j] \in {"none", "gone"} \/ (entry[j] = "open" /\ ended'[j] = {"in", "out"})
  PROVE  Fine'
<1>1. /\ \A F : Followed(toExit, Frame("OPEN", j), F) => Followed(toExit', Frame("OPEN", j), F)
      /\ \A F : Followed(toExit, Frame("UDP_ASSOC", j), F) => Followed(toExit', Frame("UDP_ASSOC", j), F)
      /\ Has(toExit', Frame("OPEN", j)) <=> Has(toExit, Frame("OPEN", j))
      /\ Has(toExit', Frame("UDP_ASSOC", j)) <=> Has(toExit, Frame("UDP_ASSOC", j))
      /\ Ending(toExit', j) <=> Ending(toExit, j)
  BY DEF Same, Signals, Ending, Endings
<1>2. \A f, F : Followed(toClient, f, F) => Followed(toClient', f, F)
  BY Received DEF Types
<1>3. Right(j)
  BY DEF Fine
<1>4. Life(j)'
  BY <1>1, <1>3 DEF Right, Life, upVars, relayVars
<1>5. ASSUME Together' PROVE Agree(j)'
  <2>1. Agree(j)
    BY <1>3, <1>5 DEF Only, Right
  <2> QED BY <1>1, <1>2, <2>1 DEF Agree, ExitWillEnd, ClientWillKnow, ClientWillEnd, upVars, relayVars
<1> QED BY <1>4, <1>5, Others DEF Right

LEMMA FineAfterClient ==
  ASSUME Types, Before, Fine, ClientNext
  PROVE  Fine'
<1> USE DEF Types
<1>1. CASE ClientDown
  <2>1. /\ UNCHANGED <<toExit, nextId, upVars, relayVars>> /\ toClient' = <<>> /\ client' = "down"
        /\ \A i \in Ids : entry'[i] = IF entry[i] = "none" THEN "none" ELSE "gone"
    BY <1>1 DEF ClientDown
  <2>2. ASSUME NEW i \in Ids PROVE Right(i)'
    <3>1. Life(i)
      BY DEF Fine, Right
    <3>2. Life(i)'
      BY <2>1, <3>1 DEF Life, upVars, relayVars
    <3> QED BY <2>1, <3>2 DEF Right, Together
  <2> QED BY <2>1, <2>2 DEF Fine
<1>2. CASE OnMsg2
  <2>1. /\ toClient # <<>> /\ Head(toClient) = Frame("MSG2", 0) /\ toClient' = Tail(toClient)
        /\ UNCHANGED <<exit, toExit, clientVars, upVars, relayVars>> /\ client = "hello"
    BY <1>2 DEF OnMsg2, Finishes, Took, Welcome
  <2>2. Together' => Together
    BY <2>1 DEF Together
  <2>3. ASSUME NEW i \in Ids PROVE Right(i)'
    <3>1. Same(toClient, toClient', i)
      <4>1. "MSG2" \notin Signals
        BY DEF Signals
      <4> QED BY <2>1, <4>1, SameReceived
    <3>2. Same(toExit, toExit', i)
      BY <2>1 DEF Same
    <3>3. /\ entry'[i] = entry[i] /\ ended'[i] = ended[i] /\ up'[i] = up[i] /\ relay'[i] = relay[i]
          /\ i \in tracked' <=> i \in tracked
          /\ i >= nextId' <=> i >= nextId
      BY <2>1 DEF clientVars, upVars, relayVars
    <3>4. Right(i)
      BY DEF Fine
    <3> QED BY <2>2, <3>1, <3>2, <3>3, <3>4, Untouched
  <2> QED BY <2>1, <2>3 DEF Fine
<1>3. CASE OpenStream
  <2>1. PICK j \in Ids : j = nextId
    BY <1>3 DEF OpenStream, CanAllocate
  <2>2. /\ CanAllocate /\ nextId' = nextId + 1
        /\ entry'[j] = "opening" /\ \A i \in Ids \ {j} : entry'[i] = entry[i]
        /\ ClientSends(<<Frame("OPEN", nextId)>>) /\ UNCHANGED <<toClient, ended, upVars, relayVars>>
    BY <1>3, <2>1 DEF OpenStream, TypeOK
  <2>3. <<"OPEN", "opening">> \in {<<"OPEN", "opening">>, <<"UDP_ASSOC", "relay">>}
    OBVIOUS
  <2> QED BY <2>1, <2>2, <2>3, AllocateIsFine
<1>4. CASE OpenRelay
  <2>1. PICK j \in Ids : j = nextId
    BY <1>4 DEF OpenRelay, CanAllocate
  <2>2. /\ CanAllocate /\ nextId' = nextId + 1
        /\ entry'[j] = "relay" /\ \A i \in Ids \ {j} : entry'[i] = entry[i]
        /\ ClientSends(<<Frame("UDP_ASSOC", nextId)>>) /\ UNCHANGED <<toClient, ended, upVars, relayVars>>
    BY <1>4, <2>1 DEF OpenRelay, TypeOK
  <2>3. <<"UDP_ASSOC", "relay">> \in {<<"OPEN", "opening">>, <<"UDP_ASSOC", "relay">>}
    OBVIOUS
  <2> QED BY <2>1, <2>2, <2>3, AllocateIsFine
\* What is sent or read of a stream that is no signal.
<1>5. ASSUME NEW j \in Ids, NEW t \in {"DATA", "UDP_DATA", "END"}, ClientSends(<<Frame(t, j)>>),
             UNCHANGED <<toClient, nextId, entry, upVars, relayVars>>,
             \A i \in Ids : ended'[i] \in {ended[i], ended[i] \cup {"out"}},
             \A i \in Ids \ {j} : ended'[i] = ended[i]
      PROVE  Fine'
  <2>1. toExit' = toExit \o <<Frame(t, j)>> /\ UNCHANGED <<client, exit, cut>>
    BY <1>5 DEF ClientSends
  <2>2. Only(j)
    BY <1>5, <2>1 DEF Only, Speaks, Names, Together, upVars, relayVars
  <2>3. Same(toExit, toExit', j) /\ Same(toClient, toClient', j)
    <3>1. t \in Names /\ t \notin Signals
      BY DEF Names, Signals
    <3>2. Same(toExit, toExit', j)
      BY <2>1, <3>1, SameSent
    <3> QED BY <1>5, <3>2 DEF Same
  <2>4. ended[j] = {"in", "out"} => ended'[j] = {"in", "out"}
    BY <1>5
  <2> QED BY <1>5, <2>2, <2>3, <2>4, Plain DEF upVars, relayVars
<1>6. ASSUME NEW j \in Ids, NEW t \in {"DATA", "UDP_DATA", "END"}, ClientReads(t, j), ClientSends(<<>>),
             UNCHANGED <<nextId, entry>>,
             \A i \in Ids : ended'[i] \in {ended[i], ended[i] \cup {"in"}},
             \A i \in Ids \ {j} : ended'[i] = ended[i]
      PROVE  Fine'
  <2>1. toExit' = toExit /\ UNCHANGED <<client, exit, cut, upVars, relayVars>>
    BY <1>6, QueueTypes DEF ClientSends, ClientReads
  <2>2. toClient # <<>> /\ Head(toClient) = Frame(t, j) /\ toClient' = Tail(toClient)
    BY <1>6 DEF ClientReads, Took
  <2>3. Only(j)
    BY <1>6, <2>1, <2>2 DEF Only, Speaks, Names, Together, upVars, relayVars
  <2>4. Same(toExit, toExit', j) /\ Same(toClient, toClient', j)
    <3>1. t \notin Signals
      BY DEF Signals
    <3>2. Same(toClient, toClient', j)
      BY <2>2, <3>1, SameReceived
    <3> QED BY <2>1, <3>2 DEF Same
  <2>5. ended[j] = {"in", "out"} => ended'[j] = {"in", "out"}
    BY <1>6
  <2> QED BY <1>6, <2>1, <2>3, <2>4, <2>5, Plain DEF upVars, relayVars
<1>7. ASSUME NEW j \in Ids, StreamEnds(j) PROVE Fine'
  BY <1>7, ForgetIsFine DEF StreamEnds, Speaks
<1>8. ASSUME NEW j \in Ids, Write(j) PROVE Fine'
  BY <1>1, <1>5, <1>8 DEF Write, clientVars
<1>9. ASSUME NEW j \in Ids, SendDatagram(j) PROVE Fine'
  BY <1>5, <1>9 DEF SendDatagram, clientVars
<1>10. ASSUME NEW j \in Ids, Final(j) PROVE Fine'
  <2>1. /\ \A i \in Ids : ended'[i] \in {ended[i], ended[i] \cup {"out"}}
        /\ \A i \in Ids \ {j} : ended'[i] = ended[i]
    BY <1>10 DEF Final
  <2> QED BY <1>5, <1>10, <2>1 DEF Final
<1>11. ASSUME NEW j \in Ids, OnReply(j) PROVE Fine'
  <2>1. CASE Silent /\ (ClientReads("DATA", j) \/ ClientReads("UDP_DATA", j))
    BY <1>6, <2>1 DEF Silent
  <2>2. CASE ClientReads("DATA", j) /\ entry[j] = "open" /\ Forget(j, <<>>) /\ UNCHANGED <<nextId, ended>>
    <3>1. Speaks(toClient, toClient', j)
      BY <2>2 DEF ClientReads, Took, Speaks, Names
    <3> QED BY <2>2, <3>1, ForgetIsFine DEF ClientReads
  <2> QED BY <1>11, <2>1, <2>2 DEF OnReply
<1>12. ASSUME NEW j \in Ids, OnPeerEnd(j) PROVE Fine'
  <2>1. /\ \A i \in Ids : ended'[i] \in {ended[i], ended[i] \cup {"in"}}
        /\ \A i \in Ids \ {j} : ended'[i] = ended[i]
    BY <1>12 DEF OnPeerEnd
  <2> QED BY <1>6, <1>12, <2>1 DEF OnPeerEnd
<1>13. ASSUME NEW j \in Ids, OnPeerClose(j) PROVE Fine'
  <2>1. /\ toClient # <<>> /\ Head(toClient) = Frame("CLOSE", j) /\ toClient' = Tail(toClient)
        /\ UNCHANGED <<upVars, relayVars>>
    BY <1>13 DEF OnPeerClose, ClientReads, Took
  <2>2. Speaks(toClient, toClient', j)
    BY <2>1 DEF Speaks, Names
  <2>3. CASE entry[j] \in {"none", "gone"} /\ Silent
    <3>1. toExit' = toExit /\ UNCHANGED <<client, exit, nextId, entry, ended>>
      BY <2>3, QueueTypes DEF Silent, ClientSends
    <3>2. Only(j)
      BY <2>1, <2>2, <3>1 DEF Only, Speaks, Together, upVars, relayVars
    <3>3. Same(toExit, toExit', j)
      BY <3>1 DEF Same
    <3>4. /\ UNCHANGED <<nextId, entry, upVars, relayVars>>
          /\ entry[j] \in {"none", "gone"} \/ (entry[j] = "open" /\ ended'[j] = {"in", "out"})
      BY <2>1, <2>3, <3>1
    <3> HIDE DEF Types
    <3> QED BY <2>1, <3>2, <3>3, <3>4, PeerCloseIsFine
  <2>4. CASE entry[j] \in {"opening", "relay"} /\ Forget(j, <<>>) /\ UNCHANGED <<nextId, ended>>
    BY <2>1, <2>2, <2>4, ForgetIsFine
  <2>5. CASE /\ entry[j] = "open"
             /\ ended' = [ended EXCEPT ![j] = {"in", "out"}]
             /\ ClientSends(IF "out" \in ended[j] THEN <<>> ELSE <<Frame("END", j)>>)
             /\ UNCHANGED <<nextId, entry, answer>>
    <3>1. /\ toExit' \in {toExit, toExit \o <<Frame("END", j)>>}
          /\ UNCHANGED <<client, exit, nextId, entry>>
          /\ ended'[j] = {"in", "out"} /\ \A i \in Ids \ {j} : ended'[i] = ended[i]
      BY <2>5, QueueTypes DEF ClientSends
    <3>2. Only(j)
      BY <2>1, <2>2, <3>1 DEF Only, Speaks, Names, Together, upVars, relayVars
    <3>3. Same(toExit, toExit', j)
      <4>1. Same(toExit, toExit \o <<Frame("END", j)>>, j)
        BY SameSent DEF Names, Signals
      <4> QED BY <3>1, <4>1 DEF Same
    <3> QED BY <2>1, <2>5, <3>1, <3>2, <3>3, PeerCloseIsFine
  <2> QED BY <1>13, <2>3, <2>4, <2>5 DEF OnPeerClose
<1> QED BY <1>1, <1>2, <1>3, <1>4, <1>7, <1>8, <1>9, <1>10, <1>11, <1>12, <1>13,
        OpenOkIsFine DEF ClientNext, ClientReadsNext, HandshakeFails, PingExpires, ClientSeesClose

-----------------------------------------------------------------------------
(* The exit's steps.                                                        *)

\* A session that is killed has nobody to agree with.
LEMMA KillIsFine ==
  ASSUME Types, Fine, Kill
  PROVE  Fine'
<1>1. /\ exit' = "down" /\ toExit' = <<>> /\ tracked' = {}
      /\ UNCHANGED <<toClient, nextId, entry>>
      /\ \A i \in Ids : relay'[i] # "open"
  BY DEF Kill, KillHeld, clientVars
<1>2. ASSUME NEW i \in Ids PROVE Right(i)'
  <2>1. Life(i)
    BY DEF Fine, Right
  <2>2. ~Has(toExit', Frame("OPEN", i)) /\ ~Has(toExit', Frame("UDP_ASSOC", i)) /\ ~Ending(toExit', i)
    BY <1>1, NothingSent DEF Ending
  <2>3. Life(i)'
    BY <1>1, <2>1, <2>2 DEF Life
  <2> QED BY <1>1, <2>3 DEF Right, Together
<1> QED BY <1>1, <1>2 DEF Fine, Types

\* A client that is told of the end of a stream or a relay is right in whatever it waits for.
LEMMA CloseToldIsFine ==
  ASSUME Types, Fine, NEW j \in Ids, Only(j),
         Together' => toClient' = toClient \o <<Frame("CLOSE", j)>>,
         \/ toExit' = toExit
         \/ (toExit # <<>> /\ Head(toExit) \notin Endings(j) /\ toExit' = Tail(toExit)),
         UNCHANGED <<nextId, entry>>,
         j \in tracked' => j \in tracked, relay'[j] = "open" => relay[j] = "open"
  PROVE  Fine'
<1>1. /\ \A f : Has(toExit', f) => Has(toExit, f)
      /\ Ending(toExit', j) <=> Ending(toExit, j)
      /\ \A f, F : Followed(toExit, f, F) => Followed(toExit', f, F)
  <2>1. CASE toExit' = toExit
    BY <2>1
  <2>2. CASE toExit # <<>> /\ Head(toExit) \notin Endings(j) /\ toExit' = Tail(toExit)
    <3>1. /\ \A f : Has(toExit, f) <=> Has(toExit', f) \/ f = Head(toExit)
          /\ \A f, F : Followed(toExit, f, F) => Followed(toExit', f, F)
      BY <2>2, Received DEF Types
    <3> QED BY <2>2, <3>1 DEF Ending
  <2> QED BY <2>1, <2>2
<1>2. Right(j)
  BY DEF Fine
<1>3. Life(j)'
  BY <1>1, <1>2 DEF Right, Life
<1>4. ASSUME Together' PROVE Agree(j)'
  <2>1. Agree(j)
    BY <1>2, <1>4 DEF Only, Right
  <2>2. ExitWillEnd(j)'
    BY <1>1, <2>1 DEF Agree, ExitWillEnd
  <2>3. /\ Has(toClient', Frame("CLOSE", j))
        /\ Followed(toClient', Frame("OPEN_OK", j), {Frame("CLOSE", j)})
    <3>1. Frame("CLOSE", j) \in Frames /\ Frame("CLOSE", j) # Frame("OPEN_OK", j)
      BY QueueTypes, FramesDiffer DEF Types, Names
    <3>2. toClient' = toClient \o <<Frame("CLOSE", j)>> /\ toClient \in Seq(Frames)
      BY <1>4 DEF Types
    <3> DEFINE close == Frame("CLOSE", j)
          F == {close}
    <3>3. close \in F
      OBVIOUS
    <3> HIDE DEF close, F
    <3>4. Has(toClient', close) /\ Followed(toClient', Frame("OPEN_OK", j), F)
      BY <3>1, <3>2, <3>3, Sent DEF close
    <3> QED BY <3>4 DEF close, F
  <2> QED BY <2>2, <2>3 DEF Agree, ClientWillKnow, ClientWillEnd
<1> QED BY <1>3, <1>4, Others DEF Right

\* The answer to an open that the client may have given up meanwhile.
LEMMA UpConnectsIsFine ==
  ASSUME Types, NothingIsOrphaned, Before, Fine, NEW j \in Ids, UpConnects(j)
  PROVE  Fine'
<1>1. j \in tracked /\ exit = "up"
  BY DEF UpConnects, NothingIsOrphaned, Live, Before, Types, TypeOK
<1>2. /\ toClient' = toClient \o <<Frame("OPEN_OK", j)>>
      /\ UNCHANGED <<client, exit, cut, toExit, nextId, entry, ended, tracked, relay>>
      /\ \A i \in Ids \ {j} : up'[i] = up[i]
  BY <1>1 DEF UpConnects, Reply, clientVars, relayVars, Types, TypeOK
<1>3. Only(j)
  BY <1>2 DEF Only, Speaks, Names, Together
<1>4. /\ Has(toClient', Frame("OPEN_OK", j))
      /\ Has(toClient, Frame("CLOSE", j)) => Has(toClient', Frame("CLOSE", j))
  <2>1. Frame("OPEN_OK", j) \in Frames
    BY QueueTypes DEF Types, Names
  <2> QED BY <1>2, <2>1, Sent DEF Types
<1>5. Right(j)
  BY DEF Fine
<1>6. Life(j)'
  BY <1>2, <1>5 DEF Right, Life
<1>7. ASSUME Together' PROVE Agree(j)'
  <2>1. Agree(j)
    BY <1>3, <1>5, <1>7 DEF Only, Right
  <2> QED BY <1>1, <1>2, <1>4, <2>1 DEF Agree, ExitWillEnd, ClientWillKnow, ClientWillEnd
<1> QED BY <1>3, <1>6, <1>7, Others DEF Right

\* The frame the exit reads, and what is behind it.
LEMMA ExitTakes ==
  ASSUME Types, NEW t \in Names, NEW j \in Ids, ExitReads(t, j), Answers(<<>>)
  PROVE  /\ exit = "up" /\ toExit' = Tail(toExit) /\ toClient' = toClient
         /\ UNCHANGED <<client, exit, cut, nextId, entry, answer, ended, budget>>
         /\ Speaks(toExit, toExit', j) /\ Speaks(toClient, toClient', j)
         /\ \A f : Has(toExit, f) <=> Has(toExit', f) \/ f = Frame(t, j)
         /\ \A f, F : Followed(toExit, f, F) => Followed(toExit', f, F)
         /\ Followed(toExit, Frame(t, j), Endings(j)) => Ending(toExit', j)
         /\ Ending(toExit', j) => Ending(toExit, j)
<1>1. toExit # <<>> /\ Head(toExit) = Frame(t, j) /\ toExit' = Tail(toExit)
  BY DEF ExitReads, Answers
<1>2. toClient' = toClient /\ UNCHANGED <<client, exit, cut, nextId, entry, answer, ended, budget>>
  BY QueueTypes DEF Answers, Types, clientVars
<1>3. /\ \A f : Has(toExit, f) <=> Has(toExit', f) \/ f = Frame(t, j)
      /\ \A f, F : Followed(toExit, f, F) => Followed(toExit', f, F)
      /\ Followed(toExit, Frame(t, j), Endings(j)) => Ending(toExit', j)
  <2>1. /\ \A f : Has(toExit, f) <=> Has(toExit', f) \/ f = Head(toExit)
        /\ \A f, F : Followed(toExit, f, F) => Followed(toExit', f, F)
        /\ \A F : Followed(toExit, Head(toExit), F) => \E f \in F : Has(toExit', f)
    BY <1>1, Received DEF Types
  <2> QED BY <1>1, <2>1 DEF Ending
<1>4. Ending(toExit', j) => Ending(toExit, j)
  BY <1>3 DEF Ending
<1> QED BY <1>1, <1>2, <1>3, <1>4 DEF ExitReads, Speaks

\* What is opened for a stream that was given up meanwhile ends by the frame behind it.
LEMMA DialIsFine ==
  ASSUME Types, Fine, NEW j \in Ids, ExitReads("OPEN", j), Answers(<<>>),
         up' = [up EXCEPT ![j] = "dialing"], tracked' = tracked \cup {j}, UNCHANGED relayVars
  PROVE  Fine'
<1>1. /\ exit = "up" /\ toClient' = toClient
      /\ UNCHANGED <<client, exit, cut, nextId, entry, answer, ended, budget>>
      /\ Speaks(toExit, toExit', j) /\ Speaks(toClient, toClient', j)
      /\ \A f : Has(toExit, f) <=> Has(toExit', f) \/ f = Frame("OPEN", j)
      /\ \A f, F : Followed(toExit, f, F) => Followed(toExit', f, F)
      /\ Followed(toExit, Frame("OPEN", j), Endings(j)) => Ending(toExit', j)
      /\ Ending(toExit', j) => Ending(toExit, j)
  BY ExitTakes DEF Names
<1>2. /\ up'[j] = "dialing" /\ j \in tracked' /\ relay' = relay
      /\ \A i \in Ids \ {j} : up'[i] = up[i] /\ (i \in tracked' <=> i \in tracked)
  BY DEF Types, TypeOK, relayVars
<1>3. Only(j)
  BY <1>1, <1>2 DEF Only, Together
<1>4. Right(j)
  BY DEF Fine
<1>5. Has(toExit, Frame("OPEN", j)) /\ Frame("UDP_ASSOC", j) # Frame("OPEN", j)
  BY <1>1, FramesDiffer
<1>6. Life(j)'
  BY <1>1, <1>2, <1>4, <1>5 DEF Right, Life
<1>7. ASSUME Together' PROVE Agree(j)'
  <2>1. Agree(j)
    BY <1>3, <1>4, <1>7 DEF Only, Right
  <2> QED BY <1>1, <1>2, <1>5, <2>1 DEF Agree, ExitWillEnd, ClientWillKnow, ClientWillEnd
<1> QED BY <1>3, <1>6, <1>7, Others DEF Right

LEMMA AssocIsFine ==
  ASSUME Types, Fine, NEW j \in Ids, ExitReads("UDP_ASSOC", j), Answers(<<>>),
         relay' = [relay EXCEPT ![j] = "open"], UNCHANGED upVars
  PROVE  Fine'
<1>1. /\ exit = "up" /\ toClient' = toClient
      /\ UNCHANGED <<client, exit, cut, nextId, entry, answer, ended, budget>>
      /\ Speaks(toExit, toExit', j) /\ Speaks(toClient, toClient', j)
      /\ \A f : Has(toExit, f) <=> Has(toExit', f) \/ f = Frame("UDP_ASSOC", j)
      /\ \A f, F : Followed(toExit, f, F) => Followed(toExit', f, F)
      /\ Followed(toExit, Frame("UDP_ASSOC", j), Endings(j)) => Ending(toExit', j)
      /\ Ending(toExit', j) => Ending(toExit, j)
  BY ExitTakes DEF Names
<1>2. /\ relay'[j] = "open" /\ UNCHANGED <<up, tracked>>
      /\ \A i \in Ids \ {j} : relay'[i] = relay[i]
  BY DEF Types, TypeOK, upVars
<1>3. Only(j)
  BY <1>1, <1>2 DEF Only, Together
<1>4. Right(j)
  BY DEF Fine
<1>5. Has(toExit, Frame("UDP_ASSOC", j)) /\ Frame("UDP_ASSOC", j) # Frame("OPEN", j)
  BY <1>1, FramesDiffer
<1>6. Life(j)'
  BY <1>1, <1>2, <1>4, <1>5 DEF Right, Life
<1>7. ASSUME Together' PROVE Agree(j)'
  <2>1. Agree(j) /\ entry[j] \in {"relay", "gone"}
    BY <1>3, <1>4, <1>5, <1>7 DEF Only, Right, Life
  <2> QED BY <1>1, <1>2, <1>5, <2>1 DEF Agree, ExitWillEnd, ClientWillKnow, ClientWillEnd
<1> QED BY <1>3, <1>6, <1>7, Others DEF Right

\* The end of a stream or a relay reaches the exit after the client has given it up.
LEMMA CloseIsFine ==
  ASSUME Types, Fine, NEW j \in Ids, OnClose(j)
  PROVE  Fine'
<1>1. PICK t \in {"CLOSE", "UDP_CLOSE"} : ExitReads(t, j)
  BY DEF OnClose
<1>2. /\ exit = "up" /\ toClient' = toClient
      /\ UNCHANGED <<client, exit, cut, nextId, entry, answer, ended, budget>>
      /\ Speaks(toExit, toExit', j) /\ Speaks(toClient, toClient', j)
      /\ \A f : Has(toExit, f) <=> Has(toExit', f) \/ f = Frame(t, j)
      /\ \A f, F : Followed(toExit, f, F) => Followed(toExit', f, F)
      /\ Ending(toExit', j) => Ending(toExit, j)
  BY <1>1, ExitTakes DEF OnClose, Names
<1>3. /\ tracked' = tracked \ {j} /\ relay'[j] # "open"
      /\ \A i \in Ids \ {j} : up'[i] = up[i] /\ relay'[i] = relay[i]
  BY DEF OnClose, Destroyed, RelayEnds, Types, TypeOK
<1>4. Only(j)
  BY <1>2, <1>3 DEF Only, Together
<1>5. Right(j) /\ entry[j] = "gone"
  BY <1>2 DEF Fine, Right, Life, Ending, Endings
<1>6. Life(j)'
  BY <1>2, <1>3, <1>5 DEF Right, Life
<1>7. ASSUME Together' PROVE Agree(j)'
  <2>1. Agree(j)
    BY <1>4, <1>5, <1>7 DEF Only, Right
  <2> QED BY <1>2, <1>3, <1>5, <2>1 DEF Agree, ExitWillEnd, ClientWillKnow, ClientWillEnd
<1> QED BY <1>4, <1>6, <1>7, Others DEF Right

\* The handshake is over: both sides are there, and nothing was opened before.
LEMMA Msg1IsFine ==
  ASSUME Types, Before, Fine, OnMsg1, ~Kill
  PROVE  Fine'
<1>1. /\ exit = "pending" /\ toExit # <<>> /\ toExit' = Tail(toExit)
      /\ toClient' = Append(toClient, Welcome)
      /\ UNCHANGED <<client, cut, nextId, entry, tracked, relay, up>>
  BY DEF OnMsg1, clientVars, upVars, relayVars
<1>2. toClient = <<>> /\ client # "up" /\ (client = "hello" => nextId = 1)
  BY <1>1 DEF Before
<1>3. Welcome \in Frames /\ toClient' = toClient \o <<Welcome>> /\ toExit' \in Seq(Frames) /\ toClient' \in Seq(Frames)
  <2>1. Welcome \in Frames
    BY DEF Welcome, Frame, Frames, Names
  <2> QED BY <1>1, <2>1 DEF Types
<1>4. ASSUME NEW i \in Ids PROVE Right(i)'
  <2>1. Life(i)
    BY DEF Fine, Right
  <2>2. \A f : Has(toExit', f) => Has(toExit, f)
    BY <1>1, Received DEF Types
  <2>3. Life(i)'
    BY <1>1, <2>1, <2>2 DEF Life, Ending
  <2>4. ASSUME Together' PROVE Agree(i)'
    <3>1. entry'[i] = "none"
      <4>1. nextId = 1 /\ i \in Nat /\ i >= 1
        BY <1>1, <1>2, <2>4 DEF Together, Ids, Types, TypeOK
      <4> QED BY <1>1, <2>1, <4>1 DEF Life
    <3>2. Followed(toClient', Frame("OPEN_OK", i), {Frame("CLOSE", i)})
      <4>1. Frame("OPEN_OK", i) # Welcome
        BY FramesDiffer DEF Welcome
      <4>2. Followed(toClient, Frame("OPEN_OK", i), {Frame("CLOSE", i)})
        BY <1>2, NothingSent
      <4> QED BY <1>3, <4>1, <4>2, Sent DEF Types
    <3> QED BY <3>1, <3>2 DEF Agree, ExitWillEnd, ClientWillKnow, ClientWillEnd
  <2> QED BY <2>3, <2>4 DEF Right
<1> QED BY <1>3, <1>4 DEF Fine

LEMMA FineAfterExit ==
  ASSUME Types, NothingIsOrphaned, Before, Fine, ExitNext
  PROVE  Fine'
<1>1. CASE Kill
  BY <1>1, KillIsFine
\* Steps that send and read no signal.
<1>2. ASSUME NEW j \in Ids, UNCHANGED <<client, exit, cut, nextId, entry, ended, tracked, relay>>,
             Speaks(toExit, toExit', j), Speaks(toClient, toClient', j),
             Same(toExit, toExit', j), Same(toClient, toClient', j),
             \A i \in Ids : up'[i] = up[i] \/ (i = j /\ up'[i] = "closing")
      PROVE  Fine'
  <2>1. Only(j)
    BY <1>2 DEF Only, Together
  <2>2. up[j] \in {"dialing", "closing"} => up'[j] \in {"dialing", "closing"}
    BY <1>2
  <2> QED BY <1>2, <2>1, <2>2, Plain
<1>3. ASSUME NEW j \in Ids, NEW t \in {"DATA", "UDP_DATA", "END"}, Reply(<<Frame(t, j)>>),
             UNCHANGED <<nextId, entry, ended, tracked, relay>>,
             \A i \in Ids : up'[i] = up[i] \/ (i = j /\ up'[i] = "closing")
      PROVE  Fine'
  <2>1. toClient' \in {toClient, toClient \o <<Frame(t, j)>>} /\ UNCHANGED <<client, exit, cut, toExit>>
    BY <1>3 DEF Reply
  <2>2. t \in Names /\ t \notin Signals
    BY DEF Names, Signals
  <2>3. Same(toClient, toClient \o <<Frame(t, j)>>, j)
    BY <2>2, SameSent DEF Types
  <2>4. Speaks(toExit, toExit', j) /\ Same(toExit, toExit', j)
    BY <2>1 DEF Speaks, Same
  <2>5. Speaks(toClient, toClient', j) /\ Same(toClient, toClient', j)
    BY <2>1, <2>2, <2>3 DEF Speaks, Same
  <2> QED BY <1>2, <1>3, <2>1, <2>4, <2>5
<1>4. ASSUME NEW j \in Ids, NEW t \in {"DATA", "UDP_DATA", "END"}, ExitReads(t, j), Answers(<<>>),
             UNCHANGED <<tracked, relay>>,
             \A i \in Ids : up'[i] = up[i] \/ (i = j /\ up'[i] = "closing")
      PROVE  Fine'
  <2>1. t \in Names /\ t \notin Signals
    BY DEF Names, Signals
  <2>2. /\ Speaks(toExit, toExit', j) /\ Speaks(toClient, toClient', j) /\ toClient' = toClient
        /\ UNCHANGED <<client, exit, cut, nextId, entry, ended>>
    BY <1>4, <2>1, ExitTakes
  <2>3. Same(toExit, toExit', j)
    BY <1>4, <2>1, SameReceived DEF Types, ExitReads, Answers
  <2>4. Same(toClient, toClient', j)
    BY <2>2 DEF Same
  <2> QED BY <1>2, <1>4, <2>2, <2>3, <2>4
\* Steps that tell the client of an end.
<1>5. ASSUME NEW j \in Ids, NEW t \in {"OPEN", "UDP_ASSOC", "UDP_DATA"}, ExitReads(t, j),
             Answers(<<Frame("CLOSE", j)>>), UNCHANGED <<up, tracked>>,
             \A i \in Ids : relay'[i] = relay[i] \/ (i = j /\ relay'[i] = "closed")
      PROVE  Fine'
  <2>1. /\ toExit # <<>> /\ Head(toExit) = Frame(t, j) /\ toExit' = Tail(toExit)
        /\ toClient' = toClient \o <<Frame("CLOSE", j)>>
        /\ UNCHANGED <<client, exit, cut, nextId, entry, ended>>
    BY <1>5 DEF ExitReads, Answers, clientVars
  <2>2. t \in Names /\ Head(toExit) \notin Endings(j)
    BY <2>1, FramesDiffer DEF Names, Endings
  <2>3. Only(j)
    BY <1>5, <2>1, <2>2 DEF Only, Speaks, Together, Names
  <2>4. relay'[j] = "open" => relay[j] = "open"
    BY <1>5
  <2>5. UNCHANGED <<nextId, entry>> /\ (j \in tracked' => j \in tracked)
    BY <1>5, <2>1
  <2> QED BY <2>1, <2>2, <2>3, <2>4, <2>5, CloseToldIsFine
<1>6. ASSUME NEW j \in Ids, Reply(<<Frame("CLOSE", j)>>), UNCHANGED clientVars,
             tracked' \in {tracked, tracked \ {j}},
             \A i \in Ids \ {j} : up'[i] = up[i],
             \A i \in Ids : relay'[i] = relay[i] \/ (i = j /\ relay'[i] = "closed")
      PROVE  Fine'
  <2>1. /\ toClient' = IF exit = "up" THEN toClient \o <<Frame("CLOSE", j)>> ELSE toClient
        /\ UNCHANGED <<client, exit, cut, toExit, nextId, entry, ended>>
    BY <1>6 DEF Reply, clientVars
  <2>2. Speaks(toExit, toExit', j) /\ Speaks(toClient, toClient', j)
    BY <2>1 DEF Speaks, Names
  <2>3. Only(j)
    BY <1>6, <2>1, <2>2 DEF Only, Together
  <2>4. Together' => toClient' = toClient \o <<Frame("CLOSE", j)>>
    BY <2>1 DEF Together
  <2>5. /\ relay'[j] = "open" => relay[j] = "open"
        /\ UNCHANGED <<nextId, entry>> /\ (j \in tracked' => j \in tracked)
    BY <1>6, <2>1
  <2> QED BY <2>1, <2>3, <2>4, <2>5, CloseToldIsFine
<1>7. CASE Accept
  <2>1. CASE /\ exit' = "pending" /\ exit = "waiting"
             /\ UNCHANGED <<client, cut, toExit, toClient, clientVars, upVars, relayVars, budget>>
    <3>1. ASSUME NEW i \in Ids PROVE Right(i)'
      <4>1. Life(i)
        BY DEF Fine, Right
      <4> QED BY <2>1, <4>1 DEF Right, Life, Together, clientVars, upVars, relayVars
    <3> QED BY <2>1, <3>1 DEF Fine
  <2> QED BY <1>1, <1>7, <2>1 DEF Accept
<1>8. CASE OnMsg1
  BY <1>1, <1>8, Msg1IsFine
<1>9. ASSUME NEW j \in Ids, UpFails(j) \/ UpDrains(j) \/ Resolved(j) PROVE Fine'
  <2>1. UNCHANGED <<line, nextId, entry, ended, tracked, relay>>
    BY <1>9 DEF UpFails, UpDrains, Resolved, clientVars, upVars, relayVars
  <2>2. \A i \in Ids : up'[i] = up[i] \/ (i = j /\ up'[i] = "closing")
    BY <1>9 DEF UpFails, Destroyed, UpDrains, Resolved, upVars, Types, TypeOK
  <2>3. Speaks(toExit, toExit', j) /\ Speaks(toClient, toClient', j)
        /\ Same(toExit, toExit', j) /\ Same(toClient, toClient', j)
    BY <2>1 DEF Speaks, Same, line
  <2> QED BY <1>2, <2>1, <2>2, <2>3 DEF line
<1>10. ASSUME NEW j \in Ids, NEW h, EndHalf(j, h)
       PROVE  \A i \in Ids : up'[i] = up[i] \/ (i = j /\ up'[i] = "closing")
  <2> DEFINE both == half[j] \cup {h} = {"in", "out"}
  <2>1. up' = [up EXCEPT ![j] = IF both /\ @ = "open" THEN "closing" ELSE @]
    BY <1>10 DEF EndHalf
  <2> HIDE DEF both
  <2> QED BY <2>1 DEF Types, TypeOK
<1>11. ASSUME NEW j \in Ids, UpSends(j) PROVE Fine'
  BY <1>3, <1>11 DEF UpSends, clientVars, upVars, relayVars
<1>12. ASSUME NEW j \in Ids, UpEnds(j) PROVE Fine'
  BY <1>3, <1>10, <1>12 DEF UpEnds, clientVars, relayVars
<1>13. ASSUME NEW j \in Ids, UpClosed(j) PROVE Fine'
  <2>1. \A i \in Ids \ {j} : up'[i] = up[i]
    BY <1>13 DEF UpClosed, Types, TypeOK
  <2> QED BY <1>6, <1>13, <2>1 DEF UpClosed, relayVars
<1>14. ASSUME NEW j \in Ids, RelayEnds(j)
       PROVE  \A i \in Ids : relay'[i] = relay[i] \/ (i = j /\ relay'[i] = "closed")
  BY <1>14 DEF RelayEnds, Types, TypeOK
<1>15. ASSUME NEW j \in Ids, Unresolved(j) \/ UdpFails(j) PROVE Fine'
  <2>1. Reply(<<Frame("CLOSE", j)>>) /\ RelayEnds(j) /\ UNCHANGED <<clientVars, up, tracked>>
    BY <1>15 DEF Unresolved, UdpFails, upVars
  <2> QED BY <1>6, <1>14, <2>1
<1>16. ASSUME NEW j \in Ids, UdpAnswers(j) PROVE Fine'
  BY <1>1, <1>3, <1>16 DEF UdpAnswers, clientVars, upVars, relayVars
<1>17. ASSUME NEW j \in Ids, OnOpen(j) PROVE Fine'
  <2>1. CASE Refuses(j)
    BY <1>5, <1>17, <2>1 DEF OnOpen, Refuses, upVars, relayVars
  <2>2. CASE up' = [up EXCEPT ![j] = "dialing"] /\ tracked' = tracked \cup {j}
             /\ Answers(<<>>) /\ UNCHANGED <<half, full, paused, relayVars>>
    BY <1>17, <2>2, DialIsFine DEF OnOpen
  <2> QED BY <1>1, <1>17, <2>1, <2>2 DEF OnOpen
<1>18. ASSUME NEW j \in Ids, OnAssoc(j) PROVE Fine'
  <2>1. CASE Refuses(j)
    BY <1>5, <1>18, <2>1 DEF OnAssoc, Refuses, upVars, relayVars
  <2>2. CASE relay' = [relay EXCEPT ![j] = "open"]
             /\ Answers(<<>>) /\ UNCHANGED <<upVars, looking, udp>>
    BY <1>18, <2>2, AssocIsFine DEF OnAssoc
  <2> QED BY <1>1, <1>18, <2>1, <2>2 DEF OnAssoc
<1>19. ASSUME NEW j \in Ids, OnData(j) PROVE Fine'
  <2>1. \A i \in Ids : up'[i] = up[i] \/ (i = j /\ up'[i] = "closing")
    BY <1>19 DEF OnData, Destroyed, Types, TypeOK
  <2> QED BY <1>4, <1>19, <2>1 DEF OnData, relayVars
<1>20. ASSUME NEW j \in Ids, OnEnd(j) PROVE Fine'
  <2>1. \A i \in Ids : up'[i] = up[i] \/ (i = j /\ up'[i] = "closing")
    BY <1>10, <1>20 DEF OnEnd
  <2> QED BY <1>4, <1>20, <2>1 DEF OnEnd, relayVars
<1>21. ASSUME NEW j \in Ids, OnDatagram(j) PROVE Fine'
  <2>1. CASE Refuses(j)
    BY <1>5, <1>21, <2>1 DEF OnDatagram, Refuses, upVars, relayVars
  <2>2. CASE RelayEnds(j) /\ Answers(<<Frame("CLOSE", j)>>) /\ UNCHANGED <<upVars, looking>>
    BY <1>5, <1>14, <1>21, <2>2 DEF OnDatagram, upVars
  <2>3. CASE Answers(<<>>) /\ UNCHANGED <<upVars, relay, udp>>
    BY <1>4, <1>21, <2>3 DEF OnDatagram, upVars
  <2> QED BY <1>21, <2>1, <2>2, <2>3 DEF OnDatagram
<1> QED BY <1>1, <1>7, <1>8, <1>9, <1>11, <1>12, <1>13, <1>15, <1>16, <1>17, <1>18, <1>19, <1>20, <1>21,
           CloseIsFine, UpConnectsIsFine
        DEF ExitNext, ExitReadsNext, Deadline, ExitSeesClose, ExitIdle

-----------------------------------------------------------------------------
(* What the exit owns, and the handshake.                                   *)

\* What a step of the client leaves alone.
LEMMA ClientLeaves ==
  ASSUME Types, ClientNext
  PROVE  UNCHANGED <<exit, upVars, relayVars>>
<1> USE DEF ClientSends, clientVars
<1>1. ClientDown => UNCHANGED <<exit, upVars, relayVars>>
  BY DEF ClientDown
<1>2. OnMsg2 \/ OpenStream \/ OpenRelay => UNCHANGED <<exit, upVars, relayVars>>
  BY DEF OnMsg2, OpenStream, OpenRelay
<1>3. ASSUME NEW i \in Ids, StreamEnds(i) \/ Write(i) \/ SendDatagram(i) \/ Final(i)
      PROVE  UNCHANGED <<exit, upVars, relayVars>>
  BY <1>1, <1>3 DEF StreamEnds, Forget, Write, SendDatagram, Final
<1>4. ASSUME NEW i \in Ids, OnOpenOk(i) \/ OnReply(i) \/ OnPeerEnd(i) \/ OnPeerClose(i)
      PROVE  UNCHANGED <<exit, upVars, relayVars>>
  BY <1>4 DEF OnOpenOk, OnReply, OnPeerEnd, OnPeerClose, ClientReads, Silent, Forget
<1> QED BY <1>1, <1>2, <1>3, <1>4
        DEF ClientNext, ClientReadsNext, HandshakeFails, PingExpires, ClientSeesClose

LEMMA KillOrphansNothing ==
  ASSUME Types, NothingIsOrphaned, Kill
  PROVE  NothingIsOrphaned'
  BY DEF Types, TypeOK, NothingIsOrphaned, Live, Kill, KillHeld

LEMMA NothingOrphanedByExit ==
  ASSUME Types, NothingIsOrphaned, Before, ExitNext
  PROVE  NothingIsOrphaned'
<1> USE DEF Types, TypeOK, NothingIsOrphaned, Live
<1>1. CASE Kill
  BY <1>1, KillOrphansNothing
\* Steps that touch no relay.
<1>2. ASSUME UNCHANGED <<exit, relay, udp>>, exit = "down" => tracked' = {},
             \A i \in Ids : up'[i] \in {"dialing", "open"} => i \in tracked'
      PROVE  NothingIsOrphaned'
  BY <1>2
\* Steps that touch no socket.
<1>3. ASSUME UNCHANGED <<exit, up, tracked>>, exit = "down" => udp' = {},
             \A i \in udp' : relay'[i] = "open"
      PROVE  NothingIsOrphaned'
  BY <1>3
<1>4. CASE Accept
  BY <1>1, <1>4 DEF Accept, upVars, relayVars
<1>5. CASE OnMsg1
  BY <1>1, <1>5 DEF OnMsg1, upVars, relayVars
<1>6. ASSUME NEW j \in Ids, RelayEnds(j)
      PROVE  /\ exit = "down" => udp' = {}
             /\ \A i \in udp' : relay'[i] = "open"
  BY <1>6 DEF RelayEnds
<1>7. ASSUME NEW j \in Ids, NEW h, EndHalf(j, h)
      PROVE  \A i \in Ids : up'[i] \in {"dialing", "open"} => up[i] \in {"dialing", "open"}
  <2> DEFINE both == half[j] \cup {h} = {"in", "out"}
  <2>1. up' = [up EXCEPT ![j] = IF both /\ @ = "open" THEN "closing" ELSE @]
    BY <1>7 DEF EndHalf
  <2> HIDE DEF both
  <2> QED BY <2>1
<1>8. ASSUME NEW j \in Ids, UpConnects(j) PROVE NothingIsOrphaned'
  BY <1>2, <1>8 DEF UpConnects, Reply, relayVars
<1>9. ASSUME NEW j \in Ids, UpFails(j) \/ UpSends(j) \/ UpDrains(j) PROVE NothingIsOrphaned'
  BY <1>2, <1>9 DEF UpFails, Destroyed, UpSends, UpDrains, Reply, line, upVars, relayVars
<1>10. ASSUME NEW j \in Ids, UpEnds(j) PROVE NothingIsOrphaned'
  BY <1>2, <1>7, <1>10 DEF UpEnds, Reply, relayVars
<1>11. ASSUME NEW j \in Ids, UpClosed(j) PROVE NothingIsOrphaned'
  BY <1>2, <1>11 DEF UpClosed, Reply, relayVars
<1>12. ASSUME NEW j \in Ids, Resolved(j) PROVE NothingIsOrphaned'
  BY <1>3, <1>12 DEF Resolved, Usable, line, upVars
<1>13. ASSUME NEW j \in Ids, Unresolved(j) \/ UdpFails(j) PROVE NothingIsOrphaned'
  BY <1>3, <1>6, <1>13 DEF Unresolved, UdpFails, Reply, upVars
<1>14. ASSUME NEW j \in Ids, UdpAnswers(j) PROVE NothingIsOrphaned'
  BY <1>1, <1>14 DEF UdpAnswers, Reply, upVars, relayVars
<1>15. ASSUME NEW j \in Ids, OnOpen(j) PROVE NothingIsOrphaned'
  BY <1>1, <1>2, <1>15 DEF OnOpen, ExitReads, Refuses, Answers, upVars, relayVars
<1>16. ASSUME NEW j \in Ids, OnAssoc(j) PROVE NothingIsOrphaned'
  BY <1>1, <1>3, <1>16 DEF OnAssoc, ExitReads, Refuses, Answers, upVars, relayVars
<1>17. ASSUME NEW j \in Ids, OnData(j) PROVE NothingIsOrphaned'
  BY <1>2, <1>17 DEF OnData, Answers, Destroyed, relayVars
<1>18. ASSUME NEW j \in Ids, OnEnd(j) PROVE NothingIsOrphaned'
  BY <1>2, <1>7, <1>18 DEF OnEnd, Answers, relayVars
<1>19. ASSUME NEW j \in Ids, OnClose(j) PROVE NothingIsOrphaned'
  BY <1>6, <1>19 DEF OnClose, ExitReads, Answers, Destroyed
<1>20. ASSUME NEW j \in Ids, OnDatagram(j) PROVE NothingIsOrphaned'
  BY <1>3, <1>6, <1>20 DEF OnDatagram, Refuses, Answers, upVars, relayVars
<1> QED BY <1>1, <1>4, <1>5, <1>8, <1>9, <1>10, <1>11, <1>12, <1>13, <1>14, <1>15, <1>16, <1>17, <1>18,
           <1>19, <1>20
        DEF ExitNext, ExitReadsNext, Deadline, ExitSeesClose, ExitIdle

LEMMA BeforeStep ==
  ASSUME Types, NothingIsOrphaned, Before, Next
  PROVE  Before'
<1> USE DEF Before
<1>1. CASE ClientNext
  <2>1. exit' = exit /\ tracked' = tracked /\ up' = up
    BY <1>1, ClientLeaves DEF upVars
  <2>2. client' = "hello" => client = "hello" /\ nextId' = nextId
    <3> USE DEF ClientSends, clientVars
    <3>1. ~(ClientDown /\ client' = "hello")
      BY DEF ClientDown
    <3>2. OnMsg2 \/ OpenStream \/ OpenRelay => client' # "hello"
      BY DEF OnMsg2, Finishes, OpenStream, OpenRelay, CanAllocate
    <3>3. ASSUME NEW i \in Ids, StreamEnds(i) \/ Write(i) \/ SendDatagram(i) \/ Final(i) PROVE client' # "hello"
      BY <3>1, <3>3 DEF StreamEnds, Forget, Write, SendDatagram, Final
    <3>4. ASSUME NEW i \in Ids, OnOpenOk(i) \/ OnReply(i) \/ OnPeerEnd(i) \/ OnPeerClose(i)
          PROVE  client' # "hello"
      BY <3>4 DEF OnOpenOk, OnReply, OnPeerEnd, OnPeerClose, ClientReads, Silent, Forget
    <3> QED BY <1>1, <3>1, <3>2, <3>3, <3>4
            DEF ClientNext, ClientReadsNext, HandshakeFails, PingExpires, ClientSeesClose
  <2>3. client # "up" /\ toClient = <<>> => client' # "up" /\ toClient' = <<>>
    <3> USE DEF ClientSends
    <3>1. ClientDown => client' # "up" /\ toClient' = <<>>
      BY DEF ClientDown
    <3>2. OnMsg2 => toClient # <<>>
      BY DEF OnMsg2
    <3>3. OpenStream \/ OpenRelay => client = "up"
      BY DEF OpenStream, OpenRelay, CanAllocate
    <3>4. ASSUME NEW i \in Ids, StreamEnds(i) \/ Write(i) \/ SendDatagram(i) \/ Final(i) PROVE client = "up"
      BY <3>4 DEF StreamEnds, Write, SendDatagram, Final
    <3>5. ASSUME NEW i \in Ids, OnOpenOk(i) \/ OnReply(i) \/ OnPeerEnd(i) \/ OnPeerClose(i) PROVE client = "up"
      BY <3>5 DEF OnOpenOk, OnReply, OnPeerEnd, OnPeerClose, ClientReads
    <3> QED BY <1>1, <3>1, <3>2, <3>3, <3>4, <3>5
            DEF ClientNext, ClientReadsNext, HandshakeFails, PingExpires, ClientSeesClose
  <2> QED BY <2>1, <2>2, <2>3
<1>2. CASE ExitNext
  <2>1. CASE Kill
    BY <2>1 DEF Kill, clientVars
  <2>2. CASE Accept \/ OnMsg1
    BY <2>1, <2>2 DEF Accept, OnMsg1, clientVars, upVars
  <2>3. ASSUME NEW j \in Ids, ~Kill,
               \/ UpConnects(j) \/ UpFails(j) \/ UpSends(j) \/ UpEnds(j) \/ UpClosed(j) \/ UpDrains(j)
               \/ Resolved(j) \/ Unresolved(j) \/ UdpFails(j) \/ UdpAnswers(j)
        PROVE  Before'
    <3>1. \/ UNCHANGED line
          \/ \E f : Reply(f)
      BY <2>3 DEF UpConnects, UpFails, UpSends, UpEnds, UpClosed, UpDrains, Resolved, Unresolved, UdpFails, UdpAnswers
    <3>2. UNCHANGED <<client, exit>> /\ (exit # "up" => toClient' = toClient)
      BY <3>1 DEF Reply, line
    <3>3. UNCHANGED clientVars
      BY <2>3 DEF UpConnects, UpFails, UpSends, UpEnds, UpClosed, UpDrains, Resolved, Unresolved, UdpFails, UdpAnswers
    <3>4. up[j] = "none" => UNCHANGED <<up, tracked>>
      BY <2>3 DEF UpConnects, UpFails, UpSends, UpEnds, UpClosed, UpDrains, Resolved, Unresolved, UdpFails, UdpAnswers,
                  Live, upVars
    <3> QED BY <3>2, <3>3, <3>4 DEF clientVars
  <2>4. ASSUME NEW j \in Ids, ~Kill,
               OnOpen(j) \/ OnAssoc(j) \/ OnData(j) \/ OnEnd(j) \/ OnClose(j) \/ OnDatagram(j)
        PROVE  Before'
    <3>1. exit = "up"
      BY <2>4 DEF OnOpen, OnAssoc, OnData, OnEnd, OnClose, OnDatagram, ExitReads
    <3>2. UNCHANGED <<client, exit, clientVars>>
      BY <2>4 DEF OnOpen, OnAssoc, OnData, OnEnd, OnClose, OnDatagram, Refuses, Answers
    <3> QED BY <3>1, <3>2 DEF clientVars
  <2> QED BY <1>2, <2>1, <2>2, <2>3, <2>4
          DEF ExitNext, ExitReadsNext, Deadline, ExitSeesClose, ExitIdle
<1>3. CASE Cut
  BY <1>3 DEF Cut, clientVars, upVars
<1> QED BY <1>1, <1>2, <1>3 DEF Next

-----------------------------------------------------------------------------

LEMMA IInvInit == Init => IInv
<1> SUFFICES ASSUME Init PROVE IInv
  OBVIOUS
<1>1. Types
  <2>1. Hello \in Frames
    BY DEF Hello, Frame, Frames, Names
  <2>2. TypeOK
    <3>1. MaxId \in Nat /\ MaxData \in Nat
      OBVIOUS
    <3>2. nextId \in 1 .. (MaxId + 1) /\ budget \in Nat
      BY <3>1 DEF Init
    <3> QED BY <3>2 DEF Init, TypeOK
  <2> QED BY <2>1, <2>2 DEF Init, Types
<1>2. NothingIsOrphaned /\ Before
  BY DEF Init, NothingIsOrphaned, Live, Before
<1>3. ASSUME NEW i \in Ids PROVE Right(i)
  <2>1. i >= nextId
    BY DEF Init, Ids
  <2>2. \A t \in Signals : ~Has(toExit, Frame(t, i))
    <3>1. \A t \in Signals : Frame(t, i) # Hello
      BY FramesDiffer DEF Hello, Signals
    <3> QED BY <3>1 DEF Init, Has
  <2>3. Life(i)
    BY <2>1, <2>2 DEF Init, Life, Ending, Endings, Signals
  <2> QED BY <2>3 DEF Init, Right, Together
<1> QED BY <1>1, <1>2, <1>3 DEF IInv

LEMMA IInvStep == IInv /\ [Next]_vars => IInv'
<1> SUFFICES ASSUME IInv, [Next]_vars PROVE IInv'
  OBVIOUS
<1>1. Types /\ NothingIsOrphaned /\ Before /\ Fine
  BY DEF IInv, Fine, Types
<1>2. CASE ClientNext
  <2>1. NothingIsOrphaned'
    BY <1>1, <1>2, ClientLeaves DEF upVars, relayVars, NothingIsOrphaned, Live
  <2>2. Types' /\ Fine'
    BY <1>1, <1>2, TypesOfClient, FineAfterClient DEF Types, Fine
  <2>3. Before'
    BY <1>1, <1>2, BeforeStep DEF Next
  <2> QED BY <2>1, <2>2, <2>3 DEF IInv, Fine
<1>3. CASE ExitNext
  <2>1. NothingIsOrphaned'
    BY <1>1, <1>3, NothingOrphanedByExit
  <2>2. Types' /\ Fine'
    BY <1>1, <1>3, TypesOfExit, FineAfterExit DEF Types, Fine
  <2>3. Before'
    BY <1>1, <1>3, BeforeStep DEF Next
  <2> QED BY <2>1, <2>2, <2>3 DEF IInv, Fine
<1>4. CASE Cut \/ UNCHANGED vars
  <2>1. /\ UNCHANGED <<client, exit, toExit, toClient, clientVars, upVars, relayVars, budget>>
        /\ cut' \in {cut, TRUE}
    BY <1>4 DEF Cut, vars, line
  <2>2. Types'
    BY <1>1, <2>1 DEF Types, TypeOK, clientVars, upVars, relayVars
  <2>3. NothingIsOrphaned' /\ Before'
    BY <1>1, <2>1 DEF NothingIsOrphaned, Live, Before, clientVars, upVars, relayVars
  <2>4. ASSUME NEW i \in Ids PROVE Right(i)'
    <3>1. Same(toExit, toExit', i) /\ Same(toClient, toClient', i)
      BY <2>1 DEF Same
    <3>2. Right(i) /\ (Together' => Together)
      BY <1>1, <2>1 DEF Fine, Together
    <3>3. /\ UNCHANGED <<nextId, entry, ended, up, tracked, relay>>
      BY <2>1 DEF clientVars, upVars, relayVars
    <3> QED BY <3>1, <3>2, <3>3, Untouched
  <2> QED BY <2>2, <2>3, <2>4 DEF IInv
<1> QED BY <1>2, <1>3, <1>4 DEF Next

\* What TLC checks on the run's instance holds for every bound: the types, ...
THEOREM TypeCorrect == Spec => []TypeOK
<1>1. IInv => TypeOK
  BY DEF IInv, Types
<1> QED BY <1>1, IInvInit, IInvStep, PTL DEF Spec

\* ... that the exit owns no socket its maps do not hold, although a connection
\* is made and a name is looked up while the stream, the relay or the session ends
\* (exit-session.mjs:60 and :98), ...
THEOREM NothingIsOrphanedHolds == Spec => []NothingIsOrphaned
<1>1. IInv => NothingIsOrphaned
  BY DEF IInv
<1> QED BY <1>1, IInvInit, IInvStep, PTL DEF Spec

\* With both queues empty no frame can bring either side what it lacks: both have it.
LEMMA QuietSidesAgree == IInv => SidesAgree
<1> SUFFICES ASSUME IInv, Quiet, NEW i \in Ids
             PROVE  /\ i \in tracked => entry[i] \in {"opening", "open"}
                    /\ relay[i] = "open" <=> entry[i] = "relay"
                    /\ entry[i] = "opening" => up[i] = "dialing"
                    /\ entry[i] = "open" /\ ended[i] # {"in", "out"} => i \in tracked
  BY DEF SidesAgree
<1>1. Together /\ toExit = <<>> /\ toClient = <<>> /\ up[i] # "closing"
  BY DEF Quiet, Together
<1>2. Life(i) /\ Agree(i)
  BY <1>1 DEF IInv, Right
<1>3. \A f : ~Has(toExit, f) /\ ~Has(toClient, f)
  BY <1>1, NothingSent
<1> QED BY <1>1, <1>2, <1>3 DEF Life, Agree, ExitWillEnd, ClientWillKnow, ClientWillEnd, Ending

\* ... and that when nothing is under way both sides hold the same streams and relays,
\* whichever of them ended what and when (native-client.mjs and exit-session.mjs).
THEOREM SidesAgreeHolds == Spec => []SidesAgree
  BY IInvInit, IInvStep, QuietSidesAgree, PTL DEF Spec

=============================================================================
