------------------------------ MODULE UdpSess ------------------------------
(***************************************************************************)
(* The reliable stream over UDP (src/udpsess.mjs): a client's stream, the  *)
(* exit's demultiplexer of one port, and a network that loses, repeats,    *)
(* delays and reorders datagrams: what was once sent may arrive at any     *)
(* later time, any number of times, or never.                              *)
(*                                                                         *)
(* End 0 is the client's stream; end i > 0 is the i-th stream the exit     *)
(* opened for the client's conversation number.  A close tells the peer    *)
(* nothing, so a delayed HELLO can open a stream for a conversation whose  *)
(* first stream is gone.  Acknowledgements are cumulative: the unacked map *)
(* of an end holds exactly base .. nextSend - 1, and the queue the rest of *)
(* what was written.  Payloads are <<writer, position>>; datagrams that no *)
(* peer of this program sends are left out.                                *)
(***************************************************************************)
EXTENDS Integers, Sequences

CONSTANTS
  Window,      \* WINDOW, the fragments in flight
  MaxRetry,    \* the retransmissions of a fragment before the stream gives up
  SeqEnd,      \* the sequence number no fragment may have
  QueueLimit,  \* the fragments that may wait for the window
  MaxOpened,   \* bound: the streams the exit opens for the conversation
  MaxWrites    \* bound: MaxWrites[e] fragments are written by end e

ASSUME UdpAssumption ==
  /\ Window \in Nat \ {0} /\ MaxRetry \in Nat /\ SeqEnd \in Nat \ {0} /\ QueueLimit \in Nat
  /\ MaxOpened \in Nat \ {0} /\ MaxWrites \in [0..MaxOpened -> Nat]

Client == 0
Exits == 1..MaxOpened
Ends == 0..MaxOpened
Numbers(e) == 1..MaxWrites[e]
Some == UNION {Numbers(e) : e \in Ends}

VARIABLES
  phase,      \* phase[e]: "none", "hello" (the client's handshake), "open", "closed"
  refused,    \* the ends that closed on a datagram their checks refuse
  written,    \* written[e]: the fragments handed to write
  base,       \* base[e]: the lowest sequence number not acknowledged
  nextSend,   \* nextSend[e]: the next fragment to send for the first time
  retries,    \* retries[e][s]: the retransmissions of fragment s
  nextRecv,   \* nextRecv[e]: the next fragment e may hand to its owner
  recvBuf,    \* recvBuf[e]: the fragments that came early, <<number, payload>>
  delivered,  \* delivered[e]: the payloads emitted to the owner of e
  net,        \* every datagram ever sent
  entry,      \* the stream the exit's map holds for the conversation, 0 if none
  opened,     \* how many the exit has opened for it
  quiet       \* neither a datagram nor a write for idleMs, at that stream

sendVars == <<written, base, nextSend, retries>>
recvVars == <<nextRecv, recvBuf, delivered>>
muxVars == <<entry, opened, quiet>>
vars == <<phase, refused, sendVars, recvVars, net, muxVars>>

Hello == [cmd |-> "HELLO"]
HelloAck == [cmd |-> "HELLO_ACK"]
Psh(e, s) == [cmd |-> "PSH", from |-> e, seq |-> s, payload |-> <<e, s>>]
Ack(e, n) == [cmd |-> "ACK", from |-> e, next |-> n]

Live(e) == phase[e] \in {"hello", "open"}
Smaller(a, b) == IF a < b THEN a ELSE b
Larger(a, b) == IF a < b THEN b ELSE a

Init ==
  /\ phase = [e \in Ends |-> IF e = Client THEN "hello" ELSE "none"]
  /\ refused = {}
  /\ written = [e \in Ends |-> 0]
  /\ base = [e \in Ends |-> 1]
  /\ nextSend = [e \in Ends |-> 1]
  /\ retries = [e \in Ends |-> [s \in Numbers(e) |-> 0]]
  /\ nextRecv = [e \in Ends |-> 1]
  /\ recvBuf = [e \in Ends |-> {}]
  /\ delivered = [e \in Ends |-> <<>>]
  /\ net = {}
  /\ entry = 0 /\ opened = 0 /\ quiet = FALSE

-----------------------------------------------------------------------------
(* One end.                                                                 *)

\* A stream that closes leaves the exit's map, and tells its peer nothing.
Leave(e) == entry' = IF e = entry THEN 0 ELSE entry

Destroy(e) ==
  /\ phase' = [phase EXCEPT ![e] = "closed"]
  /\ retries' = [retries EXCEPT ![e] = [s \in Numbers(e) |-> 0]]
  /\ recvBuf' = [recvBuf EXCEPT ![e] = {}]
  /\ Leave(e)

Close(e) == Destroy(e) /\ UNCHANGED refused
Refuse(e) == Destroy(e) /\ refused' = refused \cup {e}

StayOpen == UNCHANGED <<phase, refused, retries, recvBuf, entry>>

\* Variant: fragments in flight are not counted.
RoomForAll(e) == written[e] - (nextSend[e] - 1)

\* What the window lets e send for the first time.
Room(e) == Smaller(Window - (nextSend[e] - base[e]), written[e] - (nextSend[e] - 1))

Exhausted(e) ==
  nextSend[e] >= SeqEnd \/ nextRecv[e] >= SeqEnd \/ nextSend[e] + Room(e) > SeqEnd

\* A fragment due once more has used up its retransmissions.
GivesUp(e, due) == \E s \in due : retries[e][s] = MaxRetry

\* Variant: retransmissions are not counted.
CountedNever(e, due) == retries[e]

Counted(e, due) == [s \in Numbers(e) |-> retries[e][s] + (IF s \in due THEN 1 ELSE 0)]

\* The tick of e, in which the fragments of due have waited longer than the RTO.
Tick(e, due) ==
  /\ Live(e)
  /\ due \subseteq base[e]..(nextSend[e] - 1)
  /\ IF Exhausted(e)
       THEN Close(e) /\ UNCHANGED <<nextSend, net>>
       ELSE /\ nextSend' = [nextSend EXCEPT ![e] = @ + Room(e)]
            /\ net' = net \cup {Psh(e, s) : s \in nextSend[e]..(nextSend[e] + Room(e) - 1)}
                          \cup (IF phase[e] = "hello" THEN {Hello} ELSE {})
            /\ IF GivesUp(e, due)
                 THEN Close(e)
                 ELSE /\ retries' = [retries EXCEPT ![e] = Counted(e, due)]
                      /\ UNCHANGED <<phase, refused, recvBuf, entry>>
  /\ UNCHANGED <<written, base, nextRecv, delivered, opened, quiet>>

\* The owner writes n fragments: the client's once the handshake is over, the
\* exit's once it has read (the client's session speaks first).
MayWrite(e) == phase[e] = "open" /\ (e = Client \/ delivered[e] # <<>>)

Write(e, n) ==
  /\ MayWrite(e) /\ written[e] + n <= MaxWrites[e]
  /\ quiet' = (quiet /\ e # entry)
  /\ IF written[e] - (nextSend[e] - 1) + n > QueueLimit
       THEN Close(e) /\ UNCHANGED written
       ELSE written' = [written EXCEPT ![e] = @ + n] /\ StayOpen
  /\ UNCHANGED <<base, nextSend, nextRecv, delivered, net, opened>>

\* The session on top, or the socket's error, destroys the stream.
OwnerCloses(e) ==
  /\ Live(e)
  /\ Close(e)
  /\ UNCHANGED <<written, base, nextSend, nextRecv, delivered, net, opened, quiet>>

\* A datagram of the peer reaches e: the exit's through its map.
Reaches(e, m) ==
  /\ m \in net /\ m.cmd \in {"PSH", "ACK"} /\ Live(e)
  /\ IF m.from = Client THEN e = entry /\ e # Client ELSE e = Client
  /\ quiet' = (quiet /\ e # entry)

\* An acknowledgement of what e never sent.
Unsent(e, n) == n > nextSend[e]

OnAck(e, m) ==
  /\ Reaches(e, m) /\ m.cmd = "ACK"
  /\ IF Unsent(e, m.next)
       THEN Refuse(e) /\ UNCHANGED base
       ELSE base' = [base EXCEPT ![e] = Larger(@, m.next)] /\ StayOpen
  /\ UNCHANGED <<written, nextSend, nextRecv, delivered, net, opened>>

Early(e) == {f[1] : f \in recvBuf[e]}

\* What fragment m releases up to number n: itself and what came early.
Released(e, m, n) ==
  [i \in 1..(n - m.seq + 1) |->
     IF i = 1 THEN m.payload ELSE (CHOOSE f \in recvBuf[e] : f[1] = m.seq + i - 1)[2]]

BeyondWindow(e, m) == m.seq >= nextRecv[e] + Window
Repeated(e, m) == m.seq < nextRecv[e] \/ m.seq \in Early(e)

\* Variant: whatever has not come yet is handed over.
TurnAny(e, m) == m.seq >= nextRecv[e]

\* It is the turn of fragment m.
Turn(e, m) == m.seq = nextRecv[e]

\* Variant: a fragment that came early is acknowledged at once.
ExpectedAfter(e, m) == Larger(nextRecv[e], m.seq + 1)

Expected(e, m) == nextRecv[e]

\* A fragment outside the window, a repeated one, and one that is kept for later.
OnOtherPsh(e, m) ==
  /\ Reaches(e, m) /\ m.cmd = "PSH"
  /\ \/ BeyondWindow(e, m) /\ Refuse(e) /\ UNCHANGED net
     \/ ~BeyondWindow(e, m) /\ Repeated(e, m)
        /\ net' = net \cup {Ack(e, Expected(e, m))} /\ StayOpen
     \/ ~BeyondWindow(e, m) /\ ~Repeated(e, m) /\ ~Turn(e, m)
        /\ recvBuf' = [recvBuf EXCEPT ![e] = @ \cup {<<m.seq, m.payload>>}]
        /\ net' = net \cup {Ack(e, Expected(e, m))}
        /\ UNCHANGED <<phase, refused, retries, entry>>
  /\ UNCHANGED <<written, base, nextSend, nextRecv, delivered, opened>>

\* The fragment e waits for is emitted, with those it releases; the owner may
\* destroy the stream while it takes the n-th, and the rest is dropped.
OnNextPsh(e, m, n) ==
  /\ Reaches(e, m) /\ m.cmd = "PSH"
  /\ ~BeyondWindow(e, m) /\ ~Repeated(e, m) /\ Turn(e, m)
  /\ n >= m.seq /\ (m.seq + 1)..n \subseteq Early(e)
  /\ delivered' = [delivered EXCEPT ![e] = @ \o Released(e, m, n)]
  /\ nextRecv' = [nextRecv EXCEPT ![e] = n + 1]
  /\ \/ /\ n + 1 \notin Early(e)
        /\ recvBuf' = [recvBuf EXCEPT ![e] = {f \in @ : f[1] > n}]
        /\ UNCHANGED <<phase, refused, retries, entry>>
     \/ Close(e)
  /\ net' = net \cup {Ack(e, n + 1)}
  /\ UNCHANGED <<written, base, nextSend, opened>>

-----------------------------------------------------------------------------
(* The handshake and the exit's map.                                        *)

OnHelloAck ==
  /\ HelloAck \in net /\ phase[Client] = "hello"
  /\ phase' = [phase EXCEPT ![Client] = "open"]
  /\ UNCHANGED <<refused, sendVars, recvVars, net, muxVars>>

HelloTimeout ==
  /\ phase[Client] = "hello"
  /\ Close(Client)
  /\ UNCHANGED <<written, base, nextSend, nextRecv, delivered, net, opened, quiet>>

\* Every HELLO is answered, and one of a conversation the map does not hold opens
\* a stream; when the streams of other conversations fill the map, it is ignored.
Known == entry # 0

OnHello ==
  /\ Hello \in net
  /\ net' = net \cup {HelloAck}
  /\ \/ Known /\ UNCHANGED <<phase, entry, opened, quiet>>
     \/ /\ ~Known /\ opened < MaxOpened
        /\ opened' = opened + 1 /\ entry' = opened + 1 /\ quiet' = FALSE
        /\ phase' = [phase EXCEPT ![opened + 1] = "open"]
  /\ UNCHANGED <<refused, sendVars, recvVars>>

\* idleMs pass without a datagram or a write, and the sweep destroys the stream.
IdlePasses ==
  /\ entry # 0 /\ quiet' = TRUE
  /\ UNCHANGED <<phase, refused, sendVars, recvVars, net, entry, opened>>

EvictIdle ==
  /\ entry # 0 /\ quiet
  /\ Close(entry)
  /\ UNCHANGED <<written, base, nextSend, nextRecv, delivered, net, opened, quiet>>

Receive(e, m) == OnAck(e, m) \/ OnOtherPsh(e, m) \/ \E n \in Some : OnNextPsh(e, m, n)

Next ==
  \/ \E e \in Ends : (\E due \in SUBSET Numbers(e) : Tick(e, due))
  \/ \E e \in Ends : \E n \in Numbers(e) : Write(e, n)
  \/ \E e \in Ends : OwnerCloses(e)
  \/ \E e \in Ends : \E m \in net : Receive(e, m)
  \/ OnHelloAck \/ HelloTimeout \/ OnHello
  \/ IdlePasses \/ EvictIdle

\* Ticks come for every fragment, the handshake's timer fires, the sweep runs;
\* the network owes nothing.
Fairness ==
  /\ \A e \in Ends : WF_vars(base[e] < nextSend[e] /\ Tick(e, base[e]..(nextSend[e] - 1)))
  /\ \A e \in Ends : WF_vars(Room(e) > 0 /\ Tick(e, {}))
  /\ WF_vars(HelloTimeout) /\ WF_vars(IdlePasses) /\ WF_vars(EvictIdle)

Spec == Init /\ [][Next]_vars /\ Fairness
-----------------------------------------------------------------------------
(* What the stream promises.                                                *)

TypeOK ==
  /\ phase \in [Ends -> {"none", "hello", "open", "closed"}]
  /\ refused \subseteq Ends
  /\ written \in [Ends -> Nat]
  /\ base \in [Ends -> Nat \ {0}] /\ nextSend \in [Ends -> Nat \ {0}]
  /\ nextRecv \in [Ends -> Nat \ {0}]
  /\ \A e \in Ends : retries[e] \in [Numbers(e) -> Nat]
  /\ recvBuf \in [Ends -> SUBSET (Nat \X (Ends \X Nat))]
  /\ delivered \in [Ends -> Seq(Ends \X Nat)]
  /\ entry \in Ends /\ opened \in Ends /\ quiet \in BOOLEAN

\* What an end has emitted is what its peer wrote, from the first fragment on, in
\* order and once (onDatagram): at the exit in every stream of the conversation,
\* at the client as long as the exit opened one.
Prefix(e, peer) ==
  /\ Len(delivered[e]) <= written[peer]
  /\ \A i \in 1..Len(delivered[e]) : delivered[e][i] = <<peer, i>>

InOrder ==
  /\ \A e \in Exits : Prefix(e, Client)
  /\ opened <= 1 => Prefix(Client, 1)

\* What a sender forgets (onAck) has been emitted at the other end: by one of the
\* exit's streams, and at the client for the first of them.
AckedIsDelivered ==
  /\ base[Client] > 1 => \E e \in Exits : base[Client] <= nextRecv[e]
  /\ base[1] <= nextRecv[Client]

\* The checks of the window and of the acknowledgements never break the stream of
\* a client, or the first stream the exit opened for it, whatever is lost,
\* repeated or late: they catch the later streams of a conversation only.
HonestPeersAgree == Client \notin refused /\ 1 \notin refused

\* Again and again nothing is outstanding: what was written is acknowledged or its
\* stream is broken (onTick), whatever the network loses.
WriteSettles == []<>(\A e \in Ends : Live(e) => base[e] > written[e])
============================================================================
