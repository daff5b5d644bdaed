--------------------------- MODULE UdpSess_proofs ---------------------------
(***************************************************************************)
(* Theorems about UdpSess, for any window, limits, number of streams and   *)
(* of fragments: the stream is ordered and loses nothing it acknowledged,  *)
(* and the checks of the window never break the stream of an honest peer.  *)
(*                                                                         *)
(* The inductive invariant ties the counters of the two ends to each other *)
(* through what is in the network: a fragment there was sent, so its       *)
(* number is below nextSend; an acknowledgement there is at most nextRecv  *)
(* of who sent it; and nextRecv never passes nextSend of the other end.    *)
(***************************************************************************)
EXTENDS UdpSess, SequenceTheorems, TLAPS

Phases == {"none", "hello", "open", "closed"}

Types ==
  /\ phase \in [Ends -> Phases]
  /\ refused \subseteq Ends
  /\ written \in [Ends -> Nat]
  /\ base \in [Ends -> Nat \ {0}] /\ nextSend \in [Ends -> Nat \ {0}]
  /\ nextRecv \in [Ends -> Nat \ {0}]
  /\ recvBuf \in [Ends -> SUBSET (Nat \X (Ends \X Nat))]
  /\ delivered \in [Ends -> Seq(Ends \X Nat)]
  /\ entry \in Ends /\ opened \in Ends /\ quiet \in BOOLEAN

Retried == retries \in [Ends -> UNION {[Numbers(e) -> Nat] : e \in Ends}]
           /\ \A e \in Ends : retries[e] \in [Numbers(e) -> Nat]

\* What is in the network was sent.
Datagrams ==
  \A m \in net :
    /\ m.cmd = "PSH" => /\ m.from \in Ends /\ m.seq \in Nat \ {0}
                        /\ m.seq < nextSend[m.from] /\ m.payload = <<m.from, m.seq>>
    /\ m.cmd = "ACK" => /\ m.from \in Ends /\ m.next \in Nat \ {0}
                        /\ m.next <= nextRecv[m.from]

\* A sender keeps to its window and to what was written.
Windows ==
  \A e \in Ends : /\ base[e] <= nextSend[e] /\ nextSend[e] <= written[e] + 1
                  /\ nextSend[e] - base[e] <= Window

\* The map holds the last stream opened, and a stream not opened yet is untouched.
Places ==
  /\ entry # 0 => entry = opened
  /\ \A e \in Exits : e > opened => nextSend[e] = 1 /\ nextRecv[e] = 1 /\ written[e] = 0

\* What e has of peer: everything below nextRecv is emitted, the early ones are kept.
Follows(e, peer) ==
  /\ nextRecv[e] <= nextSend[peer]
  /\ Len(delivered[e]) = nextRecv[e] - 1
  /\ \A i \in 1..(nextRecv[e] - 1) : delivered[e][i] = <<peer, i>>
  /\ \A f \in recvBuf[e] : f[2] = <<peer, f[1]>> /\ f[1] < nextSend[peer]

Received ==
  /\ \A e \in Exits : Follows(e, Client)
  /\ opened <= 1 => Follows(Client, 1)

Acked ==
  /\ base[Client] > 1 => \E e \in Exits : base[Client] <= nextRecv[e]
  /\ \A e \in Exits : base[e] <= nextRecv[Client]

IInv == Types /\ Retried /\ Datagrams /\ Windows /\ Places /\ Received /\ Acked /\ HonestPeersAgree

LEMMA EndsOK == Client \in Ends /\ 1 \in Exits /\ Exits \subseteq Ends /\ Ends \subseteq Nat
                /\ MaxOpened \in Nat \ {0} /\ Window \in Nat \ {0}
                /\ \A e \in Ends : e # Client => e \in Exits
  BY UdpAssumption DEF Client, Exits, Ends

-----------------------------------------------------------------------------
(* Types.                                                                   *)

LEMMA DestroyTypes ==
  ASSUME Types, Retried, NEW e \in Ends, Destroy(e), refused' \subseteq Ends
  PROVE  /\ phase' \in [Ends -> Phases] /\ entry' \in Ends /\ entry' \in {0, entry}
         /\ recvBuf' \in [Ends -> SUBSET (Nat \X (Ends \X Nat))]
         /\ \A d \in Ends : recvBuf'[d] \subseteq recvBuf[d]
         /\ retries' = [retries EXCEPT ![e] = [s \in Numbers(e) |-> 0]]
  BY EndsOK DEF Types, Destroy, Leave, Phases, Client

LEMMA RetriedKept ==
  ASSUME Retried, NEW e \in Ends, NEW r \in [Numbers(e) -> Nat],
         retries' = [retries EXCEPT ![e] = r]
  PROVE  Retried'
  BY Zenon DEF Retried

LEMMA RetriedDestroy ==
  ASSUME Retried, NEW e \in Ends, Destroy(e)
  PROVE  Retried'
<1>1. [s \in Numbers(e) |-> 0] \in [Numbers(e) -> Nat]
  OBVIOUS
<1> QED BY <1>1, RetriedKept DEF Destroy

\* The retransmission counts keep their type.
LEMMA RetriedStep ==
  ASSUME Types, Retried, [Next]_vars
  PROVE  Retried'
<1>1. CASE UNCHANGED retries
  BY <1>1, Zenon DEF Retried
<1>2. CASE \E e \in Ends : Destroy(e)
  BY <1>2, RetriedDestroy
<1>3. ASSUME NEW e \in Ends, NEW due, Tick(e, due), retries' = [retries EXCEPT ![e] = Counted(e, due)]
      PROVE  Retried'
  <2>1. Counted(e, due) \in [Numbers(e) -> Nat]
    BY DEF Counted, Retried
  <2> QED BY <1>3, <2>1, RetriedKept
<1>4. ASSUME NEW e \in Ends, NEW due, Tick(e, due)
      PROVE  UNCHANGED retries \/ Destroy(e) \/ retries' = [retries EXCEPT ![e] = Counted(e, due)]
  BY <1>4, Zenon DEF Tick, Close
<1>5. ASSUME NEW e \in Ends, NEW n, Write(e, n)
      PROVE  UNCHANGED retries \/ Destroy(e)
  BY <1>5, Zenon DEF Write, Close, StayOpen
<1>6. ASSUME NEW e \in Ends, NEW m, Receive(e, m)
      PROVE  UNCHANGED retries \/ Destroy(e)
  BY <1>6, Zenon DEF Receive, OnAck, OnOtherPsh, OnNextPsh, Close, Refuse, StayOpen
<1>7. ASSUME NEW e \in Ends, OwnerCloses(e)
      PROVE  Destroy(e)
  BY <1>7 DEF OwnerCloses, Close
<1>8. HelloTimeout => Destroy(Client)
  BY DEF HelloTimeout, Close
<1>9. EvictIdle => Destroy(entry)
  BY DEF EvictIdle, Close
<1>10. OnHelloAck \/ OnHello \/ IdlePasses \/ UNCHANGED vars => UNCHANGED retries
  BY DEF OnHelloAck, OnHello, IdlePasses, vars, sendVars
<1> QED BY <1>1, <1>2, <1>3, <1>4, <1>5, <1>6, <1>7, <1>8, <1>9, <1>10, EndsOK, Zenon DEF Next, Types

-----------------------------------------------------------------------------
(* The steps that move no fragment, and what the others change.             *)

Quietly ==
  /\ UNCHANGED <<written, base, nextSend, nextRecv, delivered, net, opened, refused>>
  /\ phase' \in [Ends -> Phases] /\ entry' \in {0, entry} /\ quiet' \in BOOLEAN
  /\ recvBuf' \in [Ends -> SUBSET (Nat \X (Ends \X Nat))]
  /\ \A d \in Ends : recvBuf'[d] \subseteq recvBuf[d]

LEMMA QuietSteps ==
  ASSUME Types, Retried,
         UNCHANGED vars \/ (\E e \in Ends : OwnerCloses(e)) \/ OnHelloAck \/ HelloTimeout
           \/ IdlePasses \/ EvictIdle
  PROVE  Quietly
<1>1. CASE UNCHANGED vars
  BY <1>1 DEF vars, sendVars, recvVars, muxVars, Types, Quietly
<1>2. ASSUME NEW e \in Ends, Close(e), quiet' \in BOOLEAN,
             UNCHANGED <<written, base, nextSend, nextRecv, delivered, net, opened>>
      PROVE  Quietly
  BY <1>2, DestroyTypes DEF Close, Quietly, Types
<1>3. CASE \E e \in Ends : OwnerCloses(e)
  BY <1>2, <1>3 DEF OwnerCloses, Types
<1>4. CASE HelloTimeout
  BY <1>2, <1>4, EndsOK DEF HelloTimeout, Types
<1>5. CASE EvictIdle
  BY <1>2, <1>5 DEF EvictIdle, Types
<1>6. CASE OnHelloAck
  BY <1>6 DEF OnHelloAck, sendVars, recvVars, muxVars, Quietly, Types, Phases
<1>7. CASE IdlePasses
  BY <1>7 DEF IdlePasses, sendVars, recvVars, Quietly, Types
<1> QED BY <1>1, <1>3, <1>4, <1>5, <1>6, <1>7

\* A datagram that reaches e.
LEMMA ReachesOK ==
  ASSUME Types, Datagrams, NEW e \in Ends, NEW m, Reaches(e, m)
  PROVE  /\ m \in net /\ quiet' \in BOOLEAN /\ m.from \in Ends
         /\ m.cmd = "PSH" => m.seq \in Nat \ {0} /\ m.seq < nextSend[m.from]
                             /\ m.payload = <<m.from, m.seq>>
         /\ m.cmd = "ACK" => m.next \in Nat \ {0} /\ m.next <= nextRecv[m.from]
         /\ m.from = Client => e \in Exits /\ e = entry
         /\ m.from # Client => e = Client /\ m.from \in Exits
  BY EndsOK DEF Reaches, Datagrams, Types

\* The room of the window is never negative and fits both limits.
LEMMA RoomOK ==
  ASSUME Types, Windows, NEW e \in Ends
  PROVE  /\ Room(e) \in Nat
         /\ nextSend[e] + Room(e) <= written[e] + 1
         /\ nextSend[e] + Room(e) - base[e] <= Window
<1>1. /\ written[e] \in Nat /\ base[e] \in Nat /\ nextSend[e] \in Nat /\ Window \in Nat
      /\ nextSend[e] <= written[e] + 1 /\ nextSend[e] - base[e] <= Window /\ base[e] <= nextSend[e]
  BY EndsOK DEF Types, Windows
<1>2. PICK a \in Int, b \in Int, c \in Int : /\ a = Window - (nextSend[e] - base[e])
                                             /\ b = written[e] - (nextSend[e] - 1)
                                             /\ Room(e) = c /\ c = IF a < b THEN a ELSE b
  BY <1>1 DEF Room, Smaller
<1>3. a >= 0 /\ b >= 0
  BY <1>1, <1>2
<1>4. c \in Nat /\ c <= a /\ c <= b
  BY <1>2, <1>3
<1> QED BY <1>1, <1>2, <1>4

LEMMA TickChanges ==
  ASSUME Types, Retried, Windows, NEW e \in Ends, NEW due, Tick(e, due)
  PROVE  /\ UNCHANGED <<written, base, nextRecv, delivered, opened, quiet, refused>>
         /\ nextSend' = [nextSend EXCEPT ![e] = nextSend'[e]]
         /\ nextSend'[e] \in Nat /\ nextSend'[e] >= nextSend[e]
         /\ nextSend'[e] <= written[e] + 1 /\ nextSend'[e] - base[e] <= Window
         /\ net \subseteq net'
         /\ \A m \in net' \ net : \/ m = Hello
                                  \/ \E s \in nextSend[e]..(nextSend'[e] - 1) : m = Psh(e, s)
         /\ entry' \in {0, entry} /\ phase' \in [Ends -> Phases]
         /\ recvBuf' \in [Ends -> SUBSET (Nat \X (Ends \X Nat))]
         /\ \A d \in Ends : recvBuf'[d] \subseteq recvBuf[d]
<1>1. UNCHANGED <<written, base, nextRecv, delivered, opened, quiet, refused>>
  BY DEF Tick, Close
<1>2. refused' \subseteq Ends
  BY <1>1 DEF Types
<1>3. /\ entry' \in {0, entry} /\ phase' \in [Ends -> Phases]
      /\ recvBuf' \in [Ends -> SUBSET (Nat \X (Ends \X Nat))]
      /\ \A d \in Ends : recvBuf'[d] \subseteq recvBuf[d]
  <2>1. Destroy(e) \/ UNCHANGED <<phase, recvBuf, entry>>
    BY Zenon DEF Tick, Close
  <2>2. CASE UNCHANGED <<phase, recvBuf, entry>>
    BY <2>2 DEF Types
  <2> QED BY <1>2, <2>1, <2>2, DestroyTypes
<1>4. CASE UNCHANGED <<nextSend, net>>
  <2>1. /\ nextSend' = [nextSend EXCEPT ![e] = nextSend'[e]]
        /\ nextSend'[e] \in Nat /\ nextSend'[e] >= nextSend[e]
    BY <1>4 DEF Types
  <2>2. nextSend'[e] <= written[e] + 1 /\ nextSend'[e] - base[e] <= Window
    BY <1>4 DEF Windows
  <2>3. net \subseteq net' /\ net' \ net = {}
    BY <1>4
  <2> QED BY <1>1, <1>3, <2>1, <2>2, <2>3, Zenon
<1>5. CASE /\ nextSend' = [nextSend EXCEPT ![e] = @ + Room(e)]
           /\ net' = net \cup {Psh(e, s) : s \in nextSend[e]..(nextSend[e] + Room(e) - 1)}
                         \cup (IF phase[e] = "hello" THEN {Hello} ELSE {})
  <2>1. nextSend[e] \in Nat \ {0} /\ nextSend'[e] = nextSend[e] + Room(e)
    BY <1>5 DEF Types
  <2>2. nextSend' = [nextSend EXCEPT ![e] = nextSend'[e]]
    BY <1>5, <2>1
  <2>3. net \subseteq net' /\ \A m \in net' \ net : \/ m = Hello
                                  \/ \E s \in nextSend[e]..(nextSend'[e] - 1) : m = Psh(e, s)
    <3>1. nextSend'[e] - 1 = nextSend[e] + Room(e) - 1
      BY <2>1, RoomOK
    <3> HIDE DEF Room
    <3> QED BY <1>5, <3>1, Zenon
  <2>4. /\ nextSend'[e] \in Nat /\ nextSend'[e] >= nextSend[e]
        /\ nextSend'[e] <= written[e] + 1 /\ nextSend'[e] - base[e] <= Window
    <3>1. /\ Room(e) \in Nat /\ nextSend[e] + Room(e) <= written[e] + 1
          /\ nextSend[e] + Room(e) - base[e] <= Window
      BY RoomOK
    <3>2. nextSend'[e] >= nextSend[e]
      BY <2>1, <3>1
    <3>3. nextSend'[e] \in Nat
      BY <2>1, <3>1
    <3>4. nextSend'[e] <= written[e] + 1
      BY <2>1, <3>1
    <3>5. nextSend'[e] - base[e] <= Window
      <4>1. base[e] \in Nat
        BY DEF Types
      <4> QED BY <2>1, <3>1, <4>1
    <3> QED BY <3>2, <3>3, <3>4, <3>5
  <2> QED BY <1>1, <1>3, <2>2, <2>3, <2>4, Zenon
<1> QED BY <1>4, <1>5 DEF Tick

\* A fragment that is written moves nothing else.
LEMMA WriteChanges ==
  ASSUME Types, Retried, NEW e \in Ends, NEW n \in Numbers(e), Write(e, n)
  PROVE  /\ UNCHANGED <<base, nextSend, nextRecv, delivered, net, opened, refused>>
         /\ written' \in [Ends -> Nat] /\ \A d \in Ends : written'[d] >= written[d]
         /\ \A d \in Ends : written'[d] # written[d] => d = e /\ (e = Client \/ delivered[e] # <<>>)
         /\ entry' \in {0, entry} /\ phase' \in [Ends -> Phases] /\ quiet' \in BOOLEAN
         /\ recvBuf' \in [Ends -> SUBSET (Nat \X (Ends \X Nat))]
         /\ \A d \in Ends : recvBuf'[d] \subseteq recvBuf[d]
<1>1. UNCHANGED <<base, nextSend, nextRecv, delivered, net, opened, refused>> /\ quiet' \in BOOLEAN
  BY DEF Write, Close, StayOpen, Types
<1>2. MayWrite(e)
  BY DEF Write
<1>3. CASE Close(e) /\ UNCHANGED written
  <2>1. written' \in [Ends -> Nat] /\ \A d \in Ends : written'[d] >= written[d] /\ written'[d] = written[d]
    BY <1>3 DEF Types
  <2>2. Destroy(e) /\ refused' \subseteq Ends
    BY <1>1, <1>3 DEF Close, Types
  <2> QED BY <1>1, <2>1, <2>2, DestroyTypes, Zenon
<1>4. CASE written' = [written EXCEPT ![e] = @ + n] /\ StayOpen
  <2>1. written[e] \in Nat /\ n \in Nat
    BY UdpAssumption DEF Types, Numbers, Ends
  <2>2. /\ written' \in [Ends -> Nat] /\ \A d \in Ends : written'[d] >= written[d]
        /\ \A d \in Ends : written'[d] # written[d] => d = e
    <3>1. written \in [Ends -> Nat] /\ written' = [written EXCEPT ![e] = written[e] + n]
      BY <1>4 DEF Types
    <3> QED BY <2>1, <3>1
  <2>3. UNCHANGED <<phase, recvBuf, entry>>
    BY <1>4 DEF StayOpen
  <2>4. /\ entry' \in {0, entry} /\ phase' \in [Ends -> Phases]
        /\ recvBuf' \in [Ends -> SUBSET (Nat \X (Ends \X Nat))]
        /\ \A d \in Ends : recvBuf'[d] \subseteq recvBuf[d]
    BY <2>3 DEF Types
  <2> QED BY <1>1, <1>2, <2>2, <2>4, Zenon DEF MayWrite
<1> QED BY <1>3, <1>4 DEF Write

LEMMA AckChanges ==
  ASSUME Types, Retried, Datagrams, NEW e \in Ends, NEW m, OnAck(e, m)
  PROVE  /\ UNCHANGED <<written, nextSend, nextRecv, delivered, net, opened>>
         /\ base' \in [Ends -> Nat \ {0}]
         /\ \A d \in Ends : base'[d] # base[d] => d = e /\ base'[d] = m.next /\ m.next <= nextSend[e]
         /\ refused' = refused \/ (refused' = refused \cup {e} /\ m.next > nextSend[e])
         /\ entry' \in {0, entry} /\ phase' \in [Ends -> Phases] /\ quiet' \in BOOLEAN
         /\ recvBuf' \in [Ends -> SUBSET (Nat \X (Ends \X Nat))]
         /\ \A d \in Ends : recvBuf'[d] \subseteq recvBuf[d]
<1>1. Reaches(e, m) /\ m.cmd = "ACK" /\ m.next \in Nat \ {0} /\ quiet' \in BOOLEAN
  BY ReachesOK DEF OnAck
<1>2. UNCHANGED <<written, nextSend, nextRecv, delivered, net, opened>>
  BY DEF OnAck
<1>3. CASE Unsent(e, m.next) /\ Refuse(e) /\ UNCHANGED base
  BY <1>1, <1>2, <1>3, DestroyTypes DEF Refuse, Types, Unsent
<1>4. CASE ~Unsent(e, m.next) /\ base' = [base EXCEPT ![e] = Larger(@, m.next)] /\ StayOpen
  <2>1. nextSend[e] \in Nat /\ base[e] \in Nat \ {0} /\ m.next <= nextSend[e]
    BY <1>1, <1>4 DEF Types, Unsent
  <2>2. Larger(base[e], m.next) \in {base[e], m.next}
    BY <2>1 DEF Larger
  <2> QED BY <1>1, <1>2, <1>4, <2>1, <2>2 DEF StayOpen, Types
<1> QED BY <1>3, <1>4 DEF OnAck

LEMMA OtherPshChanges ==
  ASSUME Types, Retried, Datagrams, NEW e \in Ends, NEW m, OnOtherPsh(e, m)
  PROVE  /\ UNCHANGED <<written, base, nextSend, nextRecv, delivered, opened>>
         /\ net \subseteq net' /\ \A d \in net' \ net : d = Ack(e, nextRecv[e])
         /\ refused' = refused \/ (refused' = refused \cup {e} /\ BeyondWindow(e, m))
         /\ entry' \in {0, entry} /\ phase' \in [Ends -> Phases] /\ quiet' \in BOOLEAN
         /\ recvBuf' \in [Ends -> SUBSET (Nat \X (Ends \X Nat))]
         /\ \A d \in Ends : \A f \in recvBuf'[d] :
              f \in recvBuf[d] \/ (d = e /\ f = <<m.seq, m.payload>>)
<1>1. /\ Reaches(e, m) /\ m.cmd = "PSH" /\ m.seq \in Nat /\ m.payload \in Ends \X Nat
      /\ quiet' \in BOOLEAN
  <2>1. Reaches(e, m) /\ m.cmd = "PSH"
    BY DEF OnOtherPsh
  <2>2. m.from \in Ends /\ m.seq \in Nat /\ m.payload = <<m.from, m.seq>> /\ quiet' \in BOOLEAN
    BY <2>1, ReachesOK
  <2> QED BY <2>1, <2>2
<1>2. UNCHANGED <<written, base, nextSend, nextRecv, delivered, opened>>
  BY DEF OnOtherPsh
<1>3. CASE BeyondWindow(e, m) /\ Refuse(e) /\ UNCHANGED net
  BY <1>1, <1>2, <1>3, DestroyTypes DEF Refuse, Types
<1>4. CASE net' = net \cup {Ack(e, Expected(e, m))} /\ StayOpen
  BY <1>1, <1>2, <1>4 DEF StayOpen, Types, Expected
<1>5. CASE /\ recvBuf' = [recvBuf EXCEPT ![e] = @ \cup {<<m.seq, m.payload>>}]
           /\ net' = net \cup {Ack(e, Expected(e, m))} /\ UNCHANGED <<phase, refused, retries, entry>>
  <2>1. <<m.seq, m.payload>> \in Nat \X (Ends \X Nat)
    BY <1>1
  <2>2. /\ recvBuf' \in [Ends -> SUBSET (Nat \X (Ends \X Nat))]
        /\ \A d \in Ends : \A f \in recvBuf'[d] :
             f \in recvBuf[d] \/ (d = e /\ f = <<m.seq, m.payload>>)
    BY <1>5, <2>1 DEF Types
  <2>3. net \subseteq net' /\ \A d \in net' \ net : d = Ack(e, nextRecv[e])
    BY <1>5 DEF Expected
  <2>4. entry' \in {0, entry} /\ phase' \in [Ends -> Phases] /\ refused' = refused
    BY <1>5 DEF Types
  <2> QED BY <1>1, <1>2, <2>2, <2>3, <2>4, Zenon
<1> QED BY <1>3, <1>4, <1>5, Zenon DEF OnOtherPsh

\* What reaches e when its turn comes.
LEMMA NextPshFacts ==
  ASSUME Types, Datagrams, NEW e \in Ends, NEW m, NEW n \in Nat, OnNextPsh(e, m, n)
  PROVE  /\ Reaches(e, m) /\ m.cmd = "PSH" /\ m.seq \in Nat \ {0} /\ m.from \in Ends
         /\ m.seq = nextRecv[e] /\ m.seq < nextSend[m.from] /\ nextSend[m.from] \in Nat
         /\ m.payload = <<m.from, m.seq>> /\ quiet' \in BOOLEAN
         /\ n >= m.seq /\ n - m.seq + 1 \in Nat /\ (m.seq + 1)..n \subseteq Early(e)
<1>1. Reaches(e, m) /\ m.cmd = "PSH" /\ m.seq = nextRecv[e] /\ n >= m.seq /\ (m.seq + 1)..n \subseteq Early(e)
  BY DEF OnNextPsh, Turn
<1>2. /\ m.seq \in Nat \ {0} /\ m.from \in Ends /\ m.seq < nextSend[m.from]
      /\ m.payload = <<m.from, m.seq>> /\ quiet' \in BOOLEAN
  BY <1>1, ReachesOK
<1>3. n - m.seq + 1 \in Nat
  BY <1>1, <1>2
<1>4. nextSend[m.from] \in Nat
  BY <1>2 DEF Types
<1> QED BY <1>1, <1>2, <1>3, <1>4

\* The i-th fragment released was kept under its number.
LEMMA Kept ==
  ASSUME Types, Datagrams, NEW e \in Ends, NEW m, NEW n \in Nat, OnNextPsh(e, m, n),
         NEW i \in 1..(n - m.seq + 1), i # 1
  PROVE  \E f \in recvBuf[e] : f[1] = m.seq + i - 1 /\ Released(e, m, n)[i] = f[2]
<1>1. m.seq \in Nat /\ n - m.seq + 1 \in Nat /\ (m.seq + 1)..n \subseteq Early(e)
  BY NextPshFacts
<1>2. m.seq + i - 1 \in (m.seq + 1)..n
  BY <1>1
<1>3. \E f \in recvBuf[e] : f[1] = m.seq + i - 1
  BY <1>1, <1>2 DEF Early
<1>4. Released(e, m, n)[i] = (CHOOSE f \in recvBuf[e] : f[1] = m.seq + i - 1)[2]
  BY DEF Released
<1> QED BY <1>3, <1>4, Zenon

LEMMA Releases ==
  ASSUME Types, Datagrams, NEW e \in Ends, NEW m, NEW n \in Nat, OnNextPsh(e, m, n)
  PROVE  Released(e, m, n) \in Seq(Ends \X Nat) /\ Len(Released(e, m, n)) = n - m.seq + 1
<1>1. m.payload \in Ends \X Nat /\ n - m.seq + 1 \in Nat
  <2>1. m.payload = <<m.from, m.seq>> /\ m.from \in Ends /\ m.seq \in Nat /\ n - m.seq + 1 \in Nat
    BY NextPshFacts
  <2> QED BY <2>1
<1>2. ASSUME NEW i \in 1..(n - m.seq + 1)
      PROVE  Released(e, m, n)[i] \in Ends \X Nat
  <2>1. CASE i = 1
    BY <1>1, <2>1 DEF Released
  <2>2. CASE i # 1
    <3>1. PICK f \in recvBuf[e] : Released(e, m, n)[i] = f[2]
      BY <2>2, Kept
    <3>2. f \in Nat \X (Ends \X Nat)
      BY DEF Types
    <3> HIDE DEF Released
    <3> QED BY <3>1, <3>2
  <2> QED BY <2>1, <2>2
<1>3. Released(e, m, n) = [i \in 1..(n - m.seq + 1) |-> Released(e, m, n)[i]]
  BY DEF Released
<1> DEFINE R == Released(e, m, n)
           L == n - m.seq + 1
<1>4. L \in Nat /\ R \in [1..L -> Ends \X Nat]
  BY <1>1, <1>2, <1>3, Zenon
<1> HIDE DEF R, L
<1>5. R \in Seq(Ends \X Nat) /\ Len(R) = L
  BY <1>4
<1> QED BY <1>5 DEF R, L

\* What fragment m releases are fragments of its writer, in order.
LEMMA ReleasedInOrder ==
  ASSUME Types, Datagrams, NEW e \in Ends, NEW m, NEW n \in Nat, OnNextPsh(e, m, n),
         \A f \in recvBuf[e] : f[2] = <<m.from, f[1]>> /\ f[1] < nextSend[m.from]
  PROVE  /\ \A i \in 1..(n - m.seq + 1) : Released(e, m, n)[i] = <<m.from, m.seq + i - 1>>
         /\ n < nextSend[m.from]
<1>1. /\ m.seq \in Nat \ {0} /\ m.seq < nextSend[m.from] /\ m.payload = <<m.from, m.seq>>
      /\ n >= m.seq /\ (m.seq + 1)..n \subseteq Early(e)
  BY NextPshFacts
<1>2. ASSUME NEW i \in 1..(n - m.seq + 1)
      PROVE  Released(e, m, n)[i] = <<m.from, m.seq + i - 1>>
  <2>1. CASE i = 1
    <3>1. m.seq + i - 1 = m.seq
      BY <1>1, <2>1
    <3> QED BY <1>1, <2>1, <3>1 DEF Released
  <2>2. CASE i # 1
    <3>1. PICK f \in recvBuf[e] : f[1] = m.seq + i - 1 /\ Released(e, m, n)[i] = f[2]
      BY <2>2, Kept
    <3> HIDE DEF Released
    <3> QED BY <3>1, Zenon
  <2> QED BY <2>1, <2>2
<1>3. n < nextSend[m.from]
  <2>1. CASE n = m.seq
    BY <1>1, <2>1
  <2>2. CASE n # m.seq
    <3>1. n \in (m.seq + 1)..n
      BY <1>1, <2>2
    <3>2. PICK f \in recvBuf[e] : f[1] = n
      BY <1>1, <3>1 DEF Early
    <3> QED BY <3>2
  <2> QED BY <2>1, <2>2
<1> QED BY <1>2, <1>3

LEMMA NextPshChanges ==
  ASSUME Types, Retried, Datagrams, NEW e \in Ends, NEW m, NEW n \in Nat, OnNextPsh(e, m, n)
  PROVE  /\ UNCHANGED <<written, base, nextSend, opened, refused>>
         /\ net \subseteq net' /\ \A d \in net' \ net : d = Ack(e, nextRecv'[e])
         /\ nextRecv' \in [Ends -> Nat \ {0}] /\ nextRecv'[e] = n + 1 /\ nextRecv'[e] >= nextRecv[e]
         /\ \A d \in Ends : d # e => nextRecv'[d] = nextRecv[d] /\ delivered'[d] = delivered[d]
         /\ delivered' \in [Ends -> Seq(Ends \X Nat)]
         /\ delivered'[e] = delivered[e] \o Released(e, m, n)
         /\ entry' \in {0, entry} /\ phase' \in [Ends -> Phases] /\ quiet' \in BOOLEAN
         /\ recvBuf' \in [Ends -> SUBSET (Nat \X (Ends \X Nat))]
         /\ \A d \in Ends : recvBuf'[d] \subseteq recvBuf[d]
<1>1. m.seq \in Nat \ {0} /\ m.seq = nextRecv[e] /\ n >= m.seq /\ quiet' \in BOOLEAN
  BY NextPshFacts
<1>2. UNCHANGED <<written, base, nextSend, opened, refused>>
  BY DEF OnNextPsh, Close
<1>3. /\ nextRecv' = [nextRecv EXCEPT ![e] = n + 1] /\ net' = net \cup {Ack(e, n + 1)}
      /\ delivered' = [delivered EXCEPT ![e] = delivered[e] \o Released(e, m, n)]
  BY DEF OnNextPsh, Types
<1>4. nextRecv' \in [Ends -> Nat \ {0}] /\ nextRecv'[e] = n + 1 /\ n + 1 >= nextRecv[e]
  <2>1. nextRecv \in [Ends -> Nat \ {0}] /\ n + 1 \in Nat \ {0}
    BY DEF Types
  <2> QED BY <1>1, <1>3, <2>1
<1>5. /\ entry' \in {0, entry} /\ phase' \in [Ends -> Phases]
      /\ recvBuf' \in [Ends -> SUBSET (Nat \X (Ends \X Nat))]
      /\ \A d \in Ends : recvBuf'[d] \subseteq recvBuf[d]
  <2>1. CASE Close(e)
    <3>1. Destroy(e) /\ refused' \subseteq Ends
      BY <2>1 DEF Close, Types
    <3> QED BY <3>1, DestroyTypes, Zenon
  <2>2. CASE /\ recvBuf' = [recvBuf EXCEPT ![e] = {f \in @ : f[1] > n}]
             /\ UNCHANGED <<phase, refused, retries, entry>>
    BY <2>2 DEF Types
  <2> QED BY <2>1, <2>2, Zenon DEF OnNextPsh
<1> DEFINE old == delivered[e]
           R == Released(e, m, n)
<1>6. old \in Seq(Ends \X Nat) /\ R \in Seq(Ends \X Nat)
  BY Releases DEF Types
<1>7. delivered' \in [Ends -> Seq(Ends \X Nat)] /\ delivered'[e] = old \o R
  <2>1. delivered \in [Ends -> Seq(Ends \X Nat)]
    BY DEF Types
  <2> HIDE DEF old, R
  <2>2. delivered' = [delivered EXCEPT ![e] = old \o R]
    BY <1>3 DEF old, R
  <2>3. old \o R \in Seq(Ends \X Nat)
    BY <1>6, ConcatProperties
  <2> QED BY <2>1, <2>2, <2>3
<1>8. \A d \in Ends : d # e => nextRecv'[d] = nextRecv[d] /\ delivered'[d] = delivered[d]
  BY <1>3 DEF Types
<1>9. net \subseteq net' /\ \A d \in net' \ net : d = Ack(e, nextRecv'[e])
  BY <1>3, <1>4
<1>10. nextRecv'[e] >= nextRecv[e]
  BY <1>4
<1> QED BY <1>1, <1>2, <1>4, <1>5, <1>7, <1>8, <1>9, <1>10, Zenon

\* What e has stays its peer's.
LEMMA NextPshFollows ==
  ASSUME Types, Retried, Datagrams, NEW e \in Ends, NEW m, NEW n \in Nat, OnNextPsh(e, m, n),
         Follows(e, m.from)
  PROVE  Follows(e, m.from)'
<1>1. /\ m.seq \in Nat \ {0} /\ m.from \in Ends /\ m.seq = nextRecv[e] /\ n >= m.seq
      /\ nextSend[m.from] \in Nat
  BY NextPshFacts
<1>2. /\ nextSend' = nextSend /\ nextRecv'[e] = n + 1 /\ recvBuf'[e] \subseteq recvBuf[e]
      /\ delivered'[e] = delivered[e] \o Released(e, m, n)
  BY NextPshChanges
<1>3. /\ Released(e, m, n) \in Seq(Ends \X Nat) /\ Len(Released(e, m, n)) = n - m.seq + 1
      /\ \A i \in 1..(n - m.seq + 1) : Released(e, m, n)[i] = <<m.from, m.seq + i - 1>>
      /\ n < nextSend[m.from]
  BY Releases, ReleasedInOrder DEF Follows
<1>4. delivered[e] \in Seq(Ends \X Nat) /\ Len(delivered[e]) = m.seq - 1
  BY <1>1 DEF Types, Follows
<1> DEFINE old == delivered[e]
           R == Released(e, m, n)
<1>5. /\ old \o R \in Seq(Ends \X Nat) /\ Len(old \o R) = n
      /\ \A i \in 1..n : (old \o R)[i] = <<m.from, i>>
  <2>1. \A i \in 1..(m.seq - 1) : old[i] = <<m.from, i>>
    BY <1>1 DEF Follows
  <2> HIDE DEF old, R
  <2>2. /\ old \o R \in Seq(Ends \X Nat) /\ Len(old \o R) = Len(old) + Len(R)
        /\ \A i \in 1..(Len(old) + Len(R)) :
             (old \o R)[i] = IF i <= Len(old) THEN old[i] ELSE R[i - Len(old)]
    <3>1. old \in Seq(Ends \X Nat) /\ R \in Seq(Ends \X Nat)
      BY <1>3, <1>4 DEF old, R
    <3> QED BY <3>1, ConcatProperties
  <2>3. Len(old) = m.seq - 1 /\ Len(R) = n - m.seq + 1
    BY <1>3, <1>4 DEF old, R
  <2>4. Len(old) + Len(R) = n
    BY <1>1, <2>3
  <2>5. ASSUME NEW i \in 1..n
        PROVE  (old \o R)[i] = <<m.from, i>>
    <3>1. CASE i <= m.seq - 1
      <4>1. (old \o R)[i] = old[i] /\ i \in 1..(m.seq - 1)
        BY <1>1, <2>2, <2>3, <2>4, <3>1
      <4> QED BY <2>1, <4>1
    <3>2. CASE ~(i <= m.seq - 1)
      <4>0. i - (m.seq - 1) \in 1..(n - m.seq + 1) /\ ~(i <= Len(old)) /\ i \in 1..(Len(old) + Len(R))
        <5>1. m.seq \in Int /\ n \in Int /\ i \in 1..n
          BY <1>1
        <5>2. i - (m.seq - 1) \in 1..(n - m.seq + 1)
          BY <3>2, <5>1
        <5> QED BY <2>3, <2>4, <3>2, <5>1, <5>2, Zenon
      <4>1. (old \o R)[i] = R[i - (m.seq - 1)]
        BY <2>2, <2>3, <4>0
      <4>2. m.seq + (i - (m.seq - 1)) - 1 = i
        BY <1>1
      <4> QED BY <1>3, <4>0, <4>1, <4>2 DEF R
    <3> QED BY <3>1, <3>2
  <2> QED BY <2>2, <2>4, <2>5
<1>6. nextRecv'[e] <= nextSend'[m.from] /\ nextRecv'[e] - 1 = n
  BY <1>1, <1>2, <1>3
<1>7. Len(delivered'[e]) = n /\ \A i \in 1..n : delivered'[e][i] = <<m.from, i>>
  <2> HIDE DEF old, R
  <2>1. delivered'[e] = old \o R
    BY <1>2 DEF old, R
  <2> QED BY <1>5, <2>1
<1>8. \A f \in recvBuf'[e] : f[2] = <<m.from, f[1]>> /\ f[1] < nextSend'[m.from]
  BY <1>2 DEF Follows
<1> QED BY <1>6, <1>7, <1>8 DEF Follows

\* A HELLO opens the stream after the last one.
LEMMA HelloChanges ==
  ASSUME Types, OnHello
  PROVE  /\ UNCHANGED <<refused, written, base, nextSend, nextRecv, recvBuf, delivered>>
         /\ net' = net \cup {HelloAck}
         /\ opened' \in Ends /\ opened' >= opened
         /\ (opened' = opened /\ entry' = entry) \/ entry' = opened'
         /\ entry' \in Ends /\ phase' \in [Ends -> Phases] /\ quiet' \in BOOLEAN
<1>1. UNCHANGED <<refused, written, base, nextSend, nextRecv, recvBuf, delivered>>
      /\ net' = net \cup {HelloAck}
  BY DEF OnHello, sendVars, recvVars
<1>2. CASE UNCHANGED <<phase, entry, opened, quiet>>
  <2>1. opened' \in Ends /\ opened' >= opened /\ entry' \in Ends /\ quiet' \in BOOLEAN
        /\ phase' \in [Ends -> Phases]
    BY <1>2, EndsOK DEF Types
  <2> QED BY <1>1, <1>2, <2>1
<1>3. CASE /\ opened < MaxOpened /\ opened' = opened + 1 /\ entry' = opened + 1 /\ quiet' = FALSE
           /\ phase' = [phase EXCEPT ![opened + 1] = "open"]
  <2>1. opened + 1 \in Ends /\ opened \in Nat
    BY <1>3, EndsOK DEF Types, Ends
  <2>2. phase' \in [Ends -> Phases]
    BY <1>3, <2>1 DEF Types, Phases
  <2>3. opened' >= opened
    BY <1>3, <2>1
  <2> QED BY <1>1, <1>3, <2>1, <2>2, <2>3
<1> QED BY <1>2, <1>3 DEF OnHello

-----------------------------------------------------------------------------
(* Each part of the invariant holds initially and is kept by every step.    *)

LEMMA InvInit == Init => IInv
<1> SUFFICES ASSUME Init PROVE IInv
  OBVIOUS
<1>1. Types
  BY EndsOK DEF Init, Types, Phases, Client
<1>2. Retried
  <2>1. \A e \in Ends : retries[e] = [s \in Numbers(e) |-> 0]
    BY DEF Init
  <2>2. \A e \in Ends : [s \in Numbers(e) |-> 0] \in [Numbers(e) -> Nat]
    OBVIOUS
  <2>3. retries = [e \in Ends |-> retries[e]]
    BY DEF Init
  <2>4. \A e \in Ends : retries[e] \in [Numbers(e) -> Nat]
    BY <2>1, <2>2, Zenon
  <2>5. retries \in [Ends -> UNION {[Numbers(e) -> Nat] : e \in Ends}]
    BY <2>3, <2>4
  <2> QED BY <2>4, <2>5 DEF Retried
<1>3. Datagrams /\ Windows /\ Places /\ HonestPeersAgree
  BY EndsOK DEF Init, Datagrams, Windows, Places, HonestPeersAgree
<1>4. \A e \in Ends, peer \in Ends : Follows(e, peer)
  BY DEF Init, Follows
<1>5. Received
  BY <1>4, EndsOK DEF Received
<1>6. Acked
  BY EndsOK DEF Init, Acked
<1> QED BY <1>1, <1>2, <1>3, <1>5, <1>6 DEF IInv

\* Whoever a fragment comes from, what e has is that peer's.
LEMMA PeerIsFollowed ==
  ASSUME Types, Datagrams, Places, Received, NEW e \in Ends, NEW m, Reaches(e, m), m.cmd = "PSH",
         e = Client => opened <= 1
  PROVE  Follows(e, m.from) /\ m.from \in Ends /\ (e = Client => m.from = 1)
<1>1. /\ m.from \in Ends /\ m.seq \in Nat \ {0} /\ m.seq < nextSend[m.from]
      /\ m.from = Client => e \in Exits
      /\ m.from # Client => e = Client /\ m.from \in Exits
  BY ReachesOK
<1>2. CASE m.from = Client
  BY <1>1, <1>2, EndsOK DEF Received, Exits, Client
<1>3. CASE m.from # Client
  <2>1. m.from \in Exits /\ e = Client /\ opened <= 1
    BY <1>1, <1>3
  <2>2. nextSend[m.from] # 1
    <3>1. nextSend[m.from] \in Nat
      BY <1>1 DEF Types
    <3> QED BY <1>1, <3>1
  <2>3. m.from \in Nat \ {0} /\ opened \in Nat
    <3>1. m.from \in Nat \ {0}
      BY <2>1, EndsOK DEF Exits
    <3>2. opened \in Nat
      BY EndsOK DEF Types
    <3> QED BY <3>1, <3>2
  <2>4. m.from <= opened
    BY <2>1, <2>2, <2>3 DEF Places
  <2>5. m.from = 1
    BY <2>1, <2>3, <2>4
  <2> QED BY <1>1, <2>1, <2>5, EndsOK DEF Received
<1> QED BY <1>2, <1>3

Moves ==
  \/ \E e \in Ends : \E due : Tick(e, due)
  \/ \E e \in Ends : \E n \in Numbers(e) : Write(e, n)
  \/ \E e \in Ends : \E m : OnAck(e, m)
  \/ \E e \in Ends : \E m : OnOtherPsh(e, m)
  \/ \E e \in Ends : \E m : \E n \in Nat : OnNextPsh(e, m, n)
  \/ OnHello

\* A step is one of these.
LEMMA Steps ==
  ASSUME Types, Retried, [Next]_vars
  PROVE  Quietly \/ Moves
<1>1. Some \subseteq Nat
  BY UdpAssumption DEF Some, Numbers, Ends
<1>2. ASSUME NEW e \in Ends, NEW m, Receive(e, m)
      PROVE  Moves
  BY <1>1, <1>2 DEF Receive, Moves
<1>3. UNCHANGED vars \/ (\E e \in Ends : OwnerCloses(e)) \/ OnHelloAck \/ HelloTimeout
        \/ IdlePasses \/ EvictIdle \/ Moves
  BY <1>2, Zenon DEF Next, Moves
<1> QED BY <1>3, QuietSteps

LEMMA TypesStep ==
  ASSUME IInv, [Next]_vars
  PROVE  Types'
<1> USE DEF IInv
<1>1. CASE Quietly
  BY <1>1, EndsOK DEF Quietly, Types, Client
<1>2. ASSUME NEW e \in Ends, NEW due, Tick(e, due)
      PROVE  Types'
  <2>1. /\ UNCHANGED <<written, base, nextRecv, delivered, opened, quiet, refused>>
        /\ nextSend' = [nextSend EXCEPT ![e] = nextSend'[e]]
        /\ nextSend'[e] \in Nat /\ nextSend'[e] >= nextSend[e]
        /\ entry' \in {0, entry} /\ phase' \in [Ends -> Phases]
        /\ recvBuf' \in [Ends -> SUBSET (Nat \X (Ends \X Nat))]
    BY <1>2, TickChanges
  <2>2. nextSend'[e] \in Nat \ {0}
    BY <2>1 DEF Types
  <2>3. nextSend' \in [Ends -> Nat \ {0}]
    BY <2>1, <2>2 DEF Types
  <2> QED BY <2>1, <2>3, EndsOK DEF Types, Client
<1>3. ASSUME NEW e \in Ends, NEW n \in Numbers(e), Write(e, n)
      PROVE  Types'
  <2>1. /\ UNCHANGED <<base, nextSend, nextRecv, delivered, net, opened, refused>>
        /\ written' \in [Ends -> Nat]
        /\ entry' \in {0, entry} /\ phase' \in [Ends -> Phases] /\ quiet' \in BOOLEAN
        /\ recvBuf' \in [Ends -> SUBSET (Nat \X (Ends \X Nat))]
    BY <1>3, WriteChanges
  <2> QED BY <2>1, EndsOK DEF Types, Client
<1>4. ASSUME NEW e \in Ends, NEW m, OnAck(e, m)
      PROVE  Types'
  <2>1. refused' = refused \/ refused' = refused \cup {e}
    BY <1>4, AckChanges
  <2>2. refused' \subseteq Ends
    BY <2>1 DEF Types
  <2>3. /\ UNCHANGED <<written, nextSend, nextRecv, delivered, opened>>
        /\ base' \in [Ends -> Nat \ {0}] /\ entry' \in {0, entry} /\ phase' \in [Ends -> Phases]
        /\ quiet' \in BOOLEAN /\ recvBuf' \in [Ends -> SUBSET (Nat \X (Ends \X Nat))]
    BY <1>4, AckChanges
  <2> QED BY <2>2, <2>3, EndsOK DEF Types, Client
<1>5. ASSUME NEW e \in Ends, NEW m, OnOtherPsh(e, m)
      PROVE  Types'
  BY <1>5, OtherPshChanges, EndsOK DEF Types, Client
<1>6. ASSUME NEW e \in Ends, NEW m, NEW n \in Nat, OnNextPsh(e, m, n)
      PROVE  Types'
  BY <1>6, NextPshChanges, EndsOK DEF Types, Client
<1>7. CASE OnHello
  BY <1>7, HelloChanges DEF Types
<1> QED BY <1>1, <1>2, <1>3, <1>4, <1>5, <1>6, <1>7, Steps DEF Moves

\* Nothing is taken out of the network, and the counters that bound it only grow.
LEMMA DatagramsKept ==
  ASSUME Types, Datagrams, \A d \in Ends : nextSend'[d] \in Nat /\ nextSend'[d] >= nextSend[d],
         \A d \in Ends : nextRecv'[d] \in Nat /\ nextRecv'[d] >= nextRecv[d],
         NEW m \in net
  PROVE  /\ m.cmd = "PSH" => /\ m.from \in Ends /\ m.seq \in Nat \ {0}
                             /\ m.seq < nextSend'[m.from] /\ m.payload = <<m.from, m.seq>>
         /\ m.cmd = "ACK" => /\ m.from \in Ends /\ m.next \in Nat \ {0}
                             /\ m.next <= nextRecv'[m.from]
<1>1. \A d \in Ends : nextSend[d] \in Nat /\ nextRecv[d] \in Nat
  BY DEF Types
<1>2. CASE m.cmd = "PSH"
  <2>1. m.from \in Ends /\ m.seq \in Nat \ {0} /\ m.seq < nextSend[m.from] /\ m.payload = <<m.from, m.seq>>
    BY <1>2 DEF Datagrams
  <2>2. m.seq < nextSend'[m.from]
    BY <1>1, <2>1
  <2> QED BY <1>2, <2>1, <2>2
<1>3. CASE m.cmd = "ACK"
  <2>1. m.from \in Ends /\ m.next \in Nat \ {0} /\ m.next <= nextRecv[m.from]
    BY <1>3 DEF Datagrams
  <2>2. m.next <= nextRecv'[m.from]
    BY <1>1, <2>1
  <2> QED BY <1>3, <2>1, <2>2
<1> QED BY <1>2, <1>3

LEMMA CountersGrow ==
  ASSUME IInv, [Next]_vars
  PROVE  /\ \A d \in Ends : nextSend'[d] \in Nat /\ nextSend'[d] >= nextSend[d]
         /\ \A d \in Ends : nextRecv'[d] \in Nat /\ nextRecv'[d] >= nextRecv[d]
         /\ opened' \in Nat /\ opened' >= opened
<1> USE DEF IInv
<1>1. /\ \A d \in Ends : nextSend[d] \in Nat /\ nextSend'[d] \in Nat
      /\ \A d \in Ends : nextRecv[d] \in Nat /\ nextRecv'[d] \in Nat
      /\ opened \in Nat /\ opened' \in Nat
  BY TypesStep, EndsOK DEF Types
<1> DEFINE Grow == /\ \A d \in Ends : nextSend'[d] >= nextSend[d]
                   /\ \A d \in Ends : nextRecv'[d] >= nextRecv[d]
                   /\ opened' >= opened
<1>2. UNCHANGED <<nextSend, nextRecv, opened>> => Grow
  BY <1>1
<1>3. ASSUME NEW e \in Ends, NEW due, Tick(e, due)
      PROVE  Grow
  <2>1. /\ UNCHANGED <<nextRecv, opened>> /\ nextSend' = [nextSend EXCEPT ![e] = nextSend'[e]]
        /\ nextSend'[e] >= nextSend[e]
    BY <1>3, TickChanges
  <2>2. \A d \in Ends : d = e \/ nextSend'[d] = nextSend[d]
    BY <2>1 DEF Types
  <2> QED BY <1>1, <2>1, <2>2
<1>4. ASSUME NEW e \in Ends, NEW m, NEW n \in Nat, OnNextPsh(e, m, n)
      PROVE  Grow
  <2>1. /\ UNCHANGED <<nextSend, opened>> /\ nextRecv'[e] >= nextRecv[e]
        /\ \A d \in Ends : d # e => nextRecv'[d] = nextRecv[d]
    BY <1>4, NextPshChanges
  <2> QED BY <1>1, <2>1
<1>5. OnHello => Grow
  BY <1>1, HelloChanges
<1>6. Quietly => UNCHANGED <<nextSend, nextRecv, opened>>
  BY DEF Quietly
<1>7. ASSUME NEW e \in Ends, NEW n \in Numbers(e), Write(e, n)
      PROVE  UNCHANGED <<nextSend, nextRecv, opened>>
  BY <1>7, WriteChanges
<1>8. ASSUME NEW e \in Ends, NEW m, OnAck(e, m)
      PROVE  UNCHANGED <<nextSend, nextRecv, opened>>
  BY <1>8, AckChanges
<1>9. ASSUME NEW e \in Ends, NEW m, OnOtherPsh(e, m)
      PROVE  UNCHANGED <<nextSend, nextRecv, opened>>
  BY <1>9, OtherPshChanges
<1>10. Grow
  <2> HIDE DEF Grow
  <2> QED BY <1>2, <1>3, <1>4, <1>5, <1>6, <1>7, <1>8, <1>9, Steps DEF Moves
<1> QED BY <1>1, <1>10

LEMMA DatagramsStep ==
  ASSUME IInv, [Next]_vars
  PROVE  Datagrams'
<1> USE DEF IInv
<1> DEFINE Good(m) ==
      /\ m.cmd = "PSH" => /\ m.from \in Ends /\ m.seq \in Nat \ {0}
                          /\ m.seq < nextSend'[m.from] /\ m.payload = <<m.from, m.seq>>
      /\ m.cmd = "ACK" => /\ m.from \in Ends /\ m.next \in Nat \ {0}
                          /\ m.next <= nextRecv'[m.from]
<1>1. \A m \in net : Good(m)
  BY CountersGrow, DatagramsKept
<1>2. Good(Hello) /\ Good(HelloAck)
  BY DEF Hello, HelloAck
<1>3. ASSUME NEW e \in Ends, NEW s \in Nat \ {0}, s < nextSend'[e]
      PROVE  Good(Psh(e, s))
  BY <1>3 DEF Psh
<1>4. ASSUME NEW e \in Ends, NEW n \in Nat \ {0}, n <= nextRecv'[e]
      PROVE  Good(Ack(e, n))
  BY <1>4 DEF Ack
<1> HIDE DEF Good
<1>5. \A d \in Ends : /\ nextSend[d] \in Nat \ {0} /\ nextSend'[d] \in Nat
                      /\ nextRecv[d] \in Nat \ {0} /\ nextRecv'[d] \in Nat \ {0}
  BY TypesStep DEF Types
<1>6. ASSUME NEW e \in Ends, NEW due, Tick(e, due)
      PROVE  \A m \in net' : Good(m)
  <2>1. \A m \in net' \ net : \/ m = Hello
                              \/ \E s \in nextSend[e]..(nextSend'[e] - 1) : m = Psh(e, s)
    BY <1>6, TickChanges
  <2>2. ASSUME NEW s \in nextSend[e]..(nextSend'[e] - 1)
        PROVE  s \in Nat \ {0} /\ s < nextSend'[e]
    BY <1>5
  <2> QED BY <1>1, <1>2, <1>3, <2>1, <2>2
<1>7. ASSUME NEW e \in Ends, NEW m, OnOtherPsh(e, m)
      PROVE  \A d \in net' : Good(d)
  <2>1. nextRecv' = nextRecv /\ \A d \in net' \ net : d = Ack(e, nextRecv[e])
    BY <1>7, OtherPshChanges
  <2>2. Good(Ack(e, nextRecv[e]))
    BY <1>4, <1>5, <2>1
  <2> QED BY <1>1, <2>1, <2>2
<1>8. ASSUME NEW e \in Ends, NEW m, NEW n \in Nat, OnNextPsh(e, m, n)
      PROVE  \A d \in net' : Good(d)
  <2>1. \A d \in net' \ net : d = Ack(e, nextRecv'[e])
    BY <1>8, NextPshChanges
  <2>2. Good(Ack(e, nextRecv'[e]))
    BY <1>4, <1>5
  <2> QED BY <1>1, <2>1, <2>2
<1>9. OnHello => \A d \in net' : Good(d)
  BY <1>1, <1>2, HelloChanges
<1>10. ASSUME net' = net
       PROVE  \A d \in net' : Good(d)
  BY <1>1, <1>10
<1>11. Quietly => net' = net
  BY DEF Quietly
<1>12. ASSUME NEW e \in Ends, NEW n \in Numbers(e), Write(e, n)
       PROVE  net' = net
  BY <1>12, WriteChanges
<1>13. ASSUME NEW e \in Ends, NEW m, OnAck(e, m)
       PROVE  net' = net
  BY <1>13, AckChanges
<1>14. \A m \in net' : Good(m)
  BY <1>6, <1>7, <1>8, <1>9, <1>10, <1>11, <1>12, <1>13, Steps DEF Moves
<1> QED BY <1>14 DEF Datagrams, Good

LEMMA WindowsStep ==
  ASSUME IInv, [Next]_vars
  PROVE  Windows'
<1> USE DEF IInv
<1>1. \A d \in Ends : /\ written[d] \in Nat /\ base[d] \in Nat /\ nextSend[d] \in Nat
                      /\ written'[d] \in Nat /\ base'[d] \in Nat /\ nextSend'[d] \in Nat
  BY TypesStep DEF Types
<1> DEFINE Good == Windows'
<1>2. UNCHANGED <<written, base, nextSend>> => Good
  BY DEF Windows
<1>3. ASSUME NEW e \in Ends, NEW due, Tick(e, due)
      PROVE  Good
  <2>1. /\ UNCHANGED <<written, base>> /\ nextSend' = [nextSend EXCEPT ![e] = nextSend'[e]]
        /\ nextSend'[e] >= nextSend[e]
        /\ nextSend'[e] <= written[e] + 1 /\ nextSend'[e] - base[e] <= Window
    BY <1>3, TickChanges
  <2>2. \A d \in Ends : d = e \/ nextSend'[d] = nextSend[d]
    BY <2>1 DEF Types
  <2>3. base'[e] <= nextSend'[e]
    BY <1>1, <2>1 DEF Windows
  <2> QED BY <2>1, <2>2, <2>3 DEF Windows
<1>4. ASSUME NEW e \in Ends, NEW n \in Numbers(e), Write(e, n)
      PROVE  Good
  <2>1. UNCHANGED <<base, nextSend>> /\ \A d \in Ends : written'[d] >= written[d]
    BY <1>4, WriteChanges
  <2> QED BY <1>1, <2>1 DEF Windows
<1>5. ASSUME NEW e \in Ends, NEW m, OnAck(e, m)
      PROVE  Good
  <2>1. /\ UNCHANGED <<written, nextSend, nextRecv>> /\ m.next \in Nat
        /\ \A d \in Ends : base'[d] # base[d] => d = e /\ base'[d] = m.next /\ m.next <= nextSend[e]
    <3>1. Reaches(e, m) /\ m.cmd = "ACK"
      BY <1>5 DEF OnAck
    <3> QED BY <1>5, <3>1, AckChanges, ReachesOK
  <2>2. base'[e] >= base[e]
    <3>1. base' = base \/ base' = [base EXCEPT ![e] = Larger(@, m.next)]
      BY <1>5 DEF OnAck
    <3>2. base \in [Ends -> Nat \ {0}] /\ base[e] \in Nat /\ m.next \in Nat
      BY <2>1 DEF Types
    <3>3. Larger(base[e], m.next) >= base[e]
      BY <3>2 DEF Larger
    <3>4. CASE base' = [base EXCEPT ![e] = Larger(@, m.next)]
      <4>1. base'[e] = Larger(base[e], m.next)
        BY <3>2, <3>4, Zenon
      <4> QED BY <3>3, <4>1
    <3> QED BY <3>1, <3>2, <3>4
  <2>3. \A d \in Ends : base'[d] <= nextSend'[d]
    BY <1>1, <2>1 DEF Windows
  <2>4. \A d \in Ends : nextSend'[d] - base'[d] <= Window
    <3>1. \A d \in Ends : base'[d] >= base[d]
      BY <1>1, <2>1, <2>2
    <3>2. \A d \in Ends : nextSend[d] - base[d] <= Window
      BY DEF Windows
    <3> QED BY <1>1, <2>1, <3>1, <3>2, EndsOK
  <2>5. \A d \in Ends : nextSend'[d] <= written'[d] + 1
    BY <2>1 DEF Windows
  <2> QED BY <2>3, <2>4, <2>5 DEF Windows
<1>6. Quietly \/ OnHello => UNCHANGED <<written, base, nextSend>>
  BY HelloChanges DEF Quietly
<1>7. ASSUME NEW e \in Ends, NEW m, OnOtherPsh(e, m)
      PROVE  UNCHANGED <<written, base, nextSend>>
  BY <1>7, OtherPshChanges
<1>8. ASSUME NEW e \in Ends, NEW m, NEW n \in Nat, OnNextPsh(e, m, n)
      PROVE  UNCHANGED <<written, base, nextSend>>
  BY <1>8, NextPshChanges
<1> HIDE DEF Good
<1>9. Good
  BY <1>2, <1>3, <1>4, <1>5, <1>6, <1>7, <1>8, Steps DEF Moves
<1> QED BY <1>9 DEF Good

\* A stream that is not opened yet is touched by nothing.
LEMMA PlacesStep ==
  ASSUME IInv, [Next]_vars
  PROVE  Places'
<1> USE DEF IInv
<1>1. /\ opened \in Nat /\ opened' \in Nat /\ opened' >= opened
      /\ \A e \in Exits : e \in Ends /\ e \in Nat /\ e # Client
      /\ \A d \in Ends : nextSend[d] \in Nat /\ written[d] \in Nat /\ nextRecv[d] \in Nat
  <2>1. opened \in Nat /\ opened' \in Nat /\ opened' >= opened
    BY CountersGrow, EndsOK DEF Types
  <2>2. \A e \in Exits : e \in Ends /\ e \in Nat /\ e # Client
    BY EndsOK DEF Exits, Client
  <2>3. \A d \in Ends : nextSend[d] \in Nat /\ written[d] \in Nat /\ nextRecv[d] \in Nat
    BY DEF Types
  <2> QED BY <2>1, <2>2, <2>3
<1>2. entry' # 0 => entry' = opened'
  <2>1. Quietly => entry' \in {0, entry} /\ opened' = opened
    BY DEF Quietly
  <2>2. ASSUME NEW e \in Ends, NEW due, Tick(e, due)
        PROVE  entry' \in {0, entry} /\ opened' = opened
    BY <2>2, TickChanges
  <2>3. ASSUME NEW e \in Ends, NEW n \in Numbers(e), Write(e, n)
        PROVE  entry' \in {0, entry} /\ opened' = opened
    BY <2>3, WriteChanges
  <2>4. ASSUME NEW e \in Ends, NEW m, OnAck(e, m)
        PROVE  entry' \in {0, entry} /\ opened' = opened
    BY <2>4, AckChanges
  <2>5. ASSUME NEW e \in Ends, NEW m, OnOtherPsh(e, m)
        PROVE  entry' \in {0, entry} /\ opened' = opened
    BY <2>5, OtherPshChanges
  <2>6. ASSUME NEW e \in Ends, NEW m, NEW n \in Nat, OnNextPsh(e, m, n)
        PROVE  entry' \in {0, entry} /\ opened' = opened
    BY <2>6, NextPshChanges
  <2>7. OnHello => (opened' = opened /\ entry' = entry) \/ entry' = opened'
    BY HelloChanges
  <2>8. entry' \in {0, entry} /\ opened' = opened => (entry' # 0 => entry' = opened')
    BY DEF Places
  <2> QED BY <2>1, <2>2, <2>3, <2>4, <2>5, <2>6, <2>7, <2>8, Steps DEF Moves, Places
<1> DEFINE Still(e) == nextSend'[e] = nextSend[e] /\ nextRecv'[e] = nextRecv[e] /\ written'[e] = written[e]
<1>3. ASSUME NEW e \in Exits, e > opened
      PROVE  Still(e)
  <2>1. nextSend[e] = 1 /\ nextRecv[e] = 1 /\ written[e] = 0 /\ e # entry
    BY <1>1, <1>3 DEF Places, Client
  <2>2. delivered[e] = <<>>
    <3>1. Len(delivered[e]) = 0 /\ delivered[e] \in Seq(Ends \X Nat)
      BY <1>1, <2>1 DEF Received, Follows, Types
    <3> QED BY <3>1, EmptySeq
  <2>3. UNCHANGED <<nextSend, nextRecv, written>> => Still(e)
    OBVIOUS
  <2>4. ASSUME NEW d \in Ends, NEW due, Tick(d, due)
        PROVE  Still(e)
    <3>1. /\ UNCHANGED <<written, nextRecv>> /\ nextSend' = [nextSend EXCEPT ![d] = nextSend'[d]]
          /\ nextSend'[d] >= nextSend[d] /\ nextSend'[d] <= written[d] + 1 /\ nextSend'[d] \in Nat
      BY <2>4, TickChanges
    <3>2. CASE d = e
      <4>1. nextSend'[e] = 1
        BY <1>1, <2>1, <3>1, <3>2
      <4> QED BY <2>1, <3>1, <4>1
    <3>3. CASE d # e
      <4>1. nextSend'[e] = nextSend[e]
        BY <1>1, <3>1, <3>3 DEF Types
      <4> QED BY <3>1, <4>1
    <3> QED BY <3>2, <3>3
  <2>5. ASSUME NEW d \in Ends, NEW n \in Numbers(d), Write(d, n)
        PROVE  Still(e)
    <3>1. /\ UNCHANGED <<nextSend, nextRecv>>
          /\ \A c \in Ends : written'[c] # written[c] => c = d /\ (d = Client \/ delivered[d] # <<>>)
      BY <2>5, WriteChanges
    <3> QED BY <1>1, <2>2, <3>1
  <2>6. ASSUME NEW d \in Ends, NEW m, OnAck(d, m)
        PROVE  Still(e)
    BY <2>6, AckChanges
  <2>7. ASSUME NEW d \in Ends, NEW m, OnOtherPsh(d, m)
        PROVE  Still(e)
    BY <2>7, OtherPshChanges
  <2>8. ASSUME NEW d \in Ends, NEW m, NEW n \in Nat, OnNextPsh(d, m, n)
        PROVE  Still(e)
    <3>1. d # e
      <4>1. Reaches(d, m)
        BY <2>8 DEF OnNextPsh
      <4> QED BY <1>1, <2>1, <4>1 DEF Reaches
    <3>2. UNCHANGED <<written, nextSend>> /\ nextRecv'[e] = nextRecv[e]
      BY <1>1, <2>8, <3>1, NextPshChanges
    <3> QED BY <3>2
  <2>9. Quietly \/ OnHello => Still(e)
    BY HelloChanges DEF Quietly
  <2> HIDE DEF Still
  <2> QED BY <2>4, <2>5, <2>6, <2>7, <2>8, <2>9, Steps DEF Moves
<1>4. ASSUME NEW e \in Exits, e > opened'
      PROVE  nextSend'[e] = 1 /\ nextRecv'[e] = 1 /\ written'[e] = 0
  <2>1. e > opened
    BY <1>1, <1>4
  <2> QED BY <1>3, <2>1 DEF Places
<1> QED BY <1>2, <1>4 DEF Places

\* What e has stays its peer's in every step that hands nothing to e.
LEMMA FollowsKept ==
  ASSUME Types, NEW e \in Ends, NEW peer \in Ends, Follows(e, peer),
         nextRecv'[e] = nextRecv[e], delivered'[e] = delivered[e],
         nextSend'[peer] \in Nat, nextSend'[peer] >= nextSend[peer],
         recvBuf'[e] \subseteq Nat \X (Ends \X Nat),
         \A f \in recvBuf'[e] : f \in recvBuf[e] \/ (f[2] = <<peer, f[1]>> /\ f[1] < nextSend[peer])
  PROVE  Follows(e, peer)'
<1>1. nextSend[peer] \in Nat /\ nextRecv[e] \in Nat /\ recvBuf[e] \subseteq Nat \X (Ends \X Nat)
  BY DEF Types
<1>2. nextRecv'[e] <= nextSend'[peer]
  BY <1>1 DEF Follows
<1>3. \A f \in recvBuf'[e] : f[2] = <<peer, f[1]>> /\ f[1] < nextSend[peer]
  BY DEF Follows
<1>4. \A k \in Nat : k < nextSend[peer] => k < nextSend'[peer]
  BY <1>1
<1>5. \A f \in recvBuf'[e] : f[2] = <<peer, f[1]>> /\ f[1] < nextSend'[peer]
  <2> TAKE f \in recvBuf'[e]
  <2>1. f[1] \in Nat /\ f[2] = <<peer, f[1]>> /\ f[1] < nextSend[peer]
    BY <1>3
  <2> QED BY <1>4, <2>1
<1>6. Len(delivered'[e]) = nextRecv'[e] - 1
      /\ \A i \in 1..(nextRecv'[e] - 1) : delivered'[e][i] = <<peer, i>>
  BY DEF Follows
<1> QED BY <1>2, <1>5, <1>6 DEF Follows

LEMMA ReceivedStep ==
  ASSUME IInv, [Next]_vars
  PROVE  Received'
<1> USE DEF IInv
<1> DEFINE Pair(e, peer) == /\ e \in Ends /\ peer \in Ends
                            /\ \/ e \in Exits /\ peer = Client
                               \/ e = Client /\ peer = 1 /\ opened <= 1
<1>1. ASSUME NEW e, NEW peer, Pair(e, peer)
      PROVE  Follows(e, peer)
  BY <1>1 DEF Received
<1>2. \A d \in Ends : /\ nextSend'[d] \in Nat /\ nextSend'[d] >= nextSend[d]
                      /\ recvBuf'[d] \subseteq Nat \X (Ends \X Nat)
  BY CountersGrow, TypesStep DEF Types
<1>3. ASSUME NEW e, NEW peer, Pair(e, peer),
             nextRecv'[e] = nextRecv[e], delivered'[e] = delivered[e], recvBuf'[e] \subseteq recvBuf[e]
      PROVE  Follows(e, peer)'
  BY <1>1, <1>2, <1>3, FollowsKept
<1>4. ASSUME NEW e, NEW peer, Pair(e, peer)
      PROVE  Follows(e, peer)'
  <2> USE <1>4
  <2> DEFINE Good == Follows(e, peer)'
  <2>1. Quietly => Good
    BY <1>3 DEF Quietly
  <2>2. ASSUME NEW d \in Ends, NEW due, Tick(d, due)
        PROVE  Good
    BY <1>3, <2>2, TickChanges
  <2>3. ASSUME NEW d \in Ends, NEW n \in Numbers(d), Write(d, n)
        PROVE  Good
    BY <1>3, <2>3, WriteChanges
  <2>4. ASSUME NEW d \in Ends, NEW m, OnAck(d, m)
        PROVE  Good
    BY <1>3, <2>4, AckChanges
  <2>5. ASSUME NEW d \in Ends, NEW m, OnOtherPsh(d, m)
        PROVE  Good
    <3>1. /\ nextRecv' = nextRecv /\ delivered' = delivered
          /\ \A c \in Ends : \A f \in recvBuf'[c] :
               f \in recvBuf[c] \/ (c = d /\ f = <<m.seq, m.payload>>)
      BY <2>5, OtherPshChanges
    <3>2. CASE d # e
      BY <1>3, <3>1, <3>2
    <3>3. CASE d = e
      <4>1. Reaches(e, m) /\ m.cmd = "PSH"
        BY <2>5, <3>3 DEF OnOtherPsh
      <4>2. /\ m.payload = <<m.from, m.seq>> /\ m.seq < nextSend[m.from] /\ m.from \in Ends
            /\ m.from = Client => e \in Exits
            /\ m.from # Client => e = Client
        BY <4>1, ReachesOK
      <4>3. e = Client => opened <= 1
        BY EndsOK DEF Exits, Client
      <4>4. m.from = peer
        BY <4>1, <4>2, <4>3, PeerIsFollowed, EndsOK DEF Exits, Client
      <4>5. \A f \in recvBuf'[e] : f \in recvBuf[e] \/ (f[2] = <<peer, f[1]>> /\ f[1] < nextSend[peer])
        BY <3>1, <3>3, <4>2, <4>4
      <4> QED BY <1>1, <1>2, <3>1, <4>5, FollowsKept
    <3> QED BY <3>2, <3>3
  <2>6. ASSUME NEW d \in Ends, NEW m, NEW n \in Nat, OnNextPsh(d, m, n)
        PROVE  Good
    <3>1. CASE d # e
      <4>1. nextRecv'[e] = nextRecv[e] /\ delivered'[e] = delivered[e] /\ recvBuf'[e] \subseteq recvBuf[e]
        BY <2>6, <3>1, NextPshChanges
      <4> QED BY <1>3, <4>1
    <3>2. CASE d = e
      <4>1. Reaches(e, m) /\ m.cmd = "PSH"
        BY <2>6, <3>2 DEF OnNextPsh
      <4>2. e = Client => opened <= 1
        BY EndsOK DEF Exits, Client
      <4>3. m.from = peer
        <5>1. m.from = Client => e \in Exits
          BY <4>1, ReachesOK
        <5>2. m.from # Client => e = Client
          BY <4>1, ReachesOK
        <5>3. e = Client => m.from = 1
          BY <4>1, <4>2, PeerIsFollowed
        <5> QED BY <5>1, <5>2, <5>3, EndsOK DEF Exits, Client
      <4> QED BY <1>1, <2>6, <3>2, <4>3, NextPshFollows
    <3> QED BY <3>1, <3>2
  <2>7. OnHello => Good
    BY <1>3, HelloChanges
  <2> HIDE DEF Good, Pair
  <2>8. Good
    BY <2>1, <2>2, <2>3, <2>4, <2>5, <2>6, <2>7, Steps DEF Moves
  <2> QED BY <2>8 DEF Good
<1>5. \A e \in Exits : Follows(e, Client)'
  BY <1>4, EndsOK
<1>6. ASSUME opened' <= 1
      PROVE  Follows(Client, 1)'
  <2>1. opened <= 1
    <3>1. opened \in Nat
      BY EndsOK DEF Types
    <3> QED BY <1>6, <3>1, CountersGrow
  <2> QED BY <1>4, <2>1, EndsOK
<1> QED BY <1>5, <1>6 DEF Received

LEMMA AckedStep ==
  ASSUME IInv, [Next]_vars
  PROVE  Acked'
<1> USE DEF IInv
<1>1. \A d \in Ends : /\ base[d] \in Nat /\ base'[d] \in Nat /\ nextRecv[d] \in Nat
                      /\ nextRecv'[d] \in Nat /\ nextRecv'[d] >= nextRecv[d]
  BY TypesStep, CountersGrow DEF Types
<1>2. Client \in Ends /\ \A e \in Exits : e \in Ends /\ e # Client
  BY EndsOK DEF Exits, Client
<1> DEFINE Good == Acked'
<1>3. base' = base => Good
  <2> SUFFICES ASSUME base' = base PROVE Good
    OBVIOUS
  <2>1. ASSUME base'[Client] > 1
        PROVE  \E e \in Exits : base'[Client] <= nextRecv'[e]
    <3>1. PICK e \in Exits : base[Client] <= nextRecv[e]
      BY <2>1 DEF Acked
    <3>2. base'[Client] <= nextRecv'[e]
      BY <1>1, <1>2, <3>1
    <3> QED BY <3>2
  <2>2. ASSUME NEW e \in Exits
        PROVE  base'[e] <= nextRecv'[Client]
    <3>1. base[e] <= nextRecv[Client]
      BY DEF Acked
    <3> QED BY <1>1, <1>2, <3>1
  <2> QED BY <2>1, <2>2 DEF Acked
<1>4. ASSUME NEW e \in Ends, NEW m, OnAck(e, m)
      PROVE  Good
  <2>1. /\ Reaches(e, m) /\ m.cmd = "ACK"
        /\ nextRecv' = nextRecv
        /\ \A d \in Ends : base'[d] # base[d] => d = e /\ base'[d] = m.next /\ m.next <= nextSend[e]
    BY <1>4, AckChanges DEF OnAck
  <2>2. /\ m.next \in Nat /\ m.next <= nextRecv[m.from] /\ m.from \in Ends
        /\ m.from = Client => e \in Exits
        /\ m.from # Client => e = Client /\ m.from \in Exits
    BY <2>1, ReachesOK
  <2>3. ASSUME base'[Client] > 1
        PROVE  \E d \in Exits : base'[Client] <= nextRecv'[d]
    <3>1. CASE base'[Client] = base[Client]
      BY <1>1, <1>2, <2>1, <2>3, <3>1 DEF Acked
    <3>2. CASE base'[Client] # base[Client]
      BY <1>2, <2>1, <2>2, <3>2
    <3> QED BY <3>1, <3>2
  <2>4. ASSUME NEW d \in Exits
        PROVE  base'[d] <= nextRecv'[Client]
    <3>1. CASE base'[d] = base[d]
      BY <1>2, <2>1, <3>1 DEF Acked
    <3>2. CASE base'[d] # base[d]
      BY <1>2, <2>1, <2>2, <3>2
    <3> QED BY <3>1, <3>2
  <2> QED BY <2>3, <2>4 DEF Acked
<1>5. Quietly \/ OnHello => base' = base
  BY HelloChanges DEF Quietly
<1>6. ASSUME NEW e \in Ends, NEW due, Tick(e, due)
      PROVE  base' = base
  BY <1>6, TickChanges
<1>7. ASSUME NEW e \in Ends, NEW n \in Numbers(e), Write(e, n)
      PROVE  base' = base
  BY <1>7, WriteChanges
<1>8. ASSUME NEW e \in Ends, NEW m, OnOtherPsh(e, m)
      PROVE  base' = base
  BY <1>8, OtherPshChanges
<1>9. ASSUME NEW e \in Ends, NEW m, NEW n \in Nat, OnNextPsh(e, m, n)
      PROVE  base' = base
  BY <1>9, NextPshChanges
<1> HIDE DEF Good
<1>10. Good
  BY <1>3, <1>4, <1>5, <1>6, <1>7, <1>8, <1>9, Steps DEF Moves
<1> QED BY <1>10 DEF Good

\* The checks refuse nothing that an end of a conversation's first stream sends.
LEMMA HonestStep ==
  ASSUME IInv, [Next]_vars
  PROVE  HonestPeersAgree'
<1> USE DEF IInv
<1> DEFINE First(e) == e = Client \/ e = 1
           Good == HonestPeersAgree'
<1>1. refused' = refused => Good
  BY DEF HonestPeersAgree
<1>2. ASSUME NEW e \in Ends, ~First(e), refused' = refused \cup {e}
      PROVE  Good
  BY <1>2 DEF HonestPeersAgree
<1>3. \A d \in Ends : /\ base[d] \in Nat /\ nextSend[d] \in Nat /\ nextRecv[d] \in Nat /\ Window \in Nat
                      /\ nextSend[d] - base[d] <= Window
  BY EndsOK DEF Types, Windows
<1>4. ASSUME NEW e \in Ends, NEW m, Reaches(e, m), e = 1
      PROVE  opened = 1 /\ m.from = Client
  <2>1. e # Client
    BY <1>4 DEF Client
  <2>2. m.from = Client /\ e = entry
    BY <1>4, <2>1, ReachesOK
  <2> QED BY <1>4, <2>2 DEF Places
<1>5. ASSUME NEW e \in Ends, NEW m, OnAck(e, m), m.next > nextSend[e]
      PROVE  ~First(e)
  <2>1. Reaches(e, m) /\ m.cmd = "ACK"
    BY <1>5 DEF OnAck
  <2>2. /\ m.next \in Nat /\ m.next <= nextRecv[m.from] /\ m.from \in Ends
        /\ m.from # Client => e = Client /\ m.from \in Exits
        /\ m.from = Client => e \in Exits
    BY <2>1, ReachesOK
  <2>3. e # Client
    <3> SUFFICES ASSUME e = Client PROVE FALSE
      OBVIOUS
    <3>1. m.from \in Exits
      BY <2>2, EndsOK DEF Exits, Client
    <3>2. nextRecv[m.from] <= nextSend[Client]
      BY <3>1 DEF Received, Follows
    <3>3. nextRecv[m.from] \in Nat /\ nextSend[Client] \in Nat
      BY <1>3, <2>2, EndsOK
    <3> QED BY <1>5, <2>2, <3>2, <3>3
  <2>4. e # 1
    <3> SUFFICES ASSUME e = 1 PROVE FALSE
      OBVIOUS
    <3>1. opened = 1 /\ m.from = Client
      BY <1>4, <2>1
    <3>2. nextRecv[Client] <= nextSend[1]
      BY <3>1 DEF Received, Follows
    <3> QED BY <1>3, <1>5, <2>2, <3>1, <3>2, EndsOK
  <2> QED BY <2>3, <2>4
<1>6. ASSUME NEW e \in Ends, NEW m, OnOtherPsh(e, m), BeyondWindow(e, m)
      PROVE  ~First(e)
  <2>1. Reaches(e, m) /\ m.cmd = "PSH" /\ m.seq >= nextRecv[e] + Window
    BY <1>6 DEF OnOtherPsh, BeyondWindow
  <2>2. /\ m.seq \in Nat /\ m.seq < nextSend[m.from] /\ m.from \in Ends
        /\ m.from # Client => e = Client /\ m.from \in Exits
    BY <2>1, ReachesOK
  <2>3. base[m.from] > nextRecv[e]
    BY <1>3, <2>1, <2>2
  <2>4. e # Client
    <3> SUFFICES ASSUME e = Client PROVE FALSE
      OBVIOUS
    <3>1. m.from \in Exits
      BY <2>1, <2>2, ReachesOK, EndsOK DEF Exits, Client
    <3>2. base[m.from] <= nextRecv[Client]
      BY <3>1 DEF Acked
    <3>3. nextRecv[Client] \in Nat /\ base[m.from] \in Nat
      BY <1>3, <2>2, EndsOK
    <3> QED BY <2>3, <3>2, <3>3
  <2>5. e # 1
    <3> SUFFICES ASSUME e = 1 PROVE FALSE
      OBVIOUS
    <3>1. opened = 1 /\ m.from = Client
      BY <1>4, <2>1
    <3>2. base[Client] > 1
      <4>1. nextRecv[1] \in Nat \ {0}
        BY EndsOK DEF Types
      <4> QED BY <1>3, <2>3, <3>1, <4>1, EndsOK
    <3>3. PICK d \in Exits : base[Client] <= nextRecv[d]
      BY <3>2 DEF Acked
    <3>4. d \in Ends /\ d \in Nat \ {0}
      BY EndsOK DEF Exits
    <3>5. CASE d > 1
      <4>1. nextRecv[d] = 1
        BY <3>1, <3>5 DEF Places
      <4> QED BY <1>3, <3>2, <3>3, <4>1, EndsOK
    <3>6. CASE d = 1
      BY <1>3, <2>3, <3>1, <3>3, <3>6, EndsOK
    <3> QED BY <3>4, <3>5, <3>6
  <2> QED BY <2>4, <2>5
<1> HIDE DEF First, Good
<1>7. ASSUME NEW e \in Ends, NEW m, OnAck(e, m)
      PROVE  Good
  BY <1>1, <1>2, <1>5, <1>7, AckChanges
<1>8. ASSUME NEW e \in Ends, NEW m, OnOtherPsh(e, m)
      PROVE  Good
  BY <1>1, <1>2, <1>6, <1>8, OtherPshChanges
<1>9. Quietly \/ OnHello => refused' = refused
  BY HelloChanges DEF Quietly
<1>10. ASSUME NEW e \in Ends, NEW due, Tick(e, due)
       PROVE  refused' = refused
  BY <1>10, TickChanges
<1>11. ASSUME NEW e \in Ends, NEW n \in Numbers(e), Write(e, n)
       PROVE  refused' = refused
  BY <1>11, WriteChanges
<1>12. ASSUME NEW e \in Ends, NEW m, NEW n \in Nat, OnNextPsh(e, m, n)
       PROVE  refused' = refused
  BY <1>12, NextPshChanges
<1>13. Good
  BY <1>1, <1>7, <1>8, <1>9, <1>10, <1>11, <1>12, Steps DEF Moves
<1> QED BY <1>13 DEF Good

-----------------------------------------------------------------------------
(* The theorems.                                                            *)

LEMMA Inductive == Spec => []IInv
<1>1. IInv /\ [Next]_vars => IInv'
  <2> SUFFICES ASSUME IInv, [Next]_vars PROVE IInv'
    OBVIOUS
  <2>1. Retried'
    BY RetriedStep DEF IInv
  <2> QED BY <2>1, TypesStep, DatagramsStep, WindowsStep, PlacesStep, ReceivedStep, AckedStep,
             HonestStep DEF IInv
<1> QED BY InvInit, <1>1, PTL DEF Spec

\* The counters, buffers and places of every end keep their types.
THEOREM TypeCorrect == Spec => []TypeOK
<1>1. IInv => TypeOK
  BY DEF IInv, Types, Retried, TypeOK, Phases
<1> QED BY <1>1, Inductive, PTL

\* What the owner of an end is handed is what the peer wrote, in order and once
\* (onDatagram), for any window and any loss, repetition and order of datagrams.
THEOREM StreamIsOrdered == Spec => []InOrder
<1>1. ASSUME IInv, NEW e \in Ends, NEW peer \in Ends, Follows(e, peer)
      PROVE  Prefix(e, peer)
  <2>1. nextRecv[e] \in Nat /\ nextSend[peer] \in Nat /\ written[peer] \in Nat
    BY <1>1 DEF IInv, Types
  <2>2. Len(delivered[e]) = nextRecv[e] - 1 /\ nextRecv[e] <= nextSend[peer]
    BY <1>1 DEF Follows
  <2>3. nextSend[peer] <= written[peer] + 1
    BY <1>1 DEF IInv, Windows
  <2>4. Len(delivered[e]) <= written[peer]
    BY <2>1, <2>2, <2>3
  <2>5. \A i \in 1..Len(delivered[e]) : delivered[e][i] = <<peer, i>>
    BY <1>1, <2>2 DEF Follows
  <2> QED BY <2>4, <2>5 DEF Prefix
<1>2. IInv => InOrder
  BY <1>1, EndsOK DEF IInv, Received, InOrder
<1> QED BY <1>2, Inductive, PTL

\* What a sender forgets was handed to the owner of the other end (onAck).
THEOREM AckedHolds == Spec => []AckedIsDelivered
<1>1. IInv => AckedIsDelivered
  BY EndsOK DEF IInv, Acked, AckedIsDelivered
<1> QED BY <1>1, Inductive, PTL

\* The checks of onDatagram and onAck never break a client's stream, or the first
\* stream the exit opened for it.
THEOREM HonestPeersHold == Spec => []HonestPeersAgree
<1>1. IInv => HonestPeersAgree
  BY DEF IInv
<1> QED BY <1>1, Inductive, PTL
=============================================================================
