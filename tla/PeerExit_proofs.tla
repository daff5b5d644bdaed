--------------------------- MODULE PeerExit_proofs ---------------------------
(* Proofs about the device that shares its connection, for any number of     *)
(* pairings, of slots, of calls and of events.  The invariant has five parts *)
(* and each is preserved by itself, with the help of the ones before it.     *)
EXTENDS PeerExit, TLAPS

USE PeerExitAssumption

\* The parts of the invariant: what is yes or no, with the interlock; the
\* counters; the threads, of which the one that sends has something to send;
\* the messages; the pairings, with what the property says.
Flags ==
  /\ policy \in BOOLEAN /\ active \in BOOLEAN /\ saved \in BOOLEAN /\ marker \in BOOLEAN
  /\ network \in BOOLEAN /\ advertised \in BOOLEAN /\ sharing \in BOOLEAN
  /\ pausedReason \in BOOLEAN /\ want \in BOOLEAN
  /\ SharingIsMarked

Numbers ==
  /\ epoch \in Nat /\ sequence \in Nat /\ state \in States
  /\ calls \in 0 .. MaxCalls /\ events \in 0 .. MaxEvents

Places ==
  /\ pc \in [Threads -> {"idle", "save", "begin", "end", "pause", "withdraw", "compose", "send"}]
  /\ out \in [Threads -> Presence \cup {None}]
  /\ \A t \in Threads : pc[t] = "send" => out[t] \in Presence

Messages ==
  /\ link \in {"none", "up", "broken"}
  /\ up \in Seq(Presence) /\ down \in Seq(Replies)
  /\ node \in Presence \cup {None} /\ handling \in Presence \cup {None}

Pairs ==
  /\ phase \in [Sessions -> {"idle", "offered", "pairing", "leased", "serving", "closing"}]
  /\ ticket \in [Sessions -> Nat] /\ carrier \in [Sessions -> BOOLEAN]
  /\ SessionsAreCurrent

\* The end of a pairing, and a change that opens it only for the consent that
\* holds, preserve the last part.
LEMMA OverKeeps ==
  ASSUME NEW i \in Sessions, Pairs, client' = client, Over(i) PROVE Pairs'
BY DEF Pairs, SessionsAreCurrent, Open, Over, client

LEMMA BecomesKeeps ==
  ASSUME NEW i \in Sessions, NEW place \in {"offered", "pairing", "leased", "serving", "closing"},
         Pairs, place = "serving" => ticket[i] = epoch, client' = client, Becomes(i, place)
  PROVE  Pairs'
BY DEF Pairs, SessionsAreCurrent, Open, Becomes, client

LEMMA FlagsStep == ASSUME Flags, [Next]_vars PROVE Flags'
<1> USE DEF Flags, SharingIsMarked, Event, store, client, threads, service, pairings, bounds
<1>1. CASE Save
  BY <1>1 DEF Save
<1>2. CASE SaveFails
  BY <1>2 DEF SaveFails
<1>3. CASE Begin
  BY <1>3 DEF Begin, Marked
<1>4. CASE BeginFails
  <2>1. CASE marker' = marker
    BY <1>4, <2>1 DEF BeginFails
  <2>2. CASE marker' = TRUE
    BY <1>4, <2>2 DEF BeginFails
  <2> QED BY <1>4, <2>1, <2>2 DEF BeginFails
<1>5. CASE EndSharing
  BY <1>5 DEF EndSharing
<1>6. CASE EndFails
  BY <1>6 DEF EndFails
<1>7. CASE NetworkChanges
  BY <1>7 DEF NetworkChanges
<1>8. CASE NetworkBack
  BY <1>8 DEF NetworkBack
<1>9. CASE NetworkLost
  BY <1>9 DEF NetworkLost
<1>10. CASE SuspendExit
  BY <1>10 DEF SuspendExit, Deny
<1>11. CASE Pause
  BY <1>11 DEF Pause, Deny
<1>12. CASE ChargeRefused
  BY <1>12 DEF ChargeRefused
<1>13. CASE Withdraw
  BY <1>13 DEF Withdraw
<1>14. CASE Connect
  BY <1>14 DEF Connect
<1>15. CASE PresenceAck
  BY <1>15 DEF PresenceAck
<1>16. CASE Authenticated
  BY <1>16 DEF Authenticated, Marked
<1>17. CASE AuthenticatedFails
  <2>1. CASE marker' = marker
    BY <1>17, <2>1 DEF AuthenticatedFails
  <2>2. CASE marker' = TRUE
    BY <1>17, <2>2 DEF AuthenticatedFails
  <2> QED BY <1>17, <2>1, <2>2 DEF AuthenticatedFails
<1>18. CASE Refused
  BY <1>18 DEF Refused
<1>19. CASE AcceptOffer
  BY <1>19 DEF AcceptOffer
<1>20. CASE Breaks
  BY <1>20 DEF Breaks
<1>21. CASE Cleanup
  BY <1>21 DEF Cleanup
<1>22. CASE PresenceRead \/ PresenceUpdate
  BY <1>22 DEF PresenceRead, PresenceUpdate
<1>23. CASE Crash
  BY <1>23 DEF Crash, Recovered
<1>24. ASSUME NEW enabled \in BOOLEAN, SetPolicy(enabled) PROVE Flags'
  BY <1>24 DEF SetPolicy, Deny
<1>25. ASSUME NEW t \in Threads \ {"flow"}, Compose(t) PROVE Flags'
  BY <1>25 DEF Compose, Available
<1>26. ASSUME NEW t \in Threads, Send(t) PROVE Flags'
  BY <1>26 DEF Send
<1>27. ASSUME NEW i \in Sessions, Lease(i) \/ Own(i) \/ SetupFails(i) PROVE Flags'
  BY <1>27 DEF Lease, Own, SetupFails
<1>28. ASSUME NEW i \in Sessions, RenewFails(i) \/ Leaves(i) \/ CarrierLost(i) \/ Ended(i) PROVE Flags'
  BY <1>28 DEF RenewFails, Leaves, CarrierLost, Ended
<1>29. ASSUME NEW i \in Sessions, Reserve(i) PROVE Flags'
  BY <1>29 DEF Reserve
<1>30. CASE UNCHANGED vars
  BY <1>30 DEF vars
<1> HIDE DEF Flags, SharingIsMarked, Event
<1> QED BY <1>1, <1>2, <1>3, <1>4, <1>5, <1>6, <1>7, <1>8, <1>9, <1>10, <1>11, <1>12, <1>13, <1>14,
    <1>15, <1>16, <1>17, <1>18, <1>19, <1>20, <1>21, <1>22, <1>23, <1>24, <1>25, <1>26, <1>27, <1>28,
    <1>29, <1>30
    DEF Next, Owner, Reader, Ticker, Flow, Host, Service, Environment, Pairing, Heartbeat, Threads

LEMMA NumbersStep == ASSUME Numbers, [Next]_vars PROVE Numbers'
<1> USE DEF Numbers, States, Event, store, client, threads, service, pairings, bounds
<1>1. CASE Save
  BY <1>1 DEF Save
<1>2. CASE SaveFails
  BY <1>2 DEF SaveFails
<1>3. CASE Begin
  BY <1>3 DEF Begin
<1>4. CASE BeginFails
  BY <1>4 DEF BeginFails
<1>5. CASE EndSharing
  BY <1>5 DEF EndSharing
<1>6. CASE EndFails
  BY <1>6 DEF EndFails
<1>7. CASE NetworkChanges
  BY <1>7 DEF NetworkChanges
<1>8. CASE NetworkBack
  BY <1>8 DEF NetworkBack
<1>9. CASE NetworkLost \/ SuspendExit \/ Pause
  BY <1>9 DEF NetworkLost, SuspendExit, Pause, Deny
<1>10. CASE ChargeRefused
  BY <1>10 DEF ChargeRefused
<1>11. CASE Withdraw
  BY <1>11 DEF Withdraw
<1>12. CASE Connect
  BY <1>12 DEF Connect
<1>13. CASE PresenceAck
  BY <1>13 DEF PresenceAck
<1>14. CASE Authenticated
  BY <1>14 DEF Authenticated
<1>15. CASE AuthenticatedFails
  BY <1>15 DEF AuthenticatedFails
<1>16. CASE Refused
  BY <1>16 DEF Refused
<1>17. CASE AcceptOffer \/ Breaks \/ Cleanup
  BY <1>17 DEF AcceptOffer, Breaks, Cleanup
<1>18. CASE PresenceRead \/ PresenceUpdate
  BY <1>18 DEF PresenceRead, PresenceUpdate
<1>19. CASE Crash
  BY <1>19 DEF Crash
<1>20. ASSUME NEW enabled \in BOOLEAN, SetPolicy(enabled) PROVE Numbers'
  BY <1>20 DEF SetPolicy, Deny
<1>21. ASSUME NEW t \in Threads \ {"flow"}, Compose(t) PROVE Numbers'
  BY <1>21 DEF Compose
<1>22. ASSUME NEW t \in Threads, Send(t) PROVE Numbers'
  BY <1>22 DEF Send
<1>23. ASSUME NEW i \in Sessions, Lease(i) \/ Own(i) \/ SetupFails(i) PROVE Numbers'
  BY <1>23 DEF Lease, Own, SetupFails
<1>24. ASSUME NEW i \in Sessions, RenewFails(i) \/ Leaves(i) \/ CarrierLost(i) \/ Ended(i) PROVE Numbers'
  BY <1>24 DEF RenewFails, Leaves, CarrierLost, Ended
<1>25. ASSUME NEW i \in Sessions, Reserve(i) PROVE Numbers'
  BY <1>25 DEF Reserve
<1>26. CASE UNCHANGED vars
  BY <1>26 DEF vars
<1> HIDE DEF Numbers, States, Event
<1> QED BY <1>1, <1>2, <1>3, <1>4, <1>5, <1>6, <1>7, <1>8, <1>9, <1>10, <1>11, <1>12, <1>13, <1>14,
    <1>15, <1>16, <1>17, <1>18, <1>19, <1>20, <1>21, <1>22, <1>23, <1>24, <1>25, <1>26
    DEF Next, Owner, Reader, Ticker, Flow, Host, Service, Environment, Pairing, Heartbeat, Threads

LEMMA PlacesStep == ASSUME Places, Numbers, Flags, [Next]_vars PROVE Places'
<1> USE DEF Places, Goes, Threads, Event, store, client, threads, service, pairings, bounds
<1>1. CASE Save
  BY <1>1 DEF Save
<1>2. CASE SaveFails
  BY <1>2 DEF SaveFails
<1>3. CASE Begin
  BY <1>3 DEF Begin
<1>4. CASE BeginFails
  BY <1>4 DEF BeginFails
<1>5. CASE EndSharing
  BY <1>5 DEF EndSharing
<1>6. CASE EndFails
  BY <1>6 DEF EndFails
<1>7. CASE NetworkChanges
  BY <1>7 DEF NetworkChanges
<1>8. CASE NetworkBack
  BY <1>8 DEF NetworkBack
<1>9. CASE NetworkLost \/ SuspendExit \/ Pause
  BY <1>9 DEF NetworkLost, SuspendExit, Pause
<1>10. CASE ChargeRefused
  BY <1>10 DEF ChargeRefused
<1>11. CASE Withdraw
  BY <1>11 DEF Withdraw, Presence, Numbers, Flags
<1>12. CASE Connect
  BY <1>12 DEF Connect
<1>13. CASE PresenceAck
  BY <1>13 DEF PresenceAck
<1>14. CASE Authenticated
  BY <1>14 DEF Authenticated
<1>15. CASE AuthenticatedFails
  BY <1>15 DEF AuthenticatedFails
<1>16. CASE Refused
  BY <1>16 DEF Refused
<1>17. CASE AcceptOffer \/ Breaks \/ Cleanup
  BY <1>17 DEF AcceptOffer, Breaks, Cleanup
<1>18. CASE PresenceRead \/ PresenceUpdate
  BY <1>18 DEF PresenceRead, PresenceUpdate
<1>19. CASE Crash
  BY <1>19 DEF Crash
<1>20. ASSUME NEW enabled \in BOOLEAN, SetPolicy(enabled) PROVE Places'
  BY <1>20 DEF SetPolicy
<1>21. ASSUME NEW t \in Threads \ {"flow"}, Compose(t) PROVE Places'
  BY <1>21 DEF Compose, Available, Presence, Numbers, Flags
<1>22. ASSUME NEW t \in Threads, Send(t) PROVE Places'
  BY <1>22 DEF Send
<1>23. ASSUME NEW i \in Sessions, Lease(i) \/ Own(i) \/ SetupFails(i) PROVE Places'
  BY <1>23 DEF Lease, Own, SetupFails
<1>24. ASSUME NEW i \in Sessions, RenewFails(i) \/ Leaves(i) \/ CarrierLost(i) \/ Ended(i) PROVE Places'
  BY <1>24 DEF RenewFails, Leaves, CarrierLost, Ended
<1>25. ASSUME NEW i \in Sessions, Reserve(i) PROVE Places'
  BY <1>25 DEF Reserve
<1>26. CASE UNCHANGED vars
  BY <1>26 DEF vars
<1> HIDE DEF Places, Goes, Threads, Event
<1> QED BY <1>1, <1>2, <1>3, <1>4, <1>5, <1>6, <1>7, <1>8, <1>9, <1>10, <1>11, <1>12, <1>13, <1>14,
    <1>15, <1>16, <1>17, <1>18, <1>19, <1>20, <1>21, <1>22, <1>23, <1>24, <1>25, <1>26
    DEF Next, Owner, Reader, Ticker, Flow, Host, Service, Environment, Pairing, Heartbeat, Threads

LEMMA MessagesStep == ASSUME Messages, Places, [Next]_vars PROVE Messages'
<1> USE DEF Messages, Event, store, client, threads, service, pairings, bounds
<1>1. CASE Save \/ SaveFails \/ Begin \/ BeginFails
  BY <1>1 DEF Save, SaveFails, Begin, BeginFails
<1>2. CASE EndSharing \/ EndFails \/ NetworkChanges \/ NetworkBack
  BY <1>2 DEF EndSharing, EndFails, NetworkChanges, NetworkBack
<1>3. CASE NetworkLost \/ SuspendExit \/ Pause
  BY <1>3 DEF NetworkLost, SuspendExit, Pause
<1>4. CASE ChargeRefused
  BY <1>4 DEF ChargeRefused
<1>5. CASE Withdraw
  BY <1>5 DEF Withdraw
<1>6. CASE Connect
  <2>1. [type |-> "hello"] \in [type : {"hello", "error"}] OBVIOUS
  <2>2. [type |-> "hello"] \in Replies BY <2>1 DEF Replies
  <2> QED BY <1>6, <2>2 DEF Connect
<1>7. CASE PresenceAck
  BY <1>7 DEF PresenceAck, Reading
<1>8. CASE Authenticated
  BY <1>8 DEF Authenticated, Reading
<1>9. CASE AuthenticatedFails
  BY <1>9 DEF AuthenticatedFails, Drop
<1>10. CASE Refused
  BY <1>10 DEF Refused, Reading
<1>11. CASE AcceptOffer
  BY <1>11 DEF AcceptOffer, Reading
<1>12. CASE Breaks
  BY <1>12 DEF Breaks, Drop
<1>13. CASE Cleanup
  BY <1>13 DEF Cleanup
<1>14. CASE PresenceRead
  BY <1>14 DEF PresenceRead
<1>15. CASE PresenceUpdate
  <2>1. handling \in Presence BY <1>15 DEF PresenceUpdate
  <2>2. [handling EXCEPT !.type = "ack"] \in Replies BY <2>1 DEF Presence, Replies
  <2>3. [type |-> "error"] \in [type : {"hello", "error"}] OBVIOUS
  <2>4. [type |-> "error"] \in Replies BY <2>3 DEF Replies
  <2>5. PICK reply \in Replies : down' = Append(down, reply) BY <1>15, <2>2, <2>4 DEF PresenceUpdate
  <2>6. node' \in {node, handling} /\ handling' = None BY <1>15 DEF PresenceUpdate
  <2>7. UNCHANGED <<link, up>> BY <1>15 DEF PresenceUpdate
  <2> QED BY <2>1, <2>5, <2>6, <2>7
<1>16. CASE Crash
  BY <1>16 DEF Crash
<1>17. ASSUME NEW enabled \in BOOLEAN, SetPolicy(enabled) PROVE Messages'
  BY <1>17 DEF SetPolicy
<1>18. ASSUME NEW t \in Threads \ {"flow"}, Compose(t) PROVE Messages'
  BY <1>18 DEF Compose
<1>19. ASSUME NEW t \in Threads, Send(t) PROVE Messages'
  <2>1. out[t] \in Presence BY <1>19 DEF Send, Places
  <2> QED BY <1>19, <2>1 DEF Send
<1>20. ASSUME NEW i \in Sessions, Lease(i) \/ Own(i) \/ SetupFails(i) PROVE Messages'
  BY <1>20 DEF Lease, Own, SetupFails
<1>21. ASSUME NEW i \in Sessions, RenewFails(i) \/ Leaves(i) \/ CarrierLost(i) \/ Ended(i) PROVE Messages'
  BY <1>21 DEF RenewFails, Leaves, CarrierLost, Ended
<1>22. ASSUME NEW i \in Sessions, Reserve(i) PROVE Messages'
  <2>1. [type |-> "offer", session |-> i] \in Replies BY DEF Replies
  <2> QED BY <1>22, <2>1 DEF Reserve
<1>23. CASE UNCHANGED vars
  BY <1>23 DEF vars
<1> HIDE DEF Messages, Event
<1> QED BY <1>1, <1>2, <1>3, <1>4, <1>5, <1>6, <1>7, <1>8, <1>9, <1>10, <1>11, <1>12, <1>13, <1>14,
    <1>15, <1>16, <1>17, <1>18, <1>19, <1>20, <1>21, <1>22, <1>23
    DEF Next, Owner, Reader, Ticker, Flow, Host, Service, Environment, Pairing, Heartbeat, Threads

LEMMA PairsStep == ASSUME Pairs, Messages, Numbers, [Next]_vars PROVE Pairs'
<1> USE DEF Pairs, SessionsAreCurrent, Open, Event, store, client, threads, service, pairings, bounds
<1>1. CASE Save \/ SaveFails \/ Begin \/ BeginFails
  BY <1>1 DEF Save, SaveFails, Begin, BeginFails
<1>2. CASE EndSharing \/ EndFails \/ NetworkChanges \/ NetworkBack
  BY <1>2 DEF EndSharing, EndFails, NetworkChanges, NetworkBack
<1>3. CASE NetworkLost \/ SuspendExit \/ Pause
  BY <1>3 DEF NetworkLost, SuspendExit, Pause, Deny, Closed
<1>4. CASE ChargeRefused \/ Withdraw \/ Connect \/ PresenceAck
  BY <1>4 DEF ChargeRefused, Withdraw, Connect, PresenceAck
<1>5. CASE Authenticated
  BY <1>5 DEF Authenticated
<1>6. CASE AuthenticatedFails
  BY <1>6 DEF AuthenticatedFails, Drop
<1>7. CASE Refused
  BY <1>7 DEF Refused
<1>8. CASE AcceptOffer
  <2>1. Head(down) \in Replies /\ Head(down).type = "offer"
    BY <1>8 DEF AcceptOffer, Reading, Messages
  <2>2. PICK i \in Sessions : Becomes(i, "pairing") \/ Over(i)
    <3>1. Head(down).session \in Sessions BY <2>1 DEF Replies
    <3> QED BY <1>8, <3>1 DEF AcceptOffer
  <2> QED BY <1>8, <2>2, OverKeeps, BecomesKeeps DEF AcceptOffer
<1>9. CASE Breaks
  BY <1>9 DEF Breaks, Drop
<1>10. CASE Cleanup
  BY <1>10 DEF Cleanup, Closed
<1>11. CASE PresenceRead \/ PresenceUpdate
  BY <1>11 DEF PresenceRead, PresenceUpdate, FreedPairs
<1>12. CASE Crash
  BY <1>12 DEF Crash
<1>13. ASSUME NEW enabled \in BOOLEAN, SetPolicy(enabled) PROVE Pairs'
  BY <1>13 DEF SetPolicy, Deny, Closed
<1>14. ASSUME NEW t \in Threads \ {"flow"}, Compose(t) PROVE Pairs'
  BY <1>14 DEF Compose
<1>15. ASSUME NEW t \in Threads, Send(t) PROVE Pairs'
  BY <1>15 DEF Send
<1>16. ASSUME NEW i \in Sessions, Lease(i) PROVE Pairs'
  <2>1. Becomes(i, "leased") \/ Over(i) BY <1>16 DEF Lease
  <2> QED BY <1>16, <2>1, OverKeeps, BecomesKeeps DEF Lease
<1>17. ASSUME NEW i \in Sessions, Own(i) PROVE Pairs'
  <2>1. (Becomes(i, "serving") /\ ticket[i] = epoch) \/ Over(i) BY <1>17 DEF Own, OwnCurrent, Current
  <2> QED BY <1>17, <2>1, OverKeeps, BecomesKeeps DEF Own
<1>18. ASSUME NEW i \in Sessions, SetupFails(i) PROVE Pairs'
  BY <1>18 DEF SetupFails, Over
<1>19. ASSUME NEW i \in Sessions, RenewFails(i) PROVE Pairs'
  BY <1>19 DEF RenewFails, Becomes
<1>20. ASSUME NEW i \in Sessions, Leaves(i) PROVE Pairs'
  BY <1>20 DEF Leaves, Becomes
<1>21. ASSUME NEW i \in Sessions, CarrierLost(i) PROVE Pairs'
  BY <1>21 DEF CarrierLost, Becomes
<1>22. ASSUME NEW i \in Sessions, Ended(i) PROVE Pairs'
  BY <1>22 DEF Ended, Over
<1>23. ASSUME NEW i \in Sessions, Reserve(i) PROVE Pairs'
  <2>1. node \in Presence BY <1>23 DEF Reserve, Messages
  <2>2. node.epoch \in Nat BY <2>1 DEF Presence
  <2> QED BY <1>23, <2>2 DEF Reserve
<1>24. CASE UNCHANGED vars
  BY <1>24 DEF vars
<1> HIDE DEF Pairs, SessionsAreCurrent, Open, Event
<1> QED BY <1>1, <1>2, <1>3, <1>4, <1>5, <1>6, <1>7, <1>8, <1>9, <1>10, <1>11, <1>12, <1>13, <1>14,
    <1>15, <1>16, <1>17, <1>18, <1>19, <1>20, <1>21, <1>22, <1>23, <1>24
    DEF Next, Owner, Reader, Ticker, Flow, Host, Service, Environment, Pairing, Heartbeat, Threads

Inductive == Flags /\ Numbers /\ Places /\ Messages /\ Pairs

LEMMA InductiveInit == Init => Inductive
<1> SUFFICES ASSUME Init PROVE Inductive
  OBVIOUS
<1>1. Flags BY DEF Init, Flags, SharingIsMarked
<1>2. Places BY DEF Init, Places, Threads
<1>3. Messages BY DEF Init, Messages
<1>4. Pairs BY DEF Init, Pairs, SessionsAreCurrent, Open
<1>5. Numbers BY DEF Init, Numbers, States
<1> QED BY <1>1, <1>2, <1>3, <1>4, <1>5 DEF Inductive

LEMMA InductiveHolds == Spec => []Inductive
<1>1. Inductive /\ [Next]_vars => Inductive'
  BY FlagsStep, NumbersStep, PlacesStep, MessagesStep, PairsStep DEF Inductive
<1> QED BY <1>1, InductiveInit, PTL DEF Spec

\* Every variable keeps its type.
THEOREM TypeCorrect == Spec => []TypeOK
<1>1. Inductive => TypeOK
  BY DEF Inductive, Flags, Numbers, Places, Messages, Pairs, TypeOK
<1> QED BY <1>1, InductiveHolds, PTL

\* exit.go:105-110, carrier.go:90-100: an open session was offered for the
\* consent that holds now.
THEOREM SessionsAreCurrentHolds == Spec => []SessionsAreCurrent
<1>1. Inductive => SessionsAreCurrent BY DEF Inductive, Pairs
<1> QED BY <1>1, InductiveHolds, PTL

\* store.go:50, 168-180: a device that may share has its marker on the disk.
THEOREM SharingIsMarkedHolds == Spec => []SharingIsMarked
<1>1. Inductive => SharingIsMarked BY DEF Inductive, Flags
<1> QED BY <1>1, InductiveHolds, PTL
=============================================================================
