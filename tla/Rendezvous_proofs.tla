-------------------------- MODULE Rendezvous_proofs --------------------------
(* Proofs about the rotation and about what a client holds, for any number   *)
(* of generations, of publications and of faults, on a node that was rotated *)
(* before and on one that was not: the offers are lost, repeated and         *)
(* reordered at will, and the rotation and the exit fail at any point.       *)
EXTENDS Rendezvous, TLAPS

-----------------------------------------------------------------------------
(* The rotation.                                                            *)

USE RotationAssumption

\* Every variable keeps its type.
LEMMA TypeStep == TypeOK /\ [Next]_vars => TypeOK'
<1> SUFFICES ASSUME TypeOK, [Next]_vars PROVE TypeOK'
  OBVIOUS
<1> USE DEF TypeOK, Files, Journals, Gens, None, Current, Empty, NoJournal, Throw, Restored, Proceed,
            Following, InstallOrder, RecoverOrder
<1>1. CASE Start
  BY <1>1 DEF Start, files
<1>2. CASE Prepare
  <2>1. newest < MaxGen => Accepted(newest + 1) \subseteq Gens
    BY DEF Accepted, Prev
  <2> QED BY <1>2, <2>1 DEF Prepare, files
<1>3. CASE WriteJournal
  BY <1>3 DEF WriteJournal
<1>4. CASE WriteConfig
  BY <1>4 DEF WriteConfig
<1>5. CASE Restart
  BY <1>5 DEF Restart, files
<1>6. CASE RestartFails
  BY <1>6 DEF RestartFails, files
<1>7. CASE WriteState
  BY <1>7 DEF WriteState
<1>8. CASE WriteDp
  BY <1>8 DEF WriteDp, Rename
<1>9. CASE Chgrp
  BY <1>9 DEF Chgrp
<1>10. CASE Unlink
  BY <1>10 DEF Unlink, JournalGone
<1>11. CASE Throws
  BY <1>11 DEF Throws, files
<1>12. CASE ThrowsLate
  <2>1. CASE step = "config" /\ config' = goal.config /\ Throw(dp)
             /\ UNCHANGED <<state, dp, readable, journal, engine, previous>>
    BY <1>12, <2>1 DEF ThrowsLate
  <2>2. CASE step = "state" /\ state' = goal.state /\ Throw(dp)
             /\ UNCHANGED <<config, dp, readable, journal, engine, previous>>
    BY <1>12, <2>2 DEF ThrowsLate
  <2>3. CASE step = "dp" /\ Rename /\ Throw(goal.dp)
             /\ UNCHANGED <<config, state, journal, engine>>
    <3>1. mode' \in {"idle", "undo"} /\ step' \in {"prepare", "config"} /\ goal' \in Files /\ newest' = newest
      BY <2>3
    <3>2. dp' \in Gens \cup {None} /\ readable' \in BOOLEAN /\ previous' \in Gens \cup {None}
      BY <2>3 DEF Rename
    <3> QED BY <1>12, <2>3, <3>1, <3>2 DEF ThrowsLate
  <2>4. CASE mode = "rotate" /\ step = "journal"
             /\ journal' = [before |-> Current, after |-> goal] /\ Throw(dp)
             /\ UNCHANGED <<config, state, dp, readable, engine, previous>>
    BY <1>12, <2>4 DEF ThrowsLate
  <2> QED BY <1>12, <2>1, <2>2, <2>3, <2>4 DEF ThrowsLate
<1>13. CASE RestartThrows
  BY <1>13 DEF RestartThrows, files
<1>14. CASE Crash
  BY <1>14 DEF Crash, files
<1>15. CASE EngineReturns
  BY <1>15 DEF EngineReturns, files, script
<1>16. CASE UNCHANGED vars
  BY <1>16 DEF vars, files, script
<1> QED
  BY <1>1, <1>2, <1>3, <1>4, <1>5, <1>6, <1>7, <1>8, <1>9, <1>10, <1>11, <1>12, <1>13, <1>14, <1>15, <1>16
     DEF Next, Call, Fault, Enough

\* The initial states have the types.
LEMMA TypeInit == Init => TypeOK
  BY DEF Init, TypeOK, Files, Journals, Gens, None, Current, Empty, NoJournal

\* The types of the rotation's files, its script and its engine.
THEOREM TypeCorrect == Spec => []TypeOK
  BY TypeInit, TypeStep, PTL DEF Spec

-----------------------------------------------------------------------------
\* The initial states satisfy the invariant.
LEMMA InvInit == Init => IInv
  BY TypeInit DEF Init, IInv, Settled, Rotating, Recovering, None, Gens, NoJournal, Empty

\* Every step keeps it.
LEMMA InvStep == IInv /\ [Next]_vars => IInv'
<1> SUFFICES ASSUME IInv, [Next]_vars PROVE IInv'
  OBVIOUS
<1>t. TypeOK /\ TypeOK'
  BY TypeStep DEF IInv
<1> USE <1>t DEF TypeOK, Files, Journals, Gens, None, Current, Empty, NoJournal
<1>1. CASE Start
  <2> USE <1>1 DEF Start, files
  <2>1. (journal = NoJournal => Settled)'
    BY DEF IInv, Settled, Journaled, Sound, Rotating, Recovering, Restored
  <2>2. (journal # NoJournal => Journaled)'
    BY DEF IInv, Settled, Journaled, Sound, Rotating, Recovering, Restored
  <2>3. Rotating'
    BY DEF IInv, Settled, Journaled, Sound, Rotating, Recovering, Restored
  <2>4. Recovering'
    BY DEF IInv, Settled, Journaled, Sound, Rotating, Recovering, Restored
  <2> QED BY <2>1, <2>2, <2>3, <2>4 DEF IInv
<1>2. CASE Prepare
  <2> USE <1>2 DEF Prepare, files
  <2>1. (journal = NoJournal => Settled)'
    BY DEF IInv, Settled, Journaled, Sound, Rotating, Recovering, Accepted, Prev
  <2>2. (journal # NoJournal => Journaled)'
    BY DEF IInv, Settled, Journaled, Sound, Rotating, Recovering, Accepted, Prev
  <2>3. Rotating'
    BY DEF IInv, Settled, Journaled, Sound, Rotating, Recovering, Accepted, Prev
  <2>4. Recovering'
    BY DEF IInv, Settled, Journaled, Sound, Rotating, Recovering, Accepted, Prev
  <2> QED BY <2>1, <2>2, <2>3, <2>4 DEF IInv
<1>3. CASE WriteJournal
  <2> USE <1>3 DEF WriteJournal
  <2>1. (journal = NoJournal => Settled)'
    BY DEF IInv, Settled, Journaled, Sound, Rotating, Recovering
  <2>2. (journal # NoJournal => Journaled)'
    BY DEF IInv, Settled, Journaled, Sound, Rotating, Recovering
  <2>3. Rotating'
    BY DEF IInv, Settled, Journaled, Sound, Rotating, Recovering
  <2>4. Recovering'
    BY DEF IInv, Settled, Journaled, Sound, Rotating, Recovering
  <2> QED BY <2>1, <2>2, <2>3, <2>4 DEF IInv
<1>4. CASE WriteConfig
  <2> USE <1>4 DEF WriteConfig
  <2>1. (journal = NoJournal => Settled)'
    BY DEF IInv, Settled, Journaled, Sound, Rotating, Recovering, Restored, Proceed, Following, InstallOrder, RecoverOrder
  <2>2. (journal # NoJournal => Journaled)'
    BY DEF IInv, Settled, Journaled, Sound, Rotating, Recovering, Restored, Proceed, Following, InstallOrder, RecoverOrder
  <2>3. Rotating'
    BY DEF IInv, Settled, Journaled, Sound, Rotating, Recovering, Restored, Proceed, Following, InstallOrder, RecoverOrder
  <2>4. Recovering'
    BY DEF IInv, Settled, Journaled, Sound, Rotating, Recovering, Restored, Proceed, Following, InstallOrder, RecoverOrder
  <2> QED BY <2>1, <2>2, <2>3, <2>4 DEF IInv
<1>5. CASE Restart
  <2> USE <1>5 DEF Restart, files
  <2>1. (journal = NoJournal => Settled)'
    BY DEF IInv, Settled, Journaled, Sound, Rotating, Recovering, Restored, Proceed, Following, InstallOrder, RecoverOrder
  <2>2. (journal # NoJournal => Journaled)'
    BY DEF IInv, Settled, Journaled, Sound, Rotating, Recovering, Restored, Proceed, Following, InstallOrder, RecoverOrder
  <2>3. Rotating'
    BY DEF IInv, Settled, Journaled, Sound, Rotating, Recovering, Restored, Proceed, Following, InstallOrder, RecoverOrder
  <2>4. Recovering'
    BY DEF IInv, Settled, Journaled, Sound, Rotating, Recovering, Restored, Proceed, Following, InstallOrder, RecoverOrder
  <2> QED BY <2>1, <2>2, <2>3, <2>4 DEF IInv
<1>6. CASE RestartFails
  <2> USE <1>6 DEF RestartFails, files
  <2>1. (journal = NoJournal => Settled)'
    BY DEF IInv, Settled, Journaled, Sound, Rotating, Recovering, Restored, Throw
  <2>2. (journal # NoJournal => Journaled)'
    BY DEF IInv, Settled, Journaled, Sound, Rotating, Recovering, Restored, Throw
  <2>3. Rotating'
    BY DEF IInv, Settled, Journaled, Sound, Rotating, Recovering, Restored, Throw
  <2>4. Recovering'
    BY DEF IInv, Settled, Journaled, Sound, Rotating, Recovering, Restored, Throw
  <2> QED BY <2>1, <2>2, <2>3, <2>4 DEF IInv
<1>7. CASE WriteState
  <2> USE <1>7 DEF WriteState
  <2>1. (journal = NoJournal => Settled)'
    BY DEF IInv, Settled, Journaled, Sound, Rotating, Recovering, Restored, Proceed, Following, InstallOrder, RecoverOrder
  <2>2. (journal # NoJournal => Journaled)'
    BY DEF IInv, Settled, Journaled, Sound, Rotating, Recovering, Restored, Proceed, Following, InstallOrder, RecoverOrder
  <2>3. Rotating'
    BY DEF IInv, Settled, Journaled, Sound, Rotating, Recovering, Restored, Proceed, Following, InstallOrder, RecoverOrder
  <2>4. Recovering'
    BY DEF IInv, Settled, Journaled, Sound, Rotating, Recovering, Restored, Proceed, Following, InstallOrder, RecoverOrder
  <2> QED BY <2>1, <2>2, <2>3, <2>4 DEF IInv
<1>8. CASE WriteDp
  <2> USE <1>8 DEF WriteDp, Rename
  <2>1. (journal = NoJournal => Settled)'
    BY DEF IInv, Settled, Journaled, Sound, Rotating, Recovering, Restored, Proceed, Following, InstallOrder, RecoverOrder
  <2>2. (journal # NoJournal => Journaled)'
    BY DEF IInv, Settled, Journaled, Sound, Rotating, Recovering, Restored, Proceed, Following, InstallOrder, RecoverOrder
  <2>3. Rotating'
    BY DEF IInv, Settled, Journaled, Sound, Rotating, Recovering, Restored, Proceed, Following, InstallOrder, RecoverOrder
  <2>4. Recovering'
    BY DEF IInv, Settled, Journaled, Sound, Rotating, Recovering, Restored, Proceed, Following, InstallOrder, RecoverOrder
  <2> QED BY <2>1, <2>2, <2>3, <2>4 DEF IInv
<1>9. CASE Chgrp
  <2> USE <1>9 DEF Chgrp
  <2>1. (journal = NoJournal => Settled)'
    BY DEF IInv, Settled, Journaled, Sound, Rotating, Recovering, Restored, Proceed, Following, InstallOrder, RecoverOrder
  <2>2. (journal # NoJournal => Journaled)'
    BY DEF IInv, Settled, Journaled, Sound, Rotating, Recovering, Restored, Proceed, Following, InstallOrder, RecoverOrder
  <2>3. Rotating'
    BY DEF IInv, Settled, Journaled, Sound, Rotating, Recovering, Restored, Proceed, Following, InstallOrder, RecoverOrder
  <2>4. Recovering'
    BY DEF IInv, Settled, Journaled, Sound, Rotating, Recovering, Restored, Proceed, Following, InstallOrder, RecoverOrder
  <2> QED BY <2>1, <2>2, <2>3, <2>4 DEF IInv
<1>10. CASE Unlink
  <2> USE <1>10 DEF Unlink, JournalGone
  <2>1. (journal = NoJournal => Settled)'
    BY DEF IInv, Settled, Journaled, Sound, Rotating, Recovering, Restored
  <2>2. (journal # NoJournal => Journaled)'
    BY DEF IInv, Settled, Journaled, Sound, Rotating, Recovering, Restored
  <2>3. Rotating'
    BY DEF IInv, Settled, Journaled, Sound, Rotating, Recovering, Restored
  <2>4. Recovering'
    BY DEF IInv, Settled, Journaled, Sound, Rotating, Recovering, Restored
  <2> QED BY <2>1, <2>2, <2>3, <2>4 DEF IInv
<1>11. CASE Throws
  <2> USE <1>11 DEF Throws, files
  <2>1. (journal = NoJournal => Settled)'
    BY DEF IInv, Settled, Journaled, Sound, Rotating, Recovering, Restored, Throw
  <2>2. (journal # NoJournal => Journaled)'
    BY DEF IInv, Settled, Journaled, Sound, Rotating, Recovering, Restored, Throw
  <2>3. Rotating'
    BY DEF IInv, Settled, Journaled, Sound, Rotating, Recovering, Restored, Throw
  <2>4. Recovering'
    BY DEF IInv, Settled, Journaled, Sound, Rotating, Recovering, Restored, Throw
  <2> QED BY <2>1, <2>2, <2>3, <2>4 DEF IInv
<1>12. CASE ThrowsLate
  <2> USE <1>12 DEF ThrowsLate, Rename
  <2>1. (journal = NoJournal => Settled)'
    BY DEF IInv, Settled, Journaled, Sound, Rotating, Recovering, Restored, Throw
  <2>2. (journal # NoJournal => Journaled)'
    BY DEF IInv, Settled, Journaled, Sound, Rotating, Recovering, Restored, Throw
  <2>3. Rotating'
    BY DEF IInv, Settled, Journaled, Sound, Rotating, Recovering, Restored, Throw
  <2>4. Recovering'
    BY DEF IInv, Settled, Journaled, Sound, Rotating, Recovering, Restored, Throw
  <2> QED BY <2>1, <2>2, <2>3, <2>4 DEF IInv
<1>13. CASE RestartThrows
  <2> USE <1>13 DEF RestartThrows, files
  <2>1. (journal = NoJournal => Settled)'
    BY DEF IInv, Settled, Journaled, Sound, Rotating, Recovering, Restored, Throw
  <2>2. (journal # NoJournal => Journaled)'
    BY DEF IInv, Settled, Journaled, Sound, Rotating, Recovering, Restored, Throw
  <2>3. Rotating'
    BY DEF IInv, Settled, Journaled, Sound, Rotating, Recovering, Restored, Throw
  <2>4. Recovering'
    BY DEF IInv, Settled, Journaled, Sound, Rotating, Recovering, Restored, Throw
  <2> QED BY <2>1, <2>2, <2>3, <2>4 DEF IInv
<1>14. CASE Crash
  <2> USE <1>14 DEF Crash, files
  <2>1. (journal = NoJournal => Settled)'
    BY DEF IInv, Settled, Journaled, Sound, Rotating, Recovering
  <2>2. (journal # NoJournal => Journaled)'
    BY DEF IInv, Settled, Journaled, Sound, Rotating, Recovering
  <2>3. Rotating'
    BY DEF IInv, Settled, Journaled, Sound, Rotating, Recovering
  <2>4. Recovering'
    BY DEF IInv, Settled, Journaled, Sound, Rotating, Recovering
  <2> QED BY <2>1, <2>2, <2>3, <2>4 DEF IInv
<1>15. CASE EngineReturns
  <2> USE <1>15 DEF EngineReturns, files, script
  <2>1. (journal = NoJournal => Settled)'
    BY DEF IInv, Settled, Journaled, Sound, Rotating, Recovering, Restored
  <2>2. (journal # NoJournal => Journaled)'
    BY DEF IInv, Settled, Journaled, Sound, Rotating, Recovering, Restored
  <2>3. Rotating'
    BY DEF IInv, Settled, Journaled, Sound, Rotating, Recovering, Restored
  <2>4. Recovering'
    BY DEF IInv, Settled, Journaled, Sound, Rotating, Recovering, Restored
  <2> QED BY <2>1, <2>2, <2>3, <2>4 DEF IInv
<1>16. CASE UNCHANGED vars
  BY <1>16 DEF vars, files, script, IInv, Settled, Journaled, Sound, Rotating, Recovering, Restored
<1> QED
  BY <1>1, <1>2, <1>3, <1>4, <1>5, <1>6, <1>7, <1>8, <1>9, <1>10, <1>11, <1>12, <1>13, <1>14, <1>15, <1>16 DEF Next, Call, Fault, Enough

LEMMA InvHolds == Spec => []IInv
  BY InvInit, InvStep, PTL DEF Spec

-----------------------------------------------------------------------------
\* rotation.mjs:4-5, 51: the advertised generation is accepted by the engine that
\* runs and by the one that would start next, at every point of a rotation, of
\* its rollback and of its completion.
THEOREM AdvertisedHolds == Spec => []AdvertisedIsServed
<1>1. IInv => AdvertisedIsServed
  BY DEF IInv, TypeOK, Settled, Journaled, Sound, AdvertisedIsServed, Files, Journals, Gens, None, Current
<1> QED BY <1>1, InvHolds, PTL

\* rotate-dp.mjs:2-3: between rotations the grace window holds.
THEOREM GraceHolds == Spec => []GraceKept
<1>1. IInv => GraceKept
  BY DEF IInv, Settled, GraceKept
<1> QED BY <1>1, InvHolds, PTL

\* rotation.mjs:4-5: what was advertised is never taken back.
THEOREM NeverWithdrawnHolds == Spec => NeverWithdrawn
<1>1. ASSUME IInv, [Next]_vars, dp' # dp PROVE dp' > dp
  <2> USE DEF IInv, TypeOK, Files, Journals, Gens, None, Current
  <2>1. mode # "idle" /\ step = "dp" /\ dp' = goal.dp
    BY <1>1 DEF Next, Call, Fault, Enough, Start, Prepare, WriteJournal, WriteConfig, Restart, RestartFails, WriteState,
       WriteDp, Chgrp, Unlink, Throws, ThrowsLate, RestartThrows, Crash, EngineReturns, Rename, vars, files, script
  <2>2. journal # NoJournal /\ dp \in {journal.before.dp, journal.after.dp} /\ journal.before.dp < journal.after.dp
    BY <1>1, <2>1 DEF Rotating, Recovering, Journaled, Sound
  <2>3. mode = "rotate"
    BY <1>1, <2>1, <2>2 DEF Recovering, Restored
  <2> QED BY <1>1, <2>1, <2>2, <2>3 DEF Rotating
<1> QED BY <1>1, InvHolds, PTL DEF Spec, NeverWithdrawn

-----------------------------------------------------------------------------
(* What the client holds.                                                   *)

\* What the client holds is one publication, one of its views or both together.
HeldIsPublished ==
  /\ held.ts \in 0 .. Len(pubs)
  /\ held.ts = 0 => held = Nothing
  /\ held.ts # 0 => held.reality = pubs[held.ts] /\ held.hy2 \in {None, pubs[held.ts]}

\* h is one publication, all of it or in part.
OfOne(h) ==
  h \in Offers /\ h.ts \in 1 .. Len(pubs) /\ h.reality = pubs[h.ts] /\ h.hy2 \in {None, pubs[h.ts]}

RInv == TypeOKRendezvous /\ HeldIsPublished

\* mergeOffer keeps that, and the time stamp only grows.
LEMMA MergeSound ==
  ASSUME RInv, NEW t \in DOMAIN pubs, NEW o \in Views(t)
  PROVE  OfOne(MergeOffer(held, o)) /\ MergeOffer(held, o).ts >= held.ts
<1> USE DEF RInv, TypeOKRendezvous, Offers
<1>1. OfOne(o) /\ o.ts = t
  BY DEF Views, DhtView, NostrView, Gens, None, OfOne
<1>2. CASE o.ts > held.ts
  BY <1>1, <1>2 DEF MergeOffer, OfOne
<1>3. CASE o.ts = held.ts
  <2>1. MergeOffer(held, o) = Union(held, o)
    BY <1>1, <1>3 DEF MergeOffer, OfOne
  <2>2. held.reality = pubs[t] /\ held.hy2 \in {None, pubs[t]} /\ held.ts = t
    BY <1>1, <1>3 DEF HeldIsPublished, OfOne
  <2>3. \E g \in {None, pubs[t]} : Union(held, o) = [ts |-> t, reality |-> pubs[t], hy2 |-> g]
    BY <1>1, <1>3, <2>2 DEF Union, OfOne
  <2>4. \A g \in {None, pubs[t]} : OfOne([ts |-> t, reality |-> pubs[t], hy2 |-> g])
    BY <1>1 DEF OfOne, None
  <2>5. OfOne(Union(held, o)) /\ Union(held, o).ts = t
    <3>1. PICK g \in {None, pubs[t]} : Union(held, o) = [ts |-> t, reality |-> pubs[t], hy2 |-> g]
      BY <2>3
    <3>2. Union(held, o).ts = t
      BY <3>1
    <3>3. OfOne(Union(held, o))
      <4> HIDE DEF RInv, TypeOKRendezvous, Offers
      <4> QED BY <3>1, <2>4, Zenon
    <3> QED BY <3>2, <3>3
  <2>6. OfOne(MergeOffer(held, o))
    BY <2>1, <2>5, Zenon
  <2>7. MergeOffer(held, o).ts = held.ts /\ held.ts \in Nat
    BY <1>1, <1>3, <2>1, <2>5
  <2> QED BY <2>6, <2>7
<1>4. CASE o.ts < held.ts
  BY <1>1, <1>4 DEF MergeOffer, HeldIsPublished, OfOne
<1> QED BY <1>1, <1>2, <1>3, <1>4

\* The initial states satisfy the invariant.
LEMMA HeldInit == InitRendezvous => RInv
  BY TypeInit DEF InitRendezvous, RInv, TypeOKRendezvous, HeldIsPublished, Nothing, Offers, ReadExtraDp, TypeOK,
     Current, Files, None, Gens

\* Every step keeps it.
LEMMA HeldStep == RInv /\ [NextRendezvous]_rendezvousVars => RInv'
<1> SUFFICES ASSUME RInv, [NextRendezvous]_rendezvousVars PROVE RInv'
  OBVIOUS
<1>1. CASE Next /\ RotationOnly
  <2>1. TypeOK'
    BY <1>1, TypeStep DEF RInv, TypeOKRendezvous
  <2> QED BY <1>1, <2>1 DEF RInv, TypeOKRendezvous, HeldIsPublished, RotationOnly, exitVars
<1>2. CASE Exit
  <2>f. faults \in 0 .. MaxFaults
    BY DEF RInv, TypeOKRendezvous, TypeOK
  <2>u. UNCHANGED <<files, engine, script, previous>>
    BY <1>2 DEF Exit, Poll, Period, PublishOnce, PublicationBlocked, Scanned, ExitRestarts, vars
  <2>n. faults' = faults \/ (faults < MaxFaults /\ faults' = faults + 1)
    BY <1>2 DEF Exit, Poll, Period, PublishOnce, PublicationBlocked, Scanned, ExitRestarts, vars
  <2>1. TypeOK'
    BY <2>f, <2>u, <2>n, RotationAssumption DEF RInv, TypeOKRendezvous, TypeOK, files, script, Current
  <2>2. ReadExtraDp \in Gens \cup {None}
    BY DEF RInv, TypeOKRendezvous, TypeOK, ReadExtraDp, Current, Files, None
  <2>3. CASE PublishOnce
    BY <2>1, <2>2, <2>3 DEF PublishOnce, RInv, TypeOKRendezvous, HeldIsPublished
  <2>4. CASE Poll \/ Period \/ PublicationBlocked \/ ExitRestarts
    BY <2>1, <2>2, <2>4 DEF Poll, Period, PublicationBlocked, ExitRestarts, Publish, RInv, TypeOKRendezvous, HeldIsPublished
  <2> QED BY <1>2, <2>3, <2>4 DEF Exit
<1>3. ASSUME NEW t \in DOMAIN pubs, NEW o \in Views(t), HandleOffer(o) PROVE RInv'
  <2>1. TypeOK'
    BY <1>3 DEF HandleOffer, RInv, TypeOKRendezvous, TypeOK, vars, files, script, Current
  <2> QED BY <1>3, <2>1, MergeSound DEF OfOne, HandleOffer, exitVars, RInv, TypeOKRendezvous, HeldIsPublished
<1>4. CASE UNCHANGED rendezvousVars
  <2>1. TypeOK'
    BY <1>4 DEF rendezvousVars, RInv, TypeOKRendezvous, TypeOK, vars, files, script, Current
  <2> QED BY <1>4, <2>1 DEF rendezvousVars, exitVars, RInv, TypeOKRendezvous, HeldIsPublished
<1> QED BY <1>1, <1>2, <1>3, <1>4 DEF NextRendezvous, Sealed, Lookup, Replay, Views

LEMMA HeldHolds == SpecRendezvous => []RInv
  BY HeldInit, HeldStep, PTL DEF SpecRendezvous

-----------------------------------------------------------------------------
\* The types of the exit's and the client's state, and of the node's.
THEOREM RendezvousTypeCorrect == SpecRendezvous => []TypeOKRendezvous
<1>1. RInv => TypeOKRendezvous
  BY DEF RInv
<1> QED BY <1>1, HeldHolds, PTL

\* offer.mjs:5-14: a client never mixes the credentials of two publications.
THEOREM HeldIsWholeHolds == SpecRendezvous => []HeldIsWhole
<1>1. RInv => HeldIsWhole
  BY DEF RInv, HeldIsPublished, HeldIsWhole, Nothing
<1> QED BY <1>1, HeldHolds, PTL

\* offer.mjs:27: no stale record takes a client back to an earlier publication.
THEOREM HeldNeverOlderHolds == SpecRendezvous => HeldNeverOlder
<1>1. RInv /\ [NextRendezvous]_rendezvousVars => [held'.ts >= held.ts]_rendezvousVars
  <2> SUFFICES ASSUME RInv, NextRendezvous PROVE held'.ts >= held.ts
    BY DEF rendezvousVars
  <2>1. held.ts \in Nat
    BY DEF RInv, TypeOKRendezvous, Offers
  <2>2. CASE (Next /\ RotationOnly) \/ Exit
    BY <2>1, <2>2 DEF RotationOnly, Exit, Poll, Period, PublishOnce, PublicationBlocked, ExitRestarts
  <2>3. ASSUME NEW t \in DOMAIN pubs, NEW o \in Views(t), HandleOffer(o) PROVE held'.ts >= held.ts
    BY <2>3, MergeSound DEF HandleOffer
  <2> QED BY <2>2, <2>3 DEF NextRendezvous, Sealed, Lookup, Replay, Views
<1> QED BY <1>1, HeldHolds, PTL DEF SpecRendezvous, HeldNeverOlder
=============================================================================
