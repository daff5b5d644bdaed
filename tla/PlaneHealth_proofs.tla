------------------------- MODULE PlaneHealth_proofs -------------------------
(***************************************************************************)
(* For any set of pairs and streams, any ladder and any window: a pair     *)
(* climbs one step of the ladder per window, and a pause is lengthened     *)
(* only by a stream begun before the failure it follows.                   *)
(*                                                                         *)
(* And of the client that asks this policy (Client): for any exits, planes *)
(* and applications there is one connection per exit, and no stream        *)
(* without its two ends.                                                   *)
(*                                                                         *)
(* And of a hedged dial over the pairs it judges (HedgedDial): for any     *)
(* servers and transports the candidates are in order, no connection is    *)
(* lost, an error has tried them all, and only a failure pauses a pair.    *)
(***************************************************************************)
EXTENDS PlaneHealth, Client, HedgedDial, FiniteSetTheorems, SequenceTheorems, WellFoundedInduction, TLAPS

\* A stream that is no last resort was begun while its pair was usable: where
\* the pair is paused now, it failed since.
BegunBeforeFailure ==
  \A s \in Streams :
    place[s] # "idle" =>
      /\ start[s] <= now
      /\ (~ last[s] /\ ~ Usable(pair[s])) => start[s] <= entry[pair[s]].failedAt

IInv == TypeOK /\ EscalationTakesTime /\ BegunBeforeFailure

\* What EscalationTakesTime says of one entry at an instant.
Rung(e, t) ==
  e.fails > 0 =>
    /\ e.failedAt >= 1 + (e.fails - 1) * Window
    /\ e.failedAt <= t
    /\ e.until = e.failedAt + NextBackoff(e.fails)

\* The ladder (nextBackoff) holds lengths of time.
LEMMA BackoffType ==
  ASSUME NEW n \in Nat, n > 0 PROVE NextBackoff(n) \in Nat
  BY HealthAssumption DEF HealthAssumption, NextBackoff

\* n windows and one more are n + 1 windows.
LEMMA OneMoreWindow ==
  ASSUME NEW n \in Nat PROVE (n + 1 - 1) * Window = (n - 1) * Window + Window
  BY HealthAssumption DEF HealthAssumption

\* What each verdict leaves of an entry is an entry, on its rung of the ladder.
LEMMA VerdictEntry ==
  ASSUME TypeOK, NEW e \in Entry, Rung(e, now)
  PROVE  /\ Clear \in Entry /\ Rung(Clear, now)
         /\ Slowed \in Entry /\ Rung(Slowed, now)
         /\ Failed(e) \in Entry /\ Rung(Failed(e), now)
         /\ Failed(e) # e => Failed(e).failedAt = now
<1>a. now \in Nat \ {0} BY DEF TypeOK
<1>b. Window \in Nat /\ Demote \in Nat BY HealthAssumption DEF HealthAssumption
<1>1. Clear \in Entry /\ Rung(Clear, now) BY DEF Clear, Entry, Rung
<1>2. Slowed \in Entry /\ Rung(Slowed, now) BY <1>a, <1>b DEF Slowed, Clear, Entry, Rung
<1>3. CASE Repeat(e)
  BY <1>1, <1>2, <1>3 DEF Failed
<1>4. CASE ~ Repeat(e)
  <2> DEFINE n == e.fails + 1
             f == [fails |-> n, until |-> now + NextBackoff(n),
                   demoted |-> e.demoted, failedAt |-> now]
  <2>1. e.fails \in Nat /\ e.failedAt \in Nat /\ e.demoted \in Nat BY DEF Entry
  <2>2. Failed(e) = f BY <1>4 DEF Failed
  <2>3. NextBackoff(n) \in Nat BY <2>1, BackoffType
  <2>4. f \in Entry BY <1>a, <2>1, <2>3 DEF Entry
  <2>5. now >= 1 + (n - 1) * Window
    <3>1. CASE e.fails = 0
      <4>1. (n - 1) * Window = 0 BY <3>1, <1>b
      <4> QED BY <4>1, <1>a
    <3>2. CASE e.fails > 0
      <4>1. e.failedAt >= 1 + (e.fails - 1) * Window BY <3>2 DEF Rung
      <4>2. (e.fails - 1) * Window \in Nat BY <3>2, <2>1, <1>b
      <4>3. now - e.failedAt >= Window BY <4>1, <4>2, <1>4, <1>a, <1>b, <2>1 DEF Repeat
      <4>4. (n - 1) * Window = (e.fails - 1) * Window + Window BY OneMoreWindow, <2>1
      <4> HIDE DEF n
      <4> QED BY <4>1, <4>2, <4>3, <4>4, <1>a, <1>b, <2>1
    <3> QED BY <3>1, <3>2, <2>1
  <2>6. Rung(f, now) BY <2>5, <2>3, <1>a, <2>1 DEF Rung
  <2>7. f.failedAt = now OBVIOUS
  <2> HIDE DEF f
  <2> QED BY <1>1, <1>2, <2>2, <2>4, <2>6, <2>7
<1> QED BY <1>3, <1>4

\* EscalationTakesTime, entry by entry.
LEMMA RungOfEach ==
  EscalationTakesTime <=> \A p \in Pairs : Rung(entry[p], now)
  BY DEF EscalationTakesTime, Rung

\* A step of the policy: no entry changes, or that of one pair is cleared,
\* demoted or failed.
Verdict(p) == Ok(p) \/ Slow(p) \/ Fail(p)

\* Every step judges one pair by a stream that the pair carries, or none; an
\* open stream's pair, start and rank stay, and a new one's are those of its dial.
Judges(s) ==
  /\ now' = now
  /\ \/ entry' = entry
     \/ Ok(pair[s]) \/ Slow(pair[s])
     \/ Fail(pair[s]) /\ ~ last[s] /\ place[s] # "idle"

\* The streams other than those a dial begins are the ones of before.
Kept(s) ==
  place'[s] # "idle" =>
    place[s] # "idle" /\ pair'[s] = pair[s] /\ start'[s] = start[s] /\ last'[s] = last[s]

\* The steps of a stream that is under way.
StreamStep(s) ==
  \/ OpenFails(s) \/ Opened(s) \/ FirstByte(s) \/ ReadFails(s) \/ Silence(s)
  \/ \E reading \in BOOLEAN : Close(s, reading)
  \/ ReadWakes(s)

\* What a step of a stream may change.
LEMMA StreamStepDoes ==
  ASSUME TypeOK, NEW s \in Streams, StreamStep(s)
  PROVE  Judges(s) /\ (\A r \in Streams : Kept(r))
<1> USE DEF TypeOK, Judges, Kept, FailUnlessLast, Places
<1>1. CASE OpenFails(s) BY <1>1 DEF OpenFails, End, StreamGoes
<1>2. CASE Opened(s) BY <1>2 DEF Opened, StreamGoes
<1>3. CASE FirstByte(s) BY <1>3 DEF FirstByte, Judge
<1>4. CASE ReadFails(s) BY <1>4 DEF ReadFails, ReadEnds, End, StreamGoes
<1>5. CASE Silence(s) BY <1>5 DEF Silence, Judge
<1>6. CASE \E reading \in BOOLEAN : Close(s, reading) BY <1>6 DEF Close, End, StreamGoes
<1>7. CASE ReadWakes(s) BY <1>7 DEF ReadWakes, ReadEnds, End, StreamGoes
<1> QED BY <1>1, <1>2, <1>3, <1>4, <1>5, <1>6, <1>7 DEF StreamStep

\* The types hold at first.
LEMMA TypeInit == Init => TypeOK
<1> SUFFICES ASSUME Init PROVE TypeOK OBVIOUS
<1>1. SomePair \in Pairs BY HealthAssumption DEF HealthAssumption, SomePair
<1>2. Clear \in Entry BY DEF Clear, Entry
<1> QED BY <1>1, <1>2 DEF Init, TypeOK, Places, Verdicts

\* What the verdicts make of the entries.
LEMMA EntriesStay ==
  ASSUME TypeOK, EscalationTakesTime, NEW p \in Pairs, entry' = entry \/ Verdict(p)
  PROVE  entry' \in [Pairs -> Entry] /\ \A q \in Pairs : Rung(entry'[q], now)
<1>1. \A q \in Pairs : entry[q] \in Entry /\ Rung(entry[q], now) BY RungOfEach DEF TypeOK
<1>2. entry \in [Pairs -> Entry] BY DEF TypeOK
<1> DEFINE e == entry[p]
<1>3. /\ Clear \in Entry /\ Rung(Clear, now)
      /\ Slowed \in Entry /\ Rung(Slowed, now)
      /\ Failed(e) \in Entry /\ Rung(Failed(e), now)
  BY <1>1, VerdictEntry
<1>4. CASE entry' = entry BY <1>1, <1>2, <1>4
<1>5. CASE Ok(p) BY <1>1, <1>2, <1>3, <1>5 DEF Ok
<1>6. CASE Slow(p) BY <1>1, <1>2, <1>3, <1>6 DEF Slow
<1>7. CASE Fail(p) BY <1>1, <1>2, <1>3, <1>7 DEF Fail
<1> QED BY <1>4, <1>5, <1>6, <1>7 DEF Verdict

\* A step of a stream keeps the types.
LEMMA TypeStream ==
  ASSUME TypeOK, EscalationTakesTime, NEW s \in Streams, StreamStep(s) PROVE TypeOK'
<1>1. entry' \in [Pairs -> Entry]
  <2>1. pair[s] \in Pairs BY DEF TypeOK
  <2> QED BY <2>1, EntriesStay, StreamStepDoes DEF Judges, Verdict
<1>2. SomePair \in Pairs BY HealthAssumption DEF HealthAssumption, SomePair
<1>3. now' = now BY StreamStepDoes DEF Judges
<1> USE <1>1, <1>2, <1>3 DEF TypeOK, Places, Verdicts
<1>4. CASE OpenFails(s) BY <1>4 DEF OpenFails, End, StreamGoes
<1>5. CASE Opened(s) BY <1>5 DEF Opened, StreamGoes
<1>6. CASE FirstByte(s) BY <1>6 DEF FirstByte, Judge
<1>7. CASE ReadFails(s) BY <1>7 DEF ReadFails, ReadEnds, End, StreamGoes
<1>8. CASE Silence(s) BY <1>8 DEF Silence, Judge
<1>9. ASSUME NEW reading \in BOOLEAN, Close(s, reading) PROVE TypeOK'
  <2>1. CASE reading = TRUE BY <1>9, <2>1 DEF Close, StreamGoes
  <2>2. CASE reading = FALSE
    <3>1. End(s) BY <1>9, <2>2 DEF Close
    <3> QED BY <3>1 DEF End, StreamGoes
  <2> QED BY <2>1, <2>2
<1>10. CASE ReadWakes(s) BY <1>10 DEF ReadWakes, ReadEnds, End, StreamGoes
<1> QED BY <1>4, <1>5, <1>6, <1>7, <1>8, <1>9, <1>10 DEF StreamStep

\* A verdict keeps what is known of the streams that stay as they were.
LEMMA BegunStays ==
  ASSUME IInv, TypeOK', NEW s \in Streams, StreamStep(s) PROVE BegunBeforeFailure'
<1> SUFFICES ASSUME NEW r \in Streams, place'[r] # "idle"
             PROVE  /\ start'[r] <= now'
                    /\ (~ last'[r] /\ ~ (entry'[pair'[r]].until <= now')) =>
                         start'[r] <= entry'[pair'[r]].failedAt
  BY DEF BegunBeforeFailure, Usable
<1> DEFINE p == pair[r]
           q == pair[s]
<1>1. Kept(r) /\ Judges(s) BY StreamStepDoes DEF IInv
<1>2. place[r] # "idle" /\ pair'[r] = p /\ start'[r] = start[r] /\ last'[r] = last[r]
  BY <1>1 DEF Kept
<1>3. start[r] <= now /\ now' = now /\ start[r] \in Nat /\ now \in Nat
  BY <1>1, <1>2 DEF IInv, BegunBeforeFailure, Judges, TypeOK
<1>4. (~ last[r] /\ ~ (entry[p].until <= now)) => start[r] <= entry[p].failedAt
  BY <1>2 DEF IInv, BegunBeforeFailure, Usable
<1>5. p \in Pairs /\ q \in Pairs /\ entry \in [Pairs -> Entry] BY DEF IInv, TypeOK
<1>6. CASE entry'[p] = entry[p] BY <1>2, <1>3, <1>4, <1>6
<1>7. CASE entry'[p] # entry[p]
  <2>1. p = q BY <1>1, <1>5, <1>7 DEF Judges, Ok, Slow, Fail
  <2>2. CASE Ok(q)
    <3>1. entry'[p].until = 0 BY <2>1, <2>2, <1>5 DEF Ok, Clear
    <3> QED BY <3>1, <1>2, <1>3
  <2>3. CASE Slow(q)
    <3>1. entry'[p].until = 0 BY <2>1, <2>3, <1>5 DEF Slow, Slowed, Clear
    <3> QED BY <3>1, <1>2, <1>3
  <2>4. CASE Fail(q)
    <3>1. entry'[p] = Failed(entry[p]) BY <2>1, <2>4, <1>5 DEF Fail
    <3>2. Rung(entry[p], now) BY <1>5, RungOfEach DEF IInv
    <3>3. entry'[p].failedAt = now BY <3>1, <3>2, <1>5, <1>7, VerdictEntry DEF IInv
    <3> QED BY <3>3, <1>2, <1>3
  <2> QED BY <2>2, <2>3, <2>4, <1>1, <1>7 DEF Judges
<1> QED BY <1>6, <1>7

\* A dial begins with a usable pair or is a last resort.
LEMMA OpenKeeps ==
  ASSUME IInv, NEW s \in Streams, NEW p \in Pairs, Open(s, p) PROVE IInv'
<1>1. TypeOK'
  BY DEF IInv, Open, StreamGoes, TypeOK, Places
<1>2. EscalationTakesTime' BY DEF IInv, Open, EscalationTakesTime
<1>3. BegunBeforeFailure'
  <2> SUFFICES ASSUME NEW r \in Streams, place'[r] # "idle"
               PROVE  /\ start'[r] <= now'
                      /\ (~ last'[r] /\ ~ (entry'[pair'[r]].until <= now')) =>
                           start'[r] <= entry'[pair'[r]].failedAt
    BY DEF BegunBeforeFailure, Usable
  <2>1. now' = now /\ entry' = entry /\ now \in Nat BY DEF Open, IInv, TypeOK
  <2>2. CASE r = s
    <3>1. start'[r] = now /\ pair'[r] = p /\ (last'[r] <=> ~ (entry[p].until <= now))
      BY <2>2 DEF Open, IInv, TypeOK, Usable
    <3> QED BY <3>1, <2>1
  <2>3. CASE r # s
    <3>1. place[r] # "idle" /\ start'[r] = start[r] /\ pair'[r] = pair[r] /\ last'[r] = last[r]
      BY <2>3 DEF Open, StreamGoes, IInv, TypeOK
    <3> QED BY <3>1, <2>1 DEF IInv, BegunBeforeFailure, Usable
  <2> QED BY <2>2, <2>3
<1> QED BY <1>1, <1>2, <1>3 DEF IInv

\* The clock only ends pauses.
LEMMA TickKeeps == ASSUME IInv, Tick PROVE IInv'
<1>1. now \in Nat \ {0} /\ now' = now + 1 /\ entry' = entry /\ UNCHANGED streamVars
  BY DEF IInv, TypeOK, Tick
<1>2. TypeOK' BY <1>1 DEF IInv, TypeOK, streamVars
<1>3. EscalationTakesTime'
  <2>1. \A p \in Pairs : entry[p] \in Entry BY DEF IInv, TypeOK
  <2> QED BY <1>1, <2>1 DEF IInv, EscalationTakesTime, Entry
<1>4. BegunBeforeFailure'
  <2> SUFFICES ASSUME NEW r \in Streams, place[r] # "idle"
               PROVE  /\ start[r] <= now + 1
                      /\ (~ last[r] /\ ~ (entry[pair[r]].until <= now + 1)) =>
                           start[r] <= entry[pair[r]].failedAt
    BY <1>1 DEF BegunBeforeFailure, Usable, streamVars
  <2>1. entry[pair[r]] \in Entry /\ start[r] \in Nat BY DEF IInv, TypeOK
  <2>2. start[r] <= now BY DEF IInv, BegunBeforeFailure
  <2>3. (~ last[r] /\ ~ (entry[pair[r]].until <= now)) => start[r] <= entry[pair[r]].failedAt
    BY DEF IInv, BegunBeforeFailure, Usable
  <2> QED BY <1>1, <2>1, <2>2, <2>3 DEF Entry
<1> QED BY <1>2, <1>3, <1>4 DEF IInv

\* The invariant holds at first.
LEMMA InvInit == Init => IInv
<1> SUFFICES ASSUME Init PROVE IInv OBVIOUS
<1>1. EscalationTakesTime BY DEF Init, EscalationTakesTime, Clear
<1>2. BegunBeforeFailure BY DEF Init, BegunBeforeFailure
<1> QED BY <1>1, <1>2, TypeInit DEF IInv

\* Every step keeps the invariant.
LEMMA InvStep == IInv /\ [Next]_vars => IInv'
<1> SUFFICES ASSUME IInv, [Next]_vars PROVE IInv' OBVIOUS
<1>1. CASE \E s \in Streams, p \in Pairs : Open(s, p) BY <1>1, OpenKeeps
<1>2. ASSUME NEW s \in Streams, StreamStep(s) PROVE IInv'
  <2>1. TypeOK' BY <1>2, TypeStream DEF IInv
  <2>2. BegunBeforeFailure' BY <1>2, <2>1, BegunStays
  <2>3. pair[s] \in Pairs BY DEF IInv, TypeOK
  <2>4. Judges(s) BY <1>2, StreamStepDoes DEF IInv
  <2>5. \A q \in Pairs : Rung(entry'[q], now')
    BY <2>3, <2>4, EntriesStay DEF IInv, Judges, Verdict
  <2>6. EscalationTakesTime' BY <2>5 DEF EscalationTakesTime, Rung
  <2> QED BY <2>1, <2>2, <2>6 DEF IInv
<1>3. CASE Tick BY <1>3, TickKeeps
<1>4. CASE UNCHANGED vars
  BY <1>4 DEF vars, streamVars, IInv, TypeOK, EscalationTakesTime, BegunBeforeFailure, Usable
<1> QED BY <1>1, <1>2, <1>3, <1>4 DEF Next, StreamStep

\* The policy and the streams keep to their types.
THEOREM TypeCorrect == Spec => []TypeOK
<1>1. IInv => TypeOK BY DEF IInv
<1> QED BY InvInit, InvStep, <1>1, PTL DEF Spec

\* A pair climbs one step of the ladder per window, whatever fails at once.
THEOREM EscalationHolds == Spec => []EscalationTakesTime
<1>1. IInv => EscalationTakesTime BY DEF IInv
<1> QED BY InvInit, InvStep, <1>1, PTL DEF Spec

\* A pause is lengthened only by a stream begun before the failure it follows.
THEOREM PauseHolds == Spec => PauseIsNotFed
<1> DEFINE Fed == \A p \in Pairs :
             (~ Usable(p) /\ entry'[p].until > entry[p].until) =>
               \E s \in Streams : place[s] # "idle" /\ pair[s] = p /\ start[s] <= entry[p].failedAt
<1>1. IInv /\ [Next]_vars => [Fed]_vars
  <2> SUFFICES ASSUME IInv, Next, NEW p \in Pairs, ~ Usable(p), entry'[p].until > entry[p].until
               PROVE  \E s \in Streams : place[s] # "idle" /\ pair[s] = p /\ start[s] <= entry[p].failedAt
    OBVIOUS
  <2>1. entry[p] \in Entry /\ entry \in [Pairs -> Entry] BY DEF IInv, TypeOK
  <2>2. entry'[p] # entry[p] BY <2>1 DEF Entry
  <2>3. PICK s \in Streams : StreamStep(s)
    BY <2>2 DEF Next, StreamStep, Open, Tick
  <2>4. Judges(s) BY <2>3, StreamStepDoes DEF IInv
  <2>5. pair[s] \in Pairs BY DEF IInv, TypeOK
  <2>6. pair[s] = p BY <2>1, <2>2, <2>4, <2>5 DEF Judges, Ok, Slow, Fail
  <2>7. ~ Ok(p) BY <2>1 DEF Ok, Clear, Entry
  <2>8. ~ Slow(p) BY <2>1 DEF Slow, Slowed, Clear, Entry
  <2>9. ~ last[s] /\ place[s] # "idle" BY <2>2, <2>4, <2>6, <2>7, <2>8 DEF Judges
  <2>10. start[s] <= entry[p].failedAt BY <2>6, <2>9 DEF IInv, BegunBeforeFailure
  <2> QED BY <2>6, <2>9, <2>10
<1>2. Spec => []IInv BY InvInit, InvStep, PTL DEF Spec
<1> QED BY <1>1, <1>2, PTL DEF Spec, PauseIsNotFed

-----------------------------------------------------------------------------
(* The client's requests and the sessions they share (Client).              *)

\* Records, whatever the candidates are a sequence of.
Fields == {"kind", "at", "alive", "exits", "stale", "turn", "pair", "queued"}
Whole(r) == DOMAIN r = Fields /\ r = [x \in Fields |-> r[x]]

\* A request at one of these places is about a pair that is offered, of the native
\* plane or of the engine; where it holds a stream or relay of a session, there is one.
Fit(r) ==
  /\ Whole(r) /\ r.turn \in Nat
  /\ r.at \in {"session", "resolved", "rejected", "stream"} => r.pair \in RoutePairs /\ r.pair[2] = "mgt"
  /\ r.at = "engine" => r.pair \in RoutePairs /\ r.pair[2] # "mgt"
  /\ r.at = "open" => r.alive /\ r.pair \in RoutePairs \cup {None}
  /\ r.at \in {"stream", "open"} /\ r.pair # None /\ r.pair[2] = "mgt" => live[r.pair[1]] = 1

PoolTypes == dialing \in [Exits -> Nat] /\ live \in [Exits -> Nat]

RouteInv ==
  /\ PoolTypes /\ SingleConnection
  /\ DOMAIN app = Apps /\ \A a \in Apps : Fit(app[a])

LEMMA LeastIsOne ==
  ASSUME NEW S \in SUBSET Nat, S # {} PROVE Min(S) \in S
<1>1. PICK x \in S : \A y \in S : ~ (<<y, x>> \in OpToRel(<, Nat))
  BY NatLessThanWellFounded, WFMin
<1>2. \A y \in S : <<y, x>> \in OpToRel(<, Nat) <=> y < x
  BY DEF OpToRel
<1>3. \A y \in S : ~ (y < x)
  BY <1>1, <1>2
<1>4. \A y \in S : x =< y
  BY <1>3
<1> QED BY <1>4 DEF Min

\* One request goes on, the sessions as before or one more being made.
LEMMA OneGoesOn ==
  ASSUME RouteInv, NEW a \in Apps, NEW r, Fit(r), app' = [app EXCEPT ![a] = r], live' = live,
         PoolTypes', SingleConnection'
  PROVE  RouteInv'
<1>1. DOMAIN app' = Apps /\ \A b \in Apps : app'[b] = IF b = a THEN r ELSE app[b]
  BY DEF RouteInv
<1>2. ASSUME NEW b \in Apps PROVE Fit(app[b])'
  <2>1. Fit(app[b])
    BY DEF RouteInv
  <2> QED BY <1>1, <2>1 DEF Fit
<1> QED BY <1>1, <1>2 DEF RouteInv

PoolSame == UNCHANGED <<sessions, pending, dialing, live>>

LEMMA IdleFits == Fit(Idle)
  BY DEF Fit, Whole, Fields, Idle

LEMMA PoolKept ==
  ASSUME RouteInv, PoolSame
  PROVE  PoolTypes' /\ SingleConnection' /\ live' = live
  BY DEF RouteInv, PoolTypes, SingleConnection, PoolSame

\* getSessionFor makes a connection only where there is no session and none is made.
LEMMA GetSessionKeeps ==
  ASSUME RouteInv, NEW a \in Apps, NEW r, Whole(r), r.turn \in Nat,
         r.pair \in RoutePairs, r.pair[2] = "mgt", NEW e, e = r.pair[1], GetSession(a, r, e)
  PROVE  RouteInv'
<1>1. ASSUME NEW w \in {"session", "resolved", "rejected"} PROVE Fit([r EXCEPT !.at = w])
  <2> DEFINE q == [r EXCEPT !.at = w]
  <2>1. Whole(q) /\ q.at = w /\ q.turn = r.turn /\ q.pair = r.pair
    BY DEF Whole, Fields
  <2> HIDE DEF q
  <2>2. Fit(q)
    BY <1>1, <2>1 DEF Fit
  <2> QED BY <2>2 DEF q
<1>2. CASE PoolSame /\ \E w \in {"session", "resolved", "rejected"} : Set(a, [r EXCEPT !.at = w])
  <2>1. PICK w \in {"session", "resolved", "rejected"} : Set(a, [r EXCEPT !.at = w])
    BY <1>2
  <2> DEFINE q == [r EXCEPT !.at = w]
  <2>2. Fit(q) /\ app' = [app EXCEPT ![a] = q]
    BY <1>1, <2>1 DEF Set
  <2> HIDE DEF q
  <2> QED BY <1>2, <2>2, PoolKept, OneGoesOn
<1>3. CASE /\ e \notin sessions /\ e \notin pending
           /\ Set(a, [r EXCEPT !.at = "session"])
           /\ pending' = pending \cup {e} /\ dialing' = [dialing EXCEPT ![e] = @ + 1]
           /\ UNCHANGED <<sessions, live>>
  <2>1. e \in Exits
    BY DEF RoutePairs
  <2>2. dialing[e] \in Nat /\ live[e] \in Nat
    BY <2>1 DEF RouteInv, PoolTypes
  <2>3. dialing[e] + live[e] <= 1 /\ live[e] # 1 /\ dialing[e] # 1
    BY <1>3, <2>1 DEF RouteInv, SingleConnection
  <2>4. dialing[e] = 0 /\ live[e] = 0
    BY <2>2, <2>3
  <2>5. PoolTypes' /\ dialing'[e] = 1 /\ \A f \in Exits \ {e} : dialing'[f] = dialing[f]
    BY <1>3, <2>1, <2>4 DEF RouteInv, PoolTypes
  <2>6. SingleConnection'
    BY <1>3, <2>4, <2>5 DEF RouteInv, PoolTypes, SingleConnection
  <2> DEFINE q == [r EXCEPT !.at = "session"]
  <2>7. Fit(q) /\ app' = [app EXCEPT ![a] = q] /\ live' = live
    BY <1>1, <1>3 DEF Set
  <2> HIDE DEF q
  <2> QED BY <2>5, <2>6, <2>7, OneGoesOn
<1> QED BY <1>2, <1>3 DEF GetSession, PoolSame, pool, IsAwaited

\* The loop goes on with a pair that is offered, or the request ends.
LEMMA TryKeeps ==
  ASSUME RouteInv, NEW a \in Apps, NEW r, Whole(r), NEW from \in Nat, NEW bad, Try(a, r, from, bad)
  PROVE  RouteInv'
<1> DEFINE turns == Len(r.exits) * Len(PlanesFor(a))
           Possible(t) == PairAt(r, t, Robin(a)) \in RoutePairs \ bad
           left == {t \in from .. turns - 1 : Possible(t)}
           turn == Min(left)
           chosen == PairAt(r, turn, Robin(a))
           tried == [r EXCEPT !.turn = turn, !.pair = chosen]
<1>1. \/ EndOf(a) /\ PoolSame
      \/ left # {} /\ chosen[2] = "mgt" /\ GetSession(a, tried, chosen[1])
      \/ left # {} /\ chosen[2] # "mgt" /\ Set(a, [tried EXCEPT !.at = "engine"]) /\ PoolSame
  BY DEF Try, PoolSame, pool
<1>2. CASE EndOf(a) /\ PoolSame
  BY <1>2, IdleFits, PoolKept, OneGoesOn DEF EndOf, Set
<1>3. left # {} => turn \in Nat /\ chosen \in RoutePairs
  <2>1. left \subseteq Nat
    OBVIOUS
  <2>2. left # {} => turn \in left
    BY <2>1, LeastIsOne
  <2> QED BY <2>1, <2>2
<1> HIDE DEF left, turn, chosen
<1>4. left # {} => Whole(tried) /\ tried.turn \in Nat /\ tried.pair = chosen /\ chosen \in RoutePairs
  BY <1>3 DEF Whole, Fields
<1> HIDE DEF tried
<1>5. CASE left # {} /\ chosen[2] = "mgt" /\ GetSession(a, tried, chosen[1])
  BY <1>4, <1>5, GetSessionKeeps
<1>6. CASE left # {} /\ chosen[2] # "mgt" /\ Set(a, [tried EXCEPT !.at = "engine"]) /\ PoolSame
  <2> DEFINE q == [tried EXCEPT !.at = "engine"]
  <2>1. Whole(q) /\ q.at = "engine" /\ q.turn = tried.turn /\ q.pair = chosen
    BY <1>4, <1>6 DEF Whole, Fields
  <2>2. app' = [app EXCEPT ![a] = q]
    BY <1>6 DEF Set
  <2> HIDE DEF q
  <2>3. Fit(q)
    BY <1>4, <1>6, <2>1 DEF Fit
  <2> QED BY <1>6, <2>2, <2>3, PoolKept, OneGoesOn
<1> QED BY <1>1, <1>2, <1>5, <1>6

LEMMA FailsKeeps ==
  ASSUME RouteInv, NEW a \in Apps, Fails(a)
  PROVE  RouteInv'
<1>1. Whole(app[a]) /\ app[a].turn + 1 \in Nat
  BY DEF RouteInv, Fit
<1> QED BY <1>1, TryKeeps DEF Fails

LEMMA ServesKeeps ==
  ASSUME RouteInv, NEW a \in Apps, Serves(a), app[a].alive, app[a].pair \in RoutePairs,
         app[a].pair # None /\ app[a].pair[2] = "mgt" => live[app[a].pair[1]] = 1
  PROVE  RouteInv'
<1> DEFINE r == [Idle EXCEPT !.at = "open", !.alive = app[a].alive, !.pair = app[a].pair]
<1>1. Fit(r)
  <2>1. Whole(r) /\ r.turn = 0 /\ r.at = "open" /\ r.alive = app[a].alive /\ r.pair = app[a].pair
    BY DEF Whole, Fields, Idle
  <2> HIDE DEF r
  <2> QED BY <2>1 DEF Fit
<1>2. app' = [app EXCEPT ![a] = r] /\ PoolSame
  BY DEF Serves, Set, PoolSame, pool
<1> HIDE DEF r
<1> QED BY <1>1, <1>2, PoolKept, OneGoesOn

LEMMA NothingGoesOn ==
  ASSUME RouteInv, app' = app, PoolSame
  PROVE  RouteInv'
<1>1. PoolTypes' /\ SingleConnection' /\ live' = live
  BY PoolKept
<1> QED BY <1>1 DEF RouteInv, Fit

LEMMA ExpiryKeeps ==
  ASSUME RouteInv, NEW e, OfferExpires(e)
  PROVE  RouteInv'
<1>1. PoolSame /\ app' = [a \in Apps |-> IF e \in Range(app[a].exits) THEN [app[a] EXCEPT !.stale = @ \cup {e}] ELSE app[a]]
  BY DEF OfferExpires, PoolSame, pool
<1>2. PoolTypes' /\ SingleConnection' /\ live' = live
  BY <1>1, PoolKept
<1>3. ASSUME NEW b \in Apps PROVE Fit(app[b])'
  <2>1. Fit(app[b]) /\ (app'[b] = app[b] \/ app'[b] = [app[b] EXCEPT !.stale = @ \cup {e}])
    BY <1>1 DEF RouteInv
  <2>2. /\ Whole(app'[b]) /\ app'[b].at = app[b].at /\ app'[b].turn = app[b].turn
        /\ app'[b].pair = app[b].pair /\ app'[b].alive = app[b].alive
    BY <2>1 DEF Fit, Whole, Fields
  <2> QED BY <1>2, <2>1, <2>2 DEF Fit
<1>4. DOMAIN app' = Apps
  BY <1>1
<1> QED BY <1>2, <1>3, <1>4 DEF RouteInv

LEMMA RequestKeeps ==
  ASSUME RouteInv, NEW a \in Apps, NEW kind, Request(a, kind)
  PROVE  RouteInv'
<1> DEFINE r == [Idle EXCEPT !.kind = kind, !.alive = TRUE, !.queued = 1,
                              !.at = IF kind = "direct" THEN "direct" ELSE "waiting"]
<1>1. Whole(r) /\ r.turn = 0 /\ (r.at = "direct" \/ r.at = "waiting")
  BY DEF Whole, Fields, Idle
<1>2. app' = [app EXCEPT ![a] = r] /\ PoolSame
  BY DEF Request, Set, PoolSame, pool
<1> HIDE DEF r
<1>3. Fit(r)
  BY <1>1 DEF Fit
<1> QED BY <1>2, <1>3, PoolKept, OneGoesOn

LEMMA CandidatesKeeps ==
  ASSUME RouteInv, NEW a \in Apps, TakeCandidates(a)
  PROVE  RouteInv'
<1>1. \/ EndOf(a) /\ PoolSame
      \/ \E x : Try(a, [app[a] EXCEPT !.exits = x], 0, paused)
  BY DEF TakeCandidates, PoolSame, pool
<1>2. CASE EndOf(a) /\ PoolSame
  BY <1>2, IdleFits, PoolKept, OneGoesOn DEF EndOf, Set
<1>3. CASE \E x : Try(a, [app[a] EXCEPT !.exits = x], 0, paused)
  <2>1. PICK x : Try(a, [app[a] EXCEPT !.exits = x], 0, paused)
    BY <1>3
  <2> DEFINE r == [app[a] EXCEPT !.exits = x]
  <2>2. Whole(app[a])
    BY DEF RouteInv, Fit
  <2>3. Whole(r)
    BY <2>2 DEF Whole, Fields
  <2>4. Try(a, r, 0, paused)
    BY <2>1
  <2> HIDE DEF r
  <2> QED BY <2>3, <2>4, TryKeeps
<1> QED BY <1>1, <1>2, <1>3

\* A connection that ends was the only one.
LEMMA OnlyOne ==
  ASSUME RouteInv, NEW e \in Exits
  PROVE  /\ dialing[e] \in Nat /\ live[e] \in Nat /\ dialing[e] + live[e] <= 1
         /\ live[e] = 1 => e \in sessions
         /\ dialing[e] = 1 => e \in pending
BY DEF RouteInv, PoolTypes, SingleConnection

\* Those who wait for the promise leave it; nobody held anything in a session
\* that was not there.
LEMMA WaitersFit ==
  ASSUME RouteInv, NEW e \in Exits, live[e] = 0, NEW w \in {"resolved", "rejected"}, Waiters(e, w),
         \A f \in Exits \ {e} : live'[f] = live[f],
         NEW b \in Apps
  PROVE  Fit(app[b])'
<1>1. Fit(app[b])
  BY DEF RouteInv
<1>2. CASE app[b].at = "session" /\ app[b].pair[1] = e
  <2>1. app'[b] = [app[b] EXCEPT !.at = w]
    BY <1>2 DEF Waiters
  <2>2. Whole(app'[b]) /\ app'[b].at = w /\ app'[b].turn = app[b].turn /\ app'[b].pair = app[b].pair
    BY <1>1, <2>1 DEF Fit, Whole, Fields
  <2> QED BY <1>1, <1>2, <2>2 DEF Fit
<1>3. CASE ~ (app[b].at = "session" /\ app[b].pair[1] = e)
  <2>1. app'[b] = app[b]
    BY <1>3 DEF Waiters
  <2>2. ASSUME app[b].at \in {"stream", "open"}, app[b].pair # None, app[b].pair[2] = "mgt"
        PROVE  live'[app[b].pair[1]] = 1
    <3>1. app[b].pair \in RoutePairs /\ live[app[b].pair[1]] = 1
      BY <1>1, <2>2 DEF Fit
    <3>2. app[b].pair[1] \in Exits \ {e}
      BY <3>1 DEF RoutePairs
    <3> QED BY <3>1, <3>2
  <2> QED BY <1>1, <2>1, <2>2 DEF Fit
<1> QED BY <1>2, <1>3

LEMMA DialedKeeps ==
  ASSUME RouteInv, NEW e \in Exits, Dialed(e)
  PROVE  RouteInv'
<1>1. dialing[e] = 1 /\ live[e] = 0
  BY OnlyOne DEF Dialed
<1>2. \A f \in Exits \ {e} : dialing'[f] = dialing[f] /\ live'[f] = live[f]
  BY DEF Dialed, RouteInv, PoolTypes
<1>3. dialing'[e] = 0 /\ live'[e] \in {0, 1} /\ PoolTypes'
  BY <1>1 DEF Dialed, RouteInv, PoolTypes
<1>4. sessions' = sessions \cup {e} /\ pending' = pending \ {e} /\ Waiters(e, "resolved")
  BY DEF Dialed
<1>5. SingleConnection'
  <2> SUFFICES ASSUME NEW f \in Exits
               PROVE  /\ dialing'[f] + live'[f] <= 1
                      /\ live'[f] = 1 => f \in sessions'
                      /\ dialing'[f] = 1 => f \in pending'
    BY DEF SingleConnection
  <2> QED BY <1>2, <1>3, <1>4, OnlyOne
<1>6. \A b \in Apps : Fit(app[b])'
  BY <1>1, <1>2, <1>4, WaitersFit
<1>7. DOMAIN app' = Apps
  BY <1>4 DEF Waiters
<1> QED BY <1>3, <1>5, <1>6, <1>7 DEF RouteInv

LEMMA DialFailsKeeps ==
  ASSUME RouteInv, NEW e \in Exits, DialFails(e)
  PROVE  RouteInv'
<1>1. dialing[e] = 1 /\ live[e] = 0
  BY OnlyOne DEF DialFails
<1>2. live' = live /\ \A f \in Exits \ {e} : dialing'[f] = dialing[f]
  BY DEF DialFails, RouteInv, PoolTypes
<1>3. dialing'[e] = 0 /\ PoolTypes'
  BY <1>1 DEF DialFails, RouteInv, PoolTypes
<1>4. sessions' = sessions /\ pending' = pending \ {e} /\ Waiters(e, "rejected")
  BY DEF DialFails
<1>5. SingleConnection'
  <2> SUFFICES ASSUME NEW f \in Exits
               PROVE  /\ dialing'[f] + live'[f] <= 1
                      /\ live'[f] = 1 => f \in sessions'
                      /\ dialing'[f] = 1 => f \in pending'
    BY DEF SingleConnection
  <2> QED BY <1>1, <1>2, <1>3, <1>4, OnlyOne
<1>6. \A b \in Apps : Fit(app[b])'
  BY <1>1, <1>2, <1>4, WaitersFit
<1>7. DOMAIN app' = Apps
  BY <1>4 DEF Waiters
<1> QED BY <1>3, <1>5, <1>6, <1>7 DEF RouteInv

\* The session that closes takes with it what was open in it.
LEMMA SessionClosesKeeps ==
  ASSUME RouteInv, NEW e \in Exits, SessionCloses(e)
  PROVE  RouteInv'
<1>1. live[e] = 1 /\ dialing[e] = 0
  BY OnlyOne DEF SessionCloses
<1>2. \A f \in Exits \ {e} : live'[f] = live[f]
  BY DEF SessionCloses, RouteInv, PoolTypes
<1>3. live'[e] = 0 /\ dialing' = dialing /\ PoolTypes'
  BY <1>1 DEF SessionCloses, RouteInv, PoolTypes
<1>4. sessions' = sessions \ {e} /\ pending' = pending
  BY DEF SessionCloses, DropSession
<1>5. SingleConnection'
  <2> SUFFICES ASSUME NEW f \in Exits
               PROVE  /\ dialing'[f] + live'[f] <= 1
                      /\ live'[f] = 1 => f \in sessions'
                      /\ dialing'[f] = 1 => f \in pending'
    BY DEF SingleConnection
  <2> QED BY <1>1, <1>2, <1>3, <1>4, OnlyOne
<1>6. ASSUME NEW b \in Apps PROVE Fit(app[b])'
  <2>1. Fit(app[b])
    BY DEF RouteInv
  <2>2. app'[b] = IF app[b].pair # <<e, "mgt">> THEN app[b]
                  ELSE CASE app[b].at = "stream" -> [app[b] EXCEPT !.at = "rejected"]
                         [] app[b].at = "open" -> Idle
                         [] OTHER -> app[b]
    BY DEF SessionCloses, At
  <2>3. CASE app[b].pair = <<e, "mgt">> /\ app[b].at = "stream"
    <3>1. app'[b] = [app[b] EXCEPT !.at = "rejected"]
      BY <2>2, <2>3
    <3>2. Whole(app'[b]) /\ app'[b].at = "rejected" /\ app'[b].turn = app[b].turn /\ app'[b].pair = app[b].pair
      BY <2>1, <3>1 DEF Fit, Whole, Fields
    <3> QED BY <2>1, <2>3, <3>2 DEF Fit
  <2>4. CASE app[b].pair = <<e, "mgt">> /\ app[b].at = "open"
    <3>1. app'[b] = Idle
      BY <2>2, <2>4
    <3>2. Whole(Idle) /\ Idle.at = "idle" /\ Idle.turn = 0
      BY DEF Whole, Fields, Idle
    <3> QED BY <3>1, <3>2 DEF Fit
  <2>5. CASE ~ (app[b].pair = <<e, "mgt">> /\ app[b].at \in {"stream", "open"})
    <3>1. app'[b] = app[b]
      BY <2>2, <2>5
    <3>2. ASSUME app[b].at \in {"stream", "open"}, app[b].pair # None, app[b].pair[2] = "mgt"
          PROVE  live'[app[b].pair[1]] = 1
      <4>1. app[b].pair \in RoutePairs /\ live[app[b].pair[1]] = 1 /\ app[b].pair # <<e, "mgt">>
        BY <2>1, <2>5, <3>2 DEF Fit
      <4>2. app[b].pair[1] \in Exits \ {e}
        BY <3>2, <4>1 DEF RoutePairs
      <4> QED BY <1>2, <4>1, <4>2
    <3> QED BY <2>1, <3>1, <3>2 DEF Fit
  <2> QED BY <2>3, <2>4, <2>5
<1>7. DOMAIN app' = Apps
  BY DEF SessionCloses
<1> QED BY <1>3, <1>5, <1>6, <1>7 DEF RouteInv

\* What holds of a session the request has been given.
LEMMA HasSession ==
  ASSUME RouteInv, NEW a \in Apps, app[a].at \in {"resolved", "stream"}, live[app[a].pair[1]] # 0
  PROVE  app[a].pair \in RoutePairs /\ app[a].pair[2] = "mgt" /\ live[app[a].pair[1]] = 1
<1>1. app[a].pair \in RoutePairs /\ app[a].pair[2] = "mgt"
  BY DEF RouteInv, Fit
<1>2. app[a].pair[1] \in Exits
  BY <1>1 DEF RoutePairs
<1> QED BY <1>1, <1>2, OnlyOne

LEMMA ResolvedKeeps ==
  ASSUME RouteInv, NEW a \in Apps, Resolved(a)
  PROVE  RouteInv'
<1>1. Fit(app[a]) /\ app[a].at = "resolved"
  BY DEF RouteInv, Resolved, At
<1>2. CASE Fails(a)
  BY <1>2, FailsKeeps
<1>3. CASE live[app[a].pair[1]] # 0 /\ app[a].alive /\ Serves(a)
  BY <1>1, <1>3, HasSession, ServesKeeps
<1>4. CASE live[app[a].pair[1]] # 0 /\ Set(a, [app[a] EXCEPT !.at = "stream"]) /\ PoolSame
  <2> DEFINE r == [app[a] EXCEPT !.at = "stream"]
  <2>1. Whole(r) /\ r.at = "stream" /\ r.turn = app[a].turn /\ r.pair = app[a].pair
    BY <1>1 DEF Fit, Whole, Fields
  <2>2. app' = [app EXCEPT ![a] = r]
    BY <1>4 DEF Set
  <2> HIDE DEF r
  <2>3. Fit(r)
    BY <1>1, <1>4, <2>1, HasSession DEF Fit
  <2> QED BY <1>4, <2>2, <2>3, PoolKept, OneGoesOn
<1> QED BY <1>2, <1>3, <1>4 DEF Resolved, PoolSame, pool

LEMMA OpensKeeps ==
  ASSUME RouteInv, NEW a \in Apps, Opens(a)
  PROVE  RouteInv'
<1>1. Fit(app[a]) /\ app[a].at \in {"stream", "engine"}
  BY DEF RouteInv, Opens, At
<1>2. CASE Fails(a)
  BY <1>2, FailsKeeps
<1>3. CASE app[a].alive /\ Serves(a)
  <2>1. app[a].pair \in RoutePairs
    BY <1>1 DEF Fit
  <2>2. CASE app[a].at = "engine"
    <3>1. app[a].pair[2] # "mgt"
      BY <1>1, <2>2 DEF Fit
    <3> QED BY <1>3, <2>1, <3>1, ServesKeeps
  <2>3. CASE app[a].at = "stream"
    <3>1. app[a].pair # None /\ app[a].pair[2] = "mgt" => live[app[a].pair[1]] = 1
      BY <1>1, <2>3 DEF Fit
    <3> QED BY <1>3, <2>1, <3>1, ServesKeeps
  <2> QED BY <1>1, <2>2, <2>3
<1> QED BY <1>2, <1>3 DEF Opens, IsWanted

LEMMA DirectKeeps ==
  ASSUME RouteInv, NEW a \in Apps, Direct(a)
  PROVE  RouteInv'
<1> DEFINE r == [Idle EXCEPT !.at = "open", !.alive = app[a].alive]
<1>1. PoolSame /\ (EndOf(a) \/ (app[a].alive /\ app' = [app EXCEPT ![a] = r]))
  BY DEF Direct, Set, IsWanted, PoolSame, pool
<1>2. Whole(r) /\ r.at = "open" /\ r.turn = 0 /\ r.alive = app[a].alive /\ r.pair = None
  BY DEF Whole, Fields, Idle
<1> HIDE DEF r
<1>3. CASE EndOf(a)
  BY <1>1, <1>3, IdleFits, PoolKept, OneGoesOn DEF EndOf, Set
<1>4. CASE app[a].alive /\ app' = [app EXCEPT ![a] = r]
  <2>1. Fit(r)
    BY <1>2, <1>4 DEF Fit
  <2> QED BY <1>1, <1>4, <2>1, PoolKept, OneGoesOn
<1> QED BY <1>1, <1>3, <1>4

LEMMA AppLeavesKeeps ==
  ASSUME RouteInv, NEW a \in Apps, AppLeaves(a)
  PROVE  RouteInv'
<1> DEFINE r == [app[a] EXCEPT !.alive = FALSE]
<1>1. PoolSame /\ (EndOf(a) \/ (app[a].at # "open" /\ app' = [app EXCEPT ![a] = r]))
  BY DEF AppLeaves, Set, At, PoolSame, pool
<1>2. Fit(app[a])
  BY DEF RouteInv
<1>3. Whole(r) /\ r.at = app[a].at /\ r.turn = app[a].turn /\ r.pair = app[a].pair
  BY <1>2 DEF Fit, Whole, Fields
<1> HIDE DEF r
<1>4. CASE EndOf(a)
  BY <1>1, <1>4, IdleFits, PoolKept, OneGoesOn DEF EndOf, Set
<1>5. CASE app[a].at # "open" /\ app' = [app EXCEPT ![a] = r]
  <2>1. Fit(r)
    BY <1>2, <1>3, <1>5 DEF Fit
  <2> QED BY <1>1, <1>5, <2>1, PoolKept, OneGoesOn
<1> QED BY <1>1, <1>4, <1>5

LEMMA DatagramKeeps ==
  ASSUME RouteInv, NEW a \in Apps, Datagram(a)
  PROVE  RouteInv'
<1>1. PICK r : /\ r = [app[a] EXCEPT !.queued = @ + 1] \/ r = [app[a] EXCEPT !.alive = FALSE]
               /\ app' = [app EXCEPT ![a] = r]
  BY DEF Datagram, Set
<1>2. PoolSame /\ app[a].at # "open"
  BY DEF Datagram, PoolSame, pool
<1>3. Fit(app[a])
  BY DEF RouteInv
<1>4. Whole(r) /\ r.at = app[a].at /\ r.turn = app[a].turn /\ r.pair = app[a].pair
  BY <1>1, <1>3 DEF Fit, Whole, Fields
<1>5. Fit(r)
  BY <1>2, <1>3, <1>4 DEF Fit
<1> QED BY <1>1, <1>2, <1>5, PoolKept, OneGoesOn

LEMMA RouteStarts ==
  InitClient => RouteInv
<1> SUFFICES ASSUME InitClient PROVE RouteInv
  OBVIOUS
<1>1. app = [a \in Apps |-> Idle] /\ dialing = [e \in Exits |-> 0] /\ live = dialing
  BY DEF InitClient
<1>2. PoolTypes /\ SingleConnection
  BY <1>1 DEF PoolTypes, SingleConnection
<1>3. \A a \in Apps : Fit(app[a])
  BY <1>1, IdleFits
<1> QED BY <1>1, <1>2, <1>3 DEF RouteInv

\* One step per action of the client.
LEMMA RouteSteps ==
  RouteInv /\ [NextClient]_clientVars => RouteInv'
<1> SUFFICES ASSUME RouteInv, [NextClient]_clientVars PROVE RouteInv'
  OBVIOUS
<1>1. CASE UNCHANGED clientVars
  BY <1>1, NothingGoesOn DEF clientVars, pool, PoolSame
<1>2. CASE Lookups \/ Poll
  <2>1. app' = app /\ PoolSame
    BY <1>2 DEF Lookups, LookupFinds, LookupFails, HandleOffer, Poll, pool, PoolSame
  <2> QED BY <2>1, NothingGoesOn
<1>3. CASE \E e \in Exits : Subscription(e) \/ OfferExpires(e)
  <2>1. PICK e : Subscription(e) \/ OfferExpires(e)
    BY <1>3
  <2>2. CASE Subscription(e)
    <3>1. app' = app /\ PoolSame
      BY <2>2 DEF Subscription, HandleOffer, pool, PoolSame
    <3> QED BY <3>1, NothingGoesOn
  <2> QED BY <2>1, <2>2, ExpiryKeeps
<1>4. CASE \E e \in Exits : Dials(e) \/ SessionCloses(e)
  BY <1>4, DialedKeeps, DialFailsKeeps, SessionClosesKeeps DEF Dials
<1>5. CASE \E p \in RoutePairs : CoolsDown(p)
  <2>1. app' = app /\ PoolSame
    BY <1>5 DEF CoolsDown, pool, PoolSame
  <2> QED BY <2>1, NothingGoesOn
<1>6. CASE \E a \in Apps : \/ \E kind \in Kinds[a] : Request(a, kind)
                          \/ Step(a) \/ AppLeaves(a) \/ StreamEnds(a) \/ Datagram(a)
  <2>1. PICK a \in Apps : \/ \E kind \in Kinds[a] : Request(a, kind)
                          \/ Step(a) \/ AppLeaves(a) \/ StreamEnds(a) \/ Datagram(a)
    BY <1>6
  <2>2. CASE \E kind \in Kinds[a] : Request(a, kind)
    BY <2>2, RequestKeeps
  <2>3. CASE Step(a)
    <3>1. CASE TakeCandidates(a)
      BY <3>1, CandidatesKeeps
    <3>2. CASE Resolved(a)
      BY <3>2, ResolvedKeeps
    <3>3. CASE Rejected(a) \/ StreamFails(a)
      BY <3>3, FailsKeeps DEF Rejected, StreamFails
    <3>4. CASE Opens(a)
      BY <3>4, OpensKeeps
    <3>5. CASE Direct(a)
      BY <3>5, DirectKeeps
    <3> QED BY <2>3, <3>1, <3>2, <3>3, <3>4, <3>5 DEF Step
  <2>4. CASE StreamEnds(a)
    <3>1. EndOf(a) /\ PoolSame
      BY <2>4 DEF StreamEnds, pool, PoolSame
    <3> QED BY <3>1, IdleFits, PoolKept, OneGoesOn DEF EndOf, Set
  <2> QED BY <2>1, <2>2, <2>3, <2>4, AppLeavesKeeps, DatagramKeeps
<1> QED BY <1>1, <1>2, <1>3, <1>4, <1>5, <1>6 DEF NextClient

\* However requests, connections that are made and sessions that close overlap,
\* getSessionFor never has two connections to one exit (client.js:328).
THEOREM SingleConnectionHolds == SpecClient => []SingleConnection
<1>1. RouteInv => SingleConnection
  BY DEF RouteInv
<1> QED BY <1>1, RouteStarts, RouteSteps, PTL DEF SpecClient

\* No stream is left to an application that has gone while it was being opened,
\* and none outlives its session (client.js:395, :453, socks5.mjs:83).
THEOREM NothingDanglesHolds == SpecClient => []NothingDangles
<1>1. RouteInv => NothingDangles
  BY DEF RouteInv, Fit, NothingDangles, At
<1> QED BY <1>1, RouteStarts, RouteSteps, PTL DEF SpecClient

-----------------------------------------------------------------------------
(* One hedged dial (HedgedDial).                                            *)

Goroutines == {"opening", "opened", "failed", "unwired", "cancelled", "done", "lost"}
Ends == {"none", "open", "closed", "returned"}
Tellings == {"none", "good", "fail", "unwired"}

\* What is recorded of the opens launched so far; a dial that runs has candidates.
DialTypes ==
  /\ choices \in Seq(Offers) /\ next \in 0 .. Len(choices)
  /\ att \in Seq(Goroutines) /\ Len(att) = next
  /\ conn \in Seq(Ends) /\ Len(conn) = next
  /\ verdict \in Seq(Tellings) /\ Len(verdict) = next
  /\ parent \in {"alive", "cancelled"}
  /\ result = "running" => Len(choices) > 0

\* Who holds the connection of an open.
Held ==
  /\ \A k \in 1 .. next :
       /\ conn[k] = "open" <=> att[k] = "opened"
       /\ conn[k] = "closed" => att[k] \in {"done", "lost"}
       /\ conn[k] = "returned" => att[k] = "done" /\ result = "conn"
       /\ result = "running" /\ att[k] = "done" => conn[k] = "none"
       /\ att[k] = "cancelled" => RaceOver
  /\ result = "conn" => \E k \in 1 .. next : conn[k] = "returned" /\ \A j \in (1 .. next) \ {k} : conn[j] # "returned"

DialInv == DialTypes /\ Held /\ ErrorIsExhausted

LEMMA Inserted ==
  ASSUME NEW s, NEW i, NEW e
  PROVE  InsertAt(s, i, e) = (SubSeq(s, 1, i - 1) \o <<e>>) \o SubSeq(s, i, Len(s))
  BY Zenon DEF InsertAt

LEMMA Part ==
  ASSUME NEW S, NEW s \in Seq(S), NEW a \in 1 .. Len(s) + 1, NEW b \in 0 .. Len(s), a <= b + 1
  PROVE  /\ SubSeq(s, a, b) \in Seq(S) /\ Len(SubSeq(s, a, b)) = b - a + 1
         /\ \A i \in 1 .. b - a + 1 : SubSeq(s, a, b)[i] = s[a + i - 1]
<1>1. a \in Int /\ b \in Int /\ \A i \in a .. b : s[i] \in S
  OBVIOUS
<1> QED BY <1>1, SubSeqProperties

\* What MoveTo makes of a sequence: the element at `from` comes right behind the
\* first n, and those between go one further.
LEMMA Moved ==
  ASSUME NEW S, NEW s \in Seq(S), NEW n \in 0 .. Len(s) - 1, NEW from \in n + 1 .. Len(s),
         NEW t, t = MoveTo(s, from, n + 1)
  PROVE  /\ t \in Seq(S) /\ Len(t) = Len(s) /\ t[n + 1] = s[from]
         /\ \A i \in 1 .. n : t[i] = s[i]
         /\ \A i \in n + 2 .. Len(s) : t[i] = s[IF i <= from THEN i - 1 ELSE i]
<1> DEFINE front == SubSeq(s, 1, from - 1)
           back == SubSeq(s, from + 1, Len(s))
           r == front \o back
<1>1. /\ front \in Seq(S) /\ Len(front) = from - 1
      /\ \A i \in 1 .. from - 1 : front[i] = s[i]
  BY Part
<1>2. /\ back \in Seq(S) /\ Len(back) = Len(s) - from
      /\ \A i \in 1 .. Len(s) - from : back[i] = s[from + i]
  <2>1. from + 1 \in 1 .. Len(s) + 1 /\ Len(s) \in 0 .. Len(s) /\ from + 1 <= Len(s) + 1
    OBVIOUS
  <2>2. /\ back \in Seq(S) /\ Len(back) = Len(s) - (from + 1) + 1
        /\ \A i \in 1 .. Len(s) - (from + 1) + 1 : back[i] = s[from + 1 + i - 1]
    BY <2>1, Part
  <2> HIDE DEF back
  <2> QED BY <2>2
<1>3. r = RemoveAt(s, from)
  BY DEF RemoveAt
<1> HIDE DEF front, back
<1>4. /\ r \in Seq(S) /\ Len(r) = Len(s) - 1
      /\ \A i \in 1 .. Len(s) - 1 : r[i] = s[IF i < from THEN i ELSE i + 1]
  <2>1. r \in Seq(S) /\ Len(r) = Len(front) + Len(back)
    BY <1>1, <1>2, ConcatProperties
  <2>2. \A i \in 1 .. Len(front) + Len(back) : r[i] = IF i <= Len(front) THEN front[i] ELSE back[i - Len(front)]
    BY <1>1, <1>2, ConcatProperties
  <2> HIDE DEF r
  <2>3. Len(front) + Len(back) = Len(s) - 1
    BY <1>1, <1>2
  <2>4. ASSUME NEW i \in 1 .. Len(s) - 1 PROVE r[i] = s[IF i < from THEN i ELSE i + 1]
    <3>1. r[i] = IF i <= from - 1 THEN front[i] ELSE back[i - (from - 1)]
      BY <1>1, <2>2, <2>3
    <3>2. CASE i < from
      <4>1. i \in 1 .. from - 1
        BY <3>2
      <4> QED BY <1>1, <3>1, <4>1
    <3>3. CASE ~ (i < from)
      <4>1. i - (from - 1) \in 1 .. Len(s) - from /\ from + (i - (from - 1)) = i + 1 /\ ~ (i <= from - 1)
        BY <3>3
      <4> QED BY <1>2, <3>1, <3>3, <4>1
    <3> QED BY <3>2, <3>3
  <2> QED BY <2>1, <2>3, <2>4
<1> HIDE DEF r
<1>5. t = (SubSeq(r, 1, (n + 1) - 1) \o <<s[from]>>) \o SubSeq(r, n + 1, Len(r))
  <2>1. t = InsertAt(r, n + 1, s[from])
    BY <1>3 DEF MoveTo
  <2> QED BY <2>1, Inserted, Zenon
<1> DEFINE head == SubSeq(r, 1, n)
           u == head \o <<s[from]>>
           rest == SubSeq(r, n + 1, Len(r))
<1>6. head \in Seq(S) /\ Len(head) = n /\ \A i \in 1 .. n : head[i] = r[i]
  BY <1>4, Part
<1>7. /\ rest \in Seq(S) /\ Len(rest) = Len(s) - 1 - n
      /\ \A i \in 1 .. Len(s) - 1 - n : rest[i] = r[n + i]
  <2>1. n + 1 \in 1 .. Len(r) + 1 /\ Len(r) \in 0 .. Len(r) /\ n + 1 <= Len(r) + 1
    BY <1>4
  <2>2. /\ rest \in Seq(S) /\ Len(rest) = Len(r) - (n + 1) + 1
        /\ \A i \in 1 .. Len(r) - (n + 1) + 1 : rest[i] = r[n + 1 + i - 1]
    BY <1>4, <2>1, Part
  <2> HIDE DEF rest
  <2> QED BY <1>4, <2>2
<1>8. t = u \o rest
  <2>1. (n + 1) - 1 = n
    OBVIOUS
  <2> QED BY <1>5, <2>1
<1> HIDE DEF head, rest
<1>9. u \in Seq(S) /\ Len(u) = n + 1 /\ u[n + 1] = s[from] /\ \A i \in 1 .. n : u[i] = r[i]
  <2>1. s[from] \in S /\ <<s[from]>> \in Seq(S) /\ Len(<<s[from]>>) = 1 /\ <<s[from]>>[1] = s[from]
    OBVIOUS
  <2>2. u \in Seq(S) /\ Len(u) = n + 1
    BY <1>6, <2>1, ConcatProperties
  <2>3. \A i \in 1 .. n + 1 : u[i] = IF i <= n THEN head[i] ELSE <<s[from]>>[i - n]
    BY <1>6, <2>1, ConcatProperties
  <2> HIDE DEF u
  <2>4. u[n + 1] = <<s[from]>>[1]
    BY <2>3
  <2> QED BY <1>6, <2>1, <2>2, <2>3, <2>4
<1> HIDE DEF u
<1> DEFINE joined == u \o rest
<1>10. /\ joined \in Seq(S) /\ Len(joined) = Len(u) + Len(rest)
       /\ \A i \in 1 .. Len(u) + Len(rest) : joined[i] = IF i <= Len(u) THEN u[i] ELSE rest[i - Len(u)]
  <2>1. u \in Seq(S) /\ rest \in Seq(S)
    BY <1>7, <1>9
  <2> QED BY <2>1, ConcatProperties
<1>14. t = joined /\ Len(u) = n + 1 /\ Len(u) + Len(rest) = Len(s)
  BY <1>7, <1>8, <1>9
<1> HIDE DEF joined
<1>15. t \in Seq(S) /\ Len(t) = Len(s)
  BY <1>10, <1>14
<1>11. \A i \in 1 .. Len(s) : t[i] = IF i <= n + 1 THEN u[i] ELSE rest[i - (n + 1)]
  BY <1>10, <1>14
<1>12. ASSUME NEW i \in 1 .. n PROVE t[i] = s[i]
  <2>1. i \in 1 .. Len(s) /\ i \in 1 .. Len(s) - 1 /\ i <= n + 1 /\ i < from
    OBVIOUS
  <2>2. t[i] = u[i] /\ u[i] = r[i]
    BY <1>9, <1>11, <2>1
  <2>3. r[i] = s[IF i < from THEN i ELSE i + 1]
    BY <1>4, <2>1
  <2> QED BY <2>1, <2>2, <2>3
<1>13. \A i \in n + 2 .. Len(s) : t[i] = s[IF i <= from THEN i - 1 ELSE i]
  <2> SUFFICES ASSUME NEW i \in n + 2 .. Len(s) PROVE t[i] = s[IF i <= from THEN i - 1 ELSE i]
    OBVIOUS
  <2>1. i - (n + 1) \in 1 .. Len(s) - 1 - n /\ i - 1 \in 1 .. Len(s) - 1
    OBVIOUS
  <2>2. t[i] = rest[i - (n + 1)]
    BY <1>11
  <2>3. rest[i - (n + 1)] = r[n + (i - (n + 1))]
    BY <1>7, <2>1
  <2>4. n + (i - (n + 1)) = i - 1
    OBVIOUS
  <2>5. t[i] = r[i - 1]
    BY <2>2, <2>3, <2>4
  <2>6. r[i - 1] = s[IF i - 1 < from THEN i - 1 ELSE (i - 1) + 1]
    BY <1>4, <2>1
  <2>7. (i - 1 < from <=> i <= from) /\ (i - 1) + 1 = i
    OBVIOUS
  <2> QED BY <2>5, <2>6, <2>7
<1>16. t[n + 1] = s[from]
  <2>1. n + 1 \in 1 .. Len(s) /\ n + 1 <= n + 1
    OBVIOUS
  <2> QED BY <1>9, <1>11, <2>1
<1> QED BY <1>12, <1>13, <1>15, <1>16

Distinct(s) == \A i, j \in 1 .. Len(s) : s[i] = s[j] => i = j

\* One goroutine of the dial, its connection and its verdict change.
LEMMA Replaced ==
  ASSUME NEW S, NEW s \in Seq(S), NEW k \in 1 .. Len(s), NEW x \in S, NEW t, t = [s EXCEPT ![k] = x]
  PROVE  t \in Seq(S) /\ Len(t) = Len(s) /\ t[k] = x /\ \A j \in (1 .. Len(s)) \ {k} : t[j] = s[j]
<1>1. /\ [s EXCEPT ![k] = x] \in Seq(S) /\ Len([s EXCEPT ![k] = x]) = Len(s)
      /\ \A j \in 1 .. Len(s) : [s EXCEPT ![k] = x][j] = IF j = k THEN x ELSE s[j]
  BY ExceptSeq
<1> QED BY <1>1

\* The numbers of the opens.
LEMMA OpensAre ==
  ASSUME DialTypes
  PROVE  /\ next \in Nat /\ Len(choices) \in Nat /\ DOMAIN att = 1 .. next /\ DOMAIN conn = 1 .. next
         /\ DOMAIN verdict = 1 .. next /\ DOMAIN choices = 1 .. Len(choices)
         /\ \A k \in 1 .. next : att[k] \in Goroutines /\ conn[k] \in Ends /\ verdict[k] \in Tellings
<1>1. Len(choices) \in Nat /\ DOMAIN choices = 1 .. Len(choices)
  BY DEF DialTypes
<1>2. DOMAIN att = 1 .. next /\ \A k \in 1 .. next : att[k] \in Goroutines
  BY DEF DialTypes
<1>3. DOMAIN conn = 1 .. next /\ \A k \in 1 .. next : conn[k] \in Ends
  BY DEF DialTypes
<1>4. DOMAIN verdict = 1 .. next /\ \A k \in 1 .. next : verdict[k] \in Tellings
  BY DEF DialTypes
<1> QED BY <1>1, <1>2, <1>3, <1>4 DEF DialTypes

\* launch(): one more open, behind those there are; one of them may have been taken
\* in the same step.
LEMMA LaunchKeeps ==
  ASSUME DialInv, result = "running", NEW s \in Seq(Offers), next \in 0 .. Len(s) - 1,
         NEW a \in Seq(Goroutines), Len(a) = next, NEW v \in Seq(Tellings), Len(v) = next,
         \A k \in 1 .. next : a[k] = att[k] \/ (a[k] = "done" /\ conn[k] = "none" /\ att[k] # "opened"),
         Launch(s, a, v), UNCHANGED <<parent, result>>
  PROVE  DialInv'
<1>1. /\ choices' = s /\ next' = next + 1 /\ att' = Append(a, "opening") /\ conn' = Append(conn, "none")
      /\ verdict' = Append(v, "none")
  BY DEF Launch
<1>2. /\ conn \in Seq(Ends) /\ Len(conn) = next /\ next \in Nat /\ parent \in {"alive", "cancelled"}
      /\ Len(s) \in Nat
  BY DEF DialInv, DialTypes
<1>3. "opening" \in Goroutines /\ "none" \in Ends /\ "none" \in Tellings
  BY DEF Goroutines, Ends, Tellings
<1>4. /\ att' \in Seq(Goroutines) /\ Len(att') = next + 1 /\ att'[next + 1] = "opening"
      /\ \A k \in 1 .. next : att'[k] = a[k]
  BY <1>1, <1>3, AppendProperties
<1>5. /\ conn' \in Seq(Ends) /\ Len(conn') = next + 1 /\ conn'[next + 1] = "none"
      /\ \A k \in 1 .. next : conn'[k] = conn[k]
  BY <1>1, <1>2, <1>3, AppendProperties
<1>6. verdict' \in Seq(Tellings) /\ Len(verdict') = next + 1
  BY <1>1, <1>3, AppendProperties
<1>7. DialTypes'
  BY <1>1, <1>2, <1>4, <1>5, <1>6 DEF DialTypes
<1>8. ASSUME NEW k \in 1 .. next + 1
      PROVE  /\ conn'[k] = "open" <=> att'[k] = "opened"
             /\ conn'[k] = "closed" => att'[k] \in {"done", "lost"}
             /\ conn'[k] # "returned"
             /\ att'[k] = "done" => conn'[k] = "none"
             /\ att'[k] = "cancelled" => RaceOver'
  <2>1. CASE k = next + 1
    BY <1>4, <1>5, <2>1
  <2>2. CASE k \in 1 .. next
    BY <1>4, <1>5, <2>2 DEF DialInv, Held, RaceOver
  <2> QED BY <1>2, <2>1, <2>2
<1>9. Held'
  BY <1>1, <1>8 DEF Held
<1> QED BY <1>7, <1>9 DEF DialInv, ErrorIsExhausted

\* The dial's variables but for what was seen and the timers.
Raceless == UNCHANGED <<choices, next, att, conn, parent, result, verdict>>

LEMMA NothingRaces ==
  ASSUME DialInv, Raceless
  PROVE  DialInv'
  BY DEF DialInv, Raceless, DialTypes, Held, RaceOver, ErrorIsExhausted

LEMMA PlainLaunch ==
  ASSUME DialInv, result = "running", NEW s \in Seq(Offers), Len(s) = Len(choices), next < Len(choices),
         Launch(s, att, verdict), UNCHANGED <<parent, result>>
  PROVE  DialInv'
<1>1. /\ att \in Seq(Goroutines) /\ Len(att) = next /\ verdict \in Seq(Tellings) /\ Len(verdict) = next
      /\ next \in 0 .. Len(s) - 1
  BY DEF DialInv, DialTypes
<1> QED BY <1>1, LaunchKeeps

LEMMA RescueTakes ==
  ASSUME DialTypes, NEW healthy \in SUBSET RescueAt, healthy # {}
  PROVE  RescueChoice(healthy) \in next + 1 .. Len(choices)
<1> DEFINE elsewhere == {i \in healthy : choices[i][1] # choices[1][1]}
<1>1. RescueAt \subseteq next + 1 .. Len(choices) /\ next \in Nat /\ Len(choices) \in Nat
  BY DEF RescueAt, DialTypes
<1>2. RescueChoice(healthy) = Min(IF elsewhere # {} THEN elsewhere ELSE healthy)
  BY DEF RescueChoice
<1>3. elsewhere \subseteq healthy /\ healthy \subseteq Nat
  BY <1>1
<1> HIDE DEF elsewhere
<1>4. RescueChoice(healthy) \in healthy
  BY <1>2, <1>3, LeastIsOne
<1> QED BY <1>1, <1>4

LEMMA RescueKeeps ==
  ASSUME DialInv, Rescue
  PROVE  DialInv'
<1>1. result = "running" /\ UNCHANGED <<parent, result>>
  BY DEF Rescue
<1>2. PICK healthy \in SUBSET RescueAt :
        IF healthy # {} THEN Launch(MoveTo(choices, RescueChoice(healthy), next + 1), att, verdict)
                        ELSE UNCHANGED <<choices, next, att, conn, verdict>>
  BY DEF Rescue
<1>3. CASE healthy = {}
  BY <1>1, <1>2, <1>3, NothingRaces DEF Raceless
<1>4. CASE healthy # {}
  <2>1. choices \in Seq(Offers) /\ next \in Nat /\ Len(choices) \in Nat
    BY DEF DialInv, DialTypes
  <2>5. RescueChoice(healthy) \in next + 1 .. Len(choices)
    BY <1>4, RescueTakes DEF DialInv
  <2>2. RescueChoice(healthy) \in next + 1 .. Len(choices) /\ next \in 0 .. Len(choices) - 1
    BY <2>1, <2>5
  <2> DEFINE from == RescueChoice(healthy)
           s == MoveTo(choices, from, next + 1)
  <2>3. s \in Seq(Offers) /\ Len(s) = Len(choices)
    <3>1. s = MoveTo(choices, from, next + 1) /\ from \in next + 1 .. Len(choices)
      BY <2>2
    <3> HIDE DEF from, s
    <3> QED BY <2>1, <2>2, <3>1, Moved
  <2>4. Launch(s, att, verdict)
    BY <1>2, <1>4
  <2> HIDE DEF s
  <2> QED BY <1>1, <2>1, <2>2, <2>3, <2>4, PlainLaunch
<1> QED BY <1>3, <1>4

\* What the goroutine of k and its connection do, the others as before.
Alone(k) == \A j \in (1 .. next) \ {k} : att'[j] = att[j] /\ conn'[j] = conn[j]

LEMMA AloneIs ==
  ASSUME DialTypes, NEW k \in 1 .. next, NEW g \in Goroutines, NEW c \in Ends,
         att' = [att EXCEPT ![k] = g], conn' = [conn EXCEPT ![k] = c], next' = next
  PROVE  /\ att' \in Seq(Goroutines) /\ Len(att') = next' /\ conn' \in Seq(Ends) /\ Len(conn') = next'
         /\ Alone(k) /\ att'[k] = g /\ conn'[k] = c
<1>1. att \in Seq(Goroutines) /\ Len(att) = next /\ conn \in Seq(Ends) /\ Len(conn) = next
  BY DEF DialTypes
<1>2. /\ att' \in Seq(Goroutines) /\ Len(att') = Len(att) /\ att'[k] = g
      /\ \A j \in (1 .. next) \ {k} : att'[j] = att[j]
  BY <1>1, Replaced
<1>3. /\ conn' \in Seq(Ends) /\ Len(conn') = Len(conn) /\ conn'[k] = c
      /\ \A j \in (1 .. next) \ {k} : conn'[j] = conn[j]
  BY <1>1, Replaced
<1> QED BY <1>1, <1>2, <1>3 DEF Alone

LEMMA TakeLateKeeps ==
  ASSUME DialInv, NEW k \in 1 .. next, TakeLate(k)
  PROVE  DialInv'
<1> DEFINE c == IF conn[k] = "open" THEN "closed" ELSE conn[k]
<1>1. /\ result = "running" /\ result' = "cancelled" /\ att[k] \in {"opened", "failed", "unwired", "cancelled"}
      /\ att' = [att EXCEPT ![k] = "done"] /\ conn' = [conn EXCEPT ![k] = c]
      /\ UNCHANGED <<choices, next, parent, verdict>>
  BY DEF TakeLate, Return
<1>2. c \in Ends /\ "done" \in Goroutines
  BY OpensAre DEF DialInv, Ends, Goroutines
<1>3. /\ att' \in Seq(Goroutines) /\ Len(att') = next' /\ conn' \in Seq(Ends) /\ Len(conn') = next'
      /\ Alone(k) /\ att'[k] = "done" /\ conn'[k] = c
  <2> HIDE DEF c
  <2> QED BY <1>1, <1>2, AloneIs DEF DialInv
<1>4. DialTypes'
  BY <1>1, <1>3 DEF DialInv, DialTypes
<1>5. Held'
  BY <1>1, <1>3 DEF DialInv, Held, Alone, RaceOver
<1> QED BY <1>1, <1>4, <1>5 DEF DialInv, ErrorIsExhausted

LEMMA TakeWinnerKeeps ==
  ASSUME DialInv, NEW k \in 1 .. next, TakeWinner(k)
  PROVE  DialInv'
<1>1. /\ result = "running" /\ result' = "conn" /\ att[k] = "opened"
      /\ att' = [att EXCEPT ![k] = "done"] /\ conn' = [conn EXCEPT ![k] = "returned"]
      /\ \E x \in {"none", "good"} : verdict' = [verdict EXCEPT ![k] = x]
      /\ UNCHANGED <<choices, next, parent>>
  BY DEF TakeWinner, Return
<1>2. "returned" \in Ends /\ "done" \in Goroutines /\ {"none", "good"} \subseteq Tellings
  BY DEF Ends, Goroutines, Tellings
<1>3. /\ att' \in Seq(Goroutines) /\ Len(att') = next' /\ conn' \in Seq(Ends) /\ Len(conn') = next'
      /\ Alone(k) /\ att'[k] = "done" /\ conn'[k] = "returned"
  BY <1>1, <1>2, AloneIs DEF DialInv
<1>4. verdict' \in Seq(Tellings) /\ Len(verdict') = next'
  <2>1. verdict \in Seq(Tellings) /\ k \in 1 .. Len(verdict) /\ Len(verdict) = next
    BY DEF DialInv, DialTypes
  <2>2. PICK x \in Tellings : verdict' = [verdict EXCEPT ![k] = x]
    BY <1>1, <1>2
  <2> QED BY <1>1, <2>1, <2>2, Replaced
<1>5. DialTypes'
  BY <1>1, <1>3, <1>4 DEF DialInv, DialTypes
<1>6. Held'
  BY <1>1, <1>3 DEF DialInv, Held, Alone, RaceOver
<1> QED BY <1>1, <1>5, <1>6 DEF DialInv, ErrorIsExhausted

\* With the last open no result is outstanding.
LEMMA LastOne ==
  ASSUME DialInv, NEW k \in 1 .. next, att[k] # "done", ~ Opening(active - 1)
  PROVE  active < 2 /\ active \in Nat /\ \A j \in (1 .. next) \ {k} : att[j] = "done"
<1> DEFINE S == {j \in 1 .. next : att[j] # "done"}
<1>1. IsFiniteSet(S)
  <2>1. IsFiniteSet(1 .. next)
    BY FS_Interval, OpensAre DEF DialInv
  <2> QED BY <2>1, FS_Subset
<1>2. active = Cardinality(S) /\ k \in S
  BY OpensAre DEF active, DialInv
<1>3. \A j \in 1 .. next : j \notin S => att[j] = "done"
  OBVIOUS
<1> HIDE DEF S
<1>4. Cardinality(S \ {k}) = Cardinality(S) - 1 /\ IsFiniteSet(S \ {k}) /\ Cardinality(S \ {k}) \in Nat
  BY <1>1, <1>2, FS_RemoveElement, FS_CardinalityType
<1>5. Cardinality(S) \in Nat /\ ~ (Cardinality(S) - 1 > 0)
  BY <1>1, <1>2, FS_CardinalityType DEF Opening
<1>6. Cardinality(S \ {k}) = 0
  BY <1>4, <1>5
<1>7. S \ {k} = {}
  BY <1>4, <1>6, FS_EmptySet
<1> QED BY <1>2, <1>3, <1>5, <1>7

LEMMA TakeErrorKeeps ==
  ASSUME DialInv, NEW k \in 1 .. next, TakeError(k)
  PROVE  DialInv'
<1> DEFINE rest == [att EXCEPT ![k] = "done"]
           told == [verdict EXCEPT ![k] = Judged(k)]
           n == active - 1
<1>1. result = "running" /\ att[k] \in {"failed", "unwired", "cancelled"} /\ UNCHANGED parent
  BY DEF TakeError
<1>2. \/ Refills(n) /\ Launch(choices, rest, told) /\ result' = result
      \/ /\ ~ Refills(n) /\ att' = rest /\ verdict' = told /\ UNCHANGED <<choices, next, conn>>
         /\ result' = IF Opening(n) THEN "running" ELSE IF lastResort THEN "allCooling" ELSE "error"
  BY DEF TakeError
<1>3. "done" \in Goroutines /\ Judged(k) \in Tellings
  BY DEF Goroutines, Tellings, Judged
<1>4. told \in Seq(Tellings) /\ Len(told) = next
  <2>1. verdict \in Seq(Tellings) /\ k \in 1 .. Len(verdict) /\ Len(verdict) = next
    BY DEF DialInv, DialTypes
  <2> QED BY <1>3, <2>1, Replaced
<1>5. /\ rest \in Seq(Goroutines) /\ Len(rest) = next /\ rest[k] = "done"
      /\ \A j \in (1 .. next) \ {k} : rest[j] = att[j]
  <2>1. att \in Seq(Goroutines) /\ k \in 1 .. Len(att) /\ Len(att) = next
    BY DEF DialInv, DialTypes
  <2> QED BY <1>3, <2>1, Replaced
<1>6. choices \in Seq(Offers) /\ next \in 0 .. Len(choices) /\ Len(choices) \in Nat
  BY DEF DialInv, DialTypes
<1>7. conn[k] = "none"
  BY <1>1, OpensAre DEF DialInv, Held, Ends
<1> HIDE DEF rest, told, n
<1>8. CASE Refills(n) /\ Launch(choices, rest, told) /\ result' = result
  <2>1. next \in 0 .. Len(choices) - 1
    BY <1>6, <1>8 DEF Refills, More
  <2>2. \A j \in 1 .. next : rest[j] = att[j] \/ (rest[j] = "done" /\ conn[j] = "none" /\ att[j] # "opened")
    BY <1>1, <1>5, <1>7
  <2> QED BY <1>1, <1>4, <1>5, <1>6, <1>8, <2>1, <2>2, LaunchKeeps
<1>9. CASE /\ ~ Refills(n) /\ att' = rest /\ verdict' = told /\ UNCHANGED <<choices, next, conn>>
           /\ result' = IF Opening(n) THEN "running" ELSE IF lastResort THEN "allCooling" ELSE "error"
  <2>1. DialTypes'
    BY <1>1, <1>4, <1>5, <1>9 DEF DialInv, DialTypes
  <2>2. Held'
    BY <1>1, <1>5, <1>7, <1>9 DEF DialInv, Held, RaceOver
  <2>3. ErrorIsExhausted'
    <3>1. CASE Opening(n)
      BY <1>9, <3>1 DEF ErrorIsExhausted
    <3>2. CASE ~ Opening(n)
      <4>1. active < 2 /\ active \in Nat /\ \A j \in (1 .. next) \ {k} : att[j] = "done"
        BY <1>1, <3>2, LastOne DEF n
      <4>2. next = Len(choices)
        BY <1>6, <1>9, <4>1 DEF Refills, More, n
      <4>3. \A j \in 1 .. next : att'[j] = "done" /\ conn[j] = "none"
        BY <1>1, <1>5, <1>7, <1>9, <4>1 DEF DialInv, Held
      <4>4. DOMAIN choices = 1 .. next
        BY <1>6, <4>2
      <4> QED BY <1>9, <4>2, <4>3, <4>4 DEF ErrorIsExhausted
    <3> QED BY <3>1, <3>2
  <2> QED BY <2>1, <2>2, <2>3 DEF DialInv
<1> QED BY <1>2, <1>8, <1>9

\* An error is the answer to opens that have all ended.
LEMMA NotExhausted ==
  ASSUME DialInv, NEW k \in 1 .. next, att[k] # "done", result' = result
  PROVE  ErrorIsExhausted'
<1>1. result \notin {"error", "allCooling"}
  <2>1. DOMAIN choices = 1 .. Len(choices)
    BY OpensAre DEF DialInv
  <2> QED BY <2>1 DEF DialInv, ErrorIsExhausted
<1> QED BY <1>1 DEF ErrorIsExhausted

\* The goroutine of an open.
LEMMA OpenReturnsKeeps ==
  ASSUME DialInv, NEW k \in 1 .. next, OpenReturns(k)
  PROVE  DialInv'
<1>1. /\ att[k] = "opening" /\ UNCHANGED <<choices, next, parent, result, verdict>>
      /\ \/ att' = [att EXCEPT ![k] = "opened"] /\ conn' = [conn EXCEPT ![k] = "open"]
         \/ \E e \in {"failed", "unwired", "cancelled"} :
              att' = [att EXCEPT ![k] = e] /\ conn' = conn /\ (e = "cancelled" => RaceOver)
  BY DEF OpenReturns
<1>2. conn[k] \in {"none", "open"} /\ conn = [conn EXCEPT ![k] = conn[k]]
  BY <1>1, OpensAre DEF DialInv, Held, DialTypes, Ends
<1>3. PICK g \in {"opened", "failed", "unwired", "cancelled"}, c \in {"none", "open"} :
        /\ att' = [att EXCEPT ![k] = g] /\ conn' = [conn EXCEPT ![k] = c]
        /\ g = "opened" <=> c = "open"
        /\ g = "cancelled" => RaceOver
  <2>1. CASE att' = [att EXCEPT ![k] = "opened"] /\ conn' = [conn EXCEPT ![k] = "open"]
    BY <2>1
  <2>2. CASE \E e \in {"failed", "unwired", "cancelled"} :
               att' = [att EXCEPT ![k] = e] /\ conn' = conn /\ (e = "cancelled" => RaceOver)
    <3>1. conn[k] = "none"
      BY <1>1, <1>2 DEF DialInv, Held
    <3> QED BY <1>2, <2>2, <3>1
  <2> QED BY <1>1, <2>1, <2>2
<1>4. g \in Goroutines /\ c \in Ends
  BY DEF Goroutines, Ends
<1>5. /\ att' \in Seq(Goroutines) /\ Len(att') = next' /\ conn' \in Seq(Ends) /\ Len(conn') = next'
      /\ Alone(k) /\ att'[k] = g /\ conn'[k] = c
  BY <1>1, <1>3, <1>4, AloneIs DEF DialInv
<1>6. DialTypes'
  BY <1>1, <1>5 DEF DialInv, DialTypes
<1>7. Held'
  BY <1>1, <1>3, <1>5 DEF DialInv, Held, Alone, RaceOver
<1> QED BY <1>1, <1>6, <1>7, NotExhausted DEF DialInv

LEMMA DiscardKeeps ==
  ASSUME DialInv, NEW k \in 1 .. next, Discard(k)
  PROVE  DialInv'
<1> DEFINE c == IF conn[k] = "open" THEN "closed" ELSE conn[k]
<1>1. /\ att[k] \in {"opened", "failed", "unwired", "cancelled"} /\ UNCHANGED <<choices, next, parent, result, verdict>>
      /\ att' = [att EXCEPT ![k] = "lost"] /\ conn' = [conn EXCEPT ![k] = c]
  BY DEF Discard, Drop
<1>2. c \in Ends /\ "lost" \in Goroutines
  BY OpensAre DEF DialInv, Ends, Goroutines
<1>3. /\ att' \in Seq(Goroutines) /\ Len(att') = next' /\ conn' \in Seq(Ends) /\ Len(conn') = next'
      /\ Alone(k) /\ att'[k] = "lost" /\ conn'[k] = c
  <2> HIDE DEF c
  <2> QED BY <1>1, <1>2, AloneIs DEF DialInv
<1>4. DialTypes'
  BY <1>1, <1>3 DEF DialInv, DialTypes
<1>5. Held'
  BY <1>1, <1>3 DEF DialInv, Held, Alone, RaceOver
<1> QED BY <1>1, <1>4, <1>5, NotExhausted DEF DialInv

LEMMA DialSteps ==
  ASSUME DialInv, [NextDial]_dialVars
  PROVE  DialInv'
<1>1. CASE UNCHANGED dialVars \/ Finished \/ TimerFires \/ RescueFires
  <2>1. Raceless
    BY <1>1 DEF dialVars, Finished, TimerFires, RescueFires, Raceless
  <2> QED BY <2>1, NothingRaces
<1>2. CASE CallerLeaves
  BY <1>2 DEF CallerLeaves, raceVars, DialInv, DialTypes, Held, RaceOver, ErrorIsExhausted
<1>3. CASE Cancelled
  <2>1. result = "running" /\ result' = "cancelled" /\ UNCHANGED <<choices, next, att, conn, parent, verdict>>
    BY <1>3 DEF Cancelled, Return
  <2>2. DialTypes'
    BY <2>1 DEF DialInv, DialTypes
  <2>3. Held'
    BY <2>1 DEF DialInv, Held, RaceOver
  <2> QED BY <2>1, <2>2, <2>3 DEF DialInv, ErrorIsExhausted
<1>4. choices \in Seq(Offers)
  BY DEF DialInv, DialTypes
<1>5. CASE Begin
  <2>1. next < Len(choices)
    BY <1>5 DEF Begin, DialInv, DialTypes
  <2> QED BY <1>4, <1>5, <2>1, PlainLaunch DEF Begin
<1>6. CASE Hedge
  <2>1. CASE Refills(active)
    BY <1>4, <1>6, <2>1, PlainLaunch DEF Hedge, Refills, More
  <2>2. CASE ~ Refills(active)
    BY <1>6, <2>2, NothingRaces DEF Hedge, Raceless
  <2> QED BY <2>1, <2>2
<1>7. CASE \E k \in DOMAIN att : TakeLate(k) \/ TakeWinner(k) \/ TakeError(k) \/ Opener(k)
  <2>1. PICK k \in 1 .. next : TakeLate(k) \/ TakeWinner(k) \/ TakeError(k) \/ Opener(k)
    BY <1>7, OpensAre DEF DialInv
  <2> QED BY <2>1, TakeLateKeeps, TakeWinnerKeeps, TakeErrorKeeps, OpenReturnsKeeps, DiscardKeeps DEF Opener
<1> QED BY <1>1, <1>2, <1>3, <1>5, <1>6, <1>7, RescueKeeps DEF NextDial, Dialer, Environment

-----------------------------------------------------------------------------
(* The order of the candidates.                                             *)

LEMMA Elements ==
  ASSUME NEW S, NEW s \in Seq(S)
  PROVE  /\ ToSet(s) = {s[i] : i \in 1 .. Len(s)} /\ ToSet(s) \subseteq S
         /\ \A i \in 1 .. Len(s) : s[i] \in ToSet(s) /\ s[i] \in S
         /\ Len(s) \in Nat /\ DOMAIN s = 1 .. Len(s)
<1>1. DOMAIN s = 1 .. Len(s) /\ Len(s) \in Nat /\ \A i \in 1 .. Len(s) : s[i] \in S
  OBVIOUS
<1> QED BY <1>1 DEF ToSet

\* In a finite set of numbers each has its place: as many are below the k-th as
\* places before k.
LEMMA Ranked ==
  ASSUME NEW K \in SUBSET Nat, IsFiniteSet(K)
  PROVE  /\ Cardinality(K) \in Nat
         /\ \A k \in 1 .. Cardinality(K) : \E i \in K : Cardinality({j \in K : j < i}) = k - 1
         /\ \A i \in K : Cardinality({j \in K : j < i}) \in 0 .. Cardinality(K) - 1
         /\ \A i, l \in K : Cardinality({j \in K : j < i}) = Cardinality({j \in K : j < l}) => i = l
<1> DEFINE Below(i) == {j \in K : j < i}
           n == Cardinality(K)
           rank == [i \in K |-> Cardinality(Below(i))]
<1>1. n \in Nat
  BY FS_CardinalityType
<1>2. ASSUME NEW i \in K PROVE IsFiniteSet(Below(i)) /\ Cardinality(Below(i)) \in 0 .. n - 1
  <2>1. i \notin Below(i) /\ Below(i) \in SUBSET (K \ {i})
    OBVIOUS
  <2>2. IsFiniteSet(K \ {i}) /\ Cardinality(K \ {i}) = n - 1
    BY FS_RemoveElement
  <2> HIDE DEF Below, n
  <2>3. IsFiniteSet(Below(i)) /\ Cardinality(Below(i)) <= n - 1
    BY <2>1, <2>2, FS_Subset
  <2> QED BY <1>1, <2>3, FS_CardinalityType
<1>3. ASSUME NEW i \in K, NEW l \in K, i < l PROVE Cardinality(Below(i)) < Cardinality(Below(l))
  <2>1. i \notin Below(i) /\ (Below(i) \cup {i}) \in SUBSET Below(l)
    <3>1. i \in Nat /\ l \in Nat
      OBVIOUS
    <3>2. \A x \in Below(i) : x \in Below(l)
      BY <1>3, <3>1
    <3>3. i \in Below(l) /\ i \notin Below(i)
      BY <1>3, <3>1
    <3> QED BY <3>2, <3>3
  <2> HIDE DEF Below
  <2>2. IsFiniteSet(Below(i)) /\ IsFiniteSet(Below(l)) /\ Cardinality(Below(i)) \in Nat /\ Cardinality(Below(l)) \in Nat
    BY <1>2, FS_CardinalityType
  <2>3. Cardinality(Below(i) \cup {i}) = Cardinality(Below(i)) + 1
    BY <2>1, <2>2, FS_AddElement
  <2>4. Cardinality(Below(i) \cup {i}) <= Cardinality(Below(l))
    BY <2>1, <2>2, FS_Subset
  <2> QED BY <2>2, <2>3, <2>4
<1> HIDE DEF Below, n
<1>4. ASSUME NEW i \in K, NEW l \in K, rank[i] = rank[l] PROVE i = l
  <2>1. ~ (i < l) /\ ~ (l < i)
    BY <1>2, <1>3, <1>4
  <2> QED BY <2>1
<1>5. rank \in Injection(K, 0 .. n - 1)
  <2>1. rank \in [K -> 0 .. n - 1]
    BY <1>2
  <2> HIDE DEF rank
  <2>2. DOMAIN rank = K
    BY <2>1
  <2> QED BY <1>4, <2>1, <2>2 DEF Injection, IsInjective
<1>6. IsFiniteSet(0 .. n - 1) /\ Cardinality(0 .. n - 1) = n
  BY <1>1, FS_Interval
<1>7. rank \in Surjection(K, 0 .. n - 1)
  BY <1>5, <1>6, FS_Injection DEF n
<1>8. ASSUME NEW k \in 1 .. n PROVE \E i \in K : Cardinality(Below(i)) = k - 1
  <2>1. k - 1 \in 0 .. n - 1
    BY <1>1
  <2>2. PICK i \in K : rank[i] = k - 1
    BY <1>7, <2>1 DEF Surjection
  <2> QED BY <2>2
<1>9. ASSUME NEW i \in K PROVE Cardinality(Below(i)) \in 0 .. n - 1
  BY <1>2
<1>10. \A i, l \in K : Cardinality(Below(i)) = Cardinality(Below(l)) => i = l
  BY <1>4
<1> QED BY <1>1, <1>8, <1>9, <1>10 DEF Below, n

\* What is kept of a sequence is there as often as before.
LEMMA OnlyOnce ==
  ASSUME NEW A, NEW s \in Seq(A), Distinct(s), NEW S, NEW t, t = Only(s, S)
  PROVE  t \in Seq(A \cap S) /\ Distinct(t) /\ ToSet(t) = ToSet(s) \cap S
<1> DEFINE K == {i \in DOMAIN s : s[i] \in S}
           Rank(i) == Cardinality({j \in K : j < i})
           Place(k) == CHOOSE i \in K : Rank(i) = k - 1
           n == Cardinality(K)
<1>1. K \in SUBSET Nat /\ K \in SUBSET (1 .. Len(s)) /\ DOMAIN s = 1 .. Len(s) /\ Len(s) \in Nat
  OBVIOUS
<1>2. \A i \in K : s[i] \in A \cap S
  BY <1>1
<1>3. IsFiniteSet(K)
  <2>1. IsFiniteSet(1 .. Len(s))
    BY <1>1, FS_Interval
  <2> HIDE DEF K
  <2> QED BY <1>1, <2>1, FS_Subset
<1>4. /\ n \in Nat /\ \A k \in 1 .. n : \E i \in K : Rank(i) = k - 1
      /\ \A i \in K : Rank(i) \in 0 .. n - 1
      /\ \A i, l \in K : Rank(i) = Rank(l) => i = l
  <2> HIDE DEF K
  <2> QED BY <1>1, <1>3, Ranked
<1>5. t = [k \in 1 .. n |-> s[Place(k)]]
  BY DEF Only
<1>6. \A x \in ToSet(s) \cap S : \E i \in K : x = s[i]
  BY <1>1 DEF ToSet
<1>7. \A i \in K : s[i] \in ToSet(s) \cap S
  BY <1>1 DEF ToSet
<1>8. \A i, l \in K : s[i] = s[l] => i = l
  BY <1>1 DEF Distinct
<1> HIDE DEF K, n, Rank
<1>9. ASSUME NEW k \in 1 .. n PROVE Place(k) \in K /\ Rank(Place(k)) = k - 1
  BY <1>4
<1>10. ASSUME NEW i \in K PROVE Rank(i) + 1 \in 1 .. n /\ Place(Rank(i) + 1) = i
  <2>1. Rank(i) + 1 \in 1 .. n /\ Rank(i) \in Int
    BY <1>4
  <2>2. Place(Rank(i) + 1) \in K /\ Rank(Place(Rank(i) + 1)) = (Rank(i) + 1) - 1
    BY <1>9, <2>1
  <2>3. (Rank(i) + 1) - 1 = Rank(i)
    BY <2>1
  <2> HIDE DEF Place
  <2> QED BY <1>4, <2>1, <2>2, <2>3
<1> HIDE DEF Place
<1>11. t \in Seq(A \cap S) /\ Len(t) = n /\ \A k \in 1 .. n : t[k] = s[Place(k)]
  BY <1>2, <1>4, <1>5, <1>9
<1>12. Distinct(t)
  <2> SUFFICES ASSUME NEW k \in 1 .. n, NEW l \in 1 .. n, t[k] = t[l] PROVE k = l
    BY <1>11 DEF Distinct
  <2>1. Place(k) = Place(l)
    BY <1>8, <1>9, <1>11
  <2>2. k - 1 = l - 1
    BY <1>9, <2>1
  <2> QED BY <2>2
<1>13. ToSet(t) = {t[k] : k \in 1 .. n}
  BY <1>11, Elements
<1>14. \A k \in 1 .. n : t[k] \in ToSet(s) \cap S
  BY <1>7, <1>9, <1>11
<1>15. \A x \in ToSet(s) \cap S : \E k \in 1 .. n : x = t[k]
  BY <1>6, <1>10, <1>11
<1> QED BY <1>11, <1>12, <1>13, <1>14, <1>15

\* Moving an element forward neither loses nor repeats one.
LEMMA MovedKeeps ==
  ASSUME NEW A, NEW s \in Seq(A), Distinct(s), NEW to \in 1 .. Len(s), NEW from \in to .. Len(s),
         NEW t, t = MoveTo(s, from, to)
  PROVE  /\ t \in Seq(A) /\ Len(t) = Len(s) /\ Distinct(t) /\ ToSet(t) = ToSet(s)
         /\ t[to] = s[from] /\ \A i \in 1 .. to - 1 : t[i] = s[i]
<1> DEFINE n == to - 1
<1>0. n \in 0 .. Len(s) - 1 /\ n + 1 = to /\ from \in n + 1 .. Len(s)
  OBVIOUS
<1> HIDE DEF n
<1> DEFINE Old(i) == IF i <= n THEN i ELSE IF i = n + 1 THEN from ELSE IF i <= from THEN i - 1 ELSE i
           New(i) == IF i <= n THEN i ELSE IF i = from THEN n + 1 ELSE IF i < from THEN i + 1 ELSE i
<1>1. /\ t \in Seq(A) /\ Len(t) = Len(s) /\ t[n + 1] = s[from]
      /\ \A i \in 1 .. n : t[i] = s[i]
      /\ \A i \in n + 2 .. Len(s) : t[i] = s[IF i <= from THEN i - 1 ELSE i]
  <2>1. t = MoveTo(s, from, n + 1)
    BY <1>0
  <2> QED BY <1>0, <2>1, Moved
<1>2. Len(s) \in Nat /\ n \in Nat /\ from \in Nat /\ n < from /\ from <= Len(s)
  BY <1>0
<1>3. ASSUME NEW i \in 1 .. Len(s) PROVE t[i] = s[Old(i)] /\ Old(i) \in 1 .. Len(s)
  <2>1. CASE i <= n
    BY <1>1, <1>2, <2>1
  <2>2. CASE i = n + 1
    BY <1>1, <1>2, <2>2
  <2>3. CASE i \in n + 2 .. Len(s)
    BY <1>1, <1>2, <2>3
  <2> QED BY <1>2, <2>1, <2>2, <2>3
<1>4. ASSUME NEW i \in 1 .. Len(s) PROVE New(i) \in 1 .. Len(s) /\ Old(New(i)) = i /\ New(Old(i)) = i
  BY <1>2
<1> HIDE DEF Old, New
<1>5. Distinct(t)
  <2> SUFFICES ASSUME NEW i \in 1 .. Len(s), NEW j \in 1 .. Len(s), t[i] = t[j] PROVE i = j
    BY <1>1 DEF Distinct
  <2>1. s[Old(i)] = s[Old(j)] /\ Old(i) \in 1 .. Len(s) /\ Old(j) \in 1 .. Len(s)
    BY <1>3
  <2>2. Old(i) = Old(j)
    BY <2>1 DEF Distinct
  <2> QED BY <1>4, <2>2
<1>6. ToSet(t) = {t[i] : i \in 1 .. Len(s)} /\ ToSet(s) = {s[i] : i \in 1 .. Len(s)}
  BY <1>1, Elements
<1>7. \A i \in 1 .. Len(s) : \E j \in 1 .. Len(s) : t[i] = s[j]
  BY <1>3
<1>8. \A i \in 1 .. Len(s) : \E j \in 1 .. Len(s) : s[i] = t[j]
  <2> TAKE i \in 1 .. Len(s)
  <2>1. New(i) \in 1 .. Len(s) /\ Old(New(i)) = i
    BY <1>4
  <2>2. t[New(i)] = s[Old(New(i))]
    BY <1>3, <2>1
  <2>3. s[i] = t[New(i)]
    BY <2>1, <2>2
  <2> QED BY <2>1, <2>3
<1>9. ToSet(t) = ToSet(s)
  <2>1. ASSUME NEW x \in ToSet(t) PROVE x \in ToSet(s)
    <3>1. PICK i \in 1 .. Len(s) : x = t[i]
      BY <1>6
    <3>2. PICK j \in 1 .. Len(s) : t[i] = s[j]
      BY <1>7
    <3> QED BY <1>6, <3>1, <3>2
  <2>2. ASSUME NEW x \in ToSet(s) PROVE x \in ToSet(t)
    <3>1. PICK i \in 1 .. Len(s) : x = s[i]
      BY <1>6
    <3>2. PICK j \in 1 .. Len(s) : s[i] = t[j]
      BY <1>8
    <3> QED BY <1>6, <3>1, <3>2
  <2> QED BY <2>1, <2>2
<1>10. t[to] = s[from] /\ \A i \in 1 .. to - 1 : t[i] = s[i]
  BY <1>0, <1>1 DEF n
<1> QED BY <1>1, <1>5, <1>9, <1>10

\* Numbers below m * n fall into m rows of n, whatever n is.
LEMMA Row ==
  ASSUME NEW n \in Nat \ {0}, NEW m \in Nat, NEW x \in 0 .. n * m - 1
  PROVE  x \div n \in 0 .. m - 1 /\ x \div n \in Int /\ n * (x \div n) <= x /\ x < n * (x \div n) + n
<1> DEFINE q == x \div n
<1>1. n * m \in Int /\ x \in Nat
  OBVIOUS
<1>2. q \in Nat /\ n * q <= x /\ x < n * q + n
  BY <1>1, Z3
<1> HIDE DEF q
<1>3. q < m
  <2> SUFFICES ASSUME m <= q PROVE FALSE
    BY <1>2
  <2>1. n * m <= n * q
    BY <1>2, Z3
  <2> QED BY <1>1, <1>2, <2>1
<1> QED BY <1>2, <1>3 DEF q

\* Multiples of n that are closer than n are the same.
LEMMA Apart ==
  ASSUME NEW n \in Nat \ {0}, NEW u \in Int, NEW v \in Int, n * u - n * v < n, n * v - n * u < n
  PROVE  u = v
<1>1. n * u \in Int /\ n * v \in Int
  OBVIOUS
<1>2. ~ u < v
  <2> SUFFICES ASSUME u + 1 <= v PROVE FALSE
    OBVIOUS
  <2>1. n * (u + 1) <= n * v /\ n * (u + 1) = n * u + n
    BY Z3
  <2> QED BY <1>1, <2>1
<1>3. ~ v < u
  <2> SUFFICES ASSUME v + 1 <= u PROVE FALSE
    OBVIOUS
  <2>1. n * (v + 1) <= n * u /\ n * (v + 1) = n * v + n
    BY Z3
  <2> QED BY <1>1, <2>1
<1> QED BY <1>2, <1>3

LEMMA Column ==
  ASSUME NEW n \in Nat \ {0}, NEW x \in Nat
  PROVE  x % n \in 0 .. n - 1 /\ \E u \in Nat : x = n * u + (x % n)
<1>1. x % n \in 0 .. n - 1 /\ x \div n \in Nat /\ x = n * (x \div n) + (x % n)
  BY Z3
<1> QED BY <1>1

\* The rotation meets each pair of a server and a plane once.
LEMMA Rotated ==
  ASSUME NEW r \in 0 .. Len(Servers) - 1, NEW t, t = Rotation(r)
  PROVE  t \in Seq(DialPairs) /\ Distinct(t) /\ ToSet(t) = DialPairs
<1> DEFINE n == Len(Servers)
           m == Len(Planes)
           Server(k) == ((r + (k - 1)) % n) + 1
           Plane(k) == ((k - 1) \div n) + 1
<1>1. /\ n \in Nat \ {0} /\ m \in Nat /\ r \in Nat /\ r < n /\ n * m \in Nat
      /\ Servers \in Seq(ToSet(Servers)) /\ Planes \in Seq(ToSet(Planes))
  BY DialAssumption
<1>2. /\ ToSet(Servers) = {Servers[i] : i \in 1 .. n} /\ ToSet(Planes) = {Planes[j] : j \in 1 .. m}
      /\ DOMAIN Servers = 1 .. n /\ DOMAIN Planes = 1 .. m
  BY <1>1, Elements
<1>3. /\ \A i, j \in 1 .. n : Servers[i] = Servers[j] => i = j
      /\ \A i, j \in 1 .. m : Planes[i] = Planes[j] => i = j
  BY <1>2, DialAssumption DEF IsInjective
<1>4. t = [k \in 1 .. n * m |-> <<Servers[Server(k)], Planes[Plane(k)]>>]
  BY DEF Rotation
<1> HIDE DEF n, m
<1>5. ASSUME NEW k \in 1 .. n * m
      PROVE  /\ Server(k) \in 1 .. n /\ Plane(k) \in 1 .. m
             /\ n * (Plane(k) - 1) <= k - 1 /\ k - 1 < n * (Plane(k) - 1) + n
             /\ \E u \in Nat : r + (k - 1) = n * u + (Server(k) - 1)
  <2>1. k - 1 \in 0 .. n * m - 1 /\ r + (k - 1) \in Nat
    BY <1>1
  <2> DEFINE a == (k - 1) \div n
             b == (r + (k - 1)) % n
  <2>2. a \in 0 .. m - 1 /\ n * a <= k - 1 /\ k - 1 < n * a + n
    BY <1>1, <2>1, Row
  <2>3. b \in 0 .. n - 1 /\ \E u \in Nat : r + (k - 1) = n * u + b
    BY <1>1, <2>1, Column
  <2>4. Server(k) = b + 1 /\ Plane(k) = a + 1
    OBVIOUS
  <2> HIDE DEF a, b
  <2>5. (b + 1) - 1 = b /\ (a + 1) - 1 = a /\ b + 1 \in 1 .. n /\ a + 1 \in 1 .. m
    BY <1>1, <2>2, <2>3
  <2> HIDE DEF Server, Plane
  <2> QED BY <2>2, <2>3, <2>4, <2>5
<1>6. ASSUME NEW i \in 1 .. n, NEW j \in 1 .. m
      PROVE  \E k \in 1 .. n * m : Server(k) = i /\ Plane(k) = j
  <2> DEFINE c == IF i - 1 >= r THEN i - 1 - r ELSE i - 1 - r + n
             x == n * (j - 1) + c
  <2>1. c \in 0 .. n - 1
    BY <1>1
  <2>2. n * (j - 1) \in Nat /\ n * (j - 1) + n <= n * m
    <3>1. j - 1 \in Nat /\ j <= m /\ j \in Nat
      OBVIOUS
    <3>2. n * j <= n * m /\ n * (j - 1) = n * j - n /\ n * (j - 1) \in Nat
      BY <1>1, <3>1, Z3
    <3> QED BY <1>1, <3>2
  <2>3. x \in 0 .. n * m - 1
    BY <1>1, <2>1, <2>2
  <2>4. x \div n = j - 1
    <3>1. /\ x \div n \in Int /\ n * (x \div n) <= x /\ x < n * (x \div n) + n
      BY <1>1, <2>3, Row
    <3> DEFINE q == x \div n
    <3>2. j - 1 \in Int /\ n * q \in Int /\ q \in Int
      BY <1>1, <3>1
    <3>3. n * q <= n * (j - 1) + c /\ n * (j - 1) + c < n * q + n
      BY <3>1
    <3> HIDE DEF q, x, c
    <3>4. n * q - n * (j - 1) < n /\ n * (j - 1) - n * q < n
      BY <1>1, <2>1, <2>2, <3>2, <3>3
    <3>5. q = j - 1
      BY <1>1, <3>2, <3>4, Apart
    <3> QED BY <3>5 DEF q
  <2>5. (r + x) % n = i - 1
    <3> DEFINE d == (r + x) % n
    <3>1. r + x \in Nat
      BY <1>1, <2>3
    <3>2. d \in 0 .. n - 1 /\ \E u \in Nat : r + x = n * u + d
      BY <1>1, <3>1, Column
    <3>3. PICK u \in Nat : r + x = n * u + d
      BY <3>2
    <3>4. PICK v \in Nat : r + x = n * v + (i - 1)
      <4>1. CASE i - 1 >= r
        <5>1. r + x = n * (j - 1) + (i - 1) /\ j - 1 \in Nat
          BY <1>1, <2>2, <4>1
        <5> QED BY <5>1
      <4>2. CASE ~ (i - 1 >= r)
        <5>1. r + x = n * (j - 1) + n + (i - 1)
          BY <1>1, <2>2, <4>2
        <5>2. n * (j - 1) + n = n * j /\ j \in Nat
          BY <1>1, Z3
        <5> QED BY <5>1, <5>2
      <4> QED BY <4>1, <4>2
    <3> HIDE DEF d, x
    <3>5. n * u \in Int /\ n * v \in Int
      BY <1>1
    <3>6. n * u - n * v < n /\ n * v - n * u < n
      BY <1>1, <3>1, <3>2, <3>3, <3>4, <3>5
    <3>7. u = v
      BY <1>1, <3>6, Apart
    <3>8. d = i - 1
      BY <1>1, <3>2, <3>3, <3>4, <3>5, <3>7
    <3> QED BY <3>8 DEF d
  <2> HIDE DEF x
  <2>6. x + 1 \in 1 .. n * m /\ (x + 1) - 1 = x
    BY <1>1, <2>3
  <2>7. Server(x + 1) = i /\ Plane(x + 1) = j
    BY <2>4, <2>5, <2>6
  <2> QED BY <2>6, <2>7
<1>7. ASSUME NEW k \in 1 .. n * m, NEW l \in 1 .. n * m, Server(k) = Server(l), Plane(k) = Plane(l)
      PROVE  k = l
  <2> DEFINE p == Plane(k) - 1
             s == Server(k) - 1
  <2>1. PICK u \in Nat : r + (k - 1) = n * u + s
    BY <1>5
  <2>2. PICK v \in Nat : r + (l - 1) = n * v + s
    BY <1>5, <1>7
  <2>3. /\ n * p <= k - 1 /\ k - 1 < n * p + n
        /\ n * p <= l - 1 /\ l - 1 < n * p + n
    BY <1>5, <1>7
  <2>4. p \in Int /\ s \in Int /\ n * p \in Int /\ n * u \in Int /\ n * v \in Int /\ k \in Int /\ l \in Int
    BY <1>1, <1>5
  <2> HIDE DEF p, s
  <2>5. n * u - n * v < n /\ n * v - n * u < n
    BY <1>1, <2>1, <2>2, <2>3, <2>4
  <2>6. u = v
    BY <1>1, <2>5, Apart
  <2> QED BY <1>1, <2>1, <2>2, <2>4, <2>6
<1> HIDE DEF Server, Plane
<1>8. t \in Seq(DialPairs) /\ Len(t) = n * m /\ \A k \in 1 .. n * m : t[k] = <<Servers[Server(k)], Planes[Plane(k)]>>
  <2>1. \A k \in 1 .. n * m : <<Servers[Server(k)], Planes[Plane(k)]>> \in DialPairs
    BY <1>2, <1>5 DEF DialPairs
  <2> QED BY <1>1, <1>4, <2>1
<1>9. Distinct(t)
  <2> SUFFICES ASSUME NEW k \in 1 .. n * m, NEW l \in 1 .. n * m, t[k] = t[l] PROVE k = l
    BY <1>8 DEF Distinct
  <2>1. Servers[Server(k)] = Servers[Server(l)] /\ Planes[Plane(k)] = Planes[Plane(l)]
    BY <1>8
  <2>2. Server(k) = Server(l) /\ Plane(k) = Plane(l)
    BY <1>3, <1>5, <2>1
  <2> QED BY <1>7, <2>2
<1>10. \A p \in DialPairs : \E k \in 1 .. n * m : p = t[k]
  <2> TAKE p \in DialPairs
  <2>1. PICK i \in 1 .. n, j \in 1 .. m : p = <<Servers[i], Planes[j]>>
    BY <1>2 DEF DialPairs
  <2>2. PICK k \in 1 .. n * m : Server(k) = i /\ Plane(k) = j
    BY <1>6
  <2> QED BY <1>8, <2>1, <2>2
<1>11. ToSet(t) = {t[k] : k \in 1 .. n * m} /\ ToSet(t) \subseteq DialPairs
  BY <1>8, Elements
<1> QED BY <1>8, <1>9, <1>10, <1>11

\* A round: the offered pairs of one condition, each once, the second on another
\* server than the first where one is.
LEMMA RoundIs ==
  ASSUME NEW r \in 0 .. Len(Servers) - 1, NEW hint, NEW h, NEW wanted, NEW t, t = Round(r, hint, h, wanted)
  PROVE  /\ t \in Seq(Offers) /\ Distinct(t) /\ ToSet(t) = {p \in Offers : h[p] = wanted}
         /\ (\E i \in 1 .. Len(t) : t[i][1] # t[1][1]) => Len(t) >= 2 /\ t[2][1] # t[1][1]
<1> DEFINE O == {p \in Offers : h[p] = wanted}
           all == Rotation(r)
           some == Only(all, O)
           first == HintFirst(some, hint)
<1>1. all \in Seq(DialPairs) /\ Distinct(all) /\ ToSet(all) = DialPairs
  BY Rotated
<1>2. O \subseteq DialPairs /\ O \subseteq Offers
  BY DialAssumption
<1>3. t = OtherServerNext(first)
  BY DEF Round
<1> HIDE DEF O, all
<1>4. some \in Seq(O) /\ Distinct(some) /\ ToSet(some) = O
  <2>1. DialPairs \cap O = O
    BY <1>2
  <2>2. some = Only(all, O)
    OBVIOUS
  <2> HIDE DEF some
  <2>3. some \in Seq(DialPairs \cap O) /\ Distinct(some) /\ ToSet(some) = DialPairs \cap O
    BY <1>1, <2>2, OnlyOnce
  <2> QED BY <2>1, <2>3
<1> HIDE DEF some
<1>5. first \in Seq(O) /\ Distinct(first) /\ ToSet(first) = O
  <2>1. CASE hint \in ToSet(some)
    <3> DEFINE from == CHOOSE i \in DOMAIN some : some[i] = hint
    <3>1. from \in 1 .. Len(some) /\ Len(some) \in Nat
      <4>1. \E i \in 1 .. Len(some) : some[i] = hint
        BY <1>4, <2>1, Elements
      <4>2. DOMAIN some = 1 .. Len(some) /\ Len(some) \in Nat
        BY <1>4
      <4> QED BY <4>1, <4>2
    <3>2. first = MoveTo(some, from, 1)
      BY <2>1 DEF HintFirst
    <3> HIDE DEF from, first
    <3>3. 1 \in 1 .. Len(some) /\ from \in 1 .. Len(some)
      BY <3>1
    <3> QED BY <1>4, <3>2, <3>3, MovedKeeps
  <2>2. CASE hint \notin ToSet(some)
    BY <1>4, <2>2 DEF HintFirst
  <2> QED BY <2>1, <2>2
<1> HIDE DEF first
<1> DEFINE others == {i \in DOMAIN first : first[i][1] # first[1][1]}
<1>6. others \in SUBSET (2 .. Len(first)) /\ Len(first) \in Nat /\ DOMAIN first = 1 .. Len(first)
  <2>1. DOMAIN first = 1 .. Len(first) /\ Len(first) \in Nat
    BY <1>5
  <2>2. \A i \in others : i \in 1 .. Len(first) /\ i # 1
    BY <2>1
  <2> HIDE DEF others
  <2> QED BY <2>1, <2>2
<1>7. CASE others = {}
  <2>1. t = first
    BY <1>3, <1>7 DEF OtherServerNext
  <2>2. \A i \in 1 .. Len(t) : t[i][1] = t[1][1]
    BY <1>6, <1>7, <2>1
  <2>3. t \in Seq(Offers)
    BY <1>2, <1>5, <2>1
  <2> QED BY <1>5, <2>1, <2>2, <2>3 DEF O
<1>8. CASE others # {}
  <2> DEFINE from == Min(others)
  <2>1. from \in others
    <3>1. others \in SUBSET Nat
      BY <1>6
    <3> HIDE DEF others
    <3> QED BY <1>8, <3>1, LeastIsOne
  <2>2. t = MoveTo(first, from, 2)
    BY <1>3, <1>8 DEF OtherServerNext
  <2>3. first[from][1] # first[1][1] /\ from \in 2 .. Len(first)
    BY <1>6, <2>1
  <2> HIDE DEF from, others
  <2>4. 2 \in 1 .. Len(first) /\ from \in 2 .. Len(first)
    BY <1>6, <2>3
  <2>5. /\ t \in Seq(O) /\ Len(t) = Len(first) /\ Distinct(t) /\ ToSet(t) = ToSet(first)
        /\ t[2] = first[from] /\ \A i \in 1 .. 2 - 1 : t[i] = first[i]
    BY <1>5, <2>2, <2>4, MovedKeeps
  <2>6. t[2] = first[from] /\ t[1] = first[1] /\ Len(t) >= 2
    BY <1>6, <2>3, <2>5
  <2>7. t \in Seq(Offers)
    BY <1>2, <2>5
  <2> QED BY <1>5, <2>3, <2>5, <2>6, <2>7 DEF O
<1> QED BY <1>7, <1>8

\* Two lists, one behind the other, can be told apart again.
LEMMA InTwo ==
  ASSUME NEW S, NEW a \in Seq(S), NEW b \in Seq(S), NEW t, t = a \o b
  PROVE  /\ t \in Seq(S) /\ Len(t) = Len(a) + Len(b) /\ Len(a) \in 0 .. Len(t)
         /\ SubSeq(t, 1, Len(a)) = a /\ SubSeq(t, Len(a) + 1, Len(t)) = b
<1>1. /\ t \in Seq(S) /\ Len(t) = Len(a) + Len(b) /\ Len(a) \in Nat /\ Len(b) \in Nat
      /\ \A i \in 1 .. Len(a) + Len(b) : t[i] = IF i <= Len(a) THEN a[i] ELSE b[i - Len(a)]
  BY ConcatProperties
<1> DEFINE n == Len(a)
           m == Len(b)
           u == SubSeq(t, 1, n)
           v == SubSeq(t, n + 1, n + m)
<1>2. u \in Seq(S) /\ Len(u) = n - 1 + 1 /\ \A i \in 1 .. n - 1 + 1 : u[i] = t[1 + i - 1]
  BY <1>1, Part
<1>3. u = a
  <2>1. Len(u) = Len(a) /\ \A i \in 1 .. Len(u) : u[i] = a[i]
    BY <1>1, <1>2
  <2> HIDE DEF u
  <2> QED BY <1>2, <2>1, SeqEqual
<1>4. v \in Seq(S) /\ Len(v) = m /\ \A i \in 1 .. m : v[i] = t[n + i]
  <2>1. n + 1 \in 1 .. Len(t) + 1 /\ n + m \in 0 .. Len(t) /\ n + 1 <= (n + m) + 1
    BY <1>1
  <2>2. /\ v \in Seq(S) /\ Len(v) = (n + m) - (n + 1) + 1
        /\ \A i \in 1 .. (n + m) - (n + 1) + 1 : v[i] = t[(n + 1) + i - 1]
    BY <1>1, <2>1, Part
  <2>3. (n + m) - (n + 1) + 1 = m /\ \A i \in 1 .. m : (n + 1) + i - 1 = n + i
    BY <1>1
  <2> HIDE DEF v
  <2> QED BY <2>2, <2>3
<1>5. v = b
  <2>1. \A i \in 1 .. m : n + i \in 1 .. Len(a) + Len(b) /\ ~ (n + i <= Len(a)) /\ (n + i) - Len(a) = i
    BY <1>1
  <2>2. Len(v) = Len(b) /\ \A i \in 1 .. Len(v) : v[i] = b[i]
    BY <1>1, <1>4, <2>1
  <2> HIDE DEF v
  <2> QED BY <1>4, <2>2, SeqEqual
<1> QED BY <1>1, <1>3, <1>5

\* A round has what it is asked for, and spread over the servers.
LEMMA RoundSpreads ==
  ASSUME NEW r \in 0 .. Len(Servers) - 1, NEW hint, NEW h, NEW wanted, NEW t, t = Round(r, hint, h, wanted)
  PROVE  t \in Seq(Offers) /\ Spread(t, {p \in Offers : h[p] = wanted})
<1> DEFINE O == {p \in Offers : h[p] = wanted}
<1>1. /\ t \in Seq(Offers) /\ Distinct(t) /\ ToSet(t) = O
      /\ (\E i \in 1 .. Len(t) : t[i][1] # t[1][1]) => Len(t) >= 2 /\ t[2][1] # t[1][1]
  BY RoundIs
<1> HIDE DEF O
<1>2. /\ ToSet(t) = {t[i] : i \in 1 .. Len(t)} /\ DOMAIN t = 1 .. Len(t) /\ Len(t) \in Nat
      /\ \A i \in 1 .. Len(t) : t[i] \in ToSet(t)
  BY <1>1, Elements
<1>3. t \in Seq(O)
  BY <1>1, <1>2
<1>4. IsInjective(t)
  BY <1>1, <1>2 DEF IsInjective, Distinct
<1>5. ASSUME NEW p \in O, p[1] # t[1][1] PROVE t[2][1] # t[1][1]
  <2>1. PICK i \in 1 .. Len(t) : p = t[i]
    BY <1>1, <1>2
  <2> QED BY <1>1, <1>5, <2>1
<1>6. Spread(t, O)
  BY <1>1, <1>3, <1>4, <1>5 DEF Spread
<1> QED BY <1>1, <1>6 DEF O

\* A list of A and one of B behind it.
InOrder(t, A, B) ==
  \E m \in 0 .. Len(t) : Spread(SubSeq(t, 1, m), A) /\ Spread(SubSeq(t, m + 1, Len(t)), B)

\* The healthy round and the degraded one behind it.
LEMMA CandidatesAre ==
  ASSUME NEW r \in 0 .. Len(Servers) - 1, NEW hint, NEW h1, NEW h2, NEW t, t = Candidates(r, hint, h1, h2),
         NEW A, A = {p \in Offers : h1[p] = "fine"}, NEW B, B = {p \in Offers : h2[p] = "degraded"}
  PROVE  t \in Seq(Offers) /\ InOrder(t, A, B)
<1> DEFINE a == Round(r, hint, h1, "fine")
           b == Round(r, hint, h2, "degraded")
<1>1. a \in Seq(Offers) /\ Spread(a, A)
  BY RoundSpreads
<1>2. b \in Seq(Offers) /\ Spread(b, B)
  BY RoundSpreads
<1>3. t = a \o b
  BY DEF Candidates
<1> HIDE DEF a, b
<1>4. /\ t \in Seq(Offers) /\ Len(a) \in 0 .. Len(t)
      /\ SubSeq(t, 1, Len(a)) = a /\ SubSeq(t, Len(a) + 1, Len(t)) = b
  BY <1>1, <1>2, <1>3, InTwo
<1> QED BY <1>1, <1>2, <1>4 DEF InOrder

LEMMA StartIsOrdered ==
  ASSUME InitDial PROVE OrderedByHealth
<1> SUFFICES ASSUME ~ lastResort, result = "running" PROVE OrderedByHealth
  BY DEF OrderedByHealth
<1>1. PICK r \in 0 .. Len(Servers) - 1, hint \in DialPairs : choices = Candidates(r, hint, seen[1], seen[2])
  BY DEF InitDial
<1> DEFINE h1 == seen[1]
           h2 == seen[2]
           A == {p \in Offers : h1[p] = "fine"}
           B == {p \in Offers : h2[p] = "degraded"}
<1>2. choices = Candidates(r, hint, h1, h2)
  BY <1>1
<1> HIDE DEF h1, h2
<1>3. A = {p \in Offers : h1[p] = "fine"} /\ B = {p \in Offers : h2[p] = "degraded"}
  OBVIOUS
<1> HIDE DEF A, B
<1>4. InOrder(choices, A, B)
  BY <1>2, <1>3, CandidatesAre
<1> QED BY <1>4 DEF OrderedByHealth, InOrder, h1, h2, A, B

LEMMA OrderStays ==
  ASSUME DialInv, OrderedByHealth, [NextDial]_dialVars
  PROVE  OrderedByHealth'
<1>1. next \in Nat
  BY OpensAre DEF DialInv
<1>2. CASE UNCHANGED <<choices, next, lastResort, seen, result>>
  BY <1>2 DEF OrderedByHealth
<1>3. CASE next' = next + 1 \/ (next > 0 /\ next' = next)
  BY <1>1, <1>3 DEF OrderedByHealth
<1>4. ASSUME NEW k \in DOMAIN att, TakeLate(k) \/ TakeWinner(k) \/ TakeError(k) \/ Opener(k)
      PROVE  next > 0 /\ (next' = next + 1 \/ next' = next)
  <2>1. k \in 1 .. next
    BY OpensAre DEF DialInv
  <2>2. next' = next + 1 \/ next' = next
    BY <1>4 DEF TakeLate, TakeWinner, TakeError, Opener, OpenReturns, Discard, Return, Launch
  <2> QED BY <1>1, <2>1, <2>2
<1>5. CASE Begin \/ Cancelled \/ Rescue \/ Hedge
  <2>1. next' = next + 1 \/ (next > 0 /\ next' = next)
    <3>1. CASE Begin
      BY <3>1 DEF Begin, Launch
    <3>2. CASE Cancelled
      BY <3>2 DEF Cancelled, Return
    <3>3. CASE Rescue
      BY <3>3 DEF Rescue, Launch
    <3>4. CASE Hedge
      BY <3>4 DEF Hedge, Launch
    <3> QED BY <1>5, <3>1, <3>2, <3>3, <3>4
  <2> QED BY <1>3, <2>1
<1>6. CASE TimerFires \/ RescueFires \/ CallerLeaves \/ Finished \/ UNCHANGED dialVars
  BY <1>2, <1>6 DEF TimerFires, RescueFires, CallerLeaves, Finished, dialVars, raceVars
<1> QED BY <1>3, <1>4, <1>5, <1>6 DEF NextDial, Dialer, Environment

LEMMA DialStarts ==
  ASSUME InitDial
  PROVE  DialInv
<1>1. /\ next = 0 /\ att = <<>> /\ conn = <<>> /\ verdict = <<>> /\ parent = "alive"
      /\ result \in {"running", "noPlane"}
  BY DEF InitDial
<1>2. choices \in Seq(Offers) /\ (result = "running" => Len(choices) > 0)
  <2>1. CASE lastResort
    <3>1. PICK p \in Offers : choices = <<p>>
      BY <2>1 DEF InitDial
    <3> QED BY <3>1
  <2>2. CASE result = "noPlane"
    BY <2>2 DEF InitDial
  <2>3. CASE ~ lastResort /\ result = "running"
    <3>1. PICK r \in 0 .. Len(Servers) - 1, hint \in DialPairs :
            choices = Candidates(r, hint, seen[1], seen[2]) /\ choices # <<>>
      BY <2>3 DEF InitDial
    <3>2. choices \in Seq(Offers)
      BY <3>1, CandidatesAre
    <3> QED BY <3>1, <3>2
  <2> QED BY <1>1, <2>1, <2>2, <2>3
<1>3. DialTypes
  BY <1>1, <1>2 DEF DialTypes
<1>4. Held
  BY <1>1 DEF Held
<1> QED BY <1>1, <1>3, <1>4 DEF DialInv, ErrorIsExhausted

\* hedge.go:173-179, 226-231: however opens, timers, the caller and the rescue race, no
\* connection is left open when the goroutines have ended but the one that is returned.
THEOREM NoConnectionLeaksHolds == SpecDial => []NoConnectionLeaks
<1>1. DialInv => NoConnectionLeaks
  <2> SUFFICES ASSUME DialInv PROVE NoConnectionLeaks
    OBVIOUS
  <2>0. DOMAIN att = 1 .. next /\ DOMAIN conn = 1 .. next
    BY OpensAre DEF DialInv
  <2>1. Live = {} => \A k \in DOMAIN conn : conn[k] # "open"
    BY <2>0 DEF DialInv, Held, Live
  <2> DEFINE R == {k \in DOMAIN conn : conn[k] = "returned"}
  <2>2. CASE result = "conn"
    <3>1. PICK k \in 1 .. next : conn[k] = "returned" /\ \A j \in (1 .. next) \ {k} : conn[j] # "returned"
      BY <2>2 DEF DialInv, Held
    <3>2. R = {k}
      BY <2>0, <3>1
    <3>3. Cardinality(R) = 1
      BY <3>2, FS_Singleton
    <3> QED BY <2>1, <2>2, <3>3 DEF NoConnectionLeaks
  <2>3. CASE result # "conn"
    <3>1. R = {}
      BY <2>0, <2>3 DEF DialInv, Held
    <3>2. Cardinality(R) = 0
      BY <3>1, FS_EmptySet
    <3> QED BY <2>1, <2>3, <3>2 DEF NoConnectionLeaks
  <2> QED BY <2>2, <2>3
<1>2. InitDial => DialInv
  BY DialStarts
<1>3. DialInv /\ [NextDial]_dialVars => DialInv'
  BY DialSteps
<1> QED BY <1>1, <1>2, <1>3, PTL DEF SpecDial

\* hedge.go:240-265: with an error every candidate was tried and failed by itself,
\* wherever the rescue moved it.
THEOREM ErrorIsExhaustedHolds == SpecDial => []ErrorIsExhausted
<1>1. DialInv => ErrorIsExhausted
  BY DEF DialInv
<1>2. InitDial => DialInv
  BY DialStarts
<1>3. DialInv /\ [NextDial]_dialVars => DialInv'
  BY DialSteps
<1> QED BY <1>1, <1>2, <1>3, PTL DEF SpecDial

\* A launch adds a verdict that is none yet.
LEMMA LaunchTells ==
  ASSUME DialInv, NEW s, NEW a, NEW v \in Seq(Tellings), Len(v) = next, Launch(s, a, v), NEW k \in 1 .. next
  PROVE  verdict'[k] = v[k]
<1>1. verdict' = Append(v, "none") /\ "none" \in Tellings
  BY DEF Launch, Tellings
<1> QED BY <1>1, AppendProperties

LEMMA PausedStep ==
  ASSUME DialInv, [NextDial]_dialVars, NEW k \in DOMAIN verdict, verdict'[k] = "fail", verdict[k] = "none"
  PROVE  att[k] = "failed" /\ parent = "alive"
<1>0. k \in 1 .. next /\ DOMAIN att = 1 .. next /\ verdict \in Seq(Tellings) /\ Len(verdict) = next /\ next \in Nat
  BY OpensAre DEF DialInv, DialTypes
<1>1. CASE \E j \in 1 .. next : TakeWinner(j)
  <2>1. PICK j \in 1 .. next, x \in {"none", "good"} : verdict' = [verdict EXCEPT ![j] = x]
    BY <1>1 DEF TakeWinner
  <2> QED BY <1>0, <2>1
<1>2. CASE \E j \in 1 .. next : TakeError(j)
  <2>1. PICK j \in 1 .. next : TakeError(j)
    BY <1>2
  <2> DEFINE told == [verdict EXCEPT ![j] = Judged(j)]
  <2>2. /\ result = "running" /\ parent # "cancelled" /\ att[j] \in {"failed", "unwired", "cancelled"}
        /\ verdict' = told \/ \E s, a : Launch(s, a, told)
    BY <2>1 DEF TakeError, CallerGone
  <2>3. told \in Seq(Tellings) /\ Len(told) = next /\ told[k] = IF j = k THEN Judged(k) ELSE verdict[k]
    <3>1. Judged(j) \in Tellings
      BY DEF Judged, Tellings
    <3> QED BY <1>0, <3>1, Replaced
  <2>4. verdict'[k] = told[k]
    <3> HIDE DEF told
    <3> QED BY <1>0, <2>2, <2>3, LaunchTells
  <2>5. j = k /\ Judged(k) = "fail"
    BY <2>3, <2>4
  <2>6. att[k] # "unwired" /\ att[k] # "cancelled"
    BY <1>0, <2>2, <2>5 DEF Judged, DialInv, Held, RaceOver
  <2> QED BY <2>2, <2>5, <2>6 DEF DialInv, DialTypes
<1>3. CASE verdict' = verdict \/ \E s, a : Launch(s, a, verdict)
  <2>1. verdict'[k] = verdict[k]
    BY <1>0, <1>3, LaunchTells
  <2> QED BY <2>1
<1>4. \/ verdict' = verdict \/ \E s, a : Launch(s, a, verdict)
      \/ \E j \in 1 .. next : TakeWinner(j) \/ TakeError(j)
  BY <1>0 DEF dialVars, raceVars, NextDial, Dialer, Opener, Environment, Begin, Cancelled,
         Rescue, Hedge, TakeLate, OpenReturns, Discard, TimerFires, RescueFires, CallerLeaves, Finished
<1> QED BY <1>1, <1>2, <1>3, <1>4

\* hedge.go:226-231: no pair is paused because the race or its caller ended first.
THEOREM OnlyFailuresArePausedHolds == SpecDial => OnlyFailuresArePaused
<1>1. DialInv /\ [NextDial]_dialVars =>
        [\A k \in DOMAIN verdict : verdict'[k] = "fail" /\ verdict[k] = "none" =>
           att[k] = "failed" /\ parent = "alive"]_dialVars
  BY PausedStep
<1>2. InitDial => DialInv
  BY DialStarts
<1>3. DialInv /\ [NextDial]_dialVars => DialInv'
  BY DialSteps
<1> QED BY <1>1, <1>2, <1>3, PTL DEF SpecDial, OnlyFailuresArePaused

\* hedge.go:71-123: whatever the health does between the two rounds, a dial starts from
\* the pairs the first found healthy and the second degraded, each list without a
\* repetition and with another server second where there is one.
THEOREM OrderedByHealthHolds == SpecDial => []OrderedByHealth
<1>1. InitDial => DialInv /\ OrderedByHealth
  BY DialStarts, StartIsOrdered
<1>2. DialInv /\ OrderedByHealth /\ [NextDial]_dialVars => (DialInv /\ OrderedByHealth)'
  BY DialSteps, OrderStays
<1> QED BY <1>1, <1>2, PTL DEF SpecDial

LEMMA DialTypesStay ==
  ASSUME DialInv, TypeOKDial, [NextDial]_dialVars
  PROVE  TypeOKDial'
<1>1. DialInv'
  BY DialSteps
<1> USE DEF TypeOKDial, Dialer, Opener, Environment, Begin, Cancelled, Rescue, Hedge, TakeLate, TakeWinner,
            TakeError, OpenReturns, Discard, TimerFires, RescueFires, CallerLeaves, Finished, Return,
            Rearm, Launch, dialVars, raceVars
<1>2. (seen \in [1 .. 2 -> [Offers -> Conditions]])'
  BY DEF NextDial, Conditions
<1>3. (timer \in {"armed", "fired", "off"} /\ rescue \in {"armed", "fired", "off"})'
  BY DEF NextDial
<1>4. (lastResort \in BOOLEAN /\ rescued \in BOOLEAN)'
  BY DEF NextDial
<1>5. (result \in {"running", "conn", "error", "allCooling", "noPlane", "cancelled"})'
  BY DEF NextDial
<1> QED BY <1>1, <1>2, <1>3, <1>4, <1>5 DEF DialInv, DialTypes, Goroutines, Ends, Tellings

\* However many servers and transports there are, a dial keeps its types: its
\* candidates are pairs that are offered, and every open, its connection and what
\* the policy was told of it are on record.
THEOREM DialTypeCorrect == SpecDial => []TypeOKDial
<1>1. InitDial => DialInv /\ TypeOKDial
  <2> SUFFICES ASSUME InitDial PROVE DialInv /\ TypeOKDial
    OBVIOUS
  <2>1. DialInv
    BY DialStarts
  <2> QED BY <2>1 DEF InitDial, TypeOKDial, DialInv, DialTypes, Goroutines, Ends, Tellings
<1>2. DialInv /\ TypeOKDial /\ [NextDial]_dialVars => (DialInv /\ TypeOKDial)'
  BY DialSteps, DialTypesStay
<1> QED BY <1>1, <1>2, PTL DEF SpecDial

-----------------------------------------------------------------------------
(* The types of the client, whose candidates are a pass over what it knows. *)

\* At these places a request goes through candidates it has.
Trying == {"session", "resolved", "rejected", "stream", "engine"}
Listed(r) == r.exits \in Seq(Exits) /\ (r.at \in Trying => r.exits # <<>>)

\* Each exit is learnt once.
Learnt == known \in Seq(Exits) /\ Distinct(known) /\ lookup \subseteq Range(known)

RouteTypes ==
  /\ sessions \subseteq Exits /\ pending \subseteq Exits /\ paused \subseteq RoutePairs
  /\ rr \in Nat /\ udpRr \in Nat /\ requests \subseteq Apps

ClientInv == RouteInv /\ Learnt /\ RouteTypes /\ \A a \in Apps : Listed(app[a])

\* addSlotEntry: the exits that are new, in some order, each once.
LEMMA NewOnes ==
  ASSUME NEW S, IsFiniteSet(S)
  PROVE  SetToSeq(S) \in Seq(S) /\ Distinct(SetToSeq(S)) /\ ToSet(SetToSeq(S)) \subseteq S
<1>1. Cardinality(S) \in Nat /\ \E f \in [1 .. Cardinality(S) -> S] : IsInjective(f)
  <2>1. Cardinality(S) \in Nat /\ ExistsBijection(1 .. Cardinality(S), S)
    BY FS_CardinalityType
  <2>2. PICK f \in [1 .. Cardinality(S) -> S] : f \in Bijection(1 .. Cardinality(S), S)
    BY <2>1 DEF ExistsBijection, Bijection, Injection
  <2>3. IsInjective(f)
    BY <2>2 DEF IsInjective, Bijection, Injection
  <2> QED BY <2>1, <2>3
<1> DEFINE t == SetToSeq(S)
<1>2. t \in [1 .. Cardinality(S) -> S] /\ IsInjective(t)
  BY <1>1 DEF SetToSeq
<1> HIDE DEF t
<1>3. t \in Seq(S) /\ Len(t) = Cardinality(S)
  BY <1>1, <1>2
<1>4. Distinct(t)
  BY <1>2, <1>3 DEF Distinct, IsInjective
<1>5. ToSet(t) \subseteq S
  BY <1>2 DEF ToSet
<1> QED BY <1>3, <1>4, <1>5 DEF t

LEMMA LearnKeeps ==
  ASSUME Learnt, NEW e \in Exits, NEW rest \in SUBSET lookup, Learn(e, rest)
  PROVE  Learnt'
<1> DEFINE N == Peers[e] \ Range(known)
           new == SetToSeq(N)
<1>1. N \subseteq Exits /\ IsFiniteSet(N)
  BY ClientAssumption, FS_Subset
<1>2. new \in Seq(N) /\ Distinct(new)
  BY <1>1, NewOnes
<1>3. known' = known \o new /\ lookup' = IF new = <<>> THEN rest ELSE Range(known')
  BY DEF Learn
<1>4. /\ Len(known) \in Nat /\ Len(new) \in Nat /\ known' \in Seq(Exits) /\ Len(known') = Len(known) + Len(new)
      /\ \A i \in 1 .. Len(known') : known'[i] = IF i <= Len(known) THEN known[i] ELSE new[i - Len(known)]
  <2>1. known \in Seq(Exits) /\ new \in Seq(Exits)
    BY <1>1, <1>2 DEF Learnt
  <2> HIDE DEF new
  <2> QED BY <1>3, <2>1
<1>5. /\ \A i \in 1 .. Len(known) : known[i] \in Range(known) /\ i \in 1 .. Len(known')
      /\ \A i \in 1 .. Len(new) : new[i] \notin Range(known)
  <2>1. \A i \in 1 .. Len(known) : known[i] \in Range(known)
    BY DEF Learnt, Range
  <2>2. \A i \in 1 .. Len(new) : new[i] \in N
    BY <1>2
  <2> HIDE DEF new
  <2> QED BY <1>4, <2>1, <2>2
<1> HIDE DEF new, N
<1>6. Distinct(known')
  <2> SUFFICES ASSUME NEW i \in 1 .. Len(known'), NEW j \in 1 .. Len(known'), known'[i] = known'[j] PROVE i = j
    BY DEF Distinct
  <2>1. CASE i <= Len(known) /\ j <= Len(known)
    BY <1>4, <2>1 DEF Learnt, Distinct
  <2>2. CASE i > Len(known) /\ j > Len(known)
    <3>1. i - Len(known) \in 1 .. Len(new) /\ j - Len(known) \in 1 .. Len(new)
      BY <1>4, <2>2
    <3>2. new[i - Len(known)] = new[j - Len(known)]
      BY <1>4, <2>2
    <3>3. i - Len(known) = j - Len(known)
      BY <1>2, <3>1, <3>2 DEF Distinct
    <3> QED BY <1>4, <3>3
  <2>3. CASE i <= Len(known) /\ j > Len(known)
    <3>1. i \in 1 .. Len(known) /\ j - Len(known) \in 1 .. Len(new)
      BY <1>4, <2>3
    <3> QED BY <1>4, <1>5, <2>3, <3>1
  <2>4. CASE i > Len(known) /\ j <= Len(known)
    <3>1. j \in 1 .. Len(known) /\ i - Len(known) \in 1 .. Len(new)
      BY <1>4, <2>4
    <3> QED BY <1>4, <1>5, <2>4, <3>1
  <2> QED BY <1>4, <2>1, <2>2, <2>3, <2>4
<1>7. Range(known) \subseteq Range(known')
  <2> SUFFICES ASSUME NEW i \in 1 .. Len(known) PROVE known[i] \in Range(known')
    BY DEF Learnt, Range
  <2>1. i \in 1 .. Len(known') /\ known'[i] = known[i]
    BY <1>4, <1>5
  <2> QED BY <1>4, <2>1 DEF Range
<1>8. lookup' \subseteq Range(known')
  BY <1>3, <1>7 DEF Learnt
<1> QED BY <1>4, <1>6, <1>8 DEF Learnt

\* One request goes on, the others as they are.
LEMMA OneListed ==
  ASSUME ClientInv, NEW a \in Apps, NEW r, Listed(r), app' = [app EXCEPT ![a] = r]
  PROVE  \A b \in Apps : Listed(app[b])'
<1>1. \A b \in Apps : app'[b] = IF b = a THEN r ELSE app[b]
  BY DEF ClientInv, RouteInv
<1> QED BY <1>1 DEF ClientInv, Listed

LEMMA IdleIsListed == Listed(Idle)
  BY DEF Listed, Idle, Trying

LEMMA SameListed ==
  ASSUME ClientInv, app' = app
  PROVE  \A b \in Apps : Listed(app[b])'
  BY DEF ClientInv, Listed

PoolNames == sessions \subseteq Exits /\ pending \subseteq Exits

\* The loop goes on over the same candidates.
LEMMA TryListed ==
  ASSUME ClientInv, NEW a \in Apps, NEW r, Whole(r), r.exits \in Seq(Exits) \ {<<>>}, NEW from \in Nat, NEW bad,
         Try(a, r, from, bad)
  PROVE  PoolNames' /\ \A b \in Apps : Listed(app[b])'
<1> DEFINE turns == Len(r.exits) * Len(PlanesFor(a))
           left == {t \in from .. turns - 1 : PairAt(r, t, Robin(a)) \in RoutePairs \ bad}
           turn == Min(left)
           chosen == PairAt(r, turn, Robin(a))
           tried == [r EXCEPT !.turn = turn, !.pair = chosen]
<1>1. \/ EndOf(a) /\ PoolSame
      \/ left # {} /\ GetSession(a, tried, chosen[1])
      \/ Set(a, [tried EXCEPT !.at = "engine"]) /\ PoolSame
  BY DEF Try, PoolSame, pool
<1>2. left # {} => chosen \in RoutePairs
  <2>1. left \subseteq Nat
    OBVIOUS
  <2>2. left # {} => turn \in left
    BY <2>1, LeastIsOne
  <2> QED BY <2>1, <2>2
<1> HIDE DEF left, turn, chosen
<1>3. \A w \in Trying : Listed([tried EXCEPT !.at = w])
  <2> SUFFICES ASSUME NEW w \in Trying PROVE Listed([tried EXCEPT !.at = w])
    OBVIOUS
  <2>1. [tried EXCEPT !.at = w].exits = r.exits
    BY DEF Whole, Fields
  <2> QED BY <2>1 DEF Listed
<1> HIDE DEF tried
<1>4. CASE EndOf(a) /\ PoolSame
  BY <1>4, OneListed, IdleIsListed DEF EndOf, Set, PoolSame, PoolNames, ClientInv, RouteTypes
<1>5. CASE left # {} /\ GetSession(a, tried, chosen[1])
  <2>1. \E w \in Trying : app' = [app EXCEPT ![a] = [tried EXCEPT !.at = w]]
    BY <1>5 DEF GetSession, Set, Trying
  <2>2. chosen[1] \in Exits
    BY <1>2, <1>5 DEF RoutePairs
  <2>3. PoolNames'
    BY <1>5, <2>2 DEF GetSession, pool, PoolNames, ClientInv, RouteTypes
  <2> QED BY <1>3, <2>1, <2>3, OneListed
<1>6. CASE Set(a, [tried EXCEPT !.at = "engine"]) /\ PoolSame
  <2>1. "engine" \in Trying
    BY DEF Trying
  <2> QED BY <1>3, <1>6, <2>1, OneListed DEF Set, PoolSame, PoolNames, ClientInv, RouteTypes
<1> QED BY <1>1, <1>4, <1>5, <1>6

LEMMA FailsListed ==
  ASSUME ClientInv, NEW a \in Apps, app[a].at \in Trying, Fails(a)
  PROVE  Learnt' /\ RouteTypes' /\ \A b \in Apps : Listed(app[b])'
<1>1. Fit(app[a]) /\ Listed(app[a])
  BY DEF ClientInv, RouteInv
<1>2. app[a].pair \in RoutePairs
  BY <1>1 DEF Fit, Trying
<1>3. Whole(app[a]) /\ app[a].turn + 1 \in Nat /\ app[a].exits \in Seq(Exits) \ {<<>>}
  BY <1>1 DEF Fit, Listed
<1>4. PoolNames' /\ \A b \in Apps : Listed(app[b])'
  BY <1>3, TryListed DEF Fails
<1> QED BY <1>2, <1>4 DEF Fails, ClientInv, RouteTypes, PoolNames, Learnt, discovery, robin

\* The round robin goes on to a place there is.
LEMMA ServesListed ==
  ASSUME ClientInv, NEW a \in Apps, app[a].at \in Trying, Serves(a)
  PROVE  Learnt' /\ RouteTypes' /\ \A b \in Apps : Listed(app[b])'
<1> DEFINE planes == Len(PlanesFor(a))
           n == Len(app[a].exits)
           k == app[a].turn
           next1 == (Robin(a) + k \div planes + 1) % n
<1>1. n \in Nat \ {0} /\ k \in Nat
  BY DEF ClientInv, RouteInv, Fit, Listed
<1>2. planes \in Nat \ {0}
  BY ClientAssumption DEF PlanesFor
<1>3. Robin(a) \in Nat
  BY DEF ClientInv, RouteTypes, Robin
<1>4. next1 \in Nat
  <2> HIDE DEF planes, n, k
  <2>1. k \div planes \in Nat
    BY <1>1, <1>2, SMT
  <2> QED BY <1>1, <1>3, <2>1, SMT
<1>5. (rr \in Nat /\ udpRr \in Nat)'
  BY <1>4 DEF Serves, ClientInv, RouteTypes
<1>6. RouteTypes' /\ Learnt'
  BY <1>5 DEF Serves, ClientInv, RouteTypes, Learnt, discovery, pool
<1> DEFINE r == [Idle EXCEPT !.at = "open", !.alive = app[a].alive, !.pair = app[a].pair]
<1>7. Listed(r) /\ app' = [app EXCEPT ![a] = r]
  BY DEF Listed, Idle, Trying, Serves, Set
<1> HIDE DEF r
<1> QED BY <1>6, <1>7, OneListed

\* A request whose candidates are as they were, at no place that needs more.
Alike(r, q) == r.exits = q.exits /\ (r.at \in Trying => q.at \in Trying)

LEMMA AllAlike ==
  ASSUME ClientInv, \A b \in Apps : app'[b] = Idle \/ Alike(app'[b], app[b])
  PROVE  \A b \in Apps : Listed(app[b])'
<1> SUFFICES ASSUME NEW b \in Apps PROVE Listed(app'[b])
  BY DEF Listed
<1>1. Listed(app[b])
  BY DEF ClientInv
<1> QED BY <1>1, IdleIsListed DEF Alike, Listed

LEMMA OneAlike ==
  ASSUME ClientInv, NEW a \in Apps, NEW r, app' = [app EXCEPT ![a] = r], r = Idle \/ Alike(r, app[a])
  PROVE  \A b \in Apps : Listed(app[b])'
<1>1. \A b \in Apps : app'[b] = IF b = a THEN r ELSE app[b]
  BY DEF ClientInv, RouteInv
<1>2. \A b \in Apps : app'[b] = Idle \/ Alike(app'[b], app[b])
  BY <1>1 DEF Alike
<1> QED BY <1>2, AllAlike

\* The rest of the state is as it was.
Rests == Learnt' /\ RouteTypes'

LEMMA DiscoveryListed ==
  ASSUME ClientInv, Lookups \/ Poll \/ \E e \in Exits : Subscription(e) \/ OfferExpires(e)
  PROVE  Rests /\ \A b \in Apps : Listed(app[b])'
<1>1. ASSUME NEW e \in Exits, NEW rest \in SUBSET lookup, HandleOffer(e, rest)
      PROVE  Rests /\ \A b \in Apps : Listed(app[b])'
  <2>1. Learnt'
    BY <1>1, LearnKeeps DEF HandleOffer, ClientInv
  <2> QED BY <1>1, <2>1, SameListed DEF HandleOffer, Rests, ClientInv, RouteTypes, pool, robin
<1>2. ASSUME NEW e \in Exits, LookupFinds(e) \/ Subscription(e)
      PROVE  Rests /\ \A b \in Apps : Listed(app[b])'
  BY <1>1, <1>2 DEF LookupFinds, Subscription
<1>3. CASE Poll \/ \E e \in Exits : LookupFails(e)
  BY <1>3, SameListed DEF Poll, LookupAll, LookupFails, Rests, ClientInv, Learnt, RouteTypes, pool, robin
<1>4. ASSUME NEW e \in Exits, OfferExpires(e)
      PROVE  Rests /\ \A b \in Apps : Listed(app[b])'
  <2>1. ASSUME NEW b \in Apps PROVE Alike(app'[b], app[b])
    <3>1. app'[b] = app[b] \/ app'[b] = [app[b] EXCEPT !.stale = @ \cup {e}]
      BY <1>4 DEF OfferExpires
    <3>2. Whole(app[b])
      BY DEF ClientInv, RouteInv, Fit
    <3>3. app'[b].exits = app[b].exits /\ app'[b].at = app[b].at
      BY <3>1, <3>2 DEF Whole, Fields
    <3> QED BY <3>3 DEF Alike
  <2> QED BY <1>4, <2>1, AllAlike DEF OfferExpires, Rests, ClientInv, Learnt, RouteTypes, pool, robin
<1> QED BY <1>2, <1>3, <1>4 DEF Lookups

LEMMA WaitersListed ==
  ASSUME ClientInv, NEW e, NEW w \in Trying, Waiters(e, w)
  PROVE  \A b \in Apps : Listed(app[b])'
<1>1. ASSUME NEW b \in Apps PROVE Alike(app'[b], app[b])
  <2>1. app'[b] = app[b] \/ (app[b].at = "session" /\ app'[b] = [app[b] EXCEPT !.at = w])
    BY DEF Waiters
  <2>2. Whole(app[b])
    BY DEF ClientInv, RouteInv, Fit
  <2> QED BY <2>1, <2>2 DEF Alike, Whole, Fields, Trying
<1> QED BY <1>1, AllAlike

LEMMA SessionsListed ==
  ASSUME ClientInv, \/ \E e \in Exits : Dials(e) \/ SessionCloses(e)
                    \/ \E p \in RoutePairs : CoolsDown(p)
  PROVE  Rests /\ \A b \in Apps : Listed(app[b])'
<1> USE DEF Rests, Learnt, RouteTypes, discovery, robin
<1>1. ASSUME NEW e \in Exits, Dialed(e) PROVE Rests /\ \A b \in Apps : Listed(app[b])'
  <2>1. "resolved" \in Trying
    BY DEF Trying
  <2>2. Rests
    BY <1>1 DEF Dialed, ClientInv
  <2> QED BY <1>1, <2>1, <2>2, WaitersListed DEF Dialed
<1>2. ASSUME NEW e \in Exits, DialFails(e) PROVE Rests /\ \A b \in Apps : Listed(app[b])'
  <2>1. "rejected" \in Trying
    BY DEF Trying
  <2>2. Rests
    BY <1>2 DEF DialFails, ClientInv
  <2> QED BY <1>2, <2>1, <2>2, WaitersListed DEF DialFails
<1>3. ASSUME NEW e \in Exits, SessionCloses(e) PROVE Rests /\ \A b \in Apps : Listed(app[b])'
  <2>1. ASSUME NEW b \in Apps PROVE app'[b] = Idle \/ Alike(app'[b], app[b])
    <3>1. \/ app'[b] = app[b] \/ app'[b] = Idle
          \/ app[b].at = "stream" /\ app'[b] = [app[b] EXCEPT !.at = "rejected"]
      BY <1>3 DEF SessionCloses, At
    <3>2. Whole(app[b])
      BY DEF ClientInv, RouteInv, Fit
    <3> QED BY <3>1, <3>2 DEF Alike, Whole, Fields, Trying
  <2>2. Rests
    BY <1>3 DEF SessionCloses, DropSession, ClientInv
  <2> QED BY <2>1, <2>2, AllAlike
<1>4. CASE \E p \in RoutePairs : CoolsDown(p)
  BY <1>4, SameListed DEF CoolsDown, ClientInv, pool
<1> QED BY <1>1, <1>2, <1>3, <1>4 DEF Dials

LEMMA CandidatesListed ==
  ASSUME ClientInv, NEW a \in Apps, TakeCandidates(a)
  PROVE  Rests /\ \A b \in Apps : Listed(app[b])'
<1> DEFINE exits == Only(known, fresh)
           r == [app[a] EXCEPT !.exits = exits]
<1>1. exits \in Seq(Exits)
  <2>1. exits \in Seq(Exits \cap fresh)
    BY OnlyOnce DEF ClientInv, Learnt
  <2> QED BY <2>1
<1>2. \/ EndOf(a) /\ PoolSame /\ UNCHANGED known /\ (lookup' = Range(known) \/ lookup' = lookup)
      \/ exits # <<>> /\ Try(a, r, 0, paused) /\ UNCHANGED <<known, lookup>>
  BY DEF TakeCandidates, LookupAll, PoolSame, pool, discovery
<1> HIDE DEF exits
<1>3. Learnt'
  BY <1>2 DEF ClientInv, Learnt
<1>4. UNCHANGED <<paused, rr, udpRr, requests>>
  BY DEF TakeCandidates, robin
<1>5. CASE EndOf(a) /\ PoolSame
  BY <1>3, <1>4, <1>5, OneListed, IdleIsListed DEF EndOf, Set, PoolSame, Rests, ClientInv, RouteTypes
<1>6. CASE exits # <<>> /\ Try(a, r, 0, paused)
  <2>1. Whole(r) /\ r.exits \in Seq(Exits) \ {<<>>}
    <3>1. Whole(app[a])
      BY DEF ClientInv, RouteInv, Fit
    <3> QED BY <1>1, <1>6, <3>1 DEF Whole, Fields
  <2> HIDE DEF r
  <2>2. PoolNames' /\ \A b \in Apps : Listed(app[b])'
    BY <1>6, <2>1, TryListed
  <2> QED BY <1>3, <1>4, <2>2 DEF PoolNames, Rests, ClientInv, RouteTypes
<1> QED BY <1>2, <1>5, <1>6

LEMMA RequestListed ==
  ASSUME ClientInv, NEW a \in Apps,
         (\E kind \in Kinds[a] : Request(a, kind)) \/ Direct(a) \/ AppLeaves(a) \/ StreamEnds(a) \/ Datagram(a)
  PROVE  Rests /\ \A b \in Apps : Listed(app[b])'
<1>1. Rests
  BY DEF Request, Direct, AppLeaves, StreamEnds, Datagram, Rests, ClientInv, Learnt, RouteTypes, discovery, pool, robin
<1>2. Whole(app[a])
  BY DEF ClientInv, RouteInv, Fit
<1>3. ASSUME NEW kind, Request(a, kind) PROVE \A b \in Apps : Listed(app[b])'
  <2> DEFINE r == [Idle EXCEPT !.kind = kind, !.alive = TRUE, !.queued = 1,
                              !.at = IF kind = "direct" THEN "direct" ELSE "waiting"]
  <2>1. r.exits = <<>> /\ r.at \in {"direct", "waiting"}
    BY DEF Idle
  <2>2. app' = [app EXCEPT ![a] = r]
    BY <1>3 DEF Request, Set
  <2> HIDE DEF r
  <2>3. Listed(r)
    BY <2>1 DEF Listed, Trying
  <2> QED BY <2>2, <2>3, OneListed
<1>4. CASE Direct(a)
  <2> DEFINE r == [Idle EXCEPT !.at = "open", !.alive = app[a].alive]
  <2>1. Listed(r) /\ (app' = [app EXCEPT ![a] = r] \/ app' = [app EXCEPT ![a] = Idle])
    BY <1>4 DEF Direct, EndOf, Set, Listed, Idle, Trying
  <2> HIDE DEF r
  <2>2. CASE app' = [app EXCEPT ![a] = r]
    BY <1>1, <2>1, <2>2, OneListed
  <2>3. CASE app' = [app EXCEPT ![a] = Idle]
    BY <1>1, <2>3, OneListed, IdleIsListed
  <2> QED BY <2>1, <2>2, <2>3
<1>5. CASE AppLeaves(a) \/ StreamEnds(a)
  <2> DEFINE r == [app[a] EXCEPT !.alive = FALSE]
  <2>1. Alike(r, app[a]) /\ (app' = [app EXCEPT ![a] = r] \/ app' = [app EXCEPT ![a] = Idle])
    BY <1>2, <1>5 DEF AppLeaves, StreamEnds, EndOf, Set, Alike, Whole, Fields
  <2> HIDE DEF r
  <2>2. CASE app' = [app EXCEPT ![a] = r]
    BY <1>1, <2>1, <2>2, OneAlike
  <2>3. CASE app' = [app EXCEPT ![a] = Idle]
    BY <1>1, <2>3, OneListed, IdleIsListed
  <2> QED BY <2>1, <2>2, <2>3
<1>6. CASE Datagram(a)
  <2>1. PICK r : /\ r = [app[a] EXCEPT !.queued = @ + 1] \/ r = [app[a] EXCEPT !.alive = FALSE]
                 /\ app' = [app EXCEPT ![a] = r]
    BY <1>6 DEF Datagram, Set
  <2>2. Alike(r, app[a])
    BY <1>2, <2>1 DEF Alike, Whole, Fields
  <2> QED BY <1>1, <2>1, <2>2, OneAlike
<1> QED BY <1>1, <1>3, <1>4, <1>5, <1>6

LEMMA StepListed ==
  ASSUME ClientInv, NEW a \in Apps, Step(a)
  PROVE  Rests /\ \A b \in Apps : Listed(app[b])'
<1>1. CASE Resolved(a)
  <2>1. app[a].at \in Trying
    BY <1>1 DEF Resolved, At, Trying
  <2>2. CASE Fails(a) \/ Serves(a)
    BY <2>1, <2>2, FailsListed, ServesListed DEF Rests
  <2>3. CASE Set(a, [app[a] EXCEPT !.at = "stream"]) /\ UNCHANGED <<discovery, pool, paused, robin, requests>>
    <3> DEFINE r == [app[a] EXCEPT !.at = "stream"]
    <3>1. Alike(r, app[a]) /\ app' = [app EXCEPT ![a] = r]
      BY <2>1, <2>3 DEF Set, Alike, ClientInv, RouteInv, Fit, Whole, Fields
    <3> HIDE DEF r
    <3>2. Rests
      BY <2>3 DEF Rests, ClientInv, Learnt, RouteTypes, discovery, pool, robin
    <3> QED BY <3>1, <3>2, OneAlike
  <2> QED BY <1>1, <2>2, <2>3 DEF Resolved
<1>2. CASE Rejected(a) \/ StreamFails(a) \/ Opens(a)
  <2>1. app[a].at \in Trying /\ (Fails(a) \/ Serves(a))
    BY <1>2 DEF Rejected, StreamFails, Opens, At, Trying
  <2> QED BY <2>1, FailsListed, ServesListed DEF Rests
<1> QED BY <1>1, <1>2, CandidatesListed, RequestListed DEF Step

LEMMA ClientSteps ==
  ClientInv /\ [NextClient]_clientVars => ClientInv'
<1> SUFFICES ASSUME ClientInv, [NextClient]_clientVars PROVE ClientInv'
  OBVIOUS
<1>1. RouteInv'
  BY RouteSteps DEF ClientInv
<1>2. Rests /\ \A b \in Apps : Listed(app[b])'
  <2>1. CASE UNCHANGED clientVars
    BY <2>1, SameListed DEF clientVars, discovery, pool, robin, Rests, ClientInv, Learnt, RouteTypes
  <2> QED BY <2>1, DiscoveryListed, SessionsListed, RequestListed, StepListed DEF NextClient
<1> QED BY <1>1, <1>2 DEF Rests, ClientInv

LEMMA ClientStarts ==
  InitClient => ClientInv
<1> SUFFICES ASSUME InitClient PROVE ClientInv
  OBVIOUS
<1>1. known = <<First>> /\ lookup = {First} /\ First \in Exits
  BY ClientAssumption DEF InitClient
<1>2. Learnt
  <2>1. known \in Seq(Exits) /\ Len(known) = 1 /\ known[1] = First
    BY <1>1
  <2> QED BY <1>1, <2>1 DEF Learnt, Distinct, Range
<1>3. RouteTypes
  BY DEF InitClient, RouteTypes
<1>4. \A a \in Apps : Listed(app[a])
  BY IdleIsListed DEF InitClient
<1> QED BY <1>2, <1>3, <1>4, RouteStarts DEF ClientInv

\* Whatever exits are learnt in whatever order, each once, the client keeps its types,
\* and its round robins stand at a candidate.
THEOREM ClientTypeCorrect == SpecClient => []TypeOKClient
<1>1. ClientInv => TypeOKClient
  BY DEF ClientInv, Learnt, RouteTypes, TypeOKClient, Range
<1> QED BY <1>1, ClientStarts, ClientSteps, PTL DEF SpecClient
=============================================================================
