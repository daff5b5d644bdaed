---------------------------- MODULE PlaneHealth ----------------------------
(***************************************************************************)
(* Which (server, transport) pairs a client may use: the health policy     *)
(* (src/health.mjs, core/health/health.go) and the streams that feed it    *)
(* (core/pool/hedge.go trackOpened, core/pool/firstbyte.go).               *)
(*                                                                         *)
(* A failure pauses a pair, longer each time; a slow answer demotes it; a  *)
(* fast one clears it.  A stream judges its pair when it opens and once    *)
(* more by its first byte, its end or its silence, at any later time, from *)
(* a goroutine of its own; each verdict is one locked step of the policy.  *)
(***************************************************************************)
EXTENDS Integers, Sequences, FiniteSets

CONSTANTS
  Pairs,      \* the pairs <<exit, plane>> of the pool
  Engine,     \* those behind the local engine, whose open proves nothing
  Streams,    \* bound: the streams under way at once
  Backoff,    \* BACKOFF_MS, the pauses after 1, 2, ... failures
  Window,     \* FAIL_WINDOW_MS
  Demote,     \* DEMOTE_MS
  SlowByte,   \* FIRST_BYTE_SLOW_MS
  Deadline,   \* FIRST_BYTE_DEADLINE_MS
  MaxNow      \* bound: the last instant

ASSUME HealthAssumption ==
  /\ Pairs # {} /\ Engine \subseteq Pairs
  /\ Backoff \in Seq(Nat) /\ Len(Backoff) > 0
  /\ Window \in Nat /\ Demote \in Nat /\ SlowByte \in Nat /\ Deadline \in Nat
  /\ MaxNow \in Nat

VARIABLES
  now,      \* the clock
  entry,    \* entry[p]: what the policy remembers of p
  place,    \* place[s]: "idle", "opening", "live", "closed" (by its owner, a read under way)
  pair,     \* pair[s]: the pair that carries s
  since,    \* since[s]: when s was opened, while its first byte is awaited
  start,    \* start[s]: when the dial of s began
  last,     \* last[s]: s is a last resort, all pairs were paused
  judged    \* judged[s]: what judged the path of s: "nothing" yet, a "byte" or "silence"

streamVars == <<place, pair, since, start, last, judged>>
vars == <<now, entry, streamVars>>

Verdicts == {"nothing", "byte", "silence"}
Places == {"idle", "opening", "live", "closed"}
Clear == [fails |-> 0, until |-> 0, demoted |-> 0, failedAt |-> 0]
SomePair == CHOOSE p \in Pairs : TRUE

Init ==
  /\ now = 1
  /\ entry = [p \in Pairs |-> Clear]
  /\ place = [s \in Streams |-> "idle"]
  /\ pair = [s \in Streams |-> SomePair]
  /\ since = [s \in Streams |-> 0]
  /\ start = [s \in Streams |-> 0]
  /\ last = [s \in Streams |-> FALSE]
  /\ judged = [s \in Streams |-> "nothing"]

-----------------------------------------------------------------------------
(* The policy.                                                              *)

NextBackoff(fails) == Backoff[IF fails < Len(Backoff) THEN fails ELSE Len(Backoff)]

\* Variant: every failure is a new one.
RepeatNever(e) == FALSE

\* A failure so soon after the last is the same event.
Repeat(e) == e.failedAt # 0 /\ now - e.failedAt < Window

Failed(e) ==
  IF Repeat(e) THEN e
  ELSE [fails |-> e.fails + 1, until |-> now + NextBackoff(e.fails + 1),
        demoted |-> e.demoted, failedAt |-> now]

Slowed == [Clear EXCEPT !.demoted = now + Demote]

Fail(p) == entry' = [entry EXCEPT ![p] = Failed(@)]
Ok(p)   == entry' = [entry EXCEPT ![p] = Clear]
Slow(p) == entry' = [entry EXCEPT ![p] = Slowed]

Usable(p) == entry[p].until <= now

-----------------------------------------------------------------------------
(* Streams.                                                                 *)

StreamGoes(s, where) == place' = [place EXCEPT ![s] = where]

End(s) ==
  /\ StreamGoes(s, "idle")
  /\ pair' = [pair EXCEPT ![s] = SomePair]
  /\ since' = [since EXCEPT ![s] = 0]
  /\ start' = [start EXCEPT ![s] = 0]
  /\ last' = [last EXCEPT ![s] = FALSE]
  /\ judged' = [judged EXCEPT ![s] = "nothing"]

\* The pairs a dial tries: a usable one, or, when all are paused, one whose
\* pause ends first (leastCooling).
MayTry(p) ==
  \/ Usable(p)
  \/ /\ \A q \in Pairs : ~ Usable(q)
     /\ \A q \in Pairs : entry[p].until <= entry[q].until

Open(s, p) ==
  /\ place[s] = "idle"
  /\ MayTry(p)
  /\ StreamGoes(s, "opening")
  /\ pair' = [pair EXCEPT ![s] = p]
  /\ start' = [start EXCEPT ![s] = now]
  /\ last' = [last EXCEPT ![s] = ~ Usable(p)]
  /\ UNCHANGED <<now, entry, since, judged>>

\* Variant: a last resort that fails is counted like any other.
FailAlways(s) == Fail(pair[s])

\* A last resort that fails again says nothing new.
FailUnlessLast(s) == IF last[s] THEN UNCHANGED entry ELSE Fail(pair[s])

OpenFails(s) ==
  /\ place[s] = "opening"
  /\ FailUnlessLast(s)
  /\ End(s)
  /\ UNCHANGED now

\* The open is a verdict unless the engine answered it, or it was a last resort;
\* how long it took is not a matter of this model: either may be the case.
Opened(s) ==
  /\ place[s] = "opening"
  /\ IF pair[s] \in Engine \/ last[s] THEN UNCHANGED entry
     ELSE Ok(pair[s]) \/ Slow(pair[s])
  /\ StreamGoes(s, "live")
  /\ since' = [since EXCEPT ![s] = now]
  /\ UNCHANGED <<now, pair, start, last, judged>>

\* At most one verdict per stream; the timer that awaits the byte is stopped.
Judge(s, verdict) ==
  /\ judged[s] = "nothing"
  /\ judged' = [judged EXCEPT ![s] = verdict]
  /\ since' = [since EXCEPT ![s] = 0]
  /\ UNCHANGED <<now, place, pair, start, last>>

\* The first byte came back.
FirstByte(s) ==
  /\ place[s] = "live"
  /\ Judge(s, "byte")
  /\ IF now - since[s] >= SlowByte THEN Slow(pair[s]) ELSE Ok(pair[s])

\* The timer: nothing came back by the deadline.
Silence(s) ==
  /\ place[s] = "live"
  /\ now - since[s] >= Deadline
  /\ Judge(s, "silence")
  /\ Slow(pair[s])

\* A read returns an error: only before the first byte is that a failure.
ReadEnds(s) ==
  /\ IF judged[s] = "nothing" THEN FailUnlessLast(s) ELSE UNCHANGED entry
  /\ End(s)
  /\ UNCHANGED now

\* The stream ended by itself.
ReadFails(s) == place[s] = "live" /\ ReadEnds(s)

\* The owner closes the stream, which stops the timer; a read that awaits the
\* first byte has yet to notice.
Close(s, reading) ==
  /\ place[s] = "live"
  /\ reading => judged[s] = "nothing"
  /\ IF reading
     THEN /\ StreamGoes(s, "closed")
          /\ since' = [since EXCEPT ![s] = 0]
          /\ UNCHANGED <<pair, start, last, judged>>
     ELSE End(s)
  /\ UNCHANGED <<now, entry>>

\* The read that was under way returns the error of the closed connection.
ReadWakes(s) == place[s] = "closed" /\ ReadEnds(s)

Tick == now < MaxNow /\ now' = now + 1 /\ UNCHANGED <<entry, streamVars>>

Next ==
  \/ \E s \in Streams, p \in Pairs : Open(s, p)
  \/ \E s \in Streams :
       \/ OpenFails(s) \/ Opened(s) \/ FirstByte(s) \/ ReadFails(s) \/ Silence(s)
       \/ \E reading \in BOOLEAN : Close(s, reading)
       \/ ReadWakes(s)
  \/ Tick

Spec == Init /\ [][Next]_vars

-----------------------------------------------------------------------------
(* Properties.                                                              *)

Entry == [fails : Nat, until : Nat, demoted : Nat, failedAt : Nat]

TypeOK ==
  /\ now \in Nat \ {0}
  /\ entry \in [Pairs -> Entry]
  /\ place \in [Streams -> Places] /\ pair \in [Streams -> Pairs]
  /\ since \in [Streams -> Nat] /\ start \in [Streams -> Nat]
  /\ last \in [Streams -> BOOLEAN] /\ judged \in [Streams -> Verdicts]

\* health.mjs:106-114: however many streams one event takes down, a pair climbs
\* one step of the ladder per window, and its pause is that of the step it is on.
EscalationTakesTime ==
  \A p \in Pairs : entry[p].fails > 0 =>
    /\ entry[p].failedAt >= 1 + (entry[p].fails - 1) * Window
    /\ entry[p].failedAt <= now
    /\ entry[p].until = entry[p].failedAt + NextBackoff(entry[p].fails)

\* pool.go:410-417, hedge.go:242, 290: a pair that is paused is not made to wait
\* longer by what is tried while it is paused, last resorts included: only
\* streams begun before its last failure count.
PauseIsNotFed ==
  [][\A p \in Pairs :
       (~ Usable(p) /\ entry'[p].until > entry[p].until) =>
         \E s \in Streams : place[s] # "idle" /\ pair[s] = p /\ start[s] <= entry[p].failedAt]_vars
=============================================================================
