----------------------------- MODULE HedgedDial -----------------------------
(***************************************************************************)
(* One hedged dial of the client pool (core/pool/hedge.go): dialCandidates *)
(* orders the (server, transport) pairs that may carry the stream, and     *)
(* dialHedged races opens of them: one at once, another when the hedge     *)
(* timer fires or an open fails, at most two at a time, and at most one    *)
(* rescue beside them while the client is starting.  The first open that   *)
(* succeeds wins; every other connection must be closed.                   *)
(*                                                                         *)
(* The dialing goroutine and one goroutine per open interleave; the        *)
(* results channel is unbuffered, so a result is handed over in one step.  *)
(* Every stream of the pool changes the health of the pairs at any time, so *)
(* what a dial reads of it may be anything, each time it reads.  A pair can *)
(* then be opened twice: an open is named by its place in the launches.    *)
(***************************************************************************)
EXTENDS Integers, FiniteSets, SequencesExt, Kept

CONSTANTS
  Servers,      \* the nodes after the country selection, in order
  Planes,       \* cfg.Preference, the best transport first
  Offers,       \* the pairs <<server, plane>> that an offer and a connector exist for
  Native,       \* the plane this client speaks itself ("mgt")
  MaxChoices    \* bound: the candidates of a dial

DialPairs == ToSet(Servers) \X ToSet(Planes)
Conditions == {"fine", "degraded", "cooling"}

ASSUME DialAssumption ==
  /\ Servers \in Seq(ToSet(Servers)) /\ Len(Servers) > 0 /\ IsInjective(Servers)
  /\ Planes \in Seq(ToSet(Planes)) /\ IsInjective(Planes)
  /\ Offers \subseteq DialPairs
  /\ MaxChoices \in Nat \ {0}

VARIABLES
  seen,      \* seen[w][p]: the health of pair p that round w of the ordering saw,
             \* forgotten when the first open is launched
  choices,   \* the candidates of this dial, in the order they are tried
  next,      \* how many of them have been launched
  lastResort, \* every pair was paused, the one paused least is tried
  att,       \* att[k]: the goroutine of the k-th open, of pair choices[k]
  conn,      \* conn[k]: the connection it opened
  timer,     \* the hedge timer: "armed", "fired" (its channel is full) or "off"
  rescue,    \* the rescue timer, the same way
  rescued,   \* whether the rescue launched an open
  parent,    \* whether the caller's context is still alive
  result,    \* what the dial returned: "running", or how it ended
  verdict    \* verdict[k]: what this dial told the health policy of that pair

dialVars == <<seen, choices, next, lastResort, att, conn, timer, rescue, rescued, parent, result, verdict>>
raceVars == <<choices, next, lastResort, att, conn, timer, rescue, rescued>>

-----------------------------------------------------------------------------
(* The order of the candidates (dialCandidates).                            *)

\* Every pair, transports first by preference, servers in rotation from rr.
Rotation(rr) ==
  LET n == Len(Servers)
  IN [k \in 1 .. n * Len(Planes) |->
        <<Servers[((rr + (k - 1)) % n) + 1], Planes[((k - 1) \div n) + 1]>>]

MoveTo(s, from, to) == InsertAt(RemoveAt(s, from), to, s[from])

\* The pair that worked last before the client was started goes first.
HintFirst(s, hint) ==
  IF hint \in ToSet(s) THEN MoveTo(s, CHOOSE i \in DOMAIN s : s[i] = hint, 1) ELSE s

\* The second candidate is the first one on another server.
OtherServerNext(s) ==
  LET others == {i \in DOMAIN s : s[i][1] # s[1][1]}
  IN IF others = {} THEN s ELSE MoveTo(s, Min(others), 2)

\* One round: the offered pairs in the wanted condition.
Round(rr, hint, h, wanted) ==
  OtherServerNext(HintFirst(Only(Rotation(rr), {p \in Offers : h[p] = wanted}), hint))

\* Variant: the degraded pairs first.
DegradedFirst(rr, hint, h1, h2) == Round(rr, hint, h2, "degraded") \o Round(rr, hint, h1, "fine")

\* The pairs the first round sees healthy, then those the second sees degraded.
\* Each round reads the health of each pair anew: a pair that changes meanwhile
\* may be in both or in neither.
Candidates(rr, hint, h1, h2) == Round(rr, hint, h1, "fine") \o Round(rr, hint, h2, "degraded")

\* The pairs the first round saw paused.
Cooling == {p \in Offers : seen[1][p] = "cooling"}

\* With no candidate the dial ends at once (ErrNoPlane) unless the first round
\* found a pair paused: then leastCooling reads the health once more and names
\* any offered pair.
InitDial ==
  /\ seen \in [1 .. 2 -> [Offers -> Conditions]]
  /\ \E rr \in 0 .. Len(Servers) - 1, hint \in DialPairs :
       LET ordered == Candidates(rr, hint, seen[1], seen[2])
       IN \/ /\ ordered # <<>>
             /\ choices = ordered /\ lastResort = FALSE /\ result = "running"
          \/ /\ ordered = <<>> /\ Cooling # {}
             /\ choices \in {<<p>> : p \in Offers} /\ lastResort = TRUE /\ result = "running"
          \/ /\ ordered = <<>> /\ Cooling = {}
             /\ choices = <<>> /\ lastResort = FALSE /\ result = "noPlane"
  /\ Len(choices) <= MaxChoices
  /\ next = 0
  /\ att = <<>> /\ conn = <<>> /\ verdict = <<>>
  /\ timer = "off"
  /\ rescue \in {"armed", "off"} /\ (lastResort \/ result = "noPlane" => rescue = "off")
  /\ rescued = FALSE
  /\ parent = "alive"

-----------------------------------------------------------------------------
(* The dialing goroutine.                                                   *)

\* The opens whose goroutine has not ended, and those the dial still counts:
\* launched, and no result of theirs received.
Live == {k \in DOMAIN att : att[k] \in {"opening", "opened", "failed", "unwired", "cancelled"}}
active == Cardinality({k \in DOMAIN att : att[k] # "done"})

\* Variant: the last candidate is left out.
MoreButOne == next + 1 < Len(choices)

More == next < Len(choices)

\* Regular launches keep at most two opens under way.
Refills(n) == More /\ n < 2

\* raceCtx: cancelled by the caller's context or when the dial returns.
RaceOver == parent = "cancelled" \/ result # "running"

\* launch(): the next candidate of s starts opening; a and v hold the others.
Launch(s, a, v) ==
  /\ choices' = s
  /\ next' = next + 1
  /\ att' = Append(a, "opening")
  /\ conn' = Append(conn, "none")
  /\ verdict' = Append(v, "none")

\* The end of the loop: with one open left and candidates waiting the hedge
\* timer starts again.
Rearm(n, more, t) == timer' = IF n = 1 /\ more THEN "armed" ELSE t

Begin ==
  /\ result = "running" /\ next = 0
  /\ Launch(choices, att, verdict)
  /\ timer' = "armed"
  /\ seen' = [w \in 1 .. 2 |-> [p \in Offers |-> "fine"]]
  /\ UNCHANGED <<lastResort, rescue, rescued, parent, result>>

Return(how) ==
  /\ result' = how
  /\ UNCHANGED <<seen, choices, next, lastResort, rescue, rescued, timer, parent>>

\* case <-ctx.Done()
Cancelled ==
  /\ result = "running" /\ next > 0
  /\ parent = "cancelled"
  /\ Return("cancelled")
  /\ UNCHANGED <<att, conn, verdict>>

\* The candidates the rescue may take: native ones not launched yet.
RescueAt == {i \in next + 1 .. Len(choices) : choices[i][2] = Native}

\* Of those found healthy, the first on another server than the first choice, or
\* else the first.
RescueChoice(healthy) ==
  LET elsewhere == {i \in healthy : choices[i][1] # choices[1][1]}
  IN Min(IF elsewhere # {} THEN elsewhere ELSE healthy)

\* case <-rescue
Rescue ==
  /\ result = "running" /\ next > 0
  /\ rescue = "fired"
  /\ rescue' = "off"
  /\ \E healthy \in SUBSET RescueAt :
       IF healthy # {}
       THEN /\ Launch(MoveTo(choices, RescueChoice(healthy), next + 1), att, verdict)
            /\ rescued' = TRUE
            /\ Rearm(active + 1, next + 1 < Len(choices), timer)
       ELSE /\ UNCHANGED <<choices, next, att, conn, verdict, rescued>>
            /\ Rearm(active, More, timer)
  /\ UNCHANGED <<seen, lastResort, parent, result>>

\* case <-timer.C
Hedge ==
  /\ result = "running" /\ next > 0
  /\ timer = "fired"
  /\ IF Refills(active)
     THEN /\ Launch(choices, att, verdict)
          /\ Rearm(active + 1, next + 1 < Len(choices), "off")
     ELSE /\ UNCHANGED <<choices, next, att, conn, verdict>>
          /\ Rearm(active, More, "off")
  /\ UNCHANGED <<seen, lastResort, rescue, rescued, parent, result>>

\* Variant: the result is judged although the caller is gone.
NeverGone == FALSE

CallerGone == parent = "cancelled"

\* case opened := <-results, the caller gone meanwhile: nothing is judged.
TakeLate(k) ==
  /\ result = "running"
  /\ att[k] \in {"opened", "failed", "unwired", "cancelled"}
  /\ CallerGone
  /\ att' = [att EXCEPT ![k] = "done"]
  /\ conn' = [conn EXCEPT ![k] = IF @ = "open" THEN "closed" ELSE @]
  /\ Return("cancelled")
  /\ UNCHANGED verdict

\* case opened := <-results, a connection: it is the stream of this dial, and
\* unless it was a last resort the policy is told (Ok or Slow, by the time a
\* native open took).
TakeWinner(k) ==
  /\ result = "running" /\ ~ CallerGone
  /\ att[k] = "opened"
  /\ att' = [att EXCEPT ![k] = "done"]
  /\ conn' = [conn EXCEPT ![k] = "returned"]
  /\ verdict' = [verdict EXCEPT ![k] = IF lastResort \/ choices[k][2] # Native THEN "none" ELSE "good"]
  /\ Return("conn")

\* What a failed open tells the health policy: a plane the engine does not
\* carry yet is not the node's fault, and a last resort is paused already.
Judged(k) == CASE att[k] = "unwired" -> "unwired"
               [] att[k] # "unwired" /\ lastResort -> "none"
               [] OTHER -> "fail"

\* Variant: the loop goes on with no open left.
StillOpening(n) == n >= 0

\* for active > 0
Opening(n) == n > 0

\* case opened := <-results, an error: the next candidate, if any, takes over.
TakeError(k) ==
  /\ result = "running" /\ ~ CallerGone
  /\ att[k] \in {"failed", "unwired", "cancelled"}
  /\ LET rest == [att EXCEPT ![k] = "done"]
         told == [verdict EXCEPT ![k] = Judged(k)]
         n == active - 1
     IN IF Refills(n)
        THEN /\ Launch(choices, rest, told)
             /\ Rearm(n + 1, next + 1 < Len(choices), timer)
             /\ UNCHANGED result
        ELSE /\ att' = rest /\ verdict' = told
             /\ UNCHANGED <<choices, next, conn>>
             /\ Rearm(n, More, timer)
             /\ result' = IF Opening(n) THEN "running" ELSE IF lastResort THEN "allCooling" ELSE "error"
  /\ UNCHANGED <<seen, lastResort, rescue, rescued, parent>>

-----------------------------------------------------------------------------
(* The goroutine of one open.                                               *)

\* connector.Open returns: a connection, an error of its own (a timeout too),
\* or, once the race is over, the error of its context.
OpenReturns(k) ==
  /\ att[k] = "opening"
  /\ \/ /\ att' = [att EXCEPT ![k] = "opened"]
        /\ conn' = [conn EXCEPT ![k] = "open"]
     \/ /\ \E e \in {"failed", "unwired"} \cup (IF RaceOver THEN {"cancelled"} ELSE {}) :
             att' = [att EXCEPT ![k] = e]
        /\ UNCHANGED conn
  /\ UNCHANGED <<seen, choices, next, lastResort, timer, rescue, rescued, parent, result, verdict>>

\* Variant: the connection of a loser is forgotten.
Forget(k) == conn

\* A loser closes the connection nobody will take.
Drop(k) == [conn EXCEPT ![k] = IF @ = "open" THEN "closed" ELSE @]

\* case <-raceCtx.Done()
Discard(k) ==
  /\ att[k] \in {"opened", "failed", "unwired", "cancelled"}
  /\ RaceOver
  /\ att' = [att EXCEPT ![k] = "lost"]
  /\ conn' = Drop(k)
  /\ UNCHANGED <<seen, choices, next, lastResort, timer, rescue, rescued, parent, result, verdict>>

-----------------------------------------------------------------------------
(* Time and the caller.                                                     *)

TimerFires ==
  /\ timer = "armed" /\ timer' = "fired"
  /\ UNCHANGED <<seen, choices, next, lastResort, att, conn, rescue, rescued, parent, result, verdict>>

RescueFires ==
  /\ rescue = "armed" /\ rescue' = "fired"
  /\ UNCHANGED <<seen, choices, next, lastResort, att, conn, timer, rescued, parent, result, verdict>>

CallerLeaves ==
  /\ parent = "alive" /\ parent' = "cancelled"
  /\ UNCHANGED <<seen, raceVars, result, verdict>>

Dialer == Begin \/ Cancelled \/ Rescue \/ Hedge
          \/ \E k \in DOMAIN att : TakeLate(k) \/ TakeWinner(k) \/ TakeError(k)
Opener(k) == OpenReturns(k) \/ Discard(k)
Environment == TimerFires \/ RescueFires \/ CallerLeaves

\* The dial is over and every goroutine of it has ended.
Finished == /\ result # "running" /\ Live = {} /\ UNCHANGED dialVars

NextDial == Dialer \/ (\E k \in DOMAIN att : Opener(k)) \/ Environment \/ Finished

SpecDial == InitDial /\ [][NextDial]_dialVars

\* A goroutine that can go on does; an open ends, by its own timeout at the
\* latest (OpenTimeout); a running timer fires.
FairnessDial == /\ WF_dialVars(Dialer)
                /\ \A k \in 1 .. MaxChoices : WF_dialVars(k \in DOMAIN att /\ Opener(k))
                /\ WF_dialVars(TimerFires)

FairSpecDial == SpecDial /\ FairnessDial

-----------------------------------------------------------------------------
(* Properties.                                                              *)

TypeOKDial ==
  /\ seen \in [1 .. 2 -> [Offers -> Conditions]]
  /\ choices \in Seq(Offers) /\ next \in 0 .. Len(choices)
  /\ lastResort \in BOOLEAN /\ rescued \in BOOLEAN
  /\ att \in Seq({"opening", "opened", "failed", "unwired", "cancelled", "done", "lost"})
  /\ conn \in Seq({"none", "open", "closed", "returned"})
  /\ verdict \in Seq({"none", "good", "fail", "unwired"})
  /\ Len(att) = next /\ Len(conn) = next /\ Len(verdict) = next
  /\ timer \in {"armed", "fired", "off"} /\ rescue \in {"armed", "fired", "off"}
  /\ parent \in {"alive", "cancelled"}
  /\ result \in {"running", "conn", "error", "allCooling", "noPlane", "cancelled"}

\* hedge.go:173-179, 226-231: when every goroutine of the dial has ended no
\* connection is left open but the one returned, and there is one returned
\* exactly when the dial succeeded.
NoConnectionLeaks ==
  /\ (result # "running" /\ Live = {}) => \A k \in DOMAIN conn : conn[k] # "open"
  /\ Cardinality({k \in DOMAIN conn : conn[k] = "returned"}) = IF result = "conn" THEN 1 ELSE 0

\* hedge.go:240-265: the dial gives up with an error only after every candidate
\* was tried and failed by itself, the moved ones included.
ErrorIsExhausted ==
  result \in {"error", "allCooling"} =>
    /\ next = Len(choices)
    /\ \A k \in DOMAIN choices : att[k] = "done" /\ conn[k] = "none"

\* hedge.go:226-231: a pair is paused for failing, never because the race or
\* its caller ended first.
OnlyFailuresArePaused ==
  [][\A k \in DOMAIN verdict : verdict'[k] = "fail" /\ verdict[k] = "none" =>
       att[k] = "failed" /\ parent = "alive"]_dialVars

\* s has every pair of S once, and its second is on another server if one is.
Spread(s, S) ==
  /\ s \in Seq(S) /\ ToSet(s) = S /\ IsInjective(s)
  /\ (\E p \in S : p[1] # s[1][1]) => s[2][1] # s[1][1]

\* hedge.go:71-123: whatever changes while the candidates are ordered, first come
\* the offered pairs found healthy, then those found degraded afterwards, each
\* list without a repetition and spread over the servers.  So a pair that does not
\* change is tried once, or never if paused, and no degraded one before a healthy
\* one; only a pair demoted meanwhile can be tried twice.
OrderedByHealth ==
  next = 0 /\ result = "running" /\ ~ lastResort =>
    \E m \in 0 .. Len(choices) :
      /\ Spread(SubSeq(choices, 1, m), {p \in Offers : seen[1][p] = "fine"})
      /\ Spread(SubSeq(choices, m + 1, Len(choices)), {p \in Offers : seen[2][p] = "degraded"})

\* hedge.go:173-179, 192-261: every dial returns, however its opens end, and in
\* the end each connection it opened is returned or closed.
DialSettles == <>[](result # "running" /\ \A k \in DOMAIN conn : conn[k] # "open")
=============================================================================
