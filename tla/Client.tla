------------------------------- MODULE Client -------------------------------
(***************************************************************************)
(* The client process (src/client.js with src/socks5.mjs): it learns the   *)
(* exits' offers from lookups and subscriptions, further exits from the    *)
(* offers it has, and routes each SOCKS request to one of them over a      *)
(* native session it shares or over the engine, going on to the next pair  *)
(* of exit and plane when one fails.                                       *)
(*                                                                         *)
(* Every await is a state of its own: between two of them other requests,  *)
(* timers and closing sockets have changed the session pool, the pauses,   *)
(* the exits and the place where the round robin stands.  What an offer    *)
(* says is Rendezvous' matter, what goes on in a session SessionMux', in   *)
(* the engine DpPool's; the preference for a country is left out.          *)
(***************************************************************************)
EXTENDS Integers, Sequences, FiniteSets, FiniteSetsExt, SequencesExt, Kept

CONSTANTS
  First,        \* the exit that is configured
  Peers,        \* Peers[e]: the further exits that the offer of e names
  Preference,   \* DP_PREFERENCE, "mgt" the last one
  OffersOf,     \* OffersOf[e]: the planes that the offers of e name
  Apps,         \* the connections of the applications, one request each
  Kinds,        \* Kinds[a]: what a may ask for: "tcp", "udp", or "tcp" of a "direct" host
  None,
  MaxExpiries,  \* bound: offers that expire
  MaxQueue      \* datagrams that may wait for a relay

Exits == DOMAIN Peers
RoutePairs == {pair \in Exits \X Range(Preference) : pair[2] \in OffersOf[pair[1]]}

ASSUME ClientAssumption ==
  /\ First \in Exits /\ Peers \in [Exits -> SUBSET Exits] /\ IsFiniteSet(Exits)
  /\ \A e \in Exits : "mgt" \in OffersOf[e]
  /\ Kinds \in [Apps -> SUBSET {"tcp", "udp", "direct"}]
  /\ None \notin Exits
  /\ Preference \in Seq(Range(Preference)) /\ Preference # <<>> /\ Last(Preference) = "mgt"
  /\ MaxExpiries \in Nat /\ MaxQueue \in Nat

VARIABLES
  known,     \* the exits, in the order they were learnt
  fresh,     \* the exits with an offer that is not too old
  expiries,  \* those still to come
  lookup,    \* the exits whose lookup is pending
  sessions,  \* the session pool: the exits that have one
  pending,   \* the exits for which one is awaited
  dialing,   \* dialing[e]: connections being made to e
  live,      \* live[e]: sessions with e that are not closed
  paused,    \* the pairs in their cooldown
  rr, udpRr, \* where the round robins stand
  app,       \* app[a]: the request of a
  requests   \* the connections that are still to come

discovery == <<known, fresh, expiries, lookup>>
pool == <<sessions, pending, dialing, live>>
robin == <<rr, udpRr>>
clientVars == <<discovery, pool, paused, robin, app, requests>>

\* exits: its candidates; stale: those whose offer, as it was copied, is too old by now.
Idle == [kind |-> "tcp", at |-> "idle", alive |-> FALSE, exits |-> <<>>, stale |-> {},
         turn |-> 0, pair |-> None, queued |-> 0]

InitClient ==
  /\ known = <<First>> /\ lookup = {First}
  /\ fresh = {} /\ expiries = MaxExpiries
  /\ sessions = {} /\ pending = {}
  /\ dialing = [e \in Exits |-> 0] /\ live = dialing
  /\ paused = {} /\ rr = 0 /\ udpRr = 0
  /\ app = [a \in Apps |-> Idle] /\ requests = Apps

-----------------------------------------------------------------------------
(* Discovery.                                                               *)

\* addSlotEntry for each exit that is new, and a lookup of all of them.
Learn(e, rest) ==
  LET new == SetToSeq(Peers[e] \ Range(known))
  IN /\ known' = known \o new
     /\ lookup' = IF new = <<>> THEN rest ELSE Range(known')

\* handleOffer of a new offer; the same one again or an older one is ignored.
HandleOffer(e, rest) ==
  /\ e \notin fresh /\ fresh' = fresh \cup {e}
  /\ Learn(e, rest)
  /\ UNCHANGED <<expiries, pool, paused, robin, app, requests>>

LookupFinds(e) == e \in lookup /\ HandleOffer(e, lookup \ {e})
Subscription(e) == e \in Range(known) /\ HandleOffer(e, lookup)

LookupFails(e) ==
  /\ e \in lookup /\ lookup' = lookup \ {e}
  /\ UNCHANGED <<known, fresh, expiries, pool, paused, robin, app, requests>>

OfferExpires(e) ==
  /\ e \in fresh /\ fresh' = fresh \ {e}
  /\ expiries > 0 /\ expiries' = expiries - 1
  /\ app' = [a \in Apps |-> IF e \in Range(app[a].exits) THEN [app[a] EXCEPT !.stale = @ \cup {e}] ELSE app[a]]
  /\ UNCHANGED <<known, lookup, pool, paused, robin, requests>>

LookupAll == lookup' = Range(known)

\* scheduleLookup
Poll ==
  /\ lookup # Range(known) /\ LookupAll
  /\ UNCHANGED <<known, fresh, expiries, pool, paused, robin, app, requests>>

-----------------------------------------------------------------------------
(* The loop over the candidates, one synchronous section at a time.         *)

Set(a, r) == app' = [app EXCEPT ![a] = r]
At(a, place) == app[a].at = place
EndOf(a) == Set(a, Idle)

PlanesFor(a) == IF app[a].kind = "udp" THEN <<"mgt">> ELSE Preference
Robin(a) == IF app[a].kind = "udp" THEN udpRr ELSE rr

\* The pair of the turn-th attempt: plane by plane, with the exit that the request is at
\* already, or the one as far behind where the round robin stands now.
PairAt(r, turn, first) ==
  LET planes == Len(IF r.kind = "udp" THEN <<"mgt">> ELSE Preference)
      i == turn \div planes
  IN <<IF r.pair # None /\ i = r.turn \div planes THEN r.pair[1] ELSE r.exits[((first + i) % Len(r.exits)) + 1],
       IF r.kind = "udp" THEN "mgt" ELSE Preference[(turn % planes) + 1]>>

\* Variant: requests that come while a session is being made make their own.
IsMade(e) == FALSE

\* A connection is under way: whoever comes now waits for it.
IsAwaited(e) == e \in pending

\* getSessionFor, up to its await.
GetSession(a, r, e) ==
  IF e \in sessions THEN Set(a, [r EXCEPT !.at = "resolved"]) /\ UNCHANGED pool
  ELSE IF IsAwaited(e) THEN Set(a, [r EXCEPT !.at = "session"]) /\ UNCHANGED pool
  ELSE IF e \in r.stale
  THEN Set(a, [r EXCEPT !.at = "rejected"]) /\ UNCHANGED pool
  ELSE /\ Set(a, [r EXCEPT !.at = "session"])
       /\ pending' = pending \cup {e} /\ dialing' = [dialing EXCEPT ![e] = @ + 1]
       /\ UNCHANGED <<sessions, live>>

\* Go on from attempt `from`: the first pair offered that is not in `bad` is tried.  A
\* request whose application is gone stops here, an association does not.
Try(a, r, from, bad) ==
  LET turns == Len(r.exits) * Len(PlanesFor(a))
      left == {t \in from .. turns - 1 : PairAt(r, t, Robin(a)) \in RoutePairs \ bad}
  IN IF left = {} \/ (r.kind = "tcp" /\ ~r.alive) THEN EndOf(a) /\ UNCHANGED pool
     ELSE \E turn \in {Min(left)} :
       LET pair == PairAt(r, turn, Robin(a))
           tried == [r EXCEPT !.turn = turn, !.pair = pair]
       IN IF pair[2] = "mgt" THEN GetSession(a, tried, pair[1])
          ELSE Set(a, [tried EXCEPT !.at = "engine"]) /\ UNCHANGED pool

\* Variant: after a failure the loop begins anew.
StartsOver(a) ==
  /\ paused' = paused \cup {app[a].pair}
  /\ Try(a, app[a], 0, paused')
  /\ UNCHANGED <<discovery, robin, requests>>

\* planeHealth.fail, and the next attempt.
Fails(a) ==
  /\ paused' = paused \cup {app[a].pair}
  /\ Try(a, app[a], app[a].turn + 1, paused')
  /\ UNCHANGED <<discovery, robin, requests>>

-----------------------------------------------------------------------------
(* A request, from the application's connection to its answer.              *)

Request(a, kind) ==
  /\ a \in requests /\ requests' = requests \ {a}
  /\ Set(a, [Idle EXCEPT !.kind = kind, !.alive = TRUE, !.queued = 1, !.at = IF kind = "direct" THEN "direct" ELSE "waiting"])
  /\ UNCHANGED <<discovery, pool, paused, robin>>

\* The wait for an offer ends: there is one, or five seconds have gone, or the
\* application has.  An association does not wait.
TakeCandidates(a) ==
  /\ At(a, "waiting")
  /\ LET exits == Only(known, fresh)
     IN IF exits = <<>>
        THEN /\ EndOf(a) /\ UNCHANGED <<pool, known, fresh, expiries>>
             /\ IF app[a].alive /\ app[a].kind = "tcp" THEN LookupAll ELSE UNCHANGED lookup
        ELSE Try(a, [app[a] EXCEPT !.exits = exits], 0, paused) /\ UNCHANGED discovery
  /\ UNCHANGED <<paused, robin, requests>>

\* The session promise and the opening of a stream or relay.
Waiters(e, place) ==
  app' = [a \in Apps |-> IF app[a].at = "session" /\ app[a].pair[1] = e
                         THEN [app[a] EXCEPT !.at = place] ELSE app[a]]

\* The session is in the pool from now on, even if what came with the handshake's
\* answer has closed it already.
Dialed(e) ==
  /\ dialing[e] > 0 /\ dialing' = [dialing EXCEPT ![e] = @ - 1]
  /\ pending' = pending \ {e} /\ sessions' = sessions \cup {e}
  /\ live' \in {live, [live EXCEPT ![e] = @ + 1]}
  /\ Waiters(e, "resolved")
  /\ UNCHANGED <<discovery, paused, robin, requests>>

DialFails(e) ==
  /\ dialing[e] > 0 /\ dialing' = [dialing EXCEPT ![e] = @ - 1]
  /\ pending' = pending \ {e} /\ Waiters(e, "rejected")
  /\ UNCHANGED <<discovery, sessions, live, paused, robin, requests>>

\* Variant: nobody looks if the application is still there.
OpensAnyway(a) == TRUE

\* The application is still there when its stream is.
IsWanted(a) == app[a].alive

\* planeHealth.ok; the round robin goes on behind this exit.
Serves(a) ==
  /\ Set(a, [Idle EXCEPT !.at = "open", !.alive = app[a].alive, !.pair = app[a].pair])
  /\ paused' = paused \ {app[a].pair}
  /\ LET planes == Len(PlanesFor(a))
         next == (Robin(a) + app[a].turn \div planes + 1) % Len(app[a].exits)
     IN IF app[a].kind = "udp" THEN udpRr' = next /\ UNCHANGED rr
        ELSE rr' = next /\ UNCHANGED udpRr
  /\ UNCHANGED <<discovery, pool, requests>>

\* openStream waits for the exit; openRelay returns at once.
Resolved(a) ==
  /\ At(a, "resolved")
  /\ IF live[app[a].pair[1]] = 0 \/ (app[a].kind = "udp" /\ ~app[a].alive) THEN Fails(a)
     ELSE IF app[a].kind = "udp" THEN Serves(a)
     ELSE /\ Set(a, [app[a] EXCEPT !.at = "stream"])
          /\ UNCHANGED <<discovery, pool, paused, robin, requests>>

Rejected(a) == At(a, "rejected") /\ Fails(a)

\* A stream that comes too late is destroyed, and its pair paused.
Opens(a) ==
  /\ At(a, "stream") \/ At(a, "engine")
  /\ IF IsWanted(a) THEN Serves(a) ELSE Fails(a)

StreamFails(a) == (At(a, "stream") \/ At(a, "engine")) /\ Fails(a)

\* A direct connection, or its timeout.
Direct(a) ==
  /\ At(a, "direct")
  /\ \/ IsWanted(a) /\ Set(a, [Idle EXCEPT !.at = "open", !.alive = app[a].alive])
     \/ EndOf(a)
  /\ UNCHANGED <<discovery, pool, paused, robin, requests>>

\* The application closes its connection; what it has open is closed with it.
AppLeaves(a) ==
  /\ app[a].alive
  /\ IF At(a, "open") THEN EndOf(a) ELSE Set(a, [app[a] EXCEPT !.alive = FALSE])
  /\ UNCHANGED <<discovery, pool, paused, robin, requests>>

\* The stream ends at its other side.
StreamEnds(a) ==
  /\ At(a, "open") /\ EndOf(a)
  /\ UNCHANGED <<discovery, pool, paused, robin, requests>>

\* udpFn: a datagram for a relay that is not there yet.
Datagram(a) ==
  /\ app[a].kind = "udp" /\ app[a].alive /\ app[a].at \notin {"idle", "open"}
  /\ IF app[a].queued < MaxQueue THEN Set(a, [app[a] EXCEPT !.queued = @ + 1])
     ELSE Set(a, [app[a] EXCEPT !.alive = FALSE])
  /\ UNCHANGED <<discovery, pool, paused, robin, requests>>

\* onClose
DropSession(e) == sessions \ {e}

\* What is open or being opened in a session ends with it.
SessionCloses(e) ==
  /\ live[e] > 0 /\ live' = [live EXCEPT ![e] = @ - 1]
  /\ sessions' = DropSession(e)
  /\ app' = [a \in Apps |->
       IF app[a].pair # <<e, "mgt">> THEN app[a]
       ELSE CASE At(a, "stream") -> [app[a] EXCEPT !.at = "rejected"]
              [] At(a, "open") -> Idle
              [] OTHER -> app[a]]
  /\ UNCHANGED <<discovery, pending, dialing, paused, robin, requests>>

CoolsDown(pair) ==
  /\ pair \in paused /\ paused' = paused \ {pair}
  /\ UNCHANGED <<discovery, pool, robin, app, requests>>

-----------------------------------------------------------------------------
Lookups == \E e \in Exits : LookupFinds(e) \/ LookupFails(e)
Dials(e) == Dialed(e) \/ DialFails(e)
Step(a) == TakeCandidates(a) \/ Resolved(a) \/ Rejected(a) \/ Opens(a) \/ StreamFails(a) \/ Direct(a)

NextClient ==
  \/ Lookups \/ Poll \/ \E e \in Exits : Subscription(e) \/ OfferExpires(e)
  \/ \E e \in Exits : Dials(e) \/ SessionCloses(e)
  \/ \E pair \in RoutePairs : CoolsDown(pair)
  \/ \E a \in Apps :
       \/ \E kind \in Kinds[a] : Request(a, kind)
       \/ Step(a) \/ AppLeaves(a) \/ StreamEnds(a) \/ Datagram(a)

\* Connections and openings have timeouts, lookups end and, while the exits go
\* on publishing, find an offer in the end.  It is enough that something of what
\* is due goes on: requests and expiries are bounded.
FairnessClient ==
  /\ WF_clientVars(Poll) /\ SF_clientVars(\E e \in Exits : LookupFinds(e))
  /\ WF_clientVars((\E e \in Exits : Dials(e)) \/ \E a \in Apps : Step(a))

SpecClient == InitClient /\ [][NextClient]_clientVars
FairSpecClient == SpecClient /\ FairnessClient

-----------------------------------------------------------------------------

TypeOKClient ==
  /\ Range(known) \subseteq Exits /\ lookup \subseteq Range(known)
  /\ sessions \subseteq Exits /\ pending \subseteq Exits /\ paused \subseteq RoutePairs
  /\ rr \in Nat /\ udpRr \in Nat /\ requests \subseteq Apps

\* client.js:328 "a single authenticated connection per exit": however requests
\* overlap with connections that are made, fail or close, there is never a second
\* one, and the one there is will be found by the next request.
SingleConnection ==
  \A e \in Exits :
    /\ dialing[e] + live[e] <= 1
    /\ live[e] = 1 => e \in sessions
    /\ dialing[e] = 1 => e \in pending

\* A stream or relay stays open only between two ends that are still there
\* (client.js:395, :453, socks5.mjs:83): none is left to an application that has
\* gone while it was being opened, none outlives its session.
NothingDangles ==
  \A a \in Apps : At(a, "open") =>
    /\ app[a].alive
    /\ app[a].pair # None /\ app[a].pair[2] = "mgt" => live[app[a].pair[1]] = 1

\* Whatever fails, and whatever the others do to the pool, the pauses and the
\* round robin meanwhile, every request ends or is served (client.js:331, :366);
\* and after failed lookups and expired offers all exits are known again, those
\* too that only other exits' offers name (:269, :308).
ClientSettles ==
  <>[](fresh = Exits /\ \A a \in Apps : app[a].at \in {"idle", "open"})
=============================================================================
