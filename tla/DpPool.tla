------------------------------- MODULE DpPool -------------------------------
(***************************************************************************)
(* The data-plane engines of the desktop client (src/dp-supervisor.mjs):   *)
(* DpPool keeps one engine per endpoint with a count of the connections    *)
(* that use it and stops it when it has been idle for a while; each        *)
(* engine (DpSupervisor) runs one sing-box process behind a local SOCKS    *)
(* port and does its ensure and stop operations one after the other, on a  *)
(* chain of promises.                                                      *)
(*                                                                         *)
(* JavaScript runs one callback at a time: an action is what runs between  *)
(* two awaits.  Between them anything else may run, the exit of a process  *)
(* and the idle timer included.                                            *)
(***************************************************************************)
EXTENDS Integers, FiniteSets, Sequences

CONSTANTS
  Keys,     \* the endpoints (an offer's data plane, by its complete generation)
  Engines,  \* bound: the engines that exist at once
  Conns,    \* bound: the connections under way at once
  Limit,    \* the engines the pool keeps (32)
  None

ASSUME PoolAssumption ==
  /\ None \notin Keys \cup Engines \cup Conns
  /\ IsFiniteSet(Conns) /\ Conns \cap {"timer", "pool"} = {}
  /\ Limit \in Nat \ {0}

VARIABLES
  entries,  \* entries[k]: the engine the pool holds for k
  key,      \* key[e]: the endpoint of e; None when e is not made
  port,     \* port[e]: of the search for a local port: "pending", "found", "failed"
  refs,     \* refs[e]: the connections counted
  timer,    \* timer[e]: whether the idle timer of e runs
  chain,    \* chain[e]: the operations not ended; its head runs
  phase,    \* phase[e]: where the head is: "queued", "restart", "listen", "fail", "stop"
  broken,   \* broken[e]: the chain is a rejected promise
  proc,     \* proc[e]: the process the supervisor knows: "none", "starting", "up", "killed"
  alive,    \* alive[e]: the processes running for e
  conn,     \* conn[c]: "idle", "port", "ensure", "dial", "live" or "cut" (its process ended)
  via,      \* via[c]: the engine of c
  pool,     \* "open", "stopping", "stopped"
  owed      \* the engines stop() still has to wait for or stop

poolVars == <<entries, key, port, refs, timer, pool, owed>>
engineVars == <<chain, phase, broken, proc, alive>>
connVars == <<conn, via>>
vars == <<poolVars, engineVars, connVars>>

ConnPlaces == {"idle", "port", "ensure", "dial", "live", "cut"}
Phases == {"queued", "restart", "listen", "fail", "stop"}
Stops == {"timer", "pool"}

Init ==
  /\ entries = [k \in Keys |-> None]
  /\ key = [e \in Engines |-> None]
  /\ port = [e \in Engines |-> "pending"]
  /\ refs = [e \in Engines |-> 0]
  /\ timer = [e \in Engines |-> FALSE]
  /\ chain = [e \in Engines |-> <<>>]
  /\ phase = [e \in Engines |-> "queued"]
  /\ broken = [e \in Engines |-> FALSE]
  /\ proc = [e \in Engines |-> "none"]
  /\ alive = [e \in Engines |-> 0]
  /\ conn = [c \in Conns |-> "idle"]
  /\ via = [c \in Conns |-> None]
  /\ pool = "open"
  /\ owed = {}

-----------------------------------------------------------------------------
(* DpPool.connect, first half.                                              *)

\* An operation of the chain is the connection that ensures, or who stops.
Enqueue(e, op) == chain' = [chain EXCEPT ![e] = Append(@, op)]

Held == {k \in Keys : entries[k] # None}

\* An engine nothing refers to any more may stand for a new one.
Free(e) == /\ e \notin {entries[k] : k \in Keys}
           /\ refs[e] = 0 /\ ~ timer[e] /\ chain[e] = <<>> /\ alive[e] = 0

\* Variant: the idle timer is left running.
KeepTimer(e) == timer

ClearTimer(e) == [timer EXCEPT ![e] = FALSE]

\* connect(): the entry of this endpoint, counted before anything is awaited.
Reuse(c, k) ==
  /\ pool = "open" /\ conn[c] = "idle"
  /\ entries[k] # None
  /\ LET e == entries[k]
     IN /\ timer' = ClearTimer(e)
        /\ refs' = [refs EXCEPT ![e] = @ + 1]
        /\ conn' = [conn EXCEPT ![c] = "port"]
        /\ via' = [via EXCEPT ![c] = e]
  /\ UNCHANGED <<entries, key, port, pool, owed, engineVars>>

BelowLimit == Cardinality(Held) < Limit

\* connect(): a new entry; its port is sought in the background.
Make(c, k, e) ==
  /\ pool = "open" /\ conn[c] = "idle"
  /\ entries[k] = None /\ BelowLimit
  /\ Free(e)
  /\ entries' = [entries EXCEPT ![k] = e]
  /\ key' = [key EXCEPT ![e] = k]
  /\ port' = [port EXCEPT ![e] = "pending"]
  /\ refs' = [refs EXCEPT ![e] = 1]
  /\ phase' = [phase EXCEPT ![e] = "queued"]
  /\ broken' = [broken EXCEPT ![e] = FALSE]
  /\ conn' = [conn EXCEPT ![c] = "port"]
  /\ via' = [via EXCEPT ![c] = e]
  /\ UNCHANGED <<timer, pool, owed, chain, proc, alive>>

PortSearch(e, outcome) ==
  /\ key[e] # None /\ port[e] = "pending"
  /\ port' = [port EXCEPT ![e] = outcome]
  /\ UNCHANGED <<entries, key, refs, timer, pool, owed, engineVars, connVars>>

\* Variant: the count is tested before it is lowered.
LastBefore(e) == refs[e] = 0

LastOne(e) == refs[e] = 1

\* release(): the last connection of an engine starts its idle timer.
Release(c) ==
  LET e == via[c]
  IN /\ refs' = [refs EXCEPT ![e] = @ - 1]
     /\ timer' = IF LastOne(e) /\ pool = "open" THEN [timer EXCEPT ![e] = TRUE] ELSE timer
     /\ conn' = [conn EXCEPT ![c] = "idle"]
     /\ via' = [via EXCEPT ![c] = None]

\* The port is known: the engine is ensured, unless the pool was stopped.
Ensure(c) ==
  /\ conn[c] = "port"
  /\ port[via[c]] = "found" /\ pool = "open"
  /\ conn' = [conn EXCEPT ![c] = "ensure"]
  /\ Enqueue(via[c], c)
  /\ UNCHANGED <<poolVars, phase, broken, proc, alive, via>>

Refused(c) ==
  /\ conn[c] = "port"
  /\ port[via[c]] = "failed" \/ (port[via[c]] = "found" /\ pool # "open")
  /\ Release(c)
  /\ UNCHANGED <<entries, key, port, pool, owed, engineVars>>

-----------------------------------------------------------------------------
(* DpSupervisor: the head of the chain.                                     *)

\* The operation at the head of the chain, and how far it is.
Running(e, op, where) == chain[e] # <<>> /\ op = Head(chain[e]) /\ phase[e] = where

Ended(e) ==
  /\ chain' = [chain EXCEPT ![e] = Tail(@)]
  /\ phase' = [phase EXCEPT ![e] = "queued"]

\* Variant: a failure is not passed on.
AnswerSuccess(c, ok) ==
  /\ conn' = IF ok THEN [conn EXCEPT ![c] = "dial"] ELSE conn
  /\ UNCHANGED <<refs, timer, via>>

\* What ensure answers to the connection that awaits it.
Answer(c, ok) ==
  IF ok
  THEN /\ conn' = [conn EXCEPT ![c] = "dial"]
       /\ UNCHANGED <<refs, timer, via>>
  ELSE Release(c)

\* The rejected chain: this ensure is not run, and mends the chain.
EnsureSkipped(e, c) ==
  /\ Running(e, c, "queued")
  /\ broken[e]
  /\ broken' = [broken EXCEPT ![e] = FALSE]
  /\ Ended(e)
  /\ Answer(c, FALSE)
  /\ UNCHANGED <<entries, key, port, pool, owed, proc, alive>>

\* The process runs already.
EnsureReuses(e, c) ==
  /\ Running(e, c, "queued")
  /\ ~ broken[e] /\ proc[e] = "up"
  /\ Ended(e)
  /\ Answer(c, TRUE)
  /\ UNCHANGED <<entries, key, port, pool, owed, broken, proc, alive>>

Kill(e) == proc' = [proc EXCEPT ![e] = "killed"]

\* A process that is not ready is taken down before another is started.
EnsureRestarts(e, c) ==
  /\ Running(e, c, "queued")
  /\ ~ broken[e] /\ proc[e] \in {"starting", "killed"}
  /\ Kill(e)
  /\ phase' = [phase EXCEPT ![e] = "restart"]
  /\ UNCHANGED <<poolVars, connVars, chain, broken, alive>>

\* Variant: the process before it is not waited for.
GoneAnyway(e) == TRUE

Gone(e) == proc[e] = "none"

Spawn(e, c) ==
  /\ ~ broken[e]
  /\ Running(e, c, "queued") \/ Running(e, c, "restart")
  /\ proc[e] # "up" /\ Gone(e)
  /\ proc' = [proc EXCEPT ![e] = "starting"]
  /\ alive' = [alive EXCEPT ![e] = @ + 1]
  /\ phase' = [phase EXCEPT ![e] = "listen"]
  /\ UNCHANGED <<poolVars, connVars, chain, broken>>

\* waitPort: the process accepts connections.
Listening(e, c) ==
  /\ Running(e, c, "listen")
  /\ proc[e] = "starting"
  /\ proc' = [proc EXCEPT ![e] = "up"]
  /\ Ended(e)
  /\ Answer(c, TRUE)
  /\ UNCHANGED <<entries, key, port, pool, owed, broken, alive>>

\* waitPort: it does not in time, or it has exited; it is taken down.
ListenFails(e, c) ==
  /\ Running(e, c, "listen")
  /\ proc' = [proc EXCEPT ![e] = IF @ = "none" THEN @ ELSE "killed"]
  /\ phase' = [phase EXCEPT ![e] = "fail"]
  /\ UNCHANGED <<poolVars, connVars, chain, broken, alive>>

\* Ensure answers no: the process did not come up, the one before did not stop
\* within five seconds, or the configuration could not be written.
EnsureFails(e, c) ==
  /\ ~ broken[e]
  /\ \/ Running(e, c, "fail") \/ Running(e, c, "restart")
     \/ Running(e, c, "queued") /\ Gone(e)
  /\ Ended(e)
  /\ Answer(c, FALSE)
  /\ UNCHANGED <<entries, key, port, pool, owed, broken, proc, alive>>

\* Who stopped the engine goes on: the idle timer forgets the entry if it is
\* still this engine's; the pool has one engine less to wait for.
Stopped(e, who, ok) ==
  /\ entries' = IF who = "timer" /\ ok /\ key[e] # None /\ entries[key[e]] = e
                THEN [entries EXCEPT ![key[e]] = None] ELSE entries
  /\ owed' = IF who = "pool" THEN owed \ {e} ELSE owed

\* A stop behind a rejected promise is not run.
StopSkipped(e, who) ==
  /\ Running(e, who, "queued")
  /\ broken[e]
  /\ Ended(e)
  /\ Stopped(e, who, FALSE)
  /\ UNCHANGED <<key, port, refs, timer, pool, connVars, broken, proc, alive>>

StopBegins(e, who) ==
  /\ Running(e, who, "queued")
  /\ ~ broken[e] /\ proc[e] # "none"
  /\ Kill(e)
  /\ phase' = [phase EXCEPT ![e] = "stop"]
  /\ UNCHANGED <<poolVars, connVars, chain, broken, alive>>

StopEnds(e, who) ==
  /\ Running(e, who, "queued") \/ Running(e, who, "stop")
  /\ ~ broken[e] /\ proc[e] = "none"
  /\ Ended(e)
  /\ Stopped(e, who, TRUE)
  /\ UNCHANGED <<key, port, refs, timer, pool, connVars, broken, proc, alive>>

\* Five seconds passed: the promise is rejected.
StopTimesOut(e, who) ==
  /\ Running(e, who, "stop")
  /\ proc[e] = "killed"
  /\ broken' = [broken EXCEPT ![e] = TRUE]
  /\ Ended(e)
  /\ Stopped(e, who, FALSE)
  /\ UNCHANGED <<key, port, refs, timer, pool, connVars, proc, alive>>

\* The process ends, killed or not; the connections through it are cut.
Exit(e) ==
  /\ alive[e] > 0
  /\ alive' = [alive EXCEPT ![e] = @ - 1]
  /\ proc' = [proc EXCEPT ![e] = "none"]
  /\ conn' = [c \in Conns |-> IF via[c] = e /\ conn[c] = "live" THEN "cut" ELSE conn[c]]
  /\ UNCHANGED <<poolVars, chain, phase, broken, via>>

-----------------------------------------------------------------------------
(* DpPool.connect, second half, the idle timer and stop.                    *)

\* The engine connects to the target, or not; its process may have ended.
Connected(c) ==
  /\ conn[c] = "dial" /\ proc[via[c]] = "up"
  /\ conn' = [conn EXCEPT ![c] = "live"]
  /\ UNCHANGED <<poolVars, engineVars, via>>

\* The dial fails, or the connection is closed: it is counted no longer.
Closes(c) ==
  /\ conn[c] \in {"dial", "live", "cut"}
  /\ Release(c)
  /\ UNCHANGED <<entries, key, port, pool, owed, engineVars>>

\* Thirty seconds without a connection: stop the engine, then forget the entry.
\* An entry without an engine is forgotten at once.
IdleTimer(e) ==
  /\ timer[e]
  /\ timer' = [timer EXCEPT ![e] = FALSE]
  /\ IF port[e] = "found"
     THEN Enqueue(e, "timer") /\ UNCHANGED <<entries, owed>>
     ELSE Stopped(e, "timer", TRUE) /\ UNCHANGED chain
  /\ UNCHANGED <<key, port, refs, pool, phase, broken, proc, alive, connVars>>

\* stop(): every entry's timer is cleared and its engine stopped in turn.
PoolStop ==
  /\ pool = "open"
  /\ pool' = "stopping"
  /\ owed' = {entries[k] : k \in Held}
  /\ timer' = [e \in Engines |-> timer[e] /\ e \notin owed']
  /\ UNCHANGED <<entries, key, port, refs, engineVars, connVars>>

StopOne(e) ==
  /\ pool = "stopping" /\ e \in owed
  /\ port[e] # "pending"
  /\ "pool" \notin {chain[e][i] : i \in DOMAIN chain[e]}
  /\ IF port[e] = "found"
     THEN Enqueue(e, "pool") /\ UNCHANGED owed
     ELSE owed' = owed \ {e} /\ UNCHANGED chain
  /\ UNCHANGED <<entries, key, port, refs, timer, pool, phase, broken, proc, alive, connVars>>

PoolStopped ==
  /\ pool = "stopping" /\ owed = {}
  /\ pool' = "stopped"
  /\ entries' = [k \in Keys |-> None]
  /\ UNCHANGED <<key, port, refs, timer, owed, engineVars, connVars>>

-----------------------------------------------------------------------------
EnsureOf(e, c) ==
  \/ EnsureSkipped(e, c) \/ EnsureReuses(e, c) \/ EnsureRestarts(e, c) \/ Spawn(e, c)
  \/ Listening(e, c) \/ ListenFails(e, c) \/ EnsureFails(e, c)
StopOf(e, who) == StopSkipped(e, who) \/ StopBegins(e, who) \/ StopEnds(e, who) \/ StopTimesOut(e, who)
Chain(e) == (\E c \in Conns : EnsureOf(e, c)) \/ (\E who \in Stops : StopOf(e, who))
ConnStep(c) == Ensure(c) \/ Refused(c) \/ Connected(c) \/ Closes(c)
PortStep(e) == \E outcome \in {"found", "failed"} : PortSearch(e, outcome)

Next ==
  \/ \E c \in Conns, k \in Keys : Reuse(c, k) \/ \E e \in Engines : Make(c, k, e)
  \/ \E c \in Conns : ConnStep(c)
  \/ \E e \in Engines : PortStep(e) \/ Chain(e) \/ Exit(e) \/ IdleTimer(e) \/ StopOne(e)
  \/ PoolStop \/ PoolStopped

Spec == Init /\ [][Next]_vars

\* Timers fire, promises settle, dials end within their timeouts, and a process
\* that was killed exits.  Nothing makes a live connection close.
Fairness ==
  /\ \A c \in Conns :
       WF_vars(Ensure(c) \/ Refused(c) \/ (conn[c] = "dial" /\ (Connected(c) \/ Closes(c))))
  /\ \A e \in Engines :
       /\ WF_vars(PortStep(e)) /\ WF_vars(Chain(e)) /\ WF_vars(IdleTimer(e)) /\ WF_vars(StopOne(e))
       /\ WF_vars(proc[e] = "killed" /\ Exit(e))
  /\ WF_vars(PoolStopped)

FairSpec == Spec /\ Fairness

-----------------------------------------------------------------------------
(* Properties.                                                              *)

TypeOK ==
  /\ entries \in [Keys -> Engines \cup {None}]
  /\ key \in [Engines -> Keys \cup {None}]
  /\ port \in [Engines -> {"pending", "found", "failed"}]
  /\ refs \in [Engines -> Nat] /\ timer \in [Engines -> BOOLEAN]
  /\ \A e \in Engines : \A i \in DOMAIN chain[e] : chain[e][i] \in Conns \cup Stops
  /\ phase \in [Engines -> Phases] /\ broken \in [Engines -> BOOLEAN]
  /\ proc \in [Engines -> {"none", "starting", "up", "killed"}] /\ alive \in [Engines -> Nat]
  /\ conn \in [Conns -> ConnPlaces] /\ via \in [Conns -> Engines \cup {None}]
  /\ pool \in {"open", "stopping", "stopped"} /\ owed \subseteq Engines

\* dp-supervisor.mjs:112-114: however ensures, stops, crashes and timeouts
\* overlap, two processes never run on one engine's SOCKS port.
OneProcessPerPort == \A e \in Engines : alive[e] <= 1

\* dp-supervisor.mjs:265 "Rotation never kills existing streams": while the
\* pool is open no process that carries a connection, or is asked for one, is
\* killed, whatever idle timers and failed stops are under way.
StreamsSurvive ==
  [][\A e \in Engines :
       (pool = "open" /\ proc[e] = "up" /\ proc'[e] = "killed")
         => \A c \in Conns : via[c] = e => conn[c] \notin {"dial", "live"}]_vars

\* dp-supervisor.mjs:303-310: an engine nobody uses does not run for ever, even
\* when a stop timed out or the pool has forgotten it meanwhile.
IdleEngineStops ==
  \A e \in Engines : (alive[e] > 0 /\ refs[e] = 0) ~> (alive[e] = 0 \/ refs[e] > 0 \/ pool # "open")

\* dp-supervisor.mjs:312-322: whatever happens to its engine, a connection that
\* is asked for is made or refused.
ConnectAnswers == \A c \in Conns : conn[c] \in {"port", "ensure", "dial"} ~> conn[c] \in {"live", "cut", "idle"}
=============================================================================
