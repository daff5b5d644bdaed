---------------------------- MODULE DpPool_proofs ----------------------------
(***************************************************************************)
(* For any endpoints, engines and connections: an engine's port has one    *)
(* process at most, and no stream is killed while the pool is open.        *)
(*                                                                         *)
(* The second rests on the order of an engine's chain: an idle timer that  *)
(* stops the engine was set when nobody used it, and who has come since    *)
(* waits behind the stop.                                                  *)
(*                                                                         *)
(* And of the application that starts such engines (Desktop): for any      *)
(* settings, acts and failures the health it shows was measured of what    *)
(* runs now, and what was disconnected stays so.                           *)
(***************************************************************************)
EXTENDS DpPool, Desktop, FiniteSetTheorems, TLAPS

Ops == Conns \cup Stops

Types ==
  /\ entries \in [Keys -> Engines \cup {None}]
  /\ key \in [Engines -> Keys \cup {None}]
  /\ port \in [Engines -> {"pending", "found", "failed"}]
  /\ refs \in [Engines -> Int] /\ timer \in [Engines -> BOOLEAN]
  /\ chain \in [Engines -> Seq(Ops)]
  /\ phase \in [Engines -> Phases] /\ broken \in [Engines -> BOOLEAN]
  /\ proc \in [Engines -> {"none", "starting", "up", "killed"}] /\ alive \in [Engines -> Int]
  /\ conn \in [Conns -> ConnPlaces] /\ via \in [Conns -> Engines \cup {None}]
  /\ pool \in {"open", "stopping", "stopped"} /\ owed \subseteq Engines

Users(e) == {c \in Conns : via[c] = e}

\* One process runs for an engine exactly when the supervisor knows of one, and
\* the one that is waited for is not ready yet.
Procs ==
  \A e \in Engines : /\ alive[e] = IF proc[e] = "none" THEN 0 ELSE 1
                     /\ phase[e] = "listen" => proc[e] # "up"

\* Each connection under way is counted once, and an idle engine has none.
Counts ==
  /\ \A c \in Conns : via[c] = None <=> conn[c] = "idle"
  /\ \A e \in Engines : refs[e] = Cardinality(Users(e))
  /\ \A e \in Engines : timer[e] => refs[e] = 0

\* A connection in a chain awaits its engine there, once.
Waiting ==
  \A e \in Engines : \A i \in DOMAIN chain[e] :
    chain[e][i] \in Conns =>
      /\ via[chain[e][i]] = e /\ conn[chain[e][i]] = "ensure"
      /\ \A j \in DOMAIN chain[e] : chain[e][j] = chain[e][i] => i = j

\* While the pool is open only idle timers stop an engine, and all who use it then
\* have come later and wait behind.
Behind ==
  pool = "open" =>
    \A e \in Engines : \A i \in DOMAIN chain[e] :
      /\ chain[e][i] # "pool"
      /\ chain[e][i] = "timer" =>
           /\ \A c \in Users(e) : conn[c] \in {"port", "ensure"}
           /\ \A j \in DOMAIN chain[e] : chain[e][j] \in Conns => i < j

IInv == Types /\ Procs /\ Counts /\ Waiting /\ Behind

-----------------------------------------------------------------------------
(* Types.                                                                   *)

\* What the chains hold at their head and behind it.
LEMMA ChainTypes ==
  ASSUME Types, NEW e \in Engines
  PROVE  /\ \A op \in Ops : Enqueue(e, op) => chain' \in [Engines -> Seq(Ops)]
         /\ chain[e] # <<>> => Head(chain[e]) \in Ops
         /\ chain[e] # <<>> /\ Ended(e) => /\ chain' \in [Engines -> Seq(Ops)]
                                           /\ phase' \in [Engines -> Phases]
<1>1. chain[e] \in Seq(Ops) /\ phase \in [Engines -> Phases] /\ "queued" \in Phases
  BY DEF Types, Phases
<1>2. \A op \in Ops : Append(chain[e], op) \in Seq(Ops)
  BY <1>1
<1>3. chain[e] # <<>> => Head(chain[e]) \in Ops /\ Tail(chain[e]) \in Seq(Ops)
  BY <1>1
<1>4. \A op \in Ops : Enqueue(e, op) => chain' \in [Engines -> Seq(Ops)]
  BY <1>2 DEF Types, Enqueue
<1>5. chain[e] # <<>> /\ Ended(e) => chain' \in [Engines -> Seq(Ops)]
  <2> SUFFICES ASSUME chain[e] # <<>>, chain' = [chain EXCEPT ![e] = Tail(chain[e])]
               PROVE  chain' \in [Engines -> Seq(Ops)]
    BY DEF Ended
  <2>1. Tail(chain[e]) \in Seq(Ops)
    BY <1>3
  <2> QED BY <2>1 DEF Types
<1>6. Ended(e) => phase' \in [Engines -> Phases]
  BY <1>1 DEF Ended
<1> QED BY <1>3, <1>4, <1>5, <1>6

\* A connection that is released.
LEMMA ReleaseTypes ==
  ASSUME Types, NEW c \in Conns, Release(c)
  PROVE  /\ refs' \in [Engines -> Int] /\ timer' \in [Engines -> BOOLEAN]
         /\ conn' \in [Conns -> ConnPlaces] /\ via' \in [Conns -> Engines \cup {None}]
<1>1. refs' \in [Engines -> Int]
  <2>1. refs' = [refs EXCEPT ![via[c]] = refs[via[c]] - 1] /\ refs \in [Engines -> Int]
    BY DEF Types, Release
  <2>2. CASE via[c] \in Engines
    BY <2>1, <2>2
  <2>3. CASE via[c] \notin Engines
    BY <2>1, <2>3
  <2> QED BY <2>2, <2>3
<1>2. timer' \in [Engines -> BOOLEAN]
  <2>1. CASE timer' = timer
    BY <2>1 DEF Types
  <2>2. CASE timer' = [timer EXCEPT ![via[c]] = TRUE]
    BY <2>2 DEF Types
  <2> QED BY <2>1, <2>2 DEF Release
<1>3. conn' \in [Conns -> ConnPlaces] /\ via' \in [Conns -> Engines \cup {None}]
  BY DEF Types, Release, ConnPlaces
<1> QED BY <1>1, <1>2, <1>3

LEMMA AnswerTypes ==
  ASSUME Types, NEW c \in Conns, NEW ok \in BOOLEAN, Answer(c, ok)
  PROVE  /\ refs' \in [Engines -> Int] /\ timer' \in [Engines -> BOOLEAN]
         /\ conn' \in [Conns -> ConnPlaces] /\ via' \in [Conns -> Engines \cup {None}]
<1>1. CASE ok
  BY <1>1 DEF Types, Answer, ConnPlaces
<1>2. CASE ~ok
  BY <1>2, ReleaseTypes DEF Answer
<1> QED BY <1>1, <1>2

LEMMA InitTypes == Init => Types
<1> SUFFICES ASSUME Init PROVE Types
  OBVIOUS
<1>1. chain \in [Engines -> Seq(Ops)]
  <2>1. <<>> \in Seq(Ops)
    OBVIOUS
  <2> QED BY <2>1 DEF Init
<1>2. timer \in [Engines -> BOOLEAN] /\ broken \in [Engines -> BOOLEAN]
  BY DEF Init
<1>3. /\ entries \in [Keys -> Engines \cup {None}]
      /\ key \in [Engines -> Keys \cup {None}]
      /\ port \in [Engines -> {"pending", "found", "failed"}]
      /\ refs \in [Engines -> Int]
  BY DEF Init
<1>4. /\ phase \in [Engines -> Phases]
      /\ proc \in [Engines -> {"none", "starting", "up", "killed"}] /\ alive \in [Engines -> Int]
      /\ conn \in [Conns -> ConnPlaces] /\ via \in [Conns -> Engines \cup {None}]
  BY DEF Init, Phases, ConnPlaces
<1>5. pool \in {"open", "stopping", "stopped"} /\ owed \subseteq Engines
  BY DEF Init
<1> QED BY <1>1, <1>2, <1>3, <1>4, <1>5 DEF Types

\* An operation at the head of a chain.
LEMMA EnsureTypes ==
  ASSUME Types, NEW e \in Engines, NEW c \in Conns, EnsureOf(e, c)
  PROVE  Types'
<1>1. ASSUME chain[e] # <<>>, Ended(e), NEW ok \in BOOLEAN, Answer(c, ok),
             UNCHANGED <<entries, key, port, pool, owed, broken, alive>>,
             proc' \in [Engines -> {"none", "starting", "up", "killed"}]
      PROVE  Types'
  BY <1>1, ChainTypes, AnswerTypes DEF Types
<1>2. CASE EnsureSkipped(e, c)
  <2>1. broken' \in [Engines -> BOOLEAN]
    BY <1>2 DEF Types, EnsureSkipped
  <2> QED BY <1>2, <2>1, ChainTypes, AnswerTypes DEF Types, EnsureSkipped, Running
<1>3. CASE EnsureReuses(e, c)
  BY <1>1, <1>3 DEF EnsureReuses, Running, Types
<1>4. CASE EnsureRestarts(e, c)
  BY <1>4 DEF Types, EnsureRestarts, Kill, poolVars, connVars, Phases
<1>5. CASE Spawn(e, c)
  BY <1>5 DEF Types, Spawn, poolVars, connVars, Phases
<1>6. CASE Listening(e, c)
  <2>1. proc' \in [Engines -> {"none", "starting", "up", "killed"}]
    BY <1>6 DEF Types, Listening
  <2> QED BY <1>1, <1>6, <2>1 DEF Listening, Running
<1>7. CASE ListenFails(e, c)
  BY <1>7 DEF Types, ListenFails, poolVars, connVars, Phases
<1>8. CASE EnsureFails(e, c)
  BY <1>1, <1>8 DEF EnsureFails, Running, Types
<1> QED BY <1>2, <1>3, <1>4, <1>5, <1>6, <1>7, <1>8 DEF EnsureOf

LEMMA StoppedTypes ==
  ASSUME Types, NEW e \in Engines, NEW who, NEW ok, Stopped(e, who, ok)
  PROVE  entries' \in [Keys -> Engines \cup {None}] /\ owed' \subseteq Engines
<1>1. entries' = entries \/ entries' = [entries EXCEPT ![key[e]] = None]
  BY DEF Stopped
<1>2. owed' \subseteq owed
  BY DEF Stopped
<1> QED BY <1>1, <1>2 DEF Types

LEMMA StopTypes ==
  ASSUME Types, NEW e \in Engines, NEW who \in Stops, StopOf(e, who)
  PROVE  Types'
<1>1. ASSUME chain[e] # <<>>, Ended(e), NEW ok, Stopped(e, who, ok),
             UNCHANGED <<key, port, refs, timer, pool, connVars, proc, alive>>,
             broken' \in [Engines -> BOOLEAN]
      PROVE  Types'
  BY <1>1, ChainTypes, StoppedTypes DEF Types, connVars
<1>2. CASE StopSkipped(e, who)
  BY <1>1, <1>2 DEF StopSkipped, Running, Types
<1>3. CASE StopBegins(e, who)
  BY <1>3 DEF Types, StopBegins, Kill, poolVars, connVars, Phases
<1>4. CASE StopEnds(e, who)
  BY <1>1, <1>4 DEF StopEnds, Running, Types
<1>5. CASE StopTimesOut(e, who)
  <2>1. broken' \in [Engines -> BOOLEAN]
    BY <1>5 DEF Types, StopTimesOut
  <2> QED BY <1>1, <1>5, <2>1 DEF StopTimesOut, Running
<1> QED BY <1>2, <1>3, <1>4, <1>5 DEF StopOf

\* Every step keeps the types.
LEMMA TypesKept ==
  ASSUME Types, [Next]_vars
  PROVE  Types'
<1>1. CASE UNCHANGED vars
  BY <1>1 DEF vars, poolVars, engineVars, connVars, Types
<1>2. ASSUME NEW c \in Conns, NEW k \in Keys, Reuse(c, k) PROVE Types'
  <2>1. entries[k] \in Engines
    BY <1>2 DEF Types, Reuse
  <2>2. timer' \in [Engines -> BOOLEAN]
    BY <1>2 DEF Types, Reuse, ClearTimer
  <2>3. /\ refs' \in [Engines -> Int]
        /\ conn' \in [Conns -> ConnPlaces] /\ via' \in [Conns -> Engines \cup {None}]
    BY <1>2, <2>1 DEF Types, Reuse, ConnPlaces
  <2> QED BY <1>2, <2>2, <2>3 DEF Types, Reuse, engineVars
<1>3. ASSUME NEW c \in Conns, NEW k \in Keys, NEW e \in Engines, Make(c, k, e) PROVE Types'
  <2>1. /\ entries' \in [Keys -> Engines \cup {None}]
        /\ key' \in [Engines -> Keys \cup {None}]
        /\ port' \in [Engines -> {"pending", "found", "failed"}]
        /\ refs' \in [Engines -> Int]
    BY <1>3 DEF Types, Make
  <2>2. /\ phase' \in [Engines -> Phases] /\ broken' \in [Engines -> BOOLEAN]
        /\ conn' \in [Conns -> ConnPlaces] /\ via' \in [Conns -> Engines \cup {None}]
    BY <1>3 DEF Types, Make, Phases, ConnPlaces
  <2> QED BY <1>3, <2>1, <2>2 DEF Types, Make
<1>4. ASSUME NEW c \in Conns, Ensure(c) PROVE Types'
  <2>1. CASE via[c] \in Engines
    BY <1>4, <2>1, ChainTypes DEF Types, Ensure, Ops, poolVars, ConnPlaces
  <2>2. CASE via[c] \notin Engines
    BY <1>4, <2>2 DEF Types, Ensure, Enqueue, poolVars, ConnPlaces
  <2> QED BY <2>1, <2>2
<1>5. ASSUME NEW c \in Conns, Refused(c) PROVE Types'
  BY <1>5, ReleaseTypes DEF Types, Refused, engineVars
<1>6. ASSUME NEW c \in Conns, Connected(c) PROVE Types'
  BY <1>6 DEF Types, Connected, poolVars, engineVars, ConnPlaces
<1>7. ASSUME NEW c \in Conns, Closes(c) PROVE Types'
  BY <1>7, ReleaseTypes DEF Types, Closes, engineVars
<1>8. ASSUME NEW e \in Engines, PortStep(e) PROVE Types'
  BY <1>8 DEF Types, PortStep, PortSearch, engineVars, connVars
<1>9. ASSUME NEW e \in Engines, Chain(e) PROVE Types'
  BY <1>9, EnsureTypes, StopTypes DEF Chain
<1>10. ASSUME NEW e \in Engines, Exit(e) PROVE Types'
  <2>1. conn' \in [Conns -> ConnPlaces]
    BY <1>10 DEF Types, Exit, ConnPlaces
  <2> QED BY <1>10, <2>1 DEF Types, Exit, poolVars
<1>11. ASSUME NEW e \in Engines, IdleTimer(e) PROVE Types'
  <2>1. timer' \in [Engines -> BOOLEAN]
    BY <1>11 DEF Types, IdleTimer
  <2>2. /\ entries' \in [Keys -> Engines \cup {None}] /\ owed' \subseteq Engines
        /\ chain' \in [Engines -> Seq(Ops)]
    BY <1>11, ChainTypes, StoppedTypes DEF Types, IdleTimer, Ops, Stops
  <2> QED BY <1>11, <2>1, <2>2 DEF Types, IdleTimer, connVars
<1>12. ASSUME NEW e \in Engines, StopOne(e) PROVE Types'
  <2>1. chain' \in [Engines -> Seq(Ops)] /\ owed' \subseteq Engines
    BY <1>12, ChainTypes DEF Types, StopOne, Ops, Stops
  <2> QED BY <1>12, <2>1 DEF Types, StopOne, connVars
<1>13. CASE PoolStop
  <2>1. timer' \in [Engines -> BOOLEAN]
    BY <1>13, Zenon DEF Types, PoolStop
  <2>2. owed' \subseteq Engines
    BY <1>13 DEF Types, PoolStop, Held
  <2> QED BY <1>13, <2>1, <2>2 DEF Types, PoolStop, engineVars, connVars
<1>14. CASE PoolStopped
  BY <1>14 DEF Types, PoolStopped, engineVars, connVars
<1> QED BY <1>1, <1>2, <1>3, <1>4, <1>5, <1>6, <1>7, <1>8, <1>9, <1>10, <1>11, <1>12, <1>13, <1>14
    DEF Next, ConnStep

-----------------------------------------------------------------------------
(* Processes.                                                               *)

\* An operation that ends leaves the processes to the next one.
LEMMA ProcsAlone ==
  ASSUME Types, Procs, NEW e \in Engines, Ended(e) \/ UNCHANGED phase, UNCHANGED <<proc, alive>>
  PROVE  Procs'
<1>1. \A f \in Engines : phase'[f] = "listen" => phase[f] = "listen"
  BY DEF Types, Ended
<1> QED BY <1>1 DEF Procs

\* The head of a chain starts a process only when the one before is gone.
LEMMA ChainProcs ==
  ASSUME Types, Procs, NEW e \in Engines, Chain(e)
  PROVE  Procs'
<1>1. CASE \E c \in Conns : EnsureSkipped(e, c) \/ EnsureReuses(e, c) \/ EnsureFails(e, c)
  BY <1>1, ProcsAlone DEF EnsureSkipped, EnsureReuses, EnsureFails
<1>2. CASE \E who \in Stops : StopSkipped(e, who) \/ StopEnds(e, who) \/ StopTimesOut(e, who)
  BY <1>2, ProcsAlone DEF StopSkipped, StopEnds, StopTimesOut
<1>3. CASE \E c \in Conns : EnsureRestarts(e, c)
  BY <1>3 DEF Types, Procs, EnsureRestarts, Kill
<1>4. CASE \E c \in Conns : Spawn(e, c)
  BY <1>4 DEF Types, Procs, Spawn, Gone
<1>5. CASE \E c \in Conns : Listening(e, c)
  BY <1>5 DEF Types, Procs, Listening, Ended
<1>6. CASE \E c \in Conns : ListenFails(e, c)
  BY <1>6 DEF Types, Procs, ListenFails
<1>7. CASE \E who \in Stops : StopBegins(e, who)
  BY <1>7 DEF Types, Procs, StopBegins, Kill
<1> QED BY <1>1, <1>2, <1>3, <1>4, <1>5, <1>6, <1>7 DEF Chain, EnsureOf, StopOf

LEMMA ProcsKept ==
  ASSUME Types, Procs, [Next]_vars
  PROVE  Procs'
<1>1. CASE UNCHANGED <<phase, proc, alive>>
  BY <1>1 DEF Procs
<1>2. ASSUME NEW c \in Conns, NEW k \in Keys, NEW e \in Engines, Make(c, k, e) PROVE Procs'
  BY <1>2 DEF Types, Procs, Make
<1>3. ASSUME NEW e \in Engines, Exit(e) PROVE Procs'
  BY <1>3 DEF Types, Procs, Exit
<1>4. ASSUME NEW e \in Engines, Chain(e) PROVE Procs'
  BY <1>4, ChainProcs
<1>5. ASSUME \/ \E c \in Conns : \E k \in Keys : Reuse(c, k)
             \/ \E c \in Conns : Ensure(c) \/ Refused(c) \/ Connected(c) \/ Closes(c)
             \/ \E e \in Engines : PortStep(e) \/ IdleTimer(e) \/ StopOne(e)
             \/ PoolStop \/ PoolStopped \/ UNCHANGED vars
      PROVE  UNCHANGED <<phase, proc, alive>>
  BY <1>5 DEF Reuse, Ensure, Refused, Connected, Closes, PortStep, PortSearch, IdleTimer, StopOne,
              PoolStop, PoolStopped, vars, engineVars
<1> QED BY <1>1, <1>2, <1>3, <1>4, <1>5 DEF Next, ConnStep

-----------------------------------------------------------------------------
(* Counting.                                                                *)

\* One who comes and one who goes.
LEMMA UserComes ==
  ASSUME Types, Counts, NEW c \in Conns, NEW e \in Engines, via[c] = None,
         via' = [via EXCEPT ![c] = e]
  PROVE  /\ \A f \in Engines : f # e => Users(f)' = Users(f)
         /\ Cardinality(Users(e)') = Cardinality(Users(e)) + 1
<1>1. \A d \in Conns : via'[d] = IF d = c THEN e ELSE via[d]
  BY DEF Types
<1>2. Users(e)' = Users(e) \cup {c} /\ c \notin Users(e)
  BY <1>1, PoolAssumption DEF Users, PoolAssumption
<1>3. \A f \in Engines : f # e => Users(f)' = Users(f)
  BY <1>1, PoolAssumption DEF Users, PoolAssumption
<1>4. IsFiniteSet(Users(e))
  BY PoolAssumption, FS_Subset DEF PoolAssumption, Users
<1> QED BY <1>2, <1>3, <1>4, FS_AddElement

LEMMA UserGoes ==
  ASSUME Types, NEW c \in Conns, NEW e \in Engines, via[c] = e, via' = [via EXCEPT ![c] = None]
  PROVE  /\ \A f \in Engines : f # e => Users(f)' = Users(f)
         /\ Users(e)' = Users(e) \ {c}
         /\ Cardinality(Users(e)') = Cardinality(Users(e)) - 1
<1>1. \A d \in Conns : via'[d] = IF d = c THEN None ELSE via[d]
  BY DEF Types
<1>2. Users(e)' = Users(e) \ {c}
  BY <1>1, PoolAssumption DEF Users, PoolAssumption
<1>3. \A f \in Engines : f # e => Users(f)' = Users(f)
  BY <1>1, PoolAssumption DEF Users, PoolAssumption
<1>4. IsFiniteSet(Users(e)) /\ c \in Users(e)
  BY PoolAssumption, FS_Subset DEF PoolAssumption, Users
<1>5. Cardinality(Users(e) \ {c}) = Cardinality(Users(e)) - 1
  BY <1>4, FS_RemoveElement
<1> QED BY <1>2, <1>3, <1>5

\* Whoever uses an engine keeps its idle timer off.
LEMMA UsedIsTimed ==
  ASSUME Types, Counts, NEW c \in Conns, NEW e \in Engines, via[c] = e
  PROVE  refs[e] # 0 /\ ~timer[e] /\ conn[c] # "idle"
<1>1. IsFiniteSet(Users(e)) /\ c \in Users(e)
  BY PoolAssumption, FS_Subset DEF PoolAssumption, Users
<1>2. Cardinality(Users(e)) # 0
  BY <1>1, FS_EmptySet
<1> QED BY <1>2, PoolAssumption DEF Counts, PoolAssumption

\* A step that neither brings nor takes a connection, nor sets a timer.
LEMMA CountsAlone ==
  ASSUME Counts, UNCHANGED <<refs, via>>, \A e \in Engines : timer'[e] => timer[e],
         \A c \in Conns : conn'[c] = "idle" <=> conn[c] = "idle"
  PROVE  Counts'
<1>1. \A e \in Engines : Users(e)' = Users(e)
  BY DEF Users
<1> QED BY <1>1 DEF Counts

\* release()
LEMMA ReleaseCounts ==
  ASSUME Types, Counts, NEW c \in Conns, conn[c] # "idle", Release(c)
  PROVE  Counts' /\ via[c] \in Engines
<1>1. via[c] \in Engines
  BY DEF Types, Counts
<1> DEFINE e == via[c]
<1>2. /\ refs' = [refs EXCEPT ![e] = refs[e] - 1]
      /\ conn' = [conn EXCEPT ![c] = "idle"] /\ via' = [via EXCEPT ![c] = None]
  BY DEF Release
<1>3. \A f \in Engines : refs'[f] = IF f = e THEN refs[f] - 1 ELSE refs[f]
  BY <1>1, <1>2 DEF Types
<1>4. \A f \in Engines : refs'[f] = Cardinality(Users(f)')
  <2>1. ASSUME NEW f \in Engines, f = e PROVE Cardinality(Users(f)') = Cardinality(Users(f)) - 1
    BY <1>1, <1>2, <2>1, UserGoes
  <2>2. ASSUME NEW f \in Engines, f # e PROVE Users(f)' = Users(f)
    BY <1>1, <1>2, <2>2, UserGoes
  <2> QED BY <1>3, <2>1, <2>2 DEF Counts
<1>5. \A d \in Conns : via'[d] = None <=> conn'[d] = "idle"
  <2>1. \A d \in Conns : /\ via'[d] = IF d = c THEN None ELSE via[d]
                         /\ conn'[d] = IF d = c THEN "idle" ELSE conn[d]
    BY <1>2 DEF Types
  <2> QED BY <2>1 DEF Counts
<1>6. \A f \in Engines : timer'[f] => refs'[f] = 0
  <2>1. ASSUME NEW f \in Engines, f # e, timer'[f] PROVE refs'[f] = 0
    <3>1. timer[f]
      BY <2>1 DEF Types, Release
    <3> QED BY <1>3, <2>1, <3>1 DEF Counts
  <2>2. ASSUME timer'[e] PROVE refs'[e] = 0
    <3>1. ~timer[e]
      BY <1>1, UsedIsTimed
    <3>2. refs[e] = 1
      BY <2>2, <3>1 DEF Release, LastOne
    <3> QED BY <1>1, <1>3, <3>2
  <2> QED BY <2>1, <2>2
<1> QED BY <1>1, <1>4, <1>5, <1>6 DEF Counts

\* The connection at the head of a chain awaits its answer.
LEMMA HeadWaits ==
  ASSUME Types, Waiting, NEW e \in Engines, NEW c \in Conns, chain[e] # <<>>, c = Head(chain[e])
  PROVE  /\ via[c] = e /\ conn[c] = "ensure"
         /\ 1 \in DOMAIN chain[e] /\ chain[e][1] = c
         /\ \A j \in DOMAIN chain[e] : chain[e][j] = c => j = 1
<1>1. chain[e] \in Seq(Ops)
  BY DEF Types
<1>2. 1 \in DOMAIN chain[e] /\ chain[e][1] = c
  BY <1>1
<1> QED BY <1>2 DEF Waiting

LEMMA AnswerCounts ==
  ASSUME Types, Counts, NEW c \in Conns, conn[c] = "ensure", NEW ok, Answer(c, ok)
  PROVE  Counts'
<1>1. CASE ok
  <2>1. \A d \in Conns : conn'[d] = IF d = c THEN "dial" ELSE conn[d]
    BY <1>1 DEF Types, Answer
  <2> QED BY <1>1, <2>1, CountsAlone DEF Answer
<1>2. CASE ~ok
  BY <1>2, ReleaseCounts DEF Answer
<1> QED BY <1>1, <1>2

\* The operations of the chains count only for the one they answer.
LEMMA ChainCounts ==
  ASSUME Types, Counts, Waiting, NEW e \in Engines, Chain(e)
  PROVE  Counts'
<1>1. ASSUME UNCHANGED <<refs, timer, conn, via>> PROVE Counts'
  BY <1>1, CountsAlone
<1>2. ASSUME NEW c \in Conns,
             EnsureSkipped(e, c) \/ EnsureReuses(e, c) \/ Listening(e, c) \/ EnsureFails(e, c)
      PROVE  Counts'
  <2>1. chain[e] # <<>> /\ c = Head(chain[e])
    BY <1>2 DEF EnsureSkipped, EnsureReuses, Listening, EnsureFails, Running
  <2>2. \E ok \in BOOLEAN : Answer(c, ok)
    BY <1>2 DEF EnsureSkipped, EnsureReuses, Listening, EnsureFails
  <2> QED BY <2>1, <2>2, HeadWaits, AnswerCounts
<1>3. ASSUME NEW c \in Conns, EnsureRestarts(e, c) \/ Spawn(e, c) \/ ListenFails(e, c) PROVE Counts'
  BY <1>1, <1>3 DEF EnsureRestarts, Spawn, ListenFails, poolVars, connVars
<1>4. ASSUME NEW who \in Stops, StopOf(e, who) PROVE Counts'
  BY <1>1, <1>4 DEF StopOf, StopSkipped, StopBegins, StopEnds, StopTimesOut, poolVars, connVars
<1> QED BY <1>2, <1>3, <1>4 DEF Chain, EnsureOf

\* connect() counts the connection before it awaits anything.
LEMMA ComesCounts ==
  ASSUME Types, Counts, NEW c \in Conns, conn[c] = "idle", NEW e \in Engines,
         refs' = [refs EXCEPT ![e] = refs[e] + 1], ~timer'[e],
         \A f \in Engines : timer'[f] => timer[f],
         conn' = [conn EXCEPT ![c] = "port"], via' = [via EXCEPT ![c] = e]
  PROVE  Counts'
<1>1. via[c] = None
  BY DEF Counts
<1>2. \A f \in Engines : refs'[f] = IF f = e THEN refs[f] + 1 ELSE refs[f]
  BY DEF Types
<1>3. \A f \in Engines : refs'[f] = Cardinality(Users(f)')
  <2>1. ASSUME NEW f \in Engines, f = e PROVE Cardinality(Users(f)') = Cardinality(Users(f)) + 1
    BY <1>1, <2>1, UserComes
  <2>2. ASSUME NEW f \in Engines, f # e PROVE Users(f)' = Users(f)
    BY <1>1, <2>2, UserComes
  <2> QED BY <1>2, <2>1, <2>2 DEF Counts
<1>4. \A d \in Conns : via'[d] = None <=> conn'[d] = "idle"
  <2>1. \A d \in Conns : /\ via'[d] = IF d = c THEN e ELSE via[d]
                         /\ conn'[d] = IF d = c THEN "port" ELSE conn[d]
    BY DEF Types
  <2> QED BY <2>1, PoolAssumption DEF Counts, PoolAssumption
<1>5. \A f \in Engines : timer'[f] => refs'[f] = 0
  BY <1>2 DEF Counts
<1> QED BY <1>3, <1>4, <1>5 DEF Counts

LEMMA CountsKept ==
  ASSUME Types, Counts, Waiting, [Next]_vars
  PROVE  Counts'
<1>1. CASE UNCHANGED vars
  BY <1>1, CountsAlone DEF vars, poolVars, connVars
<1>2. ASSUME NEW c \in Conns, NEW k \in Keys, Reuse(c, k) PROVE Counts'
  <2>1. entries[k] \in Engines /\ conn[c] = "idle"
    BY <1>2 DEF Types, Reuse
  <2>2. ~timer'[entries[k]] /\ \A f \in Engines : timer'[f] => timer[f]
    BY <1>2, <2>1 DEF Types, Reuse, ClearTimer
  <2> QED BY <1>2, <2>1, <2>2, ComesCounts DEF Reuse
<1>3. ASSUME NEW c \in Conns, NEW k \in Keys, NEW e \in Engines, Make(c, k, e) PROVE Counts'
  <2>1. refs[e] = 0 /\ ~timer[e] /\ UNCHANGED timer /\ conn[c] = "idle"
    BY <1>3 DEF Make, Free
  <2>2. refs' = [refs EXCEPT ![e] = refs[e] + 1]
    BY <1>3, <2>1 DEF Make
  <2> QED BY <1>3, <2>1, <2>2, ComesCounts DEF Make
<1>4. ASSUME NEW c \in Conns, Ensure(c) \/ Connected(c) PROVE Counts'
  <2>1. UNCHANGED <<refs, timer, via>>
    BY <1>4 DEF Ensure, Connected, poolVars
  <2>2. \A d \in Conns : conn'[d] = "idle" <=> conn[d] = "idle"
    BY <1>4 DEF Types, Ensure, Connected
  <2> QED BY <2>1, <2>2, CountsAlone
<1>5. ASSUME NEW c \in Conns, Refused(c) \/ Closes(c) PROVE Counts'
  BY <1>5, ReleaseCounts DEF Refused, Closes
<1>6. ASSUME NEW e \in Engines, PortStep(e) \/ StopOne(e) PROVE Counts'
  BY <1>6, CountsAlone DEF PortStep, PortSearch, StopOne, connVars
<1>7. ASSUME NEW e \in Engines, Chain(e) PROVE Counts'
  BY <1>7, ChainCounts
<1>8. ASSUME NEW e \in Engines, Exit(e) PROVE Counts'
  <2>1. UNCHANGED <<refs, timer, via>> /\ \A d \in Conns : conn'[d] = "idle" <=> conn[d] = "idle"
    BY <1>8 DEF Types, Exit, poolVars
  <2> QED BY <2>1, CountsAlone
<1>9. ASSUME NEW e \in Engines, IdleTimer(e) PROVE Counts'
  <2>1. UNCHANGED <<refs, conn, via>> /\ \A f \in Engines : timer'[f] => timer[f]
    BY <1>9 DEF Types, IdleTimer, connVars
  <2> QED BY <2>1, CountsAlone
<1>10. CASE PoolStop \/ PoolStopped
  <2>1. UNCHANGED <<refs, conn, via>> /\ \A f \in Engines : timer'[f] => timer[f]
    BY <1>10 DEF PoolStop, PoolStopped, connVars
  <2> QED BY <2>1, CountsAlone
<1> QED BY <1>1, <1>2, <1>3, <1>4, <1>5, <1>6, <1>7, <1>8, <1>9, <1>10 DEF Next, ConnStep

-----------------------------------------------------------------------------
(* The order of the chains.                                                 *)

Queue == {"port", "ensure"}

\* Nobody who awaits an engine is moved, and nobody comes to use one but by waiting
\* for it.
MovesOn ==
  /\ pool' = "open" => pool = "open"
  /\ \A d \in Conns : conn[d] = "ensure" => conn'[d] = "ensure" /\ via'[d] = via[d]
  /\ \A d \in Conns : via'[d] # None /\ conn'[d] \notin Queue => via'[d] = via[d] /\ conn[d] \notin Queue

\* The connections move, the chains do not.
LEMMA ConnsMove ==
  ASSUME Types, Waiting, Behind, MovesOn, UNCHANGED chain
  PROVE  Waiting' /\ Behind'
<1>1. Waiting'
  BY DEF Waiting, MovesOn
<1>2. ASSUME NEW e \in Engines, NEW d \in Users(e)', conn'[d] \notin Queue
      PROVE  d \in Users(e) /\ conn[d] \notin Queue
  BY <1>2, PoolAssumption DEF MovesOn, Users, PoolAssumption
<1>3. Behind'
  BY <1>2 DEF Behind, MovesOn, Queue
<1> QED BY <1>1, <1>3

\* What is left of a chain whose first operation has ended.
LEMMA EndedChain ==
  ASSUME Types, NEW e \in Engines, chain[e] # <<>>, Ended(e)
  PROVE  /\ \A f \in Engines : f # e => chain'[f] = chain[f]
         /\ \A i \in DOMAIN chain'[e] : i > 0 /\ i + 1 \in DOMAIN chain[e] /\ chain'[e][i] = chain[e][i + 1]
         /\ \A i, j \in DOMAIN chain'[e] : i \in Int /\ j \in Int
<1>1. chain[e] \in Seq(Ops)
  BY DEF Types
<1>2. chain'[e] = Tail(chain[e]) /\ \A f \in Engines : f # e => chain'[f] = chain[f]
  BY DEF Types, Ended
<1>3. Len(Tail(chain[e])) = Len(chain[e]) - 1 /\ DOMAIN chain[e] = 1 .. Len(chain[e])
  BY <1>1
<1>4. Tail(chain[e]) \in Seq(Ops)
  BY <1>1
<1>5. DOMAIN chain'[e] = 1 .. Len(chain[e]) - 1
  BY <1>2, <1>3, <1>4
<1>6. \A i \in 1 .. Len(chain[e]) - 1 : Tail(chain[e])[i] = chain[e][i + 1]
  BY <1>1
<1> QED BY <1>2, <1>3, <1>5, <1>6

\* An operation ends, and nobody in the rest of the chains is moved.
LEMMA EndedOrder ==
  ASSUME Types, Waiting, Behind, NEW e \in Engines, chain[e] # <<>>, Ended(e),
         UNCHANGED <<conn, via, pool>>
  PROVE  Waiting' /\ Behind'
<1>1. /\ \A f \in Engines : f # e => chain'[f] = chain[f]
      /\ \A i \in DOMAIN chain'[e] : i > 0 /\ i + 1 \in DOMAIN chain[e] /\ chain'[e][i] = chain[e][i + 1]
      /\ \A i, j \in DOMAIN chain'[e] : i \in Int /\ j \in Int
  BY EndedChain
<1>2. ASSUME NEW f \in Engines, NEW i \in DOMAIN chain'[f], chain'[f][i] \in Conns
      PROVE  /\ via'[chain'[f][i]] = f /\ conn'[chain'[f][i]] = "ensure"
             /\ \A j \in DOMAIN chain'[f] : chain'[f][j] = chain'[f][i] => i = j
  <2>1. CASE f # e
    BY <1>1, <1>2, <2>1 DEF Waiting
  <2>2. CASE f = e
    <3>1. i + 1 \in DOMAIN chain[e] /\ chain'[e][i] = chain[e][i + 1]
      BY <1>1, <1>2, <2>2
    <3>2. /\ via[chain[e][i + 1]] = e /\ conn[chain[e][i + 1]] = "ensure"
          /\ \A j \in DOMAIN chain[e] : chain[e][j] = chain[e][i + 1] => i + 1 = j
      BY <1>2, <2>2, <3>1 DEF Waiting
    <3>3. ASSUME NEW j \in DOMAIN chain'[e], chain'[e][j] = chain'[e][i] PROVE i = j
      <4>1. i + 1 = j + 1
        BY <1>1, <3>1, <3>2, <3>3
      <4> QED BY <1>1, <2>2, <4>1
    <3> QED BY <2>2, <3>1, <3>2, <3>3
  <2> QED BY <2>1, <2>2
<1>3. ASSUME pool = "open", NEW f \in Engines, NEW i \in DOMAIN chain'[f]
      PROVE  /\ chain'[f][i] # "pool"
             /\ chain'[f][i] = "timer" =>
                  /\ \A c \in Users(f)' : conn'[c] \in {"port", "ensure"}
                  /\ \A j \in DOMAIN chain'[f] : chain'[f][j] \in Conns => i < j
  <2>1. Users(f)' = Users(f)
    BY DEF Users
  <2>2. CASE f # e
    BY <1>1, <1>3, <2>1, <2>2 DEF Behind
  <2>3. CASE f = e
    <3>1. i + 1 \in DOMAIN chain[e] /\ chain'[e][i] = chain[e][i + 1]
      BY <1>1, <1>3, <2>3
    <3>2. /\ chain[e][i + 1] # "pool"
          /\ chain[e][i + 1] = "timer" =>
               /\ \A c \in Users(e) : conn[c] \in {"port", "ensure"}
               /\ \A j \in DOMAIN chain[e] : chain[e][j] \in Conns => i + 1 < j
      BY <1>3, <3>1 DEF Behind
    <3>3. ASSUME chain'[e][i] = "timer", NEW j \in DOMAIN chain'[e], chain'[e][j] \in Conns
          PROVE  i < j
      <4>1. i + 1 < j + 1
        BY <1>1, <3>1, <3>2, <3>3
      <4> QED BY <1>1, <2>3, <4>1
    <3> QED BY <2>1, <2>3, <3>1, <3>2, <3>3
  <2> QED BY <2>2, <2>3
<1>4. Waiting'
  BY <1>2 DEF Waiting
<1>5. Behind'
  BY <1>3 DEF Behind
<1> QED BY <1>4, <1>5

\* The connection at the head is answered: no stop waits in its chain, and it is in no
\* other place.
LEMMA AnsweredOrder ==
  ASSUME Types, Waiting, Behind, NEW e \in Engines, NEW c \in Conns, chain[e] # <<>>,
         c = Head(chain[e]), Ended(e), NEW ok, Answer(c, ok), UNCHANGED pool
  PROVE  Waiting' /\ Behind'
<1>1. /\ \A f \in Engines : f # e => chain'[f] = chain[f]
      /\ \A i \in DOMAIN chain'[e] : i > 0 /\ i + 1 \in DOMAIN chain[e] /\ chain'[e][i] = chain[e][i + 1]
      /\ \A i, j \in DOMAIN chain'[e] : i \in Int /\ j \in Int
  BY EndedChain
<1>2. /\ via[c] = e /\ conn[c] = "ensure" /\ 1 \in DOMAIN chain[e] /\ chain[e][1] = c
      /\ \A j \in DOMAIN chain[e] : chain[e][j] = c => j = 1
  BY HeadWaits
<1>3. /\ \A d \in Conns : d # c => conn'[d] = conn[d] /\ via'[d] = via[d]
      /\ via'[c] \in {e, None}
  BY <1>2 DEF Types, Answer, Release
<1>4. \A f \in Engines : f # None
  BY PoolAssumption DEF PoolAssumption
<1>5. ASSUME NEW f \in Engines, NEW i \in DOMAIN chain'[f], chain'[f][i] \in Conns
      PROVE  /\ via'[chain'[f][i]] = f /\ conn'[chain'[f][i]] = "ensure"
             /\ \A j \in DOMAIN chain'[f] : chain'[f][j] = chain'[f][i] => i = j
  <2>1. CASE f # e
    <3>1. chain'[f] = chain[f] /\ via[chain[f][i]] = f /\ chain[f][i] # c
      BY <1>1, <1>2, <1>5, <2>1 DEF Waiting
    <3> QED BY <1>3, <1>5, <3>1 DEF Waiting
  <2>2. CASE f = e
    <3>1. i > 0 /\ i + 1 \in DOMAIN chain[e] /\ chain'[e][i] = chain[e][i + 1]
      BY <1>1, <1>5, <2>2
    <3>2. /\ via[chain[e][i + 1]] = e /\ conn[chain[e][i + 1]] = "ensure"
          /\ \A j \in DOMAIN chain[e] : chain[e][j] = chain[e][i + 1] => i + 1 = j
      BY <1>5, <2>2, <3>1 DEF Waiting
    <3>3. chain[e][i + 1] # c
      <4>1. i + 1 # 1
        BY <1>1, <1>5, <2>2
      <4> QED BY <1>2, <3>1, <4>1
    <3>4. ASSUME NEW j \in DOMAIN chain'[e], chain'[e][j] = chain'[e][i] PROVE i = j
      <4>1. i + 1 = j + 1
        BY <1>1, <3>1, <3>2, <3>4
      <4> QED BY <1>1, <1>5, <2>2, <4>1
    <3> QED BY <1>3, <1>5, <2>2, <3>1, <3>2, <3>3, <3>4
  <2> QED BY <2>1, <2>2
<1>6. ASSUME pool = "open", NEW f \in Engines, NEW i \in DOMAIN chain'[f]
      PROVE  /\ chain'[f][i] # "pool"
             /\ chain'[f][i] = "timer" =>
                  /\ \A d \in Users(f)' : conn'[d] \in {"port", "ensure"}
                  /\ \A j \in DOMAIN chain'[f] : chain'[f][j] \in Conns => i < j
  <2>1. CASE f # e
    <3>1. Users(f)' \subseteq Users(f) /\ c \notin Users(f)'
      BY <1>2, <1>3, <1>4, <2>1 DEF Users
    <3>2. \A d \in Users(f)' : conn'[d] = conn[d]
      BY <1>3, <3>1 DEF Users
    <3> QED BY <1>1, <1>6, <2>1, <3>1, <3>2 DEF Behind
  <2>2. CASE f = e
    <3>1. i > 0 /\ i + 1 \in DOMAIN chain[e] /\ chain'[e][i] = chain[e][i + 1] /\ i \in Int
      BY <1>1, <1>6, <2>2
    <3>2. chain[e][i + 1] # "pool"
      BY <1>6, <3>1 DEF Behind
    <3>3. chain[e][i + 1] # "timer"
      <4>1. ~ (i + 1 < 1)
        BY <3>1
      <4> QED BY <1>2, <1>6, <3>1, <4>1 DEF Behind
    <3> QED BY <2>2, <3>1, <3>2, <3>3
  <2> QED BY <2>1, <2>2
<1>7. Waiting'
  BY <1>5 DEF Waiting
<1>8. Behind'
  BY <1>6 DEF Behind
<1> QED BY <1>7, <1>8

\* What a chain is whose last operation has come.
LEMMA LongerChain ==
  ASSUME Types, NEW e \in Engines, NEW op \in Ops, Enqueue(e, op)
  PROVE  /\ \A f \in Engines : f # e => chain'[f] = chain[f]
         /\ Len(chain[e]) + 1 \in DOMAIN chain'[e] /\ chain'[e][Len(chain[e]) + 1] = op
         /\ \A i \in DOMAIN chain'[e] :
              i = Len(chain[e]) + 1 \/ (i \in DOMAIN chain[e] /\ chain'[e][i] = chain[e][i])
         /\ \A i \in DOMAIN chain[e] : i < Len(chain[e]) + 1
<1>1. chain[e] \in Seq(Ops)
  BY DEF Types
<1>2. chain'[e] = Append(chain[e], op) /\ \A f \in Engines : f # e => chain'[f] = chain[f]
  BY DEF Types, Enqueue
<1>3. /\ Len(Append(chain[e], op)) = Len(chain[e]) + 1
      /\ \A i \in 1 .. Len(chain[e]) : Append(chain[e], op)[i] = chain[e][i]
      /\ Append(chain[e], op)[Len(chain[e]) + 1] = op
      /\ Append(chain[e], op) \in Seq(Ops) /\ Len(chain[e]) \in Nat
  BY <1>1
<1>4. DOMAIN chain'[e] = 1 .. Len(chain[e]) + 1 /\ DOMAIN chain[e] = 1 .. Len(chain[e])
  BY <1>1, <1>2, <1>3
<1> QED BY <1>2, <1>3, <1>4

\* A connection with a port comes to wait at the end.
LEMMA EnsureOrder ==
  ASSUME Types, Counts, Waiting, Behind, NEW c \in Conns, Ensure(c)
  PROVE  Waiting' /\ Behind'
<1> DEFINE e == via[c]
           last == Len(chain[e]) + 1
<1>1. e \in Engines /\ conn[c] = "port"
  BY DEF Ensure, Counts, Types
<1>2. /\ \A d \in Conns : conn'[d] = IF d = c THEN "ensure" ELSE conn[d]
      /\ UNCHANGED <<via, pool>>
  BY DEF Ensure, Types, poolVars
<1>3. /\ \A f \in Engines : f # e => chain'[f] = chain[f]
      /\ last \in DOMAIN chain'[e] /\ chain'[e][last] = c
      /\ \A i \in DOMAIN chain'[e] : i = last \/ (i \in DOMAIN chain[e] /\ chain'[e][i] = chain[e][i])
      /\ \A i \in DOMAIN chain[e] : i < last
  BY <1>1, LongerChain DEF Ensure, Ops
<1>4. \A f \in Engines : \A i \in DOMAIN chain[f] : chain[f][i] # c
  BY <1>1 DEF Waiting
<1>5. ASSUME NEW f \in Engines, NEW i \in DOMAIN chain'[f], chain'[f][i] \in Conns
      PROVE  /\ via'[chain'[f][i]] = f /\ conn'[chain'[f][i]] = "ensure"
             /\ \A j \in DOMAIN chain'[f] : chain'[f][j] = chain'[f][i] => i = j
  <2>1. CASE f # e
    BY <1>2, <1>3, <1>5, <2>1 DEF Waiting
  <2>2. CASE f = e /\ i = last
    BY <1>2, <1>3, <1>4, <1>5, <2>2
  <2>3. CASE f = e /\ i # last
    <3>1. i \in DOMAIN chain[e] /\ chain'[e][i] = chain[e][i]
      BY <1>3, <1>5, <2>3
    <3> QED BY <1>1, <1>2, <1>3, <1>4, <1>5, <2>3, <3>1 DEF Waiting
  <2> QED BY <2>1, <2>2, <2>3
<1>6. ASSUME pool = "open", NEW f \in Engines, NEW i \in DOMAIN chain'[f]
      PROVE  /\ chain'[f][i] # "pool"
             /\ chain'[f][i] = "timer" =>
                  /\ \A d \in Users(f)' : conn'[d] \in {"port", "ensure"}
                  /\ \A j \in DOMAIN chain'[f] : chain'[f][j] \in Conns => i < j
  <2>1. Users(f)' = Users(f)
    BY <1>2 DEF Users
  <2>2. \A d \in Users(f) : conn[d] \in {"port", "ensure"} => conn'[d] \in {"port", "ensure"}
    BY <1>2 DEF Users
  <2>3. CASE f # e
    BY <1>3, <1>6, <2>1, <2>2, <2>3 DEF Behind
  <2>4. CASE f = e /\ i = last
    <3>1. c # "pool" /\ c # "timer"
      BY PoolAssumption DEF PoolAssumption
    <3> QED BY <1>3, <2>4, <3>1
  <2>5. CASE f = e /\ i # last
    <3>1. i \in DOMAIN chain[e] /\ chain'[e][i] = chain[e][i]
      BY <1>3, <1>6, <2>5
    <3>2. /\ chain[e][i] # "pool"
          /\ chain[e][i] = "timer" =>
               /\ \A d \in Users(e) : conn[d] \in {"port", "ensure"}
               /\ \A j \in DOMAIN chain[e] : chain[e][j] \in Conns => i < j
      BY <1>1, <1>6, <3>1 DEF Behind
    <3>3. ASSUME chain'[e][i] = "timer", NEW j \in DOMAIN chain'[e], chain'[e][j] \in Conns
          PROVE  i < j
      BY <1>3, <3>1, <3>2, <3>3
    <3> QED BY <2>1, <2>2, <2>5, <3>1, <3>2, <3>3
  <2> QED BY <2>3, <2>4, <2>5
<1>7. Waiting'
  BY <1>5 DEF Waiting
<1>8. Behind'
  BY <1>2, <1>6 DEF Behind
<1> QED BY <1>7, <1>8

\* A stop comes to the end of a chain: an idle timer's when nobody uses the engine,
\* the pool's when it is no longer open.
LEMMA StopOrder ==
  ASSUME Types, Counts, Waiting, Behind, NEW e \in Engines, NEW who \in Stops, Enqueue(e, who),
         UNCHANGED <<conn, via, pool>>,
         who = "timer" => timer[e],
         who = "pool" => pool # "open"
  PROVE  Waiting' /\ Behind'
<1> DEFINE last == Len(chain[e]) + 1
<1>1. /\ \A f \in Engines : f # e => chain'[f] = chain[f]
      /\ last \in DOMAIN chain'[e] /\ chain'[e][last] = who
      /\ \A i \in DOMAIN chain'[e] : i = last \/ (i \in DOMAIN chain[e] /\ chain'[e][i] = chain[e][i])
      /\ \A i \in DOMAIN chain[e] : i < last
  BY LongerChain DEF Ops
<1>2. who \notin Conns /\ who \in {"timer", "pool"}
  BY PoolAssumption DEF PoolAssumption, Stops
<1>3. ASSUME NEW f \in Engines, NEW i \in DOMAIN chain'[f], chain'[f][i] \in Conns
      PROVE  /\ via'[chain'[f][i]] = f /\ conn'[chain'[f][i]] = "ensure"
             /\ \A j \in DOMAIN chain'[f] : chain'[f][j] = chain'[f][i] => i = j
  <2>1. CASE f # e
    BY <1>1, <1>3, <2>1 DEF Waiting
  <2>2. CASE f = e
    <3>1. i \in DOMAIN chain[e] /\ chain'[e][i] = chain[e][i]
      BY <1>1, <1>2, <1>3, <2>2
    <3> QED BY <1>1, <1>2, <1>3, <2>2, <3>1 DEF Waiting
  <2> QED BY <2>1, <2>2
<1>4. ASSUME pool = "open", NEW f \in Engines, NEW i \in DOMAIN chain'[f]
      PROVE  /\ chain'[f][i] # "pool"
             /\ chain'[f][i] = "timer" =>
                  /\ \A d \in Users(f)' : conn'[d] \in {"port", "ensure"}
                  /\ \A j \in DOMAIN chain'[f] : chain'[f][j] \in Conns => i < j
  <2>1. Users(f)' = Users(f)
    BY DEF Users
  <2>2. CASE f # e
    BY <1>1, <1>4, <2>1, <2>2 DEF Behind
  <2>3. CASE f = e
    <3>1. who = "timer" /\ timer[e]
      BY <1>2, <1>4
    <3>2. Users(e) = {}
      BY <3>1, UsedIsTimed DEF Users
    <3>3. \A j \in DOMAIN chain[e] : chain[e][j] \notin Conns
      BY <3>2 DEF Waiting, Users
    <3>4. \A j \in DOMAIN chain'[e] : chain'[e][j] \notin Conns
      BY <1>1, <1>2, <3>3
    <3>5. chain'[e][i] # "pool"
      BY <1>1, <1>4, <2>3, <3>1 DEF Behind
    <3> QED BY <2>1, <2>3, <3>2, <3>4, <3>5
  <2> QED BY <2>2, <2>3
<1>5. Waiting'
  BY <1>3 DEF Waiting
<1>6. Behind'
  BY <1>4 DEF Behind
<1> QED BY <1>5, <1>6

LEMMA ChainOrder ==
  ASSUME Types, Waiting, Behind, NEW e \in Engines, Chain(e)
  PROVE  Waiting' /\ Behind'
<1>1. ASSUME UNCHANGED <<chain, conn, via, pool>> PROVE Waiting' /\ Behind'
  BY <1>1, ConnsMove DEF MovesOn
<1>2. ASSUME NEW c \in Conns,
             EnsureSkipped(e, c) \/ EnsureReuses(e, c) \/ Listening(e, c) \/ EnsureFails(e, c)
      PROVE  Waiting' /\ Behind'
  <2>1. chain[e] # <<>> /\ c = Head(chain[e]) /\ Ended(e) /\ UNCHANGED pool
    BY <1>2 DEF EnsureSkipped, EnsureReuses, Listening, EnsureFails, Running
  <2>2. \E ok \in BOOLEAN : Answer(c, ok)
    BY <1>2 DEF EnsureSkipped, EnsureReuses, Listening, EnsureFails
  <2> QED BY <2>1, <2>2, AnsweredOrder
<1>3. ASSUME NEW c \in Conns, EnsureRestarts(e, c) \/ Spawn(e, c) \/ ListenFails(e, c)
      PROVE  Waiting' /\ Behind'
  BY <1>1, <1>3 DEF EnsureRestarts, Spawn, ListenFails, poolVars, connVars
<1>4. ASSUME NEW who \in Stops, StopSkipped(e, who) \/ StopEnds(e, who) \/ StopTimesOut(e, who)
      PROVE  Waiting' /\ Behind'
  BY <1>4, EndedOrder DEF StopSkipped, StopEnds, StopTimesOut, Running, connVars
<1>5. ASSUME NEW who \in Stops, StopBegins(e, who) PROVE Waiting' /\ Behind'
  BY <1>1, <1>5 DEF StopBegins, poolVars, connVars
<1> QED BY <1>2, <1>3, <1>4, <1>5 DEF Chain, EnsureOf, StopOf

LEMMA OrderKept ==
  ASSUME Types, Counts, Waiting, Behind, [Next]_vars
  PROVE  Waiting' /\ Behind'
<1>1. ASSUME UNCHANGED <<chain, conn, via>>, pool' = pool \/ pool' # "open" PROVE Waiting' /\ Behind'
  BY <1>1, ConnsMove DEF MovesOn
<1>2. ASSUME NEW c \in Conns, conn[c] = "idle", NEW e \in Engines, UNCHANGED <<chain, pool>>,
             conn' = [conn EXCEPT ![c] = "port"], via' = [via EXCEPT ![c] = e]
      PROVE  Waiting' /\ Behind'
  <2>1. \A d \in Conns : /\ via'[d] = IF d = c THEN e ELSE via[d]
                         /\ conn'[d] = IF d = c THEN "port" ELSE conn[d]
    BY <1>2 DEF Types
  <2>2. MovesOn
    BY <1>2, <2>1 DEF MovesOn, Queue
  <2> QED BY <1>2, <2>2, ConnsMove
<1>3. ASSUME NEW c \in Conns, conn[c] # "ensure", Release(c), UNCHANGED <<chain, pool>>
      PROVE  Waiting' /\ Behind'
  <2>1. \A d \in Conns : /\ via'[d] = IF d = c THEN None ELSE via[d]
                         /\ conn'[d] = IF d = c THEN "idle" ELSE conn[d]
    BY <1>3 DEF Types, Release
  <2>2. MovesOn
    BY <1>3, <2>1 DEF MovesOn, Queue
  <2> QED BY <1>3, <2>2, ConnsMove
<1>4. CASE UNCHANGED vars
  BY <1>1, <1>4 DEF vars, poolVars, engineVars, connVars
<1>5. ASSUME NEW c \in Conns, NEW k \in Keys, Reuse(c, k) PROVE Waiting' /\ Behind'
  <2>1. entries[k] \in Engines /\ conn[c] = "idle"
    BY <1>5 DEF Types, Reuse
  <2> QED BY <1>2, <1>5, <2>1 DEF Reuse, engineVars
<1>6. ASSUME NEW c \in Conns, NEW k \in Keys, NEW e \in Engines, Make(c, k, e)
      PROVE  Waiting' /\ Behind'
  BY <1>2, <1>6 DEF Make
<1>7. ASSUME NEW c \in Conns, Ensure(c) PROVE Waiting' /\ Behind'
  BY <1>7, EnsureOrder
<1>8. ASSUME NEW c \in Conns, Refused(c) \/ Closes(c) PROVE Waiting' /\ Behind'
  BY <1>3, <1>8 DEF Refused, Closes, engineVars
<1>9. ASSUME NEW c \in Conns, Connected(c) PROVE Waiting' /\ Behind'
  <2>1. MovesOn
    BY <1>9 DEF Types, Connected, MovesOn, Queue, poolVars
  <2> QED BY <1>9, <2>1, ConnsMove DEF Connected, engineVars
<1>10. ASSUME NEW e \in Engines, PortStep(e) PROVE Waiting' /\ Behind'
  BY <1>1, <1>10 DEF PortStep, PortSearch, engineVars, connVars
<1>11. ASSUME NEW e \in Engines, Chain(e) PROVE Waiting' /\ Behind'
  BY <1>11, ChainOrder
<1>12. ASSUME NEW e \in Engines, Exit(e) PROVE Waiting' /\ Behind'
  <2>1. MovesOn
    BY <1>12 DEF Types, Exit, MovesOn, Queue, poolVars
  <2> QED BY <1>12, <2>1, ConnsMove DEF Exit
<1>13. ASSUME NEW e \in Engines, IdleTimer(e) PROVE Waiting' /\ Behind'
  <2>1. timer[e] /\ UNCHANGED <<conn, via, pool>>
    BY <1>13 DEF IdleTimer, connVars
  <2>2. CASE port[e] = "found"
    BY <1>13, <2>1, <2>2, StopOrder DEF IdleTimer, Stops
  <2>3. CASE port[e] # "found"
    BY <1>1, <1>13, <2>1, <2>3 DEF IdleTimer
  <2> QED BY <2>2, <2>3
<1>14. ASSUME NEW e \in Engines, StopOne(e) PROVE Waiting' /\ Behind'
  <2>1. pool # "open" /\ UNCHANGED <<conn, via, pool>>
    BY <1>14 DEF StopOne, connVars
  <2>2. CASE port[e] = "found"
    BY <1>14, <2>1, <2>2, StopOrder DEF StopOne, Stops
  <2>3. CASE port[e] # "found"
    BY <1>1, <1>14, <2>1, <2>3 DEF StopOne
  <2> QED BY <2>2, <2>3
<1>15. CASE PoolStop \/ PoolStopped
  BY <1>1, <1>15 DEF PoolStop, PoolStopped, engineVars, connVars
<1> QED BY <1>4, <1>5, <1>6, <1>7, <1>8, <1>9, <1>10, <1>11, <1>12, <1>13, <1>14, <1>15
    DEF Next, ConnStep

-----------------------------------------------------------------------------
(* The theorems.                                                            *)

LEMMA InitHolds == Init => IInv
<1> SUFFICES ASSUME Init PROVE IInv
  OBVIOUS
<1>1. Types
  BY InitTypes
<1>2. Procs
  BY DEF Init, Procs
<1>3. Counts
  <2>1. \A e \in Engines : Users(e) = {}
    BY PoolAssumption DEF Init, Users, PoolAssumption
  <2> QED BY <2>1, FS_EmptySet DEF Init, Counts
<1>4. Waiting /\ Behind
  <2>1. \A e \in Engines : chain[e] = <<>>
    BY DEF Init
  <2>2. DOMAIN <<>> = {}
    OBVIOUS
  <2> QED BY <2>1, <2>2 DEF Waiting, Behind
<1> QED BY <1>1, <1>2, <1>3, <1>4 DEF IInv

LEMMA NextKeeps ==
  ASSUME IInv, [Next]_vars
  PROVE  IInv'
  BY TypesKept, ProcsKept, CountsKept, OrderKept DEF IInv

\* Types of every variable, the counts of connections and processes among them, for
\* any endpoints, engines and connections.
THEOREM TypeCorrect == Spec => []TypeOK
<1>1. IInv => TypeOK
  <2> SUFFICES ASSUME IInv PROVE TypeOK
    OBVIOUS
  <2>1. Types /\ Procs /\ Counts
    BY DEF IInv
  <2>2. refs \in [Engines -> Nat]
    <3>1. \A e \in Engines : IsFiniteSet(Users(e))
      BY PoolAssumption, FS_Subset DEF PoolAssumption, Users
    <3>2. \A e \in Engines : refs[e] \in Nat
      BY <2>1, <3>1, FS_CardinalityType DEF Counts
    <3> QED BY <2>1, <3>2 DEF Types
  <2>3. alive \in [Engines -> Nat]
    <3>1. \A e \in Engines : alive[e] \in Nat
      BY <2>1 DEF Procs
    <3> QED BY <2>1, <3>1 DEF Types
  <2>4. \A e \in Engines : \A i \in DOMAIN chain[e] : chain[e][i] \in Conns \cup Stops
    BY <2>1 DEF Types, Ops
  <2> QED BY <2>1, <2>2, <2>3, <2>4 DEF Types, TypeOK
<1> QED BY <1>1, InitHolds, NextKeeps, PTL DEF Spec

\* dp-supervisor.mjs:112-114: however ensures, stops, crashes and timeouts overlap, two
\* processes never run on one engine's SOCKS port.
THEOREM OneProcessPerPortHolds == Spec => []OneProcessPerPort
<1>1. IInv => OneProcessPerPort
  BY DEF IInv, Procs, OneProcessPerPort
<1> QED BY <1>1, InitHolds, NextKeeps, PTL DEF Spec

\* What kills a process that is up is an idle timer's stop, and nobody streams then.
LEMMA StreamsSurviveStep ==
  ASSUME IInv, [Next]_vars, NEW e \in Engines, pool = "open", proc[e] = "up", proc'[e] = "killed"
  PROVE  \A c \in Conns : via[c] = e => conn[c] \notin {"dial", "live"}
<1>1. Chain(e)
  <2>1. ~UNCHANGED proc
    OBVIOUS
  <2>2. \A f \in Engines : Chain(f) => f = e
    BY DEF Chain, EnsureOf, StopOf, EnsureSkipped, EnsureReuses, EnsureRestarts, Spawn, Listening,
           ListenFails, EnsureFails, StopSkipped, StopBegins, StopEnds, StopTimesOut, Kill, IInv, Types
  <2>3. \A f \in Engines : ~Exit(f)
    BY DEF Exit, IInv, Types
  <2> QED BY <2>1, <2>2, <2>3
      DEF Next, ConnStep, Reuse, Make, Ensure, Refused, Connected, Closes, PortStep, PortSearch,
          IdleTimer, StopOne, PoolStop, PoolStopped, vars, engineVars
<1>2. PICK who \in Stops : StopBegins(e, who)
  <2>1. ASSUME NEW c \in Conns, EnsureOf(e, c) PROVE FALSE
    BY <2>1 DEF EnsureOf, EnsureSkipped, EnsureReuses, EnsureRestarts, Spawn, Listening, ListenFails,
                EnsureFails, Running, Kill, IInv, Types, Procs
  <2>2. ASSUME NEW who \in Stops, StopOf(e, who) PROVE StopBegins(e, who)
    BY <2>2 DEF StopOf, StopSkipped, StopEnds, StopTimesOut
  <2> QED BY <1>1, <2>1, <2>2 DEF Chain
<1>3. 1 \in DOMAIN chain[e] /\ chain[e][1] = who
  <2>1. chain[e] \in Seq(Ops)
    BY DEF IInv, Types
  <2> QED BY <1>2, <2>1 DEF StopBegins, Running
<1>4. who = "timer"
  BY <1>2, <1>3 DEF IInv, Behind, Stops
<1> QED BY <1>3, <1>4 DEF IInv, Behind, Users

\* dp-supervisor.mjs:265 "Rotation never kills existing streams": while the pool is open
\* no process that carries a connection, or is asked for one, is killed.
THEOREM StreamsSurviveHolds == Spec => StreamsSurvive
<1>1. IInv /\ [Next]_vars =>
        [\A e \in Engines :
           (pool = "open" /\ proc[e] = "up" /\ proc'[e] = "killed")
             => \A c \in Conns : via[c] = e => conn[c] \notin {"dial", "live"}]_vars
  BY StreamsSurviveStep
<1> QED BY <1>1, InitHolds, NextKeeps, PTL DEF Spec, StreamsSurvive

-----------------------------------------------------------------------------
(* The desktop application (Desktop).                                       *)

\* The user's operations have tokens of their own.
Operations == [kind : {"on", "off", "change", "tick"}, token : Nat]

Turns ==
  /\ intent \in Nat /\ ops \in Seq(Operations)
  /\ \A i \in 1 .. Len(ops) : ops[i].token <= intent
  /\ \A i, j \in 1 .. Len(ops) : i # j /\ ops[i].kind # "tick" /\ ops[j].kind # "tick" => ops[i].token # ops[j].token
  /\ pc \in {"inspect", "refused"} => ops # <<>> /\ ops[1].kind = "on"

\* Where the user wants no tunnel, no operation to connect is the last intent's,
\* but for one that is giving up.
NotWanted ==
  /\ quitting => ~vpnOn
  /\ ~vpnOn => \A i \in 1 .. Len(ops) : ops[i].kind = "on" /\ ops[i].token = intent => i = 1 /\ pc = "giveup"

Off ==
  /\ disconnected => ~vpnOn /\ pc \in {"idle", "stop", "unguard"}
  /\ pc = "unguard" => engine = "none" /\ client = Nothing
  /\ DisconnectHolds

Probed == probe # Nothing => probe = [of |-> probe.of, stale |-> probe.stale]
NoneCounts == probe = Nothing \/ probe.stale

\* Nothing is measured while the engine is changed, and what is measured is what runs.
Measures ==
  /\ Probed
  /\ pending \/ applied = Nothing \/ engine # "ready" \/ quitting => NoneCounts
  /\ ~ NoneCounts => probe.of = "this"

Awaits ==
  /\ pc = "switch" => pending
  /\ pc \in {"stop", "drain", "replace", "ready"} => engine # "ready"
  /\ pc \in {"check", "guard", "replace", "ready"} => applied = Nothing

Healthy ==
  /\ pending => healthy = Nothing
  /\ healthy # Nothing /\ ~pending /\ engine = "ready" => healthy = "this"

Switches == vpnOn \in BOOLEAN /\ quitting \in BOOLEAN /\ pending \in BOOLEAN

AppInv == Switches /\ Turns /\ NotWanted /\ Off /\ Measures /\ Awaits /\ Healthy

\* The chain: an operation comes, goes on at another await, or ends.

LEMMA OneLess ==
  ASSUME NEW S, NEW s \in Seq(S), s # <<>>
  PROVE  /\ Tail(s) \in Seq(S) /\ Len(Tail(s)) = Len(s) - 1
         /\ \A i \in 1 .. Len(Tail(s)) : i + 1 \in 2 .. Len(s) /\ Tail(s)[i] = s[i + 1]
  OBVIOUS

LEMMA EndsInOrder ==
  ASSUME Turns, NotWanted, ops # <<>>, ops' = Tail(ops), pc' = "idle", UNCHANGED <<intent, quitting>>,
         vpnOn' = vpnOn
  PROVE  Turns' /\ NotWanted'
<1>1. /\ ops' \in Seq(Operations) /\ Len(ops') = Len(ops) - 1
      /\ \A i \in 1 .. Len(ops') : i + 1 \in 2 .. Len(ops) /\ ops'[i] = ops[i + 1]
  BY OneLess DEF Turns
<1>2. Turns'
  BY <1>1 DEF Turns
<1>3. NotWanted'
  BY <1>1 DEF Turns, NotWanted
<1> QED BY <1>2, <1>3

LEMMA GoesOn ==
  ASSUME Turns, NotWanted, ops' = ops, UNCHANGED <<intent, vpnOn, quitting>>, pc # "giveup" \/ pc' = "giveup",
         pc' \in {"inspect", "refused"} => ops # <<>> /\ ops[1].kind = "on"
  PROVE  Turns' /\ NotWanted'
  BY DEF Turns, NotWanted

LEMMA TickComes ==
  ASSUME Turns, NotWanted, ops' = Append(ops, [kind |-> "tick", token |-> intent]), UNCHANGED <<intent,
         vpnOn, quitting, pc>>
  PROVE  Turns' /\ NotWanted'
<1>1. ops \in Seq(Operations) /\ [kind |-> "tick", token |-> intent] \in Operations
  BY DEF Turns, Operations
<1>2. /\ ops' \in Seq(Operations) /\ Len(ops') = Len(ops) + 1 /\ ops' # <<>>
      /\ ops'[Len(ops) + 1] = [kind |-> "tick", token |-> intent]
      /\ \A i \in 1 .. Len(ops) : ops'[i] = ops[i]
  BY <1>1
<1>3. Turns'
  BY <1>2 DEF Turns
<1>4. NotWanted'
  BY <1>1, <1>2 DEF NotWanted
<1> QED BY <1>3, <1>4

LEMMA UserActs ==
  ASSUME Turns, NotWanted, Switches, NEW k \in {"on", "off", "change"}, AddOp(k), pc' = pc,
         quitting' = quitting, ~quitting,
         k # "off" => vpnOn'
  PROVE  Turns' /\ NotWanted'
<1>1. intent' = intent + 1 /\ intent' \in Nat /\ ops' = Append(ops, [kind |-> k, token |-> intent'])
  BY DEF Turns, AddOp
<1>2. ops \in Seq(Operations) /\ [kind |-> k, token |-> intent'] \in Operations
  BY <1>1 DEF Turns, Operations
<1>3. /\ ops' \in Seq(Operations) /\ Len(ops') = Len(ops) + 1 /\ ops' # <<>>
      /\ ops'[Len(ops) + 1] = [kind |-> k, token |-> intent']
      /\ \A i \in 1 .. Len(ops) : ops'[i] = ops[i]
  BY <1>1, <1>2
<1>4. \A i \in 1 .. Len(ops) : ops[i].token \in Nat /\ ops[i].token < intent'
  <2> SUFFICES ASSUME NEW i \in 1 .. Len(ops) PROVE ops[i].token \in Nat /\ ops[i].token < intent'
    OBVIOUS
  <2>1. ops[i] \in Operations /\ ops[i].token <= intent
    BY DEF Turns
  <2> QED BY <1>1, <2>1 DEF Turns, Operations
<1>5. Turns'
  <2>1. \A i \in 1 .. Len(ops') : ops'[i].token <= intent'
    BY <1>1, <1>3, <1>4
  <2>2. \A i, j \in 1 .. Len(ops') : i # j /\ ops'[i].kind # "tick" /\ ops'[j].kind # "tick" => ops'[i].token # ops'[j].token
    BY <1>1, <1>3, <1>4 DEF Turns
  <2>3. pc' \in {"inspect", "refused"} => ops' # <<>> /\ ops'[1].kind = "on"
    BY <1>2, <1>3 DEF Turns
  <2> QED BY <1>1, <1>3, <2>1, <2>2, <2>3 DEF Turns
<1>6. NotWanted'
  <2>1. \A i \in 1 .. Len(ops') : ops'[i].token = intent' => i = Len(ops) + 1
    BY <1>1, <1>3, <1>4
  <2>2. ~ vpnOn' => \A i \in 1 .. Len(ops') : ~ (ops'[i].kind = "on" /\ ops'[i].token = intent')
    BY <1>3, <2>1
  <2> QED BY <2>2 DEF NotWanted
<1> QED BY <1>5, <1>6

\* What an operation does to the chain: it goes on, or ends.
LEMMA ChainMoves ==
  ASSUME AppInv, UNCHANGED <<intent, vpnOn, quitting>>, ops # <<>>,
         \/ Done
         \/ /\ pc # "giveup" /\ ops' = ops
            /\ pc' \in {"inspect", "refused"} => ops[1].kind = "on"
  PROVE  Turns' /\ NotWanted'
  BY EndsInOrder, GoesOn DEF AppInv, Done

\* Operations that touch nothing but the chain and the time of the next attempt.
Elsewhere == UNCHANGED <<vpnOn, quitting, disconnected, client, engine, runs, guard, applied, pending,
                         probe, healthy>>

LEMMA ChainOnly ==
  ASSUME AppInv, Elsewhere, Turns', NotWanted',
         disconnected => pc' \in {"idle", "stop", "unguard"},
         pc' \notin {"unguard", "switch", "stop", "drain", "replace", "ready"},
         pc' \in {"check", "guard"} => applied = Nothing
  PROVE  AppInv'
  BY DEF AppInv, Elsewhere, Switches, Off, Measures, Probed, NoneCounts, Awaits, Healthy, DisconnectHolds

LEMMA StaleCounts ==
  ASSUME Probed, Stale
  PROVE  Probed' /\ NoneCounts'
  BY DEF Probed, NoneCounts, Stale

\* Another run leaves what is stale stale, and what is not measured so.
LEMMA RunsAnew ==
  ASSUME Probed, NoneCounts, NewRun \/ UNCHANGED health
  PROVE  Probed' /\ NoneCounts' /\ (healthy = Nothing => healthy' = Nothing)
  BY DEF Probed, NoneCounts, NewRun, health

\* The user's acts.
LEMMA ConnectKeeps ==
  ASSUME AppInv, Connect
  PROVE  AppInv'
<1>1. Turns' /\ NotWanted'
  BY UserActs DEF AppInv, Connect, Acts
<1> QED BY <1>1 DEF AppInv, Connect, Acts, processes, marks, health, Switches, Off,
                    Measures, Probed,
                    NoneCounts, Awaits, Healthy, DisconnectHolds

LEMMA DisconnectKeeps ==
  ASSUME AppInv, Disconnect
  PROVE  AppInv'
<1>1. Turns' /\ NotWanted'
  BY UserActs DEF AppInv, Disconnect, Acts
<1>2. Probed' /\ NoneCounts'
  BY StaleCounts DEF AppInv, Measures, Disconnect
<1> QED BY <1>1, <1>2 DEF AppInv, Disconnect, Acts, processes, marks, Switches, Off, Measures,
                    Awaits, Healthy, DisconnectHolds

LEMMA SaveConfigKeeps ==
  ASSUME AppInv, NEW c, SaveConfig(c)
  PROVE  AppInv'
<1>1. CASE Invalidate /\ vpnOn /\ pending' = TRUE /\ AddOp("change")
  <2>1. Turns' /\ NotWanted'
    BY <1>1, UserActs DEF AppInv, SaveConfig, Acts
  <2>2. Probed' /\ NoneCounts'
    BY <1>1, StaleCounts DEF AppInv, Measures, Invalidate
  <2> QED BY <1>1, <2>1, <2>2 DEF AppInv, SaveConfig, processes, Invalidate, Switches, Off,
                                  Measures,
                    Awaits, Healthy, DisconnectHolds
<1>2. CASE UNCHANGED <<probe, healthy, pending, cancelled, intent, ops>>
  <2>1. Turns' /\ NotWanted'
    BY <1>2, GoesOn DEF AppInv, SaveConfig, Turns
  <2> QED BY <1>2, <2>1 DEF AppInv, SaveConfig, processes, Switches, Off, Measures, Probed,
                            NoneCounts,
                    Awaits, Healthy, DisconnectHolds
<1> QED BY <1>1, <1>2 DEF SaveConfig, health

LEMMA QuitKeeps ==
  ASSUME AppInv, Quit
  PROVE  AppInv'
<1>1. Turns' /\ NotWanted'
  <2>1. intent' = intent + 1 /\ intent \in Nat /\ ~ vpnOn' /\ ops' = ops /\ pc' = pc
    BY DEF AppInv, Turns, Quit
  <2>2. ASSUME NEW i \in 1 .. Len(ops) PROVE ops[i].token <= intent' /\ ops[i].token # intent'
    <3>1. ops[i] \in Operations /\ ops[i].token <= intent
      BY DEF AppInv, Turns
    <3> QED BY <2>1, <3>1 DEF Operations
  <2>3. Turns'
    BY <2>1, <2>2 DEF AppInv, Turns
  <2> QED BY <2>1, <2>2, <2>3 DEF NotWanted
<1>2. Probed' /\ NoneCounts'
  BY StaleCounts DEF AppInv, Measures, Quit
<1> QED BY <1>1, <1>2 DEF AppInv, Quit, processes, marks, Switches, Off, Measures,
                    Awaits, Healthy, DisconnectHolds

\* The timers and what happens to the processes.
LEMMA TimersKeep ==
  ASSUME AppInv, Tick \/ Wake \/ RetryDue
  PROVE  AppInv'
<1>1. Elsewhere /\ UNCHANGED <<intent, pc>> /\ (ops' = ops \/ ops' = Append(ops, [kind |-> "tick",
                               token |-> intent]))
  BY DEF Tick, Wake, RetryDue, EnqueueTick, user, processes, marks, health,
         operations, Elsewhere
<1>2. Turns' /\ NotWanted'
  BY <1>1, TickComes, GoesOn DEF AppInv, Elsewhere, Turns
<1> QED BY <1>1, <1>2 DEF AppInv, Elsewhere, Switches, Off, Measures, Probed, NoneCounts, Awaits, Healthy,
                          DisconnectHolds

LEMMA WorldKeeps ==
  ASSUME AppInv, OffersArrive \/ OffersExpire \/ PeerLost \/ ClientExits \/ EngineExits
                 \/ PollEgress \/ PollAnswers \/ Shutdown
  PROVE  AppInv'
<1>1. UNCHANGED <<intent, ops, pc, vpnOn>> /\ (quitting' = quitting \/ quitting' = FALSE)
  BY DEF OffersArrive, OffersExpire, PeerLost, ClientExits, EngineExits,
         PollEgress, PollAnswers,
         Shutdown, user, operations
<1>2. Turns' /\ NotWanted' /\ Switches
  BY <1>1 DEF AppInv, Turns, NotWanted
<1>3. CASE OffersArrive \/ OffersExpire
  BY <1>2, <1>3 DEF AppInv, OffersArrive, OffersExpire, user, operations, marks, health,
                    Switches, Off, Measures, Probed, NoneCounts, Awaits, Healthy, DisconnectHolds
<1>4. CASE PeerLost \/ ClientExits
  BY <1>2, <1>4 DEF AppInv, PeerLost, ClientExits, user, operations, marks, health,
                    Switches, Off, Measures, Probed, NoneCounts, Awaits, Healthy, DisconnectHolds
<1>5. CASE EngineExits
  <2>1. Probed' /\ NoneCounts'
    BY <1>5, StaleCounts DEF AppInv, Measures, EngineExits, Invalidate
  <2> QED BY <1>2, <1>5, <2>1 DEF AppInv, EngineExits, Invalidate, user, operations,
                    Switches, Off, Measures, Awaits, Healthy, DisconnectHolds
<1>6. CASE PollEgress
  BY <1>2, <1>6 DEF AppInv, PollEgress, user, operations, processes, marks,
                    Switches, Off, Measures, Probed, NoneCounts, NotWanted, Awaits, Healthy, DisconnectHolds
<1>7. CASE PollAnswers
  BY <1>2, <1>7 DEF AppInv, PollAnswers, Outdated, user, operations, processes, marks,
                    Switches, Off, Measures, Probed, NoneCounts, Awaits, Healthy, DisconnectHolds
<1>8. CASE Shutdown
  BY <1>2, <1>8 DEF AppInv, Shutdown, StopChild, operations, marks, health,
                    Switches, Off, Measures, Probed, NoneCounts, Awaits, Healthy, DisconnectHolds
<1> QED BY <1>3, <1>4, <1>5, <1>6, <1>7, <1>8

\* The running operation, await by await.
LEMMA BeginKeeps ==
  ASSUME AppInv, Begin
  PROVE  AppInv'
<1>1. /\ pc = "idle" /\ ops # <<>> /\ UNCHANGED <<intent, vpnOn, quitting, disconnected, client, runs,
                                                  guard, applied, pending, healthy>>
      /\ ops[1] \in Operations
  BY DEF AppInv, Turns, Begin, At, user, marks
<1>2. CASE pc' = "stop" /\ ops' = ops /\ Stale /\ Unready
  <2>1. Turns' /\ NotWanted'
    BY <1>1, <1>2, ChainMoves
  <2>2. Probed' /\ NoneCounts'
    BY <1>2, StaleCounts DEF AppInv, Measures
  <2> QED BY <1>1, <1>2, <2>1, <2>2 DEF AppInv, Unready, Switches, Off, Measures, Awaits, Healthy,
                                        DisconnectHolds
<1>3. CASE /\ UNCHANGED <<probe, engine>>
           /\ \/ Done
              \/ ops' = ops /\ pc' = "client" /\ ops[1].kind = "on" /\ ops[1].token = intent
              \/ ops' = ops /\ pc' \in {"client", "restop"} /\ vpnOn
  <2>1. Turns' /\ NotWanted'
    BY <1>1, <1>3, ChainMoves
  <2>2. 1 \in 1 .. Len(ops)
    BY <1>1 DEF AppInv, Turns
  <2>3. ops[1].kind = "on" /\ ops[1].token = intent => vpnOn
    BY <1>1, <2>2 DEF AppInv, NotWanted
  <2>4. disconnected' => pc' = "idle"
    BY <1>1, <1>3, <2>3 DEF AppInv, Off, Done
  <2>5. pc' \in {"idle", "client", "restop"}
    BY <1>3 DEF Done
  <2> QED BY <1>1, <1>3, <2>1, <2>4, <2>5, ChainOnly DEF Elsewhere
<1> QED BY <1>1, <1>2, <1>3 DEF Begin, Goto, Current, OpIsWanted, Operations

LEMMA StartClientKeeps ==
  ASSUME AppInv, StartClient
  PROVE  AppInv'
<1>1. /\ pc \in {"client", "restart"} /\ ops # <<>>
      /\ UNCHANGED <<intent, vpnOn, quitting, disconnected, engine, runs, guard, applied, pending, probe,
                     healthy>>
  BY DEF StartClient, StartsClient, At, Settled, user, processes, health
<1>2. Done \/ (ops' = ops /\ pc' \in {"inspect", "apply", "refused"} /\ (pc' # "apply" => ops[1].kind = "on"))
  BY DEF StartClient, Goto, Throws
<1>3. Turns' /\ NotWanted'
  BY <1>1, <1>2, ChainMoves
<1>4. ~ disconnected /\ pc' \in {"idle", "inspect", "apply", "refused"}
  BY <1>1, <1>2 DEF AppInv, Off, Done
<1> QED BY <1>1, <1>3, <1>4
        DEF AppInv, Switches, Off, Measures, Probed, NoneCounts, Awaits, Healthy, DisconnectHolds

LEMMA InspectKeeps ==
  ASSUME AppInv, Inspect
  PROVE  AppInv'
<1>1. /\ pc \in {"inspect", "refused"} /\ ops # <<>>
      /\ UNCHANGED <<intent, quitting, disconnected, client, engine, runs, guard, applied, pending, probe,
                     healthy>>
  BY DEF Inspect, At, user, processes, health
<1>2. ~ disconnected
  BY <1>1 DEF AppInv, Off
<1>3. CASE vpnOn' = vpnOn /\ (Done \/ (ops' = ops /\ pc' = "apply"))
  <2>1. Turns' /\ NotWanted'
    BY <1>1, <1>3, ChainMoves
  <2>2. pc' \in {"idle", "apply"}
    BY <1>3 DEF Done
  <2> QED BY <1>1, <1>2, <1>3, <2>1, <2>2, ChainOnly DEF Elsewhere
<1>4. CASE vpnOn' = FALSE /\ ops' = ops /\ pc' = "giveup" /\ Current
  <2>1. Turns' /\ ops[1].kind = "on" /\ 1 \in 1 .. Len(ops)
    BY <1>1, <1>4 DEF AppInv, Turns
  <2>2. \A i \in 1 .. Len(ops) : ops[i].kind = "on" /\ ops[i].token = intent => i = 1
    BY <1>4, <2>1 DEF AppInv, Turns, Current
  <2>3. NotWanted'
    BY <1>1, <1>4, <2>2 DEF NotWanted
  <2> QED BY <1>1, <1>2, <1>4, <2>1, <2>3
          DEF AppInv, Switches, Off, Measures, Probed, NoneCounts, Awaits, Healthy, DisconnectHolds
<1> QED BY <1>3, <1>4 DEF Inspect, Goto, user

LEMMA StopClientKeeps ==
  ASSUME AppInv, StopClient
  PROVE  AppInv'
<1>1. /\ pc \in {"giveup", "restop"} /\ ops # <<>>
      /\ UNCHANGED <<intent, vpnOn, quitting, disconnected, engine, runs, guard, applied, pending, probe,
                     healthy>>
  BY DEF StopClient, StopsClient, At, Settled, user, processes, health
<1>2. Done \/ (pc = "restop" /\ ops' = ops /\ pc' = "restart")
  BY <1>1 DEF StopClient, Goto, Throws
<1>3. Turns' /\ NotWanted'
  BY <1>1, <1>2, ChainMoves
<1>4. ~ disconnected /\ pc' \in {"idle", "restart"}
  BY <1>1, <1>2 DEF AppInv, Off, Done
<1> QED BY <1>1, <1>3, <1>4
        DEF AppInv, Switches, Off, Measures, Probed, NoneCounts, Awaits, Healthy, DisconnectHolds

\* A disconnect that is carried out.
LEMMA StopProcessesKeeps ==
  ASSUME AppInv, StopProcesses
  PROVE  AppInv'
<1>1. /\ pc = "stop" /\ ops # <<>>
      /\ UNCHANGED <<intent, vpnOn, quitting, disconnected, runs, guard, applied, pending, probe, healthy>>
  BY DEF StopProcesses, At, Settled, user, health
<1>2. \/ engine' = "none" /\ client' = Nothing /\ ops' = ops /\ pc' = "unguard"
      \/ engine' \in {engine, "none"} /\ client' \in {client, Nothing} /\ Done
  BY DEF StopProcesses, Goto, Throws, StopChild
<1>3. Turns' /\ NotWanted'
  BY <1>1, <1>2, ChainMoves
<1>4. engine # "ready" /\ pc' \in {"idle", "unguard"}
  BY <1>1, <1>2 DEF AppInv, Awaits, Done
<1> QED BY <1>1, <1>2, <1>3, <1>4
        DEF AppInv, Switches, Off, Measures, Probed, NoneCounts, Awaits, Healthy, DisconnectHolds,
            Done

LEMMA UnguardKeeps ==
  ASSUME AppInv, Unguard
  PROVE  AppInv'
<1>1. /\ pc = "unguard" /\ ops # <<>> /\ Done /\ pc' = "idle"
      /\ UNCHANGED <<intent, vpnOn, quitting, client, engine, runs, probe>>
  BY DEF Unguard, Throws, Done, At
<1>2. Turns' /\ NotWanted'
  BY <1>1, ChainMoves
<1>3. engine = "none" /\ client = Nothing
  BY <1>1 DEF AppInv, Off
<1>4. CASE UNCHANGED <<guard, healthy, applied, pending, disconnected>>
  BY <1>1, <1>2, <1>4, ChainOnly DEF Elsewhere
<1>5. CASE /\ guard' = FALSE /\ healthy' = Nothing /\ applied' = Nothing /\ pending' = FALSE
           /\ disconnected' = (~ vpnOn /\ ~ quitting)
  BY <1>1, <1>2, <1>3, <1>5
     DEF AppInv, Switches, Off, Measures, Probed, NoneCounts, Awaits, Healthy, DisconnectHolds
<1> QED BY <1>4, <1>5 DEF Unguard

\* applyVpn.
LEMMA ApplyKeeps ==
  ASSUME AppInv, Apply
  PROVE  AppInv'
<1>1. /\ pc = "apply" /\ ops # <<>>
      /\ UNCHANGED <<intent, vpnOn, quitting, disconnected, client, runs, guard>>
  BY DEF Apply, At, user
<1>2. ~ disconnected
  BY <1>1 DEF AppInv, Off
<1>3. CASE Done /\ UNCHANGED <<engine, applied, pending,
                                   probe>> /\ (healthy' = healthy \/ healthy' = Nothing)
  <2>1. Turns' /\ NotWanted' /\ pc' = "idle"
    BY <1>1, <1>3, ChainMoves DEF Done
  <2> QED BY <1>1, <1>2, <1>3, <2>1
          DEF AppInv, Switches, Off, Measures, Probed, NoneCounts, Awaits, Healthy, DisconnectHolds
<1>4. CASE Goto("drain") /\ Stale /\ Unready /\ UNCHANGED <<applied, pending, healthy>>
  <2>1. Turns' /\ NotWanted' /\ pc' = "drain"
    BY <1>1, <1>4, ChainMoves DEF Goto
  <2>2. Probed' /\ NoneCounts'
    BY <1>4, StaleCounts DEF AppInv, Measures
  <2> QED BY <1>1, <1>2, <1>4, <2>1, <2>2
          DEF AppInv, Unready, Switches, Off, Measures, Awaits, Healthy, DisconnectHolds
<1>5. CASE /\ Invalidate /\ engine' = engine
           /\ \/ pending' = TRUE /\ Goto("switch") /\ applied' = applied
              \/ pending' = FALSE /\ applied' = Nothing /\ Goto("check")
  <2>1. Turns' /\ NotWanted' /\ (pc' = "switch" \/ pc' = "check")
    BY <1>1, <1>5, ChainMoves DEF Goto
  <2>2. Probed' /\ NoneCounts'
    BY <1>5, StaleCounts DEF AppInv, Measures, Invalidate
  <2> QED BY <1>1, <1>2, <1>5, <2>1, <2>2
          DEF AppInv, Goto, Invalidate, Switches, Off, Measures, Awaits, Healthy, DisconnectHolds
<1> QED BY <1>3, <1>4, <1>5 DEF Apply, Applied, health

LEMMA DrainKeeps ==
  ASSUME AppInv, Drain
  PROVE  AppInv'
<1>1. /\ pc = "drain" /\ ops # <<>> /\ Done /\ pc' = "idle"
      /\ UNCHANGED <<intent, vpnOn, quitting, disconnected, client, runs, guard, probe, applied, pending>>
      /\ UNCHANGED <<engine, healthy>> \/ (engine' = "none" /\ healthy' = Nothing)
  BY DEF Drain, At, Applied, Throws, Done, Settled, user
<1>2. Turns' /\ NotWanted'
  BY <1>1, ChainMoves
<1> QED BY <1>1, <1>2 DEF AppInv, Switches, Off, Measures, Probed, NoneCounts, Awaits, Healthy,
                          DisconnectHolds

\* What runs changes only while nothing is measured.
LEMMA SwitchKeeps ==
  ASSUME AppInv, Switch
  PROVE  AppInv'
<1>1. /\ pc = "switch" /\ ops # <<>> /\ Done /\ pc' = "idle"
      /\ UNCHANGED <<intent, vpnOn, quitting, disconnected, client, engine, guard>>
      /\ pending' = pending \/ pending' = FALSE
      /\ NewRun \/ UNCHANGED health
  BY DEF Switch, SwitchMode, At, Done, Settled, user, health
<1>2. Turns' /\ NotWanted'
  BY <1>1, ChainMoves
<1>3. ~ disconnected /\ pending /\ NoneCounts /\ healthy = Nothing
  BY <1>1 DEF AppInv, Off, Awaits, Measures, Healthy
<1>4. Probed' /\ NoneCounts' /\ healthy' = Nothing
  BY <1>1, <1>3, RunsAnew DEF AppInv, Measures
<1> QED BY <1>1, <1>2, <1>3, <1>4 DEF AppInv, Switches, Off, Measures, Probed, NoneCounts, Awaits, Healthy,
                                DisconnectHolds

LEMMA CheckKeeps ==
  ASSUME AppInv, Check
  PROVE  AppInv'
<1>1. pc = "check" /\ ops # <<>> /\ (Done \/ (ops' = ops /\ pc' = "guard"))
  BY DEF Check, At, Applied, Throws, Goto
<1>2. intent' = intent /\ Elsewhere
  BY DEF Check, Settled, user, processes, health, Elsewhere
<1>3. Turns' /\ NotWanted'
  BY <1>1, <1>2, ChainMoves DEF Elsewhere
<1>4. ~ disconnected /\ applied = Nothing /\ pc' \in {"idle", "guard"}
  BY <1>1 DEF AppInv, Off, Awaits, Done
<1> QED BY <1>2, <1>3, <1>4, ChainOnly DEF Elsewhere

LEMMA GuardKeeps ==
  ASSUME AppInv, Guard
  PROVE  AppInv'
<1>1. /\ pc = "guard" /\ ops # <<>>
      /\ UNCHANGED <<intent, vpnOn, quitting, disconnected, client, runs, applied, pending, probe, healthy>>
      /\ \/ Done /\ engine' = engine
         \/ ops' = ops /\ pc' = "replace" /\ Unready
  BY DEF Guard, At, Applied, Throws, Goto, Settled, user, health
<1>2. Turns' /\ NotWanted'
  BY <1>1, ChainMoves
<1>3. ~ disconnected /\ applied = Nothing /\ NoneCounts /\ (pc' = "idle" \/ pc' = "replace")
  BY <1>1 DEF AppInv, Off, Awaits, Measures, Done
<1> QED BY <1>1, <1>2, <1>3
        DEF AppInv, Unready, Switches, Off, Measures, Probed, NoneCounts, Awaits, Healthy,
            DisconnectHolds, Done

LEMMA ReplaceKeeps ==
  ASSUME AppInv, Replace
  PROVE  AppInv'
<1>1. /\ pc = "replace" /\ ops # <<>>
      /\ UNCHANGED <<intent, vpnOn, quitting, disconnected, client, guard, applied, pending>>
      /\ NewRun \/ UNCHANGED health
      /\ \/ Done /\ engine' \in {engine, "none"}
         \/ ops' = ops /\ pc' = "ready" /\ engine' = "up"
  BY DEF Replace, At, Applied, Throws, Goto, Settled, user, health
<1>2. Turns' /\ NotWanted'
  BY <1>1, ChainMoves
<1>3. ~ disconnected /\ applied = Nothing /\ NoneCounts /\ engine # "ready" /\ (pc' = "idle" \/ pc' = "ready")
  BY <1>1 DEF AppInv, Off, Awaits, Measures, Done
<1>4. Probed' /\ NoneCounts' /\ (healthy = Nothing => healthy' = Nothing)
  BY <1>1, <1>3, RunsAnew DEF AppInv, Measures
<1> QED BY <1>1, <1>2, <1>3, <1>4
        DEF AppInv, Switches, Off, Measures, Probed, NoneCounts, Awaits, Healthy, DisconnectHolds

LEMMA AwaitReadyKeeps ==
  ASSUME AppInv, AwaitReady
  PROVE  AppInv'
<1>1. /\ pc = "ready" /\ ops # <<>> /\ Done /\ pc' = "idle"
      /\ UNCHANGED <<intent, vpnOn, quitting, disconnected, client, runs, guard, pending, probe>>
      /\ \/ engine' = "ready" /\ healthy' = Nothing
         \/ engine' \in {engine, "none"} /\ UNCHANGED <<healthy, applied>>
  BY DEF AwaitReady, Started, At, Applied, Throws, Done, Settled, user,
         health
<1>2. Turns' /\ NotWanted'
  BY <1>1, ChainMoves
<1>3. ~ disconnected /\ NoneCounts /\ engine # "ready"
  BY <1>1 DEF AppInv, Off, Awaits, Measures
<1> QED BY <1>1, <1>2, <1>3
        DEF AppInv, Switches, Off, Measures, Probed, NoneCounts, Awaits, Healthy, DisconnectHolds

LEMMA AppStarts ==
  InitDesktop => AppInv
<1> SUFFICES ASSUME InitDesktop PROVE AppInv
  OBVIOUS
<1>1. ops = <<>> /\ ops \in Seq(Operations) /\ Len(ops) = 0 /\ intent = 0 /\ pc = "idle"
  BY DEF InitDesktop
<1>2. Turns /\ NotWanted
  BY <1>1 DEF InitDesktop, Turns, NotWanted
<1> QED BY <1>1, <1>2 DEF InitDesktop, AppInv, Switches, Off, Measures, Probed, NoneCounts, Awaits, Healthy,
                          DisconnectHolds

LEMMA AppSteps ==
  AppInv /\ [NextDesktop]_desktopVars => AppInv'
<1> SUFFICES ASSUME AppInv, [NextDesktop]_desktopVars PROVE AppInv'
  OBVIOUS
<1>1. CASE UNCHANGED desktopVars
  <2>1. UNCHANGED <<vpnOn, intent, quitting, disconnected, ops, pc, client, engine, runs, guard, applied,
                    pending, probe, healthy>>
    BY <1>1 DEF desktopVars, user, operations, processes, marks, health
  <2> QED BY <2>1 DEF AppInv, Switches, Turns, NotWanted, Off, Measures, Probed, NoneCounts, Awaits,
                      Healthy, DisconnectHolds
<1>2. CASE Connect \/ Disconnect \/ Quit \/ \E c \in Settings : SaveConfig(c)
  BY <1>2, ConnectKeeps, DisconnectKeeps, QuitKeeps, SaveConfigKeeps
<1>3. CASE \/ Tick \/ Wake \/ RetryDue \/ OffersArrive \/ OffersExpire \/ PeerLost \/ ClientExits
           \/ EngineExits \/ PollEgress \/ PollAnswers \/ Shutdown
  BY <1>3, TimersKeep, WorldKeeps
<1>4. CASE Operation
  <2>1. CASE Dropped
    <3>1. Elsewhere /\ intent' = intent /\ ops # <<>> /\ Done /\ pc' = "idle"
      BY <2>1 DEF Dropped, At, Done, Settled, Quietly, user, processes,
                  marks, health, Elsewhere
    <3>2. Turns' /\ NotWanted'
      BY <3>1, ChainMoves DEF Elsewhere
    <3> QED BY <3>1, <3>2, ChainOnly
  <2> QED BY <1>4, <2>1, BeginKeeps, StartClientKeeps, InspectKeeps, StopClientKeeps, StopProcessesKeeps, UnguardKeeps,
             ApplyKeeps, DrainKeeps, SwitchKeeps, CheckKeeps, GuardKeeps, ReplaceKeeps, AwaitReadyKeeps DEF Operation
<1> QED BY <1>1, <1>2, <1>3, <1>4 DEF NextDesktop

\* main.js:763: however long a probe took and whatever the user, the offers and the
\* engine did meanwhile, the connection is called healthy only by a measurement of
\* what the engine runs now.
THEOREM HealthIsCurrentHolds == SpecDesktop => []HealthIsCurrent
<1>1. AppInv => HealthIsCurrent
  BY DEF AppInv, Healthy, HealthIsCurrent, Phase
<1> QED BY <1>1, AppStarts, AppSteps, PTL DEF SpecDesktop

\* main.js:616: after a disconnect that was carried out no queued operation, late
\* offer, timer or half-done start brings a process or a rule back, until the user
\* connects.
THEOREM DisconnectStays == SpecDesktop => []DisconnectHolds
<1>1. AppInv => DisconnectHolds
  BY DEF AppInv, Off
<1> QED BY <1>1, AppStarts, AppSteps, PTL DEF SpecDesktop

\* The timer has one tick in the chain, and each of the others is an act of the user.
IsTick(i) == ops[i].kind = "tick"
OneTick ==
  /\ acts \in Nat
  /\ Len(ops) + acts <= MaxActs + (IF tickBusy THEN 1 ELSE 0)
  /\ \A i, j \in 1 .. Len(ops) : IsTick(i) /\ IsTick(j) => i = j
  /\ \A i \in 1 .. Len(ops) : IsTick(i) => tickBusy

Maybe == Settings \cup {Nothing}
MarkTypes ==
  /\ saved \in Maybe /\ target \in Maybe /\ runs \in Maybe /\ lastSig \in Maybe /\ applied \in Maybe
  /\ engine \in {"none", "up", "ready"} /\ client \in {Nothing, "servers", "public", "peers"}

FlagTypes ==
  /\ gone \in BOOLEAN /\ cancelled \in BOOLEAN /\ offers \in BOOLEAN /\ guard \in BOOLEAN /\ retry \in BOOLEAN
  /\ wake \in BOOLEAN /\ tickBusy \in BOOLEAN /\ tickAgain \in BOOLEAN /\ disconnected \in BOOLEAN
  /\ vpnOn \in BOOLEAN /\ quitting \in BOOLEAN /\ pending \in BOOLEAN

\* What a step does to the chain and the ticks.
ChainRests == UNCHANGED <<ops, tickBusy>> /\ (acts' = acts \/ (acts > 0 /\ acts' = acts - 1))
ActComes ==
  /\ acts > 0 /\ acts' = acts - 1 /\ tickBusy' = tickBusy
  /\ \E k \in {"on", "off", "change"} : ops' = Append(ops, [kind |-> k, token |-> intent'])
TimerComes == ~ tickBusy /\ EnqueueTick /\ acts' = acts
OneEnds == ops # <<>> /\ Done /\ acts' = acts

ChainStep == ChainRests \/ ActComes \/ TimerComes \/ OneEnds

LEMMA ChainSteps ==
  ASSUME AppInv, [NextDesktop]_desktopVars
  PROVE  ChainStep
<1>1. CASE UNCHANGED desktopVars
  BY <1>1 DEF desktopVars, user, operations, ticks, ChainStep, ChainRests
<1>2. CASE Connect \/ Disconnect \/ Quit \/ \E c \in Settings : SaveConfig(c)
  <2>1. /\ acts > 0 /\ acts' = acts - 1 /\ tickBusy' = tickBusy
        /\ ops' = ops \/ \E k \in {"on", "off", "change"} : AddOp(k)
    BY <1>2 DEF Connect, Disconnect, Quit, SaveConfig, Acts, ticks
  <2> QED BY <2>1 DEF AddOp, ChainStep, ChainRests, ActComes
<1>3. CASE \/ Tick \/ Wake \/ RetryDue \/ OffersArrive \/ OffersExpire \/ PeerLost \/ ClientExits
           \/ EngineExits \/ PollEgress \/ PollAnswers \/ Shutdown
  <2>1. CASE Tick \/ Wake
    <3>1. acts' = acts /\ (UNCHANGED <<ops, tickBusy>> \/ (~ tickBusy /\ EnqueueTick))
      BY <2>1 DEF Tick, Wake, user
    <3> QED BY <3>1 DEF ChainStep, ChainRests, TimerComes
  <2>2. CASE RetryDue \/ OffersArrive \/ OffersExpire \/ PeerLost \/ ClientExits
    BY <2>2 DEF RetryDue, OffersArrive, OffersExpire, PeerLost, ClientExits, user, operations, ticks,
                ChainStep, ChainRests
  <2>3. CASE EngineExits \/ PollEgress \/ PollAnswers \/ Shutdown
    BY <2>3 DEF EngineExits, PollEgress, PollAnswers, Shutdown, user, operations, ticks, ChainStep, ChainRests
  <2> QED BY <1>3, <2>1, <2>2, <2>3
<1>4. CASE Operation
  <2>1. ops # <<>> /\ acts' = acts
    BY <1>4 DEF Operation, Begin, StartClient, Inspect, StopClient, Dropped, StopProcesses, Unguard, Apply, Drain,
                Switch, Check, Guard, Replace, AwaitReady, At, Settled, user
  <2>2. UNCHANGED <<ops, tickBusy>> \/ Done
    <3> USE DEF Goto, Throws, Applied
    <3>1. CASE Begin
      <4>1. ops[1] \in Operations
        BY <2>1 DEF AppInv, Turns
      <4> QED BY <3>1, <4>1 DEF Begin, Operations
    <3>5. CASE StartClient \/ Inspect
      BY <3>5 DEF StartClient, Inspect
    <3>2. CASE StopClient \/ Dropped \/ StopProcesses \/ Unguard
      BY <3>2 DEF StopClient, Dropped, StopProcesses, Unguard
    <3>3. CASE Apply \/ Drain \/ Switch
      BY <3>3 DEF Apply, Drain, Switch
    <3>4. CASE Check \/ Guard \/ Replace \/ AwaitReady
      BY <3>4 DEF Check, Guard, Replace, AwaitReady
    <3> QED BY <1>4, <3>1, <3>2, <3>3, <3>4, <3>5 DEF Operation
  <2> QED BY <2>1, <2>2 DEF ChainStep, ChainRests, OneEnds
<1> QED BY <1>1, <1>2, <1>3, <1>4 DEF NextDesktop

LEMMA OneTickStays ==
  ASSUME AppInv, OneTick, tickBusy \in BOOLEAN, ChainStep
  PROVE  OneTick'
<1>1. ops \in Seq(Operations) /\ Len(ops) \in Nat /\ intent \in Nat /\ acts \in Nat /\ MaxActs \in Nat
  BY DesktopAssumption DEF AppInv, Turns, OneTick
<1>2. CASE ChainRests
  BY <1>1, <1>2 DEF ChainRests, OneTick, IsTick
<1>3. ASSUME NEW op, ops' = Append(ops, op)
      PROVE  /\ Len(ops') = Len(ops) + 1 /\ ops'[Len(ops) + 1] = op
             /\ \A i \in 1 .. Len(ops') : i # Len(ops) + 1 => i \in 1 .. Len(ops) /\ ops'[i] = ops[i]
  <2>1. ops \in Seq(Operations \cup {op})
    BY <1>1
  <2> QED BY <1>3, <2>1
<1>4. CASE ActComes
  <2>1. PICK k \in {"on", "off", "change"} : ops' = Append(ops, [kind |-> k, token |-> intent'])
    BY <1>4 DEF ActComes
  <2>2. /\ Len(ops') = Len(ops) + 1
        /\ \A i \in 1 .. Len(ops') : IsTick(i)' => i \in 1 .. Len(ops) /\ IsTick(i)
    BY <1>3, <2>1 DEF IsTick
  <2> QED BY <1>1, <1>4, <2>2 DEF OneTick, ActComes
<1>5. CASE TimerComes
  <2>1. ops' = Append(ops, [kind |-> "tick", token |-> intent]) /\ tickBusy' = TRUE
    BY <1>5 DEF TimerComes, EnqueueTick
  <2>2. /\ Len(ops') = Len(ops) + 1
        /\ \A i \in 1 .. Len(ops') : IsTick(i)' => i = Len(ops) + 1
    BY <1>3, <1>5, <2>1 DEF TimerComes, IsTick, OneTick
  <2> QED BY <1>1, <1>5, <2>1, <2>2 DEF TimerComes, OneTick
<1>6. CASE OneEnds
  <2>1. /\ ops' \in Seq(Operations) /\ Len(ops') = Len(ops) - 1 /\ Len(ops) > 0
        /\ \A i \in 1 .. Len(ops') : i + 1 \in 2 .. Len(ops) /\ (IsTick(i)' <=> IsTick(i + 1))
    BY <1>1, <1>6, OneLess DEF OneEnds, Done, IsTick
  <2>2. CASE IsTick(1)
    <3>1. \A i \in 1 .. Len(ops') : ~ IsTick(i)'
      BY <1>1, <2>1, <2>2 DEF OneTick
    <3>2. tickBusy /\ tickBusy' = FALSE
      BY <1>1, <1>6, <2>1, <2>2 DEF OneTick, IsTick, OneEnds, Done
    <3> QED BY <1>1, <1>6, <2>1, <3>1, <3>2 DEF OneEnds, OneTick
  <2>3. CASE ~ IsTick(1)
    <3>1. tickBusy' = tickBusy
      BY <1>6, <2>3 DEF IsTick, OneEnds, Done, ticks
    <3> QED BY <1>1, <1>6, <2>1, <3>1 DEF OneEnds, OneTick
  <2> QED BY <2>2, <2>3
<1> QED BY <1>2, <1>4, <1>5, <1>6 DEF ChainStep

LEMMA MarksStay ==
  ASSUME AppInv, MarkTypes, [NextDesktop]_desktopVars
  PROVE  MarkTypes'
<1> USE DEF MarkTypes, Maybe
<1>1. CASE UNCHANGED desktopVars
  BY <1>1 DEF desktopVars, user, operations, processes, marks
<1>2. CASE Connect \/ Disconnect \/ Quit \/ \E c \in Settings : SaveConfig(c)
  BY <1>2 DEF Connect, Disconnect, Quit, SaveConfig, processes, marks, operations
<1>3. CASE Tick \/ Wake \/ RetryDue \/ OffersArrive \/ OffersExpire \/ PeerLost
  BY <1>3 DEF Tick, Wake, RetryDue, OffersArrive, OffersExpire, PeerLost, user, operations, processes, marks
<1>4. CASE ClientExits \/ EngineExits \/ PollEgress \/ PollAnswers \/ Shutdown
  BY <1>4 DEF ClientExits, EngineExits, PollEgress, PollAnswers, Shutdown, StopChild, user, operations, processes, marks
<1>5. CASE Operation
  <2> USE DEF Settled, Quietly, processes, marks, user, Unready, StopChild
  <2>1. CASE Begin \/ Inspect \/ StopClient \/ Dropped
    BY <2>1 DEF Begin, Inspect, StopClient, StopsClient, Dropped
  <2>2. CASE StartClient
    BY <2>2 DEF StartClient, StartsClient, ServersStart, PublicRefresh, PeersConnect
  <2>3. CASE StopProcesses \/ Unguard \/ Drain
    BY <2>3 DEF StopProcesses, Unguard, Drain
  <2>4. CASE Apply
    BY <2>4 DEF Apply
  <2>5. CASE Switch \/ Check \/ Guard
    BY <2>5 DEF Switch, SwitchMode, Check, Guard
  <2>6. CASE Replace \/ AwaitReady
    BY <2>6 DEF Replace, AwaitReady, Started
  <2> QED BY <1>5, <2>1, <2>2, <2>3, <2>4, <2>5, <2>6 DEF Operation
<1> QED BY <1>1, <1>2, <1>3, <1>4, <1>5 DEF NextDesktop

LEMMA FlagsStay ==
  ASSUME AppInv, AppInv', FlagTypes, [NextDesktop]_desktopVars
  PROVE  FlagTypes'
<1> USE DEF FlagTypes
<1>0. (vpnOn \in BOOLEAN /\ quitting \in BOOLEAN /\ pending \in BOOLEAN)'
  BY DEF AppInv, Switches
<1>1. CASE UNCHANGED desktopVars
  BY <1>0, <1>1 DEF desktopVars, user, operations, processes, marks, ticks
<1>2. CASE Connect \/ Disconnect \/ Quit \/ \E c \in Settings : SaveConfig(c)
  <2>1. CASE Connect
    BY <1>0, <2>1 DEF Connect, processes, marks, ticks
  <2>2. CASE Disconnect \/ Quit
    BY <1>0, <2>2 DEF Disconnect, Quit, processes, marks
  <2>3. ASSUME NEW c \in Settings, SaveConfig(c) PROVE FlagTypes'
    BY <1>0, <2>3 DEF SaveConfig, processes, ticks
  <2> QED BY <1>2, <2>1, <2>2, <2>3
<1>3. CASE Tick \/ Wake \/ RetryDue \/ OffersArrive \/ OffersExpire \/ PeerLost
  <2>0. RequestTick => wake' \in BOOLEAN
    BY DEF RequestTick
  <2>1. CASE Tick
    BY <1>0, <2>1 DEF Tick, EnqueueTick, user, processes, marks
  <2>2. CASE Wake
    BY <1>0, <2>2 DEF Wake, EnqueueTick, user, processes, marks
  <2>3. CASE RetryDue \/ OffersExpire
    BY <1>0, <2>3 DEF RetryDue, OffersExpire, user, operations, processes, marks, ticks
  <2>4. CASE OffersArrive \/ PeerLost
    BY <1>0, <2>0, <2>4 DEF OffersArrive, PeerLost, user, operations, marks
  <2> QED BY <1>3, <2>1, <2>2, <2>3, <2>4
<1>4. CASE ClientExits \/ EngineExits \/ PollEgress \/ PollAnswers \/ Shutdown
  <2>1. CASE ClientExits \/ EngineExits
    BY <1>0, <2>1 DEF ClientExits, EngineExits, user, operations, marks, ticks
  <2>2. CASE PollEgress \/ PollAnswers
    BY <1>0, <2>2 DEF PollEgress, PollAnswers, user, operations, processes, marks, ticks
  <2>3. CASE Shutdown
    BY <1>0, <2>3 DEF Shutdown, operations, marks, ticks
  <2> QED BY <1>4, <2>1, <2>2, <2>3
<1>5. CASE Operation
  <2> USE DEF Settled, Quietly, processes, marks, user, Throws, Applied
  <2>a. Done => (wake \in BOOLEAN /\ tickBusy \in BOOLEAN /\ tickAgain \in BOOLEAN)'
    BY DEF Done, RequestTick, ticks
  <2>b. ASSUME NEW p, Goto(p) PROVE (wake \in BOOLEAN /\ tickBusy \in BOOLEAN /\ tickAgain \in BOOLEAN)'
    BY <2>b DEF Goto
  <2>1. CASE Begin
    <3>1. ops # <<>> /\ UNCHANGED <<gone, offers, guard, retry, disconnected>> /\ cancelled' \in BOOLEAN
      BY <2>1 DEF Begin, At
    <3>2. ops[1] \in Operations
      BY <3>1 DEF AppInv, Turns
    <3>3. Done \/ \E p \in {"stop", "client", "restop"} : Goto(p)
      BY <2>1, <3>2 DEF Begin, Operations
    <3> QED BY <1>0, <2>a, <2>b, <3>1, <3>3
  <2>f. CASE Dropped
    BY <1>0, <2>a, <2>f DEF Dropped
  <2>c. CASE Inspect \/ StopClient
    BY <1>0, <2>a, <2>b, <2>c DEF Inspect, StopClient, StopsClient
  <2>2. CASE StartClient
    BY <1>0, <2>a, <2>b, <2>2 DEF StartClient, StartsClient, ServersStart, PublicRefresh, PeersConnect
  <2>3. CASE StopProcesses \/ Unguard
    BY <1>0, <2>a, <2>b, <2>3 DEF StopProcesses, Unguard
  <2>d. CASE Drain
    BY <1>0, <2>a, <2>b, <2>d DEF Drain
  <2>4. CASE Apply
    BY <1>0, <2>a, <2>b, <2>4 DEF Apply
  <2>5. CASE Switch \/ Check
    BY <1>0, <2>a, <2>b, <2>5 DEF Switch, Check
  <2>e. CASE Guard
    BY <1>0, <2>a, <2>b, <2>e DEF Guard, Strict
  <2>6. CASE Replace \/ AwaitReady
    BY <1>0, <2>a, <2>b, <2>6 DEF Replace, AwaitReady
  <2> QED BY <1>5, <2>1, <2>2, <2>3, <2>4, <2>5, <2>6, <2>c, <2>d, <2>e, <2>f DEF Operation
<1> QED BY <1>1, <1>2, <1>3, <1>4, <1>5 DEF NextDesktop

AppTypes == OneTick /\ MarkTypes /\ FlagTypes

\* However long the application runs, it keeps its types; no more operations wait than
\* the user asked for, and one tick.
THEOREM DesktopTypeCorrect == SpecDesktop => []TypeOKDesktop
<1>1. InitDesktop => AppTypes
  <2> SUFFICES ASSUME InitDesktop PROVE AppTypes
    OBVIOUS
  <2>1. ops = <<>> /\ Len(ops) = 0 /\ acts = MaxActs /\ tickBusy = FALSE
    BY DEF InitDesktop
  <2>2. OneTick
    BY <2>1, DesktopAssumption DEF OneTick
  <2> QED BY <2>2, DesktopAssumption DEF InitDesktop, AppTypes, MarkTypes, Maybe, FlagTypes
<1>2. AppInv /\ AppTypes /\ [NextDesktop]_desktopVars => AppTypes'
  <2> SUFFICES ASSUME AppInv, AppTypes, [NextDesktop]_desktopVars PROVE AppTypes'
    OBVIOUS
  <2>1. AppInv'
    BY AppSteps
  <2>2. OneTick'
    BY ChainSteps, OneTickStays DEF AppTypes, FlagTypes
  <2> QED BY <2>1, <2>2, MarksStay, FlagsStay DEF AppTypes
<1>3. AppInv /\ AppTypes => TypeOKDesktop
  <2> SUFFICES ASSUME AppInv, AppTypes PROVE TypeOKDesktop
    OBVIOUS
  <2>1. Len(ops) <= MaxActs + 1
    BY DesktopAssumption DEF AppInv, Turns, AppTypes, OneTick
  <2>2. {vpnOn, quitting, gone, cancelled, offers, pending, guard, retry, wake, tickBusy,
         tickAgain, disconnected} \subseteq BOOLEAN
    BY DEF AppTypes, FlagTypes
  <2>3. {saved, target, runs, lastSig, applied} \subseteq Settings \cup {Nothing}
    BY DEF AppTypes, MarkTypes, Maybe
  <2> QED BY <2>1, <2>2, <2>3 DEF TypeOKDesktop, AppTypes, MarkTypes
<1> QED BY <1>1, <1>2, <1>3, AppStarts, AppSteps, PTL DEF SpecDesktop

=============================================================================
