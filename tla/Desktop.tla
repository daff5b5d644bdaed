------------------------------- MODULE Desktop -------------------------------
(***************************************************************************)
(* The main process of the desktop application (src/app/main.js) with its  *)
(* engine controller (src/app/engine.cjs): the operations that connect,    *)
(* disconnect, follow new offers or a changed source run one after another *)
(* on a promise chain, while the user, the timers, the two child processes *)
(* and the health probe go on between their awaits.                        *)
(*                                                                         *)
(* An operation carries the intent it was made for and is dropped when a   *)
(* newer one exists.  pc is the await the running operation stands at.     *)
(* A setting is "strict" (full mode with the kill switch), "full", "split" *)
(* or another source of endpoints, "public" or "peers"; full and split     *)
(* differ in the mode only and share a running engine.  Windows is         *)
(* modelled: the kill switch exists, and no authorization of the engine is *)
(* asked for.                                                              *)
(*                                                                         *)
(* A run is a process of the engine in one mode: "this" one, or an         *)
(* "earlier" one, which may have had the same settings.                    *)
(***************************************************************************)
EXTENDS Integers, Sequences

CONSTANTS
  Settings,   \* the settings the user may save
  First,      \* those the application starts with
  Nothing,
  MaxActs,    \* bound: what the user does
  MaxFaults   \* bound: what fails

ASSUME DesktopAssumption ==
  /\ Settings \subseteq {"strict", "full", "split", "public", "peers"} /\ First \in Settings
  /\ Nothing \notin Settings /\ MaxActs \in Nat /\ MaxFaults \in Nat

VARIABLES
  vpnOn, intent, quitting, gone,
  ops,        \* the operations of the chain, the running one first
  pc,         \* where the running one is, "idle" before it has begun
  target,     \* the settings its applyVpn has read
  cancelled,  \* the engine start under way was cancelled
  saved,      \* the configuration file
  client,     \* whose endpoints are used: Nothing, "servers", "public", "peers"
  offers,     \* there are endpoints
  engine,     \* the engine's process: "none", "up", "ready"
  runs,       \* the settings that process runs with
  lastSig, applied, engineSig,
  pending,    \* modePending
  guard,      \* the kill switch's firewall rules are in force
  retry,      \* retryAt is ahead
  wake, tickBusy, tickAgain,
  probe,      \* the probe under way: Nothing, or the run it measures and if it is stale
  healthy,    \* vpnHealthy: Nothing, or the run of which it was measured
  disconnected,  \* history: a disconnect was completed and no connect followed
  acts, faults

user == <<vpnOn, intent, quitting, gone, saved, disconnected, acts>>
operations == <<ops, pc, target, cancelled>>
processes == <<client, offers, engine, runs, guard>>
marks == <<lastSig, applied, engineSig, pending, retry>>
ticks == <<wake, tickBusy, tickAgain>>
health == <<probe, healthy>>
desktopVars == <<user, operations, processes, marks, ticks, health, faults>>

Source(c) == IF c \in {"public", "peers"} THEN c ELSE "servers"
Strict(c) == c = "strict"
EngineSignature(c) == IF c \in {"full", "split"} THEN "live" ELSE c

InitDesktop ==
  /\ vpnOn = FALSE /\ intent = 0 /\ quitting = FALSE /\ gone = FALSE
  /\ ops = <<>> /\ pc = "idle" /\ target = Nothing /\ cancelled = FALSE
  /\ saved = First /\ client = Nothing /\ offers = FALSE
  /\ engine = "none" /\ runs = Nothing
  /\ lastSig = Nothing /\ applied = Nothing /\ engineSig = Nothing
  /\ pending = FALSE /\ guard = FALSE /\ retry = FALSE
  /\ wake = FALSE /\ tickBusy = FALSE /\ tickAgain = FALSE
  /\ probe = Nothing /\ healthy = Nothing /\ disconnected = FALSE
  /\ acts = MaxActs /\ faults = MaxFaults

-----------------------------------------------------------------------------
(* The user.                                                                *)

Acts == acts > 0 /\ acts' = acts - 1 /\ ~quitting /\ ~gone
Stale == probe' = IF probe = Nothing THEN Nothing ELSE [probe EXCEPT !.stale = TRUE]

\* invalidateHealth
Invalidate == Stale /\ healthy' = Nothing

AddOp(kind) ==
  /\ intent' = intent + 1
  /\ ops' = Append(ops, [kind |-> kind, token |-> intent'])

\* By the user, or by the window after a change it saved while the tunnel is wanted.
Connect ==
  /\ Acts
  /\ vpnOn' = TRUE /\ disconnected' = FALSE /\ AddOp("on")
  /\ UNCHANGED <<quitting, gone, saved, pc, target, cancelled, processes, marks, ticks, health, faults>>

Disconnect ==
  /\ Acts
  /\ vpnOn' = FALSE /\ AddOp("off")
  /\ cancelled' = TRUE /\ wake' = FALSE /\ Stale
  /\ UNCHANGED <<quitting, gone, saved, disconnected, pc, target, processes, marks,
                 tickBusy, tickAgain, healthy, faults>>

SaveConfig(c) ==
  /\ Acts /\ c # saved /\ saved' = c
  /\ IF vpnOn /\ Source(c) # Source(saved)
     THEN /\ Invalidate /\ pending' = TRUE /\ cancelled' = TRUE /\ AddOp("change")
     ELSE UNCHANGED <<health, pending, cancelled, intent, ops>>
  /\ UNCHANGED <<vpnOn, quitting, gone, disconnected, pc, target, processes,
                 lastSig, applied, engineSig, retry, ticks, faults>>

Quit ==
  /\ Acts
  /\ quitting' = TRUE /\ intent' = intent + 1 /\ vpnOn' = FALSE
  /\ cancelled' = TRUE /\ wake' = FALSE /\ Stale
  /\ UNCHANGED <<gone, saved, disconnected, ops, pc, target, processes, marks,
                 tickBusy, tickAgain, healthy, faults>>

-----------------------------------------------------------------------------
(* The timers and the events of the children.                               *)

\* A fault is taken from the budget.
Fault == faults > 0 /\ faults' = faults - 1

EnqueueTick ==
  /\ ops' = Append(ops, [kind |-> "tick", token |-> intent])
  /\ tickBusy' = TRUE

Tick ==
  /\ ~tickBusy /\ ~wake /\ ~quitting /\ vpnOn
  /\ EnqueueTick
  /\ UNCHANGED <<user, pc, target, cancelled, processes, marks, wake, tickAgain, health, faults>>

\* requestTick, a tenth of a second after an offer came.
Wake ==
  /\ wake /\ wake' = FALSE
  /\ IF tickBusy THEN tickAgain' = TRUE /\ UNCHANGED <<ops, tickBusy>>
     ELSE /\ IF quitting \/ ~vpnOn THEN UNCHANGED <<ops, tickBusy>> ELSE EnqueueTick
          /\ UNCHANGED tickAgain
  /\ UNCHANGED <<user, pc, target, cancelled, processes, marks, health, faults>>

RequestTick == wake' = (wake \/ (~quitting /\ vpnOn))

OffersArrive ==
  /\ client \in {"servers", "peers"} /\ ~offers /\ offers' = TRUE
  /\ IF client = "servers" THEN RequestTick ELSE UNCHANGED wake
  /\ UNCHANGED <<user, operations, client, engine, runs, guard, marks, tickBusy, tickAgain, health, faults>>

\* The offers grow old, or the profile.
OffersExpire ==
  /\ offers /\ client # "peers" /\ Fault /\ offers' = FALSE
  /\ UNCHANGED <<user, operations, client, engine, runs, guard, marks, ticks, health>>

\* The peer's session is lost, or its host has gone, which is reported.
PeerLost ==
  /\ offers /\ client = "peers" /\ Fault /\ offers' = FALSE
  /\ RequestTick /\ healthy' = Nothing
  /\ UNCHANGED <<user, operations, client, engine, runs, guard, marks, tickBusy, tickAgain, probe>>

RetryDue ==
  /\ retry /\ retry' = FALSE
  /\ UNCHANGED <<user, operations, processes, lastSig, applied, engineSig, pending, ticks, health, faults>>

ClientExits ==
  /\ client = "servers" /\ Fault /\ client' = Nothing
  /\ UNCHANGED <<user, operations, offers, engine, runs, guard, marks, ticks, health>>

\* onExit; the exit of a process that is being stopped is no failure.
EngineExits ==
  /\ engine # "none" /\ pc \notin {"stop", "replace", "drain"} /\ Fault
  /\ engine' = "none" /\ lastSig' = Nothing /\ retry' = TRUE /\ Invalidate
  /\ UNCHANGED <<user, operations, client, offers, runs, guard, applied, engineSig, pending, ticks>>

PollEgress ==
  /\ probe = Nothing /\ vpnOn /\ engine = "ready" /\ ~pending /\ applied # Nothing
  /\ probe' = [of |-> "this", stale |-> FALSE]
  /\ UNCHANGED <<user, operations, processes, marks, ticks, healthy, faults>>

\* Variant: the revision and the generation are not compared.
Discarded == ~vpnOn \/ engine # "ready" \/ pending

\* The check after the await.
Outdated == probe.stale \/ ~vpnOn \/ engine # "ready" \/ pending

PollAnswers ==
  /\ probe # Nothing /\ probe' = Nothing
  /\ IF Outdated THEN UNCHANGED healthy ELSE healthy' \in {Nothing, probe.of}
  /\ UNCHANGED <<user, operations, processes, marks, ticks, faults>>

-----------------------------------------------------------------------------
(* The running operation.                                                   *)

\* Variant: an operation that was queued is carried out.
EveryOp == TRUE

\* The operation is the one of the last intent, and the user wants the tunnel.
OpIsWanted == ops[1].token = intent /\ vpnOn /\ ~quitting

Current == ops[1].token = intent
At(p) == ops # <<>> /\ pc = p /\ ~gone
Goto(p) == pc' = p /\ UNCHANGED <<ops, tickBusy, tickAgain, wake>>

\* A tick that ends frees the timer, and asks for the one that came meanwhile.
Done ==
  /\ ops' = Tail(ops) /\ pc' = "idle"
  /\ IF ops[1].kind = "tick"
     THEN /\ tickBusy' = FALSE /\ tickAgain' = FALSE
          /\ IF tickAgain THEN RequestTick ELSE UNCHANGED wake
     ELSE UNCHANGED ticks

\* The operation throws; only a tick waits five seconds.
Throws ==
  /\ Fault /\ Done
  /\ retry' = (retry \/ ops[1].kind = "tick")

Settled == UNCHANGED <<user, target, cancelled>>
Quietly == UNCHANGED <<health, faults>>

\* stopOwned: from now on the engine is not ready, whether its process ends or not.
Unready == engine' = IF engine = "none" THEN "none" ELSE "up"

Begin ==
  /\ At("idle")
  /\ UNCHANGED <<user, target, client, offers, runs, guard, marks, healthy, faults>>
  /\ IF ops[1].kind = "off" /\ Current
     THEN Goto("stop") /\ cancelled' = TRUE /\ Stale /\ Unready
     ELSE /\ UNCHANGED <<cancelled, probe, engine>>
          /\ CASE ops[1].kind = "off"    -> Done
               [] ops[1].kind = "on"     -> IF Current THEN Goto("client") ELSE Done
               [] ops[1].kind = "tick"   -> IF OpIsWanted THEN Goto("client") ELSE Done
               [] ops[1].kind = "change" -> IF OpIsWanted THEN Goto("restop") ELSE Done

\* Discovery goes on, or begins without endpoints.
ServersStart == Source(saved) = "servers" /\ client' = "servers" /\ offers' = (client = "servers" /\ offers)

\* PublicAccess.refresh: the profile is a recent one, or the service answers with another.
PublicRefresh == Source(saved) = "public" /\ client' = "public" /\ offers' = TRUE

\* PeerHost.connect: the host, started if it is gone, takes a lease of an exit; it is one
\* of the endpoints when the host reports the guest connected.
PeersConnect == Source(saved) = "peers" /\ client' = "peers" /\ offers' = (client = "peers" /\ offers)

\* startClient: a client of another source is replaced.
StartsClient == (ServersStart \/ PublicRefresh \/ PeersConnect) /\ UNCHANGED <<engine, runs, guard>>

StartClient ==
  /\ At("client") \/ (At("restart") /\ Current /\ vpnOn)
  /\ Settled /\ UNCHANGED <<lastSig, applied, engineSig, pending, health>>
  /\ \/ /\ StartsClient /\ Goto(IF ops[1].kind = "on" THEN "inspect" ELSE "apply")
        /\ UNCHANGED <<retry, faults>>
     \/ /\ UNCHANGED processes
        /\ IF ops[1].kind = "on" THEN Fault /\ Goto("refused") /\ UNCHANGED retry ELSE Throws

\* Another tunnel is up, or it cannot be found out; then the client is stopped.
Inspect ==
  /\ At("inspect") \/ At("refused")
  /\ UNCHANGED <<target, cancelled, processes, lastSig, applied, engineSig, pending, health>>
  /\ IF ~Current THEN Done /\ UNCHANGED <<user, retry, faults>>
     ELSE \/ /\ pc = "inspect" /\ retry' = FALSE
             /\ IF wake THEN Done ELSE Goto("apply")
             /\ UNCHANGED <<user, faults>>
          \/ /\ IF pc = "inspect" THEN Fault ELSE UNCHANGED faults
             /\ vpnOn' = FALSE /\ Goto("giveup")
             /\ UNCHANGED <<intent, quitting, gone, saved, disconnected, acts, retry>>

StopsClient == client' = Nothing /\ UNCHANGED <<offers, engine, runs, guard>>

\* stopClient, when connecting failed or the source is another one.
StopClient ==
  /\ At("giveup") \/ At("restop")
  /\ Settled /\ UNCHANGED <<lastSig, applied, engineSig, pending, health>>
  /\ \/ StopsClient /\ (IF pc = "giveup" THEN Done ELSE Goto("restart")) /\ UNCHANGED <<retry, faults>>
     \/ UNCHANGED processes /\ Throws

Dropped ==
  /\ At("restart") /\ ~(Current /\ vpnOn) /\ Done
  /\ Settled /\ Quietly /\ UNCHANGED <<processes, marks>>

\* stopChild: the process has ended, or it goes on stopping after thirty seconds.
StopChild(process, ended) == {process, ended}

StopProcesses ==
  /\ At("stop")
  /\ Settled /\ UNCHANGED <<offers, runs, guard, health, lastSig, applied, engineSig, pending>>
  /\ \/ engine' = "none" /\ client' = Nothing /\ Goto("unguard") /\ UNCHANGED <<retry, faults>>
     \/ engine' \in StopChild(engine, "none") /\ client' \in StopChild(client, Nothing) /\ Throws

Unguard ==
  /\ At("unguard")
  /\ UNCHANGED <<target, cancelled, client, offers, engine, runs, probe,
                 vpnOn, intent, quitting, gone, saved, acts>>
  /\ \/ /\ guard' = FALSE /\ healthy' = Nothing
        /\ lastSig' = Nothing /\ applied' = Nothing /\ engineSig' = Nothing /\ pending' = FALSE
        /\ disconnected' = (~vpnOn /\ ~quitting) /\ Done
        /\ UNCHANGED <<retry, faults>>
     \/ Throws /\ UNCHANGED <<guard, healthy, lastSig, applied, engineSig, pending, disconnected>>

-----------------------------------------------------------------------------
(* applyVpn and the engine's start.                                         *)

\* Variant: a mode that is being switched is not applied again.
IsAppliedOnce(c) == lastSig = c /\ engine # "none"

IsApplied(c) == lastSig = c /\ engine # "none" /\ ~pending

\* applyVpn returns; a tick then renews the rules of an engine not known to be healthy.
Applied ==
  /\ Done
  /\ \/ UNCHANGED <<retry, faults>>
     \/ /\ ops[1].kind = "tick" /\ Current /\ vpnOn
        /\ guard' /\ engine' # "none" /\ healthy' = Nothing
        /\ Fault /\ retry' = TRUE

Apply ==
  /\ At("apply")
  /\ UNCHANGED <<user, client, offers, runs, guard>>
  /\ IF ~(Current /\ vpnOn)
     THEN /\ UNCHANGED <<target, cancelled, engine, health, lastSig, applied, engineSig, pending>>
          /\ Applied
     ELSE IF ~offers
     THEN /\ UNCHANGED <<target, applied, engineSig, pending>>
          /\ IF engine = "none" \/ client = "peers"
             THEN lastSig' = Nothing /\ healthy' = Nothing /\ UNCHANGED <<cancelled, probe, engine>> /\ Applied
             ELSE /\ Goto("drain") /\ cancelled' = TRUE /\ Stale /\ Unready
                  /\ UNCHANGED <<lastSig, healthy, retry, faults>>
     ELSE IF IsApplied(saved) \/ retry
     THEN /\ UNCHANGED <<target, cancelled, engine, health, lastSig, applied, engineSig, pending>>
          /\ Applied
     ELSE /\ Invalidate /\ target' = saved /\ UNCHANGED <<lastSig, engine, retry, faults>>
          /\ IF engine = "ready" /\ ~Strict(saved) /\ ~guard /\ engineSig = EngineSignature(saved)
             THEN pending' = TRUE /\ Goto("switch") /\ UNCHANGED <<cancelled, applied, engineSig>>
             ELSE /\ pending' = FALSE /\ applied' = Nothing /\ engineSig' = Nothing
                  /\ cancelled' = FALSE /\ Goto("check")

\* No endpoints are left: the engine is stopped, but not the one of a peer.
Drain ==
  /\ At("drain")
  /\ Settled /\ UNCHANGED <<client, offers, runs, guard, probe, applied, engineSig, pending>>
  /\ \/ engine' = "none" /\ lastSig' = Nothing /\ healthy' = Nothing /\ Applied
     \/ Throws /\ UNCHANGED <<engine, lastSig, healthy>>

\* A process, or its mode, is another one: what was measured or is measured is of an earlier.
NewRun ==
  /\ probe' = IF probe = Nothing THEN Nothing ELSE [probe EXCEPT !.of = "earlier"]
  /\ healthy' = IF healthy = Nothing THEN Nothing ELSE "earlier"

\* switchMode: its requests may fail after the engine has taken the change.
SwitchMode(succeeds) ==
  \/ runs' = target /\ NewRun
  \/ ~succeeds /\ UNCHANGED <<runs, health>>

Switch ==
  /\ At("switch")
  /\ Settled /\ UNCHANGED <<client, offers, engine, guard, engineSig>>
  /\ \/ /\ engine = "ready" /\ SwitchMode(TRUE) /\ Done
        /\ IF Current /\ vpnOn
           THEN lastSig' = target /\ applied' = target /\ pending' = FALSE
           ELSE UNCHANGED <<lastSig, applied, pending>>
        /\ UNCHANGED <<retry, faults>>
     \/ /\ IF engine = "ready" THEN Fault /\ SwitchMode(FALSE)
           ELSE UNCHANGED <<faults, runs, health>>
        /\ Done /\ retry' = (retry \/ (ops[1].kind = "tick" /\ Current /\ vpnOn))
        /\ UNCHANGED <<lastSig, applied, pending>>

\* The candidate is written and checked.
Check ==
  /\ At("check")
  /\ Settled /\ UNCHANGED <<processes, lastSig, applied, engineSig, pending, health>>
  /\ \/ IF cancelled THEN Applied ELSE Goto("guard") /\ UNCHANGED <<retry, faults>>
     \/ Throws

\* The firewall follows the settings before the old engine is stopped.
Guard ==
  /\ At("guard")
  /\ Settled /\ UNCHANGED <<client, offers, runs, lastSig, applied, engineSig, pending, health>>
  /\ \/ /\ guard' = Strict(target)
        /\ IF cancelled THEN UNCHANGED engine /\ Applied
           ELSE Unready /\ Goto("replace") /\ UNCHANGED <<retry, faults>>
     \/ UNCHANGED <<guard, engine>> /\ Throws

Replace ==
  /\ At("replace")
  /\ Settled /\ UNCHANGED <<client, offers, guard, lastSig, applied, engineSig, pending>>
  /\ \/ IF cancelled THEN engine' = "none" /\ Applied /\ UNCHANGED <<runs, health>>
        ELSE engine' = "up" /\ runs' = target /\ NewRun /\ Goto("ready") /\ UNCHANGED <<retry, faults>>
     \/ engine # "none" /\ Throws /\ UNCHANGED <<engine, runs, health>>

Started ==
  /\ engine' = "ready" /\ healthy' = Nothing /\ UNCHANGED probe
  /\ lastSig' = target /\ applied' = target /\ engineSig' = EngineSignature(target)

\* The wait for the TUN ends, is cancelled, or fails; the last two stop the child.
AwaitReady ==
  /\ At("ready")
  /\ Settled /\ UNCHANGED <<client, offers, runs, guard, pending>>
  /\ \/ engine = "up" /\ ~cancelled /\ Started /\ Applied
     \/ /\ engine' = "none" /\ UNCHANGED <<health, lastSig, applied, engineSig>>
        /\ IF cancelled THEN Applied
           ELSE IF engine = "none"
           THEN Done /\ retry' = (retry \/ ops[1].kind = "tick") /\ UNCHANGED faults
           ELSE Throws
     \/ /\ engine = "up" /\ UNCHANGED <<engine, health, lastSig, applied, engineSig>>
        /\ cancelled /\ Throws

-----------------------------------------------------------------------------
(* Shutdown awaits the chain, then stops what runs.                         *)

Shutdown ==
  /\ quitting /\ ops = <<>> /\ ~gone
  /\ \/ engine' = "none" /\ client' = Nothing /\ gone' = TRUE /\ UNCHANGED <<quitting, faults>>
     \/ /\ engine' \in StopChild(IF engine = "none" THEN "none" ELSE "up", "none")
        /\ client' \in StopChild(client, Nothing) /\ quitting' = FALSE /\ Fault /\ UNCHANGED gone
  /\ UNCHANGED <<vpnOn, intent, saved, disconnected, acts, operations, offers, runs, guard, marks, ticks, health>>

\* What the window shows.
Phase ==
  CASE ~vpnOn /\ (engine # "none" \/ client = "servers") -> "stopping"
    [] ~vpnOn /\ engine = "none" /\ client # "servers" -> "idle"
    [] vpnOn /\ pending -> "switching"
    [] vpnOn /\ ~pending /\ healthy # Nothing -> "connected"
    [] OTHER -> IF engine # "none" THEN "starting" ELSE "rendezvous"

Operation ==
  \/ Begin \/ StartClient \/ Inspect \/ StopClient \/ Dropped \/ StopProcesses \/ Unguard
  \/ Apply \/ Drain \/ Switch \/ Check \/ Guard \/ Replace \/ AwaitReady

NextDesktop ==
  \/ Connect \/ Disconnect \/ Quit \/ \E c \in Settings : SaveConfig(c)
  \/ Tick \/ Wake \/ RetryDue \/ OffersArrive \/ OffersExpire \/ PeerLost \/ ClientExits \/ EngineExits
  \/ PollEgress \/ PollAnswers \/ Operation \/ Shutdown

\* Every await ends, the timers fire, and the discovery finds the endpoints.
FairnessDesktop ==
  /\ WF_desktopVars(Operation) /\ WF_desktopVars(Tick) /\ WF_desktopVars(Wake) /\ WF_desktopVars(RetryDue)
  /\ WF_desktopVars(OffersArrive) /\ WF_desktopVars(Shutdown)

SpecDesktop == InitDesktop /\ [][NextDesktop]_desktopVars
FairSpecDesktop == SpecDesktop /\ FairnessDesktop

-----------------------------------------------------------------------------

TypeOKDesktop ==
  /\ {vpnOn, quitting, gone, cancelled, offers, pending, guard, retry, wake, tickBusy,
      tickAgain, disconnected} \subseteq BOOLEAN
  /\ {saved, target, runs, lastSig, applied} \subseteq Settings \cup {Nothing}
  /\ engine \in {"none", "up", "ready"} /\ client \in {Nothing, "servers", "public", "peers"}
  /\ Len(ops) <= MaxActs + 1

\* A connection is called healthy only by a probe that began after the engine's
\* last start and its last change of mode, be they with the same settings,
\* however long the probe took and whatever the user did meanwhile (main.js:763).
HealthIsCurrent == Phase = "connected" /\ engine = "ready" => healthy = "this"

\* After a disconnect has been carried out nothing runs and nothing is blocked,
\* until the user connects: no queued operation, late offer, timer or half-done
\* start brings a process or a rule back (main.js:616).
DisconnectHolds ==
  disconnected => engine = "none" /\ client = Nothing /\ ~guard /\ healthy = Nothing

\* The settings are in force: the engine runs them, ready, and the firewall follows.
InForce == engine = "ready" /\ runs = saved /\ applied = saved /\ guard = Strict(saved)

\* The application takes the settings for applied although they are not: a change
\* failed before the old engine was replaced and was taken back, or an engine that
\* did not stop was connected to again.
TakenForApplied ==
  lastSig = saved /\ \/ engine # "none" /\ applied = Nothing
                     \/ engine = "up"

\* However operations, failures, crashes and changes of mind interleave: as long as
\* the user wants the tunnel it comes up with the settings last saved (or is taken
\* to have), and a shutdown ends or gives up (main.js:482, :1002).
SettlesAsWanted ==
  /\ <>[](vpnOn /\ offers /\ ~gone => InForce \/ TakenForApplied)
  /\ []<>(~quitting \/ gone)
=============================================================================
