------------------------------ MODULE Rotation ------------------------------
(***************************************************************************)
(* The rotation of a node's data-plane credentials (scripts/rotate-dp.mjs  *)
(* over src/rotation.mjs).  A run of the script makes a fresh generation,  *)
(* installs a configuration that accepts it and the one before, restarts   *)
(* the engine and then advertises the new generation in the dp file that   *)
(* the exit publishes from.  A journal makes this one transaction: until   *)
(* the dp file is visible an interrupted run is rolled back, from then on  *)
(* it is completed.                                                        *)
(*                                                                         *)
(* A lock keeps runs apart, so one script runs at a time; it may be killed *)
(* between any two of its calls, every call may throw before or after its  *)
(* effect, and systemd may start the engine again whenever it likes.       *)
(***************************************************************************)
EXTENDS Naturals

CONSTANTS
  MaxGen,      \* bound: generations that are ever made
  MaxFaults,   \* bound: calls that throw and runs that are killed
  Fresh        \* whether the node may be one that was never rotated

ASSUME RotationAssumption ==
  MaxGen \in Nat \ {0} /\ MaxFaults \in Nat /\ Fresh \in BOOLEAN

None == 0                    \* an absent file, or no generation
Gens == 1 .. MaxGen
Files == [config : SUBSET Gens, state : Gens \cup {None}, dp : Gens \cup {None}]
Empty == [config |-> {}, state |-> None, dp |-> None]
Journals == [before : Files, after : Files]
NoJournal == [before |-> Empty, after |-> Empty]    \* no journal file

VARIABLES
  config,      \* config.json: the generations it accepts, {} when absent
  state,       \* rotation-state.json: the generation made last
  dp,          \* magnetgate-dp.json: the generation advertised
  readable,    \* whether the exit's user may read the dp file (its group is set)
  journal,     \* rotation-journal.json
  engine,      \* the generations the running engine accepts, {} when it is down
  mode,        \* what the script does: "idle", "startup" (recovery before the
               \* rotation), "rotate", or "undo" (recovery in its catch)
  step,        \* the call it makes next
  goal,        \* the contents it writes
  newest,      \* generations made so far
  previous,    \* history: what dp advertised before its last change
  faults       \* faults so far

files == <<config, state, dp, readable, journal>>
script == <<mode, step, goal, newest>>
vars == <<files, engine, script, previous, faults>>

Current == [config |-> config, state |-> state, dp |-> dp]

\* A node that has advertised generation 1 and was never rotated by the
\* script, or one that has nothing yet.
Init ==
  /\ \/ config = {1} /\ dp = 1 /\ newest = 1
     \/ Fresh /\ config = {} /\ dp = None /\ newest = 0
  /\ state = None
  /\ readable = TRUE
  /\ journal = NoJournal
  /\ engine = config
  /\ mode = "idle" /\ step = "prepare" /\ goal = Empty
  /\ previous = None
  /\ faults = 0

-----------------------------------------------------------------------------
(* The order of the calls.                                                  *)

\* Variant: the metadata is written before the engine is restarted.
MetadataFirst == [config |-> "state", state |-> "dp", dp |-> "chgrp", chgrp |-> "restart", restart |-> "unlink"]

\* rotateTransaction: the engine is restarted before anything is advertised.
InstallOrder == [config |-> "restart", restart |-> "state", state |-> "dp", dp |-> "chgrp", chgrp |-> "unlink"]

\* recoverRotation: the files, the engine, and then the journal.
RecoverOrder == [config |-> "state", state |-> "dp", dp |-> "chgrp", chgrp |-> "restart", restart |-> "unlink"]

Following == IF mode = "rotate" THEN InstallOrder[step] ELSE RecoverOrder[step]

\* Variant: an interrupted rotation is always rolled back.
AlwaysBack(d) == journal.before

\* What recovery restores when the dp file holds d: once the new generation is
\* visible it is kept.
Restored(d) == IF d = journal.after.dp THEN journal.after ELSE journal.before

\* The generation a rotation keeps for the grace window: the last one the
\* script made, or on the first run the one advertised.
Prev == IF state # None THEN state ELSE dp

\* Variant: only the new generation is accepted.
OnlyNew(gen) == {gen}

Accepted(gen) == {gen} \cup ({Prev} \ {None})

\* Where an exception leads when the dp file holds d: from a transaction whose
\* journal is written into its recovery, from anywhere else out of the script.
Throw(d) ==
  IF mode = "rotate" /\ step \notin {"prepare", "journal"}
  THEN mode' = "undo" /\ step' = "config" /\ goal' = Restored(d) /\ UNCHANGED newest
  ELSE mode' = "idle" /\ step' = "prepare" /\ goal' = Empty /\ UNCHANGED newest

Proceed == step' = Following /\ UNCHANGED <<mode, goal, newest>>

-----------------------------------------------------------------------------
(* The calls of the script.                                                 *)

\* The timer, or an operator, starts the script: it recovers first.
Start ==
  /\ mode = "idle"
  /\ journal # NoJournal \/ newest < MaxGen
  /\ IF journal # NoJournal
     THEN mode' = "startup" /\ step' = "config" /\ goal' = Restored(dp)
     ELSE mode' = "rotate" /\ step' = "prepare" /\ goal' = Empty
  /\ UNCHANGED <<files, engine, newest, previous, faults>>

\* Read the state, make a generation, write the candidate and validate it.
Prepare ==
  /\ mode = "rotate" /\ step = "prepare"
  /\ IF newest < MaxGen
     THEN /\ newest' = newest + 1
          /\ step' = "journal"
          /\ goal' = [config |-> Accepted(newest + 1), state |-> newest + 1, dp |-> newest + 1]
          /\ UNCHANGED mode
     ELSE mode' = "idle" /\ UNCHANGED <<step, goal, newest>>
  /\ UNCHANGED <<files, engine, previous, faults>>

WriteJournal ==
  /\ mode = "rotate" /\ step = "journal"
  /\ journal' = [before |-> Current, after |-> goal]
  /\ step' = "config"
  /\ UNCHANGED <<config, state, dp, readable, engine, mode, goal, newest, previous, faults>>

WriteConfig ==
  /\ mode # "idle" /\ step = "config"
  /\ config' = goal.config
  /\ Proceed
  /\ UNCHANGED <<state, dp, readable, journal, engine, previous, faults>>

\* restart() returns only when the new engine answers on its port.
Restart ==
  /\ mode # "idle" /\ step = "restart" /\ config # {}
  /\ engine' = config
  /\ Proceed
  /\ UNCHANGED <<files, previous, faults>>

\* Without a configuration the engine does not start.
RestartFails ==
  /\ mode # "idle" /\ step = "restart" /\ config = {}
  /\ engine' = {}
  /\ Throw(dp)
  /\ UNCHANGED <<files, previous, faults>>

WriteState ==
  /\ mode # "idle" /\ step = "state"
  /\ state' = goal.state
  /\ Proceed
  /\ UNCHANGED <<config, dp, readable, journal, engine, previous, faults>>

\* The renamed file belongs to root alone until its group is set.
Rename ==
  /\ dp' = goal.dp
  /\ readable' = FALSE
  /\ previous' = IF goal.dp = dp THEN previous ELSE dp

WriteDp ==
  /\ mode # "idle" /\ step = "dp"
  /\ Rename
  /\ Proceed
  /\ UNCHANGED <<config, state, journal, engine, faults>>

Chgrp ==
  /\ mode # "idle" /\ step = "chgrp"
  /\ readable' = TRUE
  /\ Proceed
  /\ UNCHANGED <<config, state, dp, journal, engine, previous, faults>>

\* Variant: the journal of a finished transaction stays.
JournalStays == journal

JournalGone == NoJournal

\* The journal goes last; a recovery at the start goes on to the rotation.
Unlink ==
  /\ mode # "idle" /\ step = "unlink"
  /\ journal' = JournalGone
  /\ mode' = IF mode = "startup" THEN "rotate" ELSE "idle"
  /\ step' = "prepare" /\ goal' = Empty
  /\ UNCHANGED <<config, state, dp, readable, engine, newest, previous, faults>>

-----------------------------------------------------------------------------
(* What may go wrong.                                                       *)

\* A call throws without an effect: a full disk, a refused chgrp, a bad candidate.
Throws ==
  /\ mode # "idle"
  /\ faults < MaxFaults /\ faults' = faults + 1
  /\ Throw(dp)
  /\ UNCHANGED <<files, engine, previous>>

\* A call throws although its file is written (the directory is not synced).
ThrowsLate ==
  /\ mode # "idle"
  /\ faults < MaxFaults /\ faults' = faults + 1
  /\ \/ /\ step = "config" /\ config' = goal.config /\ Throw(dp)
        /\ UNCHANGED <<state, dp, readable, journal, engine, previous>>
     \/ /\ step = "state" /\ state' = goal.state /\ Throw(dp)
        /\ UNCHANGED <<config, dp, readable, journal, engine, previous>>
     \/ /\ step = "dp" /\ Rename /\ Throw(goal.dp)
        /\ UNCHANGED <<config, state, journal, engine>>
     \/ /\ mode = "rotate" /\ step = "journal"
        /\ journal' = [before |-> Current, after |-> goal] /\ Throw(dp)
        /\ UNCHANGED <<config, state, dp, readable, engine, previous>>

\* The engine does not come up, or not in time.
RestartThrows ==
  /\ mode # "idle" /\ step = "restart"
  /\ faults < MaxFaults /\ faults' = faults + 1
  /\ engine' \in {{}, config}
  /\ Throw(dp)
  /\ UNCHANGED <<files, previous>>

\* The script is killed, or the node goes down under it.
Crash ==
  /\ mode # "idle"
  /\ faults < MaxFaults /\ faults' = faults + 1
  /\ mode' = "idle" /\ step' = "prepare" /\ goal' = Empty
  /\ UNCHANGED <<files, engine, newest, previous>>

\* Restart=always: the engine ends by itself or with the node and starts again
\* with the configuration it finds.
EngineReturns ==
  /\ engine' = config /\ engine' # engine
  /\ UNCHANGED <<files, script, previous, faults>>

Call == \/ Prepare \/ WriteJournal \/ WriteConfig \/ Restart \/ RestartFails
        \/ WriteState \/ WriteDp \/ Chgrp \/ Unlink
Fault == Throws \/ ThrowsLate \/ RestartThrows \/ Crash

\* The bound on generations is reached: later runs are not followed.
Enough == mode = "idle" /\ journal = NoJournal /\ newest = MaxGen /\ UNCHANGED vars

Next == Start \/ Call \/ Fault \/ EngineReturns \/ Enough

Spec == Init /\ [][Next]_vars

\* The timer starts the script again; a script that runs goes on.
Fairness == WF_vars(Start) /\ WF_vars(Call)

FairSpec == Spec /\ Fairness

-----------------------------------------------------------------------------
(* Properties.                                                              *)

TypeOK ==
  /\ Current \in Files
  /\ readable \in BOOLEAN
  /\ journal \in Journals
  /\ engine \in SUBSET Gens
  /\ mode \in {"idle", "startup", "rotate", "undo"}
  /\ step \in {"prepare", "journal", "config", "restart", "state", "dp", "chgrp", "unlink"}
  /\ goal \in Files
  /\ newest \in 0 .. MaxGen
  /\ previous \in Gens \cup {None}
  /\ faults \in 0 .. MaxFaults

\* rotation.mjs:4-5, 51: whatever the script has come to, the generation in the
\* dp file is one that the engine accepts now and would accept after a restart.
AdvertisedIsServed ==
  dp # None => dp \in config /\ (engine # {} => dp \in engine)

\* rotate-dp.mjs:2-3: between rotations, also failed and recovered ones, the
\* generation advertised before this one is still accepted.
GraceKept ==
  journal = NoJournal => {dp, previous} \ {None} \subseteq config

\* rotation.mjs:4-5: a generation that was advertised is never withdrawn for an
\* older one.
NeverWithdrawn == [][dp' # dp => dp' > dp]_vars

\* rotation.mjs:15-26: an interrupted rotation does not stay interrupted when
\* the configuration that its recovery restores is one the engine can start with.
RotationRecovers ==
  journal # NoJournal /\ Restored(dp).config # {} ~> journal = NoJournal

-----------------------------------------------------------------------------
(* The inductive invariant behind them.                                     *)

\* A transaction from the files b to the files a that may be installed.
Sound(b, a) ==
  /\ a.dp # None /\ a.dp \in a.config /\ a.state = a.dp
  /\ b.dp < a.dp /\ a.dp <= newest
  /\ b.dp # None => b.dp \in b.config /\ b.dp \in a.config
  /\ b.state \in {None, b.dp}

\* Without a journal the files are those of one rotation.
Settled ==
  /\ engine \in {{}, config}
  /\ dp # None => dp \in config
  /\ previous # None => previous \in config
  /\ state \in {None, dp}
  /\ dp <= newest

\* With a journal they are on the way from one to the other, and once the new
\* generation is visible only the journal is left of the way back.
Journaled ==
  LET b == journal.before
      a == journal.after
  IN /\ Sound(b, a)
     /\ config \in {b.config, a.config}
     /\ engine \in {{}, b.config, a.config}
     /\ dp \in {b.dp, a.dp}
     /\ dp = a.dp => config = a.config /\ engine \in {{}, a.config} /\ previous = b.dp
     /\ dp = b.dp => (previous # None => previous \in b.config)

\* What the script has done is in the files.
Rotating ==
  mode = "rotate" =>
    /\ step \in {"prepare", "journal"} => journal = NoJournal
    /\ step = "journal" => Sound(Current, goal)
    /\ step \notin {"prepare", "journal"} => journal # NoJournal /\ goal = journal.after
    /\ step \in {"restart", "state", "dp", "chgrp", "unlink"} => config = goal.config
    /\ step \in {"state", "dp", "chgrp", "unlink"} => engine \in {{}, config}
    /\ step \in {"dp", "chgrp", "unlink"} => state = goal.state
    /\ step \in {"chgrp", "unlink"} => dp = goal.dp

Recovering ==
  mode \in {"startup", "undo"} =>
    /\ step \notin {"prepare", "journal"}
    /\ journal # NoJournal /\ goal = Restored(dp)
    /\ step # "config" => config = goal.config
    /\ step \in {"dp", "chgrp", "restart", "unlink"} => state = goal.state
    /\ step = "unlink" => engine \in {{}, config}

IInv ==
  /\ TypeOK
  /\ journal = NoJournal => Settled
  /\ journal # NoJournal => Journaled
  /\ Rotating
  /\ Recovering
=============================================================================
