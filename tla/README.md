# MagnetGate in TLA+

MagnetGate is a private VPN: nodes that advertise themselves through the BitTorrent DHT and Nostr,
clients (desktop, Android, command line) that find them and carry streams to them over several
transports, and an access service that sells time for personal codes, also by one-way payment
channels. This directory holds TLA+ models of the parts in which several actors act at once or may
stop half way, the TLC configurations that check small instances of them, and TLAPS proofs for
instances of any size.

    tlasany M.tla                     parse a module
    tlc -workers 2 -config X.cfg M    check a run (the list is below and in PROJECT.json)
    tlapm M_proofs.tla                check the proofs of a module

`PROJECT.json` lists the components, the runs, for every definition the lines it models, the
hazards of the code with the properties that watch them, a mutant for every property and the
theorems.

## 1. The system

| part | code | its state | what it does | what makes it hard |
|---|---|---|---|---|
| access service | `web/server.py`, `payments.py`, `channels.py` | SQLite: accounts, devices, issues, deposits, channels | issue, claim, report, credit, channel open / pay / close | a thread per request and one for payments; the lock is released around calls of a wallet binary and a chain API |
| channel wallet | `app/channel-wallet.cjs`, `public-access.cjs`, `ChannelWallet.kt` | three files, the chain | propose, fund, pay ahead, close, refund, swaps | operations overlap at every await; requests lost or late |
| plane health | `core/health`, `pool/firstbyte.go`, `src/health.mjs` | per (server, plane): failures, pause, demotion | Fail, Ok, Slow, Usable, Degraded | verdicts arrive late, from many streams |
| client pool | `core/pool`, `src/client.js` | order of pairs, sessions, round robins, pauses | find exits, dial, fail over, share sessions | many awaits over shared maps; a race of opens with a hedge and a rescue |
| SOCKS front ends | `src/socks5.mjs`, `core/socks` | a request | connect, relay | the application leaves at any time |
| session multiplexer | `native-client.mjs`, `exit-session.mjs`, `bounded-write.mjs` | streams and relays of a session | open, data, half close, datagrams | an end at either side races an opening at the other |
| UDP carrier | `src/udpsess.mjs` | window, unacknowledged and early fragments | handshake, write, acknowledge, resend | loss, repetition, delay; conversations that outlive a stream |
| data-plane engines | `src/dp-supervisor.mjs` | engines by endpoint, reference counts, processes | connect, release, idle stop, stop | promises, timers and processes that end by themselves |
| credential rotation, state files | `scripts/rotate-dp.mjs`, `src/rotation.mjs`, `state-file.mjs` | config, state, dp file, journal | rotate, roll back, complete | a crash or an error between any two writes |
| exit and rendezvous | `src/exit.js`, `client.js`, `offer.mjs`, `nostr.mjs` | last file seen, publication, the client's offers | poll, publish, deliver, merge | two channels that lose, repeat and reorder |
| desktop application | `app/main.js`, `engine.cjs`, `app/*.cjs` | wish, chain of operations, engine, client, firewall, health | connect, disconnect, switch, follow offers, quit | two child processes, timers, a probe and the user between the awaits |
| peer exit | `core/peer`: `client.go`, `presence.go`, `exit.go`, `carrier.go`, `lease.go`, `store.go` | consent and its epoch, sessions, policy and interlock on the disk | share, pause, pair, serve, withdraw | five threads tell the service of it, each in its own time |
| peer service and guests | `core/peer`: `service.go`, `catalog.go`, `guest.go`, ... | exits, guests, reservations, leases, budget | list, reserve, pair, renew, sweep, revoke | revocation against registration and pairing |
| node agent, administration | `web/node_agent.py`, `admin_*.py`, `site_bridge.py` | profiles on the node, traffic counters | apply, report | lost and repeated reports |
| Go rendezvous | `core/agent`, `dht`, `nostr`, `offer` | as the client's | as the client's | as the client's |
| Android application | Kotlin sources, `core/mobile` | service, tunnel session | start, stop, watchdog | the platform's life cycle |
| address and configuration checks, interfaces, build | the rest | none to speak of | | |

How they meet: the **rotation** writes the dp file, the **exit** polls it and publishes offers, the
**client** merges them and routes the **SOCKS** requests to (exit, plane) pairs; for a native pair it
shares one **session** per exit, over TCP or the **UDP carrier**, and for the others it asks the
**engines** for a connection. The Go client's pool does the same with a hedged dial and the **health**
policy. The **desktop application** starts the client and the tunnel's engine, and follows what the
client found. A **peer exit** tells the **peer service** whether it shares, is offered guests by it and
serves them through the service's relay. The **channel wallet**, part of the desktop application, pays
the **access service** over HTTP; the **node agent** fetches from the service whom a node must let in
and reports the traffic.

What makes each correct, in a sentence: an account has the minutes its payments buy and no state is
collected that was not paid; a wallet risks the few minutes paid ahead, and no opening takes its refund away;
a pair climbs one step of the ladder per event and a pause ends by itself; a dial returns one
connection and closes all others; requests share one session per exit, end or are served, and leave
nothing behind; what a stream delivers is what was written, in order, and both sides of a session agree
on what is open; one process runs per port and no used engine is stopped; what is advertised is served
at every moment, crashes included; a client follows the newest publication and never mixes two; the
application ends in what the user wants and a disconnect holds; a device shares only under the consent
that its owner last gave, and what was opened under an earlier one ends.

## 2. Modules

| module | models | extends / uses | proofs |
|---|---|---|---|
| `ChannelLedger` | what payment channels promise (abstract) | | |
| `PaymentChannel` | `server.py` channel_open / pay / close, watch_payments, close_due, the chain | refines `ChannelLedger` | `PaymentChannel_proofs` |
| `Wallet` | `channel-wallet.cjs`, its callers, and the service a request at a time | | `Wallet_proofs` |
| `PlaneHealth` | the policy and the streams that feed it | | `PlaneHealth_proofs` |
| `HedgedDial` | `dialCandidates`, `dialHedged` and its goroutines | uses `Kept` | `PlaneHealth_proofs` |
| `Kept` | a pass over a list that keeps some of it | | |
| `Client` | `client.js` with `socks5.mjs`: discovery, routing, sessions, relays | uses `Kept` | `PlaneHealth_proofs` |
| `SessionMux` | `native-client.mjs` and `exit-session.mjs`, both ends of one session | | `SessionMux_proofs` |
| `UdpSess` | `udpsess.mjs`: client stream, exit demultiplexer, network | | `UdpSess_proofs` |
| `DpPool` | `DpPool.connect` / `release` / `stop` over `DpSupervisor.ensure` / `stop` | | `DpPool_proofs` |
| `Rotation` | `rotate-dp.mjs` over `rotation.mjs` and `state-file.mjs` | | `Rendezvous_proofs` |
| `Rendezvous` | the exit's publication and the client's merging, **composed** with the rotation | extends `Rotation` | `Rendezvous_proofs` |
| `Desktop` | `main.js` and `engine.cjs`: operations, processes, firewall, probe | | `DpPool_proofs` |
| `PeerExit` | a device that shares its connection, the service's entry of it, and the messages between them | | `PeerExit_proofs` |
| `MC...` | constants and symmetry for TLC | the module named | |

In every module an action is one atomic step of the code: the statements under one lock, or between
two points where another actor can run (an unlock, an `await`, a channel operation, a file system
call that may be the last before a kill). Definitions keep the names of the code where they can.
`Variant` operators beside a definition are plausible bugs; they are used only as mutants, each of
which must break the property it is listed with. Every component module states a `TypeOK`, and it is a theorem. A proof module may
hold the theorems of several components of one subject, which it extends side by side; that is why
`Client`, `Desktop` and `HedgedDial` name their specifications `SpecClient`, `SpecDesktop`, `SpecDial`, and so on.

**PaymentChannel.** A request thread is `pc[t]` with its locals `arg`, `cur`, `amt`; a locked
section is an action (`OpenBegin`, `OpenCommit`, `PayBegin`, `PayCommit`, `CloseBegin`,
`CloseCommit`, `CloseDue`), the unlocked wallet and chain calls between two of them are another
(`OpenCheck`, `PayCheck`, `CloseRead`, `CloseSend`). The table is `row`; a signed state is named by
the atoms it pays. The chain is external: a device funds or refunds, blocks come, the service may
crash (locals are lost, the database stays). Signatures, keys, JSON and HTTP are left out; a
proposal or a state that does not parse is one that is never sent.

**Wallet.** `proposed`, `file` and `hex` are proposed.json, channel.json and state.hex. A payment is
`idle`, has its status (`seen`), waits for its tool to `sign`, has seen it end (`signed`) and reads state.hex, or
has `posted`; the opening waits for the height, for the answer to its proposal, or for the tool that funds. Whatever
waits may fail (`Fails`), and what it posted, or its tool does, is then lost or comes `late`. Of the requant-wallet
binary, which is external, it is assumed that `channel pay` reads channel.json when it begins and writes that channel
back together with state.hex when it ends, in one step, as the stand-in of the tests does, and that `channel fund` sends the
deposit of the channel it began with, once; `channel open` either makes its proposal before it is given up or not at all. The
await between the tool's start and its end is the point: the files may name another channel by then, and the code
does not look. The service handles one request at a time (what overlaps inside it
is `PaymentChannel`'s), with the same rules: `TakeProposal`, `TakeState`, `TakeClose`, `CloseDue`.
`status` "over" stands for dropped, abandoned and expired, which the wallet does not tell apart.

**PlaneHealth.** `entry[p]` is the policy's record; each verdict is one action because the policy
takes its lock for all of it. A stream is `opening` (a dial), `live`, or `closed` with a read still
under way; it judges its pair when it opens and by its first byte, its silence or its end. `last`
marks last resorts, whose failures do not count.

**HedgedDial.** One dial: the loop of `dialHedged` is the `Dialer`, one `Opener(k)` per launched
open, `k` its place in the launches. The results channel is unbuffered, so handing over a result is one step of
both. Timers are `armed`, `fired` (their channel is full) or `off`. The other streams of the pool change health at
any time, and the code reads it pair by pair, each time under the policy's lock: so what a dial reads is anything,
and anew at each reading. Each of the two rounds of `dialCandidates` has its own sighting of every pair (`seen[1]`,
`seen[2]`), the last resort may be any offered pair, and the rescue finds any of the native candidates healthy. A pair
that changes between the rounds is then in both, and opened twice, or in neither; when that empties the list and
nothing was paused in the first round, the dial ends at once with `noPlane`. `Rotation`, `HintFirst`,
`OtherServerNext` are the pure ordering, over sequences; a round's pass over the pairs is `Only` of `Kept`, which says
which pair comes k-th instead of recurring over the sequence, so that it can be reasoned about.

**Client.** `known`, `fresh` and `lookup` are the exits learnt, those with an offer young enough, and the
pending lookups; `sessions`, `pending`, `dialing` and `live` are the pool's two maps and what is really
there, so that a connection nobody finds shows. A request of an application is `app[a]`, with the copies of the
exits it took, the pair it is at and how far it has come; the exit stays the same over its planes and the next one
is counted from where the round robin stands by then (`PairAt`); each await of `route`, of the session's dial and of the
opening of a stream or relay is a place of its own. What an offer says is `Rendezvous`' matter, what goes
on inside a session `SessionMux`', in an engine `DpPool`'s.

**SessionMux.** Two ordered queues of frames, `toExit` and `toClient`, and the two ends: `entry`, `answer`,
`ended` of the client, `up`, `half`, `tracked`, `relay`, `looking`, `udp` of the exit. A destroyed socket
reports its close in a later step. A full upstream socket pauses the reading of the whole session
(`paused`) at once; the code goes on with the frames of the chunk it has (`common.mjs:366-407`), so that two
upstreams full at the same time are not reached here. The network may be cut, after which only timers act. Encryption and padding are the order of
the queues.

**UdpSess.** `net` is every datagram ever sent: any of them may arrive at any later time, any number of
times, or never, which covers loss, repetition and reordering at once. The map of unacknowledged
fragments is an interval `base .. nextSend - 1`, because acknowledgements are cumulative. End 0 is the
client's stream, end i the i-th that the exit opens for the same conversation number.

**DpPool.** `chain[e]` is the promise chain of a supervisor, `phase[e]` where its head is; a rejected
link makes the next one throw without running (`broken`). A process is started, up, killed or gone,
and ends by itself at any time.

**Rotation.** `mode` and `step` are the script's place, `goal` what it writes; `Throw` is an
exception that reaches the transaction's `catch` (which recovers) or leaves the script. Every call
may throw before its effect (`Throws`) or after it (`ThrowsLate`: the rename is done, the chgrp or
the directory's fsync failed), the engine may not come up (`RestartThrows`), and the script may be
killed anywhere (`Crash`). The content of a file is the generation it names; generations are
random in the code and numbers here, which only makes "newer" sayable.

**Rendezvous.** `pubs[t]` is what the t-th publication said; both of its views may be delivered in
any order, again, or never, so nothing else of the network is needed. `HandleOffer` is `handleOffer`
with `mergeOffer`.

**Desktop.** `ops` is the promise chain, its head running at the await `pc`; an operation carries the
`intent` it was made for. `lastSig`, `applied`, `engineSig` and `pending` are the application's marks of
what it believes applied, `engine`, `runs`, `client` and `guard` what is. A probe remembers whether it measures
the present run of the engine or an earlier one (`NewRun`: another process or mode, with other settings or the
same), and whether the code would find it stale. `Connect` may come while the tunnel is wanted, as the window
sends it after each change it saves (`renderer.js:263`): it supersedes the running operation without
cancelling it, and inspects again. Settings stand for the configuration file: strict (full mode with the kill
switch), full, split, and the two other sources of endpoints. Windows is modelled.

**PeerExit.** Five threads may speak to the service: the owner's call (`SetPolicy` to its end), the reader
of the control connection, its ticker, a flow whose charge was refused (`pause`), and the host
(`SuspendExit`). `pc[t]` is where each is and `out[t]` the message it composed under the client's lock and
has yet to send; `up` and `down` are the connection's two directions, in order, lost when it breaks.
`node` is the catalogue's entry, `handling` the presence whose pairs the service has closed and whose
entry it has yet to change. A pairing is `offered`, `pairing` (the relay, TLS and admission), `leased`,
`serving` (the session is one of the client's) or `closing` (closed, its goroutine not yet gone);
`ticket` is the epoch it was offered for. Epochs are random in the code and counted here, which no
comparison of the model uses but equality. Reads that the code makes just before it takes the lock (the
network's readiness) are part of the step under the lock. The service notices a lost connection at once; in
the code it may take one `PresenceTTL`. Quota and rate limits are not counted: a charge may be refused at
any time.

## 3. Runs

| run | instance | shows |
|---|---|---|
| `channel_safety` | two channels, two request threads, the payment thread, heights 1..4, no failure or restart (those the theorems cover) | `PaidIsNotDiscarded`, and that the service implements `ChannelLedger` |
| `channel_live` | two channels, one request thread, one fault | `OpenChannelSettles`: the payment thread closes what is due in the end; that it does before the client's refund is valid is not stated, as nothing bounds how fast blocks come |
| `wallet` | the timer's payment and a connection's, one opening, one close, two channels one after the other, deposits of three steps and of one, one fault | `SignedAhead`, `FileIsKept`, `SignedIsTaken` |
| `hedge_race` | two servers, three offered pairs, any health in each round, every interleaving | a dial leaks nothing, gives up only when all failed, orders its candidates by what each round saw, judges only real failures, and ends |
| `health_ladder` | two pairs, two streams, seven instants | `EscalationTakesTime`, `PauseIsNotFed` |
| `engines` | one endpoint, two engines, two connections | one process per port, streams survive, idle engines stop, connects are answered |
| `rendezvous` | three generations, one fault of the rotation or the exit | what is advertised is served and not withdrawn, the grace window, recovery; the client never mixes, never goes back, and follows |
| `peer_consent` | one pairing, one call of the owner, one event | `SessionsAreCurrent`, `SharingIsMarked`, `WithdrawalEnds` |
| `udp_arq` | three fragments one way and one the other through a window of two, one retransmission, two exit streams | `InOrder`, `AckedIsDelivered`, `HonestPeersAgree`, `WriteSettles` |
| `session` | two identifiers, one place at the exit, two data frames, one lookup, a cut | `NothingIsOrphaned`, `SidesAgree`, `EverythingEnds` |
| `desktop` | five settings, three acts of the user, two faults | `HealthIsCurrent`, `DisconnectHolds`, `SettlesAsWanted` |
| `client` | two exits, the second learnt from the first, a TCP request and another TCP, which move the round robin under each other, a UDP or a direct one | `SingleConnection`, `NothingDangles`, `ClientSettles` |

### Bounds

* `PaymentChannel`: `Deposit` 3 or 4, `Fee` 1, `Price` 2: a state buys nothing, a minute exactly, or a
  minute and a rest, so rounding down and carrying over both happen. `MaxTip` 4 with `Expiry` 4: a channel
  can be proposed, funded, confirmed, paid, closed by the margin and refunded. Two request threads and
  the payment thread are enough for every race of two locked sections with a third between them; two
  channels for a second one that is proposed while the first lives.
* `Wallet`: three steps fill a deposit, so that a payment can be resent, be one step behind, and be the last, and
  so that the bound of two steps ahead says something; two payments overlap as in the code (the timer's and a
  connection's); two channels, so that a payment meets the status, and a slow tool the file, of the one before: for that
  a deposit of one step is enough for the second; one fault, which may be any await, with its request lost or late.
* `HedgedDial`: three pairs: with two the hedge, the rescue and a retry cannot all be under way; the
  second server is needed for "another server", the shared one for the two transports of one host. `MaxChoices` 4:
  all three and one of them twice, or two of them twice; longer lists, of more pairs demoted between the rounds, are
  left to the proofs, which know no such bound but in the set of first states.
* `PlaneHealth`: a ladder of three rungs, a failure window of 2 and seven instants, so that failures
  fall in one window and in two, pauses end, and a verdict comes after the pause it met.
* `DpPool`: `Limit` 1 with two engines: one is in the map, one may still run outside it. Two
  connections share, release and re-acquire.
* `Rendezvous`: three generations: two of the grace window and one that is newer. One fault, shared by the
  rotation and the exit; the exit's views of three generations are many, and a second fault takes the
  run past its time. So a recovery that fails itself, and a node never rotated before, are with the proofs,
  which hold for any number of faults and both kinds of node; only `RotationRecovers` is checked with one
  fault alone. `MaxStamp` bounds publications that say nothing new; one that has something to say is
  always allowed, so the bound hides no change.
* `PeerExit`: `Sessions` 1, `MaxCalls` 1, `MaxEvents` 1: one withdrawal of the owner and one of anything
  else (or a kill, a failed write, a lost connection) overlap with each other and with a pairing at every
  step. Two events give about three million states, too many for the liveness property; the
  safety ones are proved for any numbers. Guests open pairings again and again, which needs no bound.
* `UdpSess`: a window of two and three fragments: one early, one lost, one outside the window. Two streams
  of the exit: one that a delayed HELLO opens after the first was closed or swept.
  `SeqEnd` 5 is just above what three fragments reach, as 2^32 is out of reach in the code: a stream that
  came to it would be closed (`Exhausted`), never wrapped.
* `SessionMux`: one place at the exit (`MaxStreams`) and two identifiers: the second opening is refused while
  the first lives and accepted after it. `MaxQueue` 2 with two frames: a full upstream socket.
* `Desktop`: three acts: connect, a saved change, and the connect that applies it; connect, disconnect, connect; or a quit between; two
  faults: an operation that fails and a process that crashes while it is repaired.
* `Client`: two exits, one with an engine plane, one expiry: copied offers that are too old, pairs paused by one
  request under the other, a queue of one datagram.

Deadlock is not checked where the system may rest: `DpPool` (stopped), `UdpSess`, `SessionMux`, `Desktop` (all
closed or quit), `Client` (no more requests), `Wallet` (both channels used up). Elsewhere it is;
`HedgedDial` and `Rotation` name their ends (`Finished`, `Enough`).

### Fairness

Weak fairness but for one action. `PaymentChannel`: the payment thread polls for ever (`watch_payments`), a
handler that has started is run to its end by its thread, blocks keep coming; nothing makes a client act.
`Wallet`: the timer of twenty seconds asks again and its payment goes on; nothing makes the user act, the
other payment go on, or a block come. `HedgedDial`: goroutines that can go on do, an open ends by its own
timeout (`OpenTimeout`), timers fire. `DpPool`: promises settle, timers fire, dials have timeouts, a killed
process exits; nothing closes a live connection. `Rendezvous`: the daily timer starts the script again and a
running script goes on, the exit's timers fire, its scan ends (each lookup has a timeout of 5 s), and some
offer of the newest publication keeps arriving, which is what polling every 30 s and the relays' replay
amount to. `PeerExit`: each thread and the service go on (writes have deadlines of 3 s), the ticker comes
round each second, and a pairing's setup ends after 8 s; that a lease runs out, a guest leaves or a renewal
is refused is not assumed: the property shows that withdrawal does not wait for it. `UdpSess`: the timers of the
ends tick (retransmission, the handshake's limit, the exit's idle sweep); the network need not deliver
anything. `SessionMux`: the timers fire, what arrived is read, a destroyed socket reports its close, a lookup of an
address ends; an upstream need not answer, and a full one need not drain. `Desktop`: operations and ticks go
on (each await has a timeout), offers arrive in the end; nothing makes the user act.
`Client`: polling, awaits that settle, and strong fairness of a lookup that finds its exit's
offer: a lookup is repeated for ever, may fail any number of times, but not every time.

## 4. What is proved

TLAPS proves these for any channels, threads, payments, amounts, pairs, streams, windows, generations, faults
and publications:

* `PaymentChannel_proofs`: `TypeCorrect`, `AccountingHolds`, `ConfirmedHolds`, `NotDiscardedHolds`,
  `NeverOverCollectsHolds`, and `Refinement`: the service implements `ChannelLedger`.
  The properties are not inductive by themselves: what a thread read before it released the lock
  must still hold when it acts. `ThreadsOK` says what each place of a thread still knows (that the
  deposit was confirmed once, that the amount it carries was stored), and `ChannelsOK` relates the
  columns of a row. They survive because payments and confirmations only grow (`Grows`), which is
  the lemma on which the steps of the other threads rest. Integer division needs three lemmas of its
  own (`DivRoundsDown`, `DivUnique`, `MinutesAdd`). `Accounting`, `CreditedIsConfirmed` and
  `NeverOverCollects` are in no run any more: the ledger implies the first and the last.
* `Wallet_proofs`: `TypeCorrect`, `FileIsKeptHolds`, `SignedAheadHolds`. The invariant adds that the service holds
  only the channel it saw last (`Service`), that what the files name and the tools work on are channels it has seen
  (`Files`), and what an opening may rely on after its await (`Opening`): it asked for the height when the service held no
  channel with the wallet's deposit, and while it waits none comes to (`NoneOwned`), because deposits are sent by the
  opening itself only. `ServiceStep` is what every request, early or late, guarantees of the service. All actions
  but two are of one form (`Keeps`: no tool begins, no opening is accepted), for which each part of the invariant and both
  properties are shown once; `SignMore` and an accepted `TakeOpen` are the two.

  What is signed ahead is bounded by a finer count: a payment is `Eager` whose status, of an earlier channel, says
  more than the service has taken of its newest one, because it may sign one step more than the file has, and `Covered`
  allows what is signed, or about to be, a step for each of the *other* payments. One that signs is eager no more, and
  so allows its own step (`AllowedGrows`); no payment comes to be eager, because a status is of the newest channel; and of
  a channel that becomes the newest nothing is signed yet. `FileIsKept` is
  a property of steps, and exempts the one step that breaks what it is for (section 5).
* `PlaneHealth_proofs`: `TypeCorrect`, `EscalationHolds`, `PauseHolds`. The invariant adds that a
  stream that is not a last resort began when its pair was usable, so a failure it reports during a
  pause stems from before it.

  Of `Client`: `ClientTypeCorrect`, `SingleConnectionHolds`, `NothingDanglesHolds`. `RouteInv` is the first of them and, for each
  request, what its place still says of the pair it carries (`Fit`): one that waits for a session has a native
  pair, one that opens a stream or has it open has a session that lives. It holds whatever discovery does. The types need more:
  each exit is learnt once (`Learnt`), and a request that goes through its candidates has some (`Listed`), so that the
  round robin never divides by zero.

  Of `HedgedDial`: `DialTypeCorrect`, `NoConnectionLeaksHolds`, `ErrorIsExhaustedHolds`, `OnlyFailuresArePausedHolds`,
  `OrderedByHealthHolds`. The first candidates are put together in steps that each have a lemma: the rotation visits
  every pair once, by rows and columns (`Rotated`); a pass of a round keeps those of one health, each once and in
  order (`OnlyOnce`, by the rank of an element in a finite set); the hint and the other server move one pair
  forward and lose none (`MovedKeeps`); so each round is a list of what it saw (`RoundIs`, `RoundSpreads`), and the two
  can be told apart in their concatenation (`InTwo`, `CandidatesAre`). Nothing is assumed of how the two
  sightings are related. The race rests on three facts: opens are numbered as they are launched, and a
  rescue moves only candidates that are not (`LaunchKeeps`, `RescueTakes`); an open connection has one holder, an
  opener, the dialer or the caller (`Held`); and `active` counts the openers that have yet to report, so that when the
  last error comes all candidates have been launched and none is out (`LastOne`).
* `UdpSess_proofs`: `TypeCorrect`, `StreamIsOrdered`, `AckedHolds`, `HonestPeersHold`. The invariant ties the counters
  of the two ends to each other through what is in the network (`Datagrams`): a fragment there was sent, an
  acknowledgement there is at most the receiver's next number, and the receiver never passes the sender
  (`Received`, `Acked`). With the sender's window (`Windows`) the checks of the receiver then cannot fail for the
  client's stream or the first of the exit's; `Places` keeps the later ones apart.
* `DpPool_proofs`: `TypeCorrect`, `OneProcessPerPortHolds`, `StreamsSurviveHolds`. A process runs exactly when the
  supervisor knows of one (`Procs`). That no stream is killed rests on the order of an engine's chain: an idle
  timer runs only while nobody uses the engine (`Counts`: the count of an entry is the number of its
  connections), so that whoever comes after the timer has put its stop into the chain waits behind it
  (`Waiting`, `Behind`), and has no stream when the stop is run.

  Of `Desktop`: `DesktopTypeCorrect`, `HealthIsCurrentHolds`, `DisconnectStays`. Each operation of the user has a token of its own
  (`Turns`), so where no tunnel is wanted none that still waits may connect for the last intent (`NotWanted`), and what
  a disconnect has stopped stays stopped (`Off`). Health is current because nothing that counts is measured
  while the engine is exchanged (`Measures`), and `Awaits` says at which awaits that is. The chain is bounded because one tick
  waits in it at most (`OneTick`).
* `Rendezvous_proofs`, of `Rotation`: `TypeCorrect`, `AdvertisedHolds`, `GraceHolds`, `NeverWithdrawnHolds`, on rotated
  and never rotated nodes. `IInv` describes the files without a journal (`Settled`) and with one
  (`Journaled`: they lie between the journal's `before` and `after`, and once the new generation is
  visible only the way forward is left), and ties them to the script's place (`Rotating`,
  `Recovering`).

  Of `Rendezvous`: `RendezvousTypeCorrect`, `HeldIsWholeHolds`, `HeldNeverOlderHolds`, over the composed
  specification. The invariant is that what a client holds is one publication or a view of it.
* `PeerExit_proofs`: `TypeCorrect`, `SessionsAreCurrentHolds`, `SharingIsMarkedHolds`. The invariant adds to the
  types that a thread about to send has a message. It is split in five parts (`Flags`, `Numbers`, `Places`,
  `Messages`, `Pairs`) that are preserved one after the other; in `Pairs` the steps that open or end a
  pairing rest on `BecomesKeeps` and `OverKeeps`.
* `SessionMux_proofs`: `TypeCorrect`, `NothingIsOrphanedHolds`, `SidesAgreeHolds`. That the sides agree at rest is a
  matter of what is on its way. `Life` says that an identifier has one life and is a stream or a relay, `Before`
  that nothing is opened before the handshake, and `Agree`, of each identifier, which frame in the two queues will tell
  the side that is behind: an end behind every opening that its sender has given up (`Followed`), an answer or an
  end for everything the client waits for. At rest the queues are empty, and what remains is `SidesAgree`.

The assumptions are those on the constants (`ChannelAssumption`, `WalletAssumption`, `HealthAssumption`,
`DialAssumption`, `ClientAssumption`, `MuxAssumption`, `UdpAssumption`, `PoolAssumption`, `DesktopAssumption`,
`RotationAssumption`, `RendezvousAssumption`, `PeerExitAssumption`), which TLC evaluates in the runs. Of
the sets only `Payments`, the pool's `Conns`, the exits and the dial's pairs are assumed finite, because they are counted
or put in an order.

So every safety invariant and every action property of the runs is a theorem. Only model-checked are the
liveness properties (`OpenChannelSettles`, `SignedIsTaken`, `DialSettles`, `ClientSettles`, `EverythingEnds`,
`WriteSettles`, `IdleEngineStops`, `ConnectAnswers`, `RotationRecovers`, `ClientFollows`, `SettlesAsWanted`,
`WithdrawalEnds`), because fairness and ENABLED are out of the prover's reach. Induction over data is out of
reach too: that is why sums are carried as state, passes over lists are `Only` and not `SelectSeq`, and no property is
stated over a recursive definition; no module here declares a RECURSIVE operator.

## 5. Deviations: where the code does something else

Met while modelling. Properties are stated so that they hold with the behaviour or say where they stop. The models
contain it but for what lies in a part left out: the purchase that `advance` loses, two full upstreams of one session, how
long a retransmission waits, how a stream's end tells a reset, and macOS's authorization.

Access service
* Two overlapping channel_open of one account both pass "This code already has a channel: close it first"
  and insert a live row each: the check and the insertion are in two locked sections (`server.py:300`, `314`).
* `close_channel` sends the state it read, which may be older than the last one paid (`server.py:388`, against
  `channels.py:5-6`). A service that stops between sending and recording (388-390) finds the deposit spent
  afterwards and leaves the row open for ever.
* A close that overlaps the first payment may mark a funded, paid channel abandoned (386, against 379), and
  `channel_pay` sets a row to `open` whatever it became meanwhile (353, against 51).

Wallet
* A proposal that the service refuses for good is posted again by every opening, so that no other can be made.
* `open()` deletes channel.json, with its signed refund, of an abandoned or expired channel whose deposit is
  unspent (`channel-wallet.cjs:91`); the interface offers the refund and a new channel side by side.
* `channel pay` runs for up to a minute on channel.json by name (`channel-wallet.cjs:120`), and nothing keeps a close and an
  opening from going on meanwhile. A tool that ends after them writes the old channel back over the live one's, whose refund
  is then gone (against `PAYMENTS.md:223`, "if the service never closes, the user takes the deposit back at the expiry"):
  the model does so too (`Writes`), and `FileIsKept` exempts that step. On the old channel payments may then sign past every bound, as they compare it with the newest one's
  status; the service takes none of it.
* A fund that fails after channel.json is written is not tried again, and `keepPaid` resends for ever.
* `keepPaid` compares the file with the service's newest channel without looking whether they are the same
  one, and may then sign a second step (against the comment of 129-130); overlapping payments may each sign
  one. `SignedAhead` states the bound that holds, of the newest channel.
* `advance` saves, after its awaits, the list it read before them, and loses a purchase that `buy` added meanwhile.

Client, pool and health
* A silent stream clears the failures of its pair when it demotes it (`health.go:203`, against 196-197).
* `dialCandidates` reads the health of every pair twice, once a round: a pair may be in both, and
  opened twice at once, or in neither, and a dial end with `noPlane` while pairs are offered (`hedge.go:87`).
* A stream closed by its owner while a read awaits the first byte counts as a failure of its pair
  (`firstbyte.go:93`, against 107-108; the silence timer races the close the same way, 41).
* Requests share the round robin, so one may try an exit twice and skip another (against the comment at
  `client.js:440`); a request that was cancelled, or whose copy of an offer expired, pauses a healthy pair; a session
  closed by what was left of its handshake stays in the pool for ever, as `destroy` returns early and `sessions.has` goes
  on finding it, and every request over it fails (`native-client.mjs:183`); a lookup that never calls
  back stays pending.

Sessions and the UDP carrier
* A stalled upstream pauses the reading of the whole session, and the client's ping then ends it after 30 s.
  The drain of the first of two full upstreams resumes it although the second is still full.
  The client's own writes name no source to pause, so a fast upload that fills 4 MiB ends the session instead
  of slowing (against the comment of `bounded-write.mjs`); over UDP nothing slows a writer at all.
* A reset of the upstream reaches the application as a clean end.
* `udpsess.mjs:8` says "with backoff"; the timeout is constant. After a delayed HELLO the client may be handed
  fragments of two of the exit's streams (`InOrder` says so with `opened`).

Engines and rotation
* A connect during the idle stop keeps an engine that the map then forgets (`dp-supervisor.mjs:306`, against 265
  "Engines are keyed by complete endpoint generation").
* On a node that was never rotated a rotation interrupted before its publication cannot be rolled back:
  the engine cannot start without the configuration, the journal stays, and every later run ends there
  (`rotation.mjs:16`, against 4).
* A publication that meets the dp file between its rename and its chgrp advertises no engine plane, and
  when the same contents were written again the poll sees no change, so that it stays the last one
  until the next period (`exit.js:417-424`, `rotate-dp.mjs:76-79`).

Desktop application
* `lastSig` is kept when a restart begins, or a stop fails, so that a change taken back half way counts as
  applied (`TakenForApplied`; against `main.js:566` "Strict policy survives process failure"), and a connect after a
  failed stop leaves an engine that is never ready.
* "Connected" may be shown while an engine that did not stop is not ready. A failed inspection
  leaves the engine running while the application is off, after a disconnect and a connect, or when the window
  applies a saved change to a tunnel that works (`renderer.js:269`, `main.js:637-654`). A change of source just after a connect
  passes the inspection of other tunnels by. On macOS a refused authorization switches off without
  looking whether it is still asked for. A lost guest does not raise the revision that a tick looks at.

Peer exit
* Between the lock of `SetPolicy` and the write another thread may list the old consent under the new
  epoch, so that `End` may find an open session (`client.go:172`, against `store.go:185`), which the service
  then ends (`WithdrawalEnds`).
* A charge refused under the old policy may pause the sharing enabled after it (`exit.go:246`); an
  acknowledgement that meets an uncertain network is dropped and nothing publishes again, so that an exit may
  stay in PREPARING (`presence.go:148`).

## 6. Not modelled

Cryptography (a seal or a signature holds or the message is not one), formats and limits of size, logging, user
interfaces, operating-system glue of the desktop and Android applications, and one-shot scripts. Of the
modelled parts: rule sets and update manifests, the publication's sequence number, the candidate file and
`keep.json` of the rotation, the SOCKS handshake of an engine's connection, the limit of 512 UDP
conversations, the preference for a country, macOS's authorization of the engine, the purchases of
the wallet, `Stop` and the quota of a peer exit, statistics. Whole components: the node agent and the
administration, the Android application (calls to the platform around the Go core, whose logic is in
`HedgedDial`, `PlaneHealth` and `PeerExit`), the Go port of the rendezvous (the rule it merges by is
`Rendezvous`), and pure functions over addresses and configurations.

What would come next, in order: `PeerService` (reservations, leases, sweeps, revocation) composed with
`PeerExit`; the accounts of `server.py` with the node agent that applies and reports; `Wallet` over
`PaymentChannel` instead of its own service; the reuse of native sessions of the Go pool.
