---------------------------- MODULE Wallet_proofs ----------------------------
(***************************************************************************)
(* For any channels, payments, amounts and faults: the wallet's state      *)
(* keeps its types, no opening takes the file of a channel that the        *)
(* service holds with the wallet's deposit, and what is signed of the      *)
(* newest channel stays a step per payment ahead of what the service took. *)
(***************************************************************************)
EXTENDS Wallet, FiniteSetTheorems, TLAPS

\* What may be signed and paid: nothing, or a part of a deposit.
LEMMA SumsAre ==
  /\ 0 \in Sums /\ \A n \in Sums : n \in Nat
  /\ \A c \in Channels : Most[c] \in Nat /\ \A n \in 0 .. Most[c] : n \in Sums
<1>1. \A c \in Channels : Most[c] \in Nat
  BY WalletAssumption
<1> QED BY <1>1 DEF Sums

ServiceTypes ==
  /\ row \in [Channels -> [status : Statuses, paid : Sums]]
  /\ newest \in Channels \cup {None}
  /\ deposit \in [Channels -> {"no", "sent", "confirmed", "ending", "spent"}]

\* What the service holds: one channel, the newest, and deposits of known channels.
Service ==
  /\ ServiceTypes
  /\ \A c \in Live : c = newest
  /\ \A c \in Channels : row[c].status = "none" => deposit[c] = "no"

\* What is signed: what the file says, and what tools are about to write.
AllSigned == Unwritten \cup {file}

Amount == [channel : Channels \cup {None}, paid : Sums]

\* What the wallet's files name, and its tools work on, is a channel the service has
\* seen; what is signed is in state.hex.
Files ==
  /\ \A u \in AllSigned : u.channel # None => row[u.channel].status # "none"
  /\ \A p \in Payments : pay[p].at \in {"sign", "posted"} => pay[p].channel \in Channels
  /\ file.paid > 0 => hex.channel # None
  /\ funding # None => row[funding].status # "none"
  /\ \A c \in Channels : Funds(c) \in late => row[c].status # "none"

\* Where an opening stands: what it posted is in its file, what it funds is known, and
\* while it asks for the height no channel of the service has the wallet's deposit.
Opening ==
  /\ opening = "posted" => proposed # None
  /\ opening = "fund" <=> funding # None
  /\ \A c \in Channels : Owned(c) => file.channel # None
  /\ opening = "height" => \A c \in Channels : ~Owned(c)

IInv == TypeOK /\ Service /\ Files /\ Opening

\* The payments that saw more paid than the service has taken of its newest channel:
\* their status was of an earlier channel.
Eager == {p \in Payments : pay[p].at = "status" /\ pay[p].seen > row[newest].paid}

\* What may be signed of the newest channel: a step for each of the others.
Allowed == row[newest].paid + Step * Cardinality(Payments \ Eager)

\* What is signed of it, or about to be, is allowed.
Covered ==
  newest # None => \A u \in AllSigned : u.channel = newest => u.paid <= Allowed

SInv == IInv /\ Covered

\* No channel is forgotten, nor what was paid with it, and one that the service comes to
\* hold is new.
NoneLost ==
  /\ \A c \in Channels : row[c].status # "none" => row'[c].status # "none" /\ row'[c].paid >= row[c].paid
  /\ \A c \in Live' : c \in Live \/ row[c].status = "none"
  /\ newest' = newest \/ (newest' \in Channels /\ row[newest'].status = "none")

\* A step of the service: no channel comes to have a deposit.
ServiceStep ==
  /\ Service' /\ NoneLost
  /\ \A c \in Channels : deposit'[c] \in Unspent => deposit[c] \in Unspent

-----------------------------------------------------------------------------
(* The service's steps.                                                     *)

LEMMA LiveChannels == Live \subseteq Channels
  BY DEF Live

\* A request that the service refuses, or answers without a change.
LEMMA NothingTaken ==
  ASSUME Service, UNCHANGED serviceVars
  PROVE  ServiceStep
  BY SumsAre DEF Service, ServiceTypes, ServiceStep, NoneLost, serviceVars, Live

\* channel_open: the proposed channel is new and without a deposit, and alone.
LEMMA ProposalTaken ==
  ASSUME Service, NEW c \in Channels, TakeProposal(c)
  PROVE  /\ ServiceStep /\ UNCHANGED deposit
         /\ row'[c].status = "accepted" => Live' \subseteq {c}
<1>1. CASE UNCHANGED serviceVars
  <2>1. ServiceStep
    BY <1>1, NothingTaken
  <2>2. row[c].status = "accepted" => Live \subseteq {c}
    BY DEF Service, Live
  <2> QED BY <1>1, <2>1, <2>2 DEF serviceVars, Live
<1>2. CASE /\ row[c].status = "none" /\ newest' = c /\ UNCHANGED deposit
           /\ row' = [d \in Channels |->
                        IF d = c THEN [NoRow EXCEPT !.status = "accepted"]
                        ELSE IF d \in Live THEN [row[d] EXCEPT !.status = "over"] ELSE row[d]]
  <2>1. \A d \in Channels :
          row'[d] = IF d = c THEN [status |-> "accepted", paid |-> 0]
                    ELSE IF d \in Live THEN [row[d] EXCEPT !.status = "over"] ELSE row[d]
    BY <1>2 DEF NoRow
  <2>2. ServiceTypes'
    <3>1. row' \in [Channels -> [status : Statuses, paid : Sums]]
      <4>1. \A d \in Channels : row'[d] \in [status : Statuses, paid : Sums]
        <5>1. \A d \in Channels : row[d] \in [status : Statuses, paid : Sums]
          BY DEF Service, ServiceTypes
        <5>2. \A d \in Channels :
                [row[d] EXCEPT !.status = "over"] \in [status : Statuses, paid : Sums]
          BY <5>1 DEF Statuses
        <5>3. [status |-> "accepted", paid |-> 0] \in [status : Statuses, paid : Sums]
          BY SumsAre DEF Statuses
        <5> QED BY <2>1, <5>1, <5>2, <5>3, Zenon
      <4> QED BY <1>2, <4>1
    <3> QED BY <1>2, <3>1 DEF Service, ServiceTypes
  <2>3. \A d \in Channels : d # c => row'[d].status \notin {"accepted", "open"}
    <3>1. \A d \in Live : [row[d] EXCEPT !.status = "over"].status = "over"
      BY DEF Live, Service, ServiceTypes
    <3>2. ASSUME NEW d \in Channels, d # c PROVE row'[d].status \notin {"accepted", "open"}
      <4>1. CASE d \in Live
        BY <2>1, <3>1, <3>2, <4>1
      <4>2. CASE d \notin Live
        BY <2>1, <3>2, <4>2 DEF Live
      <4> QED BY <4>1, <4>2
    <3> QED BY <3>2
  <2>4. Live' \subseteq {c}
    BY <2>3 DEF Live
  <2>6. \A d \in Channels : row'[d].status = "none" => row[d].status = "none"
    <3>1. \A d \in Live : row[d].status # "none" /\ [row[d] EXCEPT !.status = "over"].status = "over"
      BY DEF Live, Service, ServiceTypes
    <3> QED BY <1>2, <2>1, <3>1
  <2>7. Service'
    BY <1>2, <2>2, <2>4, <2>6 DEF Service
  <2>8. \A d \in Channels : row[d].status # "none" => row'[d].status # "none" /\ row'[d].paid = row[d].paid
    <3>1. \A d \in Live : [row[d] EXCEPT !.status = "over"].paid = row[d].paid
      BY DEF Live, Service, ServiceTypes
    <3> QED BY <1>2, <2>1, <2>6, <3>1
  <2>9. ServiceStep
    <3>1. \A d \in Channels : row[d].paid \in Nat
      BY SumsAre DEF Service, ServiceTypes
    <3>2. \A d \in Channels : row[d].status # "none" => row'[d].status # "none" /\ row'[d].paid >= row[d].paid
      BY <2>8, <3>1
    <3>3. NoneLost
      BY <1>2, <2>4, <3>2 DEF NoneLost
    <3> QED BY <1>2, <2>7, <3>3 DEF ServiceStep
  <2> QED BY <1>2, <2>4, <2>9
<1> QED BY <1>1, <1>2 DEF TakeProposal

\* channel_pay: a channel that is held goes on.
LEMMA StateTaken ==
  ASSUME Service, NEW c, NEW n \in Sums, TakeState(c, n)
  PROVE  ServiceStep
<1>1. CASE row' = row
  BY <1>1, NothingTaken DEF TakeState, serviceVars
<1>2. CASE c \in Live /\ row' = [row EXCEPT ![c] = [status |-> "open", paid |-> n]]
  <2>1. c \in Channels /\ row[c].status \in {"accepted", "open"}
    BY <1>2 DEF Live
  <2>2. \A d \in Channels : row'[d] = IF d = c THEN [status |-> "open", paid |-> n] ELSE row[d]
    BY <1>2, <2>1 DEF Service, ServiceTypes
  <2>3. UNCHANGED <<newest, deposit>>
    BY DEF TakeState
  <2>4. ServiceTypes'
    <3>1. [status |-> "open", paid |-> n] \in [status : Statuses, paid : Sums]
      BY DEF Statuses
    <3>2. row' \in [Channels -> [status : Statuses, paid : Sums]]
      BY <1>2, <2>1, <3>1 DEF Service, ServiceTypes
    <3> QED BY <2>3, <3>2 DEF Service, ServiceTypes
  <2>5. Live' = Live
    BY <2>1, <2>2 DEF Live
  <2>6. \A d \in Channels : row'[d].status = "none" <=> row[d].status = "none"
    BY <2>1, <2>2
  <2>7. Service'
    BY <2>3, <2>4, <2>5, <2>6 DEF Service
  <2>8. \A d \in Channels : row[d].paid \in Nat
    BY SumsAre DEF Service, ServiceTypes
  <2>9. n > row[c].paid \/ row' = row
    BY DEF TakeState
  <2>10. \A d \in Channels : row'[d].paid >= row[d].paid
    BY <2>1, <2>2, <2>8, <2>9, SumsAre
  <2> QED BY <2>3, <2>5, <2>6, <2>7, <2>10 DEF ServiceStep, NoneLost
<1> QED BY <1>1, <1>2 DEF TakeState

\* A channel goes, closed or not: a step of the service whatever becomes of it.
LEMMA ChannelGoes ==
  ASSUME Service, NEW c \in Channels, NEW s \in {"closed", "over"},
         row' = [row EXCEPT ![c].status = s], newest' = newest,
         row[c].status # "none",
         deposit' = deposit \/ deposit' = [deposit EXCEPT ![c] = "spent"]
  PROVE  ServiceStep
<1>1. \A d \in Channels : row'[d] = IF d = c THEN [row[c] EXCEPT !.status = s] ELSE row[d]
  BY DEF Service, ServiceTypes
<1>2. \A d \in Channels : deposit'[d] = deposit[d] \/ (d = c /\ deposit'[d] = "spent")
  BY DEF Service, ServiceTypes
<1>3. ServiceTypes'
  <2>1. [row[c] EXCEPT !.status = s] \in [status : Statuses, paid : Sums]
    BY DEF Service, ServiceTypes, Statuses
  <2>2. row' \in [Channels -> [status : Statuses, paid : Sums]]
    BY <2>1 DEF Service, ServiceTypes
  <2> QED BY <2>2 DEF Service, ServiceTypes
<1>4. row'[c].status = s
  BY <1>1 DEF Service, ServiceTypes
<1>5. Live' \subseteq Live /\ c \notin Live'
  BY <1>1, <1>4 DEF Live
<1>6. \A d \in Channels : row'[d].status = "none" <=> row[d].status = "none"
  BY <1>1, <1>4
<1>7. Service'
  BY <1>2, <1>3, <1>5, <1>6 DEF Service
<1>8. \A d \in Channels : row'[d].paid >= row[d].paid
  <2>1. \A d \in Channels : row[d].paid \in Nat
    BY SumsAre DEF Service, ServiceTypes
  <2>2. [row[c] EXCEPT !.status = s].paid = row[c].paid
    BY DEF Service, ServiceTypes
  <2> QED BY <1>1, <2>1, <2>2
<1> QED BY <1>2, <1>5, <1>6, <1>7, <1>8, LiveChannels DEF ServiceStep, NoneLost, Unspent

\* close_channel, of a channel that is held.
LEMMA Closed ==
  ASSUME Service, NEW c \in Live, Close(c)
  PROVE  ServiceStep
<1>1. c \in Channels /\ row[c].status # "none"
  BY DEF Live
<1> QED BY <1>1, ChannelGoes DEF Close

LEMMA CloseTaken ==
  ASSUME Service, TakeClose
  PROVE  ServiceStep
  BY NothingTaken, Closed DEF TakeClose

\* The payment thread closes a channel, or lets it expire.
LEMMA DueClosed ==
  ASSUME Service, NEW c \in Channels, CloseDue(c)
  PROVE  ServiceStep
<1>1. c \in Live /\ row[c].status # "none"
  BY DEF CloseDue, Live
<1>2. CASE Close(c)
  BY <1>1, <1>2, Closed
<1>3. CASE row' = [row EXCEPT ![c].status = "over"] /\ UNCHANGED <<newest, deposit>>
  BY <1>1, <1>3, ChannelGoes
<1> QED BY <1>2, <1>3 DEF CloseDue

-----------------------------------------------------------------------------
(* The wallet's types.                                                      *)

Place == {"idle", "status", "sign", "signed", "posted"}
Payment == [at : Place, seen : Sums, channel : Channels \cup {None}, total : Sums]
Message == {CloseIt} \cup {Proposal(c) : c \in Channels} \cup {Funds(c) : c \in Channels}
             \cup {State(c, n) : c \in Channels, n \in Sums}
             \cup {Signs(c, n) : c \in Channels, n \in Sums}

\* Where an opening and a close are, and how many faults there were.
OtherTypes ==
  /\ proposed \in Channels \cup {None} /\ funding \in Channels \cup {None}
  /\ opening \in {"idle", "height", "posted", "fund"}
  /\ closing \in BOOLEAN /\ faults \in 0 .. MaxFaults

\* The parts of the type invariant.
Typed ==
  /\ pay \in [Payments -> Payment] /\ late \subseteq Message
  /\ file \in Amount /\ hex \in Amount /\ ServiceTypes /\ OtherTypes

LEMMA TypedParts == TypeOK <=> Typed
<1>1. Payment = [at : {"idle", "status", "sign", "signed", "posted"}, seen : Sums,
                 channel : Channels \cup {None}, total : Sums]
  BY DEF Payment, Place
<1>2. ASSUME TypeOK PROVE Typed
  <2>1. pay \in [Payments -> Payment] /\ late \subseteq Message
    BY <1>1, <1>2 DEF TypeOK, Message
  <2>2. file \in Amount /\ hex \in Amount /\ ServiceTypes /\ OtherTypes
    BY <1>2 DEF TypeOK, Amount, ServiceTypes, OtherTypes
  <2> QED BY <2>1, <2>2 DEF Typed
<1>3. ASSUME Typed PROVE TypeOK
  <2>1. pay \in [Payments -> [at : {"idle", "status", "sign", "signed", "posted"}, seen : Sums,
                              channel : Channels \cup {None}, total : Sums]]
    BY <1>1, <1>3 DEF Typed
  <2> QED BY <1>3, <2>1 DEF Typed, TypeOK, Message, Amount, ServiceTypes, OtherTypes
<1> QED BY <1>2, <1>3

LEMMA Types ==
  /\ TypeOK <=> Typed
  /\ TypeOK' <=> Typed'
  BY TypedParts, PTL

\* What a payment may be is a payment.
LEMMA PaymentTypes ==
  ASSUME NEW a \in Place, NEW n \in Sums, NEW c \in Channels \cup {None}
  PROVE  /\ Idle \in Payment /\ Idle.at = "idle"
         /\ Signed \in Payment /\ Signed.at = "signed"
         /\ Seeing(n) \in Payment /\ Seeing(n).at = "status" /\ Seeing(n).seen = n
         /\ Bound(a, c, n) \in Payment /\ Bound(a, c, n).at = a
         /\ Bound(a, c, n).channel = c /\ Bound(a, c, n).total = n
<1>1. 0 \in Sums /\ None \in Channels \cup {None} /\ {"idle", "status", "signed"} \subseteq Place
  BY SumsAre DEF Place
<1> QED BY <1>1 DEF Idle, Signed, Seeing, Bound, Payment

\* What the files say and what the status answers.
LEMMA Amounts ==
  ASSUME TypeOK
  PROVE  /\ file.paid \in Sums /\ file.channel \in Channels \cup {None}
         /\ hex.paid \in Sums /\ hex.channel \in Channels \cup {None}
         /\ View.paid \in Sums
         /\ NoFile \in Amount /\ NoFile.paid = 0 /\ NoFile.channel = None
<1>1. /\ file.paid \in Sums /\ file.channel \in Channels \cup {None}
      /\ hex.paid \in Sums /\ hex.channel \in Channels \cup {None}
  BY DEF TypeOK
<1>2. NoRow.paid = 0 /\ 0 \in Sums
  BY SumsAre DEF NoRow
<1>3. \A c \in Channels : row[c].paid \in Sums
  BY DEF TypeOK
<1>4. View.paid \in Sums
  BY <1>2, <1>3 DEF View, TypeOK
<1>5. NoFile \in Amount /\ NoFile.paid = 0 /\ NoFile.channel = None
  BY <1>2 DEF NoFile, Amount
<1> QED BY <1>1, <1>4, <1>5

\* What a tool is about to write is a channel's and an amount.
LEMMA UnwrittenTypes ==
  ASSUME TypeOK, Files
  PROVE  \A u \in Unwritten : u \in Amount /\ u.channel \in Channels
<1>1. ASSUME NEW p \in Payments, pay[p].at = "sign"
      PROVE  [channel |-> pay[p].channel, paid |-> pay[p].total] \in [channel : Channels, paid : Sums]
  BY <1>1 DEF TypeOK, Files
<1>2. ASSUME NEW m \in late, m.to = "sign"
      PROVE  [channel |-> m.channel, paid |-> m.total] \in [channel : Channels, paid : Sums]
  <2>1. PICK c \in Channels, n \in Sums : m = Signs(c, n)
    BY <1>2 DEF TypeOK, CloseIt, Proposal, Funds, State, Signs
  <2> QED BY <2>1 DEF Signs
<1>3. \A u \in Unwritten : u \in [channel : Channels, paid : Sums]
  BY <1>1, <1>2 DEF Unwritten
<1> QED BY <1>3 DEF Amount

-----------------------------------------------------------------------------
(* Steps.                                                                   *)

\* What the service and the chain do in any step.
Advances ==
  /\ Service' /\ NoneLost /\ funding' \in {funding, None}
  /\ \A c \in Channels : deposit'[c] \in Unspent => deposit[c] \in Unspent \/ c = funding \/ Funds(c) \in late
  /\ \A c \in Channels : Funds(c) \in late' => Funds(c) \in late \/ c = funding

\* What becomes of an opening.
Opens ==
  /\ opening' = "posted" => proposed' # None
  /\ opening' = "fund" <=> funding' # None
  /\ opening' = "height" => \A c \in Channels : ~Owned(c)

\* What becomes of a payment that begins no tool.
Calm(q) ==
  \/ pay'[q] = pay[q]
  \/ pay'[q].at \in {"idle", "signed"} \/ (pay'[q].at = "posted" /\ pay'[q].channel \in Channels)
  \/ pay'[q].at = "status" /\ pay'[q].seen = View.paid

\* What becomes of the files: nothing, a tool writes them, or an opening removes them.
FilesGo ==
  \/ UNCHANGED <<file, hex>>
  \/ file' \in Unwritten /\ hex'.channel # None
  \/ file' = NoFile /\ opening = "height"
  \/ file' = file /\ file.paid = 0

\* What late tools may be about to write is what tools were.
LateSigns ==
  \A m \in late' : m.to = "sign" => [channel |-> m.channel, paid |-> m.total] \in Unwritten

\* A step that begins no tool and accepts no channel of the wallet.
Keeps ==
  /\ TypeOK' /\ Advances /\ Opens /\ FilesGo /\ LateSigns /\ \A q \in Payments : Calm(q)

\* What late tools are about to write is unwritten.
LEMMA LateIsUnwritten ==
  \A m \in late : m.to = "sign" => [channel |-> m.channel, paid |-> m.total] \in Unwritten
  BY DEF Unwritten

\* Nothing comes to be signed in such a step.
LEMMA NothingSigned ==
  ASSUME Keeps
  PROVE  \A u \in AllSigned' : u \in AllSigned \/ u = NoFile
<1>1. \A u \in Unwritten' : u \in Unwritten
  <2>1. ASSUME NEW q \in Payments, pay'[q].at = "sign"
        PROVE  [channel |-> pay'[q].channel, paid |-> pay'[q].total] \in Unwritten
    <3>1. pay'[q] = pay[q]
      BY <2>1 DEF Keeps, Calm
    <3> QED BY <2>1, <3>1 DEF Unwritten
  <2>2. \A m \in late' : m.to = "sign" => [channel |-> m.channel, paid |-> m.total] \in Unwritten
    BY DEF Keeps, LateSigns
  <2>3. ASSUME NEW u \in Unwritten' PROVE u \in Unwritten
    <3>1. \/ \E q \in Payments : pay'[q].at = "sign" /\ u = [channel |-> pay'[q].channel, paid |-> pay'[q].total]
          \/ \E m \in late' : m.to = "sign" /\ u = [channel |-> m.channel, paid |-> m.total]
      BY <2>3 DEF Unwritten
    <3> QED BY <2>1, <2>2, <3>1
  <2> QED BY <2>3
<1>2. file' \in AllSigned \/ file' = NoFile
  BY DEF Keeps, FilesGo, AllSigned
<1> QED BY <1>1, <1>2 DEF AllSigned

\* No channel comes to have the wallet's deposit, where none is sent.
LEMMA NoneOwned ==
  ASSUME IInv, Advances
  PROVE  \A c \in Channels : Owned(c)' => Owned(c)
<1> SUFFICES ASSUME NEW c \in Channels, Owned(c)' PROVE Owned(c)
  OBVIOUS
<1>1. c \in Live' /\ (deposit'[c] \in Unspent \/ funding' = c \/ Funds(c) \in late')
  BY DEF Owned
<1>2. c # None
  BY WalletAssumption DEF WalletAssumption
<1>3. deposit[c] \in Unspent \/ funding = c \/ Funds(c) \in late
  BY <1>1, <1>2 DEF Advances
<1>4. row[c].status # "none"
  BY <1>2, <1>3 DEF IInv, Service, Files, Unspent
<1>5. c \in Live
  BY <1>1, <1>4 DEF Advances, NoneLost
<1> QED BY <1>3, <1>5 DEF Owned

\* Such a step keeps the invariant.
LEMMA StepKeeps ==
  ASSUME IInv, Keeps
  PROVE  IInv'
<1>1. TypeOK' /\ Service' /\ Advances /\ Opens /\ FilesGo
  BY DEF Keeps, Advances
<1>2. TypeOK /\ Files /\ Opening
  BY DEF IInv
<1>3. NoFile.channel = None /\ NoFile.paid = 0
  BY DEF NoFile
<1>4. \A u \in AllSigned : u.channel \in Channels \cup {None}
  BY <1>2, UnwrittenTypes, Amounts DEF AllSigned
<1>5. \A u \in AllSigned' : u.channel # None => row'[u.channel].status # "none"
  <2>1. ASSUME NEW u \in AllSigned', u.channel # None PROVE row'[u.channel].status # "none"
    <3>1. u \in AllSigned
      BY <1>3, <2>1, NothingSigned
    <3>2. u.channel \in Channels /\ row[u.channel].status # "none"
      BY <1>2, <1>4, <2>1, <3>1 DEF Files
    <3> QED BY <1>1, <3>2 DEF Advances, NoneLost
  <2> QED BY <2>1
<1>6. \A q \in Payments : pay'[q].at \in {"sign", "posted"} => pay'[q].channel \in Channels
  BY <1>2 DEF Keeps, Calm, Files
<1>7. file'.paid > 0 => hex'.channel # None
  <2>1. ~(0 > 0)
    OBVIOUS
  <2> QED BY <1>1, <1>2, <1>3, <2>1 DEF FilesGo, Files
<1>8. funding' # None => row'[funding'].status # "none"
  BY <1>1, <1>2 DEF Advances, NoneLost, Files, TypeOK
<1>9. \A c \in Channels : Funds(c) \in late' => row'[c].status # "none"
  BY <1>1, <1>2, WalletAssumption DEF Advances, NoneLost, Files, WalletAssumption
<1>10. Files'
  BY <1>5, <1>6, <1>7, <1>8, <1>9 DEF Files
<1>11. Opening'
  <2>1. \A c \in Channels : Owned(c)' => Owned(c)
    BY <1>1, NoneOwned
  <2>2. ASSUME NEW c \in Channels, Owned(c)' PROVE file'.channel # None
    <3>1. Owned(c)
      BY <2>1, <2>2
    <3>2. CASE file' = file
      BY <1>2, <3>1, <3>2 DEF Opening
    <3>3. CASE file' \in Unwritten
      BY <1>2, <3>3, UnwrittenTypes, WalletAssumption DEF WalletAssumption
    <3>4. CASE opening = "height"
      BY <1>2, <3>1, <3>4 DEF Opening
    <3> QED BY <1>1, <3>2, <3>3, <3>4 DEF FilesGo
  <2> QED BY <1>1, <2>1, <2>2 DEF Opens, Opening
<1> QED BY <1>1, <1>10, <1>11 DEF IInv

\* Such a step takes no file from a channel with the wallet's deposit, but by a tool.
LEMMA StepSpares ==
  ASSUME IInv, Keeps, NEW c \in Channels, Owned(c)', file'.channel # c
  PROVE  (Owned(c) /\ file.channel # c) \/ file' \in Unwritten
<1>1. Owned(c)
  BY NoneOwned DEF Keeps
<1>2. opening # "height"
  BY <1>1 DEF IInv, Opening
<1> QED BY <1>1, <1>2 DEF Keeps, FilesGo

-----------------------------------------------------------------------------
(* The actions.                                                             *)

\* At first the service holds nothing, and nothing is signed.
LEMMA InitHolds == Init => IInv
<1> SUFFICES ASSUME Init PROVE IInv
  OBVIOUS
<1>1. 0 \in Sums /\ 0 \in 0 .. MaxFaults /\ ~(0 > 0)
  BY WalletAssumption, SumsAre
<1>2. \A c \in Channels : row[c].status = "none" /\ deposit[c] = "no"
  BY DEF Init, NoRow
<1>3. /\ \A p \in Payments : pay[p] = Idle /\ pay[p].at = "idle"
      /\ NoFile.channel = None /\ NoFile.paid = 0
  BY DEF Init, Idle, NoFile
<1>4. TypeOK
  <2>1. Idle \in Payment /\ NoFile \in Amount
    BY <1>1 DEF Idle, NoFile, Payment, Place, Amount
  <2>2. row \in [Channels -> [status : Statuses, paid : Sums]]
    BY <1>1 DEF Init, NoRow, Statuses
  <2>3. ServiceTypes
    BY <2>2 DEF Init, ServiceTypes
  <2>4. OtherTypes
    BY <1>1 DEF Init, OtherTypes
  <2>5. pay \in [Payments -> Payment] /\ late \subseteq Message /\ file = NoFile /\ hex = NoFile
    BY <2>1 DEF Init
  <2> QED BY <2>1, <2>3, <2>4, <2>5, Types DEF Typed
<1>5. Live = {}
  BY <1>2 DEF Live
<1>6. Service
  BY <1>2, <1>4, <1>5, Types DEF Typed, Service, ServiceTypes
<1>7. late = {} /\ file = NoFile /\ funding = None /\ opening = "idle"
  BY DEF Init
<1>8. AllSigned = {NoFile}
  BY <1>3, <1>7 DEF AllSigned, Unwritten
<1>9. Files
  BY <1>1, <1>3, <1>7, <1>8 DEF Files
<1>10. Opening
  BY <1>5, <1>7 DEF Opening, Owned
<1> QED BY <1>4, <1>6, <1>9, <1>10 DEF IInv

\* A step of the service alone.
LEMMA ServiceAdvances ==
  ASSUME ServiceStep, funding' \in {funding, None},
         \A c \in Channels : Funds(c) \in late' => Funds(c) \in late \/ c = funding
  PROVE  Advances
  BY DEF ServiceStep, Advances

\* A payment goes on, without a tool.
LEMMA PaymentGoes ==
  ASSUME IInv, ServiceStep, NEW p \in Payments, NEW o \in Payment, Goes(p, o),
         \/ o.at \in {"idle", "signed"} \/ (o.at = "posted" /\ o.channel \in Channels)
         \/ o.at = "status" /\ o.seen = View.paid,
         UNCHANGED <<proposed, opening, funding, closing, late, faults>>,
         UNCHANGED <<file, hex>> \/ (file' \in Unwritten /\ hex' \in Amount /\ hex'.channel # None)
  PROVE  Keeps
<1>1. TypeOK /\ Opening /\ Files
  BY DEF IInv
<1>2. pay \in [Payments -> Payment] /\ late \subseteq Message /\ file \in Amount /\ hex \in Amount
  BY <1>1, Types DEF Typed
<1>3. pay' = [pay EXCEPT ![p] = o]
  BY DEF Goes
<1>4. pay' \in [Payments -> Payment]
  BY <1>2, <1>3
<1>5. \A q \in Payments : Calm(q)
  <2>1. \A q \in Payments : pay'[q] = IF q = p THEN o ELSE pay[q]
    BY <1>2, <1>3
  <2> QED BY <2>1 DEF Calm
<1>6. file' \in Amount /\ hex' \in Amount
  BY <1>1, <1>2, UnwrittenTypes
<1>7. ServiceTypes'
  BY DEF ServiceStep, Service
<1>8. TypeOK'
  <2>1. OtherTypes'
    BY <1>1, Types DEF Typed, OtherTypes
  <2>2. (late \subseteq Message)'
    BY <1>2 DEF Message
  <2> QED BY <1>4, <1>6, <1>7, <2>1, <2>2, Types DEF Typed
<1>9. Advances
  BY ServiceAdvances
<1>10. Opens
  BY <1>1 DEF Opening, Opens
<1>11. LateSigns
  BY LateIsUnwritten DEF LateSigns
<1> QED BY <1>5, <1>8, <1>9, <1>10, <1>11 DEF Keeps, FilesGo

\* A payment that asks, ends, posts, or whose tool writes.
LEMMA PaymentKeeps ==
  ASSUME IInv, NEW p \in Payments,
         AskPay(p) \/ Nothing(p) \/ Resend(p) \/ Sign(p) \/ PostSigned(p) \/ TakePay(p)
  PROVE  Keeps
<1>1. TypeOK /\ Files /\ Service
  BY DEF IInv
<1>2. /\ hex.paid \in Sums /\ hex.channel \in Channels \cup {None}
      /\ View.paid \in Sums
  BY <1>1, Amounts
<1>3. pay[p] \in Payment
  BY <1>1, Types DEF Typed
<1>4. "posted" \in Place
  BY DEF Place
<1>5. /\ Idle \in Payment /\ Idle.at = "idle" /\ Signed \in Payment /\ Signed.at = "signed"
      /\ Seeing(View.paid) \in Payment /\ Seeing(View.paid).at = "status" /\ Seeing(View.paid).seen = View.paid
  BY <1>2, <1>4, PaymentTypes
<1>6. hex.channel # None => /\ Bound("posted", hex.channel, hex.paid) \in Payment
                            /\ Bound("posted", hex.channel, hex.paid).at = "posted"
                            /\ Bound("posted", hex.channel, hex.paid).channel \in Channels
  BY <1>2, <1>4, PaymentTypes
<1>7. CASE AskPay(p) \/ Nothing(p) \/ Resend(p) \/ PostSigned(p)
  <2>0. OnlyPays
    BY <1>7 DEF AskPay, Nothing, Resend, PostSigned
  <2>1. UNCHANGED <<proposed, opening, funding, closing, late, faults>> /\ UNCHANGED <<file, hex>>
    BY <2>0 DEF OnlyPays
  <2>2. ServiceStep
    BY <1>1, <2>0, NothingTaken DEF OnlyPays
  <2>3. PICK o \in Payment : /\ Goes(p, o)
                             /\ \/ o.at = "idle" \/ (o.at = "posted" /\ o.channel \in Channels)
                                \/ o.at = "status" /\ o.seen = View.paid
    <3>1. CASE AskPay(p) \/ Nothing(p)
      BY <1>5, <3>1 DEF AskPay, Nothing
    <3>2. CASE Resend(p)
      BY <1>6, <3>2 DEF Resend, Behind, Posts
    <3>3. CASE PostSigned(p)
      BY <1>5, <1>6, <3>3 DEF PostSigned, Posts
    <3> QED BY <1>7, <3>1, <3>2, <3>3
  <2> QED BY <2>1, <2>2, <2>3, PaymentGoes
<1>8. CASE Sign(p)
  <2>1. pay[p].channel \in Channels /\ pay[p].total \in Sums /\ pay[p].at = "sign"
    BY <1>1, <1>3, <1>8 DEF Sign, Files, Payment
  <2>2. /\ file' = [channel |-> pay[p].channel, paid |-> pay[p].total]
        /\ hex' = [channel |-> pay[p].channel, paid |-> pay[p].total]
    BY <1>8 DEF Sign, Writes
  <2>3. file' \in Unwritten
    BY <2>1, <2>2 DEF Unwritten
  <2>4. hex' \in Amount /\ hex'.channel # None
    BY <2>1, <2>2, WalletAssumption DEF Amount, WalletAssumption
  <2>5. ServiceStep
    BY <1>1, <1>8, NothingTaken DEF Sign, Writes
  <2>6. UNCHANGED <<proposed, opening, funding, closing, late, faults>> /\ Goes(p, Signed)
    BY <1>8 DEF Sign, Writes
  <2> QED BY <1>5, <2>3, <2>4, <2>5, <2>6, PaymentGoes
<1>9. CASE TakePay(p)
  <2>1. pay[p].total \in Sums
    BY <1>3 DEF Payment
  <2>2. ServiceStep
    BY <1>1, <1>9, <2>1, StateTaken DEF TakePay
  <2>3. UNCHANGED <<proposed, opening, funding, closing, late, faults>> /\ UNCHANGED <<file, hex>> /\ Goes(p, Idle)
    BY <1>9 DEF TakePay
  <2> QED BY <1>5, <2>2, <2>3, PaymentGoes
<1> QED BY <1>7, <1>8, <1>9

\* A step that leaves the payments alone.
LEMMA PaymentsAlone ==
  ASSUME IInv, Advances, UNCHANGED pay, FilesGo, file' \in Amount, hex' \in Amount,
         OtherTypes', Opens, late' \subseteq Message, LateSigns
  PROVE  Keeps
<1>1. pay' \in [Payments -> Payment]
  BY Types DEF IInv, Typed
<1>2. ServiceTypes'
  BY DEF Advances, Service
<1>3. (late \subseteq Message)'
  BY DEF Message
<1>4. TypeOK'
  BY <1>1, <1>2, <1>3, Types DEF Typed
<1>5. \A q \in Payments : Calm(q)
  BY DEF Calm
<1> QED BY <1>4, <1>5 DEF Keeps

\* A step of the service and the chain alone.
LEMMA ServiceAlone ==
  ASSUME IInv, Advances, UNCHANGED <<pay, file, hex, proposed, faults>>,
         UNCHANGED <<opening, funding>> \/ (opening' = "idle" /\ funding' = None),
         closing' \in BOOLEAN, late' \subseteq late
  PROVE  Keeps
<1>1. /\ late \subseteq Message /\ file \in Amount /\ hex \in Amount /\ OtherTypes /\ Opening
  BY Types DEF IInv, Typed
<1>2. late' \subseteq Message /\ LateSigns /\ FilesGo
  BY <1>1, LateIsUnwritten DEF LateSigns, FilesGo
<1>3. OtherTypes'
  BY <1>1 DEF OtherTypes
<1>4. Opens
  BY <1>1 DEF Opens, Opening
<1> QED BY <1>1, <1>2, <1>3, <1>4, PaymentsAlone

\* An opening or a close that begins: it begins to open only when the service holds no
\* channel with the wallet's deposit.
LEMMA AskingKeeps ==
  ASSUME IInv, AskOpen \/ AskClose
  PROVE  Keeps
<1>1. UNCHANGED <<proposed, file, hex, pay, funding, row, newest, deposit, late, faults>>
  BY DEF AskOpen, AskClose, serviceVars
<1>2. Advances
  <2>1. ServiceStep
    BY <1>1, NothingTaken DEF IInv, serviceVars
  <2> QED BY <1>1, <2>1, ServiceAdvances
<1>3. late \subseteq Message /\ file \in Amount /\ hex \in Amount /\ OtherTypes /\ Opening /\ Service
  BY Types DEF IInv, Typed
<1>4. LateSigns /\ FilesGo
  BY <1>1, LateIsUnwritten DEF LateSigns, FilesGo
<1>5. CASE AskClose
  BY <1>1, <1>2, <1>5, ServiceAlone DEF AskClose
<1>6. CASE AskOpen
  <2>1. opening = "idle" /\ opening' = "height" /\ closing' = closing
    BY <1>6 DEF AskOpen
  <2>2. OtherTypes'
    BY <1>1, <1>3, <2>1 DEF OtherTypes
  <2>3. ASSUME NEW c \in Channels, Owned(c) PROVE FALSE
    <3>1. c = newest /\ row[c].status \in {"accepted", "open"} /\ file.channel # None
      BY <1>3, <2>3 DEF Service, Live, Owned, Opening
    <3>2. View = row[c]
      BY <3>1, WalletAssumption DEF View, WalletAssumption
    <3> QED BY <1>6, <3>1, <3>2 DEF AskOpen, MayOpen, Pending
  <2>4. Opens
    BY <1>1, <1>3, <2>1, <2>3 DEF Opens, Opening
  <2> QED BY <1>1, <1>2, <1>3, <1>4, <2>2, <2>4, PaymentsAlone
<1> QED BY <1>5, <1>6

\* The files are removed.
LEMMA ProposeKeeps ==
  ASSUME IInv, Propose
  PROVE  Keeps
<1>1. /\ UNCHANGED <<pay, funding, closing, row, newest, deposit, late, faults>>
      /\ opening = "height" /\ opening' = "posted"
  BY DEF Propose, serviceVars
<1>2. file' = NoFile /\ hex' = NoFile /\ NoFile \in Amount
  BY Amounts DEF Propose, NewProposal, IInv
<1>3. late \subseteq Message /\ OtherTypes /\ Opening
  BY Types DEF IInv, Typed
<1>4. proposed' \in Channels
  BY <1>3 DEF Propose, NewProposal, OtherTypes
<1>5. Advances
  <2>1. ServiceStep
    BY <1>1, NothingTaken DEF IInv, serviceVars
  <2> QED BY <1>1, <2>1, ServiceAdvances
<1>6. LateSigns /\ FilesGo
  BY <1>1, <1>2, LateIsUnwritten DEF LateSigns, FilesGo
<1>7. OtherTypes'
  BY <1>1, <1>3, <1>4 DEF OtherTypes
<1>8. Opens
  BY <1>1, <1>3, <1>4, WalletAssumption DEF Opens, Opening, WalletAssumption
<1> QED BY <1>1, <1>2, <1>3, <1>5, <1>6, <1>7, <1>8, PaymentsAlone

\* One deposit of a channel the service knows changes: where one is sent it was being
\* sent, or there.
LEMMA DepositAdvances ==
  ASSUME IInv, UNCHANGED <<row, newest>>, funding' \in {funding, None},
         \A c \in Channels : Funds(c) \in late' => Funds(c) \in late \/ c = funding,
         NEW d \in Channels, row[d].status # "none",
         NEW x \in {"sent", "confirmed", "ending", "spent"},
         deposit' = deposit \/ deposit' = [deposit EXCEPT ![d] = x],
         x \in Unspent => deposit[d] \in Unspent \/ d = funding \/ Funds(d) \in late
  PROVE  Advances
<1>1. Service /\ ServiceTypes
  BY DEF IInv, Service
<1>2. \A c \in Channels : deposit'[c] = deposit[c] \/ (c = d /\ deposit'[c] = x)
  BY <1>1 DEF ServiceTypes
<1>3. deposit' \in [Channels -> {"no", "sent", "confirmed", "ending", "spent"}]
  BY <1>1 DEF ServiceTypes
<1>4. Live' = Live /\ Live \subseteq Channels
  BY DEF Live
<1>5. Service'
  BY <1>1, <1>2, <1>3, <1>4 DEF Service, ServiceTypes
<1>6. \A c \in Channels : row[c].paid \in Int
  BY <1>1, SumsAre DEF ServiceTypes
<1>7. NoneLost
  BY <1>4, <1>6 DEF NoneLost
<1> QED BY <1>2, <1>5, <1>7 DEF Advances, Unspent

\* channel fund, channel refund and the chain.
LEMMA DepositsKeep ==
  ASSUME IInv, FundChannel \/ Refund \/ \E c \in Channels : Mine(c)
  PROVE  Keeps
<1>1. TypeOK /\ OtherTypes /\ Opening /\ Files
  BY Types DEF IInv, Typed
<1>2. UNCHANGED <<pay, file, hex, proposed, faults, closing, late, row, newest>>
  BY DEF FundChannel, Refund, Mine, walletVars
<1>3. closing' \in BOOLEAN
  BY <1>1, <1>2 DEF OtherTypes
<1>4. CASE FundChannel
  <2>1. funding # None /\ funding \in Channels /\ row[funding].status # "none"
    BY <1>1, <1>4 DEF FundChannel, Opening, Files, OtherTypes
  <2>2. opening' = "idle" /\ funding' = None
        /\ (deposit' = deposit \/ deposit' = [deposit EXCEPT ![funding] = "sent"])
    BY <1>4 DEF FundChannel, Sends
  <2>3. Advances
    BY <1>2, <2>1, <2>2, DepositAdvances
  <2> QED BY <1>2, <1>3, <2>2, <2>3, ServiceAlone
<1>5. CASE Refund
  <2>1. file.channel \in Channels /\ file.channel # None
    BY <1>1, <1>5, Amounts DEF Refund
  <2>2. row[file.channel].status # "none"
    BY <1>1, <2>1 DEF Files, AllSigned
  <2>3. UNCHANGED <<opening, funding>> /\ deposit' = [deposit EXCEPT ![file.channel] = "spent"]
    BY <1>5 DEF Refund, walletVars
  <2>4. Advances
    BY <1>2, <2>1, <2>2, <2>3, DepositAdvances DEF Unspent
  <2> QED BY <1>2, <1>3, <2>3, <2>4, ServiceAlone
<1>6. ASSUME NEW c \in Channels, Mine(c) PROVE Keeps
  <2>1. UNCHANGED <<opening, funding>>
    BY <1>6 DEF Mine, walletVars
  <2>2. deposit[c] \in Unspent /\ row[c].status # "none"
    BY <1>6 DEF Mine, IInv, Service, Unspent
  <2>3. PICK x \in {"confirmed", "ending"} : deposit' = [deposit EXCEPT ![c] = x]
    BY <1>6 DEF Mine
  <2>4. Advances
    BY <1>2, <2>1, <2>2, <2>3, DepositAdvances
  <2> QED BY <1>2, <1>3, <2>1, <2>4, ServiceAlone
<1> QED BY <1>4, <1>5, <1>6

\* Each kind of message is its own.
LEMMA Kinds ==
  /\ CloseIt.to = "close"
  /\ \A c \in Channels : /\ Proposal(c).to = "open" /\ Proposal(c).channel = c
                         /\ Funds(c).to = "fund" /\ Funds(c).channel = c
  /\ \A c \in Channels, n \in Sums :
       /\ State(c, n).to = "pay" /\ State(c, n).channel = c /\ State(c, n).total = n
       /\ Signs(c, n).to = "sign" /\ Signs(c, n).channel = c /\ Signs(c, n).total = n
  BY DEF CloseIt, Proposal, Funds, State, Signs

\* What came late: a request, or a tool's work.
LEMMA LateKeeps ==
  ASSUME IInv, NEW m \in late, TakeLate(m)
  PROVE  Keeps
<1>1. Service /\ TypeOK /\ Files /\ Opening /\ OtherTypes
  BY Types DEF IInv, Typed
<1>2. late' \subseteq late
  BY DEF TakeLate
<1>3. m \in Message
  BY Types DEF IInv, Typed
<1>4. closing \in BOOLEAN
  BY <1>1 DEF OtherTypes
<1>5. CASE ServiceStep /\ UNCHANGED <<walletVars, faults>>
  <2>1. UNCHANGED <<pay, file, hex, proposed, faults>> /\ UNCHANGED <<opening, funding>> /\ UNCHANGED closing
    BY <1>5 DEF walletVars
  <2>2. Advances
    BY <1>2, <1>5, <2>1, ServiceAdvances
  <2>3. closing' \in BOOLEAN
    BY <1>4, <2>1
  <2> QED BY <1>2, <2>1, <2>2, <2>3, ServiceAlone
<1>6. CASE m = CloseIt
  <2>1. TakeClose /\ UNCHANGED <<walletVars, faults>>
    BY <1>6, Kinds DEF TakeLate
  <2> QED BY <1>1, <1>5, <2>1, CloseTaken
<1>7. ASSUME NEW c \in Channels, m = Proposal(c) PROVE Keeps
  <2>1. TakeProposal(c) /\ UNCHANGED <<walletVars, faults>>
    BY <1>7, Kinds DEF TakeLate
  <2> QED BY <1>1, <1>5, <2>1, ProposalTaken
<1>8. ASSUME NEW c \in Channels, NEW n \in Sums, m = State(c, n) PROVE Keeps
  <2>1. TakeState(c, n) /\ UNCHANGED <<walletVars, faults>>
    <3>1. m.to = "pay" /\ m.channel = c /\ m.total = n
      BY <1>8, Kinds
    <3> QED BY <3>1 DEF TakeLate
  <2> QED BY <1>1, <1>5, <2>1, StateTaken
<1>9. ASSUME NEW c \in Channels, m = Funds(c) PROVE Keeps
  <2>1. Sends(c) /\ UNCHANGED <<walletVars, row, newest, faults>>
    BY <1>9, Kinds DEF TakeLate
  <2>2. /\ UNCHANGED <<pay, file, hex, proposed, faults>> /\ UNCHANGED <<opening, funding>>
        /\ UNCHANGED closing /\ UNCHANGED <<row, newest>>
    BY <2>1 DEF walletVars
  <2>3. closing' \in BOOLEAN
    BY <1>4, <2>2
  <2>4. row[c].status # "none" /\ Funds(c) \in late
    BY <1>1, <1>9 DEF Files
  <2>5. deposit' = deposit \/ deposit' = [deposit EXCEPT ![c] = "sent"]
    BY <2>1 DEF Sends
  <2>6. Advances
    BY <1>2, <2>2, <2>4, <2>5, DepositAdvances
  <2> QED BY <1>2, <2>2, <2>3, <2>6, ServiceAlone
<1>10. ASSUME NEW c \in Channels, NEW n \in Sums, m = Signs(c, n) PROVE Keeps
  <2>1. Writes(c, n) /\ UNCHANGED pay
    <3>1. m.to = "sign" /\ m.channel = c /\ m.total = n
      BY <1>10, Kinds
    <3> QED BY <3>1 DEF TakeLate
  <2>2. /\ file' = [channel |-> c, paid |-> n] /\ hex' = [channel |-> c, paid |-> n]
        /\ UNCHANGED <<proposed, opening, funding, closing, serviceVars, faults>>
    BY <2>1 DEF Writes
  <2>3. file' = [channel |-> m.channel, paid |-> m.total] /\ m.to = "sign"
    BY <1>10, <2>2, Kinds
  <2>4. file' \in Unwritten
    BY <2>3, LateIsUnwritten
  <2>5. file' \in Amount /\ hex' \in Amount /\ hex'.channel # None
    BY <2>2, WalletAssumption DEF Amount, WalletAssumption
  <2>6. FilesGo
    BY <2>4, <2>5 DEF FilesGo
  <2>7. Advances
    <3>1. ServiceStep
      BY <1>1, <2>2, NothingTaken
    <3> QED BY <1>2, <2>2, <3>1, ServiceAdvances
  <2>8. Opens
    BY <1>1, <2>2 DEF Opening, Opens
  <2>9. OtherTypes'
    BY <1>1, <2>2 DEF OtherTypes
  <2>10. late' \subseteq Message /\ LateSigns
    BY <1>2, LateIsUnwritten, Types DEF IInv, Typed, LateSigns
  <2> QED BY <2>1, <2>5, <2>6, <2>7, <2>8, <2>9, <2>10, PaymentsAlone
<1> QED BY <1>3, <1>6, <1>7, <1>8, <1>9, <1>10 DEF Message

\* The service takes a close, or closes by itself.
LEMMA ClosingKeeps ==
  ASSUME IInv, TakeClosing \/ \E c \in Channels : CloseDue(c)
  PROVE  Keeps
<1>1. Service /\ OtherTypes
  BY Types DEF IInv, Typed
<1>2. ServiceStep
  BY <1>1, CloseTaken, DueClosed DEF TakeClosing
<1>3. UNCHANGED <<pay, file, hex, proposed, faults, late>> /\ UNCHANGED <<opening, funding>>
  BY DEF TakeClosing, CloseDue, walletVars
<1>4. closing' \in BOOLEAN
  <2>1. closing \in BOOLEAN
    BY <1>1 DEF OtherTypes
  <2>2. closing' = closing \/ closing' = FALSE
    BY DEF TakeClosing, CloseDue, walletVars
  <2>3. CASE closing' = closing
    BY <2>1, <2>3
  <2>4. CASE closing' = FALSE
    BY <2>4
  <2> QED BY <2>2, <2>3, <2>4
<1>5. Advances
  BY <1>2, <1>3, ServiceAdvances
<1> QED BY <1>3, <1>4, <1>5, ServiceAlone

\* What a step leaves to come late.
Left ==
  /\ late' \subseteq Message /\ LateSigns
  /\ \A c \in Channels : Funds(c) \in late' => Funds(c) \in late \/ c = funding

LEMMA NothingLeft ==
  ASSUME IInv, UNCHANGED late
  PROVE  Left
  BY LateIsUnwritten, Types DEF IInv, Typed, Left, LateSigns

LEMMA OneLeft ==
  ASSUME IInv, NEW m \in Message, GivesUp(m),
         \A c \in Channels : m = Funds(c) => c = funding,
         m.to = "sign" => [channel |-> m.channel, paid |-> m.total] \in Unwritten
  PROVE  Left
<1>1. late \subseteq Message
  BY Types DEF IInv, Typed
<1>2. \A l \in late' : l \in late \/ l = m
  BY DEF GivesUp
<1>3. LateSigns
  BY <1>2, LateIsUnwritten DEF LateSigns
<1> QED BY <1>1, <1>2, <1>3 DEF Left

\* A payment that fails leaves what it posted, or what its tool does.
LEMMA PaymentLeaves ==
  ASSUME IInv, NEW p \in Payments, FailsAt(p)
  PROVE  Left
<1>1. pay[p] \in Payment /\ Files
  BY Types DEF IInv, Typed
<1>2. pay[p].at \in {"sign", "posted"} => pay[p].channel \in Channels /\ pay[p].total \in Sums
  BY <1>1 DEF Files, Payment
<1> DEFINE c == pay[p].channel
           n == pay[p].total
<1>3. CASE pay[p].at = "posted"
  <2>1. GivesUp(State(c, n))
    BY <1>3 DEF FailsAt
  <2>2. c \in Channels /\ n \in Sums
    BY <1>2, <1>3
  <2> HIDE DEF c, n
  <2>3. State(c, n) \in Message /\ State(c, n).to = "pay" /\ \A d \in Channels : Funds(d).to = "fund"
    BY <2>2, Kinds DEF Message
  <2> QED BY <2>1, <2>3, OneLeft
<1>4. CASE pay[p].at = "sign"
  <2>1. GivesUp(Signs(c, n))
    BY <1>4 DEF FailsAt
  <2>2. c \in Channels /\ n \in Sums
    BY <1>2, <1>4
  <2>3. [channel |-> c, paid |-> n] \in Unwritten
    BY <1>4 DEF Unwritten
  <2> HIDE DEF c, n
  <2>4. /\ Signs(c, n) \in Message /\ Signs(c, n).to = "sign" /\ \A d \in Channels : Funds(d).to = "fund"
        /\ Signs(c, n).channel = c /\ Signs(c, n).total = n
    BY <2>2, Kinds DEF Message
  <2> QED BY <2>1, <2>3, <2>4, OneLeft
<1>5. CASE pay[p].at \notin {"posted", "sign"}
  <2>1. UNCHANGED late
    BY <1>5 DEF FailsAt
  <2> QED BY <2>1, NothingLeft
<1> QED BY <1>3, <1>4, <1>5

\* An operation fails at its await.
LEMMA FailsKeeps ==
  ASSUME IInv, Fails
  PROVE  Keeps
<1>1. Opening /\ Service /\ Typed /\ OtherTypes
  BY Types DEF IInv, Typed
<1>2. UNCHANGED serviceVars /\ faults' \in 0 .. MaxFaults
  BY <1>1, WalletAssumption DEF Fails, OtherTypes, WalletAssumption
<1>3. ServiceStep
  BY <1>1, <1>2, NothingTaken
<1>4. Left /\ funding' \in {funding, None} => Advances
  BY <1>3, ServiceAdvances DEF Left
<1>5. ASSUME NEW p \in Payments, Goes(p, Idle), FailsAt(p),
             UNCHANGED <<proposed, file, hex, opening, funding, closing>>
      PROVE  Keeps
  <2>1. Left /\ Advances
    BY <1>4, <1>5, PaymentLeaves
  <2>2. pay' = [pay EXCEPT ![p] = Idle] /\ Idle \in Payment /\ Idle.at = "idle"
    BY <1>5, SumsAre DEF Goes, Idle, Payment, Place
  <2>3. pay' \in [Payments -> Payment] /\ \A q \in Payments : Calm(q)
    BY <1>1, <2>2 DEF Typed, Calm
  <2>4. OtherTypes' /\ Opens /\ FilesGo
    BY <1>1, <1>2, <1>5 DEF OtherTypes, Opens, Opening, FilesGo
  <2>5. Typed'
    <3>1. file' \in Amount /\ hex' \in Amount
      BY <1>1, <1>5 DEF Typed
    <3>2. ServiceTypes'
      BY <1>3 DEF ServiceStep, Service
    <3>3. (pay \in [Payments -> Payment])' /\ (late \subseteq Message)'
      BY <2>1, <2>3 DEF Left, Payment, Place, Message
    <3> QED BY <2>4, <3>1, <3>2, <3>3 DEF Typed
  <2> QED BY <2>1, <2>3, <2>4, <2>5, Types DEF Keeps, Left
<1>6. ASSUME opening # "idle", opening' = "idle", funding' = None, UNCHANGED <<pay, closing>>,
             Left, proposed' \in Channels \cup {None}, file' \in Amount, hex' \in Amount, FilesGo
      PROVE  Keeps
  <2>1. OtherTypes'
    BY <1>1, <1>2, <1>6 DEF OtherTypes
  <2>2. Opens
    BY <1>6 DEF Opens
  <2> QED BY <1>4, <1>6, <2>1, <2>2, PaymentsAlone DEF Left
<1>7. CASE opening # "idle" /\ opening' = "idle" /\ funding' = None /\ UNCHANGED <<pay, closing>>
           /\ opening = "height" /\ FailsToPropose /\ UNCHANGED late
  <2>1. NoFile \in Amount /\ file \in Amount /\ hex \in Amount
    BY <1>1, Amounts DEF IInv, Typed
  <2>2. file' \in {file, NoFile} /\ hex' \in {hex, NoFile} /\ (file' = file => hex' = hex \/ file' = NoFile)
    BY <1>7 DEF FailsToPropose, NewProposal
  <2>3. proposed' \in Channels \cup {None}
    BY <1>1, <1>7 DEF FailsToPropose, NewProposal, OtherTypes
  <2>4. FilesGo
    BY <1>7, <2>2 DEF FilesGo
  <2> QED BY <1>6, <1>7, <2>1, <2>2, <2>3, <2>4, NothingLeft
<1>8. CASE opening # "idle" /\ opening' = "idle" /\ funding' = None /\ UNCHANGED <<pay, closing>>
           /\ opening = "posted" /\ GivesUp(Proposal(proposed)) /\ UNCHANGED <<proposed, file, hex>>
  <2>1. proposed \in Channels
    BY <1>1, <1>8 DEF Opening, OtherTypes
  <2>2. Proposal(proposed) \in Message /\ Proposal(proposed).to = "open" /\ \A d \in Channels : Funds(d).to = "fund"
    BY <2>1, Kinds DEF Message
  <2>3. Left
    BY <1>8, <2>2, OneLeft
  <2> QED BY <1>1, <1>6, <1>8, <2>1, <2>3 DEF FilesGo, Typed
<1>9. CASE opening # "idle" /\ opening' = "idle" /\ funding' = None /\ UNCHANGED <<pay, closing>>
           /\ opening = "fund" /\ GivesUp(Funds(funding)) /\ UNCHANGED <<proposed, file, hex>>
  <2>1. funding \in Channels
    BY <1>1, <1>9 DEF Opening, OtherTypes
  <2>2. /\ Funds(funding) \in Message /\ Funds(funding).to = "fund"
        /\ \A d \in Channels : Funds(funding) = Funds(d) => d = funding
    BY <2>1, Kinds DEF Message
  <2>3. Left
    BY <1>9, <2>2, OneLeft
  <2> QED BY <1>1, <1>6, <1>9, <2>3 DEF FilesGo, Typed, OtherTypes
<1>10. CASE /\ closing /\ GivesUp(CloseIt) /\ closing' = FALSE
            /\ UNCHANGED <<proposed, file, hex, pay, opening, funding>>
  <2>1. CloseIt \in Message /\ CloseIt.to = "close" /\ \A d \in Channels : Funds(d).to = "fund"
    BY Kinds DEF Message
  <2>2. Left
    BY <1>10, <2>1, OneLeft
  <2>3. OtherTypes' /\ Opens /\ FilesGo
    BY <1>1, <1>2, <1>10 DEF OtherTypes, Opens, Opening, FilesGo
  <2>4. Advances
    BY <1>4, <1>10, <2>2
  <2> QED BY <1>1, <1>10, <2>2, <2>3, <2>4, PaymentsAlone DEF Left, Typed
<1>11. CASE /\ opening # "idle" /\ opening' = "idle" /\ funding' = None /\ UNCHANGED <<pay, closing>>
            /\ CASE opening = "height" -> FailsToPropose /\ UNCHANGED late
                 [] opening = "posted" -> GivesUp(Proposal(proposed)) /\ UNCHANGED <<proposed, file, hex>>
                 [] opening = "fund" -> GivesUp(Funds(funding)) /\ UNCHANGED <<proposed, file, hex>>
  <2>1. opening \in {"height", "posted", "fund"}
    BY <1>1, <1>11 DEF OtherTypes
  <2> QED BY <1>7, <1>8, <1>9, <1>11, <2>1
<1> QED BY <1>5, <1>10, <1>11 DEF Fails

\* A payment begins a tool, for the channel of the file.
LEMMA SignMoreKeeps ==
  ASSUME IInv, NEW p \in Payments, SignMore(p)
  PROVE  /\ IInv' /\ UNCHANGED <<file, row, newest, late>> /\ \A c \in Channels : Owned(c)' => Owned(c)
         /\ \E n \in Sums : /\ n <= file.paid + Step
                                 /\ pay' = [pay EXCEPT ![p] = Bound("sign", file.channel, n)]
<1>1. Typed /\ Service /\ Files /\ Opening /\ TypeOK
  BY Types DEF IInv, Typed
<1>2. /\ pay[p].at = "status" /\ file.channel \in Channels /\ file.channel # None /\ file.paid \in Sums
      /\ UNCHANGED <<proposed, file, hex, opening, funding, closing, row, newest, deposit, late, faults>>
  BY <1>1, Amounts DEF SignMore, OnlyPays, serviceVars
<1>3. PICK n \in Sums : n <= file.paid + Step /\ Goes(p, Bound("sign", file.channel, n))
  <2> DEFINE all == Most[file.channel]
             total == IF file.paid + Step < all THEN file.paid + Step ELSE all
  <2>1. file.paid \in Nat /\ Step \in Nat /\ all \in Nat
    BY <1>2, WalletAssumption, SumsAre
  <2>2. total \in Sums /\ total <= file.paid + Step
    <3> HIDE DEF all
    <3>1. total \in 0 .. all /\ total <= file.paid + Step
      BY <1>2, <2>1 DEF SignMore
    <3> QED BY <1>2, <3>1, SumsAre DEF all
  <2>3. Goes(p, Bound("sign", file.channel, total))
    BY DEF SignMore
  <2> HIDE DEF total
  <2> QED BY <2>2, <2>3
<1> DEFINE o == Bound("sign", file.channel, n)
<1>4. o \in Payment /\ o.at = "sign" /\ o.channel = file.channel /\ o.total = n
  BY <1>2, PaymentTypes DEF Place
<1> HIDE DEF o
<1>5. pay' = [pay EXCEPT ![p] = o]
  BY <1>3 DEF Goes, o
<1>6. \A q \in Payments : pay'[q] = IF q = p THEN o ELSE pay[q]
  BY <1>1, <1>5 DEF Typed
<1>7. TypeOK'
  <2>1. (pay \in [Payments -> Payment])'
    BY <1>1, <1>4, <1>5 DEF Typed, Payment, Place
  <2>2. (late \subseteq Message)' /\ OtherTypes' /\ ServiceTypes'
    BY <1>1, <1>2 DEF Typed, Message, OtherTypes, ServiceTypes
  <2> QED BY <1>1, <1>2, <2>1, <2>2, Types DEF Typed
<1>8. Service' /\ \A c \in Channels : Owned(c)' <=> Owned(c)
  BY <1>1, <1>2 DEF Service, ServiceTypes, Owned, Live
<1>9. \A u \in AllSigned' : u \in AllSigned \/ u = [channel |-> file.channel, paid |-> n]
  BY <1>2, <1>4, <1>6 DEF AllSigned, Unwritten
<1>10. Files'
  <2>1. \A u \in AllSigned' : u.channel # None => row'[u.channel].status # "none"
    BY <1>1, <1>2, <1>9 DEF Files, AllSigned
  <2>2. \A q \in Payments : pay'[q].at \in {"sign", "posted"} => pay'[q].channel \in Channels
    BY <1>1, <1>2, <1>4, <1>6 DEF Files
  <2> QED BY <1>1, <1>2, <2>1, <2>2 DEF Files
<1>11. Opening'
  BY <1>1, <1>2, <1>8 DEF Opening
<1> QED BY <1>2, <1>3, <1>5, <1>7, <1>8, <1>10, <1>11 DEF IInv, o

Accepted == TakeOpen /\ row'[proposed].status = "accepted"

\* The service accepts the opening: what it accepts is the wallet's channel, and the
\* only one it holds.
LEMMA AcceptedKeeps ==
  ASSUME IInv, Accepted
  PROVE  /\ IInv' /\ ServiceStep /\ UNCHANGED <<pay, late>>
         /\ Live' \subseteq {proposed} /\ file'.channel = proposed /\ file'.paid = 0
<1>1. Typed /\ OtherTypes /\ Service /\ Files /\ Opening /\ TypeOK
  BY Types DEF IInv, Typed
<1>2. proposed \in Channels /\ proposed # None
  BY <1>1, WalletAssumption DEF Accepted, TakeOpen, Opening, OtherTypes, WalletAssumption
<1>3. ServiceStep /\ UNCHANGED deposit /\ Live' \subseteq {proposed}
  BY <1>1, <1>2, ProposalTaken DEF Accepted, TakeOpen
<1>4. /\ UNCHANGED <<hex, pay, closing, late, faults>> /\ opening' = "fund" /\ funding' = proposed
      /\ file' = [channel |-> proposed, paid |-> 0] /\ proposed' = None
  BY DEF Accepted, TakeOpen
<1>5. file' \in Amount /\ file'.channel = proposed /\ file'.paid = 0
  BY <1>2, <1>4, SumsAre DEF Amount
<1>6. TypeOK'
  <2>1. OtherTypes'
    BY <1>1, <1>2, <1>4 DEF OtherTypes
  <2>2. (pay \in [Payments -> Payment])' /\ (late \subseteq Message)' /\ ServiceTypes'
    BY <1>1, <1>3, <1>4 DEF Typed, Payment, Place, Message, ServiceStep, Service
  <2> QED BY <1>1, <1>4, <1>5, <2>1, <2>2, Types DEF Typed
<1>7. Files'
  <2>1. \A u \in AllSigned : u.channel \in Channels \cup {None}
    BY <1>1, UnwrittenTypes, Amounts DEF AllSigned
  <2>2. \A u \in AllSigned' : u \in AllSigned \/ u = file'
    BY <1>4 DEF AllSigned, Unwritten
  <2>3. \A u \in AllSigned' : u.channel # None => row'[u.channel].status # "none"
    <3>1. row'[file'.channel].status # "none"
      BY <1>5 DEF Accepted
    <3> QED BY <1>1, <1>3, <2>1, <2>2, <3>1 DEF Files, ServiceStep, NoneLost
  <2>4. row'[funding'].status # "none"
    BY <1>4 DEF Accepted
  <2>5. \A c \in Channels : Funds(c) \in late' => row'[c].status # "none"
    BY <1>1, <1>3, <1>4 DEF Files, ServiceStep, NoneLost
  <2>6. ~(file'.paid > 0)
    BY <1>5
  <2> QED BY <1>1, <1>4, <2>3, <2>4, <2>5, <2>6 DEF Files
<1>8. Opening'
  <2>1. \A c \in Channels : Owned(c)' => file'.channel # None
    BY <1>2, <1>5
  <2> QED BY <1>2, <1>4, <2>1 DEF Opening
<1> QED BY <1>3, <1>4, <1>5, <1>6, <1>7, <1>8 DEF IInv, ServiceStep

\* Every step is one of these.
LEMMA NextSplits ==
  ASSUME IInv, [Next]_vars
  PROVE  Keeps \/ (\E p \in Payments : SignMore(p)) \/ Accepted
<1>1. OtherTypes /\ Service /\ Opening
  BY Types DEF IInv, Typed
<1>2. CASE UNCHANGED vars
  <2>1. /\ UNCHANGED serviceVars /\ UNCHANGED <<pay, file, hex, proposed, faults, late>>
        /\ UNCHANGED <<opening, funding>> /\ UNCHANGED closing
    BY <1>2 DEF vars, walletVars, serviceVars
  <2>2. closing' \in BOOLEAN
    BY <1>1, <2>1 DEF OtherTypes
  <2>3. Advances
    BY <1>1, <2>1, NothingTaken, ServiceAdvances
  <2> QED BY <2>1, <2>2, <2>3, ServiceAlone
<1>3. ASSUME NEW p \in Payments, AskPay(p) \/ Paying(p) PROVE Keeps \/ SignMore(p)
  BY <1>3, PaymentKeeps DEF Paying
<1>4. CASE TakeOpen
  <2>1. CASE row'[proposed].status # "accepted"
    <3>1. proposed \in Channels /\ funding = None
      BY <1>1, <1>4 DEF TakeOpen, Opening, OtherTypes
    <3>2. /\ UNCHANGED <<pay, file, hex, proposed, faults, late>> /\ opening' = "idle" /\ funding' = None
          /\ UNCHANGED closing
      BY <1>4, <2>1, <3>1 DEF TakeOpen
    <3>3. closing' \in BOOLEAN
      BY <1>1, <3>2 DEF OtherTypes
    <3>4. Advances
      BY <1>1, <1>4, <3>1, <3>2, ProposalTaken, ServiceAdvances DEF TakeOpen
    <3> QED BY <3>2, <3>3, <3>4, ServiceAlone
  <2> QED BY <1>4, <2>1 DEF Accepted
<1>5. CASE \/ AskOpen \/ Propose \/ FundChannel \/ AskClose \/ TakeClosing \/ Refund
           \/ Fails \/ (\E m \in late : TakeLate(m))
           \/ \E c \in Channels : CloseDue(c) \/ Mine(c)
  BY <1>5, AskingKeeps, ProposeKeeps, DepositsKeep, ClosingKeeps, FailsKeeps, LateKeeps
<1> QED BY <1>2, <1>3, <1>4, <1>5 DEF Next

\* Every step keeps the invariant.
LEMMA NextKeeps ==
  ASSUME IInv, [Next]_vars
  PROVE  IInv'
  BY NextSplits, StepKeeps, SignMoreKeeps, AcceptedKeeps

-----------------------------------------------------------------------------
(* What is signed ahead of the service.                                     *)

\* A payment of more steps is a larger one.
LEMMA Scale ==
  ASSUME NEW a \in Nat, NEW b \in Nat, a <= b
  PROVE  Step * a <= Step * b /\ Step * a \in Nat
<1>1. Step \in Nat
  BY WalletAssumption DEF WalletAssumption
<1>2. PICK k \in Nat : b = a + k
  <2>1. b - a \in Nat /\ b = a + (b - a)
    OBVIOUS
  <2> QED BY <2>1
<1>3. Step * b = Step * a + Step * k
  BY <1>1, <1>2, SMT
<1>4. Step * a \in Nat /\ Step * k \in Nat
  BY <1>1, SMT
<1> QED BY <1>3, <1>4

\* The payments that are not eager are so many, and no more than there are.
LEMMA Others ==
  ASSUME TypeOK, NEW E \in SUBSET Payments
  PROVE  /\ IsFiniteSet(Payments \ E) /\ Cardinality(Payments \ E) \in Nat
         /\ Cardinality(Payments) \in Nat /\ Cardinality(Payments \ E) <= Cardinality(Payments)
         /\ Payments \ E # {} => 1 <= Cardinality(Payments \ E)
<1>1. IsFiniteSet(Payments) /\ (Payments \ E) \in SUBSET Payments
  BY WalletAssumption DEF WalletAssumption
<1>2. IsFiniteSet(Payments \ E) /\ Cardinality(Payments \ E) <= Cardinality(Payments)
  BY <1>1, FS_Subset
<1>3. Cardinality(Payments \ E) \in Nat /\ Cardinality(Payments) \in Nat
  BY <1>1, <1>2, FS_CardinalityType
<1>4. Payments \ E # {} => Cardinality(Payments \ E) # 0
  BY <1>2, FS_EmptySet
<1> QED BY <1>2, <1>3, <1>4

\* What is allowed, in numbers.
LEMMA AllowedIs ==
  ASSUME TypeOK, newest # None
  PROVE  /\ row[newest].paid \in Nat /\ Allowed \in Nat /\ Allowed >= row[newest].paid
         /\ Payments \ Eager # {} => Allowed >= row[newest].paid + Step
<1>1. newest \in Channels
  BY DEF TypeOK
<1>2. row[newest].paid \in Nat
  BY <1>1, SumsAre DEF TypeOK
<1>3. Eager \in SUBSET Payments
  BY DEF Eager
<1>4. /\ Cardinality(Payments \ Eager) \in Nat
      /\ Payments \ Eager # {} => 1 <= Cardinality(Payments \ Eager)
  BY <1>3, Others
<1>5. Step * Cardinality(Payments \ Eager) \in Nat
  BY <1>4, Scale
<1>6. Payments \ Eager # {} => Step * 1 <= Step * Cardinality(Payments \ Eager)
  BY <1>4, Scale
<1>7. Step * 1 = Step /\ Step \in Nat
  BY WalletAssumption DEF WalletAssumption
<1> QED BY <1>2, <1>5, <1>6, <1>7 DEF Allowed

\* More is allowed when more is taken and no payment becomes eager; one step more,
\* when an eager one is no longer.
LEMMA AllowedGrows ==
  ASSUME TypeOK, TypeOK', newest # None, newest' = newest,
         row'[newest].paid >= row[newest].paid, Eager' \subseteq Eager
  PROVE  /\ Allowed \in Nat /\ Allowed' \in Nat /\ Allowed' >= Allowed
         /\ \A p \in Eager \ Eager' : Allowed' >= Allowed + Step
<1>1. newest \in Channels /\ Step \in Nat
  BY WalletAssumption DEF TypeOK, WalletAssumption
<1>2. row[newest].paid \in Nat /\ row'[newest].paid \in Nat
  BY <1>1, SumsAre DEF TypeOK
<1>3. Eager \in SUBSET Payments /\ Eager' \in SUBSET Payments
  BY DEF Eager
<1> DEFINE n == Cardinality(Payments \ Eager)
           m == Cardinality(Payments \ Eager')
<1>4. n \in Nat /\ IsFiniteSet(Payments \ Eager)
  BY <1>3, Others
<1>5. m \in Nat /\ IsFiniteSet(Payments \ Eager')
  BY <1>3, Others
<1>6. n <= m
  <2>1. (Payments \ Eager) \in SUBSET (Payments \ Eager')
    OBVIOUS
  <2> QED BY <1>5, <2>1, FS_Subset
<1>7. ASSUME NEW p \in Eager \ Eager' PROVE n + 1 <= m
  <2>1. (Payments \ Eager) \cup {p} \in SUBSET (Payments \ Eager') /\ p \notin Payments \ Eager
    BY <1>3, <1>7
  <2>2. Cardinality((Payments \ Eager) \cup {p}) = n + 1
    BY <1>4, <2>1, FS_AddElement
  <2> QED BY <1>5, <2>1, <2>2, FS_Subset
<1>8. Allowed = row[newest].paid + Step * n /\ Allowed' = row'[newest].paid + Step * m
  BY DEF Allowed
<1> HIDE DEF n, m
<1>9. Step * n <= Step * m /\ Step * n \in Nat /\ Step * m \in Nat
  BY <1>4, <1>5, <1>6, Scale
<1>10. ASSUME NEW p \in Eager \ Eager' PROVE Step * n + Step <= Step * m
  <2>1. n + 1 <= m
    BY <1>7, <1>10
  <2>2. Step * (n + 1) <= Step * m
    BY <1>4, <1>5, <2>1, Scale
  <2>3. Step * (n + 1) = Step * n + Step
    BY <1>1, <1>4, SMT
  <2> QED BY <2>2, <2>3
<1> QED BY <1>1, <1>2, <1>8, <1>9, <1>10

\* What is signed, and what is allowed, are amounts.
Numbers == (\A u \in AllSigned : u.paid \in Nat) /\ (newest # None => Allowed \in Nat)

LEMMA NumbersHold == IInv => Numbers
<1> SUFFICES ASSUME IInv PROVE Numbers
  OBVIOUS
<1>1. \A u \in AllSigned : u \in Amount
  BY UnwrittenTypes, Types DEF IInv, Typed, AllSigned
<1> QED BY <1>1, AllowedIs, SumsAre DEF IInv, Amount, Numbers

LEMMA LaterNumbers == IInv' => Numbers'
  BY NumbersHold, PTL

\* A step that begins no tool: more is allowed, or the service's newest channel
\* is one that nothing is signed of.
LEMMA CoveredStep ==
  ASSUME SInv, IInv', NoneLost, \A q \in Payments : pay'[q].at = "status" => Calm(q),
         \A u \in AllSigned' : u \in AllSigned \/ u.paid = 0
  PROVE  Covered'
<1>1. TypeOK /\ TypeOK' /\ Files
  BY DEF SInv, IInv
<1>2. \A u \in AllSigned' : u.paid \in Nat
  BY LaterNumbers DEF Numbers
<1>3. newest' # None => Allowed' \in Nat
  BY LaterNumbers DEF Numbers
<1>4. ASSUME newest' # None, newest' # newest, NEW u \in AllSigned', u.channel = newest'
      PROVE  u.paid <= Allowed'
  <2>1. newest' \in Channels /\ row[newest'].status = "none"
    BY <1>4 DEF NoneLost
  <2>2. u \notin AllSigned
    BY <1>1, <1>4, <2>1 DEF Files
  <2>3. u.paid = 0
    BY <1>4, <2>2
  <2> QED BY <1>3, <1>4, <2>3
<1>5. ASSUME newest # None, newest' = newest, NEW u \in AllSigned', u.channel = newest
      PROVE  u.paid <= Allowed'
  <2>1. newest \in Channels
    BY <1>1, <1>5 DEF TypeOK
  <2>2. CASE row[newest].status = "none"
    <3>1. u \notin AllSigned
      BY <1>1, <1>5, <2>2 DEF Files
    <3>2. Allowed' \in Nat
      BY <1>3, <1>5
    <3> QED BY <1>5, <3>1, <3>2
  <2>3. CASE row[newest].status # "none"
    <3>1. row'[newest].paid >= row[newest].paid /\ row'[newest].paid \in Int /\ row[newest].paid \in Int
      BY <1>1, <2>1, <2>3, SumsAre DEF NoneLost, TypeOK
    <3>2. Eager' \subseteq Eager
      <4>1. ASSUME NEW q \in Payments, pay'[q].at = "status", pay'[q].seen > row'[newest].paid
            PROVE  q \in Eager
        <5>1. View.paid = row[newest].paid
          BY <1>5 DEF View
        <5>2. pay'[q] = pay[q] \/ pay'[q].seen = row[newest].paid
          BY <4>1, <5>1 DEF Calm
        <5>3. pay[q].seen \in Int /\ pay'[q].seen \in Int
          BY <1>1, SumsAre DEF TypeOK
        <5> QED BY <3>1, <4>1, <5>2, <5>3 DEF Eager
      <4> QED BY <1>5, <4>1 DEF Eager
    <3>3. Allowed \in Nat /\ Allowed' \in Nat /\ Allowed' >= Allowed
      BY <1>1, <1>5, <3>1, <3>2, AllowedGrows
    <3>4. u \in AllSigned => u.paid <= Allowed
      BY <1>5 DEF SInv, Covered
    <3>5. u.paid \in Nat
      BY <1>2, <1>5
    <3> QED BY <1>5, <3>3, <3>4, <3>5
  <2> QED BY <2>2, <2>3
<1> QED BY <1>4, <1>5 DEF Covered

\* A step more is to be signed: the status was of this channel, and then all of what is
\* signed was taken, or the payment was one of the eager.
LEMMA SignMoreCovered ==
  ASSUME SInv, IInv', NEW p \in Payments, SignMore(p)
  PROVE  Covered'
<1>1. TypeOK /\ TypeOK' /\ Files /\ Typed /\ Service
  BY Types DEF SInv, IInv
<1>2. PICK n \in Sums : /\ n <= file.paid + Step
                             /\ pay' = [pay EXCEPT ![p] = Bound("sign", file.channel, n)]
  BY SignMoreKeeps DEF SInv
<1>3. UNCHANGED <<file, row, newest, late>> /\ pay[p].at = "status" /\ file.channel # None
  BY SignMoreKeeps DEF SInv, SignMore
<1> DEFINE o == Bound("sign", file.channel, n)
<1>4. o.at = "sign" /\ o.channel = file.channel /\ o.total = n
  BY DEF Bound
<1> HIDE DEF o
<1>5. \A q \in Payments : pay'[q] = IF q = p THEN o ELSE pay[q]
  BY <1>1, <1>2 DEF Typed, o
<1>6. \A u \in AllSigned' : u \in AllSigned \/ u = [channel |-> file.channel, paid |-> n]
  BY <1>3, <1>4, <1>5 DEF AllSigned, Unwritten
<1>7. file.paid \in Nat /\ pay[p].seen \in Nat /\ Step \in Nat
  BY <1>1, WalletAssumption, SumsAre DEF TypeOK
<1>8. file.paid <= pay[p].seen
  <2>1. ~(file.paid > pay[p].seen) \/ hex.channel = None
    BY DEF SignMore, Behind
  <2>2. hex.channel = None => ~(file.paid > 0)
    BY <1>1 DEF Files
  <2> QED BY <1>7, <2>1, <2>2
<1>9. Covered /\ file \in AllSigned
  BY DEF SInv, AllSigned
<1>10. CASE newest # None
  <2>1. /\ Eager' = Eager \ {p}
    BY <1>3, <1>4, <1>5 DEF Eager
  <2>2. newest \in Channels /\ row'[newest].paid >= row[newest].paid
    BY <1>1, <1>3, <1>10, SumsAre DEF TypeOK
  <2>3. /\ Allowed \in Nat /\ Allowed' \in Nat /\ Allowed' >= Allowed
        /\ p \in Eager => Allowed' >= Allowed + Step
    <3>1. Eager' \subseteq Eager /\ (p \in Eager => p \in Eager \ Eager')
      BY <2>1
    <3> QED BY <1>1, <1>3, <1>10, <2>2, <3>1, AllowedGrows
  <2>4. file.channel = newest => n <= Allowed'
    <3>1. CASE p \in Eager
      <4>1. file.channel = newest => file.paid <= Allowed
        BY <1>9, <1>10 DEF Covered
      <4> QED BY <1>2, <1>7, <2>3, <3>1, <4>1, SumsAre
    <3>2. CASE p \notin Eager
      <4>1. Allowed >= row[newest].paid + Step /\ row[newest].paid \in Nat
        <5>1. Payments \ Eager # {}
          BY <3>2
        <5> QED BY <1>1, <1>10, <5>1, AllowedIs
      <4>2. pay[p].seen <= row[newest].paid
        BY <1>3, <1>7, <3>2, <4>1 DEF Eager
      <4> QED BY <1>2, <1>7, <1>8, <2>3, <4>1, <4>2, SumsAre
    <3> QED BY <3>1, <3>2
  <2>5. ASSUME NEW u \in AllSigned', u.channel = newest PROVE u.paid <= Allowed'
    <3>1. CASE u \in AllSigned
      <4>1. u.paid <= Allowed
        BY <1>9, <1>10, <2>5, <3>1 DEF Covered
      <4>2. u.paid \in Nat
        BY <3>1, NumbersHold DEF SInv, Numbers
      <4> QED BY <2>3, <4>1, <4>2
    <3>2. CASE u = [channel |-> file.channel, paid |-> n]
      BY <2>4, <2>5, <3>2
    <3> QED BY <1>6, <2>5, <3>1, <3>2
  <2> QED BY <1>3, <2>5 DEF Covered
<1> QED BY <1>3, <1>10 DEF Covered

\* The strengthened invariant is inductive.
LEMMA SignedKeeps ==
  ASSUME SInv, [Next]_vars
  PROVE  SInv'
<1>1. IInv /\ IInv'
  BY NextKeeps DEF SInv
<1>2. CASE Keeps
  <2>1. \A u \in AllSigned' : u \in AllSigned \/ u.paid = 0
    BY <1>2, NothingSigned DEF NoFile
  <2> QED BY <1>1, <1>2, <2>1, CoveredStep DEF SInv, Keeps, Advances
<1>3. ASSUME NEW p \in Payments, SignMore(p) PROVE SInv'
  BY <1>1, <1>3, SignMoreCovered DEF SInv
<1>4. CASE Accepted
  <2>1. ServiceStep /\ UNCHANGED <<pay, late>> /\ file'.paid = 0
    BY <1>1, <1>4, AcceptedKeeps
  <2>2. \A u \in AllSigned' : u \in AllSigned \/ u.paid = 0
    BY <2>1 DEF AllSigned, Unwritten
  <2> QED BY <1>1, <2>1, <2>2, CoveredStep DEF SInv, ServiceStep, Calm
<1> QED BY <1>1, <1>2, <1>3, <1>4, NextSplits

\* At first nothing is signed.
LEMMA SignedInit == Init => SInv
  BY InitHolds DEF Init, SInv, Covered

-----------------------------------------------------------------------------
\* Types, for any channels, overlapping payments, amounts and faults.
THEOREM TypeCorrect == Spec => []TypeOK
<1>1. IInv => TypeOK
  BY DEF IInv
<1> QED BY <1>1, InitHolds, NextKeeps, PTL DEF Spec

\* open() (channel-wallet.cjs:89-106): nothing but a tool that signs for an earlier
\* channel takes the wallet's file from a channel that the service holds with the
\* wallet's deposit, whatever openings, payments and late requests overlap.
THEOREM FileIsKeptHolds == Spec => FileIsKept
<1>1. ASSUME IInv, [Next]_vars, NEW c \in Channels, Owned(c)', file'.channel # c
      PROVE  (Owned(c) /\ file.channel # c) \/ file' \in Unwritten
  <2>1. CASE Keeps
    BY <1>1, <2>1, StepSpares
  <2>2. ASSUME NEW p \in Payments, SignMore(p)
        PROVE  (Owned(c) /\ file.channel # c) \/ file' \in Unwritten
    BY <1>1, <2>2, SignMoreKeeps
  <2>3. CASE Accepted
    BY <1>1, <2>3, AcceptedKeeps DEF Owned
  <2> QED BY <1>1, <2>1, <2>2, <2>3, NextSplits
<1>2. IInv /\ [Next]_vars =>
        [\A c \in Channels : Owned(c)' /\ file'.channel # c =>
           (Owned(c) /\ file.channel # c) \/ file' \in Unwritten]_vars
  BY <1>1
<1> QED BY <1>2, InitHolds, NextKeeps, PTL DEF Spec, FileIsKept

\* PAYMENTS.md:222 "The user risks at most the few minutes paid ahead": what is signed
\* of the service's newest channel is at most one step for each payment that may be
\* under way beyond what the service has taken, for any number of payments and
\* channels, and any amounts.
THEOREM SignedAheadHolds == Spec => []SignedAhead
<1>1. ASSUME SInv PROVE SignedAhead
  <2>1. TypeOK /\ Covered /\ file \in AllSigned
    BY <1>1 DEF SInv, IInv, AllSigned
  <2>2. Eager \in SUBSET Payments
    BY DEF Eager
  <2>3. /\ Cardinality(Payments \ Eager) \in Nat /\ Cardinality(Payments) \in Nat
        /\ Cardinality(Payments \ Eager) <= Cardinality(Payments)
    BY <2>1, <2>2, Others
  <2>4. /\ Step * Cardinality(Payments \ Eager) <= Step * Cardinality(Payments)
        /\ Step * Cardinality(Payments \ Eager) \in Nat /\ Step * Cardinality(Payments) \in Nat
    BY <2>3, Scale
  <2>5. Step * Cardinality(Payments) = Cardinality(Payments) * Step
    BY <2>3, WalletAssumption, SMT DEF WalletAssumption
  <2>6. ASSUME newest # None, file.channel = newest
        PROVE  file.paid <= row[newest].paid + Cardinality(Payments) * Step
    <3>1. file.paid <= Allowed /\ file.paid \in Int
      BY <2>1, <2>6, SumsAre DEF Covered, TypeOK
    <3>2. row[newest].paid \in Nat
      BY <2>1, <2>6, AllowedIs
    <3> QED BY <2>4, <2>5, <3>1, <3>2 DEF Allowed
  <2> QED BY <2>6 DEF SignedAhead
<1> QED BY <1>1, SignedInit, SignedKeeps, PTL DEF Spec

=============================================================================
