------------------------------- MODULE Wallet -------------------------------
(***************************************************************************)
(* The desktop application's wallet (src/app/channel-wallet.cjs, called    *)
(* from src/app/main.js): it opens a payment channel, funds it, pays a few *)
(* minutes ahead every twenty seconds while connected, and closes it or    *)
(* takes its refund.  Its memory are three files: proposed.json,           *)
(* channel.json and state.hex, the last state signed.  The requant-wallet  *)
(* binary reads and writes them by name, while other operations go on.     *)
(*                                                                         *)
(* Payments (of the timer, of a connection begun) overlap, with each other *)
(* and with an opening or a close, each at an await: for the status,       *)
(* for an answer, or for the requant-wallet binary.  What an operation     *)
(* posted may arrive at the service long after the operation gave up.      *)
(*                                                                         *)
(* The access service is here one step per request; what overlaps within   *)
(* it is PaymentChannel's.  Purchases of RQT are left out.                 *)
(***************************************************************************)
EXTENDS Integers, FiniteSets

CONSTANTS
  Channels,   \* the channels the wallet may propose
  Payments,   \* the runs of payAhead() that may be under way at once
  Timer,      \* the one of them that the timer begins
  None,
  Most,       \* Most[c]: the deposit of c less the fee of the closing transaction
  Step,       \* STEP_MINUTES at the price of a minute
  MaxFaults   \* bound: operations that fail at an await

ASSUME WalletAssumption ==
  /\ Timer \in Payments /\ None \notin Channels
  /\ Most \in [Channels -> Nat] /\ Step \in Nat \ {0} /\ MaxFaults \in Nat
  /\ IsFiniteSet(Payments)

VARIABLES
  proposed,  \* proposed.json: the channel it names, or None
  file,      \* channel.json: the channel, or None, and what was signed
  hex,       \* state.hex: the channel, or None, and what it pays
  pay,       \* pay[p]: where the payment p is, and what it knows
  opening,   \* where the user's opening is
  funding,   \* the channel that the tool funds meanwhile, or None
  closing,   \* the user's close is posted
  row,       \* row[c]: the service's row of the channel
  newest,    \* the channel the service saw last
  deposit,   \* deposit[c]: "no", "sent", "confirmed", "ending" near the expiry, "spent"
  late,      \* what operations that gave up have posted, or tools are about to do
  faults

walletVars == <<proposed, file, hex, pay, opening, funding, closing>>
serviceVars == <<row, newest, deposit>>
vars == <<walletVars, serviceVars, late, faults>>

\* A payment: nothing under way, the status answered, a total to sign or
\* posted, or the tool ended.
Idle == [at |-> "idle", seen |-> 0, channel |-> None, total |-> 0]
Seeing(n) == [at |-> "status", seen |-> n, channel |-> None, total |-> 0]
Bound(a, c, n) == [at |-> a, seen |-> 0, channel |-> c, total |-> n]
Signed == [Idle EXCEPT !.at = "signed"]

NoFile == [channel |-> None, paid |-> 0]
NoRow == [status |-> "none", paid |-> 0]

\* "over" stands for dropped, abandoned and expired.
Statuses == {"none", "accepted", "open", "closed", "over"}
Proposal(c) == [to |-> "open", channel |-> c]
State(c, n) == [to |-> "pay", channel |-> c, total |-> n]
CloseIt == [to |-> "close"]
Signs(c, n) == [to |-> "sign", channel |-> c, total |-> n]
Funds(c) == [to |-> "fund", channel |-> c]

Init ==
  /\ proposed = None /\ file = NoFile /\ hex = NoFile
  /\ pay = [p \in Payments |-> Idle]
  /\ opening = "idle" /\ funding = None /\ closing = FALSE
  /\ row = [c \in Channels |-> NoRow] /\ newest = None
  /\ deposit = [c \in Channels |-> "no"]
  /\ late = {} /\ faults = 0

-----------------------------------------------------------------------------
(* Paying: payAhead, keepPaid, pay.                                         *)

Goes(p, o) == pay' = [pay EXCEPT ![p] = o]

\* A step of one payment that leaves the wallet's files and the service alone.
OnlyPays == UNCHANGED <<proposed, file, hex, opening, funding, closing, serviceVars, late, faults>>

\* channel_view(): the newest channel, as it is when the status is answered.
View == IF newest = None THEN NoRow ELSE row[newest]

\* payAhead(), the status answered: without a channel, with a closed one or with
\* enough paid ahead nothing comes of it.
AskPay(p) ==
  /\ pay[p].at = "idle" /\ file.channel # None /\ View.status # "closed"
  /\ Goes(p, Seeing(View.paid)) /\ OnlyPays

\* Variant: the wallet signs on whatever the service has taken.
NeverBehind(p) == FALSE

\* The service has not taken the last state yet, and there is one.
Behind(p) == file.paid > pay[p].seen /\ hex.channel # None

\* The channel is gone meanwhile, or all of it is signed.
Nothing(p) ==
  /\ pay[p].at = "status" /\ Goes(p, Idle) /\ OnlyPays
  /\ file.channel = None \/ (~Behind(p) /\ file.paid = Most[file.channel])

\* Variant: what state.hex said before.
PostsBefore(p) == Goes(p, Bound("posted", hex.channel, hex.paid - Step))

\* What state.hex says is posted.
Posts(p) == Goes(p, Bound("posted", hex.channel, hex.paid))

\* The last state goes again ...
Resend(p) ==
  /\ pay[p].at = "status" /\ file.channel # None
  /\ Behind(p) /\ Posts(p) /\ OnlyPays

\* ... or, if the service has it, one more is signed: of the channel that the file
\* names now, which need not be the one of the status.  The tool begins.
SignMore(p) ==
  /\ pay[p].at = "status" /\ file.channel # None
  /\ ~Behind(p) /\ file.paid < Most[file.channel] /\ OnlyPays
  /\ LET total == file.paid + Step
         all == Most[file.channel]
     IN Goes(p, Bound("sign", file.channel, IF total < all THEN total ELSE all))

\* channel pay: the tool writes both files, of the channel it began with, whatever
\* has become of them.
Writes(c, n) ==
  /\ file' = [channel |-> c, paid |-> n] /\ hex' = [channel |-> c, paid |-> n]
  /\ UNCHANGED <<proposed, opening, funding, closing, serviceVars, faults>>

Sign(p) ==
  /\ pay[p].at = "sign" /\ Writes(pay[p].channel, pay[p].total)
  /\ Goes(p, Signed) /\ UNCHANGED late

\* The tool has ended: state.hex is read, which may be another's by now, or gone.
PostSigned(p) ==
  /\ pay[p].at = "signed" /\ OnlyPays
  /\ IF hex.channel # None THEN Posts(p) ELSE Goes(p, Idle)

-----------------------------------------------------------------------------
(* Opening and closing: one opening at a time, its button is off meanwhile. *)

\* A proposal waits and there is no accepted channel.
Pending == proposed # None /\ file.channel = None

\* Variant: a channel is opened whatever the service says of the last one.
OpensAnyway == TRUE

\* A channel that the service holds is not replaced, unless its opening has to be finished.
MayOpen == View.status \in {"accepted", "open"} => Pending

\* open(), up to the await of the chain's height.
AskOpen ==
  /\ opening = "idle" /\ MayOpen /\ opening' = "height"
  /\ UNCHANGED <<proposed, file, hex, pay, funding, closing, serviceVars, late, faults>>

\* The files of the last channel are removed.  A proposal that is there is posted
\* again; else the tool makes one, with coins that no earlier channel has.
NewProposal ==
  /\ file' = NoFile /\ hex' = NoFile
  /\ IF proposed = None
     THEN \E c \in Channels : row[c].status = "none" /\ proposed' = c
     ELSE UNCHANGED proposed

Propose ==
  /\ opening = "height" /\ opening' = "posted" /\ NewProposal
  /\ UNCHANGED <<pay, funding, closing, serviceVars, late, faults>>

\* channel fund: the tool sends the deposit of the channel it began with.
Sends(c) == deposit' = IF deposit[c] = "no" THEN [deposit EXCEPT ![c] = "sent"] ELSE deposit

FundChannel ==
  /\ opening = "fund" /\ opening' = "idle" /\ funding' = None /\ Sends(funding)
  /\ UNCHANGED <<proposed, file, hex, pay, closing, row, newest, late, faults>>

\* The button is there while the service holds a channel.
AskClose ==
  /\ ~closing /\ View.status \in {"accepted", "open"} /\ closing' = TRUE
  /\ UNCHANGED <<proposed, file, hex, pay, opening, funding, serviceVars, late, faults>>

\* channel refund, with the file of the channel: from its expiry on.
Refund ==
  /\ file.channel # None /\ deposit[file.channel] = "ending"
  /\ deposit' = [deposit EXCEPT ![file.channel] = "spent"]
  /\ UNCHANGED <<walletVars, row, newest, late, faults>>

\* An operation fails at its await: no answer in time, a tool that fails, or the
\* application stops.  What it posted, or its tool does, is lost or comes later.
GivesUp(m) == late' \in {late, late \cup {m}}

FailsAt(p) ==
  CASE pay[p].at = "posted" -> GivesUp(State(pay[p].channel, pay[p].total))
    [] pay[p].at = "sign" -> GivesUp(Signs(pay[p].channel, pay[p].total))
    [] OTHER -> UNCHANGED late

\* The files may be gone by then, the proposal made.
FailsToPropose == NewProposal \/ UNCHANGED <<proposed, file, hex>> \/
                  (file' = NoFile /\ hex' \in {hex, NoFile} /\ UNCHANGED proposed)

Fails ==
  /\ faults < MaxFaults /\ faults' = faults + 1 /\ UNCHANGED serviceVars
  /\ \/ \E p \in Payments :
          /\ pay[p].at # "idle" /\ Goes(p, Idle) /\ FailsAt(p)
          /\ UNCHANGED <<proposed, file, hex, opening, funding, closing>>
     \/ /\ opening # "idle" /\ opening' = "idle" /\ funding' = None
        /\ CASE opening = "height" -> FailsToPropose /\ UNCHANGED late
             [] opening = "posted" -> GivesUp(Proposal(proposed)) /\ UNCHANGED <<proposed, file, hex>>
             [] opening = "fund" -> GivesUp(Funds(funding)) /\ UNCHANGED <<proposed, file, hex>>
        /\ UNCHANGED <<pay, closing>>
     \/ /\ closing /\ GivesUp(CloseIt) /\ closing' = FALSE
        /\ UNCHANGED <<proposed, file, hex, pay, opening, funding>>

-----------------------------------------------------------------------------
(* The access service, a request at a time, and the chain.                  *)

Live == {c \in Channels : row[c].status \in {"accepted", "open"}}

\* channel_open: a new proposal is refused while the live channel is open or its
\* deposit confirmed, and drops it otherwise; the same one again changes nothing.
TakeProposal(c) ==
  IF /\ row[c].status = "none"
     /\ \A d \in Live : row[d].status = "accepted" /\ deposit[d] \in {"no", "sent"}
  THEN /\ row' = [d \in Channels |->
                    IF d = c THEN [NoRow EXCEPT !.status = "accepted"]
                    ELSE IF d \in Live THEN [row[d] EXCEPT !.status = "over"] ELSE row[d]]
       /\ newest' = c /\ UNCHANGED deposit
  ELSE UNCHANGED serviceVars

\* channel_pay: a state of the live channel that pays more counts.
TakeState(c, n) ==
  /\ row' = IF c \in Live /\ deposit[c] = "confirmed" /\ n > row[c].paid
            THEN [row EXCEPT ![c] = [status |-> "open", paid |-> n]] ELSE row
  /\ UNCHANGED <<newest, deposit>>

\* close_channel: with the best state, or without one left to its refund.
Close(c) ==
  /\ IF row[c].paid = 0
     THEN row' = [row EXCEPT ![c].status = "over"] /\ UNCHANGED deposit
     ELSE /\ deposit[c] # "spent" /\ deposit' = [deposit EXCEPT ![c] = "spent"]
          /\ row' = [row EXCEPT ![c].status = "closed"]
  /\ UNCHANGED newest

TakeClose == (\E c \in Live : Close(c)) \/ UNCHANGED serviceVars

\* close_due: near the expiry or fully paid; an unpaid channel expires, by its height
\* alone, its deposit sent or not.
CloseDue(c) ==
  /\ c \in Live
  /\ \/ row[c].status = "open" /\ (deposit[c] = "ending" \/ row[c].paid = Most[c]) /\ Close(c)
     \/ row[c].status = "accepted" /\ deposit[c] \in {"no", "sent", "ending"}
        /\ row' = [row EXCEPT ![c].status = "over"] /\ UNCHANGED <<newest, deposit>>
  /\ UNCHANGED <<walletVars, late, faults>>

\* A request arrives and is answered.
TakePay(p) ==
  /\ pay[p].at = "posted" /\ TakeState(pay[p].channel, pay[p].total) /\ Goes(p, Idle)
  /\ UNCHANGED <<proposed, file, hex, opening, funding, closing, late, faults>>

\* With the refund's signature the proposal becomes the wallet's channel.
TakeOpen ==
  /\ opening = "posted" /\ TakeProposal(proposed)
  /\ IF row'[proposed].status = "accepted"
     THEN /\ file' = [channel |-> proposed, paid |-> 0] /\ proposed' = None
          /\ opening' = "fund" /\ funding' = proposed
     ELSE opening' = "idle" /\ UNCHANGED <<proposed, file, funding>>
  /\ UNCHANGED <<hex, pay, closing, late, faults>>

TakeClosing ==
  /\ closing /\ closing' = FALSE /\ TakeClose
  /\ UNCHANGED <<proposed, file, hex, pay, opening, funding, late, faults>>

\* A request arrives that nobody waits for any more, or such a tool ends.
TakeLate(m) ==
  /\ m \in late /\ late' = late \ {m}
  /\ CASE m.to = "open" -> TakeProposal(m.channel) /\ UNCHANGED <<walletVars, faults>>
       [] m.to = "pay" -> TakeState(m.channel, m.total) /\ UNCHANGED <<walletVars, faults>>
       [] m.to = "close" -> TakeClose /\ UNCHANGED <<walletVars, faults>>
       [] m.to = "sign" -> Writes(m.channel, m.total) /\ UNCHANGED pay
       [] m.to = "fund" -> Sends(m.channel) /\ UNCHANGED <<walletVars, row, newest, faults>>

\* The chain goes on: a deposit is confirmed, its expiry comes near.
Mine(c) ==
  /\ \/ deposit[c] = "sent" /\ deposit' = [deposit EXCEPT ![c] = "confirmed"]
     \/ deposit[c] = "confirmed" /\ deposit' = [deposit EXCEPT ![c] = "ending"]
  /\ UNCHANGED <<walletVars, row, newest, late, faults>>

-----------------------------------------------------------------------------
Paying(p) ==
  Nothing(p) \/ Resend(p) \/ SignMore(p) \/ Sign(p) \/ PostSigned(p) \/ TakePay(p)

Next ==
  \/ \E p \in Payments : AskPay(p) \/ Paying(p)
  \/ AskOpen \/ Propose \/ TakeOpen \/ FundChannel
  \/ AskClose \/ TakeClosing \/ Refund
  \/ Fails \/ \E m \in late : TakeLate(m)
  \/ \E c \in Channels : CloseDue(c) \/ Mine(c)

Spec == Init /\ [][Next]_vars

\* The timer asks every twenty seconds, and what is paid ahead is used up, so that it
\* finds too little again and again; its payment goes on when an await ends.
\* Nothing makes the user act, nor a block come.
Fairness == WF_vars(AskPay(Timer) \/ Paying(Timer))

FairSpec == Spec /\ Fairness

-----------------------------------------------------------------------------
(* Properties.                                                              *)

Sums == {0} \cup UNION {0 .. Most[c] : c \in Channels}

\* Types of every variable.
TypeOK ==
  /\ proposed \in Channels \cup {None} /\ newest \in Channels \cup {None}
  /\ file \in [channel : Channels \cup {None}, paid : Sums]
  /\ hex \in [channel : Channels \cup {None}, paid : Sums]
  /\ pay \in [Payments -> [at : {"idle", "status", "sign", "signed", "posted"}, seen : Sums,
                           channel : Channels \cup {None}, total : Sums]]
  /\ opening \in {"idle", "height", "posted", "fund"} /\ funding \in Channels \cup {None}
  /\ closing \in BOOLEAN
  /\ row \in [Channels -> [status : Statuses, paid : Sums]]
  /\ deposit \in [Channels -> {"no", "sent", "confirmed", "ending", "spent"}]
  /\ late \subseteq {CloseIt} \cup {Proposal(c) : c \in Channels} \cup {Funds(c) : c \in Channels}
                      \cup {State(c, n) : c \in Channels, n \in Sums}
                      \cup {Signs(c, n) : c \in Channels, n \in Sums}
  /\ faults \in 0 .. MaxFaults

\* PAYMENTS.md:222 "The user risks at most the few minutes paid ahead": whatever
\* payments overlap, with a new channel, lost answers and restarts, the wallet has
\* signed at most one step for each of them beyond what the service has taken of its
\* newest channel.  (Of an earlier one, whose file a slow tool wrote again, a payment
\* that knows the newest one's status may sign more: the service takes none of it.)
SignedAhead ==
  newest # None /\ file.channel = newest =>
    file.paid <= row[newest].paid + Cardinality(Payments) * Step

\* A channel of the service with a deposit in it, or one that is being sent.
Unspent == {"sent", "confirmed", "ending"}
Owned(c) == c \in Live /\ (deposit[c] \in Unspent \/ funding = c \/ Funds(c) \in late)

\* What tools that sign are about to write.
Unwritten ==
  {[channel |-> pay[p].channel, paid |-> pay[p].total] : p \in {q \in Payments : pay[q].at = "sign"}}
    \cup {[channel |-> m.channel, paid |-> m.total] : m \in {l \in late : l.to = "sign"}}

\* open() (channel-wallet.cjs:89-106): nothing that it does, however openings fail, are
\* taken up again or answered late, takes the file of its refund and its payments
\* from a channel that the service holds with the wallet's deposit.  Only a tool can
\* that signs meanwhile, of an earlier channel.
FileIsKept ==
  [][\A c \in Channels :
       Owned(c)' /\ file'.channel # c =>
         (Owned(c) /\ file.channel # c) \/ file' \in Unwritten]_vars

\* keepPaid (channel-wallet.cjs:131-132): a state signed before the deposit was
\* confirmed, or whose post was lost or refused, does not stay with the wallet for
\* ever while the service holds the channel and would take it.
Untaken ==
  \E c \in Live : file.channel = c /\ file.paid > row[c].paid /\ deposit[c] = "confirmed"

SignedIsTaken == []<>~Untaken
=============================================================================
