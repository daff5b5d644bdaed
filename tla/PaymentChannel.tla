--------------------------- MODULE PaymentChannel ---------------------------
(***************************************************************************)
(* The payment channels of the access service (web/server.py, class        *)
(* AccessStore; web/channels.py).  One account pays through one-way        *)
(* channels: the client proposes a channel, the service signs its refund,  *)
(* the client funds it on the chain and then hands over signed states that *)
(* pay the service more each time; the service closes a channel with a     *)
(* state it stored.                                                        *)
(*                                                                         *)
(* The HTTP server runs one thread per request and one daemon thread       *)
(* (watch_payments) beside them.  Only the database sections hold          *)
(* AccessStore.lock; the wallet binary and the chain API are called        *)
(* between them.  So a handler is modelled by one action per locked        *)
(* section and one per group of unlocked calls, with the values it carries *)
(* from one to the next in thread-local variables.                         *)
(***************************************************************************)
EXTENDS Integers, FiniteSets

CONSTANTS
  Channels,     \* the channels the account's devices may propose
  Requests,     \* the request threads that may run at once
  Payer,        \* the payment thread
  None,         \* no channel
  Expiry,       \* Expiry[c]: the height from which the refund of c is valid
  Deposit,      \* atoms locked in every channel
  MinDeposit,   \* minDepositAtoms
  Fee,          \* the fee of a closing transaction (CHANNEL_FEE)
  Price,        \* pricePerMinute
  MinBlocks,    \* the least distance of an expiry (requant-wallet --min-blocks)
  MaxBlocks,    \* maxBlocks: the greatest
  CloseMargin,  \* closeMarginBlocks
  NeedConfs,    \* payments.confirmations
  MaxTip,       \* bound: the last height of the chain
  MaxFaults     \* bound: failed wallet calls and crashes of the service

ASSUME ChannelAssumption ==
  /\ Payer \notin Requests
  /\ None \notin Channels
  /\ Expiry \in [Channels -> Nat]
  /\ {Deposit, MinDeposit, Fee, MinBlocks, MaxBlocks, CloseMargin, MaxTip, MaxFaults} \subseteq Nat
  /\ {Price, NeedConfs} \subseteq Nat \ {0}

Threads == Requests \cup {Payer}

VARIABLES
  row,      \* row[c]: the row of c in the table `channels`; status "none" when there is none
  minutes,  \* minutes[c]: the minutes by which states of c moved the account's paid_until ahead
  mined,    \* mined[c]: the height that confirmed the deposit of c; 0 before
  spent,    \* spent[c]: what spent the deposit: "no", "refund", or "close"
  sent,     \* sent[c]: the atoms the closing transaction of c pays the service; 0 before
  tip,      \* the height of the chain
  pc,       \* pc[t]: where thread t is
  arg,      \* arg[t]: the channel the request of t names
  cur,      \* cur[t]: the channel t looked up in its first locked section
  amt,      \* amt[t]: the atoms paid by the state t carries
  due,      \* the channels the payment thread still has to close in this round
  faults    \* wallet calls that failed and crashes so far

dbVars == <<row, minutes>>
chainVars == <<mined, spent, sent, tip>>
threadVars == <<pc, arg, cur, amt, due>>
vars == <<dbVars, chainVars, threadVars, faults>>

Status == {"none", "accepted", "open", "closed", "dropped", "abandoned", "expired"}
Places == {"idle", "openCheck", "openCommit", "payCheck", "payCommit",
           "closeRead", "abandon", "closeSend", "closeCommit"}

\* A row of the table; a stored state is named by the atoms it pays.
Row == [status : Status, paid : Nat, credited : Nat, state : Nat, opened : Nat]

\* The state a channel starts from: no row, no state stored (0 stands for NULL).
NoRow == [status |-> "none", paid |-> 0, credited |-> 0, state |-> 0, opened |-> 0]

Init ==
  /\ row = [c \in Channels |-> NoRow]
  /\ minutes = [c \in Channels |-> 0]
  /\ mined = [c \in Channels |-> 0]
  /\ spent = [c \in Channels |-> "no"]
  /\ sent = [c \in Channels |-> 0]
  /\ tip = 1
  /\ pc = [t \in Threads |-> "idle"]
  /\ arg = [t \in Threads |-> None]
  /\ cur = [t \in Threads |-> None]
  /\ amt = [t \in Threads |-> 0]
  /\ due = {}
  /\ faults = 0

-----------------------------------------------------------------------------
(* The chain, the wallet and the lookups.                                   *)

\* Confirmations of the deposit of c; a spent deposit keeps them.
Confirmations(c) == IF mined[c] = 0 THEN 0 ELSE tip - mined[c] + 1

\* The rows active_channel() may return: the newest accepted or open one.
\* `opened` has the resolution of a second, here of a block: of two rows with
\* the same value the database may return either.
Active == {c \in Channels : row[c].status \in {"accepted", "open"}}
ActiveChannel == {c \in Active : \A d \in Active : row[d].opened <= row[c].opened}

\* The most a state may pay: the deposit less the fee of the closing transaction.
MostPaid == Deposit - Fee

\* Put a thread at a place with its local values; leave a thread.
Goto(t, place, a, c, n) ==
  /\ pc' = [pc EXCEPT ![t] = place]
  /\ arg' = [arg EXCEPT ![t] = a]
  /\ cur' = [cur EXCEPT ![t] = c]
  /\ amt' = [amt EXCEPT ![t] = n]
Return(t) == Goto(t, "idle", None, None, 0)

-----------------------------------------------------------------------------
(* POST /api/channel/open                                                   *)

\* First locked section: the account's active channel, if any.  The same
\* proposal again is answered from the row, which changes nothing.
OpenBegin(r, c) ==
  /\ pc[r] = "idle"
  /\ IF ActiveChannel = {}
     THEN Goto(r, "openCheck", c, None, tip)
     ELSE \E a \in ActiveChannel :
            /\ ~ (a = c /\ row[a].status = "accepted")
            /\ row[a].status # "open"
            /\ Goto(r, "openCheck", c, a, tip)
  /\ UNCHANGED <<dbVars, chainVars, due, faults>>

\* Without the lock: the active channel must not be funded, the wallet accepts
\* the proposal, its deposit and expiry are within the settings.
OpenCheck(r) ==
  /\ pc[r] = "openCheck"
  /\ IF /\ cur[r] # None => Confirmations(cur[r]) = 0
        /\ Deposit >= MinDeposit
        /\ Expiry[arg[r]] \in tip + MinBlocks .. tip + MaxBlocks
     THEN Goto(r, "openCommit", arg[r], cur[r], amt[r])
     ELSE Return(r)
  /\ UNCHANGED <<dbVars, chainVars, due, faults>>

\* Variant: the row is dropped whatever became of it.
DropSeenAlways(old) ==
  [c \in Channels |-> IF c = old THEN [row[c] EXCEPT !.status = "dropped"] ELSE row[c]]

\* Drop the channel seen before if it is still accepted.
DropSeen(old) ==
  [c \in Channels |->
     IF c = old /\ row[c].status = "accepted"
     THEN [row[c] EXCEPT !.status = "dropped"] ELSE row[c]]

\* The transaction: a channel already known is refused and rolls back the drop.
OpenCommit(r) ==
  /\ pc[r] = "openCommit"
  /\ IF row[arg[r]].status = "none"
     THEN row' = [DropSeen(cur[r]) EXCEPT ![arg[r]] =
                    [NoRow EXCEPT !.status = "accepted", !.opened = amt[r]]]
     ELSE UNCHANGED row
  /\ Return(r)
  /\ UNCHANGED <<minutes, chainVars, due, faults>>

-----------------------------------------------------------------------------
(* POST /api/channel/pay                                                    *)

\* A device sends a state of a channel it holds a signed refund of, the last
\* one or, again, an older one.  Without an active channel: 404.
PayBegin(r, c, n) ==
  /\ pc[r] = "idle"
  /\ row[c].status # "none"
  /\ n \in 1 .. MostPaid
  /\ \E a \in ActiveChannel : Goto(r, "payCheck", c, a, n)
  /\ UNCHANGED <<dbVars, chainVars, due, faults>>

Confirmed(c) == Confirmations(c) >= NeedConfs

\* Without the lock: the wallet checks the state against the channel looked
\* up, the deposit is on the chain, unspent and confirmed, the expiry not near.
PayCheck(r) ==
  /\ pc[r] = "payCheck"
  /\ IF /\ arg[r] = cur[r]
        /\ mined[cur[r]] # 0 /\ spent[cur[r]] = "no"
        /\ Confirmed(cur[r])
        /\ Expiry[cur[r]] - tip > CloseMargin
     THEN Goto(r, "payCommit", arg[r], cur[r], amt[r])
     ELSE Return(r)
  /\ UNCHANGED <<dbVars, chainVars, due, faults>>

\* Variant: any state that differs from the last one counts.
PaysOther(c, n) == n # row[c].paid

\* The minutes a state paying n buys on channel c: what the state before left
\* over counts again.
NewMinutes(c, n) == (n - row[c].credited) \div Price

\* Only a state that pays more than the last one counts.
PaysMore(c, n) == n > row[c].paid

\* The transaction: paid, credited and state are those of the row now; the
\* status becomes open whatever it was.
PayCommit(r) ==
  /\ pc[r] = "payCommit"
  /\ LET c == cur[r]
         n == amt[r]
     IN IF PaysMore(c, n)
        THEN /\ row' = [row EXCEPT ![c] =
                  [row[c] EXCEPT !.paid = n, !.state = n, !.status = "open",
                                 !.credited = row[c].credited + NewMinutes(c, n) * Price]]
             /\ minutes' = [minutes EXCEPT ![c] = @ + NewMinutes(c, n)]
        ELSE UNCHANGED dbVars
  /\ Return(r)
  /\ UNCHANGED <<chainVars, due, faults>>

-----------------------------------------------------------------------------
(* POST /api/channel/close and the payment thread: close_channel.           *)

CloseBegin(r) ==
  /\ pc[r] = "idle"
  /\ \E a \in ActiveChannel : Goto(r, "closeRead", None, a, 0)
  /\ UNCHANGED <<dbVars, chainVars, due, faults>>

\* Variant: only the channels fully paid.
IsDuePaid(c) == row[c].status = "open" /\ row[c].state # 0 /\ row[c].paid >= Deposit - Fee

\* The open channels to close in this round: near their expiry or fully paid.
IsDue(c) == /\ row[c].status = "open" /\ row[c].state # 0
            /\ \/ Expiry[c] - tip <= CloseMargin
               \/ row[c].paid >= Deposit - Fee

\* close_due: accepted channels past their expiry expire, the due ones follow.
CloseDue ==
  /\ pc[Payer] = "idle" /\ due = {}
  /\ row' = [c \in Channels |->
               IF row[c].status = "accepted" /\ row[c].state = 0 /\ Expiry[c] <= tip
               THEN [row[c] EXCEPT !.status = "expired"] ELSE row[c]]
  /\ due' = {c \in Channels : IsDue(c)}
  /\ UNCHANGED <<minutes, chainVars, pc, arg, cur, amt, faults>>

CloseNext(c) ==
  /\ pc[Payer] = "idle"
  /\ c \in due
  /\ due' = due \ {c}
  /\ Goto(Payer, "closeRead", None, c, 0)
  /\ UNCHANGED <<dbVars, chainVars, faults>>

\* Read the row under the lock.
CloseRead(t) ==
  /\ pc[t] = "closeRead"
  /\ LET c == cur[t]
     IN CASE row[c].status \notin {"accepted", "open"} -> Return(t)
          [] row[c].status \in {"accepted", "open"} /\ row[c].state = 0 ->
               Goto(t, "abandon", None, c, 0)
          [] OTHER -> Goto(t, "closeSend", None, c, row[c].state)
  /\ UNCHANGED <<dbVars, chainVars, due, faults>>

SetStatus(c, s) == row' = [row EXCEPT ![c].status = s]

Abandon(t) ==
  /\ pc[t] = "abandon"
  /\ SetStatus(cur[t], "abandoned")
  /\ Return(t)
  /\ UNCHANGED <<minutes, chainVars, due, faults>>

\* What the wallet sends: the state read before, which the row may have outrun.
SentState(t) == amt[t]

\* The wallet countersigns and sends; the deposit must be there and unspent.
CloseSend(t) ==
  /\ pc[t] = "closeSend"
  /\ mined[cur[t]] # 0 /\ spent[cur[t]] = "no"
  /\ spent' = [spent EXCEPT ![cur[t]] = "close"]
  /\ sent' = [sent EXCEPT ![cur[t]] = SentState(t)]
  /\ Goto(t, "closeCommit", None, cur[t], amt[t])
  /\ UNCHANGED <<dbVars, mined, tip, due, faults>>

\* The deposit is already spent: ChannelError, which ends the request with 503
\* and lets the payment thread go on to its next channel.
CloseRefused(t) ==
  /\ pc[t] = "closeSend"
  /\ spent[cur[t]] # "no"
  /\ Return(t)
  /\ UNCHANGED <<dbVars, chainVars, due, faults>>

\* The wallet or its node fails: the same, with the deposit untouched.
CloseFails(t) ==
  /\ pc[t] = "closeSend"
  /\ faults < MaxFaults
  /\ faults' = faults + 1
  /\ Return(t)
  /\ UNCHANGED <<dbVars, chainVars, due>>

CloseCommit(t) ==
  /\ pc[t] = "closeCommit"
  /\ SetStatus(cur[t], "closed")
  /\ Return(t)
  /\ UNCHANGED <<minutes, chainVars, due, faults>>

-----------------------------------------------------------------------------
(* The environment: the chain grows, devices fund and take refunds, the     *)
(* service stops and starts again with its database as committed.           *)

Mine ==
  /\ tip < MaxTip
  /\ tip' = tip + 1
  /\ UNCHANGED <<dbVars, mined, spent, sent, threadVars, faults>>

\* A device funds a channel once it holds the service's signature of the
\* refund; the answer may arrive late, so whatever the row says by then.
Fund(c) ==
  /\ row[c].status # "none"
  /\ mined[c] = 0
  /\ mined' = [mined EXCEPT ![c] = tip]
  /\ UNCHANGED <<dbVars, spent, sent, tip, threadVars, faults>>

Refund(c) ==
  /\ mined[c] # 0 /\ spent[c] = "no"
  /\ Expiry[c] <= tip
  /\ spent' = [spent EXCEPT ![c] = "refund"]
  /\ UNCHANGED <<dbVars, mined, sent, tip, threadVars, faults>>

Crash ==
  /\ faults < MaxFaults
  /\ faults' = faults + 1
  /\ pc' = [t \in Threads |-> "idle"]
  /\ arg' = [t \in Threads |-> None]
  /\ cur' = [t \in Threads |-> None]
  /\ amt' = [t \in Threads |-> 0]
  /\ due' = {}
  /\ UNCHANGED <<dbVars, chainVars>>

-----------------------------------------------------------------------------
Close(t) == \/ CloseRead(t) \/ Abandon(t) \/ CloseSend(t)
            \/ CloseRefused(t) \/ CloseFails(t) \/ CloseCommit(t)

Request(r) ==
  \/ \E c \in Channels : OpenBegin(r, c)
  \/ OpenCheck(r) \/ OpenCommit(r)
  \/ \E c \in Channels, n \in 1 .. MostPaid : PayBegin(r, c, n)
  \/ PayCheck(r) \/ PayCommit(r)
  \/ CloseBegin(r)

Next ==
  \/ \E r \in Requests : Request(r)
  \/ CloseDue \/ \E c \in Channels : CloseNext(c)
  \/ \E t \in Threads : Close(t)
  \/ Mine \/ Crash
  \/ \E c \in Channels : Fund(c) \/ Refund(c)

Spec == Init /\ [][Next]_vars

\* The payment thread polls for ever (watch_payments), a handler that started
\* runs to its end.  Nothing makes a client act, nor a block come.
PayerFairness == /\ WF_vars(CloseDue)
                 /\ WF_vars(\E c \in Channels : CloseNext(c))
Fairness ==
  /\ PayerFairness
  /\ \A t \in Threads : WF_vars(Close(t))
  /\ \A r \in Requests : WF_vars(OpenCheck(r) \/ OpenCommit(r) \/ PayCheck(r) \/ PayCommit(r))

FairSpec == Spec /\ Fairness

-----------------------------------------------------------------------------
(* Properties.                                                              *)

\* Types of every variable: the rows of the table, the chain and the locals.
TypeOK ==
  /\ row \in [Channels -> Row]
  /\ minutes \in [Channels -> Nat]
  /\ mined \in [Channels -> Nat]
  /\ spent \in [Channels -> {"no", "refund", "close"}]
  /\ sent \in [Channels -> Nat]
  /\ tip \in Nat
  /\ pc \in [Threads -> Places]
  /\ arg \in [Threads -> Channels \cup {None}]
  /\ cur \in [Threads -> Channels \cup {None}]
  /\ amt \in [Threads -> Nat]
  /\ due \subseteq Channels
  /\ faults \in Nat

\* channel_pay (server.py:343-354): whatever requests overlap or repeat, the
\* minutes an account got are exactly those its recorded payments buy: each
\* atom counts once, and less than one minute's price is carried over.
Accounting ==
  \A c \in Channels :
    /\ row[c].credited = minutes[c] * Price
    /\ row[c].credited <= row[c].paid
    /\ row[c].paid - row[c].credited < Price

\* channel_pay (server.py:338-341): time is only ever given for a deposit that
\* had the required confirmations when it was.
CreditedIsConfirmed ==
  \A c \in Channels : minutes[c] > 0 => Confirmations(c) >= NeedConfs

\* channel_open (server.py:311) and close_due (413): a channel that has paid is
\* never dropped for a newer proposal nor expired as if it was not funded.
PaidIsNotDiscarded ==
  \A c \in Channels : row[c].paid > 0 => row[c].status \in {"open", "closed", "abandoned"}

\* close_channel (server.py:388): what the service takes on the chain is a state
\* it stored, never more than the client was credited with paying.
NeverOverCollects == \A c \in Channels : sent[c] <= row[c].paid

\* The ledger the service implements: whatever requests overlap, repeat or
\* arrive late, a state counts once and only if it pays more than all before,
\* the minutes are those the best state buys, and a channel is collected once.
PaidNow == [c \in Channels |-> row[c].paid]
Ledger == INSTANCE ChannelLedger WITH Amounts <- 1 .. MostPaid, paid <- PaidNow, collected <- sent
LedgerSpec == Ledger!Spec

\* watch_payments: an open channel that is fully paid or comes to its expiry does
\* not stay so with its deposit unspent: the payment thread closes it, or a client
\* does or takes the refund, whatever requests are under way, failed or cut short.
ToClose(c) ==
  /\ row[c].status = "open" /\ mined[c] # 0
  /\ Expiry[c] - tip <= CloseMargin \/ row[c].paid >= MostPaid

OpenChannelSettles ==
  \A c \in Channels : ToClose(c) ~> (row[c].status # "open" \/ spent[c] # "no")
=============================================================================
