------------------------ MODULE PaymentChannel_proofs ------------------------
(***************************************************************************)
(* Theorems about PaymentChannel: its type invariant, the accounting of    *)
(* the service and the refinement of ChannelLedger, for any channels, any  *)
(* number of request threads and any settings.                             *)
(***************************************************************************)
EXTENDS PaymentChannel, TLAPS

(***************************************************************************)
(* Arithmetic of whole minutes.                                            *)
(***************************************************************************)

\* Division by the price rounds down: how channel_pay counts minutes.
LEMMA DivRoundsDown ==
  ASSUME NEW n \in Nat, NEW p \in Nat \ {0}
  PROVE  /\ n \div p \in Nat
         /\ (n \div p) * p <= n
         /\ n < (n \div p) * p + p
  BY Z3

\* A number of minutes whose price leaves less than one minute's is the quotient.
LEMMA DivUnique ==
  ASSUME NEW n \in Nat, NEW p \in Nat \ {0}, NEW q \in Nat,
         q * p <= n, n < q * p + p
  PROVE  n \div p = q
  <1> DEFINE d == n \div p
  <1>1. d \in Nat /\ d * p <= n /\ n < d * p + p
    BY DivRoundsDown
  <1>2. ~ d < q
    <2> SUFFICES ASSUME d < q PROVE FALSE
      OBVIOUS
    <2>1. d + 1 <= q
      BY <1>1
    <2>2. (d + 1) * p <= q * p
      BY <1>1, <2>1, Z3
    <2> QED BY <1>1, <2>2, Z3
  <1>3. ~ q < d
    <2> SUFFICES ASSUME q < d PROVE FALSE
      OBVIOUS
    <2>1. q + 1 <= d
      BY <1>1
    <2>2. (q + 1) * p <= d * p
      BY <1>1, <2>1, Z3
    <2> QED BY <1>1, <2>2, Z3
  <1> QED BY <1>1, <1>2, <1>3

\* What a state that pays n more buys on top of the minutes already bought.
LEMMA MinutesAdd ==
  ASSUME NEW n \in Nat, NEW p \in Nat \ {0}, NEW m \in Nat, m * p <= n
  PROVE  /\ (n - m * p) \div p \in Nat
         /\ m + (n - m * p) \div p = n \div p
  <1> DEFINE x == n - m * p
             d == x \div p
  <1>1. m * p \in Nat
    BY Z3
  <1>2. x \in Nat
    BY <1>1
  <1>3. d \in Nat /\ d * p <= x /\ x < d * p + p
    BY <1>2, DivRoundsDown
  <1>4. (m + d) * p = m * p + d * p
    BY <1>3, Z3
  <1>5. (m + d) * p <= n /\ n < (m + d) * p + p
    <2>1. d * p \in Nat
      BY <1>3, Z3
    <2> QED BY <1>1, <1>3, <1>4, <2>1
  <1>6. m + d \in Nat
    BY <1>3
  <1>7. n \div p = m + d
    <2> HIDE DEF d
    <2> QED BY <1>5, <1>6, DivUnique
  <1> QED BY <1>3, <1>7

(***************************************************************************)
(* The inductive invariant.                                                *)
(***************************************************************************)

USE ChannelAssumption DEF Threads

\* What a thread carries from one section of a handler to the next.
ThreadOK(t) ==
  /\ pc[t] \in {"openCheck", "openCommit"} => arg[t] \in Channels
  /\ pc[t] \in {"payCheck", "payCommit"} => cur[t] \in Channels /\ amt[t] \in 1 .. MostPaid
  /\ pc[t] \in {"closeRead", "abandon", "closeSend", "closeCommit"} => cur[t] \in Channels
  /\ pc[t] = "payCommit" => Confirmed(cur[t])
  /\ pc[t] = "closeSend" => amt[t] \in 1 .. row[cur[t]].paid

ThreadsOK == \A t \in Threads : ThreadOK(t)

\* What a row and the chain say of one channel.
ChannelsOK ==
  \A c \in Channels :
    /\ row[c].state = row[c].paid
    /\ row[c].paid = 0 \/ row[c].paid \in 1 .. MostPaid
    /\ mined[c] <= tip
    /\ spent[c] = "no" => sent[c] = 0

\* The two halves of the type invariant.
ThreadTypes == /\ pc \in [Threads -> Places]
               /\ arg \in [Threads -> Channels \cup {None}]
               /\ cur \in [Threads -> Channels \cup {None}]
               /\ amt \in [Threads -> Nat]
DataTypes == /\ row \in [Channels -> Row]
             /\ minutes \in [Channels -> Nat]
             /\ mined \in [Channels -> Nat]
             /\ spent \in [Channels -> {"no", "refund", "close"}]
             /\ sent \in [Channels -> Nat]
             /\ tip \in Nat
             /\ due \subseteq Channels
             /\ faults \in Nat

IInv == TypeOK /\ ThreadsOK /\ ChannelsOK /\ Accounting
        /\ CreditedIsConfirmed /\ PaidIsNotDiscarded /\ NeverOverCollects

LEMMA RowStatus ==
  ASSUME NEW x \in Row, NEW s \in Status
  PROVE  LET y == [x EXCEPT !.status = s]
         IN /\ y \in Row /\ y.status = s /\ y.paid = x.paid /\ y.credited = x.credited
            /\ y.state = x.state /\ x.paid \in Nat
  BY DEF Row

\* A change of status leaves the other columns and the other rows alone.
LEMMA StatusUpdate ==
  ASSUME NEW f \in [Channels -> Row], NEW c \in Channels, NEW s \in Status
  PROVE  LET g == [f EXCEPT ![c].status = s]
         IN /\ g \in [Channels -> Row]
            /\ g[c].status = s
            /\ \A d \in Channels : d # c => g[d] = f[d]
            /\ \A d \in Channels : /\ g[d].paid = f[d].paid /\ g[d].credited = f[d].credited
                                   /\ g[d].state = f[d].state /\ g[d].opened = f[d].opened
  BY DEF Row

(***************************************************************************)
(* Every action preserves the invariant.                                   *)
(***************************************************************************)

\* The parts of the invariant that speak of the table and the chain only.
DataOK == ChannelsOK /\ Accounting /\ CreditedIsConfirmed /\ PaidIsNotDiscarded /\ NeverOverCollects

LEMMA DataUnchanged ==
  ASSUME DataOK, UNCHANGED <<dbVars, chainVars>>
  PROVE  DataOK'
  BY DEF DataOK, dbVars, chainVars, ChannelsOK, Accounting, CreditedIsConfirmed,
         PaidIsNotDiscarded, NeverOverCollects, Confirmations, MostPaid

\* What threads hold stays good while payments and confirmations only grow.
Grows ==
  \A c \in Channels : /\ row[c].paid \in Nat /\ row'[c].paid \in Nat
                      /\ row[c].paid <= row'[c].paid
                      /\ Confirmed(c) => Confirmed(c)'

LEMMA ThreadStays ==
  ASSUME Grows, NEW u \in Threads, ThreadOK(u),
         pc'[u] = pc[u], arg'[u] = arg[u], cur'[u] = cur[u], amt'[u] = amt[u]
  PROVE  ThreadOK(u)'
  <1>1. pc[u] = "payCommit" => Confirmed(cur[u])'
    BY DEF Grows, ThreadOK, Confirmed, Confirmations
  <1>2. pc[u] = "closeSend" => amt'[u] \in 1 .. row'[cur'[u]].paid
    BY DEF Grows, ThreadOK
  <1> QED BY <1>1, <1>2 DEF ThreadOK, MostPaid, Confirmed, Confirmations

\* A thread that moves on, with locals that suit its new place.
LEMMA ThreadMoves ==
  ASSUME TypeOK, ThreadsOK, Grows,
         NEW t \in Threads, NEW place \in Places, NEW a \in Channels \cup {None},
         NEW c \in Channels \cup {None}, NEW n \in Nat,
         Goto(t, place, a, c, n),
         place \in {"openCheck", "openCommit"} => a \in Channels,
         place \in {"payCheck", "payCommit"} => c \in Channels /\ n \in 1 .. MostPaid,
         place \in {"closeRead", "abandon", "closeSend", "closeCommit"} => c \in Channels,
         place = "payCommit" => Confirmed(c)',
         place = "closeSend" => n \in 1 .. row'[c].paid
  PROVE  ThreadsOK' /\ ThreadTypes'
  <1>1. ThreadTypes'
    BY DEF Goto, TypeOK, ThreadTypes
  <1>2. \A u \in Threads : u # t => /\ pc'[u] = pc[u] /\ arg'[u] = arg[u]
                                   /\ cur'[u] = cur[u] /\ amt'[u] = amt[u]
    BY DEF Goto, TypeOK
  <1>3. pc'[t] = place /\ arg'[t] = a /\ cur'[t] = c /\ amt'[t] = n
    BY DEF Goto, TypeOK
  <1>4. ASSUME NEW u \in Threads, u # t PROVE ThreadOK(u)'
    BY <1>2, <1>4, ThreadStays DEF ThreadsOK
  <1>5. ThreadOK(t)'
    BY <1>3 DEF ThreadOK, Confirmed, Confirmations, MostPaid
  <1> QED
    BY <1>1, <1>4, <1>5 DEF ThreadsOK

\* A step of the environment leaves every thread where it is.
LEMMA ThreadsStay ==
  ASSUME ThreadsOK, Grows, UNCHANGED threadVars
  PROVE  ThreadsOK'
  BY ThreadStays DEF ThreadsOK, threadVars

LEMMA UnchangedGrows ==
  ASSUME TypeOK, UNCHANGED <<dbVars, chainVars>>
  PROVE  Grows
  BY DEF Grows, TypeOK, Row, dbVars, chainVars, Confirmed, Confirmations

LEMMA ThreadReturns ==
  ASSUME TypeOK, ThreadsOK, Grows, NEW t \in Threads, Return(t)
  PROVE  ThreadsOK' /\ ThreadTypes'
  BY ThreadMoves DEF Return, Places

\* Actions that move one thread and change neither the table nor the chain.
LEMMA MovePreserves ==
  ASSUME IInv, UNCHANGED <<dbVars, chainVars>>, faults' \in Nat, due' \subseteq Channels,
         ThreadsOK' /\ ThreadTypes'
  PROVE  IInv'
  <1>1. DataOK'
    BY DataUnchanged DEF DataOK, IInv
  <1>2. DataTypes'
    BY DEF IInv, TypeOK, DataTypes, dbVars, chainVars
  <1> QED BY <1>1, <1>2 DEF IInv, DataOK, DataTypes, ThreadTypes, TypeOK

\* The same for a change of one status to "closed" or "abandoned".
LEMMA StatusPreserves ==
  ASSUME IInv, NEW t \in Threads, NEW s \in {"closed", "abandoned"},
         pc[t] \in {"abandon", "closeCommit"}, SetStatus(cur[t], s), Return(t),
         UNCHANGED <<minutes, chainVars, due, faults>>
  PROVE  IInv'
  <1> DEFINE c == cur[t]
  <1>1. c \in Channels /\ s \in Status /\ row \in [Channels -> Row]
    BY DEF IInv, ThreadsOK, ThreadOK, TypeOK, Status
  <1>2. /\ row' \in [Channels -> Row]
        /\ row'[c].status = s
        /\ \A d \in Channels : d # c => row'[d] = row[d]
        /\ \A d \in Channels : /\ row'[d].paid = row[d].paid /\ row'[d].credited = row[d].credited
                               /\ row'[d].state = row[d].state
    BY <1>1, StatusUpdate DEF SetStatus
  <1>3. Grows
    BY <1>2 DEF Grows, Row, Confirmed, Confirmations, chainVars
  <1>4. ThreadsOK' /\ ThreadTypes'
    BY <1>3, ThreadReturns DEF IInv
  <1>5. DataOK'
    BY <1>1, <1>2 DEF IInv, DataOK, ChannelsOK, Accounting, CreditedIsConfirmed, PaidIsNotDiscarded,
                      NeverOverCollects, Confirmations, MostPaid, chainVars
  <1> QED
    BY <1>2, <1>4, <1>5 DEF IInv, TypeOK, ThreadTypes, DataOK, chainVars

\* What the transaction of channel_open does to the rows.
LEMMA OpenCommitRows ==
  ASSUME IInv, NEW r \in Requests, OpenCommit(r)
  PROVE  /\ row \in [Channels -> Row]
         /\ row' \in [Channels -> Row]
         /\ \A d \in Channels :
               /\ row'[d].paid = row[d].paid /\ row'[d].credited = row[d].credited
               /\ row'[d].state = row[d].state
               /\ row[d].paid > 0 => row'[d] = row[d]
  <1> DEFINE c == arg[r]
             old == cur[r]
             new == [NoRow EXCEPT !.status = "accepted", !.opened = amt[r]]
  <1>1. c \in Channels /\ row \in [Channels -> Row] /\ amt[r] \in Nat
    BY DEF IInv, ThreadsOK, ThreadOK, TypeOK, OpenCommit
  <1>2. /\ new \in Row /\ new.status = "accepted" /\ new.paid = 0
        /\ new.credited = 0 /\ new.state = 0
    BY <1>1 DEF NoRow, Row, Status
  <1>3. /\ row' \in [Channels -> Row]
        /\ \A d \in Channels :
             \/ row'[d] = row[d]
             \/ row[d].status = "accepted" /\ row'[d] = [row[d] EXCEPT !.status = "dropped"]
             \/ row[d].status = "none" /\ row'[d] = new
    <2>1. CASE row[c].status = "none"
      <3>1. row' = [DropSeen(old) EXCEPT ![c] = new]
        BY <2>1 DEF OpenCommit
      <3>2. DropSeen(old) \in [Channels -> Row]
        BY <1>1 DEF DropSeen, Row, Status
      <3> HIDE DEF new
      <3> QED BY <1>1, <1>2, <2>1, <3>1, <3>2 DEF DropSeen
    <2>2. CASE row[c].status # "none"
      BY <1>1, <2>2 DEF OpenCommit
    <2> QED BY <2>1, <2>2
  <1>4. \A d \in Channels :
          /\ row'[d].paid = row[d].paid /\ row'[d].credited = row[d].credited
          /\ row'[d].state = row[d].state
          /\ row[d].paid > 0 => row'[d] = row[d]
    <2> SUFFICES ASSUME NEW d \in Channels
                 PROVE  /\ row'[d].paid = row[d].paid /\ row'[d].credited = row[d].credited
                        /\ row'[d].state = row[d].state
                        /\ row[d].paid > 0 => row'[d] = row[d]
      OBVIOUS
    <2>1. row[d] \in Row
      BY <1>1
    <2>2. CASE row'[d] = row[d]
      BY <2>2
    <2>3. row[d].status \in {"accepted", "none"} =>
            row[d].paid = 0 /\ row[d].credited = 0 /\ row[d].state = 0
      BY <2>1 DEF IInv, PaidIsNotDiscarded, ChannelsOK, Accounting, Row
    <2>4. CASE row[d].status = "accepted" /\ row'[d] = [row[d] EXCEPT !.status = "dropped"]
      BY <2>1, <2>3, <2>4 DEF Row
    <2>5. CASE row[d].status = "none" /\ row'[d] = new
      <3> HIDE DEF new
      <3> QED BY <1>2, <2>3, <2>5
    <2> QED BY <1>3, <2>2, <2>4, <2>5
  <1> QED BY <1>1, <1>3, <1>4

LEMMA OpenCommitPreserves ==
  ASSUME IInv, NEW r \in Requests, OpenCommit(r)
  PROVE  IInv'
  <1>5. Grows
    <2>1. mined' = mined /\ tip' = tip
      BY DEF OpenCommit, chainVars
    <2> QED BY <2>1, OpenCommitRows DEF Grows, Row, Confirmed, Confirmations
  <1>6. ThreadsOK' /\ ThreadTypes'
    BY <1>5, ThreadReturns DEF IInv, OpenCommit
  <1>7. UNCHANGED <<minutes, chainVars, due, faults>>
    BY DEF OpenCommit
  <1>8. DataOK'
    BY OpenCommitRows, <1>7 DEF IInv, DataOK, ChannelsOK, Accounting, CreditedIsConfirmed, PaidIsNotDiscarded,
                      NeverOverCollects, Confirmations, MostPaid, chainVars
  <1> QED
    BY OpenCommitRows, <1>6, <1>7, <1>8 DEF IInv, TypeOK, ThreadTypes, DataOK, chainVars

LEMMA OpenCommitKeepsPaid ==
  ASSUME IInv, NEW r \in Requests, OpenCommit(r)
  PROVE  UNCHANGED PaidNow
  BY OpenCommitRows DEF PaidNow

LEMMA PayCommitPreserves ==
  ASSUME IInv, NEW r \in Requests, PayCommit(r)
  PROVE  /\ IInv'
         /\ UNCHANGED sent
         /\ \/ UNCHANGED <<row, minutes>>
            \/ \E c \in Channels : Ledger!Take(c, amt[r])
  <1> DEFINE c == cur[r]
             n == amt[r]
  <1>1. /\ c \in Channels /\ n \in 1 .. MostPaid /\ Confirmed(c)
        /\ row \in [Channels -> Row] /\ minutes \in [Channels -> Nat]
    BY DEF IInv, ThreadsOK, ThreadOK, TypeOK, PayCommit
  <1>2. UNCHANGED <<chainVars, due, faults>> /\ Return(r)
    BY DEF PayCommit
  <1>3. CASE ~ PaysMore(c, n)
    <2>1. UNCHANGED dbVars
      BY <1>3 DEF PayCommit
    <2>2. ThreadsOK' /\ ThreadTypes'
      BY <1>2, <2>1, UnchangedGrows, ThreadReturns DEF IInv
    <2>3. IInv'
      BY <1>2, <2>1, <2>2, MovePreserves DEF IInv, TypeOK
    <2> QED BY <1>2, <2>1, <2>3 DEF dbVars, chainVars
  <1>4. CASE PaysMore(c, n)
    <2> DEFINE m == NewMinutes(c, n)
               old == row[c]
               new == [old EXCEPT !.paid = n, !.state = n, !.status = "open",
                                  !.credited = row[c].credited + m * Price]
    <2>1. /\ row' = [row EXCEPT ![c] = new]
          /\ minutes' = [minutes EXCEPT ![c] = @ + m]
      BY <1>4 DEF PayCommit
    <2>2. /\ old \in Row /\ old.credited \in Nat /\ old.paid \in Nat /\ minutes[c] \in Nat
          /\ old.credited = minutes[c] * Price
          /\ old.paid < n /\ old.credited <= n /\ n \in Nat /\ n > 0
      BY <1>1, <1>4 DEF IInv, Accounting, PaysMore, Row
    <2>3. /\ m \in Nat
          /\ minutes[c] + m = n \div Price
      <3> DEFINE q == minutes[c]
      <3>1. q \in Nat /\ q * Price <= n /\ m = (n - q * Price) \div Price
        BY <2>2 DEF NewMinutes
      <3>2. (n - q * Price) \div Price \in Nat /\ q + (n - q * Price) \div Price = n \div Price
        <4> HIDE DEF q
        <4> QED BY <2>2, <3>1, MinutesAdd
      <3> HIDE DEF m
      <3> QED BY <3>1, <3>2
    <2>4. /\ (minutes[c] + m) * Price \in Nat
          /\ old.credited + m * Price = (minutes[c] + m) * Price
          /\ (minutes[c] + m) * Price <= n
          /\ n < (minutes[c] + m) * Price + Price
      <3>1. /\ (n \div Price) * Price <= n
            /\ n < (n \div Price) * Price + Price
            /\ (n \div Price) \in Nat
        BY <2>2, DivRoundsDown
      <3>2. (n \div Price) * Price \in Nat
        BY <3>1, Z3
      <3>3. minutes[c] * Price + m * Price = (minutes[c] + m) * Price
        BY <2>2, <2>3, Z3
      <3> HIDE DEF m
      <3> QED BY <2>2, <2>3, <3>1, <3>2, <3>3
    <2>5. /\ new \in Row
          /\ new.paid = n /\ new.state = n /\ new.status = "open"
          /\ new.credited = (minutes[c] + m) * Price
      <3> HIDE DEF m
      <3> QED BY <2>2, <2>4 DEF Row, Status
    <2>6. /\ row' \in [Channels -> Row] /\ row'[c] = new
          /\ \A d \in Channels : d # c => row'[d] = row[d]
          /\ minutes' \in [Channels -> Nat] /\ minutes'[c] = minutes[c] + m
          /\ \A d \in Channels : d # c => minutes'[d] = minutes[d]
      <3> HIDE DEF m, new
      <3> QED BY <1>1, <2>1, <2>3, <2>5
    <2>7. Grows
      <3> HIDE DEF m, new
      <3> QED BY <1>1, <1>2, <2>2, <2>5, <2>6 DEF Grows, Row, Confirmed, Confirmations, chainVars
    <2>8. ThreadsOK' /\ ThreadTypes'
      BY <1>2, <2>7, ThreadReturns DEF IInv
    <2>9. Confirmations(c) >= NeedConfs
      BY <1>1 DEF Confirmed
    <2>10. ASSUME NEW d \in Channels
           PROVE  /\ row'[d].state = row'[d].paid
                  /\ row'[d].paid = 0 \/ row'[d].paid \in 1 .. MostPaid
                  /\ row'[d].credited = minutes'[d] * Price
                  /\ row'[d].credited <= row'[d].paid
                  /\ row'[d].paid - row'[d].credited < Price
                  /\ minutes'[d] > 0 => Confirmations(d) >= NeedConfs
                  /\ row'[d].paid > 0 => row'[d].status \in {"open", "closed", "abandoned"}
                  /\ sent[d] <= row'[d].paid
      <3> HIDE DEF m, new
      <3>1. CASE d # c
        BY <2>6, <3>1 DEF IInv, ChannelsOK, Accounting, CreditedIsConfirmed, PaidIsNotDiscarded,
                      NeverOverCollects
      <3>2. CASE d = c
        <4>1. sent[c] <= n
          BY <1>1, <2>2 DEF IInv, NeverOverCollects, TypeOK
        <4>2. n - new.credited < Price
          BY <2>2, <2>4, <2>5
        <4> QED BY <1>1, <2>2, <2>4, <2>5, <2>6, <2>9, <3>2, <4>1, <4>2
      <3> QED BY <3>1, <3>2
    <2>11. DataOK'
      BY <1>2, <2>10 DEF IInv, DataOK, ChannelsOK, Accounting, CreditedIsConfirmed, PaidIsNotDiscarded,
                      NeverOverCollects, Confirmations, MostPaid, chainVars
    <2>12. IInv'
      BY <1>2, <2>6, <2>8, <2>11 DEF IInv, TypeOK, ThreadTypes, DataOK, chainVars
    <2>13. Ledger!Take(c, n)
      <3>1. PaidNow' = [PaidNow EXCEPT ![c] = n]
        <4> HIDE DEF m, new
        <4> QED BY <2>5, <2>6 DEF PaidNow
      <3>2. minutes' = [minutes EXCEPT ![c] = n \div Price]
        <4> HIDE DEF m
        <4> QED BY <2>1, <2>3
      <3> QED BY <1>1, <1>2, <2>2, <3>1, <3>2 DEF Ledger!Take, PaidNow, chainVars
    <2> QED BY <1>1, <1>2, <2>12, <2>13 DEF chainVars
  <1> QED BY <1>3, <1>4

LEMMA CloseDuePreserves ==
  ASSUME IInv, CloseDue
  PROVE  IInv' /\ UNCHANGED <<PaidNow, minutes, sent>>
  <1>1. /\ row' \in [Channels -> Row]
        /\ \A d \in Channels :
             /\ row'[d].paid = row[d].paid /\ row'[d].credited = row[d].credited
             /\ row'[d].state = row[d].state
             /\ row[d].paid > 0 => row'[d].status = row[d].status
    <2>1. row \in [Channels -> Row]
      BY DEF IInv, TypeOK
    <2>2. \A d \in Channels : row[d].state = row[d].paid
      BY DEF IInv, ChannelsOK
    <2>3. row' = [d \in Channels |->
               IF row[d].status = "accepted" /\ row[d].state = 0 /\ Expiry[d] <= tip
               THEN [row[d] EXCEPT !.status = "expired"] ELSE row[d]]
      BY DEF CloseDue
    <2>4. ASSUME NEW d \in Channels
          PROVE  /\ row'[d] \in Row
                 /\ row'[d].paid = row[d].paid /\ row'[d].credited = row[d].credited
                 /\ row'[d].state = row[d].state
                 /\ row[d].paid > 0 => row'[d].status = row[d].status
      <3>1. row[d] \in Row /\ row[d].state = row[d].paid
        BY <2>1, <2>2
      <3>2. CASE row'[d] = row[d]
        BY <3>1, <3>2
      <3>3. CASE row[d].state = 0 /\ row'[d] = [row[d] EXCEPT !.status = "expired"]
        <4> DEFINE y == [row[d] EXCEPT !.status = "expired"]
        <4>1. "expired" \in Status
          BY DEF Status
        <4>2. y \in Row /\ y.paid = row[d].paid /\ y.credited = row[d].credited
              /\ y.state = row[d].state
          BY <3>1, <4>1, RowStatus
        <4>3. row'[d] = y /\ ~ row[d].paid > 0
          BY <3>1, <3>3
        <4> HIDE DEF y
        <4> QED BY <4>2, <4>3
      <3>4. \/ row'[d] = row[d]
            \/ row[d].state = 0 /\ row'[d] = [row[d] EXCEPT !.status = "expired"]
        BY <2>3
      <3> QED BY <3>2, <3>3, <3>4
    <2> QED BY <2>3, <2>4
  <1>2. Grows
    <2>1. mined' = mined /\ tip' = tip
      BY DEF CloseDue, chainVars
    <2>2. row \in [Channels -> Row]
      BY DEF IInv, TypeOK
    <2> QED BY <1>1, <2>1, <2>2 DEF Grows, Row, Confirmed, Confirmations
  <1>3. UNCHANGED <<minutes, chainVars, pc, arg, cur, amt, faults>> /\ due' \subseteq Channels
    BY DEF CloseDue
  <1>4. ThreadsOK'
    BY <1>2, <1>3, ThreadStays DEF ThreadsOK, IInv
  <1>5. DataOK'
    BY <1>1, <1>3 DEF IInv, DataOK, ChannelsOK, Accounting, CreditedIsConfirmed, PaidIsNotDiscarded,
                      NeverOverCollects, Confirmations, MostPaid, chainVars
  <1>6. IInv'
    BY <1>1, <1>3, <1>4, <1>5 DEF IInv, TypeOK, DataOK, chainVars
  <1> QED BY <1>1, <1>3, <1>6 DEF PaidNow, chainVars

LEMMA CloseSendPreserves ==
  ASSUME IInv, NEW t \in Threads, CloseSend(t)
  PROVE  /\ IInv'
         /\ \E c \in Channels, n \in 1 .. MostPaid : Ledger!Collect(c, n)
  <1> DEFINE c == cur[t]
             n == amt[t]
  <1>1. /\ c \in Channels /\ n \in 1 .. row[c].paid /\ row[c].paid \in Nat
        /\ row[c].paid \in 1 .. MostPaid /\ sent[c] = 0
    BY DEF IInv, ThreadsOK, ThreadOK, ChannelsOK, TypeOK, Row, CloseSend
  <1>2. /\ spent' = [spent EXCEPT ![c] = "close"]
        /\ sent' = [sent EXCEPT ![c] = n]
        /\ Goto(t, "closeCommit", None, c, n)
        /\ UNCHANGED <<dbVars, mined, tip, due, faults>>
    BY DEF CloseSend, SentState
  <1>3. Grows
    BY <1>2 DEF Grows, IInv, TypeOK, Row, Confirmed, Confirmations, dbVars
  <1>4. ThreadsOK' /\ ThreadTypes'
    <2>1. n \in Nat
      BY <1>1
    <2> QED BY <1>1, <1>2, <1>3, <2>1, ThreadMoves DEF IInv, Places
  <1>5. DataOK'
    <2>1. sent' \in [Channels -> Nat] /\ \A d \in Channels : sent'[d] <= row'[d].paid
      BY <1>1, <1>2 DEF IInv, TypeOK, NeverOverCollects, dbVars
    <2>2. ChannelsOK'
      BY <1>1, <1>2 DEF IInv, TypeOK, ChannelsOK, MostPaid, dbVars
    <2> QED BY <1>2, <2>1, <2>2 DEF IInv, DataOK, Accounting, CreditedIsConfirmed, PaidIsNotDiscarded,
                NeverOverCollects, Confirmations, dbVars
  <1>6. IInv'
    BY <1>1, <1>2, <1>4, <1>5 DEF IInv, TypeOK, ThreadTypes, DataOK, dbVars
  <1>7. Ledger!Collect(c, n) /\ n \in 1 .. MostPaid
    BY <1>1, <1>2 DEF Ledger!Collect, PaidNow, dbVars, MostPaid
  <1> QED BY <1>1, <1>6, <1>7

LEMMA ChainPreserves ==
  ASSUME IInv, Mine \/ Crash \/ \E c \in Channels : Fund(c) \/ Refund(c)
  PROVE  IInv' /\ UNCHANGED <<row, minutes, sent>>
  <1>1. CASE Mine
    <2>1. Grows
      BY <1>1 DEF Mine, Grows, IInv, TypeOK, Row, Confirmed, Confirmations, dbVars
    <2>2. ThreadsOK'
      BY <1>1, <2>1, ThreadsStay DEF Mine, IInv
    <2> QED BY <1>1, <2>2 DEF Mine, IInv, TypeOK, Row, ChannelsOK, Accounting, CreditedIsConfirmed,
                PaidIsNotDiscarded, NeverOverCollects, Confirmations, MostPaid, dbVars, threadVars
  <1>2. ASSUME NEW c \in Channels, Fund(c) PROVE IInv' /\ UNCHANGED <<row, minutes, sent>>
    <2>1. Grows
      BY <1>2 DEF Fund, Grows, IInv, TypeOK, Row, Confirmed, Confirmations, dbVars
    <2>2. ThreadsOK'
      BY <1>2, <2>1, ThreadsStay DEF Fund, IInv
    <2> QED BY <1>2, <2>2 DEF Fund, IInv, TypeOK, Row, ChannelsOK, Accounting, CreditedIsConfirmed,
                PaidIsNotDiscarded, NeverOverCollects, Confirmations, MostPaid, dbVars, threadVars
  <1>3. ASSUME NEW c \in Channels, Refund(c) PROVE IInv' /\ UNCHANGED <<row, minutes, sent>>
    <2>1. Grows
      BY <1>3 DEF Refund, Grows, IInv, TypeOK, Row, Confirmed, Confirmations, dbVars
    <2>2. ThreadsOK'
      BY <1>3, <2>1, ThreadsStay DEF Refund, IInv
    <2> QED BY <1>3, <2>2 DEF Refund, IInv, TypeOK, Row, ChannelsOK, Accounting, CreditedIsConfirmed,
                PaidIsNotDiscarded, NeverOverCollects, Confirmations, MostPaid, dbVars, threadVars
  <1>4. CASE Crash
    <2>1. ThreadsOK' /\ ThreadTypes'
      BY <1>4 DEF Crash, ThreadsOK, ThreadOK, ThreadTypes, Places
    <2> QED BY <1>4, <2>1, MovePreserves DEF Crash, IInv, TypeOK, dbVars, chainVars
  <1> QED BY <1>1, <1>2, <1>3, <1>4

\* One step: the invariant is kept and the ledger makes a step of its own or none.
LEMMA Step ==
  ASSUME IInv, [Next]_vars
  PROVE  IInv' /\ [Ledger!Next]_(Ledger!vars)
  <1> USE DEF Ledger!vars
  <1>1. ASSUME UNCHANGED <<dbVars, chainVars>>, faults' \in Nat, due' \subseteq Channels,
               ThreadsOK' /\ ThreadTypes'
        PROVE  IInv' /\ [Ledger!Next]_(Ledger!vars)
    BY <1>1, MovePreserves DEF PaidNow, dbVars, chainVars
  <1>2. faults \in Nat /\ due \subseteq Channels /\ TypeOK /\ ThreadsOK /\ tip \in Nat
        /\ amt \in [Threads -> Nat]
    BY DEF IInv, TypeOK
  <1>3. UNCHANGED <<dbVars, chainVars>> => Grows
    BY <1>2, UnchangedGrows
  <1>4. ASSUME NEW r \in Requests, NEW c \in Channels, OpenBegin(r, c)
        PROVE  IInv' /\ [Ledger!Next]_(Ledger!vars)
    <2>1. PICK a \in Channels \cup {None} : Goto(r, "openCheck", c, a, tip)
      BY <1>4 DEF OpenBegin, ActiveChannel, Active
    <2>2. UNCHANGED <<dbVars, chainVars, due, faults>>
      BY <1>4 DEF OpenBegin
    <2>3. ThreadsOK' /\ ThreadTypes'
      BY <1>2, <1>3, <2>1, <2>2, ThreadMoves DEF Places
    <2> QED BY <1>1, <1>2, <2>2, <2>3
  <1>5. ASSUME NEW r \in Requests, OpenCheck(r)
        PROVE  IInv' /\ [Ledger!Next]_(Ledger!vars)
    <2>1. Goto(r, "openCommit", arg[r], cur[r], amt[r]) \/ Return(r)
      BY <1>5 DEF OpenCheck
    <2>2. UNCHANGED <<dbVars, chainVars, due, faults>>
      BY <1>5 DEF OpenCheck
    <2>3. arg[r] \in Channels /\ cur[r] \in Channels \cup {None} /\ amt[r] \in Nat
      BY <1>2, <1>5 DEF OpenCheck, ThreadsOK, ThreadOK, TypeOK
    <2>4. ThreadsOK' /\ ThreadTypes'
      BY <1>2, <1>3, <2>1, <2>2, <2>3, ThreadMoves, ThreadReturns DEF Places
    <2> QED BY <1>1, <1>2, <2>2, <2>4
  <1>6. ASSUME NEW r \in Requests, OpenCommit(r)
        PROVE  IInv' /\ [Ledger!Next]_(Ledger!vars)
    <2>1. IInv'
      BY <1>6, OpenCommitPreserves
    <2>2. UNCHANGED <<PaidNow, minutes, sent>>
      BY <1>6, OpenCommitKeepsPaid DEF OpenCommit, chainVars
    <2> QED BY <2>1, <2>2
  <1>7. ASSUME NEW r \in Requests, NEW c \in Channels, NEW n \in 1 .. MostPaid, PayBegin(r, c, n)
        PROVE  IInv' /\ [Ledger!Next]_(Ledger!vars)
    <2>1. PICK a \in Channels : Goto(r, "payCheck", c, a, n)
      BY <1>7 DEF PayBegin, ActiveChannel, Active
    <2>2. UNCHANGED <<dbVars, chainVars, due, faults>>
      BY <1>7 DEF PayBegin
    <2>3. n \in Nat
      BY DEF MostPaid
    <2>4. ThreadsOK' /\ ThreadTypes'
      BY <1>2, <1>3, <2>1, <2>2, <2>3, ThreadMoves DEF Places
    <2> QED BY <1>1, <1>2, <2>2, <2>4
  <1>8. ASSUME NEW r \in Requests, PayCheck(r)
        PROVE  IInv' /\ [Ledger!Next]_(Ledger!vars)
    <2>1. /\ Goto(r, "payCommit", arg[r], cur[r], amt[r]) /\ Confirmed(cur[r])
          \/ Return(r)
      BY <1>8 DEF PayCheck
    <2>2. UNCHANGED <<dbVars, chainVars, due, faults>>
      BY <1>8 DEF PayCheck
    <2>3. /\ arg[r] \in Channels \cup {None} /\ cur[r] \in Channels
          /\ amt[r] \in 1 .. MostPaid /\ amt[r] \in Nat
      BY <1>2, <1>8 DEF PayCheck, ThreadsOK, ThreadOK, TypeOK
    <2>4. Confirmed(cur[r]) => \A d : d = cur[r] => Confirmed(d)'
      BY <2>2 DEF Confirmed, Confirmations, chainVars
    <2>5. ThreadsOK' /\ ThreadTypes'
      BY <1>2, <1>3, <2>1, <2>2, <2>3, <2>4, ThreadMoves, ThreadReturns DEF Places
    <2> QED BY <1>1, <1>2, <2>2, <2>5
  <1>9. ASSUME NEW r \in Requests, PayCommit(r)
        PROVE  IInv' /\ [Ledger!Next]_(Ledger!vars)
    <2>1. IInv' /\ UNCHANGED sent
      BY <1>9, PayCommitPreserves
    <2>2. amt[r] \in 1 .. MostPaid
      BY <1>9 DEF PayCommit, IInv, ThreadsOK, ThreadOK
    <2>3. CASE UNCHANGED <<row, minutes>>
      BY <2>1, <2>3 DEF PaidNow
    <2>4. CASE \E c \in Channels : Ledger!Take(c, amt[r])
      BY <2>1, <2>2, <2>4 DEF Ledger!Next
    <2> QED BY <1>9, <2>3, <2>4, PayCommitPreserves
  <1>10. ASSUME NEW r \in Requests, CloseBegin(r)
         PROVE  IInv' /\ [Ledger!Next]_(Ledger!vars)
    <2>1. PICK a \in Channels : Goto(r, "closeRead", None, a, 0)
      BY <1>10 DEF CloseBegin, ActiveChannel, Active
    <2>2. UNCHANGED <<dbVars, chainVars, due, faults>>
      BY <1>10 DEF CloseBegin
    <2>3. ThreadsOK' /\ ThreadTypes'
      BY <1>2, <1>3, <2>1, <2>2, ThreadMoves DEF Places
    <2> QED BY <1>1, <1>2, <2>2, <2>3
  <1>11. CASE CloseDue
    BY <1>11, CloseDuePreserves
  <1>12. ASSUME NEW c \in Channels, CloseNext(c)
         PROVE  IInv' /\ [Ledger!Next]_(Ledger!vars)
    <2>1. /\ Goto(Payer, "closeRead", None, c, 0)
          /\ UNCHANGED <<dbVars, chainVars, faults>> /\ due' \subseteq Channels
      BY <1>2, <1>12 DEF CloseNext
    <2>2. ThreadsOK' /\ ThreadTypes'
      BY <1>2, <1>3, <2>1, ThreadMoves DEF Places
    <2> QED BY <1>1, <1>2, <2>1, <2>2
  <1>13. ASSUME NEW t \in Threads, CloseRead(t)
         PROVE  IInv' /\ [Ledger!Next]_(Ledger!vars)
    <2> DEFINE c == cur[t]
    <2>1. c \in Channels /\ row[c].state = row[c].paid
          /\ (row[c].paid = 0 \/ row[c].paid \in 1 .. MostPaid)
      BY <1>13 DEF CloseRead, IInv, ThreadsOK, ThreadOK, ChannelsOK
    <2>2. \/ Return(t)
          \/ Goto(t, "abandon", None, c, 0)
          \/ row[c].state # 0 /\ Goto(t, "closeSend", None, c, row[c].state)
      BY <1>13 DEF CloseRead
    <2>3. UNCHANGED <<dbVars, chainVars, due, faults>>
      BY <1>13 DEF CloseRead
    <2>4. ThreadsOK' /\ ThreadTypes'
      <3>1. CASE Return(t)
        BY <1>2, <1>3, <2>3, <3>1, ThreadReturns
      <3>2. CASE Goto(t, "abandon", None, c, 0)
        BY <1>2, <1>3, <2>1, <2>3, <3>2, ThreadMoves DEF Places
      <3>3. CASE row[c].state # 0 /\ Goto(t, "closeSend", None, c, row[c].state)
        <4>1. row'[c] = row[c] /\ row[c].state \in 1 .. row[c].paid /\ row[c].state \in Nat
          BY <2>1, <2>3, <3>3 DEF dbVars, MostPaid
        <4> QED BY <1>2, <1>3, <2>1, <2>3, <3>3, <4>1, ThreadMoves DEF Places
      <3> QED BY <2>2, <3>1, <3>2, <3>3
    <2> QED BY <1>1, <1>2, <2>3, <2>4
  <1>14. ASSUME NEW t \in Threads, Abandon(t) \/ CloseCommit(t)
         PROVE  IInv' /\ [Ledger!Next]_(Ledger!vars)
    <2>1. PICK s \in {"closed", "abandoned"} :
            /\ pc[t] \in {"abandon", "closeCommit"} /\ SetStatus(cur[t], s) /\ Return(t)
            /\ UNCHANGED <<minutes, chainVars, due, faults>>
      BY <1>14 DEF Abandon, CloseCommit
    <2>2. IInv'
      BY <2>1, StatusPreserves
    <2>3. UNCHANGED PaidNow
      BY <2>1 DEF SetStatus, PaidNow, IInv, TypeOK, Row
    <2> QED BY <2>1, <2>2, <2>3 DEF chainVars
  <1>15. ASSUME NEW t \in Threads, CloseSend(t)
         PROVE  IInv' /\ [Ledger!Next]_(Ledger!vars)
    BY <1>15, CloseSendPreserves DEF Ledger!Next
  <1>16. ASSUME NEW t \in Threads, CloseRefused(t) \/ CloseFails(t)
         PROVE  IInv' /\ [Ledger!Next]_(Ledger!vars)
    <2>1. Return(t) /\ UNCHANGED <<dbVars, chainVars, due>> /\ faults' \in Nat
      BY <1>2, <1>16 DEF CloseRefused, CloseFails
    <2>2. ThreadsOK' /\ ThreadTypes'
      BY <1>2, <1>3, <2>1, ThreadReturns
    <2> QED BY <1>1, <1>2, <2>1, <2>2
  <1>17. CASE Mine \/ Crash \/ \E c \in Channels : Fund(c) \/ Refund(c)
    BY <1>17, ChainPreserves DEF PaidNow
  <1>18. CASE UNCHANGED vars
    <2>1. ThreadsOK' /\ ThreadTypes'
      BY <1>2, <1>3, <1>18, ThreadsStay DEF vars, threadVars, ThreadTypes, TypeOK
    <2> QED BY <1>1, <1>2, <1>18, <2>1 DEF vars, threadVars
  <1> QED
    BY <1>4, <1>5, <1>6, <1>7, <1>8, <1>9, <1>10, <1>11, <1>12, <1>13, <1>14, <1>15, <1>16,
       <1>17, <1>18 DEF Next, Request, Close

LEMMA Start == Init => IInv /\ Ledger!Init
  BY DEF Init, IInv, TypeOK, ThreadsOK, ThreadOK, ChannelsOK, Accounting, CreditedIsConfirmed,
         PaidIsNotDiscarded, NeverOverCollects, NoRow, Row, Status, Places, Confirmations,
         MostPaid, PaidNow, Ledger!Init

(***************************************************************************)
(* The theorems.                                                           *)
(***************************************************************************)

\* Every variable of the service keeps its type (all handlers of server.py:281-422).
THEOREM TypeCorrect == Spec => []TypeOK
  <1>1. IInv => TypeOK
    BY DEF IInv
  <1> QED BY Start, Step, <1>1, PTL DEF Spec

\* channel_pay (server.py:343-354): an account never has more or fewer minutes
\* than its recorded payments buy, for any number of threads and any price.
THEOREM AccountingHolds == Spec => []Accounting
  <1>1. IInv => Accounting
    BY DEF IInv
  <1> QED BY Start, Step, <1>1, PTL DEF Spec

\* channel_pay (server.py:338-341): no time for a deposit short of confirmations.
THEOREM ConfirmedHolds == Spec => []CreditedIsConfirmed
  <1>1. IInv => CreditedIsConfirmed
    BY DEF IInv
  <1> QED BY Start, Step, <1>1, PTL DEF Spec

\* channel_open (server.py:311), close_due (server.py:413): a channel that paid
\* is neither dropped nor expired.
THEOREM NotDiscardedHolds == Spec => []PaidIsNotDiscarded
  <1>1. IInv => PaidIsNotDiscarded
    BY DEF IInv
  <1> QED BY Start, Step, <1>1, PTL DEF Spec

\* close_channel (server.py:388): only a stored state is ever sent.
THEOREM NeverOverCollectsHolds == Spec => []NeverOverCollects
  <1>1. IInv => NeverOverCollects
    BY DEF IInv
  <1> QED BY Start, Step, <1>1, PTL DEF Spec

\* The service implements ChannelLedger: every step of every thread, and every
\* crash, takes a better state, collects a channel once, or changes nothing.
THEOREM Refinement == Spec => LedgerSpec
  BY Start, Step, PTL DEF Spec, LedgerSpec, Ledger!Spec
=============================================================================
