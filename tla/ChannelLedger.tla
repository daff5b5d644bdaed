---------------------------- MODULE ChannelLedger ----------------------------
(***************************************************************************)
(* What the payment channels of the access service promise, whatever       *)
(* requests overlap, repeat or arrive late (PAYMENTS.md 4.2): a client     *)
(* pays by handing over states that pay more and more; the account has, at *)
(* every moment, exactly the whole minutes the best state buys; a channel  *)
(* is collected at most once, with a state that was handed over.           *)
(***************************************************************************)
EXTENDS Integers

CONSTANTS
  Channels,
  Amounts,   \* what a state may pay
  Price      \* atoms per minute

VARIABLES
  paid,       \* paid[c]: the atoms the best state of c pays
  minutes,    \* minutes[c]: the minutes of full access bought through c
  collected   \* collected[c]: the atoms taken on the chain; 0 before

vars == <<paid, minutes, collected>>

Init == /\ paid = [c \in Channels |-> 0]
        /\ minutes = [c \in Channels |-> 0]
        /\ collected = [c \in Channels |-> 0]

\* A state of c that pays n, more than any before.
Take(c, n) == /\ n > paid[c]
              /\ paid' = [paid EXCEPT ![c] = n]
              /\ minutes' = [minutes EXCEPT ![c] = n \div Price]
              /\ UNCHANGED collected

\* The channel is closed on the chain with a state that pays n.
Collect(c, n) == /\ collected[c] = 0
                 /\ n \in 1 .. paid[c]
                 /\ collected' = [collected EXCEPT ![c] = n]
                 /\ UNCHANGED <<paid, minutes>>

Next == \E c \in Channels, n \in Amounts : Take(c, n) \/ Collect(c, n)

Spec == Init /\ [][Next]_vars
=============================================================================
