----------------------------- MODULE OrderedFeed -----------------------------
(***************************************************************************)
(* What the feed promises a consumer: the messages of the exchange, each   *)
(* once and in the order they were generated, however far along each       *)
(* consumer is.                                                            *)
(***************************************************************************)
EXTENDS Integers, Sequences

CONSTANT Consumers

VARIABLES generated,   \* how many messages exist; the n-th one is named n
          delivered    \* what each consumer has been given

vars == <<generated, delivered>>

Init ==
  /\ generated = 0
  /\ delivered = [c \in Consumers |-> <<>>]

Generate ==
  /\ generated' \in Nat /\ generated' > generated
  /\ UNCHANGED delivered

\* Any number of further messages, without a hole.
Deliver(c) ==
  /\ \E n \in Len(delivered[c]) .. generated :
       delivered' = [delivered EXCEPT ![c] = [i \in 1 .. n |-> i]]
  /\ UNCHANGED generated

Next == Generate \/ \E c \in Consumers : Deliver(c)

Spec == Init /\ [][Next]_vars
=============================================================================
