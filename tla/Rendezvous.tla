----------------------------- MODULE Rendezvous -----------------------------
(* What a barrier promises, without locks or wake-ups: nobody departs for  *)
(* the k-th time before everybody has arrived for the k-th time.           *)
EXTENDS Naturals

CONSTANT Threads
VARIABLES arrived,    \* arrivals of each thread
          departed    \* departures of each thread

RInit == /\ arrived = [t \in Threads |-> 0]
         /\ departed = [t \in Threads |-> 0]

Arrive(t) == /\ departed[t] = arrived[t]
             /\ arrived' = [arrived EXCEPT ![t] = @ + 1]
             /\ UNCHANGED departed

Depart(t) == /\ departed[t] < arrived[t]
             /\ \A u \in Threads : arrived[t] <= arrived[u]
             /\ departed' = [departed EXCEPT ![t] = @ + 1]
             /\ UNCHANGED arrived

\* The last to arrive need not wait at all.
Pass(t) == /\ departed[t] = arrived[t]
           /\ \A u \in Threads \ {t} : arrived[t] < arrived[u]
           /\ arrived' = [arrived EXCEPT ![t] = @ + 1]
           /\ departed' = [departed EXCEPT ![t] = @ + 1]

RNext == \E t \in Threads : Arrive(t) \/ Depart(t) \/ Pass(t)

RSpec == RInit /\ [][RNext]_<<arrived, departed>>
=============================================================================
