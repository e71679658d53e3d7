------------------------------ MODULE SbBarrier ------------------------------
(* sb_barrier_t of sysbench: a reusable barrier made of a mutex, a         *)
(* condition variable and a serial number.  Everything sb_barrier_wait     *)
(* does between taking the mutex and giving it up (or sleeping, which      *)
(* gives it up) is one step.  As the callers in sysbench.c do, a thread    *)
(* that was told of an error does not come back.                           *)
EXTENDS Integers, FiniteSets

CONSTANTS Threads,    \* the callers; init_count is their number
          Rounds      \* bound: times a thread uses the barrier

ASSUME ThreadsAssumption == IsFiniteSet(Threads) /\ Threads # {}
ASSUME RoundsAssumption == Rounds \in Nat

VARIABLES count,      \* callers still missing in this round
          serial,     \* rounds completed
          error,      \* some callback has failed
          pc,         \* "out" of the call, "asleep" or "awake" in cond_wait
          seen,       \* the serial a waiter read on its way in
          res,        \* what the thread's last call returned
          arrived,    \* calls made by each thread
          departed    \* calls returned to each thread

vars == <<count, serial, error, pc, seen, res, arrived, departed>>

init_count == Cardinality(Threads)
SB_BARRIER_SERIAL_THREAD == 1

\* sb_barrier_init
Init == /\ count = init_count
        /\ serial = 0
        /\ error = FALSE
        /\ pc = [t \in Threads |-> "out"]
        /\ seen = [t \in Threads |-> 0]
        /\ res = [t \in Threads |-> 0]
        /\ arrived = [t \in Threads |-> 0]
        /\ departed = [t \in Threads |-> 0]

\* if (!--barrier->count)
LastOne == count - 1 = 0

Enters(t) == /\ pc[t] = "out"
             /\ res[t] # -1
             /\ arrived[t] < Rounds
             /\ arrived' = [arrived EXCEPT ![t] = @ + 1]

\* --count is not zero: remember the serial and sleep.
Wait(t) == /\ Enters(t)
           /\ ~LastOne
           /\ count' = count - 1
           /\ seen' = [seen EXCEPT ![t] = serial]
           /\ pc' = [pc EXCEPT ![t] = "asleep"]
           /\ UNCHANGED <<serial, error, res, departed>>

\* pthread_cond_broadcast
Woken == [t \in Threads |-> IF pc[t] = "asleep" THEN "awake" ELSE pc[t]]

\* barrier->count = barrier->init_count
Refill == init_count

\* The last caller opens the barrier, wakes the others and runs the
\* callback before it gives the mutex up.
Open(t) == /\ Enters(t)
           /\ LastOne
           /\ serial' = serial + 1
           /\ count' = Refill
           /\ pc' = Woken
           /\ \E failed \in BOOLEAN :
                /\ error' = (error \/ failed)
                /\ res' = [res EXCEPT ![t] = IF failed THEN -1
                                             ELSE SB_BARRIER_SERIAL_THREAD]
           /\ departed' = [departed EXCEPT ![t] = @ + 1]
           /\ UNCHANGED seen

\* pthread_cond_wait may return with nobody having signalled.
SpuriousWakeup(t) == /\ pc[t] = "asleep"
                     /\ pc' = [pc EXCEPT ![t] = "awake"]
                     /\ UNCHANGED <<count, serial, error, seen, res, arrived, departed>>

\* while (serial == barrier->serial)
OpenedAnyway(t) == TRUE
Opened(t) == seen[t] # serial

SleepAgain(t) == /\ pc[t] = "awake"
                 /\ ~Opened(t)
                 /\ pc' = [pc EXCEPT ![t] = "asleep"]
                 /\ UNCHANGED <<count, serial, error, seen, res, arrived, departed>>

\* res = barrier->error ? -1 : 0
WaiterResultBlind == 0
WaiterResult == IF error THEN -1 ELSE 0

Leave(t) == /\ pc[t] = "awake"
            /\ Opened(t)
            /\ pc' = [pc EXCEPT ![t] = "out"]
            /\ res' = [res EXCEPT ![t] = WaiterResult]
            /\ departed' = [departed EXCEPT ![t] = @ + 1]
            /\ UNCHANGED <<count, serial, error, seen, arrived>>

Next == \E t \in Threads : \/ Wait(t) \/ Open(t)
                           \/ SpuriousWakeup(t) \/ SleepAgain(t) \/ Leave(t)

Spec == Init /\ [][Next]_vars

\* The kernel runs every runnable thread; nothing promises a spurious wake-up.
FairSpec == /\ Spec
            /\ \A t \in Threads : /\ WF_vars(Wait(t) \/ Open(t))
                                  /\ WF_vars(Leave(t))
-----------------------------------------------------------------------------
\* sb_barrier_t and the callers' locals keep their types: the count of
\* sb_barrier_wait never reaches 0 nor exceeds init_count between calls.
TypeOK == /\ count \in 1 .. init_count
          /\ serial \in 0 .. Rounds
          /\ error \in BOOLEAN
          /\ pc \in [Threads -> {"out", "asleep", "awake"}]
          /\ seen \in [Threads -> 0 .. Rounds]
          /\ res \in [Threads -> {-1, 0, 1}]
          /\ arrived \in [Threads -> 0 .. Rounds]
          /\ departed \in [Threads -> 0 .. Rounds]

\* "sb_barrier_wait() returns a negative value to all callers" (sb_barrier.c):
\* a thread told of an error is at the last round there will ever be, and
\* nobody left that round believing it went well.
FailureReachesAll ==
    \A t, u \in Threads : res[t] = -1 =>
        /\ departed[u] <= departed[t]
        /\ departed[u] = departed[t] => res[u] = -1

R == INSTANCE Rendezvous

\* The barrier is a barrier, round after round, whoever is slow to wake and
\* whoever is back first: no call of sb_barrier_wait returns before all
\* threads have made theirs.
IsBarrier == R!RSpec

\* Every thread that keeps calling is let through every time, unless an
\* error stopped the callers: no wake-up is lost between rounds.
AllGetThrough ==
    <>(error \/ \A t \in Threads : departed[t] = Rounds)
=============================================================================
