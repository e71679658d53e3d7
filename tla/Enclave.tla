------------------------------ MODULE Enclave -------------------------------
(***************************************************************************)
(* The threads of smile_test that share the enclave, in two parts with state *)
(* and actions of their own: the counter of the adders, and the bounded    *)
(* buffer of producers and consumers.                                      *)
(***************************************************************************)
EXTENDS Integers, FiniteSets

(***************************************************************************)
(* The shared counter of smile_test: the adder threads of                  *)
(* App/TrustedLibrary/Thread.cpp enter the enclave and run                 *)
(* ecall_increase_counter (Enclave/TrustedLibrary/Thread.cpp), and the     *)
(* host joins them and asserts the total.  The load and the store of       *)
(* global_counter are separate steps.  The mutex is the SDK's.             *)
(***************************************************************************)

CONSTANTS Adders,  \* the threads adder1 .. adder4
          Loops,   \* LOOPS_PER_THREAD
          CounterNobody   \* no thread

ASSUME AdderAssumption ==
    /\ IsFiniteSet(Adders) /\ Adders # {}
    /\ Loops \in Nat \ {0}
    /\ CounterNobody \notin Adders

Total == Cardinality(Adders) * Loops

VARIABLES
    global_counter,
    global_mutex,    \* the thread that owns it
    counterPc, counterN, tmp, ret, \* the locals of each ecall; n is its loop variable i
    counter,         \* the host's copy of the result
    joined,          \* the host has joined every adder and passed its assert
    added            \* history: the pairs <<thread, iteration>> stored

counterVars == <<global_counter, global_mutex, counterPc, counterN, tmp, ret, counter, joined, added>>

CounterInit ==
    /\ global_counter = 0
    /\ global_mutex = CounterNobody
    /\ counterPc = [t \in Adders |-> "loop"]
    /\ counterN = [t \in Adders |-> 0]
    /\ tmp = [t \in Adders |-> 0]
    /\ ret = [t \in Adders |-> 0]
    /\ counter = 0
    /\ joined = FALSE
    /\ added = {}

CounterGoto(t, from, to) == counterPc[t] = from /\ counterPc' = [counterPc EXCEPT ![t] = to]

\* Faults: one iteration too many; the mutex is not waited for.
LockUnchecked(t) ==
    /\ counterN[t] < Loops
    /\ CounterGoto(t, "loop", "load")
    /\ global_mutex' = t
    /\ UNCHANGED <<global_counter, counterN, tmp, ret, counter, joined, added>>

\* i < LOOPS_PER_THREAD; sgx_thread_mutex_lock(&global_mutex)
CounterLock(t) ==
    /\ counterN[t] < Loops
    /\ global_mutex = CounterNobody
    /\ CounterGoto(t, "loop", "load")
    /\ global_mutex' = t
    /\ UNCHANGED <<global_counter, counterN, tmp, ret, counter, joined, added>>

\* size_t tmp = global_counter
Load(t) ==
    /\ CounterGoto(t, "load", "store")
    /\ tmp' = [tmp EXCEPT ![t] = global_counter]
    /\ UNCHANGED <<global_counter, global_mutex, counterN, ret, counter, joined, added>>

\* global_counter = ++tmp; if (4*LOOPS_PER_THREAD == global_counter) ret = ...
Store(t) ==
    /\ CounterGoto(t, "store", "unlock")
    /\ global_counter' = tmp[t] + 1
    /\ ret' = [ret EXCEPT ![t] = IF tmp[t] + 1 = Total THEN tmp[t] + 1 ELSE @]
    /\ added' = added \union {<<t, counterN[t]>>}
    /\ UNCHANGED <<global_mutex, counterN, tmp, counter, joined>>

\* A fault: the mutex is kept.
UnlockForgotten(t) ==
    /\ CounterGoto(t, "unlock", "loop")
    /\ counterN' = [counterN EXCEPT ![t] = @ + 1]
    /\ UNCHANGED <<global_counter, global_mutex, tmp, ret, counter, joined, added>>

\* sgx_thread_mutex_unlock, i++
CounterUnlock(t) ==
    /\ CounterGoto(t, "unlock", "loop")
    /\ global_mutex' = CounterNobody
    /\ counterN' = [counterN EXCEPT ![t] = @ + 1]
    /\ UNCHANGED <<global_counter, tmp, ret, counter, joined, added>>

\* return ret; and in increase_counter: if (cnr != 0) counter = cnr
CounterReturn(t) ==
    /\ counterN[t] = Loops
    /\ CounterGoto(t, "loop", "done")
    /\ counter' = IF ret[t] # 0 THEN ret[t] ELSE counter
    /\ UNCHANGED <<global_counter, global_mutex, counterN, tmp, ret, joined, added>>

\* adder1.join() ... adder4.join(); assert(counter == 4*LOOPS_PER_THREAD)
Join ==
    /\ ~joined
    /\ \A t \in Adders : counterPc[t] = "done"
    /\ counter = Total
    /\ joined' = TRUE
    /\ UNCHANGED <<global_counter, global_mutex, counterPc, counterN, tmp, ret, counter, added>>

CounterStep(t) == CounterLock(t) \/ Load(t) \/ Store(t) \/ CounterUnlock(t) \/ CounterReturn(t)

CounterNext ==
    \/ \E t \in Adders : CounterStep(t)
    \/ Join

CounterSpec     == CounterInit /\ [][CounterNext]_counterVars
\* Threads that can run are scheduled.
CounterFairSpec == CounterSpec /\ WF_counterVars(Join) /\ \A t \in Adders : WF_counterVars(CounterStep(t))

-----------------------------------------------------------------------------
CounterTypeOK ==
    /\ global_counter \in Nat
    /\ global_mutex \in Adders \union {CounterNobody}
    /\ counterPc \in [Adders -> {"loop", "load", "store", "unlock", "done"}]
    /\ counterN \in [Adders -> 0..Loops]
    /\ tmp \in [Adders -> Nat]
    /\ ret \in [Adders -> Nat]
    /\ counter \in Nat
    /\ joined \in BOOLEAN
    /\ added \subseteq Adders \X (0..(Loops - 1))

\* The assert of ecall_thread_functions cannot fail: when every adder has
\* returned, the one that stored the last increment has reported the total,
\* although any of the four may be that one, and the others report nothing, so
\* that the host never joins with a partial sum in counter.
AssertHolds ==
    /\ (\A t \in Adders : counterPc[t] = "done") => counter = Total
    /\ counter \in {0, Total}
    /\ \A t, u \in Adders : ret[t] # 0 /\ ret[u] # 0 => t = u

\* Every adder finishes and the host gets past its assert.
AddersFinish == <>joined

-----------------------------------------------------------------------------
(***************************************************************************)
(* The bounded buffer of smile_test: ecall_producer and ecall_consumer of  *)
(* Enclave/TrustedLibrary/Thread.cpp, run by the threads the host starts   *)
(* and joins in ecall_thread_functions.  One mutex protects the buffer;    *)
(* producers wait on the condition `less`, consumers on `more`, and each   *)
(* put or get signals ONE waiter of the other side.  The SDK's mutex and   *)
(* condition variables are external: wait releases the mutex and joins the *)
(* waiters in one step, a signalled thread must take the mutex again       *)
(* before it returns, and a signal nobody waits for is lost.               *)
(***************************************************************************)

CONSTANTS Producers, Consumers,
          BUFFER_SIZE,
          Puts, Gets,    \* iterations: 4*LOOPS_PER_THREAD, LOOPS_PER_THREAD
          BufferNobody

Threads == Producers \union Consumers
BufferSlots   == 0..(BUFFER_SIZE - 1)
Iterations(t) == IF t \in Producers THEN Puts ELSE Gets

\* The host starts as many iterations of the one kind as of the other.
ASSUME BufferAssumption ==
    /\ BUFFER_SIZE \in Nat \ {0}
    /\ Puts \in Nat /\ Gets \in Nat
    /\ IsFiniteSet(Producers) /\ IsFiniteSet(Consumers)
    /\ Producers \intersect Consumers = {}
    /\ BufferNobody \notin Threads
    /\ Cardinality(Producers) * Puts = Cardinality(Consumers) * Gets

VARIABLES
    buf, occupied, nextin, nextout, \* cond_buffer_t
    mutex,       \* the thread that owns it
    more, less,  \* the threads waiting on each condition
    bufferPc, bufferN        \* where each thread is; its loop variable i

ring == <<buf, occupied, nextin, nextout>>
bufferVars == <<ring, mutex, more, less, bufferPc, bufferN>>

BufferInit ==
    /\ buf = [s \in BufferSlots |-> 0]
    /\ occupied = 0 /\ nextin = 0 /\ nextout = 0
    /\ mutex = BufferNobody
    /\ more = {} /\ less = {}
    /\ bufferPc = [t \in Threads |-> "loop"]
    /\ bufferN = [t \in Threads |-> 0]

BufferGoto(t, from, to) == bufferPc[t] = from /\ bufferPc' = [bufferPc EXCEPT ![t] = to]

\* i < ...; sgx_thread_mutex_lock(&b->mutex)
BufferLock(t) ==
    /\ bufferN[t] < Iterations(t)
    /\ mutex = BufferNobody
    /\ BufferGoto(t, "loop", "test")
    /\ mutex' = t
    /\ UNCHANGED <<ring, more, less, bufferN>>

\* A signalled thread takes the mutex back and tests its condition again.
Relock(t) ==
    /\ mutex = BufferNobody
    /\ t \notin more \union less
    /\ BufferGoto(t, "wait", "test")
    /\ mutex' = t
    /\ UNCHANGED <<ring, more, less, bufferN>>

\* while (b->occupied >= BUFFER_SIZE) sgx_thread_cond_wait(&b->less, &b->mutex)
WaitLess(t) ==
    /\ t \in Producers
    /\ occupied >= BUFFER_SIZE
    /\ BufferGoto(t, "test", "wait")
    /\ less' = less \union {t}
    /\ mutex' = BufferNobody
    /\ UNCHANGED <<ring, more, bufferN>>

\* while (b->occupied <= 0) sgx_thread_cond_wait(&b->more, &b->mutex)
WaitMore(t) ==
    /\ t \in Consumers
    /\ occupied <= 0
    /\ BufferGoto(t, "test", "wait")
    /\ more' = more \union {t}
    /\ mutex' = BufferNobody
    /\ UNCHANGED <<ring, less, bufferN>>

\* sgx_thread_cond_signal: some waiter, if there is one, stops waiting.
Signalled(W) == IF W = {} THEN {{}} ELSE {W \ {u} : u \in W}

\* Faults: the index is not wrapped; only the first item is signalled.
ProduceAs(t, in, signalled) ==
    /\ t \in Producers
    /\ ~(occupied >= BUFFER_SIZE)
    /\ BufferGoto(t, "test", "unlock")
    /\ buf' = [buf EXCEPT ![nextin] = nextin]
    /\ nextin' = in
    /\ occupied' = occupied + 1
    /\ more' \in signalled
    /\ UNCHANGED <<nextout, mutex, less, bufferN>>
ProduceSignalsIfEmpty(t) ==
    ProduceAs(t, (nextin + 1) % BUFFER_SIZE, IF occupied = 0 THEN Signalled(more) ELSE {more})

\* b->buf[b->nextin] = b->nextin; b->nextin++; b->nextin %= BUFFER_SIZE;
\* b->occupied++; sgx_thread_cond_signal(&b->more)
Produce(t) ==
    /\ t \in Producers
    /\ ~(occupied >= BUFFER_SIZE)
    /\ BufferGoto(t, "test", "unlock")
    /\ buf' = [buf EXCEPT ![nextin] = nextin]
    /\ nextin' = (nextin + 1) % BUFFER_SIZE
    /\ occupied' = occupied + 1
    /\ more' \in Signalled(more)
    /\ UNCHANGED <<nextout, mutex, less, bufferN>>

\* A fault: the slot taken last is freed.
ConsumeNewest(t) ==
    /\ t \in Consumers
    /\ ~(occupied <= 0)
    /\ BufferGoto(t, "test", "unlock")
    /\ nextin' = (nextin + BUFFER_SIZE - 1) % BUFFER_SIZE
    /\ buf' = [buf EXCEPT ![nextin'] = 0]
    /\ occupied' = occupied - 1
    /\ less' \in Signalled(less)
    /\ UNCHANGED <<nextout, mutex, more, bufferN>>

\* b->buf[b->nextout++] = 0; b->nextout %= BUFFER_SIZE; b->occupied--;
\* sgx_thread_cond_signal(&b->less)
Consume(t) ==
    /\ t \in Consumers
    /\ ~(occupied <= 0)
    /\ BufferGoto(t, "test", "unlock")
    /\ buf' = [buf EXCEPT ![nextout] = 0]
    /\ nextout' = (nextout + 1) % BUFFER_SIZE
    /\ occupied' = occupied - 1
    /\ less' \in Signalled(less)
    /\ UNCHANGED <<nextin, mutex, more, bufferN>>

\* sgx_thread_mutex_unlock(&b->mutex), i++
BufferUnlock(t) ==
    /\ BufferGoto(t, "unlock", "loop")
    /\ mutex' = BufferNobody
    /\ bufferN' = [bufferN EXCEPT ![t] = @ + 1]
    /\ UNCHANGED <<ring, more, less>>

BufferReturn(t) ==
    /\ bufferN[t] = Iterations(t)
    /\ BufferGoto(t, "loop", "done")
    /\ UNCHANGED <<ring, mutex, more, less, bufferN>>

\* consumer1.join() ... producer0.join() can return.
Done == \A t \in Threads : bufferPc[t] = "done"

BufferStep(t) ==
    \/ BufferLock(t) \/ Relock(t) \/ WaitLess(t) \/ WaitMore(t)
    \/ Produce(t) \/ Consume(t) \/ BufferUnlock(t) \/ BufferReturn(t)

BufferNext == \E t \in Threads : BufferStep(t)

BufferSpec     == BufferInit /\ [][BufferNext]_bufferVars
\* Threads that can run are scheduled.
BufferFairSpec == BufferSpec /\ \A t \in Threads : WF_bufferVars(BufferStep(t))

-----------------------------------------------------------------------------
BufferTypeOK ==
    /\ buf \in [BufferSlots -> BufferSlots]
    /\ occupied \in 0..BUFFER_SIZE
    /\ nextin \in BufferSlots /\ nextout \in BufferSlots
    /\ mutex \in Threads \union {BufferNobody}
    /\ more \subseteq Consumers /\ less \subseteq Producers
    /\ bufferPc \in [Threads -> {"loop", "test", "wait", "unlock", "done"}]
    /\ bufferN \in [Threads -> Nat]

\* The buffer is a FIFO of capacity BUFFER_SIZE: whatever the threads do, the
\* slots from nextout on hold what was put in, in order, and nothing is
\* overwritten or taken twice.
Contents == [j \in 1..occupied |-> buf[(nextout + j - 1) % BUFFER_SIZE]]
Fifo     == INSTANCE BoundedFifo
                WITH Capacity <- BUFFER_SIZE, items <- Contents, next <- nextin
IsFifo   == Fifo!Spec

\* No wake-up is lost, although put and get signal one waiter only and a
\* running thread may take what the signalled one was woken for: while a
\* consumer sleeps, there are at most as many items as consumers awake that
\* will still look for one, and while a producer sleeps at most as many free
\* slots as producers awake that will still look.
Awake(S) ==
    {t \in S : \/ bufferPc[t] \in {"test", "wait"} /\ t \notin more \union less
               \/ bufferPc[t] = "loop" /\ bufferN[t] < Iterations(t)
               \/ bufferPc[t] = "unlock" /\ bufferN[t] + 1 < Iterations(t)}
NoLostWakeup ==
    /\ more # {} => occupied <= Cardinality(Awake(Consumers))
    /\ less # {} => BUFFER_SIZE - occupied <= Cardinality(Awake(Producers))

\* All producers and consumers finish and the host joins them: nobody sleeps
\* for ever and the items neither run out nor pile up.
ThreadsFinish == <>Done
=============================================================================
