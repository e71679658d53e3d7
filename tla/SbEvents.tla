------------------------------ MODULE SbEvents ------------------------------
(***************************************************************************)
(* Events of a sysbench run, in two parts: how threads get them, and how   *)
(* they are counted.                                                       *)
(***************************************************************************)
EXTENDS Naturals, Sequences, FiniteSets, Integers, FiniteSetsExt

(* How the workers of sysbench get their events (sysbench.c): the event    *)
(* and time limits, and in rate mode the queue that a generator thread     *)
(* fills and the workers empty.  A queued event is a pointer into          *)
(* queue_array, whose slot holds the time of its arrival; here the time is *)
(* a number that tells any 2 * MAX_QUEUE_LEN arrivals in a row apart.      *)
(* The queue itself is ck_ring, a library; it holds one entry less than    *)
(* its size.  queue_mutex is taken around the wait only, by nobody else.   *)

CONSTANTS QueueWorkers,
          MAX_QUEUE_LEN,
          max_events,      \* --events, 0 for no limit
          TimeLimit,       \* is --time set?
          NULL

ASSUME LengthAssumption == MAX_QUEUE_LEN \in Nat \ {0, 1}
ASSUME EventsAssumption == max_events \in Nat
ASSUME ModeAssumption == TimeLimit \in BOOLEAN

QueueSlots == 0 .. MAX_QUEUE_LEN - 1
Times == 0 .. 2 * MAX_QUEUE_LEN - 1

VARIABLES
    rated,   \* is --rate set (tx_rate > 0)?
    expired,       \* sb_exec_timer has reached max_time_ns
    queueError,         \* sb_globals.error
    queueNevents,       \* sb_globals.nevents
    concurrency,   \* sb_globals.concurrency
    queue_array,   \* arrival times, one per slot
    queue_ring,    \* queued events: a slot and, for the properties, the time put there
    gpc, queueI, queueClock, \* the generator: its place, its index and the next arrival time
    queuePc,            \* where each worker is in thread_run
    ptr,           \* the slot each worker took from the queue
    came,          \* when the event it took had come, and how many have come since,
    since,         \* up to MAX_QUEUE_LEN, until it has read its time
    queueRc,            \* has the worker's last event failed?
    executed       \* events run so far, counted if they are limited

gvars == <<gpc, queueI, queueClock, queue_array>>
queueHist == <<came, since>>
queueVars == <<rated, expired, queueError, queueNevents, concurrency, queue_ring, gvars, queuePc, ptr, queueRc, executed, queueHist>>

QueueInit == /\ rated \in BOOLEAN
             /\ expired = FALSE /\ queueError = FALSE
             /\ queueNevents = 0 /\ concurrency = 0
             /\ queue_array = [s \in QueueSlots |-> 0]
             /\ queue_ring = <<>>
             /\ gpc = (IF rated THEN "top" ELSE "gone")
             /\ queueI = 0 /\ queueClock = 0
             /\ queuePc = [w \in QueueWorkers |-> "ask"]
             /\ ptr = [w \in QueueWorkers |-> NULL]
             /\ came = [w \in QueueWorkers |-> 0] /\ since = [w \in QueueWorkers |-> 0]
             /\ queueRc = [w \in QueueWorkers |-> FALSE]
             /\ executed = 0

QueueGo(w, place) == queuePc' = [queuePc EXCEPT ![w] = place]

\* The clock passes max_time_ns.
TimeUp == /\ TimeLimit /\ ~expired
          /\ expired' = TRUE
          /\ UNCHANGED <<rated, queueError, queueNevents, concurrency, queue_ring, gvars, queuePc, ptr, queueRc, executed, queueHist>>
-----------------------------------------------------------------------------
(* A worker in sb_more_events. *)

\* The error flag and the time limit are tested on entry.
Ask(w) == /\ queuePc[w] = "ask"
          /\ QueueGo(w, IF queueError \/ expired THEN "end"
                   ELSE IF max_events > 0 THEN "limit"
                   ELSE IF rated THEN "dequeue" ELSE "next")
          /\ UNCHANGED <<expired, queueError, queueNevents, concurrency, queue_ring, gvars, ptr, queueRc, executed>>

\* ck_pr_faa_64(&sb_globals.nevents, 1) >= max_events
LimitPassed == queueNevents >= max_events

LimitRetries(w) == /\ queuePc[w] = "limit"
                   /\ ~LimitPassed
                   /\ queueNevents' = queueNevents + 1
                   /\ QueueGo(w, IF rated THEN "dequeue" ELSE "next")
                   /\ UNCHANGED <<expired, queueError, concurrency, queue_ring, gvars, ptr, queueRc, executed>>
Limit(w) == /\ queuePc[w] = "limit"
            /\ queueNevents' = queueNevents + 1
            /\ QueueGo(w, IF LimitPassed THEN "end" ELSE IF rated THEN "dequeue" ELSE "next")
            /\ UNCHANGED <<expired, queueError, concurrency, queue_ring, gvars, ptr, queueRc, executed>>

\* ck_ring_dequeue_spmc succeeds.
Dequeue(w) == /\ queuePc[w] = "dequeue"
              /\ queue_ring # <<>>
              /\ ptr' = [ptr EXCEPT ![w] = Head(queue_ring).slot]
              /\ queue_ring' = Tail(queue_ring)
              /\ came' = [came EXCEPT ![w] = Head(queue_ring).time]
              /\ since' = [since EXCEPT ![w] = Len(queue_ring) - 1 + IF gpc = "stamped" THEN 1 ELSE 0]
              /\ QueueGo(w, "take")
              /\ UNCHANGED <<expired, queueError, queueNevents, concurrency, gvars, queueRc, executed>>

\* The queue is empty: wait, unless an error ends the loop, with no event.
QueueEmpty(w) == /\ queuePc[w] = "dequeue"
                 /\ queue_ring = <<>>
                 /\ ptr' = [ptr EXCEPT ![w] = NULL]
                 /\ QueueGo(w, IF queueError THEN "take" ELSE "lock")
                 /\ UNCHANGED <<expired, queueError, queueNevents, concurrency, queue_ring, gvars, queueRc, executed>>

\* pthread_mutex_lock and pthread_cond_wait
Sleep(w) == /\ queuePc[w] = "lock"
            /\ QueueGo(w, "asleep")
            /\ UNCHANGED <<expired, queueError, queueNevents, concurrency, queue_ring, gvars, ptr, queueRc, executed>>

QueueSpuriousWakeup(w) == /\ queuePc[w] = "asleep"
                          /\ QueueGo(w, "awake")
                          /\ UNCHANGED <<rated, expired, queueError, queueNevents, concurrency, queue_ring, gvars, ptr, queueRc, executed, queueHist>>

\* The error flag and the time limit are tested again after the wait.
Recheck(w) == /\ queuePc[w] = "awake"
              /\ QueueGo(w, IF queueError \/ expired THEN "end" ELSE "dequeue")
              /\ UNCHANGED <<expired, queueError, queueNevents, concurrency, queue_ring, gvars, ptr, queueRc, executed>>

\* The event counts as in progress and its arrival time is read through the
\* pointer; without an event that is a read through NULL.
Take(w) == /\ queuePc[w] = "take"
           /\ concurrency' = concurrency + 1
           /\ QueueGo(w, IF ptr[w] = NULL THEN "crashed" ELSE "next")
           /\ came' = [came EXCEPT ![w] = 0] /\ since' = [since EXCEPT ![w] = 0]
           /\ UNCHANGED <<expired, queueError, queueNevents, queue_ring, gvars, ptr, queueRc, executed>>
-----------------------------------------------------------------------------
(* A worker in thread_run and at the end of worker_thread. *)

\* The loop asks for an event before it looks at rc, and the test may have
\* no event (SB_REQ_TYPE_NULL).
QueueNextEvent(w) == /\ queuePc[w] = "next"
                     /\ \E none \in BOOLEAN : QueueGo(w, IF queueRc[w] \/ none THEN "end" ELSE "exec")
                     /\ UNCHANGED <<expired, queueError, queueNevents, concurrency, queue_ring, gvars, ptr, queueRc, executed>>

\* sb_event_start, execute_event, which may fail, and sb_event_stop
Execute(w) == /\ queuePc[w] = "exec"
              /\ \E failed \in BOOLEAN : queueRc' = [queueRc EXCEPT ![w] = failed]
              /\ concurrency' = (IF rated THEN concurrency - 1 ELSE concurrency)
              /\ executed' = (IF max_events > 0 THEN executed + 1 ELSE executed)
              /\ QueueGo(w, "ask")
              /\ UNCHANGED <<expired, queueError, queueNevents, queue_ring, gvars, ptr>>

QueueEnd(w) == /\ queuePc[w] = "end"
               /\ queueError' = (queueError \/ queueRc[w])
               /\ QueueGo(w, "gone")
               /\ UNCHANGED <<expired, queueNevents, concurrency, queue_ring, gvars, ptr, queueRc, executed>>
-----------------------------------------------------------------------------
(* eventgen_thread_proc *)

\* pthread_cond_broadcast and pthread_cond_signal
Broadcast == queuePc' = [w \in QueueWorkers |-> IF queuePc[w] = "asleep" THEN "awake" ELSE queuePc[w]]
Signal == \/ \E w \in QueueWorkers : queuePc[w] = "asleep" /\ QueueGo(w, "awake")
          \/ (\A w \in QueueWorkers : queuePc[w] # "asleep") /\ UNCHANGED queuePc

\* The time limit ends the generator, which wakes all the waiting workers.
GenTimeUp == /\ gpc = "top" /\ expired
             /\ gpc' = "gone"
             /\ Broadcast
             /\ UNCHANGED <<expired, queueError, queueNevents, concurrency, queue_ring, queueI, queueClock, queue_array, ptr, queueRc, executed>>

\* Sleep until the next arrival.
GenPause == /\ gpc = "top" /\ ~expired
            /\ gpc' = "enqueue"
            /\ UNCHANGED <<expired, queueError, queueNevents, concurrency, queue_ring, queueI, queueClock, queue_array, queuePc, ptr, queueRc, executed>>

\* ck_ring_enqueue_spmc has room for one entry less than its size.
Room == Len(queue_ring) < MAX_QUEUE_LEN - 1

\* queue_array[i] = sb_timer_value(&sb_exec_timer), whoever still has the slot
Reading(w) == queuePc[w] = "take" /\ ptr[w] # NULL
GenStamp == /\ gpc = "enqueue"
            /\ queue_array' = [queue_array EXCEPT ![queueI] = queueClock]
            /\ queueClock' = (queueClock + 1) % (2 * MAX_QUEUE_LEN)
            /\ since' = [w \in QueueWorkers |-> IF Reading(w) /\ since[w] < MAX_QUEUE_LEN THEN since[w] + 1 ELSE since[w]]
            /\ gpc' = "stamped"
            /\ UNCHANGED <<expired, queueError, queueNevents, concurrency, queue_ring, queueI, queuePc, ptr, queueRc, executed, came>>

GenEnqueue == /\ gpc = "stamped" /\ Room
              /\ queue_ring' = Append(queue_ring, [slot |-> queueI, time |-> queue_array[queueI]])
              /\ gpc' = "signal"
              /\ UNCHANGED <<expired, queueError, queueNevents, concurrency, queueI, queueClock, queue_array, queuePc, ptr, queueRc, executed>>

\* "The event queue is full": stop everybody.
GenFull == /\ gpc = "stamped" /\ ~Room
           /\ queueError' = TRUE
           /\ gpc' = "gone"
           /\ Broadcast
           /\ UNCHANGED <<expired, queueNevents, concurrency, queue_ring, queueI, queueClock, queue_array, ptr, queueRc, executed>>

\* for (int i = 0; ; i = (i+1) % MAX_QUEUE_LEN)
GenSignal == /\ gpc = "signal"
             /\ Signal
             /\ queueI' = (queueI + 1) % MAX_QUEUE_LEN
             /\ gpc' = "top"
             /\ UNCHANGED <<expired, queueError, queueNevents, concurrency, queue_ring, queueClock, queue_array, ptr, queueRc, executed>>
-----------------------------------------------------------------------------
QueueWorker(w) == /\ \/ Dequeue(w) \/ Take(w)
                     \/ /\ \/ Ask(w) \/ Limit(w) \/ QueueEmpty(w) \/ Sleep(w)
                           \/ Recheck(w) \/ QueueNextEvent(w) \/ Execute(w) \/ QueueEnd(w)
                        /\ UNCHANGED queueHist
                  /\ UNCHANGED rated
Generator == /\ \/ GenStamp
                \/ (GenTimeUp \/ GenPause \/ GenEnqueue \/ GenFull \/ GenSignal) /\ UNCHANGED queueHist
             /\ UNCHANGED rated

\* A read through NULL ends the process.
QueueAlive == \A w \in QueueWorkers : queuePc[w] # "crashed"

QueueNext == /\ QueueAlive
             /\ \/ TimeUp \/ Generator
                \/ \E w \in QueueWorkers : QueueWorker(w) \/ QueueSpuriousWakeup(w)

QueueSpec == QueueInit /\ [][QueueNext]_queueVars

\* Threads that can run do run, and the clock does not stop.
QueueFairSpec == /\ QueueSpec
                 /\ WF_queueVars(QueueAlive /\ TimeUp)
                 /\ WF_queueVars(QueueAlive /\ Generator)
                 /\ \A w \in QueueWorkers : WF_queueVars(QueueAlive /\ QueueWorker(w))
-----------------------------------------------------------------------------
Places == {"ask", "limit", "dequeue", "lock", "asleep", "awake", "take",
           "next", "exec", "end", "gone", "crashed"}

\* The shared state of sb_more_events and eventgen_thread_proc keeps its
\* types; the ring never holds more than MAX_QUEUE_LEN - 1 events.
QueueTypeOK == /\ expired \in BOOLEAN /\ queueError \in BOOLEAN
               /\ queueNevents \in 0 .. max_events + Cardinality(QueueWorkers)
               /\ concurrency \in 0 .. Cardinality(QueueWorkers)
               /\ queue_array \in [QueueSlots -> Times]
               /\ queue_ring \in Seq([slot : QueueSlots, time : Times])
               /\ Len(queue_ring) < MAX_QUEUE_LEN
               /\ gpc \in {"top", "enqueue", "stamped", "signal", "gone"} /\ queueI \in QueueSlots /\ queueClock \in Times
               /\ queuePc \in [QueueWorkers -> Places]
               /\ ptr \in [QueueWorkers -> QueueSlots \cup {NULL}]
               /\ came \in [QueueWorkers -> Times] /\ since \in [QueueWorkers -> 0 .. MAX_QUEUE_LEN]
               /\ queueRc \in [QueueWorkers -> BOOLEAN]
               /\ executed \in 0 .. max_events

\* The generator reuses the slots of queue_array without asking whether they
\* are free.  An event still in the queue keeps the time it came with, even
\* when the queue is full and the generator has gone round the array; and so
\* does an event that a worker has taken and not yet read the time of, unless
\* MAX_QUEUE_LEN events have come since, the last of them into its slot.
QueuedTimesIntact ==
    /\ \A k \in 1 .. Len(queue_ring) : queue_array[queue_ring[k].slot] = queue_ring[k].time
    /\ \A w \in QueueWorkers :
          Reading(w) /\ since[w] < MAX_QUEUE_LEN => queue_array[ptr[w]] = came[w]

\* What is queued are the most recent arrivals, in their order and without a
\* gap: no event is dropped, doubled or overtaken.
QueueIsFifo ==
    \A k \in 1 .. Len(queue_ring) - 1 :
        queue_ring[k + 1].time = (queue_ring[k].time + 1) % (2 * MAX_QUEUE_LEN)

\* The event limit is exact, however the workers' increments of nevents
\* interleave with their executions: if neither an error, the time limit nor
\* the test cut the run short, --events events have been executed.
EventLimitExact ==
    (/\ max_events > 0
     /\ \A w \in QueueWorkers : queuePc[w] = "gone"
     /\ queueNevents = max_events + Cardinality(QueueWorkers))
        => executed = max_events

\* Limits and errors end every worker, but for one that waits for the
\* generator: its broadcast, made without queue_mutex, may come before the
\* wait.  Without a rate nobody waits.
WorkersEnd == /\ ~rated => <>(\A w \in QueueWorkers : queuePc[w] = "gone")
              /\ <>[](QueueAlive => \A w \in QueueWorkers : queuePc[w] \in {"gone", "asleep"})

-----------------------------------------------------------------------------
(* How sysbench counts events while its workers run.  A worker that ends   *)
(* an event adds to its timer (under the timer's spinlock), to a cell of   *)
(* the latency histogram (an atomic increment in a random slot) and to its *)
(* counter.  The report thread and the checkpoints thread fetch and reset  *)
(* these one by one, at the same time and without stopping the workers.    *)
(* Latencies are histogram buckets here.                                   *)

CONSTANTS collectThreads,      \* sb_globals.threads
          CollectSlots,        \* SB_HISTOGRAM_NSLOTS
          array_size,   \* buckets of the histogram
          percentile,
          CollectMaxEvents,    \* bound: events of each worker
          CollectMaxReports    \* bound: reports of each kind

ASSUME CollectThreadsAssumption == collectThreads \in Nat \ {0}
ASSUME SlotsAssumption == CollectSlots \in Nat \ {0}
ASSUME SizeAssumption == array_size \in Nat \ {0}
ASSUME PercentileAssumption == percentile \in 1 .. 100
ASSUME CollectBoundsAssumption == CollectMaxEvents \in Nat /\ CollectMaxReports \in Nat

CollectWorkers == 0 .. collectThreads - 1
Buckets == 0 .. array_size - 1
Cells == 0 .. CollectSlots * array_size - 1    \* slot by slot, as the loops go
CollectReporters == {"intermediate", "cumulative"}

VARIABLES
    collectPc, ended,          \* each worker: its place and its events so far
    latency,            \* the bucket of its last event
    timer_events,       \* timers[i].events
    counter,            \* sb_counters[i][SB_CNT_EVENT]
    interm_slots,       \* the histogram's cells
    cumulative_array, cumulative_nevents,
    collectLock,               \* who holds the histogram's lock, or "free"
    collectRpc, at,            \* each reporter: its place and its loop's index
    sum,                \* the counters it added up
    collectArray, collectNevents,     \* what it took from the cells
    last,               \* last_intermediate_counters, last_cumulative_counters
    pct,                \* its last percentile: a bucket
    collectReports,            \* its reports so far
    collectSeen                \* events taken off by checkpoints

collectWvars == <<collectPc, ended, latency, timer_events, counter>>
collectCvars == <<cumulative_array, cumulative_nevents>>
collectRvars == <<collectRpc, at, sum, collectArray, collectNevents, last, pct, collectReports>>
collectVars == <<collectWvars, interm_slots, collectCvars, collectLock, collectRvars, collectSeen>>

Total(f) == MapThenSumSet(LAMBDA x : f[x], DOMAIN f)
CollectEmpty == [b \in Buckets |-> 0]
ForEach(v) == [r \in CollectReporters |-> v]

CollectInit == /\ collectPc = [w \in CollectWorkers |-> "run"] /\ ended = [w \in CollectWorkers |-> 0]
               /\ latency = [w \in CollectWorkers |-> 0]
               /\ timer_events = [w \in CollectWorkers |-> 0] /\ counter = [w \in CollectWorkers |-> 0]
               /\ interm_slots = [c \in Cells |-> 0]
               /\ cumulative_array = CollectEmpty /\ cumulative_nevents = 0 /\ collectLock = "free"
               /\ collectRpc = ForEach("idle") /\ at = ForEach(0) /\ sum = ForEach(0)
               /\ collectArray = ForEach(CollectEmpty) /\ collectNevents = ForEach(0)
               /\ last = ForEach(0) /\ pct = ForEach(0) /\ collectReports = ForEach(0)
               /\ collectSeen = [counters |-> 0, histogram |-> 0, timers |-> 0]
-----------------------------------------------------------------------------
(* A worker in sb_event_stop. *)

CollectGo(w, place) == collectPc' = [collectPc EXCEPT ![w] = place]

\* sb_timer_stop; the event took long enough for bucket b.
StopTimer(w) == /\ collectPc[w] = "run" /\ ended[w] < CollectMaxEvents
                /\ ended' = [ended EXCEPT ![w] = @ + 1]
                /\ timer_events' = [timer_events EXCEPT ![w] = @ + 1]
                /\ \E b \in Buckets : latency' = [latency EXCEPT ![w] = b]
                /\ CollectGo(w, "histogram")
                /\ UNCHANGED <<counter, interm_slots, collectCvars, collectLock, collectRvars, collectSeen>>

\* sb_histogram_update in a random slot
UpdateHistogram(w) == /\ collectPc[w] = "histogram"
                      /\ \E s \in 0 .. CollectSlots - 1 :
                            interm_slots' = [interm_slots EXCEPT ![s * array_size + latency[w]] = @ + 1]
                      /\ CollectGo(w, "counter")
                      /\ UNCHANGED <<ended, latency, timer_events, counter, collectCvars, collectLock, collectRvars, collectSeen>>

\* sb_counter_inc, by its only writer
IncCounter(w) == /\ collectPc[w] = "counter"
                 /\ counter' = [counter EXCEPT ![w] = @ + 1]
                 /\ CollectGo(w, "run")
                 /\ UNCHANGED <<ended, latency, timer_events, interm_slots, collectCvars, collectLock, collectRvars, collectSeen>>
-----------------------------------------------------------------------------
(* report_intermediate and checkpoint: first the counters, one at a time.  *)

Step(r, place) == collectRpc' = [collectRpc EXCEPT ![r] = place] /\ at' = [at EXCEPT ![r] = 0]

Begin(r) == /\ collectRpc[r] = "idle" /\ collectReports[r] < CollectMaxReports
            /\ Step(r, "counters")
            /\ sum' = [sum EXCEPT ![r] = 0]
            /\ UNCHANGED <<collectWvars, interm_slots, collectCvars, collectLock, collectArray, collectNevents, last, pct, collectReports, collectSeen>>

\* sb_counters_merge
ReadCounter(r) == /\ collectRpc[r] = "counters" /\ at[r] \in CollectWorkers
                  /\ sum' = [sum EXCEPT ![r] = @ + counter[at[r]]]
                  /\ at' = [at EXCEPT ![r] = @ + 1]
                  /\ UNCHANGED <<collectWvars, interm_slots, collectCvars, collectLock, collectRpc, collectArray, collectNevents, last, pct, collectReports, collectSeen>>

\* sb_counters_checkpoint: the events since the last report of this kind
LastReport(r) == [last EXCEPT ![r] = sum[r]]

CheckpointCounters(r) ==
    /\ collectRpc[r] = "counters" /\ at[r] = collectThreads
    /\ last' = LastReport(r)
    /\ collectSeen' = [collectSeen EXCEPT !.counters = IF r = "cumulative" THEN @ + (sum[r] - last[r]) ELSE @]
    /\ Step(r, "locking")
    /\ UNCHANGED <<collectWvars, interm_slots, collectCvars, collectLock, sum, collectArray, collectNevents, pct, collectReports>>

(* Then the histogram, under its lock, one cell at a time. *)

\* pthread_rwlock_wrlock(&h->lock)
LockFree(r) == collectLock = "free"
\* What a reporter starts to count from: nothing, or cumulative_nevents.
CountFrom(r) == IF r = "intermediate" THEN 0 ELSE cumulative_nevents

Lock(r) == /\ collectRpc[r] = "locking" /\ LockFree(r)
           /\ collectLock' = r
           /\ collectArray' = [collectArray EXCEPT ![r] = CollectEmpty]
           /\ collectNevents' = [collectNevents EXCEPT ![r] = CountFrom(r)]
           /\ Step(r, "fetch")
           /\ UNCHANGED <<collectWvars, interm_slots, collectCvars, sum, last, pct, collectReports, collectSeen>>

\* ck_pr_fas_64(&h->interm_slots[s][i], 0)
FetchedKeeps(c) == interm_slots
Fetched(c) == [interm_slots EXCEPT ![c] = 0]

\* sb_histogram_get_pct_intermediate collects the cells in temp_array,
\* merge_intermediate_into_cumulative in the cumulative array.
FetchCell(r) ==
    LET c == at[r]
        b == c % array_size
    IN  /\ collectRpc[r] = "fetch" /\ c \in Cells
        /\ interm_slots' = Fetched(c)
        /\ IF r = "intermediate"
           THEN collectArray' = [collectArray EXCEPT ![r][b] = @ + interm_slots[c]] /\ UNCHANGED cumulative_array
           ELSE cumulative_array' = [cumulative_array EXCEPT ![b] = @ + interm_slots[c]] /\ UNCHANGED collectArray
        /\ collectNevents' = [collectNevents EXCEPT ![r] = @ + interm_slots[c]]
        /\ at' = [at EXCEPT ![r] = @ + 1]
        /\ UNCHANGED <<collectWvars, cumulative_nevents, collectLock, collectRpc, sum, last, pct, collectReports, collectSeen>>

\* floor(n * percentile / 100 + 0.5)
nmax(n) == (2 * n * percentile + 100) \div 200

\* The events in the first buckets of an array, and the loop that adds
\* buckets up until it has nmax events.
UpTo(a, b) == MapThenSumSet(LAMBDA x : a[x], 0 .. b)
Pct(a, n) == LET reached == {b \in Buckets : UpTo(a, b) >= nmax(n)}
             IN  IF reached = {} THEN array_size ELSE Min(reached)

PctIntermediate ==
    LET r == "intermediate"
    IN  /\ collectRpc[r] = "fetch" /\ at[r] \notin Cells
        /\ pct' = [pct EXCEPT ![r] = Pct(collectArray[r], collectNevents[r])]
        /\ cumulative_array' = [b \in Buckets |-> cumulative_array[b] + collectArray[r][b]]
        /\ cumulative_nevents' = cumulative_nevents + collectNevents[r]
        /\ collectArray' = [collectArray EXCEPT ![r] = CollectEmpty] /\ collectNevents' = [collectNevents EXCEPT ![r] = 0]
        /\ collectLock' = "free"
        /\ Step(r, "idle") /\ collectReports' = [collectReports EXCEPT ![r] = @ + 1]
        /\ UNCHANGED <<collectWvars, interm_slots, sum, last, collectSeen>>

\* sb_histogram_get_pct_checkpoint resets the cumulative array.
PctCheckpoint ==
    LET r == "cumulative"
    IN  /\ collectRpc[r] = "fetch" /\ at[r] \notin Cells
        /\ pct' = [pct EXCEPT ![r] = Pct(cumulative_array, collectNevents[r])]
        /\ collectSeen' = [collectSeen EXCEPT !.histogram = @ + collectNevents[r]]
        /\ cumulative_array' = CollectEmpty /\ cumulative_nevents' = 0
        /\ collectNevents' = [collectNevents EXCEPT ![r] = 0]
        /\ collectLock' = "free"
        /\ Step(r, "timers")
        /\ UNCHANGED <<collectWvars, interm_slots, sum, collectArray, last, collectReports>>

(* At last, for a checkpoint, the timers. *)

\* sb_timer_reset
TimerReset(w) == [timer_events EXCEPT ![w] = 0]

\* sb_timer_checkpoint copies and resets a timer under its lock.
CheckpointTimer ==
    LET r == "cumulative"
    IN  /\ collectRpc[r] = "timers" /\ at[r] \in CollectWorkers
        /\ collectSeen' = [collectSeen EXCEPT !.timers = @ + timer_events[at[r]]]
        /\ timer_events' = TimerReset(at[r])
        /\ at' = [at EXCEPT ![r] = @ + 1]
        /\ UNCHANGED <<collectPc, ended, latency, counter, interm_slots, collectCvars, collectLock, collectRpc, sum, collectArray, collectNevents, last, pct, collectReports>>

EndCheckpoint ==
    LET r == "cumulative"
    IN  /\ collectRpc[r] = "timers" /\ at[r] = collectThreads
        /\ Step(r, "idle") /\ collectReports' = [collectReports EXCEPT ![r] = @ + 1]
        /\ UNCHANGED <<collectWvars, interm_slots, collectCvars, collectLock, sum, collectArray, collectNevents, last, pct, collectSeen>>
-----------------------------------------------------------------------------
CollectNext == \/ \E w \in CollectWorkers : StopTimer(w) \/ UpdateHistogram(w) \/ IncCounter(w)
               \/ \E r \in CollectReporters : \/ Begin(r) \/ ReadCounter(r) \/ CheckpointCounters(r)
                                              \/ Lock(r) \/ FetchCell(r)
               \/ PctIntermediate \/ PctCheckpoint \/ CheckpointTimer \/ EndCheckpoint

CollectSpec == CollectInit /\ [][CollectNext]_collectVars
-----------------------------------------------------------------------------
Executed == Total(ended)

\* Counters, histogram and reports hold event counts, never negative ones
\* (which as uint64_t would be enormous), and a percentile is one of the
\* histogram's buckets, also when a report found no event.
CollectTypeOK == /\ collectPc \in [CollectWorkers -> {"run", "histogram", "counter"}]
                 /\ ended \in [CollectWorkers -> 0 .. CollectMaxEvents] /\ latency \in [CollectWorkers -> Buckets]
                 /\ timer_events \in [CollectWorkers -> Nat] /\ counter \in [CollectWorkers -> Nat]
                 /\ interm_slots \in [Cells -> Nat]
                 /\ cumulative_array \in [Buckets -> Nat] /\ cumulative_nevents \in Nat
                 /\ collectLock \in CollectReporters \cup {"free"}
                 /\ collectRpc \in [CollectReporters -> {"idle", "counters", "locking", "fetch", "timers"}]
                 /\ at \in [CollectReporters -> Nat] /\ collectArray \in [CollectReporters -> [Buckets -> Nat]]
                 /\ {sum, collectNevents, last} \subseteq [CollectReporters -> Nat]
                 /\ pct \in [CollectReporters -> Buckets] /\ collectReports \in [CollectReporters -> 0 .. CollectMaxReports]
                 /\ collectSeen \in [{"counters", "histogram", "timers"} -> Nat]

\* "we make sure we don't lose any concurrent increments" (sb_histogram.c:128):
\* every update of the histogram is in a cell, in the report in progress, in
\* the cumulative array or in exactly one checkpoint.
NoUpdateLost ==
    LET added == Executed - Cardinality({w \in CollectWorkers : collectPc[w] = "histogram"})
    IN  added = Total(interm_slots) + Total(collectArray["intermediate"])
                    + Total(cumulative_array) + collectSeen.histogram

\* The number of events the percentiles are computed from is the number in
\* the array they are looked up in, whenever the lock is free.
CumulativeExact == collectLock = "free" => cumulative_nevents = Total(cumulative_array)

\* Every event is in a thread's timer or in exactly one checkpoint's copy.
NoTimerLost == Executed = Total(timer_events) + collectSeen.timers

\* No event is in two cumulative reports, or is dropped between two of them:
\* what they reported are the events counted when the last one looked.
ReportsAddUp == /\ collectSeen.counters = last["cumulative"]
                /\ \A r \in CollectReporters : last[r] <= Total(counter)

\* What a percentile promises: at least that share of the events in the array
\* it is looked up in, rounded to whole events, took no longer than the bucket
\* it names, and with every bucket before it there are fewer.
PctIsPercentile ==
    \A a \in {cumulative_array, collectArray["intermediate"]} :
        LET n == Total(a)
            p == Pct(a, n)
            share(b) == 100 * UpTo(a, b) - n * percentile
        IN  /\ p \in Buckets /\ share(p) >= -50
            /\ \A b \in 0 .. p - 1 : share(b) < 50
=============================================================================
