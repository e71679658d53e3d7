--------------------------- MODULE EnclaveProofs ----------------------------
(***************************************************************************)
(* What is proved of the enclave's counter and of its buffer, for every    *)
(* number of threads and iterations and every size of the buffer, and of   *)
(* the host program of the case study, for any number of interrupts.       *)
(***************************************************************************)
EXTENDS Enclave, SmileHost, SequenceTheorems, FiniteSetTheorems, TLAPS

(***************************************************************************)
(* The assert of the host program holds for any number of adders and       *)
(* iterations.  The sum of the loop variables is handled as the            *)
(* cardinality of the set of increments made, `added`.                     *)
(***************************************************************************)

All == Adders \X (0..(Loops - 1))

\* Increment k of thread t has been stored.
Made(t, k) == k < counterN[t] \/ (k = counterN[t] /\ counterPc[t] = "unlock")

CounterMutex == \A t \in Adders : counterPc[t] \in {"load", "store", "unlock"} <=> global_mutex = t

Counted ==
    /\ \A t \in Adders, k \in 0..(Loops - 1) : <<t, k>> \in added <=> Made(t, k)
    /\ \A t \in Adders : counterPc[t] \in {"load", "store", "unlock"} => counterN[t] < Loops
    /\ \A t \in Adders : counterPc[t] = "done" => counterN[t] = Loops
    /\ \A t \in Adders : counterPc[t] = "store" => tmp[t] = global_counter
    /\ global_counter = Cardinality(added)

\* Who has reported, and to whom.
Reported ==
    /\ \A t \in Adders : ret[t] # 0 => ret[t] = Total /\ global_counter = Total
    /\ counter # 0 => counter = Total /\ global_counter = Total
    /\ \A t \in Adders : ret[t] # 0 /\ counterPc[t] = "done" => counter = Total
    /\ global_counter = Total => \E t \in Adders : ret[t] # 0
    /\ \A t, u \in Adders : ret[t] # 0 /\ ret[u] # 0 => t = u

CInv == CounterTypeOK /\ CounterMutex /\ Counted /\ Reported

LEMMA TotalFacts ==
    /\ IsFiniteSet(All)
    /\ Cardinality(All) = Total
    /\ Total \in Nat \ {0}
<1>1. IsFiniteSet(0..(Loops - 1)) /\ Cardinality(0..(Loops - 1)) = Loops
  BY FS_Interval, AdderAssumption
<1>2. IsFiniteSet(All) /\ Cardinality(All) = Total
  BY <1>1, FS_Product, AdderAssumption DEF All, Total
<1>3. \E t \in Adders : <<t, 0>> \in All
  BY AdderAssumption DEF All
<1>4. Cardinality(All) \in Nat /\ Cardinality(All) # 0
  BY <1>2, <1>3, FS_CardinalityType, FS_EmptySet
<1>5. QED
  BY <1>2, <1>4

LEMMA InitCInv == CounterInit => CInv
<1> SUFFICES ASSUME CounterInit PROVE CInv
  OBVIOUS
<1>1. CounterTypeOK
  <2>1. counterPc \in [Adders -> {"loop", "load", "store", "unlock", "done"}]
    BY DEF CounterInit
  <2>2. /\ counterN \in [Adders -> 0..Loops]
        /\ tmp \in [Adders -> Nat] /\ ret \in [Adders -> Nat]
    BY AdderAssumption DEF CounterInit
  <2>3. joined \in BOOLEAN /\ added \subseteq Adders \X (0..(Loops - 1))
    BY DEF CounterInit
  <2>4. QED
    BY <2>1, <2>2, <2>3 DEF CounterInit, CounterTypeOK
<1>2. CounterMutex
  BY AdderAssumption DEF CounterInit, CounterMutex
<1>3. Counted
  BY AdderAssumption, FS_EmptySet DEF CounterInit, Counted, Made
<1>4. Reported
  BY TotalFacts DEF CounterInit, Reported
<1>5. QED
  BY <1>1, <1>2, <1>3, <1>4 DEF CInv

\* The increment about to be stored has not been made, so there is still one
\* to make, and nobody has reported the total.
LEMMA StoreFacts ==
    ASSUME CInv, NEW t \in Adders, counterPc[t] = "store"
    PROVE  /\ <<t, counterN[t]>> \in All /\ <<t, counterN[t]>> \notin added
           /\ IsFiniteSet(added)
           /\ Cardinality(added \union {<<t, counterN[t]>>}) = global_counter + 1
           /\ global_counter < Total
<1>1. counterN[t] \in 0..(Loops - 1)
  BY AdderAssumption DEF CInv, CounterTypeOK, Counted
<1>2. <<t, counterN[t]>> \in All /\ <<t, counterN[t]>> \notin added
  BY <1>1 DEF CInv, Counted, Made, All
<1>3. added \subseteq All
  BY DEF CInv, CounterTypeOK, All
<1>4. IsFiniteSet(added)
  BY <1>3, TotalFacts, FS_Subset
<1>5. Cardinality(added \union {<<t, counterN[t]>>}) = global_counter + 1
  BY <1>2, <1>4, FS_AddElement DEF CInv, Counted
<1>6. Cardinality(added \union {<<t, counterN[t]>>}) <= Total
  BY <1>2, <1>3, TotalFacts, FS_Subset
<1>7. QED
  BY <1>2, <1>4, <1>5, <1>6, TotalFacts DEF CInv, CounterTypeOK

LEMMA StepCInv ==
    ASSUME CInv, NEW t \in Adders, CounterStep(t)
    PROVE  CInv'
<1> USE AdderAssumption DEF CInv, CounterGoto
<1>1. CASE CounterLock(t)
  <2>1. CounterTypeOK'
    BY <1>1 DEF CounterLock, CounterTypeOK
  <2>2. CounterMutex'
    BY <1>1 DEF CounterLock, CounterTypeOK, CounterMutex
  <2>3. Counted'
    BY <1>1 DEF CounterLock, CounterTypeOK, Counted, Made
  <2>4. Reported'
    BY <1>1 DEF CounterLock, CounterTypeOK, Reported
  <2>5. QED
    BY <2>1, <2>2, <2>3, <2>4
<1>2. CASE Load(t)
  <2>1. CounterTypeOK'
    BY <1>2 DEF Load, CounterTypeOK
  <2>2. CounterMutex'
    BY <1>2 DEF Load, CounterTypeOK, CounterMutex
  <2>3. Counted'
    BY <1>2 DEF Load, CounterTypeOK, Counted, Made
  <2>4. Reported'
    BY <1>2 DEF Load, CounterTypeOK, Reported
  <2>5. QED
    BY <2>1, <2>2, <2>3, <2>4
<1>3. CASE Store(t)
  <2>0. /\ counterPc[t] = "store" /\ counterPc' = [counterPc EXCEPT ![t] = "unlock"]
        /\ global_counter' = tmp[t] + 1
        /\ ret' = [ret EXCEPT ![t] = IF tmp[t] + 1 = Total THEN tmp[t] + 1 ELSE ret[t]]
        /\ added' = added \union {<<t, counterN[t]>>}
        /\ UNCHANGED <<global_mutex, counterN, tmp, counter, joined>>
    BY <1>3 DEF Store
  <2>1. tmp[t] = global_counter /\ global_counter \in Nat
    BY <2>0 DEF Counted, CounterTypeOK
  <2>2. /\ <<t, counterN[t]>> \in All /\ <<t, counterN[t]>> \notin added
        /\ Cardinality(added') = global_counter'
        /\ global_counter < Total
    BY <2>0, <2>1, StoreFacts
  <2>3. CounterTypeOK'
    <3>1. added' \subseteq Adders \X (0..(Loops - 1))
      BY <2>0, <2>2 DEF All, CounterTypeOK
    <3>2. QED
      BY <2>0, <2>1, <3>1 DEF CounterTypeOK
  <2>4. CounterMutex'
    BY <2>0 DEF CounterTypeOK, CounterMutex
  <2>5. Counted'
    <3>1. \A u \in Adders, k \in 0..(Loops - 1) : <<u, k>> \in added' <=> Made(u, k)'
      <4> SUFFICES ASSUME NEW u \in Adders, NEW k \in 0..(Loops - 1)
                   PROVE  <<u, k>> \in added' <=> Made(u, k)'
        OBVIOUS
      <4>1. <<u, k>> \in added' <=> (<<u, k>> \in added \/ (u = t /\ k = counterN[t]))
        BY <2>0
      <4>2. <<u, k>> \in added <=> Made(u, k)
        BY DEF Counted
      <4>3. Made(u, k)' <=> (Made(u, k) \/ (u = t /\ k = counterN[t]))
        BY <2>0 DEF Made, CounterTypeOK
      <4>4. QED
        BY <4>1, <4>2, <4>3
    <3>2. \A u \in Adders : counterPc'[u] = "store" => tmp'[u] = global_counter'
      BY <2>0 DEF CounterTypeOK, CounterMutex
    <3>3. QED
      BY <2>0, <2>2, <3>1, <3>2 DEF Counted, CounterTypeOK
  <2>6. Reported'
    <3>1. \A u \in Adders : ret[u] = 0
      BY <2>1, <2>2, TotalFacts DEF Reported
    <3>2. counter = 0
      BY <2>1, <2>2, TotalFacts DEF Reported
    <3>3. \A u \in Adders : u # t => ret'[u] = 0
      BY <2>0, <3>1 DEF CounterTypeOK
    <3>4. ret'[t] = IF global_counter' = Total THEN Total ELSE 0
      BY <2>0, <3>1 DEF CounterTypeOK
    <3>5. counterPc'[t] = "unlock"
      BY <2>0 DEF CounterTypeOK
    <3>6. QED
      BY <2>0, <3>2, <3>3, <3>4, <3>5, TotalFacts DEF Reported
  <2>7. QED
    BY <2>3, <2>4, <2>5, <2>6
<1>4. CASE CounterUnlock(t)
  <2>0. counterPc[t] = "unlock" /\ counterN[t] < Loops /\ counterN[t] \in Nat
    BY <1>4 DEF CounterUnlock, Counted, CounterTypeOK
  <2>1. CounterTypeOK'
    BY <1>4, <2>0 DEF CounterUnlock, CounterTypeOK
  <2>2. CounterMutex'
    BY <1>4 DEF CounterUnlock, CounterTypeOK, CounterMutex
  <2>3. Counted'
    <3>1. \A u \in Adders, k \in 0..(Loops - 1) : Made(u, k)' <=> Made(u, k)
      BY <1>4, <2>0 DEF CounterUnlock, Made, CounterTypeOK
    <3>2. QED
      BY <1>4, <2>0, <3>1 DEF CounterUnlock, Counted, CounterTypeOK
  <2>4. Reported'
    BY <1>4 DEF CounterUnlock, CounterTypeOK, Reported
  <2>5. QED
    BY <2>1, <2>2, <2>3, <2>4
<1>5. CASE CounterReturn(t)
  <2>1. CounterTypeOK'
    BY <1>5 DEF CounterReturn, CounterTypeOK
  <2>2. CounterMutex'
    BY <1>5 DEF CounterReturn, CounterTypeOK, CounterMutex
  <2>3. Counted'
    BY <1>5 DEF CounterReturn, CounterTypeOK, Counted, Made
  <2>4. Reported'
    BY <1>5 DEF CounterReturn, CounterTypeOK, Reported
  <2>5. QED
    BY <2>1, <2>2, <2>3, <2>4
<1>6. QED
  BY <1>1, <1>2, <1>3, <1>4, <1>5 DEF CounterStep

LEMMA NextCInv == CInv /\ [CounterNext]_counterVars => CInv'
<1> SUFFICES ASSUME CInv, [CounterNext]_counterVars PROVE CInv'
  OBVIOUS
<1>1. CASE Join
  BY <1>1 DEF Join, CInv, CounterTypeOK, CounterMutex, Counted, Made, Reported
<1>2. CASE UNCHANGED counterVars
  BY <1>2 DEF counterVars, CInv, CounterTypeOK, CounterMutex, Counted, Made, Reported
<1>3. QED
  BY <1>1, <1>2, StepCInv DEF CounterNext

\* When all adders are done, all increments have been made.
LEMMA AllDone == CInv /\ (\A t \in Adders : counterPc[t] = "done") => counter = Total
<1> SUFFICES ASSUME CInv, \A t \in Adders : counterPc[t] = "done" PROVE counter = Total
  OBVIOUS
<1>1. \A t \in Adders : counterN[t] = Loops
  BY DEF CInv, Counted
<1>2. All \subseteq added
  BY <1>1, AdderAssumption DEF CInv, Counted, Made, All
<1>3. added \subseteq All
  BY DEF CInv, CounterTypeOK, All
<1>4. added = All
  BY <1>2, <1>3
<1>5. global_counter = Total
  BY <1>4, TotalFacts DEF CInv, Counted
<1>6. QED
  BY <1>5 DEF CInv, Reported

\* The host's assert(counter == 4*LOOPS_PER_THREAD) never fails, and exactly the
\* adder that makes the last increment reports, for any number of adders and
\* iterations and any schedule.
THEOREM HostAssertHolds == CounterSpec => []AssertHolds
<1>1. CInv => AssertHolds
  BY AllDone DEF CInv, Reported, AssertHolds
<1>2. QED
  BY <1>1, InitCInv, NextCInv, PTL DEF CounterSpec

\* Every variable keeps its type: global_counter in particular is a natural
\* number that the four threads' unsigned stores keep exact.
THEOREM CounterTypeCorrect == CounterSpec => []CounterTypeOK
<1>1. CInv => CounterTypeOK
  BY DEF CInv
<1>2. QED
  BY <1>1, InitCInv, NextCInv, PTL DEF CounterSpec

-----------------------------------------------------------------------------
(***************************************************************************)
(* The enclave's buffer for every size, number of threads and iterations:  *)
(* it is a bounded FIFO, and no wake-up is lost.                           *)
(***************************************************************************)

PLabels == {"loop", "test", "wait", "unlock", "done"}

BufferMutex == \A t \in Threads : bufferPc[t] \in {"test", "unlock"} <=> mutex = t

Sleepers == \A t \in Threads : t \in more \union less => bufferPc[t] = "wait"

\* Where the ring stands, and what the occupied slots hold.
Ring ==
    /\ nextin = (nextout + occupied) % BUFFER_SIZE
    /\ \A j \in 0..(occupied - 1) :
          buf[(nextout + j) % BUFFER_SIZE] = (nextout + j) % BUFFER_SIZE

BInv == BufferTypeOK /\ BufferMutex /\ Sleepers /\ Ring

-----------------------------------------------------------------------------
(* Arithmetic of the ring: x % B for 0 <= x < 2 * B.                       *)

LEMMA Wrap ==
    ASSUME NEW B \in Nat \ {0}, NEW x \in Nat, x < 2 * B
    PROVE  /\ x % B = IF x < B THEN x ELSE x - B
           /\ x % B \in 0..(B - 1)
<1>1. CASE x < B
  BY <1>1
<1>2. CASE ~(x < B)
  <2>1. (x - B) \in 0..(B - 1) /\ x = 1 * B + (x - B)
    BY <1>2
  <2>2. x % B = x - B
    BY <2>1
  <2>3. QED
    BY <1>2, <2>1, <2>2
<1>3. QED
  BY <1>1, <1>2

\* Positions j steps behind the front are slots; only position 0 is the front.
LEMMA Behind ==
    ASSUME NEW B \in Nat \ {0}, NEW o \in 0..(B - 1), NEW j \in 0..(B - 1)
    PROVE  /\ (o + j) % B \in 0..(B - 1)
           /\ (o + j) % B = o <=> j = 0
<1> DEFINE x == o + j
<1>1. x \in Nat /\ x < 2 * B
  OBVIOUS
<1> HIDE DEF x
<1>2. x % B = (IF x < B THEN x ELSE x - B) /\ x % B \in 0..(B - 1)
  BY <1>1, Wrap
<1> DEFINE y == x % B
<1>3. y = (IF x < B THEN x ELSE x - B) /\ y \in 0..(B - 1)
  BY <1>2
<1> HIDE DEF y
<1>4. y = o <=> j = 0
  BY <1>1, <1>3 DEF x
<1>5. QED
  BY <1>3, <1>4 DEF x, y

\* Moving the front or the back by one.
LEMMA Advance ==
    ASSUME NEW B \in Nat \ {0}, NEW o \in 0..(B - 1), NEW j \in 0..(B - 1)
    PROVE  /\ (((o + j) % B) + 1) % B = (o + (j + 1)) % B
           /\ (((o + 1) % B) + j) % B = (o + (j + 1)) % B
<1> DEFINE W(x) == IF x < B THEN x ELSE x - B
<1>1. \A x \in Nat : x < 2 * B => x % B = W(x)
  BY Wrap
<1>2. (o + j) % B = W(o + j)
  BY <1>1
<1>3. (o + (j + 1)) % B = W(o + (j + 1))
  <2>1. o + (j + 1) \in Nat /\ o + (j + 1) < 2 * B
    OBVIOUS
  <2>2. QED
    BY <1>1, <2>1
<1>4. (W(o + j) + 1) % B = W(W(o + j) + 1)
  <2>1. W(o + j) + 1 \in Nat /\ W(o + j) + 1 < 2 * B
    OBVIOUS
  <2>2. QED
    BY <1>1, <2>1
<1>5. (o + 1) % B = W(o + 1)
  <2>1. o + 1 \in Nat /\ o + 1 < 2 * B
    OBVIOUS
  <2>2. QED
    BY <1>1, <2>1
<1>6. (W(o + 1) + j) % B = W(W(o + 1) + j)
  <2>1. W(o + 1) + j \in Nat /\ W(o + 1) + j < 2 * B
    OBVIOUS
  <2>2. QED
    BY <1>1, <2>1
<1>7. W(W(o + j) + 1) = W(o + (j + 1)) /\ W(W(o + 1) + j) = W(o + (j + 1))
  OBVIOUS
<1> HIDE DEF W
<1>8. QED
  BY <1>2, <1>3, <1>4, <1>5, <1>6, <1>7

LEMMA InitBInv == BufferInit => BInv
<1> SUFFICES ASSUME BufferInit PROVE BInv
  OBVIOUS
<1> USE BufferAssumption
<1>1. 0 \in BufferSlots
  BY DEF BufferSlots
<1>2. BufferTypeOK
  <2>1. buf \in [BufferSlots -> BufferSlots] /\ nextin \in BufferSlots /\ nextout \in BufferSlots
    BY <1>1 DEF BufferInit
  <2>2. bufferPc \in [Threads -> PLabels] /\ bufferN \in [Threads -> Nat]
    BY DEF BufferInit, PLabels
  <2>3. QED
    BY <2>1, <2>2 DEF BufferInit, BufferTypeOK, PLabels
<1>3. BufferMutex /\ Sleepers
  BY DEF BufferInit, BufferMutex, Sleepers
<1>4. Ring
  BY Behind DEF BufferInit, Ring
<1>5. QED
  BY <1>2, <1>3, <1>4 DEF BInv

\* A put in terms of the ring.
LEMMA PutRing ==
    ASSUME BInv, NEW t \in Threads, Produce(t)
    PROVE  Ring' /\ buf' \in [BufferSlots -> BufferSlots] /\ nextin' \in BufferSlots /\ occupied' \in 0..BUFFER_SIZE
<1> DEFINE B == BUFFER_SIZE
<1>1. /\ B \in Nat \ {0} /\ occupied \in 0..(B - 1) /\ nextout \in 0..(B - 1)
      /\ occupied' = occupied + 1 /\ nextout' = nextout
      /\ occupied' \in 0..B
  BY BufferAssumption DEF Produce, BInv, BufferTypeOK, BufferSlots
<1>2. nextin = (nextout + occupied) % B /\ nextin' = (nextin + 1) % B
  BY DEF BInv, Ring, Produce
<1>3. \A j \in 0..(occupied - 1) : buf[(nextout + j) % B] = (nextout + j) % B
  BY DEF BInv, Ring
<1>4. buf' = [buf EXCEPT ![nextin] = nextin] /\ buf \in [BufferSlots -> BufferSlots] /\ nextin \in BufferSlots
  BY DEF Produce, BInv, BufferTypeOK
<1>5. BufferSlots = 0..(B - 1)
  BY DEF BufferSlots
<1> HIDE DEF B
<1>6. nextin' = (nextout' + occupied') % B
  BY <1>1, <1>2, Advance
<1>7. nextin' \in BufferSlots
  <2>1. nextin + 1 \in Nat /\ nextin + 1 < 2 * B
    BY <1>1, <1>4, <1>5
  <2>2. QED
    BY <1>1, <1>2, <1>5, <2>1, Wrap
<1>8. \A j \in 0..(occupied' - 1) : buf'[(nextout' + j) % B] = (nextout' + j) % B
  <2> SUFFICES ASSUME NEW j \in 0..occupied
               PROVE  buf'[(nextout + j) % B] = (nextout + j) % B
    BY <1>1
  <2>1. (nextout + j) % B \in BufferSlots
    BY <1>1, <1>5, Behind
  <2>2. j # occupied => buf[(nextout + j) % B] = (nextout + j) % B
    <3>1. j # occupied => j \in 0..(occupied - 1)
      BY <1>1
    <3>2. QED
      BY <1>3, <3>1
  <2>3. j = occupied => (nextout + j) % B = nextin
    BY <1>2
  <2> DEFINE y == (nextout + j) % B
  <2>4. y \in BufferSlots /\ (buf[y] = y \/ y = nextin)
    BY <2>1, <2>2, <2>3
  <2> HIDE DEF y
  <2>5. buf'[y] = y
    BY <1>4, <2>4
  <2>6. QED
    BY <2>5 DEF y
<1>9. buf' \in [BufferSlots -> BufferSlots]
  BY <1>4
<1>10. QED
  BY <1>1, <1>6, <1>7, <1>8, <1>9 DEF Ring, B

\* A get in terms of the ring: position j from the new front was position
\* j + 1 from the old one.
LEMMA GetRing ==
    ASSUME BInv, NEW t \in Threads, Consume(t)
    PROVE  Ring' /\ buf' \in [BufferSlots -> BufferSlots] /\ nextout' \in BufferSlots /\ occupied' \in 0..BUFFER_SIZE
<1> DEFINE B == BUFFER_SIZE
<1>1. /\ B \in Nat \ {0} /\ occupied \in 1..B /\ nextout \in 0..(B - 1)
      /\ occupied' = occupied - 1 /\ nextin' = nextin
      /\ occupied' \in 0..(B - 1)
  BY BufferAssumption DEF Consume, BInv, BufferTypeOK, BufferSlots
<1>2. nextin = (nextout + occupied) % B /\ nextout' = (nextout + 1) % B
  BY DEF BInv, Ring, Consume
<1>3. \A j \in 0..(occupied - 1) : buf[(nextout + j) % B] = (nextout + j) % B
  BY DEF BInv, Ring
<1>4. buf' = [buf EXCEPT ![nextout] = 0] /\ buf \in [BufferSlots -> BufferSlots] /\ 0 \in BufferSlots
  BY BufferAssumption DEF Consume, BInv, BufferTypeOK, BufferSlots
<1>5. BufferSlots = 0..(B - 1)
  BY DEF BufferSlots
<1> HIDE DEF B
<1>6. \A j \in 0..(B - 1) : (nextout' + j) % B = (nextout + (j + 1)) % B
  BY <1>1, <1>2, Advance
<1>7. nextin' = (nextout' + occupied') % B
  <2>1. (nextout' + occupied') % B = (nextout + (occupied' + 1)) % B
    BY <1>1, <1>6
  <2>2. occupied' + 1 = occupied
    BY <1>1
  <2>3. QED
    BY <1>1, <1>2, <2>1, <2>2
<1>8. nextout' \in BufferSlots
  <2>1. nextout + 1 \in Nat /\ nextout + 1 < 2 * B
    BY <1>1
  <2>2. QED
    BY <1>1, <1>2, <1>5, <2>1, Wrap
<1>9. \A j \in 0..(occupied' - 1) : buf'[(nextout' + j) % B] = (nextout' + j) % B
  <2> SUFFICES ASSUME NEW j \in 0..(occupied - 2)
               PROVE  buf'[(nextout' + j) % B] = (nextout' + j) % B
    BY <1>1
  <2> DEFINE k == j + 1
  <2>1. j \in 0..(B - 1) /\ k \in 0..(occupied - 1) /\ k \in 0..(B - 1) /\ k # 0
    BY <1>1
  <2>2. (nextout' + j) % B = (nextout + k) % B
    BY <1>6, <2>1
  <2> HIDE DEF k
  <2>3. buf[(nextout + k) % B] = (nextout + k) % B
    BY <1>3, <2>1
  <2>4. (nextout + k) % B \in BufferSlots /\ (nextout + k) % B # nextout
    BY <1>1, <1>5, <2>1, Behind
  <2>5. QED
    BY <1>4, <2>2, <2>3, <2>4
<1>10. buf' \in [BufferSlots -> BufferSlots]
  BY <1>4
<1>11. occupied' \in 0..B
  BY <1>1
<1>12. QED
  BY <1>7, <1>8, <1>9, <1>10, <1>11 DEF Ring, B

-----------------------------------------------------------------------------
LEMMA StepBInv ==
    ASSUME BInv, NEW t \in Threads, BufferStep(t)
    PROVE  BInv'
<1> USE BufferAssumption DEF BufferGoto
<1>t. /\ bufferPc \in [Threads -> PLabels] /\ bufferN \in [Threads -> Nat]
      /\ Producers \subseteq Threads /\ Consumers \subseteq Threads
  BY DEF BInv, BufferTypeOK, PLabels, Threads
<1>1. CASE BufferLock(t) \/ Relock(t) \/ WaitLess(t) \/ WaitMore(t) \/ BufferUnlock(t) \/ BufferReturn(t)
  <2>1. Ring'
    BY <1>1 DEF BufferLock, Relock, WaitLess, WaitMore, BufferUnlock, BufferReturn, ring, BInv, Ring
  <2>2. BufferTypeOK'
    BY <1>1, <1>t DEF BufferLock, Relock, WaitLess, WaitMore, BufferUnlock, BufferReturn, ring, BInv, BufferTypeOK, PLabels
  <2>3. BufferMutex'
    BY <1>1, <1>t DEF BufferLock, Relock, WaitLess, WaitMore, BufferUnlock, BufferReturn, BInv, BufferMutex
  <2>4. Sleepers'
    BY <1>1, <1>t DEF BufferLock, Relock, WaitLess, WaitMore, BufferUnlock, BufferReturn, BInv, Sleepers
  <2>5. QED
    BY <2>1, <2>2, <2>3, <2>4 DEF BInv
<1>2. CASE Produce(t)
  <2>1. more' \subseteq more
    BY <1>2 DEF Produce, Signalled
  <2>2. BufferTypeOK'
    BY <1>2, <1>t, <2>1, PutRing DEF Produce, BInv, BufferTypeOK, PLabels
  <2>3. BufferMutex'
    BY <1>2, <1>t DEF Produce, BInv, BufferMutex
  <2>4. Sleepers'
    BY <1>2, <1>t, <2>1 DEF Produce, BInv, Sleepers
  <2>5. QED
    BY <1>2, <2>2, <2>3, <2>4, PutRing DEF BInv
<1>3. CASE Consume(t)
  <2>1. less' \subseteq less
    BY <1>3 DEF Consume, Signalled
  <2>2. BufferTypeOK'
    BY <1>3, <1>t, <2>1, GetRing DEF Consume, BInv, BufferTypeOK, PLabels
  <2>3. BufferMutex'
    BY <1>3, <1>t DEF Consume, BInv, BufferMutex
  <2>4. Sleepers'
    BY <1>3, <1>t, <2>1 DEF Consume, BInv, Sleepers
  <2>5. QED
    BY <1>3, <2>2, <2>3, <2>4, GetRing DEF BInv
<1>4. QED
  BY <1>1, <1>2, <1>3 DEF BufferStep

LEMMA NextBInv == BInv /\ [BufferNext]_bufferVars => BInv'
<1> SUFFICES ASSUME BInv, [BufferNext]_bufferVars PROVE BInv'
  OBVIOUS
<1>1. CASE UNCHANGED bufferVars
  BY <1>1 DEF bufferVars, ring, BInv, BufferTypeOK, BufferMutex, Sleepers, Ring
<1>2. QED
  BY <1>1, StepBInv DEF BufferNext

\* No index leaves the buffer and 0 <= occupied <= BUFFER_SIZE, always.
THEOREM BufferTypeCorrect == BufferSpec => []BufferTypeOK
<1>1. BInv => BufferTypeOK
  BY DEF BInv
<1>2. QED
  BY <1>1, InitBInv, NextBInv, PTL DEF BufferSpec

-----------------------------------------------------------------------------
(* The ring as a queue.  Under BInv, Contents is the sequence of the       *)
(* occupied positions, oldest first.                                       *)

Queue ==
    /\ Contents \in Seq(BufferSlots) /\ Len(Contents) = occupied
    /\ \A j \in 1..occupied : Contents[j] = (nextout + (j - 1)) % BUFFER_SIZE

LEMMA ContentsIs == BInv => Queue
<1> SUFFICES ASSUME BInv PROVE Queue
  OBVIOUS
<1> DEFINE B == BUFFER_SIZE
<1>1. /\ B \in Nat \ {0} /\ occupied \in 0..B /\ nextout \in 0..(B - 1)
      /\ BufferSlots = 0..(B - 1)
  BY BufferAssumption DEF BInv, BufferTypeOK, BufferSlots
<1>2. \A j \in 0..(occupied - 1) : buf[(nextout + j) % B] = (nextout + j) % B
  BY DEF BInv, Ring
<1>3. Contents = [j \in 1..occupied |-> buf[(nextout + j - 1) % B]]
  BY DEF Contents
<1> HIDE DEF B
<1>4. ASSUME NEW j \in 1..occupied
      PROVE  /\ Contents[j] = (nextout + (j - 1)) % B
             /\ Contents[j] \in BufferSlots
  <2>1. nextout + j - 1 = nextout + (j - 1) /\ j - 1 \in 0..(occupied - 1) /\ j - 1 \in 0..(B - 1)
    BY <1>1
  <2>2. Contents[j] = buf[(nextout + (j - 1)) % B]
    BY <1>3, <2>1
  <2>3. (nextout + (j - 1)) % B \in BufferSlots
    BY <1>1, <2>1, Behind
  <2>4. QED
    BY <1>2, <2>1, <2>2, <2>3
<1>5. Contents \in [1..occupied -> BufferSlots]
  BY <1>3, <1>4
<1>6. Contents \in Seq(BufferSlots) /\ Len(Contents) = occupied
  BY <1>1, <1>5
<1>7. QED
  BY <1>4, <1>6 DEF B, Queue

LEMMA PutIsAppend ==
    ASSUME BInv, BInv', NEW t \in Threads, Produce(t)
    PROVE  Fifo!Put
<1> DEFINE B == BUFFER_SIZE
<1>1. /\ B \in Nat \ {0} /\ occupied \in 0..(B - 1) /\ nextin \in BufferSlots
      /\ occupied' = occupied + 1 /\ nextout' = nextout
      /\ nextin' = (nextin + 1) % B
      /\ nextin = (nextout + occupied) % B
  BY BufferAssumption DEF Produce, BInv, BufferTypeOK, Ring
<1>2. /\ Contents \in Seq(BufferSlots) /\ Len(Contents) = occupied
      /\ \A j \in 1..occupied : Contents[j] = (nextout + (j - 1)) % B
  BY ContentsIs DEF Queue
<1>3. /\ Contents' \in Seq(BufferSlots) /\ Len(Contents') = occupied'
      /\ \A j \in 1..occupied' : Contents'[j] = (nextout' + (j - 1)) % B
  <2>1. Queue'
    BY ContentsIs, PTL
  <2>2. QED
    BY <2>1 DEF Queue
<1> DEFINE s == Contents  s1 == Contents'  a == Append(s, nextin)
<1> HIDE DEF B
<1>4. /\ a \in Seq(BufferSlots) /\ Len(a) = occupied + 1
      /\ \A j \in 1..occupied : a[j] = s[j]
      /\ a[occupied + 1] = nextin
  BY <1>1, <1>2, AppendProperties
<1> HIDE DEF s, s1, a
<1>5. ASSUME NEW j \in 1..Len(s1) PROVE s1[j] = a[j]
  <2>1. s1[j] = (nextout + (j - 1)) % B
    BY <1>1, <1>3 DEF s1
  <2>2. CASE j \in 1..occupied
    BY <1>2, <1>4, <2>1, <2>2 DEF s
  <2>3. CASE j = occupied + 1
    <3>1. j - 1 = occupied
      BY <1>1, <2>3
    <3>2. QED
      BY <1>1, <1>4, <2>1, <2>3, <3>1
  <2>4. QED
    BY <1>1, <1>3, <2>2, <2>3 DEF s1
<1>6. s1 = a
  BY <1>1, <1>3, <1>4, <1>5, SeqEqual DEF s1
<1>7. Len(Contents) < B
  BY <1>1, <1>2
<1>8. QED
  BY <1>1, <1>6, <1>7 DEF Fifo!Put, s, s1, a, B

LEMMA GetIsTail ==
    ASSUME BInv, BInv', NEW t \in Threads, Consume(t)
    PROVE  Fifo!Get
<1> DEFINE B == BUFFER_SIZE
<1>1. /\ B \in Nat \ {0} /\ occupied \in 1..B /\ nextout \in 0..(B - 1)
      /\ occupied' = occupied - 1 /\ nextin' = nextin
      /\ nextout' = (nextout + 1) % B
  BY BufferAssumption DEF Consume, BInv, BufferTypeOK, BufferSlots
<1>2. /\ Contents \in Seq(BufferSlots) /\ Len(Contents) = occupied
      /\ \A j \in 1..occupied : Contents[j] = (nextout + (j - 1)) % B
  BY ContentsIs DEF Queue
<1>3. /\ Contents' \in Seq(BufferSlots) /\ Len(Contents') = occupied'
      /\ \A j \in 1..occupied' : Contents'[j] = (nextout' + (j - 1)) % B
  <2>1. Queue'
    BY ContentsIs, PTL
  <2>2. QED
    BY <2>1 DEF Queue
<1> DEFINE s == Contents  s1 == Contents'  a == Tail(s)
<1> HIDE DEF B
<1>4. s # << >>
  BY <1>1, <1>2
<1>5. /\ a \in Seq(BufferSlots) /\ Len(a) = occupied - 1
      /\ \A j \in 1..(occupied - 1) : a[j] = s[j + 1]
  BY <1>1, <1>2, <1>4, HeadTailProperties
<1> HIDE DEF s, s1, a
<1>6. ASSUME NEW j \in 1..Len(s1) PROVE s1[j] = a[j]
  <2>1. j \in 1..(occupied - 1) /\ j + 1 \in 1..occupied /\ j - 1 \in 0..(B - 1)
    BY <1>1, <1>3 DEF s1
  <2>2. s1[j] = (((nextout + 1) % B) + (j - 1)) % B
    BY <1>1, <1>3, <2>1 DEF s1
  <2>3. a[j] = (nextout + ((j + 1) - 1)) % B
    BY <1>2, <1>5, <2>1 DEF s
  <2>4. (((nextout + 1) % B) + (j - 1)) % B = (nextout + ((j - 1) + 1)) % B
    BY <1>1, <2>1, Advance
  <2>5. (j + 1) - 1 = (j - 1) + 1
    BY <2>1
  <2>6. QED
    BY <2>2, <2>3, <2>4, <2>5
<1>7. s1 = a
  BY <1>1, <1>3, <1>5, <1>6, SeqEqual DEF s1
<1>8. QED
  BY <1>1, <1>4, <1>7 DEF Fifo!Get, s, s1, a

\* The buffer implements the bounded queue, for every BUFFER_SIZE and every
\* number of producers and consumers: each step of a thread is a put, a get
\* or invisible.
THEOREM BufferIsFifo == BufferSpec => IsFifo
<1>1. BufferInit => Fifo!Init
  <2> SUFFICES ASSUME BufferInit PROVE Contents = << >> /\ nextin = 0
    BY DEF Fifo!Init
  <2>1. BInv
    BY InitBInv
  <2>2. Contents \in Seq(BufferSlots) /\ Len(Contents) = 0
    BY <2>1, ContentsIs DEF BufferInit, Queue
  <2>3. QED
    BY <2>2 DEF BufferInit
<1>2. BInv /\ BInv' /\ [BufferNext]_bufferVars => [Fifo!Next]_(Fifo!fifo)
  <2> SUFFICES ASSUME BInv, BInv', [BufferNext]_bufferVars
               PROVE  Fifo!Next \/ (Contents' = Contents /\ nextin' = nextin)
    BY DEF Fifo!fifo
  <2>1. CASE UNCHANGED ring
    BY <2>1 DEF ring, Contents
  <2>2. CASE UNCHANGED bufferVars
    BY <2>1, <2>2 DEF bufferVars
  <2>3. ASSUME NEW t \in Threads, BufferStep(t) PROVE Fifo!Next \/ UNCHANGED ring
    BY <2>3, PutIsAppend, GetIsTail
       DEF BufferStep, BufferLock, Relock, WaitLess, WaitMore, BufferUnlock, BufferReturn, Fifo!Next
  <2>4. QED
    BY <2>1, <2>2, <2>3 DEF BufferNext
<1>3. QED
  BY <1>1, <1>2, InitBInv, NextBInv, PTL DEF BufferSpec, IsFifo, Fifo!Spec

-----------------------------------------------------------------------------
(* Nobody is left asleep: the count of NoLostWakeup is inductive with BInv. *)

\* A set that gains or loses one element, at most.
LEMMA CountUp ==
    ASSUME NEW A, NEW A1, NEW u, IsFiniteSet(A1), u \notin A, A \union {u} \subseteq A1
    PROVE  Cardinality(A) \in Nat /\ Cardinality(A1) \in Nat /\ Cardinality(A1) >= Cardinality(A) + 1
<1>1. A \subseteq A1
  OBVIOUS
<1>2. IsFiniteSet(A) /\ IsFiniteSet(A \union {u})
  BY <1>1, FS_Subset
<1>3. Cardinality(A \union {u}) = Cardinality(A) + 1
  BY <1>2, FS_AddElement
<1>4. Cardinality(A \union {u}) <= Cardinality(A1)
  BY FS_Subset
<1>5. QED
  BY <1>2, <1>3, <1>4, FS_CardinalityType

LEMMA CountDown ==
    ASSUME NEW A, NEW A1, NEW u, IsFiniteSet(A), IsFiniteSet(A1), A \ {u} \subseteq A1
    PROVE  Cardinality(A) \in Nat /\ Cardinality(A1) \in Nat /\ Cardinality(A1) >= Cardinality(A) - 1
<1>1. IsFiniteSet(A \ {u}) /\ Cardinality(A \ {u}) \in {Cardinality(A), Cardinality(A) - 1}
  BY FS_RemoveElement
<1>2. Cardinality(A \ {u}) <= Cardinality(A1)
  BY FS_Subset
<1>3. QED
  BY <1>1, <1>2, FS_CardinalityType

LEMMA CountSame ==
    ASSUME NEW A, NEW A1, IsFiniteSet(A1), A \subseteq A1
    PROVE  Cardinality(A) \in Nat /\ Cardinality(A1) \in Nat /\ Cardinality(A1) >= Cardinality(A)
  BY FS_Subset, FS_CardinalityType

LEMMA AwakeFinite ==
    /\ IsFiniteSet(Awake(Producers)) /\ IsFiniteSet(Awake(Consumers))
    /\ IsFiniteSet(Awake(Producers)') /\ IsFiniteSet(Awake(Consumers)')
<1>1. /\ Awake(Producers) \subseteq Producers /\ Awake(Consumers) \subseteq Consumers
      /\ Awake(Producers)' \subseteq Producers /\ Awake(Consumers)' \subseteq Consumers
  BY DEF Awake
<1>2. QED
  BY <1>1, BufferAssumption, FS_Subset

LEMMA StepNoLost ==
    ASSUME BInv, BInv', NoLostWakeup, NEW t \in Threads, BufferStep(t)
    PROVE  NoLostWakeup'
<1> USE DEF BufferGoto
<1>t. /\ bufferPc \in [Threads -> PLabels] /\ bufferN \in [Threads -> Nat]
      /\ Producers \subseteq Threads /\ Consumers \subseteq Threads
      /\ Producers \intersect Consumers = {}
      /\ more \subseteq Consumers /\ less \subseteq Producers
      /\ BUFFER_SIZE \in Nat /\ occupied \in 0..BUFFER_SIZE
      /\ \A u \in more \union less : bufferPc[u] = "wait"
      /\ Puts \in Nat /\ Gets \in Nat
  BY BufferAssumption DEF BInv, BufferTypeOK, PLabels, Threads, Sleepers
<1> DEFINE AP == Awake(Producers)  AC == Awake(Consumers)
           AP1 == Awake(Producers)'  AC1 == Awake(Consumers)'
<1>f. IsFiniteSet(AP) /\ IsFiniteSet(AC) /\ IsFiniteSet(AP1) /\ IsFiniteSet(AC1)
  BY AwakeFinite
<1>bufferN. /\ more # {} => occupied <= Cardinality(AC)
            /\ less # {} => BUFFER_SIZE - occupied <= Cardinality(AP)
  BY DEF NoLostWakeup
<1>g. SUFFICES /\ more' # {} => occupied' <= Cardinality(AC1)
               /\ less' # {} => BUFFER_SIZE - occupied' <= Cardinality(AP1)
  BY DEF NoLostWakeup
<1>1. CASE BufferLock(t) \/ Relock(t) \/ BufferUnlock(t) \/ BufferReturn(t)
  <2>1. more' = more /\ less' = less /\ occupied' = occupied
    BY <1>1 DEF BufferLock, Relock, BufferUnlock, BufferReturn, ring
  <2>2. AP \subseteq AP1 /\ AC \subseteq AC1
    BY <1>1, <1>t DEF BufferLock, Relock, BufferUnlock, BufferReturn, Awake, Iterations
  <2> HIDE DEF AP, AC, AP1, AC1
  <2>3. Cardinality(AP1) >= Cardinality(AP) /\ Cardinality(AC1) >= Cardinality(AC)
    BY <1>f, <2>2, CountSame
  <2>4. /\ Cardinality(AP) \in Nat /\ Cardinality(AC) \in Nat
        /\ Cardinality(AP1) \in Nat /\ Cardinality(AC1) \in Nat
    BY <1>f, FS_CardinalityType
  <2>5. QED
    BY <1>bufferN, <1>t, <2>1, <2>3, <2>4
<1>2. CASE WaitLess(t)
  <2>1. more' = more /\ occupied' = occupied /\ occupied = BUFFER_SIZE
    BY <1>2, <1>t DEF WaitLess, ring
  <2>2. AC \subseteq AC1
    BY <1>2, <1>t DEF WaitLess, Awake
  <2> HIDE DEF AP, AC, AP1, AC1
  <2>3. Cardinality(AC1) >= Cardinality(AC) /\ Cardinality(AC) \in Nat /\ Cardinality(AC1) \in Nat
    BY <1>f, <2>2, CountSame
  <2>4. Cardinality(AP1) \in Nat
    BY <1>f, FS_CardinalityType
  <2>5. QED
    BY <1>bufferN, <1>t, <2>1, <2>3, <2>4
<1>3. CASE WaitMore(t)
  <2>1. less' = less /\ occupied' = occupied /\ occupied = 0
    BY <1>3, <1>t DEF WaitMore, ring
  <2>2. AP \subseteq AP1
    BY <1>3, <1>t DEF WaitMore, Awake
  <2> HIDE DEF AP, AC, AP1, AC1
  <2>3. Cardinality(AP1) >= Cardinality(AP) /\ Cardinality(AP) \in Nat /\ Cardinality(AP1) \in Nat
    BY <1>f, <2>2, CountSame
  <2>4. Cardinality(AC1) \in Nat
    BY <1>f, FS_CardinalityType
  <2>5. QED
    BY <1>bufferN, <1>t, <2>1, <2>3, <2>4
<1>4. CASE Produce(t)
  <2>1. occupied' = occupied + 1 /\ less' = less /\ t \in Producers
    BY <1>4 DEF Produce
  <2>2. AP \ {t} \subseteq AP1
    <3>1. more' \subseteq more
      BY <1>4 DEF Produce, Signalled
    <3>2. QED
      BY <1>4, <1>t, <3>1 DEF Produce, Awake, Iterations
  <2>3. more' # {} => \E u \in more : more' = more \ {u}
    BY <1>4 DEF Produce, Signalled
  <2>4. ASSUME NEW u \in more, more' = more \ {u}
        PROVE  u \notin AC /\ AC \union {u} \subseteq AC1
    <3>1. u \notin AC
      BY <1>t DEF Awake
    <3>2. AC \union {u} \subseteq AC1
      BY <1>4, <1>t, <2>4 DEF Produce, Awake, Iterations
    <3>3. QED
      BY <3>1, <3>2
  <2> HIDE DEF AP, AC, AP1, AC1
  <2>5. more' # {} => /\ Cardinality(AC) \in Nat /\ Cardinality(AC1) \in Nat
                      /\ Cardinality(AC1) >= Cardinality(AC) + 1
    BY <1>f, <2>3, <2>4, CountUp
  <2>6. /\ Cardinality(AP) \in Nat /\ Cardinality(AP1) \in Nat
        /\ Cardinality(AP1) >= Cardinality(AP) - 1
    BY <1>f, <2>2, CountDown
  <2>7. more' # {} => more # {}
    BY <2>3
  <2>8. QED
    BY <1>bufferN, <1>t, <2>1, <2>5, <2>6, <2>7
<1>5. CASE Consume(t)
  <2>1. occupied' = occupied - 1 /\ more' = more /\ t \in Consumers
    BY <1>5 DEF Consume
  <2>2. AC \ {t} \subseteq AC1
    <3>1. less' \subseteq less
      BY <1>5 DEF Consume, Signalled
    <3>2. QED
      BY <1>5, <1>t, <3>1 DEF Consume, Awake, Iterations
  <2>3. less' # {} => \E u \in less : less' = less \ {u}
    BY <1>5 DEF Consume, Signalled
  <2>4. ASSUME NEW u \in less, less' = less \ {u}
        PROVE  u \notin AP /\ AP \union {u} \subseteq AP1
    <3>1. u \notin AP
      BY <1>t DEF Awake
    <3>2. AP \union {u} \subseteq AP1
      BY <1>5, <1>t, <2>4 DEF Consume, Awake, Iterations
    <3>3. QED
      BY <3>1, <3>2
  <2> HIDE DEF AP, AC, AP1, AC1
  <2>5. less' # {} => /\ Cardinality(AP) \in Nat /\ Cardinality(AP1) \in Nat
                      /\ Cardinality(AP1) >= Cardinality(AP) + 1
    BY <1>f, <2>3, <2>4, CountUp
  <2>6. /\ Cardinality(AC) \in Nat /\ Cardinality(AC1) \in Nat
        /\ Cardinality(AC1) >= Cardinality(AC) - 1
    BY <1>f, <2>2, CountDown
  <2>7. less' # {} => less # {}
    BY <2>3
  <2>8. QED
    BY <1>bufferN, <1>t, <2>1, <2>5, <2>6, <2>7
<1>6. QED
  BY <1>1, <1>2, <1>3, <1>4, <1>5 DEF BufferStep

\* Signalling one waiter per put and get is enough, for every number of
\* threads, every number of iterations and every BUFFER_SIZE.
THEOREM WakeupsSuffice == BufferSpec => []NoLostWakeup
<1>1. BufferInit => NoLostWakeup
  BY DEF BufferInit, NoLostWakeup
<1>2. BInv /\ BInv' /\ NoLostWakeup /\ [BufferNext]_bufferVars => NoLostWakeup'
  <2> SUFFICES ASSUME BInv, BInv', NoLostWakeup, [BufferNext]_bufferVars PROVE NoLostWakeup'
    OBVIOUS
  <2>1. CASE UNCHANGED bufferVars
    BY <2>1 DEF bufferVars, ring, NoLostWakeup, Awake
  <2>2. QED
    BY <2>1, StepNoLost DEF BufferNext
<1>3. QED
  BY <1>1, <1>2, InitBInv, NextBInv, PTL DEF BufferSpec

-----------------------------------------------------------------------------
(***************************************************************************)
(* The host program for any number of interrupts, at whichever step they   *)
(* come: with two SSA frames, the default of the SDK, or more, every entry *)
(* finds a frame, the faults it provoked are all handled, and each report  *)
(* shows the thread it is meant to show.                                   *)
(***************************************************************************)

\* Which rights the pages have, and how many faults were handled, at each
\* step of main.
Rights ==
    /\ hostPc \in 1..3 => granted = HostPages /\ fault_fired = 0
    /\ hostPc = 4 => granted = {"code"} /\ fault_fired = 0
    /\ hostPc \in 5..6 => granted = {} /\ fault_fired = 0
    /\ hostPc = 7 => (granted = {} /\ fault_fired = 0) \/ (granted = {"data"} /\ fault_fired = 1)
    /\ hostPc = 8 => granted = {"data"} /\ fault_fired = 1
    /\ hostPc = 9 => \/ granted = {"data"} /\ fault_fired = 1
                     \/ granted = HostPages /\ fault_fired = 2
    /\ hostPc > 9 => granted = HostPages /\ fault_fired = 2

\* The handler and the callback are installed where they are needed.
Installed == (hostPc > 5 => handler = TRUE) /\ (hostPc > 6 => callback = TRUE)

\* The states of the enclave's thread: not in it; in addint, or interrupted
\* there; in a report of the callback, or interrupted there; and in one of
\* main's own reports at the end.
NotInside == within = <<>> /\ cssa = 0 /\ outside = "none"
InAddint ==
    /\ hostPc = 10 /\ within = <<"addint">>
    /\ \/ cssa = 0 /\ outside = "none"
       \/ cssa = 1 /\ outside \in {"aep", "cb", "cb2"}
       \/ cssa = 1 /\ outside = "resume" /\ output = "interrupted"
InCallback ==
    /\ hostPc = 10 /\ (within = <<"addint", "report1">> \/ within = <<"addint", "report2">>)
    /\ \/ cssa = 1 /\ outside = "none"
       \/ cssa = 2 /\ outside \in {"aep", "resume"}
InReport ==
    /\ (hostPc = 15 /\ within = <<"report1">>) \/ (hostPc = 16 /\ within = <<"report2">>)
    /\ \/ cssa = 0 /\ outside = "none"
       \/ cssa = 1 /\ outside \in {"aep", "resume"}

\* The inductive invariant.
HostInv ==
    /\ hostPc \in 1..19 /\ failed = FALSE
    /\ Rights /\ Installed
    /\ NotInside \/ InAddint \/ InCallback \/ InReport
    /\ hostPc > 15 => output = "idle"

\* The step main is at.
LEMMA StepAt ==
    ASSUME HostInv, NEW s, HostAt(s)
    PROVE  /\ hostPc \in 1..18
           /\ s = Steps[hostPc]
           /\ s \in {"create", "dry_run"} => hostPc \in 1..2
           /\ s = "revoke_data" => hostPc = 3
           /\ s = "revoke_code" => hostPc = 4
           /\ s = "sigaction" => hostPc = 5
           /\ s = "register_aep" => hostPc = 6
           /\ s = "memset_data" => hostPc = 7
           /\ s = "copy_data" => hostPc = 8
           /\ s = "copy_code" => hostPc = 9
           /\ s = "addint" => hostPc = 10
           /\ s \in {"0xaa", "0xbb", "0xdd", "thread"} => hostPc \in 11..14
           /\ s = "report1" => hostPc = 15
           /\ s = "report2" => hostPc = 16
           /\ s \in {"0xcc", "destroy"} => hostPc \in 17..18
  BY DEF HostInv, HostAt, Steps

\* What the steps of the enclave's thread make of the calls in progress.
LEMMA Stack ==
    /\ \A c : Append(<<>>, c) = <<c>>
    /\ \A c, d : Append(<<c>>, d) = <<c, d>>
    /\ \A c : SubSeq(<<c>>, 1, 0) = <<>>
    /\ \A c, d : SubSeq(<<c, d>>, 1, 1) = <<c>>
    /\ \A c : Len(<<c>>) = 1 /\ <<c>>[1] = c
    /\ \A c, d : Len(<<c, d>>) = 2 /\ <<c, d>>[2] = d
    /\ Len(<<>>) = 0
<1>1. \A c : Append(<<>>, c) = <<c>>
  OBVIOUS
<1>2. ASSUME NEW c, NEW d PROVE Append(<<c>>, d) = <<c, d>>
  <2> DEFINE s == Append(<<c>>, d)
             t == <<c, d>>
  <2>1. <<c>> \in Seq({c, d}) /\ d \in {c, d} /\ Len(<<c>>) = 1 /\ <<c>>[1] = c
    OBVIOUS
  <2>2. t \in Seq({c, d}) /\ Len(t) = 2 /\ t[1] = c /\ t[2] = d
    OBVIOUS
  <2>3. s \in Seq({c, d}) /\ Len(s) = 2 /\ s[1] = c /\ s[2] = d
    BY <2>1, AppendProperties
  <2> HIDE DEF s, t
  <2>4. \A k \in 1..Len(s) : s[k] = t[k]
    BY <2>2, <2>3
  <2>5. s = t
    BY <2>2, <2>3, <2>4, SeqEqual
  <2>6. QED
    BY <2>5 DEF s, t
<1>3. \A c : SubSeq(<<c>>, 1, 0) = <<>>
  OBVIOUS
<1>4. ASSUME NEW c, NEW d PROVE SubSeq(<<c, d>>, 1, 1) = <<c>>
  <2> DEFINE s == SubSeq(<<c, d>>, 1, 1)
             t == <<c>>
  <2>1. \A k \in 1..1 : <<c, d>>[k] \in {c, d}
    OBVIOUS
  <2>2. t \in Seq({c, d}) /\ Len(t) = 1 /\ t[1] = c
    OBVIOUS
  <2>3. s \in Seq({c, d}) /\ Len(s) = 1 /\ s[1] = c
    BY <2>1, SubSeqProperties
  <2> HIDE DEF s, t
  <2>4. \A k \in 1..Len(s) : s[k] = t[k]
    BY <2>2, <2>3
  <2>5. s = t
    BY <2>2, <2>3, <2>4, SeqEqual
  <2>6. QED
    BY <2>5 DEF s, t
<1>5. \A c : Len(<<c>>) = 1 /\ <<c>>[1] = c
  OBVIOUS
<1>6. \A c, d : Len(<<c, d>>) = 2 /\ <<c, d>>[2] = d
  OBVIOUS
<1>7. Len(<<>>) = 0
  OBVIOUS
<1>8. QED
  BY <1>1, <1>2, <1>3, <1>4, <1>5, <1>6, <1>7

-----------------------------------------------------------------------------
LEMMA InitHostInv == HostInit => HostInv
  BY DEF HostInit, HostInv, Rights, Installed, NotInside

\* While main does anything but call the enclave, nobody is in it.
LEMMA MainFrame ==
    ASSUME HostInv, hostPc \in 1..9 \cup 11..14 \cup 17..18, UNCHANGED encl,
           hostPc' \in {hostPc, hostPc + 1}, failed' = FALSE, Rights', Installed'
    PROVE  HostInv'
<1>1. NotInside
  BY DEF HostInv, InAddint, InCallback, InReport
<1>2. NotInside'
  BY <1>1 DEF NotInside, encl
<1>3. hostPc' > 15 => output' = "idle"
  BY DEF HostInv, encl
<1>4. QED
  BY <1>2, <1>3 DEF HostInv

\* main's own steps: pages, handlers and the device.
LEMMA MainSteps ==
    ASSUME HostInv, HostTouched \subseteq {"first"},
           \/ Plain \/ (\E p \in HostPages : Revoke(p)) \/ Sigaction \/ RegisterAep \/ worker
           \/ (\E c \in {"0xaa", "0xbb", "0xdd", "0xcc"} : WriteDevice(c)) \/ Destroy
    PROVE  HostInv'
<1> USE DEF HostStep
<1>1. CASE Plain
  <2>1. PICK s \in {"create", "dry_run", "thread"} : HostAt(s)
    BY <1>1 DEF Plain
  <2>2. hostPc \in 1..2 \cup 11..14
    BY <2>1, StepAt
  <2>3. Rights' /\ Installed'
    BY <1>1, <2>2 DEF Plain, HostInv, Rights, Installed
  <2>4. /\ hostPc \in 1..9 \cup 11..14 \cup 17..18 /\ hostPc' \in {hostPc, hostPc + 1}
        /\ failed' = FALSE /\ UNCHANGED encl
    BY <1>1, <2>2 DEF Plain, HostInv
  <2>5. QED
    BY <2>3, <2>4, MainFrame
<1>2. CASE \E p \in HostPages : Revoke(p)
  <2>1. PICK p \in HostPages : Revoke(p)
    BY <1>2
  <2>2. (p = "data" /\ hostPc = 3) \/ (p = "code" /\ hostPc = 4)
    BY <2>1, StepAt DEF Revoke, HostPages
  <2>3. Rights'
    BY <2>1, <2>2 DEF Revoke, HostInv, Rights, HostPages
  <2>4. Installed'
    BY <2>1, <2>2 DEF Revoke, Installed
  <2>5. /\ hostPc \in 1..9 \cup 11..14 \cup 17..18 /\ hostPc' \in {hostPc, hostPc + 1}
        /\ failed' = FALSE /\ UNCHANGED encl
    BY <2>1, <2>2 DEF Revoke, HostInv
  <2>6. QED
    BY <2>3, <2>4, <2>5, MainFrame
<1>3. CASE Sigaction
  <2>1. hostPc = 5
    BY <1>3, StepAt DEF Sigaction
  <2>2. Rights' /\ Installed'
    BY <1>3, <2>1 DEF Sigaction, HostInv, Rights, Installed
  <2>3. /\ hostPc \in 1..9 \cup 11..14 \cup 17..18 /\ hostPc' \in {hostPc, hostPc + 1}
        /\ failed' = FALSE /\ UNCHANGED encl
    BY <1>3, <2>1 DEF Sigaction, HostInv
  <2>4. QED
    BY <2>2, <2>3, MainFrame
<1>4. CASE RegisterAep
  <2>1. hostPc = 6
    BY <1>4, StepAt DEF RegisterAep
  <2>2. Rights' /\ Installed'
    BY <1>4, <2>1 DEF RegisterAep, HostInv, Rights, Installed
  <2>3. /\ hostPc \in 1..9 \cup 11..14 \cup 17..18 /\ hostPc' \in {hostPc, hostPc + 1}
        /\ failed' = FALSE /\ UNCHANGED encl
    BY <1>4, <2>1 DEF RegisterAep, HostInv
  <2>4. QED
    BY <2>2, <2>3, MainFrame
<1>5. ASSUME NEW s, NEW p, Touch(s, p),
             \/ s = "memset_data" /\ p = "data"
             \/ s = "copy_data" /\ p = "data"
             \/ s = "copy_code" /\ p = "code"
      PROVE  HostInv'
  <2>1. HostAt(s) /\ UNCHANGED encl /\ UNCHANGED <<handler, callback>>
    BY <1>5 DEF Touch
  <2>2. (hostPc \in 7..8 /\ p = "data") \/ (hostPc = 9 /\ p = "code")
    BY <1>5, <2>1, StepAt
  <2>3. CASE p \in granted
    <3>1. hostPc' = hostPc + 1 /\ granted' = granted /\ fault_fired' = fault_fired /\ failed' = failed
      BY <1>5, <2>3 DEF Touch
    <3>2. Rights'
      BY <2>2, <2>3, <3>1 DEF HostInv, Rights, HostPages
    <3>3. Installed'
      BY <2>1, <2>2, <3>1 DEF HostInv, Installed
    <3>4. /\ hostPc \in 1..9 \cup 11..14 \cup 17..18 /\ hostPc' \in {hostPc, hostPc + 1}
          /\ failed' = FALSE /\ UNCHANGED encl
      BY <2>1, <2>2, <3>1 DEF HostInv
    <3>5. QED
      BY <3>2, <3>3, <3>4, MainFrame
  <2>4. CASE p \notin granted
    <3>1. PICK b \in HostTouched : fault_handler(p, b) /\ hostPc' = hostPc
      BY <1>5, <2>4 DEF Touch
    <3>2. b = "first" /\ handler /\ fault_fired \in 0..2
      BY <2>2 DEF HostInv, Rights, Installed
    <3>3. granted' = granted \cup {p} /\ fault_fired' = fault_fired + 1 /\ failed' = failed
      BY <3>1, <3>2 DEF fault_handler, MayHandle, Restored
    <3>4. Rights'
      BY <2>2, <2>4, <3>1, <3>3 DEF HostInv, Rights, HostPages
    <3>5. Installed'
      BY <2>1, <3>1 DEF HostInv, Installed
    <3>6. /\ hostPc \in 1..9 \cup 11..14 \cup 17..18 /\ hostPc' \in {hostPc, hostPc + 1}
          /\ failed' = FALSE /\ UNCHANGED encl
      BY <2>1, <2>2, <3>1, <3>3 DEF HostInv
    <3>7. QED
      BY <3>4, <3>5, <3>6, MainFrame
  <2>5. QED
    BY <2>3, <2>4
<1>6. CASE worker
  BY <1>5, <1>6 DEF worker
<1>7. CASE \E c \in {"0xaa", "0xbb", "0xdd", "0xcc"} : WriteDevice(c)
  <2>1. PICK c \in {"0xaa", "0xbb", "0xdd", "0xcc"} : WriteDevice(c)
    BY <1>7
  <2>2. hostPc \in 11..14 \cup 17..18
    BY <2>1, StepAt DEF WriteDevice
  <2>3. Rights' /\ Installed'
    BY <2>1, <2>2 DEF WriteDevice, HostInv, Rights, Installed
  <2>4. QED
    BY <2>1, <2>2, <2>3, MainFrame DEF WriteDevice, HostInv
<1>8. CASE Destroy
  <2>1. hostPc \in 17..18
    BY <1>8, StepAt DEF Destroy
  <2>2. Rights' /\ Installed'
    BY <1>8, <2>1 DEF Destroy, HostInv, Rights, Installed
  <2>3. QED
    BY <1>8, <2>1, <2>2, MainFrame DEF Destroy, HostInv
<1>9. QED
  BY <1>1, <1>2, <1>3, <1>4, <1>6, <1>7, <1>8

\* What the steps of the enclave's thread leave alone.
LEMMA EnclaveFrame ==
    ASSUME HostInv, UNCHANGED host, hostPc' = hostPc, failed' = FALSE,
           (NotInside \/ InAddint \/ InCallback \/ InReport)', output' = output
    PROVE  HostInv'
  BY DEF host, HostInv, Rights, Installed

\* Entries into the enclave: an SSA frame is free, as at most one is in use.
LEMMA EntrySteps ==
    ASSUME HostInv, NSSA \in Nat, NSSA >= 2, CallAddint \/ CallReporter \/ aep_cb_func
    PROVE  HostInv'
<1>2. CASE CallAddint
  <2>1. hostPc = 10 /\ within = <<>> /\ outside = "none" /\ cssa = 0
    BY <1>2, StepAt DEF CallAddint, HostInv, NotInside, InAddint, InCallback, InReport
  <2>2. within' = Append(<<>>, "addint") /\ outside' = "none" /\ failed' = failed
    BY <1>2, <2>1 DEF CallAddint, HostEnter
  <2>3. InAddint'
    BY <1>2, <2>1, <2>2, Stack DEF CallAddint, InAddint
  <2>4. QED
    BY <1>2, <2>2, <2>3, EnclaveFrame DEF CallAddint, HostInv
<1>3. CASE CallReporter
  <2>1. /\ (hostPc = 15 /\ Steps[hostPc] = "report1") \/ (hostPc = 16 /\ Steps[hostPc] = "report2")
        /\ within = <<>> /\ outside = "none" /\ cssa = 0
    <3>1. (hostPc = 15 /\ Steps[hostPc] = "report1") \/ (hostPc = 16 /\ Steps[hostPc] = "report2")
      BY <1>3, StepAt DEF CallReporter
    <3>2. QED
      BY <1>3, <3>1 DEF CallReporter, HostInv, NotInside, InAddint, InCallback, InReport
  <2>2. within' = Append(<<>>, Steps[hostPc]) /\ outside' = "none" /\ failed' = failed
    BY <1>3, <2>1 DEF CallReporter, HostEnter
  <2>3. InReport'
    BY <1>3, <2>1, <2>2, Stack DEF CallReporter, InReport
  <2>4. QED
    BY <1>3, <2>2, <2>3, EnclaveFrame DEF CallReporter, HostInv
<1>4. CASE aep_cb_func
  <2>1. hostPc = 10 /\ within = <<"addint">> /\ cssa = 1
    BY <1>4 DEF aep_cb_func, HostInv, NotInside, InAddint, InCallback, InReport
  <2>2. PICK r \in {"report1", "report2"} : HostEnter(r, "none")
    BY <1>4 DEF aep_cb_func
  <2>3. within' = Append(<<"addint">>, r) /\ outside' = "none" /\ failed' = failed
    BY <2>1, <2>2 DEF HostEnter
  <2>4. InCallback'
    BY <1>4, <2>1, <2>3, Stack DEF aep_cb_func, InCallback
  <2>5. QED
    BY <1>4, <2>3, <2>4, EnclaveFrame DEF aep_cb_func, HostInv
<1>5. QED
  BY <1>2, <1>3, <1>4

\* The other steps of the enclave's thread: interrupts, resumptions, returns.
LEMMA ThreadSteps ==
    ASSUME HostInv, Interrupt \/ Aep \/ Resume \/ ReporterReturns \/ AddintReturns
    PROVE  HostInv'
<1>1. CASE Interrupt
  <2>1. /\ hostPc' = hostPc /\ failed' = FALSE /\ within' = within /\ output' = output
        /\ outside = "none" /\ cssa' = cssa + 1 /\ outside' = "aep" /\ within # <<>>
        /\ UNCHANGED host
    BY <1>1 DEF Interrupt, InEnclave, HostInv
  <2>2. (InAddint \/ InCallback \/ InReport)'
    BY <2>1 DEF HostInv, NotInside, InAddint, InCallback, InReport
  <2>3. QED
    BY <2>1, <2>2, EnclaveFrame
<1>2. CASE Aep
  <2>1. /\ hostPc' = hostPc /\ failed' = FALSE /\ within' = within /\ output' = output
        /\ outside = "aep" /\ cssa' = cssa /\ outside' = IF CallsBack THEN "cb" ELSE "resume"
        /\ UNCHANGED host
    BY <1>2 DEF Aep, HostInv
  <2>2. (within = <<"addint">> => Top = "addint") /\ (hostPc = 10 => callback)
    BY Stack DEF Top, HostInv, Installed
  <2>3. /\ within = <<"addint", "report1">> => Top # "addint"
        /\ within = <<"addint", "report2">> => Top # "addint"
        /\ within = <<"report1">> => Top # "addint"
        /\ within = <<"report2">> => Top # "addint"
    BY Stack DEF Top
  <2>4. (InAddint \/ InCallback \/ InReport)'
    <3>1. CASE InAddint
      BY <2>1, <2>2, <3>1 DEF InAddint, CallsBack
    <3>2. CASE InCallback
      BY <2>1, <2>3, <3>2 DEF InCallback, CallsBack
    <3>3. CASE InReport
      BY <2>1, <2>3, <3>3 DEF InReport, CallsBack
    <3>4. QED
      BY <2>1, <3>1, <3>2, <3>3 DEF HostInv, NotInside
  <2>5. QED
    BY <2>1, <2>4, EnclaveFrame
<1>3. CASE Resume
  <2>1. /\ hostPc' = hostPc /\ failed' = FALSE /\ within' = within /\ output' = output
        /\ outside = "resume" /\ cssa' = cssa - 1 /\ outside' = "none" /\ UNCHANGED host
    BY <1>3 DEF Resume, ResumedCssa, HostInv
  <2>2. (InAddint \/ InCallback \/ InReport)'
    BY <2>1 DEF HostInv, NotInside, InAddint, InCallback, InReport
  <2>3. QED
    BY <2>1, <2>2, EnclaveFrame
<1>4. CASE ReporterReturns
  <2>1. outside = "none" /\ within # <<>> /\ Top # "addint"
    BY <1>4 DEF ReporterReturns, InEnclave
  <2>2. within = <<"addint">> => Top = "addint"
    BY Stack DEF Top
  <2>3. failed' = FALSE /\ cssa' = cssa /\ UNCHANGED host
    BY <1>4 DEF ReporterReturns, HostInv
  <2>4. CASE InCallback
    <3>1. cssa = 1 /\ output' = "interrupted" /\ hostPc' = hostPc
          /\ outside' \in {"cb2", "resume"}
      BY <1>4, <2>1, <2>4 DEF InCallback, ReporterReturns, Shows
    <3>2. within' = <<"addint">>
      <4>1. PICK r \in {"report1", "report2"} : within = <<"addint", r>>
        BY <2>4 DEF InCallback
      <4>2. Len(within) = 2
        BY <4>1, Stack
      <4>3. within' = SubSeq(<<"addint", r>>, 1, 1)
        BY <1>4, <4>1, <4>2 DEF ReporterReturns, Leave
      <4>4. QED
        BY <4>3, Stack
    <3>3. InAddint'
      BY <2>3, <2>4, <3>1, <3>2 DEF InAddint, InCallback
    <3>4. QED
      BY <2>3, <2>4, <3>1, <3>3 DEF HostInv, host, InCallback, Rights, Installed
  <2>5. CASE InReport
    <3>1. cssa = 0 /\ output' = "idle" /\ hostPc' = hostPc + 1 /\ outside' = outside
      BY <1>4, <2>1, <2>5 DEF InReport, ReporterReturns, Shows, HostStep
    <3>2. within' = <<>>
      BY <1>4, <2>5, Stack DEF InReport, ReporterReturns, Leave
    <3>3. NotInside'
      BY <2>1, <2>3, <3>1, <3>2 DEF NotInside
    <3>4. QED
      BY <2>3, <2>5, <3>1, <3>3 DEF HostInv, host, InReport, Rights, Installed
  <2>6. QED
    BY <2>1, <2>2, <2>4, <2>5 DEF HostInv, NotInside, InAddint
<1>5. CASE AddintReturns
  <2>1. outside = "none" /\ within # <<>> /\ Top = "addint"
    BY <1>5 DEF AddintReturns, InEnclave
  <2>2. /\ within = <<"addint", "report1">> => Top # "addint"
        /\ within = <<"addint", "report2">> => Top # "addint"
        /\ within = <<"report1">> => Top # "addint"
        /\ within = <<"report2">> => Top # "addint"
    BY Stack DEF Top
  <2>3. InAddint
    BY <2>1, <2>2 DEF HostInv, NotInside, InCallback, InReport
  <2>4. /\ failed' = FALSE /\ cssa' = cssa /\ outside' = outside /\ output' = output
        /\ hostPc' = 11 /\ UNCHANGED host
    BY <1>5, <2>3 DEF AddintReturns, HostInv, InAddint, HostStep
  <2>5. within' = <<>>
    BY <1>5, <2>3, Stack DEF InAddint, AddintReturns, Leave
  <2>6. NotInside'
    BY <2>1, <2>3, <2>4, <2>5 DEF NotInside, InAddint
  <2>7. QED
    BY <2>3, <2>4, <2>6 DEF HostInv, host, InAddint, Rights, Installed
<1>6. QED
  BY <1>1, <1>2, <1>3, <1>4, <1>5

\* For every number of interrupts, with two SSA frames or more and library
\* functions that touch the first byte of a page first: main never reaches a
\* failed ASSERT, an unhandled fault or a refused entry of the enclave, both
\* pages have their rights back after worker, and what aep_cb_func and
\* test_attestation report is the right thread's state.
THEOREM HostProgramRestores ==
    ASSUME NSSA >= 2, HostTouched \subseteq {"first"}
    PROVE  HostSpec => []HostRestores
<1>1. HostInit => HostInv
  BY InitHostInv
<1>2. HostInv /\ [HostNext]_hostVars => HostInv'
  <2> SUFFICES ASSUME HostInv, [HostNext]_hostVars PROVE HostInv'
    OBVIOUS
  <2>1. CASE UNCHANGED hostVars
    BY <2>1 DEF hostVars, HostInv, Rights, Installed, NotInside, InAddint, InCallback, InReport
  <2>2. CASE HostNext
    BY <2>2, MainSteps, EntrySteps, ThreadSteps, SmileHostAssumption DEF HostNext
  <2>3. QED
    BY <2>1, <2>2
<1>3. HostInv => HostRestores
  <2> SUFFICES ASSUME HostInv PROVE HostRestores
    OBVIOUS
  <2>1. HostTypeOK
    <3>1. cssa \in 0..2 /\ Len(within) \in {cssa, cssa + 1}
      <4>1. CASE NotInside
        BY <4>1, Stack DEF NotInside
      <4>2. CASE InAddint
        BY <4>2, Stack DEF InAddint
      <4>3. CASE InCallback
        <5>1. Len(within) = 2
          BY <4>3, Stack DEF InCallback
        <5>2. QED
          BY <4>3, <5>1 DEF InCallback
      <4>4. CASE InReport
        <5>1. Len(within) = 1
          BY <4>4, Stack DEF InReport
        <5>2. QED
          BY <4>4, <5>1 DEF InReport
      <4>5. QED
        BY <4>1, <4>2, <4>3, <4>4 DEF HostInv
    <3>2. fault_fired \in 0..5 /\ granted \subseteq HostPages
      BY DEF HostInv, Rights, HostPages
    <3>3. QED
      BY <3>1, <3>2, SmileHostAssumption DEF HostTypeOK
  <2>2. NeverFails /\ RightsComeBack
    BY DEF HostInv, NeverFails, RightsComeBack, Rights
  <2>3. ReportsTheRightThread
    <3>1. /\ within = <<"addint", "report1">> => Top # "addint"
          /\ within = <<"addint", "report2">> => Top # "addint"
          /\ within = <<"report1">> => Top # "addint"
          /\ within = <<"report2">> => Top # "addint"
      BY Stack DEF Top
    <3>2. outside = "resume" /\ Top = "addint" => output = "interrupted"
      BY <3>1 DEF HostInv, NotInside, InAddint, InCallback, InReport
    <3>3. QED
      BY <3>2 DEF ReportsTheRightThread, HostInv
  <2>4. QED
    BY <2>1, <2>2, <2>3 DEF HostRestores
<1>4. QED
  BY <1>1, <1>2, <1>3, PTL DEF HostSpec
=============================================================================
