# hyper_smile in TLA+

A verification development kept beside the code of *hyper_smile*, the prototype
of the SMILE enclave memory introspection experiments. The repository holds a
Linux kernel module that hides pages of a process while it is inspected, a
character device and a host program with an SGX enclave that drive it, a patched
KVM below them, and the workloads the measurements run on: the threads of the
SGX sample, sysbench and UnixBench. Paths below are relative to `src/`.

## 1. Inventory

| Part | Source | State it keeps | Operations |
|---|---|---|---|
| page hider | `va_tr23/va_tr/limit.c` | page tables of all processes, TLBs, the table `pinfo[1000]`, `index` | `trampoline`: save and clear each entry, then write the saved entries back |
| character device | `va_tr23/va_tr/jxdev.c` | the pages `pp`, `pp0`, `pp1`, the CRCs, the caller's preemption count | `write` with commands `cc`, `aa`, `bb`, `dd`; `read` |
| enclave counter and buffer | `smile_test/Enclave/TrustedLibrary/Thread.cpp` and the host's | counter, ring of slots, a mutex, two conditions | increments by several threads; producers and consumers |
| key wrapping | `jxsmile19/smile-case1/rsa.h`, `create_secret` | p, q, e, d, blocks | searches for primes and exponents, encode, decode |
| host program and its enclave | `jxsmile19/smile-case1/main.c`, `Enclave/` | access rights of two guarded pages, fault count, the enclave's SSA frames | `main`, `fault_handler`, `aep_cb_func`, ecalls |
| KVM | `va_tr23/va_tr/kvm/x86.c` | the machine, its virtual CPUs, requests, events, registers, clocks, slots, MSRs | `vcpu_run`, ioctls, exits, emulation, the SMILE hypercall |
| sysbench | `jxtest2/jxcode/sysbench-master/src` | barrier, event queue, counters, timers, options, Lua states, log | a run from `main` to its reports; tests and database drivers |
| UnixBench | `smile_test/byte-unixbench/UnixBench/src` | pipes, children, files, counters | `context1`, `spawn`, `looper`, `syscall`, `fstime`, Dhrystone |
| left out | see section 7 | | |

**Interaction.** The host program writes 4096-byte buffers to the device. The
device copies them to `pp`, computes a CRC for `aa` and `bb`, calls `trampoline`
for `cc`, and for `dd` interrupts CPU 1, which issues a hypercall that the
patched KVM answers. The page hider edits the page tables of a process while
that process and the kernel go on using them. The parts of KVM meet in the loop
of `vcpu_run`: a thread of the machine changes state and makes a request, the
virtual CPU sees it before its next entry. Sysbench's threads meet at a barrier
and in an event queue, its reports read counters that workers go on changing.

**What is hard.** Nothing locks `pinfo`, `index`, `pp` or the page tables, and
only the local TLB is flushed. The user's buffer is copied twice and `pp[700]` is
tested again after a CRC. Arguments are truncated to a byte. In KVM: requests
that race with entry, clocks that must not run apart or backwards, injections
that were interrupted, exits to user space in the middle of an instruction, ioctls
that fail half-way, work that outlives its machine. In sysbench: one signal or
broadcast per change, alarms that interrupt the holder of a lock, statements and
results that outlive what they refer to. `PROJECT.json` lists these hazards
with their lines and with the properties that would catch them.

## 2. How the project is laid out

A module models one component or a few closely related *parts* of one, each part
with its own variables, `XInit`, actions, `XNext` and properties; names that
occur in several parts carry the part as prefix or suffix (`callPc`, `runLeft`,
`mp_state_call`). Parts that share no memory in the program share no variables.

| Module | Parts and what they model |
|---|---|
| `Trampoline` | limit.c, with the MMU and the kernel's own page-table changes as environment |
| `Jxdev` | jxdev.c; EXTENDS `Trampoline`, whose `Enter` is the call in the `cc` branch |
| `Enclave` | counter: adders and the host's assert; buffer: producers and consumers |
| `BoundedFifo` | abstract: a queue of bounded length, implemented by the buffer |
| `Rsa` | `create_secret` and rsa.h |
| `SmileHost` | main.c of the case study and the enclave's stack of SSA frames |
| `KvmRun` | run loop and requests; user-return MSRs; FPU, XCR0 and PKRU; WBINVD |
| `KvmIo` | hypercalls with the SMILE patch; MMIO; port I/O |
| `KvmMemory` | control registers; kept roots and PCIDs; memory slots |
| `KvmEvents` | task priority; interrupt window; injection of events |
| `KvmFaults` | asynchronous page faults; machine checks; SMM; guest debugging |
| `KvmEmulate`, `KvmGuestMem` | emulated instructions, segments; translated and locked accesses to guest memory |
| `KvmClock`, `KvmTsc` | kvmclock pages, copy of the timekeeper, KVM_SET_CLOCK, wall clock, steal time; TSC rate, scale, synchronisation, CPU frequency |
| `KvmMsrs` | MSR state over migration; MSRs with rules of their own; filters; lists |
| `KvmLife` | module; machine; creation of VCPUs; set-up; capabilities; VCPU ioctls |
| `KvmAssign` | assigned devices and posted interrupts |
| `SbBarrier`, `Rendezvous` | sb_barrier.c, and the abstract rendezvous it implements |
| `SbEvents`, `SbRun`, `SbScripts` | event queue and statistics; timers and a run; options, Lua states, logger |
| `SbTests` | file commands and file test, random numbers, memory, mutex and threads tests |
| `DbDriver`, `DbMysql`, `DbPgsql`, `DbLoad` | db_driver.c; the two drivers over it; bulk insert, connections and the OLTP load |
| `UnixBench` | context1, spawn (looper, syscall), fstime, Dhrystone |

`MCTrampoline` and `MCJxdev` give the constants of the first two modules.
`MCSmile`, `MCKvmTime`, `MCKvmDelivery`, `MCKvmExecution`, `MCKvmMachine`,
`MCSysbench` and `MCWorkloads` put parts side by side: the variable `part` is
chosen once, initially, and only that part takes steps. A composite therefore
checks the union of its parts' state spaces, not their product, and a property of
a composite is a conjunction of `part = "x" => ...`. A module may be used twice
with other constants (`NoControl`, `OneRate`, `Unst`, `Locked`, `Pg`).

Modules hold, before the definition they alter, a *faulty variant* of it
(`ClearNoFlush`, `CompletedOnce`, ...). No specification uses a variant; each is a
bug of the kind that code could have, and the property `PROJECT.json` lists with
it fails when the variant takes the definition's place.

Abstractions that run through all modules: addresses are pages and offsets or
members of a small set; payloads, messages and names are model values; wording,
logging and layout are left out except in the logger. A counter that the
program does not bound has a bound in the guards, a constant named `Max...`.

### The SMILE side

`Trampoline`: `pt[pid][page]` is the entry (frame and present bit), `tlb[cpu]` the
cached translations, `vir_addr`, `phy_addr`, `index` the globals; one call is

    Enter -> (HideNext SaveVir SavePhy Clear)* HideDone
          -> (RestoreNext LoadVir LoadPhy EnV2p)* Return

with a step per access to shared memory. `HideNext` goes to `overrun` when slot
`Slots` would be written. `Clear` may use the entry loaded by `SavePhy` or a fresh
one, since nothing is volatile. The environment is `Access` (a CPU caches an
entry), `Remap` (the kernel moves a page and flushes all CPUs) and `ReloadCr3`.
`want`, `raced` and `overlap` are history variables.

`Jxdev`: a buffer is its `head` (bytes 0, 2, 3, which also stand for the bytes
under the CRC) and its command. A write has a size, and what it does not cover
keeps the bytes of an earlier one (`CopiedHead`). The copy has two steps, the
arguments are loaded byte by byte, `UserStore` is another thread writing the buffer
meanwhile. `atomic[w]` is the leaked preemption count, while it is set a copy may
fail and leave zeroes. `done[w]` is the sequence of commands a write has executed and
`standing`, a history variable, the command the last copy left in `pp`. `WildWalk` is
the walk for a pid outside `LowMapped`: nobody has it, or its process has no tables
for the low addresses a byte can name; no level of the walk is tested.

`Enclave`: load and store of `global_counter` are separate steps; `wait` gives up
the mutex and sleeps in one step, `signal` wakes one sleeper or is lost.
`IsFifo` is the refinement of `BoundedFifo`.

`Rsa`: `rand()` may return anything, so every draw is a step; the functions use
C's signed remainder and shift; characters have `CharBits` + 1 bits.

`SmileHost`: `within` is the enclave's stack of SSA frames, `granted` the pages
that have their rights; `HostTouched` says which byte of a guarded page an
enclave function touches first (main.c's anchor page: the first).

### KVM

Every part is one thread per virtual CPU plus the threads that act on it from
outside; a step is what happens under one lock, or between two accesses to
state others can change. External, modelled from the calls x86.c makes: the
vendor module, the local APIC's registers, mmu.c (in the PCID part), emulate.c (at
most one store after the loads of an instruction), `vcpu->mutex`, the guest's
handlers. Choices worth knowing:

- *run*: requests are handled in the order of `vcpu_enter_guest` (`Order`), with and
  without Hyper-V state; without it any exit map up to the scanned one may be loaded.
- *tsc*: the two locks of `kvm_synchronize_tsc` are two steps that writes of other VCPUs
  may fall between; the history variable `tscRaced` says that one did, and that no new
  generation began alone since. *clock*: any number of VCPUs may renew the master copy;
  `crowded` says that two did at once and none has alone since. *steal*: each store of
  `record_steal_time` is a step.
- *cregs*: host-initiated EFER writes are left out. *pcid*: the shadow MMU is what
  mmu.c keeps of previous roots.
- *wbinvd*: the device is assigned before the VCPU runs; the thread may be preempted
  anywhere outside `get_cpu` and `put_cpu`, also before the mask is cleared.
- *user_return*: the IPI that enables virtualisation does not fall into the window
  of a value being set. *fpu*: a user's PKRU is not 0.
- *smm*: a failed write of the save area shuts the VCPU down. *mce*: an
  uncorrected error while one is in progress is a triple fault.
- *emulate*: one store per instruction, with shadow paging. *locked*: two VCPUs
  increment one page that the guest maps once, of RAM or of a device. *debug*: task
  switches, a FIXME in the code, are left out. *window*: exits happen between
  instructions.
- *vm_life*, *vcpu_create*: what the code does not give back is kept count of (`stray`,
  `leaked`), so that nothing else may be missing. *vcpu_ioctl*: the calls for MSRs hold
  srcu from before the copy in to after the copy out.
- *vm_setup*: KVM_CAP_X86_DISABLE_EXITS after creation of VCPUs is refused by user
  space. *caps*: the vendor's `copy_enc` succeeds.
- *gtod*: clocks of two CPUs differ by at most a tick. *set_clock*: VCPUs are
  stopped. *wall*: one writer at a time. *msr_write*: widths are scaled.

### sysbench and UnixBench

`SbBarrier` is sb_barrier.c with the callback's failure; `SbEvents` the queue of
`--rate` and the counters with their merging; `SbRun` the order of `run_test` with
its barriers, background threads, workers that may hang, and the two alarms, whose
handlers run on top of any thread and wait for ever if it holds a lock they take, and
the timers that a checkpoint resets while their owner runs; `SbScripts` command line and files, the life of Lua
states and the logger's repeat counter. `DbMysql` and `DbPgsql` extend and use
`DbDriver`, whose connection, statement and result set are one record. The
dry-run mode of the MySQL driver is left out. `UnixBench` follows fstime with the
signal semantics of `-ansi` (system calls are interrupted, not restarted).

Where the code leaves a case open, the model takes it and a history variable
remembers it: `overlap` (writes or draws under way while an fsync is drawn), `clashed`
(two threads on a block), `short` (a short write of a prepared file), `left_over`
(rows an event left to the next transaction), `cutRead` (an interrupted read of the
copy test), `since` (stamps written while a worker reads one). A property excepts
exactly the behaviours that variable marks.

## 3. Runs

| Run | Instance | Checks |
|---|---|---|
| `trampoline_one` | 1 caller, 2 CPUs, 3 pages of 2 bytes, 4 frames, table of 2; requests of 0, 1.5 and 2.5 pages, an unaligned one stopped by `random_data_page` | page tables are what the kernel installed minus the pages hidden (`PageTableExact`); no cached translation on the caller's CPU (`HiddenLocally`); an aligned range is hidden whole (`HidesWholeRange`); the table is left exactly by requests of more than `Slots` pages (`OverrunOnlyIfTooBig`) |
| `trampoline_two` | 2 callers, 1 or 2 pages of one process | calls that overlap never give a page another page's frame (`FramesIntact`); they return (`CallsReturn`) |
| `jxdev_one` | 1 writer, sizes that cover all, some and none of the arguments and the command, racing user stores, arguments beyond a byte, unknown pid | CRCs belong to the pages kept (`HashesMatch`), a write that overlaps no other executes one command once, its own or the one left in `pp` (`ExecutesWhatWasAsked`) |
| `jxdev_two` | 2 interchangeable writers of `cc` and `dd` | one-byte arguments confine every write to the table and to the first page (`NoOverrunThroughDevice`, `OnlyFirstPage`) |
| `smile` | device driven as main.c does, counter, buffer, keys, host program | `WholePagesHideNothing`, `AssertHolds`, `NoLostWakeup`, `IsFifo`, `KeysRoundTrip`, `HostRestores`, `SmileEnds` |
| `rsa_blocks` | keys | `EncodedFits`, a comment of rsa.h; violated (section 6) |
| `kvm_time` | 12 parts: TSCs, rates, clocks, steal time; TSC writes that overlap, two suspends; clocks with three updates, or one and a reader, or one and a pause | `ClocksAgree`, `RatesExact`, `RecordsWhole`, `TimeProceeds` |
| `kvm_delivery` | 11 parts: events, priorities, faults, SMM, debugging, emulation | `DeliveryExact`, `ContextKept`, `DeliveryCompletes` |
| `kvm_execution` | 10 parts: run loop, what is loaded around the guest, I/O, registers, slots | `AccessesExact`, `WorldSwitchExact`, `VcpuProceeds` |
| `kvm_machine` | 11 parts: module, machine, VCPUs, set-up, capabilities, MSRs, devices | `CountIsExact`, `MsrsConsistent`, `MachineConsistent`, `MachineProceeds` |
| `sysbench` | 8 parts: barrier, events, statistics, timers, run, options, Lua, logger | `FailureReachesAll`, `IsBarrier`, `NothingLost`, `RunOrdered`, `RunEnds` |
| `workloads` | 14 parts: file, memory, lock tests, random numbers, database, UnixBench | `FilesExact`, `WorkExact`, `DatabaseExact`, `WorkEnds` |

The composite properties are conjunctions; the comments over their definitions in
the MC modules and over each conjunct in the component say what is meant.

**Why the bounds are enough.** Where threads interfere there are two or three of
each kind, enough for a lost update, a lost wakeup or an overtaking; a table or
ring has two to four entries, so that it is empty, partly filled, full and wraps;
pages have two bytes, so that addresses are aligned or not and sizes whole or
broken; words have few bits, so that they overflow; each kind of failure is an
input, and the number of steps lets a failure fall between any two operations.
`kvm_execution` uses four bounds on changes, requests and signals, so that
each combination is explored deeply without their product. Where a property is
proved (section 4) it does not depend on the bounds.

**Fairness** is weak, for threads that can run: kernel code in a system call, a
virtual CPU's thread, workers and main, an IPI or an alarm that is due. It is
strong where the program relies on more: a mutex that is free again and again is
got by each waiter (mutex and threads tests, where a thread's rounds are
bounded); a guest enables interrupts and leaves its handlers infinitely often
(events); a virtual CPU enters the guest even if requests keep coming (frequency).
The environment (new writes, kernel remaps, user stores, changes of a
machine) is never fair. Nor is it assumed that a worker of a run comes to its end: it
may hang, in an event or waiting for one, and `RunEnds` then asks for the alarm, if one
is set. `WorkersEnd` of the event queue holds with `--rate` too, but for workers that
sleep when the generator has gone (section 6).

**Deadlock** is checked in the runs of the page hider and of the device; the
composites contain programs that end, and liveness properties say that they do
not get stuck earlier.

## 4. Proofs

All for every value of the constants that satisfies the named assumptions. Each
inductive invariant was checked with TLC before it was proved.

- `TrampolineProofs`. `TypeCorrect` from `TInv`: types, `index <= Slots` and, per
  label, that the slot about to be used is in the table (types alone are not
  inductive since `index` and `i` are subscripts). `PageTablesRestored` and
  `HidingIsLocal` from `SInv`: while calls do not overlap at most one is active, and
  slot k of `pinfo` holds address and entry of page base + k for every page still
  hidden; `PageTableExact` alone does not say what the restore is going to
  write. `TableBound`; `WholeRangeHidden` with `LoopExit`, why the loop stopped;
  `NoForeignFrame` with `FInv`: every saved or loaded entry belongs to its page.
- `JxdevProofs`. `DeviceCallsTrampoline`: `JSpec => Spec`, the device implements
  `Trampoline`, so every theorem above holds of it. `DeviceNeverOverruns` from
  `TableBound`; `DeviceOnlyFirstPage` with `FirstPageOnly`; `DeviceTypeCorrect`
  (`DInv`); `DeviceHashesMatch` (`HInv`: at each label between the copy and the
  store of the CRC, which of `pp`, `pp0`, `pp1` and the two sums agree);
  `DeviceExecutesWhatWasAsked` (`EInv`: `pp` holds the standing command, and what
  sequence has been executed at each label of the only writer); `DeviceWholePages` (`WInv`: the size byte is 0 wherever a write
  carries it, and a call goes through both loops without a turn).
- `EnclaveProofs`. `HostAssertHolds`, `CounterTypeCorrect` from
  `CInv`: who holds the mutex, the counter is the number of pairs (thread,
  iteration) added, who has reported. `BufferTypeCorrect` from `BInv`: mutex,
  sleepers, and the ring holds its positions. `BufferIsFifo`: the refinement, a
  put is Append and a get is Tail of the ring's contents. `WakeupsSuffice`: a signal
  moves a sleeper to the awake, who gain one when an item is added and lose at
  most the one that takes it.
- `EnclaveProofs`, the host program. `HostProgramRestores` (`HostRestores`), with at least two SSA
  frames and functions that touch the first byte of a page first, for every number
  of interrupts, from `HostInv`: at each statement of main, what is on the SSA
  stack, which page has its rights and how many faults have been counted. With
  `NSSA` = 1 or another first byte the property is false, and TLC shows it.
- `KvmExecutionProofs`, the switch. `WorldSwitch` (`WorldSwitchExact`): the four parts of the switch
  between host and guest. `RunInv`: a change that was announced is loaded or its
  request is still set and will be looked at (`Fresh`), the mode tells senders the
  truth (`ModeSet`), and srcu is held outside the guest (`SrcuHeld`). `UretInv`:
  `curr` is what the hardware holds, and it differs from the host's value only
  while the notifier is registered. `FpuInv`: at every label, where the user's and
  the guest's registers are (`Saved`), whose PKRU (`Keys`) and XCR0 (`Xcr`) are
  loaded. `WbinvdInv`: a processor with dirty lines is the current one or in
  `wbinvd_dirty_mask`, unless it was loaded between the write-back and the clearing of
  the mask. There are no hypotheses: any Hyper-V state, preemption anywhere.
- `KvmExecutionProofs`, the accesses. `EveryAccessExact` (`AccessesExact`), for every size of a page,
  a piece and an operand, every set of slots and every number of instructions.
  `MmioInv`: at each label, the bytes of the access under way are split into those
  that were served, each at the address it wraps to, and those that wait in exactly
  one fragment from `mmio_cur_fragment` on; `AccessReaches` shows that
  `emulator_read_write` establishes this on one page or two, `PieceDone` that a
  completed piece only moves bytes from the waiting to the served, and `WrapOnce`
  that two bytes never meet at one address; of an access that faults, the bytes of its
  first page are what may have been served. `PioInv`: how many items were exchanged
  and whether the skip is due, per callback that is set. `CallInv`: a call is
  answered, or its completion is pending. `CregsInv` is the property itself, with the
  types. `PcidInv`: a kept root has what its tables had at the last flush of its
  PCID, or a flush of everything is requested (`Roots`). `SlotsInv`: which slots have
  reverse maps while the mapper adds them (`Rmapped`), and how many log, before and after
  the commit. `GuestRegistersStayLegal`: the action property `GuestStaysLegal`, of the
  specification of the control registers.
- `KvmTimeProofs`. `RecordsAlwaysWhole` (`RecordsWhole`), with any number of updaters.
  `StealInv`: the version of a guest's record is odd exactly while a step of its
  update is under way, and what was stolen is counted once. `ClockInv`: an update that is
  not crowded excludes entries (`UpdateExcludes`), a reader of the page follows its version (`ReaderFollows`),
  a pause is told once (`PauseTold`), and a page is that of the current copy or a request
  is set (`PageCurrent`, `PageSequence`). `ClocksAlwaysAgree` (`ClocksAgree`), also where writes
  of the TSC overlap. `SetClockInv`; `GtodInv`: the copy of the
  timekeeper follows it (`CopyFollows`), and so does whoever reads it (`ReaderOnCopy`,
  `ReturnedPoint`); `MatchInv`: what the generations of written TSCs say about offsets
  (`Generations`, `OneWrite`), how many VCPUs are matched (`MatchedCount`) and when the
  master clock may be used (`MasterMatched`), the last two unless `tscRaced`. The three
  instances of the synchronisation are steps of one abstract `MatchStep`. The
  exceptions for crowded updates and raced writes are needed: TLC refutes both properties
  without them (section 6).
- `KvmDeliveryProofs`. `ContextAlwaysKept` (`ContextKept`) from `DeliveryInv`, one
  invariant per part. `EmulInv`: where the latest value of the register is, told by the
  place of the instruction and the two flags that say which copy is in sync. `DebugInv`:
  an emulation that waits holds no trace flag but the guest's. `MceInv`: an uncorrected
  error is recorded only while none is in progress, and the handler runs only while one
  is. `MemInv`: a cached translation is one the page has had since the last flush, and is
  of a device while the slots are of its generation. `LockInv`: what is in memory is what was incremented, since an exchange stores only
  over the value it read.
  `SegInv`, with `Quotient` and `SegmentRoundTrip`: the fields of a descriptor are
  quotients and remainders that give it back. `VcpuOK`, with `GetEvents`, `SetEvents` and
  `RestoreKeeps`: what user space reads of the events and writes into a fresh VCPU is the
  state it was. `SmmInv`, with `LaidConcat` and `AllReadBack`: the area of SMM is put
  together of pieces with disjoint bytes, so each of the 62 (or 53) stores is read back.
  `DeliveryStepsKeep`: the action properties `MaskRestored` (`MaskInv`), `UncorrectedStays`
  (`ScanInv`: an uncorrected error is in a bank the handler has not passed) and
  `TokensNotOverwritten` (`TokenStep`). Page 0 is not in `VPages`: in `mmio_gva` 0 says that
  no page is cached, so the code never finds that page in its cache.
- `KvmMachineProofs`. `MachineAlwaysConsistent` (`MachineConsistent`) from `MachineInv`,
  which is the invariant of the component a behaviour runs. `ModuleInv`: what the module
  holds, by the place of its loading or unloading, and that no notifier is left that
  could queue work once the queues are drained. `VmInv`: work is cancelled before what it
  queues, the slot of the second address space is made and removed after that of the
  first, and a mapping belongs to a slot or to a call that failed half-way (`VmSlots`).
  `VcpuInv`: the parts of a VCPU are a prefix of the list while it is created, what the
  labels still to come give back on the error path, and all but those given back while it
  is destroyed (`Holdings`); the key stands exactly for the VCPUs without an APIC and
  those that failed after they were counted (`KeyCounts`). `SetupInv`: whoever is where a lock is held holds it (`SetupLocks`), which
  devices there are at each step of making them (`DevicesAt`), no controller is made once
  a VCPU is counted (`Counting`), and the timer is in a state it was left in unless its
  writer is between the halves (`PitStates`). `CapInv`: types and the property itself.
  `IoctlInv`: one thread is between vcpu_load and vcpu_put, the read lock of SRCU is held
  exactly where an operation that takes it runs, buffers are freed where they are, and the
  state is whole but for the call that has written its first half. `AInv`: the count of
  assigned devices is that of the producers past the start, and every VCPU is running or
  listed once the first assignment has ended; `AssignedCountExact` and `SleepersListed`
  are its consequences for that component alone. `MachineStepsKeep`: the action
  properties `TranslationStays`, `SynicNeedsApic` and `RefusedChangesNothing`; the second
  needs that a refused VCPU exists, after which no controller can be made.
- `SysbenchProofs`. `BarrierTypeCorrect`, `BarrierFailureReachesAll` and
  `BarrierIsRendezvous`, the refinement of `Rendezvous`, from `BInv`: the count
  is that of the threads inside, and the serial number tells rounds apart.
  `RunAlwaysOrdered`: `RunOrdered` from `SysbenchInv`, one invariant per component.
  `RunInv`: who has arrived at the barrier of the workers is told by where each thread
  is (`Arrivals`), so that a worker that runs knows nobody failed; the callback has seen
  every failure there was when the barrier opened (`Failures`); workers are joined only
  after that (`Counts`); the report thread is silenced before it is cancelled (`Phases`).
  `LuaInv`: what the interpreter of a thread is, is told by where the thread is
  (`MainState`, `WorkerState`, `ReporterState`); the workers are gone before states[] is
  freed unless one could not be created (`WorkersBetween`); the reporting thread comes to
  its loop only through the second barrier, so that it is not cancelled before it has an
  interpreter; and success is told when nothing can fail any more (`Told`). `LogInv`: who
  compares holds text_mutex, and the handler is idle until it runs.

Assumptions on constants are the `ASSUME`s of the component modules; they ask for
finite or nonempty sets, naturals, names of nobody that are not threads, and the code's
own relations (a byte is not more than a page, XCR0 has the x87 bit, the host supports
what it gives).

Only model-checked: all liveness (`CallsReturn`, `SmileEnds`, `TimeProceeds`,
`DeliveryCompletes`, `VcpuProceeds`, the leads-to parts of `MachineProceeds`, `RunEnds`,
`WorkEnds`), which needs fairness and ENABLED. `KeysRoundTrip`, whose functions are
recursive, so that what they compute for every input needs induction over data; for the
same reason `NothingLost`, `FilesExact`, `WorkExact` and `DatabaseExact`, which fold over
sequences (percentiles, settings of an option, lines of the log) or use bitwise
operators. `RatesExact`, about products and quotients by powers of two, and
`MsrsConsistent`, whose parts scale registers in the same way and select from lists, are
beyond the provers' arithmetic. `DeliveryExact` is checked and not proved: its
hash table of asynchronous page faults deletes by moving entries along the table, a recursion
over the data, and its other parts are not stated apart from that one.

## 5. State of the plan

All modules and runs of sections 2 and 3 and the proofs of section 4 are done. The map of
`PROJECT.json` has one entry per operation; a helper whose lines lie inside those of its
operation is covered by that entry. What would come next is in the last paragraph of
section 4: the parts of `DeliveryExact` other than the hash table, of which each has an
inductive invariant of the kind used for `ContextKept`.

## 6. Disagreements found

`rsa_blocks` checks what a comment promises and is violated: with blocks of three and 16
characters six entries are stored in an array of five (rsa.h:180, quoted under `findings`).

The following were met while modelling. Where the model can reach them, a
property excepts exactly the behaviours that a history variable marks (section 2).

*SMILE.* rsa.h:98 promises an exponent of at least 3, a first draw of 1 is
returned; rsa.h:163 promises that decoding gives m back, p = q is not excluded;
rsa.h:193 promises packets of characters, bytes of the key above 127 do not survive
the packing. The host's request hides no page (`WholePagesHideNothing`): 0x1000 is
0 in a byte. A write shorter than the buffer executes the command an earlier write left
in `pp` (jxdev.c:195); the walk of the page tables tests no level (limit.c:111-129), so
that an address or a pid without tables sends it astray. Two overlapping `bb` writes
may leave `crc_anchor` belonging to bytes `pp1` no longer holds; a change the kernel
makes inside the save/clear window is lost; an unaligned request may miss its last page.

*KVM.* "The vcpus need to have matched TSCs" for the master clock (2545): two TSC writes
that overlap make VCPUs look matched that are not, since the second lock is taken after
others have written (`tscRaced`). "Do not allow visibility of distinct" copies: two
updaters of the master clock (2790) clear each other's requests and let a VCPU in with
the old copy (`crowded`). After a suspend a write of 0 is matched with the old offset (11494); HWCR's
McStatusWrEn cannot be cleared (3304); the TSC deadline fast path passes a filter by
(2006); a WBINVD forgets a processor the thread is moved to between `put_cpu` and
`cpumask_clear` (7016), and lines written on the same processor after the first;
without Hyper-V state a scan of the routes need not reload the exit map (9798-9803); a
store over two pages has stored its first when the second faults (6753-6767);
`do_get_msr_feature` returns an unset field when errors are ignored (1536);
`kvm_arch_vcpu_create` without a local APIC leaves its static key counted when a later
step fails (11130-11136); `__x86_set_memory_region` leaves its mapping when a slot is
refused or cannot be removed (11757-11763); a machine the vendor module refuses keeps
its page track (11647); the last register of an MSR-filter range may wrap.

*sysbench.* A checkpoint clears the queue time of the event in progress, though the
comment leaves "the current state intact" (sb_timer.c:59; `cut`); the handler of
`--forced-shutdown` waits for a lock its own thread holds (sysbench.c:429-432; `Waits`).
An event taken while `error` is set is read through NULL
(sysbench.c:717); a worker about to wait misses the last broadcast (903), so
that with `--rate` workers need not end; in-flight events are not taken back
(737); a worker may read the time of a later event when the generator has been round the
array since its dequeue (739, 911); a failed report thread leaves main at its barrier
(947); the alarm may fire after all workers are up (1168); two reports may run beside
each other (1238); a stopped timer counts as running (sb_timer.c:75);
`--threads=-1` is accepted (sysbench.c:1305); a config file's value for a test option is
lost (594), and every option gets the first one's validator (sb_options.c:104); repeated
messages may be counted after another one (sb_logger.c:455); the gaussian distribution
draws the lower end (sb_rand.c:168); the memory test leaves out the last word
(sb_memory.c:343) and misaligns huge pages (453); `--mutex-locks=0` takes 2^32 mutexes
(sb_mutex.c:160). File test: two threads draw an fsync of
file `num_files`, which passes the check (sb_fileio.c:579; `overlap`), two validating
threads use a block (544; `clashed`), rewinding one file warns (sb_fileio.c:1711), an
asynchronous block is validated before it arrived (637), `is_dirty` is cleared before a
late write (436), the final fsync precedes queued writes (1055), a failing one is
returned from before the queue is drained (1048), short writes are taken for whole ones
(944), seqwr's prepare does not remove files (1003). Databases: a long row
after a flush is written behind the buffer (db_driver.c:1006; "overrun"), after a lock
timeout the restarted event commits half of the failed one (oltp_common.lua:502;
`left_over`), a stale
`rs->statement` leaks or is read after free (db_driver.c:618, 783), unread results are
denied (647), a failed PQprepare is executed (drv_pgsql.c:469).

*UnixBench.* An interrupted read of the copy test adds 2^54 units (fstime.c:414);
Proc_2 yields 5, as dhry_1.c:234 says, where its own comment says 4 (dhry_1.c:369);
`context1` with a duration of 0 never stops; Dhrystone's counters overflow for long runs.

## 7. Not modelled

AES, MD5 and CRC-32 (textbook functions without control of their own); the anchor
experiments and the SDK sample shell (start-up and printing); sysbench's CPU test
(a pure loop); Whetstone and the graphics tests of UnixBench; nested
virtualisation, CPUID tables, SEV and the vendor modules of KVM, which x86.c only
calls; `byte-unixbench_old`, a near copy of modelled files, and `x866.c`, a second copy of
x86.c that no build uses; backups such as `jxdev (copy).c` and `t3/`; the demonstration code of attacks and dead code;
vendored libraries, results and logs.
