--------------------------- MODULE MCKvmDelivery ----------------------------
(***************************************************************************)
(* What kvm/x86.c delivers to a guest and takes from it, on small          *)
(* instances: task priority, interrupt window and event injection, async   *)
(* page faults, machine checks, SMM, debugging, and the instructions KVM   *)
(* emulates with their memory and segments.  Each behaviour runs one of    *)
(* them, named by part; the others stay where they start.                  *)
(***************************************************************************)
EXTENDS KvmEvents, KvmFaults, KvmEmulate, KvmGuestMem

CONSTANT Parts          \* the components this run explores

VARIABLE part

deliveryVars == <<part, tprVars, windowVars, eventVars, apfVars, mceVars,
                  smmVars, debugVars, memVars, segVars, emulVars>>

SomeDr7s == {Off, [on |-> {1}, exec |-> {1}]}
SomePtes == {Unmapped, [gfn |-> 1, user |-> FALSE, write |-> TRUE],
             [gfn |-> 2, user |-> TRUE, write |-> FALSE]}
LockPtes == {[gfn |-> 1, user |-> TRUE, write |-> TRUE],
             [gfn |-> 1, user |-> FALSE, write |-> TRUE]}

\* Hash functions with collisions whose runs wrap around the end of the table.
SomeHashes == {<<3, 3, 0>>, <<1, 1, 1>>, <<0, 3, 3>>}

\* Two virtual CPUs that increment one word with locked instructions.
Locked == INSTANCE KvmGuestMem WITH Vcpus <- {"v1", "v2"}, VPages <- {1}, Frames <- {1, 3},
                                   Ptes <- LockPtes, MaxPte <- 1, MaxInc <- 2, MaxStd <- 0

\* The variables of a component the behaviour does not run hold this value.
Unused == "unused"

TprUnused ==
    /\ apicv = Unused /\ tpr = Unused /\ tprIrr = Unused /\ isr = Unused
    /\ pir = Unused /\ threshold = Unused /\ req = Unused
    /\ tprKicked = Unused /\ tprPc = Unused /\ image = Unused
    /\ sent = Unused
WindowUnused ==
    /\ mode = Unused /\ windowPc = Unused /\ pic = Unused
    /\ windowRaised = Unused /\ masked = Unused /\ req_win = Unused
    /\ windowReady = Unused /\ req_event_window = Unused /\ ext = Unused
    /\ windowIrq = Unused /\ windowEx = Unused /\ iflag = Unused
    /\ lint0 = Unused /\ window = Unused /\ imm = Unused /\ hw = Unused
    /\ delivered = Unused /\ refused = Unused /\ signal = Unused
DebugUnused ==
    /\ db = Unused /\ dr7 = Unused /\ eff_db = Unused /\ hw_dr7 = Unused
    /\ bp_enabled = Unused /\ guest_debug = Unused /\ dbg_db = Unused
    /\ guest_debug_dr7 = Unused /\ singlestep_rip = Unused /\ rip = Unused
    /\ tf = Unused /\ rf = Unused /\ gtf = Unused /\ debugPending = Unused
    /\ ctxt = Unused /\ armed = Unused /\ last = Unused
MemUnused ==
    /\ pt = Unused /\ changes = Unused /\ memSince = Unused /\ ram = Unused
    /\ gen = Unused /\ cpl3 = Unused /\ memCache = Unused /\ use = Unused
    /\ op = Unused /\ copies = Unused /\ mem = Unused /\ incs = Unused
    /\ torn = Unused /\ locked = Unused
SegUnused ==
    /\ cs = Unused /\ seg = Unused /\ cr = Unused /\ segPc = Unused
    /\ old = Unused /\ segBefore = Unused /\ outcome = Unused
EmulUnused ==
    /\ emulPc = Unused /\ insn = Unused /\ emulN = Unused /\ etype = Unused
    /\ protected = Unused /\ reprotects = Unused
    /\ write_fault_to_spt = Unused /\ last_retry = Unused /\ reg = Unused
    /\ emulCache = Unused /\ sync_to = Unused /\ sync_from = Unused
    /\ want = Unused /\ stale = Unused /\ shadow = Unused
    /\ emulBefore = Unused

DeliveryInit ==
    /\ part \in Parts
    /\ IF part = "tpr" THEN TprInit ELSE TprUnused
    /\ IF part = "window" THEN WindowInit ELSE WindowUnused
    /\ EventInit /\ (part # "events" => ~v.cap)
    /\ ApfInit /\ (part # "async_pf" => hash = [g \in Gfns |-> 0])
    /\ part = "async_pf" => hash \in SomeHashes
    /\ MceInit
    /\ SmmInit /\ (part # "smm" => lm /\ context = 1 /\ smbase = 0)
    /\ IF part = "debug" THEN DebugInit ELSE DebugUnused
    /\ CASE part = "memory" -> MemInit
         [] part = "locked" -> Locked!MemInit
         [] OTHER -> MemUnused
    /\ IF part = "segments" THEN SegInit ELSE SegUnused
    /\ IF part = "emulate" THEN EmulInit ELSE EmulUnused

DeliveryNext ==
    \/ /\ part = "tpr" /\ TprNext
       /\ UNCHANGED <<part, windowVars, eventVars, apfVars, mceVars, smmVars,
                      debugVars, memVars, segVars, emulVars>>
    \/ /\ part = "window" /\ WindowNext
       /\ UNCHANGED <<part, tprVars, eventVars, apfVars, mceVars, smmVars,
                      debugVars, memVars, segVars, emulVars>>
    \/ /\ part = "events" /\ EventNext
       /\ UNCHANGED <<part, tprVars, windowVars, apfVars, mceVars, smmVars,
                      debugVars, memVars, segVars, emulVars>>
    \/ /\ part = "async_pf" /\ ApfNext
       /\ UNCHANGED <<part, tprVars, windowVars, eventVars, mceVars, smmVars,
                      debugVars, memVars, segVars, emulVars>>
    \/ /\ part = "mce" /\ MceNext
       /\ UNCHANGED <<part, tprVars, windowVars, eventVars, apfVars, smmVars,
                      debugVars, memVars, segVars, emulVars>>
    \/ /\ part = "smm" /\ SmmNext
       /\ UNCHANGED <<part, tprVars, windowVars, eventVars, apfVars, mceVars,
                      debugVars, memVars, segVars, emulVars>>
    \/ /\ part = "debug" /\ DebugNext
       /\ UNCHANGED <<part, tprVars, windowVars, eventVars, apfVars, mceVars,
                      smmVars, memVars, segVars, emulVars>>
    \/ /\ part = "memory" /\ MemNext
       /\ UNCHANGED <<part, tprVars, windowVars, eventVars, apfVars, mceVars,
                      smmVars, debugVars, segVars, emulVars>>
    \/ /\ part = "locked" /\ Locked!MemNext
       /\ UNCHANGED <<part, tprVars, windowVars, eventVars, apfVars, mceVars,
                      smmVars, debugVars, segVars, emulVars>>
    \/ /\ part = "segments" /\ SegNext
       /\ UNCHANGED <<part, tprVars, windowVars, eventVars, apfVars, mceVars,
                      smmVars, debugVars, memVars, emulVars>>
    \/ /\ part = "emulate" /\ EmulNext
       /\ UNCHANGED <<part, tprVars, windowVars, eventVars, apfVars, mceVars,
                      smmVars, debugVars, memVars, segVars>>

\* The virtual CPU's thread and KVM's workers go on, and a guest enables
\* interrupts and leaves its handlers again and again, even if something is
\* delivered in between.
DeliverySpec ==
    /\ DeliveryInit /\ [][DeliveryNext]_deliveryVars
    /\ WF_eventVars(part = "events" /\ EventEnterGuest)
    /\ WF_eventVars(part = "events" /\ EventDeliver)
    /\ WF_eventVars(part = "events" /\ MustExit /\ EventExitGuest)
    /\ SF_eventVars(part = "events" /\ Iret)
    /\ SF_eventVars(part = "events" /\ EventSti)
    /\ SF_eventVars(part = "events" /\ EventRsm)
    /\ WF_smmVars(part = "smm" /\ process_smi_smm)
    /\ WF_smmVars(part = "smm" /\ Inject)
    /\ WF_smmVars(part = "smm" /\ SmmRsm)
    /\ \A g \in Gfns : WF_apfVars(part = "async_pf" /\ WorkDone(g))
    /\ WF_apfVars(part = "async_pf" /\ kvm_arch_async_page_present_queued)
    /\ WF_apfVars(part = "async_pf" /\ (AnswerReady \/ ApfExitGuest \/ ApfEnterGuest))
    /\ WF_apfVars(part = "async_pf" /\ TakeToken)
    /\ WF_apfVars(part = "async_pf" /\ Ack)

-----------------------------------------------------------------------------
\* inject_pending_event and its callers: no event is forgotten, delivered twice
\* or delivered where the guest does not accept it; an interrupt whose
\* priority the guest unmasked is delivered; the table of asynchronous page
\* faults is exact; a machine check that is overwritten is flagged; a debugger
\* is told of every step and breakpoint.
DeliveryExact ==
    /\ part = "tpr" => UnmaskedExits /\ NoneLost
    /\ part = "window" => NothingLost /\ ReadyIsAccepted /\ OnlyWhenOpen
    /\ part = "events" => EventTypeOK /\ OneEventPerEntry /\ NmisBounded /\ NothingForgotten
    /\ part = "events" => NotBoth /\ FaultAddressMatches
    /\ part = "async_pf" => ApfTypeOK /\ TableExact /\ SleepersKnown
    /\ part = "mce" => LossIsFlagged /\ UncorrectedIsInProgress
    /\ part = "debug" => StepIsReported /\ BreakpointStops
    /\ part = "memory" => InjectedIsKnown

\* What the guest had is kept: over KVM_GET and SET_VCPU_EVENTS, SMM and RSM,
\* the handler of a machine check, debugging from outside, an access or an
\* increment that is emulated, and an instruction that faults or is retried.
ContextKept ==
    /\ part = "events" => RestoreKeepsEvents
    /\ part = "smm" => RsmRestores /\ SavedContext
    /\ part = "mce" => RecordIsOneError /\ HandlerReadsOneError
    /\ part = "debug" => LoadedRegisters /\ TraceFlagIsTheGuests
    /\ part = "memory" => TranslationIsTlbLike /\ RightPlace
    /\ part = "locked" => Locked!NoIncrementLost
    /\ part = "segments" => FaultRestores
    /\ part = "emulate" => RegisterIsKept /\ UserCannotStop /\ StiOnce /\ NothingStale

\* Every NMI and SMI is taken in the end, also one that comes while another is
\* handled, and a task that sleeps on a page is woken; a token or a record the
\* guest has not read stays, and RSM restores the NMI mask.
DeliveryCompletes ==
    /\ TokensNotOverwritten /\ UncorrectedStays /\ MaskRestored
    /\ part = "events" => EventsArrive
    /\ part = "async_pf" => SleepersWoken
    /\ part = "smm" => SmiIsTaken
=============================================================================
