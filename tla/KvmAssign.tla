------------------------------ MODULE KvmAssign -----------------------------
(***************************************************************************)
(* Devices whose interrupts are posted to a VCPU without KVM (kvm/x86.c,   *)
(* the irq bypass).  A producer is added to and removed from an irqfd by   *)
(* threads of user space at any time; while an assigned device is counted, *)
(* a VCPU that blocks puts itself on the list from which the notification  *)
(* of a posted interrupt wakes it.  The list, the posting and the          *)
(* remapping of interrupts belong to the vendor module and are external.   *)
(***************************************************************************)
EXTENDS Naturals, FiniteSets

CONSTANTS
  Producers, Vcpus,
  Target,          \* the VCPU a producer's interrupt goes to
  MaxIrq           \* bound: interrupts devices raise

ASSUME AssignAssumption == IsFiniteSet(Producers) /\ Target \in [Producers -> Vcpus] /\ MaxIrq \in Nat

VARIABLES
  assigned_device_count,
  at,              \* each producer: "off" | "start" | "irte" | "end" | "on"
  posted,          \* producers whose interrupts are posted
  running,         \* VCPUs that run
  listed,          \* blocked VCPUs on the wakeup list
  pir,             \* VCPUs with a posted interrupt they have not seen
  raised

vars == <<assigned_device_count, at, posted, running, listed, pir, raised>>

Init ==
  /\ assigned_device_count = 0 /\ at = [p \in Producers |-> "off"] /\ posted = {}
  /\ running = Vcpus /\ listed = {} /\ pir = {} /\ raised = 0

kvm_arch_has_assigned_device == assigned_device_count > 0

-----------------------------------------------------------------------------
Goto(p, s) == at' = [at EXCEPT ![p] = s]
(* kvm_arch_irq_bypass_add_producer: kvm_arch_start_assignment counts ... *)
kvm_arch_start_assignment(p) ==
  /\ at[p] = "off" /\ assigned_device_count' = assigned_device_count + 1
  /\ Goto(p, IF assigned_device_count' = 1 THEN "start" ELSE "irte")
  /\ UNCHANGED <<posted, running, listed, pir, raised>>
(* ... and the first device unblocks every VCPU, which will block again, on the list *)
StartAssignment(p) ==
  /\ at[p] = "start" /\ running' = Vcpus /\ listed' = {} /\ Goto(p, "irte")
  /\ UNCHANGED <<assigned_device_count, posted, pir, raised>>
IrteFailureLeaks(p, ok) ==
  /\ at[p] = "irte" /\ posted' = IF ok THEN posted \cup {p} ELSE posted
  /\ Goto(p, IF ok THEN "on" ELSE "off")
  /\ UNCHANGED <<assigned_device_count, running, listed, pir, raised>>
update_pi_irte(p, ok) ==
  /\ at[p] = "irte" /\ posted' = IF ok THEN posted \cup {p} ELSE posted
  /\ Goto(p, IF ok THEN "on" ELSE "end")
  /\ UNCHANGED <<assigned_device_count, running, listed, pir, raised>>
(* kvm_arch_end_assignment, after a failure and at the end of a removal *)
kvm_arch_end_assignment(p) ==
  /\ at[p] = "end" /\ assigned_device_count' = assigned_device_count - 1 /\ Goto(p, "off")
  /\ UNCHANGED <<posted, running, listed, pir, raised>>

(* kvm_arch_irq_bypass_del_producer: back to remapped interrupts first *)
kvm_arch_irq_bypass_del_producer(p) ==
  /\ at[p] = "on" /\ posted' = posted \ {p} /\ Goto(p, "end")
  /\ UNCHANGED <<assigned_device_count, running, listed, pir, raised>>

-----------------------------------------------------------------------------
(* A device's interrupt: posted, with a notification that reaches a running VCPU or one on the list, *)
(* or injected by KVM, which wakes any VCPU. *)
Raise(p) ==
  LET v == Target[p]
  IN  /\ raised < MaxIrq /\ raised' = raised + 1 /\ pir' = pir \cup {v}
      /\ running' = IF p \notin posted \/ v \in listed THEN running \cup {v} ELSE running
      /\ listed' = IF p \notin posted \/ v \in listed THEN listed \ {v} ELSE listed
      /\ UNCHANGED <<assigned_device_count, at, posted>>
(* the VCPU blocks when it has nothing to do *)
Block(v) ==
  /\ v \in running /\ v \notin pir /\ running' = running \ {v}
  /\ listed' = IF kvm_arch_has_assigned_device THEN listed \cup {v} ELSE listed
  /\ UNCHANGED <<assigned_device_count, at, posted, pir, raised>>
Take(v) ==
  /\ v \in running /\ v \in pir /\ pir' = pir \ {v}
  /\ UNCHANGED <<assigned_device_count, at, posted, running, listed, raised>>

Add(p) == kvm_arch_start_assignment(p)
Going(p) ==
  \/ StartAssignment(p) \/ (\E ok \in BOOLEAN : update_pi_irte(p, ok)) \/ kvm_arch_end_assignment(p)
Next ==
  \/ \E p \in Producers : Add(p) \/ Going(p) \/ kvm_arch_irq_bypass_del_producer(p) \/ Raise(p)
  \/ \E v \in Vcpus : Block(v) \/ Take(v)

(* A call that began ends, and a VCPU that runs looks at its interrupts. *)
Fairness == (\A p \in Producers : WF_vars(Going(p))) /\ (\A v \in Vcpus : WF_vars(Take(v)))
Spec == Init /\ [][Next]_vars /\ Fairness

-----------------------------------------------------------------------------
(* The count is the producers that are attached or between their two updates, whatever failed: it *)
(* neither leaks, which would keep every VCPU on the list, nor drops to zero while one posts. *)
CountIsExact == assigned_device_count = Cardinality({p \in Producers : at[p] # "off"})

(* Once the first assignment has unblocked the VCPUs, one that sleeps while a device posts to it is *)
(* on the list. *)
SleeperIsListed ==
  (\A p \in Producers : at[p] # "start") =>
    \A p \in posted : Target[p] \in running \cup listed

(* Every posted interrupt is seen: no VCPU sleeps through it. *)
NoLostWakeup == \A v \in Vcpus : v \in pir ~> v \notin pir
=============================================================================
