-------------------------- MODULE TrampolineProofs --------------------------
(***************************************************************************)
(* Proofs about Trampoline for any number of callers, CPUs, processes,     *)
(* pages, frames and table slots.                                          *)
(***************************************************************************)
EXTENDS Trampoline, TLAPS

\* Where a loop variable may be, with or without overlapping calls: the part
\* of the invariant that keeps every use of pinfo[i] inside the table.
Bounds(t) ==
    /\ pc[t] \in Hiding => i[t] <= Slots
    /\ pc[t] \in {"save_vir", "save_phy", "clear"} =>
          i[t] < Slots /\ req[t].base.page + i[t] \in Pages
    /\ pc[t] \in {"load_vir", "load_phy", "store"} => i[t] < Slots /\ i[t] \in Pages

TInv ==
    /\ TypeOK
    /\ index <= Slots
    /\ \A t \in Callers : Bounds(t)

-----------------------------------------------------------------------------
(* Type correctness.                                                       *)

LEMMA DeadLocals ==
    /\ NoPte \in Pte
    /\ ZeroVir \in Address
    /\ NoCpu \in Cpus
    /\ NoReq \in Requests
<1>1. (CHOOSE f \in Frames : TRUE) \in Frames
  BY PageAssumption
<1>2. (CHOOSE c \in Cpus : TRUE) \in Cpus
  BY PageAssumption
<1>3. (CHOOSE r \in Requests : TRUE) \in Requests
  BY PageAssumption
<1>4. QED
  BY <1>1, <1>2, <1>3, PageAssumption
     DEF NoPte, ZeroVir, NoCpu, NoReq, Pte, Address, Pages

LEMMA RequestType ==
    ASSUME NEW r \in Requests
    PROVE  /\ r.pid \in Pids
           /\ r.base \in Address
           /\ r.base.page \in Pages
           /\ r.base.off \in 0..(PageSize - 1)
           /\ r.size \in Nat
  BY RequestAssumption DEF Address

LEMMA VaddrType ==
    ASSUME NEW r \in Requests, NEW k \in Nat, r.base.page + k \in Pages
    PROVE  /\ Vaddr(r, k) \in Address
           /\ Vaddr(r, k).page = r.base.page + k
  BY RequestType DEF Vaddr, Address

LEMMA InitTInv == Init => TInv
<1> SUFFICES ASSUME Init PROVE TInv
  OBVIOUS
<1> USE DeadLocals, PageAssumption DEF Init
<1>1. tlb \in [Cpus -> SUBSET (Pids \X Pages)]
  OBVIOUS
<1>2. /\ vir_addr \in [0..(Slots - 1) -> Address]
      /\ phy_addr \in [0..(Slots - 1) -> Pte]
  OBVIOUS
<1>3. /\ index \in 0..(LastPage + 1)
      /\ index <= Slots
      /\ pc \in [Callers -> Labels]
      /\ i \in [Callers -> 0..(LastPage + 1)]
  BY DEF Labels
<1>4. /\ cpu \in [Callers -> Cpus]
      /\ req \in [Callers -> Requests]
      /\ vir \in [Callers -> Address]
      /\ phy \in [Callers -> Pte]
      /\ raced \subseteq Pids \X Pages
      /\ overlap \in BOOLEAN
  OBVIOUS
<1>5. \A t \in Callers : Bounds(t)
  BY DEF Bounds, Hiding
<1>6. QED
  BY <1>1, <1>2, <1>3, <1>4, <1>5 DEF TInv, TypeOK

LEMMA EnterTInv ==
    ASSUME TInv, NEW t \in Callers, NEW c \in Cpus, NEW r \in Requests, Enter(t, c, r)
    PROVE  TInv'
<1> USE PageAssumption DEF TInv
<1>1. TypeOK'
  BY DEF Enter, Goto, TypeOK, Labels
<1>2. \A u \in Callers : Bounds(u)'
  BY DEF Enter, Goto, TypeOK, Bounds, Hiding
<1>3. (index <= Slots)'
  BY DEF Enter
<1>4. QED
  BY <1>1, <1>2, <1>3

LEMMA StepTInv ==
    ASSUME TInv, NEW t \in Callers, Step(t)
    PROVE  TInv'
<1> USE PageAssumption DEF TInv
<1>r. req[t] \in Requests /\ i[t] \in Nat /\ i[t] <= LastPage + 1
  BY DEF TypeOK
<1>1. CASE HideNext(t)
  <2>1. req[t].base.page + i[t] \in Pages
    BY <1>1, <1>r, RequestAssumption, RequestType DEF HideNext, Pages
  <2>2. TypeOK'
    BY <1>1 DEF HideNext, Goto, FlushLocal, hist, TypeOK, Labels
  <2>3. \A u \in Callers : Bounds(u)'
    BY <1>1, <2>1 DEF HideNext, Goto, hist, TypeOK, Bounds, Hiding
  <2>4. QED
    BY <1>1, <2>2, <2>3 DEF HideNext
<1>2. CASE SaveVir(t)
  <2>1. Vaddr(req[t], i[t]) \in Address /\ i[t] \in 0..(Slots - 1)
    BY <1>2, <1>r, VaddrType DEF SaveVir, Goto, Bounds
  <2>2. TypeOK'
    BY <1>2, <2>1 DEF SaveVir, Goto, hist, TypeOK, Labels
  <2>3. \A u \in Callers : Bounds(u)'
    BY <1>2 DEF SaveVir, Goto, hist, TypeOK, Bounds, Hiding
  <2>4. QED
    BY <1>2, <2>2, <2>3 DEF SaveVir
<1>3. CASE SavePhy(t)
  <2>1. Walk(req[t].pid, Vaddr(req[t], i[t])) \in Pte /\ i[t] \in 0..(Slots - 1)
    <3>1. pc[t] = "save_phy"
      BY <1>3 DEF SavePhy, Goto
    <3>2. req[t].base.page + i[t] \in Pages /\ i[t] < Slots
      BY <3>1 DEF Bounds
    <3>3. QED
      BY <1>r, <3>2, VaddrType, RequestType DEF Walk, TypeOK
  <2>2. TypeOK'
    BY <1>3, <2>1 DEF SavePhy, Goto, hist, TypeOK, Labels
  <2>3. \A u \in Callers : Bounds(u)'
    BY <1>3 DEF SavePhy, Goto, hist, TypeOK, Bounds, Hiding
  <2>4. QED
    BY <1>3, <2>2, <2>3 DEF SavePhy
<1>4. CASE Clear(t)
  <2>1. /\ req[t].pid \in Pids
        /\ Vaddr(req[t], i[t]).page \in Pages
        /\ i[t] <= LastPage /\ i[t] < Slots
    <3>1. pc[t] = "clear"
      BY <1>4 DEF Clear, Goto
    <3>2. req[t].base.page + i[t] \in Pages /\ i[t] < Slots
      BY <3>1 DEF Bounds
    <3>3. i[t] <= LastPage
      BY <3>2, <1>r, RequestType DEF Pages
    <3>4. QED
      BY <1>r, <3>2, <3>3, VaddrType, RequestType
  <2>2. \A e \in {phy[t], Walk(req[t].pid, Vaddr(req[t], i[t]))} : Hidden(e) \in Pte
    <3>1. phy[t] \in Pte /\ Walk(req[t].pid, Vaddr(req[t], i[t])) \in Pte
      BY <2>1 DEF Walk, TypeOK
    <3>2. \A e \in Pte : Hidden(e) \in Pte
      BY DEF Hidden, Pte
    <3>3. QED
      BY <3>1, <3>2
  <2>3. pt' \in [Pids -> [Pages -> Pte]]
    BY <1>4, <2>1, <2>2 DEF Clear, TypeOK
  <2>4. TypeOK'
    BY <1>4, <2>1, <2>3, DeadLocals DEF Clear, Goto, FlushLocal, hist, TypeOK, Labels, Pages
  <2>5. \A u \in Callers : Bounds(u)'
    BY <1>4, <2>1 DEF Clear, Goto, hist, TypeOK, Bounds, Hiding
  <2>6. QED
    BY <1>4, <2>4, <2>5 DEF Clear
<1>5. CASE HideDone(t)
  <2>1. i[t] <= Slots
    BY <1>5 DEF HideDone, Goto, Bounds, Hiding
  <2>2. TypeOK'
    <3>1. tlb' \in [Cpus -> SUBSET (Pids \X Pages)]
      BY <1>5 DEF HideDone, FlushLocal, TypeOK
    <3>2. QED
      BY <1>5, <3>1 DEF HideDone, Goto, hist, TypeOK, Labels
  <2>3. \A u \in Callers : Bounds(u)'
    BY <1>5 DEF HideDone, Goto, hist, TypeOK, Bounds, Hiding
  <2>4. QED
    BY <1>5, <2>1, <2>2, <2>3 DEF HideDone
<1>6. CASE RestoreNext(t)
  <2>1. i[t] < Slots /\ i[t] \in Pages
    BY <1>6, <1>r DEF RestoreNext, TypeOK, Pages
  <2>2. TypeOK'
    BY <1>6 DEF RestoreNext, Goto, FlushLocal, hist, TypeOK, Labels
  <2>3. \A u \in Callers : Bounds(u)'
    BY <1>6, <2>1 DEF RestoreNext, Goto, hist, TypeOK, Bounds, Hiding
  <2>4. QED
    BY <1>6, <2>2, <2>3 DEF RestoreNext
<1>7. CASE LoadVir(t)
  <2>1. vir_addr[i[t]] \in Address
    BY <1>7, <1>r DEF LoadVir, Goto, Bounds, TypeOK
  <2>2. TypeOK'
    BY <1>7, <2>1 DEF LoadVir, Goto, hist, TypeOK, Labels
  <2>3. \A u \in Callers : Bounds(u)'
    BY <1>7 DEF LoadVir, Goto, hist, TypeOK, Bounds, Hiding
  <2>4. QED
    BY <1>7, <2>2, <2>3 DEF LoadVir
<1>8. CASE LoadPhy(t)
  <2>1. phy_addr[i[t]] \in Pte
    BY <1>8, <1>r DEF LoadPhy, Goto, Bounds, TypeOK
  <2>2. TypeOK'
    BY <1>8, <2>1 DEF LoadPhy, Goto, hist, TypeOK, Labels
  <2>3. \A u \in Callers : Bounds(u)'
    BY <1>8 DEF LoadPhy, Goto, hist, TypeOK, Bounds, Hiding
  <2>4. QED
    BY <1>8, <2>2, <2>3 DEF LoadPhy
<1>9. CASE EnV2p(t)
  <2>1. /\ req[t].pid \in Pids
        /\ vir[t].page \in Pages
        /\ i[t] <= LastPage
        /\ phy[t] \in Pte
    BY <1>9, <1>r, RequestType DEF EnV2p, Goto, Bounds, Pages, TypeOK, Address
  <2>2. pt' \in [Pids -> [Pages -> Pte]]
    BY <1>9, <2>1 DEF EnV2p, TypeOK
  <2>3. TypeOK'
    BY <1>9, <2>1, <2>2, DeadLocals DEF EnV2p, Goto, hist, TypeOK, Labels
  <2>4. \A u \in Callers : Bounds(u)'
    BY <1>9 DEF EnV2p, Goto, hist, TypeOK, Bounds, Hiding
  <2>5. QED
    BY <1>9, <2>3, <2>4 DEF EnV2p
<1>10. CASE Return(t)
  <2>1. TypeOK'
    BY <1>10, DeadLocals DEF Return, Goto, hist, TypeOK, Labels
  <2>2. \A u \in Callers : Bounds(u)'
    BY <1>10 DEF Return, Goto, hist, TypeOK, Bounds, Hiding
  <2>3. QED
    BY <1>10, <2>1, <2>2 DEF Return
<1>11. QED
  BY <1>1, <1>2, <1>3, <1>4, <1>5, <1>6, <1>7, <1>8, <1>9, <1>10 DEF Step

LEMMA MachineTInv ==
    ASSUME TInv,
           \/ \E c \in Cpus, p \in Pids, v \in Touched : Access(c, p, v)
           \/ \E c \in Cpus : ReloadCr3(c)
           \/ \E p \in Pids, v \in Pages, f \in Frames : Remap(p, v, f)
    PROVE  TInv'
<1> USE PageAssumption DEF TInv
<1>1. CASE \E c \in Cpus, p \in Pids, v \in Touched : Access(c, p, v)
  <2>1. PICK c \in Cpus, p \in Pids, v \in Touched : Access(c, p, v)
    BY <1>1
  <2>2. TypeOK'
    BY <2>1 DEF Access, hist, TypeOK
  <2>3. \A u \in Callers : Bounds(u)'
    BY <2>1 DEF Access, Bounds
  <2>4. QED
    BY <2>1, <2>2, <2>3 DEF Access
<1>2. CASE \E p \in Pids, v \in Pages, f \in Frames : Remap(p, v, f)
  <2>1. PICK p \in Pids, v \in Pages, f \in Frames : Remap(p, v, f)
    BY <1>2
  <2>2. pt' \in [Pids -> [Pages -> Pte]] /\ want' \in [Pids -> [Pages -> Pte]]
    BY <2>1 DEF Remap, TypeOK, Pte
  <2>6. tlb' \in [Cpus -> SUBSET (Pids \X Pages)] /\ raced' \subseteq Pids \X Pages
    BY <2>1 DEF Remap, TypeOK
  <2>3. TypeOK'
    BY <2>1, <2>2, <2>6 DEF Remap, TypeOK
  <2>4. \A u \in Callers : Bounds(u)'
    BY <2>1 DEF Remap, Bounds
  <2>5. QED
    BY <2>1, <2>3, <2>4 DEF Remap
<1>3. CASE \E c \in Cpus : ReloadCr3(c)
  <2>1. TypeOK'
    BY <1>3 DEF ReloadCr3, hist, TypeOK
  <2>2. \A u \in Callers : Bounds(u)'
    BY <1>3 DEF ReloadCr3, Bounds
  <2>3. QED
    BY <1>3, <2>1, <2>2 DEF ReloadCr3
<1>4. QED
  BY <1>1, <1>2, <1>3

LEMMA NextTInv == TInv /\ [Next]_vars => TInv'
<1> SUFFICES ASSUME TInv, [Next]_vars PROVE TInv'
  OBVIOUS
<1>1. CASE UNCHANGED vars
  BY <1>1 DEF TInv, TypeOK, Bounds, vars
<1>2. CASE Next
  BY <1>2, StepTInv, EnterTInv, MachineTInv DEF Next
<1>3. QED
  BY <1>1, <1>2

\* Whatever the callers do to each other, pinfo is only ever used inside its
\* bounds, except where a call is recorded as having run past it.
THEOREM TableSafe == Spec => []TInv
  BY InitTInv, NextTInv, PTL DEF Spec

\* All state keeps its type, whatever the callers do to each other.
THEOREM TypeCorrect == Spec => []TypeOK
<1>1. TInv => TypeOK
  BY DEF TInv
<1>2. QED
  BY <1>1, TableSafe, PTL

-----------------------------------------------------------------------------
(* The page tables while calls do not overlap.                             *)

\* At most one call is active.
Exclusive ==
    \A t, u \in Callers : Active(t) /\ Active(u) => t = u

\* Slot k of pinfo holds what the restore of page base + k needs.
Slot(t, k) ==
    /\ req[t].base.page + k \in Pages
    /\ k < Slots
    /\ vir_addr[k] = Vaddr(req[t], k)
    /\ <<req[t].pid, req[t].base.page + k>> \notin raced =>
          phy_addr[k] = want[req[t].pid][req[t].base.page + k]

\* Every hidden page has its slot, and the slot being written or read is as
\* far as pc says.
SavedExact(t) ==
    /\ pc[t] \in Hiding => \A k \in Pages : k < i[t] => Slot(t, k)
    /\ pc[t] \in {"save_phy", "clear"} => vir_addr[i[t]] = Vaddr(req[t], i[t])
    /\ pc[t] = "clear" => Slot(t, i[t]) /\ phy[t] = phy_addr[i[t]]
    /\ pc[t] \in Restoring => \A k \in Pages : i[t] <= k /\ k < index => Slot(t, k)
    /\ pc[t] \in {"load_vir", "load_phy", "store"} => i[t] < index
    /\ pc[t] \in {"load_phy", "store"} => vir[t] = Vaddr(req[t], i[t])
    /\ pc[t] = "store" => phy[t] = phy_addr[i[t]]

\* A hidden page is non-present, whether its entry was raced or not.
NotPresent(t) ==
    \A v \in HiddenBy(t) : ~pt[req[t].pid][v].present

SInv ==
    /\ ~overlap => Exclusive
    /\ ~overlap => \A t \in Callers : SavedExact(t)
    /\ ~overlap => \A t \in Callers : NotPresent(t)
    /\ PageTableExact
    /\ HiddenLocally

LEMMA InactiveHidesNothing ==
    ASSUME NEW t \in Callers, ~Active(t)
    PROVE  HiddenBy(t) = {}
  BY DEF HiddenBy, Active

LEMMA InitSInv == Init => SInv
<1> SUFFICES ASSUME Init PROVE SInv
  OBVIOUS
<1>1. \A t \in Callers : pc[t] = "idle"
  BY DEF Init
<1>2. \A t \in Callers : ~Active(t)
  BY <1>1 DEF Active, Hiding, Restoring
<1>3. \A t \in Callers : HiddenBy(t) = {}
  BY <1>2, InactiveHidesNothing
<1>4. \A t \in Callers : SavedExact(t)
  BY <1>1 DEF SavedExact, Hiding, Restoring
<1>5. PageTableExact
  BY <1>3 DEF Init, PageTableExact
<1>6. QED
  BY <1>2, <1>3, <1>4, <1>5 DEF SInv, Exclusive, NotPresent, HiddenLocally

\* Steps that leave the page tables and the hidden pages alone.
LEMMA QuietStep ==
    ASSUME TInv, SInv, ~overlap, ~overlap',
           UNCHANGED <<pt, want, raced>>,
           \A u \in Callers : HiddenBy(u)' = HiddenBy(u),
           \A u \in Callers : HiddenBy(u) # {} => req'[u] = req[u] /\ cpu'[u] = cpu[u],
           \A c \in Cpus : tlb'[c] \subseteq tlb[c]
    PROVE  /\ \A u \in Callers : NotPresent(u)'
           /\ PageTableExact'
           /\ HiddenLocally'
<1>1. \A u \in Callers : NotPresent(u)'
  BY DEF SInv, NotPresent
<1>2. ASSUME NEW p \in Pids, NEW v \in Pages
      PROVE  (\E t \in Callers : req[t].pid = p /\ v \in HiddenBy(t))' <=>
             (\E t \in Callers : req[t].pid = p /\ v \in HiddenBy(t))
  OBVIOUS
<1>3. PageTableExact'
  BY <1>2 DEF SInv, PageTableExact
<1>4. ASSUME NEW u \in Callers, NEW v \in HiddenBy(u)'
      PROVE  (<<req[u].pid, v>> \notin tlb[cpu[u]])'
  <2>1. cpu[u] \in Cpus
    BY DEF TInv, TypeOK
  <2>2. QED
    BY <2>1 DEF SInv, HiddenLocally
<1>5. HiddenLocally'
  BY <1>4 DEF HiddenLocally
<1>6. QED
  BY <1>1, <1>3, <1>5

\* What a step of the active caller leaves alone in the others.
LEMMA OthersInactive ==
    ASSUME SInv, ~overlap, NEW t \in Callers, Active(t),
           \A u \in Callers : u # t => pc'[u] = pc[u]
    PROVE  /\ Exclusive'
           /\ \A u \in Callers : u # t =>
                 HiddenBy(u) = {} /\ HiddenBy(u)' = {} /\ SavedExact(u)'
<1>1. \A u \in Callers : u # t => ~Active(u) /\ ~Active(u)'
  BY DEF SInv, Exclusive, Active
<1>2. Exclusive'
  BY <1>1 DEF Exclusive
<1>3. \A u \in Callers : u # t => HiddenBy(u) = {} /\ HiddenBy(u)' = {}
  BY <1>1 DEF HiddenBy, Active
<1>4. \A u \in Callers : u # t => SavedExact(u)'
  BY <1>1 DEF SavedExact, Active, Hiding, Restoring
<1>5. QED
  BY <1>2, <1>3, <1>4

LEMMA StepSInv ==
    ASSUME TInv, SInv, NEW t \in Callers, Step(t), TInv'
    PROVE  SInv'
<1>o. overlap' = overlap
  BY DEF Step, HideNext, SaveVir, SavePhy, Clear, HideDone, RestoreNext, LoadVir,
         LoadPhy, EnV2p, Return, hist
<1> SUFFICES ASSUME ~overlap, ~overlap' PROVE SInv'
  BY <1>o DEF SInv, PageTableExact, HiddenLocally
<1>a. Active(t)
  BY DEF Step, HideNext, SaveVir, SavePhy, Clear, HideDone, RestoreNext, LoadVir,
         LoadPhy, EnV2p, Return, Goto, Active, Hiding, Restoring
<1>p. \A u \in Callers : u # t => pc'[u] = pc[u]
  BY DEF Step, HideNext, SaveVir, SavePhy, Clear, HideDone, RestoreNext, LoadVir,
         LoadPhy, EnV2p, Return, Goto, TInv, TypeOK
<1>q. /\ Exclusive'
      /\ \A u \in Callers : u # t =>
            HiddenBy(u) = {} /\ HiddenBy(u)' = {} /\ SavedExact(u)'
  BY <1>a, <1>p, OthersInactive
<1>r. /\ req[t] \in Requests
      /\ i[t] \in Nat
      /\ req[t].base.page \in Nat
      /\ index \in Nat
      /\ LastPage \in Nat
      /\ Slots \in Nat
      /\ req[t].pid \in Pids
      /\ \A v \in Pages : v \in Nat
  BY PageAssumption, RequestType DEF TInv, TypeOK, Pages
<1>s. SavedExact(t)
  BY DEF SInv
<1>z. ASSUME SavedExact(t)',
             UNCHANGED <<pt, want, raced>>,
             HiddenBy(t)' = HiddenBy(t),
             HiddenBy(t) # {} => req'[t] = req[t] /\ cpu'[t] = cpu[t],
             tlb' = tlb \/ FlushLocal(t)
      PROVE  SInv'
  <2>1. \A u \in Callers : SavedExact(u)'
    BY <1>z, <1>q
  <2>2. \A u \in Callers : HiddenBy(u)' = HiddenBy(u)
    BY <1>z, <1>q
  <2>3. \A u \in Callers : HiddenBy(u) # {} => req'[u] = req[u] /\ cpu'[u] = cpu[u]
    BY <1>z, <1>q
  <2>4. \A c \in Cpus : tlb'[c] \subseteq tlb[c]
    BY <1>z DEF FlushLocal, TInv, TypeOK
  <2>5. /\ \A u \in Callers : NotPresent(u)'
        /\ PageTableExact'
        /\ HiddenLocally'
    BY <1>z, <2>2, <2>3, <2>4, QuietStep
  <2>6. QED
    BY <1>q, <2>1, <2>5 DEF SInv
<1>1. CASE HideNext(t)
  <2>1. /\ pc[t] = "hide" /\ pc'[t] \in {"save_vir", "overrun"}
        /\ i' = i /\ req' = req /\ index' = index
    BY <1>1 DEF HideNext, Goto, TInv, TypeOK
  <2>2. HiddenBy(t)' = HiddenBy(t)
    BY <2>1 DEF HiddenBy, Hiding, Restoring
  <2>3. SavedExact(t)'
    BY <1>1, <1>s, <2>1 DEF HideNext, hist, SavedExact, Slot, Hiding, Restoring
  <2>4. QED
    BY <1>1, <1>z, <2>2, <2>3 DEF HideNext, hist
<1>2. CASE SaveVir(t)
  <2>1. /\ pc[t] = "save_vir" /\ pc'[t] = "save_phy"
        /\ i' = i /\ req' = req /\ index' = index
    BY <1>2 DEF SaveVir, Goto, TInv, TypeOK
  <2>2. HiddenBy(t)' = HiddenBy(t)
    BY <2>1 DEF HiddenBy, Hiding, Restoring
  <2>3. /\ vir_addr'[i[t]] = Vaddr(req[t], i[t])
        /\ \A k \in Pages : k < i[t] => vir_addr'[k] = vir_addr[k]
    <3>1. i[t] \in 0..(Slots - 1)
      BY <1>r, <2>1 DEF TInv, Bounds
    <3>2. QED
      BY <1>2, <1>r, <3>1 DEF SaveVir, TInv, TypeOK
  <2>4. SavedExact(t)'
    BY <1>2, <1>s, <2>1, <2>3 DEF SaveVir, hist, SavedExact, Slot, Vaddr, Hiding, Restoring
  <2>5. QED
    BY <1>2, <1>z, <2>2, <2>4 DEF SaveVir, hist
<1>3. CASE SavePhy(t)
  <2> DEFINE v == req[t].base.page + i[t]
  <2>1. /\ pc[t] = "save_phy" /\ pc'[t] = "clear"
        /\ i' = i /\ req' = req /\ index' = index /\ vir_addr' = vir_addr
        /\ UNCHANGED <<pt, want, raced, cpu, tlb>>
        /\ vir' = vir
    BY <1>3 DEF SavePhy, Goto, hist, TInv, TypeOK
  <2>2. HiddenBy(t)' = HiddenBy(t)
    BY <2>1 DEF HiddenBy, Hiding, Restoring
  <2>3. v \in Pages /\ i[t] \in 0..(Slots - 1)
    BY <1>r, <2>1 DEF TInv, Bounds
  <2>4. /\ phy_addr'[i[t]] = pt[req[t].pid][v]
        /\ phy'[t] = pt[req[t].pid][v]
        /\ \A k \in Pages : k < i[t] => phy_addr'[k] = phy_addr[k]
    BY <1>3, <1>r, <2>3, VaddrType DEF SavePhy, Walk, TInv, TypeOK
  <2>5. \A u \in Callers : req[u].pid = req[t].pid => v \notin HiddenBy(u)
    BY <1>q, <1>r, <2>1 DEF HiddenBy, Hiding, Restoring
  <2>6. <<req[t].pid, v>> \notin raced => pt[req[t].pid][v] = want[req[t].pid][v]
    BY <1>r, <2>3, <2>5 DEF SInv, PageTableExact
  <2>7. Slot(t, i[t])'
    <3>1. vir_addr[i[t]] = Vaddr(req[t], i[t])
      BY <1>s, <2>1 DEF SavedExact
    <3>2. (vir_addr[i[t]] = Vaddr(req[t], i[t]))'
      BY <2>1, <3>1 DEF Vaddr
    <3>3. (i[t] < Slots /\ req[t].base.page + i[t] \in Pages)'
      BY <1>r, <2>1, <2>3
    <3>4. QED
      BY <2>1, <2>4, <2>6, <3>2, <3>3 DEF Slot
  <2>8. \A k \in Pages : k < i[t] => Slot(t, k)'
    BY <1>s, <2>1, <2>4 DEF SavedExact, Slot, Vaddr, Hiding
  <2>9. SavedExact(t)'
    BY <2>1, <2>4, <2>7, <2>8 DEF SavedExact, Slot, Restoring
  <2>10. QED
    BY <1>z, <2>1, <2>2, <2>9
<1>4. CASE Clear(t)
  <2> DEFINE v == req[t].base.page + i[t]
             p == req[t].pid
  <2>1. /\ pc[t] = "clear" /\ pc'[t] = "hide"
        /\ i'[t] = i[t] + 1 /\ req' = req /\ index' = index
        /\ UNCHANGED <<want, raced, cpu, vir_addr, phy_addr, vir>>
    BY <1>4 DEF Clear, Goto, hist, TInv, TypeOK
  <2>2. v \in Pages /\ i[t] \in Pages /\ v \in Nat
    BY <1>r, <2>1 DEF TInv, Bounds, Pages
  <2>3. \A u \in Callers : req[u].pid = p => v \notin HiddenBy(u)
    BY <1>q, <1>r, <2>1 DEF HiddenBy, Hiding, Restoring
  <2>4. HiddenBy(t)' = HiddenBy(t) \union {v}
    BY <1>r, <2>1, <2>2 DEF HiddenBy, Hiding, Restoring
  <2>5. Slot(t, i[t]) /\ phy[t] = phy_addr[i[t]]
    BY <1>s, <2>1 DEF SavedExact
  <2>6. <<p, v>> \notin raced => phy[t] = want[p][v] /\ pt[p][v] = want[p][v]
    <3>1. <<p, v>> \notin raced => phy[t] = want[p][v]
      BY <2>5 DEF Slot
    <3>2. <<p, v>> \notin raced => pt[p][v] = want[p][v]
      BY <1>r, <2>2, <2>3 DEF SInv, PageTableExact
    <3>3. QED
      BY <3>1, <3>2
  <2>7. /\ ~pt'[p][v].present
        /\ <<p, v>> \notin raced => pt'[p][v] = Hidden(want[p][v])
        /\ \A q \in Pids, w \in Pages : <<q, w>> # <<p, v>> => pt'[q][w] = pt[q][w]
    <3>1. Vaddr(req[t], i[t]).page = v
      BY <1>r, <2>2, VaddrType
    <3>2. PICK e \in {phy[t], pt[p][v]} : pt' = [pt EXCEPT ![p][v] = Hidden(e)]
      BY <1>4, <3>1 DEF Clear, Walk
    <3>3. ~Hidden(e).present
      BY DEF Hidden
    <3>4. /\ pt'[p][v] = Hidden(e)
          /\ \A q \in Pids, w \in Pages : <<q, w>> # <<p, v>> => pt'[q][w] = pt[q][w]
      BY <1>r, <2>2, <3>2 DEF TInv, TypeOK
    <3>5. QED
      BY <2>6, <3>2, <3>3, <3>4
  <2>8. SavedExact(t)'
    <3>1. \A k \in Pages : k < i[t] + 1 => Slot(t, k)
      BY <1>r, <1>s, <2>1, <2>5 DEF SavedExact, Hiding
    <3>2. \A k \in Pages : Slot(t, k)' <=> Slot(t, k)
      BY <2>1 DEF Slot, Vaddr
    <3>3. QED
      BY <2>1, <3>1, <3>2 DEF SavedExact, Restoring
  <2>9. \A u \in Callers : NotPresent(u)'
    BY <1>q, <1>r, <2>1, <2>4, <2>7 DEF SInv, NotPresent, HiddenBy
  <2>10. ASSUME NEW q \in Pids, NEW w \in Pages, <<q, w>> \notin raced
         PROVE  pt'[q][w] = IF \E u \in Callers : req[u].pid = q /\ w \in HiddenBy(u)'
                            THEN Hidden(want[q][w])
                            ELSE want[q][w]
    <3>1. pt[q][w] = IF \E u \in Callers : req[u].pid = q /\ w \in HiddenBy(u)
                     THEN Hidden(want[q][w])
                     ELSE want[q][w]
      BY <2>10 DEF SInv, PageTableExact
    <3>2. CASE q = p /\ w = v
      BY <2>4, <2>7, <2>10, <3>2
    <3>3. CASE ~(q = p /\ w = v)
      <4>1. (\E u \in Callers : req[u].pid = q /\ w \in HiddenBy(u)') <=>
            (\E u \in Callers : req[u].pid = q /\ w \in HiddenBy(u))
        BY <1>q, <2>4, <3>3
      <4>2. pt'[q][w] = pt[q][w]
        BY <2>7, <3>3
      <4>3. QED
        BY <3>1, <4>1, <4>2
    <3>4. QED
      BY <3>2, <3>3
  <2>11. PageTableExact'
    BY <2>1, <2>10 DEF PageTableExact
  <2>12. HiddenLocally'
    <3>1. tlb'[cpu[t]] = {}
      BY <1>4 DEF Clear, FlushLocal, TInv, TypeOK
    <3>2. QED
      BY <1>q, <2>1, <3>1 DEF HiddenLocally
  <2>13. QED
    BY <1>q, <2>8, <2>9, <2>11, <2>12 DEF SInv
<1>5. CASE HideDone(t)
  <2>1. /\ pc[t] = "hide" /\ pc'[t] = "restore"
        /\ i'[t] = 0 /\ req' = req /\ index' = i[t]
        /\ UNCHANGED <<want, raced, vir_addr, phy_addr>>
    BY <1>5 DEF HideDone, Goto, hist, TInv, TypeOK
  <2>2. HiddenBy(t)' = HiddenBy(t)
    BY <1>r, <2>1 DEF HiddenBy, Hiding, Restoring
  <2>3. SavedExact(t)'
    <3>1. \A k \in Pages : k < i[t] => Slot(t, k)
      BY <1>s, <2>1 DEF SavedExact, Hiding
    <3>2. \A k \in Pages : Slot(t, k)' <=> Slot(t, k)
      BY <2>1 DEF Slot, Vaddr
    <3>3. QED
      BY <2>1, <3>1, <3>2 DEF SavedExact, Hiding
  <2>4. QED
    BY <1>5, <1>z, <2>2, <2>3 DEF HideDone, hist
<1>6. CASE RestoreNext(t)
  <2>1. /\ pc[t] = "restore" /\ pc'[t] = "load_vir" /\ i[t] < index
        /\ i' = i /\ req' = req /\ index' = index
    BY <1>6 DEF RestoreNext, Goto, TInv, TypeOK
  <2>2. HiddenBy(t)' = HiddenBy(t)
    BY <2>1 DEF HiddenBy, Hiding, Restoring
  <2>3. SavedExact(t)'
    BY <1>6, <1>s, <2>1 DEF RestoreNext, hist, SavedExact, Slot, Vaddr, Hiding, Restoring
  <2>4. QED
    BY <1>6, <1>z, <2>2, <2>3 DEF RestoreNext, hist
<1>7. CASE LoadVir(t)
  <2>1. /\ pc[t] = "load_vir" /\ pc'[t] = "load_phy" /\ vir'[t] = vir_addr[i[t]]
        /\ i' = i /\ req' = req /\ index' = index
        /\ UNCHANGED <<want, raced, vir_addr, phy_addr>>
    BY <1>7 DEF LoadVir, Goto, hist, TInv, TypeOK
  <2>2. HiddenBy(t)' = HiddenBy(t)
    BY <2>1 DEF HiddenBy, Hiding, Restoring
  <2>3. Slot(t, i[t]) /\ i[t] < index
    BY <1>r, <1>s, <2>1 DEF SavedExact, Restoring, TInv, Bounds
  <2>4. \A k \in Pages : Slot(t, k)' <=> Slot(t, k)
    BY <2>1 DEF Slot, Vaddr
  <2>5. SavedExact(t)'
    BY <1>s, <2>1, <2>3, <2>4 DEF SavedExact, Slot, Vaddr, Hiding, Restoring
  <2>6. QED
    BY <1>7, <1>z, <2>2, <2>5 DEF LoadVir, hist
<1>8. CASE LoadPhy(t)
  <2>1. /\ pc[t] = "load_phy" /\ pc'[t] = "store" /\ phy'[t] = phy_addr[i[t]]
        /\ i' = i /\ req' = req /\ index' = index
        /\ UNCHANGED <<want, raced, vir_addr, phy_addr, vir>>
    BY <1>8 DEF LoadPhy, Goto, hist, TInv, TypeOK
  <2>2. HiddenBy(t)' = HiddenBy(t)
    BY <2>1 DEF HiddenBy, Hiding, Restoring
  <2>3. \A k \in Pages : Slot(t, k)' <=> Slot(t, k)
    BY <2>1 DEF Slot, Vaddr
  <2>4. SavedExact(t)'
    BY <1>s, <2>1, <2>3 DEF SavedExact, Vaddr, Hiding, Restoring
  <2>5. QED
    BY <1>8, <1>z, <2>2, <2>4 DEF LoadPhy, hist
<1>9. CASE EnV2p(t)
  <2> DEFINE v == req[t].base.page + i[t]
             p == req[t].pid
  <2>1. /\ pc[t] = "store" /\ pc'[t] = "restore"
        /\ i'[t] = i[t] + 1 /\ req' = req /\ index' = index
        /\ UNCHANGED <<want, raced, cpu, vir_addr, phy_addr, tlb>>
    BY <1>9 DEF EnV2p, Goto, hist, TInv, TypeOK
  <2>2. i[t] < index /\ i[t] \in Pages
    BY <1>s, <2>1 DEF SavedExact, TInv, Bounds
  <2>3. Slot(t, i[t]) /\ phy[t] = phy_addr[i[t]] /\ vir[t] = Vaddr(req[t], i[t])
    BY <1>r, <1>s, <2>1, <2>2 DEF SavedExact, Restoring
  <2>4. v \in Pages /\ vir[t].page = v
    BY <1>r, <2>3, VaddrType DEF Slot
  <2>5. HiddenBy(t)' = HiddenBy(t) \ {v}
    BY <1>r, <2>1, <2>2, <2>4 DEF HiddenBy, Hiding, Restoring
  <2>6. /\ <<p, v>> \notin raced => pt'[p][v] = want[p][v]
        /\ \A q \in Pids, w \in Pages : <<q, w>> # <<p, v>> => pt'[q][w] = pt[q][w]
    <3>1. pt' = [pt EXCEPT ![p][v] = phy[t]]
      BY <1>9, <2>4 DEF EnV2p
    <3>2. <<p, v>> \notin raced => phy[t] = want[p][v]
      BY <2>3 DEF Slot
    <3>3. QED
      BY <1>r, <2>4, <3>1, <3>2 DEF TInv, TypeOK
  <2>7. SavedExact(t)'
    <3>1. \A k \in Pages : i[t] + 1 <= k /\ k < index => Slot(t, k)
      BY <1>r, <1>s, <2>1 DEF SavedExact, Restoring
    <3>2. \A k \in Pages : Slot(t, k)' <=> Slot(t, k)
      BY <2>1 DEF Slot, Vaddr
    <3>3. QED
      BY <2>1, <3>1, <3>2 DEF SavedExact, Hiding
  <2>8. \A u \in Callers : NotPresent(u)'
    BY <1>q, <1>r, <2>1, <2>5, <2>6 DEF SInv, NotPresent, HiddenBy
  <2>9. ASSUME NEW q \in Pids, NEW w \in Pages, <<q, w>> \notin raced
        PROVE  pt'[q][w] = IF \E u \in Callers : req[u].pid = q /\ w \in HiddenBy(u)'
                           THEN Hidden(want[q][w])
                           ELSE want[q][w]
    <3>1. pt[q][w] = IF \E u \in Callers : req[u].pid = q /\ w \in HiddenBy(u)
                     THEN Hidden(want[q][w])
                     ELSE want[q][w]
      BY <2>9 DEF SInv, PageTableExact
    <3>2. CASE q = p /\ w = v
      BY <1>q, <2>5, <2>6, <2>9, <3>2
    <3>3. CASE ~(q = p /\ w = v)
      <4>1. (\E u \in Callers : req[u].pid = q /\ w \in HiddenBy(u)') <=>
            (\E u \in Callers : req[u].pid = q /\ w \in HiddenBy(u))
        BY <1>q, <2>5, <3>3
      <4>2. pt'[q][w] = pt[q][w]
        BY <2>6, <3>3
      <4>3. QED
        BY <3>1, <4>1, <4>2
    <3>4. QED
      BY <3>2, <3>3
  <2>10. PageTableExact'
    BY <2>1, <2>9 DEF PageTableExact
  <2>11. HiddenLocally'
    BY <1>q, <2>1, <2>5 DEF SInv, HiddenLocally
  <2>12. QED
    BY <1>q, <2>7, <2>8, <2>10, <2>11 DEF SInv
<1>10. CASE Return(t)
  <2>1. pc[t] = "restore" /\ pc'[t] = "idle" /\ ~(i[t] < index)
    BY <1>10 DEF Return, Goto, TInv, TypeOK
  <2>2. HiddenBy(t) = {} /\ HiddenBy(t)' = {}
    BY <1>r, <2>1 DEF HiddenBy, Hiding, Restoring
  <2>3. SavedExact(t)'
    BY <2>1 DEF SavedExact, Hiding, Restoring
  <2>4. QED
    BY <1>10, <1>z, <2>2, <2>3 DEF Return, hist
<1>11. QED
  BY <1>1, <1>2, <1>3, <1>4, <1>5, <1>6, <1>7, <1>8, <1>9, <1>10 DEF Step

LEMMA EnterSInv ==
    ASSUME TInv, SInv, NEW t \in Callers, NEW c \in Cpus, NEW r \in Requests, Enter(t, c, r)
    PROVE  SInv'
<1> SUFFICES ASSUME ~overlap' PROVE SInv'
  BY DEF SInv, PageTableExact, HiddenLocally
<1>1. ~overlap /\ \A u \in Callers : ~Active(u)
  BY DEF Enter
<1>2. /\ pc'[t] = "hide" /\ i'[t] = 0
      /\ \A u \in Callers : u # t => pc'[u] = pc[u]
      /\ UNCHANGED <<pt, want, raced>>
  BY DEF Enter, Goto, TInv, TypeOK
<1>3. \A u \in Callers : HiddenBy(u) = {}
  BY <1>1, InactiveHidesNothing
<1>4. \A u \in Callers : u # t => ~Active(u)'
  BY <1>1, <1>2 DEF Active
<1>5. Exclusive'
  BY <1>4 DEF Exclusive
<1>6. \A u \in Callers : HiddenBy(u)' = {}
  <2>1. \A u \in Callers : u # t => HiddenBy(u)' = {}
    BY <1>4 DEF HiddenBy, Active
  <2>2. HiddenBy(t)' = {}
    <3>1. req'[t] = r /\ r.base.page \in Nat /\ \A v \in Pages : v \in Nat
      BY PageAssumption, RequestType DEF Enter, TInv, TypeOK, Pages
    <3>2. QED
      BY <1>2, <3>1 DEF HiddenBy, Hiding, Restoring
  <2>3. QED
    BY <2>1, <2>2
<1>7. \A u \in Callers : SavedExact(u)'
  <2>1. \A u \in Callers : u # t => SavedExact(u)'
    BY <1>4 DEF SavedExact, Active, Hiding, Restoring
  <2>2. SavedExact(t)'
    BY <1>2, PageAssumption DEF SavedExact, Hiding, Restoring, Pages
  <2>3. QED
    BY <2>1, <2>2
<1>8. \A d \in Cpus : tlb'[d] \subseteq tlb[d]
  BY DEF Enter, TInv, TypeOK
<1>9. /\ \A u \in Callers : NotPresent(u)'
      /\ PageTableExact'
      /\ HiddenLocally'
  BY <1>1, <1>2, <1>3, <1>6, <1>8, QuietStep
<1>10. QED
  BY <1>5, <1>7, <1>9 DEF SInv

LEMMA AccessSInv ==
    ASSUME TInv, SInv, NEW c \in Cpus, NEW p \in Pids, NEW v \in Touched, Access(c, p, v)
    PROVE  SInv'
<1>1. UNCHANGED <<pt, vir_addr, phy_addr, index, pc, cpu, req, i, vir, phy, want, raced, overlap>>
  BY DEF Access, hist
<1> SUFFICES ASSUME ~overlap PROVE SInv'
  BY <1>1 DEF SInv, PageTableExact, HiddenLocally
<1>2. \A u \in Callers : HiddenBy(u)' = HiddenBy(u)
  BY <1>1 DEF HiddenBy
<1>3. Exclusive' /\ \A u \in Callers : SavedExact(u)' /\ NotPresent(u)'
  BY <1>1, <1>2 DEF SInv, Exclusive, Active, SavedExact, Slot, Vaddr, NotPresent
<1>4. PageTableExact'
  BY <1>1, <1>2 DEF SInv, PageTableExact
<1>5. HiddenLocally'
  <2>1. SUFFICES ASSUME NEW u \in Callers, NEW w \in HiddenBy(u)
                 PROVE  <<req[u].pid, w>> \notin tlb'[cpu[u]]
    BY <1>1, <1>2 DEF HiddenLocally
  <2>2. <<req[u].pid, w>> \notin tlb[cpu[u]]
    BY DEF SInv, HiddenLocally
  <2>3. <<req[u].pid, w>> # <<p, v>>
    BY DEF SInv, NotPresent, Access
  <2>4. QED
    BY <2>2, <2>3 DEF Access, TInv, TypeOK
<1>6. QED
  BY <1>3, <1>4, <1>5 DEF SInv

LEMMA ReloadSInv ==
    ASSUME TInv, SInv, NEW c \in Cpus, ReloadCr3(c)
    PROVE  SInv'
<1>1. UNCHANGED <<pt, vir_addr, phy_addr, index, pc, cpu, req, i, vir, phy, want, raced, overlap>>
  BY DEF ReloadCr3, hist
<1> SUFFICES ASSUME ~overlap PROVE SInv'
  BY <1>1 DEF SInv, PageTableExact, HiddenLocally
<1>2. \A u \in Callers : HiddenBy(u)' = HiddenBy(u)
  BY <1>1 DEF HiddenBy
<1>3. Exclusive' /\ \A u \in Callers : SavedExact(u)' /\ NotPresent(u)'
  BY <1>1, <1>2 DEF SInv, Exclusive, Active, SavedExact, Slot, Vaddr, NotPresent
<1>4. PageTableExact'
  BY <1>1, <1>2 DEF SInv, PageTableExact
<1>5. \A d \in Cpus : tlb'[d] \subseteq tlb[d]
  BY DEF ReloadCr3, TInv, TypeOK
<1>6. \A u \in Callers : cpu[u] \in Cpus
  BY DEF TInv, TypeOK
<1>7. HiddenLocally'
  BY <1>1, <1>2, <1>5, <1>6 DEF SInv, HiddenLocally
<1>8. QED
  BY <1>3, <1>4, <1>7 DEF SInv

LEMMA RemapSInv ==
    ASSUME TInv, SInv, NEW p \in Pids, NEW v \in Pages, NEW f \in Frames, Remap(p, v, f)
    PROVE  SInv'
<1>1. UNCHANGED <<vir_addr, phy_addr, index, pc, cpu, req, i, vir, phy, overlap>>
  BY DEF Remap
<1> SUFFICES ASSUME ~overlap PROVE SInv'
  BY <1>1 DEF SInv, PageTableExact, HiddenLocally
<1>2. \A u \in Callers : HiddenBy(u)' = HiddenBy(u)
  BY <1>1 DEF HiddenBy
<1>3. \A u \in Callers : req[u].pid = p => v \notin HiddenBy(u)
  BY DEF SInv, NotPresent, Remap
<1>4. /\ raced \subseteq raced'
      /\ InWindow(p, v) => <<p, v>> \in raced'
      /\ pt'[p][v] = want'[p][v]
      /\ \A q \in Pids, w \in Pages : <<q, w>> # <<p, v>> =>
            pt'[q][w] = pt[q][w] /\ want'[q][w] = want[q][w]
  BY DEF Remap, TInv, TypeOK
<1>5. ASSUME NEW u \in Callers, NEW k \in Nat, Slot(u, k),
             req[u].base.page + k \in HiddenBy(u) \/ (pc[u] = "clear" /\ k = i[u])
      PROVE  Slot(u, k)'
  <2>1. CASE <<req[u].pid, req[u].base.page + k>> = <<p, v>>
    <3>1. pc[u] = "clear" /\ k = i[u]
      BY <1>3, <1>5, <2>1
    <3>2. InWindow(p, v)
      BY <2>1, <3>1 DEF InWindow
    <3>3. QED
      BY <1>1, <1>4, <1>5, <2>1, <3>2 DEF Slot, Vaddr
  <2>2. CASE <<req[u].pid, req[u].base.page + k>> # <<p, v>>
    <3>1. req[u].pid \in Pids
      BY RequestType DEF TInv, TypeOK
    <3>2. QED
      BY <1>1, <1>4, <1>5, <2>2, <3>1 DEF Slot, Vaddr
  <2>3. QED
    BY <2>1, <2>2
<1>6. ASSUME NEW u \in Callers PROVE SavedExact(u)'
  <2>1. SavedExact(u)
    BY DEF SInv
  <2>2. i[u] \in Nat /\ req[u].base.page \in Nat /\ \A k \in Pages : k \in Nat
    BY PageAssumption, RequestType DEF TInv, TypeOK, Pages
  <2>3. ASSUME pc[u] \in Hiding, NEW k \in Pages, k < i[u]
        PROVE  Slot(u, k)'
    <3>1. Slot(u, k)
      BY <2>1, <2>3 DEF SavedExact
    <3>2. req[u].base.page + k \in HiddenBy(u)
      BY <2>2, <2>3, <3>1 DEF HiddenBy, Slot
    <3>3. QED
      BY <1>5, <2>2, <3>1, <3>2
  <2>4. ASSUME pc[u] \in Restoring, NEW k \in Pages, i[u] <= k, k < index
        PROVE  Slot(u, k)'
    <3>1. Slot(u, k)
      BY <2>1, <2>4 DEF SavedExact
    <3>2. req[u].base.page + k \in HiddenBy(u)
      BY <2>2, <2>4, <3>1 DEF HiddenBy, Slot
    <3>3. QED
      BY <1>5, <2>2, <3>1, <3>2
  <2>5. ASSUME pc[u] = "clear" PROVE Slot(u, i[u])'
    <3>1. ASSUME NEW k \in Nat, k = i[u] PROVE Slot(u, k)'
      BY <1>5, <2>1, <2>5, <3>1 DEF SavedExact
    <3>2. QED
      BY <1>1, <2>2, <3>1 DEF Slot
  <2>6. QED
    BY <1>1, <2>1, <2>3, <2>4, <2>5 DEF SavedExact, Vaddr
<1>7. \A u \in Callers : NotPresent(u)'
  <2>1. SUFFICES ASSUME NEW u \in Callers, NEW w \in HiddenBy(u)
                 PROVE  ~pt'[req[u].pid][w].present
    BY <1>1, <1>2 DEF NotPresent
  <2>2. <<req[u].pid, w>> # <<p, v>> /\ req[u].pid \in Pids /\ w \in Pages
    BY <1>3, RequestType DEF TInv, TypeOK, HiddenBy
  <2>3. QED
    BY <1>4, <2>2 DEF SInv, NotPresent
<1>8. PageTableExact'
  <2>1. SUFFICES ASSUME NEW q \in Pids, NEW w \in Pages, <<q, w>> \notin raced'
                 PROVE  pt'[q][w] = IF \E u \in Callers : req[u].pid = q /\ w \in HiddenBy(u)
                                    THEN Hidden(want'[q][w])
                                    ELSE want'[q][w]
    BY <1>1, <1>2 DEF PageTableExact
  <2>2. CASE <<q, w>> = <<p, v>>
    BY <1>3, <1>4, <2>2
  <2>3. CASE <<q, w>> # <<p, v>>
    BY <1>4, <2>1, <2>3 DEF SInv, PageTableExact
  <2>4. QED
    BY <2>2, <2>3
<1>9. HiddenLocally'
  <2>1. \A c \in Cpus : tlb'[c] \subseteq tlb[c]
    BY DEF Remap, TInv, TypeOK
  <2>2. QED
    BY <1>1, <1>2, <2>1 DEF SInv, HiddenLocally, TInv, TypeOK
<1>10. QED
  BY <1>1, <1>6, <1>7, <1>8, <1>9 DEF SInv, Exclusive, Active

LEMMA NextSInv == TInv /\ SInv /\ TInv' /\ [Next]_vars => SInv'
<1> SUFFICES ASSUME TInv, SInv, TInv', [Next]_vars PROVE SInv'
  OBVIOUS
<1>1. CASE UNCHANGED vars
  <2>1. \A u \in Callers : HiddenBy(u)' = HiddenBy(u)
    BY <1>1 DEF vars, HiddenBy
  <2>2. /\ Exclusive' <=> Exclusive
        /\ \A u \in Callers : SavedExact(u)' <=> SavedExact(u)
    BY <1>1 DEF vars, Exclusive, Active, SavedExact, Slot, Vaddr
  <2>3. /\ \A u \in Callers : NotPresent(u)' <=> NotPresent(u)
        /\ HiddenLocally' <=> HiddenLocally
    BY <1>1, <2>1 DEF vars, NotPresent, HiddenLocally
  <2>4. PageTableExact' <=> PageTableExact
    BY <1>1, <2>1 DEF vars, PageTableExact
  <2>5. QED
    BY <1>1, <2>2, <2>3, <2>4 DEF vars, SInv
<1>2. CASE Next
  BY <1>2, StepSInv, EnterSInv, AccessSInv, ReloadSInv, RemapSInv DEF Next
<1>3. QED
  BY <1>1, <1>2

\* A call of trampoline that overlaps no other leaves the page tables exactly
\* as the kernel has them, for every request, page table and schedule.
THEOREM PageTablesRestored == Spec => []PageTableExact
<1>1. SInv => PageTableExact
  BY DEF SInv
<1>2. QED
  BY <1>1, TableSafe, InitSInv, NextSInv, PTL DEF Spec

\* The CPU that runs a call never holds a translation of a page it has hidden.
THEOREM HidingIsLocal == Spec => []HiddenLocally
<1>1. SInv => HiddenLocally
  BY DEF SInv
<1>2. QED
  BY <1>1, TableSafe, InitSInv, NextSInv, PTL DEF Spec

-----------------------------------------------------------------------------
(* The bound of pinfo[], and what the hiding loop covers.                  *)

LEMMA MultMonotone ==
    ASSUME NEW a \in Nat, NEW b \in Nat, NEW c \in Nat, a <= b
    PROVE  a * c <= b * c
  OBVIOUS

LEMMA DivFloor ==
    ASSUME NEW a \in Nat, NEW c \in Nat \ {0}
    PROVE  a \div c \in Nat /\ (a \div c) * c <= a
  OBVIOUS

LEMMA OverrunStep ==
    ASSUME TInv, OverrunOnlyIfTooBig, NEW t \in Callers, Step(t)
    PROVE  OverrunOnlyIfTooBig'
<1> DEFINE Safe(u) ==
      /\ pc[u] = "overrun" => req[u].size > Slots * PageSize
      /\ pc[u] \in Restoring /\ req[u].size > Slots * PageSize =>
            \E k \in 0..Slots : Vaddr(req[u], k) = RandomDataPage
<1>1. \A u \in Callers : Safe(u)
  BY DEF OverrunOnlyIfTooBig
<1>2. ASSUME NEW u \in Callers, u # t PROVE Safe(u)'
  <2>1. pc'[u] = pc[u] /\ req'[u] = req[u]
    BY <1>2 DEF Step, HideNext, SaveVir, SavePhy, Clear, HideDone, RestoreNext, LoadVir,
                LoadPhy, EnV2p, Return, Goto, TInv, TypeOK
  <2>2. QED
    BY <1>1, <2>1 DEF Vaddr
<1>3. Safe(t)'
  <2>1. CASE HideNext(t)
    <3>1. /\ i[t] * PageSize < req[t].size
          /\ req' = req
          /\ pc'[t] = IF i[t] < Slots THEN "save_vir" ELSE "overrun"
          /\ pc[t] = "hide"
      BY <2>1 DEF HideNext, Goto, TInv, TypeOK
    <3>2. i[t] <= Slots /\ i[t] \in Nat /\ Slots \in Nat /\ PageSize \in Nat
      BY <3>1, PageAssumption DEF TInv, TypeOK, Bounds, Hiding
    <3>3. pc'[t] = "overrun" => i[t] = Slots
      BY <3>1, <3>2
    <3>4. req[t].size \in Nat
      BY RequestType DEF TInv, TypeOK
    <3>5. QED
      BY <3>1, <3>2, <3>3, <3>4 DEF Restoring
  <2>2. CASE HideDone(t)
    <3>1. /\ ~(i[t] * PageSize < req[t].size) \/ Vaddr(req[t], i[t]) = RandomDataPage
          /\ req' = req /\ pc[t] = "hide" /\ pc'[t] = "restore"
      BY <2>2 DEF HideDone, Goto, TInv, TypeOK
    <3>2. /\ i[t] <= Slots /\ i[t] \in Nat /\ Slots \in Nat /\ PageSize \in Nat
          /\ req[t].size \in Nat
      BY <3>1, PageAssumption, RequestType DEF TInv, TypeOK, Bounds, Hiding
    <3>3. i[t] * PageSize <= Slots * PageSize
      BY <3>2, MultMonotone
    <3>4. i[t] * PageSize \in Nat /\ Slots * PageSize \in Nat
      BY <3>2
    <3>5. req[t].size > Slots * PageSize => Vaddr(req[t], i[t]) = RandomDataPage
      BY <3>1, <3>2, <3>3, <3>4
    <3>6. QED
      BY <3>1, <3>2, <3>5 DEF Vaddr
  <2>3. CASE RestoreNext(t) \/ LoadVir(t) \/ LoadPhy(t) \/ EnV2p(t)
    <3>1. pc[t] \in Restoring /\ pc'[t] \in Restoring /\ req' = req /\ pc'[t] # "overrun"
      BY <2>3 DEF RestoreNext, LoadVir, LoadPhy, EnV2p, Goto, TInv, TypeOK, Restoring
    <3>2. QED
      BY <1>1, <3>1 DEF Vaddr
  <2>4. CASE SaveVir(t) \/ SavePhy(t) \/ Clear(t) \/ Return(t)
    <3>1. pc'[t] \notin Restoring /\ pc'[t] # "overrun"
      BY <2>4 DEF SaveVir, SavePhy, Clear, Return, Goto, TInv, TypeOK, Restoring
    <3>2. QED
      BY <3>1
  <2>5. QED
    BY <2>1, <2>2, <2>3, <2>4 DEF Step
<1>4. QED
  BY <1>2, <1>3 DEF OverrunOnlyIfTooBig

\* pinfo[] is overrun only by a call with more pages than it has slots, and
\* such a call never gets to its restore loop (unless it stops early).
THEOREM TableBound == Spec => []OverrunOnlyIfTooBig
<1>1. Init => OverrunOnlyIfTooBig
  BY DEF Init, OverrunOnlyIfTooBig, Restoring
<1>2. TInv /\ OverrunOnlyIfTooBig /\ [Next]_vars => OverrunOnlyIfTooBig'
  <2> SUFFICES ASSUME TInv, OverrunOnlyIfTooBig, [Next]_vars
               PROVE  OverrunOnlyIfTooBig'
    OBVIOUS
  <2>1. CASE \E t \in Callers : Step(t)
    BY <2>1, OverrunStep
  <2>2. CASE \E t \in Callers, c \in Cpus, r \in Requests : Enter(t, c, r)
    <3>1. PICK t \in Callers, c \in Cpus, r \in Requests : Enter(t, c, r)
      BY <2>2
    <3>2. /\ pc'[t] = "hide"
          /\ \A u \in Callers : u # t => pc'[u] = pc[u] /\ req'[u] = req[u]
      BY <3>1 DEF Enter, Goto, TInv, TypeOK
    <3>3. QED
      BY <3>2 DEF OverrunOnlyIfTooBig, Restoring, Vaddr
  <2>3. CASE UNCHANGED <<pc, req>>
    BY <2>3 DEF OverrunOnlyIfTooBig, Vaddr
  <2>4. QED
    BY <2>1, <2>2, <2>3 DEF Next, Access, ReloadCr3, Remap, vars
<1>3. QED
  BY <1>1, <1>2, TableSafe, PTL DEF Spec

\* Why the hiding loop of the active call stopped.
LoopExit ==
    ~overlap => \A t \in Callers : pc[t] \in Restoring =>
        \/ ~(index * PageSize < req[t].size)
        \/ Vaddr(req[t], index) = RandomDataPage

LEMMA NextLoopExit ==
    TInv /\ SInv /\ LoopExit /\ [Next]_vars => LoopExit'
<1> SUFFICES ASSUME TInv, SInv, LoopExit, [Next]_vars, ~overlap',
                    NEW t \in Callers, pc'[t] \in Restoring
             PROVE  (\/ ~(index * PageSize < req[t].size)
                     \/ Vaddr(req[t], index) = RandomDataPage)'
  BY DEF LoopExit
<1>1. ASSUME NEW u \in Callers, Step(u) PROVE (\/ ~(index * PageSize < req[t].size)
                                               \/ Vaddr(req[t], index) = RandomDataPage)'
  <2>o. ~overlap
    BY <1>1 DEF Step, HideNext, SaveVir, SavePhy, Clear, HideDone, RestoreNext, LoadVir,
         LoadPhy, EnV2p, Return, hist
  <2>a. Active(u)
    BY <1>1 DEF Step, HideNext, SaveVir, SavePhy, Clear, HideDone, RestoreNext, LoadVir,
         LoadPhy, EnV2p, Return, Goto, Active, Hiding, Restoring
  <2>p. u # t => pc'[t] = pc[t]
    BY <1>1 DEF Step, HideNext, SaveVir, SavePhy, Clear, HideDone, RestoreNext, LoadVir,
         LoadPhy, EnV2p, Return, Goto, TInv, TypeOK
  <2>1. u = t
    BY <2>o, <2>a, <2>p DEF SInv, Exclusive, Active
  <2>2. CASE HideDone(t)
    BY <2>2 DEF HideDone, Vaddr
  <2>3. CASE RestoreNext(t) \/ LoadVir(t) \/ LoadPhy(t) \/ EnV2p(t)
    <3>1. pc[t] \in Restoring /\ req' = req /\ index' = index
      BY <2>3 DEF RestoreNext, LoadVir, LoadPhy, EnV2p, Goto, Restoring
    <3>2. QED
      BY <2>o, <3>1 DEF LoopExit, Vaddr
  <2>4. CASE HideNext(t) \/ SaveVir(t) \/ SavePhy(t) \/ Clear(t) \/ Return(t)
    <3>1. pc'[t] \notin Restoring
      BY <2>4 DEF HideNext, SaveVir, SavePhy, Clear, Return, Goto, TInv, TypeOK, Restoring
    <3>2. QED
      BY <3>1
  <2>5. QED
    BY <1>1, <2>1, <2>2, <2>3, <2>4 DEF Step
<1>2. ASSUME NEW u \in Callers, NEW c \in Cpus, NEW r \in Requests, Enter(u, c, r)
      PROVE  FALSE
  <2>1. \A w \in Callers : ~Active(w)
    BY <1>2 DEF Enter
  <2>2. pc'[t] = "hide" \/ pc'[t] = pc[t]
    BY <1>2 DEF Enter, Goto, TInv, TypeOK
  <2>3. QED
    BY <2>1, <2>2 DEF Active, Restoring
<1>3. CASE UNCHANGED <<pc, req, index, overlap>>
  BY <1>3 DEF LoopExit, Vaddr
<1>4. QED
  BY <1>1, <1>2, <1>3 DEF Next, Access, ReloadCr3, Remap, vars, hist

\* Every byte of an aligned request is unreachable once its hiding loop ends.
THEOREM WholeRangeHidden == Spec => []HidesWholeRange
<1>1. TInv /\ SInv /\ LoopExit => HidesWholeRange
  <2> SUFFICES ASSUME TInv, SInv, LoopExit, ~overlap,
                      NEW t \in Callers, pc[t] = "restore", i[t] = 0,
                      NEW a \in 0..(req[t].size - 1)
               PROVE  \/ ~pt[req[t].pid][req[t].base.page + a \div PageSize].present
                      \/ \E j \in 0..(a \div PageSize) : Vaddr(req[t], j) = RandomDataPage
    BY DEF HidesWholeRange
  <2> DEFINE k == a \div PageSize
  <2>1. /\ req[t].size \in Nat /\ req[t].base.page \in Nat /\ a \in Nat /\ a < req[t].size
        /\ PageSize \in Nat \ {0} /\ index \in Nat /\ LastPage \in Nat /\ index <= LastPage + 1
    BY PageAssumption, RequestType DEF TInv, TypeOK, Pages
  <2>2. k \in Nat /\ k * PageSize <= a
    BY <2>1, DivFloor
  <2> HIDE DEF k
  <2>3. CASE k < index
    <3>1. k \in Pages
      BY <2>1, <2>2, <2>3 DEF Pages
    <3>2. Slot(t, k)
      BY <2>2, <2>3, <3>1 DEF SInv, SavedExact, Restoring
    <3>3. req[t].base.page + k \in HiddenBy(t)
      BY <2>1, <2>2, <2>3, <3>2 DEF HiddenBy, Slot, Restoring
    <3>4. QED
      BY <3>3 DEF SInv, NotPresent, k
  <2>4. CASE ~(k < index)
    <3>1. index * PageSize <= k * PageSize
      BY <2>1, <2>2, <2>4, MultMonotone
    <3>2. index * PageSize \in Nat /\ k * PageSize \in Nat
      BY <2>1, <2>2
    <3>3. index * PageSize < req[t].size
      BY <2>1, <2>2, <3>1, <3>2
    <3>4. Vaddr(req[t], index) = RandomDataPage
      BY <3>3 DEF LoopExit, Restoring
    <3>5. index \in 0..k
      BY <2>1, <2>2, <2>4
    <3>6. QED
      BY <3>4, <3>5 DEF k
  <2>5. QED
    BY <2>3, <2>4
<1>2. Init => LoopExit
  BY DEF Init, LoopExit, Restoring
<1>3. QED
  BY <1>1, <1>2, TableSafe, InitSInv, NextSInv, NextLoopExit, PTL DEF Spec

-----------------------------------------------------------------------------
(* Overlapping calls with the same target.                                 *)

\* Slot k of pinfo names page base + k and one of that page's frames.
Owned(p, v, e) == Owner[e.frame] = <<p, v>>

SlotOwned(t, k) ==
    /\ req[t].base.page + k \in Pages
    /\ vir_addr[k] = Vaddr(req[t], k)
    /\ Owned(req[t].pid, req[t].base.page + k, phy_addr[k])

CallOwned(t) ==
    /\ \A k \in Pages : k < index => SlotOwned(t, k)
    /\ pc[t] \in Hiding => \A k \in Pages : k < i[t] => SlotOwned(t, k)
    /\ pc[t] \in {"save_phy", "clear"} => vir_addr[i[t]] = Vaddr(req[t], i[t])
    /\ pc[t] = "clear" =>
          /\ SlotOwned(t, i[t])
          /\ Owned(req[t].pid, req[t].base.page + i[t], phy[t])
    /\ pc[t] \in {"load_vir", "load_phy", "store"} => SlotOwned(t, i[t])
    /\ pc[t] \in {"load_phy", "store"} => vir[t] = Vaddr(req[t], i[t])
    /\ pc[t] = "store" => Owned(req[t].pid, req[t].base.page + i[t], phy[t])

FInv ==
    /\ \A p \in Pids, v \in Pages : Owned(p, v, pt[p][v])
    /\ \A t \in Callers : CallOwned(t)

\* With one target, a slot is the same for every caller.
LEMMA SameSlots ==
    ASSUME SameTarget, TInv, NEW t \in Callers, NEW u \in Callers
    PROVE  /\ req[t].pid = req[u].pid
           /\ req[t].base = req[u].base
           /\ \A k : Vaddr(req[t], k) = Vaddr(req[u], k)
           /\ \A k : SlotOwned(t, k) <=> SlotOwned(u, k)
<1>1. req[t] \in Requests /\ req[u] \in Requests
  BY DEF TInv, TypeOK
<1>2. req[t].pid = req[u].pid /\ req[t].base = req[u].base
  BY <1>1 DEF SameTarget
<1>3. QED
  BY <1>2 DEF Vaddr, SlotOwned

\* A step that only extends or rewrites slots with what they already hold
\* keeps what the other callers rely on.
LEMMA OthersOwned ==
    ASSUME SameTarget, TInv, TInv', NEW t \in Callers, NEW u \in Callers, u # t, CallOwned(u),
           pc'[u] = pc[u], i'[u] = i[u], vir'[u] = vir[u], phy'[u] = phy[u],
           req'[u].pid = req[u].pid, req'[u].base = req[u].base,
           \A k \in 0..(Slots - 1) : SlotOwned(u, k) => SlotOwned(u, k)',
           \A k \in 0..(Slots - 1) :
              vir_addr[k] = Vaddr(req[u], k) => vir_addr'[k] = Vaddr(req[u], k),
           \A k \in Pages : k < index' => SlotOwned(u, k)'
    PROVE  CallOwned(u)'
<1> USE PageAssumption
<1>1. \A k : Vaddr(req[u], k)' = Vaddr(req[u], k)
  BY DEF Vaddr
<1>2. i[u] \in Nat /\ Slots \in Nat /\ index \in Nat /\ \A k \in Pages : k \in Nat
  BY DEF TInv, TypeOK, Pages
<1>3. pc[u] \in Hiding => \A k \in Pages : k < i[u] => SlotOwned(u, k)'
  BY <1>2 DEF CallOwned, TInv, Bounds
<1>4. pc[u] \in {"save_phy", "clear"} => vir_addr'[i[u]] = Vaddr(req[u], i[u])
  BY <1>2 DEF CallOwned, TInv, Bounds
<1>5. pc[u] \in {"clear", "load_vir", "load_phy", "store"} =>
         \A k \in Nat : k = i[u] => SlotOwned(u, k)'
  BY <1>2 DEF CallOwned, TInv, Bounds
<1>6. pc[u] \in {"clear", "load_vir", "load_phy", "store"} => SlotOwned(u, i[u])'
  BY <1>2, <1>5 DEF SlotOwned
<1>7. /\ pc[u] \in {"load_phy", "store"} => vir'[u] = Vaddr(req[u], i[u])
      /\ pc[u] \in {"clear", "store"} =>
            Owned(req[u].pid, req[u].base.page + i[u], phy[u])'
  BY DEF CallOwned, Owned
<1>8. QED
  BY <1>1, <1>3, <1>4, <1>6, <1>7 DEF CallOwned

LEMMA InitFInv == Init /\ SameTarget => FInv
<1> SUFFICES ASSUME Init PROVE FInv
  OBVIOUS
<1>1. \A p \in Pids, v \in Pages : Owned(p, v, pt[p][v])
  BY DEF Init, Owned
<1>2. index = 0 /\ \A k \in Pages : ~(k < 0)
  BY PageAssumption DEF Init, Pages
<1>4. \A t \in Callers : pc[t] = "idle"
  BY DEF Init
<1>5. \A t \in Callers : CallOwned(t)
  BY <1>2, <1>4 DEF CallOwned, Hiding
<1>6. QED
  BY <1>1, <1>5 DEF FInv

LEMMA StepFInv ==
    ASSUME SameTarget, TInv, TInv', FInv, NEW t \in Callers, Step(t)
    PROVE  FInv'
<1> USE PageAssumption
<1> DEFINE v == req[t].base.page + i[t]
           p == req[t].pid
<1>r. /\ i[t] \in Nat /\ Slots \in Nat /\ index \in Nat /\ LastPage \in Nat
      /\ \A k \in Pages : k \in Nat
      /\ req[t] \in Requests /\ p \in Pids /\ req[t].base.page \in Nat
  BY RequestType DEF TInv, TypeOK, Pages
<1>f. ASSUME NEW u \in Callers, u # t
      PROVE  /\ pc'[u] = pc[u] /\ i'[u] = i[u] /\ vir'[u] = vir[u] /\ phy'[u] = phy[u]
             /\ req'[u] = req[u]
  BY <1>f DEF Step, HideNext, SaveVir, SavePhy, Clear, HideDone, RestoreNext, LoadVir,
         LoadPhy, EnV2p, Return, Goto, TInv, TypeOK
<1>g. req'[t].pid = req[t].pid /\ req'[t].base = req[t].base
  <2>1. req'[t] \in Requests /\ req[t] \in Requests
    BY DEF TInv, TypeOK
  <2>2. QED
    BY <2>1 DEF SameTarget
<1>v. \A u \in Callers : \A k : Vaddr(req[u], k)' = Vaddr(req[u], k)
  BY <1>f, <1>g DEF Vaddr
<1>c. CallOwned(t)
  BY DEF FInv
\* What remains to be shown of a step: the frames, the slots and its own part.
<1>z. ASSUME \A q \in Pids, w \in Pages : Owned(q, w, pt'[q][w]),
             \A k \in 0..(Slots - 1) : SlotOwned(t, k) => SlotOwned(t, k)',
             \A k \in 0..(Slots - 1) :
                vir_addr[k] = Vaddr(req[t], k) => vir_addr'[k] = Vaddr(req[t], k),
             \A k \in Pages : k < index' => SlotOwned(t, k)',
             CallOwned(t)'
      PROVE  FInv'
  <2>1. ASSUME NEW u \in Callers, u # t PROVE CallOwned(u)'
    <3>1. /\ \A k : Vaddr(req[t], k) = Vaddr(req[u], k)
          /\ \A k : SlotOwned(t, k) <=> SlotOwned(u, k)
      BY SameSlots
    <3>2. \A k : SlotOwned(t, k)' <=> SlotOwned(u, k)'
      <4>1. req'[t].pid = req'[u].pid /\ req'[t].base = req'[u].base
        BY <1>f, <1>g, <2>1, SameSlots
      <4>2. QED
        BY <4>1 DEF SlotOwned, Vaddr
    <3>3. /\ \A k \in 0..(Slots - 1) : SlotOwned(u, k) => SlotOwned(u, k)'
          /\ \A k \in 0..(Slots - 1) :
                vir_addr[k] = Vaddr(req[u], k) => vir_addr'[k] = Vaddr(req[u], k)
          /\ \A k \in Pages : k < index' => SlotOwned(u, k)'
      BY <1>z, <3>1, <3>2
    <3>4. CallOwned(u)
      BY DEF FInv
    <3>5. QED
      BY <1>f, <2>1, <3>3, <3>4, OthersOwned
  <2>2. QED
    BY <1>z, <2>1 DEF FInv, Owned
\* A step that writes neither pinfo nor index nor the page tables.
<1>y. ASSUME UNCHANGED <<pt, vir_addr, phy_addr, index>>, CallOwned(t)' PROVE FInv'
  <2>1. \A k : SlotOwned(t, k)' <=> SlotOwned(t, k)
    BY <1>y, <1>g, <1>v DEF SlotOwned, Owned
  <2>2. \A k \in Pages : k < index' => SlotOwned(t, k)'
    BY <1>c, <1>y, <2>1 DEF CallOwned
  <2>3. \A q \in Pids, w \in Pages : Owned(q, w, pt'[q][w])
    BY <1>y DEF FInv
  <2>4. QED
    BY <1>y, <1>z, <2>1, <2>2, <2>3
<1>s. ASSUME UNCHANGED <<vir_addr, phy_addr>> PROVE \A k : SlotOwned(t, k)' <=> SlotOwned(t, k)
  BY <1>s, <1>g, <1>v DEF SlotOwned, Owned
<1>1. CASE HideNext(t)
  <2>1. /\ pc[t] = "hide" /\ pc'[t] \in {"save_vir", "overrun"}
        /\ UNCHANGED <<pt, vir_addr, phy_addr, index, i, req>>
    BY <1>1 DEF HideNext, Goto, TInv, TypeOK
  <2>2. CallOwned(t)'
    BY <1>c, <1>s, <2>1 DEF CallOwned, Hiding
  <2>3. QED
    BY <1>y, <2>1, <2>2
<1>2. CASE SaveVir(t)
  <2>1. /\ pc[t] = "save_vir" /\ pc'[t] = "save_phy"
        /\ UNCHANGED <<pt, phy_addr, index, i, req>>
    BY <1>2 DEF SaveVir, Goto, TInv, TypeOK
  <2>2. i[t] \in 0..(Slots - 1)
    BY <1>r, <2>1 DEF TInv, Bounds
  <2>3. /\ vir_addr'[i[t]] = Vaddr(req[t], i[t])
        /\ \A k \in 0..(Slots - 1) : k # i[t] => vir_addr'[k] = vir_addr[k]
    BY <1>2, <2>2 DEF SaveVir, TInv, TypeOK
  <2>4. \A k \in 0..(Slots - 1) : SlotOwned(t, k) => SlotOwned(t, k)'
    BY <1>v, <2>1, <2>3 DEF SlotOwned, Owned
  <2>5. \A k \in 0..(Slots - 1) :
           vir_addr[k] = Vaddr(req[t], k) => vir_addr'[k] = Vaddr(req[t], k)
    BY <2>3
  <2>6. \A k \in Pages : k < index' => SlotOwned(t, k)'
    BY <1>c, <1>r, <2>1, <2>4 DEF CallOwned, TInv
  <2>7. \A k \in Pages : k < i[t] => SlotOwned(t, k)'
    BY <1>c, <1>r, <2>1, <2>2, <2>4 DEF CallOwned, Hiding
  <2>8. CallOwned(t)'
    BY <1>v, <2>1, <2>3, <2>6, <2>7 DEF CallOwned
  <2>9. QED
    BY <1>z, <2>1, <2>4, <2>5, <2>6, <2>8 DEF FInv
<1>3. CASE SavePhy(t)
  <2>1. /\ pc[t] = "save_phy" /\ pc'[t] = "clear"
        /\ UNCHANGED <<pt, vir_addr, index, i, req>>
    BY <1>3 DEF SavePhy, Goto, TInv, TypeOK
  <2>2. i[t] \in 0..(Slots - 1) /\ v \in Pages
    BY <1>r, <2>1 DEF TInv, Bounds
  <2>3. /\ phy_addr'[i[t]] = pt[p][v]
        /\ phy'[t] = pt[p][v]
        /\ \A k \in 0..(Slots - 1) : k # i[t] => phy_addr'[k] = phy_addr[k]
    BY <1>3, <1>r, <2>2, VaddrType DEF SavePhy, Walk, TInv, TypeOK
  <2>4. Owned(p, v, pt[p][v])
    BY <1>r, <2>2 DEF FInv
  <2>5. \A k \in 0..(Slots - 1) : SlotOwned(t, k) => SlotOwned(t, k)'
    BY <1>v, <2>1, <2>3, <2>4 DEF SlotOwned, Owned
  <2>6. SlotOwned(t, i[t])' /\ Owned(p, v, phy'[t])
    BY <1>c, <1>v, <2>1, <2>2, <2>3, <2>4 DEF CallOwned, SlotOwned, Owned
  <2>7. \A k \in Pages : k < index' => SlotOwned(t, k)'
    BY <1>c, <1>r, <2>1, <2>5 DEF CallOwned, TInv
  <2>8. \A k \in Pages : k < i[t] => SlotOwned(t, k)'
    BY <1>c, <1>r, <2>1, <2>2, <2>5 DEF CallOwned, Hiding
  <2>9. CallOwned(t)'
    BY <2>1, <2>6, <2>7, <2>8 DEF CallOwned, SlotOwned
  <2>10. QED
    BY <1>z, <2>1, <2>5, <2>7, <2>9 DEF FInv
<1>4. CASE Clear(t)
  <2>1. /\ pc[t] = "clear" /\ pc'[t] = "hide" /\ i'[t] = i[t] + 1
        /\ UNCHANGED <<vir_addr, phy_addr, index, req>>
    BY <1>4 DEF Clear, Goto, TInv, TypeOK
  <2>2. v \in Pages
    BY <1>r, <2>1 DEF TInv, Bounds
  <2>3. \A q \in Pids, w \in Pages : Owned(q, w, pt'[q][w])
    <3>1. Vaddr(req[t], i[t]).page = v
      BY <1>r, <2>2, VaddrType
    <3>2. PICK e \in {phy[t], pt[p][v]} : pt' = [pt EXCEPT ![p][v] = Hidden(e)]
      BY <1>4, <3>1 DEF Clear, Walk
    <3>3. Owned(p, v, e)
      BY <1>c, <1>r, <2>1, <2>2, <3>2 DEF CallOwned, FInv
    <3>4. Owned(p, v, Hidden(e))
      BY <3>3 DEF Owned, Hidden
    <3>5. QED
      BY <1>r, <2>2, <3>2, <3>4 DEF FInv, TInv, TypeOK
  <2>4. \A k \in Pages : k < i[t] + 1 => SlotOwned(t, k)
    BY <1>c, <1>r, <2>1 DEF CallOwned, Hiding
  <2>5. CallOwned(t)'
    BY <1>c, <1>s, <2>1, <2>4 DEF CallOwned
  <2>6. QED
    BY <1>c, <1>s, <1>z, <2>1, <2>3, <2>5 DEF CallOwned
<1>5. CASE HideDone(t)
  <2>1. /\ pc[t] = "hide" /\ pc'[t] = "restore" /\ index' = i[t]
        /\ UNCHANGED <<pt, vir_addr, phy_addr, req>>
    BY <1>5 DEF HideDone, Goto, TInv, TypeOK
  <2>2. \A k \in Pages : k < index' => SlotOwned(t, k)'
    BY <1>c, <1>s, <2>1 DEF CallOwned, Hiding
  <2>3. CallOwned(t)'
    BY <2>1, <2>2 DEF CallOwned, Hiding
  <2>4. QED
    BY <1>s, <1>z, <2>1, <2>2, <2>3 DEF FInv
<1>6. CASE RestoreNext(t)
  <2>1. /\ pc[t] = "restore" /\ pc'[t] = "load_vir" /\ i[t] < index
        /\ UNCHANGED <<pt, vir_addr, phy_addr, index, i, req>>
    BY <1>6 DEF RestoreNext, Goto, TInv, TypeOK
  <2>2. i[t] \in Pages
    BY <1>r, <2>1 DEF TInv, TypeOK, Pages
  <2>3. SlotOwned(t, i[t])
    BY <1>c, <2>1, <2>2 DEF CallOwned
  <2>4. SlotOwned(t, i[t])'
    BY <2>1, <2>3 DEF SlotOwned, Vaddr
  <2>5. CallOwned(t)'
    BY <1>c, <1>s, <2>1, <2>4 DEF CallOwned, Hiding
  <2>6. QED
    BY <1>y, <2>1, <2>5
<1>7. CASE LoadVir(t)
  <2>1. /\ pc[t] = "load_vir" /\ pc'[t] = "load_phy" /\ vir'[t] = vir_addr[i[t]]
        /\ UNCHANGED <<pt, vir_addr, phy_addr, index, i, req>>
    BY <1>7 DEF LoadVir, Goto, TInv, TypeOK
  <2>2. SlotOwned(t, i[t]) /\ SlotOwned(t, i[t])'
    BY <1>c, <2>1 DEF CallOwned, SlotOwned, Vaddr
  <2>3. CallOwned(t)'
    BY <1>c, <1>s, <1>v, <2>1, <2>2 DEF CallOwned, SlotOwned, Hiding
  <2>4. QED
    BY <1>y, <2>1, <2>3
<1>8. CASE LoadPhy(t)
  <2>1. /\ pc[t] = "load_phy" /\ pc'[t] = "store" /\ phy'[t] = phy_addr[i[t]]
        /\ UNCHANGED <<pt, vir_addr, phy_addr, index, i, req, vir>>
    BY <1>8 DEF LoadPhy, Goto, TInv, TypeOK
  <2>2. SlotOwned(t, i[t]) /\ SlotOwned(t, i[t])'
    BY <1>c, <2>1 DEF CallOwned, SlotOwned, Vaddr
  <2>3. Owned(req[t].pid, req[t].base.page + i[t], phy'[t])
    BY <2>1, <2>2 DEF SlotOwned
  <2>4. CallOwned(t)'
    BY <1>c, <1>s, <1>v, <2>1, <2>2, <2>3 DEF CallOwned, Owned, Hiding
  <2>5. QED
    BY <1>y, <2>1, <2>4
<1>9. CASE EnV2p(t)
  <2>1. /\ pc[t] = "store" /\ pc'[t] = "restore"
        /\ UNCHANGED <<vir_addr, phy_addr, index, req>>
        /\ pt' = [pt EXCEPT ![p][vir[t].page] = phy[t]]
    BY <1>9 DEF EnV2p, Goto, TInv, TypeOK
  <2>2. /\ v \in Pages
        /\ vir[t] = Vaddr(req[t], i[t])
        /\ Owned(p, v, phy[t])
    BY <1>c, <2>1 DEF CallOwned, SlotOwned
  <2>3. vir[t].page = v
    BY <1>r, <2>2, VaddrType
  <2>4. \A q \in Pids, w \in Pages : Owned(q, w, pt'[q][w])
    BY <1>r, <2>1, <2>2, <2>3 DEF FInv, TInv, TypeOK
  <2>5. CallOwned(t)'
    BY <1>c, <1>s, <2>1 DEF CallOwned, Hiding
  <2>6. QED
    BY <1>c, <1>s, <1>z, <2>1, <2>4, <2>5 DEF CallOwned
<1>10. CASE Return(t)
  <2>1. /\ pc'[t] = "idle"
        /\ UNCHANGED <<pt, vir_addr, phy_addr, index>>
    BY <1>10 DEF Return, Goto, TInv, TypeOK
  <2>2. CallOwned(t)'
    BY <1>c, <1>s, <2>1 DEF CallOwned, Hiding
  <2>3. QED
    BY <1>y, <2>1, <2>2
<1>11. QED
  BY <1>1, <1>2, <1>3, <1>4, <1>5, <1>6, <1>7, <1>8, <1>9, <1>10 DEF Step

LEMMA EnterFInv ==
    ASSUME SameTarget, TInv, TInv', FInv, NEW t \in Callers, NEW c \in Cpus,
           NEW r \in Requests, Enter(t, c, r)
    PROVE  FInv'
<1>1. /\ pc'[t] = "hide" /\ i'[t] = 0
      /\ UNCHANGED <<pt, vir_addr, phy_addr, index, vir, phy>>
      /\ \A u \in Callers : u # t => pc'[u] = pc[u] /\ req'[u] = req[u] /\ i'[u] = i[u]
  BY DEF Enter, Goto, TInv, TypeOK
<1>2. \A u \in Callers : req'[u].pid = req[u].pid /\ req'[u].base = req[u].base
  <2>1. \A u \in Callers : req'[u] \in Requests /\ req[u] \in Requests
    BY DEF TInv, TypeOK
  <2>2. QED
    BY <2>1 DEF SameTarget
<1>3. \A u \in Callers : \A k : SlotOwned(u, k)' <=> SlotOwned(u, k)
  BY <1>1, <1>2 DEF SlotOwned, Owned, Vaddr
<1>4. CallOwned(t)'
  <2>1. \A k \in Pages : k < index => SlotOwned(t, k)
    BY DEF FInv, CallOwned
  <2>2. \A k \in Pages : ~(k < 0)
    BY PageAssumption DEF Pages
  <2>3. QED
    BY <1>1, <1>3, <2>1, <2>2 DEF CallOwned
<1>5. ASSUME NEW u \in Callers, u # t PROVE CallOwned(u)'
  <2>1. CallOwned(u)
    BY DEF FInv
  <2>2. SlotOwned(u, i[u])' <=> SlotOwned(u, i[u])
    BY <1>1, <1>2, <1>5 DEF SlotOwned, Owned, Vaddr
  <2>3. QED
    BY <1>1, <1>2, <1>3, <1>5, <2>1, <2>2 DEF CallOwned, Vaddr, Owned
<1>6. QED
  BY <1>1, <1>4, <1>5 DEF FInv, Owned

\* Calls that share pinfo and index but hide the same range never map a page
\* to another page's frame, however they interleave.
THEOREM NoForeignFrame == Spec => []FramesIntact
<1>1. SameTarget /\ TInv /\ TInv' /\ FInv /\ [Next]_vars => FInv'
  <2> SUFFICES ASSUME SameTarget, TInv, TInv', FInv, [Next]_vars PROVE FInv'
    OBVIOUS
  <2>1. CASE UNCHANGED <<vir_addr, phy_addr, index, pc, req, i, vir, phy>> /\
             \A p \in Pids, v \in Pages : Owned(p, v, pt'[p][v])
    <3>1. \A u \in Callers : CallOwned(u)' <=> CallOwned(u)
      BY <2>1 DEF CallOwned, SlotOwned, Owned, Vaddr
    <3>2. QED
      BY <2>1, <3>1 DEF FInv, Owned
  <2>2. CASE \/ UNCHANGED vars
             \/ \E c \in Cpus, p \in Pids, v \in Touched : Access(c, p, v)
             \/ \E c \in Cpus : ReloadCr3(c)
    BY <2>1, <2>2 DEF vars, Access, ReloadCr3, FInv
  <2>3. CASE \E p \in Pids, v \in Pages, f \in Frames : Remap(p, v, f)
    <3>1. PICK p \in Pids, v \in Pages, f \in Frames : Remap(p, v, f)
      BY <2>3
    <3>2. \A q \in Pids, w \in Pages : Owned(q, w, pt'[q][w])
      BY <3>1 DEF Remap, FInv, Owned, TInv, TypeOK
    <3>3. QED
      BY <2>1, <3>1, <3>2 DEF Remap
  <2>4. QED
    BY <2>2, <2>3, StepFInv, EnterFInv DEF Next
<1>2. (SameTarget => FInv) => FramesIntact
  BY DEF FramesIntact, FInv, Owned
<1>3. Init => (SameTarget => FInv)
  BY InitFInv
<1>4. TInv /\ TInv' /\ (SameTarget => FInv) /\ [Next]_vars => (SameTarget => FInv)'
  BY <1>1 DEF SameTarget
<1>5. QED
  BY <1>2, <1>3, <1>4, TableSafe, PTL DEF Spec
=============================================================================
