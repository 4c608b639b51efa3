-------------------------- MODULE SchedulerProofs --------------------------
(***************************************************************************)
(* The scheduler's safety for every number of task slots.                  *)
(***************************************************************************)
EXTENDS Scheduler, WellFoundedInduction, TLAPS

USE SchedulerAssumption DEF Task, None, Ends

(* The slots below count are handed out and the others never were; only a  *)
(* task that ended is left at its end; the current one is one of them.     *)
SlotsUsed ==
  /\ \A i \in Task : active[i] <=> i < count
  /\ \A i \in Task : active[i] <=> resume[i] # "nowhere"
  /\ \A i \in Task : finished[i] <=> resume[i] = "exit"
  /\ current # None => current < count
  /\ at \in {"loop", "choose", "task"} => count > 0
  /\ at = "kernel_main" => current = None
  /\ at = "task" => current # None /\ ~finished[current]

Inv == TypeOK /\ SlotsUsed /\ ReturnsOnlyWhenDone
-----------------------------------------------------------------------------
(* Arithmetic on the ring.                                                 *)

LEMMA Modulo ==
  ASSUME NEW n \in Nat \ {0}, NEW a \in -n .. n - 1
  PROVE  a % n = IF a < 0 THEN a + n ELSE a
  <1>1. CASE a < 0
    BY <1>1
  <1>2. CASE a >= 0
    BY <1>2
  <1> QED BY <1>1, <1>2

LEMMA LeastNatural ==
  ASSUME NEW T \in SUBSET Nat, T # {}
  PROVE  \E x \in T : \A y \in T : x <= y
  <1> DEFINE R == {p \in Nat \X Nat : p[1] < p[2]}
  <1>1. OpToRel(<, Nat) = R
    BY DEF OpToRel
  <1>2. IsWellFoundedOn(R, Nat)
    BY <1>1, NatLessThanWellFounded
  <1>3. PICK x \in T : \A y \in T : ~(<<y, x>> \in R)
    <2> HIDE DEF R
    <2> QED BY <1>2, WFMin
  <1>4. ASSUME NEW y \in T PROVE x <= y
    <2>1. x \in Nat /\ y \in Nat
      OBVIOUS
    <2>2. <<y, x>> \in R <=> y < x
      BY <2>1
    <2> QED BY <1>3, <2>1, <2>2
  <1> QED BY <1>4

(* Counted from the current task, slots come in the order of the ring.     *)
LEMMA DistanceIs ==
  ASSUME TypeOK, NEW i \in 0 .. count - 1, current = None \/ current < count
  PROVE  /\ Distance(i) \in 0 .. count - 1
         /\ Distance(i) = IF i > current THEN i - current - 1 ELSE i - current - 1 + count
  <1>1. count \in Nat \ {0} /\ i - current - 1 \in -count .. count - 1
    BY DEF TypeOK
  <1>2. (i - current - 1) % count
          = IF i - current - 1 < 0 THEN i - current - 1 + count ELSE i - current - 1
    BY <1>1, Modulo
  <1> QED BY <1>1, <1>2 DEF Distance, TypeOK

(* The search finds a task if there is one.                                *)
LEMMA NearestExists ==
  ASSUME TypeOK, current = None \/ current < count, Runnable # {}
  PROVE  scheduler_find_next_task # {}
  <1> DEFINE D == {Distance(i) : i \in Runnable}
  <1>1. \A i \in Runnable : Distance(i) \in Nat
    BY DistanceIs DEF Runnable, TypeOK
  <1>2. D \in SUBSET Nat /\ D # {}
    BY <1>1
  <1>3. PICK d \in D : \A e \in D : d <= e
    <2> HIDE DEF D
    <2> QED BY <1>2, LeastNatural
  <1>4. PICK i \in Runnable : d = Distance(i)
    BY <1>3
  <1>5. \A j \in Runnable : Distance(i) <= Distance(j)
    BY <1>3, <1>4
  <1> QED BY <1>5 DEF scheduler_find_next_task
-----------------------------------------------------------------------------
(* The least element that the scans of the code stop at.                   *)
LEMMA NoSlotSkipped ==
  ASSUME Inv, NEW i \in FreeSlots, \A j \in FreeSlots : i <= j
  PROVE  i = count
  BY DEF Inv, TypeOK, SlotsUsed, FreeSlots

LEMMA CreateInv ==
  ASSUME Inv, at \in {"kernel_main", "task"}, scheduler_create_task, UNCHANGED current,
         at' \in {at, "halted"}, at' # at => at = "kernel_main", enabled' \in BOOLEAN
  PROVE  Inv'
  <1>1. CASE \E i \in FreeSlots : (\A j \in FreeSlots : i <= j) /\ TaskInSlot(i)
    <2>1. PICK i \in FreeSlots : (\A j \in FreeSlots : i <= j) /\ TaskInSlot(i)
      BY <1>1
    <2>2. i = count /\ i \in Task /\ ~active[i]
      BY <2>1, NoSlotSkipped DEF FreeSlots
    <2>3. count' = count + 1
      BY <2>1, <2>2 DEF TaskInSlot, Inv, TypeOK
    <2>4. TypeOK'
      BY <2>1, <2>2, <2>3 DEF TaskInSlot, Inv, TypeOK
    <2>5. SlotsUsed'
      BY <2>1, <2>2, <2>3 DEF TaskInSlot, Inv, TypeOK, SlotsUsed
    <2>6. ReturnsOnlyWhenDone'
      BY <2>5 DEF Inv, ReturnsOnlyWhenDone, SlotsUsed, TypeOK
    <2> QED BY <2>4, <2>5, <2>6 DEF Inv
  <1>2. CASE FreeSlots = {} /\ ret' = None /\ UNCHANGED <<active, finished, resume, count>>
    <2>1. TypeOK'
      BY <1>2 DEF Inv, TypeOK
    <2>2. SlotsUsed'
      BY <1>2 DEF Inv, TypeOK, SlotsUsed
    <2>3. ReturnsOnlyWhenDone'
      BY <1>2 DEF Inv, ReturnsOnlyWhenDone, SlotsUsed, TypeOK
    <2> QED BY <2>1, <2>2, <2>3 DEF Inv
  <1> QED BY <1>1, <1>2 DEF scheduler_create_task

LEMMA DispatchInv == ASSUME Inv, Dispatch PROVE Inv'
  <1>1. CASE \E i \in scheduler_find_next_task : SwitchTo(i)
    <2>1. PICK i \in scheduler_find_next_task : SwitchTo(i)
      BY <1>1
    <2>2. i \in Task /\ i < count /\ active[i] /\ ~finished[i] /\ resume[i] # "exit"
      BY <2>1 DEF scheduler_find_next_task, Runnable, Inv, TypeOK, SlotsUsed
    <2>3. TypeOK'
      BY <2>1, <2>2 DEF Dispatch, SwitchTo, Inv, TypeOK
    <2>4. SlotsUsed'
      BY <2>1, <2>2 DEF Dispatch, SwitchTo, Inv, TypeOK, SlotsUsed
    <2>5. ReturnsOnlyWhenDone'
      BY <2>1, <2>2 DEF SwitchTo, ReturnsOnlyWhenDone
    <2> QED BY <2>3, <2>4, <2>5 DEF Inv
  <1>2. CASE scheduler_find_next_task = {} /\ at' = "returned" /\ UNCHANGED <<current, enabled>>
    <2>1. TypeOK' /\ SlotsUsed'
      BY <1>2 DEF Dispatch, Inv, TypeOK, SlotsUsed
    <2>2. \A i \in Task : active[i] => finished[i]
      <3>1. Runnable = {}
        BY <1>2, NearestExists DEF Inv, SlotsUsed, TypeOK
      <3> QED BY <3>1 DEF Runnable, Inv, TypeOK, SlotsUsed
    <2>3. ReturnsOnlyWhenDone'
      BY <1>2, <2>2 DEF ReturnsOnlyWhenDone, Dispatch
    <2> QED BY <2>1, <2>3 DEF Inv
  <1> QED BY <1>1, <1>2 DEF Dispatch
LEMMA InitInv == Init => Inv
  <1> SUFFICES ASSUME Init PROVE Inv
    OBVIOUS
  <1>1. TypeOK
    <2>1. active \in [Task -> BOOLEAN] /\ finished \in [Task -> BOOLEAN]
      BY DEF Init, scheduler_init
    <2>2. resume \in [Task -> {"nowhere", "trampoline", "yield", "exit"}]
      BY DEF Init, scheduler_init
    <2>3. current = None /\ count \in 0 .. Slots /\ at = "kernel_main" /\ ~enabled /\ ret = None
      BY DEF Init, scheduler_init
    <2> QED BY <2>1, <2>2, <2>3 DEF TypeOK, Init, scheduler_init
  <1>2. SlotsUsed
    BY DEF Init, scheduler_init, SlotsUsed
  <1>3. ReturnsOnlyWhenDone
    BY DEF Init, scheduler_init, ReturnsOnlyWhenDone
  <1> QED BY <1>1, <1>2, <1>3 DEF Inv

LEMMA NextInv == ASSUME Inv, [Next]_vars PROVE Inv'
  <1>1. CASE KernelCreates
    BY <1>1, CreateInv DEF KernelCreates, Inv, TypeOK
  <1>2. CASE KernelRuns
    <2>1. TypeOK'
      BY <1>2 DEF KernelRuns, Inv, TypeOK
    <2>2. SlotsUsed'
      BY <1>2 DEF KernelRuns, Inv, TypeOK, SlotsUsed
    <2>3. ReturnsOnlyWhenDone'
      BY <1>2 DEF KernelRuns, Inv, SlotsUsed, ReturnsOnlyWhenDone
    <2> QED BY <2>1, <2>2, <2>3 DEF Inv
  <1>3. CASE DisableInterrupts
    <2>1. TypeOK'
      BY <1>3 DEF DisableInterrupts, Inv, TypeOK
    <2>2. SlotsUsed'
      BY <1>3 DEF DisableInterrupts, Inv, TypeOK, SlotsUsed
    <2>3. ReturnsOnlyWhenDone'
      BY <1>3 DEF DisableInterrupts, ReturnsOnlyWhenDone
    <2> QED BY <2>1, <2>2, <2>3 DEF Inv
  <1>4. CASE Dispatch
    BY <1>4, DispatchInv
  <1>5. CASE TaskCreates
    BY <1>5, CreateInv DEF TaskCreates, Inv, TypeOK
  <1>6. CASE PassGate
    <2>1. TypeOK'
      BY <1>6 DEF PassGate, Inv, TypeOK
    <2>2. SlotsUsed'
      BY <1>6 DEF PassGate, Inv, TypeOK, SlotsUsed
    <2>3. ReturnsOnlyWhenDone'
      BY <1>6 DEF PassGate, ReturnsOnlyWhenDone
    <2> QED BY <2>1, <2>2, <2>3 DEF Inv
  <1>7. CASE scheduler_yield
    <2>1. TypeOK'
      BY <1>7 DEF scheduler_yield, Inv, TypeOK
    <2>2. SlotsUsed'
      BY <1>7 DEF scheduler_yield, Inv, TypeOK, SlotsUsed
    <2>3. ReturnsOnlyWhenDone'
      BY <1>7 DEF scheduler_yield, ReturnsOnlyWhenDone
    <2> QED BY <2>1, <2>2, <2>3 DEF Inv
  <1>8. CASE scheduler_task_exit
    <2>1. TypeOK'
      BY <1>8 DEF scheduler_task_exit, Inv, TypeOK
    <2>2. SlotsUsed'
      BY <1>8 DEF scheduler_task_exit, Inv, TypeOK, SlotsUsed
    <2>3. ReturnsOnlyWhenDone'
      BY <1>8 DEF scheduler_task_exit, ReturnsOnlyWhenDone
    <2> QED BY <2>1, <2>2, <2>3 DEF Inv
  <1>10. CASE TaskHalts
    <2>1. TypeOK'
      BY <1>10 DEF TaskHalts, Inv, TypeOK
    <2>2. SlotsUsed'
      BY <1>10 DEF TaskHalts, Inv, TypeOK, SlotsUsed
    <2>3. ReturnsOnlyWhenDone'
      BY <1>10 DEF TaskHalts, ReturnsOnlyWhenDone
    <2> QED BY <2>1, <2>2, <2>3 DEF Inv
  <1>9. CASE UNCHANGED vars
    BY <1>9 DEF vars, Inv, TypeOK, SlotsUsed, ReturnsOnlyWhenDone
  <1> QED BY <1>1, <1>2, <1>3, <1>4, <1>5, <1>6, <1>7, <1>8, <1>9, <1>10 DEF Next

LEMMA Invariance == Spec => []Inv
  <1> QED BY InitInv, NextInv, PTL DEF Spec
-----------------------------------------------------------------------------
(* No step touches the saved stack of another task but to fill a new slot. *)
LEMMA NextKeepsStacks ==
  ASSUME Inv, [Next]_vars, NEW i \in Task, resume[i] # "nowhere", resume'[i] # resume[i]
  PROVE  i = current /\ resume'[i] # "trampoline"
  <1>1. CASE scheduler_create_task
    <2>1. PICK j \in FreeSlots : TaskInSlot(j)
      BY <1>1 DEF scheduler_create_task
    <2>2. j \in Task /\ resume[j] = "nowhere"
      BY <2>1 DEF FreeSlots, Inv, SlotsUsed
    <2>3. i = j
      BY <2>1, <2>2 DEF TaskInSlot, Inv, TypeOK
    <2> QED BY <2>2, <2>3
  <1>2. CASE scheduler_yield
    BY <1>2 DEF scheduler_yield, Inv, TypeOK
  <1>3. CASE scheduler_task_exit
    BY <1>3 DEF scheduler_task_exit, Inv, TypeOK
  <1>4. CASE UNCHANGED resume
    BY <1>4
  <1> QED BY <1>1, <1>2, <1>3, <1>4
          DEF Next, vars, KernelCreates, KernelRuns, TaskCreates, DisableInterrupts, Dispatch,
              PassGate, TaskHalts

(* The chosen task is the nearest one: counted from it, everybody else has *)
(* come nearer.                                                            *)
LEMMA NextShrinksWait ==
  ASSUME Inv, Next, NEW i \in Runnable, at = "choose", current' # i
  PROVE  Distance(i)' < Distance(i)
  <1>1. Dispatch
    BY DEF Next, KernelCreates, KernelRuns, TaskCreates, DisableInterrupts, PassGate, TaskHalts,
           scheduler_yield, scheduler_task_exit
  <1>2. TypeOK /\ (current = None \/ current < count) /\ UNCHANGED count
    BY <1>1 DEF Dispatch, Inv, SlotsUsed
  <1>3. PICK k \in scheduler_find_next_task : SwitchTo(k)
    BY <1>1, <1>2, NearestExists DEF Dispatch
  <1>4. k \in Runnable /\ k # i /\ current' = k /\ Distance(k) <= Distance(i)
    BY <1>3 DEF scheduler_find_next_task, SwitchTo
  <1>5. i \in 0 .. count - 1 /\ k \in 0 .. count - 1
    BY <1>4 DEF Runnable
  <1>6. TypeOK' /\ current' < count' /\ i \in 0 .. count' - 1
    BY <1>1, <1>2, <1>4, <1>5, DispatchInv DEF Inv, TypeOK
  <1>7. Distance(i) = IF i > current THEN i - current - 1 ELSE i - current - 1 + count
    BY <1>2, <1>5, DistanceIs
  <1>8. Distance(k) = IF k > current THEN k - current - 1 ELSE k - current - 1 + count
    BY <1>2, <1>5, DistanceIs
  <1>9. Distance(i)' = IF i > k THEN i - k - 1 ELSE i - k - 1 + count
    <2>1. k \in Int /\ count \in Nat \ {0} /\ i - k - 1 \in -count .. count - 1
      BY <1>2, <1>5 DEF TypeOK
    <2>2. (i - k - 1) % count = IF i - k - 1 < 0 THEN i - k - 1 + count ELSE i - k - 1
      BY <2>1, Modulo
    <2> QED BY <1>2, <1>4, <1>5, <2>1, <2>2 DEF Distance
  <1> QED BY <1>2, <1>4, <1>5, <1>7, <1>8, <1>9 DEF TypeOK
-----------------------------------------------------------------------------
(* Every reachable state is one the fields' types and the limits of the    *)
(* table allow: no slot past the end of scheduler_tasks is ever named.     *)
THEOREM SchedulerTypeOK == Spec => []TypeOK
  <1> QED BY Invariance, PTL DEF Inv

(* scheduler_run returns to kernel_main only when every task has ended,    *)
(* and the halt() behind scheduler_task_exit is never reached.             *)
THEOREM SchedulerReturnsOnlyWhenDone == Spec => []ReturnsOnlyWhenDone
  <1> QED BY Invariance, PTL DEF Inv

(* scheduler_create_task never reuses the stack of a task.                 *)
THEOREM SchedulerKeepsStacks == Spec => StacksKept
  <1>1. Inv /\ [Next]_vars =>
          [\A i \in Task : resume[i] # "nowhere" /\ resume'[i] # resume[i] =>
             i = current /\ resume'[i] # "trampoline"]_vars
    BY NextKeepsStacks
  <1> QED BY <1>1, Invariance, PTL DEF Spec, StacksKept

(* The search order of scheduler_find_next_task is fair: a waiting task    *)
(* comes strictly nearer to its turn whenever another one gets it.         *)
THEOREM SchedulerWaitShrinks == Spec => WaitShrinks
  <1>1. Inv /\ [Next]_vars =>
          [\A i \in Runnable : at = "choose" /\ current' # i => Distance(i)' < Distance(i)]_vars
    BY NextShrinksWait
  <1> QED BY <1>1, Invariance, PTL DEF Spec, WaitShrinks
=============================================================================
