----------------------------- MODULE Scheduler -----------------------------
(***************************************************************************)
(* The cooperative scheduler of kernel/scheduler.cpp, under kernel_main    *)
(* (kernel/main.cpp), which creates the first tasks and then runs them.    *)
(* A task leaves the processor only by yielding or by ending: the timer's  *)
(* request line stays masked, so scheduler_timer_interrupt never runs.     *)
(*                                                                         *)
(* Everything from a cli to the next sti is one step, for nothing can      *)
(* interrupt it; what a task does between two calls is left out, but for   *)
(* the gates through which it enters and leaves the kernel, which turn the *)
(* interrupts off and on.                                                  *)
(***************************************************************************)
EXTENDS Integers

CONSTANTS Slots,       \* scheduler_max_tasks (8)
          BootTasks    \* the tasks kernel_main creates (2)

ASSUME SchedulerAssumption ==
  Slots \in Nat /\ BootTasks \in Nat /\ 0 < BootTasks /\ BootTasks <= Slots

Task == 0 .. Slots - 1
None == -1

VARIABLES active,    \* task slots handed out
          finished,  \* tasks that ended
          resume,    \* where the saved stack of a task continues
          current,   \* scheduler_current_task
          count,     \* scheduler_task_count
          at,        \* what the processor executes
          enabled,   \* the interrupt flag
          ret        \* what scheduler_create_task returned last

vars == <<active, finished, resume, current, count, at, enabled, ret>>

(* How the machine comes to a stop: a halt() of kernel_main before the     *)
(* tasks run, or in a task; the one behind scheduler_run; and the ones     *)
(* behind scheduler_task_exit, which the code marks as never to be reached.*)
Ends == {"halted", "returned", "behind_exit"}

TypeOK == /\ active \in [Task -> BOOLEAN]
          /\ finished \in [Task -> BOOLEAN]
          /\ resume \in [Task -> {"nowhere", "trampoline", "yield", "exit"}]
          /\ current \in Task \cup {None}
          /\ count \in 0 .. Slots
          /\ at \in {"kernel_main", "loop", "choose", "task"} \cup Ends
          /\ enabled \in BOOLEAN
          /\ ret \in Task \cup {None}

scheduler_init == /\ active = [i \in Task |-> FALSE]
                  /\ finished = [i \in Task |-> FALSE]
                  /\ resume = [i \in Task |-> "nowhere"]
                  /\ current = None
                  /\ count = 0
                  /\ at = "kernel_main"
                  /\ enabled = FALSE
                  /\ ret = None
-----------------------------------------------------------------------------
(* The ring: the tasks in the order in which the search visits them.       *)

(* Mutant: the search starts with the task that has just yielded.          *)
DistanceFromCurrent(i) == (i - current) % count

(* How many slots the search looks at before slot i.                       *)
Distance(i) == (i - current - 1) % count

Runnable == {i \in 0 .. count - 1 : active[i] /\ ~finished[i]}

(* Mutant: the search stops one short of the task that has just yielded.   *)
NextOfTheOthers ==
  {i \in Runnable \ {current} : \A j \in Runnable \ {current} : Distance(i) <= Distance(j)}

(* Mutant: the search always starts with slot 0.                           *)
FirstRunnable == {i \in Runnable : \A j \in Runnable : i <= j}

(* The set of the one next task, or {}.                                    *)
scheduler_find_next_task ==
  {i \in Runnable : \A j \in Runnable : Distance(i) <= Distance(j)}
-----------------------------------------------------------------------------
FreeSlots == {i \in Task : ~active[i]}

TaskInSlot(i) == /\ active' = [active EXCEPT ![i] = TRUE]
                 /\ finished' = [finished EXCEPT ![i] = FALSE]
                 /\ resume' = [resume EXCEPT ![i] = "trampoline"]
                 /\ count' = IF i + 1 > count THEN i + 1 ELSE count
                 /\ ret' = i

(* Mutant: a full table is not noticed, and the oldest slot is taken.      *)
CreateWrapping == TaskInSlot(count % Slots)

(* scheduler_create_task: the first slot that was never used.              *)
scheduler_create_task ==
  \/ \E i \in FreeSlots : (\A j \in FreeSlots : i <= j) /\ TaskInSlot(i)
  \/ FreeSlots = {} /\ ret' = None /\ UNCHANGED <<active, finished, resume, count>>

(* kernel_main halts when a task cannot be created; and when the mouse     *)
(* does not answer, before it runs the tasks.                              *)
KernelCreates == /\ at = "kernel_main" /\ count < BootTasks
                 /\ scheduler_create_task
                 /\ at' = IF ret' = None THEN "halted" ELSE at
                 /\ UNCHANGED <<current, enabled>>

KernelRuns == /\ at = "kernel_main" /\ count = BootTasks
              /\ at' \in {"loop", "halted"}
              /\ UNCHANGED <<active, finished, resume, current, count, enabled, ret>>

(* A task may create tasks too.                                            *)
TaskCreates == /\ at = "task"
               /\ scheduler_create_task
               /\ UNCHANGED <<current, at, enabled>>
-----------------------------------------------------------------------------
(* The loop of scheduler_run: its cli, which matters after a task ended    *)
(* with interrupts on; then the choice of a task and the switch to it.     *)
DisableInterrupts == /\ at = "loop"
                     /\ at' = "choose"
                     /\ enabled' = FALSE
                     /\ UNCHANGED <<active, finished, resume, current, count, ret>>

(* Mutant: scheduler_yield returns with the interrupts off.                *)
SwitchToSilent(i) == /\ current' = i
                     /\ at' = IF resume[i] = "exit" THEN "behind_exit" ELSE "task"
                     /\ enabled' = (resume[i] = "trampoline")

(* The saved stack leads to the trampoline of a new task or to the rest of *)
(* scheduler_yield, both of which turn the interrupts on; or into the      *)
(* halt() at the end of scheduler_task_exit.                               *)
SwitchTo(i) == /\ current' = i
               /\ at' = IF resume[i] = "exit" THEN "behind_exit" ELSE "task"
               /\ enabled' = (resume[i] # "exit")

Dispatch == /\ at = "choose"
            /\ \/ \E i \in scheduler_find_next_task : SwitchTo(i)
               \/ /\ scheduler_find_next_task = {}
                  /\ at' = "returned" /\ UNCHANGED <<current, enabled>>
            /\ UNCHANGED <<active, finished, resume, count, ret>>

(* A task enters the kernel through an interrupt gate, or leaves it.       *)
PassGate == /\ at = "task"
            /\ enabled' = ~enabled
            /\ UNCHANGED <<active, finished, resume, current, count, at, ret>>

scheduler_yield == /\ at = "task"
                   /\ current # None /\ ~finished[current]
                   /\ resume' = [resume EXCEPT ![current] = "yield"]
                   /\ enabled' = FALSE
                   /\ at' = "loop"
                   /\ UNCHANGED <<active, finished, current, count, ret>>

(* scheduler_task_exit, called at the end of the task's function or by it. *)
scheduler_task_exit == /\ at = "task"
                       /\ current # None
                       /\ finished' = [finished EXCEPT ![current] = TRUE]
                       /\ resume' = [resume EXCEPT ![current] = "exit"]
                       /\ at' = "loop"
                       /\ UNCHANGED <<active, current, count, enabled, ret>>
(* A task stops the machine: the console's when its program cannot be run; *)
(* any, when the kernel runs out of memory for its lists or meets an       *)
(* exception while it works for that task.                                 *)
TaskHalts == /\ at = "task"
             /\ at' = "halted" /\ enabled' = FALSE
             /\ UNCHANGED <<active, finished, resume, current, count, ret>>
-----------------------------------------------------------------------------
Init == scheduler_init

Next == \/ KernelCreates \/ KernelRuns \/ DisableInterrupts \/ Dispatch
        \/ TaskCreates \/ PassGate \/ scheduler_yield \/ scheduler_task_exit \/ TaskHalts

Spec == Init /\ [][Next]_vars

(* The processor keeps executing the loop, and a task yields or ends       *)
(* sooner or later: the scheduler can rely on nothing else.                *)
FairSpec == /\ Spec
            /\ WF_vars(KernelCreates \/ KernelRuns \/ DisableInterrupts \/ Dispatch)
            /\ WF_vars(scheduler_yield \/ scheduler_task_exit)
-----------------------------------------------------------------------------
(* scheduler_run returns only when every task has ended, those created     *)
(* meanwhile included: the search misses nobody.  And a task is never      *)
(* resumed behind its end (the halt() the code marks as one it should      *)
(* never come to).                                                         *)
ReturnsOnlyWhenDone ==
  /\ at = "returned" => \A i \in Task : active[i] => finished[i]
  /\ at # "behind_exit"

(* Creating a task never takes the slot, and with it the stack, of another *)
(* one, be it waiting, running or just about to leave its own stack.       *)
StacksKept == [][\A i \in Task : resume[i] # "nowhere" /\ resume'[i] # resume[i] =>
                   i = current /\ resume'[i] # "trampoline"]_vars

(* What the comment above the search for a slot says (scheduler.cpp:117):  *)
(* a free slot is used again.  A task that ended leaves none, so this is   *)
(* not what the code does: after Slots tasks there is never another one.   *)
FinishedSlotReused == [][TaskCreates /\ ret' = None => \A i \in Task : ~finished[i]]_vars

(* Nobody is overtaken for ever: each turn given to another task brings    *)
(* every waiting task strictly nearer to its own, so a task waits for at   *)
(* most one turn of each of the others.                                    *)
WaitShrinks ==
  [][\A i \in Runnable : at = "choose" /\ current' # i => Distance(i)' < Distance(i)]_vars

(* Every task that has not ended gets the processor again and again, as    *)
(* long as none stops the machine.                                         *)
EveryTaskRuns == \A i \in Task : i \in Runnable ~> (at = "task" /\ current = i) \/ at = "halted"

(* Interrupts are let in again and again, even by tasks that pass their    *)
(* time inside the kernel with interrupts off, so that no key waits for    *)
(* ever.                                                                   *)
InterruptsLetIn == at # "kernel_main" ~> enabled \/ at \in Ends
=============================================================================
