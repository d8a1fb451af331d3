----------------------------- MODULE Scheduler ------------------------------
(***************************************************************************)
(* The round robin scheduler, kernel/sched/scheduler.c, with the processor *)
(* it schedules: the interrupt flag, the timer interrupt (timer.c, idt.c)  *)
(* that is the only place where tasks are switched, and the ways a task    *)
(* gives up the processor or enters and leaves ring 3 (usermode.asm,       *)
(* syscall.c).                                                             *)
(*                                                                         *)
(* cpu is the context being executed: its task and where in the code it    *)
(* is.  An interrupt frame is the context it interrupted.  A raised        *)
(* interrupt waits in irq until the interrupt flag is set and is then      *)
(* taken before the next instruction (CpuReady).                           *)
(***************************************************************************)
EXTENDS Integers, FiniteSetsExt

CONSTANTS TASKS,      \* task_count after scheduler_initialize
          QUANTUM,    \* TASK_QUANTUM_TICKS
          Returning   \* tasks whose entry function may return (none does so far)

Task == 0 .. TASKS - 1
ASSUME SchedulerAssumption ==
  /\ TASKS \in Nat \ {0, 1} /\ QUANTUM \in Nat \ {0}
  /\ Returning \subseteq Task \ {0}

VARIABLES state, frame, current_task, current_quantum, preempt_pending_flag,
          cpu, interrupts, irq,
          waited      \* history: timer ticks a task has been off the processor

vars == <<state, frame, current_task, current_quantum, preempt_pending_flag, cpu, interrupts, irq, waited>>
Places == {"kernel", "checked", "halt", "user", "syscall", "exiting", "trap"}
Context == [task : Task, place : Places]
NoFrame == [task |-> -1, place |-> "kernel"]
MaxWait == (TASKS - 1) * QUANTUM

(* scheduler_initialize: the boot code becomes task 0, the others get the  *)
(* frame create_initial_frame builds.                                      *)
Init ==
  /\ state = [t \in Task |-> IF t = 0 THEN "running" ELSE "runnable"]
  /\ frame = [t \in Task |-> IF t = 0 THEN NoFrame ELSE [task |-> t, place |-> "kernel"]]
  /\ current_task = 0 /\ current_quantum = 0 /\ preempt_pending_flag = FALSE
  /\ cpu = [task |-> 0, place |-> "kernel"] /\ interrupts = TRUE /\ irq = FALSE
  /\ waited = [t \in Task |-> 0]

(* Mutant: the search starts at task 0 every time. *)
PickFirst(st, current) ==
  LET able == {t \in Task : st[t] \in {"runnable", "running"}}
  IN  IF able = {} THEN current ELSE Min(able)

(* scheduler_pick_next: the next task in the circle that can run, the      *)
(* current one last.                                                       *)
PickNext(st, current) ==
  LET able == {i \in 1 .. TASKS : st[(current + i) % TASKS] \in {"runnable", "running"}}
  IN  IF able = {} THEN current ELSE (current + Min(able)) % TASKS

(* Mutant: the quantum ends a tick late. *)
OnTickLate(quantum, pending) == pending \/ quantum > QUANTUM

(* scheduler_on_tick: the flag after the tick that makes this quantum. *)
OnTick(quantum, pending) == pending \/ quantum >= QUANTUM

(* hlt ends with the interrupt that it waited for. *)
Interrupted == [cpu EXCEPT !.place = IF @ = "halt" THEN "kernel" ELSE @]

(* What scheduler_schedule_from_interrupt first makes of the current task. *)
Preempted(st, current) ==
  [st EXCEPT ![current] = IF @ = "running" THEN "runnable" ELSE @]

Keep ==
  /\ cpu' = Interrupted
  /\ waited' = [t \in Task |-> IF t = current_task \/ waited[t] > MaxWait THEN waited[t] ELSE waited[t] + 1]
  /\ UNCHANGED current_task

(* Mutant: the interrupted context is stored for the next task. *)
SaveFrameNext(next) == [frame EXCEPT ![next] = Interrupted]
SaveFrame(next) == [frame EXCEPT ![current_task] = Interrupted]

(* timer_handle_interrupt and scheduler_schedule_from_interrupt: nothing   *)
(* is pending, no other task can run, or there is a switch.                *)
TimerInterrupt ==
  LET quantum == current_quantum + 1
      ready == Preempted(state, current_task)
      next == PickNext(ready, current_task)
      stays == next = current_task \/ (SaveFrame(next))[next] = NoFrame
  IN  /\ irq /\ interrupts /\ irq' = FALSE
      /\ UNCHANGED interrupts
      /\ \/ /\ ~ OnTick(quantum, preempt_pending_flag)
            /\ current_quantum' = quantum
            /\ Keep /\ UNCHANGED <<preempt_pending_flag, state, frame>>
         \/ /\ OnTick(quantum, preempt_pending_flag)
            /\ current_quantum' = 0 /\ preempt_pending_flag' = FALSE
            /\ frame' = SaveFrame(next)
            /\ \/ /\ stays /\ Keep
                  /\ state' = [ready EXCEPT ![current_task] = "running"]
               \/ /\ ~ stays
                  /\ current_task' = next
                  /\ state' = [ready EXCEPT ![next] = "running"]
                  /\ cpu' = frame'[next]
                  /\ waited' = [t \in Task |-> IF t \in {current_task, next} THEN 0 ELSE
                                               IF waited[t] > MaxWait THEN waited[t] ELSE waited[t] + 1]

(* A keyboard or mouse interrupt: the task goes on (interrupt_dispatch). *)
OtherInterrupt ==
  /\ interrupts /\ cpu' = Interrupted
  /\ UNCHANGED <<state, frame, current_task, current_quantum, preempt_pending_flag, interrupts, irq, waited>>

(* The timer chip asks for an interrupt. *)
Pit ==
  /\ ~ irq /\ irq' = TRUE
  /\ UNCHANGED <<state, frame, current_task, current_quantum, preempt_pending_flag, cpu, interrupts, waited>>

CpuReady == ~ (irq /\ interrupts)

(* The processor goes on from one place to another. *)
Go(from, to, flag) ==
  /\ CpuReady /\ cpu.place = from
  /\ cpu' = [cpu EXCEPT !.place = to]
  /\ interrupts' = flag
  /\ UNCHANGED <<frame, current_task, current_quantum, irq, waited>>

Halt == Go("kernel", "halt", TRUE) /\ UNCHANGED <<state, preempt_pending_flag>>

(* scheduler_preempt_if_needed reads the flag, and scheduler_yield (also   *)
(* called directly) sets it and waits.                                     *)
PreemptIfNeeded ==
  /\ cpu.task = 0 /\ preempt_pending_flag
  /\ Go("kernel", "checked", interrupts) /\ UNCHANGED <<state, preempt_pending_flag>>
Yield(from) ==
  /\ cpu.task = 0 /\ preempt_pending_flag' = TRUE
  /\ Go(from, "halt", TRUE) /\ UNCHANGED state

(* usermode_enter, int 0x80, and the ways back. *)
EnterUser == cpu.task = 0 /\ Go("kernel", "user", TRUE) /\ UNCHANGED <<state, preempt_pending_flag>>
SystemCall == Go("user", "syscall", FALSE) /\ UNCHANGED <<state, preempt_pending_flag>>
SyscallYield == Go("syscall", "user", TRUE) /\ preempt_pending_flag' = TRUE /\ UNCHANGED state
SyscallUptime == Go("syscall", "syscall", TRUE) /\ UNCHANGED <<state, preempt_pending_flag>>
SyscallReturn == Go("syscall", "user", TRUE) /\ UNCHANGED <<state, preempt_pending_flag>>
SyscallExit == Go("syscall", "kernel", TRUE) /\ UNCHANGED <<state, preempt_pending_flag>>

(* An entry function returns into task_exit_trap, which can be interrupted *)
(* between its two assignments.                                            *)
ExitTrap ==
  /\ cpu.task \in Returning
  /\ Go("kernel", "exiting", interrupts)
  /\ state' = [state EXCEPT ![current_task] = "exited"] /\ UNCHANGED preempt_pending_flag
ExitTrapHalts == Go("exiting", "trap", TRUE) /\ preempt_pending_flag' = TRUE /\ UNCHANGED state

SyscallEnds == SyscallYield \/ SyscallReturn \/ SyscallExit
Next ==
  \/ TimerInterrupt \/ OtherInterrupt \/ Pit
  \/ Halt \/ PreemptIfNeeded \/ Yield("kernel") \/ Yield("checked")
  \/ EnterUser \/ SystemCall \/ SyscallUptime \/ SyscallEnds
  \/ ExitTrap \/ ExitTrapHalts

Spec == Init /\ [][Next]_vars

(* The timer runs, the processor takes a waiting interrupt, and a system   *)
(* call or a return from a task goes on to its end.                        *)
Fairness == WF_vars(Pit) /\ WF_vars(TimerInterrupt) /\ WF_vars(SyscallEnds) /\ WF_vars(ExitTrapHalts)
FairSpec == Spec /\ Fairness

-----------------------------------------------------------------------------
TypeOK ==
  /\ state \in [Task -> {"runnable", "running", "exited"}]
  /\ frame \in [Task -> Context \cup {NoFrame}]
  /\ current_task \in Task /\ current_quantum \in 0 .. QUANTUM - 1
  /\ preempt_pending_flag \in BOOLEAN /\ interrupts \in BOOLEAN /\ irq \in BOOLEAN
  /\ cpu \in Context

(* The processor executes the current task's own code, and that task is    *)
(* the one marked running unless it just exited; every other task waits at *)
(* the place where it was interrupted, so none is lost or resumed twice.   *)
RunsItsOwn ==
  /\ cpu.task = current_task
  /\ state[current_task] \in {"running", "exited"}
  /\ \A t \in Task \ {current_task} :
       state[t] # "running" /\ frame[t] # NoFrame /\ frame[t].task = t

(* Interrupts are off only inside a system call: no other wait of a task   *)
(* keeps the timer out.                                                    *)
MaskedOnlyInSyscall == interrupts \/ cpu.place = "syscall"

(* A task that returned is never made runnable again, although             *)
(* scheduler.c:159 marks the previous task running whatever it was: the    *)
(* boot task does not return, so there is another task to pick.            *)
ExitedStaysExited == [][\A t \in Task : state[t] = "exited" => state'[t] = "exited"]_vars

(* Round robin bounds the wait: no task that can run stays off the         *)
(* processor for a full quantum of each other task, however they yield.    *)
BoundedWait == \A t \in Task : state[t] = "runnable" => waited[t] < MaxWait

(* Every task that has not returned runs again and again, also while the   *)
(* others yield, sit in system calls or return.                            *)
EveryTaskRuns == \A t \in Task : []<>(current_task = t \/ state[t] = "exited")
=============================================================================
