--------------------------- MODULE SchedulerProofs ---------------------------
(***************************************************************************)
(* The scheduler for any number of tasks, any quantum and whichever tasks  *)
(* return.                                                                 *)
(*                                                                         *)
(* RunsItsOwn and MaskedOnlyInSyscall are inductive once the boot task is  *)
(* known never to exit.  BoundedWait is not: it is strengthened by WaitInv *)
(* to a bound for each task by its distance in the circle behind the       *)
(* current one.                                                            *)
(***************************************************************************)
EXTENDS Scheduler, NaturalsInduction, WellFoundedInduction, TLAPS

(* How many tasks scheduler_pick_next looks at to get from c to t. *)
Distance(c, t) == IF t > c THEN t - c ELSE t - c + TASKS
Wrap(n) == IF n < TASKS THEN n ELSE n - TASKS
Able(st, t) == st[t] \in {"runnable", "running"}

WaitInv ==
  \A t \in Task \ {current_task} :
    state[t] = "runnable" => waited[t] =< (TASKS - 1 - Distance(current_task, t)) * QUANTUM + current_quantum
IInv ==
  /\ TypeOK /\ RunsItsOwn /\ MaskedOnlyInSyscall
  /\ state[0] # "exited"
  /\ waited \in [Task -> Nat] /\ WaitInv

-----------------------------------------------------------------------------
LEMMA WrapIsModulo ==
  ASSUME NEW n \in Nat, n < TASKS + TASKS
  PROVE  n % TASKS = Wrap(n)
BY SchedulerAssumption DEF Wrap

(* Distance and the circle. *)
LEMMA DistanceFacts ==
  ASSUME NEW c \in Task, NEW t \in Task
  PROVE  /\ Distance(c, t) \in 1 .. TASKS /\ Wrap(c + Distance(c, t)) = t
         /\ t # c => Distance(c, t) < TASKS
BY SchedulerAssumption DEF Distance, Wrap, Task

LEMMA WrapFacts ==
  ASSUME NEW c \in Task, NEW i \in 1 .. TASKS
  PROVE  /\ Wrap(c + i) \in Task /\ Distance(c, Wrap(c + i)) = i
         /\ i < TASKS => Wrap(c + i) # c
BY SchedulerAssumption DEF Distance, Wrap, Task

LEMMA DistanceSplits ==
  ASSUME NEW c \in Task, NEW n \in Task, NEW t \in Task, n # c, t # c, t # n,
         Distance(c, n) =< Distance(c, t)
  PROVE  Distance(n, t) = Distance(c, t) - Distance(c, n)
BY SchedulerAssumption DEF Distance, Task

(* Min of a non-empty set of numbers of tasks. *)
LEMMA MinExists ==
  ASSUME NEW T \in SUBSET (1 .. TASKS), T # {}
  PROVE  Min(T) \in T /\ \A y \in T : Min(T) =< y
<1>1. T \in SUBSET Nat
  BY SchedulerAssumption
<1>2. IsWellFoundedOn(OpToRel(<, Nat), Nat)
  BY NatLessThanWellFounded, Zenon
<1>3. PICK x \in T : \A y \in T : ~ (<<y, x>> \in OpToRel(<, Nat))
  BY <1>1, <1>2, WFMin, Zenon
<1>4. ASSUME NEW y \in T PROVE x =< y
  <2>1. x \in Nat /\ y \in Nat
    BY <1>1
  <2>2. <<y, x>> \in Nat \X Nat /\ <<y, x>>[1] = y /\ <<y, x>>[2] = x
    BY <2>1
  <2>3. OpToRel(<, Nat) = {ss \in Nat \X Nat : ss[1] < ss[2]}
    BY Zenon DEF OpToRel
  <2>4. ~ (y < x)
    BY <1>3, <2>2, <2>3, Zenon
  <2> QED
    BY <2>1, <2>4
<1> QED
  BY <1>4, Zenon DEF Min

(* scheduler_pick_next returns the nearest other task that can run, and    *)
(* the current one only when there is none.                                *)
LEMMA PickNextEffect ==
  ASSUME NEW st, NEW c \in Task, NEW n, n = PickNext(st, c)
  PROVE  /\ n \in Task
         /\ n # c => Able(st, n)
         /\ \A t \in Task \ {c} : Able(st, t) => n # c /\ Distance(c, n) =< Distance(c, t)
<1> DEFINE able == {i \in 1 .. TASKS : st[(c + i) % TASKS] \in {"runnable", "running"}}
<1>1. ASSUME NEW i \in 1 .. TASKS PROVE (c + i) % TASKS = Wrap(c + i)
  <2>1. c + i \in Nat /\ c + i < TASKS + TASKS
    BY SchedulerAssumption DEF Task
  <2> QED
    BY <2>1, WrapIsModulo
<1>2. n = IF able = {} THEN c ELSE (c + Min(able)) % TASKS
  BY DEF PickNext
<1>3. ASSUME NEW t \in Task, Able(st, t) PROVE Distance(c, t) \in able
  BY <1>1, <1>3, DistanceFacts DEF Able
<1>4. CASE able = {}
  BY <1>2, <1>3, <1>4
<1>5. CASE able # {}
  <2>1. Min(able) \in able /\ \A y \in able : Min(able) =< y
    <3>1. able \in SUBSET (1 .. TASKS)
      OBVIOUS
    <3> QED
      BY <1>5, <3>1, MinExists, Zenon
  <2> DEFINE m == Min(able)
  <2>2. m \in 1 .. TASKS /\ Able(st, Wrap(c + m))
    BY <1>1, <2>1 DEF Able
  <2>3. n = Wrap(c + m)
    BY <1>1, <1>2, <1>5, <2>2
  <2>4. \A y \in able : m =< y
    BY <2>1
  <2> HIDE DEF m, able
  <2>5. n \in Task /\ Distance(c, n) = m /\ Able(st, n)
    BY <2>2, <2>3, WrapFacts
  <2>6. ASSUME NEW t \in Task \ {c}, Able(st, t) PROVE n # c /\ Distance(c, n) =< Distance(c, t)
    <3>1. m =< Distance(c, t) /\ Distance(c, t) < TASKS /\ Distance(c, t) \in 1 .. TASKS
      BY <1>3, <2>4, <2>6, DistanceFacts
    <3>2. m < TASKS
      BY <2>2, <3>1, SchedulerAssumption
    <3> QED
      BY <2>2, <2>3, <2>5, <3>1, <3>2, WrapFacts
  <2> QED
    BY <2>5, <2>6
<1> QED
  BY <1>4, <1>5

-----------------------------------------------------------------------------
LEMMA InitIInv == Init => IInv
<1> SUFFICES ASSUME Init PROVE IInv
  OBVIOUS
<1> USE SchedulerAssumption
<1>1. 0 \in Task /\ Task \subseteq Nat
  BY DEF Task
<1>2. TypeOK
  <2>1. ASSUME NEW t \in Task PROVE [task |-> t, place |-> "kernel"] \in Context
    BY DEF Context, Places
  <2>2. frame \in [Task -> Context \cup {NoFrame}]
    BY <2>1 DEF Init
  <2>3. state \in [Task -> {"runnable", "running", "exited"}]
    BY DEF Init
  <2>4. cpu \in Context /\ current_task \in Task /\ current_quantum \in 0 .. QUANTUM - 1
    BY <1>1, <2>1 DEF Init
  <2>5. preempt_pending_flag \in BOOLEAN /\ interrupts \in BOOLEAN /\ irq \in BOOLEAN
    BY Zenon DEF Init
  <2> QED
    BY <2>2, <2>3, <2>4, <2>5, Zenon DEF TypeOK
<1>3. RunsItsOwn /\ MaskedOnlyInSyscall /\ state[0] # "exited"
  BY <1>1 DEF Init, RunsItsOwn, MaskedOnlyInSyscall, NoFrame
<1>4. waited \in [Task -> Nat]
  BY DEF Init
<1>5. ASSUME NEW t \in Task \ {current_task}
      PROVE  waited[t] =< (TASKS - 1 - Distance(current_task, t)) * QUANTUM + current_quantum
  <2>1. current_task = 0 /\ current_quantum = 0 /\ waited[t] = 0
    BY DEF Init
  <2>2. Distance(0, t) \in 1 .. TASKS /\ Distance(0, t) < TASKS
    BY <1>1, <2>1, DistanceFacts
  <2>3. TASKS - 1 - Distance(0, t) \in Nat
    BY <2>2
  <2>4. (TASKS - 1 - Distance(0, t)) * QUANTUM \in Nat
    BY <2>3
  <2> QED
    BY <2>1, <2>4
<1> QED
  BY <1>2, <1>3, <1>4, <1>5 DEF IInv, WaitInv

(* The frame an interrupt saves belongs to the task that it interrupted. *)
LEMMA InterruptedFacts ==
  ASSUME TypeOK
  PROVE  /\ Interrupted \in Context /\ Interrupted.task = cpu.task
         /\ cpu.place # "syscall" => Interrupted.place # "syscall"
BY DEF TypeOK, Interrupted, Context, Places

(* A tick that switches nothing. *)
LEMMA KeepsWaitInv ==
  ASSUME IInv, Keep, state' = state, current_quantum' = current_quantum + 1
  PROVE  WaitInv' /\ waited' \in [Task -> Nat]
<1> USE SchedulerAssumption
<1>1. /\ waited \in [Task -> Nat] /\ current_task' = current_task /\ current_task \in Task
      /\ current_quantum \in Nat
  BY DEF IInv, TypeOK, Keep
<1>2. ASSUME NEW t \in Task PROVE waited'[t] \in Nat /\ waited'[t] =< waited[t] + 1
  BY <1>1 DEF Keep
<1>3. waited' \in [Task -> Nat]
  BY <1>1, <1>2 DEF Keep
<1>4. ASSUME NEW t \in Task \ {current_task}, state[t] = "runnable"
      PROVE  waited'[t] =< (TASKS - 1 - Distance(current_task, t)) * QUANTUM + current_quantum'
  <2> DEFINE b == (TASKS - 1 - Distance(current_task, t)) * QUANTUM
  <2>1. Distance(current_task, t) \in 1 .. TASKS
    BY <1>1, DistanceFacts
  <2>2. b \in Int
    BY <2>1
  <2>3. waited[t] =< b + current_quantum
    BY <1>4 DEF IInv, WaitInv
  <2> HIDE DEF b
  <2>4. waited[t] \in Nat /\ waited'[t] \in Nat /\ waited'[t] =< waited[t] + 1
    BY <1>1, <1>2
  <2>5. waited'[t] =< b + current_quantum'
    BY <1>1, <2>2, <2>3, <2>4
  <2> QED
    BY <2>5 DEF b
<1> QED
  BY <1>1, <1>3, <1>4 DEF WaitInv

(* A switch brings every task that waits a quantum nearer for each place   *)
(* in the circle it moves.                                                 *)
LEMMA SwitchBound ==
  ASSUME NEW d \in 1 .. TASKS, NEW e \in 1 .. TASKS, e < d,
         NEW w \in Nat, NEW v \in Nat, v =< w + 1, NEW q \in 0 .. QUANTUM - 1,
         w =< (TASKS - 1 - d) * QUANTUM + q
  PROVE  v =< (TASKS - 1 - e) * QUANTUM + 0
<1> USE SchedulerAssumption
<1> DEFINE x == (TASKS - 1 - d) * QUANTUM
           y == (TASKS - 1 - e) * QUANTUM
<1>1. d - e - 1 \in Nat /\ QUANTUM \in Nat
  OBVIOUS
<1>2. (d - e - 1) * QUANTUM \in Nat
  BY <1>1
<1>3. y = x + QUANTUM + (d - e - 1) * QUANTUM
  <2>1. TASKS \in Int /\ d \in Int /\ e \in Int /\ QUANTUM \in Int
    OBVIOUS
  <2>2. \A a, b \in Int : (a + 1 + b) * QUANTUM = a * QUANTUM + QUANTUM + b * QUANTUM
    BY <2>1
  <2>3. TASKS - 1 - e = (TASKS - 1 - d) + 1 + (d - e - 1)
    BY <2>1
  <2>4. TASKS - 1 - d \in Int /\ d - e - 1 \in Int
    BY <2>1
  <2> QED
    BY <2>2, <2>3, <2>4
<1>4. x \in Int /\ y \in Int
  OBVIOUS
<1>5. w =< x + q
  OBVIOUS
<1>6. v =< y
  <2> DEFINE z == (d - e - 1) * QUANTUM
  <2>1. z \in Nat /\ y = x + QUANTUM + z
    BY <1>2, <1>3
  <2> HIDE DEF x, y, z
  <2> QED
    BY <1>4, <1>5, <2>1
<1> QED
  BY <1>4, <1>6

(* What the timer interrupt does to the current task before it picks. *)
LEMMA PreemptedFacts ==
  ASSUME IInv, NEW ready, ready = Preempted(state, current_task)
  PROVE  /\ ready \in [Task -> {"runnable", "running", "exited"}]
         /\ \A t \in Task \ {current_task} : ready[t] = state[t]
         /\ \A t \in Task : ready[t] # "running" /\ (ready[t] = "exited" <=> state[t] = "exited")
         /\ ready[0] = "runnable" /\ 0 \in Task
<1>1. /\ state \in [Task -> {"runnable", "running", "exited"}] /\ current_task \in Task
      /\ \A t \in Task \ {current_task} : state[t] # "running"
      /\ state[0] # "exited"
  BY DEF IInv, TypeOK, RunsItsOwn
<1>2. ready = [state EXCEPT ![current_task] = IF state[current_task] = "running" THEN "runnable" ELSE state[current_task]]
  BY DEF Preempted
<1>3. 0 \in Task
  BY SchedulerAssumption DEF Task
<1>4. /\ ready \in [Task -> {"runnable", "running", "exited"}]
      /\ \A t \in Task \ {current_task} : ready[t] = state[t]
      /\ ready[current_task] = IF state[current_task] = "running" THEN "runnable" ELSE state[current_task]
  BY <1>1, <1>2
<1>5. \A t \in Task : ready[t] # "running" /\ (ready[t] = "exited" <=> state[t] = "exited")
  BY <1>1, <1>4
<1> QED
  BY <1>1, <1>3, <1>4, <1>5

(* The three outcomes of the timer interrupt: the quantum goes on, it ends *)
(* with no other task able to run, or the nearest one gets the processor.  *)
QuantumGoesOn ==
  /\ Keep /\ UNCHANGED <<state, frame, preempt_pending_flag>>
  /\ current_quantum' = current_quantum + 1 /\ current_quantum' < QUANTUM
StaysAlone(ready) ==
  /\ Keep /\ current_quantum' = 0 /\ preempt_pending_flag' = FALSE
  /\ frame' = [frame EXCEPT ![current_task] = Interrupted]
  /\ state' = [ready EXCEPT ![current_task] = "running"]
  /\ current_task = 0 /\ \A t \in Task \ {current_task} : ~ Able(state, t)
SwitchesTo(ready, next) ==
  /\ next \in Task \ {current_task} /\ current_task' = next
  /\ current_quantum' = 0 /\ preempt_pending_flag' = FALSE
  /\ frame' = [frame EXCEPT ![current_task] = Interrupted]
  /\ state' = [ready EXCEPT ![next] = "running"] /\ cpu' = frame[next] /\ Able(state, next)
  /\ waited' = [t \in Task |-> IF t \in {current_task, next} THEN 0 ELSE
                               IF waited[t] > MaxWait THEN waited[t] ELSE waited[t] + 1]
  /\ \A t \in Task \ {current_task} :
       Able(state, t) => Distance(current_task, next) =< Distance(current_task, t)

(* The timer interrupt never stays with a task that exited. *)
LEMMA TimerCases ==
  ASSUME IInv, TimerInterrupt, NEW ready, ready = Preempted(state, current_task),
         NEW next, next = PickNext(ready, current_task)
  PROVE  QuantumGoesOn \/ StaysAlone(ready) \/ SwitchesTo(ready, next)
<1> DEFINE quantum == current_quantum + 1
           stays == next = current_task \/ (SaveFrame(next))[next] = NoFrame
<1>1. /\ current_task \in Task /\ frame \in [Task -> Context \cup {NoFrame}]
      /\ current_quantum \in 0 .. QUANTUM - 1
      /\ \A t \in Task \ {current_task} : frame[t] # NoFrame
  BY DEF IInv, TypeOK, RunsItsOwn
<1>2. /\ next \in Task /\ (next # current_task => Able(ready, next))
      /\ \A t \in Task \ {current_task} :
           Able(ready, t) => next # current_task /\ Distance(current_task, next) =< Distance(current_task, t)
  BY <1>1, PickNextEffect
<1>3. \A t \in Task \ {current_task} : Able(ready, t) <=> Able(state, t)
  BY PreemptedFacts DEF Able
<1>4. 0 \in Task /\ Able(ready, 0)
  BY PreemptedFacts DEF Able
<1>5. stays <=> next = current_task
  <2>1. next # current_task => (SaveFrame(next))[next] = frame[next]
    BY <1>1, <1>2 DEF SaveFrame
  <2> QED
    BY <1>1, <1>2, <2>1
<1>6. \/ /\ ~ OnTick(quantum, preempt_pending_flag) /\ current_quantum' = quantum
         /\ Keep /\ UNCHANGED <<preempt_pending_flag, state, frame>>
      \/ /\ current_quantum' = 0 /\ preempt_pending_flag' = FALSE /\ frame' = SaveFrame(next)
         /\ \/ stays /\ Keep /\ state' = [ready EXCEPT ![current_task] = "running"]
            \/ /\ ~ stays /\ current_task' = next /\ state' = [ready EXCEPT ![next] = "running"]
               /\ cpu' = frame'[next]
               /\ waited' = [t \in Task |-> IF t \in {current_task, next} THEN 0 ELSE
                                            IF waited[t] > MaxWait THEN waited[t] ELSE waited[t] + 1]
  BY DEF TimerInterrupt
<1> HIDE DEF stays
<1>7. CASE /\ ~ OnTick(quantum, preempt_pending_flag) /\ current_quantum' = quantum
           /\ Keep /\ UNCHANGED <<preempt_pending_flag, state, frame>>
  <2>1. ~ (quantum >= QUANTUM)
    BY <1>7 DEF OnTick
  <2>2. current_quantum' < QUANTUM
    BY <1>1, <1>7, <2>1, SchedulerAssumption
  <2> QED
    BY <1>7, <2>2 DEF QuantumGoesOn
<1>8. CASE /\ current_quantum' = 0 /\ preempt_pending_flag' = FALSE /\ frame' = SaveFrame(next)
           /\ stays /\ Keep /\ state' = [ready EXCEPT ![current_task] = "running"]
  <2>1. next = current_task
    BY <1>5, <1>8
  <2>2. current_task = 0 /\ \A t \in Task \ {current_task} : ~ Able(state, t)
    BY <1>2, <1>3, <1>4, <2>1
  <2> QED
    BY <1>8, <2>2 DEF SaveFrame, StaysAlone
<1>9. CASE /\ current_quantum' = 0 /\ preempt_pending_flag' = FALSE /\ frame' = SaveFrame(next)
           /\ ~ stays /\ current_task' = next /\ state' = [ready EXCEPT ![next] = "running"]
           /\ cpu' = frame'[next]
           /\ waited' = [t \in Task |-> IF t \in {current_task, next} THEN 0 ELSE
                                        IF waited[t] > MaxWait THEN waited[t] ELSE waited[t] + 1]
  <2>1. next \in Task \ {current_task}
    BY <1>2, <1>5, <1>9
  <2>2. frame'[next] = frame[next]
    BY <1>1, <1>9, <2>1 DEF SaveFrame
  <2>3. \A t \in Task \ {current_task} :
          Able(state, t) => Distance(current_task, next) =< Distance(current_task, t)
    BY <1>2, <1>3
  <2>4. Able(state, next)
    BY <1>2, <1>3, <2>1
  <2> QED
    BY <1>9, <2>1, <2>2, <2>3, <2>4 DEF SaveFrame, SwitchesTo
<1> QED
  BY <1>6, <1>7, <1>8, <1>9

(* The timer interrupt keeps the invariant. *)
LEMMA TimerIInv ==
  ASSUME IInv, TimerInterrupt
  PROVE  IInv' /\ \A t \in Task : state[t] = "exited" => state'[t] = "exited"
<1> DEFINE ready == Preempted(state, current_task)
           next == PickNext(ready, current_task)
<1> USE SchedulerAssumption
<1>1. /\ state \in [Task -> {"runnable", "running", "exited"}]
      /\ frame \in [Task -> Context \cup {NoFrame}] /\ current_task \in Task
      /\ current_quantum \in 0 .. QUANTUM - 1 /\ cpu \in Context /\ cpu.task = current_task
      /\ state[current_task] \in {"running", "exited"}
      /\ \A t \in Task \ {current_task} : state[t] # "running" /\ frame[t] # NoFrame /\ frame[t].task = t
      /\ state[0] # "exited" /\ waited \in [Task -> Nat] /\ WaitInv
  BY DEF IInv, TypeOK, RunsItsOwn
<1>2. /\ preempt_pending_flag \in BOOLEAN /\ irq' \in BOOLEAN /\ interrupts' \in BOOLEAN /\ interrupts'
  BY Zenon DEF IInv, TypeOK, TimerInterrupt
<1>3. /\ ready \in [Task -> {"runnable", "running", "exited"}]
      /\ \A t \in Task \ {current_task} : ready[t] = state[t]
      /\ \A t \in Task : ready[t] # "running" /\ (ready[t] = "exited" <=> state[t] = "exited")
      /\ ready[0] = "runnable" /\ 0 \in Task
  BY PreemptedFacts
<1>4. Interrupted \in Context /\ Interrupted.task = current_task
  BY <1>1, InterruptedFacts DEF IInv
<1>5. MaskedOnlyInSyscall'
  BY <1>2, Zenon DEF MaskedOnlyInSyscall
<1>6. CASE QuantumGoesOn
  <2> USE DEF QuantumGoesOn
  <2>1. WaitInv' /\ waited' \in [Task -> Nat]
    BY <1>6, KeepsWaitInv
  <2>2. cpu' = Interrupted /\ current_task' = current_task /\ state' = state /\ frame' = frame
    BY <1>6 DEF Keep
  <2>3. current_quantum' \in 0 .. QUANTUM - 1 /\ preempt_pending_flag' \in BOOLEAN
    BY <1>1, <1>2, <1>6
  <2>4. TypeOK'
    BY <1>1, <1>2, <1>4, <2>2, <2>3, Zenon DEF TypeOK
  <2>5. RunsItsOwn' /\ state'[0] # "exited"
    BY <1>1, <1>4, <2>2 DEF RunsItsOwn
  <2> QED
    BY <1>5, <2>1, <2>2, <2>4, <2>5 DEF IInv
<1>7. CASE StaysAlone(ready)
  <2> USE DEF StaysAlone
  <2> HIDE DEF ready, next
  <2>1. cpu' = Interrupted /\ current_task' = current_task
    BY <1>7 DEF Keep
  <2>2. /\ state' \in [Task -> {"runnable", "running", "exited"}] /\ state'[current_task] = "running"
        /\ \A t \in Task \ {current_task} : state'[t] = state[t]
    BY <1>1, <1>3, <1>7
  <2>3. /\ frame' \in [Task -> Context \cup {NoFrame}]
        /\ \A t \in Task \ {current_task} : frame'[t] = frame[t]
    BY <1>1, <1>4, <1>7
  <2>4. current_quantum' \in 0 .. QUANTUM - 1 /\ preempt_pending_flag' \in BOOLEAN
    <3>1. current_quantum' \in 0 .. QUANTUM - 1
      BY <1>7
    <3> QED
      BY <1>7, <3>1, Zenon
  <2>5. TypeOK'
    BY <1>1, <1>2, <1>4, <2>1, <2>2, <2>3, <2>4, Zenon DEF TypeOK
  <2>6. RunsItsOwn' /\ state'[0] # "exited"
    BY <1>1, <1>4, <1>7, <2>1, <2>2, <2>3 DEF RunsItsOwn
  <2>7. waited' \in [Task -> Nat]
    BY <1>1, <1>7 DEF Keep
  <2>8. WaitInv'
    BY <1>7, <2>1, <2>2 DEF WaitInv, Able
  <2>9. \A t \in Task : state[t] = "exited" => state'[t] = "exited"
    BY <1>1, <1>7, <2>2
  <2> QED
    BY <1>5, <2>5, <2>6, <2>7, <2>8, <2>9 DEF IInv
<1>8. CASE SwitchesTo(ready, next)
  <2> USE DEF SwitchesTo
  <2> HIDE DEF ready, next
  <2>1. /\ state' \in [Task -> {"runnable", "running", "exited"}] /\ state'[next] = "running"
        /\ \A t \in Task \ {next} : state'[t] = ready[t]
    BY <1>3, <1>8
  <2>2. /\ frame' \in [Task -> Context \cup {NoFrame}] /\ frame'[current_task] = Interrupted
        /\ \A t \in Task \ {current_task} : frame'[t] = frame[t]
    BY <1>1, <1>4, <1>8
  <2>3. current_quantum' \in 0 .. QUANTUM - 1 /\ preempt_pending_flag' \in BOOLEAN
    <3>1. current_quantum' \in 0 .. QUANTUM - 1
      BY <1>8
    <3> QED
      BY <1>8, <3>1, Zenon
  <2>4. cpu' \in Context /\ cpu'.task = next
    BY <1>1, <1>8
  <2>5. TypeOK'
    BY <1>2, <1>8, <2>1, <2>2, <2>3, <2>4, Zenon DEF TypeOK
  <2>6. Interrupted # NoFrame
    BY <1>1, <1>4 DEF NoFrame, Task
  <2>7. ASSUME NEW t \in Task \ {next}
        PROVE  state'[t] # "running" /\ frame'[t] # NoFrame /\ frame'[t].task = t
    <3>1. CASE t = current_task
      BY <1>3, <1>4, <2>1, <2>2, <2>6, <3>1
    <3>2. CASE t # current_task
      BY <1>1, <1>3, <2>1, <2>2, <3>2
    <3> QED
      BY <3>1, <3>2
  <2>8. RunsItsOwn'
    BY <1>8, <2>1, <2>4, <2>7 DEF RunsItsOwn
  <2>9. \A t \in Task : state[t] = "exited" => state'[t] = "exited"
    BY <1>3, <1>8, <2>1 DEF Able
  <2>10. state'[0] # "exited"
    BY <1>3, <2>1
  <2>11. waited' \in [Task -> Nat]
    BY <1>1, <1>8
  <2>12. ASSUME NEW t \in Task \ {next}, state'[t] = "runnable"
         PROVE  waited'[t] =< (TASKS - 1 - Distance(next, t)) * QUANTUM + 0
    <3>1. Distance(next, t) \in 1 .. TASKS /\ Distance(next, t) < TASKS
      BY <1>8, DistanceFacts
    <3>2. CASE t = current_task
      <4>1. waited'[t] = 0
        BY <1>1, <1>8, <3>2
      <4>2. TASKS - 1 - Distance(next, t) \in Nat
        BY <3>1
      <4>3. (TASKS - 1 - Distance(next, t)) * QUANTUM \in Nat
        BY <4>2
      <4> QED
        BY <4>1, <4>3
    <3>3. CASE t # current_task
      <4>1. state[t] = "runnable" /\ Able(state, t)
        BY <1>3, <2>1, <2>12, <3>3 DEF Able
      <4>2. Distance(current_task, next) =< Distance(current_task, t)
        BY <1>8, <3>3, <4>1
      <4>3. Distance(next, t) = Distance(current_task, t) - Distance(current_task, next)
        BY <1>1, <1>8, <3>3, <4>2, DistanceSplits
      <4>4. Distance(current_task, t) \in 1 .. TASKS /\ Distance(current_task, next) \in 1 .. TASKS
        BY <1>1, <1>8, DistanceFacts
      <4>5. Distance(next, t) < Distance(current_task, t)
        BY <4>3, <4>4
      <4>6. waited[t] \in Nat /\ waited'[t] \in Nat /\ waited'[t] =< waited[t] + 1
        BY <1>1, <1>8, <3>3
      <4>7. waited[t] =< (TASKS - 1 - Distance(current_task, t)) * QUANTUM + current_quantum
        BY <1>1, <3>3, <4>1 DEF WaitInv
      <4> QED
        BY <1>1, <3>1, <4>4, <4>5, <4>6, <4>7, SwitchBound
    <3> QED
      BY <3>2, <3>3
  <2>13. WaitInv'
    BY <1>8, <2>12 DEF WaitInv
  <2> QED
    BY <1>5, <2>5, <2>8, <2>9, <2>10, <2>11, <2>13 DEF IInv
<1> QED
  <2>1. QuantumGoesOn \/ StaysAlone(ready) \/ SwitchesTo(ready, next)
    BY TimerCases
  <2> QED
    BY <1>6, <1>7, <1>8, <2>1

(* Steps of the running task: its place and its own state change, and      *)
(* neither its frame nor the circle does.                                  *)
LEMMA OwnStepIInv ==
  ASSUME IInv, frame' = frame, current_task' = current_task, current_quantum' = current_quantum,
         waited' = waited, cpu' \in Context, cpu'.task = cpu.task,
         irq' \in BOOLEAN, interrupts' \in BOOLEAN, preempt_pending_flag' \in BOOLEAN,
         interrupts' \/ cpu'.place = "syscall",
         \/ state' = state
         \/ current_task # 0 /\ state' = [state EXCEPT ![current_task] = "exited"]
  PROVE  IInv' /\ \A t \in Task : state[t] = "exited" => state'[t] = "exited"
<1>1. /\ state \in [Task -> {"runnable", "running", "exited"}] /\ current_task \in Task
      /\ frame \in [Task -> Context \cup {NoFrame}] /\ current_quantum \in 0 .. QUANTUM - 1
      /\ state[current_task] \in {"running", "exited"} /\ cpu.task = current_task
      /\ \A t \in Task \ {current_task} : state[t] # "running" /\ frame[t] # NoFrame /\ frame[t].task = t
      /\ state[0] # "exited" /\ waited \in [Task -> Nat] /\ WaitInv
  BY DEF IInv, TypeOK, RunsItsOwn
<1>2. /\ state' \in [Task -> {"runnable", "running", "exited"}]
      /\ state'[current_task] \in {"running", "exited"}
      /\ \A t \in Task \ {current_task} : state'[t] = state[t]
      /\ state'[current_task] = state[current_task] \/ (current_task # 0 /\ state'[current_task] = "exited")
  BY <1>1
<1>3. 0 \in Task
  BY SchedulerAssumption DEF Task
<1>4. TypeOK'
  BY <1>1, <1>2, Zenon DEF TypeOK
<1>5. RunsItsOwn' /\ state'[0] # "exited"
  BY <1>1, <1>2, <1>3 DEF RunsItsOwn
<1>6. MaskedOnlyInSyscall'
  BY Zenon DEF MaskedOnlyInSyscall
<1>7. WaitInv'
  BY <1>1, <1>2 DEF WaitInv
<1>8. \A t \in Task : state[t] = "exited" => state'[t] = "exited"
  BY <1>1, <1>2
<1> QED
  BY <1>1, <1>4, <1>5, <1>6, <1>7, <1>8 DEF IInv

(* A move of the processor from one place to another. *)
LEMMA GoFacts ==
  ASSUME IInv, NEW from, NEW to \in Places, NEW flag, Go(from, to, flag)
  PROVE  /\ frame' = frame /\ current_task' = current_task /\ current_quantum' = current_quantum
         /\ waited' = waited /\ irq' = irq /\ interrupts' = flag
         /\ cpu' \in Context /\ cpu'.task = cpu.task /\ cpu'.place = to /\ cpu.place = from
<1>1. cpu \in Context /\ cpu' = [cpu EXCEPT !.place = to]
  BY DEF IInv, TypeOK, Go
<1>2. cpu' \in Context /\ cpu'.task = cpu.task /\ cpu'.place = to
  BY <1>1 DEF Context
<1> QED
  BY <1>2 DEF Go

(* Every step keeps the invariant, and no step takes back an exit. *)
LEMMA StepIInv ==
  ASSUME IInv, [Next]_vars
  PROVE  IInv' /\ \A t \in Task : state[t] = "exited" => state'[t] = "exited"
<1> DEFINE Goal == IInv' /\ \A t \in Task : state[t] = "exited" => state'[t] = "exited"
<1>1. /\ irq \in BOOLEAN /\ interrupts \in BOOLEAN /\ preempt_pending_flag \in BOOLEAN /\ cpu \in Context
      /\ interrupts \/ cpu.place = "syscall"
      /\ cpu.task = current_task
  BY Zenon DEF IInv, TypeOK, MaskedOnlyInSyscall, RunsItsOwn
<1>2. {"kernel", "checked", "halt", "user", "syscall", "exiting", "trap"} = Places
  BY DEF Places
<1>3. ASSUME NEW from, NEW to \in Places, Go(from, to, TRUE), UNCHANGED state,
             preempt_pending_flag' = TRUE \/ preempt_pending_flag' = preempt_pending_flag
      PROVE  Goal
  <2>1. preempt_pending_flag' \in BOOLEAN /\ irq' \in BOOLEAN /\ interrupts' = TRUE
    BY <1>1, <1>3, GoFacts, Zenon
  <2>2. interrupts' \in BOOLEAN /\ (interrupts' \/ cpu'.place = "syscall")
    BY <2>1, Zenon
  <2>3. /\ frame' = frame /\ current_task' = current_task /\ current_quantum' = current_quantum
        /\ waited' = waited /\ cpu' \in Context /\ cpu'.task = cpu.task
    BY <1>3, GoFacts, Zenon
  <2> QED
    BY <1>3, <2>1, <2>2, <2>3, OwnStepIInv, Zenon
<1>4. ASSUME NEW to \in Places, Go("kernel", to, interrupts), preempt_pending_flag' = preempt_pending_flag,
             \/ state' = state
             \/ current_task # 0 /\ state' = [state EXCEPT ![current_task] = "exited"]
      PROVE  Goal
  <2>1. /\ frame' = frame /\ current_task' = current_task /\ current_quantum' = current_quantum
        /\ waited' = waited /\ cpu' \in Context /\ cpu'.task = cpu.task /\ cpu.place = "kernel"
        /\ irq' = irq /\ interrupts' = interrupts
    BY <1>4, GoFacts, Zenon
  <2>2. cpu.place # "syscall"
    BY <2>1
  <2>3. interrupts' /\ interrupts' \in BOOLEAN /\ irq' \in BOOLEAN /\ preempt_pending_flag' \in BOOLEAN
    BY <1>1, <1>4, <2>1, <2>2, Zenon
  <2> QED
    BY <1>4, <2>1, <2>3, OwnStepIInv, Zenon
<1>5. CASE TimerInterrupt
  BY <1>5, TimerIInv
<1>6. CASE OtherInterrupt
  <2>1. cpu' \in Context /\ cpu'.task = cpu.task
    BY <1>6, InterruptedFacts DEF OtherInterrupt, IInv
  <2>2. /\ state' = state /\ frame' = frame /\ current_task' = current_task
        /\ current_quantum' = current_quantum /\ waited' = waited
        /\ irq' = irq /\ interrupts' = interrupts /\ preempt_pending_flag' = preempt_pending_flag /\ interrupts
    BY <1>6 DEF OtherInterrupt
  <2>3. irq' \in BOOLEAN /\ interrupts' \in BOOLEAN /\ preempt_pending_flag' \in BOOLEAN /\ interrupts'
    BY <1>1, <2>2, Zenon
  <2> QED
    BY <2>1, <2>2, <2>3, OwnStepIInv, Zenon
<1>7. CASE Pit \/ UNCHANGED vars
  <2>1. /\ state' = state /\ frame' = frame /\ current_task' = current_task /\ cpu' = cpu
        /\ current_quantum' = current_quantum /\ waited' = waited /\ interrupts' = interrupts
        /\ preempt_pending_flag' = preempt_pending_flag /\ (irq' = TRUE \/ irq' = irq)
    BY <1>7 DEF Pit, vars
  <2>2. /\ irq' \in BOOLEAN /\ interrupts' \in BOOLEAN /\ preempt_pending_flag' \in BOOLEAN
        /\ interrupts' \/ cpu'.place = "syscall"
    BY <1>1, <2>1, Zenon
  <2>3. cpu' \in Context /\ cpu'.task = cpu.task
    BY <1>1, <2>1
  <2> QED
    BY <2>1, <2>2, <2>3, OwnStepIInv, Zenon
<1>8. CASE Halt \/ EnterUser \/ SyscallUptime \/ SyscallReturn \/ SyscallExit
  BY <1>2, <1>3, <1>8 DEF Halt, EnterUser, SyscallUptime, SyscallReturn, SyscallExit
<1>9. CASE Yield("kernel") \/ Yield("checked") \/ SyscallYield \/ ExitTrapHalts
  BY <1>2, <1>3, <1>9 DEF Yield, SyscallYield, ExitTrapHalts
<1>10. CASE PreemptIfNeeded
  BY <1>2, <1>4, <1>10 DEF PreemptIfNeeded
<1>11. CASE ExitTrap
  <2>1. current_task # 0
    BY <1>1, <1>11, SchedulerAssumption DEF ExitTrap
  <2>2. "exiting" \in Places
    BY DEF Places
  <2> QED
    BY <1>4, <1>11, <2>1, <2>2 DEF ExitTrap
<1>12. CASE SystemCall
  <2>1. /\ frame' = frame /\ current_task' = current_task /\ current_quantum' = current_quantum
        /\ waited' = waited /\ cpu' \in Context /\ cpu'.task = cpu.task /\ cpu'.place = "syscall"
        /\ irq' = irq /\ interrupts' = FALSE
    BY <1>2, <1>12, GoFacts DEF SystemCall
  <2>2. state' = state /\ preempt_pending_flag' = preempt_pending_flag
    BY <1>12 DEF SystemCall
  <2>3. /\ irq' \in BOOLEAN /\ interrupts' \in BOOLEAN /\ preempt_pending_flag' \in BOOLEAN
        /\ interrupts' \/ cpu'.place = "syscall"
    BY <1>1, <2>1, <2>2, Zenon
  <2> QED
    BY <2>1, <2>2, <2>3, OwnStepIInv, Zenon
<1> HIDE DEF Goal
<1>13. Goal
  BY <1>5, <1>6, <1>7, <1>8, <1>9, <1>10, <1>11, <1>12, Zenon DEF Next, SyscallEnds, Goal
<1> QED
  BY <1>13 DEF Goal

LEMMA Inductive == Spec => []IInv
<1>1. IInv /\ [Next]_vars => IInv'
  BY StepIInv
<1> QED
  BY InitIInv, <1>1, PTL DEF Spec

-----------------------------------------------------------------------------
(* The processor always executes the current task's own context, and every *)
(* other task has exactly the frame of its own interruption to come back   *)
(* to (scheduler_schedule_from_interrupt).                                 *)
THEOREM ContextsAreKept == Spec => [](TypeOK /\ RunsItsOwn)
<1>1. IInv => TypeOK /\ RunsItsOwn
  BY DEF IInv
<1> QED
  BY Inductive, <1>1, PTL

(* Only a system call keeps the timer out. *)
THEOREM TimerKeptOutOnlyBySyscalls == Spec => []MaskedOnlyInSyscall
<1>1. IInv => MaskedOnlyInSyscall
  BY DEF IInv
<1> QED
  BY Inductive, <1>1, PTL

(* No task that can run waits for the full quantum of each other task, for *)
(* any number of tasks: the circle of scheduler_pick_next starves nobody.  *)
THEOREM WaitIsBounded == Spec => []BoundedWait
<1>1. ASSUME IInv PROVE BoundedWait
  <2> USE SchedulerAssumption
  <2> SUFFICES ASSUME NEW t \in Task, state[t] = "runnable" PROVE waited[t] < MaxWait
    BY DEF BoundedWait
  <2>1. /\ t # current_task /\ current_task \in Task /\ current_quantum \in 0 .. QUANTUM - 1
        /\ waited[t] \in Nat
    BY <1>1 DEF IInv, RunsItsOwn, TypeOK
  <2> DEFINE d == Distance(current_task, t)
  <2>2. d \in 1 .. TASKS
    BY <2>1, DistanceFacts
  <2>3. waited[t] =< (TASKS - 1 - d) * QUANTUM + current_quantum
    BY <1>1, <2>1 DEF IInv, WaitInv
  <2> HIDE DEF d
  <2>4. (TASKS - 1) * QUANTUM = (TASKS - 1 - d) * QUANTUM + QUANTUM + (d - 1) * QUANTUM
    <3>1. \A a, b \in Int : (a + 1 + b) * QUANTUM = a * QUANTUM + QUANTUM + b * QUANTUM
      OBVIOUS
    <3>2. TASKS - 1 = (TASKS - 1 - d) + 1 + (d - 1) /\ TASKS - 1 - d \in Int /\ d - 1 \in Int
      BY <2>2
    <3> QED
      BY <3>1, <3>2
  <2> DEFINE x == (TASKS - 1 - d) * QUANTUM
             y == (d - 1) * QUANTUM
  <2>5. d - 1 \in Nat /\ x \in Int
    BY <2>2
  <2>6. y \in Nat
    BY <2>5
  <2>7. MaxWait = x + QUANTUM + y /\ waited[t] =< x + current_quantum
    BY <2>3, <2>4 DEF MaxWait
  <2> HIDE DEF x, y
  <2> QED
    BY <2>1, <2>5, <2>6, <2>7
<1> QED
  BY Inductive, <1>1, PTL

(* A task that returned never runs again, although the scheduler would     *)
(* mark it running if it found no other task.                              *)
THEOREM ExitIsFinal == Spec => ExitedStaysExited
<1>1. IInv /\ [Next]_vars => [\A t \in Task : state[t] = "exited" => state'[t] = "exited"]_vars
  BY StepIInv
<1> QED
  BY Inductive, <1>1, PTL DEF Spec, ExitedStaysExited
=============================================================================
