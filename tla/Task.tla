-------------------------------- MODULE Task --------------------------------
(***************************************************************************)
(* Processes of Jex-OS: the ready queue, the round-robin scheduler, fork,   *)
(* exit, waitpid and signals (src/kernel/task.c).                           *)
(*                                                                          *)
(* One CPU.  Code that runs with interrupts off (fork, _task_exit, every    *)
(* system call, every turn of waitpid's loop but the first one of a kernel  *)
(* caller) is one step.  The scheduler's two loops take one step per turn;  *)
(* interrupts are off in them, so nothing else moves meanwhile.  Code that  *)
(* runs with interrupts on (the shell, pid 1, is kernel code) is split      *)
(* where the timer can preempt it.                                          *)
(*                                                                          *)
(* A task_t is named by its pid and pids are never reused; 0 is NULL.       *)
(* exit codes, names, tick counts and register contents are left out.       *)
(***************************************************************************)
EXTENDS Integers

CONSTANTS
    MaxPid,     \* bound: forks stop once next_pid exceeds it
    Signals,    \* the signal numbers that programs use
    Handlers    \* what programs pass to sys_signal

SIGKILL == 9
SIGCHLD == 17
SIG_DFL == "SIG_DFL"
SIG_IGN == "SIG_IGN"

\* A kernel stack slot is 8 of the 1024 entries of one page table, so only
\* pids below 128 have a slot of their own (alloc_kernel_stack).
ASSUME MaxPidAssumption == MaxPid \in 1..127
ASSUME SignalsAssumption == Signals \subseteq 1..31
ASSUME HandlersAssumption == SIG_DFL \in Handlers

Pids == 1..MaxPid
NULL == 0
AnyChild == -1

VARIABLES
    ready_queue,      \* head of the ready list
    next,             \* task_t.next
    current_task,     \* pid of the running task
    next_pid,
    state,            \* task_t.state
    parent_pid,       \* task_t.parent_pid
    signal_pending,   \* task_t.signal_pending, as a set of signal numbers
    signal_handlers,  \* task_t.signal_handlers
    heap,             \* pids whose task_t is allocated
    kstack,           \* pids whose kernel stack is mapped
    cpu,              \* what the CPU executes: a task, or a loop of task_switch
    start,            \* task_switch's local of that name
    intr,             \* EFLAGS.IF
    pc,               \* where each task is: its own code, or inside waitpid
    warg,             \* waitpid's argument, NULL outside waitpid
    prev              \* waitpid's local "prev" when the shell found its zombie

list  == <<ready_queue, next>>
sig   == <<signal_pending, signal_handlers>>
mem   == <<heap, kstack>>
wait  == <<warg, prev>>
vars  == <<list, current_task, next_pid, state, parent_pid, sig, mem,
           cpu, start, intr, pc, wait>>

(* The tasks that a walk from ready_queue along next meets: the least set   *)
(* that holds the head and is closed under next.                            *)
Linked ==
    LET Closed == {S \in SUBSET Pids :
                     /\ ready_queue \in S \cup {NULL}
                     /\ \A p \in S : next[p] \in S \cup {NULL}}
    IN  {p \in Pids : \A S \in Closed : p \in S}

(* The task after p, or the head of the list at its end.                    *)
NextOrHead(p) == IF next[p] # NULL THEN next[p] ELSE ready_queue

Init ==
    /\ ready_queue = 1
    /\ next = [p \in Pids |-> NULL]
    /\ current_task = 1
    /\ next_pid = 2
    /\ state = [p \in Pids |-> IF p = 1 THEN "RUNNING" ELSE "READY"]
    /\ parent_pid = [p \in Pids |-> 0]
    /\ signal_pending = [p \in Pids |-> {}]
    /\ signal_handlers = [p \in Pids |-> [s \in Signals |-> SIG_DFL]]
    /\ heap = {1}
    /\ kstack = {1}
    /\ cpu = "task"
    /\ start = NULL
    /\ intr = TRUE
    /\ pc = [p \in Pids |-> "run"]
    /\ warg = [p \in Pids |-> NULL]
    /\ prev = NULL

-----------------------------------------------------------------------------
(* The scheduler *)

(* Mutant: every search for a task starts at the head of the list.          *)
EnterSwitchAtHead ==
    /\ start' = current_task
    /\ current_task' = ready_queue
    /\ cpu' = "skip"
    /\ intr' = FALSE

(* task_switch up to its first loop: step to the next task in the list.     *)
EnterSwitch ==
    /\ start' = current_task
    /\ current_task' = NextOrHead(current_task)
    /\ cpu' = "skip"
    /\ intr' = FALSE

(* IRQ0 calls task_switch.                                                  *)
TimerTick ==
    /\ cpu = "task"
    /\ intr
    /\ EnterSwitch
    /\ UNCHANGED <<list, next_pid, state, parent_pid, sig, mem, pc, wait>>

(* One turn of the loop that skips zombies; the CPU halts for ever when the *)
(* search is back at a start that is a zombie too.                          *)
SkipZombie ==
    /\ cpu = "skip"
    /\ state[current_task] = "ZOMBIE"
    /\ current_task' = NextOrHead(current_task)
    /\ cpu' = IF current_task' = start /\ state[start] = "ZOMBIE"
                THEN "halted" ELSE "skip"
    /\ UNCHANGED <<list, next_pid, state, parent_pid, sig, mem, start, intr,
                   pc, wait>>

(* Mutant: the zombie test is dropped.                                      *)
SkipDoneAnyState ==
    /\ cpu = "skip"
    /\ cpu' = "deliver"
    /\ start' = NULL
    /\ UNCHANGED <<list, current_task, next_pid, state, parent_pid, sig, mem,
                   intr, pc, wait>>

(* Mutant: signals are not looked at before the task runs.                  *)
SkipDoneNoSignals ==
    /\ cpu = "skip"
    /\ state[current_task] # "ZOMBIE"
    /\ cpu' = "task"
    /\ intr' = TRUE
    /\ start' = NULL
    /\ UNCHANGED <<list, current_task, next_pid, state, parent_pid, sig, mem,
                   pc, wait>>

SkipDone ==
    /\ cpu = "skip"
    /\ state[current_task] # "ZOMBIE"
    /\ cpu' = "deliver"
    /\ start' = NULL
    /\ UNCHANGED <<list, current_task, next_pid, state, parent_pid, sig, mem,
                   intr, pc, wait>>

(* deliver_signals looks at the lowest pending signal only.  (No code ever  *)
(* sets signal_blocked.)                                                    *)
Lowest(S) == CHOOSE s \in S : \A r \in S : s <= r

Fatal(p, s) ==
    \/ s = SIGKILL
    \/ signal_handlers[p][s] = SIG_DFL /\ s # SIGCHLD

(* Load the context of the chosen task, with interrupts on.                 *)
Dispatch ==
    /\ cpu' = "task"
    /\ intr' = TRUE
    /\ UNCHANGED <<list, current_task, state>>

(* Make a task killed by a signal a zombie, take it off the list and go on  *)
(* with the one behind it.                                                  *)
Terminate(p) ==
    /\ state' = [state EXCEPT ![p] = "ZOMBIE"]
    /\ ready_queue' = IF ready_queue = p THEN next[p] ELSE ready_queue
    /\ next' = LET linked == Linked
               IN  [q \in Pids |-> IF q \in linked /\ next[q] = p
                                    THEN next[p] ELSE next[q]]
    /\ current_task' = IF next[p] # NULL THEN next[p] ELSE ready_queue'
    /\ cpu' = IF current_task' = NULL THEN "panic" ELSE "deliver"
    /\ UNCHANGED intr

DeliverSignals ==
    /\ cpu = "deliver"
    /\ \/ /\ signal_pending[current_task] = {}
          /\ Dispatch
          /\ UNCHANGED signal_pending
       \/ \E s \in signal_pending[current_task] :
            /\ s = Lowest(signal_pending[current_task])
            /\ signal_pending' = [signal_pending EXCEPT ![current_task] = @ \ {s}]
            /\ \/ Fatal(current_task, s) /\ Terminate(current_task)
               \/ ~Fatal(current_task, s) /\ Dispatch
    /\ UNCHANGED <<next_pid, parent_pid, signal_handlers, mem, start, pc, wait>>

-----------------------------------------------------------------------------
(* fork and kernel_fork *)

(* kmalloc or clone_page_directory fails: nothing is left behind.           *)
ForkNoMemory ==
    /\ intr' = TRUE
    /\ UNCHANGED <<list, next_pid, state, parent_pid, sig, mem, pc, wait>>

(* alloc_kernel_stack fails, after the pid was taken.  fork keeps the       *)
(* task_t, kernel_fork frees it.                                            *)
ForkNoStack(t) ==
    /\ next_pid' = next_pid + 1
    /\ heap' = IF t = 1 THEN heap ELSE heap \cup {next_pid}
    /\ intr' = TRUE
    /\ UNCHANGED <<list, state, parent_pid, sig, kstack, pc, wait>>

(* Mutant: the child is put behind the head of the list, whose rest is lost. *)
ForkChildAtHead(t) ==
    /\ next_pid' = next_pid + 1
    /\ heap' = heap \cup {next_pid}
    /\ kstack' = kstack \cup {next_pid}
    /\ state' = [state EXCEPT ![next_pid] = "READY"]
    /\ parent_pid' = [parent_pid EXCEPT ![next_pid] = t]
    /\ next' = [next EXCEPT ![ready_queue] = next_pid]
    /\ intr' = TRUE
    /\ UNCHANGED <<ready_queue, sig>>

(* A child of t at the tail of the list, with t's handlers and no pending   *)
(* signal.                                                                  *)
ForkChild(t) ==
    /\ next_pid' = next_pid + 1
    /\ heap' = heap \cup {next_pid}
    /\ kstack' = kstack \cup {next_pid}
    /\ state' = [state EXCEPT ![next_pid] = "READY"]
    /\ parent_pid' = [parent_pid EXCEPT ![next_pid] = t]
    /\ signal_pending' = [signal_pending EXCEPT ![next_pid] = {}]
    /\ signal_handlers' =
            [signal_handlers EXCEPT ![next_pid] = signal_handlers[t]]
    /\ \E tail \in Linked :
          /\ next[tail] = NULL
          /\ next' = [next EXCEPT ![tail] = next_pid, ![next_pid] = NULL]
    /\ intr' = TRUE
    /\ UNCHANGED ready_queue

(* A program's fork.                                                        *)
Fork(t) ==
    /\ t # 1
    /\ pc[t] = "run"
    /\ next_pid <= MaxPid
    /\ \/ ForkNoMemory
       \/ ForkNoStack(t)
       \/ ForkChild(t) /\ UNCHANGED <<pc, wait>>
    /\ UNCHANGED <<current_task, cpu, start>>

(* The shell runs a program: kernel_fork, then waitpid for that child.      *)
KernelFork(t) ==
    /\ t = 1
    /\ pc[t] = "run"
    /\ next_pid <= MaxPid
    /\ \/ ForkNoMemory
       \/ ForkNoStack(t)
       \/ /\ ForkChild(t)
          /\ pc' = [pc EXCEPT ![t] = "forked"]
          /\ warg' = [warg EXCEPT ![t] = next_pid]
          /\ UNCHANGED prev
    /\ UNCHANGED <<current_task, cpu, start>>

-----------------------------------------------------------------------------
(* exit, waitpid *)

(* _task_exit: the children on the list go to init, the task becomes a      *)
(* zombie that stays on the list, and the CPU goes to the next task.        *)
Exit(t) ==
    /\ t # 1
    /\ pc[t] = "run"
    /\ parent_pid' = LET orphans == {p \in Linked : parent_pid[p] = t}
                     IN  [p \in Pids |-> IF p \in orphans
                                          THEN 1 ELSE parent_pid[p]]
    /\ state' = [state EXCEPT ![t] = "ZOMBIE"]
    /\ EnterSwitch
    /\ UNCHANGED <<list, next_pid, sig, mem, pc, wait>>

(* Mutant: only a wait for any child matches.                               *)
ZombieChildrenAny(t, pid) ==
    {z \in Linked : /\ state[z] = "ZOMBIE"
                    /\ parent_pid[z] = t
                    /\ pid = AnyChild}

(* Pids grow along the list, so the first match of a scan is the lowest.    *)
ZombieChildren(t, pid) ==
    {z \in Linked : /\ state[z] = "ZOMBIE"
                    /\ parent_pid[z] = t
                    /\ pid \in {AnyChild, z}}

HasChildren(t) == \E c \in Linked : parent_pid[c] = t

(* The scan's trailing pointer when it stands on z.                         *)
Prev(z) == IF ready_queue = z THEN NULL
           ELSE CHOOSE q \in Linked : next[q] = z

(* Mutant: the kernel stack is not freed.                                   *)
ReapKeepStack(p, z) ==
    /\ ready_queue' = IF p = NULL THEN next[z] ELSE ready_queue
    /\ next' = [q \in Pids |-> IF q = p THEN next[z] ELSE next[q]]
    /\ heap' = heap \ {z}
    /\ UNCHANGED kstack

(* free_kernel_stack, "prev->next = scan->next", kfree.                     *)
Reap(p, z) ==
    /\ ready_queue' = IF p = NULL THEN next[z] ELSE ready_queue
    /\ next' = [q \in Pids |-> IF q = p THEN next[z] ELSE next[q]]
    /\ kstack' = kstack \ {z}
    /\ heap' = heap \ {z}

(* One turn of waitpid's loop with interrupts off.  "No children" returns   *)
(* without sti: the system call stub turns interrupts on for a program,     *)
(* nothing does for the shell.                                              *)
WaitTurn(t, pid) ==
    /\ \/ LET zombies == ZombieChildren(t, pid) IN
          \E z \in zombies :
            /\ \A y \in zombies : z <= y
            /\ Reap(Prev(z), z)
            /\ pc' = [pc EXCEPT ![t] = "sweep"]
            /\ warg' = [warg EXCEPT ![t] = NULL]
            /\ intr' = FALSE
       \/ /\ ZombieChildren(t, pid) = {}
          /\ \/ /\ HasChildren(t)
                /\ pc' = [pc EXCEPT ![t] = "wait"]
                /\ warg' = [warg EXCEPT ![t] = pid]
                /\ intr' = TRUE
             \/ /\ ~HasChildren(t)
                /\ pc' = [pc EXCEPT ![t] = "run"]
                /\ warg' = [warg EXCEPT ![t] = NULL]
                /\ intr' = (t # 1)
          /\ UNCHANGED <<list, mem>>
    /\ UNCHANGED <<current_task, next_pid, state, parent_pid, sig, cpu, start,
                   prev>>

(* A program's waitpid system call: its first turn.                         *)
Waitpid(t) ==
    /\ t # 1
    /\ pc[t] = "run"
    /\ \E pid \in Pids \cup {AnyChild} : WaitTurn(t, pid)

(* Back from "sti; pause; cli": the next turn.                              *)
WaitAgain(t) ==
    /\ pc[t] = "wait"
    /\ WaitTurn(t, warg[t])

(* The first turn of the shell's waitpid runs with interrupts on: it finds  *)
(* its zombie, writes a line to the serial port, and only then unlinks it.  *)
ShellScan(t) ==
    /\ t = 1
    /\ pc[t] = "forked"
    /\ \/ /\ warg[t] \in ZombieChildren(t, warg[t])
          /\ pc' = [pc EXCEPT ![t] = "found"]
          /\ prev' = Prev(warg[t])
          /\ UNCHANGED warg
       \/ /\ ZombieChildren(t, warg[t]) = {}
          /\ HasChildren(t)
          /\ pc' = [pc EXCEPT ![t] = "wait"]
          /\ UNCHANGED <<warg, prev>>
       \/ /\ ~HasChildren(t)
          /\ pc' = [pc EXCEPT ![t] = "run"]
          /\ warg' = [warg EXCEPT ![t] = NULL]
          /\ UNCHANGED prev
    /\ UNCHANGED <<list, current_task, next_pid, state, parent_pid, sig, mem,
                   cpu, start, intr>>

(* The rest of that turn.  The list may have changed since the scan.        *)
ShellReap(t) ==
    /\ t = 1
    /\ pc[t] = "found"
    /\ Reap(prev, warg[t])
    /\ pc' = [pc EXCEPT ![t] = "sweep"]
    /\ warg' = [warg EXCEPT ![t] = NULL]
    /\ prev' = NULL
    /\ UNCHANGED <<current_task, next_pid, state, parent_pid, sig, cpu, start,
                   intr>>

(* Mutant: waitpid returns without sti.                                     *)
SweepNoSti(t) ==
    /\ pc[t] = "sweep"
    /\ ZombieChildren(t, AnyChild) \ {t} = {}
    /\ pc' = [pc EXCEPT ![t] = "run"]
    /\ UNCHANGED <<list, current_task, next_pid, state, parent_pid, sig, mem,
                   cpu, start, intr, wait>>

(* waitpid's second loop, one zombie per step: every other zombie child of  *)
(* the caller is reaped too.  Then sti and return.                          *)
Sweep(t) ==
    /\ pc[t] = "sweep"
    /\ \/ LET zombies == ZombieChildren(t, AnyChild) \ {t} IN
          \E z \in zombies :
            /\ \A y \in zombies : z <= y
            /\ Reap(Prev(z), z)
            /\ UNCHANGED <<pc, intr>>
       \/ /\ ZombieChildren(t, AnyChild) \ {t} = {}
          /\ pc' = [pc EXCEPT ![t] = "run"]
          /\ intr' = TRUE
          /\ UNCHANGED <<list, mem>>
    /\ UNCHANGED <<current_task, next_pid, state, parent_pid, sig, cpu, start,
                   wait>>

-----------------------------------------------------------------------------
(* Signals, the shell's main loop *)

(* Mutant: pid 1 may be killed.                                             *)
KillAnyone(t) ==
    /\ pc[t] = "run"
    /\ \E pid \in Linked, s \in Signals :
          signal_pending' = [signal_pending EXCEPT ![pid] = @ \cup {s}]
    /\ UNCHANGED <<list, current_task, next_pid, state, parent_pid,
                   signal_handlers, mem, cpu, start, intr, pc, wait>>

(* sys_kill; without a match in the list it changes nothing.                *)
Kill(t) ==
    /\ pc[t] = "run"
    /\ \E pid \in Linked \ {1}, s \in Signals :
          signal_pending' = [signal_pending EXCEPT ![pid] = @ \cup {s}]
    /\ UNCHANGED <<list, current_task, next_pid, state, parent_pid,
                   signal_handlers, mem, cpu, start, intr, pc, wait>>

(* sys_signal, refused for SIGKILL.  The shell never calls it.              *)
Signal(t) ==
    /\ t # 1
    /\ pc[t] = "run"
    /\ \E s \in Signals \ {SIGKILL}, h \in Handlers :
          signal_handlers' = [signal_handlers EXCEPT ![t][s] = h]
    /\ UNCHANGED <<list, current_task, next_pid, state, parent_pid,
                   signal_pending, mem, cpu, start, intr, pc, wait>>

(* shell_loop ends each turn with "sti; hlt".                               *)
ShellIdle(t) ==
    /\ t = 1
    /\ pc[t] = "run"
    /\ intr' = TRUE
    /\ UNCHANGED <<list, current_task, next_pid, state, parent_pid, sig, mem,
                   cpu, start, pc, wait>>

-----------------------------------------------------------------------------
(* Once code follows a pointer to a freed task_t the C source says nothing  *)
(* about what happens: the model stops there.                               *)
Dangling ==
    \/ ~(Linked \subseteq heap)
    \/ /\ cpu = "task"
       /\ pc[current_task] = "found"
       /\ ~({warg[current_task], prev} \subseteq heap \cup {NULL})

UseAfterFree ==
    /\ Dangling \/ cpu = "undefined"
    /\ cpu' = "undefined"
    /\ UNCHANGED <<list, current_task, next_pid, state, parent_pid, sig, mem,
                   start, intr, pc, wait>>

Switch == SkipZombie \/ SkipDone \/ DeliverSignals

Step(t) ==
    \/ Fork(t) \/ KernelFork(t) \/ Exit(t)
    \/ Waitpid(t) \/ WaitAgain(t) \/ ShellScan(t) \/ ShellReap(t) \/ Sweep(t)
    \/ Kill(t) \/ Signal(t) \/ ShellIdle(t)

Next ==
    \/ /\ ~Dangling
       /\ \/ TimerTick
          \/ Switch
          \/ cpu = "task" /\ Step(current_task)
    \/ UseAfterFree

Spec == Init /\ [][Next]_vars

(* Fairness: the PIT keeps interrupting while interrupts are on; the        *)
(* scheduler's loops run on; between two ticks (10 ms apart) kernel code    *)
(* that is under way gets to its next step; and the shell, when it has      *)
(* nothing to do, comes back to "sti; hlt".  Programs owe nothing: they     *)
(* need not exit, wait or fork.                                             *)
KernelWork(t) ==
    /\ cpu = "task"
    /\ current_task = t
    /\ ~Dangling
    /\ WaitAgain(t) \/ ShellScan(t) \/ ShellReap(t) \/ Sweep(t)

FairSpec ==
    /\ Spec
    /\ WF_vars(TimerTick /\ ~Dangling)
    /\ WF_vars(Switch /\ ~Dangling)
    /\ \A t \in Pids : SF_vars(KernelWork(t))
    /\ WF_vars(cpu = "task" /\ ShellIdle(current_task) /\ ~Dangling)

-----------------------------------------------------------------------------
(* Properties *)

(* Links, pids, signal sets and the positions in waitpid have their types.  *)
TypeOK ==
    /\ ready_queue \in Pids
    /\ next \in [Pids -> Pids \cup {NULL}]
    /\ current_task \in Pids
    /\ next_pid \in 2..(MaxPid + 1)
    /\ state \in [Pids -> {"READY", "RUNNING", "ZOMBIE"}]
    /\ parent_pid \in [Pids -> Pids \cup {0}]
    /\ signal_pending \in [Pids -> SUBSET Signals]
    /\ signal_handlers \in [Pids -> [Signals -> Handlers]]
    /\ heap \subseteq Pids
    /\ kstack \subseteq Pids
    /\ cpu \in {"task", "skip", "deliver", "halted", "panic", "undefined"}
    /\ start \in Pids \cup {NULL}
    /\ intr \in BOOLEAN
    /\ pc \in [Pids -> {"run", "forked", "wait", "found", "sweep"}]
    /\ warg \in [Pids -> Pids \cup {NULL, AnyChild}]
    /\ prev \in Pids \cup {NULL}

(* The scheduler always has a task to run: the shell (pid 1) heads the      *)
(* ready list and is never a zombie, so neither the "all tasks are zombies" *)
(* halt nor the "All tasks terminated by signals" panic of task_switch is   *)
(* ever reached, whatever programs fork, kill, exit and wait for.           *)
InitSurvives ==
    /\ cpu \notin {"halted", "panic"}
    /\ ready_queue = 1
    /\ state[1] # "ZOMBIE"

(* The ready list is in the order of creation, which is what makes the scan *)
(* order of waitpid and of task_switch the order of the pids, and a list    *)
(* walk end: next never leads back.                                         *)
ListSorted == \A p \in Pids : next[p] # NULL => p < next[p]

(* _task_exit promises that "the scheduler skips zombies": a task that      *)
(* exited never executes again.                                             *)
ZombieNeverScheduled == cpu = "task" => state[current_task] # "ZOMBIE"

(* "They stay around for the parent to reap": a zombie that nobody has      *)
(* reaped is still on the ready list, where waitpid finds it.               *)
ZombieStaysForParent ==
    {p \in heap : state[p] = "ZOMBIE"} \subseteq Linked

(* waitpid and fork return with interrupts on ("re-enable interrupts before *)
(* returning"): no task runs its own code with the timer shut out.          *)
InterruptsOn == (cpu = "task" /\ pc[current_task] = "run") => intr

(* No kernel stack is lost or freed early: as long as no freed task_t is in *)
(* use, the mapped stacks are exactly the stacks of the tasks on the ready  *)
(* list, through failed forks, exits, reaping and sweeping.                 *)
StacksMatchTasks == ~Dangling => kstack = Linked

(* The shell's waitpid returns once the child it waits for is a zombie.     *)
WaitReturns ==
    (pc[1] = "wait" /\ state[warg[1]] = "ZOMBIE") ~> pc[1] = "run"

(* "SIGKILL: immediate termination": a living task that was sent SIGKILL is *)
(* eventually a zombie.                                                     *)
SigkillTerminates ==
    \A t \in Pids :
        (t \in Linked /\ SIGKILL \in signal_pending[t])
        ~> (state[t] = "ZOMBIE" \/ cpu = "undefined")

(* Round robin starves nobody: a task on the list that is alive gets the    *)
(* CPU, or is killed first.                                                 *)
NoStarvation ==
    \A t \in Pids :
        (t \in Linked /\ state[t] # "ZOMBIE")
        ~> \/ cpu = "task" /\ current_task = t
           \/ state[t] = "ZOMBIE"
           \/ cpu = "undefined"

=============================================================================
