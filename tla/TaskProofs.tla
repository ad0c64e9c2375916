----------------------------- MODULE TaskProofs -----------------------------
(***************************************************************************)
(* The scheduler always finds a task to run, for every number of tasks,     *)
(* every set of signals and every handler: Spec => []InitSurvives.          *)
(* Where no signal is sent, a zombie waits for its parent, every kernel     *)
(* stack belongs to a task that is linked, and interrupts are on whenever   *)
(* a task runs.                                                             *)
(***************************************************************************)
EXTENDS Task, TLAPS

-----------------------------------------------------------------------------
(* The ready list as a least fixed point *)

(* Linked is contained in every set of pids that holds the head and is      *)
(* closed under next: the induction principle of a list walk.               *)
LEMMA LinkedLeast ==
    ASSUME NEW S \in SUBSET Pids,
           ready_queue \in S \cup {NULL},
           \A p \in S : next[p] \in S \cup {NULL}
    PROVE  Linked \subseteq S
  BY DEF Linked

(* The head of the list, if there is one, is linked.                        *)
LEMMA LinkedHead ==
    ASSUME ready_queue \in Pids
    PROVE  ready_queue \in Linked
  BY DEF Linked, Pids, NULL

(* A walk goes on: what a linked task points to is linked.                  *)
LEMMA LinkedClosed ==
    ASSUME next \in [Pids -> Pids \cup {NULL}],
           NEW p \in Linked
    PROVE  next[p] \in Linked \cup {NULL}
  BY DEF Linked

(* Only pids are linked.                                                    *)
LEMMA LinkedPids == Linked \subseteq Pids
  BY DEF Linked

(* A linked task other than the head has a predecessor on the list, which   *)
(* is what Prev chooses.                                                    *)
LEMMA LinkedPred ==
    ASSUME next \in [Pids -> Pids \cup {NULL}],
           ready_queue \in Pids,
           NEW z \in Linked,
           z # ready_queue
    PROVE  Prev(z) \in Linked /\ next[Prev(z)] = z
  <1>1. \E q \in Linked : next[q] = z
    <2>1. SUFFICES ASSUME \A q \in Linked : next[q] # z
                   PROVE  FALSE
      OBVIOUS
    <2> DEFINE S == Linked \ {z}
    <2>2. S \in SUBSET Pids
      BY LinkedPids
    <2>3. ready_queue \in S \cup {NULL}
      BY LinkedHead
    <2>4. \A p \in S : next[p] \in S \cup {NULL}
      BY <2>1, LinkedClosed
    <2>5. Linked \subseteq S
      BY <2>2, <2>3, <2>4, LinkedLeast, Zenon
    <2> QED
      BY <2>5
  <1> QED
    BY <1>1 DEF Prev

-----------------------------------------------------------------------------
(* The inductive invariant *)

(* InitSurvives needs, beside types: that no signal is ever pending for     *)
(* pid 1; that pids grow along the list and are below next_pid, so that a   *)
(* search that has passed start cannot come back to it without meeting      *)
(* pid 1; and that the predecessor the shell remembers across a preemption  *)
(* is a task older than the zombie it found.                                *)
SearchBounded ==
    cpu = "skip" => start \in Pids /\ (current_task > start \/ current_task = 1)

FoundOrdered ==
    pc[1] = "found" => prev \in Pids /\ warg[1] \in Pids /\ prev < warg[1]

IInv ==
    /\ TypeOK
    /\ InitSurvives
    /\ signal_pending[1] = {}
    /\ ListSorted
    /\ \A p \in Pids : next[p] < next_pid
    /\ SearchBounded
    /\ pc[1] = "forked" => warg[1] \in Pids
    /\ FoundOrdered

(* The part of it that reaping can disturb.                                 *)
ListInv ==
    /\ ready_queue = 1
    /\ next \in [Pids -> Pids \cup {NULL}]
    /\ \A q \in Pids : next[q] < next_pid
    /\ ListSorted
    /\ heap \subseteq Pids
    /\ kstack \subseteq Pids

(* Every task on the list was created.                                      *)
LEMMA LinkedOld ==
    ASSUME IInv
    PROVE  \A p \in Linked : p < next_pid
  <1> DEFINE S == {p \in Pids : p < next_pid}
  <1>1. ready_queue \in S \cup {NULL}
    BY DEF IInv, TypeOK, InitSurvives, Pids
  <1>2. \A p \in S : next[p] \in S \cup {NULL}
    BY DEF IInv, TypeOK
  <1>3. Linked \subseteq S
    BY <1>1, <1>2, LinkedLeast, Zenon
  <1> QED
    BY <1>3

(* The next task of a search is a pid: the list is never empty.             *)
LEMMA NextOrHeadPid ==
    ASSUME IInv, NEW p \in Pids
    PROVE  /\ NextOrHead(p) \in Pids
           /\ NextOrHead(p) > p \/ NextOrHead(p) = 1
  BY MaxPidAssumption DEF IInv, TypeOK, InitSurvives, ListSorted, NextOrHead, Pids, NULL

LEMMA InitIInv == Init => IInv
  BY MaxPidAssumption, HandlersAssumption
  DEF Init, IInv, TypeOK, InitSurvives, ListSorted, SearchBounded, FoundOrdered,
      Pids, NULL, SIG_DFL

-----------------------------------------------------------------------------
(* Every step preserves it *)

(* What the steps inside a task leave alone that the invariant is about.    *)
LEMMA ForkChildIInv ==
    ASSUME IInv, NEW t \in Pids, next_pid <= MaxPid, ForkChild(t),
           UNCHANGED <<current_task, cpu, start>>
    PROVE  /\ ready_queue' = 1
           /\ next_pid' \in 2..(MaxPid + 1)
           /\ next' \in [Pids -> Pids \cup {NULL}]
           /\ \A p \in Pids : next'[p] < next_pid'
           /\ ListSorted'
           /\ state' \in [Pids -> {"READY", "RUNNING", "ZOMBIE"}]
           /\ state'[1] # "ZOMBIE"
           /\ parent_pid' \in [Pids -> Pids \cup {0}]
           /\ signal_pending' \in [Pids -> SUBSET Signals]
           /\ signal_pending'[1] = {}
           /\ signal_handlers' \in [Pids -> [Signals -> Handlers]]
           /\ heap' \subseteq Pids
           /\ kstack' \subseteq Pids
           /\ intr' \in BOOLEAN
  <1> USE DEF IInv, TypeOK, InitSurvives
  <1>0. MaxPid \in Nat /\ next_pid \in Pids \ {1} /\ 1 \in Pids
    BY MaxPidAssumption DEF Pids
  <1>1. PICK tail \in Linked :
            next' = [next EXCEPT ![tail] = next_pid, ![next_pid] = NULL]
    BY Zenon DEF ForkChild
  <1>2. tail \in Pids /\ tail < next_pid
    BY LinkedOld, LinkedPids
  <1>3. next' \in [Pids -> Pids \cup {NULL}]
    BY <1>0, <1>1, <1>2
  <1>4. \A p \in Pids : next'[p] \in {next[p], NULL} \/ (p < next_pid /\ next'[p] = next_pid)
    BY <1>0, <1>1, <1>2
  <1>5. next_pid' = next_pid + 1
    BY DEF ForkChild
  <1>6. ASSUME NEW p \in Pids
        PROVE  next'[p] < next_pid' /\ (next'[p] # NULL => p < next'[p])
    <2>1. p \in Int /\ next_pid \in Nat /\ 0 < next_pid + 1 /\ next[p] < next_pid
      BY <1>0 DEF Pids
    <2>2. next[p] \in Int /\ (next[p] # NULL => p < next[p])
      BY <1>0 DEF ListSorted, Pids, NULL
    <2>3. \/ next'[p] = next[p]
          \/ next'[p] = NULL
          \/ p < next_pid /\ next'[p] = next_pid
      BY <1>4
    <2> QED
      BY <1>5, <2>1, <2>2, <2>3 DEF NULL
  <1>7. next_pid' \in 2..(MaxPid + 1)
    BY <1>0, <1>5 DEF Pids
  <1>8. state' \in [Pids -> {"READY", "RUNNING", "ZOMBIE"}] /\ state'[1] # "ZOMBIE"
    BY <1>0 DEF ForkChild
  <1>9. parent_pid' \in [Pids -> Pids \cup {0}]
    BY <1>0 DEF ForkChild
  <1>10. /\ signal_pending' \in [Pids -> SUBSET Signals]
         /\ signal_pending'[1] = {}
    BY <1>0 DEF ForkChild
  <1>11. signal_handlers' \in [Pids -> [Signals -> Handlers]]
    BY <1>0 DEF ForkChild
  <1> QED
    BY <1>0, <1>3, <1>6, <1>7, <1>8, <1>9, <1>10, <1>11 DEF ForkChild, ListSorted

(* Unlinking z behind an older task p keeps the list sorted and its head.   *)
LEMMA ReapIInv ==
    ASSUME IInv, NEW p \in Pids, NEW z \in Pids, p < z, Reap(p, z),
           UNCHANGED next_pid
    PROVE  ListInv'
  <1> USE DEF IInv, TypeOK, InitSurvives
  <1>1. p # NULL /\ next' = [q \in Pids |-> IF q = p THEN next[z] ELSE next[q]]
    BY MaxPidAssumption DEF Reap, NULL, Pids
  <1>2. ready_queue' = 1
    BY <1>1 DEF Reap
  <1>3. next' \in [Pids -> Pids \cup {NULL}]
    BY <1>1
  <1>4. ListSorted'
    BY <1>1, MaxPidAssumption DEF ListSorted, Pids, NULL
  <1>5. \A q \in Pids : next'[q] < next_pid
    BY <1>1
  <1> QED
    BY <1>2, <1>3, <1>4, <1>5 DEF Reap, ListInv

(* A zombie on the list is not the head, so it has an older predecessor.    *)
LEMMA PrevOlder ==
    ASSUME IInv, NEW z \in Linked, state[z] = "ZOMBIE"
    PROVE  /\ z \in Pids
           /\ Prev(z) \in Pids
           /\ Prev(z) < z
  <1>1. z # ready_queue /\ z \in Pids
    BY LinkedPids DEF IInv, InitSurvives
  <1>2. Prev(z) \in Linked /\ next[Prev(z)] = z
    BY <1>1, LinkedPred, MaxPidAssumption DEF IInv, TypeOK
  <1>3. PICK q \in Pids : q = Prev(z) /\ next[q] = z
    BY <1>2, LinkedPids
  <1>4. z # NULL
    BY <1>1 DEF Pids, NULL
  <1>5. q < z
    BY <1>3, <1>4 DEF IInv, ListSorted
  <1> QED
    BY <1>1, <1>3, <1>5

(* The scheduler's own steps.                                               *)
LEMMA SwitchIInv ==
    ASSUME IInv, TimerTick \/ Switch
    PROVE  IInv'
  <1> USE DEF IInv, TypeOK, InitSurvives, ListSorted, FoundOrdered,
              list, sig, mem, wait
  <1>0. current_task \in Pids /\ 1 \in Pids
    BY MaxPidAssumption DEF Pids
  <1>1. CASE TimerTick
    <2>1. /\ start' = current_task
          /\ current_task' \in Pids
          /\ current_task' > start' \/ current_task' = 1
      BY <1>0, <1>1, NextOrHeadPid DEF TimerTick, EnterSwitch
    <2> QED
      BY <1>1, <2>1, Zenon DEF TimerTick, EnterSwitch, SearchBounded
  <1>2. CASE SkipZombie
    <2>1. current_task # 1 /\ current_task > start /\ start \in Pids
      BY <1>2 DEF SkipZombie, SearchBounded
    <2>2. /\ current_task' \in Pids
          /\ current_task' > current_task \/ current_task' = 1
      BY <1>0, <1>2, NextOrHeadPid DEF SkipZombie
    <2>3. current_task' > start \/ current_task' = 1
      BY <1>0, <2>1, <2>2 DEF Pids
    <2>4. ~(current_task' = start /\ state[start] = "ZOMBIE")
      BY <1>0, <2>1, <2>3 DEF Pids
    <2>5. cpu' = "skip"
      BY <1>2, <2>4 DEF SkipZombie
    <2> QED
      BY <1>2, <2>1, <2>2, <2>3, <2>5 DEF SkipZombie, SearchBounded
  <1>3. CASE SkipDone
    BY <1>3 DEF SkipDone, SearchBounded
  <1>4. CASE DeliverSignals
    <2>1. CASE Dispatch /\ UNCHANGED signal_pending
      BY <1>4, <2>1 DEF DeliverSignals, Dispatch, SearchBounded
    <2>2. ASSUME NEW s \in signal_pending[current_task],
                 signal_pending' = [signal_pending EXCEPT ![current_task] = @ \ {s}],
                 Terminate(current_task) \/ Dispatch
          PROVE  IInv'
      <3>1. current_task # 1
        BY <2>2
      <3>2. /\ signal_pending' \in [Pids -> SUBSET Signals]
            /\ signal_pending'[1] = {}
        BY <1>0, <2>2, <3>1
      <3>3. CASE Dispatch
        BY <1>4, <3>2, <3>3 DEF DeliverSignals, Dispatch, SearchBounded
      <3>4. CASE Terminate(current_task)
        <4>1. /\ ready_queue' = 1
              /\ state' \in [Pids -> {"READY", "RUNNING", "ZOMBIE"}]
              /\ state'[1] # "ZOMBIE"
          BY <1>0, <3>1, <3>4 DEF Terminate
        <4>2. /\ next' \in [Pids -> Pids \cup {NULL}]
              /\ \A p \in Pids : next'[p] < next_pid
          BY <1>0, <3>4 DEF Terminate
        <4>3. ASSUME NEW p \in Pids, next'[p] # NULL
              PROVE  p < next'[p]
          <5>1. next'[p] = next[p] \/ (next[p] = current_task /\ next'[p] = next[current_task])
            BY <3>4 DEF Terminate
          <5> QED
            BY <1>0, <4>3, <5>1 DEF Pids, NULL
        <4>4. current_task' \in Pids /\ cpu' = "deliver"
          BY <1>0, <3>4, <4>1 DEF Terminate, Pids, NULL
        <4> QED
          BY <1>4, <3>2, <3>4, <4>1, <4>2, <4>3, <4>4
          DEF DeliverSignals, Terminate, SearchBounded
      <3> QED
        BY <2>2, <3>3, <3>4
    <2> QED
      BY <1>4, <2>1, <2>2 DEF DeliverSignals
  <1> QED
    BY <1>1, <1>2, <1>3, <1>4 DEF Switch

(* fork and kernel_fork.                                                    *)
LEMMA ForkIInv ==
    ASSUME IInv, NEW t \in Pids, cpu = "task", Fork(t) \/ KernelFork(t)
    PROVE  IInv'
  <1> USE DEF list, sig, mem, wait
  <1>0. /\ MaxPid \in Nat /\ next_pid \in Pids \ {1} /\ 1 \in Pids
        /\ UNCHANGED <<current_task, cpu, start>>
        /\ next_pid <= MaxPid
    BY MaxPidAssumption DEF Fork, KernelFork, IInv, TypeOK, Pids
  <1>1. CASE ForkNoMemory
    BY <1>0, <1>1
    DEF ForkNoMemory, IInv, TypeOK, InitSurvives, ListSorted, SearchBounded, FoundOrdered
  <1>2. CASE ForkNoStack(t)
    <2>1. next_pid' \in 2..(MaxPid + 1) /\ heap' \subseteq Pids
      BY <1>0, <1>2 DEF ForkNoStack, IInv, TypeOK, Pids
    <2>2. ASSUME NEW p \in Pids
          PROVE  next'[p] < next_pid'
      <3>1. next[p] \in Int /\ next_pid \in Int /\ next[p] < next_pid
        BY <1>0 DEF IInv, TypeOK, Pids, NULL
      <3> QED
        BY <1>2, <3>1 DEF ForkNoStack
    <2> QED
      BY <1>0, <1>2, <2>1, <2>2
      DEF ForkNoStack, IInv, TypeOK, InitSurvives, ListSorted, SearchBounded, FoundOrdered
  <1>3. CASE ForkChild(t)
    <2>1. /\ pc' \in [Pids -> {"run", "forked", "wait", "found", "sweep"}]
          /\ warg' \in [Pids -> Pids \cup {NULL, AnyChild}]
          /\ prev' \in Pids \cup {NULL}
          /\ pc'[1] = "forked" => warg'[1] \in Pids
          /\ pc'[1] = "found" => prev' = prev /\ warg'[1] = warg[1] /\ pc[1] = "found"
      <3>1. CASE UNCHANGED <<pc, wait>>
        BY <3>1 DEF IInv, TypeOK
      <3>2. CASE /\ t = 1
                 /\ pc' = [pc EXCEPT ![t] = "forked"]
                 /\ warg' = [warg EXCEPT ![t] = next_pid]
                 /\ UNCHANGED prev
        BY <1>0, <3>2 DEF IInv, TypeOK
      <3> QED
        BY <1>3, <3>1, <3>2 DEF Fork, KernelFork, ForkNoMemory, ForkNoStack
    <2>2. FoundOrdered'
      BY <2>1, Zenon DEF FoundOrdered, IInv
    <2>3. SearchBounded'
      BY <1>0 DEF SearchBounded
    <2> QED
      BY <1>0, <1>3, <2>1, <2>2, <2>3, ForkChildIInv DEF IInv, TypeOK, InitSurvives
  <1> QED
    BY <1>1, <1>2, <1>3 DEF Fork, KernelFork

(* exit.                                                                    *)
LEMMA ExitIInv ==
    ASSUME IInv, NEW t \in Pids, t = current_task, Exit(t)
    PROVE  IInv'
  <1> USE DEF IInv, TypeOK, InitSurvives, ListSorted, FoundOrdered,
              list, sig, mem, wait
  <1>1. /\ start' = current_task
        /\ current_task' \in Pids
        /\ current_task' > start' \/ current_task' = 1
    BY NextOrHeadPid DEF Exit, EnterSwitch
  <1>2. /\ state' \in [Pids -> {"READY", "RUNNING", "ZOMBIE"}]
        /\ state'[1] # "ZOMBIE"
        /\ parent_pid' \in [Pids -> Pids \cup {0}]
    BY MaxPidAssumption DEF Exit, Pids
  <1> QED
    BY <1>1, <1>2, Zenon DEF Exit, EnterSwitch, SearchBounded

(* The steps of waitpid.                                                    *)
LEMMA WaitTurnIInv ==
    ASSUME IInv, NEW t \in Pids, NEW pid \in Pids \cup {AnyChild, NULL},
           WaitTurn(t, pid), cpu = "task"
    PROVE  IInv'
  <1> USE DEF list, sig, mem, wait
  <1>0. /\ UNCHANGED <<current_task, next_pid, state, parent_pid, sig, cpu, start, prev>>
        /\ 1 \in Pids
    BY MaxPidAssumption DEF WaitTurn, Pids
  <1>1. PICK c \in {"sweep", "wait", "run"}, w \in {NULL, pid}, b \in BOOLEAN :
            /\ pc' = [pc EXCEPT ![t] = c]
            /\ warg' = [warg EXCEPT ![t] = w]
            /\ intr' = b
    <2>1. (t # 1) \in BOOLEAN
      OBVIOUS
    <2> QED
      BY <2>1, Zenon DEF WaitTurn
  <1>2. /\ pc' \in [Pids -> {"run", "forked", "wait", "found", "sweep"}]
        /\ warg' \in [Pids -> Pids \cup {NULL, AnyChild}]
        /\ intr' \in BOOLEAN
        /\ pc'[1] \in {"forked", "found"} => pc'[1] = pc[1] /\ warg'[1] = warg[1]
    BY <1>0, <1>1 DEF IInv, TypeOK
  <1>3. ListInv'
    <2>1. CASE UNCHANGED <<list, mem>>
      BY <1>0, <2>1 DEF IInv, ListInv, TypeOK, InitSurvives, ListSorted
    <2>2. ASSUME NEW z \in ZombieChildren(t, pid), Reap(Prev(z), z)
          PROVE  ListInv'
      BY <1>0, <2>2, PrevOlder, ReapIInv DEF ZombieChildren
    <2>3. \/ UNCHANGED <<list, mem>>
          \/ \E z \in ZombieChildren(t, pid) : Reap(Prev(z), z)
      BY Zenon DEF WaitTurn
    <2> QED
      BY <2>1, <2>2, <2>3, Zenon
  <1>4. SearchBounded' /\ FoundOrdered' /\ (pc'[1] = "forked" => warg'[1] \in Pids)
    BY <1>0, <1>2 DEF SearchBounded, FoundOrdered, IInv
  <1> QED
    BY <1>0, <1>2, <1>3, <1>4 DEF IInv, ListInv, TypeOK, InitSurvives

LEMMA ShellWaitIInv ==
    ASSUME IInv, NEW t \in Pids, cpu = "task", ShellScan(t) \/ ShellReap(t)
    PROVE  IInv'
  <1> USE DEF list, sig, mem, wait
  <1>0. 1 \in Pids
    BY MaxPidAssumption DEF Pids
  <1>1. CASE ShellScan(t)
    <2>1. /\ UNCHANGED <<list, current_task, next_pid, state, parent_pid, sig, mem,
                         cpu, start, intr>>
          /\ t = 1 /\ pc[1] = "forked" /\ warg[1] \in Pids
      BY <1>1, Zenon DEF ShellScan, IInv
    <2>2. CASE /\ warg[1] \in ZombieChildren(1, warg[1])
               /\ pc' = [pc EXCEPT ![1] = "found"]
               /\ prev' = Prev(warg[1])
               /\ UNCHANGED warg
      <3>1. prev' \in Pids /\ prev' < warg[1]
        BY <2>2, PrevOlder DEF ZombieChildren
      <3> QED
        BY <1>0, <2>1, <2>2, <3>1
        DEF IInv, TypeOK, InitSurvives, ListSorted, SearchBounded, FoundOrdered
    <2>3. CASE /\ pc' = [pc EXCEPT ![1] = "wait"]
               /\ UNCHANGED <<warg, prev>>
      BY <1>0, <2>1, <2>3
      DEF IInv, TypeOK, InitSurvives, ListSorted, SearchBounded, FoundOrdered
    <2>4. CASE /\ pc' = [pc EXCEPT ![1] = "run"]
               /\ warg' = [warg EXCEPT ![1] = NULL]
               /\ UNCHANGED prev
      BY <1>0, <2>1, <2>4
      DEF IInv, TypeOK, InitSurvives, ListSorted, SearchBounded, FoundOrdered
    <2> QED
      BY <1>1, <2>1, <2>2, <2>3, <2>4, Zenon DEF ShellScan
  <1>2. CASE ShellReap(t)
    <2>1. t = 1 /\ pc[1] = "found" /\ prev \in Pids /\ warg[1] \in Pids /\ prev < warg[1]
      BY <1>2 DEF ShellReap, IInv, FoundOrdered
    <2>2. Reap(prev, warg[1])
      BY <1>2, <2>1, Zenon DEF ShellReap
    <2>3. /\ pc' = [pc EXCEPT ![1] = "sweep"]
          /\ warg' = [warg EXCEPT ![1] = NULL]
          /\ prev' = NULL
          /\ UNCHANGED <<current_task, next_pid, state, parent_pid, sig, cpu, start, intr>>
      BY <1>2, <2>1, Zenon DEF ShellReap
    <2>4. ListInv'
      BY <2>1, <2>2, <2>3, ReapIInv, Zenon
    <2> QED
      BY <1>0, <2>1, <2>3, <2>4, Zenon
      DEF IInv, ListInv, TypeOK, InitSurvives, SearchBounded, FoundOrdered
  <1> QED
    BY <1>1, <1>2

LEMMA SweepIInv ==
    ASSUME IInv, NEW t \in Pids, cpu = "task", Sweep(t)
    PROVE  IInv'
  <1> USE DEF list, sig, mem, wait
  <1>0. 1 \in Pids
    BY MaxPidAssumption DEF Pids
  <1>3. UNCHANGED <<current_task, next_pid, state, parent_pid, sig, cpu, start, wait>>
    BY Zenon DEF Sweep
  <1>1. CASE /\ pc' = [pc EXCEPT ![t] = "run"]
             /\ intr' = TRUE
             /\ UNCHANGED <<list, mem>>
    BY <1>0, <1>1, <1>3
    DEF IInv, TypeOK, InitSurvives, ListSorted, SearchBounded, FoundOrdered
  <1>2. ASSUME NEW z \in ZombieChildren(t, AnyChild), Reap(Prev(z), z), UNCHANGED <<pc, intr>>
        PROVE  IInv'
    <2>1. ListInv'
      BY <1>0, <1>2, <1>3, PrevOlder, ReapIInv DEF ZombieChildren
    <2> QED
      BY <1>0, <1>2, <1>3, <2>1
      DEF IInv, ListInv, TypeOK, InitSurvives, SearchBounded, FoundOrdered
  <1> QED
    BY <1>1, <1>2, Zenon DEF Sweep

(* Signals, the shell's idle step, the stop at a freed task_t.              *)
LEMMA OtherIInv ==
    ASSUME IInv, NEW t \in Pids,
           UseAfterFree \/ (cpu = "task" /\ (Kill(t) \/ Signal(t) \/ ShellIdle(t)))
    PROVE  IInv'
  <1> USE DEF IInv, TypeOK, InitSurvives, ListSorted, SearchBounded, FoundOrdered,
              list, sig, mem, wait
  <1>1. CASE UseAfterFree
    BY <1>1 DEF UseAfterFree
  <1>2. CASE Kill(t)
    <2>1. /\ signal_pending' \in [Pids -> SUBSET Signals]
          /\ signal_pending'[1] = {}
      BY <1>2, LinkedPids DEF Kill
    <2> QED
      BY <1>2, <2>1 DEF Kill
  <1>3. CASE Signal(t)
    <2>1. signal_handlers' \in [Pids -> [Signals -> Handlers]]
      BY <1>3 DEF Signal
    <2> QED
      BY <1>3, <2>1 DEF Signal
  <1>4. CASE ShellIdle(t)
    BY <1>4 DEF ShellIdle
  <1> QED
    BY <1>1, <1>2, <1>3, <1>4, Zenon

LEMMA NextIInv == IInv /\ [Next]_vars => IInv'
  <1> SUFFICES ASSUME IInv, [Next]_vars
               PROVE  IInv'
    OBVIOUS
  <1>0. current_task \in Pids
    BY DEF IInv, TypeOK
  <1>1. CASE UNCHANGED vars
    BY <1>1 DEF vars, list, sig, mem, wait, IInv, TypeOK, InitSurvives, ListSorted,
                SearchBounded, FoundOrdered
  <1>2. CASE TimerTick \/ Switch
    BY <1>2, SwitchIInv
  <1>3. CASE UseAfterFree
    BY <1>0, <1>3, OtherIInv
  <1>4. CASE cpu = "task" /\ Step(current_task)
    <2>1. CASE Waitpid(current_task)
      <3>1. PICK pid \in Pids \cup {AnyChild} : WaitTurn(current_task, pid)
        BY <2>1, Zenon DEF Waitpid
      <3> QED
        BY <1>0, <1>4, <3>1, WaitTurnIInv
    <2>2. CASE WaitAgain(current_task)
      <3>1. WaitTurn(current_task, warg[current_task])
        BY <2>2, Zenon DEF WaitAgain
      <3>2. warg[current_task] \in Pids \cup {AnyChild, NULL}
        BY <1>0 DEF IInv, TypeOK
      <3> QED
        BY <1>0, <1>4, <3>1, <3>2, WaitTurnIInv
    <2> QED
      BY <1>0, <1>4, <2>1, <2>2, ForkIInv, ExitIInv, ShellWaitIInv, SweepIInv, OtherIInv
      DEF Step
  <1> QED
    BY <1>1, <1>2, <1>3, <1>4 DEF Next

(* The strengthening is an invariant.                                       *)
THEOREM IInvInvariant == Spec => []IInv
  <1>1. Init => IInv
    BY InitIInv
  <1>2. IInv /\ [Next]_vars => IInv'
    BY NextIInv
  <1> QED
    BY <1>1, <1>2, PTL DEF Spec

(* Type correctness of the process table, in particular: current_task and   *)
(* ready_queue are never NULL in task_switch.                               *)
THEOREM TypeCorrect == Spec => []TypeOK
  <1>1. IInv => TypeOK
    BY DEF IInv
  <1> QED
    BY <1>1, IInvInvariant, PTL

(* task_switch always finds a task to run: neither its halt on "all tasks   *)
(* are zombies" nor its panic is reachable, and pid 1 is never killed.      *)
THEOREM SchedulerNeverStuck == Spec => []InitSurvives
  <1>1. IInv => InitSurvives
    BY DEF IInv
  <1> QED
    BY <1>1, IInvInvariant, PTL

(* The ready list stays in the order of creation (fork appends, exit and    *)
(* signals and waitpid only unlink), so every walk along next ends.         *)
THEOREM ListOrder == Spec => []ListSorted
  <1>1. IInv => ListSorted
    BY DEF IInv
  <1> QED
    BY <1>1, IInvInvariant, PTL

-----------------------------------------------------------------------------
(* Programs that use no signals *)

(* A task chosen by the scheduler is not a zombie.                          *)
ChosenAlive == cpu \in {"deliver", "task"} => state[current_task] # "ZOMBIE"

LEMMA ChosenAliveStep ==
    ASSUME Signals = {}, IInv, ChosenAlive, [Next]_vars
    PROVE  ChosenAlive'
  <1> USE DEF list, sig, mem, wait
  <1>0. current_task \in Pids
    BY DEF IInv, TypeOK
  <1>1. CASE UNCHANGED vars
    BY <1>1 DEF vars, ChosenAlive
  <1>2. CASE TimerTick \/ Exit(current_task)
    BY <1>2 DEF TimerTick, Exit, EnterSwitch, ChosenAlive
  <1>3. CASE SkipZombie
    BY <1>3 DEF SkipZombie, ChosenAlive
  <1>4. CASE SkipDone
    BY <1>4 DEF SkipDone, ChosenAlive
  <1>5. CASE DeliverSignals
    <2>1. signal_pending[current_task] = {}
      BY <1>0 DEF IInv, TypeOK
    <2>2. cpu = "deliver" /\ Dispatch
      BY <1>5, <2>1 DEF DeliverSignals
    <2> QED
      BY <2>2 DEF Dispatch, ChosenAlive
  <1>6. CASE UseAfterFree
    BY <1>6 DEF UseAfterFree, ChosenAlive
  <1>7. CASE cpu = "task" /\ (Fork(current_task) \/ KernelFork(current_task))
    <2>1. UNCHANGED <<current_task, cpu>>
      BY <1>7, Zenon DEF Fork, KernelFork
    <2>2. \/ UNCHANGED state
          \/ state' = [state EXCEPT ![next_pid] = "READY"]
      BY <1>7 DEF Fork, KernelFork, ForkNoMemory, ForkNoStack, ForkChild
    <2>3. state'[current_task] \in {state[current_task], "READY"}
      BY <1>0, <2>2 DEF IInv, TypeOK
    <2> QED
      BY <1>7, <2>1, <2>3 DEF ChosenAlive
  <1>8. CASE /\ cpu = "task"
             /\ \/ Waitpid(current_task) \/ WaitAgain(current_task)
                \/ ShellScan(current_task) \/ ShellReap(current_task)
                \/ Sweep(current_task) \/ Kill(current_task)
                \/ Signal(current_task) \/ ShellIdle(current_task)
    <2>1. UNCHANGED <<current_task, cpu, state>>
      BY <1>8, Zenon DEF Waitpid, WaitAgain, WaitTurn, ShellScan, ShellReap, Sweep,
                         Kill, Signal, ShellIdle
    <2> QED
      BY <2>1 DEF ChosenAlive
  <1> QED
    BY <1>1, <1>2, <1>3, <1>4, <1>5, <1>6, <1>7, <1>8 DEF Next, Switch, Step

(* While programs use no signals the scheduler does skip zombies: a task    *)
(* that has exited never executes again, for any number of tasks.           *)
THEOREM ZombiesStayDead ==
    ASSUME Signals = {}
    PROVE  Spec => []ZombieNeverScheduled
  <1>1. Init => ChosenAlive
    BY MaxPidAssumption DEF Init, ChosenAlive, Pids
  <1>2. IInv /\ ChosenAlive /\ [Next]_vars => ChosenAlive'
    BY ChosenAliveStep
  <1>3. ChosenAlive => ZombieNeverScheduled
    BY DEF ChosenAlive, ZombieNeverScheduled
  <1> QED
    BY <1>1, <1>2, <1>3, IInvInvariant, PTL DEF Spec

-----------------------------------------------------------------------------
(* The life of a task without signals: fork, exit, waitpid *)

(* Pids that were never given out are neither allocated nor zombies.        *)
Unforked == \A p \in Pids : p >= next_pid => p \notin heap /\ state[p] # "ZOMBIE"

(* No two tasks on the list have the same successor.                        *)
OnePred ==
    \A p, q \in Linked : next[p] = next[q] /\ next[p] # NULL => p = q

(* The list holds allocated tasks, the running one among them, and every    *)
(* zombie whose task_t is still allocated; each of them has its stack.      *)
ListSound ==
    /\ Linked \subseteq heap
    /\ kstack = Linked
    /\ current_task \in Linked
    /\ \A p \in heap : state[p] = "ZOMBIE" => p \in Linked

(* The child that the shell waits for stays on the list as a child of the   *)
(* shell, since only the shell's own waitpid can reap it.                   *)
ShellChild ==
    pc[1] \in {"forked", "wait", "found"} =>
        warg[1] \in Linked /\ parent_pid[warg[1]] = 1

(* The predecessor the shell remembers across a preemption is still the     *)
(* predecessor of its zombie, unless it was reaped meanwhile.               *)
FoundFresh ==
    pc[1] = "found" =>
        /\ state[warg[1]] = "ZOMBIE"
        /\ prev \in heap => prev \in Linked /\ next[prev] = warg[1]

(* Only the sweep of waitpid runs with interrupts off.                      *)
IntrOn == (cpu = "task" /\ pc[current_task] # "sweep") => intr

LifeInv ==
    /\ Unforked
    /\ OnePred
    /\ ListSound
    /\ ShellChild
    /\ FoundFresh
    /\ IntrOn

(* fork appends exactly the child to the list.                              *)
LEMMA ForkLinked ==
    ASSUME IInv, OnePred, NEW t \in Pids, next_pid <= MaxPid, ForkChild(t)
    PROVE  /\ Linked' = Linked \cup {next_pid}
           /\ OnePred'
           /\ \A p \in Linked : next[p] # NULL => next'[p] = next[p]
  <1> USE DEF IInv, TypeOK, InitSurvives
  <1>0. /\ MaxPid \in Nat /\ next_pid \in Pids /\ 1 \in Pids /\ next_pid # NULL
        /\ ready_queue = 1 /\ ready_queue' = 1
    BY MaxPidAssumption DEF Pids, NULL, ForkChild
  <1>1. PICK tail \in Linked :
            /\ next[tail] = NULL
            /\ next' = [next EXCEPT ![tail] = next_pid, ![next_pid] = NULL]
    BY Zenon DEF ForkChild
  <1>2. Linked \subseteq Pids /\ next_pid \notin Linked
    BY <1>0, LinkedOld, LinkedPids DEF Pids
  <1>3. /\ next'[tail] = next_pid
        /\ next'[next_pid] = NULL
        /\ \A p \in Pids \ {tail, next_pid} : next'[p] = next[p]
    BY <1>0, <1>1, <1>2
  <1>4. Linked' \subseteq Linked \cup {next_pid}
    <2> DEFINE S == Linked \cup {next_pid}
    <2>1. S \in SUBSET Pids /\ ready_queue' \in S
      BY <1>0, <1>2, LinkedHead
    <2>2. \A p \in S : next'[p] \in S \cup {NULL}
      BY <1>2, <1>3, LinkedClosed
    <2> HIDE DEF S
    <2>3. Linked' \subseteq S
      BY <2>1, <2>2 DEF Linked
    <2> QED
      BY <2>3 DEF S
  <1>5. ASSUME NEW T \in SUBSET Pids,
               ready_queue' \in T \cup {NULL},
               \A p \in T : next'[p] \in T \cup {NULL}
        PROVE  Linked \cup {next_pid} \subseteq T
    <2> DEFINE S == T \cap Linked
    <2>1. S \in SUBSET Pids /\ ready_queue \in S \cup {NULL}
      BY <1>0, <1>5, LinkedHead, Zenon
    <2>2. ASSUME NEW p \in S
          PROVE  next[p] \in S \cup {NULL}
      BY <1>1, <1>2, <1>3, <1>5, LinkedClosed
    <2>3. Linked \subseteq S
      BY <2>1, <2>2, LinkedLeast, Zenon
    <2>4. next'[tail] \in T
      BY <1>0, <1>3, <1>5, <2>3, Zenon
    <2> QED
      BY <1>3, <2>3, <2>4
  <1>6. Linked \cup {next_pid} \subseteq Linked'
    BY <1>0, <1>2, <1>5 DEF Linked
  <1>7. Linked' = Linked \cup {next_pid}
    BY <1>4, <1>6
  <1>8. OnePred'
    <2>1. ASSUME NEW p \in Linked \cup {next_pid}, NEW q \in Linked \cup {next_pid},
                 next'[p] = next'[q], next'[p] # NULL
          PROVE  p = q
      <3>1. p # next_pid /\ q # next_pid
        BY <1>3, <2>1
      <3>2. \A r \in Linked : r # tail => next'[r] = next[r] /\ next[r] # next_pid
        BY <1>2, <1>3, LinkedClosed, <1>0
      <3> QED
        BY <1>3, <2>1, <3>1, <3>2 DEF OnePred
    <2> QED
      BY <1>7, <2>1 DEF OnePred
  <1>9. \A p \in Linked : next[p] # NULL => next'[p] = next[p]
    BY <1>1, <1>2, <1>3
  <1> QED
    BY <1>7, <1>8, <1>9

(* Unlinking a task behind its predecessor takes exactly that task off.     *)
LEMMA ReapLinked ==
    ASSUME IInv, OnePred, NEW p \in Linked, NEW z \in Linked, next[p] = z, Reap(p, z)
    PROVE  /\ Linked' = Linked \ {z}
           /\ OnePred'
           /\ \A q \in Linked \ {p} : next'[q] = next[q]
  <1> USE DEF IInv, TypeOK, InitSurvives
  <1>0. Linked \subseteq Pids /\ 1 \in Pids /\ 1 \in Linked
    BY MaxPidAssumption, LinkedPids, LinkedHead DEF Pids
  <1>1. p \in Pids /\ z \in Pids /\ p < z /\ z # 1 /\ p # z /\ p # NULL /\ z # NULL
    BY <1>0 DEF ListSorted, Pids, NULL
  <1>2. next[z] # z /\ next[z] \in Linked \cup {NULL}
    BY <1>1, LinkedClosed DEF ListSorted, Pids, NULL
  <1>3. /\ next' = [q \in Pids |-> IF q = p THEN next[z] ELSE next[q]]
        /\ ready_queue = 1 /\ ready_queue' = 1
    BY <1>1 DEF Reap
  <1>4. next'[p] = next[z] /\ \A q \in Pids \ {p} : next'[q] = next[q]
    BY <1>1, <1>3
  <1>5. Linked' \subseteq Linked \ {z}
    <2> DEFINE S == Linked \ {z}
    <2>1. S \in SUBSET Pids /\ ready_queue' \in S
      BY <1>0, <1>1, <1>3
    <2>2. ASSUME NEW q \in S
          PROVE  next'[q] \in S \cup {NULL}
      <3>1. CASE q = p
        BY <1>2, <1>4, <3>1
      <3>2. CASE q # p
        <4>1. next'[q] = next[q] /\ next[q] \in Linked \cup {NULL}
          BY <1>0, <1>4, <3>2, LinkedClosed
        <4>2. next[q] # z
          BY <1>1, <3>2 DEF OnePred
        <4> QED
          BY <4>1, <4>2
      <3> QED
        BY <3>1, <3>2
    <2> HIDE DEF S
    <2>3. Linked' \subseteq S
      BY <2>1, <2>2 DEF Linked
    <2> QED
      BY <2>3 DEF S
  <1>6. ASSUME NEW T \in SUBSET Pids,
               ready_queue' \in T \cup {NULL},
               \A q \in T : next'[q] \in T \cup {NULL}
        PROVE  Linked \ {z} \subseteq T
    <2>1. CASE p \notin T
      <3>1. \A q \in T : next[q] \in T \cup {NULL}
        BY <1>4, <1>6, <2>1
      <3>2. Linked \subseteq T
        BY <1>3, <1>6, <3>1, LinkedLeast
      <3> QED
        BY <3>2
    <2>2. CASE p \in T
      <3> DEFINE S == T \cup {z}
      <3>1. S \in SUBSET Pids /\ ready_queue \in S \cup {NULL}
        BY <1>1, <1>3, <1>6
      <3>2. \A q \in S : next[q] \in S \cup {NULL}
        BY <1>4, <1>6, <2>2
      <3>3. Linked \subseteq S
        BY <3>1, <3>2, LinkedLeast, Zenon
      <3> QED
        BY <3>3
    <2> QED
      BY <2>1, <2>2
  <1>7. Linked \ {z} \subseteq Linked'
    BY <1>0, <1>6 DEF Linked
  <1>8. Linked' = Linked \ {z}
    BY <1>5, <1>7
  <1>9. OnePred'
    <2>1. ASSUME NEW q \in Linked \ {z}, NEW r \in Linked \ {z},
                 next'[q] = next'[r], next'[q] # NULL
          PROVE  q = r
      BY <1>0, <1>1, <1>4, <2>1 DEF OnePred
    <2> QED
      BY <1>8, <2>1 DEF OnePred
  <1> QED
    BY <1>0, <1>4, <1>8, <1>9

(* What is left of the life of the tasks when z is reaped.                  *)
LEMMA ReapLife ==
    ASSUME IInv, LifeInv, ChosenAlive, cpu = "task",
           NEW z \in Linked, state[z] = "ZOMBIE",
           NEW p \in Linked, next[p] = z, Reap(p, z),
           UNCHANGED <<current_task, next_pid, state, parent_pid>>
    PROVE  /\ Unforked' /\ OnePred' /\ ListSound'
           /\ Linked' = Linked \ {z}
           /\ (pc[1] = "found" /\ warg[1] # z)
                => (prev \in heap' => prev \in Linked' /\ next'[prev] = warg[1])
  <1>1. /\ Linked' = Linked \ {z}
        /\ OnePred'
        /\ \A q \in Linked \ {p} : next'[q] = next[q]
    BY ReapLinked DEF LifeInv
  <1>2. heap' = heap \ {z} /\ kstack' = kstack \ {z}
    BY DEF Reap
  <1>3. ListSound'
    BY <1>1, <1>2 DEF ListSound, LifeInv, ChosenAlive
  <1>4. Unforked'
    BY <1>2 DEF Unforked, LifeInv
  <1>5. ASSUME pc[1] = "found", warg[1] # z, prev \in heap'
        PROVE  prev \in Linked' /\ next'[prev] = warg[1]
    BY <1>1, <1>2, <1>5 DEF LifeInv, FoundFresh
  <1> QED
    BY <1>1, <1>3, <1>4, <1>5

(* The trailing pointer of waitpid's scan is the predecessor on the list.   *)
LEMMA ZombiePrev ==
    ASSUME IInv, NEW z \in Linked, state[z] = "ZOMBIE"
    PROVE  Prev(z) \in Linked /\ next[Prev(z)] = z
  BY LinkedPred DEF IInv, TypeOK, InitSurvives

LEMMA LifeInit == Init => LifeInv
  <1> SUFFICES ASSUME Init PROVE LifeInv
    OBVIOUS
  <1>0. MaxPid \in Nat /\ 1 \in Pids
    BY MaxPidAssumption DEF Pids
  <1>1. Linked = {1}
    <2>1. Linked \subseteq {1}
      BY <1>0, LinkedLeast, Zenon DEF Init
    <2> QED
      BY <1>0, <2>1, LinkedHead, Zenon DEF Init
  <1>2. Unforked
    BY <1>0 DEF Init, Unforked, Pids
  <1>3. ListSound /\ OnePred
    BY <1>0, <1>1 DEF Init, ListSound, OnePred
  <1>4. ShellChild /\ FoundFresh /\ IntrOn
    BY <1>0 DEF Init, ShellChild, FoundFresh, IntrOn
  <1> QED
    BY <1>2, <1>3, <1>4 DEF LifeInv

(* The scheduler moves only current_task, and along the list.               *)
LEMMA LifeSwitch ==
    ASSUME Signals = {}, IInv, LifeInv, TimerTick \/ Switch
    PROVE  LifeInv'
  <1> USE DEF list, sig, mem, wait
  <1>0. current_task \in Linked /\ ready_queue \in Linked
    BY LinkedHead DEF IInv, TypeOK, LifeInv, ListSound
  <1>1. NextOrHead(current_task) \in Linked
    BY <1>0, LinkedClosed DEF NextOrHead, IInv, TypeOK
  <1>2. /\ UNCHANGED <<list, next_pid, state, parent_pid, mem, pc, wait>>
        /\ current_task' \in {current_task, NextOrHead(current_task)}
        /\ cpu' = "task" => intr'
    <2>1. CASE TimerTick
      BY <2>1 DEF TimerTick, EnterSwitch
    <2>2. CASE SkipZombie
      BY <2>2 DEF SkipZombie
    <2>3. CASE SkipDone
      BY <2>3 DEF SkipDone
    <2>4. CASE DeliverSignals
      <3>1. signal_pending[current_task] = {}
        BY DEF IInv, TypeOK
      <3> QED
        BY <2>4, <3>1 DEF DeliverSignals, Dispatch
    <2> QED
      BY <2>1, <2>2, <2>3, <2>4 DEF Switch
  <1>3. Linked' = Linked
    BY <1>2 DEF Linked
  <1>4. IntrOn'
    BY <1>2 DEF IntrOn
  <1> QED
    BY <1>0, <1>1, <1>2, <1>3, <1>4
    DEF LifeInv, Unforked, OnePred, ListSound, ShellChild, FoundFresh

(* fork: a new task at the tail, with its stack, and nothing else moves.    *)
LEMMA LifeFork ==
    ASSUME IInv, LifeInv, NEW t \in Pids, cpu = "task", t = current_task,
           Fork(t) \/ KernelFork(t)
    PROVE  LifeInv'
  <1> USE DEF list, sig, mem, wait
  <1>0. UNCHANGED <<current_task, cpu>> /\ next_pid <= MaxPid
    BY Zenon DEF Fork, KernelFork
  <1>1. MaxPid \in Nat /\ next_pid \in Pids /\ 1 \in Pids /\ next_pid # 1
    BY <1>0, MaxPidAssumption DEF IInv, TypeOK, Pids
  <1>2. Linked \subseteq Pids /\ next_pid \notin Linked /\ 1 \in Linked
    BY <1>1, LinkedOld, LinkedPids, LinkedHead DEF IInv, TypeOK, InitSurvives, Pids
  <1>3. CASE ForkNoMemory
    <2>1. UNCHANGED <<list, next_pid, state, parent_pid, mem, pc, wait>> /\ intr'
      BY <1>3 DEF ForkNoMemory
    <2>2. Linked' = Linked
      BY <2>1, Zenon DEF Linked
    <2> QED
      BY <1>0, <2>1, <2>2
      DEF LifeInv, Unforked, OnePred, ListSound, ShellChild, FoundFresh, IntrOn
  <1>4. CASE ForkNoStack(t)
    <2>1. /\ UNCHANGED <<list, state, parent_pid, kstack, pc, wait>> /\ intr'
          /\ next_pid' = next_pid + 1
          /\ heap' \in {heap, heap \cup {next_pid}}
      BY <1>4 DEF ForkNoStack
    <2>2. Linked' = Linked
      BY <2>1, Zenon DEF Linked
    <2>3. state[next_pid] # "ZOMBIE" /\ next_pid \notin heap
      BY <1>1 DEF LifeInv, Unforked, Pids
    <2>4. Unforked'
      BY <1>1, <2>1, <2>3 DEF LifeInv, Unforked, Pids
    <2>5. ListSound'
      BY <1>0, <2>1, <2>2, <2>3 DEF LifeInv, ListSound
    <2>6. FoundFresh'
      <3>1. pc[1] = "found" => prev # next_pid
        BY <1>2, LinkedOld DEF LifeInv, ShellChild, IInv, FoundOrdered, TypeOK, Pids
      <3> QED
        BY <2>1, <2>2, <3>1 DEF LifeInv, FoundFresh
    <2> QED
      BY <1>0, <2>1, <2>2, <2>4, <2>5, <2>6, Zenon DEF LifeInv, OnePred, ShellChild, IntrOn
  <1>5. CASE ForkChild(t)
    <2>1. /\ Linked' = Linked \cup {next_pid}
          /\ OnePred'
          /\ \A p \in Linked : next[p] # NULL => next'[p] = next[p]
      BY <1>0, <1>5, ForkLinked DEF LifeInv
    <2>2. /\ next_pid' = next_pid + 1
          /\ heap' = heap \cup {next_pid} /\ kstack' = kstack \cup {next_pid}
          /\ state' = [state EXCEPT ![next_pid] = "READY"]
          /\ parent_pid' = [parent_pid EXCEPT ![next_pid] = t]
          /\ intr'
      BY <1>5 DEF ForkChild
    <2>3. /\ \A p \in Pids : p # next_pid => state'[p] = state[p]
          /\ state'[next_pid] = "READY"
          /\ \A p \in Pids : p # next_pid => parent_pid'[p] = parent_pid[p]
          /\ parent_pid'[next_pid] = t
      BY <1>1, <2>2 DEF IInv, TypeOK
    <2>4. Unforked'
      BY <1>1, <2>2, <2>3 DEF LifeInv, Unforked, Pids
    <2>5. ListSound'
      BY <1>0, <2>1, <2>2, <2>3 DEF LifeInv, ListSound, IInv, TypeOK
    <2>6. \/ UNCHANGED <<pc, warg, prev>>
          \/ /\ t = 1
             /\ pc' = [pc EXCEPT ![1] = "forked"]
             /\ warg' = [warg EXCEPT ![1] = next_pid]
      BY <1>5 DEF Fork, KernelFork, ForkNoMemory, ForkNoStack
    <2>7. ShellChild' /\ FoundFresh'
      <3>1. CASE UNCHANGED <<pc, warg, prev>>
        <4>1. ShellChild'
          BY <1>2, <2>1, <2>3, <3>1, Zenon DEF LifeInv, ShellChild
        <4>2. ASSUME pc[1] = "found"
              PROVE  state'[warg[1]] = "ZOMBIE"
                     /\ (prev \in heap' => prev \in Linked' /\ next'[prev] = warg[1])
          <5>1. warg[1] \in Linked /\ warg[1] # NULL /\ prev # next_pid
            BY <1>2, <4>2, LinkedOld
            DEF LifeInv, ShellChild, IInv, FoundOrdered, TypeOK, Pids, NULL
          <5> QED
            BY <1>2, <2>1, <2>2, <2>3, <4>2, <5>1 DEF LifeInv, FoundFresh
        <4> QED
          BY <3>1, <4>1, <4>2, Zenon DEF FoundFresh
      <3>2. CASE /\ t = 1
                 /\ pc' = [pc EXCEPT ![1] = "forked"]
                 /\ warg' = [warg EXCEPT ![1] = next_pid]
        <4>1. pc'[1] = "forked" /\ warg'[1] = next_pid
          BY <1>1, <3>2 DEF IInv, TypeOK
        <4> QED
          BY <2>1, <2>3, <3>2, <4>1 DEF ShellChild, FoundFresh
      <3> QED
        BY <2>6, <3>1, <3>2
    <2> QED
      BY <2>1, <2>2, <2>4, <2>5, <2>7 DEF LifeInv, IntrOn
  <1> QED
    BY <1>3, <1>4, <1>5 DEF Fork, KernelFork

(* exit: the zombie stays on the list.                                      *)
LEMMA LifeExit ==
    ASSUME IInv, LifeInv, NEW t \in Pids, t = current_task, Exit(t)
    PROVE  LifeInv'
  <1> USE DEF list, sig, mem, wait
  <1>1. /\ UNCHANGED <<list, next_pid, mem, pc, wait>>
        /\ current_task' = NextOrHead(current_task)
        /\ cpu' = "skip" /\ t # 1 /\ pc[t] = "run"
        /\ state' = [state EXCEPT ![t] = "ZOMBIE"]
    BY DEF Exit, EnterSwitch
  <1>2. Linked' = Linked
    BY <1>1 DEF Linked
  <1>3. current_task \in Linked /\ ready_queue \in Linked /\ Linked \subseteq Pids
    BY LinkedHead, LinkedPids DEF IInv, TypeOK, LifeInv, ListSound
  <1>4. NextOrHead(current_task) \in Linked
    BY <1>3, LinkedClosed DEF NextOrHead, IInv, TypeOK
  <1>5. state'[t] = "ZOMBIE" /\ \A p \in Pids : p # t => state'[p] = state[p]
    BY <1>1 DEF IInv, TypeOK
  <1>6. \A p \in Pids : parent_pid'[p] \in {1, parent_pid[p]}
    BY DEF Exit
  <1>7. Unforked'
    BY <1>1, <1>3, <1>5, LinkedOld DEF LifeInv, Unforked, IInv, TypeOK, Pids
  <1>8. ListSound'
    BY <1>1, <1>2, <1>3, <1>4, <1>5, Zenon DEF LifeInv, ListSound, IInv, TypeOK
  <1>9. ShellChild'
    BY <1>1, <1>2, <1>3, <1>6 DEF LifeInv, ShellChild
  <1>10. FoundFresh'
    BY <1>1, <1>2, <1>3, <1>5 DEF LifeInv, FoundFresh, ShellChild
  <1> QED
    BY <1>1, <1>2, <1>7, <1>8, <1>9, <1>10 DEF LifeInv, OnePred, IntrOn

(* One turn of waitpid's loop.  A program reaps its own children only, so   *)
(* never the shell's; and the shell that waits has a child, so it never     *)
(* takes the return that leaves interrupts off.                             *)
LEMMA LifeWaitTurn ==
    ASSUME IInv, LifeInv, ChosenAlive, cpu = "task", NEW t \in Pids, t = current_task,
           NEW pid \in Pids \cup {AnyChild, NULL}, WaitTurn(t, pid),
           t = 1 => pc[1] = "wait" /\ pid = warg[1]
    PROVE  LifeInv'
  <1> USE DEF list, sig, mem, wait
  <1>0. /\ UNCHANGED <<current_task, next_pid, state, parent_pid, cpu, prev>>
        /\ 1 \in Pids /\ Linked \subseteq Pids
    BY MaxPidAssumption, LinkedPids DEF WaitTurn, Pids
  <1>1. CASE \E z \in ZombieChildren(t, pid) :
               /\ Reap(Prev(z), z)
               /\ pc' = [pc EXCEPT ![t] = "sweep"]
               /\ warg' = [warg EXCEPT ![t] = NULL]
    <2>1. PICK z \in ZombieChildren(t, pid) :
               /\ Reap(Prev(z), z)
               /\ pc' = [pc EXCEPT ![t] = "sweep"]
               /\ warg' = [warg EXCEPT ![t] = NULL]
      BY <1>1
    <2>2. z \in Linked /\ state[z] = "ZOMBIE" /\ parent_pid[z] = t
      BY <2>1 DEF ZombieChildren
    <2>3. Prev(z) \in Linked /\ next[Prev(z)] = z
      BY <2>2, ZombiePrev
    <2>4. /\ Unforked' /\ OnePred' /\ ListSound'
          /\ Linked' = Linked \ {z}
          /\ (pc[1] = "found" /\ warg[1] # z)
                => (prev \in heap' => prev \in Linked' /\ next'[prev] = warg[1])
      BY <1>0, <2>1, <2>2, <2>3, ReapLife
    <2>5. pc'[t] = "sweep" /\ \A p \in Pids : p # t => pc'[p] = pc[p] /\ warg'[p] = warg[p]
      BY <2>1, Zenon DEF IInv, TypeOK
    <2>6. pc'[1] \in {"forked", "wait", "found"} =>
             pc'[1] = pc[1] /\ warg'[1] = warg[1] /\ t # 1 /\ warg[1] # z
      BY <1>0, <2>2, <2>5 DEF LifeInv, ShellChild
    <2>7. ShellChild' /\ FoundFresh'
      BY <1>0, <2>4, <2>6 DEF LifeInv, ShellChild, FoundFresh
    <2> QED
      BY <1>0, <2>4, <2>5, <2>7 DEF LifeInv, IntrOn
  <1>2. CASE /\ UNCHANGED <<list, mem>>
             /\ \/ /\ pc' = [pc EXCEPT ![t] = "wait"]
                   /\ warg' = [warg EXCEPT ![t] = pid]
                   /\ intr' = TRUE
                \/ /\ ~HasChildren(t)
                   /\ pc' = [pc EXCEPT ![t] = "run"]
                   /\ warg' = [warg EXCEPT ![t] = NULL]
                   /\ intr' = (t # 1)
    <2>1. Linked' = Linked
      BY <1>2 DEF Linked
    <2>2. ~HasChildren(t) => t # 1
      BY DEF HasChildren, LifeInv, ShellChild
    <2>3. intr'
      BY <1>2, <2>2, Zenon
    <2>4. pc'[1] \in {"forked", "wait", "found"} => pc'[1] = pc[1] /\ warg'[1] = warg[1]
      BY <1>0, <1>2, <2>2, Zenon DEF IInv, TypeOK
    <2>5. ShellChild' /\ FoundFresh'
      BY <1>0, <1>2, <2>1, <2>4 DEF LifeInv, ShellChild, FoundFresh
    <2> QED
      BY <1>0, <1>2, <2>1, <2>3, <2>5 DEF LifeInv, Unforked, OnePred, ListSound, IntrOn
  <1> QED
    BY <1>1, <1>2, Zenon DEF WaitTurn

(* The shell's first turn: between the scan and the unlinking of the zombie *)
(* it found, programs run.                                                  *)
LEMMA LifeShell ==
    ASSUME IInv, LifeInv, ChosenAlive, ~Dangling, cpu = "task",
           NEW t \in Pids, t = current_task, ShellScan(t) \/ ShellReap(t)
    PROVE  LifeInv'
  <1> USE DEF list, sig, mem, wait
  <1>0. 1 \in Pids /\ t = 1 /\ Linked \subseteq Pids
    BY MaxPidAssumption, LinkedPids, Zenon DEF ShellScan, ShellReap
  <1>1. CASE ShellScan(t)
    <2>1. /\ UNCHANGED <<list, current_task, next_pid, state, parent_pid, mem, cpu, intr>>
          /\ pc[1] = "forked"
          /\ \/ /\ warg[1] \in ZombieChildren(1, warg[1])
                /\ pc' = [pc EXCEPT ![1] = "found"]
                /\ prev' = Prev(warg[1])
                /\ UNCHANGED warg
             \/ /\ pc' = [pc EXCEPT ![1] = "wait"]
                /\ UNCHANGED <<warg, prev>>
             \/ ~HasChildren(1)
      BY <1>0, <1>1, Zenon DEF ShellScan
    <2>2. Linked' = Linked
      BY <2>1, Zenon DEF Linked
    <2>3. HasChildren(1) /\ intr
      BY <1>0, <2>1, Zenon DEF HasChildren, LifeInv, ShellChild, IntrOn
    <2>4. /\ UNCHANGED warg
          /\ pc'[1] = "found" => /\ warg[1] \in ZombieChildren(1, warg[1])
                                 /\ prev' = Prev(warg[1])
      BY <1>0, <2>1, <2>3 DEF IInv, TypeOK
    <2>5. ShellChild'
      BY <2>1, <2>2, <2>4, Zenon DEF LifeInv, ShellChild
    <2>6. FoundFresh'
      BY <2>1, <2>2, <2>4, ZombiePrev, Zenon DEF FoundFresh, ZombieChildren
    <2> QED
      BY <2>1, <2>2, <2>3, <2>5, <2>6 DEF LifeInv, Unforked, OnePred, ListSound, IntrOn
  <1>2. CASE ShellReap(t)
    <2>1. /\ pc[1] = "found" /\ Reap(prev, warg[1])
          /\ pc' = [pc EXCEPT ![1] = "sweep"]
          /\ UNCHANGED <<current_task, next_pid, state, parent_pid, cpu, intr>>
      BY <1>0, <1>2, Zenon DEF ShellReap
    <2>2. prev \in heap
      <3>1. prev \in heap \cup {NULL}
        BY <1>0, <2>1, Zenon DEF Dangling
      <3>2. prev # NULL
        <4>1. prev \in Pids
          BY <2>1, Zenon DEF IInv, FoundOrdered
        <4> QED
          BY <4>1 DEF Pids, NULL
      <3> QED
        BY <3>1, <3>2, Zenon
    <2>3. /\ prev \in Linked /\ next[prev] = warg[1]
          /\ warg[1] \in Linked /\ state[warg[1]] = "ZOMBIE"
      BY <2>1, <2>2 DEF LifeInv, FoundFresh, ShellChild
    <2>4. Unforked' /\ OnePred' /\ ListSound'
      BY <2>1, <2>3, ReapLife
    <2>5. pc'[1] = "sweep"
      BY <1>0, <2>1 DEF IInv, TypeOK
    <2> QED
      BY <1>0, <2>1, <2>4, <2>5 DEF LifeInv, ShellChild, FoundFresh, IntrOn
  <1> QED
    BY <1>1, <1>2

(* The sweep over the other zombie children.                                *)
LEMMA LifeSweep ==
    ASSUME IInv, LifeInv, ChosenAlive, cpu = "task",
           NEW t \in Pids, t = current_task, Sweep(t)
    PROVE  LifeInv'
  <1> USE DEF list, sig, mem, wait
  <1>0. 1 \in Pids /\ Linked \subseteq Pids
    BY MaxPidAssumption, LinkedPids DEF Pids
  <1>1. UNCHANGED <<current_task, next_pid, state, parent_pid, cpu, wait>> /\ pc[t] = "sweep"
    BY Zenon DEF Sweep
  <1>2. CASE /\ pc' = [pc EXCEPT ![t] = "run"]
             /\ intr' = TRUE
             /\ UNCHANGED <<list, mem>>
    <2>1. Linked' = Linked
      BY <1>2 DEF Linked
    <2>2. pc'[1] \in {"forked", "wait", "found"} => pc'[1] = pc[1]
      BY <1>0, <1>2 DEF IInv, TypeOK
    <2>3. ShellChild' /\ FoundFresh'
      BY <1>1, <1>2, <2>1, <2>2 DEF LifeInv, ShellChild, FoundFresh
    <2> QED
      BY <1>1, <1>2, <2>1, <2>3 DEF LifeInv, Unforked, OnePred, ListSound, IntrOn
  <1>3. ASSUME NEW z \in ZombieChildren(t, AnyChild), Reap(Prev(z), z), UNCHANGED <<pc, intr>>
        PROVE  LifeInv'
    <2>1. z \in Linked /\ state[z] = "ZOMBIE" /\ parent_pid[z] = t
      BY <1>3 DEF ZombieChildren
    <2>2. Prev(z) \in Linked /\ next[Prev(z)] = z
      BY <2>1, ZombiePrev
    <2>3. /\ Unforked' /\ OnePred' /\ ListSound'
          /\ Linked' = Linked \ {z}
          /\ (pc[1] = "found" /\ warg[1] # z)
                => (prev \in heap' => prev \in Linked' /\ next'[prev] = warg[1])
      BY <1>1, <1>3, <2>1, <2>2, ReapLife, Zenon
    <2>4. pc[1] \in {"forked", "wait", "found"} => warg[1] # z
      BY <1>1, <2>1, Zenon DEF LifeInv, ShellChild
    <2>5. ShellChild' /\ FoundFresh'
      BY <1>1, <1>3, <2>3, <2>4, Zenon DEF LifeInv, ShellChild, FoundFresh
    <2> QED
      BY <1>1, <1>3, <2>3, <2>5, Zenon DEF LifeInv, IntrOn
  <1> QED
    BY <1>2, <1>3, Zenon DEF Sweep

LEMMA LifeStep ==
    ASSUME Signals = {}, IInv, ChosenAlive, LifeInv, [Next]_vars
    PROVE  LifeInv'
  <1> USE DEF list, sig, mem, wait
  <1>0. current_task \in Pids
    BY DEF IInv, TypeOK
  <1>1. CASE UNCHANGED <<list, next_pid, state, parent_pid, mem, pc, wait, current_task>>
             /\ cpu' \in {cpu, "undefined"} /\ (intr => intr')
    <2>1. Linked' = Linked
      BY <1>1 DEF Linked
    <2>2. IntrOn'
      BY <1>1 DEF LifeInv, IntrOn
    <2> QED
      BY <1>1, <2>1, <2>2
      DEF LifeInv, Unforked, OnePred, ListSound, ShellChild, FoundFresh
  <1>2. CASE UNCHANGED vars
    BY <1>1, <1>2 DEF vars
  <1>3. CASE TimerTick \/ Switch
    BY <1>3, LifeSwitch
  <1>4. CASE UseAfterFree
    BY <1>1, <1>4, Zenon DEF UseAfterFree
  <1>5. CASE ~Dangling /\ cpu = "task" /\ Step(current_task)
    <2>1. CASE Waitpid(current_task)
      <3>1. PICK pid \in Pids \cup {AnyChild} : WaitTurn(current_task, pid)
        BY <2>1, Zenon DEF Waitpid
      <3>2. current_task # 1
        BY <2>1, Zenon DEF Waitpid
      <3> QED
        BY <1>0, <1>5, <3>1, <3>2, LifeWaitTurn
    <2>2. CASE WaitAgain(current_task)
      <3>1. WaitTurn(current_task, warg[current_task]) /\ pc[current_task] = "wait"
        BY <2>2, Zenon DEF WaitAgain
      <3>2. warg[current_task] \in Pids \cup {AnyChild, NULL}
        BY <1>0 DEF IInv, TypeOK
      <3> QED
        BY <1>0, <1>5, <3>1, <3>2, LifeWaitTurn
    <2>3. CASE Kill(current_task) \/ Signal(current_task) \/ ShellIdle(current_task)
      BY <1>1, <2>3, Zenon DEF Kill, Signal, ShellIdle
    <2> QED
      BY <1>0, <1>5, <2>1, <2>2, <2>3, LifeFork, LifeExit, LifeShell, LifeSweep DEF Step
  <1> QED
    BY <1>2, <1>3, <1>4, <1>5 DEF Next

(* What fork, exit and waitpid maintain about the ready list, the heap, the *)
(* kernel stacks and the shell's wait, while programs use no signals.       *)
THEOREM LifeInvariant ==
    ASSUME Signals = {}
    PROVE  Spec => []LifeInv
  <1>1. Init => LifeInv
    BY LifeInit
  <1>2. Init => ChosenAlive
    BY MaxPidAssumption DEF Init, ChosenAlive, Pids
  <1>3. IInv /\ ChosenAlive /\ [Next]_vars => ChosenAlive'
    BY ChosenAliveStep
  <1>4. IInv /\ ChosenAlive /\ LifeInv /\ [Next]_vars => LifeInv'
    BY LifeStep
  <1> QED
    BY <1>1, <1>2, <1>3, <1>4, IInvInvariant, PTL DEF Spec

(* "They stay around for the parent to reap": a zombie is on the ready list *)
(* until waitpid frees it, however fork, exit, waitpid and the shell's      *)
(* preemptible wait interleave.                                             *)
THEOREM ZombiesWaitForParent ==
    ASSUME Signals = {}
    PROVE  Spec => []ZombieStaysForParent
  <1>1. LifeInv => ZombieStaysForParent
    BY DEF LifeInv, ListSound, ZombieStaysForParent
  <1> QED
    BY <1>1, LifeInvariant, PTL

(* No kernel stack is lost or freed early.                                  *)
THEOREM NoStackLost ==
    ASSUME Signals = {}
    PROVE  Spec => []StacksMatchTasks
  <1>1. LifeInv => StacksMatchTasks
    BY DEF LifeInv, ListSound, StacksMatchTasks
  <1> QED
    BY <1>1, LifeInvariant, PTL

(* Every return of fork and waitpid to a task's own code is with interrupts *)
(* on; in particular the shell never takes waitpid's "no children" return,  *)
(* the one without sti.                                                     *)
THEOREM TimerNeverShutOut ==
    ASSUME Signals = {}
    PROVE  Spec => []InterruptsOn
  <1>1. LifeInv => InterruptsOn
    BY DEF LifeInv, IntrOn, InterruptsOn
  <1> QED
    BY <1>1, LifeInvariant, PTL

=============================================================================
