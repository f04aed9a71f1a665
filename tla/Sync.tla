-------------------------------- MODULE Sync --------------------------------
(***************************************************************************)
(* Semaphores (kern/sync/sem.c) on wait queues (wait.c), the Hoare monitor *)
(* built from them (monitor.c), and the philosophers of check_sync.c that  *)
(* use one or the other.  check_sync() starts a group of each kind; they   *)
(* share nothing, so a behaviour follows one group, chosen in Init.        *)
(*                                                                         *)
(* A step is what the code makes atomic by masking interrupts, an up or a  *)
(* down, with the plain statements before it; the steps of the processes   *)
(* interleave freely.  The kernel switches threads only where one blocks,  *)
(* so its schedules are among these: nothing below rests on the kernel not *)
(* being preempted.  Semaphore i is s[i] or cv[i].sem; mutex is the     *)
(* group's or the monitor's.                                               *)
(***************************************************************************)
EXTENDS Integers, Sequences, Functions

CONSTANTS
    N,          \* number of philosophers
    TIMES       \* how often each one eats

ASSUME SyncAssumption == N \in Nat /\ N > 1 /\ TIMES \in Nat \ {0}

Phil == 0..(N - 1)
LEFT(i) == (i - 1 + N) % N
RIGHT(i) == (i + 1) % N
Sem == 0..(N + 1)
mutex == N
next == N + 1

VARIABLES
    kind,       \* "sema" or "condvar": the group followed
    value,      \* value of each semaphore
    queue,      \* its wait queue
    state,      \* state_sema or state_condvar
    count,      \* cv[i].count
    next_count, \* next_count of the monitor
    iter,       \* meals left
    pc          \* the next statement of each philosopher

semVars == <<value, queue>>
monVars == <<count, next_count>>
vars == <<kind, semVars, state, monVars, iter, pc>>

(* check_sync(), sem_init() and monitor_init().                              *)
Init ==
    /\ kind \in {"sema", "condvar"}
    /\ value = [s \in Sem |-> IF s = mutex THEN 1 ELSE 0]
    /\ queue = [s \in Sem |-> <<>>]
    /\ state = [i \in Phil |-> "THINKING"]
    /\ count = [i \in Phil |-> 0]
    /\ next_count = 0
    /\ iter = [i \in Phil |-> TIMES]
    /\ pc = [i \in Phil |-> "think"]

-----------------------------------------------------------------------------
Waiting(i, s) == i \in Range(queue[s])          \* wait_in_queue()
Asleep(i) == \E s \in Sem : Waiting(i, s)

(* A philosopher that can run and is about to execute l.                     *)
At(i, l) == pc[i] = l /\ ~Asleep(i)
Goto(i, l) == pc' = [pc EXCEPT ![i] = l]

downUnchecked(i, s) == value' = [value EXCEPT ![s] = @ - 1] /\ UNCHANGED queue

(* __down(): a process that finds the value 0 queues itself and sleeps; it   *)
(* goes on after the down once an up has taken it off the queue.             *)
down(i, s) ==
    \/ /\ value[s] > 0
       /\ value' = [value EXCEPT ![s] = @ - 1]
       /\ UNCHANGED queue
    \/ /\ value[s] = 0
       /\ queue' = [queue EXCEPT ![s] = Append(@, i)]
       /\ UNCHANGED value

upAndCount(s) ==
    /\ queue' = [queue EXCEPT ![s] = IF @ = <<>> THEN @ ELSE Tail(@)]
    /\ value' = [value EXCEPT ![s] = @ + 1]

(* __up(): the unit goes to the first waiter, if there is one, and then the  *)
(* value does not change.                                                    *)
up(s) ==
    \/ /\ queue[s] = <<>>
       /\ value' = [value EXCEPT ![s] = @ + 1]
       /\ UNCHANGED queue
    \/ /\ queue[s] # <<>>
       /\ queue' = [queue EXCEPT ![s] = Tail(@)]
       /\ UNCHANGED value

LeaveByMutex == up(mutex)

(* Leaving the monitor, at the end of a routine or in cond_wait(); the plain *)
(* group only has the mutex, and next_count is 0.                            *)
Leave == up(IF next_count > 0 THEN next ELSE mutex)

-----------------------------------------------------------------------------
(* The philosopher has slept, thinking, and calls phi_take_forks.            *)
TakeForks(i) ==
    /\ At(i, "think")
    /\ down(i, mutex) /\ Goto(i, "hungry")
    /\ UNCHANGED <<kind, state, monVars, iter>>

Hungry(i) ==
    /\ At(i, "hungry")
    /\ state' = [state EXCEPT ![i] = "HUNGRY"]
    /\ Goto(i, "test_self")
    /\ UNCHANGED <<kind, semVars, monVars, iter>>

MayEatIgnoringRight(j) == state[j] = "HUNGRY" /\ state[LEFT(j)] # "EATING"
MayEatUnasked(j) == state[LEFT(j)] # "EATING" /\ state[RIGHT(j)] # "EATING"

MayEat(j) ==
    state[j] = "HUNGRY" /\ state[LEFT(j)] # "EATING" /\ state[RIGHT(j)] # "EATING"

(* phi_test_sema(j) and phi_test_condvar(j), called by i, which goes on at l *)
(* or, when cond_signal() finds a waiter, at w to wait until it has left.    *)
phi_test(i, j, l, w) ==
    \/ /\ ~MayEat(j)
       /\ Goto(i, l)
       /\ UNCHANGED <<semVars, state, next_count>>
    \/ /\ MayEat(j)
       /\ state' = [state EXCEPT ![j] = "EATING"]
       /\ \/ /\ kind = "sema"
             /\ up(j) /\ Goto(i, l) /\ UNCHANGED next_count
          \/ /\ kind = "condvar" /\ count[j] = 0
             /\ Goto(i, l) /\ UNCHANGED <<semVars, next_count>>
          \/ /\ kind = "condvar" /\ count[j] > 0
             /\ next_count' = next_count + 1
             /\ up(j) /\ Goto(i, w)

TestSelf(i) ==
    /\ At(i, "test_self")
    /\ phi_test(i, i, "tested", "signal_self")
    /\ UNCHANGED <<kind, count, iter>>

(* phi_take_forks_sema(): leave the critical section, then down(s[i]).       *)
LeaveTake(i) ==
    /\ kind = "sema" /\ At(i, "tested")
    /\ up(mutex) /\ Goto(i, "down_self")
    /\ UNCHANGED <<kind, state, monVars, iter>>

(* phi_take_forks_condvar(): with both forks leave the monitor.              *)
LeaveMonitor(i) ==
    /\ kind = "condvar" /\ At(i, "tested") /\ state[i] = "EATING"
    /\ Leave /\ Goto(i, "eat")
    /\ UNCHANGED <<kind, state, monVars, iter>>

(* cond_wait() up to its down: count the waiter, then leave the monitor.     *)
CondWait(i) ==
    /\ kind = "condvar" /\ At(i, "tested") /\ state[i] # "EATING"
    /\ count' = [count EXCEPT ![i] = @ + 1]
    /\ Leave /\ Goto(i, "down_self")
    /\ UNCHANGED <<kind, state, next_count, iter>>

DownSelf(i) ==
    /\ At(i, "down_self")
    /\ down(i, i)
    /\ Goto(i, IF kind = "sema" THEN "eat" ELSE "cond_woken")
    /\ UNCHANGED <<kind, state, monVars, iter>>

(* The rest of cond_wait() and of phi_take_forks_condvar().                  *)
CondWoken(i) ==
    /\ At(i, "cond_woken")
    /\ count' = [count EXCEPT ![i] = @ - 1]
    /\ Leave /\ Goto(i, "eat")
    /\ UNCHANGED <<kind, state, next_count, iter>>

(* The philosopher has slept, eating, and calls phi_put_forks.               *)
PutForks(i) ==
    /\ At(i, "eat")
    /\ down(i, mutex) /\ Goto(i, "put")
    /\ UNCHANGED <<kind, state, monVars, iter>>

Put(i) ==
    /\ At(i, "put")
    /\ state' = [state EXCEPT ![i] = "THINKING"]
    /\ Goto(i, "test_left")
    /\ UNCHANGED <<kind, semVars, monVars, iter>>

TestLeft(i) ==
    /\ At(i, "test_left")
    /\ phi_test(i, LEFT(i), "test_right", "signal_left")
    /\ UNCHANGED <<kind, count, iter>>

TestRight(i) ==
    /\ At(i, "test_right")
    /\ phi_test(i, RIGHT(i), "put_done", "signal_right")
    /\ UNCHANGED <<kind, count, iter>>

SignalWithoutWait(i) ==
    /\ \/ At(i, "signal_left") /\ Goto(i, "signalled_left")
       \/ At(i, "signal_right") /\ Goto(i, "signalled_right")
    /\ UNCHANGED <<kind, semVars, state, monVars, iter>>

(* The end of cond_signal(): wait on next, then count this signaller off.    *)
SignalWait(i) ==
    /\ \/ At(i, "signal_left") /\ Goto(i, "signalled_left")
       \/ At(i, "signal_right") /\ Goto(i, "signalled_right")
    /\ down(i, next)
    /\ UNCHANGED <<kind, state, monVars, iter>>

SignalDone(i) ==
    /\ \/ At(i, "signalled_left") /\ Goto(i, "test_right")
       \/ At(i, "signalled_right") /\ Goto(i, "put_done")
    /\ next_count' = next_count - 1
    /\ UNCHANGED <<kind, semVars, state, count, iter>>

(* Leave the section; another round, or the thread function returns.         *)
LeavePut(i) ==
    /\ At(i, "put_done")
    /\ Leave
    /\ iter' = [iter EXCEPT ![i] = @ - 1]
    /\ Goto(i, IF iter[i] > 1 THEN "think" ELSE "quit")
    /\ UNCHANGED <<kind, state, monVars>>

Step(i) ==
    \/ TakeForks(i) \/ Hungry(i) \/ TestSelf(i) \/ LeaveTake(i) \/ LeaveMonitor(i)
    \/ CondWait(i) \/ DownSelf(i) \/ CondWoken(i) \/ PutForks(i) \/ Put(i)
    \/ TestLeft(i) \/ TestRight(i) \/ SignalWait(i) \/ SignalDone(i) \/ LeavePut(i)

(* All philosophers have quit.                                               *)
AllQuit == \A i \in Phil : pc[i] = "quit"
Quit == AllQuit /\ UNCHANGED vars

Next == Quit \/ \E i \in Phil : Step(i)

(* A runnable thread is eventually run: the run queue is a FIFO and the      *)
(* sleeps of do_sleep() end.                                                 *)
Fairness == \A i \in Phil : WF_vars(Step(i))
Spec == Init /\ [][Next]_vars /\ Fairness

-----------------------------------------------------------------------------
Labels == {"think", "hungry", "test_self", "tested", "down_self", "cond_woken",
           "eat", "put", "test_left", "signal_left", "signalled_left", "test_right",
           "signal_right", "signalled_right", "put_done", "quit"}

TypeOK ==
    /\ kind \in {"sema", "condvar"}
    /\ value \in [Sem -> Nat]
    /\ queue \in [Sem -> Seq(Phil)]
    /\ state \in [Phil -> {"THINKING", "HUNGRY", "EATING"}]
    /\ count \in [Phil -> Nat] /\ next_count \in Nat
    /\ iter \in [Phil -> 0..TIMES]
    /\ pc \in [Phil -> Labels]

(* A philosopher who has come back from phi_take_forks and has not yet put   *)
(* the forks down, whatever the state array says.                            *)
Eating(i) == pc[i] \in {"eat", "put"} /\ ~Waiting(i, i)

(* Neighbours never eat at the same time: take_forks does not return to one  *)
(* philosopher while the other is between take_forks and put_forks           *)
(* (check_sync.c:24-50, 110-154).                                            *)
NeighboursNeverBothEat ==
    \A i \in Phil : RIGHT(i) # i /\ Eating(i) => ~Eating(RIGHT(i))

(* A philosopher inside the critical section or the monitor, not suspended   *)
(* in it.                                                                    *)
Active(i) ==
    /\ pc[i] \in {"hungry", "test_self", "tested", "cond_woken", "put", "test_left",
                  "signal_left", "signalled_left", "test_right", "signal_right",
                  "signalled_right", "put_done"}
    /\ ~Asleep(i)

(* "Only one process at a time may be active in a monitor" (monitor.h):      *)
(* cond_signal() hands the monitor to the waiter and gets it back on next,   *)
(* also when the waiter was preempted between leaving the monitor and its    *)
(* down (monitor.c:27-72).  The signaller about to wait has handed it over.  *)
OneActive ==
    \A i, j \in Phil :
        Active(i) /\ Active(j) /\ i # j =>
            \E k \in {i, j} : pc[k] \in {"signal_left", "signal_right"}

(* A wakeup is never lost: who sleeps for the forks has not been given them, *)
(* and a semaphore with a unit to give has nobody waiting (sem.c:16-54).     *)
NoLostHandOff ==
    /\ \A i \in Phil : Waiting(i, i) => state[i] = "HUNGRY"
    /\ \A s \in Sem : value[s] > 0 => queue[s] = <<>>

(* Seen through the state array, every step is a step of the table, so each  *)
(* phi_test grants forks only when both are free.                            *)
T == INSTANCE DiningTable
ImplementsTable == T!Table

(* Every philosopher eats TIMES times and quits: no deadlock in the nesting  *)
(* of mutex, next and the condition variables, and no lost signal.           *)
EveryoneQuits == <>AllQuit
=============================================================================
