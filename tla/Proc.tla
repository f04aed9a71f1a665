-------------------------------- MODULE Proc --------------------------------
(***************************************************************************)
(* Processes, the round-robin scheduler, kernel timers and the three       *)
(* interruptible waits (child, timer, keyboard) of the ucore kernel:       *)
(*   kern/process/proc.c, kern/schedule/{sched,default_sched}.c,           *)
(*   kern/sync/wait.c, kern/trap/trap.c, kern/fs/devs/dev_stdin.c.         *)
(*                                                                         *)
(* There is one CPU.  A trap handler runs with interrupts masked, so what  *)
(* a process does in the kernel is atomic up to its call of schedule().    *)
(* A handler with a loop or with a call of schedule() is split into steps: *)
(* kpc[p] is where p is (or will resume) in the kernel, insched says that  *)
(* `current' has called schedule(), irq which interrupt handler is active. *)
(* While one of them is set nothing but that handler can move, so the      *)
(* split adds no behaviour.  Only kernel threads (Idle, Init) run kernel   *)
(* code with interrupts enabled.                                           *)
(*                                                                         *)
(* A process is named by its proc_struct, which also stands for its pid.   *)
(***************************************************************************)
EXTENDS Integers, Sequences, FiniteSets, FiniteSetsExt

CONSTANTS
    UserProc,        \* proc_structs for user processes
    Idle,            \* idleproc
    Init0,           \* initproc
    MAX_PROCESS,     \* limit on nr_process
    MAX_TIME_SLICE,  \* ticks a process runs before it is rescheduled
    STDIN_BUFSIZE,   \* capacity of the keyboard buffer
    MaxSleep,        \* bound: longest time passed to do_sleep
    MaxRead          \* bound: longest length passed to dev_stdin_read

ASSUME ProcAssumption ==
    /\ IsFiniteSet(UserProc)
    /\ Idle \notin UserProc /\ Init0 \notin UserProc /\ Idle # Init0
    /\ MAX_PROCESS \in Nat
    /\ MAX_TIME_SLICE \in Nat \ {0}
    /\ STDIN_BUFSIZE \in Nat \ {0}
    /\ MaxSleep \in Nat /\ MaxRead \in Nat

Procs == UserProc \cup {Idle, Init0}

VARIABLES
    state,         \* proc->state; "UNUSED" when the struct is not allocated
    wait_state,    \* proc->wait_state
    exiting,       \* proc->flags & PF_EXITING
    need_resched,  \* proc->need_resched
    time_slice,    \* proc->time_slice
    parent,        \* proc->parent
    nr_process,    \* number of processes
    current,       \* the running process
    run_list,      \* rq->run_list, head first
    timer_list,    \* timers, each relative to the one before it
    timer,         \* the timer add_timer() is inserting, and how far it got
    wait_queue,    \* the processes waiting for the keyboard
    wakeup_flags,  \* wait->wakeup_flags of a waiting process
    unread,        \* p_wpos - p_rpos, characters in stdin_buffer
    kpc,           \* where a process is, or resumes, in the kernel
    waitpid,       \* do_wait's argument pid
    todo,          \* characters dev_stdin_read still wants
    insched,       \* `current' has called schedule()
    irq,           \* the interrupt handler that is running
    halted         \* "no", or why the kernel stopped

procVars == <<state, wait_state, exiting, need_resched, time_slice>>
treeVars == <<parent, nr_process>>
schedVars == <<current, run_list>>
timerVars == <<timer_list, timer>>
stdinVars == <<wait_queue, wakeup_flags, unread>>
argVars == <<waitpid, todo>>
ctlVars == <<kpc, insched, irq, halted>>
vars == <<procVars, treeVars, schedVars, timerVars, stdinVars, argVars, ctlVars>>

States == {"UNUSED", "SLEEPING", "RUNNABLE", "ZOMBIE"}
Interruptible == {"WT_CHILD", "WT_TIMER", "WT_KBD"}   \* carry WT_INTERRUPTED
Locations == {"idle", "initmain", "user", "tail", "wait", "waitret",
              "addtimer", "sleepret", "read", "readret", "exit", "reparent", "dead"}

NoTimer == [time |-> 0, expires |-> 0, pos |-> 0]

Child(p) == {c \in Procs : state[c] # "UNUSED" /\ parent[c] = p}
Zombies(p) == {c \in Child(p) : state[c] = "ZOMBIE"}

-----------------------------------------------------------------------------
(* The state after proc_init(): idle is running, init has been forked.     *)
Init ==
    /\ state = [p \in Procs |-> IF p \in UserProc THEN "UNUSED" ELSE "RUNNABLE"]
    /\ wait_state = [p \in Procs |-> "0"]
    /\ exiting = [p \in Procs |-> FALSE]
    /\ need_resched = [p \in Procs |-> p = Idle]
    /\ time_slice = [p \in Procs |-> IF p = Init0 THEN MAX_TIME_SLICE ELSE 0]
    /\ parent = [p \in Procs |-> Idle]
    /\ nr_process = 2
    /\ current = Idle
    /\ run_list = <<Init0>>
    /\ timer_list = <<>>
    /\ timer = NoTimer
    /\ wait_queue = <<>>
    /\ wakeup_flags = [p \in Procs |-> "0"]
    /\ unread = 0
    /\ kpc = [p \in Procs |-> IF p = Idle THEN "idle"
                              ELSE IF p = Init0 THEN "initmain" ELSE "dead"]
    /\ waitpid = [p \in Procs |-> Idle]
    /\ todo = [p \in Procs |-> 0]
    /\ insched = FALSE
    /\ irq = "none"
    /\ halted = "no"

-----------------------------------------------------------------------------
(* Helpers.  A failed assert() stops the kernel.                           *)

KAssert(b) == halted' = IF b THEN halted ELSE "assert"

(* Definitions named Bad... are seeded faults, used to see properties fail.  *)

(* RR_enqueue: to the tail of the queue, with a fresh slice if none is left. *)
BadRefillSlice(p) == time_slice[p]

RefillSlice(p) ==
    IF time_slice[p] = 0 \/ time_slice[p] > MAX_TIME_SLICE
    THEN MAX_TIME_SLICE ELSE time_slice[p]

Queued(p) == \E i \in 1..Len(run_list) : run_list[i] = p

RR_enqueue(p) ==
    /\ run_list' = Append(run_list, p)
    /\ time_slice' = [time_slice EXCEPT ![p] = RefillSlice(p)]

(* wakeup_proc(p), when it is called for p if b holds.  A process that is   *)
(* already runnable is left alone (the code only prints a warning); the     *)
(* running one is made runnable but not queued.                             *)
BadWakeupProc(b, p) ==                 \* wait_state not reset
    IF b /\ state[p] # "RUNNABLE"
    THEN /\ state' = [state EXCEPT ![p] = "RUNNABLE"]
         /\ UNCHANGED wait_state
         /\ RR_enqueue(p)
    ELSE UNCHANGED <<state, wait_state, run_list, time_slice>>

wakeup_proc(b, p) ==
    IF b /\ state[p] # "RUNNABLE"
    THEN /\ state' = [state EXCEPT ![p] = "RUNNABLE"]
         /\ wait_state' = [wait_state EXCEPT ![p] = "0"]
         /\ IF p # current /\ p # Idle
            THEN RR_enqueue(p)
            ELSE UNCHANGED <<run_list, time_slice>>
    ELSE UNCHANGED <<state, wait_state, run_list, time_slice>>

(* The asserts on the way: not a zombie, not already queued.                *)
WakeupAsserts(b, p) ==
    b => /\ state[p] # "ZOMBIE"
         /\ state[p] # "RUNNABLE" /\ p # current /\ p # Idle => ~Queued(p)

(* `current' executes code of the process itself, at location l.            *)
At(l) == halted = "no" /\ irq = "none" /\ ~insched /\ kpc[current] = l

Goto(l) == kpc' = [kpc EXCEPT ![current] = l]

(* `current' stops in the given wait state and calls schedule(); it will    *)
(* continue at l.                                                           *)
SleepAt(w, l) ==
    /\ state' = [state EXCEPT ![current] = "SLEEPING"]
    /\ wait_state' = [wait_state EXCEPT ![current] = w]
    /\ Goto(l)
    /\ insched' = TRUE

-----------------------------------------------------------------------------
(* schedule(): queue the running process if it can still run, take the head *)
(* of the queue, or idle, and switch to it (proc_run).                      *)
BadRequeues(p) == p # Idle                           \* whatever its state

Requeues(p) == state[p] = "RUNNABLE" /\ p # Idle

Schedule ==
    /\ halted = "no" /\ irq = "none" /\ insched
    /\ need_resched' = [need_resched EXCEPT ![current] = FALSE]
    /\ LET requeue == Requeues(current)
           q == IF requeue THEN Append(run_list, current) ELSE run_list
       IN /\ time_slice' = IF requeue
                           THEN [time_slice EXCEPT ![current] = RefillSlice(current)]
                           ELSE time_slice
          /\ IF q = <<>>
             THEN current' = Idle /\ run_list' = q
             ELSE current' = Head(q) /\ run_list' = Tail(q)
          /\ KAssert(requeue => ~Queued(current))
    /\ insched' = FALSE
    /\ UNCHANGED <<state, wait_state, exiting, treeVars, timerVars, stdinVars,
                   argVars, kpc, irq>>

(* cpu_idle(): the idle process only polls its need_resched.                *)
CpuIdle ==
    /\ At("idle")
    /\ need_resched[Idle]
    /\ insched' = TRUE
    /\ UNCHANGED <<procVars, treeVars, schedVars, timerVars, stdinVars, argVars,
                   kpc, irq, halted>>

-----------------------------------------------------------------------------
(* do_fork(): the child is set up completely, linked and woken, or nothing  *)
(* of it remains.  It starts at location l0, the parent goes on at l.       *)
do_fork(l0, l) ==
    \E c \in UserProc :
        /\ state[c] = "UNUSED"
        /\ nr_process < MAX_PROCESS
        /\ state' = [state EXCEPT ![c] = "RUNNABLE"]
        /\ wait_state' = [wait_state EXCEPT ![c] = "0"]
        /\ exiting' = [exiting EXCEPT ![c] = FALSE]
        /\ need_resched' = [need_resched EXCEPT ![c] = FALSE]
        /\ time_slice' = [time_slice EXCEPT ![c] = MAX_TIME_SLICE]
        /\ parent' = [parent EXCEPT ![c] = current]
        /\ nr_process' = nr_process + 1
        /\ run_list' = Append(run_list, c)
        /\ kpc' = [kpc EXCEPT ![c] = l0, ![current] = l]
        /\ KAssert(wait_state[current] = "0" /\ ~Queued(c))

(* init_main() up to its loop: fork user_main, which execs the shell.       *)
InitMain ==
    /\ At("initmain")
    /\ \/ do_fork("user", "wait")
       \/ /\ halted' = "panic"                    \* create user_main failed
          /\ UNCHANGED <<procVars, treeVars, run_list, kpc>>
    /\ waitpid' = [waitpid EXCEPT ![current] = Idle]
    /\ UNCHANGED <<current, timerVars, stdinVars, todo, insched, irq>>

(* sys_fork: fails at the process limit or when memory runs out.            *)
SysFork ==
    /\ At("user")
    /\ \/ do_fork("user", "tail")
       \/ /\ Goto("tail")
          /\ UNCHANGED <<procVars, treeVars, run_list, halted>>
    /\ UNCHANGED <<current, timerVars, stdinVars, argVars, insched, irq>>

(* The system calls that change nothing modelled here: getpid, putc, a      *)
(* sleep(0), a kill of an unknown pid, a wait with a bad pointer, exec...   *)
SysOther ==
    /\ At("user")
    /\ Goto("tail")
    /\ UNCHANGED <<procVars, treeVars, schedVars, timerVars, stdinVars, argVars,
                   insched, irq, halted>>

(* sys_exit, and every trap that ends in do_exit(-E_KILLED).                *)
SysExit ==
    /\ At("user")
    /\ Goto("exit")
    /\ UNCHANGED <<procVars, treeVars, schedVars, timerVars, stdinVars, argVars,
                   insched, irq, halted>>

(* do_exit() up to the wakeup of the parent.  init must not exit.           *)
DoExit ==
    /\ At("exit")
    /\ IF current = Init0
       THEN /\ halted' = "panic"
            /\ UNCHANGED <<procVars, run_list, kpc>>
       ELSE LET dad == parent[current]
                wake == wait_state[dad] = "WT_CHILD" /\ state[dad] # "RUNNABLE"
            IN /\ state' = [p \in Procs |->
                              IF p = current THEN "ZOMBIE"
                              ELSE IF wake /\ p = dad THEN "RUNNABLE" ELSE state[p]]
               /\ wait_state' = IF wake THEN [wait_state EXCEPT ![dad] = "0"]
                                ELSE wait_state
               /\ IF wake /\ dad # Idle
                  THEN RR_enqueue(dad)
                  ELSE UNCHANGED <<run_list, time_slice>>
               /\ KAssert(WakeupAsserts(wait_state[dad] = "WT_CHILD", dad))
               /\ Goto("reparent")
               /\ UNCHANGED <<exiting, need_resched>>
    /\ UNCHANGED <<treeVars, current, timerVars, stdinVars, argVars, insched, irq>>

BadAdopt(p) ==                                       \* zombies forgotten
    [c \in Procs |-> IF c \in Child(p) \ Zombies(p) THEN Init0 ELSE parent[c]]

Adopt(p) == [c \in Procs |-> IF c \in Child(p) THEN Init0 ELSE parent[c]]

BadWakesInit(p) == FALSE

WakesInit(p) == wait_state[Init0] = "WT_CHILD" /\ Zombies(p) # {}

(* The rest of do_exit(): hand the children to init, wake init for a zombie *)
(* among them, and leave the CPU for good.                                  *)
Reparent ==
    /\ At("reparent")
    /\ parent' = Adopt(current)
    /\ wakeup_proc(WakesInit(current), Init0)
    /\ KAssert(WakeupAsserts(WakesInit(current), Init0))
    /\ Goto("dead")
    /\ insched' = TRUE
    /\ UNCHANGED <<exiting, need_resched, nr_process, current, timerVars,
                   stdinVars, argVars, irq>>

-----------------------------------------------------------------------------
(* sys_wait(pid): Idle stands for pid 0, "any child".                       *)
SysWait ==
    /\ At("user")
    /\ \E p \in UserProc \cup {Idle} : waitpid' = [waitpid EXCEPT ![current] = p]
    /\ Goto("wait")
    /\ UNCHANGED <<procVars, treeVars, schedVars, timerVars, stdinVars, todo,
                   insched, irq, halted>>

BadAwaited(p) ==                                     \* only one child looked at
    IF waitpid[p] = Idle /\ Child(p) # {} THEN {CHOOSE c \in Child(p) : TRUE}
    ELSE Child(p) \cap {waitpid[p]}

Awaited(p) == IF waitpid[p] = Idle THEN Child(p) ELSE Child(p) \cap {waitpid[p]}

(* do_wait() from its label repeat, a child has exited: free it.  (Which    *)
(* zombie is first on the children list is left open; the fields of a freed *)
(* struct and the locals of a finished call get their initial values back.) *)
(* init then calls schedule() and waits again.                              *)
Reap ==
    /\ At("wait")
    /\ \E z \in Awaited(current) :
          /\ state[z] = "ZOMBIE"
          /\ state' = [state EXCEPT ![z] = "UNUSED"]
          /\ exiting' = [exiting EXCEPT ![z] = FALSE]
          /\ time_slice' = [time_slice EXCEPT ![z] = 0]
          /\ parent' = [parent EXCEPT ![z] = Idle]
    /\ nr_process' = nr_process - 1
    /\ IF current = Init0
       THEN insched' = TRUE /\ UNCHANGED kpc
       ELSE Goto("tail") /\ UNCHANGED insched
    /\ waitpid' = [waitpid EXCEPT ![current] = Idle]
    /\ UNCHANGED <<wait_state, need_resched, schedVars, timerVars, stdinVars, todo,
                   irq, halted>>

(* ... children, but none of them has exited: sleep until one does.         *)
WaitSleep ==
    /\ At("wait")
    /\ Awaited(current) # {}
    /\ \A c \in Awaited(current) : state[c] # "ZOMBIE"
    /\ SleepAt("WT_CHILD", "waitret")
    /\ UNCHANGED <<exiting, need_resched, time_slice, treeVars, schedVars, timerVars,
                   stdinVars, argVars, irq, halted>>

(* ... no child to wait for: -E_BAD_PROC.  init leaves its loop, asserts    *)
(* that it is alone, returns and so calls do_exit().                        *)
WaitNone ==
    /\ At("wait")
    /\ Awaited(current) = {}
    /\ IF current = Init0
       THEN /\ Goto("exit")
            /\ KAssert(/\ nr_process = 2
                       /\ \A p \in UserProc : state[p] = "UNUSED")
       ELSE Goto("tail") /\ UNCHANGED halted
    /\ waitpid' = [waitpid EXCEPT ![current] = Idle]
    /\ UNCHANGED <<procVars, treeVars, schedVars, timerVars, stdinVars, todo,
                   insched, irq>>

(* do_wait() after schedule(): die if killed, else look again.              *)
WaitReturn ==
    /\ At("waitret")
    /\ IF exiting[current]
       THEN Goto("exit") /\ waitpid' = [waitpid EXCEPT ![current] = Idle]
       ELSE Goto("wait") /\ UNCHANGED waitpid
    /\ UNCHANGED <<procVars, treeVars, schedVars, timerVars, stdinVars, todo,
                   insched, irq, halted>>

-----------------------------------------------------------------------------
(* do_kill(): mark the process, wake it if its wait can be interrupted.     *)
SysKill ==
    /\ At("user")
    /\ \E p \in UserProc \cup {Init0} :
          /\ state[p] # "UNUSED"
          /\ exiting' = [exiting EXCEPT ![p] = TRUE]
          /\ LET b == ~exiting[p] /\ wait_state[p] \in Interruptible
             IN wakeup_proc(b, p) /\ KAssert(WakeupAsserts(b, p))
    /\ Goto("tail")
    /\ UNCHANGED <<need_resched, treeVars, current, timerVars, stdinVars, argVars,
                   insched, irq>>

(* do_yield()                                                               *)
SysYield ==
    /\ At("user")
    /\ need_resched' = [need_resched EXCEPT ![current] = TRUE]
    /\ Goto("tail")
    /\ UNCHANGED <<state, wait_state, exiting, time_slice, treeVars, schedVars,
                   timerVars, stdinVars, argVars, insched, irq, halted>>

(* trap(), after the dispatch, for a trap from user mode.                   *)
TrapTail ==
    /\ At("tail")
    /\ IF exiting[current]
       THEN Goto("exit") /\ UNCHANGED insched
       ELSE Goto("user") /\ insched' = need_resched[current]
    /\ UNCHANGED <<procVars, treeVars, schedVars, timerVars, stdinVars, argVars,
                   irq, halted>>

-----------------------------------------------------------------------------
(* Timers.  Each entry of timer_list counts the ticks after the previous    *)
(* entry.                                                                   *)
HasTimer(p) == \E i \in 1..Len(timer_list) : timer_list[i].proc = p

(* do_sleep(time): the process is already asleep when add_timer() starts.   *)
SysSleep ==
    /\ At("user")
    /\ \E t \in 1..MaxSleep : timer' = [time |-> t, expires |-> t, pos |-> 0]
    /\ state' = [state EXCEPT ![current] = "SLEEPING"]
    /\ wait_state' = [wait_state EXCEPT ![current] = "WT_TIMER"]
    /\ Goto("addtimer")
    /\ UNCHANGED <<exiting, need_resched, time_slice, treeVars, schedVars, timer_list,
                   stdinVars, argVars, insched, irq, halted>>

(* add_timer(): walk past the timers that expire no later ...               *)
AtNextLater ==
    timer.pos < Len(timer_list) => timer.expires < timer_list[timer.pos + 1].expires

AddTimerWalk ==
    /\ At("addtimer")
    /\ ~AtNextLater
    /\ timer' = [timer EXCEPT !.expires = @ - timer_list[timer.pos + 1].expires,
                              !.pos = @ + 1]
    /\ UNCHANGED <<procVars, treeVars, schedVars, timer_list, stdinVars, argVars,
                   ctlVars>>

(* ... link the new one there and make the next one relative to it.  Then   *)
(* do_sleep() calls schedule().                                             *)
AddTimerLink ==
    /\ At("addtimer")
    /\ AtNextLater
    /\ timer_list' =
         [j \in 1..(Len(timer_list) + 1) |->
            IF j <= timer.pos THEN timer_list[j]
            ELSE IF j = timer.pos + 1 THEN [proc |-> current, expires |-> timer.expires]
            ELSE IF j = timer.pos + 2
            THEN [timer_list[j - 1] EXCEPT !.expires = @ - timer.expires]
            ELSE timer_list[j - 1]]
    /\ KAssert(~HasTimer(current))
    /\ timer' = NoTimer
    /\ Goto("sleepret")
    /\ insched' = TRUE
    /\ UNCHANGED <<procVars, treeVars, schedVars, stdinVars, argVars, irq>>

BadDelTimer(p) == UNCHANGED timer_list

BadDelTimerTicks(p) ==                    \* ticks of the removed timer lost
    IF HasTimer(p)
    THEN \E i \in 1..Len(timer_list) :
            /\ timer_list[i].proc = p
            /\ timer_list' = [j \in 1..(Len(timer_list) - 1) |->
                                IF j < i THEN timer_list[j] ELSE timer_list[j + 1]]
    ELSE UNCHANGED timer_list

(* del_timer(): the next timer takes over the ticks of the removed one.     *)
del_timer(p) ==
    IF HasTimer(p)
    THEN \E i \in 1..Len(timer_list) :
            /\ timer_list[i].proc = p
            /\ timer_list' =
                 [j \in 1..(Len(timer_list) - 1) |->
                    IF j < i THEN timer_list[j]
                    ELSE IF j = i
                    THEN [timer_list[j + 1] EXCEPT !.expires = @ + timer_list[i].expires]
                    ELSE timer_list[j + 1]]
    ELSE UNCHANGED timer_list

(* do_sleep() after schedule(): woken by the timer, or before it was due.   *)
SleepReturn ==
    /\ At("sleepret")
    /\ del_timer(current)
    /\ Goto("tail")
    /\ UNCHANGED <<timer, procVars, treeVars, schedVars, stdinVars, argVars, insched, irq,
                   halted>>

-----------------------------------------------------------------------------
(* Reading the keyboard: file_read reaches dev_stdin_read(buf, n).          *)
SysRead ==
    /\ At("user")
    /\ \E n \in 1..MaxRead : todo' = [todo EXCEPT ![current] = n]
    /\ Goto("read")
    /\ UNCHANGED <<procVars, treeVars, schedVars, timerVars, stdinVars, waitpid,
                   insched, irq, halted>>

(* The loop of dev_stdin_read(): take what is there, sleep when that is not *)
(* enough.                                                                  *)
ReadLoop ==
    /\ At("read")
    /\ IF todo[current] <= unread
       THEN /\ unread' = unread - todo[current]
            /\ todo' = [todo EXCEPT ![current] = 0]
            /\ Goto("tail")
            /\ UNCHANGED <<state, wait_state, wait_queue, wakeup_flags, insched>>
       ELSE /\ unread' = 0
            /\ todo' = [todo EXCEPT ![current] = @ - unread]
            /\ wait_queue' = Append(wait_queue, current)
            /\ wakeup_flags' = [wakeup_flags EXCEPT ![current] = "WT_INTERRUPTED"]
            /\ SleepAt("WT_KBD", "readret")
    /\ UNCHANGED <<exiting, need_resched, time_slice, treeVars, schedVars, timerVars,
                   waitpid, irq, halted>>

Waiting(p) == \E i \in 1..Len(wait_queue) : wait_queue[i] = p

(* Woken: leave the wait queue; go on only if a key is the reason.          *)
ReadReturn ==
    /\ At("readret")
    /\ IF Waiting(current)
       THEN \E i \in 1..Len(wait_queue) :
               /\ wait_queue[i] = current
               /\ wait_queue' = [j \in 1..(Len(wait_queue) - 1) |->
                                   IF j < i THEN wait_queue[j] ELSE wait_queue[j + 1]]
       ELSE UNCHANGED wait_queue
    /\ IF wakeup_flags[current] = "WT_KBD"
       THEN Goto("read") /\ UNCHANGED todo
       ELSE Goto("tail") /\ todo' = [todo EXCEPT ![current] = 0]
    /\ wakeup_flags' = [wakeup_flags EXCEPT ![current] = "0"]
    /\ UNCHANGED <<procVars, treeVars, schedVars, timerVars, unread, waitpid,
                   insched, irq, halted>>

-----------------------------------------------------------------------------
(* Interrupts: in user mode, and in the kernel threads, which may be        *)
(* anywhere in their code.                                                  *)
InterruptsOn ==
    /\ halted = "no" /\ irq = "none"
    /\ \/ kpc[current] = "user" /\ ~insched
       \/ current \in {Idle, Init0}

(* Back from the handler: only a trap from user mode runs trap()'s tail.    *)
IrqReturn ==
    /\ irq' = "none"
    /\ IF current \in {Idle, Init0} THEN UNCHANGED kpc ELSE Goto("tail")

BadCountDown ==                              \* no time passes while idle
    IF timer_list = <<>> \/ current = Idle THEN timer_list
    ELSE [timer_list EXCEPT ![1].expires = @ - 1]

CountDown == IF timer_list = <<>> THEN timer_list
             ELSE [timer_list EXCEPT ![1].expires = @ - 1]

(* The clock: every TICK_NUM ticks force a reschedule (ticks itself is not  *)
(* kept), then run_timer_list() counts the first timer down ...             *)
ClockInterrupt ==
    /\ InterruptsOn
    /\ irq' = "timer"
    /\ \E r \in BOOLEAN :
          need_resched' = [need_resched EXCEPT ![current] = @ \/ r]
    /\ timer_list' = CountDown
    /\ KAssert(timer_list # <<>> => timer_list[1].expires # 0)
    /\ UNCHANGED <<timer, state, wait_state, exiting, time_slice, treeVars, schedVars,
                   stdinVars, argVars, kpc, insched>>

(* ... wakes the owner of each timer that has reached zero ...              *)
TimerExpire ==
    /\ halted = "no" /\ irq = "timer"
    /\ timer_list # <<>> /\ timer_list[1].expires = 0
    /\ LET p == timer_list[1].proc
       IN /\ wakeup_proc(TRUE, p)
          /\ KAssert(/\ wait_state[p] = "0" \/ wait_state[p] \in Interruptible
                     /\ WakeupAsserts(TRUE, p))
    /\ timer_list' = Tail(timer_list)
    /\ UNCHANGED <<timer, exiting, need_resched, treeVars, current, stdinVars, argVars, kpc,
                   insched, irq>>

BadTicksLeft(p) == time_slice[p]

TicksLeft(p) == IF time_slice[p] > 0 THEN time_slice[p] - 1 ELSE 0

(* ... and charges the tick to the running process (RR_proc_tick).          *)
TimerDone ==
    /\ halted = "no" /\ irq = "timer"
    /\ timer_list # <<>> => timer_list[1].expires # 0
    /\ IF current = Idle
       THEN /\ need_resched' = [need_resched EXCEPT ![current] = TRUE]
            /\ UNCHANGED time_slice
       ELSE /\ time_slice' = [time_slice EXCEPT ![current] = TicksLeft(current)]
            /\ need_resched' = [need_resched EXCEPT ![current] =
                                   @ \/ TicksLeft(current) = 0]
    /\ IrqReturn
    /\ UNCHANGED <<state, wait_state, exiting, treeVars, schedVars, timerVars,
                   stdinVars, argVars, insched, halted>>

BadStore(n) == IF n <= STDIN_BUFSIZE THEN n + 1 ELSE n

Store(n) == IF n < STDIN_BUFSIZE THEN n + 1 ELSE n

(* The serial port: dev_stdin_write() stores a character if there is room   *)
(* (what happens to a character without room is dev_stdin's matter) ...     *)
SerialInterrupt ==
    /\ \/ InterruptsOn
       \/ halted = "no" /\ irq = "serial" /\ wait_queue = <<>>   \* one more character
    /\ irq' = "serial"
    /\ unread' = Store(unread)
    /\ UNCHANGED <<procVars, treeVars, schedVars, timerVars, wait_queue, wakeup_flags,
                   argVars, kpc, insched, halted>>

(* ... wakes every waiting reader (wakeup_queue), then returns.             *)
SerialWake ==
    /\ halted = "no" /\ irq = "serial"
    /\ wait_queue # <<>>
    /\ wait_queue' = Tail(wait_queue)
    /\ wakeup_flags' = [wakeup_flags EXCEPT ![Head(wait_queue)] = "WT_KBD"]
    /\ wakeup_proc(TRUE, Head(wait_queue))
    /\ KAssert(WakeupAsserts(TRUE, Head(wait_queue)))
    /\ UNCHANGED <<exiting, need_resched, treeVars, current, timerVars, unread,
                   argVars, kpc, insched, irq>>

SerialDone ==
    /\ halted = "no" /\ irq = "serial"
    /\ wait_queue = <<>>
    /\ IrqReturn
    /\ UNCHANGED <<procVars, treeVars, schedVars, timerVars, stdinVars, argVars,
                   insched, halted>>

(* panic() and a failed assert() never return.                              *)
Halted == halted # "no" /\ UNCHANGED vars

-----------------------------------------------------------------------------
Syscall == SysFork \/ SysOther \/ SysExit \/ SysWait \/ SysKill \/ SysYield
           \/ SysSleep \/ SysRead

(* What the CPU does next without any choice by a user program.             *)
KernelStep == Schedule \/ CpuIdle \/ InitMain \/ DoExit \/ Reparent
              \/ Reap \/ WaitSleep \/ WaitNone \/ WaitReturn \/ TrapTail
              \/ AddTimerWalk \/ AddTimerLink \/ SleepReturn
              \/ ReadLoop \/ ReadReturn

HandlerStep == TimerExpire \/ TimerDone \/ SerialWake \/ SerialDone

Next == Syscall \/ KernelStep \/ HandlerStep \/ ClockInterrupt \/ SerialInterrupt
        \/ Halted

Spec == Init /\ [][Next]_vars

(* The CPU never stops: a handler goes on to its end, interrupted kernel    *)
(* code goes on between interrupts (a tick takes 2^17 instructions), and    *)
(* the clock interrupts whatever comes back to a place with interrupts on.  *)
(* User programs may compute forever and keys need not come.                *)
Fairness == /\ WF_vars(HandlerStep)
            /\ SF_vars(KernelStep)
            /\ SF_vars(ClockInterrupt)

FairSpec == Spec /\ Fairness

-----------------------------------------------------------------------------
(* Type correctness of every variable.                                      *)
TypeOK ==
    /\ state \in [Procs -> States]
    /\ wait_state \in [Procs -> {"0"} \cup Interruptible]
    /\ exiting \in [Procs -> BOOLEAN]
    /\ need_resched \in [Procs -> BOOLEAN]
    /\ time_slice \in [Procs -> 0..MAX_TIME_SLICE]
    /\ parent \in [Procs -> Procs]
    /\ nr_process \in Nat
    /\ current \in Procs
    /\ run_list \in Seq(Procs)
    /\ timer_list \in Seq([proc : Procs, expires : Nat])
    /\ timer \in [time : Nat, expires : Nat, pos : Nat]
    /\ wait_queue \in Seq(Procs)
    /\ wakeup_flags \in [Procs -> {"0", "WT_INTERRUPTED", "WT_KBD"}]
    /\ unread \in 0..STDIN_BUFSIZE
    /\ kpc \in [Procs -> Locations]
    /\ waitpid \in [Procs -> Procs]
    /\ todo \in [Procs -> 0..MaxRead]
    /\ insched \in BOOLEAN
    /\ irq \in {"none", "timer", "serial"}
    /\ halted \in {"no", "panic", "assert"}

(* No assert() of the process, scheduler and timer code can fail: no zombie *)
(* is woken, no process is queued twice, no timer is started twice or found *)
(* at zero, do_fork is not called by a waiting process, and init is alone   *)
(* when it leaves its loop.                                                 *)
NoAssertFails == halted # "assert"

(* The sequence q consists of the elements of S, each in one place.         *)
ListsOnce(q, S) ==
    /\ \A i \in 1..Len(q) : q[i] \in S
    /\ \A x \in S : \E i \in 1..Len(q) : q[i] = x
    /\ \A i, j \in 1..Len(q) : q[i] = q[j] => i = j

(* A process that can run is never lost and never runs twice: it is either  *)
(* the running one or on the run queue, in one place, and nothing else is   *)
(* queued.  Idle is never queued; every queued process has ticks left.      *)
RunQueueExact ==
    /\ ListsOnce(run_list, {p \in Procs \ {Idle, current} : state[p] = "RUNNABLE"})
    /\ \A i \in 1..Len(run_list) : time_slice[run_list[i]] # 0

(* Whoever sleeps can be woken: its wait_state says why it sleeps, and the  *)
(* structure its waker looks at (timer list, wait queue, a child) names it. *)
SleepersCanBeWoken ==
    \A p \in Procs :
        /\ state[p] = "SLEEPING" <=> wait_state[p] # "0"
        /\ wait_state[p] = "WT_TIMER" =>
              HasTimer(p) \/ (p = current /\ kpc[p] = "addtimer")
        /\ wait_state[p] = "WT_KBD" => Waiting(p)
        /\ wait_state[p] = "WT_CHILD" => Child(p) # {}

(* timer_t and wait_t live on the kernel stack of the sleeping process.  No *)
(* list keeps a pointer into a frame that has been left: a listed process   *)
(* is still inside do_sleep() or dev_stdin_read(), and is listed once.      *)
NoDanglingStackNode ==
    /\ \A i \in 1..Len(timer_list) : kpc[timer_list[i].proc] = "sleepret"
    /\ \A i, j \in 1..Len(timer_list) :
          timer_list[i].proc = timer_list[j].proc => i = j
    /\ \A i \in 1..Len(wait_queue) : kpc[wait_queue[i]] = "readret"
    /\ \A i, j \in 1..Len(wait_queue) : wait_queue[i] = wait_queue[j] => i = j

(* No lost wakeup in do_wait()/do_exit(): nobody sleeps for a child while a *)
(* child it waits for is already a zombie.                                  *)
NoLostChildWakeup ==
    \A p \in Procs : wait_state[p] = "WT_CHILD" =>
        \A c \in Awaited(p) : state[c] # "ZOMBIE"

(* No pointer to a freed or dead parent: a process hangs below a live one   *)
(* (its parent may be a zombie only until it has handed its children over), *)
(* and nr_process counts the allocated structs.                             *)
FamilyTreeSound ==
    /\ \A p \in UserProc : state[p] # "UNUSED" =>
          LET dad == parent[p]
          IN /\ dad # Idle /\ state[dad] # "UNUSED"
             /\ state[dad] = "ZOMBIE" => dad = current /\ kpc[dad] = "reparent"
    /\ nr_process = Cardinality({p \in Procs : state[p] # "UNUSED"})

(* A process that has exited never runs again, and only its parent's        *)
(* do_wait() can free it.                                                   *)
ZombieOnlyReaped ==
    [][\A p \in Procs : state[p] = "ZOMBIE" =>
          \/ state'[p] = "ZOMBIE" /\ (current' = p => current = p)
          \/ state'[p] = "UNUSED" /\ current = parent[p]]_vars

(* The delta list keeps absolute time: adding and deleting other timers     *)
(* never changes when a pending timer expires, each tick brings it exactly  *)
(* one tick closer, and it goes away only when it is due or its owner runs. *)
(* A new timer expires after the time do_sleep() was called with.           *)
Left(p) == LET i == CHOOSE i \in 1..Len(timer_list) : timer_list[i].proc = p
           IN MapThenSumSet(LAMBDA j : timer_list[j].expires, 1..i)

TimersKeepTime ==
    [][\A p \in Procs :
          CASE HasTimer(p) /\ HasTimer(p)' ->
                 Left(p)' = IF irq = "none" /\ irq' = "timer" THEN Left(p) - 1 ELSE Left(p)
            [] HasTimer(p) /\ ~HasTimer(p)' -> Left(p) = 0 \/ current = p
            [] ~HasTimer(p) /\ HasTimer(p)' -> Left(p)' = timer.time
            [] OTHER -> TRUE]_vars

(* Round robin is starvation free: a runnable process gets the CPU.         *)
NoStarvation ==
    \A p \in Procs \ {Idle} :
        state[p] = "RUNNABLE" ~> (current = p \/ halted # "no")

(* A sleeping process is woken by its timer (or a kill), idle or busy CPU.  *)
SleepEnds ==
    \A p \in UserProc :
        wait_state[p] = "WT_TIMER" ~> (wait_state[p] = "0" \/ halted # "no")

(* init frees every zombie that is, or becomes, its child.                  *)
OrphansReaped ==
    \A p \in UserProc :
        (state[p] = "ZOMBIE" /\ parent[p] = Init0)
            ~> (state[p] = "UNUSED" \/ halted # "no")

(* What a successful kill() promises its caller, who may then wait for the  *)
(* process (user/spin.c): the process dies.  It does not hold.              *)
KilledDies ==
    \A p \in UserProc :
        exiting[p] ~> (state[p] \in {"ZOMBIE", "UNUSED"} \/ halted # "no")
=============================================================================
