---------------------------- MODULE ProcInvariant ----------------------------
(* The inductive invariant of Proc, and the proofs that waking a process,   *)
(* moving on in the kernel and handling an interrupt preserve it.           *)
EXTENDS Proc, FiniteSetTheorems, SequenceTheorems, TLAPS

(* Where the processes may be in the kernel, and in which state.            *)
Control ==
    /\ kpc[Idle] = "idle" /\ state[Idle] = "RUNNABLE"
    /\ kpc[Init0] \in {"initmain", "wait", "waitret", "exit"}
    /\ state[Init0] \in {"RUNNABLE", "SLEEPING"} /\ waitpid[Init0] = Idle
    /\ \A p \in UserProc : kpc[p] \notin {"idle", "initmain"}
    /\ \A p \in Procs : waitpid[p] \in UserProc \cup {Idle}
    /\ \A p \in Procs : /\ state[p] \in {"UNUSED", "ZOMBIE"} <=> kpc[p] \in {"dead", "reparent"}
                        /\ kpc[p] = "reparent" => state[p] = "ZOMBIE" /\ p = current /\ ~insched
                        /\ kpc[p] = "addtimer" => state[p] = "SLEEPING" /\ p = current /\ ~insched
    /\ state[current] # "UNUSED"
    /\ ~insched => \/ state[current] = "RUNNABLE"
                   \/ kpc[current] \in {"reparent", "addtimer"}
    /\ irq # "none" => \/ current \in {Idle, Init0}
                       \/ kpc[current] = "user" /\ ~insched

(* The first timer is always in the future, except while expired timers are *)
(* being collected; add_timer() stays inside the list.                      *)
TimerControl ==
    /\ irq # "timer" /\ timer_list # <<>> => timer_list[1].expires # 0
    /\ kpc[current] = "addtimer" =>
          timer.pos <= Len(timer_list) /\ (timer.pos = 0 => timer.expires # 0)

(* The parent links of the user processes contain no cycle.                 *)
Forest ==
    \A S \in SUBSET UserProc :
        S # {} /\ (\A p \in S : state[p] # "UNUSED") => \E p \in S : parent[p] \notin S

Inv == /\ TypeOK /\ RunQueueExact /\ SleepersCanBeWoken /\ NoDanglingStackNode
       /\ NoLostChildWakeup /\ FamilyTreeSound /\ NoAssertFails
       /\ Control /\ TimerControl /\ Forest

-----------------------------------------------------------------------------
(* RR_enqueue of a process that is not queued.                              *)
LEMMA ListsOnceAppend ==
    ASSUME NEW T, NEW q \in Seq(T), NEW S, NEW x \in T, x \notin S, ListsOnce(q, S)
    PROVE  Append(q, x) \in Seq(T) /\ ListsOnce(Append(q, x), S \cup {x})
  BY DEF ListsOnce

LEMMA AppendElements ==
    ASSUME NEW T, NEW q \in Seq(T), NEW x \in T, NEW i \in 1..Len(Append(q, x))
    PROVE  Append(q, x)[i] = x \/ \E j \in 1..Len(q) : Append(q, x)[i] = q[j]
  OBVIOUS

(* The positions of a list that is not empty.                               *)
LEMMA NonEmptySeq ==
    ASSUME NEW T, NEW q \in Seq(T), q # <<>>
    PROVE  Len(q) \in Nat /\ 1 \in 1..Len(q) /\ DOMAIN q = 1..Len(q)
  OBVIOUS

(* list_del of the first node.                                              *)
LEMMA TailOfSeq ==
    ASSUME NEW T, NEW q \in Seq(T), q # <<>>
    PROVE  /\ Tail(q) \in Seq(T) /\ Len(Tail(q)) = Len(q) - 1
           /\ \A i \in 1..Len(Tail(q)) : Tail(q)[i] = q[i + 1]
  OBVIOUS

(* RR_pick_next and RR_dequeue of the first process.                        *)
LEMMA ListsOnceTail ==
    ASSUME NEW T, NEW q \in Seq(T), NEW S, q # <<>>, ListsOnce(q, S)
    PROVE  /\ Head(q) \in S /\ Head(q) \in T /\ Tail(q) \in Seq(T)
           /\ ListsOnce(Tail(q), S \ {Head(q)})
  <1>1. /\ Len(q) \in Nat /\ 1 \in 1..Len(q) /\ Head(q) = q[1] /\ Tail(q) \in Seq(T)
        /\ Len(Tail(q)) = Len(q) - 1
        /\ \A i \in 1..(Len(q) - 1) : Tail(q)[i] = q[i + 1]
    OBVIOUS
  <1>2. Head(q) \in S /\ Head(q) \in T
    BY <1>1 DEF ListsOnce
  <1>3. \A i \in 1..Len(Tail(q)) : i + 1 \in 1..Len(q) /\ i + 1 # 1 /\ Tail(q)[i] = q[i + 1]
    BY <1>1
  <1>4. \A i \in 1..Len(Tail(q)) : Tail(q)[i] \in S \ {Head(q)}
    BY <1>1, <1>3 DEF ListsOnce
  <1>5. ASSUME NEW x \in S \ {Head(q)} PROVE \E i \in 1..Len(Tail(q)) : Tail(q)[i] = x
    <2>1. PICK j \in 1..Len(q) : q[j] = x
      BY DEF ListsOnce
    <2>2. j - 1 \in 1..Len(Tail(q)) /\ (j - 1) + 1 = j
      BY <1>1, <2>1
    <2> QED
      BY <1>3, <2>1, <2>2
  <1>6. ASSUME NEW i \in 1..Len(Tail(q)), NEW j \in 1..Len(Tail(q)), Tail(q)[i] = Tail(q)[j]
        PROVE  i = j
    <2>1. i + 1 = j + 1
      BY <1>3, <1>6 DEF ListsOnce
    <2> QED
      BY <2>1
  <1> QED
    BY <1>1, <1>2, <1>4, <1>5, <1>6 DEF ListsOnce

(* Taken together, what wakeup_proc() does to a process that is not dead.   *)
LEMMA Wakeup ==
    ASSUME Inv, NEW b \in BOOLEAN, NEW p \in Procs,
           b => state[p] \in {"RUNNABLE", "SLEEPING"},
           wakeup_proc(b, p), current' = current
    PROVE  /\ RunQueueExact'
           /\ WakeupAsserts(b, p)
           /\ run_list' \in Seq(Procs)
           /\ time_slice' \in [Procs -> 0..MAX_TIME_SLICE]
           /\ state' = IF b THEN [state EXCEPT ![p] = "RUNNABLE"] ELSE state
           /\ wait_state' = IF b THEN [wait_state EXCEPT ![p] = "0"] ELSE wait_state
  <1>0. /\ state \in [Procs -> States] /\ wait_state \in [Procs -> {"0"} \cup Interruptible]
        /\ time_slice \in [Procs -> 0..MAX_TIME_SLICE]
        /\ run_list \in Seq(Procs) /\ current \in Procs
    BY DEF Inv, TypeOK
  <1> DEFINE R == {x \in Procs \ {Idle, current} : state[x] = "RUNNABLE"}
  <1>1. state[p] = "RUNNABLE" => wait_state[p] = "0"
    BY <1>0 DEF Inv, SleepersCanBeWoken
  <1>2. /\ state' = IF b THEN [state EXCEPT ![p] = "RUNNABLE"] ELSE state
        /\ wait_state' = IF b THEN [wait_state EXCEPT ![p] = "0"] ELSE wait_state
    BY <1>0, <1>1 DEF wakeup_proc
  <1>3. ListsOnce(run_list, R)
    BY DEF Inv, RunQueueExact
  <1>4. p \notin R => ~Queued(p)
    BY <1>3 DEF ListsOnce, Queued
  <1>5. WakeupAsserts(b, p)
    BY <1>4 DEF WakeupAsserts
  <1>6. CASE b /\ state[p] # "RUNNABLE" /\ p # current /\ p # Idle
    <2>1. /\ run_list' = Append(run_list, p)
          /\ time_slice' = [time_slice EXCEPT ![p] = RefillSlice(p)]
      BY <1>6 DEF wakeup_proc, RR_enqueue
    <2>2. run_list' \in Seq(Procs) /\ ListsOnce(run_list', R \cup {p})
      BY <1>0, <1>3, <1>6, <2>1, ListsOnceAppend
    <2>3. R \cup {p} = {x \in Procs \ {Idle, current'} : state'[x] = "RUNNABLE"}
      BY <1>0, <1>2, <1>6
    <2>4. RefillSlice(p) \in 1..MAX_TIME_SLICE
      BY <1>0, ProcAssumption DEF RefillSlice
    <2>5. ASSUME NEW i \in 1..Len(run_list')
          PROVE  time_slice'[run_list'[i]] # 0
      <3>1. \A j \in 1..Len(run_list) : run_list[j] \in Procs /\ time_slice[run_list[j]] # 0
        BY <1>0 DEF Inv, RunQueueExact
      <3>2. run_list'[i] = p \/ \E j \in 1..Len(run_list) : run_list'[i] = run_list[j]
        BY <1>0, <2>1
      <3> QED
        BY <1>0, <2>1, <2>4, <3>1, <3>2
    <2>6. time_slice' \in [Procs -> 0..MAX_TIME_SLICE]
      BY <1>0, <2>1, <2>4
    <2>7. RunQueueExact'
      BY <2>2, <2>3, <2>5 DEF RunQueueExact
    <2> QED
      BY <1>2, <1>5, <2>2, <2>6, <2>7
  <1>7. CASE ~(b /\ state[p] # "RUNNABLE" /\ p # current /\ p # Idle)
    <2>1. UNCHANGED <<run_list, time_slice>>
      BY <1>7 DEF wakeup_proc
    <2>2. R = {x \in Procs \ {Idle, current'} : state'[x] = "RUNNABLE"}
      BY <1>0, <1>2, <1>7
    <2> QED
      BY <1>0, <1>2, <1>3, <1>5, <2>1, <2>2 DEF Inv, RunQueueExact
  <1> QED
    BY <1>6, <1>7

-----------------------------------------------------------------------------
(* The elements of the lists.                                               *)
LEMMA ListTypes ==
    ASSUME Inv
    PROVE  /\ \A i \in 1..Len(timer_list) : /\ timer_list[i].proc \in Procs
                                            /\ timer_list[i].expires \in Nat
           /\ \A i \in 1..Len(wait_queue) : wait_queue[i] \in Procs
           /\ \A i \in 1..Len(run_list) : run_list[i] \in Procs
  <1>1. timer_list \in Seq([proc : Procs, expires : Nat])
    BY DEF Inv, TypeOK
  <1>2. wait_queue \in Seq(Procs) /\ run_list \in Seq(Procs)
    BY DEF Inv, TypeOK
  <1>3. \A i \in 1..Len(timer_list) : timer_list[i] \in [proc : Procs, expires : Nat]
    BY <1>1, ElementOfSeq, Zenon
  <1> QED
    BY <1>2, <1>3

(* What is known about `current' when it executes at location l.            *)
LEMMA AtFacts ==
    ASSUME Inv, NEW l, At(l)
    PROVE  /\ halted = "no" /\ irq = "none" /\ insched = FALSE
           /\ kpc[current] = l /\ current \in Procs
           /\ l \notin {"reparent", "addtimer"} =>
                 state[current] = "RUNNABLE" /\ wait_state[current] = "0"
           /\ l = "addtimer" => state[current] = "SLEEPING"
           /\ l = "reparent" => state[current] = "ZOMBIE"
           /\ l = "idle" => current = Idle
           /\ l = "initmain" => current = Init0
           /\ l \notin {"idle", "initmain", "wait", "waitret", "exit"} => current \in UserProc
           /\ l # "idle" => current # Idle
  BY DEF At, Inv, TypeOK, Control, SleepersCanBeWoken, Procs

LEMMA AtUser ==
    ASSUME Inv, At("user")
    PROVE  /\ current \in UserProc /\ current # Init0 /\ current # Idle
           /\ state[current] = "RUNNABLE" /\ wait_state[current] = "0"
           /\ irq = "none" /\ insched = FALSE /\ halted = "no"
  <1> DEFINE l == "user"
  <1>1. At(l)
    OBVIOUS
  <1> HIDE DEF l
  <1>2. l \notin {"reparent", "addtimer", "idle", "initmain", "wait", "waitret", "exit"}
    BY DEF l
  <1> QED
    BY <1>1, <1>2, AtFacts, ProcAssumption

(* `current' moves on from l to m, perhaps at the end of an interrupt; no   *)
(* list, link or process state changes.                                     *)
LEMMA MoveAny ==
    ASSUME Inv, NEW l, NEW m \in Locations, kpc[current] = l, Goto(m),
           state[current] = "RUNNABLE", current # Idle,
           l \notin {"idle", "addtimer", "sleepret", "readret", "reparent"},
           m \notin {"idle", "initmain", "addtimer", "reparent", "dead"},
           current = Init0 => m \in {"wait", "waitret", "exit"},
           UNCHANGED <<state, wait_state, exiting, parent, nr_process, current, run_list,
                       timer_list, timer, wait_queue, wakeup_flags, halted>>,
           irq' = "none", timer_list # <<>> => timer_list[1].expires # 0,
           time_slice' \in [Procs -> 0..MAX_TIME_SLICE],
           \A p \in Procs \ {current} : time_slice'[p] = time_slice[p],
           need_resched' \in [Procs -> BOOLEAN], unread' \in 0..STDIN_BUFSIZE,
           todo' \in [Procs -> 0..MaxRead], insched' \in BOOLEAN,
           NEW w \in UserProc \cup {Idle}, waitpid' = [waitpid EXCEPT ![current] = w],
           current = Init0 => w = Idle
    PROVE  Inv'
  <1>0. /\ kpc \in [Procs -> Locations] /\ current \in Procs
        /\ wait_state[current] = "0" /\ run_list \in Seq(Procs)
        /\ timer_list \in Seq([proc : Procs, expires : Nat]) /\ wait_queue \in Seq(Procs)
        /\ waitpid \in [Procs -> Procs]
    BY DEF Inv, TypeOK, SleepersCanBeWoken
  <1>1. RunQueueExact'
    <2>1. RunQueueExact
      BY DEF Inv
    <2>2. \A i \in 1..Len(run_list) : run_list[i] \in Procs \ {current}
      BY <2>1 DEF RunQueueExact, ListsOnce
    <2>3. \A i \in 1..Len(run_list) : time_slice'[run_list[i]] # 0
      BY <2>1, <2>2 DEF RunQueueExact
    <2> QED
      BY <2>1, <2>3 DEF RunQueueExact
  <1>2. SleepersCanBeWoken'
    <2>1. SleepersCanBeWoken
      BY DEF Inv
    <2>2. \A p \in Procs : HasTimer(p)' = HasTimer(p) /\ Waiting(p)' = Waiting(p)
                            /\ Child(p)' = Child(p)
      BY DEF HasTimer, Waiting, Child
    <2> QED
      BY <1>0, <2>1, <2>2 DEF SleepersCanBeWoken, Goto
  <1>3. NoDanglingStackNode'
    <2>1. NoDanglingStackNode
      BY DEF Inv
    <2>2. \A p \in Procs : kpc[p] \in {"sleepret", "readret"} => kpc'[p] = kpc[p]
      BY <1>0 DEF Goto
    <2>3. /\ \A i \in 1..Len(timer_list) : timer_list[i].proc \in Procs
          /\ \A i \in 1..Len(wait_queue) : wait_queue[i] \in Procs
      BY ListTypes
    <2> QED
      BY <2>1, <2>2, <2>3 DEF NoDanglingStackNode
  <1>4. NoLostChildWakeup'
    BY <1>0 DEF Inv, NoLostChildWakeup, Awaited, Child
  <1>5. FamilyTreeSound'
    BY <1>0 DEF Inv, FamilyTreeSound, Goto, Procs
  <1>6. Control'
    <2>1. /\ kpc' \in [Procs -> Locations] /\ kpc'[current] = m
          /\ \A p \in Procs \ {current} : kpc'[p] = kpc[p]
      BY <1>0 DEF Goto
    <2>2. Control
      BY DEF Inv
    <2>3. \A p \in Procs :
             /\ state'[p] \in {"UNUSED", "ZOMBIE"} <=> kpc'[p] \in {"dead", "reparent"}
             /\ kpc'[p] \notin {"reparent", "addtimer"}
      BY <1>0, <2>1, <2>2 DEF Control
    <2> QED
      BY <1>0, <2>1, <2>2, <2>3 DEF Control, Procs
  <1>7. TimerControl'
    BY <1>0 DEF Inv, TimerControl, Goto
  <1>8. Forest'
    BY DEF Inv, Forest
  <1>9. TypeOK'
    <2>1. kpc' \in [Procs -> Locations] /\ waitpid' \in [Procs -> Procs]
      BY <1>0 DEF Goto, Procs
    <2> QED
      BY <2>1 DEF Inv, TypeOK
  <1> QED
    BY <1>1, <1>2, <1>3, <1>4, <1>5, <1>6, <1>7, <1>8, <1>9 DEF Inv, NoAssertFails

(* The same in a system call or in a kernel thread, with interrupts masked. *)
LEMMA Move ==
    ASSUME Inv, NEW l, NEW m \in Locations, At(l), Goto(m),
           l \notin {"idle", "addtimer", "sleepret", "readret", "reparent"},
           m \notin {"idle", "initmain", "addtimer", "reparent", "dead"},
           current = Init0 => m \in {"wait", "waitret", "exit"},
           UNCHANGED <<state, wait_state, exiting, time_slice, parent, nr_process, current,
                       run_list, timer_list, timer, wait_queue, wakeup_flags, irq, halted>>,
           need_resched' \in [Procs -> BOOLEAN], unread' \in 0..STDIN_BUFSIZE,
           todo' \in [Procs -> 0..MaxRead], insched' \in BOOLEAN,
           NEW w \in UserProc \cup {Idle}, waitpid' = [waitpid EXCEPT ![current] = w],
           current = Init0 => w = Idle
    PROVE  Inv'
  <1>1. /\ kpc[current] = l /\ state[current] = "RUNNABLE" /\ current # Idle
        /\ irq' = "none"
    BY AtFacts
  <1>2. /\ timer_list # <<>> => timer_list[1].expires # 0
        /\ time_slice' \in [Procs -> 0..MAX_TIME_SLICE]
    BY <1>1 DEF Inv, TypeOK, TimerControl
  <1> QED
    BY <1>1, <1>2, MoveAny

(* Nobody moves: idle calls schedule(), or an interrupt begins or ends in a *)
(* kernel thread.                                                           *)
LEMMA Stay ==
    ASSUME Inv,
           UNCHANGED <<state, wait_state, exiting, parent, nr_process, current, run_list,
                       timer_list, timer, wait_queue, wakeup_flags, kpc, waitpid, todo,
                       halted>>,
           time_slice' \in [Procs -> 0..MAX_TIME_SLICE],
           \A p \in Procs \ {current} : time_slice'[p] = time_slice[p],
           need_resched' \in [Procs -> BOOLEAN], unread' \in 0..STDIN_BUFSIZE,
           insched' \in BOOLEAN, insched' = insched \/ current = Idle,
           irq' \in {"none", "serial"},
           irq' # "none" => current \in {Idle, Init0} \/ (kpc[current] = "user" /\ ~insched'),
           irq = "timer" /\ timer_list # <<>> => timer_list[1].expires # 0
    PROVE  Inv'
  <1>0. current \in Procs /\ run_list \in Seq(Procs)
    BY DEF Inv, TypeOK
  <1>1. TypeOK'
    BY DEF Inv, TypeOK
  <1>2. RunQueueExact'
    BY <1>0 DEF Inv, RunQueueExact, ListsOnce
  <1>3. SleepersCanBeWoken' /\ NoDanglingStackNode'
    BY DEF Inv, SleepersCanBeWoken, NoDanglingStackNode, HasTimer, Waiting, Child
  <1>4. NoLostChildWakeup' /\ FamilyTreeSound'
    BY DEF Inv, NoLostChildWakeup, FamilyTreeSound, Awaited, Child
  <1>5. Control'
    BY <1>0 DEF Inv, Control
  <1>6. TimerControl' /\ Forest' /\ NoAssertFails'
    BY DEF Inv, TimerControl, Forest, NoAssertFails
  <1> QED
    BY <1>1, <1>2, <1>3, <1>4, <1>5, <1>6 DEF Inv

(* The typing facts the moves below need.                                   *)
LEMMA MoveTypes ==
    ASSUME Inv
    PROVE  /\ waitpid \in [Procs -> UserProc \cup {Idle}] /\ waitpid[Init0] = Idle
           /\ current \in Procs
           /\ need_resched \in [Procs -> BOOLEAN] /\ unread \in 0..STDIN_BUFSIZE
           /\ todo \in [Procs -> 0..MaxRead] /\ insched \in BOOLEAN
           /\ waitpid = [waitpid EXCEPT ![current] = waitpid[current]]
  BY DEF Inv, TypeOK, Control

LEMMA SysOtherInv == Inv /\ SysOther => Inv'
  <1> SUFFICES ASSUME Inv, SysOther PROVE Inv'
    OBVIOUS
  <1>1. At("user") /\ Goto("tail") /\ current # Init0
    BY AtUser DEF SysOther
  <1> QED
    BY <1>1, Move, MoveTypes DEF SysOther, procVars, treeVars, schedVars, timerVars, stdinVars, argVars,
       Locations

LEMMA SysExitInv == Inv /\ SysExit => Inv'
  <1> SUFFICES ASSUME Inv, SysExit PROVE Inv'
    OBVIOUS
  <1>1. At("user") /\ Goto("exit") /\ current # Init0
    BY AtUser DEF SysExit
  <1> QED
    BY <1>1, Move, MoveTypes DEF SysExit, procVars, treeVars, schedVars, timerVars, stdinVars, argVars,
       Locations

LEMMA SysYieldInv == Inv /\ SysYield => Inv'
  <1> SUFFICES ASSUME Inv, SysYield PROVE Inv'
    OBVIOUS
  <1>1. At("user") /\ Goto("tail") /\ current # Init0
    BY AtUser DEF SysYield
  <1>2. need_resched' \in [Procs -> BOOLEAN]
    BY MoveTypes DEF SysYield
  <1> QED
    BY <1>1, <1>2, Move, MoveTypes DEF SysYield, procVars, treeVars, schedVars, timerVars, stdinVars, argVars,
       Locations

LEMMA SysWaitInv == Inv /\ SysWait => Inv'
  <1> SUFFICES ASSUME Inv, SysWait PROVE Inv'
    OBVIOUS
  <1>1. At("user") /\ Goto("wait") /\ current # Init0
    BY AtUser DEF SysWait
  <1>2. PICK p \in UserProc \cup {Idle} : waitpid' = [waitpid EXCEPT ![current] = p]
    BY DEF SysWait
  <1> QED
    BY <1>1, <1>2, Move, MoveTypes DEF SysWait, procVars, treeVars, schedVars, timerVars, stdinVars, argVars,
       Locations

LEMMA SysReadInv == Inv /\ SysRead => Inv'
  <1> SUFFICES ASSUME Inv, SysRead PROVE Inv'
    OBVIOUS
  <1>1. At("user") /\ Goto("read") /\ current # Init0
    BY AtUser DEF SysRead
  <1>2. todo' \in [Procs -> 0..MaxRead]
    BY MoveTypes DEF SysRead
  <1> QED
    BY <1>1, <1>2, Move, MoveTypes DEF SysRead, procVars, treeVars, schedVars, timerVars, stdinVars, argVars,
       Locations

LEMMA TrapTailInv == Inv /\ TrapTail => Inv'
  <1> SUFFICES ASSUME Inv, TrapTail PROVE Inv'
    OBVIOUS
  <1>1. At("tail") /\ current # Init0
    BY AtFacts, ProcAssumption DEF TrapTail
  <1>2. insched' \in BOOLEAN
    BY MoveTypes DEF TrapTail
  <1>3. CASE exiting[current]
    BY <1>1, <1>2, <1>3, Move, MoveTypes DEF TrapTail, procVars, treeVars, schedVars, timerVars, stdinVars, argVars,
       Locations
  <1>4. CASE ~exiting[current]
    BY <1>1, <1>2, <1>4, Move, MoveTypes DEF TrapTail, procVars, treeVars, schedVars, timerVars, stdinVars, argVars,
       Locations
  <1> QED
    BY <1>3, <1>4

LEMMA WaitReturnInv == Inv /\ WaitReturn => Inv'
  <1> SUFFICES ASSUME Inv, WaitReturn PROVE Inv'
    OBVIOUS
  <1>1. At("waitret")
    BY DEF WaitReturn
  <1>3. CASE exiting[current]
    BY <1>1, <1>3, Move, MoveTypes DEF WaitReturn, procVars, treeVars, schedVars, timerVars, stdinVars, argVars,
       Locations
  <1>4. CASE ~exiting[current]
    BY <1>1, <1>4, Move, MoveTypes DEF WaitReturn, procVars, treeVars, schedVars, timerVars, stdinVars, argVars,
       Locations
  <1> QED
    BY <1>3, <1>4

LEMMA CpuIdleInv == Inv /\ CpuIdle => Inv'
  <1> SUFFICES ASSUME Inv, CpuIdle PROVE Inv'
    OBVIOUS
  <1>1. current = Idle /\ irq = "none"
    BY AtFacts DEF CpuIdle
  <1>2. /\ time_slice \in [Procs -> 0..MAX_TIME_SLICE]
        /\ need_resched \in [Procs -> BOOLEAN] /\ unread \in 0..STDIN_BUFSIZE
    BY DEF Inv, TypeOK
  <1> QED
    BY <1>1, <1>2, Stay DEF CpuIdle, procVars, treeVars, schedVars, timerVars, stdinVars, argVars

(* Where an interrupt can have come from.                                   *)
LEMMA IrqFacts ==
    ASSUME Inv, (halted = "no" /\ irq # "none") \/ InterruptsOn
    PROVE  /\ current \in {Idle, Init0}
              \/ (/\ kpc[current] = "user" /\ insched = FALSE
                  /\ state[current] = "RUNNABLE" /\ current \in UserProc
                  /\ current # Init0 /\ current # Idle)
           /\ kpc[current] # "addtimer"
  BY ProcAssumption DEF Inv, TypeOK, Control, InterruptsOn, Procs

LEMMA TimerDoneInv == Inv /\ TimerDone => Inv'
  <1> SUFFICES ASSUME Inv, TimerDone PROVE Inv'
    OBVIOUS
  <1>0. /\ time_slice \in [Procs -> 0..MAX_TIME_SLICE] /\ current \in Procs
        /\ need_resched \in [Procs -> BOOLEAN] /\ unread \in 0..STDIN_BUFSIZE
        /\ insched \in BOOLEAN
    BY DEF Inv, TypeOK
  <1>1. /\ halted = "no" /\ irq = "timer" /\ irq' = "none" /\ insched' = insched
        /\ timer_list # <<>> => timer_list[1].expires # 0
    BY DEF TimerDone, IrqReturn
  <1>2. need_resched' \in [Procs -> BOOLEAN]
    BY <1>0 DEF TimerDone
  <1>3. TicksLeft(current) \in 0..MAX_TIME_SLICE
    BY <1>0, ProcAssumption DEF TicksLeft
  <1>4. time_slice' = time_slice \/ time_slice' = [time_slice EXCEPT ![current] = TicksLeft(current)]
    BY DEF TimerDone
  <1>5. /\ time_slice' \in [Procs -> 0..MAX_TIME_SLICE]
        /\ \A p \in Procs \ {current} : time_slice'[p] = time_slice[p]
    BY <1>0, <1>3, <1>4
  <1>6. CASE current \in {Idle, Init0}
    BY <1>0, <1>1, <1>2, <1>5, <1>6, Stay DEF TimerDone, IrqReturn, treeVars, schedVars,
       timerVars, stdinVars, argVars
  <1>7. CASE current \notin {Idle, Init0}
    <2>1. /\ kpc[current] = "user" /\ state[current] = "RUNNABLE" /\ current # Idle
          /\ current # Init0
      BY <1>1, <1>7, IrqFacts
    <2>2. Goto("tail")
      BY <1>7 DEF TimerDone, IrqReturn
    <2> QED
      BY <1>0, <1>1, <1>2, <1>5, <2>1, <2>2, MoveAny, MoveTypes DEF TimerDone, treeVars,
         schedVars, timerVars, stdinVars, argVars, Locations
  <1> QED
    BY <1>6, <1>7

LEMMA SerialDoneInv == Inv /\ SerialDone => Inv'
  <1> SUFFICES ASSUME Inv, SerialDone PROVE Inv'
    OBVIOUS
  <1>0. time_slice \in [Procs -> 0..MAX_TIME_SLICE] /\ insched \in BOOLEAN
    BY DEF Inv, TypeOK
  <1>1. /\ halted = "no" /\ irq = "serial" /\ irq' = "none" /\ insched' = insched
        /\ timer_list # <<>> => timer_list[1].expires # 0
    BY DEF SerialDone, IrqReturn, Inv, TimerControl
  <1>6. CASE current \in {Idle, Init0}
    BY <1>0, <1>1, <1>6, Stay, MoveTypes DEF SerialDone, IrqReturn, procVars, treeVars,
       schedVars, timerVars, stdinVars, argVars
  <1>7. CASE current \notin {Idle, Init0}
    <2>1. /\ kpc[current] = "user" /\ state[current] = "RUNNABLE" /\ current # Idle
          /\ current # Init0
      BY <1>1, <1>7, IrqFacts
    <2>2. Goto("tail")
      BY <1>7 DEF SerialDone, IrqReturn
    <2> QED
      BY <1>0, <1>1, <2>1, <2>2, MoveAny, MoveTypes DEF SerialDone, procVars, treeVars,
         schedVars, timerVars, stdinVars, argVars, Locations
  <1> QED
    BY <1>6, <1>7

LEMMA SerialInterruptInv == Inv /\ SerialInterrupt => Inv'
  <1> SUFFICES ASSUME Inv, SerialInterrupt PROVE Inv'
    OBVIOUS
  <1>1. (halted = "no" /\ irq # "none") \/ InterruptsOn
    BY DEF SerialInterrupt
  <1>2. current \in {Idle, Init0} \/ (kpc[current] = "user" /\ insched = FALSE)
    BY <1>1, IrqFacts
  <1>3. unread' \in 0..STDIN_BUFSIZE
    BY MoveTypes, ProcAssumption DEF SerialInterrupt, Store
  <1>4. irq \in {"none", "serial"} /\ irq' = "serial"
    BY DEF SerialInterrupt, InterruptsOn
  <1>5. time_slice \in [Procs -> 0..MAX_TIME_SLICE] /\ insched \in BOOLEAN
    BY DEF Inv, TypeOK
  <1> QED
    BY <1>2, <1>3, <1>4, <1>5, Stay, MoveTypes DEF SerialInterrupt, procVars, treeVars,
       schedVars, timerVars, stdinVars, argVars

(* The entries of a timer list, and a list built from entries.              *)
LEMMA TimerSeq ==
    ASSUME NEW n \in Nat, NEW f, DOMAIN f = 1..n, f = [i \in 1..n |-> f[i]],
           \A i \in 1..n : f[i] \in [proc : Procs, expires : Nat]
    PROVE  f \in Seq([proc : Procs, expires : Nat]) /\ Len(f) = n
  <1> DEFINE T == [proc : Procs, expires : Nat]
  <1>1. \A i \in 1..n : f[i] \in T
    OBVIOUS
  <1> HIDE DEF T
  <1>2. f \in [1..n -> T]
    BY <1>1
  <1>3. f \in Seq(T) /\ Len(f) = n
    BY <1>2
  <1> QED
    BY <1>3 DEF T

(* run_timer_list() counts down the first timer and nothing else.           *)
LEMMA CountDownFacts ==
    ASSUME Inv, timer_list # <<>> => timer_list[1].expires # 0
    PROVE  /\ CountDown \in Seq([proc : Procs, expires : Nat])
           /\ Len(CountDown) = Len(timer_list)
           /\ \A i \in 1..Len(timer_list) : CountDown[i].proc = timer_list[i].proc
  <1>0. timer_list \in Seq([proc : Procs, expires : Nat])
    BY DEF Inv, TypeOK
  <1>1. CASE timer_list = <<>>
    BY <1>0, <1>1 DEF CountDown
  <1>2. CASE timer_list # <<>>
    <2> DEFINE n == Len(timer_list)
               e == timer_list[1]
    <2>1. n \in Nat /\ 1 \in 1..n /\ DOMAIN timer_list = 1..n
      BY <1>0, <1>2, NonEmptySeq, Zenon
    <2>2. \A i \in 1..n : timer_list[i] \in [proc : Procs, expires : Nat]
      BY <1>0, ElementOfSeq, Zenon
    <2>3. e \in [proc : Procs, expires : Nat] /\ e.expires # 0
      BY <1>2, <2>1, <2>2
    <2>4. [e EXCEPT !.expires = @ - 1] \in [proc : Procs, expires : Nat]
          /\ [e EXCEPT !.expires = @ - 1].proc = e.proc
      BY <2>3
    <2>5. CountDown = [timer_list EXCEPT ![1] = [e EXCEPT !.expires = @ - 1]]
      BY <1>2 DEF CountDown
    <2>6. /\ DOMAIN CountDown = 1..n /\ CountDown = [i \in 1..n |-> CountDown[i]]
          /\ CountDown[1] = [e EXCEPT !.expires = @ - 1]
          /\ \A i \in 2..n : CountDown[i] = timer_list[i]
      <3> DEFINE f == [e EXCEPT !.expires = @ - 1]
      <3>1. CountDown = [timer_list EXCEPT ![1] = f]
        BY <2>5
      <3>2. n \in Nat /\ 1 \in 1..n /\ DOMAIN timer_list = 1..n
        BY <2>1
      <3> HIDE DEF f, e, n
      <3>3. CountDown = [i \in 1..n |-> IF i = 1 THEN f ELSE timer_list[i]]
        BY <3>1, <3>2
      <3>4. /\ DOMAIN CountDown = 1..n /\ CountDown = [i \in 1..n |-> CountDown[i]]
            /\ CountDown[1] = f /\ \A i \in 2..n : CountDown[i] = timer_list[i]
        BY <3>2, <3>3
      <3> QED
        BY <3>4 DEF f
    <2>7. \A i \in 1..n : /\ CountDown[i] \in [proc : Procs, expires : Nat]
                          /\ CountDown[i].proc = timer_list[i].proc
      <3> SUFFICES ASSUME NEW i \in 1..n
                   PROVE  /\ CountDown[i] \in [proc : Procs, expires : Nat]
                          /\ CountDown[i].proc = timer_list[i].proc
        OBVIOUS
      <3>1. CASE i = 1
        BY <2>4, <2>6, <3>1
      <3>2. CASE i # 1
        <4>1. i \in 2..n
          BY <2>1, <3>2
        <4>2. CountDown[i] = timer_list[i] /\ timer_list[i] \in [proc : Procs, expires : Nat]
          BY <2>2, <2>6, <4>1
        <4> QED
          BY <4>2
      <3> QED
        BY <3>1, <3>2
    <2> QED
      BY <2>1, <2>6, <2>7, TimerSeq
  <1> QED
    BY <1>1, <1>2

LEMMA ClockInterruptInv == Inv /\ ClockInterrupt => Inv'
  <1> SUFFICES ASSUME Inv, ClockInterrupt PROVE Inv'
    OBVIOUS
  <1>0. /\ irq = "none" /\ halted = "no" /\ irq' = "timer" /\ timer_list' = CountDown
        /\ UNCHANGED <<timer, state, wait_state, exiting, time_slice, parent, nr_process,
                       current, run_list, wait_queue, wakeup_flags, unread, waitpid, todo,
                       kpc, insched>>
    BY DEF ClockInterrupt, InterruptsOn, treeVars, schedVars, stdinVars, argVars
  <1>1. timer_list # <<>> => timer_list[1].expires # 0
    BY <1>0 DEF Inv, TimerControl
  <1>2. halted' = "no"
    BY <1>0, <1>1 DEF ClockInterrupt, KAssert
  <1>3. /\ timer_list' \in Seq([proc : Procs, expires : Nat])
        /\ Len(timer_list') = Len(timer_list)
        /\ \A i \in 1..Len(timer_list) : timer_list'[i].proc = timer_list[i].proc
    BY <1>0, <1>1, CountDownFacts
  <1>4. /\ kpc[current] # "addtimer"
        /\ current \in {Idle, Init0} \/ (kpc[current] = "user" /\ insched = FALSE)
    BY IrqFacts DEF ClockInterrupt
  <1>5. TypeOK'
    <2>1. need_resched' \in [Procs -> BOOLEAN]
      BY MoveTypes DEF ClockInterrupt
    <2> QED
      BY <1>0, <1>2, <1>3, <2>1 DEF Inv, TypeOK
  <1>6. RunQueueExact'
    BY <1>0 DEF Inv, RunQueueExact
  <1>7. SleepersCanBeWoken'
    <2>1. \A p \in Procs : HasTimer(p)' = HasTimer(p) /\ Waiting(p)' = Waiting(p)
                            /\ Child(p)' = Child(p)
      BY <1>0, <1>3 DEF HasTimer, Waiting, Child
    <2> QED
      BY <1>0, <2>1 DEF Inv, SleepersCanBeWoken
  <1>8. NoDanglingStackNode'
    BY <1>0, <1>3 DEF Inv, NoDanglingStackNode
  <1>9. NoLostChildWakeup' /\ FamilyTreeSound' /\ Forest'
    BY <1>0 DEF Inv, NoLostChildWakeup, FamilyTreeSound, Forest, Awaited, Child
  <1>10. Control' /\ TimerControl' /\ NoAssertFails'
    BY <1>0, <1>2, <1>4 DEF Inv, Control, TimerControl, NoAssertFails
  <1> QED
    BY <1>5, <1>6, <1>7, <1>8, <1>9, <1>10 DEF Inv

LEMMA HaltedInv == Inv /\ UNCHANGED vars => Inv'
  <1> SUFFICES ASSUME Inv, UNCHANGED vars PROVE Inv'
    OBVIOUS
  <1> USE DEF vars, procVars, treeVars, schedVars, timerVars, stdinVars, argVars, ctlVars
  <1>1. TypeOK' /\ RunQueueExact'
    BY DEF Inv, TypeOK, RunQueueExact
  <1>2. SleepersCanBeWoken' /\ NoDanglingStackNode'
    <2>1. SleepersCanBeWoken /\ NoDanglingStackNode
      BY DEF Inv
    <2>2. \A x \in Procs : HasTimer(x)' = HasTimer(x) /\ Waiting(x)' = Waiting(x)
                           /\ Child(x)' = Child(x)
      BY DEF HasTimer, Waiting, Child
    <2>3. SleepersCanBeWoken'
      BY <2>1, <2>2 DEF SleepersCanBeWoken
    <2>4. NoDanglingStackNode'
      BY <2>1 DEF NoDanglingStackNode
    <2> QED
      BY <2>3, <2>4
  <1>3. NoLostChildWakeup' /\ FamilyTreeSound' /\ NoAssertFails'
    BY DEF Inv, NoLostChildWakeup, FamilyTreeSound, NoAssertFails, Awaited, Child
  <1>4. Control' /\ TimerControl' /\ Forest'
    BY DEF Inv, Control, TimerControl, Forest
  <1> QED
    BY <1>1, <1>2, <1>3, <1>4 DEF Inv

-----------------------------------------------------------------------------
(* Waking p disturbs nobody else, wherever wakeup_proc() is called from.    *)
LEMMA WakeRest ==
    ASSUME Inv, NEW b \in BOOLEAN, NEW p \in Procs,
           b => state[p] \in {"RUNNABLE", "SLEEPING"} /\ kpc[p] # "addtimer",
           state' = IF b THEN [state EXCEPT ![p] = "RUNNABLE"] ELSE state,
           wait_state' = IF b THEN [wait_state EXCEPT ![p] = "0"] ELSE wait_state,
           UNCHANGED <<parent, nr_process, current, waitpid, insched, irq>>,
           kpc' = kpc \/ (kpc[current] = "user" /\ irq = "none" /\ Goto("tail")),
           \A x \in Procs : (b => x # p) =>
               (HasTimer(x) => HasTimer(x)') /\ (Waiting(x) => Waiting(x)')
    PROVE  /\ SleepersCanBeWoken' /\ NoLostChildWakeup' /\ FamilyTreeSound'
           /\ Control' /\ Forest'
           /\ state' \in [Procs -> States]
           /\ wait_state' \in [Procs -> {"0"} \cup Interruptible]
           /\ kpc' \in [Procs -> Locations]
           /\ \A x \in Procs : kpc[x] # "user" => kpc'[x] = kpc[x]
  <1>0. /\ state \in [Procs -> States] /\ wait_state \in [Procs -> {"0"} \cup Interruptible]
        /\ kpc \in [Procs -> Locations] /\ current \in Procs
    BY DEF Inv, TypeOK
  <1>1. /\ state' \in [Procs -> States] /\ wait_state' \in [Procs -> {"0"} \cup Interruptible]
        /\ \A x \in Procs : /\ state'[x] = IF b /\ x = p THEN "RUNNABLE" ELSE state[x]
                            /\ wait_state'[x] = IF b /\ x = p THEN "0" ELSE wait_state[x]
    BY <1>0 DEF States
  <1>2. \A x \in Procs : /\ state'[x] = "UNUSED" <=> state[x] = "UNUSED"
                         /\ state'[x] = "ZOMBIE" <=> state[x] = "ZOMBIE"
    BY <1>0, <1>1
  <1>3. \A x \in Procs : Child(x)' = Child(x)
    BY <1>2 DEF Child
  <1>4. /\ kpc' \in [Procs -> Locations]
        /\ \A x \in Procs : \/ kpc'[x] = kpc[x]
                            \/ x = current /\ kpc[x] = "user" /\ kpc'[x] = "tail" /\ irq = "none"
    BY <1>0 DEF Goto, Locations
  <1>5. SleepersCanBeWoken'
    BY <1>0, <1>1, <1>3, <1>4 DEF Inv, SleepersCanBeWoken
  <1>6. NoLostChildWakeup'
    <2>1. \A x \in Procs : Awaited(x)' = Awaited(x) /\ Awaited(x) \subseteq Procs
      BY <1>3 DEF Awaited, Child
    <2>2. NoLostChildWakeup
      BY DEF Inv
    <2>3. \A x \in Procs : wait_state'[x] = "WT_CHILD" => wait_state[x] = "WT_CHILD"
      BY <1>1
    <2> QED
      BY <1>2, <2>1, <2>2, <2>3 DEF NoLostChildWakeup
  <1>7. FamilyTreeSound'
    <2>1. {x \in Procs : state'[x] # "UNUSED"} = {x \in Procs : state[x] # "UNUSED"}
      BY <1>2
    <2>2. parent \in [Procs -> Procs]
      BY DEF Inv, TypeOK
    <2>3. \A x \in Procs : kpc[x] = "reparent" => kpc'[x] = "reparent"
      BY <1>4
    <2>4. FamilyTreeSound
      BY DEF Inv
    <2>5. ASSUME NEW x \in UserProc, state'[x] # "UNUSED"
          PROVE  LET dad == parent[x]
                 IN /\ dad # Idle /\ state'[dad] # "UNUSED"
                    /\ state'[dad] = "ZOMBIE" => dad = current /\ kpc'[dad] = "reparent"
      <3>1. x \in Procs /\ state[x] # "UNUSED" /\ parent[x] \in Procs
        BY <1>2, <2>2, <2>5 DEF Procs
      <3>2. /\ parent[x] # Idle /\ state[parent[x]] # "UNUSED"
            /\ state[parent[x]] = "ZOMBIE" => parent[x] = current /\ kpc[parent[x]] = "reparent"
        BY <2>4, <3>1 DEF FamilyTreeSound
      <3> QED
        BY <1>2, <2>3, <3>1, <3>2
    <2> QED
      BY <2>1, <2>4, <2>5 DEF FamilyTreeSound
  <1>8. Forest'
    BY <1>2 DEF Inv, Forest, Procs
  <1>9. Control'
    <2>1. Control
      BY DEF Inv
    <2>2. \A x \in Procs :
             /\ state'[x] \in {"UNUSED", "ZOMBIE"} <=> kpc'[x] \in {"dead", "reparent"}
             /\ kpc'[x] = "reparent" => state'[x] = "ZOMBIE" /\ x = current' /\ ~insched'
             /\ kpc'[x] = "addtimer" => state'[x] = "SLEEPING" /\ x = current' /\ ~insched'
      <3> SUFFICES ASSUME NEW x \in Procs
                   PROVE  /\ state'[x] \in {"UNUSED", "ZOMBIE"} <=> kpc'[x] \in {"dead", "reparent"}
                          /\ kpc'[x] = "reparent" => state'[x] = "ZOMBIE" /\ x = current /\ ~insched
                          /\ kpc'[x] = "addtimer" => state'[x] = "SLEEPING" /\ x = current /\ ~insched
        OBVIOUS
      <3>1. /\ state[x] \in {"UNUSED", "ZOMBIE"} <=> kpc[x] \in {"dead", "reparent"}
            /\ kpc[x] = "reparent" => state[x] = "ZOMBIE" /\ x = current /\ ~insched
            /\ kpc[x] = "addtimer" => state[x] = "SLEEPING" /\ x = current /\ ~insched
        BY <2>1 DEF Control
      <3>2. CASE kpc'[x] = kpc[x]
        <4>1. kpc[x] = "addtimer" => state'[x] = state[x]
          BY <1>1
        <4> QED
          BY <1>2, <3>1, <3>2, <4>1
      <3>3. CASE kpc[x] = "user" /\ kpc'[x] = "tail"
        BY <1>2, <3>1, <3>3
      <3> QED
        BY <1>4, <3>2, <3>3
    <2>3. /\ kpc'[Idle] = "idle" /\ state'[Idle] = "RUNNABLE"
          /\ kpc'[Init0] \in {"initmain", "wait", "waitret", "exit"}
          /\ state'[Init0] \in {"RUNNABLE", "SLEEPING"}
          /\ \A x \in UserProc : kpc'[x] \notin {"idle", "initmain"}
      <3>1. Idle \in Procs /\ Init0 \in Procs /\ UserProc \subseteq Procs
        BY DEF Procs
      <3>2. kpc'[Idle] = "idle" /\ state'[Idle] = "RUNNABLE"
        BY <1>1, <1>4, <2>1, <3>1 DEF Control
      <3>3. /\ kpc'[Init0] \in {"initmain", "wait", "waitret", "exit"}
            /\ state'[Init0] \in {"RUNNABLE", "SLEEPING"}
        BY <1>1, <1>4, <2>1, <3>1 DEF Control
      <3>4. ASSUME NEW x \in UserProc PROVE kpc'[x] \notin {"idle", "initmain"}
        <4>1. kpc[x] \notin {"idle", "initmain"}
          BY <2>1 DEF Control
        <4> QED
          BY <1>4, <3>1, <4>1
      <3> QED
        BY <3>2, <3>3, <3>4
    <2>4. /\ state'[current'] # "UNUSED"
          /\ ~insched' => \/ state'[current'] = "RUNNABLE"
                          \/ kpc'[current'] \in {"reparent", "addtimer"}
          /\ irq' # "none" => \/ current' \in {Idle, Init0}
                              \/ kpc'[current'] = "user" /\ ~insched'
      BY <1>0, <1>1, <1>2, <1>4, <2>1 DEF Control
    <2> QED
      BY <2>1, <2>2, <2>3, <2>4 DEF Control
  <1> QED
    BY <1>1, <1>4, <1>5, <1>6, <1>7, <1>8, <1>9

LEMMA SysKillInv == Inv /\ SysKill => Inv'
  <1> SUFFICES ASSUME Inv, SysKill PROVE Inv'
    OBVIOUS
  <1>0. /\ At("user") /\ Goto("tail")
        /\ UNCHANGED <<need_resched, treeVars, current, timerVars, stdinVars, argVars,
                       insched, irq>>
    BY DEF SysKill
  <1>1. /\ current \in UserProc /\ state[current] = "RUNNABLE" /\ wait_state[current] = "0"
        /\ irq = "none" /\ halted = "no" /\ kpc[current] = "user"
    BY <1>0, AtUser DEF At
  <1>2. PICK p \in UserProc \cup {Init0} :
          /\ exiting' = [exiting EXCEPT ![p] = TRUE]
          /\ LET b == ~exiting[p] /\ wait_state[p] \in Interruptible
             IN wakeup_proc(b, p) /\ KAssert(WakeupAsserts(b, p))
    BY DEF SysKill
  <1> DEFINE b == ~exiting[p] /\ wait_state[p] \in Interruptible
  <1>3. p \in Procs /\ b \in BOOLEAN /\ wakeup_proc(b, p) /\ KAssert(WakeupAsserts(b, p))
    BY <1>2 DEF Procs
  <1>4. b => state[p] \in {"RUNNABLE", "SLEEPING"} /\ kpc[p] # "addtimer"
    BY <1>1, <1>3 DEF Inv, TypeOK, SleepersCanBeWoken, Control, Interruptible
  <1> HIDE DEF b
  <1>5. /\ RunQueueExact' /\ WakeupAsserts(b, p) /\ run_list' \in Seq(Procs)
        /\ time_slice' \in [Procs -> 0..MAX_TIME_SLICE]
        /\ state' = IF b THEN [state EXCEPT ![p] = "RUNNABLE"] ELSE state
        /\ wait_state' = IF b THEN [wait_state EXCEPT ![p] = "0"] ELSE wait_state
    BY <1>0, <1>3, <1>4, Wakeup
  <1>6. \A x \in Procs : (b => x # p) =>
               (HasTimer(x) => HasTimer(x)') /\ (Waiting(x) => Waiting(x)')
    BY <1>0 DEF HasTimer, Waiting, timerVars, stdinVars
  <1>7. /\ SleepersCanBeWoken' /\ NoLostChildWakeup' /\ FamilyTreeSound'
        /\ Control' /\ Forest'
        /\ state' \in [Procs -> States]
        /\ wait_state' \in [Procs -> {"0"} \cup Interruptible]
        /\ kpc' \in [Procs -> Locations]
        /\ \A x \in Procs : kpc[x] # "user" => kpc'[x] = kpc[x]
    BY <1>0, <1>1, <1>3, <1>4, <1>5, <1>6, WakeRest DEF treeVars, argVars
  <1>8. TypeOK' /\ NoAssertFails'
    BY <1>0, <1>1, <1>2, <1>3, <1>5, <1>7 DEF Inv, TypeOK, NoAssertFails, KAssert, treeVars,
       timerVars, stdinVars, argVars
  <1>9. NoDanglingStackNode'
    BY <1>0, <1>7, ListTypes DEF Inv, NoDanglingStackNode, timerVars, stdinVars
  <1>10. TimerControl'
    BY <1>0, <1>1 DEF Inv, TypeOK, TimerControl, timerVars, Goto
  <1> QED
    BY <1>5, <1>7, <1>8, <1>9, <1>10 DEF Inv

LEMMA TimerExpireInv == Inv /\ TimerExpire => Inv'
  <1> SUFFICES ASSUME Inv, TimerExpire PROVE Inv'
    OBVIOUS
  <1> DEFINE p == timer_list[1].proc
  <1>0. /\ halted = "no" /\ irq = "timer" /\ timer_list # <<>>
        /\ timer_list' = Tail(timer_list)
        /\ wakeup_proc(TRUE, p)
        /\ KAssert(/\ wait_state[p] = "0" \/ wait_state[p] \in Interruptible
                   /\ WakeupAsserts(TRUE, p))
        /\ UNCHANGED <<timer, exiting, need_resched, treeVars, current, stdinVars, argVars,
                       kpc, insched, irq>>
    BY DEF TimerExpire
  <1>1. /\ timer_list \in Seq([proc : Procs, expires : Nat]) /\ 1 \in 1..Len(timer_list)
        /\ timer_list' \in Seq([proc : Procs, expires : Nat])
        /\ Len(timer_list') = Len(timer_list) - 1
        /\ \A i \in 1..Len(timer_list') : timer_list'[i] = timer_list[i + 1]
    <2>1. timer_list \in Seq([proc : Procs, expires : Nat])
      BY DEF Inv, TypeOK
    <2>2. 1 \in 1..Len(timer_list)
      BY <1>0, <2>1, NonEmptySeq, Zenon
    <2>3. /\ Tail(timer_list) \in Seq([proc : Procs, expires : Nat])
          /\ Len(Tail(timer_list)) = Len(timer_list) - 1
          /\ \A i \in 1..Len(Tail(timer_list)) : Tail(timer_list)[i] = timer_list[i + 1]
      BY <1>0, <2>1, TailOfSeq, Zenon
    <2> QED
      BY <1>0, <2>1, <2>2, <2>3, Zenon
  <1>2. p \in Procs /\ kpc[p] = "sleepret"
    BY <1>1, ListTypes DEF Inv, NoDanglingStackNode
  <1>3. state[p] \in {"RUNNABLE", "SLEEPING"} /\ kpc[p] # "addtimer"
    <2>1. state \in [Procs -> States] /\ Control
      BY DEF Inv, TypeOK
    <2>2. state[p] \in States /\ state[p] \notin {"UNUSED", "ZOMBIE"}
      BY <1>2, <2>1 DEF Control
    <2> QED
      BY <1>2, <2>2 DEF States
  <1>4. kpc[current] # "addtimer"
    BY <1>0, IrqFacts
  <1>5. \A x \in Procs : x # p =>
               (HasTimer(x) => HasTimer(x)') /\ (Waiting(x) => Waiting(x)')
    <2> SUFFICES ASSUME NEW x \in Procs, x # p, HasTimer(x) PROVE HasTimer(x)'
      BY <1>0 DEF Waiting, stdinVars
    <2>1. PICK i \in 1..Len(timer_list) : timer_list[i].proc = x
      BY DEF HasTimer
    <2>2. i - 1 \in 1..Len(timer_list') /\ timer_list'[i - 1] = timer_list[i]
      BY <1>1, <2>1
    <2> QED
      BY <2>1, <2>2 DEF HasTimer
  <1>6. Len(timer_list) \in Nat
    BY <1>1
  <1> HIDE DEF p
  <1>7. /\ RunQueueExact' /\ WakeupAsserts(TRUE, p) /\ run_list' \in Seq(Procs)
        /\ time_slice' \in [Procs -> 0..MAX_TIME_SLICE]
        /\ state' = [state EXCEPT ![p] = "RUNNABLE"]
        /\ wait_state' = [wait_state EXCEPT ![p] = "0"]
    BY <1>0, <1>2, <1>3, Wakeup
  <1>8. /\ SleepersCanBeWoken' /\ NoLostChildWakeup' /\ FamilyTreeSound'
        /\ Control' /\ Forest'
        /\ state' \in [Procs -> States]
        /\ wait_state' \in [Procs -> {"0"} \cup Interruptible]
    BY <1>0, <1>2, <1>3, <1>5, <1>7, WakeRest DEF treeVars, argVars
  <1>9. TypeOK' /\ NoAssertFails'
    BY <1>0, <1>1, <1>2, <1>7, <1>8 DEF Inv, TypeOK, NoAssertFails, KAssert, treeVars,
       stdinVars, argVars
  <1>10. NoDanglingStackNode'
    <2>1. \A i \in 1..Len(timer_list') : i + 1 \in 1..Len(timer_list)
      BY <1>1, <1>6
    <2>2. /\ \A i \in 1..Len(timer_list') : kpc'[timer_list'[i].proc] = "sleepret"
          /\ \A i, j \in 1..Len(timer_list') :
                timer_list'[i].proc = timer_list'[j].proc => i = j
      <3>1. /\ NoDanglingStackNode /\ kpc' = kpc
            /\ \A i \in 1..Len(timer_list') : timer_list'[i] = timer_list[i + 1]
        BY <1>0, <1>1 DEF Inv
      <3>2. \A i \in 1..Len(timer_list') : kpc'[timer_list'[i].proc] = "sleepret"
        BY <2>1, <3>1 DEF NoDanglingStackNode
      <3>3. ASSUME NEW i \in 1..Len(timer_list'), NEW j \in 1..Len(timer_list'),
                   timer_list'[i].proc = timer_list'[j].proc
            PROVE  i = j
        <4>1. i + 1 = j + 1
          BY <2>1, <3>1, <3>3 DEF NoDanglingStackNode
        <4> QED
          BY <4>1
      <3> QED
        BY <3>2, <3>3
    <2> QED
      BY <1>0, <2>2 DEF Inv, NoDanglingStackNode, stdinVars
  <1>11. TimerControl'
    BY <1>0, <1>4 DEF TimerControl
  <1> QED
    BY <1>7, <1>8, <1>9, <1>10, <1>11 DEF Inv

LEMMA SerialWakeInv == Inv /\ SerialWake => Inv'
  <1> SUFFICES ASSUME Inv, SerialWake PROVE Inv'
    OBVIOUS
  <1> DEFINE p == Head(wait_queue)
  <1>0. /\ halted = "no" /\ irq = "serial" /\ wait_queue # <<>>
        /\ wait_queue' = Tail(wait_queue)
        /\ wakeup_flags' = [wakeup_flags EXCEPT ![p] = "WT_KBD"]
        /\ wakeup_proc(TRUE, p)
        /\ KAssert(WakeupAsserts(TRUE, p))
        /\ UNCHANGED <<exiting, need_resched, treeVars, current, timerVars, unread, argVars,
                       kpc, insched, irq>>
    BY DEF SerialWake
  <1>1. /\ wait_queue \in Seq(Procs) /\ 1 \in 1..Len(wait_queue) /\ p = wait_queue[1]
        /\ wait_queue' \in Seq(Procs) /\ Len(wait_queue') = Len(wait_queue) - 1
        /\ \A i \in 1..Len(wait_queue') : wait_queue'[i] = wait_queue[i + 1]
    BY <1>0 DEF Inv, TypeOK
  <1>2. p \in Procs /\ kpc[p] = "readret"
    BY <1>1, ListTypes DEF Inv, NoDanglingStackNode
  <1>3. state[p] \in {"RUNNABLE", "SLEEPING"} /\ kpc[p] # "addtimer"
    <2>1. state \in [Procs -> States] /\ Control
      BY DEF Inv, TypeOK
    <2>2. state[p] \in States /\ state[p] \notin {"UNUSED", "ZOMBIE"}
      BY <1>2, <2>1 DEF Control
    <2> QED
      BY <1>2, <2>2 DEF States
  <1>5. \A x \in Procs : x # p =>
               (HasTimer(x) => HasTimer(x)') /\ (Waiting(x) => Waiting(x)')
    <2> SUFFICES ASSUME NEW x \in Procs, x # p, Waiting(x) PROVE Waiting(x)'
      BY <1>0 DEF HasTimer, timerVars
    <2>1. PICK i \in 1..Len(wait_queue) : wait_queue[i] = x
      BY DEF Waiting
    <2>2. i - 1 \in 1..Len(wait_queue') /\ wait_queue'[i - 1] = wait_queue[i]
      BY <1>1, <2>1
    <2> QED
      BY <2>1, <2>2 DEF Waiting
  <1> HIDE DEF p
  <1>7. /\ RunQueueExact' /\ WakeupAsserts(TRUE, p) /\ run_list' \in Seq(Procs)
        /\ time_slice' \in [Procs -> 0..MAX_TIME_SLICE]
        /\ state' = [state EXCEPT ![p] = "RUNNABLE"]
        /\ wait_state' = [wait_state EXCEPT ![p] = "0"]
    BY <1>0, <1>2, <1>3, Wakeup
  <1>8. /\ SleepersCanBeWoken' /\ NoLostChildWakeup' /\ FamilyTreeSound'
        /\ Control' /\ Forest'
        /\ state' \in [Procs -> States]
        /\ wait_state' \in [Procs -> {"0"} \cup Interruptible]
    BY <1>0, <1>2, <1>3, <1>5, <1>7, WakeRest DEF treeVars, argVars
  <1>9. TypeOK' /\ NoAssertFails'
    BY <1>0, <1>1, <1>7, <1>8 DEF Inv, TypeOK, NoAssertFails, KAssert, treeVars, timerVars,
       argVars
  <1>10. NoDanglingStackNode'
    <2>1. NoDanglingStackNode
      BY DEF Inv
    <2>2. \A i \in 1..Len(wait_queue') : i + 1 \in 1..Len(wait_queue)
                                        /\ wait_queue'[i] = wait_queue[i + 1]
      BY <1>1
    <2>3. \A i \in 1..Len(wait_queue') : kpc'[wait_queue'[i]] = "readret"
      <3>1. \A i \in 1..Len(wait_queue) : kpc[wait_queue[i]] = "readret"
        BY <2>1 DEF NoDanglingStackNode
      <3>2. kpc' = kpc
        BY <1>0
      <3> QED
        BY <2>2, <3>1, <3>2
    <2>4. ASSUME NEW i \in 1..Len(wait_queue'), NEW j \in 1..Len(wait_queue'),
                 wait_queue'[i] = wait_queue'[j]
          PROVE  i = j
      <3>1. i + 1 = j + 1
        BY <2>1, <2>2, <2>4 DEF NoDanglingStackNode
      <3> QED
        BY <3>1
    <2> QED
      BY <1>0, <2>1, <2>3, <2>4 DEF NoDanglingStackNode, timerVars
  <1>11. TimerControl'
    BY <1>0 DEF Inv, TimerControl, timerVars
  <1> QED
    BY <1>7, <1>8, <1>9, <1>10, <1>11 DEF Inv
=============================================================================
