--------------------------- MODULE ProcWaitProofs ---------------------------
(* Falling asleep, being resumed, and the lists of the sleepers preserve    *)
(* the invariant.                                                           *)
EXTENDS ProcInvariant

(* `current' goes to sleep for reason w and will resume at m.               *)
LEMMA FallAsleep ==
    ASSUME Inv, NEW l, At(l), l \in {"user", "wait", "read"},
           NEW m \in {"waitret", "addtimer", "readret"}, Goto(m),
           NEW w \in Interruptible,
           state' = [state EXCEPT ![current] = "SLEEPING"],
           wait_state' = [wait_state EXCEPT ![current] = w],
           UNCHANGED <<time_slice, parent, nr_process, current, run_list, waitpid, irq>>,
           m = "addtimer" => insched' = FALSE,
           m # "addtimer" => insched' = TRUE,
           l = "wait" => m = "waitret",
           w = "WT_TIMER" => m = "addtimer",
           w = "WT_KBD" => Waiting(current)',
           w = "WT_CHILD" => Awaited(current) # {} /\ \A c \in Awaited(current) : state[c] # "ZOMBIE",
           \A x \in Procs : (HasTimer(x) => HasTimer(x)') /\ (Waiting(x) => Waiting(x)')
    PROVE  /\ RunQueueExact' /\ SleepersCanBeWoken' /\ NoLostChildWakeup'
           /\ FamilyTreeSound' /\ Control' /\ Forest'
           /\ state' \in [Procs -> States]
           /\ wait_state' \in [Procs -> {"0"} \cup Interruptible]
           /\ kpc' \in [Procs -> Locations]
           /\ \A x \in Procs : kpc[x] \in {"sleepret", "readret"} => kpc'[x] = kpc[x]
           /\ irq = "none" /\ halted = "no" /\ current \in Procs
  <1>0. /\ state \in [Procs -> States] /\ wait_state \in [Procs -> {"0"} \cup Interruptible]
        /\ kpc \in [Procs -> Locations] /\ parent \in [Procs -> Procs]
    BY DEF Inv, TypeOK
  <1>1. /\ current \in Procs /\ current # Idle /\ kpc[current] = l
        /\ state[current] = "RUNNABLE" /\ irq = "none" /\ halted = "no" /\ insched = FALSE
        /\ l # "wait" => current \in UserProc
    BY AtFacts
  <1>2. /\ state' \in [Procs -> States] /\ wait_state' \in [Procs -> {"0"} \cup Interruptible]
        /\ kpc' \in [Procs -> Locations]
        /\ \A x \in Procs : /\ state'[x] = IF x = current THEN "SLEEPING" ELSE state[x]
                            /\ wait_state'[x] = IF x = current THEN w ELSE wait_state[x]
                            /\ kpc'[x] = IF x = current THEN m ELSE kpc[x]
    BY <1>0, <1>1 DEF States, Locations, Goto
  <1>3. \A x \in Procs : /\ state'[x] = "UNUSED" <=> state[x] = "UNUSED"
                         /\ state'[x] = "ZOMBIE" <=> state[x] = "ZOMBIE"
    BY <1>1, <1>2
  <1>4. \A x \in Procs : /\ Child(x)' = Child(x) /\ Awaited(x)' = Awaited(x)
                         /\ Awaited(x) \subseteq Child(x) /\ Child(x) \subseteq Procs
    BY <1>3 DEF Child, Awaited
  <1>5. RunQueueExact'
    <2>1. {x \in Procs \ {Idle, current'} : state'[x] = "RUNNABLE"}
            = {x \in Procs \ {Idle, current} : state[x] = "RUNNABLE"}
      BY <1>2
    <2> QED
      BY <2>1 DEF Inv, RunQueueExact
  <1>6. SleepersCanBeWoken'
    <2>1. SleepersCanBeWoken
      BY DEF Inv
    <2>2. w \in {"WT_CHILD", "WT_TIMER", "WT_KBD"}
      BY DEF Interruptible
    <2> QED
      BY <1>1, <1>2, <1>4, <2>1, <2>2 DEF SleepersCanBeWoken
  <1>7. NoLostChildWakeup'
    BY <1>1, <1>2, <1>3, <1>4 DEF Inv, NoLostChildWakeup
  <1>8. FamilyTreeSound'
    <2>1. {x \in Procs : state'[x] # "UNUSED"} = {x \in Procs : state[x] # "UNUSED"}
      BY <1>3
    <2>2. \A x \in Procs : kpc[x] = "reparent" => kpc'[x] = "reparent"
      BY <1>1, <1>2
    <2>3. FamilyTreeSound
      BY DEF Inv
    <2> QED
      BY <1>0, <1>3, <2>1, <2>2, <2>3 DEF FamilyTreeSound, Procs
  <1>9. Forest'
    BY <1>3 DEF Inv, Forest, Procs
  <1>10. Control'
    <2>1. Control
      BY DEF Inv
    <2>2. \A x \in Procs :
             /\ state'[x] \in {"UNUSED", "ZOMBIE"} <=> kpc'[x] \in {"dead", "reparent"}
             /\ kpc'[x] = "reparent" => state'[x] = "ZOMBIE" /\ x = current' /\ ~insched'
             /\ kpc'[x] = "addtimer" => state'[x] = "SLEEPING" /\ x = current' /\ ~insched'
      BY <1>1, <1>2, <1>3, <2>1 DEF Control
    <2>3. /\ kpc'[Idle] = "idle" /\ state'[Idle] = "RUNNABLE"
          /\ kpc'[Init0] \in {"initmain", "wait", "waitret", "exit"}
          /\ state'[Init0] \in {"RUNNABLE", "SLEEPING"}
          /\ \A x \in UserProc : kpc'[x] \notin {"idle", "initmain"}
      BY <1>1, <1>2, <2>1, ProcAssumption DEF Control, Procs
    <2> QED
      BY <1>1, <1>2, <2>1, <2>2, <2>3 DEF Control
  <1> QED
    BY <1>1, <1>2, <1>5, <1>6, <1>7, <1>8, <1>9, <1>10

LEMMA WaitSleepInv == Inv /\ WaitSleep => Inv'
  <1> SUFFICES ASSUME Inv, WaitSleep PROVE Inv'
    OBVIOUS
  <1>0. /\ At("wait") /\ SleepAt("WT_CHILD", "waitret") /\ Awaited(current) # {}
        /\ \A c \in Awaited(current) : state[c] # "ZOMBIE"
        /\ UNCHANGED <<exiting, need_resched, time_slice, treeVars, schedVars, timerVars,
                       stdinVars, argVars, irq, halted>>
    BY DEF WaitSleep
  <1>1. \A x \in Procs : (HasTimer(x) => HasTimer(x)') /\ (Waiting(x) => Waiting(x)')
    BY <1>0 DEF HasTimer, Waiting, timerVars, stdinVars
  <1>2. /\ RunQueueExact' /\ SleepersCanBeWoken' /\ NoLostChildWakeup'
        /\ FamilyTreeSound' /\ Control' /\ Forest'
        /\ state' \in [Procs -> States]
        /\ wait_state' \in [Procs -> {"0"} \cup Interruptible]
        /\ kpc' \in [Procs -> Locations]
        /\ \A x \in Procs : kpc[x] \in {"sleepret", "readret"} => kpc'[x] = kpc[x]
        /\ irq = "none" /\ halted = "no" /\ current \in Procs
    BY <1>0, <1>1, FallAsleep DEF SleepAt, treeVars, schedVars, argVars, Interruptible
  <1>3. TypeOK' /\ NoAssertFails'
    BY <1>0, <1>2 DEF Inv, TypeOK, NoAssertFails, SleepAt, treeVars, schedVars, timerVars,
       stdinVars, argVars
  <1>4. NoDanglingStackNode'
    BY <1>0, <1>2, ListTypes DEF Inv, NoDanglingStackNode, timerVars, stdinVars
  <1>5. TimerControl'
    <2>1. kpc'[current'] = "waitret"
      BY <1>0, <1>2 DEF Inv, TypeOK, SleepAt, Goto, schedVars
    <2> QED
      BY <1>0, <1>2, <2>1 DEF Inv, TimerControl, timerVars
  <1> QED
    BY <1>2, <1>3, <1>4, <1>5 DEF Inv

LEMMA SysSleepInv == Inv /\ SysSleep => Inv'
  <1> SUFFICES ASSUME Inv, SysSleep PROVE Inv'
    OBVIOUS
  <1>0. /\ At("user") /\ Goto("addtimer")
        /\ state' = [state EXCEPT ![current] = "SLEEPING"]
        /\ wait_state' = [wait_state EXCEPT ![current] = "WT_TIMER"]
        /\ UNCHANGED <<exiting, need_resched, time_slice, treeVars, schedVars, timer_list,
                       stdinVars, argVars, insched, irq, halted>>
    BY DEF SysSleep
  <1>1. \A x \in Procs : (HasTimer(x) => HasTimer(x)') /\ (Waiting(x) => Waiting(x)')
    BY <1>0 DEF HasTimer, Waiting, stdinVars
  <1>2. PICK t \in 1..MaxSleep : timer' = [time |-> t, expires |-> t, pos |-> 0]
    BY DEF SysSleep
  <1>3. insched = FALSE
    BY <1>0, AtUser
  <1>4. /\ RunQueueExact' /\ SleepersCanBeWoken' /\ NoLostChildWakeup'
        /\ FamilyTreeSound' /\ Control' /\ Forest'
        /\ state' \in [Procs -> States]
        /\ wait_state' \in [Procs -> {"0"} \cup Interruptible]
        /\ kpc' \in [Procs -> Locations]
        /\ \A x \in Procs : kpc[x] \in {"sleepret", "readret"} => kpc'[x] = kpc[x]
        /\ irq = "none" /\ halted = "no" /\ current \in Procs
    <2> DEFINE l == "user"  m == "addtimer"  w == "WT_TIMER"
    <2>1. /\ At(l) /\ Goto(m) /\ l # "wait" /\ l \in {"user", "wait", "read"}
          /\ m \in {"waitret", "addtimer", "readret"} /\ m = "addtimer"
          /\ w \in Interruptible /\ w \notin {"WT_KBD", "WT_CHILD"}
          /\ wait_state' = [wait_state EXCEPT ![current] = w]
      BY <1>0 DEF Interruptible
    <2>2. /\ UNCHANGED <<time_slice, parent, nr_process, current, run_list, waitpid, irq>>
          /\ insched' = FALSE
      BY <1>0, <1>3 DEF treeVars, schedVars, argVars
    <2> HIDE DEF l, m, w
    <2> QED
      BY <1>0, <1>1, <2>1, <2>2, FallAsleep
  <1>5. TypeOK' /\ NoAssertFails'
    BY <1>0, <1>2, <1>4, ProcAssumption DEF Inv, TypeOK, NoAssertFails, treeVars, schedVars,
       stdinVars, argVars
  <1>6. NoDanglingStackNode'
    BY <1>0, <1>4, ListTypes DEF Inv, NoDanglingStackNode, stdinVars
  <1>7. TimerControl'
    BY <1>0, <1>2, <1>4, ProcAssumption DEF Inv, TypeOK, TimerControl
  <1> QED
    BY <1>4, <1>5, <1>6, <1>7 DEF Inv

-----------------------------------------------------------------------------
(* A sleeper is back from schedule() and leaves the frame its list node was *)
(* in; only its own entry may go.                                           *)
LEMMA Resume ==
    ASSUME Inv, NEW l \in {"sleepret", "readret"}, At(l),
           NEW m \in {"tail", "read"}, Goto(m),
           UNCHANGED <<state, wait_state, time_slice, parent, nr_process, current,
                       run_list, waitpid, insched, irq, halted>>,
           \A x \in Procs \ {current} :
               (HasTimer(x) => HasTimer(x)') /\ (Waiting(x) => Waiting(x)')
    PROVE  /\ RunQueueExact' /\ SleepersCanBeWoken' /\ NoLostChildWakeup'
           /\ FamilyTreeSound' /\ Control' /\ Forest' /\ NoAssertFails'
           /\ kpc' \in [Procs -> Locations]
           /\ \A x \in Procs \ {current} : kpc'[x] = kpc[x]
           /\ irq = "none" /\ kpc'[current] # "addtimer" /\ current \in Procs
  <1>0. /\ kpc \in [Procs -> Locations] /\ parent \in [Procs -> Procs]
    BY DEF Inv, TypeOK
  <1>1. /\ current \in UserProc /\ current \in Procs /\ current # Idle /\ kpc[current] = l
        /\ state[current] = "RUNNABLE" /\ wait_state[current] = "0"
        /\ irq = "none" /\ insched = FALSE
    BY AtFacts
  <1>2. /\ kpc' \in [Procs -> Locations] /\ kpc'[current] = m
        /\ \A x \in Procs \ {current} : kpc'[x] = kpc[x]
    BY <1>0, <1>1 DEF Locations, Goto
  <1>3. RunQueueExact' /\ NoAssertFails' /\ Forest'
    BY DEF Inv, RunQueueExact, NoAssertFails, Forest
  <1>4. SleepersCanBeWoken'
    <2>1. \A x \in Procs : Child(x)' = Child(x)
      BY DEF Child
    <2>2. SleepersCanBeWoken
      BY DEF Inv
    <2> QED
      BY <1>1, <1>2, <2>1, <2>2 DEF SleepersCanBeWoken
  <1>5. NoLostChildWakeup'
    BY DEF Inv, NoLostChildWakeup, Awaited, Child
  <1>6. FamilyTreeSound'
    BY <1>0, <1>1, <1>2 DEF Inv, FamilyTreeSound, Procs
  <1>7. Control'
    <2>1. Control
      BY DEF Inv
    <2>2. \A x \in Procs :
             /\ state'[x] \in {"UNUSED", "ZOMBIE"} <=> kpc'[x] \in {"dead", "reparent"}
             /\ kpc'[x] \notin {"reparent", "addtimer"}
      BY <1>1, <1>2, <2>1 DEF Control
    <2> QED
      BY <1>1, <1>2, <2>1, <2>2, ProcAssumption DEF Control, Procs
  <1> QED
    BY <1>1, <1>2, <1>3, <1>4, <1>5, <1>6, <1>7

LEMMA ReadReturnInv == Inv /\ ReadReturn => Inv'
  <1> SUFFICES ASSUME Inv, ReadReturn PROVE Inv'
    OBVIOUS
  <1>0. /\ At("readret") /\ kpc[current] = "readret"
        /\ UNCHANGED <<procVars, treeVars, schedVars, timerVars, unread, waitpid,
                       insched, irq, halted>>
        /\ wakeup_flags' = [wakeup_flags EXCEPT ![current] = "0"]
    BY DEF ReadReturn, At
  <1>1. PICK m \in {"tail", "read"} : Goto(m)
    BY DEF ReadReturn
  <1>2. wait_queue \in Seq(Procs) /\ current \in Procs /\ Len(wait_queue) \in Nat
    BY DEF Inv, TypeOK
  <1>3. NoDanglingStackNode
    BY DEF Inv
  <1>4. /\ wait_queue' \in Seq(Procs)
        /\ \A x \in Procs \ {current} : Waiting(x) => Waiting(x)'
        /\ \A i \in 1..Len(wait_queue') : /\ wait_queue'[i] # current
                                          /\ kpc[wait_queue'[i]] = "readret"
        /\ \A i, j \in 1..Len(wait_queue') : wait_queue'[i] = wait_queue'[j] => i = j
    <2>1. CASE Waiting(current)
      <3>1. PICK i \in 1..Len(wait_queue) :
               /\ wait_queue[i] = current
               /\ wait_queue' = [j \in 1..(Len(wait_queue) - 1) |->
                                   IF j < i THEN wait_queue[j] ELSE wait_queue[j + 1]]
        BY <2>1 DEF ReadReturn
      <3>2. wait_queue' \in Seq(Procs) /\ Len(wait_queue') = Len(wait_queue) - 1
        BY <1>2, <3>1
      <3>3. \A j \in 1..Len(wait_queue') :
               \E k \in 1..Len(wait_queue) : /\ wait_queue'[j] = wait_queue[k] /\ k # i
                                             /\ k = IF j < i THEN j ELSE j + 1
        <4> SUFFICES ASSUME NEW j \in 1..Len(wait_queue')
                     PROVE  LET k == IF j < i THEN j ELSE j + 1
                            IN k \in 1..Len(wait_queue) /\ wait_queue'[j] = wait_queue[k] /\ k # i
          OBVIOUS
        <4> QED
          BY <1>2, <3>1, <3>2
      <3>4. \A k \in 1..Len(wait_queue) : k # i =>
               \E j \in 1..Len(wait_queue') : wait_queue'[j] = wait_queue[k]
        <4> SUFFICES ASSUME NEW k \in 1..Len(wait_queue), k # i
                     PROVE  \E j \in 1..Len(wait_queue') : wait_queue'[j] = wait_queue[k]
          OBVIOUS
        <4> DEFINE j == IF k < i THEN k ELSE k - 1
        <4>1. j \in 1..Len(wait_queue') /\ wait_queue'[j] = wait_queue[k]
          BY <1>2, <3>1, <3>2
        <4> QED
          BY <4>1
      <3>5. \A x \in Procs \ {current} : Waiting(x) => Waiting(x)'
        <4> SUFFICES ASSUME NEW x \in Procs \ {current}, Waiting(x) PROVE Waiting(x)'
          OBVIOUS
        <4>1. PICK k \in 1..Len(wait_queue) : wait_queue[k] = x
          BY DEF Waiting
        <4> QED
          BY <3>1, <3>4, <4>1 DEF Waiting
      <3>6. \A j \in 1..Len(wait_queue') : /\ wait_queue'[j] # current
                                           /\ kpc[wait_queue'[j]] = "readret"
        BY <1>3, <3>1, <3>3 DEF NoDanglingStackNode
      <3>7. ASSUME NEW j \in 1..Len(wait_queue'), NEW k \in 1..Len(wait_queue'),
                   wait_queue'[j] = wait_queue'[k]
            PROVE  j = k
        <4> DEFINE old(x) == IF x < i THEN x ELSE x + 1
        <4>1. /\ old(j) \in 1..Len(wait_queue) /\ wait_queue'[j] = wait_queue[old(j)]
              /\ old(k) \in 1..Len(wait_queue) /\ wait_queue'[k] = wait_queue[old(k)]
          BY <3>3
        <4>2. old(j) = old(k)
          BY <1>3, <3>7, <4>1 DEF NoDanglingStackNode
        <4>3. j \in Nat /\ k \in Nat /\ i \in Nat
          OBVIOUS
        <4> QED
          BY <4>2, <4>3
      <3> QED
        BY <3>2, <3>5, <3>6, <3>7
    <2>2. CASE ~Waiting(current)
      BY <1>2, <1>3, <2>2 DEF ReadReturn, Waiting, NoDanglingStackNode
    <2> QED
      BY <2>1, <2>2
  <1>5. \A x \in Procs \ {current} :
               (HasTimer(x) => HasTimer(x)') /\ (Waiting(x) => Waiting(x)')
    BY <1>0, <1>4 DEF HasTimer, timerVars
  <1>6. /\ RunQueueExact' /\ SleepersCanBeWoken' /\ NoLostChildWakeup'
        /\ FamilyTreeSound' /\ Control' /\ Forest' /\ NoAssertFails'
        /\ kpc' \in [Procs -> Locations]
        /\ \A x \in Procs \ {current} : kpc'[x] = kpc[x]
        /\ irq = "none" /\ kpc'[current] # "addtimer"
    BY <1>0, <1>1, <1>5, Resume DEF procVars, treeVars, schedVars
  <1>7. TypeOK'
    <2>1. todo' \in [Procs -> 0..MaxRead] /\ wakeup_flags' \in [Procs -> {"0", "WT_INTERRUPTED", "WT_KBD"}]
      <3>1. /\ todo \in [Procs -> 0..MaxRead]
            /\ wakeup_flags \in [Procs -> {"0", "WT_INTERRUPTED", "WT_KBD"}]
        BY DEF Inv, TypeOK
      <3>2. todo' = todo \/ todo' = [todo EXCEPT ![current] = 0]
        BY DEF ReadReturn
      <3> QED
        BY <1>0, <1>2, <3>1, <3>2, ProcAssumption
    <2> QED
      BY <1>0, <1>4, <1>6, <2>1 DEF Inv, TypeOK, procVars, treeVars, schedVars, timerVars
  <1>8. NoDanglingStackNode'
    <2>1. \A i \in 1..Len(timer_list) : timer_list[i].proc \in Procs \ {current}
      BY <1>0, <1>3, ListTypes DEF NoDanglingStackNode
    <2>2. \A i \in 1..Len(wait_queue') : wait_queue'[i] \in Procs
      BY <1>4
    <2> QED
      BY <1>0, <1>3, <1>4, <1>6, <2>1, <2>2 DEF NoDanglingStackNode, timerVars
  <1>9. TimerControl'
    BY <1>0, <1>6 DEF Inv, TimerControl, timerVars, schedVars
  <1> QED
    BY <1>6, <1>7, <1>8, <1>9 DEF Inv

LEMMA ReadLoopInv == Inv /\ ReadLoop => Inv'
  <1> SUFFICES ASSUME Inv, ReadLoop PROVE Inv'
    OBVIOUS
  <1>0. /\ At("read")
        /\ UNCHANGED <<exiting, need_resched, time_slice, treeVars, schedVars, timerVars,
                       waitpid, irq, halted>>
    BY DEF ReadLoop
  <1>1. /\ current \in Procs /\ current \in UserProc /\ kpc[current] = "read"
        /\ state[current] = "RUNNABLE" /\ insched = FALSE /\ current # Init0
    <2> DEFINE l == "read"
    <2>1. At(l) /\ l \notin {"idle", "initmain", "wait", "waitret", "exit", "reparent", "addtimer"}
      BY <1>0
    <2>2. kpc[current] = "read"
      BY <1>0 DEF At
    <2> HIDE DEF l
    <2> QED
      BY <2>1, <2>2, AtFacts, ProcAssumption
  <1>2. /\ todo \in [Procs -> 0..MaxRead] /\ unread \in 0..STDIN_BUFSIZE
        /\ wait_queue \in Seq(Procs)
        /\ wakeup_flags \in [Procs -> {"0", "WT_INTERRUPTED", "WT_KBD"}]
    BY DEF Inv, TypeOK
  <1>3. CASE todo[current] <= unread
    <2>1. unread' \in 0..STDIN_BUFSIZE /\ todo' \in [Procs -> 0..MaxRead]
      BY <1>1, <1>2, <1>3, ProcAssumption DEF ReadLoop
    <2>2. /\ Goto("tail")
          /\ UNCHANGED <<state, wait_state, wait_queue, wakeup_flags, insched>>
      BY <1>3 DEF ReadLoop
    <2> QED
      BY <1>0, <1>1, <2>1, <2>2, Move, MoveTypes DEF treeVars, schedVars, timerVars, Locations
  <1>4. CASE ~(todo[current] <= unread)
    <2>0. /\ unread' = 0 /\ todo' = [todo EXCEPT ![current] = @ - unread]
          /\ wait_queue' = Append(wait_queue, current)
          /\ wakeup_flags' = [wakeup_flags EXCEPT ![current] = "WT_INTERRUPTED"]
          /\ SleepAt("WT_KBD", "readret")
      BY <1>4 DEF ReadLoop
    <2>1. unread' \in 0..STDIN_BUFSIZE /\ todo' \in [Procs -> 0..MaxRead]
      BY <1>1, <1>2, <1>4, <2>0, ProcAssumption
    <2>2. /\ wait_queue' \in Seq(Procs) /\ Len(wait_queue') = Len(wait_queue) + 1
          /\ Len(wait_queue) \in Nat
          /\ wait_queue'[Len(wait_queue) + 1] = current
          /\ \A i \in 1..Len(wait_queue) : wait_queue'[i] = wait_queue[i]
      BY <1>1, <1>2, <2>0
    <2>3. Waiting(current)'
      BY <1>0, <2>2 DEF Waiting, schedVars
    <2>4. \A x \in Procs : (HasTimer(x) => HasTimer(x)') /\ (Waiting(x) => Waiting(x)')
      BY <1>0, <2>2 DEF HasTimer, Waiting, timerVars
    <2>5. /\ RunQueueExact' /\ SleepersCanBeWoken' /\ NoLostChildWakeup'
          /\ FamilyTreeSound' /\ Control' /\ Forest'
          /\ state' \in [Procs -> States]
          /\ wait_state' \in [Procs -> {"0"} \cup Interruptible]
          /\ kpc' \in [Procs -> Locations]
          /\ \A x \in Procs : kpc[x] \in {"sleepret", "readret"} => kpc'[x] = kpc[x]
          /\ irq = "none" /\ halted = "no"
      BY <1>0, <1>1, <2>0, <2>3, <2>4, FallAsleep DEF SleepAt, treeVars, schedVars,
         Interruptible
    <2>6. TypeOK'
      <3>1. wakeup_flags' \in [Procs -> {"0", "WT_INTERRUPTED", "WT_KBD"}]
        BY <1>2, <2>0
      <3> QED
        BY <1>0, <2>0, <2>1, <2>2, <2>5, <3>1 DEF Inv, TypeOK, SleepAt, treeVars, schedVars,
           timerVars
    <2>7. kpc'[current] = "readret" /\ current' = current
      BY <1>0, <1>1, <2>0 DEF Inv, TypeOK, SleepAt, Goto, schedVars
    <2>8. NoDanglingStackNode'
      <3>1. NoDanglingStackNode
        BY DEF Inv
      <3>2. /\ \A i \in 1..Len(timer_list) : kpc'[timer_list[i].proc] = "sleepret"
            /\ \A i \in 1..Len(wait_queue) : /\ wait_queue[i] # current
                                             /\ kpc'[wait_queue[i]] = "readret"
        BY <1>1, <2>5, <3>1, ListTypes DEF NoDanglingStackNode
      <3>3. \A i \in 1..Len(wait_queue') : kpc'[wait_queue'[i]] = "readret"
        BY <2>2, <2>7, <3>2
      <3>4. \A i, j \in 1..Len(wait_queue') : wait_queue'[i] = wait_queue'[j] => i = j
        BY <2>2, <3>1, <3>2 DEF NoDanglingStackNode
      <3> QED
        BY <1>0, <3>1, <3>2, <3>3, <3>4 DEF NoDanglingStackNode, timerVars
    <2>9. TimerControl' /\ NoAssertFails'
      BY <1>0, <2>5, <2>7 DEF Inv, TimerControl, NoAssertFails, timerVars
    <2> QED
      BY <2>5, <2>6, <2>8, <2>9 DEF Inv
  <1> QED
    BY <1>3, <1>4

-----------------------------------------------------------------------------
LEMMA AddTimerWalkInv == Inv /\ AddTimerWalk => Inv'
  <1> SUFFICES ASSUME Inv, AddTimerWalk PROVE Inv'
    OBVIOUS
  <1>0. /\ At("addtimer") /\ ~AtNextLater
        /\ timer' = [timer EXCEPT !.expires = @ - timer_list[timer.pos + 1].expires,
                                  !.pos = @ + 1]
        /\ UNCHANGED <<procVars, treeVars, schedVars, timer_list, stdinVars, argVars,
                       ctlVars>>
    BY DEF AddTimerWalk
  <1>1. /\ timer \in [time : Nat, expires : Nat, pos : Nat] /\ Len(timer_list) \in Nat
        /\ timer_list \in Seq([proc : Procs, expires : Nat])
    BY DEF Inv, TypeOK
  <1>2. timer.pos < Len(timer_list) /\ ~(timer.expires < timer_list[timer.pos + 1].expires)
    BY <1>0 DEF AtNextLater
  <1>3. timer_list[timer.pos + 1].expires \in Nat
    <2>1. timer.pos \in Nat
      BY <1>1
    <2>2. timer.pos + 1 \in 1..Len(timer_list)
      BY <1>1, <1>2, <2>1
    <2> QED
      BY <2>2, ListTypes
  <1>4. /\ timer' \in [time : Nat, expires : Nat, pos : Nat]
        /\ timer'.pos = timer.pos + 1
    <2>1. timer' = [time |-> timer.time, pos |-> timer.pos + 1,
                    expires |-> timer.expires - timer_list[timer.pos + 1].expires]
      BY <1>0, <1>1
    <2>2. timer.expires - timer_list[timer.pos + 1].expires \in Nat
      BY <1>1, <1>2, <1>3
    <2> QED
      BY <1>1, <2>1, <2>2
  <1>5. TypeOK' /\ RunQueueExact'
    BY <1>0, <1>4 DEF Inv, TypeOK, RunQueueExact, procVars, treeVars, schedVars, stdinVars,
       argVars, ctlVars
  <1>6. SleepersCanBeWoken' /\ NoDanglingStackNode'
    BY <1>0 DEF Inv, SleepersCanBeWoken, NoDanglingStackNode, HasTimer, Waiting, Child,
       procVars, treeVars, schedVars, stdinVars, argVars, ctlVars
  <1>7. NoLostChildWakeup' /\ FamilyTreeSound' /\ NoAssertFails'
    BY <1>0 DEF Inv, NoLostChildWakeup, FamilyTreeSound, NoAssertFails, Awaited, Child,
       procVars, treeVars, schedVars, stdinVars, argVars, ctlVars
  <1>8. Control' /\ Forest'
    BY <1>0 DEF Inv, Control, Forest, procVars, treeVars, schedVars, argVars, ctlVars
  <1>9. TimerControl'
    BY <1>0, <1>1, <1>2, <1>4 DEF Inv, TimerControl, schedVars, ctlVars
  <1> QED
    BY <1>5, <1>6, <1>7, <1>8, <1>9 DEF Inv

LEMMA AddTimerLinkInv == Inv /\ AddTimerLink => Inv'
  <1> SUFFICES ASSUME Inv, AddTimerLink PROVE Inv'
    OBVIOUS
  <1> DEFINE n == Len(timer_list)
             k == timer.pos
             T == [proc : Procs, expires : Nat]
             new == [proc |-> current, expires |-> timer.expires]
             nxt == [timer_list[k + 1] EXCEPT !.expires = @ - timer.expires]
  <1>0. /\ At("addtimer") /\ AtNextLater /\ timer' = NoTimer
        /\ KAssert(~HasTimer(current)) /\ Goto("sleepret") /\ insched' = TRUE
        /\ UNCHANGED <<procVars, treeVars, schedVars, stdinVars, argVars, irq>>
    BY DEF AddTimerLink
  <1>1. /\ timer \in [time : Nat, expires : Nat, pos : Nat]
        /\ timer_list \in Seq(T) /\ n \in Nat
        /\ kpc \in [Procs -> Locations] /\ parent \in [Procs -> Procs]
        /\ state \in [Procs -> States]
    BY DEF Inv, TypeOK
  <1>2. /\ current \in Procs /\ kpc[current] = "addtimer" /\ state[current] = "SLEEPING"
        /\ irq = "none" /\ halted = "no" /\ current # Idle /\ current # Init0
    BY <1>0 DEF At, Inv, TypeOK, Control
  <1>3. k <= n /\ k \in Nat /\ (k = 0 => timer.expires # 0)
    BY <1>1, <1>2 DEF Inv, TimerControl
  <1>4. \A i \in 1..n : timer_list[i] \in T
    BY <1>1, ElementOfSeq, Zenon
  <1>5. new \in T /\ new.proc = current
    BY <1>1, <1>2
  <1>6. k < n => nxt \in T /\ nxt.proc = timer_list[k + 1].proc
    <2> SUFFICES ASSUME k < n PROVE nxt \in T /\ nxt.proc = timer_list[k + 1].proc
      OBVIOUS
    <2>1. timer_list[k + 1] \in T /\ timer.expires < timer_list[k + 1].expires
      BY <1>0, <1>1, <1>3, <1>4 DEF AtNextLater
    <2>2. nxt = [proc |-> timer_list[k + 1].proc,
                 expires |-> timer_list[k + 1].expires - timer.expires]
      BY <2>1
    <2>3. timer_list[k + 1].expires - timer.expires \in Nat
      BY <1>1, <2>1
    <2> QED
      BY <2>1, <2>2, <2>3
  <1>7. timer_list' = [j \in 1..(n + 1) |-> IF j <= k THEN timer_list[j]
                                            ELSE IF j = k + 1 THEN new
                                            ELSE IF j = k + 2 THEN nxt
                                            ELSE timer_list[j - 1]]
    <2>1. timer_list' = [j \in 1..(n + 1) |->
                           IF j <= k THEN timer_list[j]
                           ELSE IF j = k + 1 THEN new
                           ELSE IF j = k + 2
                           THEN [timer_list[j - 1] EXCEPT !.expires = @ - timer.expires]
                           ELSE timer_list[j - 1]]
      BY DEF AddTimerLink
    <2>2. \A j \in 1..(n + 1) : j = k + 2 => j - 1 = k + 1
      BY <1>1, <1>3
    <2> QED
      BY <2>1, <2>2, Zenon
  <1> HIDE DEF new, nxt, T
  <1>8. \A j \in 1..(n + 1) : timer_list'[j] \in T
    BY <1>1, <1>3, <1>4, <1>5, <1>6, <1>7
  <1>9. timer_list' \in Seq(T) /\ Len(timer_list') = n + 1
    BY <1>1, <1>7, <1>8
  <1>10. /\ timer_list'[k + 1].proc = current
         /\ \A i \in 1..k : timer_list'[i] = timer_list[i]
         /\ \A i \in (k + 1)..n : timer_list'[i + 1].proc = timer_list[i].proc
    BY <1>1, <1>3, <1>5, <1>6, <1>7
  <1>11. timer_list'[1].expires # 0
    <2>1. CASE k = 0
      BY <1>3, <1>7, <2>1 DEF new
    <2>2. CASE k # 0
      <3>1. 1 \in 1..n /\ 1 \in 1..k /\ timer_list # <<>>
        BY <1>1, <1>3, <2>2
      <3> QED
        BY <1>2, <1>10, <3>1 DEF Inv, TimerControl
    <2> QED
      BY <2>1, <2>2
  <1>12. /\ kpc' \in [Procs -> Locations] /\ kpc'[current] = "sleepret"
         /\ \A x \in Procs \ {current} : kpc'[x] = kpc[x]
    BY <1>0, <1>1, <1>2 DEF Goto, Locations
  <1>13. ~HasTimer(current)
    BY <1>2 DEF HasTimer, Inv, NoDanglingStackNode
  <1>14. HasTimer(current)' /\ \A x \in Procs : HasTimer(x) => HasTimer(x)'
    <2>1. HasTimer(current)'
      <3>1. k + 1 \in 1..Len(timer_list') /\ current' = current
        BY <1>0, <1>1, <1>3, <1>9 DEF schedVars
      <3> QED
        BY <1>10, <3>1 DEF HasTimer
    <2>2. ASSUME NEW x \in Procs, HasTimer(x) PROVE HasTimer(x)'
      <3>1. PICK i \in 1..n : timer_list[i].proc = x
        BY <2>2 DEF HasTimer
      <3>2. i \in 1..k \/ i \in (k + 1)..n
        BY <1>1, <1>3
      <3>3. i \in 1..(n + 1) /\ i + 1 \in 1..(n + 1)
        BY <1>1
      <3> QED
        BY <1>9, <1>10, <3>1, <3>2, <3>3 DEF HasTimer
    <2> QED
      BY <2>1, <2>2
  <1>15. TypeOK' /\ NoAssertFails'
    BY <1>0, <1>2, <1>9, <1>12, <1>13 DEF Inv, TypeOK, NoAssertFails, NoTimer, KAssert, T,
       procVars, treeVars, schedVars, stdinVars, argVars
  <1>16. RunQueueExact' /\ NoLostChildWakeup' /\ Forest'
    BY <1>0 DEF Inv, RunQueueExact, NoLostChildWakeup, Awaited, Child, Forest, procVars,
       treeVars, schedVars, argVars
  <1>17. SleepersCanBeWoken'
    <2>1. \A x \in Procs : Waiting(x)' = Waiting(x) /\ Child(x)' = Child(x)
      BY <1>0 DEF Waiting, Child, procVars, treeVars, stdinVars
    <2>2. SleepersCanBeWoken
      BY DEF Inv
    <2>3. current' = current /\ state' = state /\ wait_state' = wait_state
      BY <1>0 DEF schedVars, procVars
    <2> QED
      BY <1>12, <1>14, <2>1, <2>2, <2>3 DEF SleepersCanBeWoken
  <1>18. NoDanglingStackNode'
    <2>1. NoDanglingStackNode
      BY DEF Inv
    <2>2. \A i \in 1..n : timer_list[i].proc \in Procs \ {current}
      BY <1>2, <2>1, ListTypes DEF NoDanglingStackNode
    <2>3. ASSUME NEW j \in 1..(n + 1), j < k + 1
          PROVE  j \in 1..n /\ timer_list'[j].proc = timer_list[j].proc
      <3>1. j \in 1..n /\ j \in 1..k
        BY <1>1, <1>3, <2>3
      <3> QED
        BY <1>10, <3>1
    <2>4. ASSUME NEW j \in 1..(n + 1), j > k + 1
          PROVE  j - 1 \in 1..n /\ timer_list'[j].proc = timer_list[j - 1].proc
      <3>1. j - 1 \in 1..n /\ j - 1 \in (k + 1)..n /\ (j - 1) + 1 = j
        BY <1>1, <1>3, <2>4
      <3> QED
        BY <1>10, <3>1
    <2>5. ASSUME NEW j \in 1..(n + 1)
          PROVE  /\ kpc'[timer_list'[j].proc] = "sleepret"
                 /\ timer_list'[j].proc = current <=> j = k + 1
      <3>1. CASE j = k + 1
        BY <1>10, <1>12, <3>1
      <3>2. CASE j < k + 1
        BY <1>12, <2>1, <2>2, <2>3, <3>2 DEF NoDanglingStackNode
      <3>3. CASE j > k + 1
        BY <1>12, <2>1, <2>2, <2>4, <3>3 DEF NoDanglingStackNode
      <3> QED
        BY <1>3, <3>1, <3>2, <3>3
    <2>6. ASSUME NEW i \in 1..(n + 1), NEW j \in 1..(n + 1),
                 timer_list'[i].proc = timer_list'[j].proc
          PROVE  i = j
      <3> DEFINE old(x) == IF x < k + 1 THEN x ELSE x - 1
      <3>1. CASE i = k + 1 \/ j = k + 1
        BY <2>5, <2>6, <3>1
      <3>2. CASE i # k + 1 /\ j # k + 1
        <4>1. /\ old(i) \in 1..n /\ timer_list'[i].proc = timer_list[old(i)].proc
              /\ old(j) \in 1..n /\ timer_list'[j].proc = timer_list[old(j)].proc
          <5>1. old(i) \in 1..n /\ timer_list'[i].proc = timer_list[old(i)].proc
            <6>1. CASE i < k + 1
              BY <2>3, <6>1
            <6>2. CASE i > k + 1
              <7>1. ~(i < k + 1)
                BY <1>3, <6>2
              <7> QED
                BY <2>4, <6>2, <7>1
            <6> QED
              BY <1>3, <3>2, <6>1, <6>2
          <5>2. old(j) \in 1..n /\ timer_list'[j].proc = timer_list[old(j)].proc
            <6>1. CASE j < k + 1
              BY <2>3, <6>1
            <6>2. CASE j > k + 1
              <7>1. ~(j < k + 1)
                BY <1>3, <6>2
              <7> QED
                BY <2>4, <6>2, <7>1
            <6> QED
              BY <1>3, <3>2, <6>1, <6>2
          <5> QED
            BY <5>1, <5>2
        <4>2. old(i) = old(j)
          BY <2>1, <2>6, <4>1 DEF NoDanglingStackNode
        <4> QED
          BY <1>3, <3>2, <4>2
      <3> QED
        BY <3>1, <3>2
    <2>7. \A i \in 1..Len(wait_queue) : kpc'[wait_queue[i]] = "readret"
      BY <1>2, <1>12, <2>1, ListTypes DEF NoDanglingStackNode
    <2> QED
      BY <1>0, <1>9, <2>1, <2>5, <2>6, <2>7 DEF NoDanglingStackNode, stdinVars
  <1>19. FamilyTreeSound'
    BY <1>0, <1>1, <1>2, <1>12 DEF Inv, FamilyTreeSound, Procs, procVars, treeVars, schedVars
  <1>20. Control'
    <2>1. Control
      BY DEF Inv
    <2>2. current' = current /\ state' = state /\ waitpid' = waitpid /\ irq' = "none"
      BY <1>0, <1>2 DEF schedVars, procVars, argVars
    <2>3. \A x \in Procs :
             /\ state'[x] \in {"UNUSED", "ZOMBIE"} <=> kpc'[x] \in {"dead", "reparent"}
             /\ kpc'[x] \notin {"reparent", "addtimer"}
      BY <1>2, <1>12, <2>1, <2>2 DEF Control
    <2> QED
      BY <1>0, <1>2, <1>12, <2>1, <2>2, <2>3 DEF Control, Procs
  <1>21. TimerControl'
    BY <1>0, <1>11, <1>12 DEF TimerControl, schedVars
  <1> QED
    BY <1>15, <1>16, <1>17, <1>18, <1>19, <1>20, <1>21 DEF Inv

(* del_timer() unlinks the timer of p and no other, and leaves the first    *)
(* timer in the future.                                                     *)
LEMMA DelTimer ==
    ASSUME Inv, NEW p \in Procs, del_timer(p), irq = "none"
    PROVE  /\ timer_list' \in Seq([proc : Procs, expires : Nat])
           /\ \A x \in Procs \ {p} : HasTimer(x) => HasTimer(x)'
           /\ \A i \in 1..Len(timer_list') : /\ timer_list'[i].proc \in Procs \ {p}
                                             /\ kpc[timer_list'[i].proc] = "sleepret"
           /\ \A i, j \in 1..Len(timer_list') :
                 timer_list'[i].proc = timer_list'[j].proc => i = j
           /\ timer_list' # <<>> => timer_list'[1].expires # 0
  <1> DEFINE n == Len(timer_list)
             T == [proc : Procs, expires : Nat]
  <1>1. timer_list \in Seq(T) /\ n \in Nat
    BY DEF Inv, TypeOK
  <1>2. NoDanglingStackNode /\ (timer_list # <<>> => timer_list[1].expires # 0)
    BY DEF Inv, TimerControl
  <1>3. CASE ~HasTimer(p)
    BY <1>1, <1>2, <1>3, ListTypes DEF del_timer, HasTimer, NoDanglingStackNode
  <1>4. CASE HasTimer(p)
    <2>1. PICK i \in 1..n :
            /\ timer_list[i].proc = p
            /\ timer_list' =
                 [j \in 1..(n - 1) |->
                    IF j < i THEN timer_list[j]
                    ELSE IF j = i
                    THEN [timer_list[j + 1] EXCEPT !.expires = @ + timer_list[i].expires]
                    ELSE timer_list[j + 1]]
      BY <1>4 DEF del_timer
    <2> DEFINE nxt == [timer_list[i + 1] EXCEPT !.expires = @ + timer_list[i].expires]
               old(j) == IF j < i THEN j ELSE j + 1
    <2>2. \A j \in 1..n : timer_list[j] \in T
      BY <1>1, ElementOfSeq, Zenon
    <2>3. i < n => /\ nxt \in T /\ nxt.proc = timer_list[i + 1].proc
                   /\ nxt.expires = timer_list[i + 1].expires + timer_list[i].expires
      <3> SUFFICES ASSUME i < n
                   PROVE  /\ nxt \in T /\ nxt.proc = timer_list[i + 1].proc
                          /\ nxt.expires = timer_list[i + 1].expires + timer_list[i].expires
        OBVIOUS
      <3>1. timer_list[i + 1] \in T /\ timer_list[i] \in T
        BY <1>1, <2>2
      <3>2. nxt = [proc |-> timer_list[i + 1].proc,
                   expires |-> timer_list[i + 1].expires + timer_list[i].expires]
        BY <3>1
      <3> QED
        BY <3>1, <3>2
    <2>4. timer_list' = [j \in 1..(n - 1) |-> IF j < i THEN timer_list[j]
                                              ELSE IF j = i THEN nxt ELSE timer_list[j + 1]]
      BY <2>1, Zenon
    <2> HIDE DEF nxt, T
    <2>5. timer_list' \in Seq(T) /\ Len(timer_list') = n - 1
      <3>1. \A j \in 1..(n - 1) : timer_list'[j] \in T
        BY <1>1, <2>2, <2>3, <2>4
      <3>2. n - 1 \in Nat
        BY <1>1
      <3> QED
        BY <2>4, <3>1, <3>2
    <2>6. ASSUME NEW j \in 1..(n - 1)
          PROVE  /\ old(j) \in 1..n /\ old(j) # i
                 /\ timer_list'[j].proc = timer_list[old(j)].proc
      BY <1>1, <2>3, <2>4
    <2>7. ASSUME NEW x \in Procs \ {p}, HasTimer(x) PROVE HasTimer(x)'
      <3>1. PICK k \in 1..n : timer_list[k].proc = x
        BY <2>7 DEF HasTimer
      <3> DEFINE j == IF k < i THEN k ELSE k - 1
      <3>2. k # i
        BY <2>1, <3>1
      <3>3. j \in 1..(n - 1) /\ old(j) = k
        BY <1>1, <3>2
      <3> QED
        BY <2>5, <2>6, <3>1, <3>3 DEF HasTimer
    <2>8. ASSUME NEW j \in 1..(n - 1)
          PROVE  /\ timer_list'[j].proc \in Procs \ {p}
                 /\ kpc[timer_list'[j].proc] = "sleepret"
      BY <1>2, <2>1, <2>6, ListTypes DEF NoDanglingStackNode
    <2>9. ASSUME NEW j \in 1..(n - 1), NEW k \in 1..(n - 1),
                 timer_list'[j].proc = timer_list'[k].proc
          PROVE  j = k
      <3>1. old(j) = old(k)
        BY <1>2, <2>6, <2>9 DEF NoDanglingStackNode
      <3> QED
        BY <3>1
    <2>10. timer_list' # <<>> => timer_list'[1].expires # 0
      <3> SUFFICES ASSUME timer_list' # <<>> PROVE timer_list'[1].expires # 0
        OBVIOUS
      <3>1. 1 \in 1..(n - 1) /\ timer_list[1].expires # 0
        BY <1>1, <1>2, <2>5
      <3>2. CASE i = 1
        <4>1. timer_list'[1] = nxt /\ nxt.expires = timer_list[2].expires + timer_list[1].expires
          BY <1>1, <2>3, <2>4, <3>1, <3>2
        <4>2. timer_list[1].expires \in Nat /\ timer_list[2].expires \in Nat
          BY <1>1, <3>1, ListTypes
        <4> QED
          BY <3>1, <4>1, <4>2
      <3>3. CASE i # 1
        BY <1>1, <2>4, <3>1, <3>3
      <3> QED
        BY <3>2, <3>3
    <2> QED
      BY <2>5, <2>7, <2>8, <2>9, <2>10 DEF T
  <1> QED
    BY <1>3, <1>4

LEMMA SleepReturnInv == Inv /\ SleepReturn => Inv'
  <1> SUFFICES ASSUME Inv, SleepReturn PROVE Inv'
    OBVIOUS
  <1>0. /\ At("sleepret") /\ kpc[current] = "sleepret" /\ irq = "none"
        /\ del_timer(current) /\ Goto("tail") /\ current \in Procs
        /\ UNCHANGED <<timer, procVars, treeVars, schedVars, stdinVars, argVars, insched, irq,
                       halted>>
    BY DEF SleepReturn, At, Inv, TypeOK
  <1>1. /\ timer_list' \in Seq([proc : Procs, expires : Nat])
        /\ \A x \in Procs \ {current} : HasTimer(x) => HasTimer(x)'
        /\ \A i \in 1..Len(timer_list') : /\ timer_list'[i].proc \in Procs \ {current}
                                          /\ kpc[timer_list'[i].proc] = "sleepret"
        /\ \A i, j \in 1..Len(timer_list') :
              timer_list'[i].proc = timer_list'[j].proc => i = j
        /\ timer_list' # <<>> => timer_list'[1].expires # 0
    BY <1>0, DelTimer
  <1>2. \A x \in Procs \ {current} :
               (HasTimer(x) => HasTimer(x)') /\ (Waiting(x) => Waiting(x)')
    BY <1>0, <1>1 DEF Waiting, stdinVars
  <1>3. /\ RunQueueExact' /\ SleepersCanBeWoken' /\ NoLostChildWakeup'
        /\ FamilyTreeSound' /\ Control' /\ Forest' /\ NoAssertFails'
        /\ kpc' \in [Procs -> Locations]
        /\ \A x \in Procs \ {current} : kpc'[x] = kpc[x]
        /\ kpc'[current] # "addtimer"
    BY <1>0, <1>2, Resume DEF procVars, treeVars, schedVars, argVars
  <1>4. TypeOK'
    BY <1>0, <1>1, <1>3 DEF Inv, TypeOK, procVars, treeVars, schedVars, stdinVars, argVars
  <1>5. NoDanglingStackNode'
    <2>1. \A i \in 1..Len(wait_queue) : wait_queue[i] \in Procs \ {current}
      BY <1>0, ListTypes DEF Inv, NoDanglingStackNode
    <2> QED
      BY <1>0, <1>1, <1>3, <2>1 DEF Inv, NoDanglingStackNode, stdinVars
  <1>6. TimerControl'
    BY <1>0, <1>1, <1>3 DEF TimerControl, schedVars
  <1> QED
    BY <1>3, <1>4, <1>5, <1>6 DEF Inv
=============================================================================
