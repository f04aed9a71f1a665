----------------------------- MODULE ProcProofs -----------------------------
(* Exiting and reaping preserve the invariant; the theorems about Proc, for *)
(* every number of processes and every bound.                               *)
EXTENDS ProcForkProofs

LEMMA DoExitInv == Inv /\ DoExit => Inv'
  <1> SUFFICES ASSUME Inv, DoExit PROVE Inv'
    OBVIOUS
  <1>0. /\ At("exit")
        /\ UNCHANGED <<treeVars, current, timerVars, stdinVars, argVars, insched, irq>>
    BY DEF DoExit
  <1>1. CASE current = Init0
    BY <1>0, <1>1, Panic DEF DoExit, schedVars
  <1>2. CASE current # Init0
    <2> DEFINE dad == parent[current]
               wake == wait_state[dad] = "WT_CHILD" /\ state[dad] # "RUNNABLE"
    <2>0. /\ state' = [p \in Procs |-> IF p = current THEN "ZOMBIE"
                                       ELSE IF wake /\ p = dad THEN "RUNNABLE" ELSE state[p]]
          /\ wait_state' = IF wake THEN [wait_state EXCEPT ![dad] = "0"] ELSE wait_state
          /\ IF wake /\ dad # Idle THEN RR_enqueue(dad) ELSE UNCHANGED <<run_list, time_slice>>
          /\ KAssert(WakeupAsserts(wait_state[dad] = "WT_CHILD", dad))
          /\ Goto("reparent") /\ UNCHANGED <<exiting, need_resched>>
      BY <1>2 DEF DoExit
    <2>1. /\ state \in [Procs -> States] /\ wait_state \in [Procs -> {"0"} \cup Interruptible]
          /\ time_slice \in [Procs -> 0..MAX_TIME_SLICE] /\ parent \in [Procs -> Procs]
          /\ run_list \in Seq(Procs) /\ kpc \in [Procs -> Locations]
      BY DEF Inv, TypeOK
    <2>2. /\ current \in Procs /\ current # Idle /\ kpc[current] = "exit" /\ halted = "no"
          /\ state[current] = "RUNNABLE" /\ wait_state[current] = "0" /\ irq = "none"
          /\ insched = FALSE
      <3> DEFINE l == "exit"
      <3>1. At(l) /\ l \notin {"reparent", "addtimer", "idle"}
        BY <1>0
      <3>2. kpc[current] = "exit"
        BY <1>0 DEF At
      <3> HIDE DEF l
      <3> QED
        BY <3>1, <3>2, AtFacts
    <2>3. current \in UserProc
      BY <1>2, <2>2 DEF Procs
    <2>4. /\ dad \in Procs /\ dad # Idle /\ dad # current
          /\ state[dad] \in {"RUNNABLE", "SLEEPING"}
      <3>1. dad \in Procs /\ dad # Idle /\ state[dad] # "UNUSED"
            /\ (state[dad] = "ZOMBIE" => dad = current)
        BY <2>1, <2>2, <2>3 DEF Inv, FamilyTreeSound
      <3>2. dad # current
        <4>1. {current} \in SUBSET UserProc /\ {current} # {}
              /\ \A p \in {current} : state[p] # "UNUSED"
          BY <2>2, <2>3
        <4>2. \E p \in {current} : parent[p] \notin {current}
          BY <4>1 DEF Inv, Forest
        <4> QED
          BY <4>2
      <3> QED
        BY <2>1, <3>1, <3>2 DEF States
    <2>5. wake <=> wait_state[dad] = "WT_CHILD"
      BY <2>4 DEF Inv, SleepersCanBeWoken
    <2> HIDE DEF dad, wake
    <2>6. \A x \in Procs :
            /\ state'[x] = IF x = current THEN "ZOMBIE"
                           ELSE IF wake /\ x = dad THEN "RUNNABLE" ELSE state[x]
            /\ wait_state'[x] = IF wake /\ x = dad THEN "0" ELSE wait_state[x]
            /\ kpc'[x] = IF x = current THEN "reparent" ELSE kpc[x]
      BY <2>0, <2>1, <2>2, <2>4 DEF Goto
    <2> DEFINE R == {x \in Procs \ {Idle, current} : state[x] = "RUNNABLE"}
    <2>7. ListsOnce(run_list, R) /\ \A i \in 1..Len(run_list) : time_slice[run_list[i]] # 0
      BY DEF Inv, RunQueueExact
    <2>8. WakeupAsserts(wait_state[dad] = "WT_CHILD", dad)
      <3>1. state[dad] # "RUNNABLE" => ~Queued(dad)
        BY <2>7 DEF ListsOnce, Queued
      <3> QED
        BY <2>4, <3>1 DEF WakeupAsserts
    <2>9. /\ run_list' \in Seq(Procs) /\ time_slice' \in [Procs -> 0..MAX_TIME_SLICE]
          /\ RunQueueExact'
      <3>1. CASE wake
        <4>1. /\ run_list' = Append(run_list, dad)
              /\ time_slice' = [time_slice EXCEPT ![dad] = RefillSlice(dad)]
          BY <2>0, <2>4, <3>1 DEF RR_enqueue
        <4>2. dad \notin R /\ R \cup {dad} = {x \in Procs \ {Idle, current'} : state'[x] = "RUNNABLE"}
          <5>1. wait_state[dad] = "WT_CHILD" /\ state[dad] # "RUNNABLE"
            BY <3>1 DEF wake
          <5> QED
            BY <1>0, <2>4, <2>6, <3>1, <5>1
        <4>3. RefillSlice(dad) \in 1..MAX_TIME_SLICE
          BY <2>1, <2>4, ProcAssumption DEF RefillSlice
        <4>4. /\ time_slice' \in [Procs -> 0..MAX_TIME_SLICE]
              /\ \A x \in Procs : x = dad \/ time_slice[x] # 0 => time_slice'[x] # 0
          BY <2>1, <2>4, <4>1, <4>3
        <4> HIDE DEF R
        <4>5. run_list' \in Seq(Procs) /\ ListsOnce(run_list', R \cup {dad})
          BY <2>1, <2>4, <2>7, <4>1, <4>2, ListsOnceAppend
        <4>6. \A i \in 1..Len(run_list') : run_list'[i] = dad \/ \E j \in 1..Len(run_list) : run_list'[i] = run_list[j]
          BY <2>1, <2>4, <4>1, AppendElements
        <4>7. \A i \in 1..Len(run_list') : time_slice'[run_list'[i]] # 0
          BY <2>4, <2>7, <4>4, <4>6, ListTypes
        <4> QED
          BY <4>2, <4>4, <4>5, <4>7 DEF RunQueueExact
      <3>2. CASE ~wake
        <4>1. R = {x \in Procs \ {Idle, current'} : state'[x] = "RUNNABLE"}
          BY <1>0, <2>6, <3>2
        <4>2. UNCHANGED <<run_list, time_slice>>
          BY <2>0, <3>2
        <4> QED
          BY <2>1, <2>7, <4>1, <4>2 DEF RunQueueExact
      <3> QED
        BY <3>1, <3>2
    <2>10. TypeOK' /\ NoAssertFails'
      <3>1. state' \in [Procs -> States]
        <4>1. \A x \in Procs : (IF x = current THEN "ZOMBIE"
                                ELSE IF wake /\ x = dad THEN "RUNNABLE" ELSE state[x]) \in States
          BY <2>1 DEF States
        <4> QED
          BY <2>0, <4>1
      <3>2. wait_state' \in [Procs -> {"0"} \cup Interruptible]
        BY <2>0, <2>1
      <3>3. kpc' \in [Procs -> Locations] /\ halted' = "no"
        BY <2>0, <2>1, <2>2, <2>8 DEF Goto, Locations, KAssert
      <3> QED
        BY <1>0, <2>0, <2>9, <3>1, <3>2, <3>3 DEF Inv, TypeOK, NoAssertFails, treeVars, timerVars,
           stdinVars, argVars
    <2>11. \A x \in Procs : state'[x] = "UNUSED" <=> state[x] = "UNUSED"
      BY <2>2, <2>4, <2>6
    <2>12. \A x \in Procs : /\ Child(x)' = Child(x) /\ Awaited(x)' = Awaited(x)
                            /\ Awaited(x) \subseteq Child(x) /\ Child(x) \subseteq Procs
      BY <1>0, <2>11 DEF Child, Awaited, treeVars, argVars
    <2>13. SleepersCanBeWoken'
      <3>1. \A x \in Procs : HasTimer(x)' = HasTimer(x) /\ Waiting(x)' = Waiting(x)
        BY <1>0 DEF HasTimer, Waiting, timerVars, stdinVars
      <3>2. SleepersCanBeWoken
        BY DEF Inv
      <3> QED
        BY <1>0, <2>2, <2>4, <2>6, <2>12, <3>1, <3>2 DEF SleepersCanBeWoken
    <2>14. NoDanglingStackNode'
      <3>1. \A x \in Procs : kpc[x] \in {"sleepret", "readret"} => kpc'[x] = kpc[x]
        BY <2>2, <2>6
      <3> QED
        BY <1>0, <3>1, ListTypes DEF Inv, NoDanglingStackNode, timerVars, stdinVars
    <2>15. NoLostChildWakeup'
      <3>1. \A x \in Procs : current \in Child(x) => x = dad
        BY DEF Child, dad
      <3>2. NoLostChildWakeup
        BY DEF Inv
      <3>3. ASSUME NEW x \in Procs, wait_state'[x] = "WT_CHILD", NEW c \in Awaited(x)
            PROVE  state'[c] # "ZOMBIE"
        <4>1. wait_state[x] = "WT_CHILD" /\ x # dad
          BY <2>5, <2>6, <3>3
        <4>2. c \in Procs /\ c # current
          BY <2>12, <3>1, <4>1
        <4>3. state[c] # "ZOMBIE"
          BY <3>2, <4>1 DEF NoLostChildWakeup
        <4> QED
          BY <2>6, <4>2, <4>3
      <3> QED
        BY <2>12, <3>3 DEF NoLostChildWakeup
    <2>16. FamilyTreeSound'
      <3>1. {x \in Procs : state'[x] # "UNUSED"} = {x \in Procs : state[x] # "UNUSED"}
        BY <2>11
      <3>2. FamilyTreeSound /\ UserProc \subseteq Procs
        BY DEF Inv, Procs
      <3>3. \A x \in Procs : state'[x] = "ZOMBIE" => x = current \/ state[x] = "ZOMBIE"
        BY <2>6
      <3>4. parent' = parent /\ nr_process' = nr_process /\ current' = current
        BY <1>0 DEF treeVars
      <3>5. ASSUME NEW p \in UserProc, state'[p] # "UNUSED"
            PROVE  LET d == parent[p]
                   IN /\ d # Idle /\ state'[d] # "UNUSED"
                      /\ state'[d] = "ZOMBIE" => d = current /\ kpc'[d] = "reparent"
        <4>1. p \in Procs /\ state[p] # "UNUSED" /\ parent[p] \in Procs
          BY <2>1, <2>11, <3>2, <3>5
        <4>2. /\ parent[p] # Idle /\ state[parent[p]] # "UNUSED"
              /\ state[parent[p]] = "ZOMBIE" => parent[p] = current
          BY <3>2, <4>1 DEF FamilyTreeSound
        <4>3. kpc'[current] = "reparent"
          BY <2>2, <2>6
        <4> QED
          BY <2>11, <3>3, <4>1, <4>2, <4>3
      <3> QED
        BY <3>1, <3>2, <3>4, <3>5 DEF FamilyTreeSound
    <2>17. Control'
      <3>1. Control
        BY DEF Inv
      <3>2. \A x \in Procs :
             /\ state'[x] \in {"UNUSED", "ZOMBIE"} <=> kpc'[x] \in {"dead", "reparent"}
             /\ kpc'[x] = "reparent" => state'[x] = "ZOMBIE" /\ x = current
             /\ kpc'[x] # "addtimer"
        BY <2>2, <2>4, <2>6, <3>1 DEF Control
      <3>3. /\ kpc'[Idle] = "idle" /\ state'[Idle] = "RUNNABLE"
            /\ kpc'[Init0] \in {"initmain", "wait", "waitret", "exit"}
            /\ state'[Init0] \in {"RUNNABLE", "SLEEPING"}
            /\ \A x \in UserProc : kpc'[x] \notin {"idle", "initmain"}
        BY <1>2, <2>2, <2>6, <3>1 DEF Control, Procs
      <3> QED
        BY <1>0, <2>2, <2>6, <3>1, <3>2, <3>3 DEF Control, argVars
    <2>18. TimerControl'
      BY <1>0, <2>2, <2>6 DEF Inv, TimerControl, timerVars
    <2>19. Forest'
      BY <1>0, <2>11 DEF Inv, Forest, Procs, treeVars
    <2> QED
      BY <2>9, <2>10, <2>13, <2>14, <2>15, <2>16, <2>17, <2>18, <2>19 DEF Inv
  <1> QED
    BY <1>1, <1>2

LEMMA ReparentInv == Inv /\ Reparent => Inv'
  <1> SUFFICES ASSUME Inv, Reparent PROVE Inv'
    OBVIOUS
  <1> DEFINE b == WakesInit(current)
  <1>0. /\ At("reparent") /\ parent' = Adopt(current)
        /\ wakeup_proc(b, Init0) /\ KAssert(WakeupAsserts(b, Init0))
        /\ Goto("dead") /\ insched' = TRUE
        /\ UNCHANGED <<exiting, need_resched, nr_process, current, timerVars,
                       stdinVars, argVars, irq>>
    BY DEF Reparent
  <1>1. /\ state \in [Procs -> States] /\ wait_state \in [Procs -> {"0"} \cup Interruptible]
        /\ kpc \in [Procs -> Locations] /\ parent \in [Procs -> Procs] /\ current \in Procs
        /\ Init0 \in Procs
    BY DEF Inv, TypeOK, Procs
  <1>2. /\ kpc[current] = "reparent" /\ state[current] = "ZOMBIE" /\ wait_state[current] = "0"
        /\ irq = "none" /\ halted = "no" /\ current # Idle /\ current # Init0
    BY <1>0, <1>1 DEF At, Inv, Control, SleepersCanBeWoken
  <1>3. b \in BOOLEAN /\ (b => state[Init0] = "SLEEPING" /\ wait_state[Init0] = "WT_CHILD")
    BY <1>1 DEF WakesInit, Inv, SleepersCanBeWoken
  <1>4. ~b /\ wait_state[Init0] = "WT_CHILD" => Zombies(current) = {}
    BY DEF WakesInit
  <1> HIDE DEF b
  <1>5. /\ RunQueueExact' /\ WakeupAsserts(b, Init0) /\ run_list' \in Seq(Procs)
        /\ time_slice' \in [Procs -> 0..MAX_TIME_SLICE]
        /\ state' = IF b THEN [state EXCEPT ![Init0] = "RUNNABLE"] ELSE state
        /\ wait_state' = IF b THEN [wait_state EXCEPT ![Init0] = "0"] ELSE wait_state
    BY <1>0, <1>1, <1>3, Wakeup
  <1>6. \A x \in Procs : /\ state'[x] = IF b /\ x = Init0 THEN "RUNNABLE" ELSE state[x]
                         /\ wait_state'[x] = IF b /\ x = Init0 THEN "0" ELSE wait_state[x]
                         /\ kpc'[x] = IF x = current THEN "dead" ELSE kpc[x]
                         /\ parent'[x] = IF x \in Child(current) THEN Init0 ELSE parent[x]
    BY <1>0, <1>1, <1>5 DEF Goto, Adopt
  <1>7. TypeOK' /\ NoAssertFails'
    <2>1. state' \in [Procs -> States] /\ wait_state' \in [Procs -> {"0"} \cup Interruptible]
      BY <1>1, <1>5 DEF States
    <2>2. kpc' \in [Procs -> Locations] /\ halted' = "no"
      BY <1>0, <1>1, <1>2, <1>5 DEF Goto, Locations, KAssert
    <2>3. parent' \in [Procs -> Procs]
      BY <1>0, <1>1 DEF Adopt
    <2> QED
      BY <1>0, <1>5, <2>1, <2>2, <2>3 DEF Inv, TypeOK, NoAssertFails, timerVars, stdinVars, argVars
  <1>8. \A x \in Procs : /\ state'[x] = "UNUSED" <=> state[x] = "UNUSED"
                         /\ state'[x] = "ZOMBIE" <=> state[x] = "ZOMBIE"
    BY <1>3, <1>6
  <1>9. /\ \A x \in Procs \ {current, Init0} : Child(x)' = Child(x)
        /\ Child(Init0)' = Child(Init0) \cup Child(current)
        /\ \A x \in Procs : Child(x) \subseteq Procs
    BY <1>1, <1>2, <1>6, <1>8 DEF Child
  <1>10. SleepersCanBeWoken'
    <2>1. \A x \in Procs : HasTimer(x)' = HasTimer(x) /\ Waiting(x)' = Waiting(x)
      BY <1>0 DEF HasTimer, Waiting, timerVars, stdinVars
    <2>2. SleepersCanBeWoken
      BY DEF Inv
    <2>3. \A x \in Procs : kpc[x] = "addtimer" => x # current
      BY <1>2
    <2>4. \A x \in Procs : x # current /\ Child(x) # {} => Child(x)' # {}
      BY <1>9
    <2> QED
      BY <1>0, <1>2, <1>3, <1>6, <2>1, <2>2, <2>3, <2>4 DEF SleepersCanBeWoken
  <1>11. NoDanglingStackNode'
    <2>1. \A x \in Procs : kpc[x] \in {"sleepret", "readret"} => kpc'[x] = kpc[x]
      BY <1>2, <1>6
    <2> QED
      BY <1>0, <2>1, ListTypes DEF Inv, NoDanglingStackNode, timerVars, stdinVars
  <1>12. NoLostChildWakeup'
    <2>1. NoLostChildWakeup /\ waitpid' = waitpid
      BY <1>0 DEF Inv, argVars
    <2>2. ASSUME NEW x \in Procs, wait_state'[x] = "WT_CHILD", NEW c \in Awaited(x)'
          PROVE  state'[c] # "ZOMBIE"
      <3>1. wait_state[x] = "WT_CHILD" /\ x # current /\ ~(b /\ x = Init0)
        BY <1>2, <1>6, <2>2
      <3>2. CASE x # Init0
        <4>1. Awaited(x)' = Awaited(x) /\ Awaited(x) \subseteq Procs
          BY <1>9, <2>1, <3>1, <3>2 DEF Awaited
        <4> QED
          BY <1>8, <2>1, <2>2, <3>1, <4>1 DEF NoLostChildWakeup
      <3>3. CASE x = Init0
        <4>1. Zombies(current) = {}
          BY <1>4, <3>1, <3>3
        <4>2. c \in Child(Init0) \cup Child(current) /\ c \in Procs
          BY <1>1, <1>9, <2>2, <3>3 DEF Awaited
        <4>3. Awaited(Init0) = Child(Init0)
          BY MoveTypes DEF Awaited
        <4>4. state[c] # "ZOMBIE"
          BY <1>1, <2>1, <3>1, <3>3, <4>1, <4>2, <4>3 DEF NoLostChildWakeup, Zombies
        <4> QED
          BY <1>8, <4>2, <4>4
      <3> QED
        BY <3>2, <3>3
    <2> QED
      BY <2>2 DEF NoLostChildWakeup
  <1>13. FamilyTreeSound'
    <2>1. {x \in Procs : state'[x] # "UNUSED"} = {x \in Procs : state[x] # "UNUSED"}
      BY <1>8
    <2>2. FamilyTreeSound /\ UserProc \subseteq Procs /\ Idle # Init0
      BY ProcAssumption DEF Inv, Procs
    <2>3. state[Init0] \in {"RUNNABLE", "SLEEPING"}
      BY DEF Inv, Control
    <2>4. ASSUME NEW p \in UserProc, state'[p] # "UNUSED"
          PROVE  LET dad == parent'[p]
                 IN /\ dad # Idle /\ state'[dad] # "UNUSED"
                    /\ state'[dad] = "ZOMBIE" => dad = current' /\ kpc'[dad] = "reparent"
      <3>1. p \in Procs /\ state[p] # "UNUSED"
        BY <1>8, <2>2, <2>4
      <3>2. CASE p \in Child(current)
        BY <1>1, <1>6, <1>8, <2>2, <2>3, <3>1, <3>2
      <3>3. CASE p \notin Child(current)
        <4>1. parent'[p] = parent[p] /\ parent[p] # current /\ parent[p] \in Procs
          BY <1>1, <1>6, <3>1, <3>3 DEF Child
        <4>2. /\ parent[p] # Idle /\ state[parent[p]] # "UNUSED" /\ state[parent[p]] # "ZOMBIE"
          BY <2>2, <3>1, <4>1 DEF FamilyTreeSound
        <4> QED
          BY <1>8, <4>1, <4>2
      <3> QED
        BY <3>2, <3>3
    <2> QED
      BY <1>0, <2>1, <2>2, <2>4 DEF FamilyTreeSound
  <1>14. Control'
    <2>1. Control
      BY DEF Inv
    <2>2. \A x \in Procs :
             /\ state'[x] \in {"UNUSED", "ZOMBIE"} <=> kpc'[x] \in {"dead", "reparent"}
             /\ kpc'[x] \notin {"reparent", "addtimer"}
      <3>1. state'[current] = "ZOMBIE" /\ kpc'[current] = "dead"
        BY <1>1, <1>2, <1>6, <1>8
      <3>2. ASSUME NEW x \in Procs \ {current}
            PROVE  /\ state'[x] \in {"UNUSED", "ZOMBIE"} <=> state[x] \in {"UNUSED", "ZOMBIE"}
                   /\ kpc'[x] = kpc[x]
                   /\ state[x] \in {"UNUSED", "ZOMBIE"} <=> kpc[x] \in {"dead", "reparent"}
                   /\ kpc[x] \notin {"reparent", "addtimer"}
        BY <1>6, <1>8, <2>1 DEF Control
      <3> QED
        BY <3>1, <3>2
    <2>3. /\ kpc'[Idle] = "idle" /\ state'[Idle] = "RUNNABLE"
          /\ kpc'[Init0] \in {"initmain", "wait", "waitret", "exit"}
          /\ state'[Init0] \in {"RUNNABLE", "SLEEPING"}
          /\ \A x \in UserProc : kpc'[x] \notin {"idle", "initmain"}
      BY <1>2, <1>6, <2>1, ProcAssumption DEF Control, Procs
    <2> QED
      BY <1>0, <1>1, <1>2, <1>6, <2>1, <2>2, <2>3 DEF Control, argVars
  <1>15. TimerControl'
    BY <1>0, <1>1, <1>2, <1>6 DEF Inv, TimerControl, timerVars
  <1>16. Forest'
    <2> SUFFICES ASSUME NEW S \in SUBSET UserProc, S # {}, \A p \in S : state'[p] # "UNUSED"
                 PROVE  \E p \in S : parent'[p] \notin S
      BY DEF Forest
    <2>1. S \subseteq Procs /\ Init0 \notin S /\ \A p \in S : state[p] # "UNUSED"
      BY <1>8, ProcAssumption DEF Procs
    <2>2. PICK p \in S : parent[p] \notin S
      BY <2>1 DEF Inv, Forest
    <2> QED
      BY <1>6, <2>1, <2>2
  <1> QED
    BY <1>5, <1>7, <1>10, <1>11, <1>12, <1>13, <1>14, <1>15, <1>16 DEF Inv

LEMMA ReapInv == Inv /\ Reap => Inv'
  <1> SUFFICES ASSUME Inv, Reap PROVE Inv'
    OBVIOUS
  <1>0. /\ At("wait") /\ nr_process' = nr_process - 1
        /\ IF current = Init0 THEN insched' = TRUE /\ UNCHANGED kpc
                              ELSE Goto("tail") /\ UNCHANGED insched
        /\ waitpid' = [waitpid EXCEPT ![current] = Idle]
        /\ UNCHANGED <<wait_state, need_resched, schedVars, timerVars, stdinVars, todo, irq,
                       halted>>
    BY DEF Reap
  <1>1. PICK z \in Awaited(current) :
          /\ state[z] = "ZOMBIE"
          /\ state' = [state EXCEPT ![z] = "UNUSED"]
          /\ exiting' = [exiting EXCEPT ![z] = FALSE]
          /\ time_slice' = [time_slice EXCEPT ![z] = 0]
          /\ parent' = [parent EXCEPT ![z] = Idle]
    BY DEF Reap
  <1>2. /\ state \in [Procs -> States] /\ wait_state \in [Procs -> {"0"} \cup Interruptible]
        /\ kpc \in [Procs -> Locations] /\ parent \in [Procs -> Procs] /\ Idle \in Procs
        /\ time_slice \in [Procs -> 0..MAX_TIME_SLICE] /\ exiting \in [Procs -> BOOLEAN]
        /\ waitpid \in [Procs -> Procs] /\ run_list \in Seq(Procs)
    BY DEF Inv, TypeOK, Procs
  <1>3. /\ current \in Procs /\ kpc[current] = "wait" /\ state[current] = "RUNNABLE"
        /\ wait_state[current] = "0" /\ irq = "none" /\ insched = FALSE /\ current # Idle
    <2> DEFINE l == "wait"
    <2>1. At(l) /\ l \notin {"reparent", "addtimer", "idle"}
      BY <1>0
    <2>2. kpc[current] = "wait"
      BY <1>0 DEF At
    <2> HIDE DEF l
    <2> QED
      BY <2>1, <2>2, AtFacts
  <1>4. /\ z \in Procs /\ z # current /\ z # Idle /\ z # Init0 /\ kpc[z] = "dead"
        /\ parent[z] = current /\ wait_state[z] = "0"
    <2>1. z \in Procs /\ parent[z] = current
      BY <1>1 DEF Awaited, Child
    <2> QED
      BY <1>1, <1>3, <2>1 DEF Inv, Control, SleepersCanBeWoken
  <1>5. \A x \in Procs : /\ state'[x] = IF x = z THEN "UNUSED" ELSE state[x]
                         /\ time_slice'[x] = IF x = z THEN 0 ELSE time_slice[x]
                         /\ parent'[x] = IF x = z THEN Idle ELSE parent[x]
                         /\ waitpid'[x] = IF x = current THEN Idle ELSE waitpid[x]
    BY <1>0, <1>1, <1>2
  <1>6. /\ kpc' \in [Procs -> Locations] /\ insched' \in BOOLEAN
        /\ \A x \in Procs \ {current} : kpc'[x] = kpc[x]
        /\ kpc'[current] = IF current = Init0 THEN "wait" ELSE "tail"
    BY <1>0, <1>2, <1>3 DEF Goto, Locations
  <1>7. nr_process' = Cardinality({p \in Procs : state'[p] # "UNUSED"}) /\ nr_process' \in Nat
    <2> DEFINE A == {p \in Procs : state[p] # "UNUSED"}
    <2>1. {p \in Procs : state'[p] # "UNUSED"} = A \ {z} /\ z \in A
      BY <1>1, <1>4, <1>5
    <2>2. nr_process = Cardinality(A)
      BY DEF Inv, FamilyTreeSound
    <2>3. Cardinality(A \ {z}) = Cardinality(A) - 1 /\ Cardinality(A \ {z}) \in Nat
      BY <1>4, <2>1, Allocated
    <2> QED
      BY <1>0, <2>1, <2>2, <2>3
  <1>8. TypeOK' /\ NoAssertFails'
    <2>1. state' \in [Procs -> States] /\ exiting' \in [Procs -> BOOLEAN]
      BY <1>1, <1>2 DEF States
    <2>2. parent' \in [Procs -> Procs] /\ waitpid' \in [Procs -> Procs]
      BY <1>0, <1>1, <1>2
    <2>3. time_slice' \in [Procs -> 0..MAX_TIME_SLICE]
      <3>1. 0 \in 0..MAX_TIME_SLICE /\ time_slice' = [time_slice EXCEPT ![z] = 0]
        BY <1>1, ProcAssumption
      <3> QED
        BY <1>2, <3>1
    <2> QED
      BY <1>0, <1>6, <1>7, <2>1, <2>2, <2>3 DEF Inv, TypeOK, NoAssertFails, schedVars, timerVars,
         stdinVars
  <1>9. RunQueueExact'
    <2>1. {x \in Procs \ {Idle, current'} : state'[x] = "RUNNABLE"}
            = {x \in Procs \ {Idle, current} : state[x] = "RUNNABLE"}
      BY <1>0, <1>1, <1>4, <1>5 DEF schedVars
    <2>2. \A i \in 1..Len(run_list) : run_list[i] \in Procs /\ run_list[i] # z
      BY <1>1, ListTypes DEF Inv, RunQueueExact, ListsOnce
    <2> QED
      BY <1>0, <1>5, <2>1, <2>2 DEF Inv, RunQueueExact, schedVars
  <1>10. \A x \in Procs : x # current => Child(x)' = Child(x) /\ Awaited(x)' = Awaited(x)
                                         /\ Awaited(x) \subseteq Child(x) /\ z \notin Child(x)
    <2>1. \A x \in Procs : x # current => Child(x)' = Child(x) /\ z \notin Child(x)
      BY <1>4, <1>5 DEF Child
    <2> QED
      BY <1>5, <2>1 DEF Awaited
  <1>11. SleepersCanBeWoken'
    <2>1. \A x \in Procs : HasTimer(x)' = HasTimer(x) /\ Waiting(x)' = Waiting(x)
      BY <1>0 DEF HasTimer, Waiting, timerVars, stdinVars
    <2>2. SleepersCanBeWoken
      BY DEF Inv
    <2>3. current' = current /\ wait_state' = wait_state
      BY <1>0 DEF schedVars
    <2>4. \A x \in Procs : /\ state'[x] = "SLEEPING" <=> state[x] = "SLEEPING"
                           /\ kpc[x] = "addtimer" => kpc'[x] = "addtimer"
      BY <1>1, <1>3, <1>5, <1>6
    <2>5. \A x \in Procs : wait_state[x] = "WT_CHILD" => Child(x)' = Child(x)
      BY <1>3, <1>10
    <2>6. ASSUME NEW x \in Procs
          PROVE  /\ state'[x] = "SLEEPING" <=> wait_state[x] # "0"
                 /\ wait_state[x] = "WT_TIMER" =>
                       HasTimer(x)' \/ (x = current /\ kpc'[x] = "addtimer")
                 /\ wait_state[x] = "WT_KBD" => Waiting(x)'
                 /\ wait_state[x] = "WT_CHILD" => Child(x)' # {}
      BY <2>1, <2>2, <2>4, <2>5 DEF SleepersCanBeWoken
    <2> QED
      BY <2>3, <2>6 DEF SleepersCanBeWoken
  <1>12. NoDanglingStackNode'
    <2>1. \A x \in Procs : kpc[x] \in {"sleepret", "readret"} => kpc'[x] = kpc[x]
      BY <1>3, <1>6
    <2> QED
      BY <1>0, <2>1, ListTypes DEF Inv, NoDanglingStackNode, timerVars, stdinVars
  <1>13. NoLostChildWakeup'
    <2>1. \A x \in Procs : Child(x) \subseteq Procs
      BY DEF Child
    <2> QED
      BY <1>0, <1>3, <1>5, <1>10, <2>1 DEF Inv, NoLostChildWakeup
  <1>14. FamilyTreeSound'
    <2>1. FamilyTreeSound /\ UserProc \subseteq Procs
      BY DEF Inv, Procs
    <2>2. ASSUME NEW p \in UserProc, state'[p] # "UNUSED"
          PROVE  LET dad == parent'[p]
                 IN /\ dad # Idle /\ state'[dad] # "UNUSED"
                    /\ state'[dad] = "ZOMBIE" => dad = current' /\ kpc'[dad] = "reparent"
      <3>1. /\ p \in Procs /\ p # z /\ state[p] # "UNUSED" /\ parent'[p] = parent[p]
            /\ parent[p] \in Procs
        BY <1>2, <1>5, <2>1, <2>2
      <3>2. /\ parent[p] # Idle /\ state[parent[p]] # "UNUSED"
            /\ state[parent[p]] # "ZOMBIE"
        BY <1>3, <2>1, <3>1 DEF FamilyTreeSound
      <3> QED
        BY <1>1, <1>5, <3>1, <3>2
    <2> QED
      BY <1>7, <2>2 DEF FamilyTreeSound
  <1>15. Control'
    <2>1. Control
      BY DEF Inv
    <2>2. \A x \in Procs :
             /\ state'[x] \in {"UNUSED", "ZOMBIE"} <=> kpc'[x] \in {"dead", "reparent"}
             /\ kpc'[x] \notin {"reparent", "addtimer"}
      <3>1. /\ state'[z] = "UNUSED" /\ kpc'[z] = "dead" /\ state'[current] = "RUNNABLE"
            /\ kpc'[current] \in {"wait", "tail"}
        BY <1>3, <1>4, <1>5, <1>6
      <3>2. ASSUME NEW x \in Procs \ {z, current}
            PROVE  /\ state'[x] = state[x] /\ kpc'[x] = kpc[x]
                   /\ state[x] \in {"UNUSED", "ZOMBIE"} <=> kpc[x] \in {"dead", "reparent"}
                   /\ kpc[x] \notin {"reparent", "addtimer"}
        BY <1>5, <1>6, <2>1 DEF Control
      <3> QED
        BY <3>1, <3>2
    <2>3. /\ kpc'[Idle] = "idle" /\ state'[Idle] = "RUNNABLE"
          /\ kpc'[Init0] \in {"initmain", "wait", "waitret", "exit"}
          /\ state'[Init0] \in {"RUNNABLE", "SLEEPING"}
          /\ \A x \in UserProc : kpc'[x] \notin {"idle", "initmain"}
      <3>1. Idle \in Procs /\ Init0 \in Procs /\ UserProc \subseteq Procs /\ Init0 \notin UserProc
        BY ProcAssumption DEF Procs
      <3>2. kpc'[Idle] = "idle" /\ state'[Idle] = "RUNNABLE"
        BY <1>3, <1>4, <1>5, <1>6, <2>1, <3>1 DEF Control
      <3>3. state'[Init0] = state[Init0] /\ kpc'[Init0] \in {kpc[Init0], "wait"}
        BY <1>4, <1>5, <1>6, <3>1
      <3>4. /\ kpc[Init0] \in {"initmain", "wait", "waitret", "exit"}
            /\ state[Init0] \in {"RUNNABLE", "SLEEPING"}
            /\ \A x \in UserProc : kpc[x] \notin {"idle", "initmain"}
        BY <2>1 DEF Control
      <3>5. ASSUME NEW x \in UserProc PROVE kpc'[x] \notin {"idle", "initmain"}
        <4>1. kpc'[x] = kpc[x] \/ kpc'[x] \in {"wait", "tail"}
          BY <1>6, <3>1
        <4> QED
          BY <3>4, <4>1
      <3> QED
        BY <3>2, <3>3, <3>4, <3>5
    <2>4. /\ waitpid'[Init0] = Idle
          /\ \A x \in Procs : waitpid'[x] \in UserProc \cup {Idle}
      <3>1. Init0 \in Procs
        BY DEF Procs
      <3> QED
        BY <1>5, <2>1, <3>1 DEF Control
    <2>5. current' = current /\ state'[current] = "RUNNABLE" /\ irq' = "none"
      BY <1>0, <1>3, <1>4, <1>5 DEF schedVars
    <2> QED
      BY <2>2, <2>3, <2>4, <2>5 DEF Control
  <1>16. TimerControl'
    BY <1>0, <1>3, <1>6 DEF Inv, TimerControl, timerVars, schedVars
  <1>17. Forest'
    <2> SUFFICES ASSUME NEW S \in SUBSET UserProc, S # {}, \A p \in S : state'[p] # "UNUSED"
                 PROVE  \E p \in S : parent'[p] \notin S
      BY DEF Forest
    <2>1. \A p \in S : p \in Procs /\ state[p] # "UNUSED" /\ parent'[p] = parent[p]
      BY <1>5 DEF Procs
    <2> QED
      BY <2>1 DEF Inv, Forest
  <1> QED
    BY <1>8, <1>9, <1>11, <1>12, <1>13, <1>14, <1>15, <1>16, <1>17 DEF Inv

-----------------------------------------------------------------------------
(* Inv is inductive.                                                        *)
LEMMA InitInv == Init => Inv
  <1> SUFFICES ASSUME Init PROVE Inv
    OBVIOUS
  <1> USE ProcAssumption DEF Init
  <1>1. TypeOK
    <2>1. /\ state \in [Procs -> States] /\ wait_state \in [Procs -> {"0"} \cup Interruptible]
          /\ exiting \in [Procs -> BOOLEAN] /\ need_resched \in [Procs -> BOOLEAN]
      BY DEF States
    <2>2. /\ parent \in [Procs -> Procs] /\ waitpid \in [Procs -> Procs]
          /\ current \in Procs /\ run_list \in Seq(Procs)
      BY DEF Procs
    <2>3. /\ time_slice \in [Procs -> 0..MAX_TIME_SLICE] /\ todo \in [Procs -> 0..MaxRead]
          /\ unread \in 0..STDIN_BUFSIZE /\ nr_process \in Nat
      OBVIOUS
    <2>4. /\ timer_list \in Seq([proc : Procs, expires : Nat]) /\ wait_queue \in Seq(Procs)
          /\ timer \in [time : Nat, expires : Nat, pos : Nat]
      BY DEF NoTimer
    <2>5. /\ kpc \in [Procs -> Locations]
          /\ wakeup_flags \in [Procs -> {"0", "WT_INTERRUPTED", "WT_KBD"}]
      BY DEF Locations
    <2> QED
      BY <2>1, <2>2, <2>3, <2>4, <2>5 DEF TypeOK
  <1>2. RunQueueExact
    BY DEF RunQueueExact, ListsOnce, Procs
  <1>3. SleepersCanBeWoken
    BY DEF SleepersCanBeWoken
  <1>4. NoDanglingStackNode /\ NoLostChildWakeup /\ NoAssertFails
    BY DEF NoDanglingStackNode, NoLostChildWakeup, NoAssertFails
  <1>5. FamilyTreeSound
    <2>1. {p \in Procs : state[p] # "UNUSED"} = {Idle} \cup {Init0}
      BY DEF Procs
    <2>2. IsFiniteSet({Idle}) /\ Cardinality({Idle}) = 1 /\ Init0 \notin {Idle}
      BY FS_Singleton
    <2>3. Cardinality({Idle} \cup {Init0}) = Cardinality({Idle}) + 1
      BY <2>2, FS_AddElement
    <2>4. \A p \in UserProc : state[p] = "UNUSED"
      BY DEF Procs
    <2>5. Cardinality({Idle} \cup {Init0}) = 2
      <3> DEFINE k == Cardinality({Idle})
                 m == Cardinality({Idle} \cup {Init0})
      <3>1. k = 1 /\ m = k + 1
        BY <2>2, <2>3, Zenon
      <3> HIDE DEF k, m
      <3>2. m = 2
        BY <3>1
      <3> QED
        BY <3>2 DEF m
    <2> QED
      BY <2>1, <2>4, <2>5, Zenon DEF FamilyTreeSound
  <1>6. Control /\ TimerControl
    BY DEF Control, TimerControl, Procs
  <1>7. Forest
    BY DEF Forest, Procs
  <1> QED
    BY <1>1, <1>2, <1>3, <1>4, <1>5, <1>6, <1>7 DEF Inv

LEMMA NextInv == Inv /\ [Next]_vars => Inv'
  <1> SUFFICES ASSUME Inv, [Next]_vars PROVE Inv'
    OBVIOUS
  <1>1. CASE Syscall
    BY <1>1, SysForkInv, SysOtherInv, SysExitInv, SysWaitInv, SysKillInv, SysYieldInv,
       SysSleepInv, SysReadInv DEF Syscall
  <1>2. CASE KernelStep
    BY <1>2, ScheduleInv, CpuIdleInv, InitMainInv, DoExitInv, ReparentInv, ReapInv,
       WaitSleepInv, WaitNoneInv, WaitReturnInv, TrapTailInv, AddTimerWalkInv,
       AddTimerLinkInv, SleepReturnInv, ReadLoopInv, ReadReturnInv DEF KernelStep
  <1>3. CASE HandlerStep
    BY <1>3, TimerExpireInv, TimerDoneInv, SerialWakeInv, SerialDoneInv DEF HandlerStep
  <1>4. CASE ClockInterrupt \/ SerialInterrupt
    BY <1>4, ClockInterruptInv, SerialInterruptInv
  <1>5. CASE Halted \/ UNCHANGED vars
    BY <1>5, HaltedInv DEF Halted
  <1> QED
    BY <1>1, <1>2, <1>3, <1>4, <1>5 DEF Next

(* Every reachable state satisfies the inductive invariant.                 *)
THEOREM Invariance == Spec => []Inv
  BY InitInv, NextInv, PTL DEF Spec

(* Every variable keeps its type: no counter underflows, no process is ever *)
(* at a place or in a state the code does not have.                         *)
THEOREM TypeCorrect == Spec => []TypeOK
  <1>1. Inv => TypeOK
    BY DEF Inv
  <1> QED
    BY <1>1, Invariance, PTL

(* No assert() of the process, scheduler and timer code fails, for any      *)
(* number of processes.                                                     *)
THEOREM AssertsHold == Spec => []NoAssertFails
  <1>1. Inv => NoAssertFails
    BY DEF Inv
  <1> QED
    BY <1>1, Invariance, PTL

(* The run queue of sched.c holds each runnable process other than the      *)
(* running one exactly once, and nothing else.                              *)
THEOREM RunQueueCorrect == Spec => []RunQueueExact
  <1>1. Inv => RunQueueExact
    BY DEF Inv
  <1> QED
    BY <1>1, Invariance, PTL

(* No process sleeps without being named by the structure that wakes it,    *)
(* and none sleeps for a child that has already exited: do_wait(),          *)
(* do_exit(), do_sleep(), dev_stdin_read() and their wakers lose no wakeup. *)
THEOREM NoLostWakeup == Spec => [](SleepersCanBeWoken /\ NoLostChildWakeup)
  <1>1. Inv => SleepersCanBeWoken /\ NoLostChildWakeup
    BY DEF Inv
  <1> QED
    BY <1>1, Invariance, PTL

(* No timer_t or wait_t stays on a list after its stack frame is gone.      *)
THEOREM StackNodesSafe == Spec => []NoDanglingStackNode
  <1>1. Inv => NoDanglingStackNode
    BY DEF Inv
  <1> QED
    BY <1>1, Invariance, PTL

(* No proc_struct points to a parent that is dead or freed, and nr_process  *)
(* counts the allocated structs (set_links/remove_links, do_exit, do_wait). *)
THEOREM FamilyTreeCorrect == Spec => []FamilyTreeSound
  <1>1. Inv => FamilyTreeSound
    BY DEF Inv
  <1> QED
    BY <1>1, Invariance, PTL

-----------------------------------------------------------------------------
(* What one step may do to a zombie.                                        *)
LEMMA ZombieStep ==
    ASSUME Inv, Next, NEW p \in Procs, state[p] = "ZOMBIE"
    PROVE  \/ state'[p] = "ZOMBIE" /\ (current' = p => current = p)
           \/ state'[p] = "UNUSED" /\ current = parent[p]
  <1>0. state \in [Procs -> States] /\ parent \in [Procs -> Procs] /\ current \in Procs
    BY DEF Inv, TypeOK
  <1>1. Inv'
    BY NextInv
  <1>2. halted' # "assert"
    BY <1>1 DEF Inv, NoAssertFails
  <1>3. CASE Schedule
    <2>1. insched /\ ~insched' /\ state' = state /\ kpc' = kpc
      BY <1>3 DEF Schedule
    <2>2. current' \in Procs /\ state'[current'] = "RUNNABLE"
      BY <1>1, <2>1 DEF Inv, TypeOK, Control
    <2> QED
      BY <2>1, <2>2
  <1>4. CASE Reap
    <2>1. PICK z \in Awaited(current) : state' = [state EXCEPT ![z] = "UNUSED"]
      BY <1>4 DEF Reap
    <2>2. z \in Procs /\ parent[z] = current
      BY <2>1 DEF Awaited, Child
    <2>3. current' = current
      BY <1>4 DEF Reap, schedVars
    <2> QED
      BY <1>0, <2>1, <2>2, <2>3
  <1>5. CASE SysKill \/ Reparent \/ TimerExpire \/ SerialWake
    <2>0. PICK q : \E b \in BOOLEAN : wakeup_proc(b, q) /\ KAssert(WakeupAsserts(b, q))
      <3>1. CASE SysKill
        BY <3>1 DEF SysKill
      <3>2. CASE Reparent
        BY <3>2 DEF Reparent, WakesInit
      <3>3. CASE TimerExpire
        BY <1>2, <3>3 DEF TimerExpire, KAssert
      <3>4. CASE SerialWake
        BY <3>4 DEF SerialWake
      <3> QED
        BY <1>5, <3>1, <3>2, <3>3, <3>4
    <2>1. PICK b \in BOOLEAN : wakeup_proc(b, q) /\ KAssert(WakeupAsserts(b, q))
      BY <2>0
    <2>2. b => state[q] # "ZOMBIE"
      BY <1>2, <2>1 DEF KAssert, WakeupAsserts
    <2>3. state'[p] = "ZOMBIE"
      BY <1>0, <2>1, <2>2 DEF wakeup_proc
    <2>4. current' = current
      BY <1>5 DEF SysKill, Reparent, TimerExpire, SerialWake
    <2> QED
      BY <2>3, <2>4
  <1>6. CASE DoExit
    <2>1. current' = current
      BY <1>6 DEF DoExit
    <2>2. CASE current = Init0
      BY <1>6, <2>1, <2>2 DEF DoExit, procVars
    <2>3. CASE current # Init0
      <3>1. parent[current] # p \/ wait_state[parent[current]] # "WT_CHILD"
        BY <1>2, <1>6, <2>3 DEF DoExit, KAssert, WakeupAsserts
      <3> QED
        BY <1>0, <1>6, <2>1, <2>3, <3>1 DEF DoExit
    <2> QED
      BY <2>2, <2>3
  <1>7. CASE SysFork \/ InitMain
    <2>1. current' = current
      BY <1>7 DEF SysFork, InitMain
    <2>2. state' = state \/ \E c \in UserProc : state[c] = "UNUSED" /\ state' = [state EXCEPT ![c] = "RUNNABLE"]
      BY <1>7 DEF SysFork, InitMain, do_fork, procVars
    <2> QED
      BY <1>0, <2>1, <2>2
  <1>8. CASE SysSleep \/ WaitSleep \/ ReadLoop
    <2>1. current' = current /\ (state' = state \/ state' = [state EXCEPT ![current] = "SLEEPING"])
      BY <1>8 DEF SysSleep, WaitSleep, ReadLoop, SleepAt, schedVars
    <2>2. state[current] # "ZOMBIE"
      BY <1>8 DEF Inv, Control, SysSleep, WaitSleep, ReadLoop, At
    <2> QED
      BY <1>0, <2>1, <2>2
  <1>9. CASE UNCHANGED <<state, current>>
    BY <1>9
  <1>10. ASSUME SysOther \/ SysExit \/ SysWait \/ SysYield \/ SysRead
                \/ CpuIdle \/ WaitNone \/ WaitReturn \/ TrapTail
                \/ AddTimerWalk \/ AddTimerLink \/ SleepReturn \/ ReadReturn
         PROVE  UNCHANGED <<state, current>>
    BY <1>10 DEF SysOther, SysExit, SysWait, SysYield, SysRead, CpuIdle, WaitNone, WaitReturn,
       TrapTail, AddTimerWalk, AddTimerLink, SleepReturn, ReadReturn, procVars, schedVars
  <1>11. ASSUME TimerDone \/ SerialDone \/ ClockInterrupt \/ SerialInterrupt \/ Halted
         PROVE  UNCHANGED <<state, current>>
    BY <1>11 DEF TimerDone, SerialDone, ClockInterrupt, SerialInterrupt, Halted, vars, procVars,
       schedVars
  <1> QED
    BY <1>3, <1>4, <1>5, <1>6, <1>7, <1>8, <1>9, <1>10, <1>11
       DEF Next, Syscall, KernelStep, HandlerStep

(* A process that has exited never runs again, and only the do_wait() of    *)
(* its parent frees it.                                                     *)
THEOREM ZombiesStayDead == Spec => ZombieOnlyReaped
  <1>1. Inv /\ [Next]_vars =>
          [\A p \in Procs : state[p] = "ZOMBIE" =>
             \/ state'[p] = "ZOMBIE" /\ (current' = p => current = p)
             \/ state'[p] = "UNUSED" /\ current = parent[p]]_vars
    BY ZombieStep
  <1> QED
    BY <1>1, Invariance, PTL DEF Spec, ZombieOnlyReaped
=============================================================================
