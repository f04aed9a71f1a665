--------------------------- MODULE ProcForkProofs ---------------------------
(* Scheduling and forking preserve the invariant, and init leaves its loop  *)
(* only when it is alone.                                                   *)
EXTENDS ProcWaitProofs

LEMMA ScheduleInv == Inv /\ Schedule => Inv'
  <1> SUFFICES ASSUME Inv, Schedule PROVE Inv'
    OBVIOUS
  <1> DEFINE requeue == Requeues(current)
             q == IF requeue THEN Append(run_list, current) ELSE run_list
             R == {x \in Procs \ {Idle, current} : state[x] = "RUNNABLE"}
             R2 == {x \in Procs \ {Idle} : state[x] = "RUNNABLE"}
  <1>0. /\ halted = "no" /\ irq = "none" /\ insched = TRUE /\ insched' = FALSE
        /\ need_resched' = [need_resched EXCEPT ![current] = FALSE]
        /\ time_slice' = IF requeue THEN [time_slice EXCEPT ![current] = RefillSlice(current)]
                         ELSE time_slice
        /\ KAssert(requeue => ~Queued(current))
        /\ UNCHANGED <<state, wait_state, exiting, treeVars, timerVars, stdinVars,
                       argVars, kpc, irq>>
    BY DEF Schedule, Inv, TypeOK
  <1>1. IF q = <<>> THEN current' = Idle /\ run_list' = q
                    ELSE current' = Head(q) /\ run_list' = Tail(q)
    BY DEF Schedule
  <1>2. /\ run_list \in Seq(Procs) /\ current \in Procs
        /\ time_slice \in [Procs -> 0..MAX_TIME_SLICE] /\ Idle \in Procs
    BY DEF Inv, TypeOK, Procs
  <1>3. ListsOnce(run_list, R) /\ \A i \in 1..Len(run_list) : time_slice[run_list[i]] # 0
    BY DEF Inv, RunQueueExact
  <1>4. RefillSlice(current) \in 1..MAX_TIME_SLICE
    BY <1>2, ProcAssumption DEF RefillSlice
  <1>5. /\ q \in Seq(Procs) /\ ListsOnce(q, R2)
        /\ \A i \in 1..Len(q) : time_slice'[q[i]] # 0
        /\ time_slice' \in [Procs -> 0..MAX_TIME_SLICE]
    <2>1. CASE requeue
      <3>1. R \cup {current} = R2
        BY <1>2, <2>1 DEF Requeues
      <3>2. Append(run_list, current) \in Seq(Procs)
            /\ ListsOnce(Append(run_list, current), R2)
        <4>1. current \notin R
          OBVIOUS
        <4> HIDE DEF R, R2
        <4> QED
          BY <1>2, <1>3, <3>1, <4>1, ListsOnceAppend
      <3>3. \A i \in 1..Len(q) : q[i] = current \/ \E j \in 1..Len(run_list) : q[i] = run_list[j]
        BY <1>2, <2>1
      <3>4. /\ time_slice' \in [Procs -> 0..MAX_TIME_SLICE]
            /\ \A x \in Procs : x = current \/ time_slice[x] # 0 => time_slice'[x] # 0
        BY <1>0, <1>2, <1>4, <2>1
      <3>5. \A i \in 1..Len(run_list) : run_list[i] \in Procs
        BY <1>2
      <3> QED
        BY <1>2, <1>3, <2>1, <3>2, <3>3, <3>4, <3>5
    <2>2. CASE ~requeue
      <3>1. R = R2
        BY <1>2, <2>2 DEF Requeues
      <3> QED
        BY <1>0, <1>2, <1>3, <2>2, <3>1
    <2> QED
      BY <2>1, <2>2
  <1>6. requeue => ~Queued(current)
    BY <1>3 DEF ListsOnce, Queued
  <1> HIDE DEF q, R
  <1>7. /\ current' \in Procs /\ state'[current'] = "RUNNABLE"
        /\ run_list' \in Seq(Procs) /\ RunQueueExact'
    <2>1. CASE q = <<>>
      <3>1. state[Idle] = "RUNNABLE"
        BY DEF Inv, Control
      <3>2. R2 = {x \in Procs \ {Idle, current'} : state'[x] = "RUNNABLE"}
        BY <1>0, <1>1, <2>1
      <3> QED
        BY <1>0, <1>1, <1>2, <1>5, <2>1, <3>1, <3>2 DEF RunQueueExact
    <2>2. CASE q # <<>>
      <3>1. /\ Head(q) \in R2 /\ Head(q) \in Procs /\ Tail(q) \in Seq(Procs)
            /\ ListsOnce(Tail(q), R2 \ {Head(q)})
        BY <1>5, <2>2, ListsOnceTail
      <3>2. R2 \ {Head(q)} = {x \in Procs \ {Idle, current'} : state'[x] = "RUNNABLE"}
        BY <1>0, <1>1, <2>2
      <3>3. \A i \in 1..Len(Tail(q)) : i + 1 \in 1..Len(q) /\ Tail(q)[i] = q[i + 1]
        BY <1>5, <2>2
      <3>4. \A i \in 1..Len(run_list') : time_slice'[run_list'[i]] # 0
        BY <1>1, <1>5, <2>2, <3>3
      <3>5. ListsOnce(run_list', {x \in Procs \ {Idle, current'} : state'[x] = "RUNNABLE"})
        BY <1>1, <2>2, <3>1, <3>2
      <3> QED
        BY <1>0, <1>1, <2>2, <3>1, <3>4, <3>5 DEF RunQueueExact
    <2> QED
      BY <2>1, <2>2
  <1>8. TypeOK' /\ NoAssertFails'
    <2>1. need_resched' \in [Procs -> BOOLEAN]
      BY <1>0, MoveTypes
    <2> QED
      BY <1>0, <1>5, <1>6, <1>7, <2>1 DEF Inv, TypeOK, NoAssertFails, KAssert, treeVars,
         timerVars, stdinVars, argVars
  <1>9. \A x \in Procs : kpc[x] \notin {"reparent", "addtimer"}
    BY <1>0 DEF Inv, Control
  <1>10. SleepersCanBeWoken'
    <2>1. \A x \in Procs : HasTimer(x)' = HasTimer(x) /\ Waiting(x)' = Waiting(x)
                            /\ Child(x)' = Child(x)
      BY <1>0 DEF HasTimer, Waiting, Child, treeVars, timerVars, stdinVars
    <2> QED
      BY <1>0, <1>9, <2>1 DEF Inv, SleepersCanBeWoken
  <1>11. NoDanglingStackNode' /\ NoLostChildWakeup' /\ Forest'
    BY <1>0 DEF Inv, NoDanglingStackNode, NoLostChildWakeup, Forest, Awaited, Child, treeVars,
       timerVars, stdinVars, argVars
  <1>12. FamilyTreeSound'
    <2>1. parent \in [Procs -> Procs]
      BY DEF Inv, TypeOK
    <2> QED
      BY <1>0, <1>9, <2>1 DEF Inv, FamilyTreeSound, Procs, treeVars
  <1>13. Control'
    BY <1>0, <1>7, <1>9 DEF Inv, Control, argVars
  <1>14. TimerControl'
    BY <1>0, <1>7, <1>9 DEF Inv, TimerControl, timerVars
  <1> QED
    BY <1>7, <1>8, <1>10, <1>11, <1>12, <1>13, <1>14 DEF Inv

-----------------------------------------------------------------------------
(* The number of allocated structs is a natural number that counts by one.  *)
LEMMA Allocated ==
    ASSUME Inv, NEW c \in Procs
    PROVE  /\ IsFiniteSet(Procs)
           /\ LET A == {p \in Procs : state[p] # "UNUSED"}
              IN /\ Cardinality(A) \in Nat
                 /\ c \notin A => Cardinality(A \cup {c}) = Cardinality(A) + 1
                 /\ c \in A => /\ Cardinality(A \ {c}) = Cardinality(A) - 1
                               /\ Cardinality(A \ {c}) \in Nat
  <1>1. IsFiniteSet(Procs)
    <2>1. IsFiniteSet({Idle, Init0})
      <3>1. IsFiniteSet({Idle}) /\ {Idle, Init0} = {Idle} \cup {Init0}
        BY FS_Singleton
      <3> QED
        BY <3>1, FS_AddElement
    <2> QED
      BY <2>1, FS_Union, ProcAssumption DEF Procs
  <1> DEFINE A == {p \in Procs : state[p] # "UNUSED"}
  <1>2. IsFiniteSet(A)
    BY <1>1, FS_Subset
  <1> HIDE DEF A
  <1>3. Cardinality(A) \in Nat
    BY <1>2, FS_CardinalityType
  <1>4. c \notin A => Cardinality(A \cup {c}) = Cardinality(A) + 1
    BY <1>2, FS_AddElement
  <1>5. c \in A => /\ Cardinality(A \ {c}) = Cardinality(A) - 1
                   /\ Cardinality(A \ {c}) \in Nat
    BY <1>2, FS_RemoveElement, FS_CardinalityType
  <1> QED
    BY <1>1, <1>3, <1>4, <1>5 DEF A

(* do_fork() called by a running process other than idle.                   *)
LEMMA Fork ==
    ASSUME Inv, NEW l \in {"initmain", "user"}, At(l),
           NEW m \in {"wait", "tail"}, l = "initmain" => m = "wait",
           do_fork("user", m),
           UNCHANGED <<current, timerVars, stdinVars, todo, insched, irq>>,
           NEW w \in UserProc \cup {Idle}, waitpid' = [waitpid EXCEPT ![current] = w],
           current = Init0 => w = Idle
    PROVE  Inv'
  <1>0. /\ state \in [Procs -> States] /\ wait_state \in [Procs -> {"0"} \cup Interruptible]
        /\ exiting \in [Procs -> BOOLEAN] /\ need_resched \in [Procs -> BOOLEAN]
        /\ time_slice \in [Procs -> 0..MAX_TIME_SLICE] /\ parent \in [Procs -> Procs]
        /\ run_list \in Seq(Procs) /\ kpc \in [Procs -> Locations]
        /\ waitpid \in [Procs -> Procs] /\ nr_process \in Nat
    BY DEF Inv, TypeOK
  <1>1. /\ current \in Procs /\ current # Idle /\ kpc[current] = l /\ halted = "no"
        /\ state[current] = "RUNNABLE" /\ wait_state[current] = "0" /\ irq = "none"
        /\ insched = FALSE /\ (l = "user" => current \in UserProc)
        /\ (l = "initmain" => current = Init0)
    BY AtFacts
  <1>2. PICK c \in UserProc :
          /\ state[c] = "UNUSED"
          /\ state' = [state EXCEPT ![c] = "RUNNABLE"]
          /\ wait_state' = [wait_state EXCEPT ![c] = "0"]
          /\ exiting' = [exiting EXCEPT ![c] = FALSE]
          /\ need_resched' = [need_resched EXCEPT ![c] = FALSE]
          /\ time_slice' = [time_slice EXCEPT ![c] = MAX_TIME_SLICE]
          /\ parent' = [parent EXCEPT ![c] = current]
          /\ nr_process' = nr_process + 1
          /\ run_list' = Append(run_list, c)
          /\ kpc' = [kpc EXCEPT ![c] = "user", ![current] = m]
          /\ KAssert(wait_state[current] = "0" /\ ~Queued(c))
    BY DEF do_fork
  <1>3. /\ c \in Procs /\ c # current /\ c # Idle /\ c # Init0
        /\ kpc[c] = "dead" /\ wait_state[c] = "0"
    BY <1>1, <1>2, ProcAssumption DEF Procs, Inv, Control, SleepersCanBeWoken
  <1>4. \A x \in Procs : /\ state'[x] = IF x = c THEN "RUNNABLE" ELSE state[x]
                         /\ wait_state'[x] = wait_state[x]
                         /\ parent'[x] = IF x = c THEN current ELSE parent[x]
                         /\ kpc'[x] = IF x = c THEN "user" ELSE IF x = current THEN m ELSE kpc[x]
                         /\ waitpid'[x] = IF x = current THEN w ELSE waitpid[x]
                         /\ time_slice'[x] = IF x = c THEN MAX_TIME_SLICE ELSE time_slice[x]
    BY <1>0, <1>1, <1>2, <1>3
  <1> DEFINE R == {x \in Procs \ {Idle, current} : state[x] = "RUNNABLE"}
  <1>5. ListsOnce(run_list, R) /\ \A i \in 1..Len(run_list) : time_slice[run_list[i]] # 0
    BY DEF Inv, RunQueueExact
  <1>6. ~Queued(c)
    BY <1>2, <1>5 DEF ListsOnce, Queued
  <1>7. run_list' \in Seq(Procs) /\ RunQueueExact'
    <2>1. c \notin R /\ R \cup {c} = {x \in Procs \ {Idle, current'} : state'[x] = "RUNNABLE"}
      BY <1>2, <1>3, <1>4
    <2> HIDE DEF R
    <2>2. run_list' \in Seq(Procs) /\ ListsOnce(run_list', R \cup {c})
      BY <1>0, <1>2, <1>3, <1>5, <2>1, ListsOnceAppend
    <2>3. \A i \in 1..Len(run_list') : run_list'[i] = c \/ \E j \in 1..Len(run_list) : run_list'[i] = run_list[j]
      BY <1>0, <1>2, <1>3, AppendElements
    <2>4. \A j \in 1..Len(run_list) : run_list[j] \in Procs
      BY <1>0
    <2>5. \A i \in 1..Len(run_list') : time_slice'[run_list'[i]] # 0
      BY <1>3, <1>4, <1>5, <2>3, <2>4, ProcAssumption
    <2> QED
      BY <2>1, <2>2, <2>5 DEF RunQueueExact
  <1>8. TypeOK' /\ NoAssertFails'
    <2>1. /\ state' \in [Procs -> States] /\ wait_state' \in [Procs -> {"0"} \cup Interruptible]
          /\ exiting' \in [Procs -> BOOLEAN] /\ need_resched' \in [Procs -> BOOLEAN]
          /\ parent' \in [Procs -> Procs] /\ nr_process' \in Nat
      <3>1. state' \in [Procs -> States] /\ "RUNNABLE" \in States
        BY <1>0, <1>2 DEF States
      <3>2. wait_state' \in [Procs -> {"0"} \cup Interruptible]
        BY <1>0, <1>2
      <3>3. exiting' \in [Procs -> BOOLEAN] /\ need_resched' \in [Procs -> BOOLEAN]
        BY <1>0, <1>2
      <3>4. nr_process' \in Nat
        BY <1>0, <1>2
      <3>5. parent' \in [Procs -> Procs]
        <4>1. parent' = [parent EXCEPT ![c] = current]
          BY <1>2
        <4> QED
          BY <1>0, <1>1, <4>1
      <3> QED
        BY <3>1, <3>2, <3>3, <3>4, <3>5
    <2>2. time_slice' \in [Procs -> 0..MAX_TIME_SLICE]
      <3>1. MAX_TIME_SLICE \in 0..MAX_TIME_SLICE
        BY ProcAssumption
      <3>2. time_slice' = [time_slice EXCEPT ![c] = MAX_TIME_SLICE]
        BY <1>2
      <3> QED
        BY <1>0, <3>1, <3>2
    <2>3. kpc' \in [Procs -> Locations] /\ waitpid' \in [Procs -> Procs]
      BY <1>0, <1>2 DEF Locations, Procs
    <2>4. halted' = "no"
      BY <1>1, <1>2, <1>6 DEF KAssert
    <2> QED
      BY <1>7, <2>1, <2>2, <2>3, <2>4 DEF Inv, TypeOK, NoAssertFails, timerVars, stdinVars
  <1>9. \A x \in Procs : Child(x) \subseteq Child(x)' /\ Child(x) \subseteq Procs
                         /\ (x # current => Child(x)' = Child(x))
    BY <1>2, <1>3, <1>4 DEF Child
  <1>10. SleepersCanBeWoken'
    <2>1. \A x \in Procs : HasTimer(x)' = HasTimer(x) /\ Waiting(x)' = Waiting(x)
      BY DEF HasTimer, Waiting, timerVars, stdinVars
    <2>2. SleepersCanBeWoken
      BY DEF Inv
    <2> QED
      BY <1>1, <1>3, <1>4, <1>9, <2>1, <2>2 DEF SleepersCanBeWoken
  <1>11. NoDanglingStackNode'
    <2>1. \A x \in Procs : kpc[x] \in {"sleepret", "readret"} => kpc'[x] = kpc[x]
      BY <1>1, <1>3, <1>4
    <2> QED
      BY <2>1, ListTypes DEF Inv, NoDanglingStackNode, timerVars, stdinVars
  <1>12. NoLostChildWakeup'
    <2>1. \A x \in Procs : x # current => Awaited(x)' = Awaited(x) /\ Awaited(x) \subseteq Child(x)
      BY <1>4, <1>9 DEF Awaited
    <2>2. \A x \in Procs : \A y \in Child(x) : y \in Procs /\ y # c
      BY <1>2 DEF Child
    <2> QED
      BY <1>1, <1>4, <2>1, <2>2 DEF Inv, NoLostChildWakeup
  <1>13. FamilyTreeSound'
    <2> DEFINE A == {p \in Procs : state[p] # "UNUSED"}
    <2>1. FamilyTreeSound
      BY DEF Inv
    <2>2. {p \in Procs : state'[p] # "UNUSED"} = A \cup {c} /\ c \notin A
      BY <1>2, <1>3, <1>4
    <2>3. nr_process' = Cardinality({p \in Procs : state'[p] # "UNUSED"})
      BY <1>2, <1>3, <2>1, <2>2, Allocated DEF FamilyTreeSound
    <2>4. ASSUME NEW p \in UserProc, state'[p] # "UNUSED"
          PROVE  LET dad == parent'[p]
                 IN /\ dad # Idle /\ state'[dad] # "UNUSED"
                    /\ state'[dad] = "ZOMBIE" => dad = current' /\ kpc'[dad] = "reparent"
      <3>1. p \in Procs
        BY DEF Procs
      <3>2. CASE p = c
        BY <1>1, <1>3, <1>4, <3>1, <3>2
      <3>3. CASE p # c
        <4>1. parent'[p] = parent[p] /\ parent[p] \in Procs /\ state[p] # "UNUSED"
          BY <1>0, <1>4, <2>4, <3>1, <3>3
        <4>2. /\ parent[p] # Idle /\ state[parent[p]] # "UNUSED"
              /\ state[parent[p]] = "ZOMBIE" => parent[p] = current /\ kpc[parent[p]] = "reparent"
          BY <2>1, <4>1 DEF FamilyTreeSound
        <4> QED
          BY <1>1, <1>2, <1>4, <4>1, <4>2
      <3> QED
        BY <3>2, <3>3
    <2> QED
      BY <2>3, <2>4 DEF FamilyTreeSound
  <1>14. Control'
    <2>1. Control
      BY DEF Inv
    <2>2. \A x \in Procs :
             /\ state'[x] \in {"UNUSED", "ZOMBIE"} <=> kpc'[x] \in {"dead", "reparent"}
             /\ kpc'[x] \notin {"reparent", "addtimer"}
      <3>1. /\ state'[c] = "RUNNABLE" /\ kpc'[c] = "user"
            /\ state'[current] = "RUNNABLE" /\ kpc'[current] = m
        BY <1>1, <1>3, <1>4
      <3>2. ASSUME NEW x \in Procs \ {c, current}
            PROVE  /\ state'[x] = state[x] /\ kpc'[x] = kpc[x]
                   /\ state[x] \in {"UNUSED", "ZOMBIE"} <=> kpc[x] \in {"dead", "reparent"}
                   /\ kpc[x] \notin {"reparent", "addtimer"}
        BY <1>4, <2>1 DEF Control
      <3> QED
        BY <3>1, <3>2
    <2>3. /\ kpc'[Idle] = "idle" /\ state'[Idle] = "RUNNABLE"
          /\ kpc'[Init0] \in {"initmain", "wait", "waitret", "exit"}
          /\ state'[Init0] \in {"RUNNABLE", "SLEEPING"}
          /\ \A x \in UserProc : kpc'[x] \notin {"idle", "initmain"}
      BY <1>1, <1>3, <1>4, <2>1, ProcAssumption DEF Control, Procs
    <2>4. waitpid'[Init0] = Idle /\ \A x \in Procs : waitpid'[x] \in UserProc \cup {Idle}
      BY <1>4, <2>1 DEF Control, Procs
    <2>5. state'[current'] = "RUNNABLE" /\ irq' = "none"
      BY <1>1, <1>3, <1>4
    <2> QED
      BY <2>2, <2>3, <2>4, <2>5 DEF Control
  <1>15. TimerControl'
    BY <1>1, <1>3, <1>4 DEF Inv, TimerControl, timerVars
  <1>16. Forest'
    <2> SUFFICES ASSUME NEW S \in SUBSET UserProc, S # {}, \A p \in S : state'[p] # "UNUSED"
                 PROVE  \E p \in S : parent'[p] \notin S
      BY DEF Forest
    <2>1. S \subseteq Procs /\ (S \ {c}) \in SUBSET UserProc
      BY DEF Procs
    <2>2. \A p \in S \ {c} : state[p] # "UNUSED" /\ parent'[p] = parent[p] /\ parent[p] # c
      <3> SUFFICES ASSUME NEW p \in S \ {c}
                   PROVE  state[p] # "UNUSED" /\ parent'[p] = parent[p] /\ parent[p] # c
        OBVIOUS
      <3>1. state[p] # "UNUSED" /\ parent'[p] = parent[p]
        BY <1>4, <2>1
      <3> QED
        BY <1>2, <3>1 DEF Inv, FamilyTreeSound
    <2>3. CASE S \ {c} = {}
      BY <1>3, <1>4, <2>1, <2>3
    <2>4. CASE S \ {c} # {}
      <3>1. PICK p \in S \ {c} : parent[p] \notin S \ {c}
        BY <2>1, <2>2, <2>4 DEF Inv, Forest
      <3> QED
        BY <2>2, <3>1
    <2> QED
      BY <2>3, <2>4
  <1> QED
    BY <1>7, <1>8, <1>10, <1>11, <1>12, <1>13, <1>14, <1>15, <1>16 DEF Inv

(* panic() changes nothing but stops the kernel.                            *)
LEMMA Panic ==
    ASSUME Inv, halted' = "panic",
           UNCHANGED <<procVars, treeVars, schedVars, timerVars, stdinVars, argVars, kpc,
                       insched, irq>>
    PROVE  Inv'
  <1> USE DEF procVars, treeVars, schedVars, timerVars, stdinVars, argVars
  <1>1. TypeOK' /\ RunQueueExact'
    BY DEF Inv, TypeOK, RunQueueExact
  <1>2. SleepersCanBeWoken' /\ NoDanglingStackNode'
    BY DEF Inv, SleepersCanBeWoken, NoDanglingStackNode, HasTimer, Waiting, Child
  <1>3. NoLostChildWakeup' /\ FamilyTreeSound' /\ NoAssertFails'
    BY DEF Inv, NoLostChildWakeup, FamilyTreeSound, NoAssertFails, Awaited, Child
  <1>4. Control' /\ TimerControl' /\ Forest'
    BY DEF Inv, Control, TimerControl, Forest
  <1> QED
    BY <1>1, <1>2, <1>3, <1>4 DEF Inv

LEMMA InitMainInv == Inv /\ InitMain => Inv'
  <1> SUFFICES ASSUME Inv, InitMain PROVE Inv'
    OBVIOUS
  <1>0. /\ At("initmain") /\ waitpid' = [waitpid EXCEPT ![current] = Idle]
        /\ UNCHANGED <<current, timerVars, stdinVars, todo, insched, irq>>
    BY DEF InitMain
  <1>1. current = Init0
    BY <1>0, AtFacts
  <1>2. CASE do_fork("user", "wait")
    BY <1>0, <1>2, Fork
  <1>3. CASE halted' = "panic" /\ UNCHANGED <<procVars, treeVars, run_list, kpc>>
    <2>1. waitpid' = waitpid
      BY <1>0, <1>1, MoveTypes
    <2> QED
      BY <1>0, <1>3, <2>1, Panic DEF schedVars, argVars
  <1> QED
    BY <1>2, <1>3 DEF InitMain

LEMMA SysForkInv == Inv /\ SysFork => Inv'
  <1> SUFFICES ASSUME Inv, SysFork PROVE Inv'
    OBVIOUS
  <1>0. At("user") /\ UNCHANGED <<current, timerVars, stdinVars, argVars, insched, irq>>
    BY DEF SysFork
  <1>1. current # Init0 /\ waitpid[current] \in UserProc \cup {Idle}
    BY <1>0, AtUser, MoveTypes
  <1>2. waitpid' = [waitpid EXCEPT ![current] = waitpid[current]]
    BY <1>0, MoveTypes DEF argVars
  <1>3. CASE do_fork("user", "tail")
    <2> DEFINE l == "user"  m == "tail"
    <2>1. /\ l \in {"initmain", "user"} /\ At(l) /\ l # "initmain" /\ m \in {"wait", "tail"}
          /\ do_fork("user", m)
      BY <1>0, <1>3
    <2> HIDE DEF l, m
    <2> QED
      BY <1>0, <1>1, <1>2, <2>1, Fork DEF argVars
  <1>4. CASE Goto("tail") /\ UNCHANGED <<procVars, treeVars, run_list, halted>>
    BY <1>0, <1>1, <1>4, Move, MoveTypes DEF procVars, treeVars, timerVars, stdinVars,
       argVars, Locations
  <1> QED
    BY <1>3, <1>4 DEF SysFork

(* init leaves its loop only when it is alone.                              *)
LEMMA InitAlone ==
    ASSUME Inv, Child(Init0) = {}
    PROVE  nr_process = 2 /\ \A p \in UserProc : state[p] = "UNUSED"
  <1>0. /\ parent \in [Procs -> Procs] /\ state[Idle] # "UNUSED" /\ state[Init0] # "UNUSED"
        /\ Idle # Init0 /\ FamilyTreeSound
    BY ProcAssumption DEF Inv, TypeOK, Control
  <1> DEFINE S == {p \in UserProc : state[p] # "UNUSED"}
  <1>1. S = {}
    <2> SUFFICES ASSUME S # {} PROVE FALSE
      OBVIOUS
    <2>1. PICK p \in S : parent[p] \notin S
      BY DEF Inv, Forest
    <2>2. p \in Procs /\ parent[p] \in Procs
      BY <1>0 DEF Procs
    <2>3. parent[p] # Idle /\ state[parent[p]] # "UNUSED"
      BY <1>0 DEF FamilyTreeSound
    <2>4. parent[p] = Init0
      BY <2>1, <2>2, <2>3 DEF Procs
    <2> QED
      BY <2>2, <2>4 DEF Child
  <1>2. \A p \in UserProc : state[p] = "UNUSED"
    BY <1>1
  <1>3. {p \in Procs : state[p] # "UNUSED"} = {Idle} \cup {Init0}
    BY <1>0, <1>2 DEF Procs
  <1>4. IsFiniteSet({Idle}) /\ Cardinality({Idle}) = 1
    BY FS_Singleton
  <1>5. Cardinality({Idle} \cup {Init0}) = 2
    <2>1. Init0 \notin {Idle}
      BY <1>0
    <2>2. Cardinality({Idle} \cup {Init0}) = Cardinality({Idle}) + 1
      BY <1>4, <2>1, FS_AddElement
    <2> QED
      BY <1>4, <2>2
  <1> QED
    BY <1>0, <1>2, <1>3, <1>5 DEF FamilyTreeSound

LEMMA WaitNoneInv == Inv /\ WaitNone => Inv'
  <1> SUFFICES ASSUME Inv, WaitNone PROVE Inv'
    OBVIOUS
  <1>0. /\ At("wait") /\ Awaited(current) = {}
        /\ waitpid' = [waitpid EXCEPT ![current] = Idle]
        /\ UNCHANGED <<procVars, treeVars, schedVars, timerVars, stdinVars, todo,
                       insched, irq>>
    BY DEF WaitNone
  <1>1. CASE current = Init0
    <2>1. Child(Init0) = {}
      BY <1>0, <1>1, MoveTypes DEF Awaited
    <2>2. nr_process = 2 /\ \A p \in UserProc : state[p] = "UNUSED"
      BY <2>1, InitAlone
    <2>3. Goto("exit") /\ halted' = halted
      BY <1>1, <2>2 DEF WaitNone, KAssert
    <2> QED
      BY <1>0, <1>1, <2>3, Move, MoveTypes DEF procVars, treeVars, schedVars, timerVars,
         stdinVars, Locations
  <1>2. CASE current # Init0
    <2>1. Goto("tail") /\ halted' = halted
      BY <1>2 DEF WaitNone
    <2> QED
      BY <1>0, <1>2, <2>1, Move, MoveTypes DEF procVars, treeVars, schedVars, timerVars,
         stdinVars, Locations
  <1> QED
    BY <1>1, <1>2
=============================================================================
