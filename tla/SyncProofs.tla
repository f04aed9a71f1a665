----------------------------- MODULE SyncProofs -----------------------------
(* Every step preserves the invariant; the theorems about Sync, for every    *)
(* number of philosophers and of rounds.                                     *)
EXTENDS SyncInvariant

LEMMA TakeForksInv == ASSUME IInv, NEW i \in Phil, TakeForks(i) PROVE IInv'
  <1>1. /\ pc[i] = "think" /\ ~Asleep(i) /\ down(i, mutex) /\ Goto(i, "hungry")
        /\ kind' = kind /\ state' = state /\ count' = count
    BY DEF TakeForks, At, monVars
  <1>2. Types /\ TableOK /\ \A k \in Phil : Private(k)
    BY DEF IInv
  <1>3. /\ pc' \in [Phil -> Labels] /\ pc'[i] = "hungry"
        /\ \A k \in Phil : k # i => pc'[k] = pc[k]
    BY <1>1, <1>2, Moved DEF Labels
  <1>4. /\ Semaphores'
        /\ \A k \in Phil : value'[k] = value[k] /\ (Waiting(k, k)' <=> Waiting(k, k))
    BY <1>1, <1>2, DownStep, SemaphoresOK, SemIds DEF Types
  <1>5. Queues' /\ OneToken'
    <2>1. Handover(mutex) /\ WaitsAfter(i, mutex)' /\ "think" \notin InSection
      BY <1>3 DEF Handover, WaitsAfter, InSection, mutex
    <2> QED
      BY <1>1, <2>1, Enter, SemIds DEF Labels
  <1>6. Types'
    BY <1>1, <1>2, <1>3, <1>4 DEF Types, Semaphores
  <1>7. Private(i)'
    BY <1>1, <1>2, <1>3, <1>4 DEF Private, Outside, Woken, Signalling
  <1>8. \A k \in Phil : Private(k)'
    BY <1>1, <1>2, <1>3, <1>4, <1>7, PrivateKept
  <1> QED
    BY <1>1, <1>2, <1>5, <1>6, <1>8, TableKept DEF IInv

LEMMA PutForksInv == ASSUME IInv, NEW i \in Phil, PutForks(i) PROVE IInv'
  <1>1. /\ pc[i] = "eat" /\ ~Asleep(i) /\ down(i, mutex) /\ Goto(i, "put")
        /\ kind' = kind /\ state' = state /\ count' = count
    BY DEF PutForks, At, monVars
  <1>2. Types /\ TableOK /\ \A k \in Phil : Private(k)
    BY DEF IInv
  <1>3. /\ pc' \in [Phil -> Labels] /\ pc'[i] = "put"
        /\ \A k \in Phil : k # i => pc'[k] = pc[k]
    BY <1>1, <1>2, Moved DEF Labels
  <1>4. /\ Semaphores'
        /\ \A k \in Phil : value'[k] = value[k] /\ (Waiting(k, k)' <=> Waiting(k, k))
    BY <1>1, <1>2, DownStep, SemaphoresOK, SemIds DEF Types
  <1>5. Queues' /\ OneToken'
    <2>1. Handover(mutex) /\ WaitsAfter(i, mutex)' /\ "eat" \notin InSection
      BY <1>3 DEF Handover, WaitsAfter, InSection, mutex
    <2> QED
      BY <1>1, <2>1, Enter, SemIds DEF Labels
  <1>6. Types'
    BY <1>1, <1>2, <1>3, <1>4 DEF Types, Semaphores
  <1>7. Private(i)'
    <2>1. ~Waiting(i, i) /\ kind \in {"sema", "condvar"}
      BY <1>1, <1>2, SemIds DEF Asleep, Types
    <2>2. state[i] = "EATING" /\ value[i] = 0 /\ count[i] = 0
      BY <1>1, <1>2, <2>1 DEF Private, Woken, One
    <2> QED
      BY <1>1, <1>3, <1>4, <2>1, <2>2 DEF Private, Outside, Woken, Signalling
  <1>8. \A k \in Phil : Private(k)'
    BY <1>1, <1>2, <1>3, <1>4, <1>7, PrivateKept
  <1> QED
    BY <1>1, <1>2, <1>5, <1>6, <1>8, TableKept DEF IInv

(* Setting one's own state, in the section.                                  *)
LEMMA HungryInv == ASSUME IInv, NEW i \in Phil, Hungry(i) PROVE IInv'
  <1>1. /\ pc[i] = "hungry" /\ ~Asleep(i) /\ Goto(i, "test_self")
        /\ state' = [state EXCEPT ![i] = "HUNGRY"]
        /\ kind' = kind /\ UNCHANGED semVars /\ value' = value /\ queue' = queue /\ count' = count
    BY DEF Hungry, At, monVars, semVars
  <1>2. Types /\ TableOK /\ \A k \in Phil : Private(k)
    BY DEF IInv
  <1>3. /\ pc' \in [Phil -> Labels] /\ pc'[i] = "test_self"
        /\ \A k \in Phil : k # i => pc'[k] = pc[k]
    BY <1>1, <1>2, Moved DEF Labels
  <1>4. Queues' /\ OneToken' /\ \A k \in Phil, t \in Sem : Waiting(k, t)' <=> Waiting(k, t)
    BY <1>1, Stay DEF Labels, InSection
  <1>5. Types' /\ \A k \in Phil : state'[k] = IF k = i THEN "HUNGRY" ELSE state[k]
    BY <1>1, <1>2, <1>3 DEF Types
  <1>6. Private(i)'
    BY <1>1, <1>2, <1>3, <1>4, <1>5, SemIds DEF Private, Outside, Woken, Signalling, One
  <1>7. \A k \in Phil : Private(k)'
    BY <1>1, <1>2, <1>3, <1>4, <1>5, <1>6, PrivateKept, SemIds
  <1> QED
    BY <1>1, <1>2, <1>4, <1>5, <1>7, TableLess DEF IInv

LEMMA PutInv == ASSUME IInv, NEW i \in Phil, Put(i) PROVE IInv'
  <1>1. /\ pc[i] = "put" /\ ~Asleep(i) /\ Goto(i, "test_left")
        /\ state' = [state EXCEPT ![i] = "THINKING"]
        /\ kind' = kind /\ UNCHANGED semVars /\ value' = value /\ queue' = queue /\ count' = count
    BY DEF Put, At, monVars, semVars
  <1>2. Types /\ TableOK /\ \A k \in Phil : Private(k)
    BY DEF IInv
  <1>3. /\ pc' \in [Phil -> Labels] /\ pc'[i] = "test_left"
        /\ \A k \in Phil : k # i => pc'[k] = pc[k]
    BY <1>1, <1>2, Moved DEF Labels
  <1>4. Queues' /\ OneToken' /\ \A k \in Phil, t \in Sem : Waiting(k, t)' <=> Waiting(k, t)
    BY <1>1, Stay DEF Labels, InSection
  <1>5. Types' /\ \A k \in Phil : state'[k] = IF k = i THEN "THINKING" ELSE state[k]
    BY <1>1, <1>2, <1>3 DEF Types
  <1>6. Private(i)'
    BY <1>1, <1>2, <1>3, <1>4, <1>5, SemIds DEF Private, Outside, Woken, Signalling
  <1>7. \A k \in Phil : Private(k)'
    BY <1>1, <1>2, <1>3, <1>4, <1>5, <1>6, PrivateKept, SemIds
  <1> QED
    BY <1>1, <1>2, <1>4, <1>5, <1>7, TableLess DEF IInv

(* Leaving by an up of mutex or next disturbs nobody's own semaphore.        *)
LEMMA LeaveFacts ==
    ASSUME IInv, kind' = kind, NEW i \in Phil, NEW l \in Labels, l \notin InSection,
           NEW s \in {mutex, next}, Owns(i), up(s), Goto(i, l)
    PROVE  /\ Semaphores' /\ Queues' /\ OneToken'
           /\ pc' \in [Phil -> Labels] /\ pc'[i] = l
           /\ \A k \in Phil : k # i => pc'[k] = pc[k]
           /\ \A k \in Phil : value'[k] = value[k] /\ (Waiting(k, k)' <=> Waiting(k, k))
  <1>1. Types
    BY DEF IInv
  <1>2. s \in Sem /\ Handover(s)
    BY SemIds DEF Handover
  <1>3. Queues' /\ OneToken'
    BY <1>2, GiveAway
  <1>4. /\ Semaphores'
        /\ \A k \in Phil : value'[k] = value[k] /\ (Waiting(k, k)' <=> Waiting(k, k))
    BY <1>1, <1>2, UpStep, SemaphoresOK, SemIds DEF Types
  <1> QED
    BY <1>1, <1>3, <1>4, Moved

LEMMA LeaveIsUp == Leave => \E s \in {mutex, next} : up(s)
  BY DEF Leave

LEMMA LeaveTakeInv == ASSUME IInv, NEW i \in Phil, LeaveTake(i) PROVE IInv'
  <1>1. /\ kind = "sema" /\ pc[i] = "tested" /\ ~Asleep(i) /\ up(mutex) /\ Goto(i, "down_self")
        /\ kind' = kind /\ state' = state /\ count' = count
    BY DEF LeaveTake, At, monVars
  <1>2. Types /\ TableOK /\ \A k \in Phil : Private(k)
    BY DEF IInv
  <1>3. /\ Semaphores' /\ Queues' /\ OneToken'
        /\ pc' \in [Phil -> Labels] /\ pc'[i] = "down_self"
        /\ \A k \in Phil : k # i => pc'[k] = pc[k]
        /\ \A k \in Phil : value'[k] = value[k] /\ (Waiting(k, k)' <=> Waiting(k, k))
    BY <1>1, LeaveFacts DEF Labels, InSection, Owns
  <1>4. Types'
    BY <1>1, <1>2, <1>3 DEF Types, Semaphores
  <1>5. Private(i)'
    BY <1>1, <1>2, <1>3 DEF Private, Outside, Woken, Signalling, One
  <1>6. \A k \in Phil : Private(k)'
    BY <1>1, <1>2, <1>3, <1>5, PrivateKept
  <1> QED
    BY <1>1, <1>2, <1>3, <1>4, <1>6, TableKept DEF IInv

LEMMA LeaveMonitorInv == ASSUME IInv, NEW i \in Phil, LeaveMonitor(i) PROVE IInv'
  <1>1. /\ kind = "condvar" /\ pc[i] = "tested" /\ ~Asleep(i) /\ state[i] = "EATING"
        /\ Leave /\ Goto(i, "eat")
        /\ kind' = kind /\ state' = state /\ count' = count
    BY DEF LeaveMonitor, At, monVars
  <1>2. Types /\ TableOK /\ \A k \in Phil : Private(k)
    BY DEF IInv
  <1>3. /\ Semaphores' /\ Queues' /\ OneToken'
        /\ pc' \in [Phil -> Labels] /\ pc'[i] = "eat"
        /\ \A k \in Phil : k # i => pc'[k] = pc[k]
        /\ \A k \in Phil : value'[k] = value[k] /\ (Waiting(k, k)' <=> Waiting(k, k))
    BY <1>1, LeaveFacts, LeaveIsUp DEF Labels, InSection, Owns
  <1>4. Types'
    BY <1>1, <1>2, <1>3 DEF Types, Semaphores
  <1>5. Private(i)'
    BY <1>1, <1>2, <1>3 DEF Private, Outside, Woken, Signalling, One
  <1>6. \A k \in Phil : Private(k)'
    BY <1>1, <1>2, <1>3, <1>5, PrivateKept
  <1> QED
    BY <1>1, <1>2, <1>3, <1>4, <1>6, TableKept DEF IInv

LEMMA CondWaitInv == ASSUME IInv, NEW i \in Phil, CondWait(i) PROVE IInv'
  <1>1. /\ kind = "condvar" /\ pc[i] = "tested" /\ ~Asleep(i) /\ state[i] # "EATING"
        /\ Leave /\ Goto(i, "down_self") /\ count' = [count EXCEPT ![i] = @ + 1]
        /\ kind' = kind /\ state' = state
    BY DEF CondWait, At
  <1>2. Types /\ TableOK /\ \A k \in Phil : Private(k)
    BY DEF IInv
  <1>3. /\ Semaphores' /\ Queues' /\ OneToken'
        /\ pc' \in [Phil -> Labels] /\ pc'[i] = "down_self"
        /\ \A k \in Phil : k # i => pc'[k] = pc[k]
        /\ \A k \in Phil : value'[k] = value[k] /\ (Waiting(k, k)' <=> Waiting(k, k))
    BY <1>1, LeaveFacts, LeaveIsUp DEF Labels, InSection, Owns
  <1>4. Types' /\ \A k \in Phil : count'[k] = IF k = i THEN count[k] + 1 ELSE count[k]
    BY <1>1, <1>2, <1>3 DEF Types, Semaphores
  <1>5. Private(i)'
    BY <1>1, <1>2, <1>3, <1>4 DEF Private, Outside, Woken, Signalling, One
  <1>6. \A k \in Phil : Private(k)'
    BY <1>1, <1>2, <1>3, <1>4, <1>5, PrivateKept
  <1> QED
    BY <1>1, <1>2, <1>3, <1>4, <1>6, TableKept DEF IInv

LEMMA CondWokenInv == ASSUME IInv, NEW i \in Phil, CondWoken(i) PROVE IInv'
  <1>1. /\ pc[i] = "cond_woken" /\ ~Asleep(i)
        /\ Leave /\ Goto(i, "eat") /\ count' = [count EXCEPT ![i] = @ - 1]
        /\ kind' = kind /\ state' = state
    BY DEF CondWoken, At
  <1>2. Types /\ TableOK /\ \A k \in Phil : Private(k)
    BY DEF IInv
  <1>3. /\ Semaphores' /\ Queues' /\ OneToken'
        /\ pc' \in [Phil -> Labels] /\ pc'[i] = "eat"
        /\ \A k \in Phil : k # i => pc'[k] = pc[k]
        /\ \A k \in Phil : value'[k] = value[k] /\ (Waiting(k, k)' <=> Waiting(k, k))
    BY <1>1, LeaveFacts, LeaveIsUp DEF Labels, InSection, Owns
  <1>4. Types' /\ \A k \in Phil : count'[k] = IF k = i THEN count[k] - 1 ELSE count[k]
    BY <1>1, <1>2, <1>3 DEF Types, Semaphores
  <1>5. Private(i)'
    <2>1. ~Waiting(i, i) /\ kind = "condvar"
      BY <1>1, <1>2, SemIds DEF Asleep, Types, Private
    <2> QED
      BY <1>1, <1>2, <1>3, <1>4, <2>1 DEF Private, Outside, Woken, Signalling, One
  <1>6. \A k \in Phil : Private(k)'
    BY <1>1, <1>2, <1>3, <1>4, <1>5, PrivateKept
  <1> QED
    BY <1>1, <1>2, <1>3, <1>4, <1>6, TableKept DEF IInv

LEMMA LeavePutInv == ASSUME IInv, NEW i \in Phil, LeavePut(i) PROVE IInv'
  <1> DEFINE l == IF iter[i] > 1 THEN "think" ELSE "quit"
  <1>1. /\ pc[i] = "put_done" /\ ~Asleep(i) /\ Leave /\ Goto(i, l)
        /\ kind' = kind /\ state' = state /\ count' = count
    BY DEF LeavePut, At, monVars
  <1>2. l \in {"think", "quit"}
    OBVIOUS
  <1> HIDE DEF l
  <1>3. Types /\ TableOK /\ \A k \in Phil : Private(k)
    BY DEF IInv
  <1>4. /\ Semaphores' /\ Queues' /\ OneToken'
        /\ pc' \in [Phil -> Labels] /\ pc'[i] = l
        /\ \A k \in Phil : k # i => pc'[k] = pc[k]
        /\ \A k \in Phil : value'[k] = value[k] /\ (Waiting(k, k)' <=> Waiting(k, k))
    BY <1>1, <1>2, LeaveFacts, LeaveIsUp DEF Labels, InSection, Owns
  <1>5. Types'
    BY <1>1, <1>3, <1>4 DEF Types, Semaphores
  <1>6. Private(i)'
    BY <1>1, <1>2, <1>3, <1>4 DEF Private, Outside, Woken, Signalling
  <1>7. \A k \in Phil : Private(k)'
    BY <1>1, <1>3, <1>4, <1>6, PrivateKept
  <1> QED
    BY <1>1, <1>3, <1>4, <1>5, <1>7, TableKept DEF IInv

LEMMA SignalWaitInv == ASSUME IInv, NEW i \in Phil, SignalWait(i) PROVE IInv'
  <1>1. PICK l \in {"signalled_left", "signalled_right"} :
            pc[i] \in {"signal_left", "signal_right"} /\ Goto(i, l)
    BY DEF SignalWait, At
  <1>2. /\ ~Asleep(i) /\ down(i, next)
        /\ kind' = kind /\ state' = state /\ count' = count
    BY DEF SignalWait, At, monVars
  <1>3. Types /\ TableOK /\ \A k \in Phil : Private(k)
    BY DEF IInv
  <1>4. /\ pc' \in [Phil -> Labels] /\ pc'[i] = l
        /\ \A k \in Phil : k # i => pc'[k] = pc[k]
    BY <1>1, <1>3, Moved DEF Labels
  <1>5. /\ Semaphores'
        /\ \A k \in Phil : value'[k] = value[k] /\ (Waiting(k, k)' <=> Waiting(k, k))
    <2>1. /\ Semaphores'
          /\ \/ /\ value' = [value EXCEPT ![next] = @ - 1]
                /\ \A k \in Phil, t \in Sem : Waiting(k, t)' <=> Waiting(k, t)
             \/ /\ value' = value
                /\ \A k \in Phil, t \in Sem :
                      Waiting(k, t)' <=> Waiting(k, t) \/ (k = i /\ t = next)
      BY <1>2, DownStep, SemaphoresOK, SemIds
    <2> QED
      BY <1>3, <2>1, SemIds DEF Types
  <1>6. Queues' /\ OneToken'
    <2>1. Handover(next) /\ WaitsAfter(i, next)' /\ pc[i] \notin InSection
      BY <1>1, <1>4 DEF Handover, WaitsAfter, InSection, next
    <2>2. l \in Labels
      BY DEF Labels
    <2> QED
      BY <1>1, <1>2, <2>1, <2>2, Enter, SemIds
  <1>7. Types'
    BY <1>2, <1>3, <1>4, <1>5 DEF Types, Semaphores
  <1>8. Private(i)'
    <2>1. /\ state[i] = "THINKING" /\ value[i] = 0 /\ ~Waiting(i, i) /\ count[i] = 0
          /\ kind = "condvar"
      BY <1>1, <1>3 DEF Private, Outside, Signalling, Types
    <2> QED
      BY <1>1, <1>2, <1>4, <1>5, <2>1 DEF Private, Outside, Woken
  <1>9. \A k \in Phil : Private(k)'
    BY <1>2, <1>3, <1>4, <1>5, <1>8, PrivateKept
  <1> QED
    BY <1>2, <1>3, <1>6, <1>7, <1>9, TableKept DEF IInv

LEMMA SignalDoneInv == ASSUME IInv, NEW i \in Phil, SignalDone(i) PROVE IInv'
  <1>1. PICK l \in {"test_right", "put_done"} :
            pc[i] \in {"signalled_left", "signalled_right"} /\ Goto(i, l)
    BY DEF SignalDone, At
  <1>2. /\ ~Asleep(i) /\ UNCHANGED semVars /\ value' = value /\ queue' = queue
        /\ kind' = kind /\ state' = state /\ count' = count
    BY DEF SignalDone, At, semVars
  <1>3. Types /\ TableOK /\ \A k \in Phil : Private(k)
    BY DEF IInv
  <1>4. /\ pc' \in [Phil -> Labels] /\ pc'[i] = l
        /\ \A k \in Phil : k # i => pc'[k] = pc[k]
    BY <1>1, <1>3, Moved DEF Labels
  <1>5. Queues' /\ OneToken' /\ \A k \in Phil, t \in Sem : Waiting(k, t)' <=> Waiting(k, t)
    <2>1. l \in Labels /\ pc[i] \in InSection
      BY <1>1 DEF Labels, InSection
    <2> QED
      BY <1>1, <1>2, <2>1, Stay
  <1>6. Types'
    BY <1>2, <1>3, <1>4 DEF Types
  <1>7. Private(i)'
    <2>1. /\ state[i] = "THINKING" /\ value[i] = 0 /\ ~Waiting(i, i) /\ count[i] = 0
          /\ kind = "condvar"
      BY <1>1, <1>3 DEF Private, Outside, Signalling, Types
    <2> QED
      BY <1>1, <1>2, <1>4, <1>5, <2>1, SemIds DEF Private, Outside, Woken
  <1>8. \A k \in Phil : Private(k)'
    BY <1>2, <1>3, <1>4, <1>5, <1>7, PrivateKept, SemIds
  <1> QED
    BY <1>2, <1>3, <1>5, <1>6, <1>8, TableKept DEF IInv

(* A philosopher's own semaphore: a unit is there exactly if the forks are.  *)
LEMMA DownSelfInv == ASSUME IInv, NEW i \in Phil, DownSelf(i) PROVE IInv'
  <1>1. /\ pc[i] = "down_self" /\ ~Asleep(i) /\ down(i, i) /\ Goto(i, Woken)
        /\ kind' = kind /\ state' = state /\ count' = count
    BY DEF DownSelf, At, monVars, Woken
  <1>2. Types /\ TableOK /\ Queues /\ OneToken /\ \A k \in Phil : Private(k)
    BY DEF IInv
  <1>3. /\ pc' \in [Phil -> Labels] /\ pc'[i] = Woken /\ Woken \in Labels
        /\ \A k \in Phil : k # i => pc'[k] = pc[k]
    <2>1. Woken \in Labels
      BY DEF Woken, Labels
    <2> QED
      BY <1>1, <1>2, <2>1, Moved
  <1>4. /\ Semaphores'
        /\ \/ /\ value[i] > 0 /\ value' = [value EXCEPT ![i] = @ - 1]
              /\ \A k \in Phil, t \in Sem : Waiting(k, t)' <=> Waiting(k, t)
           \/ /\ value[i] = 0 /\ value' = value
              /\ \A k \in Phil, t \in Sem :
                    Waiting(k, t)' <=> Waiting(k, t) \/ (k = i /\ t = i)
    BY <1>1, DownStep, SemaphoresOK, SemIds
  <1>5. Types'
    BY <1>1, <1>2, <1>3, <1>4 DEF Types, Semaphores
  <1>6. WaitsAfter(i, i)'
    BY <1>1, <1>3 DEF WaitsAfter, Woken
  <1>7. Queues' /\ OneToken'
    <2>1. CASE kind = "condvar"
      BY <1>1, <1>3, <1>6, <2>1, Enter, SemIds DEF Handover, InSection
    <2>2. CASE kind = "sema"
      <3>1. \A k \in Phil, t \in Sem : Waiting(k, t) => k # i
        BY <1>1 DEF Asleep
      <3>2. ASSUME NEW k \in Phil, NEW t \in Sem, Waiting(k, t)' PROVE WaitsAfter(k, t)'
        <4>1. CASE k = i /\ t = i
          BY <1>6, <4>1
        <4>2. CASE ~(k = i /\ t = i)
          <5>1. WaitsAfter(k, t) /\ k # i
            BY <1>2, <1>4, <3>1, <3>2, <4>2 DEF Queues
          <5> QED
            BY <1>1, <1>3, <5>1 DEF WaitsAfter, Woken
        <4> QED
          BY <4>1, <4>2
      <3>3. \A k \in Phil : Owns(k)' => Owns(k)
        <4>1. ~Owns(i)'
          BY <1>3, <2>2 DEF Owns, InSection, Woken
        <4>2. \A k \in Phil : k # i /\ Owns(k)' => Owns(k)
          BY <1>3, <1>4 DEF Owns, Asleep
        <4> QED
          BY <4>1, <4>2
      <3>4. \A s \in Sem : value'[s] <= value[s] /\ value[s] <= 1 /\ value[s] \in Nat
                           /\ value'[s] \in Nat
        <4>1. \A s \in Sem : value[s] \in Nat /\ value[s] <= 1
          BY <1>2 DEF Types, OneToken
        <4>2. \A s \in Sem : value'[s] \in Nat
          BY <1>5 DEF Types
        <4>3. \A s \in Sem : value'[s] = value[s] \/ value'[s] = value[s] - 1
          BY <1>2, <1>4 DEF Types
        <4> QED
          BY <4>1, <4>2, <4>3
      <3>5. OneToken'
        BY <1>1, <1>2, <1>5, <3>3, <3>4, TokenKept
      <3> QED
        BY <1>4, <3>2, <3>5 DEF Queues, Semaphores
    <2> QED
      BY <1>2, <2>1, <2>2 DEF Types
  <1>8. Private(i)'
    <2>1. /\ state[i] \in {"HUNGRY", "EATING"} /\ ~Waiting(i, i)
          /\ count[i] = One(kind = "condvar") /\ value[i] = One(state[i] = "EATING")
      BY <1>1, <1>2 DEF Private
    <2>2. /\ Waiting(i, i)' <=> state[i] = "HUNGRY"
          /\ value'[i] = 0
      BY <1>2, <1>4, <2>1, SemIds DEF One, Types
    <2> QED
      BY <1>1, <1>2, <1>3, <2>1, <2>2 DEF Private, Outside, Woken, Signalling, One, Types
  <1>9. \A k \in Phil : Private(k)'
    <2>1. \A k \in Phil : k # i => value'[k] = value[k] /\ (Waiting(k, k)' <=> Waiting(k, k))
      BY <1>2, <1>4, SemIds DEF Types
    <2> QED
      BY <1>1, <1>2, <1>3, <1>8, <2>1, PrivateKept
  <1> QED
    BY <1>1, <1>2, <1>5, <1>7, <1>9, TableKept DEF IInv

-----------------------------------------------------------------------------
(* phi_test() of a neighbour, by a philosopher that has put its forks down.  *)
LEMMA TestNeighbour ==
    ASSUME IInv, NEW i \in Phil, NEW j \in Phil, i # j, ~Asleep(i),
           pc[i] \in {"test_left", "test_right"},
           NEW l \in {"test_right", "put_done"}, NEW w \in {"signal_left", "signal_right"},
           phi_test(i, j, l, w), kind' = kind, count' = count
    PROVE  IInv'
  <1>1. Types /\ TableOK /\ Queues /\ OneToken /\ \A k \in Phil : Private(k)
    BY DEF IInv
  <1>2. l \in Labels /\ w \in Labels /\ l \in InSection /\ w \notin InSection /\ Owns(i)
    BY DEF Labels, InSection, Owns
  <1>3. state[i] = "THINKING" /\ value[i] = 0 /\ ~Waiting(i, i) /\ count[i] = 0
    BY <1>1 DEF Private, Outside
  <1>4. CASE ~MayEat(j)
    <2>1. Goto(i, l) /\ UNCHANGED semVars /\ value' = value /\ queue' = queue /\ state' = state
      BY <1>4 DEF phi_test, semVars
    <2>2. /\ pc' \in [Phil -> Labels] /\ pc'[i] = l
          /\ \A k \in Phil : k # i => pc'[k] = pc[k]
      BY <1>1, <1>2, <2>1, Moved
    <2>3. Queues' /\ OneToken' /\ \A k \in Phil, t \in Sem : Waiting(k, t)' <=> Waiting(k, t)
      BY <1>2, <2>1, Stay DEF Owns
    <2>4. Types'
      BY <1>1, <2>1, <2>2 DEF Types
    <2>5. Private(i)'
      BY <1>3, <2>1, <2>2, <2>3, SemIds DEF Private, Outside, Woken, Signalling
    <2>6. \A k \in Phil : Private(k)'
      BY <1>1, <2>1, <2>2, <2>3, <2>5, PrivateKept, SemIds
    <2> QED
      BY <1>1, <2>1, <2>3, <2>4, <2>6, TableKept DEF IInv
  <1>5. CASE MayEat(j)
    <2>1. /\ state[j] = "HUNGRY" /\ state' = [state EXCEPT ![j] = "EATING"]
          /\ \/ /\ kind = "sema"
                /\ up(j) /\ Goto(i, l) /\ UNCHANGED next_count
             \/ /\ kind = "condvar" /\ count[j] = 0
                /\ Goto(i, l) /\ UNCHANGED <<semVars, next_count>>
             \/ /\ kind = "condvar" /\ count[j] > 0
                /\ next_count' = next_count + 1
                /\ up(j) /\ Goto(i, w)
      BY <1>5 DEF phi_test, MayEat
    <2>2. TableOK' /\ state' \in [Phil -> {"THINKING", "HUNGRY", "EATING"}]
          /\ \A k \in Phil : state'[k] = IF k = j THEN "EATING" ELSE state[k]
      BY <1>1, <1>5, <2>1, TableGrant DEF Types
    <2>3. /\ pc[j] \in {"test_self", "tested", "down_self"} \/ (pc[j] = Woken /\ Waiting(j, j))
          /\ value[j] = 0
      <3>1. pc[j] \in Labels /\ kind \in {"sema", "condvar"}
        BY <1>1 DEF Types
      <3> QED
        BY <1>1, <2>1, <3>1 DEF Private, Labels, Outside, Woken, One
    <2>4. CASE kind = "condvar" /\ count[j] = 0
      <3>1. Goto(i, l) /\ UNCHANGED semVars /\ value' = value /\ queue' = queue
        BY <2>1, <2>4 DEF semVars
      <3>2. /\ pc' \in [Phil -> Labels] /\ pc'[i] = l
            /\ \A k \in Phil : k # i => pc'[k] = pc[k]
        BY <1>1, <1>2, <3>1, Moved
      <3>3. Queues' /\ OneToken' /\ \A k \in Phil, t \in Sem : Waiting(k, t)' <=> Waiting(k, t)
        BY <1>2, <3>1, Stay DEF Owns
      <3>4. Types'
        BY <1>1, <2>2, <3>1, <3>2 DEF Types
      <3>5. Private(i)'
        BY <1>3, <2>2, <2>4, <3>1, <3>2, <3>3, SemIds DEF Private, Outside, Woken, Signalling
      <3>6. Private(j)'
        <4>1. pc[j] \in {"test_self", "tested"}
          BY <1>1, <2>3, <2>4 DEF Private, One, Woken
        <4> QED
          BY <1>1, <2>2, <2>4, <3>1, <3>2, <3>3, <4>1, SemIds
          DEF Private, Outside, Woken, Signalling, One
      <3>7. \A k \in Phil : Private(k)'
        BY <1>1, <2>2, <3>1, <3>2, <3>3, <3>5, <3>6, PrivateKept, SemIds
      <3> QED
        BY <2>2, <3>3, <3>4, <3>7 DEF IInv
    <2>5. CASE kind = "sema" \/ count[j] > 0
      <3> DEFINE m == IF kind = "sema" THEN l ELSE w
      <3>1. up(j) /\ Goto(i, m) /\ m \in Labels
        BY <1>1, <1>2, <2>1, <2>5 DEF Types
      <3>2. /\ pc' \in [Phil -> Labels] /\ pc'[i] = m
            /\ \A k \in Phil : k # i => pc'[k] = pc[k]
        BY <1>1, <3>1, Moved
      <3>3. /\ Semaphores'
            /\ \/ /\ value' = [value EXCEPT ![j] = @ + 1]
                  /\ \A k \in Phil : ~Waiting(k, j)
                  /\ \A k \in Phil, t \in Sem : Waiting(k, t)' <=> Waiting(k, t)
               \/ /\ value' = value
                  /\ \E h \in Phil :
                        /\ Waiting(h, j)
                        /\ \A k \in Phil, t \in Sem :
                              Waiting(k, t)' <=> Waiting(k, t) /\ ~(k = h /\ t = j)
        BY <3>1, UpStep, SemaphoresOK, SemIds
      <3>4. \/ /\ value' = [value EXCEPT ![j] = @ + 1] /\ ~Waiting(j, j)
               /\ \A k \in Phil, t \in Sem : Waiting(k, t)' <=> Waiting(k, t)
            \/ /\ value' = value /\ Waiting(j, j)
               /\ \A k \in Phil, t \in Sem :
                     Waiting(k, t)' <=> Waiting(k, t) /\ ~(k = j /\ t = j)
        <4>1. \A h \in Phil : Waiting(h, j) => h = j
          BY <1>1, SemIds DEF Queues, WaitsAfter
        <4> QED
          BY <3>3, <4>1
      <3>5. Types'
        BY <1>1, <2>2, <3>2, <3>3 DEF Types, Semaphores
      <3>6. Queues' /\ OneToken'
        <4>1. CASE kind = "condvar"
          BY <1>2, <3>1, <4>1, GiveAway, SemIds DEF Handover
        <4>2. CASE kind = "sema"
          <5>1. ASSUME NEW k \in Phil, NEW t \in Sem, Waiting(k, t)' PROVE WaitsAfter(k, t)'
            <6>1. Waiting(k, t) /\ k # i
              BY <1>2, <3>4, <5>1 DEF Owns, Asleep
            <6>2. WaitsAfter(k, t) /\ pc'[k] = pc[k]
              BY <1>1, <3>2, <6>1 DEF Queues
            <6> QED
              BY <6>2 DEF WaitsAfter, Woken
          <5>2. ASSUME NEW k \in Phil, Owns(k)' PROVE Owns(k)
            <6>1. CASE k = i
              BY <1>2, <6>1
            <6>2. CASE k # i /\ (k # j \/ ~Waiting(j, j))
              BY <3>2, <3>4, <5>2, <6>2 DEF Owns, Asleep
            <6>3. CASE k # i /\ k = j /\ Waiting(j, j)
              <7>1. pc[j] = "eat"
                BY <1>1, <4>2, <6>3, SemIds DEF Queues, WaitsAfter, Woken
              <7> QED
                BY <3>2, <5>2, <6>3, <7>1 DEF Owns, InSection
            <6> QED
              BY <6>1, <6>2, <6>3
          <5>3. \A s \in Sem : s # j => value'[s] = value[s]
            BY <1>1, <3>4, SemIds DEF Types
          <5>4. value'[j] <= 1
            BY <1>1, <2>3, <3>4, SemIds DEF Types
          <5>5. \A s \in Sem : /\ Handover(s) => value'[s] <= value[s]
                               /\ value'[s] <= 1
            <6>1. ~Handover(j)
              BY <4>2, SemIds DEF Handover
            <6>2. \A s \in Sem : value[s] \in Nat /\ value[s] <= 1
              BY <1>1 DEF OneToken, Types
            <6> QED
              BY <5>3, <5>4, <6>1, <6>2
          <5>6. OneToken'
            BY <1>1, <3>5, <5>2, <5>5, TokenKept
          <5> QED
            BY <3>3, <5>1, <5>6 DEF Queues, Semaphores
        <4> QED
          BY <1>1, <4>1, <4>2 DEF Types
      <3>7. Private(i)'
        <4>1. m \in Outside /\ (kind = "sema" => m \notin Signalling \cup {"cond_woken"})
          BY DEF Outside, Signalling
        <4>2. value'[i] = 0 /\ ~Waiting(i, i)' /\ state'[i] = "THINKING" /\ count'[i] = 0
          BY <1>1, <1>3, <2>2, <3>4, SemIds DEF Types
        <4> HIDE DEF m
        <4> QED
          BY <3>2, <4>1, <4>2 DEF Private, Outside, Woken
      <3>8. Private(j)'
        <4>1. /\ state'[j] = "EATING" /\ count'[j] = count[j] /\ pc'[j] = pc[j]
              /\ ~Waiting(j, j)' /\ value'[j] = IF Waiting(j, j) THEN 0 ELSE 1
          BY <1>1, <2>2, <2>3, <3>2, <3>4, SemIds DEF Types
        <4>2. kind = "condvar" => pc[j] \in {"down_self", "cond_woken"}
          BY <1>1, <2>3, <2>5 DEF Private, Woken
        <4>3. CASE pc[j] \in {"test_self", "tested"}
          BY <1>1, <4>1, <4>2, <4>3 DEF Private, Outside, Woken, Signalling, One, Types
        <4>4. CASE pc[j] = "down_self"
          BY <1>1, <4>1, <4>4 DEF Private, Outside, Woken, Signalling, One, Types
        <4>5. CASE pc[j] = Woken /\ Waiting(j, j)
          BY <1>1, <4>1, <4>2, <4>5 DEF Private, Outside, Woken, Signalling, One, Types
        <4> QED
          BY <2>3, <4>3, <4>4, <4>5
      <3>9. \A k \in Phil : Private(k)'
        <4>1. \A k \in Phil : k # j => value'[k] = value[k] /\ (Waiting(k, k)' <=> Waiting(k, k))
          BY <1>1, <3>4, SemIds DEF Types
        <4> QED
          BY <1>1, <2>2, <3>2, <3>7, <3>8, <4>1, PrivateKept
      <3> QED
        BY <2>2, <3>5, <3>6, <3>9 DEF IInv
    <2> QED
      BY <1>1, <2>1, <2>4, <2>5 DEF Types
  <1> QED
    BY <1>4, <1>5

LEMMA TestLeftInv == ASSUME IInv, NEW i \in Phil, TestLeft(i) PROVE IInv'
  <1>1. /\ ~Asleep(i) /\ pc[i] = "test_left" /\ kind' = kind /\ count' = count
        /\ phi_test(i, LEFT(i), "test_right", "signal_left")
    BY DEF TestLeft, At
  <1>2. LEFT(i) \in Phil /\ LEFT(i) # i
    BY Ring
  <1> QED
    BY <1>1, <1>2, TestNeighbour

LEMMA TestRightInv == ASSUME IInv, NEW i \in Phil, TestRight(i) PROVE IInv'
  <1>1. /\ ~Asleep(i) /\ pc[i] = "test_right" /\ kind' = kind /\ count' = count
        /\ phi_test(i, RIGHT(i), "put_done", "signal_right")
    BY DEF TestRight, At
  <1>2. RIGHT(i) \in Phil /\ RIGHT(i) # i
    BY Ring
  <1> QED
    BY <1>1, <1>2, TestNeighbour

(* phi_test() of oneself: nobody waits for these forks yet.                  *)
LEMMA TestSelfInv == ASSUME IInv, NEW i \in Phil, TestSelf(i) PROVE IInv'
  <1>1. /\ ~Asleep(i) /\ pc[i] = "test_self" /\ kind' = kind /\ count' = count
        /\ phi_test(i, i, "tested", "signal_self")
    BY DEF TestSelf, At
  <1>2. Types /\ TableOK /\ Queues /\ OneToken /\ \A k \in Phil : Private(k)
    BY DEF IInv
  <1>3. /\ state[i] \in {"HUNGRY", "EATING"} /\ ~Waiting(i, i) /\ count[i] = 0
        /\ value[i] = One(kind = "sema" /\ state[i] = "EATING")
    BY <1>1, <1>2 DEF Private
  <1>4. Goto(i, "tested") /\ "tested" \in Labels
    <2>1. ~(count[i] > 0)
      BY <1>3
    <2>2. Goto(i, "tested")
      BY <1>1, <2>1, Zenon DEF phi_test
    <2> QED
      BY <2>2 DEF Labels
  <1>5. /\ pc' \in [Phil -> Labels] /\ pc'[i] = "tested"
        /\ \A k \in Phil : k # i => pc'[k] = pc[k]
    BY <1>2, <1>4, Moved
  <1>6. \/ ~MayEat(i) /\ state' = state
        \/ MayEat(i) /\ state' = [state EXCEPT ![i] = "EATING"]
    BY <1>1 DEF phi_test
  <1>7. TableOK' /\ state' \in [Phil -> {"THINKING", "HUNGRY", "EATING"}]
    BY <1>2, <1>6, TableKept, TableGrant DEF Types
  <1>8. \A k \in Phil : k # i => state'[k] = state[k]
    BY <1>2, <1>6 DEF Types
  <1>9. CASE UNCHANGED semVars /\ (kind = "sema" => ~MayEat(i))
    <2>1. value' = value /\ queue' = queue
      BY <1>9 DEF semVars
    <2>2. Queues' /\ OneToken' /\ \A k \in Phil, t \in Sem : Waiting(k, t)' <=> Waiting(k, t)
      BY <1>1, <1>4, <1>9, Stay DEF InSection
    <2>3. Types'
      BY <1>1, <1>2, <1>5, <1>7, <2>1 DEF Types
    <2>4. Private(i)'
      <3>1. state'[i] \in {"HUNGRY", "EATING"} /\ (kind = "sema" => state'[i] = state[i])
        BY <1>2, <1>3, <1>6, <1>9 DEF Types
      <3> QED
        BY <1>1, <1>3, <1>5, <2>1, <2>2, <3>1, SemIds
        DEF Private, Outside, Woken, Signalling, One
    <2>5. \A k \in Phil : Private(k)'
      BY <1>1, <1>2, <1>5, <1>8, <2>1, <2>2, <2>4, PrivateKept, SemIds
    <2> QED
      BY <1>7, <2>2, <2>3, <2>5 DEF IInv
  <1>10. CASE kind = "sema" /\ MayEat(i) /\ up(i)
    <2>1. \A k \in Phil : ~Waiting(k, i)
      BY <1>2, <1>3, SemIds DEF Queues, WaitsAfter
    <2>2. /\ Semaphores' /\ value' = [value EXCEPT ![i] = @ + 1]
          /\ \A k \in Phil, t \in Sem : Waiting(k, t)' <=> Waiting(k, t)
      BY <1>10, <2>1, UpStep, SemaphoresOK, SemIds
    <2>3. /\ state[i] = "HUNGRY" /\ value[i] = 0
          /\ \A s \in Sem : value'[s] = IF s = i THEN 1 ELSE value[s]
      BY <1>2, <1>3, <1>10, <2>2, SemIds DEF MayEat, One, Types
    <2>4. Types'
      BY <1>1, <1>2, <1>5, <1>7, <2>2 DEF Types, Semaphores
    <2>5. Queues'
      <3>1. ASSUME NEW k \in Phil, NEW t \in Sem, Waiting(k, t)' PROVE WaitsAfter(k, t)'
        <4>1. Waiting(k, t) /\ k # i
          BY <1>1, <2>2, <3>1 DEF Asleep
        <4>2. WaitsAfter(k, t) /\ pc'[k] = pc[k]
          BY <1>2, <1>5, <4>1 DEF Queues
        <4> QED
          BY <1>1, <4>2 DEF WaitsAfter, Woken
      <3> QED
        BY <2>2, <3>1 DEF Queues, Semaphores
    <2>6. OneToken'
      <3>1. \A k \in Phil : Owns(k)' => Owns(k)
        BY <1>1, <1>5, <2>2 DEF Owns, Asleep, InSection
      <3>2. ~Handover(i)
        BY <1>10, SemIds DEF Handover
      <3>3. \A s \in Sem : value[s] \in Nat /\ value[s] <= 1
        BY <1>2 DEF OneToken, Types
      <3>4. \A s \in Sem : (Handover(s) => value'[s] <= value[s]) /\ value'[s] <= 1
        BY <2>3, <3>2, <3>3
      <3> QED
        BY <1>1, <1>2, <2>4, <3>1, <3>4, TokenKept
    <2>7. Private(i)'
      <3>1. state'[i] = "EATING" /\ value'[i] = 1 /\ ~Waiting(i, i)'
        BY <1>2, <1>3, <1>6, <1>10, <2>2, <2>3, SemIds DEF Types
      <3> QED
        BY <1>1, <1>3, <1>5, <1>10, <3>1 DEF Private, Outside, Woken, Signalling, One
    <2>8. \A k \in Phil : Private(k)'
      BY <1>1, <1>2, <1>5, <1>8, <2>2, <2>3, <2>7, PrivateKept, SemIds
    <2> QED
      BY <1>7, <2>4, <2>5, <2>6, <2>8 DEF IInv
  <1> QED
    BY <1>1, <1>3, <1>9, <1>10 DEF phi_test

-----------------------------------------------------------------------------
LEMMA InitInv == Init => IInv
  <1> SUFFICES ASSUME Init PROVE IInv
    OBVIOUS
  <1>1. Types
    BY SemIds DEF Init, Types, Labels
  <1>2. \A k \in Phil, s \in Sem : ~Waiting(k, s)
    BY DEF Init, Waiting, Range
  <1>3. \A k \in Phil : Private(k)
    BY <1>2, SemIds DEF Init, Private, Outside, Woken, Signalling
  <1>4. Queues
    BY <1>2 DEF Init, Queues, Once
  <1>5. OneToken
    BY SemIds DEF Init, OneToken, Owns, InSection
  <1>6. TableOK
    BY DEF Init, TableOK
  <1> QED
    BY <1>1, <1>3, <1>4, <1>5, <1>6 DEF IInv

LEMMA StutterInv == IInv /\ UNCHANGED vars => IInv'
  <1> SUFFICES ASSUME IInv, UNCHANGED vars PROVE IInv'
    OBVIOUS
  <1>1. /\ kind' = kind /\ value' = value /\ queue' = queue /\ state' = state
        /\ count' = count /\ pc' = pc
    BY DEF vars, semVars, monVars
  <1>2. Types' /\ TableOK'
    BY <1>1 DEF IInv, Types, TableOK
  <1>3. \A k \in Phil, s \in Sem : Waiting(k, s)' <=> Waiting(k, s)
    BY <1>1 DEF Waiting
  <1>4. \A k \in Phil : Private(k)'
    BY <1>1, <1>3, PrivateKept, SemIds DEF IInv
  <1>5. Queues'
    BY <1>1, <1>3 DEF IInv, Queues, WaitsAfter, Woken
  <1>6. OneToken'
    <2>1. \A k \in Phil : Owns(k)' => Owns(k)
      BY <1>1, <1>3 DEF Owns, Asleep
    <2> QED
      BY <1>1, <2>1 DEF IInv, OneToken, Handover
  <1> QED
    BY <1>2, <1>4, <1>5, <1>6 DEF IInv

LEMMA NextInv == IInv /\ [Next]_vars => IInv'
  <1> SUFFICES ASSUME IInv, [Next]_vars PROVE IInv'
    OBVIOUS
  <1>1. ASSUME NEW i \in Phil, Step(i) PROVE IInv'
    BY <1>1, TakeForksInv, HungryInv, TestSelfInv, LeaveTakeInv, LeaveMonitorInv,
       CondWaitInv, DownSelfInv, CondWokenInv, PutForksInv, PutInv, TestLeftInv,
       TestRightInv, SignalWaitInv, SignalDoneInv, LeavePutInv DEF Step
  <1>2. CASE UNCHANGED vars
    BY <1>2, StutterInv
  <1> QED
    BY <1>1, <1>2 DEF Next, Quit

-----------------------------------------------------------------------------
(* The invariant holds for every number of philosophers and of rounds.       *)
THEOREM Invariance == Spec => []IInv
  <1> QED
    BY InitInv, NextInv, PTL DEF Spec

(* Neighbours never eat at the same time, with semaphores or with the        *)
(* monitor: phi_take_forks returns only to a philosopher whose entry of the  *)
(* state array is EATING.                                                    *)
THEOREM NeighboursApart == Spec => []NeighboursNeverBothEat
  <1>1. IInv => NeighboursNeverBothEat
    <2> SUFFICES ASSUME IInv, NEW i \in Phil, Eating(i), Eating(RIGHT(i)) PROVE FALSE
      BY DEF NeighboursNeverBothEat
    <2>1. RIGHT(i) \in Phil
      BY Ring
    <2>2. ASSUME NEW k \in Phil, Eating(k) PROVE state[k] = "EATING"
      <3>1. Private(k) /\ kind \in {"sema", "condvar"}
        BY DEF IInv, Types
      <3> QED
        BY <2>2, <3>1 DEF Eating, Private, Woken
    <2> QED
      BY <2>1, <2>2 DEF IInv, TableOK
  <1> QED
    BY <1>1, Invariance, PTL

(* One process at a time is active in the monitor, and one in the section of *)
(* the plain group: cond_signal() and the ups of mutex and next only ever    *)
(* pass one token on.                                                        *)
THEOREM MonitorExclusive == Spec => []OneActive
  <1>1. IInv => OneActive
    <2> SUFFICES ASSUME IInv, NEW i \in Phil, NEW j \in Phil, Active(i), Active(j), i # j
                 PROVE  \E k \in {i, j} : pc[k] \in {"signal_left", "signal_right"}
      BY DEF OneActive
    <2>1. \A k \in Phil : Active(k) => Owns(k) \/ pc[k] \in {"signal_left", "signal_right"}
      BY DEF Active, Owns, InSection
    <2> QED
      BY <2>1 DEF IInv, OneToken
  <1> QED
    BY <1>1, Invariance, PTL

(* No wakeup is lost: __up() leaves no unit in a semaphore that somebody     *)
(* waits for, and nobody sleeps for forks it has been given.                 *)
THEOREM WakeupsKept == Spec => []NoLostHandOff
  <1>1. IInv => NoLostHandOff
    <2> SUFFICES ASSUME IInv PROVE NoLostHandOff
      OBVIOUS
    <2>1. ASSUME NEW i \in Phil, Waiting(i, i) PROVE state[i] = "HUNGRY"
      <3>1. Private(i) /\ WaitsAfter(i, i)
        BY <2>1, SemIds DEF IInv, Queues
      <3> QED
        BY <2>1, <3>1, SemIds DEF Private, WaitsAfter
    <2> QED
      BY <2>1 DEF NoLostHandOff, IInv, Queues
  <1> QED
    BY <1>1, Invariance, PTL

(* The semaphores and the monitor implement the table: every step of the     *)
(* state array is one of DiningTable's, or none.                             *)
THEOREM TableImplemented == Spec => ImplementsTable
  <1>1. Init => T!TableInit
    BY DEF Init, T!TableInit, Phil, T!Phil
  <1>2. IInv /\ [Next]_vars => [T!TableNext]_state
    <2> SUFFICES ASSUME IInv, [Next]_vars, state' # state PROVE T!TableNext
      OBVIOUS
    <2>1. PICK i \in Phil : Step(i)
      BY DEF Next, Quit, vars
    <2>2. Private(i) /\ i \in T!Phil
      BY DEF IInv, Phil, T!Phil
    <2>3. ASSUME NEW j \in Phil, MayEat(j), state' = [state EXCEPT ![j] = "EATING"]
          PROVE  T!TableNext
      BY <2>3 DEF MayEat, LEFT, RIGHT, Phil, T!TableNext, T!StartEating, T!LEFT, T!RIGHT, T!Phil
    <2>4. CASE Hungry(i)
      <3>1. state[i] = "THINKING" /\ state' = [state EXCEPT ![i] = "HUNGRY"]
        BY <2>2, <2>4 DEF Hungry, At, Private, Outside
      <3> QED
        BY <2>2, <3>1 DEF T!TableNext, T!GetHungry
    <2>5. CASE Put(i)
      <3>1. state[i] = "EATING" /\ state' = [state EXCEPT ![i] = "THINKING"]
        BY <2>2, <2>5 DEF Put, At, Private
      <3> QED
        BY <2>2, <3>1 DEF T!TableNext, T!StopEating
    <2>6. CASE TestSelf(i) \/ TestLeft(i) \/ TestRight(i)
      <3>1. PICK j \in Phil : MayEat(j) /\ state' = [state EXCEPT ![j] = "EATING"]
        BY <2>6, Ring DEF TestSelf, TestLeft, TestRight, phi_test
      <3> QED
        BY <2>3, <3>1
    <2> QED
      BY <2>1, <2>4, <2>5, <2>6
      DEF Step, TakeForks, LeaveTake, LeaveMonitor, CondWait, DownSelf, CondWoken,
          PutForks, SignalWait, SignalDone, LeavePut
  <1> QED
    BY <1>1, <1>2, Invariance, PTL DEF Spec, ImplementsTable, T!Table
=============================================================================
