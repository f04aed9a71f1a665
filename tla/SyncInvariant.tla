--------------------------- MODULE SyncInvariant ----------------------------
(* What Sync's philosophers and its monitor keep, for every number of them.  *)
(*                                                                           *)
(* The argument has two parts.  The forks: a philosopher's place in its      *)
(* program, its entry of the state array and its own semaphore fit together  *)
(* (Private), and the state array is that of a proper table.  The monitor:   *)
(* there is one token, held by a philosopher in the section or by one        *)
(* semaphore (OneToken), and an operation only moves it.                     *)
EXTENDS Sync, SequenceTheorems, TLAPS

Outside == {"think", "hungry", "test_left", "signal_left", "signalled_left",
            "test_right", "signal_right", "signalled_right", "put_done", "quit"}

Signalling == {"signal_left", "signalled_left", "signal_right", "signalled_right"}

(* The label of the statement after a philosopher's down on its semaphore.   *)
Woken == IF kind = "sema" THEN "eat" ELSE "cond_woken"

One(b) == IF b THEN 1 ELSE 0

Private(i) ==
    /\ pc[i] \in Outside =>
          state[i] = "THINKING" /\ value[i] = 0 /\ ~Waiting(i, i) /\ count[i] = 0
    /\ pc[i] \in {"test_self", "tested"} =>
          /\ state[i] \in {"HUNGRY", "EATING"} /\ ~Waiting(i, i) /\ count[i] = 0
          /\ value[i] = One(kind = "sema" /\ state[i] = "EATING")
    /\ pc[i] = "down_self" =>
          /\ state[i] \in {"HUNGRY", "EATING"} /\ ~Waiting(i, i)
          /\ count[i] = One(kind = "condvar")
          /\ value[i] = One(state[i] = "EATING")
    /\ pc[i] = Woken =>
          /\ state[i] = IF Waiting(i, i) THEN "HUNGRY" ELSE "EATING"
          /\ count[i] = One(kind = "condvar")
          /\ value[i] = 0
    /\ pc[i] = "put" \/ (pc[i] = "eat" /\ kind = "condvar") =>
          state[i] = "EATING" /\ value[i] = 0 /\ ~Waiting(i, i) /\ count[i] = 0
    /\ kind = "sema" => pc[i] \notin Signalling \cup {"cond_woken"}

(* A queue holds a philosopher once, and only one whose last statement was a *)
(* down on that semaphore.                                                   *)
WaitsAfter(k, s) ==
    \/ s = mutex /\ pc[k] \in {"hungry", "put"}
    \/ s = next /\ pc[k] \in {"signalled_left", "signalled_right"}
    \/ s = k /\ pc[k] = Woken

Once(q) == \A a, b \in DOMAIN q : q[a] = q[b] => a = b

Queues ==
    /\ \A k \in Phil, s \in Sem : Waiting(k, s) => WaitsAfter(k, s)
    /\ \A s \in Sem : Once(queue[s])
    /\ \A s \in Sem : value[s] > 0 => queue[s] = <<>>

(* The token: who is in the section, and which semaphores stand for it.      *)
InSection == {"hungry", "test_self", "tested", "cond_woken", "put", "test_left",
              "signalled_left", "test_right", "signalled_right", "put_done"}

Owns(i) == pc[i] \in InSection /\ ~Asleep(i)

Handover(s) == s \in {mutex, next} \/ kind = "condvar"

OneToken ==
    /\ \A i, j \in Phil : Owns(i) /\ Owns(j) => i = j
    /\ \A i \in Phil, s \in Sem : Owns(i) /\ Handover(s) => value[s] = 0
    /\ \A s, t \in Sem :
          Handover(s) /\ Handover(t) /\ value[s] > 0 /\ value[t] > 0 => s = t
    /\ \A s \in Sem : value[s] <= 1

TableOK ==
    \A i \in Phil : state[i] = "EATING" =>
        state[RIGHT(i)] # "EATING" /\ state[LEFT(i)] # "EATING"

Types ==
    /\ kind \in {"sema", "condvar"}
    /\ value \in [Sem -> Nat]
    /\ queue \in [Sem -> Seq(Phil)]
    /\ state \in [Phil -> {"THINKING", "HUNGRY", "EATING"}]
    /\ count \in [Phil -> Int]
    /\ pc \in [Phil -> Labels]

IInv ==
    /\ Types
    /\ \A i \in Phil : Private(i)
    /\ Queues
    /\ OneToken
    /\ TableOK

-----------------------------------------------------------------------------
(* The table is a ring: LEFT and RIGHT stay at it and undo each other.       *)
LEMMA Ring ==
    ASSUME NEW i \in Phil
    PROVE  /\ LEFT(i) \in Phil /\ RIGHT(i) \in Phil
           /\ RIGHT(LEFT(i)) = i /\ LEFT(RIGHT(i)) = i
           /\ LEFT(i) # i /\ RIGHT(i) # i
  <1>1. \A k \in 0..(N - 1) : k % N = k
    BY SyncAssumption, SMT
  <1>2. N % N = 0
    BY SyncAssumption, SMT
  <1>3. \A k \in 0..(N - 1) : (k + N) % N = k
    BY SyncAssumption, SMT
  <1> QED
    BY <1>1, <1>2, <1>3, SyncAssumption DEF Phil, LEFT, RIGHT

-----------------------------------------------------------------------------
(* The queues as sets: appending adds a philosopher, the tail drops the first. *)
LEMMA AppendRange ==
    ASSUME NEW q \in Seq(Phil), NEW i \in Phil, i \notin Range(q), Once(q)
    PROVE  /\ Append(q, i) \in Seq(Phil)
           /\ \A k : k \in Range(Append(q, i)) <=> k \in Range(q) \/ k = i
           /\ Once(Append(q, i))
  BY AppendProperties DEF Range, Once

LEMMA TailRange ==
    ASSUME NEW q \in Seq(Phil), q # <<>>, Once(q)
    PROVE  /\ Tail(q) \in Seq(Phil)
           /\ Head(q) \in Phil /\ Head(q) \in Range(q)
           /\ \A k : k \in Range(Tail(q)) <=> k \in Range(q) /\ k # Head(q)
           /\ Once(Tail(q))
  <1> DEFINE t == Tail(q)
  <1>1. /\ t \in Seq(Phil) /\ Len(t) = Len(q) - 1
        /\ \A a \in 1..Len(t) : t[a] = q[a + 1]
        /\ Head(q) = q[1] /\ Head(q) \in Phil
        /\ Len(q) \in Nat /\ Len(q) > 0
    BY HeadTailProperties, EmptySeq, LenProperties
  <1>2. DOMAIN q = 1..Len(q) /\ DOMAIN t = 1..Len(t)
    BY <1>1
  <1> HIDE DEF t
  <1>3. Once(t)
    <2> SUFFICES ASSUME NEW a \in DOMAIN t, NEW b \in DOMAIN t, t[a] = t[b]
                 PROVE  a = b
      BY DEF Once
    <2>1. /\ a + 1 \in DOMAIN q /\ b + 1 \in DOMAIN q
          /\ q[a + 1] = q[b + 1] /\ a \in Int /\ b \in Int
      BY <1>1, <1>2
    <2>2. a + 1 = b + 1
      BY <2>1 DEF Once
    <2> QED
      BY <2>1, <2>2
  <1>4. \A k : k \in Range(t) <=> k \in Range(q) /\ k # Head(q)
    <2>1. ASSUME NEW k, k \in Range(t) PROVE k \in Range(q) /\ k # Head(q)
      BY <1>1, <1>2, <2>1 DEF Once, Range
    <2>2. ASSUME NEW k, k \in Range(q), k # Head(q) PROVE k \in Range(t)
      <3>1. PICK a \in 1..Len(q) : k = q[a]
        BY <1>2, <2>2 DEF Range
      <3>2. a - 1 \in 1..Len(t) /\ t[a - 1] = k
        BY <1>1, <2>2, <3>1
      <3> QED
        BY <1>2, <3>2 DEF Range
    <2> QED
      BY <2>1, <2>2
  <1> QED
    BY <1>1, <1>2, <1>3, <1>4 DEF Range, t

Semaphores ==
    /\ value \in [Sem -> Nat] /\ queue \in [Sem -> Seq(Phil)]
    /\ \A s \in Sem : Once(queue[s])
    /\ \A s \in Sem : value[s] > 0 => queue[s] = <<>>

(* down() by a philosopher that runs: it takes a unit, or it waits.          *)
LEMMA DownStep ==
    ASSUME Semaphores, NEW i \in Phil, NEW s \in Sem, ~Asleep(i), down(i, s)
    PROVE  /\ Semaphores'
           /\ \/ /\ value[s] > 0 /\ value' = [value EXCEPT ![s] = @ - 1]
                 /\ \A k \in Phil, t \in Sem : Waiting(k, t)' <=> Waiting(k, t)
              \/ /\ value[s] = 0 /\ value' = value
                 /\ \A k \in Phil, t \in Sem :
                       Waiting(k, t)' <=> Waiting(k, t) \/ (k = i /\ t = s)
  <1>1. CASE value[s] > 0
    <2>1. value' = [value EXCEPT ![s] = @ - 1] /\ queue' = queue
      BY <1>1 DEF down
    <2>2. value' \in [Sem -> Nat] /\ \A t \in Sem : value'[t] > 0 => value[t] > 0
      BY <1>1, <2>1 DEF Semaphores
    <2> QED
      BY <1>1, <2>1, <2>2 DEF Semaphores, Waiting
  <1>2. CASE value[s] = 0
    <2>1. value' = value /\ queue' = [queue EXCEPT ![s] = Append(@, i)]
      BY <1>2 DEF down
    <2>2. queue[s] \in Seq(Phil) /\ i \notin Range(queue[s]) /\ Once(queue[s])
      BY DEF Semaphores, Asleep, Waiting
    <2> DEFINE q == Append(queue[s], i)
    <2>3. /\ q \in Seq(Phil) /\ Once(q)
          /\ \A k : k \in Range(q) <=> k \in Range(queue[s]) \/ k = i
      BY <2>2, AppendRange
    <2>4. \A t \in Sem : queue'[t] = IF t = s THEN q ELSE queue[t]
      BY <2>1 DEF Semaphores
    <2>5. queue' \in [Sem -> Seq(Phil)]
      BY <2>1, <2>3 DEF Semaphores
    <2> HIDE DEF q
    <2>6. Semaphores'
      BY <1>2, <2>1, <2>3, <2>4, <2>5 DEF Semaphores
    <2> QED
      BY <1>2, <2>1, <2>3, <2>4, <2>6 DEF Waiting
  <1> QED
    BY <1>1, <1>2 DEF down

(* up(): the value grows if nobody waits, else one waiter goes on.           *)
LEMMA UpStep ==
    ASSUME Semaphores, NEW s \in Sem, up(s)
    PROVE  /\ Semaphores'
           /\ \/ /\ value' = [value EXCEPT ![s] = @ + 1]
                 /\ \A k \in Phil : ~Waiting(k, s)
                 /\ \A k \in Phil, t \in Sem : Waiting(k, t)' <=> Waiting(k, t)
              \/ /\ value' = value
                 /\ \E h \in Phil :
                       /\ Waiting(h, s)
                       /\ \A k \in Phil, t \in Sem :
                             Waiting(k, t)' <=> Waiting(k, t) /\ ~(k = h /\ t = s)
  <1>1. CASE queue[s] = <<>>
    <2>1. value' = [value EXCEPT ![s] = @ + 1] /\ queue' = queue
      BY <1>1 DEF up
    <2>2. Range(queue[s]) = {}
      BY <1>1 DEF Range
    <2>3. value' \in [Sem -> Nat] /\ \A t \in Sem : t # s => value'[t] = value[t]
      BY <2>1 DEF Semaphores
    <2> QED
      BY <1>1, <2>1, <2>2, <2>3 DEF Semaphores, Waiting
  <1>2. CASE queue[s] # <<>>
    <2>1. value' = value /\ queue' = [queue EXCEPT ![s] = Tail(@)]
      BY <1>2 DEF up
    <2> DEFINE q == Tail(queue[s])
               h == Head(queue[s])
    <2>2. queue[s] \in Seq(Phil) /\ Once(queue[s])
      BY DEF Semaphores
    <2>3. /\ q \in Seq(Phil) /\ Once(q) /\ h \in Phil /\ h \in Range(queue[s])
          /\ \A k : k \in Range(q) <=> k \in Range(queue[s]) /\ k # h
      BY <1>2, <2>2, TailRange
    <2>4. \A t \in Sem : queue'[t] = IF t = s THEN q ELSE queue[t]
      BY <2>1 DEF Semaphores
    <2>5. queue' \in [Sem -> Seq(Phil)]
      BY <2>1, <2>3 DEF Semaphores
    <2> HIDE DEF q, h
    <2>6. Semaphores'
      BY <1>2, <2>1, <2>3, <2>4, <2>5 DEF Semaphores
    <2>7. Waiting(h, s) /\ \A k \in Phil, t \in Sem :
              Waiting(k, t)' <=> Waiting(k, t) /\ ~(k = h /\ t = s)
      BY <2>3, <2>4 DEF Waiting
    <2> QED
      BY <2>1, <2>3, <2>6, <2>7
  <1> QED
    BY <1>1, <1>2

-----------------------------------------------------------------------------
LEMMA SemaphoresOK == IInv => Semaphores
  BY DEF IInv, Types, Queues, Semaphores

(* The steps that only move a philosopher's pc and use a semaphore leave the *)
(* table as it is.                                                           *)
LEMMA TableKept == TableOK /\ state' = state => TableOK'
  BY DEF TableOK

LEMMA SemIds == mutex \in Sem /\ next \in Sem /\ mutex # next
                /\ \A i \in Phil : i \in Sem /\ i # mutex /\ i # next
  BY SyncAssumption DEF mutex, next, Sem, Phil

(* A philosopher that a step does not concern.                               *)
LEMMA PrivateKept ==
    ASSUME NEW k \in Phil, Private(k), kind' = kind, pc'[k] = pc[k],
           state'[k] = state[k], count'[k] = count[k], value'[k] = value[k],
           Waiting(k, k)' <=> Waiting(k, k)
    PROVE  Private(k)'
  BY DEF Private, Woken, One

LEMMA Moved ==
    ASSUME Types, NEW i \in Phil, NEW l \in Labels, Goto(i, l)
    PROVE  /\ pc' \in [Phil -> Labels] /\ pc'[i] = l
           /\ \A k \in Phil : k # i => pc'[k] = pc[k]
  BY DEF Types, Goto

-----------------------------------------------------------------------------
(* How the token moves: not at all, from a semaphore to a philosopher, to a  *)
(* semaphore, or from one philosopher to another.                            *)
LEMMA TokenKept ==
    ASSUME OneToken, Types, Types', kind' = kind,
           \A k \in Phil : Owns(k)' => Owns(k),
           \A s \in Sem : Handover(s) => value'[s] <= value[s],
           \A s \in Sem : value'[s] <= 1
    PROVE  OneToken'
  <1>1. \A s \in Sem : Handover(s)' <=> Handover(s)
    BY DEF Handover
  <1>2. \A s \in Sem : value[s] \in Nat /\ value'[s] \in Nat
    BY DEF Types
  <1> QED
    BY <1>1, <1>2 DEF OneToken

LEMMA TokenTaken ==
    ASSUME OneToken, Types, kind' = kind, NEW i \in Phil, NEW s \in Sem, Handover(s),
           value[s] > 0, value' = [value EXCEPT ![s] = @ - 1],
           \A k \in Phil : Owns(k)' => Owns(k) \/ k = i
    PROVE  OneToken'
  <1>1. \A t \in Sem : Handover(t)' <=> Handover(t)
    BY DEF Handover
  <1>2. \A t \in Sem : value[t] \in Nat /\ value'[t] = IF t = s THEN value[t] - 1 ELSE value[t]
    BY DEF Types
  <1> QED
    BY <1>1, <1>2 DEF OneToken

LEMMA TokenGiven ==
    ASSUME OneToken, Types, kind' = kind, NEW i \in Phil, NEW s \in Sem, Handover(s),
           Owns(i), ~Owns(i)', \A k \in Phil : Owns(k)' => Owns(k),
           value' = [value EXCEPT ![s] = @ + 1]
    PROVE  OneToken'
  <1>1. \A t \in Sem : Handover(t)' <=> Handover(t)
    BY DEF Handover
  <1>2. \A t \in Sem : value[t] \in Nat /\ value'[t] = IF t = s THEN value[t] + 1 ELSE value[t]
    BY DEF Types
  <1> QED
    BY <1>1, <1>2 DEF OneToken

LEMMA TokenPassed ==
    ASSUME OneToken, kind' = kind, NEW i \in Phil, NEW h \in Phil,
           Owns(i), ~Owns(i)', \A k \in Phil : Owns(k)' => Owns(k) \/ k = h,
           value' = value
    PROVE  OneToken'
  <1>1. \A t \in Sem : Handover(t)' <=> Handover(t)
    BY DEF Handover
  <1> QED
    BY <1>1 DEF OneToken

(* A down on the way into the section.                                       *)
LEMMA Enter ==
    ASSUME IInv, kind' = kind, NEW i \in Phil, NEW s \in Sem, NEW l \in Labels,
           Handover(s), ~Asleep(i), down(i, s), Goto(i, l),
           pc[i] \notin InSection, WaitsAfter(i, s)'
    PROVE  Queues' /\ OneToken'
  <1>1. Types /\ Queues /\ OneToken
    BY DEF IInv
  <1>2. /\ Semaphores'
        /\ \/ /\ value[s] > 0 /\ value' = [value EXCEPT ![s] = @ - 1]
              /\ \A k \in Phil, t \in Sem : Waiting(k, t)' <=> Waiting(k, t)
           \/ /\ value[s] = 0 /\ value' = value
              /\ \A k \in Phil, t \in Sem :
                    Waiting(k, t)' <=> Waiting(k, t) \/ (k = i /\ t = s)
    BY DownStep, SemaphoresOK
  <1>3. pc'[i] = l /\ \A k \in Phil : k # i => pc'[k] = pc[k]
    BY <1>1, Moved
  <1>4. \A k \in Phil, t \in Sem : Waiting(k, t) => k # i
    BY DEF Asleep
  <1>5. Queues'
    <2> SUFFICES ASSUME NEW k \in Phil, NEW t \in Sem, Waiting(k, t)'
                 PROVE  WaitsAfter(k, t)'
      BY <1>2 DEF Queues, Semaphores
    <2>1. CASE k = i /\ t = s
      BY <2>1
    <2>2. CASE ~(k = i /\ t = s)
      <3>1. Waiting(k, t) /\ k # i
        BY <1>2, <1>4, <2>2
      <3>2. WaitsAfter(k, t) /\ pc'[k] = pc[k]
        BY <1>1, <1>3, <3>1 DEF Queues
      <3> QED
        BY <3>2 DEF WaitsAfter, Woken
    <2> QED
      BY <2>1, <2>2
  <1>6. OneToken'
    <2>1. \A k \in Phil : k # i /\ Owns(k)' => Owns(k)
      BY <1>2, <1>3 DEF Owns, Asleep
    <2>2. CASE value[s] > 0
      BY <1>1, <1>2, <2>1, <2>2, TokenTaken
    <2>3. CASE value[s] = 0
      <3>1. ~Owns(i)' /\ value' = value
        BY <1>2, <2>3 DEF Owns, Asleep
      <3> QED
        BY <1>1, <2>1, <3>1 DEF OneToken, Handover
    <2> QED
      BY <1>1, <2>2, <2>3 DEF Types
  <1> QED
    BY <1>5, <1>6

(* An up that gives the section, or the monitor, away.                       *)
LEMMA GiveAway ==
    ASSUME IInv, kind' = kind, NEW i \in Phil, NEW s \in Sem, NEW l \in Labels,
           Handover(s), Owns(i), up(s), Goto(i, l), l \notin InSection
    PROVE  Queues' /\ OneToken'
  <1>1. Types /\ Queues /\ OneToken
    BY DEF IInv
  <1>2. /\ Semaphores'
        /\ \/ /\ value' = [value EXCEPT ![s] = @ + 1]
              /\ \A k \in Phil, t \in Sem : Waiting(k, t)' <=> Waiting(k, t)
           \/ /\ value' = value
              /\ \E h \in Phil :
                    /\ Waiting(h, s)
                    /\ \A k \in Phil, t \in Sem :
                          Waiting(k, t)' <=> Waiting(k, t) /\ ~(k = h /\ t = s)
    BY UpStep, SemaphoresOK
  <1>3. pc'[i] = l /\ \A k \in Phil : k # i => pc'[k] = pc[k]
    BY <1>1, Moved
  <1>4. \A k \in Phil, t \in Sem : Waiting(k, t) => k # i
    BY DEF Asleep, Owns
  <1>5. Queues'
    <2> SUFFICES ASSUME NEW k \in Phil, NEW t \in Sem, Waiting(k, t)'
                 PROVE  WaitsAfter(k, t)'
      BY <1>2 DEF Queues, Semaphores
    <2>1. Waiting(k, t) /\ k # i
      BY <1>2, <1>4
    <2>2. WaitsAfter(k, t) /\ pc'[k] = pc[k]
      BY <1>1, <1>3, <2>1 DEF Queues
    <2> QED
      BY <2>2 DEF WaitsAfter, Woken
  <1>6. ~Owns(i)'
    BY <1>3 DEF Owns
  <1>7. OneToken'
    <2>1. CASE /\ value' = [value EXCEPT ![s] = @ + 1]
               /\ \A k \in Phil, t \in Sem : Waiting(k, t)' <=> Waiting(k, t)
      <3>1. \A k \in Phil : Owns(k)' => Owns(k)
        BY <1>3, <1>6, <2>1 DEF Owns, Asleep
      <3> QED
        BY <1>1, <1>6, <2>1, <3>1, TokenGiven
    <2>2. CASE /\ value' = value
               /\ \E h \in Phil :
                    /\ Waiting(h, s)
                    /\ \A k \in Phil, t \in Sem :
                          Waiting(k, t)' <=> Waiting(k, t) /\ ~(k = h /\ t = s)
      <3>1. PICK h \in Phil : \A k \in Phil, t \in Sem :
                          Waiting(k, t)' <=> Waiting(k, t) /\ ~(k = h /\ t = s)
        BY <2>2
      <3>2. \A k \in Phil : Owns(k)' => Owns(k) \/ k = h
        BY <1>3, <1>6, <3>1 DEF Owns, Asleep
      <3> QED
        BY <1>1, <1>6, <2>2, <3>2, TokenPassed
    <2> QED
      BY <1>2, <2>1, <2>2
  <1> QED
    BY <1>5, <1>7

(* A step inside or outside the section that uses no semaphore.              *)
LEMMA Stay ==
    ASSUME IInv, kind' = kind, NEW i \in Phil, NEW l \in Labels, UNCHANGED semVars,
           ~Asleep(i), Goto(i, l), l \in InSection => pc[i] \in InSection
    PROVE  Queues' /\ OneToken' /\ \A k \in Phil, t \in Sem : Waiting(k, t)' <=> Waiting(k, t)
  <1>1. Types /\ Queues /\ OneToken
    BY DEF IInv
  <1>2. value' = value /\ queue' = queue
    BY DEF semVars
  <1>3. \A k \in Phil, t \in Sem : Waiting(k, t)' <=> Waiting(k, t)
    BY <1>2 DEF Waiting
  <1>4. pc'[i] = l /\ \A k \in Phil : k # i => pc'[k] = pc[k]
    BY <1>1, Moved
  <1>5. Queues'
    <2>1. ASSUME NEW k \in Phil, NEW t \in Sem, Waiting(k, t)' PROVE WaitsAfter(k, t)'
      <3>1. Waiting(k, t) /\ k # i
        BY <1>3, <2>1 DEF Asleep
      <3>2. WaitsAfter(k, t) /\ pc'[k] = pc[k]
        BY <1>1, <1>4, <3>1 DEF Queues
      <3> QED
        BY <3>2 DEF WaitsAfter, Woken
    <2> QED
      BY <1>1, <1>2, <2>1 DEF Queues
  <1>6. OneToken'
    <2>1. \A k \in Phil : Owns(k)' => Owns(k)
      BY <1>3, <1>4 DEF Owns, Asleep
    <2> QED
      BY <1>1, <1>2, <2>1 DEF OneToken, Handover
  <1> QED
    BY <1>3, <1>5, <1>6

(* Forks are taken only when neither neighbour has them.                     *)
LEMMA TableGrant ==
    ASSUME Types, TableOK, NEW j \in Phil, MayEat(j),
           state' = [state EXCEPT ![j] = "EATING"]
    PROVE  TableOK'
  <1>1. \A k \in Phil : state'[k] = IF k = j THEN "EATING" ELSE state[k]
    BY DEF Types
  <1> SUFFICES ASSUME NEW k \in Phil, state'[k] = "EATING"
               PROVE  state'[RIGHT(k)] # "EATING" /\ state'[LEFT(k)] # "EATING"
    BY DEF TableOK
  <1>2. /\ LEFT(k) \in Phil /\ RIGHT(k) \in Phil /\ LEFT(k) # k /\ RIGHT(k) # k
        /\ RIGHT(LEFT(k)) = k /\ LEFT(RIGHT(k)) = k
    BY Ring
  <1>3. CASE k = j
    BY <1>1, <1>2, <1>3 DEF MayEat
  <1>4. CASE k # j
    <2>1. state[k] = "EATING" /\ state[RIGHT(k)] # "EATING" /\ state[LEFT(k)] # "EATING"
      BY <1>1, <1>4 DEF TableOK
    <2>2. RIGHT(k) # j /\ LEFT(k) # j
      BY <1>2, <2>1 DEF MayEat
    <2> QED
      BY <1>1, <1>2, <2>1, <2>2
  <1> QED
    BY <1>3, <1>4

LEMMA TableLess ==
    ASSUME Types, TableOK, NEW j \in Phil, NEW x \in {"THINKING", "HUNGRY"},
           state' = [state EXCEPT ![j] = x]
    PROVE  TableOK'
  <1>1. \A k \in Phil : state'[k] = IF k = j THEN x ELSE state[k]
    BY DEF Types
  <1>2. \A k \in Phil : LEFT(k) \in Phil /\ RIGHT(k) \in Phil
    BY Ring
  <1> QED
    BY <1>1, <1>2 DEF TableOK
=============================================================================
