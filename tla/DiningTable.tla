---------------------------- MODULE DiningTable -----------------------------
(***************************************************************************)
(* What check_sync() exercises its semaphores and its monitor for: a table *)
(* of Phil philosophers who think, get hungry, and eat only while neither  *)
(* neighbour eats.  Nothing is said of how they wait.                      *)
(***************************************************************************)
EXTENDS Integers

CONSTANT N                        \* number of philosophers

VARIABLE state                    \* THINKING, HUNGRY or EATING, per philosopher

Phil == 0..(N - 1)
LEFT(i) == (i - 1 + N) % N
RIGHT(i) == (i + 1) % N

TableInit == state = [i \in Phil |-> "THINKING"]

GetHungry(i) ==
    /\ state[i] = "THINKING"
    /\ state' = [state EXCEPT ![i] = "HUNGRY"]

StartEating(i) ==
    /\ state[i] = "HUNGRY"
    /\ state[LEFT(i)] # "EATING" /\ state[RIGHT(i)] # "EATING"
    /\ state' = [state EXCEPT ![i] = "EATING"]

StopEating(i) ==
    /\ state[i] = "EATING"
    /\ state' = [state EXCEPT ![i] = "THINKING"]

TableNext == \E i \in Phil : GetHungry(i) \/ StartEating(i) \/ StopEating(i)

Table == TableInit /\ [][TableNext]_state
=============================================================================
