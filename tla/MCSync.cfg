\* Four philosophers, the fewest with two that can eat at the same time.
CONSTANTS
    N = 4
    TIMES = 2
SPECIFICATION Spec
INVARIANTS TypeOK NeighboursNeverBothEat OneActive NoLostHandOff
PROPERTIES ImplementsTable EveryoneQuits
