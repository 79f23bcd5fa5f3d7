\* Three rounds each: a thread can come back twice while the other waits.
CONSTANT N = 3
SPECIFICATION Spec
INVARIANTS TypeOK MutualExclusion CounterExact
PROPERTIES StarvationFree ImplementsFifoLock
\* The program ends after the join.
CHECK_DEADLOCK FALSE
