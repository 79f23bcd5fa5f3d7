\* Two rounds each are the fewest that lose an increment.
CONSTANT N = 2
SPECIFICATION Spec
INVARIANT CounterExact
CHECK_DEADLOCK FALSE
