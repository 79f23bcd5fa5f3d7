\* Three rounds each: a thread can return twice while the other one waits.
CONSTANT N = 3
SPECIFICATION Spec
INVARIANTS MutualExclusion InterestedSynchronises StaleOnlyAfterReturn
PROPERTY NeverOvertaken
\* The program ends after the join.
CHECK_DEADLOCK FALSE
