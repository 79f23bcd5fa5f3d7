\* The search misses occurrences: expected to be violated.
SPECIFICATION Spec
CONSTANTS
  Letters = {"a", "b"}
  Others = {"c"}
  MaxPattern = 4
  MaxText = 6
INVARIANT FindsFirst
CHECK_DEADLOCK FALSE
