\* Three operations each and one node fewer than pushes: a thread can pop a
\* node, free it and push it again while the other one is inside pop().
CONSTANTS
    Thread = {t1, t2}
    Node = {n1, n2, n3}
    Value = {v1, v2}
    Null = Null
    MaxOps = 3
SPECIFICATION Spec
INVARIANTS TypeOK NoUseAfterFree NoABA OneOwner ReclaimedAtExit
PROPERTIES Linearizable AllExit
\* The threads exit in the end.
CHECK_DEADLOCK FALSE
