\* The dereference needs one node and one thread that pops it first.
CONSTANTS
    Thread = {t1, t2}
    Node = {n1, n2}
    Value = {v1}
    Null = Null
    MaxOps = 2
SPECIFICATION RelaxedSpec
INVARIANT DereferenceSafe
CHECK_DEADLOCK FALSE
