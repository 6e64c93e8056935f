SPECIFICATION Spec
CONSTANTS
    Procs = {p1, p2, p3, p4}
    Masters = {m1, m2}
    MaxCrashes = 2
    p1 = p1
    p2 = p2
    p3 = p3
    p4 = p4
    m1 = m1
    m2 = m2
SYMMETRY Symmetry
INVARIANTS
    TypeOK
    OneWorker
    
PROPERTIES
    StopMeansStopped
    RefusedForCause
CHECK_DEADLOCK FALSE
