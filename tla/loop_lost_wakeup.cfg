\* sizeof(int) = 4 on every build target of the repository.
CONSTANTS
    t1 = t1
    t2 = t2
    f1 = f1
    f2 = f2
    f3 = f3
    Threads <- OneThread
    Functors <- TwoFunctors
    IntSizes = {4}
SPECIFICATION Spec
INVARIANT NoLostWakeup
