\* The supervisor, a worker and the parent agent race on one file; the worker
\* alone writes the other.
SPECIFICATION Spec
CONSTANTS
    supervisor = supervisor
    worker = worker
    parent = parent
    t1 = t1
    t2 = t2
    Tasks = {t1, t2}
    Writers = {supervisor, worker, parent}
    MayWrite <- MCMayWrite
INVARIANT TypeOK
PROPERTIES SettledIsFinal LatchHolds AtomicSpec
