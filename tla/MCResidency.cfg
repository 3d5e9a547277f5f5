CONSTANTS
    large = large
    small = small
    Models = {large, small}
    Elsewhere = {small}
    Workers = {w1}
    JobIds = {j1}
    Probed = {large}
    Callers = {c1}
    Scheduler = sched
    Measured = {small}
    Memory <- MCMemory
    Capacity = 2
    MaxResident = 2
    MaxClock = 1
SPECIFICATION Spec
INVARIANTS RowsBounded InUseSpared
PROPERTY GhostRowsClosed
