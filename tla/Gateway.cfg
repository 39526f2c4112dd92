CONSTANTS
    p1 = p1  p2 = p2
    b1 = b1  b2 = b2
    q1 = q1
    A = A  B = B
    Procs = {p1, p2}
    Operators = {p1, p2}
    Bindings = {b1, b2}
    Peers = {q1}
    Health = Health
    Addresses = {1, 2, 3, 4, 5, 6, 7, 8, 9, 10, 11, 12, 13, 14}
    Ports = {1, 2, 3, 4}
    Steps = 3
    Scenarios <- Worlds
    Members = {1, 2}
    Settings <- Rollouts
    Sites = {A, B}
    MaxToggles = 3
SPECIFICATION Spec
\* Everything settled and nothing left to change is a proper end.
CHECK_DEADLOCK FALSE
INVARIANTS Exclusive KeyStable NoFalseFence OneAtATime ConfigInUse Reciprocal
PROPERTIES Converges RolloutCompletes DiscoveryCompletes
