\* Launches, probes, stops and crashes in any order.
SPECIFICATION Spec
CONSTANTS
    Daemons = {d1, d2}
    Clients = {c1, c2}
    Files = {f1, f2, f3, f4}
    NoFile = NoFile
    Nobody = Nobody
    GracePolls = 1
SYMMETRY Symmetry
INVARIANTS
    TypeOK
    LocksHaveOwners
    OneDaemonIfApart
PROPERTIES
    AnswersAreTrueIfApart
