\* Two daemons for one project.
SPECIFICATION Spec
CONSTANTS
    Daemons = {d1, d2}
    Clients = {c1, c2}
    Files = {f1, f2, f3, f4}
    NoFile = NoFile
    Nobody = Nobody
    GracePolls = 1
INVARIANTS
    OneDaemon
