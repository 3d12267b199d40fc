\* A PID is read from a file that is locked and not yet written.
SPECIFICATION Spec
CONSTANTS
    Daemons = {d1, d2}
    Clients = {c1}
    Files = {f1, f2, f3, f4}
    NoFile = NoFile
    Nobody = Nobody
    GracePolls = 1
PROPERTIES
    SignalsNoCorpse
