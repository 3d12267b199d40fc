\* The startup loop looks only once.
SPECIFICATION Spec
CONSTANTS
    Daemons = {d1}
    Clients = {c1}
    Files = {f1, f2}
    NoFile = NoFile
    Nobody = Nobody
    GracePolls = 1
PROPERTIES
    GivesUpOnLateOnly
