\* index.js on tracer.linux.js, where nothing fails and the client is patient
SPECIFICATION Spec
CONSTANTS
    Platform = "linux"
    Pids = {p1, p2}
    Faults <- NoFaults
    MaxSessions = 1
    Client <- PatientClient
INVARIANTS
    HealthyProfileSucceeds
CHECK_DEADLOCK FALSE
