SPECIFICATION FairSpec
CONSTANTS
    Tasks = {t1, t2, t3}
    ConfiguredCap = 2
    StartLimit = 3
    HealthyRun = 2
    MaxPause = 2
INVARIANTS PermitAccounting WaitersWake
PROPERTIES ImplementsGate SomebodyEnters
