SPECIFICATION ServiceSpec
CONSTANTS
    Parts = {"runtime", "config"}
    Targets = {"t"}
    MaxRuns = 2
    MaxFailures = 2
    MaxChanges = 1
    Me = Me
    Nobody = Nobody
    Peers = {"p"}
    Refreshers = {"refresh"}
    Companions <- MCCompanions
    MaxEdits = 1
    MaxSaves = 1
    MaxOutages = 1
INVARIANTS
    RecoveryShows
PROPERTIES
    ConfigConverges
CHECK_DEADLOCK FALSE
