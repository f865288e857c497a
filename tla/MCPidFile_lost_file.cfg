\* `nanomq start -d`, then the shell runs a start and a stop one at a time.
CONSTANTS
    Kind <- MCRaceKind
    Procs <- MCRaceProcs
    Overlap = FALSE
    PortTaken = FALSE
    Foreign = Foreign
    None = None
    Empty = Empty
    Unset = Unset
    Dflt = Dflt
    Args <- MCDaemonArgs
SPECIFICATION Spec
INVARIANT PidFileTracks
CHECK_DEADLOCK FALSE
