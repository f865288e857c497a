\* The shell runs one invocation at a time; brokers may crash, and the
\* listen address may be held by another program.
CONSTANTS
    Kind <- MCKind
    Procs <- MCProcs
    Overlap = FALSE
    PortTaken = TRUE
    Foreign = Foreign
    None = None
    Empty = Empty
    Unset = Unset
    Dflt = Dflt
    Args <- MCArgs
SPECIFICATION Spec
INVARIANT TypeOK SingleInstance PidFileTracks ConfiguredAsSpecified
PROPERTY Finishes
\* Once every invocation has ended, the brokers left sleep forever.
CHECK_DEADLOCK FALSE
