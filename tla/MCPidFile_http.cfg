\* `nanomq start --http`, as the CLI table of the specification writes it.
CONSTANTS
    Kind <- MCKind
    Procs <- MCProcs
    Overlap = FALSE
    PortTaken = FALSE
    Foreign = Foreign
    None = None
    Empty = Empty
    Unset = Unset
    Dflt = Dflt
    Args <- MCHttpArgs
SPECIFICATION Spec
INVARIANT ConfiguredAsSpecified
CHECK_DEADLOCK FALSE
