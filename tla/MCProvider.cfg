\* Servers that end a response with its end mark; every other fault.
SPECIFICATION Spec
CONSTANTS
    None = None
    Requests <- Variants
    MaxLines = 5
    Faults = {}
INVARIANTS
    TypeOK
    EndedIsWhole
    KeyedAsAsked
PROPERTIES
    CallEnds
