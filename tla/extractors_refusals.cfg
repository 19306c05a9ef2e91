\* A request is signed without the refusals in its messages.
SPECIFICATION FieldsSpec
CONSTANTS
    Inputs <- MCInputs
    Documents <- MCDocuments
INVARIANTS
    NothingLeftOut
CHECK_DEADLOCK FALSE
