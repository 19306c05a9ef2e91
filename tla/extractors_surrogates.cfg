\* A lone surrogate is replaced before it is looked for.
SPECIFICATION FieldsSpec
CONSTANTS
    Inputs <- MCInputs
    Documents <- MCDocuments
INVARIANTS
    NothingReplaced
CHECK_DEADLOCK FALSE
