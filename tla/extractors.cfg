\* Conversations in every protocol, and bodies of all kinds; documents
\* of one or two short strings.
SPECIFICATION FieldsSpec
CONSTANTS
    Inputs <- MCInputs
    Documents <- MCDocuments
INVARIANTS
    FieldsTypeOK
    ProtocolsAgree
    
    PlainReadersAgree
    VerdictRight
    NeverPastEnd
\* A body is extracted and read once, a scan ends.
CHECK_DEADLOCK FALSE
