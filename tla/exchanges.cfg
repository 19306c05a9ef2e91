\* Two exchanges at a time, two customers that may hold each other's response;
\* an exchange that is odd in some way happens alone.
SPECIFICATION Spec
CONSTANTS
    Exchange = {"e1", "e2"}
    Verifier = {v1, v2}
    Challenge = {"c1", "c2"}
    Unsafe = {"unsafe"}
    Ruled = {"/chat"}
    MaxJSONBytes = 2
    PublicKey = "key"
    Asks <- MCAsks
    Replies <- MCReplies
    Foreign <- MCForeign
CONSTRAINT OddAlone
INVARIANTS
    PassesThrough
    AttestationsAreTrue
    AttestationsVerify
    StreamAnswersOwn
    OnlyVerifiedConsumes
PROPERTY
    ImplementsAttested
\* The system stops when the exchanges and verifications are over.
CHECK_DEADLOCK FALSE
