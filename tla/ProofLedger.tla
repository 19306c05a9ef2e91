----------------------------- MODULE ProofLedger -----------------------------
(***************************************************************************)
(* What the proof cache promises to its clients, whatever replicas,        *)
(* databases and networks are behind it: for each proof_ref and challenge  *)
(* at most one bundle is ever issued (cache.go:29-31), it stays the one,   *)
(* and every client that asked and was given a bundle was given that one.  *)
(***************************************************************************)
CONSTANTS Client, Key, Bundle, KeyOf(_)

VARIABLES issued,   \* the bundles that exist
          asked,    \* asked[c]: the key client c asks for
          given     \* given[c]: the bundles client c was given, at most one

vars == <<issued, asked, given>>

Init == /\ issued = {}
        /\ asked \in [Client -> Key]
        /\ given = [c \in Client |-> {}]

Issue == \E b \in issued' : /\ b \in Bundle
                             /\ \A other \in issued : KeyOf(other) # KeyOf(b)
                             /\ issued' = issued \cup {b}
                             /\ UNCHANGED <<asked, given>>

Answer(c) == /\ given[c] = {}
             /\ \E b \in issued : /\ KeyOf(b) = asked[c]
                                  /\ given' = [given EXCEPT ![c] = {b}]
             /\ UNCHANGED <<issued, asked>>

Next == Issue \/ \E c \in Client : Answer(c)

Spec == Init /\ [][Next]_vars

=============================================================================
