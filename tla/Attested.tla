------------------------------ MODULE Attested ------------------------------
(***************************************************************************)
(* What the proxy and the reference verifiers promise together, without    *)
(* headers, keys or callbacks: a customer that accepts a claim accepts one *)
(* that the proxy has observed on the wire, and every nonce is accepted at *)
(* most once (docs/customer-verification-guide.md sections 5.2 to 5.5).    *)
(***************************************************************************)
CONSTANTS Verifier, NonceOf(_)

VARIABLES observed,   \* the claims that are true of exchanges that took place
          accepted    \* accepted[v]: the claim verifier v accepted, at most one

Init == /\ observed = {}
        /\ accepted = [v \in Verifier |-> {}]

Observe == /\ observed \subseteq observed'
           /\ UNCHANGED accepted

Accept(v) == /\ accepted[v] = {}
             /\ \E claim \in observed :
                   /\ \A w \in Verifier : \A other \in accepted[w] :
                         NonceOf(other) # NonceOf(claim)
                   /\ accepted' = [accepted EXCEPT ![v] = {claim}]
             /\ UNCHANGED observed

Next == Observe \/ \E v \in Verifier : Accept(v)

Spec == Init /\ [][Next]_<<observed, accepted>>

=============================================================================
