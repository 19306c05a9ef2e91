--------------------------- MODULE MCAttestedKeys ---------------------------
(* Two machines and their settings, two customers with different policies. *)
EXTENDS AttestedKeys, TLC

CONSTANTS m1, m2, c1, c2

Set(image, secret, tap) ==
    [image |-> image, secret |-> secret, tap |-> tap, legacy |-> "none"]

(* Both share a database; they do so, but m2 with another image and direct *)
(* settings; m1 has no database and m2 does not start.                     *)
MCSettings ==
    {m1 :> Set("approved", "fixed", "none") @@ m2 :> Set("approved", "fixed", "none"),
     m1 :> Set("approved", "fixed", "none") @@ m2 :> Set("other", "none", "whole"),
     m1 :> Set("approved", "none", "none") @@ m2 :> Set("approved", "fixed", "whole")}

MCMaxRuns == m1 :> 2 @@ m2 :> 1

MCPolicy ==
    c1 :> [machines |-> {m1, m2}, secret |-> "fixed"]
    @@ c2 :> [machines |-> {m1}, secret |-> "none"]

(* It differs from the keys of the machines in the machine.                *)
MCStranger == <<"stranger", 1>>

=============================================================================
