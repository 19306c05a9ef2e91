------------------------------ MODULE MCRunLoop ------------------------------
(* An instance of RunLoop: which key is which makes no difference.         *)
EXTENDS RunLoop, TLC

KeySymmetry == Permutations(Keys)

=============================================================================
