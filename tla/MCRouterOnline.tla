---------------------------- MODULE MCRouterOnline ----------------------------
(* The instance in which an owner that is online is to answer.             *)
EXTENDS MCProofRouter

(* The options of the run suffice for its two requests, as the defaults of *)
(* router.go:66-76 do for many: what OnlineAnswers assumes is met here.    *)
ASSUME InTimeAssumption == InTime

=============================================================================
