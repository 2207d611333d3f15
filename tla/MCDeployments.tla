--------------------------- MODULE MCDeployments ----------------------------
(* The mixes of user requests the runs of Deployments use. *)
EXTENDS Deployments

AllKinds == UserKinds
ManualOnly == {"manual"}
=============================================================================
