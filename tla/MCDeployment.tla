---------------------------- MODULE MCDeployment ----------------------------
(* Small instances of Deployment for TLC. *)
EXTENDS Deployment, TLC

CONSTANTS i1, i2, mail, odd, junk

AllKinds == (mail :> "email") @@ (odd :> "other") @@ (junk :> "garbled")
=============================================================================
