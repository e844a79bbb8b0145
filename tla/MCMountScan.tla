---------------------------- MODULE MCMountScan -----------------------------
(* An instance of MountScan for TLC.                                           *)
EXTENDS MountScan, TLC

CONSTANTS m1, f1, f2

MCMountOf == (f1 :> m1) @@ (f2 :> m1)
=============================================================================
