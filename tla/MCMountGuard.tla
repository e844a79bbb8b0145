---------------------------- MODULE MCMountGuard ----------------------------
(* An instance of MountGuard for TLC: a drive with two files, one with one.    *)
EXTENDS MountGuard, TLC

CONSTANTS m1, m2, f1, f2, f3

MCMountOf == (f1 :> m1) @@ (f2 :> m1) @@ (f3 :> m2)
=============================================================================
