-------------------------- MODULE MCMountLifecycle --------------------------
(***************************************************************************)
(* Two daemons on one mount point: a predecessor that crashes, stays or    *)
(* stops at any moment, and a successor; or two that start at once.        *)
(***************************************************************************)
EXTENDS MountLifecycle
=============================================================================
