---------------------------- MODULE MCHostsGuard -----------------------------
(***************************************************************************)
(* The monitor, the hourly maintenance and the one of system start.        *)
(***************************************************************************)
EXTENDS HostsGuard

MCInstallers == {"monitor"} \cup Units
=============================================================================
