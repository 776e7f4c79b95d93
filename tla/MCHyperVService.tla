-------------------------- MODULE MCHyperVService --------------------------
(* Instances of HyperVService for TLC.                                     *)
EXTENDS HyperVService, TLC

CONSTANTS plain, checked, p1, p2

(* The two configurations share one port.                                  *)
MCPortsOf == (plain :> {p1}) @@ (checked :> {p1, p2})

(* Nothing tells one manager, container or address from another.           *)
Symmetry == Permutations(Managers) \cup Permutations(Containers) \cup Permutations(Addrs)
=============================================================================
