---------------------------- MODULE MCDockerApi ----------------------------
(* Instances of DockerApi for TLC.                                         *)
EXTENDS DockerApi, TLC

(* Nothing tells one request, id, name or port from another.               *)
Symmetry == Permutations(Requests) \cup Permutations(Ids)
              \cup Permutations(Names) \cup Permutations(Ports)
=============================================================================
