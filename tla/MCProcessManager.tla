------------------------- MODULE MCProcessManager -------------------------
(* Instances of ProcessManager for TLC.                                    *)
EXTENDS ProcessManager, TLC

CONSTANTS web, worker

(* web waits for worker.                                                   *)
WebNeedsWorker == [s \in Services |-> IF s = web THEN {worker} ELSE {}]

NoDependencies == [s \in Services |-> {}]

(* Nothing tells one identity, pid or manager from another.                *)
Symmetry == Permutations(Ids) \cup Permutations(Pids) \cup Permutations(Managers)
=============================================================================
