--------------------------- MODULE ServiceLayers ---------------------------
(***************************************************************************)
(* What the Hyper-V service manager promises about the writable layers of  *)
(* one service: a replacement stops and renames the old container, and     *)
(* deletes it "only after success" of the new one (REMEDIATION-MATRIX.md). *)
(* Containers come and go, but the one whose start succeeded last stays    *)
(* until another one succeeds or the service is taken down.                *)
(***************************************************************************)
CONSTANTS Containers, NULL

VARIABLES
    layers,  \* the containers that exist, under whatever name
    proven   \* the one whose start succeeded last

Init == layers = {} /\ proven = NULL

Create == /\ \E c \in Containers \ layers : layers' = layers \cup {c}
          /\ UNCHANGED proven

Prove == /\ proven' \in layers
         /\ UNCHANGED layers

Discard == /\ \E c \in layers \ {proven} : layers' = layers \ {c}
           /\ UNCHANGED proven

TakeDown == /\ proven # NULL
            /\ layers' = layers \ {proven}
            /\ proven' = NULL

Next == Create \/ Prove \/ Discard \/ TakeDown

Spec == Init /\ [][Next]_<<layers, proven>>
=============================================================================
