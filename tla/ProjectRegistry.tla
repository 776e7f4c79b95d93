--------------------------- MODULE ProjectRegistry ---------------------------
(* The registry of projects as its users see it: a set of names to which *)
(* each change adds one name or from which it takes one, and nothing else. *)
CONSTANT Names

VARIABLE projects

Init == projects \in SUBSET Names

Register(n) == projects' = projects \cup {n}
Unregister(n) == projects' = projects \ {n}

Next == \E n \in Names : Register(n) \/ Unregister(n)

Spec == Init /\ [][Next]_projects
=============================================================================
