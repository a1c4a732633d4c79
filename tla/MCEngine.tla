------------------------------ MODULE MCEngine ------------------------------
(* Instances of module Engine for TLC. *)
EXTENDS EngineQueue, TLC

CONSTANTS i1, i2, i3, w1, w2, c1, c2

OneInstance == {i1}
TwoInstances == {i1, i2}
ThreeInstances == {i1, i2, i3}
OneWorker == {w1}
TwoWorkers == {w1, w2}
OneClient == {c1}
TwoClients == {c1, c2}

Symmetry == Permutations(Instances) \cup Permutations(Clients)
=============================================================================
