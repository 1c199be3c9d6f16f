------------------------- MODULE MCMeshOrchestrator -------------------------
(* Reports of an idle, a busy and an overloaded node, and of one without    *)
(* memory; one node of two has the capability for audio tasks.              *)
EXTENDS MeshOrchestrator, TLC

SomeReports == {Idle, [cpu |-> 5, gpu |-> 2, ram |-> 1], [cpu |-> 8, gpu |-> 0, ram |-> 0]}

GpuOnFirst == "n1" :> {"text", "audio"} @@ "n2" :> {"text"}

OneReport == {Idle}

NoMemory == {Idle, [cpu |-> 0, gpu |-> 0, ram |-> 10]}

EveryNode == [n \in Nodes |-> Kinds]
=============================================================================
