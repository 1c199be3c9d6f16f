----------------------------- MODULE KarelEngine ----------------------------
(***************************************************************************)
(* The engine of src/src/wire_karel_engine.py: four components registered  *)
(* with the AppLifecycle, and what their functions start and stop.  The    *)
(* privacy component runs the purge cycle of the engine's keys; every      *)
(* start of the mesh component makes a new MeshLayer, which runs a         *)
(* connectivity monitor and a purge cycle of its own; the two pipelines    *)
(* are created and start no thread by themselves.                          *)
(*                                                                         *)
(* A step of the lifecycle and its effect on the engine are one step here. *)
(* A start function that raises leaves what it has done so far: the two    *)
(* threads of a MeshLayer are started one after the other.                 *)
(***************************************************************************)
EXTENDS AppLifecycle

CONSTANTS
  MaxMeshes,   \* bound: MeshLayers created
  PartialFail  \* TRUE: a start function may raise half way

ASSUME EngineAssumption == MaxMeshes \in Nat /\ PartialFail \in BOOLEAN

VARIABLES
  purging,     \* the purge cycle of self._privacy is scheduled
  meshes,      \* MeshLayers created; the last one is self._mesh
  monitoring,  \* MeshLayers whose connectivity monitor is on
  meshPurging, \* MeshLayers whose purge cycle is scheduled
  halfStarted  \* history: MeshLayers whose start raised after their monitor ran

engineVars == <<purging, meshes, monitoring, meshPurging, halfStarted>>

EngineComponents == {"privacy", "mesh", "text_pipeline", "audio_pipeline"}

EngineStoppable == {"privacy", "mesh", "audio_pipeline"}

EnginePriority ==
  [c \in EngineComponents |->
     CASE c = "privacy" -> 5 [] c = "mesh" -> 10 [] c = "text_pipeline" -> 20 [] OTHER -> 30]

EngineInit ==
  /\ Init
  /\ purging = FALSE
  /\ meshes = 0
  /\ monitoring = {}
  /\ meshPurging = {}
  /\ halfStarted = {}

-----------------------------------------------------------------------------
(* The functions that the step of a lifecycle calls.  The engine's stops   *)
(* set flags and join with a timeout: a thread that outlasts it ends later *)
(* by itself, and the variables are the flags.                             *)

Starts(c) == \E d \in Drivers : StartComponent(d) /\ c \in at'[d]
Stops(c)  == \E d \in Drivers : StopComponent(d) /\ c \in at[d]
FailsToStart(c) == \E d \in Drivers : StartComponentFails(d) /\ c \in FirstOf(todo[d])

StartMesh ==
  /\ meshes < MaxMeshes
  /\ meshes' = meshes + 1
  /\ monitoring' = monitoring \cup {meshes'}
  /\ meshPurging' = meshPurging \cup {meshes'}
  /\ UNCHANGED halfStarted

StopMesh ==
  /\ monitoring' = monitoring \ {meshes}
  /\ meshPurging' = meshPurging \ {meshes}
  /\ UNCHANGED <<meshes, halfStarted>>

\* The mesh is created and its monitor started, then the purge cycle fails; or
\* nothing was started.
StartMeshFails ==
  \/ UNCHANGED <<meshes, monitoring, meshPurging, halfStarted>>
  \/ /\ PartialFail
     /\ meshes < MaxMeshes
     /\ meshes' = meshes + 1
     /\ monitoring' = monitoring \cup {meshes'}
     /\ halfStarted' = halfStarted \cup {meshes'}
     /\ UNCHANGED meshPurging

MeshEffect ==
  \/ Starts("mesh") /\ StartMesh
  \/ Stops("mesh") /\ StopMesh
  \/ FailsToStart("mesh") /\ StartMeshFails
  \/ /\ ~ Starts("mesh") /\ ~ Stops("mesh") /\ ~ FailsToStart("mesh")
     /\ UNCHANGED <<meshes, monitoring, meshPurging, halfStarted>>

\* Mutant: _stop_privacy does nothing.
PrivacyEffectStarts == purging' = (purging \/ Starts("privacy"))

PrivacyEffect == purging' = (Starts("privacy") \/ (purging /\ ~ Stops("privacy")))

EngineNext == Next /\ PrivacyEffect /\ MeshEffect

EngineSpec == EngineInit /\ [][EngineNext]_<<vars, engineVars>>

-----------------------------------------------------------------------------
\* Only the current MeshLayer is left on, whatever fails and however the
\* application is reset (self._mesh is all that stop() can reach): the engine does
\* not have this property, _start_mesh replaces a MeshLayer that is still on.
NoOrphanMesh == monitoring \cup meshPurging \subseteq {meshes}

Release == \E d \in Drivers : ToStopped(d)

\* When stop() returns True everything that was started to the end is switched off,
\* also when it was called after a failed start or from an error ("Gracefully shut
\* down all components"). What is left is the monitor of a MeshLayer whose start
\* raised after it: it is not marked as started.
ReleasedByStop ==
  [][Release => ~ purging /\ monitoring \subseteq halfStarted /\ meshPurging = {}]_<<vars, engineVars>>

\* The same without the exception, which the engine does not have ("Gracefully shut
\* down all components").
AllReleasedByStop ==
  [][Release => ~ purging /\ monitoring = {} /\ meshPurging = {}]_<<vars, engineVars>>
=============================================================================
