-------------------------- MODULE ModelShardManager -------------------------
(***************************************************************************)
(* The shard manager of src/src/model_shard_manager.py: one node keeps     *)
(* shards of models in memory, refuses a shard that would make it hold a   *)
(* whole model, watches the inventories of the other nodes, and plans      *)
(* which shards a new node gets.  Every method holds one re-entrant lock,  *)
(* so that each is one step.                                               *)
(*                                                                         *)
(* Abstractions: the data of a shard is the version it belongs to; hashes, *)
(* sizes and ModelInfo.version are written and never read, and left out.   *)
(* The transport that carries out a plan is not part of the code: a shard  *)
(* of the plan reaches the target, one at a time, in any order.            *)
(***************************************************************************)
EXTENDS Naturals, FiniteSets

CONSTANTS
  Models,     \* model identities
  Indices,    \* shard indices that are stored, announced or asked for
  Versions,   \* model versions
  Totals,     \* values of the argument total_shards; 0: not given (the default)
  Local,      \* the node itself
  Remotes,    \* other nodes of the mesh
  None,       \* no value
  FirstMayOmit  \* the call that registers a model may leave its total out

ASSUME ShardAssumption ==
  /\ Indices \subseteq Nat /\ IsFiniteSet(Indices)
  /\ Totals \subseteq Nat
  /\ None \notin Versions
  /\ FirstMayOmit \in BOOLEAN

Nodes == Remotes \cup {Local}

Inventories == [Models -> SUBSET Indices]

VARIABLES
  shards,    \* self._shards: version of the data, None when it is not stored
  total,     \* ModelInfo.total_shards, 0 for a model that is not registered
  active,    \* self._active_versions
  nodeMaps,  \* self._node_maps: the inventory that the node counts for each node
  target,    \* inventory of a node that joins and is synchronised
  plan       \* the part of its sync plan that it has yet to receive

vars == <<shards, total, active, nodeMaps, target, plan>>

Held(m) == {i \in Indices : shards[m][i] # None}

NoShards == [m \in Models |-> {}]

Init ==
  /\ shards = [m \in Models |-> [i \in Indices |-> None]]
  /\ total = [m \in Models |-> 0]
  /\ active = [m \in Models |-> None]
  /\ nodeMaps = [n \in Nodes |-> NoShards]
  /\ target \in {t \in Inventories : \A m \in Models : Cardinality(t[m]) <= 1}
  /\ plan = NoShards

-----------------------------------------------------------------------------
(* Storing and swapping                                                    *)

\* The total of a model after a call of store_shard: the argument, or what the
\* index implies when a new model comes without it; it never shrinks.
TotalAfter(m, i, declared) ==
  LET known == IF total[m] = 0 /\ declared = 0 THEN i + 1 ELSE declared
  IN  IF known > total[m] THEN known ELSE total[m]

\* Mutant: the shard that is about to be stored is not counted.
MayStoreLast(m, i, n) ==
  \/ n <= 1
  \/ i \in Held(m)
  \/ Cardinality(Held(m)) < n

\* _can_store_shard, for a model of n shards.
CanStore(m, i, n) ==
  \/ n <= 1
  \/ i \in Held(m)
  \/ Cardinality(Held(m)) + 1 < n

NoteStored(m, i) == nodeMaps' = [nodeMaps EXCEPT ![Local][m] = @ \cup {i}]

\* store_shard: the model is registered, and its total raised, before the test.
StoreShard(m, i, v, declared) ==
  LET n == TotalAfter(m, i, declared)
  IN  /\ total' = [total EXCEPT ![m] = n]
      /\ IF CanStore(m, i, n)
         THEN shards' = [shards EXCEPT ![m][i] = v] /\ NoteStored(m, i)
         ELSE UNCHANGED <<shards, nodeMaps>>
      /\ UNCHANGED <<active, target, plan>>

\* hot_swap moves the pointer, whatever is stored.
HotSwap(m, v) ==
  /\ active' = [active EXCEPT ![m] = v]
  /\ UNCHANGED <<shards, total, nodeMaps, target, plan>>

\* assemble_model: the indices of what is concatenated; none when one is missing.
Assembled(m) ==
  IF total[m] > 0 /\ 0..(total[m] - 1) \subseteq Held(m) THEN 0..(total[m] - 1) ELSE {}

-----------------------------------------------------------------------------
(* The other nodes                                                         *)

\* register_remote_node replaces what is known of a node, the node itself included.
RegisterRemoteNode(n, inventory) ==
  /\ nodeMaps' = [nodeMaps EXCEPT ![n] = inventory]
  /\ UNCHANGED <<shards, total, active, target, plan>>

\* check_distribution_constraint counts the shards that every tracked node has.
CheckConstraint(m) ==
  total[m] = 0 \/ \A n \in Nodes : Cardinality(nodeMaps[n][m]) < total[m]

\* get_sync_plan: every shard is weighed against what the target already has.
SyncPlan(t) ==
  [m \in Models |->
     {i \in Held(m) \ t[m] : total[m] <= 1 \/ Cardinality(t[m]) + 1 < total[m]}]

GetSyncPlan ==
  /\ plan' = SyncPlan(target)
  /\ UNCHANGED <<shards, total, active, nodeMaps, target>>

\* A shard of the plan reaches the target.
Transfer(m, i) ==
  /\ i \in plan[m]
  /\ target' = [target EXCEPT ![m] = @ \cup {i}]
  /\ plan' = [plan EXCEPT ![m] = @ \ {i}]
  /\ UNCHANGED <<shards, total, active, nodeMaps>>

-----------------------------------------------------------------------------
Next ==
  \/ \E m \in Models, i \in Indices, v \in Versions, declared \in Totals :
       /\ FirstMayOmit \/ total[m] # 0 \/ declared # 0
       /\ StoreShard(m, i, v, declared)
  \/ \E m \in Models, v \in Versions : HotSwap(m, v)
  \/ \E n \in Nodes, inventory \in Inventories : RegisterRemoteNode(n, inventory)
  \/ GetSyncPlan
  \/ \E m \in Models, i \in Indices : Transfer(m, i)

Spec == Init /\ [][Next]_vars

-----------------------------------------------------------------------------
\* Type invariant.
TypeOK ==
  /\ shards \in [Models -> [Indices -> Versions \cup {None}]]
  /\ total \in [Models -> Nat]
  /\ active \in [Models -> Versions \cup {None}]
  /\ nodeMaps \in [Nodes -> Inventories]
  /\ target \in Inventories /\ plan \in Inventories

\* No sequence of calls of store_shard makes the node hold as many shards as a
\* model has, if it has more than one ("No single node holds all shards").
NodeHoldsPart ==
  \A m \in Models : total[m] > 1 => Cardinality(Held(m)) < total[m]

\* What get_sync_plan hands to a node leaves that node, too, with a part only
\* ("giving this shard wouldn't violate constraint for the target node").
TargetHoldsPart ==
  \A m \in Models : total[m] > 1 => Cardinality(target[m]) < total[m]

\* When check_distribution_constraint passes, the node itself does not hold a whole
\* model ("Returns True if no single node holds all shards").
CheckSeesLocal ==
  \A m \in Models : total[m] > 1 /\ CheckConstraint(m) =>
    ~ (0..(total[m] - 1) \subseteq Held(m))

\* A node holds at most 80% of the shards of a model (MAX_SHARDS_PER_NODE_RATIO).
RatioRespected ==
  \A m \in Models : total[m] > 1 => 10 * Cardinality(Held(m)) <= 8 * total[m]

\* What assemble_model returns is the complete model: no stored shard is left out.
AssembledIsWhole ==
  \A m \in Models : Assembled(m) # {} => Held(m) \subseteq Assembled(m)

\* A shard of the active version stays stored until hot_swap has moved on.
ServedVersionKept ==
  [][\A m \in Models, i \in Indices :
       /\ shards[m][i] = active[m] /\ active[m] # None
       /\ active'[m] = active[m]
       => shards'[m][i] = shards[m][i]]_vars
=============================================================================
