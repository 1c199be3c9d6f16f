----------------------- MODULE ModelShardManager_proofs ---------------------
(***************************************************************************)
(* Theorems about ModelShardManager, for every set of models, indices,     *)
(* versions and nodes: the node never holds as many shards as a model has, *)
(* provided that the call of store_shard that registers a model names its  *)
(* total and that no call names a total of one.                            *)
(***************************************************************************)
EXTENDS ModelShardManager, FiniteSetTheorems, TLAPS

\* The call that registers a model names its total, and models have more than one
\* shard; a later call may leave the total out or name another one.
TotalsKnown == ~ FirstMayOmit /\ 1 \notin Totals

\* The count of an inventory is a natural number, and one more shard adds at most one.
LEMMA Counting ==
  ASSUME NEW S \in SUBSET Indices, NEW i \in Indices
  PROVE  /\ IsFiniteSet(S) /\ Cardinality(S) \in Nat
         /\ Cardinality(S \cup {i}) \in Nat
         /\ Cardinality(S \cup {i}) <= Cardinality(S) + 1
         /\ i \in S => S \cup {i} = S
<1>1. IsFiniteSet(S)  BY FS_Subset, ShardAssumption
<1>2. Cardinality(S) \in Nat /\ Cardinality(S \cup {i}) =
        IF i \in S THEN Cardinality(S) ELSE Cardinality(S) + 1
  BY <1>1, FS_AddElement, FS_CardinalityType
<1> QED  BY <1>1, <1>2

\* The total of a model is a natural number that never shrinks, and two or more
\* if a call has named it.
LEMMA TotalGrows ==
  ASSUME TypeOK, NEW m \in Models, NEW i \in Indices, NEW d \in Totals
  PROVE  /\ TotalAfter(m, i, d) \in Nat
         /\ TotalAfter(m, i, d) >= total[m]
         /\ 1 \notin Totals /\ total[m] # 1 /\ (total[m] # 0 \/ d # 0) =>
              TotalAfter(m, i, d) > 1
<1>1. total[m] \in Nat /\ d \in Nat /\ i \in Nat  BY ShardAssumption DEF TypeOK
<1>2. 1 \notin Totals => d # 1  OBVIOUS
<1> QED  BY <1>1, <1>2 DEF TotalAfter

\* What a call of store_shard does to the stored shards.
LEMMA Storing ==
  ASSUME TypeOK, NEW m \in Models, NEW i \in Indices, NEW v \in Versions,
         NEW d \in Totals, StoreShard(m, i, v, d)
  PROVE  /\ total' = [total EXCEPT ![m] = TotalAfter(m, i, d)]
         /\ \A o \in Models : o # m => Held(o)' = Held(o)
         /\ Held(m)' = IF CanStore(m, i, TotalAfter(m, i, d))
                       THEN Held(m) \cup {i} ELSE Held(m)
<1>1. v # None  BY ShardAssumption
<1>2. CASE CanStore(m, i, TotalAfter(m, i, d))
  <2>1. shards' = [shards EXCEPT ![m][i] = v]  BY <1>2 DEF StoreShard
  <2>2. \A o \in Models : o # m => Held(o)' = Held(o)
    BY <2>1 DEF Held, TypeOK
  <2>3. Held(m)' = Held(m) \cup {i}
    BY <2>1, <1>1 DEF Held, TypeOK
  <2> QED  BY <1>2, <2>2, <2>3 DEF StoreShard
<1>3. CASE ~ CanStore(m, i, TotalAfter(m, i, d))
  BY <1>3 DEF StoreShard, Held
<1> QED  BY <1>2, <1>3

-----------------------------------------------------------------------------
LEMMA TypeInit == Init => TypeOK
<1> SUFFICES ASSUME Init PROVE TypeOK  OBVIOUS
<1> QED  BY DEF Init, TypeOK, NoShards, Inventories

LEMMA TypeStep == TypeOK /\ [Next]_vars => TypeOK'
<1> SUFFICES ASSUME TypeOK, [Next]_vars PROVE TypeOK'  OBVIOUS
<1>1. ASSUME NEW m \in Models, NEW i \in Indices, NEW v \in Versions,
             NEW d \in Totals, StoreShard(m, i, v, d)
      PROVE  TypeOK'
  <2>1. total' \in [Models -> Nat]  BY <1>1, Storing, TotalGrows DEF TypeOK
  <2>2. shards' \in [Models -> [Indices -> Versions \cup {None}]]
    <3>1. CASE shards' = [shards EXCEPT ![m] = [@ EXCEPT ![i] = v]]
      <4>1. [shards[m] EXCEPT ![i] = v] \in [Indices -> Versions \cup {None}]
        BY DEF TypeOK
      <4> QED  BY <3>1, <4>1 DEF TypeOK
    <3>2. CASE shards' = shards  BY <3>2 DEF TypeOK
    <3> QED  BY <1>1, <3>1, <3>2 DEF StoreShard
  <2>3. nodeMaps' \in [Nodes -> Inventories]
    <3> DEFINE noted == [nodeMaps[Local] EXCEPT ![m] = nodeMaps[Local][m] \cup {i}]
    <3>1. CASE NoteStored(m, i)
      <4>1. nodeMaps[Local] \in Inventories  BY DEF TypeOK, Nodes
      <4>2. noted \in Inventories  BY <4>1 DEF Inventories
      <4>3. nodeMaps' = [nodeMaps EXCEPT ![Local] = noted]
        BY <3>1 DEF NoteStored
      <4> HIDE DEF noted
      <4> QED  BY <4>2, <4>3 DEF TypeOK
    <3>2. CASE nodeMaps' = nodeMaps  BY <3>2 DEF TypeOK
    <3> QED  BY <1>1, <3>1, <3>2 DEF StoreShard
  <2> QED  BY <1>1, <2>1, <2>2, <2>3 DEF StoreShard, TypeOK
<1>2. ASSUME NEW m \in Models, NEW v \in Versions, HotSwap(m, v)  PROVE TypeOK'
  BY <1>2 DEF HotSwap, TypeOK, Held
<1>3. ASSUME NEW n \in Nodes, NEW inventory \in Inventories,
             RegisterRemoteNode(n, inventory)
      PROVE  TypeOK'
  BY <1>3 DEF RegisterRemoteNode, TypeOK, Held
<1>4. CASE GetSyncPlan
  <2>1. SyncPlan(target) \in Inventories  BY DEF SyncPlan, Inventories, Held
  <2> QED  BY <1>4, <2>1 DEF GetSyncPlan, TypeOK, Held
<1>5. ASSUME NEW m \in Models, NEW i \in Indices, Transfer(m, i)  PROVE TypeOK'
  <2>1. target' \in Inventories /\ plan' \in Inventories
    BY <1>5 DEF Transfer, TypeOK, Inventories, NoShards
  <2> QED  BY <1>5, <2>1 DEF Transfer, TypeOK, Held
<1>6. CASE UNCHANGED vars  BY <1>6 DEF vars, TypeOK, Held
<1> QED  BY <1>1, <1>2, <1>3, <1>4, <1>5, <1>6 DEF Next

\* The state keeps its type.
THEOREM Typing == Spec => []TypeOK
<1> QED  BY TypeInit, TypeStep, PTL DEF Spec

-----------------------------------------------------------------------------
\* A model that nobody has registered has no shards here, and no model has a total
\* of one, for which nothing would be enforced.
PartInv ==
  /\ NodeHoldsPart
  /\ \A m \in Models : total[m] # 1 /\ (total[m] = 0 => Held(m) = {})

LEMMA PartInit == Init => PartInv
<1> SUFFICES ASSUME Init PROVE PartInv  OBVIOUS
<1>1. \A m \in Models : total[m] = 0 /\ Held(m) = {}  BY DEF Init, Held
<1> QED  BY <1>1 DEF PartInv, NodeHoldsPart

LEMMA PartStep ==
  ASSUME TotalsKnown, TypeOK, PartInv, [Next]_vars
  PROVE  PartInv'
<1>1. ASSUME NEW m \in Models, NEW i \in Indices, NEW v \in Versions,
             NEW d \in Totals, total[m] # 0 \/ d # 0, StoreShard(m, i, v, d)
      PROVE  PartInv'
  <2> DEFINE n == TotalAfter(m, i, d)
  <2>1. n \in Nat /\ n >= total[m] /\ n > 1  BY <1>1, TotalGrows DEF PartInv, TotalsKnown
  <2>2. Held(m) \in SUBSET Indices /\ total[m] \in Nat  BY DEF Held, TypeOK
  <2>3. Cardinality(Held(m)) \in Nat /\ Cardinality(Held(m)) < n
    <3>1. CASE total[m] = 0
      BY <3>1, <2>1, FS_EmptySet DEF PartInv
    <3>2. CASE total[m] # 0
      <4>1. total[m] > 1  BY <3>2, <2>2 DEF PartInv
      <4>2. Cardinality(Held(m)) < total[m]  BY <4>1 DEF PartInv, NodeHoldsPart
      <4>3. Cardinality(Held(m)) \in Nat  BY <2>2, Counting
      <4> QED  BY <4>2, <4>3, <2>1, <2>2
    <3> QED  BY <3>1, <3>2
  <2>4. total'[m] = n /\ Cardinality(Held(m)') < n
    <3>1. CASE CanStore(m, i, n) /\ i \notin Held(m)
      <4>1. Cardinality(Held(m)) + 1 < n  BY <3>1, <2>1 DEF CanStore
      <4>2. Held(m)' = Held(m) \cup {i}  BY <1>1, <3>1, Storing
      <4>3. Cardinality(Held(m) \cup {i}) \in Nat
              /\ Cardinality(Held(m) \cup {i}) <= Cardinality(Held(m)) + 1
        BY <2>2, Counting
      <4> QED  BY <1>1, Storing, <4>1, <4>2, <4>3, <2>1, <2>3 DEF TypeOK
    <3>2. CASE ~ (CanStore(m, i, n) /\ i \notin Held(m))
      <4>1. Held(m)' = Held(m)  BY <1>1, <3>2, Storing
      <4> QED  BY <1>1, Storing, <4>1, <2>3 DEF TypeOK
    <3> QED  BY <3>1, <3>2
  <2>5. \A o \in Models : o # m => total'[o] = total[o] /\ Held(o)' = Held(o)
    BY <1>1, Storing DEF TypeOK
  <2> HIDE DEF n
  <2>6. ASSUME NEW o \in Models
        PROVE  /\ total'[o] > 1 => Cardinality(Held(o)') < total'[o]
               /\ total'[o] # 1
               /\ total'[o] = 0 => Held(o)' = {}
    BY <2>1, <2>4, <2>5 DEF PartInv, NodeHoldsPart
  <2> QED  BY <2>6 DEF PartInv, NodeHoldsPart
<1>2. CASE UNCHANGED <<shards, total>>
  BY <1>2 DEF PartInv, NodeHoldsPart, Held
<1> QED
  BY <1>1, <1>2
  DEF TotalsKnown, Next, vars, HotSwap, RegisterRemoteNode, GetSyncPlan, Transfer

\* The node never holds as many shards of a model as the model has, whatever is
\* stored, overwritten and refused in whatever order and however the totals that
\* the callers name disagree.
THEOREM NodeNeverWhole == ASSUME TotalsKnown PROVE Spec => []NodeHoldsPart
<1>1. PartInv => NodeHoldsPart  BY DEF PartInv
<1>2. TypeOK /\ PartInv /\ [Next]_vars => PartInv'  BY PartStep
<1> QED  BY PartInit, <1>1, <1>2, Typing, PTL DEF Spec
=============================================================================
