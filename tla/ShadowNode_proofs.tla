-------------------------- MODULE ShadowNode_proofs --------------------------
(***************************************************************************)
(* The time bounds of the shadow node, for all values of its timeouts.  In  *)
(* each control point the age of the last change and the time that the     *)
(* step in hand still takes add up to at most what the steps since the     *)
(* change could take.                                                      *)
(***************************************************************************)
EXTENDS ShadowNode, TLAPS

THEOREM Typing == Spec => []TypeOK
  <1> USE ShadowAssumption DEF TypeOK, FailoverBound
  <1>1. Init => TypeOK
    <2> SUFFICES ASSUME Init PROVE TypeOK
      OBVIOUS
    <2>1. pc = "check" /\ remaining \in 0..HealthTimeout
      BY DEF Init
    <2>2. primaryUp \in BOOLEAN /\ partitioned \in BOOLEAN /\ isPrimary \in BOOLEAN
            /\ countersLost \in BOOLEAN
      BY DEF Init
    <2>3. coins \in 0..MaxCoins /\ synced \in 0..MaxCoins /\ silence \in Nat
            /\ sinceChange \in Nat
      BY DEF Init
    <2>4. QED BY <2>1, <2>2, <2>3
  <1>2. TypeOK /\ [Next]_vars => TypeOK'
    <2> SUFFICES ASSUME TypeOK, [Next]_vars PROVE TypeOK'
      OBVIOUS
    <2>1. CASE Tick
      BY <2>1 DEF Tick, Older
    <2>2. CASE MintCoins
      BY <2>2 DEF MintCoins, Changed
    <2>3. CASE PrimaryCrash
      <3>1. coins' \in 0..MaxCoins /\ sinceChange' \in Nat
        BY <2>3 DEF PrimaryCrash, Changed
      <3>2. primaryUp' \in BOOLEAN /\ countersLost' \in BOOLEAN
        BY <2>3 DEF PrimaryCrash
      <3>3. QED BY <2>3, <3>1, <3>2 DEF PrimaryCrash
    <2>4. CASE PrimaryStart
      BY <2>4 DEF PrimaryStart, Changed
    <2>5. CASE FlipNetwork
      BY <2>5 DEF FlipNetwork, Changed
    <2>6. CASE Check
      BY <2>6 DEF Check, Heartbeat, Role, Alive, Reachable
    <2>7. CASE Sync
      BY <2>7 DEF Sync, Copy, Reachable
    <2>8. CASE Wake
      BY <2>8 DEF Wake
    <2>9. CASE ShadowRestart
      <3>1. pc' = "check" /\ remaining' \in 0..HealthTimeout
        BY <2>9 DEF ShadowRestart
      <3>2. synced' \in 0..MaxCoins /\ silence' \in Nat /\ sinceChange' \in Nat
        BY <2>9 DEF ShadowRestart
      <3>3. isPrimary' \in BOOLEAN
        BY <2>9 DEF ShadowRestart
      <3>4. QED BY <2>9, <3>1, <3>2, <3>3 DEF ShadowRestart
    <2>10. CASE UNCHANGED vars
      BY <2>10 DEF vars
    <2>11. QED
      BY <2>1, <2>2, <2>3, <2>4, <2>5, <2>6, <2>7, <2>8, <2>9, <2>10 DEF Next
  <1>3. QED BY <1>1, <1>2, PTL DEF Spec

-----------------------------------------------------------------------------
(* Failover.  At the last check that left the node a shadow, the primary    *)
(* was reachable or silent for no more than FailoverTimeout.               *)

LossInv ==
  ~Reachable =>
    /\ sinceChange <= silence
    /\ ~isPrimary =>
         \/ pc = "sync" /\ sinceChange + remaining <= FailoverTimeout + SyncTimeout
         \/ pc = "sleep" /\ sinceChange + remaining <= FailoverTimeout + SyncTimeout + Interval
         \/ pc = "check" /\ sinceChange + remaining <= FailoverBound

LEMMA LossStep == ASSUME TypeOK, LossInv, [Next]_vars PROVE LossInv'
  <1> USE ShadowAssumption DEF TypeOK, LossInv, FailoverBound
  <1>1. CASE Tick
    <2>1. sinceChange' <= sinceChange + 1 /\ (sinceChange <= silence => sinceChange' <= silence')
      BY <1>1 DEF Tick, Older
    <2>2. sinceChange' \in Nat /\ remaining \in Nat
      BY <1>1 DEF Tick, Older
    <2>3. sinceChange' + remaining' <= sinceChange + remaining
      BY <1>1, <2>1, <2>2 DEF Tick
    <2>4. QED BY <1>1, <2>1, <2>2, <2>3 DEF Tick, Reachable
  <1>2. CASE MintCoins
    BY <1>2 DEF MintCoins, Changed, Reachable
  <1>3. CASE PrimaryCrash
    BY <1>3 DEF PrimaryCrash, Changed, Reachable
  <1>4. CASE PrimaryStart
    BY <1>4 DEF PrimaryStart, Changed, Reachable
  <1>5. CASE FlipNetwork
    BY <1>5 DEF FlipNetwork, Changed, Reachable
  <1>6. CASE Check
    <2> SUFFICES ASSUME ~Reachable PROVE LossInv'
      BY <1>6 DEF Check, Reachable
    <2>1. silence' = silence /\ sinceChange' = sinceChange /\ sinceChange <= silence
      BY <1>6 DEF Check, Heartbeat
    <2>2. isPrimary' \/ silence <= FailoverTimeout
      BY <1>6 DEF Check, Role, Alive
    <2>3. isPrimary' \/ (pc' = "sync" /\ remaining' \in 0..SyncTimeout)
      BY <1>6 DEF Check
    <2>4. QED BY <2>1, <2>2, <2>3
  <1>7. CASE Sync
    BY <1>7 DEF Sync, Copy, Reachable
  <1>8. CASE Wake
    <2>1. pc = "sleep" /\ remaining = 0 /\ pc' = "check" /\ remaining' \in 0..HealthTimeout
      BY <1>8 DEF Wake
    <2>2. Reachable' = Reachable /\ silence' = silence /\ sinceChange' = sinceChange
            /\ isPrimary' = isPrimary
      BY <1>8 DEF Wake, Reachable
    <2>3. PICK r \in 0..HealthTimeout : r = remaining'
      BY <2>1
    <2>4. ~Reachable /\ ~isPrimary => sinceChange' + r <= FailoverBound
      BY <2>1, <2>2
    <2>5. ~Reachable => sinceChange' <= silence'
      BY <2>2
    <2>6. QED BY <2>1, <2>2, <2>3, <2>4, <2>5
  <1>9. CASE ShadowRestart
    <2>1. pc' = "check" /\ remaining' \in 0..HealthTimeout /\ silence' = 0 /\ sinceChange' = 0
      BY <1>9 DEF ShadowRestart
    <2>2. PICK r \in 0..HealthTimeout : r = remaining'
      BY <2>1
    <2>3. sinceChange' + r <= FailoverBound /\ sinceChange' <= silence'
      BY <2>1
    <2>4. QED BY <2>1, <2>2, <2>3
  <1>10. CASE UNCHANGED vars
    BY <1>10 DEF vars, Reachable
  <1>11. QED
    BY <1>1, <1>2, <1>3, <1>4, <1>5, <1>6, <1>7, <1>8, <1>9, <1>10 DEF Next

\* Whatever the timeouts, a primary that cannot be reached for longer than their
\* sum has been replaced (check_primary_health, become_primary).
THEOREM FailsOverInTime == Spec => []FailoverInTime
  <1>1. Init => LossInv
    BY DEF Init, LossInv, Reachable
  <1>2. TypeOK /\ LossInv /\ [Next]_vars => LossInv'
    BY LossStep
  <1>3. TypeOK /\ LossInv => FailoverInTime
    BY ShadowAssumption DEF TypeOK, LossInv, FailoverInTime, FailoverBound
  <1>4. QED BY <1>1, <1>2, <1>3, Typing, PTL DEF Spec

-----------------------------------------------------------------------------
(* Recovery.  A change just missed is seen by the check after the sleep in *)
(* hand, and copied by the synchronisation that follows.                   *)

ReturnInv ==
  /\ pc = "sync" => ~isPrimary
  /\ Reachable /\ (isPrimary \/ synced # coins) =>
       \/ pc = "sleep" /\ sinceChange + remaining <= Interval
       \/ pc = "check" /\ sinceChange + remaining <= Interval + HealthTimeout
       \/ pc = "sync" /\ sinceChange + remaining <= RecoverBound

LEMMA ReturnStep == ASSUME TypeOK, ReturnInv, [Next]_vars PROVE ReturnInv'
  <1> USE ShadowAssumption DEF TypeOK, ReturnInv, RecoverBound
  <1>1. CASE Tick
    <2>1. sinceChange' <= sinceChange + 1 /\ sinceChange' \in Nat /\ remaining \in Nat
      BY <1>1 DEF Tick, Older
    <2>2. sinceChange' + remaining' <= sinceChange + remaining
      BY <1>1, <2>1 DEF Tick
    <2>3. QED BY <1>1, <2>1, <2>2 DEF Tick, Reachable
  <1>2. CASE MintCoins
    BY <1>2 DEF MintCoins, Changed, Reachable
  <1>3. CASE PrimaryCrash
    BY <1>3 DEF PrimaryCrash, Changed, Reachable
  <1>4. CASE PrimaryStart
    BY <1>4 DEF PrimaryStart, Changed, Reachable
  <1>5. CASE FlipNetwork
    BY <1>5 DEF FlipNetwork, Changed, Reachable
  <1>6. CASE Check
    BY <1>6 DEF Check, Heartbeat, Role, Alive, Reachable
  <1>7. CASE Sync
    BY <1>7 DEF Sync, Copy, Reachable
  <1>8. CASE Wake
    <2>1. pc = "sleep" /\ remaining = 0 /\ pc' = "check" /\ remaining' \in 0..HealthTimeout
      BY <1>8 DEF Wake
    <2>2. Reachable' = Reachable /\ coins' = coins /\ synced' = synced
            /\ sinceChange' = sinceChange /\ isPrimary' = isPrimary
      BY <1>8 DEF Wake, Reachable
    <2>3. PICK r \in 0..HealthTimeout : r = remaining'
      BY <2>1
    <2>4. Reachable /\ (isPrimary \/ synced # coins)
            => sinceChange' + r <= Interval + HealthTimeout
      BY <2>1, <2>2
    <2>5. QED BY <2>1, <2>2, <2>3, <2>4
  <1>9. CASE ShadowRestart
    <2>1. pc' = "check" /\ remaining' \in 0..HealthTimeout /\ sinceChange' = 0
      BY <1>9 DEF ShadowRestart
    <2>2. PICK r \in 0..HealthTimeout : r = remaining'
      BY <2>1
    <2>3. sinceChange' + r <= Interval + HealthTimeout
      BY <2>1
    <2>4. QED BY <2>1, <2>2, <2>3
  <1>10. CASE UNCHANGED vars
    BY <1>10 DEF vars, Reachable
  <1>11. QED
    BY <1>1, <1>2, <1>3, <1>4, <1>5, <1>6, <1>7, <1>8, <1>9, <1>10 DEF Next

\* Whatever the timeouts, a primary that can be reached for longer than one cycle
\* has its role back and its state is copied (demote_to_shadow, sync_state).
THEOREM RecoversInTime == Spec => []RecoveredInTime
  <1>1. Init => ReturnInv
    BY DEF Init, ReturnInv
  <1>2. TypeOK /\ ReturnInv /\ [Next]_vars => ReturnInv'
    BY ReturnStep
  <1>3. TypeOK /\ ReturnInv => RecoveredInTime
    BY ShadowAssumption DEF TypeOK, ReturnInv, RecoveredInTime, RecoverBound
  <1>4. QED BY <1>1, <1>2, <1>3, Typing, PTL DEF Spec

-----------------------------------------------------------------------------
\* A primary that has kept its counters shows at least what was copied.
CopyInv == ~countersLost => synced <= coins

LEMMA CopyStep == ASSUME TypeOK, CopyInv, [Next]_vars PROVE CopyInv'
  <1> USE ShadowAssumption DEF TypeOK, CopyInv
  <1>1. CASE Sync
    BY <1>1 DEF Sync, Copy
  <1>2. CASE ShadowRestart
    BY <1>2 DEF ShadowRestart
  <1>3. CASE Tick \/ MintCoins \/ PrimaryCrash \/ PrimaryStart \/ FlipNetwork
    BY <1>3 DEF Tick, MintCoins, PrimaryCrash, PrimaryStart, FlipNetwork
  <1>4. CASE Check \/ Wake \/ UNCHANGED vars
    BY <1>4 DEF Check, Wake, vars
  <1>5. QED BY <1>1, <1>2, <1>3, <1>4 DEF Next

\* The copy shrinks only to what a primary shows that lost its counters, or with
\* the process of the shadow (sync_state).
THEOREM CopySurvives == Spec => CopyKept
  <1>1. Init => CopyInv
    BY DEF Init, CopyInv
  <1>2. TypeOK /\ CopyInv /\ [Next]_vars => CopyInv'
    BY CopyStep
  <1>3. TypeOK /\ CopyInv /\ [Next]_vars
          => [synced' < synced => countersLost \/ ShadowRestart]_vars
    <2> SUFFICES ASSUME TypeOK, CopyInv, Next, ~countersLost, ~ShadowRestart
                 PROVE  ~ synced' < synced
      OBVIOUS
    <2>1. CASE Sync
      BY <2>1, ShadowAssumption DEF Sync, Copy, TypeOK, CopyInv
    <2>2. CASE Tick \/ MintCoins \/ PrimaryCrash \/ PrimaryStart \/ FlipNetwork
      BY <2>2, ShadowAssumption DEF TypeOK, Tick, MintCoins, PrimaryCrash, PrimaryStart, FlipNetwork
    <2>3. CASE Check \/ Wake
      BY <2>3, ShadowAssumption DEF TypeOK, Check, Wake
    <2>4. QED BY <2>1, <2>2, <2>3 DEF Next
  <1>4. QED BY <1>1, <1>2, <1>3, Typing, PTL DEF Spec, CopyKept
=============================================================================
