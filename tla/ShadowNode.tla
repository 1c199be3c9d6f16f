------------------------------ MODULE ShadowNode -----------------------------
(***************************************************************************)
(* The shadow node of src/src/shadow_node.py next to the primary node of   *)
(* src/src/faucet_bridge.py: the shadow polls the primary over HTTP, takes *)
(* over when it has not answered for the failover timeout, steps back when *)
(* it answers again, and copies its counters while it is the shadow.       *)
(*                                                                         *)
(* Time passes one second at a time.  A request takes up to its timeout    *)
(* and is answered if the primary can be reached at its end; the sleep     *)
(* between two cycles is exact.  The loop is one thread: check, decide,    *)
(* synchronise, sleep.                                                     *)
(*                                                                         *)
(* Abstractions: the state of the primary is its number of coins, kept in  *)
(* memory only; silver and health go with it.  The ages saturate just      *)
(* above the bounds that the properties compare them with.                 *)
(***************************************************************************)
EXTENDS Naturals

CONSTANTS
  HealthTimeout,    \* timeout of the request of check_primary_health
  SyncTimeout,      \* timeout of the request of sync_state
  Interval,         \* HEARTBEAT_INTERVAL
  FailoverTimeout,  \* FAILOVER_TIMEOUT
  MaxCoins          \* bound: coins of the primary

ASSUME ShadowAssumption ==
  /\ HealthTimeout \in Nat /\ SyncTimeout \in Nat
  /\ Interval \in Nat \ {0}
  /\ FailoverTimeout \in Nat
  /\ MaxCoins \in Nat

VARIABLES
  primaryUp,    \* the process of the primary runs
  partitioned,  \* the network between the two is cut
  coins,        \* total_coins of the primary
  pc,           \* what the loop of the shadow does: check, sync or sleep
  remaining,    \* seconds until it is done
  silence,      \* time.time() - last_primary_heartbeat
  isPrimary,    \* self.is_primary
  synced,       \* self.synced_state
  sinceChange,  \* history: age of the last change that this shadow should see
  countersLost  \* history: the primary lost its counters since the last copy

vars == <<primaryUp, partitioned, coins, pc, remaining, silence, isPrimary, synced,
          sinceChange, countersLost>>

Reachable == primaryUp /\ ~partitioned

\* The longest time from the loss of the primary to the failover, and from its
\* return (or a new coin) to the copy of its state.
FailoverBound == FailoverTimeout + SyncTimeout + Interval + HealthTimeout
RecoverBound  == Interval + HealthTimeout + SyncTimeout

Older(age) == IF age > FailoverBound THEN age ELSE age + 1

Init ==
  /\ primaryUp = TRUE
  /\ partitioned = FALSE
  /\ coins = 0
  /\ pc = "check"
  /\ remaining \in 0..HealthTimeout
  /\ silence = 0
  /\ isPrimary = FALSE
  /\ synced = 0
  /\ sinceChange = 0
  /\ countersLost = FALSE

Tick ==
  /\ remaining > 0
  /\ remaining' = remaining - 1
  /\ silence' = Older(silence)
  /\ sinceChange' = Older(sinceChange)
  /\ UNCHANGED <<primaryUp, partitioned, coins, pc, isPrimary, synced, countersLost>>

-----------------------------------------------------------------------------
(* The primary: mint_coins, a crash, a restart that has lost the counters, *)
(* and the network.                                                        *)

\* A change of the coins is seen once the primary can be reached.
Changed == sinceChange' = IF Reachable \/ Reachable' THEN 0 ELSE sinceChange

MintCoins ==
  /\ primaryUp
  /\ coins < MaxCoins
  /\ coins' = coins + 1
  /\ UNCHANGED <<primaryUp, partitioned, pc, remaining, silence, isPrimary, synced,
                 countersLost>>
  /\ Changed

PrimaryCrash ==
  /\ primaryUp
  /\ primaryUp' = FALSE
  /\ coins' = 0
  /\ countersLost' = TRUE
  /\ UNCHANGED <<partitioned, pc, remaining, silence, isPrimary, synced>>
  /\ Changed

PrimaryStart ==
  /\ ~primaryUp
  /\ primaryUp' = TRUE
  /\ UNCHANGED <<partitioned, coins, pc, remaining, silence, isPrimary, synced,
                 countersLost>>
  /\ Changed

FlipNetwork ==
  /\ partitioned' = ~partitioned
  /\ UNCHANGED <<primaryUp, coins, pc, remaining, silence, isPrimary, synced,
                 countersLost>>
  /\ Changed

-----------------------------------------------------------------------------
(* The loop of run                                                         *)

\* check_primary_health: a primary that does not answer counts as alive until
\* the failover timeout has passed.
Alive == Reachable \/ silence <= FailoverTimeout

\* Mutant: every failed request extends the wait.
HeartbeatAlways == silence' = IF Alive THEN 0 ELSE silence

Heartbeat == silence' = IF Reachable THEN 0 ELSE silence

\* Mutant: once primary, the node stays it.
RoleForever == isPrimary' = (isPrimary \/ ~Alive)

\* become_primary and demote_to_shadow.
Role == isPrimary' = ~Alive

Check ==
  /\ pc = "check" /\ remaining = 0
  /\ Heartbeat
  /\ Role
  /\ IF isPrimary'
     THEN pc' = "sleep" /\ remaining' = Interval
     ELSE pc' = "sync" /\ remaining' \in 0..SyncTimeout
  /\ UNCHANGED <<primaryUp, partitioned, coins, synced, sinceChange, countersLost>>

\* Mutant: a failed request leaves the copy empty.
CopyEmptied ==
  /\ synced' = IF Reachable THEN coins ELSE 0
  /\ countersLost' = (countersLost /\ ~Reachable)

\* sync_state: whatever the primary shows replaces the copy.
Copy ==
  /\ synced' = IF Reachable THEN coins ELSE synced
  /\ countersLost' = (countersLost /\ ~Reachable)

Sync ==
  /\ pc = "sync" /\ remaining = 0
  /\ Copy
  /\ pc' = "sleep" /\ remaining' = Interval
  /\ UNCHANGED <<primaryUp, partitioned, coins, silence, isPrimary, sinceChange>>

Wake ==
  /\ pc = "sleep" /\ remaining = 0
  /\ pc' = "check" /\ remaining' \in 0..HealthTimeout
  /\ UNCHANGED <<primaryUp, partitioned, coins, silence, isPrimary, synced,
                 sinceChange, countersLost>>

(* The process of the shadow is stopped and started again: it begins like  *)
(* a new one, with no copy, as a shadow, and its patience is full again.   *)
ShadowRestart ==
  /\ pc' = "check" /\ remaining' \in 0..HealthTimeout
  /\ silence' = 0 /\ sinceChange' = 0
  /\ isPrimary' = FALSE
  /\ synced' = 0
  /\ UNCHANGED <<primaryUp, partitioned, coins, countersLost>>

Next ==
  \/ Tick \/ MintCoins \/ PrimaryCrash \/ PrimaryStart \/ FlipNetwork
  \/ Check \/ Sync \/ Wake \/ ShadowRestart

Spec == Init /\ [][Next]_vars

-----------------------------------------------------------------------------
TypeOK ==
  /\ primaryUp \in BOOLEAN /\ partitioned \in BOOLEAN
  /\ coins \in 0..MaxCoins /\ synced \in 0..MaxCoins
  /\ \/ pc = "check" /\ remaining \in 0..HealthTimeout
     \/ pc = "sync" /\ remaining \in 0..SyncTimeout
     \/ pc = "sleep" /\ remaining \in 0..Interval
  /\ silence \in Nat /\ sinceChange \in Nat
  /\ isPrimary \in BOOLEAN /\ countersLost \in BOOLEAN

\* A primary that cannot be reached for longer than the bound has been replaced,
\* however the requests and the outage interleave with the polling.
FailoverInTime == ~Reachable /\ sinceChange > FailoverBound => isPrimary

\* A primary that can be reached for longer than the bound has its role back and
\* its state is copied.
RecoveredInTime ==
  Reachable /\ sinceChange > RecoverBound => ~isPrimary /\ synced = coins

\* What the shadow took over from the primary is given up only for what a primary
\* shows that has lost its counters, or with the shadow's own process: no failed
\* request, failover, partition or late answer takes coins from the copy.
CopyKept == [][synced' < synced => countersLost \/ ShadowRestart]_vars

\* The failover comes within the documented 20 seconds.
DocumentedFailover == 20

FailoverAsDocumented ==
  ~Reachable /\ sinceChange > DocumentedFailover => isPrimary

\* A primary that is online has the role to itself ("Primary: ONLINE ->
\* shadow_is_primary=0"), after the time the shadow needs to notice it.
OnePrimary == primaryUp /\ isPrimary => sinceChange <= RecoverBound
=============================================================================
