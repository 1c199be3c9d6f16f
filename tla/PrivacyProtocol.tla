-------------------------- MODULE PrivacyProtocol --------------------------
(***************************************************************************)
(* The in-memory privacy service of src/src/privacy_protocol.py: a plain   *)
(* (non-reentrant) lock, a hash-chained audit log, the operational         *)
(* metadata that a background thread purges, and the scheduling of that    *)
(* thread.                                                                 *)
(*                                                                         *)
(* Every thread is a process with a program counter.  A critical section   *)
(* that no other section can observe half-way is one step guarded by a     *)
(* free lock; _add_audit_entry, whose read of the chain head and append    *)
(* must not be separated, is two steps that hold the lock.                 *)
(*                                                                         *)
(* Abstractions: the ciphers (pure functions of their arguments), the      *)
(* values of the metadata, time stamps, the file-system scan (its only     *)
(* state change is its audit entry) and the Prometheus counters.           *)
(***************************************************************************)
EXTENDS Integers, Sequences, FiniteSets, FiniteSetsExt

CONSTANTS
  Callers,        \* threads that call the public methods
  Managers,       \* those of them that call schedule_purge and stop_purge
  StatusCallers,  \* those of them that call get_status
  Loops,          \* identities of the purge threads that may be created
  Keys,           \* keys of the operational metadata
  NoProc,         \* "nobody": a free lock, no purge thread yet
  MaxOps,         \* bound: public method calls in a behaviour
  MaxCycles       \* bound: purges by the background threads in a behaviour

Procs == Callers \union Loops

ASSUME CallersAssumption ==
  /\ Callers \intersect Loops = {}
  /\ NoProc \notin Procs
  /\ Managers \subseteq Callers
  /\ StatusCallers \subseteq Callers
  /\ IsFiniteSet(Procs) /\ IsFiniteSet(Keys)
  /\ MaxOps \in Nat /\ MaxCycles \in Nat

VARIABLES
  lock,          \* the thread that holds self._lock, or NoProc
  auditLog,      \* self._audit_log
  metadata,      \* keys of self._operational_metadata
  purgeRunning,  \* self._purge_running
  purgeThread,   \* self._purge_thread
  pc,            \* control point of every thread
  entry,         \* the action argument of the _add_audit_entry call in hand
  prevHash,      \* local prev_hash inside _add_audit_entry
  ops,           \* public calls made so far (bounded by MaxOps)
  cycles,        \* background purges begun so far (bounded by MaxCycles)
  stored         \* history: keys ever added to the metadata, with repetition

vars == <<lock, auditLog, metadata, purgeRunning, purgeThread, pc, entry,
          prevHash, ops, cycles, stored>>

bookkeeping == <<ops, cycles, stored>>

-----------------------------------------------------------------------------
(* The hash chain.  SHA-256 is collision-free here: a hash is the sequence *)
(* of everything that was fed into it.                                     *)

Action == [kind : {"initialized", "operation", "scheduled", "stopped", "purged"},
           cleared : Nat]

Act(kind) == [kind |-> kind, cleared |-> 0]

Purged(n) == [kind |-> "purged", cleared |-> n]

Genesis == << >>

ComputeHash(prev, action) == Append(prev, action)

AuditEntry == [action : Action, hash : Seq(Action)]

ChainHead(log) == IF log = << >> THEN Genesis ELSE log[Len(log)].hash

Chained(prev, action) == [action |-> action, hash |-> ComputeHash(prev, action)]

\* What verify_audit_chain returns: recompute every hash from its predecessor.
VerifyChain(log) ==
  \A i \in 1..Len(log) :
    log[i].hash = ComputeHash(IF i = 1 THEN Genesis ELSE log[i-1].hash,
                              log[i].action)

-----------------------------------------------------------------------------
Init ==
  /\ lock = NoProc
  /\ auditLog = <<Chained(Genesis, Act("initialized"))>>
  /\ metadata = {}
  /\ purgeRunning = FALSE
  /\ purgeThread = NoProc
  /\ pc = [p \in Procs |-> IF p \in Loops THEN "unborn" ELSE "idle"]
  /\ entry = [p \in Procs |-> Act("operation")]
  /\ prevHash = [p \in Procs |-> Genesis]
  /\ ops = 0
  /\ cycles = 0
  /\ stored = 0

Call(c) == pc[c] = "idle" /\ ops < MaxOps /\ ops' = ops + 1

\* The caller goes on to _add_audit_entry(action).
GoAudit(p, action) ==
  /\ pc' = [pc EXCEPT ![p] = "audit"]
  /\ entry' = [entry EXCEPT ![p] = action]

-----------------------------------------------------------------------------
(* _add_audit_entry: take the lock and read the chain head, then append    *)
(* and release.                                                            *)

AddAuditEntryUnlocked(p) ==
  /\ pc[p] = "audit"
  /\ lock' = p
  /\ prevHash' = [prevHash EXCEPT ![p] = ChainHead(auditLog)]
  /\ pc' = [pc EXCEPT ![p] = "appending"]
  /\ UNCHANGED <<auditLog, metadata, purgeRunning, purgeThread, entry, bookkeeping>>

AddAuditEntry(p) ==
  /\ pc[p] = "audit"
  /\ lock = NoProc
  /\ lock' = p
  /\ prevHash' = [prevHash EXCEPT ![p] = ChainHead(auditLog)]
  /\ pc' = [pc EXCEPT ![p] = "appending"]
  /\ UNCHANGED <<auditLog, metadata, purgeRunning, purgeThread, entry, bookkeeping>>

\* Mutant: the entry is appended and the thread waits to append it again.
AppendEntryAgain(p) ==
  /\ pc[p] = "appending"
  /\ auditLog' = Append(auditLog, Chained(prevHash[p], entry[p]))
  /\ lock' = NoProc
  /\ pc' = [pc EXCEPT ![p] = "audit"]
  /\ UNCHANGED <<metadata, purgeRunning, purgeThread, entry, prevHash, bookkeeping>>

\* A caller returns from its method; the purge loop goes back to its test.
AppendEntry(p) ==
  /\ pc[p] = "appending"
  /\ auditLog' = Append(auditLog, Chained(prevHash[p], entry[p]))
  /\ lock' = NoProc
  /\ pc' = [pc EXCEPT ![p] = IF p \in Loops THEN "test" ELSE "idle"]
  /\ UNCHANGED <<metadata, purgeRunning, purgeThread, entry, prevHash, bookkeeping>>

-----------------------------------------------------------------------------
(* Public methods whose only effect is an audit entry (encrypt, decrypt,   *)
(* verify_no_persistence), and the metadata.                               *)

AuditedOperation(c) ==
  /\ Call(c)
  /\ GoAudit(c, Act("operation"))
  /\ UNCHANGED <<lock, auditLog, metadata, purgeRunning, purgeThread, prevHash,
                 cycles, stored>>

Encrypt(c) == AuditedOperation(c)

Decrypt(c) == AuditedOperation(c)

VerifyNoPersistence(c) == AuditedOperation(c)

StoreMetadata(c, k) ==
  /\ Call(c)
  /\ lock = NoProc
  /\ metadata' = metadata \union {k}
  /\ stored' = IF k \in metadata THEN stored ELSE stored + 1
  /\ UNCHANGED <<lock, auditLog, purgeRunning, purgeThread, pc, entry, prevHash,
                 cycles>>

-----------------------------------------------------------------------------
(* execute_purge: the metadata is counted and cleared under the lock, the  *)
(* audit entry with that count is added in a second critical section.      *)

ExecutePurge(c) ==
  /\ Call(c)
  /\ pc' = [pc EXCEPT ![c] = "purge"]
  /\ UNCHANGED <<lock, auditLog, metadata, purgeRunning, purgeThread, entry,
                 prevHash, cycles, stored>>

\* Mutant: the count is taken after the clear.
ClearThenCount(p) ==
  /\ pc[p] = "purge"
  /\ lock = NoProc
  /\ metadata' = {}
  /\ GoAudit(p, Purged(0))
  /\ UNCHANGED <<lock, auditLog, purgeRunning, purgeThread, prevHash, bookkeeping>>

\* Mutant: clear() is skipped.
CountOnly(p) ==
  /\ pc[p] = "purge"
  /\ lock = NoProc
  /\ GoAudit(p, Purged(0))
  /\ UNCHANGED <<lock, auditLog, metadata, purgeRunning, purgeThread, prevHash,
                 bookkeeping>>

ClearMetadata(p) ==
  /\ pc[p] = "purge"
  /\ lock = NoProc
  /\ metadata' = {}
  /\ GoAudit(p, Purged(Cardinality(metadata)))
  /\ UNCHANGED <<lock, auditLog, purgeRunning, purgeThread, prevHash, bookkeeping>>

-----------------------------------------------------------------------------
(* schedule_purge tests the flag, sets it, creates the thread and adds the *)
(* entry, all without the lock.                                            *)

SchedulePurge(c) ==
  /\ c \in Managers
  /\ Call(c)
  /\ pc' = [pc EXCEPT ![c] = IF purgeRunning THEN "idle" ELSE "arm"]
  /\ UNCHANGED <<lock, auditLog, metadata, purgeRunning, purgeThread, entry,
                 prevHash, cycles, stored>>

ArmPurge(c) ==
  /\ pc[c] = "arm"
  /\ purgeRunning' = TRUE
  /\ pc' = [pc EXCEPT ![c] = "spawn"]
  /\ UNCHANGED <<lock, auditLog, metadata, purgeThread, entry, prevHash, bookkeeping>>

SpawnLoop(c, l) ==
  /\ pc[c] = "spawn"
  /\ pc[l] = "unborn"
  /\ purgeThread' = l
  /\ pc' = [pc EXCEPT ![c] = "audit", ![l] = "test"]
  /\ entry' = [entry EXCEPT ![c] = Act("scheduled")]
  /\ UNCHANGED <<lock, auditLog, metadata, purgeRunning, prevHash, bookkeeping>>

(* stop_purge clears the flag, joins the thread for at most five seconds   *)
(* and adds its entry.                                                     *)

StopPurge(c) ==
  /\ c \in Managers
  /\ Call(c)
  /\ purgeRunning' = FALSE
  /\ pc' = [pc EXCEPT ![c] = "join"]
  /\ UNCHANGED <<lock, auditLog, metadata, purgeThread, entry, prevHash, cycles, stored>>

\* get_status holds the lock for ever (see GetStatus below).
LockLost == \E c \in Callers : lock = c /\ pc[c] = "status"

\* Five seconds pass without the thread ending only if it is in its sleep of
\* interval_seconds or waits for a lock that is never released.
JoinTimesOut(l) ==
  \/ pc[l] = "sleep"
  \/ pc[l] \in {"purge", "audit"} /\ LockLost

JoinPurgeThread(c) ==
  /\ pc[c] = "join"
  /\ \/ purgeThread = NoProc
     \/ purgeThread \in Loops /\ (pc[purgeThread] = "dead" \/ JoinTimesOut(purgeThread))
  /\ GoAudit(c, Act("stopped"))
  /\ UNCHANGED <<lock, auditLog, metadata, purgeRunning, purgeThread, prevHash,
                 bookkeeping>>

-----------------------------------------------------------------------------
(* _purge_loop: test the flag, sleep, test it again, purge.                *)

\* Mutant: the loop is endless, only its purge depends on the flag.
LoopTestEndless(l) ==
  /\ pc[l] = "test"
  /\ pc' = [pc EXCEPT ![l] = "sleep"]
  /\ UNCHANGED <<lock, auditLog, metadata, purgeRunning, purgeThread, entry,
                 prevHash, bookkeeping>>

LoopTest(l) ==
  /\ pc[l] = "test"
  /\ pc' = [pc EXCEPT ![l] = IF purgeRunning THEN "sleep" ELSE "dead"]
  /\ UNCHANGED <<lock, auditLog, metadata, purgeRunning, purgeThread, entry,
                 prevHash, bookkeeping>>

\* An interval that ends in a purge counts towards the bound.
LoopWake(l) ==
  /\ pc[l] = "sleep"
  /\ purgeRunning => cycles < MaxCycles
  /\ cycles' = IF purgeRunning THEN cycles + 1 ELSE cycles
  /\ pc' = [pc EXCEPT ![l] = IF purgeRunning THEN "purge" ELSE "test"]
  /\ UNCHANGED <<lock, auditLog, metadata, purgeRunning, purgeThread, entry,
                 prevHash, ops, stored>>

-----------------------------------------------------------------------------
(* get_status takes the lock and then calls verify_audit_chain, which      *)
(* takes the same non-reentrant lock: the caller waits for itself, so no   *)
(* step of it follows and the lock is never released.                      *)

GetStatus(c) ==
  /\ c \in StatusCallers
  /\ Call(c)
  /\ lock = NoProc
  /\ lock' = c
  /\ pc' = [pc EXCEPT ![c] = "status"]
  /\ UNCHANGED <<auditLog, metadata, purgeRunning, purgeThread, entry, prevHash,
                 cycles, stored>>

-----------------------------------------------------------------------------
CallerStep(c) ==
  \/ Encrypt(c)
  \/ Decrypt(c)
  \/ VerifyNoPersistence(c)
  \/ \E k \in Keys : StoreMetadata(c, k)
  \/ ExecutePurge(c)
  \/ SchedulePurge(c)
  \/ ArmPurge(c)
  \/ \E l \in Loops : SpawnLoop(c, l)
  \/ StopPurge(c)
  \/ JoinPurgeThread(c)
  \/ GetStatus(c)

SharedStep(p) == AddAuditEntry(p) \/ AppendEntry(p) \/ ClearMetadata(p)

LoopStep(l) == LoopTest(l) \/ LoopWake(l)

Next ==
  \/ \E c \in Callers : CallerStep(c)
  \/ \E l \in Loops : LoopStep(l)
  \/ \E p \in Procs : SharedStep(p)

(* Calls are made at the callers' will; a call once made goes on, the      *)
(* loops run, and a thread that waits for a lock that becomes free again   *)
(* and again gets it in the end (every section is short, and the purge     *)
(* competes once in an interval).                                          *)
Fairness ==
  /\ \A c \in Callers :
       WF_vars(ArmPurge(c) \/ (\E l \in Loops : SpawnLoop(c, l)) \/ JoinPurgeThread(c))
  /\ \A l \in Loops : WF_vars(LoopStep(l))
  /\ \A p \in Procs : SF_vars(SharedStep(p))

Spec == Init /\ [][Next]_vars

FairSpec == Spec /\ Fairness

-----------------------------------------------------------------------------
ControlPoints == {"unborn", "idle", "audit", "appending", "purge", "arm", "spawn",
                  "join", "status", "test", "sleep", "dead"}

TypeOK ==
  /\ lock \in Procs \union {NoProc}
  /\ auditLog \in Seq(AuditEntry)
  /\ metadata \in SUBSET Keys
  /\ purgeRunning \in BOOLEAN
  /\ purgeThread \in Loops \union {NoProc}
  /\ pc \in [Procs -> ControlPoints]
  /\ entry \in [Procs -> Action]
  /\ prevHash \in [Procs -> Seq(Action)]
  /\ ops \in Nat /\ cycles \in Nat /\ stored \in Nat

\* The audit chain verifies in every state, whatever threads append to it at
\* the same time (verify_audit_chain over what _add_audit_entry built).
ChainIntact == VerifyChain(auditLog)

InFlight == {p \in Procs : pc[p] \in {"audit", "appending"}}

\* The sum of the values of f, naturals, as the size of their disjoint union.
Units(f) == UNION {{x} \X (1..f[x]) : x \in DOMAIN f}

Total(f) == Cardinality(Units(f))

ClearedInLog == Total([i \in DOMAIN auditLog |-> auditLog[i].action.cleared])

ClearedInFlight == Total([p \in Procs |-> IF p \in InFlight THEN entry[p].cleared ELSE 0])

\* Nothing leaves the metadata unaccounted for: what was stored is still held,
\* or is counted by a purge entry of the log, or by one about to be appended,
\* although execute_purge clears and reports in two critical sections.
PurgeAccounted == stored = Cardinality(metadata) + ClearedInLog + ClearedInFlight

\* The audit log is append-only; a purge never touches it (execute_purge).
AuditAppendOnly ==
  [][/\ Len(auditLog') >= Len(auditLog)
     /\ SubSeq(auditLog', 1, Len(auditLog)) = auditLog]_auditLog

Ledger == INSTANCE AuditLedger WITH
  held <- Cardinality(metadata),
  log  <- [i \in DOMAIN auditLog |-> auditLog[i].action],
  due  <- [p \in Procs |-> IF p \in InFlight THEN {entry[p]} ELSE {}]

\* The service keeps the books of AuditLedger, as if every method wrote its
\* entry in one step: each audited call and each purge leads to one entry, with
\* what it did, also when its two critical sections interleave with others.
ImplementsLedger == Ledger!Spec

Rescheduling(m) ==
  \/ pc[m] = "spawn"
  \/ pc[m] \in {"audit", "appending"} /\ entry[m].kind = "scheduled"

ScheduleMarks == {i \in DOMAIN auditLog : auditLog[i].action.kind \in {"scheduled", "stopped"}}

CycleStopped ==
  /\ ScheduleMarks # {}
  /\ auditLog[Max(ScheduleMarks)].action.kind = "stopped"
  /\ \A m \in Managers : ~Rescheduling(m)

\* Once the log says that the purge cycle is stopped, no background thread is
\* purging, until it is scheduled again (stop_purge).
StoppedIsQuiet ==
  CycleStopped => \A l \in Loops : pc[l] \notin {"purge", "audit", "appending"}

\* At most one purge thread is alive (schedule_purge starts one thread and
\* refuses when one is running).
OnePurgeThread ==
  Cardinality({l \in Loops : pc[l] \notin {"unborn", "dead"}}) <= 1

PurgeAwaited ==
  /\ metadata # {} /\ purgeRunning
  /\ cycles < MaxCycles
  /\ \E l \in Loops : pc[l] \notin {"unborn", "dead"}

\* While the cycle is scheduled, metadata that is held is purged in the end
\* (_purge_loop), as long as the bound lets another interval elapse.
MetadataIsPurged == PurgeAwaited ~> (metadata = {} \/ ~purgeRunning)

\* The same, unless a caller blocks in get_status: neither stops and restarts
\* of the cycle nor a second purge thread keep metadata from being purged.
PurgedUnlessBlocked == PurgeAwaited ~> (metadata = {} \/ ~purgeRunning \/ LockLost)

\* Once the cycle is stopped for good every purge thread ends, also one that a
\* racing schedule_purge started next to another, or that outlived the join of
\* stop_purge and was revived by a later schedule.
LoopsEnd ==
  <>[](~purgeRunning /\ ~LockLost) => <>[](\A l \in Loops : pc[l] \in {"unborn", "dead"})
=============================================================================
