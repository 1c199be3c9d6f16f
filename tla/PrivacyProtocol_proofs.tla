----------------------- MODULE PrivacyProtocol_proofs -----------------------
(***************************************************************************)
(* Theorems about PrivacyProtocol, for any number of callers, purge        *)
(* threads and keys: types, mutual exclusion of the audit section,         *)
(* integrity of the hash chain, the refinement of AuditLedger, and the     *)
(* books of the purges.                                                    *)
(***************************************************************************)
EXTENDS PrivacyProtocol, FiniteSetTheorems, TLAPS

LEMMA ActTyped ==
  ASSUME NEW k \in {"initialized", "operation", "scheduled", "stopped", "purged"}
  PROVE  Act(k) \in Action
  BY DEF Act, Action

LEMMA PurgedTyped == ASSUME NEW n \in Nat PROVE Purged(n) \in Action
  BY DEF Purged, Action

LEMMA ChainedTyped ==
  ASSUME NEW prev \in Seq(Action), NEW a \in Action
  PROVE  Chained(prev, a) \in AuditEntry
  BY DEF Chained, AuditEntry, ComputeHash

LEMMA ChainHeadTyped ==
  ASSUME NEW log \in Seq(AuditEntry)
  PROVE  ChainHead(log) \in Seq(Action)
  <1>1. CASE log = << >>
    BY <1>1 DEF ChainHead, Genesis
  <1>2. CASE log # << >>
    <2>1. Len(log) \in 1..Len(log)
      BY <1>2
    <2>2. log[Len(log)] \in AuditEntry
      BY <2>1
    <2>3. QED BY <1>2, <2>2 DEF ChainHead, AuditEntry
  <1>3. QED BY <1>1, <1>2

LEMMA AppendKeepsChain ==
  ASSUME NEW log \in Seq(AuditEntry), VerifyChain(log), NEW a \in Action
  PROVE  VerifyChain(Append(log, Chained(ChainHead(log), a)))
  <1> DEFINE e == Chained(ChainHead(log), a)
             new == Append(log, e)
  <1>0. e \in AuditEntry
    BY ChainHeadTyped, ChainedTyped
  <1>1. Len(new) = Len(log) + 1 /\ new[Len(log) + 1] = e
        /\ \A i \in 1..Len(log) : new[i] = log[i]
    BY <1>0
  <1>2. ASSUME NEW i \in 1..Len(log)
        PROVE  new[i].hash = ComputeHash(IF i = 1 THEN Genesis ELSE new[i-1].hash,
                                         new[i].action)
    <2>1. i # 1 => i - 1 \in 1..Len(log)
      OBVIOUS
    <2>2. QED BY <1>1, <2>1 DEF VerifyChain
  <1>3. e.hash = ComputeHash(ChainHead(log), e.action)
    BY DEF Chained
  <1>4. ChainHead(log) = IF Len(log) + 1 = 1 THEN Genesis ELSE new[Len(log)].hash
    BY <1>1 DEF ChainHead
  <1>5. QED
    BY <1>1, <1>2, <1>3, <1>4 DEF VerifyChain

LEMMA Typing == Spec => []TypeOK
  <1>1. Init => TypeOK
    <2> SUFFICES ASSUME Init PROVE TypeOK OBVIOUS
    <2>1. Act("initialized") \in Action /\ Act("operation") \in Action
      BY ActTyped
    <2>2. Genesis \in Seq(Action)
      BY DEF Genesis
    <2>3. Chained(Genesis, Act("initialized")) \in AuditEntry
      BY <2>1, <2>2, ChainedTyped
    <2>4. auditLog \in Seq(AuditEntry)
      BY <2>3 DEF Init
    <2>5. /\ pc \in [Procs -> ControlPoints]
          /\ entry \in [Procs -> Action]
          /\ prevHash \in [Procs -> Seq(Action)]
      BY <2>1, <2>2 DEF Init, ControlPoints
    <2>6. QED
      BY <2>4, <2>5 DEF Init, TypeOK
  <1>2. TypeOK /\ [Next]_vars => TypeOK'
    <2> SUFFICES ASSUME TypeOK, [Next]_vars PROVE TypeOK' OBVIOUS
    <2> USE DEF TypeOK, ControlPoints, bookkeeping
    <2>a. Callers \subseteq Procs /\ Loops \subseteq Procs
      BY DEF Procs
    <2>1. ASSUME NEW c \in Callers, AuditedOperation(c) PROVE TypeOK'
      BY <2>a, <2>1, ActTyped, CallersAssumption DEF AuditedOperation, Call, GoAudit
    <2>2. ASSUME NEW c \in Callers, NEW k \in Keys, StoreMetadata(c, k) PROVE TypeOK'
      BY <2>a, <2>2, CallersAssumption DEF StoreMetadata, Call
    <2>3. ASSUME NEW c \in Callers, ExecutePurge(c) PROVE TypeOK'
      BY <2>a, <2>3, CallersAssumption DEF ExecutePurge, Call
    <2>4. ASSUME NEW c \in Callers, SchedulePurge(c) PROVE TypeOK'
      BY <2>a, <2>4, CallersAssumption DEF SchedulePurge, Call
    <2>5. ASSUME NEW c \in Callers, ArmPurge(c) PROVE TypeOK'
      BY <2>a, <2>5 DEF ArmPurge
    <2>6. ASSUME NEW c \in Callers, NEW l \in Loops, SpawnLoop(c, l) PROVE TypeOK'
      <3>1. Act("scheduled") \in Action
        BY ActTyped
      <3>2. pc' \in [Procs -> ControlPoints]
        BY <2>a, <2>6 DEF SpawnLoop
      <3>3. QED BY <2>a, <2>6, <3>1, <3>2 DEF SpawnLoop
    <2>7. ASSUME NEW c \in Callers, StopPurge(c) PROVE TypeOK'
      <3>1. purgeRunning' \in BOOLEAN
        BY <2>7 DEF StopPurge
      <3>2. pc' \in [Procs -> ControlPoints] /\ ops' \in Nat
        BY <2>a, <2>7, CallersAssumption DEF StopPurge, Call
      <3>3. QED BY <2>7, <3>1, <3>2 DEF StopPurge
    <2>8. ASSUME NEW c \in Callers, JoinPurgeThread(c) PROVE TypeOK'
      BY <2>a, <2>8, ActTyped DEF JoinPurgeThread, GoAudit
    <2>9. ASSUME NEW c \in Callers, GetStatus(c) PROVE TypeOK'
      BY <2>a, <2>9, CallersAssumption DEF GetStatus, Call
    <2>10. ASSUME NEW l \in Loops, LoopTest(l) PROVE TypeOK'
      BY <2>a, <2>10 DEF LoopTest
    <2>11. ASSUME NEW l \in Loops, LoopWake(l) PROVE TypeOK'
      BY <2>a, <2>11, CallersAssumption DEF LoopWake
    <2>12. ASSUME NEW p \in Procs, AddAuditEntry(p) PROVE TypeOK'
      <3>1. ChainHead(auditLog) \in Seq(Action)
        BY ChainHeadTyped
      <3>2. QED BY <2>12, <3>1 DEF AddAuditEntry
    <2>13. ASSUME NEW p \in Procs, AppendEntry(p) PROVE TypeOK'
      <3>1. Chained(prevHash[p], entry[p]) \in AuditEntry
        BY ChainedTyped
      <3>2. QED BY <2>13, <3>1 DEF AppendEntry
    <2>14. ASSUME NEW p \in Procs, ClearMetadata(p) PROVE TypeOK'
      <3>1. IsFiniteSet(metadata)
        BY CallersAssumption, FS_Subset
      <3>2. Purged(Cardinality(metadata)) \in Action
        BY <3>1, FS_CardinalityType, PurgedTyped
      <3>3. QED BY <2>14, <3>2 DEF ClearMetadata, GoAudit
    <2>15. CASE UNCHANGED vars
      BY <2>15 DEF vars
    <2>16. QED
      BY <2>1, <2>2, <2>3, <2>4, <2>5, <2>6, <2>7, <2>8, <2>9, <2>10, <2>11,
         <2>12, <2>13, <2>14, <2>15 DEF Next, CallerStep, LoopStep, SharedStep,
         Encrypt, Decrypt, VerifyNoPersistence
  <1>3. QED
    BY <1>1, <1>2, PTL DEF Spec

-----------------------------------------------------------------------------
(* The thread that is appending holds the lock and remembers the chain     *)
(* head as it still is: this is what makes the chain inductive.            *)

AppenderInv ==
  \A p \in Procs : pc[p] = "appending" => lock = p /\ prevHash[p] = ChainHead(auditLog)

ChainInv == AppenderInv /\ ChainIntact

LEMMA ChainInductive == TypeOK /\ ChainInv /\ [Next]_vars => ChainInv'
  <1> SUFFICES ASSUME TypeOK, ChainInv, [Next]_vars PROVE ChainInv' OBVIOUS
  <1>a. Callers \subseteq Procs /\ Loops \subseteq Procs /\ NoProc \notin Procs
    BY CallersAssumption DEF Procs
  <1>b. ASSUME UNCHANGED auditLog,
               \A p \in Procs : pc'[p] = "appending" =>
                 pc[p] = "appending" /\ prevHash'[p] = prevHash[p] /\ lock' = lock
        PROVE  ChainInv'
    BY <1>b DEF ChainInv, AppenderInv, ChainIntact
  <1> USE DEF bookkeeping
  <1>1. ASSUME NEW c \in Callers, CallerStep(c) PROVE ChainInv'
    <2>1. CASE AuditedOperation(c)
      BY <2>1, <1>a, <1>b DEF AuditedOperation, Call, GoAudit, TypeOK
    <2>2. ASSUME NEW k \in Keys, StoreMetadata(c, k) PROVE ChainInv'
      BY <2>2, <1>a, <1>b DEF StoreMetadata
    <2>3. CASE ExecutePurge(c)
      BY <2>3, <1>a, <1>b DEF ExecutePurge, Call, TypeOK
    <2>4. CASE SchedulePurge(c)
      BY <2>4, <1>a, <1>b DEF SchedulePurge, Call, TypeOK
    <2>5. CASE ArmPurge(c)
      BY <2>5, <1>a, <1>b DEF ArmPurge, TypeOK
    <2>6. ASSUME NEW l \in Loops, SpawnLoop(c, l) PROVE ChainInv'
      BY <2>6, <1>a, <1>b DEF SpawnLoop, TypeOK
    <2>7. CASE StopPurge(c)
      BY <2>7, <1>a, <1>b DEF StopPurge, Call, TypeOK
    <2>8. CASE JoinPurgeThread(c)
      BY <2>8, <1>a, <1>b DEF JoinPurgeThread, GoAudit, TypeOK
    <2>9. CASE GetStatus(c)
      <3>1. \A p \in Procs : pc[p] # "appending"
        BY <2>9, <1>a DEF GetStatus, ChainInv, AppenderInv
      <3>2. \A p \in Procs : pc'[p] # "appending"
        BY <2>9, <1>a, <3>1 DEF GetStatus, TypeOK
      <3>3. QED BY <2>9, <1>b, <3>2 DEF GetStatus
    <2>10. QED
      BY <1>1, <2>1, <2>2, <2>3, <2>4, <2>5, <2>6, <2>7, <2>8, <2>9
         DEF CallerStep, Encrypt, Decrypt, VerifyNoPersistence
  <1>2. ASSUME NEW l \in Loops, LoopStep(l) PROVE ChainInv'
    <2>1. CASE LoopTest(l)
      BY <2>1, <1>a, <1>b DEF LoopTest, TypeOK
    <2>2. CASE LoopWake(l)
      BY <2>2, <1>a, <1>b DEF LoopWake, TypeOK
    <2>3. QED BY <1>2, <2>1, <2>2 DEF LoopStep
  <1>3. ASSUME NEW p \in Procs, AddAuditEntry(p) PROVE ChainInv'
    <2>1. \A q \in Procs : pc[q] # "appending"
      BY <1>3, <1>a DEF AddAuditEntry, ChainInv, AppenderInv
    <2>2. AppenderInv'
      BY <1>3, <2>1 DEF AddAuditEntry, AppenderInv, TypeOK
    <2>3. QED BY <1>3, <2>2 DEF AddAuditEntry, ChainInv, ChainIntact
  <1>4. ASSUME NEW p \in Procs, AppendEntry(p) PROVE ChainInv'
    <2>1. lock = p /\ prevHash[p] = ChainHead(auditLog)
      BY <1>4 DEF AppendEntry, ChainInv, AppenderInv
    <2>2. \A q \in Procs : pc'[q] # "appending"
      BY <1>4, <2>1 DEF AppendEntry, ChainInv, AppenderInv, TypeOK
    <2>3. ChainIntact'
      BY <1>4, <2>1, AppendKeepsChain DEF AppendEntry, ChainInv, ChainIntact, TypeOK
    <2>4. QED BY <2>2, <2>3 DEF ChainInv, AppenderInv
  <1>5. ASSUME NEW p \in Procs, ClearMetadata(p) PROVE ChainInv'
    BY <1>5, <1>b DEF ClearMetadata, GoAudit, TypeOK
  <1>6. CASE UNCHANGED vars
    BY <1>6, <1>b DEF vars
  <1>7. QED
    BY <1>1, <1>2, <1>3, <1>4, <1>5, <1>6 DEF Next, SharedStep

\* The audit chain verifies in every reachable state, for any number of
\* threads: _add_audit_entry's read of the chain head and its append are not
\* separated by another append.
THEOREM ChainIntegrity == Spec => []ChainIntact
  <1>1. Init => ChainInv
    <2> SUFFICES ASSUME Init PROVE ChainInv OBVIOUS
    <2>1. AppenderInv
      BY DEF Init, AppenderInv
    <2>2. ChainIntact
      BY DEF Init, ChainIntact, VerifyChain, Chained
    <2>3. QED BY <2>1, <2>2 DEF ChainInv
  <1>2. ChainInv => ChainIntact
    BY DEF ChainInv
  <1>3. QED
    BY <1>1, <1>2, ChainInductive, Typing, PTL DEF Spec

\* The audit log only ever grows at its end (append-only audit log), for any
\* number of threads.
THEOREM AppendOnly == Spec => AuditAppendOnly
  <1>1. ASSUME TypeOK, [Next]_vars
        PROVE  [/\ Len(auditLog') >= Len(auditLog)
                /\ SubSeq(auditLog', 1, Len(auditLog)) = auditLog]_auditLog
    <2>1. ASSUME NEW p \in Procs, AppendEntry(p)
          PROVE  /\ Len(auditLog') >= Len(auditLog)
                 /\ SubSeq(auditLog', 1, Len(auditLog)) = auditLog
      BY <1>1, <2>1, ChainedTyped DEF AppendEntry, TypeOK
    <2>2. CASE \A p \in Procs : ~AppendEntry(p)
      BY <1>1, <2>2 DEF Next, CallerStep, LoopStep, SharedStep, vars, bookkeeping,
         AuditedOperation, Encrypt, Decrypt, VerifyNoPersistence, StoreMetadata, ExecutePurge, SchedulePurge, ArmPurge,
         SpawnLoop, StopPurge, JoinPurgeThread, GetStatus, LoopTest, LoopWake,
         AddAuditEntry, ClearMetadata
    <2>3. QED BY <2>1, <2>2
  <1>2. QED
    BY <1>1, Typing, PTL DEF Spec, AuditAppendOnly
-----------------------------------------------------------------------------
(* PrivacyProtocol implements AuditLedger.                                 *)

Actions == [i \in DOMAIN auditLog |-> auditLog[i].action]
Due == [p \in Procs |-> IF p \in InFlight THEN {entry[p]} ELSE {}]

LEMMA AppendMapped ==
  ASSUME NEW log \in Seq(AuditEntry), NEW e \in AuditEntry
  PROVE  [i \in DOMAIN Append(log, e) |-> Append(log, e)[i].action]
           = Append([i \in DOMAIN log |-> log[i].action], e.action)
  <1> DEFINE old == [i \in DOMAIN log |-> log[i].action]
             new == [i \in DOMAIN Append(log, e) |-> Append(log, e)[i].action]
  <1>1. \A i \in DOMAIN log : log[i].action \in Action
    <2>1. \A i \in DOMAIN log : log[i] \in AuditEntry
      OBVIOUS
    <2>2. QED BY <2>1 DEF AuditEntry
  <1>2. old \in Seq(Action) /\ Len(old) = Len(log)
    BY <1>1
  <1>3. e.action \in Action
    BY DEF AuditEntry
  <1>4. new \in Seq(Action) /\ Len(new) = Len(log) + 1
    <2>1. Append(log, e) \in Seq(AuditEntry) /\ Len(Append(log, e)) = Len(log) + 1
      OBVIOUS
    <2>2. \A i \in DOMAIN Append(log, e) : Append(log, e)[i] \in AuditEntry
      BY <2>1
    <2>3. \A i \in DOMAIN Append(log, e) : Append(log, e)[i].action \in Action
      BY <2>2 DEF AuditEntry
    <2>4. QED BY <2>1, <2>3
  <1>5. \A i \in 1..Len(log) + 1 : new[i] = Append(old, e.action)[i]
    BY <1>2, <1>4
  <1>6. QED BY <1>2, <1>3, <1>4, <1>5

\* Every behaviour of the service is one of the ledger: a purge takes all of the
\* metadata and leads to exactly one entry with its count, any other audited call
\* to exactly one entry, whatever locks and interleavings lie in between.
THEOREM LedgerImplemented == Spec => ImplementsLedger
  <1>1. Init => Ledger!Init
    <2> SUFFICES ASSUME Init PROVE Ledger!Init OBVIOUS
    <2>1. Actions = <<Act("initialized")>>
      BY DEF Init, Actions, Chained
    <2>2. Due = [p \in Procs |-> {}]
      BY DEF Init, Due, InFlight
    <2>3. Cardinality(metadata) = 0
      BY FS_EmptySet DEF Init
    <2>4. QED BY <2>1, <2>2, <2>3 DEF Ledger!Init, Actions, Due, Act
  <1>2. ASSUME TypeOK, ChainInv, [Next]_vars
        PROVE  [Ledger!Next]_(Ledger!vars)
    <2> USE <1>2
    <2>a. Callers \subseteq Procs /\ Loops \subseteq Procs /\ Callers \intersect Loops = {}
      BY CallersAssumption DEF Procs
    <2>b. ASSUME UNCHANGED <<metadata, auditLog>>,
                 \A p \in Procs : (p \in InFlight <=> p \in InFlight')
                                    /\ (p \in InFlight => entry'[p] = entry[p])
          PROVE  UNCHANGED Ledger!vars
      BY <2>b DEF Ledger!vars
    <2>c. ASSUME NEW p \in Procs, NEW kind \in {"operation", "scheduled", "stopped"},
                 UNCHANGED <<metadata, auditLog>>, p \notin InFlight,
                 entry' = [entry EXCEPT ![p] = Act(kind)],
                 \A q \in Procs : q \in InFlight' <=> q \in InFlight \/ q = p
          PROVE  Ledger!Operate(p)
      <3>1. Due[p] = {} /\ Due' = [Due EXCEPT ![p] = {Act(kind)}]
        BY <2>c DEF Due, TypeOK
      <3>2. QED BY <2>c, <3>1 DEF Due, Ledger!Operate, Ledger!Owe, Act
    <2>1. ASSUME NEW c \in Callers, AuditedOperation(c) PROVE Ledger!Operate(c)
      <3>1. c \notin InFlight /\ \A q \in Procs : q \in InFlight' <=> q \in InFlight \/ q = c
        BY <2>a, <2>1 DEF AuditedOperation, Call, GoAudit, InFlight, TypeOK
      <3>2. QED BY <2>a, <2>1, <2>c, <3>1 DEF AuditedOperation, GoAudit
    <2>2. ASSUME NEW c \in Callers, NEW k \in Keys, StoreMetadata(c, k)
          PROVE  [Ledger!Store]_(Ledger!vars)
      <3>1. IsFiniteSet(metadata)
        BY CallersAssumption, FS_Subset DEF TypeOK
      <3>2. \/ Cardinality(metadata') = Cardinality(metadata)
            \/ Cardinality(metadata') = Cardinality(metadata) + 1
        <4>1. metadata' = metadata \union {k}
          BY <2>2 DEF StoreMetadata
        <4>2. QED BY <3>1, <4>1, FS_AddElement
      <3>3. UNCHANGED <<auditLog, pc, entry>>
        BY <2>2 DEF StoreMetadata
      <3>4. QED BY <3>2, <3>3 DEF Ledger!Store, Ledger!vars, InFlight
    <2>3. ASSUME NEW c \in Callers,
                 \/ ExecutePurge(c) \/ SchedulePurge(c) \/ ArmPurge(c)
                 \/ StopPurge(c) \/ GetStatus(c)
          PROVE  UNCHANGED Ledger!vars
      <3>1. UNCHANGED <<metadata, auditLog, entry>>
        BY <2>3 DEF ExecutePurge, SchedulePurge, ArmPurge, StopPurge, GetStatus
      <3>2. \E x \in {"purge", "idle", "arm", "spawn", "join", "status"} :
              /\ pc[c] \in {"idle", "arm"}
              /\ pc' = [pc EXCEPT ![c] = x]
        BY <2>3 DEF ExecutePurge, SchedulePurge, ArmPurge, StopPurge, GetStatus, Call
      <3>3. QED BY <2>a, <2>b, <3>1, <3>2 DEF InFlight, TypeOK
    <2>4. ASSUME NEW c \in Callers, NEW l \in Loops, SpawnLoop(c, l)
          PROVE  Ledger!Operate(c)
      <3>1. c \notin InFlight /\ \A q \in Procs : q \in InFlight' <=> q \in InFlight \/ q = c
        BY <2>a, <2>4 DEF SpawnLoop, InFlight, TypeOK
      <3>2. QED BY <2>a, <2>4, <2>c, <3>1 DEF SpawnLoop, bookkeeping
    <2>5. ASSUME NEW c \in Callers, JoinPurgeThread(c) PROVE Ledger!Operate(c)
      <3>1. c \notin InFlight /\ \A q \in Procs : q \in InFlight' <=> q \in InFlight \/ q = c
        BY <2>a, <2>5 DEF JoinPurgeThread, GoAudit, InFlight, TypeOK
      <3>2. QED BY <2>a, <2>5, <2>c, <3>1 DEF JoinPurgeThread, GoAudit, bookkeeping
    <2>6. ASSUME NEW l \in Loops, LoopStep(l) PROVE UNCHANGED Ledger!vars
      <3>1. UNCHANGED <<metadata, auditLog, entry>>
        BY <2>6 DEF LoopStep, LoopTest, LoopWake
      <3>2. \E x \in {"purge", "test", "sleep", "dead"} :
              pc[l] \in {"test", "sleep"} /\ pc' = [pc EXCEPT ![l] = x]
        BY <2>6 DEF LoopStep, LoopTest, LoopWake
      <3>3. QED BY <2>a, <2>b, <3>1, <3>2 DEF InFlight, TypeOK
    <2>7. ASSUME NEW p \in Procs, AddAuditEntry(p) PROVE UNCHANGED Ledger!vars
      BY <2>7, <2>b DEF AddAuditEntry, InFlight, TypeOK
    <2>8. ASSUME NEW p \in Procs, AppendEntry(p) PROVE Ledger!Settle(p)
      <3>1. Chained(prevHash[p], entry[p]) \in AuditEntry
        BY ChainedTyped DEF TypeOK
      <3>2. Actions' = Append(Actions, entry[p])
        BY <2>8, <3>1, AppendMapped DEF AppendEntry, Actions, Chained, TypeOK
      <3>3. Due[p] = {entry[p]}
        BY <2>8 DEF AppendEntry, Due, InFlight
      <3>4. \A q \in Procs : q \in InFlight' <=> q \in InFlight /\ q # p
        BY <2>8 DEF AppendEntry, InFlight, TypeOK
      <3>5. Due' = [Due EXCEPT ![p] = {}]
        BY <2>8, <3>4 DEF AppendEntry, Due
      <3>6. QED BY <2>8, <3>2, <3>3, <3>5 DEF AppendEntry, Ledger!Settle, Actions, Due
    <2>9. ASSUME NEW p \in Procs, ClearMetadata(p) PROVE Ledger!Purge(p)
      <3>1. p \notin InFlight /\ \A q \in Procs : q \in InFlight' <=> q \in InFlight \/ q = p
        BY <2>9 DEF ClearMetadata, GoAudit, InFlight, TypeOK
      <3>2. Due[p] = {} /\ Due' = [Due EXCEPT ![p] = {Purged(Cardinality(metadata))}]
        BY <2>9, <3>1 DEF ClearMetadata, GoAudit, Due, TypeOK
      <3>3. Cardinality(metadata') = 0
        BY <2>9, FS_EmptySet DEF ClearMetadata
      <3>4. QED BY <2>9, <3>2, <3>3 DEF ClearMetadata, Ledger!Purge, Ledger!Owe, Purged, Due
    <2>10. CASE UNCHANGED vars
      BY <2>10, <2>b DEF vars, InFlight
    <2>11. QED
      BY <2>a, <2>1, <2>2, <2>3, <2>4, <2>5, <2>6, <2>7, <2>8, <2>9, <2>10
         DEF Next, CallerStep, SharedStep, Encrypt, Decrypt, VerifyNoPersistence,
             Ledger!Next
  <1>3. Init => ChainInv
    BY DEF Init, ChainInv, AppenderInv, ChainIntact, VerifyChain, Chained
  <1>4. QED
    BY <1>1, <1>2, <1>3, ChainInductive, Typing, PTL DEF Spec, ImplementsLedger, Ledger!Spec

-----------------------------------------------------------------------------
(* Total is a sum: changing f at one point, where it was zero or undefined, *)
(* adds the new value there.                                                *)

LEMMA UnitsFinite ==
  ASSUME NEW D, IsFiniteSet(D), NEW f \in [D -> Nat]
  PROVE  IsFiniteSet(Units(f)) /\ Total(f) \in Nat
  <1> DEFINE g == [x \in D |-> {x} \X (1..f[x])]
             S == {{x} \X (1..f[x]) : x \in D}
  <1>1. g \in Surjection(D, S)
    BY DEF Surjection
  <1>2. IsFiniteSet(S)
    BY <1>1, FS_Surjection
  <1>3. \A x \in D : IsFiniteSet({x} \X (1..f[x]))
    <2> SUFFICES ASSUME NEW x \in D PROVE IsFiniteSet({x} \X (1..f[x])) OBVIOUS
    <2>1. IsFiniteSet({x})
      BY FS_Singleton
    <2>2. f[x] \in Int
      OBVIOUS
    <2>3. IsFiniteSet(1..f[x])
      BY <2>2, FS_Interval
    <2>4. QED BY <2>1, <2>3, FS_Product
  <1>4. \A T \in S : IsFiniteSet(T)
    BY <1>3
  <1>5. IsFiniteSet(UNION S)
    BY <1>2, <1>4, FS_UNION
  <1>6. Units(f) = UNION S
    BY DEF Units
  <1>7. QED BY <1>5, <1>6, FS_CardinalityType DEF Total

LEMMA TotalAdds ==
  ASSUME NEW D, IsFiniteSet(D), NEW x,
         NEW f \in [D -> Nat], NEW g \in [D \union {x} -> Nat],
         x \in D => f[x] = 0,
         \A y \in D : y # x => g[y] = f[y]
  PROVE  Total(g) = Total(f) + g[x]
  <1> DEFINE E == D \union {x}
  <1> DEFINE new == {x} \X (1..g[x])
  <1>1. IsFiniteSet(Units(f)) /\ Total(f) \in Nat
    BY UnitsFinite
  <1>2. g[x] \in Nat
    OBVIOUS
  <1>3. IsFiniteSet(new) /\ Cardinality(new) = g[x]
    <2>1. IsFiniteSet({x}) /\ Cardinality({x}) = 1
      BY FS_Singleton
    <2>2. IsFiniteSet(1..g[x]) /\ Cardinality(1..g[x]) = g[x]
      BY <1>2, FS_Interval
    <2>3. IsFiniteSet(new) /\ Cardinality(new) = Cardinality({x}) * Cardinality(1..g[x])
      BY <2>1, <2>2, FS_Product
    <2>4. QED BY <1>2, <2>1, <2>2, <2>3
  <1>4. \A u : u \in Units(f) <=> \E y \in D : u \in {y} \X (1..f[y])
    BY DEF Units
  <1>5. \A u : u \in Units(g) <=> \E y \in E : u \in {y} \X (1..g[y])
    BY DEF Units
  <1>6. \A y \in D : y = x => {y} \X (1..f[y]) = {}
    OBVIOUS
  <1>7. Units(g) = Units(f) \union new
    <2>1. \A y \in D : y # x => {y} \X (1..f[y]) = {y} \X (1..g[y])
      OBVIOUS
    <2>2. \A u : u \in Units(g) => u \in Units(f) \union new
      BY <1>4, <1>5, <2>1
    <2>3. \A u : u \in Units(f) => u \in Units(g)
      BY <1>4, <1>5, <1>6, <2>1
    <2>4. \A u : u \in new => u \in Units(g)
      BY <1>5
    <2>5. QED BY <2>2, <2>3, <2>4
  <1>8. Units(f) \intersect new = {}
    BY <1>4, <1>6
  <1>9. Cardinality(Units(g)) = Cardinality(Units(f)) + Cardinality(new) - Cardinality(Units(f) \intersect new)
    BY <1>1, <1>3, <1>7, FS_Union
  <1>10. Cardinality(Units(f) \intersect new) = 0
    BY <1>8, FS_EmptySet
  <1>11. QED
    BY <1>1, <1>2, <1>3, <1>9, <1>10 DEF Total

LEMMA TotalAtPoint ==
  ASSUME NEW D, IsFiniteSet(D), NEW x \in D
  PROVE  \A f, g \in [D -> Nat] :
           f[x] = 0 /\ (\A y \in D : y # x => g[y] = f[y]) => Total(g) = Total(f) + g[x]
  <1> SUFFICES ASSUME NEW f \in [D -> Nat], NEW g \in [D -> Nat],
                      f[x] = 0, \A y \in D : y # x => g[y] = f[y]
               PROVE  Total(g) = Total(f) + g[x]
    OBVIOUS
  <1>1. D = D \union {x}
    OBVIOUS
  <1>2. g \in [D \union {x} -> Nat]
    BY <1>1
  <1>3. x \in D => f[x] = 0
    OBVIOUS
  <1>4. QED BY <1>2, <1>3, TotalAdds

LEMMA TotalAtNew ==
  ASSUME NEW D, IsFiniteSet(D), NEW x, x \notin D
  PROVE  \A f \in [D -> Nat], g \in [D \union {x} -> Nat] :
           (\A y \in D : g[y] = f[y]) => Total(g) = Total(f) + g[x]
  <1> SUFFICES ASSUME NEW f \in [D -> Nat], NEW g \in [D \union {x} -> Nat],
                      \A y \in D : g[y] = f[y]
               PROVE  Total(g) = Total(f) + g[x]
    OBVIOUS
  <1>1. x \in D => f[x] = 0
    OBVIOUS
  <1>2. \A y \in D : y # x => g[y] = f[y]
    OBVIOUS
  <1>3. QED BY <1>1, <1>2, TotalAdds

LEMMA TotalAtEnd ==
  ASSUME NEW n \in Nat
  PROVE  \A f \in [1..n -> Nat], g \in [1..n+1 -> Nat] :
           (\A i \in 1..n : g[i] = f[i]) => Total(g) = Total(f) + g[n+1]
  <1>1. PICK D, m : D = 1..n /\ m = n+1
    OBVIOUS
  <1>2. IsFiniteSet(D)
    BY <1>1, FS_Interval
  <1>3. 1..n+1 = 1..n \union {n+1} /\ n+1 \notin 1..n
    OBVIOUS
  <1>4. m \notin D /\ D \union {m} = 1..n+1
    BY <1>1, <1>3
  <1>5. \A f \in [D -> Nat], g \in [D \union {m} -> Nat] :
           (\A i \in D : g[i] = f[i]) => Total(g) = Total(f) + g[m]
    BY <1>2, <1>4, TotalAtNew
  <1>6. QED BY <1>1, <1>4, <1>5

-----------------------------------------------------------------------------
(* The books of the purge.                                                 *)

InLog == [i \in DOMAIN auditLog |-> auditLog[i].action.cleared]

Owed == [p \in Procs |-> IF p \in InFlight THEN entry[p].cleared ELSE 0]

BooksOK ==
  /\ InLog \in [1..Len(auditLog) -> Nat] /\ Owed \in [Procs -> Nat]
  /\ IsFiniteSet(1..Len(auditLog)) /\ IsFiniteSet(Procs) /\ IsFiniteSet(metadata)
  /\ Total(InLog) \in Nat /\ Total(Owed) \in Nat /\ Cardinality(metadata) \in Nat
  /\ stored \in Nat

LEMMA BooksTyped == TypeOK => BooksOK
  <1> SUFFICES ASSUME TypeOK PROVE BooksOK OBVIOUS
  <1>1. \A i \in 1..Len(auditLog) : auditLog[i] \in AuditEntry
    BY DEF TypeOK
  <1>2. \A i \in 1..Len(auditLog) : auditLog[i].action.cleared \in Nat
    BY <1>1 DEF AuditEntry, Action
  <1>3. DOMAIN auditLog = 1..Len(auditLog) /\ Len(auditLog) \in Nat
    BY DEF TypeOK
  <1>4. InLog \in [1..Len(auditLog) -> Nat]
    BY <1>2, <1>3 DEF InLog
  <1>5. \A p \in Procs : entry[p].cleared \in Nat
    BY DEF TypeOK, Action
  <1>6. Owed \in [Procs -> Nat]
    BY <1>5 DEF Owed
  <1>7. IsFiniteSet(1..Len(auditLog))
    BY <1>3, FS_Interval
  <1>8. IsFiniteSet(Procs) /\ IsFiniteSet(metadata)
    BY CallersAssumption, FS_Subset DEF TypeOK
  <1>9. Total(InLog) \in Nat
    BY <1>4, <1>7, UnitsFinite
  <1>10. Total(Owed) \in Nat
    BY <1>6, <1>8, UnitsFinite
  <1>11. Cardinality(metadata) \in Nat
    BY <1>8, FS_CardinalityType
  <1>12. stored \in Nat
    BY DEF TypeOK
  <1>13. QED BY <1>4, <1>6, <1>7, <1>8, <1>9, <1>10, <1>11, <1>12 DEF BooksOK

\* A call that begins an audit entry without a count changes no total.
LEMMA FreshEntryOwesNothing ==
  ASSUME TypeOK, TypeOK', PurgeAccounted, NEW p \in Procs,
         UNCHANGED <<auditLog, metadata, stored>>, p \notin InFlight,
         entry'[p].cleared = 0,
         \A q \in Procs : q # p => entry'[q] = entry[q] /\ (q \in InFlight' <=> q \in InFlight)
  PROVE  PurgeAccounted'
  <1>1. Owed' = Owed
    BY DEF Owed
  <1>2. QED
    BY <1>1 DEF PurgeAccounted, ClearedInLog, ClearedInFlight, Owed

\* Metadata is never purged without an account: what was stored is held, or
\* counted in the log, or counted by an entry about to be appended, for any
\* number of callers, purge threads and keys (execute_purge).
THEOREM PurgesAccounted == Spec => []PurgeAccounted
  <1> USE DEF bookkeeping
  <1>a. PurgeAccounted <=> stored = Cardinality(metadata) + Total(InLog) + Total(Owed)
    BY DEF PurgeAccounted, ClearedInLog, ClearedInFlight, InLog, Owed
  <1>b. PurgeAccounted' <=> stored' = Cardinality(metadata') + Total(InLog') + Total(Owed')
    BY DEF PurgeAccounted, ClearedInLog, ClearedInFlight, InLog, Owed
  <1>1. Init => PurgeAccounted
    <2> SUFFICES ASSUME Init PROVE PurgeAccounted OBVIOUS
    <2>1. Units(Owed) = {}
      <3>1. \A p \in Procs : Owed[p] = 0
        BY DEF Init, Owed, InFlight
      <3>2. DOMAIN Owed = Procs
        BY DEF Owed
      <3>3. \A p \in Procs : {p} \X (1..Owed[p]) = {}
        BY <3>1
      <3>4. QED BY <3>2, <3>3 DEF Units
    <2>2. Units(InLog) = {}
      <3>1. DOMAIN auditLog = {1} /\ auditLog[1].action.cleared = 0
        BY DEF Init, Chained, Act
      <3>2. DOMAIN InLog = {1} /\ InLog[1] = 0
        BY <3>1 DEF InLog
      <3>3. {1} \X (1..InLog[1]) = {}
        BY <3>2
      <3>4. QED BY <3>2, <3>3 DEF Units
    <2>3. Total(Owed) = 0 /\ Total(InLog) = 0 /\ Cardinality(metadata) = 0 /\ stored = 0
      BY <2>1, <2>2, FS_EmptySet DEF Total, Init
    <2>4. QED BY <2>3, <1>a
  <1>2. ASSUME TypeOK, TypeOK', PurgeAccounted, [Next]_vars PROVE PurgeAccounted'
    <2>a. Callers \subseteq Procs /\ Loops \subseteq Procs /\ Callers \intersect Loops = {}
      BY CallersAssumption DEF Procs
    <2>b. ASSUME UNCHANGED <<auditLog, metadata, stored, entry>>, InFlight' = InFlight
          PROVE  PurgeAccounted'
      BY <1>2, <2>b DEF PurgeAccounted, ClearedInLog, ClearedInFlight
    <2>c. \A kind : Act(kind).cleared = 0
      BY DEF Act
    <2>d. InLog \in [1..Len(auditLog) -> Nat] /\ Owed \in [Procs -> Nat]
          /\ IsFiniteSet(1..Len(auditLog)) /\ IsFiniteSet(Procs) /\ IsFiniteSet(metadata)
          /\ Total(InLog) \in Nat /\ Total(Owed) \in Nat /\ Cardinality(metadata) \in Nat
          /\ stored \in Nat
      BY <1>2, BooksTyped DEF BooksOK
    <2>e. InLog' \in [1..Len(auditLog') -> Nat] /\ Owed' \in [Procs -> Nat]
          /\ Total(InLog') \in Nat /\ Total(Owed') \in Nat /\ Cardinality(metadata') \in Nat
      <3>1. BooksOK'
        BY <1>2, BooksTyped, PTL
      <3>2. QED BY <3>1 DEF BooksOK
    <2>1. ASSUME NEW c \in Callers, AuditedOperation(c) PROVE PurgeAccounted'
      <3>1. c \notin InFlight /\ \A q \in Procs : q # c =>
              entry'[q] = entry[q] /\ (q \in InFlight' <=> q \in InFlight)
        BY <1>2, <2>a, <2>1 DEF AuditedOperation, Call, GoAudit, InFlight, TypeOK
      <3>2. entry'[c].cleared = 0
        BY <1>2, <2>a, <2>c, <2>1 DEF AuditedOperation, GoAudit, TypeOK
      <3>3. UNCHANGED <<auditLog, metadata, stored>>
        BY <2>1 DEF AuditedOperation
      <3>4. QED BY <1>2, <2>a, <3>1, <3>2, <3>3, FreshEntryOwesNothing
    <2>2. ASSUME NEW c \in Callers, NEW k \in Keys, StoreMetadata(c, k) PROVE PurgeAccounted'
      <3>1. InLog' = InLog /\ Owed' = Owed
        BY <2>2 DEF StoreMetadata, InLog, Owed, InFlight
      <3>2. metadata' = metadata \union {k}
            /\ stored' = IF k \in metadata THEN stored ELSE stored + 1
        BY <2>2 DEF StoreMetadata
      <3>3. Cardinality(metadata') = IF k \in metadata THEN Cardinality(metadata)
                                     ELSE Cardinality(metadata) + 1
        BY <2>d, <3>2, FS_AddElement
      <3>4. QED BY <1>2, <1>a, <1>b, <2>d, <3>1, <3>2, <3>3
    <2>3. ASSUME NEW c \in Callers,
                 \/ ExecutePurge(c) \/ SchedulePurge(c) \/ ArmPurge(c)
                 \/ StopPurge(c) \/ GetStatus(c)
          PROVE  PurgeAccounted'
      <3>1. UNCHANGED <<metadata, auditLog, entry, stored>>
        BY <2>3 DEF ExecutePurge, SchedulePurge, ArmPurge, StopPurge, GetStatus
      <3>2. \E x \in {"purge", "idle", "arm", "spawn", "join", "status"} :
              /\ pc[c] \in {"idle", "arm"}
              /\ pc' = [pc EXCEPT ![c] = x]
        BY <2>3 DEF ExecutePurge, SchedulePurge, ArmPurge, StopPurge, GetStatus, Call
      <3>3. InFlight' = InFlight
        BY <1>2, <2>a, <3>2 DEF InFlight, TypeOK
      <3>4. QED BY <2>b, <3>1, <3>3
    <2>4. ASSUME NEW c \in Callers, NEW l \in Loops, SpawnLoop(c, l) PROVE PurgeAccounted'
      <3>1. c \notin InFlight /\ \A q \in Procs : q # c =>
              entry'[q] = entry[q] /\ (q \in InFlight' <=> q \in InFlight)
        BY <1>2, <2>a, <2>4 DEF SpawnLoop, InFlight, TypeOK
      <3>2. entry'[c].cleared = 0
        BY <1>2, <2>a, <2>c, <2>4 DEF SpawnLoop, TypeOK
      <3>3. UNCHANGED <<auditLog, metadata, stored>>
        BY <2>4 DEF SpawnLoop
      <3>4. QED BY <1>2, <2>a, <3>1, <3>2, <3>3, FreshEntryOwesNothing
    <2>5. ASSUME NEW c \in Callers, JoinPurgeThread(c) PROVE PurgeAccounted'
      <3>1. c \notin InFlight /\ \A q \in Procs : q # c =>
              entry'[q] = entry[q] /\ (q \in InFlight' <=> q \in InFlight)
        BY <1>2, <2>a, <2>5 DEF JoinPurgeThread, GoAudit, InFlight, TypeOK
      <3>2. entry'[c].cleared = 0
        BY <1>2, <2>a, <2>c, <2>5 DEF JoinPurgeThread, GoAudit, TypeOK
      <3>3. UNCHANGED <<auditLog, metadata, stored>>
        BY <2>5 DEF JoinPurgeThread
      <3>4. QED BY <1>2, <2>a, <3>1, <3>2, <3>3, FreshEntryOwesNothing
    <2>6. ASSUME NEW l \in Loops, LoopStep(l) PROVE PurgeAccounted'
      <3>1. UNCHANGED <<metadata, auditLog, entry, stored>>
        BY <2>6 DEF LoopStep, LoopTest, LoopWake
      <3>2. \E x \in {"purge", "test", "sleep", "dead"} :
              pc[l] \in {"test", "sleep"} /\ pc' = [pc EXCEPT ![l] = x]
        BY <2>6 DEF LoopStep, LoopTest, LoopWake
      <3>3. InFlight' = InFlight
        BY <1>2, <2>a, <3>2 DEF InFlight, TypeOK
      <3>4. QED BY <2>b, <3>1, <3>3
    <2>7. ASSUME NEW p \in Procs, AddAuditEntry(p) PROVE PurgeAccounted'
      <3>1. InFlight' = InFlight
        BY <1>2, <2>7 DEF AddAuditEntry, InFlight, TypeOK
      <3>2. QED BY <2>b, <2>7, <3>1 DEF AddAuditEntry
    <2>8. ASSUME NEW p \in Procs, AppendEntry(p) PROVE PurgeAccounted'
      <3> DEFINE n == entry[p].cleared
                 top == Len(auditLog) + 1
      <3>1. UNCHANGED <<metadata, stored, entry>>
        BY <2>8 DEF AppendEntry
      <3>2. p \in InFlight /\ p \notin InFlight'
            /\ \A q \in Procs : q # p => (q \in InFlight' <=> q \in InFlight)
        BY <1>2, <2>8 DEF AppendEntry, InFlight, TypeOK
      <3>3. Owed[p] = n /\ Owed'[p] = 0 /\ \A q \in Procs : q # p => Owed[q] = Owed'[q]
        BY <3>1, <3>2 DEF Owed
      <3>4. Total(Owed) = Total(Owed') + n
        <4>1. \A f, g \in [Procs -> Nat] :
                f[p] = 0 /\ (\A q \in Procs : q # p => g[q] = f[q]) => Total(g) = Total(f) + g[p]
          BY <2>d, TotalAtPoint
        <4>2. QED BY <4>1, <2>d, <2>e, <3>3
      <3>5. auditLog \in Seq(AuditEntry) /\ Chained(prevHash[p], entry[p]) \in AuditEntry
        BY <1>2, ChainedTyped DEF TypeOK
      <3>6. /\ Len(auditLog') = top
            /\ auditLog'[top] = Chained(prevHash[p], entry[p])
            /\ \A i \in 1..Len(auditLog) : auditLog'[i] = auditLog[i]
            /\ DOMAIN auditLog' = 1..top /\ DOMAIN auditLog = 1..Len(auditLog)
            /\ Len(auditLog) \in Nat
        BY <2>8, <3>5 DEF AppendEntry
      <3>7. InLog'[top] = n /\ \A i \in 1..Len(auditLog) : InLog'[i] = InLog[i]
        BY <3>6 DEF InLog, Chained
      <3>9. Total(InLog') = Total(InLog) + n
        <4>1. \A f \in [1..Len(auditLog) -> Nat], g \in [1..top -> Nat] :
                (\A i \in 1..Len(auditLog) : g[i] = f[i]) => Total(g) = Total(f) + g[top]
          BY <3>6, TotalAtEnd
        <4>2. QED BY <4>1, <2>d, <2>e, <3>6, <3>7
      <3>10. n \in Nat
        BY <1>2 DEF TypeOK, Action
      <3>11. stored = Cardinality(metadata) + Total(InLog) + Total(Owed)
        BY <1>2, <1>a
      <3>12. stored' = Cardinality(metadata') + Total(InLog') + Total(Owed')
        <4>1. \A a, b, c, d, e, m \in Nat :
                 a = b + m /\ d = c + m => e + c + a = e + d + b
          OBVIOUS
        <4>2. stored' = stored /\ Cardinality(metadata') = Cardinality(metadata)
          BY <3>1
        <4>3. Cardinality(metadata) + Total(InLog) + Total(Owed)
                = Cardinality(metadata) + Total(InLog') + Total(Owed')
          <5>1. /\ Total(InLog) \in Nat /\ Total(Owed) \in Nat /\ Cardinality(metadata) \in Nat
                /\ Total(InLog') \in Nat /\ Total(Owed') \in Nat
            BY <2>d, <2>e
          <5> HIDE DEF n
          <5>2. QED BY <4>1, <5>1, <3>4, <3>9, <3>10
        <4>4. QED BY <3>11, <4>2, <4>3
      <3>13. QED BY <1>b, <3>12
    <2>9. ASSUME NEW p \in Procs, ClearMetadata(p) PROVE PurgeAccounted'
      <3> DEFINE n == Cardinality(metadata)
      <3>1. UNCHANGED <<auditLog, stored>> /\ metadata' = {}
        BY <2>9 DEF ClearMetadata
      <3>2. entry' = [entry EXCEPT ![p] = Purged(n)]
        BY <2>9 DEF ClearMetadata, GoAudit
      <3>3. p \notin InFlight /\ p \in InFlight'
            /\ \A q \in Procs : q # p => (q \in InFlight' <=> q \in InFlight)
        BY <1>2, <2>9 DEF ClearMetadata, GoAudit, InFlight, TypeOK
      <3>4. entry'[p].cleared = n /\ \A q \in Procs : q # p => entry'[q] = entry[q]
        BY <1>2, <3>2 DEF TypeOK, Purged
      <3>5. Owed[p] = 0 /\ Owed'[p] = n /\ \A q \in Procs : q # p => Owed'[q] = Owed[q]
        BY <3>3, <3>4 DEF Owed
      <3>6. Total(Owed') = Total(Owed) + n
        <4>1. \A f, g \in [Procs -> Nat] :
                f[p] = 0 /\ (\A q \in Procs : q # p => g[q] = f[q]) => Total(g) = Total(f) + g[p]
          BY <2>d, TotalAtPoint
        <4>2. QED BY <4>1, <2>d, <2>e, <3>5
      <3>7. Cardinality(metadata') = 0
        BY <3>1, FS_EmptySet
      <3>8. InLog' = InLog
        BY <3>1 DEF InLog
      <3>9. QED BY <1>2, <1>a, <1>b, <2>d, <3>1, <3>6, <3>7, <3>8
    <2>10. CASE UNCHANGED vars
      BY <2>10, <2>b DEF vars, InFlight
    <2>11. QED
      BY <1>2, <2>1, <2>2, <2>3, <2>4, <2>5, <2>6, <2>7, <2>8, <2>9, <2>10
         DEF Next, CallerStep, SharedStep, Encrypt, Decrypt, VerifyNoPersistence
  <1>3. QED
    BY <1>1, <1>2, Typing, PTL DEF Spec
=============================================================================
