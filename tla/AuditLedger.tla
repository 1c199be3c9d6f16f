----------------------------- MODULE AuditLedger ----------------------------
(***************************************************************************)
(* What the privacy protocol of src/src/privacy_protocol.py promises of    *)
(* its audit log and its operational metadata, without locks, threads'     *)
(* control points or hashes: metadata leaves only in a purge of all of it, *)
(* whoever purges owes the log one entry with the number purged, whoever   *)
(* does anything else that is audited owes one entry too, and a debt is    *)
(* settled by exactly one entry at the end of the log.                     *)
(***************************************************************************)
EXTENDS Integers, Sequences

CONSTANT Procs  \* threads

VARIABLES
  held,   \* number of keys of the metadata
  log,    \* the entries, each [kind, cleared]
  due     \* what every thread owes the log: no entry or one

vars == <<held, log, due>>

Init ==
  /\ held = 0
  /\ log = <<[kind |-> "initialized", cleared |-> 0]>>
  /\ due = [p \in Procs |-> {}]

Owe(p, kind, n) ==
  /\ due[p] = {}
  /\ due' = [due EXCEPT ![p] = {[kind |-> kind, cleared |-> n]}]

Store ==
  /\ held' = held + 1
  /\ UNCHANGED <<log, due>>

Operate(p) ==
  /\ \E kind \in {"operation", "scheduled", "stopped"} : Owe(p, kind, 0)
  /\ UNCHANGED <<held, log>>

Purge(p) ==
  /\ Owe(p, "purged", held)
  /\ held' = 0
  /\ UNCHANGED log

Settle(p) ==
  /\ \E e \in due[p] : log' = Append(log, e)
  /\ due' = [due EXCEPT ![p] = {}]
  /\ UNCHANGED held

Next ==
  \/ Store
  \/ \E p \in Procs : Operate(p) \/ Purge(p) \/ Settle(p)

Spec == Init /\ [][Next]_vars
=============================================================================
