------------------------------ MODULE FaucetDns ------------------------------
(***************************************************************************)
(* The registry of mesh nodes kept by src/src/faucet_dns.erl: a gen_server *)
(* that handles one message of its mailbox at a time and is sent a cleanup *)
(* message every UTL_HEARTBEAT_TIMEOUT seconds.                            *)
(*                                                                         *)
(* A heartbeat is dated when the server handles it, not when the node sent *)
(* it.  The server is held up while it posts a denial to the webhook       *)
(* (report_denial and report_denial_utl wait for the answer), so a message *)
(* may have to wait; MaxLate bounds how long.  Messages keep their order.  *)
(*                                                                         *)
(* Not modelled: resolution of names, the whitelist of addresses, the      *)
(* counters, the TLS settings, and requests that change no node.  A        *)
(* registration that is refused for its papers is one that is never sent;  *)
(* a wrong token changes no node.                                          *)
(***************************************************************************)
EXTENDS Naturals, Sequences

CONSTANTS
  Nodes,
  HeartbeatTimeout, \* UTL_HEARTBEAT_TIMEOUT
  MaxLate,          \* the mailbox is empty again after this time at the latest
  BeatInterval,     \* a lively node is never silent for longer
  MaxMailbox        \* bound: requests waiting at a time

ASSUME FaucetAssumption ==
  /\ HeartbeatTimeout \in Nat \ {0} /\ MaxLate \in Nat
  /\ BeatInterval \in Nat /\ MaxMailbox \in Nat

VARIABLES
  up,        \* the server runs
  status,    \* status of each node's record, "none" without one
  age,       \* time since last_heartbeat, for active nodes
  timer,     \* time to the next cleanup message; 0 once it is sent
  mailbox,
  stalled,   \* time for which the mailbox has not been empty
  silence,   \* history: time since an active node last sent a heartbeat
  lively     \* history: the active nodes that were never silent for too long

vars == <<up, status, age, timer, mailbox, stalled, silence, lively>>

Banned == {"revoked", "isolated"}

Cleanup == [kind |-> "cleanup"]

\* Handled at once, before the others get a turn, or later; an authentication
\* changes no record.
Requests ==
  [kind : {"register", "heartbeat", "authenticate", "attested", "revoke", "isolate"}, node : Nodes]

\* init/1
Init ==
  /\ up = TRUE
  /\ status = [n \in Nodes |-> "none"]
  /\ age = [n \in Nodes |-> 0]
  /\ timer = HeartbeatTimeout
  /\ mailbox = << >>
  /\ stalled = 0
  /\ silence = [n \in Nodes |-> 0]
  /\ lively = {}

Zero(f, n) == [f EXCEPT ![n] = 0]

\* gen_server:call of one of the node's API functions
Send(msg) ==
  /\ up
  /\ Len(mailbox) < MaxMailbox
  /\ msg.kind = "heartbeat" => status[msg.node] # "none"
  /\ mailbox' = Append(mailbox, msg)
  /\ silence' = IF msg.kind = "heartbeat" THEN Zero(silence, msg.node) ELSE silence
  /\ UNCHANGED <<up, status, age, timer, stalled, lively>>

\* A second passes; erlang:send_after delivers the cleanup message at its time.
Tick ==
  /\ up
  /\ mailbox = << >> \/ stalled < MaxLate
  /\ stalled' = IF mailbox = << >> THEN 0 ELSE stalled + 1
  /\ age' = [n \in Nodes |-> IF status[n] = "active" THEN age[n] + 1 ELSE 0]
  /\ silence' = [n \in Nodes |-> IF status[n] = "active" THEN silence[n] + 1 ELSE 0]
  /\ lively' = {n \in lively : silence[n] < BeatInterval}
  /\ timer' = IF timer = 0 THEN 0 ELSE timer - 1
  /\ mailbox' = IF timer = 1 THEN Append(mailbox, Cleanup) ELSE mailbox
  /\ UNCHANGED <<up, status>>

\* The message at the head of the mailbox, which it leaves
Receive(kind) ==
  /\ up
  /\ mailbox # << >>
  /\ Head(mailbox).kind = kind
  /\ mailbox' = Tail(mailbox)
  /\ stalled' = IF Tail(mailbox) = << >> THEN 0 ELSE stalled

\* register_utl_node/3 and /5; a known node is refused, whatever its status.
Register ==
  /\ Receive("register")
  /\ LET n == Head(mailbox).node IN
       IF status[n] = "none"
       THEN /\ status' = [status EXCEPT ![n] = "active"]
            /\ age' = Zero(age, n)
            /\ silence' = Zero(silence, n)
            /\ lively' = lively \cup {n}
       ELSE UNCHANGED <<status, age, silence, lively>>
  /\ UNCHANGED <<up, timer>>

\* Mutant: the reply is sent with the state as it was.
HeartbeatForgets ==
  /\ Receive("heartbeat")
  /\ UNCHANGED <<up, status, age, timer, silence, lively>>

\* heartbeat_utl_node with the right token: accepted whatever the status, which it
\* leaves alone.
Heartbeat ==
  /\ Receive("heartbeat")
  /\ age' = Zero(age, Head(mailbox).node)
  /\ UNCHANGED <<up, status, timer, silence, lively>>

\* revoke_utl_node and isolate_malicious_node, of a known node
Ban(kind, new) ==
  /\ Receive(kind)
  /\ LET n == Head(mailbox).node IN
       IF status[n] = "none"
       THEN UNCHANGED <<status, age, silence, lively>>
       ELSE /\ status' = [status EXCEPT ![n] = new]
            /\ age' = Zero(age, n)
            /\ silence' = Zero(silence, n)
            /\ lively' = lively \ {n}
  /\ UNCHANGED <<up, timer>>

Revoke == Ban("revoke", "revoked")
Isolate == Ban("isolate", "isolated")

\* The gen_server ends: its state and its mailbox are gone, its callers get an exit.
Crash ==
  /\ up' = FALSE
  /\ mailbox' = << >>
  /\ stalled' = 0
  /\ status' = [n \in Nodes |-> "none"]
  /\ age' = [n \in Nodes |-> 0]
  /\ silence' = [n \in Nodes |-> 0]
  /\ timer' = 0
  /\ lively' = {}

\* authenticate_utl_node/2: no clause for an isolated node with the right token
Authenticate ==
  \/ /\ Receive("authenticate")
     /\ UNCHANGED <<up, status, age, timer, silence, lively>>
  \/ /\ up
     /\ mailbox # << >>
     /\ Head(mailbox).kind = "authenticate"
     /\ status[Head(mailbox).node] = "isolated"
     /\ Crash

\* authenticate_utl_node/3, with attestation: the status is not looked at.
AuthenticateAttested ==
  /\ Receive("attested")
  /\ UNCHANGED <<up, status, age, timer, silence, lively>>

\* Whether the right token and valid papers get the request the answer ok.
Admits(msg) ==
  \/ msg.kind = "authenticate" /\ status[msg.node] = "active"
  \/ msg.kind = "attested" /\ status[msg.node] # "none"

Expired(n) == status[n] = "active" /\ age[n] >= HeartbeatTimeout

\* Mutant: the next cleanup is not scheduled.
CleanNodesOnce ==
  /\ Receive("cleanup")
  /\ \A n \in Nodes : status[n] # "isolated"
  /\ status' = [n \in Nodes |-> IF Expired(n) THEN "none" ELSE status[n]]
  /\ age' = [n \in Nodes |-> IF Expired(n) THEN 0 ELSE age[n]]
  /\ silence' = [n \in Nodes |-> IF Expired(n) THEN 0 ELSE silence[n]]
  /\ lively' = {n \in lively : ~Expired(n)}
  /\ UNCHANGED <<up, timer>>

\* handle_info(cleanup_expired_nodes): drops the active nodes whose heartbeat is too
\* old and schedules itself again.
CleanNodes ==
  /\ Receive("cleanup")
  /\ \A n \in Nodes : status[n] # "isolated"
  /\ status' = [n \in Nodes |-> IF Expired(n) THEN "none" ELSE status[n]]
  /\ age' = [n \in Nodes |-> IF Expired(n) THEN 0 ELSE age[n]]
  /\ silence' = [n \in Nodes |-> IF Expired(n) THEN 0 ELSE silence[n]]
  /\ lively' = {n \in lively : ~Expired(n)}
  /\ timer' = HeartbeatTimeout
  /\ UNCHANGED up

\* The status of an isolated node has no clause in it.
CleanNodesFails ==
  /\ up
  /\ mailbox # << >>
  /\ Head(mailbox) = Cleanup
  /\ \E n \in Nodes : status[n] = "isolated"
  /\ Crash

\* start_faucet, by hand: nothing supervises the server.  It begins with nothing,
\* which is what the crash has left.
Restart ==
  /\ ~up
  /\ up' = TRUE
  /\ timer' = HeartbeatTimeout
  /\ UNCHANGED <<status, age, mailbox, stalled, silence, lively>>

Next ==
  \/ \E msg \in Requests : Send(msg)
  \/ Tick
  \/ Register \/ Heartbeat \/ Authenticate \/ AuthenticateAttested
  \/ Revoke \/ Isolate
  \/ CleanNodes \/ CleanNodesFails \/ Restart

Spec == Init /\ [][Next]_vars

-----------------------------------------------------------------------------
TypeOK ==
  /\ up \in BOOLEAN
  /\ status \in [Nodes -> {"none", "active"} \cup Banned]
  /\ age \in [Nodes -> Nat] /\ silence \in [Nodes -> Nat]
  /\ timer \in 0..HeartbeatTimeout
  /\ mailbox \in Seq(Requests \cup {Cleanup})
  /\ stalled \in 0..MaxLate
  /\ lively \subseteq Nodes

\* A node that fell silent does not stay in the list: its heartbeats are spared by at
\* most one cleanup, and date from when they were handled.
SilentGone ==
  \A n \in Nodes : status[n] = "active" => silence[n] < 2 * (HeartbeatTimeout + MaxLate)

\* A node that keeps sending heartbeats is never dropped, although its heartbeat may
\* wait behind the cleanup that looks for it, and the cleanup may come late.
LivelyKept ==
  [][up' => \A n \in lively : status'[n] # "none"]_vars

-----------------------------------------------------------------------------
(* What the code does not have (see the README)                            *)

\* "Revoke a node's access to the mesh": a revoked or isolated node that presents its
\* token is not let in.
BannedIsDenied ==
  mailbox # << >> /\ Head(mailbox).kind \in {"authenticate", "attested"} =>
    (Admits(Head(mailbox)) => status[Head(mailbox).node] \notin Banned)

\* "OR revoked (keep for audit)": what was revoked or isolated stays on record.
AuditKept ==
  [][\A n \in Nodes : status[n] \in Banned => status'[n] \in Banned]_vars
=============================================================================
