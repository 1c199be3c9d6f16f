-------------------------- MODULE OrderedServices ---------------------------
(***************************************************************************)
(* What the lifecycle of src/src/app_lifecycle.py promises to whoever      *)
(* registers services with it, without threads, walks or flags: services   *)
(* come up one by one, each after all of lower rank, and go down one by    *)
(* one, each before all of lower rank; none goes down while the            *)
(* application is RUNNING, which it only is with all of them up; and it is *)
(* STOPPED or made ready again only with all of them down.  It may fail at *)
(* any point, and goes on bringing services up, or down, from there.       *)
(***************************************************************************)
EXTENDS Integers

CONSTANTS
  Services,  \* what can be brought up and down
  Rank       \* [Services -> Nat]: lower comes up first and goes down last

VARIABLES
  status,  \* the announced state of the application
  up       \* services that are up

vars == <<status, up>>

Init == status = "initializing" /\ up = {}

BringUp(s) ==
  /\ status \in {"ready", "error"}
  /\ s \notin up
  /\ \A r \in Services : Rank[r] < Rank[s] => r \in up
  /\ up' = up \union {s}
  /\ UNCHANGED status

TakeDown(s) ==
  /\ status \in {"pausing", "error"}
  /\ s \in up
  /\ \A r \in up : Rank[r] <= Rank[s]
  /\ up' = up \ {s}
  /\ UNCHANGED status

Announce(from, to) ==
  /\ status \in from
  /\ status' = to
  /\ UNCHANGED up

Next ==
  \/ \E s \in Services : BringUp(s) \/ TakeDown(s)
  \/ Announce({"initializing"}, "ready")
  \/ up = Services /\ Announce({"ready"}, "running")
  \/ Announce({"running"}, "pausing")
  \/ up = {} /\ Announce({"pausing"}, "stopped")
  \/ up = {} /\ Announce({"stopped", "error"}, "initializing")
  \/ Announce({"initializing", "ready", "running", "pausing"}, "error")

Spec == Init /\ [][Next]_vars
=============================================================================
