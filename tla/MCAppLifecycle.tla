--------------------------- MODULE MCAppLifecycle ---------------------------
(* The components of the program's own demonstration, and two of the same  *)
(* priority for two drivers that race.                                     *)
EXTENDS AppLifecycle, TLC

SelfTestPriority == "db" :> 10 @@ "mesh" :> 20 @@ "engine" :> 30 @@ "view" :> 20

RacePriority == "db" :> 10 @@ "mesh" :> 10
=============================================================================
