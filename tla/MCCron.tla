------------------------------- MODULE MCCron -------------------------------
(* Instances of Cron for TLC.                                               *)
EXTENDS Cron, TLC

CONSTANTS r1, r2, r3, t1, t2

\* A message of the user, a Pause and a Terminate.
KindAll == r1 :> "user" @@ r2 :> "Pause" @@ r3 :> "Terminate"

=============================================================================
