------------------------------ MODULE MCActor ------------------------------
(* Instances of Actor for TLC.                                              *)
EXTENDS Actor, TLC

CONSTANTS r1, r2, r3, r4

\* A message with a time budget, a change of supervisor, and a Terminate.
KindWork == r1 :> "timed" @@ r2 :> "Supervisor" @@ r3 :> "Terminate"

\* A message with a detached reply, a Stop and a Terminate.
KindLive == r1 :> "future" @@ r3 :> "Terminate" @@ r4 :> "Stop"

\* One message of the user.
KindSingle == r1 :> "user"

=============================================================================
