---------------------------- MODULE RequestReply ----------------------------
(***************************************************************************)
(* What an addressable party promises to those who send it requests.  A    *)
(* request is offered, and then accepted or refused; it may get a place    *)
(* first and be written into it later.  An accepted request is answered or *)
(* dropped, or detached and settled later on its own.  When the party      *)
(* closes, everything it had accepted and not detached is dropped in that  *)
(* same step, and no place is given away afterwards.  A request written    *)
(* after the close into a place taken before is stranded: nobody will      *)
(* answer it, and it can only be dropped.                                  *)
(***************************************************************************)
CONSTANT Requests

VARIABLES
  phase,  \* phase[r]: how far the request r has come
  alive   \* whether the party still accepts requests

Phases == {"new", "offered", "reserved", "accepted", "detached", "stranded",
           "answered", "dropped", "refused"}

Init ==
  /\ phase = [r \in Requests |-> "new"]
  /\ alive = TRUE

Move(r, from, to) ==
  /\ phase[r] \in from
  /\ phase' = [phase EXCEPT ![r] = to]
  /\ UNCHANGED alive

Offer(r) == Move(r, {"new"}, "offered")

Reserve(r) == alive /\ Move(r, {"new", "offered"}, "reserved")

Accept(r) == alive /\ Move(r, {"new", "offered", "reserved"}, "accepted")

Strand(r) == ~alive /\ Move(r, {"reserved"}, "stranded")

Refuse(r) == Move(r, {"new", "offered", "reserved"}, "refused")

Answer(r) == Move(r, {"accepted", "detached"}, "answered")

Detach(r) == alive /\ Move(r, {"accepted"}, "detached")

\* Some of the unsettled requests are given up.
Drop(S) ==
  /\ \A r \in S : phase[r] \in {"accepted", "detached", "stranded"}
  /\ phase' = [r \in Requests |-> IF r \in S THEN "dropped" ELSE phase[r]]
  /\ UNCHANGED alive

Close ==
  /\ alive
  /\ alive' = FALSE
  /\ phase' = [r \in Requests |->
                 IF phase[r] = "accepted" THEN "dropped" ELSE phase[r]]

Next ==
  \/ \E r \in Requests :
       \/ Offer(r) \/ Reserve(r) \/ Accept(r) \/ Strand(r) \/ Refuse(r)
       \/ Answer(r) \/ Detach(r)
  \/ \E S \in SUBSET Requests : Drop(S)
  \/ Close

Spec == Init /\ [][Next]_<<phase, alive>>

=============================================================================
