----------------------------- MODULE MCAddress -----------------------------
(* Three callers and one slot: the senders of a session's mailbox, one of each
   kind, and three users of a channel made by Recipient::create. *)
EXTENDS Address, TLC

CONSTANTS c1, c2, c3

Op(k, m, r) == [kind |-> k, mode |-> m, reply |-> r]

Plan(x, y, z) == c1 :> x @@ c2 :> y @@ c3 :> z

PlansMC ==
  {Plan(x, Op("address", "await", TRUE), Op("recipient", "timeout", TRUE)) :
     x \in {Op("local", "reserve", TRUE), Op("local", "try_reserve", FALSE)}}
  \cup
  {Plan(Op("local", "await", TRUE), Op("address", "timeout", TRUE),
        Op("recipient", "try", TRUE)),
   Plan(Op("local", "blocking", FALSE), Op("address", "reserve", FALSE),
        Op("recipient", "await", TRUE)),
   Plan(Op("created", "await", FALSE), Op("created", "timeout", FALSE),
        Op("created", "blocking", TRUE)),
   Plan(Op("created_remote", "try", FALSE), Op("created_remote", "await", TRUE),
        Op("created_remote", "await", FALSE))}
=============================================================================
