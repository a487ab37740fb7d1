----------------------------- MODULE MCSession -----------------------------
(* Instances of Session for TLC.                                            *)
EXTENDS Session, TLC

CONSTANTS r1, r2, r3, r4

\* Messages of all kinds from one side, which keep both sessions busy.
KindOrder == r1 :> "send" @@ r2 :> "do_send" @@ r3 :> "do_send" @@ r4 :> "node"
OriginOrder == [r \in {r1, r2, r3, r4} |-> "a"]
FaultsOrder == {<<"drop", r4>>, <<"refuse", r4>>, <<"end", "b">>}

\* The two do_sends differ in nothing.
SymmetryOrder == Permutations({r2, r3})

\* One request and whatever may go wrong with it, or the same request in a crowd:
\* enough messages to fill the transport in both directions.
KindLive == r1 :> "send" @@ r2 :> "do_send" @@ r3 :> "do_send" @@ r4 :> "do_send"
OriginLive == [r \in {r1, r2, r3, r4} |-> IF r = r4 THEN "b" ELSE "a"]
FaultsLive == {<<"stop", "a">>, <<"end", "b">>, <<"hang", "b">>, <<"drop", r1>>,
               <<"link">>}

crowded == \E r \in {r2, r3, r4} : status[r] # "idle"
troubled ==
  \/ link = "down" \/ abandoned # {}
  \/ \E s \in Sides : ~running[s] \/ ~actorOpen[s]
  \/ \E s \in Sides : \E i \in DOMAIN mailbox[s] : mailbox[s][i].type = "signal"

\* The bounds of this instance: the crowd and the trouble exclude each other, and of
\* r2 and r3, which differ in nothing, r2 is made first.  What leaves the bounds is a
\* client's send or a fault, of which Fairness asks nothing.
inBounds ==
  /\ ~(crowded /\ troubled)
  /\ status[r3] # "idle" => status[r2] # "idle"

=============================================================================
