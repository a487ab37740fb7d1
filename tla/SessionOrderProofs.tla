------------------------- MODULE SessionOrderProofs -------------------------
(***************************************************************************)
(* Proofs about the order of the messages that two sessions exchange, and  *)
(* about their tags and answers, over what SessionProofs says of the way   *)
(* of a request.                                                           *)
(***************************************************************************)
EXTENDS SessionProofs

USE DEF None, Sides

-----------------------------------------------------------------------------
(* Messages sent with do_send keep their order.                             *)

\* On the way to side p, y has not overtaken x.
Route(p, x, y) ==
  /\ inOrder(wire[p], x, y)
  /\ y \in taken(p) => x \notin reqs(wire[p])
  /\ task[y] # "none" => x \notin reqs(wire[p]) \cup taken(p)

\* x and y, made by side s, keep their order.
Before(s, x, y) ==
  /\ inOrder(mailbox[s], x, y)
  /\ status[x] \in {"queued", "sending"} => status[y] = "queued"
  /\ Route(Peer(s), x, y)

\* The history is in order.
Ordered ==
  /\ issued \in [Sides -> Seq(Requests)]
  /\ \A s \in Sides : \A i \in 1 .. Len(issued[s]) :
       Kind[issued[s][i]] = "do_send" /\ Origin[issued[s][i]] = s /\ status[issued[s][i]] # "idle"
  /\ \A s \in Sides : \A i, j \in 1 .. Len(issued[s]) :
       i < j => Before(s, issued[s][i], issued[s][j])

\* Two messages that side s has queued, the first before the second.
Pair(s, x, y) ==
  /\ {x, y} \subseteq {r \in Requests : /\ Kind[r] = "do_send" /\ Origin[r] = s
                                        /\ status[r] # "idle"}
  /\ Before(s, x, y)

LEMMA Absent ==
  ASSUME NEW q \in Seq(Msg), NEW x, NEW y, y \notin reqs(q) \/ q = <<>>
  PROVE  inOrder(q, x, y)
<1>1. CASE q = <<>>
  <2>1. Len(q) = 0
    BY <1>1
  <2> QED BY <2>1 DEF inOrder
<1>2. CASE y \notin reqs(q)
  BY <1>2 DEF inOrder, about, reqs
<1> QED BY <1>1, <1>2

LEMMA WireAlone ==
  ASSUME SInv, Next, NEW p \in Sides, ~Inbound(p), ~SendOk(Peer(p)), ~LinkFail
  PROVE  wire'[p] = wire[p]
<1>1. ASSUME NEW s \in Sides, Inbound(s)
      PROVE  wire'[p] = wire[p]
  <2>1. wire' = wire \/ wire' = [wire EXCEPT ![s] = Tail(wire[s])]
    BY <1>1, Zenon DEF Inbound, HandleActorMessage, HandleNodeMessage, HandleMessageResponse,
                    RecvFail,
                received, linkVars
  <2> QED BY <1>1, <2>1 DEF SInv, Types
<1>2. ASSUME NEW s \in Sides, SendOk(s)
      PROVE  wire'[p] = wire[p]
  <2>1. wire' = [wire EXCEPT ![Peer(s)] = Append(@, job[s])]
    BY <1>2 DEF SendOk
  <2>2. Peer(s) # p
    BY <1>2, Peers
  <2> QED BY <2>1, <2>2, Zenon DEF SInv, Types
<1>3. ASSUME NEW s \in Sides, Outbound(s) \/ (Step(s) /\ ~SendOk(s))
      PROVE  wire' = wire
  <2>1. CASE Outbound(s)
    BY <2>1, ZenonT(20) DEF Outbound, HandleRequest, HandleOther, linkVars
  <2>2. CASE Step(s) /\ ~SendOk(s)
    BY <2>2, Zenon DEF Step, Top, SendFail, ActorMgrReply, Forward, Leave, Close, linkVars
  <2> QED BY <1>3, <2>1, <2>2
<1>4. ASSUME \/ \E s \in Sides : Signal(s) \/ TimerSend(s) \/ ActorRecv(s) \/ ActorReply(s)
                                 \/ ActorStop(s)
             \/ \E r \in Requests : Submit(r) \/ Refuse(r) \/ Abandon(r) \/ Age(r)
                                    \/ TaskForward(r) \/ TaskCreated(r) \/ TaskReply(r)
      PROVE  wire' = wire
  BY <1>4, Zenon DEF Signal, TimerSend, ActorRecv, ActorReply, ActorStop, Submit, Refuse,
                    Abandon, Age,
              TaskForward, TaskCreated, TaskReply, linkVars
<1> QED BY <1>1, <1>2, <1>3, <1>4, Zenon DEF Next

\* A new message comes behind all others.
LEMMA LastPair ==
  ASSUME SInv, PathInv, NEW s \in Sides, NEW y \in Requests, Submit(y), Origin[y] = s,
         NEW x \in Requests, status[x] # "idle"
  PROVE  Before(s, x, y)'
<1>1. /\ status[y] = "idle" /\ status' = [status EXCEPT ![y] = "queued"]
      /\ mailbox' = [mailbox EXCEPT ![s] = Append(mailbox[s], msg("request", y, 0))]
      /\ UNCHANGED <<wire, pc, job, task>>
  BY Zenon DEF Submit, enqueue, linkVars, sessionVars, taskVars
<1>2. status'[y] = "queued"
  BY <1>1 DEF SInv, Types
<1>3. inOrder(mailbox'[s], x, y)
  <2>1. mailbox[s] \in Seq(Msg) /\ mailbox'[s] = Append(mailbox[s], msg("request", y, 0))
    BY <1>1 DEF SInv, Types
  <2>2. y \notin reqs(mailbox[s])
    BY <1>1, Zenon DEF SInv, Placed, at
  <2>3. msg("request", y, 0) \in Msg /\ ~about(msg("request", y, 0), x)
    BY <1>1, TagsZero DEF msg, Msg, Message, about
  <2>4. inOrder(mailbox[s], x, y)
    BY <2>1, <2>2, Absent
  <2> QED BY <2>1, <2>3, <2>4, Pushed, Zenon
<1>4. PICK p \in Sides : p = Peer(s)
  BY Peers
<1>5. Route(p, x, y)'
  <2>1. y \notin reqs(wire[p]) \cup taken(p) /\ task[y] = "none"
    BY <1>1, Zenon DEF PathInv, Fresh, Tasks, Early
  <2>2. wire[p] \in Seq(Msg) /\ taken(p)' = taken(p)
    BY <1>1 DEF SInv, Types, taken
  <2>3. inOrder(wire[p], x, y)
    BY <2>1, <2>2, Absent, Zenon
  <2> QED BY <1>1, <2>1, <2>2, <2>3 DEF Route
<1> QED BY <1>2, <1>3, <1>4, <1>5, ZenonT(20) DEF Before

\* Every step keeps the order of two messages that are on their way.
LEMMA PairKept ==
  SInv /\ PathInv /\ Next =>
    \A s \in Sides : \A x, y : Pair(s, x, y) => Before(s, x, y)'

\* The mailbox of the session.
<1>BoxOrder.
    ASSUME SInv, Next, NEW s \in Sides, NEW x \in Requests, NEW y \in Requests, status[x] # "idle",
           inOrder(mailbox[s], x, y)
    PROVE  inOrder(mailbox'[s], x, y)
  <2> USE <1>BoxOrder
  <2>0. mailbox \in [Sides -> Seq(Msg)] /\ mailbox[s] \in Seq(Msg)
    BY DEF SInv, Types
  <2>1. CASE mailbox'[s] = mailbox[s]
    BY <2>1
  <2>2. ASSUME NEW u \in Sides, NEW m \in Msg, ~about(m, x), enqueue(u, m)
        PROVE  inOrder(mailbox'[s], x, y)
    <3>1. mailbox'[s] = mailbox[s] \/ mailbox'[s] = Append(mailbox[s], m)
      BY <2>0, <2>2 DEF enqueue
    <3>2. CASE mailbox'[s] = Append(mailbox[s], m)
      <4>1. inOrder(Append(mailbox[s], m), x, y)
        BY <2>0, <2>2, Pushed
      <4> QED BY <3>2, <4>1
    <3> QED BY <2>1, <3>1, <3>2
  <2>3. ASSUME NEW u \in Sides, mailbox[u] # <<>>, mailbox' = [mailbox EXCEPT ![u] = Tail(@)]
        PROVE  inOrder(mailbox'[s], x, y)
    <3>1. mailbox'[s] = mailbox[s] \/ (mailbox[s] # <<>> /\ mailbox'[s] = Tail(mailbox[s]))
      BY <2>0, <2>3
    <3> QED BY <2>0, <2>1, <3>1, Popped
  <2>4. ASSUME NEW u \in Sides, Leave(u)
        PROVE  inOrder(mailbox'[s], x, y)
    <3>1. mailbox'[s] = mailbox[s] \/ mailbox'[s] = <<>>
      BY <2>0, <2>4, Zenon DEF Leave
    <3>2. <<>> \in Seq(Msg)
      OBVIOUS
    <3> QED BY <2>1, <3>1, <3>2, Absent, Zenon
  <2>5. ASSUME NEW u \in Sides, Outbound(u)
        PROVE  inOrder(mailbox'[s], x, y)
    BY <2>3, <2>5, Zenon DEF Outbound, HandleRequest, HandleOther
  <2>6. ASSUME NEW u \in Sides, Signal(u) \/ TimerSend(u)
        PROVE  inOrder(mailbox'[s], x, y)
    <3>1. \A type \in {"signal", "cleanup"} : /\ msg(type, None, 0) \in Msg
                                              /\ ~about(msg(type, None, 0), x)
      BY TagsZero DEF msg, Msg, Message, about
    <3>2. \/ mailbox' = mailbox
          \/ \E type \in {"signal", "cleanup"} : enqueue(u, msg(type, None, 0))
      BY <2>6, Zenon DEF Signal, TimerSend
    <3> QED BY <2>1, <2>2, <3>1, <3>2
  <2>7. ASSUME NEW r \in Requests, TaskReply(r)
        PROVE  inOrder(mailbox'[s], x, y)
    <3>1. msg("response", r, inTag[r]) \in Msg /\ ~about(msg("response", r, inTag[r]), x)
      BY DEF msg, Msg, Message, about, SInv, Types
    <3>2. mailbox' = mailbox \/ enqueue(Peer(Origin[r]), msg("response", r, inTag[r]))
      BY <2>7, Zenon DEF TaskReply
    <3>3. Peer(Origin[r]) \in Sides
      BY Peers, SessionAssumption
    <3> QED BY <2>1, <2>2, <3>1, <3>2, <3>3, Zenon
  <2>8. ASSUME NEW r \in Requests, Submit(r)
        PROVE  inOrder(mailbox'[s], x, y)
    <3>1. r # x /\ Origin[r] \in Sides /\ enqueue(Origin[r], msg("request", r, 0))
      BY <2>8, SessionAssumption DEF Submit
    <3>2. msg("request", r, 0) \in Msg /\ ~about(msg("request", r, 0), x)
      BY <3>1, TagsZero DEF msg, Msg, Message, about
    <3> QED BY <2>2, <3>1, <3>2, Zenon
  <2>9. ASSUME NEW u \in Sides, Inbound(u) \/ (Step(u) /\ ~Leave(u)) \/ ActorRecv(u)
                                \/ ActorReply(u) \/ ActorStop(u)
        PROVE  mailbox' = mailbox
    BY <2>9, Zenon DEF Inbound, HandleActorMessage, HandleNodeMessage, HandleMessageResponse,
                      RecvFail,
                Step, Top, SendOk, SendFail, ActorMgrReply, Forward, Close, ActorRecv, ActorReply,
                ActorStop
  <2>10. ASSUME \/ \E r \in Requests : Refuse(r) \/ Abandon(r) \/ Age(r) \/ TaskForward(r)
                                       \/ TaskCreated(r)
                \/ LinkFail
         PROVE  mailbox' = mailbox
    BY <2>10, ZenonT(20) DEF Refuse, Abandon, Age, TaskForward, TaskCreated, LinkFail
  <2> QED BY <2>1, <2>4, <2>5, <2>6, <2>7, <2>8, <2>9, <2>10, Zenon DEF Next

\* While the first has to be sent, so has the second.
<1>TurnOrder.
    ASSUME SInv, Next, NEW s \in Sides, NEW x, NEW y, Pair(s, x, y)
    PROVE  status'[x] \in {"queued", "sending"} => status'[y] = "queued"
  <2> USE <1>TurnOrder
  <2>1. /\ x \in Requests /\ Origin[x] = s /\ y \in Requests /\ Origin[y] = s
        /\ status[x] # "idle" /\ status[y] # "idle" /\ Kind[y] = "do_send" /\ Kind[x] = "do_send"
        /\ inOrder(mailbox[s], x, y)
        /\ status[x] \in {"queued", "sending"} => status[y] = "queued"
    BY Zenon DEF Pair, Before
  <2>2. status \in [Requests -> Settled \cup {"idle", "queued", "sending"} \cup Waiting]
    BY DEF SInv, Types
  <2>3. CASE Onward /\ Stays
    BY <2>1, <2>3 DEF Onward, Stays, Early
  <2>4. ASSUME NEW r \in Requests, Submit(r)
        PROVE  status'[x] = status[x] /\ status'[y] = status[y]
    <3>1. status[r] = "idle" /\ status' = [status EXCEPT ![r] = "queued"]
      BY <2>4, Zenon DEF Submit
    <3> QED BY <2>1, <2>2, <3>1
  <2>5. ASSUME NEW u \in Sides, HandleRequest(u)
        PROVE  status'[x] \in {"queued", "sending"} => status'[y] = "queued"
    <3>1. /\ mailbox[u] # <<>> /\ mailbox' = [mailbox EXCEPT ![u] = Tail(@)]
          /\ Head(mailbox[u]).type = "request" /\ pc[u] = "select"
      BY <2>5, Zenon DEF HandleRequest
    <3>2. PICK r : r = Head(mailbox[u]).req
      OBVIOUS
    <3>3. r \in Requests /\ Origin[r] = u
      BY <3>1, <3>2, FromMailbox, Zenon DEF at
    <3>4. PICK v : status' = [status EXCEPT ![r] = v]
      BY <2>5, <3>2, Zenon DEF HandleRequest
    <3>5. CASE r # x /\ r # y
      BY <2>1, <2>2, <3>4, <3>5
    <3>6. CASE u = s /\ r \in {x, y}
      <4>1. mailbox[s] \in Seq(Msg) /\ mailbox[s] # <<>> /\ about(Head(mailbox[s]), r)
        BY <3>1, <3>2, <3>6, ZenonT(20) DEF SInv, Types, about
      <4>2. r \in reqs(mailbox[s]) /\ (r = y => x \notin reqs(mailbox[s]))
        BY <2>1, <4>1, Popped, Zenon DEF about
      <4>3. CASE r = x
        BY <2>1, <2>2, <3>4, <4>2, <4>3, Zenon DEF SInv, Placed, at
      <4>4. CASE r = y
        <5>1. status[x] # "queued"
          BY <2>1, <4>2, <4>4, Zenon DEF SInv, Placed, at
        <5>2. current(s) = {}
          BY <3>1, <3>6, Zenon DEF current
        <5>3. status[x] # "sending"
          BY <2>1, <5>2, ZenonT(30) DEF SInv, Placed, at
        <5>4. status'[x] = status[x]
          BY <2>1, <2>2, <3>4, <4>2, <4>4
        <5> QED BY <5>1, <5>3, <5>4
      <4> QED BY <3>6, <4>3, <4>4
    <3> QED BY <2>1, <3>3, <3>5, <3>6
  <2>6. ASSUME NEW u \in Sides, Leave(u)
        PROVE  status'[x] \in {"queued", "sending"} => status'[y] = "queued"
    <3>1. mailbox[u] \in Seq(Msg) /\ pc[u] = "loop"
      BY <2>6, Zenon DEF Leave, SInv, Types
    <3>2. status' = closed(reqs(mailbox[u]))
      <4>1. DOMAIN mailbox[u] = 1 .. Len(mailbox[u])
        BY <3>1
      <4> QED BY <2>6, <4>1, Zenon DEF Leave, reqs
    <3>3. reqs(mailbox[u]) = at(u, {"queued"}) /\ current(u) = at(u, {"sending"}) /\ current(u) = {}
      BY <3>1, Zenon DEF SInv, Placed, current
    <3>4. \A r \in {x, y} : status'[r] = IF u = s /\ status[r] = "queued" THEN "closed" ELSE status[r]
      BY <2>1, <3>2, <3>3 DEF closed, at
    <3>5. u = s => status[x] # "sending"
      BY <2>1, <3>3, ZenonT(20) DEF at
    <3> QED BY <2>1, <3>4, <3>5, ZenonT(20)
  <2> QED BY <2>1, <2>3, <2>4, <2>5, <2>6, StatusMoves, Zenon

\* Steps that leave the connection alone and take no request up.
<1>RouteKept.
    ASSUME NEW p, NEW x, NEW y, Route(p, x, y), wire'[p] = wire[p], taken(p)' \subseteq taken(p),
           task'[y] # "none" => task[y] # "none"
    PROVE  Route(p, x, y)'
  BY <1>RouteKept, Zenon DEF Route

\* A do_send is never served by a task: only the session gives it to the actor.
<1>NoTask.
    ASSUME SInv, PathInv, Next, NEW y \in Requests, Kind[y] = "do_send",
           \A s \in Sides : Forward(s) => job[s].req # y
    PROVE  task'[y] # "none" => task[y] # "none"
  <2> USE <1>NoTask
  <2>0. task \in [Requests -> TaskPCs] /\ task[y] \in {"none", "waiting", "done"}
    BY DEF PathInv, Tasks
  <2>1. CASE task' = task
    BY <2>1
  <2>2. ASSUME NEW r \in Requests, TaskForward(r) \/ TaskCreated(r) \/ TaskReply(r)
        PROVE  task'[y] = task[y]
    <3>1. task[r] \in {"forward", "creating", "reply"} /\ \E v : task' = [task EXCEPT ![r] = v]
      BY <2>2, Zenon DEF TaskForward, TaskCreated, TaskReply
    <3> QED BY <2>0, <3>1
  <2>3. ASSUME NEW s \in Sides, ActorReply(s) \/ ActorStop(s)
        PROVE  task'[y] # "none" => task[y] # "none"
    <3>1. inbox[s] \in Seq(Requests)
      BY DEF PathInv, Actors
    <3>2. DOMAIN inbox[s] = 1 .. Len(inbox[s])
      BY <3>1
    <3>3. PICK G \in SUBSET served(s) : task' = answered(G)
      BY <2>3, <3>2, ZenonT(20) DEF ActorReply, ActorStop, served, elems
    <3>4. \A r \in G : task[r] = "waiting"
      BY Apart, Zenon
    <3> QED BY <3>3, <3>4 DEF answered
  <2>4. ASSUME NEW s \in Sides, Forward(s)
        PROVE  task'[y] = task[y]
    <3>1. task' = task \/ task' = [task EXCEPT ![job[s].req] = "waiting"]
      BY <2>4, ZenonT(20) DEF Forward
    <3> QED BY <2>0, <2>4, <3>1
  <2>5. ASSUME NEW s \in Sides, Inbound(s)
        PROVE  task'[y] = task[y]
    <3>1. \/ task' = task
          \/ Kind[Head(wire[s]).req] # "do_send" /\ \E v : task' = [task EXCEPT ![Head(wire[s]).req] = v]
      BY <2>5, Zenon DEF Inbound, HandleActorMessage, HandleNodeMessage, HandleMessageResponse,
                      RecvFail,
                  spawn, taskVars
    <3> QED BY <2>0, <3>1, ZenonT(20)
  <2>6. ASSUME NEW s \in Sides, Outbound(s) \/ (Step(s) /\ ~Forward(s)) \/ Signal(s) \/ TimerSend(s)
                                \/ ActorRecv(s)
        PROVE  task' = task
    <3>1. CASE Outbound(s)
      BY <3>1, Zenon DEF Outbound, HandleRequest, HandleOther, taskVars
    <3>2. CASE Step(s) /\ ~Forward(s)
      BY <3>2 DEF Step, Top, SendOk, SendFail, ActorMgrReply, Leave, Close, taskVars
    <3>3. CASE Signal(s) \/ TimerSend(s) \/ ActorRecv(s)
      BY <3>3, Zenon DEF Signal, TimerSend, ActorRecv, taskVars
    <3> QED BY <2>6, <3>1, <3>2, <3>3
  <2>7. ASSUME \/ \E r \in Requests : Submit(r) \/ Refuse(r) \/ Abandon(r) \/ Age(r)
               \/ LinkFail
        PROVE  task' = task
    BY <2>7, Zenon DEF Submit, Refuse, Abandon, Age, LinkFail, taskVars
  <2> QED BY <2>1, <2>2, <2>3, <2>4, <2>5, <2>6, <2>7, Zenon DEF Next

\* Only a receiving session has a new request in its hands.
<1>Untaken.
    ASSUME SInv, Next, NEW p \in Sides, ~Inbound(p)
    PROVE  taken(p)' \subseteq taken(p)
  <2> USE <1>Untaken
  <2>1. CASE pc'[p] = pc[p] /\ job'[p] = job[p]
    BY <2>1 DEF taken
  <2>2. CASE pc'[p] \notin {"forward", "asking"}
    BY <2>2 DEF taken
  <2>3. ASSUME NEW s \in Sides, Inbound(s) \/ Outbound(s) \/ Step(s)
        PROVE  \/ \A u \in Sides \ {s} : pc'[u] = pc[u] /\ job'[u] = job[u]
               \/ UNCHANGED <<pc, job>>
    <3>1. /\ \E w : pc' = [pc EXCEPT ![s] = w]
          /\ job' = job \/ \E m : job' = [job EXCEPT ![s] = m]
      <4>1. CASE Inbound(s)
        BY <4>1, ZenonT(20) DEF Inbound, HandleActorMessage, HandleNodeMessage,
                      HandleMessageResponse, RecvFail,
                    spawn, startSend, goto
      <4>2. CASE Outbound(s)
        BY <4>2, Zenon DEF Outbound, HandleRequest, HandleOther, startSend, goto
      <4>3. CASE Step(s)
        BY <4>3, Zenon DEF Step, Top, SendOk, SendFail, ActorMgrReply, Forward, Leave, Close,
                    startSend, goto
      <4> QED BY <2>3, <4>1, <4>2, <4>3
    <3> QED BY <3>1 DEF SInv, Types
  <2>4. ASSUME Outbound(p) \/ Step(p)
        PROVE  pc'[p] \notin {"forward", "asking"}
    <3>1. \E w \in {"loop", "select", "sending", "closing", "ended"} : pc' = [pc EXCEPT ![p] = w]
      <4>1. CASE Outbound(p)
        BY <4>1, Zenon DEF Outbound, HandleRequest, HandleOther, startSend, goto
      <4>2. CASE Step(p)
        BY <4>2 DEF Step, Top, SendOk, SendFail, ActorMgrReply, Forward, Leave, Close,
                    startSend, goto
      <4> QED BY <2>4, <4>1, <4>2
    <3> QED BY <3>1 DEF SInv, Types
  <2>5. ASSUME \/ \E s \in Sides : Signal(s) \/ TimerSend(s) \/ ActorRecv(s) \/ ActorReply(s)
                                   \/ ActorStop(s)
               \/ \E r \in Requests : Submit(r) \/ Refuse(r) \/ Abandon(r) \/ Age(r)
                                      \/ TaskForward(r) \/ TaskCreated(r) \/ TaskReply(r)
               \/ LinkFail
        PROVE  UNCHANGED <<pc, job>>
    BY <2>5, Zenon DEF Signal, TimerSend, ActorRecv, ActorReply, ActorStop, Submit, Refuse,
                      Abandon, Age,
                TaskForward, TaskCreated, TaskReply, LinkFail, sessionVars
  <2>6. ASSUME NEW s \in Sides, Inbound(s) \/ Outbound(s) \/ Step(s)
        PROVE  taken(p)' \subseteq taken(p)
    <3>1. CASE s = p
      BY <2>2, <2>4, <2>6, <3>1
    <3>2. CASE s # p
      BY <2>1, <2>3, <2>6, <3>2
    <3> QED BY <3>1, <3>2
  <2>7. CASE UNCHANGED <<pc, job>>
    BY <2>1, <2>7
  <2> QED BY <2>5, <2>6, <2>7, Zenon DEF Next

\* The step of a session that receives.
<1>RouteInbound.
    ASSUME SInv, PathInv, Next, NEW p \in Sides, Inbound(p), NEW x, NEW y \in Requests,
           Kind[y] = "do_send", Route(p, x, y)
    PROVE  Route(p, x, y)'
  <2> USE <1>RouteInbound
  <2>1. task'[y] # "none" => task[y] # "none"
    <3>1. \A s \in Sides : ~Forward(s) \/ s # p
      BY Zenon DEF Forward, Inbound, HandleActorMessage, HandleNodeMessage,
                   HandleMessageResponse,
             RecvFail, received
    <3>2. \A s \in Sides \ {p} : ~Forward(s)
      <4> SUFFICES ASSUME NEW s \in Sides \ {p}, Forward(s)
                   PROVE  FALSE
        OBVIOUS
      <4>1. pc[s] = "forward" /\ pc' = [pc EXCEPT ![s] = "loop"] /\ pc[p] = "select"
        BY Zenon DEF Forward, goto, Inbound, HandleActorMessage, HandleNodeMessage,
               HandleMessageResponse, RecvFail, received
      <4>2. \E w : pc' = [pc EXCEPT ![p] = w]
        BY Zenon DEF Inbound, HandleActorMessage, HandleNodeMessage, HandleMessageResponse,
                     RecvFail,
               spawn, startSend, goto
      <4> QED BY <4>1, <4>2 DEF SInv, Types
    <3> QED BY <3>1, <3>2, <1>NoTask
  <2>2. CASE RecvFail(p)
    <3>1. wire' = wire /\ pc' = [pc EXCEPT ![p] = "loop"]
      BY <2>2, Zenon DEF RecvFail, goto, linkVars
    <3>2. taken(p)' = {}
      BY <3>1 DEF taken, SInv, Types
    <3> QED BY <2>1, <3>1, <3>2, <1>RouteKept, ZenonT(20)
  <2>3. CASE ~RecvFail(p)
    <3>1. PICK type : received(p, type)
      BY <2>3, Zenon DEF Inbound, HandleActorMessage, HandleNodeMessage, HandleMessageResponse
    <3>2. /\ pc[p] = "select" /\ wire[p] # <<>> /\ wire'[p] = Tail(wire[p])
          /\ Head(wire[p]).type = type
      BY <3>1, Receives DEF PathInv
    <3>3. PICK h : h = Head(wire[p])
      OBVIOUS
    <3>4. taken(p)' \subseteq {h.req} /\ (taken(p)' # {} => h.type = "request")
      <4>1. \/ pc'[p] \notin {"forward", "asking"}
            \/ /\ received(p, "request") /\ job' = [job EXCEPT ![p] = Head(wire[p])]
        <5>1. CASE HandleActorMessage(p)
          BY <5>1, Zenon DEF HandleActorMessage, spawn, goto, SInv, Types
        <5>2. CASE HandleNodeMessage(p)
          BY <5>2 DEF HandleNodeMessage, spawn, startSend, goto, SInv, Types
        <5>3. CASE HandleMessageResponse(p)
          BY <5>3, Zenon DEF HandleMessageResponse, goto, SInv, Types
        <5> QED BY <2>3, <5>1, <5>2, <5>3, Zenon DEF Inbound
      <4>2. received(p, "request") /\ job' = [job EXCEPT ![p] = Head(wire[p])] =>
              job'[p] = h /\ h.type = "request"
        BY <3>3 DEF received, SInv, Types
      <4> QED BY <4>1, <4>2 DEF taken
    <3>5. wire[p] \in Seq(Msg)
      BY Zenon DEF SInv, Types
    <3>6. /\ reqs(wire'[p]) \subseteq reqs(wire[p]) /\ inOrder(wire'[p], x, y)
          /\ h.type = "request" => h.req \in reqs(wire[p])
          /\ about(h, y) => x \notin reqs(wire[p])
      BY <3>2, <3>3, <3>5, Popped DEF Route
    <3>7. y \in taken(p)' => about(h, y)
      BY <3>4 DEF about
    <3>8. taken(p)' \subseteq reqs(wire[p])
      BY <3>4, <3>6, Zenon
    <3> QED BY <2>1, <3>6, <3>7, <3>8, ZenonT(20) DEF Route
  <2> QED BY <2>2, <2>3

\* What the other side sends, while y waits for its turn.
<1>RouteSend.
    ASSUME SInv, PathInv, Next, NEW s \in Sides, SendOk(s), NEW x, NEW y, Pair(s, x, y)
    PROVE  Route(Peer(s), x, y)'
  <2> USE <1>RouteSend
  <2>1. PICK p \in Sides : p = Peer(s) /\ p # s
    BY Peers
  <2>2. /\ pc[s] = "sending" /\ pc' = [pc EXCEPT ![s] = "loop"] /\ job' = [job EXCEPT ![s] = noJob]
        /\ wire' = [wire EXCEPT ![p] = Append(wire[p], job[s])] /\ task' = task
    BY <2>1 DEF SendOk, goto, taskVars
  <2>3. wire'[p] = Append(wire[p], job[s]) /\ wire[p] \in Seq(Msg) /\ job[s] \in Msg
    BY <2>2 DEF SInv, Types
  <2>4. taken(p)' = taken(p)
    BY <2>1, <2>2 DEF taken, SInv, Types
  <2>5. job[s].type = "request" => status[job[s].req] = "sending"
    BY <2>2, ZenonT(20) DEF SInv, Placed, current, at
  <2>6. /\ y \in Requests /\ Route(p, x, y)
        /\ status[x] = "sending" => status[y] = "queued"
    BY <2>1, ZenonT(20) DEF Pair, Before
  <2>7. status[y] \in {"queued", "sending"} => y \notin reqs(wire[p]) \cup taken(p) /\ task[y] = "none"
    BY <2>6, ZenonT(20) DEF PathInv, Fresh, Tasks, Early
  <2>8. about(job[s], x) => x # y /\ y \notin reqs(wire[p]) \cup taken(p) /\ task[y] = "none"
    BY <2>5, <2>6, <2>7, ZenonT(20) DEF about
  <2>9. inOrder(wire'[p], x, y)
    <3>1. inOrder(wire[p], x, y)
      BY <2>6 DEF Route
    <3> QED BY <2>3, <2>8, <3>1, Pushed
  <2>10. x \in reqs(wire'[p]) => x \in reqs(wire[p]) \/ about(job[s], x)
    <3>1. reqs(Append(wire[p], job[s]))
            = reqs(wire[p]) \cup (IF job[s].type = "request" THEN {job[s].req} ELSE {})
      BY <2>3, Pushed
    <3> QED BY <2>3, <3>1 DEF about
  <2>11. Route(p, x, y)'
    BY <2>2, <2>4, <2>6, <2>8, <2>9, <2>10, Zenon DEF Route
  <2> QED BY <2>1, <2>11

<1>RouteOrder.
    ASSUME SInv, PathInv, Next, NEW s \in Sides, NEW x, NEW y, Pair(s, x, y)
    PROVE  Route(Peer(s), x, y)'
  <2> USE <1>RouteOrder
  <2>1. PICK p \in Sides : p = Peer(s) /\ s = Peer(p)
    BY Peers
  <2>2. /\ y \in Requests /\ Kind[y] = "do_send" /\ Origin[y] = s /\ Route(p, x, y)
    BY <2>1 DEF Pair, Before
  <2>3. CASE Inbound(p)
    BY <2>1, <2>2, <2>3, <1>RouteInbound, Zenon
  <2>4. CASE SendOk(s)
    BY <2>4, <1>RouteSend
  <2>5. CASE LinkFail
    <3>1. wire'[p] = <<>> /\ UNCHANGED <<pc, job, task>>
      BY <2>5 DEF LinkFail, sessionVars, taskVars
    <3>2. taken(p)' = taken(p) /\ reqs(wire'[p]) = {} /\ wire'[p] \in Seq(Msg)
      BY <3>1, EmptyQueue, Zenon DEF taken
    <3>3. inOrder(wire'[p], x, y)
      BY <3>1, <3>2, Absent, Zenon
    <3>4. Route(p, x, y)'
      BY <2>2, <3>1, <3>2, <3>3 DEF Route
    <3> QED BY <2>1, <3>4
  <2>6. CASE Forward(p) /\ job[p].req = y
    <3>1. pc[p] = "forward" /\ pc' = [pc EXCEPT ![p] = "loop"] /\ wire' = wire
      BY <2>6, Zenon DEF Forward, goto, linkVars
    <3>2. y \in taken(p) /\ taken(p)' = {}
      BY <2>6, <3>1 DEF taken, SInv, Types
    <3>3. Route(p, x, y)'
      BY <2>2, <3>1, <3>2, ZenonT(20) DEF Route
    <3> QED BY <2>1, <3>3
  <2>7. CASE ~Inbound(p) /\ ~SendOk(s) /\ ~LinkFail /\ ~(Forward(p) /\ job[p].req = y)
    <3>1. wire'[p] = wire[p] /\ taken(p)' \subseteq taken(p)
      BY <2>1, <2>7, WireAlone, <1>Untaken
    <3>2. Forward(s) => job[s].req # y
      <4>1. Forward(s) => job[s].req \in taken(s)
        BY Zenon DEF Forward, taken
      <4>2. \A r \in taken(s) : Origin[r] = Peer(s)
        BY Apart
      <4> QED BY <2>2, <4>1, <4>2, Peers, Zenon
    <3>3. \A u \in Sides : Forward(u) => job[u].req # y
      BY <2>1, <2>7, <3>2, Peers
    <3>4. task'[y] # "none" => task[y] # "none"
      BY <2>2, <3>3, <1>NoTask, ZenonT(20)
    <3> QED BY <2>1, <2>2, <3>1, <3>4, <1>RouteKept, Zenon
  <2> QED BY <2>3, <2>4, <2>5, <2>6, <2>7

<1> SUFFICES ASSUME SInv, PathInv, Next, NEW s \in Sides, NEW x, NEW y, Pair(s, x, y)
             PROVE  Before(s, x, y)'
  OBVIOUS
<1>1. x \in Requests /\ y \in Requests /\ status[x] # "idle" /\ inOrder(mailbox[s], x, y)
  BY DEF Pair, Before
<1>2. inOrder(mailbox'[s], x, y)
  BY <1>1, <1>BoxOrder
<1>3. status'[x] \in {"queued", "sending"} => status'[y] = "queued"
  BY <1>TurnOrder
<1>4. Route(Peer(s), x, y)'
  BY <1>RouteOrder
<1> QED BY <1>2, <1>3, <1>4 DEF Before

LEMMA NeverIdle ==
  ASSUME SInv, Next, NEW r \in Requests, status[r] # "idle"
  PROVE  status'[r] # "idle"
<1>1. CASE Onward
  BY <1>1 DEF Onward, Early
<1>2. ASSUME NEW q \in Requests, Submit(q)
      PROVE  status'[r] # "idle"
  BY <1>2 DEF Submit, SInv, Types
<1>3. ASSUME NEW s \in Sides, HandleRequest(s)
      PROVE  status'[r] # "idle"
  <2>1. PICK v \in {"closed", "sending"} : status' = [status EXCEPT ![Head(mailbox[s]).req] = v]
    BY <1>3 DEF HandleRequest
  <2> QED BY <2>1, Zenon DEF SInv, Types
<1>4. ASSUME NEW s \in Sides, Leave(s)
      PROVE  status'[r] # "idle"
  BY <1>4 DEF Leave, closed
<1> QED BY <1>1, <1>2, <1>3, <1>4, StatusMoves, Zenon

LEMMA History ==
  ASSUME Next
  PROVE  issued' = issued \/ \E r \in Requests : Submit(r)
<1>1. ASSUME NEW s \in Sides, Inbound(s) \/ Outbound(s) \/ Step(s)
      PROVE  issued' = issued
  <2>1. CASE Inbound(s)
    BY <2>1, ZenonT(20) DEF Inbound, HandleActorMessage, HandleNodeMessage,
                    HandleMessageResponse, RecvFail,
                clientVars
  <2>2. CASE Outbound(s)
    BY <2>2, Zenon DEF Outbound, HandleRequest, HandleOther, clientVars
  <2>3. CASE Step(s)
    BY <2>3 DEF Step, Top, SendOk, SendFail, ActorMgrReply, Forward, Leave, Close, clientVars
  <2> QED BY <1>1, <2>1, <2>2, <2>3
<1>2. ASSUME \/ \E s \in Sides : Signal(s) \/ TimerSend(s) \/ ActorRecv(s) \/ ActorReply(s)
                                 \/ ActorStop(s)
             \/ \E r \in Requests : Refuse(r) \/ Abandon(r) \/ Age(r)
                                    \/ TaskForward(r) \/ TaskCreated(r) \/ TaskReply(r)
             \/ LinkFail
      PROVE  issued' = issued
  BY <1>2, Zenon DEF Signal, TimerSend, ActorRecv, ActorReply, ActorStop, Refuse, Abandon, Age,
              TaskForward, TaskCreated, TaskReply, LinkFail, clientVars
<1> QED BY <1>1, <1>2, Zenon DEF Next

LEMMA OrderedStep ==
  ASSUME SInv, PathInv, Ordered, [Next]_vars
  PROVE  Ordered'
<1>1. CASE UNCHANGED vars
  <2>1. \A p : taken(p)' = taken(p)
    BY <1>1, Zenon DEF vars, taken
  <2>2. ASSUME NEW s, NEW x, NEW y, Before(s, x, y) PROVE Before(s, x, y)'
    BY <1>1, <2>1, <2>2, SMTT(20) DEF vars, Before, Route
  <2> QED BY <1>1, <2>2, ZenonT(60) DEF vars, Ordered
<1>2. ASSUME Next, NEW s \in Sides, NEW i \in 1 .. Len(issued[s])
      PROVE  /\ issued[s][i] \in Requests /\ Kind[issued[s][i]] = "do_send"
             /\ Origin[issued[s][i]] = s
             /\ status[issued[s][i]] # "idle" /\ status'[issued[s][i]] # "idle"
  <2>1. /\ issued[s] \in Seq(Requests) /\ Kind[issued[s][i]] = "do_send"
        /\ Origin[issued[s][i]] = s /\ status[issued[s][i]] # "idle"
    BY Zenon DEF Ordered
  <2>2. issued[s][i] \in Requests
    BY <2>1
  <2> QED BY <1>2, <2>1, <2>2, NeverIdle, Zenon
<1>3. ASSUME Next, NEW s \in Sides, NEW i \in 1 .. Len(issued[s]), NEW j \in 1 .. Len(issued[s]),
             i < j, NEW x, NEW y, x = issued[s][i], y = issued[s][j]
      PROVE  Before(s, x, y)'
  <2>1. Pair(s, x, y)
    BY <1>2, <1>3, SMTT(20) DEF Pair, Ordered
  <2> QED BY <1>3, <2>1, PairKept, Zenon
<1>4. CASE Next /\ issued' = issued
  <2>1. \A s \in Sides : \A i \in 1 .. Len(issued'[s]) :
          /\ Kind[issued'[s][i]] = "do_send" /\ Origin[issued'[s][i]] = s
          /\ status'[issued'[s][i]] # "idle"
    BY <1>2, <1>4, Zenon
  <2>2. ASSUME NEW s \in Sides, NEW i \in 1 .. Len(issued'[s]), NEW j \in 1 .. Len(issued'[s]),
               i < j
        PROVE  Before(s, issued[s][i], issued[s][j])'
    <3>1. PICK x, y : x = issued[s][i] /\ y = issued[s][j]
      BY Zenon
    <3>2. i \in 1 .. Len(issued[s]) /\ j \in 1 .. Len(issued[s])
      BY <1>4, Zenon
    <3>3. Before(s, x, y)'
      BY <1>3, <1>4, <2>2, <3>1, <3>2, Zenon
    <3> QED BY <1>4, <3>1, <3>3, Zenon DEF Before, Route
  <2>3. issued' \in [Sides -> Seq(Requests)]
    BY <1>4, Zenon DEF Ordered
  <2> QED BY <2>1, <2>2, <2>3, Zenon DEF Ordered
<1>5. ASSUME NEW r \in Requests, Submit(r), Kind[r] = "do_send", Next
      PROVE  Ordered'
  <2>1. PICK o \in Sides : o = Origin[r]
    BY SessionAssumption
  <2>2. /\ issued' = [issued EXCEPT ![o] = Append(issued[o], r)]
        /\ status' = [status EXCEPT ![r] = "queued"]
    BY <1>5, <2>1, Zenon DEF Submit
  <2>3. issued \in [Sides -> Seq(Requests)] /\ issued[o] \in Seq(Requests)
    BY Zenon DEF Ordered
  <2>4. PICK n \in Nat : n = Len(issued[o])
    BY <2>3
  <2>5. /\ issued' \in [Sides -> Seq(Requests)] /\ Len(issued'[o]) = n + 1
        /\ issued'[o][n + 1] = r
        /\ \A i \in 1 .. n : issued'[o][i] = issued[o][i]
        /\ \A s \in Sides \ {o} : issued'[s] = issued[s]
    BY <2>2, <2>3, <2>4
  <2>6. /\ \A i \in 1 .. n + 1 : i \in 1 .. n \/ i = n + 1
        /\ \A i, j \in 1 .. n + 1 : i < j => i \in 1 .. n
    OBVIOUS
  <2>7. status'[r] # "idle"
    BY <2>2, Zenon DEF SInv, Types
  <2>8. ASSUME NEW s \in Sides, NEW i \in 1 .. Len(issued'[s])
        PROVE  /\ Kind[issued'[s][i]] = "do_send" /\ Origin[issued'[s][i]] = s
               /\ status'[issued'[s][i]] # "idle"
    <3>1. CASE s # o \/ i \in 1 .. n
      <4>1. i \in 1 .. Len(issued[s]) /\ issued'[s][i] = issued[s][i]
        BY <2>4, <2>5, <3>1, Zenon
      <4> QED BY <1>2, <1>5, <4>1, Zenon
    <3>2. CASE s = o /\ i = n + 1
      BY <1>5, <2>1, <2>5, <2>7, <3>2, Zenon
    <3> QED BY <2>5, <2>6, <3>1, <3>2
  <2>9. ASSUME NEW s \in Sides, NEW i \in 1 .. Len(issued'[s]), NEW j \in 1 .. Len(issued'[s]),
               i < j, NEW x, NEW y, x = issued'[s][i], y = issued'[s][j]
        PROVE  Before(s, x, y)'
    <3>1. CASE s # o \/ j \in 1 .. n
      <4>1. i \in 1 .. Len(issued[s]) /\ j \in 1 .. Len(issued[s])
        BY <2>4, <2>5, <2>6, <2>9, <3>1, Zenon
      <4>2. x = issued[s][i] /\ y = issued[s][j]
        BY <2>4, <2>5, <2>9, <3>1, <4>1, Zenon
      <4> QED BY <1>3, <1>5, <2>9, <4>1, <4>2, Zenon
    <3>2. CASE s = o /\ j = n + 1
      <4>1. i \in 1 .. Len(issued[s]) /\ x = issued[s][i] /\ y = r
        BY <2>4, <2>5, <2>6, <2>9, <3>2, Zenon
      <4>2. x \in Requests /\ status[x] # "idle"
        BY <1>2, <1>5, <4>1, Zenon
      <4> QED BY <1>5, <2>1, <3>2, <4>1, <4>2, LastPair
    <3> QED BY <2>5, <2>6, <3>1, <3>2, Zenon
  <2>10. ASSUME NEW s \in Sides, NEW i \in 1 .. Len(issued'[s]), NEW j \in 1 .. Len(issued'[s]),
                i < j
         PROVE  Before(s, issued[s][i], issued[s][j])'
    <3>1. PICK x, y : x = issued'[s][i] /\ y = issued'[s][j]
      BY Zenon
    <3>2. Before(s, x, y)'
      BY <2>9, <2>10, <3>1
    <3> QED BY <3>1, <3>2 DEF Before, Route
  <2>11. issued' \in [Sides -> Seq(Requests)]
    BY <2>5
  <2> QED BY <2>8, <2>10, <2>11, Zenon DEF Ordered
<1>6. ASSUME NEW r \in Requests, Submit(r), Kind[r] # "do_send"
      PROVE  issued' = issued
  BY <1>6, Zenon DEF Submit
<1> QED BY <1>1, <1>4, <1>5, <1>6, History, Zenon

LEMMA OrderedImplies ==
  ASSUME SInv, PathInv, Ordered
  PROVE  DoSendInOrder
<1> SUFFICES ASSUME NEW s \in Sides, NEW i \in DOMAIN issued[s], NEW j \in DOMAIN issued[s], i < j,
                    task[issued[s][j]] \in {"waiting", "done"}
             PROVE  issued[s][i] \notin inTransit(Peer(s))
  BY DEF DoSendInOrder
<1>1. PICK x, y : x = issued[s][i] /\ y = issued[s][j]
  OBVIOUS
<1>2. issued[s] \in Seq(Requests) /\ DOMAIN issued[s] = 1 .. Len(issued[s])
  BY DEF Ordered
<1>3. /\ x \in Requests /\ y \in Requests /\ Kind[x] = "do_send" /\ Before(s, x, y)
  BY <1>1, <1>2 DEF Ordered
<1>4. PICK p \in Sides : p = Peer(s)
  BY Peers, Zenon
<1>5. task[y] # "none" /\ status[y] \notin Early /\ task[x] # "forward"
  BY <1>1, <1>3 DEF PathInv, Tasks
<1>6. status[x] \notin {"queued", "sending"} /\ x \notin reqs(wire[p]) \cup taken(p)
  BY <1>3, <1>4, <1>5, ZenonT(20) DEF Before, Route, Early
<1>7. ASSUME NEW k \in DOMAIN wire[p]
      PROVE  wire[p][k].req # x
  <2>1. wire[p] \in Seq(Sent(Peer(p))) /\ Peer(p) \in Sides
    BY Peers, Zenon DEF PathInv, Travels
  <2>2. k \in 1 .. Len(wire[p]) /\ wire[p][k] \in Sent(Peer(p))
    BY <2>1
  <2>3. wire[p][k].type = "request" => wire[p][k].req \in reqs(wire[p])
    BY <2>2, Zenon DEF reqs
  <2>4. wire[p][k].type \in {"request", "response"}
        /\ (wire[p][k].type = "response" => Kind[wire[p][k].req] # "do_send")
    BY <2>2 DEF Sent
  <2> QED BY <1>3, <1>6, <2>3, <2>4, ZenonT(20)
<1>8. pc[p] = "forward" => job[p].req # x
  BY <1>6, Zenon DEF taken
<1>9. x \notin inTransit(p)
  BY <1>5, <1>6, <1>7, <1>8 DEF inTransit
<1> QED BY <1>1, <1>4, <1>9

\* Messages sent with do_send reach the remote actor in the order in which they were
\* queued, for any number of messages and whatever fails: the session keeps the order
\* of its mailbox, the connection keeps its own, and handle_actor_message gives each to
\* the actor before it receives the next.
THEOREM InOrder == Spec => []DoSendInOrder
<1>1. Init => Ordered
  <2> SUFFICES ASSUME Init
               PROVE  Ordered
    OBVIOUS
  <2>1. <<>> \in Seq(Requests) /\ Len(<<>>) = 0
    OBVIOUS
  <2>2. issued \in [Sides -> Seq(Requests)] /\ \A s \in Sides : Len(issued[s]) = 0
    BY <2>1 DEF Init
  <2> QED BY <2>2 DEF Ordered
<1>2. SInv /\ PathInv /\ Ordered /\ [Next]_vars => Ordered'
  BY OrderedStep, Zenon
<1>3. SInv /\ PathInv /\ Ordered => DoSendInOrder
  BY OrderedImplies, Zenon
<1> QED BY <1>1, <1>2, <1>3, Invariant, Path, PTL DEF Spec

-----------------------------------------------------------------------------
(* Tags.                                                                    *)

Tagful == {r \in Requests : Kind[r] # "do_send"}

\* The messages that bear the tag that f gives to their request.
Marked(f) ==
  {m \in Msg : m.type \in {"request", "response"} /\ m.req \in Tagful =>
                 m.req \in DOMAIN f /\ f[m.req] = m.tag}
MarkedBox(f) == {m \in Msg : m.type = "response" => m \in Marked(f)}

\* Whatever carries a tag carries the one that its request was given.
OnWire(f, s) == wire[s] \in Seq(Marked(f))
InBox(f, s) == mailbox[s] \in Seq(MarkedBox(f))
InHand(f, s) ==
  /\ pc[s] \in {"sending", "asking"} => job[s] \in Marked(f)
  /\ job[s].type = "response" => pc[s] = "sending"
InMap(f, s) ==
  \A t \in Tags : res_tx[s][t] # None => res_tx[s][t] \in DOMAIN f /\ f[res_tx[s][t]] = t
InTasks(f) ==
  \A r \in Tagful : task[r] \in {"forward", "waiting", "creating", "reply"} =>
                      r \in DOMAIN f /\ f[r] = inTag[r]

Carried(f) ==
  /\ InTasks(f)
  /\ \A s \in Sides : OnWire(f, s) /\ InBox(f, s) /\ InHand(f, s) /\ InMap(f, s)

LEMMA SeqMono ==
  ASSUME NEW S, NEW T, S \subseteq T
  PROVE  Seq(S) \subseteq Seq(T)
OBVIOUS

LEMMA SeqMember ==
  ASSUME NEW S, NEW q \in Seq(S), NEW i \in DOMAIN q
  PROVE  q[i] \in S
OBVIOUS

\* A request that has left the mailbox does not come back to it.
LEMMA Beyond ==
  ASSUME SInv, Next, NEW r \in Requests, status[r] \notin {"idle", "queued"}
  PROVE  status'[r] \notin {"idle", "queued"}
<1>1. CASE Onward
  BY <1>1 DEF Onward, Early
<1>2. ASSUME NEW q \in Requests, Submit(q)
      PROVE  status'[r] \notin {"idle", "queued"}
  <2>1. status[q] = "idle" /\ status' = [status EXCEPT ![q] = "queued"]
    BY <1>2 DEF Submit
  <2> QED BY <2>1 DEF SInv, Types
<1>3. ASSUME NEW s \in Sides, HandleRequest(s)
      PROVE  status'[r] \notin {"idle", "queued"}
  <2>1. PICK v \in {"closed", "sending"} : status' = [status EXCEPT ![Head(mailbox[s]).req] = v]
    BY <1>3 DEF HandleRequest
  <2> QED BY <2>1, Zenon DEF SInv, Types
<1>4. ASSUME NEW s \in Sides, Leave(s)
      PROVE  status'[r] \notin {"idle", "queued"}
  BY <1>4, Zenon DEF Leave, closed
<1> QED BY <1>1, <1>2, <1>3, <1>4, StatusMoves, Zenon

\* Any message without an answer is marked, as is an answer to a marked request.
LEMMA Marks ==
  ASSUME NEW f
  PROVE  /\ \A r \in Requests : \A t \in Tags :
              /\ r \notin Tagful => msg("request", r, t) \in Marked(f)
              /\ msg("request", r, t) \in MarkedBox(f)
              /\ (r \in Tagful => r \in DOMAIN f /\ f[r] = t)
                   => msg("response", r, t) \in Marked(f) /\ msg("response", r, t) \in MarkedBox(f)
         /\ \A type \in {"signal", "cleanup"} : msg(type, None, 0) \in MarkedBox(f)
         /\ \A m \in Marked(f) :
              m.type = "request" => msg("response", m.req, m.tag) \in Marked(f)
<1>1. 0 \in Tags
  BY TagsZero
<1> QED BY <1>1 DEF Marked, MarkedBox, Msg, Message, msg

\* The requests that a session starts to send bear the tags of f.
Tagged(f) ==
  \A s \in Sides :
    HandleRequest(s) /\ startSend(s, msg("request", Head(mailbox[s]).req, tag[s]))
      => msg("request", Head(mailbox[s]).req, tag[s]) \in Marked(f)

\* What a side may find on the wire is what was there, and what its peer was sending.
LEMMA WireFrom ==
  ASSUME SInv, Next, NEW S, NEW s \in Sides, wire[s] \in Seq(S),
         pc[Peer(s)] = "sending" => job[Peer(s)] \in S
  PROVE  wire'[s] \in Seq(S)
<1>1. CASE wire'[s] = wire[s]
  BY <1>1, Zenon
<1>2. CASE wire'[s] = <<>>
  BY <1>2
<1>3. CASE Inbound(s)
  <2>1. wire' = wire \/ (wire[s] # <<>> /\ wire' = [wire EXCEPT ![s] = Tail(wire[s])])
    BY <1>3, Zenon DEF Inbound, HandleActorMessage, HandleNodeMessage, HandleMessageResponse,
                       RecvFail, received, linkVars
  <2>2. wire[s] # <<>> => Tail(wire[s]) \in Seq(S)
    BY SeqSteps, Zenon
  <2> QED BY <1>1, <2>1, <2>2, Zenon DEF SInv, Types
<1>4. CASE SendOk(Peer(s))
  <2>1. PICK p \in Sides : p = Peer(s) /\ Peer(p) = s
    BY Peers
  <2>2. pc[p] = "sending" /\ wire' = [wire EXCEPT ![s] = Append(wire[s], job[p])]
    BY <1>4, <2>1 DEF SendOk
  <2>3. Append(wire[s], job[p]) \in Seq(S)
    BY <2>1, <2>2, SeqSteps, Zenon
  <2> QED BY <2>2, <2>3, Zenon DEF SInv, Types
<1>5. CASE LinkFail
  BY <1>2, <1>5 DEF LinkFail
<1> QED BY <1>1, <1>3, <1>4, <1>5, WireAlone, ZenonT(20)

\* What comes into a mailbox: requests of its side, answers of tasks, signals, and the
\* timer's messages.
LEMMA BoxFrom ==
  ASSUME SInv, Next, NEW S, NEW s \in Sides, mailbox[s] \in Seq(S),
         \A type \in {"signal", "cleanup"} : msg(type, None, 0) \in S,
         \A r \in Requests : msg("request", r, 0) \in S,
         \A r \in Requests : TaskReply(r) => msg("response", r, inTag[r]) \in S
  PROVE  mailbox'[s] \in Seq(S)
<1>0. mailbox \in [Sides -> Seq(Msg)]
  BY DEF SInv, Types
<1>1. CASE mailbox'[s] = mailbox[s]
  BY <1>1, Zenon
<1>2. ASSUME NEW u \in Sides, NEW m \in S, enqueue(u, m)
      PROVE  mailbox'[s] \in Seq(S)
  <2>1. mailbox'[s] = mailbox[s] \/ mailbox'[s] = Append(mailbox[s], m)
    BY <1>0, <1>2 DEF enqueue
  <2> QED BY <2>1, SeqSteps, Zenon
<1>3. ASSUME NEW u \in Sides, mailbox[u] # <<>>, mailbox' = [mailbox EXCEPT ![u] = Tail(@)]
      PROVE  mailbox'[s] \in Seq(S)
  <2>1. mailbox'[s] = mailbox[s] \/ (mailbox[s] # <<>> /\ mailbox'[s] = Tail(mailbox[s]))
    BY <1>0, <1>3
  <2> QED BY <2>1, SeqSteps, Zenon
<1>4. ASSUME NEW u \in Sides, Leave(u)
      PROVE  mailbox'[s] \in Seq(S)
  <2>1. mailbox'[s] = mailbox[s] \/ mailbox'[s] = <<>>
    BY <1>0, <1>4 DEF Leave
  <2>2. <<>> \in Seq(S)
    OBVIOUS
  <2> QED BY <2>1, <2>2, Zenon
<1>5. ASSUME NEW u \in Sides, Outbound(u)
      PROVE  mailbox'[s] \in Seq(S)
  BY <1>3, <1>5, Zenon DEF Outbound, HandleRequest, HandleOther
<1>6. ASSUME NEW u \in Sides, Signal(u) \/ TimerSend(u)
      PROVE  mailbox'[s] \in Seq(S)
  <2>1. \/ mailbox' = mailbox
        \/ \E type \in {"signal", "cleanup"} : enqueue(u, msg(type, None, 0))
    BY <1>6, Zenon DEF Signal, TimerSend
  <2> QED BY <1>1, <1>2, <2>1, Zenon
<1>7. ASSUME NEW r \in Requests, TaskReply(r) \/ Submit(r)
      PROVE  mailbox'[s] \in Seq(S)
  <2>1. PICK u \in Sides : u = Peer(Origin[r])
    BY Peers, SessionAssumption
  <2>2. \/ mailbox' = mailbox
        \/ TaskReply(r) /\ enqueue(u, msg("response", r, inTag[r]))
        \/ enqueue(Origin[r], msg("request", r, 0))
    BY <1>7, <2>1, Zenon DEF TaskReply, Submit
  <2>3. Origin[r] \in Sides
    BY SessionAssumption
  <2> QED BY <1>1, <1>2, <2>2, <2>3, Zenon
<1>8. ASSUME NEW u \in Sides, Inbound(u) \/ (Step(u) /\ ~Leave(u)) \/ ActorRecv(u)
                              \/ ActorReply(u) \/ ActorStop(u)
      PROVE  mailbox' = mailbox
  BY <1>8, Zenon DEF Inbound, HandleActorMessage, HandleNodeMessage, HandleMessageResponse,
                     RecvFail, Step, Top, SendOk, SendFail, ActorMgrReply, Forward, Close,
                     ActorRecv, ActorReply, ActorStop
<1>9. ASSUME \/ \E r \in Requests : Refuse(r) \/ Abandon(r) \/ Age(r) \/ TaskForward(r)
                                    \/ TaskCreated(r)
             \/ LinkFail
      PROVE  mailbox' = mailbox
  BY <1>9, Zenon DEF Refuse, Abandon, Age, TaskForward, TaskCreated, LinkFail
<1> QED BY <1>1, <1>4, <1>5, <1>6, <1>7, <1>8, <1>9, Zenon DEF Next

\* Only its own steps change where a session is and what it has in its hands.
LEMMA HandAlone ==
  ASSUME SInv, Next, NEW s \in Sides, ~Inbound(s), ~Outbound(s), ~Step(s)
  PROVE  pc'[s] = pc[s] /\ job'[s] = job[s]
<1>1. ASSUME NEW u \in Sides, Inbound(u) \/ Outbound(u) \/ Step(u)
      PROVE  pc'[s] = pc[s] /\ job'[s] = job[s]
  <2>1. u # s
    BY <1>1, Zenon
  <2>2. /\ \E w : pc' = [pc EXCEPT ![u] = w]
        /\ job' = job \/ \E m : job' = [job EXCEPT ![u] = m]
    <3>1. CASE Inbound(u)
      BY <3>1, Zenon DEF Inbound, HandleActorMessage, HandleNodeMessage, HandleMessageResponse,
                         RecvFail, spawn, startSend, goto
    <3>2. CASE Outbound(u)
      BY <3>2, Zenon DEF Outbound, HandleRequest, HandleOther, startSend, goto
    <3>3. CASE Step(u)
      BY <3>3, Zenon DEF Step, Top, SendOk, SendFail, ActorMgrReply, Forward, Leave, Close,
                         startSend, goto
    <3> QED BY <1>1, <3>1, <3>2, <3>3, Zenon
  <2> QED BY <2>1, <2>2, Zenon DEF SInv, Types
<1>2. ASSUME \/ \E u \in Sides : Signal(u) \/ TimerSend(u) \/ ActorRecv(u) \/ ActorReply(u)
                                 \/ ActorStop(u)
             \/ \E r \in Requests : Submit(r) \/ Refuse(r) \/ Abandon(r) \/ Age(r)
                                    \/ TaskForward(r) \/ TaskCreated(r) \/ TaskReply(r)
             \/ LinkFail
      PROVE  pc'[s] = pc[s] /\ job'[s] = job[s]
  BY <1>2, Zenon DEF Signal, TimerSend, ActorRecv, ActorReply, ActorStop, Submit, Refuse,
                     Abandon, Age, TaskForward, TaskCreated, TaskReply, LinkFail, sessionVars
<1> QED BY <1>1, <1>2, Zenon DEF Next

\* Every step keeps the tag of a request with it, as long as sending gives out the tags of f.
LEMMA CarriedStep ==
  SInv /\ PathInv /\ Next => \A f : Carried(f) /\ Tagged(f) => Carried(f)'

<1>WireMarked.
    ASSUME SInv, Next, NEW f, NEW s \in Sides, OnWire(f, s), InHand(f, Peer(s))
    PROVE  OnWire(f, s)'
  <2> USE <1>WireMarked
  <2>1. pc[Peer(s)] = "sending" => job[Peer(s)] \in Marked(f)
    BY Zenon DEF InHand
  <2> QED BY <2>1, WireFrom, Zenon DEF OnWire

<1>BoxMarked.
    ASSUME SInv, Next, NEW f, NEW s \in Sides, InBox(f, s), InTasks(f)
    PROVE  InBox(f, s)'
  <2> USE <1>BoxMarked
  <2>1. /\ \A r \in Requests : msg("request", r, 0) \in MarkedBox(f)
        /\ \A type \in {"signal", "cleanup"} : msg(type, None, 0) \in MarkedBox(f)
    BY Marks, TagsZero, Zenon
  <2>2. ASSUME NEW r \in Requests, TaskReply(r)
        PROVE  msg("response", r, inTag[r]) \in MarkedBox(f)
    <3>1. inTag[r] \in Tags /\ task[r] = "reply"
      BY <2>2, Zenon DEF SInv, Types, TaskReply
    <3> QED BY <3>1, Marks DEF InTasks
  <2> QED BY <2>1, <2>2, BoxFrom, Zenon DEF InBox

<1>HandMarked.
    ASSUME SInv, PathInv, Next, NEW f, NEW s \in Sides, OnWire(f, s), InBox(f, s), InHand(f, s), Tagged(f)
    PROVE  InHand(f, s)'
  <2> USE <1>HandMarked
  <2>0. pc \in [Sides -> PCs] /\ job \in [Sides -> Msg]
    BY DEF SInv, Types
  <2>1. CASE pc'[s] = pc[s] /\ job'[s] = job[s]
    BY <2>1, Zenon DEF InHand
  <2>2. ASSUME NEW w, pc' = [pc EXCEPT ![s] = w], w \notin {"sending", "asking"}, pc[s] # "sending",
               job'[s] = job[s]
        PROVE  InHand(f, s)'
    BY <2>0, <2>2, Zenon DEF InHand
  <2>3. ASSUME NEW w, pc' = [pc EXCEPT ![s] = w], w # "sending", NEW m,
               job' = [job EXCEPT ![s] = m], m.type # "response",
               w = "asking" => m \in Marked(f)
        PROVE  InHand(f, s)'
    BY <2>0, <2>3 DEF InHand
  <2>4. ASSUME NEW m \in Marked(f), startSend(s, m)
        PROVE  InHand(f, s)'
    BY <2>0, <2>4 DEF InHand, startSend, goto
  <2>5. CASE Inbound(s)
    <3>1. CASE RecvFail(s) \/ HandleMessageResponse(s)
      <4>1. /\ pc[s] # "sending" /\ pc' = [pc EXCEPT ![s] = "loop"] /\ job'[s] = job[s]
            /\ "loop" \notin {"sending", "asking"}
        BY <3>1, Zenon DEF RecvFail, HandleMessageResponse, received, goto
      <4> QED BY <2>2, <4>1, Zenon
    <3>2. ASSUME received(s, "request")
          PROVE  /\ pc[s] = "select" /\ Head(wire[s]) \in Marked(f) /\ Head(wire[s]).type = "request"
                 /\ msg("response", Head(wire[s]).req, Head(wire[s]).tag) \in Marked(f)
      <4>1. pc[s] = "select" /\ wire[s] # <<>> /\ Head(wire[s]).type = "request"
        BY <3>2, Zenon DEF received
      <4>2. Head(wire[s]) \in Marked(f)
        BY <4>1, SeqSteps DEF OnWire
      <4>3. msg("response", Head(wire[s]).req, Head(wire[s]).tag) \in Marked(f)
        BY <4>1, <4>2, Marks, Zenon
      <4> QED BY <4>1, <4>2, <4>3
    <3>3. CASE HandleActorMessage(s)
      <4>1. received(s, "request")
        BY <3>3, Zenon DEF HandleActorMessage
      <4>2. \/ pc' = [pc EXCEPT ![s] = "loop"] /\ job' = job
            \/ pc' = [pc EXCEPT ![s] = "forward"] /\ job' = [job EXCEPT ![s] = Head(wire[s])]
        BY <3>3, Zenon DEF HandleActorMessage, spawn, goto
      <4> QED BY <2>2, <2>3, <3>2, <4>1, <4>2, ZenonT(20)
    <3>4. CASE HandleNodeMessage(s)
      <4>1. received(s, "request")
        BY <3>4, Zenon DEF HandleNodeMessage
      <4>2. \/ pc' = [pc EXCEPT ![s] = "loop"] /\ job' = job
            \/ startSend(s, msg("response", Head(wire[s]).req, Head(wire[s]).tag))
            \/ pc' = [pc EXCEPT ![s] = "asking"] /\ job' = [job EXCEPT ![s] = Head(wire[s])]
        BY <3>4 DEF HandleNodeMessage, spawn, goto
      <4> QED BY <2>2, <2>3, <2>4, <3>2, <4>1, <4>2, ZenonT(20)
    <3> QED BY <2>5, <3>1, <3>3, <3>4 DEF Inbound
  <2>6. CASE HandleRequest(s)
    <3>1. pc[s] = "select"
      BY <2>6, Zenon DEF HandleRequest
    <3>2. \/ pc' = [pc EXCEPT ![s] = "loop"] /\ job' = job
          \/ startSend(s, msg("request", Head(mailbox[s]).req, tag[s]))
      BY <2>6 DEF HandleRequest, goto
    <3> QED BY <2>2, <2>4, <2>6, <3>1, <3>2, ZenonT(20) DEF Tagged
  <2>7. CASE HandleOther(s)
    <3>1. pc[s] = "select" /\ mailbox[s] # <<>>
      BY <2>7 DEF HandleOther
    <3>2. \/ pc' = [pc EXCEPT ![s] = "loop"] /\ job' = job
          \/ Head(mailbox[s]).type = "response" /\ startSend(s, Head(mailbox[s]))
      BY <2>7 DEF HandleOther, goto
    <3>3. Head(mailbox[s]) \in MarkedBox(f)
      BY <3>1, SeqSteps DEF InBox
    <3>4. Head(mailbox[s]).type = "response" => Head(mailbox[s]) \in Marked(f)
      BY <3>3 DEF MarkedBox
    <3> QED BY <2>2, <2>4, <3>1, <3>2, <3>4, Zenon
  <2>8. CASE Step(s)
    <3>1. CASE Top(s) \/ Leave(s) \/ Close(s)
      <4>1. pc[s] # "sending" /\ job' = job
            /\ \E w \in {"select", "closing", "ended"} : pc' = [pc EXCEPT ![s] = w]
        BY <3>1, Zenon DEF Top, Leave, Close, goto
      <4> QED BY <2>2, <4>1, Zenon
    <3>2. CASE SendOk(s) \/ SendFail(s) \/ Forward(s)
      <4>1. pc' = [pc EXCEPT ![s] = "loop"] /\ job' = [job EXCEPT ![s] = noJob]
        BY <3>2 DEF SendOk, SendFail, Forward, goto
      <4>2. noJob.type # "response" /\ "loop" # "sending" /\ "loop" # "asking"
        BY DEF noJob, msg
      <4> QED BY <2>3, <4>1, <4>2, Zenon
    <3>3. CASE ActorMgrReply(s)
      <4>1. pc[s] = "asking" /\ startSend(s, msg("response", job[s].req, job[s].tag))
        BY <3>3 DEF ActorMgrReply
      <4>2. job[s] \in Marked(f) /\ job[s].type = "request"
        BY <4>1, Zenon DEF InHand, PathInv, Travels
      <4>3. msg("response", job[s].req, job[s].tag) \in Marked(f)
        BY <4>2, Marks, Zenon
      <4> QED BY <2>4, <4>1, <4>3
    <3> QED BY <2>8, <3>1, <3>2, <3>3 DEF Step
  <2> QED BY <2>1, <2>5, <2>6, <2>7, <2>8, HandAlone, Zenon DEF Outbound

<1>MapMarked.
    ASSUME SInv, Next, NEW f, NEW s \in Sides, InMap(f, s), InHand(f, s)
    PROVE  InMap(f, s)'
  <2> USE <1>MapMarked
  <2>0. res_tx \in [Sides -> [Tags -> Requests \cup {None}]]
    BY DEF SInv, Types
  <2>1. CASE \A t \in Tags : res_tx'[s][t] \in {res_tx[s][t], None}
    BY <2>1 DEF InMap
  <2>2. ASSUME NEW u \in Sides, Inbound(u) \/ Top(u) \/ Close(u)
        PROVE  \A t \in Tags : res_tx'[s][t] \in {res_tx[s][t], None}
    <3>1. CASE res_tx' = res_tx
      BY <3>1
    <3>2. CASE HandleMessageResponse(u)
      <4>1. wire[u] # <<>> /\ wire' = [wire EXCEPT ![u] = Tail(@)]
        BY <3>2 DEF HandleMessageResponse, received
      <4>2. PICK h \in Tags : h = Head(wire[u]).tag
        BY <4>1, FromWire, Zenon
      <4>3. res_tx' = [res_tx EXCEPT ![u][h] = None]
        BY <3>2, <4>2, Zenon DEF HandleMessageResponse
      <4> QED BY <2>0, <4>3, Zenon
    <3>3. CASE cleanup_message_res_tx_map(u)
      BY <2>0, <3>3, Zenon DEF cleanup_message_res_tx_map
    <3>4. CASE Close(u)
      BY <2>0, <3>4 DEF Close
    <3>5. CASE Inbound(u) /\ ~HandleMessageResponse(u)
      BY <3>1, <3>5, Zenon DEF Inbound, HandleActorMessage, HandleNodeMessage, RecvFail
    <3>6. CASE Top(u)
      BY <3>1, <3>3, <3>6, Zenon DEF Top
    <3> QED BY <2>2, <3>2, <3>4, <3>5, <3>6, Zenon
  <2>3. ASSUME NEW u \in Sides, SendOk(u)
        PROVE  InMap(f, s)'
    <3>1. PICK m : m = job[u]
      BY Zenon
    <3>2. pc[u] = "sending" /\ m \in Msg /\ m.tag \in Tags /\ m.type \in {"request", "response"}
      BY <2>3, <3>1, Zenon DEF SendOk, SInv, Types, Placed, Msg, Message
    <3>3. \/ res_tx' = res_tx
          \/ /\ m.type = "request" /\ Kind[m.req] # "do_send"
             /\ res_tx' = [res_tx EXCEPT ![u][m.tag] = m.req]
      BY <2>3, <3>1, <3>2 DEF SendOk
    <3>4. CASE res_tx' = res_tx \/ u # s
      BY <2>0, <2>1, <3>3, <3>4, ZenonT(20)
    <3>5. CASE u = s /\ m.type = "request" /\ Kind[m.req] # "do_send"
               /\ res_tx' = [res_tx EXCEPT ![u][m.tag] = m.req]
      <4>1. m \in Marked(f) /\ m.req \in Tagful
        BY <3>1, <3>2, <3>5 DEF InHand, Tagful, Msg
      <4>2. m.req \in DOMAIN f /\ f[m.req] = m.tag
        BY <3>5, <4>1 DEF Marked
      <4>3. \A t \in Tags : res_tx'[s][t] = IF t = m.tag THEN m.req ELSE res_tx[s][t]
        BY <2>0, <3>2, <3>5
      <4> QED BY <4>2, <4>3, Zenon DEF InMap
    <3> QED BY <3>3, <3>4, <3>5
  <2>4. ASSUME NEW u \in Sides, Outbound(u) \/ SendFail(u) \/ ActorMgrReply(u) \/ Forward(u) \/ Leave(u)
        PROVE  res_tx' = res_tx
    BY <2>4, Zenon DEF Outbound, HandleRequest, HandleOther, SendFail, ActorMgrReply, Forward,
                      Leave
  <2>5. ASSUME \/ \E u \in Sides : Signal(u) \/ TimerSend(u) \/ ActorRecv(u) \/ ActorReply(u)
                                   \/ ActorStop(u)
               \/ \E r \in Requests : Submit(r) \/ Refuse(r) \/ Abandon(r) \/ Age(r)
                                      \/ TaskForward(r) \/ TaskCreated(r) \/ TaskReply(r)
               \/ LinkFail
        PROVE  res_tx' = res_tx
    BY <2>5, Zenon DEF Signal, TimerSend, ActorRecv, ActorReply, ActorStop, Submit, Refuse,
                      Abandon, Age,
                TaskForward, TaskCreated, TaskReply, LinkFail, sessionVars
  <2>6. CASE res_tx' = res_tx
    BY <2>6 DEF InMap
  <2>7. ASSUME NEW u \in Sides, Inbound(u) \/ Outbound(u) \/ Step(u)
        PROVE  InMap(f, s)'
    BY <2>1, <2>2, <2>3, <2>4, <2>6, <2>7, Zenon DEF Step
  <2> QED BY <2>5, <2>6, <2>7, Zenon DEF Next

<1>TasksMarked.
    ASSUME SInv, PathInv, Next, NEW f, InTasks(f), \A s \in Sides : OnWire(f, s)
    PROVE  InTasks(f)'
  <2> USE <1>TasksMarked
  <2>0. /\ task \in [Requests -> TaskPCs] /\ inTag \in [Requests -> Tags] /\ Tagful \subseteq Requests
    BY DEF PathInv, Tasks, SInv, Types, Tagful
  <2>1. CASE \A r \in Tagful : task'[r] = task[r] /\ inTag'[r] = inTag[r]
    BY <2>1 DEF InTasks
  <2>2. ASSUME NEW r \in Requests, TaskForward(r) \/ TaskCreated(r)
        PROVE  InTasks(f)'
    <3>1. task[r] \in {"forward", "creating"} /\ inTag' = inTag
          /\ \E v : task' = [task EXCEPT ![r] = v]
      BY <2>2, Zenon DEF TaskForward, TaskCreated
    <3> QED BY <2>0, <3>1 DEF InTasks
  <2>3. ASSUME NEW r \in Requests, TaskReply(r)
        PROVE  InTasks(f)'
    <3>1. task' = [task EXCEPT ![r] = "done"] /\ inTag' = [inTag EXCEPT ![r] = 0]
      BY <2>3 DEF TaskReply
    <3> QED BY <2>0, <3>1 DEF InTasks
  <2>4. ASSUME NEW s \in Sides, ActorReply(s) \/ ActorStop(s)
        PROVE  InTasks(f)'
    <3>1. inbox[s] \in Seq(Requests)
      BY DEF PathInv, Actors
    <3>2. DOMAIN inbox[s] = 1 .. Len(inbox[s])
      BY <3>1
    <3>3. PICK G \in SUBSET served(s) : task' = answered(G)
      BY <2>4, <3>2, Zenon DEF ActorReply, ActorStop, served, elems
    <3>4. \A r \in G : task[r] = "waiting"
      BY Apart, Zenon
    <3>5. inTag' = inTag
      BY <2>4, Zenon DEF ActorReply, ActorStop
    <3>6. \A r \in Tagful : task'[r] # task[r] => task[r] = "waiting"
      BY <2>0, <3>3, <3>4 DEF answered
    <3> QED BY <3>5, <3>6 DEF InTasks
  <2>5. ASSUME NEW s \in Sides, Forward(s)
        PROVE  InTasks(f)'
    <3>1. /\ inTag' = inTag /\ pc[s] = "forward"
          /\ task' = task \/ task' = [task EXCEPT ![job[s].req] = "waiting"]
      BY <2>5, Zenon DEF Forward
    <3>2. Kind[job[s].req] = "do_send"
      BY <3>1 DEF PathInv, Travels
    <3> QED BY <2>0, <2>1, <3>1, <3>2, Zenon DEF Tagful
  <2>6. ASSUME NEW s \in Sides, Inbound(s)
        PROVE  InTasks(f)'
    <3>1. CASE UNCHANGED taskVars
      BY <2>1, <3>1, Zenon DEF taskVars
    <3>2. ASSUME NEW w, received(s, "request"), spawn(s, Head(wire[s]).req, w)
          PROVE  InTasks(f)'
      <4>1. PICK h : h = Head(wire[s])
        OBVIOUS
      <4>2. wire[s] # <<>> /\ h.type = "request" /\ h \in Marked(f)
        BY <3>2, <4>1, SeqSteps, Zenon DEF received, OnWire
      <4>3. h.req \in Tagful => h.req \in DOMAIN f /\ f[h.req] = h.tag
        BY <4>2, Zenon DEF Marked
      <4>4. task' = [task EXCEPT ![h.req] = w] /\ inTag' = [inTag EXCEPT ![h.req] = h.tag]
        BY <3>2, <4>1, Zenon DEF spawn
      <4> QED BY <2>0, <4>3, <4>4 DEF InTasks
    <3>3. CASE HandleActorMessage(s) \/ HandleNodeMessage(s)
      <4>1. /\ received(s, "request")
            /\ UNCHANGED taskVars \/ \E w : spawn(s, Head(wire[s]).req, w)
        BY <3>3, Zenon DEF HandleActorMessage, HandleNodeMessage
      <4> QED BY <3>1, <3>2, <4>1, Zenon
    <3>4. CASE HandleMessageResponse(s) \/ RecvFail(s)
      BY <3>1, <3>4 DEF HandleMessageResponse, RecvFail
    <3> QED BY <2>6, <3>3, <3>4, Zenon DEF Inbound
  <2>7. ASSUME NEW s \in Sides, Outbound(s) \/ (Step(s) /\ ~Forward(s)) \/ Signal(s) \/ TimerSend(s)
                                \/ ActorRecv(s)
        PROVE  UNCHANGED taskVars
    <3>1. CASE Outbound(s)
      BY <3>1, Zenon DEF Outbound, HandleRequest, HandleOther
    <3>2. CASE Step(s) /\ ~Forward(s)
      BY <3>2 DEF Step, Top, SendOk, SendFail, ActorMgrReply, Leave, Close
    <3>3. CASE Signal(s) \/ TimerSend(s) \/ ActorRecv(s)
      BY <3>3, Zenon DEF Signal, TimerSend, ActorRecv
    <3> QED BY <2>7, <3>1, <3>2, <3>3, Zenon
  <2>8. ASSUME \/ \E r \in Requests : Submit(r) \/ Refuse(r) \/ Abandon(r) \/ Age(r)
               \/ LinkFail
        PROVE  UNCHANGED taskVars
    BY <2>8, Zenon DEF Submit, Refuse, Abandon, Age, LinkFail
  <2>9. CASE UNCHANGED taskVars
    BY <2>1, <2>9 DEF taskVars
  <2> QED BY <2>2, <2>3, <2>4, <2>5, <2>6, <2>7, <2>8, <2>9, Zenon DEF Next

<1> SUFFICES ASSUME SInv, PathInv, Next, NEW f, Carried(f), Tagged(f)
             PROVE  Carried(f)'
  OBVIOUS
<1>1. InTasks(f) /\ \A s \in Sides : OnWire(f, s) /\ InBox(f, s) /\ InHand(f, s) /\ InMap(f, s)
  BY DEF Carried
<1>2. InTasks(f)'
  BY <1>1, <1>TasksMarked
<1>3. ASSUME NEW s \in Sides
      PROVE  OnWire(f, s)' /\ InBox(f, s)' /\ InHand(f, s)' /\ InMap(f, s)'
  <2>1. OnWire(f, s)'
    BY <1>1, Peers, <1>WireMarked
  <2>2. InBox(f, s)'
    BY <1>1, <1>BoxMarked
  <2>3. InHand(f, s)'
    BY <1>1, <1>HandMarked
  <2>4. InMap(f, s)'
    BY <1>1, <1>MapMarked
  <2> QED BY <2>1, <2>2, <2>3, <2>4, Zenon
<1> QED BY <1>2, <1>3 DEF Carried

LEMMA TagKept ==
  ASSUME Next, \A s \in Sides : HandleRequest(s) => tag' = tag
  PROVE  tag' = tag
<1>1. ASSUME NEW s \in Sides, Inbound(s) \/ HandleOther(s) \/ Step(s)
      PROVE  tag' = tag
  <2>1. CASE Inbound(s)
    BY <2>1, Zenon DEF Inbound, HandleActorMessage, HandleNodeMessage, HandleMessageResponse,
                    RecvFail
  <2>2. CASE HandleOther(s)
    BY <2>2, Zenon DEF HandleOther
  <2>3. CASE Step(s)
    BY <2>3 DEF Step, Top, SendOk, SendFail, ActorMgrReply, Forward, Leave, Close
  <2> QED BY <1>1, <2>1, <2>2, <2>3
<1>2. ASSUME \/ \E s \in Sides : Signal(s) \/ TimerSend(s) \/ ActorRecv(s) \/ ActorReply(s)
                                 \/ ActorStop(s)
             \/ \E r \in Requests : Submit(r) \/ Refuse(r) \/ Abandon(r) \/ Age(r)
                                    \/ TaskForward(r) \/ TaskCreated(r) \/ TaskReply(r)
             \/ LinkFail
      PROVE  tag' = tag
  BY <1>2, Zenon DEF Signal, TimerSend, ActorRecv, ActorReply, ActorStop, Submit, Refuse,
                    Abandon, Age,
              TaskForward, TaskCreated, TaskReply, LinkFail, sessionVars
<1> QED BY <1>1, <1>2, Zenon DEF Next, Outbound

-----------------------------------------------------------------------------
(* Tags are given out one after the other.                                 *)

LOCAL INSTANCE FiniteSetTheorems

mine(s, D) == {r \in D : Origin[r] = s}

\* No side makes more requests with an answer than there are tags.
EnoughTags ==
  \A s \in Sides : /\ IsFiniteSet(mine(s, Tagful))
                   /\ Cardinality(mine(s, Tagful)) <= TagSpace

\* f is the tags that next_tag has given out so far.
Given(f) ==
  /\ \A r \in DOMAIN f : /\ status[r] \notin {"idle", "queued"}
                         /\ f[r] < Cardinality(mine(Origin[r], DOMAIN f))
  /\ \A q, r \in DOMAIN f : Origin[q] = Origin[r] /\ f[q] = f[r] => q = r
  /\ \A s \in Sides : tag[s] = Cardinality(mine(s, DOMAIN f)) % TagSpace

TagFunctions == UNION {[D -> Tags] : D \in SUBSET Tagful}

TagInv == \E f \in TagFunctions : Given(f) /\ Carried(f)

LEMMA Domains ==
  ASSUME NEW f \in TagFunctions
  PROVE  /\ DOMAIN f \subseteq Tagful /\ f \in [DOMAIN f -> Tags] /\ Tagful \subseteq Requests
         /\ \A r \in DOMAIN f : f[r] \in Nat
<1>1. PICK D \in SUBSET Tagful : f \in [D -> Tags]
  BY DEF TagFunctions
<1>2. Tags \subseteq Nat
  BY SessionAssumption DEF Tags
<1> QED BY <1>1, <1>2, Zenon DEF Tagful

LEMMA GivenKept ==
  ASSUME SInv, Next, NEW f \in TagFunctions, Given(f), tag' = tag
  PROVE  Given(f)'
<1>1. \A r \in DOMAIN f : r \in Requests /\ status[r] \notin {"idle", "queued"}
  BY Domains, Zenon DEF Given
<1>2. \A r \in DOMAIN f : status'[r] \notin {"idle", "queued"}
  BY <1>1, Beyond
<1> QED BY <1>2, Zenon DEF Given

\* A request that gets its tag gets one that its side has never given out.
LEMMA Extended ==
  ASSUME EnoughTags, NEW f \in TagFunctions, Given(f), NEW s \in Sides, NEW r \in Tagful,
         Origin[r] = s, status[r] = "queued"
  PROVE  \E g \in TagFunctions :
           /\ DOMAIN g = DOMAIN f \cup {r} /\ g[r] = tag[s] /\ \A q \in DOMAIN f : g[q] = f[q]
           /\ tag[s] = Cardinality(mine(s, DOMAIN f))
           /\ Cardinality(mine(s, DOMAIN g)) = tag[s] + 1
           /\ \A u \in Sides \ {s} : mine(u, DOMAIN g) = mine(u, DOMAIN f)
<1> DEFINE D == DOMAIN f
           M == mine(s, D)
           n == Cardinality(M)
           g == [q \in D \cup {r} |-> IF q = r THEN n ELSE f[q]]
<1>1. D \subseteq Tagful /\ f \in [D -> Tags] /\ r \notin D
  BY Domains, Zenon DEF Given
<1>2. M \cup {r} \in SUBSET mine(s, Tagful) /\ M \in SUBSET mine(s, Tagful) /\ r \notin M
  BY <1>1, Zenon DEF mine
<1>3. IsFiniteSet(mine(s, Tagful)) /\ Cardinality(mine(s, Tagful)) <= TagSpace
  BY DEF EnoughTags
<1>4. IsFiniteSet(M) /\ IsFiniteSet(M \cup {r})
      /\ Cardinality(M \cup {r}) <= Cardinality(mine(s, Tagful))
  BY <1>2, <1>3, FS_Subset, Zenon
<1>5. Cardinality(M \cup {r}) = n + 1
  <2> HIDE DEF M
  <2>1. Cardinality(M \cup {r}) = IF r \in M THEN Cardinality(M) ELSE Cardinality(M) + 1
    BY <1>4, FS_AddElement, Zenon
  <2> QED BY <1>2, <2>1
<1>6. n \in Nat /\ Cardinality(mine(s, Tagful)) \in Nat
  <2> HIDE DEF M
  <2> QED BY <1>3, <1>4, FS_CardinalityType, Zenon
<1>7. n \in Tags /\ n % TagSpace = n
  <2> HIDE DEF n
  <2>1. n + 1 <= TagSpace
    BY <1>3, <1>4, <1>5, <1>6, SessionAssumption
  <2> QED BY <1>6, <2>1, SessionAssumption, SMTT(20) DEF Tags
<1>8. tag[s] = n
  BY <1>7, Zenon DEF Given
<1>9. DOMAIN g = D \cup {r} /\ g[r] = n /\ \A q \in D : g[q] = f[q]
  BY <1>1
<1>10. g \in TagFunctions
  <2>1. g \in [D \cup {r} -> Tags]
    BY <1>1, <1>7, Zenon
  <2>2. D \cup {r} \in SUBSET Tagful
    BY <1>1, Zenon
  <2> QED BY <2>1, <2>2, Zenon DEF TagFunctions
<1>11. mine(s, D \cup {r}) = M \cup {r} /\ \A u \in Sides \ {s} : mine(u, D \cup {r}) = mine(u, D)
  BY DEF mine
<1>12. Cardinality(mine(s, DOMAIN g)) = tag[s] + 1
  BY <1>5, <1>8, <1>9, <1>11, Zenon
<1> HIDE DEF g
<1> QED BY <1>8, <1>9, <1>10, <1>11, <1>12, Zenon

LEMMA CarriedMore ==
  ASSUME NEW f, NEW g, DOMAIN f \subseteq DOMAIN g, \A q \in DOMAIN f : g[q] = f[q], Carried(f)
  PROVE  Carried(g)
<1>1. Marked(f) \subseteq Marked(g)
  BY DEF Marked
<1>2. MarkedBox(f) \subseteq MarkedBox(g)
  BY <1>1 DEF MarkedBox
<1>3. Seq(Marked(f)) \subseteq Seq(Marked(g)) /\ Seq(MarkedBox(f)) \subseteq Seq(MarkedBox(g))
  BY <1>1, <1>2, SeqMono, Zenon
<1>4. InTasks(g)
  BY Zenon DEF Carried, InTasks
<1>5. ASSUME NEW s \in Sides
      PROVE  OnWire(g, s) /\ InBox(g, s) /\ InHand(g, s) /\ InMap(g, s)
  <2>1. OnWire(f, s) /\ InBox(f, s) /\ InHand(f, s) /\ InMap(f, s)
    BY Zenon DEF Carried
  <2>2. OnWire(g, s) /\ InBox(g, s)
    BY <1>3, <2>1, Zenon DEF OnWire, InBox
  <2>3. InHand(g, s)
    BY <1>1, <2>1, Zenon DEF InHand
  <2>4. InMap(g, s)
    BY <2>1 DEF InMap
  <2> QED BY <2>2, <2>3, <2>4, Zenon
<1> QED BY <1>4, <1>5, Zenon DEF Carried

LEMMA Below == \A m, n \in Nat : m < n => m # n
OBVIOUS

LEMMA GivenMore ==
  ASSUME SInv, Next, NEW f \in TagFunctions, Given(f), NEW g \in TagFunctions,
         NEW s \in Sides, NEW r \in Tagful, Origin[r] = s, r \notin DOMAIN f,
         DOMAIN g = DOMAIN f \cup {r}, g[r] = tag[s], \A q \in DOMAIN f : g[q] = f[q],
         tag[s] = Cardinality(mine(s, DOMAIN f)), Cardinality(mine(s, DOMAIN g)) = tag[s] + 1,
         \A u \in Sides \ {s} : mine(u, DOMAIN g) = mine(u, DOMAIN f),
         tag' = [tag EXCEPT ![s] = (tag[s] + 1) % TagSpace], status'[r] \notin {"idle", "queued"}
  PROVE  Given(g)'
<1>1. \A q \in DOMAIN f : /\ q \in Requests /\ Origin[q] \in Sides /\ f[q] \in Nat
                          /\ status[q] \notin {"idle", "queued"}
  BY Domains, SessionAssumption, ZenonT(60) DEF Given
<1>2. tag \in [Sides -> Tags] /\ tag[s] \in Nat
  BY SessionAssumption, SMTT(30) DEF SInv, Types, Tags
<1>3. \A q \in DOMAIN f : Origin[q] = s => f[q] < tag[s]
  BY DEF Given
<1>4. \A q \in DOMAIN g : status'[q] \notin {"idle", "queued"}
  BY <1>1, Beyond, Zenon
<1>5. ASSUME NEW q \in DOMAIN g
      PROVE  g[q] < Cardinality(mine(Origin[q], DOMAIN g))
  <2>1. CASE q = r
    BY <1>2, <2>1, SMTT(20)
  <2>2. CASE q \in DOMAIN f /\ Origin[q] = s
    BY <1>1, <1>2, <1>3, <2>2
  <2>3. CASE q \in DOMAIN f /\ Origin[q] # s
    BY <1>1, <2>3, ZenonT(60) DEF Given
  <2> QED BY <2>1, <2>2, <2>3, ZenonT(60)
<1>6. ASSUME NEW p \in DOMAIN g, NEW q \in DOMAIN g, Origin[p] = Origin[q], g[p] = g[q]
      PROVE  p = q
  <2>1. CASE p \in DOMAIN f /\ q \in DOMAIN f
    BY <1>6, <2>1, ZenonT(60) DEF Given
  <2>2. \A d \in DOMAIN f : Origin[d] = s => g[d] # tag[s]
    BY <1>1, <1>2, <1>3, Below, ZenonT(30)
  <2> QED BY <1>6, <2>1, <2>2
<1>7. ASSUME NEW u \in Sides
      PROVE  tag'[u] = Cardinality(mine(u, DOMAIN g)) % TagSpace
  BY <1>2, ZenonT(20) DEF Given
<1> QED BY <1>4, <1>5, <1>6, <1>7, Zenon DEF Given

LEMMA TagStep ==
  ASSUME EnoughTags, SInv, PathInv, TagInv, [Next]_vars
  PROVE  TagInv'
<1>1. PICK f \in TagFunctions : Given(f) /\ Carried(f)
  BY DEF TagInv
<1>2. CASE UNCHANGED vars
  <2>1. Given(f)'
    BY <1>1, <1>2, ZenonT(20) DEF vars, Given
  <2>2. Carried(f)'
    BY <1>1, <1>2, Zenon DEF vars, Carried, OnWire, InBox, InHand, InMap, InTasks
  <2> QED BY <2>1, <2>2, Zenon DEF TagInv
<1>3. CASE Next /\ \A s \in Sides : HandleRequest(s) =>
                     tag' = tag /\ (pc'[s] = "sending" => Kind[Head(mailbox[s]).req] = "do_send")
  <2>1. Tagged(f)
    <3> SUFFICES ASSUME NEW s \in Sides, HandleRequest(s), NEW r, r = Head(mailbox[s]).req,
                        startSend(s, msg("request", r, tag[s]))
                 PROVE  msg("request", r, tag[s]) \in Marked(f)
      BY Zenon DEF Tagged
    <3>1. mailbox[s] # <<>> /\ Head(mailbox[s]).type = "request"
          /\ mailbox' = [mailbox EXCEPT ![s] = Tail(@)]
      BY Zenon DEF HandleRequest
    <3>2. r \in Requests /\ tag[s] \in Tags
      BY <3>1, FromMailbox, Zenon DEF at, SInv, Types
    <3>3. pc'[s] = "sending"
      BY Zenon DEF startSend, goto, SInv, Types
    <3>4. r \notin Tagful
      BY <1>3, <3>3, Zenon DEF Tagful
    <3> QED BY <3>2, <3>4, Marks, Zenon
  <2>2. Carried(f)'
    BY <1>1, <1>3, <2>1, CarriedStep, Zenon
  <2>3. Given(f)'
    BY <1>1, <1>3, TagKept, GivenKept, Zenon
  <2> QED BY <2>2, <2>3, Zenon DEF TagInv
<1>4. ASSUME Next, NEW s \in Sides, HandleRequest(s),
             ~(tag' = tag /\ (pc'[s] = "sending" => Kind[Head(mailbox[s]).req] = "do_send"))
      PROVE  TagInv'
  <2>1. PICK r : r = Head(mailbox[s]).req
    BY Zenon
  <2>2. /\ mailbox[s] # <<>> /\ mailbox' = [mailbox EXCEPT ![s] = Tail(@)]
        /\ Head(mailbox[s]).type = "request" /\ pc[s] = "select"
    BY <1>4, Zenon DEF HandleRequest
  <2>3. r \in Requests /\ Origin[r] = s /\ status[r] = "queued"
    BY <2>1, <2>2, FromMailbox, Zenon DEF at
  <2>4. /\ Kind[r] # "do_send" /\ status' = [status EXCEPT ![r] = "sending"]
        /\ tag' = [tag EXCEPT ![s] = (tag[s] + 1) % TagSpace]
        /\ pc' = [pc EXCEPT ![s] = "sending"]
    <3>1. CASE pc' = [pc EXCEPT ![s] = "loop"] /\ tag' = tag
      <4>1. pc'[s] = "loop"
        BY <3>1, Zenon DEF SInv, Types
      <4> QED BY <1>4, <3>1, <4>1, Zenon
    <3>2. CASE ~(pc' = [pc EXCEPT ![s] = "loop"] /\ tag' = tag)
      BY <1>4, <2>1, <3>2, Zenon DEF HandleRequest, goto, startSend, next_tag
    <3> QED BY <3>1, <3>2, Zenon
  <2>5. r \in Tagful /\ status'[r] \notin {"idle", "queued"} /\ r \notin DOMAIN f
    BY <1>1, <2>3, <2>4, ZenonT(60) DEF Tagful, SInv, Types, Given
  <2>6. PICK g \in TagFunctions :
           /\ DOMAIN g = DOMAIN f \cup {r} /\ g[r] = tag[s] /\ \A q \in DOMAIN f : g[q] = f[q]
           /\ tag[s] = Cardinality(mine(s, DOMAIN f))
           /\ Cardinality(mine(s, DOMAIN g)) = tag[s] + 1
           /\ \A u \in Sides \ {s} : mine(u, DOMAIN g) = mine(u, DOMAIN f)
    BY <1>1, <2>3, <2>5, Extended
  <2>7. Given(g)'
    BY <1>1, <1>4, <2>3, <2>4, <2>5, <2>6, GivenMore, Zenon
  <2>8. Carried(g)
    <3>1. DOMAIN f \subseteq DOMAIN g
      BY <2>6, Zenon
    <3> QED BY <1>1, <2>6, <3>1, CarriedMore, Zenon
  <2>9. Tagged(g)
    <3> SUFFICES ASSUME NEW u \in Sides, HandleRequest(u)
                 PROVE  msg("request", Head(mailbox[u]).req, tag[u]) \in Marked(g)
      BY Zenon DEF Tagged
    <3>1. u = s
      <4>1. pc[u] = "select" /\ \E w \in {"loop", "sending"} : pc' = [pc EXCEPT ![u] = w]
        BY Zenon DEF HandleRequest, goto, startSend
      <4> QED BY <2>2, <2>4, <4>1, Zenon DEF SInv, Types
    <3>2. tag[s] \in Tags
      BY Zenon DEF SInv, Types
    <3>3. msg("request", r, tag[s]) \in Marked(g)
      BY <2>3, <2>6, <3>2, Zenon DEF Marked, Msg, Message, msg
    <3> QED BY <2>1, <3>1, <3>3, Zenon
  <2>10. Carried(g)'
    BY <1>4, <2>8, <2>9, CarriedStep, ZenonT(20)
  <2> QED BY <2>7, <2>10, Zenon DEF TagInv
<1> QED BY <1>2, <1>3, <1>4, Zenon

LEMMA TagImplies ==
  ASSUME SInv, PathInv, TagInv
  PROVE  ResponseMatches
<1>1. PICK f \in TagFunctions : Given(f) /\ Carried(f)
  BY Zenon DEF TagInv
<1> SUFFICES ASSUME NEW s \in Sides, NEW m \in responsesTo(s), res_tx[s][m.tag] # None
             PROVE  res_tx[s][m.tag] = m.req
  BY Zenon DEF ResponseMatches
<1>2. PICK p \in Sides : p = Peer(s) /\ Peer(p) = s
  BY Peers, ZenonT(60)
<1>3. /\ wire[s] \in Seq(Sent(p)) /\ mailbox[p] \in Seq(Boxed(p))
      /\ pc[p] = "sending" => job[p] \in Sent(p)
  BY <1>2, ZenonT(20) DEF PathInv, Travels
<1>4. /\ wire[s] \in Seq(Marked(f)) /\ mailbox[p] \in Seq(MarkedBox(f))
      /\ pc[p] = "sending" => job[p] \in Marked(f)
      /\ job[p].type = "response" => pc[p] = "sending"
  BY <1>1, ZenonT(20) DEF Carried, OnWire, InBox, InHand
<1>5. m \in Sent(p) /\ m \in Marked(f) /\ m.type = "response"
  <2>1. CASE m = job[p] /\ m.type = "response"
    BY <1>3, <1>4, <2>1, Zenon
  <2>2. ASSUME NEW i \in DOMAIN mailbox[p], m = mailbox[p][i], m.type = "response"
        PROVE  m \in Sent(p) /\ m \in Marked(f)
    <3>1. m \in Boxed(p) /\ m \in MarkedBox(f)
      BY <1>3, <1>4, <2>2, SeqMember, Zenon
    <3> QED BY <2>2, <3>1, ZenonT(60) DEF Boxed, MarkedBox
  <2>3. ASSUME NEW i \in DOMAIN wire[s], m = wire[s][i]
        PROVE  m \in Sent(p) /\ m \in Marked(f)
    BY <1>3, <1>4, <2>3, SeqMember, Zenon
  <2> QED BY <1>2, <2>1, <2>2, <2>3, ZenonT(20) DEF responsesTo
<1>6. m.req \in Tagful /\ Origin[m.req] = s /\ m.tag \in Tags
  BY <1>2, <1>5, Zenon DEF Sent, Tagful, Message
<1>7. m.req \in DOMAIN f /\ f[m.req] = m.tag
  BY <1>5, <1>6, ZenonT(20) DEF Marked
<1>8. PICK q : q = res_tx[s][m.tag]
  BY Zenon
<1>9. q \in DOMAIN f /\ f[q] = m.tag
  BY <1>1, <1>6, <1>8, Zenon DEF Carried, InMap
<1>10. Origin[q] = s
  <2>1. q \in owners(s, Tags)
    BY <1>6, <1>8, Zenon DEF owners
  <2> QED BY <2>1, MapOwners, Zenon
<1> QED BY <1>1, <1>6, <1>7, <1>8, <1>9, <1>10, Zenon DEF Given

\* While next_tag has not gone round all 2^64 tags, a response never reaches the maker of
\* another request: each request that expects an answer has a tag of its own, the answer
\* carries it through tasks, mailboxes and the connection, and the map of the session
\* has nothing else under it, however late the answer comes and whatever was swept.
THEOREM AnswersMatch ==
  ASSUME EnoughTags
  PROVE  Spec => []ResponseMatches
<1>1. Init => TagInv
  <2> SUFFICES ASSUME Init
               PROVE  TagInv
    OBVIOUS
  <2> DEFINE f == [r \in {} |-> 0]
  <2>1. f \in TagFunctions /\ DOMAIN f = {}
    <3>1. f \in [{} -> Tags] /\ DOMAIN f = {} /\ {} \in SUBSET Tagful
      BY Zenon
    <3> QED BY <3>1, Zenon DEF TagFunctions
  <2> HIDE DEF f
  <2>2. Given(f)
    <3>1. \A s \in Sides : Cardinality(mine(s, DOMAIN f)) = 0
      BY <2>1, FS_EmptySet, Zenon DEF mine
    <3>2. 0 % TagSpace = 0
      BY SessionAssumption
    <3> QED BY <2>1, <3>1, <3>2, Zenon DEF Init, Given
  <2>3. Carried(f)
    <3>1. \A S : <<>> \in Seq(S)
      OBVIOUS
    <3>2. noJob.type = "signal"
      BY DEF noJob, msg
    <3> QED BY <3>1, <3>2, Zenon DEF Init, Carried, OnWire, InBox, InHand, InMap, InTasks, Tagful
  <2> QED BY <2>1, <2>2, <2>3, Zenon DEF TagInv
<1>2. SInv /\ PathInv /\ TagInv /\ [Next]_vars => TagInv'
  BY TagStep, Zenon
<1>3. SInv /\ PathInv /\ TagInv => ResponseMatches
  BY TagImplies, Zenon
<1> QED BY <1>1, <1>2, <1>3, Invariant, Path, PTL DEF Spec

-----------------------------------------------------------------------------
(* Answers are given by the task of the request.                            *)

\* A session tells the maker of a send that it was answered only when the task that
\* served this very request on the other side has replied.
AnsweredByTask ==
  \A r \in Requests : Kind[r] = "send" /\ status[r] = "answered" => task[r] = "done"

\* A response to a send comes from the task of that request.
Genuine ==
  {m \in Message : m.type = "response" /\ m.req \in Requests /\ Kind[m.req] = "send"
                    => task[m.req] = "done"}

\* Wherever a response is, it is one that was given; the ActorMgr is asked for commands.
Real(s) ==
  /\ wire[s] \in Seq(Genuine) /\ mailbox[s] \in Seq(Genuine)
  /\ pc[s] = "sending" => job[s] \in Genuine
  /\ pc[s] = "asking" => Kind[job[s].req] = "node"

RealInv == AnsweredByTask /\ \A s \in Sides : Real(s)

\* The answer to a message, a request with its tag, and the reply of a task.
LEMMA Letters ==
  ASSUME NEW m \in Message, NEW t \in Tags
  PROVE  /\ \E a \in Message : a = msg("response", m.req, m.tag) /\ a.req = m.req
         /\ \E a \in Message : a = msg("request", m.req, t) /\ a.type = "request"
<1>1. m.req \in Requests \cup {None} /\ m.tag \in Tags
  BY DEF Message
<1>2. msg("response", m.req, m.tag) \in Message /\ msg("response", m.req, m.tag).req = m.req
  BY <1>1 DEF Message, msg
<1>3. msg("request", m.req, t) \in Message /\ msg("request", m.req, t).type = "request"
  BY <1>1 DEF Message, msg
<1> QED BY <1>2, <1>3, Zenon

LEMMA Replies ==
  ASSUME NEW r \in Requests, NEW t \in Tags
  PROVE  /\ \E a \in Message : a = msg("response", r, t) /\ a.req = r
         /\ \E a \in Message : a = msg("request", r, t) /\ a.type = "request"
<1>1. msg("response", r, t) \in Message /\ msg("response", r, t).req = r
  BY DEF Message, msg
<1>2. msg("request", r, t) \in Message /\ msg("request", r, t).type = "request"
  BY DEF Message, msg
<1> QED BY <1>1, <1>2, Zenon

LEMMA Others ==
  \A type \in {"signal", "cleanup"} :
     \E a \in Message : a = msg(type, None, 0) /\ a.type # "response"
<1>1. msg("signal", None, 0) \in Message /\ msg("signal", None, 0).type # "response"
  BY TagsZero DEF Message, msg
<1>2. msg("cleanup", None, 0) \in Message /\ msg("cleanup", None, 0).type # "response"
  BY TagsZero DEF Message, msg
<1> QED BY <1>1, <1>2, Zenon

\* A task that is over does not start again: the request is received once.
LEMMA DoneStays ==
  ASSUME SInv, PathInv, Next, NEW r \in Requests, task[r] = "done"
  PROVE  task'[r] = "done"
<1>0. task \in [Requests -> TaskPCs]
  BY DEF PathInv, Tasks
<1>1. CASE task' = task
  BY <1>1, Zenon
<1>2. ASSUME NEW q, NEW v, task[q] # "done" \/ v = "done", task' = [task EXCEPT ![q] = v]
      PROVE  task'[r] = "done"
  BY <1>0, <1>2, Zenon
<1>3. ASSUME NEW q \in Requests, TaskForward(q) \/ TaskCreated(q) \/ TaskReply(q)
      PROVE  task'[r] = "done"
  <2>1. task[q] # "done" /\ \E v : task' = [task EXCEPT ![q] = v]
    BY <1>3, Zenon DEF TaskForward, TaskCreated, TaskReply
  <2> QED BY <1>2, <2>1, Zenon
<1>4. ASSUME NEW s \in Sides, ActorReply(s) \/ ActorStop(s)
      PROVE  task'[r] = "done"
  <2>1. inbox[s] \in Seq(Requests)
    BY DEF PathInv, Actors
  <2>2. DOMAIN inbox[s] = 1 .. Len(inbox[s])
    BY <2>1
  <2>3. PICK G \in SUBSET served(s) : task' = answered(G)
    BY <1>4, <2>2, Zenon DEF ActorReply, ActorStop, served, elems
  <2>4. \A q \in G : task[q] = "waiting"
    BY Apart, Zenon
  <2> QED BY <2>3, <2>4, Zenon DEF answered
<1>5. ASSUME NEW s \in Sides, Forward(s)
      PROVE  task'[r] = "done"
  <2>1. /\ pc[s] = "forward"
        /\ task' = task \/ task' = [task EXCEPT ![job[s].req] = "waiting"]
    BY <1>5, Zenon DEF Forward
  <2>2. job[s].req \in taken(s)
    BY <2>1, Zenon DEF taken
  <2>3. task[job[s].req] = "none"
    BY <2>2, Zenon DEF PathInv, Fresh
  <2> QED BY <1>1, <1>2, <2>1, <2>3, ZenonT(60)
<1>6. ASSUME NEW s \in Sides, Inbound(s)
      PROVE  task'[r] = "done"
  <2>1. CASE UNCHANGED taskVars
    BY <1>1, <2>1, Zenon DEF taskVars
  <2>2. ASSUME NEW w, received(s, "request"), spawn(s, Head(wire[s]).req, w)
        PROVE  task'[r] = "done"
    <3>1. PICK q : q = Head(wire[s]).req
      OBVIOUS
    <3>2. q \in reqs(wire[s])
      <4>1. wire[s] \in Seq(Msg) /\ wire[s] # <<>> /\ Head(wire[s]).type = "request"
            /\ once(wire[s])
        BY <2>2, Zenon DEF received, SInv, Types, PathInv, Fresh
      <4> QED BY <3>1, <4>1, Taken, Zenon
    <3>3. task[q] = "none" /\ task' = [task EXCEPT ![q] = w]
      BY <2>2, <3>1, <3>2, Zenon DEF spawn, PathInv, Fresh
    <3> QED BY <1>2, <3>3, Zenon
  <2>3. CASE HandleActorMessage(s) \/ HandleNodeMessage(s)
    <3>1. /\ received(s, "request")
          /\ UNCHANGED taskVars \/ \E w : spawn(s, Head(wire[s]).req, w)
      BY <2>3, ZenonT(60) DEF HandleActorMessage, HandleNodeMessage
    <3> QED BY <2>1, <2>2, <3>1, Zenon
  <2>4. CASE HandleMessageResponse(s) \/ RecvFail(s)
    BY <2>1, <2>4 DEF HandleMessageResponse, RecvFail
  <2> QED BY <1>6, <2>3, <2>4, Zenon DEF Inbound
<1>7. ASSUME NEW s \in Sides, Outbound(s) \/ (Step(s) /\ ~Forward(s)) \/ Signal(s) \/ TimerSend(s)
                              \/ ActorRecv(s)
      PROVE  UNCHANGED taskVars
  <2>1. CASE Outbound(s)
    BY <2>1, Zenon DEF Outbound, HandleRequest, HandleOther
  <2>2. CASE Step(s) /\ ~Forward(s)
    BY <2>2, Zenon DEF Step, Top, SendOk, SendFail, ActorMgrReply, Leave, Close
  <2>3. CASE Signal(s) \/ TimerSend(s) \/ ActorRecv(s)
    BY <2>3, Zenon DEF Signal, TimerSend, ActorRecv
  <2> QED BY <1>7, <2>1, <2>2, <2>3, Zenon
<1>8. ASSUME \/ \E q \in Requests : Submit(q) \/ Refuse(q) \/ Abandon(q) \/ Age(q)
             \/ LinkFail
      PROVE  UNCHANGED taskVars
  BY <1>8, Zenon DEF Submit, Refuse, Abandon, Age, LinkFail
<1>9. CASE UNCHANGED taskVars
  BY <1>1, <1>9, Zenon DEF taskVars
<1> QED BY <1>3, <1>4, <1>5, <1>6, <1>7, <1>8, <1>9, Zenon DEF Next

\* What a session starts to send: a request or a response of its mailbox, or the answer to
\* a command.
LEMMA HandReal ==
  ASSUME SInv, PathInv, RealInv, Next, NEW s \in Sides, NEW S, Genuine \subseteq S,
         \A m \in Message : m.type = "request" \/ Kind[m.req] = "node" => m \in S
  PROVE  /\ pc'[s] = "sending" => job'[s] \in S
         /\ pc'[s] = "asking" => Kind[job'[s].req] = "node"
<1> DEFINE Goal == /\ pc'[s] = "sending" => job'[s] \in S
                   /\ pc'[s] = "asking" => Kind[job'[s].req] = "node"
<1>0. /\ pc \in [Sides -> PCs] /\ job \in [Sides -> Msg] /\ mailbox[s] \in Seq(Genuine)
      /\ wire[s] \in Seq(Genuine)
      /\ pc[s] = "sending" => job[s] \in Genuine
      /\ pc[s] = "asking" => Kind[job[s].req] = "node"
  BY Zenon DEF SInv, Types, RealInv, Real
<1>1. CASE pc'[s] = pc[s] /\ job'[s] = job[s]
  BY <1>0, <1>1, Zenon
<1>2. ASSUME NEW w, pc' = [pc EXCEPT ![s] = w], w \notin {"sending", "asking"}
      PROVE  Goal
  BY <1>0, <1>2, Zenon
<1>3. ASSUME NEW m \in S, startSend(s, m)
      PROVE  Goal
  BY <1>0, <1>3, Zenon DEF startSend, goto
<1>4. CASE Inbound(s)
  <2>1. CASE RecvFail(s) \/ HandleMessageResponse(s) \/ HandleActorMessage(s)
    <3>1. PICK w \in {"loop", "forward"} : pc' = [pc EXCEPT ![s] = w]
      BY <2>1, Zenon DEF RecvFail, HandleMessageResponse, HandleActorMessage, spawn, goto
    <3> QED BY <1>2, <3>1, Zenon
  <2>2. CASE HandleNodeMessage(s)
    <3>1. /\ wire[s] # <<>> /\ Kind[Head(wire[s]).req] = "node"
          /\ \/ pc' = [pc EXCEPT ![s] = "loop"]
             \/ startSend(s, msg("response", Head(wire[s]).req, Head(wire[s]).tag))
             \/ pc' = [pc EXCEPT ![s] = "asking"] /\ job' = [job EXCEPT ![s] = Head(wire[s])]
      <4>1. wire[s] # <<>> /\ Kind[Head(wire[s]).req] = "node"
        BY <2>2, ZenonT(60) DEF HandleNodeMessage, received
      <4>2. \/ pc' = [pc EXCEPT ![s] = "loop"]
            \/ startSend(s, msg("response", Head(wire[s]).req, Head(wire[s]).tag))
            \/ pc' = [pc EXCEPT ![s] = "asking"] /\ job' = [job EXCEPT ![s] = Head(wire[s])]
        BY <2>2 DEF HandleNodeMessage, spawn, goto
      <4> QED BY <4>1, <4>2
    <3>2. msg("response", Head(wire[s]).req, Head(wire[s]).tag) \in S
      <4>1. Head(wire[s]) \in Genuine
        BY <1>0, <3>1, SeqSteps, Zenon
      <4>2. Head(wire[s]) \in Message
        BY <4>1, Zenon DEF Genuine
      <4>3. PICK m \in Message : /\ m = msg("response", Head(wire[s]).req, Head(wire[s]).tag)
                                 /\ m.req = Head(wire[s]).req
        BY <4>2, TagsZero, Letters, Zenon
      <4> QED BY <3>1, <4>3, Zenon
    <3>3. CASE pc' = [pc EXCEPT ![s] = "asking"] /\ job' = [job EXCEPT ![s] = Head(wire[s])]
      BY <1>0, <3>1, <3>3, Zenon
    <3> QED BY <1>2, <1>3, <3>1, <3>2, <3>3, ZenonT(60)
  <2> QED BY <1>4, <2>1, <2>2, Zenon DEF Inbound
<1>5. CASE HandleRequest(s)
  <2>1. \/ pc' = [pc EXCEPT ![s] = "loop"]
        \/ startSend(s, msg("request", Head(mailbox[s]).req, tag[s]))
    BY <1>5 DEF HandleRequest, goto
  <2>2. msg("request", Head(mailbox[s]).req, tag[s]) \in S
    <3>1. mailbox[s] # <<>>
      BY <1>5, Zenon DEF HandleRequest
    <3>2. Head(mailbox[s]) \in Genuine
      BY <1>0, <3>1, SeqSteps, Zenon
    <3>3. Head(mailbox[s]) \in Message
      BY <3>2, Zenon DEF Genuine
    <3>4. tag[s] \in Tags
      BY Zenon DEF SInv, Types
    <3>5. PICK m \in Message : /\ m = msg("request", Head(mailbox[s]).req, tag[s])
                               /\ m.type = "request"
      BY <3>3, <3>4, Letters, Zenon
    <3> QED BY <3>5, Zenon
  <2> QED BY <1>2, <1>3, <2>1, <2>2, ZenonT(60)
<1>6. CASE HandleOther(s)
  <2>1. /\ mailbox[s] # <<>>
        /\ pc' = [pc EXCEPT ![s] = "loop"] \/ startSend(s, Head(mailbox[s]))
    BY <1>6, Zenon DEF HandleOther, goto
  <2>2. Head(mailbox[s]) \in S
    BY <1>0, <2>1, SeqSteps, ZenonT(60)
  <2> QED BY <1>2, <1>3, <2>1, <2>2, Zenon
<1>7. CASE Step(s)
  <2>1. CASE Step(s) /\ ~ActorMgrReply(s)
    <3>1. PICK w \in {"select", "loop", "closing", "ended"} : pc' = [pc EXCEPT ![s] = w]
      BY <2>1, Zenon DEF Step, Top, SendOk, SendFail, Forward, Leave, Close, goto
    <3> QED BY <1>2, <3>1, Zenon
  <2>2. CASE ActorMgrReply(s)
    <3>1. pc[s] = "asking" /\ startSend(s, msg("response", job[s].req, job[s].tag))
      BY <2>2, Zenon DEF ActorMgrReply
    <3>2. job[s] \in Message /\ Kind[job[s].req] = "node"
      BY <1>0, <3>1, Zenon DEF Msg
    <3>3. PICK m \in Message : /\ m = msg("response", job[s].req, job[s].tag)
                               /\ m.req = job[s].req
      BY <3>2, TagsZero, Letters, Zenon
    <3> QED BY <1>3, <3>1, <3>2, <3>3, Zenon
  <2> QED BY <1>7, <2>1, <2>2
<1> QED BY <1>1, <1>4, <1>5, <1>6, <1>7, HandAlone, Zenon DEF Outbound

\* Only a response makes a request answered, and it is the request whose reply sender the
\* map has under the tag of that response.
LEMMA Answers ==
  ASSUME SInv, Next, NEW r \in Requests, status'[r] = "answered", status[r] # "answered"
  PROVE  \E s \in Sides : HandleMessageResponse(s) /\ res_tx[s][Head(wire[s]).tag] = r
<1>0. status \in [Requests -> Settled \cup {"idle", "queued", "sending"} \cup Waiting]
  BY DEF SInv, Types
<1>1. ASSUME status' = status
      PROVE  FALSE
  BY <1>1, Zenon
<1>2. ASSUME NEW q, NEW v, v # "answered", status' = [status EXCEPT ![q] = v]
      PROVE  FALSE
  BY <1>0, <1>2, Zenon
<1>3. ASSUME NEW G, status' = closed(G)
      PROVE  FALSE
  BY <1>3, Zenon DEF closed
<1>4. ASSUME NEW q \in Requests, Submit(q) \/ Refuse(q) \/ Age(q)
      PROVE  FALSE
  <2>1. PICK v \in {"queued", "rejected", "overdue"} : status' = [status EXCEPT ![q] = v]
    BY <1>4, Zenon DEF Submit, Refuse, Age
  <2> QED BY <1>2, <2>1, Zenon
<1>5. ASSUME NEW s \in Sides, HandleMessageResponse(s)
      PROVE  res_tx[s][Head(wire[s]).tag] = r
  <2>1. PICK q : q = res_tx[s][Head(wire[s]).tag]
    OBVIOUS
  <2>2. status' = IF q = None THEN status
                  ELSE [status EXCEPT ![q] = IF tx_is_closed(q) THEN "closed" ELSE "answered"]
    BY <1>5, <2>1, Zenon DEF HandleMessageResponse
  <2> QED BY <1>0, <2>1, <2>2, Zenon
<1>6. ASSUME NEW s \in Sides, HandleRequest(s)
      PROVE  FALSE
  <2>1. PICK v \in {"closed", "sending"} : status' = [status EXCEPT ![Head(mailbox[s]).req] = v]
    BY <1>6, Zenon DEF HandleRequest
  <2> QED BY <1>2, <2>1, Zenon
<1>7. ASSUME NEW s \in Sides, Top(s) \/ Leave(s) \/ Close(s)
      PROVE  FALSE
  <2>1. CASE cleanup_message_res_tx_map(s)
    BY <2>1, Zenon DEF cleanup_message_res_tx_map
  <2>2. CASE Leave(s) \/ Close(s)
    <3>1. PICK G : status' = closed(G)
      BY <2>2, Zenon DEF Leave, Close
    <3> QED BY <1>3, <3>1, Zenon
  <2> QED BY <1>1, <1>7, <2>1, <2>2, Zenon DEF Top
<1>8. ASSUME NEW s \in Sides, SendOk(s) \/ SendFail(s)
      PROVE  FALSE
  <2>1. CASE SendFail(s)
    <3>1. status' = status \/ status' = [status EXCEPT ![job[s].req] = "failed"]
      BY <2>1, Zenon DEF SendFail
    <3> QED BY <1>1, <1>2, <3>1, Zenon
  <2>2. CASE SendOk(s)
    <3>1. pc[s] = "sending" /\ job[s].type \in {"request", "response"}
      BY <2>2, Zenon DEF SendOk, SInv, Placed
    <3>2. \/ status' = status
          \/ status' = [status EXCEPT ![job[s].req] = "sent"]
          \/ status' = [closed(owners(s, {job[s].tag})) EXCEPT ![job[s].req] = "pending"]
      BY <2>2, <3>1, ZenonT(60) DEF SendOk
    <3>3. CASE status' = [closed(owners(s, {job[s].tag})) EXCEPT ![job[s].req] = "pending"]
      BY <3>3, Zenon DEF closed
    <3> QED BY <1>1, <1>2, <3>2, <3>3, Zenon
  <2> QED BY <1>8, <2>1, <2>2, Zenon
<1>9. ASSUME NEW s \in Sides,
             \/ HandleActorMessage(s) \/ HandleNodeMessage(s) \/ RecvFail(s) \/ HandleOther(s)
             \/ ActorMgrReply(s) \/ Forward(s)
      PROVE  status' = status
  BY <1>9, Zenon DEF HandleActorMessage, HandleNodeMessage, RecvFail, HandleOther,
                     ActorMgrReply, Forward, clientVars
<1>10. ASSUME \/ \E s \in Sides : Signal(s) \/ TimerSend(s) \/ ActorRecv(s) \/ ActorReply(s)
                                  \/ ActorStop(s)
              \/ \E q \in Requests : Abandon(q) \/ TaskForward(q) \/ TaskCreated(q)
                                     \/ TaskReply(q)
              \/ LinkFail
       PROVE  status' = status
  BY <1>10, ZenonT(20) DEF Signal, TimerSend, ActorRecv, ActorReply, ActorStop, Abandon,
                      TaskForward, TaskCreated, TaskReply, LinkFail, clientVars
<1>11. ASSUME NEW s \in Sides, Inbound(s) \/ Outbound(s) \/ Step(s)
       PROVE  HandleMessageResponse(s)
  BY <1>1, <1>6, <1>7, <1>8, <1>9, <1>11, Zenon DEF Inbound, Outbound, Step
<1> QED BY <1>1, <1>4, <1>5, <1>10, <1>11, ZenonT(60) DEF Next

LEMMA RealStep ==
  ASSUME SInv, PathInv, ResponseMatches, RealInv, [Next]_vars
  PROVE  RealInv'
<1>1. CASE UNCHANGED vars
  BY <1>1, Zenon DEF vars, RealInv, Real, AnsweredByTask, Genuine
<1>2. CASE Next
  <2> USE <1>2
  <2>1. PICK S : S = Genuine'
    OBVIOUS
  <2>2. Genuine \subseteq S
    <3>1. ASSUME NEW m \in Genuine, m.type = "response", m.req \in Requests,
                 Kind[m.req] = "send"
          PROVE  task'[m.req] = "done"
      <4>1. task[m.req] = "done"
        BY <3>1, Zenon DEF Genuine
      <4> QED BY <3>1, <4>1, DoneStays, Zenon
    <3> QED BY <2>1, <3>1, Zenon DEF Genuine
  <2>3. \A m \in Message : m.type # "response" \/ Kind[m.req] # "send" => m \in S
    BY <2>1, Zenon DEF Genuine
  <2>4. \A s \in Sides : wire[s] \in Seq(S) /\ mailbox[s] \in Seq(S)
                         /\ (pc[s] = "sending" => job[s] \in S)
    <3>1. Seq(Genuine) \subseteq Seq(S)
      BY <2>2, SeqMono, Zenon
    <3> QED BY <2>2, <3>1, Zenon DEF RealInv, Real
  <2>5. ASSUME NEW s \in Sides
        PROVE  wire'[s] \in Seq(S)
    <3>1. Peer(s) \in Sides
      BY Peers
    <3> QED BY <2>4, <3>1, WireFrom, Zenon
  <2>6. ASSUME NEW s \in Sides
        PROVE  mailbox'[s] \in Seq(S)
    <3>1. /\ \A type \in {"signal", "cleanup"} : msg(type, None, 0) \in S
          /\ \A r \in Requests : msg("request", r, 0) \in S
      <4>1. ASSUME NEW type \in {"signal", "cleanup"}
            PROVE  msg(type, None, 0) \in S
        BY <2>3, Others, Zenon
      <4>2. ASSUME NEW r \in Requests
            PROVE  msg("request", r, 0) \in S
        <5>1. PICK a \in Message : a = msg("request", r, 0) /\ a.type = "request"
          BY TagsZero, Replies, Zenon
        <5> QED BY <2>3, <5>1, Zenon
      <4> QED BY <4>1, <4>2, Zenon
    <3>2. ASSUME NEW r \in Requests, TaskReply(r)
          PROVE  msg("response", r, inTag[r]) \in S
      <4>1. task' = [task EXCEPT ![r] = "done"] /\ task \in [Requests -> TaskPCs]
            /\ inTag[r] \in Tags
        BY <3>2, Zenon DEF TaskReply, PathInv, Tasks, SInv, Types
      <4>2. task'[r] = "done"
        BY <4>1, Zenon
      <4>3. PICK m \in Message : m = msg("response", r, inTag[r]) /\ m.req = r
        BY <4>1, Replies, Zenon
      <4> QED BY <2>1, <4>2, <4>3, Zenon DEF Genuine
    <3> QED BY <2>4, <3>1, <3>2, BoxFrom, Zenon
  <2>7. ASSUME NEW s \in Sides
        PROVE  /\ pc'[s] = "sending" => job'[s] \in S
               /\ pc'[s] = "asking" => Kind[job'[s].req] = "node"
    <3>1. \A m \in Message : m.type = "request" \/ Kind[m.req] = "node" => m \in S
      BY <2>3, Zenon
    <3> QED BY <2>2, <3>1, HandReal, Zenon
  <2>8. ASSUME NEW r \in Requests, Kind[r] = "send", status'[r] = "answered"
        PROVE  task'[r] = "done"
    <3>1. CASE status[r] = "answered"
      BY <2>8, <3>1, DoneStays, Zenon DEF RealInv, AnsweredByTask
    <3>2. CASE status[r] # "answered"
      <4>1. PICK s \in Sides : HandleMessageResponse(s) /\ res_tx[s][Head(wire[s]).tag] = r
        BY <2>8, <3>2, Answers, Zenon
      <4>2. wire[s] # <<>> /\ Head(wire[s]).type = "response" /\ wire[s] \in Seq(Genuine)
        BY <4>1, Zenon DEF HandleMessageResponse, received, RealInv, Real
      <4>3. Head(wire[s]) \in Genuine /\ Head(wire[s]) \in responsesTo(s)
        <5>1. /\ Head(wire[s]) \in Genuine /\ 1 \in DOMAIN wire[s] /\ Head(wire[s]) = wire[s][1]
          BY <4>2
        <5> QED BY <4>2, <5>1, Zenon DEF responsesTo
      <4>4. Head(wire[s]).req = r
        <5>1. r # None
          BY SessionAssumption, Zenon
        <5> QED BY <4>1, <4>3, <5>1, Zenon DEF ResponseMatches
      <4>5. task[r] = "done"
        BY <2>8, <4>2, <4>3, <4>4, Zenon DEF Genuine
      <4> QED BY <4>5, DoneStays, Zenon
    <3> QED BY <3>1, <3>2
  <2> QED BY <2>1, <2>5, <2>6, <2>7, <2>8, Zenon DEF RealInv, Real, AnsweredByTask
<1> QED BY <1>1, <1>2

\* While next_tag has not gone round, the maker of a send is told of an answer only when
\* the task that the peer's session spawned for this very request has replied: no answer
\* is made up by a sweep, a retry, a closing session or the answer to something else.
THEOREM AnswersAreReal ==
  ASSUME EnoughTags
  PROVE  Spec => []AnsweredByTask
<1>1. Init => RealInv
  <2>1. \A S : <<>> \in Seq(S)
    OBVIOUS
  <2>2. ASSUME Init
        PROVE  /\ \A r \in Requests : status[r] # "answered"
               /\ \A s \in Sides : wire[s] = <<>> /\ mailbox[s] = <<>> /\ pc[s] = "loop"
    BY <2>2, Zenon DEF Init
  <2> QED BY <2>1, <2>2, Zenon DEF RealInv, Real, AnsweredByTask
<1>2. SInv /\ PathInv /\ ResponseMatches /\ RealInv /\ [Next]_vars => RealInv'
  BY RealStep, Zenon
<1>3. RealInv => AnsweredByTask
  BY DEF RealInv
<1>4. Spec => []ResponseMatches
  BY AnswersMatch
<1> QED BY <1>1, <1>2, <1>3, <1>4, Invariant, Path, PTL DEF Spec

=============================================================================
