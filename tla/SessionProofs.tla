---------------------------- MODULE SessionProofs ----------------------------
(***************************************************************************)
(* Proofs about Session, for all requests, every capacity and any number   *)
(* of tags: a request is at one place at a time, is settled once, and is   *)
(* received and served once on the other side; and each session implements *)
(* RequestReply for its clients.                                           *)
(***************************************************************************)
EXTENDS Session, TLAPS

USE DEF None, Sides

\* Messages; a request says which.
Msg == {m \in Message : m.type = "request" => m.req \in Requests}

Types ==
  /\ pc \in [Sides -> PCs]
  /\ job \in [Sides -> Msg]
  /\ mailbox \in [Sides -> Seq(Msg)]
  /\ tag \in [Sides -> Tags]
  /\ res_tx \in [Sides -> [Tags -> Requests \cup {None}]]
  /\ wire \in [Sides -> Seq(Msg)]
  /\ inTag \in [Requests -> Tags]
  /\ status \in [Requests -> Settled \cup {"idle", "queued", "sending"} \cup Waiting]

\* The requests in a queue, and that each is in it once.
reqs(q) == {q[i].req : i \in {j \in 1 .. Len(q) : q[j].type = "request"}}
once(q) ==
  \A i, j \in 1 .. Len(q) :
    q[i].type = "request" /\ q[j].type = "request" /\ q[i].req = q[j].req => i = j

\* The requests of side s that have come so far.
at(s, states) == {r \in Requests : Origin[r] = s /\ status[r] \in states}

\* The request in connection.send.
current(s) ==
  IF pc[s] = "sending" /\ job[s].type = "request" THEN {job[s].req} ELSE {}

\* No reply sender is in the map under two tags.
single(s) ==
  \A t, u \in Tags : res_tx[s][t] = res_tx[s][u] /\ res_tx[s][t] # None => t = u

\* Each request of a side that its session has to do with is at one place: in the
\* mailbox, in connection.send, or in the map.
Placed(s) ==
  /\ once(mailbox[s])
  /\ reqs(mailbox[s]) = at(s, {"queued"})
  /\ current(s) = at(s, {"sending"})
  /\ single(s)
  /\ owners(s, Tags) = at(s, Waiting)
  /\ pc[s] = "sending" => job[s].type \in {"request", "response"}
  /\ ~Open(s) => mailbox[s] = <<>>
  /\ pc[s] = "ended" => owners(s, Tags) = {}

SInv == Types /\ \A s \in Sides : Placed(s)

-----------------------------------------------------------------------------
(* Queues.                                                                  *)

LEMMA EmptyQueue == reqs(<<>>) = {} /\ once(<<>>) /\ <<>> \in Seq(Msg)
<1>1. Len(<<>>) = 0
  OBVIOUS
<1> QED BY <1>1 DEF reqs, once

LEMMA Appended ==
  ASSUME NEW q \in Seq(Msg), NEW m \in Msg, once(q),
         m.type = "request" => m.req \notin reqs(q)
  PROVE  /\ Append(q, m) \in Seq(Msg) /\ once(Append(q, m))
         /\ reqs(Append(q, m)) = reqs(q) \cup (IF m.type = "request" THEN {m.req} ELSE {})
<1> DEFINE p == Append(q, m)
<1>1. /\ p \in Seq(Msg) /\ Len(q) \in Nat /\ Len(p) = Len(q) + 1
      /\ \A i \in 1 .. Len(q) : p[i] = q[i]
      /\ p[Len(q) + 1] = m
  OBVIOUS
<1> HIDE DEF p
<1>2. /\ \A i \in 1 .. Len(p) : i \in 1 .. Len(q) \/ i = Len(q) + 1
      /\ \A i \in 1 .. Len(q) : i \in 1 .. Len(p) /\ i # Len(q) + 1
      /\ Len(q) + 1 \in 1 .. Len(p)
  BY <1>1
<1>3. once(p)
  BY <1>1, <1>2 DEF once, reqs
<1>4. reqs(p) \subseteq reqs(q) \cup (IF m.type = "request" THEN {m.req} ELSE {})
  BY <1>1, <1>2 DEF reqs
<1>5. reqs(q) \cup (IF m.type = "request" THEN {m.req} ELSE {}) \subseteq reqs(p)
  BY <1>1, <1>2 DEF reqs
<1> QED BY <1>1, <1>3, <1>4, <1>5 DEF p

LEMMA Taken ==
  ASSUME NEW q \in Seq(Msg), q # <<>>, once(q)
  PROVE  /\ Tail(q) \in Seq(Msg) /\ once(Tail(q)) /\ Head(q) \in Msg
         /\ Head(q).type = "request" => Head(q).req \in reqs(q)
         /\ reqs(Tail(q)) = reqs(q) \ (IF Head(q).type = "request" THEN {Head(q).req} ELSE {})
<1> DEFINE p == Tail(q)
           h == Head(q)
<1>1. /\ p \in Seq(Msg) /\ h \in Msg /\ h = q[1]
      /\ Len(q) \in Nat \ {0} /\ Len(p) = Len(q) - 1
      /\ \A i \in 1 .. Len(p) : p[i] = q[i + 1]
  OBVIOUS
<1> HIDE DEF p, h
<1>2. /\ \A i \in 1 .. Len(p) : i + 1 \in 1 .. Len(q) /\ i + 1 # 1
      /\ \A i, j \in 1 .. Len(p) : i + 1 = j + 1 => i = j
      /\ \A i \in 1 .. Len(q) : i = 1 \/ \E j \in 1 .. Len(p) : i = j + 1
      /\ 1 \in 1 .. Len(q)
  <2>1. \A i \in 1 .. Len(q) : i = 1 \/ (i - 1 \in 1 .. Len(p) /\ i = (i - 1) + 1)
    BY <1>1
  <2> QED BY <1>1, <2>1
<1>3. once(p)
  BY <1>1, <1>2, SMTT(20) DEF once
<1>4. h.type = "request" => h.req \in reqs(q)
  BY <1>1, <1>2 DEF reqs
<1>5. reqs(p) \subseteq reqs(q) \ (IF h.type = "request" THEN {h.req} ELSE {})
  BY <1>1, <1>2 DEF reqs, once
<1>6. reqs(q) \ (IF h.type = "request" THEN {h.req} ELSE {}) \subseteq reqs(p)
  <2> SUFFICES ASSUME NEW i \in 1 .. Len(q), q[i].type = "request",
                      h.type = "request" => q[i].req # h.req
               PROVE  q[i].req \in reqs(p)
    BY DEF reqs
  <2>1. i # 1
    BY <1>1
  <2>2. PICK j \in 1 .. Len(p) : i = j + 1
    BY <1>2, <2>1
  <2> QED BY <1>1, <2>2, Zenon DEF reqs
<1> QED BY <1>1, <1>3, <1>4, <1>5, <1>6 DEF p, h

-----------------------------------------------------------------------------
(* Frames.                                                                  *)

\* A side is left alone.
LEMMA Frame ==
  ASSUME NEW s \in Sides, Placed(s),
         pc'[s] = pc[s], job'[s] = job[s], mailbox'[s] = mailbox[s],
         res_tx'[s] = res_tx[s],
         \A r \in Requests : Origin[r] = s => status'[r] = status[r]
  PROVE  Placed(s)'
<1>1. \A S : at(s, S)' = at(s, S)
  BY DEF at
<1>2. current(s)' = current(s) /\ owners(s, Tags)' = owners(s, Tags)
      /\ (single(s) => single(s)') /\ (Open(s)' <=> Open(s))
  BY DEF current, owners, single, Open
<1> QED BY <1>1, <1>2 DEF Placed

\* Nothing that the invariant is about changes.
LEMMA Untouched ==
  ASSUME SInv, UNCHANGED <<pc, job, mailbox, tag, res_tx, status>>,
         wire' \in [Sides -> Seq(Msg)], inTag' \in [Requests -> Tags]
  PROVE  SInv'
<1>1. Types'
  BY DEF SInv, Types
<1>2. ASSUME NEW s \in Sides PROVE Placed(s)'
  BY Frame DEF SInv
<1> QED BY <1>1, <1>2 DEF SInv

-----------------------------------------------------------------------------
(* The steps.  Keeps says that no settled request is settled again.         *)

Keeps == \A r \in Requests : status[r] \in Settled => status'[r] = status[r]

LEMMA TagsZero == 0 \in Tags /\ \A t \in Tags : (t + 1) % TagSpace \in Tags
BY SessionAssumption DEF Tags

LEMMA Messages ==
  /\ \A r \in Requests \cup {None}, t \in Tags :
       msg("response", r, t) \in Msg /\ msg("response", r, t).type = "response"
  /\ \A r \in Requests, t \in Tags : msg("request", r, t) \in Msg
  /\ msg("signal", None, 0) \in Msg /\ msg("signal", None, 0).type = "signal"
  /\ msg("cleanup", None, 0) \in Msg /\ msg("cleanup", None, 0).type = "cleanup"
  /\ noJob \in Msg /\ noJob.type = "signal"
BY TagsZero DEF msg, noJob, Msg, Message

\* A message from the peer: what is left on the wire, and what was received.
LEMMA FromWire ==
  ASSUME SInv, NEW s \in Sides, wire[s] # <<>>, wire' = [wire EXCEPT ![s] = Tail(@)]
  PROVE  /\ wire' \in [Sides -> Seq(Msg)] /\ Head(wire[s]) \in Msg
         /\ Head(wire[s]).tag \in Tags /\ Head(wire[s]).req \in Requests \cup {None}
         /\ Head(wire[s]).type = "request" => Head(wire[s]).req \in Requests
<1>1. wire[s] \in Seq(Msg)
  BY DEF SInv, Types
<1>2. Tail(wire[s]) \in Seq(Msg) /\ Head(wire[s]) \in Msg
  BY <1>1
<1>3. wire' \in [Sides -> Seq(Msg)]
  BY <1>2 DEF SInv, Types
<1> QED BY <1>2, <1>3 DEF Msg, Message

\* What recv leaves of the mailbox.
LEMMA FromMailbox ==
  ASSUME SInv, NEW s \in Sides, mailbox[s] # <<>>,
         mailbox' = [mailbox EXCEPT ![s] = Tail(@)]
  PROVE  /\ mailbox' \in [Sides -> Seq(Msg)] /\ Head(mailbox[s]) \in Msg
         /\ once(mailbox'[s])
         /\ \A u \in Sides \ {s} : mailbox'[u] = mailbox[u]
         /\ Head(mailbox[s]).type = "request" =>
              /\ Head(mailbox[s]).req \in at(s, {"queued"})
              /\ reqs(mailbox'[s]) = at(s, {"queued"}) \ {Head(mailbox[s]).req}
         /\ Head(mailbox[s]).type # "request" => reqs(mailbox'[s]) = reqs(mailbox[s])
<1>1. /\ mailbox[s] \in Seq(Msg) /\ once(mailbox[s])
      /\ reqs(mailbox[s]) = at(s, {"queued"})
  BY DEF SInv, Types, Placed
<1>2. /\ Tail(mailbox[s]) \in Seq(Msg) /\ once(Tail(mailbox[s])) /\ Head(mailbox[s]) \in Msg
      /\ Head(mailbox[s]).type = "request" => Head(mailbox[s]).req \in reqs(mailbox[s])
      /\ reqs(Tail(mailbox[s])) =
           reqs(mailbox[s]) \ (IF Head(mailbox[s]).type = "request"
                              THEN {Head(mailbox[s]).req} ELSE {})
  BY <1>1, Taken
<1>3. /\ mailbox' \in [Sides -> Seq(Msg)] /\ mailbox'[s] = Tail(mailbox[s])
      /\ \A u \in Sides \ {s} : mailbox'[u] = mailbox[u]
  BY <1>2 DEF SInv, Types
<1> QED BY <1>1, <1>2, <1>3, Zenon

\* The reply senders of the requests in G are used or dropped, and the session of
\* side s goes on to w.
Removes(s, G, w) ==
  /\ pc' = [pc EXCEPT ![s] = w]
  /\ IF w = "ended" THEN pc[s] = "closing" /\ G = owners(s, Tags)
                    ELSE pc[s] \in {"loop", "select"}
  /\ res_tx' \in [Sides -> [Tags -> Requests \cup {None}]]
  /\ \A u \in Sides \ {s} : res_tx'[u] = res_tx[u]
  /\ \A t \in Tags : res_tx'[s][t] = IF res_tx[s][t] \in G THEN None ELSE res_tx[s][t]
  /\ status' \in [Requests -> Settled \cup {"idle", "queued", "sending"} \cup Waiting]
  /\ \A q \in Requests : IF q \in G THEN status'[q] \in Settled
                                    ELSE status'[q] = status[q]
  /\ UNCHANGED <<job, mailbox, tag, inTag>>
  /\ wire' \in [Sides -> Seq(Msg)]

-----------------------------------------------------------------------------
(* Every step preserves the invariant: one named fact per handler, and one  *)
(* for each way of changing a queue, a status or a place.                   *)

LEMMA NextStep ==
  SInv /\ Next => SInv' /\ Keeps

\* A side whose requests stay where they are: its mailbox may get or lose other
\* messages, and its session may go on, but not into or out of sending a request.
<1>Aside.
    ASSUME NEW s \in Sides, Placed(s),
           once(mailbox'[s]), reqs(mailbox'[s]) = reqs(mailbox[s]),
           current(s)' = current(s),
           res_tx'[s] = res_tx[s],
           \A r \in Requests : Origin[r] = s => status'[r] = status[r],
           pc'[s] = "sending" => job'[s].type \in {"request", "response"},
           Open(s)', Open(s)
    PROVE  Placed(s)'
  <2> USE <1>Aside
  <2>1. \A S : at(s, S)' = at(s, S)
    BY DEF at
  <2>2. owners(s, Tags)' = owners(s, Tags) /\ (single(s) => single(s)')
    BY DEF owners, single
  <2> QED BY <2>1, <2>2 DEF Placed, Open

<1>OneSide.
    ASSUME SInv, NEW s \in Sides, Types', Placed(s)',
           \A u \in Sides \ {s} : /\ pc'[u] = pc[u] /\ job'[u] = job[u]
                                 /\ mailbox'[u] = mailbox[u] /\ res_tx'[u] = res_tx[u],
           \A r \in Requests : Origin[r] # s => status'[r] = status[r]
    PROVE  SInv'
  <2> USE <1>OneSide
  <2>1. \A u \in Sides \ {s} : Placed(u)'
    <3> TAKE u \in Sides \ {s}
    <3>1. Placed(u)
      BY DEF SInv
    <3> QED BY <3>1, Frame
  <2> QED BY <2>1 DEF SInv

\* A session goes on without a request in its hands.
<1>QuietMove.
    ASSUME SInv, NEW s \in Sides, NEW w \in {"loop", "sending", "forward", "asking"},
           pc[s] \in {"select", "asking", "forward"}, pc' = [pc EXCEPT ![s] = w],
           job' \in [Sides -> Msg], mailbox' \in [Sides -> Seq(Msg)],
           \A u \in Sides \ {s} : job'[u] = job[u] /\ mailbox'[u] = mailbox[u],
           w = "sending" => job'[s].type = "response",
           once(mailbox'[s]), reqs(mailbox'[s]) = reqs(mailbox[s]),
           UNCHANGED <<tag, res_tx, status>>,
           wire' \in [Sides -> Seq(Msg)], inTag' \in [Requests -> Tags]
    PROVE  SInv'
  <2> USE <1>QuietMove
  <2>1. Types'
    BY DEF SInv, Types, PCs
  <2>2. pc'[s] = w /\ \A u \in Sides \ {s} : pc'[u] = pc[u]
    BY DEF SInv, Types
  <2>3. Open(s) /\ Open(s)'
    BY <2>2 DEF Open
  <2>4. current(s) = {} /\ current(s)' = {}
    BY <2>2 DEF current
  <2>5. Placed(s)'
    BY <2>2, <2>3, <2>4, <1>Aside, Zenon DEF SInv
  <2> QED BY <2>1, <2>2, <2>5, <1>OneSide

\* A message that is no request enters a mailbox.
<1>QuietMessage.
    ASSUME SInv, NEW s \in Sides, NEW m \in Msg, m.type # "request", enqueue(s, m),
           UNCHANGED <<pc, job, tag, res_tx, wire, status>>, inTag' \in [Requests -> Tags]
    PROVE  SInv'
  <2> USE <1>QuietMessage
  <2>1. mailbox[s] \in Seq(Msg) /\ once(mailbox[s])
    BY DEF SInv, Types, Placed
  <2>2. /\ Append(mailbox[s], m) \in Seq(Msg) /\ once(Append(mailbox[s], m))
        /\ reqs(Append(mailbox[s], m)) = reqs(mailbox[s])
    BY <2>1, Appended, Zenon
  <2>3. /\ mailbox' = [mailbox EXCEPT ![s] = Append(mailbox[s], m)] /\ Open(s)
    BY DEF enqueue
  <2>4. mailbox' \in [Sides -> Seq(Msg)] /\ mailbox'[s] = Append(mailbox[s], m)
        /\ \A u \in Sides \ {s} : mailbox'[u] = mailbox[u]
    BY <2>2, <2>3 DEF SInv, Types
  <2>5. Types'
    BY <2>4 DEF SInv, Types
  <2>6. current(s)' = current(s) /\ Open(s)'
    BY <2>3 DEF current, Open
  <2>7. Placed(s)'
    BY <2>2, <2>3, <2>4, <2>6, <1>Aside DEF SInv, Placed
  <2> QED BY <2>4, <2>5, <2>7, <1>OneSide

\* What a change of one status does.
<1>Moved.
    ASSUME Types, NEW s \in Sides, NEW r \in Requests, Origin[r] = s, NEW v,
           status' = [status EXCEPT ![r] = v]
    PROVE  /\ \A S : at(s, S)' = IF v \in S THEN at(s, S) \cup {r} ELSE at(s, S) \ {r}
           /\ \A q \in Requests : q # r => status'[q] = status[q]
           /\ status'[r] = v
  BY <1>Moved DEF Types, at

\* The steps of the actors and tasks, and those that send to a mailbox.
<1>Around.
    ASSUME SInv,
           \/ \E s \in Sides : Signal(s) \/ TimerSend(s) \/ ActorRecv(s) \/ ActorReply(s)
                              \/ ActorStop(s)
           \/ \E r \in Requests : Abandon(r) \/ TaskForward(r) \/ TaskCreated(r)
                                  \/ TaskReply(r)
           \/ LinkFail
    PROVE  SInv' /\ Keeps
  <2> USE <1>Around
  <2>1. CASE \E s \in Sides : Signal(s)
    <3>1. PICK s \in Sides : Signal(s)
      BY <2>1
    <3>2. /\ enqueue(s, msg("signal", None, 0))
          /\ UNCHANGED <<pc, job, tag, res_tx, wire, status, inTag>>
      BY <3>1 DEF Signal, sessionVars, linkVars, taskVars, clientVars
    <3>3. inTag' \in [Requests -> Tags]
      BY <3>2 DEF SInv, Types
    <3>4. SInv'
      BY <3>2, <3>3, Messages, <1>QuietMessage
    <3> QED BY <3>2, <3>4 DEF Keeps
  <2>2. CASE \E s \in Sides : TimerSend(s)
    <3>1. PICK s \in Sides : TimerSend(s)
      BY <2>2
    <3>2. /\ enqueue(s, msg("cleanup", None, 0)) \/ UNCHANGED mailbox
          /\ UNCHANGED <<pc, job, tag, res_tx, wire, status, inTag>>
      BY <3>1 DEF TimerSend, sessionVars, linkVars, taskVars, clientVars
    <3>3. inTag' \in [Requests -> Tags] /\ wire' \in [Sides -> Seq(Msg)]
      BY <3>2 DEF SInv, Types
    <3>4. CASE enqueue(s, msg("cleanup", None, 0))
      BY <3>2, <3>3, <3>4, Messages, <1>QuietMessage DEF Keeps
    <3>5. CASE UNCHANGED mailbox
      BY <3>2, <3>3, <3>5, Untouched DEF Keeps
    <3> QED BY <3>2, <3>4, <3>5
  <2>3. CASE \E r \in Requests : TaskReply(r)
    <3>1. PICK r \in Requests : TaskReply(r)
      BY <2>3
    <3>2. PICK s \in Sides : s = Peer(Origin[r])
      BY SessionAssumption DEF Peer
    <3>3. inTag[r] \in Tags
      BY DEF SInv, Types
    <3>4. /\ enqueue(s, msg("response", r, inTag[r])) \/ UNCHANGED mailbox
          /\ UNCHANGED <<pc, job, tag, res_tx, wire, status>>
          /\ inTag' = [inTag EXCEPT ![r] = 0]
      BY <3>1, <3>2 DEF TaskReply, sessionVars, linkVars, clientVars
    <3>5. inTag' \in [Requests -> Tags] /\ wire' \in [Sides -> Seq(Msg)]
      BY <3>4, TagsZero DEF SInv, Types
    <3>6. CASE enqueue(s, msg("response", r, inTag[r]))
      <4>1. msg("response", r, inTag[r]) \in Msg /\ msg("response", r, inTag[r]).type = "response"
        BY <3>3, Messages
      <4> QED BY <3>4, <3>5, <3>6, <4>1, <1>QuietMessage DEF Keeps
    <3>7. CASE UNCHANGED mailbox
      BY <3>4, <3>5, <3>7, Untouched DEF Keeps
    <3> QED BY <3>4, <3>6, <3>7
  <2>4. CASE LinkFail
    <3>1. /\ UNCHANGED <<pc, job, mailbox, tag, res_tx, status, inTag>>
          /\ wire' = [s \in Sides |-> <<>>]
      BY <2>4 DEF LinkFail, sessionVars, taskVars, clientVars
    <3>2. wire' \in [Sides -> Seq(Msg)] /\ inTag' \in [Requests -> Tags]
      BY <3>1, EmptyQueue DEF SInv, Types
    <3> QED BY <3>1, <3>2, Untouched DEF Keeps
  <2>5. CASE \/ \E s \in Sides : ActorRecv(s) \/ ActorReply(s) \/ ActorStop(s)
             \/ \E r \in Requests : Abandon(r) \/ TaskForward(r) \/ TaskCreated(r)
    <3>1. UNCHANGED <<pc, job, mailbox, tag, res_tx, status, wire, inTag>>
      BY <2>5, Zenon DEF ActorRecv, ActorReply, ActorStop, Abandon, TaskForward, TaskCreated,
         sessionVars, linkVars, taskVars, clientVars
    <3>2. wire' \in [Sides -> Seq(Msg)] /\ inTag' \in [Requests -> Tags]
      BY <3>1 DEF SInv, Types
    <3> QED BY <3>1, <3>2, Untouched DEF Keeps
  <2> QED BY <2>1, <2>2, <2>3, <2>4, <2>5

<1>SpawnStep.
    ASSUME SInv, NEW s \in Sides, NEW where, received(s, "request"),
           spawn(s, Head(wire[s]).req, where),
           UNCHANGED <<mailbox, tag, res_tx, status>>
    PROVE  SInv' /\ Keeps
  <2> USE <1>SpawnStep
  <2>1. /\ pc[s] = "select" /\ wire[s] # <<>> /\ wire' = [wire EXCEPT ![s] = Tail(@)]
        /\ pc' = [pc EXCEPT ![s] = "loop"] /\ UNCHANGED job
        /\ Head(wire[s]).type = "request"
        /\ inTag' = [inTag EXCEPT ![Head(wire[s]).req] = Head(wire[s]).tag]
    BY DEF received, spawn, goto
  <2>2. wire' \in [Sides -> Seq(Msg)] /\ Head(wire[s]).tag \in Tags
    BY <2>1, FromWire, Zenon
  <2>3. inTag' \in [Requests -> Tags] /\ job' \in [Sides -> Msg] /\ mailbox' \in [Sides -> Seq(Msg)]
    BY <2>1, <2>2, Zenon DEF SInv, Types
  <2>4. once(mailbox'[s])
    BY DEF SInv, Placed
  <2> QED BY <2>1, <2>2, <2>3, <2>4, <1>QuietMove, Zenon DEF Keeps

\* A session takes up a message, or goes on, without a request of its own.
<1>JobStep.
    ASSUME SInv, NEW s \in Sides, NEW w \in {"loop", "sending", "forward", "asking"},
           NEW m \in Msg, w = "sending" => m.type = "response",
           pc[s] \in {"select", "asking", "forward"}, pc' = [pc EXCEPT ![s] = w],
           job' = job \/ job' = [job EXCEPT ![s] = m],
           w = "sending" => job' = [job EXCEPT ![s] = m],
           UNCHANGED <<mailbox, tag, res_tx, status, inTag>>,
           wire' \in [Sides -> Seq(Msg)]
    PROVE  SInv' /\ Keeps
  <2> USE <1>JobStep
  <2>1. /\ job' \in [Sides -> Msg] /\ \A u \in Sides \ {s} : job'[u] = job[u]
        /\ w = "sending" => job'[s].type = "response"
    <3>1. CASE job' = job
      BY <3>1 DEF SInv, Types
    <3>2. CASE job' = [job EXCEPT ![s] = m]
      BY <3>2 DEF SInv, Types
    <3> QED BY <3>1, <3>2
  <2>2. inTag' \in [Requests -> Tags] /\ mailbox' \in [Sides -> Seq(Msg)] /\ once(mailbox'[s])
    BY Zenon DEF SInv, Types, Placed
  <2> QED BY <2>1, <2>2, <1>QuietMove, Zenon DEF Keeps

<1>ActorMessageStep.
    ASSUME SInv, NEW s \in Sides, HandleActorMessage(s)
    PROVE  SInv' /\ Keeps
  <2> USE <1>ActorMessageStep
  <2> DEFINE h == Head(wire[s])
  <2>1. /\ received(s, "request") /\ UNCHANGED <<mailbox, tag, res_tx, status>>
        /\ pc[s] = "select" /\ wire[s] # <<>> /\ wire' = [wire EXCEPT ![s] = Tail(@)]
    BY DEF HandleActorMessage, received, clientVars
  <2>2. wire' \in [Sides -> Seq(Msg)] /\ h \in Msg
    BY <2>1, FromWire, Zenon
  <2>3. CASE \E where \in {"forward", "reply"} : spawn(s, h.req, where)
    BY <2>1, <2>3, <1>SpawnStep
  <2>4. CASE goto(s, "forward") /\ job' = [job EXCEPT ![s] = h] /\ UNCHANGED taskVars
    BY <2>1, <2>2, <2>4, <1>JobStep, Zenon DEF goto, taskVars
  <2>5. CASE goto(s, "loop") /\ UNCHANGED job /\ UNCHANGED taskVars
    BY <2>1, <2>2, <2>5, <1>JobStep, Zenon DEF goto, taskVars
  <2> QED BY <2>3, <2>4, <2>5, Zenon DEF HandleActorMessage

<1>NodeMessageStep.
    ASSUME SInv, NEW s \in Sides, HandleNodeMessage(s)
    PROVE  SInv' /\ Keeps
  <2> USE <1>NodeMessageStep
  <2> DEFINE h == Head(wire[s])
  <2>1. /\ received(s, "request") /\ UNCHANGED <<mailbox, tag, res_tx, status>>
        /\ pc[s] = "select" /\ wire[s] # <<>> /\ wire' = [wire EXCEPT ![s] = Tail(@)]
    BY DEF HandleNodeMessage, received, clientVars
  <2>2. /\ wire' \in [Sides -> Seq(Msg)] /\ h \in Msg /\ h.tag \in Tags
        /\ h.req \in Requests \cup {None}
    BY <2>1, FromWire, Zenon
  <2>3. CASE spawn(s, h.req, "creating")
    BY <2>1, <2>3, <1>SpawnStep
  <2>4. CASE startSend(s, msg("response", h.req, h.tag)) /\ UNCHANGED taskVars
    <3>1. PICK m \in Msg : m = msg("response", h.req, h.tag) /\ m.type = "response"
      BY <2>2, Messages, Zenon
    <3>2. /\ pc' = [pc EXCEPT ![s] = "sending"] /\ job' = [job EXCEPT ![s] = m]
          /\ UNCHANGED inTag
      BY <2>4, <3>1 DEF startSend, goto, taskVars
    <3> QED BY <2>1, <2>2, <3>1, <3>2, <1>JobStep, Zenon
  <2>5. CASE goto(s, "asking") /\ job' = [job EXCEPT ![s] = h] /\ UNCHANGED taskVars
    BY <2>1, <2>2, <2>5, <1>JobStep, Zenon DEF goto, taskVars
  <2> QED BY <2>3, <2>4, <2>5, Zenon DEF HandleNodeMessage

<1>GoesOnStep.
    ASSUME SInv, NEW s \in Sides, RecvFail(s) \/ ActorMgrReply(s) \/ Forward(s)
    PROVE  SInv' /\ Keeps
  <2> USE <1>GoesOnStep
  <2>1. UNCHANGED <<mailbox, tag, res_tx, status, inTag, wire>>
    BY DEF RecvFail, ActorMgrReply, Forward, linkVars, taskVars, clientVars
  <2>2. wire' \in [Sides -> Seq(Msg)] /\ job[s] \in Msg
    BY <2>1 DEF SInv, Types
  <2>3. CASE RecvFail(s)
    <3>1. pc[s] = "select" /\ pc' = [pc EXCEPT ![s] = "loop"] /\ job' = job
      BY <2>3 DEF RecvFail, goto
    <3> QED BY <2>1, <2>2, <3>1, <1>JobStep, ZenonT(20)
  <2>4. CASE Forward(s)
    <3>1. /\ pc[s] = "forward" /\ pc' = [pc EXCEPT ![s] = "loop"]
          /\ job' = [job EXCEPT ![s] = noJob]
      BY <2>4 DEF Forward, goto
    <3> QED BY <2>1, <2>2, <3>1, Messages, <1>JobStep, ZenonT(20)
  <2>5. CASE ActorMgrReply(s)
    <3>1. job[s].req \in Requests \cup {None} /\ job[s].tag \in Tags
      BY <2>2 DEF Msg, Message
    <3>2. PICK m \in Msg : m = msg("response", job[s].req, job[s].tag) /\ m.type = "response"
      BY <3>1, Messages, Zenon
    <3>3. /\ pc[s] = "asking" /\ pc' = [pc EXCEPT ![s] = "sending"]
          /\ job' = [job EXCEPT ![s] = m]
      BY <2>5, <3>2 DEF ActorMgrReply, startSend, goto
    <3> QED BY <2>1, <2>2, <3>2, <3>3, <1>JobStep, Zenon
  <2> QED BY <2>3, <2>4, <2>5, Zenon

<1>HandleOtherStep.
    ASSUME SInv, NEW s \in Sides, HandleOther(s)
    PROVE  SInv' /\ Keeps
  <2> USE <1>HandleOtherStep
  <2>1. /\ pc[s] = "select" /\ mailbox[s] # <<>> /\ mailbox' = [mailbox EXCEPT ![s] = Tail(@)]
        /\ UNCHANGED <<tag, res_tx, status, wire, inTag>>
        /\ Head(mailbox[s]).type # "request"
    BY DEF HandleOther, linkVars, taskVars, clientVars
  <2>2. /\ mailbox' \in [Sides -> Seq(Msg)] /\ Head(mailbox[s]) \in Msg /\ once(mailbox'[s])
        /\ \A u \in Sides \ {s} : mailbox'[u] = mailbox[u]
        /\ reqs(mailbox'[s]) = reqs(mailbox[s])
    BY <2>1, FromMailbox, Zenon
  <2>3. wire' \in [Sides -> Seq(Msg)] /\ inTag' \in [Requests -> Tags]
    BY <2>1 DEF SInv, Types
  <2>4. CASE Head(mailbox[s]).type = "response" /\ startSend(s, Head(mailbox[s]))
    <3>1. /\ pc' = [pc EXCEPT ![s] = "sending"]
          /\ job' \in [Sides -> Msg] /\ job'[s].type = "response"
          /\ \A u \in Sides \ {s} : job'[u] = job[u]
      BY <2>2, <2>4 DEF startSend, goto, SInv, Types
    <3> QED BY <2>1, <2>2, <2>3, <3>1, <1>QuietMove, Zenon DEF Keeps
  <2>5. CASE goto(s, "loop") /\ UNCHANGED job
    <3>1. pc' = [pc EXCEPT ![s] = "loop"] /\ job' \in [Sides -> Msg]
      BY <2>5 DEF goto, SInv, Types
    <3> QED BY <2>1, <2>2, <2>3, <2>5, <3>1, <1>QuietMove, Zenon DEF Keeps
  <2> QED BY <2>4, <2>5 DEF HandleOther

<1>HandleRequestStep.
    ASSUME SInv, NEW s \in Sides, HandleRequest(s)
    PROVE  SInv' /\ Keeps
  <2> USE <1>HandleRequestStep
  <2>1. /\ pc[s] = "select" /\ mailbox[s] # <<>> /\ mailbox' = [mailbox EXCEPT ![s] = Tail(@)]
        /\ UNCHANGED <<res_tx, wire, inTag>>
        /\ Head(mailbox[s]).type = "request"
    BY DEF HandleRequest, linkVars, taskVars
  <2>2. /\ mailbox' \in [Sides -> Seq(Msg)] /\ once(mailbox'[s])
        /\ \A u \in Sides \ {s} : mailbox'[u] = mailbox[u]
        /\ Head(mailbox[s]).req \in at(s, {"queued"})
        /\ reqs(mailbox'[s]) = at(s, {"queued"}) \ {Head(mailbox[s]).req}
    BY <2>1, FromMailbox, Zenon
  <2>3. PICK r \in Requests : /\ r = Head(mailbox[s]).req /\ Origin[r] = s
                              /\ status[r] = "queued"
    BY <2>2 DEF at
  <2>4. PICK v \in {"closed", "sending"} :
          /\ status' = [status EXCEPT ![r] = v]
          /\ v = "closed" => pc' = [pc EXCEPT ![s] = "loop"] /\ UNCHANGED <<job, tag>>
          /\ v = "sending" => /\ pc' = [pc EXCEPT ![s] = "sending"]
                              /\ job' = [job EXCEPT ![s] = msg("request", r, tag[s])]
                              /\ tag' = tag \/ next_tag(s)
    <3>1. CASE Kind[r] = "node" /\ r \in abandoned
      <4>1. status' = [status EXCEPT ![r] = "closed"] /\ goto(s, "loop") /\ UNCHANGED <<job, tag>>
        BY <2>3, <3>1, Zenon DEF HandleRequest
      <4> QED BY <4>1 DEF goto
    <3>2. CASE ~(Kind[r] = "node" /\ r \in abandoned)
      <4>1. /\ status' = [status EXCEPT ![r] = "sending"]
            /\ startSend(s, msg("request", r, tag[s]))
            /\ tag' = tag \/ next_tag(s)
        BY <2>3, <3>2, Zenon DEF HandleRequest
      <4> QED BY <4>1, Zenon DEF startSend, goto
    <3> QED BY <3>1, <3>2
  <2>5. /\ msg("request", r, tag[s]) \in Msg /\ msg("request", r, tag[s]).type = "request"
        /\ msg("request", r, tag[s]).req = r
    BY Messages DEF SInv, Types, msg
  <2>6. /\ job' \in [Sides -> Msg] /\ \A u \in Sides \ {s} : job'[u] = job[u] /\ pc'[u] = pc[u]
        /\ pc' \in [Sides -> PCs] /\ pc'[s] = IF v = "closed" THEN "loop" ELSE "sending"
        /\ v = "sending" => job'[s] = msg("request", r, tag[s])
    <3>1. CASE v = "closed"
      BY <2>4, <3>1, ZenonT(60) DEF SInv, Types, PCs
    <3>2. CASE v = "sending"
      BY <2>4, <2>5, <3>2 DEF SInv, Types, PCs
    <3> QED BY <3>1, <3>2
  <2>7. tag' \in [Sides -> Tags]
    <3>1. CASE tag' = tag
      BY <3>1 DEF SInv, Types
    <3>2. CASE next_tag(s)
      BY <3>2, TagsZero, Zenon DEF SInv, Types, next_tag
    <3> QED BY <2>4, <3>1, <3>2
  <2>8. Types'
    <3>1. status' \in [Requests -> Settled \cup {"idle", "queued", "sending"} \cup Waiting]
      BY <2>4 DEF SInv, Types, Settled
    <3> QED BY <2>1, <2>2, <2>6, <2>7, <3>1, Zenon DEF SInv, Types
  <2>9. /\ \A S : at(s, S)' = IF v \in S THEN at(s, S) \cup {r} ELSE at(s, S) \ {r}
        /\ \A q \in Requests : q # r => status'[q] = status[q]
    <3>1. Types /\ Origin[r] = s /\ status' = [status EXCEPT ![r] = v]
      BY <2>3, <2>4 DEF SInv
    <3> QED BY <3>1, <1>Moved, ZenonT(20)
  <2>10. Placed(s)'
    <3>1. at(s, {"queued"})' = at(s, {"queued"}) \ {r}
      BY <2>9
    <3>2. at(s, Waiting)' = at(s, Waiting)
      BY <2>3, <2>9, ZenonT(20) DEF at, Waiting
    <3>3. owners(s, Tags)' = owners(s, Tags) /\ (single(s) => single(s)')
      BY <2>1 DEF owners, single
    <3>4. current(s) = {} /\ at(s, {"sending"}) = {}
      BY <2>1 DEF SInv, Placed, current
    <3>5. current(s)' = at(s, {"sending"})'
      <4>1. CASE v = "closed"
        BY <2>6, <2>9, <3>4, <4>1, Zenon DEF current
      <4>2. CASE v = "sending"
        BY <2>5, <2>6, <2>9, <3>4, <4>2 DEF current
      <4> QED BY <4>1, <4>2
    <3>6. Open(s)' /\ pc'[s] # "ended"
      BY <2>6 DEF Open
    <3>7. pc'[s] = "sending" => job'[s].type \in {"request", "response"}
      BY <2>5, <2>6, Zenon
    <3> QED BY <2>2, <2>3, <3>1, <3>2, <3>3, <3>5, <3>6, <3>7, Zenon DEF SInv, Placed
  <2>11. SInv'
    BY <2>1, <2>2, <2>3, <2>6, <2>8, <2>9, <2>10, <1>OneSide, Zenon
  <2> QED BY <2>3, <2>9, <2>11, Zenon DEF Keeps, Settled

<1>SubmitStep.
    ASSUME SInv, NEW r \in Requests, Submit(r)
    PROVE  SInv' /\ Keeps
  <2> USE <1>SubmitStep
  <2>1. PICK s \in Sides : s = Origin[r]
    BY SessionAssumption
  <2>2. PICK m \in Msg : m = msg("request", r, 0) /\ m.type = "request" /\ m.req = r
    BY Messages, TagsZero, ZenonT(20) DEF msg
  <2>3. /\ status[r] = "idle" /\ Open(s)
        /\ mailbox' = [mailbox EXCEPT ![s] = Append(mailbox[s], m)]
        /\ status' = [status EXCEPT ![r] = "queued"]
        /\ UNCHANGED <<pc, job, tag, res_tx, wire, inTag>>
    BY <2>1, <2>2, Zenon DEF Submit, enqueue, sessionVars, linkVars, taskVars
  <2>4. /\ mailbox[s] \in Seq(Msg) /\ once(mailbox[s])
        /\ reqs(mailbox[s]) = at(s, {"queued"}) /\ r \notin reqs(mailbox[s])
    BY <2>3 DEF SInv, Types, Placed, at
  <2>5. /\ Append(mailbox[s], m) \in Seq(Msg) /\ once(Append(mailbox[s], m))
        /\ reqs(Append(mailbox[s], m)) = at(s, {"queued"}) \cup {r}
    BY <2>2, <2>4, Appended, Zenon
  <2>6. /\ mailbox' \in [Sides -> Seq(Msg)] /\ mailbox'[s] = Append(mailbox[s], m)
        /\ \A u \in Sides \ {s} : mailbox'[u] = mailbox[u]
    BY <2>3, <2>5, Zenon DEF SInv, Types
  <2>7. Types'
    <3>1. status' \in [Requests -> Settled \cup {"idle", "queued", "sending"} \cup Waiting]
      BY <2>3 DEF SInv, Types
    <3> QED BY <2>3, <2>6, <3>1 DEF SInv, Types
  <2>8. /\ \A S : at(s, S)' = IF "queued" \in S THEN at(s, S) \cup {r} ELSE at(s, S) \ {r}
        /\ \A q \in Requests : q # r => status'[q] = status[q]
    <3>1. Types /\ Origin[r] = s /\ status' = [status EXCEPT ![r] = "queued"]
      BY <2>1, <2>3 DEF SInv
    <3> QED BY <3>1, <1>Moved, ZenonT(20)
  <2>9. Placed(s)'
    <3>1. /\ at(s, {"queued"})' = at(s, {"queued"}) \cup {r}
          /\ at(s, Waiting)' = at(s, Waiting) /\ at(s, {"sending"})' = at(s, {"sending"})
      BY <2>3, <2>8, Zenon DEF at, Waiting
    <3>2. owners(s, Tags)' = owners(s, Tags) /\ (single(s) => single(s)')
          /\ current(s)' = current(s) /\ Open(s)' /\ pc[s] # "ended"
      BY <2>3, Zenon DEF owners, single, current, Open
    <3> QED BY <2>3, <2>5, <2>6, <3>1, <3>2, Zenon DEF SInv, Placed
  <2>10. SInv'
    BY <2>1, <2>3, <2>6, <2>7, <2>8, <2>9, <1>OneSide
  <2> QED BY <2>3, <2>8, <2>10 DEF Keeps, Settled

<1>RefuseAndAgeStep.
    ASSUME SInv, NEW r \in Requests, Refuse(r) \/ Age(r)
    PROVE  SInv' /\ Keeps
  <2> USE <1>RefuseAndAgeStep
  <2>1. PICK s \in Sides : s = Origin[r]
    BY SessionAssumption
  <2>2. PICK v \in {"rejected", "overdue"} :
          /\ status' = [status EXCEPT ![r] = v]
          /\ v = "rejected" => status[r] = "idle"
          /\ v = "overdue" => status[r] = "pending"
    <3>1. CASE Refuse(r)
      BY <3>1 DEF Refuse
    <3>2. CASE Age(r)
      BY <3>2, Zenon DEF Age
    <3> QED BY <3>1, <3>2, SMTT(30)
  <2>3. UNCHANGED <<pc, job, mailbox, tag, res_tx, wire, inTag>>
    BY DEF Refuse, Age, sessionVars, linkVars, taskVars
  <2>4. Types'
    <3>1. status' \in [Requests -> Settled \cup {"idle", "queued", "sending"} \cup Waiting]
      BY <2>2 DEF SInv, Types, Settled, Waiting
    <3> QED BY <2>3, <3>1 DEF SInv, Types
  <2>5. /\ \A S : at(s, S)' = IF v \in S THEN at(s, S) \cup {r} ELSE at(s, S) \ {r}
        /\ \A q \in Requests : q # r => status'[q] = status[q]
    <3>1. Types /\ Origin[r] = s /\ status' = [status EXCEPT ![r] = v]
      BY <2>1, <2>2 DEF SInv
    <3> QED BY <3>1, <1>Moved, ZenonT(30)
  <2>6. /\ at(s, {"queued"})' = at(s, {"queued"})
        /\ at(s, Waiting)' = at(s, Waiting) /\ at(s, {"sending"})' = at(s, {"sending"})
    <3>1. CASE v = "rejected"
      BY <2>1, <2>2, <2>5, <3>1 DEF at, Waiting
    <3>2. CASE v = "overdue"
      BY <2>1, <2>2, <2>5, <3>2, Zenon DEF at, Waiting
    <3> QED BY <3>1, <3>2
  <2>7. Placed(s)'
    <3>1. owners(s, Tags)' = owners(s, Tags) /\ (single(s) => single(s)')
          /\ current(s)' = current(s) /\ (Open(s)' <=> Open(s))
      BY <2>3, Zenon DEF owners, single, current, Open
    <3> QED BY <2>3, <2>6, <3>1, Zenon DEF SInv, Placed
  <2>8. SInv'
    BY <2>1, <2>3, <2>4, <2>5, <2>7, <1>OneSide, Zenon
  <2> QED BY <2>2, <2>5, <2>8 DEF Keeps, Settled

\* The session is done with the message it sent; its map stays as it is.
<1>SentStep.
    ASSUME SInv, NEW s \in Sides, pc[s] = "sending",
           pc' = [pc EXCEPT ![s] = "loop"], job' = [job EXCEPT ![s] = noJob],
           NEW v \in {"sent", "failed"},
           status' = IF job[s].type = "request" THEN [status EXCEPT ![job[s].req] = v]
                                                ELSE status,
           UNCHANGED <<mailbox, tag, res_tx, inTag>>, wire' \in [Sides -> Seq(Msg)]
    PROVE  SInv' /\ Keeps
  <2> USE <1>SentStep
  <2>1. /\ pc'[s] = "loop" /\ pc' \in [Sides -> PCs] /\ job' \in [Sides -> Msg]
        /\ \A u \in Sides \ {s} : pc'[u] = pc[u] /\ job'[u] = job[u]
    BY Messages, Zenon DEF SInv, Types, PCs
  <2>2. /\ owners(s, Tags)' = owners(s, Tags) /\ (single(s) => single(s)')
        /\ current(s)' = {} /\ Open(s)' /\ current(s) = at(s, {"sending"})
    <3>1. owners(s, Tags)' = owners(s, Tags) /\ (single(s) => single(s)')
      BY DEF owners, single
    <3>2. current(s)' = {} /\ Open(s)'
      BY <2>1, Zenon DEF current, Open
    <3> QED BY <3>1, <3>2, Zenon DEF SInv, Placed
  <2>3. CASE job[s].type = "request"
    <3>1. PICK r \in Requests : r = job[s].req
      BY <2>3, Zenon DEF SInv, Types, Msg
    <3>2. at(s, {"sending"}) = {r}
      BY <2>2, <2>3, <3>1, Zenon DEF current
    <3>3. Origin[r] = s /\ status[r] = "sending" /\ status' = [status EXCEPT ![r] = v]
      BY <2>3, <3>1, <3>2, Zenon DEF at
    <3>4. Types'
      <4>1. status' \in [Requests -> Settled \cup {"idle", "queued", "sending"} \cup Waiting]
        BY <3>3, Zenon DEF SInv, Types, Settled
      <4> QED BY <2>1, <4>1, Zenon DEF SInv, Types
    <3>5. status'[r] = v /\ \A q \in Requests : q # r => status'[q] = status[q]
      BY <3>3, Zenon DEF SInv, Types
    <3>6. /\ at(s, {"queued"})' = at(s, {"queued"})
          /\ at(s, Waiting)' = at(s, Waiting) /\ at(s, {"sending"})' = {}
      <4>1. \A q \in at(s, {"sending"}) : q = r
        BY <3>2, Zenon
      <4>2. at(s, {"queued"})' = at(s, {"queued"})
        BY <3>3, <3>5, Zenon DEF at
      <4>3. at(s, Waiting)' = at(s, Waiting)
        BY <3>3, <3>5, Zenon DEF at, Waiting
      <4> QED BY <3>3, <3>5, <4>1, <4>2, <4>3 DEF at
    <3>7. Placed(s)'
      BY <2>1, <2>2, <3>6, Zenon DEF SInv, Placed, Open
    <3>8. SInv'
      BY <2>1, <3>3, <3>4, <3>5, <3>7, <1>OneSide
    <3> QED BY <3>3, <3>5, <3>8, Zenon DEF Keeps, Settled
  <2>4. CASE job[s].type # "request"
    <3>1. Types'
      BY <2>1, <2>4 DEF SInv, Types
    <3>2. current(s) = {}
      BY <2>4, Zenon DEF current
    <3>3. Placed(s)'
      <4>1. \A S : at(s, S)' = at(s, S)
        BY <2>4, Zenon DEF at
      <4> QED BY <2>1, <2>2, <3>2, <4>1 DEF SInv, Placed, Open
    <3>4. SInv'
      BY <2>1, <2>4, <3>1, <3>3, <1>OneSide
    <3> QED BY <2>4, <3>4, Zenon DEF Keeps
  <2> QED BY <2>3, <2>4, Zenon

<1>SendFailStep.
    ASSUME SInv, NEW s \in Sides, SendFail(s)
    PROVE  SInv' /\ Keeps
  <2> USE <1>SendFailStep
  <2>1. wire' \in [Sides -> Seq(Msg)]
    BY DEF SendFail, linkVars, SInv, Types
  <2> QED BY <2>1, <1>SentStep, Zenon DEF SendFail, goto, taskVars

\* The reply sender of a sent request goes into the map, over one with its tag.
<1>InsertStep.
    ASSUME SInv, NEW s \in Sides, NEW t \in Tags, NEW r \in Requests,
           pc[s] = "sending", job[s].type = "request", job[s].req = r,
           pc' = [pc EXCEPT ![s] = "loop"], job' = [job EXCEPT ![s] = noJob],
           status' = [closed(owners(s, {t})) EXCEPT ![r] = "pending"],
           res_tx' = [res_tx EXCEPT ![s][t] = r],
           UNCHANGED <<mailbox, tag, inTag>>, wire' \in [Sides -> Seq(Msg)]
    PROVE  SInv' /\ Keeps
  <2> USE <1>InsertStep
  <2>1. /\ pc'[s] = "loop" /\ pc' \in [Sides -> PCs] /\ job' \in [Sides -> Msg]
        /\ \A u \in Sides \ {s} : pc'[u] = pc[u] /\ job'[u] = job[u]
    BY Messages, Zenon DEF SInv, Types, PCs
  <2>2. /\ at(s, {"sending"}) = {r} /\ single(s) /\ owners(s, Tags) = at(s, Waiting)
        /\ once(mailbox[s]) /\ reqs(mailbox[s]) = at(s, {"queued"})
    BY Zenon DEF SInv, Placed, current
  <2>3. r # None /\ Origin[r] = s /\ status[r] = "sending"
    BY <2>2, SessionAssumption, Zenon DEF at
  <2>4. PICK old \in Requests \cup {None} : old = res_tx[s][t]
    BY DEF SInv, Types
  <2>5. owners(s, {t}) = {old} \ {None}
    BY <2>4, Zenon DEF owners
  <2>6. old # None => old \in Requests /\ Origin[old] = s /\ status[old] \in Waiting /\ old # r
    <3>1. old # None => old \in owners(s, Tags)
      BY <2>4 DEF owners
    <3> QED BY <2>2, <2>3, <3>1 DEF at, Waiting
  <2>0. \A q \in Requests : q # None
    BY SessionAssumption
  <2>7. /\ status'[r] = "pending" /\ (old # None => status'[old] = "closed")
        /\ \A q \in Requests : q # r /\ q # old => status'[q] = status[q]
    BY <2>3, <2>5, <2>6, Zenon DEF closed
  <2>8. \A u \in Tags : res_tx'[s][u] = IF u = t THEN r ELSE res_tx[s][u]
    BY DEF SInv, Types
  <2>9. Types'
    <3>1. status' \in [Requests -> Settled \cup {"idle", "queued", "sending"} \cup Waiting]
      BY Zenon DEF SInv, Types, Settled, Waiting, closed
    <3>2. res_tx' \in [Sides -> [Tags -> Requests \cup {None}]]
      BY Zenon DEF SInv, Types
    <3> QED BY <2>1, <3>1, <3>2, Zenon DEF SInv, Types
  <2>10. Placed(s)'
    <3>1. at(s, {"queued"})' = at(s, {"queued"})
      <4>1. \A q \in Requests : Origin[q] = s =>
              (status'[q] = "queued" <=> status[q] = "queued")
        BY <2>3, <2>6, <2>7, <2>0, Zenon DEF Waiting
      <4> QED BY <4>1, Zenon DEF at
    <3>2. at(s, {"sending"})' = {}
      <4>1. \A q \in Requests : Origin[q] = s /\ status[q] = "sending" => q = r
        BY <2>2 DEF at
      <4>2. \A q \in Requests : Origin[q] = s => status'[q] # "sending"
        BY <2>6, <2>7, <2>0, <4>1, Zenon
      <4> QED BY <4>2, Zenon DEF at
    <3>3. at(s, Waiting)' = (at(s, Waiting) \ {old}) \cup {r}
      <4>1. \A q \in Requests : Origin[q] = s =>
              (status'[q] \in Waiting <=> q = r \/ (status[q] \in Waiting /\ q # old))
        BY <2>3, <2>6, <2>7, <2>0, Zenon DEF Waiting
      <4> QED BY <2>3, <4>1, Zenon DEF at
    <3>4. \A u \in Tags : u # t => res_tx[s][u] = None \/ (res_tx[s][u] # old /\ res_tx[s][u] # r)
      <4>1. \A u \in Tags : res_tx[s][u] # None => res_tx[s][u] \in at(s, Waiting)
        BY <2>2 DEF owners
      <4>2. r \notin at(s, Waiting)
        BY <2>3 DEF at, Waiting
      <4> QED BY <2>2, <2>4, <4>1, <4>2, Zenon DEF single
    <3>5. owners(s, Tags)' = (owners(s, Tags) \ {old}) \cup {r}
      <4>1. owners(s, Tags)' = {res_tx'[s][u] : u \in Tags} \ {None}
        BY Zenon DEF owners
      <4>2. \A q : q \in owners(s, Tags)' => q \in (owners(s, Tags) \ {old}) \cup {r}
        BY <2>8, <3>4, <4>1 DEF owners
      <4>3. r \in owners(s, Tags)'
        BY <2>3, <2>8, <4>1
      <4>4. \A u \in Tags : res_tx[s][u] # None /\ res_tx[s][u] # old
               => res_tx[s][u] \in owners(s, Tags)'
        BY <2>4, <2>8, <4>1, Zenon
      <4>5. \A q \in owners(s, Tags) : \E u \in Tags : q = res_tx[s][u] /\ q # None
        BY DEF owners
      <4>6. (owners(s, Tags) \ {old}) \cup {r} \subseteq owners(s, Tags)'
        BY <4>3, <4>4, <4>5, ZenonT(30)
      <4> QED BY <4>2, <4>6, Zenon
    <3>6. single(s)'
      BY <2>2, <2>8, <3>4 DEF single
    <3>7. current(s)' = {} /\ Open(s)'
      BY <2>1 DEF current, Open
    <3> QED BY <2>1, <2>2, <3>1, <3>2, <3>3, <3>5, <3>6, <3>7 DEF Placed
  <2>11. /\ \A u \in Sides \ {s} : res_tx'[u] = res_tx[u]
         /\ \A q \in Requests : Origin[q] # s => status'[q] = status[q]
    <3>1. \A u \in Sides \ {s} : res_tx'[u] = res_tx[u]
      BY DEF SInv, Types
    <3> QED BY <2>3, <2>6, <2>7, <2>0, <3>1, Zenon
  <2>12. SInv'
    BY <2>1, <2>9, <2>10, <2>11, <1>OneSide, Zenon
  <2>13. \A q \in Requests : status[q] \in Settled => q # r /\ q # old
    BY <2>3, <2>6, <2>0, Zenon DEF Settled, Waiting
  <2> QED BY <2>7, <2>12, <2>13, Zenon DEF Keeps

<1>SendOkStep.
    ASSUME SInv, NEW s \in Sides, SendOk(s)
    PROVE  SInv' /\ Keeps
  <2> USE <1>SendOkStep
  <2>1. PICK p \in Sides : p = Peer(s)
    BY DEF Peer
  <2>2. /\ pc[s] = "sending" /\ pc' = [pc EXCEPT ![s] = "loop"]
        /\ job' = [job EXCEPT ![s] = noJob]
        /\ wire' = [wire EXCEPT ![p] = Append(wire[p], job[s])]
        /\ UNCHANGED <<mailbox, tag, inTag>>
    BY <2>1, Zenon DEF SendOk, goto, taskVars
  <2>3. job[s] \in Msg /\ job[s].tag \in Tags /\ job[s].type \in {"request", "response"}
    BY <2>2 DEF SInv, Types, Placed, Msg, Message
  <2>4. wire' \in [Sides -> Seq(Msg)]
    <3>1. Append(wire[p], job[s]) \in Seq(Msg)
      BY <2>3 DEF SInv, Types
    <3> QED BY <2>2, <3>1 DEF SInv, Types
  <2>5. CASE job[s].type = "response"
    <3>1. UNCHANGED <<status, res_tx>>
      BY <2>5 DEF SendOk
    <3> QED BY <2>2, <2>4, <2>5, <3>1, <1>SentStep, Zenon
  <2>6. CASE job[s].type = "request" /\ Kind[job[s].req] = "do_send"
    <3>1. status' = [status EXCEPT ![job[s].req] = "sent"] /\ UNCHANGED res_tx
      BY <2>6 DEF SendOk
    <3> QED BY <2>2, <2>4, <2>6, <3>1, <1>SentStep, Zenon
  <2>7. CASE job[s].type = "request" /\ Kind[job[s].req] # "do_send"
    <3>1. PICK r \in Requests : r = job[s].req
      BY <2>3, <2>7 DEF Msg
    <3>2. PICK t \in Tags : t = job[s].tag
      BY <2>3
    <3>3. /\ status' = [closed(owners(s, {t})) EXCEPT ![r] = "pending"]
          /\ res_tx' = [res_tx EXCEPT ![s][t] = r]
      BY <2>7, <3>1, <3>2, Zenon DEF SendOk
    <3> QED BY <2>2, <2>4, <2>7, <3>1, <3>3, <1>InsertStep, Zenon
  <2> QED BY <2>3, <2>5, <2>6, <2>7

<1>RemoveStep.
    ASSUME SInv, NEW s \in Sides, NEW G \in SUBSET owners(s, Tags),
           NEW w \in {"loop", "select", "ended"}, Removes(s, G, w)
    PROVE  SInv' /\ Keeps
  <2> USE <1>RemoveStep
  <2> USE DEF Removes
  <2>1. /\ pc'[s] = w /\ pc' \in [Sides -> PCs]
        /\ \A u \in Sides \ {s} : pc'[u] = pc[u]
    BY Zenon DEF SInv, Types, PCs
  <2>2. Types'
    BY <2>1, Zenon DEF SInv, Types
  <2>3. /\ owners(s, Tags) = at(s, Waiting) /\ single(s) /\ once(mailbox[s])
        /\ reqs(mailbox[s]) = at(s, {"queued"}) /\ current(s) = at(s, {"sending"})
        /\ ~Open(s) => mailbox[s] = <<>>
    BY Zenon DEF SInv, Placed
  <2>4. \A q \in G : q \in Requests /\ Origin[q] = s /\ status[q] \in Waiting
    BY <2>3, Zenon DEF at
  <2>5. at(s, {"queued"})' = at(s, {"queued"}) /\ at(s, {"sending"})' = at(s, {"sending"})
    <3>1. \A q \in Requests : /\ status'[q] = "queued" <=> status[q] = "queued"
                              /\ status'[q] = "sending" <=> status[q] = "sending"
      BY <2>4, Zenon DEF Settled, Waiting
    <3> QED BY <3>1 DEF at
  <2>6. at(s, Waiting)' = at(s, Waiting) \ G
    <3>1. \A q \in Requests : status'[q] \in Waiting <=> (status[q] \in Waiting /\ q \notin G)
      BY <2>4, Zenon DEF Settled, Waiting
    <3> QED BY <3>1, Zenon DEF at
  <2>7. owners(s, Tags)' = owners(s, Tags) \ G
    <3>1. owners(s, Tags)' = {res_tx'[s][u] : u \in Tags} \ {None}
      BY DEF owners
    <3>2. owners(s, Tags)' \subseteq owners(s, Tags) \ G
      BY <3>1 DEF owners
    <3>3. \A q \in owners(s, Tags) : \E u \in Tags : q = res_tx[s][u] /\ q # None
      BY ZenonT(30) DEF owners
    <3>4. owners(s, Tags) \ G \subseteq owners(s, Tags)'
      BY <3>1, <3>3, SMTT(20)
    <3> QED BY <3>2, <3>4, Zenon
  <2>8. single(s)'
    BY <2>3, Zenon DEF single
  <2>9. current(s)' = {} /\ current(s) = {}
    BY <2>1, Zenon DEF current
  <2>10. Placed(s)'
    <3>1. ~Open(s)' => mailbox[s] = <<>>
      BY <2>1, <2>3, ZenonT(20) DEF Open
    <3>2. pc'[s] = "ended" => owners(s, Tags)' = {}
      BY <2>1, <2>7, ZenonT(20)
    <3> QED BY <2>1, <2>3, <2>5, <2>6, <2>7, <2>8, <2>9, <3>1, <3>2, SMTT(20) DEF Placed
  <2>11. \A q \in Requests : Origin[q] # s => status'[q] = status[q]
    BY <2>4, Zenon
  <2>12. SInv'
    BY <2>1, <2>2, <2>10, <2>11, <1>OneSide, Zenon
  <2>13. Keeps
    BY <2>4, Zenon DEF Keeps, Settled, Waiting
  <2> QED BY <2>12, <2>13, Zenon

<1>ResponseStep.
    ASSUME SInv, NEW s \in Sides, HandleMessageResponse(s)
    PROVE  SInv' /\ Keeps
  <2> USE <1>ResponseStep
  <2>1. /\ pc[s] = "select" /\ wire[s] # <<>> /\ wire' = [wire EXCEPT ![s] = Tail(@)]
        /\ pc' = [pc EXCEPT ![s] = "loop"] /\ UNCHANGED <<job, mailbox, tag, inTag>>
    BY DEF HandleMessageResponse, received, goto, taskVars
  <2>2. wire' \in [Sides -> Seq(Msg)] /\ Head(wire[s]).tag \in Tags
    BY <2>1, FromWire, Zenon
  <2>3. PICK t \in Tags : t = Head(wire[s]).tag
    BY <2>2
  <2>4. PICK r \in Requests \cup {None} : r = res_tx[s][t]
    BY Zenon DEF SInv, Types
  <2>5. /\ res_tx' = [res_tx EXCEPT ![s][t] = None]
        /\ status' = IF r = None THEN status
                     ELSE [status EXCEPT ![r] = IF tx_is_closed(r) THEN "closed" ELSE "answered"]
    BY <2>3, <2>4 DEF HandleMessageResponse
  <2>6. PICK G \in SUBSET owners(s, Tags) : G = {r} \ {None}
    BY <2>4, Zenon DEF owners
  <2>7. /\ res_tx' \in [Sides -> [Tags -> Requests \cup {None}]]
        /\ \A u \in Sides \ {s} : res_tx'[u] = res_tx[u]
        /\ \A u \in Tags : res_tx'[s][u] = IF u = t THEN None ELSE res_tx[s][u]
    BY <2>5, Zenon DEF SInv, Types
  <2>8. \A u \in Tags : res_tx'[s][u] = IF res_tx[s][u] \in G THEN None ELSE res_tx[s][u]
    <3>1. single(s)
      BY DEF SInv, Placed
    <3>2. \A u \in Tags : res_tx[s][u] = r /\ r # None => u = t
      BY <2>4, <3>1 DEF single
    <3> QED BY <2>4, <2>6, <2>7, <3>2, Zenon
  <2>9. /\ status' \in [Requests -> Settled \cup {"idle", "queued", "sending"} \cup Waiting]
        /\ \A q \in Requests : IF q \in G THEN status'[q] \in Settled
                                         ELSE status'[q] = status[q]
    <3>1. CASE r = None
      BY <2>5, <2>6, <3>1, Zenon DEF SInv, Types
    <3>2. CASE r # None
      <4>1. PICK v \in {"closed", "answered"} : status' = [status EXCEPT ![r] = v]
        BY <2>5, <3>2, ZenonT(20)
      <4> QED BY <2>6, <3>2, <4>1 DEF SInv, Types, Settled
    <3> QED BY <3>1, <3>2, Zenon
  <2>10. Removes(s, G, "loop")
    BY <2>1, <2>2, <2>7, <2>8, <2>9, Zenon DEF Removes
  <2> QED BY <2>10, <1>RemoveStep

\* The top of the loop, with or without the sweep.
<1>TopStep.
    ASSUME SInv, NEW s \in Sides, Top(s)
    PROVE  SInv' /\ Keeps
  <2> USE <1>TopStep
  <2>1. /\ pc[s] = "loop" /\ pc' = [pc EXCEPT ![s] = "select"]
        /\ UNCHANGED <<job, mailbox, tag, inTag, wire>>
    BY DEF Top, goto, linkVars, taskVars
  <2>2. wire' \in [Sides -> Seq(Msg)]
    BY <2>1 DEF SInv, Types
  <2>3. CASE UNCHANGED <<status, res_tx>>
    <3>1. PICK G \in SUBSET owners(s, Tags) : G = {}
      BY Zenon
    <3>2. /\ res_tx' \in [Sides -> [Tags -> Requests \cup {None}]]
          /\ \A u \in Sides \ {s} : res_tx'[u] = res_tx[u]
          /\ \A t \in Tags : res_tx'[s][t] = IF res_tx[s][t] \in G THEN None ELSE res_tx[s][t]
      BY <2>3, <3>1, Zenon DEF SInv, Types
    <3>3. /\ status' \in [Requests -> Settled \cup {"idle", "queued", "sending"} \cup Waiting]
          /\ \A q \in Requests : IF q \in G THEN status'[q] \in Settled
                                           ELSE status'[q] = status[q]
      BY <2>3, <3>1, Zenon DEF SInv, Types
    <3>4. Removes(s, G, "select")
      BY <2>1, <2>2, <3>2, <3>3 DEF Removes
    <3> QED BY <3>4, <1>RemoveStep
  <2>4. CASE cleanup_message_res_tx_map(s)
    <3>1. PICK G \in SUBSET owners(s, Tags) :
            G = {r \in owners(s, Tags) : tx_is_closed(r) \/ status[r] = "overdue"}
      BY Zenon
    <3>2. /\ status' = [r \in Requests |->
                          IF r \notin G THEN status[r]
                          ELSE IF tx_is_closed(r) THEN "closed" ELSE "expired"]
          /\ res_tx' = [res_tx EXCEPT ![s] =
                          [t \in Tags |-> IF res_tx[s][t] \in G THEN None ELSE res_tx[s][t]]]
      BY <2>4, <3>1, Zenon DEF cleanup_message_res_tx_map
    <3>3. /\ res_tx' \in [Sides -> [Tags -> Requests \cup {None}]]
          /\ \A u \in Sides \ {s} : res_tx'[u] = res_tx[u]
          /\ \A t \in Tags : res_tx'[s][t] = IF res_tx[s][t] \in G THEN None ELSE res_tx[s][t]
      BY <3>2, Zenon DEF SInv, Types
    <3>4. /\ status' \in [Requests -> Settled \cup {"idle", "queued", "sending"} \cup Waiting]
          /\ \A q \in Requests : IF q \in G THEN status'[q] \in Settled
                                           ELSE status'[q] = status[q]
      BY <3>2, Zenon DEF SInv, Types, Settled
    <3>5. Removes(s, G, "select")
      BY <2>1, <2>2, <3>3, <3>4 DEF Removes
    <3> QED BY <3>5, <1>RemoveStep
  <2> QED BY <2>3, <2>4, Zenon DEF Top

<1>CloseStep.
    ASSUME SInv, NEW s \in Sides, Close(s)
    PROVE  SInv' /\ Keeps
  <2> USE <1>CloseStep
  <2>1. /\ pc[s] = "closing" /\ pc' = [pc EXCEPT ![s] = "ended"]
        /\ UNCHANGED <<job, mailbox, tag, inTag, wire>>
        /\ status' = closed(owners(s, Tags))
        /\ res_tx' = [res_tx EXCEPT ![s] = [t \in Tags |-> None]]
    BY Zenon DEF Close, goto, taskVars
  <2>2. wire' \in [Sides -> Seq(Msg)]
    BY <2>1 DEF SInv, Types
  <2>3. PICK G \in SUBSET owners(s, Tags) : G = owners(s, Tags)
    BY Zenon
  <2>4. /\ res_tx' \in [Sides -> [Tags -> Requests \cup {None}]]
        /\ \A u \in Sides \ {s} : res_tx'[u] = res_tx[u]
        /\ \A t \in Tags : res_tx'[s][t] = None
    BY <2>1 DEF SInv, Types
  <2>5. \A t \in Tags : res_tx[s][t] \notin G => res_tx[s][t] = None
    BY <2>3, Zenon DEF owners
  <2>6. /\ status' \in [Requests -> Settled \cup {"idle", "queued", "sending"} \cup Waiting]
        /\ \A q \in Requests : IF q \in G THEN status'[q] \in Settled
                                         ELSE status'[q] = status[q]
    BY <2>1, <2>3, Zenon DEF SInv, Types, Settled, closed
  <2>7. \A t \in Tags : res_tx'[s][t] = IF res_tx[s][t] \in G THEN None ELSE res_tx[s][t]
    BY <2>4, <2>5, Zenon
  <2>8. Removes(s, G, "ended")
    BY <2>1, <2>2, <2>4, <2>6, <2>7, <2>3, Zenon DEF Removes
  <2> QED BY <2>8, <1>RemoveStep, Zenon

<1>LeaveStep.
    ASSUME SInv, NEW s \in Sides, Leave(s)
    PROVE  SInv' /\ Keeps
  <2> USE <1>LeaveStep
  <2>1. /\ pc[s] = "loop" /\ pc' = [pc EXCEPT ![s] = "closing"]
        /\ mailbox' = [mailbox EXCEPT ![s] = <<>>]
        /\ UNCHANGED <<job, tag, res_tx, wire, inTag>>
    BY Zenon DEF Leave, goto, linkVars, taskVars
  <2>2. /\ mailbox[s] \in Seq(Msg) /\ reqs(mailbox[s]) = at(s, {"queued"}) /\ single(s)
        /\ owners(s, Tags) = at(s, Waiting) /\ current(s) = at(s, {"sending"})
    BY DEF SInv, Types, Placed
  <2>3. DOMAIN mailbox[s] = 1 .. Len(mailbox[s])
    BY <2>2, SMTT(20)
  <2>4. status' = closed(at(s, {"queued"}))
    BY <2>2, <2>3, Zenon DEF Leave, reqs
  <2>5. /\ \A q \in Requests : status'[q] = IF Origin[q] = s /\ status[q] = "queued"
                                           THEN "closed" ELSE status[q]
        /\ status' \in [Requests -> Settled \cup {"idle", "queued", "sending"} \cup Waiting]
    BY <2>4, Zenon DEF SInv, Types, closed, at, Settled
  <2>6. /\ mailbox' \in [Sides -> Seq(Msg)] /\ mailbox'[s] = <<>>
        /\ pc' \in [Sides -> PCs] /\ pc'[s] = "closing"
        /\ \A u \in Sides \ {s} : mailbox'[u] = mailbox[u] /\ pc'[u] = pc[u]
    BY <2>1, EmptyQueue, SMTT(20) DEF SInv, Types, PCs
  <2>7. Types'
    BY <2>1, <2>5, <2>6, Zenon DEF SInv, Types
  <2>8. /\ at(s, {"queued"})' = {} /\ at(s, {"sending"})' = at(s, {"sending"})
        /\ at(s, Waiting)' = at(s, Waiting)
    BY <2>5, SMTT(20) DEF at, Waiting
  <2>9. Placed(s)'
    <3>1. owners(s, Tags)' = owners(s, Tags) /\ single(s)'
      BY <2>1, <2>2, Zenon DEF owners, single
    <3>2. current(s)' = {} /\ current(s) = {}
      BY <2>1, <2>6, Zenon DEF current
    <3> QED BY <2>2, <2>6, <2>8, <3>1, <3>2, EmptyQueue, Zenon DEF Placed
  <2>10. SInv'
    BY <2>1, <2>5, <2>6, <2>7, <2>9, <1>OneSide
  <2> QED BY <2>5, <2>10, SMTT(20) DEF Keeps, Settled

<1> SUFFICES ASSUME SInv, Next
             PROVE  SInv' /\ Keeps
  OBVIOUS
<1>1. ASSUME NEW s \in Sides, Inbound(s) PROVE SInv' /\ Keeps
  BY <1>1, <1>ActorMessageStep, <1>NodeMessageStep, <1>ResponseStep, <1>GoesOnStep DEF Inbound
<1>2. ASSUME NEW s \in Sides, Outbound(s) PROVE SInv' /\ Keeps
  BY <1>2, <1>HandleRequestStep, <1>HandleOtherStep DEF Outbound
<1>3. ASSUME NEW s \in Sides, Step(s) PROVE SInv' /\ Keeps
  BY <1>3, <1>TopStep, <1>SendOkStep, <1>SendFailStep, <1>GoesOnStep, <1>LeaveStep,
     <1>CloseStep DEF Step
<1>4. ASSUME NEW r \in Requests, Submit(r) \/ Refuse(r) \/ Age(r) PROVE SInv' /\ Keeps
  BY <1>4, <1>SubmitStep, <1>RefuseAndAgeStep
<1>5. CASE \/ \E s \in Sides : Signal(s) \/ TimerSend(s) \/ ActorRecv(s) \/ ActorReply(s)
                              \/ ActorStop(s)
           \/ \E r \in Requests : Abandon(r) \/ TaskForward(r) \/ TaskCreated(r)
                                  \/ TaskReply(r)
           \/ LinkFail
  BY <1>5, <1>Around
<1> QED BY <1>1, <1>2, <1>3, <1>4, <1>5, Zenon DEF Next

-----------------------------------------------------------------------------
(* The theorems.                                                            *)

\* SInv is an inductive invariant of the two sessions: every step of run_loop, of the
\* handlers, of the tasks, clients and timers and of the connection preserves it.
THEOREM Invariant == Spec => []SInv
<1>1. Init => SInv
  <2> SUFFICES ASSUME Init PROVE SInv
    BY Zenon
  <2>1. Types
    BY Messages, TagsZero, EmptyQueue, SMTT(20) DEF Init, Types, PCs
  <2>2. ASSUME NEW s \in Sides PROVE Placed(s)
    <3>1. /\ pc[s] = "loop" /\ mailbox[s] = <<>> /\ \A t \in Tags : res_tx[s][t] = None
          /\ \A r \in Requests : status[r] = "idle"
      BY DEF Init
    <3>2. at(s, {"queued"}) = {} /\ at(s, {"sending"}) = {} /\ at(s, Waiting) = {}
      BY <3>1, Zenon DEF at, Waiting
    <3>3. owners(s, Tags) = {} /\ single(s) /\ current(s) = {} /\ Open(s)
      BY <3>1 DEF owners, single, current, Open
    <3> QED BY <3>1, <3>2, <3>3, EmptyQueue, Zenon DEF Placed
  <2> QED BY <2>1, <2>2 DEF SInv
<1>2. SInv /\ [Next]_vars => SInv'
  <2> SUFFICES ASSUME SInv, [Next]_vars PROVE SInv'
    OBVIOUS
  <2>1. CASE Next
    BY <2>1, NextStep
  <2>2. CASE UNCHANGED vars
    <3>1. /\ UNCHANGED <<pc, job, mailbox, tag, res_tx, status, wire, inTag>>
      BY <2>2, Zenon DEF vars
    <3>2. wire' \in [Sides -> Seq(Msg)] /\ inTag' \in [Requests -> Tags]
      BY <3>1 DEF SInv, Types
    <3> QED BY <3>1, <3>2, Untouched, Zenon
  <2> QED BY <2>1, <2>2
<1> QED BY <1>1, <1>2, PTL DEF Spec

\* The reply map of a session holds the requests that wait for an answer, each under
\* one tag, and no others (insert after connection.send, sweep, response, close).
THEOREM PendingIsTracked == Spec => []PendingTracked
<1>1. SInv => PendingTracked
  <2> SUFFICES ASSUME SInv, NEW r \in Requests, NEW s \in Sides
               PROVE  IF status[r] \in Waiting /\ Origin[r] = s
                      THEN \E t \in Tags : {u \in Tags : res_tx[s][u] = r} = {t}
                      ELSE {u \in Tags : res_tx[s][u] = r} = {}
    BY Zenon DEF PendingTracked
  <2>1. single(s) /\ owners(s, Tags) = at(s, Waiting) /\ r # None
    BY SessionAssumption, Zenon DEF SInv, Placed
  <2>2. CASE status[r] \in Waiting /\ Origin[r] = s
    <3>1. r \in owners(s, Tags)
      BY <2>1, <2>2 DEF at
    <3>2. PICK t \in Tags : res_tx[s][t] = r
      BY <3>1, Zenon DEF owners
    <3>3. \A u \in Tags : res_tx[s][u] = r <=> u = t
      BY <2>1, <3>2 DEF single
    <3> QED BY <2>2, <3>3
  <2>3. CASE ~(status[r] \in Waiting /\ Origin[r] = s)
    <3>1. r \notin owners(s, Tags)
      BY <2>1, <2>3, Zenon DEF at
    <3>2. \A u \in Tags : res_tx[s][u] # r
      BY <2>1, <3>1 DEF owners
    <3> QED BY <2>3, <3>2
  <2> QED BY <2>2, <2>3, Zenon
<1> QED BY <1>1, Invariant, PTL

\* Once a session has ended none of its requests waits any more: run drops the mailbox
\* with the queued ones, and the session with the reply senders in its map.
THEOREM EndReleasesAll == Spec => []EndReleases
<1>1. SInv => EndReleases
  <2> SUFFICES ASSUME SInv, NEW r \in Requests, pc[Origin[r]] = "ended"
               PROVE  status[r] \notin {"queued", "sending"} \cup Waiting
    BY DEF EndReleases
  <2>1. PICK s \in Sides : s = Origin[r]
    BY SessionAssumption, SMTT(20)
  <2>2. /\ mailbox[s] = <<>> /\ reqs(mailbox[s]) = at(s, {"queued"})
        /\ current(s) = at(s, {"sending"}) /\ at(s, Waiting) = {}
    BY <2>1, ZenonT(20) DEF SInv, Placed, Open
  <2>3. at(s, {"queued"}) = {} /\ at(s, {"sending"}) = {}
    BY <2>1, <2>2, EmptyQueue DEF current
  <2> QED BY <2>1, <2>2, <2>3, Zenon DEF at
<1> QED BY <1>1, Invariant, PTL

\* A request is settled once: a response after the sweep, a sweep after a response and
\* the end of the session change nothing for a request that is settled.
THEOREM SettledForGood == Spec => SettledOnce
<1>1. SInv /\ [Next]_vars =>
        [\A r \in Requests : status[r] \in Settled => status'[r] = status[r]]_vars
  BY NextStep DEF Keeps
<1> QED BY <1>1, Invariant, PTL DEF Spec, SettledOnce

-----------------------------------------------------------------------------
(* The contract of RequestReply.                                            *)

\* What every step is to the makers of requests on each side.
WithinContract == \A s \in Sides : [Contract(s)!Next]_<<phases(s), Open(s)>>

SameOpen == \A u \in Sides : Open(u)' = Open(u)

LEMMA PhaseIs ==
  /\ PhaseOf("idle") = "new" /\ PhaseOf("queued") = "accepted"
  /\ PhaseOf("sending") = "detached" /\ PhaseOf("pending") = "detached"
  /\ PhaseOf("overdue") = "detached"
  /\ PhaseOf("sent") = "answered" /\ PhaseOf("answered") = "answered"
  /\ PhaseOf("failed") = "dropped" /\ PhaseOf("expired") = "dropped"
  /\ PhaseOf("closed") = "dropped" /\ PhaseOf("rejected") = "refused"
BY DEF PhaseOf, Waiting

\* No request moves.
LEMMA SamePhases ==
  ASSUME SameOpen, \A r \in Requests : PhaseOf(status'[r]) = PhaseOf(status[r])
  PROVE  WithinContract
<1>1. \A u \in Sides : phases(u)' = phases(u)
  BY Zenon DEF phases, requestsOf
<1> QED BY <1>1, Zenon DEF WithinContract, SameOpen

\* The session gives up the requests of a set, which may be empty.
LEMMA GivesUp ==
  ASSUME NEW s \in Sides, NEW G, SameOpen,
         \A r \in Requests : r \in G => /\ Origin[r] = s
                                        /\ PhaseOf(status[r]) \in {"accepted", "detached"}
                                        /\ PhaseOf(status'[r]) = "dropped",
         \A r \in Requests : r \notin G => PhaseOf(status'[r]) = PhaseOf(status[r])
  PROVE  WithinContract
<1> SUFFICES ASSUME NEW u \in Sides
             PROVE  Contract(u)!Next \/ UNCHANGED <<phases(u), Open(u)>>
  BY DEF WithinContract
<1>1. Open(u)' = Open(u)
  BY Zenon DEF SameOpen
<1>2. CASE u = s
  <2> DEFINE S == G \cap requestsOf(s)
  <2>1. \A r \in S : phases(s)[r] \in {"accepted", "detached"}
    BY Zenon DEF phases, requestsOf
  <2>2. phases(s)' = [r \in requestsOf(s) |-> IF r \in S THEN "dropped" ELSE phases(s)[r]]
    BY Zenon DEF phases, requestsOf
  <2>3. Contract(s)!Drop(S)
    BY <1>1, <1>2, <2>1, <2>2, Zenon DEF Contract!Drop
  <2>4. S \in SUBSET requestsOf(s)
    OBVIOUS
  <2> QED BY <1>2, <2>3, <2>4, Zenon DEF Contract!Next
<1>3. CASE u # s
  <2>1. phases(u)' = phases(u)
    BY <1>3, Zenon DEF phases, requestsOf
  <2> QED BY <1>1, <2>1
<1> QED BY <1>2, <1>3

\* The session accepts, refuses, takes up or answers one request.
LEMMA MovesOne ==
  ASSUME Types, NEW r \in Requests, NEW v, SameOpen, status' = [status EXCEPT ![r] = v],
         \/ status[r] = "idle" /\ v = "queued" /\ Open(Origin[r])
         \/ status[r] = "idle" /\ v = "rejected"
         \/ status[r] = "queued" /\ v = "sending" /\ Open(Origin[r])
         \/ status[r] \in {"sending"} \cup Waiting /\ v \in {"sent", "answered"}
  PROVE  WithinContract
<1> SUFFICES ASSUME NEW u \in Sides
             PROVE  Contract(u)!Next \/ UNCHANGED <<phases(u), Open(u)>>
  BY DEF WithinContract
<1>1. Open(u)' = Open(u)
  BY Zenon DEF SameOpen
<1>2. \A q \in Requests : status'[q] = IF q = r THEN v ELSE status[q]
  BY DEF Types
<1>3. CASE Origin[r] = u
  <2>1. r \in requestsOf(u) /\ phases(u)[r] = PhaseOf(status[r])
    BY <1>3, Zenon DEF requestsOf, phases
  <2>2. phases(u)' = [phases(u) EXCEPT ![r] = PhaseOf(v)]
    BY <1>2, <2>1 DEF requestsOf, phases
  <2>3. CASE status[r] = "idle" /\ v = "queued" /\ Open(Origin[r])
    <3>1. Contract(u)!Accept(r)
      BY <1>1, <1>3, <2>1, <2>2, <2>3, PhaseIs, Zenon DEF Contract!Accept, Contract!Move
    <3> QED BY <2>1, <3>1, Zenon DEF Contract!Next
  <2>4. CASE status[r] = "idle" /\ v = "rejected"
    <3>1. Contract(u)!Refuse(r)
      BY <1>1, <2>1, <2>2, <2>4, PhaseIs, Zenon DEF Contract!Refuse, Contract!Move
    <3> QED BY <2>1, <3>1, Zenon DEF Contract!Next
  <2>5. CASE status[r] = "queued" /\ v = "sending" /\ Open(Origin[r])
    <3>1. Contract(u)!Detach(r)
      BY <1>1, <1>3, <2>1, <2>2, <2>5, PhaseIs, ZenonT(60) DEF Contract!Detach, Contract!Move
    <3> QED BY <2>1, <3>1, Zenon DEF Contract!Next
  <2>6. CASE status[r] \in {"sending"} \cup Waiting /\ v \in {"sent", "answered"}
    <3>1. PhaseOf(status[r]) = "detached" /\ PhaseOf(v) = "answered"
      BY <2>6, PhaseIs, Zenon DEF Waiting
    <3>2. Contract(u)!Answer(r)
      BY <1>1, <2>1, <2>2, <3>1, Zenon DEF Contract!Answer, Contract!Move
    <3> QED BY <2>1, <3>2, Zenon DEF Contract!Next
  <2> QED BY <2>3, <2>4, <2>5, <2>6
<1>4. CASE Origin[r] # u
  <2>1. \A q \in requestsOf(u) : status'[q] = status[q]
    BY <1>2, <1>4 DEF requestsOf
  <2>2. phases(u)' = phases(u)
    BY <2>1 DEF phases
  <2> QED BY <1>1, <2>2
<1> QED BY <1>3, <1>4

\* The steps of a session's loop but its end neither open nor close a mailbox.
LEMMA LoopGoesOn ==
  ASSUME Types, NEW s \in Sides, NEW where, Open(s) <=> where \notin {"closing", "ended"},
         goto(s, where)
  PROVE  SameOpen
<1>1. \A u \in Sides : pc'[u] = IF u = s THEN where ELSE pc[u]
  BY DEF Types, goto
<1> QED BY <1>1, Zenon DEF SameOpen, Open

\* The mailbox is dropped, and with it what it held.
LEMMA LeaveCloses ==
  ASSUME SInv, NEW s \in Sides, Leave(s)
  PROVE  WithinContract
<1>1. pc' = [pc EXCEPT ![s] = "closing"] /\ pc[s] = "loop" /\ pc \in [Sides -> PCs]
  BY DEF Leave, goto, SInv, Types
<1>2. /\ Open(s) /\ ~Open(s)'
      /\ \A u \in Sides : u # s => Open(u)' = Open(u)
  BY <1>1, Zenon DEF Open
<1>3. \A r \in Requests : status'[r] = IF Origin[r] = s /\ status[r] = "queued"
                                       THEN "closed" ELSE status[r]
  <2>1. mailbox[s] \in Seq(Msg) /\ reqs(mailbox[s]) = at(s, {"queued"})
    BY DEF SInv, Types, Placed
  <2>2. DOMAIN mailbox[s] = 1 .. Len(mailbox[s])
    BY <2>1
  <2>3. status' = closed(at(s, {"queued"}))
    BY <2>1, <2>2, Zenon DEF Leave, reqs
  <2> QED BY <2>3, Zenon DEF closed, at
<1>4. \A r \in Requests : PhaseOf(status[r]) = "accepted" <=> status[r] = "queued"
  <2>1. \A r \in Requests : status[r] \in Settled \cup {"idle", "queued", "sending"} \cup Waiting
    BY DEF SInv, Types
  <2> QED BY <2>1, PhaseIs, Zenon DEF Settled, Waiting
<1> SUFFICES ASSUME NEW u \in Sides
             PROVE  Contract(u)!Next \/ UNCHANGED <<phases(u), Open(u)>>
  BY DEF WithinContract
<1>5. CASE u = s
  <2>1. phases(u)' = [r \in requestsOf(u) |->
                        IF phases(u)[r] = "accepted" THEN "dropped" ELSE phases(u)[r]]
    <3>1. \A r \in requestsOf(u) :
            PhaseOf(status'[r]) = IF PhaseOf(status[r]) = "accepted" THEN "dropped"
                                  ELSE PhaseOf(status[r])
      BY <1>3, <1>4, <1>5, PhaseIs, Zenon DEF requestsOf
    <3> QED BY <3>1, Zenon DEF phases, requestsOf
  <2>2. Open(u)' = FALSE
    BY <1>2, <1>5 DEF Open
  <2> QED BY <1>2, <1>5, <2>1, <2>2, Zenon DEF Contract!Next, Contract!Close
<1>6. CASE u # s
  <2>1. phases(u)' = phases(u)
    BY <1>3, <1>6, Zenon DEF phases, requestsOf
  <2> QED BY <1>2, <1>6, <2>1
<1> QED BY <1>5, <1>6

LEMMA ContractStep ==
  SInv /\ [Next]_vars => WithinContract

<1>Quiet.
    ASSUME UNCHANGED status, SameOpen
    PROVE  WithinContract
  BY <1>Quiet, SamePhases, Zenon

<1>SamePc.
    ASSUME UNCHANGED pc
    PROVE  SameOpen
  BY <1>SamePc DEF SameOpen, Open

<1>Client.
    ASSUME SInv, NEW r \in Requests, Submit(r) \/ Refuse(r) \/ Age(r)
    PROVE  WithinContract
  <2> USE <1>Client
  <2>1. Types /\ SameOpen
    BY <1>SamePc, Zenon DEF SInv, Submit, Refuse, Age, sessionVars
  <2>2. CASE Submit(r)
    BY <2>1, <2>2, MovesOne, Zenon DEF Submit, enqueue
  <2>3. CASE Refuse(r)
    BY <2>1, <2>3, MovesOne, Zenon DEF Refuse
  <2>4. CASE Age(r)
    <3>1. \A q \in Requests : status'[q] = IF q = r THEN "overdue" ELSE status[q]
      BY <2>1, <2>4 DEF Age, Types
    <3>2. \A q \in Requests : PhaseOf(status'[q]) = PhaseOf(status[q])
      BY <2>4, <3>1, PhaseIs, Zenon DEF Age
    <3> QED BY <2>1, <3>2, SamePhases, Zenon
  <2> QED BY <2>2, <2>3, <2>4

\* The session gives up the requests in G, all of which it has taken out of its mailbox.
<1>GiveUp.
    ASSUME NEW s \in Sides, NEW G, SameOpen,
           \A r \in G : r \in Requests => Origin[r] = s /\ status[r] \in {"sending"} \cup Waiting,
           \A r \in Requests : r \in G => status'[r] \in {"failed", "expired", "closed"},
           \A r \in Requests : r \notin G => PhaseOf(status'[r]) = PhaseOf(status[r])
    PROVE  WithinContract
  <2> USE <1>GiveUp
  <2>1. \A v \in {"sending"} \cup Waiting : PhaseOf(v) \in {"accepted", "detached"}
    BY PhaseIs, Zenon DEF Waiting
  <2>2. \A v \in {"failed", "expired", "closed"} : PhaseOf(v) = "dropped"
    BY PhaseIs, Zenon
  <2> QED BY <2>1, <2>2, GivesUp, Zenon

<1>Map.
    ASSUME SInv, NEW s \in Sides, Top(s) \/ Close(s)
    PROVE  WithinContract
  <2> USE <1>Map
  <2>1. SameOpen
    <3>1. PICK where \in {"select", "ended"} : goto(s, where) /\ (where = "ended" <=> ~Open(s))
      BY Zenon DEF Top, Close, Open
    <3> QED BY <3>1, LoopGoesOn, Zenon DEF SInv
  <2>2. CASE UNCHANGED status
    BY <2>1, <2>2, <1>Quiet
  <2>3. CASE cleanup_message_res_tx_map(s) \/ Close(s)
    <3>1. PICK G \in SUBSET owners(s, Tags) :
            \A r \in Requests : /\ r \in G => status'[r] \in {"expired", "closed"}
                                /\ r \notin G => status'[r] = status[r]
      <4>1. CASE cleanup_message_res_tx_map(s)
        BY <4>1, Zenon DEF cleanup_message_res_tx_map
      <4>2. CASE Close(s)
        BY <4>2, Zenon DEF Close, closed
      <4> QED BY <2>3, <4>1, <4>2
    <3>2. \A r \in G : Origin[r] = s /\ status[r] \in Waiting
      BY Zenon DEF SInv, Placed, at
    <3> QED BY <2>1, <3>1, <3>2, <1>GiveUp, Zenon
  <2> QED BY <2>2, <2>3, Zenon DEF Top

<1>Response.
    ASSUME SInv, NEW s \in Sides, HandleMessageResponse(s)
    PROVE  WithinContract
  <2> USE <1>Response
  <2>1. SameOpen
    <3>1. Open(s) /\ goto(s, "loop")
      BY Zenon DEF HandleMessageResponse, received, Open
    <3> QED BY <3>1, LoopGoesOn, Zenon DEF SInv
  <2>2. wire[s] # <<>> /\ wire' = [wire EXCEPT ![s] = Tail(@)]
    BY DEF HandleMessageResponse, received
  <2>3. PICK t \in Tags : t = Head(wire[s]).tag
    BY <2>2, FromWire, Zenon
  <2>4. PICK r : r = res_tx[s][t]
    BY Zenon
  <2>5. status' = IF r = None THEN status
                  ELSE [status EXCEPT ![r] = IF tx_is_closed(r) THEN "closed" ELSE "answered"]
    BY <2>3, <2>4, Zenon DEF HandleMessageResponse
  <2>6. CASE r = None
    BY <2>1, <2>5, <2>6, <1>Quiet
  <2>7. CASE r # None
    <3>1. r \in owners(s, Tags)
      BY <2>4, <2>7, Zenon DEF owners
    <3>2. r \in Requests /\ status[r] \in Waiting /\ Origin[r] = s
      BY <3>1, Zenon DEF SInv, Placed, at
    <3>3. CASE status' = [status EXCEPT ![r] = "closed"]
      <4>1. \A q \in Requests : /\ q \in {r} => status'[q] = "closed"
                                /\ q \notin {r} => status'[q] = status[q]
        BY <3>2, <3>3, Zenon DEF SInv, Types
      <4> QED BY <2>1, <3>2, <4>1, <1>GiveUp, Zenon
    <3>4. CASE status' = [status EXCEPT ![r] = "answered"]
      BY <2>1, <3>2, <3>4, MovesOne, Zenon DEF SInv
    <3> QED BY <2>5, <2>7, <3>3, <3>4, Zenon
  <2> QED BY <2>6, <2>7

<1>Send.
    ASSUME SInv, NEW s \in Sides, SendOk(s) \/ SendFail(s)
    PROVE  WithinContract
  <2> USE <1>Send
  <2>1. /\ pc[s] = "sending" /\ job[s] \in Msg /\ job[s].type \in {"request", "response"}
        /\ job[s].tag \in Tags
    BY DEF SendOk, SendFail, SInv, Types, Placed, Msg, Message
  <2>2. SameOpen
    <3>1. Open(s) /\ goto(s, "loop")
      BY <2>1, Zenon DEF SendOk, SendFail, Open
    <3> QED BY <3>1, LoopGoesOn, Zenon DEF SInv
  <2>3. CASE job[s].type = "request"
    <3>1. PICK r \in Requests : r = job[s].req /\ status[r] = "sending" /\ Origin[r] = s
      <4>1. job[s].req \in at(s, {"sending"})
        BY <2>1, <2>3, Zenon DEF SInv, Placed, current
      <4> QED BY <4>1, Zenon DEF at
    <3>2. CASE status' = [status EXCEPT ![r] = "sent"]
      BY <2>2, <3>1, <3>2, MovesOne, Zenon DEF SInv
    <3>3. CASE status' = [status EXCEPT ![r] = "failed"]
      <4>1. \A q \in Requests : /\ q \in {r} => status'[q] = "failed"
                                /\ q \notin {r} => status'[q] = status[q]
        BY <3>1, <3>3, Zenon DEF SInv, Types
      <4> QED BY <2>2, <3>1, <4>1, <1>GiveUp, Zenon
    <3>4. CASE status' = [closed(owners(s, {job[s].tag})) EXCEPT ![r] = "pending"]
      <4> DEFINE G == owners(s, {job[s].tag}) \ {r}
      <4>1. \A q \in G : Origin[q] = s /\ status[q] \in Waiting
        <5>1. owners(s, {job[s].tag}) \subseteq owners(s, Tags)
          BY <2>1, Zenon DEF owners
        <5> QED BY <5>1, Zenon DEF SInv, Placed, at
      <4>2. \A q \in Requests : status'[q] = IF q = r THEN "pending"
               ELSE IF q \in owners(s, {job[s].tag}) THEN "closed" ELSE status[q]
        BY <3>4 DEF closed
      <4>3. \A q \in Requests : q \in G => status'[q] = "closed"
        BY <4>2, Zenon
      <4>4. \A q \in Requests : q \notin G => PhaseOf(status'[q]) = PhaseOf(status[q])
        BY <3>1, <4>2, PhaseIs, Zenon
      <4> HIDE DEF G
      <4> QED BY <2>2, <4>1, <4>3, <4>4, <1>GiveUp, Zenon
    <3> QED BY <2>3, <3>1, <3>2, <3>3, <3>4, Zenon DEF SendOk, SendFail
  <2>4. CASE job[s].type = "response"
    <3>1. UNCHANGED status
      BY <2>4 DEF SendOk, SendFail
    <3> QED BY <3>1, <2>2, <1>Quiet
  <2> QED BY <2>1, <2>3, <2>4, Zenon

<1>Take.
    ASSUME SInv, NEW s \in Sides, HandleRequest(s)
    PROVE  WithinContract
  <2> USE <1>Take
  <2>1. Types /\ Open(s) /\ mailbox[s] # <<>> /\ Head(mailbox[s]).type = "request"
    BY Zenon DEF SInv, HandleRequest, Open
  <2>2. SameOpen
    <3>1. PICK where \in {"loop", "sending"} : goto(s, where)
      BY Zenon DEF HandleRequest, startSend
    <3> QED BY <2>1, <3>1, LoopGoesOn, Zenon
  <2>3. PICK r : r = Head(mailbox[s]).req
    BY Zenon
  <2>4. r \in Requests /\ Origin[r] = s /\ status[r] = "queued"
    <3>1. mailbox[s] \in Seq(Msg) /\ once(mailbox[s]) /\ reqs(mailbox[s]) = at(s, {"queued"})
      BY Zenon DEF SInv, Types, Placed
    <3>2. r \in reqs(mailbox[s])
      BY <2>1, <2>3, <3>1, Taken, Zenon
    <3> QED BY <3>1, <3>2, Zenon DEF at
  <2>5. CASE status' = [status EXCEPT ![r] = "sending"]
    BY <2>1, <2>2, <2>4, <2>5, MovesOne, Zenon
  <2>6. CASE status' = [status EXCEPT ![r] = "closed"]
    <3>1. \A q \in Requests : /\ q \in {r} => status'[q] = "closed"
                              /\ q \notin {r} => status'[q] = status[q]
      BY <2>1, <2>4, <2>6, Zenon DEF Types
    <3>2. PhaseOf(status[r]) = "accepted" /\ PhaseOf(status'[r]) = "dropped"
      BY <2>4, <3>1, PhaseIs, Zenon
    <3> QED BY <2>2, <2>4, <3>1, <3>2, GivesUp, Zenon
  <2> QED BY <2>3, <2>5, <2>6, Zenon DEF HandleRequest

<1>Other.
    ASSUME SInv, NEW s \in Sides,
           \/ HandleActorMessage(s) \/ HandleNodeMessage(s) \/ RecvFail(s) \/ HandleOther(s)
           \/ ActorMgrReply(s) \/ Forward(s)
    PROVE  WithinContract
  <2> USE <1>Other
  <2>1. UNCHANGED status
    BY Zenon DEF HandleActorMessage, HandleNodeMessage, RecvFail, HandleOther, ActorMgrReply,
                 Forward, clientVars
  <2>2. pc[s] \in {"select", "asking", "forward"}
    BY Zenon DEF HandleActorMessage, HandleNodeMessage, RecvFail, HandleOther, ActorMgrReply,
                 Forward, received
  <2>3. PICK where \in {"loop", "forward", "asking", "sending"} : goto(s, where)
    BY Zenon DEF HandleActorMessage, HandleNodeMessage, RecvFail, HandleOther, ActorMgrReply,
                 Forward, spawn, startSend
  <2>4. Types /\ Open(s)
    BY <2>2, Zenon DEF SInv, Open
  <2>5. SameOpen
    BY <2>3, <2>4, LoopGoesOn, Zenon
  <2> QED BY <2>1, <2>5, <1>Quiet

<1> SUFFICES ASSUME SInv, [Next]_vars
             PROVE  WithinContract
  OBVIOUS
<1>1. ASSUME NEW s \in Sides, Inbound(s) \/ Outbound(s) \/ Step(s)
      PROVE  WithinContract
  BY <1>1, <1>Map, <1>Response, <1>Send, <1>Take, <1>Other, LeaveCloses, Zenon
     DEF Inbound, Outbound, Step
<1>2. CASE \/ \E s \in Sides : Signal(s) \/ TimerSend(s) \/ ActorRecv(s) \/ ActorReply(s)
                              \/ ActorStop(s)
           \/ \E r \in Requests : Abandon(r) \/ TaskForward(r) \/ TaskCreated(r)
                                  \/ TaskReply(r)
           \/ LinkFail \/ UNCHANGED vars
  <2>1. UNCHANGED status /\ UNCHANGED pc
    BY <1>2, ZenonT(30) DEF Signal, TimerSend, ActorRecv, ActorReply, ActorStop, Abandon,
                    TaskForward, TaskCreated, TaskReply, LinkFail, clientVars, sessionVars, vars
  <2> QED BY <2>1, <1>SamePc, <1>Quiet
<1>3. ASSUME NEW r \in Requests, Submit(r) \/ Refuse(r) \/ Age(r)
      PROVE  WithinContract
  BY <1>3, <1>Client, Zenon
<1> QED BY <1>1, <1>2, <1>3 DEF Next

\* Each session implements RequestReply for the makers of requests on its side: it
\* settles every request at most once, accepts none after its mailbox is gone, and drops
\* all the mailbox held in that step, whatever happens to tags, peer and connection.
THEOREM ImplementsContract == Spec => KeepsContract
<1>1. Init => \A s \in Sides : Contract(s)!Init
  <2> SUFFICES ASSUME Init, NEW s \in Sides
               PROVE  Contract(s)!Init
    OBVIOUS
  <2>1. \A r \in requestsOf(s) : PhaseOf(status[r]) = "new"
    BY PhaseIs, Zenon DEF Init, requestsOf
  <2>2. Open(s) = TRUE
    BY DEF Init, Open
  <2> QED BY <2>1, <2>2, Zenon DEF Contract!Init, phases
<1>2. SInv /\ [Next]_vars => [WithinContract]_vars
  BY ContractStep
<1> QED BY <1>1, <1>2, Invariant, PTL DEF Spec, KeepsContract, WithinContract

-----------------------------------------------------------------------------
(* The way of a request: from the mailbox of the session that sends it,     *)
(* over the connection, to the actor that serves it.                        *)

\* The messages that side u sends over the connection, and those in its mailbox.
Sent(u) ==
  {m \in Message : /\ m.type \in {"request", "response"} /\ m.req \in Requests
                   /\ m.type = "request" => Origin[m.req] = u
                   /\ m.type = "response" => Origin[m.req] = Peer(u) /\ Kind[m.req] # "do_send"}
Boxed(u) == {m \in Msg : m.type = "response" => m \in Sent(u)}

\* The maker's session still has to send the request.
Early == {"idle", "queued", "sending"}

\* The request that the session has received and not yet passed on.
taken(s) == IF pc[s] \in {"forward", "asking"} THEN {job[s].req} ELSE {}

\* The requests in the hands of the local actor.
elems(q) == {q[i] : i \in 1 .. Len(q)}
distinct(q) == \A i, j \in 1 .. Len(q) : q[i] = q[j] => i = j
served(s) == elems(inbox[s]) \cup ({handling[s]} \ {None})

\* What travels, and who made it.
Travels(s) ==
  /\ wire[s] \in Seq(Sent(Peer(s)))
  /\ mailbox[s] \in Seq(Boxed(s))
  /\ pc[s] = "sending" => job[s] \in Sent(s)
  /\ pc[s] \in {"forward", "asking"} => /\ job[s] \in Sent(Peer(s)) /\ job[s].type = "request"
                                        /\ (pc[s] = "forward") <=> (Kind[job[s].req] = "do_send")

\* A request is received once, and only then served.
Fresh(s) ==
  /\ once(wire[s])
  /\ taken(s) \cap reqs(wire[s]) = {}
  /\ \A r \in reqs(wire[s]) \cup taken(s) : task[r] = "none" /\ status[r] \notin Early

Tasks ==
  /\ task \in [Requests -> TaskPCs]
  /\ \A r \in Requests :
       /\ task[r] # "none" => status[r] \notin Early
       /\ Kind[r] = "do_send" => task[r] \in {"none", "waiting", "done"}

\* The local actor has each request once, and its task waits for the answer.
Serves(s) ==
  /\ inbox[s] \in Seq(Requests) /\ distinct(inbox[s])
  /\ handling[s] \in Requests \cup {None} /\ handling[s] \notin elems(inbox[s])
  /\ \A r \in served(s) : task[r] = "waiting" /\ Origin[r] = Peer(s)

Actors ==
  /\ inbox \in [Sides -> Seq(Requests)]
  /\ handling \in [Sides -> Requests \cup {None}]

PathInv == Tasks /\ Actors /\ \A s \in Sides : Travels(s) /\ Fresh(s) /\ Serves(s)

-----------------------------------------------------------------------------
(* Queues and sides.                                                        *)

about(m, r) == m.type = "request" /\ m.req = r

\* In a queue, x comes before y.
inOrder(q, x, y) ==
  \A i, j \in 1 .. Len(q) :
    about(q[i], x) /\ about(q[j], y) => i < j

LEMMA NoElems == <<>> \in Seq(Requests) /\ elems(<<>>) = {} /\ distinct(<<>>)
<1>1. Len(<<>>) = 0
  OBVIOUS
<1> QED BY <1>1 DEF elems, distinct

LEMMA Peers ==
  ASSUME NEW s \in Sides
  PROVE  Peer(s) \in Sides /\ Peer(Peer(s)) = s /\ Peer(s) # s
         /\ \A u \in Sides : u = s \/ u = Peer(s)
BY Zenon DEF Peer

LEMMA Pushed ==
  ASSUME NEW q \in Seq(Msg), NEW m \in Msg
  PROVE  /\ reqs(Append(q, m)) = reqs(q) \cup (IF m.type = "request" THEN {m.req} ELSE {})
         /\ \A x, y : inOrder(q, x, y) /\ (about(m, x) => x # y /\ y \notin reqs(q))
                        => inOrder(Append(q, m), x, y)
<1> DEFINE p == Append(q, m)
<1>1. /\ p \in Seq(Msg) /\ Len(q) \in Nat /\ Len(p) = Len(q) + 1
      /\ \A i \in 1 .. Len(q) : p[i] = q[i]
      /\ p[Len(q) + 1] = m
  OBVIOUS
<1> HIDE DEF p
<1>2. /\ \A i \in 1 .. Len(p) : i \in 1 .. Len(q) \/ i = Len(q) + 1
      /\ \A i \in 1 .. Len(q) : i \in 1 .. Len(p) /\ i < Len(q) + 1
      /\ Len(q) + 1 \in 1 .. Len(p)
  BY <1>1
<1>3. reqs(p) \subseteq reqs(q) \cup (IF m.type = "request" THEN {m.req} ELSE {})
  BY <1>1, <1>2, Zenon DEF reqs
<1>4. reqs(q) \cup (IF m.type = "request" THEN {m.req} ELSE {}) \subseteq reqs(p)
  BY <1>1, <1>2 DEF reqs
<1>5. ASSUME NEW x, NEW y, inOrder(q, x, y), about(m, x) => x # y /\ y \notin reqs(q)
      PROVE  inOrder(p, x, y)
  <2> SUFFICES ASSUME NEW i \in 1 .. Len(p), NEW j \in 1 .. Len(p), about(p[i], x), about(p[j], y)
               PROVE  i < j
    BY Zenon DEF inOrder
  <2>1. CASE i \in 1 .. Len(q) /\ j \in 1 .. Len(q)
    BY <1>1, <1>5, <2>1 DEF inOrder
  <2>2. CASE i \in 1 .. Len(q) /\ j = Len(q) + 1
    BY <1>2, <2>2, Zenon
  <2>3. CASE i = Len(q) + 1
    <3>1. about(m, x) /\ x # y /\ y \notin reqs(q)
      BY <1>1, <1>5, <2>3, Zenon
    <3>2. j \in 1 .. Len(q)
      BY <1>1, <1>2, <3>1, Zenon DEF about
    <3> QED BY <1>1, <3>1, <3>2, Zenon DEF about, reqs
  <2> QED BY <1>2, <2>1, <2>2, <2>3
<1> QED BY <1>3, <1>4, <1>5, Zenon DEF p

LEMMA Popped ==
  ASSUME NEW q \in Seq(Msg), q # <<>>
  PROVE  /\ reqs(Tail(q)) \subseteq reqs(q)
         /\ Head(q).type = "request" => Head(q).req \in reqs(q)
         /\ \A x, y : inOrder(q, x, y) => inOrder(Tail(q), x, y)
         /\ \A x, y : inOrder(q, x, y) /\ about(Head(q), y) => x \notin reqs(q)
<1> DEFINE p == Tail(q)
           h == Head(q)
<1>1. /\ p \in Seq(Msg) /\ h \in Msg /\ h = q[1]
      /\ Len(q) \in Nat \ {0} /\ Len(p) = Len(q) - 1
      /\ \A i \in 1 .. Len(p) : p[i] = q[i + 1]
  OBVIOUS
<1> HIDE DEF p, h
<1>2. 1 \in 1 .. Len(q) /\ \A i \in 1 .. Len(p) : i + 1 \in 1 .. Len(q)
  BY <1>1
<1>3. reqs(p) \subseteq reqs(q)
  BY <1>1, <1>2, Zenon DEF reqs
<1>4. h.type = "request" => h.req \in reqs(q)
  BY <1>1, <1>2 DEF reqs
<1>5. ASSUME NEW x, NEW y, inOrder(q, x, y)
      PROVE  inOrder(p, x, y)
  <2> SUFFICES ASSUME NEW i \in 1 .. Len(p), NEW j \in 1 .. Len(p), about(p[i], x), about(p[j], y)
               PROVE  i < j
    BY DEF inOrder
  <2>1. i + 1 < j + 1
    <3>1. about(q[i + 1], x) /\ about(q[j + 1], y)
      BY <1>1
    <3> QED BY <1>2, <1>5, <3>1 DEF inOrder
  <2> QED BY <2>1
<1>6. ASSUME NEW x, NEW y, inOrder(q, x, y), about(h, y)
      PROVE  x \notin reqs(q)
  <2> SUFFICES ASSUME NEW i \in 1 .. Len(q), about(q[i], x)
               PROVE  FALSE
    BY DEF reqs, about
  <2>1. i < 1
    BY <1>1, <1>2, <1>6, Zenon DEF inOrder
  <2> QED BY <2>1
<1> QED BY <1>3, <1>4, <1>5, <1>6 DEF p, h

-----------------------------------------------------------------------------
(* What a step does to the requests of the clients.                         *)

\* No request goes back to an early state, and none leaves the mailbox.
Onward == \A r \in Requests : status'[r] \in Early => status'[r] = status[r]
Stays == \A r \in Requests : status[r] = "queued" => status'[r] = "queued"

LEMMA MapOwners ==
  ASSUME SInv, NEW s \in Sides
  PROVE  \A r \in owners(s, Tags) : r \in Requests /\ status[r] \in Waiting /\ Origin[r] = s
BY DEF SInv, Placed, at

\* No step but a client's submission, and the session taking or dropping a request,
\* puts a request into an early status or takes it out of the queue.
LEMMA StatusMoves ==
  SInv /\ Next =>
    \/ Onward /\ Stays
    \/ \E r \in Requests : Submit(r)
    \/ \E s \in Sides : HandleRequest(s) \/ Leave(s)

<1>Assigned.
    ASSUME Types, NEW G, NEW v, v \notin Early,
           status' = [r \in Requests |-> IF r \in G THEN v ELSE status[r]],
           \A r \in G : r \in Requests => status[r] # "queued"
    PROVE  Onward /\ Stays
  BY <1>Assigned, Zenon DEF Types, Onward, Stays, Early

<1>OneStatus.
    ASSUME Types, NEW r \in Requests, NEW v, v \notin Early, status[r] # "queued",
           status' = [status EXCEPT ![r] = v]
    PROVE  Onward /\ Stays
  BY <1>OneStatus, Zenon DEF Types, Onward, Stays, Early

<1>TopStatus.
    ASSUME SInv, NEW s \in Sides, Top(s) \/ Close(s) \/ HandleMessageResponse(s)
    PROVE  Onward /\ Stays
  <2> USE <1>TopStatus
  <2>1. CASE UNCHANGED status
    BY <2>1 DEF Onward, Stays
  <2>2. CASE cleanup_message_res_tx_map(s)
    <3>1. PICK G \in SUBSET owners(s, Tags) :
            status' = [r \in Requests |-> IF r \notin G THEN status[r]
                                          ELSE IF tx_is_closed(r) THEN "closed" ELSE "expired"]
      BY <2>2, Zenon DEF cleanup_message_res_tx_map
    <3>2. \A r \in G : status[r] # "queued"
      BY MapOwners, Zenon DEF Waiting
    <3> QED BY <3>1, <3>2 DEF Onward, Stays, Early
  <2>3. CASE Close(s)
    <3>1. status' = [r \in Requests |-> IF r \in owners(s, Tags) THEN "closed" ELSE status[r]]
      BY <2>3, Zenon DEF Close, closed
    <3>2. \A r \in owners(s, Tags) : r \in Requests => status[r] # "queued"
      BY MapOwners DEF Waiting
    <3>3. Types /\ "closed" \notin Early
      BY DEF SInv, Early
    <3> QED BY <3>1, <3>2, <3>3, <1>Assigned, Zenon
  <2>4. CASE HandleMessageResponse(s) /\ status' # status
    <3>1. wire[s] # <<>> /\ wire' = [wire EXCEPT ![s] = Tail(@)]
      BY <2>4 DEF HandleMessageResponse, received
    <3>2. PICK t \in Tags : t = Head(wire[s]).tag
      BY <3>1, FromWire, Zenon
    <3>3. PICK r : r = res_tx[s][t]
      BY Zenon
    <3>4. status' = IF r = None THEN status
                    ELSE [status EXCEPT ![r] = IF tx_is_closed(r) THEN "closed" ELSE "answered"]
      BY <2>4, <3>2, <3>3, Zenon DEF HandleMessageResponse
    <3>5. r \in owners(s, Tags)
      BY <2>4, <3>3, <3>4, Zenon DEF owners
    <3>6. r \in Requests /\ status[r] # "queued"
      BY <3>5, MapOwners DEF Waiting
    <3>7. PICK v \in {"closed", "answered"} : status' = [status EXCEPT ![r] = v]
      BY <2>4, <3>4, Zenon
    <3>8. Types /\ v \notin Early
      BY Zenon DEF SInv, Early
    <3> QED BY <3>6, <3>7, <3>8, <1>OneStatus, ZenonT(60)
  <2> QED BY <2>1, <2>2, <2>3, <2>4 DEF Top

<1>SendStatus.
    ASSUME SInv, NEW s \in Sides, SendOk(s) \/ SendFail(s)
    PROVE  Onward /\ Stays
  <2> USE <1>SendStatus
  <2>1. /\ pc[s] = "sending" /\ job[s] \in Msg /\ job[s].type \in {"request", "response"}
        /\ job[s].tag \in Tags
    BY DEF SendOk, SendFail, SInv, Types, Placed, Msg, Message
  <2>2. CASE UNCHANGED status
    BY <2>2 DEF Onward, Stays
  <2>3. CASE job[s].type = "request"
    <3>1. PICK r \in Requests : r = job[s].req /\ status[r] = "sending"
      <4>1. job[s].req \in at(s, {"sending"})
        BY <2>1, <2>3 DEF SInv, Placed, current
      <4> QED BY <4>1, Zenon DEF at
    <3>2. CASE \E v \in {"sent", "failed"} : status' = [status EXCEPT ![r] = v]
      BY <3>1, <3>2, <1>OneStatus, Zenon DEF SInv, Early
    <3>3. CASE status' = [closed(owners(s, {job[s].tag})) EXCEPT ![r] = "pending"]
      <4>1. \A q \in owners(s, {job[s].tag}) : status[q] # "queued"
        <5>1. owners(s, {job[s].tag}) \subseteq owners(s, Tags)
          BY <2>1 DEF owners
        <5> QED BY <5>1, MapOwners, Zenon DEF Waiting
      <4>2. \A q \in Requests : status'[q] = IF q = r THEN "pending"
               ELSE IF q \in owners(s, {job[s].tag}) THEN "closed" ELSE status[q]
        BY <3>3 DEF closed
      <4> QED BY <3>1, <4>1, <4>2, Zenon DEF Onward, Stays, Early
    <3> QED BY <2>3, <3>1, <3>2, <3>3, Zenon DEF SendOk, SendFail
  <2>4. CASE job[s].type = "response"
    <3>1. UNCHANGED status
      BY <2>4 DEF SendOk, SendFail
    <3> QED BY <3>1, <2>2
  <2> QED BY <2>1, <2>3, <2>4, Zenon

<1> SUFFICES ASSUME SInv, Next
             PROVE  \/ Onward /\ Stays
                    \/ \E r \in Requests : Submit(r)
                    \/ \E s \in Sides : HandleRequest(s) \/ Leave(s)
  OBVIOUS
<1>1. CASE UNCHANGED status
  BY <1>1 DEF Onward, Stays
<1>2. ASSUME NEW r \in Requests, Refuse(r) \/ Age(r)
      PROVE  Onward /\ Stays
  <2>1. PICK v \in {"rejected", "overdue"} : status' = [status EXCEPT ![r] = v]
    BY <1>2, Zenon DEF Refuse, Age
  <2>2. Types /\ v \notin Early /\ status[r] # "queued"
    BY <1>2, Zenon DEF SInv, Early, Refuse, Age
  <2> QED BY <2>1, <2>2, <1>OneStatus, Zenon
<1>3. ASSUME NEW s \in Sides, Inbound(s) \/ Outbound(s) \/ Step(s)
      PROVE  (Onward /\ Stays) \/ HandleRequest(s) \/ Leave(s)
  <2>1. CASE \/ HandleActorMessage(s) \/ HandleNodeMessage(s) \/ RecvFail(s) \/ HandleOther(s)
             \/ ActorMgrReply(s) \/ Forward(s)
    <3>1. UNCHANGED status
      BY <2>1, Zenon DEF HandleActorMessage, HandleNodeMessage, RecvFail, HandleOther,
                  ActorMgrReply, Forward, clientVars
    <3> QED BY <3>1 DEF Onward, Stays
  <2> QED BY <1>3, <2>1, <1>TopStatus, <1>SendStatus DEF Inbound, Outbound, Step
<1>4. CASE \/ \E s \in Sides : Signal(s) \/ TimerSend(s) \/ ActorRecv(s) \/ ActorReply(s)
                              \/ ActorStop(s)
           \/ \E r \in Requests : Abandon(r) \/ TaskForward(r) \/ TaskCreated(r)
                                  \/ TaskReply(r)
           \/ LinkFail
  <2>1. UNCHANGED status
    BY <1>4, ZenonT(20) DEF Signal, TimerSend, ActorRecv, ActorReply, ActorStop, Abandon,
                    TaskForward,
                TaskCreated, TaskReply, LinkFail, clientVars
  <2> QED BY <1>1, <2>1
<1> QED BY <1>2, <1>3, <1>4, Zenon DEF Next

-----------------------------------------------------------------------------
(* What travels.                                                            *)

LEMMA SentIs ==
  ASSUME NEW u \in Sides, NEW m \in Sent(u)
  PROVE  /\ m \in Msg /\ m.req \in Requests /\ m.tag \in Tags
         /\ m.type \in {"request", "response"}
         /\ m.type = "request" => Origin[m.req] = u
         /\ m.type = "response" => Origin[m.req] = Peer(u) /\ Kind[m.req] # "do_send"
BY DEF Sent, Msg, Message

LEMMA SeqSteps ==
  ASSUME NEW S, NEW q \in Seq(S)
  PROVE  /\ q # <<>> => Head(q) \in S /\ Tail(q) \in Seq(S)
         /\ \A m \in S : Append(q, m) \in Seq(S)
BY SMTT(20)

\* A session is at w with the message m in its hands.
Doing(s, w, m) ==
  /\ w = "sending" => m \in Sent(s)
  /\ w \in {"forward", "asking"} => /\ m \in Sent(Peer(s)) /\ m.type = "request"
                                    /\ (w = "forward") <=> (Kind[m.req] = "do_send")

LEMMA Receives ==
  ASSUME SInv, \A u \in Sides : Travels(u), NEW s \in Sides, NEW type, received(s, type)
  PROVE  /\ pc[s] = "select" /\ wire[s] # <<>> /\ wire' = [wire EXCEPT ![s] = Tail(wire[s])]
         /\ Head(wire[s]) \in Sent(Peer(s)) /\ Head(wire[s]).type = type
         /\ wire'[s] = Tail(wire[s]) /\ \A u \in Sides \ {s} : wire'[u] = wire[u]
         /\ \A u \in Sides : wire'[u] \in Seq(Sent(Peer(u)))
<1>1. /\ pc[s] = "select" /\ wire[s] # <<>> /\ wire' = [wire EXCEPT ![s] = Tail(wire[s])]
      /\ Head(wire[s]).type = type
  BY Zenon DEF received
<1>2. wire'[s] = Tail(wire[s]) /\ \A u \in Sides \ {s} : wire'[u] = wire[u]
  BY <1>1, Zenon DEF SInv, Types
<1>3. Head(wire[s]) \in Sent(Peer(s)) /\ Tail(wire[s]) \in Seq(Sent(Peer(s)))
  BY <1>1, SeqSteps DEF Travels
<1>4. \A u \in Sides : wire'[u] \in Seq(Sent(Peer(u)))
  BY <1>2, <1>3, Zenon DEF Travels
<1> QED BY <1>1, <1>2, <1>3, <1>4, Zenon

\* Every step keeps what is on the way as it was made.
LEMMA TravelsStep ==
  SInv /\ Tasks /\ (\A u \in Sides : Travels(u)) /\ Next => \A u \in Sides : Travels(u)'

<1>Made.
    ASSUME NEW r \in Requests, NEW t \in Tags, NEW s \in Sides
    PROVE  /\ Origin[r] = s => msg("request", r, t) \in Sent(s)
           /\ msg("request", r, t) \in Boxed(s)
           /\ Origin[r] = Peer(s) /\ Kind[r] # "do_send" =>
                msg("response", r, t) \in Sent(s) /\ msg("response", r, t) \in Boxed(s)
           /\ msg("signal", None, 0) \in Boxed(s) /\ msg("cleanup", None, 0) \in Boxed(s)
  BY <1>Made, Messages, Zenon DEF msg, Sent, Boxed, Message, Msg

<1>Goes.
    ASSUME Types, \A u \in Sides : Travels(u),
           NEW s \in Sides, NEW w, pc' = [pc EXCEPT ![s] = w],
           \A u \in Sides \ {s} : job'[u] = job[u] /\ mailbox'[u] = mailbox[u],
           Doing(s, w, job'[s]), mailbox'[s] \in Seq(Boxed(s)),
           \A u \in Sides : wire'[u] \in Seq(Sent(Peer(u)))
    PROVE  \A u \in Sides : Travels(u)'
  <2> USE <1>Goes
  <2>1. pc'[s] = w /\ \A u \in Sides \ {s} : pc'[u] = pc[u]
    BY SMTT(20) DEF Types
  <2>2. Travels(s)'
    BY <2>1, Zenon DEF Travels, Doing
  <2>3. ASSUME NEW u \in Sides \ {s} PROVE Travels(u)'
    <3>1. pc'[u] = pc[u] /\ job'[u] = job[u] /\ mailbox'[u] = mailbox[u]
          /\ wire'[u] \in Seq(Sent(Peer(u))) /\ Travels(u)
      BY <2>1, Zenon
    <3> QED BY <3>1, Zenon DEF Travels
  <2> QED BY <2>2, <2>3, Zenon

<1>Arrives.
    ASSUME Types, \A u \in Sides : Travels(u),
           UNCHANGED <<pc, job, wire>>, NEW s \in Sides, NEW m \in Boxed(s),
           mailbox' = [mailbox EXCEPT ![s] = Append(mailbox[s], m)]
    PROVE  \A u \in Sides : Travels(u)'
  <2> USE <1>Arrives
  <2>1. mailbox'[s] = Append(mailbox[s], m) /\ \A u \in Sides \ {s} : mailbox'[u] = mailbox[u]
    BY Zenon DEF Types
  <2>2. mailbox'[s] \in Seq(Boxed(s))
    BY <2>1, SeqSteps DEF Travels
  <2> QED BY <2>1, <2>2, ZenonT(30) DEF Travels

<1>TravelsAround.
    ASSUME SInv, \A u \in Sides : Travels(u), Tasks,
           \/ \E s \in Sides : Signal(s) \/ TimerSend(s) \/ ActorRecv(s) \/ ActorReply(s)
                              \/ ActorStop(s)
           \/ \E r \in Requests : Submit(r) \/ Refuse(r) \/ Age(r) \/ Abandon(r)
                                  \/ TaskForward(r) \/ TaskCreated(r) \/ TaskReply(r)
           \/ LinkFail
    PROVE  \A u \in Sides : Travels(u)'
  <2> USE <1>TravelsAround
  <2>1. CASE UNCHANGED <<pc, job, wire, mailbox>>
    BY <2>1, Zenon DEF Travels
  <2>2. CASE LinkFail
    <3>1. UNCHANGED <<pc, job, mailbox>> /\ \A u \in Sides : wire'[u] = <<>>
      BY <2>2 DEF LinkFail, sessionVars
    <3>2. \A S : <<>> \in Seq(S)
      OBVIOUS
    <3> QED BY <3>1, <3>2, Zenon DEF Travels
  <2>3. CASE \/ \E s \in Sides : ActorRecv(s) \/ ActorReply(s) \/ ActorStop(s)
             \/ \E r \in Requests : Refuse(r) \/ Age(r) \/ Abandon(r) \/ TaskForward(r)
                                    \/ TaskCreated(r)
    <3>1. UNCHANGED <<pc, job, wire, mailbox>>
      BY <2>3, ZenonT(20) DEF ActorRecv, ActorReply, ActorStop, Refuse, Age, Abandon,
                      TaskForward,
         TaskCreated, sessionVars, linkVars
    <3> QED BY <2>1, <3>1
  <2>4. ASSUME NEW s \in Sides, Signal(s) \/ TimerSend(s)
        PROVE  \A u \in Sides : Travels(u)'
    <3>1. UNCHANGED <<pc, job, wire>>
      BY <2>4, Zenon DEF Signal, TimerSend, sessionVars, linkVars
    <3>2. msg("signal", None, 0) \in Boxed(s) /\ msg("cleanup", None, 0) \in Boxed(s)
      BY Messages, Zenon DEF Boxed
    <3>3. CASE UNCHANGED mailbox
      BY <2>1, <3>1, <3>3
    <3>4. CASE enqueue(s, msg("signal", None, 0)) \/ enqueue(s, msg("cleanup", None, 0))
      <4>1. PICK m \in Boxed(s) : mailbox' = [mailbox EXCEPT ![s] = Append(mailbox[s], m)]
        BY <3>2, <3>4, Zenon DEF enqueue
      <4> QED BY <3>1, <4>1, <1>Arrives, ZenonT(20) DEF SInv
    <3> QED BY <2>4, <3>3, <3>4, Zenon DEF Signal, TimerSend
  <2>5. ASSUME NEW r \in Requests, Submit(r) \/ TaskReply(r)
        PROVE  \A u \in Sides : Travels(u)'
    <3>1. UNCHANGED <<pc, job, wire>>
      BY <2>5, Zenon DEF Submit, TaskReply, sessionVars, linkVars
    <3>2. PICK s \in Sides : s = Origin[r]
      BY SessionAssumption, Zenon
    <3>3. CASE UNCHANGED mailbox
      BY <2>1, <3>1, <3>3
    <3>4. CASE Submit(r)
      <4>1. msg("request", r, 0) \in Boxed(s)
        BY <1>Made, TagsZero
      <4>2. mailbox' = [mailbox EXCEPT ![s] = Append(mailbox[s], msg("request", r, 0))]
        BY <3>2, <3>4, Zenon DEF Submit, enqueue
      <4> QED BY <3>1, <4>1, <4>2, <1>Arrives, Zenon DEF SInv
    <3>5. CASE TaskReply(r) /\ enqueue(Peer(s), msg("response", r, inTag[r]))
      <4>1. Kind[r] # "do_send" /\ inTag[r] \in Tags
        BY <3>5, Zenon DEF TaskReply, Tasks, SInv, Types
      <4>2. Peer(s) \in Sides /\ Peer(Peer(s)) = s
        BY Peers, Zenon
      <4>3. msg("response", r, inTag[r]) \in Boxed(Peer(s))
        BY <3>2, <4>1, <4>2, <1>Made, Zenon
      <4>4. mailbox' = [mailbox EXCEPT ![Peer(s)] =
                          Append(mailbox[Peer(s)], msg("response", r, inTag[r]))]
        BY <3>5, SMTT(20) DEF enqueue
      <4> QED BY <3>1, <4>2, <4>3, <4>4, <1>Arrives, Zenon DEF SInv
    <3> QED BY <2>5, <3>2, <3>3, <3>4, <3>5 DEF TaskReply
  <2> QED BY <2>2, <2>3, <2>4, <2>5, ZenonT(20)

\* A session goes to w and takes m into its hands, or keeps what it has.
<1>Turns.
    ASSUME SInv, \A u \in Sides : Travels(u), NEW s \in Sides, NEW w, NEW m, Doing(s, w, m),
           pc' = [pc EXCEPT ![s] = w],
           \/ job' = [job EXCEPT ![s] = m]
           \/ job' = job /\ w \notin {"sending", "forward", "asking"},
           \A u \in Sides \ {s} : mailbox'[u] = mailbox[u],
           mailbox'[s] \in Seq(Boxed(s)),
           \A u \in Sides : wire'[u] \in Seq(Sent(Peer(u)))
    PROVE  \A u \in Sides : Travels(u)'
  <2> USE <1>Turns
  <2>1. \A u \in Sides \ {s} : job'[u] = job[u]
    BY Zenon DEF SInv, Types
  <2>2. Doing(s, w, job'[s])
    BY ZenonT(60) DEF SInv, Types, Doing
  <2> QED BY <2>1, <2>2, <1>Goes, Zenon DEF SInv

<1>TravelsInbound.
    ASSUME SInv, \A u \in Sides : Travels(u), NEW s \in Sides, Inbound(s)
    PROVE  \A u \in Sides : Travels(u)'
  <2> USE <1>TravelsInbound
  <2>1. mailbox' = mailbox /\ mailbox'[s] \in Seq(Boxed(s))
    <3>1. mailbox' = mailbox
      BY ZenonT(60) DEF Inbound, HandleActorMessage, HandleNodeMessage, HandleMessageResponse,
                   RecvFail
    <3> QED BY <3>1, SMTT(20) DEF Travels
  <2>2. \A m : Doing(s, "loop", m)
    BY DEF Doing
  <2>3. CASE RecvFail(s)
    <3>1. pc' = [pc EXCEPT ![s] = "loop"] /\ job' = job /\ wire' = wire
      BY <2>3, ZenonT(20) DEF RecvFail, goto, linkVars
    <3>2. \A u \in Sides : wire'[u] \in Seq(Sent(Peer(u)))
      BY <3>1, Zenon DEF Travels
    <3> QED BY <2>1, <2>2, <3>1, <3>2, <1>Turns, ZenonT(20)
  <2>4. CASE HandleMessageResponse(s)
    <3>1. pc' = [pc EXCEPT ![s] = "loop"] /\ job' = job /\ received(s, "response")
      BY <2>4, Zenon DEF HandleMessageResponse, goto
    <3>2. \A u \in Sides : wire'[u] \in Seq(Sent(Peer(u)))
      BY <3>1, Receives
    <3> QED BY <2>1, <2>2, <3>1, <3>2, <1>Turns, Zenon
  <2>5. CASE HandleActorMessage(s) \/ HandleNodeMessage(s)
    <3>1. PICK h : h = Head(wire[s])
      OBVIOUS
    <3>2. received(s, "request")
      BY <2>5, Zenon DEF HandleActorMessage, HandleNodeMessage
    <3>3. /\ h \in Sent(Peer(s)) /\ h.type = "request"
          /\ \A u \in Sides : wire'[u] \in Seq(Sent(Peer(u)))
      BY <3>1, <3>2, Receives, Zenon
    <3>4. h.req \in Requests /\ h.tag \in Tags /\ Origin[h.req] = Peer(s)
      BY <3>3, SentIs, Peers
    <3>5. CASE pc' = [pc EXCEPT ![s] = "loop"] /\ job' = job
      BY <2>1, <2>2, <3>3, <3>5, <1>Turns, Zenon
    <3>6. CASE HandleActorMessage(s) /\ Kind[h.req] = "do_send" /\ goto(s, "forward")
               /\ job' = [job EXCEPT ![s] = h]
      <4>1. Doing(s, "forward", h) /\ pc' = [pc EXCEPT ![s] = "forward"]
        BY <3>3, <3>6 DEF Doing, goto
      <4> QED BY <2>1, <3>3, <3>6, <4>1, <1>Turns, Zenon
    <3>7. CASE Kind[h.req] = "node" /\ goto(s, "asking") /\ job' = [job EXCEPT ![s] = h]
      <4>1. Doing(s, "asking", h) /\ pc' = [pc EXCEPT ![s] = "asking"]
        BY <3>3, <3>7 DEF Doing, goto
      <4> QED BY <2>1, <3>3, <3>7, <4>1, <1>Turns, Zenon
    <3>8. CASE Kind[h.req] = "node" /\ startSend(s, msg("response", h.req, h.tag))
      <4>1. msg("response", h.req, h.tag) \in Sent(s)
        BY <3>4, <3>8, <1>Made, Zenon
      <4>2. /\ Doing(s, "sending", msg("response", h.req, h.tag))
            /\ pc' = [pc EXCEPT ![s] = "sending"]
            /\ job' = [job EXCEPT ![s] = msg("response", h.req, h.tag)]
        BY <3>8, <4>1, SMTT(20) DEF Doing, goto, startSend
      <4> QED BY <2>1, <3>3, <4>2, <1>Turns, Zenon
    <3> QED BY <2>5, <3>1, <3>5, <3>6, <3>7, <3>8, Zenon
            DEF HandleActorMessage, HandleNodeMessage, spawn, goto
  <2> QED BY <2>3, <2>4, <2>5, ZenonT(60) DEF Inbound

<1>TravelsOutbound.
    ASSUME SInv, \A u \in Sides : Travels(u), NEW s \in Sides, Outbound(s)
    PROVE  \A u \in Sides : Travels(u)'
  <2> USE <1>TravelsOutbound
  <2>1. /\ mailbox[s] # <<>> /\ mailbox' = [mailbox EXCEPT ![s] = Tail(@)] /\ wire' = wire
    BY Zenon DEF Outbound, HandleRequest, HandleOther, linkVars
  <2>2. /\ mailbox'[s] = Tail(mailbox[s]) /\ \A u \in Sides \ {s} : mailbox'[u] = mailbox[u]
        /\ \A u \in Sides : wire'[u] \in Seq(Sent(Peer(u)))
    BY <2>1, Zenon DEF SInv, Types, Travels
  <2>3. mailbox'[s] \in Seq(Boxed(s)) /\ Head(mailbox[s]) \in Boxed(s)
    BY <2>1, <2>2, SeqSteps DEF Travels
  <2>4. CASE goto(s, "loop") /\ UNCHANGED job
    <3>1. Doing(s, "loop", noJob) /\ pc' = [pc EXCEPT ![s] = "loop"]
      BY <2>4 DEF Doing, goto
    <3> QED BY <2>2, <2>3, <2>4, <3>1, <1>Turns, Zenon
  <2>5. CASE Head(mailbox[s]).type = "response" /\ startSend(s, Head(mailbox[s]))
    <3>1. Head(mailbox[s]) \in Sent(s)
      BY <2>3, <2>5, Zenon DEF Boxed
    <3>2. /\ Doing(s, "sending", Head(mailbox[s])) /\ pc' = [pc EXCEPT ![s] = "sending"]
          /\ job' = [job EXCEPT ![s] = Head(mailbox[s])]
      BY <2>5, <3>1 DEF Doing, goto, startSend
    <3> QED BY <2>2, <2>3, <3>2, <1>Turns, Zenon
  <2>6. CASE HandleRequest(s) /\ startSend(s, msg("request", Head(mailbox[s]).req, tag[s]))
    <3>1. Head(mailbox[s]).req \in at(s, {"queued"}) /\ tag[s] \in Tags
      <4>1. Head(mailbox[s]).type = "request"
        BY <2>6, Zenon DEF HandleRequest
      <4>2. tag[s] \in Tags
        BY Zenon DEF SInv, Types
      <4> QED BY <2>1, <4>1, <4>2, FromMailbox, Zenon
    <3>2. msg("request", Head(mailbox[s]).req, tag[s]) \in Sent(s)
      BY <3>1, <1>Made, SMTT(20) DEF at
    <3>3. /\ Doing(s, "sending", msg("request", Head(mailbox[s]).req, tag[s]))
          /\ pc' = [pc EXCEPT ![s] = "sending"]
          /\ job' = [job EXCEPT ![s] = msg("request", Head(mailbox[s]).req, tag[s])]
      BY <2>6, <3>2, Zenon DEF Doing, goto, startSend
    <3> QED BY <2>2, <2>3, <3>3, <1>Turns, Zenon
  <2> QED BY <2>4, <2>5, <2>6, Zenon DEF Outbound, HandleRequest, HandleOther

<1>TravelsOn.
    ASSUME SInv, \A u \in Sides : Travels(u), NEW s \in Sides, Step(s)
    PROVE  \A u \in Sides : Travels(u)'
  <2> USE <1>TravelsOn
  <2>1. \A m : \A w \in {"loop", "select", "closing", "ended"} : Doing(s, w, m)
    BY DEF Doing
  <2>2. CASE Leave(s)
    <3>1. /\ pc' = [pc EXCEPT ![s] = "closing"] /\ job' = job /\ wire' = wire
          /\ mailbox'[s] = <<>> /\ \A u \in Sides \ {s} : mailbox'[u] = mailbox[u]
      BY <2>2, Zenon DEF Leave, goto, linkVars, SInv, Types
    <3>2. mailbox'[s] \in Seq(Boxed(s)) /\ \A u \in Sides : wire'[u] \in Seq(Sent(Peer(u)))
      BY <3>1 DEF Travels
    <3> QED BY <2>1, <3>1, <3>2, <1>Turns, Zenon
  <2>3. ASSUME ~Leave(s)
        PROVE  mailbox' = mailbox /\ mailbox'[s] \in Seq(Boxed(s))
    <3>1. mailbox' = mailbox
      BY <2>3 DEF Step, Top, SendOk, SendFail, ActorMgrReply, Forward, Close
    <3> QED BY <3>1 DEF Travels
  <2>4. CASE Top(s) \/ Close(s) \/ SendFail(s) \/ Forward(s)
    <3>1. ~Leave(s)
      BY <2>4, ZenonT(20) DEF Leave, Top, Close, SendFail, Forward
    <3>2. PICK w \in {"loop", "select", "ended"} :
            pc' = [pc EXCEPT ![s] = w] /\ (job' = job \/ job' = [job EXCEPT ![s] = noJob])
            /\ wire' = wire
      BY <2>4, Zenon DEF Top, Close, SendFail, Forward, goto, linkVars
    <3>3. \A u \in Sides : wire'[u] \in Seq(Sent(Peer(u)))
      BY <3>2 DEF Travels
    <3> QED BY <2>1, <2>3, <3>1, <3>2, <3>3, <1>Turns, Zenon
  <2>5. CASE ActorMgrReply(s)
    <3>1. /\ pc[s] = "asking" /\ wire' = wire
          /\ pc' = [pc EXCEPT ![s] = "sending"]
          /\ job' = [job EXCEPT ![s] = msg("response", job[s].req, job[s].tag)]
      BY <2>5 DEF ActorMgrReply, startSend, goto, linkVars
    <3>2. /\ job[s] \in Sent(Peer(s)) /\ job[s].type = "request" /\ Kind[job[s].req] # "do_send"
      BY <3>1 DEF Travels
    <3>3. job[s].req \in Requests /\ job[s].tag \in Tags /\ Origin[job[s].req] = Peer(s)
      BY <3>2, SentIs, Peers, SMTT(20)
    <3>4. Doing(s, "sending", msg("response", job[s].req, job[s].tag))
      BY <3>2, <3>3, <1>Made, ZenonT(60) DEF Doing
    <3>5. \A u \in Sides : wire'[u] \in Seq(Sent(Peer(u)))
      BY <3>1, SMTT(20) DEF Travels
    <3>6. ~Leave(s)
      BY <3>1, Zenon DEF Leave
    <3> QED BY <2>3, <3>1, <3>4, <3>5, <3>6, <1>Turns, Zenon
  <2>6. CASE SendOk(s)
    <3>1. PICK p \in Sides : p = Peer(s) /\ Peer(p) = s
      BY Peers
    <3>2. /\ pc[s] = "sending" /\ pc' = [pc EXCEPT ![s] = "loop"]
          /\ job' = [job EXCEPT ![s] = noJob]
          /\ wire' = [wire EXCEPT ![p] = Append(wire[p], job[s])]
      BY <2>6, <3>1, Zenon DEF SendOk, goto
    <3>3. job[s] \in Sent(Peer(p)) /\ wire[p] \in Seq(Sent(Peer(p)))
      BY <3>1, <3>2, Zenon DEF Travels
    <3>4. wire'[p] \in Seq(Sent(Peer(p))) /\ \A u \in Sides \ {p} : wire'[u] = wire[u]
      BY <3>2, <3>3, SeqSteps, Zenon DEF SInv, Types
    <3>5. \A u \in Sides : wire'[u] \in Seq(Sent(Peer(u)))
      BY <3>4, Zenon DEF Travels
    <3>6. ~Leave(s)
      BY <3>2, Zenon DEF Leave
    <3> QED BY <2>1, <2>3, <3>2, <3>5, <3>6, <1>Turns, Zenon
  <2> QED BY <2>2, <2>4, <2>5, <2>6, Zenon DEF Step

<1> SUFFICES ASSUME SInv, Tasks, \A u \in Sides : Travels(u), Next
             PROVE  \A u \in Sides : Travels(u)'
  BY Zenon
<1> QED BY <1>TravelsAround, <1>TravelsInbound, <1>TravelsOutbound, <1>TravelsOn, Zenon DEF Next

-----------------------------------------------------------------------------
(* A request is received and served once.                                   *)

Later == \A r \in Requests : status[r] \notin Early => status'[r] \notin Early

Lower == Tasks /\ \A u \in Sides : Fresh(u) /\ Serves(u)

LEMMA Apart ==
  ASSUME SInv, PathInv, NEW u \in Sides
  PROVE  /\ \A r \in reqs(wire[u]) \cup taken(u) : r \in Requests /\ Origin[r] = Peer(u)
         /\ \A r \in served(u) : r \in Requests /\ Origin[r] = Peer(u) /\ task[r] = "waiting"
<1>1. wire[u] \in Seq(Sent(Peer(u))) /\ Peer(u) \in Sides
  BY Peers, ZenonT(60) DEF PathInv, Travels
<1>2. ASSUME NEW i \in 1 .. Len(wire[u]), wire[u][i].type = "request"
      PROVE  wire[u][i].req \in Requests /\ Origin[wire[u][i].req] = Peer(u)
  <2>1. wire[u][i] \in Sent(Peer(u))
    BY <1>1
  <2> QED BY <1>1, <1>2, <2>1, SentIs, ZenonT(60)
<1>3. \A r \in reqs(wire[u]) : r \in Requests /\ Origin[r] = Peer(u)
  BY <1>2, Zenon DEF reqs
<1>4. \A r \in taken(u) : r \in Requests /\ Origin[r] = Peer(u)
  <2>1. pc[u] \in {"forward", "asking"} => job[u] \in Sent(Peer(u)) /\ job[u].type = "request"
    BY Zenon DEF PathInv, Travels
  <2> QED BY <1>1, <2>1, SentIs, Zenon DEF taken
<1>5. \A r \in served(u) : Origin[r] = Peer(u) /\ task[r] = "waiting"
  BY Zenon DEF PathInv, Serves
<1>6. \A r \in served(u) : r \in Requests
  <2>1. inbox[u] \in Seq(Requests) /\ handling[u] \in Requests \cup {None}
    BY DEF PathInv, Serves
  <2>2. \A i \in 1 .. Len(inbox[u]) : inbox[u][i] \in Requests
    BY <2>1
  <2> QED BY <2>1, <2>2, Zenon DEF served, elems
<1> QED BY <1>3, <1>4, <1>5, <1>6, Zenon

\* Every step keeps requests received once and served once.
LEMMA LowerStep ==
  SInv /\ PathInv /\ Next => Lower'

<1>Inbox.
    ASSUME NEW q \in Seq(Requests), distinct(q)
    PROVE  /\ \A r \in Requests \ elems(q) :
                /\ Append(q, r) \in Seq(Requests) /\ distinct(Append(q, r))
                /\ elems(Append(q, r)) = elems(q) \cup {r}
           /\ q # <<>> => /\ Tail(q) \in Seq(Requests) /\ distinct(Tail(q))
                          /\ Head(q) \in elems(q) /\ Head(q) \in Requests
                          /\ elems(Tail(q)) = elems(q) \ {Head(q)}
  <2> USE <1>Inbox
  <2>1. ASSUME NEW r \in Requests \ elems(q)
        PROVE  /\ Append(q, r) \in Seq(Requests) /\ distinct(Append(q, r))
               /\ elems(Append(q, r)) = elems(q) \cup {r}
    <3> DEFINE p == Append(q, r)
    <3>1. /\ p \in Seq(Requests) /\ Len(q) \in Nat /\ Len(p) = Len(q) + 1
          /\ \A i \in 1 .. Len(q) : p[i] = q[i]
          /\ p[Len(q) + 1] = r
      OBVIOUS
    <3> HIDE DEF p
    <3>2. /\ \A i \in 1 .. Len(p) : i \in 1 .. Len(q) \/ i = Len(q) + 1
          /\ \A i \in 1 .. Len(q) : i \in 1 .. Len(p)
          /\ Len(q) + 1 \in 1 .. Len(p)
      BY <3>1
    <3>3. distinct(p)
      BY <3>1, <3>2, Zenon DEF distinct, elems
    <3>4. elems(p) = elems(q) \cup {r}
      BY <3>1, <3>2, Zenon DEF elems
    <3> QED BY <3>1, <3>3, <3>4, Zenon DEF p
  <2>2. ASSUME q # <<>>
        PROVE  /\ Tail(q) \in Seq(Requests) /\ distinct(Tail(q))
               /\ Head(q) \in elems(q) /\ Head(q) \in Requests
               /\ elems(Tail(q)) = elems(q) \ {Head(q)}
    <3> DEFINE p == Tail(q)
               h == Head(q)
    <3>1. /\ p \in Seq(Requests) /\ h \in Requests /\ h = q[1]
          /\ Len(q) \in Nat \ {0} /\ Len(p) = Len(q) - 1
          /\ \A i \in 1 .. Len(p) : p[i] = q[i + 1]
      BY <2>2
    <3> HIDE DEF p, h
    <3>2. /\ 1 \in 1 .. Len(q) /\ \A i \in 1 .. Len(p) : i + 1 \in 1 .. Len(q) /\ i + 1 # 1
          /\ \A i, j \in 1 .. Len(p) : i + 1 = j + 1 => i = j
          /\ \A i \in 1 .. Len(q) : i = 1 \/ \E j \in 1 .. Len(p) : i = j + 1
      <4>1. \A i \in 1 .. Len(q) : i = 1 \/ (i - 1 \in 1 .. Len(p) /\ i = (i - 1) + 1)
        BY <3>1
      <4> QED BY <3>1, <4>1
    <3>3. distinct(p)
      <4> SUFFICES ASSUME NEW i \in 1 .. Len(p), NEW j \in 1 .. Len(p), p[i] = p[j]
                   PROVE  i = j
        BY Zenon DEF distinct
      <4>1. q[i + 1] = q[j + 1]
        BY <3>1, Zenon
      <4> QED BY <3>2, <4>1 DEF distinct
    <3>4. h \in elems(q) /\ elems(p) \subseteq elems(q) \ {h}
      BY <3>1, <3>2 DEF elems, distinct
    <3>5. elems(q) \ {h} \subseteq elems(p)
      <4> SUFFICES ASSUME NEW i \in 1 .. Len(q), q[i] # h
                   PROVE  q[i] \in elems(p)
        BY Zenon DEF elems
      <4>1. PICK j \in 1 .. Len(p) : i = j + 1
        BY <3>1, <3>2
      <4> QED BY <3>1, <4>1, Zenon DEF elems
    <3> QED BY <3>1, <3>3, <3>4, <3>5 DEF p, h
  <2> QED BY <2>1, <2>2, Zenon

<1>LaterStep.
    ASSUME SInv, Next
    PROVE  Later
  <2> USE <1>LaterStep
  <2>1. CASE Onward
    BY <2>1, Zenon DEF Onward, Later
  <2>2. ASSUME NEW r \in Requests, Submit(r)
        PROVE  Later
    <3>1. status[r] = "idle" /\ status' = [status EXCEPT ![r] = "queued"]
      BY <2>2, Zenon DEF Submit
    <3> QED BY <3>1, Zenon DEF Later, Early, SInv, Types
  <2>3. ASSUME NEW s \in Sides, HandleRequest(s)
        PROVE  Later
    <3>1. /\ mailbox[s] # <<>> /\ mailbox' = [mailbox EXCEPT ![s] = Tail(@)]
          /\ Head(mailbox[s]).type = "request"
      BY <2>3 DEF HandleRequest
    <3>2. PICK r : r = Head(mailbox[s]).req
      OBVIOUS
    <3>3. r \in at(s, {"queued"})
      BY <3>1, <3>2, FromMailbox, Zenon
    <3>4. PICK v : status' = [status EXCEPT ![r] = v]
      BY <2>3, <3>2, Zenon DEF HandleRequest
    <3> QED BY <3>3, <3>4, Zenon DEF Later, Early, SInv, Types, at
  <2>4. ASSUME NEW s \in Sides, Leave(s)
        PROVE  Later
    BY <2>4, Zenon DEF Leave, closed, Later, Early
  <2> QED BY <2>1, <2>2, <2>3, <2>4, StatusMoves, Zenon

<1>FreshKept.
    ASSUME SInv, PathInv, Later, NEW u \in Sides, once(wire'[u]),
           reqs(wire'[u]) \cup taken(u)' \subseteq reqs(wire[u]) \cup taken(u),
           taken(u)' \cap reqs(wire'[u]) = {},
           \A r \in reqs(wire'[u]) \cup taken(u)' : task'[r] = task[r]
    PROVE  Fresh(u)'
  <2> USE <1>FreshKept
  <2>1. ASSUME NEW r \in reqs(wire'[u]) \cup taken(u)'
        PROVE  task'[r] = "none" /\ status'[r] \notin Early
    <3>1. r \in Requests /\ task[r] = "none" /\ status[r] \notin Early
      BY Apart, Zenon DEF PathInv, Fresh
    <3> QED BY <3>1, Zenon DEF Later
  <2> QED BY <2>1, Zenon DEF Fresh

<1>ServesKept.
    ASSUME PathInv, NEW u \in Sides, inbox'[u] = inbox[u], handling'[u] = handling[u],
           \A r \in served(u) : task'[r] = task[r]
    PROVE  Serves(u)'
  <2> USE <1>ServesKept
  <2>1. served(u)' = served(u) /\ elems(inbox'[u]) = elems(inbox[u])
    BY DEF served
  <2> QED BY <2>1, Zenon DEF PathInv, Serves

\* Steps that neither receive nor serve.
<1>Quiet.
    ASSUME SInv, PathInv, Later, UNCHANGED <<wire, inbox, handling, task>>,
           \A u \in Sides : taken(u)' \subseteq taken(u)
    PROVE  Lower'
  <2> USE <1>Quiet
  <2>1. Tasks'
    BY Zenon DEF PathInv, Tasks, Later
  <2>2. ASSUME NEW u \in Sides PROVE Fresh(u)'
    <3>1. once(wire[u]) /\ taken(u) \cap reqs(wire[u]) = {} /\ taken(u)' \subseteq taken(u)
      BY DEF PathInv, Fresh
    <3> QED BY <3>1, <1>FreshKept, Zenon
  <2>3. ASSUME NEW u \in Sides PROVE Serves(u)'
    BY <1>ServesKept
  <2> QED BY <2>1, <2>2, <2>3, Zenon DEF Lower

\* One task moves on, without the mailbox of an actor.
<1>TaskMoves.
    ASSUME SInv, PathInv, Later, NEW r \in Requests, NEW v \in TaskPCs,
           task' = [task EXCEPT ![r] = v], task[r] \in {"forward", "creating", "reply"},
           UNCHANGED <<wire, pc, job, inbox, handling>>
    PROVE  Lower'
  <2> USE <1>TaskMoves
  <2>1. /\ Kind[r] # "do_send" /\ task[r] # "none" /\ task[r] # "waiting"
        /\ task' \in [Requests -> TaskPCs] /\ task'[r] = v
        /\ \A q \in Requests : q # r => task'[q] = task[q]
    BY Zenon DEF PathInv, Tasks
  <2>2. Tasks'
    BY <2>1, Zenon DEF PathInv, Tasks, Later
  <2>3. ASSUME NEW u \in Sides PROVE Fresh(u)'
    <3>1. taken(u)' = taken(u) /\ once(wire[u]) /\ taken(u) \cap reqs(wire[u]) = {}
      BY Zenon DEF taken, PathInv, Fresh
    <3>2. \A q \in reqs(wire[u]) \cup taken(u) : q # r
      BY <2>1, Zenon DEF PathInv, Fresh
    <3>3. \A q \in reqs(wire[u]) \cup taken(u) : task'[q] = task[q]
      BY <2>1, <3>2, Apart, Zenon
    <3> QED BY <3>1, <3>3, <1>FreshKept
  <2>4. ASSUME NEW u \in Sides PROVE Serves(u)'
    <3>1. \A q \in served(u) : task'[q] = task[q]
      BY <2>1, Apart, Zenon
    <3> QED BY <3>1, <1>ServesKept, Zenon
  <2> QED BY <2>2, <2>3, <2>4, Zenon DEF Lower

\* The local actor of side s gets r, which its task or its session had.
<1>Delivered.
    ASSUME SInv, PathInv, Later, NEW s \in Sides, NEW r \in Requests, Origin[r] = Peer(s),
           \/ pc[s] = "forward" /\ r = job[s].req /\ pc' = [pc EXCEPT ![s] = "loop"]
           \/ task[r] = "forward" /\ UNCHANGED <<pc, job>>,
           \A u \in Sides \ {s} : job'[u] = job[u],
           task' = [task EXCEPT ![r] = "waiting"],
           inbox' = [inbox EXCEPT ![s] = Append(inbox[s], r)],
           UNCHANGED <<wire, handling>>
    PROVE  Lower'
  <2> USE <1>Delivered
  <2>0. inbox \in [Sides -> Seq(Requests)]
    BY Zenon DEF PathInv, Actors
  <2>1. /\ task' \in [Requests -> TaskPCs] /\ task'[r] = "waiting"
        /\ \A q \in Requests : q # r => task'[q] = task[q]
    BY Zenon DEF PathInv, Tasks, TaskPCs
  <2>2. task[r] # "waiting" /\ status[r] \notin Early
    <3>1. CASE pc[s] = "forward" /\ r = job[s].req
      <4>1. r \in taken(s)
        BY <3>1, Zenon DEF taken
      <4> QED BY <4>1, Zenon DEF PathInv, Fresh
    <3>2. CASE task[r] = "forward"
      BY <3>2, Zenon DEF PathInv, Tasks
    <3> QED BY <3>1, <3>2, Zenon
  <2>3. Tasks'
    BY <2>1, <2>2, Zenon DEF PathInv, Tasks, Later
  <2>4. ASSUME NEW u \in Sides
        PROVE  taken(u)' \subseteq taken(u) /\ r \notin reqs(wire[u]) \cup taken(u)'
    <3>1. CASE task[r] = "forward" /\ UNCHANGED <<pc, job>>
      <4>1. taken(u)' = taken(u)
        BY <3>1, Zenon DEF taken
      <4>2. r \notin reqs(wire[u]) \cup taken(u)
        BY <3>1, Zenon DEF PathInv, Fresh
      <4> QED BY <4>1, <4>2, Zenon
    <3>2. CASE pc[s] = "forward" /\ r = job[s].req /\ pc' = [pc EXCEPT ![s] = "loop"]
      <4>1. pc'[s] = "loop" /\ \A x \in Sides \ {s} : pc'[x] = pc[x]
        BY <3>2, SMTT(20) DEF SInv, Types
      <4>2. CASE u = s
        <5>1. taken(u)' = {} /\ taken(u) = {r}
          BY <3>2, <4>1, <4>2, Zenon DEF taken
        <5> QED BY <4>2, <5>1, Zenon DEF PathInv, Fresh
      <4>3. CASE u # s
        <5>1. taken(u)' = taken(u)
          BY <4>1, <4>3, Zenon DEF taken
        <5>2. Peer(u) # Peer(s)
          BY <4>3, SMTT(20) DEF Peer
        <5> QED BY <5>1, <5>2, Apart
      <4> QED BY <4>2, <4>3, Zenon
    <3> QED BY <3>1, <3>2, Zenon
  <2>5. ASSUME NEW u \in Sides PROVE Fresh(u)'
    <3>1. once(wire[u]) /\ taken(u) \cap reqs(wire[u]) = {}
      BY SMTT(20) DEF PathInv, Fresh
    <3>2. \A q \in reqs(wire[u]) \cup taken(u)' : task'[q] = task[q]
      BY <2>1, <2>4, Apart, ZenonT(20)
    <3> QED BY <2>4, <3>1, <3>2, <1>FreshKept, Zenon
  <2>6. \A u \in Sides : r \notin served(u)
    BY <2>2, Apart, Zenon
  <2>7. ASSUME NEW u \in Sides \ {s} PROVE Serves(u)'
    <3>1. inbox'[u] = inbox[u] /\ handling'[u] = handling[u]
      BY <2>0, Zenon
    <3>2. \A q \in served(u) : task'[q] = task[q]
      BY <2>1, <2>6, Apart, SMTT(20)
    <3> QED BY <3>1, <3>2, <1>ServesKept, Zenon
  <2>8. Serves(s)'
    <3>1. /\ inbox[s] \in Seq(Requests) /\ distinct(inbox[s]) /\ r \notin elems(inbox[s])
          /\ handling[s] \in Requests \cup {None} /\ handling[s] \notin elems(inbox[s])
      BY <2>6, ZenonT(20) DEF PathInv, Serves, served
    <3>2. inbox'[s] = Append(inbox[s], r)
      BY <2>0, Zenon
    <3>3. /\ inbox'[s] \in Seq(Requests) /\ distinct(inbox'[s])
          /\ elems(inbox'[s]) = elems(inbox[s]) \cup {r}
      BY <3>1, <3>2, <1>Inbox, SMTT(20)
    <3>4. served(s)' = served(s) \cup {r}
      BY <3>3, Zenon DEF served
    <3>5. handling[s] # r
      <4>1. r # None
        BY SessionAssumption, SMTT(20)
      <4> QED BY <2>6, <4>1, ZenonT(60) DEF served
    <3>6. \A q \in served(s)' : task'[q] = "waiting" /\ Origin[q] = Peer(s)
      BY <2>1, <2>6, <3>4, Apart, Zenon
    <3> QED BY <3>1, <3>3, <3>5, <3>6, Zenon DEF Serves
  <2> QED BY <2>3, <2>5, <2>7, <2>8, Zenon DEF Lower

\* The local actor: it takes a request, answers it, or ends.
<1>ActorSteps.
    ASSUME SInv, PathInv, Later, NEW s \in Sides,
           ActorRecv(s) \/ ActorReply(s) \/ ActorStop(s)
    PROVE  Lower'
  <2> USE <1>ActorSteps
  <2>0. inbox \in [Sides -> Seq(Requests)] /\ handling \in [Sides -> Requests \cup {None}]
    BY Zenon DEF PathInv, Actors
  <2>1. UNCHANGED <<wire, pc, job>>
    BY DEF ActorRecv, ActorReply, ActorStop, linkVars, sessionVars
  <2>2. \A u \in Sides : taken(u)' = taken(u)
    BY <2>1, Zenon DEF taken
  <2>3. \A u \in Sides \ {s} : inbox'[u] = inbox[u] /\ handling'[u] = handling[u]
    BY <2>0, Zenon DEF ActorRecv, ActorReply, ActorStop
  <2>4. /\ inbox[s] \in Seq(Requests) /\ distinct(inbox[s])
        /\ handling[s] \in Requests \cup {None} /\ handling[s] \notin elems(inbox[s])
        /\ \A r \in served(s) : task[r] = "waiting" /\ Origin[r] = Peer(s) /\ r \in Requests
    BY Apart DEF PathInv, Serves
  <2>5. CASE ActorRecv(s)
    <3>1. /\ handling[s] = None /\ inbox[s] # <<>> /\ task' = task
          /\ handling'[s] = Head(inbox[s]) /\ inbox'[s] = Tail(inbox[s])
      BY <2>0, <2>5, Zenon DEF ActorRecv, taskVars
    <3>2. /\ Tail(inbox[s]) \in Seq(Requests) /\ distinct(Tail(inbox[s]))
          /\ Head(inbox[s]) \in elems(inbox[s]) /\ Head(inbox[s]) \in Requests
          /\ elems(Tail(inbox[s])) = elems(inbox[s]) \ {Head(inbox[s])}
      BY <2>4, <3>1, <1>Inbox, Zenon
    <3>3. served(s)' \subseteq served(s)
      BY <3>1, <3>2, SMTT(20) DEF served
    <3>4. Serves(s)'
      BY <2>4, <3>1, <3>2, <3>3, Zenon DEF Serves
    <3>5. Tasks'
      BY <3>1, Zenon DEF PathInv, Tasks, Later
    <3>6. ASSUME NEW u \in Sides PROVE Fresh(u)'
      <4>1. once(wire[u]) /\ taken(u) \cap reqs(wire[u]) = {}
        BY Zenon DEF PathInv, Fresh
      <4> QED BY <2>1, <2>2, <3>1, <4>1, <1>FreshKept, Zenon
    <3>7. ASSUME NEW u \in Sides \ {s} PROVE Serves(u)'
      BY <2>3, <3>1, <1>ServesKept, Zenon
    <3> QED BY <3>4, <3>5, <3>6, <3>7, Zenon DEF Lower
  <2>6. CASE ActorReply(s) \/ ActorStop(s)
    <3>1. PICK G \in SUBSET served(s) :
            /\ task' = answered(G) /\ handling'[s] = None
            /\ \/ G = {handling[s]} /\ handling[s] # None /\ inbox'[s] = inbox[s]
               \/ inbox'[s] = <<>>
      <4>1. CASE ActorReply(s)
        BY <2>0, <2>4, <4>1, SMTT(20) DEF ActorReply, served
      <4>2. CASE ActorStop(s)
        <5>1. DOMAIN inbox[s] = 1 .. Len(inbox[s])
          BY <2>4
        <5>2. task' = answered(served(s))
          BY <4>2, <5>1, Zenon DEF ActorStop, served, elems
        <5>3. handling'[s] = None /\ inbox'[s] = <<>>
          BY <2>0, <4>2, SMTT(20) DEF ActorStop
        <5> QED BY <5>2, <5>3, Zenon
      <4> QED BY <2>6, <4>1, <4>2, Zenon
    <3>2. \A r \in Requests : /\ r \notin G => task'[r] = task[r]
                              /\ r \in G => task'[r] = IF Kind[r] = "send" THEN "reply" ELSE "done"
      BY <3>1, Zenon DEF answered
    <3>3. task' \in [Requests -> TaskPCs]
      BY <3>1, Zenon DEF answered, PathInv, Tasks, TaskPCs
    <3>4. Tasks'
      <4>1. \A r \in G : task[r] # "none"
        BY <2>4, Zenon
      <4> QED BY <3>2, <3>3, <4>1, Zenon DEF PathInv, Tasks, Later
    <3>5. ASSUME NEW u \in Sides PROVE Fresh(u)'
      <4>1. once(wire[u]) /\ taken(u) \cap reqs(wire[u]) = {}
        BY DEF PathInv, Fresh
      <4>2. \A q \in reqs(wire[u]) \cup taken(u) : q \in Requests /\ q \notin G
        BY <2>4, Apart, Zenon DEF PathInv, Fresh
      <4> QED BY <2>1, <2>2, <3>2, <4>1, <4>2, <1>FreshKept, Zenon
    <3>6. ASSUME NEW u \in Sides \ {s} PROVE Serves(u)'
      <4>1. Peer(u) # Peer(s)
        BY DEF Peer
      <4>2. \A q \in served(u) : q \in Requests /\ q \notin G
        BY <2>4, <4>1, Apart, Zenon
      <4> QED BY <2>3, <3>2, <4>2, <1>ServesKept, Zenon
    <3>7. Serves(s)'
      <4>1. CASE inbox'[s] = <<>>
        <5>1. /\ inbox'[s] \in Seq(Requests) /\ distinct(inbox'[s])
              /\ elems(inbox'[s]) = {}
          BY <4>1, NoElems, Zenon
        <5>2. served(s)' = {}
          BY <3>1, <5>1, Zenon DEF served
        <5> QED BY <3>1, <5>1, <5>2, Zenon DEF Serves
      <4>2. CASE G = {handling[s]} /\ handling[s] # None /\ inbox'[s] = inbox[s]
        <5>1. served(s)' = elems(inbox[s]) /\ served(s)' \subseteq served(s) \ G
          BY <2>4, <3>1, <4>2, Zenon DEF served
        <5>2. \A q \in served(s)' : task'[q] = "waiting" /\ Origin[q] = Peer(s) /\ q # None
          BY <2>4, <3>2, <5>1, SessionAssumption, Zenon
        <5> QED BY <2>4, <3>1, <4>2, <5>1, <5>2, Zenon DEF Serves
      <4> QED BY <3>1, <4>1, <4>2, Zenon
    <3> QED BY <3>4, <3>5, <3>6, <3>7, Zenon DEF Lower
  <2> QED BY <2>5, <2>6, Zenon

\* The head of the wire is received: it may be served, or be in the session's hands.
<1>LowerInbound.
    ASSUME SInv, PathInv, Later, NEW s \in Sides, Inbound(s)
    PROVE  Lower'
  <2> USE <1>LowerInbound
  <2>0. \A u \in Sides : Travels(u)
    BY DEF PathInv
  <2>1. UNCHANGED <<inbox, handling>>
    BY Zenon DEF Inbound, HandleActorMessage, HandleNodeMessage, HandleMessageResponse, RecvFail,
           actorVars
  <2>2. CASE RecvFail(s)
    <3>1. wire' = wire /\ task' = task /\ job' = job /\ pc' = [pc EXCEPT ![s] = "loop"]
      BY <2>2, Zenon DEF RecvFail, goto, linkVars, taskVars
    <3>2. \A u \in Sides : taken(u)' \subseteq taken(u)
      BY <3>1 DEF taken, SInv, Types
    <3> QED BY <2>1, <3>1, <3>2, <1>Quiet, Zenon
  <2>3. ASSUME NEW type, received(s, type), NEW w \in {"loop", "forward", "asking", "sending"},
               pc' = [pc EXCEPT ![s] = w],
               w \in {"forward", "asking"} =>
                 type = "request" /\ job' = [job EXCEPT ![s] = Head(wire[s])],
               \A u \in Sides \ {s} : job'[u] = job[u],
               \/ task' = task
               \/ /\ type = "request" /\ w = "loop" /\ Kind[Head(wire[s]).req] # "do_send"
                  /\ \E v \in {"forward", "reply", "creating"} :
                       task' = [task EXCEPT ![Head(wire[s]).req] = v]
        PROVE  Lower'
    <3>1. PICK h : h = Head(wire[s])
      OBVIOUS
    <3>2. /\ pc[s] = "select" /\ wire[s] # <<>> /\ h \in Sent(Peer(s)) /\ h.type = type
          /\ wire'[s] = Tail(wire[s]) /\ \A u \in Sides \ {s} : wire'[u] = wire[u]
      BY <2>0, <2>3, <3>1, Receives, ZenonT(20)
    <3>3. /\ once(wire'[s])
          /\ type = "request" => h.req \in reqs(wire[s])
          /\ reqs(wire'[s]) = reqs(wire[s]) \ (IF type = "request" THEN {h.req} ELSE {})
      <4>1. wire[s] \in Seq(Msg) /\ once(wire[s])
        BY DEF SInv, Types, PathInv, Fresh
      <4> QED BY <3>1, <3>2, <4>1, Taken, Zenon
    <3>4. /\ taken(s) = {} /\ taken(s)' \subseteq (IF type = "request" THEN {h.req} ELSE {})
          /\ \A u \in Sides \ {s} : taken(u)' = taken(u)
      <4>1. pc'[s] = w /\ \A u \in Sides \ {s} : pc'[u] = pc[u]
        BY <2>3, Zenon DEF SInv, Types
      <4>2. w \in {"forward", "asking"} => job'[s] = h
        BY <2>3, <3>1, Zenon DEF SInv, Types
      <4> QED BY <2>3, <3>2, <4>1, <4>2, ZenonT(20) DEF taken
    <3>5. task' = task \/ (type = "request" /\ taken(s)' = {})
      <4>1. pc'[s] = w
        BY <2>3, Zenon DEF SInv, Types
      <4> QED BY <2>3, <4>1, Zenon DEF taken
    <3>6. /\ task' \in [Requests -> TaskPCs]
          /\ \A q \in Requests : q # h.req \/ type # "request" => task'[q] = task[q]
      BY <2>3, <3>1, ZenonT(60) DEF PathInv, Tasks, TaskPCs
    <3>7. type = "request" => /\ h.req \in Requests /\ Origin[h.req] = Peer(s)
                              /\ task[h.req] = "none" /\ status[h.req] \notin Early
      BY <3>3, Apart DEF PathInv, Fresh
    <3>8. Tasks'
      <4>1. CASE task' = task
        BY <4>1, Zenon DEF PathInv, Tasks, Later
      <4>2. CASE task' # task
        <5>1. type = "request" /\ Kind[h.req] # "do_send"
          BY <2>3, <3>1, <4>2, SMTT(20)
        <5> QED BY <3>6, <3>7, <5>1, Zenon DEF PathInv, Tasks, Later
      <4> QED BY <4>1, <4>2, Zenon
    <3>9. Fresh(s)'
      <4>1. reqs(wire'[s]) \cup taken(s)' \subseteq reqs(wire[s]) \cup taken(s)
        BY <3>3, <3>4, Zenon
      <4>2. taken(s)' \cap reqs(wire'[s]) = {}
        BY <3>3, <3>4, SMTT(20)
      <4>3. ASSUME NEW q \in reqs(wire'[s]) \cup taken(s)' PROVE task'[q] = task[q]
        BY <3>3, <3>4, <3>5, <3>6, <4>1, Apart, Zenon
      <4> QED BY <3>3, <4>1, <4>2, <4>3, <1>FreshKept, ZenonT(20)
    <3>10. ASSUME NEW u \in Sides \ {s} PROVE Fresh(u)'
      <4>1. wire'[u] = wire[u] /\ taken(u)' = taken(u)
        BY <3>2, <3>4, ZenonT(20)
      <4>2. once(wire[u]) /\ taken(u) \cap reqs(wire[u]) = {}
        BY Zenon DEF PathInv, Fresh
      <4>3. Peer(u) # Peer(s)
        BY ZenonT(60) DEF Peer
      <4>4. \A q \in reqs(wire[u]) \cup taken(u) : task'[q] = task[q]
        BY <3>6, <3>7, <4>3, Apart, SMTT(20)
      <4> QED BY <4>1, <4>2, <4>4, <1>FreshKept, ZenonT(20)
    <3>11. ASSUME NEW u \in Sides PROVE Serves(u)'
      <4>1. \A q \in served(u) : task'[q] = task[q]
        BY <3>6, <3>7, Apart, Zenon
      <4> QED BY <2>1, <4>1, <1>ServesKept, SMTT(20)
    <3> QED BY <3>8, <3>9, <3>10, <3>11 DEF Lower
  <2>4. CASE HandleMessageResponse(s)
    <3>1. /\ received(s, "response") /\ pc' = [pc EXCEPT ![s] = "loop"] /\ job' = job
          /\ task' = task
      BY <2>4, Zenon DEF HandleMessageResponse, goto, taskVars
    <3> QED BY <2>3, <3>1, Zenon
  <2>5. CASE HandleActorMessage(s)
    <3>1. received(s, "request")
      BY <2>5, Zenon DEF HandleActorMessage
    <3>2. CASE /\ Kind[Head(wire[s]).req] = "send"
               /\ \E where \in {"forward", "reply"} : spawn(s, Head(wire[s]).req, where)
      <4>1. /\ pc' = [pc EXCEPT ![s] = "loop"] /\ job' = job
            /\ \E v \in {"forward", "reply", "creating"} :
                 task' = [task EXCEPT ![Head(wire[s]).req] = v]
        BY <3>2, Zenon DEF spawn, goto
      <4> QED BY <2>3, <3>1, <3>2, <4>1, Zenon
    <3>3. CASE goto(s, "forward") /\ job' = [job EXCEPT ![s] = Head(wire[s])] /\ UNCHANGED taskVars
      <4>1. /\ pc' = [pc EXCEPT ![s] = "forward"] /\ task' = task
            /\ \A u \in Sides \ {s} : job'[u] = job[u]
        BY <3>3, SMTT(20) DEF goto, taskVars, SInv, Types
      <4> QED BY <2>3, <3>1, <3>3, <4>1, Zenon
    <3>4. CASE goto(s, "loop") /\ UNCHANGED job /\ UNCHANGED taskVars
      BY <2>3, <3>1, <3>4, Zenon DEF goto, taskVars
    <3> QED BY <2>5, <3>2, <3>3, <3>4, Zenon DEF HandleActorMessage
  <2>6. CASE HandleNodeMessage(s)
    <3>1. received(s, "request") /\ Kind[Head(wire[s]).req] = "node"
      BY <2>6, Zenon DEF HandleNodeMessage
    <3>2. CASE spawn(s, Head(wire[s]).req, "creating")
      <4>1. /\ pc' = [pc EXCEPT ![s] = "loop"] /\ job' = job
            /\ \E v \in {"forward", "reply", "creating"} :
                 task' = [task EXCEPT ![Head(wire[s]).req] = v]
        BY <3>2 DEF spawn, goto
      <4> QED BY <2>3, <3>1, <3>2, <4>1, Zenon
    <3>3. CASE goto(s, "asking") /\ job' = [job EXCEPT ![s] = Head(wire[s])] /\ UNCHANGED taskVars
      <4>1. /\ pc' = [pc EXCEPT ![s] = "asking"] /\ task' = task
            /\ \A u \in Sides \ {s} : job'[u] = job[u]
        BY <3>3 DEF goto, taskVars, SInv, Types
      <4> QED BY <2>3, <3>1, <3>3, <4>1, Zenon
    <3>4. CASE startSend(s, msg("response", Head(wire[s]).req, Head(wire[s]).tag))
               /\ UNCHANGED taskVars
      <4>1. /\ pc' = [pc EXCEPT ![s] = "sending"] /\ task' = task
            /\ \A u \in Sides \ {s} : job'[u] = job[u]
        BY <3>4, Zenon DEF startSend, goto, taskVars, SInv, Types
      <4> QED BY <2>3, <3>1, <4>1, Zenon
    <3> QED BY <2>6, <3>2, <3>3, <3>4, Zenon DEF HandleNodeMessage
  <2> QED BY <2>2, <2>4, <2>5, <2>6 DEF Inbound

\* What the session sends comes to the other side, which has not seen it.
<1>LowerSendOk.
    ASSUME SInv, PathInv, Later, NEW s \in Sides, SendOk(s)
    PROVE  Lower'
  <2> USE <1>LowerSendOk
  <2>1. PICK p \in Sides : p = Peer(s) /\ Peer(p) = s /\ p # s
    BY Peers
  <2>2. /\ pc[s] = "sending" /\ pc' = [pc EXCEPT ![s] = "loop"]
        /\ wire' = [wire EXCEPT ![p] = Append(wire[p], job[s])]
        /\ job' = [job EXCEPT ![s] = noJob]
        /\ UNCHANGED <<inbox, handling, task>>
    BY <2>1, Zenon DEF SendOk, goto, actorVars, taskVars
  <2>3. /\ wire'[p] = Append(wire[p], job[s]) /\ \A u \in Sides \ {p} : wire'[u] = wire[u]
        /\ wire[p] \in Seq(Msg) /\ job[s] \in Msg
    BY <2>2, Zenon DEF SInv, Types
  <2>4. taken(s)' = {} /\ taken(s) = {} /\ taken(p)' = taken(p)
    BY <2>1, <2>2, Zenon DEF taken, SInv, Types
  <2>5. job[s].type = "request" => /\ job[s].req \in Requests /\ status[job[s].req] = "sending"
                                   /\ Origin[job[s].req] = s
                                   /\ status'[job[s].req] \notin Early
    <3> SUFFICES ASSUME job[s].type = "request"
                 PROVE  /\ job[s].req \in Requests /\ status[job[s].req] = "sending"
                        /\ Origin[job[s].req] = s
                        /\ status'[job[s].req] \notin Early
      BY SMTT(20)
    <3>1. job[s].req \in at(s, {"sending"})
      BY <2>2, Zenon DEF SInv, Placed, current
    <3>2. job[s].req \in Requests /\ status[job[s].req] = "sending" /\ Origin[job[s].req] = s
      BY <3>1 DEF at
    <3>3. \/ status' = [status EXCEPT ![job[s].req] = "sent"]
          \/ status' = [closed(owners(s, {job[s].tag})) EXCEPT ![job[s].req] = "pending"]
      BY ZenonT(20) DEF SendOk
    <3>4. status'[job[s].req] \in {"sent", "pending"}
      BY <3>2, <3>3, SMTT(20) DEF closed, SInv, Types
    <3> QED BY <3>2, <3>4, Zenon DEF Early
  <2>6. job[s].type = "request" => /\ task[job[s].req] = "none"
                                   /\ job[s].req \notin reqs(wire[p]) \cup taken(p)
    <3>1. \A r \in reqs(wire[p]) \cup taken(p) : status[r] \notin Early
      BY Zenon DEF PathInv, Fresh
    <3>2. \A r \in Requests : task[r] # "none" => status[r] \notin Early
      BY SMTT(20) DEF PathInv, Tasks
    <3> QED BY <2>5, <3>1, <3>2, ZenonT(20) DEF Early
  <2>7. /\ once(wire'[p])
        /\ reqs(wire'[p]) =
             reqs(wire[p]) \cup (IF job[s].type = "request" THEN {job[s].req} ELSE {})
    <3>1. once(wire[p])
      BY Zenon DEF PathInv, Fresh
    <3> QED BY <2>3, <2>6, <3>1, Appended, ZenonT(30)
  <2>8. Tasks'
    BY <2>2, Zenon DEF PathInv, Tasks, Later
  <2>9. Fresh(s)'
    <3>1. wire'[s] = wire[s] /\ once(wire[s]) /\ taken(s)' \cap reqs(wire[s]) = {}
      BY <2>1, <2>3, <2>4, SMTT(20) DEF PathInv, Fresh
    <3> QED BY <2>2, <2>4, <3>1, <1>FreshKept, Zenon
  <2>10. Fresh(p)'
    <3>1. taken(p) \cap reqs(wire[p]) = {}
      BY Zenon DEF PathInv, Fresh
    <3>2. taken(p)' \cap reqs(wire'[p]) = {}
      BY <2>4, <2>6, <2>7, <3>1, Zenon
    <3>3. ASSUME NEW r \in reqs(wire'[p]) \cup taken(p)'
          PROVE  task'[r] = "none" /\ status'[r] \notin Early
      <4>1. CASE r \in reqs(wire[p]) \cup taken(p)
        <5>1. r \in Requests /\ task[r] = "none" /\ status[r] \notin Early
          BY <4>1, Apart, ZenonT(20) DEF PathInv, Fresh
        <5> QED BY <2>2, <5>1, ZenonT(20) DEF Later
      <4>2. CASE job[s].type = "request" /\ r = job[s].req
        BY <2>2, <2>5, <2>6, <4>2, Zenon
      <4> QED BY <2>4, <2>7, <4>1, <4>2, ZenonT(20)
    <3> QED BY <2>7, <3>2, <3>3, Zenon DEF Fresh
  <2>11. ASSUME NEW u \in Sides PROVE Serves(u)'
    BY <2>2, <1>ServesKept, Zenon
  <2>12. \A u \in Sides : u = s \/ u = p
    BY <2>1, Peers
  <2> QED BY <2>8, <2>9, <2>10, <2>11, <2>12, Zenon DEF Lower

<1>LowerLink.
    ASSUME SInv, PathInv, Later, LinkFail
    PROVE  Lower'
  <2> USE <1>LowerLink
  <2>1. /\ UNCHANGED <<inbox, handling, task, pc, job>>
        /\ \A u \in Sides : wire'[u] = <<>>
    BY DEF LinkFail, actorVars, taskVars, sessionVars
  <2>2. Tasks'
    BY <2>1, Zenon DEF PathInv, Tasks, Later
  <2>3. ASSUME NEW u \in Sides PROVE Fresh(u)' /\ Serves(u)'
    <3>1. taken(u)' = taken(u) /\ once(wire'[u]) /\ reqs(wire'[u]) = {}
      BY <2>1, EmptyQueue, Zenon DEF taken
    <3>2. Fresh(u)'
      BY <2>1, <3>1, <1>FreshKept, Zenon
    <3>3. Serves(u)'
      BY <2>1, <1>ServesKept, Zenon
    <3> QED BY <3>2, <3>3, SMTT(20)
  <2> QED BY <2>2, <2>3, Zenon DEF Lower

\* The other steps of a session.
<1>LowerSession.
    ASSUME SInv, PathInv, Later, NEW s \in Sides, Outbound(s) \/ Step(s)
    PROVE  Lower'
  <2> USE <1>LowerSession
  <2>1. CASE SendOk(s)
    BY <2>1, <1>LowerSendOk
  <2>2. CASE Forward(s) /\ task' # task
    <3>1. /\ pc[s] = "forward" /\ pc' = [pc EXCEPT ![s] = "loop"]
          /\ task' = [task EXCEPT ![job[s].req] = "waiting"]
          /\ inbox' = [inbox EXCEPT ![s] = Append(inbox[s], job[s].req)]
          /\ job' = [job EXCEPT ![s] = noJob]
          /\ UNCHANGED <<wire, handling>>
      BY <2>2, Zenon DEF Forward, deliver, goto, linkVars
    <3>2. job[s].req \in Requests /\ Origin[job[s].req] = Peer(s)
      <4>1. job[s].req \in taken(s)
        BY <3>1, Zenon DEF taken
      <4> QED BY <4>1, Apart, Zenon
    <3>3. \A u \in Sides \ {s} : job'[u] = job[u]
      BY <3>1, Zenon DEF SInv, Types
    <3> QED BY <3>1, <3>2, <3>3, <1>Delivered, Zenon
  <2>3. CASE ~SendOk(s) /\ ~(Forward(s) /\ task' # task)
    <3>1. UNCHANGED <<wire, inbox, handling, task>>
      <4>1. CASE Outbound(s)
        BY <4>1, ZenonT(20) DEF Outbound, HandleRequest, HandleOther, linkVars, actorVars,
                      taskVars
      <4>2. CASE Top(s) \/ SendFail(s) \/ ActorMgrReply(s) \/ Leave(s) \/ Close(s)
        BY <4>2, Zenon DEF Top, SendFail, ActorMgrReply, Leave, Close, linkVars, actorVars,
                      taskVars
      <4>3. CASE Forward(s) /\ task' = task
        <5>1. wire' = wire /\ handling' = handling
          BY <4>3, Zenon DEF Forward, linkVars
        <5>2. inbox' = inbox
          <6> SUFFICES ASSUME task' = [task EXCEPT ![job[s].req] = "waiting"], pc[s] = "forward"
                       PROVE  FALSE
            BY <4>3, Zenon DEF Forward
          <6>1. job[s].req \in taken(s)
            BY Zenon DEF taken
          <6>2. job[s].req \in Requests /\ task[job[s].req] = "none"
            BY <6>1, Apart, Zenon DEF PathInv, Fresh
          <6>3. task'[job[s].req] = "waiting"
            BY <6>2, Zenon DEF PathInv, Tasks
          <6> QED BY <4>3, <6>2, <6>3, Zenon
        <5> QED BY <4>3, <5>1, <5>2, Zenon
      <4> QED BY <2>3, <4>1, <4>2, <4>3 DEF Step
    <3>2. PICK w \in {"loop", "select", "sending", "closing", "ended"} :
            /\ pc' = [pc EXCEPT ![s] = w]
            /\ job' = job \/ \E m : job' = [job EXCEPT ![s] = m]
      <4>1. CASE Outbound(s)
        BY <4>1, ZenonT(20) DEF Outbound, HandleRequest, HandleOther, startSend, goto
      <4>2. CASE Step(s)
        BY <2>3, <4>2, Zenon DEF Step, Top, SendFail, ActorMgrReply, Forward, Leave, Close,
                      startSend, goto
      <4> QED BY <4>1, <4>2
    <3>3. ASSUME NEW u \in Sides PROVE taken(u)' \subseteq taken(u)
      <4>1. CASE u = s
        <5>1. pc'[u] = w
          BY <3>2, <4>1, SMTT(20) DEF SInv, Types
        <5> QED BY <5>1, Zenon DEF taken
      <4>2. CASE u # s
        <5>1. pc'[u] = pc[u] /\ job'[u] = job[u]
          BY <3>2, <4>2, Zenon DEF SInv, Types
        <5> QED BY <5>1, Zenon DEF taken
      <4> QED BY <4>1, <4>2, SMTT(20)
    <3> QED BY <3>1, <3>3, <1>Quiet, Zenon
  <2> QED BY <2>1, <2>2, <2>3, Zenon

<1>LowerTask.
    ASSUME SInv, PathInv, Later, NEW r \in Requests,
           TaskForward(r) \/ TaskCreated(r) \/ TaskReply(r)
    PROVE  Lower'
  <2> USE <1>LowerTask
  <2>1. UNCHANGED <<wire, pc, job, handling>>
    BY Zenon DEF TaskForward, TaskCreated, TaskReply, linkVars, sessionVars, actorVars
  <2>2. CASE TaskForward(r) /\ deliver(Peer(Origin[r]), r) /\ task' = [task EXCEPT ![r] = "waiting"]
    <3>1. PICK s \in Sides : s = Peer(Origin[r]) /\ Origin[r] = Peer(s)
      BY Peers, SessionAssumption
    <3>2. task[r] = "forward" /\ inbox' = [inbox EXCEPT ![s] = Append(inbox[s], r)]
      BY <2>2, <3>1, Zenon DEF TaskForward, deliver
    <3> QED BY <2>1, <2>2, <3>1, <3>2, <1>Delivered, Zenon
  <2>3. CASE ~(deliver(Peer(Origin[r]), r) /\ task' = [task EXCEPT ![r] = "waiting"])
    <3>1. /\ task[r] \in {"forward", "creating", "reply"} /\ inbox' = inbox
          /\ \E v \in TaskPCs : task' = [task EXCEPT ![r] = v]
      BY <2>3, Zenon DEF TaskForward, TaskCreated, TaskReply, actorVars, TaskPCs
    <3> QED BY <2>1, <3>1, <1>TaskMoves, Zenon
  <2>4. CASE TaskCreated(r) \/ TaskReply(r)
    <3>1. /\ task[r] \in {"forward", "creating", "reply"} /\ inbox' = inbox
          /\ \E v \in TaskPCs : task' = [task EXCEPT ![r] = v]
      BY <2>4, Zenon DEF TaskCreated, TaskReply, actorVars, TaskPCs
    <3> QED BY <2>1, <3>1, <1>TaskMoves, Zenon
  <2> QED BY <2>2, <2>3, <2>4

<1>LowerClient.
    ASSUME SInv, PathInv, Later,
           \/ \E s \in Sides : Signal(s) \/ TimerSend(s)
           \/ \E r \in Requests : Submit(r) \/ Refuse(r) \/ Abandon(r) \/ Age(r)
    PROVE  Lower'
  <2> USE <1>LowerClient
  <2>1. UNCHANGED <<wire, pc, job, inbox, handling, task>>
    BY Zenon DEF Signal, TimerSend, Submit, Refuse, Abandon, Age, linkVars, sessionVars,
                 actorVars,
           taskVars
  <2>2. \A u \in Sides : taken(u)' \subseteq taken(u)
    BY <2>1 DEF taken
  <2> QED BY <2>1, <2>2, <1>Quiet

<1> SUFFICES ASSUME SInv, PathInv, Next
             PROVE  Lower'
  OBVIOUS
<1>1. Later
  BY <1>LaterStep
<1>2. ASSUME NEW s \in Sides,
             Inbound(s) \/ Outbound(s) \/ Step(s) \/ ActorRecv(s) \/ ActorReply(s) \/ ActorStop(s)
      PROVE  Lower'
  BY <1>1, <1>2, <1>LowerInbound, <1>LowerSession, <1>ActorSteps, Zenon
<1>3. ASSUME NEW r \in Requests, TaskForward(r) \/ TaskCreated(r) \/ TaskReply(r)
      PROVE  Lower'
  BY <1>1, <1>3, <1>LowerTask, Zenon
<1>4. ASSUME LinkFail
      PROVE  Lower'
  BY <1>1, <1>4, <1>LowerLink, Zenon
<1> QED BY <1>1, <1>2, <1>3, <1>4, <1>LowerClient, Zenon DEF Next

LEMMA ActorsStep ==
  ASSUME SInv, PathInv, Next
  PROVE  Actors'
<1>0. Actors
  BY DEF PathInv
<1>1. CASE UNCHANGED <<inbox, handling>>
  BY <1>0, <1>1, Zenon DEF Actors
<1>2. ASSUME NEW s \in Sides, NEW r \in Requests, inbox' = [inbox EXCEPT ![s] = Append(inbox[s], r)],
             handling' = handling
      PROVE  Actors'
  <2>1. Append(inbox[s], r) \in Seq(Requests)
    BY <1>0 DEF Actors
  <2> QED BY <1>0, <1>2, <2>1 DEF Actors
<1>3. ASSUME NEW s \in Sides, ActorRecv(s) \/ ActorReply(s) \/ ActorStop(s)
      PROVE  Actors'
  <2>1. inbox[s] # <<>> => Head(inbox[s]) \in Requests /\ Tail(inbox[s]) \in Seq(Requests)
    BY <1>0 DEF Actors
  <2>2. <<>> \in Seq(Requests)
    OBVIOUS
  <2>3. CASE ActorRecv(s)
    BY <1>0, <2>1, <2>3, Zenon DEF Actors, ActorRecv
  <2>4. CASE ActorReply(s)
    BY <1>0, <2>4, Zenon DEF Actors, ActorReply
  <2>5. CASE ActorStop(s)
    BY <1>0, <2>2, <2>5, Zenon DEF Actors, ActorStop
  <2> QED BY <1>3, <2>3, <2>4, <2>5, Zenon
<1>4. ASSUME NEW s \in Sides, Forward(s)
      PROVE  Actors'
  <2>1. job[s].req \in Requests
    <3>1. job[s].req \in taken(s)
      BY <1>4, Zenon DEF Forward, taken
    <3> QED BY <3>1, Apart
  <2>2. handling' = handling
    BY <1>4, Zenon DEF Forward
  <2>3. inbox' = inbox \/ inbox' = [inbox EXCEPT ![s] = Append(inbox[s], job[s].req)]
    BY <1>4, Zenon DEF Forward, deliver
  <2> QED BY <1>1, <1>2, <2>1, <2>2, <2>3, Zenon
<1>5. ASSUME NEW r \in Requests, TaskForward(r)
      PROVE  Actors'
  <2>1. Peer(Origin[r]) \in Sides /\ handling' = handling
    BY <1>5, Peers, SessionAssumption, Zenon DEF TaskForward
  <2>2. \/ inbox' = inbox
        \/ inbox' = [inbox EXCEPT ![Peer(Origin[r])] = Append(inbox[Peer(Origin[r])], r)]
    BY <1>5, Zenon DEF TaskForward, deliver
  <2> QED BY <1>1, <1>2, <2>1, <2>2, Zenon
<1>6. ASSUME NEW s \in Sides, Inbound(s) \/ Outbound(s) \/ (Step(s) /\ ~Forward(s))
      PROVE  UNCHANGED <<inbox, handling>>
  <2>1. CASE Inbound(s)
    BY <2>1, ZenonT(20) DEF Inbound, HandleActorMessage, HandleNodeMessage,
                    HandleMessageResponse, RecvFail,
                actorVars
  <2>2. CASE Outbound(s)
    BY <2>2, Zenon DEF Outbound, HandleRequest, HandleOther, actorVars
  <2>3. CASE Step(s) /\ ~Forward(s)
    BY <2>3 DEF Step, Top, SendOk, SendFail, ActorMgrReply, Leave, Close, actorVars
  <2> QED BY <1>6, <2>1, <2>2, <2>3
<1>7. ASSUME \/ \E s \in Sides : Signal(s) \/ TimerSend(s)
             \/ \E r \in Requests : Submit(r) \/ Refuse(r) \/ Abandon(r) \/ Age(r)
                                    \/ TaskCreated(r) \/ TaskReply(r)
             \/ LinkFail
      PROVE  UNCHANGED <<inbox, handling>>
  BY <1>7, Zenon DEF Signal, TimerSend, Submit, Refuse, Abandon, Age, TaskCreated, TaskReply,
                    LinkFail,
              actorVars
<1> QED BY <1>1, <1>3, <1>4, <1>5, <1>6, <1>7, Zenon DEF Next

LEMMA PathStep ==
  ASSUME SInv, PathInv, [Next]_vars
  PROVE  PathInv'
<1>1. CASE Next
  <2>1. \A u \in Sides : Travels(u)'
    BY <1>1, TravelsStep, Zenon DEF PathInv
  <2>2. Lower' /\ Actors'
    BY <1>1, LowerStep, ActorsStep, Zenon
  <2> QED BY <2>1, <2>2, Zenon DEF Lower, PathInv
<1>2. CASE UNCHANGED vars
  <2>1. UNCHANGED <<pc, job, mailbox, wire, inbox, handling, task, status>>
    BY <1>2, Zenon DEF vars
  <2>2. Tasks' /\ Actors'
    BY <2>1 DEF PathInv, Tasks, Actors
  <2>3. ASSUME NEW u \in Sides PROVE Travels(u)' /\ Fresh(u)' /\ Serves(u)'
    <3>1. taken(u)' = taken(u) /\ served(u)' = served(u)
      BY <2>1 DEF taken, served
    <3>2. Travels(u)'
      BY <2>1, Zenon DEF PathInv, Travels
    <3>3. Fresh(u)'
      BY <2>1, <3>1, Zenon DEF PathInv, Fresh
    <3>4. Serves(u)'
      BY <2>1, <3>1, Zenon DEF PathInv, Serves
    <3> QED BY <3>2, <3>3, <3>4, Zenon
  <2> QED BY <2>2, <2>3, Zenon DEF PathInv
<1> QED BY <1>1, <1>2

\* What travels between two sessions was made by the side it comes from; a request is
\* received at most once, and only then served: it is never on the connection, in a
\* session's hands and with a task or an actor at the same time, whatever fails
\* (connection.send and recv, handle_actor_message, handle_node_message).
THEOREM Path == Spec => []PathInv
<1>1. Init => PathInv
  <2> SUFFICES ASSUME Init
               PROVE  PathInv
    BY Zenon
  <2>1. Tasks /\ Actors
    <3>1. <<>> \in Seq(Requests)
      OBVIOUS
    <3> QED BY <3>1 DEF Init, Tasks, Actors, TaskPCs
  <2>2. ASSUME NEW s \in Sides PROVE Travels(s) /\ Fresh(s) /\ Serves(s)
    <3>1. /\ pc[s] = "loop" /\ wire[s] = <<>> /\ mailbox[s] = <<>> /\ inbox[s] = <<>>
          /\ handling[s] = None
      BY DEF Init
    <3>2. \A S : <<>> \in Seq(S)
      OBVIOUS
    <3>3. taken(s) = {} /\ once(wire[s]) /\ reqs(wire[s]) = {}
      BY <3>1, EmptyQueue, Zenon DEF taken
    <3>4. elems(inbox[s]) = {} /\ distinct(inbox[s]) /\ served(s) = {}
      <4>1. Len(<<>>) = 0
        OBVIOUS
      <4> QED BY <3>1, <4>1 DEF elems, distinct, served
    <3> QED BY <3>1, <3>2, <3>3, <3>4, Zenon DEF Travels, Fresh, Serves
  <2> QED BY <2>1, <2>2 DEF PathInv
<1> QED BY <1>1, PathStep, Invariant, PTL DEF Spec

=============================================================================
