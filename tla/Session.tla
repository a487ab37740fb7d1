------------------------------ MODULE Session ------------------------------
(***************************************************************************)
(* Two Session actors at the ends of one IPC connection: the requests that *)
(* each forwards to its peer, the tags and reply channels it keeps for     *)
(* them, the sweep that gives up on old ones, the tasks that serve inbound *)
(* requests, and the end of a session (acktor-ipc/src/session.rs,          *)
(* session/context.rs, session/proxy.rs; acktor/src/address/remote.rs).    *)
(*                                                                         *)
(* A session runs one handler at a time.  While it waits in connection.send*)
(* or for the mailbox of a local actor it neither receives nor sweeps.     *)
(*                                                                         *)
(* Taking a slot of a session's mailbox and pushing the message are one    *)
(* step here.  What becomes of a message whose slot was taken before the   *)
(* mailbox went is in Address, where such a message is stranded.           *)
(***************************************************************************)
EXTENDS Naturals, Sequences

CONSTANTS
  Requests,  \* the requests handed to either session
  Origin,    \* Origin[r]: the side on which r is made
  Kind,      \* Kind[r]: how r is made
  TagSpace,  \* number of tags, 2^64 in the code
  MailCap,   \* capacity of a session's mailbox
  InboxCap,  \* capacity of the mailbox of the actor that the requests are for
  WireCap,   \* messages the transport holds in one direction
  Faults     \* what may go wrong: <<"stop", s>> a session is stopped, <<"end", s>> the
             \* local actor ends, <<"drop", r>> the maker of a request drops the
             \* receiver of the reply, <<"link">> the connection breaks,
             \* <<"refuse", r>> a message about r may be refused while the connection
             \* works, <<"hang", s>> a handler of the local actor may never return

Sides == {"a", "b"}

Peer(s) == IF s = "a" THEN "b" ELSE "a"

\* RemoteAddress::send, RemoteAddress::do_send, and the commands RemoteGetActor and
\* RemoteCreateActor.
Kinds == {"send", "do_send", "node"}

None == "none"

ASSUME SessionAssumption ==
  /\ None \notin Requests
  /\ Origin \in [Requests -> Sides]
  /\ Kind \in [Requests -> Kinds]
  /\ TagSpace \in Nat \ {0}
  /\ MailCap \in Nat \ {0}
  /\ InboxCap \in Nat \ {0}
  /\ WireCap \in Nat \ {0}

Tags == 0 .. TagSpace - 1

\* The messages of a mailbox and of the connection.  req says which request a
\* message is about; a response carries only the tag.
Message ==
  [type : {"request", "response", "cleanup", "signal"},
   req : Requests \cup {None}, tag : Tags]

msg(type, r, t) == [type |-> type, req |-> r, tag |-> t]

\* At the top of run_loop, in its select!, in connection.send, in do_send to a local
\* actor, waiting for the ActorMgr, in post_stop, and over.
PCs == {"loop", "select", "sending", "forward", "asking", "closing", "ended"}

\* A request whose reply sender is in the map, for less and for more than
\* RESPONSE_TIMEOUT; and one with which the session is done.
Waiting == {"pending", "overdue"}

Settled == {"sent", "answered", "failed", "expired", "closed", "rejected"}

\* What has become of a request on the side of its target.
TaskPCs == {"none", "forward", "waiting", "creating", "reply", "done"}

VARIABLES
  pc,         \* where each session is
  running,    \* whether its context's state is Running
  job,        \* the message it is sending, forwarding or asking about
  mailbox,    \* its mailbox
  cleanup,    \* SessionContext::require_cleanup
  timer,      \* whether the task that sends the next RequireCleanup exists
  tag,        \* Session::tag
  res_tx,     \* Session::message_res_tx_map, as the request of each tag
  wire,       \* the messages on their way to each side
  link,       \* whether the connection works
  shut,       \* the sides that have closed their end
  inbox,      \* the mailbox of the local actor
  handling,   \* the request that actor is handling
  actorOpen,  \* whether that actor still runs
  task,       \* the task spawned for each inbound request
  inTag,      \* the tag that came with it
  status,     \* what the maker of each request knows
  abandoned,  \* requests whose reply receiver was dropped
  issued      \* history: the do_sends each side has queued, in order

sessionVars == <<pc, running, job, cleanup, tag, res_tx>>
linkVars == <<wire, link, shut>>
actorVars == <<inbox, handling, actorOpen>>
taskVars == <<task, inTag>>
clientVars == <<status, abandoned, issued>>
vars == <<pc, running, job, mailbox, cleanup, timer, tag, res_tx, wire, link, shut,
          inbox, handling, actorOpen, task, inTag, status, abandoned, issued>>

\* Each variable keeps to its values; in particular tags wrap around (Session,
\* SessionContext).
TypeOK ==
  /\ pc \in [Sides -> PCs]
  /\ running \in [Sides -> BOOLEAN]
  /\ job \in [Sides -> Message]
  /\ mailbox \in [Sides -> Seq(Message)]
  /\ cleanup \in [Sides -> BOOLEAN]
  /\ timer \in [Sides -> BOOLEAN]
  /\ tag \in [Sides -> Tags]
  /\ res_tx \in [Sides -> [Tags -> Requests \cup {None}]]
  /\ wire \in [Sides -> Seq(Message)]
  /\ link \in {"up", "down"}
  /\ shut \in SUBSET Sides
  /\ inbox \in [Sides -> Seq(Requests)]
  /\ handling \in [Sides -> Requests \cup {None}]
  /\ actorOpen \in [Sides -> BOOLEAN]
  /\ task \in [Requests -> TaskPCs]
  /\ inTag \in [Requests -> Tags]
  /\ status \in [Requests -> Settled \cup {"idle", "queued", "sending"} \cup Waiting]
  /\ abandoned \in SUBSET Requests
  /\ issued \in [Sides -> Seq(Requests)]

noJob == msg("signal", None, 0)

\* Session::new and SessionContext::with_capacity, after post_start.
Init ==
  /\ pc = [s \in Sides |-> "loop"]
  /\ running = [s \in Sides |-> TRUE]
  /\ job = [s \in Sides |-> noJob]
  /\ mailbox = [s \in Sides |-> <<>>]
  /\ cleanup = [s \in Sides |-> TRUE]
  /\ timer = [s \in Sides |-> FALSE]
  /\ tag = [s \in Sides |-> 0]
  /\ res_tx = [s \in Sides |-> [t \in Tags |-> None]]
  /\ wire = [s \in Sides |-> <<>>]
  /\ link = "up"
  /\ shut = {}
  /\ inbox = [s \in Sides |-> <<>>]
  /\ handling = [s \in Sides |-> None]
  /\ actorOpen = [s \in Sides |-> TRUE]
  /\ task = [r \in Requests |-> "none"]
  /\ inTag = [r \in Requests |-> 0]
  /\ status = [r \in Requests |-> "idle"]
  /\ abandoned = {}
  /\ issued = [s \in Sides |-> <<>>]

-----------------------------------------------------------------------------
(* Mailboxes of the sessions, and those who send to them.                   *)

\* The mailbox of the session exists.
Open(s) == pc[s] \notin {"closing", "ended"}

enqueue(s, m) ==
  /\ Open(s)
  /\ Len(mailbox[s]) < MailCap
  /\ mailbox' = [mailbox EXCEPT ![s] = Append(@, m)]

\* The maker of a request hands it to the session, through Proxy::do_send or as a
\* command.
Submit(r) ==
  /\ status[r] = "idle"
  /\ enqueue(Origin[r], msg("request", r, 0))
  /\ status' = [status EXCEPT ![r] = "queued"]
  /\ issued' = IF Kind[r] = "do_send"
               THEN [issued EXCEPT ![Origin[r]] = Append(@, r)]
               ELSE issued
  /\ UNCHANGED <<sessionVars, timer, linkVars, actorVars, taskVars, abandoned>>

\* The session is gone: SendError::Closed.
Refuse(r) ==
  /\ status[r] = "idle"
  /\ ~Open(Origin[r])
  /\ status' = [status EXCEPT ![r] = "rejected"]
  /\ UNCHANGED <<sessionVars, mailbox, timer, linkVars, actorVars, taskVars,
                 abandoned, issued>>

\* The maker drops the receiver of the reply.  For a command that the session has
\* taken up this changes nothing: the handler has its own channel.
Abandon(r) ==
  /\ <<"drop", r>> \in Faults
  /\ CASE Kind[r] = "send" -> status[r] \in {"queued", "sending"} \cup Waiting
       [] Kind[r] = "node" -> status[r] = "queued"
       [] OTHER -> FALSE
  /\ r \notin abandoned
  /\ abandoned' = abandoned \cup {r}
  /\ UNCHANGED <<sessionVars, mailbox, timer, linkVars, actorVars, taskVars, status, issued>>

\* decode_res drops the raw receiver with the caller's; the future that waits for
\* the answer to a command keeps its own.
tx_is_closed(r) == r \in abandoned /\ Kind[r] = "send"

\* RESPONSE_TIMEOUT has passed since the request was sent.
Age(r) ==
  /\ status[r] = "pending"
  /\ status' = [status EXCEPT ![r] = "overdue"]
  /\ UNCHANGED <<sessionVars, mailbox, timer, linkVars, actorVars, taskVars, abandoned,
                 issued>>

\* Node::post_stop, or anyone with the session's address, stops it.  One signal in the
\* mailbox at a time is enough: the first ends the loop.
Signal(s) ==
  /\ <<"stop", s>> \in Faults
  /\ running[s]
  /\ \A i \in DOMAIN mailbox[s] : mailbox[s][i].type # "signal"
  /\ enqueue(s, msg("signal", None, 0))
  /\ UNCHANGED <<sessionVars, timer, linkVars, actorVars, taskVars, clientVars>>

\* The cleanup task has slept for CLEANUP_INTERVAL and sends RequireCleanup.
TimerSend(s) ==
  /\ timer[s]
  /\ \/ enqueue(s, msg("cleanup", None, 0))
     \/ ~Open(s) /\ UNCHANGED mailbox
  /\ timer' = [timer EXCEPT ![s] = FALSE]
  /\ UNCHANGED <<sessionVars, linkVars, actorVars, taskVars, clientVars>>

-----------------------------------------------------------------------------
(* SessionContext::run_loop.                                                *)

goto(s, where) == pc' = [pc EXCEPT ![s] = where]

\* The requests on side s whose reply sender is in the set of tags.
owners(s, tags) == {res_tx[s][t] : t \in tags} \ {None}

\* The session drops the reply senders of these requests.
closed(rs) == [r \in Requests |-> IF r \in rs THEN "closed" ELSE status[r]]

\* Mutant: only the requests that nobody waits for are swept.
SweepClosedOnly(s) ==
  LET gone == {r \in owners(s, Tags) : tx_is_closed(r)} IN
  /\ status' = closed(gone)
  /\ res_tx' = [res_tx EXCEPT ![s] =
                  [t \in Tags |-> IF @[t] \in gone THEN None ELSE @[t]]]

\* Mutant: the swept requests are told and stay in the map.
SweepKeeps(s) ==
  LET gone == {r \in owners(s, Tags) : tx_is_closed(r) \/ status[r] = "overdue"} IN
  /\ status' = [r \in Requests |->
                  IF r \notin gone THEN status[r]
                  ELSE IF tx_is_closed(r) THEN "closed" ELSE "expired"]
  /\ UNCHANGED res_tx

\* Session::cleanup_message_res_tx_map.
cleanup_message_res_tx_map(s) ==
  LET gone == {r \in owners(s, Tags) : tx_is_closed(r) \/ status[r] = "overdue"} IN
  /\ status' = [r \in Requests |->
                  IF r \notin gone THEN status[r]
                  ELSE IF tx_is_closed(r) THEN "closed" ELSE "expired"]
  /\ res_tx' = [res_tx EXCEPT ![s] =
                  [t \in Tags |-> IF @[t] \in gone THEN None ELSE @[t]]]

\* The top of the loop of a running session: sweep when it is time to, and let a
\* task ask for the next sweep.
Top(s) ==
  /\ pc[s] = "loop"
  /\ running[s]
  /\ goto(s, "select")
  /\ IF cleanup[s]
     THEN /\ cleanup_message_res_tx_map(s)
          /\ cleanup' = [cleanup EXCEPT ![s] = FALSE]
          /\ timer' = [timer EXCEPT ![s] = TRUE]
     ELSE UNCHANGED <<status, res_tx, cleanup, timer>>
  /\ UNCHANGED <<running, job, mailbox, tag, linkVars, actorVars, taskVars, abandoned, issued>>

\* The session starts to send m to its peer.
startSend(s, m) ==
  /\ goto(s, "sending")
  /\ job' = [job EXCEPT ![s] = m]

\* Mutant: every request gets the same tag.
SameTag(s) == UNCHANGED tag

\* Session::next_tag.
next_tag(s) == tag' = [tag EXCEPT ![s] = (@ + 1) % TagSpace]

\* The handlers of BinaryMessage, RemoteCreateActor and RemoteGetActor up to
\* connection.send.  The envelope of a command is skipped when its maker has gone.
HandleRequest(s) ==
  /\ pc[s] = "select"
  /\ mailbox[s] # <<>>
  /\ Head(mailbox[s]).type = "request"
  /\ mailbox' = [mailbox EXCEPT ![s] = Tail(@)]
  /\ LET r == Head(mailbox[s]).req IN
     IF Kind[r] = "node" /\ r \in abandoned
     THEN /\ status' = [status EXCEPT ![r] = "closed"]
          /\ goto(s, "loop")
          /\ UNCHANGED <<job, tag>>
     ELSE /\ status' = [status EXCEPT ![r] = "sending"]
          /\ startSend(s, msg("request", r, tag[s]))
          /\ IF Kind[r] = "do_send" THEN UNCHANGED tag ELSE next_tag(s)
  /\ UNCHANGED <<running, cleanup, res_tx, timer, linkVars, actorVars, taskVars,
                 abandoned, issued>>

\* The handler of MessageResponse up to connection.send, and those of
\* RequireCleanup and Signal.
HandleOther(s) ==
  /\ pc[s] = "select"
  /\ mailbox[s] # <<>>
  /\ mailbox' = [mailbox EXCEPT ![s] = Tail(@)]
  /\ \/ /\ Head(mailbox[s]).type = "response"
        /\ startSend(s, Head(mailbox[s]))
        /\ UNCHANGED <<running, cleanup>>
     \/ /\ Head(mailbox[s]).type = "cleanup"
        /\ goto(s, "loop")
        /\ cleanup' = [cleanup EXCEPT ![s] = TRUE]
        /\ UNCHANGED <<running, job>>
     \/ /\ Head(mailbox[s]).type = "signal"
        /\ goto(s, "loop")
        /\ running' = [running EXCEPT ![s] = FALSE]
        /\ UNCHANGED <<cleanup, job>>
  /\ UNCHANGED <<tag, res_tx, timer, linkVars, actorVars, taskVars, clientVars>>

\* connection.send returns: the reply sender of a request goes into the map, where
\* it replaces one with the same tag.
SendOk(s) ==
  LET r == job[s].req
      t == job[s].tag
  IN /\ pc[s] = "sending"
     /\ link = "up"
     /\ Len(wire[Peer(s)]) < WireCap
     /\ wire' = [wire EXCEPT ![Peer(s)] = Append(@, job[s])]
     /\ goto(s, "loop")
     /\ CASE job[s].type = "response" -> UNCHANGED <<status, res_tx>>
          [] job[s].type = "request" /\ Kind[r] = "do_send" ->
               status' = [status EXCEPT ![r] = "sent"] /\ UNCHANGED res_tx
          [] OTHER ->
               /\ status' = [closed(owners(s, {t})) EXCEPT ![r] = "pending"]
               /\ res_tx' = [res_tx EXCEPT ![s][t] = r]
     /\ job' = [job EXCEPT ![s] = noJob]
     /\ UNCHANGED <<running, mailbox, cleanup, tag, timer, link, shut, actorVars,
                    taskVars, abandoned, issued>>

\* send_ipc_message fails, as it does without a connection and may for a message that
\* does not encode or that the transport refuses: the maker of a request gets the
\* error, a response is lost.
SendFail(s) ==
  /\ pc[s] = "sending"
  /\ link = "down" \/ Peer(s) \in shut \/ <<"refuse", job[s].req>> \in Faults
  /\ goto(s, "loop")
  /\ status' = IF job[s].type = "request"
               THEN [status EXCEPT ![job[s].req] = "failed"] ELSE status
  /\ job' = [job EXCEPT ![s] = noJob]
  /\ UNCHANGED <<running, mailbox, cleanup, tag, res_tx, timer, linkVars, actorVars,
                 taskVars, abandoned, issued>>

-----------------------------------------------------------------------------
(* What a session does with the messages of its peer.                       *)

\* connection.recv returns the oldest message of the given type.
received(s, type) ==
  /\ pc[s] = "select"
  /\ link = "up"
  /\ wire[s] # <<>>
  /\ Head(wire[s]).type = type
  /\ wire' = [wire EXCEPT ![s] = Tail(@)]
  /\ UNCHANGED <<link, shut>>

\* A task takes over the inbound request r.
spawn(s, r, where) ==
  /\ task' = [task EXCEPT ![r] = where]
  /\ inTag' = [inTag EXCEPT ![r] = Head(wire[s]).tag]
  /\ goto(s, "loop")
  /\ UNCHANGED job

\* Mutant: a message that needs no answer is forwarded by a task of its own, too.
SpawnActorMessage(s) ==
  /\ received(s, "request")
  /\ LET r == Head(wire[s]).req IN
       \/ Kind[r] = "send" /\ \E where \in {"forward", "reply"} : spawn(s, r, where)
       \/ Kind[r] = "do_send" /\ spawn(s, r, "forward")
  /\ UNCHANGED <<running, mailbox, cleanup, tag, res_tx, timer, actorVars, clientVars>>

\* Session::handle_actor_message, whose find_mailbox may find no such actor.  A
\* message that needs no answer is forwarded by the session itself.
HandleActorMessage(s) ==
  /\ received(s, "request")
  /\ LET r == Head(wire[s]).req IN
     \/ Kind[r] = "send" /\ \E where \in {"forward", "reply"} : spawn(s, r, where)
     \/ /\ Kind[r] = "do_send"
        /\ \/ /\ goto(s, "forward")
              /\ job' = [job EXCEPT ![s] = Head(wire[s])]
           \/ goto(s, "loop") /\ UNCHANGED job
        /\ UNCHANGED taskVars
  /\ UNCHANGED <<running, mailbox, cleanup, tag, res_tx, timer, actorVars, clientVars>>

\* Session::handle_node_message: CreateActor is left to a task, GetActor by index is
\* answered at once, and by label after the ActorMgr has been asked.
HandleNodeMessage(s) ==
  /\ received(s, "request")
  /\ LET r == Head(wire[s]).req IN
     /\ Kind[r] = "node"
     /\ \/ spawn(s, r, "creating")
        \/ startSend(s, msg("response", r, Head(wire[s]).tag)) /\ UNCHANGED taskVars
        \/ /\ goto(s, "asking")
           /\ job' = [job EXCEPT ![s] = Head(wire[s])]
           /\ UNCHANGED taskVars
  /\ UNCHANGED <<running, mailbox, cleanup, tag, res_tx, timer, actorVars, clientVars>>

\* The ActorMgr answers, or is gone.
ActorMgrReply(s) ==
  /\ pc[s] = "asking"
  /\ startSend(s, msg("response", job[s].req, job[s].tag))
  /\ UNCHANGED <<running, mailbox, cleanup, tag, res_tx, timer, linkVars, actorVars,
                 taskVars, clientVars>>

\* Mutant: the reply sender is used and left in the map, as a channel that is not a
\* oneshot would allow.
RespondAndKeep(s) ==
  LET r == res_tx[s][Head(wire[s]).tag]
  IN /\ received(s, "response")
     /\ goto(s, "loop")
     /\ status' = IF r = None THEN status ELSE [status EXCEPT ![r] = "answered"]
     /\ UNCHANGED <<running, job, mailbox, cleanup, tag, res_tx, timer, actorVars,
                    taskVars, abandoned, issued>>

\* Session::handle_message_response: a tag that is not in the map is ignored.
HandleMessageResponse(s) ==
  LET t == Head(wire[s]).tag
      r == res_tx[s][t]
  IN /\ received(s, "response")
     /\ goto(s, "loop")
     /\ res_tx' = [res_tx EXCEPT ![s][t] = None]
     /\ status' = IF r = None THEN status
                  ELSE [status EXCEPT ![r] = IF tx_is_closed(r) THEN "closed"
                                                               ELSE "answered"]
     /\ UNCHANGED <<running, job, mailbox, cleanup, tag, timer, actorVars, taskVars,
                    abandoned, issued>>

\* connection.recv fails: the session stops.
RecvFail(s) ==
  /\ pc[s] = "select"
  /\ link = "down" \/ (wire[s] = <<>> /\ Peer(s) \in shut)
  /\ goto(s, "loop")
  /\ running' = [running EXCEPT ![s] = FALSE]
  /\ UNCHANGED <<job, mailbox, cleanup, tag, res_tx, timer, linkVars, actorVars,
                 taskVars, clientVars>>

-----------------------------------------------------------------------------
(* Forwarding to the local actor, and the tasks that wait for its answers.  *)

deliver(s, r) ==
  /\ actorOpen[s]
  /\ Len(inbox[s]) < InboxCap
  /\ inbox' = [inbox EXCEPT ![s] = Append(@, r)]

\* The session's own do_send: delivered, or refused because the actor is gone.
Forward(s) ==
  /\ pc[s] = "forward"
  /\ goto(s, "loop")
  /\ \/ /\ deliver(s, job[s].req)
        /\ task' = [task EXCEPT ![job[s].req] = "waiting"]
     \/ ~actorOpen[s] /\ UNCHANGED <<inbox, task>>
  /\ job' = [job EXCEPT ![s] = noJob]
  /\ UNCHANGED <<running, mailbox, cleanup, tag, res_tx, timer, linkVars, handling,
                 actorOpen, inTag, clientVars>>

TaskForward(r) ==
  /\ task[r] = "forward"
  /\ \/ /\ deliver(Peer(Origin[r]), r)
        /\ task' = [task EXCEPT ![r] = "waiting"]
     \/ /\ ~actorOpen[Peer(Origin[r])]
        /\ task' = [task EXCEPT ![r] = "reply"]
        /\ UNCHANGED inbox
  /\ UNCHANGED <<sessionVars, mailbox, timer, linkVars, handling, actorOpen, inTag,
                 clientVars>>

\* The ActorMgr has created the actor, or failed to.
TaskCreated(r) ==
  /\ task[r] = "creating"
  /\ task' = [task EXCEPT ![r] = "reply"]
  /\ UNCHANGED <<sessionVars, mailbox, timer, linkVars, actorVars, inTag, clientVars>>

\* The task sends MessageResponse to its session, which may be over.
TaskReply(r) ==
  /\ task[r] = "reply"
  /\ \/ enqueue(Peer(Origin[r]), msg("response", r, inTag[r]))
     \/ ~Open(Peer(Origin[r])) /\ UNCHANGED mailbox
  /\ task' = [task EXCEPT ![r] = "done"]
  /\ inTag' = [inTag EXCEPT ![r] = 0]
  /\ UNCHANGED <<sessionVars, timer, linkVars, actorVars, clientVars>>

\* The local actor takes its next message.
ActorRecv(s) ==
  /\ handling[s] = None
  /\ inbox[s] # <<>>
  /\ handling' = [handling EXCEPT ![s] = Head(inbox[s])]
  /\ inbox' = [inbox EXCEPT ![s] = Tail(@)]
  /\ UNCHANGED <<sessionVars, mailbox, timer, linkVars, actorOpen, taskVars, clientVars>>

\* The tasks in rs get an answer or see their reply channel close.
answered(rs) ==
  [r \in Requests |-> IF r \notin rs THEN task[r]
                      ELSE IF Kind[r] = "send" THEN "reply" ELSE "done"]

\* Its handler returns.
ActorReply(s) ==
  /\ handling[s] # None
  /\ task' = answered({handling[s]})
  /\ handling' = [handling EXCEPT ![s] = None]
  /\ UNCHANGED <<sessionVars, mailbox, timer, linkVars, inbox, actorOpen, inTag,
                 clientVars>>

\* It stops, and its mailbox is dropped.
ActorStop(s) ==
  /\ <<"end", s>> \in Faults
  /\ actorOpen[s]
  /\ actorOpen' = [actorOpen EXCEPT ![s] = FALSE]
  /\ task' = answered({inbox[s][i] : i \in DOMAIN inbox[s]} \cup ({handling[s]} \ {None}))
  /\ inbox' = [inbox EXCEPT ![s] = <<>>]
  /\ handling' = [handling EXCEPT ![s] = None]
  /\ UNCHANGED <<sessionVars, mailbox, timer, linkVars, inTag, clientVars>>

-----------------------------------------------------------------------------
(* The end of a session, and of the connection.                             *)

\* Mutant: run keeps the mailbox, and with it the requests nobody will take out.
LeaveKeeps(s) ==
  /\ pc[s] = "loop"
  /\ ~running[s]
  /\ goto(s, "closing")
  /\ UNCHANGED <<running, job, mailbox, cleanup, tag, res_tx, timer, linkVars, actorVars,
                 taskVars, clientVars>>

\* The loop is over and run drops the mailbox.
Leave(s) ==
  /\ pc[s] = "loop"
  /\ ~running[s]
  /\ goto(s, "closing")
  /\ status' = closed({mailbox[s][i].req : i \in
                         {j \in DOMAIN mailbox[s] : mailbox[s][j].type = "request"}})
  /\ mailbox' = [mailbox EXCEPT ![s] = <<>>]
  /\ UNCHANGED <<running, job, cleanup, tag, res_tx, timer, linkVars, actorVars,
                 taskVars, abandoned, issued>>

\* Mutant: the session is kept after its end, with the reply senders in it.
CloseKeeps(s) ==
  /\ pc[s] = "closing"
  /\ goto(s, "ended")
  /\ shut' = shut \cup {s}
  /\ UNCHANGED <<running, job, mailbox, cleanup, tag, res_tx, timer, wire, link,
                 actorVars, taskVars, clientVars>>

\* Session::post_stop closes the connection; then the task of the session ends and
\* drops it, with the reply senders it still has.
Close(s) ==
  /\ pc[s] = "closing"
  /\ goto(s, "ended")
  /\ shut' = shut \cup {s}
  /\ status' = closed(owners(s, Tags))
  /\ res_tx' = [res_tx EXCEPT ![s] = [t \in Tags |-> None]]
  /\ UNCHANGED <<running, job, mailbox, cleanup, tag, timer, wire, link, actorVars,
                 taskVars, abandoned, issued>>

\* The connection breaks, and what was on its way is lost.
LinkFail ==
  /\ <<"link">> \in Faults
  /\ link = "up"
  /\ link' = "down"
  /\ wire' = [s \in Sides |-> <<>>]
  /\ UNCHANGED <<sessionVars, mailbox, timer, shut, actorVars, taskVars, clientVars>>

-----------------------------------------------------------------------------
\* The ways in which the select! of a session goes on.
Inbound(s) ==
  HandleActorMessage(s) \/ HandleNodeMessage(s) \/ HandleMessageResponse(s) \/ RecvFail(s)

Outbound(s) == HandleRequest(s) \/ HandleOther(s)

Step(s) ==
  \/ Top(s) \/ SendOk(s) \/ SendFail(s) \/ ActorMgrReply(s) \/ Forward(s)
  \/ Leave(s) \/ Close(s)

Next ==
  \/ \E s \in Sides :
       \/ Inbound(s) \/ Outbound(s) \/ Step(s)
       \/ Signal(s) \/ TimerSend(s)
       \/ ActorRecv(s) \/ ActorReply(s) \/ ActorStop(s)
  \/ \E r \in Requests :
       \/ Submit(r) \/ Refuse(r) \/ Abandon(r) \/ Age(r)
       \/ TaskForward(r) \/ TaskCreated(r) \/ TaskReply(r)
  \/ LinkFail

Spec == Init /\ [][Next]_vars

\* The session waits in connection.send for room in the transport.
blocked(s) ==
  /\ pc[s] = "sending"
  /\ link = "up" /\ Peer(s) \notin shut
  /\ Len(wire[Peer(s)]) >= WireCap

\* Tokio runs every task that can go on, select! chooses at random between its
\* branches, permits go to waiting senders in order, the clock advances, the ActorMgr
\* answers, and the handlers of the local actors return unless Faults says otherwise.
\* A send that finds the transport full may wait.  Weak fairness is enough where only
\* finitely many steps compete.
Fairness ==
  /\ \A s \in Sides :
       /\ SF_vars(Inbound(s)) /\ WF_vars(Outbound(s)) /\ WF_vars(~blocked(s) /\ Step(s))
       /\ WF_vars(TimerSend(s)) /\ WF_vars(ActorRecv(s))
  /\ \A s \in {x \in Sides : <<"hang", x>> \notin Faults} : WF_vars(ActorReply(s))
  /\ \A r \in {q \in Requests : Kind[q] # "do_send"} :
       WF_vars(Age(r)) /\ SF_vars(TaskReply(r))
  /\ \A r \in {q \in Requests : Kind[q] = "send"} : WF_vars(TaskForward(r))
  /\ \A r \in {q \in Requests : Kind[q] = "node"} : WF_vars(TaskCreated(r))

FairSpec == Spec /\ Fairness

-----------------------------------------------------------------------------
(* Properties.                                                              *)

\* A request waits for its answer exactly when its reply sender is in the map of its
\* session, under one tag (SendOk's insert, the sweep, handle_message_response).
PendingTracked ==
  \A r \in Requests, s \in Sides :
    LET tags == {t \in Tags : res_tx[s][t] = r} IN
    IF status[r] \in Waiting /\ Origin[r] = s THEN \E t \in Tags : tags = {t}
                                             ELSE tags = {}

\* The responses on their way to side s.
responsesTo(s) ==
  {m \in {job[Peer(s)]} \cup {mailbox[Peer(s)][i] : i \in DOMAIN mailbox[Peer(s)]}
         \cup {wire[s][i] : i \in DOMAIN wire[s]} : m.type = "response"}

\* A response never reaches the maker of another request: wherever it is, its tag
\* belongs to the request that was answered or to nobody any more, however late it
\* comes and whatever was swept meanwhile (next_tag, handle_message_response).
ResponseMatches ==
  \A s \in Sides : \A m \in responsesTo(s) : res_tx[s][m.tag] \in {m.req, None}

\* The requests that have not yet reached the mailbox of their target.
inTransit(s) ==
  {r \in Requests : status[r] \in {"queued", "sending"} \/ task[r] = "forward"}
    \cup {wire[s][i].req : i \in DOMAIN wire[s]}
    \cup (IF pc[s] = "forward" THEN {job[s].req} ELSE {})

\* Messages sent with do_send reach the remote actor in the order in which they were
\* queued: when one has arrived, none queued before it is still on its way
\* (handle_actor_message forwards them before it receives the next).
DoSendInOrder ==
  \A s \in Sides : \A i, j \in DOMAIN issued[s] :
    i < j /\ task[issued[s][j]] \in {"waiting", "done"}
      => issued[s][i] \notin inTransit(Peer(s))

\* A request is settled once: an answer that comes after the sweep gave the request
\* up, or after the session dropped it, changes nothing for its maker.
SettledOnce ==
  [][\A r \in Requests : status[r] \in Settled => status'[r] = status[r]]_vars

\* When a session has ended nobody waits for it: the requests in its mailbox and those
\* that it had sent are closed, whatever the peer does (run, Session::post_stop).  A
\* request that is pushed after the end, with a slot taken before it, is not among
\* them (Address).
EndReleases ==
  \A r \in Requests :
    pc[Origin[r]] = "ended" => status[r] \notin {"queued", "sending"} \cup Waiting

\* The session waits for the mailbox of a local actor, which is full.
starved(s) == pc[s] = "forward" /\ actorOpen[s] /\ Len(inbox[s]) >= InboxCap

\* The session waits in a handler, where it neither receives nor sweeps: for an actor
\* that does not read its mailbox, or for room in the transport while its peer waits, too.
stuck(s) == starved(s) \/ (blocked(s) /\ (blocked(Peer(s)) \/ starved(Peer(s))))

\* Whoever waits for the answer to a request is told something in the end, answer, error,
\* timeout or closed channel, unless the session is stuck for ever.  Two sessions that
\* fill the transport in both directions are, and RESPONSE_TIMEOUT does not help then,
\* since the loop that waits is the one that sweeps (send_ipc_message,
\* handle_actor_message, run_loop).
RequestsSettle ==
  \A r \in {q \in Requests : Kind[q] # "do_send"} :
    \/ status[r] = "queued" ~> status[r] \in Settled
    \/ <>[]stuck(Origin[r])

-----------------------------------------------------------------------------
(* The contract of RequestReply, and how each session keeps it.             *)

\* The phase that a status stands for.  A request that the session has taken out of
\* its mailbox no longer depends on it.
PhaseOf(v) ==
  CASE v = "idle" -> "new"
    [] v = "queued" -> "accepted"
    [] v \in {"sending"} \cup Waiting -> "detached"
    [] v \in {"sent", "answered"} -> "answered"
    [] v \in {"failed", "expired", "closed"} -> "dropped"
    [] OTHER -> "refused"

requestsOf(s) == {r \in Requests : Origin[r] = s}

phases(s) == [r \in requestsOf(s) |-> PhaseOf(status[r])]

Contract(s) ==
  INSTANCE RequestReply WITH Requests <- requestsOf(s), phase <- phases(s), alive <- Open(s)

\* To those who make requests on its side each session is what an actor is to its
\* senders: it settles every request at most once, accepts none once its mailbox is
\* gone (but for the slots taken before, see Address), and drops in that step all that
\* the mailbox held, whatever the peer and the connection do (SessionContext::run, the handlers of BinaryMessage and of the commands).
KeepsContract ==
  /\ \A s \in Sides : Contract(s)!Init
  /\ [][\A s \in Sides : [Contract(s)!Next]_<<phases(s), Open(s)>>]_vars

=============================================================================
