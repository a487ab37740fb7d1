-------------------------------- MODULE Node --------------------------------
(***************************************************************************)
(* The Node actor: the table of its sessions, its children, the listeners  *)
(* and the accept tasks of NodeContext, the supervision events that its    *)
(* sessions send it, and the observers it tells about sessions             *)
(* (acktor-ipc/src/node.rs, node/context.rs, acktor/src/observer.rs).      *)
(*                                                                         *)
(* pc is where the node's task is: at the top of run_loop, selecting       *)
(* between its mailbox and its accept tasks, or waiting inside a handler.  *)
(***************************************************************************)
EXTENDS Naturals, Sequences, FiniteSets

CONSTANTS
  Sessions,     \* identities for session actors; an actor id is not used again
  Labels,       \* session labels and peer endpoints
  Listeners,    \* local endpoints
  Observers,    \* observers of NodeEvent
  Capacity,     \* capacity of the node's mailbox
  ObsCapacity,  \* capacity of an observer's mailbox
  MaxCommands   \* bound: commands that clients send

None == "none"

ASSUME NodeAssumption ==
  /\ None \notin Labels
  /\ IsFiniteSet(Observers)
  /\ Capacity \in Nat \ {0}
  /\ ObsCapacity \in Nat \ {0}
  /\ MaxCommands \in Nat

\* RemoteCreateActor and RemoteGetActor change nothing in the node and are left
\* to Session; AddActor and RemoveActor ("Ask") wait for ActorMgr.
Commands ==
  ({"AddListener", "RemoveListener"} \X Listeners) \cup ({"Connect"} \X Labels)
  \cup ({"Register", "Unregister"} \X Observers) \cup {<<"Ask", None>>, <<"Stop", None>>}

SupervisionEvents == {"State", "Terminated", "Panicked"} \X Sessions

NodeEvents == {"SessionCreated", "SessionDeleted"} \X Sessions

\* What became of a call of IpcListener::accept.
Accepts == {"waiting", "ok", "err", "panic"}

VARIABLES
  pc,               \* where the node's task is
  state,            \* NodeContext::state
  mailbox,          \* the node's mailbox
  open,             \* whether it still exists
  sessions,         \* Node::sessions: the label of each session in the table
  children,         \* Node::children, without ActorMgr
  listener_labels,  \* Node::listener_labels
  listeners,        \* Node::listeners, as how many there are on each endpoint
  accept_tasks,     \* NodeContext::accept_tasks, as how many each endpoint has with
                    \* each outcome; which of those that are over select_all takes is left open
  observers,        \* Node::observers
  label,            \* the label that Connect was given, while it is handled
  event,            \* what notify_observers sends
  todo,             \* the observers it has not come to yet, in its order
  should_clean,     \* its flag
  life,             \* the session actors
  queue,            \* the mailboxes of the observers
  listening,        \* the observers whose mailbox exists
  commands,         \* how many commands were sent
  lost,             \* history: sessions whose end the node is not told of
  believed,         \* history: sessions an observer was told exist
  missed            \* history: sessions older than its registration, and those of
                    \* which a handler that ran out of time did not tell it

tableVars == <<sessions, children>>
listenVars == <<listener_labels, listeners, accept_tasks>>
notifyVars == <<event, todo, should_clean>>
boxVars == <<mailbox, open, commands>>
obsVars == <<queue, listening>>
view == <<believed, missed>>
history == <<lost, view>>
vars == <<pc, state, mailbox, open, sessions, children, listener_labels,
          listeners, accept_tasks, observers, label, event, todo, should_clean,
          life, queue, listening, commands, lost, believed, missed>>

\* The node's task is over: post_stop returned, a handler panicked, or the task was
\* aborted inside post_stop.
Ended == {"ended", "panicked", "aborted"}

PCs == {"top", "select", "connect", "ask", "notify", "post_stop"} \cup Ended

\* The mailbox never exceeds its capacity, and each variable keeps to its values
\* (Node, NodeContext).
TypeOK ==
  /\ pc \in PCs
  /\ state \in {"Running", "Stopping", "Stopped"}
  /\ mailbox \in Seq(Commands \cup SupervisionEvents)
  /\ Len(mailbox) <= Capacity
  /\ open \in BOOLEAN
  /\ sessions \in [Sessions -> Labels \cup {None}]
  /\ children \in SUBSET Sessions
  /\ listener_labels \in SUBSET Listeners
  /\ listeners \in [Listeners -> Nat]
  /\ accept_tasks \in [Listeners -> [Accepts -> Nat]]
  /\ observers \in SUBSET Observers
  /\ label \in Labels \cup {None}
  /\ event \in NodeEvents \cup {<<>>}
  /\ todo \in Seq(Observers)
  /\ should_clean \in BOOLEAN
  /\ life \in [Sessions -> {"unborn", "open", "closed"}]
  /\ queue \in [Observers -> Seq(NodeEvents)]
  /\ listening \in SUBSET Observers
  /\ commands \in 0 .. MaxCommands
  /\ lost \in SUBSET Sessions
  /\ believed \in [Observers -> SUBSET Sessions]
  /\ missed \in [Observers -> SUBSET Sessions]

Table == {s \in Sessions : sessions[s] # None}

noTask == [result \in Accepts |-> 0]

\* A node built with some listeners, one on each of their endpoints, after post_start.
Init ==
  /\ pc = "top"
  /\ state = "Running"
  /\ mailbox = <<>>
  /\ open = TRUE
  /\ sessions = [s \in Sessions |-> None]
  /\ children = {}
  /\ listener_labels \in SUBSET Listeners
  /\ listeners = [l \in Listeners |-> IF l \in listener_labels THEN 1 ELSE 0]
  /\ accept_tasks = [l \in Listeners |-> noTask]
  /\ observers = {}
  /\ label = None
  /\ event = <<>>
  /\ todo = <<>>
  /\ should_clean = FALSE
  /\ life = [s \in Sessions |-> "unborn"]
  /\ queue = [o \in Observers |-> <<>>]
  /\ listening = Observers
  /\ commands = 0
  /\ lost = {}
  /\ believed = [o \in Observers |-> {}]
  /\ missed = [o \in Observers |-> {}]

-----------------------------------------------------------------------------
(* The other actors.                                                        *)

\* A client sends a command.
Post(c) ==
  /\ commands < MaxCommands
  /\ open
  /\ Len(mailbox) < Capacity
  /\ mailbox' = Append(mailbox, c)
  /\ commands' = commands + 1
  /\ UNCHANGED <<pc, state, open, tableVars, listenVars, observers, label,
                 notifyVars, life, obsVars, history>>

\* A session tells its supervisor something; without room the event is dropped.
tell(s, what) ==
  /\ mailbox' = IF open /\ Len(mailbox) < Capacity THEN Append(mailbox, <<what, s>>)
                                                   ELSE mailbox
  /\ UNCHANGED <<pc, state, open, commands, tableVars, listenVars, observers,
                 label, notifyVars, obsVars, view>>

\* A State event of a session that is starting.
SessionState(s) ==
  /\ life[s] = "open"
  /\ \A i \in DOMAIN mailbox : mailbox[i] # <<"State", s>>
  /\ tell(s, "State")
  /\ UNCHANGED <<life, lost>>

\* A session ends; one that panicked is reported with an event the node ignores.
SessionEnd(s, how) ==
  /\ life[s] = "open"
  /\ life' = [life EXCEPT ![s] = "closed"]
  /\ tell(s, how)
  /\ lost' = IF how = "Panicked" \/ mailbox' = mailbox THEN lost \cup {s} ELSE lost

\* A call of accept returns or panics.
AcceptReturns(l, result) ==
  /\ accept_tasks[l]["waiting"] > 0
  /\ accept_tasks' = [accept_tasks EXCEPT ![l]["waiting"] = @ - 1, ![l][result] = @ + 1]
  /\ UNCHANGED <<pc, state, boxVars, tableVars, listener_labels, listeners,
                 observers, label, notifyVars, life, obsVars, history>>

ObserverHandle(o) ==
  /\ queue[o] # <<>>
  /\ queue' = [queue EXCEPT ![o] = Tail(@)]
  /\ UNCHANGED <<pc, state, boxVars, tableVars, listenVars, observers, label,
                 notifyVars, life, listening, history>>

ObserverStop(o) ==
  /\ o \in listening
  /\ listening' = listening \ {o}
  /\ queue' = [queue EXCEPT ![o] = <<>>]
  /\ UNCHANGED <<pc, state, boxVars, tableVars, listenVars, observers, label,
                 notifyVars, life, history>>

-----------------------------------------------------------------------------
(* SubjectActor::notify_observers.                                          *)

\* The orders in which a HashSet may be iterated.
orders(S) ==
  {q \in [1 .. Cardinality(S) -> S] : \A o \in S : \E i \in DOMAIN q : q[i] = o}

notify_observers(e) ==
  /\ pc' = "notify"
  /\ event' = e
  /\ todo' \in orders(observers)
  /\ should_clean' = FALSE

\* What an observer makes of an event.
update(o, e) ==
  [believed EXCEPT ![o] = IF e[1] = "SessionCreated" THEN @ \cup {e[2]}
                                                     ELSE @ \ {e[2]}]

\* Mutant: an observer without room is passed over.
NotifyTry ==
  /\ pc = "notify"
  /\ todo # <<>>
  /\ todo' = Tail(todo)
  /\ LET o == Head(todo)
         room == o \in listening /\ Len(queue[o]) < ObsCapacity IN
       /\ queue' = IF room THEN [queue EXCEPT ![o] = Append(@, event)] ELSE queue
       /\ believed' = IF room THEN update(o, event) ELSE believed
       /\ should_clean' = (should_clean \/ o \notin listening)
  /\ UNCHANGED <<pc, state, boxVars, tableVars, listenVars, observers, label,
                 event, life, listening, lost, missed>>

\* Mutant: a closed observer is waited for.
NotifyWaits ==
  /\ pc = "notify"
  /\ todo # <<>>
  /\ todo' = Tail(todo)
  /\ LET o == Head(todo) IN
       /\ o \in listening
       /\ Len(queue[o]) < ObsCapacity
       /\ queue' = [queue EXCEPT ![o] = Append(@, event)]
       /\ believed' = update(o, event)
  /\ UNCHANGED <<pc, state, boxVars, tableVars, listenVars, observers, label,
                 event, should_clean, life, listening, lost, missed>>

\* do_send to the next observer, which waits for room in its mailbox.
NotifyOne ==
  /\ pc = "notify"
  /\ todo # <<>>
  /\ todo' = Tail(todo)
  /\ LET o == Head(todo) IN
       \/ /\ o \in listening
          /\ Len(queue[o]) < ObsCapacity
          /\ queue' = [queue EXCEPT ![o] = Append(@, event)]
          /\ believed' = update(o, event)
          /\ UNCHANGED should_clean
       \/ /\ o \notin listening
          /\ should_clean' = TRUE
          /\ UNCHANGED <<queue, believed>>
  /\ UNCHANGED <<pc, state, boxVars, tableVars, listenVars, observers, label,
                 event, life, listening, lost, missed>>

\* After a failure the closed observers are dropped.
NotifyDone ==
  /\ pc = "notify"
  /\ todo = <<>>
  /\ pc' = "top"
  /\ observers' = IF should_clean THEN observers \cap listening ELSE observers
  /\ label' = None
  /\ event' = <<>>
  /\ should_clean' = FALSE
  /\ UNCHANGED <<state, boxVars, tableVars, listenVars, todo, life, obsVars, history>>

-----------------------------------------------------------------------------
(* Sessions.                                                                *)

\* Node::create_session: refused for a label in use; otherwise the session starts,
\* enters the table and the children, and the observers are told.
create_session(l) ==
  \/ /\ \E s \in Sessions : sessions[s] = l
     /\ pc' = "top"
     /\ UNCHANGED <<tableVars, notifyVars, life>>
  \/ /\ \A s \in Sessions : sessions[s] # l
     /\ \E s \in Sessions : life[s] = "unborn"
     /\ LET s == CHOOSE i \in Sessions : life[i] = "unborn" IN
          /\ life' = [life EXCEPT ![s] = "open"]
          /\ sessions' = [sessions EXCEPT ![s] = l]
          /\ children' = children \cup {s}
          /\ notify_observers(<<"SessionCreated", s>>)

\* T::connect returns a connection, or fails.
ConnectDone ==
  /\ pc = "connect"
  /\ \/ create_session(label)
     \/ pc' = "top" /\ UNCHANGED <<tableVars, notifyVars, life>>
  /\ label' = IF pc' = "notify" THEN label ELSE None
  /\ UNCHANGED <<state, boxVars, listenVars, observers, obsVars, history>>

\* ActorMgr answers, or is gone.
AskDone ==
  /\ pc = "ask"
  /\ pc' = "top"
  /\ UNCHANGED <<state, boxVars, tableVars, listenVars, observers, label,
                 notifyVars, life, obsVars, history>>

\* A command that came in a Timed envelope runs out of time while its handler waits:
\* the handler is dropped there.  A session that it made stays, and the observers it
\* has not come to are not told.
Expire ==
  /\ \/ pc \in {"connect", "ask"}
     \/ pc = "notify" /\ label # None /\ todo # <<>>
  /\ pc' = "top"
  /\ label' = None
  /\ event' = <<>>
  /\ todo' = <<>>
  /\ should_clean' = FALSE
  /\ missed' = [o \in Observers |->
                  missed[o] \cup IF pc = "notify" THEN {event[2]} \ believed[o] ELSE {}]
  /\ UNCHANGED <<state, boxVars, tableVars, listenVars, observers, life, obsVars,
                 lost, believed>>

-----------------------------------------------------------------------------
(* NodeContext::run_loop.                                                   *)

\* The first part of recv_or_accept: accept tasks without a listener are aborted,
\* new listeners get one.
Top ==
  /\ pc = "top"
  /\ state = "Running"
  /\ pc' = "select"
  /\ accept_tasks' = [l \in Listeners |->
                        LET kept == IF l \in listener_labels THEN accept_tasks[l] ELSE noTask
                        IN [kept EXCEPT !["waiting"] = @ + listeners[l]]]
  /\ listeners' = [l \in Listeners |-> 0]
  /\ UNCHANGED <<state, boxVars, tableVars, listener_labels, observers, label,
                 notifyVars, life, obsVars, history>>

\* An accept task of listener l is over: it is started again, and a connection becomes
\* a session under the peer's endpoint.  A panic of the listener stops the node.
Accept(l) ==
  /\ pc = "select"
  /\ \/ /\ accept_tasks[l]["ok"] > 0
        /\ accept_tasks' = [accept_tasks EXCEPT ![l]["ok"] = @ - 1, ![l]["waiting"] = @ + 1]
        /\ \E endpoint \in Labels : create_session(endpoint)
        /\ UNCHANGED <<state, listener_labels>>
     \/ /\ accept_tasks[l]["err"] > 0
        /\ accept_tasks' = [accept_tasks EXCEPT ![l]["err"] = @ - 1, ![l]["waiting"] = @ + 1]
        /\ pc' = "top"
        /\ UNCHANGED <<state, listener_labels, tableVars, notifyVars, life>>
     \/ /\ accept_tasks[l]["panic"] > 0
        /\ accept_tasks' = [accept_tasks EXCEPT ![l]["panic"] = @ - 1]
        /\ listener_labels' = listener_labels \ {l}
        /\ state' = "Stopped"
        /\ pc' = "top"
        /\ UNCHANGED <<tableVars, notifyVars, life>>
  /\ UNCHANGED <<boxVars, listeners, observers, label, obsVars, history>>

\* The next message; what a handler leaves alone is left to keep.
recv(op) ==
  /\ pc = "select"
  /\ mailbox # <<>>
  /\ Head(mailbox)[1] = op
  /\ mailbox' = Tail(mailbox)
  /\ UNCHANGED <<open, commands, life, obsVars, lost>>

arg == Head(mailbox)[2]

\* Mutant: a listener on the same endpoint is added too.
AddListenerAlways ==
  /\ recv("AddListener")
  /\ listener_labels' = listener_labels \cup {arg}
  /\ listeners' = [listeners EXCEPT ![arg] = @ + 1]
  /\ pc' = "top"
  /\ UNCHANGED <<state, tableVars, accept_tasks, observers, label, notifyVars, view>>

AddListener ==
  /\ recv("AddListener")
  /\ listener_labels' = listener_labels \cup {arg}
  /\ listeners' = IF arg \in listener_labels THEN listeners
                                             ELSE [listeners EXCEPT ![arg] = @ + 1]
  /\ pc' = "top"
  /\ UNCHANGED <<state, tableVars, accept_tasks, observers, label, notifyVars, view>>

\* RemoveListener, with NodeContext::abort_accept_task.
RemoveListener ==
  /\ recv("RemoveListener")
  /\ listener_labels' = listener_labels \ {arg}
  /\ accept_tasks' = IF arg \in listener_labels
                     THEN [accept_tasks EXCEPT ![arg] = noTask]
                     ELSE accept_tasks
  /\ pc' = "top"
  /\ UNCHANGED <<state, tableVars, listeners, observers, label, notifyVars, view>>

Connect ==
  /\ recv("Connect")
  /\ label' = arg
  /\ pc' = "connect"
  /\ UNCHANGED <<state, tableVars, listenVars, observers, notifyVars, view>>

\* Handler<AddActor> and Handler<RemoveActor>.
Ask ==
  /\ recv("Ask")
  /\ pc' = "ask"
  /\ UNCHANGED <<state, tableVars, listenVars, observers, label, notifyVars, view>>

\* Handler<Observer>::Register; an observer hears of sessions created from now on.
Register ==
  /\ recv("Register")
  /\ observers' = observers \cup {arg}
  /\ \/ arg \in observers /\ UNCHANGED view
     \/ /\ arg \notin observers
        /\ believed' = [believed EXCEPT ![arg] = {}]
        /\ missed' = [missed EXCEPT ![arg] = Table]
  /\ pc' = "top"
  /\ UNCHANGED <<state, tableVars, listenVars, label, notifyVars>>

Unregister ==
  /\ recv("Unregister")
  /\ observers' = observers \ {arg}
  /\ pc' = "top"
  /\ UNCHANGED <<state, tableVars, listenVars, label, notifyVars, view>>

\* Handler<Signal>: this loop has no `stopping` hook, so Stop leaves it as
\* Terminate does.
Signal ==
  /\ recv("Stop")
  /\ state' = "Stopping"
  /\ pc' = "top"
  /\ UNCHANGED <<tableVars, listenVars, observers, label, notifyVars, view>>

\* Mutant: the end of a session is not acted upon.
TerminatedIgnored ==
  /\ recv("Terminated")
  /\ pc' = "top"
  /\ UNCHANGED <<state, tableVars, listenVars, observers, label, notifyVars, view>>

\* SupervisionEvent::Terminated.
Terminated ==
  /\ recv("Terminated")
  /\ sessions' = [sessions EXCEPT ![arg] = None]
  /\ children' = children \ {arg}
  /\ notify_observers(<<"SessionDeleted", arg>>)
  /\ UNCHANGED <<state, listenVars, observers, label, view>>

\* The other supervision events are logged or ignored.
OtherEvent ==
  /\ recv("State") \/ recv("Panicked")
  /\ pc' = "top"
  /\ UNCHANGED <<state, tableVars, listenVars, observers, label, notifyVars, view>>

Handle ==
  \/ AddListener \/ RemoveListener \/ Connect \/ Ask \/ Register \/ Unregister
  \/ Signal \/ Terminated \/ OtherEvent

\* The loop is left: the accept tasks are aborted and the mailbox is dropped.
Leave ==
  /\ pc = "top"
  /\ state # "Running"
  /\ pc' = "post_stop"
  /\ accept_tasks' = [l \in Listeners |-> noTask]
  /\ state' = "Stopped"
  /\ open' = FALSE
  /\ mailbox' = <<>>
  /\ UNCHANGED <<commands, tableVars, listener_labels, listeners, observers, label,
                 notifyVars, life, obsVars, history>>

\* The user's code of a connection or a listener panics: T::connect, peer_endpoint of
\* an accepted connection, local_endpoint of a listener that is added.  The loop
\* unwinds, post_stop is skipped, and what the node held is dropped with it: its
\* children and accept tasks run on, detached.
HandlerPanic ==
  /\ \/ pc = "connect"
     \/ pc = "select" /\ mailbox # <<>> /\ Head(mailbox)[1] = "AddListener"
     \/ pc = "select" /\ \E l \in Listeners : accept_tasks[l]["ok"] > 0
     \/ pc = "top" /\ state = "Running" /\ \E l \in Listeners : listeners[l] > 0
  /\ pc' = "panicked"
  /\ state' = "Stopped"
  /\ open' = FALSE
  /\ mailbox' = <<>>
  /\ children' = {}
  /\ label' = None
  /\ UNCHANGED <<commands, sessions, listenVars, observers, notifyVars, life, obsVars,
                 history>>

\* Mutant: the children are signalled and not waited for.
PostStopEarly ==
  /\ pc = "post_stop"
  /\ pc' = "ended"
  /\ children' = {}
  /\ UNCHANGED <<state, boxVars, sessions, listenVars, observers, label, notifyVars,
                 life, obsVars, history>>

\* post_stop: every child is terminated and waited for.
PostStop ==
  /\ pc = "post_stop"
  /\ \A s \in children : life[s] = "closed"
  /\ pc' = "ended"
  /\ children' = {}
  /\ UNCHANGED <<state, boxVars, sessions, listenVars, observers, label, notifyVars,
                 life, obsVars, history>>

\* terminate_actor of somebody whose signal finds the mailbox gone aborts the task
\* while post_stop waits, and with it the calls that wait for the children.
TerminateActorAbort ==
  /\ pc = "post_stop"
  /\ pc' = "aborted"
  /\ children' = {}
  /\ UNCHANGED <<state, boxVars, sessions, listenVars, observers, label, notifyVars,
                 life, obsVars, history>>

-----------------------------------------------------------------------------
\* The steps of the node's task that no other actor has to enable.
TaskNext ==
  \/ Top \/ NotifyOne \/ NotifyDone \/ ConnectDone \/ AskDone \/ Leave \/ PostStop

SessionNext(s) == \E how \in {"Terminated", "Panicked"} : SessionEnd(s, how)

Next ==
  \/ TaskNext \/ Handle \/ Expire \/ HandlerPanic \/ TerminateActorAbort
  \/ \E l \in Listeners :
       \/ Accept(l)
       \/ \E result \in Accepts \ {"waiting"} : AcceptReturns(l, result)
  \/ \E c \in Commands : Post(c)
  \/ \E s \in Sessions : SessionState(s) \/ SessionNext(s)
  \/ \E o \in Observers : ObserverHandle(o) \/ ObserverStop(o)

Spec == Init /\ [][Next]_vars

\* Tokio runs every task that can go on and select! favours no branch; connecting
\* and ActorMgr's answer take finite time, observers handle their events, and a
\* session that post_stop terminates ends.
FairSpec ==
  /\ Spec
  /\ WF_vars(TaskNext)
  /\ SF_vars(Handle)
  /\ \A o \in Observers : WF_vars(ObserverHandle(o))
  /\ \A s \in Sessions : WF_vars(pc = "post_stop" /\ SessionNext(s))

-----------------------------------------------------------------------------
(* Properties.                                                              *)

\* The accept tasks of a listener.
tasksOf(l) == accept_tasks[l]["waiting"] + accept_tasks[l]["ok"]
              + accept_tasks[l]["err"] + accept_tasks[l]["panic"]

\* Between two events of its loop the node has one accept task for every listener
\* it knows and none for any other, whatever commands, accepted connections and
\* panics came in between (recv_or_accept, AddListener, RemoveListener).
AcceptorsMatchListeners ==
  pc = "select" =>
    \A l \in Listeners : tasksOf(l) = IF l \in listener_labels THEN 1 ELSE 0

\* What an observer has been told agrees with the table of sessions: it knows every
\* session created since it registered and believes in none that was deleted, even
\* when its mailbox was full or another observer died (create_session, Terminated,
\* notify_observers).  The one exception is a Connect in a Timed envelope that ran out
\* of time before it had told this observer.
ObserversAgree ==
  pc = "select" =>
    \A o \in observers \cap listening :
      believed[o] = Table \ missed[o]

\* A running session is among the children for as long as the node handles messages,
\* and when post_stop has returned none runs any more (create_session, Terminated,
\* post_stop).  After the other two ends, a panic in a handler, which skips post_stop,
\* and an abort inside it, sessions may run on without a node.
NoOrphanSession ==
  \A s \in Sessions : life[s] = "open" =>
    /\ open => s \in children
    /\ pc # "ended"

\* A session that ended leaves the table, which frees its label for Connect, unless
\* its Terminated event found the node's mailbox full or it panicked.
SessionForgotten ==
  \A s \in Sessions :
    life[s] = "closed" /\ s \notin lost ~> sessions[s] = None \/ ~open

\* A node with a signal in its mailbox, or whose listener panicked, comes to an end
\* with everything its handlers wait for on the way (run_loop, post_stop).
NodeStops ==
  state # "Running" \/ (\E i \in DOMAIN mailbox : mailbox[i] = <<"Stop", None>>)
    ~> pc \in Ended

=============================================================================
