----------------------------- MODULE NodeProofs -----------------------------
(***************************************************************************)
(* Proofs about Node, for all sets of sessions, labels, listeners and      *)
(* observers, every capacity and any number of commands.                   *)
(***************************************************************************)
EXTENDS Node, FiniteSetTheorems, TLAPS

USE DEF None

Types ==
  /\ pc \in PCs
  /\ mailbox \in Seq(Commands \cup SupervisionEvents)
  /\ sessions \in [Sessions -> Labels \cup {None}]
  /\ children \in SUBSET Sessions
  /\ observers \in SUBSET Observers
  /\ label \in Labels \cup {None}
  /\ todo \in Seq(Observers)
  /\ life \in [Sessions -> {"unborn", "open", "closed"}]
  /\ queue \in [Observers -> Seq(NodeEvents)]
  /\ listening \in SUBSET Observers
  /\ believed \in [Observers -> SUBSET Sessions]
  /\ missed \in [Observers -> SUBSET Sessions]

\* A session that runs is among the children until the node panics or is aborted,
\* and none runs when post_stop has returned.
Tracked ==
  \A s \in Sessions : life[s] = "open" =>
    /\ pc # "ended"
    /\ s \in children \/ pc \in {"panicked", "aborted"}

\* The mailbox is gone once the loop is left.
Shut == open = (pc \notin {"post_stop"} \cup Ended)

\* Observers are told of sessions that were created, and of a new one while Connect is
\* at hand; between two events of the loop it is not.
Telling ==
  /\ pc = "notify" =>
       /\ event \in NodeEvents /\ life[event[2]] # "unborn"
       /\ label # None => event[1] = "SessionCreated"
  /\ pc \in {"top", "select", "ask"} => label = None

\* Only a session that ended is reported as terminated.
Ends ==
  \A i \in 1 .. Len(mailbox) :
    mailbox[i][1] = "Terminated" => life[mailbox[i][2]] = "closed"

\* Nothing is known of a session before it was created.
Born ==
  \A s \in Sessions :
    life[s] = "unborn" => sessions[s] = None /\ \A o \in Observers : s \notin missed[o]

\* What o has been told agrees with the table.
agrees(o) == believed[o] = Table \ missed[o]

\* It will agree once the event has reached it.
pending(o) ==
  \/ event[1] = "SessionCreated" /\ believed[o] \cup {event[2]} = Table \ missed[o]
  \/ event[1] = "SessionDeleted" /\ believed[o] \ {event[2]} = Table \ missed[o]

\* notify_observers comes to every observer that lives.
Sent ==
  \A o \in observers \cap listening :
    IF pc = "notify" /\ \E i \in 1 .. Len(todo) : todo[i] = o THEN pending(o)
                                                            ELSE agrees(o)

NInv ==
  /\ Types /\ Tracked /\ Shut /\ Ends /\ Born /\ Sent /\ Telling

-----------------------------------------------------------------------------
(* The mailbox.                                                             *)

LEMMA Arguments ==
  ASSUME NEW m \in Commands \cup SupervisionEvents
  PROVE  /\ m[1] = "Terminated" => m[2] \in Sessions
         /\ m[1] \in {"Register", "Unregister"} => m[2] \in Observers
         /\ m[1] = "Connect" => m[2] \in Labels
BY DEF Commands, SupervisionEvents

LEMMA Received ==
  ASSUME NInv, mailbox # <<>>, mailbox' = Tail(mailbox), life' = life
  PROVE  /\ mailbox' \in Seq(Commands \cup SupervisionEvents) /\ Ends'
         /\ Head(mailbox) \in Commands \cup SupervisionEvents
         /\ Head(mailbox)[1] = "Terminated" => life[Head(mailbox)[2]] = "closed"
<1> DEFINE M == Commands \cup SupervisionEvents
<1>1. mailbox \in Seq(M)
  BY DEF NInv, Types
<1> HIDE DEF M
<1>2. /\ Tail(mailbox) \in Seq(M) /\ Head(mailbox) \in M /\ Head(mailbox) = mailbox[1]
      /\ Len(mailbox) \in Nat \ {0} /\ Len(Tail(mailbox)) = Len(mailbox) - 1
      /\ \A i \in 1 .. Len(Tail(mailbox)) : Tail(mailbox)[i] = mailbox[i + 1]
  BY <1>1
<1>3. \A i \in 1 .. Len(Tail(mailbox)) : i + 1 \in 1 .. Len(mailbox)
  BY <1>2
<1>4. 1 \in 1 .. Len(mailbox)
  BY <1>2
<1> QED BY <1>2, <1>3, <1>4 DEF NInv, Ends, M

LEMMA Queued ==
  ASSUME NInv, NEW m \in Commands \cup SupervisionEvents,
         mailbox' = mailbox \/ mailbox' = Append(mailbox, m),
         m[1] = "Terminated" => life'[m[2]] = "closed",
         \A s \in Sessions : life[s] = "closed" => life'[s] = "closed"
  PROVE  mailbox' \in Seq(Commands \cup SupervisionEvents) /\ Ends'
<1> DEFINE M == Commands \cup SupervisionEvents
<1>1. mailbox \in Seq(M) /\ m \in M
  BY DEF NInv, Types
<1>2. \A i \in 1 .. Len(mailbox) : mailbox[i][1] = "Terminated" => mailbox[i][2] \in Sessions
  <2> TAKE i \in 1 .. Len(mailbox)
  <2>1. mailbox[i] \in Commands \cup SupervisionEvents
    BY <1>1
  <2> QED BY <2>1, Arguments
<1> HIDE DEF M
<1>3. CASE mailbox' = mailbox
  BY <1>1, <1>2, <1>3 DEF NInv, Ends, M
<1>4. CASE mailbox' = Append(mailbox, m)
  <2>1. /\ mailbox' \in Seq(M) /\ Len(mailbox') = Len(mailbox) + 1 /\ Len(mailbox) \in Nat
        /\ \A i \in 1 .. Len(mailbox) : mailbox'[i] = mailbox[i]
        /\ mailbox'[Len(mailbox) + 1] = m
    BY <1>1, <1>4
  <2>2. \A i \in 1 .. Len(mailbox') : i \in 1 .. Len(mailbox) \/ i = Len(mailbox) + 1
    BY <2>1
  <2> QED BY <1>2, <2>1, <2>2 DEF NInv, Ends, M
<1> QED BY <1>3, <1>4

-----------------------------------------------------------------------------
(* The steps.                                                               *)

\* Steps that create no session, tell nobody anything and keep the table.
LEMMA Aside ==
  ASSUME NInv, UNCHANGED <<sessions, children, believed, missed, todo>>,
         observers' \subseteq observers, listening' \subseteq listening,
         \/ UNCHANGED <<pc, event, label, open>>
         \/ /\ pc \notin {"notify"} \cup Ended /\ pc' \in PCs \ ({"notify"} \cup Ended)
            /\ Shut' /\ (pc' \in {"top", "select", "ask"} => label' = None),
         label' \in Labels \cup {None},
         queue' \in [Observers -> Seq(NodeEvents)],
         mailbox' \in Seq(Commands \cup SupervisionEvents), Ends',
         life' \in [Sessions -> {"unborn", "open", "closed"}],
         \A s \in Sessions : /\ life'[s] = "open" => life[s] = "open"
                             /\ life'[s] = "unborn" => life[s] = "unborn"
  PROVE  NInv'
<1>1. Types'
  BY DEF NInv, Types
<1>2. Tracked' /\ Shut'
  BY DEF NInv, Tracked, Shut, Ended
<1>6. Telling'
  <2>1. CASE pc' # "notify"
    BY <2>1 DEF NInv, Telling
  <2>2. CASE pc' = "notify"
    <3>1. event \in NodeEvents /\ UNCHANGED <<pc, event, label>>
      BY <2>2 DEF NInv, Telling
    <3>2. event[2] \in Sessions
      BY <3>1 DEF NodeEvents
    <3> QED BY <2>2, <3>1, <3>2 DEF NInv, Telling
  <2> QED BY <2>1, <2>2
<1>3. Born'
  BY DEF NInv, Born
<1>4. Table' = Table
  BY DEF Table
<1>5. Sent'
  <2> SUFFICES ASSUME NEW o \in observers' \cap listening'
               PROVE  IF pc' = "notify" /\ \E i \in 1 .. Len(todo) : todo[i] = o
                      THEN pending(o)' ELSE agrees(o)'
    BY DEF Sent
  <2>1. pc' = "notify" => pc = "notify" /\ event' = event
    OBVIOUS
  <2>2. (agrees(o) => agrees(o)') /\ (event' = event /\ pending(o) => pending(o)')
    BY <1>4 DEF agrees, pending
  <2>3. pc = "notify" => pc' = "notify"
    OBVIOUS
  <2> QED BY <2>1, <2>2, <2>3 DEF NInv, Sent
<1> QED BY <1>1, <1>2, <1>3, <1>5, <1>6 DEF NInv

LEMMA Orders ==
  ASSUME NEW S \in SUBSET Observers, NEW q \in orders(S)
  PROVE  q \in Seq(Observers) /\ \A o \in S : \E i \in 1 .. Len(q) : q[i] = o
<1>1. IsFiniteSet(S) /\ Cardinality(S) \in Nat
  BY FS_Subset, FS_CardinalityType, NodeAssumption
<1>2. PICK n \in Nat : n = Cardinality(S)
  BY <1>1
<1>3. q \in [1 .. n -> S] /\ \A o \in S : \E i \in DOMAIN q : q[i] = o
  BY <1>2 DEF orders
<1>4. q \in Seq(S) /\ DOMAIN q = 1 .. Len(q)
  BY <1>3
<1> QED BY <1>3, <1>4

\* A refused session changes nothing, a new one enters the table, the children and
\* what every observer is about to hear.
LEMMA Created ==
  ASSUME NInv, NEW l \in Labels \cup {None}, create_session(l),
         pc \in {"connect", "select"}, label' \in Labels \cup {None},
         pc' = "top" => label' = None,
         UNCHANGED <<mailbox, open, observers, obsVars, history>>
  PROVE  NInv'
<1>1. CASE pc' = "top" /\ UNCHANGED <<tableVars, notifyVars, life>>
  <2>1. Ends'
    BY <1>1 DEF NInv, Ends
  <2>2. Shut' /\ pc' \in PCs \ ({"notify"} \cup Ended) /\ pc \notin {"notify"} \cup Ended
    BY <1>1 DEF NInv, Shut, Ended, PCs
  <2> QED BY <1>1, <2>1, <2>2, Aside DEF tableVars, notifyVars, obsVars, history, view, NInv, Types
<1>2. CASE /\ \A s \in Sessions : sessions[s] # l
           /\ \E s \in Sessions : life[s] = "unborn"
           /\ LET s == CHOOSE i \in Sessions : life[i] = "unborn" IN
                /\ life' = [life EXCEPT ![s] = "open"]
                /\ sessions' = [sessions EXCEPT ![s] = l]
                /\ children' = children \cup {s}
                /\ notify_observers(<<"SessionCreated", s>>)
  <2>1. PICK s \in Sessions :
          /\ life[s] = "unborn"
          /\ life' = [life EXCEPT ![s] = "open"]
          /\ sessions' = [sessions EXCEPT ![s] = l]
          /\ children' = children \cup {s}
          /\ notify_observers(<<"SessionCreated", s>>)
    BY <1>2, Zenon
  <2>2. l # None /\ l \in Labels
    BY <1>2, <2>1 DEF NInv, Born
  <2>3. pc' = "notify" /\ event' = <<"SessionCreated", s>> /\ todo' \in orders(observers)
    BY <2>1 DEF notify_observers
  <2>4. /\ todo' \in Seq(Observers)
        /\ \A o \in observers : \E i \in 1 .. Len(todo') : todo'[i] = o
    <3>1. observers \in SUBSET Observers
      BY DEF NInv, Types
    <3> QED BY <2>3, <3>1, Orders
  <2>5. Types'
    BY <2>1, <2>2, <2>3, <2>4 DEF NInv, Types, PCs, obsVars, history, view
  <2>6. Tracked' /\ Shut'
    BY <2>1, <2>3 DEF NInv, Types, Tracked, Shut, Ended
  <2>10. Telling'
    <3>1. event'[1] = "SessionCreated" /\ event'[2] = s /\ life'[s] = "open"
      BY <2>1, <2>3 DEF NInv, Types
    <3> QED BY <2>3, <3>1 DEF Telling, NodeEvents
  <2>7. Ends'
    <3>1. \A t \in Sessions : life[t] = "closed" => life'[t] = "closed"
      BY <2>1 DEF NInv, Types
    <3>2. \A i \in 1 .. Len(mailbox) : mailbox[i][1] = "Terminated" => mailbox[i][2] \in Sessions
      BY Arguments DEF NInv, Types
    <3> QED BY <3>1, <3>2 DEF NInv, Ends
  <2>8. Born'
    BY <2>1 DEF NInv, Types, Born, history, view
  <2>9. Sent'
    <3>1. Table' = Table \cup {s}
      BY <2>1, <2>2 DEF NInv, Types, Table
    <3>2. \A o \in observers \cap listening : agrees(o)
      BY DEF NInv, Sent
    <3> SUFFICES ASSUME NEW o \in observers \cap listening
                 PROVE  pending(o)'
      BY <2>3, <2>4 DEF Sent, obsVars
    <3>3. o \in Observers /\ s \notin missed[o]
      BY <2>1 DEF NInv, Types, Born
    <3>4. believed[o] \cup {s} = (Table \cup {s}) \ missed[o]
      BY <3>2, <3>3 DEF agrees
    <3> QED BY <2>3, <3>1, <3>4 DEF pending, history, view
  <2> QED BY <2>5, <2>6, <2>7, <2>8, <2>9, <2>10 DEF NInv
<1> QED BY <1>1, <1>2 DEF create_session, tableVars, notifyVars

LEMMA TerminatedStep ==
  ASSUME NInv, Terminated
  PROVE  NInv'
<1>1. /\ pc = "select" /\ mailbox # <<>> /\ mailbox' = Tail(mailbox)
      /\ Head(mailbox)[1] = "Terminated"
      /\ UNCHANGED <<open, observers, listening, life, queue, believed, missed, label>>
  BY DEF Terminated, recv, obsVars, view
<1>2. /\ mailbox' \in Seq(Commands \cup SupervisionEvents) /\ Ends'
      /\ arg \in Sessions /\ life[arg] = "closed"
  BY <1>1, Received, Arguments DEF arg
<1>3. PICK s \in Sessions : s = arg
  BY <1>2
<1>4. /\ sessions' = [sessions EXCEPT ![s] = None]
      /\ children' = children \ {s}
      /\ pc' = "notify" /\ event' = <<"SessionDeleted", s>> /\ todo' \in orders(observers)
  BY <1>3 DEF Terminated, notify_observers
<1>5. /\ todo' \in Seq(Observers)
      /\ \A o \in observers : \E i \in 1 .. Len(todo') : todo'[i] = o
  <2>1. observers \in SUBSET Observers
    BY DEF NInv, Types
  <2> QED BY <1>4, <2>1, Orders
<1>6. Types'
  BY <1>1, <1>2, <1>4, <1>5 DEF NInv, Types, PCs
<1>7. Tracked' /\ Shut'
  BY <1>1, <1>2, <1>3, <1>4 DEF NInv, Types, Tracked, Shut, Ended
<1>10. Telling'
  <2>1. event'[2] = s /\ life'[s] = "closed" /\ label' = None
    BY <1>1, <1>2, <1>3, <1>4 DEF NInv, Telling
  <2> QED BY <1>4, <2>1 DEF Telling, NodeEvents
<1>8. Born'
  BY <1>1, <1>4 DEF NInv, Types, Born
<1>9. Sent'
  <2>1. Table' = Table \ {s}
    BY <1>4 DEF NInv, Types, Table
  <2>2. \A o \in observers \cap listening : agrees(o)
    BY <1>1 DEF NInv, Sent
  <2> SUFFICES ASSUME NEW o \in observers \cap listening
               PROVE  pending(o)'
    BY <1>1, <1>4, <1>5 DEF Sent
  <2>3. believed[o] \ {s} = (Table \ {s}) \ missed[o]
    BY <2>2 DEF agrees
  <2> QED BY <1>1, <1>4, <2>1, <2>3 DEF pending
<1> QED BY <1>2, <1>6, <1>7, <1>8, <1>9, <1>10 DEF NInv

LEMMA RegisterStep ==
  ASSUME NInv, Register
  PROVE  NInv'
<1>1. /\ pc = "select" /\ mailbox # <<>> /\ mailbox' = Tail(mailbox) /\ pc' = "top"
      /\ Head(mailbox)[1] = "Register"
      /\ UNCHANGED <<open, sessions, children, listening, life, queue, label, todo>>
  BY DEF Register, recv, obsVars, tableVars, notifyVars
<1>2. /\ mailbox' \in Seq(Commands \cup SupervisionEvents) /\ Ends'
      /\ arg \in Observers
  BY <1>1, Received, Arguments DEF arg
<1>3. PICK r \in Observers : r = arg
  BY <1>2
<1>4. /\ observers' = observers \cup {r}
      /\ \/ r \in observers /\ UNCHANGED <<believed, missed>>
         \/ /\ r \notin observers
            /\ believed' = [believed EXCEPT ![r] = {}]
            /\ missed' = [missed EXCEPT ![r] = Table]
  BY <1>3 DEF Register, view
<1>5. Table \in SUBSET Sessions /\ Table' = Table
  BY <1>1 DEF Table
<1>6. Types'
  <2>1. believed' \in [Observers -> SUBSET Sessions] /\ missed' \in [Observers -> SUBSET Sessions]
    <3>1. CASE UNCHANGED <<believed, missed>>
      BY <3>1 DEF NInv, Types
    <3>2. CASE /\ believed' = [believed EXCEPT ![r] = {}]
               /\ missed' = [missed EXCEPT ![r] = Table]
      BY <3>2, <1>5 DEF NInv, Types
    <3> QED BY <3>1, <3>2, <1>4
  <2> QED BY <1>1, <1>2, <1>4, <2>1 DEF NInv, Types, PCs
<1>7. Tracked' /\ Shut' /\ Telling'
  BY <1>1 DEF NInv, Tracked, Shut, Ended, Telling
<1>8. Born'
  <2>1. CASE UNCHANGED <<believed, missed>>
    BY <1>1, <2>1 DEF NInv, Born
  <2>2. CASE missed' = [missed EXCEPT ![r] = Table]
    BY <1>1, <2>2 DEF NInv, Types, Born, Table
  <2> QED BY <1>4, <2>1, <2>2
<1>9. Sent'
  <2> SUFFICES ASSUME NEW o \in observers' \cap listening
               PROVE  agrees(o)'
    BY <1>1 DEF Sent
  <2>1. o \in observers => agrees(o)
    BY <1>1 DEF NInv, Sent
  <2>2. CASE r \in observers /\ UNCHANGED <<believed, missed>>
    BY <1>4, <1>5, <2>1, <2>2 DEF agrees
  <2>3. CASE /\ r \notin observers
             /\ believed' = [believed EXCEPT ![r] = {}]
             /\ missed' = [missed EXCEPT ![r] = Table]
    <3>1. CASE o = r
      <4>1. believed'[r] = {} /\ missed'[r] = Table
        BY <2>3 DEF NInv, Types
      <4> QED BY <3>1, <4>1, <1>5 DEF agrees
    <3>2. CASE o # r
      <4>1. o \in observers /\ o \in Observers
        BY <1>4, <3>2 DEF NInv, Types
      <4>2. believed'[o] = believed[o] /\ missed'[o] = missed[o]
        BY <2>3, <3>2, <4>1 DEF NInv, Types
      <4> QED BY <4>1, <4>2, <2>1, <1>5 DEF agrees
    <3> QED BY <3>1, <3>2
  <2> QED BY <1>4, <2>2, <2>3
<1> QED BY <1>1, <1>2, <1>6, <1>7, <1>8, <1>9 DEF NInv

LEMMA NotifyOneStep ==
  ASSUME NInv, NotifyOne
  PROVE  NInv'
<1>1. /\ pc = "notify" /\ pc' = "notify" /\ todo # <<>> /\ todo' = Tail(todo)
      /\ UNCHANGED <<mailbox, open, sessions, children, observers, label, event, life,
                     listening, missed>>
  BY DEF NotifyOne, boxVars, tableVars
<1>2. /\ todo \in Seq(Observers) /\ Head(todo) \in Observers
      /\ todo' \in Seq(Observers) /\ Head(todo) = todo[1]
      /\ Len(todo) \in Nat \ {0} /\ Len(todo') = Len(todo) - 1
      /\ \A i \in 1 .. Len(todo') : todo'[i] = todo[i + 1]
  BY <1>1 DEF NInv, Types
<1>3. PICK o \in Observers : o = Head(todo)
  BY <1>2
<1>4. \/ /\ o \in listening
         /\ queue' = [queue EXCEPT ![o] = Append(@, event)]
         /\ believed' = update(o, event)
      \/ o \notin listening /\ UNCHANGED <<queue, believed>>
  BY <1>3 DEF NotifyOne
<1>5. event \in NodeEvents
  BY <1>1 DEF NInv, Telling
<1>6. Types'
  <2>1. queue' \in [Observers -> Seq(NodeEvents)] /\ believed' \in [Observers -> SUBSET Sessions]
    <3>1. CASE /\ queue' = [queue EXCEPT ![o] = Append(@, event)]
               /\ believed' = update(o, event)
      <4>1. event[2] \in Sessions
        BY <1>5 DEF NodeEvents
      <4>2. queue[o] \in Seq(NodeEvents) /\ believed[o] \in SUBSET Sessions
        BY DEF NInv, Types
      <4>3. Append(queue[o], event) \in Seq(NodeEvents)
        BY <4>2, <1>5
      <4> QED BY <3>1, <4>1, <4>2, <4>3 DEF NInv, Types, update
    <3>2. CASE UNCHANGED <<queue, believed>>
      BY <3>2 DEF NInv, Types
    <3> QED BY <1>4, <3>1, <3>2
  <2> QED BY <1>1, <1>2, <2>1 DEF NInv, Types
<1>7. Tracked' /\ Shut' /\ Born' /\ Ends' /\ Telling'
  BY <1>1 DEF NInv, Tracked, Shut, Born, Ends, Telling
<1>8. Sent'
  <2> SUFFICES ASSUME NEW p \in observers \cap listening
               PROVE  IF \E i \in 1 .. Len(todo') : todo'[i] = p
                      THEN pending(p)' ELSE agrees(p)'
    BY <1>1 DEF Sent
  <2> DEFINE listed == \E i \in 1 .. Len(todo) : todo[i] = p
             left == \E i \in 1 .. Len(todo') : todo'[i] = p
  <2>1. (left => listed) /\ (listed => left \/ p = o)
    <3>1. \A i \in 1 .. Len(todo') : i + 1 \in 1 .. Len(todo)
      BY <1>2
    <3>2. \A i \in 1 .. Len(todo) : i = 1 \/ (i - 1 \in 1 .. Len(todo') /\ todo'[i - 1] = todo[i])
      BY <1>2
    <3> QED BY <1>2, <1>3, <3>1, <3>2
  <2>2. (listed => pending(p)) /\ (~listed => agrees(p))
    BY <1>1 DEF NInv, Sent
  <2>3. Table' = Table
    BY <1>1 DEF Table
  <2>4. p \in Observers
    BY DEF NInv, Types
  <2>5. event[1] \in {"SessionCreated", "SessionDeleted"}
    BY <1>5 DEF NodeEvents
  <2>6. listed <=> p = o \/ left
    <3>1. p = o => listed
      BY <1>2, <1>3
    <3> QED BY <2>1, <3>1
  <2> HIDE DEF listed, left
  <2>7. CASE p = o
    <3>1. believed' = update(o, event)
      BY <1>4, <2>7
    <3>2. believed'[p] = IF event[1] = "SessionCreated" THEN believed[p] \cup {event[2]}
                                                        ELSE believed[p] \ {event[2]}
      BY <3>1, <2>4, <2>7 DEF NInv, Types, update
    <3>3. pending(p)
      BY <2>2, <2>6, <2>7
    <3>4. believed'[p] = Table \ missed[p]
      BY <3>2, <3>3, <2>5 DEF pending
    <3>5. agrees(p)'
      BY <3>4, <2>3, <1>1 DEF agrees
    <3>6. pending(p)'
      <4>1. CASE event[1] = "SessionCreated"
        <5>1. believed'[p] \cup {event[2]} = believed'[p]
          BY <4>1, <3>2
        <5> QED BY <4>1, <5>1, <3>4, <2>3, <1>1 DEF pending
      <4>2. CASE event[1] = "SessionDeleted"
        <5>1. believed'[p] \ {event[2]} = believed'[p]
          BY <4>2, <3>2
        <5> QED BY <4>2, <5>1, <3>4, <2>3, <1>1 DEF pending
      <4> QED BY <2>5, <4>1, <4>2
    <3> QED BY <3>5, <3>6
  <2>8. CASE p # o
    <3>1. believed'[p] = believed[p]
      BY <1>4, <2>4, <2>8 DEF NInv, Types, update
    <3>2. (pending(p) => pending(p)') /\ (agrees(p) => agrees(p)')
      BY <3>1, <2>3, <1>1 DEF pending, agrees
    <3> QED BY <3>2, <2>2, <2>6, <2>8 DEF left
  <2> QED BY <2>7, <2>8
<1> QED BY <1>6, <1>7, <1>8 DEF NInv

LEMMA NotifyDoneStep ==
  ASSUME NInv, NotifyDone
  PROVE  NInv'
<1>1. /\ pc = "notify" /\ pc' = "top" /\ todo = <<>> /\ todo' = todo
      /\ observers' \subseteq observers /\ label' = None
      /\ UNCHANGED <<mailbox, open, sessions, children, life, queue, listening,
                     believed, missed>>
  BY DEF NotifyDone, boxVars, tableVars, obsVars, history, view
<1>2. Types'
  BY <1>1 DEF NInv, Types, PCs
<1>3. Tracked' /\ Shut' /\ Born' /\ Ends' /\ Telling'
  BY <1>1 DEF NInv, Tracked, Shut, Ended, Born, Ends, Telling
<1>4. Sent'
  <2> SUFFICES ASSUME NEW o \in observers' \cap listening
               PROVE  agrees(o)'
    BY <1>1 DEF Sent
  <2>1. ~ \E i \in 1 .. Len(todo) : todo[i] = o
    BY <1>1
  <2>2. agrees(o)
    BY <1>1, <2>1 DEF NInv, Sent
  <2> QED BY <1>1, <2>2 DEF agrees, Table
<1> QED BY <1>1, <1>2, <1>3, <1>4 DEF NInv

\* A Timed command runs out of time: an observer that was not told has missed the
\* session.
LEMMA ExpireStep ==
  ASSUME NInv, Expire
  PROVE  NInv'
<1>1. /\ pc' = "top" /\ label' = None /\ todo' = <<>>
      /\ pc \in {"connect", "ask"} \/ (pc = "notify" /\ label # None)
      /\ missed' = [o \in Observers |-> missed[o] \cup
                      IF pc = "notify" THEN {event[2]} \ believed[o] ELSE {}]
      /\ UNCHANGED <<mailbox, open, sessions, children, observers, life, queue, listening,
                     believed>>
  BY DEF Expire, boxVars, tableVars, obsVars
<1>2. pc = "notify" => /\ event[1] = "SessionCreated" /\ event[2] \in Sessions
                       /\ life[event[2]] # "unborn"
  BY <1>1 DEF NInv, Telling, NodeEvents
<1>3. ASSUME NEW o \in Observers
      PROVE  missed'[o] = missed[o] \cup IF pc = "notify" THEN {event[2]} \ believed[o]
                                                          ELSE {}
  BY <1>1
<1>4. Types'
  <2>1. missed' \in [Observers -> SUBSET Sessions]
    BY <1>1, <1>2 DEF NInv, Types
  <2>2. todo' \in Seq(Observers)
    BY <1>1
  <2> QED BY <1>1, <2>1, <2>2 DEF NInv, Types, PCs
<1>5. Tracked' /\ Shut' /\ Ends' /\ Telling'
  BY <1>1 DEF NInv, Tracked, Shut, Ended, Ends, Telling
<1>6. Born'
  BY <1>1, <1>2, <1>3 DEF NInv, Born
<1>7. Sent'
  <2> SUFFICES ASSUME NEW o \in observers \cap listening
               PROVE  agrees(o)'
    BY <1>1 DEF Sent
  <2>1. o \in Observers
    BY DEF NInv, Types
  <2>2. Table' = Table
    BY <1>1 DEF Table
  <2>3. CASE pc # "notify"
    <3>1. agrees(o)
      BY <2>3 DEF NInv, Sent
    <3> QED BY <1>1, <1>3, <2>1, <2>2, <2>3, <3>1 DEF agrees
  <2>4. CASE pc = "notify"
    <3>1. agrees(o) \/ pending(o)
      BY DEF NInv, Sent
    <3>2. \/ believed[o] = Table \ missed[o]
          \/ believed[o] \cup {event[2]} = Table \ missed[o]
      BY <1>2, <2>4, <3>1 DEF agrees, pending
    <3>3. missed'[o] = missed[o] \cup ({event[2]} \ believed[o])
      BY <1>3, <2>1, <2>4
    <3>4. Table \ missed'[o] = believed[o]
      BY <3>2, <3>3
    <3> QED BY <1>1, <2>2, <3>4 DEF agrees
  <2> QED BY <2>3, <2>4
<1> QED BY <1>4, <1>5, <1>6, <1>7 DEF NInv

\* The three ends of the node.
LEMMA EndStep ==
  ASSUME NInv, PostStop \/ HandlerPanic \/ TerminateActorAbort
  PROVE  NInv'
<1>1. /\ pc' \in Ended /\ children' = {} /\ open' = FALSE
      /\ label' \in {label, None} /\ mailbox' \in {mailbox, <<>>}
      /\ UNCHANGED <<sessions, observers, life, queue, listening, believed, missed, todo>>
  <2>1. CASE PostStop \/ TerminateActorAbort
    <3>1. open = FALSE
      BY <2>1 DEF PostStop, TerminateActorAbort, NInv, Shut
    <3> QED BY <2>1, <3>1 DEF PostStop, TerminateActorAbort, boxVars, obsVars, history, view,
               notifyVars, Ended
  <2>2. CASE HandlerPanic
    BY <2>2 DEF HandlerPanic, boxVars, obsVars, history, view, notifyVars, Ended
  <2> QED BY <2>1, <2>2
<1>2. pc \in {"top", "select", "connect", "post_stop"}
  BY DEF PostStop, HandlerPanic, TerminateActorAbort
<1>3. mailbox' \in Seq(Commands \cup SupervisionEvents) /\ Ends'
  <2>1. CASE mailbox' = mailbox
    BY <1>1, <2>1 DEF NInv, Types, Ends
  <2>2. CASE mailbox' = <<>>
    <3>1. Len(mailbox') = 0 /\ mailbox' \in Seq(Commands \cup SupervisionEvents)
      BY <2>2
    <3> QED BY <3>1 DEF Ends
  <2> QED BY <1>1, <2>1, <2>2
<1>4. Types'
  BY <1>1, <1>3 DEF NInv, Types, PCs
<1>5. Tracked'
  <2>1. CASE PostStop
    BY <1>1, <1>2, <2>1 DEF PostStop, NInv, Tracked
  <2>2. CASE HandlerPanic \/ TerminateActorAbort
    BY <2>2 DEF HandlerPanic, TerminateActorAbort, Tracked
  <2> QED BY <2>1, <2>2
<1>6. Shut' /\ Born' /\ Telling'
  BY <1>1 DEF NInv, Shut, Born, Telling, Ended
<1>7. Sent'
  BY <1>1, <1>2 DEF NInv, Sent, agrees, Table, Ended
<1> QED BY <1>3, <1>4, <1>5, <1>6, <1>7 DEF NInv

\* The handlers that keep the table and tell nobody anything.
LEMMA QuietHandlers ==
  ASSUME NInv,
         \/ AddListener \/ RemoveListener \/ Connect \/ Ask \/ Unregister
         \/ Signal \/ OtherEvent
  PROVE  NInv'
<1>1. /\ pc = "select" /\ mailbox # <<>> /\ mailbox' = Tail(mailbox)
      /\ UNCHANGED <<life, queue, listening, sessions, children, todo, believed, missed>>
      /\ pc' \in {"top", "connect", "ask"} /\ observers' \subseteq observers
  BY DEF AddListener, RemoveListener, Connect, Ask, Unregister, Signal, OtherEvent,
         recv, obsVars, tableVars, notifyVars, view
<1>2. mailbox' \in Seq(Commands \cup SupervisionEvents) /\ Ends'
  BY <1>1, Received
<1>3. label' \in Labels \cup {None}
  <2>1. CASE Connect
    <3>1. label' = Head(mailbox)[2] /\ Head(mailbox)[1] = "Connect"
      BY <2>1, Zenon DEF Connect, recv, arg
    <3> QED BY <3>1, <1>1, Received, Arguments, SMTT(20)
  <2>2. CASE label' = label
    BY <2>2 DEF NInv, Types
  <2>3. Connect \/ label' = label
    BY DEF AddListener, RemoveListener, Connect, Ask, Unregister, Signal, OtherEvent
  <2> QED BY <2>1, <2>2, <2>3
<1>4. /\ pc \notin {"notify"} \cup Ended /\ pc' \in PCs \ ({"notify"} \cup Ended)
      /\ Shut' /\ (pc' \in {"top", "select", "ask"} => label' = None)
  <2>1. open' = open /\ (pc' # "connect" => label' = label)
    BY DEF AddListener, RemoveListener, Connect, Ask, Unregister, Signal, OtherEvent, recv
  <2> QED BY <1>1, <2>1 DEF PCs, Ended, NInv, Shut, Telling
<1>5. life' \in [Sessions -> {"unborn", "open", "closed"}] /\ queue' \in [Observers -> Seq(NodeEvents)]
  BY <1>1 DEF NInv, Types
<1> QED BY <1>1, <1>2, <1>3, <1>4, <1>5, Aside, SMTT(20)

\* The steps of clients, sessions, listeners and observers, and the node's own that
\* touch neither table nor observers.
LEMMA OtherSteps ==
  ASSUME NInv,
         \/ Top \/ AskDone \/ Leave
         \/ \E l \in Listeners, result \in Accepts : AcceptReturns(l, result)
         \/ \E o \in Observers : ObserverHandle(o) \/ ObserverStop(o)
  PROVE  NInv'
<1>1. /\ UNCHANGED <<life, sessions, children, todo, believed, missed, observers, label>>
      /\ listening' \subseteq listening
  BY Zenon DEF Top, AskDone, Leave, AcceptReturns, ObserverHandle, ObserverStop, obsVars,
         tableVars, notifyVars, history, view
<1>2. \/ UNCHANGED <<pc, event, label, open>>
      \/ /\ pc \notin {"notify"} \cup Ended /\ pc' \in PCs \ ({"notify"} \cup Ended)
         /\ Shut' /\ (pc' \in {"top", "select", "ask"} => label' = None)
  <2>1. CASE \/ \E l \in Listeners, result \in Accepts : AcceptReturns(l, result)
             \/ \E o \in Observers : ObserverHandle(o) \/ ObserverStop(o)
    BY <2>1, Zenon DEF AcceptReturns, ObserverHandle, ObserverStop, notifyVars, boxVars
  <2>2. CASE Top \/ Leave
    <3>1. /\ pc = "top" /\ pc' \in {"select", "post_stop"}
          /\ open' = (IF pc' = "select" THEN open ELSE FALSE)
      BY <2>2 DEF Top, Leave, boxVars
    <3>2. open = TRUE
      BY <3>1 DEF NInv, Shut, Ended
    <3>3. Shut'
      <4>1. CASE pc' = "select"
        BY <3>1, <3>2, <4>1 DEF Shut, Ended
      <4>2. CASE pc' = "post_stop"
        BY <3>1, <4>2 DEF Shut, Ended
      <4> QED BY <3>1, <4>1, <4>2
    <3>4. pc' \in {"top", "select", "ask"} => label' = None
      BY <1>1, <3>1 DEF NInv, Telling
    <3> QED BY <3>1, <3>3, <3>4 DEF Ended, PCs
  <2>3. CASE AskDone
    <3>1. pc = "ask" /\ pc' = "top" /\ open' = open
      BY <2>3 DEF AskDone, boxVars
    <3>2. Shut'
      BY <3>1 DEF NInv, Shut, Ended
    <3>3. label' = None
      BY <1>1, <3>1 DEF NInv, Telling
    <3> QED BY <3>1, <3>2, <3>3 DEF Ended, PCs
  <2> QED BY <2>1, <2>2, <2>3
<1>3. queue' \in [Observers -> Seq(NodeEvents)]
  <2>1. CASE queue' = queue
    BY <2>1 DEF NInv, Types
  <2>2. ASSUME NEW o \in Observers, queue[o] # <<>>, queue' = [queue EXCEPT ![o] = Tail(@)]
        PROVE  queue' \in [Observers -> Seq(NodeEvents)]
    <3>1. Tail(queue[o]) \in Seq(NodeEvents)
      BY <2>2 DEF NInv, Types
    <3> QED BY <2>2, <3>1 DEF NInv, Types
  <2>3. ASSUME NEW o \in Observers, queue' = [queue EXCEPT ![o] = <<>>]
        PROVE  queue' \in [Observers -> Seq(NodeEvents)]
    BY <2>3 DEF NInv, Types
  <2> QED BY <2>1, <2>2, <2>3, Zenon DEF Top, AskDone, Leave, AcceptReturns, ObserverHandle,
         ObserverStop, obsVars
<1>4. mailbox' \in Seq(Commands \cup SupervisionEvents) /\ Ends'
  <2>1. CASE mailbox' = mailbox
    BY <1>1, <2>1 DEF NInv, Types, Ends
  <2>2. CASE mailbox' = <<>>
    <3>1. Len(mailbox') = 0 /\ mailbox' \in Seq(Commands \cup SupervisionEvents)
      BY <2>2
    <3> QED BY <3>1 DEF Ends
  <2> QED BY <2>1, <2>2, Zenon DEF Top, AskDone, Leave, AcceptReturns, ObserverHandle,
         ObserverStop, boxVars
<1>5. life' \in [Sessions -> {"unborn", "open", "closed"}] /\ label' \in Labels \cup {None}
  BY <1>1 DEF NInv, Types
<1> QED BY <1>1, <1>2, <1>3, <1>4, <1>5, Aside

LEMMA MessageSteps ==
  ASSUME NInv,
         \/ \E c \in Commands : Post(c)
         \/ \E s \in Sessions : SessionState(s) \/ SessionNext(s)
  PROVE  NInv'
<1>1. /\ UNCHANGED <<pc, event, open, sessions, children, todo, believed, missed, observers,
                     label, queue, listening>>
  BY DEF Post, SessionState, SessionNext, SessionEnd, tell, obsVars, tableVars,
         notifyVars, history, view
<1>2. /\ life' \in [Sessions -> {"unborn", "open", "closed"}]
      /\ \A s \in Sessions : /\ life'[s] = "open" => life[s] = "open"
                             /\ life'[s] = "unborn" => life[s] = "unborn"
                             /\ life[s] = "closed" => life'[s] = "closed"
  <2>1. CASE life' = life
    BY <2>1 DEF NInv, Types
  <2>2. ASSUME NEW s \in Sessions, life' = [life EXCEPT ![s] = "closed"], life[s] = "open"
        PROVE  <1>2!1 /\ <1>2!2
    BY <2>2 DEF NInv, Types
  <2> QED BY <2>1, <2>2 DEF Post, SessionState, SessionNext, SessionEnd
<1>3. mailbox' \in Seq(Commands \cup SupervisionEvents) /\ Ends'
  <2>1. CASE \E c \in Commands : Post(c)
    <3>1. PICK c \in Commands : Post(c)
      BY <2>1
    <3>2. c[1] # "Terminated"
      BY DEF Commands
    <3>3. mailbox' = Append(mailbox, c)
      BY <3>1 DEF Post
    <3> QED BY <1>2, <3>2, <3>3, Queued
  <2>2. CASE \E s \in Sessions : SessionState(s)
    <3>1. PICK s \in Sessions : SessionState(s)
      BY <2>2
    <3>2. mailbox' = mailbox \/ mailbox' = Append(mailbox, <<"State", s>>)
      BY <3>1 DEF SessionState, tell
    <3>3. <<"State", s>> \in SupervisionEvents /\ <<"State", s>>[1] # "Terminated"
      BY DEF SupervisionEvents
    <3> QED BY <1>2, <3>2, <3>3, Queued
  <2>3. CASE \E s \in Sessions : SessionNext(s)
    <3>1. PICK s \in Sessions, how \in {"Terminated", "Panicked"} : SessionEnd(s, how)
      BY <2>3 DEF SessionNext
    <3>2. mailbox' = mailbox \/ mailbox' = Append(mailbox, <<how, s>>)
      BY <3>1 DEF SessionEnd, tell
    <3>3. <<how, s>> \in SupervisionEvents /\ <<how, s>>[2] = s
      BY DEF SupervisionEvents
    <3>4. life'[s] = "closed"
      BY <3>1 DEF SessionEnd, NInv, Types
    <3> QED BY <1>2, <3>2, <3>3, <3>4, Queued
  <2> QED BY <2>1, <2>2, <2>3
<1>4. queue' \in [Observers -> Seq(NodeEvents)] /\ label' \in Labels \cup {None}
  <2>1. queue' = queue /\ label' = label
    BY <1>1
  <2> QED BY <2>1 DEF NInv, Types
<1> QED BY <1>1, <1>2, <1>3, <1>4, Aside

LEMMA AcceptStep ==
  ASSUME NInv, NEW l \in Listeners, Accept(l)
  PROVE  NInv'
<1>1. /\ pc = "select"
      /\ UNCHANGED <<mailbox, open, observers, label, queue, listening, obsVars, history,
                     believed, missed>>
  BY DEF Accept, boxVars, obsVars, history, view
<1>2. /\ label' \in Labels \cup {None} /\ queue' \in [Observers -> Seq(NodeEvents)]
      /\ label' = None
  BY <1>1 DEF NInv, Types, Telling
<1>3. CASE \E endpoint \in Labels : create_session(endpoint)
  BY <1>1, <1>2, <1>3, Created
<1>4. CASE pc' = "top" /\ UNCHANGED <<tableVars, notifyVars, life>>
  <2>1. UNCHANGED <<sessions, children, todo, life>>
    BY <1>4 DEF tableVars, notifyVars
  <2>2. mailbox' \in Seq(Commands \cup SupervisionEvents) /\ Ends'
    BY <1>1, <2>1 DEF NInv, Types, Ends
  <2>3. life' \in [Sessions -> {"unborn", "open", "closed"}]
    BY <2>1 DEF NInv, Types
  <2>4. /\ pc \notin {"notify"} \cup Ended /\ pc' \in PCs \ ({"notify"} \cup Ended)
        /\ Shut' /\ label' = None
    BY <1>1, <1>2, <1>4 DEF PCs, Ended, NInv, Shut
  <2> QED BY <1>1, <1>2, <2>1, <2>2, <2>3, <2>4, Aside
<1> QED BY <1>3, <1>4 DEF Accept

LEMMA ConnectDoneStep ==
  ASSUME NInv, ConnectDone
  PROVE  NInv'
<1>1. /\ pc = "connect" /\ label' = IF pc' = "notify" THEN label ELSE None
      /\ UNCHANGED <<mailbox, open, observers, queue, listening, obsVars, history, believed, missed>>
  BY DEF ConnectDone, boxVars, obsVars, history, view
<1>2. /\ queue' \in [Observers -> Seq(NodeEvents)] /\ label \in Labels \cup {None}
      /\ label' \in Labels \cup {None} /\ (pc' = "top" => label' = None)
  BY <1>1 DEF NInv, Types
<1>3. CASE create_session(label)
  BY <1>1, <1>2, <1>3, Created
<1>4. CASE pc' = "top" /\ UNCHANGED <<tableVars, notifyVars, life>>
  <2>1. UNCHANGED <<sessions, children, todo, life>>
    BY <1>4 DEF tableVars, notifyVars
  <2>2. mailbox' \in Seq(Commands \cup SupervisionEvents) /\ Ends'
    BY <1>1, <2>1 DEF NInv, Types, Ends
  <2>3. life' \in [Sessions -> {"unborn", "open", "closed"}]
    BY <2>1 DEF NInv, Types
  <2>4. /\ pc \notin {"notify"} \cup Ended /\ pc' \in PCs \ ({"notify"} \cup Ended)
        /\ Shut' /\ label' = None
    BY <1>1, <1>2, <1>4 DEF PCs, Ended, NInv, Shut
  <2> QED BY <1>1, <1>2, <2>1, <2>2, <2>3, <2>4, Aside
<1> QED BY <1>3, <1>4 DEF ConnectDone

-----------------------------------------------------------------------------
(* The theorems.                                                            *)

\* NInv is an inductive invariant of Node: every step of run_loop, of its handlers
\* and of the actors around it preserves it.
THEOREM Invariant == Spec => []NInv
<1>1. Init => NInv
  <2> SUFFICES ASSUME Init PROVE NInv
    OBVIOUS
  <2>1. Types
    BY DEF Init, Types, PCs
  <2>2. Tracked /\ Shut /\ Born /\ Sent /\ Telling
    BY DEF Init, Tracked, Shut, Ended, Born, Sent, Telling
  <2>3. Len(mailbox) = 0
    BY DEF Init
  <2>4. Ends
    BY <2>3 DEF Ends
  <2> QED BY <2>1, <2>2, <2>4 DEF NInv, Init
<1>2. NInv /\ [Next]_vars => NInv'
  <2> SUFFICES ASSUME NInv, [Next]_vars PROVE NInv'
    OBVIOUS
  <2>1. CASE TaskNext
    BY <2>1, OtherSteps, NotifyOneStep, NotifyDoneStep, ConnectDoneStep, EndStep
       DEF TaskNext
  <2>7. CASE Expire \/ HandlerPanic \/ TerminateActorAbort
    BY <2>7, ExpireStep, EndStep
  <2>2. CASE Handle
    BY <2>2, QuietHandlers, RegisterStep, TerminatedStep DEF Handle
  <2>3. ASSUME NEW l \in Listeners,
               \/ Accept(l)
               \/ \E result \in Accepts \ {"waiting"} : AcceptReturns(l, result)
        PROVE  NInv'
    BY <2>3, AcceptStep, OtherSteps
  <2>4. CASE \/ \E c \in Commands : Post(c)
             \/ \E s \in Sessions : SessionState(s) \/ SessionNext(s)
    BY <2>4, MessageSteps
  <2>5. CASE \E o \in Observers : ObserverHandle(o) \/ ObserverStop(o)
    BY <2>5, OtherSteps, Zenon
  <2>6. CASE UNCHANGED vars
    <3>1. UNCHANGED <<pc, mailbox, open, sessions, children, observers, label, event, todo,
                      life, queue, listening, believed, missed>>
      BY <2>6 DEF vars
    <3>2. Table' = Table
      BY <3>1, SMTT(20) DEF Table
    <3>3. Types' /\ Tracked' /\ Ends' /\ Born'
      BY <3>1 DEF NInv, Types, Tracked, Ends, Born
    <3>5. Shut' /\ Telling'
      BY <3>1 DEF NInv, Shut, Telling
    <3>4. Sent'
      BY <3>1, <3>2 DEF NInv, Sent, agrees, pending
    <3> QED BY <3>3, <3>4, <3>5 DEF NInv
  <2> QED BY <2>1, <2>2, <2>3, <2>4, <2>5, <2>6, <2>7 DEF Next
<1> QED BY <1>1, <1>2, PTL DEF Spec

\* While the node handles messages every running session is among its children, which
\* create_session adds it to before it can end, so that none is left when post_stop,
\* which waits for every child, has returned.  A node that panics or is aborted inside
\* post_stop may leave sessions behind.
THEOREM NoOrphans == Spec => []NoOrphanSession
<1>1. NInv => NoOrphanSession
  BY DEF NInv, Tracked, Shut, Ended, NoOrphanSession
<1> QED BY <1>1, Invariant, PTL

\* At the select! of its loop the node and every living observer agree on the
\* sessions that were created since the observer registered, but for one whose Connect
\* ran out of time before it told the observer.
THEOREM Agreement == Spec => []ObserversAgree
<1>1. NInv => ObserversAgree
  BY DEF NInv, Sent, agrees, ObserversAgree
<1> QED BY <1>1, Invariant, PTL


-----------------------------------------------------------------------------
(* Listeners and their accept tasks.                                        *)

\* The loop is left.
Out == {"post_stop", "ended", "panicked", "aborted"}

USE DEF Out

\* A listener is either still to get its accept task or has one; the new ones wait
\* for the top of the loop only.
Accepting ==
  /\ listener_labels \subseteq Listeners
  /\ listeners \in [Listeners -> Nat]
  /\ accept_tasks \in [Listeners -> [Accepts -> Nat]]
  /\ pc \notin Out =>
       \A l \in Listeners : tasksOf(l) + listeners[l] = IF l \in listener_labels THEN 1 ELSE 0
  /\ pc \notin {"top"} \cup Out => \A l \in Listeners : listeners[l] = 0

LEMMA Counts ==
  ASSUME NEW f \in [Accepts -> Nat]
  PROVE  f["waiting"] \in Nat /\ f["ok"] \in Nat /\ f["err"] \in Nat /\ f["panic"] \in Nat
BY DEF Accepts

LEMMA TopAccepts ==
  ASSUME Accepting, Top
  PROVE  Accepting'
<1>1. /\ pc = "top" /\ pc' = "select" /\ listener_labels' = listener_labels
      /\ listeners' = [l \in Listeners |-> 0]
  BY DEF Top
<1>2. ASSUME NEW l \in Listeners
      PROVE  accept_tasks'[l] = [(IF l \in listener_labels THEN accept_tasks[l] ELSE noTask)
                                   EXCEPT !["waiting"] = @ + listeners[l]]
  BY DEF Top
<1>3. ASSUME NEW l \in Listeners
      PROVE  /\ accept_tasks'[l] \in [Accepts -> Nat]
             /\ tasksOf(l)' + listeners'[l] = IF l \in listener_labels THEN 1 ELSE 0
  <2>1. /\ accept_tasks[l] \in [Accepts -> Nat] /\ noTask \in [Accepts -> Nat]
        /\ listeners[l] \in Nat /\ listeners'[l] = 0
        /\ tasksOf(l) + listeners[l] = IF l \in listener_labels THEN 1 ELSE 0
    BY <1>1 DEF Accepting, noTask
  <2> DEFINE kept == IF l \in listener_labels THEN accept_tasks[l] ELSE noTask
  <2>2. /\ kept \in [Accepts -> Nat]
        /\ accept_tasks'[l] = [kept EXCEPT !["waiting"] = @ + listeners[l]]
    BY <1>2, <2>1
  <2>3. kept["waiting"] + kept["ok"] + kept["err"] + kept["panic"] + listeners[l]
          = IF l \in listener_labels THEN 1 ELSE 0
    <3>1. CASE l \in listener_labels
      BY <2>1, <3>1 DEF tasksOf
    <3>2. CASE l \notin listener_labels
      <4>1. listeners[l] = 0
        BY <2>1, <3>2, Counts DEF tasksOf
      <4>2. kept["waiting"] = 0 /\ kept["ok"] = 0 /\ kept["err"] = 0 /\ kept["panic"] = 0
        BY <3>2 DEF noTask, Accepts
      <4> HIDE DEF kept
      <4> QED BY <3>2, <4>1, <4>2
    <3> QED BY <3>1, <3>2
  <2> HIDE DEF kept
  <2>4. /\ accept_tasks'[l]["waiting"] = kept["waiting"] + listeners[l]
        /\ accept_tasks'[l]["ok"] = kept["ok"] /\ accept_tasks'[l]["err"] = kept["err"]
        /\ accept_tasks'[l]["panic"] = kept["panic"]
    BY <2>2 DEF Accepts
  <2>5. /\ kept["waiting"] \in Nat /\ kept["ok"] \in Nat /\ kept["err"] \in Nat
        /\ kept["panic"] \in Nat /\ kept["waiting"] + listeners[l] \in Nat
    BY <2>1, <2>2, Counts
  <2>6. accept_tasks'[l] \in [Accepts -> Nat]
    BY <2>2, <2>5, Zenon
  <2> QED BY <2>1, <2>3, <2>4, <2>5, <2>6 DEF tasksOf
<1>4. accept_tasks' \in [Listeners -> [Accepts -> Nat]]
  <2>1. accept_tasks' = [l \in Listeners |-> accept_tasks'[l]]
    BY DEF Top
  <2> QED BY <1>3, <2>1
<1> QED BY <1>1, <1>3, <1>4 DEF Accepting

LEMMA SomeTask ==
  ASSUME NEW a \in Nat, NEW b \in Nat, NEW c \in Nat, NEW d \in Nat,
         a > 0 \/ b > 0 \/ c > 0 \/ d > 0
  PROVE  a + b + c + d \in Nat /\ a + b + c + d > 0
OBVIOUS

\* One accept task changes its outcome, or is gone with its listener.
LEMMA OneTask ==
  ASSUME Accepting, NEW l \in Listeners, NEW from \in Accepts, NEW to \in Accepts,
         pc = "select" \/ pc' = pc, accept_tasks[l][from] > 0, from # to,
         pc' \notin Out => pc \notin Out,
         listeners' = listeners,
         \/ /\ accept_tasks' = [accept_tasks EXCEPT ![l][from] = @ - 1, ![l][to] = @ + 1]
            /\ listener_labels' = listener_labels
         \/ /\ accept_tasks' = [accept_tasks EXCEPT ![l][from] = @ - 1]
            /\ listener_labels' = listener_labels \ {l}
  PROVE  Accepting'
<1>1. /\ accept_tasks[l] \in [Accepts -> Nat] /\ listeners[l] \in Nat
      /\ listener_labels' \subseteq Listeners
  BY DEF Accepting
<1>2. ASSUME NEW k \in Listeners, k # l
      PROVE  accept_tasks'[k] = accept_tasks[k] /\ (k \in listener_labels' <=> k \in listener_labels)
  BY <1>2 DEF Accepting
<1>3. \/ /\ accept_tasks'[l] = [accept_tasks[l] EXCEPT ![from] = @ - 1, ![to] = @ + 1]
         /\ listener_labels' = listener_labels
      \/ /\ accept_tasks'[l] = [accept_tasks[l] EXCEPT ![from] = @ - 1]
         /\ listener_labels' = listener_labels \ {l}
  BY Zenon DEF Accepting
<1>4. accept_tasks'[l] \in [Accepts -> Nat]
  BY <1>1, <1>3
<1>5. accept_tasks' \in [Listeners -> [Accepts -> Nat]]
  <2>1. \A k \in Listeners : accept_tasks'[k] \in [Accepts -> Nat]
    BY <1>2, <1>4 DEF Accepting
  <2>2. accept_tasks' = [k \in Listeners |-> accept_tasks'[k]]
    BY DEF Accepting
  <2> QED BY <2>1, <2>2
<1>6. ASSUME pc' \notin Out
      PROVE  \A k \in Listeners :
                tasksOf(k)' + listeners'[k] = IF k \in listener_labels' THEN 1 ELSE 0
  <2>1. \A k \in Listeners : tasksOf(k) + listeners[k] = IF k \in listener_labels THEN 1 ELSE 0
    BY <1>6 DEF Accepting
  <2>2. ASSUME NEW k \in Listeners, k # l
        PROVE  tasksOf(k)' + listeners'[k] = IF k \in listener_labels' THEN 1 ELSE 0
    BY <1>2, <2>1, <2>2 DEF tasksOf
  <2>3. l \in listener_labels /\ tasksOf(l) = 1 /\ listeners[l] = 0
    <3>1. tasksOf(l) + listeners[l] = IF l \in listener_labels THEN 1 ELSE 0
      BY <2>1
    <3>2. tasksOf(l) \in Nat /\ tasksOf(l) > 0
      <4>1. /\ accept_tasks[l]["waiting"] \in Nat /\ accept_tasks[l]["ok"] \in Nat
            /\ accept_tasks[l]["err"] \in Nat /\ accept_tasks[l]["panic"] \in Nat
        BY <1>1, Counts
      <4>2. \/ accept_tasks[l]["waiting"] > 0 \/ accept_tasks[l]["ok"] > 0
            \/ accept_tasks[l]["err"] > 0 \/ accept_tasks[l]["panic"] > 0
        BY DEF Accepts
      <4> QED BY <4>1, <4>2, SomeTask DEF tasksOf
    <3> QED BY <1>1, <3>1, <3>2
  <2>4. tasksOf(l)' = IF listener_labels' = listener_labels THEN 1 ELSE 0
    BY <1>1, <1>3, <2>3 DEF tasksOf, Accepts
  <2> QED BY <1>1, <1>3, <2>2, <2>3, <2>4
<1>7. pc' \notin {"top"} \cup Out => \A k \in Listeners : listeners'[k] = 0
  BY DEF Accepting
<1> QED BY <1>1, <1>5, <1>6, <1>7 DEF Accepting

LEMMA AcceptAccepts ==
  ASSUME Accepting, NEW l \in Listeners, Accept(l)
  PROVE  Accepting'
<1>1. pc = "select" /\ listeners' = listeners
  BY SMTT(20) DEF Accept
<1>2. CASE accept_tasks[l]["ok"] > 0
           /\ accept_tasks' = [accept_tasks EXCEPT ![l]["ok"] = @ - 1, ![l]["waiting"] = @ + 1]
           /\ UNCHANGED listener_labels
  BY <1>1, <1>2, OneTask, ZenonT(20) DEF Accepts
<1>3. CASE accept_tasks[l]["err"] > 0
           /\ accept_tasks' = [accept_tasks EXCEPT ![l]["err"] = @ - 1, ![l]["waiting"] = @ + 1]
           /\ UNCHANGED listener_labels
  BY <1>1, <1>3, OneTask, ZenonT(20) DEF Accepts
<1>4. CASE accept_tasks[l]["panic"] > 0
           /\ accept_tasks' = [accept_tasks EXCEPT ![l]["panic"] = @ - 1]
           /\ listener_labels' = listener_labels \ {l}
  BY <1>1, <1>4, OneTask, Zenon DEF Accepts
<1> QED BY <1>2, <1>3, <1>4 DEF Accept

\* AddListener and RemoveListener act on a table whose every listener has its task.
LEMMA ListenerAccepts ==
  ASSUME NInv, Accepting, AddListener \/ RemoveListener
  PROVE  Accepting'
<1>1. /\ pc = "select" /\ pc' = "top"
      /\ \A l \in Listeners : /\ tasksOf(l) = (IF l \in listener_labels THEN 1 ELSE 0)
                              /\ listeners[l] = 0
                              /\ accept_tasks[l] \in [Accepts -> Nat]
  <2>1. pc = "select" /\ pc' = "top"
    BY DEF AddListener, RemoveListener, recv
  <2>2. ASSUME NEW l \in Listeners
        PROVE  /\ tasksOf(l) = (IF l \in listener_labels THEN 1 ELSE 0)
               /\ listeners[l] = 0
               /\ accept_tasks[l] \in [Accepts -> Nat]
    BY <2>1 DEF Accepting, tasksOf, Accepts
  <2> QED BY <2>1, <2>2
<1>2. arg \in Listeners
  <2>1. /\ mailbox # <<>> /\ mailbox \in Seq(Commands \cup SupervisionEvents)
        /\ Head(mailbox)[1] \in {"AddListener", "RemoveListener"}
    BY DEF AddListener, RemoveListener, recv, NInv, Types
  <2>2. Head(mailbox) \in Commands \cup SupervisionEvents
    BY <2>1
  <2> QED BY <2>1, <2>2 DEF Commands, SupervisionEvents, arg
<1>3. CASE AddListener
  <2>1. /\ listener_labels' = listener_labels \cup {arg} /\ accept_tasks' = accept_tasks
        /\ listeners' = IF arg \in listener_labels THEN listeners
                                                   ELSE [listeners EXCEPT ![arg] = @ + 1]
    BY <1>3 DEF AddListener
  <2>2. /\ listeners' \in [Listeners -> Nat] /\ listener_labels' \subseteq Listeners
        /\ accept_tasks' \in [Listeners -> [Accepts -> Nat]]
    BY <1>2, <2>1 DEF Accepting
  <2>3. ASSUME NEW l \in Listeners
        PROVE  tasksOf(l)' + listeners'[l] = IF l \in listener_labels' THEN 1 ELSE 0
    <3>1. tasksOf(l)' = tasksOf(l)
      BY <2>1 DEF tasksOf
    <3> QED BY <1>1, <1>2, <2>1, <3>1 DEF Accepting
  <2> QED BY <1>1, <2>2, <2>3 DEF Accepting
<1>4. CASE RemoveListener
  <2>1. /\ listener_labels' = listener_labels \ {arg} /\ listeners' = listeners
        /\ accept_tasks' = IF arg \in listener_labels
                           THEN [accept_tasks EXCEPT ![arg] = noTask] ELSE accept_tasks
    BY <1>4 DEF RemoveListener
  <2>2. /\ listeners' \in [Listeners -> Nat] /\ listener_labels' \subseteq Listeners
        /\ accept_tasks' \in [Listeners -> [Accepts -> Nat]]
    <3>1. noTask \in [Accepts -> Nat]
      BY DEF noTask
    <3> QED BY <1>2, <2>1, <3>1 DEF Accepting
  <2>3. ASSUME NEW l \in Listeners
        PROVE  tasksOf(l)' = IF l \in listener_labels' THEN 1 ELSE 0
    <3>1. CASE l # arg \/ arg \notin listener_labels
      <4>1. accept_tasks'[l] = accept_tasks[l]
        BY <1>2, <2>1, <3>1 DEF Accepting
      <4>2. tasksOf(l)' = tasksOf(l)
        BY <4>1 DEF tasksOf
      <4> QED BY <1>1, <2>1, <3>1, <4>2
    <3>2. CASE l = arg /\ arg \in listener_labels
      <4>1. accept_tasks'[l] = noTask
        BY <1>2, <2>1, <3>2 DEF Accepting
      <4> QED BY <2>1, <3>2, <4>1 DEF tasksOf, noTask, Accepts
    <3> QED BY <3>1, <3>2
  <2> QED BY <1>1, <2>1, <2>2, <2>3 DEF Accepting
<1> QED BY <1>3, <1>4

\* What leaves the listeners alone and does not leave the loop's events for its top.
LEMMA ListenersAside ==
  ASSUME Accepting, UNCHANGED listenVars,
         \/ pc' = pc
         \/ pc \in {"select", "notify", "connect", "ask"}
         \/ pc' \in Out
  PROVE  Accepting'
<1>1. UNCHANGED <<listener_labels, listeners, accept_tasks>>
  BY DEF listenVars
<1>2. \A l \in Listeners : tasksOf(l)' = tasksOf(l)
  BY <1>1 DEF tasksOf
<1> QED BY <1>1, <1>2 DEF Accepting

LEMMA LeaveAccepts ==
  ASSUME Accepting, Leave
  PROVE  Accepting'
<1>1. /\ pc' = "post_stop" /\ UNCHANGED <<listener_labels, listeners>>
      /\ accept_tasks' = [l \in Listeners |-> noTask]
  BY DEF Leave
<1>2. noTask \in [Accepts -> Nat]
  BY DEF noTask
<1> QED BY <1>1, <1>2 DEF Accepting

LEMMA AcceptingStep ==
  ASSUME NInv, Accepting, [Next]_vars
  PROVE  Accepting'
<1>1. CASE Top
  BY <1>1, TopAccepts
<1>2. CASE Leave
  BY <1>2, LeaveAccepts
<1>3. CASE \/ NotifyOne \/ NotifyDone \/ ConnectDone \/ AskDone \/ PostStop
           \/ Expire \/ HandlerPanic \/ TerminateActorAbort
  <2>1. UNCHANGED listenVars
    BY <1>3 DEF NotifyOne, NotifyDone, ConnectDone, AskDone, PostStop, Expire, HandlerPanic,
                TerminateActorAbort
  <2>2. \/ pc' = pc \/ pc' \in Out
        \/ pc \in {"select", "notify", "connect", "ask"}
    BY <1>3 DEF NotifyOne, NotifyDone, ConnectDone, AskDone, PostStop, Expire, HandlerPanic,
                TerminateActorAbort, create_session, notify_observers
  <2> QED BY <2>1, <2>2, ListenersAside
<1>4. CASE AddListener \/ RemoveListener
  BY <1>4, ListenerAccepts
<1>5. CASE \/ Connect \/ Ask \/ Register \/ Unregister \/ Signal \/ Terminated \/ OtherEvent
  <2>1. UNCHANGED listenVars
    BY <1>5, SMTT(20) DEF Connect, Ask, Register, Unregister, Signal, Terminated, OtherEvent
  <2>2. pc = "select"
    BY <1>5 DEF Connect, Ask, Register, Unregister, Signal, Terminated, OtherEvent, recv,
                notify_observers
  <2> QED BY <2>1, <2>2, ListenersAside
<1>6. ASSUME NEW l \in Listeners, Accept(l)
      PROVE  Accepting'
  BY <1>6, AcceptAccepts, SMTT(20)
<1>7. ASSUME NEW l \in Listeners, NEW result \in Accepts \ {"waiting"}, AcceptReturns(l, result)
      PROVE  Accepting'
  <2>1. /\ pc' = pc /\ UNCHANGED <<listeners, listener_labels>>
        /\ accept_tasks[l]["waiting"] > 0
        /\ accept_tasks' = [accept_tasks EXCEPT ![l]["waiting"] = @ - 1, ![l][result] = @ + 1]
    BY <1>7 DEF AcceptReturns
  <2> QED BY <2>1, OneTask, Zenon DEF Accepts
<1>8. CASE \/ \E c \in Commands : Post(c)
           \/ \E s \in Sessions : SessionState(s) \/ SessionNext(s)
           \/ \E o \in Observers : ObserverHandle(o) \/ ObserverStop(o)
           \/ UNCHANGED vars
  <2>1. UNCHANGED listenVars /\ pc' = pc
    BY <1>8, Zenon DEF Post, SessionState, SessionNext, SessionEnd, tell, ObserverHandle, ObserverStop,
                vars, listenVars
  <2> QED BY <2>1, ListenersAside
<1> QED BY <1>1, <1>2, <1>3, <1>4, <1>5, <1>6, <1>7, <1>8, Zenon DEF Next, TaskNext, Handle

\* Whenever the node waits for its next event, every endpoint of listener_labels has
\* exactly one accept task and no other endpoint has any: AddListener, RemoveListener,
\* the tasks that end and the bookkeeping of recv_or_accept never leave a listener
\* without its task or with two.
THEOREM OneAcceptor == Spec => []AcceptorsMatchListeners
<1>1. Init => Accepting
  <2> SUFFICES ASSUME Init PROVE Accepting
    OBVIOUS
  <2>1. \A l \in Listeners : accept_tasks[l] = noTask /\ noTask \in [Accepts -> Nat]
    BY DEF Init, noTask
  <2>2. \A l \in Listeners : tasksOf(l) = 0
    BY <2>1 DEF tasksOf, noTask, Accepts
  <2>3. accept_tasks \in [Listeners -> [Accepts -> Nat]]
    BY <2>1 DEF Init
  <2> QED BY <2>2, <2>3 DEF Init, Accepting
<1>2. NInv /\ Accepting /\ [Next]_vars => Accepting'
  BY AcceptingStep
<1>3. Accepting => AcceptorsMatchListeners
  <2> SUFFICES ASSUME Accepting, pc = "select", NEW l \in Listeners
               PROVE  tasksOf(l) = IF l \in listener_labels THEN 1 ELSE 0
    BY DEF AcceptorsMatchListeners
  <2> QED BY DEF Accepting, tasksOf, Accepts
<1> QED BY <1>1, <1>2, <1>3, Invariant, PTL DEF Spec

=============================================================================
