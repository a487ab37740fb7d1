------------------------------ MODULE Registry ------------------------------
(***************************************************************************)
(* What makes the actors of a process reachable from others: the registry  *)
(* of remote mailboxes that all sessions share, the ActorMgr actor with    *)
(* its labels and factories, the registration that encoding an address     *)
(* does, the lookups of a session, and the tasks that forward messages to  *)
(* recipients made by Recipient::create_remote                             *)
(* (acktor-ipc/src/remote/registry.rs, node/actor_mgr.rs,                  *)
(* session/proxy.rs, acktor/src/codec.rs, address/recipient.rs).           *)
(*                                                                         *)
(* The index of an actor or recipient is never used again in a process, so *)
(* it stands for its index.  A remote mailbox is the actor itself or, for  *)
(* a recipient, the forwarding task that reads it.                         *)
(***************************************************************************)
EXTENDS Naturals, Sequences

CONSTANTS
  Actors,      \* remote addressable actors
  Recipients,  \* recipients made by create_remote
  Labels,      \* labels for actors
  Forwarders,  \* identities for forwarding tasks, used again once they are over
  MaxMessages, \* bound: messages that the peer sends
  Capacity     \* capacity of a recipient's channel and of its remote mailbox

None == "none"
Keys == Actors \cup Recipients
Mailboxes == Actors \cup Forwarders
Messages == 1 .. MaxMessages

ASSUME RegistryAssumption ==
  /\ Actors \cap Recipients = {} /\ Actors \cap Forwarders = {}
  /\ None \notin Keys \cup Forwarders \cup Labels
  /\ MaxMessages \in Nat
  /\ Capacity \in Nat \ {0}

VARIABLES
  alive,     \* whether the actor's mailbox, the recipient's receiver, exists
  registry,  \* RemoteMailboxRegistry::inner
  labels,    \* ActorMgr::actor_labels
  mgr,       \* where the task of ActorMgr is, and its locals
  task,      \* the forwarding tasks: where each is
  reads,     \* the recipient each forwards to
  raw,       \* the channel each receives from
  holding,   \* the message each is about to pass on
  inbox,     \* the channel of each recipient
  handled,   \* how many messages of the peer the session has taken
  sending,   \* the remote mailbox the session waits to send to
  last,      \* history: the last message passed on to each recipient
  exported,  \* history: indices that were registered by encoding them
  removed    \* history: indices that RemoveActor took out

mgrVars == <<labels, mgr>>
taskVars == <<task, reads, raw, holding>>
sessionVars == <<handled, sending>>
history == <<last, exported, removed>>
vars == <<alive, registry, labels, mgr, task, reads, raw, holding, inbox,
          handled, sending, last, exported, removed>>

idle == [at |-> "idle", label |-> None, actor |-> None]

\* Each variable keeps to its values: what is registered is a mailbox, labels name
\* actors, and the channels hold messages (RemoteMailboxRegistry, ActorMgr).
TypeOK ==
  /\ alive \in [Keys -> {"unborn", "open", "closed"}]
  /\ registry \in [Keys -> Mailboxes \cup {None}]
  /\ labels \in [Labels -> Actors \cup {None}]
  /\ mgr \in [at : {"idle", "sweep", "spawn", "created"},
              label : Labels \cup {None}, actor : Actors \cup {None}]
  /\ task \in [Forwarders -> {"unused", "recv", "send", "ended"}]
  /\ reads \in [Forwarders -> Recipients \cup {None}]
  /\ raw \in [Forwarders -> Seq(Messages)]
  /\ holding \in [Forwarders -> Messages \cup {0}]
  /\ inbox \in [Recipients -> Seq(Messages)]
  /\ handled \in 0 .. MaxMessages
  /\ sending \in Forwarders \cup {None}
  /\ last \in [Recipients -> Nat]
  /\ exported \in SUBSET Keys
  /\ removed \in SUBSET Keys

\* Whether a remote mailbox is closed.
is_closed(box) ==
  IF box \in Actors THEN alive[box] = "closed" ELSE task[box] = "ended"

-----------------------------------------------------------------------------
(* RemoteMailboxRegistry: every method works on one entry at a time.        *)

closedAt(k) == registry[k] # None /\ is_closed(registry[k])

\* Mutant: a mailbox that is registered again takes the place of the first.
InsertReplaces(k, box) == [registry EXCEPT ![k] = box]

\* insert: an entry that is there stays, even when it is closed.
insert(k, box) ==
  [registry EXCEPT ![k] = IF registry[k] = None THEN box ELSE registry[k]]

\* get and contains_index: a closed mailbox is taken out and not found.
get(k) == IF closedAt(k) THEN None ELSE registry[k]
afterGet(K) == [k \in Keys |-> IF k \in K /\ closedAt(k) THEN None ELSE registry[k]]

\* Some actors run already, and Node::with_actor gave labels to some of them.
Init ==
  /\ alive \in [Keys -> {"unborn", "open"}]
  /\ \A c \in Recipients : alive[c] = "open"
  /\ labels \in [Labels -> {a \in Actors : alive[a] = "open"} \cup {None}]
  /\ \A x, y \in Labels : labels[x] = labels[y] /\ labels[x] # None => x = y
  /\ registry = [k \in Keys |-> IF \E x \in Labels : labels[x] = k THEN k ELSE None]
  /\ mgr = idle
  /\ task = [f \in Forwarders |-> "unused"]
  /\ reads = [f \in Forwarders |-> None]
  /\ raw = [f \in Forwarders |-> <<>>]
  /\ holding = [f \in Forwarders |-> 0]
  /\ inbox = [c \in Recipients |-> <<>>]
  /\ handled = 0
  /\ sending = None
  /\ last = [c \in Recipients |-> 0]
  /\ exported = {}
  /\ removed = {}

-----------------------------------------------------------------------------
(* ActorMgr: one message at a time; only it touches the labels.             *)

\* The first half of the cron task: registry.retain.
Sweep ==
  /\ mgr = idle
  /\ mgr' = [idle EXCEPT !.at = "sweep"]
  /\ registry' = [k \in Keys |-> IF closedAt(k) THEN None ELSE registry[k]]
  /\ UNCHANGED <<alive, labels, taskVars, inbox, sessionVars, history>>

\* Mutant: the labels are never swept.
SweepNoLabels ==
  /\ mgr.at = "sweep"
  /\ mgr' = idle
  /\ UNCHANGED <<alive, registry, labels, taskVars, inbox, sessionVars, history>>

\* The second half: labels whose actor is not registered any more are dropped.
SweepLabels ==
  /\ mgr.at = "sweep"
  /\ mgr' = idle
  /\ labels' = [x \in Labels |-> IF labels[x] # None /\ get(labels[x]) # None
                                 THEN labels[x] ELSE None]
  /\ registry' = afterGet({labels[x] : x \in Labels})
  /\ UNCHANGED <<alive, taskVars, inbox, sessionVars, history>>

\* CreateActor with a known factory and a new label: the factory runs in a task
\* of its own.  With an unknown factory or a label in use nothing changes.
CreateActor(x) ==
  /\ mgr = idle
  /\ labels[x] = None
  /\ \E a \in Actors :
       /\ alive[a] = "unborn"
       /\ mgr' = [at |-> "spawn", label |-> x, actor |-> a]
  /\ UNCHANGED <<alive, registry, labels, taskVars, inbox, sessionVars, history>>

\* create_remote returns the started actor.
FactoryOk ==
  /\ mgr.at = "spawn"
  /\ mgr' = [mgr EXCEPT !.at = "created"]
  /\ alive' = [alive EXCEPT ![mgr.actor] = "open"]
  /\ UNCHANGED <<registry, labels, taskVars, inbox, sessionVars, history>>

\* create_remote fails or panics.
FactoryFail ==
  /\ mgr.at = "spawn"
  /\ mgr' = idle
  /\ UNCHANGED <<alive, registry, labels, taskVars, inbox, sessionVars, history>>

\* The rest of CreateActor; the actor may have registered itself, or be gone.
CreateDone ==
  /\ mgr.at = "created"
  /\ mgr' = idle
  /\ registry' = insert(mgr.actor, mgr.actor)
  /\ labels' = [labels EXCEPT ![mgr.label] = mgr.actor]
  /\ UNCHANGED <<alive, taskVars, inbox, sessionVars, history>>

\* GetActor: the lookup by label takes a closed mailbox out of the registry.
GetActor(x) ==
  /\ mgr = idle
  /\ labels[x] # None
  /\ registry' = afterGet({labels[x]})
  /\ UNCHANGED <<alive, mgrVars, taskVars, inbox, sessionVars, history>>

\* AddActor; refused for a label in use and for a registered actor.
AddActor(x, a) ==
  /\ mgr = idle
  /\ alive[a] # "unborn"
  /\ labels[x] = None
  /\ registry[a] = None
  /\ registry' = insert(a, a)
  /\ labels' = [labels EXCEPT ![x] = a]
  /\ UNCHANGED <<alive, mgr, taskVars, inbox, sessionVars, history>>

remove(k) ==
  /\ registry' = [registry EXCEPT ![k] = None]
  /\ exported' = exported \ {k}
  /\ removed' = removed \cup {k}
  /\ UNCHANGED <<alive, mgr, taskVars, inbox, sessionVars, last>>

\* Mutant: the labels of the actor are left behind.
RemoveIndexOnly(k) ==
  /\ mgr = idle
  /\ UNCHANGED labels
  /\ remove(k)

\* RemoveActor with an index.
RemoveIndex(k) ==
  /\ mgr = idle
  /\ labels' = [x \in Labels |-> IF labels[x] = k THEN None ELSE labels[x]]
  /\ remove(k)

\* RemoveActor with a label.
RemoveLabel(x) ==
  /\ mgr = idle
  /\ labels[x] # None
  /\ labels' = [labels EXCEPT ![x] = None]
  /\ remove(labels[x])

-----------------------------------------------------------------------------
(* Encoding an address or recipient registers it (Address::register,        *)
(* Recipient::register, Proxy::register); the result of insert is ignored.  *)

registered(k, box) ==
  /\ registry' = insert(k, box)
  /\ exported' = exported \cup {k}
  /\ UNCHANGED <<alive, mgrVars, inbox, sessionVars, last, removed>>

EncodeAddress(a) ==
  /\ alive[a] # "unborn"
  /\ registered(a, a)
  /\ UNCHANGED taskVars

\* Somebody owns the sender of the task's channel.
referenced(f) == sending = f \/ \E k \in Keys : registry[k] = f

active(f) == task[f] \in {"recv", "send"}

\* RemoteAddressableProxy::remote_mailbox spawns a forwarding task each time.
EncodeRecipient(c, f) ==
  /\ ~active(f) /\ ~referenced(f)
  /\ task' = [task EXCEPT ![f] = "recv"]
  /\ reads' = [reads EXCEPT ![f] = c]
  /\ raw' = [raw EXCEPT ![f] = <<>>]
  /\ UNCHANGED holding
  /\ registered(c, f)

-----------------------------------------------------------------------------
(* The session hands the peer's messages on, in order (do_send).            *)

\* Session::find_mailbox for the next message; what the mailbox of an actor does
\* with it is part of Actor.
FindMailbox(k) ==
  /\ sending = None
  /\ handled < MaxMessages
  /\ sending' = IF get(k) \in Forwarders THEN get(k) ELSE None
  /\ registry' = afterGet({k})
  /\ handled' = handled + 1
  /\ UNCHANGED <<alive, mgrVars, taskVars, inbox, history>>

\* The message enters the remote mailbox of a recipient.
Forward ==
  /\ sending # None
  /\ active(sending)
  /\ Len(raw[sending]) < Capacity
  /\ raw' = [raw EXCEPT ![sending] = Append(@, handled)]
  /\ sending' = None
  /\ UNCHANGED <<alive, registry, mgrVars, task, reads, holding, inbox, handled,
                 history>>

\* The remote mailbox is closed: SessionError::ForwardInboundMessageFailed.
ForwardFail ==
  /\ sending # None
  /\ task[sending] = "ended"
  /\ sending' = None
  /\ UNCHANGED <<alive, registry, mgrVars, taskVars, inbox, handled, history>>

-----------------------------------------------------------------------------
(* The forwarding tasks and the recipients.                                 *)

\* raw_rx.recv: a message of another type, with a reply channel, or that does not
\* decode is ignored.
TaskRecv(f) ==
  /\ task[f] = "recv"
  /\ raw[f] # <<>>
  /\ raw' = [raw EXCEPT ![f] = Tail(@)]
  /\ \/ /\ task' = [task EXCEPT ![f] = "send"]
        /\ holding' = [holding EXCEPT ![f] = Head(raw[f])]
     \/ UNCHANGED <<task, holding>>
  /\ UNCHANGED <<alive, registry, mgrVars, reads, inbox, sessionVars, history>>

\* tx.send.
TaskSend(f) ==
  LET c == reads[f] IN
  /\ task[f] = "send"
  /\ alive[c] = "open"
  /\ Len(inbox[c]) < Capacity
  /\ inbox' = [inbox EXCEPT ![c] = Append(@, holding[f])]
  /\ last' = [last EXCEPT ![c] = holding[f]]
  /\ task' = [task EXCEPT ![f] = "recv"]
  /\ holding' = [holding EXCEPT ![f] = 0]
  /\ UNCHANGED <<alive, registry, mgrVars, reads, raw, sessionVars, exported,
                 removed>>

\* The task breaks out of its loop and drops its channel.
endTask(f) ==
  /\ task' = [task EXCEPT ![f] = "ended"]
  /\ raw' = [raw EXCEPT ![f] = <<>>]
  /\ holding' = [holding EXCEPT ![f] = 0]
  /\ UNCHANGED <<alive, registry, mgrVars, reads, inbox, sessionVars, history>>

\* Mutant: only the end of the recipient ends the task.
TaskEndOutbound(f) ==
  /\ active(f)
  /\ alive[reads[f]] = "closed"
  /\ endTask(f)

\* The recipient is gone, or every sender of the task's channel is.
TaskEnd(f) ==
  /\ active(f)
  /\ \/ alive[reads[f]] = "closed"
     \/ task[f] = "recv" /\ raw[f] = <<>> /\ ~referenced(f)
  /\ endTask(f)

\* The owner of the receiver takes a message.
Receive(c) ==
  /\ inbox[c] # <<>>
  /\ inbox' = [inbox EXCEPT ![c] = Tail(@)]
  /\ UNCHANGED <<alive, registry, mgrVars, taskVars, sessionVars, history>>

\* An actor stops, or the receiver of a recipient is dropped.
Stop(k) ==
  /\ alive[k] = "open"
  /\ alive' = [alive EXCEPT ![k] = "closed"]
  /\ inbox' = [c \in Recipients |-> IF c = k THEN <<>> ELSE inbox[c]]
  /\ UNCHANGED <<registry, mgrVars, taskVars, sessionVars, history>>

-----------------------------------------------------------------------------
\* The steps with which the task of ActorMgr goes on; the sweep comes every 60 s.
MgrNext == Sweep \/ SweepLabels \/ FactoryOk \/ FactoryFail \/ CreateDone

CommandNext ==
  \/ \E x \in Labels : \/ CreateActor(x) \/ GetActor(x) \/ RemoveLabel(x)
                       \/ \E a \in Actors : AddActor(x, a)
  \/ \E k \in Keys : RemoveIndex(k)

SessionNext ==
  \/ Forward \/ ForwardFail
  \/ \E k \in Keys : FindMailbox(k)
  \/ \E a \in Actors : EncodeAddress(a)
  \/ \E c \in Recipients, f \in Forwarders : EncodeRecipient(c, f)

TaskNext(f) == TaskRecv(f) \/ TaskSend(f) \/ TaskEnd(f)

Next ==
  \/ MgrNext \/ CommandNext \/ SessionNext
  \/ \E f \in Forwarders : TaskNext(f)
  \/ \E c \in Recipients : Receive(c)
  \/ \E k \in Keys : Stop(k)

Spec == Init /\ [][Next]_vars

\* Tokio runs the tasks that can go on; commands do not keep ActorMgr from its
\* sweep for ever, since the timer's Resume waits in the same mailbox.
FairSpec ==
  /\ Spec
  /\ SF_vars(Sweep) /\ WF_vars(SweepLabels) /\ WF_vars(FactoryOk \/ FactoryFail)
  /\ WF_vars(CreateDone)
  /\ \A f \in Forwarders : WF_vars(TaskNext(f))

-----------------------------------------------------------------------------
(* Properties.                                                              *)

\* An actor or recipient that lives and has a label, or was registered by encoding
\* it, is found under its index and by nobody else's, until RemoveActor takes it
\* out: neither sweeps, lookups that drop closed entries, nor registrations by
\* several sessions at once lose it (EncodeContext::register: "The actor becomes
\* reachable from other processes after registration"; ActorMgr: "there is no race
\* condition").
Reachable ==
  \A k \in Keys :
    /\ alive[k] = "open"
    /\ k \in exported \/ \E x \in Labels : labels[x] = k
    => /\ registry[k] # None
       /\ ~is_closed(registry[k])
       /\ registry[k] = k \/ reads[registry[k]] = k

\* An actor that lives has at most one label, so that removing it by one label
\* leaves no other label behind (AddActor's check of label and actor).
OneLabel ==
  \A x, y \in Labels :
    labels[x] = labels[y] /\ labels[x] # None /\ alive[labels[x]] # "closed" => x = y

\* A recipient that was not taken out by RemoveActor gets the peer's messages in
\* the order the session took them, however often it is encoded: of the tasks that
\* were spawned for it only the registered one gets messages.
DeliveredInOrder ==
  [][\A c \in Recipients :
       last'[c] # last[c] => last'[c] > last[c] \/ c \in removed]_vars

\* The entry of a dead actor does not stay: the sweep frees its label, which until
\* then keeps CreateActor and AddActor from using the label again.
ClosedIsForgotten ==
  \A x \in Labels, a \in Actors :
    labels[x] = a /\ alive[a] = "closed" ~> labels[x] # a

\* No forwarding task is leaked: it ends once its recipient is gone, and when it
\* lost the race to be registered or was taken out with nothing left to pass on.
NoTaskLeak ==
  \A f \in Forwarders :
    active(f) /\ (\/ alive[reads[f]] = "closed"
                  \/ ~referenced(f) /\ task[f] = "recv" /\ raw[f] = <<>>)
      ~> ~active(f)

=============================================================================
