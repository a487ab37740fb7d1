------------------------------- MODULE Actor -------------------------------
(***************************************************************************)
(* The life of one actor: its address and bounded mailbox, the requests    *)
(* that clients send it, the message loop of the default Context, the      *)
(* lifecycle hooks around it, mailbox draining, and the events it reports  *)
(* to its supervisor (acktor/src/actor.rs, context.rs, drain.rs,           *)
(* signal.rs, supervisor.rs, address/local.rs, utils.rs).                  *)
(*                                                                         *)
(* pc is the point the actor's task has reached.  The points in UserCode   *)
(* run code supplied by the user of the library, which may call the        *)
(* methods of the context any number of times before it returns.           *)
(***************************************************************************)
EXTENDS Naturals, Sequences, FiniteSets

CONSTANTS
  Requests,     \* the message instances that clients may send
  Kind,         \* Kind[r]: what the message r is
  Sends,        \* requests sent with a reply channel (send, not do_send)
  Terminator,   \* requests sent by utils::terminate_actor
  Reserving,    \* requests sent through a permit, which its holder may keep
  Capacity,     \* capacity of the actor's mailbox
  SupCapacity,  \* capacity of the supervisor's mailbox
  Drainable,    \* TRUE for Context<A, Drainable>, FALSE for NoDrain
  UserCalls     \* points where user code calls stop, terminate, save_error

None == "none"

\* Messages of the user's own types: plain, in a Timed envelope, or answered by
\* a FutureMessageResult.
UserKinds == {"user", "timed", "future"}

Kinds == UserKinds \cup {"Stop", "Terminate", "Supervisor"}

UserCode == {"pre_start", "post_start", "handle", "stopping", "post_stop"}

ASSUME ConstantsAssumption ==
  /\ None \notin Requests
  /\ Kind \in [Requests -> Kinds]
  /\ Sends \subseteq Requests
  /\ Terminator \subseteq {r \in Requests \ Sends : Kind[r] = "Terminate"}
  /\ Reserving \subseteq Requests \ Terminator
  /\ Capacity \in Nat \ {0}
  /\ SupCapacity \in Nat \ {0}
  /\ Drainable \in BOOLEAN
  /\ UserCalls \subseteq UserCode

ActorState == {"Unstarted", "Starting", "Running", "Stopping", "Stopped"}

\* An error is known by where it was raised.
Errors == {"saved", "post_start", "stopping", "post_stop"}

Results == {"ok", "panic"} \cup Errors

SupervisionEvent ==
  {"Warn", "Terminated", "Panicked", "State"} \X (Results \cup ActorState)

\* The points of the task at which no step of the actor is left.
Ended == {"failed", "done", "aborted"}

PCs == UserCode \cup Ended \cup
       {"recv", "received", "handled", "resume", "exit", "report"}

\* The ways in which a request comes to its end.
Settled == {"replied", "expired", "skipped", "closed", "rejected", "full",
            "timeout", "cancelled"}

\* "reserved": the slot is taken and the message not yet written; "stranded": it
\* was written into a channel whose Mailbox is gone.
Status == Settled \cup {"idle", "waiting", "reserved", "queued", "handling",
                        "deferred", "stranded"}

VARIABLES
  pc,          \* where the actor's task is
  state,       \* Context::state
  error,       \* Context::error
  taken,       \* run_loop's local `result` while `stopping` runs
  result,      \* what run returns: "ok", "panic" or the error
  mailbox,     \* the queued messages, in order
  open,        \* whether the Mailbox still exists
  addressed,   \* whether an Address of the actor still exists
  current,     \* the message being handled
  drain,       \* DrainState
  supervisor,  \* Context::supervisor
  events,      \* the supervisor's mailbox
  supOpen,     \* whether the supervisor's mailbox still exists
  status,      \* what became of each request
  abandoned,   \* requests whose reply receiver was dropped
  behind,      \* history: messages queued when the current handler started
  unreported   \* history: errors that handlers saved and hooks returned, and
               \* that are not yet part of a report

ctxVars == <<error, taken, result, drain, supervisor>>
boxVars == <<mailbox, open, addressed, status>>
supVars == <<events, supOpen>>
vars == <<pc, state, error, taken, result, mailbox, open, addressed, current,
          drain, supervisor, events, supOpen, status, abandoned, behind,
          unreported>>

\* Each variable keeps to its values; in particular the length that a drain works
\* with never goes below zero (Context, Drainable).
TypeOK ==
  /\ pc \in PCs
  /\ state \in ActorState
  /\ error \in Errors \cup {None}
  /\ taken \in Results
  /\ result \in Results
  /\ mailbox \in Seq(Requests)
  /\ open \in BOOLEAN
  /\ addressed \in BOOLEAN
  /\ current \in Requests \cup {None}
  /\ drain \in [mailbox_len : Nat, requested : BOOLEAN]
  /\ supervisor \in {None, "watcher"}
  /\ events \in Seq(SupervisionEvent)
  /\ supOpen \in BOOLEAN
  /\ status \in [Requests -> Status]
  /\ abandoned \in SUBSET Requests
  /\ behind \in SUBSET Requests
  /\ unreported \in SUBSET Errors

\* Context::with_capacity; the closure of Actor::create may set a supervisor
\* before the actor is spawned.
Init ==
  /\ pc = "pre_start"
  /\ state = "Unstarted"
  /\ error = None
  /\ taken = "ok"
  /\ result = "ok"
  /\ mailbox = <<>>
  /\ open = TRUE
  /\ addressed = TRUE
  /\ current = None
  /\ drain = [mailbox_len |-> 0, requested |-> FALSE]
  /\ supervisor \in {None, "watcher"}
  /\ events = <<>>
  /\ supOpen = TRUE
  /\ status = [r \in Requests |-> "idle"]
  /\ abandoned = {}
  /\ behind = {}
  /\ unreported = {}

-----------------------------------------------------------------------------
(* Supervision events.                                                     *)

\* ActorContext::try_notify_supervisor: the event is dropped when there is no
\* supervisor and when its mailbox is full or closed.
try_notify_supervisor(event) ==
  events' = IF supervisor # None /\ supOpen /\ Len(events) < SupCapacity
            THEN Append(events, event)
            ELSE events

\* Context::set_state.
set_state(s) ==
  /\ state' = s
  /\ try_notify_supervisor(<<"State", s>>)

\* The supervisor handles the oldest event.
SupervisorHandle ==
  /\ events # <<>>
  /\ events' = Tail(events)
  /\ UNCHANGED <<pc, state, ctxVars, boxVars, current, supOpen, abandoned,
                 behind, unreported>>

\* The supervisor's actor stops and its mailbox is dropped.
SupervisorStop ==
  /\ supOpen
  /\ supOpen' = FALSE
  /\ events' = <<>>
  /\ UNCHANGED <<pc, state, ctxVars, boxVars, current, abandoned, behind,
                 unreported>>

-----------------------------------------------------------------------------
(* Clients: LocalAddress::send, do_send, their try_ and _timeout variants,  *)
(* reserve, try_reserve and the permits they return.                        *)

clientUnchanged == UNCHANGED <<pc, state, ctxVars, open, addressed, current,
                               supVars, behind, unreported>>

\* What becomes of r, when the mailbox itself does not change.
become(r, fate) ==
  /\ status' = [status EXCEPT ![r] = fate]
  /\ UNCHANGED <<mailbox, abandoned>>
  /\ clientUnchanged

\* The channel has a slot that neither a message nor a permit occupies.
hasSlot ==
  Len(mailbox) + Cardinality({r \in Requests : status[r] = "reserved"}) < Capacity

\* send, do_send and reserve: the caller waits for capacity.
Send(r) ==
  /\ status[r] = "idle"
  /\ addressed
  /\ become(r, "waiting")

\* The waiting caller gets a slot.
Acquire(r) ==
  /\ status[r] = "waiting"
  /\ open /\ hasSlot
  /\ become(r, "reserved")

\* The waiting caller finds the mailbox dropped: SendError::Closed.
SendClosed(r) ==
  /\ status[r] = "waiting"
  /\ ~open
  /\ become(r, "rejected")

\* send_timeout and do_send_timeout give up: SendError::Timeout.
SendTimeout(r) ==
  /\ status[r] = "waiting"
  /\ r \notin Terminator
  /\ become(r, "timeout")

\* Mutant: a slot is handed out although the mailbox is gone.
TryClosed(r) ==
  /\ status[r] = "idle"
  /\ r \notin Terminator
  /\ addressed
  /\ \/ hasSlot /\ become(r, "reserved")
     \/ ~hasSlot /\ become(r, "full")

\* try_send, try_do_send and try_reserve: a slot, SendError::Full or
\* SendError::Closed.
TrySend(r) ==
  /\ status[r] = "idle"
  /\ r \notin Terminator
  /\ addressed
  /\ \/ open /\ hasSlot /\ become(r, "reserved")
     \/ open /\ ~hasSlot /\ become(r, "full")
     \/ ~open /\ become(r, "rejected")

\* The message is written into its slot, by the sender that took the slot or by
\* SendPermit and OwnedSendPermit.  Nothing looks whether the mailbox is still
\* there: after it was dropped the message stays in the channel, unread.
Push(r) ==
  /\ status[r] = "reserved"
  /\ \/ /\ open
        /\ mailbox' = Append(mailbox, r)
        /\ status' = [status EXCEPT ![r] = "queued"]
        /\ UNCHANGED abandoned
        /\ clientUnchanged
     \/ ~open /\ become(r, "stranded")

\* A permit is dropped unused and its slot is free again.
DropPermit(r) ==
  /\ r \in Reserving
  /\ status[r] = "reserved"
  /\ become(r, "cancelled")

\* The client drops the receiver of the reply; the actor looks at it only when it
\* takes the message up.
DropReceiver(r) ==
  /\ r \in Sends
  /\ status[r] \in {"queued", "handling"}
  /\ abandoned' = abandoned \cup {r}
  /\ UNCHANGED <<mailbox, status>>
  /\ clientUnchanged

-----------------------------------------------------------------------------
(* What user code may do to the context of the actor that runs it.          *)

\* A lifecycle hook or the handler of a user message is running.
InUserCode ==
  /\ pc \in UserCalls
  /\ pc = "handle" => Kind[current] \in UserKinds

CtxStop ==
  /\ InUserCode
  /\ set_state("Stopping")
  /\ UNCHANGED <<pc, ctxVars, boxVars, current, supOpen, abandoned, behind,
                 unreported>>

CtxTerminate ==
  /\ InUserCode
  /\ set_state("Stopped")
  /\ UNCHANGED <<pc, ctxVars, boxVars, current, supOpen, abandoned, behind,
                 unreported>>

CtxSaveError ==
  /\ InUserCode
  /\ error' = "saved"
  /\ unreported' = unreported \cup (IF pc = "handle" THEN {"saved"} ELSE {})
  /\ UNCHANGED <<pc, state, taken, result, drain, supervisor, boxVars, current,
                 supVars, abandoned, behind>>

\* Context::drain_mailbox, only on a Drainable context.
CtxDrain ==
  /\ InUserCode
  /\ Drainable
  /\ drain' = [drain EXCEPT !.requested = TRUE]
  /\ UNCHANGED <<pc, state, error, taken, result, supervisor, boxVars, current,
                 supVars, abandoned, behind, unreported>>

-----------------------------------------------------------------------------
(* Starting the actor: ActorContext::spawn and the first part of run.       *)

\* Mutant: the envelopes are leaked and their reply senders live on.
LeakMessages(S) == status

\* Dropping the Mailbox drops the envelopes in it, and with each its reply
\* sender; so does a drain.
DropMessages(S) ==
  [r \in Requests |-> IF r \in S THEN "closed" ELSE status[r]]

Queued == {mailbox[i] : i \in DOMAIN mailbox}

\* The last Address goes: the actor's own went with its context, and a sender that
\* waits or a permit would hold one.  The channel is freed, and with it the
\* messages that nobody read.
DropAddresses ==
  /\ addressed
  /\ pc \in Ended
  /\ \A r \in Requests : status[r] \notin {"waiting", "reserved"}
  /\ addressed' = FALSE
  /\ status' = DropMessages({r \in Requests : status[r] = "stranded"})
  /\ UNCHANGED <<pc, state, ctxVars, mailbox, open, current, supVars, abandoned,
                 behind, unreported>>

\* Mutant: the mailbox is closed but kept, with the messages in it.
CloseMailbox ==
  /\ open' = FALSE
  /\ current' = None
  /\ UNCHANGED <<mailbox, addressed, status>>

DropMailbox ==
  /\ mailbox' = <<>>
  /\ open' = FALSE
  /\ current' = None
  /\ status' = DropMessages(Queued \cup {current})
  /\ UNCHANGED addressed

\* pre_start succeeds: the task is spawned.
PreStartOk ==
  /\ pc = "pre_start"
  /\ pc' = "post_start"
  /\ set_state("Starting")
  /\ UNCHANGED <<ctxVars, boxVars, current, supOpen, abandoned, behind,
                 unreported>>

\* The closure of create fails, or pre_start fails or panics: nothing is
\* spawned and the caller of start or create gets the failure.
PreStartFail ==
  /\ pc = "pre_start"
  /\ pc' = "failed"
  /\ DropMailbox
  /\ UNCHANGED <<state, ctxVars, supVars, abandoned, behind, unreported>>

PostStartOk ==
  /\ pc = "post_start"
  /\ pc' = "recv"
  /\ set_state("Running")
  /\ UNCHANGED <<ctxVars, boxVars, current, supOpen, abandoned, behind,
                 unreported>>

\* post_start fails or panics: run returns at once, without post_stop.
PostStartFail ==
  /\ pc = "post_start"
  /\ pc' = "report"
  /\ result' \in {"post_start", "panic"}
  /\ unreported' = unreported \cup ({result'} \cap Errors)
  /\ set_state("Stopped")
  /\ DropMailbox
  /\ UNCHANGED <<error, taken, drain, supervisor, supOpen, abandoned, behind>>

-----------------------------------------------------------------------------
(* Context::run_loop.                                                       *)

\* mailbox.recv: the oldest message leaves the mailbox.
Recv ==
  /\ pc = "recv"
  /\ mailbox # <<>>
  /\ pc' = "received"
  /\ current' = Head(mailbox)
  /\ mailbox' = Tail(mailbox)
  /\ status' = [status EXCEPT ![Head(mailbox)] = "handling"]
  /\ UNCHANGED <<state, ctxVars, open, addressed, supVars, abandoned, behind,
                 unreported>>

\* DrainPolicy::snapshot; NoDrain records nothing.
snapshot ==
  IF Drainable THEN [drain EXCEPT !.mailbox_len = Len(mailbox)] ELSE drain

\* D::snapshot and the start of EnvelopeProxy::handle, which skips a message
\* when nobody waits for its reply any more.  Messages may have come in since
\* mailbox.recv returned.
Snapshot ==
  /\ pc = "received"
  /\ drain' = snapshot
  /\ behind' = Queued
  /\ IF current \in Sends /\ current \in abandoned
     THEN /\ pc' = "handled"
          /\ status' = [status EXCEPT ![current] = "skipped"]
          /\ current' = None
     ELSE /\ pc' = "handle"
          /\ UNCHANGED <<status, current>>
  /\ UNCHANGED <<state, error, taken, result, mailbox, open, addressed, supervisor,
                 supVars, abandoned, unreported>>

\* The handler is over, with the given fate of the request.
finish(fate) ==
  /\ pc' = "handled"
  /\ status' = [status EXCEPT ![current] = fate]
  /\ current' = None
  /\ UNCHANGED <<mailbox, open, addressed, supOpen, abandoned, behind,
                 unreported>>

\* The handler returns and its result goes to the reply channel, if any.
HandleUser ==
  /\ pc = "handle"
  /\ Kind[current] \in {"user", "timed"}
  /\ finish("replied")
  /\ UNCHANGED <<state, ctxVars, events>>

\* The time budget of a Timed message is over: the handler is dropped where it
\* stands and the caller gets the timeout.
HandleExpired ==
  /\ pc = "handle"
  /\ Kind[current] = "timed"
  /\ finish("expired")
  /\ UNCHANGED <<state, ctxVars, events>>

\* FutureMessageResult: the reply is left to a task of its own.
HandleFuture ==
  /\ pc = "handle"
  /\ Kind[current] = "future"
  /\ finish("deferred")
  /\ UNCHANGED <<state, ctxVars, events>>

\* The spawned future resolves, or panics and drops the reply sender.
FutureResolves(r) ==
  /\ status[r] = "deferred"
  /\ \E fate \in {"replied", "closed"} :
       status' = [status EXCEPT ![r] = fate]
  /\ UNCHANGED <<pc, state, ctxVars, mailbox, open, addressed, current, supVars,
                 abandoned, behind, unreported>>

\* Mutant: Terminate is handled like Stop.
SignalStopsOnly ==
  /\ pc = "handle"
  /\ Kind[current] \in {"Stop", "Terminate"}
  /\ set_state("Stopping")
  /\ finish("replied")
  /\ UNCHANGED ctxVars

\* Handler<Signal>.
HandleSignal ==
  /\ pc = "handle"
  /\ \/ Kind[current] = "Stop" /\ set_state("Stopping")
     \/ Kind[current] = "Terminate" /\ set_state("Stopped")
  /\ finish("replied")
  /\ UNCHANGED ctxVars

\* Context::set_supervisor: an actor does not supervise itself.
set_supervisor(who) ==
  \/ who = "watcher" /\ supervisor' = "watcher"
  \/ who = "self" /\ UNCHANGED supervisor
  \/ who = None /\ supervisor' = None

\* Handler<Supervisor<A>>: Set with another actor or with this one, or Unset.
HandleSupervisor ==
  /\ pc = "handle"
  /\ Kind[current] = "Supervisor"
  /\ \E who \in {"watcher", "self", None} : set_supervisor(who)
  /\ finish("replied")
  /\ UNCHANGED <<state, error, taken, result, drain, events>>

\* A user handler panics: run_loop unwinds and its envelope is dropped.
HandlePanic ==
  /\ pc = "handle"
  /\ Kind[current] \in UserKinds
  /\ pc' = "exit"
  /\ result' = "panic"
  /\ status' = [status EXCEPT ![current] = "closed"]
  /\ current' = None
  /\ UNCHANGED <<state, error, taken, drain, supervisor, mailbox, open, addressed,
                 supVars, abandoned, behind, unreported>>

\* Mutant: the drain empties the mailbox.
ApplyToAll ==
  /\ mailbox' = IF drain.requested THEN <<>> ELSE mailbox
  /\ status' = IF drain.requested THEN DropMessages(Queued) ELSE status
  /\ drain' = [drain EXCEPT !.requested = FALSE]

\* Drainable::apply: the oldest mailbox_len messages are received and dropped.
apply ==
  LET n == IF drain.requested THEN drain.mailbox_len ELSE 0
      k == IF n <= Len(mailbox) THEN n ELSE Len(mailbox)
  IN /\ mailbox' = SubSeq(mailbox, k + 1, Len(mailbox))
     /\ status' = DropMessages({mailbox[i] : i \in 1 .. k})
     /\ drain' = [drain EXCEPT !.requested = FALSE]

\* Mutant: the saved error is not looked at.
ForgetError == "ok"

\* Context::take_error, as the result it gives.
take_error == IF error = None THEN "ok" ELSE error

\* The rest of the loop body up to the call of `stopping` or the return.
AfterHandle ==
  /\ pc = "handled"
  /\ apply
  /\ IF error # None /\ state = "Running"
     THEN set_state("Stopping")
     ELSE UNCHANGED <<state, events>>
  /\ \/ /\ state' = "Running"
        /\ pc' = "recv"
        /\ UNCHANGED <<error, taken, result>>
     \/ /\ state' = "Stopping"
        /\ pc' = "stopping"
        /\ taken' = take_error
        /\ error' = None
        /\ UNCHANGED result
     \/ /\ state' = "Stopped"
        /\ pc' = "exit"
        /\ result' = take_error
        /\ error' = None
        /\ UNCHANGED taken
  /\ UNCHANGED <<open, addressed, current, supervisor, supOpen, abandoned, behind,
                 unreported>>

StoppingStop ==
  /\ pc = "stopping"
  /\ pc' = "exit"
  /\ result' = taken
  /\ UNCHANGED <<state, error, taken, drain, supervisor, boxVars, current,
                 supVars, abandoned, behind, unreported>>

\* Stopping::Continue: a saved error becomes a warning.
StoppingContinue ==
  /\ pc = "stopping"
  /\ pc' = "resume"
  /\ IF taken # "ok"
     THEN /\ try_notify_supervisor(<<"Warn", taken>>)
          /\ unreported' = unreported \ {taken}
     ELSE UNCHANGED <<events, unreported>>
  /\ UNCHANGED <<state, ctxVars, boxVars, current, supOpen, abandoned, behind>>

Resume ==
  /\ pc = "resume"
  /\ pc' = "recv"
  /\ set_state("Running")
  /\ UNCHANGED <<ctxVars, boxVars, current, supOpen, abandoned, behind,
                 unreported>>

\* Result::or: the value if the result is Ok, its argument otherwise.
or(res, other) == IF res = "ok" THEN res ELSE other

\* `stopping` returns an error: result.or(Err(e)).
StoppingFail ==
  /\ pc = "stopping"
  /\ pc' = "exit"
  /\ result' = or(taken, "stopping")
  /\ unreported' = unreported \cup {"stopping"}
  /\ UNCHANGED <<state, error, taken, drain, supervisor, boxVars, current,
                 supVars, abandoned, behind>>

StoppingPanic ==
  /\ pc = "stopping"
  /\ pc' = "exit"
  /\ result' = "panic"
  /\ UNCHANGED <<state, error, taken, drain, supervisor, boxVars, current,
                 supVars, abandoned, behind, unreported>>

-----------------------------------------------------------------------------
(* The rest of run, and the end of the task.                                *)

\* Mutant: post_stop also runs after a panic.
LeaveLoopAlways ==
  /\ pc = "exit"
  /\ pc' = "post_stop"
  /\ IF state # "Stopped" THEN set_state("Stopped")
                          ELSE UNCHANGED <<state, events>>
  /\ DropMailbox
  /\ UNCHANGED <<ctxVars, supOpen, abandoned, behind, unreported>>

\* Mutant: Stopped is set, and announced, a second time.
LeaveLoopTwice ==
  /\ pc = "exit"
  /\ pc' = IF result = "panic" THEN "report" ELSE "post_stop"
  /\ set_state("Stopped")
  /\ DropMailbox
  /\ UNCHANGED <<ctxVars, supOpen, abandoned, behind, unreported>>

\* The loop is left: the state becomes Stopped and the mailbox is dropped.
\* After a panic post_stop is skipped.
LeaveLoop ==
  /\ pc = "exit"
  /\ pc' = IF result = "panic" THEN "report" ELSE "post_stop"
  /\ IF state # "Stopped" THEN set_state("Stopped")
                          ELSE UNCHANGED <<state, events>>
  /\ DropMailbox
  /\ UNCHANGED <<ctxVars, supOpen, abandoned, behind, unreported>>

\* post_stop returns or panics.  Its error counts when the loop had none.
PostStop(outcome) ==
  /\ pc = "post_stop"
  /\ pc' = "report"
  /\ result' = IF outcome = "panic" \/ result = "ok" THEN outcome ELSE result
  /\ unreported' = unreported \cup ({outcome} \cap Errors)
  /\ UNCHANGED <<state, error, taken, drain, supervisor, boxVars, current,
                 supVars, abandoned, behind>>

\* The task reports how the actor ended, and ends.
Report ==
  /\ pc = "report"
  /\ pc' = "done"
  /\ try_notify_supervisor(
       <<IF result = "panic" THEN "Panicked" ELSE "Terminated", result>>)
  /\ UNCHANGED <<state, ctxVars, boxVars, current, supOpen, abandoned, behind,
                 unreported>>

\* terminate_actor aborts the task when its signal could not be sent; the
\* task is cancelled if it is waiting in post_stop.
TerminateActorAbort ==
  /\ \E r \in Terminator : status[r] = "rejected"
  /\ pc = "post_stop"
  /\ pc' = "aborted"
  /\ UNCHANGED <<state, ctxVars, boxVars, current, supVars, abandoned, behind,
                 unreported>>

-----------------------------------------------------------------------------
ClientNext ==
  \E r \in Requests :
    \/ Send(r) \/ Acquire(r) \/ SendClosed(r) \/ SendTimeout(r) \/ TrySend(r)
    \/ Push(r) \/ DropPermit(r) \/ DropReceiver(r)

ContextNext == CtxStop \/ CtxTerminate \/ CtxSaveError \/ CtxDrain

\* The steps with which the actor's task goes on.
TaskNext ==
  \/ PreStartOk \/ PreStartFail \/ PostStartOk \/ PostStartFail
  \/ Recv \/ Snapshot \/ HandleUser \/ HandleExpired \/ HandleFuture
  \/ HandleSignal \/ HandleSupervisor \/ HandlePanic
  \/ AfterHandle
  \/ StoppingStop \/ StoppingContinue \/ Resume \/ StoppingFail \/ StoppingPanic
  \/ LeaveLoop
  \/ \E outcome \in {"ok", "post_stop", "panic"} : PostStop(outcome)
  \/ Report

Next ==
  \/ ClientNext \/ ContextNext \/ TaskNext \/ TerminateActorAbort
  \/ \E r \in Requests : FutureResolves(r)
  \/ DropAddresses \/ SupervisorHandle \/ SupervisorStop

Spec == Init /\ [][Next]_vars

\* Tokio runs every task that can go on, hands slots to waiting senders in order,
\* and the user's hooks, handlers and futures return.  A sender that got its slot
\* writes its message; the holder of a permit may never use it.
FairSpec ==
  /\ Spec
  /\ WF_vars(TaskNext)
  /\ WF_vars(TerminateActorAbort)
  /\ \A r \in Requests : /\ SF_vars(Acquire(r))
                         /\ WF_vars(SendClosed(r))
                         /\ WF_vars(FutureResolves(r))
  /\ \A r \in Requests \ Reserving : WF_vars(Push(r))

-----------------------------------------------------------------------------
(* Properties.                                                              *)

\* No accepted message is lost, duplicated or kept twice: a message is queued
\* exactly when it is at one position of the mailbox, and being handled exactly
\* when it is the current one (mailbox.recv, Envelope::handle, drop(mailbox)).
RequestsAccounted ==
  /\ \A i \in DOMAIN mailbox : status[mailbox[i]] = "queued"
  /\ \A i, j \in DOMAIN mailbox : mailbox[i] = mailbox[j] => i = j
  /\ \A r \in Requests : status[r] = "queued" => r \in Queued
  /\ \A r \in Requests : status[r] = "handling" <=> current = r

\* When the mailbox is gone nothing the actor accepted is left unsettled: it was
\* answered, skipped, or saw its reply channel close (ActorContext::run drops the
\* mailbox on every way out of the loop).  A message written into a slot that was
\* taken before waits in the channel, and no longer than an address exists.
NoOrphanedRequest ==
  ~open => \A r \in Requests : /\ status[r] \notin {"queued", "handling"}
                               /\ status[r] = "stranded" => addressed

\* While a handler runs the mailbox holds at least mailbox_len messages, so that
\* the try_recv calls of a requested drain never fail (drain.rs, the comment in
\* Drainable::apply).
DrainWithinMailbox ==
  pc \in {"handle", "handled"} => drain.mailbox_len <= Len(mailbox)

\* A drain discards only messages that were queued before the handler which asked
\* for it started; those that arrived during the handler stay (drain_mailbox).
DrainSparesArrivals ==
  [][pc = "handled" =>
       \A r \in Requests :
         status[r] = "queued" /\ status'[r] = "closed" => r \in behind]_vars

\* Once a Terminate signal has been handled no further message is: the loop is
\* left for good, whatever hooks ran before (Signal::Terminate).
TerminateIsFinal ==
  (\E r \in Requests : Kind[r] = "Terminate" /\ status[r] = "replied") =>
    \/ pc \in {"exit", "post_stop", "report"} \cup Ended
    \/ pc = "handled" /\ state = "Stopped"

\* Each hook starts in the state its documentation names, messages are handled
\* only by a Running actor, and post_stop runs only after a loop that did not
\* panic and with the mailbox already gone.
HooksSeeTheirState ==
  [][pc' # pc =>
       /\ pc' = "post_start" => state' = "Starting"
       /\ pc' = "recv" => state' = "Running"
       /\ pc' = "handle" => state' = "Running"
       /\ pc' = "stopping" => state' = "Stopping"
       /\ pc' = "post_stop" =>
            state' = "Stopped" /\ ~open' /\ result' # "panic"]_vars

\* Whatever events the full mailbox of the supervisor loses, those it gets end in
\* order: after State(Stopped) comes nothing but Terminated or Panicked, and after
\* those nothing (the state check of run before set_state, and spawn's report).
EndEventsLast ==
  \A i, j \in DOMAIN events : i < j =>
    /\ events[i][1] \notin {"Terminated", "Panicked"}
    /\ events[i] = <<"State", "Stopped">> =>
         events[j][1] \in {"Terminated", "Panicked"}

\* An error that a message handler saved does not end in a clean Terminated: when
\* the task ends and no warning was made of it, run returns some error.  (Which one
\* when `stopping` fails too is StoppingErrorKept's; a warning or a report may still
\* be lost on its way by try_do_send.)
HandlerErrorReported ==
  pc = "report" /\ "saved" \in unreported => result # "ok"

\* The slots that clients keep with permits they neither use nor drop.
held == {r \in Reserving : status[r] = "reserved"}

\* Every request handed to the address is eventually settled: answered, skipped,
\* refused, or its reply channel closed.  Three exceptions are in the code: the
\* message was written after the mailbox had gone (SendPermit::send looks at
\* nothing), its own permit is kept for ever, or permits occupy the whole mailbox
\* for ever.
EveryRequestSettles ==
  \A r \in Requests :
    status[r] # "idle" ~> \/ status[r] \in Settled \cup {"stranded"}
                          \/ [](r \in held)
                          \/ [](Cardinality(held) = Capacity)

\* terminate_actor returns: once it has begun to send its signal, the task of the
\* actor comes to an end, unless permits occupy the whole mailbox for ever.
TerminateActorReturns ==
  \A r \in Terminator :
    status[r] = "waiting" ~> \/ pc \in Ended
                             \/ [](Cardinality(held) = Capacity)

\* What run_loop's comment says of an error from `stopping`: a saved error wins
\* over it, and without one it is what the loop returns (context.rs, run_loop).
StoppingErrorKept ==
  pc = "post_stop" /\ "stopping" \in unreported =>
    result = IF taken = "ok" THEN "stopping" ELSE taken

-----------------------------------------------------------------------------
(* The inductive invariant of the proofs.                                   *)

\* Where the task is tells whether it has a message at hand, whether the mailbox
\* exists, and that only a Running actor waits for messages.
TaskShape ==
  /\ current # None <=> pc \in {"received", "handle"}
  /\ open <=> pc \notin {"post_stop", "report"} \cup Ended
  /\ ~open => mailbox = <<>>
  /\ pc \in {"recv", "received"} => state = "Running"

\* The first mailbox_len messages of the mailbox are ones that were queued before
\* the handler started; a NoDrain context records none.
DrainPrefix ==
  /\ ~Drainable => drain.mailbox_len = 0
  /\ pc \in {"handle", "handled"} =>
       /\ drain.mailbox_len <= Len(mailbox)
       /\ \A i \in 1 .. drain.mailbox_len : mailbox[i] \in behind

\* The last address goes after the task, and with it whoever waits for a slot,
\* holds one, or wrote into the abandoned channel.
AddressShape ==
  /\ ~addressed => /\ pc \in Ended
                   /\ \A r \in Requests :
                        status[r] \notin {"waiting", "reserved", "stranded"}
  /\ open => \A r \in Requests : status[r] # "stranded"

\* Only the replies of FutureMessageResult handlers are detached.
DeferredKind == \A r \in Requests : status[r] = "deferred" => Kind[r] = "future"

IInv ==
  /\ TypeOK
  /\ RequestsAccounted
  /\ TaskShape
  /\ DrainPrefix
  /\ AddressShape
  /\ DeferredKind
  /\ TerminateIsFinal

-----------------------------------------------------------------------------
(* The contract of RequestReply, and how the actor keeps it.                *)

\* The phase that a status stands for.
PhaseOf(v) ==
  CASE v = "idle" -> "new"
    [] v = "waiting" -> "offered"
    [] v = "reserved" -> "reserved"
    [] v = "stranded" -> "stranded"
    [] v \in {"queued", "handling"} -> "accepted"
    [] v = "deferred" -> "detached"
    [] v \in {"replied", "expired"} -> "answered"
    [] v \in {"skipped", "closed"} -> "dropped"
    [] OTHER -> "refused"

phase == [r \in Requests |-> PhaseOf(status[r])]

Contract == INSTANCE RequestReply WITH alive <- open

\* The actor settles every request at most once and gives no slot away once its
\* mailbox is gone; the steps that drop the mailbox drop all it held, and a message
\* written after that into a slot taken before is dropped with the last address.
KeepsContract == Contract!Spec

=============================================================================
