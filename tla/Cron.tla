-------------------------------- MODULE Cron --------------------------------
(***************************************************************************)
(* The message loop of CronContext, which runs the user's `task` again and *)
(* again: process_one, the timers it spawns, and the CronSignal messages   *)
(* that pause and resume the task (acktor/src/cron.rs).  The hooks around  *)
(* the loop and the supervisor are those of Actor and are left out here.   *)
(***************************************************************************)
EXTENDS Naturals, Sequences

CONSTANTS
  Requests,   \* the message instances that clients may send
  Kind,       \* Kind[r]: what the message r is
  Timers,     \* identities for the timer tasks, used again once they are over
  Capacity,   \* capacity of the mailbox
  Drainable,  \* TRUE for CronContext<A, Drainable>, FALSE for NoDrain
  Calls       \* the methods of the context that user code calls

None == "none"

\* The Resume that a timer sends, and the mark of a Resume that a user sends.
Tick == "tick"
ByHand == "manual"

Kinds == {"user", "Pause", "Resume", "Stop", "Terminate"}

Methods == {"pause_task", "resume_task", "stop", "terminate", "save_error",
            "drain_mailbox"}

ASSUME CronAssumption ==
  /\ None \notin Requests \cup Timers
  /\ ByHand \notin Timers
  /\ Tick \notin Requests
  /\ Kind \in [Requests -> Kinds]
  /\ Capacity \in Nat \ {0}
  /\ Drainable \in BOOLEAN
  /\ Calls \subseteq Methods
  /\ ~Drainable => "drain_mailbox" \notin Calls

PCs == {"loop", "task", "recv", "poll", "received", "handle", "handled",
        "stopping", "exit", "ended"}

Results == {"ok", "panic", "saved", "task", "stopping"}

VARIABLES
  pc,           \* where the actor's task is
  state,        \* CronContext::state
  cron_state,   \* CronContext::cron_state
  join_handle,  \* CronContext::cron_join_handle
  error,        \* CronContext::error
  drain,        \* CronContext::drain
  result,       \* what process_one, and then run_loop, returned
  mailbox,      \* the queued messages, in order
  open,         \* whether the Mailbox still exists
  current,      \* the message being handled
  sent,         \* requests that clients have sent
  timer,        \* what each timer task is doing
  aborting,     \* timers that were aborted and may still be in a poll
  intent,       \* history: what the last command of a user asked for, or that
                \* a drain threw the Resume of a timer away
  pending       \* history: the timer whose interval is not over yet, or that
                \* somebody has resumed the task by hand

ctxVars == <<state, cron_state, join_handle, error>>
timerVars == <<timer, aborting>>
history == <<intent, pending>>
vars == <<pc, state, cron_state, join_handle, error, drain, result, mailbox,
          open, current, sent, timer, aborting, intent, pending>>

\* Each variable keeps to its values; in particular the length that a drain works
\* with never goes below zero (CronContext, Drainable).
TypeOK ==
  /\ pc \in PCs
  /\ state \in {"Running", "Stopping", "Stopped"}
  /\ cron_state \in {"Normal", "Paused"}
  /\ join_handle \in Timers \cup {None}
  /\ error \in {"saved", None}
  /\ drain \in [mailbox_len : Nat, requested : BOOLEAN]
  /\ result \in Results
  /\ mailbox \in Seq(Requests \cup {Tick})
  /\ open \in BOOLEAN
  /\ current \in Requests \cup {Tick, None}
  /\ sent \in SUBSET Requests
  /\ timer \in [Timers -> {"idle", "sleeping", "sending"}]
  /\ aborting \in SUBSET Timers
  /\ intent \in {"run", "pause", "drained"}
  /\ pending \in Timers \cup {None, ByHand}

\* CronContext::with_capacity, at the point where run enters run_loop.
Init ==
  /\ pc = "loop"
  /\ state = "Running"
  /\ cron_state = "Normal"
  /\ join_handle = None
  /\ error = None
  /\ drain = [mailbox_len |-> 0, requested |-> FALSE]
  /\ result = "ok"
  /\ mailbox = <<>>
  /\ open = TRUE
  /\ current = None
  /\ sent = {}
  /\ timer = [t \in Timers |-> "idle"]
  /\ aborting = {}
  /\ intent = "run"
  /\ pending = None

-----------------------------------------------------------------------------
(* The timers: tokio::spawn of a sleep and a do_send of CronSignal::Resume. *)

taskUnchanged == UNCHANGED <<pc, ctxVars, drain, result, current, sent, intent>>

\* The sleep is over.
TimerFire(t) ==
  /\ timer[t] = "sleeping"
  /\ timer' = [timer EXCEPT ![t] = "sending"]
  /\ pending' = IF t = pending THEN None ELSE pending
  /\ UNCHANGED <<mailbox, open, aborting>>
  /\ taskUnchanged

\* address.do_send(CronSignal::Resume) gets a permit.  A timer that is being
\* aborted can still do this when the abort finds it in the middle of a poll.
TimerSend(t) ==
  /\ timer[t] = "sending"
  /\ open
  /\ Len(mailbox) < Capacity
  /\ mailbox' = Append(mailbox, Tick)
  /\ timer' = [timer EXCEPT ![t] = "idle"]
  /\ aborting' = aborting \ {t}
  /\ UNCHANGED <<open, pending>>
  /\ taskUnchanged

\* The mailbox is gone, or the abort takes effect: the timer task is over.
TimerEnd(t) ==
  /\ timer[t] # "idle"
  /\ t \in aborting \/ (timer[t] = "sending" /\ ~open)
  /\ timer' = [timer EXCEPT ![t] = "idle"]
  /\ aborting' = aborting \ {t}
  /\ UNCHANGED <<mailbox, open, pending>>
  /\ taskUnchanged

\* A client sends a message.
Send(r) ==
  /\ r \notin sent
  /\ open
  /\ Len(mailbox) < Capacity
  /\ mailbox' = Append(mailbox, r)
  /\ sent' = sent \cup {r}
  /\ UNCHANGED <<pc, ctxVars, drain, result, open, current, timerVars, history>>

-----------------------------------------------------------------------------
(* What handlers and user code do to the context.                           *)

\* JoinHandle::abort on the timer of the context, if there is one and it is not
\* over yet.
abort ==
  /\ aborting' = aborting \cup {t \in {join_handle} \ {None} : timer[t] # "idle"}
  /\ join_handle' = None
  /\ UNCHANGED timer

pause_task ==
  /\ abort
  /\ cron_state' = "Paused"
  /\ UNCHANGED <<state, error>>

\* Mutant: the timer is left running when the task is resumed.
ResumeWithoutAbort ==
  /\ cron_state' = "Normal"
  /\ UNCHANGED <<state, join_handle, error, timerVars>>

resume_task ==
  /\ abort
  /\ cron_state' = "Normal"
  /\ UNCHANGED <<state, error>>

set_state(s) ==
  /\ state' = s
  /\ UNCHANGED <<cron_state, join_handle, error, timerVars>>

\* The user's task, its `stopping` hook or a handler of its messages is running.
InUserCode ==
  \/ pc \in {"task", "stopping"}
  \/ pc = "handle" /\ current \in Requests /\ Kind[current] = "user"

\* User code calls a method of its context.
Call(m) ==
  /\ InUserCode
  /\ m \in Calls
  /\ \/ m = "pause_task" /\ pause_task /\ intent' = "pause"
        /\ UNCHANGED <<pending, drain>>
     \/ m = "resume_task" /\ resume_task /\ intent' = "run" /\ pending' = ByHand
        /\ UNCHANGED drain
     \/ /\ m \in {"stop", "terminate"}
        /\ set_state(IF m = "stop" THEN "Stopping" ELSE "Stopped")
        /\ UNCHANGED <<history, drain>>
     \/ /\ m = "save_error"
        /\ error' = "saved"
        /\ UNCHANGED <<state, cron_state, join_handle, timerVars, history, drain>>
     \/ /\ m = "drain_mailbox"
        /\ drain' = [drain EXCEPT !.requested = TRUE]
        /\ UNCHANGED <<ctxVars, timerVars, history>>
  /\ UNCHANGED <<pc, result, mailbox, open, current, sent>>

-----------------------------------------------------------------------------
(* CronContext::process_one.                                                *)

\* Mutant: the task is run although it is paused.
RoundAlways ==
  /\ pc = "loop"
  /\ pc' = "task"
  /\ UNCHANGED <<ctxVars, drain, result, mailbox, open, current, sent, timerVars,
                 history>>

\* The loop goes round: run the task, or wait for a message while paused.
Round ==
  /\ pc = "loop"
  /\ pc' = IF cron_state = "Normal" THEN "task" ELSE "recv"
  /\ UNCHANGED <<ctxVars, drain, result, mailbox, open, current, sent, timerVars,
                 history>>

\* The task returns Duration::ZERO: look into the mailbox without waiting.
TaskZero ==
  /\ pc = "task"
  /\ pc' = "poll"
  /\ UNCHANGED <<ctxVars, drain, result, mailbox, open, current, sent, timerVars,
                 history>>

\* Mutant: the task is paused and no timer is spawned.
PauseWithoutTimer ==
  /\ pc = "task"
  /\ pc' = "recv"
  /\ cron_state' = "Paused"
  /\ UNCHANGED <<state, join_handle, error, drain, result, mailbox, open, current,
                 sent, timerVars, history>>

\* The task returns another duration: pause, and let a timer send the Resume.
TaskTimer ==
  /\ pc = "task"
  /\ pc' = "recv"
  /\ cron_state' = "Paused"
  /\ \E t \in Timers :
       /\ timer[t] = "idle"
       /\ timer' = [timer EXCEPT ![t] = "sleeping"]
       /\ join_handle' = t
       /\ pending' = IF pending = ByHand THEN ByHand ELSE t
  /\ UNCHANGED <<state, error, drain, result, mailbox, open, current, sent,
                 aborting, intent>>

\* mailbox.recv, or mailbox.try_recv when it finds a message.
Recv ==
  /\ pc \in {"recv", "poll"}
  /\ mailbox # <<>>
  /\ pc' = "received"
  /\ current' = Head(mailbox)
  /\ mailbox' = Tail(mailbox)
  /\ UNCHANGED <<ctxVars, drain, result, open, sent, timerVars, history>>

\* DrainPolicy::snapshot; NoDrain records nothing.
snapshot ==
  IF Drainable THEN [drain EXCEPT !.mailbox_len = Len(mailbox)] ELSE drain

\* D::snapshot, and the envelope is handed to its handler.
Snapshot ==
  /\ pc = "received"
  /\ pc' = "handle"
  /\ drain' = snapshot
  /\ UNCHANGED <<ctxVars, result, mailbox, open, current, sent, timerVars, history>>

\* The handler of the message at hand runs to its end.
Handle ==
  /\ pc = "handle"
  /\ pc' = "handled"
  /\ current' = None
  /\ LET kind == IF current = Tick THEN "Resume" ELSE Kind[current] IN
       \/ kind = "user" /\ UNCHANGED <<ctxVars, timerVars>>
       \/ kind = "Pause" /\ pause_task
       \/ kind = "Resume" /\ resume_task
       \/ /\ kind \in {"Stop", "Terminate"}
          /\ set_state(IF kind = "Stop" THEN "Stopping" ELSE "Stopped")
  /\ intent' = CASE current \in Requests /\ Kind[current] = "Pause" -> "pause"
                 [] current \in Requests /\ Kind[current] = "Resume" -> "run"
                 [] OTHER -> intent
  /\ pending' = IF current \in Requests /\ Kind[current] = "Resume" THEN ByHand
                                                                ELSE pending
  /\ UNCHANGED <<drain, result, mailbox, open, sent>>

\* Drainable::apply.
apply ==
  LET n == IF drain.requested THEN drain.mailbox_len ELSE 0
      k == IF n <= Len(mailbox) THEN n ELSE Len(mailbox)
  IN /\ mailbox' = SubSeq(mailbox, k + 1, Len(mailbox))
     /\ drain' = [drain EXCEPT !.requested = FALSE]
     /\ intent' = IF \E i \in 1 .. k : mailbox[i] = Tick THEN "drained" ELSE intent

-----------------------------------------------------------------------------
(* CronContext::run_loop.                                                   *)

\* Mutant: the state is looked at only after an error.
roundOverOnError(res) ==
  /\ result' = res
  /\ state' = IF res # "ok" /\ state = "Running" THEN "Stopping" ELSE state
  /\ pc' = IF res = "ok" THEN "loop" ELSE "stopping"
  /\ UNCHANGED <<cron_state, join_handle, open, sent, timerVars, pending>>

\* process_one has returned res: what run_loop does before the next round.
roundOver(res) ==
  /\ result' = res
  /\ state' = IF res # "ok" /\ state = "Running" THEN "Stopping" ELSE state
  /\ pc' = CASE state' = "Running" -> "loop"
             [] state' = "Stopping" -> "stopping"
             [] state' = "Stopped" -> "exit"
  /\ UNCHANGED <<cron_state, join_handle, open, sent, timerVars, pending>>

take_error == IF error = None THEN "ok" ELSE error

\* A message has been handled.
RoundHandled ==
  /\ pc = "handled"
  /\ apply
  /\ roundOver(take_error)
  /\ error' = None
  /\ UNCHANGED current

\* try_recv found the mailbox empty.
RoundEmpty ==
  /\ pc = "poll"
  /\ mailbox = <<>>
  /\ roundOver(take_error)
  /\ error' = None
  /\ UNCHANGED <<mailbox, drain, current, intent>>

\* The task fails: process_one returns at once, and a saved error stays saved.
TaskFail ==
  /\ pc = "task"
  /\ roundOver("task")
  /\ UNCHANGED <<mailbox, drain, current, error, intent>>

\* `stopping` returns Stop, fails, or panics; so may the task or a handler.
Leave ==
  /\ \/ pc = "stopping" /\ UNCHANGED result
     \/ pc = "stopping" /\ result' = IF result = "ok" THEN "ok" ELSE "stopping"
     \/ InUserCode /\ result' = "panic"
  /\ pc' = "exit"
  /\ current' = None
  /\ UNCHANGED <<ctxVars, drain, mailbox, open, sent, timerVars, history>>

\* `stopping` returns Continue.
StoppingContinue ==
  /\ pc = "stopping"
  /\ pc' = "loop"
  /\ set_state("Running")
  /\ UNCHANGED <<drain, result, mailbox, open, current, sent, history>>

\* The loop is over and run drops the mailbox; a timer is left alone.
Exit ==
  /\ pc = "exit"
  /\ pc' = "ended"
  /\ state' = "Stopped"
  /\ mailbox' = <<>>
  /\ open' = FALSE
  /\ UNCHANGED <<cron_state, join_handle, error, drain, result, current, sent,
                 timerVars, history>>

-----------------------------------------------------------------------------
LoopNext ==
  \/ Round \/ TaskZero \/ TaskTimer \/ TaskFail \/ Recv \/ Snapshot \/ Handle
  \/ RoundHandled \/ RoundEmpty \/ Leave \/ StoppingContinue \/ Exit

Next ==
  \/ LoopNext
  \/ \E r \in Requests : Send(r)
  \/ \E m \in Methods : Call(m)
  \/ \E t \in Timers : TimerFire(t) \/ TimerSend(t) \/ TimerEnd(t)

Spec == Init /\ [][Next]_vars

\* Tokio runs every task that can go on, the clock advances, permits go to
\* waiting senders in order, and the user's code returns.
FairSpec ==
  /\ Spec
  /\ WF_vars(LoopNext)
  /\ \A t \in Timers : /\ WF_vars(TimerFire(t))
                       /\ SF_vars(TimerSend(t))
                       /\ WF_vars(TimerEnd(t))

-----------------------------------------------------------------------------
(* Properties.                                                              *)

\* A running task has no timer, and the only timer that is not being aborted is
\* the one whose handle the context holds: no two timers ever race to resume the
\* task (pause_task, resume_task and process_one keep cron_join_handle so).
OneTimer ==
  /\ cron_state = "Normal" => join_handle = None
  /\ \A t \in Timers : timer[t] # "idle" => t = join_handle \/ t \in aborting

\* As long as nobody resumes the task by hand, it does not run again before the
\* interval it returned is over, whatever pauses and late timers interleave
\* (CronActor::task: "a Duration is returned to specify the interval of the next
\* execution").
IntervalRespected ==
  [][pc # "task" /\ pc' = "task" => pending \in {None, ByHand}]_vars

\* The task of a running actor runs again and again, until it is paused, the actor
\* stops, or a drain discards the Resume of its timer (CronActor::task: "Invoked to
\* execute periodic tasks when an actor is running").
TaskRepeats ==
  state = "Running" /\ intent = "run" ~>
    pc = "task" \/ intent # "run" \/ state # "Running"

\* A stop or terminate asked for anywhere, the task included, takes effect: the
\* loop does not go on waiting for messages for ever (run_loop's state match).
StopTakesEffect ==
  state # "Running" ~> pc \in {"stopping", "exit", "ended"}

=============================================================================
