----------------------------- MODULE CronProofs -----------------------------
(***************************************************************************)
(* Proofs about Cron, for every set of requests and timers, every capacity *)
(* and every choice of methods that user code calls.                       *)
(***************************************************************************)
EXTENDS Cron, TLAPS

USE DEF None, Tick, ByHand

\* OneTimer alone is not inductive: while the task runs the context must hold no
\* handle (the timer it may spawn overwrites it), and only live timers are being
\* aborted (an identity is used again once its timer is over).
TimerInv ==
  /\ TypeOK
  /\ OneTimer
  /\ pc = "task" => join_handle = None
  /\ \A t \in aborting : timer[t] # "idle"

LEMMA TimerInit == Init => TimerInv
<1> SUFFICES ASSUME Init PROVE TimerInv
  OBVIOUS
<1>1. TypeOK
  <2>1. mailbox \in Seq(Requests \cup {Tick}) /\ open \in BOOLEAN
    BY DEF Init
  <2>2. /\ drain \in [mailbox_len : Nat, requested : BOOLEAN]
        /\ timer \in [Timers -> {"idle", "sleeping", "sending"}]
    BY DEF Init
  <2> QED BY <2>1, <2>2 DEF Init, TypeOK, PCs, Results
<1> QED BY <1>1 DEF Init, TimerInv, TypeOK, OneTimer

\* What a drain leaves of the mailbox is a mailbox.
LEMMA ApplyType ==
  ASSUME TypeOK, apply
  PROVE  /\ mailbox' \in Seq(Requests \cup {Tick})
         /\ drain' \in [mailbox_len : Nat, requested : BOOLEAN]
         /\ intent' \in {"run", "pause", "drained"}
<1> DEFINE n == IF drain.requested THEN drain.mailbox_len ELSE 0
           k == IF n <= Len(mailbox) THEN n ELSE Len(mailbox)
<1>1. n \in Nat /\ Len(mailbox) \in Nat
  BY DEF TypeOK
<1>2. k \in 0 .. Len(mailbox)
  BY <1>1
<1>3. mailbox' = SubSeq(mailbox, k + 1, Len(mailbox))
      /\ drain' = [drain EXCEPT !.requested = FALSE]
  BY DEF apply
<1>4. drain' \in [mailbox_len : Nat, requested : BOOLEAN]
  BY <1>3 DEF TypeOK
<1>6. intent' \in {"run", "pause", "drained"}
  BY DEF apply, TypeOK
<1> HIDE DEF k
<1>5. mailbox' \in Seq(Requests \cup {Tick})
  BY <1>2, <1>3 DEF TypeOK
<1> QED BY <1>4, <1>5, <1>6

\* Pausing and resuming give up the handle and mark its timer.
LEMMA AbortInv ==
  ASSUME TimerInv, pause_task \/ resume_task
  PROVE  /\ OneTimer'
         /\ join_handle' = None
         /\ cron_state' \in {"Normal", "Paused"}
         /\ aborting' \in SUBSET Timers
         /\ \A t \in aborting' : timer'[t] # "idle"
BY DEF TimerInv, TypeOK, OneTimer, pause_task, resume_task, abort

\* The steps of the timers.
LEMMA TimerSteps ==
  ASSUME TimerInv, NEW t \in Timers, TimerFire(t) \/ TimerSend(t) \/ TimerEnd(t)
  PROVE  TimerInv'
<1> USE DEF TimerInv, taskUnchanged, ctxVars
<1>1. CASE TimerFire(t)
  BY <1>1 DEF TimerFire, TypeOK, OneTimer
<1>2. CASE TimerSend(t)
  <2>1. mailbox' \in Seq(Requests \cup {Tick})
    BY <1>2 DEF TimerSend, TypeOK
  <2>2. TypeOK'
    BY <1>2, <2>1 DEF TimerSend, TypeOK
  <2>3. OneTimer' /\ \A q \in aborting' : timer'[q] # "idle"
    BY <1>2 DEF TimerSend, TypeOK, OneTimer
  <2> QED BY <1>2, <2>2, <2>3 DEF TimerSend
<1>3. CASE TimerEnd(t)
  BY <1>3 DEF TimerEnd, TypeOK, OneTimer
<1> QED BY <1>1, <1>2, <1>3

\* The calls of user code.
LEMMA CallSteps ==
  ASSUME TimerInv, NEW m \in Methods, Call(m)
  PROVE  TimerInv'
<1> USE DEF history, timerVars, ctxVars
<1>1. UNCHANGED <<pc, result, mailbox, open, current, sent>>
  BY DEF Call
<1>2. intent' \in {"run", "pause", "drained"} /\ pending' \in Timers \cup {None, ByHand}
  BY DEF Call, TimerInv, TypeOK
<1>3. drain' \in [mailbox_len : Nat, requested : BOOLEAN]
  <2>1. CASE UNCHANGED drain BY <2>1 DEF TimerInv, TypeOK
  <2>2. CASE drain' = [drain EXCEPT !.requested = TRUE] BY <2>2 DEF TimerInv, TypeOK
  <2> QED BY <2>1, <2>2 DEF Call
<1>4. CASE pause_task \/ resume_task
  <2>1. UNCHANGED <<state, error, timer>>
    BY <1>4 DEF pause_task, resume_task, abort
  <2>2. TypeOK'
    BY <1>1, <1>2, <1>3, <1>4, <2>1, AbortInv DEF TimerInv, TypeOK
  <2> QED BY <1>1, <1>4, <2>2, AbortInv DEF TimerInv
<1>5. CASE UNCHANGED <<cron_state, join_handle, timer, aborting>>
  <2>1. state' \in {"Running", "Stopping", "Stopped"} /\ error' \in {"saved", None}
    BY DEF Call, set_state, pause_task, resume_task, TimerInv, TypeOK
  <2>2. TypeOK'
    BY <1>1, <1>2, <1>3, <1>5, <2>1 DEF TimerInv, TypeOK
  <2> QED BY <1>1, <1>5, <2>2 DEF TimerInv, OneTimer
<1> QED BY <1>4, <1>5 DEF Call, set_state

\* The steps of the loop.
LEMMA LoopSteps ==
  ASSUME TimerInv, LoopNext
  PROVE  TimerInv'
<1> USE DEF ctxVars, timerVars, history
<1>1. CASE Round \/ TaskZero \/ StoppingContinue \/ Leave
  <2>1. TypeOK'
    BY <1>1 DEF Round, TaskZero, StoppingContinue, Leave, set_state, TimerInv,
       TypeOK, PCs, Results
  <2>2. /\ UNCHANGED <<cron_state, join_handle, timer, aborting>>
        /\ pc' = "task" => cron_state = "Normal"
    BY <1>1 DEF Round, TaskZero, StoppingContinue, Leave, set_state
  <2> QED BY <2>1, <2>2 DEF TimerInv, OneTimer
<1>2. CASE TaskTimer
  <2>1. PICK t \in Timers :
          /\ timer[t] = "idle"
          /\ timer' = [timer EXCEPT ![t] = "sleeping"]
          /\ join_handle' = t
          /\ pending' = IF pending = ByHand THEN ByHand ELSE t
    BY <1>2 DEF TaskTimer
  <2>2. join_handle = None /\ cron_state' = "Paused" /\ UNCHANGED aborting
    BY <1>2 DEF TaskTimer, TimerInv
  <2>3. TypeOK'
    BY <1>2, <2>1 DEF TaskTimer, TimerInv, TypeOK, PCs
  <2>4. \A q \in Timers : timer'[q] # "idle" => q = t \/ q \in aborting
    BY <2>1, <2>2, CronAssumption DEF TimerInv, TypeOK, OneTimer
  <2>5. \A q \in aborting' : timer'[q] # "idle"
    BY <2>1, <2>2 DEF TimerInv, TypeOK
  <2> QED BY <1>2, <2>1, <2>2, <2>3, <2>4, <2>5 DEF TaskTimer, TimerInv, OneTimer
<1>3. CASE Recv
  <2>1. mailbox' \in Seq(Requests \cup {Tick})
        /\ current' \in Requests \cup {Tick, None}
    BY <1>3 DEF Recv, TimerInv, TypeOK
  <2> QED BY <1>3, <2>1 DEF Recv, TimerInv, TypeOK, OneTimer, PCs
<1>4. CASE Snapshot
  <2>1. drain' \in [mailbox_len : Nat, requested : BOOLEAN]
    BY <1>4 DEF Snapshot, snapshot, TimerInv, TypeOK
  <2> QED BY <1>4, <2>1 DEF Snapshot, TimerInv, TypeOK, OneTimer, PCs
<1>5. CASE Handle
  <2>1. /\ OneTimer' /\ cron_state' \in {"Normal", "Paused"}
        /\ join_handle' \in Timers \cup {None}
        /\ aborting' \in SUBSET Timers
        /\ \A t \in aborting' : timer'[t] # "idle"
        /\ UNCHANGED <<timer, error>>
        /\ state' \in {"Running", "Stopping", "Stopped"}
    <3>1. CASE pause_task \/ resume_task
      BY <3>1, AbortInv DEF pause_task, resume_task, abort, TimerInv, TypeOK
    <3>2. CASE UNCHANGED <<ctxVars, timerVars>> \/ \E s \in {"Stopping", "Stopped"} :
                 set_state(s)
      BY <3>2 DEF set_state, TimerInv, TypeOK, OneTimer
    <3> QED BY <1>5, <3>1, <3>2 DEF Handle
  <2>2. intent' \in {"run", "pause", "drained"} /\ pending' \in Timers \cup {None, ByHand}
    BY <1>5 DEF Handle, TimerInv, TypeOK
  <2> QED BY <1>5, <2>1, <2>2 DEF Handle, TimerInv, TypeOK, PCs
<1>6. ASSUME NEW res \in Results, roundOver(res)
      PROVE  /\ result' \in Results /\ state' \in {"Running", "Stopping", "Stopped"}
             /\ pc' \in PCs \ {"task"}
             /\ UNCHANGED <<cron_state, join_handle, open, sent, timer, aborting,
                            pending>>
  BY <1>6 DEF roundOver, TimerInv, TypeOK, PCs
<1>7. take_error \in Results
  BY DEF take_error, TimerInv, TypeOK, Results
<1>8. CASE RoundHandled
  BY <1>6, <1>7, <1>8, ApplyType DEF RoundHandled, TimerInv, TypeOK, OneTimer
<1>9. CASE RoundEmpty
  BY <1>6, <1>7, <1>9 DEF RoundEmpty, TimerInv, TypeOK, OneTimer
<1>10. CASE TaskFail
  BY <1>6, <1>10 DEF TaskFail, TimerInv, TypeOK, OneTimer, Results
<1>11. CASE Exit
  <2>1. mailbox' \in Seq(Requests \cup {Tick})
    BY <1>11 DEF Exit
  <2>2. open' \in BOOLEAN
    BY <1>11 DEF Exit
  <2> QED BY <1>11, <2>1, <2>2 DEF Exit, TimerInv, TypeOK, OneTimer, PCs
<1> QED
  BY <1>1, <1>2, <1>3, <1>4, <1>5, <1>8, <1>9, <1>10, <1>11 DEF LoopNext

LEMMA TimerNext == TimerInv /\ [Next]_vars => TimerInv'
<1> SUFFICES ASSUME TimerInv, [Next]_vars PROVE TimerInv'
  OBVIOUS
<1>1. ASSUME NEW r \in Requests, Send(r) PROVE TimerInv'
  <2>1. mailbox' \in Seq(Requests \cup {Tick})
    BY <1>1 DEF Send, TimerInv, TypeOK
  <2> QED BY <1>1, <2>1 DEF Send, TimerInv, TypeOK, OneTimer, ctxVars, timerVars,
                            history
<1>2. CASE UNCHANGED vars
  BY <1>2 DEF vars, TimerInv, TypeOK, OneTimer
<1> QED BY <1>1, <1>2, LoopSteps, CallSteps, TimerSteps DEF Next

\* Whatever commands, calls and late timers interleave, at most one timer that is
\* not being aborted exists, and none while the task is running normally.
THEOREM NoTimerRace == Spec => []OneTimer
<1>1. Spec => []TimerInv
  BY TimerInit, TimerNext, PTL DEF Spec
<1> QED BY <1>1, PTL DEF TimerInv

\* Every reachable state of the cron loop is well typed.
THEOREM CronTypeCorrect == Spec => []TypeOK
<1>1. Spec => []TimerInv
  BY TimerInit, TimerNext, PTL DEF Spec
<1> QED BY <1>1, PTL DEF TimerInv

-----------------------------------------------------------------------------
(* The interval between two runs of the task.                               *)

HasTick == \E i \in DOMAIN mailbox : mailbox[i] = Tick

OneTick == \A i, j \in DOMAIN mailbox : mailbox[i] = Tick /\ mailbox[j] = Tick => i = j

\* The task neither runs nor is about to.
Held == cron_state = "Paused" /\ pc # "task"

Idle(t) == timer[t] = "idle"

\* Until somebody resumes the task by hand there is one right to run it: the task or its
\* Normal state has it, or a timer, or one Tick in the mailbox or at hand.  While the
\* interval of a timer is not over only this timer can have it.
OneResume ==
  pending # ByHand =>
    /\ OneTick
    /\ \A t, u \in Timers : ~Idle(t) /\ ~Idle(u) => t = u
    /\ HasTick => current # Tick
    /\ HasTick \/ current = Tick => Held /\ \A t \in Timers : Idle(t)
    /\ (\E t \in Timers : ~Idle(t)) => Held
    /\ pending \in Timers =>
         /\ ~HasTick /\ current # Tick /\ Held
         /\ \A t \in Timers : ~Idle(t) => t = pending /\ timer[t] = "sleeping"

\* A handler has a message.
AtHand == pc \in {"received", "handle"} => current \in Requests \cup {Tick}

\* What is received or drained leaves the younger messages in place.
LEMMA Shrunk ==
  ASSUME TypeOK, NEW k \in 0 .. Len(mailbox),
         mailbox' = SubSeq(mailbox, k + 1, Len(mailbox))
  PROVE  (OneTick => OneTick') /\ (HasTick' => HasTick)
<1>1. /\ Len(mailbox) \in Nat /\ DOMAIN mailbox = 1 .. Len(mailbox)
      /\ DOMAIN mailbox' = 1 .. (Len(mailbox) - k)
      /\ \A i \in DOMAIN mailbox' : mailbox'[i] = mailbox[i + k]
  BY DEF TypeOK
<1>2. \A i \in DOMAIN mailbox' : i + k \in DOMAIN mailbox /\ mailbox'[i] = mailbox[i + k]
  BY <1>1
<1>3. \A i, j \in DOMAIN mailbox' : i + k = j + k => i = j
  BY <1>1
<1>4. HasTick' => HasTick
  BY <1>2 DEF HasTick
<1>5. ASSUME OneTick, NEW i \in DOMAIN mailbox', NEW j \in DOMAIN mailbox',
             mailbox'[i] = Tick, mailbox'[j] = Tick
      PROVE  i = j
  <2>1. i + k = j + k
    BY <1>2, <1>5 DEF OneTick
  <2> QED BY <1>3, <2>1
<1> QED BY <1>4, <1>5 DEF OneTick

\* mailbox.recv; a Tick that is received was the only one.
LEMMA Received ==
  ASSUME TypeOK, mailbox # <<>>, mailbox' = Tail(mailbox)
  PROVE  /\ (OneTick => OneTick') /\ (HasTick' => HasTick)
         /\ Head(mailbox) = Tick => HasTick
         /\ Head(mailbox) = Tick /\ OneTick => ~HasTick'
<1>1. /\ Len(mailbox) \in Nat /\ Len(mailbox) > 0 /\ DOMAIN mailbox = 1 .. Len(mailbox)
      /\ DOMAIN mailbox' = 1 .. (Len(mailbox) - 1)
      /\ \A i \in DOMAIN mailbox' : mailbox'[i] = mailbox[i + 1]
      /\ Head(mailbox) = mailbox[1]
  BY DEF TypeOK
<1>2. mailbox' = SubSeq(mailbox, 1 + 1, Len(mailbox)) /\ 1 \in 0 .. Len(mailbox)
  BY <1>1 DEF TypeOK
<1>3. (OneTick => OneTick') /\ (HasTick' => HasTick)
  BY <1>2, Shrunk
<1>4. Head(mailbox) = Tick => HasTick
  BY <1>1 DEF HasTick
<1>5. ASSUME Head(mailbox) = Tick, OneTick, NEW i \in DOMAIN mailbox', mailbox'[i] = Tick
      PROVE  FALSE
  <2>1. i + 1 \in DOMAIN mailbox /\ 1 \in DOMAIN mailbox /\ i + 1 # 1
    BY <1>1
  <2> QED BY <1>1, <1>5, <2>1 DEF OneTick
<1> QED BY <1>3, <1>4, <1>5 DEF HasTick

\* A message enters the mailbox.
LEMMA Queued ==
  ASSUME TypeOK, NEW m \in Requests \cup {Tick}, mailbox' = Append(mailbox, m)
  PROVE  /\ m # Tick => (OneTick => OneTick') /\ (HasTick' => HasTick)
         /\ ~HasTick => OneTick'
<1>1. /\ Len(mailbox) \in Nat /\ DOMAIN mailbox = 1 .. Len(mailbox)
      /\ DOMAIN mailbox' = 1 .. (Len(mailbox) + 1)
      /\ mailbox'[Len(mailbox) + 1] = m
      /\ \A i \in DOMAIN mailbox : mailbox'[i] = mailbox[i]
  BY DEF TypeOK
<1>2. \A i \in DOMAIN mailbox' : i \in DOMAIN mailbox \/ i = Len(mailbox) + 1
  BY <1>1
<1> QED BY <1>1, <1>2, Zenon DEF OneTick, HasTick

\* A step that makes no Tick and no timer, and does not run the task, keeps OneResume.
LEMMA Calm ==
  ASSUME OneResume, OneTick => OneTick', HasTick' => HasTick,
         current' = Tick => current = Tick,
         \A t \in Timers : timer'[t] \in {timer[t], "idle"},
         Held => Held', pending' \in {pending, ByHand}
  PROVE  OneResume'
<1> SUFFICES ASSUME pending' # ByHand, pending' = pending PROVE OneResume'
  BY DEF OneResume
<1>1. \A t \in Timers : ~Idle(t)' => ~Idle(t) /\ timer'[t] = timer[t]
  BY DEF Idle
<1> QED BY <1>1, Zenon DEF OneResume

\* The same for a step that resumes the task by hand.
LEMMA Resumed == ASSUME pending' = ByHand PROVE OneResume'
BY DEF OneResume

\* The steps of the timers: the one that was due sends the one Tick.
LEMMA TimerResume ==
  ASSUME TimerInv, OneResume, NEW t \in Timers,
         TimerFire(t) \/ TimerSend(t) \/ TimerEnd(t)
  PROVE  OneResume'
<1> USE DEF taskUnchanged, ctxVars, TimerInv
<1>1. timer \in [Timers -> {"idle", "sleeping", "sending"}] /\ ByHand \notin Timers
      /\ UNCHANGED <<pc, cron_state, current>>
  BY CronAssumption DEF TypeOK, TimerFire, TimerSend, TimerEnd
<1>2. CASE TimerFire(t)
  <2>1. /\ timer[t] = "sleeping" /\ timer' = [timer EXCEPT ![t] = "sending"]
        /\ pending' = (IF t = pending THEN None ELSE pending) /\ UNCHANGED mailbox
    BY <1>2 DEF TimerFire
  <2>2. \A u \in Timers : Idle(u)' <=> Idle(u)
    BY <1>1, <2>1 DEF Idle
  <2>3. SUFFICES ASSUME pending # ByHand PROVE OneResume'
    BY <1>1, <2>1 DEF OneResume
  <2>4. pending' \notin Timers
    BY <2>1, <2>3, CronAssumption DEF OneResume, Idle
  <2> QED BY <1>1, <2>1, <2>2, <2>3, <2>4 DEF OneResume, OneTick, HasTick, Held
<1>3. CASE TimerSend(t)
  <2>1. /\ timer[t] = "sending" /\ timer' = [timer EXCEPT ![t] = "idle"]
        /\ mailbox' = Append(mailbox, Tick) /\ UNCHANGED pending
    BY <1>3 DEF TimerSend
  <2>2. SUFFICES ASSUME pending # ByHand PROVE OneResume'
    BY <2>1 DEF OneResume
  <2>3. /\ ~Idle(t) /\ Idle(t)'
        /\ \A u \in Timers : u # t => (Idle(u)' <=> Idle(u))
    BY <1>1, <2>1 DEF Idle
  <2>4. /\ ~HasTick /\ current # Tick /\ Held /\ pending \notin Timers
        /\ \A u \in Timers : u # t => Idle(u)
    BY <2>1, <2>2, <2>3 DEF OneResume
  <2>5. OneTick'
    BY <2>1, <2>4, Queued
  <2>6. Held'
    BY <1>1, <2>4 DEF Held
  <2> QED BY <1>1, <2>1, <2>3, <2>4, <2>5, <2>6 DEF OneResume
<1>4. CASE TimerEnd(t)
  <2>1. timer' = [timer EXCEPT ![t] = "idle"] /\ UNCHANGED <<mailbox, pending>>
    BY <1>4 DEF TimerEnd
  <2> QED BY <1>1, <2>1, Calm DEF OneTick, HasTick, Held
<1> QED BY <1>2, <1>3, <1>4

\* The calls of user code.
LEMMA CallResume ==
  ASSUME TimerInv, OneResume, NEW m \in Methods, Call(m)
  PROVE  OneResume'
<1>1. UNCHANGED <<pc, mailbox, current, timer>>
  BY DEF Call, pause_task, resume_task, abort, set_state, timerVars
<1>2. CASE m = "resume_task"
  BY <1>2, Resumed DEF Call
<1>3. CASE m # "resume_task"
  <2>1. UNCHANGED pending /\ cron_state' \in {cron_state, "Paused"}
    BY <1>3 DEF Call, pause_task, set_state, history, ctxVars
  <2> QED BY <1>1, <2>1, Calm DEF OneTick, HasTick, Held
<1> QED BY <1>2, <1>3

\* The end of a round does not run the task, and leaves the timers alone.
LEMMA OverStep ==
  ASSUME TypeOK, NEW res, roundOver(res)
  PROVE  UNCHANGED <<cron_state, timer, pending>> /\ pc' # "task"
BY DEF roundOver, TypeOK, timerVars

\* The steps of the loop: a Tick makes the task Normal, the task makes a timer.
LEMMA LoopResume ==
  ASSUME TimerInv, AtHand, OneResume, LoopNext
  PROVE  OneResume'
<1> USE DEF ctxVars, timerVars, history
<1>1. TypeOK
  BY DEF TimerInv
<1>2. CASE Round \/ TaskZero \/ StoppingContinue \/ Leave \/ Snapshot
  <2>1. /\ UNCHANGED <<mailbox, timer, cron_state, pending>>
        /\ current' \in {current, None}
        /\ pc' = "task" => cron_state = "Normal"
    BY <1>2 DEF Round, TaskZero, StoppingContinue, Leave, Snapshot, set_state
  <2> QED BY <2>1, Calm DEF OneTick, HasTick, Held
<1>3. CASE TaskTimer
  <2>1. PICK t \in Timers :
          /\ timer' = [timer EXCEPT ![t] = "sleeping"]
          /\ pending' = IF pending = ByHand THEN ByHand ELSE t
    BY <1>3 DEF TaskTimer
  <2>2. /\ pc = "task" /\ pc' = "recv" /\ cron_state' = "Paused"
        /\ UNCHANGED <<mailbox, current>>
    BY <1>3 DEF TaskTimer
  <2>3. CASE pending = ByHand
    BY <2>1, <2>3, Resumed
  <2>4. CASE pending # ByHand
    <3>1. ~HasTick /\ current # Tick /\ \A u \in Timers : Idle(u)
      BY <2>2, <2>4 DEF OneResume, Held
    <3>2. /\ \A u \in Timers : ~Idle(u)' => u = t /\ timer'[u] = "sleeping"
          /\ Held' /\ ~HasTick' /\ current' # Tick /\ pending' = t
      BY <1>1, <2>1, <2>2, <2>4, <3>1 DEF Idle, Held, HasTick, TypeOK
    <3> QED BY <3>2 DEF OneResume, OneTick, HasTick
  <2> QED BY <2>3, <2>4
<1>4. CASE Recv
  <2>1. /\ mailbox # <<>> /\ mailbox' = Tail(mailbox) /\ current' = Head(mailbox)
        /\ pc' = "received" /\ UNCHANGED <<timer, cron_state, pending>>
    BY <1>4 DEF Recv
  <2>2. /\ (OneTick => OneTick') /\ (HasTick' => HasTick)
        /\ current' = Tick => HasTick
        /\ current' = Tick /\ OneTick => ~HasTick'
    BY <1>1, <2>1, Received
  <2>3. (Held => Held') /\ \A t \in Timers : Idle(t)' <=> Idle(t)
    BY <2>1 DEF Held, Idle
  <2>4. SUFFICES ASSUME pending # ByHand PROVE OneResume'
    BY <2>1 DEF OneResume
  <2> QED BY <2>1, <2>2, <2>3, <2>4, Zenon DEF OneResume
<1>5. CASE Handle
  <2>1. pc' = "handled" /\ current' = None /\ UNCHANGED mailbox
    BY <1>5 DEF Handle
  <2>2. UNCHANGED timer
    BY <1>5 DEF Handle, pause_task, resume_task, abort, set_state
  <2>3. CASE current = Tick
    <3>1. resume_task /\ UNCHANGED pending
      BY <1>5, <2>3, CronAssumption DEF Handle
    <3>2. SUFFICES ASSUME pending # ByHand PROVE OneResume'
      BY <3>1 DEF OneResume
    <3>3. ~HasTick /\ pending \notin Timers /\ \A t \in Timers : Idle(t)
      BY <2>3, <3>2 DEF OneResume
    <3>4. ~HasTick' /\ pending' \notin Timers /\ \A t \in Timers : Idle(t)'
      BY <2>1, <2>2, <3>1, <3>3 DEF HasTick, Idle
    <3> QED BY <2>1, <3>4 DEF OneResume, OneTick, HasTick
  <2>4. CASE current # Tick /\ Kind[current] = "Resume" /\ current \in Requests
    BY <1>5, <2>4, Resumed DEF Handle
  <2>5. CASE current # Tick /\ ~(Kind[current] = "Resume" /\ current \in Requests)
    <3>1. UNCHANGED pending
      BY <1>5, <2>5 DEF Handle
    <3>2. current \in Requests
      BY <1>5, <2>5 DEF Handle, AtHand
    <3>3. cron_state' \in {cron_state, "Paused"}
      BY <1>5, <2>5, <3>2 DEF Handle, pause_task, set_state
    <3> QED BY <2>1, <2>2, <3>1, <3>3, Calm DEF OneTick, HasTick, Held
  <2> QED BY <2>3, <2>4, <2>5
<1>6. CASE RoundHandled
  <2> DEFINE n == IF drain.requested THEN drain.mailbox_len ELSE 0
             k == IF n <= Len(mailbox) THEN n ELSE Len(mailbox)
  <2>1. mailbox' = SubSeq(mailbox, k + 1, Len(mailbox))
    BY <1>6 DEF RoundHandled, apply
  <2>2. k \in 0 .. Len(mailbox)
    BY <1>1 DEF TypeOK
  <2> HIDE DEF k
  <2>3. (OneTick => OneTick') /\ (HasTick' => HasTick)
    BY <1>1, <2>1, <2>2, Shrunk
  <2>4. /\ UNCHANGED <<cron_state, timer, pending, current>> /\ pc' # "task"
    <3>1. roundOver(take_error) /\ UNCHANGED current
      BY <1>6 DEF RoundHandled
    <3> QED BY <1>1, <3>1, OverStep
  <2> QED BY <2>3, <2>4, Calm DEF Held
<1>7. CASE RoundEmpty \/ TaskFail
  <2>1. UNCHANGED <<cron_state, timer, pending, current, mailbox>> /\ pc' # "task"
    <3>1. UNCHANGED <<mailbox, current>> /\ \E res : roundOver(res)
      BY <1>7 DEF RoundEmpty, TaskFail
    <3> QED BY <1>1, <3>1, OverStep
  <2> QED BY <2>1, Calm DEF Held, OneTick, HasTick
<1>8. CASE Exit
  <2>1. /\ UNCHANGED <<cron_state, timer, pending, current>> /\ pc' # "task"
        /\ mailbox' = <<>>
    BY <1>8 DEF Exit
  <2>2. OneTick' /\ ~HasTick'
    BY <2>1 DEF OneTick, HasTick
  <2> QED BY <2>1, <2>2, Calm DEF Held
<1> QED BY <1>2, <1>3, <1>4, <1>5, <1>6, <1>7, <1>8 DEF LoopNext

\* Every step keeps AtHand.
LEMMA HandStep == TimerInv /\ AtHand /\ [Next]_vars => AtHand'
<1> SUFFICES ASSUME TimerInv, AtHand, [Next]_vars PROVE AtHand'
  OBVIOUS
<1>1. TypeOK
  BY DEF TimerInv
<1>2. CASE LoopNext
  <2>1. CASE Recv
    BY <1>1, <2>1 DEF Recv, TypeOK, AtHand
  <2>2. CASE Snapshot
    BY <2>2 DEF Snapshot, AtHand
  <2>3. CASE RoundHandled \/ RoundEmpty \/ TaskFail
    BY <1>1, <2>3 DEF RoundHandled, RoundEmpty, TaskFail, roundOver, TypeOK, AtHand
  <2>4. CASE Round \/ TaskZero \/ TaskTimer \/ Handle \/ Leave \/ StoppingContinue \/ Exit
    BY <2>4 DEF Round, TaskZero, TaskTimer, Handle, Leave, StoppingContinue, Exit, AtHand
  <2> QED BY <1>2, <2>1, <2>2, <2>3, <2>4 DEF LoopNext
<1>3. CASE ~LoopNext
  <2>1. UNCHANGED <<pc, current>>
    BY <1>3 DEF Next, Send, Call, TimerFire, TimerSend, TimerEnd, taskUnchanged, vars
  <2> QED BY <2>1 DEF AtHand
<1> QED BY <1>2, <1>3

\* Every step keeps OneResume.
LEMMA ResumeStep == TimerInv /\ AtHand /\ OneResume /\ [Next]_vars => OneResume'
<1> SUFFICES ASSUME TimerInv, AtHand, OneResume, [Next]_vars PROVE OneResume'
  OBVIOUS
<1>1. ASSUME NEW r \in Requests, Send(r) PROVE OneResume'
  <2>1. /\ mailbox' = Append(mailbox, r) /\ r # Tick
        /\ UNCHANGED <<pc, cron_state, current, timer, pending>>
    BY <1>1, CronAssumption DEF Send, ctxVars, timerVars, history
  <2>2. (OneTick => OneTick') /\ (HasTick' => HasTick)
    BY <2>1, Queued DEF TimerInv
  <2> QED BY <2>1, <2>2, Calm DEF Held
<1>2. CASE UNCHANGED vars
  BY <1>2, Calm DEF vars, OneTick, HasTick, Held
<1> QED BY <1>1, <1>2, LoopResume, CallResume, TimerResume DEF Next

\* As long as nobody resumes the task by hand it does not run again before the interval
\* it returned is over, whatever pauses, aborted timers that still send, drains and
\* restarts of the loop interleave, for any number of timers and messages.
THEOREM IntervalKept == Spec => IntervalRespected
<1>1. Init => AtHand /\ OneResume
  <2> SUFFICES ASSUME Init PROVE AtHand /\ OneResume
    OBVIOUS
  <2>1. AtHand /\ current # Tick /\ pending \notin Timers /\ \A t \in Timers : Idle(t)
    BY CronAssumption DEF Init, AtHand, Idle
  <2>2. OneTick /\ ~HasTick
    BY DEF Init, OneTick, HasTick
  <2> QED BY <2>1, <2>2 DEF OneResume
<1>2. Spec => [](TimerInv /\ AtHand /\ OneResume)
  BY <1>1, TimerInit, TimerNext, HandStep, ResumeStep, PTL DEF Spec
<1>3. TimerInv /\ OneResume /\ [Next]_vars =>
        [pc # "task" /\ pc' = "task" => pending \in {None, ByHand}]_vars
  <2> SUFFICES ASSUME TimerInv, OneResume, Next, pc # "task", pc' = "task"
               PROVE  pending \in {None, ByHand}
    OBVIOUS
  <2>1. Round
    BY DEF Next, LoopNext, TaskZero, TaskTimer, TaskFail, Recv, Snapshot, Handle,
       RoundHandled, RoundEmpty, Leave, StoppingContinue, Exit, Send, Call, TimerFire,
       TimerSend, TimerEnd, taskUnchanged, roundOver, TimerInv, TypeOK
  <2>2. cron_state = "Normal"
    BY <2>1 DEF Round
  <2> QED BY <2>2 DEF OneResume, Held, TimerInv, TypeOK
<1> QED BY <1>2, <1>3, PTL DEF Spec, IntervalRespected

=============================================================================
