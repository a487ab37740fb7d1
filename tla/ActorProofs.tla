---------------------------- MODULE ActorProofs ----------------------------
(***************************************************************************)
(* Proofs about Actor, for every set of requests, every capacity, both     *)
(* drain policies and every choice of points where user code calls the     *)
(* context.                                                                *)
(***************************************************************************)
EXTENDS Actor, TLAPS

USE DEF None

\* The context starts well typed.
LEMMA InitType == Init => TypeOK
BY ConstantsAssumption DEF Init, TypeOK, PCs, UserCode, ActorState, Errors,
   Results, Status, Ended, SupervisionEvent

\* Adding an event to the supervisor's mailbox, or losing it, keeps its type.
LEMMA NotifyType ==
  ASSUME TypeOK, NEW e \in SupervisionEvent, try_notify_supervisor(e)
  PROVE  events' \in Seq(SupervisionEvent)
BY DEF TypeOK, try_notify_supervisor

\* set_state keeps the types of what it changes.
LEMMA SetStateType ==
  ASSUME TypeOK, NEW s \in ActorState, set_state(s)
  PROVE  state' \in ActorState /\ events' \in Seq(SupervisionEvent)
<1>1. <<"State", s>> \in SupervisionEvent
  BY DEF SupervisionEvent
<1> QED BY <1>1, NotifyType DEF set_state

\* Dropping messages and dropping the mailbox keep the types.
LEMMA DropType ==
  ASSUME TypeOK, NEW S
  PROVE  DropMessages(S) \in [Requests -> Status]
BY DEF TypeOK, DropMessages, Status, Settled

LEMMA DropMailboxType ==
  ASSUME TypeOK, DropMailbox
  PROVE  /\ mailbox' \in Seq(Requests)
         /\ open' \in BOOLEAN /\ addressed' \in BOOLEAN
         /\ current' \in Requests \cup {None}
         /\ status' \in [Requests -> Status]
<1>1. DropMessages(Queued \cup {current}) \in [Requests -> Status]
  BY DropType
<1>2. mailbox' \in Seq(Requests)
  BY DEF DropMailbox
<1>3. open' \in BOOLEAN /\ addressed' \in BOOLEAN /\ current' \in Requests \cup {None}
  BY DEF DropMailbox, TypeOK
<1> QED BY <1>1, <1>2, <1>3, SMTT(30) DEF DropMailbox

\* How a client's request may go on without entering the mailbox.
Moves(r, v) ==
  /\ addressed \/ status[r] \in {"waiting", "reserved"}
  /\ \/ status[r] = "idle" /\ v \in {"waiting", "full", "rejected"}
     \/ status[r] = "waiting" /\ v \in {"rejected", "timeout"}
     \/ open /\ status[r] \in {"idle", "waiting"} /\ v = "reserved"
     \/ status[r] = "reserved" /\ v = "cancelled"
     \/ ~open /\ status[r] = "reserved" /\ v = "stranded"

\* It enters the mailbox through the slot that it took.
Enters(r) ==
  /\ open /\ status[r] = "reserved"
  /\ mailbox' = Append(mailbox, r)
  /\ status' = [status EXCEPT ![r] = "queued"]

\* What the steps of the clients do.
LEMMA ClientStep ==
  ASSUME ClientNext
  PROVE  /\ clientUnchanged
         /\ \/ UNCHANGED <<mailbox, status>> /\ abandoned' \in SUBSET (abandoned \cup Requests)
            \/ \E r \in Requests :
                 /\ UNCHANGED abandoned
                 /\ \/ Enters(r)
                    \/ \E v \in Status : /\ Moves(r, v) /\ UNCHANGED mailbox
                                         /\ status' = [status EXCEPT ![r] = v]
<1>1. PICK r \in Requests :
        \/ Send(r) \/ Acquire(r) \/ SendClosed(r) \/ SendTimeout(r) \/ TrySend(r)
        \/ Push(r) \/ DropPermit(r) \/ DropReceiver(r)
  BY DEF ClientNext
<1> DEFINE Move == \E v \in Status : /\ Moves(r, v) /\ UNCHANGED mailbox
                                     /\ status' = [status EXCEPT ![r] = v]
<1>2. CASE DropReceiver(r)
  BY <1>2 DEF DropReceiver
<1>3. CASE Push(r) /\ open
  BY <1>3 DEF Push, Enters
<1>4. ASSUME NEW v \in Status, Moves(r, v), become(r, v)
      PROVE  clientUnchanged /\ UNCHANGED abandoned /\ Move
  BY <1>4 DEF become
<1>5. ASSUME Send(r) \/ Acquire(r) \/ SendClosed(r) \/ SendTimeout(r) \/ TrySend(r)
      PROVE  clientUnchanged /\ UNCHANGED abandoned /\ Move
  <2>1. \E v \in Status : Moves(r, v) /\ become(r, v)
    BY <1>5 DEF Send, Acquire, SendClosed, SendTimeout, TrySend, Moves, Status, Settled
  <2> QED BY <1>4, <2>1
<1>6. ASSUME DropPermit(r) \/ (Push(r) /\ ~open)
      PROVE  clientUnchanged /\ UNCHANGED abandoned /\ Move
  <2>1. \E v \in Status : Moves(r, v) /\ become(r, v)
    BY <1>6 DEF Push, DropPermit, Moves, Status, Settled
  <2> QED BY <1>4, <2>1
<1>7. \/ DropReceiver(r) \/ (Push(r) /\ open)
      \/ clientUnchanged /\ UNCHANGED abandoned /\ Move
  <2> HIDE DEF Move
  <2> QED BY <1>1, <1>5, <1>6
<1> QED BY <1>2, <1>3, <1>7

\* Every step of the clients keeps the types.
LEMMA ClientType == TypeOK /\ ClientNext => TypeOK'
<1> SUFFICES ASSUME TypeOK, ClientNext PROVE TypeOK'
  OBVIOUS
<1>1. /\ clientUnchanged /\ abandoned' \in SUBSET Requests
      /\ mailbox' \in Seq(Requests) /\ status' \in [Requests -> Status]
  <2>1. CASE UNCHANGED <<mailbox, status>> /\ abandoned' \in SUBSET (abandoned \cup Requests)
    BY <2>1, ClientStep DEF TypeOK
  <2>2. ASSUME NEW r \in Requests, UNCHANGED abandoned, Enters(r)
        PROVE  <1>1
    <3>1. mailbox' \in Seq(Requests)
      BY <2>2 DEF Enters, TypeOK
    <3> QED BY <2>2, <3>1, ClientStep DEF Enters, TypeOK, Status
  <2>3. ASSUME NEW r \in Requests, NEW v \in Status, UNCHANGED <<abandoned, mailbox>>,
               status' = [status EXCEPT ![r] = v]
        PROVE  <1>1
    BY <2>3, ClientStep DEF TypeOK
  <2> QED BY <2>1, <2>2, <2>3, ClientStep
<1> QED BY <1>1 DEF TypeOK, clientUnchanged, ctxVars, supVars

\* Every call of the context by user code keeps the types.
LEMMA ContextType == TypeOK /\ ContextNext => TypeOK'
<1> SUFFICES ASSUME TypeOK, ContextNext PROVE TypeOK'
  OBVIOUS
<1>1. CASE CtxStop
  <2>1. state' \in ActorState /\ events' \in Seq(SupervisionEvent)
    BY <1>1, SetStateType DEF CtxStop, ActorState
  <2> QED BY <1>1, <2>1 DEF CtxStop, TypeOK, ctxVars, boxVars
<1>2. CASE CtxTerminate
  <2>1. state' \in ActorState /\ events' \in Seq(SupervisionEvent)
    BY <1>2, SetStateType DEF CtxTerminate, ActorState
  <2> QED BY <1>2, <2>1 DEF CtxTerminate, TypeOK, ctxVars, boxVars
<1>3. CASE CtxSaveError
  BY <1>3 DEF CtxSaveError, TypeOK, boxVars, supVars, Errors
<1>4. CASE CtxDrain
  BY <1>4 DEF CtxDrain, TypeOK, boxVars, supVars
<1> QED BY <1>1, <1>2, <1>3, <1>4 DEF ContextNext

\* The steps of the supervisor, of the detached futures and of terminate_actor
\* keep the types.
LEMMA OutsideType ==
  ASSUME TypeOK,
         \/ SupervisorHandle \/ SupervisorStop \/ TerminateActorAbort
         \/ DropAddresses \/ \E r \in Requests : FutureResolves(r)
  PROVE  TypeOK'
<1> USE DEF TypeOK, ctxVars, boxVars, supVars
<1>1. CASE SupervisorHandle
  <2>1. events' \in Seq(SupervisionEvent)
    BY <1>1 DEF SupervisorHandle
  <2> QED BY <1>1, <2>1 DEF SupervisorHandle
<1>2. CASE SupervisorStop
  <2>1. events' \in Seq(SupervisionEvent)
    BY <1>2 DEF SupervisorStop
  <2>2. supOpen' \in BOOLEAN
    BY <1>2 DEF SupervisorStop
  <2> QED BY <1>2, <2>1, <2>2 DEF SupervisorStop
<1>3. CASE TerminateActorAbort BY <1>3 DEF TerminateActorAbort, PCs, Ended
<1>4. CASE \E r \in Requests : FutureResolves(r)
  BY <1>4 DEF FutureResolves, Status, Settled
<1>5. CASE DropAddresses
  <2>1. status' \in [Requests -> Status]
    BY <1>5, DropType DEF DropAddresses
  <2> QED BY <1>5, <2>1 DEF DropAddresses
<1> QED BY <1>1, <1>2, <1>3, <1>4, <1>5

\* Starting the actor keeps the types.
LEMMA StartType ==
  ASSUME TypeOK, PreStartOk \/ PreStartFail \/ PostStartOk \/ PostStartFail
  PROVE  TypeOK'
<1>1. CASE PreStartOk
  <2>1. state' \in ActorState /\ events' \in Seq(SupervisionEvent)
    BY <1>1, SetStateType DEF PreStartOk, ActorState
  <2> QED BY <1>1, <2>1 DEF PreStartOk, TypeOK, ctxVars, boxVars, PCs, UserCode
<1>2. CASE PreStartFail
  BY <1>2, DropMailboxType
     DEF PreStartFail, TypeOK, ctxVars, supVars, PCs, Ended
<1>3. CASE PostStartOk
  <2>1. state' \in ActorState /\ events' \in Seq(SupervisionEvent)
    BY <1>3, SetStateType DEF PostStartOk, ActorState
  <2> QED BY <1>3, <2>1 DEF PostStartOk, TypeOK, ctxVars, boxVars, PCs
<1>4. CASE PostStartFail
  <2>1. state' \in ActorState /\ events' \in Seq(SupervisionEvent)
    BY <1>4, SetStateType DEF PostStartFail, ActorState
  <2>2. result' \in Results /\ unreported' \in SUBSET Errors
    BY <1>4 DEF PostStartFail, TypeOK, Results, Errors
  <2> QED
    BY <1>4, <2>1, <2>2, DropMailboxType DEF PostStartFail, TypeOK, PCs
<1> QED BY <1>1, <1>2, <1>3, <1>4

\* Taking a message out and handling it keeps the types.
LEMMA HandleType ==
  ASSUME TypeOK,
         \/ Recv \/ Snapshot \/ HandleUser \/ HandleExpired \/ HandleFuture
         \/ HandleSignal \/ HandleSupervisor \/ HandlePanic
  PROVE  TypeOK'
<1> USE DEF ctxVars, supVars
<1>1. CASE Recv
  <2>1. mailbox' \in Seq(Requests) /\ current' \in Requests
    BY <1>1 DEF Recv, TypeOK
  <2>2. status' \in [Requests -> Status]
    BY <1>1 DEF Recv, TypeOK, Status
  <2> QED BY <1>1, <2>1, <2>2 DEF Recv, TypeOK, PCs
<1>2. CASE Snapshot
  <2>1. drain' \in [mailbox_len : Nat, requested : BOOLEAN]
    BY <1>2 DEF Snapshot, snapshot, TypeOK
  <2>2. behind' \in SUBSET Requests
    BY <1>2 DEF Snapshot, Queued, TypeOK
  <2>3. /\ status' \in [Requests -> Status]
        /\ current' \in Requests \cup {None}
        /\ pc' \in PCs
    BY <1>2 DEF Snapshot, TypeOK, Status, Settled, PCs, UserCode
  <2> QED BY <1>2, <2>1, <2>2, <2>3 DEF Snapshot, TypeOK
<1>3. ASSUME NEW fate \in Status, finish(fate)
      PROVE  /\ pc' \in PCs
             /\ status' \in [Requests -> Status]
             /\ current' \in Requests \cup {None}
  BY <1>3 DEF finish, TypeOK, PCs
<1>4. {"replied", "expired", "deferred"} \subseteq Status
  BY DEF Status, Settled
<1>5. CASE HandleUser \/ HandleExpired \/ HandleFuture
  <2>1. \E fate \in Status : finish(fate)
    BY <1>4, <1>5 DEF HandleUser, HandleExpired, HandleFuture
  <2> QED
    BY <1>3, <1>5, <2>1
       DEF HandleUser, HandleExpired, HandleFuture, finish, TypeOK
<1>6. CASE HandleSignal
  <2>1. \E s \in ActorState : set_state(s)
    BY <1>6 DEF HandleSignal, ActorState
  <2>2. state' \in ActorState /\ events' \in Seq(SupervisionEvent)
    BY <2>1, SetStateType
  <2> QED BY <1>3, <1>4, <1>6, <2>2 DEF HandleSignal, finish, TypeOK
<1>7. CASE HandleSupervisor
  BY <1>3, <1>4, <1>7 DEF HandleSupervisor, set_supervisor, finish, TypeOK
<1>8. CASE HandlePanic
  <2>1. status' \in [Requests -> Status]
    BY <1>8 DEF HandlePanic, TypeOK, Status, Settled
  <2> QED BY <1>8, <2>1 DEF HandlePanic, TypeOK, PCs, Results
<1> QED BY <1>1, <1>2, <1>5, <1>6, <1>7, <1>8

\* A drain takes a prefix off the mailbox: at most mailbox_len messages, and
\* none unless it was asked for.
LEMMA ApplyEffect ==
  ASSUME TypeOK, apply
  PROVE  \E k \in 0 .. Len(mailbox) :
           /\ k <= drain.mailbox_len
           /\ mailbox' = SubSeq(mailbox, k + 1, Len(mailbox))
           /\ mailbox' \in Seq(Requests)
           /\ status' = DropMessages({mailbox[i] : i \in 1 .. k})
           /\ status' \in [Requests -> Status]
           /\ drain' = [drain EXCEPT !.requested = FALSE]
           /\ drain' \in [mailbox_len : Nat, requested : BOOLEAN]
<1> DEFINE n == IF drain.requested THEN drain.mailbox_len ELSE 0
           k == IF n <= Len(mailbox) THEN n ELSE Len(mailbox)
<1>1. n \in Nat /\ n <= drain.mailbox_len /\ Len(mailbox) \in Nat
  BY DEF TypeOK
<1>2. k \in 0 .. Len(mailbox) /\ k <= drain.mailbox_len
  BY <1>1
<1>3. /\ mailbox' = SubSeq(mailbox, k + 1, Len(mailbox))
      /\ status' = DropMessages({mailbox[i] : i \in 1 .. k})
      /\ drain' = [drain EXCEPT !.requested = FALSE]
  BY DEF apply
<1>4. drain' \in [mailbox_len : Nat, requested : BOOLEAN]
  BY <1>3 DEF TypeOK
<1> HIDE DEF k
<1>5. mailbox' \in Seq(Requests)
  BY <1>2, <1>3 DEF TypeOK
<1>6. status' \in [Requests -> Status]
  BY <1>3, DropType
<1> QED BY <1>2, <1>3, <1>4, <1>5, <1>6

\* The rest of the loop body and the end of the task keep the types.
LEMMA LoopType ==
  ASSUME TypeOK,
         \/ AfterHandle \/ StoppingStop \/ StoppingContinue \/ Resume
         \/ StoppingFail \/ StoppingPanic \/ LeaveLoop
         \/ \E outcome \in {"ok", "post_stop", "panic"} : PostStop(outcome)
         \/ Report
  PROVE  TypeOK'
<1> USE DEF ctxVars, boxVars, supVars
<1>1. CASE AfterHandle
  <2>1. /\ mailbox' \in Seq(Requests)
        /\ status' \in [Requests -> Status]
        /\ drain' \in [mailbox_len : Nat, requested : BOOLEAN]
    BY <1>1, ApplyEffect DEF AfterHandle
  <2>2. state' \in ActorState /\ events' \in Seq(SupervisionEvent)
    BY <1>1, SetStateType DEF AfterHandle, ActorState, TypeOK
  <2>3. take_error \in Results
    BY DEF take_error, TypeOK, Results
  <2>4. pc' \in PCs /\ error' \in Errors \cup {None} /\ taken' \in Results
        /\ result' \in Results
    BY <1>1, <2>3 DEF AfterHandle, TypeOK, PCs, UserCode
  <2> QED BY <1>1, <2>1, <2>2, <2>4 DEF AfterHandle, TypeOK
<1>2. CASE StoppingStop
  BY <1>2 DEF StoppingStop, TypeOK, PCs
<1>3. CASE StoppingContinue
  <2>1. events' \in Seq(SupervisionEvent)
    <3>1. <<"Warn", taken>> \in SupervisionEvent
      BY DEF TypeOK, SupervisionEvent
    <3> QED BY <1>3, <3>1, NotifyType DEF StoppingContinue, TypeOK
  <2> QED BY <1>3, <2>1 DEF StoppingContinue, TypeOK, PCs
<1>4. CASE Resume
  <2>1. state' \in ActorState /\ events' \in Seq(SupervisionEvent)
    BY <1>4, SetStateType DEF Resume, ActorState
  <2> QED BY <1>4, <2>1 DEF Resume, TypeOK, PCs
<1>5. CASE StoppingFail
  BY <1>5 DEF StoppingFail, or, TypeOK, PCs, Results, Errors
<1>6. CASE StoppingPanic
  BY <1>6 DEF StoppingPanic, TypeOK, PCs, Results
<1>7. CASE LeaveLoop
  <2>1. state' \in ActorState /\ events' \in Seq(SupervisionEvent)
    BY <1>7, SetStateType DEF LeaveLoop, ActorState, TypeOK
  <2>2. pc' \in PCs
    BY <1>7 DEF LeaveLoop, PCs, UserCode
  <2> QED BY <1>7, <2>1, <2>2, DropMailboxType DEF LeaveLoop, TypeOK
<1>8. CASE \E outcome \in {"ok", "post_stop", "panic"} : PostStop(outcome)
  BY <1>8 DEF PostStop, TypeOK, PCs, Results, Errors
<1>9. CASE Report
  <2>1. events' \in Seq(SupervisionEvent)
    <3>1. <<IF result = "panic" THEN "Panicked" ELSE "Terminated", result>>
            \in SupervisionEvent
      BY DEF TypeOK, SupervisionEvent
    <3> QED BY <1>9, <3>1, NotifyType DEF Report
  <2> QED BY <1>9, <2>1 DEF Report, TypeOK, PCs, Ended
<1> QED
  BY <1>1, <1>2, <1>3, <1>4, <1>5, <1>6, <1>7, <1>8, <1>9

\* Every step of the system keeps the types.
LEMMA NextType == TypeOK /\ [Next]_vars => TypeOK'
<1> SUFFICES ASSUME TypeOK, [Next]_vars PROVE TypeOK'
  OBVIOUS
<1>1. CASE TaskNext
  BY <1>1, StartType, HandleType, LoopType DEF TaskNext
<1>2. CASE UNCHANGED vars
  BY <1>2 DEF vars, TypeOK
<1> QED BY <1>1, <1>2, ClientType, ContextType, OutsideType DEF Next

\* Every reachable state of the actor is well typed.
THEOREM TypeCorrect == Spec => []TypeOK
BY InitType, NextType, PTL DEF Spec

-----------------------------------------------------------------------------
(* The requests and the mailbox agree.                                      *)

\* A request that is neither queued nor handled may change its status freely.
LEMMA AccountStatus ==
  ASSUME TypeOK, RequestsAccounted, NEW r \in Requests, NEW v,
         status[r] \notin {"queued", "handling"},
         v \notin {"queued", "handling"},
         status' = [status EXCEPT ![r] = v],
         UNCHANGED <<mailbox, current>>
  PROVE  RequestsAccounted'
BY DEF TypeOK, RequestsAccounted, Queued

\* A request that is not yet in the mailbox may enter it.
LEMMA AccountEnqueue ==
  ASSUME TypeOK, RequestsAccounted, NEW r \in Requests,
         Enters(r), UNCHANGED current
  PROVE  RequestsAccounted'
<1>1. /\ mailbox \in Seq(Requests) /\ status \in [Requests -> Status]
      /\ mailbox' = Append(mailbox, r)
      /\ status' = [status EXCEPT ![r] = "queued"]
  BY DEF Enters, TypeOK
<1>2. /\ Len(mailbox) \in Nat
      /\ DOMAIN mailbox = 1 .. Len(mailbox)
      /\ DOMAIN mailbox' = 1 .. Len(mailbox) + 1
      /\ \A i \in 1 .. Len(mailbox) : mailbox'[i] = mailbox[i]
      /\ mailbox'[Len(mailbox) + 1] = r
  BY <1>1
<1>3. \A i \in DOMAIN mailbox : mailbox[i] \in Requests /\ mailbox[i] # r
  BY <1>1 DEF RequestsAccounted, Enters
<1>4. \A i \in DOMAIN mailbox' : status'[mailbox'[i]] = "queued"
  BY <1>1, <1>2, <1>3 DEF RequestsAccounted
<1>5. \A i, j \in DOMAIN mailbox' : mailbox'[i] = mailbox'[j] => i = j
  BY <1>2, <1>3 DEF RequestsAccounted
<1>6. \A q \in Requests : status'[q] = "queued" => q \in Queued'
  BY <1>1, <1>2 DEF RequestsAccounted, Queued
<1>7. \A q \in Requests : status'[q] = "handling" <=> current' = q
  BY <1>1 DEF RequestsAccounted, Enters
<1> QED BY <1>4, <1>5, <1>6, <1>7 DEF RequestsAccounted

\* The message at hand may be finished with.
LEMMA AccountFinish ==
  ASSUME TypeOK, RequestsAccounted, current # None, NEW v,
         v \notin {"queued", "handling"},
         status' = [status EXCEPT ![current] = v],
         current' = None, UNCHANGED mailbox
  PROVE  RequestsAccounted'
<1>1. current \in Requests /\ status[current] = "handling"
  BY DEF TypeOK, RequestsAccounted
<1> QED BY <1>1, ConstantsAssumption DEF TypeOK, RequestsAccounted, Queued

\* Nothing is left to account for when the mailbox is dropped.
LEMMA AccountDrop ==
  ASSUME TypeOK, RequestsAccounted, DropMailbox
  PROVE  RequestsAccounted'
<1>1. \A q \in Requests : status'[q] \notin {"queued", "handling"}
  BY DEF DropMailbox, DropMessages, RequestsAccounted, TypeOK
<1>2. mailbox' = <<>> /\ current' = None
  BY DEF DropMailbox
<1> QED BY <1>1, <1>2, ConstantsAssumption DEF RequestsAccounted

\* The head of the mailbox may become the message at hand.
LEMMA AccountRecv ==
  ASSUME TypeOK, RequestsAccounted, current = None, Recv
  PROVE  RequestsAccounted'
<1>1. /\ mailbox \in Seq(Requests) /\ mailbox # <<>>
      /\ status \in [Requests -> Status]
      /\ mailbox' = Tail(mailbox) /\ current' = mailbox[1]
      /\ status' = [status EXCEPT ![mailbox[1]] = "handling"]
  BY DEF Recv, TypeOK
<1>2. /\ Len(mailbox) \in Nat \ {0}
      /\ DOMAIN mailbox = 1 .. Len(mailbox)
      /\ DOMAIN mailbox' = 1 .. Len(mailbox) - 1
      /\ \A i \in 1 .. Len(mailbox) - 1 : mailbox'[i] = mailbox[i + 1]
      /\ \A i \in 1 .. Len(mailbox) : mailbox[i] \in Requests
  BY <1>1
<1>3. \A i \in DOMAIN mailbox' : status'[mailbox'[i]] = "queued"
  BY <1>1, <1>2 DEF RequestsAccounted
<1>4. \A i, j \in DOMAIN mailbox' : mailbox'[i] = mailbox'[j] => i = j
  BY <1>2 DEF RequestsAccounted
<1>5. \A q \in Requests : status'[q] = "queued" => q \in Queued'
  <2> SUFFICES ASSUME NEW q \in Requests, status'[q] = "queued"
               PROVE  \E i \in DOMAIN mailbox' : mailbox'[i] = q
    BY DEF Queued
  <2>1. PICK j \in 1 .. Len(mailbox) : mailbox[j] = q /\ j # 1
    BY <1>1, <1>2 DEF RequestsAccounted, Queued
  <2>2. j - 1 \in DOMAIN mailbox' /\ mailbox'[j - 1] = q
    BY <1>2, <2>1
  <2> QED BY <2>2
<1>6. \A q \in Requests : status'[q] = "handling" <=> current' = q
  BY <1>1, <1>2, ConstantsAssumption DEF RequestsAccounted
<1> QED BY <1>3, <1>4, <1>5, <1>6 DEF RequestsAccounted

\* A drain takes the messages it drops out of the mailbox.
LEMMA AccountApply ==
  ASSUME TypeOK, RequestsAccounted, apply, UNCHANGED current
  PROVE  RequestsAccounted'
<1>1. PICK k \in 0 .. Len(mailbox) :
        /\ mailbox' = SubSeq(mailbox, k + 1, Len(mailbox))
        /\ status' = DropMessages({mailbox[i] : i \in 1 .. k})
  BY ApplyEffect
<1>2. /\ Len(mailbox) \in Nat
      /\ DOMAIN mailbox = 1 .. Len(mailbox)
      /\ DOMAIN mailbox' = 1 .. Len(mailbox) - k
      /\ \A i \in 1 .. Len(mailbox) - k : mailbox'[i] = mailbox[i + k]
      /\ \A i \in 1 .. Len(mailbox) : mailbox[i] \in Requests
  <2>1. /\ Len(mailbox) \in Nat
        /\ DOMAIN mailbox = 1 .. Len(mailbox)
        /\ \A i \in 1 .. Len(mailbox) : mailbox[i] \in Requests
    BY DEF TypeOK
  <2>2. k + 1 \in 1 .. Len(mailbox) + 1 /\ mailbox \in Seq(Requests)
    BY <2>1 DEF TypeOK
  <2>3. DOMAIN mailbox' = 1 .. Len(mailbox) - k
    BY <1>1, <2>1, <2>2
  <2>4. \A i \in 1 .. Len(mailbox) - k : mailbox'[i] = mailbox[i + k]
    BY <1>1, <2>1, <2>2
  <2> QED BY <2>1, <2>3, <2>4
<1>3. \A q \in Requests :
        status'[q] = IF \E i \in 1 .. k : mailbox[i] = q THEN "closed" ELSE status[q]
  BY <1>1 DEF DropMessages
<1>4. \A i \in DOMAIN mailbox' : status'[mailbox'[i]] = "queued"
  <2> SUFFICES ASSUME NEW i \in DOMAIN mailbox'
               PROVE  status'[mailbox'[i]] = "queued"
    OBVIOUS
  <2>1. /\ i + k \in DOMAIN mailbox /\ mailbox'[i] = mailbox[i + k]
        /\ mailbox[i + k] \in Requests
    BY <1>2
  <2>2. ~ \E j \in 1 .. k : mailbox[j] = mailbox[i + k]
    BY <1>2, <2>1 DEF RequestsAccounted
  <2> QED BY <1>3, <2>1, <2>2 DEF RequestsAccounted
<1>5. \A i, j \in DOMAIN mailbox' : mailbox'[i] = mailbox'[j] => i = j
  <2> SUFFICES ASSUME NEW i \in DOMAIN mailbox', NEW j \in DOMAIN mailbox',
                      mailbox'[i] = mailbox'[j]
               PROVE  i = j
    OBVIOUS
  <2>1. i + k \in DOMAIN mailbox /\ j + k \in DOMAIN mailbox
        /\ mailbox[i + k] = mailbox[j + k]
    BY <1>2
  <2>2. i + k = j + k
    BY <2>1 DEF RequestsAccounted
  <2> QED BY <1>2, <2>2
<1>6. \A q \in Requests : status'[q] = "queued" => q \in Queued'
  <2> SUFFICES ASSUME NEW q \in Requests, status'[q] = "queued"
               PROVE  \E i \in DOMAIN mailbox' : mailbox'[i] = q
    BY DEF Queued
  <2>1. PICK j \in 1 .. Len(mailbox) : mailbox[j] = q /\ j \notin 1 .. k
    <3>1. status[q] = "queued" /\ ~ \E i \in 1 .. k : mailbox[i] = q
      BY <1>3
    <3>2. PICK j \in DOMAIN mailbox : mailbox[j] = q
      BY <3>1 DEF RequestsAccounted, Queued
    <3> QED BY <1>2, <3>1, <3>2
  <2>2. j - k \in 1 .. Len(mailbox) - k /\ (j - k) + k = j
    BY <1>1, <1>2, <2>1
  <2>3. j - k \in DOMAIN mailbox' /\ mailbox'[j - k] = q
    BY <1>2, <2>1, <2>2
  <2> QED BY <2>3
<1>7. \A q \in Requests : status'[q] = "handling" <=> current' = q
  <2> SUFFICES ASSUME NEW q \in Requests
               PROVE  status'[q] = "handling" <=> status[q] = "handling"
    BY DEF RequestsAccounted
  <2>1. CASE \E i \in 1 .. k : mailbox[i] = q
    BY <1>2, <1>3, <2>1 DEF RequestsAccounted
  <2>2. CASE ~ \E i \in 1 .. k : mailbox[i] = q
    BY <1>3, <2>2
  <2> QED BY <2>1, <2>2
<1> QED BY <1>4, <1>5, <1>6, <1>7 DEF RequestsAccounted

\* Every step keeps the requests and the mailbox in agreement.
LEMMA AccountStep ==
  ASSUME TypeOK, RequestsAccounted, TaskShape, [Next]_vars
  PROVE  RequestsAccounted'
<1>1. ASSUME UNCHANGED <<mailbox, status, current>> PROVE RequestsAccounted'
  BY <1>1 DEF RequestsAccounted, Queued
<1>2. CASE ClientNext
  <2>1. UNCHANGED current
    BY <1>2, ClientStep DEF clientUnchanged
  <2>2. CASE UNCHANGED <<mailbox, status>>
    BY <1>1, <2>1, <2>2
  <2>3. ASSUME NEW r \in Requests, Enters(r)
        PROVE  RequestsAccounted'
    BY <2>1, <2>3, AccountEnqueue
  <2>4. ASSUME NEW r \in Requests, NEW v \in Status, Moves(r, v), UNCHANGED mailbox,
               status' = [status EXCEPT ![r] = v]
        PROVE  RequestsAccounted'
    BY <2>1, <2>4, AccountStatus DEF Moves
  <2> QED BY <1>2, <2>2, <2>3, <2>4, ClientStep
<1>3. CASE ContextNext
  BY <1>1, <1>3
     DEF ContextNext, CtxStop, CtxTerminate, CtxSaveError, CtxDrain, boxVars
<1>4. CASE \E r \in Requests : FutureResolves(r)
  <2> PICK r \in Requests, fate \in {"replied", "closed"} :
        /\ status[r] = "deferred"
        /\ status' = [status EXCEPT ![r] = fate]
        /\ UNCHANGED <<mailbox, current>>
    BY <1>4 DEF FutureResolves
  <2> QED BY AccountStatus
<1>13. CASE DropAddresses
  <2>1. /\ UNCHANGED <<mailbox, current>>
        /\ \A r \in Requests :
             \/ status'[r] = status[r]
             \/ status[r] = "stranded" /\ status'[r] = "closed"
    BY <1>13 DEF DropAddresses, DropMessages
  <2> QED BY <2>1 DEF RequestsAccounted, Queued, TypeOK
<1>5. CASE PreStartFail \/ PostStartFail \/ LeaveLoop
  BY <1>5, AccountDrop DEF PreStartFail, PostStartFail, LeaveLoop
<1>6. CASE Recv
  BY <1>6, AccountRecv DEF Recv, TaskShape
<1>7. CASE Snapshot
  <2>1. current # None
    BY <1>7 DEF Snapshot, TaskShape
  <2> QED BY <1>1, <1>7, <2>1, AccountFinish DEF Snapshot
<1>8. CASE HandleUser \/ HandleExpired \/ HandleFuture \/ HandleSignal
           \/ HandleSupervisor \/ HandlePanic
  <2>1. current # None
    BY <1>8 DEF HandleUser, HandleExpired, HandleFuture, HandleSignal,
                HandleSupervisor, HandlePanic, TaskShape
  <2>2. \E v \in {"replied", "expired", "deferred", "closed"} :
          /\ status' = [status EXCEPT ![current] = v]
          /\ current' = None
          /\ UNCHANGED mailbox
    BY <1>8 DEF HandleUser, HandleExpired, HandleFuture, HandleSignal,
                HandleSupervisor, HandlePanic, finish
  <2> QED BY <2>1, <2>2, AccountFinish
<1>9. CASE AfterHandle
  BY <1>9, AccountApply DEF AfterHandle
<1>10. CASE \/ PreStartOk \/ PostStartOk \/ StoppingStop \/ StoppingContinue
            \/ Resume \/ StoppingFail \/ StoppingPanic \/ Report
            \/ \E outcome \in {"ok", "post_stop", "panic"} : PostStop(outcome)
  BY <1>1, <1>10
     DEF PreStartOk, PostStartOk, StoppingStop, StoppingContinue, Resume,
         StoppingFail, StoppingPanic, Report, PostStop, boxVars
<1>11. CASE SupervisorHandle \/ SupervisorStop \/ TerminateActorAbort
  BY <1>1, <1>11
     DEF SupervisorHandle, SupervisorStop, TerminateActorAbort, boxVars
<1>12. CASE UNCHANGED vars
  BY <1>1, <1>12 DEF vars
<1> QED
  BY <1>2, <1>3, <1>4, <1>5, <1>6, <1>7, <1>8, <1>9, <1>10, <1>11, <1>12, <1>13
     DEF Next, TaskNext

-----------------------------------------------------------------------------
(* The shape of the task, the drained prefix and the detached replies.      *)

\* Every step keeps the shape of the task.
LEMMA ShapeStep ==
  ASSUME TypeOK, TaskShape, [Next]_vars
  PROVE  TaskShape'
<1> USE DEF TaskShape, Ended, ctxVars, boxVars, supVars
<1>1. CASE ClientNext
  <2>1. clientUnchanged
    BY <1>1, ClientStep
  <2>2. open \/ UNCHANGED mailbox
    BY <1>1, ClientStep DEF Enters
  <2> QED BY <2>1, <2>2 DEF clientUnchanged
<1>2. CASE ContextNext
  <2>1. pc \in UserCode
    BY <1>2, ConstantsAssumption
       DEF ContextNext, CtxStop, CtxTerminate, CtxSaveError, CtxDrain, InUserCode
  <2> QED
    BY <1>2, <2>1 DEF ContextNext, CtxStop, CtxTerminate, CtxSaveError, CtxDrain,
                      set_state, UserCode
<1>3. CASE PreStartOk \/ PreStartFail \/ PostStartOk \/ PostStartFail
  BY <1>3 DEF PreStartOk, PreStartFail, PostStartOk, PostStartFail, set_state,
              DropMailbox
<1>4. CASE Recv \/ Snapshot
  <2>1. CASE Recv
    <3>1. Head(mailbox) \in Requests
      BY <2>1 DEF Recv, TypeOK
    <3> QED BY <2>1, <3>1, ConstantsAssumption DEF Recv
  <2>2. CASE Snapshot BY <2>2 DEF Snapshot
  <2> QED BY <1>4, <2>1, <2>2
<1>5. CASE HandleUser \/ HandleExpired \/ HandleFuture \/ HandleSignal
           \/ HandleSupervisor \/ HandlePanic
  <2>1. CASE HandleUser BY <2>1 DEF HandleUser, finish
  <2>2. CASE HandleExpired BY <2>2 DEF HandleExpired, finish
  <2>3. CASE HandleFuture BY <2>3 DEF HandleFuture, finish
  <2>4. CASE HandleSignal BY <2>4 DEF HandleSignal, finish
  <2>5. CASE HandleSupervisor BY <2>5 DEF HandleSupervisor, finish
  <2>6. CASE HandlePanic BY <2>6 DEF HandlePanic
  <2> QED BY <1>5, <2>1, <2>2, <2>3, <2>4, <2>5, <2>6
<1>6. CASE AfterHandle
  BY <1>6 DEF AfterHandle
<1>7. CASE StoppingStop \/ StoppingContinue \/ StoppingFail \/ StoppingPanic
           \/ Resume
  BY <1>7 DEF StoppingStop, StoppingContinue, StoppingFail, StoppingPanic,
              Resume, set_state
<1>8. CASE \/ LeaveLoop \/ Report \/ TerminateActorAbort
           \/ \E outcome \in {"ok", "post_stop", "panic"} : PostStop(outcome)
  <2>1. CASE LeaveLoop BY <2>1 DEF LeaveLoop, DropMailbox
  <2>2. CASE Report BY <2>2 DEF Report
  <2>3. CASE TerminateActorAbort BY <2>3 DEF TerminateActorAbort
  <2>4. CASE \E outcome \in {"ok", "post_stop", "panic"} : PostStop(outcome)
    BY <2>4 DEF PostStop
  <2> QED BY <1>8, <2>1, <2>2, <2>3, <2>4
<1>9. CASE \/ SupervisorHandle \/ SupervisorStop \/ DropAddresses \/ UNCHANGED vars
           \/ \E r \in Requests : FutureResolves(r)
  <2>1. UNCHANGED <<pc, state, current, open, mailbox>>
    BY <1>9 DEF SupervisorHandle, SupervisorStop, DropAddresses, FutureResolves, vars
  <2> QED BY <2>1
<1> QED
  BY <1>1, <1>2, <1>3, <1>4, <1>5, <1>6, <1>7, <1>8, <1>9 DEF Next, TaskNext

\* Every step keeps the drained prefix among the messages queued before the
\* handler started.
LEMMA DrainStep ==
  ASSUME TypeOK, TaskShape, DrainPrefix, [Next]_vars
  PROVE  DrainPrefix'
<1> USE DEF DrainPrefix, Ended, ctxVars, boxVars, supVars
<1>1. ASSUME UNCHANGED <<drain, mailbox, behind>>,
             pc' \in {"handle", "handled"} => pc \in {"handle", "handled"}
      PROVE  DrainPrefix'
  BY <1>1
<1>2. ASSUME UNCHANGED drain, pc' \notin {"handle", "handled"}
      PROVE  DrainPrefix'
  BY <1>2
<1>3. CASE ClientNext
  <2>1. UNCHANGED <<pc, drain, behind>>
    BY <1>3, ClientStep DEF clientUnchanged
  <2>2. ASSUME NEW r \in Requests, mailbox' = Append(mailbox, r)
        PROVE  DrainPrefix'
    <3>1. /\ Len(mailbox) \in Nat /\ Len(mailbox') = Len(mailbox) + 1
          /\ drain.mailbox_len \in Nat
          /\ \A i \in 1 .. Len(mailbox) : mailbox'[i] = mailbox[i]
      BY <2>2 DEF TypeOK
    <3> QED BY <2>1, <3>1
  <2>3. UNCHANGED mailbox \/ \E r \in Requests : mailbox' = Append(mailbox, r)
    BY <1>3, ClientStep DEF Enters
  <2> QED BY <1>1, <2>1, <2>2, <2>3
<1>4. CASE CtxStop \/ CtxTerminate \/ CtxSaveError
  BY <1>1, <1>4 DEF CtxStop, CtxTerminate, CtxSaveError
<1>5. CASE CtxDrain
  BY <1>5, SMTT(30) DEF CtxDrain, TypeOK
<1>6. CASE \/ PreStartOk \/ PreStartFail \/ PostStartOk \/ PostStartFail \/ Recv
           \/ HandlePanic \/ StoppingStop \/ StoppingContinue \/ Resume
           \/ StoppingFail \/ StoppingPanic \/ LeaveLoop \/ Report
           \/ TerminateActorAbort
           \/ \E outcome \in {"ok", "post_stop", "panic"} : PostStop(outcome)
  BY <1>2, <1>6
     DEF PreStartOk, PreStartFail, PostStartOk, PostStartFail, Recv, HandlePanic,
         StoppingStop, StoppingContinue, Resume, StoppingFail, StoppingPanic,
         LeaveLoop, Report, TerminateActorAbort, PostStop
<1>7. CASE Snapshot
  BY <1>7 DEF Snapshot, snapshot, Queued, TypeOK
<1>8. CASE HandleUser \/ HandleExpired \/ HandleFuture \/ HandleSignal
           \/ HandleSupervisor
  BY <1>1, <1>8 DEF HandleUser, HandleExpired, HandleFuture, HandleSignal,
                    HandleSupervisor, finish
<1>9. CASE AfterHandle
  <2>1. pc' \notin {"handle", "handled"}
    BY <1>9 DEF AfterHandle
  <2>2. drain'.mailbox_len = drain.mailbox_len
    BY <1>9, ApplyEffect DEF AfterHandle, TypeOK
  <2> QED BY <2>1, <2>2
<1>10. CASE \/ SupervisorHandle \/ SupervisorStop \/ DropAddresses \/ UNCHANGED vars
            \/ \E r \in Requests : FutureResolves(r)
  BY <1>1, <1>10 DEF SupervisorHandle, SupervisorStop, DropAddresses, FutureResolves, vars
<1> QED
  BY <1>3, <1>4, <1>5, <1>6, <1>7, <1>8, <1>9, <1>10
     DEF Next, TaskNext, ContextNext

\* A request becomes replied or deferred only as the message at hand, or when a
\* deferred reply resolves.
LEMMA ReplyOrigin ==
  ASSUME TypeOK, RequestsAccounted, TaskShape, [Next]_vars,
         NEW r \in Requests, status'[r] # status[r],
         status'[r] \in {"replied", "deferred"}
  PROVE  \/ current = r /\ HandleUser
         \/ current = r /\ HandleFuture /\ status'[r] = "deferred"
         \/ current = r /\ HandleSignal
         \/ current = r /\ HandleSupervisor
         \/ status[r] = "deferred" /\ status'[r] = "replied"
<1>1. ASSUME UNCHANGED status PROVE FALSE
  BY <1>1
<1>2. ASSUME NEW S, status' = DropMessages(S) PROVE FALSE
  BY <1>2 DEF DropMessages
<1>3. ASSUME NEW q, NEW v, v \notin {"replied", "deferred"},
             status' = [status EXCEPT ![q] = v]
      PROVE  FALSE
  BY <1>3 DEF TypeOK
<1>4. CASE ClientNext
  <2>1. CASE UNCHANGED status
    BY <1>1, <2>1
  <2>2. ASSUME NEW q \in Requests, Enters(q) PROVE FALSE
    BY <1>3, <2>2 DEF Enters
  <2>3. ASSUME NEW q \in Requests, NEW v \in Status, Moves(q, v),
               status' = [status EXCEPT ![q] = v]
        PROVE  FALSE
    BY <1>3, <2>3 DEF Moves
  <2> QED BY <1>4, <2>1, <2>2, <2>3, ClientStep
<1>5. CASE ContextNext
  BY <1>1, <1>5
     DEF ContextNext, CtxStop, CtxTerminate, CtxSaveError, CtxDrain, boxVars
<1>6. CASE PreStartFail \/ PostStartFail \/ LeaveLoop \/ DropAddresses
  BY <1>2, <1>6 DEF PreStartFail, PostStartFail, LeaveLoop, DropMailbox, DropAddresses
<1>7. CASE AfterHandle
  BY <1>2, <1>7, ApplyEffect DEF AfterHandle
<1>8. CASE Recv \/ Snapshot \/ HandleExpired \/ HandlePanic
  <2>1. CASE Recv BY <1>3, <2>1 DEF Recv
  <2>2. CASE Snapshot BY <1>1, <1>3, <2>2 DEF Snapshot
  <2>3. CASE HandleExpired BY <1>3, <2>3 DEF HandleExpired, finish
  <2>4. CASE HandlePanic BY <1>3, <2>4 DEF HandlePanic
  <2> QED BY <1>8, <2>1, <2>2, <2>3, <2>4
<1>9. CASE HandleUser \/ HandleFuture \/ HandleSignal \/ HandleSupervisor
  <2>1. \E v : status' = [status EXCEPT ![current] = v]
    BY <1>9 DEF HandleUser, HandleFuture, HandleSignal, HandleSupervisor, finish
  <2>2. current = r
    BY <2>1 DEF TypeOK
  <2>3. CASE HandleFuture
    BY <2>2, <2>3 DEF HandleFuture, finish, TypeOK
  <2> QED BY <1>9, <2>2, <2>3
<1>10. CASE \/ PreStartOk \/ PostStartOk \/ StoppingStop \/ StoppingContinue
            \/ Resume \/ StoppingFail \/ StoppingPanic \/ Report
            \/ \E outcome \in {"ok", "post_stop", "panic"} : PostStop(outcome)
  BY <1>1, <1>10
     DEF PreStartOk, PostStartOk, StoppingStop, StoppingContinue, Resume,
         StoppingFail, StoppingPanic, Report, PostStop, boxVars
<1>11. CASE \/ SupervisorHandle \/ SupervisorStop \/ TerminateActorAbort
            \/ UNCHANGED vars
  BY <1>1, <1>11
     DEF SupervisorHandle, SupervisorStop, TerminateActorAbort, boxVars, vars
<1>12. CASE \E q \in Requests : FutureResolves(q)
  <2> PICK q \in Requests, fate \in {"replied", "closed"} :
        status[q] = "deferred" /\ status' = [status EXCEPT ![q] = fate]
    BY <1>12, ZenonT(40) DEF FutureResolves
  <2> QED BY DEF TypeOK
<1> QED
  BY <1>4, <1>5, <1>6, <1>7, <1>8, <1>9, <1>10, <1>11, <1>12 DEF Next, TaskNext

\* Only FutureMessageResult handlers detach their reply.
LEMMA DeferredStep ==
  ASSUME TypeOK, RequestsAccounted, TaskShape, DeferredKind, [Next]_vars
  PROVE  DeferredKind'
<1> SUFFICES ASSUME NEW r \in Requests, status'[r] = "deferred",
                    status'[r] # status[r]
             PROVE  Kind[r] = "future"
  BY DEF DeferredKind
<1>1. current = r /\ (HandleUser \/ HandleFuture \/ HandleSignal \/ HandleSupervisor)
  BY ReplyOrigin
<1>2. CASE HandleUser \/ HandleSignal \/ HandleSupervisor
  BY <1>1, <1>2 DEF HandleUser, HandleSignal, HandleSupervisor, finish, TypeOK
<1>3. CASE HandleFuture
  BY <1>1, <1>3 DEF HandleFuture
<1> QED BY <1>1, <1>2, <1>3

\* Where the task is once a Terminate signal has been handled.
Final ==
  \/ pc \in {"exit", "post_stop", "report"} \cup Ended
  \/ pc = "handled" /\ state = "Stopped"

\* The task never comes back from there.
LEMMA FinalStep ==
  ASSUME TypeOK, Final, [Next]_vars
  PROVE  Final'
<1> USE DEF Final, Ended, ctxVars, boxVars, supVars
<1>1. CASE ClientNext
  BY <1>1, ClientStep DEF clientUnchanged
<1>2. CASE ContextNext
  <2>1. pc \in UserCode
    BY <1>2, ConstantsAssumption, SMTT(30)
       DEF ContextNext, CtxStop, CtxTerminate, CtxSaveError, CtxDrain, InUserCode
  <2> QED
    BY <1>2, <2>1
       DEF ContextNext, CtxStop, CtxTerminate, CtxSaveError, CtxDrain, UserCode
<1>3. CASE TaskNext
  BY <1>3 DEF TaskNext, PreStartOk, PreStartFail, PostStartOk, PostStartFail,
     Recv, Snapshot, HandleUser, HandleExpired, HandleFuture, HandleSignal,
     HandleSupervisor, HandlePanic, AfterHandle, StoppingStop, StoppingContinue,
     Resume, StoppingFail, StoppingPanic, LeaveLoop, PostStop, Report
<1>4. CASE \/ SupervisorHandle \/ SupervisorStop \/ TerminateActorAbort
           \/ DropAddresses \/ UNCHANGED vars \/ \E r \in Requests : FutureResolves(r)
  BY <1>4 DEF SupervisorHandle, SupervisorStop, TerminateActorAbort, DropAddresses,
     FutureResolves, vars
<1> QED BY <1>1, <1>2, <1>3, <1>4 DEF Next

\* Handling a Terminate signal leads there.
LEMMA TerminateStep ==
  ASSUME TypeOK, RequestsAccounted, TaskShape, DeferredKind, TerminateIsFinal,
         [Next]_vars
  PROVE  TerminateIsFinal'
<1> SUFFICES ASSUME NEW r \in Requests, Kind[r] = "Terminate",
                    status'[r] = "replied"
             PROVE  Final'
  BY DEF TerminateIsFinal, Final
<1>1. CASE status[r] = "replied"
  BY <1>1, FinalStep DEF TerminateIsFinal, Final
<1>2. CASE status[r] # "replied"
  <2>1. current = r /\ HandleSignal
    BY <1>2, ReplyOrigin
       DEF DeferredKind, HandleUser, HandleSupervisor, set_supervisor
  <2> QED BY <2>1 DEF HandleSignal, set_state, finish, Final
<1> QED BY <1>1, <1>2

\* A task that is over stays over.
LEMMA EndedStep ==
  ASSUME TypeOK, pc \in Ended, [Next]_vars
  PROVE  UNCHANGED pc
<1> USE DEF Ended
<1>1. CASE ClientNext
  BY <1>1, ClientStep DEF clientUnchanged
<1>2. CASE ContextNext
  BY <1>2, SMTT(30) DEF ContextNext, CtxStop, CtxTerminate, CtxSaveError, CtxDrain
<1>3. CASE TaskNext
  BY <1>3 DEF TaskNext, PreStartOk, PreStartFail, PostStartOk, PostStartFail,
     Recv, Snapshot, HandleUser, HandleExpired, HandleFuture, HandleSignal,
     HandleSupervisor, HandlePanic, AfterHandle, StoppingStop, StoppingContinue,
     Resume, StoppingFail, StoppingPanic, LeaveLoop, PostStop, Report
<1>4. CASE \/ SupervisorHandle \/ SupervisorStop \/ TerminateActorAbort
           \/ DropAddresses \/ UNCHANGED vars \/ \E r \in Requests : FutureResolves(r)
  BY <1>4 DEF SupervisorHandle, SupervisorStop, TerminateActorAbort, DropAddresses,
     FutureResolves, vars
<1> QED BY <1>1, <1>2, <1>3, <1>4 DEF Next

\* A request becomes waiting, reserved or stranded only by a step of its client.
LEMMA OutsideOrigin ==
  ASSUME TypeOK, TaskShape, [Next]_vars,
         NEW r \in Requests, status'[r] # status[r],
         status'[r] \in {"waiting", "reserved", "stranded"}
  PROVE  ClientNext
<1>1. ASSUME NEW S, status' = DropMessages(S) PROVE FALSE
  BY <1>1 DEF DropMessages
<1>2. ASSUME NEW q, NEW v, v \notin {"waiting", "reserved", "stranded"},
             status' = [status EXCEPT ![q] = v]
      PROVE  FALSE
  BY <1>2 DEF TypeOK
<1>3. CASE \/ PreStartFail \/ PostStartFail \/ LeaveLoop \/ DropAddresses
  BY <1>1, <1>3 DEF PreStartFail, PostStartFail, LeaveLoop, DropMailbox, DropAddresses
<1>4. CASE AfterHandle
  BY <1>1, <1>4, ApplyEffect DEF AfterHandle
<1>5. CASE \/ Recv \/ Snapshot \/ HandleUser \/ HandleExpired \/ HandleFuture
           \/ HandleSignal \/ HandleSupervisor \/ HandlePanic
           \/ \E q \in Requests : FutureResolves(q)
  BY <1>2, <1>5, ZenonT(40) DEF Recv, Snapshot, HandleUser, HandleExpired, HandleFuture,
     HandleSignal, HandleSupervisor, HandlePanic, FutureResolves, finish
<1>6. CASE \/ PreStartOk \/ PostStartOk \/ StoppingStop \/ StoppingContinue
           \/ Resume \/ StoppingFail \/ StoppingPanic \/ Report
           \/ \E outcome \in {"ok", "post_stop", "panic"} : PostStop(outcome)
           \/ SupervisorHandle \/ SupervisorStop \/ TerminateActorAbort
           \/ UNCHANGED vars \/ ContextNext
  <2>1. UNCHANGED status
    BY <1>6 DEF PreStartOk, PostStartOk, StoppingStop, StoppingContinue, Resume,
       StoppingFail, StoppingPanic, Report, PostStop, SupervisorHandle,
       SupervisorStop, TerminateActorAbort, vars, ContextNext, CtxStop,
       CtxTerminate, CtxSaveError, CtxDrain, boxVars
  <2> QED BY <2>1
<1> QED BY <1>3, <1>4, <1>5, <1>6 DEF Next, TaskNext

\* The mailbox never comes back.
LEMMA OpenStep ==
  ASSUME TypeOK, TaskShape, [Next]_vars
  PROVE  /\ open' => open
         /\ UNCHANGED addressed \/ DropAddresses
<1> USE DEF boxVars
<1>1. CASE ClientNext
  BY <1>1, ClientStep DEF clientUnchanged
<1>2. CASE ContextNext
  BY <1>2 DEF ContextNext, CtxStop, CtxTerminate, CtxSaveError, CtxDrain
<1>3. CASE \/ PreStartOk \/ PreStartFail \/ PostStartOk \/ PostStartFail
           \/ Recv \/ Snapshot \/ HandleUser \/ HandleExpired \/ HandleFuture
           \/ HandleSignal \/ HandleSupervisor \/ HandlePanic
  BY <1>3 DEF PreStartOk, PreStartFail, PostStartOk, PostStartFail, Recv, Snapshot,
     HandleUser, HandleExpired, HandleFuture, HandleSignal, HandleSupervisor,
     HandlePanic, DropMailbox, finish
<1>4. CASE \/ AfterHandle \/ StoppingStop \/ StoppingContinue \/ Resume
           \/ StoppingFail \/ StoppingPanic \/ LeaveLoop \/ Report
           \/ \E outcome \in {"ok", "post_stop", "panic"} : PostStop(outcome)
  BY <1>4 DEF AfterHandle, StoppingStop, StoppingContinue, Resume, StoppingFail,
     StoppingPanic, LeaveLoop, PostStop, Report, DropMailbox
<1>5. CASE \/ SupervisorHandle \/ SupervisorStop \/ TerminateActorAbort
           \/ DropAddresses \/ UNCHANGED vars \/ \E r \in Requests : FutureResolves(r)
  BY <1>5 DEF SupervisorHandle, SupervisorStop, TerminateActorAbort, DropAddresses,
     FutureResolves, vars
<1> QED BY <1>1, <1>2, <1>3, <1>4, <1>5 DEF Next, TaskNext

\* Every step keeps what the last address leaves behind.
LEMMA AddressStep ==
  ASSUME TypeOK, TaskShape, AddressShape, [Next]_vars
  PROVE  AddressShape'
<1>1. CASE DropAddresses
  <2>1. /\ pc' \in Ended /\ UNCHANGED open /\ pc \in Ended
        /\ \A r \in Requests : status'[r] \notin {"waiting", "reserved", "stranded"}
    BY <1>1, SMTT(30) DEF DropAddresses, DropMessages
  <2> QED BY <2>1 DEF AddressShape
<1>2. CASE ~DropAddresses
  <2>1. UNCHANGED addressed /\ (open' => open)
    BY <1>2, OpenStep
  <2>2. ASSUME NEW r \in Requests, status'[r] # status[r],
               status'[r] \in {"waiting", "reserved", "stranded"}
        PROVE  /\ addressed \/ status[r] \in {"waiting", "reserved"}
               /\ status'[r] = "stranded" => ~open
    <3>1. ClientNext
      BY <2>2, OutsideOrigin
    <3>2. ASSUME NEW q \in Requests, Enters(q)
          PROVE  FALSE
      BY <2>2, <3>2 DEF Enters, TypeOK
    <3>3. PICK q \in Requests, v \in Status :
            Moves(q, v) /\ status' = [status EXCEPT ![q] = v]
      BY <2>2, <3>1, <3>2, ClientStep
    <3>4. q = r /\ status'[r] = v
      BY <2>2, <3>3 DEF TypeOK
    <3> QED BY <2>2, <3>3, <3>4 DEF Moves
  <2>3. pc \in Ended => pc' \in Ended
    BY EndedStep
  <2> QED BY <2>1, <2>2, <2>3 DEF AddressShape
<1> QED BY <1>1, <1>2

-----------------------------------------------------------------------------
(* The inductive invariant and what follows from it.                        *)

LEMMA InitInv == Init => IInv
<1> SUFFICES ASSUME Init PROVE IInv
  OBVIOUS
<1>1. TypeOK
  BY InitType
<1>2. RequestsAccounted
  BY ConstantsAssumption DEF Init, RequestsAccounted
<1>3. TaskShape /\ DrainPrefix /\ AddressShape /\ DeferredKind /\ TerminateIsFinal
  BY DEF Init, TaskShape, DrainPrefix, AddressShape, DeferredKind, TerminateIsFinal,
         Ended
<1> QED BY <1>1, <1>2, <1>3 DEF IInv

LEMMA NextInv == IInv /\ [Next]_vars => IInv'
BY NextType, AccountStep, ShapeStep, DrainStep, AddressStep, DeferredStep, TerminateStep
   DEF IInv

\* The inductive invariant holds in every reachable state.
THEOREM Invariance == Spec => []IInv
BY InitInv, NextInv, PTL DEF Spec

\* No accepted message is lost or duplicated, in any mailbox of any capacity.
THEOREM Accounting == Spec => []RequestsAccounted
BY Invariance, PTL DEF IInv

\* When the mailbox is gone, no caller waits for the reply to a queued message, and a
\* message written since then does not outlive the last address.
THEOREM NoOrphans == Spec => []NoOrphanedRequest
<1>1. ASSUME IInv, ~open PROVE Queued = {} /\ current = None
  BY <1>1 DEF IInv, TaskShape, Queued, Ended
<1>2. ASSUME IInv, ~open, NEW r \in Requests
      PROVE  status[r] \notin {"queued", "handling"}
  <2>1. r \notin Queued /\ current # r
    BY <1>1, <1>2, ConstantsAssumption
  <2> QED BY <1>2, <2>1 DEF IInv, RequestsAccounted
<1>3. IInv => NoOrphanedRequest
  BY <1>2 DEF NoOrphanedRequest, IInv, AddressShape
<1> QED BY <1>3, Invariance, PTL

\* The try_recv calls of a drain never find the mailbox empty.
THEOREM DrainNeverFails == Spec => []DrainWithinMailbox
<1>1. IInv => DrainWithinMailbox
  BY DEF IInv, DrainPrefix, DrainWithinMailbox
<1> QED BY <1>1, Invariance, PTL

\* After a handled Terminate signal no message is handled.
THEOREM TerminateEnds == Spec => []TerminateIsFinal
BY Invariance, PTL DEF IInv

\* A drain spares every message that arrived while its handler ran.
THEOREM DrainIsBounded == Spec => DrainSparesArrivals
<1>1. ASSUME IInv, [Next]_vars, pc = "handled", NEW r \in Requests,
             status[r] = "queued", status'[r] = "closed"
      PROVE  r \in behind
  <2>1. AfterHandle \/ UNCHANGED status \/ ClientNext
        \/ \E q \in Requests : FutureResolves(q)
    <3>1. CASE TaskNext
      BY <1>1, <3>1 DEF TaskNext, PreStartOk, PreStartFail, PostStartOk, PostStartFail,
         Recv, Snapshot, HandleUser, HandleExpired, HandleFuture, HandleSignal,
         HandleSupervisor, HandlePanic, StoppingStop, StoppingContinue, Resume,
         StoppingFail, StoppingPanic, LeaveLoop, PostStop, Report
    <3>2. CASE \/ ContextNext \/ TerminateActorAbort \/ DropAddresses
               \/ SupervisorHandle \/ SupervisorStop \/ UNCHANGED vars
      BY <1>1, <3>2 DEF ContextNext, CtxStop, CtxTerminate, CtxSaveError, CtxDrain,
         TerminateActorAbort, DropAddresses, SupervisorHandle, SupervisorStop, boxVars,
         Ended, vars
    <3> QED BY <1>1, <3>1, <3>2, SMTT(30) DEF Next
  <2>2. CASE ClientNext
    BY <1>1, <2>2, ClientStep DEF Enters, Moves, IInv, TypeOK
  <2>3. CASE \E q \in Requests : FutureResolves(q)
    BY <1>1, <2>3 DEF FutureResolves, IInv, TypeOK
  <2>4. CASE AfterHandle
    <3>1. PICK k \in 0 .. Len(mailbox) :
            /\ k <= drain.mailbox_len
            /\ status' = DropMessages({mailbox[i] : i \in 1 .. k})
      BY <1>1, <2>4, ApplyEffect DEF AfterHandle, IInv
    <3>2. PICK i \in 1 .. k : mailbox[i] = r
      BY <1>1, <3>1 DEF DropMessages
    <3>3. i \in 1 .. drain.mailbox_len
      BY <1>1, <3>1, <3>2 DEF IInv, TypeOK
    <3> QED BY <1>1, <3>2, <3>3 DEF IInv, DrainPrefix
  <2> QED BY <1>1, <2>1, <2>2, <2>3, <2>4, SMTT(30)
<1>2. IInv /\ [Next]_vars =>
        [pc = "handled" =>
           \A r \in Requests :
             status[r] = "queued" /\ status'[r] = "closed" => r \in behind]_vars
  BY <1>1
<1> QED BY <1>2, Invariance, PTL DEF Spec, DrainSparesArrivals

\* Every hook starts in the state that its documentation names.
THEOREM HookStates == Spec => HooksSeeTheirState
<1>1. ASSUME IInv, [Next]_vars, pc' # pc
      PROVE  /\ pc' = "post_start" => state' = "Starting"
             /\ pc' = "recv" => state' = "Running"
             /\ pc' = "handle" => state' = "Running"
             /\ pc' = "stopping" => state' = "Stopping"
             /\ pc' = "post_stop" =>
                  state' = "Stopped" /\ ~open' /\ result' # "panic"
  <2>1. TaskNext \/ TerminateActorAbort
    BY <1>1, ClientStep DEF Next, ContextNext, clientUnchanged, CtxStop, CtxTerminate,
       CtxSaveError, CtxDrain, FutureResolves, SupervisorHandle, SupervisorStop,
       DropAddresses, vars
  <2>2. CASE PreStartOk \/ PreStartFail \/ PostStartOk \/ PostStartFail
    BY <2>2 DEF PreStartOk, PreStartFail, PostStartOk, PostStartFail, set_state
  <2>3. CASE \/ Recv \/ Snapshot \/ HandleUser \/ HandleExpired \/ HandleFuture
             \/ HandleSignal \/ HandleSupervisor \/ HandlePanic
    BY <1>1, <2>3 DEF Recv, Snapshot, HandleUser, HandleExpired, HandleFuture,
       HandleSignal, HandleSupervisor, HandlePanic, finish, IInv, TaskShape
  <2>4. CASE \/ AfterHandle \/ StoppingStop \/ StoppingContinue \/ Resume
             \/ StoppingFail \/ StoppingPanic
    BY <2>4 DEF AfterHandle, StoppingStop, StoppingContinue, Resume, StoppingFail,
       StoppingPanic, set_state
  <2>5. CASE LeaveLoop
    BY <2>5 DEF LeaveLoop, DropMailbox, set_state, ctxVars
  <2>6. CASE \/ Report \/ TerminateActorAbort
             \/ \E outcome \in {"ok", "post_stop", "panic"} : PostStop(outcome)
    BY <2>6 DEF Report, TerminateActorAbort, PostStop
  <2> QED BY <2>1, <2>2, <2>3, <2>4, <2>5, <2>6 DEF TaskNext
<1>2. IInv /\ [Next]_vars =>
        [pc' # pc =>
           /\ pc' = "post_start" => state' = "Starting"
           /\ pc' = "recv" => state' = "Running"
           /\ pc' = "handle" => state' = "Running"
           /\ pc' = "stopping" => state' = "Stopping"
           /\ pc' = "post_stop" =>
                state' = "Stopped" /\ ~open' /\ result' # "panic"]_vars
  BY <1>1
<1> QED BY <1>2, Invariance, PTL DEF Spec, HooksSeeTheirState

-----------------------------------------------------------------------------
(* The actor keeps the contract of RequestReply.                            *)

\* How a change of one status shows in the phases.
LEMMA PhaseChange ==
  ASSUME TypeOK, NEW r \in Requests, NEW v,
         status' = [status EXCEPT ![r] = v]
  PROVE  /\ phase' = [phase EXCEPT ![r] = PhaseOf(v)]
         /\ phase[r] = PhaseOf(status[r])
BY DEF TypeOK, phase

\* What becomes of the phases when messages are dropped.
LEMMA PhaseDrop ==
  ASSUME NEW S, status' = DropMessages(S)
  PROVE  phase' = [r \in Requests |-> IF r \in S THEN "dropped" ELSE phase[r]]
BY DEF DropMessages, phase, PhaseOf

\* Dropping the mailbox closes the party and drops what it had accepted.
LEMMA CloseStep ==
  ASSUME IInv, open, DropMailbox
  PROVE  Contract!Close
<1>1. phase' = [r \in Requests |-> IF r \in Queued \cup {current}
                                   THEN "dropped" ELSE phase[r]]
  BY PhaseDrop DEF DropMailbox
<1>2. \A r \in Requests :
        r \in Queued \cup {current} <=> status[r] \in {"queued", "handling"}
  BY DEF IInv, RequestsAccounted, Queued
<1>3. \A r \in Requests :
        phase[r] = "accepted" <=> status[r] \in {"queued", "handling"}
  BY DEF phase, PhaseOf
<1> QED BY <1>1, <1>2, <1>3 DEF Contract!Close, DropMailbox

\* Every step of the actor is a step of the contract, or leaves it alone.
LEMMA ContractStep ==
  ASSUME IInv, [Next]_vars
  PROVE  [Contract!Next]_<<phase, open>>
<1> USE DEF ctxVars, boxVars, supVars
<1> TypeOK
  BY DEF IInv
<1>1. ASSUME UNCHANGED <<status, open>> PROVE UNCHANGED <<phase, open>>
  BY <1>1 DEF phase
<1>2. ASSUME NEW S, S \subseteq Requests, UNCHANGED open,
             \A r \in S : status[r] \in {"queued", "handling", "deferred", "stranded"},
             status' = DropMessages(S)
      PROVE  Contract!Next
  <2>1. \A r \in S : phase[r] \in {"accepted", "detached", "stranded"}
    BY <1>2 DEF phase, PhaseOf
  <2>2. Contract!Drop(S)
    BY <1>2, <2>1, PhaseDrop DEF Contract!Drop
  <2> QED BY <1>2, <2>2 DEF Contract!Next
<1>3. ASSUME NEW r \in Requests, NEW v, UNCHANGED open,
             status' = [status EXCEPT ![r] = v],
             \/ Moves(r, v)
             \/ open /\ status[r] = "reserved" /\ v = "queued"
             \/ /\ status[r] \in {"handling", "deferred"}
                /\ v \in {"replied", "expired"}
             \/ open /\ status[r] = "handling" /\ v = "deferred"
             \/ /\ status[r] \in {"handling", "deferred"}
                /\ v \in {"skipped", "closed"}
      PROVE  Contract!Next
  <2>1. phase' = [phase EXCEPT ![r] = PhaseOf(v)] /\ phase[r] = PhaseOf(status[r])
    BY <1>3, PhaseChange
  <2>2. CASE v \in {"skipped", "closed"}
    <3>1. phase[r] \in {"accepted", "detached"} /\ PhaseOf(v) = "dropped"
      BY <1>3, <2>1, <2>2 DEF PhaseOf, Moves
    <3>2. phase' = [q \in Requests |-> IF q \in {r} THEN "dropped" ELSE phase[q]]
      BY <2>1, <3>1 DEF phase
    <3>3. Contract!Drop({r})
      BY <1>3, <3>1, <3>2 DEF Contract!Drop
    <3> QED BY <3>3 DEF Contract!Next
  <2>3. CASE v \notin {"skipped", "closed"}
    <3>1. \/ Contract!Offer(r) \/ Contract!Accept(r) \/ Contract!Refuse(r)
          \/ Contract!Answer(r) \/ Contract!Detach(r) \/ Contract!Reserve(r)
          \/ Contract!Strand(r)
      <4>1. CASE Moves(r, v)
        BY <1>3, <2>1, <2>3, <4>1 DEF Moves, PhaseOf, Contract!Offer, Contract!Reserve,
           Contract!Strand, Contract!Refuse, Contract!Move
      <4>2. CASE ~Moves(r, v)
        BY <1>3, <2>1, <2>3, <4>2 DEF PhaseOf, Contract!Accept, Contract!Answer,
           Contract!Detach, Contract!Move
      <4> QED BY <4>1, <4>2
    <3> QED BY <3>1 DEF Contract!Next
  <2> QED BY <2>2, <2>3
<1>4. CASE ClientNext
  <2>1. UNCHANGED open
    BY <1>4, ClientStep DEF clientUnchanged
  <2>2. CASE UNCHANGED status
    BY <1>1, <2>1, <2>2
  <2>3. ASSUME NEW r \in Requests, Enters(r) PROVE Contract!Next
    BY <1>3, <2>1, <2>3 DEF Enters
  <2>4. ASSUME NEW r \in Requests, NEW v \in Status, Moves(r, v),
               status' = [status EXCEPT ![r] = v]
        PROVE  Contract!Next
    BY <1>3, <2>1, <2>4
  <2> QED BY <1>4, <2>2, <2>3, <2>4, ClientStep
<1>5. CASE ContextNext
  BY <1>1, <1>5 DEF ContextNext, CtxStop, CtxTerminate, CtxSaveError, CtxDrain
<1>6. CASE PreStartFail \/ PostStartFail \/ LeaveLoop
  <2>1. open
    BY <1>6 DEF PreStartFail, PostStartFail, LeaveLoop, IInv, TaskShape, Ended
  <2>2. Contract!Close
    BY <1>6, <2>1, CloseStep DEF PreStartFail, PostStartFail, LeaveLoop
  <2> QED BY <2>2, SMTT(30) DEF Contract!Next
<1>7. CASE Recv
  <2>1. Head(mailbox) \in Requests /\ status[Head(mailbox)] = "queued"
    <3>1. mailbox # <<>> /\ mailbox \in Seq(Requests)
      BY <1>7 DEF Recv, TypeOK
    <3>2. Head(mailbox) = mailbox[1] /\ 1 \in DOMAIN mailbox
          /\ Head(mailbox) \in Requests
      BY <3>1
    <3> QED BY <3>2 DEF IInv, RequestsAccounted
  <2>2. phase' = [phase EXCEPT ![Head(mailbox)] = "accepted"]
        /\ phase[Head(mailbox)] = "accepted"
    BY <1>7, <2>1, PhaseChange DEF Recv, PhaseOf
  <2>3. phase' = phase
    BY <2>1, <2>2 DEF phase
  <2> QED BY <1>7, <2>3 DEF Recv
<1>8. CASE \/ Snapshot \/ HandleUser \/ HandleExpired \/ HandleFuture
           \/ HandleSignal \/ HandleSupervisor \/ HandlePanic
  <2>1. pc \in {"received", "handle"}
    BY <1>8 DEF Snapshot, HandleUser, HandleExpired, HandleFuture, HandleSignal,
       HandleSupervisor, HandlePanic
  <2>2. current \in Requests /\ open
    BY <2>1 DEF IInv, TypeOK, TaskShape, Ended
  <2>3. status[current] = "handling"
    BY <2>2 DEF IInv, RequestsAccounted
  <2>4. UNCHANGED open
    BY <1>8 DEF Snapshot, HandleUser, HandleExpired, HandleFuture, HandleSignal,
       HandleSupervisor, HandlePanic, finish
  <2>5. \/ UNCHANGED status
        \/ \E v \in {"skipped", "replied", "expired", "deferred", "closed"} :
             status' = [status EXCEPT ![current] = v]
    BY <1>8 DEF Snapshot, HandleUser, HandleExpired, HandleFuture, HandleSignal,
       HandleSupervisor, HandlePanic, finish
  <2> QED BY <1>1, <1>3, <2>2, <2>3, <2>4, <2>5
<1>9. CASE AfterHandle
  <2>1. PICK k \in 0 .. Len(mailbox) :
          status' = DropMessages({mailbox[i] : i \in 1 .. k})
    BY <1>9, ApplyEffect, ZenonT(40) DEF AfterHandle
  <2>2. \A i \in 1 .. k : mailbox[i] \in Requests /\ status[mailbox[i]] = "queued"
    <3>1. /\ DOMAIN mailbox = 1 .. Len(mailbox) /\ Len(mailbox) \in Nat
          /\ \A i \in 1 .. Len(mailbox) : mailbox[i] \in Requests
      BY DEF TypeOK
    <3>2. \A i \in 1 .. k : i \in DOMAIN mailbox
      BY <3>1
    <3> QED BY <3>1, <3>2 DEF IInv, RequestsAccounted
  <2>3. UNCHANGED open
    BY <1>9 DEF AfterHandle
  <2> QED BY <1>2, <2>1, <2>2, <2>3
<1>10. CASE \/ PreStartOk \/ PostStartOk \/ StoppingStop \/ StoppingContinue
            \/ Resume \/ StoppingFail \/ StoppingPanic \/ Report
            \/ \E outcome \in {"ok", "post_stop", "panic"} : PostStop(outcome)
  BY <1>1, <1>10
     DEF PreStartOk, PostStartOk, StoppingStop, StoppingContinue, Resume,
         StoppingFail, StoppingPanic, Report, PostStop
<1>11. CASE \/ SupervisorHandle \/ SupervisorStop \/ TerminateActorAbort
            \/ UNCHANGED vars
  BY <1>1, <1>11 DEF SupervisorHandle, SupervisorStop, TerminateActorAbort, vars
<1>12. CASE \E q \in Requests : FutureResolves(q)
  BY <1>3, <1>12 DEF FutureResolves
<1>13. CASE DropAddresses
  BY <1>2, <1>13 DEF DropAddresses
<1> QED
  BY <1>4, <1>5, <1>6, <1>7, <1>8, <1>9, <1>10, <1>11, <1>12, <1>13 DEF Next, TaskNext

\* The actor implements RequestReply: it settles every request at most once, gives no
\* slot away after its mailbox is gone, drops all it held in that step, and strands a
\* message only when its slot was taken before.
THEOREM ImplementsContract == Spec => KeepsContract
<1>1. Init => Contract!Init
  BY DEF Init, Contract!Init, phase, PhaseOf
<1> QED
  BY <1>1, ContractStep, Invariance, PTL
     DEF Spec, KeepsContract, Contract!Spec

-----------------------------------------------------------------------------
(* Errors that handlers save, and the order of the last events.             *)

\* Where an error that a handler saved is until a report carries it: HandlerErrorReported
\* alone says nothing of a task that has not come to its report.
ErrorTracked ==
  "saved" \in unreported =>
    \/ pc \in {"handle", "handled"} /\ error = "saved"
    \/ pc = "stopping" /\ taken = "saved"
    \/ pc \in {"exit", "post_stop", "report"} /\ result # "ok"
    \/ pc \in Ended

LEMMA ErrorStep ==
  ASSUME TypeOK, ErrorTracked, [Next]_vars
  PROVE  ErrorTracked'
<1> USE DEF ErrorTracked, Ended, ctxVars, boxVars, supVars
<1>1. CASE ClientNext
  BY <1>1, ClientStep DEF clientUnchanged
<1>2. CASE ContextNext
  BY <1>2 DEF ContextNext, CtxStop, CtxTerminate, CtxSaveError, CtxDrain
<1>3. CASE PreStartOk \/ PreStartFail \/ PostStartOk \/ PostStartFail \/ Recv
  BY <1>3, SMTT(30) DEF PreStartOk, PreStartFail, PostStartOk, PostStartFail, Recv
<1>4. CASE \/ Snapshot \/ HandleUser \/ HandleExpired \/ HandleFuture
           \/ HandleSignal \/ HandleSupervisor \/ HandlePanic
  BY <1>4 DEF Snapshot, HandleUser, HandleExpired, HandleFuture, HandleSignal,
              HandleSupervisor, HandlePanic, finish
<1>5. CASE AfterHandle
  BY <1>5 DEF AfterHandle, set_state, take_error
<1>6. CASE StoppingStop \/ StoppingContinue \/ Resume \/ StoppingFail \/ StoppingPanic
  BY <1>6 DEF StoppingStop, StoppingContinue, Resume, StoppingFail, StoppingPanic, or
<1>7. CASE \/ LeaveLoop \/ Report \/ TerminateActorAbort
           \/ \E outcome \in {"ok", "post_stop", "panic"} : PostStop(outcome)
  BY <1>7 DEF LeaveLoop, Report, TerminateActorAbort, PostStop
<1>8. CASE \/ SupervisorHandle \/ SupervisorStop \/ DropAddresses \/ UNCHANGED vars
           \/ \E r \in Requests : FutureResolves(r)
  BY <1>8 DEF SupervisorHandle, SupervisorStop, DropAddresses, FutureResolves, vars
<1> QED BY <1>1, <1>2, <1>3, <1>4, <1>5, <1>6, <1>7, <1>8 DEF Next, TaskNext

\* An error saved by a handler does not end in silence: a warning was made of it, or the
\* actor does not end with a clean Terminated, whatever the hooks call and return (take_error in
\* run_loop, result.or, post_stop).
THEOREM ErrorsSurface == Spec => []HandlerErrorReported
<1>1. Init => ErrorTracked
  BY DEF Init, ErrorTracked
<1>2. TypeOK /\ ErrorTracked /\ [Next]_vars => ErrorTracked'
  BY ErrorStep
<1>3. ErrorTracked => HandlerErrorReported
  BY DEF ErrorTracked, HandlerErrorReported, Ended
<1> QED BY <1>1, <1>2, <1>3, TypeCorrect, PTL DEF Spec

FinalEvents == {"Terminated", "Panicked"}

\* The task of an actor that has announced State(Stopped).
AtEnd ==
  /\ state = "Stopped"
  /\ pc \in {"handled", "exit", "post_stop", "report"} \cup Ended

\* Whether the supervisor still has the event e to handle.
Has(e) == \E i \in DOMAIN events : events[i] = e

\* Nothing follows a final event.
FinalEventLast ==
  \A i, j \in DOMAIN events : i < j => events[i][1] \notin FinalEvents

\* The events tell how far the task is.  What they tell of State(Stopped) holds when user
\* code leaves the state alone: stop() after terminate() announces Stopping again.
EventsInv ==
  /\ FinalEventLast
  /\ \A i \in DOMAIN events : events[i][1] \in FinalEvents => pc = "done"
  /\ UserCalls = {} =>
       /\ \A i, j \in DOMAIN events :
            i < j /\ events[i] = <<"State", "Stopped">> => events[j][1] \in FinalEvents
       /\ Has(<<"State", "Stopped">>) => AtEnd

\* A step that sends no event keeps EventsInv when it does not lead away from the end.
LEMMA Silent ==
  ASSUME EventsInv, UNCHANGED events, pc = "done" => pc' = "done",
         UserCalls = {} /\ AtEnd => AtEnd'
  PROVE  EventsInv'
BY DEF EventsInv, FinalEventLast, Has

\* A step that sends an event, too, when the task was not at its end or sends the last one.
LEMMA Announce ==
  ASSUME TypeOK, EventsInv, NEW e \in SupervisionEvent, try_notify_supervisor(e),
         pc # "done",
         e[1] \in FinalEvents => pc' = "done",
         UserCalls = {} =>
           /\ AtEnd => AtEnd' /\ e[1] \in FinalEvents
           /\ e = <<"State", "Stopped">> => AtEnd'
  PROVE  EventsInv'
<1>1. CASE events' = events
  BY <1>1, Silent
<1>2. CASE events' = Append(events, e)
  <2> DEFINE n == Len(events)
  <2>1. /\ n \in Nat /\ DOMAIN events = 1 .. n /\ DOMAIN events' = 1 .. (n + 1)
        /\ events'[n + 1] = e
        /\ \A i \in 1 .. n : events'[i] = events[i]
    BY <1>2 DEF TypeOK
  <2>2. \A i \in 1 .. n : events[i][1] \notin FinalEvents
    BY <2>1 DEF EventsInv
  <2> HIDE DEF n
  <2>3. FinalEventLast'
    BY <2>1, <2>2 DEF FinalEventLast
  <2>4. \A i \in DOMAIN events' : events'[i][1] \in FinalEvents => pc' = "done"
    BY <2>1, <2>2
  <2>5. ASSUME UserCalls = {}
        PROVE  /\ \A i, j \in DOMAIN events' :
                    i < j /\ events'[i] = <<"State", "Stopped">>
                      => events'[j][1] \in FinalEvents
               /\ Has(<<"State", "Stopped">>)' => AtEnd'
    <3>1. Has(<<"State", "Stopped">>) => AtEnd
      BY <2>5 DEF EventsInv
    <3>2. ASSUME NEW i \in DOMAIN events', NEW j \in DOMAIN events', i < j,
                 events'[i] = <<"State", "Stopped">>
          PROVE  events'[j][1] \in FinalEvents
      <4>1. i \in 1 .. n /\ events[i] = <<"State", "Stopped">>
        BY <2>1, <3>2
      <4>2. AtEnd
        BY <2>1, <3>1, <4>1 DEF Has
      <4>3. CASE j = n + 1
        BY <2>1, <2>5, <4>2, <4>3
      <4>4. CASE j \in 1 .. n
        BY <2>1, <2>5, <3>2, <4>1, <4>4 DEF EventsInv
      <4> QED BY <2>1, <4>3, <4>4
    <3>3. ASSUME NEW i \in DOMAIN events', events'[i] = <<"State", "Stopped">>
          PROVE  AtEnd'
      <4>1. CASE i = n + 1
        BY <2>1, <2>5, <3>3, <4>1
      <4>2. CASE i \in 1 .. n
        BY <2>1, <2>5, <3>1, <3>3, <4>2 DEF Has
      <4> QED BY <2>1, <3>3, <4>1, <4>2
    <3> QED BY <3>2, <3>3 DEF Has
  <2> QED BY <2>3, <2>4, <2>5, SMTT(30) DEF EventsInv
<1> QED BY <1>1, <1>2 DEF try_notify_supervisor

\* The supervisor handles its oldest event, or is gone.
LEMMA SupervisorStep ==
  ASSUME TypeOK, EventsInv, SupervisorHandle \/ SupervisorStop
  PROVE  EventsInv'
<1>1. UNCHANGED <<pc, state>>
  BY DEF SupervisorHandle, SupervisorStop
<1>2. CASE SupervisorHandle
  <2> DEFINE n == Len(events)
  <2>1. /\ n \in Nat /\ DOMAIN events = 1 .. n /\ DOMAIN events' = 1 .. (n - 1)
        /\ \A i \in 1 .. (n - 1) : events'[i] = events[i + 1]
    BY <1>2 DEF SupervisorHandle, TypeOK
  <2> HIDE DEF n
  <2>2. \A i \in DOMAIN events' : i + 1 \in DOMAIN events /\ events'[i] = events[i + 1]
    BY <2>1
  <2>3. \A i, j \in DOMAIN events' : i < j => i + 1 < j + 1
    BY <2>1
  <2>4. FinalEventLast'
    BY <2>2, <2>3, Zenon DEF EventsInv, FinalEventLast
  <2>5. \A i \in DOMAIN events' : events'[i][1] \in FinalEvents => pc' = "done"
    BY <1>1, <2>2, Zenon DEF EventsInv
  <2>6. ASSUME UserCalls = {}
        PROVE  /\ \A i, j \in DOMAIN events' :
                    i < j /\ events'[i] = <<"State", "Stopped">>
                      => events'[j][1] \in FinalEvents
               /\ Has(<<"State", "Stopped">>)' => AtEnd'
    BY <1>1, <2>2, <2>3, <2>6, ZenonT(60) DEF EventsInv, Has, AtEnd
  <2> QED BY <2>4, <2>5, <2>6 DEF EventsInv
<1>3. CASE SupervisorStop
  <2>1. DOMAIN events' = {}
    BY <1>3 DEF SupervisorStop
  <2> QED BY <2>1 DEF EventsInv, FinalEventLast, Has
<1> QED BY <1>2, <1>3

\* Every step keeps EventsInv.
LEMMA EventsStep ==
  ASSUME TypeOK, EventsInv, [Next]_vars
  PROVE  EventsInv'
<1> USE DEF AtEnd, Ended, ctxVars, boxVars, supVars
<1>1. ASSUME NEW s \in ActorState, set_state(s), pc # "done", ~AtEnd,
             s = "Stopped" => pc' \in {"handled", "exit", "post_stop", "report"}
      PROVE  EventsInv'
  <2>1. <<"State", s>> \in SupervisionEvent /\ "State" \notin FinalEvents
    BY DEF SupervisionEvent, FinalEvents
  <2>2. try_notify_supervisor(<<"State", s>>) /\ state' = s
    BY <1>1 DEF set_state
  <2>3. <<"State", s>> = <<"State", "Stopped">> => AtEnd'
    BY <1>1, <2>2
  <2> QED BY <1>1, <2>1, <2>2, <2>3, Announce
<1>2. CASE ClientNext
  <2>1. UNCHANGED <<pc, state, events>>
    BY <1>2, ClientStep DEF clientUnchanged
  <2> QED BY <2>1, Silent
<1>3. CASE ContextNext
  <2>1. CASE CtxSaveError \/ CtxDrain
    <3>1. UNCHANGED <<pc, state, events>>
      BY <2>1 DEF CtxSaveError, CtxDrain
    <3> QED BY <3>1, Silent
  <2>2. CASE CtxStop \/ CtxTerminate
    <3>1. UserCalls # {} /\ pc \in UserCode /\ UNCHANGED pc
      BY <2>2, ConstantsAssumption DEF CtxStop, CtxTerminate, InUserCode
    <3>2. PICK s \in {"Stopping", "Stopped"} : try_notify_supervisor(<<"State", s>>)
      BY <2>2 DEF CtxStop, CtxTerminate, set_state
    <3>3. <<"State", s>> \in SupervisionEvent /\ "State" \notin FinalEvents
      BY DEF SupervisionEvent, ActorState, FinalEvents
    <3> QED BY <3>1, <3>2, <3>3, Announce, SMTT(30) DEF UserCode
  <2> QED BY <1>3, <2>1, <2>2 DEF ContextNext
<1>4. CASE PreStartOk \/ PostStartOk \/ Resume
  <2>1. \E s \in ActorState : set_state(s) /\ s # "Stopped"
    BY <1>4 DEF PreStartOk, PostStartOk, Resume, ActorState
  <2>2. pc \in {"pre_start", "post_start", "resume"}
    BY <1>4 DEF PreStartOk, PostStartOk, Resume
  <2> QED BY <1>1, <2>1, <2>2
<1>5. CASE PostStartFail
  <2>1. set_state("Stopped") /\ pc = "post_start" /\ pc' = "report"
    BY <1>5 DEF PostStartFail
  <2> QED BY <1>1, <2>1 DEF ActorState
<1>6. CASE HandleSignal
  <2>1. pc = "handle" /\ pc' = "handled"
    BY <1>6 DEF HandleSignal, finish
  <2>2. PICK s \in {"Stopping", "Stopped"} : set_state(s)
    BY <1>6 DEF HandleSignal
  <2> QED BY <1>1, <2>1, <2>2 DEF ActorState
<1>7. CASE AfterHandle
  <2>1. CASE error # None /\ state = "Running"
    <3>1. set_state("Stopping") /\ pc = "handled"
      BY <1>7, <2>1 DEF AfterHandle
    <3> QED BY <1>1, <2>1, <3>1 DEF ActorState
  <2>2. CASE ~(error # None /\ state = "Running")
    <3>1. UNCHANGED <<state, events>> /\ pc = "handled"
          /\ (state = "Stopped" => pc' = "exit")
      BY <1>7, <2>2 DEF AfterHandle
    <3> QED BY <3>1, Silent
  <2> QED BY <2>1, <2>2
<1>8. CASE StoppingContinue
  <2>1. pc = "stopping" /\ pc' = "resume"
    BY <1>8 DEF StoppingContinue
  <2>2. CASE taken = "ok"
    <3>1. UNCHANGED events
      BY <1>8, <2>2 DEF StoppingContinue
    <3> QED BY <2>1, <3>1, Silent
  <2>3. CASE taken # "ok"
    <3>1. try_notify_supervisor(<<"Warn", taken>>)
      BY <1>8, <2>3 DEF StoppingContinue
    <3>2. /\ <<"Warn", taken>> \in SupervisionEvent /\ "Warn" \notin FinalEvents
          /\ <<"Warn", taken>> # <<"State", "Stopped">>
      BY DEF SupervisionEvent, FinalEvents, TypeOK
    <3> QED BY <2>1, <3>1, <3>2, Announce
  <2> QED BY <2>2, <2>3
<1>9. CASE LeaveLoop
  <2>1. pc = "exit" /\ pc' \in {"report", "post_stop"}
    BY <1>9 DEF LeaveLoop
  <2>2. CASE state # "Stopped"
    <3>1. set_state("Stopped")
      BY <1>9, <2>2 DEF LeaveLoop
    <3> QED BY <1>1, <2>1, <2>2, <3>1 DEF ActorState
  <2>3. CASE state = "Stopped"
    <3>1. UNCHANGED <<state, events>>
      BY <1>9, <2>3 DEF LeaveLoop
    <3> QED BY <2>1, <3>1, Silent
  <2> QED BY <2>2, <2>3
<1>10. CASE Report
  <2>1. pc = "report" /\ pc' = "done" /\ UNCHANGED state
    BY <1>10 DEF Report
  <2>2. PICK k \in FinalEvents : try_notify_supervisor(<<k, result>>)
    BY <1>10 DEF Report, FinalEvents
  <2>3. <<k, result>> \in SupervisionEvent /\ <<k, result>> # <<"State", "Stopped">>
    BY DEF SupervisionEvent, FinalEvents, TypeOK
  <2> QED BY <2>1, <2>2, <2>3, Announce
<1>11. CASE \/ PreStartFail \/ Recv \/ Snapshot \/ HandleUser \/ HandleExpired
            \/ HandleFuture \/ HandleSupervisor \/ HandlePanic
  <2>1. /\ UNCHANGED <<state, events>>
        /\ pc \in {"pre_start", "recv", "received", "handle"}
    BY <1>11 DEF PreStartFail, Recv, Snapshot, HandleUser, HandleExpired,
       HandleFuture, HandleSupervisor, HandlePanic, finish
  <2> QED BY <2>1, Silent, SMTT(30)
<1>12. CASE \/ StoppingStop \/ StoppingFail \/ StoppingPanic \/ TerminateActorAbort
            \/ \E outcome \in {"ok", "post_stop", "panic"} : PostStop(outcome)
  <2>1. /\ UNCHANGED <<state, events>> /\ pc \in {"stopping", "post_stop"}
        /\ pc' \in {"exit", "report", "aborted"}
    BY <1>12 DEF StoppingStop, StoppingFail, StoppingPanic, TerminateActorAbort, PostStop
  <2> QED BY <2>1, Silent, SMTT(30)
<1>13. CASE DropAddresses \/ UNCHANGED vars \/ \E r \in Requests : FutureResolves(r)
  <2>1. UNCHANGED <<pc, state, events>>
    BY <1>13 DEF DropAddresses, FutureResolves, vars
  <2> QED BY <2>1, Silent
<1> QED
  BY <1>2, <1>3, <1>4, <1>5, <1>6, <1>7, <1>8, <1>9, <1>10, <1>11, <1>12, <1>13,
     SupervisorStep DEF Next, TaskNext

LEMMA EventsInvariant == Spec => []EventsInv
<1>1. Init => EventsInv
  <2>1. Init => events = <<>>
    BY DEF Init
  <2>2. events = <<>> => DOMAIN events = {}
    OBVIOUS
  <2> QED BY <2>1, <2>2 DEF EventsInv, FinalEventLast, Has
<1>2. TypeOK /\ EventsInv /\ [Next]_vars => EventsInv'
  BY EventsStep
<1> QED BY <1>1, <1>2, TypeCorrect, PTL DEF Spec

\* The event with which a task reports its end is the last one the supervisor gets,
\* whatever user code does to the context (spawn's report).
THEOREM FinalReport == Spec => []FinalEventLast
<1>1. EventsInv => FinalEventLast
  BY DEF EventsInv
<1> QED BY <1>1, EventsInvariant, PTL

\* When user code leaves the state of its context alone, State(Stopped) is announced once
\* and only the report of the end follows it (the state check of run before set_state).
THEOREM EventsEnd == ASSUME UserCalls = {} PROVE Spec => []EndEventsLast
<1>1. EventsInv => EndEventsLast
  BY DEF EventsInv, FinalEventLast, EndEventsLast, FinalEvents
<1> QED BY <1>1, EventsInvariant, PTL

=============================================================================
