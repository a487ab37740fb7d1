------------------------------ MODULE Address ------------------------------
(***************************************************************************)
(* The sending side of a mailbox: acktor's Address, Recipient and permits. *)
(*                                                                         *)
(* Every message travels through one bounded mpsc channel.  Behind a local *)
(* address it is the mailbox of the actor; behind a RemoteAddress or a     *)
(* RemoteRecipient it is the mailbox of the session, which Address<Session>*)
(* senders in the same process fill as well; behind Recipient::create it   *)
(* is a channel whose receiver the program reads itself.  A caller makes   *)
(* one call (send, do_send, their try, timeout and blocking forms, or a    *)
(* reservation followed by the use of the permit) and the model follows    *)
(* the slot it takes, the message, the oneshot for the reply and, for a    *)
(* remote sender, the task that decodes the reply.                         *)
(*                                                                         *)
(* The channel is Tokio's: a semaphore with one permit per slot and a FIFO *)
(* queue of waiters.  Acquiring a slot and writing the message into it are *)
(* two steps, so that a receiver may go away between them.                 *)
(*                                                                         *)
(* Encoding a message registers the local addresses inside it (Registry,   *)
(* Codec); what is left of it here is that it may fail.                    *)
(***************************************************************************)
EXTENDS Naturals, FiniteSets, Sequences, Functions

CONSTANTS
  Callers,   \* the tasks and threads that make one call each
  Capacity,  \* slots of the channel
  Plans      \* the calls that the callers may make together

\* An Address is local or remote; a Recipient is backed by one, by a
\* RemoteRecipient, or by a channel of its own (create, create_remote).
Kinds == {"local", "address", "recipient", "created", "created_remote"}

Modes == {"await", "try", "timeout", "blocking", "reserve", "try_reserve"}

\* What a caller sends through, how, and whether it asks for a reply.
Ops == [kind : Kinds, mode : Modes, reply : BOOLEAN]

Reserving == {"reserve", "try_reserve"}

\* Recipients have no reserve.
Offered ==
  {o \in Ops : o.mode \in Reserving => o.kind \in {"local", "address"}}

Errors == {"Closed", "Full", "Timeout", "NoEncodeFn", "Other"}

ASSUME PlansAssumption == Plans \subseteq [Callers -> Offered]

ASSUME CapacityAssumption == Capacity \in Nat \ {0}

ASSUME CallersAssumption == IsFiniteSet(Callers)

VARIABLES
  op,       \* op[c]: the call that c makes
  call,     \* call[c]: how far the call has come, or how it ended
  place,    \* place[c]: where its message is
  raw,      \* raw[c]: the sending half of the reply's oneshot
  result,   \* result[c]: the receiving half that the caller gets
  task,     \* task[c]: the task that decodes the reply
  buffer,   \* the messages in the channel, by caller
  waiters,  \* the callers queued for a slot
  free,     \* the slots nobody has
  rx        \* the receiver: "open", "closed" (but not dropped) or "dropped"

vars == <<op, call, place, raw, result, task, buffer, waiters, free, rx>>

replies == <<raw, result, task>>

Remote == {"address", "recipient"}
Created == \A c \in Callers : op[c].kind \in {"created", "created_remote"}

is_closed == rx # "open"

InCall == {"waiting", "granted", "permit"}

Init ==
  /\ op \in Plans
  /\ call = [c \in Callers |-> "idle"]
  /\ place = [c \in Callers |-> "caller"]
  /\ raw = [c \in Callers |-> "none"]
  /\ result = [c \in Callers |-> "none"]
  /\ task = [c \in Callers |-> "none"]
  /\ buffer = <<>>
  /\ waiters = <<>>
  /\ free = Capacity
  /\ rx = "open"

-----------------------------------------------------------------------------
(* The channel.                                                             *)

\* A slot comes back: the first waiter gets it, or it is free.
Release(calls, queue) ==
  IF queue = <<>>
  THEN call' = calls /\ waiters' = queue /\ free' = free + 1
  ELSE /\ call' = [calls EXCEPT ![Head(queue)] = "granted"]
       /\ waiters' = Tail(queue)
       /\ UNCHANGED free

\* The queue without c, which is not in it any more once the channel is closed.
leave(c) ==
  IF c \in Range(waiters)
  THEN LET k == CHOOSE i \in DOMAIN waiters : waiters[i] = c
       IN SubSeq(waiters, 1, k - 1) \o SubSeq(waiters, k + 1, Len(waiters))
  ELSE waiters

\* The call of c ends without its message in the channel: a slot it was granted
\* comes back, and so does a place in the queue.
Withdraw(c, how) ==
  IF call[c] = "waiting"
  THEN /\ call' = [call EXCEPT ![c] = how]
       /\ waiters' = leave(c)
       /\ UNCHANGED free
  ELSE Release([call EXCEPT ![c] = how], waiters)

\* The halves of the reply's oneshot that the call still owns go with it.
DropReply(c) ==
  /\ raw' = [raw EXCEPT ![c] = IF @ = "held" THEN "dropped" ELSE @]
  /\ result' = [result EXCEPT ![c] = "none"]
  /\ UNCHANGED task

-----------------------------------------------------------------------------
(* Making a call.                                                           *)

\* A recipient without an actor takes no message that wants a reply: its four
\* sends with a reply fail, those without go to its channel.
SenderProxyRefuses(o) == o.kind = "created" /\ o.reply

\* The same type again, for recipients that can be sent to another process.
RemoteAddressableRefuses(o) == o.kind = "created_remote" /\ o.reply

\* A remote address hands out no permits.
ReserveRefuses(o) == o.kind = "address" /\ o.mode \in Reserving

Unsupported(o) ==
  SenderProxyRefuses(o) \/ RemoteAddressableRefuses(o) \/ ReserveRefuses(o)

\* A RemoteAddress finds no codec for the type of the message, or the encoding
\* fails.
AddressErrors(o) == IF o.kind = "address" THEN {"NoEncodeFn", "Other"} ELSE {}

\* A RemoteRecipient knows how to encode its type; the encoding may fail.
RecipientErrors(o) == IF o.kind = "recipient" THEN {"Other"} ELSE {}

\* The call is refused before it comes near the channel.
Refuse(c) ==
  /\ call[c] = "idle"
  /\ \E e \in IF Unsupported(op[c]) THEN {"Other"}
              ELSE AddressErrors(op[c]) \cup RecipientErrors(op[c]) :
       call' = [call EXCEPT ![c] = e]
  /\ UNCHANGED <<op, place, replies, buffer, waiters, free, rx>>

\* What send makes before it waits for a slot.  RemoteRecipient starts the task
\* that will decode the reply as well; RemoteAddress makes the caller's half, and
\* the task, once the message is in the channel.  A permit makes both later.
\* A call that fails at once drops the two halves on its way out.
Prepare(c, fails) ==
  LET makes == op[c].reply /\ op[c].mode \notin Reserving
      keeps == makes /\ ~fails
  IN /\ raw' = [raw EXCEPT ![c] = IF ~makes THEN "none"
                                 ELSE IF fails THEN "dropped" ELSE "held"]
     /\ result' = [result EXCEPT ![c] =
                     IF keeps /\ op[c].kind # "address"
                     THEN "pending" ELSE "none"]
     /\ task' = [task EXCEPT ![c] =
                   IF makes /\ op[c].kind = "recipient"
                   THEN "running" ELSE "none"]

\* A call that reaches the channel: it finds the channel closed, takes a free
\* slot, reports it full, or queues.
Start(c) ==
  LET tries == op[c].mode \in {"try", "try_reserve"}
      ends == IF is_closed THEN "Closed"
              ELSE IF free > 0 THEN "permit"
              ELSE IF tries THEN "Full" ELSE "waiting"
  IN /\ call[c] = "idle"
     /\ ~Unsupported(op[c])
     /\ call' = [call EXCEPT ![c] = ends]
     /\ free' = IF ends = "permit" THEN free - 1 ELSE free
     /\ waiters' = IF ends = "waiting" THEN Append(waiters, c) ELSE waiters
     /\ Prepare(c, ends \in Errors)
     /\ UNCHANGED <<op, place, buffer, rx>>

\* A caller that was granted a slot is polled while the channel is open.
Poll(c) ==
  /\ call[c] = "granted"
  /\ ~is_closed
  /\ call' = [call EXCEPT ![c] = "permit"]
  /\ UNCHANGED <<op, place, replies, buffer, waiters, free, rx>>

\* Mutant: a caller that still waits does not learn that the channel closed.
PollClosedGranted(c) ==
  /\ call[c] = "granted"
  /\ is_closed
  /\ Withdraw(c, "Closed")
  /\ DropReply(c)
  /\ UNCHANGED <<op, place, buffer, rx>>

\* One that waits, or was granted a slot and not yet polled, finds the channel
\* closed: SendError::Closed with the message.
PollClosed(c) ==
  /\ call[c] \in {"waiting", "granted"}
  /\ is_closed
  /\ Withdraw(c, "Closed")
  /\ DropReply(c)
  /\ UNCHANGED <<op, place, buffer, rx>>

\* Mutant: the send goes on behind the back of a caller that timed out.
ElapseDelivers(c) ==
  /\ call[c] \in {"waiting", "granted"}
  /\ op[c].mode = "timeout"
  /\ IF call[c] = "granted" /\ rx = "open"
     THEN /\ call' = [call EXCEPT ![c] = "Timeout"]
          /\ buffer' = Append(buffer, c)
          /\ place' = [place EXCEPT ![c] = "buffer"]
          /\ UNCHANGED <<waiters, free>>
     ELSE Withdraw(c, "Timeout") /\ UNCHANGED <<place, buffer>>
  /\ DropReply(c)
  /\ UNCHANGED <<op, rx>>

\* The timer of a *_timeout call fires: SendError::Timeout with the message.  A
\* slot may have been granted after the wait was last polled.
Elapse(c) ==
  /\ call[c] \in {"waiting", "granted"}
  /\ op[c].mode = "timeout"
  /\ Withdraw(c, "Timeout")
  /\ DropReply(c)
  /\ UNCHANGED <<op, place, buffer, rx>>

\* The caller drops the future of an asynchronous call that waits.
Cancel(c) ==
  /\ call[c] \in {"waiting", "granted"}
  /\ op[c].mode \in {"await", "timeout", "reserve"}
  /\ Withdraw(c, "cancelled")
  /\ DropReply(c)
  /\ UNCHANGED <<op, place, buffer, rx>>

\* The holder of a reservation drops it.
DropPermit(c) ==
  /\ call[c] = "permit"
  /\ op[c].mode \in Reserving
  /\ Withdraw(c, "cancelled")
  /\ UNCHANGED <<op, place, replies, buffer, rx>>

\* The message goes into the slot that was acquired for it.  A channel whose
\* receiver is gone takes it all the same and keeps it until its last sender is
\* dropped, which the model does not wait for.
Push(c) ==
  /\ call[c] = "permit"
  /\ op[c].mode \notin Reserving
  /\ call' = [call EXCEPT ![c] = "pushed"]
  /\ place' = [place EXCEPT ![c] =
                 IF rx = "dropped" THEN "stranded" ELSE "buffer"]
  /\ buffer' = IF rx = "dropped" THEN buffer ELSE Append(buffer, c)
  /\ UNCHANGED <<op, replies, waiters, free, rx>>

\* Mutant: the permit is given back before the message is written.
PermitSendReleased(c) ==
  /\ call[c] = "permit"
  /\ op[c].mode \in Reserving
  /\ Withdraw(c, "pushed")
  /\ place' = [place EXCEPT ![c] =
                 IF rx = "dropped" THEN "stranded" ELSE "buffer"]
  /\ buffer' = IF rx = "dropped" THEN buffer ELSE Append(buffer, c)
  /\ raw' = [raw EXCEPT ![c] = IF op[c].reply THEN "held" ELSE @]
  /\ result' = [result EXCEPT ![c] = IF op[c].reply THEN "pending" ELSE @]
  /\ UNCHANGED <<op, task, rx>>

\* The holder of a reservation uses it: the permit's own slot, whatever became of
\* the receiver since.
PermitSend(c) ==
  /\ call[c] = "permit"
  /\ op[c].mode \in Reserving
  /\ call' = [call EXCEPT ![c] = "pushed"]
  /\ place' = [place EXCEPT ![c] =
                 IF rx = "dropped" THEN "stranded" ELSE "buffer"]
  /\ buffer' = IF rx = "dropped" THEN buffer ELSE Append(buffer, c)
  /\ raw' = [raw EXCEPT ![c] = IF op[c].reply THEN "held" ELSE @]
  /\ result' = [result EXCEPT ![c] = IF op[c].reply THEN "pending" ELSE @]
  /\ UNCHANGED <<op, task, waiters, free, rx>>

\* Mutant: no task for a reply that has come already.
ReturnNoTask(c) ==
  /\ call[c] = "pushed"
  /\ call' = [call EXCEPT ![c] = "sent"]
  /\ IF op[c].kind = "address" /\ op[c].reply
     THEN /\ result' = [result EXCEPT ![c] = "pending"]
          /\ task' = [task EXCEPT ![c] =
                        IF raw[c] = "held" THEN "running" ELSE "none"]
     ELSE UNCHANGED <<result, task>>
  /\ UNCHANGED <<op, place, raw, buffer, waiters, free, rx>>

\* The call returns Ok.  RemoteAddress makes the caller's half of the oneshot and
\* starts the decoding task only now, when the reply may have come already.
Return(c) ==
  /\ call[c] = "pushed"
  /\ call' = [call EXCEPT ![c] = "sent"]
  /\ IF op[c].kind = "address" /\ op[c].reply
     THEN /\ result' = [result EXCEPT ![c] = "pending"]
          /\ task' = [task EXCEPT ![c] = "running"]
     ELSE UNCHANGED <<result, task>>
  /\ UNCHANGED <<op, place, raw, buffer, waiters, free, rx>>

-----------------------------------------------------------------------------
(* The receiver and the reply.                                              *)

\* The receiver takes the oldest message, which frees its slot.
Recv ==
  /\ rx # "dropped"
  /\ buffer # <<>>
  /\ buffer' = Tail(buffer)
  /\ place' = [place EXCEPT ![Head(buffer)] = "taken"]
  /\ Release(call, waiters)
  /\ UNCHANGED <<op, replies, rx>>

\* What the caller of a local send reads when the reply's sender ends as how.
LocalResult(how) == IF how = "dropped" THEN "closed" ELSE how

\* The reply of a message that was taken: a value, an error, or the sender is
\* dropped.  From a session the value is bytes, which may not decode.
Settle(c) ==
  /\ place[c] = "taken"
  /\ raw[c] = "held"
  /\ \E how \in {"value", "error", "dropped"}
              \cup (IF op[c].kind \in Remote THEN {"garbled"} ELSE {}) :
       /\ raw' = [raw EXCEPT ![c] = how]
       /\ result' = [result EXCEPT ![c] =
                       IF op[c].kind = "local" /\ @ = "pending"
                       THEN LocalResult(how) ELSE @]
  /\ UNCHANGED <<op, call, place, task, buffer, waiters, free, rx>>

\* What the decoding task passes on: the decoded value, or an error for bytes that
\* do not decode, for an error reply and for a sender that was dropped.
Decoded(how) == IF how = "value" THEN "value" ELSE "error"

\* Mutant: the task waits for the reply alone.
DecodeResWaits(c) ==
  /\ task[c] = "running"
  /\ raw[c] # "held"
  /\ task' = [task EXCEPT ![c] = "ended"]
  /\ result' = [result EXCEPT ![c] =
                  IF @ = "pending" THEN Decoded(raw[c]) ELSE @]
  /\ UNCHANGED <<op, call, place, raw, buffer, waiters, free, rx>>

\* decode_res and decode_res_with_bound: whichever comes first of the reply and
\* the caller's receiver being dropped ends the task.
DecodeRes(c) ==
  /\ task[c] = "running"
  /\ raw[c] # "held" \/ result[c] # "pending"
  /\ task' = [task EXCEPT ![c] = "ended"]
  /\ result' = [result EXCEPT ![c] =
                  IF @ = "pending" THEN Decoded(raw[c]) ELSE @]
  /\ UNCHANGED <<op, call, place, raw, buffer, waiters, free, rx>>

\* The caller drops the receiver of the reply.
DropReceiver(c) ==
  /\ call[c] = "sent"
  /\ result[c] = "pending"
  /\ result' = [result EXCEPT ![c] = "gone"]
  /\ UNCHANGED <<op, call, place, raw, task, buffer, waiters, free, rx>>

\* Receiver::close on a channel the program made: what is in it stays readable.
close ==
  /\ Created
  /\ rx = "open"
  /\ rx' = "closed"
  /\ waiters' = <<>>
  /\ UNCHANGED <<op, call, place, replies, buffer, free>>

\* The receiver is dropped, and with it the messages in the channel.
DropRx ==
  LET lost == {c \in Callers : place[c] = "buffer"} IN
  /\ rx # "dropped"
  /\ rx' = "dropped"
  /\ buffer' = <<>>
  /\ waiters' = <<>>
  /\ free' = free + Len(buffer)
  /\ place' = [c \in Callers |->
                 IF c \in lost THEN "discarded" ELSE place[c]]
  /\ raw' = [c \in Callers |->
               IF c \in lost /\ raw[c] = "held" THEN "dropped" ELSE raw[c]]
  /\ result' = [c \in Callers |->
                  IF c \in lost /\ op[c].kind = "local" /\ result[c] = "pending"
                  THEN "closed" ELSE result[c]]
  /\ UNCHANGED <<op, call, task>>

Next ==
  \/ \E c \in Callers :
       \/ Refuse(c) \/ Start(c) \/ Poll(c) \/ PollClosed(c) \/ Elapse(c)
       \/ Cancel(c) \/ DropPermit(c) \/ Push(c) \/ PermitSend(c) \/ Return(c)
       \/ Settle(c) \/ DecodeRes(c) \/ DropReceiver(c)
  \/ Recv \/ close \/ DropRx

Spec == Init /\ [][Next]_vars

\* Tokio polls a task that was woken, and the receiving loop keeps receiving until
\* it goes away.  Nothing makes the holder of a permit use it, or the receiver of
\* a message answer it.
FairSpec ==
  /\ Spec
  /\ WF_vars(Recv)
  /\ \A c \in Callers :
       /\ WF_vars(Poll(c)) /\ WF_vars(PollClosed(c)) /\ WF_vars(Elapse(c))
       /\ WF_vars(Push(c)) /\ WF_vars(Return(c)) /\ WF_vars(DecodeRes(c))

-----------------------------------------------------------------------------
(* Properties.                                                              *)

Having(states) == {c \in Callers : call[c] \in states}

\* Each variable keeps to its values, and the queue holds each waiting caller once.
TypeOK ==
  /\ op \in Plans
  /\ call \in [Callers -> {"idle", "pushed", "sent", "cancelled"}
                            \cup InCall \cup Errors]
  /\ place \in [Callers -> {"caller", "buffer", "taken", "discarded",
                             "stranded"}]
  /\ raw \in [Callers -> {"none", "held", "value", "garbled", "error",
                           "dropped"}]
  /\ result \in [Callers -> {"none", "pending", "value", "error", "closed",
                              "gone"}]
  /\ task \in [Callers -> {"none", "running", "ended"}]
  /\ rx \in {"open", "closed", "dropped"}
  /\ free \in 0..Capacity
  /\ buffer \in Seq(Callers) /\ IsInjective(buffer)
  /\ waiters \in Seq(Callers) /\ IsInjective(waiters)
  /\ Range(waiters) \subseteq Having({"waiting"})

\* No slot is lost or made: those that are free, filled, granted, held as permits
\* or filled too late add up to the capacity, and nobody waits in an open channel
\* while a slot is free, whatever calls time out or are cancelled and whatever
\* permits are dropped or used (LocalAddress, SendPermit, OwnedSendPermit).
SlotsAccounted ==
  /\ free + Len(buffer) + Cardinality(Having({"granted", "permit"}))
       + Cardinality({c \in Callers : place[c] = "stranded"}) = Capacity
  /\ ~is_closed /\ Having({"waiting"}) # {} => free = 0

\* A call that returns Ok put its message into the channel once, and a call that
\* returns an error, is refused or is cancelled hands the message back and the
\* receiver never sees it (SendError::with_msg, M::unpack).
HandedBack ==
  /\ \A c \in Callers : place[c] = "caller" <=> call[c] \notin {"pushed", "sent"}
  /\ Range(buffer) = {c \in Callers : place[c] = "buffer"}

\* The sending half of a reply lives exactly as long as its message: with the call
\* before the message is in the channel, in the channel, with the receiver that
\* took it.  A value is only read for a message that was taken, and nobody waits
\* for a half that is gone without a task that will tell them (decode_res).
ReplyOwned ==
  \A c \in Callers :
    /\ raw[c] = "held" =>
         call[c] \in InCall \/ place[c] \in {"buffer", "taken", "stranded"}
    /\ result[c] = "value" => place[c] = "taken"
    /\ result[c] = "pending" /\ raw[c] # "held" => task[c] = "running"

\* A call that waits for a slot ends, unless a permit that somebody reserved and
\* does not use is in its way (LocalAddress::send, reserve).
CallReturns ==
  \A c \in Callers :
    call[c] = "waiting" ~>
      \/ call[c] \in {"sent", "cancelled"} \cup Errors
      \/ \E d \in Callers : call[d] = "permit" /\ op[d].mode \in Reserving

\* The task that decodes a reply ends once the reply has come or can no longer
\* come, the send was refused, or the caller gave up its receiver; so no task
\* outlives its purpose when a peer never answers (decode_res).
DecodeTaskEnds ==
  \A c \in Callers :
    task[c] = "running" /\ (raw[c] # "held" \/ result[c] # "pending") ~>
      task[c] = "ended"

=============================================================================
