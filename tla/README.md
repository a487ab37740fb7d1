# acktor: models, checks and proofs

acktor is an actor framework on Tokio (`src/acktor`) with an IPC layer
(`src/acktor-ipc`) that lets actors of different processes talk to each other.
This directory holds TLA+ models of its parts, the TLC configurations that check them
on small instances, and TLAPS proofs of their safety properties for every value of the
constants.

- [The system](#the-system)
- [Modules](#modules)
- [How the models correspond to the code](#how-the-models-correspond-to-the-code)
- [Runs](#runs)
- [Bounds](#bounds)
- [Fairness](#fairness)
- [Proofs](#proofs)
- [Only model-checked](#only-model-checked)
- [What the checks found](#what-the-checks-found)
- [Limits of the models](#limits-of-the-models)
- [Not modelled](#not-modelled)

Run from this directory:

    tlc -workers 2 -config Actor_work.cfg MCActor
    tlapm ActorProofs.tla

## The system

| Part | State | Operations | Interacts with |
|---|---|---|---|
| Actor and default context (`actor.rs`, `context.rs`, `utils.rs`) | lifecycle state, saved error, supervisor, drain state | start/create, five hooks, `run_loop`, stop, terminate, `terminate_actor` | mailbox, supervisor |
| Addresses and mailboxes (`address/*.rs`, `channel/*.rs`) | bounded queue, waiters, permits | send, do_send, try, timeout and blocking forms, reserve, recv, drop | every actor |
| Envelopes and replies (`envelope/*.rs`, `message/*.rs`) | reply sender, time budget | handle, skip, expire, answer from a spawned future | mailbox, oneshot |
| Draining (`drain.rs`) | recorded length, request flag | snapshot, apply | loop of the context |
| Signals, supervision (`signal.rs`, `supervisor.rs`) | supervisor recipient | Stop, Terminate, Supervisor, events by `try_do_send` | other actors |
| Cron actors (`cron.rs`) | Normal/Paused, timer handle | process_one, pause, resume, timers | mailbox |
| Observers (`observer.rs`) | set of recipients | register, unregister, notify | mailboxes of others |
| Node (`node.rs`, `node/context.rs`) | sessions by id and label, listeners, accept tasks | connect, accept, add/remove listener and actor | sessions, ActorMgr |
| ActorMgr, registry (`node/actor_mgr.rs`, `remote/registry.rs`) | labels, mailboxes by index | create, get, add, remove, sweep | node, sessions |
| Session (`session.rs`, `session/*.rs`) | tag, reply senders by tag, connection | forward requests and responses, sweep, close | peer session, local actors, ActorMgr |
| Remote addresses (`address/remote.rs`, `address/recipient.rs`) | proxy | encode, send through a session, decode the answer | session |
| DoubleMap (`double_map.rs`, `double_map/*.rs`) | two hash maps | keyed and entry operations, retain, drain | node |
| Codecs (`codec.rs`, `codec/*.rs`) | none | encoded_len, encode, decode, registration of addresses | all messages between processes |

What makes the system hard: an actor's task, its clients, timers, spawned futures,
its supervisor and `terminate_actor` all run concurrently and meet in bounded
queues; user code runs in the middle of everything and may change the context's
state; receivers and senders disappear at any moment; a drain uses a length that was
recorded before other tasks went on; a timer is aborted while it sends; a session
waits in the middle of a handler for a peer that may wait for it; responses come
after their request was given up; registrations of several sessions race. PROJECT.json
lists these hazards at the lines where they bite, each with the properties that would
catch it going wrong or a note that says why none does.

The properties that matter, by part:

- *Actor*: every accepted message is handled once or dropped with its reply channel;
  nobody waits for an actor that has ended, but for one case that is bounded; hooks see their documented state; a
  handled Terminate is final; drains discard exactly what they should; errors are
  reported; events come in order; requests settle and `terminate_actor` returns.
- *Addresses*: no slot is lost or made; a message is delivered or handed back, never
  both; a reply has one owner; calls return and decoding tasks end.
- *Cron*: one timer at a time; the interval is kept; the task repeats; a stop takes
  effect.
- *DoubleMap*: the two maps are inverse of each other; no `expect` fails; together
  they are one set of entries with unique keys.
- *Session*: the reply map holds exactly the waiting requests; answers go to the
  right request, once; do_sends keep their order; the end of a session releases all;
  every request settles.
- *Registry*: what has a label or was encoded is reachable as long as it lives; a
  recipient gets its messages in order; dead entries and idle tasks go away.
- *Node*: one accept task per listener; observers agree with the table of sessions;
  running sessions are among the children that `post_stop` ends; sessions that ended are forgotten; the node stops.
- *Codecs*: the announced length is exact; decoding gives back the value, an
  error as its text, or says that it cannot; every actor named in a message is registered.

## Modules

| Module | Content |
|---|---|
| `RequestReply` | abstract: what a mailbox with replies promises to those who send to it |
| `Actor` | one actor, its clients, supervisor, drains and `terminate_actor`; implements `RequestReply` |
| `Address` | the sending side of a mailbox: slots, waiters, permits, replies, tasks that decode replies |
| `Cron` | the loop of `CronContext` and its timers |
| `TwoKeyMap` | abstract: a set of entries with two unique keys |
| `DoubleMap` | the two hash maps and every operation on them; implements `TwoKeyMap` |
| `Session` | two sessions, the connection between them, the tasks they spawn, a local actor on either side; each session implements `RequestReply` |
| `Registry` | the registry of remote mailboxes, ActorMgr, lookups and registrations by sessions, forwarding tasks |
| `Node` | the node's loop, table of sessions, listeners and accept tasks, supervision events, observers |
| `Codec` | both codecs as functions on bytes, and one encode and decode as a behaviour |
| `ActorProofs`, `AddressProofs`, `CronProofs`, `DoubleMapProofs`, `RegistryProofs`, `NodeProofs` | proofs about the module of that name |
| `SessionProofs` | proofs about `Session`: where a request is on either side, that it is settled once and served once, and the contract |
| `SessionOrderProofs` | proofs about `Session`: the order of messages, their tags and their answers |
| `MCActor`, `MCAddress`, `MCCodec`, `MCCron`, `MCDoubleMap`, `MCNode`, `MCRegistry`, `MCSession` | instances for TLC |

A definition whose comment starts with "Mutant" is not part of a specification. It is
a plausible wrong version of a definition, kept to show that the property it is listed
with in PROJECT.json notices the mistake.

## How the models correspond to the code

**Actor.** `pc` is the point the actor's task has reached: a hook, `recv`, between
`recv` and the handler (`received`, where the snapshot for a drain is taken), a
handler, `handled` (the rest of the loop body), `exit` (past the loop), `report` (the
event that the spawning task sends last). A handler or hook is user code; while `pc`
is there, `CtxStop`, `CtxTerminate`, `CtxSaveError` and `CtxDrain` may happen, as
often as the user's code likes, at the points that `UserCalls` names. `status[r]`
follows a message from its sender (`waiting` for capacity, `reserved` once it has a
slot) through the mailbox to its end: `replied`, `expired` (a timed envelope ran out), `skipped` (the receiver had
gone), `closed` (the reply sender was dropped), `rejected`, `full` or `timeout` (never
accepted), `deferred` (a `FutureMessageResult` answers later, on its own task). A
message is its kind: a user's, a timed, a future one, Stop, Terminate or Supervisor.
Each way out of the loop (stop, error, panic, failed hook) is an action of its own,
and `DropMailbox` is part of the step that ends the loop, as `drop(mailbox)` is in
`run`. As in Tokio, getting a slot and writing the message into it are two steps. A slot
that was taken before the mailbox went can still be written to: the message is `stranded`
in a channel nobody reads, and is dropped with its reply sender when the last address is
(`DropAddresses`). A client in `Reserving` holds its slot as a `SendPermit` and may keep,
use or drop it. `behind` and `unreported` are history variables for properties.

**Address.** A caller makes one call, of the kind, mode and reply that its plan says.
`call` says how far it is (waiting for a slot, granted one, holding a permit, pushed)
or how it ended; `place` where its message is, `raw` and `result` the two halves of
the reply's oneshot, `task` the task that decodes a remote reply. Getting a slot and
writing the message into it are two steps, so the receiver may close or go in between;
a message written after the receiver was dropped is `stranded`.

**Cron.** The loop alone; hooks and supervision are those of `Actor`. A timer is a
task that sleeps, sends Resume through the bounded mailbox, and ends. An aborted timer
goes on until its next await, so it may still send (`aborting`). `intent` and
`pending` are history: what the user last asked for, and the interval that is running.

**DoubleMap.** A hash map is a function with `None` where it has no entry. `ret` is
what the last call returned, and "panic" when an `expect` fails, which `TwoKeyMap`
never returns. The entry API is one action per use of an entry.

**Session.** Both ends of a connection are modelled. `pc` says where a session is: at
the top of its loop, in `select!`, in `connection.send`, in a `do_send` to a local
actor, waiting for the ActorMgr, closing, ended. `res_tx` is the map from tags to
reply senders, `wire` the bounded transport. `task` follows the task that serves an
inbound request. A message that does not encode or that the connection refuses while it
is up fails like one on a broken connection (`SendFail`). Payloads, indices and labels are left out; whether an actor is found
is a choice. `Faults` names what may go wrong in an instance. `PhaseOf` maps a status to
the phase of `RequestReply`, one instance of which (`Contract(s)`) stands for each side.

**Registry.** An index is never used again in a process, so an actor or recipient
stands for its index. Every method of the registry is one step on one entry, as it is
under the lock of the concurrent map; ActorMgr's handlers and its sweep take several
such steps, with sessions and encoders in between. A forwarding task belongs to a
recipient of `create_remote`; encoding it twice at the same time spawns two tasks, of
which one is registered.

**Node.** `pc` says where the node's task is, with every await inside a handler as a
place of its own (connecting, asking ActorMgr, telling an observer). Accept tasks are
counted for each listener and outcome; which of the finished ones `select_all` takes is
left open. A session actor is its life (`unborn`, `open`, `closed`); its events reach the
node's mailbox or are lost when that is full. A node ends in three ways: by `post_stop`,
by a panic in user code that a handler calls (`T::connect`, an endpoint), which skips
`post_stop`, and by an abort inside `post_stop`. A command in a `Timed` envelope may
expire at any await of its handler. `lost`, `believed` and `missed` are history.

**Codec.** A type is a tuple, a byte a number below 256, a buffer a sequence of bytes
at an address modulo 8, which is what the alignment test of the default codec sees. An
error is its variant and its text, of which only the text travels (`Display` and
`From<String>`). prost leaves out a float that is zero, -0.0 included. An actor that is not
remote-addressable is refused by the encoder. The bytes are there because the two things
that can go wrong are about bytes: lengths that take two of them, and alignment.
A behaviour picks a codec, a type and a value, then takes `encoded_len`, `encode` and
`decode` in turn.

Tokio is modelled from its use: mpsc channels are bounded sequences whose waiting
senders get permits in order; dropping a receiver drops the queued messages and their
reply senders in one step; `select!` takes any ready branch; an aborted task ends at
its next await.

## Runs

| Run | Shows |
|---|---|
| `Actor_work` | `RequestsAccounted`: no message is lost or duplicated; `NoOrphanedRequest`: nothing that was in a dropped mailbox is left waiting, and a stranded message waits only while an address exists; `TerminateIsFinal`; `HandlerErrorReported`; `DrainSparesArrivals`; `HooksSeeTheirState` although hooks and handlers stop, terminate or save errors; `KeepsContract`: the actor implements `RequestReply` |
| `Actor_live` | `EveryRequestSettles` and `TerminateActorReturns` under fairness, without draining, unless a message is stranded or permits are kept for ever; `EndEventsLast`: nothing follows the final event |
| `Actor_stopping_error` | violation, see below |
| `Address_slots` | `SlotsAccounted`, `HandedBack`, `ReplyOwned` for every form of sending, with timeouts, cancellation and a receiver that goes; `CallReturns`, `DecodeTaskEnds` |
| `Cron_timers` | `OneTimer` under every order of pauses, resumes, drains, stops and timers; `IntervalRespected` until somebody resumes by hand; `TaskRepeats` and `StopTakesEffect` under fairness |
| `DoubleMap_sync` | `MapsInSync`; `ImplementsTwoKeyMap`, which excludes panics |
| `Session_order` | With sweeps, late answers, refused messages and an actor that ends, `PendingTracked`: exactly the waiting requests are in the reply map; `ResponseMatches`: no response can reach another request; `DoSendInOrder` |
| `Session_live` | `EndReleases`, `SettledOnce`, `KeepsContract`: a session implements `RequestReply` for its clients, as an actor does; and `RequestsSettle` although the connection breaks, the session is stopped, or the remote actor ends or never answers, and in a crowd that fills the transport in both directions, unless the session is stuck for ever (`stuck`) |
| `Registry_reach` | `Reachable` under all interleavings of sweeps, lookups, creations and registrations; `DeliveredInOrder`; `ClosedIsForgotten` and `NoTaskLeak` under fairness |
| `Node_events` | `AcceptorsMatchListeners`, `ObserversAgree`, `NoOrphanSession`; `SessionForgotten` and `NodeStops` under fairness |
| `Codec_roundtrip` | `LengthExact`, `NeverAnotherValue`, `NamesRegistered` for every type, both codecs and every alignment |
| `Codec_aligned` | violation, see below |

Deadlock is checked for `DoubleMap_sync` only: actors, calls, sessions, nodes and
encodings really come to an end, and two sessions may really block each other.

## Bounds

- Actor: three messages. `Actor_work` has a timed send, a Supervisor and a Terminate,
  capacity 2, one slot at the supervisor (enough to lose events), drains, a permit for the
  timed send, and user calls in handlers and in every hook but `post_stop`, after which
  only the report remains: one message can be handled while one is queued and one arrives, which
  is what a drain and the drop of the mailbox have to tell apart. `Actor_live` has a
  future send through a permit, a Stop and a Terminate by `terminate_actor` at capacity 1,
  so that one permit that is kept fills the mailbox, no drains and no user calls. A message is sent once; further ones would repeat the protocol with a
  new identity.
- Address: three callers and one slot, so that somebody waits behind a waiter, with six
  plans that pair every kind with the modes that differ in code.
- Cron: two timer identities, reused once a timer is over, so that an aborted one is
  still in its send while another runs; capacity 1, three messages besides the ticks
  (a user's, Pause, Terminate), and all five calls of user code.
- DoubleMap: three keys of each sort and two values, so that a call can meet two
  different entries by its two keys and a third entry remains.
- Session: in `Session_order` four requests of one side (a send, two do_sends, one to
  the node) with all queues of one slot: every queue is full at some time. Two tags are
  one for each request with an answer. The two do_sends are interchangeable (symmetry).
  `Session_live` has one request with all faults together, or the same request among two
  do_sends of its side and one of the other, all queues of one slot, which is enough for
  both sessions to wait in `connection.send`. The crowd and the faults exclude each other
  in this instance (`inBounds`), and of the two equal do_sends the first is made first.
  Ages are not counted: a pending request may become overdue at any time.
- Registry: one actor, one recipient, two labels, two forwarding tasks (a second one
  that loses the race to be registered), two messages, channels of one slot.
- Node: two sessions, two labels, one listener, one observer, mailboxes of one slot,
  three commands: a session can be created while the end of another is reported or lost.
  With one observer nobody waits behind another one; `Agreement` is proved for any number.
- Codec: boundary values of each width (0, 127, 128, 255, negative numbers, 70000),
  0.0 and -0.0, empty and 127/128-byte strings, two variants of error with each text, an
  actor that is not remote-addressable, every type alone, in an option, and a choice of them
  in results, pairs and options of pairs; all eight alignments.

The proofs below show the safety properties of all modules but `Codec` without these
bounds.

## Fairness

`FairSpec` in each module assumes weak fairness of every task (Tokio polls what is
ready), of clocks, and that user code returns. It assumes strong fairness where a
sender waits for capacity (Tokio's semaphore is first come, first served, so a waiter
gets a permit although the queue fills up again in between), for the branches of the
session's and the node's `select!`, which are chosen at random, and for the sweep of
ActorMgr, whose ticks keep coming between its messages. Nothing is assumed of clients,
user decisions (stop, pause, drain, RemoveActor), of faults or of the supervisor. In
`Actor` a sender that has its slot writes its message, and the holder of a permit need not.
`Session` has strong fairness for receiving and for the answers of tasks only, which
compete with steps that may come again and again; elsewhere finitely many steps compete
and weak fairness is enough. A session that waits for room in the transport (`blocked`)
is not assumed to go on. In `Session_live` not even the answer of the remote actor is
assumed. In `Node` an observer
handles its messages, and a session that the node waits for in `post_stop` ends. In
`Address`, too, nothing makes the holder of a permit use it, and `CallReturns` allows for that.

## Proofs

All proofs are checked by tlapm with Z3, Zenon and LS4. They hold for every set of
requests, callers, keys, sessions and so on, every capacity and every choice of the
other constants that satisfies the named assumptions (`ConstantsAssumption`,
`CronAssumption`, `KeysAssumption`, `PlansAssumption`, `CapacityAssumption`,
`CallersAssumption`, `RegistryAssumption`, `NodeAssumption`, `SessionAssumption`).
They say that capacities are positive, that `None` is none of the identities, that
kinds are kinds, and where sizes are counted that sets are finite. Three theorems have a
further hypothesis, named below. Each module defines an inductive invariant, and has
one lemma for each conjunct or action over lemmas on queues, sets and single steps.

**ActorProofs.** `IInv` (`Invariance`) joins `TypeOK` and `RequestsAccounted` with what
these need at single points of the task: `TaskShape` (which message is current at which
`pc`, and that the mailbox is closed once the task is past `exit`), `DrainPrefix` (the
recorded messages are still the first ones of the mailbox), `AddressShape` (nothing is
stranded while the mailbox is there, and nobody waits, holds a slot or is stranded once
the last address has gone), `DeferredKind` (only future
messages are answered off the mailbox) and `TerminateIsFinal`. Without `TaskShape` the
accounting is not inductive: a step of the loop could take a second message over the
current one. Without `DrainPrefix` nothing bounds a drain. From it follow

- `TypeCorrect`, `Accounting`, `NoOrphans`, `DrainNeverFails`, `TerminateEnds`;
- `DrainIsBounded` and `HookStates`, action properties;
- `ImplementsContract`: every step of `Actor` is a step of `RequestReply` or leaves
  it alone. The step that drops the mailbox is the one that needs `NoOrphans`, the one
  that drops the last address needs `AddressShape`;
- `ErrorsSurface` (`HandlerErrorReported`): `ErrorTracked` says where a saved error is
  until a report carries it, at every `pc`;
- `FinalReport`: nothing follows Terminated or Panicked, whatever user code calls; and
  `EventsEnd` (`EndEventsLast`) when user code makes no such calls (`UserCalls = {}`),
  because a `ctx.stop()` after `ctx.terminate()` announces Stopping after Stopped.

**AddressProofs.** `AInv` counts slots by owner (`SlotsInv`), ties the queue of waiters
and the buffer to the states of the calls (each at most once, and everybody who waits
is queued), and says for each stage of a call who has the message and the halves of its
reply. `SlotsSafe`, `HandedBackSafe`, `ReplySafe` and `TypeCorrect` follow.

**CronProofs.** `TimerInv` is `TypeOK` and `OneTimer` with two facts about the moment
at which `task` has returned and the timer is about to start; `NoTimerRace` and
`CronTypeCorrect` follow. `IntervalKept` (`IntervalRespected`) rests on `OneResume`:
until somebody resumes by hand there is a single right to run the task, held by the
Normal state, one timer, or one tick in the mailbox or at hand.

**DoubleMapProofs.** `Inv` is `TypeOK` and `MapsInSync`. `Synchronised` and
`NeverPanics` follow; `Implements` shows that every operation does to the set of
entries, and returns, what `TwoKeyMap` says.

**RegistryProofs.** `RInv` says what an entry means (an actor under its own index, a
recipient by a task that reads for it and ends only with it), that what is named or
exported and lives has an entry, and what ActorMgr relies on while it waits for a
factory. A lookup or a sweep then only ever removes entries of the dead: `ReachableAlways`
and `OneLabelAlways`. `OrderInv` adds that a task that lost the race to be registered
never gets a message, and that what a registered one has still to pass on is newer than
what its recipient got: `InOrder`.

**NodeProofs.** `NInv` says that a running session is among the children until the node
panics or is aborted, that none runs after `post_stop` (`NoOrphans`), when the mailbox is
there (`Shut`), whom the node is telling what (`Telling`), that only a session that ended is reported as terminated, and that an
observer agrees with the table or has the event still to come that will make it agree
(`Agreement`), or missed it because a timed Connect expired. `Accepting` follows the count of accept tasks through every handler:
each listener has one, but for the one that the node has just taken from `select_all`
and puts back or gives up before its next event (`OneAcceptor`).

**SessionProofs.** `SInv` places every request of a session: in its mailbox, in
`connection.send`, in the reply map or settled, at one of them only, and in each of them
once. `PendingIsTracked`, `EndReleasesAll` and `SettledForGood` follow, and
`ImplementsContract`: to the makers of requests on its side a session is a `RequestReply`,
with a request detached when the session takes it out of its mailbox, and given up when it
fails, expires, or its reply sender is dropped. A step that puts a reply sender under a
tag in use, a sweep and the end of a session give up several requests at once; that they
are unsettled requests of that side is what `SInv` says of the map. `PathInv` (`Path`)
continues to the other side: what travels was made by the side it comes from, a request
is on the wire once, is received once, and only then served, by one task or actor.

**SessionOrderProofs.** On `SInv` and `PathInv` rest

- `InOrder` (`DoSendInOrder`): for every two do_sends of a side, the later one is not ahead
  of the earlier one in the mailbox, in `connection.send`, on the wire or at the actor
  (`Ordered`). The step that matters is the one in which a session takes a do_send off
  the wire: it waits for the actor's mailbox before it receives again.
- `AnswersMatch` (`ResponseMatches`), under `EnoughTags`: no side makes more requests with
  an answer than there are tags. `TagInv` has a function from requests to the tags that
  `next_tag` gave them, one-to-one on each side, and says that whatever carries a tag (a
  message on the wire, in a mailbox, in hand, a serving task, an entry of the reply map)
  carries the one of its request. The hypothesis is needed: once the counter
  wraps, a late response may find its tag in use again. The code's tags are 64 bits
  wide, so a session would have to make 2^64 requests; the run satisfies it with two
  requests and two tags.
- `AnswersAreReal` (`AnsweredByTask`, stated in this module), under `EnoughTags` too: a
  send whose maker is told of an answer has a task on the other side that is done.
  `RealInv` says that every response to a send, on the wire, in a mailbox or in hand, is
  one whose task has replied, and that the session asks the ActorMgr only for commands.
  That a task stays done is not local to the task: it needs that a request is received
  once (`PathInv`), or a second spawn would start it again. The last hop is
  `ResponseMatches`.

## Only model-checked

- The properties under fairness (`EveryRequestSettles`, `TerminateActorReturns`,
  `TaskRepeats`, `StopTakesEffect`, `RequestsSettle`, `CallReturns`, `DecodeTaskEnds`,
  `ClosedIsForgotten`, `NoTaskLeak`, `SessionForgotten`, `NodeStops`): the prover does not
  do liveness or ENABLED.
- `LengthExact`, `NeverAnotherValue` and `NamesRegistered`: they are about recursive
  functions on types and bytes, and a proof is an induction over data, which the
  installed provers cannot do.

Every invariant and action property of the other runs that pass is proved.

## What the checks found

- `Actor_stopping_error`: when `stopping` fails, `run_loop` returns
  `result.or(Err(e))` (`context.rs:153`, the same in `cron.rs:249`). Without a saved
  error that is `Ok(())`, so the failure of `stopping` is swallowed; with one, the
  saved error is. The comment at `context.rs:139-140` says the opposite.
- `Codec_aligned`: the default codec decodes a vector in place and fails when the bytes
  are not aligned for its elements (`default_codec.rs:205`). In `Some(vec![1u32, 70000])`
  they begin at offset 2, after the tag 10 and the length 8, so it encodes and does not
  decode from a buffer at a multiple of 4. It decodes only from a buffer that happens to
  lie at 2 modulo 4. The helper of the tests at `codec.rs:225-226` expects a round trip.

Met while modelling, without a run of their own:

- A drain discards a queued `Signal::Terminate`, after which `terminate_actor` waits for
  ever; so `Actor_live` has no drains.
- A Resume that the timer of a cron actor had queued before it was aborted undoes a later
  pause; a pause from inside `task` is overwritten when it returns; a drain that discards
  the timer's Resume leaves the task paused for good (`TaskRepeats` excepts it).
- Two sessions that both wait in `connection.send` neither read nor sweep, so the timeout
  promised at `session.rs:46-48` does not come. `Session_live` reaches such states, and
  `RequestsSettle` excepts them. A local actor that never reads its mailbox stops its
  session in the same way.
- A message written through a permit after the mailbox went is accepted and never read. Its
  maker waits until the last address goes (`EveryRequestSettles` excepts it).
- A panic of the user's `T::connect` inside the node, and `terminate_actor` on a node that
  is in `post_stop` already, leave its sessions running (`NoOrphanSession` excepts them). A
  timed Connect that expires while it tells the observers leaves some of them untold
  (`ObserversAgree` excepts that session).
- An abort by `terminate_actor` cuts off the rest of `post_stop` and the final event.
- Events to a supervisor, the notice of a panic included, are lost when its mailbox is full
  (`actor.rs:102-103` promises the notice). A session whose last event to the node is lost
  stays in the node's table, with its label (`SessionForgotten` excepts it).
- `ctx.stop()` after `ctx.terminate()` in one handler takes the termination back;
  `set_state(Running)` after `post_start` undoes a stop asked for by that hook, and
  Stopping::Continue one asked for inside `stopping`. An error sent to another process
  arrives as its text (said at `common_codec.rs:70-72`), and with the
  prost codec a float -0.0 as 0.0.
- AddActor refuses an actor that encoding has registered already. After RemoveActor a
  recipient that is encoded again has two tasks, which may reorder its messages
  (`DeliveredInOrder` excepts it).

## Limits of the models

- A node that waits for an observer, and an observer that waits for the node, block each
  other. `Node` assumes that observers handle their messages.
- Connecting to a peer is assumed to return, with or without a connection.
- An actor given to AddActor is one of this process.
- A message written into a slot after the receiver was dropped stays in the channel with
  its reply sender, as in Tokio, until the last sender goes. `Actor` has both; `Address`
  counts such a message and does not free it; `Session` lets a sender get its slot and
  write in one step, so it has none.
- In `Session` an actor whose handler waits for an answer over the same connection is not
  modelled, and the crowd of `Session_live` meets no fault.
- `Codec` assumes that prost's `Bytes` fields are slices of the received buffer, and that
  the receiver decodes with a context.
- The models keep no real time: a timer, an age or a time budget may run out at any
  time after it started.
- The modules are not composed with each other. `Node` uses of DoubleMap what `TwoKeyMap`
  promises, `Session` leaves open whether the registry finds an actor, and `Registry`
  has one session stand for the traffic of all.

## Not modelled

Derive macros (code generation at compile time); the maps of codecs by type (`table.rs`)
and the adaptor and frames that prost generates; the I/O of the transports, of which
`Session` has the bounded channel that may break; messages that do not decode, which a
session logs and skips; RemoteCreateActor and RemoteGetActor in the node, which only pass
a message to a session; iterators and bulk constructors of DoubleMap, which are folds over
the modelled operations or read-only; error values and identifiers but for the outcomes of
calls.
