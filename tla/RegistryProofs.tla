--------------------------- MODULE RegistryProofs ---------------------------
(***************************************************************************)
(* Proofs about Registry, for all sets of actors, recipients, labels and   *)
(* forwarding tasks, every capacity and any number of messages.            *)
(***************************************************************************)
EXTENDS Registry, TLAPS

USE DEF None

\* An actor is registered under its own index; a recipient by a task that reads for
\* it, which only ends together with the recipient.
Entries ==
  \A k \in Keys : registry[k] # None =>
    /\ k \in Actors => registry[k] = k
    /\ k \in Recipients => /\ registry[k] \in Forwarders
                           /\ reads[registry[k]] = k
                           /\ task[registry[k]] # "unused"
                           /\ task[registry[k]] = "ended" => alive[k] = "closed"

\* What is named or exported exists, and is registered while it lives.
Known ==
  /\ \A x \in Labels : labels[x] # None => alive[labels[x]] # "unborn"
  /\ \A k \in exported \cup Recipients : alive[k] # "unborn"
  /\ \A k \in Keys :
       alive[k] = "open" /\ (k \in exported \/ \E x \in Labels : labels[x] = k)
         => registry[k] # None

\* While ActorMgr waits for a factory, the label and the actor stay unused.
Creating ==
  mgr.at \in {"spawn", "created"} =>
    /\ mgr.label \in Labels /\ mgr.actor \in Actors
    /\ labels[mgr.label] = None
    /\ \A x \in Labels : labels[x] # mgr.actor
    /\ mgr.at = "spawn" => alive[mgr.actor] = "unborn"
    /\ mgr.at = "created" => alive[mgr.actor] # "unborn"

\* A task that was spawned reads for a recipient, and one that sends has a message.
Tasks ==
  /\ \A f \in Forwarders : task[f] # "unused" => reads[f] \in Recipients
  /\ \A f \in Forwarders : task[f] = "send" => holding[f] \in Messages
  /\ sending # None => handled \in Messages

RInv == TypeOK /\ Entries /\ Known /\ Creating /\ Tasks /\ OneLabel

\* The task f forwards to c, which lives and was never taken out.
feeds(f, c) == active(f) /\ reads[f] = c /\ alive[c] = "open" /\ c \notin removed

\* A task that lost the race to be registered never gets a message.
Fresh ==
  \A f \in Forwarders, c \in Recipients :
    feeds(f, c) /\ registry[c] # f => raw[f] = <<>> /\ task[f] = "recv" /\ sending # f

\* What a task has still to pass on is in the order of the session, and newer than
\* what its recipient got last.
ordered(f) ==
  /\ \A i \in 1 .. Len(raw[f]) :
       /\ raw[f][i] <= handled
       /\ sending = f => raw[f][i] < handled
       /\ task[f] = "send" => holding[f] < raw[f][i]
       /\ \A j \in 1 .. Len(raw[f]) : i < j => raw[f][i] < raw[f][j]
  /\ task[f] = "send" => holding[f] <= handled
  /\ task[f] = "send" /\ sending = f => holding[f] < handled

newer(f, c) ==
  /\ \A i \in 1 .. Len(raw[f]) : last[c] < raw[f][i]
  /\ task[f] = "send" => last[c] < holding[f]
  /\ sending = f => last[c] < handled

Ordered ==
  \A f \in Forwarders :
    ordered(f) /\ \A c \in Recipients : feeds(f, c) => newer(f, c)

OrderInv == (\A c \in Recipients : last[c] <= handled) /\ Fresh /\ Ordered

-----------------------------------------------------------------------------
(* The registry.                                                            *)

\* An entry is only ever closed when its actor or recipient is gone.
LEMMA ClosedGone ==
  ASSUME RInv, NEW k \in Keys, closedAt(k)
  PROVE  alive[k] = "closed"
<1>1. CASE k \in Actors
  BY <1>1 DEF closedAt, is_closed, RInv, Entries
<1>2. CASE k \in Recipients
  BY <1>2, RegistryAssumption DEF closedAt, is_closed, RInv, Entries
<1> QED BY <1>1, <1>2 DEF Keys

\* What a sweep or a lookup does to the registry.
forgets ==
  /\ registry' \in [Keys -> Mailboxes \cup {None}]
  /\ \A k \in Keys : \/ registry'[k] = registry[k]
                     \/ registry'[k] = None /\ alive[k] = "closed"

LEMMA SweepForgets ==
  ASSUME RInv, registry' = [k \in Keys |-> IF closedAt(k) THEN None ELSE registry[k]]
  PROVE  forgets
BY ClosedGone DEF forgets, RInv, TypeOK

LEMMA GetForgets ==
  ASSUME RInv, NEW K, registry' = afterGet(K)
  PROVE  forgets
<1>1. registry' = [k \in Keys |-> IF k \in K /\ closedAt(k) THEN None ELSE registry[k]]
  BY DEF afterGet
<1> QED BY <1>1, ClosedGone DEF forgets, RInv, TypeOK

LEMMA ForgetsEntries ==
  ASSUME RInv, forgets, UNCHANGED <<alive, task, reads>>
  PROVE  Entries'
<1> SUFFICES ASSUME NEW k \in Keys, registry'[k] # None
             PROVE  /\ k \in Actors => registry'[k] = k
                    /\ k \in Recipients => /\ registry'[k] \in Forwarders
                                           /\ reads[registry'[k]] = k
                                           /\ task[registry'[k]] # "unused"
                                           /\ task[registry'[k]] = "ended" => alive[k] = "closed"
  BY DEF Entries
<1>1. registry'[k] = registry[k]
  BY DEF forgets
<1> QED BY <1>1 DEF RInv, Entries

LEMMA ForgetsKnown ==
  ASSUME RInv, forgets, UNCHANGED <<alive, exported>>,
         \A x \in Labels : labels'[x] = labels[x] \/ labels'[x] = None
  PROVE  Known'
<1>1. \A x \in Labels : labels'[x] # None => alive'[labels'[x]] # "unborn"
  BY DEF RInv, Known
<1>2. ASSUME NEW k \in Keys, alive[k] = "open",
             k \in exported \/ \E x \in Labels : labels'[x] = k
      PROVE  registry'[k] # None
  <2>1. k # None
    BY RegistryAssumption
  <2>2. k \in exported \/ \E x \in Labels : labels[x] = k
    BY <1>2, <2>1
  <2>3. registry[k] # None
    BY <1>2, <2>2 DEF RInv, Known
  <2> QED BY <1>2, <2>3 DEF forgets
<1> QED BY <1>1, <1>2 DEF RInv, Known

\* insert puts a mailbox where there is none.
LEMMA Inserted ==
  ASSUME RInv, NEW k \in Keys, NEW box \in Mailboxes, registry' = insert(k, box)
  PROVE  /\ registry' \in [Keys -> Mailboxes \cup {None}]
         /\ \A j \in Keys \ {k} : registry'[j] = registry[j]
         /\ registry[k] = None => registry'[k] = box
         /\ registry[k] # None => registry'[k] = registry[k]
         /\ registry'[k] # None
<1>1. box # None
  BY RegistryAssumption DEF Mailboxes, Keys
<1> QED BY <1>1 DEF insert, RInv, TypeOK

-----------------------------------------------------------------------------
(* The structure of the registry and of the labels.                         *)

LEMMA RInit == Init => RInv
<1> SUFFICES ASSUME Init PROVE RInv
  OBVIOUS
<1>1. labels \in [Labels -> Actors \cup {None}]
  BY DEF Init
<1>2. \A x \in Labels : labels[x] # None => labels[x] \in Actors /\ alive[labels[x]] = "open"
  BY DEF Init
<1>3. registry \in [Keys -> Mailboxes \cup {None}]
  <2>1. ASSUME NEW k \in Keys, NEW x \in Labels, labels[x] = k
        PROVE  k \in Actors
    BY <2>1, <1>1, RegistryAssumption DEF Keys
  <2> QED BY <2>1 DEF Init, Mailboxes
<1>4. TypeOK
  <2>1. /\ alive \in [Keys -> {"unborn", "open", "closed"}]
        /\ mgr \in [at : {"idle", "sweep", "spawn", "created"},
                    label : Labels \cup {None}, actor : Actors \cup {None}]
    BY DEF Init, idle
  <2>2. /\ task \in [Forwarders -> {"unused", "recv", "send", "ended"}]
        /\ reads \in [Forwarders -> Recipients \cup {None}]
        /\ raw \in [Forwarders -> Seq(Messages)]
        /\ holding \in [Forwarders -> Messages \cup {0}]
    BY DEF Init
  <2>3. /\ inbox \in [Recipients -> Seq(Messages)]
        /\ handled \in 0 .. MaxMessages
        /\ sending \in Forwarders \cup {None}
        /\ last \in [Recipients -> Nat]
        /\ exported \in SUBSET Keys /\ removed \in SUBSET Keys
    BY RegistryAssumption DEF Init
  <2> QED BY <1>1, <1>3, <2>1, <2>2, <2>3 DEF TypeOK
<1>5. Entries
  <2>1. \A k \in Recipients : registry[k] = None
    BY <1>1, RegistryAssumption DEF Init, Keys
  <2>2. \A k \in Actors : registry[k] # None => registry[k] = k
    BY DEF Init, Keys
  <2> QED BY <2>1, <2>2, RegistryAssumption DEF Entries, Keys
<1>6. Known
  BY <1>2, RegistryAssumption DEF Init, Known, Keys
<1>7. Creating /\ Tasks
  BY DEF Init, Creating, Tasks, idle
<1>8. OneLabel
  BY DEF Init, OneLabel
<1> QED BY <1>4, <1>5, <1>6, <1>7, <1>8 DEF RInv

LEMMA SweepStep == ASSUME RInv, Sweep PROVE RInv'
<1>1. /\ mgr' = [idle EXCEPT !.at = "sweep"]
      /\ UNCHANGED <<alive, labels, task, reads, raw, holding, inbox, handled, sending,
                     last, exported, removed>>
  BY DEF Sweep, taskVars, sessionVars, history
<1>2. forgets
  BY SweepForgets DEF Sweep
<1>3. mgr'.at = "sweep" /\ mgr' \in [at : {"idle", "sweep", "spawn", "created"},
                    label : Labels \cup {None}, actor : Actors \cup {None}]
  BY <1>1 DEF idle
<1>4. TypeOK'
  BY <1>1, <1>2, <1>3 DEF RInv, TypeOK, forgets
<1>5. Entries' /\ Known'
  BY <1>1, <1>2, ForgetsEntries, ForgetsKnown
<1>6. Creating'
  BY <1>3 DEF Creating
<1>7. Tasks' /\ OneLabel'
  BY <1>1 DEF RInv, Tasks, OneLabel
<1> QED BY <1>4, <1>5, <1>6, <1>7 DEF RInv

LEMMA SweepLabelsStep == ASSUME RInv, SweepLabels PROVE RInv'
<1>1. /\ mgr' = idle
      /\ UNCHANGED <<alive, task, reads, raw, holding, inbox, handled, sending,
                     last, exported, removed>>
  BY DEF SweepLabels, taskVars, sessionVars, history
<1>2. forgets
  BY GetForgets DEF SweepLabels
<1>3. mgr'.at = "idle" /\ mgr' \in [at : {"idle", "sweep", "spawn", "created"},
                    label : Labels \cup {None}, actor : Actors \cup {None}]
  BY <1>1 DEF idle
<1>4. /\ labels' \in [Labels -> Actors \cup {None}]
      /\ \A x \in Labels : labels'[x] = labels[x] \/ labels'[x] = None
  BY DEF SweepLabels, RInv, TypeOK
<1>5. TypeOK'
  BY <1>1, <1>2, <1>3, <1>4 DEF RInv, TypeOK, forgets
<1>6. Entries' /\ Known'
  BY <1>1, <1>2, <1>4, ForgetsEntries, ForgetsKnown
<1>7. Creating'
  BY <1>3 DEF Creating
<1>8. Tasks'
  BY <1>1 DEF RInv, Tasks
<1>9. OneLabel'
  BY <1>1, <1>4 DEF RInv, OneLabel
<1> QED BY <1>5, <1>6, <1>7, <1>8, <1>9 DEF RInv

LEMMA CreateActorStep == ASSUME RInv, NEW x \in Labels, CreateActor(x) PROVE RInv'
<1>1. /\ labels[x] = None
      /\ UNCHANGED <<alive, registry, labels, task, reads, raw, holding, inbox, handled,
                     sending, last, exported, removed>>
  BY DEF CreateActor, taskVars, sessionVars, history
<1>2. PICK a \in Actors : /\ alive[a] = "unborn"
                          /\ mgr' = [at |-> "spawn", label |-> x, actor |-> a]
  BY DEF CreateActor
<1>3. TypeOK'
  <2>1. mgr' \in [at : {"idle", "sweep", "spawn", "created"},
                  label : Labels \cup {None}, actor : Actors \cup {None}]
    BY <1>2
  <2> QED BY <1>1, <2>1 DEF RInv, TypeOK
<1>4. Entries' /\ Known' /\ Tasks' /\ OneLabel'
  BY <1>1 DEF RInv, Entries, Known, Tasks, OneLabel
<1>5. \A y \in Labels : labels[y] # a
  BY <1>2, RegistryAssumption DEF RInv, Known, Keys
<1>6. Creating'
  BY <1>1, <1>2, <1>5 DEF Creating
<1> QED BY <1>3, <1>4, <1>6 DEF RInv

LEMMA FactoryOkStep == ASSUME RInv, FactoryOk PROVE RInv'
<1>1. /\ mgr.at = "spawn" /\ mgr' = [mgr EXCEPT !.at = "created"]
      /\ alive' = [alive EXCEPT ![mgr.actor] = "open"]
      /\ UNCHANGED <<registry, labels, task, reads, raw, holding, inbox, handled,
                     sending, last, exported, removed>>
  BY DEF FactoryOk, taskVars, sessionVars, history
<1> DEFINE a == mgr.actor
<1>2. /\ mgr.label \in Labels /\ a \in Actors /\ a \in Keys /\ labels[mgr.label] = None
      /\ \A x \in Labels : labels[x] # a
      /\ alive[a] = "unborn"
  BY <1>1 DEF RInv, Creating, Keys
<1>3. /\ mgr' \in [at : {"idle", "sweep", "spawn", "created"},
                   label : Labels \cup {None}, actor : Actors \cup {None}]
      /\ mgr'.at = "created" /\ mgr'.label = mgr.label /\ mgr'.actor = a
  BY <1>1, Zenon DEF RInv, TypeOK
<1>4. /\ alive' \in [Keys -> {"unborn", "open", "closed"}] /\ alive'[a] = "open"
      /\ \A k \in Keys \ {a} : alive'[k] = alive[k]
  BY <1>1, <1>2 DEF RInv, TypeOK
<1> HIDE DEF a
<1>5. TypeOK'
  BY <1>1, <1>3, <1>4 DEF RInv, TypeOK
<1>6. Entries'
  <2>1. \A k \in Recipients : k # a /\ k \in Keys
    BY <1>2, RegistryAssumption DEF Keys
  <2> QED BY <1>1, <1>4, <2>1 DEF RInv, Entries
<1>7. Known'
  <2>1. a \notin exported
    BY <1>2 DEF RInv, Known
  <2>2. exported \in SUBSET Keys /\ \A x \in Labels : labels[x] # None => labels[x] \in Keys
    BY DEF RInv, TypeOK, Keys
  <2> QED BY <1>1, <1>2, <1>4, <2>1, <2>2 DEF RInv, Known
<1>8. Creating'
  BY <1>1, <1>2, <1>3, <1>4 DEF Creating
<1>9. Tasks'
  BY <1>1 DEF RInv, Tasks
<1>10. OneLabel'
  <2>1. \A x \in Labels : labels[x] # None => labels[x] \in Keys \ {a}
    BY <1>2 DEF RInv, TypeOK, Keys
  <2> QED BY <1>1, <1>4, <2>1 DEF RInv, OneLabel
<1> QED BY <1>5, <1>6, <1>7, <1>8, <1>9, <1>10 DEF RInv

LEMMA FactoryFailStep == ASSUME RInv, FactoryFail PROVE RInv'
<1>1. /\ mgr' = idle
      /\ UNCHANGED <<alive, registry, labels, task, reads, raw, holding, inbox, handled,
                     sending, last, exported, removed>>
  BY DEF FactoryFail, taskVars, sessionVars, history
<1>2. mgr'.at = "idle" /\ mgr' \in [at : {"idle", "sweep", "spawn", "created"},
                    label : Labels \cup {None}, actor : Actors \cup {None}]
  BY <1>1 DEF idle
<1>3. TypeOK'
  BY <1>1, <1>2 DEF RInv, TypeOK
<1>4. Entries' /\ Known' /\ Tasks' /\ OneLabel'
  BY <1>1 DEF RInv, Entries, Known, Tasks, OneLabel
<1>5. Creating'
  BY <1>2 DEF Creating
<1> QED BY <1>3, <1>4, <1>5 DEF RInv

LEMMA CreateDoneStep == ASSUME RInv, CreateDone PROVE RInv'
<1> DEFINE a == mgr.actor
           l == mgr.label
<1>1. /\ mgr.at = "created" /\ mgr' = idle
      /\ registry' = insert(a, a) /\ labels' = [labels EXCEPT ![l] = a]
      /\ UNCHANGED <<alive, task, reads, raw, holding, inbox, handled,
                     sending, last, exported, removed>>
  BY DEF CreateDone, taskVars, sessionVars, history
<1>2. /\ l \in Labels /\ a \in Actors /\ a \in Keys /\ a \in Mailboxes
      /\ \A x \in Labels : labels[x] # a
      /\ alive[a] # "unborn"
  BY <1>1 DEF RInv, Creating, Keys, Mailboxes
<1> HIDE DEF a, l
<1>3. mgr'.at = "idle" /\ mgr' \in [at : {"idle", "sweep", "spawn", "created"},
                    label : Labels \cup {None}, actor : Actors \cup {None}]
  BY <1>1 DEF idle
<1>4. /\ registry' \in [Keys -> Mailboxes \cup {None}]
      /\ \A j \in Keys \ {a} : registry'[j] = registry[j]
      /\ registry[a] = None => registry'[a] = a
      /\ registry[a] # None => registry'[a] = registry[a]
      /\ registry'[a] # None
  BY <1>1, <1>2, Inserted
<1>5. /\ labels' \in [Labels -> Actors \cup {None}] /\ labels'[l] = a
      /\ \A x \in Labels \ {l} : labels'[x] = labels[x]
  BY <1>1, <1>2 DEF RInv, TypeOK
<1>6. TypeOK'
  BY <1>1, <1>3, <1>4, <1>5 DEF RInv, TypeOK
<1>7. Entries'
  BY <1>1, <1>2, <1>4, RegistryAssumption DEF RInv, Entries
<1>8. Known'
  <2>1. \A x \in Labels : labels'[x] # None => alive[labels'[x]] # "unborn"
    BY <1>2, <1>5 DEF RInv, Known
  <2>2. ASSUME NEW k \in Keys, alive[k] = "open",
               k \in exported \/ \E x \in Labels : labels'[x] = k
        PROVE  registry'[k] # None
    <3>1. CASE k = a
      BY <3>1, <1>4
    <3>2. CASE k # a
      <4>1. k \in exported \/ \E x \in Labels : labels[x] = k
        BY <2>2, <3>2, <1>5
      <4> QED BY <2>2, <3>2, <4>1, <1>4 DEF RInv, Known
    <3> QED BY <3>1, <3>2
  <2> QED BY <1>1, <2>1, <2>2 DEF RInv, Known
<1>9. Creating'
  BY <1>3 DEF Creating
<1>10. Tasks'
  BY <1>1 DEF RInv, Tasks
<1>11. OneLabel'
  BY <1>1, <1>2, <1>5 DEF RInv, OneLabel
<1> QED BY <1>6, <1>7, <1>8, <1>9, <1>10, <1>11 DEF RInv

LEMMA GetActorStep == ASSUME RInv, NEW x \in Labels, GetActor(x) PROVE RInv'
<1>1. UNCHANGED <<alive, labels, mgr, task, reads, raw, holding, inbox, handled,
                  sending, last, exported, removed>>
  BY DEF GetActor, mgrVars, taskVars, sessionVars, history
<1>2. forgets
  BY GetForgets DEF GetActor
<1>3. TypeOK'
  BY <1>1, <1>2 DEF RInv, TypeOK, forgets
<1>4. Entries' /\ Known'
  BY <1>1, <1>2, ForgetsEntries, ForgetsKnown
<1>5. Creating' /\ Tasks' /\ OneLabel'
  BY <1>1 DEF RInv, Creating, Tasks, OneLabel
<1> QED BY <1>3, <1>4, <1>5 DEF RInv

LEMMA AddActorStep ==
  ASSUME RInv, NEW x \in Labels, NEW a \in Actors, AddActor(x, a)
  PROVE  RInv'
<1>1. /\ mgr = idle /\ alive[a] # "unborn" /\ labels[x] = None /\ registry[a] = None
      /\ registry' = insert(a, a) /\ labels' = [labels EXCEPT ![x] = a]
      /\ UNCHANGED <<alive, mgr, task, reads, raw, holding, inbox, handled,
                     sending, last, exported, removed>>
  BY DEF AddActor, taskVars, sessionVars, history
<1>2. a \in Keys /\ a \in Mailboxes
  BY DEF Keys, Mailboxes
<1>3. /\ registry' \in [Keys -> Mailboxes \cup {None}]
      /\ \A j \in Keys \ {a} : registry'[j] = registry[j]
      /\ registry'[a] = a /\ registry'[a] # None
  BY <1>1, <1>2, Inserted
<1>4. /\ labels' \in [Labels -> Actors \cup {None}] /\ labels'[x] = a
      /\ \A y \in Labels \ {x} : labels'[y] = labels[y]
  BY <1>1 DEF RInv, TypeOK
<1>5. TypeOK'
  BY <1>1, <1>3, <1>4 DEF RInv, TypeOK
<1>6. Entries'
  BY <1>1, <1>3, RegistryAssumption DEF RInv, Entries
<1>7. Known'
  <2>1. \A y \in Labels : labels'[y] # None => alive[labels'[y]] # "unborn"
    BY <1>1, <1>4 DEF RInv, Known
  <2>2. ASSUME NEW k \in Keys, alive[k] = "open",
               k \in exported \/ \E y \in Labels : labels'[y] = k
        PROVE  registry'[k] # None
    <3>1. CASE k = a
      BY <3>1, <1>3
    <3>2. CASE k # a
      <4>1. k \in exported \/ \E y \in Labels : labels[y] = k
        BY <2>2, <3>2, <1>4
      <4> QED BY <2>2, <3>2, <4>1, <1>3 DEF RInv, Known
    <3> QED BY <3>1, <3>2
  <2> QED BY <1>1, <2>1, <2>2 DEF RInv, Known
<1>8. Creating'
  BY <1>1 DEF Creating, idle
<1>9. Tasks'
  BY <1>1 DEF RInv, Tasks
<1>10. OneLabel'
  <2>1. alive[a] # "closed" => \A y \in Labels : labels[y] # a
    BY <1>1, <1>2 DEF RInv, Known, TypeOK
  <2> QED BY <1>1, <1>4, <2>1 DEF RInv, OneLabel
<1> QED BY <1>5, <1>6, <1>7, <1>8, <1>9, <1>10 DEF RInv

\* RemoveActor, by index or by label: no label of the living actor is left.
LEMMA RemoveStep ==
  ASSUME RInv, NEW k \in Keys, mgr = idle, remove(k),
         labels' \in [Labels -> Actors \cup {None}],
         \A x \in Labels : labels'[x] = labels[x] \/ labels'[x] = None,
         \A x \in Labels : alive[k] = "open" => labels'[x] # k
  PROVE  RInv'
<1>1. /\ registry' = [registry EXCEPT ![k] = None]
      /\ exported' = exported \ {k} /\ removed' = removed \cup {k}
      /\ UNCHANGED <<alive, mgr, task, reads, raw, holding, inbox, handled, sending, last>>
  BY DEF remove, taskVars, sessionVars
<1>2. /\ registry' \in [Keys -> Mailboxes \cup {None}] /\ registry'[k] = None
      /\ \A j \in Keys \ {k} : registry'[j] = registry[j]
  BY <1>1 DEF RInv, TypeOK
<1>3. TypeOK'
  BY <1>1, <1>2 DEF RInv, TypeOK
<1>4. Entries'
  BY <1>1, <1>2 DEF RInv, Entries
<1>5. Known'
  <2>1. \A x \in Labels : labels'[x] # None => alive[labels'[x]] # "unborn"
    BY DEF RInv, Known
  <2>2. ASSUME NEW j \in Keys, alive[j] = "open",
               j \in exported' \/ \E x \in Labels : labels'[x] = j
        PROVE  registry'[j] # None
    <3>1. j # k /\ j # None
      BY <1>1, <2>2, RegistryAssumption
    <3>2. j \in exported \/ \E x \in Labels : labels[x] = j
      BY <1>1, <2>2, <3>1
    <3> QED BY <2>2, <3>1, <3>2, <1>2 DEF RInv, Known
  <2> QED BY <1>1, <2>1, <2>2 DEF RInv, Known
<1>6. Creating'
  BY <1>1 DEF Creating, idle
<1>7. Tasks'
  BY <1>1 DEF RInv, Tasks
<1>8. OneLabel'
  BY <1>1 DEF RInv, OneLabel
<1> QED BY <1>3, <1>4, <1>5, <1>6, <1>7, <1>8 DEF RInv

LEMMA RemoveIndexStep == ASSUME RInv, NEW k \in Keys, RemoveIndex(k) PROVE RInv'
<1>1. k # None
  BY RegistryAssumption
<1>2. /\ mgr = idle /\ remove(k)
      /\ labels' = [x \in Labels |-> IF labels[x] = k THEN None ELSE labels[x]]
  BY DEF RemoveIndex
<1>3. /\ labels' \in [Labels -> Actors \cup {None}]
      /\ \A x \in Labels : labels'[x] = labels[x] \/ labels'[x] = None
      /\ \A x \in Labels : labels'[x] # k
  BY <1>1, <1>2 DEF RInv, TypeOK
<1> QED BY <1>2, <1>3, RemoveStep

LEMMA RemoveLabelStep == ASSUME RInv, NEW x \in Labels, RemoveLabel(x) PROVE RInv'
<1> DEFINE k == labels[x]
<1>1. /\ mgr = idle /\ remove(k) /\ k # None
      /\ labels' = [labels EXCEPT ![x] = None]
  BY DEF RemoveLabel
<1>2. k \in Keys
  BY <1>1 DEF RInv, TypeOK, Keys
<1>3. /\ labels' \in [Labels -> Actors \cup {None}]
      /\ \A y \in Labels : labels'[y] = labels[y] \/ labels'[y] = None
  BY <1>1 DEF RInv, TypeOK
<1>4. \A y \in Labels : alive[k] = "open" => labels'[y] # k
  BY <1>1 DEF RInv, TypeOK, OneLabel
<1> HIDE DEF k
<1> QED BY <1>1, <1>2, <1>3, <1>4, RemoveStep

LEMMA EncodeAddressStep == ASSUME RInv, NEW a \in Actors, EncodeAddress(a) PROVE RInv'
<1>1. /\ alive[a] # "unborn" /\ registry' = insert(a, a)
      /\ exported' = exported \cup {a}
      /\ UNCHANGED <<alive, labels, mgr, task, reads, raw, holding, inbox, handled,
                     sending, last, removed>>
  BY DEF EncodeAddress, registered, mgrVars, taskVars, sessionVars
<1>2. a \in Keys /\ a \in Mailboxes
  BY DEF Keys, Mailboxes
<1>3. /\ registry' \in [Keys -> Mailboxes \cup {None}]
      /\ \A j \in Keys \ {a} : registry'[j] = registry[j]
      /\ registry[a] = None => registry'[a] = a
      /\ registry[a] # None => registry'[a] = registry[a]
      /\ registry'[a] # None
  BY <1>1, <1>2, Inserted
<1>4. TypeOK'
  BY <1>1, <1>2, <1>3 DEF RInv, TypeOK
<1>5. Entries'
  BY <1>1, <1>3, RegistryAssumption DEF RInv, Entries
<1>6. Known'
  BY <1>1, <1>3 DEF RInv, Known
<1>7. Creating' /\ Tasks' /\ OneLabel'
  BY <1>1 DEF RInv, Creating, Tasks, OneLabel
<1> QED BY <1>4, <1>5, <1>6, <1>7 DEF RInv

LEMMA EncodeRecipientStep ==
  ASSUME RInv, NEW c \in Recipients, NEW f \in Forwarders, EncodeRecipient(c, f)
  PROVE  RInv'
<1>1. /\ \A k \in Keys : registry[k] # f
      /\ task' = [task EXCEPT ![f] = "recv"] /\ reads' = [reads EXCEPT ![f] = c]
      /\ raw' = [raw EXCEPT ![f] = <<>>] /\ registry' = insert(c, f)
      /\ exported' = exported \cup {c}
      /\ UNCHANGED <<alive, labels, mgr, holding, inbox, handled, sending, last, removed>>
  BY DEF EncodeRecipient, referenced, registered, mgrVars, sessionVars
<1>2. c \in Keys /\ f \in Mailboxes /\ c \notin Actors
  BY RegistryAssumption DEF Keys, Mailboxes
<1>3. /\ registry' \in [Keys -> Mailboxes \cup {None}]
      /\ \A j \in Keys \ {c} : registry'[j] = registry[j]
      /\ registry[c] = None => registry'[c] = f
      /\ registry[c] # None => registry'[c] = registry[c]
      /\ registry'[c] # None
  BY <1>1, <1>2, Inserted
<1>4. /\ task' \in [Forwarders -> {"unused", "recv", "send", "ended"}]
      /\ reads' \in [Forwarders -> Recipients \cup {None}]
      /\ raw' \in [Forwarders -> Seq(Messages)]
      /\ task'[f] = "recv" /\ reads'[f] = c
      /\ \A g \in Forwarders \ {f} : task'[g] = task[g] /\ reads'[g] = reads[g]
  BY <1>1 DEF RInv, TypeOK
<1>5. TypeOK'
  BY <1>1, <1>2, <1>3, <1>4 DEF RInv, TypeOK
<1>6. Entries'
  <2> SUFFICES ASSUME NEW k \in Keys, registry'[k] # None
               PROVE  /\ k \in Actors => registry'[k] = k
                      /\ k \in Recipients => /\ registry'[k] \in Forwarders
                                             /\ reads'[registry'[k]] = k
                                             /\ task'[registry'[k]] # "unused"
                                             /\ task'[registry'[k]] = "ended" => alive[k] = "closed"
    BY <1>1 DEF Entries
  <2>1. CASE k = c /\ registry[c] = None
    BY <2>1, <1>2, <1>3, <1>4
  <2>2. CASE registry'[k] = registry[k]
    BY <2>2, <1>1, <1>4 DEF RInv, Entries
  <2> QED BY <2>1, <2>2, <1>3
<1>7. Known'
  BY <1>1, <1>3 DEF RInv, Known
<1>8. Creating' /\ OneLabel'
  BY <1>1 DEF RInv, Creating, OneLabel
<1>9. Tasks'
  BY <1>1, <1>4 DEF RInv, Tasks
<1> QED BY <1>5, <1>6, <1>7, <1>8, <1>9 DEF RInv

LEMMA FindMailboxStep == ASSUME RInv, NEW k \in Keys, FindMailbox(k) PROVE RInv'
<1>1. /\ handled < MaxMessages /\ handled' = handled + 1
      /\ sending' = IF get(k) \in Forwarders THEN get(k) ELSE None
      /\ UNCHANGED <<alive, labels, mgr, task, reads, raw, holding, inbox,
                     last, exported, removed>>
  BY DEF FindMailbox, mgrVars, taskVars, history
<1>2. forgets
  BY GetForgets DEF FindMailbox
<1>3. handled' \in Messages /\ handled' \in 0 .. MaxMessages
  BY <1>1, RegistryAssumption DEF RInv, TypeOK, Messages
<1>4. TypeOK'
  BY <1>1, <1>2, <1>3 DEF RInv, TypeOK, forgets
<1>5. Entries' /\ Known'
  BY <1>1, <1>2, ForgetsEntries, ForgetsKnown
<1>6. Creating' /\ OneLabel'
  BY <1>1 DEF RInv, Creating, OneLabel
<1>7. Tasks'
  BY <1>1, <1>3 DEF RInv, Tasks
<1> QED BY <1>4, <1>5, <1>6, <1>7 DEF RInv

LEMMA ForwardStep == ASSUME RInv, Forward PROVE RInv'
<1>1. /\ sending # None /\ raw' = [raw EXCEPT ![sending] = Append(@, handled)]
      /\ sending' = None
      /\ UNCHANGED <<alive, registry, labels, mgr, task, reads, holding, inbox, handled,
                     last, exported, removed>>
  BY DEF Forward, mgrVars, history
<1>2. sending \in Forwarders /\ handled \in Messages
  BY <1>1 DEF RInv, TypeOK, Tasks
<1>3. raw' \in [Forwarders -> Seq(Messages)]
  BY <1>1, <1>2 DEF RInv, TypeOK
<1>4. TypeOK'
  BY <1>1, <1>3 DEF RInv, TypeOK
<1>5. Entries' /\ Known' /\ Creating' /\ OneLabel' /\ Tasks'
  BY <1>1 DEF RInv, Entries, Known, Creating, OneLabel, Tasks
<1> QED BY <1>4, <1>5 DEF RInv

LEMMA ForwardFailStep == ASSUME RInv, ForwardFail PROVE RInv'
<1>1. /\ sending' = None
      /\ UNCHANGED <<alive, registry, labels, mgr, task, reads, raw, holding, inbox, handled,
                     last, exported, removed>>
  BY DEF ForwardFail, mgrVars, taskVars, history
<1>2. TypeOK'
  BY <1>1 DEF RInv, TypeOK
<1>3. Entries' /\ Known' /\ Creating' /\ OneLabel' /\ Tasks'
  <2>1. Entries' /\ Known'
    BY <1>1 DEF RInv, Entries, Known
  <2>2. Creating' /\ OneLabel' /\ Tasks'
    BY <1>1 DEF RInv, Creating, OneLabel, Tasks
  <2> QED BY <2>1, <2>2
<1> QED BY <1>2, <1>3 DEF RInv

\* The steps of a task change neither the registry nor the labels.
LEMMA TaskStep ==
  ASSUME RInv, NEW f \in Forwarders, active(f),
         task' \in [Forwarders -> {"unused", "recv", "send", "ended"}],
         \A g \in Forwarders \ {f} : task'[g] = task[g],
         task'[f] # "unused",
         task'[f] = "ended" => \/ alive[reads[f]] = "closed"
                               \/ \A k \in Keys : registry[k] # f,
         UNCHANGED <<alive, registry, labels, mgr, reads, exported>>
  PROVE  Entries' /\ Known' /\ Creating' /\ OneLabel'
<1>1. Entries'
  <2> SUFFICES ASSUME NEW k \in Recipients, k \in Keys, registry[k] # None
               PROVE  /\ task'[registry[k]] # "unused"
                      /\ task'[registry[k]] = "ended" => alive[k] = "closed"
    BY DEF RInv, Entries
  <2>1. registry[k] \in Forwarders /\ reads[registry[k]] = k
    BY DEF RInv, Entries
  <2>2. CASE registry[k] = f
    BY <2>1, <2>2
  <2>3. CASE registry[k] # f
    BY <2>1, <2>3 DEF RInv, Entries
  <2> QED BY <2>2, <2>3
<1>2. Known' /\ Creating' /\ OneLabel'
  BY DEF RInv, Known, Creating, OneLabel
<1> QED BY <1>1, <1>2

LEMMA TaskRecvStep == ASSUME RInv, NEW f \in Forwarders, TaskRecv(f) PROVE RInv'
<1>1. /\ task[f] = "recv" /\ raw[f] # <<>> /\ raw' = [raw EXCEPT ![f] = Tail(@)]
      /\ \/ /\ task' = [task EXCEPT ![f] = "send"]
            /\ holding' = [holding EXCEPT ![f] = Head(raw[f])]
         \/ UNCHANGED <<task, holding>>
      /\ UNCHANGED <<alive, registry, labels, mgr, reads, inbox, handled, sending,
                     last, exported, removed>>
  BY DEF TaskRecv, mgrVars, sessionVars, history
<1>2. raw[f] \in Seq(Messages) /\ Tail(raw[f]) \in Seq(Messages) /\ Head(raw[f]) \in Messages
  BY <1>1 DEF RInv, TypeOK
<1>3. /\ raw' \in [Forwarders -> Seq(Messages)]
      /\ holding' \in [Forwarders -> Messages \cup {0}]
      /\ task' \in [Forwarders -> {"unused", "recv", "send", "ended"}]
  <2>1. raw' \in [Forwarders -> Seq(Messages)]
    BY <1>1, <1>2 DEF RInv, TypeOK
  <2>2. /\ holding' \in [Forwarders -> Messages \cup {0}]
        /\ task' \in [Forwarders -> {"unused", "recv", "send", "ended"}]
    <3>1. CASE UNCHANGED <<task, holding>>
      BY <3>1 DEF RInv, TypeOK
    <3>2. CASE /\ task' = [task EXCEPT ![f] = "send"]
               /\ holding' = [holding EXCEPT ![f] = Head(raw[f])]
      BY <3>2, <1>2 DEF RInv, TypeOK
    <3> QED BY <3>1, <3>2, <1>1
  <2> QED BY <2>1, <2>2
<1>4. TypeOK'
  BY <1>1, <1>3 DEF RInv, TypeOK
<1>5. /\ \A g \in Forwarders \ {f} : task'[g] = task[g] /\ holding'[g] = holding[g]
      /\ task'[f] \in {"recv", "send"}
      /\ task'[f] = "send" => holding'[f] \in Messages
  BY <1>1, <1>2, SMTT(20) DEF RInv, TypeOK
<1>6. Entries' /\ Known' /\ Creating' /\ OneLabel'
  BY <1>1, <1>3, <1>5, TaskStep DEF active
<1>7. Tasks'
  BY <1>1, <1>5 DEF RInv, Tasks
<1> QED BY <1>4, <1>6, <1>7 DEF RInv

LEMMA TaskSendStep == ASSUME RInv, NEW f \in Forwarders, TaskSend(f) PROVE RInv'
<1> DEFINE c == reads[f]
<1>1. /\ task[f] = "send" /\ inbox' = [inbox EXCEPT ![c] = Append(@, holding[f])]
      /\ last' = [last EXCEPT ![c] = holding[f]]
      /\ task' = [task EXCEPT ![f] = "recv"] /\ holding' = [holding EXCEPT ![f] = 0]
      /\ UNCHANGED <<alive, registry, labels, mgr, reads, raw, handled, sending,
                     exported, removed>>
  BY DEF TaskSend, mgrVars, sessionVars
<1>2. c \in Recipients /\ holding[f] \in Messages /\ holding[f] \in Nat
  BY <1>1 DEF RInv, Tasks, Messages
<1> HIDE DEF c
<1>3. /\ inbox' \in [Recipients -> Seq(Messages)] /\ last' \in [Recipients -> Nat]
      /\ holding' \in [Forwarders -> Messages \cup {0}]
      /\ task' \in [Forwarders -> {"unused", "recv", "send", "ended"}]
  BY <1>1, <1>2 DEF RInv, TypeOK
<1>4. TypeOK'
  BY <1>1, <1>3 DEF RInv, TypeOK
<1>5. /\ \A g \in Forwarders \ {f} : task'[g] = task[g] /\ holding'[g] = holding[g]
      /\ task'[f] = "recv"
  BY <1>1 DEF RInv, TypeOK
<1>6. Entries' /\ Known' /\ Creating' /\ OneLabel'
  BY <1>1, <1>3, <1>5, TaskStep DEF active
<1>7. Tasks'
  BY <1>1, <1>5 DEF RInv, Tasks
<1> QED BY <1>4, <1>6, <1>7 DEF RInv

LEMMA TaskEndStep == ASSUME RInv, NEW f \in Forwarders, TaskEnd(f) PROVE RInv'
<1>1. /\ active(f)
      /\ alive[reads[f]] = "closed" \/ \A k \in Keys : registry[k] # f
      /\ task' = [task EXCEPT ![f] = "ended"]
      /\ raw' = [raw EXCEPT ![f] = <<>>] /\ holding' = [holding EXCEPT ![f] = 0]
      /\ UNCHANGED <<alive, registry, labels, mgr, reads, inbox, handled, sending,
                     last, exported, removed>>
  BY DEF TaskEnd, endTask, referenced, mgrVars, sessionVars, history
<1>2. /\ raw' \in [Forwarders -> Seq(Messages)]
      /\ holding' \in [Forwarders -> Messages \cup {0}]
      /\ task' \in [Forwarders -> {"unused", "recv", "send", "ended"}]
  BY <1>1 DEF RInv, TypeOK
<1>3. TypeOK'
  BY <1>1, <1>2 DEF RInv, TypeOK
<1>4. /\ \A g \in Forwarders \ {f} : task'[g] = task[g] /\ holding'[g] = holding[g]
      /\ task'[f] = "ended" /\ task[f] # "unused"
  BY <1>1 DEF RInv, TypeOK, active
<1>5. Entries' /\ Known' /\ Creating' /\ OneLabel'
  BY <1>1, <1>2, <1>4, TaskStep
<1>6. Tasks'
  BY <1>1, <1>4 DEF RInv, Tasks
<1> QED BY <1>3, <1>5, <1>6 DEF RInv

LEMMA ReceiveStep == ASSUME RInv, NEW c \in Recipients, Receive(c) PROVE RInv'
<1>1. /\ inbox[c] # <<>> /\ inbox' = [inbox EXCEPT ![c] = Tail(@)]
      /\ UNCHANGED <<alive, registry, labels, mgr, task, reads, raw, holding, handled,
                     sending, last, exported, removed>>
  BY DEF Receive, mgrVars, taskVars, sessionVars, history
<1>2. inbox' \in [Recipients -> Seq(Messages)]
  BY <1>1 DEF RInv, TypeOK
<1>3. TypeOK'
  BY <1>1, <1>2 DEF RInv, TypeOK
<1>4. Entries' /\ Known' /\ Creating' /\ OneLabel' /\ Tasks'
  BY <1>1 DEF RInv, Entries, Known, Creating, OneLabel, Tasks
<1> QED BY <1>3, <1>4 DEF RInv

LEMMA StopStep == ASSUME RInv, NEW k \in Keys, Stop(k) PROVE RInv'
<1>1. /\ alive[k] = "open" /\ alive' = [alive EXCEPT ![k] = "closed"]
      /\ inbox' = [c \in Recipients |-> IF c = k THEN <<>> ELSE inbox[c]]
      /\ UNCHANGED <<registry, labels, mgr, task, reads, raw, holding, handled,
                     sending, last, exported, removed>>
  BY DEF Stop, mgrVars, taskVars, sessionVars, history
<1>2. /\ inbox' \in [Recipients -> Seq(Messages)]
      /\ alive' \in [Keys -> {"unborn", "open", "closed"}]
      /\ alive'[k] = "closed" /\ \A j \in Keys \ {k} : alive'[j] = alive[j]
  BY <1>1 DEF RInv, TypeOK
<1>3. TypeOK'
  BY <1>1, <1>2 DEF RInv, TypeOK
<1>4. Entries'
  BY <1>1, <1>2 DEF RInv, Entries
<1>5. \A x \in Labels : labels[x] # None => labels[x] \in Keys
  BY DEF RInv, TypeOK, Keys
<1>6. exported \in SUBSET Keys
  BY DEF RInv, TypeOK
<1>7. Known'
  BY <1>1, <1>2, <1>5, <1>6 DEF RInv, Known
<1>8. Creating'
  BY <1>1, <1>2 DEF RInv, Creating, Keys
<1>9. Tasks'
  BY <1>1 DEF RInv, Tasks
<1>10. OneLabel'
  BY <1>1, <1>2, <1>5 DEF RInv, OneLabel
<1> QED BY <1>3, <1>4, <1>7, <1>8, <1>9, <1>10 DEF RInv

LEMMA RStep == RInv /\ [Next]_vars => RInv'
<1> SUFFICES ASSUME RInv, [Next]_vars PROVE RInv'
  OBVIOUS
<1>1. CASE MgrNext
  BY <1>1, SweepStep, SweepLabelsStep, FactoryOkStep, FactoryFailStep, CreateDoneStep
  DEF MgrNext
<1>2. CASE CommandNext
  BY <1>2, CreateActorStep, GetActorStep, RemoveLabelStep, AddActorStep, RemoveIndexStep
  DEF CommandNext
<1>3. CASE SessionNext
  BY <1>3, ForwardStep, ForwardFailStep, FindMailboxStep, EncodeAddressStep,
     EncodeRecipientStep
  DEF SessionNext
<1>4. CASE \E f \in Forwarders : TaskNext(f)
  BY <1>4, TaskRecvStep, TaskSendStep, TaskEndStep DEF TaskNext
<1>5. CASE \E c \in Recipients : Receive(c)
  BY <1>5, ReceiveStep
<1>6. CASE \E k \in Keys : Stop(k)
  BY <1>6, StopStep
<1>7. CASE UNCHANGED vars
  BY <1>7 DEF vars, RInv, TypeOK, Entries, Known, Creating, Tasks, OneLabel
<1> QED BY <1>1, <1>2, <1>3, <1>4, <1>5, <1>6, <1>7 DEF Next

-----------------------------------------------------------------------------
(* The order of the messages.                                               *)

LEMMA RawNumbers ==
  ASSUME RInv, NEW f \in Forwarders
  PROVE  /\ raw[f] \in Seq(Messages) /\ Len(raw[f]) \in Nat /\ holding[f] \in Nat
         /\ \A i \in 1 .. Len(raw[f]) : raw[f][i] \in Nat
<1>1. raw[f] \in Seq(Messages) /\ holding[f] \in Messages \cup {0}
  BY DEF RInv, TypeOK
<1>2. \A i \in 1 .. Len(raw[f]) : raw[f][i] \in Messages
  BY <1>1
<1>3. \A m \in Messages : m \in Nat
  BY DEF Messages
<1> QED BY <1>1, <1>2, <1>3

LEMMA OrderInit == Init => OrderInv
<1> SUFFICES ASSUME Init PROVE OrderInv
  OBVIOUS
<1>1. /\ \A f \in Forwarders : task[f] = "unused" /\ raw[f] = <<>>
      /\ \A c \in Recipients : last[c] = 0
      /\ handled = 0 /\ sending = None
  BY DEF Init
<1>2. \A f \in Forwarders : ~active(f) /\ Len(raw[f]) = 0 /\ sending # f
  BY <1>1, RegistryAssumption DEF active
<1>3. \A f \in Forwarders, c \in Recipients : ~feeds(f, c)
  BY <1>2 DEF feeds
<1>4. \A f \in Forwarders : ordered(f)
  BY <1>1, <1>2 DEF ordered
<1> QED BY <1>1, <1>3, <1>4 DEF OrderInv, Fresh, Ordered

\* A step that moves no message and keeps the entries of those that live.
LEMMA QuietOrder ==
  ASSUME OrderInv, UNCHANGED <<task, raw, holding, reads, handled, sending, last>>,
         \A c \in Recipients :
           alive'[c] = "open" /\ c \notin removed' =>
             /\ alive[c] = "open" /\ c \notin removed
             /\ \A f \in Forwarders : registry[c] = f => registry'[c] = f
  PROVE  OrderInv'
<1>1. \A f \in Forwarders, c \in Recipients : feeds(f, c)' => feeds(f, c)
  BY DEF feeds, active
<1>2. Fresh'
  <2> SUFFICES ASSUME NEW f \in Forwarders, NEW c \in Recipients,
                      feeds(f, c)', registry'[c] # f
               PROVE  raw[f] = <<>> /\ task[f] = "recv" /\ sending # f
    BY ZenonT(60) DEF Fresh
  <2>1. feeds(f, c) /\ registry[c] # f
    BY <1>1 DEF feeds
  <2> QED BY <2>1 DEF OrderInv, Fresh
<1>3. \A f \in Forwarders : ordered(f) => ordered(f)'
  BY DEF ordered
<1>4. \A f \in Forwarders, c \in Recipients : newer(f, c) => newer(f, c)'
  BY DEF newer
<1>5. Ordered'
  BY <1>1, <1>3, <1>4, Zenon DEF OrderInv, Ordered
<1> QED BY <1>2, <1>5 DEF OrderInv

LEMMA ForgetsOrder ==
  ASSUME OrderInv, forgets,
         UNCHANGED <<alive, removed, task, raw, holding, reads, handled, sending, last>>
  PROVE  OrderInv'
<1>1. \A c \in Recipients : alive[c] = "open" => registry'[c] = registry[c]
  BY DEF forgets, Keys
<1> QED BY <1>1, QuietOrder

LEMMA InsertOrder ==
  ASSUME RInv, OrderInv, NEW a \in Actors, registry' = insert(a, a),
         UNCHANGED <<alive, removed, task, raw, holding, reads, handled, sending, last>>
  PROVE  OrderInv'
<1>1. \A c \in Recipients : c \in Keys /\ c # a
  BY RegistryAssumption DEF Keys
<1>2. \A c \in Recipients : registry'[c] = registry[c]
  BY <1>1 DEF insert, RInv, TypeOK
<1> QED BY <1>2, QuietOrder, Zenon

LEMMA MgrOrder == ASSUME RInv, OrderInv, MgrNext PROVE OrderInv'
<1>1. CASE Sweep
  BY <1>1, SweepForgets, ForgetsOrder DEF Sweep, taskVars, sessionVars, history
<1>2. CASE SweepLabels
  BY <1>2, GetForgets, ForgetsOrder, Zenon DEF SweepLabels, taskVars, sessionVars, history
<1>3. CASE FactoryOk
  <2>1. mgr.actor \in Actors
    BY <1>3 DEF FactoryOk, RInv, Creating
  <2>2. \A c \in Recipients : alive'[c] = alive[c]
    BY <1>3, <2>1, RegistryAssumption DEF FactoryOk, RInv, TypeOK, Keys
  <2> QED BY <1>3, <2>2, QuietOrder DEF FactoryOk, taskVars, sessionVars, history
<1>4. CASE FactoryFail
  BY <1>4, QuietOrder, Zenon DEF FactoryFail, taskVars, sessionVars, history
<1>5. CASE CreateDone
  <2>1. mgr.actor \in Actors
    BY <1>5 DEF CreateDone, RInv, Creating
  <2> QED BY <1>5, <2>1, InsertOrder DEF CreateDone, taskVars, sessionVars, history
<1> QED BY <1>1, <1>2, <1>3, <1>4, <1>5 DEF MgrNext

LEMMA RemoveOrder == ASSUME RInv, OrderInv, NEW k \in Keys, remove(k) PROVE OrderInv'
<1>1. \A c \in Recipients : c # k => registry'[c] = registry[c]
  BY DEF remove, RInv, TypeOK, Keys
<1>2. /\ removed' = removed \cup {k}
      /\ UNCHANGED <<alive, task, raw, holding, reads, handled, sending, last>>
  BY DEF remove, taskVars, sessionVars
<1> QED BY <1>1, <1>2, QuietOrder

LEMMA CommandOrder == ASSUME RInv, OrderInv, CommandNext PROVE OrderInv'
<1>1. CASE \E x \in Labels : CreateActor(x)
  BY <1>1, QuietOrder DEF CreateActor, taskVars, sessionVars, history
<1>2. CASE \E x \in Labels : GetActor(x)
  BY <1>2, GetForgets, ForgetsOrder DEF GetActor, taskVars, sessionVars, history
<1>3. CASE \E x \in Labels : RemoveLabel(x)
  <2>1. PICK x \in Labels : labels[x] # None /\ remove(labels[x])
    BY <1>3 DEF RemoveLabel
  <2>2. labels[x] \in Keys
    BY <2>1 DEF RInv, TypeOK, Keys
  <2> QED BY <2>1, <2>2, RemoveOrder
<1>4. CASE \E x \in Labels : \E a \in Actors : AddActor(x, a)
  BY <1>4, InsertOrder DEF AddActor, taskVars, sessionVars, history
<1>5. CASE \E k \in Keys : RemoveIndex(k)
  BY <1>5, RemoveOrder DEF RemoveIndex
<1> QED BY <1>1, <1>2, <1>3, <1>4, <1>5, ZenonT(60) DEF CommandNext

LEMMA EncodeRecipientOrder ==
  ASSUME RInv, OrderInv, NEW c \in Recipients, NEW f \in Forwarders, EncodeRecipient(c, f)
  PROVE  OrderInv'
<1>1. /\ sending # f
      /\ task' = [task EXCEPT ![f] = "recv"] /\ reads' = [reads EXCEPT ![f] = c]
      /\ raw' = [raw EXCEPT ![f] = <<>>] /\ registry' = insert(c, f)
      /\ UNCHANGED <<alive, holding, handled, sending, last, removed>>
  BY DEF EncodeRecipient, referenced, registered, mgrVars, sessionVars
<1>2. /\ task'[f] = "recv" /\ raw'[f] = <<>> /\ Len(raw'[f]) = 0
      /\ \A g \in Forwarders \ {f} :
           task'[g] = task[g] /\ reads'[g] = reads[g] /\ raw'[g] = raw[g]
  BY <1>1 DEF RInv, TypeOK
<1>3. \A g \in Forwarders \ {f}, d \in Recipients : registry[d] = g => registry'[d] = g
  BY <1>1, RegistryAssumption DEF insert, RInv, TypeOK, Keys
<1>4. Fresh'
  <2> SUFFICES ASSUME NEW g \in Forwarders, NEW d \in Recipients,
                      feeds(g, d)', registry'[d] # g, g # f
               PROVE  raw[g] = <<>> /\ task[g] = "recv" /\ sending # g
    BY <1>1, <1>2 DEF Fresh
  <2>1. feeds(g, d) /\ registry[d] # g
    BY <1>1, <1>2, <1>3, Zenon DEF feeds, active
  <2> QED BY <2>1 DEF OrderInv, Fresh
<1>5. ASSUME NEW g \in Forwarders
      PROVE  ordered(g)' /\ \A d \in Recipients : feeds(g, d)' => newer(g, d)'
  <2>1. CASE g = f
    BY <2>1, <1>1, <1>2 DEF ordered, newer
  <2>2. CASE g # f
    <3>1. ordered(g) => ordered(g)'
      BY <2>2, <1>1, <1>2 DEF ordered
    <3>2. \A d \in Recipients : feeds(g, d)' => feeds(g, d)
      BY <2>2, <1>1, <1>2 DEF feeds, active
    <3>3. \A d \in Recipients : newer(g, d) => newer(g, d)'
      BY <2>2, <1>1, <1>2 DEF newer
    <3> QED BY <3>1, <3>2, <3>3 DEF OrderInv, Ordered
  <2> QED BY <2>1, <2>2
<1> QED BY <1>1, <1>4, <1>5 DEF OrderInv, Ordered

LEMMA FindMailboxOrder == ASSUME RInv, OrderInv, NEW k \in Keys, FindMailbox(k) PROVE OrderInv'
<1>1. /\ handled' = handled + 1 /\ handled \in Nat
      /\ sending' = IF get(k) \in Forwarders THEN get(k) ELSE None
      /\ UNCHANGED <<alive, removed, task, reads, raw, holding, last>>
  BY DEF FindMailbox, taskVars, history, RInv, TypeOK
<1>2. forgets
  BY GetForgets DEF FindMailbox
<1>3. \A f \in Forwarders, c \in Recipients : feeds(f, c)' => feeds(f, c)
  BY <1>1 DEF feeds, active
<1>4. Fresh'
  <2> SUFFICES ASSUME NEW f \in Forwarders, NEW c \in Recipients,
                      feeds(f, c)', registry'[c] # f
               PROVE  raw[f] = <<>> /\ task[f] = "recv" /\ sending' # f
    BY <1>1, SMTT(30) DEF Fresh
  <2>1. feeds(f, c) /\ registry'[c] = registry[c]
    BY <1>2, <1>3 DEF forgets, Keys, feeds
  <2>2. raw[f] = <<>> /\ task[f] = "recv"
    BY <2>1 DEF OrderInv, Fresh
  <2>3. ASSUME sending' = f PROVE FALSE
    <3>1. registry[k] = f
      BY <2>3, <1>1, RegistryAssumption DEF get
    <3>2. k \in Recipients
      BY <3>1, RegistryAssumption DEF RInv, Entries, Keys
    <3>3. reads[f] = k
      BY <3>1, <3>2, RegistryAssumption DEF RInv, Entries
    <3> QED BY <2>1, <3>1, <3>3, Zenon DEF feeds
  <2> QED BY <2>2, <2>3
<1>5. ASSUME NEW f \in Forwarders, ordered(f) PROVE ordered(f)'
  <2>1. holding[f] \in Nat /\ \A i \in 1 .. Len(raw[f]) : raw[f][i] \in Nat
    BY RawNumbers
  <2> QED BY <1>1, <1>5, <2>1, SMTT(20) DEF ordered
<1>6. ASSUME NEW f \in Forwarders, NEW c \in Recipients, newer(f, c) PROVE newer(f, c)'
  <2>1. last[c] \in Nat /\ last[c] <= handled
    BY DEF OrderInv, RInv, TypeOK
  <2> QED BY <1>1, <1>6, <2>1 DEF newer
<1>7. \A c \in Recipients : last'[c] <= handled'
  BY <1>1 DEF OrderInv, RInv, TypeOK
<1>8. Ordered'
  BY <1>3, <1>5, <1>6 DEF OrderInv, Ordered
<1> QED BY <1>4, <1>7, <1>8 DEF OrderInv

LEMMA ForwardOrder == ASSUME RInv, OrderInv, Forward PROVE OrderInv'
<1>0. PICK s \in Forwarders : s = sending
  BY DEF Forward, RInv, TypeOK
<1>1. /\ s # None /\ raw' = [raw EXCEPT ![s] = Append(@, handled)] /\ sending' = None
      /\ UNCHANGED <<alive, registry, removed, task, reads, holding, handled, last>>
  BY <1>0 DEF Forward, history
<1>2. s \in Forwarders /\ handled \in Messages
  BY <1>0, <1>1 DEF RInv, TypeOK, Tasks
<1>3. /\ raw'[s] = Append(raw[s], handled) /\ raw[s] \in Seq(Messages)
      /\ \A f \in Forwarders \ {s} : raw'[f] = raw[f]
  BY <1>1, <1>2 DEF RInv, TypeOK
<1>4. /\ Len(raw'[s]) = Len(raw[s]) + 1 /\ Len(raw[s]) \in Nat
      /\ \A i \in 1 .. Len(raw[s]) : raw'[s][i] = raw[s][i] /\ raw[s][i] \in Nat
      /\ raw'[s][Len(raw[s]) + 1] = handled
      /\ handled \in Nat
  <2>1. handled \in Nat
    BY <1>2 DEF Messages
  <2>2. Len(raw[s]) \in Nat /\ \A i \in 1 .. Len(raw[s]) : raw[s][i] \in Nat
    BY <1>2, RawNumbers
  <2> QED BY <1>2, <1>3, <2>1, <2>2
<1>5. \A f \in Forwarders, c \in Recipients : feeds(f, c)' <=> feeds(f, c)
  BY <1>1 DEF feeds, active
<1>6. Fresh'
  <2> SUFFICES ASSUME NEW f \in Forwarders, NEW c \in Recipients,
                      feeds(f, c), registry[c] # f
               PROVE  raw'[f] = <<>> /\ task[f] = "recv" /\ sending' # f
    BY <1>1, <1>5 DEF Fresh
  <2>1. raw[f] = <<>> /\ task[f] = "recv" /\ f # s
    BY <1>0 DEF OrderInv, Fresh
  <2> QED BY <1>1, <1>3, <2>1, RegistryAssumption
<1>7. ASSUME NEW f \in Forwarders
      PROVE  ordered(f)' /\ \A c \in Recipients : feeds(f, c) => newer(f, c)'
  <2>0. sending' # f
    BY <1>1, RegistryAssumption
  <2>1. CASE f # s
    <3>1. ordered(f) => ordered(f)'
      BY <2>0, <2>1, <1>1, <1>3 DEF ordered
    <3>2. \A c \in Recipients : newer(f, c) => newer(f, c)'
      BY <2>0, <2>1, <1>1, <1>3 DEF newer
    <3> QED BY <3>1, <3>2 DEF OrderInv, Ordered
  <2>2. CASE f = s
    <3>1. ordered(s)
      BY <1>2 DEF OrderInv, Ordered
    <3>2. /\ \A i \in 1 .. Len(raw[s]) : /\ raw[s][i] < handled
                                         /\ task[s] = "send" => holding[s] < raw[s][i]
          /\ \A i, j \in 1 .. Len(raw[s]) : i < j => raw[s][i] < raw[s][j]
          /\ task[s] = "send" => holding[s] < handled
      BY <1>0, <3>1 DEF ordered
    <3>3. holding[s] \in Nat
      BY <1>2, RawNumbers
    <3>4. ordered(s)'
      <4>1. ASSUME NEW i \in 1 .. Len(raw'[s])
            PROVE  /\ raw'[s][i] <= handled
                   /\ task[s] = "send" => holding[s] < raw'[s][i]
                   /\ \A j \in 1 .. Len(raw'[s]) : i < j => raw'[s][i] < raw'[s][j]
        <5>1. CASE i = Len(raw[s]) + 1
          <6>1. \A j \in 1 .. Len(raw'[s]) : ~(i < j)
            BY <5>1, <1>4
          <6>2. raw'[s][i] = handled
            BY <5>1, <1>4
          <6>3. handled <= handled /\ (task[s] = "send" => holding[s] < handled)
            BY <1>4, <3>2
          <6> QED BY <6>1, <6>2, <6>3
        <5>2. CASE i \in 1 .. Len(raw[s])
          <6>1. /\ raw'[s][i] = raw[s][i] /\ raw[s][i] < handled
                /\ task[s] = "send" => holding[s] < raw[s][i]
            BY <5>2, <1>4, <3>2
          <6>2. ASSUME NEW j \in 1 .. Len(raw'[s]), i < j PROVE raw'[s][i] < raw'[s][j]
            <7>1. CASE j = Len(raw[s]) + 1
              BY <7>1, <6>1, <1>4
            <7>2. CASE j \in 1 .. Len(raw[s])
              BY <7>2, <5>2, <6>2, <1>4, <3>2
            <7> QED BY <7>1, <7>2, <1>4
          <6> QED BY <6>1, <6>2, <1>4, <5>2
        <5> QED BY <5>1, <5>2, <1>4
      <4> QED BY <1>1, <2>0, <2>2, <3>2, <3>3, <1>4, <4>1 DEF ordered
    <3>5. ASSUME NEW c \in Recipients, feeds(s, c) PROVE newer(s, c)'
      <4>1. newer(s, c)
        BY <1>2, <3>5 DEF OrderInv, Ordered
      <4>2. last[c] < handled
        BY <1>0, <4>1, SMTT(30) DEF newer
      <4>3. \A i \in 1 .. Len(raw'[s]) : last[c] < raw'[s][i]
        BY <1>4, <4>1, <4>2 DEF newer
      <4> QED BY <1>1, <2>0, <2>2, <4>1, <4>3 DEF newer
    <3> QED BY <2>2, <3>4, <3>5
  <2> QED BY <2>1, <2>2
<1> QED BY <1>1, <1>5, <1>6, <1>7 DEF OrderInv, Ordered

LEMMA ForwardFailOrder == ASSUME RInv, OrderInv, ForwardFail PROVE OrderInv'
<1>1. /\ sending' = None
      /\ UNCHANGED <<alive, registry, removed, task, reads, raw, holding, handled, last>>
  BY DEF ForwardFail, taskVars, history
<1>2. \A f \in Forwarders : sending' # f
  BY <1>1, RegistryAssumption
<1>3. \A f \in Forwarders, c \in Recipients : feeds(f, c)' <=> feeds(f, c)
  BY <1>1 DEF feeds, active
<1>4. Fresh'
  BY <1>1, <1>2, <1>3 DEF OrderInv, Fresh
<1>5. \A f \in Forwarders : ordered(f) => ordered(f)'
  BY <1>1, <1>2 DEF ordered
<1>6. \A f \in Forwarders, c \in Recipients : newer(f, c) => newer(f, c)'
  BY <1>1, <1>2 DEF newer
<1> QED BY <1>1, <1>3, <1>4, <1>5, <1>6 DEF OrderInv, Ordered

LEMMA TaskRecvOrder ==
  ASSUME RInv, OrderInv, NEW f \in Forwarders, TaskRecv(f)
  PROVE  OrderInv'
<1>1. /\ task[f] = "recv" /\ raw[f] # <<>> /\ raw' = [raw EXCEPT ![f] = Tail(@)]
      /\ \/ /\ task' = [task EXCEPT ![f] = "send"]
            /\ holding' = [holding EXCEPT ![f] = Head(raw[f])]
         \/ UNCHANGED <<task, holding>>
      /\ UNCHANGED <<alive, registry, removed, reads, handled, sending, last>>
  BY DEF TaskRecv, sessionVars, history
<1>2. /\ \A g \in Forwarders \ {f} :
           raw'[g] = raw[g] /\ task'[g] = task[g] /\ holding'[g] = holding[g]
      /\ raw'[f] = Tail(raw[f]) /\ raw[f] \in Seq(Messages)
      /\ task'[f] = "recv" \/ (task'[f] = "send" /\ holding'[f] = Head(raw[f]))
  <2>1. raw[f] \in Seq(Messages)
    BY RawNumbers
  <2>2. /\ raw'[f] = Tail(raw[f]) /\ \A g \in Forwarders \ {f} : raw'[g] = raw[g]
    BY <1>1 DEF RInv, TypeOK
  <2>3. /\ \A g \in Forwarders \ {f} : task'[g] = task[g] /\ holding'[g] = holding[g]
        /\ task'[f] = "recv" \/ (task'[f] = "send" /\ holding'[f] = Head(raw[f]))
    <3>0. task[f] = "recv"
      BY <1>1
    <3>1. CASE UNCHANGED <<task, holding>>
      BY <3>0, <3>1
    <3>2. CASE /\ task' = [task EXCEPT ![f] = "send"]
               /\ holding' = [holding EXCEPT ![f] = Head(raw[f])]
      <4> DEFINE h == Head(raw[f])
      <4>1. holding' = [holding EXCEPT ![f] = h]
        BY <3>2
      <4> HIDE DEF h
      <4>2. /\ holding'[f] = h /\ \A g \in Forwarders \ {f} : holding'[g] = holding[g]
        BY <4>1 DEF RInv, TypeOK
      <4>3. /\ task'[f] = "send" /\ \A g \in Forwarders \ {f} : task'[g] = task[g]
        BY <3>2 DEF RInv, TypeOK
      <4> QED BY <4>2, <4>3 DEF h
    <3> QED BY <3>1, <3>2, <1>1
  <2> QED BY <2>1, <2>2, <2>3
<1>3. /\ Len(raw[f]) \in Nat \ {0} /\ Len(raw'[f]) = Len(raw[f]) - 1
      /\ Head(raw[f]) = raw[f][1]
      /\ \A i \in 1 .. Len(raw'[f]) : raw'[f][i] = raw[f][i + 1]
  <2> DEFINE q == raw[f]
  <2>1. q \in Seq(Messages) /\ q # <<>>
    BY <1>1, <1>2
  <2> HIDE DEF q
  <2>2. /\ Len(q) \in Nat \ {0} /\ Len(Tail(q)) = Len(q) - 1 /\ Head(q) = q[1]
        /\ \A i \in 1 .. Len(Tail(q)) : Tail(q)[i] = q[i + 1]
    BY <2>1
  <2> QED BY <2>2, <1>2 DEF q
<1>4. \A g \in Forwarders, c \in Recipients : feeds(g, c)' => feeds(g, c)
  BY <1>1, <1>2 DEF feeds, active
<1>5. Fresh'
  <2> SUFFICES ASSUME NEW g \in Forwarders, NEW c \in Recipients,
                      feeds(g, c)', registry[c] # g
               PROVE  raw'[g] = <<>> /\ task'[g] = "recv" /\ sending # g
    BY <1>1 DEF Fresh
  <2>1. raw[g] = <<>> /\ task[g] = "recv" /\ sending # g
    BY <1>4 DEF OrderInv, Fresh
  <2> QED BY <1>1, <1>2, <2>1
<1>6. ASSUME NEW g \in Forwarders
      PROVE  ordered(g)' /\ \A c \in Recipients : feeds(g, c) => newer(g, c)'
  <2>1. CASE g # f
    <3>1. ordered(g) => ordered(g)'
      BY <2>1, <1>1, <1>2 DEF ordered
    <3>2. \A c \in Recipients : newer(g, c) => newer(g, c)'
      BY <2>1, <1>1, <1>2 DEF newer
    <3> QED BY <3>1, <3>2 DEF OrderInv, Ordered
  <2>2. CASE g = f
    <3>1. ordered(f)
      BY DEF OrderInv, Ordered
    <3>2. /\ \A i \in 1 .. Len(raw[f]) : /\ raw[f][i] <= handled
                                         /\ sending = f => raw[f][i] < handled
          /\ \A i, j \in 1 .. Len(raw[f]) : i < j => raw[f][i] < raw[f][j]
      BY <3>1 DEF ordered
    <3>3. 1 \in 1 .. Len(raw[f])
          /\ \A i \in 1 .. Len(raw'[f]) : i + 1 \in 1 .. Len(raw[f]) /\ 1 < i + 1
      BY <1>3
    <3>4. /\ \A i \in 1 .. Len(raw'[f]) : /\ raw'[f][i] <= handled
                                          /\ sending = f => raw'[f][i] < handled
                                          /\ raw[f][1] < raw'[f][i]
          /\ raw[f][1] <= handled
          /\ sending = f => raw[f][1] < handled
      BY <1>3, <3>2, <3>3
    <3>5. \A i, j \in 1 .. Len(raw'[f]) : i < j => raw'[f][i] < raw'[f][j]
      <4> TAKE i, j \in 1 .. Len(raw'[f])
      <4>1. i < j => i + 1 < j + 1
        BY <1>3
      <4> QED BY <4>1, <1>3, <3>2, <3>3
    <3>6. ordered(f)'
      <4>1. /\ handled' = handled /\ sending' = sending
            /\ task'[f] = "send" => holding'[f] = raw[f][1]
        BY <1>1, <1>2, <1>3
      <4> QED BY <4>1, <3>4, <3>5 DEF ordered
    <3>7. ASSUME NEW c \in Recipients, feeds(f, c) PROVE newer(f, c)'
      <4>1. newer(f, c)
        BY <3>7 DEF OrderInv, Ordered
      <4>2. last[c] < raw[f][1] /\ \A i \in 1 .. Len(raw'[f]) : last[c] < raw'[f][i]
        BY <4>1, <1>3, <3>3 DEF newer
      <4> QED BY <1>1, <1>2, <1>3, <4>1, <4>2 DEF newer
    <3> QED BY <2>2, <3>6, <3>7
  <2> QED BY <2>1, <2>2
<1> QED BY <1>1, <1>4, <1>5, <1>6 DEF OrderInv, Ordered

\* Of the tasks for one recipient only the registered one gets messages, so what
\* it sends is newer than all that was sent before and older than all that waits.
LEMMA TaskSendOrder ==
  ASSUME RInv, OrderInv, NEW f \in Forwarders, TaskSend(f)
  PROVE  OrderInv'
<1>1. PICK c \in Recipients : c = reads[f]
  BY DEF TaskSend, RInv, Tasks
<1>2. /\ task[f] = "send" /\ alive[c] = "open"
      /\ last' = [last EXCEPT ![c] = holding[f]]
      /\ task' = [task EXCEPT ![f] = "recv"] /\ holding' = [holding EXCEPT ![f] = 0]
      /\ UNCHANGED <<alive, registry, removed, reads, raw, handled, sending>>
  BY <1>1 DEF TaskSend, sessionVars
<1>3. /\ \A g \in Forwarders \ {f} : task'[g] = task[g] /\ holding'[g] = holding[g]
      /\ task'[f] = "recv" /\ last'[c] = holding[f]
      /\ \A d \in Recipients \ {c} : last'[d] = last[d]
  BY <1>2 DEF RInv, TypeOK
<1>4. ordered(f)
  BY DEF OrderInv, Ordered
<1>5. \A g \in Forwarders, d \in Recipients : feeds(g, d)' <=> feeds(g, d)
  BY <1>2, <1>3, Zenon DEF feeds, active
<1>6. \A d \in Recipients : last'[d] <= handled'
  <2>1. holding[f] <= handled
    BY <1>2, <1>4 DEF ordered
  <2>2. \A d \in Recipients : last[d] <= handled
    BY DEF OrderInv
  <2>3. handled' = handled
    BY <1>2
  <2> QED BY <1>3, <2>1, <2>2, <2>3
<1>7. Fresh'
  <2> SUFFICES ASSUME NEW g \in Forwarders, NEW d \in Recipients,
                      feeds(g, d), registry[d] # g
               PROVE  raw[g] = <<>> /\ task'[g] = "recv" /\ sending # g
    BY <1>2, <1>5, Zenon DEF Fresh
  <2>1. raw[g] = <<>> /\ task[g] = "recv" /\ sending # g
    BY DEF OrderInv, Fresh
  <2> QED BY <1>2, <1>3, <2>1, Zenon
<1>8. ASSUME NEW g \in Forwarders PROVE ordered(g)'
  <2>1. ordered(g)
    BY ZenonT(60) DEF OrderInv, Ordered
  <2>2. CASE g = f
    BY <2>1, <2>2, <1>2, <1>3 DEF ordered
  <2>3. CASE g # f
    BY <2>1, <2>3, <1>2, <1>3 DEF ordered
  <2> QED BY <2>2, <2>3
<1>9. ASSUME NEW g \in Forwarders, NEW d \in Recipients, feeds(g, d) PROVE newer(g, d)'
  <2>1. newer(g, d)
    BY <1>9 DEF OrderInv, Ordered
  <2>2. CASE d # c
    <3>1. g # f
      BY <2>2, <1>1, <1>9 DEF feeds
    <3> QED BY <2>1, <2>2, <3>1, <1>2, <1>3 DEF newer
  <2>3. CASE g = f /\ d = c
    BY <2>3, <1>2, <1>3, <1>4, SMTT(30) DEF newer, ordered
  <2>4. CASE g # f /\ d = c
    <3>1. feeds(f, c)
      BY <2>4, <1>1, <1>2, <1>9 DEF feeds, active
    <3>2. registry[c] = f
      BY <3>1, <1>2 DEF OrderInv, Fresh
    <3>3. raw[g] = <<>> /\ task[g] = "recv" /\ sending # g
      BY <1>9, <2>4, <3>2 DEF OrderInv, Fresh
    <3>4. Len(raw[g]) = 0
      BY <3>3
    <3> QED BY <2>4, <3>3, <3>4, <1>2, <1>3 DEF newer
  <2> QED BY <2>2, <2>3, <2>4
<1> QED BY <1>5, <1>6, <1>7, <1>8, <1>9, Zenon DEF OrderInv, Ordered

LEMMA TaskEndOrder == ASSUME RInv, OrderInv, NEW f \in Forwarders, TaskEnd(f) PROVE OrderInv'
<1>1. /\ task' = [task EXCEPT ![f] = "ended"]
      /\ raw' = [raw EXCEPT ![f] = <<>>] /\ holding' = [holding EXCEPT ![f] = 0]
      /\ UNCHANGED <<alive, registry, removed, reads, handled, sending, last>>
  BY DEF TaskEnd, endTask, sessionVars, history
<1>2. /\ \A g \in Forwarders \ {f} :
           task'[g] = task[g] /\ raw'[g] = raw[g] /\ holding'[g] = holding[g]
      /\ task'[f] = "ended" /\ Len(raw'[f]) = 0
  BY <1>1 DEF RInv, TypeOK
<1>3. \A g \in Forwarders, c \in Recipients : feeds(g, c)' => g # f /\ feeds(g, c)
  BY <1>1, <1>2 DEF feeds, active
<1>4. Fresh'
  BY <1>1, <1>2, <1>3 DEF OrderInv, Fresh
<1>5. \A g \in Forwarders : ordered(g) => ordered(g)'
  <2> TAKE g \in Forwarders
  <2>1. CASE g = f
    BY <2>1, <1>2 DEF ordered
  <2>2. CASE g # f
    BY <2>2, <1>1, <1>2 DEF ordered
  <2> QED BY <2>1, <2>2
<1>6. \A g \in Forwarders \ {f}, c \in Recipients : newer(g, c) => newer(g, c)'
  BY <1>1, <1>2 DEF newer
<1>7. Ordered'
  BY <1>3, <1>5, <1>6 DEF OrderInv, Ordered
<1> QED BY <1>1, <1>4, <1>7 DEF OrderInv

LEMMA OrderStep == RInv /\ OrderInv /\ [Next]_vars => OrderInv'
<1> SUFFICES ASSUME RInv, OrderInv, [Next]_vars PROVE OrderInv'
  OBVIOUS
<1>1. CASE \E a \in Actors : EncodeAddress(a)
  BY <1>1, InsertOrder DEF EncodeAddress, registered, taskVars, sessionVars
<1>2. CASE SessionNext /\ ~\E a \in Actors : EncodeAddress(a)
  BY <1>2, ForwardOrder, ForwardFailOrder, FindMailboxOrder, EncodeRecipientOrder
  DEF SessionNext
<1>3. CASE \E f \in Forwarders : TaskNext(f)
  BY <1>3, TaskRecvOrder, TaskSendOrder, TaskEndOrder DEF TaskNext
<1>4. CASE \E c \in Recipients : Receive(c)
  BY <1>4, QuietOrder DEF Receive, taskVars, sessionVars, history
<1>5. CASE \E k \in Keys : Stop(k)
  <2>1. PICK k \in Keys : Stop(k)
    BY <1>5
  <2>2. \A c \in Recipients : alive'[c] = "open" => alive[c] = "open"
    BY <2>1 DEF Stop, RInv, TypeOK, Keys
  <2> QED BY <2>1, <2>2, QuietOrder DEF Stop, taskVars, sessionVars, history
<1>6. CASE UNCHANGED vars
  BY <1>6, QuietOrder DEF vars
<1> QED BY <1>1, <1>2, <1>3, <1>4, <1>5, <1>6, MgrOrder, CommandOrder DEF Next

-----------------------------------------------------------------------------
(* Theorems.                                                                *)

\* The inductive invariants hold for every interleaving of ActorMgr, the sessions
\* and the forwarding tasks.
THEOREM Invariant == Spec => [](RInv /\ OrderInv)
<1>1. Init => RInv /\ OrderInv
  BY RInit, OrderInit
<1>2. RInv /\ OrderInv /\ [Next]_vars => (RInv /\ OrderInv)'
  BY RStep, OrderStep
<1> QED BY <1>1, <1>2, PTL DEF Spec

\* The registry, the labels and the channels keep to their types.
THEOREM TypeCorrect == Spec => []TypeOK
<1>1. RInv => TypeOK
  BY DEF RInv
<1> QED BY <1>1, Invariant, PTL

\* A living actor or recipient that has a label or was encoded is found in the
\* registry, under its own index (RemoteMailboxRegistry, ActorMgr, the codecs).
THEOREM ReachableAlways == Spec => []Reachable
<1>1. RInv => Reachable
  <2> SUFFICES ASSUME RInv, NEW k \in Keys, alive[k] = "open",
                      k \in exported \/ \E x \in Labels : labels[x] = k
               PROVE  /\ registry[k] # None /\ ~is_closed(registry[k])
                      /\ registry[k] = k \/ reads[registry[k]] = k
    BY DEF Reachable
  <2>1. registry[k] # None
    BY DEF RInv, Known
  <2>2. ~closedAt(k)
    BY ClosedGone
  <2>3. registry[k] = k \/ reads[registry[k]] = k
    BY <2>1 DEF RInv, Entries, Keys
  <2> QED BY <2>1, <2>2, <2>3 DEF closedAt
<1> QED BY <1>1, Invariant, PTL

\* AddActor and CreateActor never give a second label to an actor that lives.
THEOREM OneLabelAlways == Spec => []OneLabel
<1>1. RInv => OneLabel
  BY DEF RInv
<1> QED BY <1>1, Invariant, PTL

\* However often a recipient is encoded, it gets the messages of the peer in the
\* order the session took them, unless RemoveActor took it out
\* (RemoteAddressableProxy::remote_mailbox, Session::do_send).
THEOREM InOrder == Spec => DeliveredInOrder
<1> DEFINE keeps == \A c \in Recipients :
                      last'[c] # last[c] => last'[c] > last[c] \/ c \in removed
<1>1. RInv /\ OrderInv /\ [Next]_vars => [keeps]_vars
  <2> SUFFICES ASSUME RInv, OrderInv, Next, NEW c \in Recipients, last'[c] # last[c]
               PROVE  last'[c] > last[c] \/ c \in removed
    OBVIOUS
  <2>1. PICK f \in Forwarders : TaskSend(f)
    BY Zenon DEF Next, MgrNext, CommandNext, SessionNext, TaskNext, Sweep, SweepLabels,
       CreateActor, FactoryOk, FactoryFail, CreateDone, GetActor, AddActor, remove,
       RemoveIndex, RemoveLabel, registered, EncodeAddress, EncodeRecipient,
       FindMailbox, Forward, ForwardFail, TaskRecv, endTask, TaskEnd, Receive, Stop,
       history
  <2>2. /\ c = reads[f] /\ alive[c] = "open" /\ task[f] = "send"
        /\ last'[c] = holding[f]
    BY <2>1 DEF TaskSend, RInv, TypeOK
  <2>3. c \notin removed => newer(f, c)
    BY <2>2 DEF OrderInv, Ordered, feeds, active
  <2>4. last[c] \in Nat /\ holding[f] \in Nat
    BY RawNumbers DEF RInv, TypeOK
  <2> QED BY <2>2, <2>3, <2>4 DEF newer
<1> QED BY <1>1, Invariant, PTL DEF Spec, DeliveredInOrder

=============================================================================
