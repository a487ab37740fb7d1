--------------------------- MODULE AddressProofs ---------------------------
(***************************************************************************)
(* Proofs about Address, for every finite set of callers, every capacity   *)
(* and every plan of calls.                                                *)
(***************************************************************************)
EXTENDS Address, FiniteSetTheorems, TLAPS

CallStates == {"idle", "pushed", "sent", "cancelled"} \cup InCall \cup Errors

\* The callers that hold a slot, in a table of calls.
Slots(calls) == {c \in Callers : calls[c] \in {"granted", "permit"}}

Stranded(places) == {c \in Callers : places[c] \in {"stranded"}}

\* A queue holds callers that wait, each once.
Queue(calls, queue) ==
  /\ queue \in Seq(Callers)
  /\ IsInjective(queue)
  /\ \A i \in 1 .. Len(queue) : calls[queue[i]] = "waiting"

\* The queue has everybody who waits, and they wait for want of a slot.
AllQueued(calls, queue, slots) ==
  \A c \in Callers :
    calls[c] = "waiting" => slots = 0 /\ \E i \in 1 .. Len(queue) : queue[i] = c

ChannelInv ==
  /\ call \in [Callers -> CallStates]
  /\ free \in Nat
  /\ Queue(call, waiters)
  /\ rx = "open" => AllQueued(call, waiters, free)

SlotsInv ==
  free + Len(buffer) + Cardinality(Slots(call)) + Cardinality(Stranded(place))
    = Capacity

BufferInv ==
  /\ buffer \in Seq(Callers)
  /\ IsInjective(buffer)
  /\ \A i \in 1 .. Len(buffer) : place[buffer[i]] = "buffer"
  /\ \A c \in Callers :
       place[c] = "buffer" => \E i \in 1 .. Len(buffer) : buffer[i] = c

BackInv ==
  \A c \in Callers : place[c] = "caller" <=> call[c] \notin {"pushed", "sent"}

\* What a call has made of its reply so far.
Prepared ==
  \A c \in Callers :
    /\ op[c].mode \in Reserving /\ place[c] = "caller" =>
         raw[c] = "none" /\ result[c] = "none"
    /\ raw[c] \in {"value", "garbled", "error"} => place[c] = "taken"
    /\ result[c] = "pending" => op[c].kind = "local" \/ task[c] = "running"

\* Only a local address gets past the refusal of a reservation.
Refused ==
  \A c \in Callers :
    op[c].mode \in Reserving /\ op[c].kind # "local" => call[c] \in {"idle", "Other"}

RestTypes ==
  /\ op \in Plans
  /\ place \in [Callers -> {"caller", "buffer", "taken", "discarded",
                             "stranded"}]
  /\ raw \in [Callers -> {"none", "held", "value", "garbled", "error",
                           "dropped"}]
  /\ result \in [Callers -> {"none", "pending", "value", "error", "closed",
                              "gone"}]
  /\ task \in [Callers -> {"none", "running", "ended"}]
  /\ rx \in {"open", "closed", "dropped"}

AInv ==
  /\ RestTypes /\ ChannelInv /\ SlotsInv /\ BufferInv /\ BackInv
  /\ ReplyOwned /\ Prepared /\ Refused

-----------------------------------------------------------------------------
(* Sets, functions and queues.                                              *)

\* Two sets that differ at most by c differ in size by it.
LEMMA CardChange ==
  ASSUME NEW F \in SUBSET Callers, NEW S \in SUBSET Callers, NEW c \in Callers,
         \A d \in Callers \ {c} : d \in S <=> d \in F
  PROVE  /\ Cardinality(S) \in Nat
         /\ Cardinality(F) \in Nat
         /\ c \in S /\ c \notin F => Cardinality(S) = Cardinality(F) + 1
         /\ c \notin S /\ c \in F => Cardinality(S) = Cardinality(F) - 1
         /\ (c \in S <=> c \in F) => Cardinality(S) = Cardinality(F)
<1>1. IsFiniteSet(F) /\ IsFiniteSet(S)
  BY CallersAssumption, FS_Subset
<1>2. Cardinality(F) \in Nat /\ Cardinality(S) \in Nat
  BY <1>1, FS_CardinalityType
<1>3. CASE c \in S
  <2>1. S = F \cup {c}
    BY <1>3
  <2>2. Cardinality(S) = IF c \in F THEN Cardinality(F) ELSE Cardinality(F) + 1
    BY <1>1, <2>1, FS_AddElement
  <2>3. CASE c \in F
    BY <2>2, <2>3, <1>2, <1>3
  <2>4. CASE c \notin F
    BY <2>2, <2>4, <1>2, <1>3
  <2> QED BY <2>3, <2>4
<1>4. CASE c \notin S
  <2>1. S = F \ {c}
    BY <1>4
  <2>2. Cardinality(S) = IF c \in F THEN Cardinality(F) - 1 ELSE Cardinality(F)
    BY <1>1, <2>1, FS_RemoveElement
  <2> QED BY <2>2, <1>2, <1>4
<1> QED BY <1>3, <1>4

\* A queue without duplicates and one more member.
LEMMA Appended ==
  ASSUME NEW s \in Seq(Callers), IsInjective(s), NEW c \in Callers,
         \A i \in 1 .. Len(s) : s[i] # c
  PROVE  /\ Append(s, c) \in Seq(Callers) /\ IsInjective(Append(s, c))
         /\ Len(s) \in Nat /\ Len(Append(s, c)) = Len(s) + 1
         /\ \A i \in 1 .. Len(s) : Append(s, c)[i] = s[i]
         /\ Append(s, c)[Len(s) + 1] = c
<1> DEFINE q == Append(s, c)
<1>1. /\ q \in Seq(Callers)
      /\ Len(s) \in Nat /\ Len(q) = Len(s) + 1
      /\ \A i \in 1 .. Len(s) : q[i] = s[i]
      /\ q[Len(s) + 1] = c
  OBVIOUS
<1> HIDE DEF q
<1>2. DOMAIN q = 1 .. Len(s) + 1 /\ DOMAIN s = 1 .. Len(s)
  BY <1>1
<1>3. ASSUME NEW i \in 1 .. Len(s) + 1, NEW j \in 1 .. Len(s) + 1, q[i] = q[j]
      PROVE  i = j
  <2>1. CASE i \in 1 .. Len(s) /\ j \in 1 .. Len(s)
    <3>1. s[i] = s[j]
      BY <2>1, <1>1, <1>3
    <3> QED BY <2>1, <3>1, <1>2 DEF IsInjective
  <2>2. CASE i = Len(s) + 1
    BY <2>2, <1>1, <1>3
  <2>3. CASE j = Len(s) + 1
    BY <2>3, <1>1, <1>3
  <2> QED BY <2>1, <2>2, <2>3, <1>1
<1>4. IsInjective(q)
  BY <1>2, <1>3 DEF IsInjective
<1> QED BY <1>1, <1>4 DEF q

\* A queue without duplicates and without one of its members.
LEMMA LeaveQueue ==
  ASSUME waiters \in Seq(Callers), IsInjective(waiters), NEW c \in Callers,
         NEW q, q = leave(c)
  PROVE  /\ q \in Seq(Callers)
         /\ IsInjective(q)
         /\ \A i \in 1 .. Len(q) : q[i] # c /\ \E j \in 1 .. Len(waiters) : q[i] = waiters[j]
         /\ \A j \in 1 .. Len(waiters) :
              waiters[j] # c => \E i \in 1 .. Len(q) : q[i] = waiters[j]
<1>1. CASE c \in Range(waiters)
  <2>1. PICK k \in DOMAIN waiters :
           waiters[k] = c /\ k = CHOOSE i \in DOMAIN waiters : waiters[i] = c
    BY <1>1 DEF Range
  <2>2. q = SubSeq(waiters, 1, k - 1) \o SubSeq(waiters, k + 1, Len(waiters))
    BY <1>1, <2>1, Zenon DEF leave
  <2>3. k \in 1 .. Len(waiters) /\ Len(waiters) \in Nat
    OBVIOUS
  <2>4. /\ SubSeq(waiters, 1, k - 1) \in Seq(Callers)
        /\ Len(SubSeq(waiters, 1, k - 1)) = k - 1
        /\ \A i \in 1 .. k - 1 : SubSeq(waiters, 1, k - 1)[i] = waiters[i]
    BY <2>3
  <2>5. /\ SubSeq(waiters, k + 1, Len(waiters)) \in Seq(Callers)
        /\ Len(SubSeq(waiters, k + 1, Len(waiters))) = Len(waiters) - k
        /\ \A i \in 1 .. Len(waiters) - k :
             SubSeq(waiters, k + 1, Len(waiters))[i] = waiters[k + i]
    BY <2>3
  <2>6. /\ q \in Seq(Callers)
        /\ Len(q) = Len(waiters) - 1
        /\ \A i \in 1 .. Len(q) : i < k => q[i] = waiters[i]
        /\ \A i \in 1 .. Len(q) : i >= k => q[i] = waiters[i + 1]
    <3> DEFINE l == SubSeq(waiters, 1, k - 1)
               r == SubSeq(waiters, k + 1, Len(waiters))
    <3> HIDE DEF l, r
    <3>1. /\ l \in Seq(Callers) /\ Len(l) = k - 1
          /\ \A i \in 1 .. k - 1 : l[i] = waiters[i]
      BY <2>4 DEF l
    <3>2. /\ r \in Seq(Callers) /\ Len(r) = Len(waiters) - k
          /\ \A i \in 1 .. Len(waiters) - k : r[i] = waiters[k + i]
      BY <2>5 DEF r
    <3>3. q = l \o r
      BY <2>2 DEF l, r
    <3>4. /\ q \in Seq(Callers) /\ Len(q) = Len(l) + Len(r)
          /\ \A i \in 1 .. Len(q) : q[i] = IF i <= Len(l) THEN l[i] ELSE r[i - Len(l)]
      <4>1. /\ l \o r \in Seq(Callers) /\ Len(l \o r) = Len(l) + Len(r)
            /\ \A i \in 1 .. Len(l) + Len(r) :
                 (l \o r)[i] = IF i <= Len(l) THEN l[i] ELSE r[i - Len(l)]
        BY <3>1, <3>2, SMTT(30)
      <4> QED BY <4>1, <3>3, Zenon
    <3>5. ASSUME NEW i \in 1 .. Len(q), i < k
          PROVE  q[i] = waiters[i]
      <4>1. i \in 1 .. k - 1 /\ i <= Len(l)
        BY <3>5, <3>1, <2>3
      <4> QED BY <4>1, <3>1, <3>4
    <3>6. ASSUME NEW i \in 1 .. Len(q), i >= k
          PROVE  q[i] = waiters[i + 1]
      <4>1. i - Len(l) \in 1 .. Len(waiters) - k /\ ~(i <= Len(l)) /\ k + (i - Len(l)) = i + 1
        <5>1. Len(q) = Len(waiters) - 1 /\ Len(l) = k - 1
          BY <3>1, <3>2, <3>4, <2>3
        <5> QED BY <3>6, <5>1, <2>3
      <4>2. r[i - Len(l)] = waiters[k + (i - Len(l))]
        BY <4>1, <3>2
      <4> QED BY <4>1, <4>2, <3>4
    <3> QED BY <3>1, <3>2, <3>4, <3>5, <3>6, <2>3
  <2>7. \A i \in 1 .. Len(q) : q[i] # c /\ \E j \in 1 .. Len(waiters) : q[i] = waiters[j]
    <3> SUFFICES ASSUME NEW i \in 1 .. Len(q)
                 PROVE  q[i] # c /\ \E j \in 1 .. Len(waiters) : q[i] = waiters[j]
      OBVIOUS
    <3>1. PICK j \in 1 .. Len(waiters) : q[i] = waiters[j] /\ j # k
      <4>1. CASE i < k
        BY <4>1, <2>3, <2>6
      <4>2. CASE i >= k
        BY <4>2, <2>3, <2>6
      <4> QED BY <4>1, <4>2, <2>3
    <3>2. waiters[j] # waiters[k]
      BY <3>1, <2>3 DEF IsInjective
    <3> QED BY <3>1, <3>2, <2>1
  <2>8. \A j \in 1 .. Len(waiters) : waiters[j] # c => \E i \in 1 .. Len(q) : q[i] = waiters[j]
    <3> SUFFICES ASSUME NEW j \in 1 .. Len(waiters), waiters[j] # c
                 PROVE  \E i \in 1 .. Len(q) : q[i] = waiters[j]
      OBVIOUS
    <3>1. CASE j < k
      BY <3>1, <2>3, <2>6
    <3>2. CASE j > k
      <4>1. j - 1 \in 1 .. Len(q) /\ j - 1 >= k /\ (j - 1) + 1 = j
        BY <3>2, <2>3, <2>6
      <4>2. q[j - 1] = waiters[j]
        BY <4>1, <2>6
      <4> QED BY <4>1, <4>2
    <3> QED BY <3>1, <3>2, <2>1, <2>3
  <2>9. DOMAIN q = 1 .. Len(q) /\ DOMAIN waiters = 1 .. Len(waiters)
    BY <2>6
  <2>10. ASSUME NEW i \in 1 .. Len(q), NEW j \in 1 .. Len(q), q[i] = q[j]
         PROVE  i = j
    <3> DEFINE at(x) == IF x < k THEN x ELSE x + 1
    <3>1. ASSUME NEW x \in 1 .. Len(q)
          PROVE  q[x] = waiters[at(x)] /\ at(x) \in 1 .. Len(waiters)
      <4>1. CASE x < k
        BY <4>1, <2>3, <2>6
      <4>2. CASE x >= k
        BY <4>2, <2>3, <2>6
      <4> QED BY <4>1, <4>2, <2>3
    <3>2. /\ at(i) \in DOMAIN waiters /\ at(j) \in DOMAIN waiters
          /\ waiters[at(i)] = waiters[at(j)]
      BY <3>1, <2>9, <2>10
    <3> HIDE DEF at
    <3>3. at(i) = at(j)
      BY <3>2 DEF IsInjective
    <3> USE DEF at
    <3> QED BY <3>3, <2>3, <2>6
  <2>11. IsInjective(q)
    BY <2>9, <2>10 DEF IsInjective
  <2>12. q \in Seq(Callers)
    BY <2>6
  <2> QED BY <2>7, <2>8, <2>11, <2>12
<1>2. CASE c \notin Range(waiters)
  <2>1. q = waiters
    BY <1>2 DEF leave
  <2> QED BY <2>1, <1>2 DEF Range
<1> QED BY <1>1, <1>2

-----------------------------------------------------------------------------
(* The channel.                                                             *)

LEMMA SlotsCount ==
  ASSUME NEW calls, NEW new, NEW c \in Callers,
         \A d \in Callers \ {c} : new[d] = calls[d]
  PROVE  /\ Cardinality(Slots(new)) \in Nat
         /\ Cardinality(Slots(calls)) \in Nat
         /\ new[c] \in {"granted", "permit"} /\ calls[c] \notin {"granted", "permit"} =>
              Cardinality(Slots(new)) = Cardinality(Slots(calls)) + 1
         /\ new[c] \notin {"granted", "permit"} /\ calls[c] \in {"granted", "permit"} =>
              Cardinality(Slots(new)) = Cardinality(Slots(calls)) - 1
         /\ (new[c] \in {"granted", "permit"} <=> calls[c] \in {"granted", "permit"}) =>
              Cardinality(Slots(new)) = Cardinality(Slots(calls))
<1>1. /\ Slots(new) \in SUBSET Callers /\ Slots(calls) \in SUBSET Callers
      /\ \A d \in Callers \ {c} : d \in Slots(new) <=> d \in Slots(calls)
      /\ c \in Slots(new) <=> new[c] \in {"granted", "permit"}
      /\ c \in Slots(calls) <=> calls[c] \in {"granted", "permit"}
  BY DEF Slots
<1> QED BY <1>1, CardChange

\* The state of a caller that neither waited nor waits changes; slots may be taken.
LEMMA SetCall ==
  ASSUME ChannelInv, NEW c \in Callers, call[c] # "waiting",
         NEW v \in CallStates \ {"waiting"},
         call' = [call EXCEPT ![c] = v], waiters' = waiters, rx' = rx,
         free' \in Nat, free' <= free
  PROVE  ChannelInv'
<1>1. call' \in [Callers -> CallStates]
  BY DEF ChannelInv
<1>2. \A d \in Callers : call'[d] = "waiting" <=> call[d] = "waiting"
  BY DEF ChannelInv
<1>3. Queue(call, waiters)'
  BY <1>2 DEF ChannelInv, Queue
<1>4. rx' = "open" => AllQueued(call, waiters, free)'
  BY <1>2 DEF ChannelInv, AllQueued
<1> QED BY <1>1, <1>3, <1>4 DEF ChannelInv

LEMMA Tailed ==
  ASSUME NEW q \in Seq(Callers), q # <<>>, IsInjective(q)
  PROVE  /\ Head(q) \in Callers /\ Head(q) = q[1] /\ Len(q) >= 1
         /\ Tail(q) \in Seq(Callers) /\ IsInjective(Tail(q))
         /\ Len(Tail(q)) = Len(q) - 1
         /\ \A i \in 1 .. Len(Tail(q)) :
              i + 1 \in 1 .. Len(q) /\ Tail(q)[i] = q[i + 1] /\ Tail(q)[i] # Head(q)
         /\ \A j \in 1 .. Len(q) :
              q[j] # Head(q) => \E i \in 1 .. Len(Tail(q)) : Tail(q)[i] = q[j]
<1>1. /\ Head(q) \in Callers /\ Head(q) = q[1] /\ Len(q) \in Nat \ {0}
      /\ Tail(q) \in Seq(Callers) /\ Len(Tail(q)) = Len(q) - 1
      /\ \A i \in 1 .. Len(Tail(q)) : Tail(q)[i] = q[i + 1]
  OBVIOUS
<1>2. DOMAIN q = 1 .. Len(q) /\ DOMAIN Tail(q) = 1 .. Len(Tail(q))
  BY <1>1
<1> DEFINE t == Tail(q)
<1> HIDE DEF t
<1>3. /\ Len(t) = Len(q) - 1 /\ DOMAIN t = 1 .. Len(t)
      /\ \A i \in 1 .. Len(t) : t[i] = q[i + 1]
  BY <1>1, <1>2 DEF t
<1>4. \A i \in 1 .. Len(t) : i + 1 \in 1 .. Len(q) /\ t[i] = q[i + 1] /\ t[i] # q[1]
  <2> SUFFICES ASSUME NEW i \in 1 .. Len(t)
               PROVE  i + 1 \in 1 .. Len(q) /\ t[i] = q[i + 1] /\ t[i] # q[1]
    OBVIOUS
  <2>1. i + 1 \in 1 .. Len(q) /\ 1 \in 1 .. Len(q) /\ i + 1 # 1
    BY <1>1, <1>3
  <2> QED BY <2>1, <1>2, <1>3 DEF IsInjective
<1>5. IsInjective(t)
  <2> SUFFICES ASSUME NEW i \in 1 .. Len(t), NEW j \in 1 .. Len(t), t[i] = t[j]
               PROVE  i = j
    BY <1>3 DEF IsInjective
  <2>1. i + 1 = j + 1
    BY <1>2, <1>4 DEF IsInjective
  <2> QED BY <2>1, <1>1, <1>3
<1>6. ASSUME NEW j \in 1 .. Len(q), q[j] # q[1]
      PROVE  \E i \in 1 .. Len(t) : t[i] = q[j]
  <2>1. j - 1 \in 1 .. Len(t) /\ (j - 1) + 1 = j
    BY <1>1, <1>3, <1>6
  <2> QED BY <2>1, <1>3, Zenon
<1> QED BY <1>1, <1>4, <1>5, <1>6 DEF t

\* A slot comes back: it is free, or its first waiter has it.
LEMMA Released ==
  ASSUME NEW calls \in [Callers -> CallStates], NEW queue, Queue(calls, queue),
         free \in Nat, Release(calls, queue)
  PROVE  /\ call' \in [Callers -> CallStates]
         /\ \A d \in Callers : \/ call'[d] = calls[d]
                               \/ calls[d] = "waiting" /\ call'[d] = "granted"
         /\ free' \in Nat
         /\ Queue(call', waiters')
         /\ AllQueued(calls, queue, free) => AllQueued(call', waiters', free')
         /\ Cardinality(Slots(call')) \in Nat /\ Cardinality(Slots(calls)) \in Nat
         /\ free' + Cardinality(Slots(call')) = free + 1 + Cardinality(Slots(calls))
<1>1. CASE queue = <<>>
  <2>1. call' = calls /\ waiters' = queue /\ free' = free + 1
    BY <1>1 DEF Release
  <2>2. Cardinality(Slots(calls)) \in Nat
    BY CallersAssumption, FS_Subset, FS_CardinalityType DEF Slots
  <2>3. AllQueued(calls, queue, free) => AllQueued(call', waiters', free')
    BY <1>1, <2>1 DEF AllQueued
  <2> QED BY <2>1, <2>2, <2>3
<1>2. CASE queue # <<>>
  <2> DEFINE h == Head(queue)
             t == Tail(queue)
  <2>1. /\ call' = [calls EXCEPT ![h] = "granted"]
        /\ waiters' = t /\ free' = free
    BY <1>2 DEF Release
  <2>2. /\ h \in Callers /\ h = queue[1] /\ Len(queue) >= 1
        /\ t \in Seq(Callers) /\ IsInjective(t)
        /\ \A i \in 1 .. Len(t) :
              i + 1 \in 1 .. Len(queue) /\ t[i] = queue[i + 1] /\ t[i] # h
        /\ \A j \in 1 .. Len(queue) :
              queue[j] # h => \E i \in 1 .. Len(t) : t[i] = queue[j]
    BY <1>2, Tailed DEF Queue
  <2>3. calls[h] = "waiting"
    BY <2>2, <1>2 DEF Queue
  <2> HIDE DEF h, t
  <2>4. call' \in [Callers -> CallStates]
    BY <2>1, <2>2 DEF CallStates, InCall
  <2>5. /\ call'[h] = "granted"
        /\ \A d \in Callers \ {h} : call'[d] = calls[d]
    BY <2>1, <2>2
  <2>6. Queue(call', waiters')
    <3>1. t \in Seq(Callers) /\ \A i \in 1 .. Len(t) : t[i] \in Callers \ {h}
      BY <2>2
    <3>2. \A i \in 1 .. Len(t) : call'[t[i]] = "waiting"
      BY <3>1, <2>2, <2>5 DEF Queue
    <3> QED BY <2>1, <2>2, <3>2 DEF Queue
  <2>7. ASSUME AllQueued(calls, queue, free)
        PROVE  AllQueued(call', waiters', free')
    <3> SUFFICES ASSUME NEW d \in Callers, call'[d] = "waiting"
                 PROVE  free' = 0 /\ \E i \in 1 .. Len(t) : t[i] = d
      BY <2>1 DEF AllQueued
    <3>1. d # h /\ calls[d] = "waiting"
      BY <2>5
    <3>2. PICK j \in 1 .. Len(queue) : queue[j] = d
      BY <3>1, <2>7 DEF AllQueued
    <3>3. \E i \in 1 .. Len(t) : t[i] = d
      BY <3>1, <3>2, <2>2, Zenon
    <3>4. free' = 0
      BY <3>1, <2>1, <2>7 DEF AllQueued
    <3> QED BY <3>3, <3>4
  <2>8. /\ Cardinality(Slots(call')) \in Nat /\ Cardinality(Slots(calls)) \in Nat
        /\ Cardinality(Slots(call')) = Cardinality(Slots(calls)) + 1
    <3> DEFINE new == [calls EXCEPT ![h] = "granted"]
    <3>1. /\ Cardinality(Slots(new)) \in Nat /\ Cardinality(Slots(calls)) \in Nat
          /\ Cardinality(Slots(new)) = Cardinality(Slots(calls)) + 1
      <4>1. /\ \A d \in Callers \ {h} : new[d] = calls[d]
            /\ new[h] = "granted" /\ h \in Callers
        BY <2>2
      <4> HIDE DEF new
      <4> QED BY <4>1, <2>3, SlotsCount
    <3> QED BY <3>1, <2>1
  <2> QED BY <2>1, <2>3, <2>4, <2>5, <2>6, <2>7, <2>8
<1> QED BY <1>1, <1>2

\* A call that ends without its message in the channel gives back what it holds.
LEMMA Withdrawn ==
  ASSUME ChannelInv, NEW c \in Callers, call[c] \in InCall,
         NEW how \in {"Closed", "Timeout", "cancelled"},
         Withdraw(c, how), rx' = rx
  PROVE  /\ ChannelInv'
         /\ call'[c] = how
         /\ \A d \in Callers \ {c} : \/ call'[d] = call[d]
                                     \/ call[d] = "waiting" /\ call'[d] = "granted"
         /\ Cardinality(Slots(call')) \in Nat /\ Cardinality(Slots(call)) \in Nat
         /\ free' + Cardinality(Slots(call')) = free + Cardinality(Slots(call))
<1> DEFINE calls == [call EXCEPT ![c] = how]
<1>1. calls \in [Callers -> CallStates] /\ calls[c] = how /\ \A d \in Callers \ {c} : calls[d] = call[d]
  BY DEF ChannelInv, CallStates, Errors
<1>2. /\ Cardinality(Slots(calls)) \in Nat /\ Cardinality(Slots(call)) \in Nat
      /\ call[c] = "waiting" => Cardinality(Slots(calls)) = Cardinality(Slots(call))
      /\ call[c] # "waiting" => Cardinality(Slots(calls)) = Cardinality(Slots(call)) - 1
  <2>1. call \in [Callers -> CallStates]
    BY DEF ChannelInv
  <2>2. call[c] \in {"granted", "permit"} <=> call[c] # "waiting"
    BY DEF InCall
  <2>3. /\ \A d \in Callers \ {c} : calls[d] = call[d]
        /\ calls[c] \notin {"granted", "permit"}
    BY <1>1
  <2> HIDE DEF calls
  <2> QED BY <2>2, <2>3, SlotsCount
<1> HIDE DEF calls
<1>3. CASE call[c] = "waiting"
  <2>1. call' = calls /\ waiters' = leave(c) /\ free' = free
    BY <1>3 DEF Withdraw, calls
  <2>2. /\ waiters' \in Seq(Callers) /\ IsInjective(waiters')
        /\ \A i \in 1 .. Len(waiters') :
             waiters'[i] # c /\ \E j \in 1 .. Len(waiters) : waiters'[i] = waiters[j]
        /\ \A j \in 1 .. Len(waiters) :
             waiters[j] # c => \E i \in 1 .. Len(waiters') : waiters'[i] = waiters[j]
    <3> DEFINE q == leave(c)
    <3>1. /\ q \in Seq(Callers) /\ IsInjective(q)
          /\ \A i \in 1 .. Len(q) :
               q[i] # c /\ \E j \in 1 .. Len(waiters) : q[i] = waiters[j]
          /\ \A j \in 1 .. Len(waiters) :
               waiters[j] # c => \E i \in 1 .. Len(q) : q[i] = waiters[j]
      BY LeaveQueue DEF ChannelInv, Queue
    <3> QED BY <3>1, <2>1
  <2>3. \A i \in 1 .. Len(waiters') : call'[waiters'[i]] = "waiting"
    <3> SUFFICES ASSUME NEW i \in 1 .. Len(waiters')
                 PROVE  call'[waiters'[i]] = "waiting"
      OBVIOUS
    <3>1. PICK j \in 1 .. Len(waiters) : waiters'[i] = waiters[j]
      BY <2>2
    <3>2. waiters[j] \in Callers /\ call[waiters[j]] = "waiting" /\ waiters[j] # c
      BY <3>1, <2>2 DEF ChannelInv, Queue
    <3> QED BY <3>1, <3>2, <2>1, <1>1
  <2>4. Queue(call, waiters)'
    BY <2>2, <2>3 DEF Queue
  <2>5. ASSUME rx = "open"
        PROVE  AllQueued(call, waiters, free)'
    <3> SUFFICES ASSUME NEW d \in Callers, call'[d] = "waiting"
                 PROVE  free' = 0 /\ \E i \in 1 .. Len(waiters') : waiters'[i] = d
      BY DEF AllQueued
    <3>1. d # c /\ call[d] = "waiting"
      BY <2>1, <1>1
    <3>2. free = 0 /\ \E j \in 1 .. Len(waiters) : waiters[j] = d
      BY <3>1, <2>5 DEF ChannelInv, AllQueued
    <3> QED BY <3>1, <3>2, <2>1, <2>2
  <2>6. ChannelInv'
    BY <2>1, <2>4, <2>5, <1>1 DEF ChannelInv
  <2>7. Cardinality(Slots(call')) = Cardinality(Slots(call))
    BY <2>1, <1>2, <1>3
  <2> QED BY <2>1, <2>6, <2>7, <1>1, <1>2 DEF ChannelInv
<1>4. CASE call[c] # "waiting"
  <2>1. Release(calls, waiters)
    BY <1>4 DEF Withdraw, calls
  <2>2. Queue(calls, waiters)
    <3> SUFFICES ASSUME NEW i \in 1 .. Len(waiters)
                 PROVE  calls[waiters[i]] = "waiting"
      BY DEF ChannelInv, Queue
    <3>1. waiters[i] \in Callers /\ call[waiters[i]] = "waiting"
      BY DEF ChannelInv, Queue
    <3> QED BY <3>1, <1>1, <1>4
  <2>3. rx = "open" => AllQueued(calls, waiters, free)
    BY <1>1 DEF ChannelInv, AllQueued
  <2>4. free \in Nat
    BY DEF ChannelInv
  <2>5. /\ call' \in [Callers -> CallStates]
        /\ \A d \in Callers : \/ call'[d] = calls[d]
                              \/ calls[d] = "waiting" /\ call'[d] = "granted"
        /\ free' \in Nat
        /\ Queue(call', waiters')
        /\ AllQueued(calls, waiters, free) => AllQueued(call', waiters', free')
        /\ Cardinality(Slots(call')) \in Nat /\ Cardinality(Slots(calls)) \in Nat
        /\ free' + Cardinality(Slots(call')) = free + 1 + Cardinality(Slots(calls))
    BY <1>1, <2>1, <2>2, <2>4, Released
  <2>6. ChannelInv'
    BY <2>3, <2>5 DEF ChannelInv
  <2>7. Cardinality(Slots(calls)) = Cardinality(Slots(call)) - 1
    BY <1>2, <1>4
  <2>8. free' + Cardinality(Slots(call')) = free + Cardinality(Slots(call))
    BY <2>4, <2>5, <2>7, <1>2
  <2>9. call'[c] = how
    BY <2>5, <1>1
  <2>10. \A d \in Callers \ {c} : \/ call'[d] = call[d]
                                  \/ call[d] = "waiting" /\ call'[d] = "granted"
    BY <2>5, <1>1
  <2> QED BY <2>5, <2>6, <2>8, <2>9, <2>10, <1>2
<1> QED BY <1>3, <1>4

\* A message is written into the channel, or stranded in one that nobody reads.
LEMMA Written ==
  ASSUME AInv, NEW c \in Callers, call[c] = "permit",
         call' = [call EXCEPT ![c] = "pushed"],
         place' = [place EXCEPT ![c] = IF rx = "dropped" THEN "stranded" ELSE "buffer"],
         buffer' = IF rx = "dropped" THEN buffer ELSE Append(buffer, c),
         waiters' = waiters, free' = free, rx' = rx
  PROVE  ChannelInv' /\ SlotsInv' /\ BufferInv' /\ BackInv'
<1>1. ChannelInv'
  <2>1. "pushed" \in CallStates \ {"waiting"} /\ free' \in Nat /\ free' <= free
    BY DEF CallStates, AInv, ChannelInv
  <2> QED BY <2>1, SetCall, Zenon DEF AInv
<1>2. BackInv'
  BY DEF AInv, BackInv, ChannelInv, RestTypes
<1>3. place[c] = "caller"
  BY DEF AInv, BackInv
<1>4. \A i \in 1 .. Len(buffer) : buffer[i] # c
  BY <1>3 DEF AInv, BufferInv
<1>5. /\ Cardinality(Slots(call')) \in Nat /\ Cardinality(Slots(call)) \in Nat
      /\ Cardinality(Slots(call')) = Cardinality(Slots(call)) - 1
  <2> DEFINE new == [call EXCEPT ![c] = "pushed"]
  <2>1. call \in [Callers -> CallStates]
    BY DEF AInv, ChannelInv
  <2>2. /\ Cardinality(Slots(new)) \in Nat /\ Cardinality(Slots(call)) \in Nat
        /\ Cardinality(Slots(new)) = Cardinality(Slots(call)) - 1
    BY <2>1, SlotsCount, Zenon
  <2> QED BY <2>2
<1>6. /\ Cardinality(Stranded(place')) \in Nat /\ Cardinality(Stranded(place)) \in Nat
      /\ rx = "dropped" => Cardinality(Stranded(place')) = Cardinality(Stranded(place)) + 1
      /\ rx # "dropped" => Cardinality(Stranded(place')) = Cardinality(Stranded(place))
  <2> DEFINE new == [place EXCEPT ![c] = IF rx = "dropped" THEN "stranded" ELSE "buffer"]
  <2>1. /\ Stranded(new) \in SUBSET Callers /\ Stranded(place) \in SUBSET Callers
        /\ \A d \in Callers \ {c} : d \in Stranded(new) <=> d \in Stranded(place)
        /\ c \in Stranded(new) <=> rx = "dropped"
        /\ c \notin Stranded(place)
    BY <1>3 DEF Stranded, AInv, RestTypes
  <2>2. place' = new
    OBVIOUS
  <2> HIDE DEF new
  <2>3. /\ Cardinality(Stranded(new)) \in Nat /\ Cardinality(Stranded(place)) \in Nat
        /\ rx = "dropped" => Cardinality(Stranded(new)) = Cardinality(Stranded(place)) + 1
        /\ rx # "dropped" => Cardinality(Stranded(new)) = Cardinality(Stranded(place))
    BY <2>1, CardChange
  <2> QED BY <2>2, <2>3, Zenon
<1>7. CASE rx = "dropped"
  <2>1. BufferInv'
    BY <1>3, <1>4, <1>7 DEF AInv, BufferInv, RestTypes
  <2>2. SlotsInv'
    <3>1. Len(buffer) \in Nat /\ free \in Nat
      BY DEF AInv, BufferInv, ChannelInv
    <3> QED BY <3>1, <1>5, <1>6, <1>7 DEF AInv, SlotsInv
  <2> QED BY <2>1, <2>2, <1>1, <1>2
<1>8. CASE rx # "dropped"
  <2>1. /\ buffer' \in Seq(Callers) /\ IsInjective(buffer')
        /\ Len(buffer) \in Nat /\ Len(buffer') = Len(buffer) + 1
        /\ \A i \in 1 .. Len(buffer) : buffer'[i] = buffer[i]
        /\ buffer'[Len(buffer) + 1] = c
    <3>1. buffer' = Append(buffer, c) /\ buffer \in Seq(Callers) /\ IsInjective(buffer)
      BY <1>8 DEF AInv, BufferInv
    <3>2. /\ Append(buffer, c) \in Seq(Callers) /\ IsInjective(Append(buffer, c))
          /\ Len(buffer) \in Nat /\ Len(Append(buffer, c)) = Len(buffer) + 1
          /\ \A i \in 1 .. Len(buffer) : Append(buffer, c)[i] = buffer[i]
          /\ Append(buffer, c)[Len(buffer) + 1] = c
      BY <3>1, <1>4, Appended
    <3> QED BY <3>1, <3>2
  <2>2. SlotsInv'
    <3>1. free \in Nat
      BY DEF AInv, ChannelInv
    <3> QED BY <3>1, <2>1, <1>5, <1>6, <1>8 DEF AInv, SlotsInv
  <2>4. \A i \in 1 .. Len(buffer') : place'[buffer'[i]] = "buffer"
    <3> SUFFICES ASSUME NEW i \in 1 .. Len(buffer')
                 PROVE  place'[buffer'[i]] = "buffer"
      OBVIOUS
    <3>1. CASE i = Len(buffer) + 1
      BY <3>1, <2>1, <1>8 DEF AInv, RestTypes
    <3>2. CASE i \in 1 .. Len(buffer)
      <4>1. buffer[i] \in Callers /\ buffer[i] # c /\ place[buffer[i]] = "buffer"
        BY <3>2, <1>4 DEF AInv, BufferInv
      <4> QED BY <4>1, <3>2, <2>1 DEF AInv, RestTypes
    <3> QED BY <3>1, <3>2, <2>1
  <2>5. ASSUME NEW d \in Callers, place'[d] = "buffer"
        PROVE  \E i \in 1 .. Len(buffer') : buffer'[i] = d
    <3>1. CASE d = c
      BY <3>1, <2>1
    <3>2. CASE d # c
      <4>1. place[d] = "buffer"
        BY <3>2, <2>5 DEF AInv, RestTypes
      <4>2. PICK i \in 1 .. Len(buffer) : buffer[i] = d
        BY <4>1 DEF AInv, BufferInv
      <4> QED BY <4>2, <2>1
    <3> QED BY <3>1, <3>2
  <2>6. BufferInv'
    BY <2>1, <2>4, <2>5 DEF BufferInv
  <2> QED BY <2>2, <2>6, <1>1, <1>2
<1> QED BY <1>7, <1>8

-----------------------------------------------------------------------------
(* The steps.                                                               *)

LEMMA Unmoved ==
  ASSUME AInv, call' = call, place' = place, buffer' = buffer,
         waiters' = waiters, free' = free, rx' = rx, op' = op
  PROVE  ChannelInv' /\ SlotsInv' /\ BufferInv' /\ BackInv' /\ Refused'
<1>1. ChannelInv'
  BY DEF AInv, ChannelInv, Queue, AllQueued
<1>2. SlotsInv'
  BY DEF AInv, SlotsInv
<1>3. BufferInv'
  BY DEF AInv, BufferInv
<1>4. BackInv'
  BY DEF AInv, BackInv
<1>5. Refused'
  BY DEF AInv, Refused
<1> QED BY <1>1, <1>2, <1>3, <1>4, <1>5

\* A call that ends early leaves every other caller in its call.
LEMMA WithdrawStep ==
  ASSUME AInv, NEW c \in Callers, call[c] \in InCall,
         NEW how \in {"Closed", "Timeout", "cancelled"},
         Withdraw(c, how), place' = place, buffer' = buffer, rx' = rx, op' = op
  PROVE  /\ ChannelInv' /\ SlotsInv' /\ BufferInv' /\ BackInv' /\ Refused'
         /\ place[c] = "caller"
         /\ \A d \in Callers \ {c} : call[d] \in InCall => call'[d] \in InCall
<1>1. /\ ChannelInv'
      /\ call'[c] = how
      /\ \A d \in Callers \ {c} : \/ call'[d] = call[d]
                                  \/ call[d] = "waiting" /\ call'[d] = "granted"
      /\ Cardinality(Slots(call')) \in Nat /\ Cardinality(Slots(call)) \in Nat
      /\ free' + Cardinality(Slots(call')) = free + Cardinality(Slots(call))
  BY Withdrawn DEF AInv
<1>2. SlotsInv'
  <2>1. free \in Nat /\ free' \in Nat /\ Len(buffer) \in Nat
    BY <1>1 DEF AInv, ChannelInv, BufferInv
  <2>2. Cardinality(Stranded(place)) \in Nat
    <3>1. Stranded(place) \in SUBSET Callers
      BY DEF Stranded
    <3>2. IsFiniteSet(Stranded(place))
      BY <3>1, CallersAssumption, FS_Subset
    <3> QED BY <3>2, FS_CardinalityType
  <2>3. free + Len(buffer) + Cardinality(Slots(call)) + Cardinality(Stranded(place))
          = Capacity
    BY DEF AInv, SlotsInv
  <2>4. free' + Len(buffer) + Cardinality(Slots(call')) + Cardinality(Stranded(place))
          = Capacity
    <3> DEFINE k == Cardinality(Slots(call))
               n == Cardinality(Slots(call'))
               l == Cardinality(Stranded(place))
               b == Len(buffer)
    <3>1. /\ k \in Nat /\ n \in Nat /\ l \in Nat /\ b \in Nat
          /\ free' + n = free + k /\ free + b + k + l = Capacity
      BY <1>1, <2>1, <2>2, <2>3
    <3> HIDE DEF k, n, l, b
    <3>2. free' + b + n + l = free + b + k + l
      <4> DEFINE f == free'
                 g == free
      <4>1. f \in Nat /\ g \in Nat /\ f + n = g + k
        BY <3>1, <2>1, Zenon
      <4> HIDE DEF f, g
      <4>2. f + b + n + l = (f + n) + b + l /\ g + b + k + l = (g + k) + b + l
        BY <4>1, <3>1
      <4> QED BY <4>1, <4>2 DEF f, g
    <3> QED BY <3>1, <3>2 DEF k, n, l, b
  <2> QED BY <2>4 DEF SlotsInv
<1>3. BufferInv'
  BY DEF AInv, BufferInv
<1>4. place[c] = "caller"
  BY DEF AInv, BackInv, InCall
<1>5. BackInv'
  <2> SUFFICES ASSUME NEW d \in Callers
               PROVE  place[d] = "caller" <=> call'[d] \notin {"pushed", "sent"}
    BY DEF BackInv
  <2>1. CASE d = c
    BY <2>1, <1>1, <1>4
  <2>2. CASE d # c
    BY <2>2, <1>1 DEF AInv, BackInv
  <2> QED BY <2>1, <2>2
<1>6. Refused'
  <2> SUFFICES ASSUME NEW d \in Callers, op[d].mode \in Reserving, op[d].kind # "local"
               PROVE  call'[d] \in {"idle", "Other"}
    BY DEF Refused
  <2>1. call[d] \in {"idle", "Other"}
    BY DEF AInv, Refused
  <2> QED BY <2>1, <1>1 DEF InCall
<1> QED BY <1>1, <1>2, <1>3, <1>4, <1>5, <1>6 DEF InCall

\* A caller that ends its call early drops what it made for the reply.
LEMMA EndedEarly ==
  ASSUME AInv, NEW c \in Callers, call[c] \in InCall,
         NEW how \in {"Closed", "Timeout", "cancelled"},
         Withdraw(c, how), DropReply(c), UNCHANGED <<op, place, buffer, rx>>
  PROVE  AInv'
<1>1. /\ ChannelInv' /\ SlotsInv' /\ BufferInv' /\ BackInv' /\ Refused'
      /\ place[c] = "caller"
      /\ \A d \in Callers \ {c} : call[d] \in InCall => call'[d] \in InCall
  BY WithdrawStep
<1>2. /\ raw' = [raw EXCEPT ![c] = IF @ = "held" THEN "dropped" ELSE @]
      /\ result' = [result EXCEPT ![c] = "none"]
      /\ UNCHANGED <<op, place, task, rx>>
  BY DEF DropReply
<1>3. RestTypes'
  BY <1>2 DEF AInv, RestTypes
<1>4. ReplyOwned'
  BY <1>1, <1>2 DEF AInv, RestTypes, ReplyOwned
<1>5. Prepared'
  BY <1>1, <1>2 DEF AInv, RestTypes, Prepared
<1> QED BY <1>1, <1>3, <1>4, <1>5 DEF AInv

LEMMA AInit == Init => AInv
<1> SUFFICES ASSUME Init PROVE AInv
  OBVIOUS
<1>1. RestTypes /\ BackInv /\ ReplyOwned /\ Prepared /\ Refused
  BY DEF Init, RestTypes, BackInv, ReplyOwned, Prepared, Refused
<1>2. ChannelInv
  BY CapacityAssumption DEF Init, ChannelInv, CallStates, Queue, AllQueued, IsInjective
<1>3. BufferInv
  BY DEF Init, BufferInv, IsInjective
<1>4. SlotsInv
  <2>1. Slots(call) = {} /\ Stranded(place) = {} /\ Len(buffer) = 0
    BY DEF Init, Slots, Stranded
  <2>2. Cardinality(Slots(call)) = 0 /\ Cardinality(Stranded(place)) = 0
    BY <2>1, FS_EmptySet
  <2> QED BY <2>1, <2>2, CapacityAssumption DEF Init, SlotsInv
<1> QED BY <1>1, <1>2, <1>3, <1>4 DEF AInv

LEMMA Offers ==
  ASSUME op \in Plans, NEW c \in Callers, op[c].mode \in Reserving
  PROVE  op[c].kind \in {"local", "address"}
<1>1. op[c] \in Offered
  BY PlansAssumption
<1> QED BY <1>1 DEF Offered

LEMMA RefuseStep == ASSUME AInv, NEW c \in Callers, Refuse(c) PROVE AInv'
<1>1. PICK e \in Errors : /\ call' = [call EXCEPT ![c] = e]
                          /\ Unsupported(op[c]) => e = "Other"
  BY Zenon DEF Refuse, AddressErrors, RecipientErrors, Errors
<1>2. call[c] = "idle" /\ UNCHANGED <<op, place, raw, result, task, buffer, waiters, free, rx>>
  BY DEF Refuse, replies
<1>3. ChannelInv'
  <2>1. e \in CallStates \ {"waiting"} /\ free' \in Nat /\ free' <= free
    BY <1>2 DEF CallStates, Errors, AInv, ChannelInv
  <2> QED BY <2>1, <1>1, <1>2, SetCall, Zenon DEF AInv
<1>4. BackInv'
  BY <1>1, <1>2 DEF AInv, BackInv, ChannelInv, Errors
<1>5. BufferInv'
  BY <1>2 DEF AInv, BufferInv
<1>6. SlotsInv'
  <2> DEFINE new == [call EXCEPT ![c] = e]
  <2>1. /\ \A d \in Callers \ {c} : new[d] = call[d]
        /\ new[c] \notin {"granted", "permit"}
    BY DEF AInv, ChannelInv, Errors
  <2>2. call' = new
    BY <1>1
  <2> HIDE DEF new
  <2>3. Cardinality(Slots(new)) = Cardinality(Slots(call))
    BY <2>1, <1>2, SlotsCount
  <2> QED BY <2>2, <2>3, <1>2 DEF AInv, SlotsInv
<1>7. RestTypes' /\ Prepared'
  BY <1>2 DEF AInv, RestTypes, Prepared
<1>8. ReplyOwned'
  BY <1>1, <1>2 DEF AInv, ReplyOwned, ChannelInv, InCall
<1>9. op[c].mode \in Reserving /\ op[c].kind # "local" => Unsupported(op[c])
  BY Offers DEF AInv, RestTypes, Unsupported, ReserveRefuses
<1>10. Refused'
  BY <1>1, <1>2, <1>9 DEF AInv, Refused, ChannelInv
<1> QED BY <1>3, <1>4, <1>5, <1>6, <1>7, <1>8, <1>10 DEF AInv

LEMMA PollStep == ASSUME AInv, NEW c \in Callers, Poll(c) PROVE AInv'
<1>1. /\ call[c] = "granted" /\ call' = [call EXCEPT ![c] = "permit"]
      /\ UNCHANGED <<op, place, raw, result, task, buffer, waiters, free, rx>>
  BY DEF Poll, replies
<1>3. ChannelInv'
  <2>1. "permit" \in CallStates \ {"waiting"} /\ free' \in Nat /\ free' <= free
    BY <1>1 DEF CallStates, InCall, AInv, ChannelInv
  <2> QED BY <2>1, <1>1, SetCall, Zenon DEF AInv
<1>4. BackInv'
  BY <1>1 DEF AInv, BackInv, ChannelInv
<1>5. BufferInv'
  BY <1>1 DEF AInv, BufferInv
<1>6. SlotsInv'
  <2> DEFINE new == [call EXCEPT ![c] = "permit"]
  <2>1. /\ \A d \in Callers \ {c} : new[d] = call[d]
        /\ new[c] = "permit"
    BY DEF AInv, ChannelInv
  <2>2. call' = new
    BY <1>1
  <2> HIDE DEF new
  <2>3. Cardinality(Slots(new)) = Cardinality(Slots(call))
    BY <2>1, <1>1, SlotsCount
  <2> QED BY <2>2, <2>3, <1>1 DEF AInv, SlotsInv
<1>7. RestTypes' /\ Prepared'
  BY <1>1 DEF AInv, RestTypes, Prepared
<1>8. ReplyOwned'
  BY <1>1 DEF AInv, ReplyOwned, ChannelInv, InCall
<1>9. Refused'
  BY <1>1 DEF AInv, Refused, ChannelInv
<1> QED BY <1>3, <1>4, <1>5, <1>6, <1>7, <1>8, <1>9 DEF AInv

LEMMA ReturnStep == ASSUME AInv, NEW c \in Callers, Return(c) PROVE AInv'
<1>1. /\ call[c] = "pushed" /\ call' = [call EXCEPT ![c] = "sent"]
      /\ UNCHANGED <<op, place, raw, buffer, waiters, free, rx>>
      /\ \/ /\ op[c].kind = "address" /\ op[c].reply
            /\ result' = [result EXCEPT ![c] = "pending"]
            /\ task' = [task EXCEPT ![c] = "running"]
         \/ UNCHANGED <<result, task>>
  BY DEF Return
<1>3. ChannelInv'
  <2>1. "sent" \in CallStates \ {"waiting"} /\ free' \in Nat /\ free' <= free
    BY <1>1 DEF CallStates, AInv, ChannelInv
  <2> QED BY <2>1, <1>1, SetCall, Zenon DEF AInv
<1>4. BackInv'
  BY <1>1 DEF AInv, BackInv, ChannelInv
<1>5. BufferInv'
  BY <1>1 DEF AInv, BufferInv
<1>6. SlotsInv'
  <2> DEFINE new == [call EXCEPT ![c] = "sent"]
  <2>1. /\ \A d \in Callers \ {c} : new[d] = call[d]
        /\ new[c] = "sent"
    BY DEF AInv, ChannelInv
  <2>2. call' = new
    BY <1>1
  <2> HIDE DEF new
  <2>3. Cardinality(Slots(new)) = Cardinality(Slots(call))
    BY <2>1, <1>1, SlotsCount
  <2> QED BY <2>2, <2>3, <1>1 DEF AInv, SlotsInv
<1>7. place[c] # "caller"
  BY <1>1 DEF AInv, BackInv
<1>8. RestTypes'
  BY <1>1 DEF AInv, RestTypes
<1>9. Prepared'
  BY <1>1, <1>7 DEF AInv, RestTypes, Prepared
<1>10. ReplyOwned'
  BY <1>1 DEF AInv, RestTypes, ReplyOwned, ChannelInv, InCall
<1>11. Refused'
  BY <1>1 DEF AInv, Refused, ChannelInv
<1> QED BY <1>3, <1>4, <1>5, <1>6, <1>8, <1>9, <1>10, <1>11 DEF AInv

LEMMA DropPermitStep == ASSUME AInv, NEW c \in Callers, DropPermit(c) PROVE AInv'
<1>1. /\ call[c] = "permit" /\ op[c].mode \in Reserving /\ Withdraw(c, "cancelled")
      /\ UNCHANGED <<op, place, raw, result, task, buffer, rx>>
  BY DEF DropPermit, replies
<1>2. /\ ChannelInv' /\ SlotsInv' /\ BufferInv' /\ BackInv' /\ Refused'
      /\ place[c] = "caller"
      /\ \A d \in Callers \ {c} : call[d] \in InCall => call'[d] \in InCall
  BY <1>1, WithdrawStep DEF InCall
<1>3. raw[c] = "none"
  BY <1>1, <1>2 DEF AInv, Prepared
<1>4. RestTypes' /\ Prepared'
  BY <1>1, SMTT(30) DEF AInv, RestTypes, Prepared
<1>5. ReplyOwned'
  BY <1>1, <1>2, <1>3 DEF AInv, ReplyOwned
<1> QED BY <1>2, <1>4, <1>5 DEF AInv

LEMMA PushStep == ASSUME AInv, NEW c \in Callers, Push(c) PROVE AInv'
<1>1. /\ call[c] = "permit" /\ op[c].mode \notin Reserving
      /\ call' = [call EXCEPT ![c] = "pushed"]
      /\ place' = [place EXCEPT ![c] = IF rx = "dropped" THEN "stranded" ELSE "buffer"]
      /\ buffer' = IF rx = "dropped" THEN buffer ELSE Append(buffer, c)
      /\ UNCHANGED <<op, raw, result, task, waiters, free, rx>>
  BY DEF Push, replies
<1>2. ChannelInv' /\ SlotsInv' /\ BufferInv' /\ BackInv'
  BY <1>1, Written, Zenon
<1>3. place[c] = "caller"
  BY <1>1 DEF AInv, BackInv
<1>4. RestTypes'
  BY <1>1 DEF AInv, RestTypes
<1>5. Prepared'
  BY <1>1, <1>3 DEF AInv, RestTypes, Prepared
<1>6. ReplyOwned'
  BY <1>1, <1>3 DEF AInv, RestTypes, ChannelInv, ReplyOwned
<1>7. Refused'
  BY <1>1 DEF AInv, Refused, ChannelInv
<1> QED BY <1>2, <1>4, <1>5, <1>6, <1>7 DEF AInv

LEMMA PermitSendStep == ASSUME AInv, NEW c \in Callers, PermitSend(c) PROVE AInv'
<1>1. /\ call[c] = "permit" /\ op[c].mode \in Reserving
      /\ call' = [call EXCEPT ![c] = "pushed"]
      /\ place' = [place EXCEPT ![c] = IF rx = "dropped" THEN "stranded" ELSE "buffer"]
      /\ buffer' = IF rx = "dropped" THEN buffer ELSE Append(buffer, c)
      /\ raw' = [raw EXCEPT ![c] = IF op[c].reply THEN "held" ELSE @]
      /\ result' = [result EXCEPT ![c] = IF op[c].reply THEN "pending" ELSE @]
      /\ UNCHANGED <<op, task, waiters, free, rx>>
  BY DEF PermitSend
<1>2. ChannelInv' /\ SlotsInv' /\ BufferInv' /\ BackInv'
  BY <1>1, Written, Zenon
<1>3. place[c] = "caller" /\ raw[c] = "none" /\ result[c] = "none"
  BY <1>1 DEF AInv, BackInv, Prepared
<1>4. RestTypes'
  BY <1>1 DEF AInv, RestTypes
<1>5. op[c].kind = "local"
  BY <1>1 DEF AInv, Refused
<1>6. Prepared'
  BY <1>1, <1>3, <1>5 DEF AInv, RestTypes, Prepared
<1>7. ReplyOwned'
  BY <1>1, <1>3 DEF AInv, RestTypes, ChannelInv, ReplyOwned
<1>8. Refused'
  BY <1>1, <1>5 DEF AInv, Refused, ChannelInv
<1> QED BY <1>2, <1>4, <1>6, <1>7, <1>8 DEF AInv

LEMMA SettleStep == ASSUME AInv, NEW c \in Callers, Settle(c) PROVE AInv'
<1>1. PICK how \in {"value", "error", "dropped", "garbled"} :
        /\ raw' = [raw EXCEPT ![c] = how]
        /\ op[c].kind = "local" => how # "garbled"
        /\ result' = [result EXCEPT ![c] =
                        IF op[c].kind = "local" /\ @ = "pending"
                        THEN LocalResult(how) ELSE @]
  BY Zenon DEF Settle, Remote
<1>2. /\ place[c] = "taken" /\ raw[c] = "held"
      /\ UNCHANGED <<op, call, place, task, buffer, waiters, free, rx>>
  BY DEF Settle
<1>3. ChannelInv' /\ SlotsInv' /\ BufferInv' /\ BackInv' /\ Refused'
  BY <1>2, Unmoved
<1>4. op[c].kind = "local" => LocalResult(how) \in {"value", "error", "closed"}
  BY <1>1 DEF LocalResult
<1>5. RestTypes'
  BY <1>1, <1>2, <1>4 DEF AInv, RestTypes
<1>6. Prepared'
  BY <1>1, <1>2, <1>4 DEF AInv, RestTypes, Prepared
<1>7. ReplyOwned'
  BY <1>1, <1>2, <1>4 DEF AInv, RestTypes, ReplyOwned, Prepared
<1> QED BY <1>3, <1>5, <1>6, <1>7 DEF AInv

LEMMA DecodeResStep == ASSUME AInv, NEW c \in Callers, DecodeRes(c) PROVE AInv'
<1>1. /\ task[c] = "running"
      /\ raw[c] # "held" \/ result[c] # "pending"
      /\ task' = [task EXCEPT ![c] = "ended"]
      /\ result' = [result EXCEPT ![c] = IF @ = "pending" THEN Decoded(raw[c]) ELSE @]
      /\ UNCHANGED <<op, call, place, raw, buffer, waiters, free, rx>>
  BY DEF DecodeRes
<1>2. ChannelInv' /\ SlotsInv' /\ BufferInv' /\ BackInv' /\ Refused'
  BY <1>1, Unmoved
<1>3. /\ Decoded(raw[c]) \in {"value", "error"}
      /\ Decoded(raw[c]) = "value" => place[c] = "taken"
  BY DEF Decoded, AInv, Prepared
<1>4. RestTypes'
  BY <1>1, <1>3 DEF AInv, RestTypes
<1>5. Prepared'
  BY <1>1, <1>3 DEF AInv, RestTypes, Prepared
<1>6. ReplyOwned'
  BY <1>1, <1>3 DEF AInv, RestTypes, ReplyOwned
<1> QED BY <1>2, <1>4, <1>5, <1>6 DEF AInv

LEMMA DropReceiverStep == ASSUME AInv, NEW c \in Callers, DropReceiver(c) PROVE AInv'
<1>1. /\ result' = [result EXCEPT ![c] = "gone"] /\ call[c] = "sent"
      /\ UNCHANGED <<op, call, place, raw, task, buffer, waiters, free, rx>>
  BY DEF DropReceiver
<1>2. ChannelInv' /\ SlotsInv' /\ BufferInv' /\ BackInv' /\ Refused'
  BY <1>1, Unmoved
<1>3. RestTypes'
  BY <1>1 DEF AInv, RestTypes
<1>4. place[c] # "caller"
  BY <1>1 DEF AInv, BackInv
<1>5. Prepared'
  BY <1>1, <1>4 DEF AInv, RestTypes, Prepared
<1>6. ReplyOwned'
  BY <1>1 DEF AInv, RestTypes, ReplyOwned
<1> QED BY <1>2, <1>3, <1>5, <1>6 DEF AInv

LEMMA StartStep == ASSUME AInv, NEW c \in Callers, Start(c) PROVE AInv'
<1> DEFINE tries == op[c].mode \in {"try", "try_reserve"}
           ends == IF is_closed THEN "Closed"
                   ELSE IF free > 0 THEN "permit"
                   ELSE IF tries THEN "Full" ELSE "waiting"
<1>1. /\ call[c] = "idle" /\ ~Unsupported(op[c])
      /\ call' = [call EXCEPT ![c] = ends]
      /\ free' = IF ends = "permit" THEN free - 1 ELSE free
      /\ waiters' = IF ends = "waiting" THEN Append(waiters, c) ELSE waiters
      /\ Prepare(c, ends \in Errors)
      /\ UNCHANGED <<op, place, buffer, rx>>
  BY DEF Start
<1>2. /\ ends \in {"Closed", "permit", "Full", "waiting"}
      /\ ends = "permit" => free > 0
      /\ ends = "waiting" => rx = "open" /\ ~(free > 0)
  BY DEF is_closed
<1> HIDE DEF ends, tries
<1>3. /\ call \in [Callers -> CallStates] /\ free \in Nat
      /\ place[c] = "caller"
  BY <1>1 DEF AInv, ChannelInv, BackInv
<1>4. /\ call'[c] = ends
      /\ \A d \in Callers \ {c} : call'[d] = call[d]
  BY <1>1, <1>3
<1>5. ChannelInv'
  <2>1. CASE ends # "waiting"
    <3>1. ends \in CallStates \ {"waiting"} /\ free' \in Nat /\ free' <= free
      BY <1>1, <1>2, <1>3, <2>1 DEF CallStates, Errors, InCall
    <3> QED BY <3>1, <2>1, <1>1, SetCall, Zenon DEF AInv
  <2>2. CASE ends = "waiting"
    <3>1. free' = 0 /\ rx = "open" /\ waiters' = Append(waiters, c) /\ rx' = rx
      BY <2>2, <1>1, <1>2, <1>3
    <3>2. \A i \in 1 .. Len(waiters) :
            waiters[i] \in Callers \ {c} /\ call[waiters[i]] = "waiting"
      BY <1>1 DEF AInv, ChannelInv, Queue
    <3>3. waiters \in Seq(Callers) /\ IsInjective(waiters)
      BY DEF AInv, ChannelInv, Queue
    <3>4. /\ waiters' \in Seq(Callers) /\ IsInjective(waiters')
          /\ Len(waiters) \in Nat /\ Len(waiters') = Len(waiters) + 1
          /\ \A i \in 1 .. Len(waiters) : waiters'[i] = waiters[i]
          /\ waiters'[Len(waiters) + 1] = c
      <4>1. \A i \in 1 .. Len(waiters) : waiters[i] # c
        BY <3>2
      <4>2. waiters' = Append(waiters, c) /\ waiters \in Seq(Callers) /\ IsInjective(waiters)
        BY <3>1, <3>3
      <4>3. /\ Append(waiters, c) \in Seq(Callers) /\ IsInjective(Append(waiters, c))
            /\ Len(waiters) \in Nat /\ Len(Append(waiters, c)) = Len(waiters) + 1
            /\ \A i \in 1 .. Len(waiters) : Append(waiters, c)[i] = waiters[i]
            /\ Append(waiters, c)[Len(waiters) + 1] = c
        BY <4>1, <4>2, Appended
      <4> QED BY <4>2, <4>3
    <3>5. \A i \in 1 .. Len(waiters') : call'[waiters'[i]] = "waiting"
      <4> SUFFICES ASSUME NEW i \in 1 .. Len(waiters')
                   PROVE  call'[waiters'[i]] = "waiting"
        OBVIOUS
      <4>1. CASE i = Len(waiters) + 1
        BY <4>1, <3>4, <2>2, <1>4
      <4>2. CASE i \in 1 .. Len(waiters)
        BY <4>2, <3>2, <3>4, <1>4
      <4> QED BY <4>1, <4>2, <3>4
    <3>6. AllQueued(call, waiters, free)'
      <4> SUFFICES ASSUME NEW d \in Callers, call'[d] = "waiting"
                   PROVE  free' = 0 /\ \E i \in 1 .. Len(waiters') : waiters'[i] = d
        BY DEF AllQueued
      <4>1. CASE d = c
        BY <4>1, <3>1, <3>4
      <4>2. CASE d # c
        <5>1. PICK i \in 1 .. Len(waiters) : waiters[i] = d
          BY <4>2, <3>1, <1>4 DEF AInv, ChannelInv, AllQueued
        <5> QED BY <5>1, <3>1, <3>4
      <4> QED BY <4>1, <4>2
    <3>7. call' \in [Callers -> CallStates]
      BY <1>1, <1>3, <2>2 DEF CallStates, InCall
    <3> QED BY <3>1, <3>4, <3>5, <3>6, <3>7 DEF ChannelInv, Queue
  <2> QED BY <2>1, <2>2
<1>6. BackInv'
  BY <1>1, <1>2, <1>4, SMTT(30) DEF AInv, BackInv
<1>7. BufferInv'
  BY <1>1 DEF AInv, BufferInv
<1>8. SlotsInv'
  <2> DEFINE new == [call EXCEPT ![c] = ends]
  <2>1. /\ \A d \in Callers \ {c} : new[d] = call[d]
        /\ new[c] = ends
    BY <1>3
  <2>2. call' = new
    BY <1>1
  <2> HIDE DEF new
  <2>3. /\ Cardinality(Slots(new)) \in Nat /\ Cardinality(Slots(call)) \in Nat
        /\ ends = "permit" => Cardinality(Slots(new)) = Cardinality(Slots(call)) + 1
        /\ ends # "permit" => Cardinality(Slots(new)) = Cardinality(Slots(call))
    BY <2>1, <1>1, <1>2, SlotsCount, Zenon
  <2>4. CASE ends # "permit"
    BY <2>2, <2>3, <2>4, <1>1 DEF AInv, SlotsInv
  <2>5. CASE ends = "permit"
    <3> DEFINE k == Cardinality(Slots(call))
               n == Cardinality(Slots(call'))
               b == Len(buffer)
               l == Cardinality(Stranded(place))
    <3>1. k \in Nat /\ n = k + 1 /\ free' = free - 1 /\ b \in Nat
      BY <2>2, <2>3, <2>5, <1>1 DEF AInv, BufferInv
    <3> HIDE DEF k, n, b, l
    <3>2. free' + b + n = free + b + k
      BY <3>1, <1>3
    <3>3. free' + b + n + l = free + b + k + l
      BY <3>2
    <3> QED BY <3>3, <1>1 DEF k, n, b, l, AInv, SlotsInv
  <2> QED BY <2>4, <2>5
<1>9. RestTypes'
  BY <1>1 DEF Prepare, AInv, RestTypes
<1>10. \A d \in Callers \ {c} : raw'[d] = raw[d] /\ result'[d] = result[d] /\ task'[d] = task[d]
  BY <1>1, SMTT(30) DEF Prepare, AInv, RestTypes
<1>11. /\ raw'[c] \in {"none", "dropped", "held"} /\ result'[c] \in {"none", "pending"}
       /\ raw'[c] = "held" => ends \in InCall
       /\ result'[c] = "pending" => raw'[c] = "held" /\ op[c].reply /\ op[c].kind # "address"
       /\ result'[c] = "pending" /\ op[c].kind = "recipient" => task'[c] = "running"
       /\ op[c].mode \in Reserving => raw'[c] = "none" /\ result'[c] = "none"
  BY <1>1, <1>2, SMTT(30) DEF Prepare, Errors, InCall, AInv, RestTypes
<1>12. result'[c] = "pending" => op[c].kind = "local" \/ task'[c] = "running"
  <2>1. op[c].kind \in Kinds
    BY PlansAssumption DEF AInv, RestTypes, Offered, Ops
  <2>2. op[c].reply => op[c].kind \notin {"created", "created_remote"}
    BY <1>1 DEF Unsupported, SenderProxyRefuses, RemoteAddressableRefuses
  <2> QED BY <2>1, <2>2, <1>11 DEF Kinds
<1>13. Prepared' /\ ReplyOwned'
  <2>1. UNCHANGED <<op, place>> /\ Prepared /\ ReplyOwned
    BY <1>1 DEF AInv
  <2>2. Prepared'
    BY <2>1, <1>10, <1>11, <1>12, SMTT(30) DEF Prepared
  <2>3. ReplyOwned'
    BY <2>1, <1>4, <1>10, <1>11, SMTT(30) DEF ReplyOwned
  <2> QED BY <2>2, <2>3
<1>14. Refused'
  <2>1. op[c].mode \in Reserving => op[c].kind = "local"
    BY <1>1, Offers DEF AInv, RestTypes, Unsupported, ReserveRefuses
  <2> QED BY <2>1, <1>1, <1>4, SMTT(30) DEF AInv, Refused
<1> QED BY <1>5, <1>6, <1>7, <1>8, <1>9, <1>13, <1>14 DEF AInv

LEMMA RecvStep == ASSUME AInv, Recv PROVE AInv'
<1> DEFINE h == Head(buffer)
           t == Tail(buffer)
<1>1. /\ buffer # <<>> /\ buffer' = t /\ place' = [place EXCEPT ![h] = "taken"]
      /\ Release(call, waiters)
      /\ UNCHANGED <<op, raw, result, task, rx>>
  BY DEF Recv, replies
<1>2. /\ h \in Callers /\ h = buffer[1] /\ Len(buffer) >= 1
      /\ t \in Seq(Callers) /\ IsInjective(t)
      /\ Len(t) = Len(buffer) - 1
      /\ \A i \in 1 .. Len(t) :
           i + 1 \in 1 .. Len(buffer) /\ t[i] = buffer[i + 1] /\ t[i] # h
      /\ \A j \in 1 .. Len(buffer) :
           buffer[j] # h => \E i \in 1 .. Len(t) : t[i] = buffer[j]
  BY <1>1, Tailed DEF AInv, BufferInv
<1>3. Len(buffer) \in Nat /\ place[h] = "buffer"
  <2>1. 1 \in 1 .. Len(buffer) /\ Len(buffer) \in Nat
    BY <1>2 DEF AInv, BufferInv
  <2> QED BY <2>1, <1>2 DEF AInv, BufferInv
<1> HIDE DEF h, t
<1>4. /\ place'[h] = "taken"
      /\ \A d \in Callers \ {h} : place'[d] = place[d]
  BY <1>1, <1>2, SMTT(30) DEF AInv, RestTypes
<1>5. /\ call' \in [Callers -> CallStates]
      /\ \A d \in Callers : \/ call'[d] = call[d]
                            \/ call[d] = "waiting" /\ call'[d] = "granted"
      /\ free' \in Nat
      /\ Queue(call', waiters')
      /\ AllQueued(call, waiters, free) => AllQueued(call', waiters', free')
      /\ Cardinality(Slots(call')) \in Nat /\ Cardinality(Slots(call)) \in Nat
      /\ free' + Cardinality(Slots(call')) = free + 1 + Cardinality(Slots(call))
  <2>1. call \in [Callers -> CallStates] /\ Queue(call, waiters) /\ free \in Nat
    BY DEF AInv, ChannelInv
  <2> QED BY <2>1, <1>1, Released
<1>6. ChannelInv'
  BY <1>1, <1>5 DEF AInv, ChannelInv
<1>7. BufferInv'
  <2>1. \A i \in 1 .. Len(t) : place'[t[i]] = "buffer"
    <3> SUFFICES ASSUME NEW i \in 1 .. Len(t)
                 PROVE  place'[t[i]] = "buffer"
      OBVIOUS
    <3>1. i + 1 \in 1 .. Len(buffer) /\ t[i] = buffer[i + 1] /\ t[i] # h
      BY <1>2
    <3>2. place[buffer[i + 1]] = "buffer" /\ buffer[i + 1] \in Callers
      BY <3>1 DEF AInv, BufferInv
    <3> QED BY <3>1, <3>2, <1>4
  <2>2. ASSUME NEW d \in Callers, place'[d] = "buffer"
        PROVE  \E i \in 1 .. Len(t) : t[i] = d
    <3>1. d # h /\ place[d] = "buffer"
      BY <2>2, <1>4
    <3>2. PICK j \in 1 .. Len(buffer) : buffer[j] = d
      BY <3>1 DEF AInv, BufferInv
    <3> QED BY <3>1, <3>2, <1>2
  <2> QED BY <2>1, <2>2, <1>1, <1>2 DEF BufferInv
<1>8. SlotsInv'
  <2>1. Stranded(place') = Stranded(place)
    BY <1>3, <1>4 DEF Stranded
  <2> DEFINE k == Cardinality(Slots(call))
             n == Cardinality(Slots(call'))
             b == Len(buffer)
             a == Len(buffer')
             l == Cardinality(Stranded(place))
  <2>2. /\ k \in Nat /\ n \in Nat /\ b \in Nat /\ a = b - 1
        /\ free' + n = free + 1 + k /\ free \in Nat /\ free' \in Nat
    BY <1>1, <1>2, <1>3, <1>5 DEF AInv, ChannelInv
  <2> HIDE DEF k, n, b, a, l
  <2>3. free' + a + n = free + b + k
    <3> DEFINE f == free'
               g == free
    <3>1. f \in Nat /\ g \in Nat /\ f + n = g + 1 + k
      BY <2>2, Zenon
    <3> HIDE DEF f, g
    <3>2. f + a + n = (f + n) + a /\ g + b + k = (g + 1 + k) + a
      BY <2>2, <3>1
    <3> QED BY <3>1, <3>2 DEF f, g
  <2>4. free' + a + n + l = free + b + k + l
    BY <2>3
  <2> QED BY <2>1, <2>4 DEF k, n, b, a, l, AInv, SlotsInv
<1>9. BackInv'
  BY <1>3, <1>4, <1>5 DEF AInv, BackInv
<1>10. RestTypes'
  BY <1>1, Zenon DEF AInv, RestTypes
<1>11. Prepared'
  BY <1>1, <1>3, <1>4 DEF AInv, Prepared
<1>12. ReplyOwned'
  BY <1>1, <1>3, <1>4, <1>5 DEF AInv, ReplyOwned, InCall
<1>13. Refused'
  BY <1>1, <1>5 DEF AInv, Refused
<1> QED BY <1>6, <1>7, <1>8, <1>9, <1>10, <1>11, <1>12, <1>13 DEF AInv

LEMMA CloseStep == ASSUME AInv, close PROVE AInv'
<1>1. /\ rx' = "closed" /\ waiters' = <<>>
      /\ UNCHANGED <<op, call, place, raw, result, task, buffer, free>>
  BY DEF close, replies
<1>2. ChannelInv'
  BY <1>1 DEF AInv, ChannelInv, Queue, IsInjective
<1>3. SlotsInv'
  BY <1>1 DEF AInv, SlotsInv
<1>4. BufferInv'
  BY <1>1 DEF AInv, BufferInv
<1>5. BackInv' /\ RestTypes' /\ Prepared' /\ ReplyOwned' /\ Refused'
  BY <1>1 DEF AInv, BackInv, RestTypes, Prepared, ReplyOwned, Refused
<1> QED BY <1>2, <1>3, <1>4, <1>5 DEF AInv

LEMMA DropRxStep == ASSUME AInv, DropRx PROVE AInv'
<1> DEFINE lost == {c \in Callers : place[c] = "buffer"}
<1>1. /\ rx' = "dropped" /\ buffer' = <<>> /\ waiters' = <<>>
      /\ free' = free + Len(buffer)
      /\ place' = [c \in Callers |-> IF c \in lost THEN "discarded" ELSE place[c]]
      /\ raw' = [c \in Callers |->
                   IF c \in lost /\ raw[c] = "held" THEN "dropped" ELSE raw[c]]
      /\ result' = [c \in Callers |->
                      IF c \in lost /\ op[c].kind = "local" /\ result[c] = "pending"
                      THEN "closed" ELSE result[c]]
      /\ UNCHANGED <<op, call, task>>
  BY DEF DropRx
<1>2. \A c \in Callers :
        /\ place[c] = "buffer" =>
             /\ place'[c] = "discarded" /\ raw'[c] # "held"
             /\ raw[c] # "held" => raw'[c] = raw[c]
             /\ raw[c] = "held" => raw'[c] = "dropped"
             /\ op[c].kind = "local" /\ result[c] = "pending" => result'[c] = "closed"
             /\ ~(op[c].kind = "local" /\ result[c] = "pending") => result'[c] = result[c]
        /\ place[c] # "buffer" =>
             place'[c] = place[c] /\ raw'[c] = raw[c] /\ result'[c] = result[c]
  BY <1>1
<1>3. free \in Nat /\ Len(buffer) \in Nat
  BY DEF AInv, ChannelInv, BufferInv
<1>4. ChannelInv'
  BY <1>1, <1>3 DEF AInv, ChannelInv, Queue, IsInjective
<1>5. BufferInv'
  BY <1>1, <1>2 DEF BufferInv, IsInjective
<1>6. SlotsInv'
  <2>1. Stranded(place') = Stranded(place)
    BY <1>2 DEF Stranded
  <2>2. free' + Len(buffer') = free + Len(buffer)
    BY <1>1, <1>3
  <2> QED BY <2>1, <2>2, <1>1 DEF AInv, SlotsInv
<1>7. BackInv'
  BY <1>1, <1>2 DEF AInv, BackInv
<1>8. RestTypes'
  BY <1>1 DEF AInv, RestTypes
<1>9. Prepared'
  BY <1>1, <1>2 DEF AInv, Prepared
<1>10. ReplyOwned'
  BY <1>1, <1>2 DEF AInv, ReplyOwned, Prepared
<1>11. Refused'
  BY <1>1 DEF AInv, Refused
<1> QED BY <1>4, <1>5, <1>6, <1>7, <1>8, <1>9, <1>10, <1>11 DEF AInv

LEMMA AStep == AInv /\ [Next]_vars => AInv'
<1> SUFFICES ASSUME AInv, [Next]_vars PROVE AInv'
  OBVIOUS
<1>1. ASSUME NEW c \in Callers, Refuse(c) \/ Start(c) \/ Poll(c) \/ DropPermit(c)
                                \/ Push(c) \/ PermitSend(c) \/ Return(c)
      PROVE  AInv'
  BY <1>1, RefuseStep, StartStep, PollStep, DropPermitStep, PushStep,
     PermitSendStep, ReturnStep
<1>2. ASSUME NEW c \in Callers, PollClosed(c) \/ Elapse(c) \/ Cancel(c)
      PROVE  AInv'
  BY <1>2, EndedEarly DEF PollClosed, Elapse, Cancel, InCall
<1>3. ASSUME NEW c \in Callers, Settle(c) \/ DecodeRes(c) \/ DropReceiver(c)
      PROVE  AInv'
  BY <1>3, SettleStep, DecodeResStep, DropReceiverStep
<1>4. CASE Recv \/ close \/ DropRx
  BY <1>4, RecvStep, CloseStep, DropRxStep
<1>5. CASE UNCHANGED vars
  <2>1. UNCHANGED <<op, call, place, raw, result, task, buffer, waiters, free, rx>>
    BY <1>5 DEF vars
  <2>2. ChannelInv' /\ SlotsInv' /\ BufferInv' /\ BackInv' /\ Refused'
    BY <2>1, Unmoved
  <2>3. RestTypes' /\ Prepared' /\ ReplyOwned'
    BY <2>1 DEF AInv, RestTypes, Prepared, ReplyOwned
  <2> QED BY <2>2, <2>3 DEF AInv
<1> QED BY <1>1, <1>2, <1>3, <1>4, <1>5 DEF Next

-----------------------------------------------------------------------------
(* Theorems.                                                                *)

\* The inductive invariant holds in every behaviour.
THEOREM Invariant == Spec => []AInv
BY AInit, AStep, PTL DEF Spec

\* Every variable keeps to its values, and the queue of the channel holds each
\* waiting caller once, for any callers, capacity and calls.
THEOREM TypeCorrect == Spec => []TypeOK
<1>1. AInv => TypeOK
  <2> SUFFICES ASSUME AInv PROVE TypeOK
    OBVIOUS
  <2>1. free \in 0 .. Capacity
    <3> DEFINE k == Cardinality(Slots(call))
               b == Len(buffer)
               l == Cardinality(Stranded(place))
    <3>1. Slots(call) \in SUBSET Callers /\ Stranded(place) \in SUBSET Callers
      BY DEF Slots, Stranded
    <3>2. IsFiniteSet(Slots(call)) /\ IsFiniteSet(Stranded(place))
      BY <3>1, CallersAssumption, FS_Subset
    <3>3. k \in Nat /\ l \in Nat
      BY <3>2, FS_CardinalityType
    <3>4. free + b + k + l = Capacity
      BY DEF AInv, SlotsInv
    <3>5. b \in Nat /\ free \in Nat
      BY DEF AInv, ChannelInv, BufferInv
    <3> HIDE DEF k, b, l
    <3> QED BY <3>3, <3>4, <3>5, CapacityAssumption
  <2>2. Range(waiters) \subseteq Having({"waiting"})
    BY DEF AInv, ChannelInv, Queue, Range, Having
  <2>3. /\ buffer \in Seq(Callers) /\ IsInjective(buffer)
        /\ waiters \in Seq(Callers) /\ IsInjective(waiters)
        /\ call \in [Callers -> CallStates]
    BY DEF AInv, ChannelInv, BufferInv, Queue
  <2> QED BY <2>1, <2>2, <2>3 DEF AInv, RestTypes, TypeOK, CallStates
<1> QED BY <1>1, Invariant, PTL

\* No slot of the channel is lost or made, and nobody waits in an open channel
\* while one is free (LocalAddress, SendPermit, OwnedSendPermit).
THEOREM SlotsSafe == Spec => []SlotsAccounted
<1>1. AInv => SlotsAccounted
  <2> SUFFICES ASSUME AInv PROVE SlotsAccounted
    OBVIOUS
  <2>1. /\ Slots(call) = Having({"granted", "permit"})
        /\ Stranded(place) = {c \in Callers : place[c] = "stranded"}
    BY DEF Slots, Stranded, Having
  <2>2. ~is_closed /\ Having({"waiting"}) # {} => free = 0
    BY DEF AInv, ChannelInv, AllQueued, is_closed, Having
  <2> QED BY <2>1, <2>2 DEF AInv, SlotsInv, SlotsAccounted
<1> QED BY <1>1, Invariant, PTL

\* A call that returns Ok put its message into the channel once; one that fails or
\* is given up keeps it (SendError::with_msg).
THEOREM HandedBackSafe == Spec => []HandedBack
<1>1. AInv => HandedBack
  <2> SUFFICES ASSUME AInv PROVE HandedBack
    OBVIOUS
  <2>1. Range(buffer) = {c \in Callers : place[c] = "buffer"}
    BY DEF AInv, BufferInv, Range
  <2> QED BY <2>1 DEF AInv, BackInv, HandedBack
<1> QED BY <1>1, Invariant, PTL

\* The sending half of a reply lives with its message, and nobody waits for one that
\* is gone without a task that will say so (send, decode_res).
THEOREM ReplySafe == Spec => []ReplyOwned
<1>1. AInv => ReplyOwned
  BY DEF AInv
<1> QED BY <1>1, Invariant, PTL

=============================================================================
