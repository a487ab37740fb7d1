------------------------------- MODULE Codec --------------------------------
(***************************************************************************)
(* Encode and Decode: the two codecs for primitive types, vectors and      *)
(* tuples (acktor/src/codec/default_codec.rs and prost_codec.rs), what     *)
(* they share (common_codec.rs), and the control messages and addresses,   *)
(* whose encoding registers the actors they name (control_message.rs,      *)
(* codec.rs).                                                              *)
(*                                                                         *)
(* A type is a tuple <<kind, ...>> and a byte a number below 256.  A       *)
(* buffer is decoded where it lies: `at` is its address modulo 8, and the  *)
(* slices that a decoder takes from it lie at theirs.  An error is a pair   *)
(* of its variant and of the text it displays, of which only the text is   *)
(* sent.  A float is its bits, read as a signed number.                    *)
(***************************************************************************)
EXTENDS Integers, Sequences

LOCAL INSTANCE SequencesExt

CONSTANTS
  Cases,      \* the types and values to encode, as pairs
  Addresses,  \* addresses modulo 8 that a received buffer may have
  RemoteIds,  \* indices that belong to actors of another process
  PlainIds    \* indices of actors of this process that take no remote messages

ASSUME CodecAssumption ==
  Addresses \subseteq 0 .. 7 /\ RemoteIds \subseteq Nat /\ PlainIds \subseteq Nat

VARIABLES
  codec,       \* the codec that was built in: "default" or "prost"
  type,        \* the type of the message
  value,       \* its value
  context,     \* whether the caller gives an encode context
  at,          \* the address of the received buffer
  stage,       \* what has been done
  length,      \* what encoded_len returned
  buf,         \* what encode wrote
  registered,  \* the actors that encoding registered
  decoded      \* what decode returned

input == <<codec, type, value, context, at>>
vars == <<codec, type, value, context, at, stage, length, buf, registered, decoded>>

Ok(v) == <<"ok", v>>
Fail(reason) == <<"err", reason>>
isOk(r) == r[1] = "ok"

\* map on a Result.
then(r, F(_)) == IF isOk(r) THEN Ok(F(r[2])) ELSE r

\* The first failure of a sequence of results, or all of their values.
RECURSIVE collect(_)
collect(rs) ==
  IF rs = <<>> THEN Ok(<<>>)
  ELSE LET rest == collect(Tail(rs)) IN
       IF ~isOk(Head(rs)) THEN Head(rs) ELSE then(rest, LAMBDA vs : <<Head(rs)[2]>> \o vs)

sum(ns) == FoldSeq(LAMBDA m, n : m + n, 0, ns)

map(F(_), s) == [i \in DOMAIN s |-> F(s[i])]

-----------------------------------------------------------------------------
(* Integers on the wire.                                                    *)

width(k) == CASE k \in {"bool", "u8"} -> 1 [] k = "i16" -> 2
              [] k \in {"u32", "f32"} -> 4 [] k \in {"usize", "isize"} -> 8

signed(k) == k \in {"i16", "isize", "f32"}

\* The bits of -0.0, which differ from those of 0.0 and compare equal to it.
NegativeZero == -2147483647 - 1
isZero(k, v) == v \in {0} \cup (IF k = "f32" THEN {NegativeZero} ELSE {})

\* w bytes, little-endian, in two's complement.
RECURSIVE le(_, _)
le(n, w) == IF w = 0 THEN <<>> ELSE <<n % 256>> \o le(n \div 256, w - 1)

RECURSIVE unleUnsigned(_)
unleUnsigned(b) == IF b = <<>> THEN 0 ELSE Head(b) + 256 * unleUnsigned(Tail(b))

\* The value of little-endian bytes; the last one holds the sign.
unle(k, b) ==
  IF signed(k) /\ b[Len(b)] >= 128
  THEN -1 - unleUnsigned([i \in DOMAIN b |-> 255 - b[i]])
  ELSE unleUnsigned(b)

\* Groups of 7 bits; a negative number is one of 64 bits and takes ten.
RECURSIVE groups(_, _)
groups(n, k) ==
  IF k = 10 THEN <<1>>
  ELSE IF n \in 0 .. 127 THEN <<n>>
  ELSE <<(n % 128) + 128>> \o groups(n \div 128, k + 1)
varint(n) == groups(n, 1)

encoded_len_varint(n) == Len(varint(n))

RECURSIVE ungroup(_)
ungroup(b) == IF b = <<>> THEN 0 ELSE (Head(b) % 128) + 128 * ungroup(Tail(b))

\* Values of more than 28 bits do not occur here but for the signs.
unvarint(b) == IF Len(b) = 10 THEN ungroup(SubSeq(b, 1, 4)) - 2^28 ELSE ungroup(b)

\* zigzag32 and zigzag64: (n << 1) ^ (n >> 63).
zigzag(n) == IF n >= 0 THEN 2 * n ELSE -2 * n - 1
unzigzag(n) == IF n % 2 = 0 THEN n \div 2 ELSE -((n + 1) \div 2)

-----------------------------------------------------------------------------
(* Protobuf messages.                                                       *)

\* LENGTH_DELIMITED_TAGS.
tag(field) == <<field * 8 + 2>>
delimited(field, body) == tag(field) \o varint(Len(body)) \o body

\* A field of a proto3 message is left out when it has its default value.
intField(field, n) == IF n = 0 THEN <<>> ELSE <<field * 8>> \o varint(n)
bytesField(field, b) == IF b = <<>> THEN <<>> ELSE delimited(field, b)

\* Mutant: length_delimited_field_encoded_len, which is 0 for an empty value.
delimitedLenSkipsEmpty(field, n) ==
  IF n = 0 THEN 0 ELSE Len(tag(field)) + encoded_len_varint(n) + n
\* optional_length_delimited_field_encoded_len.
delimitedLen(field, n) == Len(tag(field)) + encoded_len_varint(n) + n

\* The fields of an encoded message: number, content and where the content lies.
RECURSIVE fields(_, _)
fields(b, a) ==
  IF b = <<>> THEN <<>>
  ELSE LET wire == b[1] % 8
           n == IF wire \in {0, 2}
                THEN CHOOSE i \in 1 .. Len(b) - 1 : /\ b[i + 1] < 128
                                                   /\ \A j \in 1 .. i - 1 : b[j + 1] >= 128
                ELSE 0
           size == CASE wire = 0 -> n [] wire = 5 -> 4
                     [] wire = 2 -> unvarint(SubSeq(b, 2, n + 1))
           skip == 1 + IF wire = 2 THEN n ELSE 0
           body == SubSeq(b, skip + 1, skip + size)
       IN <<[number |-> b[1] \div 8, body |-> body, at |-> (a + skip) % 8]>>
          \o fields(SubSeq(b, skip + size + 1, Len(b)), (a + skip + size) % 8)

has(fs, n) == \E i \in DOMAIN fs : fs[i].number = n
field(fs, n) == fs[CHOOSE i \in DOMAIN fs : /\ fs[i].number = n
                                            /\ \A j \in i + 1 .. Len(fs) : fs[j].number # n]
bodyOf(fs, n) == IF has(fs, n) THEN field(fs, n).body ELSE <<>>
intOf(fs, n) == IF has(fs, n) THEN unvarint(field(fs, n).body) ELSE 0

\* The varints of a packed field.
RECURSIVE unpack(_)
unpack(b) ==
  IF b = <<>> THEN <<>>
  ELSE LET n == CHOOSE i \in DOMAIN b : b[i] < 128 /\ \A j \in 1 .. i - 1 : b[j] >= 128
       IN <<unvarint(SubSeq(b, 1, n))>> \o unpack(SubSeq(b, n + 1, Len(b)))

-----------------------------------------------------------------------------
(* Primitive types, strings and vectors.                                    *)

Scalars == {"bool", "u8", "i16", "u32", "usize", "isize", "f32"}

scalarLen(c, k, v) ==
  IF c = "default" THEN width(k)
  ELSE IF isZero(k, v) THEN 0
  ELSE 1 + IF k = "f32" THEN 4 ELSE encoded_len_varint(v)

scalarEncode(c, k, v) ==
  IF c = "default" THEN le(v, width(k))
  ELSE IF k = "f32" THEN (IF isZero(k, v) THEN <<>> ELSE <<13>> \o le(v, 4))
  ELSE intField(1, v)

scalarDecode(c, k, b, a) ==
  IF c = "default"
  THEN IF Len(b) = width(k) THEN Ok(unle(k, b)) ELSE Fail("size")
  ELSE LET fs == fields(b, a) IN
       Ok(IF k = "f32" /\ has(fs, 1) THEN unle(k, bodyOf(fs, 1)) ELSE intOf(fs, 1))

stringEncode(c, v) == IF c = "default" THEN v ELSE bytesField(1, v)
stringLen(c, v) ==
  IF c = "default" \/ v = <<>> THEN Len(v) ELSE delimitedLen(1, Len(v))
stringDecode(c, b, a) == Ok(IF c = "default" THEN b ELSE bodyOf(fields(b, a), 1))

\* One element of a packed field.
toVarint(k, v) == IF signed(k) THEN zigzag(v) ELSE v
packed(k, v) == IF k = "f32" THEN le(v, 4) ELSE varint(toVarint(k, v))

vecLen(c, k, v) ==
  CASE c = "default" -> Len(v) * width(k)
    [] v = <<>> -> 0
    [] k = "u8" -> delimitedLen(1, Len(v))
    [] k = "f32" -> delimitedLen(1, Len(v) * width(k))
    [] OTHER -> delimitedLen(1, sum(map(LAMBDA x : encoded_len_varint(toVarint(k, x)), v)))

vecEncode(c, k, v) ==
  IF c = "default" THEN FlattenSeq(map(LAMBDA x : le(x, width(k)), v))
  ELSE bytesField(1, IF k = "u8" THEN v ELSE FlattenSeq(map(LAMBDA x : packed(k, x), v)))

\* Bytes as elements of w bytes each.
chunks(b, w) == [i \in 1 .. Len(b) \div w |-> SubSeq(b, (i - 1) * w + 1, i * w)]

\* The default codec refers to the bytes as a slice of elements (zerocopy::Ref),
\* which have to be as many as fit and aligned.
vecDecode(c, k, b, a) ==
  LET w == width(k)
      body == bodyOf(fields(b, a), 1)
  IN CASE c = "default" /\ b = <<>> -> Ok(<<>>)
       [] c = "default" /\ b # <<>> ->
            IF Len(b) % w # 0 THEN Fail("size")
            ELSE IF a % w # 0 THEN Fail("alignment")
            ELSE Ok(map(LAMBDA x : unle(k, x), chunks(b, w)))
       [] c = "prost" /\ k = "u8" -> Ok(body)
       [] c = "prost" /\ k = "f32" -> Ok(map(LAMBDA x : unle(k, x), chunks(body, w)))
       [] OTHER -> Ok(map(LAMBDA x : IF signed(k) THEN unzigzag(x) ELSE x, unpack(body)))

-----------------------------------------------------------------------------
(* Errors cross as text.                                                    *)

\* What an error displays.  Its variant, and the data it holds, stay behind.
to_string(e) == e[2]

\* E::from(String): the variant of errors that hold a text.
from(s) == <<"text", s>>

-----------------------------------------------------------------------------
(* Control messages.  Encoding one registers the actor it names.            *)

Controls == {"address", "signal", "supervisor", "observer", "event"}

\* Mutant: an observer that is unregistered is not registered for messages.
registersOnRegister(k, v) ==
  CASE k = "signal" -> <<>>
    [] k = "address" -> <<v>>
    [] k = "supervisor" -> IF v[1] = "set" THEN <<v[2]>> ELSE <<>>
    [] k = "observer" -> IF v[1] = "register" THEN <<v[2]>> ELSE <<>>
    [] k = "event" -> <<v[2]>>

\* The index of the actor that encoding a control message registers, if any.
registers(k, v) ==
  CASE k = "signal" -> <<>>
    [] k = "address" -> <<v>>
    [] k = "supervisor" -> IF v[1] = "set" THEN <<v[2]>> ELSE <<>>
    [] k \in {"observer", "event"} -> <<v[2]>>

eventFields == [warn |-> 1, terminated |-> 2, panicked |-> 3, state |-> 4]

\* Mutant: the reason of a termination is a plain string.
buildEventPlain(v) ==
  delimited(eventFields[v[1]],
    intField(1, v[2])
    \o IF v[1] = "state" THEN intField(2, v[3])
       ELSE IF v[1] = "terminated" THEN bytesField(2, FlattenSeq(map(to_string, v[3])))
       ELSE bytesField(2, IF v[1] = "warn" THEN to_string(v[3]) ELSE v[3]))

\* build_supervision_event_message; the reason of a termination is optional.
buildEvent(v) ==
  delimited(eventFields[v[1]],
    intField(1, v[2])
    \o IF v[1] = "state" THEN intField(2, v[3])
       ELSE IF v[1] = "terminated"
            THEN FlattenSeq(map(LAMBDA e : delimited(2, to_string(e)), v[3]))
       ELSE bytesField(2, IF v[1] = "warn" THEN to_string(v[3]) ELSE v[3]))

\* proto::Signal and proto::CronSignal have one enum; the others are a oneof.
controlEncode(k, v) ==
  CASE k \in {"address", "signal"} -> intField(1, v)
    [] k = "supervisor" -> IF v[1] = "set" THEN <<8>> \o varint(v[2]) ELSE delimited(2, <<>>)
    [] k = "observer" -> <<IF v[1] = "register" THEN 8 ELSE 16>> \o varint(v[2])
    [] k = "event" -> buildEvent(v)

eventDecode(kind, fs) ==
  CASE kind = "warn" -> Ok(<<kind, intOf(fs, 1), from(bodyOf(fs, 2))>>)
    [] kind = "panicked" -> Ok(<<kind, intOf(fs, 1), bodyOf(fs, 2)>>)
    [] kind = "terminated" ->
         Ok(<<kind, intOf(fs, 1), IF has(fs, 2) THEN <<from(bodyOf(fs, 2))>> ELSE <<>> >>)
    [] kind = "state" ->
         IF intOf(fs, 2) % 256 \in 0 .. 4 THEN Ok(<<kind, intOf(fs, 1), intOf(fs, 2) % 256>>)
         ELSE Fail("state")

controlDecode(k, b, a) ==
  LET fs == fields(b, a)
      oneof == IF fs = <<>> THEN 0 ELSE fs[Len(fs)].number
  IN CASE k = "address" -> Ok(intOf(fs, 1))
       [] k = "signal" -> IF intOf(fs, 1) % 256 \in {0, 1} THEN Ok(intOf(fs, 1) % 256)
                          ELSE Fail("signal")
       [] k \in {"supervisor", "observer", "event"} /\ oneof = 0 -> Fail("missing")
       [] k = "supervisor" /\ oneof # 0 ->
            Ok(IF oneof = 1 THEN <<"set", intOf(fs, 1)>> ELSE <<"unset">>)
       [] k = "observer" /\ oneof # 0 ->
            Ok(<<IF oneof = 1 THEN "register" ELSE "unregister", intOf(fs, oneof)>>)
       [] OTHER ->
            eventDecode(CHOOSE e \in DOMAIN eventFields : eventFields[e] = oneof,
                        fields(bodyOf(fs, oneof), field(fs, oneof).at))

-----------------------------------------------------------------------------
(* Tuples, Option, Result, and every type.  Box and Arc add nothing.        *)

RECURSIVE encoded_len(_, _, _)
encoded_len(c, T, v) ==
  LET k == T[1]
      element(i) == encoded_len(c, T[2][i], v[i])
  IN CASE k = "unit" -> 0
       [] k \in Scalars -> scalarLen(c, k, v)
       [] k = "string" -> stringLen(c, v)
       [] k = "vec" -> vecLen(c, T[2], v)
       [] k = "tuple" /\ c = "default" -> sum([i \in DOMAIN v |-> 4 + element(i)])
       [] k = "tuple" /\ c = "prost" -> sum([i \in DOMAIN v |-> delimitedLen(i, element(i))])
       [] k = "option" -> IF v = <<>> THEN 0
                          ELSE delimitedLen(1, encoded_len(c, T[2], v[1]))
       [] k = "result" -> delimitedLen(1, IF v[1] = "ok" THEN encoded_len(c, T[2], v[2])
                                                         ELSE Len(to_string(v[2])))
       [] OTHER -> Len(controlEncode(k, v))

\* The length prefixes are what encoded_len says, not what encode wrote.
prefixed(field_, n, b) == tag(field_) \o varint(n) \o b
encode_element(n, b) == le(n, 4) \o b

RECURSIVE encode(_, _, _)
encode(c, T, v) ==
  LET k == T[1] IN
  CASE k = "unit" -> <<>>
    [] k \in Scalars -> scalarEncode(c, k, v)
    [] k = "string" -> stringEncode(c, v)
    [] k = "vec" -> vecEncode(c, T[2], v)
    [] k = "tuple" ->
         FlattenSeq([i \in DOMAIN v |->
           LET n == encoded_len(c, T[2][i], v[i])
               b == encode(c, T[2][i], v[i])
           IN IF c = "default" THEN encode_element(n, b) ELSE prefixed(i, n, b)])
    [] k = "option" ->
         FlattenSeq(map(LAMBDA x : prefixed(1, encoded_len(c, T[2], x), encode(c, T[2], x)), v))
    [] k = "result" ->
         IF v[1] = "ok" THEN prefixed(1, encoded_len(c, T[2], v[2]), encode(c, T[2], v[2]))
                        ELSE prefixed(2, Len(to_string(v[2])), to_string(v[2]))
    [] OTHER -> controlEncode(k, v)

\* decode_element: the next element of a tuple, or why there is none.
RECURSIVE elements(_, _, _)
elements(b, a, n) ==
  IF n = 0 THEN <<>>
  ELSE IF Len(b) < 4 THEN <<Fail("missing length")>>
  ELSE LET size == unleUnsigned(SubSeq(b, 1, 4)) IN
       IF Len(b) < 4 + size THEN <<Fail("missing data")>>
       ELSE <<Ok([body |-> SubSeq(b, 5, 4 + size), at |-> (a + 4) % 8])>>
            \o elements(SubSeq(b, 5 + size, Len(b)), (a + 4 + size) % 8, n - 1)

RECURSIVE decode(_, _, _, _)
decode(c, T, b, a) ==
  LET k == T[1]
      fs == fields(b, a)
      inner(f) == decode(c, T[2], f.body, f.at)
  IN CASE k = "unit" -> Ok(<<>>)
       [] k \in Scalars -> scalarDecode(c, k, b, a)
       [] k = "string" -> stringDecode(c, b, a)
       [] k = "vec" -> vecDecode(c, T[2], b, a)
       [] k = "tuple" ->
            LET es == IF c = "default" THEN elements(b, a, Len(T[2]))
                      ELSE [i \in DOMAIN T[2] |-> IF has(fs, i) THEN Ok(field(fs, i))
                                                                ELSE Fail("missing field")]
            IN collect([i \in DOMAIN es |->
                          IF isOk(es[i]) THEN decode(c, T[2][i], es[i][2].body, es[i][2].at)
                          ELSE es[i]])
       [] k = "option" -> IF has(fs, 1) THEN then(inner(field(fs, 1)), LAMBDA x : <<x>>)
                                        ELSE Ok(<<>>)
       [] k = "result" -> CASE has(fs, 1) -> then(inner(field(fs, 1)), LAMBDA x : <<"ok", x>>)
                            [] has(fs, 2) /\ ~has(fs, 1) -> Ok(<<"err", from(bodyOf(fs, 2))>>)
                            [] OTHER -> Fail("missing")
       [] OTHER -> controlDecode(k, b, a)

\* The actors that encode comes to, in its order.
RECURSIVE visits(_, _)
visits(T, v) ==
  CASE T[1] = "tuple" -> FlattenSeq([i \in DOMAIN v |-> visits(T[2][i], v[i])])
    [] T[1] = "option" -> FlattenSeq(map(LAMBDA x : visits(T[2], x), v))
    [] T[1] = "result" -> IF v[1] = "ok" THEN visits(T[2], v[2]) ELSE <<>>
    [] T[1] \in Controls -> registers(T[1], v)
    [] OTHER -> <<>>

-----------------------------------------------------------------------------
Init ==
  /\ codec \in {"default", "prost"}
  /\ \E p \in Cases : type = p[1] /\ value = p[2]
  /\ context \in BOOLEAN
  /\ at \in Addresses
  /\ stage = "new"
  /\ length = 0
  /\ buf = <<>>
  /\ registered = {}
  /\ decoded = Fail("none")

\* encode_to_bytes.  Without a context, and at the first actor of another process or
\* that takes no remote messages (NotRemoteAddressable), encoding an address fails;
\* what it registered before stays registered.
Encode ==
  /\ stage = "new"
  /\ length' = encoded_len(codec, type, value)
  /\ LET ids == visits(type, value)
         bad == {i \in DOMAIN ids : ~context \/ ids[i] \in RemoteIds \cup PlainIds}
     IN /\ registered' = {ids[i] : i \in {j \in DOMAIN ids : \A f \in bad : j < f}}
        /\ stage' = IF bad = {} THEN "encoded" ELSE "refused"
        /\ buf' = IF bad = {} THEN encode(codec, type, value) ELSE <<>>
  /\ UNCHANGED <<input, decoded>>

\* The buffer reaches the other process, where it lies at an address of its own.
Decode ==
  /\ stage = "encoded"
  /\ stage' = "decoded"
  /\ decoded' = decode(codec, type, buf, at)
  /\ UNCHANGED <<input, length, buf, registered>>

Next == Encode \/ Decode

Spec == Init /\ [][Next]_vars

-----------------------------------------------------------------------------
(* Properties.                                                              *)

\* encoded_len is the number of bytes that encode writes, which the length prefixes
\* of tuples, options and results and the buffers of encode_to_bytes rely on.
LengthExact == stage \in {"encoded", "decoded"} => Len(buf) = length

\* What a receiver has of v: an error made from the text of the error that was sent
\* (common_codec.rs calls the Err variant lossy), and otherwise a value equal to v,
\* where 0.0 equals -0.0.
RECURSIVE arrives(_, _, _)
arrives(T, v, w) ==
  CASE T[1] = "f32" -> v = w \/ {v, w} = {0, NegativeZero}
    [] T[1] = "tuple" -> Len(v) = Len(w) /\ \A i \in DOMAIN v : arrives(T[2][i], v[i], w[i])
    [] T[1] = "option" -> Len(v) = Len(w) /\ \A i \in DOMAIN v : arrives(T[2], v[i], w[i])
    [] T[1] = "result" /\ v[1] = "ok" -> w[1] = "ok" /\ arrives(T[2], v[2], w[2])
    [] T[1] = "result" /\ v[1] = "err" -> w = <<"err", from(v[2][2])>>
    [] T[1] = "event" /\ v[1] = "warn" -> w = <<"warn", v[2], from(v[3][2])>>
    [] T[1] = "event" /\ v[1] = "terminated" ->
         w = <<"terminated", v[2], map(LAMBDA e : from(e[2]), v[3])>>
    [] OTHER -> v = w

\* Decode gives back the value that was encoded, an error as its text, or reports that
\* a vector of the default codec is not aligned where it lies; it never gives another
\* value, and in particular never confuses success with failure, no error with an
\* empty one, or the elements of tuples.
NeverAnotherValue ==
  stage = "decoded" =>
    \/ isOk(decoded) /\ arrives(type, value, decoded[2])
    \/ codec = "default" /\ decoded = Fail("alignment")

\* The actors that a message names.
RECURSIVE names(_, _)
names(T, v) ==
  CASE T[1] = "tuple" -> UNION {names(T[2][i], v[i]) : i \in DOMAIN v}
    [] T[1] = "option" -> UNION {names(T[2], v[i]) : i \in DOMAIN v}
    [] T[1] = "result" /\ v[1] = "ok" -> names(T[2], v[2])
    [] T[1] = "address" -> {v}
    [] T[1] \in {"supervisor", "observer", "event"} -> {v[i] : i \in DOMAIN v \cap {2}}
    [] OTHER -> {}

\* Every actor that a decoded message names was registered when it was encoded, so
\* the receiver can send to it, and none of them belongs to another process or takes
\* no remote messages.
NamesRegistered ==
  stage = "decoded" /\ isOk(decoded) =>
    names(type, decoded[2]) \subseteq registered \ (RemoteIds \cup PlainIds)

\* Decode gives back the value that was encoded (`roundtrip` in the tests of codec.rs
\* asserts it for the types it is used with).  Checked for a vector in an Option.
RoundTrip == stage = "decoded" => decoded = Ok(value)

=============================================================================
