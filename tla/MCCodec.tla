------------------------------- MODULE MCCodec ------------------------------
(* The types and values that Codec is checked with: zero, the bounds of a   *)
(* byte, negative numbers, -0.0, empty values, strings whose length is at   *)
(* the bound of a one-byte varint, errors of two variants with the same     *)
(* text, and nestings of vectors and addresses.                             *)
EXTENDS Codec

ids == {1, 300, 42, 7}
text == {<<>>, <<104, 105>>}
errors == {"text", "code"} \X text
longText == {[i \in 1 .. n |-> 97] : n \in {127, 128}}
unsignedNumbers == {0, 1, 127, 128}
numbers == [bool |-> {0, 1}, u8 |-> unsignedNumbers \cup {255}, u32 |-> unsignedNumbers \cup {70000},
            usize |-> unsignedNumbers \cup {70000}, f32 |-> {0, 1069547520, NegativeZero},
            i16 |-> {0, 1, -1, -128, 300, -32768}, isize |-> {0, -1, 300, -70000}]

scalarCases == UNION {{<<k>>} \X numbers[k] : k \in Scalars}
vecCases == UNION {{<<"vec", k>>} \X ({<<>>} \cup {<<n, m>> : n, m \in numbers[k]}) : k \in Scalars}
controlCases ==
  ({<<"address">>} \X ids) \cup ({<<"signal">>} \X {0, 1})
  \cup ({<<"supervisor">>} \X ({<<"unset">>} \cup {<<"set", i>> : i \in ids}))
  \cup ({<<"observer">>} \X {<<o, i>> : o \in {"register", "unregister"}, i \in ids})
  \cup ({<<"event">>} \X ({<<"warn", i, e>> : i \in ids, e \in errors}
                         \cup {<<"panicked", i, s>> : i \in ids, s \in text}
                         \cup {<<"terminated", i, o>> : i \in ids, o \in {<<>>} \cup {<<e>> : e \in errors}}
                         \cup {<<"state", i, n>> : i \in ids, n \in 0 .. 4}))
flat == {<< <<"unit">>, <<>> >>} \cup ({<<"string">>} \X (text \cup longText))
        \cup scalarCases \cup vecCases \cup controlCases

option(S) == {<< <<"option", p[1]>>, <<p[2]>> >> : p \in S}
             \cup {<< <<"option", p[1]>>, <<>> >> : p \in S}
result(S) == {<< <<"result", p[1]>>, <<"ok", p[2]>> >> : p \in S}
             \cup {<< <<"result", p[1]>>, <<"err", e>> >> : p \in S, e \in errors}
pair(S, T) == {<< <<"tuple", <<p[1], q[1]>> >>, <<p[2], q[2]>> >> : p \in S, q \in T}

\* One small and one wide element, a string, vectors and addresses.
some == {<< <<"u8">>, 255>>, << <<"i16">>, -2>>, << <<"string">>, <<>> >>,
         << <<"vec", "u32">>, <<1, 70000>> >>, << <<"vec", "i16">>, <<-1, 300>> >>,
         << <<"address">>, 300>>, << <<"address">>, 42>>, << <<"address">>, 7>>, << <<"observer">>, <<"register", 1>> >>}
nested == pair(some, some) \cup option(some)

AllCases == flat \cup option(flat) \cup result(some \cup {<< <<"string">>, s>> : s \in longText})
            \cup nested \cup option(nested) \cup pair(some, option(some))
VecCases == option({<< <<"vec", "u32">>, <<1, 70000>> >>})
=============================================================================
