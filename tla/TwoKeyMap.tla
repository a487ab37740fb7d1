------------------------------ MODULE TwoKeyMap ------------------------------
(***************************************************************************)
(* What a map with two keys promises, whatever it is built from: a set of  *)
(* entries in which either key alone names at most one entry, and what     *)
(* each operation returns and leaves behind.  DoubleMap implements it.     *)
(***************************************************************************)
CONSTANTS Key1, Key2, Value

Entry == [key1 : Key1, key2 : Key2, value : Value]

VARIABLES
  entries,  \* the entries of the map
  ret       \* what the last operation returned: <<x>> for Some(x), <<>> for
            \* None or nothing, <<"Err", e>> for Err(e)

vars == <<entries, ret>>

Init ==
  /\ entries = {}
  /\ ret = <<>>

\* The entries that a pair of keys, or one key alone, names.
ByKey1(k1) == {e \in entries : e.key1 = k1}
ByKey2(k2) == {e \in entries : e.key2 = k2}

\* The operation returns the value of the entry it finds, if any.
Find(found) ==
  /\ \/ found = {} /\ ret' = <<>>
     \/ \E e \in found : ret' = <<e.value>>
  /\ UNCHANGED entries

\* The entry that is found, if any, is taken out and returned.
Remove(found) ==
  \/ found = {} /\ ret' = <<>> /\ UNCHANGED entries
  \/ \E e \in found : ret' = <<e>> /\ entries' = entries \ {e}

\* The value of an entry is replaced, and the old one returned.
Replace(e, v) ==
  /\ entries' = (entries \ {e}) \cup {[e EXCEPT !.value = v]}
  /\ ret' = <<e.value>>

\* A new entry; the keys of no other entry may be among its keys.
Add(k1, k2, v) ==
  /\ ByKey1(k1) = {} /\ ByKey2(k2) = {}
  /\ entries' = entries \cup {[key1 |-> k1, key2 |-> k2, value |-> v]}
  /\ ret' = <<>>

\* The keys belong to different entries, or one of them to none.
Conflict(k1, k2) ==
  /\ ByKey1(k1) \cap ByKey2(k2) = {}
  /\ \/ /\ ByKey1(k1) # {} /\ ByKey2(k2) # {}
        /\ ret' = <<"Err", "BothKeysExist">>
     \/ /\ ByKey1(k1) # {} /\ ByKey2(k2) = {}
        /\ ret' = <<"Err", "Key1Exists">>
     \/ /\ ByKey1(k1) = {} /\ ByKey2(k2) # {}
        /\ ret' = <<"Err", "Key2Exists">>
  /\ UNCHANGED entries

\* Only the entries in kept stay.
Retain(kept) ==
  /\ entries' = kept
  /\ ret' = <<>>

Next ==
  \/ \E k1 \in Key1, k2 \in Key2 :
       \/ \E found \in {ByKey1(k1), ByKey2(k2), ByKey1(k1) \cap ByKey2(k2)} :
            Find(found) \/ Remove(found)
       \/ Conflict(k1, k2)
       \/ \E v \in Value : Add(k1, k2, v)
  \/ \E e \in entries, v \in Value : Replace(e, v)
  \/ \E kept \in SUBSET entries : Retain(kept)

Spec == Init /\ [][Next]_vars

=============================================================================
