------------------------------ MODULE DoubleMap ------------------------------
(***************************************************************************)
(* DoubleMap, the map with two keys that holds the sessions of a Node: a   *)
(* primary map that owns the values and a secondary index that has to      *)
(* follow it through every operation (acktor-ipc/src/double_map.rs and     *)
(* double_map/entry.rs).  A HashMap is a function that is None where it    *)
(* has no entry.  `extend`, `from_iter` and `from` are runs of insert      *)
(* whose results are dropped; contains_* ask whether get_* finds anything. *)
(***************************************************************************)
CONSTANTS Key1, Key2, Value, None

Slot == [key2 : Key2, value : Value]

Entry == [key1 : Key1, key2 : Key2, value : Value]

KeyConflictError == {"Key1Exists", "Key2Exists", "BothKeysExist"}

ASSUME KeysAssumption == None \notin Slot /\ None \notin Key1

VARIABLES
  primary,    \* DoubleMap::primary, HashMap<K1, (K2, V)>
  secondary,  \* DoubleMap::secondary, HashMap<K2, K1>
  ret         \* what the last operation returned: <<x>> for Some(x), <<>> for
              \* None or nothing, <<"Err", e>> for Err(e)

maps == <<primary, secondary>>
vars == <<primary, secondary, ret>>

\* No operation panics: an expect or an unreachable! would set ret to "panic".
TypeOK ==
  /\ primary \in [Key1 -> Slot \cup {None}]
  /\ secondary \in [Key2 -> Key1 \cup {None}]
  /\ ret \in {<<>>} \cup {<<x>> : x \in Value \cup Entry}
              \cup ({"Err"} \X KeyConflictError)

Init ==
  /\ primary = [k \in Key1 |-> None]
  /\ secondary = [k \in Key2 |-> None]
  /\ ret = <<>>

slot(k2, v) == [key2 |-> k2, value |-> v]

entryAt(k1) == [key1 |-> k1, key2 |-> primary[k1].key2, value |-> primary[k1].value]

-----------------------------------------------------------------------------
(* Lookups.                                                                 *)

get_by_key1(k1) == IF primary[k1] = None THEN <<>> ELSE <<primary[k1].value>>

get_by_key2(k2) == IF secondary[k2] = None THEN <<>> ELSE get_by_key1(secondary[k2])

\* The keys are those of one entry.
paired(k1, k2) == primary[k1] # None /\ primary[k1].key2 = k2

get_by_keys(k1, k2) == IF paired(k1, k2) THEN <<primary[k1].value>> ELSE <<>>

Get(k1, k2) ==
  /\ ret' \in {get_by_key1(k1), get_by_key2(k2), get_by_keys(k1, k2)}
  /\ UNCHANGED maps

\* A caller writes through the reference that get_mut_by_* or values_mut gave it.
write(k1, v) ==
  /\ primary' = [primary EXCEPT ![k1] = slot(primary[k1].key2, v)]
  /\ ret' = <<primary[k1].value>>
  /\ UNCHANGED secondary

GetMutByKey1(k1, v) == primary[k1] # None /\ write(k1, v)

GetMutByKey2(k2, v) ==
  /\ secondary[k2] # None
  /\ primary[secondary[k2]] # None
  /\ write(secondary[k2], v)

GetMutByKeys(k1, k2, v) == paired(k1, k2) /\ write(k1, v)

-----------------------------------------------------------------------------
(* Insertion.                                                               *)

\* The two maps after a new entry.
add(k1, k2, v) ==
  /\ primary' = [primary EXCEPT ![k1] = slot(k2, v)]
  /\ secondary' = [secondary EXCEPT ![k2] = k1]
  /\ ret' = <<>>

fail(err) == ret' = <<"Err", err>> /\ UNCHANGED maps

\* Mutant: a new key1 is added without a look at key2.
InsertKey2Unchecked(k1, k2, v) ==
  IF primary[k1] # None
  THEN IF primary[k1].key2 = k2
       THEN write(k1, v)
       ELSE fail(IF secondary[k2] # None THEN "BothKeysExist" ELSE "Key1Exists")
  ELSE add(k1, k2, v)

Insert(k1, k2, v) ==
  IF primary[k1] # None
  THEN IF primary[k1].key2 = k2
       THEN write(k1, v)
       ELSE fail(IF secondary[k2] # None THEN "BothKeysExist" ELSE "Key1Exists")
  ELSE IF secondary[k2] # None
       THEN fail("Key2Exists")
       ELSE add(k1, k2, v)

\* DoubleMap::entry; a panic stands for its unreachable! branches.
entry(k1, k2) ==
  CASE paired(k1, k2) -> IF secondary[k2] # None THEN "Occupied" ELSE "panic"
    [] primary[k1] = None /\ secondary[k2] = None -> "Vacant"
    [] primary[k1] # None /\ ~paired(k1, k2) /\ secondary[k2] # None ->
         "BothKeysExist"
    [] primary[k1] # None /\ ~paired(k1, k2) /\ secondary[k2] = None ->
         "Key1Exists"
    [] OTHER -> "Key2Exists"

EntryFail(k1, k2) ==
  /\ entry(k1, k2) \in KeyConflictError \cup {"panic"}
  /\ fail(entry(k1, k2))

\* Entry::or_insert and its variants: an entry that is there stays as it is.
EntryOrInsert(k1, k2, v) ==
  \/ entry(k1, k2) = "Occupied" /\ ret' = <<primary[k1].value>> /\ UNCHANGED maps
  \/ entry(k1, k2) = "Vacant" /\ add(k1, k2, v)

\* Entry::insert_entry, and and_modify of an entry that is there.
EntryInsert(k1, k2, v) ==
  \/ entry(k1, k2) = "Occupied" /\ write(k1, v)
  \/ entry(k1, k2) = "Vacant" /\ add(k1, k2, v)

-----------------------------------------------------------------------------
(* Removal.                                                                 *)

absent == ret' = <<>> /\ UNCHANGED maps

\* remove_by_key1 and remove_entry_by_key1.
RemoveByKey1(k1) ==
  IF primary[k1] = None
  THEN absent
  ELSE /\ primary' = [primary EXCEPT ![k1] = None]
       /\ secondary' = [secondary EXCEPT ![primary[k1].key2] = None]
       /\ ret' = <<entryAt(k1)>>

\* remove_by_key2 and remove_entry_by_key2; a panic stands for their expect.
RemoveByKey2(k2) ==
  LET k1 == secondary[k2] IN
  IF k1 = None
  THEN absent
  ELSE /\ secondary' = [secondary EXCEPT ![k2] = None]
       /\ primary' = [primary EXCEPT ![k1] = None]
       /\ ret' = IF primary[k1] = None THEN <<"Err", "panic">> ELSE <<entryAt(k1)>>

\* Mutant: the entry is taken out before its key2 is compared, and not put back.
RemoveByKeysEarly(k1, k2) ==
  IF ~paired(k1, k2)
  THEN /\ primary' = [primary EXCEPT ![k1] = None]
       /\ ret' = <<>>
       /\ UNCHANGED secondary
  ELSE /\ primary' = [primary EXCEPT ![k1] = None]
       /\ secondary' = [secondary EXCEPT ![k2] = None]
       /\ ret' = <<entryAt(k1)>>

\* remove_by_keys and remove_entry_by_keys: an entry with another key2 is taken
\* out of the primary map and put back.
RemoveByKeys(k1, k2) ==
  IF ~paired(k1, k2)
  THEN absent
  ELSE /\ primary' = [primary EXCEPT ![k1] = None]
       /\ secondary' = [secondary EXCEPT ![k2] = None]
       /\ ret' = <<entryAt(k1)>>

\* OccupiedEntry::remove and remove_entry.
EntryRemove(k1, k2) ==
  /\ entry(k1, k2) = "Occupied"
  /\ secondary' = [secondary EXCEPT ![k2] = None]
  /\ primary' = [primary EXCEPT ![k1] = None]
  /\ ret' = <<entryAt(k1)>>

\* retain: the predicate turns down the entries with a key1 in rejected; what it
\* writes to the values it sees are writes of their own.  A panic of the predicate
\* leaves the same maps for the entries it had rejected so far.
Retain(rejected) ==
  /\ primary' = [k1 \in Key1 |-> IF k1 \in rejected THEN None ELSE primary[k1]]
  /\ secondary' =
       [k2 \in Key2 |->
          IF \E k1 \in rejected : paired(k1, k2) THEN None ELSE secondary[k2]]
  /\ ret' = <<>>

\* clear and drain.
Clear ==
  /\ primary' = [k \in Key1 |-> None]
  /\ secondary' = [k \in Key2 |-> None]
  /\ ret' = <<>>

-----------------------------------------------------------------------------
Next ==
  \/ \E k1 \in Key1, k2 \in Key2 :
       \/ Get(k1, k2)
       \/ RemoveByKey1(k1) \/ RemoveByKey2(k2) \/ RemoveByKeys(k1, k2)
       \/ EntryFail(k1, k2) \/ EntryRemove(k1, k2)
       \/ \E v \in Value :
            \/ GetMutByKey1(k1, v) \/ GetMutByKey2(k2, v)
            \/ GetMutByKeys(k1, k2, v)
            \/ Insert(k1, k2, v)
            \/ EntryOrInsert(k1, k2, v) \/ EntryInsert(k1, k2, v)
  \/ \E rejected \in SUBSET Key1 : Retain(rejected)
  \/ Clear

Spec == Init /\ [][Next]_vars

-----------------------------------------------------------------------------
(* Properties.                                                              *)

\* The index and the primary map are inverses of each other after any sequence
\* of operations, which is what the expect in remove_by_key2 and the
\* unreachable! branches of entry rely on.
MapsInSync ==
  \A k1 \in Key1, k2 \in Key2 : secondary[k2] = k1 <=> paired(k1, k2)

\* Looked at from outside the two maps are one set of entries, and every
\* operation returns and leaves behind what it would on that set.
entries == {entryAt(k1) : k1 \in {k \in Key1 : primary[k] # None}}

Abstract == INSTANCE TwoKeyMap

\* Every sequence of operations is one that the set of entries allows.
ImplementsTwoKeyMap == Abstract!Spec

=============================================================================
