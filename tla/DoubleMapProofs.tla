--------------------------- MODULE DoubleMapProofs ---------------------------
(***************************************************************************)
(* Proofs about DoubleMap: the two maps stay inverses of each other, no    *)
(* operation reaches an expect or an unreachable!, and the map implements  *)
(* the set of entries of TwoKeyMap.                                        *)
(***************************************************************************)
EXTENDS DoubleMap, TLAPS

Inv == TypeOK /\ MapsInSync

LEMMA InitInv == Init => Inv
  BY KeysAssumption DEF Init, Inv, TypeOK, MapsInSync, paired, Slot

\* Adding a pair of new keys, dropping a pair, and writing a value keep the two
\* maps in step.
LEMMA AddInv ==
  ASSUME Inv, NEW k1 \in Key1, NEW k2 \in Key2, NEW v \in Value,
         primary[k1] = None, secondary[k2] = None, add(k1, k2, v)
  PROVE  Inv'
  <1>1. slot(k2, v) \in Slot /\ slot(k2, v) # None /\ slot(k2, v).key2 = k2
    BY KeysAssumption DEF slot, Slot
  <1>2. TypeOK'
    BY <1>1 DEF Inv, TypeOK, add
  <1>3. MapsInSync'
    BY <1>1, KeysAssumption DEF Inv, TypeOK, MapsInSync, paired, add
  <1> QED  BY <1>2, <1>3 DEF Inv

LEMMA WriteInv ==
  ASSUME Inv, NEW k1 \in Key1, NEW v \in Value, primary[k1] # None, write(k1, v)
  PROVE  Inv'
  <1>1. /\ primary[k1] \in Slot
        /\ slot(primary[k1].key2, v) \in Slot
        /\ slot(primary[k1].key2, v) # None
        /\ slot(primary[k1].key2, v).key2 = primary[k1].key2
    BY KeysAssumption DEF Inv, TypeOK, slot, Slot
  <1>2. primary[k1].value \in Value
    BY <1>1 DEF Slot
  <1>3. TypeOK'
    BY <1>1, <1>2 DEF Inv, TypeOK, write
  <1>4. MapsInSync'
    BY <1>1, KeysAssumption DEF Inv, TypeOK, MapsInSync, paired, write
  <1> QED  BY <1>3, <1>4 DEF Inv

LEMMA DropInv ==
  ASSUME Inv, NEW k1 \in Key1, NEW k2 \in Key2, paired(k1, k2),
         primary' = [primary EXCEPT ![k1] = None],
         secondary' = [secondary EXCEPT ![k2] = None],
         ret' = <<entryAt(k1)>>
  PROVE  Inv'
  <1>1. primary[k1] \in Slot /\ entryAt(k1) \in Entry
    BY DEF Inv, TypeOK, paired, entryAt, Slot, Entry
  <1>2. TypeOK'
    BY <1>1 DEF Inv, TypeOK
  <1>3. MapsInSync'
    BY <1>1, KeysAssumption DEF Inv, TypeOK, MapsInSync, paired
  <1> QED  BY <1>2, <1>3 DEF Inv

\* An operation that changes neither map only has to return something sensible.
LEMMA ReadInv ==
  ASSUME Inv, UNCHANGED maps,
         ret' \in {<<>>} \cup {<<x>> : x \in Value \cup Entry}
                  \cup ({"Err"} \X KeyConflictError)
  PROVE  Inv'
  BY DEF Inv, TypeOK, MapsInSync, paired, maps

\* What the keys of the maps lead to.
LEMMA Lookups ==
  ASSUME Inv
  PROVE  /\ \A k1 \in Key1 : primary[k1] # None =>
              /\ primary[k1] \in Slot
              /\ primary[k1].key2 \in Key2 /\ primary[k1].value \in Value
              /\ entryAt(k1) \in Entry
              /\ secondary[primary[k1].key2] = k1
         /\ \A k2 \in Key2 : secondary[k2] # None =>
              secondary[k2] \in Key1 /\ paired(secondary[k2], k2)
  BY DEF Inv, TypeOK, MapsInSync, paired, entryAt, Slot, Entry

\* With the maps in step, entry finds the entry that has both keys, two new keys,
\* or a conflict; its unreachable! branches are not taken.
LEMMA EntryCases ==
  ASSUME Inv, NEW k1 \in Key1, NEW k2 \in Key2
  PROVE  /\ entry(k1, k2) = "Occupied" => paired(k1, k2)
         /\ entry(k1, k2) = "Vacant" => primary[k1] = None /\ secondary[k2] = None
         /\ entry(k1, k2) # "panic"
  <1>1. paired(k1, k2) => secondary[k2] # None
    BY KeysAssumption DEF Inv, MapsInSync
  <1> QED  BY <1>1 DEF entry, paired

LEMMA NextInv == Inv /\ [Next]_vars => Inv'
  <1> SUFFICES ASSUME Inv, [Next]_vars PROVE Inv'
    OBVIOUS
  <1>1. ASSUME NEW k1 \in Key1, NEW k2 \in Key2, Get(k1, k2) PROVE Inv'
    <2>1. ret' \in {<<>>} \cup {<<x>> : x \in Value \cup Entry}
      BY <1>1, Lookups DEF Get, get_by_key1, get_by_key2, get_by_keys, paired
    <2> QED  BY <1>1, <2>1, ReadInv DEF Get
  <1>2. ASSUME NEW k1 \in Key1, RemoveByKey1(k1) PROVE Inv'
    <2>1. CASE primary[k1] = None
      BY <1>2, <2>1, ReadInv DEF RemoveByKey1, absent
    <2>2. CASE primary[k1] # None
      <3>1. primary[k1].key2 \in Key2 /\ paired(k1, primary[k1].key2)
        BY <2>2, Lookups DEF paired
      <3> QED  BY <1>2, <2>2, <3>1, DropInv DEF RemoveByKey1
    <2> QED  BY <2>1, <2>2
  <1>3. ASSUME NEW k2 \in Key2, RemoveByKey2(k2) PROVE Inv'
    <2>1. CASE secondary[k2] = None
      BY <1>3, <2>1, ReadInv DEF RemoveByKey2, absent
    <2>2. CASE secondary[k2] # None
      <3>1. secondary[k2] \in Key1 /\ paired(secondary[k2], k2)
        BY <2>2, Lookups
      <3> QED  BY <1>3, <2>2, <3>1, DropInv DEF RemoveByKey2, paired
    <2> QED  BY <2>1, <2>2
  <1>4. ASSUME NEW k1 \in Key1, NEW k2 \in Key2, RemoveByKeys(k1, k2) PROVE Inv'
    <2>1. CASE paired(k1, k2)
      BY <1>4, <2>1, DropInv DEF RemoveByKeys
    <2>2. CASE ~paired(k1, k2)
      BY <1>4, <2>2, ReadInv DEF RemoveByKeys, absent
    <2> QED  BY <2>1, <2>2
  <1>5. ASSUME NEW k1 \in Key1, NEW k2 \in Key2, EntryFail(k1, k2) PROVE Inv'
    <2>1. entry(k1, k2) \in KeyConflictError
      BY <1>5, EntryCases DEF EntryFail
    <2> QED  BY <1>5, <2>1, ReadInv DEF EntryFail, fail
  <1>6. ASSUME NEW k1 \in Key1, NEW k2 \in Key2, EntryRemove(k1, k2) PROVE Inv'
    BY <1>6, EntryCases, DropInv DEF EntryRemove
  <1>7. ASSUME NEW k1 \in Key1, NEW v \in Value, GetMutByKey1(k1, v) PROVE Inv'
    BY <1>7, WriteInv DEF GetMutByKey1
  <1>8. ASSUME NEW k2 \in Key2, NEW v \in Value, GetMutByKey2(k2, v) PROVE Inv'
    <2>1. secondary[k2] \in Key1
      BY <1>8, Lookups DEF GetMutByKey2
    <2> QED  BY <1>8, <2>1, WriteInv DEF GetMutByKey2
  <1>9. ASSUME NEW k1 \in Key1, NEW k2 \in Key2, NEW v \in Value,
               GetMutByKeys(k1, k2, v)
        PROVE  Inv'
    BY <1>9, WriteInv DEF GetMutByKeys, paired
  <1>10. ASSUME NEW k1 \in Key1, NEW k2 \in Key2, NEW v \in Value,
                Insert(k1, k2, v)
         PROVE  Inv'
    <2>1. CASE primary[k1] # None /\ primary[k1].key2 = k2
      BY <1>10, <2>1, WriteInv DEF Insert
    <2>2. CASE primary[k1] = None /\ secondary[k2] = None
      BY <1>10, <2>2, AddInv DEF Insert
    <2>3. CASE \/ primary[k1] # None /\ primary[k1].key2 # k2
               \/ primary[k1] = None /\ secondary[k2] # None
      <3>1. \E err \in KeyConflictError : fail(err)
        BY <1>10, <2>3 DEF Insert, KeyConflictError
      <3> QED  BY <3>1, ReadInv DEF fail
    <2> QED  BY <2>1, <2>2, <2>3
  <1>11. ASSUME NEW k1 \in Key1, NEW k2 \in Key2, NEW v \in Value,
                EntryOrInsert(k1, k2, v)
         PROVE  Inv'
    <2>1. CASE entry(k1, k2) = "Occupied" /\ ret' = <<primary[k1].value>>
               /\ UNCHANGED maps
      <3>1. primary[k1].value \in Value
        BY <2>1, EntryCases, Lookups DEF paired
      <3> QED  BY <2>1, <3>1, ReadInv
    <2>2. CASE entry(k1, k2) = "Vacant" /\ add(k1, k2, v)
      BY <2>2, EntryCases, AddInv
    <2> QED  BY <1>11, <2>1, <2>2 DEF EntryOrInsert
  <1>12. ASSUME NEW k1 \in Key1, NEW k2 \in Key2, NEW v \in Value,
                EntryInsert(k1, k2, v)
         PROVE  Inv'
    BY <1>12, EntryCases, WriteInv, AddInv DEF EntryInsert, paired
  <1>13. ASSUME NEW rejected \in SUBSET Key1, Retain(rejected) PROVE Inv'
    <2>1. TypeOK'
      BY <1>13 DEF Inv, TypeOK, Retain
    <2>2. MapsInSync'
      BY <1>13, KeysAssumption DEF Inv, TypeOK, MapsInSync, paired, Retain
    <2> QED  BY <2>1, <2>2 DEF Inv
  <1>14. ASSUME Clear PROVE Inv'
    BY <1>14, KeysAssumption DEF Clear, Inv, TypeOK, MapsInSync, paired, Slot
  <1>15. CASE UNCHANGED vars
    BY <1>15 DEF vars, Inv, TypeOK, MapsInSync, paired
  <1> QED
    BY <1>1, <1>2, <1>3, <1>4, <1>5, <1>6, <1>7, <1>8, <1>9, <1>10, <1>11,
       <1>12, <1>13, <1>14, <1>15 DEF Next

LEMMA Invariant == Spec => []Inv
  BY InitInv, NextInv, PTL DEF Spec

\* No sequence of operations makes the index and the primary map disagree, for any
\* sets of keys and values (double_map.rs, every method that changes a map).
THEOREM Synchronised == Spec => []MapsInSync
  BY Invariant, PTL DEF Inv

\* Every operation returns a result of its type; none reaches the expect of
\* remove_by_key2 or the unreachable! branches of entry.
THEOREM NeverPanics == Spec => []TypeOK
  BY Invariant, PTL DEF Inv

-----------------------------------------------------------------------------
(* The refinement.                                                          *)

\* The entries, by either key.
LEMMA EntryFacts ==
  ASSUME Inv
  PROVE  /\ \A k1 \in Key1 : primary[k1] # None =>
              /\ entryAt(k1) \in entries
              /\ entryAt(k1).key1 = k1
              /\ entryAt(k1).key2 = primary[k1].key2
              /\ entryAt(k1).value = primary[k1].value
         /\ \A e \in entries :
              /\ e.key1 \in Key1 /\ e.key2 \in Key2
              /\ primary[e.key1] # None /\ e = entryAt(e.key1)
              /\ paired(e.key1, e.key2) /\ secondary[e.key2] = e.key1
  <1>1. \A k1 \in Key1 :
          /\ entryAt(k1).key1 = k1
          /\ entryAt(k1).key2 = primary[k1].key2
          /\ entryAt(k1).value = primary[k1].value
    BY DEF entryAt
  <1>2. \A k1 \in Key1 : primary[k1] # None => entryAt(k1) \in entries
    BY DEF entries
  <1>3. ASSUME NEW e \in entries
        PROVE  /\ e.key1 \in Key1 /\ e.key2 \in Key2
               /\ primary[e.key1] # None /\ e = entryAt(e.key1)
               /\ paired(e.key1, e.key2) /\ secondary[e.key2] = e.key1
    <2>1. PICK k1 \in Key1 : primary[k1] # None /\ e = entryAt(k1)
      BY DEF entries
    <2> QED  BY <1>1, <2>1, Lookups DEF paired
  <1> QED  BY <1>1, <1>2, <1>3

LEMMA AddRefines ==
  ASSUME Inv, NEW k1 \in Key1, NEW k2 \in Key2, NEW v \in Value,
         primary[k1] = None, secondary[k2] = None, add(k1, k2, v)
  PROVE  Abstract!Add(k1, k2, v)
  <1> DEFINE new == [key1 |-> k1, key2 |-> k2, value |-> v]
  <1>1. \A e \in entries : e.key1 # k1 /\ e.key2 # k2
    BY EntryFacts, KeysAssumption
  <1>2. slot(k2, v) # None /\ slot(k2, v).key2 = k2 /\ slot(k2, v).value = v
    BY KeysAssumption DEF slot, Slot
  <1>3. primary'[k1] = slot(k2, v) /\ \A k \in Key1 \ {k1} : primary'[k] = primary[k]
    BY DEF Inv, TypeOK, add
  <1>4. entryAt(k1)' = new
    BY <1>2, <1>3 DEF entryAt
  <1>5. \A k \in Key1 \ {k1} : entryAt(k)' = entryAt(k)
    BY <1>3 DEF entryAt
  <1>6. entries' = entries \cup {new}
    <2>1. ASSUME NEW e \in entries' PROVE e \in entries \cup {new}
      <3>1. PICK k \in Key1 : primary'[k] # None /\ e = entryAt(k)'
        BY DEF entries
      <3> QED  BY <3>1, <1>3, <1>4, <1>5 DEF entries
    <2>2. ASSUME NEW e \in entries PROVE e \in entries'
      <3>1. PICK k \in Key1 : primary[k] # None /\ e = entryAt(k)
        BY DEF entries
      <3> QED  BY <3>1, <1>3, <1>5 DEF entries
    <2>3. new \in entries'
      BY <1>2, <1>3, <1>4 DEF entries
    <2> QED  BY <2>1, <2>2, <2>3
  <1> QED  BY <1>1, <1>6 DEF Abstract!Add, Abstract!ByKey1, Abstract!ByKey2, add

LEMMA WriteRefines ==
  ASSUME Inv, NEW k1 \in Key1, NEW v \in Value, primary[k1] # None, write(k1, v)
  PROVE  Abstract!Replace(entryAt(k1), v)
  <1> DEFINE new == [entryAt(k1) EXCEPT !.value = v]
  <1>1. /\ slot(primary[k1].key2, v) # None
        /\ slot(primary[k1].key2, v).key2 = primary[k1].key2
        /\ slot(primary[k1].key2, v).value = v
    BY KeysAssumption, Lookups DEF slot, Slot
  <1>2. /\ primary'[k1] = slot(primary[k1].key2, v)
        /\ \A k \in Key1 \ {k1} : primary'[k] = primary[k]
    BY DEF Inv, TypeOK, write
  <1>3. entryAt(k1)' = new
    BY <1>1, <1>2 DEF entryAt
  <1>4. \A k \in Key1 \ {k1} : entryAt(k)' = entryAt(k) /\ entryAt(k) # entryAt(k1)
    BY <1>2 DEF entryAt
  <1>5. entries' = (entries \ {entryAt(k1)}) \cup {new}
    <2>1. ASSUME NEW e \in entries' PROVE e \in (entries \ {entryAt(k1)}) \cup {new}
      <3>1. PICK k \in Key1 : primary'[k] # None /\ e = entryAt(k)'
        BY DEF entries
      <3> QED  BY <3>1, <1>2, <1>3, <1>4 DEF entries
    <2>2. ASSUME NEW e \in entries \ {entryAt(k1)} PROVE e \in entries'
      <3>1. PICK k \in Key1 : primary[k] # None /\ e = entryAt(k)
        BY DEF entries
      <3> QED  BY <3>1, <1>2, <1>4 DEF entries
    <2>3. new \in entries'
      BY <1>1, <1>2, <1>3 DEF entries
    <2> QED  BY <2>1, <2>2, <2>3
  <1>6. ret' = <<entryAt(k1).value>>
    BY DEF write, entryAt
  <1> QED  BY <1>5, <1>6 DEF Abstract!Replace

LEMMA DropRefines ==
  ASSUME Inv, NEW k1 \in Key1, primary[k1] # None,
         primary' = [primary EXCEPT ![k1] = None]
  PROVE  entries' = entries \ {entryAt(k1)}
  <1>1. primary'[k1] = None /\ \A k \in Key1 \ {k1} : primary'[k] = primary[k]
    BY DEF Inv, TypeOK
  <1>2. \A k \in Key1 \ {k1} : entryAt(k)' = entryAt(k) /\ entryAt(k) # entryAt(k1)
    BY <1>1 DEF entryAt
  <1>3. ASSUME NEW e \in entries' PROVE e \in entries \ {entryAt(k1)}
    <2>1. PICK k \in Key1 : primary'[k] # None /\ e = entryAt(k)'
      BY DEF entries
    <2> QED  BY <2>1, <1>1, <1>2 DEF entries
  <1>4. ASSUME NEW e \in entries \ {entryAt(k1)} PROVE e \in entries'
    <2>1. PICK k \in Key1 : primary[k] # None /\ e = entryAt(k)
      BY DEF entries
    <2> QED  BY <2>1, <1>1, <1>2 DEF entries
  <1> QED  BY <1>3, <1>4

\* A lookup finds the value of the entry with that key, and nothing if there is no
\* such entry.
LEMMA GetRefines ==
  ASSUME Inv, NEW k1 \in Key1, NEW k2 \in Key2, Get(k1, k2)
  PROVE  Abstract!Next
  <1>0. UNCHANGED entries
    BY DEF Get, maps, entries, entryAt
  <1>1. CASE ret' = get_by_key1(k1)
    <2>1. CASE primary[k1] = None
      <3>1. Abstract!ByKey1(k1) = {}
        BY <2>1, EntryFacts DEF Abstract!ByKey1
      <3>2. Abstract!Find(Abstract!ByKey1(k1))
        BY <1>0, <1>1, <2>1, <3>1 DEF get_by_key1, Abstract!Find
      <3> QED  BY <3>2 DEF Abstract!Next
    <2>2. CASE primary[k1] # None
      <3>1. entryAt(k1) \in Abstract!ByKey1(k1) /\ ret' = <<entryAt(k1).value>>
        BY <1>1, <2>2, EntryFacts DEF get_by_key1, Abstract!ByKey1
      <3>2. Abstract!Find(Abstract!ByKey1(k1))
        BY <1>0, <3>1 DEF Abstract!Find
      <3> QED  BY <3>2 DEF Abstract!Next
    <2> QED  BY <2>1, <2>2
  <1>2. CASE ret' = get_by_key2(k2)
    <2>1. CASE secondary[k2] = None
      <3>1. Abstract!ByKey2(k2) = {}
        BY <2>1, EntryFacts, KeysAssumption DEF Abstract!ByKey2
      <3>2. Abstract!Find(Abstract!ByKey2(k2))
        BY <1>0, <1>2, <2>1, <3>1 DEF get_by_key2, Abstract!Find
      <3> QED  BY <3>2 DEF Abstract!Next
    <2>2. CASE secondary[k2] # None
      <3> DEFINE k == secondary[k2]
      <3>1. k \in Key1 /\ paired(k, k2)
        BY <2>2, Lookups
      <3>2. entryAt(k) \in Abstract!ByKey2(k2) /\ ret' = <<entryAt(k).value>>
        BY <1>2, <2>2, <3>1, EntryFacts
           DEF get_by_key1, get_by_key2, paired, Abstract!ByKey2
      <3>3. Abstract!Find(Abstract!ByKey2(k2))
        BY <1>0, <3>2 DEF Abstract!Find
      <3> QED  BY <3>3 DEF Abstract!Next
    <2> QED  BY <2>1, <2>2
  <1>3. CASE ret' = get_by_keys(k1, k2)
    <2>1. CASE ~paired(k1, k2)
      <3>1. Abstract!ByKey1(k1) \cap Abstract!ByKey2(k2) = {}
        BY <2>1, EntryFacts DEF Abstract!ByKey1, Abstract!ByKey2
      <3>2. Abstract!Find(Abstract!ByKey1(k1) \cap Abstract!ByKey2(k2))
        BY <1>0, <1>3, <2>1, <3>1 DEF get_by_keys, Abstract!Find
      <3> QED  BY <3>2 DEF Abstract!Next
    <2>2. CASE paired(k1, k2)
      <3>1. /\ entryAt(k1) \in Abstract!ByKey1(k1) \cap Abstract!ByKey2(k2)
            /\ ret' = <<entryAt(k1).value>>
        BY <1>3, <2>2, EntryFacts
           DEF get_by_keys, paired, Abstract!ByKey1, Abstract!ByKey2
      <3>2. Abstract!Find(Abstract!ByKey1(k1) \cap Abstract!ByKey2(k2))
        BY <1>0, <3>1 DEF Abstract!Find
      <3> QED  BY <3>2 DEF Abstract!Next
    <2> QED  BY <2>1, <2>2
  <1> QED  BY <1>1, <1>2, <1>3 DEF Get

\* Taking a pair out of both maps takes its entry out of the set.
LEMMA RemoveRefines ==
  ASSUME Inv, NEW k1 \in Key1, NEW k2 \in Key2, paired(k1, k2),
         primary' = [primary EXCEPT ![k1] = None], ret' = <<entryAt(k1)>>
  PROVE  Abstract!Next
  <1>1. entryAt(k1) \in Abstract!ByKey1(k1)
    BY EntryFacts DEF paired, Abstract!ByKey1
  <1>2. entries' = entries \ {entryAt(k1)}
    BY DropRefines DEF paired
  <1>3. Abstract!Remove(Abstract!ByKey1(k1))
    BY <1>1, <1>2 DEF Abstract!Remove
  <1> QED  BY <1>3 DEF Abstract!Next

\* The conflicts that insert and entry report are the conflicts of the set.
LEMMA ConflictRefines ==
  ASSUME Inv, NEW k1 \in Key1, NEW k2 \in Key2, ~paired(k1, k2),
         \/ primary[k1] # None /\ secondary[k2] # None /\ fail("BothKeysExist")
         \/ primary[k1] # None /\ secondary[k2] = None /\ fail("Key1Exists")
         \/ primary[k1] = None /\ secondary[k2] # None /\ fail("Key2Exists")
  PROVE  Abstract!Next
  <1>0. UNCHANGED entries
    BY DEF fail, maps, entries, entryAt
  <1>1. Abstract!ByKey1(k1) \cap Abstract!ByKey2(k2) = {}
    BY EntryFacts DEF Abstract!ByKey1, Abstract!ByKey2
  <1>2. primary[k1] # None <=> Abstract!ByKey1(k1) # {}
    BY EntryFacts DEF Abstract!ByKey1
  <1>3. secondary[k2] # None <=> Abstract!ByKey2(k2) # {}
    <2>1. ASSUME secondary[k2] # None PROVE Abstract!ByKey2(k2) # {}
      <3>1. secondary[k2] \in Key1 /\ paired(secondary[k2], k2)
        BY <2>1, Lookups
      <3>2. entryAt(secondary[k2]) \in Abstract!ByKey2(k2)
        BY <3>1, EntryFacts DEF paired, Abstract!ByKey2
      <3> QED  BY <3>2
    <2> QED  BY <2>1, EntryFacts, KeysAssumption DEF Abstract!ByKey2
  <1>4. Abstract!Conflict(k1, k2)
    BY <1>0, <1>1, <1>2, <1>3 DEF fail, Abstract!Conflict
  <1> QED  BY <1>4 DEF Abstract!Next

LEMMA RetainRefines ==
  ASSUME Inv, NEW rejected \in SUBSET Key1, ret' = <<>>,
         primary' = [k1 \in Key1 |-> IF k1 \in rejected THEN None ELSE primary[k1]]
  PROVE  Abstract!Next
  <1>1. entries' \subseteq entries
    <2>1. ASSUME NEW e \in entries' PROVE e \in entries
      <3>1. PICK k \in Key1 : primary'[k] # None /\ e = entryAt(k)'
        BY DEF entries
      <3>2. primary'[k] = primary[k] /\ entryAt(k)' = entryAt(k)
        BY <3>1 DEF entryAt
      <3> QED  BY <3>1, <3>2 DEF entries
    <2> QED  BY <2>1
  <1> QED  BY <1>1 DEF Abstract!Next, Abstract!Retain

\* An operation that finds nothing to remove is one of the set, too.
LEMMA AbsentRefines ==
  ASSUME Inv, NEW k1 \in Key1, NEW k2 \in Key2, absent,
         \/ primary[k1] = None
         \/ secondary[k2] = None
         \/ ~paired(k1, k2)
  PROVE  Abstract!Next
  <1>0. UNCHANGED entries
    BY DEF absent, maps, entries, entryAt
  <1>1. Abstract!ByKey1(k1) \cap Abstract!ByKey2(k2) = {}
    BY EntryFacts, KeysAssumption DEF Abstract!ByKey1, Abstract!ByKey2
  <1>2. Abstract!Find(Abstract!ByKey1(k1) \cap Abstract!ByKey2(k2))
    BY <1>0, <1>1 DEF absent, Abstract!Find
  <1> QED  BY <1>2 DEF Abstract!Next

\* Every step of the map is a step of the set.
LEMMA StepRefines == Inv /\ [Next]_vars => [Abstract!Next]_(Abstract!vars)
  <1> SUFFICES ASSUME Inv, [Next]_vars
               PROVE  Abstract!Next \/ UNCHANGED Abstract!vars
    OBVIOUS
  <1>1. ASSUME NEW k1 \in Key1, NEW k2 \in Key2, RemoveByKey1(k1)
        PROVE  Abstract!Next
    <2>1. CASE primary[k1] = None
      BY <1>1, <2>1, AbsentRefines DEF RemoveByKey1
    <2>2. CASE primary[k1] # None
      <3>1. primary[k1].key2 \in Key2 /\ paired(k1, primary[k1].key2)
        BY <2>2, Lookups DEF paired
      <3> QED  BY <1>1, <2>2, <3>1, RemoveRefines DEF RemoveByKey1
    <2> QED  BY <2>1, <2>2
  <1>2. ASSUME NEW k1 \in Key1, NEW k2 \in Key2, RemoveByKey2(k2)
        PROVE  Abstract!Next
    <2>1. CASE secondary[k2] = None
      BY <1>2, <2>1, AbsentRefines DEF RemoveByKey2
    <2>2. CASE secondary[k2] # None
      <3>1. secondary[k2] \in Key1 /\ paired(secondary[k2], k2)
        BY <2>2, Lookups
      <3> QED  BY <1>2, <2>2, <3>1, RemoveRefines DEF RemoveByKey2, paired
    <2> QED  BY <2>1, <2>2
  <1>3. ASSUME NEW k1 \in Key1, NEW k2 \in Key2, RemoveByKeys(k1, k2)
        PROVE  Abstract!Next
    BY <1>3, AbsentRefines, RemoveRefines DEF RemoveByKeys
  <1>4. ASSUME NEW k1 \in Key1, NEW k2 \in Key2, EntryFail(k1, k2)
        PROVE  Abstract!Next
    <2>1. \/ ~paired(k1, k2) /\ primary[k1] # None /\ secondary[k2] # None
             /\ entry(k1, k2) = "BothKeysExist"
          \/ ~paired(k1, k2) /\ primary[k1] # None /\ secondary[k2] = None
             /\ entry(k1, k2) = "Key1Exists"
          \/ ~paired(k1, k2) /\ primary[k1] = None /\ secondary[k2] # None
             /\ entry(k1, k2) = "Key2Exists"
      <3>1. entry(k1, k2) \in KeyConflictError
        BY <1>4, EntryCases DEF EntryFail
      <3> QED  BY <3>1 DEF entry, paired, KeyConflictError
    <2> QED  BY <1>4, <2>1, ConflictRefines DEF EntryFail
  <1>5. ASSUME NEW k1 \in Key1, NEW k2 \in Key2, EntryRemove(k1, k2)
        PROVE  Abstract!Next
    BY <1>5, EntryCases, RemoveRefines DEF EntryRemove
  <1>6. ASSUME NEW k1 \in Key1, NEW v \in Value, primary[k1] # None, write(k1, v)
        PROVE  Abstract!Next
    BY <1>6, WriteRefines, EntryFacts DEF Abstract!Next
  <1>7. ASSUME NEW k1 \in Key1, NEW k2 \in Key2, NEW v \in Value,
               primary[k1] = None, secondary[k2] = None, add(k1, k2, v)
        PROVE  Abstract!Next
    BY <1>7, AddRefines DEF Abstract!Next
  <1>8. ASSUME NEW k1 \in Key1, NEW k2 \in Key2, NEW v \in Value,
               GetMutByKey1(k1, v) \/ GetMutByKey2(k2, v) \/ GetMutByKeys(k1, k2, v)
        PROVE  Abstract!Next
    BY <1>6, <1>8, Lookups DEF GetMutByKey1, GetMutByKey2, GetMutByKeys, paired
  <1>9. ASSUME NEW k1 \in Key1, NEW k2 \in Key2, NEW v \in Value,
               Insert(k1, k2, v)
        PROVE  Abstract!Next
    BY <1>6, <1>7, <1>9, ConflictRefines DEF Insert, paired
  <1>10. ASSUME NEW k1 \in Key1, NEW k2 \in Key2, NEW v \in Value,
                EntryOrInsert(k1, k2, v)
         PROVE  Abstract!Next
    <2>1. CASE entry(k1, k2) = "Occupied" /\ ret' = <<primary[k1].value>>
               /\ UNCHANGED maps
      <3>1. Get(k1, k2)
        BY <2>1, EntryCases DEF Get, get_by_keys
      <3> QED  BY <3>1, GetRefines
    <2>2. CASE entry(k1, k2) = "Vacant" /\ add(k1, k2, v)
      BY <1>7, <2>2, EntryCases
    <2> QED  BY <1>10, <2>1, <2>2 DEF EntryOrInsert
  <1>11. ASSUME NEW k1 \in Key1, NEW k2 \in Key2, NEW v \in Value,
                EntryInsert(k1, k2, v)
         PROVE  Abstract!Next
    BY <1>6, <1>7, <1>11, EntryCases DEF EntryInsert, paired
  <1>12. ASSUME NEW rejected \in SUBSET Key1, Retain(rejected)
         PROVE  Abstract!Next
    BY <1>12, RetainRefines DEF Retain
  <1>13. ASSUME Clear PROVE Abstract!Next
    <2>1. primary' = [k1 \in Key1 |-> IF k1 \in Key1 THEN None ELSE primary[k1]]
      BY <1>13 DEF Clear
    <2> QED  BY <1>13, <2>1, RetainRefines DEF Clear
  <1>14. CASE UNCHANGED vars
    BY <1>14 DEF vars, entries, entryAt, Abstract!vars
  <1> QED
    BY <1>1, <1>2, <1>3, <1>4, <1>5, <1>8, <1>9, <1>10, <1>11, <1>12, <1>13,
       <1>14, GetRefines DEF Next

\* The double map is a set of entries with two unique keys: every operation, by
\* either key or through an entry, returns and leaves behind what it would there.
THEOREM Implements == Spec => ImplementsTwoKeyMap
  <1>1. Init => Abstract!Init
    BY DEF Init, Abstract!Init, entries
  <1> QED  BY <1>1, Invariant, StepRefines, PTL
           DEF Spec, ImplementsTwoKeyMap, Abstract!Spec

=============================================================================
