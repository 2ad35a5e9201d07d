--------------------------- MODULE CredStoreProofs ---------------------------
(***************************************************************************)
(* Proofs about CredStore, CredMgmt and CredStorage, for any number of     *)
(* slots up to the values of the count byte, any relying parties and any   *)
(* overlap of user ids: the credential slots and the records of relying    *)
(* parties never drift apart, under power cuts by no more than the torn    *)
(* releases explain; an undisturbed enumeration reports all of it once.    *)
(***************************************************************************)
EXTENDS CredMgmt, CredStorage, FiniteSetTheorems, SequenceTheorems, WellFoundedInduction, TLAPS

(***************************************************************************)
(* Arithmetic of the count byte, and the first slot of a set               *)
(***************************************************************************)

\* A count below the byte's range is stored as it is.
LEMMA ModSmall ==
    ASSUME NEW n \in Nat, n < ByteMod
    PROVE  n % ByteMod = n
BY SlotAssumption

\* So is one that went round once, as a decrement computes it.
LEMMA ModWrap ==
    ASSUME NEW n \in Nat, n < ByteMod
    PROVE  (n + ByteMod) % ByteMod = n
BY SlotAssumption

\* A full byte wraps to zero: the 256th credential of a relying party.
LEMMA ModFull == ByteMod % ByteMod = 0
BY SlotAssumption

\* The first slot of a set is in it and comes before the others.
LEMMA MinLeast ==
    ASSUME NEW S \in SUBSET Slots, S # {}
    PROVE  Min(S) \in S /\ \A y \in S : Min(S) <= y
<1>1. S \subseteq Nat
  BY DEF Slots
<1>2. PICK x \in S : \A y \in S : ~(<<y, x>> \in OpToRel(<, Nat))
  BY <1>1, NatLessThanWellFounded, WFMin, Zenon
<1>3. ASSUME NEW y \in S PROVE x <= y
  <2>1. ~(<<y, x>> \in {ss \in Nat \X Nat : ss[1] < ss[2]})
    BY <1>2 DEF OpToRel
  <2>2. ~(y < x)
    BY <1>1, <2>1
  <2> QED
    BY <1>1, <2>2
<1> QED
  BY <1>3 DEF Min

\* There are NumSlots slots.
LEMMA SlotsFinite == IsFiniteSet(Slots) /\ Cardinality(Slots) = NumSlots
BY SlotAssumption, FS_Interval DEF Slots

\* A relying party has no more credentials than there are slots, and a count of
\* zero when it has none.
LEMMA CredsFinite ==
    ASSUME NEW r
    PROVE  /\ IsFiniteSet(CredsOf(r))
           /\ Cardinality(CredsOf(r)) \in 0 .. NumSlots
           /\ Cardinality(CredsOf(r)) = 0 <=> CredsOf(r) = {}
<1>1. CredsOf(r) \subseteq Slots
  BY DEF CredsOf, UsedIn
<1> QED
  BY <1>1, SlotsFinite, FS_Subset, FS_CardinalityType, FS_EmptySet, SlotAssumption

(***************************************************************************)
(* What a write or a deletion does to the credentials of each relying      *)
(* party, and why a record is free whenever a credential slot is           *)
(***************************************************************************)

Inv == StoreTypeOK /\ RpCountsMatch

Creds == [rp : Rps, user : Users, key : DeviceKeys]
Records == [rp : Rps, count : 0 .. (ByteMod - 1)]

\* An empty slot is neither a credential nor a record.
LEMMA EmptyApart == Empty \notin Creds /\ Empty \notin Records
BY EmptyAssumption DEF Creds, Records

\* Storing in a free slot adds that slot to the one relying party.
LEMMA WriteAdds ==
    ASSUME StoreTypeOK, NEW k \in FreeIn(cred), NEW r \in Rps, NEW u \in Users, Write(k, r, u),
           devKey \in DeviceKeys, NEW q \in Rps
    PROVE  /\ CredsOf(q)' = IF q = r THEN CredsOf(q) \cup {k} ELSE CredsOf(q)
           /\ k \notin CredsOf(q)
BY EmptyAssumption DEF StoreTypeOK, Write, CredsOf, UsedIn, FreeIn, Slots

\* Storing over a credential of the same relying party moves none.
LEMMA OverwriteKeeps ==
    ASSUME StoreTypeOK, NEW r \in Rps, NEW k \in CredsOf(r), NEW u \in Users, Write(k, r, u),
           devKey \in DeviceKeys, NEW q \in Rps
    PROVE  CredsOf(q)' = CredsOf(q)
BY EmptyAssumption DEF StoreTypeOK, Write, CredsOf, UsedIn, FreeIn, Slots

\* A deletion takes its slot from the credential's relying party alone.
LEMMA DeleteRemoves ==
    ASSUME StoreTypeOK, NEW k \in UsedIn(cred), cred' = [cred EXCEPT ![k] = Empty], NEW q \in Rps
    PROVE  /\ cred[k].rp \in Rps
           /\ k \in CredsOf(cred[k].rp)
           /\ CredsOf(q)' = IF q = cred[k].rp THEN CredsOf(q) \ {k} ELSE CredsOf(q)
BY EmptyAssumption DEF StoreTypeOK, CredsOf, UsedIn, FreeIn, Slots

\* The records are injective in their relying parties, and each has a credential.
LEMMA FreeRecord ==
    ASSUME Inv, FreeIn(cred) # {}
    PROVE  FreeIn(record) # {}
<1> SUFFICES ASSUME FreeIn(record) = {} PROVE FALSE
  OBVIOUS
<1>1. PICK k \in FreeIn(cred) : TRUE
  BY DEF Inv
<1>2. \A j \in Slots : record[j] \in Records /\ record[j].rp \in Rps /\ j \in RecordsOf(record[j].rp)
  BY EmptyAssumption DEF Inv, StoreTypeOK, Records, RecordsOf, UsedIn, FreeIn
<1>3. \A j \in Slots : CredsOf(record[j].rp) # {}
  BY <1>2, CredsFinite DEF Inv, RpCountsMatch
<1> DEFINE f == [j \in Slots |-> CHOOSE i \in CredsOf(record[j].rp) : TRUE]
<1>4. \A j \in Slots : f[j] \in CredsOf(record[j].rp)
  BY <1>3
<1>5. f \in [Slots -> Slots \ {k}]
  BY <1>1, <1>4 DEF CredsOf, UsedIn
<1>6. /\ IsFiniteSet(Slots \ {k})
      /\ Cardinality(Slots \ {k}) < Cardinality(Slots)
  <2>1. k \in Slots
    BY <1>1 DEF FreeIn
  <2>2. IsFiniteSet(Slots \ {k}) /\ Cardinality(Slots \ {k}) = Cardinality(Slots) - 1
    BY <2>1, SlotsFinite, FS_RemoveElement
  <2> QED
    BY <2>2, SlotsFinite, SlotAssumption
<1>7. PICK x, y \in Slots : x # y /\ f[x] = f[y]
  <2> HIDE DEF f
  <2> QED BY <1>5, <1>6, SlotsFinite, FS_PigeonHole
<1>8. record[x].rp = record[y].rp
  <2>1. f[x] \in CredsOf(record[x].rp) /\ f[x] \in CredsOf(record[y].rp)
    BY <1>4, <1>7
  <2> QED BY <2>1 DEF CredsOf
<1>9. x = y
  BY <1>2, <1>8 DEF Inv, RpCountsMatch
<1> QED
  BY <1>7, <1>9

(***************************************************************************)
(* What Counted and Uncounted do to the records                            *)
(***************************************************************************)

\* The records of q after the step are those before it.
SameRecords(q) == RecordsOf(q)' = RecordsOf(q) /\ \A i \in RecordsOf(q) : record'[i] = record[i]

\* One record counts n credentials of q after the step.
OneRecord(q, n) ==
    /\ RecordsOf(q)' # {}
    /\ \A i \in RecordsOf(q)' : record'[i].count = n % ByteMod
    /\ \A i, j \in RecordsOf(q)' : i = j

\* After a new credential its relying party has one record, with the count one
\* up, and the records of the others are as before.
LEMMA CountedUp ==
    ASSUME Inv, FreeIn(cred) # {}, NEW r \in Rps, record' = Counted(r),
           NEW n \in Nat, n = Cardinality(CredsOf(r)), n < ByteMod
    PROVE  /\ record' \in [Slots -> Records \cup {Empty}]
           /\ OneRecord(r, n + 1)
           /\ \A q \in Rps \ {r} : SameRecords(q)
<1>0. record \in [Slots -> Records \cup {Empty}]
  BY DEF Inv, StoreTypeOK, Records
<1>m. (n + 1) % ByteMod \in 0 .. (ByteMod - 1) /\ 1 \in 0 .. (ByteMod - 1)
  BY SlotAssumption
<1>1. CASE RecordsOf(r) # {}
  <2> DEFINE j == Min(RecordsOf(r))
  <2>1. j \in RecordsOf(r)
    BY <1>1, MinLeast DEF RecordsOf, UsedIn
  <2>2. j \in Slots /\ record[j] \in Records /\ record[j].rp = r /\ \A i \in RecordsOf(r) : i = j
    BY <1>0, <2>1 DEF RecordsOf, UsedIn, FreeIn, Inv, RpCountsMatch
  <2>3. record[j].count = n
    BY <2>1, ModSmall DEF Inv, RpCountsMatch
  <2>4. record' = [record EXCEPT ![j].count = (n + 1) % ByteMod]
    BY <1>1, <2>3 DEF Counted
  <2> HIDE DEF j
  <2>5. record' = [record EXCEPT ![j] = [rp |-> r, count |-> (n + 1) % ByteMod]]
    BY <1>0, <2>2, <2>4 DEF Records
  <2>6. record' \in [Slots -> Records \cup {Empty}]
    <3>1. [rp |-> r, count |-> (n + 1) % ByteMod] \in Records
      BY <1>m DEF Records
    <3> QED
      BY <1>0, <2>5, <3>1
  <2>7. \A i \in Slots : record'[i] = IF i = j THEN [rp |-> r, count |-> (n + 1) % ByteMod] ELSE record[i]
    BY <1>0, <2>5
  <2>8. [rp |-> r, count |-> (n + 1) % ByteMod] \in Records
    BY <1>m DEF Records
  <2>9. \A q \in Rps : RecordsOf(q)' = RecordsOf(q)
    BY <1>0, <2>2, <2>7, <2>8, EmptyApart DEF RecordsOf, UsedIn, FreeIn
  <2>10. \A i \in RecordsOf(r)' : i = j
    BY <2>2, <2>9
  <2>11. OneRecord(r, n + 1)
    BY <2>1, <2>2, <2>7, <2>9, <2>10 DEF OneRecord
  <2>12. ASSUME NEW q \in Rps \ {r} PROVE SameRecords(q)
    BY <2>2, <2>7, <2>9 DEF SameRecords, RecordsOf, UsedIn
  <2> QED
    BY <2>6, <2>11, <2>12
<1>2. CASE RecordsOf(r) = {}
  <2> DEFINE j == Min(FreeIn(record))
  <2>1. j \in FreeIn(record)
    BY FreeRecord, MinLeast DEF FreeIn
  <2>2. record' = [record EXCEPT ![j] = [rp |-> r, count |-> 1]]
    BY <1>2, FreeRecord DEF Counted
  <2> HIDE DEF j
  <2>3. j \in Slots /\ record[j] = Empty
    BY <2>1 DEF FreeIn
  <2>4. [rp |-> r, count |-> 1] \in Records
    BY <1>m DEF Records
  <2>5. record' \in [Slots -> Records \cup {Empty}]
    BY <1>0, <2>2, <2>4
  <2>6. \A i \in Slots : record'[i] = IF i = j THEN [rp |-> r, count |-> 1] ELSE record[i]
    BY <1>0, <2>2
  <2>7. RecordsOf(r)' = {j}
    BY <1>0, <1>2, <2>3, <2>4, <2>6, EmptyApart DEF RecordsOf, UsedIn, FreeIn
  <2>8. n = 0
    BY <1>2, CredsFinite DEF Inv, RpCountsMatch
  <2>9. OneRecord(r, n + 1)
    BY <2>3, <2>6, <2>7, <2>8, ModSmall, SlotAssumption DEF OneRecord
  <2>10. ASSUME NEW q \in Rps \ {r} PROVE SameRecords(q)
    BY <2>3, <2>4, <2>6, EmptyApart DEF SameRecords, RecordsOf, UsedIn, FreeIn
  <2> QED
    BY <2>5, <2>9, <2>10
<1> QED
  BY <1>1, <1>2

\* After a deletion the record of the relying party is one down, or gone with
\* its last credential, and the records of the others are as before.
LEMMA UncountedDown ==
    ASSUME Inv, NEW r \in Rps, record' = Uncounted(r),
           NEW n \in Nat, n = Cardinality(CredsOf(r)), 0 < n, n <= ByteMod
    PROVE  /\ record' \in [Slots -> Records \cup {Empty}]
           /\ IF n = 1 THEN RecordsOf(r)' = {} ELSE OneRecord(r, n - 1)
           /\ \A q \in Rps \ {r} : SameRecords(q)
<1> DEFINE j == Min(RecordsOf(r))
           c == (record[j].count + ByteMod - 1) % ByteMod
<1>0. record \in [Slots -> Records \cup {Empty}]
  BY DEF Inv, StoreTypeOK, Records
<1>1. RecordsOf(r) # {}
  BY CredsFinite DEF Inv, RpCountsMatch
<1>2. j \in RecordsOf(r)
  BY <1>1, MinLeast DEF RecordsOf, UsedIn
<1>3. j \in Slots /\ record[j] \in Records /\ record[j].rp = r /\ \A i \in RecordsOf(r) : i = j
  BY <1>0, <1>2 DEF RecordsOf, UsedIn, FreeIn, Inv, RpCountsMatch
<1>4. record[j].count = n % ByteMod
  BY <1>2 DEF Inv, RpCountsMatch
<1>5. c = n - 1 /\ (n - 1) % ByteMod = n - 1 /\ n - 1 \in 0 .. (ByteMod - 1)
  <2> HIDE DEF j
  <2>1. (n - 1) % ByteMod = n - 1 /\ n - 1 \in 0 .. (ByteMod - 1)
    BY ModSmall, SlotAssumption
  <2>2. CASE n = ByteMod
    <3>1. record[j].count = 0
      BY <1>4, <2>2, ModFull
    <3>2. record[j].count + ByteMod - 1 = n - 1
      BY <2>2, <3>1, SlotAssumption
    <3> QED
      BY <2>1, <3>2
  <2>3. CASE n < ByteMod
    <3>1. record[j].count = n
      BY <1>4, <2>3, ModSmall
    <3>2. record[j].count + ByteMod - 1 = (n - 1) + ByteMod
      BY <3>1, SlotAssumption
    <3>3. ((n - 1) + ByteMod) % ByteMod = n - 1
      BY <2>1, ModWrap, SlotAssumption
    <3> QED
      BY <2>1, <3>2, <3>3
  <2> QED
    BY <2>2, <2>3, SlotAssumption
<1>6. record' = IF c = 0 THEN [record EXCEPT ![j] = Empty] ELSE [record EXCEPT ![j].count = c]
  BY <1>1 DEF Uncounted
<1> HIDE DEF j, c
<1>7. CASE n = 1
  <2>0. record' = [record EXCEPT ![j] = Empty]
    BY <1>5, <1>6, <1>7
  <2>1. \A i \in Slots : record'[i] = IF i = j THEN Empty ELSE record[i]
    BY <1>0, <2>0
  <2>2. record' \in [Slots -> Records \cup {Empty}]
    BY <1>0, <2>0
  <2>3. RecordsOf(r)' = {}
    BY <1>3, <2>1 DEF RecordsOf, UsedIn, FreeIn
  <2>4. ASSUME NEW q \in Rps \ {r} PROVE SameRecords(q)
    BY <1>3, <2>1 DEF SameRecords, RecordsOf, UsedIn, FreeIn
  <2> QED
    BY <1>7, <2>2, <2>3, <2>4
<1>8. CASE n # 1
  <2> DEFINE new == [rp |-> r, count |-> n - 1]
  <2>0. record' = [record EXCEPT ![j].count = n - 1]
    BY <1>5, <1>6, <1>8
  <2>1. record' = [record EXCEPT ![j] = new]
    BY <1>0, <1>3, <2>0 DEF Records
  <2>2. new \in Records
    BY <1>5 DEF Records
  <2>3. record' \in [Slots -> Records \cup {Empty}]
    BY <1>0, <2>1, <2>2
  <2>4. \A i \in Slots : record'[i] = IF i = j THEN new ELSE record[i]
    BY <1>0, <2>1
  <2>5. \A q \in Rps : RecordsOf(q)' = RecordsOf(q)
    BY <1>0, <1>3, <2>2, <2>4, EmptyApart DEF RecordsOf, UsedIn, FreeIn
  <2>6. OneRecord(r, n - 1)
    BY <1>2, <1>3, <1>5, <2>4, <2>5 DEF OneRecord
  <2>7. ASSUME NEW q \in Rps \ {r} PROVE SameRecords(q)
    BY <1>3, <2>4, <2>5 DEF SameRecords, RecordsOf, UsedIn
  <2> QED
    BY <1>8, <2>3, <2>6, <2>7
<1> QED
  BY <1>7, <1>8

(***************************************************************************)
(* The invariant                                                           *)
(***************************************************************************)

\* The records fit the credentials of q.
Fits(q) ==
    /\ RecordsOf(q) = {} <=> CredsOf(q) = {}
    /\ \A i \in RecordsOf(q) : record[i].count = Cardinality(CredsOf(q)) % ByteMod
    /\ \A i, j \in RecordsOf(q) : i = j

\* The records match the credentials when they do for each relying party.
LEMMA FitsAll ==
    ASSUME \A q \in Rps : Fits(q)'
    PROVE  RpCountsMatch'
BY DEF Fits, RpCountsMatch

\* A relying party whose credentials and records a step leaves alone still fits.
LEMMA Undisturbed ==
    ASSUME Inv, NEW q \in Rps, CredsOf(q)' = CredsOf(q), SameRecords(q)
    PROVE  Fits(q)'
BY DEF Inv, RpCountsMatch, SameRecords, Fits

\* A registration in a free slot keeps the records in step.
LEMMA StoreNewInv ==
    ASSUME Inv, KeyTypeOK, NEW r \in Rps, NEW u \in Users, StoreNew(r, u)
    PROVE  Inv'
<1> DEFINE k == Min(FreeIn(cred))
           n == Cardinality(CredsOf(r))
<1>1. k \in FreeIn(cred)
  BY MinLeast DEF StoreNew, FreeIn
<1>2. Write(k, r, u) /\ record' = Counted(r) /\ devKey \in DeviceKeys
  BY DEF StoreNew, KeyTypeOK
<1> HIDE DEF k
<1>3. \A q \in Rps : /\ CredsOf(q)' = IF q = r THEN CredsOf(q) \cup {k} ELSE CredsOf(q)
                     /\ k \notin CredsOf(q)
  BY <1>1, <1>2, WriteAdds DEF Inv
<1>4. Cardinality(CredsOf(r)') = n + 1
  BY <1>3, CredsFinite, FS_AddElement
<1>5. n \in Nat /\ n < ByteMod
  <2>1. CredsOf(r) \subseteq Slots \ {k}
    BY <1>3 DEF CredsOf, UsedIn
  <2>2. k \in Slots
    BY <1>1 DEF FreeIn
  <2>3. IsFiniteSet(Slots \ {k}) /\ Cardinality(Slots \ {k}) = NumSlots - 1
    BY <2>2, SlotsFinite, FS_RemoveElement
  <2>4. n <= NumSlots - 1
    BY <2>1, <2>3, FS_Subset
  <2> QED
    BY <2>4, CredsFinite, SlotAssumption
<1> HIDE DEF n
<1>6. /\ record' \in [Slots -> Records \cup {Empty}]
      /\ OneRecord(r, n + 1)
      /\ \A q \in Rps \ {r} : SameRecords(q)
  BY <1>1, <1>2, <1>5, CountedUp DEF n
<1>7. StoreTypeOK'
  <2>1. cred' \in [Slots -> Creds \cup {Empty}]
    BY <1>2 DEF Inv, StoreTypeOK, Creds, Write
  <2> QED
    BY <1>6, <2>1 DEF StoreTypeOK, Creds, Records
<1>8. Fits(r)'
  <2>1. CredsOf(r)' # {}
    BY <1>3
  <2> QED
    BY <1>4, <1>6, <2>1 DEF Fits, OneRecord
<1>9. ASSUME NEW q \in Rps \ {r} PROVE Fits(q)'
  BY <1>3, <1>6, Undisturbed
<1> QED
  BY <1>7, <1>8, <1>9, FitsAll DEF Inv

\* A registration over an earlier credential keeps them in step.
LEMMA StoreOverInv ==
    ASSUME Inv, KeyTypeOK, NEW r \in Rps, NEW u \in Users, StoreOver(r, u)
    PROVE  Inv'
<1> DEFINE k == Min(Replaceable(r, u))
<1>1. k \in Replaceable(r, u)
  BY MinLeast DEF StoreOver, Replaceable, CredsOf, UsedIn
<1>2. Write(k, r, u) /\ record' = record /\ devKey \in DeviceKeys
  BY DEF StoreOver, KeyTypeOK
<1> HIDE DEF k
<1>3. k \in CredsOf(r)
  BY <1>1 DEF Replaceable
<1>4. StoreTypeOK'
  <2>1. cred' \in [Slots -> Creds \cup {Empty}]
    BY <1>2 DEF Inv, StoreTypeOK, Creds, Write
  <2> QED
    BY <1>2, <2>1 DEF StoreTypeOK, Creds, Inv
<1>5. ASSUME NEW q \in Rps PROVE Fits(q)'
  <2>1. CredsOf(q)' = CredsOf(q)
    BY <1>2, <1>3, OverwriteKeeps DEF Inv
  <2>2. SameRecords(q)
    BY <1>2 DEF SameRecords, RecordsOf, UsedIn, FreeIn
  <2> QED
    BY <2>1, <2>2, Undisturbed
<1> QED
  BY <1>4, <1>5, FitsAll DEF Inv

\* A deletion keeps them in step.
LEMMA DeleteInv ==
    ASSUME Inv, NEW k \in Slots, Delete(k)
    PROVE  Inv'
<1>0. k \in UsedIn(cred) /\ cred' = [cred EXCEPT ![k] = Empty]
  BY DEF Delete
<1>r. PICK r \in Rps : r = cred[k].rp
  BY <1>0, EmptyAssumption DEF Inv, StoreTypeOK, UsedIn, FreeIn
<1> DEFINE n == Cardinality(CredsOf(r))
<1>1. record' = Uncounted(r)
  BY <1>r DEF Delete
<1>2. /\ k \in CredsOf(r)
      /\ \A q \in Rps : CredsOf(q)' = IF q = r THEN CredsOf(q) \ {k} ELSE CredsOf(q)
  <2>1. k \in CredsOf(r)
    BY <1>0, <1>r DEF CredsOf
  <2> QED
    BY <1>0, <1>r, <2>1, DeleteRemoves DEF Inv
<1>3. n \in Nat /\ 0 < n /\ n <= ByteMod
  BY <1>2, CredsFinite, SlotAssumption
<1>4. Cardinality(CredsOf(r)') = n - 1 /\ IsFiniteSet(CredsOf(r)')
  <2>1. CredsOf(r)' = CredsOf(r) \ {k}
    BY <1>2
  <2>2. IsFiniteSet(CredsOf(r))
    BY CredsFinite
  <2>3. IsFiniteSet(CredsOf(r) \ {k}) /\ Cardinality(CredsOf(r) \ {k}) = Cardinality(CredsOf(r)) - 1
    BY <1>2, <2>2, FS_RemoveElement
  <2> QED
    BY <2>1, <2>3
<1> HIDE DEF n
<1>5. /\ record' \in [Slots -> Records \cup {Empty}]
      /\ IF n = 1 THEN RecordsOf(r)' = {} ELSE OneRecord(r, n - 1)
      /\ \A q \in Rps \ {r} : SameRecords(q)
  BY <1>1, <1>2, <1>3, UncountedDown DEF n
<1>6. StoreTypeOK'
  <2>1. cred' \in [Slots -> Creds \cup {Empty}]
    BY <1>0 DEF Inv, StoreTypeOK, Creds
  <2> QED
    BY <1>5, <2>1 DEF StoreTypeOK, Creds, Records
<1>7. Fits(r)'
  <2>1. CredsOf(r)' = {} <=> n = 1
    BY <1>3, <1>4, FS_EmptySet
  <2> QED
    BY <1>4, <1>5, <2>1 DEF Fits, OneRecord
<1>8. ASSUME NEW q \in Rps \ {r} PROVE Fits(q)'
  BY <1>2, <1>5, Undisturbed
<1> QED
  BY <1>6, <1>7, <1>8, FitsAll DEF Inv

\* An empty store is in step: after the first boot and after a reset.
LEMMA EmptyStoreInv ==
    ASSUME cred = [i \in Slots |-> Empty], record = [i \in Slots |-> Empty]
    PROVE  Inv
<1>1. StoreTypeOK
  BY DEF StoreTypeOK
<1>2. \A r \in Rps : CredsOf(r) = {} /\ RecordsOf(r) = {}
  BY DEF CredsOf, RecordsOf, UsedIn, FreeIn
<1> QED
  BY <1>1, <1>2, CredsFinite DEF Inv, RpCountsMatch

\* Every step of the store preserves the invariant.
LEMMA StoreStepInv ==
    ASSUME Inv, KeyTypeOK, [StoreNext]_storeVars
    PROVE  Inv'
<1>1. ASSUME NEW r \in Rps, NEW u \in Users, StoreNew(r, u) PROVE Inv'
  BY <1>1, StoreNewInv
<1>2. ASSUME NEW r \in Rps, NEW u \in Users, StoreOver(r, u) PROVE Inv'
  BY <1>2, StoreOverInv
<1>3. ASSUME NEW i \in Slots, Delete(i) PROVE Inv'
  BY <1>3, DeleteInv
<1>4. ASSUME NEW i \in Slots, UpdateUser(i) PROVE Inv'
  <2>1. cred[i] \in Creds
    BY <1>4 DEF UpdateUser, UsedIn, FreeIn, Inv, StoreTypeOK, Creds
  <2>2. PICK r \in Rps, u \in Users : r = cred[i].rp /\ u = cred[i].user
    BY <2>1 DEF Creds
  <2> QED
    BY <1>4, <2>2, StoreOverInv DEF UpdateUser
<1>5. CASE EraseStore
  <2>1. StoreTypeOK'
    BY <1>5 DEF EraseStore, StoreTypeOK
  <2>2. ASSUME NEW q \in Rps PROVE Fits(q)'
    <3>1. CredsOf(q)' = {} /\ RecordsOf(q)' = {}
      BY <1>5 DEF EraseStore, CredsOf, RecordsOf, UsedIn, FreeIn
    <3> QED
      BY <3>1 DEF Fits
  <2> QED
    BY <2>1, <2>2, FitsAll DEF Inv
<1>6. CASE UNCHANGED storeVars
  BY <1>6 DEF storeVars, Inv, StoreTypeOK, RpCountsMatch, CredsOf, RecordsOf, UsedIn, FreeIn
<1> QED
  BY <1>1, <1>2, <1>3, <1>4, <1>5, <1>6 DEF StoreNext

\* Every command of CredMgmt is a step of the store or leaves it alone.
LEMMA MgmtSteps == [Next]_vars => [StoreNext \/ KeyChanges]_<<storeVars, devKey>>
<1> SUFFICES ASSUME [Next]_vars PROVE [StoreNext \/ KeyChanges]_<<storeVars, devKey>>
  OBVIOUS
<1>1. CASE StoreCommand
  BY <1>1 DEF StoreCommand
<1>2. CASE EnumRPsBegin \/ EnumRPsBeginNone \/ EnumRPsNext
  BY <1>2 DEF EnumRPsBegin, EnumRPsBeginNone, EnumRPsNext
<1>3. CASE \E r \in Rps : EnumCredsBegin(r) \/ EnumCredsBeginFails(r) \/ EnumCredsBeginNone(r)
  BY <1>3 DEF EnumCredsBegin, EnumCredsBeginFails, EnumCredsBeginNone
<1>4. CASE EnumCredsNext \/ EnumCredsNextFails \/ EnumCredsNextNone
  BY <1>4 DEF EnumCredsNext, EnumCredsNextFails, EnumCredsNextNone
<1>5. CASE PowerCycle \/ ChangeKey
  BY <1>5 DEF PowerCycle, ChangeKey
<1>6. CASE UNCHANGED vars
  BY <1>6 DEF vars
<1> QED
  BY <1>1, <1>2, <1>3, <1>4, <1>5, <1>6 DEF Next

\* The files are left alone when only the device key changes, and the key in
\* use is one of the device keys or none.
LEMMA KeyStep ==
    ASSUME [StoreNext \/ KeyChanges]_<<storeVars, devKey>>
    PROVE  [StoreNext]_storeVars /\ (KeyTypeOK => KeyTypeOK')
BY DEF StoreNext, KeyChanges, NewKey, KeyTypeOK

\* The commands of cbor_cred_mgmt.c implement the store alone.
THEOREM ImplementsStore == Spec => StoreSpec
<1>1. Init => StoreInit
  BY DEF Init
<1> QED
  BY <1>1, MgmtSteps, PTL DEF Spec, StoreSpec

\* In every reachable state the records of the relying parties count their
\* credentials (credential_store, cbor_cred_mgmt).
THEOREM StoreInvariant == Spec => []Inv
<1>1. StoreInit => Inv /\ KeyTypeOK
  BY EmptyStoreInv DEF StoreInit, KeyTypeOK
<1>2. Inv /\ KeyTypeOK /\ [StoreNext \/ KeyChanges]_<<storeVars, devKey>> => Inv' /\ KeyTypeOK'
  BY StoreStepInv, KeyStep
<1>3. StoreSpec => []Inv
  BY <1>1, <1>2, PTL DEF StoreSpec
<1> QED
  BY <1>3, ImplementsStore, PTL

\* A relying party has one record exactly while it has credentials, and the
\* record counts them (credential_store and deleteCredential).
THEOREM RecordsCountCredentials == Spec => []RpCountsMatch
<1>1. Inv => RpCountsMatch
  BY DEF Inv
<1> QED
  BY <1>1, StoreInvariant, PTL

\* An enumeration of relying parties passes over none that has credentials,
\* short of a store filled by one of them.
THEOREM CredentialsAreReachable == Spec => []RpWithCredentialsIsListed
<1>1. Inv => RpWithCredentialsIsListed
  <2> SUFFICES ASSUME Inv, NEW r \in Rps, CredsOf(r) # {}, Cardinality(CredsOf(r)) < ByteMod
               PROVE  RecordsOf(r) \cap ListedRps # {}
    BY DEF RpWithCredentialsIsListed
  <2>1. PICK i \in RecordsOf(r) : record[i].count = Cardinality(CredsOf(r)) % ByteMod
    BY DEF Inv, RpCountsMatch
  <2>2. Cardinality(CredsOf(r)) \in Nat /\ Cardinality(CredsOf(r)) # 0
    BY CredsFinite, SlotAssumption
  <2>3. Cardinality(CredsOf(r)) % ByteMod = Cardinality(CredsOf(r))
    BY <2>2, ModSmall
  <2>4. record[i].count > 0
    BY <2>1, <2>2, <2>3
  <2> QED
    BY <2>1, <2>4 DEF ListedRps, RecordsOf
<1> QED
  BY <1>1, StoreInvariant, PTL

(***************************************************************************)
(* Registrations of the same user                                          *)
(***************************************************************************)

UserInv == Inv /\ KeyTypeOK /\ OnePerIsolatedUser

\* The credentials of user u at relying party r that device key x sealed.
Owned(r, u, x) == {i \in CredsOf(r) : cred[i].user = u /\ cred[i].key = x}

\* What a write does to the slots of each user and device key.
LEMMA WrittenOver ==
    ASSUME StoreTypeOK, NEW k \in Slots, NEW r \in Rps, NEW u \in Users, Write(k, r, u),
           devKey \in DeviceKeys, NEW q \in Rps, NEW v \in Users, NEW x \in DeviceKeys
    PROVE  Owned(q, v, x)' =
             IF q = r /\ v = u /\ x = devKey THEN Owned(q, v, x) \cup {k} ELSE Owned(q, v, x) \ {k}
BY EmptyAssumption DEF StoreTypeOK, Write, Owned, CredsOf, UsedIn, FreeIn

\* OnePerIsolatedUser in terms of the slots of a user and a device key.
LEMMA OwnedOnce ==
    ASSUME StoreTypeOK
    PROVE  OnePerIsolatedUser <=>
             \A r \in Rps, u \in Users, x \in DeviceKeys :
                 Isolated(u) => \A i, j \in Owned(r, u, x) : i = j
BY EmptyAssumption DEF OnePerIsolatedUser, Owned, StoreTypeOK, CredsOf, UsedIn, FreeIn

\* A write to the slot of the same user, or to any slot when the user has none,
\* leaves every isolated user with one credential.
LEMMA WriteKeepsUsers ==
    ASSUME UserInv, NEW k \in Slots, NEW r \in Rps, NEW u \in Users, Write(k, r, u),
           devKey \in DeviceKeys, StoreTypeOK',
           k \in Replaceable(r, u) \/ Replaceable(r, u) = {}
    PROVE  OnePerIsolatedUser'
<1> SUFFICES ASSUME NEW q \in Rps, NEW v \in Users, NEW x \in DeviceKeys, Isolated(v),
                    NEW i \in Owned(q, v, x)', NEW j \in Owned(q, v, x)'
             PROVE  i = j
  BY EmptyAssumption DEF OnePerIsolatedUser, Owned, Isolated, StoreTypeOK, CredsOf, UsedIn, FreeIn
<1>1. \A m, n \in Owned(q, v, x) : m = n
  BY OwnedOnce DEF UserInv, Inv
<1>2. Owned(q, v, x)' =
        IF q = r /\ v = u /\ x = devKey THEN Owned(q, v, x) \cup {k} ELSE Owned(q, v, x) \ {k}
  BY WrittenOver DEF UserInv, Inv
<1>3. CASE ~(q = r /\ v = u /\ x = devKey)
  BY <1>1, <1>2, <1>3
<1>4. CASE q = r /\ v = u /\ x = devKey
  <2>1. Owned(q, v, x) \subseteq Replaceable(r, u)
    BY <1>4, SimilarAssumption DEF Owned, Replaceable, Loads
  <2>2. Replaceable(r, u) \subseteq Owned(q, v, x)
    BY <1>4, SimilarAssumption, EmptyAssumption
       DEF Owned, Replaceable, Loads, Isolated, CredsOf, UsedIn, FreeIn, UserInv, Inv, StoreTypeOK
  <2> QED
    BY <1>1, <1>2, <1>4, <2>1, <2>2
<1> QED
  BY <1>3, <1>4

\* Every step of the store preserves that each isolated user has one credential.
LEMMA UserStepInv ==
    ASSUME UserInv, [StoreNext]_storeVars
    PROVE  Inv' /\ OnePerIsolatedUser'
<1>0. Inv' /\ StoreTypeOK'
  BY StoreStepInv DEF UserInv, Inv
<1>1. ASSUME NEW r \in Rps, NEW u \in Users, StoreNew(r, u) PROVE OnePerIsolatedUser'
  <2>1. Min(FreeIn(cred)) \in Slots
    BY <1>1, MinLeast DEF StoreNew, FreeIn
  <2> QED
    BY <1>0, <1>1, <2>1, WriteKeepsUsers DEF StoreNew, UserInv, KeyTypeOK
<1>2. ASSUME NEW r \in Rps, NEW u \in Users, StoreOver(r, u) PROVE OnePerIsolatedUser'
  <2>1. Min(Replaceable(r, u)) \in Replaceable(r, u) /\ Replaceable(r, u) \subseteq Slots
    BY <1>2, MinLeast DEF StoreOver, Replaceable, CredsOf, UsedIn
  <2> QED
    BY <1>0, <1>2, <2>1, WriteKeepsUsers DEF StoreOver, UserInv, KeyTypeOK
<1>3. ASSUME NEW k \in Slots, Delete(k) PROVE OnePerIsolatedUser'
  <2>1. ASSUME NEW q \in Rps, NEW v \in Users, NEW x \in DeviceKeys
        PROVE  Owned(q, v, x)' \subseteq Owned(q, v, x)
    BY <1>3, EmptyAssumption DEF Delete, Owned, CredsOf, UsedIn, FreeIn, UserInv, Inv, StoreTypeOK
  <2>2. \A q \in Rps, v \in Users, x \in DeviceKeys :
          Isolated(v) => \A i, j \in Owned(q, v, x)' : i = j
    BY <2>1, OwnedOnce DEF UserInv, Inv
  <2> QED
    BY <1>0, <2>2, EmptyAssumption
       DEF OnePerIsolatedUser, Owned, Isolated, StoreTypeOK, CredsOf, UsedIn, FreeIn
<1>4. ASSUME NEW i \in Slots, UpdateUser(i) PROVE OnePerIsolatedUser'
  <2>1. cred[i] \in Creds
    BY <1>4 DEF UpdateUser, UsedIn, FreeIn, UserInv, Inv, StoreTypeOK, Creds
  <2>2. PICK r \in Rps, u \in Users : r = cred[i].rp /\ u = cred[i].user
    BY <2>1 DEF Creds
  <2> QED
    BY <1>2, <1>4, <2>2 DEF UpdateUser
<1>5. ASSUME EraseStore PROVE OnePerIsolatedUser'
  BY <1>5 DEF EraseStore, OnePerIsolatedUser, CredsOf, UsedIn, FreeIn
<1>6. ASSUME UNCHANGED storeVars PROVE OnePerIsolatedUser'
  BY <1>6 DEF storeVars, UserInv, OnePerIsolatedUser, Isolated, CredsOf, UsedIn, FreeIn
<1> QED
  BY <1>0, <1>1, <1>2, <1>3, <1>4, <1>5, <1>6 DEF StoreNext

\* A user id that is no prefix of another owns one credential at a relying
\* party and under a device key at most, whatever device keys were in use when
\* (the credentials credential_store can open, and its comparison of user ids).
THEOREM RegistrationsReplace == Spec => []OnePerIsolatedUser
<1>1. StoreInit => UserInv
  <2>1. StoreInit => Inv /\ KeyTypeOK
    BY EmptyStoreInv DEF StoreInit, KeyTypeOK
  <2>2. StoreInit => OnePerIsolatedUser
    BY DEF StoreInit, OnePerIsolatedUser, CredsOf, UsedIn, FreeIn
  <2> QED
    BY <2>1, <2>2 DEF UserInv
<1>2. UserInv /\ [StoreNext \/ KeyChanges]_<<storeVars, devKey>> => UserInv'
  BY UserStepInv, KeyStep DEF UserInv
<1>3. UserInv => OnePerIsolatedUser
  BY DEF UserInv
<1> QED
  BY <1>1, <1>2, <1>3, ImplementsStore, PTL DEF StoreSpec

(***************************************************************************)
(* CredStorage: the same files, and the sign counter, under power cuts     *)
(***************************************************************************)

\* The occupied slots of r in the contents of one of the two files.
SlotsIn(file, r) == {i \in Slots : file[i] # Empty /\ file[i].rp = r}

\* RpCountsMatch of contents that may be on their way to the flash.
Agree(creds, records) ==
    \A r \in Rps :
        /\ SlotsIn(records, r) = {} <=> SlotsIn(creds, r) = {}
        /\ \A i \in SlotsIn(records, r) :
              records[i].count = Cardinality(SlotsIn(creds, r)) % ByteMod
        /\ \A i, j \in SlotsIn(records, r) : i = j

Contents ==
    [cred    : [Slots -> Creds \cup {Empty}],
     record  : [Slots -> Records \cup {Empty}],
     counter : Nat,
     drift   : Nat]

\* Contents that no torn release went into are in step.
InStep == {c \in Contents : c.drift = 0 => Agree(c.cred, c.record)}

FilesInv == StoreTypeOK /\ counter \in Nat /\ drift \in Nat /\ (drift = 0 => RpCountsMatch)

\* The counter on the flash is behind by no more than the releases pending.
CounterLag == \A k \in 0 .. Len(pending) : counter <= Written(k).counter + (Len(pending) - k)

StorageInv ==
    /\ FilesInv
    /\ answered \in Nat /\ lost \in Nat
    /\ flashed \in InStep /\ pending \in Seq(InStep)
    /\ CounterLag
    /\ CountersGrow

\* Agree is RpCountsMatch of the files as the program reads them ...
LEMMA AgreeNow == RpCountsMatch <=> Agree(cred, record)
<1>1. \A r \in Rps : CredsOf(r) = SlotsIn(cred, r) /\ RecordsOf(r) = SlotsIn(record, r)
  BY DEF CredsOf, RecordsOf, UsedIn, FreeIn, SlotsIn
<1> QED
  BY <1>1, Zenon DEF RpCountsMatch, Agree

\* ... and as it will read them.
LEMMA AgreeNext == RpCountsMatch' <=> Agree(cred', record')
<1>1. \A r \in Rps : CredsOf(r)' = SlotsIn(cred', r) /\ RecordsOf(r)' = SlotsIn(record', r)
  BY DEF CredsOf, RecordsOf, UsedIn, FreeIn, SlotsIn
<1> QED
  BY <1>1, Zenon DEF RpCountsMatch, Agree

\* The files after a step, under any counter, are in step if FilesInv is kept.
LEMMA FilesNext ==
    ASSUME FilesInv', NEW n \in Nat
    PROVE  [Files' EXCEPT !.counter = n] \in InStep /\ Files' \in InStep
<1>1. cred' \in [Slots -> Creds \cup {Empty}] /\ record' \in [Slots -> Records \cup {Empty}]
  BY DEF FilesInv, StoreTypeOK, Creds, Records
<1>2. drift' = 0 => Agree(cred', record')
  BY AgreeNext DEF FilesInv
<1>3. Files' \in Contents /\ [Files' EXCEPT !.counter = n] \in Contents
  BY <1>1 DEF Files, Contents, FilesInv
<1>4. /\ Files'.cred = cred' /\ Files'.record = record' /\ Files'.drift = drift'
      /\ [Files' EXCEPT !.counter = n].cred = cred'
      /\ [Files' EXCEPT !.counter = n].record = record'
      /\ [Files' EXCEPT !.counter = n].drift = drift'
  BY DEF Files
<1> QED
  BY <1>2, <1>3, <1>4 DEF InStep

(***************************************************************************)
(* Commands                                                                *)
(***************************************************************************)

\* What a write does to the types of the two files, in step or not.
LEMMA StoreTypeStep ==
    ASSUME StoreTypeOK, KeyTypeOK, StoreNext
    PROVE  StoreTypeOK'
<1>0. /\ cred \in [Slots -> Creds \cup {Empty}] /\ record \in [Slots -> Records \cup {Empty}]
  BY DEF StoreTypeOK, Creds, Records
<1>1. devKey # NoKey => \A r \in Rps, u \in Users : [rp |-> r, user |-> u, key |-> devKey] \in Creds
  BY DEF Creds, KeyTypeOK
<1>2. \A n \in Nat : n % ByteMod \in 0 .. (ByteMod - 1)
  BY SlotAssumption
<1>3. ASSUME NEW r \in Rps, NEW j \in RecordsOf(r), NEW n \in 0 .. (ByteMod - 1)
      PROVE  [record EXCEPT ![j].count = n] \in [Slots -> Records \cup {Empty}]
  <2>1. j \in Slots /\ record[j] \in Records
    BY <1>0, <1>3 DEF RecordsOf, UsedIn, FreeIn
  <2>2. [record[j] EXCEPT !.count = n] = [rp |-> record[j].rp, count |-> n]
    BY <2>1 DEF Records
  <2>3. [rp |-> record[j].rp, count |-> n] \in Records
    BY <2>1 DEF Records
  <2> QED
    BY <1>0, <2>1, <2>2, <2>3
<1>4. ASSUME NEW r \in Rps PROVE Counted(r) \in [Slots -> Records \cup {Empty}]
  <2>1. CASE RecordsOf(r) # {}
    <3> DEFINE j == Min(RecordsOf(r))
    <3>1. j \in RecordsOf(r)
      BY <2>1, MinLeast DEF RecordsOf, UsedIn
    <3>2. record[j].count \in Nat
      BY <1>0, <3>1 DEF RecordsOf, UsedIn, FreeIn, Records
    <3>3. Counted(r) = [record EXCEPT ![j].count = (record[j].count + 1) % ByteMod]
      BY <2>1 DEF Counted
    <3> HIDE DEF j
    <3>4. (record[j].count + 1) % ByteMod \in 0 .. (ByteMod - 1)
      BY <1>2, <3>2
    <3> QED
      BY <1>3, <3>1, <3>3, <3>4
  <2>2. CASE RecordsOf(r) = {} /\ FreeIn(record) # {}
    <3> DEFINE j == Min(FreeIn(record))
    <3>1. j \in Slots
      BY <2>2, MinLeast DEF FreeIn
    <3>2. Counted(r) = [record EXCEPT ![j] = [rp |-> r, count |-> 1]]
      BY <2>2 DEF Counted
    <3> HIDE DEF j
    <3>3. [rp |-> r, count |-> 1] \in Records
      BY SlotAssumption DEF Records
    <3> QED
      BY <1>0, <3>1, <3>2, <3>3
  <2>3. CASE RecordsOf(r) = {} /\ FreeIn(record) = {}
    BY <1>0, <2>3 DEF Counted
  <2> QED
    BY <2>1, <2>2, <2>3
<1>5. ASSUME NEW r \in Rps PROVE Uncounted(r) \in [Slots -> Records \cup {Empty}]
  <2>1. CASE RecordsOf(r) # {}
    <3> DEFINE j == Min(RecordsOf(r))
               n == (record[j].count + ByteMod - 1) % ByteMod
    <3>1. j \in RecordsOf(r) /\ j \in Slots
      BY <2>1, MinLeast DEF RecordsOf, UsedIn
    <3>2. record[j].count \in Nat
      BY <1>0, <3>1 DEF RecordsOf, UsedIn, FreeIn, Records
    <3>3. n \in 0 .. (ByteMod - 1)
      BY <1>2, <3>2, SlotAssumption
    <3>4. Uncounted(r) = IF n = 0 THEN [record EXCEPT ![j] = Empty] ELSE [record EXCEPT ![j].count = n]
      BY <2>1 DEF Uncounted
    <3> HIDE DEF j, n
    <3> QED
      BY <1>0, <1>3, <3>1, <3>3, <3>4
  <2>2. CASE RecordsOf(r) = {}
    BY <1>0, <2>2 DEF Uncounted
  <2> QED
    BY <2>1, <2>2
<1>6. ASSUME NEW r \in Rps, NEW u \in Users, NEW i \in Slots, Write(i, r, u), devKey # NoKey
      PROVE  cred' \in [Slots -> Creds \cup {Empty}]
  BY <1>0, <1>1, <1>6 DEF Write
<1>7. ASSUME NEW r \in Rps, NEW u \in Users, StoreNew(r, u) PROVE StoreTypeOK'
  <2>1. Min(FreeIn(cred)) \in Slots
    BY <1>7, MinLeast DEF StoreNew, FreeIn
  <2> QED
    BY <1>4, <1>6, <1>7, <2>1 DEF StoreNew, StoreTypeOK, Creds, Records
<1>8. ASSUME NEW r \in Rps, NEW u \in Users, StoreOver(r, u) PROVE StoreTypeOK'
  <2>1. Min(Replaceable(r, u)) \in Slots
    <3>1. Replaceable(r, u) \subseteq Slots /\ Replaceable(r, u) # {}
      BY <1>8 DEF StoreOver, Replaceable, CredsOf, UsedIn
    <3> QED
      BY <3>1, MinLeast
  <2> QED
    BY <1>0, <1>6, <1>8, <2>1 DEF StoreOver, StoreTypeOK, Creds, Records
<1>9. ASSUME NEW i \in Slots, Delete(i) PROVE StoreTypeOK'
  <2>1. cred[i].rp \in Rps
    BY <1>0, <1>9 DEF Delete, UsedIn, FreeIn, Creds
  <2> QED
    BY <1>0, <1>5, <1>9, <2>1 DEF Delete, StoreTypeOK, Creds, Records
<1>10. ASSUME NEW i \in Slots, UpdateUser(i) PROVE StoreTypeOK'
  <2>1. cred[i].rp \in Rps /\ cred[i].user \in Users
    BY <1>0, <1>10 DEF UpdateUser, UsedIn, FreeIn, Creds
  <2> QED
    BY <1>8, <1>10, <2>1 DEF UpdateUser
<1>11. CASE EraseStore
  BY <1>11 DEF EraseStore, StoreTypeOK
<1> QED
  BY <1>7, <1>8, <1>9, <1>10, <1>11 DEF StoreNext

\* A command on the store keeps the files in step, if they were.
LEMMA StoreFiles ==
    ASSUME FilesInv, KeyTypeOK, [StoreNext]_storeVars, UNCHANGED drift, counter' \in Nat
    PROVE  FilesInv'
<1>1. StoreTypeOK'
  BY StoreTypeStep DEF FilesInv, storeVars, StoreTypeOK
<1>2. drift' = 0 => RpCountsMatch'
  BY StoreStepInv DEF FilesInv, Inv
<1> QED
  BY <1>1, <1>2 DEF FilesInv

\* While nothing was torn, a free slot for a credential comes with one for its
\* record: the refusal that leaves a credential behind cannot happen.
LEMMA RecordForEach ==
    ASSUME FilesInv, drift = 0, NEW r \in Rps, NEW u \in Users, StoreNew(r, u)
    PROVE  HasRecordFor(r)
BY FreeRecord DEF FilesInv, Inv, StoreNew, HasRecordFor

\* What a command releases, and how it moves the counter: by one at most, and
\* not before a release that is still to come.
LEMMA ReleaseStep ==
    ASSUME StorageInv, NEW stages \in Seq(InStep), Release(stages),
           counter' \in Nat,
           \A k \in 1 .. Len(stages) : counter' <= stages[k].counter + (Len(stages) - k),
           counter' <= counter + Len(stages)
    PROVE  flashed' \in InStep /\ pending' \in Seq(InStep) /\ CounterLag'
<1> DEFINE n == Len(pending)
           m == Len(stages)
<1>0. pending \in Seq(InStep) /\ n \in Nat /\ m \in Nat /\ flashed' = flashed /\ flashed \in InStep
  BY DEF StorageInv, Release
<1>1. pending' = pending \o stages /\ pending' \in Seq(InStep) /\ Len(pending') = n + m
  BY <1>0, ConcatProperties DEF Release
<1>2. ASSUME NEW k \in 0 .. Len(pending') PROVE counter' <= Written(k)'.counter + (Len(pending') - k)
  <2>1. CASE k <= n
    <3>1. k \in 0 .. n
      BY <1>0, <1>1, <2>1
    <3>2. Written(k)' = Written(k)
      BY <1>0, <1>1, <3>1 DEF Written
    <3>3. counter <= Written(k).counter + (n - k) /\ Written(k).counter \in Nat /\ counter \in Nat
      <4>1. counter <= Written(k).counter + (n - k)
        BY <3>1 DEF StorageInv, CounterLag
      <4>2. Written(k) \in InStep
        BY <1>0, <3>1 DEF Written
      <4> QED
        BY <4>1, <4>2 DEF StorageInv, FilesInv, InStep, Contents
    <3> HIDE DEF n, m
    <3> QED
      BY <1>0, <1>1, <3>1, <3>2, <3>3 DEF m
  <2>2. CASE k > n
    <3>1. k - n \in 1 .. m /\ k # 0
      BY <1>0, <1>1, <2>2
    <3>2. Written(k)' = stages[k - n]
      BY <1>0, <1>1, <2>2, <3>1 DEF Written
    <3>3. stages[k - n].counter \in Nat
      BY <3>1 DEF InStep, Contents
    <3>4. counter' <= stages[k - n].counter + (m - (k - n))
      BY <3>1
    <3> HIDE DEF n, m
    <3> QED
      BY <1>0, <1>1, <3>1, <3>2, <3>3, <3>4
  <2> QED
    BY <1>0, <2>1, <2>2
<1> QED
  BY <1>0, <1>1, <1>2 DEF CounterLag

\* One release of the files as they are, after an answer or a change.
LEMMA ReleaseFiles ==
    ASSUME StorageInv, FilesInv', Release(<<Files'>>), counter' \in {counter, counter + 1}
    PROVE  flashed' \in InStep /\ pending' \in Seq(InStep) /\ CounterLag'
<1>1. counter \in Nat /\ counter' \in Nat
  BY DEF StorageInv, FilesInv
<1>2. Files' \in InStep /\ Files'.counter = counter'
  BY <1>1, FilesNext DEF Files
<1> DEFINE stages == <<Files'>>
<1>3. stages \in Seq(InStep) /\ Len(stages) = 1 /\ stages[1] = Files'
  BY <1>2
<1>4. Release(stages)
  OBVIOUS
<1> HIDE DEF stages
<1>5. \A k \in 1 .. Len(stages) : counter' <= stages[k].counter + (Len(stages) - k)
  <2>1. \A k \in 1 .. 1 : k = 1
    OBVIOUS
  <2> QED
    BY <1>1, <1>2, <1>3, <2>1
<1>6. counter' <= counter + Len(stages)
  BY <1>1, <1>3
<1> QED
  BY <1>1, <1>3, <1>4, <1>5, <1>6, ReleaseStep

\* makeCredential: the credential first, then the counter.
LEMMA MakeResidentStep ==
    ASSUME StorageInv, KeyTypeOK, NEW r \in Rps, NEW u \in Users, MakeResident(r, u)
    PROVE  StorageInv'
<1>0. counter \in Nat /\ answered' = counter + 1 /\ counter' = counter + 1 /\ lost' = lost
  BY DEF StorageInv, FilesInv, MakeResident, Sign
<1>1. FilesInv'
  <2>1. StoreNext /\ UNCHANGED drift
    BY DEF MakeResident, Stored, StoreNext
  <2> QED
    BY <1>0, <2>1, StoreFiles DEF StorageInv
<1> DEFINE first == [Files' EXCEPT !.counter = counter]
           last == Files'
           stages == <<first, last>>
<1>2. [Files' EXCEPT !.counter = counter] \in InStep /\ Files' \in InStep
  BY <1>0, <1>1, FilesNext
<1>3. first.counter = counter /\ last.counter = counter'
  BY DEF Files
<1>5. Release(stages)
  BY DEF MakeResident
<1>f. first \in InStep /\ last \in InStep
  BY <1>2
<1> HIDE DEF first, last
<1>4. /\ stages \in Seq(InStep) /\ Len(stages) = 2
      /\ stages[1].counter = counter /\ stages[2].counter = counter'
  BY <1>f, <1>3
<1> HIDE DEF stages
<1>6. \A k \in 1 .. Len(stages) : counter' <= stages[k].counter + (Len(stages) - k)
  <2>1. \A k \in 1 .. 2 : k = 1 \/ k = 2
    OBVIOUS
  <2> QED
    BY <1>0, <1>4, <2>1
<1>7. counter' <= counter + Len(stages) /\ counter' \in Nat
  BY <1>0, <1>4
<1>8. flashed' \in InStep /\ pending' \in Seq(InStep) /\ CounterLag'
  BY <1>4, <1>5, <1>6, <1>7, ReleaseStep
<1>9. answered' \in Nat /\ lost' \in Nat /\ CountersGrow'
  BY <1>0 DEF StorageInv, CountersGrow
<1> QED
  BY <1>1, <1>8, <1>9 DEF StorageInv

\* An answer, a deletion and an update of the user.
LEMMA OneReleaseStep ==
    ASSUME StorageInv, KeyTypeOK, Answer \/ \E i \in Slots : Manage(i)
    PROVE  StorageInv'
<1>0. counter \in Nat /\ answered \in Nat /\ lost \in Nat /\ lost' = lost
  BY DEF StorageInv, FilesInv, Answer, Manage
<1>1. /\ counter' \in {counter, counter + 1} /\ counter' \in Nat
      /\ answered' \in Nat /\ CountersGrow'
  <2>1. CASE Answer
    BY <1>0, <2>1 DEF Answer, Sign, CountersGrow
  <2>2. CASE \E i \in Slots : Manage(i)
    BY <1>0, <2>2 DEF Manage, CountersGrow, StorageInv
  <2> QED
    BY <2>1, <2>2
<1>2. [StoreNext]_storeVars /\ UNCHANGED drift /\ Release(<<Files'>>)
  BY DEF Answer, Manage, StoreNext
<1>3. FilesInv'
  BY <1>1, <1>2, StoreFiles DEF StorageInv
<1>4. flashed' \in InStep /\ pending' \in Seq(InStep) /\ CounterLag'
  BY <1>1, <1>2, <1>3, ReleaseFiles
<1> QED
  BY <1>0, <1>1, <1>3, <1>4 DEF StorageInv

\* A refusal releases nothing, whatever it left in the files.
LEMMA RefusedStep ==
    ASSUME StorageInv, KeyTypeOK, NEW r \in Rps, NEW u \in Users,
           MakeRefusedFull(r, u) \/ MakeRefusedUnlisted(r, u)
    PROVE  StorageInv'
<1>1. /\ UNCHANGED <<counter, answered, flashed, pending, lost, drift>>
      /\ [StoreNext]_storeVars
  BY DEF MakeRefusedFull, MakeRefusedUnlisted, StoreNext
<1>2. FilesInv'
  BY <1>1, StoreFiles DEF StorageInv, FilesInv
<1>3. CounterLag' /\ CountersGrow'
  BY <1>1 DEF StorageInv, CounterLag, CountersGrow, Written
<1> QED
  BY <1>1, <1>2, <1>3 DEF StorageInv

\* A reset, and the first start, with files just erased.
LEMMA ErasedFiles ==
    ASSUME cred' = [i \in Slots |-> Empty], record' = [i \in Slots |-> Empty],
           counter' = 0, drift' = 0
    PROVE  FilesInv'
<1>1. StoreTypeOK'
  BY DEF StoreTypeOK
<1>2. \A r \in Rps : CredsOf(r)' = {} /\ RecordsOf(r)' = {}
  BY DEF CredsOf, RecordsOf, UsedIn, FreeIn
<1>3. RpCountsMatch'
  BY <1>2 DEF RpCountsMatch
<1> QED
  BY <1>1, <1>3 DEF FilesInv

\* A reset leaves nothing on its way.
LEMMA EraseStep == ASSUME StorageInv, Erase PROVE StorageInv'
<1>1. FilesInv' /\ counter' = 0 /\ answered' = 0 /\ lost' = 0 /\ flashed' = Files' /\ pending' = <<>>
  BY ErasedFiles DEF Erase, EraseStore
<1>2. Files' \in InStep /\ Files'.counter = 0
  BY <1>1, FilesNext DEF Files
<1>3. CounterLag' /\ CountersGrow'
  BY <1>1, <1>2 DEF CounterLag, CountersGrow, Written
<1> QED
  BY <1>1, <1>2, <1>3 DEF StorageInv

(***************************************************************************)
(* Flash and power                                                         *)
(***************************************************************************)

\* The oldest release becomes the flash; the others move up.
LEMMA FlushStep == ASSUME StorageInv, Flush PROVE StorageInv'
<1>1. /\ pending \in Seq(InStep) /\ pending # <<>>
      /\ flashed' = Head(pending) /\ pending' = Tail(pending)
      /\ UNCHANGED <<storeVars, counter, answered, lost, drift>>
  BY DEF StorageInv, Flush
<1>2. /\ flashed' = pending[1] /\ flashed' \in InStep /\ pending' \in Seq(InStep)
      /\ Len(pending') = Len(pending) - 1
      /\ \A k \in 1 .. Len(pending') : pending'[k] = pending[k + 1]
  BY <1>1, HeadTailProperties
<1>3. Len(pending) \in Nat /\ Len(pending) > 0
  BY <1>1, EmptySeq
<1>4. CounterLag'
  <2> SUFFICES ASSUME NEW k \in 0 .. Len(pending')
               PROVE  counter' <= Written(k)'.counter + (Len(pending') - k)
    BY DEF CounterLag
  <2>1. Written(k)' = Written(k + 1)
    BY <1>2, <1>3 DEF Written
  <2>2. k + 1 \in 0 .. Len(pending) /\ k \in Nat
    BY <1>2, <1>3
  <2>3. counter <= Written(k + 1).counter + (Len(pending) - (k + 1))
    BY <2>2 DEF StorageInv, CounterLag
  <2>4. Written(k + 1).counter \in Nat
    BY <1>1, <2>2 DEF Written, InStep, Contents
  <2> QED
    BY <1>1, <1>2, <1>3, <2>1, <2>2, <2>3, <2>4
<1>5. FilesInv' /\ CountersGrow'
  BY <1>1 DEF StorageInv, FilesInv, CountersGrow, storeVars, StoreTypeOK, RpCountsMatch,
     CredsOf, RecordsOf, UsedIn, FreeIn
<1> QED
  BY <1>1, <1>2, <1>4, <1>5 DEF StorageInv

\* A proper part of a finite set leaves at least one element out of step.
LEMMA TornLeavesOne ==
    ASSUME NEW S, IsFiniteSet(S), NEW new \in (SUBSET S) \ {{}, S}
    PROVE  Cardinality(S) \in Nat /\ Cardinality(S) >= 2
<1>1. PICK x \in new, y \in S : y \notin new
  OBVIOUS
<1>2. x \in S /\ y \in S /\ x # y
  BY <1>1
<1>3. IsFiniteSet({x, y}) /\ Cardinality({x, y}) = 2
  <2>1. IsFiniteSet({x}) /\ Cardinality({x}) = 1
    BY FS_Singleton
  <2>2. {x, y} = {x} \cup {y} /\ y \notin {x}
    BY <1>2
  <2> QED
    BY <2>1, <2>2, FS_AddElement
<1>4. Cardinality({x, y}) <= Cardinality(S)
  BY <1>2, FS_Subset
<1> QED
  BY <1>3, <1>4, FS_CardinalityType

\* A release changes finitely many files.
LEMMA ChangedFinite == ASSUME NEW k PROVE IsFiniteSet(Changed(k))
<1> DEFINE pages == {"cred", "record"} \X Slots
<1>1. IsFiniteSet({"cred", "record"})
  <2>1. {"cred", "record"} = {"cred"} \cup {"record"}
    OBVIOUS
  <2>2. IsFiniteSet({"cred"})
    BY FS_Singleton
  <2>3. IsFiniteSet({"cred"} \cup {"record"})
    BY <2>2, FS_AddElement
  <2> QED
    BY <2>1, <2>3
<1>2. IsFiniteSet(pages)
  BY <1>1, SlotsFinite, FS_Product
<1>3. IsFiniteSet(pages \cup {<<"counter", 0>>})
  BY <1>2, FS_AddElement
<1>4. Changed(k) \subseteq pages \cup {<<"counter", 0>>}
  BY DEF Changed
<1> QED
  BY <1>3, <1>4, FS_Subset

\* What is left of a torn release: files of the types the program expects, and
\* a counter from before or after it.
LEMMA TornContents ==
    ASSUME StorageInv, NEW k \in 1 .. Len(pending), NEW left \in TornAt(k)
    PROVE  left \in InStep /\ left.counter \in {Written(k - 1).counter, Written(k).counter}
<1>1. pending[k] \in InStep /\ Written(k - 1) \in InStep /\ Written(k) = pending[k]
  BY DEF StorageInv, Written
<1>2. PICK new \in (SUBSET Changed(k)) \ {{}, Changed(k)} :
          left = [cred    |-> Part(k, new, "cred"),
                  record  |-> Part(k, new, "record"),
                  counter |-> IF <<"counter", 0>> \in new THEN pending[k].counter
                              ELSE Written(k - 1).counter,
                  drift   |-> Written(k - 1).drift + Cardinality(Changed(k)) - 1]
  BY DEF TornAt
<1> DEFINE after == pending[k]
           before == Written(k - 1)
           size == Cardinality(Changed(k))
<1>3. size \in Nat /\ size >= 2
  BY ChangedFinite, TornLeavesOne
<1>4. after \in Contents /\ before \in Contents
  BY <1>1 DEF InStep
<1>5. Part(k, new, "cred") \in [Slots -> Creds \cup {Empty}]
  <2>1. after.cred \in [Slots -> Creds \cup {Empty}] /\ before.cred \in [Slots -> Creds \cup {Empty}]
    BY <1>4 DEF Contents
  <2>2. Part(k, new, "cred") = [i \in Slots |-> IF <<"cred", i>> \in new THEN after.cred[i] ELSE before.cred[i]]
    BY DEF Part
  <2> HIDE DEF after, before
  <2> QED
    BY <2>1, <2>2
<1>6. Part(k, new, "record") \in [Slots -> Records \cup {Empty}]
  <2>1. after.record \in [Slots -> Records \cup {Empty}] /\ before.record \in [Slots -> Records \cup {Empty}]
    BY <1>4 DEF Contents
  <2>2. Part(k, new, "record") = [i \in Slots |-> IF <<"record", i>> \in new THEN after.record[i] ELSE before.record[i]]
    BY DEF Part
  <2> HIDE DEF after, before
  <2> QED
    BY <2>1, <2>2
<1>7. after.counter \in Nat /\ before.counter \in Nat /\ before.drift \in Nat
  BY <1>4 DEF Contents
<1>8. left.counter \in {before.counter, after.counter} /\ left.drift = before.drift + size - 1
  BY <1>2
<1>9. left.cred = Part(k, new, "cred") /\ left.record = Part(k, new, "record")
      /\ left = [cred |-> left.cred, record |-> left.record, counter |-> left.counter, drift |-> left.drift]
  BY <1>2
<1> HIDE DEF after, before, size
<1>10. left.drift \in Nat /\ left.drift # 0 /\ left.counter \in Nat
  BY <1>3, <1>7, <1>8
<1>11. left \in Contents
  BY <1>5, <1>6, <1>9, <1>10 DEF Contents
<1> QED
  BY <1>1, <1>8, <1>10, <1>11 DEF InStep, after, before

\* After a cut the program starts from what the flash was left with.
LEMMA PowerCutStep == ASSUME StorageInv, PowerCut PROVE StorageInv'
<1>0. PICK k \in 0 .. Len(pending) : PowerCut!(k)
  BY DEF PowerCut
<1>1. PICK left \in {Written(k)} \cup (IF k < Len(pending) THEN TornAt(k + 1) ELSE {}) :
           /\ lost' = lost + Len(pending) - k
           /\ cred' = left.cred /\ record' = left.record
           /\ counter' = left.counter /\ drift' = left.drift
           /\ flashed' = left /\ pending' = <<>> /\ UNCHANGED answered
  BY <1>0
<1>2. pending \in Seq(InStep) /\ Len(pending) \in Nat /\ k \in Nat /\ lost \in Nat /\ answered \in Nat
      /\ counter \in Nat /\ counter + lost >= answered
  BY DEF StorageInv, FilesInv, CountersGrow
<1>3. left \in InStep /\ counter <= left.counter + (Len(pending) - k)
  <2>1. counter <= Written(k).counter + (Len(pending) - k) /\ Written(k).counter \in Nat
    BY DEF StorageInv, CounterLag, Written, InStep, Contents
  <2>2. CASE left = Written(k)
    BY <2>1, <2>2 DEF StorageInv, Written
  <2>3. CASE k < Len(pending) /\ left \in TornAt(k + 1)
    <3>1. k + 1 \in 1 .. Len(pending) /\ k + 1 \in 0 .. Len(pending) /\ (k + 1) - 1 = k
      BY <1>2, <2>3
    <3>2. left \in InStep /\ left.counter \in {Written(k).counter, Written(k + 1).counter}
      BY <2>3, <3>1, TornContents
    <3>3. counter <= Written(k + 1).counter + (Len(pending) - (k + 1))
      BY <3>1 DEF StorageInv, CounterLag
    <3>4. Written(k + 1).counter \in Nat
      BY <1>2, <3>1 DEF Written, InStep, Contents
    <3> QED
      BY <1>2, <2>1, <3>2, <3>3, <3>4
  <2> QED
    BY <2>2, <2>3
<1>4. left \in Contents /\ left.counter \in Nat /\ (left.drift = 0 => Agree(left.cred, left.record))
  BY <1>3 DEF InStep, Contents
<1>5. FilesInv'
  <2>1. StoreTypeOK'
    BY <1>1, <1>4 DEF StoreTypeOK, Contents, Creds, Records
  <2>2. drift' = 0 => RpCountsMatch'
    BY <1>1, <1>4, AgreeNext
  <2> QED
    BY <1>1, <1>4, <2>1, <2>2 DEF FilesInv, Contents
<1>6. lost' \in Nat /\ counter' + lost' >= answered'
  BY <1>1, <1>2, <1>3, <1>4
<1>7. CounterLag'
  BY <1>1, <1>4 DEF CounterLag, Written
<1> QED
  BY <1>1, <1>2, <1>3, <1>5, <1>6, <1>7 DEF StorageInv, CountersGrow

(***************************************************************************)
(* Theorems                                                                *)
(***************************************************************************)

\* Another device key leaves the files and the flash as they were.
LEMMA OtherKeyStep == ASSUME StorageInv, UseOtherKey PROVE StorageInv'
<1>1. UNCHANGED <<cred, record, counter, answered, flashed, pending, lost, drift>>
  BY DEF UseOtherKey, KeyChanges, storeVars
<1>2. FilesInv'
  BY <1>1 DEF StorageInv, FilesInv, StoreTypeOK, RpCountsMatch, CredsOf, RecordsOf, UsedIn, FreeIn
<1>3. CounterLag' /\ CountersGrow'
  BY <1>1 DEF StorageInv, CounterLag, CountersGrow, Written
<1> QED
  BY <1>1, <1>2, <1>3 DEF StorageInv

\* The device key in use is one of the device keys, or none.
LEMMA StorageKeyStep == ASSUME KeyTypeOK, [StorageNext]_cvars PROVE KeyTypeOK'
BY DEF KeyTypeOK, NewKey, StorageNext, Answer, MakeResident, MakeRefusedFull, MakeRefusedUnlisted,
   Manage, UseOtherKey, KeyChanges, Erase, Flush, PowerCut, cvars

\* Every step, power cuts included, keeps the storage invariant.
LEMMA StorageStep == StorageInv /\ KeyTypeOK /\ [StorageNext]_cvars => StorageInv'
<1> SUFFICES ASSUME StorageInv, KeyTypeOK, [StorageNext]_cvars PROVE StorageInv'
  OBVIOUS
<1>1. CASE Answer \/ \E i \in Slots : Manage(i)
  BY <1>1, OneReleaseStep
<1>2. ASSUME NEW r \in Rps, NEW u \in Users, MakeResident(r, u) PROVE StorageInv'
  BY <1>2, MakeResidentStep
<1>3. ASSUME NEW r \in Rps, NEW u \in Users, MakeRefusedFull(r, u) \/ MakeRefusedUnlisted(r, u)
      PROVE  StorageInv'
  BY <1>3, RefusedStep
<1>4. CASE Erase
  BY <1>4, EraseStep
<1>5. CASE Flush
  BY <1>5, FlushStep
<1>6. CASE PowerCut
  BY <1>6, PowerCutStep
<1>8. CASE UseOtherKey
  BY <1>8, OtherKeyStep
<1>7. CASE UNCHANGED cvars
  <2>1. UNCHANGED <<cred, record, counter, answered, flashed, pending, lost, drift>>
    BY <1>7 DEF cvars, storeVars
  <2>2. FilesInv'
    BY <2>1 DEF StorageInv, FilesInv, StoreTypeOK, RpCountsMatch, CredsOf, RecordsOf, UsedIn, FreeIn
  <2>3. CounterLag' /\ CountersGrow'
    BY <2>1 DEF StorageInv, CounterLag, CountersGrow, Written
  <2> QED
    BY <2>1, <2>2, <2>3 DEF StorageInv
<1> QED
  BY <1>1, <1>2, <1>3, <1>4, <1>5, <1>6, <1>7, <1>8 DEF StorageNext

\* The flash, each release on its way to it and the files as the program reads
\* them are in step unless a release was torn, and the counter runs ahead of
\* the flash by no more than the releases it still owes (credential_store,
\* set_global_counter under power cuts).
THEOREM StorageInvariant == StorageSpec => [](StorageInv /\ KeyTypeOK)
<1>1. StorageInit => StorageInv /\ KeyTypeOK
  <2> SUFFICES ASSUME StorageInit PROVE StorageInv /\ KeyTypeOK
    OBVIOUS
  <2>5. KeyTypeOK
    BY DEF StorageInit, StoreInit, KeyTypeOK
  <2>1. Inv /\ counter = 0 /\ drift = 0 /\ answered = 0 /\ lost = 0 /\ flashed = Files /\ pending = <<>>
    BY EmptyStoreInv DEF StorageInit, StoreInit
  <2>2. FilesInv
    BY <2>1 DEF FilesInv, Inv
  <2>3. Files \in InStep /\ Files.counter = 0
    <3>1. Files \in Contents /\ Files.cred = cred /\ Files.record = record /\ Files.counter = counter
      BY <2>2 DEF FilesInv, StoreTypeOK, Creds, Records, Files, Contents
    <3> QED
      BY <2>1, <3>1, AgreeNow DEF Inv, InStep
  <2>4. CounterLag /\ CountersGrow
    BY <2>1, <2>3 DEF CounterLag, CountersGrow, Written
  <2> QED
    BY <2>1, <2>2, <2>3, <2>4, <2>5 DEF StorageInv
<1> QED
  BY <1>1, StorageStep, StorageKeyStep, PTL DEF StorageSpec

\* A signature counter repeats by no more than the releases that cuts lost:
\* without a cut every answer carries a higher one (getAssertion, makeCredential).
THEOREM CountersGrowAcrossCuts == StorageSpec => []CountersGrow
<1>1. StorageInv => CountersGrow
  BY DEF StorageInv
<1> QED
  BY <1>1, StorageInvariant, PTL

\* Cuts that tear no release leave a record for each relying party that has
\* credentials, with their number (credential_store, deleteCredential).
THEOREM WholeCutsKeepCounts == StorageSpec => [](drift = 0 => RpCountsMatch)
<1>1. StorageInv => (drift = 0 => RpCountsMatch)
  BY DEF StorageInv, FilesInv
<1> QED
  BY <1>1, StorageInvariant, PTL

\* KEY_STORE_FULL means that nothing was stored (credential_store puts the
\* credential before it looks for a record), unless a cut tore a release.
THEOREM RefusalStoresNothing == StorageSpec => RefusedStoresNothing
<1>1. StorageInv /\ [StorageNext]_cvars => (resp' = "KEY_STORE_FULL" /\ drift = 0 => UNCHANGED storeVars)
  <2> SUFFICES ASSUME StorageInv, [StorageNext]_cvars, resp' = "KEY_STORE_FULL", drift = 0
               PROVE  UNCHANGED storeVars
    OBVIOUS
  <2>1. ASSUME NEW r \in Rps, NEW u \in Users, MakeRefusedUnlisted(r, u) PROVE FALSE
    BY <2>1, RecordForEach DEF MakeRefusedUnlisted, StorageInv
  <2>2. ASSUME NEW r \in Rps, NEW u \in Users, MakeRefusedFull(r, u) PROVE UNCHANGED storeVars
    BY <2>2 DEF MakeRefusedFull
  <2>3. ASSUME NEW r \in Rps, NEW u \in Users, MakeResident(r, u) PROVE FALSE
    BY <2>3 DEF MakeResident
  <2>4. ASSUME NEW i \in Slots, Manage(i) PROVE FALSE
    BY <2>4 DEF Manage
  <2>5. CASE Answer \/ Erase \/ PowerCut \/ UseOtherKey
    BY <2>5 DEF Answer, Erase, PowerCut, UseOtherKey
  <2>6. CASE Flush \/ UNCHANGED cvars
    BY <2>6 DEF Flush, cvars
  <2> QED
    BY <2>1, <2>2, <2>3, <2>4, <2>5, <2>6 DEF StorageNext
<1> QED
  BY <1>1, StorageInvariant, PTL DEF StorageSpec, RefusedStoresNothing

(***************************************************************************)
(* CredMgmt: an enumeration reports every place once                       *)
(***************************************************************************)

\* The place of slot i among the slots of S, in order.
Rank(S, i) == Cardinality({j \in S : j <= i})

\* Any set of slots can be counted.
LEMMA SlotSetFinite ==
    ASSUME NEW S \in SUBSET Slots
    PROVE  /\ IsFiniteSet(S) /\ Cardinality(S) \in 0 .. NumSlots
           /\ (S # {} => Cardinality(S) \in 1 .. NumSlots)
           /\ Cardinality(S) <= ByteMod
<1>1. IsFiniteSet(S) /\ Cardinality(S) <= NumSlots
  BY SlotsFinite, FS_Subset
<1>2. Cardinality(S) \in Nat
  BY <1>1, FS_CardinalityType
<1>3. S # {} => Cardinality(S) # 0
  BY <1>1, FS_EmptySet
<1> QED
  BY <1>1, <1>2, <1>3, SlotAssumption

\* Places differ, ...
LEMMA RankGrows ==
    ASSUME NEW S \in SUBSET Slots, NEW i \in S, NEW j \in S, i < j
    PROVE  Rank(S, i) < Rank(S, j)
<1> DEFINE below(n) == {k \in S : k <= n}
<1>1. S \subseteq Nat /\ i \in Nat /\ j \in Nat
  BY DEF Slots
<1>2. \A n : below(n) \in SUBSET Slots
  OBVIOUS
<1>3. /\ IsFiniteSet(below(i)) /\ Cardinality(below(i)) \in Nat
      /\ IsFiniteSet(below(j)) /\ Cardinality(below(j)) \in Nat
  BY <1>2, SlotSetFinite
<1>4. \A k \in below(i) : k \in below(j)
  <2>1. \A k \in S : k <= i => k <= j
    BY <1>1
  <2> QED
    BY <2>1
<1>5. j \in below(j) /\ j \notin below(i)
  BY <1>1
<1>6. below(i) \cup {j} \subseteq below(j)
  BY <1>4, <1>5
<1>7. Cardinality(below(i) \cup {j}) = Cardinality(below(i)) + 1
  BY <1>3, <1>5, FS_AddElement
<1>8. Cardinality(below(i) \cup {j}) <= Cardinality(below(j))
  BY <1>3, <1>6, FS_Subset
<1>9. Rank(S, i) = Cardinality(below(i)) /\ Rank(S, j) = Cardinality(below(j))
  BY DEF Rank
<1> QED
  BY <1>3, <1>7, <1>8, <1>9

\* ... and are the numbers up to the size of the set, each once.
LEMMA RankCounts ==
    ASSUME NEW S \in SUBSET Slots
    PROVE  /\ \A i \in S : Rank(S, i) \in 1 .. Cardinality(S)
           /\ \A i, j \in S : Rank(S, i) = Rank(S, j) => i = j
           /\ \A k \in 1 .. Cardinality(S) : \E i \in S : Rank(S, i) = k
<1> DEFINE n == Cardinality(S)
           rank == [i \in S |-> Rank(S, i)]
<1>1. S \subseteq Nat /\ IsFiniteSet(S) /\ n \in Nat
  BY SlotSetFinite DEF Slots
<1>2. ASSUME NEW i \in S PROVE Rank(S, i) \in 1 .. n
  <2> DEFINE below == {k \in S : k <= i}
  <2>1. below \subseteq S /\ i \in below
    BY <1>1
  <2>2. /\ IsFiniteSet(below) /\ Cardinality(below) \in Nat /\ Cardinality(below) # 0
        /\ Cardinality(below) <= n
    BY <1>1, <2>1, SlotSetFinite, FS_Subset
  <2>3. Rank(S, i) = Cardinality(below)
    BY DEF Rank
  <2> HIDE DEF below, n
  <2> QED
    BY <1>1, <2>2, <2>3
<1>3. ASSUME NEW i \in S, NEW j \in S, Rank(S, i) = Rank(S, j), i # j PROVE FALSE
  <2>1. i < j \/ j < i
    BY <1>1, <1>3
  <2>2. Rank(S, i) \in Nat
    BY <1>2
  <2> QED
    BY <1>3, <2>1, <2>2, RankGrows
<1>4. IsFiniteSet(1 .. n) /\ Cardinality(1 .. n) = n
  BY <1>1, FS_Interval
<1>5. rank \in Injection(S, 1 .. n)
  BY <1>2, <1>3 DEF Injection, IsInjective
<1> HIDE DEF rank, n
<1>6. rank \in Surjection(S, 1 .. n)
  BY <1>4, <1>5, FS_Injection DEF n
<1>7. ASSUME NEW k \in 1 .. n PROVE \E i \in S : Rank(S, i) = k
  BY <1>6 DEF Surjection, rank
<1> QED
  BY <1>2, <1>3, <1>7 DEF n

\* What the byte that counts one place more than m holds.
LEMMA NextByte ==
    ASSUME NEW m \in Nat, m <= ByteMod
    PROVE  /\ m + 1 < ByteMod => (m + 1) % ByteMod = m + 1
           /\ m + 1 = ByteMod => (m + 1) % ByteMod = 0
           /\ m = ByteMod => (m + 1) % ByteMod = 1
           /\ (m + 1) % ByteMod \in Bytes
<1>1. m + 1 < ByteMod => (m + 1) % ByteMod = m + 1
  BY ModSmall
<1>2. m + 1 = ByteMod => (m + 1) % ByteMod = 0
  BY ModFull
<1>3. m = ByteMod => (m + 1) % ByteMod = 1
  <2>1. (1 + ByteMod) % ByteMod = 1
    BY ModWrap, SlotAssumption
  <2> QED
    BY <2>1, SlotAssumption
<1>4. m + 1 < ByteMod \/ m + 1 = ByteMod \/ m = ByteMod
  BY SlotAssumption
<1> QED
  BY <1>1, <1>2, <1>3, <1>4, SlotAssumption DEF Bytes

\* An enumeration of S that has reported seen, and where its bytes are.
Enumerates(S, seen, place, total) ==
    /\ S # {} /\ total = Size(S)
    /\ seen \in Seq(S) /\ Len(seen) \in 1 .. Cardinality(S)
    /\ \A q \in 1 .. Len(seen) : Rank(S, seen[q]) = q
    /\ place = (Len(seen) + 1) % ByteMod

\* The size and the place of an enumeration, as bytes.
LEMMA EnumBytes ==
    ASSUME NEW S \in SUBSET Slots, NEW seen, NEW place, NEW total,
           Enumerates(S, seen, place, total)
    PROVE  LET m == Len(seen) n == Cardinality(S) IN
           /\ m \in 1 .. n /\ n \in 1 .. ByteMod
           /\ (n < ByteMod /\ total = n) \/ (n = ByteMod /\ total = 0)
           /\ \/ m + 1 < ByteMod /\ place = m + 1
              \/ m + 1 = ByteMod /\ place = 0
              \/ m = ByteMod /\ place = 1
<1> DEFINE m == Len(seen)
           n == Cardinality(S)
<1>1. m \in 1 .. n /\ place = (m + 1) % ByteMod /\ total = n % ByteMod /\ n \in 0 .. NumSlots
  BY SlotSetFinite DEF Enumerates, Size
<1> HIDE DEF m, n
<1>2. n \in 1 .. ByteMod /\ m \in Nat /\ m <= ByteMod
  BY <1>1, SlotAssumption
<1>3. (n < ByteMod /\ total = n) \/ (n = ByteMod /\ total = 0)
  BY <1>1, <1>2, ModSmall, ModFull, SlotAssumption
<1>4. \/ m + 1 < ByteMod /\ place = m + 1
      \/ m + 1 = ByteMod /\ place = 0
      \/ m = ByteMod /\ place = 1
  BY <1>1, <1>2, NextByte, SlotAssumption
<1> QED
  BY <1>1, <1>2, <1>3, <1>4 DEF m, n

\* A begin reports the first place.
LEMMA EnumBegin ==
    ASSUME NEW S \in SUBSET Slots, S # {}
    PROVE  Enumerates(S, <<Min(S)>>, Bump(1), Size(S))
<1>1. Min(S) \in S /\ \A y \in S : Min(S) <= y
  BY MinLeast
<1>2. {j \in S : j <= Min(S)} = {Min(S)}
  <2>1. \A y \in S : y \in Nat
    BY DEF Slots
  <2>2. ASSUME NEW j \in S, j <= Min(S) PROVE j = Min(S)
    BY <1>1, <2>1, <2>2
  <2>3. Min(S) <= Min(S)
    BY <1>1
  <2> QED
    BY <1>1, <2>2, <2>3
<1>3. Rank(S, Min(S)) = 1
  BY <1>2, FS_Singleton DEF Rank
<1>4. Cardinality(S) \in 1 .. NumSlots
  BY SlotSetFinite
<1> DEFINE first == Min(S)
           seen == <<first>>
<1>5. first \in S /\ Rank(S, first) = 1
  BY <1>1, <1>3
<1> HIDE DEF first
<1>6. seen \in Seq(S) /\ Len(seen) = 1 /\ seen[1] = first /\ \A q \in 1 .. 1 : q = 1
  BY <1>5
<1> HIDE DEF seen
<1>7. Enumerates(S, seen, Bump(1), Size(S))
  BY <1>4, <1>5, <1>6 DEF Enumerates, Bump
<1> QED
  BY <1>7 DEF seen, first

\* A next reports the place after the last.
LEMMA EnumNext ==
    ASSUME NEW S \in SUBSET Slots, NEW seen, NEW place, NEW total,
           Enumerates(S, seen, place, total), place <= total, NEW i \in AtCount(S, place)
    PROVE  /\ Len(seen) < Cardinality(S)
           /\ Enumerates(S, Append(seen, i), Bump(place), total)
<1> DEFINE m == Len(seen)
           n == Cardinality(S)
           k == Rank(S, i)
<1>1. i \in S /\ k % ByteMod = place
  BY DEF AtCount, Rank
<1>2. k \in 1 .. n
  BY <1>1, RankCounts
<1>3. /\ m \in 1 .. n /\ n \in 1 .. ByteMod
      /\ (n < ByteMod /\ total = n) \/ (n = ByteMod /\ total = 0)
      /\ \/ m + 1 < ByteMod /\ place = m + 1
         \/ m + 1 = ByteMod /\ place = 0
         \/ m = ByteMod /\ place = 1
  BY EnumBytes
<1>4. seen \in Seq(S) /\ \A q \in 1 .. m : Rank(S, seen[q]) = q
  BY DEF Enumerates
<1> HIDE DEF k, m, n
<1>5. (k < ByteMod /\ place = k) \/ (k = ByteMod /\ place = 0)
  BY <1>1, <1>2, <1>3, ModSmall, ModFull, SlotAssumption
<1>6. k = m + 1 /\ m < n
  BY <1>2, <1>3, <1>5, SlotAssumption
<1>7. Bump(place) = ((m + 1) + 1) % ByteMod
  <2>1. CASE place = m + 1
    BY <2>1 DEF Bump
  <2>2. CASE m + 1 = ByteMod /\ place = 0
    <3>1. ((m + 1) + 1) % ByteMod = 1
      BY <2>2, NextByte, SlotAssumption
    <3>2. (0 + 1) % ByteMod = 1
      BY ModSmall, SlotAssumption
    <3> QED
      BY <2>2, <3>1, <3>2 DEF Bump
  <2> QED
    BY <1>2, <1>3, <1>6, <2>1, <2>2, SlotAssumption
<1>8. /\ Append(seen, i) \in Seq(S) /\ Len(Append(seen, i)) = m + 1
      /\ \A q \in 1 .. m : Append(seen, i)[q] = seen[q]
      /\ Append(seen, i)[m + 1] = i
  BY <1>1, <1>4, AppendProperties DEF m
<1>9. m \in Nat /\ m + 1 \in 1 .. n
  BY <1>2, <1>3, <1>6
<1>10. ASSUME NEW q \in 1 .. m + 1 PROVE Rank(S, Append(seen, i)[q]) = q
  <2>1. CASE q = m + 1
    BY <1>6, <1>8, <2>1 DEF k
  <2>2. CASE q # m + 1
    <3>1. q \in 1 .. m
      BY <1>9, <2>2
    <3> QED
      BY <1>4, <1>8, <3>1
  <2> QED
    BY <2>1, <2>2
<1>11. S # {} /\ total = Size(S)
  BY DEF Enumerates
<1> DEFINE more == Append(seen, i)
<1>12. more \in Seq(S) /\ Len(more) = m + 1 /\ \A q \in 1 .. m + 1 : Rank(S, more[q]) = q
  BY <1>8, <1>10
<1> HIDE DEF more
<1>13. Enumerates(S, more, Bump(place), total)
  BY <1>7, <1>9, <1>11, <1>12 DEF Enumerates, n
<1> QED
  BY <1>6, <1>13 DEF m, n, more

\* What is left: the next place is found, or all was reported and the byte that
\* counts the places came round to zero.
LEMMA EnumLeft ==
    ASSUME NEW S \in SUBSET Slots, NEW seen, NEW place, NEW total,
           Enumerates(S, seen, place, total), place <= total
    PROVE  \/ Len(seen) < Cardinality(S) /\ AtCount(S, place) # {}
           \/ Len(seen) = Cardinality(S) /\ Cardinality(S) + 1 = ByteMod /\ place = 0
<1> DEFINE m == Len(seen)
           n == Cardinality(S)
<1>1. /\ m \in 1 .. n /\ n \in 1 .. ByteMod
      /\ (n < ByteMod /\ total = n) \/ (n = ByteMod /\ total = 0)
      /\ \/ m + 1 < ByteMod /\ place = m + 1
         \/ m + 1 = ByteMod /\ place = 0
         \/ m = ByteMod /\ place = 1
  BY EnumBytes
<1>2. place = (m + 1) % ByteMod
  BY DEF Enumerates
<1>3. m < n => AtCount(S, place) # {}
  <2> SUFFICES ASSUME m < n PROVE AtCount(S, place) # {}
    OBVIOUS
  <2>1. m + 1 \in 1 .. n
    BY <1>1
  <2>2. PICK i \in S : Rank(S, i) = m + 1
    BY <2>1, RankCounts
  <2> QED
    BY <1>2, <2>2 DEF AtCount, Rank
<1> HIDE DEF m, n
<1>4. m < n \/ (m = n /\ n + 1 = ByteMod /\ place = 0)
  BY <1>1, SlotAssumption
<1> QED
  BY <1>3, <1>4 DEF m, n

\* No place is reported twice, and all are when next is refused as finished.
LEMMA EnumExact ==
    ASSUME NEW S \in SUBSET Slots, NEW seen, NEW place, NEW total,
           Enumerates(S, seen, place, total)
    PROVE  /\ IsInjective(seen) /\ Range(seen) \subseteq S
           /\ place > total => Range(seen) = S \/ Cardinality(S) = ByteMod
           /\ Len(seen) < total => place <= total /\ Len(seen) < Cardinality(S)
<1> DEFINE m == Len(seen)
           n == Cardinality(S)
<1>1. /\ m \in 1 .. n /\ n \in 1 .. ByteMod
      /\ (n < ByteMod /\ total = n) \/ (n = ByteMod /\ total = 0)
      /\ \/ m + 1 < ByteMod /\ place = m + 1
         \/ m + 1 = ByteMod /\ place = 0
         \/ m = ByteMod /\ place = 1
  BY EnumBytes
<1>2. seen \in Seq(S) /\ DOMAIN seen = 1 .. m /\ \A q \in 1 .. m : seen[q] \in S /\ Rank(S, seen[q]) = q
  BY DEF Enumerates
<1>3. IsInjective(seen) /\ Range(seen) \subseteq S
  BY <1>2 DEF IsInjective, Range
<1>4. m = n => Range(seen) = S
  <2> SUFFICES ASSUME m = n, NEW i \in S PROVE i \in Range(seen)
    BY <1>3
  <2>1. Rank(S, i) \in 1 .. m
    BY RankCounts
  <2>2. seen[Rank(S, i)] = i
    BY <1>2, <2>1, RankCounts
  <2> QED
    BY <1>2, <2>1, <2>2 DEF Range
<1> HIDE DEF m, n
<1>5. place > total => m = n \/ n = ByteMod
  BY <1>1, SlotAssumption
<1>6. m < total => place <= total /\ m < n
  BY <1>1, SlotAssumption
<1> QED
  BY <1>3, <1>4, <1>5, <1>6 DEF m, n

\* A relying-party enumeration nothing disturbed is where its bytes say.
RpEnum == rpQuiet => Enumerates(ListedRps, rpSeen, rp_counter, rp_total)

\* The same of the credentials of the relying party it began with; the hash
\* is there until all were reported.
Owner == cred[credSeen[1]].rp
CredEnum ==
    credQuiet =>
        /\ Enumerates(CredsOf(Owner), credSeen, cred_counter, cred_total)
        /\ cred_counter <= cred_total =>
              hashx = Owner \/ Len(credSeen) = Cardinality(CredsOf(Owner))

\* Every step keeps an enumeration of the relying parties exact.
LEMMA RpEnumStep == RpEnum /\ [Next]_vars => RpEnum'
<1> SUFFICES ASSUME RpEnum, [Next]_vars, rpQuiet' PROVE RpEnum'
  BY DEF RpEnum
<1> DEFINE S == ListedRps
<1>0. S \in SUBSET Slots /\ (UNCHANGED storeVars => S' = S)
  BY DEF ListedRps, UsedIn, FreeIn, storeVars
<1>s. S' = S /\ Enumerates(S, rpSeen', rp_counter', rp_total') => RpEnum'
  BY DEF RpEnum
<1> HIDE DEF S
<1>1. CASE EnumRPsBegin
  <2>1. /\ S # {} /\ rpSeen' = <<Min(S)>>
        /\ rp_counter' = Bump(1) /\ rp_total' = Size(S) /\ UNCHANGED storeVars
    BY <1>1 DEF EnumRPsBegin, S
  <2>2. Enumerates(S, <<Min(S)>>, Bump(1), Size(S))
    BY <1>0, <2>1, EnumBegin
  <2> QED
    BY <1>0, <1>s, <2>1, <2>2
<1>2. CASE EnumRPsNext
  <2>1. /\ rpQuiet /\ rp_counter <= rp_total /\ rp_total' = rp_total
        /\ rp_counter' = Bump(rp_counter) /\ UNCHANGED storeVars
    BY <1>2 DEF EnumRPsNext
  <2>2. PICK i \in AtCount(S, rp_counter) : rpSeen' = Append(rpSeen, i)
    BY <1>2, <2>1 DEF EnumRPsNext, S
  <2>3. Enumerates(S, rpSeen, rp_counter, rp_total)
    BY <2>1 DEF RpEnum, S
  <2>4. Enumerates(S, Append(rpSeen, i), Bump(rp_counter), rp_total)
    BY <1>0, <2>1, <2>3, EnumNext
  <2> QED
    BY <1>0, <1>s, <2>1, <2>2, <2>4
<1>3. CASE UNCHANGED <<storeVars, rpEnum>>
  <2>1. Enumerates(S, rpSeen, rp_counter, rp_total)
    BY <1>3 DEF RpEnum, rpEnum, S
  <2> QED
    BY <1>0, <1>3, <1>s, <2>1 DEF rpEnum
<1>4. CASE EnumRPsBeginNone \/ StoreCommand \/ PowerCycle
  BY <1>4 DEF EnumRPsBeginNone, StoreCommand, PowerCycle
<1>5. CASE \E r \in Rps : EnumCredsBegin(r) \/ EnumCredsBeginFails(r) \/ EnumCredsBeginNone(r)
  BY <1>3, <1>5 DEF EnumCredsBegin, EnumCredsBeginFails, EnumCredsBeginNone
<1>6. CASE EnumCredsNext \/ EnumCredsNextFails \/ EnumCredsNextNone
  BY <1>3, <1>6 DEF EnumCredsNext, EnumCredsNextFails, EnumCredsNextNone
<1>7. CASE ChangeKey \/ UNCHANGED vars
  BY <1>3, <1>7 DEF ChangeKey, KeyChanges, vars
<1> QED
  BY <1>1, <1>2, <1>4, <1>5, <1>6, <1>7 DEF Next

\* The owner of an enumeration's credentials is a relying party, and the first
\* slot reported is one of them.
LEMMA OwnerOwns ==
    ASSUME Inv, Enumerates(CredsOf(Owner), credSeen, cred_counter, cred_total)
    PROVE  /\ Owner \in Rps /\ CredsOf(Owner) \in SUBSET Slots
           /\ credSeen[1] \in CredsOf(Owner)
<1>1. CredsOf(Owner) \in SUBSET Slots
  BY DEF CredsOf, UsedIn
<1>2. credSeen[1] \in CredsOf(Owner)
  <2> DEFINE S == CredsOf(Owner)
  <2>1. credSeen \in Seq(S) /\ Len(credSeen) \in 1 .. Cardinality(S)
    BY DEF Enumerates
  <2> HIDE DEF S
  <2>2. 1 \in 1 .. Len(credSeen)
    BY <2>1
  <2> QED
    BY <2>1, <2>2 DEF S
<1>3. cred[credSeen[1]] \in Creds
  BY <1>2 DEF CredsOf, UsedIn, FreeIn, Inv, StoreTypeOK, Creds
<1> QED
  BY <1>1, <1>2, <1>3 DEF Creds, Owner

\* Once all were reported the next command finds nothing, whatever a freed
\* hash holds.
LEMMA NoneAtZero ==
    ASSUME Inv, NEW r0, NEW r, NEW h \in CredsOf(r0), Cardinality(CredsOf(r0)) + 1 = ByteMod
    PROVE  AtCount(CredsOf(r), 0) = {}
<1> SUFFICES ASSUME NEW i \in AtCount(CredsOf(r), 0) PROVE FALSE
  OBVIOUS
<1> DEFINE S == CredsOf(r)
           k == Rank(S, i)
<1>1. S \in SUBSET Slots /\ h \in Slots /\ i \in S /\ k % ByteMod = 0
  BY DEF CredsOf, UsedIn, AtCount, Rank
<1>2. k \in 1 .. Cardinality(S)
  BY <1>1, RankCounts
<1>3. Cardinality(S) \in 0 .. NumSlots
  BY <1>1, SlotSetFinite
<1>4. r # r0 => Cardinality(S) < NumSlots
  <2> SUFFICES ASSUME r # r0 PROVE Cardinality(S) < NumSlots
    OBVIOUS
  <2>1. S \subseteq Slots \ {h}
    BY <1>1 DEF CredsOf
  <2>2. IsFiniteSet(Slots \ {h}) /\ Cardinality(Slots \ {h}) = NumSlots - 1
    BY <1>1, SlotsFinite, FS_RemoveElement
  <2>3. Cardinality(S) <= NumSlots - 1
    BY <2>1, <2>2, FS_Subset
  <2> QED
    BY <1>3, <2>3, SlotAssumption
<1>5. Cardinality(S) < ByteMod
  <2>1. CASE r = r0
    BY <1>3, <2>1, SlotAssumption DEF S
  <2>2. CASE r # r0
    BY <1>3, <1>4, <2>2, SlotAssumption
  <2> QED
    BY <2>1, <2>2
<1> HIDE DEF S, k
<1>6. k \in Nat /\ k < ByteMod /\ k # 0
  BY <1>2, <1>3, <1>5, SlotAssumption
<1>7. k % ByteMod = k
  BY <1>6, ModSmall
<1> QED
  BY <1>1, <1>6, <1>7

\* Every step keeps an enumeration of the credentials exact.
LEMMA CredEnumStep == Inv /\ CredEnum /\ [Next]_vars => CredEnum'
<1> SUFFICES ASSUME Inv, CredEnum, [Next]_vars, credQuiet' PROVE CredEnum'
  BY DEF CredEnum
<1>s. ASSUME NEW r0, CredsOf(r0)' = CredsOf(r0), Owner' = r0,
             Enumerates(CredsOf(r0), credSeen', cred_counter', cred_total'),
             cred_counter' <= cred_total' =>
                hashx' = r0 \/ Len(credSeen') = Cardinality(CredsOf(r0))
      PROVE  CredEnum'
  <2>1. CredsOf(Owner)' = CredsOf(r0)
    BY <1>s DEF CredsOf, UsedIn, FreeIn
  <2> QED
    BY <1>s, <2>1 DEF CredEnum
<1>0. ASSUME NEW r PROVE CredsOf(r) \in SUBSET Slots /\ (UNCHANGED storeVars => CredsOf(r)' = CredsOf(r))
  BY DEF CredsOf, UsedIn, FreeIn, storeVars
<1>1. ASSUME NEW r \in Rps, EnumCredsBegin(r) PROVE CredEnum'
  <2> DEFINE S == CredsOf(r)
  <2>1. /\ S # {} /\ credSeen' = <<Min(S)>> /\ UNCHANGED storeVars
        /\ cred_counter' = Bump(1) /\ cred_total' = Size(S)
        /\ cred_counter' <= cred_total' => hashx' = r
    BY <1>1 DEF EnumCredsBegin, Keeps
  <2>2. Enumerates(S, <<Min(S)>>, Bump(1), Size(S))
    BY <1>0, <2>1, EnumBegin
  <2>3. Min(S) \in S
    BY <1>0, <2>1, MinLeast
  <2>4. Owner' = r
    <3>1. credSeen'[1] = Min(S)
      BY <2>1
    <3>2. cred[Min(S)].rp = r
      BY <2>3 DEF CredsOf
    <3> QED
      BY <2>1, <3>1, <3>2 DEF Owner, storeVars
  <2> QED
    BY <1>0, <1>s, <2>1, <2>2, <2>4
<1>2. ASSUME EnumCredsNext \/ EnumCredsNextNone, credQuiet PROVE CredEnum'
  <2>0. PICK r0 : r0 = Owner
    OBVIOUS
  <2> DEFINE S == CredsOf(r0)
  <2>1. /\ Enumerates(S, credSeen, cred_counter, cred_total)
        /\ cred_counter <= cred_total => hashx = r0 \/ Len(credSeen) = Cardinality(S)
    BY <1>2, <2>0 DEF CredEnum
  <2>2. cred_counter <= cred_total /\ UNCHANGED <<storeVars, cred_total>>
    BY <1>2 DEF EnumCredsNext, EnumCredsNextNone
  <2>3. r0 \in Rps /\ S \in SUBSET Slots /\ credSeen[1] \in S
    BY <2>0, <2>1, OwnerOwns
  <2>4. \/ Len(credSeen) < Cardinality(S) /\ AtCount(S, cred_counter) # {}
        \/ Len(credSeen) = Cardinality(S) /\ Cardinality(S) + 1 = ByteMod /\ cred_counter = 0
    BY <2>1, <2>2, <2>3, EnumLeft
  <2>5. S' = S
    BY <2>2 DEF CredsOf, UsedIn, FreeIn, storeVars
  <2>6. Len(credSeen) < Cardinality(S) => Hash = {r0}
    <3>1. Len(credSeen) \in Nat
      BY <2>1, <2>3, EnumBytes
    <3>2. Len(credSeen) < Cardinality(S) => hashx = r0
      BY <2>1, <2>2, <2>3, <3>1, EnumBytes
    <3> QED
      BY <2>3, <3>2, HashAssumption DEF Hash
  <2>7. ASSUME NEW i \in AtCount(S, cred_counter), credSeen' = Append(credSeen, i),
               cred_counter' = Bump(cred_counter),
               Keeps(cred_counter', cred_total) => hashx' = r0
        PROVE  CredEnum'
    <3>1. Enumerates(S, Append(credSeen, i), Bump(cred_counter), cred_total)
      BY <2>1, <2>2, <2>3, <2>7, EnumNext
    <3>2. Append(credSeen, i)[1] = credSeen[1]
      <4>1. credSeen \in Seq(S) /\ Len(credSeen) \in 1 .. Cardinality(S)
        BY <2>1 DEF Enumerates
      <4>2. i \in S
        BY <2>7 DEF AtCount
      <4> HIDE DEF S
      <4>3. 1 \in 1 .. Len(credSeen)
        BY <4>1
      <4> QED
        BY <4>1, <4>2, <4>3, AppendProperties
    <3>3. Owner' = r0
      BY <2>0, <2>2, <2>7, <3>2 DEF Owner, storeVars
    <3>4. cred_counter' <= cred_total' => hashx' = r0
      BY <2>2, <2>7 DEF Keeps
    <3> QED
      BY <1>s, <2>2, <2>5, <2>7, <3>1, <3>3, <3>4
  <2>8. CASE EnumCredsNext
    <3>0. PICK r \in Hash : \E i \in AtCount(CredsOf(r), cred_counter) :
            /\ credSeen' = Append(credSeen, i)
            /\ hashx' = IF Keeps(Bump(cred_counter), cred_total) THEN hashx ELSE NoHash
      BY <1>2, <2>8 DEF EnumCredsNext
    <3>1. PICK i \in AtCount(CredsOf(r), cred_counter) :
            /\ credSeen' = Append(credSeen, i)
            /\ hashx' = IF Keeps(Bump(cred_counter), cred_total) THEN hashx ELSE NoHash
      BY <3>0
    <3>2. Len(credSeen) < Cardinality(S)
      BY <2>3, <2>4, <3>1, NoneAtZero
    <3>3. r = r0
      BY <2>6, <3>1, <3>2
    <3>4. cred_counter' = Bump(cred_counter)
      BY <2>8 DEF EnumCredsNext
    <3>5. hashx = r0
      BY <2>3, <2>6, <3>2 DEF Hash
    <3> QED
      BY <2>7, <3>1, <3>3, <3>4, <3>5
  <2>9. CASE EnumCredsNextNone
    <3>1. PICK r \in Hash : AtCount(CredsOf(r), cred_counter) = {}
      BY <2>9 DEF EnumCredsNextNone
    <3>2. UNCHANGED <<storeVars, cred_counter, cred_total, credSeen>>
      BY <2>9 DEF EnumCredsNextNone
    <3>3. Len(credSeen) = Cardinality(S)
      BY <2>4, <2>6, <3>1
    <3>4. Owner' = r0
      BY <2>0, <3>2 DEF Owner, storeVars
    <3> QED
      BY <1>s, <2>1, <2>5, <3>2, <3>3, <3>4
  <2> QED
    BY <1>2, <2>8, <2>9
<1>3. CASE UNCHANGED <<storeVars, credEnum>>
  <2>1. Owner' = Owner
    BY <1>3 DEF Owner, storeVars, credEnum
  <2> QED
    BY <1>0, <1>3, <1>s, <2>1 DEF CredEnum, credEnum
<1>4. CASE \/ (\E r \in Rps : EnumCredsBeginFails(r) \/ EnumCredsBeginNone(r))
           \/ EnumCredsNextFails \/ StoreCommand \/ PowerCycle
  BY <1>4 DEF EnumCredsBeginFails, EnumCredsBeginNone, EnumCredsNextFails, StoreCommand, PowerCycle
<1>5. CASE EnumRPsBegin \/ EnumRPsBeginNone \/ EnumRPsNext
  BY <1>3, <1>5 DEF EnumRPsBegin, EnumRPsBeginNone, EnumRPsNext
<1>6. CASE EnumCredsNext \/ EnumCredsNextNone
  BY <1>2, <1>6 DEF EnumCredsNext, EnumCredsNextNone
<1>7. CASE ChangeKey \/ UNCHANGED vars
  BY <1>3, <1>7 DEF ChangeKey, KeyChanges, vars
<1> QED
  BY <1>1, <1>4, <1>5, <1>6, <1>7 DEF Next

\* Both enumerations are where their bytes say, in every reachable state
\* (cbor_cred_mgmt, whatever commands come between a begin and its nexts).
THEOREM EnumerationInvariant == Spec => [](RpEnum /\ CredEnum)
<1>1. Init => RpEnum /\ CredEnum
  BY DEF Init, RpEnum, CredEnum
<1>2. Inv /\ (RpEnum /\ CredEnum) /\ [Next]_vars => (RpEnum /\ CredEnum)'
  BY RpEnumStep, CredEnumStep
<1> QED
  BY <1>1, <1>2, StoreInvariant, PTL DEF Spec

\* An undisturbed enumeration of relying parties reports each once, and all of
\* them before it is refused as finished (cbor_cred_mgmt, 0x02 and 0x03).
THEOREM RpEnumerationsAreExact == Spec => []RpEnumerationExact
<1>1. RpEnum => RpEnumerationExact
  <2> SUFFICES ASSUME rpQuiet, Enumerates(ListedRps, rpSeen, rp_counter, rp_total)
               PROVE  RpEnumerationExact
    BY DEF RpEnum, RpEnumerationExact
  <2>1. ListedRps \in SUBSET Slots
    BY DEF ListedRps, UsedIn
  <2> QED
    BY <2>1, EnumExact DEF RpEnumerationExact
<1> QED
  BY <1>1, EnumerationInvariant, PTL

\* The same of the credentials of the relying party the enumeration began with
\* (cbor_cred_mgmt, 0x04 and 0x05): each once, and none of another's, until a
\* next is refused because the device key in use does not open its credential.
THEOREM CredEnumerationsAreExact == Spec => []CredEnumerationExact
<1>1. Inv /\ CredEnum => CredEnumerationExact
  <2> SUFFICES ASSUME Inv, credQuiet, credSeen # <<>>,
                      Enumerates(CredsOf(Owner), credSeen, cred_counter, cred_total)
               PROVE  CredEnumerationExact
    BY DEF CredEnum, CredEnumerationExact
  <2>1. CredsOf(Owner) \in SUBSET Slots
    BY OwnerOwns
  <2>2. Owner = cred[Head(credSeen)].rp
    BY DEF Owner
  <2> QED
    BY <2>1, <2>2, EnumExact DEF CredEnumerationExact
<1> QED
  BY <1>1, EnumerationInvariant, StoreInvariant, PTL

\* The buffer an enumeration continues with is not freed before its last
\* credential was reported, whatever was listed in between (rpIdHashx), unless
\* a next was refused because the device key in use did not open its credential.
THEOREM HashesOutliveEnumerations == Spec => []HashOutlivesEnumeration
<1>1. Inv /\ CredEnum => HashOutlivesEnumeration
  <2> SUFFICES ASSUME Inv, CredEnum, credQuiet, cred_counter <= cred_total,
                      Len(credSeen) < cred_total
               PROVE  hashx # NoHash
    BY DEF HashOutlivesEnumeration
  <2>1. Enumerates(CredsOf(Owner), credSeen, cred_counter, cred_total)
    BY DEF CredEnum
  <2>2. Owner \in Rps /\ CredsOf(Owner) \in SUBSET Slots
    BY <2>1, OwnerOwns
  <2>3. Len(credSeen) < Cardinality(CredsOf(Owner)) /\ Len(credSeen) \in Nat
    BY <2>1, <2>2, EnumExact, EnumBytes
  <2>4. Cardinality(CredsOf(Owner)) \in Nat
    BY <2>2, SlotSetFinite
  <2>5. Len(credSeen) # Cardinality(CredsOf(Owner))
    BY <2>3, <2>4
  <2> QED
    BY <2>2, <2>5, HashAssumption DEF CredEnum
<1> QED
  BY <1>1, EnumerationInvariant, StoreInvariant, PTL

(***************************************************************************)
(* CredStorage: how far the records and the credentials drift apart        *)
(***************************************************************************)

\* The excess of f over g, as a set of its size: one pair for each unit.
Units == Rps \X (1 .. ByteMod)
Over(f, g) == {p \in Units : g[p[1]] + p[2] <= f[p[1]]}
Below(f) == {p \in Units : p[2] <= f[p[1]]}

\* Only relying parties found in a file count, so what they count is finite.
LEMMA UnitsFinite ==
    ASSUME NEW file, NEW S \in SUBSET Units, \A p \in S : SlotsIn(file, p[1]) # {}
    PROVE  IsFiniteSet(S) /\ Cardinality(S) \in Nat
<1> DEFINE rps == {file[i].rp : i \in Slots}
           f == [i \in Slots |-> file[i].rp]
<1>1. f \in Surjection(Slots, rps)
  BY DEF Surjection
<1>2. IsFiniteSet(rps)
  <2> HIDE DEF f, rps
  <2> QED
    BY <1>1, SlotsFinite, FS_Surjection
<1>3. IsFiniteSet(1 .. ByteMod)
  BY SlotAssumption, FS_Interval
<1>4. IsFiniteSet(rps \X (1 .. ByteMod))
  BY <1>2, <1>3, FS_Product
<1>5. ASSUME NEW p \in S PROVE p \in rps \X (1 .. ByteMod)
  <2>1. p = <<p[1], p[2]>> /\ p[2] \in 1 .. ByteMod
    BY DEF Units
  <2>2. p[1] \in rps
    BY DEF SlotsIn
  <2> QED
    BY <2>1, <2>2
<1> QED
  BY <1>4, <1>5, FS_Subset, FS_CardinalityType

\* An excess that is nowhere larger, or vanishes, has no more units.
LEMMA OverShrinks ==
    ASSUME NEW f1 \in [Rps -> Nat], NEW g1 \in [Rps -> Nat],
           NEW f2 \in [Rps -> Nat], NEW g2 \in [Rps -> Nat], IsFiniteSet(Over(f1, g1)),
           \A q \in Rps : f2[q] + g1[q] <= f1[q] + g2[q] \/ f2[q] <= g2[q]
    PROVE  Cardinality(Over(f2, g2)) <= Cardinality(Over(f1, g1))
<1>1. ASSUME NEW p \in Over(f2, g2) PROVE p \in Over(f1, g1)
  <2>1. p \in Units /\ p[1] \in Rps /\ p[2] \in Nat /\ p[2] > 0 /\ g2[p[1]] + p[2] <= f2[p[1]]
    BY SlotAssumption DEF Over, Units
  <2>2. g1[p[1]] \in Nat /\ f1[p[1]] \in Nat /\ g2[p[1]] \in Nat /\ f2[p[1]] \in Nat
    BY <2>1
  <2>3. g1[p[1]] + p[2] <= f1[p[1]]
    BY <2>1, <2>2
  <2> QED
    BY <2>1, <2>3 DEF Over
<1> QED
  BY <1>1, FS_Subset

\* One that is larger by one for one relying party has one unit more.
LEMMA OverGrows ==
    ASSUME NEW f1 \in [Rps -> Nat], NEW g1 \in [Rps -> Nat],
           NEW f2 \in [Rps -> Nat], NEW g2 \in [Rps -> Nat], IsFiniteSet(Over(f1, g1)), NEW r,
           \A q \in Rps \ {r} : f2[q] + g1[q] <= f1[q] + g2[q],
           r \in Rps => f2[r] + g1[r] <= f1[r] + g2[r] + 1
    PROVE  Cardinality(Over(f2, g2)) <= Cardinality(Over(f1, g1)) + 1
<1> DEFINE unit == <<r, f2[r] - g2[r]>>
<1>1. ASSUME NEW p \in Over(f2, g2) PROVE p \in Over(f1, g1) \cup {unit}
  <2>1. p \in Units /\ p[1] \in Rps /\ p[2] \in Nat /\ p[2] > 0 /\ g2[p[1]] + p[2] <= f2[p[1]]
        /\ p = <<p[1], p[2]>>
    BY SlotAssumption DEF Over, Units
  <2>2. g1[p[1]] \in Nat /\ f1[p[1]] \in Nat /\ g2[p[1]] \in Nat /\ f2[p[1]] \in Nat
    BY <2>1
  <2>3. g1[p[1]] + p[2] <= f1[p[1]] \/ (p[1] = r /\ p[2] = f2[r] - g2[r])
    <3>1. CASE p[1] = r
      BY <2>1, <2>2, <3>1
    <3>2. CASE p[1] # r
      BY <2>1, <2>2, <3>2
    <3> QED
      BY <3>1, <3>2
  <2> QED
    BY <2>1, <2>3 DEF Over
<1> HIDE DEF unit
<1>2. /\ IsFiniteSet(Over(f1, g1) \cup {unit})
      /\ Cardinality(Over(f1, g1) \cup {unit}) <= Cardinality(Over(f1, g1)) + 1
  <2> DEFINE S == Over(f1, g1)
  <2>1. IsFiniteSet(S) /\ Cardinality(S) \in Nat
    BY FS_CardinalityType
  <2> HIDE DEF S
  <2>2. IsFiniteSet(S \cup {unit})
        /\ Cardinality(S \cup {unit}) = IF unit \in S THEN Cardinality(S) ELSE Cardinality(S) + 1
    BY <2>1, FS_AddElement
  <2>3. Cardinality(S \cup {unit}) <= Cardinality(S) + 1
    BY <2>1, <2>2
  <2> QED
    BY <2>2, <2>3 DEF S
<1>3. Cardinality(Over(f2, g2)) <= Cardinality(Over(f1, g1) \cup {unit})
  BY <1>1, <1>2, FS_Subset
<1>4. /\ Cardinality(Over(f2, g2)) \in Nat /\ Cardinality(Over(f1, g1)) \in Nat
      /\ Cardinality(Over(f1, g1) \cup {unit}) \in Nat
  BY <1>1, <1>2, FS_Subset, FS_CardinalityType
<1> QED
  BY <1>2, <1>3, <1>4

\* The excess at one relying party is among the units.
LEMMA OverBounds ==
    ASSUME NEW f \in [Rps -> 0 .. ByteMod], NEW g \in [Rps -> Nat], IsFiniteSet(Over(f, g)), NEW r \in Rps
    PROVE  f[r] <= g[r] + Cardinality(Over(f, g))
<1> DEFINE n == f[r] - g[r]
           units == {r} \X (1 .. n)
<1>0. f[r] \in Nat /\ g[r] \in Nat /\ f[r] <= ByteMod /\ Cardinality(Over(f, g)) \in Nat
  BY FS_CardinalityType, SlotAssumption
<1>1. CASE n > 0
  <2>1. IsFiniteSet(1 .. n) /\ Cardinality(1 .. n) = n
    BY <1>0, <1>1, FS_Interval
  <2>2. IsFiniteSet({r}) /\ Cardinality({r}) = 1
    BY FS_Singleton
  <2>3. ASSUME NEW p \in units PROVE p \in Over(f, g)
    <3>1. p = <<p[1], p[2]>> /\ p[1] = r /\ p[2] \in 1 .. n
      OBVIOUS
    <3>2. p[2] \in 1 .. ByteMod /\ g[r] + p[2] <= f[r]
      BY <1>0, <1>1, <3>1, SlotAssumption
    <3> QED
      BY <3>1, <3>2 DEF Over, Units
  <2> HIDE DEF n
  <2>4. Cardinality(units) = n
    <3>1. Cardinality({r} \X (1 .. n)) = Cardinality({r}) * Cardinality(1 .. n)
      BY <2>1, <2>2, FS_Product
    <3>2. n \in Nat /\ 1 * n = n
      BY <1>0, <1>1 DEF n
    <3> QED
      BY <2>1, <2>2, <3>1, <3>2
  <2> HIDE DEF units
  <2>5. Cardinality(units) <= Cardinality(Over(f, g))
    BY <2>3, FS_Subset
  <2>6. n = f[r] - g[r]
    BY DEF n
  <2> QED
    BY <1>0, <2>4, <2>5, <2>6
<1>2. CASE ~(n > 0)
  BY <1>0, <1>2
<1> QED
  BY <1>1, <1>2

\* The two excesses differ as the two totals do.
LEMMA OverIsDifference ==
    ASSUME NEW f \in [Rps -> 0 .. ByteMod], NEW g \in [Rps -> 0 .. ByteMod], IsFiniteSet(Over(f, g))
    PROVE  Cardinality(Over(f, g)) = Cardinality(Below(f) \ Below(g))
<1> DEFINE S == Over(f, g)
           T == Below(f) \ Below(g)
           h == [p \in S |-> <<p[1], p[2] + g[p[1]]>>]
<1>1. ASSUME NEW p \in S
      PROVE  p = <<p[1], p[2]>> /\ p[1] \in Rps /\ p[2] \in 1 .. ByteMod /\ f[p[1]] \in 0 .. ByteMod /\ g[p[1]] \in 0 .. ByteMod
             /\ g[p[1]] + p[2] <= f[p[1]]
  BY DEF Over, Units
<1>2. ASSUME NEW p \in S PROVE h[p] \in T
  <2>1. /\ p[1] \in Rps /\ p[2] + g[p[1]] \in 1 .. ByteMod
        /\ p[2] + g[p[1]] <= f[p[1]] /\ ~(p[2] + g[p[1]] <= g[p[1]])
    BY <1>1, SlotAssumption
  <2> QED
    BY <2>1 DEF Below, Units
<1>3. ASSUME NEW p \in S, NEW q \in S, h[p] = h[q] PROVE p = q
  <2>1. p[1] = q[1] /\ p[2] + g[p[1]] = q[2] + g[q[1]]
    BY <1>3
  <2>2. p[2] = q[2]
    BY <1>1, <2>1
  <2> QED
    BY <1>1, <2>1, <2>2
<1>4. ASSUME NEW t \in T PROVE \E p \in S : h[p] = t
  <2>1. /\ t = <<t[1], t[2]>> /\ t[1] \in Rps /\ t[2] \in 1 .. ByteMod
        /\ t[2] <= f[t[1]] /\ ~(t[2] <= g[t[1]])
    BY DEF Below, Units
  <2> DEFINE p == <<t[1], t[2] - g[t[1]]>>
  <2>2. g[t[1]] \in 0 .. ByteMod /\ f[t[1]] \in 0 .. ByteMod
    BY <2>1
  <2>3. t[2] - g[t[1]] \in 1 .. ByteMod /\ g[t[1]] + (t[2] - g[t[1]]) = t[2] /\ (t[2] - g[t[1]]) + g[t[1]] = t[2]
    BY <2>1, <2>2, SlotAssumption
  <2>4. p \in S
    BY <2>1, <2>3 DEF Over, Units
  <2>5. h[p] = t
    BY <2>1, <2>3, <2>4
  <2> QED
    BY <2>4, <2>5
<1>5. h \in Bijection(S, T)
  <2>1. h \in [S -> T]
    BY <1>2
  <2>2. h \in Injection(S, T)
    BY <1>3, <2>1 DEF Injection, IsInjective
  <2>3. h \in Surjection(S, T)
    BY <1>4, <2>1 DEF Surjection
  <2> QED
    BY <2>2, <2>3 DEF Bijection
<1> HIDE DEF h, S, T
<1>6. ExistsBijection(S, T)
  BY <1>5 DEF ExistsBijection
<1>7. Cardinality(T) = Cardinality(S)
  BY <1>6, FS_Bijection DEF S
<1> QED
  BY <1>7 DEF S, T

\* The smaller total has the smaller excess.
LEMMA OverBalance ==
    ASSUME NEW f \in [Rps -> 0 .. ByteMod], NEW g \in [Rps -> 0 .. ByteMod],
           IsFiniteSet(Over(f, g)), IsFiniteSet(Over(g, f)),
           IsFiniteSet(Below(f)), IsFiniteSet(Below(g)),
           Cardinality(Below(f)) <= Cardinality(Below(g))
    PROVE  Cardinality(Over(f, g)) <= Cardinality(Over(g, f))
<1> DEFINE B == Below(f)
           C == Below(g)
<1>1. Cardinality(Over(f, g)) = Cardinality(B \ C) /\ Cardinality(Over(g, f)) = Cardinality(C \ B)
  BY OverIsDifference
<1> HIDE DEF B, C
<1>2. /\ Cardinality(B \ C) = Cardinality(B) - Cardinality(B \cap C)
      /\ Cardinality(C \ B) = Cardinality(C) - Cardinality(C \cap B)
  BY FS_Difference DEF B, C
<1>3. Cardinality(B) \in Nat /\ Cardinality(C) \in Nat /\ Cardinality(B \cap C) \in Nat /\ B \cap C = C \cap B
  BY FS_Intersection, FS_CardinalityType DEF B, C
<1>4. Cardinality(B) <= Cardinality(C)
  BY DEF B, C
<1> DEFINE x == Cardinality(B \cap C)
<1>5. /\ Cardinality(B \ C) = Cardinality(B) - x /\ Cardinality(C \ B) = Cardinality(C) - x
      /\ x \in Nat
  <2>1. C \cap B = B \cap C
    OBVIOUS
  <2> QED
    BY <1>2, <1>3, <2>1
<1> HIDE DEF x
<1>6. Cardinality(B) - x <= Cardinality(C) - x
  BY <1>3, <1>4, <1>5
<1> QED
  BY <1>1, <1>5, <1>6

\* What the two files say of each relying party.
CredFiles == [Slots -> Creds \cup {Empty}]
RecordFiles == [Slots -> Records \cup {Empty}]

HeldIn(creds) == [q \in Rps |-> Cardinality(SlotsIn(creds, q))]
CountIn(records) ==
    [q \in Rps |-> IF SlotsIn(records, q) = {} THEN 0 ELSE records[Min(SlotsIn(records, q))].count]

\* No relying party has two records, and no record counts nothing.
Unique(records) ==
    /\ \A i, j \in Slots : records[i] # Empty /\ records[j] # Empty /\ records[i].rp = records[j].rp => i = j
    /\ \A i \in Slots : records[i] # Empty => records[i].count > 0

\* The counts and the credentials are d apart at most, added up over the
\* relying parties, in each direction.
Level(creds, records, d) ==
    /\ Unique(records)
    /\ Cardinality(Over(HeldIn(creds), CountIn(records))) <= d
    /\ Cardinality(Over(CountIn(records), HeldIn(creds))) <= d

\* Types of what the files say.
LEMMA HeldType ==
    ASSUME NEW creds \in CredFiles
    PROVE  /\ HeldIn(creds) \in [Rps -> 0 .. ByteMod] /\ HeldIn(creds) \in [Rps -> Nat]
           /\ \A q \in Rps : HeldIn(creds)[q] = Cardinality(SlotsIn(creds, q))
           /\ \A q \in Rps : IsFiniteSet(SlotsIn(creds, q))
           /\ \A q \in Rps : HeldIn(creds)[q] > 0 => SlotsIn(creds, q) # {}
<1>1. ASSUME NEW q \in Rps
      PROVE  /\ IsFiniteSet(SlotsIn(creds, q)) /\ Cardinality(SlotsIn(creds, q)) \in 0 .. ByteMod
             /\ Cardinality(SlotsIn(creds, q)) > 0 => SlotsIn(creds, q) # {}
  <2>1. SlotsIn(creds, q) \in SUBSET Slots
    BY DEF SlotsIn
  <2>2. IsFiniteSet(SlotsIn(creds, q)) /\ Cardinality(SlotsIn(creds, q)) \in 0 .. NumSlots
    BY <2>1, SlotSetFinite
  <2> QED
    BY <2>2, FS_EmptySet, SlotAssumption
<1>2. \A n \in 0 .. ByteMod : n \in Nat
  BY SlotAssumption
<1> QED
  BY <1>1, <1>2 DEF HeldIn

\* Types of what the records say.
LEMMA CountType ==
    ASSUME NEW records \in RecordFiles
    PROVE  /\ CountIn(records) \in [Rps -> 0 .. ByteMod] /\ CountIn(records) \in [Rps -> Nat]
           /\ \A q \in Rps : CountIn(records)[q] > 0 => SlotsIn(records, q) # {}
           /\ \A q \in Rps : SlotsIn(records, q) = {} => CountIn(records)[q] = 0
<1>1. ASSUME NEW q \in Rps, SlotsIn(records, q) # {}
      PROVE  /\ Min(SlotsIn(records, q)) \in SlotsIn(records, q)
             /\ records[Min(SlotsIn(records, q))].count \in 0 .. (ByteMod - 1)
  <2>1. SlotsIn(records, q) \in SUBSET Slots
    BY DEF SlotsIn
  <2>2. Min(SlotsIn(records, q)) \in SlotsIn(records, q)
    BY <1>1, <2>1, MinLeast
  <2>3. records[Min(SlotsIn(records, q))] \in Records
    BY <2>2 DEF SlotsIn, RecordFiles
  <2> QED
    BY <2>2, <2>3 DEF Records
<1>2. 0 .. (ByteMod - 1) \subseteq 0 .. ByteMod /\ 0 .. ByteMod \subseteq Nat /\ 0 \in 0 .. ByteMod
  BY SlotAssumption
<1>3. CountIn(records) \in [Rps -> 0 .. ByteMod] /\ CountIn(records) \in [Rps -> Nat]
  BY <1>1, <1>2 DEF CountIn
<1>4. \A q \in Rps : SlotsIn(records, q) = {} => CountIn(records)[q] = 0
  BY DEF CountIn
<1> QED
  BY <1>3, <1>4

\* A relying party counts what its one record says.
LEMMA CountOfOne ==
    ASSUME NEW records \in RecordFiles, Unique(records), NEW q \in Rps, NEW j \in SlotsIn(records, q)
    PROVE  SlotsIn(records, q) = {j} /\ CountIn(records)[q] = records[j].count
<1>1. \A i \in SlotsIn(records, q) : i = j
  BY DEF SlotsIn, Unique
<1>2. SlotsIn(records, q) \in SUBSET Slots
  BY DEF SlotsIn
<1>3. Min(SlotsIn(records, q)) = j
  BY <1>1, <1>2, MinLeast
<1> QED
  BY <1>1, <1>3 DEF CountIn

\* All sets of units of two files are finite.
LEMMA FilesFinite ==
    ASSUME NEW creds \in CredFiles, NEW records \in RecordFiles
    PROVE  /\ IsFiniteSet(Over(HeldIn(creds), CountIn(records)))
           /\ Cardinality(Over(HeldIn(creds), CountIn(records))) \in Nat
           /\ IsFiniteSet(Over(CountIn(records), HeldIn(creds)))
           /\ Cardinality(Over(CountIn(records), HeldIn(creds))) \in Nat
           /\ IsFiniteSet(Below(HeldIn(creds))) /\ IsFiniteSet(Below(CountIn(records)))
<1> DEFINE H == HeldIn(creds)
           C == CountIn(records)
<1>1. /\ H \in [Rps -> Nat] /\ C \in [Rps -> Nat]
      /\ \A q \in Rps : H[q] > 0 => SlotsIn(creds, q) # {}
      /\ \A q \in Rps : C[q] > 0 => SlotsIn(records, q) # {}
  BY HeldType, CountType
<1> HIDE DEF H, C
<1>2. \A p \in Units : p[1] \in Rps /\ p[2] \in Nat /\ p[2] > 0
  BY SlotAssumption DEF Units
<1>3. /\ Over(H, C) \in SUBSET Units /\ Over(C, H) \in SUBSET Units
      /\ Below(H) \in SUBSET Units /\ Below(C) \in SUBSET Units
  BY DEF Over, Below
<1>4. \A p \in Over(H, C) \cup Below(H) : H[p[1]] > 0 /\ p[1] \in Rps
  <2>1. \A p \in Units : H[p[1]] \in Nat /\ C[p[1]] \in Nat
    BY <1>1, <1>2
  <2> QED
    BY <1>2, <2>1 DEF Over, Below
<1>5. \A p \in Over(C, H) \cup Below(C) : C[p[1]] > 0 /\ p[1] \in Rps
  <2>1. \A p \in Units : H[p[1]] \in Nat /\ C[p[1]] \in Nat
    BY <1>1, <1>2
  <2> QED
    BY <1>2, <2>1 DEF Over, Below
<1>6. /\ \A p \in Over(H, C) \cup Below(H) : SlotsIn(creds, p[1]) # {}
      /\ \A p \in Over(C, H) \cup Below(C) : SlotsIn(records, p[1]) # {}
  BY <1>1, <1>4, <1>5
<1>7. IsFiniteSet(Over(H, C)) /\ Cardinality(Over(H, C)) \in Nat /\ IsFiniteSet(Below(H))
  BY <1>3, <1>6, UnitsFinite
<1>8. IsFiniteSet(Over(C, H)) /\ Cardinality(Over(C, H)) \in Nat /\ IsFiniteSet(Below(C))
  BY <1>3, <1>6, UnitsFinite
<1> QED
  BY <1>7, <1>8 DEF H, C

\* The credentials are no more than the slots: each is one of its relying
\* party's, counted once.
LEMMA HeldTotal ==
    ASSUME NEW creds \in CredFiles
    PROVE  Cardinality(Below(HeldIn(creds))) <= NumSlots
<1> DEFINE U == {i \in Slots : creds[i] # Empty}
           T == Below(HeldIn(creds))
           g == [i \in U |-> <<creds[i].rp, Rank(SlotsIn(creds, creds[i].rp), i)>>]
<1>1. ASSUME NEW q \in Rps
      PROVE  /\ SlotsIn(creds, q) \in SUBSET Slots
             /\ Cardinality(SlotsIn(creds, q)) = HeldIn(creds)[q] /\ HeldIn(creds)[q] \in 0 .. ByteMod
  BY HeldType DEF SlotsIn
<1>2. ASSUME NEW i \in U PROVE creds[i].rp \in Rps /\ i \in SlotsIn(creds, creds[i].rp) /\ g[i] \in T
  <2>1. creds[i].rp \in Rps
    BY DEF CredFiles, Creds
  <2>2. i \in SlotsIn(creds, creds[i].rp)
    BY DEF SlotsIn
  <2>3. Rank(SlotsIn(creds, creds[i].rp), i) \in 1 .. HeldIn(creds)[creds[i].rp]
    BY <1>1, <2>1, <2>2, RankCounts
  <2>4. Rank(SlotsIn(creds, creds[i].rp), i) \in 1 .. ByteMod
    BY <1>1, <2>1, <2>3, SlotAssumption
  <2> QED
    BY <2>1, <2>2, <2>3, <2>4 DEF Below, Units
<1>3. ASSUME NEW t \in T PROVE \E i \in U : g[i] = t
  <2>1. t = <<t[1], t[2]>> /\ t[1] \in Rps /\ t[2] \in 1 .. ByteMod /\ t[2] <= HeldIn(creds)[t[1]]
    BY DEF Below, Units
  <2>2. t[2] \in 1 .. Cardinality(SlotsIn(creds, t[1]))
    BY <1>1, <2>1, SlotAssumption
  <2>3. PICK i \in SlotsIn(creds, t[1]) : Rank(SlotsIn(creds, t[1]), i) = t[2]
    BY <1>1, <2>1, <2>2, RankCounts
  <2>4. i \in U /\ creds[i].rp = t[1]
    BY DEF SlotsIn
  <2> QED
    BY <2>1, <2>3, <2>4
<1>4. g \in Surjection(U, T)
  <2>1. g \in [U -> T]
    BY <1>2
  <2> QED
    BY <1>3, <2>1 DEF Surjection
<1> HIDE DEF g, T
<1>5. IsFiniteSet(U) /\ Cardinality(U) <= NumSlots /\ Cardinality(U) \in Nat
  BY SlotsFinite, FS_Subset, FS_CardinalityType
<1>6. Cardinality(T) <= Cardinality(U) /\ Cardinality(T) \in Nat
  BY <1>4, <1>5, FS_Surjection, FS_CardinalityType
<1>7. Cardinality(T) <= NumSlots
  <2> HIDE DEF U
  <2> QED
    BY <1>5, <1>6, SlotAssumption
<1> QED
  BY <1>7 DEF T

\* A full file of records counts as many credentials as there are slots.
LEMMA FullCounts ==
    ASSUME NEW records \in RecordFiles, Unique(records), \A i \in Slots : records[i] # Empty,
           IsFiniteSet(Below(CountIn(records)))
    PROVE  NumSlots <= Cardinality(Below(CountIn(records)))
<1> DEFINE T == Below(CountIn(records))
           g == [i \in Slots |-> <<records[i].rp, 1>>]
<1>1. ASSUME NEW i \in Slots PROVE g[i] \in T
  <2>1. records[i].rp \in Rps /\ records[i].count \in 0 .. (ByteMod - 1) /\ records[i].count > 0
    BY DEF RecordFiles, Records, Unique
  <2>2. i \in SlotsIn(records, records[i].rp)
    BY DEF SlotsIn
  <2>3. CountIn(records)[records[i].rp] = records[i].count
    BY <2>1, <2>2, CountOfOne
  <2>4. 1 <= CountIn(records)[records[i].rp] /\ 1 \in 1 .. ByteMod
    BY <2>1, <2>3, SlotAssumption
  <2> QED
    BY <2>1, <2>4 DEF Below, Units
<1>2. \A i, j \in Slots : g[i] = g[j] => i = j
  BY DEF Unique
<1>3. g \in Injection(Slots, T)
  BY <1>1, <1>2 DEF Injection, IsInjective
<1> HIDE DEF g
<1> QED
  BY <1>3, SlotsFinite, FS_Injection

\* Files d apart are also e apart, for a larger e.
LEMMA LevelGrows ==
    ASSUME NEW creds \in CredFiles, NEW records \in RecordFiles, NEW d \in Nat, NEW e \in Nat, d <= e,
           Level(creds, records, d)
    PROVE  Level(creds, records, e)
<1> DEFINE x == Cardinality(Over(HeldIn(creds), CountIn(records)))
           y == Cardinality(Over(CountIn(records), HeldIn(creds)))
<1>1. x \in Nat /\ y \in Nat
  BY FilesFinite
<1>2. x <= d /\ y <= d /\ Unique(records)
  BY DEF Level
<1> HIDE DEF x, y
<1>3. x <= e /\ y <= e
  BY <1>1, <1>2
<1> QED
  BY <1>2, <1>3 DEF Level, x, y

\* What one release changes: the credentials and the count of one relying
\* party, in one direction; others may have gained credentials that a refusal
\* left in the files.
Release1(creds1, records1, creds2, records2) ==
    /\ \E j \in Slots : \A i \in Slots \ {j} : records2[i] = records1[i]
    /\ \E r :
        /\ \A q \in Rps \ {r} :
              /\ SlotsIn(creds1, q) \subseteq SlotsIn(creds2, q)
              /\ CountIn(records2)[q] = CountIn(records1)[q]
        /\ r \in Rps =>
              \/ /\ SlotsIn(creds1, r) \subseteq SlotsIn(creds2, r)
                 /\ CountIn(records2)[r] \in {CountIn(records1)[r], CountIn(records1)[r] + 1}
              \/ /\ \E i : SlotsIn(creds1, r) \subseteq SlotsIn(creds2, r) \cup {i}
                 /\ CountIn(records1)[r] \in {CountIn(records2)[r], CountIn(records2)[r] + 1}

\* Each slot as it was before the release or as it is after it.
Mix(file1, file2, file) == \A i \in Slots : file[i] \in {file1[i], file2[i]}

\* A release torn anywhere puts the counts one further apart at most.
TornLevel(creds1, records1, creds2, records2, d) ==
    \A creds \in CredFiles, records \in RecordFiles :
        Mix(creds1, creds2, creds) /\ Mix(records1, records2, records) => Level(creds, records, d + 1)

\* A torn release leaves a relying party between its two numbers of
\* credentials, or one beside them.
LEMMA MixHeld ==
    ASSUME NEW creds1 \in CredFiles, NEW creds2 \in CredFiles, NEW creds \in CredFiles,
           Mix(creds1, creds2, creds), NEW q \in Rps
    PROVE  /\ SlotsIn(creds1, q) \subseteq SlotsIn(creds2, q) =>
                 /\ HeldIn(creds1)[q] <= HeldIn(creds)[q]
                 /\ HeldIn(creds)[q] <= HeldIn(creds2)[q]
           /\ (\E i : SlotsIn(creds1, q) \subseteq SlotsIn(creds2, q) \cup {i}) =>
                 /\ HeldIn(creds1)[q] <= HeldIn(creds)[q] + 1
                 /\ HeldIn(creds)[q] <= HeldIn(creds2)[q] + 1
<1> DEFINE S1 == SlotsIn(creds1, q)
           S2 == SlotsIn(creds2, q)
           S == SlotsIn(creds, q)
<1>1. S \subseteq S1 \cup S2 /\ S1 \cap S2 \subseteq S
  BY DEF Mix, SlotsIn
<1>2. /\ IsFiniteSet(S1) /\ HeldIn(creds1)[q] = Cardinality(S1) /\ Cardinality(S1) \in Nat
      /\ IsFiniteSet(S2) /\ HeldIn(creds2)[q] = Cardinality(S2) /\ Cardinality(S2) \in Nat
      /\ IsFiniteSet(S) /\ HeldIn(creds)[q] = Cardinality(S) /\ Cardinality(S) \in Nat
  BY HeldType, FS_CardinalityType
<1> HIDE DEF S1, S2, S
<1>3. ASSUME S1 \subseteq S2 PROVE Cardinality(S1) <= Cardinality(S) /\ Cardinality(S) <= Cardinality(S2)
  <2>1. S1 \subseteq S /\ S \subseteq S2
    BY <1>1, <1>3
  <2> QED
    BY <1>2, <2>1, FS_Subset
<1>4. ASSUME NEW i, S1 \subseteq S2 \cup {i}
      PROVE  Cardinality(S1) <= Cardinality(S) + 1 /\ Cardinality(S) <= Cardinality(S2) + 1
  <2>1. S1 \subseteq S \cup {i} /\ S \subseteq S2 \cup {i}
    BY <1>1, <1>4
  <2>2. /\ IsFiniteSet(S \cup {i})
        /\ Cardinality(S \cup {i}) = IF i \in S THEN Cardinality(S) ELSE Cardinality(S) + 1
    BY <1>2, FS_AddElement
  <2>3. /\ IsFiniteSet(S2 \cup {i})
        /\ Cardinality(S2 \cup {i}) = IF i \in S2 THEN Cardinality(S2) ELSE Cardinality(S2) + 1
    BY <1>2, FS_AddElement
  <2>4. Cardinality(S1) <= Cardinality(S \cup {i}) /\ Cardinality(S) <= Cardinality(S2 \cup {i})
    BY <2>1, <2>2, <2>3, FS_Subset
  <2> QED
    BY <1>2, <2>2, <2>3, <2>4
<1> QED
  BY <1>2, <1>3, <1>4 DEF S1, S2, S

\* One release of one credential and one record, torn.
LEMMA TornRelease ==
    ASSUME NEW creds1 \in CredFiles, NEW records1 \in RecordFiles,
           NEW creds2 \in CredFiles, NEW records2 \in RecordFiles, NEW d \in Nat,
           Level(creds1, records1, d), Level(creds2, records2, d),
           Release1(creds1, records1, creds2, records2)
    PROVE  TornLevel(creds1, records1, creds2, records2, d)
<1> SUFFICES ASSUME NEW creds \in CredFiles, NEW records \in RecordFiles,
                    Mix(creds1, creds2, creds), Mix(records1, records2, records)
             PROVE  Level(creds, records, d + 1)
  BY DEF TornLevel
<1>1. records \in {records1, records2}
  <2>1. PICK j \in Slots : \A i \in Slots \ {j} : records2[i] = records1[i]
    BY DEF Release1
  <2>2. \A i \in Slots \ {j} : records[i] = records1[i] /\ records[i] = records2[i]
    BY <2>1 DEF Mix
  <2>3. records[j] = records1[j] \/ records[j] = records2[j]
    BY DEF Mix
  <2>4. (\A i \in Slots : records[i] = records1[i]) \/ (\A i \in Slots : records[i] = records2[i])
    BY <2>2, <2>3
  <2> QED
    BY <2>4 DEF RecordFiles
<1> DEFINE H1 == HeldIn(creds1)  H2 == HeldIn(creds2)  H == HeldIn(creds)
           C1 == CountIn(records1)  C2 == CountIn(records2)  C == CountIn(records)
<1>2. PICK r :
        /\ \A q \in Rps \ {r} : SlotsIn(creds1, q) \subseteq SlotsIn(creds2, q) /\ C2[q] = C1[q]
        /\ r \in Rps =>
              \/ SlotsIn(creds1, r) \subseteq SlotsIn(creds2, r) /\ C2[r] \in {C1[r], C1[r] + 1}
              \/ /\ \E i : SlotsIn(creds1, r) \subseteq SlotsIn(creds2, r) \cup {i}
                 /\ C1[r] \in {C2[r], C2[r] + 1}
  BY DEF Release1
<1>3. /\ H1 \in [Rps -> Nat] /\ H2 \in [Rps -> Nat] /\ H \in [Rps -> Nat]
      /\ C1 \in [Rps -> Nat] /\ C2 \in [Rps -> Nat] /\ C \in [Rps -> Nat] /\ C \in {C1, C2}
  BY <1>1, HeldType, CountType
<1>4. \A q \in Rps \ {r} : H1[q] <= H[q] /\ H[q] <= H2[q] /\ C[q] = C1[q] /\ C[q] = C2[q]
  BY <1>2, <1>3, MixHeld
<1>5. ASSUME r \in Rps
      PROVE  H[r] + C2[r] <= H2[r] + C[r] + 1 /\ C[r] + H1[r] <= C1[r] + H[r] + 1
  <2>1. /\ H1[r] \in Nat /\ H2[r] \in Nat /\ H[r] \in Nat /\ C1[r] \in Nat /\ C2[r] \in Nat
        /\ C[r] = C1[r] \/ C[r] = C2[r]
    BY <1>3, <1>5
  <2>2. CASE SlotsIn(creds1, r) \subseteq SlotsIn(creds2, r) /\ C2[r] \in {C1[r], C1[r] + 1}
    <3>1. H1[r] <= H[r] /\ H[r] <= H2[r]
      BY <1>5, <2>2, MixHeld
    <3> HIDE DEF H1, H2, H, C1, C2, C
    <3> QED
      BY <2>1, <2>2, <3>1
  <2>3. CASE /\ \E i : SlotsIn(creds1, r) \subseteq SlotsIn(creds2, r) \cup {i}
             /\ C1[r] \in {C2[r], C2[r] + 1}
    <3>1. H1[r] <= H[r] + 1 /\ H[r] <= H2[r] + 1
      BY <1>5, <2>3, MixHeld
    <3> HIDE DEF H1, H2, H, C1, C2, C
    <3> QED
      BY <2>1, <2>3, <3>1
  <2> QED
    BY <1>2, <1>5, <2>2, <2>3
<1>6. /\ Cardinality(Over(H2, C2)) <= d /\ Cardinality(Over(C1, H1)) <= d
      /\ IsFiniteSet(Over(H2, C2)) /\ Cardinality(Over(H2, C2)) \in Nat
      /\ IsFiniteSet(Over(C1, H1)) /\ Cardinality(Over(C1, H1)) \in Nat
      /\ Cardinality(Over(H, C)) \in Nat /\ Cardinality(Over(C, H)) \in Nat
  BY FilesFinite DEF Level
<1>7. Unique(records)
  BY <1>1 DEF Level
<1> HIDE DEF H1, H2, H, C1, C2, C
<1>8. \A q \in Rps \ {r} : H[q] + C2[q] <= H2[q] + C[q] /\ C[q] + H1[q] <= C1[q] + H[q]
  BY <1>3, <1>4
<1>9. Cardinality(Over(H, C)) <= Cardinality(Over(H2, C2)) + 1
  BY <1>3, <1>5, <1>6, <1>8, OverGrows
<1>10. Cardinality(Over(C, H)) <= Cardinality(Over(C1, H1)) + 1
  BY <1>3, <1>5, <1>6, <1>8, OverGrows
<1>11. Cardinality(Over(H, C)) <= d + 1 /\ Cardinality(Over(C, H)) <= d + 1
  BY <1>6, <1>9, <1>10
<1> QED
  BY <1>7, <1>11 DEF Level, H, C

\* A release that changes neither file cannot be torn in them.
LEMMA TornSame ==
    ASSUME NEW creds1 \in CredFiles, NEW records1 \in RecordFiles, NEW d \in Nat, Level(creds1, records1, d)
    PROVE  TornLevel(creds1, records1, creds1, records1, d)
<1> SUFFICES ASSUME NEW creds \in CredFiles, NEW records \in RecordFiles,
                    Mix(creds1, creds1, creds), Mix(records1, records1, records)
             PROVE  Level(creds, records, d + 1)
  BY DEF TornLevel
<1>1. creds = creds1 /\ records = records1
  BY DEF Mix, CredFiles, RecordFiles
<1> QED
  BY <1>1, LevelGrows

\* The record of r, the only one, is written or erased at j.
Written1(r, j, new) ==
    /\ record' = [record EXCEPT ![j] = new]
    /\ \A i \in SlotsIn(record, r) : i = j
    /\ record[j] # Empty => record[j].rp = r
    /\ new # Empty => new.rp = r /\ new.count > 0

\* One record written or erased changes the count of its relying party alone.
LEMMA OneRecordWritten ==
    ASSUME record \in RecordFiles, Unique(record),
           NEW r \in Rps, NEW j \in Slots, NEW new \in Records \cup {Empty}, Written1(r, j, new)
    PROVE  /\ record' \in RecordFiles /\ Unique(record')
           /\ \A i \in Slots \ {j} : record'[i] = record[i]
           /\ \A q \in Rps \ {r} : CountIn(record')[q] = CountIn(record)[q]
           /\ CountIn(record')[r] = IF new = Empty THEN 0 ELSE new.count
<1>0. record' \in RecordFiles
  BY DEF RecordFiles, Written1
<1>1. record' \in RecordFiles /\ \A i \in Slots : record'[i] = IF i = j THEN new ELSE record[i]
  BY DEF RecordFiles, Written1
<1>2. \A i \in Slots : record[i] # Empty /\ record[i].rp = r => i = j
  BY DEF SlotsIn, Written1
<1>3. Unique(record')
  BY <1>1, <1>2 DEF Unique, Written1
<1>4. SlotsIn(record', r) = IF new = Empty THEN {} ELSE {j}
  BY <1>1, <1>2 DEF SlotsIn, Written1
<1>5. CountIn(record')[r] = IF new = Empty THEN 0 ELSE new.count
  <2>1. CASE new = Empty
    BY <1>1, <1>4, <2>1, CountType
  <2>2. CASE new # Empty
    <3>1. j \in SlotsIn(record', r)
      BY <1>4, <2>2
    <3>2. CountIn(record')[r] = record'[j].count
      BY <1>0, <1>3, <3>1, CountOfOne
    <3> QED
      BY <1>1, <2>2, <3>2
  <2> QED
    BY <2>1, <2>2
<1>6. ASSUME NEW q \in Rps \ {r} PROVE CountIn(record')[q] = CountIn(record)[q]
  <2>1. SlotsIn(record', q) = SlotsIn(record, q) /\ j \notin SlotsIn(record, q)
    BY <1>1 DEF SlotsIn, Written1
  <2>2. CASE SlotsIn(record, q) = {}
    BY <1>1, <2>1, <2>2, CountType
  <2>3. ASSUME NEW k \in SlotsIn(record, q) PROVE CountIn(record')[q] = CountIn(record)[q]
    <3>0. k \in SlotsIn(record', q)
      BY <2>1
    <3>1. CountIn(record')[q] = record'[k].count
      BY <1>0, <1>3, <3>0, CountOfOne
    <3>3. CountIn(record)[q] = record[k].count
      BY <2>3, CountOfOne
    <3>2. k \in Slots /\ k # j
      BY <2>1, <2>3 DEF SlotsIn
    <3> QED
      BY <1>1, <3>1, <3>2, <3>3
  <2> QED
    BY <2>2, <2>3
<1> QED
  BY <1>1, <1>3, <1>5, <1>6

\* The slots of the files as the program reads them, before ...
LEMMA RecordSlots == \A q : RecordsOf(q) = SlotsIn(record, q) /\ CredsOf(q) = SlotsIn(cred, q)
BY DEF RecordsOf, CredsOf, UsedIn, FreeIn, SlotsIn

\* A credential counted: one more at its relying party, unless the byte wraps.
LEMMA CountGoesUp ==
    ASSUME record \in RecordFiles, Unique(record), NEW r \in Rps, HasRecordFor(r),
           record' = Counted(r), CountIn(record)[r] + 1 < ByteMod
    PROVE  /\ record' \in RecordFiles /\ Unique(record')
           /\ \E j \in Slots : \A i \in Slots \ {j} : record'[i] = record[i]
           /\ \A q \in Rps \ {r} : CountIn(record')[q] = CountIn(record)[q]
           /\ CountIn(record')[r] = CountIn(record)[r] + 1
<1>1. CASE RecordsOf(r) # {}
  <2> DEFINE j == Min(RecordsOf(r))
             new == [rp |-> r, count |-> record[j].count + 1]
  <2>1. j \in SlotsIn(record, r) /\ j \in Slots
    BY <1>1, RecordSlots, MinLeast DEF SlotsIn
  <2>2. record[j] \in Records /\ record[j].rp = r
    BY <2>1 DEF SlotsIn, RecordFiles
  <2>3. /\ \A i \in SlotsIn(record, r) : i = j
        /\ CountIn(record)[r] = record[j].count
    BY <2>1, CountOfOne
  <2>4. record' = [record EXCEPT ![j].count = (record[j].count + 1) % ByteMod]
    BY <1>1 DEF Counted
  <2> HIDE DEF j
  <2>5. record[j].count \in Nat /\ (record[j].count + 1) % ByteMod = record[j].count + 1
    BY <2>2, <2>3, ModSmall DEF Records
  <2>6. record' = [record EXCEPT ![j] = new]
    BY <2>2, <2>4, <2>5 DEF Records, RecordFiles
  <2>7. new \in Records /\ new.rp = r /\ new.count > 0 /\ new # Empty /\ new.count = CountIn(record)[r] + 1
    <3>1. record[j].count + 1 \in 0 .. (ByteMod - 1) /\ record[j].count + 1 > 0
      BY <2>3, <2>5, SlotAssumption
    <3>2. new \in Records
      BY <3>1 DEF Records
    <3> QED
      BY <2>3, <3>1, <3>2, EmptyApart
  <2> HIDE DEF new
  <2>8. /\ record' \in RecordFiles /\ Unique(record')
        /\ \A i \in Slots \ {j} : record'[i] = record[i]
        /\ \A q \in Rps \ {r} : CountIn(record')[q] = CountIn(record)[q]
        /\ CountIn(record')[r] = IF new = Empty THEN 0 ELSE new.count
    <3>1. Written1(r, j, new)
      BY <2>1, <2>2, <2>3, <2>6, <2>7 DEF Written1
    <3>2. j \in Slots /\ new \in Records \cup {Empty}
      BY <2>1, <2>7
    <3> QED
      BY <3>1, <3>2, OneRecordWritten
  <2> QED
    BY <2>1, <2>7, <2>8
<1>2. CASE RecordsOf(r) = {}
  <2> DEFINE j == Min(FreeIn(record))
             new == [rp |-> r, count |-> 1]
  <2>1. j \in Slots /\ record[j] = Empty
    BY <1>2, MinLeast DEF HasRecordFor, FreeIn
  <2>2. record' = [record EXCEPT ![j] = new]
    BY <1>2 DEF HasRecordFor, Counted
  <2> HIDE DEF j
  <2>3. SlotsIn(record, r) = {} /\ CountIn(record)[r] = 0
    BY <1>2, RecordSlots, CountType
  <2>4. new \in Records /\ new.rp = r /\ new.count > 0 /\ new # Empty /\ new.count = 1
    <3>1. new \in Records
      BY SlotAssumption DEF Records
    <3> QED
      BY <3>1, EmptyApart
  <2> HIDE DEF new
  <2>5. /\ record' \in RecordFiles /\ Unique(record')
        /\ \A i \in Slots \ {j} : record'[i] = record[i]
        /\ \A q \in Rps \ {r} : CountIn(record')[q] = CountIn(record)[q]
        /\ CountIn(record')[r] = IF new = Empty THEN 0 ELSE new.count
    <3>1. Written1(r, j, new)
      BY <2>1, <2>2, <2>3, <2>4 DEF Written1
    <3>2. j \in Slots /\ new \in Records \cup {Empty}
      BY <2>1, <2>4
    <3> QED
      BY <3>1, <3>2, OneRecordWritten
  <2> QED
    BY <2>1, <2>3, <2>4, <2>5
<1> QED
  BY <1>1, <1>2

\* A credential deleted: one less, or nothing to count without a record.
LEMMA CountGoesDown ==
    ASSUME record \in RecordFiles, Unique(record), NEW r \in Rps, record' = Uncounted(r)
    PROVE  /\ record' \in RecordFiles /\ Unique(record')
           /\ \E j \in Slots : \A i \in Slots \ {j} : record'[i] = record[i]
           /\ \A q \in Rps \ {r} : CountIn(record')[q] = CountIn(record)[q]
           /\ \/ CountIn(record)[r] = CountIn(record')[r] + 1
              \/ CountIn(record)[r] = 0 /\ CountIn(record')[r] = 0
<1>1. CASE RecordsOf(r) # {}
  <2> DEFINE j == Min(RecordsOf(r))
             c == record[j].count
             new == IF c = 1 THEN Empty ELSE [rp |-> r, count |-> c - 1]
  <2>1. j \in SlotsIn(record, r) /\ j \in Slots
    BY <1>1, RecordSlots, MinLeast DEF SlotsIn
  <2>2. record[j] \in Records /\ record[j].rp = r /\ record[j] # Empty
    BY <2>1 DEF SlotsIn, RecordFiles
  <2>3. /\ \A i \in SlotsIn(record, r) : i = j
        /\ CountIn(record)[r] = c
    BY <2>1, CountOfOne
  <2>4. c \in Nat /\ c > 0 /\ c < ByteMod
    BY <2>1, <2>2, SlotAssumption DEF Records, Unique
  <2>5. (c + ByteMod - 1) % ByteMod = c - 1
    <3>1. c - 1 \in Nat /\ c - 1 < ByteMod /\ (c - 1) + ByteMod = c + ByteMod - 1
      BY <2>4, SlotAssumption
    <3> QED
      BY <3>1, ModWrap
  <2>6. record' = IF c - 1 = 0 THEN [record EXCEPT ![j] = Empty] ELSE [record EXCEPT ![j].count = c - 1]
    BY <1>1, <2>5 DEF Uncounted
  <2> HIDE DEF j
  <2>7. record' = [record EXCEPT ![j] = new]
    <3>1. CASE c = 1
      BY <2>6, <3>1
    <3>2. CASE c # 1
      <4>1. c - 1 # 0
        BY <2>4, <3>2
      <4>2. record' = [record EXCEPT ![j].count = c - 1]
        BY <2>6, <4>1
      <4>3. [record[j] EXCEPT !.count = c - 1] = [rp |-> r, count |-> c - 1]
        BY <2>2 DEF Records
      <4>4. record' = [record EXCEPT ![j] = [rp |-> r, count |-> c - 1]]
        BY <2>1, <4>2, <4>3 DEF RecordFiles
      <4> QED
        BY <3>2, <4>4
    <3> QED
      BY <3>1, <3>2
  <2>8. new \in Records \cup {Empty} /\ (c = 1 <=> new = Empty)
        /\ (new # Empty => new.rp = r /\ new.count > 0 /\ new.count = c - 1)
    <3>1. CASE c = 1
      BY <3>1
    <3>2. CASE c # 1
      <4>1. c - 1 \in 0 .. (ByteMod - 1) /\ c - 1 > 0
        BY <2>4, <3>2, SlotAssumption
      <4>2. [rp |-> r, count |-> c - 1] \in Records
        BY <4>1 DEF Records
      <4> QED
        BY <3>2, <4>1, <4>2, EmptyApart
    <3> QED
      BY <3>1, <3>2
  <2> HIDE DEF new, c
  <2>9. /\ record' \in RecordFiles /\ Unique(record')
        /\ \A i \in Slots \ {j} : record'[i] = record[i]
        /\ \A q \in Rps \ {r} : CountIn(record')[q] = CountIn(record)[q]
        /\ CountIn(record')[r] = IF new = Empty THEN 0 ELSE new.count
    <3>1. Written1(r, j, new)
      BY <2>1, <2>2, <2>3, <2>7, <2>8 DEF Written1
    <3>2. j \in Slots /\ new \in Records \cup {Empty}
      BY <2>1, <2>8
    <3> QED
      BY <3>1, <3>2, OneRecordWritten
  <2>10. CountIn(record)[r] = CountIn(record')[r] + 1
    BY <2>3, <2>4, <2>8, <2>9
  <2> QED
    BY <2>1, <2>9, <2>10
<1>2. CASE RecordsOf(r) = {}
  <2>1. record' = record /\ CountIn(record)[r] = 0
    BY <1>2, RecordSlots, CountType DEF Uncounted
  <2>2. 1 \in Slots
    BY SlotAssumption DEF Slots
  <2> QED
    BY <2>1, <2>2
<1> QED
  BY <1>1, <1>2

\* ... and after a step.
LEMMA SlotsNext == \A q : RecordsOf(q)' = SlotsIn(record', q) /\ CredsOf(q)' = SlotsIn(cred', q)
BY DEF RecordsOf, CredsOf, UsedIn, FreeIn, SlotsIn

\* The files stay as far apart as they were when neither excess grows.
LEMMA LevelKept ==
    ASSUME NEW creds1 \in CredFiles, NEW records1 \in RecordFiles,
           NEW creds2 \in CredFiles, NEW records2 \in RecordFiles, NEW d \in Nat,
           Level(creds1, records1, d), Unique(records2),
           \A q \in Rps :
              LET h1 == HeldIn(creds1)[q] h2 == HeldIn(creds2)[q]
                  c1 == CountIn(records1)[q] c2 == CountIn(records2)[q]
              IN  (h2 + c1 <= h1 + c2 \/ h2 <= c2) /\ (c2 + h1 <= c1 + h2 \/ c2 <= h2)
    PROVE  Level(creds2, records2, d)
<1> DEFINE H1 == HeldIn(creds1)  H2 == HeldIn(creds2)
           C1 == CountIn(records1)  C2 == CountIn(records2)
<1>1. /\ H1 \in [Rps -> Nat] /\ H2 \in [Rps -> Nat]
      /\ C1 \in [Rps -> Nat] /\ C2 \in [Rps -> Nat]
  BY HeldType, CountType
<1>2. /\ IsFiniteSet(Over(H1, C1)) /\ IsFiniteSet(Over(C1, H1))
      /\ Cardinality(Over(H1, C1)) \in Nat /\ Cardinality(Over(C1, H1)) \in Nat
      /\ Cardinality(Over(H2, C2)) \in Nat /\ Cardinality(Over(C2, H2)) \in Nat
      /\ Cardinality(Over(H1, C1)) <= d /\ Cardinality(Over(C1, H1)) <= d
  BY FilesFinite DEF Level
<1>3. \A q \in Rps : /\ H2[q] + C1[q] <= H1[q] + C2[q] \/ H2[q] <= C2[q]
                     /\ C2[q] + H1[q] <= C1[q] + H2[q] \/ C2[q] <= H2[q]
  OBVIOUS
<1> HIDE DEF H1, H2, C1, C2
<1>4. Cardinality(Over(H2, C2)) <= Cardinality(Over(H1, C1))
  BY <1>1, <1>2, <1>3, OverShrinks
<1>5. Cardinality(Over(C2, H2)) <= Cardinality(Over(C1, H1))
  BY <1>1, <1>2, <1>3, OverShrinks
<1>6. Cardinality(Over(H2, C2)) <= d /\ Cardinality(Over(C2, H2)) <= d
  BY <1>2, <1>4, <1>5
<1> QED
  BY <1>6 DEF Level, H2, C2

\* What the program reads, a release behind it and the files before the last
\* release: the credentials may be fewer, the records are the same.
Behind(creds1) == creds1 \in CredFiles /\ \A q \in Rps : SlotsIn(creds1, q) \subseteq SlotsIn(cred, q)

\* A new credential that is counted.
LEMMA StoredLevel ==
    ASSUME StoreTypeOK, StoreTypeOK', KeyTypeOK, NEW d \in Nat, Level(cred, record, d), NEW creds1,
           Behind(creds1), NEW r \in Rps, NEW u \in Users, StoreNew(r, u), HasRecordFor(r),
           HeldIn(cred')[r] + d < ByteMod
    PROVE  Level(cred', record', d) /\ Release1(creds1, record, cred', record')
<1>0. /\ cred \in CredFiles /\ record \in RecordFiles /\ cred' \in CredFiles /\ record' \in RecordFiles
  BY DEF StoreTypeOK, CredFiles, RecordFiles, Creds, Records
<1> DEFINE k == Min(FreeIn(cred))
           H == HeldIn(cred)  H2 == HeldIn(cred')
           C == CountIn(record)  C2 == CountIn(record')
<1>1. k \in FreeIn(cred) /\ Write(k, r, u) /\ record' = Counted(r) /\ devKey \in DeviceKeys
  BY MinLeast DEF StoreNew, FreeIn, KeyTypeOK
<1> HIDE DEF k
<1>2. \A q \in Rps : /\ SlotsIn(cred', q) = IF q = r THEN SlotsIn(cred, q) \cup {k} ELSE SlotsIn(cred, q)
                     /\ k \notin SlotsIn(cred, q)
  BY <1>1, WriteAdds, RecordSlots, SlotsNext
<1>3. /\ H \in [Rps -> Nat] /\ H2 \in [Rps -> Nat] /\ C \in [Rps -> Nat] /\ C \in [Rps -> 0 .. ByteMod]
  BY <1>0, HeldType, CountType
<1>4. \A q \in Rps : H2[q] = IF q = r THEN H[q] + 1 ELSE H[q]
  <2>1. \A q \in Rps : /\ H[q] = Cardinality(SlotsIn(cred, q)) /\ H2[q] = Cardinality(SlotsIn(cred', q))
                       /\ IsFiniteSet(SlotsIn(cred, q))
    BY <1>0, HeldType
  <2>2. Cardinality(SlotsIn(cred', r)) = Cardinality(SlotsIn(cred, r)) + 1
    BY <1>2, <2>1, FS_AddElement
  <2> QED
    BY <1>2, <2>1, <2>2
<1>5. C[r] + 1 < ByteMod
  <2>1. IsFiniteSet(Over(C, H)) /\ Cardinality(Over(C, H)) \in Nat /\ Cardinality(Over(C, H)) <= d
    BY <1>0, FilesFinite DEF Level
  <2> HIDE DEF H, C
  <2>2. C[r] <= H[r] + Cardinality(Over(C, H))
    BY <1>3, <2>1, OverBounds
  <2>3. H[r] \in Nat /\ C[r] \in Nat
    BY <1>3
  <2>4. C[r] + 1 <= (H[r] + 1) + d
    BY <2>1, <2>2, <2>3
  <2>5. H2[r] = H[r] + 1 /\ H2[r] + d < ByteMod
    BY <1>4
  <2> QED
    BY <2>3, <2>4, <2>5, SlotAssumption
<1>6. /\ Unique(record')
      /\ \E j \in Slots : \A i \in Slots \ {j} : record'[i] = record[i]
      /\ \A q \in Rps \ {r} : C2[q] = C[q]
      /\ C2[r] = C[r] + 1
  BY <1>0, <1>1, <1>5, CountGoesUp DEF Level
<1>7. Level(cred', record', d)
  <2>1. ASSUME NEW q \in Rps PROVE H2[q] + C[q] <= H[q] + C2[q] /\ C2[q] + H[q] <= C[q] + H2[q]
    <3>1. H[q] \in Nat /\ C[q] \in Nat
      BY <1>3
    <3> HIDE DEF H, C, H2, C2
    <3>2. CASE q = r
      BY <1>4, <1>6, <3>1, <3>2
    <3>3. CASE q # r
      BY <1>4, <1>6, <3>1, <3>3
    <3> QED
      BY <3>2, <3>3
  <2> QED
    BY <1>0, <1>6, <2>1, LevelKept
<1>8. \A q \in Rps : SlotsIn(creds1, q) \subseteq SlotsIn(cred', q)
  BY <1>2 DEF Behind
<1> QED
  BY <1>6, <1>7, <1>8 DEF Release1

\* A command that moves no credential between relying parties.
LEMMA SameLevel ==
    ASSUME StoreTypeOK, StoreTypeOK', NEW d \in Nat, Level(cred, record, d), NEW creds1, Behind(creds1),
           UNCHANGED record, \A q \in Rps : SlotsIn(cred', q) = SlotsIn(cred, q)
    PROVE  Level(cred', record', d) /\ Release1(creds1, record, cred', record')
<1>1. HeldIn(cred') = HeldIn(cred)
  BY DEF HeldIn
<1>2. Level(cred', record', d)
  BY <1>1 DEF Level
<1>3. 1 \in Slots
  BY SlotAssumption DEF Slots
<1>4. \E r : \A q \in Rps : SlotsIn(creds1, q) \subseteq SlotsIn(cred', q)
  BY DEF Behind
<1> QED
  BY <1>2, <1>3, <1>4 DEF Release1

\* A deletion.
LEMMA DeletedLevel ==
    ASSUME StoreTypeOK, StoreTypeOK', NEW d \in Nat, Level(cred, record, d), NEW creds1, Behind(creds1),
           NEW k \in Slots, Delete(k)
    PROVE  Level(cred', record', d) /\ Release1(creds1, record, cred', record')
<1>0. /\ cred \in CredFiles /\ record \in RecordFiles /\ cred' \in CredFiles /\ record' \in RecordFiles
  BY DEF StoreTypeOK, CredFiles, RecordFiles, Creds, Records
<1> DEFINE H == HeldIn(cred)  H2 == HeldIn(cred')
           C == CountIn(record)  C2 == CountIn(record')
<1>1. PICK r \in Rps : r = cred[k].rp
  BY <1>0 DEF Delete, UsedIn, FreeIn, CredFiles, Creds
<1>2. record' = Uncounted(r)
  BY <1>1 DEF Delete
<1>3. \A q \in Rps : SlotsIn(cred', q) = IF q = r THEN SlotsIn(cred, q) \ {k} ELSE SlotsIn(cred, q)
  BY <1>1, DeleteRemoves, RecordSlots, SlotsNext DEF Delete
<1>4. k \in SlotsIn(cred, r)
  BY <1>1 DEF Delete, UsedIn, FreeIn, SlotsIn
<1>5. /\ H \in [Rps -> Nat] /\ H2 \in [Rps -> Nat] /\ C \in [Rps -> Nat] /\ C2 \in [Rps -> Nat]
  BY <1>0, HeldType, CountType
<1>6. \A q \in Rps : H[q] = IF q = r THEN H2[q] + 1 ELSE H2[q]
  <2>1. \A q \in Rps : /\ H[q] = Cardinality(SlotsIn(cred, q)) /\ H2[q] = Cardinality(SlotsIn(cred', q))
                       /\ IsFiniteSet(SlotsIn(cred, q))
    BY <1>0, HeldType
  <2>2. Cardinality(SlotsIn(cred', r)) = Cardinality(SlotsIn(cred, r)) - 1
    BY <1>3, <1>4, <2>1, FS_RemoveElement
  <2>3. H[r] \in Nat /\ H2[r] \in Nat
    BY <1>5
  <2> QED
    BY <1>3, <2>1, <2>2, <2>3
<1>7. /\ Unique(record')
      /\ \E j \in Slots : \A i \in Slots \ {j} : record'[i] = record[i]
      /\ \A q \in Rps \ {r} : C2[q] = C[q]
      /\ C[r] = C2[r] + 1 \/ (C[r] = 0 /\ C2[r] = 0)
  BY <1>0, <1>2, CountGoesDown DEF Level
<1>8. Level(cred', record', d)
  <2>1. ASSUME NEW q \in Rps
        PROVE  H2[q] + C[q] <= H[q] + C2[q] /\ (C2[q] + H[q] <= C[q] + H2[q] \/ C2[q] <= H2[q])
    <3>1. H[q] \in Nat /\ C[q] \in Nat /\ H2[q] \in Nat /\ C2[q] \in Nat
      BY <1>5
    <3> HIDE DEF H, C, H2, C2
    <3>2. CASE q = r
      BY <1>6, <1>7, <3>1, <3>2
    <3>3. CASE q # r
      BY <1>6, <1>7, <3>1, <3>3
    <3> QED
      BY <3>2, <3>3
  <2> QED
    BY <1>0, <1>7, <2>1, LevelKept
<1>9. /\ \A q \in Rps \ {r} : SlotsIn(creds1, q) \subseteq SlotsIn(cred', q)
      /\ SlotsIn(creds1, r) \subseteq SlotsIn(cred', r) \cup {k}
  BY <1>3 DEF Behind
<1>10. C[r] \in {C2[r], C2[r] + 1}
  BY <1>7
<1> QED
  BY <1>7, <1>8, <1>9, <1>10 DEF Release1

\* A credential left without a record: all records are taken, and none counts
\* nothing, so what is missing elsewhere covers it.
LEMMA UnlistedLevel ==
    ASSUME StoreTypeOK, StoreTypeOK', KeyTypeOK, NEW d \in Nat, Level(cred, record, d),
           NEW r \in Rps, NEW u \in Users, StoreNew(r, u), ~HasRecordFor(r)
    PROVE  /\ Level(cred', record', d) /\ UNCHANGED record
           /\ \A q \in Rps : SlotsIn(cred, q) \subseteq SlotsIn(cred', q)
<1>0. /\ cred \in CredFiles /\ record \in RecordFiles /\ cred' \in CredFiles
  BY DEF StoreTypeOK, CredFiles, RecordFiles, Creds, Records
<1> DEFINE k == Min(FreeIn(cred))
           H == HeldIn(cred)  H2 == HeldIn(cred')  C == CountIn(record)
<1>1. k \in FreeIn(cred) /\ Write(k, r, u) /\ record' = record /\ devKey \in DeviceKeys
  BY MinLeast DEF StoreNew, FreeIn, Counted, HasRecordFor, KeyTypeOK
<1> HIDE DEF k
<1>2. \A q \in Rps : SlotsIn(cred, q) \subseteq SlotsIn(cred', q)
  BY <1>1, WriteAdds, RecordSlots, SlotsNext
<1>3. /\ H \in [Rps -> Nat] /\ H2 \in [Rps -> Nat] /\ C \in [Rps -> Nat]
      /\ H2 \in [Rps -> 0 .. ByteMod] /\ C \in [Rps -> 0 .. ByteMod]
  BY <1>0, HeldType, CountType
<1>4. \A q \in Rps : H[q] <= H2[q]
  <2>1. \A q \in Rps : /\ H[q] = Cardinality(SlotsIn(cred, q)) /\ H2[q] = Cardinality(SlotsIn(cred', q))
                       /\ IsFiniteSet(SlotsIn(cred', q))
    BY <1>0, HeldType
  <2> QED
    BY <1>2, <2>1, FS_Subset
<1>5. /\ IsFiniteSet(Over(C, H)) /\ Cardinality(Over(C, H)) \in Nat /\ Cardinality(Over(C, H)) <= d
      /\ IsFiniteSet(Over(C, H2)) /\ Cardinality(Over(C, H2)) \in Nat
      /\ IsFiniteSet(Over(H2, C)) /\ Cardinality(Over(H2, C)) \in Nat
      /\ IsFiniteSet(Below(H2)) /\ IsFiniteSet(Below(C)) /\ Unique(record)
  BY <1>0, FilesFinite DEF Level
<1>6. Cardinality(Below(H2)) <= NumSlots
  BY <1>0, HeldTotal
<1>7. NumSlots <= Cardinality(Below(C))
  <2>1. \A i \in Slots : record[i] # Empty
    BY DEF HasRecordFor, FreeIn
  <2> QED
    BY <1>0, <1>5, <2>1, FullCounts
<1> HIDE DEF H, H2, C
<1>8. Cardinality(Over(C, H2)) <= Cardinality(Over(C, H))
  <2>1. \A q \in Rps : C[q] + H[q] <= C[q] + H2[q]
    BY <1>3, <1>4
  <2> QED
    BY <1>3, <1>5, <2>1, OverShrinks
<1>9. Cardinality(Below(H2)) <= Cardinality(Below(C))
  BY <1>5, <1>6, <1>7, FS_CardinalityType, SlotAssumption
<1>10. Cardinality(Over(H2, C)) <= Cardinality(Over(C, H2))
  BY <1>3, <1>5, <1>9, OverBalance
<1>11. Cardinality(Over(H2, C)) <= d /\ Cardinality(Over(C, H2)) <= d
  BY <1>5, <1>8, <1>10
<1>12. Level(cred', record, d)
  BY <1>5, <1>11 DEF Level, H2, C
<1> QED
  BY <1>1, <1>2, <1>12

\* While no relying party had more credentials than a byte counts, the files
\* are as far apart as the torn releases left them, and so are the flash and
\* every release on its way to it; tearing one puts them one further apart.
LevelFiles ==
    /\ Level(cred, record, drift)
    /\ \A k \in 0 .. Len(pending) : Level(Written(k).cred, Written(k).record, drift)
    /\ \A k \in 1 .. Len(pending) :
          TornLevel(Written(k - 1).cred, Written(k - 1).record, Written(k).cred, Written(k).record, drift)

\* The last release is what the program reads, but for the credentials of
\* refusals, which are put and not released.
LastRelease ==
    /\ Written(Len(pending)).record = record
    /\ \A q \in Rps : SlotsIn(Written(Len(pending)).cred, q) \subseteq SlotsIn(cred, q)

DriftInv ==
    /\ peak \in Nat
    /\ \A k \in 0 .. Len(pending) : Written(k).drift = drift
    /\ LastRelease
    /\ peak + drift < ByteMod => LevelFiles

\* Types of the flash and the releases on their way.
LEMMA StagesTyped ==
    ASSUME StorageInv, NEW k \in 0 .. Len(pending)
    PROVE  /\ Written(k) \in Contents /\ Written(k).cred \in CredFiles /\ Written(k).record \in RecordFiles
           /\ cred \in CredFiles /\ record \in RecordFiles /\ drift \in Nat /\ Len(pending) \in Nat
<1>1. Written(k) \in InStep /\ Len(pending) \in Nat
  BY DEF StorageInv, Written
<1>2. Written(k) \in Contents
  BY <1>1 DEF InStep
<1>3. cred \in CredFiles /\ record \in RecordFiles /\ drift \in Nat
  BY DEF StorageInv, FilesInv, StoreTypeOK, CredFiles, RecordFiles, Creds, Records
<1>4. Written(k).cred \in CredFiles /\ Written(k).record \in RecordFiles
  BY <1>2 DEF Contents, CredFiles, RecordFiles
<1> QED
  BY <1>1, <1>2, <1>3, <1>4

\* What a command does to the files, from whatever the last release left.
Moved ==
    \A creds1 : Behind(creds1) =>
        Level(cred', record', drift) /\ Release1(creds1, record, cred', record')

\* A release puts the files after the command behind those on their way.
LEMMA DriftRelease ==
    ASSUME StorageInv, StorageInv', DriftInv, UNCHANGED drift, peak' \in Nat, peak <= peak',
           NEW stages \in Seq(InStep), Len(stages) > 0, Release(stages),
           \A k \in 1 .. Len(stages) :
              stages[k].cred = cred' /\ stages[k].record = record' /\ stages[k].drift = drift',
           peak' + drift' < ByteMod => Moved
    PROVE  DriftInv'
<1>n. PICK n \in Nat : n = Len(pending)
  BY DEF StorageInv
<1>m. PICK m \in Nat : m = Len(stages)
  OBVIOUS
<1>0. /\ pending \in Seq(InStep) /\ n = Len(pending) /\ m = Len(stages) /\ m > 0 /\ flashed' = flashed
      /\ drift \in Nat /\ drift' = drift /\ peak \in Nat
  BY <1>n, <1>m DEF StorageInv, FilesInv, Release, DriftInv
<1>1. pending' = pending \o stages /\ Len(pending') = n + m
  BY <1>0, ConcatProperties DEF Release
<1>2. ASSUME NEW k \in 0 .. n PROVE Written(k)' = Written(k)
  BY <1>0, <1>1, <1>2 DEF Written
<1>3. ASSUME NEW k \in (n + 1) .. (n + m)
      PROVE  Written(k)'.cred = cred' /\ Written(k)'.record = record' /\ Written(k)'.drift = drift'
  <2>1. k # 0 /\ k - n \in 1 .. m /\ k > n
    BY <1>0, <1>3
  <2>2. Written(k)' = stages[k - n]
    BY <1>0, <1>1, <2>1 DEF Written
  <2> QED
    BY <1>0, <2>1, <2>2
<1>4. \A k \in 0 .. (n + m) : k \in 0 .. n \/ k \in (n + 1) .. (n + m)
  BY <1>0
<1>5. n + m \in (n + 1) .. (n + m)
  BY <1>0
<1>6. LastRelease'
  <2>1. Written(Len(pending)).cred' = cred' /\ Written(Len(pending)).record' = record'
    <3>1. PICK k : k = n + m
      OBVIOUS
    <3>2. Written(k)'.cred = cred' /\ Written(k)'.record = record'
      BY <1>3, <1>5, <3>1
    <3>3. Written(Len(pending))' = Written(k)'
      BY <1>1, <3>1 DEF Written
    <3> QED
      BY <3>2, <3>3
  <2> QED
    BY <2>1 DEF LastRelease, SlotsIn
<1>7. \A k \in 0 .. (n + m) : Written(k)'.drift = drift'
  <2>1. \A k \in 0 .. n : Written(k).drift = drift
    BY <1>0 DEF DriftInv
  <2> QED
    BY <1>0, <1>2, <1>3, <1>4, <2>1
<1>8. ASSUME peak' + drift' < ByteMod PROVE LevelFiles'
  <2>0. Moved /\ LevelFiles
    <3>1. peak + drift < ByteMod
      BY <1>0, <1>8, SlotAssumption DEF DriftInv
    <3> QED
      BY <1>8, <3>1 DEF DriftInv
  <2>1. cred' \in CredFiles /\ record' \in RecordFiles /\ record \in RecordFiles
    BY DEF StorageInv, FilesInv, StoreTypeOK, CredFiles, RecordFiles, Creds, Records
  <2>2. /\ Written(n).cred \in CredFiles /\ Written(n).record = record
        /\ Behind(Written(n).cred)
    <3>1. n \in 0 .. Len(pending)
      BY <1>0
    <3>2. Written(n).cred \in CredFiles
      BY <3>1, StagesTyped
    <3> QED
      BY <1>0, <3>2 DEF DriftInv, LastRelease, Behind
  <2>3. Level(cred', record', drift) /\ Release1(Written(n).cred, record, cred', record')
    BY <2>0, <2>2 DEF Moved
  <2>4. Level(Written(n).cred, record, drift)
    BY <1>0, <2>0, <2>2 DEF LevelFiles
  <2>5. TornLevel(Written(n).cred, record, cred', record', drift)
    BY <1>0, <2>1, <2>2, <2>3, <2>4, TornRelease
  <2>6. TornLevel(cred', record', cred', record', drift)
    BY <1>0, <2>1, <2>3, TornSame
  <2>7. ASSUME NEW k \in 0 .. (n + m)
        PROVE  Level(Written(k)'.cred, Written(k)'.record, drift')
    <3>1. CASE k \in 0 .. n
      BY <1>0, <1>2, <2>0, <3>1 DEF LevelFiles
    <3>2. CASE k \in (n + 1) .. (n + m)
      BY <1>0, <1>3, <2>3, <3>2
    <3> QED
      BY <1>4, <3>1, <3>2
  <2>8. ASSUME NEW k \in 1 .. (n + m)
        PROVE  TornLevel(Written(k - 1)'.cred, Written(k - 1)'.record, Written(k)'.cred, Written(k)'.record, drift')
    <3>1. CASE k \in 1 .. n
      <4>1. k \in 0 .. n /\ k - 1 \in 0 .. n
        BY <1>0, <3>1
      <4>2. Written(k)' = Written(k) /\ Written(k - 1)' = Written(k - 1)
        BY <1>2, <4>1
      <4> QED
        BY <1>0, <2>0, <3>1, <4>2 DEF LevelFiles
    <3>2. CASE k = n + 1
      <4>1. n \in 0 .. n /\ k - 1 = n /\ k \in (n + 1) .. (n + m)
        BY <1>0, <3>2
      <4>2. Written(k - 1)' = Written(n)
        BY <1>2, <4>1
      <4>3. Written(k)'.cred = cred' /\ Written(k)'.record = record'
        BY <1>3, <4>1
      <4> QED
        BY <1>0, <2>2, <2>5, <4>2, <4>3
    <3>3. CASE k \in (n + 2) .. (n + m)
      <4>1. k \in (n + 1) .. (n + m) /\ k - 1 \in (n + 1) .. (n + m)
        BY <1>0, <3>3
      <4>2. /\ Written(k)'.cred = cred' /\ Written(k)'.record = record'
            /\ Written(k - 1)'.cred = cred' /\ Written(k - 1)'.record = record'
        BY <1>3, <4>1
      <4> QED
        BY <1>0, <2>6, <4>2
    <3>4. k \in 1 .. n \/ k = n + 1 \/ k \in (n + 2) .. (n + m)
      BY <1>0, <2>8
    <3> QED
      BY <3>1, <3>2, <3>3, <3>4
  <2>9. Level(cred', record', drift')
    BY <1>0, <2>3
  <2> QED
    BY <1>1, <2>7, <2>8, <2>9 DEF LevelFiles
<1> QED
  BY <1>1, <1>6, <1>7, <1>8 DEF DriftInv

\* The most credentials that a relying party had.
LEMMA CrowdGrows ==
    ASSUME StorageInv, StorageInv', peak \in Nat, NEW r \in Rps, Crowd(r)
    PROVE  peak' \in Nat /\ peak <= peak' /\ HeldIn(cred')[r] <= peak'
<1> DEFINE x == Cardinality(CredsOf(r)')
<1>1. cred' \in CredFiles
  BY DEF StorageInv, FilesInv, StoreTypeOK, CredFiles, Creds
<1>2. x = HeldIn(cred')[r] /\ x \in Nat
  BY <1>1, HeldType, SlotsNext, FS_CardinalityType
<1>3. peak' = Max({peak, x})
  BY DEF Crowd
<1> HIDE DEF x
<1>4. \E y \in {peak, x} : \A z \in {peak, x} : z <= y
  BY <1>2
<1>5. peak' \in {peak, x} /\ \A z \in {peak, x} : z <= peak'
  BY <1>3, <1>4 DEF Max
<1> QED
  BY <1>2, <1>5

\* A byte with room for more has room for less.
LEMMA RoomForLess ==
    ASSUME NEW a \in Nat, NEW b \in Nat, NEW c \in Nat, a <= b, b + c < ByteMod
    PROVE  a + c < ByteMod
BY SlotAssumption

\* An answer, a deletion and an update of the user: one release.
LEMMA DriftOneRelease ==
    ASSUME StorageInv, StorageInv', KeyTypeOK, DriftInv, Answer \/ \E i \in Slots : Manage(i)
    PROVE  DriftInv'
<1>1. UNCHANGED <<drift, peak>> /\ Release(<<Files'>>)
  BY DEF Answer, Manage
<1>2. ASSUME peak' + drift' < ByteMod PROVE Moved
  <2> SUFFICES ASSUME NEW creds1, Behind(creds1)
               PROVE  Level(cred', record', drift) /\ Release1(creds1, record, cred', record')
    BY DEF Moved
  <2>1. StoreTypeOK /\ StoreTypeOK' /\ drift \in Nat /\ Level(cred, record, drift)
    BY <1>1, <1>2 DEF StorageInv, FilesInv, DriftInv, LevelFiles
  <2>2. CASE UNCHANGED record /\ \A q \in Rps : SlotsIn(cred', q) = SlotsIn(cred, q)
    BY <2>1, <2>2, SameLevel
  <2>3. CASE Answer
    BY <2>2, <2>3 DEF Answer, storeVars, SlotsIn
  <2>4. ASSUME NEW i \in Slots, Manage(i)
        PROVE  Level(cred', record', drift) /\ Release1(creds1, record, cred', record')
    <3>1. CASE Delete(i)
      BY <2>1, <3>1, DeletedLevel
    <3>2. CASE UpdateUser(i)
      <4> DEFINE r == cred[i].rp
                 u == cred[i].user
                 k == Min(Replaceable(r, u))
      <4>1. r \in Rps /\ u \in Users
        BY <2>1, <3>2 DEF UpdateUser, UsedIn, FreeIn, StoreTypeOK
      <4>2. Replaceable(r, u) # {} /\ Write(k, r, u) /\ UNCHANGED record /\ devKey \in DeviceKeys
        BY <3>2 DEF UpdateUser, StoreOver, KeyTypeOK
      <4>3. k \in CredsOf(r)
        <5>1. Replaceable(r, u) \in SUBSET CredsOf(r) /\ CredsOf(r) \in SUBSET Slots
          BY DEF Replaceable, CredsOf, UsedIn
        <5> QED
          BY <4>2, <5>1, MinLeast
      <4> HIDE DEF r, u, k
      <4>4. \A q \in Rps : SlotsIn(cred', q) = SlotsIn(cred, q)
        BY <2>1, <4>1, <4>2, <4>3, OverwriteKeeps, RecordSlots, SlotsNext
      <4> QED
        BY <2>2, <4>2, <4>4
    <3> QED
      BY <2>4, <3>1, <3>2 DEF Manage
  <2> QED
    BY <2>3, <2>4
<1> DEFINE stages == <<Files'>>
<1>3. Files' \in InStep
  BY FilesNext DEF StorageInv, FilesInv
<1>4. /\ stages \in Seq(InStep) /\ Len(stages) = 1 /\ Release(stages)
      /\ \A k \in 1 .. 1 : stages[k].cred = cred' /\ stages[k].record = record' /\ stages[k].drift = drift'
  BY <1>1, <1>3 DEF Files
<1> HIDE DEF stages
<1>5. peak' \in Nat /\ peak <= peak'
  BY <1>1 DEF DriftInv
<1> QED
  BY <1>1, <1>2, <1>4, <1>5, DriftRelease

\* makeCredential: a new credential, counted, or one in the place of another.
LEMMA DriftMakeResident ==
    ASSUME StorageInv, StorageInv', KeyTypeOK, DriftInv, NEW r \in Rps, NEW u \in Users,
           MakeResident(r, u)
    PROVE  DriftInv'
<1>1. UNCHANGED drift /\ Crowd(r) /\ Stored(r, u) /\ counter \in Nat /\ drift \in Nat
  BY DEF MakeResident, StorageInv, FilesInv
<1>2. peak' \in Nat /\ peak <= peak' /\ HeldIn(cred')[r] <= peak' /\ peak \in Nat
  BY <1>1, CrowdGrows DEF DriftInv
<1>d. drift' = drift /\ drift \in Nat
  BY <1>1
<1>3. ASSUME peak' + drift' < ByteMod PROVE Moved
  <2> SUFFICES ASSUME NEW creds1, Behind(creds1)
               PROVE  Level(cred', record', drift) /\ Release1(creds1, record, cred', record')
    BY DEF Moved
  <2>1. peak + drift < ByteMod
    BY <1>d, <1>2, <1>3, RoomForLess
  <2>2. StoreTypeOK /\ StoreTypeOK' /\ Level(cred, record, drift)
    BY <2>1 DEF StorageInv, FilesInv, DriftInv, LevelFiles
  <2>3. CASE StoreNew(r, u) /\ HasRecordFor(r)
    <3>1. HeldIn(cred')[r] \in Nat
      BY <2>2, HeldType DEF StoreTypeOK, CredFiles, Creds
    <3>2. HeldIn(cred')[r] + drift < ByteMod
      BY <1>d, <1>2, <1>3, <3>1, RoomForLess
    <3> QED
      BY <1>1, <2>2, <2>3, <3>2, StoredLevel
  <2>4. CASE StoreOver(r, u)
    <3> DEFINE k == Min(Replaceable(r, u))
    <3>1. Replaceable(r, u) # {} /\ Write(k, r, u) /\ UNCHANGED record /\ devKey \in DeviceKeys
      BY <2>4 DEF StoreOver, KeyTypeOK
    <3>2. k \in CredsOf(r)
      <4>1. Replaceable(r, u) \in SUBSET CredsOf(r) /\ CredsOf(r) \in SUBSET Slots
        BY DEF Replaceable, CredsOf, UsedIn
      <4> QED
        BY <3>1, <4>1, MinLeast
    <3> HIDE DEF k
    <3>3. \A q \in Rps : SlotsIn(cred', q) = SlotsIn(cred, q)
      BY <2>2, <3>1, <3>2, OverwriteKeeps, RecordSlots, SlotsNext
    <3> QED
      BY <1>1, <2>2, <3>1, <3>3, SameLevel
  <2> QED
    BY <1>1, <2>3, <2>4 DEF Stored
<1> DEFINE first == [Files' EXCEPT !.counter = counter]
           stages == <<first, Files'>>
<1>4. first \in InStep /\ Files' \in InStep
  BY <1>1, FilesNext DEF StorageInv, FilesInv
<1>5. /\ first.cred = cred' /\ first.record = record' /\ first.drift = drift'
      /\ Files'.cred = cred' /\ Files'.record = record' /\ Files'.drift = drift'
  BY DEF Files
<1>6. Release(stages)
  BY DEF MakeResident
<1> HIDE DEF first
<1>7. stages \in Seq(InStep) /\ Len(stages) = 2 /\ stages[1] = first /\ stages[2] = Files'
  BY <1>4
<1> HIDE DEF stages
<1>8. \A k \in 1 .. Len(stages) : stages[k].cred = cred' /\ stages[k].record = record' /\ stages[k].drift = drift'
  <2>1. \A k \in 1 .. 2 : k = 1 \/ k = 2
    OBVIOUS
  <2> QED
    BY <1>5, <1>7, <2>1
<1>9. Len(stages) > 0
  BY <1>7
<1> QED
  BY <1>d, <1>2, <1>3, <1>6, <1>7, <1>8, <1>9, DriftRelease

\* The refusals release nothing; one of them leaves a credential in the files.
LEMMA DriftRefused ==
    ASSUME StorageInv, StorageInv', KeyTypeOK, DriftInv, NEW r \in Rps, NEW u \in Users,
           MakeRefusedFull(r, u) \/ MakeRefusedUnlisted(r, u)
    PROVE  DriftInv'
<1>1. UNCHANGED <<flashed, pending, drift>>
  BY DEF MakeRefusedFull, MakeRefusedUnlisted
<1>2. \A k : Written(k)' = Written(k)
  BY <1>1 DEF Written
<1>3. CASE MakeRefusedFull(r, u)
  <2>1. UNCHANGED <<cred, record, peak>>
    BY <1>3 DEF MakeRefusedFull, storeVars
  <2> QED
    BY <1>1, <2>1 DEF DriftInv, LastRelease, LevelFiles, Written
<1>4. CASE MakeRefusedUnlisted(r, u)
  <2>1. peak' \in Nat /\ peak <= peak' /\ peak \in Nat /\ drift \in Nat /\ drift' = drift
    BY <1>1, <1>4, CrowdGrows DEF MakeRefusedUnlisted, DriftInv, StorageInv, FilesInv
  <2>2. UNCHANGED record /\ \A q \in Rps : SlotsIn(cred, q) \subseteq SlotsIn(cred', q)
    <3>1. /\ UNCHANGED record
          /\ Min(FreeIn(cred)) \in FreeIn(cred) /\ Write(Min(FreeIn(cred)), r, u) /\ StoreTypeOK
          /\ devKey \in DeviceKeys
      BY <1>4, MinLeast DEF MakeRefusedUnlisted, HasRecordFor, StoreNew, Counted, FreeIn, StorageInv, FilesInv,
         KeyTypeOK
    <3> QED
      BY <3>1, WriteAdds, RecordSlots, SlotsNext
  <2>3. ASSUME peak' + drift' < ByteMod PROVE LevelFiles'
    <3>1. peak + drift < ByteMod
      BY <2>1, <2>3, RoomForLess
    <3>2. LevelFiles
      BY <3>1 DEF DriftInv
    <3>3. Level(cred', record', drift)
      BY <1>4, <2>1, <3>2, UnlistedLevel DEF MakeRefusedUnlisted, LevelFiles, StorageInv, FilesInv
    <3> QED
      BY <1>1, <3>2, <3>3 DEF LevelFiles, Written
  <2>4. LastRelease'
    <3>1. Written(Len(pending))' = Written(Len(pending))
      BY <1>1 DEF Written
    <3> QED
      BY <2>2, <3>1 DEF DriftInv, LastRelease, SlotsIn
  <2> QED
    BY <1>1, <2>1, <2>3, <2>4 DEF DriftInv, Written
<1> QED
  BY <1>3, <1>4

\* Erased files have nothing to count.
LEMMA EmptyLevel ==
    Level([i \in Slots |-> Empty], [i \in Slots |-> Empty], 0)
<1> DEFINE none == [i \in Slots |-> Empty]
<1>1. none \in CredFiles /\ none \in RecordFiles
  BY DEF CredFiles, RecordFiles
<1>2. \A q \in Rps : SlotsIn(none, q) = {}
  BY DEF SlotsIn
<1>3. \A q \in Rps : HeldIn(none)[q] = 0 /\ CountIn(none)[q] = 0
  BY <1>2, FS_EmptySet DEF HeldIn, CountIn
<1>4. Over(HeldIn(none), CountIn(none)) = {} /\ Over(CountIn(none), HeldIn(none)) = {}
  <2>1. \A p \in Units : p[1] \in Rps /\ p[2] \in Nat /\ p[2] > 0
    BY SlotAssumption DEF Units
  <2>2. \A p \in Units : ~(0 + p[2] <= 0)
    BY <2>1
  <2> QED
    BY <1>3, <2>1, <2>2 DEF Over
<1>5. Unique(none)
  BY DEF Unique
<1> HIDE DEF none
<1>6. Level(none, none, 0)
  BY <1>4, <1>5, FS_EmptySet DEF Level
<1> QED
  BY <1>6 DEF none

\* After a reset, and on the first start.
Blank ==
    /\ cred = [i \in Slots |-> Empty] /\ record = [i \in Slots |-> Empty]
    /\ drift = 0 /\ peak = 0 /\ flashed = Files /\ pending = <<>>

\* Files that were just erased are level.
LEMMA DriftBlank == Blank => DriftInv
<1> SUFFICES ASSUME Blank PROVE DriftInv
  OBVIOUS
<1>1. \A k \in 0 .. Len(pending) : Written(k) = Files
  BY DEF Blank, Written
<1>2. 0 .. Len(pending) = {0} /\ 1 .. Len(pending) = {} /\ Len(pending) = 0
  BY DEF Blank
<1>3. Files.cred = cred /\ Files.record = record /\ Files.drift = drift
  BY DEF Files
<1>4. LevelFiles
  BY <1>1, <1>2, <1>3, EmptyLevel DEF Blank, LevelFiles
<1>5. LastRelease
  BY <1>1, <1>2, <1>3 DEF LastRelease
<1> QED
  BY <1>1, <1>3, <1>4, <1>5 DEF Blank, DriftInv

\* The same of the next state.
LEMMA DriftBlankNext == Blank' => DriftInv'
BY DriftBlank, PTL

\* The oldest release is on the flash; what is left to write is one less.
LEMMA DriftFlush == ASSUME StorageInv, DriftInv, Flush PROVE DriftInv'
<1>1. /\ pending \in Seq(InStep) /\ pending # <<>>
      /\ flashed' = Head(pending) /\ pending' = Tail(pending)
      /\ UNCHANGED <<cred, record, drift, peak>>
  BY DEF StorageInv, Flush, storeVars
<1>2. PICK n \in Nat : n = Len(pending)
  BY <1>1
<1>3. /\ n > 0 /\ flashed' = pending[1] /\ Len(pending') = n - 1
      /\ \A k \in 1 .. (n - 1) : pending'[k] = pending[k + 1]
  BY <1>1, <1>2, EmptySeq, HeadTailProperties
<1>4. ASSUME NEW k \in 0 .. (n - 1) PROVE Written(k)' = Written(k + 1) /\ k + 1 \in 1 .. n
  BY <1>2, <1>3 DEF Written
<1>5. \A k \in 0 .. (n - 1) : Written(k)'.drift = drift'
  <2>1. \A k \in 0 .. n : Written(k).drift = drift
    BY <1>2 DEF DriftInv
  <2>2. \A k \in 1 .. n : k \in 0 .. n
    OBVIOUS
  <2> QED
    BY <1>1, <1>4, <2>1, <2>2
<1>6. LastRelease'
  <2>1. PICK m : m = n - 1
    OBVIOUS
  <2>2. m \in 0 .. (n - 1) /\ m + 1 = n
    BY <1>3, <2>1
  <2>3. Written(Len(pending))' = Written(m)'
    BY <1>3, <2>1 DEF Written
  <2>4. Written(Len(pending))' = Written(Len(pending))
    BY <1>2, <1>4, <2>2, <2>3
  <2> QED
    BY <1>1, <2>4 DEF DriftInv, LastRelease, SlotsIn
<1>7. ASSUME peak' + drift' < ByteMod PROVE LevelFiles'
  <2>1. LevelFiles
    BY <1>1, <1>7 DEF DriftInv
  <2>2. ASSUME NEW k \in 0 .. (n - 1) PROVE Level(Written(k)'.cred, Written(k)'.record, drift')
    <3>1. k + 1 \in 0 .. n
      OBVIOUS
    <3> QED
      BY <1>1, <1>2, <1>4, <2>1, <3>1 DEF LevelFiles
  <2>3. ASSUME NEW k \in 1 .. (n - 1)
        PROVE  TornLevel(Written(k - 1)'.cred, Written(k - 1)'.record, Written(k)'.cred, Written(k)'.record, drift')
    <3>1. k \in 0 .. (n - 1) /\ k - 1 \in 0 .. (n - 1) /\ k + 1 \in 1 .. n /\ (k - 1) + 1 = (k + 1) - 1
      OBVIOUS
    <3>2. Written(k)' = Written(k + 1) /\ Written(k - 1)' = Written((k + 1) - 1)
      BY <1>4, <3>1
    <3> QED
      BY <1>1, <1>2, <2>1, <3>1, <3>2 DEF LevelFiles
  <2> QED
    BY <1>1, <1>3, <2>1, <2>2, <2>3 DEF LevelFiles
<1>8. peak' \in Nat
  BY <1>1 DEF DriftInv
<1> QED
  BY <1>3, <1>5, <1>6, <1>7, <1>8 DEF DriftInv

\* What is left of a torn release: each slot as before or after it, and one
\* file more out of step.
LEMMA TornFiles ==
    ASSUME StorageInv, NEW k \in 1 .. Len(pending), NEW left \in TornAt(k)
    PROVE  /\ left.cred \in CredFiles /\ left.record \in RecordFiles /\ left.drift \in Nat
           /\ Mix(Written(k - 1).cred, Written(k).cred, left.cred)
           /\ Mix(Written(k - 1).record, Written(k).record, left.record)
           /\ Written(k - 1).drift + 1 <= left.drift
<1>1. k \in 0 .. Len(pending) /\ k - 1 \in 0 .. Len(pending) /\ Written(k) = pending[k]
  BY DEF StorageInv, Written
<1>2. Written(k - 1).drift \in Nat
  BY <1>1, StagesTyped DEF Contents
<1>3. left \in Contents
  BY TornContents DEF InStep
<1>4. PICK new \in (SUBSET Changed(k)) \ {{}, Changed(k)} :
          left = [cred    |-> Part(k, new, "cred"),
                  record  |-> Part(k, new, "record"),
                  counter |-> IF <<"counter", 0>> \in new THEN pending[k].counter
                              ELSE Written(k - 1).counter,
                  drift   |-> Written(k - 1).drift + Cardinality(Changed(k)) - 1]
  BY DEF TornAt
<1>5. left.cred = Part(k, new, "cred") /\ left.record = Part(k, new, "record")
      /\ left.drift = Written(k - 1).drift + Cardinality(Changed(k)) - 1
  BY <1>4
<1>6. Cardinality(Changed(k)) \in Nat /\ Cardinality(Changed(k)) >= 2
  BY ChangedFinite, TornLeavesOne
<1>7. Written(k - 1).drift + 1 <= left.drift
  BY <1>2, <1>5, <1>6
<1>8. /\ Mix(Written(k - 1).cred, Written(k).cred, left.cred)
      /\ Mix(Written(k - 1).record, Written(k).record, left.record)
  BY <1>1, <1>5 DEF Mix, Part
<1> QED
  BY <1>3, <1>7, <1>8 DEF Contents, CredFiles, RecordFiles

\* After a cut the files are those of a release, or of a torn one.
LEMMA DriftPowerCut == ASSUME StorageInv, StorageInv', DriftInv, PowerCut PROVE DriftInv'
<1>0. PICK n \in Nat : n = Len(pending)
  BY DEF StorageInv
<1>1. PICK k \in 0 .. n :
          \E left \in {Written(k)} \cup (IF k < n THEN TornAt(k + 1) ELSE {}) :
              /\ cred' = left.cred /\ record' = left.record /\ drift' = left.drift
              /\ flashed' = left /\ pending' = <<>> /\ UNCHANGED peak
  BY <1>0 DEF PowerCut
<1>2. PICK left \in {Written(k)} \cup (IF k < n THEN TornAt(k + 1) ELSE {}) :
          /\ cred' = left.cred /\ record' = left.record /\ drift' = left.drift
          /\ flashed' = left /\ pending' = <<>> /\ UNCHANGED peak
  BY <1>1
<1>3. peak \in Nat /\ peak' = peak /\ drift \in Nat /\ Written(k).drift = drift
  BY <1>0, <1>2 DEF DriftInv, StorageInv, FilesInv
<1>4. drift' \in Nat /\ cred' \in CredFiles /\ record' \in RecordFiles
  BY DEF StorageInv, FilesInv, StoreTypeOK, CredFiles, RecordFiles, Creds, Records
<1>5. ASSUME peak' + drift' < ByteMod PROVE Level(cred', record', drift')
  <2>1. CASE left = Written(k)
    <3>1. drift' = drift
      BY <1>2, <1>3, <2>1
    <3>2. LevelFiles
      BY <1>3, <1>5, <3>1 DEF DriftInv
    <3> QED
      BY <1>0, <1>2, <2>1, <3>1, <3>2 DEF LevelFiles
  <2>2. CASE k < n /\ left \in TornAt(k + 1)
    <3> DEFINE j == k + 1
    <3>1. j \in 1 .. Len(pending) /\ j - 1 = k
      BY <1>0, <2>2
    <3>2. left \in TornAt(j)
      BY <2>2
    <3> HIDE DEF j
    <3>3. /\ Mix(Written(j - 1).cred, Written(j).cred, left.cred)
          /\ Mix(Written(j - 1).record, Written(j).record, left.record)
          /\ Written(j - 1).drift + 1 <= left.drift
      BY <3>1, <3>2, TornFiles
    <3>4. drift + 1 <= drift'
      BY <1>2, <1>3, <3>1, <3>3
    <3>5. drift <= drift' /\ drift + 1 \in Nat
      BY <1>3, <1>4, <3>4
    <3>6. drift + peak < ByteMod
      <4>1. drift' + peak < ByteMod
        BY <1>3, <1>4, <1>5
      <4> QED
        BY <1>3, <1>4, <3>5, <4>1, RoomForLess
    <3>7. LevelFiles
      BY <1>3, <3>6 DEF DriftInv
    <3>8. TornLevel(Written(j - 1).cred, Written(j - 1).record, Written(j).cred, Written(j).record, drift)
      BY <3>1, <3>7 DEF LevelFiles
    <3>9. Level(cred', record', drift + 1)
      BY <1>2, <1>4, <3>3, <3>8 DEF TornLevel
    <3> QED
      BY <1>4, <3>4, <3>5, <3>9, LevelGrows
  <2> QED
    BY <2>1, <2>2
<1>6. Len(pending') = 0 /\ 0 .. 0 = {0} /\ 1 .. 0 = {}
  BY <1>2
<1>7. Written(0)' = left /\ Written(Len(pending))' = left
  BY <1>2, <1>6 DEF Written
<1>8. LastRelease'
  BY <1>2, <1>7 DEF LastRelease
<1>9. ASSUME peak' + drift' < ByteMod PROVE LevelFiles'
  <2>1. \A i \in 0 .. 0 : Level(Written(i)'.cred, Written(i)'.record, drift')
    BY <1>2, <1>5, <1>6, <1>7, <1>9
  <2>2. \A i \in 1 .. 0 : FALSE
    BY <1>6
  <2> QED
    BY <1>5, <1>6, <1>9, <2>1, <2>2 DEF LevelFiles
<1>10. \A i \in 0 .. 0 : Written(i)'.drift = drift'
  BY <1>2, <1>6, <1>7
<1> QED
  BY <1>3, <1>6, <1>8, <1>9, <1>10 DEF DriftInv

\* Every step keeps the files level.
LEMMA DriftStep == StorageInv /\ StorageInv' /\ KeyTypeOK /\ DriftInv /\ [StorageNext]_cvars => DriftInv'
<1> SUFFICES ASSUME StorageInv, StorageInv', KeyTypeOK, DriftInv, [StorageNext]_cvars PROVE DriftInv'
  OBVIOUS
<1>1. CASE Answer \/ \E i \in Slots : Manage(i)
  BY <1>1, DriftOneRelease
<1>2. ASSUME NEW r \in Rps, NEW u \in Users, MakeResident(r, u) PROVE DriftInv'
  BY <1>2, DriftMakeResident
<1>3. ASSUME NEW r \in Rps, NEW u \in Users, MakeRefusedFull(r, u) \/ MakeRefusedUnlisted(r, u)
      PROVE  DriftInv'
  BY <1>3, DriftRefused
<1>4. CASE Erase
  BY <1>4, DriftBlankNext DEF Erase, EraseStore, Blank
<1>5. CASE Flush
  BY <1>5, DriftFlush
<1>6. CASE PowerCut
  BY <1>6, DriftPowerCut
<1>7. CASE UseOtherKey \/ UNCHANGED cvars
  <2>1. UNCHANGED <<cred, record, flashed, pending, drift, peak>>
    BY <1>7 DEF UseOtherKey, KeyChanges, cvars, storeVars
  <2> QED
    BY <2>1 DEF DriftInv, LastRelease, LevelFiles, Written, SlotsIn
<1> QED
  BY <1>1, <1>2, <1>3, <1>4, <1>5, <1>6, <1>7 DEF StorageNext

\* Files level up to drift count each relying party's credentials up to it.
LEMMA LevelIsDrift == StorageInv /\ DriftInv => DriftOnlyByCuts
<1> SUFFICES ASSUME StorageInv, DriftInv, peak + drift < ByteMod, NEW r \in Rps
             PROVE  /\ CountOf(r) <= Cardinality(CredsOf(r)) + drift
                    /\ Cardinality(CredsOf(r)) <= CountOf(r) + drift
  BY DEF DriftOnlyByCuts
<1> DEFINE H == HeldIn(cred)
           C == CountIn(record)
           x == Cardinality(Over(H, C))
           y == Cardinality(Over(C, H))
<1>1. cred \in CredFiles /\ record \in RecordFiles /\ drift \in Nat
  BY DEF StorageInv, FilesInv, StoreTypeOK, CredFiles, RecordFiles, Creds, Records
<1>2. H[r] = Cardinality(CredsOf(r)) /\ C[r] = CountOf(r)
  BY RecordSlots DEF HeldIn, CountIn, CountOf
<1>3. /\ H \in [Rps -> 0 .. ByteMod] /\ H \in [Rps -> Nat]
      /\ C \in [Rps -> 0 .. ByteMod] /\ C \in [Rps -> Nat]
      /\ IsFiniteSet(Over(H, C)) /\ IsFiniteSet(Over(C, H)) /\ x \in Nat /\ y \in Nat
  BY <1>1, HeldType, CountType, FilesFinite
<1>4. x <= drift /\ y <= drift
  BY DEF DriftInv, LevelFiles, Level
<1> HIDE DEF H, C
<1>5. H[r] <= C[r] + x /\ C[r] <= H[r] + y
  BY <1>3, OverBounds
<1> HIDE DEF x, y
<1>6. H[r] \in Nat /\ C[r] \in Nat
  BY <1>3
<1>7. H[r] <= C[r] + drift /\ C[r] <= H[r] + drift
  BY <1>1, <1>3, <1>4, <1>5, <1>6
<1> QED
  BY <1>2, <1>7

\* However many stores, deletions, refusals and cuts there were, a relying
\* party's count is its number of credentials up to the files that torn
\* releases left out of step (credential_store, deleteCredential), until one
\* has more credentials than a byte counts.
THEOREM CutsBoundTheDrift == StorageSpec => []DriftOnlyByCuts
<1>1. StorageInit => DriftInv
  BY DriftBlank DEF StorageInit, StoreInit, Blank
<1> QED
  BY <1>1, StorageInvariant, DriftStep, LevelIsDrift, PTL DEF StorageSpec
=============================================================================
