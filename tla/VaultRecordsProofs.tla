------------------------- MODULE VaultRecordsProofs -------------------------
(***************************************************************************)
(* A vault's records come back as they were stored, for any names, values  *)
(* and bucket, whatever is added, replaced, removed, saved, locked and     *)
(* migrated, and their file tells of their number the bucket only.         *)
(*                                                                         *)
(* What an image shows was put together at the save, from what the session *)
(* was given since it was unlocked, from an image: neither half of the     *)
(* inductive invariant stands alone. `Session` is about the vault in       *)
(* memory, `ImageHolds` about the file.                                    *)
(***************************************************************************)
EXTENDS VaultRecords, FiniteSetTheorems, TLAPS

(* The names f gives a value.                                               *)
Held(f) == {n \in Names : f[n] # NoValue}

(* One record for each name the session holds, with the value it was given  *)
(* last, under the current version.                                         *)
Session ==
  /\ version = FORMAT_VERSION
  /\ \A r \in records :
       /\ r.name \in Held(latest) /\ r.value.data = latest[r.name]
       /\ r.value.ver = FORMAT_VERSION
  /\ \A n \in Held(latest) : \E r \in records : r.name = n
  /\ \A r, s \in records : r.name = s.name => r = s

Real(i) == {w \in i.raws : IsRecord(w)}

(* The same of the file: and all of it is sealed under the key of its MAC   *)
(* and its own version, tombstones too, which fill it up to whole buckets.  *)
ImageHolds(i, f) ==
  /\ \A w \in i.raws : w.name.key = i.mac /\ w.name.ver = i.version /\ w.value.ver = i.version
  /\ \A w \in Real(i) : w.name.data \in Held(f) /\ w.value.data = f[w.name.data]
  /\ \A n \in Held(f) : \E w \in Real(i) : w.name.data = n
  /\ \A w, x \in Real(i) : w.name.data = x.name.data => w = x
  /\ i.version = FORMAT_VERSION =>
       Cardinality(i.raws) = PaddedLen(Cardinality(Held(f)), CountBucket)

IInv ==
  /\ TypeOK
  /\ Session
  /\ image # NoImage => ImageHolds(image, stored)

-----------------------------------------------------------------------------
(* Counting                                                                 *)

(* Ceiling is the least number of buckets that hold n.                      *)
LEMMA CeilingFits ==
  ASSUME NEW n \in Nat, NEW b \in Nat \ {0}
  PROVE  /\ Ceiling(n, b) \in Nat
         /\ b * Ceiling(n, b) >= n
         /\ n > 0 => b * (Ceiling(n, b) - 1) < n
BY DEF Ceiling

(* A padded length is one of full buckets, and no shorter than what it pads.*)
LEMMA PaddedFits ==
  ASSUME NEW n \in Nat, NEW b \in Nat \ {0}
  PROVE  PaddedLen(n, b) \in Nat /\ PaddedLen(n, b) >= n
BY CeilingFits DEF PaddedLen

(* What is matched one to one with a finite set has as many members.        *)
LEMMA Matched ==
  ASSUME NEW S, NEW T, IsFiniteSet(T), NEW f \in [S -> T],
         \A x, y \in S : f[x] = f[y] => x = y,
         \A t \in T : \E x \in S : f[x] = t
  PROVE  IsFiniteSet(S) /\ Cardinality(S) = Cardinality(T)
<1>1. f \in Injection(S, T) /\ f \in Surjection(S, T)
  BY DEF Injection, Surjection, IsInjective
<1>2. QED
  BY <1>1, FS_Injection

(* There are finitely many names, so what f holds can be counted.           *)
LEMMA HeldFinite ==
  ASSUME NEW f
  PROVE  IsFiniteSet(Held(f)) /\ Cardinality(Held(f)) \in Nat
<1>1. Held(f) \in SUBSET Names
  BY DEF Held
<1>2. QED
  BY <1>1, RecordsAssumption, FS_Subset, FS_CardinalityType

(* A session has as many records as names.                                  *)
LEMMA RecordsCounted ==
  ASSUME Session
  PROVE  IsFiniteSet(records) /\ Cardinality(records) = Cardinality(Held(latest))
<1> DEFINE f == [r \in records |-> r.name]
<1>1. f \in [records -> Held(latest)]
  BY DEF Session
<1>2. /\ \A r, s \in records : f[r] = f[s] => r = s
      /\ \A n \in Held(latest) : \E r \in records : f[r] = n
  BY DEF Session
<1> HIDE DEF f
<1>3. QED
  BY <1>1, <1>2, HeldFinite, Matched

(* There are as many tombstones as were asked for: their ids differ.        *)
LEMMA TombstonesCounted ==
  ASSUME NEW m \in Nat, NEW k, NEW v
  PROVE  /\ IsFiniteSet({Tombstone(i, k, v) : i \in 1 .. m})
         /\ Cardinality({Tombstone(i, k, v) : i \in 1 .. m}) = m
<1> DEFINE S == {Tombstone(i, k, v) : i \in 1 .. m}
           f == [w \in S |-> w.pad]
<1>1. \A w \in S : w.pad \in 1 .. m /\ w = Tombstone(w.pad, k, v)
  BY DEF Tombstone
<1>2. \A i \in 1 .. m : Tombstone(i, k, v) \in S /\ Tombstone(i, k, v).pad = i
  BY DEF Tombstone
<1>3. IsFiniteSet(1 .. m) /\ Cardinality(1 .. m) = m
  BY FS_Interval
<1>4. f \in [S -> 1 .. m] /\ \A w \in S : f[w] = w.pad
  BY <1>1
<1>5. \A i \in 1 .. m : \E w \in S : f[w] = i
  BY <1>2, <1>4
<1>6. \A w, x \in S : f[w] = f[x] => w = x
  BY <1>1, <1>4
<1> HIDE DEF S, f
<1>7. IsFiniteSet(S) /\ Cardinality(S) = m
  BY <1>3, <1>4, <1>5, <1>6, Matched
<1>8. QED
  BY <1>7 DEF S

(* Sealing the names for the file loses no record.                          *)
LEMMA RawsCounted ==
  ASSUME NEW R, IsFiniteSet(R), \A r, s \in R : r.name = s.name => r = s, NEW k, NEW v
  PROVE  /\ IsFiniteSet({Raw(r, k, v) : r \in R})
         /\ Cardinality({Raw(r, k, v) : r \in R}) = Cardinality(R)
<1> DEFINE S == {Raw(r, k, v) : r \in R}
           f == [r \in R |-> Raw(r, k, v)]
<1>1. f \in [R -> S] /\ \A r \in R : f[r] = Raw(r, k, v)
  OBVIOUS
<1>2. \A r \in R : Raw(r, k, v).name.data = r.name
  BY DEF Raw, Sealed
<1>3. \A r, s \in R : f[r] = f[s] => r = s
  BY <1>1, <1>2
<1>4. \A w \in S : \E r \in R : f[r] = w
  BY <1>1
<1> HIDE DEF S, f
<1>5. f \in Bijection(R, S)
  BY <1>1, <1>3, <1>4 DEF Bijection, Injection, Surjection, IsInjective
<1>6. IsFiniteSet(S) /\ Cardinality(S) = Cardinality(R)
  BY <1>5, FS_Bijection DEF ExistsBijection
<1>7. QED
  BY <1>6 DEF S

-----------------------------------------------------------------------------
(* What is written                                                          *)

(* A save's raw records, before they are counted.                           *)
SavedRaws(k) ==
  {Raw(r, k, version) : r \in records} \cup Padding(Cardinality(records), k, version)

(* Sealed terms are typed.                                                  *)
LEMMA SealedTypes ==
  ASSUME NEW k \in Keys, NEW v \in Versions
  PROVE  /\ \A x \in Values \cup {NoValue} : Sealed(k, v, x) \in SealedValues
         /\ \A x \in Names \cup {NoName} : Sealed(k, v, x) \in SealedNames
         /\ \A r \in Records : Raw(r, k, v) \in RawRecords
         /\ \A i \in Nat : Tombstone(i, k, v) \in RawRecords
<1>1. /\ \A x \in Values \cup {NoValue} : Sealed(k, v, x) \in SealedValues
      /\ \A x \in Names \cup {NoName} : Sealed(k, v, x) \in SealedNames
  BY DEF Sealed, SealedValues, SealedNames
<1>2. QED
  BY <1>1 DEF Raw, Tombstone, Records, RawRecords

(* A name that is sealed with its record is one, a tombstone's is none.     *)
LEMMA NamesTold ==
  ASSUME NEW k, NEW v
  PROVE  /\ \A r : Raw(r, k, v).name.data = r.name /\ Raw(r, k, v).value = r.value
                   /\ Raw(r, k, v).name.key = k /\ Raw(r, k, v).name.ver = v
         /\ \A r : r.name \in Names => IsRecord(Raw(r, k, v))
         /\ \A i : ~IsRecord(Tombstone(i, k, v))
<1>1. \A r : Raw(r, k, v).name.data = r.name /\ Raw(r, k, v).value = r.value
             /\ Raw(r, k, v).name.key = k /\ Raw(r, k, v).name.ver = v
  BY DEF Raw, Sealed
<1>2. \A i : Tombstone(i, k, v).name.data = NoName
  BY DEF Tombstone, Sealed
<1>3. QED
  BY <1>1, <1>2, RecordsAssumption DEF IsRecord

(* A save writes the records of the session, and fills them up.             *)
LEMMA SaveHolds ==
  ASSUME IInv, NEW k \in Keys
  PROVE  LET i == [version |-> version, mac |-> k, raws |-> SavedRaws(k)]
         IN  i \in Images /\ ImageHolds(i, latest)
<1> DEFINE i == [version |-> version, mac |-> k, raws |-> SavedRaws(k)]
           c == Cardinality(records)
           R == {Raw(r, k, version) : r \in records}
           P == Padding(c, k, version)
<1>1. version = FORMAT_VERSION /\ version \in Versions /\ records \subseteq Records
  BY DEF IInv, Session, TypeOK
<1>2. IsFiniteSet(records) /\ c \in Nat /\ c = Cardinality(Held(latest))
  BY RecordsCounted, HeldFinite DEF IInv
<1>3. \A r \in records : r.name \in Names
  BY DEF IInv, Session, Held
<1>4. i.version = version /\ i.mac = k /\ i.raws = R \cup P
  BY DEF SavedRaws
<1>5. P = {Tombstone(j, k, version) : j \in 1 .. PaddedLen(c, CountBucket) - c}
  BY DEF Padding
<1>6. \A w \in P : ~IsRecord(w)
  BY <1>5, NamesTold
<1>7. \A w \in R : IsRecord(w)
  BY <1>3, NamesTold
<1>8. PaddedLen(c, CountBucket) \in Nat /\ PaddedLen(c, CountBucket) - c \in Nat
  BY <1>2, PaddedFits, RecordsAssumption
<1>9. i \in Images
  <2>1. R \subseteq RawRecords
    BY <1>1, SealedTypes
  <2>2. P \subseteq RawRecords
    BY <1>1, <1>5, SealedTypes
  <2>3. QED
    BY <1>1, <1>4, <2>1, <2>2 DEF Images, SavedRaws
<1>10. ASSUME NEW w \in i.raws
       PROVE  w.name.key = k /\ w.name.ver = version /\ w.value.ver = version
  <2>1. CASE w \in R
    BY <1>1, <2>1, NamesTold DEF IInv, Session
  <2>2. CASE w \in P
    BY <1>5, <2>2 DEF Tombstone, Sealed
  <2>3. QED
    BY <1>4, <2>1, <2>2
<1>11. Real(i) = R
  BY <1>4, <1>6, <1>7 DEF Real
<1>12. Cardinality(i.raws) = PaddedLen(c, CountBucket)
  <2>1. IsFiniteSet(R) /\ Cardinality(R) = c
    BY <1>2, RawsCounted DEF IInv, Session
  <2>2. IsFiniteSet(P) /\ Cardinality(P) = PaddedLen(c, CountBucket) - c
    BY <1>5, <1>8, TombstonesCounted
  <2>3. R \cap P = {}
    BY <1>6, <1>7
  <2> HIDE DEF R, P, i, c
  <2>4. Cardinality(R \cup P) = c + (PaddedLen(c, CountBucket) - c) - 0
    BY <2>1, <2>2, <2>3, FS_Union, FS_EmptySet
  <2>5. \A a, b \in Nat : a + (b - a) - 0 = b
    OBVIOUS
  <2>6. QED
    BY <1>2, <1>4, <1>8, <2>4, <2>5
<1> HIDE DEF i
<1>13. \A w \in R : w.name.data \in Held(latest) /\ w.value.data = latest[w.name.data]
  BY NamesTold DEF IInv, Session
<1>14. ASSUME NEW n \in Held(latest) PROVE \E w \in R : w.name.data = n
  <2>1. PICK r \in records : r.name = n
    BY DEF IInv, Session
  <2>2. Raw(r, k, version) \in R /\ Raw(r, k, version).name.data = n
    BY <2>1, NamesTold
  <2>3. QED
    BY <2>2
<1>15. \A w, x \in R : w.name.data = x.name.data => w = x
  BY NamesTold DEF IInv, Session
<1> HIDE DEF R
<1>16. ImageHolds(i, latest)
  BY <1>2, <1>4, <1>10, <1>11, <1>12, <1>13, <1>14, <1>15 DEF ImageHolds
<1>17. QED
  BY <1>9, <1>16 DEF i

(* So do the images of format 2 that older programs left.                   *)
LEMMA FormatTwoHolds ==
  ASSUME NEW f \in Contents
  PROVE  FormatTwo(f) \in Images /\ ImageHolds(FormatTwo(f), f)
<1> DEFINE i == FormatTwo(f)
           r(n) == [name |-> n, value |-> Sealed("dek", 2, f[n])]
           w(n) == Raw(r(n), "dek", 2)
<1>1. i.version = 2 /\ i.mac = "dek" /\ i.raws = {w(n) : n \in Held(f)}
      /\ i = [version |-> 2, mac |-> "dek", raws |-> i.raws]
  BY DEF FormatTwo, Held
<1>2. \A n \in Held(f) : n \in Names /\ f[n] \in Values
  BY DEF Held, Contents
<1>3. "dek" \in Keys /\ 2 \in Versions
  BY DEF Keys, Versions
<1>4. ASSUME NEW n \in Held(f)
      PROVE  /\ w(n) \in RawRecords
             /\ w(n).name.key = "dek" /\ w(n).name.ver = 2 /\ w(n).value.ver = 2
             /\ w(n).name.data = n /\ w(n).value.data = f[n]
             /\ IsRecord(w(n))
  <2>1. r(n).name = n /\ r(n).value = Sealed("dek", 2, f[n]) /\ r(n) \in Records
    BY <1>2, <1>3, SealedTypes DEF Records
  <2> HIDE DEF r
  <2>2. Sealed("dek", 2, f[n]).ver = 2 /\ Sealed("dek", 2, f[n]).data = f[n]
    BY DEF Sealed
  <2>3. QED
    BY <1>2, <1>3, <2>1, <2>2, NamesTold, SealedTypes
<1> HIDE DEF i, w, r
<1>5. i \in Images
  <2>1. i.raws \in SUBSET RawRecords
    BY <1>1, <1>4
  <2>2. QED
    BY <1>1, <1>3, <2>1 DEF Images
<1>6. Real(i) = i.raws
  BY <1>1, <1>4 DEF Real
<1>7. ImageHolds(i, f)
  BY <1>1, <1>4, <1>6 DEF ImageHolds, FORMAT_VERSION
<1>8. QED
  BY <1>5, <1>7 DEF i

-----------------------------------------------------------------------------
(* The steps                                                                *)

LEMMA IInvInit == Init => IInv
<1> SUFFICES ASSUME Init PROVE IInv
  OBVIOUS
<1>1. NoNames \in Contents /\ Held(NoNames) = {}
  BY DEF NoNames, Contents, Held
<1>2. Session
  BY <1>1 DEF Init, Session
<1>3. CASE image = NoImage /\ stored = NoNames
  BY <1>1, <1>2, <1>3 DEF Init, IInv, TypeOK, Versions
<1>4. CASE stored \in Contents /\ image = FormatTwo(stored)
  BY <1>1, <1>2, <1>4, FormatTwoHolds DEF Init, IInv, TypeOK, Versions
<1>5. QED
  BY <1>3, <1>4 DEF Init

(* An empty session is good, and leaves the file alone.                     *)
LEMMA EmptySession ==
  ASSUME IInv, records' = {}, latest' = NoNames, version' = FORMAT_VERSION,
         vault' \in {"none", "unlocked", "locked"}, UNCHANGED <<image, stored>>
  PROVE  IInv'
<1>1. NoNames \in Contents /\ Held(NoNames) = {}
  BY DEF NoNames, Contents, Held
<1>2. Session'
  BY <1>1 DEF Session
<1>3. TypeOK'
  BY <1>1 DEF IInv, TypeOK, Versions
<1>4. (image # NoImage => ImageHolds(image, stored))'
  BY DEF IInv
<1>5. QED
  BY <1>2, <1>3, <1>4 DEF IInv

(* What is unlocked is what the image holds, and a value of format 2 comes  *)
(* out sealed under the version the vault has now.                          *)
LEMMA UnlockedHolds ==
  ASSUME NEW i \in Images, NEW f \in Contents, ImageHolds(i, f), Unlocks(i)
  PROVE  /\ Unlocked(i) \subseteq Records
         /\ \A r \in Unlocked(i) :
              /\ r.name \in Held(f) /\ r.value.data = f[r.name]
              /\ r.value.ver = FORMAT_VERSION
         /\ \A n \in Held(f) : \E r \in Unlocked(i) : r.name = n
         /\ \A r, s \in Unlocked(i) : r.name = s.name => r = s
<1> DEFINE Opened(w) == [name |-> w.name.data,
             value |-> IF i.version = 2 THEN MigratedValue(w.value) ELSE w.value]
<1>1. Unlocked(i) = {Opened(w) : w \in Real(i)}
  BY DEF Unlocked, Real
<1>2. i.version \in {2, FORMAT_VERSION} /\ i.raws \subseteq RawRecords
  BY DEF Images, Versions
<1>3. ASSUME NEW w \in Real(i)
      PROVE  /\ Opened(w).name = w.name.data /\ Opened(w) \in Records
             /\ Opened(w).value.data = f[w.name.data]
             /\ Opened(w).value.ver = FORMAT_VERSION
             /\ w.name.data \in Held(f)
  <2>1. w \in i.raws /\ w \in RawRecords /\ w.value \in SealedValues
    BY <1>2 DEF Real, RawRecords
  <2>2. w.name.data \in Held(f) /\ w.value.data = f[w.name.data] /\ w.value.ver = i.version
    BY <2>1 DEF ImageHolds
  <2>3. w.value.data \in Values \cup {NoValue} /\ w.name.data \in Names
    BY <2>1, <2>2 DEF SealedValues, Held
  <2>4. /\ MigratedValue(w.value) \in SealedValues
        /\ MigratedValue(w.value).data = w.value.data
        /\ MigratedValue(w.value).ver = FORMAT_VERSION
    BY <2>3 DEF MigratedValue, Sealed, SealedValues, Keys, Versions
  <2>5. Opened(w).name = w.name.data
        /\ Opened(w).value = (IF i.version = 2 THEN MigratedValue(w.value) ELSE w.value)
        /\ (Opened(w).value \in SealedValues => Opened(w) \in Records)
    BY <2>3 DEF Records
  <2> HIDE DEF Opened
  <2>6. QED
    BY <1>2, <2>1, <2>2, <2>4, <2>5
<1> HIDE DEF Opened
<1>4. ASSUME NEW n \in Held(f) PROVE \E r \in Unlocked(i) : r.name = n
  <2>1. PICK w \in Real(i) : w.name.data = n
    BY DEF ImageHolds
  <2>2. QED
    BY <1>1, <1>3, <2>1
<1>5. ASSUME NEW r \in Unlocked(i), NEW s \in Unlocked(i), r.name = s.name PROVE r = s
  <2>1. PICK w \in Real(i), x \in Real(i) : r = Opened(w) /\ s = Opened(x)
    BY <1>1
  <2>2. w.name.data = x.name.data
    BY <1>3, <1>5, <2>1
  <2>3. QED
    BY <2>1, <2>2 DEF ImageHolds
<1>6. QED
  BY <1>1, <1>3, <1>4, <1>5

(* A session begins as what the file holds.                                 *)
LEMMA UnlockStep ==
  ASSUME IInv, UnlockWithDek
  PROVE  IInv'
<1>1. image \in Images /\ stored \in Contents /\ ImageHolds(image, stored)
  BY DEF IInv, TypeOK, UnlockWithDek
<1>2. records' = Unlocked(image) /\ latest' = stored /\ version' = FORMAT_VERSION
      /\ vault' = "unlocked" /\ UNCHANGED <<image, stored>> /\ Unlocks(image)
  BY DEF UnlockWithDek, UpgradedVersion
<1> DEFINE u == Unlocked(image)
<1>3. /\ u \subseteq Records
      /\ \A r \in u : r.name \in Held(stored) /\ r.value.data = stored[r.name]
                      /\ r.value.ver = FORMAT_VERSION
      /\ \A n \in Held(stored) : \E r \in u : r.name = n
      /\ \A r, s \in u : r.name = s.name => r = s
  BY <1>1, <1>2, UnlockedHolds
<1> HIDE DEF u
<1>4. records' = u
  BY <1>2 DEF u
<1>5. Session'
  BY <1>2, <1>3, <1>4 DEF Session
<1>6. TypeOK'
  BY <1>1, <1>2, <1>3, <1>4 DEF TypeOK, Versions
<1>7. QED
  BY <1>1, <1>2, <1>5, <1>6 DEF IInv

(* Without its record a name is not held any more.                          *)
LEMMA Forgets ==
  ASSUME IInv, NEW n \in Names, vault' = vault,
         records' = records \ Named(n), latest' = [latest EXCEPT ![n] = NoValue],
         UNCHANGED <<image, version, stored>>
  PROVE  IInv'
<1>1. latest \in Contents /\ latest' \in Contents
  BY DEF IInv, TypeOK, Contents
<1>2. Held(latest') = Held(latest) \ {n} /\ \A m \in Names \ {n} : latest'[m] = latest[m]
  BY <1>1 DEF Held, Contents
<1>3. records' = {r \in records : r.name # n}
  BY DEF Named
<1>4. Session'
  BY <1>2, <1>3 DEF IInv, Session, Held
<1>5. TypeOK'
  BY <1>1, <1>3 DEF IInv, TypeOK
<1>6. QED
  BY <1>4, <1>5 DEF IInv

(* With its new record in the place of any it had, a name holds the value.  *)
LEMMA Puts ==
  ASSUME IInv, NEW n \in Names, NEW v \in Values, NEW k \in Revealed, vault' = vault,
         InsertRecord(records \ Named(n), n, v, k), latest' = [latest EXCEPT ![n] = v],
         UNCHANGED <<image, version, stored>>
  PROVE  IInv'
<1> DEFINE new == [name |-> n, value |-> Sealed(k, version, v)]
<1>1. latest \in Contents /\ latest' \in Contents /\ latest'[n] = v /\ v # NoValue
      /\ \A m \in Names \ {n} : latest'[m] = latest[m]
  BY RecordsAssumption DEF IInv, TypeOK, Contents
<1>2. k \in Keys /\ version \in Versions /\ version = FORMAT_VERSION
  BY DEF Revealed, Keys, IInv, TypeOK, Session
<1>3. new.name = n /\ new.value.data = v /\ new.value.ver = version
  BY DEF Sealed
<1>4. new \in Records
  BY <1>2, SealedTypes DEF Records
<1> HIDE DEF new
<1>5. records' = {r \in records : r.name # n} \cup {new}
  BY DEF InsertRecord, Named, new
<1>6. Held(latest') = Held(latest) \cup {n}
  BY <1>1 DEF Held
<1>7. Session'
  <2>1. ASSUME NEW r \in records'
        PROVE  r.name \in Held(latest') /\ r.value.data = latest'[r.name]
               /\ r.value.ver = FORMAT_VERSION
    <3>1. CASE r = new
      BY <1>1, <1>2, <1>3, <1>6, <3>1
    <3>2. CASE r \in records /\ r.name # n
      <4>1. /\ r.name \in Held(latest) /\ r.value.data = latest[r.name]
            /\ r.value.ver = FORMAT_VERSION
        BY <3>2 DEF IInv, Session
      <4>2. r.name \in Names \ {n}
        BY <3>2, <4>1 DEF Held
      <4>3. QED
        BY <1>1, <1>6, <4>1, <4>2
    <3>3. QED
      BY <1>5, <3>1, <3>2
  <2>2. ASSUME NEW m \in Held(latest') PROVE \E r \in records' : r.name = m
    <3>1. CASE m = n
      BY <1>3, <1>5, <3>1
    <3>2. CASE m # n
      <4>1. PICK r \in records : r.name = m
        BY <1>6, <3>2 DEF IInv, Session
      <4>2. QED
        BY <1>5, <3>2, <4>1
    <3>3. QED
      BY <3>1, <3>2
  <2>3. ASSUME NEW r \in records', NEW s \in records', r.name = s.name PROVE r = s
    BY <1>3, <1>5, <2>3 DEF IInv, Session
  <2>4. QED
    BY <1>2, <2>1, <2>2, <2>3 DEF Session
<1>8. TypeOK'
  BY <1>1, <1>4, <1>5 DEF IInv, TypeOK
<1>9. QED
  BY <1>7, <1>8 DEF IInv

(* Every edit keeps the two in step.                                        *)
LEMMA EditStep ==
  ASSUME IInv, NEW n \in Names, Edit(n)
  PROVE  IInv'
<1>1. CASE RemoveRecord(n) \/ UpsertLocked(n)
  BY <1>1, Forgets DEF RemoveRecord, UpsertLocked
<1>2. ASSUME NEW v \in Values, NEW k \in Revealed, Add(n, v, k) PROVE IInv'
  <2>1. records \ Named(n) = records
    BY <1>2 DEF Add, NameTaken, Named
  <2>2. InsertRecord(records \ Named(n), n, v, k)
    BY <1>2, <2>1 DEF Add
  <2>3. QED
    BY <1>2, <2>2, Puts DEF Add
<1>3. ASSUME NEW v \in Values, NEW k \in Revealed, Upsert(n, v, k) PROVE IInv'
  BY <1>3, Puts DEF Upsert
<1>4. QED
  BY <1>1, <1>2, <1>3 DEF Edit

(* A save puts what the session holds into the file.                        *)
LEMMA SaveStep ==
  ASSUME IInv, NEW k \in Revealed, Save(k)
  PROVE  IInv'
<1> DEFINE i == [version |-> version, mac |-> k, raws |-> SavedRaws(k)]
<1>1. image' = i /\ stored' = latest /\ UNCHANGED <<vault, version, records, latest>>
  BY DEF Save, SavedRaws
<1>2. k \in Keys
  BY DEF Revealed, Keys
<1>3. i \in Images /\ ImageHolds(i, latest)
  BY <1>2, SaveHolds
<1> HIDE DEF i
<1>4. TypeOK'
  BY <1>1, <1>3 DEF IInv, TypeOK
<1>5. Session'
  BY <1>1 DEF IInv, Session
<1>6. QED
  BY <1>1, <1>3, <1>4, <1>5 DEF IInv

LEMMA NextStep == IInv /\ [Next]_vars => IInv'
<1> SUFFICES ASSUME IInv, [Next]_vars PROVE IInv'
  OBVIOUS
<1>1. CASE NewUnlocked
  BY <1>1, EmptySession DEF NewUnlocked
<1>2. CASE UnlockWithDek
  BY <1>2, UnlockStep
<1>3. CASE Lock
  BY <1>3 DEF Lock, IInv, TypeOK, Session
<1>4. CASE Drop
  BY <1>4, EmptySession DEF Drop
<1>5. ASSUME NEW n \in Names, Edit(n) PROVE IInv'
  BY <1>5, EditStep
<1>6. ASSUME NEW k \in Revealed, Save(k) PROVE IInv'
  BY <1>6, SaveStep
<1>7. CASE UNCHANGED vars
  BY <1>7 DEF vars, IInv, TypeOK, Session
<1>8. QED
  BY <1>1, <1>2, <1>3, <1>4, <1>5, <1>6, <1>7 DEF Next

LEMMA IInvAlways == Spec => []IInv
BY IInvInit, NextStep, PTL DEF Spec

-----------------------------------------------------------------------------
(* Every state is typed: what is sealed is sealed under a key and a version *)
(* that exist, a migrated image too.                                        *)
THEOREM TypeCorrect == Spec => []TypeOK
<1>1. IInv => TypeOK
  BY DEF IInv
<1>2. QED
  BY <1>1, IInvAlways, PTL

(* `list` names what the session holds and `get` answers the value given    *)
(* last, for any names and values, after any migration, edits and saves.    *)
THEOREM GetIsLatest == Spec => []GetReturnsLatest
<1>1. IInv => GetReturnsLatest
  <2> SUFFICES ASSUME IInv, vault = "unlocked" PROVE GetReturnsLatest
    BY DEF GetReturnsLatest
  <2>1. Lists
    BY DEF Lists, IInv, Session, Held
  <2>2. ASSUME NEW n \in Names, \A r \in Named(n) : Sound(r)
        PROVE  Answers(n) = {latest[n]} \ {NoValue}
    <3>1. \A r \in Named(n) : Gets(r) = {latest[n]} /\ latest[n] # NoValue
      BY <2>2 DEF Gets, Opens, Sound, Named, IInv, Session, Held
    <3>2. CASE latest[n] = NoValue
      BY <3>1, <3>2 DEF Answers
    <3>3. CASE latest[n] # NoValue
      <4>1. PICK r \in Named(n) : TRUE
        BY <3>3 DEF IInv, Session, Held, Named
      <4>2. QED
        BY <3>1, <4>1 DEF Answers
    <3>4. QED
      BY <3>2, <3>3
  <2>3. QED
    BY <2>1, <2>2 DEF GetReturnsLatest
<1>2. QED
  BY <1>1, IInvAlways, PTL

(* Every file that was written with the vault's key and no name too long    *)
(* opens again, to what was stored in it; so does one of the old format.    *)
THEOREM ReopensToStored == Spec => []ReopensAsStored
<1>1. IInv => ReopensAsStored
  <2> SUFFICES ASSUME IInv, image # NoImage, ~Spoiled(image)
               PROVE  /\ Unlocks(image)
                      /\ \A n \in Names : Shows(image, n) = {stored[n]} \ {NoValue}
    BY DEF ReopensAsStored
  <2>1. image \in Images /\ stored \in Contents /\ ImageHolds(image, stored)
    BY DEF IInv, TypeOK
  <2>2. image.mac = "dek" /\ \A w \in image.raws : ~NameTooLong(w.name) /\ w.value.key = "dek"
    BY DEF Spoiled
  <2>3. Unlocks(image)
    BY <2>1, <2>2 DEF Unlocks, ImageHolds, Opens
  <2> DEFINE u == Unlocked(image)
  <2>4. /\ \A r \in u : r.name \in Held(stored) /\ r.value.data = stored[r.name]
                        /\ r.value.ver = FORMAT_VERSION
        /\ \A n \in Held(stored) : \E r \in u : r.name = n
    BY <2>1, <2>3, UnlockedHolds
  <2>5. \A r \in u : r.value.key = "dek"
    BY <2>2 DEF Unlocked, MigratedValue, Sealed
  <2> HIDE DEF u
  <2>6. ASSUME NEW n \in Names PROVE Shows(image, n) = {stored[n]} \ {NoValue}
    <3>1. Shows(image, n) = {r.value.data : r \in {x \in u : x.name = n}}
      BY <2>4, <2>5 DEF Shows, u, Opens, UpgradedVersion
    <3>2. \A r \in {x \in u : x.name = n} : r.value.data = stored[n] /\ stored[n] # NoValue
      BY <2>4 DEF Held
    <3>3. stored[n] # NoValue => \E r \in u : r.name = n
      BY <2>4 DEF Held
    <3>4. QED
      BY <3>1, <3>2, <3>3
  <2>7. QED
    BY <2>3, <2>6
<1>2. QED
  BY <1>1, IInvAlways, PTL

(* A file of the current format holds the fewest full buckets of records,   *)
(* and one for none, whatever the names are and the size of a bucket.       *)
THEOREM CountIsHidden == Spec => []CountHidden
<1>1. IInv => CountHidden
  <2> DEFINE n == Cardinality(Held(stored))
             k == IF n = 0 THEN 1 ELSE Ceiling(n, CountBucket)
  <2> SUFFICES ASSUME IInv, image # NoImage, image.version = FORMAT_VERSION
               PROVE  \E j \in 1 .. n + 1 :
                        /\ Fits(j, n) /\ ~Fits(j - 1, n)
                        /\ Cardinality(image.raws) = CountBucket * j
    BY DEF CountHidden, Held
  <2>1. n \in Nat /\ CountBucket \in Nat \ {0}
    BY HeldFinite, RecordsAssumption
  <2>2. Cardinality(image.raws) = CountBucket * k
    BY DEF IInv, ImageHolds, PaddedLen
  <2> HIDE DEF n
  <2>3. k \in 1 .. n + 1 /\ Fits(k, n) /\ ~Fits(k - 1, n)
    <3>1. CASE n = 0
      BY <2>1, <3>1 DEF Fits
    <3>2. CASE n # 0
      <4>1. k = Ceiling(n, CountBucket) /\ k \in Nat
            /\ CountBucket * k >= n /\ CountBucket * (k - 1) < n
        BY <2>1, <3>2, CeilingFits
      <4> HIDE DEF k
      <4>2. k > 0
        BY <2>1, <3>2, <4>1
      <4>3. k - 1 <= CountBucket * (k - 1)
        BY <2>1, <4>1, <4>2
      <4>4. QED
        BY <2>1, <4>1, <4>2, <4>3 DEF Fits
    <3>3. QED
      BY <3>1, <3>2
  <2>4. QED
    BY <2>2, <2>3
<1>2. QED
  BY <1>1, IInvAlways, PTL

=============================================================================
