---------------------------- MODULE VaultRecords ----------------------------
(***************************************************************************)
(* The records of one vault, in memory and in the image `save` writes      *)
(* (vault.rs): names sealed at save and opened at unlock, values sealed    *)
(* when they are added and opened by `get`, tombstones that hide how many  *)
(* records there are, the migration of a format 2 image at unlock, and the *)
(* key that is kept encrypted in RAM (secret.rs, ProtectedDek).            *)
(*                                                                         *)
(* A ciphertext is the key and format version it was sealed under and what *)
(* it hides: it opens under these two only. The random id of a record ties *)
(* its two ciphertexts together and is left out, and so is the order of    *)
(* records, which every save shuffles: a set of records is all there is.   *)
(***************************************************************************)
EXTENDS Integers, FiniteSets, VaultPadding

CONSTANTS
  Names,        \* record names
  LongNames,    \* names of more than MAX_NAME_LEN bytes
  Values,
  NoValue,      \* "no record of this name"; the value in a tombstone
  NoName,       \* the name in a tombstone
  NoImage,      \* there is no vault file
  CountBucket,  \* COUNT_BUCKET
  RevealFails   \* TRUE if CryptUnprotectMemory may fail

ASSUME RecordsAssumption ==
  /\ LongNames \subseteq Names
  /\ IsFiniteSet(Names)
  /\ NoValue \notin Values
  /\ NoName \notin Names
  /\ CountBucket \in Nat \ {0}
  /\ RevealFails \in BOOLEAN

VARIABLES
  image,    \* the vault file
  vault,    \* the Vault: there is none, it is unlocked or locked
  version,  \* its header.format_version
  records,  \* its records
  \* History, read by the properties only:
  latest,   \* what the session last gave each name
  stored    \* what latest was at the last save

vars == <<image, vault, version, records, latest, stored>>

FORMAT_VERSION == 3

(* What a failed unprotect leaves in place of the key: its ciphertext.      *)
Keys == {"dek", "garbled"}
Versions == {2, FORMAT_VERSION}

Sealed(k, v, x) == [key |-> k, ver |-> v, data |-> x]
Opens(s, k, v) == s.key = k /\ s.ver = v

SealedValues == [key : Keys, ver : Versions, data : Values \cup {NoValue}]
SealedNames == [key : Keys, ver : Versions, data : Names \cup {NoName}]
Records == [name : Names, value : SealedValues]
RawRecords == [name : SealedNames, value : SealedValues, pad : Nat]
Images == [version : Versions, mac : Keys, raws : SUBSET RawRecords]
Contents == [Names -> Values \cup {NoValue}]

NoNames == [n \in Names |-> NoValue]
Named(n) == {r \in records : r.name = n}

-----------------------------------------------------------------------------
(* The image                                                                *)

(* An image of format 2 holds its names in the clear under the MAC, which   *)
(* open as names sealed with that MAC's key would.                          *)
Raw(r, k, v) == [name |-> Sealed(k, v, r.name), value |-> r.value, pad |-> 0]

(* Tombstones differ from each other: pad stands for their random ids.      *)
Tombstone(i, k, v) ==
  [name |-> Sealed(k, v, NoName), value |-> Sealed(k, v, NoValue), pad |-> i]

(* Whole buckets, and none for no record.                                   *)
BarePadding(n, k, v) ==
  {Tombstone(i, k, v) : i \in 1 .. CountBucket * Ceiling(n, CountBucket) - n}

Padding(n, k, v) == {Tombstone(i, k, v) : i \in 1 .. PaddedLen(n, CountBucket) - n}

(* The limit of decode_name_plaintext; format 2 has none.                   *)
NameTooLong(s) == s.ver = FORMAT_VERSION /\ s.data \in LongNames

(* unlock_with_dek with the vault's own key returns Ok.                     *)
Unlocks(i) ==
  /\ i.mac = "dek"
  /\ \A w \in i.raws : Opens(w.name, "dek", i.version) /\ ~NameTooLong(w.name)
  /\ i.version = 2 => \A w \in i.raws : Opens(w.value, "dek", 2)

(* Values of format 2 are sealed again; those of format 3 stay as they are. *)
ReusedValue(s) == s
MigratedValue(s) == Sealed("dek", FORMAT_VERSION, s.data)

EveryRaw(w) == TRUE
IsRecord(w) == w.name.data # NoName

Unlocked(i) ==
  {[name |-> w.name.data,
    value |-> IF i.version = 2 THEN MigratedValue(w.value) ELSE w.value] :
     w \in {x \in i.raws : IsRecord(x)}}

-----------------------------------------------------------------------------
(* An older program left an image of format 2, or there is none yet.        *)
FormatTwo(f) ==
  [version |-> 2, mac |-> "dek",
   raws |-> {Raw([name |-> n, value |-> Sealed("dek", 2, f[n])], "dek", 2) :
               n \in {m \in Names : f[m] # NoValue}}]

Init ==
  /\ \/ image = NoImage /\ stored = NoNames
     \/ stored \in Contents /\ image = FormatTwo(stored)
  /\ vault = "none"
  /\ version = FORMAT_VERSION
  /\ records = {}
  /\ latest = NoNames

NewUnlocked ==
  /\ vault = "none"
  /\ image = NoImage
  /\ vault' = "unlocked"
  /\ version' = FORMAT_VERSION
  /\ records' = {}
  /\ latest' = NoNames
  /\ UNCHANGED <<image, stored>>

KeptVersion(i) == i.version
UpgradedVersion(i) == FORMAT_VERSION

(* A vault that does not unlock is an error and there is no Vault.          *)
UnlockWithDek ==
  /\ vault = "none"
  /\ image # NoImage /\ Unlocks(image)
  /\ vault' = "unlocked"
  /\ version' = UpgradedVersion(image)
  /\ records' = Unlocked(image)
  /\ latest' = stored
  /\ UNCHANGED <<image, stored>>

(* ProtectedDek::reveal                                                     *)
Revealed == {"dek"} \cup (IF RevealFails THEN {"garbled"} ELSE {})

InsertRecord(others, n, v, k) ==
  records' = others \cup {[name |-> n, value |-> Sealed(k, version, v)]}

(* A name that is there is Error::Duplicate: the record stays.              *)
NameTakenIgnored(n) == FALSE
NameTaken(n) == Named(n) # {}

Add(n, v, k) ==
  /\ vault = "unlocked"
  /\ ~NameTaken(n)
  /\ InsertRecord(records, n, v, k)
  /\ latest' = [latest EXCEPT ![n] = v]
  /\ UNCHANGED <<image, vault, version, stored>>

Upsert(n, v, k) ==
  /\ vault = "unlocked"
  /\ InsertRecord(records \ Named(n), n, v, k)
  /\ latest' = [latest EXCEPT ![n] = v]
  /\ UNCHANGED <<image, vault, version, stored>>

(* The old record is dropped before the key is asked for: on a locked vault *)
(* `upsert` is an error and has done what `remove` does.                    *)
UpsertLocked(n) ==
  /\ vault = "locked"
  /\ records' = records \ Named(n)
  /\ latest' = [latest EXCEPT ![n] = NoValue]
  /\ UNCHANGED <<image, vault, version, stored>>

(* `remove` needs no key.                                                   *)
RemoveRecord(n) ==
  /\ vault # "none"
  /\ records' = records \ Named(n)
  /\ latest' = [latest EXCEPT ![n] = NoValue]
  /\ UNCHANGED <<image, vault, version, stored>>

(* Names are sealed under the key revealed now, values stay as they are.    *)
Save(k) ==
  /\ vault = "unlocked"
  /\ image' = [version |-> version, mac |-> k,
               raws |-> {Raw(r, k, version) : r \in records}
                          \cup Padding(Cardinality(records), k, version)]
  /\ stored' = latest
  /\ UNCHANGED <<vault, version, records, latest>>

Lock ==
  /\ vault = "unlocked"
  /\ vault' = "locked"
  /\ UNCHANGED <<image, version, records, latest, stored>>

(* The Vault is dropped.                                                    *)
Drop ==
  /\ vault # "none"
  /\ vault' = "none"
  /\ version' = FORMAT_VERSION
  /\ records' = {}
  /\ latest' = NoNames
  /\ UNCHANGED <<image, stored>>

Edit(n) ==
  \/ RemoveRecord(n) \/ UpsertLocked(n)
  \/ \E v \in Values, k \in Revealed : Add(n, v, k) \/ Upsert(n, v, k)

Next ==
  \/ NewUnlocked \/ UnlockWithDek \/ Lock \/ Drop
  \/ \E n \in Names : Edit(n)
  \/ \E k \in Revealed : Save(k)

Spec == Init /\ [][Next]_vars

-----------------------------------------------------------------------------
(* `get`: the value opens under the vault's key and the header's version.   *)
Gets(r) == IF Opens(r.value, "dek", version) THEN {r.value.data} ELSE {}

(* What `list` and `get` answer for a name, when there is one answer.       *)
Answers(n) == UNION {Gets(r) : r \in Named(n)}

TypeOK ==
  /\ image \in Images \cup {NoImage}
  /\ vault \in {"none", "unlocked", "locked"}
  /\ version \in Versions
  /\ records \subseteq Records
  /\ latest \in Contents /\ stored \in Contents

Lists == {r.name : r \in records} = {n \in Names : latest[n] # NoValue}

Sound(r) == r.value.key = "dek"

(* A session lists the names it holds, and `get` gives each its last value: *)
(* one record per name, no tombstone, a migrated value that opens. Values   *)
(* sealed while the key could not be revealed are the exception.            *)
GetReturnsLatest ==
  vault = "unlocked" =>
    /\ Lists
    /\ \A n \in Names :
         (\A r \in Named(n) : Sound(r))
           => Answers(n) = {latest[n]} \ {NoValue}

(* What an image would show if it were unlocked now.                        *)
Shows(i, n) ==
  {r.value.data : r \in {x \in Unlocked(i) :
     x.name = n /\ Opens(x.value, "dek", UpgradedVersion(i))}}

(* Every image reopens to what was stored in it: a save loses no record, an *)
(* image of the old format migrates, whatever was edited, saved or locked   *)
(* since. Names of more than MAX_NAME_LEN bytes and keys that could not be  *)
(* revealed are the exceptions. Of the old format this is what the code and *)
(* the comment of unlock_with_dek say; that of FORMAT_VERSION says that it  *)
(* is not read and that there is no migration path.                         *)
Spoiled(i) ==
  \/ i.mac # "dek"
  \/ \E w \in i.raws : NameTooLong(w.name) \/ w.value.key # "dek"

ReopensAsStored ==
  image # NoImage /\ ~Spoiled(image) =>
    /\ Unlocks(image)
    /\ \A n \in Names : Shows(image, n) = {stored[n]} \ {NoValue}

(* The file tells two numbers of records apart by their buckets only: its  *)
(* records are the fewest full buckets that hold those stored, and one full *)
(* bucket for an empty vault.                                               *)
Fits(k, n) == k > 0 /\ CountBucket * k >= n

CountHidden ==
  image # NoImage /\ image.version = FORMAT_VERSION =>
    LET real == Cardinality({n \in Names : stored[n] # NoValue})
    IN  \E k \in 1 .. real + 1 :
          /\ Fits(k, real) /\ ~Fits(k - 1, real)
          /\ Cardinality(image.raws) = CountBucket * k

(* "[T]he next `save` upgrades the file (no data loss)", says the comment   *)
(* of unlock_with_dek: a file that was saved unlocks again.                 *)
SavedUnlocks == image # NoImage => Unlocks(image)

(* If the key cannot be revealed, "the downstream AEAD/MAC will simply fail *)
(* closed rather than use a wrong key" (ProtectedDek::reveal).              *)
NoWrongKey ==
  image # NoImage => image.mac = "dek" /\ \A w \in image.raws : w.value.key = "dek"

=============================================================================
