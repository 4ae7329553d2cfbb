----------------------------- MODULE VaultCodec -----------------------------
(***************************************************************************)
(* The bytes of a vault file (vault.rs): the header and the records `save` *)
(* writes, the parser `load_from_bytes` runs on whatever it finds, what    *)
(* the header MAC is computed over, and the padded plaintexts of names and *)
(* values.                                                                 *)
(*                                                                         *)
(* A file is a sequence of cells. An integer, an id, a salt, the magic and *)
(* the MAC, whose widths are fixed, take one cell each, a byte string its  *)
(* length and one cell per byte. Every check fails as Error::Format.       *)
(***************************************************************************)
EXTENDS Naturals, Sequences, FiniteSets, SequencesExt, VaultPadding

CONSTANTS
  MAGIC,
  MAX_ARGON2,    \* bound of each Argon2 parameter (three bounds in the code)
  MAX_NAME_LEN,
  NAME_BUCKET, VALUE_BUCKET, COUNT_BUCKET,
  NotUtf8,       \* a byte no UTF-8 text contains
  Bytes,         \* bytes of names, values, wraps and ciphertexts
  MaxBlob,       \* bound: their length in the headers and records tried
  MaxRecords,    \* bound: records in the files tried
  MaxSecrets,    \* bound: secrets in the vaults saved
  MaxText        \* bound: length of their names and values

ASSUME CodecAssumption ==
  /\ {MAGIC, MAX_NAME_LEN, NotUtf8} \cup Bytes \subseteq Nat
  /\ MAX_ARGON2 \in Nat \ {0}
  /\ NotUtf8 \notin Bytes \cup {0, 1}
  /\ {NAME_BUCKET, VALUE_BUCKET, COUNT_BUCKET} \subseteq Nat \ {0}
  /\ NAME_BUCKET >= 2
  /\ {MaxBlob, MaxRecords, MaxSecrets, MaxText} \subseteq Nat

VARIABLES
  file,     \* the header and the records written to the file
  secrets,  \* the names and values they were made from, if they were
  data      \* the cells the file holds now

codecVars == <<file, secrets, data>>

-----------------------------------------------------------------------------
(* Writing. A wrap is a byte string, an optional field has none or one.     *)

PutBytes(v) == <<Len(v)>> \o v
PutFlag(x) == IF x THEN <<1>> ELSE <<0>>
PutArgon2(p) == <<p.mem, p.time, p.lanes, p.salt>>
PutOption(x, Put(_)) == IF x = {} THEN <<0>> ELSE <<1>> \o Put(CHOOSE y \in x : TRUE)
PutEscrow(r) == PutArgon2(r.kdf) \o PutBytes(r.wrap)

SwappedHeaderBytes(h) ==
  <<h.magic, h.version>> \o PutFlag(h.bound) \o <<h.aead>> \o PutArgon2(h.kdf)
    \o PutBytes(h.pcrs) \o PutOption(h.recovery, PutEscrow) \o PutBytes(h.dek)
    \o PutOption(h.tpm, PutBytes) \o <<h.mac>>

HeaderBytes(h) ==
  <<h.magic, h.version>> \o PutFlag(h.bound) \o <<h.aead>> \o PutArgon2(h.kdf)
    \o PutBytes(h.pcrs) \o PutOption(h.tpm, PutBytes) \o PutBytes(h.dek)
    \o PutOption(h.recovery, PutEscrow) \o <<h.mac>>

(* Records of format 2 have the name and the ciphertext in these places.    *)
RecordBytes(r) == <<r.id>> \o PutBytes(r.name) \o PutBytes(r.value)

EveryRecord(rs) == FlattenSeq([i \in DOMAIN rs |-> RecordBytes(rs[i])])

FileBytes(h, rs) == PutBytes(HeaderBytes(h)) \o <<Len(rs)>> \o EveryRecord(rs)

-----------------------------------------------------------------------------
(* What the MAC authenticates, under either format.                         *)

(* Without a field that has one value today.                                *)
PartialMacInput(h, rs) ==
  HeaderBytes([h EXCEPT !.mac = 0, !.aead = 1]) \o <<Len(rs)>> \o EveryRecord(rs)

UnframedMacInput(h, rs) ==
  HeaderBytes([h EXCEPT !.mac = 0]) \o <<Len(rs)>>
    \o FlattenSeq([i \in DOMAIN rs |-> <<rs[i].id>> \o rs[i].name \o rs[i].value])

MacInput(h, rs) ==
  HeaderBytes([h EXCEPT !.mac = 0]) \o <<Len(rs)>> \o EveryRecord(rs)

-----------------------------------------------------------------------------
(* Reading. A cursor stands at a place of the data d and holds the fields   *)
(* taken so far; once it has failed it stays so.                            *)

Start == [ok |-> TRUE, at |-> 0, got |-> <<>>]
Failed == [ok |-> FALSE, at |-> 0, got |-> <<>>]

Require(c, test) == IF test THEN c ELSE Failed

Take(d, c, n) ==
  IF ~c.ok \/ c.at + n > Len(d) THEN Failed
  ELSE [c EXCEPT !.at = @ + n, !.got = Append(@, SubSeq(d, c.at + 1, c.at + n))]

(* The field taken last, when it is one cell.                               *)
Newest(c) == Head(Last(c.got))

(* Then takes what follows a cell, whose value it is given; the cell itself *)
(* is no field.                                                             *)
Prefixed(d, c, Then(_, _)) ==
  LET l == Take(d, c, 1)
  IN  IF l.ok THEN Then([l EXCEPT !.got = c.got], Newest(l)) ELSE Failed

TakeBytes(d, c) == Prefixed(d, c, LAMBDA e, n : Take(d, e, n))

(* The limits are checked before the salt is taken.                         *)
TakeArgon2(d, c) ==
  LET e == Take(d, c, 3)
  IN  IF e.ok /\ \A i \in 1 .. 3 : Last(e.got)[i] <= MAX_ARGON2
      THEN Take(d, e, 1) ELSE Failed

(* Only the cell 1 says that the field is there.                            *)
TakeOption(d, c, Body(_)) ==
  Prefixed(d, c, LAMBDA e, flag :
    IF flag = 1 THEN Body([e EXCEPT !.got = Append(@, <<1>>)])
    ELSE [e EXCEPT !.got = Append(@, <<0>>)])

TakeTpmWrap(d, c) == TakeOption(d, c, LAMBDA e : TakeBytes(d, e))
TakeEscrow(d, c) == TakeOption(d, c, LAMBDA e : TakeBytes(d, TakeArgon2(d, e)))

Argon2(costs, salt) ==
  [mem |-> costs[1], time |-> costs[2], lanes |-> costs[3], salt |-> salt[1]]

(* The header of the fields got: four and two of the KDF, then the PCRs,    *)
(* the TPM's wrap, the wrap of the key, the escrow and the MAC.             *)
HeaderOf(g) ==
  LET tpm == 5 + g[5][1]       \* last field of the TPM's wrap
      esc == tpm + 2           \* the escrow's flag
  IN  [magic |-> g[1][1], version |-> g[1][2], bound |-> g[1][3] # 0,
       aead |-> g[1][4], kdf |-> Argon2(g[2], g[3]), pcrs |-> g[4],
       tpm |-> IF g[5] = <<1>> THEN {g[tpm]} ELSE {},
       dek |-> g[tpm + 1],
       recovery |->
         IF g[esc] = <<1>>
         THEN {[kdf |-> Argon2(g[esc + 1], g[esc + 2]), wrap |-> g[esc + 3]]}
         ELSE {},
       mac |-> Last(g)[1]]

ParseHeader(d) ==
  LET front == Take(d, Start, 4)
      known == Require(front, front.ok /\ front.got[1][1] = MAGIC
                                       /\ front.got[1][2] \in {2, 3})
      pcrs == TakeBytes(d, TakeArgon2(d, known))
      wraps == TakeBytes(d, TakeTpmWrap(d, pcrs))
  IN  Take(d, TakeEscrow(d, wraps), 1)

(* VaultHeader::from_bytes ignores what follows the MAC, and load_from_bytes *)
(* what follows the last record.                                            *)
Utf8(s) == NotUtf8 \notin ToSet(s)

(* A name in the clear must be text.                                        *)
TakeRecord(d, c, version) ==
  LET e == TakeBytes(d, Take(d, c, 1))
  IN  TakeBytes(d, Require(e, e.ok /\ (version = 2 => Utf8(Last(e.got)))))

RecordsOf(g) ==
  [i \in 1 .. Len(g) \div 3 |->
     [id |-> g[3 * i - 2][1], name |-> g[3 * i - 1], value |-> g[3 * i]]]

(* A parser that ends where the data ends.                                  *)
TakeRecordsThere(d, c, version) ==
  Prefixed(d, c, LAMBDA e, count :
    FoldLeft(LAMBDA a, i : LET r == TakeRecord(d, a, version) IN IF r.ok THEN r ELSE a,
             [e EXCEPT !.got = <<>>], [i \in 1 .. count |-> i]))

TakeRecords(d, c, version) ==
  Prefixed(d, c, LAMBDA e, count :
    FoldLeft(LAMBDA a, i : TakeRecord(d, a, version),
             [e EXCEPT !.got = <<>>], [i \in 1 .. count |-> i]))

NoFile == [ok |-> FALSE]

LoadFromBytes(d) ==
  LET framed == TakeBytes(d, Start)
      parsed == IF framed.ok THEN ParseHeader(framed.got[1]) ELSE Failed
      header == HeaderOf(parsed.got)
      taken == TakeRecords(d, framed, header.version)
  IN  IF parsed.ok /\ taken.ok
      THEN [ok |-> TRUE, header |-> header, records |-> RecordsOf(taken.got)]
      ELSE NoFile

-----------------------------------------------------------------------------
(* The plaintexts sealed in a record.                                       *)

Unfilled(p, bucket) == p

Fill(p, bucket) ==
  p \o [i \in 1 .. PaddedLen(Len(p), bucket) - Len(p) |-> 0]

EncodeName(kind, s) == Fill(<<kind, Len(s)>> \o s, NAME_BUCKET)
EncodeValue(v) == Fill(<<Len(v)>> \o v, VALUE_BUCKET)

(* A name, no name for a tombstone, or an error.                            *)
BadPlaintext == [ok |-> FALSE]
Plaintext(x) == [ok |-> TRUE, text |-> x]

(* The whole of the padded plaintext.                                       *)
PaddedName(p) == Plaintext(IF p[1] = 1 THEN {} ELSE {SubSeq(p, 3, Len(p))})

DecodeName(p) ==
  IF Len(p) < 2 \/ p[2] > MAX_NAME_LEN \/ 2 + p[2] > Len(p) THEN BadPlaintext
  ELSE LET name == SubSeq(p, 3, 2 + p[2])
       IN  CASE p[1] = 1 -> Plaintext({})
             [] p[1] = 0 /\ Utf8(name) -> Plaintext({name})
             [] OTHER -> BadPlaintext

DecodeValue(p) ==
  IF Len(p) < 1 \/ 1 + p[1] > Len(p) THEN BadPlaintext
  ELSE Plaintext(SubSeq(p, 2, 1 + p[1]))

(* `save` writes the secrets in some order, tombstones among them; what the *)
(* ciphers add to each has the same length and is left out.                 *)
SealedRecord(i, kind, secret) ==
  [id |-> i, name |-> EncodeName(kind, secret.name), value |-> EncodeValue(secret.value)]

Nothing == [name |-> <<>>, value |-> <<>>]

SavedRecords(ss) ==
  [i \in 1 .. PaddedLen(Len(ss), COUNT_BUCKET) |->
     IF i <= Len(ss) THEN SealedRecord(i, 0, ss[i])
     ELSE SealedRecord(i, 1, Nothing)]

(* The records unlock_with_dek makes of those of the file: a tombstone is   *)
(* none, and one bad record is an error for all.                            *)
Opened(r) == [name |-> DecodeName(r.name), value |-> DecodeValue(r.value)]
IsTombstone(o) == o.name.ok /\ o.name.text = {}

Unlocked3(rs) ==
  LET opened == [i \in DOMAIN rs |-> Opened(rs[i])]
  IN  IF \E i \in DOMAIN rs : ~opened[i].name.ok THEN NoFile
      ELSE [ok |-> TRUE,
            records |-> FlattenSeq([i \in DOMAIN rs |->
                          IF IsTombstone(opened[i]) THEN <<>> ELSE <<opened[i]>>])]

-----------------------------------------------------------------------------
(* One file: made by `save` from secrets, or any header and records of      *)
(* either format; then its end is lost, or a part of it damaged.            *)

Blobs == BoundedSeq(Bytes, MaxBlob)
Kdfs == {[mem |-> x, time |-> 1, lanes |-> 1, salt |-> 5] : x \in {0, MAX_ARGON2}}

Headers ==
  [magic : {MAGIC}, version : {2, 3}, bound : BOOLEAN, aead : {1}, kdf : Kdfs,
   pcrs : {<<>>, <<1>>}, tpm : {{}} \cup {{w} : w \in Blobs}, dek : Blobs,
   recovery : {{}} \cup {{[kdf |-> k, wrap |-> w]} : k \in Kdfs, w \in Blobs},
   mac : {9}]

(* new_v2, without a TPM and an escrow: a header of the current version.    *)
NewHeader(version) ==
  [magic |-> MAGIC, version |-> version, bound |-> FALSE, aead |-> 1,
   kdf |-> [mem |-> 1, time |-> 1, lanes |-> 1, salt |-> 5], pcrs |-> <<>>,
   tpm |-> {}, dek |-> <<1>>, recovery |-> {}, mac |-> 9]

AnyRecords == BoundedSeq([id : {1, 2}, name : Blobs, value : Blobs], MaxRecords)
FewRecords == {<<>>, <<[id |-> 1, name |-> <<1>>, value |-> <<0>>]>>}

HeaderFiles == Headers \X FewRecords
RecordFiles == {NewHeader(2), NewHeader(3)} \X AnyRecords

Texts == {[i \in 1 .. n |-> i % 2] : n \in 0 .. MaxText}
Secrets == [name : Texts \cup {<<1, NotUtf8>>}, value : Texts]

SavedFile(ss) == <<NewHeader(3), SavedRecords(ss)>>
BytesOf(f) == FileBytes(f[1], f[2])

NoFileYet == <<>>

CodecIdle == file = NoFileYet /\ secrets = <<>> /\ data = <<>>

CodecInit ==
  /\ \/ file \in HeaderFiles \cup RecordFiles /\ secrets = <<>>
     \/ secrets \in BoundedSeq(Secrets, MaxSecrets) /\ file = SavedFile(secrets)
  /\ data = BytesOf(file)

Whole == file # NoFileYet /\ data = BytesOf(file)

LoseEnd ==
  /\ Whole /\ secrets = <<>>
  /\ \E n \in 0 .. Len(data) - 1 : data' = SubSeq(data, 1, n)
  /\ UNCHANGED <<file, secrets>>

(* The files that are damaged: those with every optional field, or none.    *)
Full(f) ==
  \/ f \in RecordFiles
  \/ f[2] # <<>> /\ f[1].pcrs # <<>> /\ f[1].tpm # {} /\ f[1].recovery # {}

Damage ==
  /\ Whole /\ Full(file) /\ secrets = <<>>
  /\ \E i \in DOMAIN data :
       \/ \E x \in 0 .. 3 : data' = ReplaceAt(data, i, x)
       \/ \E j \in DOMAIN data : data' = ReplaceAt(ReplaceAt(data, i, data[j]), j, data[i])
       \/ data' = RemoveAt(data, i)
       \/ data' = Append(data, i)
  /\ UNCHANGED <<file, secrets>>

CodecNext == LoseEnd \/ Damage

CodecSpec == CodecInit /\ [][CodecNext]_codecVars

-----------------------------------------------------------------------------
Loaded == LoadFromBytes(data)
Stored == [ok |-> TRUE, header |-> file[1], records |-> file[2]]
Digest(r) == <<MacInput(r.header, r.records), r.header.mac>>

(* Every file of either format is read back as the header and the records   *)
(* it was written from: no field is lost or taken for another (to_bytes,    *)
(* from_bytes, from_cursor). Of format 2 too, which the comment of          *)
(* FORMAT_VERSION says this build does not read.                            *)
ReadsBack == Whole => Loaded = Stored

(* A file with its end missing is an error at load, wherever it was cut,    *)
(* never a vault with fewer records or a shorter wrap.                      *)
TornRejected == file # NoFileYet /\ IsStrictPrefix(data, BytesOf(file)) => ~Loaded.ok

RecordMacs == [f \in RecordFiles |-> MacInput(f[1], f[2])]

(* Files that differ in anything but the MAC have different MAC inputs: no  *)
(* byte moves between a name, its value and the next record, nor between    *)
(* the formats, under the same MAC.                                         *)
MacTellsApart ==
  Whole /\ file \in RecordFiles =>
    \A f \in RecordFiles : RecordMacs[f] = MacInput(file[1], file[2]) => f = file

(* A damaged file is refused by the parser or by the MAC, or it still says  *)
(* what was stored: how a flag is spelt and what follows the last record is *)
(* all that may change unseen.                                              *)
DamageShows ==
  file # NoFileYet /\ Loaded.ok /\ Digest(Loaded) = Digest(Stored) => Loaded = Stored

Readable(s) == Len(s) <= MAX_NAME_LEN /\ NotUtf8 \notin ToSet(s)
Exactly(secret) ==
  [name |-> Plaintext({secret.name}), value |-> Plaintext(secret.value)]

(* The secrets of a saved vault come out of its bytes as they went in, and  *)
(* no tombstone does, or the vault does not open at all: for a name that is *)
(* too long or is not text.                                                 *)
SecretsReadBack ==
  Whole /\ file = SavedFile(secrets) =>
    Unlocked3(Loaded.records) =
      IF \A i \in DOMAIN secrets : Readable(secrets[i].name)
      THEN [ok |-> TRUE, records |-> [i \in DOMAIN secrets |-> Exactly(secrets[i])]]
      ELSE NoFile

Buckets(n, b) == CHOOSE k \in 1 .. n + 1 : b * k >= n /\ (k = 1 \/ b * (k - 1) < n)
Beyond(t, n) == t + n - 1
Extra(ns) == FoldLeft(Beyond, 0, ns)

(* The size of a saved file is a sum of full buckets: how many of records,  *)
(* of names and of values. Of the lengths themselves and of the number of   *)
(* records it tells nothing more.                                           *)
HidesSizes ==
  Whole /\ file = SavedFile(secrets) =>
    LET count == COUNT_BUCKET * Buckets(Len(secrets), COUNT_BUCKET)
        names == count + Extra([i \in DOMAIN secrets |->
                                  Buckets(2 + Len(secrets[i].name), NAME_BUCKET)])
        values == count + Extra([i \in DOMAIN secrets |->
                                   Buckets(1 + Len(secrets[i].value), VALUE_BUCKET)])
    IN  Len(data) = Len(FileBytes(NewHeader(3), <<>>)) + 3 * count
                      + NAME_BUCKET * names + VALUE_BUCKET * values

=============================================================================
