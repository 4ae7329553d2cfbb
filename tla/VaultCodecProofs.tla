-------------------------- MODULE VaultCodecProofs --------------------------
(***************************************************************************)
(* What the bytes of a vault file mean, for headers, records and files of  *)
(* any size.                                                               *)
(*                                                                         *)
(* Everything rests on where a piece lies in the data, Lies(d, p, s): two  *)
(* pieces one after the other lie there if each lies in its place, and a   *)
(* piece that begins with its length is the only one that can lie where it *)
(* does. So nothing that is written can be taken for another thing.        *)
(***************************************************************************)
EXTENDS VaultCodec, Integers, WellFoundedInduction, TLAPS

Blob == Seq(Nat)

AnyKdf == [mem : Nat, time : Nat, lanes : Nat, salt : Nat]
AnyEscrow == [kdf : AnyKdf, wrap : Blob]

AnyHeader ==
  [magic : Nat, version : Nat, bound : BOOLEAN, aead : Nat, kdf : AnyKdf,
   pcrs : Blob, tpm : {{}} \cup {{w} : w \in Blob}, dek : Blob,
   recovery : {{}} \cup {{r} : r \in AnyEscrow}, mac : Nat]

AnyRecord == [id : Nat, name : Blob, value : Blob]

(* The piece s lies in the data behind the first p cells.                   *)
Lies(d, p, s) ==
  /\ p + Len(s) <= Len(d)
  /\ \A i \in 1 .. Len(s) : d[p + i] = s[i]

-----------------------------------------------------------------------------
(* Induction                                                                *)

LEMMA LeastOne ==
  ASSUME NEW T \in SUBSET Nat, T # {}
  PROVE  \E n \in T : \A m \in T : n <= m
<1>1. PICK n \in T : \A m \in T : <<m, n>> \notin OpToRel(<, Nat)
  BY NatLessThanWellFounded, WFMin
<1>2. \A m \in T : ~(m < n)
  BY <1>1 DEF OpToRel
<1>3. QED
  BY <1>2

(* A set of numbers that has 0, and n + 1 with n, has them all.             *)
LEMMA Induction ==
  ASSUME NEW S, 0 \in S, \A n \in Nat : n \in S => n + 1 \in S
  PROVE  \A n \in Nat : n \in S
<1> SUFFICES ASSUME NEW m \in Nat, m \notin S PROVE FALSE
  OBVIOUS
<1> DEFINE T == {n \in Nat : n \notin S}
<1>1. PICK n \in T : \A i \in T : n <= i
  <2>1. T \in SUBSET Nat /\ T # {}
    OBVIOUS
  <2> HIDE DEF T
  <2>2. QED
    BY <2>1, LeastOne
<1>2. n # 0 /\ n - 1 \in Nat
  OBVIOUS
<1>3. n - 1 \in S
  BY <1>1, <1>2
<1>4. QED
  BY <1>2, <1>3

-----------------------------------------------------------------------------
(* Places                                                                   *)

LEMMA LiesAll == \A d \in Blob : Lies(d, 0, d)
BY DEF Lies, Blob

LEMMA Joined ==
  ASSUME NEW s \in Blob, NEW t \in Blob
  PROVE  s \o t \in Blob /\ Len(s \o t) = Len(s) + Len(t) /\ Len(s) \in Nat
BY DEF Blob

LEMMA LenNat == \A s \in Blob : Len(s) \in Nat
BY DEF Blob

LEMMA OneCell == \A n \in Nat : <<n>> \in Blob /\ Len(<<n>>) = 1 /\ <<n>>[1] = n
BY DEF Blob

(* Two pieces one after the other.                                          *)
LEMMA LiesSplit ==
  ASSUME NEW d \in Blob, NEW p \in Nat, NEW s \in Blob, NEW t \in Blob
  PROVE  Lies(d, p, s \o t) <=> Lies(d, p, s) /\ Lies(d, p + Len(s), t)
<1> USE DEF Blob
<1>1. /\ Len(s \o t) = Len(s) + Len(t)
      /\ \A i \in 1 .. Len(s) : (s \o t)[i] = s[i]
      /\ \A i \in 1 .. Len(t) : (s \o t)[Len(s) + i] = t[i]
  OBVIOUS
<1>2. ASSUME Lies(d, p, s \o t) PROVE Lies(d, p, s) /\ Lies(d, p + Len(s), t)
  <2>1. ASSUME NEW i \in 1 .. Len(t) PROVE d[(p + Len(s)) + i] = t[i]
    <3>1. Len(s) + i \in 1 .. Len(s \o t) /\ p + (Len(s) + i) = (p + Len(s)) + i
      BY <1>1
    <3>2. QED
      BY <1>1, <1>2, <3>1 DEF Lies
  <2>2. p + Len(s) <= Len(d) /\ (p + Len(s)) + Len(t) <= Len(d)
    BY <1>1, <1>2 DEF Lies
  <2>3. ASSUME NEW i \in 1 .. Len(s) PROVE d[p + i] = s[i]
    <3>1. i \in 1 .. Len(s \o t)
      BY <1>1
    <3>2. QED
      BY <1>1, <1>2, <3>1 DEF Lies
  <2>4. QED
    BY <2>1, <2>2, <2>3 DEF Lies
<1>3. ASSUME Lies(d, p, s), Lies(d, p + Len(s), t) PROVE Lies(d, p, s \o t)
  <2>1. ASSUME NEW i \in 1 .. Len(s \o t), i > Len(s) PROVE d[p + i] = (s \o t)[i]
    <3>1. i - Len(s) \in 1 .. Len(t) /\ Len(s) + (i - Len(s)) = i
          /\ (p + Len(s)) + (i - Len(s)) = p + i
      BY <1>1, <2>1
    <3>2. QED
      BY <1>1, <1>3, <3>1 DEF Lies
  <2>2. ASSUME NEW i \in 1 .. Len(s \o t), ~(i > Len(s)) PROVE d[p + i] = (s \o t)[i]
    BY <1>1, <1>3, <2>2 DEF Lies
  <2>3. p + Len(s \o t) <= Len(d)
    BY <1>1, <1>3 DEF Lies
  <2>4. QED
    BY <2>1, <2>2, <2>3 DEF Lies
<1>4. QED
  BY <1>2, <1>3

LEMMA SameBlob ==
  \A s \in Seq(Nat), t \in Seq(Nat) :
    Len(s) = Len(t) /\ (\A i \in 1 .. Len(s) : s[i] = t[i]) => s = t
OBVIOUS

(* Two pieces of one length at one place are one.                           *)
LEMMA LiesSame ==
  ASSUME NEW d \in Blob, NEW p \in Nat, NEW s \in Blob, NEW t \in Blob,
         Lies(d, p, s), Lies(d, p, t), Len(s) = Len(t)
  PROVE  s = t
<1>1. \A i \in 1 .. Len(s) : s[i] = t[i]
  BY DEF Lies
<1>2. QED
  BY <1>1, SameBlob DEF Blob

(* A byte string that begins with its length.                               *)
LEMMA PutBytesType ==
  ASSUME NEW v \in Blob
  PROVE  PutBytes(v) \in Blob /\ Len(PutBytes(v)) = 1 + Len(v)
BY DEF PutBytes, Blob

LEMMA LiesBytes ==
  ASSUME NEW d \in Blob, NEW p \in Nat, NEW v \in Blob
  PROVE  Lies(d, p, PutBytes(v)) <=> p < Len(d) /\ d[p + 1] = Len(v) /\ Lies(d, p + 1, v)
<1>1. <<Len(v)>> \in Blob /\ Len(<<Len(v)>>) = 1 /\ <<Len(v)>>[1] = Len(v)
  BY DEF Blob
<1>2. Lies(d, p, <<Len(v)>>) <=> p < Len(d) /\ d[p + 1] = Len(v)
  BY <1>1 DEF Lies, Blob
<1>3. QED
  BY <1>1, <1>2, LiesSplit DEF PutBytes

(* Only one byte string can lie at a place.                                 *)
LEMMA BytesTold ==
  ASSUME NEW d \in Blob, NEW p \in Nat, NEW v \in Blob, NEW w \in Blob,
         Lies(d, p, PutBytes(v)), Lies(d, p, PutBytes(w))
  PROVE  v = w
<1>1. Len(v) = Len(w) /\ Lies(d, p + 1, v) /\ Lies(d, p + 1, w)
  BY LiesBytes
<1>2. QED
  BY <1>1, LiesSame

-----------------------------------------------------------------------------
(* A header                                                                 *)

(* The pieces of a header, as they follow each other, and their places.     *)
Preamble(h) == <<h.magic, h.version>> \o PutFlag(h.bound) \o <<h.aead>>
PutKdf(h) == PutArgon2(h.kdf)
PutPcrs(h) == PutBytes(h.pcrs)
PutTpm(h) == PutOption(h.tpm, PutBytes)
PutDek(h) == PutBytes(h.dek)
PutRecovery(h) == PutOption(h.recovery, PutEscrow)
PutMac(h) == <<h.mac>>

AtKdf(p) == p + 4
AtPcrs(p) == AtKdf(p) + 4
AtTpm(h, p) == AtPcrs(p) + Len(PutPcrs(h))
AtDek(h, p) == AtTpm(h, p) + Len(PutTpm(h))
AtRecovery(h, p) == AtDek(h, p) + Len(PutDek(h))
AtMac(h, p) == AtRecovery(h, p) + Len(PutRecovery(h))

LEMMA PieceTypes ==
  ASSUME NEW h \in AnyHeader
  PROVE  /\ Preamble(h) \in Blob /\ Len(Preamble(h)) = 4
         /\ Preamble(h)[1] = h.magic /\ Preamble(h)[2] = h.version
         /\ Preamble(h)[3] = (IF h.bound THEN 1 ELSE 0) /\ Preamble(h)[4] = h.aead
         /\ h.pcrs \in Blob /\ h.dek \in Blob
<1>1. h.magic \in Nat /\ h.version \in Nat /\ h.bound \in BOOLEAN /\ h.aead \in Nat
      /\ h.pcrs \in Blob /\ h.dek \in Blob
  BY DEF AnyHeader
<1>2. CASE h.bound
  BY <1>1, <1>2 DEF Preamble, PutFlag, Blob
<1>3. CASE ~h.bound
  BY <1>1, <1>3 DEF Preamble, PutFlag, Blob
<1>4. QED
  BY <1>1, <1>2, <1>3

LEMMA Argon2Type ==
  ASSUME NEW k \in AnyKdf
  PROVE  /\ PutArgon2(k) \in Blob /\ Len(PutArgon2(k)) = 4
         /\ PutArgon2(k)[1] = k.mem /\ PutArgon2(k)[2] = k.time
         /\ PutArgon2(k)[3] = k.lanes /\ PutArgon2(k)[4] = k.salt
<1>1. k.mem \in Nat /\ k.time \in Nat /\ k.lanes \in Nat /\ k.salt \in Nat
  BY DEF AnyKdf
<1>2. QED
  BY <1>1 DEF PutArgon2, Blob

LEMMA EscrowType ==
  ASSUME NEW r \in AnyEscrow
  PROVE  /\ PutEscrow(r) \in Blob /\ Len(PutEscrow(r)) = 5 + Len(r.wrap)
         /\ r.kdf \in AnyKdf /\ r.wrap \in Blob
<1>1. r.kdf \in AnyKdf /\ r.wrap \in Blob
  BY DEF AnyEscrow
<1>2. /\ PutArgon2(r.kdf) \in Blob /\ Len(PutArgon2(r.kdf)) = 4
      /\ PutBytes(r.wrap) \in Blob /\ Len(PutBytes(r.wrap)) = 1 + Len(r.wrap) /\ Len(r.wrap) \in Nat
  BY <1>1, Argon2Type, PutBytesType, LenNat
<1>3. PutEscrow(r) \in Blob /\ Len(PutEscrow(r)) = Len(PutArgon2(r.kdf)) + Len(PutBytes(r.wrap))
  BY <1>2, Joined DEF PutEscrow
<1>4. QED
  BY <1>1, <1>2, <1>3

(* An optional field that is not there, and one that is.                    *)
LEMMA TpmCases ==
  ASSUME NEW h \in AnyHeader
  PROVE  /\ PutTpm(h) \in Blob
         /\ \/ h.tpm = {} /\ PutTpm(h) = <<0>>
            \/ \E w \in Blob : h.tpm = {w} /\ PutTpm(h) = <<1>> \o PutBytes(w)
<1>1. CASE h.tpm = {}
  BY <1>1 DEF PutTpm, PutOption, Blob
<1>2. CASE h.tpm # {}
  <2>1. PICK w \in Blob : h.tpm = {w}
    BY <1>2 DEF AnyHeader
  <2>2. (CHOOSE y \in {w} : TRUE) = w
    OBVIOUS
  <2>3. PutTpm(h) = <<1>> \o PutBytes(w)
    BY <2>1, <2>2 DEF PutTpm, PutOption
  <2>4. <<1>> \o PutBytes(w) \in Blob
    BY PutBytesType DEF Blob
  <2>5. QED
    BY <2>1, <2>3, <2>4
<1>3. QED
  BY <1>1, <1>2

LEMMA RecoveryCases ==
  ASSUME NEW h \in AnyHeader
  PROVE  /\ PutRecovery(h) \in Blob
         /\ \/ h.recovery = {} /\ PutRecovery(h) = <<0>>
            \/ \E r \in AnyEscrow : h.recovery = {r} /\ PutRecovery(h) = <<1>> \o PutEscrow(r)
<1>1. CASE h.recovery = {}
  BY <1>1 DEF PutRecovery, PutOption, Blob
<1>2. CASE h.recovery # {}
  <2>1. PICK r \in AnyEscrow : h.recovery = {r}
    BY <1>2 DEF AnyHeader
  <2>2. (CHOOSE y \in {r} : TRUE) = r
    OBVIOUS
  <2>3. PutRecovery(h) = <<1>> \o PutEscrow(r)
    BY <2>1, <2>2 DEF PutRecovery, PutOption
  <2>4. <<1>> \o PutEscrow(r) \in Blob
    BY EscrowType DEF Blob
  <2>5. QED
    BY <2>1, <2>3, <2>4
<1>3. QED
  BY <1>1, <1>2

(* Every piece in its place.                                                *)
LEMMA Follows ==
  ASSUME NEW d \in Blob, NEW p \in Nat, NEW s \in Blob, NEW t \in Blob,
         NEW q \in Nat, q = p + Len(s)
  PROVE  /\ s \o t \in Blob
         /\ p + Len(s \o t) = q + Len(t)
         /\ Lies(d, p, s \o t) <=> Lies(d, p, s) /\ Lies(d, q, t)
<1>1. q \in Nat /\ s \o t \in Blob /\ Len(s \o t) = Len(s) + Len(t) /\ Len(t) \in Nat /\ Len(s) \in Nat
  BY DEF Blob
<1>2. p + Len(s \o t) = q + Len(t)
  BY <1>1
<1>3. QED
  BY <1>1, <1>2, LiesSplit

LEMMA Pieces ==
  ASSUME NEW h \in AnyHeader
  PROVE  /\ Preamble(h) \in Blob /\ PutKdf(h) \in Blob /\ PutPcrs(h) \in Blob
         /\ PutTpm(h) \in Blob /\ PutDek(h) \in Blob /\ PutRecovery(h) \in Blob
         /\ PutMac(h) \in Blob
         /\ Len(Preamble(h)) = 4 /\ Len(PutKdf(h)) = 4 /\ Len(PutMac(h)) = 1
<1>1. h.kdf \in AnyKdf /\ h.mac \in Nat /\ h.pcrs \in Blob /\ h.dek \in Blob
  BY DEF AnyHeader
<1>2. PutKdf(h) \in Blob /\ Len(PutKdf(h)) = 4
  BY <1>1, Argon2Type DEF PutKdf
<1>3. PutPcrs(h) \in Blob /\ PutDek(h) \in Blob
  BY <1>1, PutBytesType DEF PutPcrs, PutDek
<1>4. PutMac(h) \in Blob /\ Len(PutMac(h)) = 1
  BY <1>1, OneCell DEF PutMac
<1>5. QED
  BY <1>2, <1>3, <1>4, PieceTypes, TpmCases, RecoveryCases

LEMMA HeaderPlaces ==
  ASSUME NEW d \in Blob, NEW p \in Nat, NEW h \in AnyHeader
  PROVE  /\ HeaderBytes(h) \in Blob
         /\ AtTpm(h, p) \in Nat /\ AtDek(h, p) \in Nat /\ AtRecovery(h, p) \in Nat
         /\ AtMac(h, p) \in Nat /\ p + Len(HeaderBytes(h)) = AtMac(h, p) + 1
         /\ Lies(d, p, HeaderBytes(h)) <=>
              /\ Lies(d, p, Preamble(h)) /\ Lies(d, AtKdf(p), PutKdf(h))
              /\ Lies(d, AtPcrs(p), PutPcrs(h)) /\ Lies(d, AtTpm(h, p), PutTpm(h))
              /\ Lies(d, AtDek(h, p), PutDek(h))
              /\ Lies(d, AtRecovery(h, p), PutRecovery(h))
              /\ Lies(d, AtMac(h, p), PutMac(h))
<1> DEFINE a == Preamble(h) \o PutKdf(h)
           b == a \o PutPcrs(h)
           c == b \o PutTpm(h)
           e == c \o PutDek(h)
           f == e \o PutRecovery(h)
<1>1. HeaderBytes(h) = f \o PutMac(h)
  BY DEF HeaderBytes, Preamble, PutKdf, PutPcrs, PutTpm, PutDek, PutRecovery, PutMac
<1>2. /\ Preamble(h) \in Blob /\ PutKdf(h) \in Blob /\ PutPcrs(h) \in Blob
      /\ PutTpm(h) \in Blob /\ PutDek(h) \in Blob /\ PutRecovery(h) \in Blob
      /\ PutMac(h) \in Blob
  BY Pieces
<1>3. Len(Preamble(h)) = 4 /\ Len(PutKdf(h)) = 4 /\ Len(PutMac(h)) = 1
  BY Pieces
<1>4. /\ Len(PutPcrs(h)) \in Nat /\ Len(PutTpm(h)) \in Nat /\ Len(PutDek(h)) \in Nat
      /\ Len(PutRecovery(h)) \in Nat
  BY <1>2, LenNat
<1>5. /\ AtKdf(p) \in Nat /\ AtPcrs(p) \in Nat /\ AtTpm(h, p) \in Nat /\ AtDek(h, p) \in Nat
      /\ AtRecovery(h, p) \in Nat /\ AtMac(h, p) \in Nat
  BY <1>4 DEF AtKdf, AtPcrs, AtTpm, AtDek, AtRecovery, AtMac
<1>6. AtKdf(p) = p + Len(Preamble(h)) /\ AtPcrs(p) = AtKdf(p) + Len(PutKdf(h))
  BY <1>3 DEF AtKdf, AtPcrs
<1>p. /\ AtPcrs(p) = AtKdf(p) + Len(PutKdf(h))
      /\ AtTpm(h, p) = AtPcrs(p) + Len(PutPcrs(h)) /\ AtDek(h, p) = AtTpm(h, p) + Len(PutTpm(h))
      /\ AtRecovery(h, p) = AtDek(h, p) + Len(PutDek(h))
      /\ AtMac(h, p) = AtRecovery(h, p) + Len(PutRecovery(h))
  BY <1>3 DEF AtKdf, AtPcrs, AtTpm, AtDek, AtRecovery, AtMac
<1>a. /\ a \in Blob /\ p + Len(a) = AtPcrs(p)
      /\ Lies(d, p, a) <=> Lies(d, p, Preamble(h)) /\ Lies(d, AtKdf(p), PutKdf(h))
  <2>1. Preamble(h) \in Blob /\ PutKdf(h) \in Blob /\ AtKdf(p) \in Nat /\ AtKdf(p) = p + Len(Preamble(h))
    BY <1>2, <1>5, <1>6
  <2>2. /\ a \in Blob /\ p + Len(a) = AtKdf(p) + Len(PutKdf(h))
        /\ Lies(d, p, a) <=> Lies(d, p, Preamble(h)) /\ Lies(d, AtKdf(p), PutKdf(h))
    BY <2>1, Follows
  <2>3. QED
    BY <2>2, <1>p
<1> HIDE DEF a
<1>b. /\ b \in Blob /\ p + Len(b) = AtTpm(h, p)
      /\ Lies(d, p, b) <=> Lies(d, p, a) /\ Lies(d, AtPcrs(p), PutPcrs(h))
  <2>1. a \in Blob /\ PutPcrs(h) \in Blob /\ AtPcrs(p) \in Nat /\ AtPcrs(p) = p + Len(a)
    BY <1>2, <1>5, <1>a
  <2>2. /\ b \in Blob /\ p + Len(b) = AtPcrs(p) + Len(PutPcrs(h))
        /\ Lies(d, p, b) <=> Lies(d, p, a) /\ Lies(d, AtPcrs(p), PutPcrs(h))
    BY <2>1, Follows
  <2>3. QED
    BY <2>2, <1>p
<1> HIDE DEF b
<1>c. /\ c \in Blob /\ p + Len(c) = AtDek(h, p)
      /\ Lies(d, p, c) <=> Lies(d, p, b) /\ Lies(d, AtTpm(h, p), PutTpm(h))
  <2>1. b \in Blob /\ PutTpm(h) \in Blob /\ AtTpm(h, p) \in Nat /\ AtTpm(h, p) = p + Len(b)
    BY <1>2, <1>5, <1>b
  <2>2. /\ c \in Blob /\ p + Len(c) = AtTpm(h, p) + Len(PutTpm(h))
        /\ Lies(d, p, c) <=> Lies(d, p, b) /\ Lies(d, AtTpm(h, p), PutTpm(h))
    BY <2>1, Follows
  <2>3. QED
    BY <2>2, <1>p
<1> HIDE DEF c
<1>e. /\ e \in Blob /\ p + Len(e) = AtRecovery(h, p)
      /\ Lies(d, p, e) <=> Lies(d, p, c) /\ Lies(d, AtDek(h, p), PutDek(h))
  <2>1. c \in Blob /\ PutDek(h) \in Blob /\ AtDek(h, p) \in Nat /\ AtDek(h, p) = p + Len(c)
    BY <1>2, <1>5, <1>c
  <2>2. /\ e \in Blob /\ p + Len(e) = AtDek(h, p) + Len(PutDek(h))
        /\ Lies(d, p, e) <=> Lies(d, p, c) /\ Lies(d, AtDek(h, p), PutDek(h))
    BY <2>1, Follows
  <2>3. QED
    BY <2>2, <1>p
<1> HIDE DEF e
<1>f. /\ f \in Blob /\ p + Len(f) = AtMac(h, p)
      /\ Lies(d, p, f) <=> Lies(d, p, e) /\ Lies(d, AtRecovery(h, p), PutRecovery(h))
  <2>1. e \in Blob /\ PutRecovery(h) \in Blob /\ AtRecovery(h, p) \in Nat /\ AtRecovery(h, p) = p + Len(e)
    BY <1>2, <1>5, <1>e
  <2>2. /\ f \in Blob /\ p + Len(f) = AtRecovery(h, p) + Len(PutRecovery(h))
        /\ Lies(d, p, f) <=> Lies(d, p, e) /\ Lies(d, AtRecovery(h, p), PutRecovery(h))
    BY <2>1, Follows
  <2>3. QED
    BY <2>2, <1>p
<1> HIDE DEF f
<1>g. /\ HeaderBytes(h) \in Blob /\ p + Len(HeaderBytes(h)) = AtMac(h, p) + Len(PutMac(h))
      /\ Lies(d, p, HeaderBytes(h)) <=> Lies(d, p, f) /\ Lies(d, AtMac(h, p), PutMac(h))
  <2>1. f \in Blob /\ PutMac(h) \in Blob /\ AtMac(h, p) \in Nat /\ AtMac(h, p) = p + Len(f)
    BY <1>2, <1>5, <1>f
  <2>2. HeaderBytes(h) = f \o PutMac(h)
    BY <1>1
  <2>3. QED
    BY <2>1, <2>2, Follows
<1>h. p + Len(HeaderBytes(h)) = AtMac(h, p) + 1
  BY <1>3, <1>g
<1>7. QED
  BY <1>5, <1>a, <1>b, <1>c, <1>e, <1>f, <1>g, <1>h

LEMMA HeaderType ==
  ASSUME NEW h \in AnyHeader
  PROVE  HeaderBytes(h) \in Blob
<1>1. <<>> \in Blob /\ 0 \in Nat
  BY DEF Blob
<1>2. QED
  BY <1>1, HeaderPlaces

(* Only one such field can lie at a place, and only one header.             *)
LEMMA FlagTold ==
  ASSUME NEW d \in Blob, NEW q \in Nat, NEW n \in Nat, NEW s \in Blob,
         Lies(d, q, <<n>> \o s)
  PROVE  d[q + 1] = n /\ Lies(d, q + 1, s)
<1>1. <<n>> \in Blob /\ Len(<<n>>) = 1 /\ <<n>>[1] = n
  BY OneCell
<1>2. Lies(d, q, <<n>>) /\ Lies(d, q + 1, s)
  BY <1>1, LiesSplit
<1>3. QED
  BY <1>1, <1>2 DEF Lies

LEMMA TpmTold ==
  ASSUME NEW d \in Blob, NEW q \in Nat, NEW h \in AnyHeader, NEW k \in AnyHeader,
         Lies(d, q, PutTpm(h)), Lies(d, q, PutTpm(k))
  PROVE  h.tpm = k.tpm
<1>1. \A x \in AnyHeader : Lies(d, q, PutTpm(x)) =>
        \/ x.tpm = {} /\ d[q + 1] = 0
        \/ \E w \in Blob : x.tpm = {w} /\ d[q + 1] = 1 /\ Lies(d, q + 1, PutBytes(w))
  <2> SUFFICES ASSUME NEW x \in AnyHeader, Lies(d, q, PutTpm(x))
               PROVE  \/ x.tpm = {} /\ d[q + 1] = 0
                      \/ \E w \in Blob : /\ x.tpm = {w} /\ d[q + 1] = 1
                                         /\ Lies(d, q + 1, PutBytes(w))
    OBVIOUS
  <2>1. CASE x.tpm = {} /\ PutTpm(x) = <<0>>
    <3>1. Lies(d, q, <<0>>)
      BY <2>1
    <3>2. QED
      BY <2>1, <3>1, OneCell DEF Lies
  <2>2. ASSUME NEW w \in Blob, x.tpm = {w}, PutTpm(x) = << 1 >> \o PutBytes(w)
        PROVE  d[q + 1] = 1 /\ Lies(d, q + 1, PutBytes(w))
    <3>1. Lies(d, q, <<1>> \o PutBytes(w)) /\ PutBytes(w) \in Blob
      BY <2>2, PutBytesType
    <3>2. QED
      BY <3>1, FlagTold
  <2>3. QED
    BY <2>1, <2>2, TpmCases
<1>2. q + 1 \in Nat
  OBVIOUS
<1>3. /\ \/ h.tpm = {} /\ d[q + 1] = 0
         \/ \E w \in Blob : h.tpm = {w} /\ d[q + 1] = 1 /\ Lies(d, q + 1, PutBytes(w))
      /\ \/ k.tpm = {} /\ d[q + 1] = 0
         \/ \E w \in Blob : k.tpm = {w} /\ d[q + 1] = 1 /\ Lies(d, q + 1, PutBytes(w))
  BY <1>1
<1>4. CASE d[q + 1] = 0
  BY <1>3, <1>4
<1>5. CASE d[q + 1] = 1
  <2>1. PICK v \in Blob : h.tpm = {v} /\ Lies(d, q + 1, PutBytes(v))
    BY <1>3, <1>5
  <2>2. PICK w \in Blob : k.tpm = {w} /\ Lies(d, q + 1, PutBytes(w))
    BY <1>3, <1>5
  <2>3. v = w
    BY <1>2, <2>1, <2>2, BytesTold
  <2>4. QED
    BY <2>1, <2>2, <2>3
<1>6. QED
  BY <1>3, <1>4, <1>5

LEMMA KdfTold ==
  ASSUME NEW d \in Blob, NEW q \in Nat, NEW k \in AnyKdf, NEW l \in AnyKdf,
         Lies(d, q, PutArgon2(k)), Lies(d, q, PutArgon2(l))
  PROVE  k = l
<1>1. PutArgon2(k) = PutArgon2(l)
  BY Argon2Type, LiesSame
<1>2. k.mem = l.mem /\ k.time = l.time /\ k.lanes = l.lanes /\ k.salt = l.salt
  BY <1>1, Argon2Type
<1>3. QED
  BY <1>2 DEF AnyKdf

LEMMA EscrowPlaces ==
  ASSUME NEW d \in Blob, NEW q \in Nat, NEW r \in AnyEscrow
  PROVE  Lies(d, q, PutEscrow(r))
           <=> Lies(d, q, PutArgon2(r.kdf)) /\ Lies(d, q + 4, PutBytes(r.wrap))
<1>1. /\ PutArgon2(r.kdf) \in Blob /\ PutBytes(r.wrap) \in Blob
      /\ Len(PutArgon2(r.kdf)) = 4
  BY EscrowType, Argon2Type, PutBytesType
<1>2. QED
  BY <1>1, LiesSplit DEF PutEscrow

LEMMA RecoveryTold ==
  ASSUME NEW d \in Blob, NEW q \in Nat, NEW h \in AnyHeader, NEW k \in AnyHeader,
         Lies(d, q, PutRecovery(h)), Lies(d, q, PutRecovery(k))
  PROVE  h.recovery = k.recovery
<1>1. \A x \in AnyHeader : Lies(d, q, PutRecovery(x)) =>
        \/ x.recovery = {} /\ d[q + 1] = 0
        \/ \E r \in AnyEscrow :
             x.recovery = {r} /\ d[q + 1] = 1 /\ Lies(d, q + 1, PutEscrow(r))
  <2> SUFFICES ASSUME NEW x \in AnyHeader, Lies(d, q, PutRecovery(x))
               PROVE  \/ x.recovery = {} /\ d[q + 1] = 0
                      \/ \E r \in AnyEscrow : /\ x.recovery = {r} /\ d[q + 1] = 1
                                              /\ Lies(d, q + 1, PutEscrow(r))
    OBVIOUS
  <2>1. CASE x.recovery = {} /\ PutRecovery(x) = <<0>>
    <3>1. Lies(d, q, <<0>>)
      BY <2>1
    <3>2. QED
      BY <2>1, <3>1, OneCell DEF Lies
  <2>2. ASSUME NEW r \in AnyEscrow, x.recovery = {r}, PutRecovery(x) = << 1 >> \o PutEscrow(r)
        PROVE  d[q + 1] = 1 /\ Lies(d, q + 1, PutEscrow(r))
    <3>1. Lies(d, q, <<1>> \o PutEscrow(r)) /\ PutEscrow(r) \in Blob
      BY <2>2, EscrowType
    <3>2. QED
      BY <3>1, FlagTold
  <2>3. QED
    BY <2>1, <2>2, RecoveryCases
<1>2. \A r, s \in AnyEscrow :
        Lies(d, q + 1, PutEscrow(r)) /\ Lies(d, q + 1, PutEscrow(s)) => r = s
  <2> SUFFICES ASSUME NEW r \in AnyEscrow, NEW s \in AnyEscrow,
                      Lies(d, q + 1, PutEscrow(r)), Lies(d, q + 1, PutEscrow(s))
               PROVE  r = s
    OBVIOUS
  <2>1. /\ Lies(d, q + 1, PutArgon2(r.kdf)) /\ Lies(d, (q + 1) + 4, PutBytes(r.wrap))
        /\ Lies(d, q + 1, PutArgon2(s.kdf)) /\ Lies(d, (q + 1) + 4, PutBytes(s.wrap))
    BY EscrowPlaces
  <2>2. q + 1 \in Nat /\ (q + 1) + 4 \in Nat
    OBVIOUS
  <2>3. r.kdf = s.kdf /\ r.wrap = s.wrap
    BY <2>1, <2>2, EscrowType, KdfTold, BytesTold
  <2>4. QED
    BY <2>3 DEF AnyEscrow
<1>3. QED
  BY <1>1, <1>2

LEMMA HeaderTold ==
  ASSUME NEW d \in Blob, NEW p \in Nat, NEW h \in AnyHeader, NEW k \in AnyHeader,
         Lies(d, p, HeaderBytes(h)), Lies(d, p, HeaderBytes(k))
  PROVE  h = k
<1>1. AtKdf(p) \in Nat /\ AtPcrs(p) \in Nat
  BY DEF AtKdf, AtPcrs
<1>2. h.magic = k.magic /\ h.version = k.version /\ h.bound = k.bound /\ h.aead = k.aead
  <2>0. Lies(d, p, Preamble(h)) /\ Lies(d, p, Preamble(k))
    BY HeaderPlaces
  <2>1. Preamble(h) = Preamble(k)
    BY <2>0, Pieces, LiesSame
  <2>2. QED
    BY <2>1, PieceTypes DEF AnyHeader
<1>3. h.kdf = k.kdf
  <2>1. h.kdf \in AnyKdf /\ k.kdf \in AnyKdf
    BY DEF AnyHeader
  <2>2. QED
    BY <1>1, <2>1, HeaderPlaces, KdfTold DEF PutKdf
<1>4. h.pcrs = k.pcrs
  <2>1. Lies(d, AtPcrs(p), PutBytes(h.pcrs)) /\ Lies(d, AtPcrs(p), PutBytes(k.pcrs))
    BY HeaderPlaces DEF PutPcrs
  <2>2. QED
    BY <1>1, <2>1, PieceTypes, BytesTold
<1>5. AtTpm(h, p) = AtTpm(k, p) /\ h.tpm = k.tpm
  <2>1. AtTpm(h, p) = AtTpm(k, p)
    BY <1>4 DEF AtTpm, PutPcrs
  <2>2. QED
    BY <2>1, HeaderPlaces, TpmTold
<1>6. AtDek(h, p) = AtDek(k, p) /\ h.dek = k.dek
  <2>1. AtDek(h, p) = AtDek(k, p)
    BY <1>5 DEF AtDek, PutTpm
  <2>2. AtDek(h, p) \in Nat /\ Lies(d, AtDek(h, p), PutBytes(h.dek))
        /\ Lies(d, AtDek(h, p), PutBytes(k.dek))
    BY <2>1, HeaderPlaces DEF PutDek
  <2>3. QED
    BY <2>1, <2>2, PieceTypes, BytesTold
<1>7. AtRecovery(h, p) = AtRecovery(k, p) /\ h.recovery = k.recovery
  <2>1. AtRecovery(h, p) = AtRecovery(k, p)
    BY <1>6 DEF AtRecovery, PutDek
  <2>2. QED
    BY <2>1, HeaderPlaces, RecoveryTold
<1>8. h.mac = k.mac
  <2>1. AtMac(h, p) = AtMac(k, p)
    BY <1>7 DEF AtMac, PutRecovery
  <2>2. Lies(d, AtMac(h, p), PutMac(h)) /\ Lies(d, AtMac(h, p), PutMac(k)) /\ AtMac(h, p) \in Nat
    BY <2>1, HeaderPlaces
  <2>3. PutMac(h) = PutMac(k)
    BY <2>2, Pieces, LiesSame
  <2>4. h.mac \in Nat /\ k.mac \in Nat
    BY DEF AnyHeader
  <2>5. QED
    BY <2>3, <2>4, OneCell DEF PutMac
<1>9. QED
  BY <1>2, <1>3, <1>4, <1>5, <1>6, <1>7, <1>8 DEF AnyHeader

-----------------------------------------------------------------------------
(* Records                                                                  *)

(* The place where each record ends, the first one beginning at p.          *)
Ends(rs, p, end) ==
  /\ end \in [0 .. Len(rs) -> Nat]
  /\ end[0] = p
  /\ \A i \in 1 .. Len(rs) : end[i] = end[i - 1] + Len(RecordBytes(rs[i]))

NameLen(r) == Len(r.name)
ValueLen(r) == Len(r.value)

LEMMA RecordType ==
  ASSUME NEW r \in AnyRecord
  PROVE  /\ r.id \in Nat /\ r.name \in Blob /\ r.value \in Blob
         /\ RecordBytes(r) \in Blob
         /\ Len(RecordBytes(r)) = 3 + NameLen(r) + ValueLen(r)
<1>1. r.id \in Nat /\ r.name \in Blob /\ r.value \in Blob
  BY DEF AnyRecord
<1>2. <<r.id>> \in Blob /\ PutBytes(r.name) \in Blob /\ PutBytes(r.value) \in Blob
      /\ Len(<<r.id>>) = 1 /\ Len(PutBytes(r.name)) = 1 + NameLen(r)
      /\ Len(PutBytes(r.value)) = 1 + ValueLen(r)
  BY <1>1, OneCell, PutBytesType DEF NameLen, ValueLen
<1>3. <<r.id>> \o PutBytes(r.name) \in Blob
      /\ Len(<<r.id>> \o PutBytes(r.name)) = Len(<<r.id>>) + Len(PutBytes(r.name))
  BY <1>2, Joined
<1>4. RecordBytes(r) \in Blob
      /\ Len(RecordBytes(r)) = Len(<<r.id>> \o PutBytes(r.name)) + Len(PutBytes(r.value))
  BY <1>2, <1>3, Joined DEF RecordBytes
<1>5. NameLen(r) \in Nat /\ ValueLen(r) \in Nat
  BY <1>1, LenNat DEF NameLen, ValueLen
<1>6. QED
  BY <1>1, <1>2, <1>3, <1>4, <1>5

LEMMA RecordPlaces ==
  ASSUME NEW d \in Blob, NEW p \in Nat, NEW r \in AnyRecord
  PROVE  Lies(d, p, RecordBytes(r)) <=>
           /\ p < Len(d) /\ d[p + 1] = r.id
           /\ Lies(d, p + 1, PutBytes(r.name))
           /\ Lies(d, p + 2 + NameLen(r), PutBytes(r.value))
<1>1. r.id \in Nat /\ r.name \in Blob /\ r.value \in Blob
  BY DEF AnyRecord
<1>2. <<r.id>> \in Blob /\ PutBytes(r.name) \in Blob /\ PutBytes(r.value) \in Blob
      /\ Len(<<r.id>>) = 1 /\ <<r.id>>[1] = r.id /\ Len(PutBytes(r.name)) = 1 + NameLen(r)
      /\ NameLen(r) \in Nat
  BY <1>1, OneCell, PutBytesType, LenNat DEF NameLen
<1> DEFINE head == <<r.id>> \o PutBytes(r.name)
<1>3. head \in Blob /\ Len(head) = Len(<<r.id>>) + Len(PutBytes(r.name))
  BY <1>2, Joined
<1>4. Lies(d, p, head) <=> Lies(d, p, <<r.id>>) /\ Lies(d, p + Len(<<r.id>>), PutBytes(r.name))
  BY <1>2, LiesSplit
<1>5. Lies(d, p, RecordBytes(r)) <=> Lies(d, p, head) /\ Lies(d, p + Len(head), PutBytes(r.value))
  BY <1>2, <1>3, LiesSplit DEF RecordBytes
<1> HIDE DEF head
<1>6. p + Len(head) = p + 2 + NameLen(r) /\ p + Len(<<r.id>>) = p + 1
  BY <1>2, <1>3
<1>7. Lies(d, p, <<r.id>>) <=> p < Len(d) /\ d[p + 1] = r.id
  <2>1. Len(d) \in Nat
    BY LenNat
  <2>2. QED
    BY <1>2, <2>1 DEF Lies
<1>8. QED
  BY <1>4, <1>5, <1>6, <1>7

LEMMA RecordTold ==
  ASSUME NEW d \in Blob, NEW p \in Nat, NEW r \in AnyRecord, NEW s \in AnyRecord,
         Lies(d, p, RecordBytes(r)), Lies(d, p, RecordBytes(s))
  PROVE  r = s
<1>1. r.name \in Blob /\ r.value \in Blob /\ s.name \in Blob /\ s.value \in Blob
  BY DEF AnyRecord
<1>2. r.id = s.id /\ Lies(d, p + 1, PutBytes(r.name)) /\ Lies(d, p + 1, PutBytes(s.name))
      /\ Lies(d, p + 2 + NameLen(r), PutBytes(r.value))
      /\ Lies(d, p + 2 + NameLen(s), PutBytes(s.value))
  BY RecordPlaces
<1>3. r.name = s.name /\ NameLen(r) = NameLen(s)
  BY <1>1, <1>2, BytesTold DEF NameLen
<1>4. p + 2 + NameLen(r) \in Nat
  <2>1. NameLen(r) \in Nat
    BY <1>1, LenNat DEF NameLen
  <2>2. QED
    BY <2>1
<1>5. r.value = s.value
  BY <1>1, <1>2, <1>3, <1>4, BytesTold
<1>6. QED
  BY <1>2, <1>3, <1>5 DEF AnyRecord

(* A set of sequences that has those put together of two.                   *)
Closed(B) ==
  /\ <<>> \in B
  /\ \A s \in B : <<>> \o s = s /\ \A t \in B : s \o t \in B

LEMMA BlobClosed == Closed(Blob)
<1>1. <<>> \in Blob /\ \A s \in Blob : <<>> \o s = s
  BY DEF Blob
<1>2. QED
  BY <1>1, Joined DEF Closed

(* What the first n pieces of a sequence are, put together one by one.      *)
Joins(B, ss, n, g) ==
  /\ g \in [0 .. n -> B]
  /\ g[0] = <<>>
  /\ \A i \in 1 .. n : g[i] = g[i - 1] \o ss[i]

LEMMA JoinsExist ==
  ASSUME NEW B, Closed(B), NEW ss \in Seq(B)
  PROVE  \A n \in Nat : n <= Len(ss) => \E g : Joins(B, ss, n, g)
<1> DEFINE S == {n \in Nat : n <= Len(ss) => \E g : Joins(B, ss, n, g)}
<1>1. 0 \in S
  <2> DEFINE g == [i \in 0 .. 0 |-> <<>>]
  <2>1. <<>> \in B
    BY DEF Closed
  <2>2. Joins(B, ss, 0, g)
    BY <2>1 DEF Joins
  <2> HIDE DEF g
  <2>3. QED
    BY <2>2
<1>2. ASSUME NEW n \in Nat, n + 1 <= Len(ss), NEW f, Joins(B, ss, n, f)
      PROVE  \E g : Joins(B, ss, n + 1, g)
  <2>1. ss[n + 1] \in B /\ f[n] \in B
    BY <1>2 DEF Joins
  <2>2. f[n] \o ss[n + 1] \in B
    BY <2>1 DEF Closed
  <2> DEFINE g == [i \in 0 .. n + 1 |-> IF i = n + 1 THEN f[n] \o ss[n + 1] ELSE f[i]]
  <2>3. g \in [0 .. n + 1 -> B]
    BY <2>2, <1>2 DEF Joins
  <2>4. g[0] = <<>>
    BY <1>2 DEF Joins
  <2>5. ASSUME NEW i \in 1 .. n + 1 PROVE g[i] = g[i - 1] \o ss[i]
    <3>1. CASE i = n + 1
      <4>1. g[i] = f[n] \o ss[n + 1] /\ g[i - 1] = f[n]
        BY <3>1
      <4>2. QED
        BY <3>1, <4>1
    <3>2. CASE i # n + 1
      <4>1. i \in 1 .. n /\ g[i] = f[i] /\ g[i - 1] = f[i - 1]
        BY <3>2
      <4>2. QED
        BY <4>1, <1>2 DEF Joins
    <3>3. QED
      BY <3>1, <3>2
  <2> HIDE DEF g
  <2>6. QED
    BY <2>3, <2>4, <2>5 DEF Joins
<1>3. \A n \in Nat : n \in S => n + 1 \in S
  <2> SUFFICES ASSUME NEW n \in Nat, n \in S, n + 1 <= Len(ss)
               PROVE  \E g : Joins(B, ss, n + 1, g)
    OBVIOUS
  <2>1. n <= Len(ss)
    OBVIOUS
  <2>2. \E f : Joins(B, ss, n, f)
    BY <2>1
  <2> HIDE DEF S
  <2>3. QED
    BY <2>2, <1>2
<1>4. \A n \in Nat : n \in S
  <2> HIDE DEF S
  <2>1. QED
    BY <1>1, <1>3, Induction
<1>5. QED
  BY <1>4

LEMMA Flattened ==
  ASSUME NEW B, Closed(B), NEW ss \in Seq(B)
  PROVE  \E g : Joins(B, ss, Len(ss), g) /\ FlattenSeq(ss) = g[Len(ss)]
<1>0. PICK g : Joins(B, ss, Len(ss), g)
  BY JoinsExist
<1>1. CASE Len(ss) = 0
  <2>1. ss = <<>>
    BY <1>1
  <2>2. FlattenSeq(ss) = <<>>
    BY <2>1 DEF FlattenSeq
  <2>3. QED
    BY <1>0, <1>1, <2>2 DEF Joins
<1>2. CASE Len(ss) # 0
  <2> DEFINE Is(f) == f = [i \in 1 .. Len(ss) |-> IF i = 1 THEN ss[i] ELSE f[i - 1] \o ss[i]]
             g1 == [i \in 1 .. Len(ss) |-> g[i]]
  <2>1. FlattenSeq(ss) = (CHOOSE f : Is(f))[Len(ss)]
    BY <1>2 DEF FlattenSeq
  <2>2. Len(ss) \in Nat \ {0} /\ ss[1] \in B
    BY <1>2
  <2>3. ss[1] = <<>> \o ss[1]
    BY <2>2 DEF Closed
  <2>d. g[1] = ss[1]
    <3>1. 1 \in 1 .. Len(ss) /\ 1 - 1 = 0
      BY <2>2
    <3>2. g[0] = <<>> /\ \A i \in 1 .. Len(ss) : g[i] = g[i - 1] \o ss[i]
      BY <1>0 DEF Joins
    <3>3. g[1] = g[1 - 1] \o ss[1]
      BY <3>1, <3>2, Zenon
    <3>4. QED
      BY <3>1, <3>2, <3>3, <2>3
  <2>4. ASSUME NEW i \in 1 .. Len(ss)
        PROVE  g1[i] = IF i = 1 THEN ss[i] ELSE g1[i - 1] \o ss[i]
    <3>1. CASE i = 1
      BY <2>d, <3>1
    <3>2. CASE i # 1
      <4>1. i - 1 \in 1 .. Len(ss) /\ g1[i] = g[i] /\ g1[i - 1] = g[i - 1]
        BY <3>2, <2>2
      <4>2. g[i] = g[i - 1] \o ss[i]
        BY <1>0 DEF Joins
      <4>3. QED
        BY <3>2, <4>1, <4>2
    <3>3. QED
      BY <3>1, <3>2
  <2>5. Is(g1)
    BY <2>4
  <2> DEFINE f == CHOOSE x : Is(x)
  <2>6. Is(f)
    <3> HIDE DEF Is
    <3>1. QED
      BY <2>5
  <2> HIDE DEF f
  <2>7. \A i \in 1 .. Len(ss) : f[i] = IF i = 1 THEN ss[i] ELSE f[i - 1] \o ss[i]
    BY <2>6
  <2> HIDE DEF Is, g1
  <2> DEFINE S == {n \in Nat : n + 1 \in 1 .. Len(ss) => f[n + 1] = g[n + 1]}
  <2>8. 0 \in S
    <3>1. 0 + 1 = 1 /\ f[1] = ss[1]
      BY <2>2, <2>7
    <3>2. QED
      BY <3>1, <2>d
  <2>9. \A n \in Nat : n \in S => n + 1 \in S
    <3> SUFFICES ASSUME NEW n \in Nat, n \in S, (n + 1) + 1 \in 1 .. Len(ss)
                 PROVE  f[(n + 1) + 1] = g[(n + 1) + 1]
      OBVIOUS
    <3>1. n + 1 \in 1 .. Len(ss) /\ (n + 1) + 1 # 1 /\ ((n + 1) + 1) - 1 = n + 1
      BY <2>2
    <3>2. f[n + 1] = g[n + 1]
      BY <3>1
    <3>3. f[(n + 1) + 1] = f[n + 1] \o ss[(n + 1) + 1]
      BY <2>7, <3>1
    <3>4. g[(n + 1) + 1] = g[n + 1] \o ss[(n + 1) + 1]
      BY <1>0, <3>1 DEF Joins
    <3>5. QED
      BY <3>2, <3>3, <3>4
  <2>a. Len(ss) - 1 \in S
    <3> HIDE DEF S
    <3>1. \A n \in Nat : n \in S
      BY <2>8, <2>9, Induction
    <3>2. QED
      BY <2>2, <3>1
  <2>b. f[Len(ss)] = g[Len(ss)]
    BY <2>2, <2>a
  <2>c. QED
    BY <2>1, <2>b, <1>0 DEF f
<1>3. QED
  BY <1>1, <1>2

(* The records of a file, each in its place.                                *)
LEMMA PiecesOf ==
  ASSUME NEW rs \in Seq(AnyRecord)
  PROVE  LET ss == [i \in DOMAIN rs |-> RecordBytes(rs[i])]
         IN  /\ ss \in Seq(Blob) /\ Len(ss) = Len(rs) /\ Len(rs) \in Nat
             /\ \A i \in 1 .. Len(rs) : rs[i] \in AnyRecord /\ ss[i] = RecordBytes(rs[i])
<1>1. \A i \in 1 .. Len(rs) : rs[i] \in AnyRecord
  OBVIOUS
<1>2. \A i \in 1 .. Len(rs) : RecordBytes(rs[i]) \in Blob
  BY <1>1, RecordType
<1>3. QED
  BY <1>1, <1>2

LEMMA JoinedPlaces ==
  ASSUME NEW d \in Blob, NEW p \in Nat, NEW ss \in Seq(Blob), NEW g,
         Joins(Blob, ss, Len(ss), g)
  PROVE  Lies(d, p, g[Len(ss)]) <=>
           p <= Len(d) /\ \A i \in 1 .. Len(ss) : Lies(d, p + Len(g[i - 1]), ss[i])
<1> DEFINE S == {n \in Nat : n <= Len(ss) =>
                   (Lies(d, p, g[n]) <=>
                      p <= Len(d) /\ \A i \in 1 .. n : Lies(d, p + Len(g[i - 1]), ss[i]))}
<1>1. 0 \in S
  <2>1. g[0] = <<>> /\ Len(<<>>) = 0 /\ Len(d) \in Nat
    BY LenNat DEF Joins
  <2>2. Lies(d, p, <<>>) <=> p <= Len(d)
    BY <2>1 DEF Lies
  <2>3. QED
    BY <2>1, <2>2
<1>2. ASSUME NEW n \in Nat, n \in S, n + 1 <= Len(ss)
      PROVE  Lies(d, p, g[n + 1]) <=>
               p <= Len(d) /\ \A i \in 1 .. n + 1 : Lies(d, p + Len(g[i - 1]), ss[i])
  <2>1. n + 1 \in 1 .. Len(ss) /\ (n + 1) - 1 = n /\ n \in 0 .. Len(ss)
    BY <1>2
  <2>2. \A i \in 1 .. Len(ss) : g[i] = g[i - 1] \o ss[i]
    BY DEF Joins
  <2>3. g[n + 1] = g[n] \o ss[n + 1] /\ g[n] \in Blob /\ ss[n + 1] \in Blob
    BY <2>1, <2>2 DEF Joins
  <2>4. Lies(d, p, g[n + 1]) <=> Lies(d, p, g[n]) /\ Lies(d, p + Len(g[n]), ss[n + 1])
    <3>1. g[n] \in Blob /\ ss[n + 1] \in Blob
      BY <2>3
    <3>2. Lies(d, p, g[n] \o ss[n + 1]) <=>
            Lies(d, p, g[n]) /\ Lies(d, p + Len(g[n]), ss[n + 1])
      BY <3>1, LiesSplit
    <3>3. QED
      BY <2>3, <3>2
  <2>5. Lies(d, p, g[n]) <=>
          p <= Len(d) /\ \A i \in 1 .. n : Lies(d, p + Len(g[i - 1]), ss[i])
    BY <1>2
  <2>6. (\A i \in 1 .. n + 1 : Lies(d, p + Len(g[i - 1]), ss[i])) <=>
          (\A i \in 1 .. n : Lies(d, p + Len(g[i - 1]), ss[i]))
            /\ Lies(d, p + Len(g[n]), ss[n + 1])
    <3>1. \A i \in 1 .. n + 1 : i \in 1 .. n \/ i = n + 1
      BY <2>1
    <3>2. n + 1 \in 1 .. n + 1 /\ \A i \in 1 .. n : i \in 1 .. n + 1
      OBVIOUS
    <3>3. QED
      BY <3>1, <3>2, <2>1
  <2> HIDE DEF S
  <2>7. QED
    BY <2>4, <2>5, <2>6
<1>3. ASSUME NEW n \in Nat, n \in S PROVE n + 1 \in S
  <2>1. CASE n + 1 <= Len(ss)
    <3>1. Lies(d, p, g[n + 1]) <=>
            p <= Len(d) /\ \A i \in 1 .. n + 1 : Lies(d, p + Len(g[i - 1]), ss[i])
      BY <1>2, <1>3, <2>1
    <3>2. QED
      BY <3>1
  <2>2. CASE ~(n + 1 <= Len(ss))
    BY <2>2
  <2>3. QED
    BY <2>1, <2>2
<1>4. \A n \in Nat : n \in S
  <2> HIDE DEF S
  <2>1. QED
    BY <1>1, <1>3, Induction
<1>5. Len(ss) \in Nat /\ Len(ss) <= Len(ss)
  OBVIOUS
<1>6. QED
  BY <1>4, <1>5

LEMMA RecordsPlaces ==
  ASSUME NEW p \in Nat, NEW rs \in Seq(AnyRecord)
  PROVE  \E end :
           /\ Ends(rs, p, end)
           /\ EveryRecord(rs) \in Blob /\ p + Len(EveryRecord(rs)) = end[Len(rs)]
           /\ \A d \in Blob :
                Lies(d, p, EveryRecord(rs)) <=>
                  /\ p <= Len(d)
                  /\ \A i \in 1 .. Len(rs) : Lies(d, end[i - 1], RecordBytes(rs[i]))
<1> DEFINE ss == [i \in DOMAIN rs |-> RecordBytes(rs[i])]
<1>1. /\ ss \in Seq(Blob) /\ Len(ss) = Len(rs) /\ Len(rs) \in Nat
      /\ \A i \in 1 .. Len(rs) : rs[i] \in AnyRecord /\ ss[i] = RecordBytes(rs[i])
  BY PiecesOf
<1>2. EveryRecord(rs) = FlattenSeq(ss)
  BY DEF EveryRecord
<1> HIDE DEF ss
<1>3. PICK g : Joins(Blob, ss, Len(rs), g) /\ EveryRecord(rs) = g[Len(rs)]
  BY <1>1, <1>2, BlobClosed, Flattened
<1> DEFINE end == [i \in 0 .. Len(rs) |-> p + Len(g[i])]
<1>4. \A i \in 0 .. Len(rs) : g[i] \in Blob /\ Len(g[i]) \in Nat
  BY <1>3, LenNat DEF Joins
<1>5. end \in [0 .. Len(rs) -> Nat]
  BY <1>4
<1>6. end[0] = p
  <2>1. g[0] = <<>> /\ Len(<<>>) = 0 /\ 0 \in 0 .. Len(rs)
    BY <1>1, <1>3 DEF Joins
  <2>2. Len(g[0]) = 0
    BY <2>1
  <2>3. QED
    BY <2>1, <2>2
<1>7. ASSUME NEW i \in 1 .. Len(rs) PROVE end[i] = end[i - 1] + Len(RecordBytes(rs[i]))
  <2>1. i \in 0 .. Len(rs) /\ i - 1 \in 0 .. Len(rs)
    BY <1>1
  <2>2. g[i] = g[i - 1] \o ss[i] /\ ss[i] = RecordBytes(rs[i]) /\ ss[i] \in Blob
    <3>1. \A j \in 1 .. Len(rs) : g[j] = g[j - 1] \o ss[j]
      BY <1>3 DEF Joins
    <3>2. ss[i] = RecordBytes(rs[i])
      BY <1>1
    <3>3. ss[i] \in Blob
      BY <1>1
    <3>4. QED
      BY <3>1, <3>2, <3>3
  <2>3. g[i - 1] \in Blob
    BY <1>4, <2>1
  <2>4. Len(g[i]) = Len(g[i - 1]) + Len(ss[i]) /\ Len(ss[i]) \in Nat
    BY <2>2, <2>3, Joined, LenNat
  <2>5. Len(g[i - 1]) \in Nat
    BY <2>3, LenNat
  <2>6. end[i] = p + Len(g[i]) /\ end[i - 1] = p + Len(g[i - 1])
    BY <2>1
  <2> HIDE DEF end
  <2>7. Len(RecordBytes(rs[i])) = Len(ss[i])
    BY <2>2
  <2> DEFINE a == Len(g[i - 1])
             b == Len(ss[i])
             c == Len(g[i])
  <2>8. c = a + b /\ a \in Nat /\ b \in Nat /\ end[i] = p + c /\ end[i - 1] = p + a
        /\ Len(RecordBytes(rs[i])) = b
    BY <2>4, <2>5, <2>6, <2>7
  <2> HIDE DEF a, b, c
  <2>9. end[i] = end[i - 1] + b
    BY <2>8
  <2>10. QED
    BY <2>8, <2>9
<1>8. p + Len(EveryRecord(rs)) = end[Len(rs)] /\ EveryRecord(rs) \in Blob
  BY <1>1, <1>3, <1>4
<1>9. \A i \in 1 .. Len(rs) : end[i - 1] = p + Len(g[i - 1])
  BY <1>1
<1>10. \A d \in Blob : Lies(d, p, g[Len(rs)]) <=>
         p <= Len(d) /\ \A i \in 1 .. Len(rs) : Lies(d, p + Len(g[i - 1]), ss[i])
  BY <1>1, <1>3, JoinedPlaces
<1> HIDE DEF end
<1>11. \A d \in Blob : Lies(d, p, EveryRecord(rs)) <=>
         p <= Len(d) /\ \A i \in 1 .. Len(rs) : Lies(d, end[i - 1], RecordBytes(rs[i]))
  BY <1>1, <1>3, <1>9, <1>10
<1>12. Ends(rs, p, end)
  BY <1>5, <1>6, <1>7 DEF Ends
<1>13. QED
  BY <1>8, <1>11, <1>12

(* The same number of records at the same place are the same.               *)
LEMMA RecordsTold ==
  ASSUME NEW d \in Blob, NEW p \in Nat, NEW rs \in Seq(AnyRecord), NEW ts \in Seq(AnyRecord),
         Len(rs) = Len(ts), Lies(d, p, EveryRecord(rs)), Lies(d, p, EveryRecord(ts))
  PROVE  rs = ts
<1>1. PICK e : Ends(rs, p, e) /\ \A i \in 1 .. Len(rs) : Lies(d, e[i - 1], RecordBytes(rs[i]))
  BY RecordsPlaces
<1>2. PICK f : Ends(ts, p, f) /\ \A i \in 1 .. Len(ts) : Lies(d, f[i - 1], RecordBytes(ts[i]))
  BY RecordsPlaces
<1>3. ASSUME NEW i \in 1 .. Len(rs), e[i - 1] = f[i - 1]
      PROVE  rs[i] = ts[i] /\ e[i] = f[i]
  <2>1. rs[i] \in AnyRecord /\ ts[i] \in AnyRecord /\ i - 1 \in 0 .. Len(rs)
    OBVIOUS
  <2>2. e[i - 1] \in Nat
    BY <1>1, <2>1 DEF Ends
  <2>3. Lies(d, e[i - 1], RecordBytes(rs[i])) /\ Lies(d, e[i - 1], RecordBytes(ts[i]))
    BY <1>1, <1>2, <1>3
  <2>4. rs[i] = ts[i]
    BY <2>1, <2>2, <2>3, RecordTold
  <2>5. e[i] = e[i - 1] + Len(RecordBytes(rs[i])) /\ f[i] = f[i - 1] + Len(RecordBytes(ts[i]))
    BY <1>1, <1>2 DEF Ends
  <2>6. QED
    BY <1>3, <2>4, <2>5
<1> DEFINE S == {n \in Nat : n <= Len(rs) => e[n] = f[n]}
<1>4. 0 \in S
  BY <1>1, <1>2 DEF Ends
<1>5. \A n \in Nat : n \in S => n + 1 \in S
  <2> SUFFICES ASSUME NEW n \in Nat, n \in S, n + 1 <= Len(rs)
               PROVE  e[n + 1] = f[n + 1]
    OBVIOUS
  <2>1. n + 1 \in 1 .. Len(rs) /\ (n + 1) - 1 = n /\ e[n] = f[n]
    OBVIOUS
  <2>2. QED
    BY <2>1, <1>3
<1>6. \A n \in Nat : n \in S
  <2> HIDE DEF S
  <2>1. QED
    BY <1>4, <1>5, Induction
<1>7. \A i \in 1 .. Len(rs) : e[i - 1] = f[i - 1]
  <2> SUFFICES ASSUME NEW i \in 1 .. Len(rs) PROVE e[i - 1] = f[i - 1]
    OBVIOUS
  <2>1. i - 1 \in Nat /\ i - 1 <= Len(rs)
    OBVIOUS
  <2>2. QED
    BY <2>1, <1>6
<1>8. \A i \in 1 .. Len(rs) : rs[i] = ts[i]
  BY <1>3, <1>7
<1>9. QED
  BY <1>8

(* The MAC input says which header, how many records and which.             *)
LEMMA MacInputTells ==
  ASSUME NEW h \in AnyHeader, NEW k \in AnyHeader,
         NEW rs \in Seq(AnyRecord), NEW ts \in Seq(AnyRecord),
         MacInput(h, rs) = MacInput(k, ts)
  PROVE  [h EXCEPT !.mac = 0] = [k EXCEPT !.mac = 0] /\ rs = ts
<1> DEFINE d == MacInput(h, rs)
<1>1. ASSUME NEW x \in AnyHeader, NEW us \in Seq(AnyRecord), MacInput(x, us) = d
      PROVE  LET x0 == [x EXCEPT !.mac = 0]
                 n == Len(HeaderBytes(x0))
             IN  /\ x0 \in AnyHeader /\ d \in Blob /\ n \in Nat /\ Len(us) \in Nat
                 /\ Lies(d, 0, HeaderBytes(x0)) /\ d[n + 1] = Len(us)
                 /\ Lies(d, n + 1, EveryRecord(us))
  <2> DEFINE x0 == [x EXCEPT !.mac = 0]
             n == Len(HeaderBytes(x0))
  <2>1. x0 \in AnyHeader
    BY DEF AnyHeader
  <2> HIDE DEF x0
  <2>2. HeaderBytes(x0) \in Blob
    BY <2>1, HeaderType
  <2>3. EveryRecord(us) \in Blob
    BY RecordsPlaces
  <2>4. Len(us) \in Nat /\ <<Len(us)>> \in Blob /\ Len(<<Len(us)>>) = 1
    BY OneCell
  <2>5. d = (HeaderBytes(x0) \o <<Len(us)>>) \o EveryRecord(us)
    BY <1>1 DEF MacInput, x0
  <2> DEFINE front == HeaderBytes(x0) \o <<Len(us)>>
  <2>6. front \in Blob /\ Len(front) = n + Len(<<Len(us)>>) /\ n \in Nat
    BY <2>2, <2>4, Joined
  <2>7. d \in Blob
    BY <2>3, <2>5, <2>6, Joined
  <2>8. Lies(d, 0, front \o EveryRecord(us))
    BY <2>5, <2>7, LiesAll
  <2>9. Lies(d, 0, front) /\ Lies(d, 0 + Len(front), EveryRecord(us))
    <3> HIDE DEF front, d
    <3>1. QED
      BY <2>3, <2>6, <2>7, <2>8, LiesSplit
  <2>10. Lies(d, 0, HeaderBytes(x0)) /\ Lies(d, 0 + n, <<Len(us)>>)
    <3> HIDE DEF d
    <3>1. QED
      BY <2>2, <2>4, <2>7, <2>9, LiesSplit
  <2>11. 0 + n = n /\ 0 + Len(front) = n + 1
    BY <2>4, <2>6
  <2>12. d[n + 1] = Len(us)
    <3> HIDE DEF d, n
    <3>1. QED
      BY <2>4, <2>10, <2>11, OneCell DEF Lies
  <2>13. QED
    <3> HIDE DEF d, n, front
    <3>1. QED
      BY <2>1, <2>4, <2>6, <2>7, <2>9, <2>10, <2>11, <2>12 DEF x0, n
<1> DEFINE h0 == [h EXCEPT !.mac = 0]
           k0 == [k EXCEPT !.mac = 0]
           n == Len(HeaderBytes(h0))
           m == Len(HeaderBytes(k0))
<1>2. /\ h0 \in AnyHeader /\ d \in Blob /\ n \in Nat /\ Len(rs) \in Nat
      /\ Lies(d, 0, HeaderBytes(h0)) /\ d[n + 1] = Len(rs) /\ Lies(d, n + 1, EveryRecord(rs))
  BY <1>1
<1>3. /\ k0 \in AnyHeader /\ m \in Nat /\ Len(ts) \in Nat
      /\ Lies(d, 0, HeaderBytes(k0)) /\ d[m + 1] = Len(ts) /\ Lies(d, m + 1, EveryRecord(ts))
  BY <1>1
<1> HIDE DEF d
<1>4. h0 = k0
  <2> HIDE DEF h0, k0
  <2>1. QED
    BY <1>2, <1>3, HeaderTold
<1>5. Len(rs) = Len(ts) /\ Lies(d, n + 1, EveryRecord(ts))
  <2> HIDE DEF h0, k0
  <2>1. QED
    BY <1>2, <1>3, <1>4
<1>6. n + 1 \in Nat
  <2> HIDE DEF n
  <2>1. QED
    BY <1>2
<1>7. rs = ts
  <2> HIDE DEF n
  <2>1. QED
    BY <1>2, <1>5, <1>6, RecordsTold
<1>8. QED
  BY <1>4, <1>7

-----------------------------------------------------------------------------
(* The files of the specification                                           *)

LEMMA ConstantTypes ==
  /\ MAGIC \in Nat /\ MAX_ARGON2 \in Nat /\ MAX_NAME_LEN \in Nat /\ NotUtf8 \in Nat
  /\ Bytes \subseteq Nat
  /\ NAME_BUCKET \in Nat \ {0} /\ VALUE_BUCKET \in Nat \ {0} /\ COUNT_BUCKET \in Nat \ {0}
  /\ MaxBlob \in Nat /\ MaxRecords \in Nat /\ MaxSecrets \in Nat /\ MaxText \in Nat
BY CodecAssumption

LEMMA Bounded ==
  ASSUME NEW S, NEW T, S \subseteq T, NEW n \in Nat
  PROVE  BoundedSeq(S, n) \subseteq Seq(T)
<1> SUFFICES ASSUME NEW s \in BoundedSeq(S, n) PROVE s \in Seq(T)
  OBVIOUS
<1>1. PICK m \in 0 .. n : s \in [1 .. m -> S]
  BY DEF BoundedSeq, SeqOf
<1>2. s \in [1 .. m -> T] /\ m \in Nat
  BY <1>1
<1>3. QED
  BY <1>2

LEMMA SomeBlobs ==
  /\ Blobs \subseteq Blob
  /\ <<>> \in Blob /\ <<1>> \in Blob
<1>1. Blobs \subseteq Blob
  BY ConstantTypes, Bounded DEF Blobs, Blob
<1>2. QED
  BY <1>1 DEF Blob

(* No byte of the headers and records tried keeps a name from being text.   *)
LEMMA TextBlobs == /\ \A s \in Blobs : Utf8(s)
                   /\ Utf8(<<1>>)
<1>1. NotUtf8 \notin Bytes /\ NotUtf8 # 1
  BY CodecAssumption
<1>2. Blobs \subseteq Seq(Bytes)
  BY ConstantTypes, Bounded DEF Blobs
<1>3. \A s \in Blobs : Utf8(s)
  BY <1>1, <1>2 DEF Utf8, ToSet
<1>4. Utf8(<<1>>)
  BY <1>1 DEF Utf8, ToSet
<1>5. QED
  BY <1>3, <1>4

LEMMA NewHeaderType ==
  ASSUME NEW v \in Nat
  PROVE  /\ NewHeader(v) \in AnyHeader
         /\ NewHeader(v).version = v /\ NewHeader(v).magic = MAGIC
         /\ NewHeader(v).kdf = [mem |-> 1, time |-> 1, lanes |-> 1, salt |-> 5]
         /\ [NewHeader(v) EXCEPT !.mac = 0].version = v
<1>1. [mem |-> 1, time |-> 1, lanes |-> 1, salt |-> 5] \in AnyKdf
  BY DEF AnyKdf
<1>2. QED
  BY <1>1, SomeBlobs, ConstantTypes DEF NewHeader, AnyHeader

LEMMA HeadersType == Headers \subseteq AnyHeader
<1>1. Kdfs \subseteq AnyKdf
  BY ConstantTypes DEF Kdfs, AnyKdf
<1>2. {{}} \cup {{w} : w \in Blobs} \subseteq {{}} \cup {{w} : w \in Blob}
  BY SomeBlobs
<1>3. \A k \in Kdfs, w \in Blobs : [kdf |-> k, wrap |-> w] \in AnyEscrow
  BY <1>1, SomeBlobs DEF AnyEscrow
<1>4. {{}} \cup {{[kdf |-> k, wrap |-> w]} : k \in Kdfs, w \in Blobs}
        \subseteq {{}} \cup {{r} : r \in AnyEscrow}
  BY <1>3
<1>5. {<<>>, <<1>>} \subseteq Blob /\ Blobs \subseteq Blob
  BY SomeBlobs
<1>6. SUFFICES ASSUME NEW h \in Headers PROVE h \in AnyHeader
  OBVIOUS
<1> DEFINE tpms == {{}} \cup {{w} : w \in Blobs}
           anyTpm == {{}} \cup {{w} : w \in Blob}
           escrows == {{}} \cup {{[kdf |-> k, wrap |-> w]} : k \in Kdfs, w \in Blobs}
           anyEscrow == {{}} \cup {{r} : r \in AnyEscrow}
<1>7. h \in [magic : {MAGIC}, version : {2, 3}, bound : BOOLEAN, aead : {1}, kdf : Kdfs,
             pcrs : {<<>>, <<1>>}, tpm : tpms, dek : Blobs, recovery : escrows, mac : {9}]
  BY <1>6 DEF Headers
<1>8. tpms \subseteq anyTpm /\ escrows \subseteq anyEscrow
  BY <1>2, <1>4
<1> HIDE DEF tpms, escrows
<1>9. h \in [magic : Nat, version : Nat, bound : BOOLEAN, aead : Nat, kdf : AnyKdf,
             pcrs : Blob, tpm : anyTpm, dek : Blob, recovery : anyEscrow, mac : Nat]
  <2> HIDE DEF anyTpm, anyEscrow
  <2>1. QED
    BY <1>1, <1>5, <1>7, <1>8, ConstantTypes
<1>10. QED
  BY <1>9 DEF AnyHeader

LEMMA RecordSets ==
  /\ AnyRecords \subseteq Seq(AnyRecord)
  /\ FewRecords \subseteq Seq(AnyRecord)
<1>1. [id : {1, 2}, name : Blobs, value : Blobs] \subseteq AnyRecord
  BY SomeBlobs DEF AnyRecord
<1>2. AnyRecords \subseteq Seq(AnyRecord)
  BY <1>1, Bounded, ConstantTypes DEF AnyRecords
<1>3. [id |-> 1, name |-> <<1>>, value |-> <<0>>] \in AnyRecord
  <2>1. <<1>> \in Blob /\ <<0>> \in Blob
    BY DEF Blob
  <2>2. QED
    BY <2>1 DEF AnyRecord
<1>4. FewRecords \subseteq Seq(AnyRecord)
  BY <1>3 DEF FewRecords
<1>5. QED
  BY <1>2, <1>4

LEMMA FileParts ==
  ASSUME NEW f \in HeaderFiles \cup RecordFiles
  PROVE  f = <<f[1], f[2]>> /\ f[1] \in AnyHeader /\ f[2] \in Seq(AnyRecord)
<1>1. CASE f \in HeaderFiles
  BY <1>1, HeadersType, RecordSets DEF HeaderFiles
<1>2. CASE f \in RecordFiles
  BY <1>2, NewHeaderType, RecordSets DEF RecordFiles
<1>3. QED
  BY <1>1, <1>2

-----------------------------------------------------------------------------
(* What the MAC is computed over says which file it is of: no byte moves    *)
(* between a name, its value and the next record, nor between the formats,  *)
(* for byte strings of any length and any number of records.                *)
THEOREM MacIsOfOneFile == CodecSpec => []MacTellsApart
<1>1. MacTellsApart
  <2> SUFFICES ASSUME file \in RecordFiles, NEW f \in RecordFiles,
                      RecordMacs[f] = MacInput(file[1], file[2])
               PROVE  f = file
    BY DEF MacTellsApart
  <2>1. MacInput(f[1], f[2]) = MacInput(file[1], file[2])
    BY DEF RecordMacs
  <2>2. /\ f = <<f[1], f[2]>> /\ f[1] \in AnyHeader /\ f[2] \in Seq(AnyRecord)
        /\ file = <<file[1], file[2]>> /\ file[1] \in AnyHeader /\ file[2] \in Seq(AnyRecord)
    BY FileParts
  <2>3. [f[1] EXCEPT !.mac = 0] = [file[1] EXCEPT !.mac = 0] /\ f[2] = file[2]
    <3> DEFINE h == f[1]
               rs == f[2]
               k == file[1]
               ts == file[2]
    <3>1. /\ h \in AnyHeader /\ rs \in Seq(AnyRecord) /\ k \in AnyHeader
          /\ ts \in Seq(AnyRecord) /\ MacInput(h, rs) = MacInput(k, ts)
      BY <2>1, <2>2
    <3> HIDE DEF h, rs, k, ts
    <3>2. [h EXCEPT !.mac = 0] = [k EXCEPT !.mac = 0] /\ rs = ts
      BY <3>1, MacInputTells
    <3>3. QED
      BY <3>2 DEF h, rs, k, ts
  <2>4. f[1] \in {NewHeader(2), NewHeader(3)} /\ file[1] \in {NewHeader(2), NewHeader(3)}
    BY DEF RecordFiles
  <2>5. [NewHeader(2) EXCEPT !.mac = 0] # [NewHeader(3) EXCEPT !.mac = 0]
    <3>1. 2 \in Nat /\ 3 \in Nat /\ 2 # 3
      OBVIOUS
    <3>2. [NewHeader(2) EXCEPT !.mac = 0].version = 2
          /\ [NewHeader(3) EXCEPT !.mac = 0].version = 3
      BY <3>1, NewHeaderType, Zenon
    <3>3. QED
      BY <3>1, <3>2, Zenon
  <2>6. f[1] = file[1]
    BY <2>3, <2>4, <2>5
  <2>7. QED
    BY <2>2, <2>3, <2>6
<1>2. QED
  BY <1>1, PTL

-----------------------------------------------------------------------------
(* The cursor of the parser                                                 *)

(* A cursor that has not failed, and what it takes.                         *)
Cur(p, g) == [ok |-> TRUE, at |-> p, got |-> g]
Cells(d, p, n) == SubSeq(d, p + 1, p + n)
Fields == Seq(Blob)

LEMMA CurFields ==
  ASSUME NEW p, NEW g
  PROVE  Cur(p, g).ok /\ Cur(p, g).at = p /\ Cur(p, g).got = g
BY DEF Cur

Moved(c, q, f) == [c EXCEPT !.at = q, !.got = f]
Refilled(c, f) == [c EXCEPT !.got = f]

LEMMA CurMoved ==
  ASSUME NEW p, NEW g, NEW q, NEW f
  PROVE  Moved(Cur(p, g), q, f) = Cur(q, f)
<1> DEFINE R == [ok : {TRUE}, at : {p, q}, got : {g, f}]
           e == [Cur(p, g) EXCEPT !.at = q, !.got = f]
<1>1. Cur(p, g) \in R /\ Cur(q, f) \in R
  BY DEF Cur
<1>2. e \in R
  BY <1>1
<1>3. e.at = q /\ e.got = f /\ e.ok = TRUE
  BY DEF Cur
<1>4. Cur(q, f).at = q /\ Cur(q, f).got = f /\ Cur(q, f).ok = TRUE
  BY DEF Cur
<1>5. QED
  BY <1>1, <1>2, <1>3, <1>4 DEF Moved

LEMMA CurFilled ==
  ASSUME NEW p, NEW g, NEW f
  PROVE  Refilled(Cur(p, g), f) = Cur(p, f)
<1> DEFINE R == [ok : {TRUE}, at : {p}, got : {g, f}]
           e == [Cur(p, g) EXCEPT !.got = f]
<1>1. Cur(p, g) \in R /\ Cur(p, f) \in R
  BY DEF Cur
<1>2. e \in R
  BY <1>1
<1>3. e.at = p /\ e.got = f /\ e.ok = TRUE
  BY DEF Cur
<1>4. Cur(p, f).at = p /\ Cur(p, f).got = f /\ Cur(p, f).ok = TRUE
  BY DEF Cur
<1>5. QED
  BY <1>1, <1>2, <1>3, <1>4 DEF Refilled

LEMMA FailedFields == Failed.ok = FALSE /\ Start = Cur(0, <<>>) /\ <<>> \in Fields
BY DEF Failed, Start, Cur, Fields

LEMMA Appended ==
  ASSUME NEW g \in Fields, NEW s \in Blob
  PROVE  /\ Append(g, s) \in Fields /\ Len(g) \in Nat
         /\ Len(Append(g, s)) = Len(g) + 1
         /\ Append(g, s)[Len(g) + 1] = s
         /\ \A i \in 1 .. Len(g) : Append(g, s)[i] = g[i]
         /\ Last(Append(g, s)) = s
<1>1. /\ Append(g, s) \in Seq(Blob) /\ Len(g) \in Nat
      /\ Len(Append(g, s)) = Len(g) + 1 /\ Append(g, s)[Len(g) + 1] = s
      /\ \A i \in 1 .. Len(g) : Append(g, s)[i] = g[i]
  BY DEF Fields
<1>2. Last(Append(g, s)) = s
  BY <1>1 DEF Last
<1>3. QED
  BY <1>1, <1>2 DEF Fields

LEMMA CellsType ==
  ASSUME NEW d \in Blob, NEW p \in Nat, NEW n \in Nat, p + n <= Len(d)
  PROVE  /\ Cells(d, p, n) \in Blob /\ Len(Cells(d, p, n)) = n
         /\ \A i \in 1 .. n : Cells(d, p, n)[i] = d[p + i]
         /\ Lies(d, p, Cells(d, p, n))
<1>1. /\ Cells(d, p, n) \in Seq(Nat) /\ Len(Cells(d, p, n)) = n
  BY DEF Cells, Blob
<1>2. \A i \in 1 .. n : Cells(d, p, n)[i] = d[p + i]
  BY DEF Cells, Blob
<1>3. Lies(d, p, Cells(d, p, n))
  BY <1>1, <1>2 DEF Lies
<1>4. QED
  BY <1>1, <1>2, <1>3 DEF Blob

LEMMA CellsAre ==
  ASSUME NEW d \in Blob, NEW p \in Nat, NEW s \in Blob, Lies(d, p, s)
  PROVE  p + Len(s) <= Len(d) /\ Cells(d, p, Len(s)) = s
<1>1. p + Len(s) <= Len(d) /\ Len(s) \in Nat
  BY LenNat DEF Lies
<1>2. QED
  BY <1>1, CellsType, LiesSame

LEMMA CellType ==
  ASSUME NEW d \in Blob, NEW p \in Nat, p < Len(d)
  PROVE  d[p + 1] \in Nat /\ p + 1 <= Len(d) /\ p + 1 \in Nat
BY DEF Blob

(* What each function of the parser makes of a cursor that has not failed.  *)
LEMMA Taken ==
  ASSUME NEW d \in Blob, NEW p \in Nat, NEW g \in Fields, NEW n \in Nat
  PROVE  Take(d, Cur(p, g), n) =
           IF p + n > Len(d) THEN Failed ELSE Cur(p + n, Append(g, Cells(d, p, n)))
<1>1. CASE p + n > Len(d)
  BY <1>1, CurFields DEF Take
<1>2. CASE ~(p + n > Len(d))
  <2>1. Take(d, Cur(p, g), n) = Moved(Cur(p, g), p + n, Append(g, Cells(d, p, n)))
    <3> DEFINE c == Cur(p, g)
    <3>1. c.ok /\ ~(c.at + n > Len(d)) /\ c.at = p /\ c.got = g
      BY <1>2, CurFields
    <3> HIDE DEF c
    <3>2. Take(d, c, n) =
            [c EXCEPT !.at = c.at + n, !.got = Append(c.got, SubSeq(d, c.at + 1, c.at + n))]
      BY <3>1 DEF Take
    <3>3. Take(d, c, n) = [c EXCEPT !.at = p + n, !.got = Append(g, Cells(d, p, n))]
      BY <3>1, <3>2 DEF Cells
    <3>4. Take(d, c, n) = Moved(c, p + n, Append(g, Cells(d, p, n)))
      BY <3>3 DEF Moved
    <3>5. QED
      BY <3>4 DEF c
  <2>2. Moved(Cur(p, g), p + n, Append(g, Cells(d, p, n)))
          = Cur(p + n, Append(g, Cells(d, p, n)))
    BY CurMoved
  <2>3. QED
    BY <1>2, <2>1, <2>2, Zenon
<1>3. QED
  BY <1>1, <1>2

LEMMA TakenNot ==
  ASSUME NEW d, NEW n
  PROVE  /\ Take(d, Failed, n) = Failed /\ TakeBytes(d, Failed) = Failed
         /\ TakeTpmWrap(d, Failed) = Failed /\ TakeEscrow(d, Failed) = Failed
         /\ TakeArgon2(d, Failed) = Failed
<1>1. \A m : Take(d, Failed, m) = Failed
  BY FailedFields DEF Take
<1>2. Take(d, Failed, 1) = Failed /\ Take(d, Failed, 3) = Failed
  BY <1>1
<1>3. TakeArgon2(d, Failed) = Failed
  BY <1>2, FailedFields DEF TakeArgon2
<1>4. TakeBytes(d, Failed) = Failed
  BY <1>2, FailedFields DEF TakeBytes, Prefixed
<1>5. TakeTpmWrap(d, Failed) = Failed /\ TakeEscrow(d, Failed) = Failed
  BY <1>2, FailedFields DEF TakeTpmWrap, TakeEscrow, TakeOption, Prefixed
<1>6. QED
  BY <1>1, <1>3, <1>4, <1>5

LEMMA CellTaken ==
  ASSUME NEW d \in Blob, NEW p \in Nat, NEW g \in Fields
  PROVE  LET l == Take(d, Cur(p, g), 1)
         IN  /\ p >= Len(d) => l = Failed
             /\ p < Len(d) => /\ l.ok /\ Newest(l) = d[p + 1]
                              /\ Refilled(l, g) = Cur(p + 1, g)
<1> DEFINE l == Take(d, Cur(p, g), 1)
<1>1. Len(d) \in Nat
  BY LenNat
<1>2. CASE p >= Len(d)
  <2>1. p + 1 > Len(d)
    BY <1>1, <1>2
  <2>2. l = Failed
    BY <2>1, Taken
  <2>3. QED
    BY <1>1, <1>2, <2>2
<1>3. CASE p < Len(d)
  <2>1. l = Cur(p + 1, Append(g, Cells(d, p, 1)))
    BY <1>1, <1>3, Taken
  <2>2. Cells(d, p, 1) \in Blob /\ Len(Cells(d, p, 1)) = 1 /\ Cells(d, p, 1)[1] = d[p + 1]
    <3>1. p + 1 <= Len(d) /\ 1 \in Nat /\ 1 \in 1 .. 1
      BY <1>1, <1>3
    <3>2. /\ Cells(d, p, 1) \in Blob /\ Len(Cells(d, p, 1)) = 1
          /\ \A i \in 1 .. 1 : Cells(d, p, 1)[i] = d[p + i]
      BY <3>1, CellsType
    <3>3. QED
      BY <3>1, <3>2, Zenon
  <2>3. Last(Append(g, Cells(d, p, 1))) = Cells(d, p, 1)
    BY <2>2, Appended
  <2>4. Newest(l) = Head(Cells(d, p, 1))
    BY <2>1, <2>3, CurFields DEF Newest
  <2>5. Head(Cells(d, p, 1)) = d[p + 1]
    BY <2>2 DEF Blob
  <2>6. QED
    BY <1>3, <1>1, <2>1, <2>4, <2>5, CurFields, CurFilled
<1>4. QED
  BY <1>1, <1>2, <1>3

LEMMA BytesTaken ==
  ASSUME NEW d \in Blob, NEW p \in Nat, NEW g \in Fields
  PROVE  TakeBytes(d, Cur(p, g)) =
           IF p < Len(d) THEN Take(d, Cur(p + 1, g), d[p + 1]) ELSE Failed
<1> DEFINE l == Take(d, Cur(p, g), 1)
<1>1. TakeBytes(d, Cur(p, g)) =
        IF l.ok THEN Take(d, Refilled(l, g), Newest(l)) ELSE Failed
  BY CurFields DEF TakeBytes, Prefixed, Refilled
<1>2. Len(d) \in Nat
  BY LenNat
<1>3. CASE p < Len(d)
  BY <1>1, <1>3, CellTaken
<1>4. CASE ~(p < Len(d))
  BY <1>1, <1>2, <1>4, CellTaken, FailedFields
<1>5. QED
  BY <1>3, <1>4

LEMMA Argon2Taken ==
  ASSUME NEW d \in Blob, NEW p \in Nat, NEW g \in Fields
  PROVE  TakeArgon2(d, Cur(p, g)) =
           IF p + 4 <= Len(d) /\ \A i \in 1 .. 3 : d[p + i] <= MAX_ARGON2
           THEN Cur(p + 4, Append(Append(g, Cells(d, p, 3)), Cells(d, p + 3, 1)))
           ELSE Failed
<1> DEFINE e == Take(d, Cur(p, g), 3)
           a == Cells(d, p, 3)
<1>1. Len(d) \in Nat /\ 3 \in Nat
  BY LenNat
<1>2. CASE p + 3 > Len(d)
  <2>1. e = Failed
    BY <1>1, <1>2, Taken
  <2>2. TakeArgon2(d, Cur(p, g)) = Failed
    BY <2>1, FailedFields DEF TakeArgon2
  <2>3. ~(p + 4 <= Len(d))
    BY <1>1, <1>2
  <2>4. QED
    BY <2>2, <2>3
<1>3. CASE p + 3 <= Len(d)
  <2>1. e = Cur(p + 3, Append(g, a))
    BY <1>1, <1>3, Taken
  <2>2. a \in Blob /\ \A i \in 1 .. 3 : a[i] = d[p + i]
    BY <1>1, <1>3, CellsType
  <2>3. Append(g, a) \in Fields /\ Last(Append(g, a)) = a
    BY <2>2, Appended
  <2>4. e.ok /\ Last(e.got) = a
    BY <2>1, <2>3, CurFields
  <2> DEFINE low == \A i \in 1 .. 3 : d[p + i] <= MAX_ARGON2
  <2>5. (\A i \in 1 .. 3 : Last(e.got)[i] <= MAX_ARGON2) <=> low
    BY <2>2, <2>4
  <2>6. TakeArgon2(d, Cur(p, g)) = IF low THEN Take(d, e, 1) ELSE Failed
    <3> HIDE DEF e, low
    <3>1. QED
      BY <2>4, <2>5 DEF TakeArgon2, e
  <2> HIDE DEF low, e, a
  <2>7. p + 3 \in Nat /\ ((p + 3) + 1 > Len(d) <=> ~(p + 4 <= Len(d))) /\ (p + 3) + 1 = p + 4
    BY <1>1
  <2>8. Take(d, e, 1) =
          IF (p + 3) + 1 > Len(d) THEN Failed
          ELSE Cur((p + 3) + 1, Append(Append(g, a), Cells(d, p + 3, 1)))
    BY <2>1, <2>3, <2>7, Taken
  <2>9. QED
    BY <2>6, <2>7, <2>8 DEF low, a
<1>4. QED
  BY <1>1, <1>2, <1>3

(* The flag of an optional field, and what follows it.                      *)
LEMMA OptionTaken ==
  ASSUME NEW d \in Blob, NEW p \in Nat, NEW g \in Fields
  PROVE  /\ TakeTpmWrap(d, Cur(p, g)) =
              IF p >= Len(d) THEN Failed
              ELSE IF d[p + 1] = 1 THEN TakeBytes(d, Cur(p + 1, Append(g, <<1>>)))
              ELSE Cur(p + 1, Append(g, <<0>>))
         /\ TakeEscrow(d, Cur(p, g)) =
              IF p >= Len(d) THEN Failed
              ELSE IF d[p + 1] = 1
                   THEN TakeBytes(d, TakeArgon2(d, Cur(p + 1, Append(g, <<1>>))))
              ELSE Cur(p + 1, Append(g, <<0>>))
<1> DEFINE l == Take(d, Cur(p, g), 1)
           e == Refilled(l, g)
<1>1. Len(d) \in Nat
  BY LenNat
<1>2. CASE p >= Len(d)
  <2>1. ~l.ok
    BY <1>2, CellTaken, FailedFields
  <2>2. TakeTpmWrap(d, Cur(p, g)) = Failed /\ TakeEscrow(d, Cur(p, g)) = Failed
    BY <2>1 DEF TakeTpmWrap, TakeEscrow, TakeOption, Prefixed
  <2>3. QED
    BY <1>2, <2>2
<1>3. CASE p < Len(d)
  <2>1. l.ok /\ Newest(l) = d[p + 1] /\ e = Cur(p + 1, g)
    BY <1>3, CellTaken
  <2>2. e.got = g /\ Cur(p, g).got = g
    BY <2>1, CurFields
  <2>3. /\ Refilled(e, Append(e.got, <<1>>)) = Cur(p + 1, Append(g, <<1>>))
        /\ Refilled(e, Append(e.got, <<0>>)) = Cur(p + 1, Append(g, <<0>>))
    <3> HIDE DEF e
    <3>1. QED
      BY <2>1, <2>2, CurFilled
  <2>4. TakeTpmWrap(d, Cur(p, g)) =
          IF Newest(l) = 1 THEN TakeBytes(d, Refilled(e, Append(e.got, <<1>>)))
          ELSE Refilled(e, Append(e.got, <<0>>))
    <3> HIDE DEF l
    <3>1. QED
      BY <2>1, <2>2 DEF TakeTpmWrap, TakeOption, Prefixed, Refilled, l
  <2>5. TakeEscrow(d, Cur(p, g)) =
          IF Newest(l) = 1 THEN TakeBytes(d, TakeArgon2(d, Refilled(e, Append(e.got, <<1>>))))
          ELSE Refilled(e, Append(e.got, <<0>>))
    <3> HIDE DEF l
    <3>1. QED
      BY <2>1, <2>2 DEF TakeEscrow, TakeOption, Prefixed, Refilled, l
  <2>6. ~(p >= Len(d))
    BY <1>1, <1>3
  <2> HIDE DEF l, e
  <2>7. QED
    BY <2>1, <2>3, <2>4, <2>5, <2>6
<1>4. QED
  BY <1>1, <1>2, <1>3

(* What a cursor holds after a step that did not fail: what it held before, *)
(* and the fields taken.                                                    *)
LEMMA BytesOk ==
  ASSUME NEW d \in Blob, NEW p \in Nat, NEW g \in Fields, TakeBytes(d, Cur(p, g)).ok
  PROVE  \E q \in Nat, s \in Blob : TakeBytes(d, Cur(p, g)) = Cur(q, Append(g, s)) /\ q <= Len(d)
<1>1. p < Len(d) /\ TakeBytes(d, Cur(p, g)) = Take(d, Cur(p + 1, g), d[p + 1])
  BY BytesTaken, FailedFields
<1>2. d[p + 1] \in Nat /\ p + 1 \in Nat /\ Len(d) \in Nat
  BY <1>1, CellType, LenNat
<1> DEFINE n == d[p + 1]
           q == p + 1
<1>3. ~(q + n > Len(d)) /\ Take(d, Cur(q, g), n) = Cur(q + n, Append(g, Cells(d, q, n)))
  <2> HIDE DEF n, q
  <2>1. n \in Nat /\ q \in Nat /\ Take(d, Cur(q, g), n).ok
    BY <1>1, <1>2 DEF n, q
  <2>2. QED
    BY <2>1, Taken, FailedFields
<1> HIDE DEF n, q
<1>4. q + n <= Len(d) /\ q + n \in Nat /\ n \in Nat /\ q \in Nat
  BY <1>2, <1>3 DEF n, q
<1>5. Cells(d, q, n) \in Blob
  BY <1>4, CellsType
<1>6. TakeBytes(d, Cur(p, g)) = Cur(q + n, Append(g, Cells(d, q, n)))
  BY <1>1, <1>3 DEF n, q
<1>7. QED
  BY <1>4, <1>5, <1>6

LEMMA CellOk ==
  ASSUME NEW d \in Blob, NEW p \in Nat, NEW g \in Fields, NEW n \in Nat, Take(d, Cur(p, g), n).ok
  PROVE  \E q \in Nat, s \in Blob :
           Take(d, Cur(p, g), n) = Cur(q, Append(g, s)) /\ Len(s) = n /\ q <= Len(d)
<1>1. Len(d) \in Nat /\ ~(p + n > Len(d))
  BY Taken, FailedFields, LenNat
<1>2. p + n <= Len(d) /\ p + n \in Nat
  BY <1>1
<1>3. Take(d, Cur(p, g), n) = Cur(p + n, Append(g, Cells(d, p, n)))
  BY <1>1, Taken
<1>4. Cells(d, p, n) \in Blob /\ Len(Cells(d, p, n)) = n
  BY <1>2, CellsType
<1>5. QED
  BY <1>2, <1>3, <1>4

LEMMA Argon2Ok ==
  ASSUME NEW d \in Blob, NEW p \in Nat, NEW g \in Fields, TakeArgon2(d, Cur(p, g)).ok
  PROVE  \E q \in Nat, a \in Blob, b \in Blob :
           /\ TakeArgon2(d, Cur(p, g)) = Cur(q, Append(Append(g, a), b))
           /\ Len(a) = 3 /\ Len(b) = 1 /\ q <= Len(d)
<1>1. p + 4 <= Len(d) /\ Len(d) \in Nat
  BY Argon2Taken, FailedFields, LenNat
<1>2. TakeArgon2(d, Cur(p, g)) =
        Cur(p + 4, Append(Append(g, Cells(d, p, 3)), Cells(d, p + 3, 1)))
  BY Argon2Taken, FailedFields
<1>3. 3 \in Nat /\ 1 \in Nat /\ p + 3 \in Nat /\ p + 4 \in Nat /\ p + 3 <= Len(d)
      /\ (p + 3) + 1 <= Len(d)
  BY <1>1
<1>4. Cells(d, p, 3) \in Blob /\ Len(Cells(d, p, 3)) = 3
  BY <1>3, CellsType
<1>5. Cells(d, p + 3, 1) \in Blob /\ Len(Cells(d, p + 3, 1)) = 1
  BY <1>3, CellsType
<1>6. QED
  BY <1>1, <1>2, <1>3, <1>4, <1>5

(* f is g with n more fields.                                               *)
Grown(g, f, n) ==
  /\ f \in Fields /\ g \in Fields
  /\ Len(f) = Len(g) + n
  /\ \A i \in 1 .. Len(g) : f[i] = g[i]

LEMMA GrownBy ==
  ASSUME NEW g \in Fields, NEW s \in Blob
  PROVE  Grown(g, Append(g, s), 1) /\ Append(g, s)[Len(g) + 1] = s
BY Appended DEF Grown

LEMMA FieldsLen == \A g \in Fields : Len(g) \in Nat
BY DEF Fields

LEMMA GrownOn ==
  ASSUME NEW g, NEW f, NEW e, NEW n \in Nat, NEW m \in Nat, Grown(g, f, n), Grown(f, e, m)
  PROVE  Grown(g, e, n + m)
<1>1. Len(g) \in Nat /\ Len(f) \in Nat /\ Len(e) \in Nat
  BY FieldsLen DEF Grown
<1>2. Len(e) = Len(g) + (n + m)
  BY <1>1 DEF Grown
<1>3. \A i \in 1 .. Len(g) : i \in 1 .. Len(f)
  BY <1>1 DEF Grown
<1>4. \A i \in 1 .. Len(g) : e[i] = g[i]
  BY <1>3 DEF Grown
<1>5. QED
  BY <1>2, <1>4 DEF Grown

Flags == {0, 1}

LEMMA TpmOk ==
  ASSUME NEW d \in Blob, NEW p \in Nat, NEW g \in Fields, TakeTpmWrap(d, Cur(p, g)).ok
  PROVE  \E q \in Nat, f \in Fields, x \in Flags :
           /\ TakeTpmWrap(d, Cur(p, g)) = Cur(q, f) /\ q <= Len(d)
           /\ Grown(g, f, 1 + x) /\ f[Len(g) + 1] = <<x>>
<1>1. p < Len(d) /\ p + 1 \in Nat /\ Len(d) \in Nat /\ p + 1 <= Len(d)
  <2>1. ~(p >= Len(d)) /\ Len(d) \in Nat
    BY OptionTaken, FailedFields, LenNat
  <2>2. QED
    BY <2>1
<1>2. <<1>> \in Blob /\ <<0>> \in Blob
  BY DEF Blob
<1> DEFINE one == Append(g, <<1>>)
           none == Append(g, <<0>>)
<1>3. /\ one \in Fields /\ Grown(g, one, 1) /\ one[Len(g) + 1] = <<1>>
      /\ none \in Fields /\ Grown(g, none, 1) /\ none[Len(g) + 1] = <<0>>
  BY <1>2, GrownBy, Appended
<1>4. Len(g) \in Nat /\ Len(one) = Len(g) + 1
  BY <1>2, FieldsLen, Appended
<1> HIDE DEF one, none
<1>5. CASE d[p + 1] = 1
  <2>1. TakeTpmWrap(d, Cur(p, g)) = TakeBytes(d, Cur(p + 1, one))
    BY <1>1, <1>5, OptionTaken DEF one
  <2>2. PICK q \in Nat, s \in Blob :
          TakeBytes(d, Cur(p + 1, one)) = Cur(q, Append(one, s)) /\ q <= Len(d)
    BY <1>1, <1>3, <2>1, BytesOk
  <2>3. Grown(one, Append(one, s), 1) /\ Append(one, s) \in Fields
    BY <1>3, GrownBy, Appended
  <2>4. Grown(g, Append(one, s), 1 + 1)
    BY <1>3, <2>3, GrownOn
  <2>5. Append(one, s)[Len(g) + 1] = <<1>>
    <3>1. Len(g) + 1 \in 1 .. Len(one)
      BY <1>4
    <3>2. QED
      BY <1>3, <2>3, <3>1 DEF Grown
  <2>6. QED
    BY <2>1, <2>2, <2>3, <2>4, <2>5 DEF Flags
<1>6. CASE d[p + 1] # 1
  <2>1. TakeTpmWrap(d, Cur(p, g)) = Cur(p + 1, none)
    BY <1>1, <1>6, OptionTaken DEF none
  <2>2. Grown(g, none, 1 + 0)
    BY <1>3
  <2>3. QED
    BY <1>1, <1>3, <2>1, <2>2 DEF Flags
<1>7. QED
  BY <1>5, <1>6

(* f is g with an escrow, or with none.                                     *)
Escrowed(g, f, x) ==
  /\ Grown(g, f, 1 + 3 * x) /\ f[Len(g) + 1] = <<x>>
  /\ x = 1 => Len(f[Len(g) + 2]) = 3 /\ Len(f[Len(g) + 3]) = 1

LEMMA EscrowOk ==
  ASSUME NEW d \in Blob, NEW p \in Nat, NEW g \in Fields, TakeEscrow(d, Cur(p, g)).ok
  PROVE  \E q \in Nat, f \in Fields, x \in Flags :
           TakeEscrow(d, Cur(p, g)) = Cur(q, f) /\ q <= Len(d) /\ Escrowed(g, f, x)
<1>1. p < Len(d) /\ p + 1 \in Nat /\ Len(d) \in Nat /\ p + 1 <= Len(d)
  <2>1. ~(p >= Len(d)) /\ Len(d) \in Nat
    BY OptionTaken, FailedFields, LenNat
  <2>2. QED
    BY <2>1
<1>2. <<1>> \in Blob /\ <<0>> \in Blob
  BY DEF Blob
<1> DEFINE one == Append(g, <<1>>)
           none == Append(g, <<0>>)
<1>3. /\ one \in Fields /\ Grown(g, one, 1) /\ one[Len(g) + 1] = <<1>>
      /\ none \in Fields /\ Grown(g, none, 1) /\ none[Len(g) + 1] = <<0>>
  BY <1>2, GrownBy, Appended
<1>4. Len(g) \in Nat /\ Len(one) = Len(g) + 1
  BY <1>2, FieldsLen, Appended
<1> HIDE DEF one, none
<1>5. CASE d[p + 1] = 1
  <2>1. TakeEscrow(d, Cur(p, g)) = TakeBytes(d, TakeArgon2(d, Cur(p + 1, one)))
    BY <1>1, <1>5, OptionTaken DEF one
  <2>2. TakeArgon2(d, Cur(p + 1, one)).ok
    <3>1. TakeArgon2(d, Cur(p + 1, one)) # Failed
      BY <2>1, TakenNot, FailedFields
    <3>2. QED
      BY <1>1, <1>3, <3>1, Argon2Taken, CurFields
  <2>3. PICK q \in Nat, a \in Blob, b \in Blob :
          /\ TakeArgon2(d, Cur(p + 1, one)) = Cur(q, Append(Append(one, a), b))
          /\ Len(a) = 3 /\ Len(b) = 1
    BY <1>1, <1>3, <2>2, Argon2Ok
  <2> DEFINE f1 == Append(one, a)
             f2 == Append(f1, b)
  <2>4. f1 \in Fields /\ Grown(one, f1, 1) /\ f1[Len(one) + 1] = a /\ Len(f1) = Len(one) + 1
    BY <1>3, GrownBy, Appended
  <2> HIDE DEF f1
  <2>5. f2 \in Fields /\ Grown(f1, f2, 1) /\ f2[Len(f1) + 1] = b /\ Len(f2) = Len(f1) + 1
    BY <2>4, GrownBy, Appended
  <2>6. TakeEscrow(d, Cur(p, g)) = TakeBytes(d, Cur(q, f2))
    BY <2>1, <2>3 DEF f1
  <2> HIDE DEF f2
  <2>7. PICK r \in Nat, s \in Blob :
          TakeBytes(d, Cur(q, f2)) = Cur(r, Append(f2, s)) /\ r <= Len(d)
    <3>1. q \in Nat /\ f2 \in Fields /\ TakeBytes(d, Cur(q, f2)).ok
      BY <2>3, <2>5, <2>6
    <3>2. QED
      BY <3>1, BytesOk
  <2> DEFINE f3 == Append(f2, s)
  <2>8. f3 \in Fields /\ Grown(f2, f3, 1)
    BY <2>5, GrownBy, Appended
  <2> HIDE DEF f3
  <2>9. Grown(g, f3, 1 + 3 * 1)
    <3>1. Grown(g, f1, 1 + 1)
      BY <1>3, <2>4, GrownOn
    <3>2. Grown(g, f2, (1 + 1) + 1)
      BY <2>5, <3>1, GrownOn
    <3>3. Grown(g, f3, ((1 + 1) + 1) + 1)
      BY <2>8, <3>2, GrownOn
    <3>4. QED
      BY <3>3
  <2>10. f3[Len(g) + 1] = <<1>>
    <3>1. Len(g) + 1 \in 1 .. Len(one) /\ Len(g) + 1 \in 1 .. Len(f1) /\ Len(g) + 1 \in 1 .. Len(f2)
      BY <1>4, <2>4, <2>5
    <3>2. QED
      BY <1>3, <2>4, <2>5, <2>8, <3>1 DEF Grown
  <2>11. f3[Len(g) + 2] = a
    <3>1. Len(g) + 2 = Len(one) + 1 /\ Len(g) + 2 \in 1 .. Len(f1) /\ Len(g) + 2 \in 1 .. Len(f2)
      BY <1>4, <2>4, <2>5
    <3>2. QED
      BY <2>4, <2>5, <2>8, <3>1 DEF Grown
  <2>12. f3[Len(g) + 3] = b
    <3>1. Len(g) + 3 = Len(f1) + 1 /\ Len(g) + 3 \in 1 .. Len(f2)
      BY <1>4, <2>4, <2>5
    <3>2. QED
      BY <2>5, <2>8, <3>1 DEF Grown
  <2>13. QED
    BY <2>3, <2>6, <2>7, <2>8, <2>9, <2>10, <2>11, <2>12 DEF f3, Flags, Escrowed
<1>6. CASE d[p + 1] # 1
  <2>1. TakeEscrow(d, Cur(p, g)) = Cur(p + 1, none)
    BY <1>1, <1>6, OptionTaken DEF none
  <2>2. Grown(g, none, 1 + 3 * 0)
    BY <1>3
  <2>3. QED
    BY <1>1, <1>3, <2>1, <2>2 DEF Flags, Escrowed
<1>7. QED
  BY <1>5, <1>6

LEMMA BytesNotFailed ==
  ASSUME NEW d \in Blob, NEW p \in Nat, NEW g \in Fields, TakeBytes(d, Cur(p, g)) # Failed
  PROVE  TakeBytes(d, Cur(p, g)).ok
<1>1. p < Len(d) /\ TakeBytes(d, Cur(p, g)) = Take(d, Cur(p + 1, g), d[p + 1])
  BY BytesTaken
<1>2. d[p + 1] \in Nat /\ p + 1 \in Nat
  BY <1>1, CellType
<1> DEFINE n == d[p + 1]
           q == p + 1
<1>3. n \in Nat /\ q \in Nat /\ Take(d, Cur(q, g), n) # Failed
  BY <1>1, <1>2
<1> HIDE DEF n, q
<1>4. Take(d, Cur(q, g), n).ok
  <2>1. \E a, b : Take(d, Cur(q, g), n) = Cur(a, b)
    BY <1>3, Taken
  <2>2. QED
    BY <2>1, CurFields
<1>5. QED
  BY <1>1, <1>4 DEF n, q

LEMMA Argon2NotFailed ==
  ASSUME NEW d \in Blob, NEW p \in Nat, NEW g \in Fields, TakeArgon2(d, Cur(p, g)) # Failed
  PROVE  TakeArgon2(d, Cur(p, g)).ok
BY Argon2Taken, CurFields

LEMMA OptionNotFailed ==
  ASSUME NEW d \in Blob, NEW p \in Nat, NEW g \in Fields
  PROVE  /\ TakeTpmWrap(d, Cur(p, g)) # Failed => TakeTpmWrap(d, Cur(p, g)).ok
         /\ TakeEscrow(d, Cur(p, g)) # Failed => TakeEscrow(d, Cur(p, g)).ok
<1> DEFINE one == Append(g, <<1>>)
           none == Append(g, <<0>>)
<1>1. one \in Fields
  <2>1. <<1>> \in Blob
    BY DEF Blob
  <2>2. QED
    BY <2>1, Appended
<1> HIDE DEF one, none
<1>2. CASE p < Len(d) /\ d[p + 1] = 1
  <2>1. p + 1 \in Nat /\ ~(p >= Len(d))
    <3>1. Len(d) \in Nat
      BY LenNat
    <3>2. QED
      BY <1>2, <3>1
  <2>2. /\ TakeTpmWrap(d, Cur(p, g)) = TakeBytes(d, Cur(p + 1, one))
        /\ TakeEscrow(d, Cur(p, g)) = TakeBytes(d, TakeArgon2(d, Cur(p + 1, one)))
    BY <1>2, <2>1, OptionTaken DEF one
  <2>3. TakeTpmWrap(d, Cur(p, g)) # Failed => TakeTpmWrap(d, Cur(p, g)).ok
    BY <1>1, <2>1, <2>2, BytesNotFailed
  <2>4. ASSUME TakeEscrow(d, Cur(p, g)) # Failed PROVE TakeEscrow(d, Cur(p, g)).ok
    <3>1. TakeArgon2(d, Cur(p + 1, one)) # Failed
      BY <2>2, <2>4, TakenNot
    <3>2. PICK q \in Nat, a \in Blob, b \in Blob :
            TakeArgon2(d, Cur(p + 1, one)) = Cur(q, Append(Append(one, a), b))
      BY <1>1, <2>1, <3>1, Argon2NotFailed, Argon2Ok
    <3>3. Append(one, a) \in Fields
      BY <1>1, Appended
    <3>4. Append(Append(one, a), b) \in Fields
      BY <3>3, Appended
    <3>5. QED
      BY <2>2, <2>4, <3>2, <3>4, BytesNotFailed
  <2>5. QED
    BY <2>3, <2>4
<1>3. CASE ~(p < Len(d) /\ d[p + 1] = 1)
  <2>1. Len(d) \in Nat
    BY LenNat
  <2>2. /\ TakeTpmWrap(d, Cur(p, g)) \in {Failed, Cur(p + 1, none)}
        /\ TakeEscrow(d, Cur(p, g)) \in {Failed, Cur(p + 1, none)}
    BY <1>3, <2>1, OptionTaken DEF none
  <2>3. QED
    BY <2>2, CurFields
<1>4. QED
  BY <1>2, <1>3

(* The fields of a header: x says whether it has a TPM's wrap, y whether it *)
(* has an escrow.                                                           *)
Shaped(g, x, y) ==
  /\ g \in Fields /\ Len(g) = 8 + x + 3 * y
  /\ Len(g[1]) = 4 /\ Len(g[2]) = 3 /\ Len(g[3]) = 1 /\ Len(Last(g)) = 1
  /\ g[5] = <<x>> /\ g[7 + x] = <<y>>
  /\ y = 1 => Len(g[8 + x]) = 3 /\ Len(g[9 + x]) = 1

LEMMA Kept ==
  ASSUME NEW g, NEW f, NEW n \in Nat, Grown(g, f, n), NEW i \in 1 .. Len(g)
  PROVE  f[i] = g[i]
BY DEF Grown

LEMMA GrownLen ==
  ASSUME NEW g, NEW f, NEW n \in Nat, Grown(g, f, n)
  PROVE  Len(f) = Len(g) + n
BY DEF Grown

LEMMA HeaderParsed ==
  ASSUME NEW d \in Blob, ParseHeader(d).ok
  PROVE  \E x \in Flags, y \in Flags : Shaped(ParseHeader(d).got, x, y)
<1> DEFINE front == Take(d, Start, 4)
           known == Require(front, front.ok /\ front.got[1][1] = MAGIC
                                            /\ front.got[1][2] \in {2, 3})
           kdf == TakeArgon2(d, known)
           pcrs == TakeBytes(d, kdf)
           tpm == TakeTpmWrap(d, pcrs)
           wraps == TakeBytes(d, tpm)
           escrow == TakeEscrow(d, wraps)
           mac == Take(d, escrow, 1)
<1>1. ParseHeader(d) = mac
  BY DEF ParseHeader
<1>2. /\ front # Failed => front.ok
      /\ known # Failed => known = front /\ front.ok
  <2>1. front # Failed => front.ok
    <3>1. Start = Cur(0, <<>>) /\ <<>> \in Fields /\ 0 \in Nat /\ 4 \in Nat
      BY FailedFields
    <3>2. front = Failed \/ \E q, f : front = Cur(q, f)
      BY <3>1, Taken
    <3>3. QED
      BY <3>2, CurFields
  <2>2. known # Failed => known = front /\ front.ok
    BY DEF Require
  <2>3. QED
    BY <2>1, <2>2
<1> HIDE DEF front, known, kdf, pcrs, tpm, wraps, escrow, mac
<1>3. mac # Failed /\ escrow # Failed /\ wraps # Failed /\ tpm # Failed /\ pcrs # Failed
      /\ kdf # Failed /\ known # Failed
  <2>1. mac # Failed
    BY <1>1, FailedFields
  <2>2. escrow # Failed
    BY <2>1, TakenNot DEF mac
  <2>3. wraps # Failed
    BY <2>2, TakenNot DEF escrow
  <2>4. tpm # Failed
    BY <2>3, TakenNot DEF wraps
  <2>5. pcrs # Failed
    BY <2>4, TakenNot DEF tpm
  <2>6. kdf # Failed
    BY <2>5, TakenNot DEF pcrs
  <2>7. known # Failed
    BY <2>6, TakenNot DEF kdf
  <2>8. QED
    BY <2>1, <2>2, <2>3, <2>4, <2>5, <2>6, <2>7
<1>4. \E g \in Fields, q \in Nat :
        known = Cur(q, g) /\ Len(g) = 1 /\ Len(g[1]) = 4
  <2>1. Start = Cur(0, <<>>) /\ <<>> \in Fields /\ 0 \in Nat /\ 4 \in Nat /\ Len(<<>>) = 0
    BY FailedFields
  <2>2. known = front /\ front.ok
    BY <1>2, <1>3
  <2> DEFINE g0 == <<>>
  <2>a. g0 \in Fields /\ Take(d, Cur(0, g0), 4).ok /\ front = Take(d, Cur(0, g0), 4)
    BY <2>1, <2>2 DEF front
  <2> HIDE DEF g0
  <2>b. PICK q \in Nat, s \in Blob :
          Take(d, Cur(0, g0), 4) = Cur(q, Append(g0, s)) /\ Len(s) = 4
    <3> DEFINE n == 4
               z == 0
    <3>1. n \in Nat /\ z \in Nat /\ Take(d, Cur(z, g0), n).ok
      BY <2>a
    <3> HIDE DEF n, z
    <3>2. PICK q \in Nat, s \in Blob : Take(d, Cur(z, g0), n) = Cur(q, Append(g0, s)) /\ Len(s) = n
      BY <2>a, <3>1, CellOk
    <3>3. QED
      BY <3>2 DEF n, z
  <2>3. front = Cur(q, Append(<<>>, s)) /\ Len(s) = 4
    BY <2>a, <2>b DEF g0
  <2>4. Append(<<>>, s) \in Fields /\ Len(Append(<<>>, s)) = 0 + 1
        /\ Append(<<>>, s)[0 + 1] = s
    BY <2>1, Appended
  <2>5. 0 + 1 = 1
    OBVIOUS
  <2>6. QED
    BY <2>2, <2>3, <2>4, <2>5
<1>5. PICK g1 \in Fields, q1 \in Nat : known = Cur(q1, g1) /\ Len(g1) = 1 /\ Len(g1[1]) = 4
  BY <1>4
<1>6. \E g \in Fields, q \in Nat :
        kdf = Cur(q, g) /\ Grown(g1, g, 2) /\ Len(g[2]) = 3 /\ Len(g[3]) = 1
  <2>1. TakeArgon2(d, Cur(q1, g1)).ok
    BY <1>3, <1>5, Argon2Taken, CurFields DEF kdf
  <2>2. PICK q \in Nat, a \in Blob, b \in Blob :
          /\ kdf = Cur(q, Append(Append(g1, a), b)) /\ Len(a) = 3 /\ Len(b) = 1
    BY <1>5, <2>1, Argon2Ok DEF kdf
  <2> DEFINE f == Append(g1, a)
             e == Append(f, b)
  <2>3. f \in Fields /\ Grown(g1, f, 1) /\ f[Len(g1) + 1] = a /\ Len(f) = Len(g1) + 1
    BY GrownBy, Appended
  <2> HIDE DEF f
  <2>4. e \in Fields /\ Grown(f, e, 1) /\ e[Len(f) + 1] = b /\ \A i \in 1 .. Len(f) : e[i] = f[i]
    BY <2>3, GrownBy, Appended
  <2>5. kdf = Cur(q, e)
    BY <2>2 DEF f
  <2> HIDE DEF e
  <2>6. Grown(g1, e, 1 + 1)
    BY <2>3, <2>4, GrownOn
  <2>7. Len(g1) + 1 = 2 /\ Len(f) = 2 /\ Len(f) + 1 = 3 /\ 1 + 1 = 2
    BY <1>5, <2>3
  <2>8. e[2] = a /\ e[3] = b
    BY <2>3, <2>4, <2>7
  <2>9. QED
    BY <2>2, <2>4, <2>5, <2>6, <2>7, <2>8
<1>7. PICK g2 \in Fields, q2 \in Nat :
        kdf = Cur(q2, g2) /\ Grown(g1, g2, 2) /\ Len(g2[2]) = 3 /\ Len(g2[3]) = 1
  BY <1>6
<1>8. \E g \in Fields, q \in Nat : pcrs = Cur(q, g) /\ Grown(g2, g, 1)
  <2>1. TakeBytes(d, Cur(q2, g2)).ok
    <3>1. TakeBytes(d, Cur(q2, g2)) # Failed
      BY <1>3, <1>7 DEF pcrs
    <3>2. QED
      BY <3>1, BytesNotFailed
  <2>2. QED
    BY <1>7, <2>1, BytesOk, GrownBy, Appended DEF pcrs
<1>9. PICK g3 \in Fields, q3 \in Nat : pcrs = Cur(q3, g3) /\ Grown(g2, g3, 1)
  BY <1>8
<1>10. PICK g4 \in Fields, q4 \in Nat, x \in Flags :
         tpm = Cur(q4, g4) /\ Grown(g3, g4, 1 + x) /\ g4[Len(g3) + 1] = <<x>>
  <2>1. TakeTpmWrap(d, Cur(q3, g3)).ok
    BY <1>3, <1>9, OptionNotFailed DEF tpm
  <2>2. PICK q \in Nat, f \in Fields, z \in Flags :
          /\ TakeTpmWrap(d, Cur(q3, g3)) = Cur(q, f) /\ q <= Len(d)
          /\ Grown(g3, f, 1 + z) /\ f[Len(g3) + 1] = <<z>>
    BY <2>1, TpmOk, ZenonT(30)
  <2>3. tpm = Cur(q, f)
    BY <1>9, <2>2 DEF tpm
  <2>4. QED
    BY <2>2, <2>3
<1>11. \E g \in Fields, q \in Nat : wraps = Cur(q, g) /\ Grown(g4, g, 1)
  <2>1. TakeBytes(d, Cur(q4, g4)).ok
    <3>1. TakeBytes(d, Cur(q4, g4)) # Failed
      BY <1>3, <1>10 DEF wraps
    <3>2. QED
      BY <3>1, BytesNotFailed
  <2>2. PICK q \in Nat, s \in Blob : TakeBytes(d, Cur(q4, g4)) = Cur(q, Append(g4, s))
    BY <2>1, BytesOk
  <2>3. wraps = Cur(q, Append(g4, s))
    BY <1>10, <2>2 DEF wraps
  <2>4. QED
    BY <2>3, GrownBy, Appended
<1>12. PICK g5 \in Fields, q5 \in Nat : wraps = Cur(q5, g5) /\ Grown(g4, g5, 1)
  BY <1>11
<1>13. PICK g6 \in Fields, q6 \in Nat, y \in Flags :
         /\ escrow = Cur(q6, g6) /\ Grown(g5, g6, 1 + 3 * y) /\ g6[Len(g5) + 1] = <<y>>
         /\ y = 1 => Len(g6[Len(g5) + 2]) = 3 /\ Len(g6[Len(g5) + 3]) = 1
  <2>1. TakeEscrow(d, Cur(q5, g5)).ok
    BY <1>3, <1>12, OptionNotFailed DEF escrow
  <2>2. PICK q \in Nat, f \in Fields, z \in Flags :
          TakeEscrow(d, Cur(q5, g5)) = Cur(q, f) /\ q <= Len(d) /\ Escrowed(g5, f, z)
    BY <2>1, EscrowOk, ZenonT(30)
  <2>3. escrow = Cur(q, f)
    BY <1>12, <2>2 DEF escrow
  <2>4. QED
    BY <2>2, <2>3 DEF Escrowed
<1>14. PICK g7 \in Fields, q7 \in Nat :
         mac = Cur(q7, g7) /\ Grown(g6, g7, 1) /\ Len(Last(g7)) = 1
  <2>1. Take(d, Cur(q6, g6), 1).ok
    <3>1. mac.ok
      BY <1>1
    <3>2. mac = Take(d, Cur(q6, g6), 1)
      BY <1>13 DEF mac
    <3>3. QED
      BY <3>1, <3>2
  <2>2. PICK q \in Nat, s \in Blob :
          Take(d, Cur(q6, g6), 1) = Cur(q, Append(g6, s)) /\ Len(s) = 1
    <3> DEFINE n == 1
    <3>1. n \in Nat /\ Take(d, Cur(q6, g6), n).ok
      BY <2>1
    <3> HIDE DEF n
    <3>2. PICK q \in Nat, s \in Blob :
            Take(d, Cur(q6, g6), n) = Cur(q, Append(g6, s)) /\ Len(s) = n
      BY <3>1, CellOk
    <3>3. QED
      BY <3>2 DEF n
  <2>3. mac = Cur(q, Append(g6, s))
    BY <1>13, <2>2 DEF mac
  <2>4. Grown(g6, Append(g6, s), 1) /\ Append(g6, s) \in Fields /\ Last(Append(g6, s)) = s
    BY GrownBy, Appended
  <2>5. QED
    BY <2>2, <2>3, <2>4
<1>15. /\ Len(g1) = 1 /\ Len(g2) = 3 /\ Len(g3) = 4 /\ Len(g4) = 5 + x /\ Len(g5) = 6 + x
       /\ Len(g6) = 7 + x + 3 * y /\ Len(g7) = 8 + x + 3 * y /\ x \in {0, 1} /\ y \in {0, 1}
  BY <1>5, <1>7, <1>9, <1>10, <1>12, <1>13, <1>14 DEF Grown, Flags
<1> DEFINE n5 == 5 + x
           n6 == 6 + x
           n7 == 7 + x + 3 * y
<1>16. /\ x \in Nat /\ y \in Nat /\ n5 \in Nat /\ n6 \in Nat /\ n7 \in Nat
       /\ Len(g3) + 1 = 5 /\ Len(g5) + 1 = 7 + x /\ Len(g5) + 2 = 8 + x /\ Len(g5) + 3 = 9 + x
       /\ 1 + x \in Nat /\ 1 + 3 * y \in Nat
  BY <1>15
<1>17. ASSUME NEW i \in 1 .. 3 PROVE g7[i] = g2[i]
  <2>1. i \in 1 .. Len(g2) /\ i \in 1 .. Len(g3) /\ i \in 1 .. Len(g4) /\ i \in 1 .. Len(g5)
        /\ i \in 1 .. Len(g6)
    BY <1>15, <1>16
  <2>2. g3[i] = g2[i] /\ g4[i] = g3[i] /\ g5[i] = g4[i] /\ g6[i] = g5[i] /\ g7[i] = g6[i]
    BY <2>1, <1>9, <1>10, <1>12, <1>13, <1>14 DEF Grown
  <2>3. QED
    BY <2>2
<1>18. Len(g7[1]) = 4
  <2>1. 1 \in 1 .. Len(g1) /\ 1 \in 1 .. 3
    BY <1>15
  <2>2. g2[1] = g1[1]
    BY <2>1, <1>7 DEF Grown
  <2>3. g7[1] = g1[1]
    BY <2>1, <2>2, <1>17
  <2>4. QED
    BY <2>3, <1>5
<1>19. Len(g7[2]) = 3 /\ Len(g7[3]) = 1
  <2>1. g7[2] = g2[2] /\ g7[3] = g2[3]
    BY <1>17
  <2>2. QED
    BY <2>1, <1>7
<1>20. g7[5] = <<x>>
  <2>1. 5 \in 1 .. Len(g4) /\ 5 \in 1 .. Len(g5) /\ 5 \in 1 .. Len(g6)
    BY <1>15, <1>16
  <2>2. g5[5] = g4[5] /\ g6[5] = g5[5] /\ g7[5] = g6[5]
    BY <2>1, <1>12, <1>13, <1>14 DEF Grown
  <2>3. g4[5] = <<x>>
    BY <1>10, <1>16
  <2>4. QED
    BY <2>2, <2>3
<1>21. g7[7 + x] = <<y>>
  <2>1. 7 + x \in 1 .. Len(g6)
    BY <1>15, <1>16
  <2>2. g7[7 + x] = g6[7 + x]
    BY <2>1, <1>14 DEF Grown
  <2>3. g6[7 + x] = <<y>>
    BY <1>13, <1>16
  <2>4. QED
    BY <2>2, <2>3
<1>22. y = 1 => Len(g7[8 + x]) = 3 /\ Len(g7[9 + x]) = 1
  <2> SUFFICES ASSUME y = 1 PROVE Len(g7[8 + x]) = 3 /\ Len(g7[9 + x]) = 1
    OBVIOUS
  <2>1. 8 + x \in 1 .. Len(g6) /\ 9 + x \in 1 .. Len(g6)
    BY <1>15, <1>16
  <2>2. g7[8 + x] = g6[8 + x] /\ g7[9 + x] = g6[9 + x]
    BY <2>1, <1>14 DEF Grown
  <2>3. Len(g6[8 + x]) = 3 /\ Len(g6[9 + x]) = 1
    BY <1>13, <1>16
  <2>4. QED
    BY <2>2, <2>3
<1>23. Shaped(g7, x, y)
  BY <1>14, <1>15, <1>18, <1>19, <1>20, <1>21, <1>22 DEF Shaped
<1>24. ParseHeader(d).got = g7
  BY <1>1, <1>14, CurFields
<1>25. QED
  BY <1>23, <1>24

(* So what is made of them is a header.                                     *)
LEMMA ShapedHeader ==
  ASSUME NEW g, NEW x \in Flags, NEW y \in Flags, Shaped(g, x, y)
  PROVE  HeaderOf(g) \in AnyHeader
<1> DEFINE tpm == 5 + g[5][1]
           esc == tpm + 2
<1>1. g \in Seq(Blob) /\ Len(g) = 8 + x + 3 * y /\ x \in {0, 1} /\ y \in {0, 1}
  BY DEF Shaped, Fields, Flags
<1>2. g[5][1] = x /\ tpm = 5 + x /\ esc = 7 + x
  <2>1. g[5][1] = x
    BY <1>1 DEF Shaped
  <2>2. QED
    BY <1>1, <2>1
<1>3. \A i \in 1 .. 8 + x + 3 * y : g[i] \in Blob
  BY <1>1
<1>4. g[1] \in Blob /\ g[2] \in Blob /\ g[3] \in Blob /\ g[4] \in Blob
      /\ g[6 + x] \in Blob /\ g[8 + x + 3 * y] \in Blob
  BY <1>1, <1>3
<1>5. \A s \in Blob, i \in Nat : i \in 1 .. Len(s) => s[i] \in Nat
  BY DEF Blob
<1>6. /\ g[1][1] \in Nat /\ g[1][2] \in Nat /\ g[1][3] \in Nat /\ g[1][4] \in Nat
      /\ g[2][1] \in Nat /\ g[2][2] \in Nat /\ g[2][3] \in Nat /\ g[3][1] \in Nat
  <2>1. Len(g[1]) = 4 /\ Len(g[2]) = 3 /\ Len(g[3]) = 1
    BY DEF Shaped
  <2>2. g[1][1] \in Nat /\ g[1][2] \in Nat /\ g[1][3] \in Nat /\ g[1][4] \in Nat
    BY <1>4, <1>5, <2>1
  <2>3. g[2][1] \in Nat /\ g[2][2] \in Nat /\ g[2][3] \in Nat
    BY <1>4, <1>5, <2>1
  <2>4. g[3][1] \in Nat
    BY <1>4, <1>5, <2>1
  <2>5. QED
    BY <2>2, <2>3, <2>4
<1>7. Argon2(g[2], g[3]) \in AnyKdf
  BY <1>6 DEF Argon2, AnyKdf
<1>8. Last(g)[1] \in Nat
  <2>1. Last(g) = g[8 + x + 3 * y]
    BY <1>1 DEF Last
  <2>2. Last(g) \in Blob /\ Len(Last(g)) = 1
    BY <1>4, <2>1 DEF Shaped
  <2>3. QED
    BY <2>2, <1>5
<1> DEFINE t == IF g[5] = <<1>> THEN {g[tpm]} ELSE {}
           r == IF g[esc] = <<1>>
                THEN {[kdf |-> Argon2(g[esc + 1], g[esc + 2]), wrap |-> g[esc + 3]]} ELSE {}
<1>9. t \in {{}} \cup {{w} : w \in Blob}
  <2>1. CASE x = 1
    <3>1. g[tpm] \in Blob
      BY <1>1, <1>2, <1>3, <2>1
    <3>2. QED
      BY <3>1
  <2>2. CASE x = 0
    <3>1. g[5] # <<1>>
      BY <1>2, <2>2
    <3>2. QED
      BY <3>1
  <2>3. QED
    BY <1>1, <2>1, <2>2
<1>10. r \in {{}} \cup {{e} : e \in AnyEscrow}
  <2>1. CASE y = 1
    <3>1. /\ g[8 + x] \in Blob /\ g[9 + x] \in Blob /\ g[10 + x] \in Blob
          /\ Len(g[8 + x]) = 3 /\ Len(g[9 + x]) = 1
      BY <1>1, <1>3, <2>1 DEF Shaped
    <3>2. /\ g[8 + x][1] \in Nat /\ g[8 + x][2] \in Nat /\ g[8 + x][3] \in Nat
          /\ g[9 + x][1] \in Nat
      BY <3>1, <1>5
    <3>3. Argon2(g[8 + x], g[9 + x]) \in AnyKdf
      BY <3>2 DEF Argon2, AnyKdf
    <3>4. [kdf |-> Argon2(g[8 + x], g[9 + x]), wrap |-> g[10 + x]] \in AnyEscrow
      BY <3>1, <3>3 DEF AnyEscrow
    <3>5. esc + 1 = 8 + x /\ esc + 2 = 9 + x /\ esc + 3 = 10 + x
      BY <1>1, <1>2
    <3> HIDE DEF esc
    <3>6. QED
      BY <3>4, <3>5
  <2>2. CASE y = 0
    <3>1. g[7 + x] = <<0>> /\ <<0>>[1] = 0 /\ <<1>>[1] = 1
      BY <2>2 DEF Shaped
    <3>2. g[esc] # <<1>>
      BY <1>2, <3>1
    <3>3. QED
      BY <3>2
  <2>3. QED
    BY <1>1, <2>1, <2>2
<1>11. g[4] \in Blob /\ g[tpm + 1] \in Blob /\ (g[1][3] # 0) \in BOOLEAN
  <2>1. tpm + 1 = 6 + x
    BY <1>1, <1>2
  <2>2. QED
    BY <1>4, <2>1
<1>12. HeaderOf(g) = [magic |-> g[1][1], version |-> g[1][2], bound |-> g[1][3] # 0,
                      aead |-> g[1][4], kdf |-> Argon2(g[2], g[3]), pcrs |-> g[4], tpm |-> t,
                      dek |-> g[tpm + 1], recovery |-> r, mac |-> Last(g)[1]]
  BY DEF HeaderOf
<1> HIDE DEF t, r, tpm, esc
<1>13. QED
  BY <1>6, <1>7, <1>8, <1>9, <1>10, <1>11, <1>12 DEF AnyHeader

-----------------------------------------------------------------------------
(* Reading records                                                          *)

(* A byte string is taken where one lies, and nothing else is.              *)
LEMMA BytesFound ==
  ASSUME NEW d \in Blob, NEW p \in Nat, NEW g \in Fields, NEW s \in Blob,
         Lies(d, p, PutBytes(s))
  PROVE  TakeBytes(d, Cur(p, g)) = Cur(p + 1 + Len(s), Append(g, s))
<1>1. p < Len(d) /\ d[p + 1] = Len(s) /\ Lies(d, p + 1, s)
  BY LiesBytes
<1>2. Len(s) \in Nat /\ p + 1 \in Nat /\ Len(d) \in Nat
  BY LenNat
<1>3. (p + 1) + Len(s) <= Len(d) /\ Cells(d, p + 1, Len(s)) = s
  BY <1>1, <1>2, CellsAre
<1>4. ~((p + 1) + Len(s) > Len(d))
  BY <1>2, <1>3
<1>5. Take(d, Cur(p + 1, g), Len(s)) = Cur((p + 1) + Len(s), Append(g, Cells(d, p + 1, Len(s))))
  BY <1>2, <1>4, Taken
<1>6. Take(d, Cur(p + 1, g), Len(s)) = Cur(p + 1 + Len(s), Append(g, s))
  BY <1>3, <1>5
<1>7. QED
  BY <1>1, <1>6, BytesTaken

LEMMA BytesThere ==
  ASSUME NEW d \in Blob, NEW p \in Nat, NEW g \in Fields, TakeBytes(d, Cur(p, g)).ok
  PROVE  \E s \in Blob : Lies(d, p, PutBytes(s))
<1>1. p < Len(d) /\ TakeBytes(d, Cur(p, g)) = Take(d, Cur(p + 1, g), d[p + 1])
  BY BytesTaken, FailedFields
<1>2. d[p + 1] \in Nat /\ p + 1 \in Nat /\ Len(d) \in Nat
  BY <1>1, CellType, LenNat
<1> DEFINE n == d[p + 1]
           q == p + 1
<1>3. ~(q + n > Len(d))
  <2> HIDE DEF n, q
  <2>1. n \in Nat /\ q \in Nat /\ Take(d, Cur(q, g), n).ok
    BY <1>1, <1>2 DEF n, q
  <2>2. QED
    BY <2>1, Taken, FailedFields
<1>4. n \in Nat /\ q \in Nat /\ q + n <= Len(d)
  BY <1>2, <1>3
<1> HIDE DEF n, q
<1>5. Cells(d, q, n) \in Blob /\ Len(Cells(d, q, n)) = n /\ Lies(d, q, Cells(d, q, n))
  BY <1>4, CellsType
<1>6. Lies(d, p, PutBytes(Cells(d, q, n)))
  BY <1>1, <1>5, LiesBytes DEF n, q
<1>7. QED
  BY <1>5, <1>6

LEMMA CellFound ==
  ASSUME NEW d \in Blob, NEW p \in Nat, NEW g \in Fields
  PROVE  /\ p < Len(d) => /\ d[p + 1] \in Nat /\ <<d[p + 1]>> \in Blob
                          /\ Take(d, Cur(p, g), 1) = Cur(p + 1, Append(g, <<d[p + 1]>>))
         /\ ~(p < Len(d)) => Take(d, Cur(p, g), 1) = Failed
<1>1. Len(d) \in Nat
  BY LenNat
<1>2. CASE p < Len(d)
  <2> DEFINE n == 1
  <2>1. n \in Nat /\ p + n <= Len(d) /\ ~(p + n > Len(d)) /\ n \in 1 .. n
    BY <1>1, <1>2
  <2>2. d[p + 1] \in Nat
    BY <1>2, CellType
  <2>3. <<d[p + 1]>> \in Blob /\ Len(<<d[p + 1]>>) = 1 /\ <<d[p + 1]>>[1] = d[p + 1]
    BY <2>2, OneCell
  <2>4. Lies(d, p, <<d[p + 1]>>)
    <3> DEFINE s == <<d[p + 1]>>
    <3>1. Len(s) = 1 /\ s[1] = d[p + 1]
      BY <2>3
    <3> HIDE DEF s
    <3>2. p + Len(s) <= Len(d)
      BY <1>1, <1>2, <3>1
    <3>3. \A i \in 1 .. Len(s) : d[p + i] = s[i]
      BY <3>1
    <3>4. Lies(d, p, s)
      BY <3>2, <3>3 DEF Lies
    <3>5. QED
      BY <3>4 DEF s
  <2>5. Cells(d, p, Len(<<d[p + 1]>>)) = <<d[p + 1]>>
    BY <2>3, <2>4, CellsAre
  <2>6. Cells(d, p, n) = <<d[p + 1]>>
    BY <2>3, <2>5
  <2>7. Take(d, Cur(p, g), n) = Cur(p + n, Append(g, Cells(d, p, n)))
    <3> HIDE DEF n
    <3>1. QED
      BY <2>1, Taken
  <2>8. QED
    BY <1>2, <2>2, <2>3, <2>6, <2>7
<1>3. CASE ~(p < Len(d))
  BY <1>1, <1>3, CellTaken
<1>4. QED
  BY <1>2, <1>3

WithRecord(g, r) == Append(Append(Append(g, <<r.id>>), r.name), r.value)

LEMMA RecordSteps ==
  ASSUME NEW d \in Blob, NEW p \in Nat, NEW g \in Fields, NEW v
  PROVE  /\ ~(p < Len(d)) => TakeRecord(d, Cur(p, g), v) = Failed
         /\ p < Len(d) =>
              LET e == TakeBytes(d, Cur(p + 1, Append(g, <<d[p + 1]>>)))
              IN  TakeRecord(d, Cur(p, g), v) =
                    IF e.ok /\ (v = 2 => Utf8(Last(e.got))) THEN TakeBytes(d, e) ELSE Failed
<1> DEFINE c == Cur(p, g)
           e == TakeBytes(d, Take(d, c, 1))
<1> HIDE DEF c
<1>1. TakeRecord(d, c, v) =
        IF e.ok /\ (v = 2 => Utf8(Last(e.got))) THEN TakeBytes(d, e) ELSE Failed
  <2> HIDE DEF e
  <2>1. TakeRecord(d, c, v) = TakeBytes(d, Require(e, e.ok /\ (v = 2 => Utf8(Last(e.got)))))
    BY DEF TakeRecord, e
  <2>2. QED
    BY <2>1, TakenNot DEF Require
<1>2. CASE ~(p < Len(d))
  <2>1. Take(d, c, 1) = Failed
    BY <1>2, CellFound DEF c
  <2>2. e = Failed
    BY <2>1, TakenNot
  <2>3. ~e.ok
    BY <2>2, FailedFields
  <2> HIDE DEF e
  <2>4. QED
    BY <1>1, <1>2, <2>3 DEF c
<1>3. CASE p < Len(d)
  <2>1. Take(d, c, 1) = Cur(p + 1, Append(g, <<d[p + 1]>>))
    BY <1>3, CellFound DEF c
  <2>2. QED
    BY <1>1, <1>3, <2>1 DEF c
<1>4. QED
  BY <1>2, <1>3

(* A record is taken where one lies, whose name is text if it is in the     *)
(* clear, and nothing else is.                                              *)
LEMMA RecordFound ==
  ASSUME NEW d \in Blob, NEW p \in Nat, NEW g \in Fields, NEW v, NEW r \in AnyRecord,
         Lies(d, p, RecordBytes(r)), v = 2 => Utf8(r.name)
  PROVE  TakeRecord(d, Cur(p, g), v) = Cur(p + Len(RecordBytes(r)), WithRecord(g, r))
<1>1. /\ p < Len(d) /\ d[p + 1] = r.id /\ Lies(d, p + 1, PutBytes(r.name))
      /\ Lies(d, p + 2 + NameLen(r), PutBytes(r.value))
  BY RecordPlaces
<1>2. /\ r.id \in Nat /\ r.name \in Blob /\ r.value \in Blob
      /\ NameLen(r) \in Nat /\ ValueLen(r) \in Nat
      /\ Len(RecordBytes(r)) = 3 + NameLen(r) + ValueLen(r)
  BY RecordType, LenNat DEF NameLen, ValueLen
<1>3. <<r.id>> \in Blob
  BY <1>2, OneCell
<1> DEFINE g1 == Append(g, <<r.id>>)
           g2 == Append(g1, r.name)
<1>4. g1 \in Fields
  BY <1>3, Appended
<1>5. g2 \in Fields /\ Last(g2) = r.name
  <2> HIDE DEF g1
  <2>1. QED
    BY <1>2, <1>4, Appended
<1>6. TakeBytes(d, Cur(p + 1, g1)) = Cur(p + 2 + NameLen(r), g2)
  <2> HIDE DEF g1
  <2>1. p + 1 \in Nat /\ (p + 1) + 1 + NameLen(r) = p + 2 + NameLen(r)
    BY <1>2
  <2>2. TakeBytes(d, Cur(p + 1, g1)) = Cur((p + 1) + 1 + NameLen(r), Append(g1, r.name))
    <3> DEFINE q == p + 1
               n == r.name
    <3>0. q \in Nat /\ Lies(d, q, PutBytes(n))
      BY <1>1, <2>1
    <3>1. q \in Nat /\ n \in Blob /\ g1 \in Fields /\ Lies(d, q, PutBytes(n))
      BY <1>2, <1>4, <3>0
    <3> HIDE DEF q, n
    <3>2. TakeBytes(d, Cur(q, g1)) = Cur(q + 1 + Len(n), Append(g1, n))
      BY <3>1, BytesFound
    <3>3. QED
      BY <3>2 DEF q, n, NameLen
  <2>3. QED
    BY <2>1, <2>2
<1>7. TakeBytes(d, Cur(p + 2 + NameLen(r), g2)) =
        Cur(p + Len(RecordBytes(r)), Append(g2, r.value))
  <2> HIDE DEF g2
  <2> DEFINE q == p + 2 + NameLen(r)
  <2>1. q \in Nat /\ q + 1 + ValueLen(r) = p + Len(RecordBytes(r))
    BY <1>2
  <2>2. Lies(d, q, PutBytes(r.value))
    BY <1>1
  <2> HIDE DEF q
  <2>3. TakeBytes(d, Cur(q, g2)) = Cur(q + 1 + ValueLen(r), Append(g2, r.value))
    <3> DEFINE n == r.value
    <3>1. Lies(d, q, PutBytes(n)) /\ n \in Blob /\ q \in Nat /\ g2 \in Fields
      BY <1>2, <1>5, <2>1, <2>2
    <3> HIDE DEF n
    <3>2. TakeBytes(d, Cur(q, g2)) = Cur(q + 1 + Len(n), Append(g2, n))
      BY <3>1, BytesFound
    <3>3. QED
      BY <3>2 DEF n, ValueLen
  <2>4. QED
    BY <2>1, <2>3 DEF q
<1> DEFINE e == TakeBytes(d, Cur(p + 1, g1))
<1>8. e.ok /\ Last(e.got) = r.name
  <2> HIDE DEF g1, g2
  <2>1. QED
    BY <1>5, <1>6, CurFields
<1>9. TakeRecord(d, Cur(p, g), v) = TakeBytes(d, e)
  <2>1. e = TakeBytes(d, Cur(p + 1, Append(g, <<d[p + 1]>>)))
    BY <1>1
  <2> HIDE DEF e
  <2>2. TakeRecord(d, Cur(p, g), v) =
          IF e.ok /\ (v = 2 => Utf8(Last(e.got))) THEN TakeBytes(d, e) ELSE Failed
    BY <1>1, <2>1, RecordSteps
  <2>3. QED
    BY <1>8, <2>2
<1>10. QED
  BY <1>6, <1>7, <1>9 DEF WithRecord

LEMMA RecordThere ==
  ASSUME NEW d \in Blob, NEW p \in Nat, NEW g \in Fields, NEW v,
         TakeRecord(d, Cur(p, g), v).ok
  PROVE  \E r \in AnyRecord :
           Lies(d, p, RecordBytes(r)) /\ (v = 2 => Utf8(r.name))
<1>1. p < Len(d)
  BY RecordSteps, FailedFields
<1>2. d[p + 1] \in Nat /\ <<d[p + 1]>> \in Blob
  BY <1>1, CellFound
<1> DEFINE g1 == Append(g, <<d[p + 1]>>)
           e == TakeBytes(d, Cur(p + 1, g1))
<1>3. g1 \in Fields
  BY <1>2, Appended
<1>4. TakeRecord(d, Cur(p, g), v) =
        IF e.ok /\ (v = 2 => Utf8(Last(e.got))) THEN TakeBytes(d, e) ELSE Failed
  BY <1>1, RecordSteps
<1> HIDE DEF g1, e
<1>5. e.ok /\ (v = 2 => Utf8(Last(e.got))) /\ TakeBytes(d, e).ok
  BY <1>4, FailedFields
<1>6. PICK s \in Blob : Lies(d, p + 1, PutBytes(s))
  BY <1>3, <1>5, BytesThere DEF e
<1>7. e = Cur((p + 1) + 1 + Len(s), Append(g1, s))
  BY <1>3, <1>6, BytesFound DEF e
<1>8. Append(g1, s) \in Fields /\ Last(Append(g1, s)) = s /\ Len(s) \in Nat
  BY <1>3, Appended, LenNat
<1> DEFINE q == (p + 1) + 1 + Len(s)
           g2 == Append(g1, s)
<1>9. q \in Nat /\ g2 \in Fields /\ e = Cur(q, g2) /\ Last(g2) = s
  BY <1>7, <1>8
<1> HIDE DEF q, g2
<1>10. PICK t \in Blob : Lies(d, q, PutBytes(t))
  BY <1>5, <1>9, BytesThere
<1> DEFINE r == [id |-> d[p + 1], name |-> s, value |-> t]
<1>11. r \in AnyRecord /\ r.id = d[p + 1] /\ r.name = s /\ r.value = t
  BY <1>2 DEF AnyRecord
<1> HIDE DEF r
<1>12. p + 2 + NameLen(r) = q
  BY <1>8, <1>11 DEF NameLen, q
<1>13. Lies(d, p, RecordBytes(r))
  BY <1>1, <1>6, <1>10, <1>11, <1>12, RecordPlaces
<1>14. v = 2 => Utf8(r.name)
  BY <1>5, <1>9, <1>11, CurFields
<1>15. QED
  BY <1>11, <1>13, <1>14

LEMMA RecordTakenNot ==
  ASSUME NEW d, NEW v
  PROVE  TakeRecord(d, Failed, v) = Failed
<1>1. TakeBytes(d, Take(d, Failed, 1)) = Failed
  BY TakenNot
<1>2. QED
  BY <1>1, TakenNot, FailedFields DEF TakeRecord, Require

(* The fold over the records, one by one. FoldLeft folds over subsets of    *)
(* the positions, whose greatest is taken off first: what it makes of one   *)
(* subset after the other is a function that exists and satisfies this.     *)
Folds(d, v, base, k, f) ==
  \A s \in SUBSET (1 .. k) :
    f[s] = IF s = {} THEN base ELSE TakeRecord(d, f[s \ {Max(s)}], v)

LEMMA GreatestOf ==
  ASSUME NEW k \in Nat, NEW s \in SUBSET (1 .. k + 1), k + 1 \in s
  PROVE  Max(s) = k + 1 /\ s \ {k + 1} \in SUBSET (1 .. k)
<1>1. \A y \in s : k + 1 >= y
  OBVIOUS
<1>2. \A x \in s : (\A y \in s : x >= y) => x = k + 1
  OBVIOUS
<1>3. Max(s) = k + 1
  BY <1>1, <1>2 DEF Max
<1>4. QED
  BY <1>3

LEMMA FoldsExist ==
  ASSUME NEW d, NEW v, NEW base
  PROVE  \A k \in Nat : \E f : Folds(d, v, base, k, f)
<1> DEFINE S == {k \in Nat : \E f : Folds(d, v, base, k, f)}
<1>1. 0 \in S
  <2> DEFINE f == [s \in {{}} |-> base]
  <2>1. \A s \in SUBSET (1 .. 0) : s = {}
    OBVIOUS
  <2>2. f[{}] = base
    OBVIOUS
  <2> HIDE DEF f
  <2>3. Folds(d, v, base, 0, f)
    BY <2>1, <2>2 DEF Folds
  <2>4. QED
    BY <2>3
<1>2. ASSUME NEW k \in Nat, NEW f, Folds(d, v, base, k, f)
      PROVE  \E g : Folds(d, v, base, k + 1, g)
  <2> DEFINE g == [s \in SUBSET (1 .. k + 1) |->
                     IF k + 1 \in s THEN TakeRecord(d, f[s \ {k + 1}], v) ELSE f[s]]
  <2>1. \A s \in SUBSET (1 .. k) : g[s] = f[s]
    OBVIOUS
  <2>2. \A s \in SUBSET (1 .. k + 1) :
          g[s] = IF k + 1 \in s THEN TakeRecord(d, f[s \ {k + 1}], v) ELSE f[s]
    OBVIOUS
  <2> HIDE DEF g
  <2>3. ASSUME NEW s \in SUBSET (1 .. k + 1)
        PROVE  g[s] = IF s = {} THEN base ELSE TakeRecord(d, g[s \ {Max(s)}], v)
    <3>1. CASE k + 1 \in s
      <4>1. Max(s) = k + 1 /\ s \ {k + 1} \in SUBSET (1 .. k)
        BY <3>1, GreatestOf
      <4>2. g[s \ {Max(s)}] = f[s \ {k + 1}]
        BY <4>1, <2>1
      <4>3. g[s] = TakeRecord(d, f[s \ {k + 1}], v)
        BY <3>1, <2>2
      <4>4. QED
        BY <3>1, <4>2, <4>3
    <3>2. CASE k + 1 \notin s
      <4>1. s \in SUBSET (1 .. k)
        BY <3>2
      <4>2. s \ {Max(s)} \in SUBSET (1 .. k)
        BY <4>1
      <4>3. g[s] = f[s] /\ g[s \ {Max(s)}] = f[s \ {Max(s)}]
        BY <4>1, <4>2, <2>1
      <4>4. f[s] = IF s = {} THEN base ELSE TakeRecord(d, f[s \ {Max(s)}], v)
        BY <1>2, <4>1 DEF Folds
      <4>5. QED
        BY <4>3, <4>4
    <3>3. QED
      BY <3>1, <3>2
  <2>4. Folds(d, v, base, k + 1, g)
    BY <2>3 DEF Folds
  <2>5. QED
    BY <2>4
<1>3. \A k \in Nat : k \in S => k + 1 \in S
  BY <1>2
<1>4. \A k \in Nat : k \in S
  <2> HIDE DEF S
  <2>1. QED
    BY <1>1, <1>3, Induction
<1>5. QED
  BY <1>4

(* The fold of TakeRecords, as it starts at base.                           *)
FoldOf(d, v, base, n) ==
  FoldLeft(LAMBDA a, i : TakeRecord(d, a, v), base, [i \in 1 .. n |-> i])

LEMMA FoldUnrolled ==
  ASSUME NEW d, NEW v, NEW base, NEW n \in Nat
  PROVE  \E st :
           /\ st[0] = base
           /\ \A i \in 1 .. n : st[i] = TakeRecord(d, st[i - 1], v)
           /\ FoldOf(d, v, base, n) = st[n]
<1> DEFINE Is(f) == f = [s \in SUBSET (1 .. n) |->
                           IF s = {} THEN base ELSE TakeRecord(d, f[s \ {Max(s)}], v)]
           iter == CHOOSE f : Is(f)
<1>1. FoldOf(d, v, base, n) = iter[1 .. n]
  BY DEF FoldOf, FoldLeft, MapThenFoldSet
<1>2. \E f : Is(f)
  <2>1. PICK f : Folds(d, v, base, n, f)
    BY FoldsExist
  <2> DEFINE g == [s \in SUBSET (1 .. n) |-> f[s]]
  <2>2. \A s \in SUBSET (1 .. n) : s \ {Max(s)} \in SUBSET (1 .. n)
    OBVIOUS
  <2>3. \A s \in SUBSET (1 .. n) : g[s] = f[s]
    OBVIOUS
  <2>4. \A s \in SUBSET (1 .. n) :
          g[s] = IF s = {} THEN base ELSE TakeRecord(d, g[s \ {Max(s)}], v)
    <3> HIDE DEF g
    <3>1. QED
      BY <2>1, <2>2, <2>3 DEF Folds
  <2>5. Is(g)
    BY <2>4
  <2>6. QED
    BY <2>5
<1>3. Is(iter)
  <2> HIDE DEF Is
  <2>1. QED
    BY <1>2
<1> HIDE DEF iter
<1>4. \A s \in SUBSET (1 .. n) :
        iter[s] = IF s = {} THEN base ELSE TakeRecord(d, iter[s \ {Max(s)}], v)
  BY <1>3
<1> HIDE DEF Is
<1> DEFINE st == [i \in 0 .. n |-> iter[1 .. i]]
<1>5. st[0] = base
  <2>1. 1 .. 0 = {} /\ 1 .. 0 \in SUBSET (1 .. n) /\ 0 \in 0 .. n
    OBVIOUS
  <2>2. iter[1 .. 0] = base
    BY <2>1, <1>4
  <2>3. QED
    BY <2>1, <2>2
<1>6. ASSUME NEW i \in 1 .. n PROVE st[i] = TakeRecord(d, st[i - 1], v)
  <2> DEFINE k == i - 1
             s == 1 .. k + 1
  <2>1. k \in Nat /\ k + 1 = i /\ k \in 0 .. n /\ i \in 0 .. n
    OBVIOUS
  <2> HIDE DEF k
  <2>2. s \in SUBSET (1 .. k + 1) /\ k + 1 \in s /\ s # {}
    <3>1. k + 1 \in s
      BY <2>1
    <3>2. s \in SUBSET (1 .. k + 1)
      OBVIOUS
    <3> HIDE DEF s
    <3>3. QED
      BY <3>1, <3>2
  <2>3. s \in SUBSET (1 .. n)
    BY <2>1
  <2>4. s \ {k + 1} = 1 .. k
    BY <2>1
  <2> HIDE DEF s
  <2>5. Max(s) = k + 1
    BY <2>1, <2>2, GreatestOf
  <2>6. iter[s] = TakeRecord(d, iter[1 .. k], v)
    BY <1>4, <2>2, <2>3, <2>4, <2>5
  <2>7. st[i] = iter[s] /\ st[i - 1] = iter[1 .. k]
    BY <2>1 DEF s, k
  <2>8. QED
    BY <2>6, <2>7
<1>7. st[n] = iter[1 .. n]
  OBVIOUS
<1> HIDE DEF st
<1>8. QED
  BY <1>1, <1>5, <1>6, <1>7

(* The steps of TakeRecords over the data d, from the cell p.               *)
Steps(d, p, v, st) ==
  /\ st[0] = Cur(p + 1, <<>>)
  /\ \A i \in 1 .. d[p + 1] : st[i] = TakeRecord(d, st[i - 1], v)

LEMMA RecordsTaken ==
  ASSUME NEW d \in Blob, NEW p \in Nat, NEW g \in Fields, NEW v
  PROVE  /\ ~(p < Len(d)) => TakeRecords(d, Cur(p, g), v) = Failed
         /\ p < Len(d) =>
              \E st : Steps(d, p, v, st) /\ TakeRecords(d, Cur(p, g), v) = st[d[p + 1]]
<1> DEFINE c == Cur(p, g)
           l == Take(d, c, 1)
<1>1. c.got = g
  BY CurFields
<1> HIDE DEF c
<1>2. CASE ~(p < Len(d))
  <2>1. ~l.ok
    BY <1>2, CellFound, FailedFields DEF c
  <2>2. TakeRecords(d, c, v) = Failed
    BY <2>1 DEF TakeRecords, Prefixed
  <2>3. QED
    BY <1>2, <2>2 DEF c
<1>3. CASE p < Len(d)
  <2>1. l.ok /\ Newest(l) = d[p + 1] /\ Refilled(l, g) = Cur(p + 1, g)
    BY <1>3, CellTaken DEF c
  <2>2. d[p + 1] \in Nat
    BY <1>3, CellType
  <2> HIDE DEF l
  <2> DEFINE base == Refilled(Refilled(l, g), <<>>)
  <2>3. base = Cur(p + 1, <<>>)
    BY <2>1, CurFilled
  <2>4. TakeRecords(d, c, v) = FoldOf(d, v, base, Newest(l))
    BY <1>1, <2>1 DEF TakeRecords, Prefixed, Refilled, FoldOf, l
  <2> HIDE DEF base
  <2> DEFINE n == Newest(l)
  <2>5. n \in Nat /\ n = d[p + 1]
    BY <2>1, <2>2
  <2> HIDE DEF n
  <2>6. PICK st : /\ st[0] = base
                  /\ \A i \in 1 .. n : st[i] = TakeRecord(d, st[i - 1], v)
                  /\ FoldOf(d, v, base, n) = st[n]
    BY <2>5, FoldUnrolled
  <2>7. TakeRecords(d, c, v) = st[n]
    BY <2>4, <2>6 DEF n
  <2>8. Steps(d, p, v, st)
    BY <2>3, <2>5, <2>6 DEF Steps
  <2>9. QED
    BY <1>3, <2>5, <2>7, <2>8 DEF c
<1>4. QED
  BY <1>2, <1>3

LEMMA WithRecordFields ==
  ASSUME NEW g \in Fields, NEW r \in AnyRecord
  PROVE  /\ Grown(g, WithRecord(g, r), 3) /\ WithRecord(g, r) \in Fields
         /\ WithRecord(g, r)[Len(g) + 1] = <<r.id>>
         /\ WithRecord(g, r)[Len(g) + 2] = r.name
         /\ WithRecord(g, r)[Len(g) + 3] = r.value
<1> DEFINE a == Append(g, <<r.id>>)
           b == Append(a, r.name)
           c == Append(b, r.value)
<1>1. r.name \in Blob /\ r.value \in Blob /\ <<r.id>> \in Blob
  BY RecordType, OneCell
<1>2. /\ a \in Fields /\ Grown(g, a, 1) /\ a[Len(g) + 1] = <<r.id>> /\ Len(a) = Len(g) + 1
      /\ Len(g) \in Nat
  BY <1>1, GrownBy, Appended
<1> HIDE DEF a
<1>3. b \in Fields /\ Grown(a, b, 1) /\ b[Len(a) + 1] = r.name /\ Len(b) = Len(a) + 1
  BY <1>1, <1>2, GrownBy, Appended
<1> HIDE DEF b
<1>4. c \in Fields /\ Grown(b, c, 1) /\ c[Len(b) + 1] = r.value
  BY <1>1, <1>3, GrownBy, Appended
<1>5. WithRecord(g, r) = c
  BY DEF WithRecord, c, b, a
<1> HIDE DEF c
<1>6. Grown(g, c, 3)
  <2>1. Grown(g, b, 1 + 1)
    BY <1>2, <1>3, GrownOn
  <2>2. Grown(g, c, (1 + 1) + 1)
    BY <1>4, <2>1, GrownOn
  <2>3. QED
    BY <2>2
<1>7. Len(g) + 1 \in 1 .. Len(a) /\ Len(g) + 1 \in 1 .. Len(b) /\ Len(g) + 2 \in 1 .. Len(b)
      /\ Len(g) + 2 = Len(a) + 1 /\ Len(g) + 3 = Len(b) + 1
  BY <1>2, <1>3
<1>8. c[Len(g) + 1] = <<r.id>>
  BY <1>2, <1>3, <1>4, <1>7 DEF Grown
<1>9. c[Len(g) + 2] = r.name
  BY <1>3, <1>4, <1>7 DEF Grown
<1>10. c[Len(g) + 3] = r.value
  BY <1>4, <1>7
<1>11. QED
  BY <1>4, <1>5, <1>6, <1>8, <1>9, <1>10

(* The fields f are those of the first n records.                           *)
Holds(f, rs, n) ==
  /\ f \in Fields /\ Len(f) = 3 * n
  /\ \A j \in 1 .. n :
       f[3 * j - 2] = <<rs[j].id>> /\ f[3 * j - 1] = rs[j].name /\ f[3 * j] = rs[j].value

LEMMA HoldsOne ==
  ASSUME NEW n \in Nat, NEW rs \in Seq(AnyRecord), n + 1 <= Len(rs), NEW f, Holds(f, rs, n)
  PROVE  Holds(WithRecord(f, rs[n + 1]), rs, n + 1)
<1>1. rs[n + 1] \in AnyRecord
  OBVIOUS
<1> DEFINE r == rs[n + 1]
           e == WithRecord(f, r)
<1>2. f \in Fields /\ Len(f) = 3 * n
  BY DEF Holds
<1>3. /\ e \in Fields /\ Grown(f, e, 3)
      /\ e[Len(f) + 1] = <<r.id>> /\ e[Len(f) + 2] = r.name /\ e[Len(f) + 3] = r.value
  <2> HIDE DEF r
  <2>1. r \in AnyRecord
    BY <1>1 DEF r
  <2>2. QED
    BY <1>2, <2>1, WithRecordFields
<1> HIDE DEF e, r
<1>4. Len(e) = 3 * (n + 1)
  BY <1>2, <1>3 DEF Grown
<1>5. ASSUME NEW j \in 1 .. n + 1
      PROVE  e[3 * j - 2] = <<rs[j].id>> /\ e[3 * j - 1] = rs[j].name /\ e[3 * j] = rs[j].value
  <2>1. CASE j = n + 1
    <3>1. 3 * j - 2 = Len(f) + 1 /\ 3 * j - 1 = Len(f) + 2 /\ 3 * j = Len(f) + 3
      BY <1>2, <2>1
    <3>2. rs[j] = r
      BY <2>1 DEF r
    <3>3. QED
      BY <1>3, <3>1, <3>2
  <2>2. CASE j # n + 1
    <3>1. j \in 1 .. n
      BY <2>2
    <3>2. 3 * j - 2 \in 1 .. Len(f) /\ 3 * j - 1 \in 1 .. Len(f) /\ 3 * j \in 1 .. Len(f)
      BY <1>2, <3>1
    <3>3. e[3 * j - 2] = f[3 * j - 2] /\ e[3 * j - 1] = f[3 * j - 1] /\ e[3 * j] = f[3 * j]
      BY <1>3, <3>2 DEF Grown
    <3>4. QED
      BY <3>1, <3>3 DEF Holds
  <2>3. QED
    BY <2>1, <2>2
<1>6. QED
  BY <1>3, <1>4, <1>5 DEF Holds, e, r

LEMMA RecordsOfHeld ==
  ASSUME NEW rs \in Seq(AnyRecord), NEW f, Holds(f, rs, Len(rs))
  PROVE  RecordsOf(f) = rs
<1>1. Len(f) \div 3 = Len(rs)
  <2>1. \A n \in Nat : (3 * n) \div 3 = n
    OBVIOUS
  <2>2. QED
    BY <2>1 DEF Holds
<1>2. ASSUME NEW i \in 1 .. Len(rs)
      PROVE  [id |-> f[3 * i - 2][1], name |-> f[3 * i - 1], value |-> f[3 * i]] = rs[i]
  <2>1. f[3 * i - 2] = <<rs[i].id>> /\ f[3 * i - 1] = rs[i].name /\ f[3 * i] = rs[i].value
    BY DEF Holds
  <2>2. rs[i] \in AnyRecord
    OBVIOUS
  <2>3. f[3 * i - 2][1] = rs[i].id
    BY <2>1
  <2>4. [id |-> rs[i].id, name |-> rs[i].name, value |-> rs[i].value] = rs[i]
    BY <2>2 DEF AnyRecord
  <2>5. QED
    BY <2>1, <2>3, <2>4
<1>3. rs = [i \in 1 .. Len(rs) |-> rs[i]]
  OBVIOUS
<1>4. QED
  BY <1>1, <1>2, <1>3 DEF RecordsOf


LEMMA RecordNotFailed ==
  ASSUME NEW d \in Blob, NEW p \in Nat, NEW g \in Fields, NEW v,
         ~TakeRecord(d, Cur(p, g), v).ok
  PROVE  TakeRecord(d, Cur(p, g), v) = Failed
<1>1. CASE ~(p < Len(d))
  BY <1>1, RecordSteps
<1>2. CASE p < Len(d)
  <2> DEFINE f == Append(g, <<d[p + 1]>>)
             e == TakeBytes(d, Cur(p + 1, f))
  <2>1. TakeRecord(d, Cur(p, g), v) =
          IF e.ok /\ (v = 2 => Utf8(Last(e.got))) THEN TakeBytes(d, e) ELSE Failed
    BY <1>2, RecordSteps
  <2>2. f \in Fields /\ p + 1 \in Nat
    <3>1. <<d[p + 1]>> \in Blob
      BY <1>2, CellFound
    <3> DEFINE s == <<d[p + 1]>>
    <3> HIDE DEF s
    <3>2. Append(g, s) \in Fields
      BY <3>1, Appended DEF s
    <3>3. QED
      BY <3>2 DEF s
  <2> HIDE DEF f
  <2>3. CASE e.ok
    <3>1. PICK q \in Nat, s \in Blob : e = Cur(q, Append(f, s)) /\ q <= Len(d)
      BY <2>2, <2>3, BytesOk
    <3>2. Append(f, s) \in Fields
      BY <2>2, Appended
    <3> HIDE DEF e
    <3>3. TakeBytes(d, e) # Failed => TakeBytes(d, e).ok
      BY <3>1, <3>2, BytesNotFailed
    <3>4. QED
      BY <2>1, <3>3
  <2>4. CASE ~e.ok
    BY <2>1, <2>4
  <2>5. QED
    BY <2>3, <2>4
<1>3. QED
  BY <1>1, <1>2

(* One more record at the end.                                              *)
LEMMA OneMoreRecord ==
  ASSUME NEW d \in Blob, NEW p \in Nat, NEW rs \in Seq(AnyRecord), NEW r \in AnyRecord,
         Lies(d, p, EveryRecord(rs)), Lies(d, p + Len(EveryRecord(rs)), RecordBytes(r))
  PROVE  /\ Lies(d, p, EveryRecord(Append(rs, r)))
         /\ Len(EveryRecord(Append(rs, r))) = Len(EveryRecord(rs)) + Len(RecordBytes(r))
<1> DEFINE ts == Append(rs, r)
           n == Len(rs)
<1>1. /\ ts \in Seq(AnyRecord) /\ Len(ts) = n + 1 /\ n \in Nat /\ ts[n + 1] = r
      /\ \A i \in 1 .. n : ts[i] = rs[i]
  OBVIOUS
<1> HIDE DEF ts
<1>2. PICK end : /\ Ends(rs, p, end)
                 /\ EveryRecord(rs) \in Blob /\ p + Len(EveryRecord(rs)) = end[Len(rs)]
                 /\ \A e \in Blob :
                      Lies(e, p, EveryRecord(rs)) <=>
                        /\ p <= Len(e)
                        /\ \A i \in 1 .. Len(rs) : Lies(e, end[i - 1], RecordBytes(rs[i]))
  BY RecordsPlaces
<1>3. PICK fin : /\ Ends(ts, p, fin)
                 /\ EveryRecord(ts) \in Blob /\ p + Len(EveryRecord(ts)) = fin[Len(ts)]
                 /\ \A e \in Blob :
                      Lies(e, p, EveryRecord(ts)) <=>
                        /\ p <= Len(e)
                        /\ \A i \in 1 .. Len(ts) : Lies(e, fin[i - 1], RecordBytes(ts[i]))
  BY <1>1, RecordsPlaces
<1> HIDE DEF n
<1>4. \A i \in Nat : i <= n => fin[i] = end[i]
  <2> DEFINE S == {i \in Nat : i <= n => fin[i] = end[i]}
  <2>1. 0 \in S
    BY <1>2, <1>3 DEF Ends
  <2>2. \A i \in Nat : i \in S => i + 1 \in S
    <3> SUFFICES ASSUME NEW i \in Nat, i <= n => fin[i] = end[i], i + 1 <= n
                 PROVE  fin[i + 1] = end[i + 1]
      OBVIOUS
    <3>1. i + 1 \in 1 .. n /\ i + 1 \in 1 .. Len(ts) /\ (i + 1) - 1 = i /\ n = Len(rs)
      BY <1>1 DEF n
    <3>2. end[i + 1] = end[i] + Len(RecordBytes(rs[i + 1]))
      BY <1>2, <3>1 DEF Ends
    <3>3. fin[i + 1] = fin[i] + Len(RecordBytes(ts[i + 1]))
      BY <1>3, <3>1 DEF Ends
    <3>4. QED
      BY <1>1, <3>1, <3>2, <3>3
  <2> HIDE DEF S
  <2>3. \A i \in Nat : i \in S
    BY <2>1, <2>2, Induction
  <2>4. QED
    BY <2>3 DEF S
<1>5. n + 1 \in 1 .. Len(ts) /\ (n + 1) - 1 = n /\ n = Len(rs) /\ n <= n
  BY <1>1 DEF n
<1>6. fin[n + 1] = fin[n] + Len(RecordBytes(r))
  <2>1. fin[n + 1] = fin[(n + 1) - 1] + Len(RecordBytes(ts[n + 1]))
    BY <1>3, <1>5 DEF Ends
  <2>2. QED
    BY <1>1, <1>5, <2>1
<1>7. fin[n] = p + Len(EveryRecord(rs))
  BY <1>1, <1>2, <1>4, <1>5
<1>8. ASSUME NEW i \in 1 .. Len(ts)
      PROVE  Lies(d, fin[i - 1], RecordBytes(ts[i]))
  <2>1. CASE i = n + 1
    BY <1>1, <1>5, <1>7, <2>1
  <2>2. CASE i # n + 1
    <3>1. i \in 1 .. n /\ i \in 1 .. Len(rs) /\ i - 1 \in Nat /\ i - 1 <= n
      BY <1>1, <1>5, <2>2
    <3>2. Lies(d, end[i - 1], RecordBytes(rs[i]))
      BY <1>2, <3>1
    <3>3. QED
      BY <1>1, <1>4, <3>1, <3>2
  <2>3. QED
    BY <2>1, <2>2
<1>9. p <= Len(d)
  BY <1>2
<1>10. Lies(d, p, EveryRecord(ts))
  BY <1>3, <1>8, <1>9
<1>11. /\ Len(EveryRecord(ts)) \in Nat /\ Len(EveryRecord(rs)) \in Nat
       /\ Len(RecordBytes(r)) \in Nat
  BY <1>2, <1>3, LenNat, RecordType
<1>12. p + Len(EveryRecord(ts)) = p + Len(EveryRecord(rs)) + Len(RecordBytes(r))
  BY <1>1, <1>3, <1>6, <1>7
<1>13. Len(EveryRecord(ts)) = Len(EveryRecord(rs)) + Len(RecordBytes(r))
  BY <1>11, <1>12
<1>14. QED
  BY <1>10, <1>13 DEF ts

(* The data hold the records rs behind the cell p, and the cursor c has     *)
(* taken them.                                                              *)
Took(d, p, c, rs) ==
  /\ rs \in Seq(AnyRecord)
  /\ Lies(d, p, EveryRecord(rs))
  /\ c.ok /\ c.at = p + Len(EveryRecord(rs))
  /\ Holds(c.got, rs, Len(rs)) /\ c = Cur(c.at, c.got)

LEMMA NoneTook ==
  ASSUME NEW d \in Blob, NEW p \in Nat, p <= Len(d)
  PROVE  Took(d, p, Cur(p, <<>>), <<>>)
<1>1. <<>> \in Seq(AnyRecord) /\ Len(<<>>) = 0
  OBVIOUS
<1>2. PICK end : /\ Ends(<<>>, p, end)
                 /\ EveryRecord(<<>>) \in Blob /\ p + Len(EveryRecord(<<>>)) = end[Len(<<>>)]
                 /\ \A e \in Blob :
                      Lies(e, p, EveryRecord(<<>>)) <=>
                        /\ p <= Len(e)
                        /\ \A i \in 1 .. Len(<<>>) : Lies(e, end[i - 1], RecordBytes(<<>>[i]))
  BY <1>1, RecordsPlaces
<1>3. end[0] = p
  BY <1>2 DEF Ends
<1>4. Lies(d, p, EveryRecord(<<>>))
  BY <1>1, <1>2
<1>5. p + Len(EveryRecord(<<>>)) = p
  BY <1>1, <1>2, <1>3
<1>6. Holds(<<>>, <<>>, 0)
  BY FailedFields DEF Holds
<1>7. QED
  BY <1>1, <1>4, <1>5, <1>6, CurFields DEF Took

LEMMA OneTook ==
  ASSUME NEW d \in Blob, NEW p \in Nat, NEW v, NEW c, NEW rs, Took(d, p, c, rs),
         TakeRecord(d, c, v).ok
  PROVE  \E r \in AnyRecord : /\ Took(d, p, TakeRecord(d, c, v), Append(rs, r))
                              /\ v = 2 => Utf8(r.name)
<1> DEFINE q == c.at
           g == c.got
           n == Len(rs)
<1>1. rs \in Seq(AnyRecord) /\ Lies(d, p, EveryRecord(rs)) /\ q = p + Len(EveryRecord(rs))
  BY DEF Took
<1>2. c = Cur(q, g) /\ Holds(g, rs, n) /\ n \in Nat
  BY <1>1 DEF Took
<1>3. g \in Fields
  BY <1>2 DEF Holds
<1>4. q \in Nat
  <2>1. EveryRecord(rs) \in Blob
    BY <1>1, RecordsPlaces
  <2>2. QED
    BY <1>1, <2>1, LenNat
<1> HIDE DEF q, g
<1>5. PICK r \in AnyRecord : Lies(d, q, RecordBytes(r)) /\ (v = 2 => Utf8(r.name))
  BY <1>2, <1>3, <1>4, RecordThere
<1>6. TakeRecord(d, c, v) = Cur(q + Len(RecordBytes(r)), WithRecord(g, r))
  BY <1>2, <1>3, <1>4, <1>5, RecordFound
<1> DEFINE ts == Append(rs, r)
<1>7. ts \in Seq(AnyRecord) /\ Len(ts) = n + 1 /\ ts[n + 1] = r /\ n + 1 <= Len(ts)
      /\ \A i \in 1 .. n : ts[i] = rs[i]
  BY <1>1
<1>8. /\ Lies(d, p, EveryRecord(ts))
      /\ Len(EveryRecord(ts)) = Len(EveryRecord(rs)) + Len(RecordBytes(r))
  BY <1>1, <1>5, OneMoreRecord
<1> HIDE DEF ts, n
<1>9. Holds(g, ts, n)
  BY <1>2, <1>7 DEF Holds
<1>10. Holds(WithRecord(g, r), ts, n + 1)
  BY <1>2, <1>7, <1>9, HoldsOne
<1>11. Len(EveryRecord(rs)) \in Nat /\ Len(RecordBytes(r)) \in Nat
  BY <1>1, RecordsPlaces, RecordType, LenNat
<1>12. q + Len(RecordBytes(r)) = p + Len(EveryRecord(ts))
  BY <1>1, <1>8, <1>11
<1>13. Took(d, p, Cur(q + Len(RecordBytes(r)), WithRecord(g, r)), ts)
  BY <1>7, <1>8, <1>10, <1>12, CurFields DEF Took
<1>14. QED
  BY <1>5, <1>6, <1>13 DEF ts

(* The records read are there, as many as the cell before them says, and    *)
(* nothing else is made of them.                                            *)
LEMMA RecordsThere ==
  ASSUME NEW d \in Blob, NEW p \in Nat, NEW g \in Fields, NEW v,
         TakeRecords(d, Cur(p, g), v).ok
  PROVE  /\ p < Len(d)
         /\ \E rs \in Seq(AnyRecord) :
              /\ Len(rs) = d[p + 1]
              /\ Lies(d, p + 1, EveryRecord(rs))
              /\ RecordsOf(TakeRecords(d, Cur(p, g), v).got) = rs
<1>1. p < Len(d)
  BY RecordsTaken, FailedFields
<1>2. PICK st : Steps(d, p, v, st) /\ TakeRecords(d, Cur(p, g), v) = st[d[p + 1]]
  BY <1>1, RecordsTaken
<1> DEFINE n == d[p + 1]
           c == TakeRecords(d, Cur(p, g), v)
<1>3. n \in Nat /\ p + 1 \in Nat /\ p + 1 <= Len(d)
  BY <1>1, CellType
<1>4. st[0] = Cur(p + 1, <<>>) /\ \A i \in 1 .. n : st[i] = TakeRecord(d, st[i - 1], v)
  BY <1>2 DEF Steps
<1>5. c = st[n] /\ c.ok
  BY <1>2
<1> HIDE DEF n, c
<1> DEFINE S == {i \in Nat : i <= n => \/ st[i] = Failed
                                       \/ \E rs : Took(d, p + 1, st[i], rs) /\ Len(rs) = i}
<1>6. 0 \in S
  <2>1. Took(d, p + 1, st[0], <<>>) /\ Len(<<>>) = 0
    BY <1>3, <1>4, NoneTook
  <2>2. QED
    BY <2>1
<1>7. \A i \in Nat : i \in S => i + 1 \in S
  <2> SUFFICES ASSUME NEW i \in Nat, i + 1 <= n,
                      \/ st[i] = Failed
                      \/ \E rs : Took(d, p + 1, st[i], rs) /\ Len(rs) = i
               PROVE  \/ st[i + 1] = Failed
                      \/ \E rs : Took(d, p + 1, st[i + 1], rs) /\ Len(rs) = i + 1
    BY <1>3
  <2>1. st[i + 1] = TakeRecord(d, st[i], v)
    <3>1. i + 1 \in 1 .. n /\ (i + 1) - 1 = i
      BY <1>3
    <3>2. QED
      BY <1>4, <3>1
  <2>2. CASE st[i] = Failed
    BY <2>1, <2>2, RecordTakenNot
  <2>3. CASE \E rs : Took(d, p + 1, st[i], rs) /\ Len(rs) = i
    <3>1. PICK rs : Took(d, p + 1, st[i], rs) /\ Len(rs) = i
      BY <2>3
    <3>2. CASE st[i + 1].ok
      <4>1. PICK r \in AnyRecord : Took(d, p + 1, TakeRecord(d, st[i], v), Append(rs, r))
        BY <1>3, <2>1, <3>1, <3>2, OneTook
      <4>2. Len(Append(rs, r)) = i + 1
        BY <3>1 DEF Took
      <4>3. QED
        BY <2>1, <4>1, <4>2
    <3>3. CASE ~st[i + 1].ok
      <4>1. /\ st[i] = Cur(st[i].at, st[i].got) /\ st[i].got \in Fields
            /\ rs \in Seq(AnyRecord) /\ st[i].at = p + 1 + Len(EveryRecord(rs))
        BY <3>1 DEF Took, Holds
      <4>2. st[i].at \in Nat
        <5>1. EveryRecord(rs) \in Blob
          BY <1>3, <4>1, RecordsPlaces
        <5>2. QED
          BY <4>1, <5>1, LenNat
      <4>3. TakeRecord(d, Cur(st[i].at, st[i].got), v) = Failed
        BY <2>1, <3>3, <4>1, <4>2, RecordNotFailed
      <4>4. QED
        BY <2>1, <4>1, <4>3
    <3>4. QED
      BY <3>2, <3>3
  <2>4. QED
    BY <2>2, <2>3
<1> HIDE DEF S
<1>8. n \in S
  BY <1>3, <1>6, <1>7, Induction
<1>9. c # Failed
  BY <1>5, FailedFields
<1>10. PICK rs : Took(d, p + 1, c, rs) /\ Len(rs) = n
  BY <1>3, <1>5, <1>8, <1>9 DEF S
<1>11. rs \in Seq(AnyRecord) /\ Lies(d, p + 1, EveryRecord(rs)) /\ RecordsOf(c.got) = rs
  BY <1>10, RecordsOfHeld DEF Took
<1>12. QED
  BY <1>1, <1>10, <1>11 DEF n, c

LEMMA RecordsFound ==
  ASSUME NEW d \in Blob, NEW p \in Nat, NEW g \in Fields, NEW v, NEW rs \in Seq(AnyRecord),
         p < Len(d), d[p + 1] = Len(rs), Lies(d, p + 1, EveryRecord(rs)),
         v = 2 => \A i \in 1 .. Len(rs) : Utf8(rs[i].name)
  PROVE  TakeRecords(d, Cur(p, g), v).ok
<1> DEFINE n == Len(rs)
           q == p + 1
<1>1. PICK st : Steps(d, p, v, st) /\ TakeRecords(d, Cur(p, g), v) = st[d[p + 1]]
  BY RecordsTaken
<1>2. n \in Nat /\ q \in Nat
  OBVIOUS
<1>3. st[0] = Cur(q, <<>>) /\ \A i \in 1 .. n : st[i] = TakeRecord(d, st[i - 1], v)
  BY <1>1 DEF Steps
<1>4. PICK end : /\ Ends(rs, q, end)
                 /\ EveryRecord(rs) \in Blob /\ q + Len(EveryRecord(rs)) = end[Len(rs)]
                 /\ \A e \in Blob :
                      Lies(e, q, EveryRecord(rs)) <=>
                        /\ q <= Len(e)
                        /\ \A i \in 1 .. Len(rs) : Lies(e, end[i - 1], RecordBytes(rs[i]))
  <2> HIDE DEF q
  <2>1. QED
    BY <1>2, RecordsPlaces
<1>5. \A i \in 1 .. n : Lies(d, end[i - 1], RecordBytes(rs[i]))
  BY <1>4
<1>6. /\ end[0] = q /\ \A i \in 1 .. n : end[i] = end[i - 1] + Len(RecordBytes(rs[i]))
      /\ \A i \in 0 .. n : end[i] \in Nat
  BY <1>4 DEF Ends
<1>7. \A i \in 1 .. n : rs[i] \in AnyRecord /\ (v = 2 => Utf8(rs[i].name))
  OBVIOUS
<1> DEFINE S == {i \in Nat : i <= n => \E f \in Fields : st[i] = Cur(end[i], f)}
<1> HIDE DEF n, q
<1>8. 0 \in S
  BY <1>3, <1>6, FailedFields
<1>9. \A i \in Nat : i \in S => i + 1 \in S
  <2> SUFFICES ASSUME NEW i \in Nat, i + 1 <= n, NEW f \in Fields, st[i] = Cur(end[i], f)
               PROVE  \E h \in Fields : st[i + 1] = Cur(end[i + 1], h)
    BY <1>2
  <2> DEFINE k == i + 1
  <2>1. k \in 1 .. n /\ k - 1 = i /\ i \in 0 .. n
    BY <1>2
  <2> HIDE DEF k
  <2>2. /\ st[k] = TakeRecord(d, Cur(end[i], f), v) /\ end[i] \in Nat
        /\ rs[k] \in AnyRecord /\ (v = 2 => Utf8(rs[k].name))
        /\ Lies(d, end[i], RecordBytes(rs[k]))
        /\ end[k] = end[i] + Len(RecordBytes(rs[k]))
    BY <1>3, <1>5, <1>6, <1>7, <2>1
  <2>3. st[k] = Cur(end[k], WithRecord(f, rs[k]))
    BY <2>2, RecordFound
  <2>4. WithRecord(f, rs[k]) \in Fields
    BY <2>2, WithRecordFields
  <2>5. QED
    BY <2>3, <2>4 DEF k
<1> HIDE DEF S
<1>10. n \in S
  BY <1>2, <1>8, <1>9, Induction
<1>11. PICK f \in Fields : st[n] = Cur(end[n], f)
  BY <1>2, <1>10 DEF S
<1>12. QED
  BY <1>1, <1>11, CurFields DEF n

-----------------------------------------------------------------------------
(* A file that was written                                                  *)

(* A header `load` accepts: the file's magic, a known version, and costs    *)
(* within the limits.                                                       *)
Affordable(k) == k.mem <= MAX_ARGON2 /\ k.time <= MAX_ARGON2 /\ k.lanes <= MAX_ARGON2
Loadable(h) ==
  /\ h.magic = MAGIC /\ h.version \in {2, 3}
  /\ Affordable(h.kdf) /\ \A r \in h.recovery : Affordable(r.kdf)

(* Who writes a file writes a header and records of these types, which the  *)
(* parser accepts, with names in the clear that are text.                   *)
Accepted(h, rs) ==
  Loadable(h) /\ (h.version = 2 => \A i \in 1 .. Len(rs) : Utf8(rs[i].name))
Written == file \in AnyHeader \X Seq(AnyRecord) /\ Accepted(file[1], file[2])
IInv == Written /\ data \in Blob /\ secrets \in Seq(Secrets)

LEMMA FileType ==
  ASSUME NEW h \in AnyHeader, NEW rs \in Seq(AnyRecord)
  PROVE  FileBytes(h, rs) \in Blob
<1>1. HeaderBytes(h) \in Blob
  BY HeaderType
<1>2. PutBytes(HeaderBytes(h)) \in Blob
  BY <1>1, PutBytesType
<1>3. <<Len(rs)>> \in Blob /\ EveryRecord(rs) \in Blob
  <2>1. EveryRecord(rs) \in Blob
    <3>1. 0 \in Nat
      OBVIOUS
    <3>2. QED
      BY <3>1, RecordsPlaces
  <2>2. QED
    BY <2>1, OneCell
<1> DEFINE a == PutBytes(HeaderBytes(h))
           b == <<Len(rs)>>
           c == EveryRecord(rs)
<1>4. FileBytes(h, rs) = a \o b \o c
  BY DEF FileBytes
<1> HIDE DEF a, b, c
<1>5. QED
  BY <1>2, <1>3, <1>4, Joined DEF a, b, c

(* The plaintexts of a saved vault.                                         *)
LEMMA TextsType == Texts \subseteq Blob /\ <<1, NotUtf8>> \in Blob
<1>1. Texts \subseteq Blob
  <2> SUFFICES ASSUME NEW t \in Texts PROVE t \in Seq(Nat)
    BY DEF Blob
  <2>1. PICK n \in 0 .. MaxText : t = [i \in 1 .. n |-> i % 2]
    BY DEF Texts
  <2>2. n \in Nat
    BY ConstantTypes
  <2>3. \A i \in 1 .. n : i % 2 \in Nat
    OBVIOUS
  <2>4. QED
    BY <2>1, <2>2, <2>3
<1>2. QED
  BY <1>1, ConstantTypes DEF Blob

LEMMA PaddedType ==
  ASSUME NEW n \in Nat, NEW b \in Nat \ {0}
  PROVE  PaddedLen(n, b) \in Nat /\ PaddedLen(n, b) - n \in Nat
<1>1. b * ((n + b - 1) \div b) >= n /\ (n + b - 1) \div b \in Nat
  OBVIOUS
<1> DEFINE k == (n + b - 1) \div b
<1> HIDE DEF k
<1>2. b * k \in Nat /\ b * 1 = b
  BY <1>1 DEF k
<1>3. QED
  BY <1>1, <1>2 DEF PaddedLen, Ceiling, k

LEMMA FilledType ==
  ASSUME NEW p \in Blob, NEW b \in Nat \ {0}
  PROVE  Fill(p, b) \in Blob
<1> DEFINE m == PaddedLen(Len(p), b) - Len(p)
           z == [i \in 1 .. m |-> 0]
<1>1. m \in Nat
  BY LenNat, PaddedType
<1> HIDE DEF m
<1>2. z \in Blob
  BY <1>1 DEF Blob
<1>3. Fill(p, b) = p \o z
  BY DEF Fill, m
<1> HIDE DEF z
<1>4. QED
  BY <1>2, <1>3, Joined

LEMMA SealedType ==
  ASSUME NEW i \in Nat, NEW kind \in Nat, NEW s, s.name \in Blob, s.value \in Blob
  PROVE  SealedRecord(i, kind, s) \in AnyRecord
<1> DEFINE n == s.name
           v == s.value
<1>1. n \in Blob /\ v \in Blob /\ Len(n) \in Nat /\ Len(v) \in Nat
  BY LenNat
<1> HIDE DEF n, v
<1>2. <<kind, Len(n)>> \in Blob /\ <<Len(v)>> \in Blob
  BY <1>1 DEF Blob
<1>3. <<kind, Len(n)>> \o n \in Blob /\ <<Len(v)>> \o v \in Blob
  BY <1>1, <1>2, Joined
<1>4. EncodeName(kind, n) \in Blob /\ EncodeValue(v) \in Blob
  BY <1>3, FilledType, ConstantTypes DEF EncodeName, EncodeValue
<1>5. QED
  BY <1>4 DEF SealedRecord, AnyRecord, n, v

LEMMA SavedType ==
  ASSUME NEW ss \in BoundedSeq(Secrets, MaxSecrets)
  PROVE  /\ SavedFile(ss) \in AnyHeader \X Seq(AnyRecord)
         /\ ss \in Seq(Secrets)
<1>1. ss \in Seq(Secrets)
  BY Bounded, ConstantTypes
<1> DEFINE n == PaddedLen(Len(ss), COUNT_BUCKET)
<1>2. n \in Nat
  <2>1. Len(ss) \in Nat
    BY <1>1
  <2>2. QED
    BY <2>1, PaddedType, ConstantTypes
<1> HIDE DEF n
<1>3. ASSUME NEW i \in 1 .. n
      PROVE  (IF i <= Len(ss) THEN SealedRecord(i, 0, ss[i]) ELSE SealedRecord(i, 1, Nothing))
               \in AnyRecord
  <2>1. CASE i <= Len(ss)
    <3>1. ss[i] \in Secrets
      BY <1>1, <1>2, <2>1
    <3>2. ss[i].name \in Blob /\ ss[i].value \in Blob
      BY <3>1, TextsType DEF Secrets
    <3>3. SealedRecord(i, 0, ss[i]) \in AnyRecord
      BY <1>2, <3>2, SealedType
    <3>4. QED
      BY <2>1, <3>3
  <2>2. CASE ~(i <= Len(ss))
    <3>1. Nothing.name \in Blob /\ Nothing.value \in Blob
      BY SomeBlobs DEF Nothing
    <3>2. SealedRecord(i, 1, Nothing) \in AnyRecord
      BY <1>2, <3>1, SealedType
    <3>3. QED
      BY <2>2, <3>2
  <2>3. QED
    BY <2>1, <2>2
<1>4. SavedRecords(ss) \in [1 .. n -> AnyRecord]
  BY <1>3 DEF SavedRecords, n
<1>5. SavedRecords(ss) \in Seq(AnyRecord)
  BY <1>2, <1>4
<1>6. NewHeader(3) \in AnyHeader
  BY NewHeaderType
<1>7. QED
  BY <1>1, <1>5, <1>6 DEF SavedFile

LEMMA NewLoadable ==
  ASSUME NEW v \in {2, 3}
  PROVE  Loadable(NewHeader(v))
<1>1. v \in Nat
  OBVIOUS
<1>2. NewHeader(v).version = v /\ NewHeader(v).magic = MAGIC
      /\ NewHeader(v).kdf = [mem |-> 1, time |-> 1, lanes |-> 1, salt |-> 5]
  BY <1>1, NewHeaderType
<1>3. NewHeader(v).recovery = {}
  BY DEF NewHeader
<1>4. 1 <= MAX_ARGON2
  BY CodecAssumption
<1>5. Affordable([mem |-> 1, time |-> 1, lanes |-> 1, salt |-> 5])
  BY <1>4 DEF Affordable
<1> DEFINE h == NewHeader(v)
<1>6. h.version = v /\ h.magic = MAGIC /\ Affordable(h.kdf) /\ h.recovery = {}
  BY <1>2, <1>3, <1>5
<1> HIDE DEF h
<1>7. Loadable(h)
  BY <1>6 DEF Loadable
<1>8. QED
  BY <1>7 DEF h

LEMMA FilesAccepted ==
  ASSUME NEW f \in HeaderFiles \cup RecordFiles
  PROVE  Accepted(f[1], f[2])
<1>1. ASSUME NEW k \in Kdfs PROVE Affordable(k)
  BY CodecAssumption DEF Kdfs, Affordable
<1>2. ASSUME NEW h \in Headers PROVE Loadable(h)
  <2>1. h.magic = MAGIC /\ h.version \in {2, 3} /\ h.kdf \in Kdfs
        /\ h.recovery \in {{}} \cup {{[kdf |-> k, wrap |-> w]} : k \in Kdfs, w \in Blobs}
    BY DEF Headers
  <2>2. \A r \in h.recovery : r.kdf \in Kdfs
    BY <2>1
  <2>3. QED
    BY <1>1, <2>1, <2>2 DEF Loadable
<1>3. CASE f \in HeaderFiles
  <2>1. f[1] \in Headers /\ f[2] \in FewRecords
    BY <1>3 DEF HeaderFiles
  <2>2. \A i \in 1 .. Len(f[2]) : Utf8(f[2][i].name)
    BY <2>1, TextBlobs DEF FewRecords
  <2>3. QED
    BY <1>2, <2>1, <2>2 DEF Accepted
<1>4. CASE f \in RecordFiles
  <2>1. f[1] \in {NewHeader(2), NewHeader(3)} /\ f[2] \in AnyRecords
    BY <1>4 DEF RecordFiles
  <2>2. f[2] \in Seq([id : {1, 2}, name : Blobs, value : Blobs])
    BY <2>1, Bounded, ConstantTypes DEF AnyRecords
  <2>3. ASSUME NEW i \in 1 .. Len(f[2]) PROVE Utf8(f[2][i].name)
    <3>1. f[2][i] \in [id : {1, 2}, name : Blobs, value : Blobs]
      <4> DEFINE rs == f[2]
                 S == [id : {1, 2}, name : Blobs, value : Blobs]
      <4>1. rs \in Seq(S) /\ i \in 1 .. Len(rs)
        BY <2>2
      <4> HIDE DEF rs, S
      <4>2. rs[i] \in S
        BY <4>1
      <4>3. QED
        BY <4>2 DEF rs, S
    <3>2. f[2][i].name \in Blobs
      BY <3>1
    <3>3. QED
      BY <3>2, TextBlobs
  <2>4. Loadable(f[1])
    BY <2>1, NewLoadable
  <2>5. QED
    BY <2>3, <2>4 DEF Accepted
<1>5. QED
  BY <1>3, <1>4

LEMMA CodecIndInit == CodecInit => IInv
<1> SUFFICES ASSUME CodecInit PROVE IInv
  OBVIOUS
<1>1. file \in AnyHeader \X Seq(AnyRecord) /\ Accepted(file[1], file[2])
  <2>1. CASE file \in HeaderFiles \cup RecordFiles
    <3>1. file = <<file[1], file[2]>> /\ file[1] \in AnyHeader /\ file[2] \in Seq(AnyRecord)
      BY <2>1, FileParts
    <3>2. Accepted(file[1], file[2])
      BY <2>1, FilesAccepted
    <3>3. QED
      BY <3>1, <3>2
  <2>2. CASE secrets \in BoundedSeq(Secrets, MaxSecrets) /\ file = SavedFile(secrets)
    <3>1. file \in AnyHeader \X Seq(AnyRecord)
      BY <2>2, SavedType
    <3>2. file[1] = NewHeader(3)
      BY <2>2 DEF SavedFile
    <3>3. 3 \in Nat /\ 3 # 2
      OBVIOUS
    <3>4. NewHeader(3).version = 3 /\ Loadable(NewHeader(3))
      BY <3>3, NewHeaderType, NewLoadable, Zenon
    <3>5. Accepted(file[1], file[2])
      BY <3>2, <3>3, <3>4 DEF Accepted
    <3>6. QED
      BY <3>1, <3>5
  <2>3. QED
    BY <2>1, <2>2 DEF CodecInit
<1>2. data \in Blob
  <2>1. file[1] \in AnyHeader /\ file[2] \in Seq(AnyRecord) /\ data = FileBytes(file[1], file[2])
    BY <1>1 DEF CodecInit, BytesOf
  <2>2. QED
    BY <2>1, FileType
<1>3. secrets \in Seq(Secrets)
  <2>1. <<>> \in Seq(Secrets)
    OBVIOUS
  <2>2. QED
    BY <2>1, SavedType DEF CodecInit
<1>4. QED
  BY <1>1, <1>2, <1>3 DEF IInv, Written

LEMMA CodecIndNext == IInv /\ [CodecNext]_codecVars => IInv'
<1> SUFFICES ASSUME IInv, [CodecNext]_codecVars PROVE IInv'
  OBVIOUS
<1>1. data \in Seq(Nat) /\ Len(data) \in Nat
  BY DEF IInv, Blob
<1>2. file' = file /\ secrets' = secrets
  BY DEF codecVars, CodecNext, LoseEnd, Damage
<1>3. data' \in Seq(Nat)
  <2>1. CASE UNCHANGED codecVars
    BY <1>1, <2>1 DEF codecVars
  <2>2. CASE LoseEnd
    <3>1. PICK n \in 0 .. Len(data) - 1 : data' = SubSeq(data, 1, n)
      BY <2>2 DEF LoseEnd
    <3>2. QED
      BY <1>1, <3>1
  <2>3. CASE Damage
    <3>1. PICK i \in DOMAIN data :
            \/ \E x \in 0 .. 3 : data' = ReplaceAt(data, i, x)
            \/ \E j \in DOMAIN data : data' = ReplaceAt(ReplaceAt(data, i, data[j]), j, data[i])
            \/ data' = RemoveAt(data, i)
            \/ data' = Append(data, i)
      BY <2>3 DEF Damage
    <3>2. i \in Nat /\ i \in 1 .. Len(data)
      BY <1>1
    <3>3. \A s \in Seq(Nat), x \in Nat : \A j \in 1 .. Len(s) :
            ReplaceAt(s, j, x) \in Seq(Nat) /\ Len(ReplaceAt(s, j, x)) = Len(s)
      BY DEF ReplaceAt
    <3>4. CASE \E x \in 0 .. 3 : data' = ReplaceAt(data, i, x)
      BY <1>1, <3>2, <3>3, <3>4
    <3>5. CASE \E j \in DOMAIN data :
                 data' = ReplaceAt(ReplaceAt(data, i, data[j]), j, data[i])
      <4>1. PICK j \in DOMAIN data :
              data' = ReplaceAt(ReplaceAt(data, i, data[j]), j, data[i])
        BY <3>5
      <4>2. data[i] \in Nat /\ data[j] \in Nat /\ j \in 1 .. Len(data)
        BY <1>1, <3>2
      <4>3. QED
        BY <1>1, <3>2, <3>3, <4>1, <4>2
    <3>6. CASE data' = RemoveAt(data, i)
      <4> DEFINE a == SubSeq(data, 1, i - 1)
                 b == SubSeq(data, i + 1, Len(data))
      <4>1. a \in Seq(Nat) /\ b \in Seq(Nat)
        <5>1. \A s \in Seq(Nat) : \A k, l \in Int :
                (\A j \in k .. l : j \in DOMAIN s) => SubSeq(s, k, l) \in Seq(Nat)
          OBVIOUS
        <5>2. /\ 1 \in Int /\ i - 1 \in Int /\ i + 1 \in Int /\ Len(data) \in Int
              /\ \A j \in 1 .. i - 1 : j \in DOMAIN data
              /\ \A j \in i + 1 .. Len(data) : j \in DOMAIN data
          BY <1>1, <3>2
        <5>3. QED
          BY <1>1, <5>1, <5>2
      <4>2. data' = a \o b
        BY <3>6 DEF RemoveAt
      <4> HIDE DEF a, b
      <4>3. QED
        BY <4>1, <4>2
    <3>7. CASE data' = Append(data, i)
      BY <1>1, <3>2, <3>7
    <3>8. QED
      BY <3>1, <3>4, <3>5, <3>6, <3>7
  <2>4. QED
    BY <2>1, <2>2, <2>3 DEF CodecNext
<1>4. QED
  BY <1>2, <1>3 DEF IInv, Written, Blob

LEMMA CodecInduction == CodecSpec => []IInv
BY CodecIndInit, CodecIndNext, PTL DEF CodecSpec

(* The parts of a file in their places.                                     *)
LEMMA FileLies ==
  ASSUME NEW h \in AnyHeader, NEW rs \in Seq(AnyRecord)
  PROVE  LET b == FileBytes(h, rs)
             p == 2 + Len(HeaderBytes(h))
         IN  /\ Lies(b, 0, PutBytes(HeaderBytes(h))) /\ b[p] = Len(rs)
             /\ Lies(b, p, EveryRecord(rs)) /\ p + Len(EveryRecord(rs)) = Len(b)
<1> DEFINE hb == HeaderBytes(h)
           a == PutBytes(hb)
           n == <<Len(rs)>>
           c == EveryRecord(rs)
           b == FileBytes(h, rs)
           p == 2 + Len(hb)
<1>1. hb \in Blob /\ Len(hb) \in Nat
  BY HeaderType, LenNat
<1>2. a \in Blob /\ Len(a) = 1 + Len(hb)
  <2> HIDE DEF hb
  <2>1. QED
    BY <1>1, PutBytesType
<1>3. n \in Blob /\ Len(n) = 1 /\ n[1] = Len(rs)
  BY OneCell
<1>4. c \in Blob
  <2>1. 0 \in Nat
    OBVIOUS
  <2>2. QED
    BY <2>1, RecordsPlaces
<1>5. b = a \o n \o c /\ b \in Blob
  BY FileType DEF FileBytes
<1> HIDE DEF hb, a, n, c, b
<1>6. a \o n \in Blob /\ Len(a \o n) = p
  <2>1. a \o n \in Blob /\ Len(a \o n) = Len(a) + Len(n)
    BY <1>2, <1>3, Joined
  <2>2. QED
    BY <1>1, <1>2, <1>3, <2>1
<1>7. Len(b) = p + Len(c)
  BY <1>4, <1>5, <1>6, Joined
<1>8. Lies(b, 0, b)
  BY <1>5, LiesAll
<1>9. Lies(b, 0, a \o n) /\ Lies(b, 0 + Len(a \o n), c)
  <2>1. 0 \in Nat /\ Lies(b, 0, (a \o n) \o c)
    BY <1>5, <1>8
  <2>2. QED
    BY <1>4, <1>5, <1>6, <2>1, LiesSplit
<1>10. Lies(b, 0, a) /\ Lies(b, 0 + Len(a), n)
  BY <1>2, <1>3, <1>5, <1>9, LiesSplit
<1>11. b[p] = Len(rs)
  BY <1>1, <1>2, <1>3, <1>10 DEF Lies
<1>12. Lies(b, p, c)
  BY <1>1, <1>6, <1>9
<1>13. QED
  BY <1>7, <1>10, <1>11, <1>12 DEF hb, a, c, b

(* What lies in the beginning of the data lies in the data.                 *)
LEMMA PrefixLies ==
  ASSUME NEW d \in Blob, NEW b \in Blob, NEW p \in Nat, NEW s \in Blob,
         Len(d) < Len(b), \A i \in 1 .. Len(d) : d[i] = b[i], Lies(d, p, s)
  PROVE  Lies(b, p, s)
<1>1. Len(d) \in Nat /\ Len(b) \in Nat /\ Len(s) \in Nat
  BY LenNat
<1>2. p + Len(s) <= Len(d)
  BY DEF Lies
<1>3. ASSUME NEW i \in 1 .. Len(s) PROVE b[p + i] = s[i]
  <2>1. p + i \in 1 .. Len(d)
    BY <1>1, <1>2
  <2>2. d[p + i] = s[i]
    BY DEF Lies
  <2>3. QED
    BY <2>1, <2>2
<1>4. QED
  BY <1>1, <1>2, <1>3 DEF Lies

(* What is loaded is in the data, and the header and records are ones that  *)
(* could have been written.                                                 *)
LEMMA LoadFound ==
  ASSUME NEW d \in Blob, LoadFromBytes(d).ok
  PROVE  \E hb \in Blob, rs \in Seq(AnyRecord) :
           /\ Lies(d, 0, PutBytes(hb))
           /\ ParseHeader(hb).ok /\ HeaderOf(ParseHeader(hb).got) \in AnyHeader
           /\ 1 + Len(hb) < Len(d) /\ d[2 + Len(hb)] = Len(rs)
           /\ Lies(d, 2 + Len(hb), EveryRecord(rs))
           /\ LoadFromBytes(d) =
                [ok |-> TRUE, header |-> HeaderOf(ParseHeader(hb).got), records |-> rs]
<1> DEFINE framed == TakeBytes(d, Start)
           parsed == IF framed.ok THEN ParseHeader(framed.got[1]) ELSE Failed
           version == HeaderOf(parsed.got).version
           taken == TakeRecords(d, framed, version)
<1>1. /\ parsed.ok /\ taken.ok
      /\ LoadFromBytes(d) =
           [ok |-> TRUE, header |-> HeaderOf(parsed.got), records |-> RecordsOf(taken.got)]
  BY DEF LoadFromBytes, NoFile
<1>2. framed.ok
  BY <1>1, FailedFields
<1>3. PICK hb \in Blob : Lies(d, 0, PutBytes(hb))
  <2>1. 0 \in Nat
    OBVIOUS
  <2>2. QED
    BY <1>2, <2>1, BytesThere, FailedFields
<1>4. framed = Cur(1 + Len(hb), <<hb>>)
  <2>1. 0 \in Nat /\ <<>> \in Fields
    BY FailedFields
  <2>2. TakeBytes(d, Cur(0, <<>>)) = Cur(0 + 1 + Len(hb), Append(<<>>, hb))
    BY <1>3, <2>1, BytesFound
  <2>3. Append(<<>>, hb) = <<hb>> /\ 0 + 1 + Len(hb) = 1 + Len(hb)
    BY LenNat
  <2>4. QED
    BY <2>2, <2>3, FailedFields
<1>5. parsed = ParseHeader(hb)
  <2>1. framed.got[1] = hb
    BY <1>4, CurFields
  <2>2. QED
    BY <1>2, <2>1
<1> HIDE DEF framed, parsed
<1>6. HeaderOf(parsed.got) \in AnyHeader
  BY <1>1, <1>5, HeaderParsed, ShapedHeader
<1> HIDE DEF version
<1> DEFINE p == 1 + Len(hb)
           g == <<hb>>
<1>7. p \in Nat /\ g \in Fields /\ p + 1 = 2 + Len(hb)
  BY LenNat DEF Fields
<1>8. taken = TakeRecords(d, Cur(p, g), version)
  BY <1>4
<1> HIDE DEF taken, p, g
<1>9. p < Len(d) /\ \E rs \in Seq(AnyRecord) :
                      /\ Len(rs) = d[p + 1] /\ Lies(d, p + 1, EveryRecord(rs))
                      /\ RecordsOf(TakeRecords(d, Cur(p, g), version).got) = rs
  BY <1>1, <1>7, <1>8, RecordsThere
<1>10. PICK rs \in Seq(AnyRecord) : /\ Len(rs) = d[p + 1] /\ Lies(d, p + 1, EveryRecord(rs))
                                    /\ RecordsOf(taken.got) = rs
  BY <1>8, <1>9
<1>11. 1 + Len(hb) < Len(d)
  BY <1>9 DEF p
<1>12. QED
  BY <1>1, <1>3, <1>5, <1>6, <1>7, <1>10, <1>11

(* A damaged file, if the parser and the MAC let it pass, still says what   *)
(* was stored: for files of any size.                                       *)
THEOREM DamageIsSeen == CodecSpec => []DamageShows
<1>1. IInv => DamageShows
  <2> SUFFICES ASSUME IInv, Loaded.ok, Digest(Loaded) = Digest(Stored)
               PROVE  Loaded = Stored
    BY DEF DamageShows
  <2> DEFINE h == file[1]
             rs == file[2]
  <2>1. h \in AnyHeader /\ rs \in Seq(AnyRecord) /\ data \in Blob
    BY DEF IInv, Written
  <2>2. Stored = [ok |-> TRUE, header |-> h, records |-> rs]
    BY DEF Stored
  <2> HIDE DEF h, rs
  <2>3. PICK k \in AnyHeader, ts \in Seq(AnyRecord) :
          Loaded = [ok |-> TRUE, header |-> k, records |-> ts]
    BY <2>1, LoadFound DEF Loaded
  <2>4. MacInput(k, ts) = MacInput(h, rs) /\ k.mac = h.mac
    BY <2>2, <2>3 DEF Digest
  <2>5. [k EXCEPT !.mac = 0] = [h EXCEPT !.mac = 0] /\ ts = rs
    BY <2>1, <2>3, <2>4, MacInputTells
  <2>6. k = h
    <3>1. ASSUME NEW a \in AnyHeader PROVE a = [[a EXCEPT !.mac = 0] EXCEPT !.mac = a.mac]
      BY DEF AnyHeader
    <3>2. QED
      BY <2>1, <2>4, <2>5, <3>1
  <2>7. QED
    BY <2>2, <2>3, <2>5, <2>6
<1>2. QED
  BY <1>1, CodecInduction, PTL

LEMMA StrictPrefix ==
  ASSUME NEW s \in Blob, NEW t \in Blob, IsStrictPrefix(s, t)
  PROVE  Len(s) < Len(t) /\ \A i \in 1 .. Len(s) : s[i] = t[i]
<1>1. s \in Seq(Nat) /\ t \in Seq(Nat) /\ Len(s) \in Nat /\ Len(t) \in Nat
  BY DEF Blob
<1>2. Len(s) <= Len(t) /\ SubSeq(s, 1, Len(s)) = SubSeq(t, 1, Len(s)) /\ s # t
  BY DEF IsStrictPrefix, IsPrefix
<1>3. \A i \in 1 .. Len(s) :
        SubSeq(s, 1, Len(s))[i] = s[i] /\ SubSeq(t, 1, Len(s))[i] = t[i]
  BY <1>1, <1>2
<1>4. \A i \in 1 .. Len(s) : s[i] = t[i]
  BY <1>2, <1>3
<1>5. Len(s) # Len(t)
  BY <1>1, <1>2, <1>4, SameBlob
<1>6. QED
  BY <1>1, <1>2, <1>4, <1>5

(* A file with its end missing is an error at load, wherever it was cut and *)
(* whatever was in it.                                                      *)
THEOREM CutIsRejected == CodecSpec => []TornRejected
<1>1. IInv => TornRejected
  <2> SUFFICES ASSUME IInv, IsStrictPrefix(data, BytesOf(file)), Loaded.ok
               PROVE  FALSE
    BY DEF TornRejected
  <2> DEFINE h == file[1]
             rs == file[2]
             b == BytesOf(file)
  <2>1. h \in AnyHeader /\ rs \in Seq(AnyRecord) /\ data \in Blob /\ b = FileBytes(h, rs)
    BY DEF IInv, Written, BytesOf
  <2>2. b \in Blob
    BY <2>1, FileType
  <2>3. Len(data) < Len(b) /\ \A i \in 1 .. Len(data) : data[i] = b[i]
    BY <2>2, <2>1, StrictPrefix
  <2>4. Len(rs) \in Nat /\ HeaderBytes(h) \in Blob
    BY <2>1, HeaderType
  <2> HIDE DEF h, rs, b
  <2> DEFINE hb == HeaderBytes(h)
             p == 2 + Len(hb)
  <2>5. /\ Lies(b, 0, PutBytes(hb)) /\ b[p] = Len(rs)
        /\ Lies(b, p, EveryRecord(rs)) /\ p + Len(EveryRecord(rs)) = Len(b)
    BY <2>1, <2>2, <2>4, FileLies
  <2> HIDE DEF hb, p
  <2>6. PICK kb \in Blob, ts \in Seq(AnyRecord) :
          /\ Lies(data, 0, PutBytes(kb))
          /\ 1 + Len(kb) < Len(data) /\ data[2 + Len(kb)] = Len(ts)
          /\ Lies(data, 2 + Len(kb), EveryRecord(ts))
    BY <2>1, LoadFound DEF Loaded
  <2>7. kb = hb
    <3>1. Lies(b, 0, PutBytes(kb))
      <4>1. 0 \in Nat /\ PutBytes(kb) \in Blob
        BY PutBytesType
      <4>2. QED
        BY <2>1, <2>2, <2>3, <2>6, <4>1, PrefixLies
    <3>2. QED
      BY <2>2, <2>4, <2>5, <3>1, BytesTold DEF hb
  <2>8. p \in Nat /\ p - 1 < Len(data) /\ data[p] = Len(ts) /\ Lies(data, p, EveryRecord(ts))
    BY <2>4, <2>6, <2>7, LenNat DEF p, hb
  <2>9. Len(ts) = Len(rs)
    <3>1. p \in 1 .. Len(data)
      <4>1. Len(data) \in Nat /\ p # 0
        BY <2>1, <2>4, LenNat DEF p, hb
      <4>2. QED
        BY <2>8, <4>1
    <3>2. data[p] = b[p]
      BY <2>3, <3>1
    <3>3. QED
      BY <2>5, <2>8, <3>2
  <2>10. Lies(b, p, EveryRecord(ts))
    BY <2>1, <2>2, <2>3, <2>8, RecordsPlaces, PrefixLies
  <2>11. ts = rs
    BY <2>1, <2>2, <2>5, <2>6, <2>8, <2>9, <2>10, RecordsTold
  <2>12. p + Len(EveryRecord(rs)) <= Len(data)
    BY <2>8, <2>11 DEF Lies
  <2>13. QED
    BY <2>1, <2>2, <2>3, <2>5, <2>12, LenNat
<1>2. QED
  BY <1>1, CodecInduction, PTL

-----------------------------------------------------------------------------
(* What is written is read back                                             *)

LEMMA Argon2Found ==
  ASSUME NEW d \in Blob, NEW p \in Nat, NEW g \in Fields, NEW k \in AnyKdf,
         Lies(d, p, PutArgon2(k)), Affordable(k)
  PROVE  \E f \in Fields :
           /\ TakeArgon2(d, Cur(p, g)) = Cur(p + 4, f) /\ Grown(g, f, 2)
           /\ Argon2(f[Len(g) + 1], f[Len(g) + 2]) = k
<1>1. /\ p + 4 <= Len(d) /\ d[p + 1] = k.mem /\ d[p + 2] = k.time
      /\ d[p + 3] = k.lanes /\ d[p + 4] = k.salt
  BY Argon2Type DEF Lies
<1>2. \A i \in 1 .. 3 : d[p + i] <= MAX_ARGON2
  <2> SUFFICES ASSUME NEW i \in 1 .. 3 PROVE d[p + i] <= MAX_ARGON2
    OBVIOUS
  <2>1. i = 1 \/ i = 2 \/ i = 3
    OBVIOUS
  <2>2. QED
    BY <1>1, <2>1 DEF Affordable
<1> DEFINE a == Cells(d, p, 3)
           b == Cells(d, p + 3, 1)
           f == Append(g, a)
           e == Append(f, b)
<1>3. TakeArgon2(d, Cur(p, g)) = Cur(p + 4, e)
  BY <1>1, <1>2, Argon2Taken
<1>4. p + 3 <= Len(d) /\ p + 3 \in Nat /\ (p + 3) + 1 <= Len(d) /\ Len(d) \in Nat
  BY <1>1, LenNat
<1>5. a \in Blob /\ \A i \in 1 .. 3 : a[i] = d[p + i]
  <2> DEFINE n == 3
  <2>1. n \in Nat /\ p + n <= Len(d)
    BY <1>4
  <2> HIDE DEF n
  <2>2. Cells(d, p, n) \in Blob /\ \A i \in 1 .. n : Cells(d, p, n)[i] = d[p + i]
    BY <2>1, CellsType
  <2>3. QED
    BY <2>2 DEF n
<1>6. b \in Blob /\ b[1] = d[(p + 3) + 1]
  <2> DEFINE n == 1
             q == p + 3
  <2>1. n \in Nat /\ q \in Nat /\ q + n <= Len(d) /\ 1 \in 1 .. n
    BY <1>4
  <2> HIDE DEF n, q
  <2>2. Cells(d, q, n) \in Blob /\ Cells(d, q, n)[1] = d[q + 1]
    BY <2>1, CellsType
  <2>3. QED
    BY <2>2 DEF n, q
<1>7. a[1] = k.mem /\ a[2] = k.time /\ a[3] = k.lanes /\ b[1] = k.salt
  <2>1. (p + 3) + 1 = p + 4
    OBVIOUS
  <2>2. a[1] = d[p + 1] /\ a[2] = d[p + 2] /\ a[3] = d[p + 3]
    BY <1>5
  <2>3. QED
    BY <1>1, <1>6, <2>1, <2>2
<1> HIDE DEF a, b
<1>8. f \in Fields /\ Grown(g, f, 1) /\ f[Len(g) + 1] = a /\ Len(f) = Len(g) + 1 /\ Len(g) \in Nat
  BY <1>5, GrownBy, Appended
<1> HIDE DEF f
<1>9. e \in Fields /\ Grown(f, e, 1) /\ e[Len(f) + 1] = b /\ \A i \in 1 .. Len(f) : e[i] = f[i]
  BY <1>6, <1>8, GrownBy, Appended
<1> HIDE DEF e
<1>10. Grown(g, e, 1 + 1)
  BY <1>8, <1>9, GrownOn
<1>11. Len(g) + 1 \in 1 .. Len(f) /\ Len(g) + 2 = Len(f) + 1 /\ 1 + 1 = 2
  BY <1>8
<1>12. e[Len(g) + 1] = a /\ e[Len(g) + 2] = b
  BY <1>8, <1>9, <1>11
<1>13. Argon2(a, b) = k
  BY <1>7 DEF Argon2, AnyKdf
<1>14. QED
  BY <1>3, <1>9, <1>10, <1>11, <1>12, <1>13

LEMMA TpmFound ==
  ASSUME NEW d \in Blob, NEW p \in Nat, NEW g \in Fields, NEW h \in AnyHeader,
         Lies(d, p, PutTpm(h))
  PROVE  \E f \in Fields, x \in Flags :
           /\ TakeTpmWrap(d, Cur(p, g)) = Cur(p + Len(PutTpm(h)), f)
           /\ Grown(g, f, 1 + x) /\ f[Len(g) + 1] = <<x>>
           /\ h.tpm = (IF x = 1 THEN {f[Len(g) + 2]} ELSE {})
<1> DEFINE one == Append(g, <<1>>)
           none == Append(g, <<0>>)
<1>1. <<1>> \in Blob /\ <<0>> \in Blob /\ Len(<<1>>) = 1 /\ Len(<<0>>) = 1 /\ <<0>>[1] = 0
      /\ <<1>>[1] = 1
  BY DEF Blob
<1>2. /\ one \in Fields /\ Grown(g, one, 1) /\ one[Len(g) + 1] = <<1>> /\ Len(one) = Len(g) + 1
      /\ none \in Fields /\ Grown(g, none, 1) /\ none[Len(g) + 1] = <<0>> /\ Len(g) \in Nat
  BY <1>1, GrownBy, Appended
<1>3. CASE h.tpm = {} /\ PutTpm(h) = <<0>>
  <2>1. p + 1 <= Len(d) /\ d[p + 1] = 0
    BY <1>1, <1>3 DEF Lies
  <2>2. TakeTpmWrap(d, Cur(p, g)) = Cur(p + 1, none)
    BY <2>1, LenNat, OptionTaken
  <2> HIDE DEF none
  <2>3. Grown(g, none, 1 + 0)
    BY <1>2
  <2>4. QED
    BY <1>1, <1>2, <1>3, <2>2, <2>3 DEF Flags
<1>4. ASSUME NEW w \in Blob, h.tpm = {w}, PutTpm(h) = << 1 >> \o PutBytes(w)
      PROVE  \E f \in Fields, x \in Flags :
               /\ TakeTpmWrap(d, Cur(p, g)) = Cur(p + Len(PutTpm(h)), f)
               /\ Grown(g, f, 1 + x) /\ f[Len(g) + 1] = <<x>>
               /\ h.tpm = (IF x = 1 THEN {f[Len(g) + 2]} ELSE {})
  <2>1. PutBytes(w) \in Blob /\ Len(PutBytes(w)) = 1 + Len(w) /\ Len(w) \in Nat
    BY PutBytesType, LenNat
  <2>2. d[p + 1] = 1 /\ Lies(d, p + 1, PutBytes(w))
    <3>1. 1 \in Nat /\ Lies(d, p, <<1>> \o PutBytes(w))
      BY <1>4
    <3>2. QED
      BY <2>1, <3>1, FlagTold
  <2>3. p + 1 \in Nat /\ ~(p >= Len(d)) /\ Len(d) \in Nat
    BY <2>1, <2>2, LenNat DEF Lies
  <2>4. TakeTpmWrap(d, Cur(p, g)) = TakeBytes(d, Cur(p + 1, one))
    BY <2>2, <2>3, OptionTaken
  <2> HIDE DEF one
  <2> DEFINE f == Append(one, w)
  <2>5. TakeBytes(d, Cur(p + 1, one)) = Cur(p + 1 + 1 + Len(w), f)
    BY <1>2, <2>2, <2>3, BytesFound
  <2>6. /\ f \in Fields /\ Grown(one, f, 1) /\ f[Len(one) + 1] = w
        /\ \A i \in 1 .. Len(one) : f[i] = one[i]
    BY <1>2, GrownBy, Appended
  <2> HIDE DEF f
  <2>7. Grown(g, f, 1 + 1)
    BY <1>2, <2>6, GrownOn
  <2>8. Len(g) + 1 \in 1 .. Len(one) /\ Len(g) + 2 = Len(one) + 1
    BY <1>2
  <2>9. f[Len(g) + 1] = <<1>> /\ f[Len(g) + 2] = w
    BY <1>2, <2>6, <2>8
  <2>10. Len(PutTpm(h)) = 2 + Len(w)
    <3>1. Len(PutTpm(h)) = Len(<<1>>) + Len(PutBytes(w))
      BY <1>1, <1>4, <2>1, Joined
    <3>2. QED
      BY <1>1, <2>1, <3>1
  <2>11. p + 1 + 1 + Len(w) = p + Len(PutTpm(h))
    BY <2>1, <2>10
  <2>12. 1 \in Flags
    BY DEF Flags
  <2>13. QED
    BY <1>4, <2>4, <2>5, <2>6, <2>7, <2>9, <2>11, <2>12
<1>5. QED
  BY <1>3, <1>4, TpmCases

LEMMA EscrowFound ==
  ASSUME NEW d \in Blob, NEW p \in Nat, NEW g \in Fields, NEW h \in AnyHeader,
         Lies(d, p, PutRecovery(h)), \A r \in h.recovery : Affordable(r.kdf)
  PROVE  \E f \in Fields, x \in Flags :
           /\ TakeEscrow(d, Cur(p, g)) = Cur(p + Len(PutRecovery(h)), f)
           /\ Grown(g, f, 1 + 3 * x) /\ f[Len(g) + 1] = <<x>>
           /\ h.recovery =
                (IF x = 1 THEN {[kdf |-> Argon2(f[Len(g) + 2], f[Len(g) + 3]),
                                 wrap |-> f[Len(g) + 4]]} ELSE {})
<1> DEFINE one == Append(g, <<1>>)
           none == Append(g, <<0>>)
<1>1. <<1>> \in Blob /\ <<0>> \in Blob /\ Len(<<1>>) = 1 /\ Len(<<0>>) = 1 /\ <<0>>[1] = 0
      /\ <<1>>[1] = 1
  BY DEF Blob
<1>2. /\ one \in Fields /\ Grown(g, one, 1) /\ one[Len(g) + 1] = <<1>> /\ Len(one) = Len(g) + 1
      /\ none \in Fields /\ Grown(g, none, 1) /\ none[Len(g) + 1] = <<0>> /\ Len(g) \in Nat
  BY <1>1, GrownBy, Appended
<1>3. CASE h.recovery = {} /\ PutRecovery(h) = <<0>>
  <2>1. p + 1 <= Len(d) /\ d[p + 1] = 0
    BY <1>1, <1>3 DEF Lies
  <2>2. ~(p >= Len(d)) /\ d[p + 1] # 1
    BY <2>1, LenNat
  <2>a. TakeEscrow(d, Cur(p, g)) = Cur(p + 1, none)
    BY <2>2, OptionTaken
  <2> HIDE DEF none
  <2>3. Grown(g, none, 1 + 3 * 0)
    BY <1>2
  <2>4. QED
    BY <1>1, <1>2, <1>3, <2>a, <2>3 DEF Flags
<1>4. ASSUME NEW r \in AnyEscrow, h.recovery = {r}, PutRecovery(h) = << 1 >> \o PutEscrow(r)
      PROVE  \E f \in Fields, x \in Flags :
               /\ TakeEscrow(d, Cur(p, g)) = Cur(p + Len(PutRecovery(h)), f)
               /\ Grown(g, f, 1 + 3 * x) /\ f[Len(g) + 1] = <<x>>
               /\ h.recovery =
                    (IF x = 1 THEN {[kdf |-> Argon2(f[Len(g) + 2], f[Len(g) + 3]),
                                     wrap |-> f[Len(g) + 4]]} ELSE {})
  <2>1. /\ PutEscrow(r) \in Blob /\ Len(PutEscrow(r)) = 5 + Len(r.wrap)
        /\ r.kdf \in AnyKdf /\ r.wrap \in Blob /\ Affordable(r.kdf)
    BY <1>4, EscrowType
  <2> DEFINE k == r.kdf
             w == r.wrap
             q == p + 1
  <2>2. k \in AnyKdf /\ w \in Blob /\ Affordable(k) /\ Len(w) \in Nat /\ q \in Nat
    BY <2>1, LenNat
  <2>3. d[p + 1] = 1 /\ Lies(d, q, PutEscrow(r))
    <3>1. 1 \in Nat /\ Lies(d, p, <<1>> \o PutEscrow(r))
      BY <1>4
    <3>2. QED
      BY <2>1, <3>1, FlagTold
  <2>4. Lies(d, q, PutArgon2(k)) /\ Lies(d, q + 4, PutBytes(w))
    BY <2>2, <2>3, EscrowPlaces
  <2>5. ~(p >= Len(d))
    <3>1. q + 4 <= Len(d)
      BY <2>2, <2>4, Argon2Type DEF Lies
    <3>2. QED
      BY <3>1, LenNat
  <2>6. TakeEscrow(d, Cur(p, g)) = TakeBytes(d, TakeArgon2(d, Cur(q, one)))
    BY <2>3, <2>5, OptionTaken
  <2>7. r = [kdf |-> k, wrap |-> w]
    BY DEF AnyEscrow
  <2>8. Len(PutRecovery(h)) = 6 + Len(w)
    <3>1. Len(PutRecovery(h)) = Len(<<1>>) + Len(PutEscrow(r))
      BY <1>1, <1>4, <2>1, Joined
    <3>2. QED
      BY <1>1, <2>1, <2>2, <3>1
  <2>b. q = p + 1
    OBVIOUS
  <2> HIDE DEF one, k, w, q
  <2>9. q + 4 + 1 + Len(w) = p + Len(PutRecovery(h)) /\ q + 4 \in Nat
    BY <2>2, <2>8, <2>b
  <2>10. PICK f \in Fields :
           /\ TakeArgon2(d, Cur(q, one)) = Cur(q + 4, f) /\ Grown(one, f, 2)
           /\ Argon2(f[Len(one) + 1], f[Len(one) + 2]) = k
    BY <1>2, <2>2, <2>4, Argon2Found
  <2> DEFINE e == Append(f, w)
  <2>11. TakeBytes(d, Cur(q + 4, f)) = Cur(q + 4 + 1 + Len(w), e)
    BY <2>2, <2>4, <2>9, BytesFound
  <2>12. e \in Fields /\ Grown(f, e, 1) /\ e[Len(f) + 1] = w /\ \A i \in 1 .. Len(f) : e[i] = f[i]
    BY <2>2, GrownBy, Appended
  <2> HIDE DEF e
  <2>13. Grown(g, e, 1 + 3 * 1)
    <3>1. Grown(g, f, 1 + 2)
      BY <1>2, <2>10, GrownOn
    <3> DEFINE n == 1 + 2
               m == 1
    <3>2. Grown(g, f, n) /\ Grown(f, e, m) /\ n \in Nat /\ m \in Nat
      BY <2>12, <3>1
    <3> HIDE DEF n, m
    <3>3. Grown(g, e, n + m)
      BY <3>2, GrownOn
    <3>4. QED
      BY <3>3 DEF n, m
  <2>14. /\ Len(f) = Len(one) + 2
         /\ Len(g) + 1 \in 1 .. Len(one) /\ Len(g) + 1 \in 1 .. Len(f)
         /\ Len(g) + 2 = Len(one) + 1 /\ Len(g) + 3 = Len(one) + 2 /\ Len(g) + 4 = Len(f) + 1
         /\ Len(g) + 2 \in 1 .. Len(f) /\ Len(g) + 3 \in 1 .. Len(f)
    <3>1. Len(f) = Len(one) + 2
      BY <2>10 DEF Grown
    <3>2. QED
      BY <1>2, <3>1
  <2>15. e[Len(g) + 1] = <<1>>
    <3>1. f[Len(g) + 1] = one[Len(g) + 1]
      BY <2>10, <2>14 DEF Grown
    <3>2. QED
      BY <1>2, <2>12, <2>14, <3>1
  <2>16. Argon2(e[Len(g) + 2], e[Len(g) + 3]) = k /\ e[Len(g) + 4] = w
    BY <2>10, <2>12, <2>14
  <2>17. 1 \in Flags
    BY DEF Flags
  <2>18. TakeEscrow(d, Cur(p, g)) = Cur(p + Len(PutRecovery(h)), e)
    BY <2>6, <2>9, <2>10, <2>11
  <2>19. h.recovery = {[kdf |-> Argon2(e[Len(g) + 2], e[Len(g) + 3]), wrap |-> e[Len(g) + 4]]}
    BY <1>4, <2>7, <2>16
  <2>20. QED
    BY <2>12, <2>13, <2>15, <2>17, <2>18, <2>19
<1>5. QED
  BY <1>3, <1>4, RecoveryCases

(* The first field is what all headers begin with.                          *)
LEMMA FrontFound ==
  ASSUME NEW d \in Blob, NEW s \in Blob, Len(s) = 4, Lies(d, 0, s)
  PROVE  \E f \in Fields : Take(d, Start, 4) = Cur(4, f) /\ Len(f) = 1 /\ f[1] = s
<1> DEFINE g == <<>>
           n == 4
           p == 0
<1>1. g \in Fields /\ Start = Cur(p, g) /\ n \in Nat /\ p \in Nat /\ p + n = 4 /\ Len(g) = 0
  BY FailedFields
<1>2. n <= Len(d) /\ Len(s) = n /\ Lies(d, p, s) /\ ~(p + n > Len(d))
  BY LenNat DEF Lies
<1> HIDE DEF g, n, p
<1>3. Cells(d, p, n) = s
  BY <1>1, <1>2, CellsAre
<1>4. Take(d, Cur(p, g), n) = Cur(p + n, Append(g, s))
  <2>1. Take(d, Cur(p, g), n) =
          IF p + n > Len(d) THEN Failed ELSE Cur(p + n, Append(g, Cells(d, p, n)))
    BY <1>1, Taken
  <2>2. QED
    BY <1>2, <1>3, <2>1
<1>5. Append(g, s) \in Fields /\ Len(Append(g, s)) = Len(g) + 1 /\ Append(g, s)[Len(g) + 1] = s
  BY <1>1, Appended
<1>6. Len(g) + 1 = 1
  BY <1>1
<1>7. Take(d, Start, 4) = Cur(4, Append(g, s))
  BY <1>1, <1>4 DEF n
<1>8. QED
  BY <1>5, <1>6, <1>7

LEMMA HeaderParts ==
  ASSUME NEW h \in AnyHeader
  PROVE  LET d == HeaderBytes(h)
         IN  /\ d \in Blob
             /\ Lies(d, 0, Preamble(h)) /\ Lies(d, 4, PutArgon2(h.kdf))
             /\ Lies(d, 8, PutBytes(h.pcrs))
             /\ AtTpm(h, 0) = 8 + 1 + Len(h.pcrs)
             /\ Lies(d, AtTpm(h, 0), PutTpm(h))
             /\ AtDek(h, 0) = AtTpm(h, 0) + Len(PutTpm(h))
             /\ Lies(d, AtDek(h, 0), PutBytes(h.dek))
             /\ AtRecovery(h, 0) = AtDek(h, 0) + 1 + Len(h.dek)
             /\ Lies(d, AtRecovery(h, 0), PutRecovery(h))
             /\ AtMac(h, 0) = AtRecovery(h, 0) + Len(PutRecovery(h))
             /\ Lies(d, AtMac(h, 0), <<h.mac>>)
             /\ AtTpm(h, 0) \in Nat /\ AtDek(h, 0) \in Nat /\ AtRecovery(h, 0) \in Nat
             /\ AtMac(h, 0) \in Nat
<1> DEFINE d == HeaderBytes(h)
           z == 0
<1>1. d \in Blob /\ Lies(d, z, d) /\ z \in Nat
  BY HeaderType, LiesAll
<1> HIDE DEF d, z
<1>2. /\ AtTpm(h, z) \in Nat /\ AtDek(h, z) \in Nat /\ AtRecovery(h, z) \in Nat
      /\ AtMac(h, z) \in Nat
      /\ Lies(d, z, HeaderBytes(h)) <=>
              /\ Lies(d, z, Preamble(h)) /\ Lies(d, AtKdf(z), PutKdf(h))
              /\ Lies(d, AtPcrs(z), PutPcrs(h)) /\ Lies(d, AtTpm(h, z), PutTpm(h))
              /\ Lies(d, AtDek(h, z), PutDek(h))
              /\ Lies(d, AtRecovery(h, z), PutRecovery(h))
              /\ Lies(d, AtMac(h, z), PutMac(h))
  BY <1>1, HeaderPlaces
<1>3. /\ Lies(d, z, Preamble(h)) /\ Lies(d, AtKdf(z), PutKdf(h))
      /\ Lies(d, AtPcrs(z), PutPcrs(h)) /\ Lies(d, AtTpm(h, z), PutTpm(h))
      /\ Lies(d, AtDek(h, z), PutDek(h))
      /\ Lies(d, AtRecovery(h, z), PutRecovery(h))
      /\ Lies(d, AtMac(h, z), PutMac(h))
  BY <1>1, <1>2 DEF d
<1>4. AtKdf(z) = 4 /\ AtPcrs(z) = 8
  BY DEF z, AtKdf, AtPcrs
<1> DEFINE v == h.pcrs
           w == h.dek
<1>5. v \in Blob /\ w \in Blob /\ Len(v) \in Nat /\ Len(w) \in Nat
  BY PieceTypes, LenNat
<1> HIDE DEF v, w
<1>6. Len(PutBytes(v)) = 1 + Len(v) /\ Len(PutBytes(w)) = 1 + Len(w)
  BY <1>5, PutBytesType
<1>7. AtTpm(h, z) = 8 + 1 + Len(v) /\ AtRecovery(h, z) = AtDek(h, z) + 1 + Len(w)
  <2>1. AtTpm(h, z) = 8 + Len(PutBytes(v)) /\ AtRecovery(h, z) = AtDek(h, z) + Len(PutBytes(w))
    BY <1>4 DEF AtTpm, AtRecovery, PutPcrs, PutDek, v, w
  <2>2. QED
    BY <1>2, <1>5, <1>6, <2>1
<1>8. /\ AtDek(h, z) = AtTpm(h, z) + Len(PutTpm(h))
      /\ AtMac(h, z) = AtRecovery(h, z) + Len(PutRecovery(h))
  BY DEF AtDek, AtMac
<1>9. QED
  BY <1>1, <1>2, <1>3, <1>4, <1>7, <1>8 DEF d, z, v, w, PutKdf, PutPcrs, PutDek, PutMac

(* The fields of the header h: x and y as in Shaped.                        *)
FieldsOf(g, h, x, y) ==
  /\ g[1] = Preamble(h) /\ Argon2(g[2], g[3]) = h.kdf /\ g[4] = h.pcrs
  /\ g[5] = <<x>> /\ h.tpm = (IF x = 1 THEN {g[6]} ELSE {})
  /\ g[6 + x] = h.dek /\ g[7 + x] = <<y>>
  /\ h.recovery =
       (IF y = 1 THEN {[kdf |-> Argon2(g[8 + x], g[9 + x]), wrap |-> g[10 + x]]} ELSE {})
  /\ Last(g) = <<h.mac>>

LEMMA HeaderFields ==
  ASSUME NEW h \in AnyHeader, Loadable(h)
  PROVE  \E g \in Fields, x \in Flags, y \in Flags :
           /\ ParseHeader(HeaderBytes(h)).ok /\ ParseHeader(HeaderBytes(h)).got = g
           /\ FieldsOf(g, h, x, y)
<1> DEFINE d == HeaderBytes(h)
           front == Take(d, Start, 4)
           known == Require(front, front.ok /\ front.got[1][1] = MAGIC
                                            /\ front.got[1][2] \in {2, 3})
           kdf == TakeArgon2(d, known)
           pcrs == TakeBytes(d, kdf)
           tpm == TakeTpmWrap(d, pcrs)
           wraps == TakeBytes(d, tpm)
           escrow == TakeEscrow(d, wraps)
           mac == Take(d, escrow, 1)
           atTpm == AtTpm(h, 0)
           atDek == AtDek(h, 0)
           atRecovery == AtRecovery(h, 0)
           atMac == AtMac(h, 0)
<1>1. ParseHeader(d) = mac
  BY DEF ParseHeader
<1>2. /\ d \in Blob
      /\ Lies(d, 0, Preamble(h)) /\ Lies(d, 4, PutArgon2(h.kdf))
      /\ Lies(d, 8, PutBytes(h.pcrs))
      /\ atTpm = 8 + 1 + Len(h.pcrs)
      /\ Lies(d, atTpm, PutTpm(h))
      /\ atDek = atTpm + Len(PutTpm(h))
      /\ Lies(d, atDek, PutBytes(h.dek))
      /\ atRecovery = atDek + 1 + Len(h.dek)
      /\ Lies(d, atRecovery, PutRecovery(h))
      /\ atMac = atRecovery + Len(PutRecovery(h))
      /\ Lies(d, atMac, <<h.mac>>)
      /\ atTpm \in Nat /\ atDek \in Nat /\ atRecovery \in Nat /\ atMac \in Nat
  BY HeaderParts
<1>3. /\ Preamble(h) \in Blob /\ Len(Preamble(h)) = 4 /\ Preamble(h)[1] = MAGIC
      /\ Preamble(h)[2] \in {2, 3} /\ h.kdf \in AnyKdf /\ Affordable(h.kdf)
      /\ h.pcrs \in Blob /\ h.dek \in Blob /\ h.mac \in Nat
      /\ \A r \in h.recovery : Affordable(r.kdf)
  BY PieceTypes DEF Loadable, AnyHeader
<1> HIDE DEF d, atTpm, atDek, atRecovery, atMac
<1>4. PICK g1 \in Fields : front = Cur(4, g1) /\ Len(g1) = 1 /\ g1[1] = Preamble(h)
  BY <1>2, <1>3, FrontFound
<1>5. known = Cur(4, g1)
  <2>1. front.ok /\ front.got[1] = Preamble(h)
    BY <1>4, CurFields
  <2>2. QED
    BY <1>3, <1>4, <2>1 DEF Require
<1> HIDE DEF front, known
<1>6. PICK g2 \in Fields : /\ kdf = Cur(8, g2) /\ Grown(g1, g2, 2)
                           /\ Argon2(g2[2], g2[3]) = h.kdf
  <2> DEFINE p == 4
  <2>1. p \in Nat /\ p + 4 = 8 /\ Lies(d, p, PutArgon2(h.kdf)) /\ known = Cur(p, g1)
    BY <1>2, <1>5
  <2> HIDE DEF p
  <2>2. PICK f \in Fields :
          /\ TakeArgon2(d, Cur(p, g1)) = Cur(p + 4, f) /\ Grown(g1, f, 2)
          /\ Argon2(f[Len(g1) + 1], f[Len(g1) + 2]) = h.kdf
    BY <1>2, <1>3, <2>1, Argon2Found
  <2>3. Len(g1) + 1 = 2 /\ Len(g1) + 2 = 3
    BY <1>4
  <2>4. QED
    BY <2>1, <2>2, <2>3
<1> HIDE DEF kdf
<1> DEFINE g3 == Append(g2, h.pcrs)
<1>7. /\ pcrs = Cur(atTpm, g3) /\ g3 \in Fields /\ Grown(g2, g3, 1)
      /\ g3[Len(g2) + 1] = h.pcrs
  <2> DEFINE p == 8
             v == h.pcrs
  <2>1. p \in Nat /\ v \in Blob /\ Lies(d, p, PutBytes(v)) /\ kdf = Cur(p, g2)
        /\ atTpm = p + 1 + Len(v)
    BY <1>2, <1>3, <1>6
  <2> HIDE DEF p, v
  <2>2. TakeBytes(d, Cur(p, g2)) = Cur(p + 1 + Len(v), Append(g2, v))
    BY <1>2, <2>1, BytesFound
  <2>3. Append(g2, v) \in Fields /\ Grown(g2, Append(g2, v), 1) /\ Append(g2, v)[Len(g2) + 1] = v
    BY <2>1, GrownBy, Appended
  <2>4. QED
    BY <2>1, <2>2, <2>3 DEF v
<1> HIDE DEF pcrs, g3
<1>8. PICK g4 \in Fields, x \in Flags :
        /\ tpm = Cur(atDek, g4) /\ Grown(g3, g4, 1 + x) /\ g4[Len(g3) + 1] = <<x>>
        /\ h.tpm = (IF x = 1 THEN {g4[Len(g3) + 2]} ELSE {})
  <2>1. d \in Blob /\ atTpm \in Nat /\ g3 \in Fields /\ Lies(d, atTpm, PutTpm(h))
    BY <1>2, <1>7
  <2>2. PICK f \in Fields, z \in Flags :
          /\ TakeTpmWrap(d, Cur(atTpm, g3)) = Cur(atTpm + Len(PutTpm(h)), f)
          /\ Grown(g3, f, 1 + z) /\ f[Len(g3) + 1] = <<z>>
          /\ h.tpm = (IF z = 1 THEN {f[Len(g3) + 2]} ELSE {})
    BY <2>1, TpmFound, ZenonT(30)
  <2>3. tpm = Cur(atDek, f)
    BY <1>2, <1>7, <2>2
  <2>4. QED
    BY <2>2, <2>3
<1> HIDE DEF tpm
<1> DEFINE g5 == Append(g4, h.dek)
<1>9. /\ wraps = Cur(atRecovery, g5) /\ g5 \in Fields /\ Grown(g4, g5, 1)
      /\ g5[Len(g4) + 1] = h.dek
  <2> DEFINE v == h.dek
  <2>1. v \in Blob /\ Lies(d, atDek, PutBytes(v)) /\ tpm = Cur(atDek, g4)
        /\ atRecovery = atDek + 1 + Len(v)
    BY <1>2, <1>3, <1>8
  <2> HIDE DEF v
  <2>2. TakeBytes(d, Cur(atDek, g4)) = Cur(atDek + 1 + Len(v), Append(g4, v))
    BY <1>2, <2>1, BytesFound
  <2>3. Append(g4, v) \in Fields /\ Grown(g4, Append(g4, v), 1) /\ Append(g4, v)[Len(g4) + 1] = v
    BY <2>1, GrownBy, Appended
  <2>4. QED
    BY <2>1, <2>2, <2>3 DEF v
<1> HIDE DEF wraps, g5
<1>10. PICK g6 \in Fields, y \in Flags :
         /\ escrow = Cur(atMac, g6) /\ Grown(g5, g6, 1 + 3 * y) /\ g6[Len(g5) + 1] = <<y>>
         /\ h.recovery =
              (IF y = 1 THEN {[kdf |-> Argon2(g6[Len(g5) + 2], g6[Len(g5) + 3]),
                               wrap |-> g6[Len(g5) + 4]]} ELSE {})
  <2>1. d \in Blob /\ atRecovery \in Nat /\ g5 \in Fields
        /\ Lies(d, atRecovery, PutRecovery(h)) /\ \A r \in h.recovery : Affordable(r.kdf)
    BY <1>2, <1>3, <1>9
  <2>2. PICK f \in Fields, z \in Flags :
          /\ TakeEscrow(d, Cur(atRecovery, g5)) = Cur(atRecovery + Len(PutRecovery(h)), f)
          /\ Grown(g5, f, 1 + 3 * z) /\ f[Len(g5) + 1] = <<z>>
          /\ h.recovery =
               (IF z = 1 THEN {[kdf |-> Argon2(f[Len(g5) + 2], f[Len(g5) + 3]),
                                wrap |-> f[Len(g5) + 4]]} ELSE {})
    BY <2>1, EscrowFound, ZenonT(30)
  <2>3. escrow = Cur(atMac, f)
    BY <1>2, <1>9, <2>2
  <2>4. QED
    BY <2>2, <2>3
<1> HIDE DEF escrow
<1> DEFINE g7 == Append(g6, <<h.mac>>)
<1>11. /\ mac = Cur(atMac + 1, g7) /\ g7 \in Fields /\ Grown(g6, g7, 1)
       /\ Last(g7) = <<h.mac>>
  <2> DEFINE s == <<h.mac>>
             n == 1
  <2>1. s \in Blob /\ Len(s) = n /\ Lies(d, atMac, s) /\ n \in Nat
    BY <1>2, <1>3, OneCell
  <2>a. d \in Blob /\ atMac \in Nat /\ Len(d) \in Nat /\ g6 \in Fields
    BY <1>2, <1>10, LenNat
  <2> HIDE DEF s, n
  <2>2. Cells(d, atMac, n) = s /\ atMac + n <= Len(d)
    BY <1>2, <2>1, CellsAre
  <2>3. Take(d, Cur(atMac, g6), n) =
          IF atMac + n > Len(d) THEN Failed ELSE Cur(atMac + n, Append(g6, Cells(d, atMac, n)))
    BY <2>a, <2>1, Taken
  <2>4. ~(atMac + n > Len(d))
    BY <2>a, <2>1, <2>2
  <2>5. Append(g6, s) \in Fields /\ Grown(g6, Append(g6, s), 1) /\ Last(Append(g6, s)) = s
    BY <2>1, GrownBy, Appended
  <2>6. mac = Take(d, Cur(atMac, g6), n)
    BY <1>10 DEF n
  <2>7. mac = Cur(atMac + n, Append(g6, s))
    BY <2>2, <2>3, <2>4, <2>6
  <2>8. QED
    BY <2>5, <2>7 DEF s, n
<1> HIDE DEF mac, g7
<1>12. /\ Len(g1) = 1 /\ Len(g2) = 3 /\ Len(g3) = 4 /\ Len(g4) = 5 + x /\ Len(g5) = 6 + x
       /\ Len(g6) = 7 + x + 3 * y /\ x \in {0, 1} /\ y \in {0, 1}
  BY <1>4, <1>6, <1>7, <1>8, <1>9, <1>10 DEF Grown, Flags
<1>13. ASSUME NEW i \in 1 .. Len(g3) PROVE g7[i] = g3[i]
  <2>1. i \in 1 .. Len(g4) /\ i \in 1 .. Len(g5) /\ i \in 1 .. Len(g6)
    BY <1>12
  <2>2. g4[i] = g3[i] /\ g5[i] = g4[i] /\ g6[i] = g5[i] /\ g7[i] = g6[i]
    BY <2>1, <1>8, <1>9, <1>10, <1>11 DEF Grown
  <2>3. QED
    BY <2>2
<1>14. g7[1] = Preamble(h) /\ Argon2(g7[2], g7[3]) = h.kdf /\ g7[4] = h.pcrs
  <2>1. 1 \in 1 .. Len(g1) /\ \A i \in 1 .. 3 : i \in 1 .. Len(g2) /\ i \in 1 .. Len(g3)
    BY <1>12
  <2>2. 4 \in 1 .. Len(g3) /\ 4 = Len(g2) + 1
    BY <1>12
  <2>3. g2[1] = g1[1] /\ g3[1] = g2[1] /\ g3[2] = g2[2] /\ g3[3] = g2[3]
    BY <2>1, <1>6, <1>7 DEF Grown
  <2>4. g7[1] = g3[1] /\ g7[2] = g3[2] /\ g7[3] = g3[3] /\ g7[4] = g3[4]
    BY <2>1, <2>2, <1>13
  <2>5. QED
    BY <1>4, <1>6, <1>7, <2>2, <2>3, <2>4
<1>15. ASSUME NEW i \in 1 .. Len(g4) PROVE g7[i] = g4[i]
  <2>1. i \in 1 .. Len(g5) /\ i \in 1 .. Len(g6)
    BY <1>12
  <2>2. g5[i] = g4[i] /\ g6[i] = g5[i] /\ g7[i] = g6[i]
    BY <2>1, <1>9, <1>10, <1>11 DEF Grown
  <2>3. QED
    BY <2>2
<1>16. g7[5] = <<x>> /\ h.tpm = (IF x = 1 THEN {g7[6]} ELSE {})
  <2>1. 5 \in 1 .. Len(g4) /\ Len(g3) + 1 = 5 /\ Len(g3) + 2 = 6
    BY <1>12
  <2>2. g7[5] = <<x>> /\ h.tpm = (IF x = 1 THEN {g4[6]} ELSE {})
    BY <1>8, <1>15, <2>1
  <2>3. x = 1 => g7[6] = g4[6]
    <3>1. x = 1 => 6 \in 1 .. Len(g4)
      BY <1>12
    <3>2. QED
      BY <1>15, <3>1
  <2>4. QED
    BY <2>2, <2>3
<1>17. g7[6 + x] = h.dek
  <2>1. 6 + x = Len(g4) + 1 /\ 6 + x \in 1 .. Len(g5) /\ 6 + x \in 1 .. Len(g6)
    BY <1>12
  <2>2. g7[6 + x] = g6[6 + x] /\ g6[6 + x] = g5[6 + x]
    BY <2>1, <1>10, <1>11 DEF Grown
  <2>3. QED
    BY <1>9, <2>1, <2>2
<1>18. ASSUME NEW i \in 1 .. Len(g6) PROVE g7[i] = g6[i]
  BY <1>11 DEF Grown
<1>19. /\ g7[7 + x] = <<y>>
       /\ h.recovery =
            (IF y = 1 THEN {[kdf |-> Argon2(g7[8 + x], g7[9 + x]), wrap |-> g7[10 + x]]} ELSE {})
  <2>1. /\ 7 + x \in 1 .. Len(g6) /\ Len(g5) + 1 = 7 + x /\ Len(g5) + 2 = 8 + x
        /\ Len(g5) + 3 = 9 + x /\ Len(g5) + 4 = 10 + x
    BY <1>12
  <2>2. g7[7 + x] = <<y>>
    BY <1>10, <1>18, <2>1
  <2>3. y = 1 => g7[8 + x] = g6[8 + x] /\ g7[9 + x] = g6[9 + x] /\ g7[10 + x] = g6[10 + x]
    <3>1. y = 1 => 8 + x \in 1 .. Len(g6) /\ 9 + x \in 1 .. Len(g6) /\ 10 + x \in 1 .. Len(g6)
      BY <1>12
    <3>2. QED
      BY <1>18, <3>1
  <2>4. h.recovery =
          (IF y = 1 THEN {[kdf |-> Argon2(g6[8 + x], g6[9 + x]), wrap |-> g6[10 + x]]} ELSE {})
    BY <1>10, <2>1
  <2>5. QED
    BY <2>2, <2>3, <2>4
<1>20. FieldsOf(g7, h, x, y)
  BY <1>11, <1>14, <1>16, <1>17, <1>19 DEF FieldsOf
<1>21. ParseHeader(d).ok /\ ParseHeader(d).got = g7
  BY <1>1, <1>11, CurFields
<1>22. QED
  BY <1>11, <1>20, <1>21 DEF d

LEMMA FieldsToHeader ==
  ASSUME NEW h \in AnyHeader, NEW g, NEW x \in Flags, NEW y \in Flags, FieldsOf(g, h, x, y)
  PROVE  HeaderOf(g) = h
<1> DEFINE tpm == 5 + g[5][1]
           esc == tpm + 2
           t == IF g[5] = <<1>> THEN {g[tpm]} ELSE {}
           r == IF g[esc] = <<1>>
                THEN {[kdf |-> Argon2(g[esc + 1], g[esc + 2]), wrap |-> g[esc + 3]]} ELSE {}
<1>1. HeaderOf(g) = [magic |-> g[1][1], version |-> g[1][2], bound |-> g[1][3] # 0,
                     aead |-> g[1][4], kdf |-> Argon2(g[2], g[3]), pcrs |-> g[4], tpm |-> t,
                     dek |-> g[tpm + 1], recovery |-> r, mac |-> Last(g)[1]]
  BY DEF HeaderOf
<1>2. x \in {0, 1} /\ y \in {0, 1}
  BY DEF Flags
<1>3. g[5] = <<x>> /\ g[5][1] = x /\ (g[5] = <<1>>) = (x = 1)
  <2>1. g[5] = <<x>>
    BY DEF FieldsOf
  <2>2. <<x>>[1] = x /\ <<1>>[1] = 1
    OBVIOUS
  <2>3. QED
    BY <2>1, <2>2
<1>4. tpm = 5 + x /\ esc = 7 + x /\ tpm + 1 = 6 + x /\ esc + 1 = 8 + x /\ esc + 2 = 9 + x
      /\ esc + 3 = 10 + x
  BY <1>2, <1>3
<1> HIDE DEF tpm, esc
<1>5. (g[esc] = <<1>>) = (y = 1)
  <2>1. g[esc] = <<y>>
    BY <1>4 DEF FieldsOf
  <2>2. <<y>>[1] = y /\ <<1>>[1] = 1
    OBVIOUS
  <2>3. QED
    BY <2>1, <2>2
<1>6. t = h.tpm
  <2>1. CASE x = 1
    <3>1. g[5] = <<1>> /\ tpm = 6 /\ h.tpm = {g[6]}
      BY <1>3, <1>4, <2>1 DEF FieldsOf
    <3>2. QED
      BY <3>1
  <2>2. CASE x # 1
    <3>1. g[5] # <<1>> /\ h.tpm = {}
      BY <1>3, <2>2 DEF FieldsOf
    <3>2. QED
      BY <3>1
  <2>3. QED
    BY <2>1, <2>2
<1>7. r = h.recovery
  <2>1. CASE y = 1
    <3>1. h.recovery = {[kdf |-> Argon2(g[8 + x], g[9 + x]), wrap |-> g[10 + x]]}
          /\ g[esc] = <<1>>
      BY <1>5, <2>1 DEF FieldsOf
    <3>2. QED
      BY <1>4, <3>1
  <2>2. CASE y # 1
    <3>1. g[esc] # <<1>> /\ h.recovery = {}
      BY <1>5, <2>2 DEF FieldsOf
    <3>2. QED
      BY <3>1
  <2>3. QED
    BY <2>1, <2>2
<1> HIDE DEF t, r
<1>8. /\ g[1][1] = h.magic /\ g[1][2] = h.version /\ g[1][4] = h.aead
      /\ g[1][3] = (IF h.bound THEN 1 ELSE 0)
  BY PieceTypes DEF FieldsOf
<1>9. (g[1][3] # 0) = h.bound
  <2>1. h.bound \in BOOLEAN
    BY DEF AnyHeader
  <2> DEFINE b == h.bound
             c == g[1][3]
  <2>a. c = (IF b THEN 1 ELSE 0) /\ b \in BOOLEAN
    BY <1>8, <2>1
  <2> HIDE DEF b, c
  <2>b. (c # 0) = b
    BY <2>a
  <2>4. QED
    BY <2>b DEF b, c
<1>10. Argon2(g[2], g[3]) = h.kdf /\ g[4] = h.pcrs /\ g[tpm + 1] = h.dek
  BY <1>4 DEF FieldsOf
<1>11. Last(g)[1] = h.mac
  <2>1. <<h.mac>>[1] = h.mac
    OBVIOUS
  <2>2. QED
    BY <2>1 DEF FieldsOf
<1>12. h = [magic |-> h.magic, version |-> h.version, bound |-> h.bound, aead |-> h.aead,
            kdf |-> h.kdf, pcrs |-> h.pcrs, tpm |-> h.tpm, dek |-> h.dek,
            recovery |-> h.recovery, mac |-> h.mac]
  BY DEF AnyHeader
<1>13. QED
  BY <1>1, <1>6, <1>7, <1>8, <1>9, <1>10, <1>11, <1>12, ZenonT(30)

LEMMA LoadedIsStored == IInv => ReadsBack
<1> SUFFICES ASSUME IInv, data = BytesOf(file)
             PROVE  Loaded = Stored
  BY DEF ReadsBack, Whole
<1> DEFINE h == file[1]
           rs == file[2]
           b == FileBytes(h, rs)
           hb == HeaderBytes(h)
<1>1. /\ h \in AnyHeader /\ rs \in Seq(AnyRecord) /\ Accepted(h, rs)
      /\ data = b /\ Stored = [ok |-> TRUE, header |-> h, records |-> rs]
  BY DEF IInv, Written, BytesOf, Stored
<1> HIDE DEF h, rs
<1>2. hb \in Blob /\ Len(hb) \in Nat /\ b \in Blob /\ Len(rs) \in Nat
  BY <1>1, HeaderType, FileType, LenNat
<1> DEFINE p == 1 + Len(hb)
<1>3. /\ Lies(b, 0, PutBytes(hb)) /\ b[2 + Len(hb)] = Len(rs)
      /\ Lies(b, 2 + Len(hb), EveryRecord(rs))
      /\ 2 + Len(hb) + Len(EveryRecord(rs)) = Len(b)
  BY <1>1, FileLies
<1>4. ParseHeader(hb).ok /\ HeaderOf(ParseHeader(hb).got) = h
  <2>1. Loadable(h)
    BY <1>1 DEF Accepted
  <2>2. PICK g \in Fields, x \in Flags, y \in Flags :
          /\ ParseHeader(HeaderBytes(h)).ok /\ ParseHeader(HeaderBytes(h)).got = g
          /\ FieldsOf(g, h, x, y)
    BY <1>1, <2>1, HeaderFields, ZenonT(30)
  <2>3. QED
    BY <1>1, <2>2, FieldsToHeader
<1> HIDE DEF b, hb
<1>5. TakeBytes(b, Start) = Cur(p, <<hb>>) /\ TakeBytes(b, Start).ok
      /\ TakeBytes(b, Start).got[1] = hb
  <2>1. 0 \in Nat /\ <<>> \in Fields
    BY FailedFields
  <2>2. TakeBytes(b, Cur(0, <<>>)) = Cur(0 + 1 + Len(hb), Append(<<>>, hb))
    BY <1>2, <1>3, <2>1, BytesFound
  <2>3. Append(<<>>, hb) = <<hb>> /\ 0 + 1 + Len(hb) = p /\ <<hb>>[1] = hb
    BY <1>2
  <2>4. QED
    BY <2>2, <2>3, FailedFields, CurFields
<1>6. p \in Nat /\ p + 1 = 2 + Len(hb) /\ <<hb>> \in Fields
  BY <1>2 DEF Fields
<1>7. p < Len(b)
  <2>1. EveryRecord(rs) \in Blob
    BY <1>1, <1>6, RecordsPlaces
  <2>2. Len(EveryRecord(rs)) \in Nat
    BY <2>1, LenNat
  <2>3. QED
    BY <1>2, <1>3, <2>2
<1> HIDE DEF p
<1>8. TakeRecords(b, Cur(p, <<hb>>), h.version).ok
  <2>1. h.version = 2 => \A i \in 1 .. Len(rs) : Utf8(rs[i].name)
    BY <1>1 DEF Accepted
  <2>2. b[p + 1] = Len(rs) /\ Lies(b, p + 1, EveryRecord(rs))
    BY <1>3, <1>6
  <2> DEFINE g == <<hb>>
             v == h.version
  <2>3. g \in Fields /\ (v = 2 => \A i \in 1 .. Len(rs) : Utf8(rs[i].name))
    BY <1>6, <2>1
  <2> HIDE DEF g, v
  <2>4. TakeRecords(b, Cur(p, g), v).ok
    BY <1>1, <1>2, <1>6, <1>7, <2>2, <2>3, RecordsFound
  <2>5. QED
    BY <2>4 DEF g, v
<1>9. LoadFromBytes(b).ok
  BY <1>4, <1>5, <1>8 DEF LoadFromBytes
<1>10. PICK kb \in Blob, ts \in Seq(AnyRecord) :
         /\ Lies(b, 0, PutBytes(kb)) /\ b[2 + Len(kb)] = Len(ts)
         /\ Lies(b, 2 + Len(kb), EveryRecord(ts))
         /\ LoadFromBytes(b) =
              [ok |-> TRUE, header |-> HeaderOf(ParseHeader(kb).got), records |-> ts]
  BY <1>2, <1>9, LoadFound
<1>11. kb = hb
  BY <1>2, <1>3, <1>10, BytesTold
<1>12. ts = rs
  <2> DEFINE q == 2 + Len(hb)
  <2>1. q \in Nat /\ Len(rs) = Len(ts) /\ Lies(b, q, EveryRecord(rs))
        /\ Lies(b, q, EveryRecord(ts))
    BY <1>2, <1>3, <1>10, <1>11
  <2> HIDE DEF q
  <2>2. QED
    BY <1>1, <1>2, <1>10, <2>1, RecordsTold
<1>13. QED
  BY <1>1, <1>4, <1>10, <1>11, <1>12 DEF Loaded

(* Every file of either format is read back as the header and the records   *)
(* it was written from: of any size, with any optional field.               *)
THEOREM FileIsReadBack == CodecSpec => []ReadsBack
BY LoadedIsStored, CodecInduction, PTL

-----------------------------------------------------------------------------
(* The secrets of a saved vault                                             *)

(* Padding adds cells behind the text and changes none of it.               *)
LEMMA FilledKeeps ==
  ASSUME NEW p \in Blob, NEW b \in Nat \ {0}
  PROVE  /\ Len(p) <= Len(Fill(p, b)) /\ Len(p) \in Nat /\ Len(Fill(p, b)) \in Nat
         /\ \A i \in 1 .. Len(p) : Fill(p, b)[i] = p[i]
<1> DEFINE m == PaddedLen(Len(p), b) - Len(p)
           z == [i \in 1 .. m |-> 0]
<1>1. m \in Nat /\ Len(p) \in Nat
  BY LenNat, PaddedType
<1> HIDE DEF m
<1>2. z \in Blob
  BY <1>1 DEF Blob
<1>3. Fill(p, b) = p \o z
  BY DEF Fill, m
<1> HIDE DEF z
<1>4. \A i \in 1 .. Len(p) : (p \o z)[i] = p[i]
  BY <1>2 DEF Blob
<1>5. Len(z) \in Nat /\ Len(p \o z) = Len(p) + Len(z)
  BY <1>2, Joined, LenNat
<1>6. QED
  BY <1>1, <1>3, <1>4, <1>5

(* What a name decodes to after it was encoded: itself, nothing for a       *)
(* tombstone, or an error if it is too long or is not text.                 *)
LEMMA NameOpened ==
  ASSUME NEW kind \in {0, 1}, NEW s \in Blob
  PROVE  DecodeName(EncodeName(kind, s)) =
           IF Len(s) > MAX_NAME_LEN THEN BadPlaintext
           ELSE IF kind = 1 THEN Plaintext({})
           ELSE IF Utf8(s) THEN Plaintext({s}) ELSE BadPlaintext
<1> DEFINE p == <<kind, Len(s)>> \o s
           f == EncodeName(kind, s)
           n == Len(s)
<1>1. n \in Nat /\ <<kind, Len(s)>> \in Blob /\ Len(<<kind, Len(s)>>) = 2
  BY LenNat DEF Blob
<1>2. p \in Blob /\ Len(p) = 2 + n
  BY <1>1, Joined
<1>3. p[1] = kind /\ p[2] = n /\ \A i \in 1 .. n : p[2 + i] = s[i]
  BY <1>1 DEF Blob
<1>4. f = Fill(p, NAME_BUCKET)
  BY DEF EncodeName
<1> HIDE DEF p, f
<1>5. f \in Blob
  BY <1>2, <1>4, FilledType, ConstantTypes
<1>6. 2 + n <= Len(f) /\ Len(f) \in Nat /\ \A i \in 1 .. 2 + n : f[i] = p[i]
  BY <1>2, <1>4, FilledKeeps, ConstantTypes
<1>7. f[1] = kind /\ f[2] = n
  BY <1>1, <1>3, <1>6
<1>8. SubSeq(f, 3, 2 + n) = s
  <2> DEFINE t == SubSeq(f, 3, 2 + n)
  <2>1. f \in Seq(Nat) /\ s \in Seq(Nat) /\ Len(s) = n
    BY <1>5 DEF Blob
  <2> HIDE DEF n
  <2>2. t \in Seq(Nat) /\ Len(t) = n /\ \A i \in 1 .. n : t[i] = f[2 + i]
    BY <1>1, <1>6, <2>1
  <2> HIDE DEF t
  <2>3. \A i \in 1 .. n : t[i] = s[i]
    <3>1. \A i \in 1 .. n : 2 + i \in 1 .. 2 + n
      BY <1>1
    <3>2. QED
      BY <1>3, <1>6, <2>2, <3>1
  <2>4. QED
    BY <2>1, <2>2, <2>3, SameBlob DEF t
<1>9. DecodeName(f) =
        IF n > MAX_NAME_LEN THEN BadPlaintext
        ELSE CASE kind = 1 -> Plaintext({})
               [] kind = 0 /\ Utf8(s) -> Plaintext({s})
               [] OTHER -> BadPlaintext
  <2>1. ~(Len(f) < 2) /\ ~(2 + f[2] > Len(f))
    BY <1>1, <1>6, <1>7
  <2> HIDE DEF n
  <2> DEFINE name == SubSeq(f, 3, 2 + f[2])
  <2>2. name = s
    BY <1>7, <1>8
  <2>3. DecodeName(f) =
          IF f[2] > MAX_NAME_LEN THEN BadPlaintext
          ELSE CASE f[1] = 1 -> Plaintext({})
                 [] f[1] = 0 /\ Utf8(name) -> Plaintext({name})
                 [] OTHER -> BadPlaintext
    BY <2>1 DEF DecodeName
  <2> HIDE DEF name
  <2>4. QED
    BY <1>7, <2>2, <2>3
<1>10. QED
  BY <1>9 DEF f

LEMMA ValueOpened ==
  ASSUME NEW v \in Blob
  PROVE  DecodeValue(EncodeValue(v)) = Plaintext(v)
<1> DEFINE p == <<Len(v)>> \o v
           f == EncodeValue(v)
           n == Len(v)
<1>1. n \in Nat /\ <<Len(v)>> \in Blob /\ Len(<<Len(v)>>) = 1
  BY LenNat DEF Blob
<1>2. p \in Blob /\ Len(p) = 1 + n
  BY <1>1, Joined
<1>3. p[1] = n /\ \A i \in 1 .. n : p[1 + i] = v[i]
  BY <1>1 DEF Blob
<1>4. f = Fill(p, VALUE_BUCKET)
  BY DEF EncodeValue
<1> HIDE DEF p, f
<1>5. f \in Blob
  BY <1>2, <1>4, FilledType, ConstantTypes
<1>6. 1 + n <= Len(f) /\ Len(f) \in Nat /\ \A i \in 1 .. 1 + n : f[i] = p[i]
  BY <1>2, <1>4, FilledKeeps, ConstantTypes
<1>7. f[1] = n
  BY <1>1, <1>3, <1>6
<1>8. SubSeq(f, 2, 1 + n) = v
  <2> DEFINE t == SubSeq(f, 2, 1 + n)
  <2>1. f \in Seq(Nat) /\ v \in Seq(Nat) /\ Len(v) = n
    BY <1>5 DEF Blob
  <2> HIDE DEF n
  <2>2. t \in Seq(Nat) /\ Len(t) = n /\ \A i \in 1 .. n : t[i] = f[1 + i]
    BY <1>1, <1>6, <2>1
  <2> HIDE DEF t
  <2>3. \A i \in 1 .. n : t[i] = v[i]
    <3>1. \A i \in 1 .. n : 1 + i \in 1 .. 1 + n
      BY <1>1
    <3>2. QED
      BY <1>3, <1>6, <2>2, <3>1
  <2>4. QED
    BY <2>1, <2>2, <2>3, SameBlob DEF t
<1>9. ~(Len(f) < 1) /\ ~(1 + f[1] > Len(f))
  BY <1>1, <1>6, <1>7
<1> HIDE DEF n
<1>10. DecodeValue(f) = Plaintext(v)
  BY <1>7, <1>8, <1>9 DEF DecodeValue
<1>11. QED
  BY <1>10 DEF f

(* Sequences of one element or none, put together.                          *)
LEMMA KeptFirst ==
  ASSUME NEW T, NEW e \in Seq(T), NEW parts, NEW n \in Nat, Len(e) <= n,
         parts \in Seq(Seq(T)), Len(parts) = n,
         \A i \in 1 .. n : parts[i] = IF i <= Len(e) THEN <<e[i]>> ELSE <<>>
  PROVE  FlattenSeq(parts) = e
<1>1. Closed(Seq(T))
  BY DEF Closed
<1>2. PICK g : Joins(Seq(T), parts, n, g) /\ FlattenSeq(parts) = g[n]
  BY <1>1, Flattened
<1> DEFINE m(k) == IF k <= Len(e) THEN k ELSE Len(e)
           S == {k \in Nat : k <= n => g[k] = SubSeq(e, 1, m(k))}
<1>3. Len(e) \in Nat
  OBVIOUS
<1>4. 0 \in S
  <2>1. g[0] = <<>>
    BY <1>2 DEF Joins
  <2>2. SubSeq(e, 1, m(0)) = <<>>
    BY <1>3
  <2>3. QED
    BY <2>1, <2>2
<1>5. ASSUME NEW k \in Nat, k \in S, k + 1 <= n
      PROVE  g[k + 1] = SubSeq(e, 1, m(k + 1))
  <2>1. k + 1 \in 1 .. n /\ (k + 1) - 1 = k
    BY <1>5
  <2>2. g[k + 1] = g[k] \o parts[k + 1]
    BY <1>2, <2>1 DEF Joins
  <2>3. g[k] = SubSeq(e, 1, m(k))
    BY <1>5
  <2>4. CASE k + 1 <= Len(e)
    <3>1. parts[k + 1] = <<e[k + 1]>> /\ m(k) = k /\ m(k + 1) = k + 1
      BY <2>1, <2>4, <1>3
    <3>2. SubSeq(e, 1, k) \o <<e[k + 1]>> = SubSeq(e, 1, k + 1)
      BY <2>4
    <3>3. QED
      BY <2>2, <2>3, <3>1, <3>2
  <2>5. CASE ~(k + 1 <= Len(e))
    <3>1. parts[k + 1] = <<>> /\ m(k) = Len(e) /\ m(k + 1) = Len(e)
      BY <2>1, <2>5, <1>3
    <3>2. SubSeq(e, 1, Len(e)) \o <<>> = SubSeq(e, 1, Len(e))
      OBVIOUS
    <3>3. QED
      BY <2>2, <2>3, <3>1, <3>2
  <2>6. QED
    BY <2>4, <2>5
<1>6. \A k \in Nat : k \in S => k + 1 \in S
  BY <1>5
<1>7. \A k \in Nat : k \in S
  <2> HIDE DEF S
  <2>1. QED
    BY <1>4, <1>6, Induction
<1>8. g[n] = SubSeq(e, 1, m(n))
  BY <1>7
<1>9. m(n) = Len(e)
  BY <1>3
<1>10. SubSeq(e, 1, Len(e)) = e
  OBVIOUS
<1>11. QED
  BY <1>2, <1>8, <1>9, <1>10

LEMMA SecretOpened ==
  ASSUME NEW i, NEW s \in Secrets
  PROVE  /\ Opened(SealedRecord(i, 0, s)).name.ok <=> Readable(s.name)
         /\ Readable(s.name) => Opened(SealedRecord(i, 0, s)) = Exactly(s)
         /\ ~IsTombstone(Exactly(s))
<1> DEFINE n == s.name
           v == s.value
           r == SealedRecord(i, 0, s)
<1>1. n \in Blob /\ v \in Blob
  BY TextsType DEF Secrets
<1>2. r.name = EncodeName(0, n) /\ r.value = EncodeValue(v)
  BY DEF SealedRecord
<1> HIDE DEF n, v, r
<1>3. DecodeName(r.name) =
        IF Len(n) > MAX_NAME_LEN THEN BadPlaintext
        ELSE IF Utf8(n) THEN Plaintext({n}) ELSE BadPlaintext
  <2>1. 0 \in {0, 1} /\ 0 # 1
    OBVIOUS
  <2>2. QED
    BY <1>1, <1>2, <2>1, NameOpened
<1>4. DecodeValue(r.value) = Plaintext(v)
  BY <1>1, <1>2, ValueOpened
<1>5. Len(n) \in Nat /\ MAX_NAME_LEN \in Nat
  BY <1>1, LenNat, ConstantTypes
<1>6. Readable(n) <=> ~(Len(n) > MAX_NAME_LEN) /\ Utf8(n)
  BY <1>5 DEF Readable, Utf8
<1>7. CASE Readable(n)
  <2>1. DecodeName(r.name) = Plaintext({n})
    BY <1>3, <1>6, <1>7
  <2>2. Opened(r) = [name |-> Plaintext({n}), value |-> Plaintext(v)]
    BY <1>4, <2>1 DEF Opened
  <2>3. Opened(r) = Exactly(s) /\ Opened(r).name.ok
    BY <2>2 DEF Exactly, n, v, Plaintext
  <2>4. ~IsTombstone(Exactly(s))
    BY DEF Exactly, IsTombstone, Plaintext
  <2>5. QED
    BY <1>7, <2>3, <2>4 DEF n, r
<1>8. CASE ~Readable(n)
  <2>1. DecodeName(r.name) = BadPlaintext
    BY <1>3, <1>6, <1>8
  <2>2. Opened(r).name = BadPlaintext
    BY <2>1 DEF Opened
  <2>3. ~Opened(r).name.ok
    BY <2>2 DEF BadPlaintext
  <2>4. ~IsTombstone(Exactly(s))
    BY DEF Exactly, IsTombstone, Plaintext
  <2>5. QED
    BY <1>8, <2>3, <2>4 DEF n, r
<1>9. QED
  BY <1>7, <1>8

LEMMA TombstoneOpened ==
  ASSUME NEW i
  PROVE  LET o == Opened(SealedRecord(i, 1, Nothing)) IN o.name.ok /\ IsTombstone(o)
<1> DEFINE r == SealedRecord(i, 1, Nothing)
<1>1. r.name = EncodeName(1, <<>>)
  BY DEF SealedRecord, Nothing
<1> HIDE DEF r
<1>2. Len(<<>>) = 0 /\ <<>> \in Blob /\ ~(0 > MAX_NAME_LEN) /\ 1 \in {0, 1}
  BY SomeBlobs, ConstantTypes
<1>3. DecodeName(r.name) = Plaintext({})
  BY <1>1, <1>2, NameOpened
<1>4. Opened(r).name = Plaintext({})
  BY <1>3 DEF Opened
<1>5. Opened(r).name.ok /\ IsTombstone(Opened(r))
  BY <1>4 DEF IsTombstone, Plaintext
<1>6. QED
  BY <1>5 DEF r

LEMMA SavedOpened ==
  ASSUME NEW ss \in Seq(Secrets)
  PROVE  Unlocked3(SavedRecords(ss)) =
           IF \A i \in DOMAIN ss : Readable(ss[i].name)
           THEN [ok |-> TRUE, records |-> [i \in DOMAIN ss |-> Exactly(ss[i])]]
           ELSE NoFile
<1> DEFINE n == PaddedLen(Len(ss), COUNT_BUCKET)
           m == Len(ss)
           rs == SavedRecords(ss)
           opened == [i \in DOMAIN rs |-> Opened(rs[i])]
           parts == [i \in DOMAIN rs |-> IF IsTombstone(opened[i]) THEN <<>> ELSE <<opened[i]>>]
<1>1. m \in Nat /\ n \in Nat /\ m <= n /\ DOMAIN ss = 1 .. m
  <2>1. m \in Nat /\ DOMAIN ss = 1 .. m
    OBVIOUS
  <2>2. n \in Nat /\ n - m \in Nat
    BY <2>1, PaddedType, ConstantTypes
  <2> HIDE DEF n, m
  <2>3. QED
    BY <2>1, <2>2
<1>2. rs = [i \in 1 .. n |-> IF i <= m THEN SealedRecord(i, 0, ss[i])
                             ELSE SealedRecord(i, 1, Nothing)]
  BY DEF SavedRecords
<1>3. \A i \in 1 .. m : ss[i] \in Secrets
  BY <1>1
<1> HIDE DEF n, m
<1>4. /\ DOMAIN rs = 1 .. n
      /\ \A i \in 1 .. n : rs[i] = IF i <= m THEN SealedRecord(i, 0, ss[i])
                                   ELSE SealedRecord(i, 1, Nothing)
  BY <1>2
<1> HIDE DEF rs
<1>5. /\ \A i \in 1 .. n : opened[i] = Opened(rs[i])
      /\ \A i \in 1 .. n : parts[i] = IF IsTombstone(opened[i]) THEN <<>> ELSE <<opened[i]>>
      /\ DOMAIN parts = 1 .. n
  BY <1>4
<1>6. Unlocked3(rs) = IF \E i \in 1 .. n : ~opened[i].name.ok THEN NoFile
                      ELSE [ok |-> TRUE, records |-> FlattenSeq(parts)]
  BY <1>4 DEF Unlocked3
<1>7. ASSUME NEW i \in 1 .. n, ~(i <= m)
      PROVE  opened[i].name.ok /\ parts[i] = <<>>
  <2>1. opened[i] = Opened(SealedRecord(i, 1, Nothing))
    BY <1>4, <1>5, <1>7
  <2>2. opened[i].name.ok /\ IsTombstone(opened[i])
    BY <2>1, TombstoneOpened
  <2>3. QED
    BY <1>5, <2>2
<1>8. ASSUME NEW i \in 1 .. m
      PROVE  /\ i \in 1 .. n
             /\ opened[i].name.ok <=> Readable(ss[i].name)
             /\ Readable(ss[i].name) => parts[i] = <<Exactly(ss[i])>>
  <2>1. i \in 1 .. n /\ i <= m /\ ss[i] \in Secrets
    BY <1>1, <1>3
  <2>2. opened[i] = Opened(SealedRecord(i, 0, ss[i]))
    BY <1>4, <1>5, <2>1
  <2>3. parts[i] = IF IsTombstone(opened[i]) THEN <<>> ELSE <<opened[i]>>
    BY <1>5, <2>1
  <2>4. QED
    BY <2>1, <2>2, <2>3, SecretOpened
<1> HIDE DEF opened
<1>9. CASE \A i \in 1 .. m : Readable(ss[i].name)
  <2> DEFINE e == [i \in 1 .. m |-> Exactly(ss[i])]
             T == {Exactly(ss[i]) : i \in 1 .. m}
  <2>1. e \in Seq(T) /\ Len(e) = m
    BY <1>1
  <2>2. \A i \in 1 .. n : parts[i] = IF i <= m THEN <<e[i]>> ELSE <<>>
    <3> HIDE DEF parts
    <3> SUFFICES ASSUME NEW i \in 1 .. n
                 PROVE  parts[i] = IF i <= m THEN <<e[i]>> ELSE <<>>
      OBVIOUS
    <3>1. CASE i <= m
      <4>1. i \in 1 .. m
        BY <1>1, <3>1
      <4>2. parts[i] = <<Exactly(ss[i])>> /\ e[i] = Exactly(ss[i])
        BY <1>8, <1>9, <4>1
      <4>3. QED
        BY <3>1, <4>2
    <3>2. CASE ~(i <= m)
      BY <1>7, <3>2
    <3>3. QED
      BY <3>1, <3>2
  <2> HIDE DEF parts
  <2>3. parts \in Seq(Seq(T)) /\ Len(parts) = n
    <3>1. \A i \in 1 .. n : parts[i] \in Seq(T)
      <4> SUFFICES ASSUME NEW i \in 1 .. n PROVE parts[i] \in Seq(T)
        OBVIOUS
      <4>1. CASE i <= m
        <5>1. e[i] \in T
          BY <1>1, <2>1, <4>1
        <5>2. parts[i] = <<e[i]>>
          BY <2>2, <4>1
        <5> HIDE DEF e, T
        <5>3. QED
          BY <5>1, <5>2
      <4>2. CASE ~(i <= m)
        <5>1. parts[i] = <<>>
          BY <2>2, <4>2
        <5>2. QED
          BY <5>1
      <4>3. QED
        BY <4>1, <4>2
    <3>2. parts = [i \in 1 .. n |-> parts[i]]
      BY <1>5 DEF parts
    <3> HIDE DEF e, T
    <3>3. QED
      BY <1>1, <3>1, <3>2
  <2> HIDE DEF e, T
  <2>4. FlattenSeq(parts) = e
    BY <1>1, <2>1, <2>2, <2>3, KeptFirst
  <2>5. \A i \in 1 .. n : opened[i].name.ok
    BY <1>7, <1>8, <1>9, <1>1
  <2>6. Unlocked3(rs) = [ok |-> TRUE, records |-> e]
    BY <1>6, <2>4, <2>5
  <2>7. QED
    BY <1>1, <1>9, <2>6 DEF e, rs
<1>10. CASE ~\A i \in 1 .. m : Readable(ss[i].name)
  <2>1. PICK i \in 1 .. m : ~Readable(ss[i].name)
    BY <1>10
  <2>2. i \in 1 .. n /\ ~opened[i].name.ok
    BY <1>8, <2>1
  <2>3. Unlocked3(rs) = NoFile
    BY <1>6, <2>2
  <2>4. QED
    BY <1>1, <1>10, <2>3 DEF rs
<1>11. QED
  BY <1>9, <1>10

(* The secrets of a saved vault come out of its bytes as they went in, in   *)
(* their order and without a tombstone, or the vault does not open at all,  *)
(* for a name that is too long or is not text.                              *)
THEOREM SavedIsUnlocked == CodecSpec => []SecretsReadBack
<1>1. IInv => SecretsReadBack
  <2> SUFFICES ASSUME IInv, Whole, file = SavedFile(secrets)
               PROVE  Unlocked3(Loaded.records) =
                        IF \A i \in DOMAIN secrets : Readable(secrets[i].name)
                        THEN [ok |-> TRUE,
                              records |-> [i \in DOMAIN secrets |-> Exactly(secrets[i])]]
                        ELSE NoFile
    BY DEF SecretsReadBack
  <2>1. Loaded = Stored
    BY LoadedIsStored DEF ReadsBack
  <2>2. Loaded.records = SavedRecords(secrets)
    BY <2>1 DEF Stored, SavedFile
  <2>3. secrets \in Seq(Secrets)
    BY DEF IInv
  <2>4. QED
    BY <2>2, <2>3, SavedOpened
<1>2. QED
  BY <1>1, CodecInduction, PTL

-----------------------------------------------------------------------------
(* Sizes                                                                    *)

(* Products grow with their factors.                                        *)
LEMMA Grows ==
  ASSUME NEW b \in Nat \ {0}, NEW m \in Nat, NEW n \in Nat, m <= n
  PROVE  b * m <= b * n /\ m <= b * m /\ b * m \in Nat
<1>1. n - m \in Nat /\ b * n = b * m + b * (n - m) /\ b * (n - m) \in Nat /\ b * m \in Nat
  OBVIOUS
<1>2. b - 1 \in Nat /\ b * m = m + (b - 1) * m /\ (b - 1) * m \in Nat
  OBVIOUS
<1>3. QED
  BY <1>1, <1>2

(* As many buckets as it takes, and at least one: there is one such number. *)
Fits(n, b, k) == b * k >= n /\ (k = 1 \/ b * (k - 1) < n)

LEMMA FitsOnce ==
  ASSUME NEW n \in Nat, NEW b \in Nat \ {0},
         NEW j \in Nat \ {0}, NEW k \in Nat \ {0}, Fits(n, b, j), Fits(n, b, k)
  PROVE  j = k
<1>1. ASSUME NEW x \in Nat \ {0}, NEW y \in Nat \ {0}, Fits(n, b, x), Fits(n, b, y), x < y
      PROVE  FALSE
  <2>1. y - 1 \in Nat /\ x <= y - 1 /\ y # 1
    BY <1>1
  <2>2. b * x <= b * (y - 1) /\ b * x \in Nat /\ b * (y - 1) \in Nat
    BY <2>1, Grows
  <2>3. b * x >= n /\ b * (y - 1) < n
    BY <1>1, <2>1 DEF Fits
  <2>4. QED
    BY <2>2, <2>3
<1>2. QED
  BY <1>1

LEMMA CeilingFits ==
  ASSUME NEW n \in Nat \ {0}, NEW b \in Nat \ {0}
  PROVE  Ceiling(n, b) \in 1 .. n + 1 /\ Fits(n, b, Ceiling(n, b))
<1> DEFINE q == (n + b - 1) \div b
<1>1. q \in Nat /\ b * q <= n + b - 1 /\ n + b - 1 < b * q + b /\ b * q \in Nat
  OBVIOUS
<1> HIDE DEF q
<1>2. b * q >= n
  BY <1>1
<1>3. q # 0
  BY <1>1, <1>2
<1>4. q - 1 \in Nat /\ b * (q - 1) = b * q - b
  BY <1>1, <1>3
<1>5. b * (q - 1) < n /\ b * (q - 1) \in Nat
  BY <1>1, <1>4
<1>6. q - 1 <= b * (q - 1)
  BY <1>4, Grows
<1>7. q \in 1 .. n + 1
  BY <1>1, <1>3, <1>4, <1>5, <1>6
<1>8. QED
  BY <1>2, <1>5, <1>7 DEF Ceiling, Fits, q

LEMMA BucketsAre ==
  ASSUME NEW n \in Nat, NEW b \in Nat \ {0}
  PROVE  /\ Buckets(n, b) \in Nat \ {0} /\ Fits(n, b, Buckets(n, b))
         /\ PaddedLen(n, b) = b * Buckets(n, b)
<1> DEFINE K == {k \in 1 .. n + 1 : Fits(n, b, k)}
           want == IF n = 0 THEN 1 ELSE Ceiling(n, b)
<1>1. want \in K
  <2>1. CASE n = 0
    <3>1. b * 1 >= 0
      OBVIOUS
    <3>2. QED
      BY <2>1, <3>1 DEF Fits
  <2>2. CASE n # 0
    BY <2>2, CeilingFits
  <2>3. QED
    BY <2>1, <2>2
<1>2. Buckets(n, b) = CHOOSE k \in 1 .. n + 1 : Fits(n, b, k)
  BY DEF Buckets, Fits
<1>3. Buckets(n, b) \in K
  BY <1>1, <1>2
<1>4. PaddedLen(n, b) = b * want
  BY DEF PaddedLen
<1> HIDE DEF want
<1>5. \A k \in K : k \in Nat \ {0} /\ Fits(n, b, k)
  OBVIOUS
<1> HIDE DEF K
<1>6. Buckets(n, b) = want
  BY <1>1, <1>3, <1>5, FitsOnce
<1>7. QED
  BY <1>3, <1>4, <1>5, <1>6

LEMMA FilledLen ==
  ASSUME NEW p \in Blob, NEW b \in Nat \ {0}
  PROVE  Len(Fill(p, b)) = b * Buckets(Len(p), b)
<1> DEFINE m == PaddedLen(Len(p), b) - Len(p)
           z == [i \in 1 .. m |-> 0]
<1>1. m \in Nat /\ Len(p) \in Nat /\ PaddedLen(Len(p), b) \in Nat
  BY LenNat, PaddedType
<1>2. Fill(p, b) = p \o z
  BY DEF Fill
<1>3. Len(p) + m = PaddedLen(Len(p), b)
  BY <1>1
<1> HIDE DEF m
<1>4. z \in Blob /\ Len(z) = m
  BY <1>1 DEF Blob
<1> HIDE DEF z
<1>5. Len(Fill(p, b)) = Len(p) + m
  BY <1>2, <1>4, Joined
<1>6. QED
  BY <1>1, <1>3, <1>5, BucketsAre

(* A record takes full buckets for its name and for its value.              *)
LEMMA SealedLen ==
  ASSUME NEW i \in Nat, NEW kind \in Nat, NEW s, s.name \in Blob, s.value \in Blob
  PROVE  /\ NameLen(SealedRecord(i, kind, s)) = NAME_BUCKET * Buckets(2 + Len(s.name), NAME_BUCKET)
         /\ ValueLen(SealedRecord(i, kind, s)) = VALUE_BUCKET * Buckets(1 + Len(s.value), VALUE_BUCKET)
<1> DEFINE n == s.name
           v == s.value
<1>1. n \in Blob /\ v \in Blob /\ Len(n) \in Nat /\ Len(v) \in Nat
  BY LenNat
<1> HIDE DEF n, v
<1>2. <<kind, Len(n)>> \in Blob /\ Len(<<kind, Len(n)>>) = 2 /\ <<Len(v)>> \in Blob
      /\ Len(<<Len(v)>>) = 1
  BY <1>1 DEF Blob
<1>3. /\ <<kind, Len(n)>> \o n \in Blob /\ Len(<<kind, Len(n)>> \o n) = 2 + Len(n)
      /\ <<Len(v)>> \o v \in Blob /\ Len(<<Len(v)>> \o v) = 1 + Len(v)
  BY <1>1, <1>2, Joined
<1>4. Len(EncodeName(kind, n)) = NAME_BUCKET * Buckets(2 + Len(n), NAME_BUCKET)
  BY <1>3, FilledLen, ConstantTypes DEF EncodeName
<1>5. Len(EncodeValue(v)) = VALUE_BUCKET * Buckets(1 + Len(v), VALUE_BUCKET)
  BY <1>3, FilledLen, ConstantTypes DEF EncodeValue
<1>6. QED
  BY <1>4, <1>5 DEF SealedRecord, NameLen, ValueLen, n, v

-----------------------------------------------------------------------------
(* The sum over a sequence, as FoldLeft computes it and number by number.   *)
SumFolds(ns, k, f) ==
  \A s \in SUBSET (1 .. k) :
    f[s] = IF s = {} THEN 0 ELSE Beyond(f[s \ {Max(s)}], ns[Max(s)])

Sums(ns, n, st) ==
  /\ st \in [0 .. n -> Nat]
  /\ st[0] = 0
  /\ \A i \in 1 .. n : st[i] = st[i - 1] + ns[i] - 1

LEMMA SumsExist ==
  ASSUME NEW ns
  PROVE  \A k \in Nat : \E f : SumFolds(ns, k, f)
<1> DEFINE S == {k \in Nat : \E f : SumFolds(ns, k, f)}
<1>1. 0 \in S
  <2> DEFINE f == [s \in {{}} |-> 0]
  <2>1. \A s \in SUBSET (1 .. 0) : s = {}
    OBVIOUS
  <2>2. f[{}] = 0
    OBVIOUS
  <2> HIDE DEF f
  <2>3. SumFolds(ns, 0, f)
    BY <2>1, <2>2 DEF SumFolds
  <2>4. QED
    BY <2>3
<1>2. ASSUME NEW k \in Nat, NEW f, SumFolds(ns, k, f)
      PROVE  \E g : SumFolds(ns, k + 1, g)
  <2> DEFINE g == [s \in SUBSET (1 .. k + 1) |->
                     IF k + 1 \in s THEN Beyond(f[s \ {k + 1}], ns[k + 1]) ELSE f[s]]
  <2>1. \A s \in SUBSET (1 .. k) : g[s] = f[s]
    OBVIOUS
  <2>2. \A s \in SUBSET (1 .. k + 1) :
          g[s] = IF k + 1 \in s THEN Beyond(f[s \ {k + 1}], ns[k + 1]) ELSE f[s]
    OBVIOUS
  <2> HIDE DEF g
  <2>3. ASSUME NEW s \in SUBSET (1 .. k + 1)
        PROVE  g[s] = IF s = {} THEN 0 ELSE Beyond(g[s \ {Max(s)}], ns[Max(s)])
    <3>1. CASE k + 1 \in s
      <4>1. Max(s) = k + 1 /\ s \ {k + 1} \in SUBSET (1 .. k)
        BY <3>1, GreatestOf
      <4>2. g[s \ {Max(s)}] = f[s \ {k + 1}]
        BY <4>1, <2>1
      <4>3. g[s] = Beyond(f[s \ {k + 1}], ns[k + 1])
        BY <3>1, <2>2
      <4>4. QED
        BY <3>1, <4>1, <4>2, <4>3
    <3>2. CASE k + 1 \notin s
      <4>1. s \in SUBSET (1 .. k)
        BY <3>2
      <4>2. s \ {Max(s)} \in SUBSET (1 .. k)
        BY <4>1
      <4>3. g[s] = f[s] /\ g[s \ {Max(s)}] = f[s \ {Max(s)}]
        BY <4>1, <4>2, <2>1
      <4>4. f[s] = IF s = {} THEN 0 ELSE Beyond(f[s \ {Max(s)}], ns[Max(s)])
        BY <1>2, <4>1 DEF SumFolds
      <4>5. QED
        BY <4>3, <4>4
    <3>3. QED
      BY <3>1, <3>2
  <2>4. SumFolds(ns, k + 1, g)
    BY <2>3 DEF SumFolds
  <2>5. QED
    BY <2>4
<1>3. \A k \in Nat : k \in S => k + 1 \in S
  BY <1>2
<1>4. \A k \in Nat : k \in S
  <2> HIDE DEF S
  <2>1. QED
    BY <1>1, <1>3, Induction
<1>5. QED
  BY <1>4

LEMMA SumUnrolled ==
  ASSUME NEW n \in Nat, NEW ns \in [1 .. n -> Nat \ {0}]
  PROVE  \E st : Sums(ns, n, st) /\ Extra(ns) = st[n]
<1> DEFINE Is(f) == f = [s \in SUBSET (1 .. n) |->
                           IF s = {} THEN 0 ELSE Beyond(f[s \ {Max(s)}], ns[Max(s)])]
           iter == CHOOSE f : Is(f)
<1>1. Extra(ns) = iter[1 .. n]
  <2>1. DOMAIN ns = 1 .. n
    OBVIOUS
  <2>2. QED
    BY <2>1 DEF Extra, FoldLeft, MapThenFoldSet
<1>2. \E f : Is(f)
  <2>1. PICK f : SumFolds(ns, n, f)
    BY SumsExist
  <2> DEFINE g == [s \in SUBSET (1 .. n) |-> f[s]]
  <2>2. \A s \in SUBSET (1 .. n) : s \ {Max(s)} \in SUBSET (1 .. n)
    OBVIOUS
  <2>3. \A s \in SUBSET (1 .. n) : g[s] = f[s]
    OBVIOUS
  <2>4. \A s \in SUBSET (1 .. n) :
          g[s] = IF s = {} THEN 0 ELSE Beyond(g[s \ {Max(s)}], ns[Max(s)])
    <3> HIDE DEF g
    <3>1. QED
      BY <2>1, <2>2, <2>3 DEF SumFolds
  <2>5. Is(g)
    BY <2>4
  <2>6. QED
    BY <2>5
<1>3. Is(iter)
  <2> HIDE DEF Is
  <2>1. QED
    BY <1>2
<1> HIDE DEF iter
<1>4. \A s \in SUBSET (1 .. n) :
        iter[s] = IF s = {} THEN 0 ELSE Beyond(iter[s \ {Max(s)}], ns[Max(s)])
  BY <1>3
<1> HIDE DEF Is
<1> DEFINE st == [i \in 0 .. n |-> iter[1 .. i]]
<1>5. st[0] = 0
  <2>1. 1 .. 0 = {} /\ 1 .. 0 \in SUBSET (1 .. n) /\ 0 \in 0 .. n
    OBVIOUS
  <2>2. iter[1 .. 0] = 0
    BY <2>1, <1>4
  <2>3. QED
    BY <2>1, <2>2
<1>6. ASSUME NEW i \in 1 .. n PROVE st[i] = Beyond(st[i - 1], ns[i])
  <2> DEFINE k == i - 1
             s == 1 .. k + 1
  <2>1. k \in Nat /\ k + 1 = i /\ k \in 0 .. n /\ i \in 0 .. n
    OBVIOUS
  <2> HIDE DEF k
  <2>2. s \in SUBSET (1 .. k + 1) /\ k + 1 \in s /\ s # {}
    <3>1. k + 1 \in s
      BY <2>1
    <3>2. s \in SUBSET (1 .. k + 1)
      OBVIOUS
    <3> HIDE DEF s
    <3>3. QED
      BY <3>1, <3>2
  <2>3. s \in SUBSET (1 .. n)
    BY <2>1
  <2>4. s \ {k + 1} = 1 .. k
    BY <2>1
  <2> HIDE DEF s
  <2>5. Max(s) = k + 1
    BY <2>1, <2>2, GreatestOf
  <2>6. iter[s] = Beyond(iter[1 .. k], ns[k + 1])
    BY <1>4, <2>2, <2>3, <2>4, <2>5
  <2>7. st[i] = iter[s] /\ st[i - 1] = iter[1 .. k]
    BY <2>1 DEF s, k
  <2>8. QED
    BY <2>1, <2>6, <2>7
<1>7. DOMAIN st = 0 .. n /\ st[n] = iter[1 .. n] /\ st = [i \in 0 .. n |-> st[i]]
  OBVIOUS
<1> HIDE DEF st
<1> DEFINE T == {i \in Nat : i <= n => st[i] \in Nat}
<1>8. 0 \in T
  BY <1>5
<1>9. ASSUME NEW i \in Nat, i \in T, i + 1 <= n PROVE st[i + 1] \in Nat
  <2>1. i + 1 \in 1 .. n /\ (i + 1) - 1 = i /\ st[i] \in Nat
    BY <1>9
  <2>2. st[i + 1] = st[i] + ns[i + 1] - 1 /\ ns[i + 1] \in Nat \ {0}
    BY <1>6, <2>1 DEF Beyond
  <2>3. QED
    BY <2>1, <2>2
<1>10. \A i \in Nat : i \in T => i + 1 \in T
  BY <1>9
<1>11. \A i \in Nat : i \in T
  <2> HIDE DEF T
  <2>1. QED
    BY <1>8, <1>10, Induction
<1>12. st \in [0 .. n -> Nat]
  BY <1>7, <1>11
<1>13. Sums(ns, n, st)
  BY <1>5, <1>6, <1>12 DEF Sums, Beyond
<1>14. QED
  BY <1>1, <1>7, <1>13

(* One more record, in k buckets for its name and l for its value.          *)
LEMMA RecordAdds ==
  ASSUME NEW b \in Nat \ {0}, NEW c \in Nat \ {0}, NEW i \in Nat, NEW x \in Nat, NEW y \in Nat,
         NEW k \in Nat \ {0}, NEW l \in Nat \ {0}
  PROVE  (3 * i + b * (i + x) + c * (i + y)) + (3 + b * k + c * l)
           = 3 * (i + 1) + b * ((i + 1) + (x + k - 1)) + c * ((i + 1) + (y + l - 1))
<1>1. (i + 1) + (x + k - 1) = (i + x) + k /\ (i + 1) + (y + l - 1) = (i + y) + l
  OBVIOUS
<1>2. b * ((i + x) + k) = b * (i + x) + b * k /\ c * ((i + y) + l) = c * (i + y) + c * l
  OBVIOUS
<1>3. /\ b * (i + x) \in Nat /\ b * k \in Nat /\ c * (i + y) \in Nat /\ c * l \in Nat
  OBVIOUS
<1>4. QED
  BY <1>1, <1>2, <1>3

LEMMA SavedSize ==
  ASSUME NEW ss \in Seq(Secrets), SavedRecords(ss) \in Seq(AnyRecord)
  PROVE  LET count == COUNT_BUCKET * Buckets(Len(ss), COUNT_BUCKET)
             names == Extra([i \in DOMAIN ss |-> Buckets(2 + Len(ss[i].name), NAME_BUCKET)])
             values == Extra([i \in DOMAIN ss |-> Buckets(1 + Len(ss[i].value), VALUE_BUCKET)])
         IN  /\ count \in Nat /\ names \in Nat /\ values \in Nat
             /\ Len(EveryRecord(SavedRecords(ss))) =
                  3 * count + NAME_BUCKET * (count + names) + VALUE_BUCKET * (count + values)
<1> DEFINE m == Len(ss)
           n == PaddedLen(Len(ss), COUNT_BUCKET)
           rs == SavedRecords(ss)
           ks == [i \in DOMAIN ss |-> Buckets(2 + Len(ss[i].name), NAME_BUCKET)]
           ls == [i \in DOMAIN ss |-> Buckets(1 + Len(ss[i].value), VALUE_BUCKET)]
           B == NAME_BUCKET
           C == VALUE_BUCKET
<1>1. m \in Nat /\ n \in Nat /\ m <= n /\ DOMAIN ss = 1 .. m
      /\ n = COUNT_BUCKET * Buckets(Len(ss), COUNT_BUCKET)
  <2>1. m \in Nat /\ DOMAIN ss = 1 .. m
    OBVIOUS
  <2>2. n \in Nat /\ n - m \in Nat /\ n = COUNT_BUCKET * Buckets(Len(ss), COUNT_BUCKET)
    BY <2>1, PaddedType, BucketsAre, ConstantTypes
  <2> HIDE DEF n, m
  <2>3. QED
    BY <2>1, <2>2
<1>2. rs = [i \in 1 .. n |-> IF i <= m THEN SealedRecord(i, 0, ss[i])
                             ELSE SealedRecord(i, 1, Nothing)]
  BY DEF SavedRecords
<1>3. \A i \in 1 .. m : /\ ss[i].name \in Blob /\ ss[i].value \in Blob
                        /\ Len(ss[i].name) \in Nat /\ Len(ss[i].value) \in Nat
  <2>1. \A i \in 1 .. m : ss[i] \in Secrets
    BY <1>1
  <2>2. \A x \in Secrets : x.name \in Blob /\ x.value \in Blob
    BY TextsType DEF Secrets
  <2>3. QED
    BY <2>1, <2>2, LenNat
<1>4. B \in Nat \ {0} /\ C \in Nat \ {0} /\ B >= 2
  BY CodecAssumption
<1>5. /\ \A i \in 1 .. m : ks[i] = Buckets(2 + Len(ss[i].name), B)
      /\ \A i \in 1 .. m : ls[i] = Buckets(1 + Len(ss[i].value), C)
      /\ ks \in [1 .. m -> Nat \ {0}] /\ ls \in [1 .. m -> Nat \ {0}]
  <2>1. \A i \in 1 .. m : /\ Buckets(2 + Len(ss[i].name), B) \in Nat \ {0}
                          /\ Buckets(1 + Len(ss[i].value), C) \in Nat \ {0}
    <3> SUFFICES ASSUME NEW i \in 1 .. m
                 PROVE  /\ Buckets(2 + Len(ss[i].name), B) \in Nat \ {0}
                        /\ Buckets(1 + Len(ss[i].value), C) \in Nat \ {0}
      OBVIOUS
    <3> DEFINE x == Len(ss[i].name)
               y == Len(ss[i].value)
    <3>1. x \in Nat /\ y \in Nat
      BY <1>3
    <3> HIDE DEF x, y
    <3>2. 2 + x \in Nat /\ 1 + y \in Nat
      BY <3>1
    <3> HIDE DEF B, C
    <3>3. Buckets(2 + x, B) \in Nat \ {0} /\ Buckets(1 + y, C) \in Nat \ {0}
      BY <1>4, <3>2, BucketsAre
    <3>4. QED
      BY <3>3 DEF x, y
  <2>2. QED
    BY <1>1, <2>1
<1> HIDE DEF m, n, ks, ls, B, C
<1>6. PICK a : Sums(ks, m, a) /\ Extra(ks) = a[m]
  BY <1>1, <1>5, SumUnrolled
<1>7. PICK v : Sums(ls, m, v) /\ Extra(ls) = v[m]
  BY <1>1, <1>5, SumUnrolled
<1>8. /\ rs \in Seq(AnyRecord) /\ Len(rs) = n
      /\ \A i \in 1 .. n : rs[i] \in AnyRecord
      /\ \A i \in 1 .. n : rs[i] = IF i <= m THEN SealedRecord(i, 0, ss[i])
                                   ELSE SealedRecord(i, 1, Nothing)
  <2>1. DOMAIN rs = 1 .. n /\ rs \in Seq(AnyRecord)
    BY <1>2
  <2>2. \A i \in 1 .. n : rs[i] = IF i <= m THEN SealedRecord(i, 0, ss[i])
                                  ELSE SealedRecord(i, 1, Nothing)
    BY <1>2
  <2> HIDE DEF rs
  <2>3. Len(rs) = n
    BY <1>1, <2>1
  <2>4. QED
    BY <2>1, <2>2, <2>3
<1> HIDE DEF rs
<1>9. PICK end : Ends(rs, 0, end) /\ 0 + Len(EveryRecord(rs)) = end[Len(rs)]
  BY <1>8, RecordsPlaces
<1>10. /\ end \in [0 .. n -> Nat] /\ end[0] = 0
       /\ \A i \in 1 .. n : end[i] = end[i - 1] + Len(RecordBytes(rs[i]))
  BY <1>8, <1>9 DEF Ends
<1> DEFINE k(i) == IF i <= m THEN ks[i] ELSE 1
           l(i) == IF i <= m THEN ls[i] ELSE 1
           up(i) == IF i <= m THEN i ELSE m
<1>11. ASSUME NEW i \in 1 .. n
       PROVE  /\ k(i) \in Nat \ {0} /\ l(i) \in Nat \ {0}
              /\ Len(RecordBytes(rs[i])) = 3 + B * k(i) + C * l(i)
  <2>1. Len(RecordBytes(rs[i])) = 3 + NameLen(rs[i]) + ValueLen(rs[i])
    BY <1>8, RecordType
  <2>2. CASE i <= m
    <3>1. i \in 1 .. m /\ i \in Nat
      BY <1>1, <2>2
    <3>2. rs[i] = SealedRecord(i, 0, ss[i]) /\ ss[i].name \in Blob /\ ss[i].value \in Blob
      BY <1>3, <1>8, <2>2, <3>1
    <3>3. NameLen(rs[i]) = B * ks[i] /\ ValueLen(rs[i]) = C * ls[i]
      BY <1>5, <3>1, <3>2, SealedLen DEF B, C
    <3>4. ks[i] \in Nat \ {0} /\ ls[i] \in Nat \ {0}
      BY <1>5, <3>1
    <3>5. QED
      BY <2>1, <2>2, <3>3, <3>4
  <2>3. CASE ~(i <= m)
    <3>1. rs[i] = SealedRecord(i, 1, Nothing) /\ i \in Nat /\ 1 \in Nat
      BY <1>8, <2>3
    <3>2. Nothing.name \in Blob /\ Nothing.value \in Blob
          /\ Len(Nothing.name) = 0 /\ Len(Nothing.value) = 0
      BY SomeBlobs DEF Nothing
    <3>3. NameLen(rs[i]) = B * Buckets(2, B) /\ ValueLen(rs[i]) = C * Buckets(1, C)
      <4>1. 2 + Len(Nothing.name) = 2 /\ 1 + Len(Nothing.value) = 1
        BY <3>2
      <4>2. QED
        BY <3>1, <3>2, <4>1, SealedLen DEF B, C
    <3>4. Buckets(2, B) = 1 /\ Buckets(1, C) = 1
      <4> DEFINE one == 1
                 two == 2
      <4>1. Fits(two, B, one) /\ Fits(one, C, one) /\ one \in Nat \ {0} /\ two \in Nat
        BY <1>4 DEF Fits
      <4> HIDE DEF one, two
      <4>2. Buckets(two, B) \in Nat \ {0} /\ Fits(two, B, Buckets(two, B))
        BY <1>4, <4>1, BucketsAre
      <4>3. Buckets(one, C) \in Nat \ {0} /\ Fits(one, C, Buckets(one, C))
        BY <1>4, <4>1, BucketsAre
      <4>4. Buckets(two, B) = one /\ Buckets(one, C) = one
        <5>1. one \in Nat
          BY <4>1
        <5>2. QED
          BY <1>4, <4>1, <4>2, <4>3, <5>1, FitsOnce
      <4>5. QED
        BY <4>4 DEF one, two
    <3>5. QED
      BY <2>1, <2>3, <3>3, <3>4
  <2>4. QED
    BY <2>2, <2>3
<1>12. /\ a[0] = 0 /\ v[0] = 0
       /\ \A i \in 0 .. n : up(i) \in 0 .. m /\ a[up(i)] \in Nat /\ v[up(i)] \in Nat
       /\ \A i \in 1 .. n : /\ a[up(i)] = a[up(i - 1)] + k(i) - 1
                            /\ v[up(i)] = v[up(i - 1)] + l(i) - 1
  <2>1. /\ a \in [0 .. m -> Nat] /\ v \in [0 .. m -> Nat] /\ a[0] = 0 /\ v[0] = 0
        /\ \A i \in 1 .. m : a[i] = a[i - 1] + ks[i] - 1
        /\ \A i \in 1 .. m : v[i] = v[i - 1] + ls[i] - 1
    BY <1>6, <1>7 DEF Sums
  <2>2. \A i \in 0 .. n : up(i) \in 0 .. m
    BY <1>1
  <2>3. ASSUME NEW i \in 1 .. n
        PROVE  /\ a[up(i)] = a[up(i - 1)] + k(i) - 1
               /\ v[up(i)] = v[up(i - 1)] + l(i) - 1
    <3>1. CASE i <= m
      <4>1. i \in 1 .. m /\ i - 1 <= m
        BY <1>1, <3>1
      <4>2. QED
        BY <2>1, <3>1, <4>1
    <3>2. CASE ~(i <= m)
      <4>1. up(i) = m /\ up(i - 1) = m /\ a[m] \in Nat /\ v[m] \in Nat
        BY <1>1, <2>1, <3>2
      <4>2. QED
        BY <3>2, <4>1
    <3>3. QED
      BY <3>1, <3>2
  <2> HIDE DEF k, l, up
  <2>4. QED
    BY <2>1, <2>2, <2>3
<1> DEFINE size(i) == 3 * i + B * (i + a[up(i)]) + C * (i + v[up(i)])
           T == {i \in Nat : i <= n => end[i] = size(i)}
<1>13. 0 \in T
  <2>1. up(0) = 0
    BY <1>1
  <2>2. B * 0 = 0 /\ C * 0 = 0
    BY <1>4
  <2>3. size(0) = 0
    BY <1>12, <2>1, <2>2
  <2>4. QED
    BY <1>10, <2>3
<1>14. ASSUME NEW i \in Nat, end[i] = size(i), i + 1 <= n PROVE end[i + 1] = size(i + 1)
  <2> DEFINE x == a[up(i)]
             y == v[up(i)]
             kk == k(i + 1)
             ll == l(i + 1)
  <2>1. i + 1 \in 1 .. n /\ (i + 1) - 1 = i /\ i \in 0 .. n
    BY <1>1, <1>14
  <2>2. x \in Nat /\ y \in Nat /\ kk \in Nat \ {0} /\ ll \in Nat \ {0}
    BY <1>11, <1>12, <2>1
  <2>3. a[up(i + 1)] = x + kk - 1 /\ v[up(i + 1)] = y + ll - 1
    <3> HIDE DEF k, l, up
    <3>1. QED
      BY <1>12, <2>1
  <2>4. end[i + 1] = size(i) + (3 + B * kk + C * ll)
    <3> HIDE DEF k, l, up, size
    <3>1. QED
      BY <1>10, <1>11, <1>14, <2>1
  <2>5. size(i) = 3 * i + B * (i + x) + C * (i + y)
    OBVIOUS
  <2>6. size(i + 1) = 3 * (i + 1) + B * ((i + 1) + (x + kk - 1)) + C * ((i + 1) + (y + ll - 1))
    BY <2>3
  <2> HIDE DEF x, y, kk, ll, size, k, l, up
  <2>7. (3 * i + B * (i + x) + C * (i + y)) + (3 + B * kk + C * ll)
          = 3 * (i + 1) + B * ((i + 1) + (x + kk - 1)) + C * ((i + 1) + (y + ll - 1))
    BY <1>4, <2>2, RecordAdds
  <2>8. QED
    BY <2>4, <2>5, <2>6, <2>7
<1>15. \A i \in Nat : i \in T => i + 1 \in T
  <2> SUFFICES ASSUME NEW i \in Nat, i \in T, i + 1 <= n PROVE end[i + 1] = size(i + 1)
    OBVIOUS
  <2> HIDE DEF size
  <2>1. i <= n
    BY <1>1
  <2>2. end[i] = size(i)
    BY <2>1
  <2>3. QED
    BY <1>14, <2>2
<1>16. \A i \in Nat : i \in T
  <2> HIDE DEF T
  <2>1. QED
    BY <1>13, <1>15, Induction
<1>17. end[n] = 3 * n + B * (n + a[m]) + C * (n + v[m])
  <2>1. end[n] = size(n)
    <3> HIDE DEF size
    <3>1. QED
      BY <1>1, <1>16
  <2>2. up(n) = m
    BY <1>1
  <2>3. QED
    BY <2>1, <2>2
<1>18. Len(EveryRecord(rs)) = end[n] /\ a[m] \in Nat /\ v[m] \in Nat
  <2>1. end[n] \in Nat
    BY <1>1, <1>10
  <2>2. a[m] \in Nat /\ v[m] \in Nat
    BY <1>1, <1>6, <1>7 DEF Sums
  <2>3. EveryRecord(rs) \in Blob
    BY <1>8, RecordsPlaces
  <2>4. Len(EveryRecord(rs)) \in Nat
    BY <2>3, LenNat
  <2> DEFINE e == Len(EveryRecord(rs))
  <2>5. e \in Nat /\ 0 + e = end[n]
    BY <1>8, <1>9, <2>4
  <2> HIDE DEF e
  <2>6. e = end[n]
    BY <2>5
  <2>7. QED
    BY <2>2, <2>6 DEF e
<1>19. /\ n \in Nat /\ Extra(ks) \in Nat /\ Extra(ls) \in Nat
       /\ Len(EveryRecord(rs)) = 3 * n + B * (n + Extra(ks)) + C * (n + Extra(ls))
  BY <1>1, <1>6, <1>7, <1>17, <1>18
<1>20. QED
  BY <1>1, <1>19 DEF rs, ks, ls, B, C

(* The size of a saved file tells how many buckets its records, names and   *)
(* values take and nothing else, whatever there is to save.                 *)
THEOREM SizesAreHidden == CodecSpec => []HidesSizes
<1>1. IInv => HidesSizes
  <2> DEFINE count == COUNT_BUCKET * Buckets(Len(secrets), COUNT_BUCKET)
             ks == Extra([i \in DOMAIN secrets |->
                            Buckets(2 + Len(secrets[i].name), NAME_BUCKET)])
             ls == Extra([i \in DOMAIN secrets |->
                            Buckets(1 + Len(secrets[i].value), VALUE_BUCKET)])
             rs == SavedRecords(secrets)
  <2> SUFFICES ASSUME IInv, Whole, file = SavedFile(secrets)
               PROVE  Len(data) = Len(FileBytes(NewHeader(3), <<>>)) + 3 * count
                                    + NAME_BUCKET * (count + ks) + VALUE_BUCKET * (count + ls)
    BY DEF HidesSizes
  <2>1. secrets \in Seq(Secrets) /\ rs \in Seq(AnyRecord)
    BY DEF IInv, Written, SavedFile
  <2>2. /\ count \in Nat /\ ks \in Nat /\ ls \in Nat
        /\ Len(EveryRecord(rs)) = 3 * count + NAME_BUCKET * (count + ks)
                                    + VALUE_BUCKET * (count + ls)
    BY <2>1, SavedSize
  <2> DEFINE h == PutBytes(HeaderBytes(NewHeader(3)))
  <2>3. h \in Blob
    BY NewHeaderType, HeaderType, PutBytesType
  <2>4. data = h \o <<Len(rs)>> \o EveryRecord(rs)
    BY DEF Whole, BytesOf, SavedFile, FileBytes
  <2>5. FileBytes(NewHeader(3), <<>>) = h \o <<0>> \o <<>>
    <3>1. EveryRecord(<<>>) = <<>> /\ Len(<<>>) = 0
      BY DEF EveryRecord, FlattenSeq
    <3>2. QED
      BY <3>1 DEF FileBytes
  <2> HIDE DEF h, rs, count, ks, ls
  <2>6. EveryRecord(rs) \in Blob /\ Len(rs) \in Nat
    <3>1. 0 \in Nat
      OBVIOUS
    <3>2. EveryRecord(rs) \in Blob
      BY <2>1, <3>1, RecordsPlaces
    <3>3. QED
      BY <2>1, <3>2
  <2> DEFINE q == EveryRecord(rs)
             z == Len(rs)
             nl == Len(h)
             ql == Len(q)
  <2>7. q \in Blob /\ z \in Nat /\ data = h \o <<z>> \o q
    BY <2>4, <2>6
  <2> HIDE DEF q, z
  <2>8. /\ Len(h \o <<z>> \o q) = nl + 1 + ql
        /\ Len(h \o <<0>> \o <<>>) = nl + 1 /\ nl \in Nat /\ ql \in Nat
    BY <2>3, <2>7 DEF Blob
  <2>9. ql = 3 * count + NAME_BUCKET * (count + ks) + VALUE_BUCKET * (count + ls)
    BY <2>2 DEF q
  <2> HIDE DEF nl, ql
  <2> DEFINE x == NAME_BUCKET * (count + ks)
             y == VALUE_BUCKET * (count + ls)
  <2>10. x \in Nat /\ y \in Nat
    BY <2>2, ConstantTypes
  <2>11. Len(data) = nl + 1 + ql /\ Len(FileBytes(NewHeader(3), <<>>)) = nl + 1
         /\ ql = 3 * count + x + y
    BY <2>5, <2>7, <2>8, <2>9
  <2> HIDE DEF x, y
  <2>12. Len(data) = Len(FileBytes(NewHeader(3), <<>>)) + 3 * count + x + y
    BY <2>2, <2>8, <2>10, <2>11
  <2>13. QED
    BY <2>12 DEF x, y
<1>2. QED
  BY <1>1, CodecInduction, PTL

=============================================================================
