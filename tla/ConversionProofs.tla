-------------------------- MODULE ConversionProofs --------------------------
(***************************************************************************)
(* Proofs about the magic byte and about format conversion: facts about    *)
(* the operators, for all bytes, keys, keyspaces and formats.              *)
(***************************************************************************)
EXTENDS Conversion, TLAPS

(* The shifts of the magic byte as factors.                                *)
LEMMA Units == ContentTypeUnit = 4 /\ EncryptionUnit = 32
BY DEF ContentTypeUnit, EncryptionUnit, ContentEncodingMax, ContentTypeMax

(* The byte form loses nothing: NewFrom reads back what Get wrote, for     *)
(* every combination of the three fields.                                  *)
THEOREM RoundTrip ==
    ASSUME NEW m \in MagicBytes
    PROVE  Get(m) \in Byte /\ NewFrom(Get(m)) = m
<1> DEFINE c == m.cev  t == m.ctv  e == m.encryption
<1>1. c \in 0 .. 3 /\ t \in 0 .. 7 /\ e \in 0 .. 3
  BY DEF MagicBytes, ContentEncodingMax, ContentTypeMax, EncryptionMax
<1>2. m = [cev |-> c, ctv |-> t, encryption |-> e]
  BY DEF MagicBytes
<1> DEFINE n == e * 32 + t * 4 + c
<1>3. n \in 0 .. 255
  BY <1>1
<1>4. Get(m) = n
  BY <1>1, <1>3, Units DEF Get
<1>5. n % 4 = c /\ (n \div 4) % 8 = t /\ (n \div 32) % 4 = e
  <2>1. n \div 4 = e * 8 + t /\ n % 4 = c
    BY <1>1
  <2>2. n \div 32 = e
    BY <1>1
  <2> QED BY <1>1, <2>1, <2>2
<1>6. NewFrom(n) = [cev |-> c, ctv |-> t, encryption |-> e]
  BY <1>5, Units DEF NewFrom, NewMagicByte, ContentTypeMax, EncryptionMax
<1> QED BY <1>2, <1>3, <1>4, <1>6 DEF Byte

(* What New makes of any headers is a magic byte.                          *)
LEMMA NewType ==
    ASSUME NEW ce, NEW ct, NEW encryption \in 0 .. 1
    PROVE  New(ce, ct, encryption) \in MagicBytes
BY DEF New, NewMagicByte, contentEncodingCode, contentTypeCode, MagicBytes,
       ContentEncodingMax, ContentTypeMax, EncryptionMax, ContentEncodingNone,
       ContentEncodingZstd, ContentEncodingZlib, ContentTypeUnknown, ContentTypeJson,
       ContentTypeProtoBuf

-----------------------------------------------------------------------------
(* Sealing and unsealing, compressing and decompressing are inverse.       *)
LEMMA Unseal ==
    ASSUME NEW key, NEW encryption, NEW d, ~Encrypt(key, encryption, d).err
    PROVE  Decrypt(key, encryption, Encrypt(key, encryption, d).data) = Ok(d)
<1>1. encryption = 0 \/ encryption = 1
  BY DEF Encrypt, Fail
<1>2. CASE encryption = 0
  <2>1. Encrypt(key, encryption, d).data = d
    BY <1>2 DEF Encrypt, Ok
  <2>2. Decrypt(key, encryption, d) = Ok(d)
    BY <1>2 DEF Decrypt
  <2> QED BY <2>1, <2>2
<1>3. CASE encryption = 1
  <2>1. Encrypt(key, encryption, d).data = Sealed(key, d)
    BY <1>3 DEF Encrypt, AesEncrypt, Ok
  <2>2. Decrypt(key, encryption, Sealed(key, d)) = AesDecrypt(key, Sealed(key, d))
    BY <1>3 DEF Decrypt
  <2> QED BY <2>1, <2>2 DEF AesDecrypt, Sealed
<1> QED BY <1>1, <1>2, <1>3

(* Decompressing what Compress made gives back its input.                  *)
LEMMA Inflate ==
    ASSUME NEW cev, NEW d, ~Compress(cev, d).err
    PROVE  Decompress(cev, Compress(cev, d).data) = Ok(d)
<1> USE DEF ContentEncodingNone, ContentEncodingZstd
<1>1. cev = 0 \/ cev = 1
  BY DEF Compress, Fail
<1>2. CASE cev = 0
  <2>1. Compress(cev, d).data = d
    BY <1>2 DEF Compress, Ok
  <2>2. Decompress(cev, d) = Ok(d)
    BY <1>2 DEF Decompress
  <2> QED BY <2>1, <2>2
<1>3. CASE cev = 1
  <2>1. Compress(cev, d).data = Compressed("zstd", d)
    BY <1>3 DEF Compress, Ok
  <2>2. Compressed("zstd", d).layer = "zstd" /\ Compressed("zstd", d).of = d
    BY DEF Compressed
  <2>3. Decompress(cev, Compressed("zstd", d)) = Ok(d)
    BY <1>3, <2>2 DEF Decompress
  <2> QED BY <2>1, <2>3
<1> QED BY <1>1, <1>2, <1>3

(* A result without an error is Ok of its data.                            *)
LEMMA PeelResult ==
    ASSUME NEW key, NEW mb, NEW d, ~Peel(key, mb, d).err
    PROVE  Peel(key, mb, d) = Ok(Peel(key, mb, d).data)
<1> DEFINE plain == Decrypt(key, mb.encryption, d)
<1>1. Peel(key, mb, d) = Decompress(mb.cev, plain.data)
  BY DEF Peel
<1>2. ASSUME NEW cev, NEW x, ~Decompress(cev, x).err
      PROVE Decompress(cev, x) = Ok(Decompress(cev, x).data)
  <2>1. \/ Decompress(cev, x) = Ok(x)
        \/ Decompress(cev, x) = Ok(x.of)
        \/ Decompress(cev, x) = Ok(Empty)
        \/ Decompress(cev, x) = Fail(x)
    BY DEF Decompress
  <2> QED BY <1>2, <2>1 DEF Ok, Fail
<1> QED BY <1>1, <1>2

(* Peel undoes Wrap under the same magic byte and key.                     *)
LEMMA PeelWrap ==
    ASSUME NEW key, NEW mb, NEW d, ~Wrap(key, mb, d).err
    PROVE  Peel(key, mb, Wrap(key, mb, d).data) = Ok(d)
<1> DEFINE packed == Compress(mb.cev, d)
<1>1. ~packed.err /\ Wrap(key, mb, d) = Encrypt(key, mb.encryption, packed.data)
  BY DEF Wrap
<1>2. Decrypt(key, mb.encryption, Wrap(key, mb, d).data) = Ok(packed.data)
  BY <1>1, Unseal
<1>3. Decompress(mb.cev, packed.data) = Ok(d)
  BY <1>1, Inflate
<1> QED BY <1>2, <1>3 DEF Peel, Ok

(* What Encrypt returns under encryption 1 is sealed with the key.         *)
LEMMA EncryptSeals ==
    ASSUME NEW key, NEW d
    PROVE  LET s == Encrypt(key, 1, d).data IN s.layer = "gcm" /\ s.key = key
BY DEF Encrypt, AesEncrypt, Sealed, Ok

(* A successful Wrap to an encrypted format ends in the sealing.           *)
LEMMA WrapSeals ==
    ASSUME NEW key, NEW mb, NEW d, mb.encryption = 1, ~Wrap(key, mb, d).err
    PROVE  LET s == Wrap(key, mb, d).data IN s.layer = "gcm" /\ s.key = key
<1> DEFINE packed == Compress(mb.cev, d)
<1>1. Wrap(key, mb, d) = Encrypt(key, 1, packed.data)
  BY DEF Wrap
<1> QED BY <1>1, EncryptSeals

-----------------------------------------------------------------------------
(* The branches of Convert.                                                *)
LEMMA ConvertCases ==
    ASSUME NEW key, NEW keyspace, NEW d,
           NEW inMB \in MagicBytes, NEW outMB \in MagicBytes,
           ~Convert(key, keyspace, inMB, outMB, d).err
    PROVE  LET res == Convert(key, keyspace, inMB, outMB, d)
               out == Target(inMB, outMB)
           IN  /\ res.magicByte = out
               /\ \/ /\ inMB.ctv # out.ctv
                     /\ res.data = ConvertType(key, keyspace, inMB, out, d).data
                     /\ ~ConvertType(key, keyspace, inMB, out, d).err
                  \/ /\ inMB.ctv = out.ctv /\ inMB.cev # out.cev
                     /\ res.data = ConvertEncoding(key, inMB, out, d).data
                     /\ ~ConvertEncoding(key, inMB, out, d).err
                  \/ /\ inMB.ctv = out.ctv /\ inMB.cev = out.cev
                     /\ inMB.encryption # out.encryption
                     /\ res.data = ConvertEncryption(key, inMB, out, d).data
                     /\ ~ConvertEncryption(key, inMB, out, d).err
                  \/ inMB = out /\ res.data = d
<1> DEFINE out == Target(inMB, outMB)
<1>1. out \in MagicBytes /\ (out.ctv = ContentTypeUnknown => inMB.ctv = ContentTypeUnknown)
  BY DEF Target, MagicBytes
<1>2. CASE inMB.ctv # out.ctv
  <2>1. out.ctv # ContentTypeUnknown
    BY <1>1, <1>2
  <2> QED BY <1>2, <2>1 DEF Convert
<1>3. CASE inMB.ctv = out.ctv /\ inMB.cev # out.cev
  BY <1>3 DEF Convert
<1>4. CASE inMB.ctv = out.ctv /\ inMB.cev = out.cev /\ inMB.encryption # out.encryption
  BY <1>4 DEF Convert
<1>5. CASE inMB.ctv = out.ctv /\ inMB.cev = out.cev /\ inMB.encryption = out.encryption
  <2>1. inMB = out
    BY <1>1, <1>5 DEF MagicBytes
  <2> QED BY <1>5, <2>1 DEF Convert, Ok
<1> QED BY <1>2, <1>3, <1>4, <1>5

(* Whatever the conversion to a sealed format does, the result is sealed   *)
(* with the process's key and its magic byte says so: no path of Convert   *)
(* that succeeds forgets the encryption.                                   *)
THEOREM ConvertSeals ==
    ASSUME NEW key, NEW keyspace, NEW d,
           NEW inMB \in MagicBytes, NEW outMB \in MagicBytes,
           inMB.encryption = 0,
           ~Convert(key, keyspace, inMB, outMB, d).err
    PROVE  LET res == Convert(key, keyspace, inMB, outMB, d)
           IN  /\ res.magicByte \in MagicBytes
               /\ res.magicByte.encryption = outMB.encryption
               /\ outMB.encryption = 1 => res.data.layer = "gcm" /\ res.data.key = key
<1> DEFINE res == Convert(key, keyspace, inMB, outMB, d)
           out == Target(inMB, outMB)
<1>1. out \in MagicBytes /\ out.encryption = outMB.encryption
  BY DEF Target, MagicBytes
<1>2. res.magicByte = out
  BY ConvertCases
<1>3. ASSUME outMB.encryption = 1 PROVE res.data.layer = "gcm" /\ res.data.key = key
  <2>1. out.encryption = 1 /\ inMB # out
    BY <1>1, <1>3
  <2>2. CASE ~ConvertType(key, keyspace, inMB, out, d).err
             /\ res.data = ConvertType(key, keyspace, inMB, out, d).data
    <3> DEFINE pb == Unpack(key, keyspace, inMB, d)
               text == Marshal(out.ctv, pb.data)
    <3>1. ConvertType(key, keyspace, inMB, out, d) = Wrap(key, out, text.data)
      BY <2>2 DEF ConvertType, Pack
    <3> QED BY <2>1, <2>2, <3>1, WrapSeals
  <2>3. CASE ~ConvertEncoding(key, inMB, out, d).err
             /\ res.data = ConvertEncoding(key, inMB, out, d).data
    <3> DEFINE opened == Peel(key, inMB, d)
    <3>1. ConvertEncoding(key, inMB, out, d) = Wrap(key, out, opened.data)
      BY <2>3 DEF ConvertEncoding
    <3> QED BY <2>1, <2>3, <3>1, WrapSeals
  <2>4. CASE ~ConvertEncryption(key, inMB, out, d).err
             /\ res.data = ConvertEncryption(key, inMB, out, d).data
    <3> DEFINE plain == Decrypt(key, inMB.encryption, d)
    <3>1. ConvertEncryption(key, inMB, out, d) = Encrypt(key, 1, plain.data)
      BY <2>1, <2>4 DEF ConvertEncryption
    <3> QED BY <2>4, <3>1, EncryptSeals
  <2> QED BY <2>1, <2>2, <2>3, <2>4, ConvertCases
<1> QED BY <1>1, <1>2, <1>3

(* A conversion that keeps the content type keeps the content: what the    *)
(* result decrypts and decompresses to, by its own magic byte, is what the *)
(* input did.                                                              *)
THEOREM ConvertKeepsContent ==
    ASSUME NEW key, NEW keyspace, NEW d,
           NEW inMB \in MagicBytes, NEW outMB \in MagicBytes,
           ~Convert(key, keyspace, inMB, outMB, d).err,
           Convert(key, keyspace, inMB, outMB, d).magicByte.ctv = inMB.ctv
    PROVE  LET res == Convert(key, keyspace, inMB, outMB, d)
           IN  Peel(key, res.magicByte, res.data) = Peel(key, inMB, d)
<1> DEFINE res == Convert(key, keyspace, inMB, outMB, d)
           out == Target(inMB, outMB)
<1>1. res.magicByte = out /\ inMB.ctv = out.ctv
  BY ConvertCases
<1>2. CASE ~ConvertEncoding(key, inMB, out, d).err
           /\ res.data = ConvertEncoding(key, inMB, out, d).data
  <2> DEFINE opened == Peel(key, inMB, d)
  <2>1. ~opened.err /\ ConvertEncoding(key, inMB, out, d) = Wrap(key, out, opened.data)
    BY <1>2 DEF ConvertEncoding
  <2>2. Peel(key, out, res.data) = Ok(opened.data)
    BY <1>2, <2>1, PeelWrap
  <2>3. opened = Ok(opened.data)
    BY <2>1, PeelResult
  <2> QED BY <1>1, <2>2, <2>3
<1>3. CASE /\ ~ConvertEncryption(key, inMB, out, d).err
           /\ res.data = ConvertEncryption(key, inMB, out, d).data
           /\ inMB.cev = out.cev
  <2> DEFINE plain == Decrypt(key, inMB.encryption, d)
  <2>1. ~plain.err
        /\ ConvertEncryption(key, inMB, out, d) = Encrypt(key, out.encryption, plain.data)
    BY <1>3 DEF ConvertEncryption
  <2>2. Decrypt(key, out.encryption, res.data) = Ok(plain.data)
    BY <1>3, <2>1, Unseal
  <2> QED BY <1>1, <1>3, <2>1, <2>2 DEF Peel, Ok
<1>4. CASE inMB = out /\ res.data = d
  BY <1>1, <1>4
<1> QED BY <1>1, <1>2, <1>3, <1>4, ConvertCases

-----------------------------------------------------------------------------
(* Bytes d under magic byte m, opened with key, mean what d0 under m0,     *)
(* opened with key0, mean: exactly, up to compression, or in their fields. *)
Means(key, m, d, key0, m0, d0, exact) ==
    /\ ~Decrypt(key, m.encryption, d).err
    /\ ~Decrypt(key0, m0.encryption, d0).err
    /\ exact => \/ Peel(key, m, d) = Peel(key0, m0, d0) /\ ~Peel(key, m, d).err
                \/ /\ m.cev = m0.cev
                   /\ Decrypt(key, m.encryption, d) = Decrypt(key0, m0.encryption, d0)
    /\ ~exact => /\ ~UnPackByPB(key, m, d).err
                 /\ ~UnPackByPB(key0, m0, d0).err
                 /\ UnPackByPB(key, m, d).data.val = UnPackByPB(key0, m0, d0).data.val

(* What one conversion keeps: the bytes within a content type, the fields  *)
(* across types.                                                           *)
Keeps(key, m, d, key0, m0, d0) == Means(key, m, d, key0, m0, d0, m.ctv = m0.ctv)

(* Within a content type the decompressed bytes, or the same error, stay.  *)
LEMMA KeepsPeel ==
    ASSUME NEW key, NEW m, NEW d, NEW key0, NEW m0, NEW d0,
           Keeps(key, m, d, key0, m0, d0), m.ctv = m0.ctv
    PROVE  /\ Peel(key, m, d) = Peel(key0, m0, d0)
           /\ UnPackByPB(key, m, d) = UnPackByPB(key0, m0, d0)
<1>1. Peel(key, m, d) = Peel(key0, m0, d0)
  BY DEF Keeps, Means, Peel
<1> QED BY <1>1 DEF UnPackByPB

(* The fields stay readable, and the same.                                 *)
LEMMA KeepsFields ==
    ASSUME NEW key, NEW m, NEW d, NEW key0, NEW m0, NEW d0,
           Keeps(key, m, d, key0, m0, d0),
           ~UnPackByPB(key0, m0, d0).err \/ ~UnPackByPB(key, m, d).err
    PROVE  /\ ~UnPackByPB(key, m, d).err /\ ~UnPackByPB(key0, m0, d0).err
           /\ UnPackByPB(key, m, d).data.val = UnPackByPB(key0, m0, d0).data.val
<1>1. CASE m.ctv = m0.ctv
  BY <1>1, KeepsPeel
<1>2. CASE m.ctv # m0.ctv
  BY <1>2 DEF Keeps, Means
<1> QED BY <1>1, <1>2

(* Two conversions in a row: exact when neither changed the content type.  *)
LEMMA KeepsTwice ==
    ASSUME NEW key, NEW m, NEW d, NEW key1, NEW m1, NEW d1, NEW key0, NEW m0, NEW d0,
           Keeps(key, m, d, key1, m1, d1), Keeps(key1, m1, d1, key0, m0, d0)
    PROVE  Means(key, m, d, key0, m0, d0, m0.ctv = m1.ctv /\ m1.ctv = m.ctv)
<1>1. ~Decrypt(key, m.encryption, d).err /\ ~Decrypt(key0, m0.encryption, d0).err
  BY DEF Keeps, Means
<1>2. CASE m0.ctv = m1.ctv /\ m1.ctv = m.ctv
  <2>1. Peel(key, m, d) = Peel(key1, m1, d1) /\ Peel(key1, m1, d1) = Peel(key0, m0, d0)
    BY <1>2, KeepsPeel
  <2>2. \/ ~Peel(key, m, d).err
        \/ /\ m.cev = m0.cev
           /\ Decrypt(key, m.encryption, d) = Decrypt(key0, m0.encryption, d0)
    BY <1>2, <2>1 DEF Keeps, Means
  <2> QED BY <1>1, <1>2, <2>1, <2>2 DEF Means
<1>3. CASE m0.ctv # m1.ctv
  <2>1. /\ ~UnPackByPB(key1, m1, d1).err /\ ~UnPackByPB(key0, m0, d0).err
        /\ UnPackByPB(key1, m1, d1).data.val = UnPackByPB(key0, m0, d0).data.val
    BY <1>3 DEF Keeps, Means
  <2>2. /\ ~UnPackByPB(key, m, d).err
        /\ UnPackByPB(key, m, d).data.val = UnPackByPB(key1, m1, d1).data.val
    BY <2>1, KeepsFields
  <2> QED BY <1>1, <1>3, <2>1, <2>2 DEF Means
<1>4. CASE m1.ctv # m.ctv
  <2>1. /\ ~UnPackByPB(key, m, d).err /\ ~UnPackByPB(key1, m1, d1).err
        /\ UnPackByPB(key, m, d).data.val = UnPackByPB(key1, m1, d1).data.val
    BY <1>4 DEF Keeps, Means
  <2>2. /\ ~UnPackByPB(key0, m0, d0).err
        /\ UnPackByPB(key1, m1, d1).data.val = UnPackByPB(key0, m0, d0).data.val
    BY <2>1, KeepsFields
  <2> QED BY <1>1, <1>4, <2>1, <2>2 DEF Means
<1> QED BY <1>2, <1>3, <1>4

(* What Marshal writes, Unmarshal reads: the fields survive either format. *)
LEMMA MarshalKeeps ==
    ASSUME NEW ctv, NEW pb, ~Marshal(ctv, pb).err
    PROVE  LET back == Unmarshal(ctv, Marshal(ctv, pb).data)
           IN  ~back.err /\ back.data.val = pb.val
<1> USE DEF ContentTypeJson, ContentTypeProtoBuf
<1>1. ctv = 1 \/ ctv = 2
  BY DEF Marshal, Fail
<1>2. CASE ctv = 1
  <2>1. Marshal(ctv, pb) = Ok(Plain("json", pb.val, FALSE))
    BY <1>2 DEF Marshal
  <2>2. Marshal(ctv, pb).data = Plain("json", pb.val, FALSE)
    BY <2>1 DEF Ok
  <2> QED BY <1>2, <2>2 DEF Unmarshal, Plain, Ok
<1>3. CASE ctv = 2 /\ pb.val = NoFields /\ ~pb.extra
  <2>1. Marshal(ctv, pb).data = Empty
    BY <1>3 DEF Marshal, Ok
  <2> QED BY <1>3, <2>1 DEF Unmarshal, Empty, Ok
<1>4. CASE ctv = 2 /\ ~(pb.val = NoFields /\ ~pb.extra)
  <2>1. Marshal(ctv, pb).data = Plain("protobuf", pb.val, pb.extra)
    BY <1>4 DEF Marshal, Ok
  <2> QED BY <1>4, <2>1 DEF Unmarshal, Plain, Ok
<1> QED BY <1>1, <1>2, <1>3, <1>4

(* What Wrap makes can be decrypted.                                       *)
LEMMA WrapOpens ==
    ASSUME NEW key, NEW mb, NEW d, ~Wrap(key, mb, d).err
    PROVE  ~Decrypt(key, mb.encryption, Wrap(key, mb, d).data).err
<1> DEFINE packed == Compress(mb.cev, d)
<1>1. ~packed.err /\ Wrap(key, mb, d) = Encrypt(key, mb.encryption, packed.data)
  BY DEF Wrap
<1>2. Decrypt(key, mb.encryption, Wrap(key, mb, d).data) = Ok(packed.data)
  BY <1>1, Unseal
<1> QED BY <1>2 DEF Ok

(* What can be peeled can be decrypted.                                    *)
LEMMA PeelOpens ==
    ASSUME NEW key, NEW mb, NEW d, ~Peel(key, mb, d).err
    PROVE  ~Decrypt(key, mb.encryption, d).err
BY DEF Peel

(* Every conversion that decrypts its input, or has nothing to decrypt,    *)
(* keeps what the bytes mean, whichever of the four branches it takes.     *)
THEOREM ConvertKeeps ==
    ASSUME NEW key, NEW keyspace, NEW d,
           NEW inMB \in MagicBytes, NEW outMB \in MagicBytes,
           inMB.encryption = 0 \/ outMB.encryption = 0,
           ~Convert(key, keyspace, inMB, outMB, d).err
    PROVE  LET res == Convert(key, keyspace, inMB, outMB, d)
           IN  Keeps(key, res.magicByte, res.data, key, inMB, d)
<1> DEFINE res == Convert(key, keyspace, inMB, outMB, d)
           out == Target(inMB, outMB)
<1>1. res.magicByte = out /\ out.encryption = outMB.encryption
  BY ConvertCases DEF Target, MagicBytes
<1>2. CASE /\ inMB.ctv # out.ctv
           /\ ~ConvertType(key, keyspace, inMB, out, d).err
           /\ res.data = ConvertType(key, keyspace, inMB, out, d).data
  <2> DEFINE pb   == UnPackByPB(key, inMB, d)
             text == Marshal(out.ctv, pb.data)
  <2>1. /\ ~pb.err /\ ~text.err
        /\ ConvertType(key, keyspace, inMB, out, d) = Wrap(key, out, text.data)
    BY <1>2 DEF ConvertType, Pack, Unpack, Fail
  <2>2. Peel(key, out, res.data) = Ok(text.data)
    BY <1>2, <2>1, PeelWrap
  <2>3. ~Decrypt(key, out.encryption, res.data).err
    BY <1>2, <2>1, WrapOpens
  <2>4. ~Decrypt(key, inMB.encryption, d).err
    BY <2>1, PeelOpens DEF UnPackByPB
  <2>5. UnPackByPB(key, out, res.data) = Unmarshal(out.ctv, text.data)
    BY <2>2 DEF UnPackByPB, Ok
  <2>6. /\ ~UnPackByPB(key, out, res.data).err
        /\ UnPackByPB(key, out, res.data).data.val = pb.data.val
    BY <2>1, <2>5, MarshalKeeps
  <2> QED BY <1>1, <1>2, <2>1, <2>3, <2>4, <2>6 DEF Keeps, Means
<1>3. CASE /\ inMB.ctv = out.ctv
           /\ ~ConvertEncoding(key, inMB, out, d).err
           /\ res.data = ConvertEncoding(key, inMB, out, d).data
  <2> DEFINE opened == Peel(key, inMB, d)
  <2>1. ~opened.err /\ ConvertEncoding(key, inMB, out, d) = Wrap(key, out, opened.data)
    BY <1>3 DEF ConvertEncoding
  <2>2. Peel(key, out, res.data) = opened
    BY <1>3, <2>1, PeelWrap, PeelResult
  <2>3. ~Decrypt(key, out.encryption, res.data).err
    BY <1>3, <2>1, WrapOpens
  <2>4. ~Decrypt(key, inMB.encryption, d).err
    BY <2>1, PeelOpens
  <2> QED BY <1>1, <1>3, <2>1, <2>2, <2>3, <2>4 DEF Keeps, Means
<1>4. CASE /\ inMB.ctv = out.ctv /\ inMB.cev = out.cev
           /\ ~ConvertEncryption(key, inMB, out, d).err
           /\ res.data = ConvertEncryption(key, inMB, out, d).data
  <2> DEFINE plain == Decrypt(key, inMB.encryption, d)
  <2>1. ~plain.err
        /\ ConvertEncryption(key, inMB, out, d) = Encrypt(key, out.encryption, plain.data)
    BY <1>4 DEF ConvertEncryption
  <2>2. Decrypt(key, out.encryption, res.data) = Ok(plain.data)
    BY <1>4, <2>1, Unseal
  <2>3. plain = Ok(plain.data)
    <3>1. plain = Ok(d) \/ plain = Ok(d.of) \/ plain = Fail(d)
      BY DEF Decrypt, AesDecrypt
    <3>2. ~(plain = Fail(d))
      BY <2>1 DEF Fail
    <3>3. Ok(d).data = d /\ Ok(d.of).data = d.of
      BY DEF Ok
    <3> HIDE DEF plain
    <3> QED BY <3>1, <3>2, <3>3
  <2> QED BY <1>1, <1>4, <2>1, <2>2, <2>3 DEF Keeps, Means
<1>5. CASE inMB = out /\ res.data = d
  <2>1. inMB.encryption = 0
    BY <1>1, <1>5
  <2> QED BY <1>1, <1>5, <2>1 DEF Keeps, Means, Decrypt, Ok
<1> QED BY <1>2, <1>3, <1>4, <1>5, ConvertCases

(* Bytes whose fields can be read convert to every supported format.       *)
THEOREM ConvertReads ==
    ASSUME NEW key, NEW keyspace \in pbMessage, NEW d, NEW inMB \in MagicBytes,
           ~UnPackByPB(key, inMB, d).err,
           NEW ctv \in {ContentTypeJson, ContentTypeProtoBuf},
           NEW cev \in {ContentEncodingNone, ContentEncodingZstd}
    PROVE  ~Convert(key, keyspace, inMB, NewMagicByte(cev, ctv, 0), d).err
<1> DEFINE out == NewMagicByte(cev, ctv, 0)
<1>1. /\ Target(inMB, out) = out /\ out.ctv # ContentTypeUnknown
      /\ out.ctv = ctv /\ out.cev = cev /\ out.encryption = 0
  BY DEF Target, NewMagicByte, ContentTypeJson, ContentTypeProtoBuf, ContentTypeUnknown
<1> HIDE DEF out
<1>2. ~Peel(key, inMB, d).err
  BY DEF UnPackByPB
<1>3. ~Decrypt(key, inMB.encryption, d).err
  BY <1>2, PeelOpens
<1>4. ASSUME NEW x PROVE ~Wrap(key, out, x).err
  BY <1>1 DEF Wrap, Compress, Encrypt, Ok, ContentEncodingNone, ContentEncodingZstd
<1>5. ~ConvertType(key, keyspace, inMB, out, d).err
  <2> DEFINE pb == UnPackByPB(key, inMB, d)
  <2>1. ConvertType(key, keyspace, inMB, out, d) = Pack(key, out, pb.data)
    BY DEF ConvertType, Unpack
  <2>2. ~Marshal(out.ctv, pb.data).err
    BY <1>1 DEF Marshal, Ok, ContentTypeJson, ContentTypeProtoBuf
  <2> QED BY <1>4, <2>1, <2>2 DEF Pack
<1>6. ~ConvertEncoding(key, inMB, out, d).err
  BY <1>2, <1>4 DEF ConvertEncoding
<1>7. ~ConvertEncryption(key, inMB, out, d).err
  BY <1>1, <1>3 DEF ConvertEncryption, Encrypt, Ok
<1>8. ~Convert(key, keyspace, inMB, out, d).err
  BY <1>1, <1>5, <1>6, <1>7 DEF Convert, Ok
<1> QED BY <1>8 DEF out
=============================================================================
