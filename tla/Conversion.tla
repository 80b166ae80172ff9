------------------------------ MODULE Conversion ------------------------------
(***************************************************************************)
(* Format conversion of record bytes (internal/conversion) and the cipher  *)
(* under it (internal/rediscrypto).  Pure operators.                       *)
(*                                                                         *)
(* Bytes are terms that say what the bytes really are, whatever a magic    *)
(* byte or an HTTP header claims about them:                               *)
(*   Plain(fmt, val, extra)  one serialised message.  val stands for the   *)
(*       fields the keyspace's protobuf definition knows, extra tells      *)
(*       whether there are fields it does not know; fmt "other" is         *)
(*       anything that no unmarshaller accepts;                            *)
(*   Compressed(alg, d)      the zstd (or zlib) compression of d;          *)
(*   Sealed(key, d)          the AES-GCM sealing of d under key;           *)
(*   Empty                   no bytes at all: protobuf's encoding of the   *)
(*       message without fields, and what zstd decodes to itself;          *)
(*   Text                    a few characters that are none of the above.  *)
(* A result is [err, data]; err is TRUE where the code returns an error.   *)
(***************************************************************************)
EXTENDS MagicByte

CONSTANT pbMessage  \* the keyspaces that have a protobuf definition

Plain(fmt, val, extra) ==
    [layer |-> "plain", fmt |-> fmt, val |-> val, extra |-> extra]
Compressed(alg, d) == [layer |-> alg, of |-> d]
Sealed(key, d)     == [layer |-> "gcm", key |-> key, of |-> d]
Empty              == [layer |-> "empty"]
Text               == [layer |-> "text"]
NoFields           == "no fields"

Ok(d)   == [err |-> FALSE, data |-> d]
Fail(d) == [err |-> TRUE, data |-> d]

(* rediscrypto.Encrypt, rediscrypto.Decrypt: AES-GCM with the process's    *)
(* key.  Opening authenticates, so it fails on anything not sealed with    *)
(* that key, too short an input included.                                  *)
AesEncrypt(key, plaintext)  == Ok(Sealed(key, plaintext))
AesDecrypt(key, ciphertext) ==
    IF ciphertext.layer = "gcm" /\ ciphertext.key = key
    THEN Ok(ciphertext.of) ELSE Fail(ciphertext)

Decrypt(key, encryption, inData) ==
    CASE encryption = 0 -> Ok(inData)
      [] encryption = 1 -> AesDecrypt(key, inData)
      [] OTHER          -> Fail(inData)

Encrypt(key, encryption, inData) ==
    CASE encryption = 0 -> Ok(inData)
      [] encryption = 1 -> AesEncrypt(key, inData)
      [] OTHER          -> Fail(inData)

Decompress(cev, inData) ==
    CASE cev = ContentEncodingNone -> Ok(inData)
      [] cev = ContentEncodingZstd -> CASE inData.layer = "zstd"  -> Ok(inData.of)
                                        [] inData.layer = "empty" -> Ok(Empty)
                                        [] OTHER                  -> Fail(inData)
      [] OTHER                     -> Fail(inData)

Compress(cev, inData) ==
    CASE cev = ContentEncodingNone -> Ok(inData)
      [] cev = ContentEncodingZstd -> Ok(Compressed("zstd", inData))
      [] OTHER                     -> Fail(inData)

(* protojson discards the fields it does not know (DiscardUnknown on the   *)
(* way in, MarshalOptions on the way out); proto keeps them.               *)
Unmarshal(ctv, inData) ==
    CASE ctv = ContentTypeProtoBuf /\ inData.layer = "empty" ->
           Ok([val |-> NoFields, extra |-> FALSE])
      [] ctv = ContentTypeProtoBuf /\ inData.layer = "plain" ->
           IF inData.fmt = "protobuf"
           THEN Ok([val |-> inData.val, extra |-> inData.extra]) ELSE Fail(inData)
      [] ctv = ContentTypeJson /\ inData.layer = "plain" ->
           IF inData.fmt = "json"
           THEN Ok([val |-> inData.val, extra |-> FALSE]) ELSE Fail(inData)
      [] OTHER -> Fail(inData)

Marshal(ctv, pb) ==
    CASE ctv = ContentTypeProtoBuf ->
           Ok(IF pb.val = NoFields /\ ~pb.extra THEN Empty
              ELSE Plain("protobuf", pb.val, pb.extra))
      [] ctv = ContentTypeJson     -> Ok(Plain("json", pb.val, FALSE))
      [] OTHER                     -> Fail(Text)

(* The prefix "decrypt -> decompress" and the suffix "compress -> encrypt" *)
(* that the conversions share; the first error ends the conversion.        *)
Peel(key, mb, inData) ==
    LET plain == Decrypt(key, mb.encryption, inData)
    IN  IF plain.err THEN plain ELSE Decompress(mb.cev, plain.data)

Wrap(key, mb, inData) ==
    LET packed == Compress(mb.cev, inData)
    IN  IF packed.err THEN packed ELSE Encrypt(key, mb.encryption, packed.data)

UnPackByPB(key, mb, inData) ==
    LET opened == Peel(key, mb, inData)
    IN  IF opened.err THEN opened ELSE Unmarshal(mb.ctv, opened.data)

Unpack(key, keyspace, mb, inData) ==
    IF keyspace \in pbMessage THEN UnPackByPB(key, mb, inData) ELSE Fail(inData)

Pack(key, mb, pb) ==
    LET text == Marshal(mb.ctv, pb)
    IN  IF text.err THEN text ELSE Wrap(key, mb, text.data)

(* The magic byte Convert aims at: an unknown output type means the        *)
(* input's type.                                                           *)
Target(inMB, outMB) ==
    IF outMB.ctv = ContentTypeUnknown THEN [outMB EXCEPT !.ctv = inMB.ctv] ELSE outMB

(* decrypt -> decompress -> unmarshal -> marshal -> compress -> encrypt    *)
ConvertType(key, keyspace, inMB, outMB, inData) ==
    LET pb == Unpack(key, keyspace, inMB, inData)
    IN  IF pb.err THEN pb ELSE Pack(key, outMB, pb.data)

(* Mutant: the input is compressed again without being decompressed.       *)
ConvertEncodingTwice(key, inMB, outMB, inData) ==
    LET plain == Decrypt(key, inMB.encryption, inData)
    IN  IF plain.err THEN plain ELSE Wrap(key, outMB, plain.data)

(* Mutant: the encryption at the end is forgotten.                         *)
ConvertEncodingOnly(key, inMB, outMB, inData) ==
    LET opened == Peel(key, inMB, inData)
    IN  IF opened.err THEN opened ELSE Compress(outMB.cev, opened.data)

(* decrypt -> decompress -> compress -> encrypt                            *)
ConvertEncoding(key, inMB, outMB, inData) ==
    LET opened == Peel(key, inMB, inData)
    IN  IF opened.err THEN opened ELSE Wrap(key, outMB, opened.data)

(* decrypt -> encrypt                                                      *)
ConvertEncryption(key, inMB, outMB, inData) ==
    LET plain == Decrypt(key, inMB.encryption, inData)
    IN  IF plain.err THEN plain ELSE Encrypt(key, outMB.encryption, plain.data)

Convert(key, keyspace, inMB, outMB, inData) ==
    LET out    == Target(inMB, outMB)
        result ==
          CASE inMB.ctv # out.ctv /\ out.ctv # ContentTypeUnknown ->
                 ConvertType(key, keyspace, inMB, out, inData)
            [] inMB.ctv = out.ctv /\ inMB.cev # out.cev ->
                 ConvertEncoding(key, inMB, out, inData)
            [] inMB.ctv = out.ctv /\ inMB.cev = out.cev
                                  /\ inMB.encryption # out.encryption ->
                 ConvertEncryption(key, inMB, out, inData)
            [] OTHER -> Ok(inData)
    IN  IF result.err
        THEN [err |-> TRUE, magicByte |-> inMB, data |-> inData]
        ELSE [err |-> FALSE, magicByte |-> out, data |-> result.data]
=============================================================================
