------------------------------ MODULE MagicByte ------------------------------
(***************************************************************************)
(* The one-byte header of every record XDAS keeps in Redis                 *)
(* (internal/magicbyte): two bits of content encoding, three of content    *)
(* type, two of encryption, one reserved.  Pure operators.                 *)
(*                                                                         *)
(* The code's bit operations are written with the arithmetic they compute: *)
(* b & (2^k - 1) is b % 2^k, b >> k is b \div 2^k, and the "|" of Get is   *)
(* "+" because its operands occupy disjoint bits.                          *)
(***************************************************************************)
EXTENDS Integers

ContentEncodingMax == 3
ContentTypeMax     == 7
EncryptionMax      == 3
ContentTypeUnit    == ContentEncodingMax + 1
EncryptionUnit     == ContentTypeUnit * (ContentTypeMax + 1)
Byte               == 0 .. 255

ContentEncodingNone == 0
ContentEncodingZstd == 1
ContentEncodingZlib == 2

ContentTypeUnknown  == 0
ContentTypeJson     == 1
ContentTypeProtoBuf == 2

MagicBytes == [cev        : 0 .. ContentEncodingMax,
               ctv        : 0 .. ContentTypeMax,
               encryption : 0 .. EncryptionMax]

(* A header text that is not in the code's map has the map's zero value.   *)
contentEncodingCode(text) ==
    CASE text = "zstd" -> ContentEncodingZstd
      [] text = "zlib" -> ContentEncodingZlib
      [] OTHER         -> ContentEncodingNone

contentTypeCode(text) ==
    CASE text \in {"application/json", "json"} -> ContentTypeJson
      [] text \in {"application/x-protobuf", "application/vnd.google.protobuf",
                   "protobuf"}                 -> ContentTypeProtoBuf
      [] OTHER                                 -> ContentTypeUnknown

NewMagicByte(cev, ctv, encryption) ==
    [cev |-> cev, ctv |-> ctv, encryption |-> encryption]

New(contentEncoding, contentType, encryption) ==
    NewMagicByte(contentEncodingCode(contentEncoding),
                 contentTypeCode(contentType), encryption)

NewFrom(b) ==
    NewMagicByte(b % ContentTypeUnit,
                 (b \div ContentTypeUnit) % (ContentTypeMax + 1),
                 (b \div EncryptionUnit) % (EncryptionMax + 1))

(* The byte form: Get's result is truncated to a byte.                     *)
Get(m) ==
    (m.encryption * EncryptionUnit + m.ctv * ContentTypeUnit + m.cev) % 256

(* The texts of the response headers; a code without a text has "".        *)
GetContentEncoding(m) ==
    CASE m.cev = ContentEncodingZstd -> "zstd"
      [] m.cev = ContentEncodingZlib -> "zlib"
      [] OTHER                       -> ""

GetContentType(m) ==
    CASE m.ctv = ContentTypeUnknown  -> "application/octet-stream"
      [] m.ctv = ContentTypeJson     -> "application/json"
      [] m.ctv = ContentTypeProtoBuf -> "application/x-protobuf"
      [] OTHER                       -> ""

(* Mutant: the Content-encoding header is never set.                       *)
SetTypeHeaderOnly(m) == [ce |-> "", ct |-> GetContentType(m)]

SetContentHeaders(m) == [ce |-> GetContentEncoding(m), ct |-> GetContentType(m)]
=============================================================================
