---------------------------- MODULE AnswerProofs ----------------------------
(***************************************************************************)
(* Proofs about what XdasStore answers: a body, read with the headers it   *)
(* comes with, is what the writer of the record sent, and a counter's      *)
(* digits never pass for a record.                                         *)
(***************************************************************************)
EXTENDS RecordProofs, WellFoundedInduction

-----------------------------------------------------------------------------
(* A counter's first character: "-" or a digit, so a byte whose encryption *)
(* bits say 1.  The recursive LeadingDigit is reasoned about through least *)
(* counterexamples.                                                        *)

(* Every nonempty set of numbers has a least one.                          *)
LEMMA Least ==
    ASSUME NEW T \in SUBSET Nat, T # {} PROVE \E m \in T : \A k \in T : m <= k
<1> DEFINE R == OpToRel(<, Nat)
<1>0. \A a, b \in Nat : a < b => <<a, b>> \in R
  <2>1. R = {ss \in Nat \X Nat : ss[1] < ss[2]}
     BY Zenon DEF OpToRel
  <2> HIDE DEF R
  <2> QED BY <2>1
<1>2. IsWellFoundedOn(R, Nat)
  BY NatLessThanWellFounded, Zenon
<1> HIDE DEF R
<1>1. PICK m \in T : \A k \in T : ~(<<k, m>> \in R)
  BY <1>2, WFMin, Zenon
<1>3. \A k \in T : ~(k < m)
  BY <1>0, <1>1, Zenon
<1>4. \A k \in T : m <= k
  BY <1>3
<1> QED BY <1>4

(* f computes leading digits up to n.                                      *)
Digits(f, n) == \A i \in 0 .. n : f[i] = IF i < 10 THEN i ELSE f[i \div 10]

(* Dropping a digit makes a number smaller.                                *)
LEMMA Smaller == \A i \in Nat : i >= 10 => i \div 10 \in 0 .. (i-1)
OBVIOUS

(* Two functions that do agree as far as both go.                          *)
LEMMA DigitsAgree ==
    ASSUME NEW n \in Nat, NEW m \in Nat, NEW f, NEW g,
           Digits(f, n), Digits(g, m), n <= m
    PROVE  \A i \in 0 .. n : f[i] = g[i]
<1> DEFINE T == {i \in 0 .. n : f[i] # g[i]}
<1> SUFFICES ASSUME T # {} PROVE FALSE
  OBVIOUS
<1>1. T \in SUBSET Nat
  OBVIOUS
<1>2. PICK i \in T : \A k \in T : i <= k
  <2> HIDE DEF T
  <2> QED BY <1>1, Least
<1>3. i \in 0 .. n /\ i \in 0 .. m /\ f[i] # g[i]
  OBVIOUS
<1>4. CASE i < 10
  BY <1>3, <1>4 DEF Digits
<1>5. CASE i >= 10
  <2>1. i \div 10 \in 0 .. n /\ i \div 10 < i
    BY <1>3, <1>5, Smaller
  <2>2. f[i \div 10] = g[i \div 10]
    BY <1>2, <2>1
  <2> QED BY <1>3, <1>5, <2>2 DEF Digits
<1> QED BY <1>3, <1>4, <1>5

(* There is one for every n.                                               *)
LEMMA DigitsExist == \A n \in Nat : \E f \in [0 .. n -> 0 .. 9] : Digits(f, n)
<1> DEFINE T == {n \in Nat : ~ \E f \in [0 .. n -> 0 .. 9] : Digits(f, n)}
<1> SUFFICES ASSUME T # {} PROVE FALSE
  OBVIOUS
<1>1. T \in SUBSET Nat
  OBVIOUS
<1>2. PICK n \in T : \A k \in T : n <= k
  <2> HIDE DEF T
  <2> QED BY <1>1, Least
<1>3. n \in Nat /\ ~ \E f \in [0 .. n -> 0 .. 9] : Digits(f, n)
  OBVIOUS
<1>4. n # 0
  <2> DEFINE f == [i \in 0 .. 0 |-> 0]
  <2>1. f \in [0 .. 0 -> 0 .. 9]
    OBVIOUS
  <2>2. Digits(f, 0)
    BY DEF Digits
  <2> HIDE DEF f
  <2> QED BY <1>3, <2>1, <2>2
<1>5. PICK f \in [0 .. n - 1 -> 0 .. 9] : Digits(f, n - 1)
  <2>1. n - 1 \in Nat /\ ~(n <= n - 1)
    BY <1>3, <1>4
  <2>2. n - 1 \notin T
    BY <1>2, <2>1
  <2> QED BY <2>1, <2>2
<1> DEFINE d == IF n < 10 THEN n ELSE f[n \div 10]
           g == [i \in 0 .. n |-> IF i = n THEN d ELSE f[i]]
<1>6. d \in 0 .. 9
  BY <1>3, <1>5, Smaller
<1>7. g \in [0 .. n -> 0 .. 9]
  <2> HIDE DEF d
  <2> QED BY <1>3, <1>5, <1>6
<1>8. Digits(g, n)
  <2> SUFFICES ASSUME NEW i \in 0 .. n PROVE g[i] = IF i < 10 THEN i ELSE g[i \div 10]
    BY DEF Digits
  <2>1. i >= 10 => i \div 10 \in 0 .. (i - 1)
    BY <1>3, Smaller
  <2>2. i >= 10 => g[i \div 10] = f[i \div 10]
    BY <1>3, <2>1
  <2>3. CASE i = n
    BY <1>3, <2>2, <2>3
  <2>4. CASE i # n
    BY <1>3, <1>5, <2>2, <2>4 DEF Digits
  <2> QED BY <2>3, <2>4
<1> HIDE DEF g
<1> QED BY <1>3, <1>7, <1>8

(* Hence the recursive function is what its definition says, ...           *)
LEMMA LeadingDigitDef ==
    LeadingDigit = [n \in Nat |-> IF n < 10 THEN n ELSE LeadingDigit[n \div 10]]
<1> DEFINE F(n) == CHOOSE f \in [0 .. n -> 0 .. 9] : Digits(f, n)
           g    == [n \in Nat |-> F(n)[n]]
<1>1. ASSUME NEW n \in Nat PROVE Digits(F(n), n)
  BY DigitsExist
<1>2. ASSUME NEW n \in Nat PROVE g[n] = IF n < 10 THEN n ELSE g[n \div 10]
  <2>1. F(n)[n] = IF n < 10 THEN n ELSE F(n)[n \div 10]
    BY <1>1 DEF Digits
  <2>2. ASSUME n >= 10 PROVE F(n)[n \div 10] = F(n \div 10)[n \div 10]
    <3>1. n \div 10 \in Nat /\ n \div 10 <= n /\ n \div 10 \in 0 .. (n \div 10)
      BY <2>2, Smaller
    <3> HIDE DEF F
    <3> QED BY <1>1, <3>1, DigitsAgree
  <2> HIDE DEF F
  <2> QED BY <2>1, <2>2, Smaller
<1>3. g = [n \in Nat |-> IF n < 10 THEN n ELSE g[n \div 10]]
  <2>1. g = [n \in Nat |-> g[n]]
    OBVIOUS
  <2> HIDE DEF g
  <2> QED BY <1>2, <2>1
<1> HIDE DEF g
<1> QED BY <1>3, Zenon DEF LeadingDigit

(* ... and its values are digits.                                          *)
LEMMA LeadingDigitType == \A n \in Nat : LeadingDigit[n] \in 0 .. 9
<1> DEFINE T == {n \in Nat : LeadingDigit[n] \notin 0 .. 9}
<1> SUFFICES ASSUME T # {} PROVE FALSE
  OBVIOUS
<1>1. T \in SUBSET Nat
  OBVIOUS
<1>2. PICK n \in T : \A k \in T : n <= k
  <2> HIDE DEF T
  <2> QED BY <1>1, Least
<1>3. n \in Nat /\ LeadingDigit[n] \notin 0 .. 9
  OBVIOUS
<1>4. LeadingDigit[n] = IF n < 10 THEN n ELSE LeadingDigit[n \div 10]
  BY <1>3, LeadingDigitDef
<1>5. n >= 10
  BY <1>3, <1>4
<1>6. n \div 10 \in Nat /\ n \div 10 < n
  BY <1>3, <1>5, Smaller
<1>7. LeadingDigit[n \div 10] \in 0 .. 9
  BY <1>2, <1>6
<1> QED BY <1>3, <1>4, <1>5, <1>7

(* The encryption a magic byte read off a number claims.                   *)
LEMMA CounterByte ==
    ASSUME NEW n \in Int
    PROVE  NewFrom(FirstByte(n)) \in MagicBytes /\ NewFrom(FirstByte(n)).encryption = 1
<1>1. FirstByte(n) = 45 \/ FirstByte(n) \in 48 .. 57
  <2>1. CASE n < 0
    BY <2>1 DEF FirstByte
  <2>2. CASE n >= 0
    <3>1. LeadingDigit[n] \in 0 .. 9
      BY <2>2, LeadingDigitType
    <3>2. FirstByte(n) = 48 + LeadingDigit[n]
      BY <2>2 DEF FirstByte
    <3> QED BY <3>1, <3>2
  <2> QED BY <2>1, <2>2
<1>2. ASSUME NEW b \in Int, b = 45 \/ b \in 48 .. 57
      PROVE  /\ NewFrom(b) \in MagicBytes
             /\ NewFrom(b).encryption = 1
  <2>1. b % 4 \in 0 .. 3 /\ (b \div 4) % 8 \in 0 .. 7 /\ b \div 32 = 1
    BY <1>2
  <2>2. NewFrom(b) = NewMagicByte(b % 4, (b \div 4) % 8, 1)
    BY <2>1, Units DEF NewFrom, ContentTypeMax, EncryptionMax
  <2> QED BY <2>1, <2>2 DEF NewMagicByte, MagicBytes, ContentEncodingMax, ContentTypeMax,
                            EncryptionMax
<1> QED BY <1>1, <1>2

-----------------------------------------------------------------------------
(* The headers say what the magic byte says: a client that reads them back *)
(* gets the format of the body.                                            *)
LEMMA HeadersRead ==
    ASSUME NEW m \in Formats(0)
    PROVE  New(SetContentHeaders(m).ce, SetContentHeaders(m).ct, 0) = m
<1> USE DEF ContentEncodingNone, ContentEncodingZstd, ContentEncodingZlib,
            ContentTypeUnknown, ContentTypeJson, ContentTypeProtoBuf
<1>1. m.cev \in 0 .. 2 /\ m.ctv \in 0 .. 2 /\ m = NewMagicByte(m.cev, m.ctv, 0)
  BY DEF Formats, NewMagicByte
<1>2. contentEncodingCode(GetContentEncoding(m)) = m.cev
  BY <1>1 DEF contentEncodingCode, GetContentEncoding
<1>3. contentTypeCode(GetContentType(m)) = m.ctv
  BY <1>1 DEF contentTypeCode, GetContentType
<1> QED BY <1>1, <1>2, <1>3 DEF New, SetContentHeaders

(* The key in force opens a record only if it is the record's own, so what *)
(* it opens means what it means under the record's own key.                *)
LEMMA OwnKey ==
    ASSUME NEW k, NEW v, NEW by, Record(k, v, by), NEW key,
           ~Decrypt(key, NewFrom(v[1]).encryption, v[2]).err
    PROVE  Keeps(key, NewFrom(v[1]), v[2], by.key, Claimed(by.request), by.request.body)
<1> DEFINE m == NewFrom(v[1])
<1>1. /\ m.encryption \in 0 .. 1
      /\ m.encryption = 1 => v[2].layer = "gcm" /\ v[2].key = by.key
      /\ Keeps(by.key, m, v[2], by.key, Claimed(by.request), by.request.body)
  BY DEF Record, SealedAs
<1> HIDE DEF m
<1>2. Decrypt(key, m.encryption, v[2]) = Decrypt(by.key, m.encryption, v[2])
  <2>1. CASE m.encryption = 0
    BY <2>1 DEF Decrypt
  <2>2. CASE m.encryption = 1
    <3>1. Decrypt(key, m.encryption, v[2]) = AesDecrypt(key, v[2])
      BY <2>2 DEF Decrypt
    <3>2. ~AesDecrypt(key, v[2]).err
      BY <3>1 DEF m
    <3>3. v[2].key = key
      BY <3>2 DEF AesDecrypt, Fail
    <3> QED BY <1>1, <2>2, <3>3
  <2> QED BY <1>1, <2>1, <2>2
<1>3. Peel(key, m, v[2]) = Peel(by.key, m, v[2])
  BY <1>2 DEF Peel
<1>4. UnPackByPB(key, m, v[2]) = UnPackByPB(by.key, m, v[2])
  BY <1>3 DEF UnPackByPB
<1>5. Keeps(key, m, v[2], by.key, Claimed(by.request), by.request.body)
  BY <1>1, <1>2, <1>3, <1>4 DEF Keeps, Means
<1> QED BY <1>5 DEF m

-----------------------------------------------------------------------------
(* What a body must be: a record's, what its writer sent, in the format    *)
(* the request asked for.                                                  *)
Read(a) == New(a.headers.ce, a.headers.ct, 0)

Right(a, r, key) ==
    /\ a.read.kind = "bytes"
    /\ Written(a.read) =>
         SameContent(key, Read(a), a.body, a.read.by.request,
                     /\ Claimed(a.read.by.request).ctv = NewFrom(a.read.val[1]).ctv
                     /\ NewFrom(a.read.val[1]).ctv = Read(a).ctv)
    /\ r.op = "get" /\ r.format # "" => Read(a) = New("", r.format, 0)

(* The bodies of an answer.                                                *)
Bodies(x) == IF "body" \in DOMAIN x THEN {x}
             ELSE IF "parts" \in DOMAIN x THEN {x.parts[i] : i \in DOMAIN x.parts}
             ELSE {}

(* An entry that is read, converted to a format to send and sent with its  *)
(* headers.                                                                *)
Sent(a, k, ks, out) ==
    LET stored == redisParseResult(redis[k])
        res    == Convert(config.Key, ks, stored.magicByte, out, stored.data)
    IN  /\ ~stored.err /\ ~res.err
        /\ a.headers = SetContentHeaders(res.magicByte)
        /\ a.body = res.data
        /\ a.read = redis[k]

AskedFor(out, r) ==
    r.op = "get" /\ r.format # "" =>
        out = New("", r.format, 0) /\ out.ctv # ContentTypeUnknown

(* It was a record that was read: a counter's digits do not open.          *)
LEMMA SentRecord ==
    ASSUME RecordInv, NEW k \in DOMAIN redis, NEW ks, NEW out \in Formats(0),
           NEW a, Sent(a, k, ks, out)
    PROVE  redis[k].kind = "bytes"
<1> DEFINE e      == redis[k]
           stored == redisParseResult(e)
           res    == Convert(config.Key, ks, stored.magicByte, out, stored.data)
<1>1. EntryOK(k, e)
  BY DEF RecordInv, RedisInv
<1>2. ~res.err /\ out \in MagicBytes /\ out.encryption = 0
  BY FormatType DEF Sent
<1> HIDE DEF e
<1>3. SUFFICES ASSUME e.kind = "int", e.val \in Int64 PROVE FALSE
  BY <1>1 DEF EntryOK, e
<1>4. stored.magicByte = NewFrom(FirstByte(e.val)) /\ stored.data = Text
  BY <1>3 DEF redisParseResult
<1>5. e.val \in Int
  BY <1>3, WordAssumption DEF Int64
<1>6. stored.magicByte \in MagicBytes /\ stored.magicByte.encryption = 1
  BY <1>4, <1>5, CounterByte
<1> HIDE DEF stored
<1>7. Keeps(config.Key, res.magicByte, res.data, config.Key, stored.magicByte, stored.data)
  BY <1>2, <1>6, ConvertKeeps
<1>8. ~Decrypt(config.Key, stored.magicByte.encryption, stored.data).err
  BY <1>7 DEF Keeps, Means
<1>9. Decrypt(config.Key, 1, Text) = AesDecrypt(config.Key, Text)
  BY DEF Decrypt
<1>10. AesDecrypt(config.Key, Text).err
  BY DEF AesDecrypt, Text, Fail
<1> QED BY <1>4, <1>6, <1>8, <1>9, <1>10

(* Read by its headers it means what the record means.                     *)
LEMMA SentKeeps ==
    ASSUME RecordInv, NEW k \in DOMAIN redis, NEW ks, NEW out \in Formats(0),
           NEW a, Sent(a, k, ks, out), Record(k, redis[k].val, redis[k].by)
    PROVE  LET v  == redis[k].val
               by == redis[k].by
           IN  /\ Keeps(config.Key, Read(a), a.body, config.Key, NewFrom(v[1]), v[2])
               /\ Keeps(config.Key, NewFrom(v[1]), v[2], by.key, Claimed(by.request),
                        by.request.body)
<1> DEFINE e      == redis[k]
           v      == e.val
           m      == NewFrom(v[1])
           stored == redisParseResult(e)
           res    == Convert(config.Key, ks, stored.magicByte, out, stored.data)
<1>1. /\ ~stored.err /\ ~res.err /\ a.headers = SetContentHeaders(res.magicByte)
      /\ a.body = res.data
  BY DEF Sent
<1>2. out \in MagicBytes /\ out.encryption = 0
  BY FormatType
<1>3. Len(v) = 2 /\ v[1] \in Byte /\ m.ctv \in 0 .. 2 /\ Record(k, v, e.by)
  BY DEF Record
<1>4. e.kind = "bytes"
  BY SentRecord
<1> HIDE DEF e
<1>5. stored.magicByte = m /\ stored.data = v[2]
  <2>1. e.kind # "int" /\ v # <<>>
    BY <1>3, <1>4
  <2> QED BY <2>1 DEF redisParseResult
<1>6. m \in MagicBytes
  BY <1>3, ByteType
<1> HIDE DEF m, stored
<1>7. Keeps(config.Key, res.magicByte, res.data, config.Key, m, v[2])
  BY <1>1, <1>2, <1>5, <1>6, ConvertKeeps
<1>8. ~Decrypt(config.Key, m.encryption, v[2]).err
  BY <1>7 DEF Keeps, Means
<1>9. Keeps(config.Key, m, v[2], e.by.key, Claimed(e.by.request), e.by.request.body)
  BY <1>3, <1>8, OwnKey DEF m
<1>10. res.magicByte = Target(stored.magicByte, out)
  BY <1>1 DEF Convert
<1> HIDE DEF res
<1>11. Read(a) = res.magicByte
  <2>1. res.magicByte \in Formats(0)
    BY <1>3, <1>5, <1>10 DEF Target, Formats
  <2> QED BY <1>1, <2>1, HeadersRead DEF Read
<1> QED BY <1>1, <1>7, <1>9, <1>11 DEF m, e

(* Such an answer is right.                                                *)
LEMMA SentRight ==
    ASSUME RecordInv, NEW k \in DOMAIN redis, NEW ks, NEW out \in Formats(0),
           NEW a, Sent(a, k, ks, out), NEW r, AskedFor(out, r)
    PROVE  Right(a, r, config.Key)
<1> DEFINE e      == redis[k]
           stored == redisParseResult(e)
           res    == Convert(config.Key, ks, stored.magicByte, out, stored.data)
<1>1. /\ ~res.err /\ a.headers = SetContentHeaders(res.magicByte)
      /\ a.read = e /\ e.kind = "bytes"
  BY SentRecord DEF Sent
<1>2. res.magicByte = Target(stored.magicByte, out)
  <2> HIDE DEF stored
  <2> QED BY <1>1 DEF Convert
<1>3. ASSUME Written(e)
      PROVE  SameContent(config.Key, Read(a), a.body, e.by.request,
                         /\ Claimed(e.by.request).ctv = NewFrom(e.val[1]).ctv
                         /\ NewFrom(e.val[1]).ctv = Read(a).ctv)
  <2> DEFINE m == NewFrom(e.val[1])
  <2>1. Record(k, e.val, e.by)
    BY <1>3 DEF RecordInv, RedisInv, EntryOK
  <2>2. /\ Keeps(config.Key, Read(a), a.body, config.Key, m, e.val[2])
        /\ Keeps(config.Key, m, e.val[2], e.by.key, Claimed(e.by.request),
                 e.by.request.body)
    BY <2>1, SentKeeps
  <2> HIDE DEF m, e
  <2>3. Means(config.Key, Read(a), a.body, e.by.key, Claimed(e.by.request),
              e.by.request.body,
              Claimed(e.by.request).ctv = m.ctv /\ m.ctv = Read(a).ctv)
    BY <2>2, KeepsTwice
  <2>4. SameContent(config.Key, Read(a), a.body, e.by.request,
                    Claimed(e.by.request).ctv = m.ctv /\ m.ctv = Read(a).ctv)
    BY <2>3, MeansSent
  <2> QED BY <2>4 DEF m
<1> HIDE DEF res, e
<1>4. ASSUME r.op = "get", r.format # "" PROVE Read(a) = New("", r.format, 0)
  <2>1. out = New("", r.format, 0) /\ out.ctv # ContentTypeUnknown
    BY <1>4 DEF AskedFor
  <2>2. res.magicByte = out
    BY <1>2, <2>1 DEF Target
  <2> QED BY <1>1, <2>1, <2>2, HeadersRead DEF Read
<1> QED BY <1>1, <1>3, <1>4 DEF Right, e

(* The body a GET is answered with.                                        *)
LEMMA GetSent ==
    ASSUME RecordInv, NEW r, r.op = "get", NEW a \in Bodies(GetAnswer(r))
    PROVE  /\ KeyOf(r) \in DOMAIN redis
           /\ OutFormat(r) \in Formats(0) /\ AskedFor(OutFormat(r), r)
           /\ Sent(a, KeyOf(r), r.keyspace, OutFormat(r))
<1> DEFINE e      == redis[KeyOf(r)]
           stored == redisParseResult(e)
           out    == Convert(config.Key, r.keyspace, stored.magicByte, OutFormat(r),
                             stored.data)
           x      == [code |-> 200, headers |-> SetContentHeaders(out.magicByte),
                      body |-> out.data, read |-> e]
<1>1. /\ Known(r.keyspace) /\ Has(KeyOf(r)) /\ GetAnswer(r) = GetFound(r, e)
  BY DEF GetAnswer, Bodies, Code
<1>2. /\ ~stored.err /\ ~out.err /\ a = x
      /\ r.format # "" => OutFormat(r).ctv # ContentTypeUnknown
  <2> DEFINE raw == [code |-> 200, raw |-> <<Get(stored.magicByte), stored.data>>,
                     read |-> e]
  <2>1. GetFound(r, e) =
          IF stored.err THEN Code(500)
          ELSE IF r.format = "raw" THEN raw
          ELSE IF r.format # "" /\ OutFormat(r).ctv = ContentTypeUnknown THEN Code(400)
          ELSE IF out.err THEN Code(500)
          ELSE x
    BY DEF GetFound
  <2>2. Bodies(Code(500)) = {} /\ Bodies(Code(400)) = {} /\ Bodies(raw) = {}
    BY DEF Bodies, Code
  <2>3. Bodies(x) = {x}
    BY DEF Bodies
  <2>4. a \in Bodies(GetFound(r, e))
    BY <1>1
  <2> HIDE DEF raw, x, out, stored, e
  <2>5. ~stored.err /\ r.format # "raw"
    BY <2>1, <2>2, <2>4, Zenon
  <2>6. ~(r.format # "" /\ OutFormat(r).ctv = ContentTypeUnknown)
    BY <2>1, <2>2, <2>4, <2>5, Zenon
  <2>7. ~out.err
    BY <2>1, <2>2, <2>4, <2>5, <2>6, Zenon
  <2>8. a \in Bodies(x)
    BY <2>1, <2>4, <2>5, <2>6, <2>7, Zenon
  <2> QED BY <2>3, <2>5, <2>6, <2>7, <2>8
<1>3. OutFormat(r) \in Formats(0) /\ (r.format # "" => OutFormat(r) = New("", r.format, 0))
  <2>1. config.Keyspaces[r.keyspace].Output \in Formats(0)
    BY <1>1 DEF Known, RecordInv, ConfigOK, KeyspaceOK
  <2> QED BY <2>1, NewFormat DEF OutFormat
<1>4. Sent(a, KeyOf(r), r.keyspace, OutFormat(r))
  BY <1>2 DEF Sent
<1>5. AskedFor(OutFormat(r), r)
  BY <1>2, <1>3 DEF AskedFor
<1>6. KeyOf(r) \in DOMAIN redis
  BY <1>1 DEF Has
<1> QED BY <1>3, <1>4, <1>5, <1>6

(* It is right.                                                            *)
LEMMA GetRight ==
    ASSUME RecordInv, NEW r, r.op = "get", NEW a \in Bodies(GetAnswer(r))
    PROVE  Right(a, r, config.Key)
BY GetSent, SentRight

(* The parts of the answer to a multi GET, by their positions.             *)
LEMMA MultiSent ==
    ASSUME RecordInv, NEW r, r.op = "multi", "parts" \in DOMAIN MultiAnswer(r),
           NEW i \in DOMAIN MultiAnswer(r).parts
    PROVE  LET ks == MultiKeyspaces(r)[i]
           IN  /\ i \in DOMAIN MultiKeyspaces(r) /\ MultiKey(r, ks) \in DOMAIN redis
               /\ config.Keyspaces[ks].Output \in Formats(0)
               /\ Sent(MultiAnswer(r).parts[i], MultiKey(r, ks), ks,
                       config.Keyspaces[ks].Output)
<1> DEFINE ks       == MultiKeyspaces(r)
           found    == {j \in MultiValid(r) : Has(MultiKey(r, ks[j]))}
           included == {j \in found : /\ ~MultiPart(r, ks[j]).err
                                      /\ ks[j] = "ct" => getID(r) \notin Underscored}
           missing  == {ks[j] : j \in MultiValid(r) \ found}
           part(j)  == [headers |-> SetContentHeaders(MultiPart(r, ks[j]).magicByte),
                        body    |-> MultiPart(r, ks[j]).data,
                        read    |-> redis[MultiKey(r, ks[j])]]
           parts    == [j \in included |-> part(j)]
           a        == MultiAnswer(r).parts[i]
<1>1. MultiAnswer(r) = IF included = {}
                       THEN [code |-> 404, findx |-> Miss(r, missing)]
                       ELSE [code |-> 200, findx |-> Miss(r, missing), parts |-> parts]
  BY DEF MultiAnswer
<1> HIDE DEF parts, missing
<1>2. MultiAnswer(r).parts = parts
  <2> HIDE DEF included
  <2> QED BY <1>1
<1>3. i \in included /\ a = part(i)
  BY <1>2 DEF parts
<1> HIDE DEF a
<1>4. /\ i \in MultiValid(r) /\ MultiKey(r, ks[i]) \in DOMAIN redis
      /\ ~MultiPart(r, ks[i]).err
  BY <1>3 DEF Has
<1>5. /\ a.headers = SetContentHeaders(MultiPart(r, ks[i]).magicByte)
      /\ a.body = MultiPart(r, ks[i]).data
      /\ a.read = redis[MultiKey(r, ks[i])]
  BY <1>3
<1>6. i \in DOMAIN ks /\ config.Keyspaces[ks[i]].Output \in Formats(0)
  BY <1>4 DEF MultiValid, Known, RecordInv, ConfigOK, KeyspaceOK
<1> HIDE DEF included, found, part, ks
<1>7. Sent(a, MultiKey(r, ks[i]), ks[i], config.Keyspaces[ks[i]].Output)
  BY <1>4, <1>5 DEF Sent, MultiPart
<1> QED BY <1>4, <1>6, <1>7 DEF a, ks

(* They are right.                                                         *)
LEMMA MultiRight ==
    ASSUME RecordInv, NEW r, r.op = "multi", NEW a \in Bodies(MultiAnswer(r))
    PROVE  Right(a, r, config.Key)
<1>1. "body" \notin DOMAIN MultiAnswer(r)
  BY DEF MultiAnswer
<1>2. PICK i : /\ "parts" \in DOMAIN MultiAnswer(r) /\ i \in DOMAIN MultiAnswer(r).parts
               /\ a = MultiAnswer(r).parts[i]
  BY <1>1 DEF Bodies
<1>3. AskedFor(config.Keyspaces[MultiKeyspaces(r)[i]].Output, r)
  BY DEF AskedFor
<1> QED BY <1>2, <1>3, MultiSent, SentRight

-----------------------------------------------------------------------------
(* A handler that has not replied has no answer, and every answer given is *)
(* right, for as long as it stands.                                        *)
RepliesInv ==
    /\ resp = [h \in Handlers |-> resp[h]]
    /\ \A h \in Handlers : phase[h] # "replied" => resp[h] = NoReply
    /\ \A h \in Handlers : \A a \in Bodies(resp[h]) : Right(a, req[h], config.Key)

AnswerInv == RecordInv /\ RepliesInv

(* An answer without a body is right.                                      *)
LEMMA Bodiless ==
    /\ Bodies(NoReply) = {}
    /\ \A c : Bodies(Code(c)) = {}
    /\ \A n : Bodies([code |-> 200, value |-> n]) = {}
BY DEF Bodies, NoReply, Code

(* A step of one handler h.                                                *)
LEMMA RepliesAfter ==
    ASSUME AnswerInv, NEW h \in Handlers, config' = config,
           NEW p, phase' = [phase EXCEPT ![h] = p],
           NEW q, req' = [req EXCEPT ![h] = q],
           NEW x, resp' = [resp EXCEPT ![h] = x],
           p = "replied" \/ x = NoReply,
           \A a \in Bodies(x) : Right(a, q, config.Key)
    PROVE  RepliesInv'
<1>1. DOMAIN phase = Handlers /\ DOMAIN req = Handlers /\ DOMAIN resp = Handlers
  BY DEF AnswerInv, RecordInv, BufferInv, Shape, RepliesInv
<1>2. phase'[h] = p /\ req'[h] = q /\ resp'[h] = x /\ resp' = [g \in Handlers |-> resp'[g]]
  BY <1>1
<1>3. \A g \in Handlers : g # h => /\ phase'[g] = phase[g] /\ req'[g] = req[g]
                                   /\ resp'[g] = resp[g]
  BY <1>1
<1>4. ASSUME NEW g \in Handlers
      PROVE  /\ phase'[g] # "replied" => resp'[g] = NoReply
             /\ \A a \in Bodies(resp'[g]) : Right(a, req'[g], config'.Key)
  <2>1. CASE g = h
    BY <1>2, <2>1
  <2>2. CASE g # h
    BY <1>3, <2>2 DEF AnswerInv, RepliesInv
  <2> QED BY <2>1, <2>2
<1> QED BY <1>2, <1>4 DEF RepliesInv

(* The first step of a handler, the reads among them.                      *)
LEMMA RepliesArrive ==
    ASSUME AnswerInv, NEW h \in Handlers, NEW r \in Requests, Arrive(h, r)
    PROVE  RepliesInv'
<1>1. config' = config /\ phase[h] = "idle" /\ req' = [req EXCEPT ![h] = r]
  BY DEF Arrive, PutReject, PutBegin, HandleGet, HandleMultiGet, ReadFails, DelReject,
         DelBegin, IncReject, IncBegin, Accept
<1>2. resp = [resp EXCEPT ![h] = NoReply]
  BY <1>1 DEF AnswerInv, RepliesInv
<1>3. CASE PutBegin(h, r) \/ DelBegin(h, r) \/ IncBegin(h, r)
  <2>1. PICK p : phase' = [phase EXCEPT ![h] = p]
    BY <1>3 DEF PutBegin, DelBegin, IncBegin, Goto
  <2>2. resp' = [resp EXCEPT ![h] = NoReply]
    BY <1>2, <1>3 DEF PutBegin, DelBegin, IncBegin, Goto
  <2> QED BY <1>1, <2>1, <2>2, Bodiless, RepliesAfter
<1>4. CASE PutReject(h, r) \/ ReadFails(h, r) \/ DelReject(h, r) \/ IncReject(h, r)
  <2>1. PICK c : phase' = [phase EXCEPT ![h] = "replied"]
                 /\ resp' = [resp EXCEPT ![h] = Code(c)]
    BY <1>4 DEF PutReject, ReadFails, DelReject, IncReject, Reply
  <2>2. \A a \in Bodies(Code(c)) : Right(a, r, config.Key)
    BY Bodiless
  <2> QED BY <1>1, <2>1, <2>2, RepliesAfter
<1>5. CASE HandleGet(h, r)
  <2>1. /\ phase' = [phase EXCEPT ![h] = "replied"] /\ r.op = "get"
        /\ resp' = [resp EXCEPT ![h] = GetAnswer(r)]
    BY <1>5 DEF HandleGet, Reply
  <2>2. \A a \in Bodies(GetAnswer(r)) : Right(a, r, config.Key)
    BY <2>1, GetRight DEF AnswerInv
  <2> QED BY <1>1, <2>1, <2>2, RepliesAfter
<1>6. CASE HandleMultiGet(h, r)
  <2>1. /\ phase' = [phase EXCEPT ![h] = "replied"] /\ r.op = "multi"
        /\ resp' = [resp EXCEPT ![h] = MultiAnswer(r)]
    BY <1>6 DEF HandleMultiGet, Reply
  <2>2. \A a \in Bodies(MultiAnswer(r)) : Right(a, r, config.Key)
    BY <2>1, MultiRight DEF AnswerInv
  <2> QED BY <1>1, <2>1, <2>2, RepliesAfter
<1> QED BY <1>3, <1>4, <1>5, <1>6 DEF Arrive

(* The later steps, which answer without a body or not at all.             *)
LEMMA RepliesProceed ==
    ASSUME AnswerInv, NEW h \in Handlers, Proceed(h)
    PROVE  RepliesInv'
<1>1. config' = config
  BY DEF Proceed, PutRead, PutReadFails, PutConvert, PutConvertFails, PutSet, DelRun,
         IncIncrBy, IncExpire, Retry, GiveUp, Unanswered, Return
<1>2. req = [req EXCEPT ![h] = req[h]]
  BY AsItIs DEF AnswerInv
<1>3. CASE PutRead(h) \/ PutConvert(h) \/ IncIncrBy(h) \/ Retry(h)
  <2>1. PICK p : phase' = [phase EXCEPT ![h] = p]
    BY <1>3 DEF PutRead, PutConvert, IncIncrBy, Retry, Goto
  <2>2. phase[h] # "replied" /\ resp' = resp /\ req' = req
    BY <1>3 DEF PutRead, PutConvert, IncIncrBy, Retry, Goto, Unanswered
  <2>3. resp' = [resp EXCEPT ![h] = NoReply]
    BY <2>2 DEF AnswerInv, RepliesInv
  <2> QED BY <1>1, <1>2, <2>1, <2>2, <2>3, Bodiless, RepliesAfter
<1>4. CASE \/ PutReadFails(h) \/ PutConvertFails(h) \/ PutSet(h) \/ DelRun(h)
           \/ IncExpire(h) \/ GiveUp(h)
  <2>1. phase' = [phase EXCEPT ![h] = "replied"] /\ req' = req
    BY <1>4 DEF PutReadFails, PutConvertFails, PutSet, DelRun, IncExpire, GiveUp, Unanswered,
                Reply
  <2>2. PICK x : resp' = [resp EXCEPT ![h] = x] /\ Bodies(x) = {}
    BY <1>4, Bodiless DEF PutReadFails, PutConvertFails, PutSet, DelRun, IncExpire, GiveUp,
                          Reply
  <2> QED BY <1>1, <1>2, <2>1, <2>2, RepliesAfter
<1>5. CASE Return(h)
  <2>1. /\ phase' = [phase EXCEPT ![h] = "idle"] /\ req' = [req EXCEPT ![h] = NoRequest]
        /\ resp' = [resp EXCEPT ![h] = NoReply]
    BY <1>5 DEF Return
  <2> QED BY <1>1, <2>1, Bodiless, RepliesAfter
<1> QED BY <1>3, <1>4, <1>5 DEF Proceed

(* A process that has just started has answered nothing.                   *)
LEMMA AnswerStart == Init => AnswerInv
<1> SUFFICES ASSUME Init PROVE AnswerInv
  OBVIOUS
<1>1. RepliesInv
  BY Bodiless DEF Init, RepliesInv
<1> QED BY <1>1, RecordInit DEF AnswerInv

(* Every step keeps the invariant; a restart, which changes the key and    *)
(* the formats, leaves no answer standing.                                 *)
LEMMA AnswerStep == AnswerInv /\ [Next]_vars => AnswerInv'
<1> SUFFICES ASSUME AnswerInv, [Next]_vars PROVE AnswerInv'
  OBVIOUS
<1>r. RecordInv'
  BY RecordStep DEF AnswerInv
<1>1. CASE \/ \E b \in Buffers : GC(b)
           \/ \E k \in DOMAIN redis : Expires(k)
           \/ \E s \in Slots : TakesEffect(s)
           \/ UNCHANGED vars
  <2>1. config' = config /\ phase' = phase /\ req' = req /\ resp' = resp
    BY <1>1 DEF GC, Expires, TakesEffect, vars
  <2> QED BY <1>r, <2>1 DEF AnswerInv, RepliesInv
<1>2. CASE Restart
  <2>1. resp' = [h \in Handlers |-> NoReply]
    BY <1>2 DEF Restart
  <2> QED BY <1>r, <2>1, Bodiless DEF AnswerInv, RepliesInv
<1> QED BY <1>r, <1>1, <1>2, RepliesArrive, RepliesProceed DEF Next, AnswerInv

(* The inductive invariant of the answers holds throughout.                *)
THEOREM AnswersInOrder == Spec => []AnswerInv
BY AnswerStart, AnswerStep, PTL DEF Spec

(* What a GET or a part of a multi GET returns is what the record's writer *)
(* sent, read with the headers it comes with, in the format asked for:     *)
(* whatever the formats, the encryption and the key were when it was       *)
(* written and are now.                                                    *)
THEOREM AnswersAsSent == Spec => []AnsweredAsSent
<1>1. ASSUME AnswerInv PROVE AnsweredAsSent
  <2>1. ASSUME NEW h \in Handlers, NEW a \in Answers(h) PROVE Right(a, req[h], config.Key)
    BY <1>1, <2>1 DEF AnswerInv, RepliesInv, Answers, Bodies
  <2> QED BY <2>1 DEF Right, Read, AnsweredAsSent
<1> QED BY AnswersInOrder, <1>1, PTL

(* No answer has a body made of a counter's digits: the magic byte read    *)
(* off them claims an encryption under which digits do not open.           *)
THEOREM OnlyRecordsAnswered == Spec => []PartsAreRecords
<1>1. ASSUME AnswerInv PROVE PartsAreRecords
  <2>1. ASSUME NEW h \in Handlers, NEW a \in Answers(h) PROVE Right(a, req[h], config.Key)
    BY <1>1, <2>1 DEF AnswerInv, RepliesInv, Answers, Bodies
  <2> QED BY <2>1 DEF Right, PartsAreRecords
<1> QED BY AnswersInOrder, <1>1, PTL
=============================================================================
