---------------------------- MODULE RecordProofs ----------------------------
(***************************************************************************)
(* Proofs about XdasStore: what the variables hold, and that every record  *)
(* in Redis is what its writer sent, sealed as the configuration asked,    *)
(* readable when it was validated and bound to expire unless its writer    *)
(* asked otherwise.  One inductive invariant carries all of it: what is    *)
(* true of a record in Redis is true of it from the moment it is staged in *)
(* a pooled buffer, through the command that carries it, for as long as    *)
(* that is under way.                                                      *)
(***************************************************************************)
EXTENDS StoreProofs

(* The magic bytes that headers and configurations can name.               *)
Formats(encryption) == [cev : 0 .. 2, ctv : 0 .. 2, encryption : {encryption}]

(* What start-up leaves in the configuration: stored formats with the one  *)
(* encryption, output formats without, retentions that are int64.          *)
KeyspaceOK(ks, encryption) ==
    /\ ks.Store \in Formats(encryption)
    /\ ks.Output \in Formats(0)
    /\ ks.ttl \in Int64

ConfigOK(f) ==
    /\ f.Encryption \in 0 .. 1
    /\ \A ks \in DOMAIN f.Keyspaces : KeyspaceOK(f.Keyspaces[ks], f.Encryption)

(* The value v, under key k, holds what the request behind it sent.        *)
SealedAs(v, key, encryption) ==
    /\ NewFrom(v[1]).encryption = encryption
    /\ encryption = 1 => v[2].layer = "gcm" /\ v[2].key = key

Record(k, v, by) ==
    /\ k = KeyOf(by.request)
    /\ Len(v) = 2 /\ v[1] \in Byte /\ NewFrom(v[1]).ctv \in 0 .. 2
    /\ by.encryption \in 0 .. 1
    /\ SealedAs(v, by.key, by.encryption)
    /\ Keeps(by.key, NewFrom(v[1]), v[2], by.key, Claimed(by.request), by.request.body)
    /\ by.validated => /\ by.request.keyspace \in pbMessage
                       /\ ~UnPackByPB(by.key, NewFrom(v[1]), v[2]).err

Retained(ttl, by) == by.request.xttl.kind \in {"none", "bad"} => ttl > 0

EntryOK(k, e) ==
    /\ e.ttl \in 0 .. MaxInt
    /\ e.kind = "bytes" \/ (e.kind = "int" /\ e.val \in Int64)
    /\ Written(e) => Record(k, e.val, e.by) /\ Retained(e.ttl, e.by)

CommandOK(c) ==
    \/ /\ c.op = "set"
       /\ c.ttl \in Int64
       /\ Record(c.key, c.val, c.by) /\ Retained(c.ttl, c.by)
    \/ c.op = "del"
    \/ c.op = "inc" /\ c.n \in Int64 /\ c.ttl \in Int64
    \/ c.op = "expire" /\ c.ttl \in Int64

-----------------------------------------------------------------------------
(* The request a handler in a phase serves, and the bytes of it that are   *)
(* in the handler's buffers.                                               *)
PutPhases == {"reading", "read", "storing"}
IncPhases == {"incrementing", "expiring"}

Serving(h) ==
    /\ phase[h] \in PutPhases => /\ req[h] \in Requests /\ req[h].op = "put"
                                 /\ Known(req[h].keyspace)
    /\ phase[h] \in IncPhases => req[h] \in Requests /\ req[h].op = "inc"

Staged(h) ==
    /\ phase[h] = "reading" => mem[b1[h]] = <<>>
    /\ phase[h] = "read"    => mem[b1[h]] = <<req[h].body>>
    /\ phase[h] = "storing" => /\ Record(KeyOf(req[h]), mem[b2[h]], History(h))
                               /\ Retained(local[h].ttl, History(h))

Locals == [ttl : Int64, err : BOOLEAN, n : Int64, tries : 0 .. MaxRetries]

HandlerInv == /\ req \in [Handlers -> Requests \cup {NoRequest}]
              /\ local \in [Handlers -> Locals]
              /\ \A h \in Handlers : Serving(h)
StagedInv  == \A h \in Handlers : Staged(h)
LateInv    == /\ DOMAIN late = Slots
              /\ \A s \in Slots : late[s] = NoCommand \/ CommandOK(late[s])
RedisInv   == \A k \in DOMAIN redis : EntryOK(k, redis[k])

RecordInv == /\ BufferInv /\ ConfigOK(config) /\ HandlerInv /\ StagedInv
             /\ LateInv /\ RedisInv

-----------------------------------------------------------------------------
(* Numbers stay int64.                                                     *)

(* The wrap-around of a product lands in int64.                            *)
LEMMA WrapType == ASSUME NEW x \in Int PROVE WrapInt64(x) \in Int64
<1> DEFINE w == 2 * (MaxInt + 1)
           y == x + MaxInt + 1
<1>1. MaxInt \in Nat /\ w \in Nat /\ w > 0 /\ y \in Int
  BY WordAssumption
<1>2. y % w \in 0 .. (w - 1)
  <2> HIDE DEF w, y
  <2> QED BY <1>1
<1>3. WrapInt64(x) = (y % w) - (MaxInt + 1)
  BY DEF WrapInt64
<1>4. \A z \in 0 .. (w - 1) : z - (MaxInt + 1) \in (-MaxInt - 1) .. MaxInt
  BY <1>1
<1> HIDE DEF w, y
<1> QED BY <1>2, <1>3, <1>4 DEF Int64

(* A parsed time is int64.                                                 *)
LEMMA ParseType == ASSUME NEW t, IsTime(t) PROVE ParseDuration(t).d \in Int64
<1>1. 0 \in Int64
  BY WordAssumption DEF Int64
<1> QED BY <1>1 DEF ParseDuration, IsTime

(* The retention of a request is int64, and positive when the request does *)
(* not say.                                                                *)
LEMMA TTLType ==
    ASSUME NEW t, IsTime(t), NEW t2 \in Int64
    PROVE  /\ getTTL(t, t2) \in Int64
           /\ t.kind \in {"none", "bad"} => getTTL(t, t2) > 0
<1>1. CASE t.kind = "int"
  <2>1. t.n * Second \in Int
    BY <1>1, WordAssumption DEF IsTime, Int64
  <2>2. getTTL(t, t2) = WrapInt64(t.n * Second)
    BY <1>1 DEF getTTL
  <2> QED BY <1>1, <2>1, <2>2, WrapType
<1>2. CASE t.kind = "dur"
  <2>1. getTTL(t, t2) = t.n
    BY <1>2 DEF getTTL, ParseDuration
  <2> QED BY <1>2, <2>1 DEF IsTime
<1>3. CASE t.kind \in {"none", "bad"}
  <2>1. getTTL(t, t2) = IF t2 > 0 THEN t2 ELSE defaultGlobalTTL
    BY <1>3 DEF getTTL, ParseDuration
  <2> QED BY <2>1, WordAssumption DEF Int64
<1> QED BY <1>1, <1>2, <1>3 DEF IsTime

(* The increment of a request is int64.                                    *)
LEMMA IncrementType == ASSUME NEW r, r.n \in Int PROVE IncrementOf(r) \in Int64
BY WordAssumption DEF IncrementOf, Int64

-----------------------------------------------------------------------------
(* New names such formats only.                                            *)
LEMMA NewFormat ==
    ASSUME NEW ce, NEW ct, NEW encryption PROVE New(ce, ct, encryption) \in Formats(encryption)
BY DEF New, NewMagicByte, contentEncodingCode, contentTypeCode, Formats, ContentEncodingNone,
       ContentEncodingZstd, ContentEncodingZlib, ContentTypeUnknown, ContentTypeJson,
       ContentTypeProtoBuf

(* They are magic bytes.                                                   *)
LEMMA FormatType ==
    ASSUME NEW encryption \in 0 .. 1, NEW m \in Formats(encryption)
    PROVE  m \in MagicBytes /\ m.encryption = encryption
BY DEF Formats, MagicBytes, ContentEncodingMax, ContentTypeMax, EncryptionMax

(* Every byte can be read as a magic byte.                                 *)
LEMMA ByteType == ASSUME NEW b \in Byte PROVE NewFrom(b) \in MagicBytes
BY Units DEF NewFrom, NewMagicByte, MagicBytes, Byte, ContentEncodingMax, ContentTypeMax,
             EncryptionMax

(* Start-up makes a usable configuration of every file it accepts.         *)
LEMMA StartedOK ==
    ASSUME NEW c \in Configs, Starts(c) PROVE ConfigOK(getConfig(c))
<1> DEFINE f == getConfig(c)
<1>1. c.Encryption \in 0 .. 1 /\ f.Encryption = c.Encryption
  BY DEF Starts, ValidRedis, getConfig
<1>2. /\ DOMAIN f.Keyspaces = DOMAIN c.Keyspaces
      /\ \A ks \in DOMAIN c.Keyspaces :
           f.Keyspaces[ks] = validateKeyspaceConfig(c.Keyspaces[ks], c.Encryption)
  BY DEF getConfig
<1>3. ASSUME NEW v, IsTime(v.TTL)
      PROVE KeyspaceOK(validateKeyspaceConfig(v, c.Encryption), c.Encryption)
  <2> DEFINE storeCE  == Inherit(v.Store.ContentEncoding, v.Input.ContentEncoding)
             storeCT  == Inherit(v.Store.ContentType, v.Input.ContentType)
             wantedCT == IF storeCT = "" THEN "" ELSE v.Output.ContentType
             outputCE == Inherit(v.Output.ContentEncoding, storeCE)
             outputCT == Inherit(wantedCT, storeCT)
             w        == validateKeyspaceConfig(v, c.Encryption)
  <2>1. /\ w.Store = New(storeCE, storeCT, c.Encryption)
        /\ w.Output = New(outputCE, outputCT, 0)
        /\ w.ttl = ParseDuration(v.TTL).d
    BY DEF validateKeyspaceConfig
  <2> HIDE DEF w, storeCE, storeCT, outputCE, outputCT
  <2>2. /\ New(storeCE, storeCT, c.Encryption) \in Formats(c.Encryption)
        /\ New(outputCE, outputCT, 0) \in Formats(0)
    BY NewFormat
  <2>3. ParseDuration(v.TTL).d \in Int64
    BY <1>3, ParseType
  <2>4. KeyspaceOK(w, c.Encryption)
    BY <2>1, <2>2, <2>3 DEF KeyspaceOK
  <2> QED BY <2>4 DEF w
<1>4. \A ks \in DOMAIN c.Keyspaces : IsTime(c.Keyspaces[ks].TTL)
  BY InputAssumption
<1> HIDE DEF f
<1>5. ConfigOK(f)
  BY <1>1, <1>2, <1>3, <1>4 DEF ConfigOK
<1> QED BY <1>5 DEF f

-----------------------------------------------------------------------------
(* Redis stays in order when a key is dropped or gets an entry in order.   *)
LEMMA RedisAfter ==
    ASSUME RedisInv, NEW k,
           \/ redis' = redis
           \/ redis' = Del(k)
           \/ \E e : redis' = Store(k, e) /\ EntryOK(k, e)
    PROVE  RedisInv'
<1>1. CASE redis' = redis
  BY <1>1 DEF RedisInv
<1>2. CASE redis' = Del(k)
  BY <1>2 DEF RedisInv, Del
<1>3. ASSUME NEW e, redis' = Store(k, e), EntryOK(k, e) PROVE RedisInv'
  <2>1. ASSUME NEW x \in DOMAIN redis' PROVE EntryOK(x, redis'[x])
    <3>1. x \in DOMAIN redis \cup {k} /\ redis'[x] = IF x = k THEN e ELSE redis[x]
      BY <1>3, <2>1 DEF Store
    <3> QED BY <1>3, <3>1 DEF RedisInv
  <2> QED BY <2>1 DEF RedisInv
<1> QED BY <1>1, <1>2, <1>3

(* INCRBY leaves an integer in range or nothing changed.                   *)
LEMMA IncrByOK ==
    ASSUME RedisInv, NEW k, NEW n \in Int64
    PROVE  LET result == IncrBy(k, n)
           IN  /\ result.err \in BOOLEAN /\ result.n \in Int64
               /\ \/ result.db = redis
                  \/ \E e : result.db = Store(k, e) /\ EntryOK(k, e)
<1> DEFINE old == IF Has(k) THEN redis[k] ELSE Entry("int", 0, 0, Nobody)
           e   == Entry("int", old.val + n, old.ttl, old.by)
<1>1. 0 \in Int64 /\ 0 \in 0 .. MaxInt
  BY WordAssumption DEF Int64
<1>2. old.ttl \in 0 .. MaxInt
  BY <1>1 DEF RedisInv, EntryOK, Has, Entry
<1> HIDE DEF old
<1>3. CASE old.kind = "int" /\ old.val + n \in Int64
  <2>1. IncrBy(k, n) = [err |-> FALSE, n |-> old.val + n, db |-> Store(k, e)]
    BY <1>3 DEF IncrBy, old
  <2>2. EntryOK(k, e)
    BY <1>2, <1>3 DEF EntryOK, Entry, Written
  <2> HIDE DEF e
  <2> QED BY <1>3, <2>1, <2>2
<1>4. CASE ~(old.kind = "int" /\ old.val + n \in Int64)
  <2>1. IncrBy(k, n) = [err |-> TRUE, n |-> 0, db |-> redis]
    BY <1>4 DEF IncrBy, old
  <2> QED BY <1>1, <2>1
<1> QED BY <1>3, <1>4

(* Every command in order leaves Redis in order.                           *)
LEMMA RunOK ==
    ASSUME RedisInv, NEW c, CommandOK(c), redis' = Run(c)
    PROVE  RedisInv'
<1>1. CASE c.op = "set"
  <2> DEFINE e == Entry("bytes", c.val, IF c.ttl > 0 THEN c.ttl ELSE 0, c.by)
  <2>1. redis' = Store(c.key, e)
    BY <1>1 DEF Run, Set
  <2>2. c.ttl \in Int64 /\ Record(c.key, c.val, c.by) /\ Retained(c.ttl, c.by)
    BY <1>1 DEF CommandOK
  <2>3. (IF c.ttl > 0 THEN c.ttl ELSE 0) \in 0 .. MaxInt
    BY <2>2, WordAssumption DEF Int64
  <2>4. Retained(IF c.ttl > 0 THEN c.ttl ELSE 0, c.by)
    BY <2>2 DEF Retained
  <2>5. EntryOK(c.key, e)
    BY <2>2, <2>3, <2>4 DEF EntryOK, Entry
  <2> QED BY <2>1, <2>5, RedisAfter
<1>2. CASE c.op = "del"
  BY <1>2, RedisAfter DEF Run
<1>3. CASE c.op = "inc"
  <2>1. redis' = IncrBy(c.key, c.n).db
    BY <1>3 DEF Run
  <2>2. c.n \in Int64
    BY <1>3 DEF CommandOK
  <2> QED BY <2>1, <2>2, IncrByOK, RedisAfter
<1>4. CASE c.op = "expire"
  <2> DEFINE e == Entry(redis[c.key].kind, redis[c.key].val, c.ttl, redis[c.key].by)
  <2>1. redis' = ExpireKey(c.key, c.ttl)
    BY <1>4 DEF Run
  <2>2. \/ redis' = redis \/ redis' = Del(c.key)
        \/ Has(c.key) /\ ~(c.ttl <= 0) /\ redis' = Store(c.key, e)
    BY <2>1 DEF ExpireKey
  <2>3. ASSUME Has(c.key), ~(c.ttl <= 0) PROVE EntryOK(c.key, e)
    <3>1. c.ttl \in 0 .. MaxInt /\ c.ttl > 0
      BY <1>4, <2>3, WordAssumption DEF CommandOK, Int64
    <3>2. EntryOK(c.key, redis[c.key])
      BY <2>3 DEF RedisInv, Has
    <3> QED BY <3>1, <3>2 DEF EntryOK, Entry, Written, Retained
  <2> QED BY <2>2, <2>3, RedisAfter
<1> QED BY <1>1, <1>2, <1>3, <1>4 DEF CommandOK

-----------------------------------------------------------------------------
(* What a handler sends to Redis is in order.  The SET carries the record  *)
(* the handler has staged.                                                 *)
LEMMA PutOK ==
    ASSUME RecordInv, NEW h \in Handlers, phase[h] = "storing"
    PROVE  CommandOK(PutCommand(h))
<1>1. /\ Record(KeyOf(req[h]), mem[b2[h]], History(h))
      /\ Retained(local[h].ttl, History(h)) /\ local[h].ttl \in Int64
  BY DEF RecordInv, StagedInv, Staged, HandlerInv, Locals
<1> QED BY <1>1 DEF PutCommand, SetCommand, CommandOK

(* A DEL carries no value; an INCRBY and its EXPIRE carry int64s.          *)
LEMMA OthersOK ==
    ASSUME RecordInv, NEW h \in Handlers
    PROVE  /\ CommandOK(DelCommand(KeyOf(req[h])))
           /\ phase[h] \in IncPhases => /\ IncrementOf(req[h]) \in Int64
                                        /\ CommandOK(PipeCommand(h))
                                        /\ CommandOK(After(PipeCommand(h)))
<1>1. CommandOK(DelCommand(KeyOf(req[h])))
  BY DEF CommandOK, DelCommand
<1>2. ASSUME phase[h] \in IncPhases
      PROVE  /\ IncrementOf(req[h]) \in Int64
             /\ CommandOK(PipeCommand(h)) /\ CommandOK(After(PipeCommand(h)))
  <2>1. local[h].ttl \in Int64
    BY DEF RecordInv, HandlerInv, Locals
  <2>2. req[h].n \in Int
    BY <1>2, InputAssumption DEF RecordInv, HandlerInv, Serving
  <2>3. IncrementOf(req[h]) \in Int64
    BY <2>2, IncrementType
  <2>4. PipeCommand(h) = [op |-> "inc", key |-> KeyOf(req[h]), n |-> IncrementOf(req[h]),
                          ttl |-> local[h].ttl]
    BY DEF PipeCommand, IncCommand
  <2>5. After(PipeCommand(h)) = [op |-> "expire", key |-> KeyOf(req[h]),
                                 ttl |-> local[h].ttl]
    BY <2>4 DEF After, ExpireCommand
  <2> QED BY <2>1, <2>3, <2>4, <2>5 DEF CommandOK
<1> QED BY <1>1, <1>2

(* So whatever a handler is waiting for is in order.                       *)
LEMMA AwaitedOK ==
    ASSUME RecordInv, NEW h \in Handlers,
           phase[h] \in {"storing", "deleting", "incrementing", "expiring"}
    PROVE  CommandOK(Awaited(h))
<1>1. CASE phase[h] = "storing"
  <2>1. Awaited(h) = PutCommand(h)
    BY <1>1 DEF Awaited
  <2> QED BY <1>1, <2>1, PutOK
<1>2. CASE phase[h] = "deleting"
  <2>1. Awaited(h) = DelCommand(KeyOf(req[h]))
    BY <1>2 DEF Awaited
  <2> QED BY <2>1, OthersOK
<1>3. CASE phase[h] = "incrementing"
  <2>1. Awaited(h) = PipeCommand(h)
    BY <1>3 DEF Awaited
  <2> QED BY <1>3, <2>1, OthersOK DEF IncPhases
<1>4. CASE phase[h] = "expiring"
  <2>1. Awaited(h) = After(PipeCommand(h))
    BY <1>4 DEF Awaited
  <2> QED BY <1>4, <2>1, OthersOK DEF IncPhases
<1> QED BY <1>1, <1>2, <1>3, <1>4

(* An attempt that is not answered leaves at most such a command behind.   *)
LEMMA UnansweredOK ==
    ASSUME RecordInv, NEW h \in Handlers, Unanswered(h)
    PROVE  LateInv'
<1>1. CommandOK(Awaited(h))
  BY AwaitedOK DEF Unanswered
<1>2. CASE late' = late
  BY <1>2 DEF RecordInv, LateInv
<1>3. ASSUME NEW s \in Slots, late' = [late EXCEPT ![s] = Awaited(h)] PROVE LateInv'
  BY <1>1, <1>3 DEF RecordInv, LateInv
<1> QED BY <1>2, <1>3 DEF Unanswered

(* What Convert made of a body that was read and passed the content tests  *)
(* is a record of the request.                                             *)
LEMMA StagedRecord ==
    ASSUME RecordInv, NEW h \in Handlers, phase[h] = "read",
           ~PutBadContent(h), ~ToStored(h).err
    PROVE  Record(KeyOf(req[h]), <<Get(ToStored(h).magicByte), ToStored(h).data>>,
                  History(h))
<1> DEFINE r     == req[h]
           store == config.Keyspaces[r.keyspace].Store
           sent  == Claimed(r)
           res   == Convert(config.Key, r.keyspace, sent, store, r.body)
           v     == <<Get(res.magicByte), res.data>>
<1>1. /\ store \in MagicBytes /\ store.encryption = config.Encryption
      /\ store.ctv \in 0 .. 2 /\ config.Encryption \in 0 .. 1
  <2>1. r.keyspace \in DOMAIN config.Keyspaces
    BY DEF RecordInv, HandlerInv, Serving, PutPhases, Known
  <2>2. store \in Formats(config.Encryption) /\ config.Encryption \in 0 .. 1
    BY <2>1 DEF RecordInv, ConfigOK, KeyspaceOK
  <2> HIDE DEF store
  <2>3. store.ctv \in 0 .. 2
    BY <2>2 DEF Formats
  <2> QED BY <2>2, <2>3, FormatType
<1>2. sent \in MagicBytes /\ sent.encryption = 0 /\ sent.ctv \in 0 .. 2
  <2>1. sent \in Formats(0)
    BY NewFormat DEF Claimed
  <2> HIDE DEF sent
  <2>2. sent.ctv \in 0 .. 2
    BY <2>1 DEF Formats
  <2> QED BY <2>1, <2>2, FormatType
<1>3. Bytes(b1[h]) = r.body
  <2>1. mem[b1[h]] = <<r.body>>
    BY DEF RecordInv, StagedInv, Staged
  <2> QED BY <2>1 DEF Bytes
<1>4. ToStored(h) = res /\ ~res.err
  BY <1>3 DEF ToStored
<1>5. /\ History(h).request = r /\ History(h).key = config.Key
      /\ History(h).encryption = config.Encryption
      /\ History(h).validated = config.ValidateContent
  BY DEF History
<1>6. config.ValidateContent => /\ r.keyspace \in pbMessage
                                /\ ~UnPackByPB(config.Key, sent, r.body).err
  BY <1>3 DEF PutBadContent, Unpack, Fail
<1> HIDE DEF store, sent
<1>7. /\ res.magicByte \in MagicBytes
      /\ res.magicByte.encryption = config.Encryption
      /\ config.Encryption = 1 => res.data.layer = "gcm" /\ res.data.key = config.Key
  BY <1>1, <1>2, <1>4, ConvertSeals
<1>8. Keeps(config.Key, res.magicByte, res.data, config.Key, sent, r.body)
  BY <1>1, <1>2, <1>4, ConvertKeeps
<1>9. res.magicByte.ctv \in 0 .. 2
  <2>1. res.magicByte = Target(sent, store)
    BY <1>1, <1>2, <1>4, ConvertCases
  <2> QED BY <1>1, <1>2, <2>1 DEF Target, MagicBytes
<1>10. Get(res.magicByte) \in Byte /\ NewFrom(Get(res.magicByte)) = res.magicByte
  BY <1>7, RoundTrip
<1> HIDE DEF res
<1>11. v[1] = Get(res.magicByte) /\ v[2] = res.data /\ Len(v) = 2
  OBVIOUS
<1> HIDE DEF v
<1>12. SealedAs(v, config.Key, config.Encryption)
  BY <1>7, <1>10, <1>11 DEF SealedAs
<1>13. config.ValidateContent => ~UnPackByPB(config.Key, res.magicByte, res.data).err
  BY <1>6, <1>8, KeepsFields
<1>14. Record(KeyOf(r), v, History(h))
  <2>1. NewFrom(v[1]) = res.magicByte /\ v[1] \in Byte
    BY <1>10, <1>11
  <2>2. Keeps(config.Key, NewFrom(v[1]), v[2], config.Key, Claimed(r), r.body)
    BY <1>8, <1>11, <2>1 DEF sent
  <2> QED BY <1>1, <1>5, <1>6, <1>11, <1>12, <1>13, <1>9, <2>1, <2>2 DEF Record
<1> QED BY <1>4, <1>14 DEF v

-----------------------------------------------------------------------------
(* A step of h that leaves alone what the others hold leaves them where    *)
(* they are: with BufferExclusive, no step of h writes to their buffers.   *)
LEMMA OthersKept ==
    ASSUME RecordInv, NEW h \in Handlers, config' = config,
           \A g \in Handlers : g # h => /\ phase'[g] = phase[g] /\ req'[g] = req[g]
                                        /\ b1'[g] = b1[g] /\ b2'[g] = b2[g]
                                        /\ local'[g] = local[g],
           \A g \in Handlers : g # h => \A x \in Held(g) : mem'[x] = mem[x]
    PROVE  \A g \in Handlers : g # h => Serving(g)' /\ Staged(g)'
<1> SUFFICES ASSUME NEW g \in Handlers, g # h PROVE Serving(g)' /\ Staged(g)'
  OBVIOUS
<1>1. /\ phase'[g] = phase[g] /\ req'[g] = req[g]
      /\ b1'[g] = b1[g] /\ b2'[g] = b2[g] /\ local'[g] = local[g]
  OBVIOUS
<1>2. Serving(g)'
  BY <1>1 DEF RecordInv, HandlerInv, Serving, Known
<1>3. Staged(g)'
  <2>1. phase[g] \in {"reading", "read"} => mem'[b1[g]] = mem[b1[g]]
    BY BufferAssumption DEF RecordInv, BufferInv, BuffersByPhase, Held
  <2>2. phase[g] = "storing" => mem'[b2[g]] = mem[b2[g]]
    BY BufferAssumption DEF RecordInv, BufferInv, BuffersByPhase, Held
  <2>3. History(g)' = History(g)
    BY <1>1 DEF History
  <2>4. Staged(g)
    BY DEF RecordInv, StagedInv
  <2> QED BY <1>1, <2>1, <2>2, <2>3, <2>4 DEF Staged
<1> QED BY <1>2, <1>3

(* So much for the others; what remains is h itself.                       *)
LEMMA HandlersAfter ==
    ASSUME RecordInv, NEW h \in Handlers, config' = config,
           NEW p, phase' = [phase EXCEPT ![h] = p],
           NEW q \in Requests \cup {NoRequest}, req' = [req EXCEPT ![h] = q],
           NEW l \in Locals, local' = [local EXCEPT ![h] = l],
           \A g \in Handlers : g # h => b1'[g] = b1[g] /\ b2'[g] = b2[g],
           \A g \in Handlers : g # h => \A x \in Held(g) : mem'[x] = mem[x],
           Serving(h)', Staged(h)'
    PROVE  HandlerInv' /\ StagedInv'
<1>1. /\ DOMAIN phase = Handlers
      /\ req \in [Handlers -> Requests \cup {NoRequest}]
      /\ local \in [Handlers -> Locals]
  BY DEF RecordInv, BufferInv, Shape, HandlerInv
<1>2. \A g \in Handlers : g # h => /\ phase'[g] = phase[g] /\ req'[g] = req[g]
                                   /\ b1'[g] = b1[g] /\ b2'[g] = b2[g]
                                   /\ local'[g] = local[g]
  BY <1>1
<1>3. \A g \in Handlers : g # h => Serving(g)' /\ Staged(g)'
  BY <1>2, OthersKept
<1>4. /\ req' \in [Handlers -> Requests \cup {NoRequest}]
      /\ local' \in [Handlers -> Locals]
  BY <1>1
<1> QED BY <1>3, <1>4 DEF HandlerInv, StagedInv

(* What h itself is left with when it has nothing in hand.                 *)
LEMMA NothingInHand ==
    ASSUME RecordInv, NEW h \in Handlers, NEW p \in {"idle", "deleting", "replied"},
           phase' = [phase EXCEPT ![h] = p]
    PROVE  Serving(h)' /\ Staged(h)'
<1>1. phase'[h] = p
  BY DEF RecordInv, BufferInv, Shape
<1> QED BY <1>1 DEF Serving, Staged, PutPhases, IncPhases

(* A handler as it is: restating a variable a step leaves alone.           *)
LEMMA AsItIs ==
    ASSUME RecordInv, NEW h \in Handlers
    PROVE  /\ req = [req EXCEPT ![h] = req[h]] /\ req[h] \in Requests \cup {NoRequest}
           /\ local = [local EXCEPT ![h] = local[h]] /\ local[h] \in Locals
           /\ phase = [phase EXCEPT ![h] = phase[h]]
BY DEF RecordInv, BufferInv, Shape, HandlerInv

(* The first step of a handler.                                            *)
LEMMA RecordArrive ==
    ASSUME RecordInv, NEW h \in Handlers, NEW r \in Requests, Arrive(h, r)
    PROVE  RecordInv'
<1>b. BufferInv'
  BY BufferArrive DEF RecordInv
<1>r. /\ phase[h] = "idle" /\ req' = [req EXCEPT ![h] = r]
      /\ config' = config /\ redis' = redis /\ late' = late
  BY DEF Arrive, PutReject, PutBegin, HandleGet, HandleMultiGet, ReadFails, DelReject,
         DelBegin, IncReject, IncBegin, Accept
<1>c. ConfigOK(config)' /\ LateInv' /\ RedisInv'
  BY <1>r DEF RecordInv, LateInv, RedisInv
<1>t. DOMAIN phase = Handlers /\ DOMAIN mem = Buffers /\ DOMAIN b1 = Handlers
      /\ req'[h] = r
  BY <1>r DEF RecordInv, BufferInv, Shape
<1>1. CASE PutBegin(h, r)
  <2>1. PICK b \in Obtainable : b1' = [b1 EXCEPT ![h] = b] /\ mem' = Reset(b)
    BY <1>1 DEF PutBegin
  <2>2. /\ phase' = [phase EXCEPT ![h] = "reading"] /\ b2' = b2 /\ local' = local
        /\ r.op = "put" /\ Known(r.keyspace)
    BY <1>1 DEF PutBegin, Goto, Acceptable
  <2>3. b \in Buffers /\ \A g \in Handlers : b \notin Held(g)
    BY Obtained DEF RecordInv, BufferInv
  <2>4. phase'[h] = "reading" /\ b1'[h] = b /\ mem'[b] = <<>>
    BY <1>t, <2>1, <2>2, <2>3 DEF Reset
  <2>5. Serving(h)'
    BY <1>r, <1>t, <2>2, <2>4 DEF Serving, Known, IncPhases
  <2>6. Staged(h)'
    BY <2>4 DEF Staged
  <2>7. \A g \in Handlers : g # h => \A x \in Held(g) : mem'[x] = mem[x]
    <3>1. \A x \in Buffers : x # b => mem'[x] = mem[x]
      BY <1>t, <2>1 DEF Reset
    <3> QED BY <2>3, <3>1, HeldBuffers DEF RecordInv, BufferInv
  <2>8. \A g \in Handlers : g # h => b1'[g] = b1[g] /\ b2'[g] = b2[g]
    BY <1>t, <2>1, <2>2
  <2>9. HandlerInv' /\ StagedInv'
    BY <1>r, <2>2, <2>5, <2>6, <2>7, <2>8, AsItIs, HandlersAfter
  <2> QED BY <1>b, <1>c, <2>9 DEF RecordInv
<1>2. CASE IncBegin(h, r)
  <2> DEFINE t == getTTL(r.xttl, config.Keyspaces[r.keyspace].ttl)
             l == [local[h] EXCEPT !.ttl = t]
  <2>1. /\ phase' = [phase EXCEPT ![h] = "incrementing"]
        /\ mem' = mem /\ b1' = b1 /\ b2' = b2
        /\ r.op = "inc" /\ r.keyspace \in DOMAIN config.Keyspaces
        /\ local' = [local EXCEPT ![h].ttl = t]
    BY <1>2 DEF IncBegin, Goto, bufVars, AtomicKeyspace, Known
  <2>2. t \in Int64
    <3>1. config.Keyspaces[r.keyspace].ttl \in Int64
      BY <2>1 DEF RecordInv, ConfigOK, KeyspaceOK
    <3>2. IsTime(r.xttl)
      BY <2>1, InputAssumption
    <3> QED BY <3>1, <3>2, TTLType
  <2> HIDE DEF t
  <2>3. l \in Locals /\ local' = [local EXCEPT ![h] = l]
    BY <2>1, <2>2, AsItIs DEF Locals
  <2>4. phase'[h] = "incrementing"
    BY <1>t, <2>1
  <2>5. Serving(h)' /\ Staged(h)'
    BY <1>t, <2>1, <2>4 DEF Serving, Staged, PutPhases
  <2> HIDE DEF l
  <2>6. HandlerInv' /\ StagedInv'
    BY <1>r, <2>1, <2>3, <2>5, HandlersAfter
  <2> QED BY <1>b, <1>c, <2>6 DEF RecordInv
<1>3. CASE ~PutBegin(h, r) /\ ~IncBegin(h, r)
  <2>1. PICK p \in {"idle", "deleting", "replied"} :
          /\ phase' = [phase EXCEPT ![h] = p]
          /\ mem' = mem /\ b1' = b1 /\ b2' = b2 /\ local' = local
    BY <1>3 DEF Arrive, PutReject, HandleGet, HandleMultiGet, ReadFails, DelReject, DelBegin,
                IncReject, Reply, Goto, bufVars
  <2>2. Serving(h)' /\ Staged(h)'
    BY <2>1, NothingInHand
  <2>3. HandlerInv' /\ StagedInv'
    BY <1>r, <2>1, <2>2, AsItIs, HandlersAfter
  <2> QED BY <1>b, <1>c, <2>3 DEF RecordInv
<1> QED BY <1>1, <1>2, <1>3

(* The later steps of a handler, the conversion and the commands among     *)
(* them.                                                                   *)
LEMMA RecordProceed ==
    ASSUME RecordInv, NEW h \in Handlers, Proceed(h)
    PROVE  RecordInv'
<1>b. BufferInv'
  BY BufferProceed DEF RecordInv
<1>c. config' = config /\ ConfigOK(config)'
  BY DEF RecordInv, Proceed, PutRead, PutReadFails, PutConvert, PutConvertFails, PutSet,
         DelRun, IncIncrBy, IncExpire, Retry, GiveUp, Unanswered, Return
<1>l. LateInv'
  <2>1. CASE Retry(h) \/ GiveUp(h)
    BY <2>1, UnansweredOK DEF Retry, GiveUp
  <2>2. CASE ~(Retry(h) \/ GiveUp(h))
    <3>1. late' = late
      BY <2>2 DEF Proceed, PutRead, PutReadFails, PutConvert, PutConvertFails, PutSet,
                  DelRun, IncIncrBy, IncExpire, Return
    <3> QED BY <3>1 DEF RecordInv, LateInv
  <2> QED BY <2>1, <2>2
<1>d. RedisInv'
  <2>1. CASE PutSet(h)
    BY <2>1, PutOK, RunOK DEF PutSet, RecordInv
  <2>2. CASE DelRun(h)
    BY <2>2, OthersOK, RunOK DEF DelRun, RecordInv
  <2>3. CASE IncIncrBy(h) \/ IncExpire(h)
    BY <2>3, OthersOK, RunOK DEF IncIncrBy, IncExpire, RecordInv, IncPhases
  <2>4. CASE ~(PutSet(h) \/ DelRun(h) \/ IncIncrBy(h) \/ IncExpire(h))
    <3>1. redis' = redis
      BY <2>4 DEF Proceed, PutRead, PutReadFails, PutConvert, PutConvertFails, Retry,
                  GiveUp, Unanswered, Return
    <3> QED BY <3>1 DEF RecordInv, RedisInv
  <2> QED BY <2>1, <2>2, <2>3, <2>4
<1>t. DOMAIN phase = Handlers /\ DOMAIN mem = Buffers /\ DOMAIN b1 = Handlers
      /\ DOMAIN b2 = Handlers
  BY DEF RecordInv, BufferInv, Shape
<1> SUFFICES HandlerInv' /\ StagedInv'
  BY <1>b, <1>c, <1>l, <1>d DEF RecordInv
<1>1. CASE PutRead(h)
  <2>1. /\ phase[h] = "reading" /\ phase' = [phase EXCEPT ![h] = "read"]
        /\ mem' = [mem EXCEPT ![b1[h]] = Append(@, req[h].body)]
        /\ req' = req /\ b1' = b1 /\ b2' = b2 /\ local' = local
    BY <1>1 DEF PutRead, Goto
  <2>2. b1[h] \in Buffers /\ b1[h] \in Held(h)
    BY <2>1, BufferAssumption DEF RecordInv, BufferInv, BuffersByPhase, Held
  <2>3. mem[b1[h]] = <<>>
    BY <2>1 DEF RecordInv, StagedInv, Staged
  <2>4. phase'[h] = "read" /\ mem'[b1'[h]] = <<req'[h].body>>
    BY <1>t, <2>1, <2>2, <2>3
  <2>5. Serving(h)' /\ Staged(h)'
    BY <1>c, <2>1, <2>4 DEF RecordInv, HandlerInv, Serving, Staged, PutPhases, IncPhases,
                            Known
  <2>6. \A g \in Handlers : g # h => \A x \in Held(g) : mem'[x] = mem[x]
    <3>1. \A x \in Buffers : x # b1[h] => mem'[x] = mem[x]
      BY <1>t, <2>1
    <3>2. \A g \in Handlers : g # h => b1[h] \notin Held(g)
      BY <2>2 DEF RecordInv, BufferInv, BufferExclusive
    <3> QED BY <3>1, <3>2, HeldBuffers DEF RecordInv, BufferInv
  <2> QED BY <1>c, <2>1, <2>5, <2>6, AsItIs, HandlersAfter
<1>2. CASE \/ PutReadFails(h) \/ PutConvertFails(h) \/ PutSet(h) \/ DelRun(h)
           \/ IncExpire(h) \/ GiveUp(h)
  <2>1. /\ phase' = [phase EXCEPT ![h] = "replied"]
        /\ req' = req /\ mem' = mem /\ b1' = b1 /\ b2' = b2 /\ local' = local
    BY <1>2 DEF PutReadFails, PutConvertFails, PutSet, DelRun, IncExpire, GiveUp,
                Unanswered, Reply, bufVars
  <2>2. Serving(h)' /\ Staged(h)'
    BY <2>1, NothingInHand
  <2> QED BY <1>c, <2>1, <2>2, AsItIs, HandlersAfter
<1>3. CASE PutConvert(h)
  <2> DEFINE v == <<Get(ToStored(h).magicByte), ToStored(h).data>>
             t == getTTL(req[h].xttl, config.Keyspaces[req[h].keyspace].ttl)
             l == [local[h] EXCEPT !.ttl = t]
  <2>1. PICK b \in Obtainable : b2' = [b2 EXCEPT ![h] = b] /\ mem' = [mem EXCEPT ![b] = v]
    BY <1>3 DEF PutConvert, writeToBufPool
  <2>2. /\ phase[h] = "read" /\ ~PutBadContent(h) /\ ~ToStored(h).err
        /\ phase' = [phase EXCEPT ![h] = "storing"]
        /\ req' = req /\ b1' = b1
        /\ local' = [local EXCEPT ![h].ttl = t]
    BY <1>3 DEF PutConvert, Goto
  <2>3. b \in Buffers /\ \A g \in Handlers : b \notin Held(g)
    BY Obtained DEF RecordInv, BufferInv
  <2>4. Record(KeyOf(req[h]), v, History(h))
    BY <2>2, StagedRecord
  <2>5. /\ req[h] \in Requests /\ req[h].op = "put"
        /\ req[h].keyspace \in DOMAIN config.Keyspaces
    BY <2>2 DEF RecordInv, HandlerInv, Serving, PutPhases, Known
  <2>6. /\ t \in Int64
        /\ req[h].xttl.kind \in {"none", "bad"} => t > 0
    <3>1. config.Keyspaces[req[h].keyspace].ttl \in Int64
      BY <2>5 DEF RecordInv, ConfigOK, KeyspaceOK
    <3>2. IsTime(req[h].xttl)
      BY <2>5, InputAssumption
    <3> QED BY <3>1, <3>2, TTLType
  <2> HIDE DEF v, t
  <2>7. l \in Locals /\ local' = [local EXCEPT ![h] = l] /\ l.ttl = t
    BY <2>2, <2>6, AsItIs DEF Locals
  <2> HIDE DEF l
  <2>8. phase'[h] = "storing" /\ b2'[h] = b /\ mem'[b] = v /\ local'[h] = l
    <3>1. DOMAIN local = Handlers
      BY DEF RecordInv, HandlerInv
    <3> QED BY <1>t, <2>1, <2>2, <2>3, <2>7, <3>1
  <2>9. Serving(h)'
    BY <1>c, <2>2, <2>5, <2>8 DEF Serving, Known, IncPhases
  <2>10. Staged(h)'
    <3>1. History(h)' = History(h)
      BY <1>c, <2>2 DEF History
    <3>2. Retained(t, History(h))
      BY <2>6 DEF Retained, History
    <3> QED BY <2>2, <2>4, <2>7, <2>8, <3>1, <3>2 DEF Staged
  <2>11. \A g \in Handlers : g # h => \A x \in Held(g) : mem'[x] = mem[x]
    <3>1. \A x \in Buffers : x # b => mem'[x] = mem[x]
      BY <1>t, <2>1
    <3> QED BY <2>3, <3>1, HeldBuffers DEF RecordInv, BufferInv
  <2>12. \A g \in Handlers : g # h => b1'[g] = b1[g] /\ b2'[g] = b2[g]
    BY <1>t, <2>1, <2>2
  <2> QED BY <1>c, <2>2, <2>7, <2>9, <2>10, <2>11, <2>12, AsItIs, HandlersAfter
<1>4. CASE Return(h)
  <2>1. /\ phase' = [phase EXCEPT ![h] = "idle"]
        /\ req' = [req EXCEPT ![h] = NoRequest] /\ local' = [local EXCEPT ![h] = NoLocal]
        /\ b1' = [b1 EXCEPT ![h] = NoBuffer] /\ b2' = [b2 EXCEPT ![h] = NoBuffer]
        /\ mem' = [b \in Buffers |-> IF b \in Held(h) THEN <<Text>> ELSE mem[b]]
    BY <1>4 DEF Return
  <2>2. Serving(h)' /\ Staged(h)'
    BY <2>1, NothingInHand
  <2>3. NoLocal \in Locals
    BY WordAssumption, RetryAssumption DEF NoLocal, Locals, Int64
  <2>4. \A g \in Handlers : g # h => \A x \in Held(g) : mem'[x] = mem[x]
    <3>1. \A x \in Buffers : x \notin Held(h) => mem'[x] = mem[x]
      BY <2>1
    <3>2. \A g \in Handlers : g # h => Held(h) \cap Held(g) = {}
      BY DEF RecordInv, BufferInv, BufferExclusive
    <3> QED BY <3>1, <3>2, HeldBuffers DEF RecordInv, BufferInv
  <2>5. \A g \in Handlers : g # h => b1'[g] = b1[g] /\ b2'[g] = b2[g]
    BY <1>t, <2>1
  <2> QED BY <1>c, <2>1, <2>2, <2>3, <2>4, <2>5, HandlersAfter
<1>5. CASE IncIncrBy(h)
  <2> DEFINE result == IncrBy(KeyOf(req[h]), IncrementOf(req[h]))
             l      == [local[h] EXCEPT !.err = result.err, !.n = result.n]
  <2>1. /\ phase[h] = "incrementing" /\ phase' = [phase EXCEPT ![h] = "expiring"]
        /\ req' = req /\ mem' = mem /\ b1' = b1 /\ b2' = b2
        /\ local' = [local EXCEPT ![h].err = result.err, ![h].n = result.n]
    BY <1>5 DEF IncIncrBy, Goto, bufVars
  <2>2. IncrementOf(req[h]) \in Int64
    BY <2>1, OthersOK DEF IncPhases
  <2>3. result.err \in BOOLEAN /\ result.n \in Int64
    BY <2>2, IncrByOK DEF RecordInv
  <2> HIDE DEF result
  <2>4. l \in Locals /\ local' = [local EXCEPT ![h] = l]
    BY <2>1, <2>3, AsItIs DEF Locals
  <2>5. phase'[h] = "expiring"
    BY <1>t, <2>1
  <2>6. Serving(h)' /\ Staged(h)'
    BY <2>1, <2>5 DEF RecordInv, HandlerInv, Serving, Staged, PutPhases, IncPhases
  <2> HIDE DEF l
  <2> QED BY <1>c, <2>1, <2>4, <2>6, AsItIs, HandlersAfter
<1>6. CASE Retry(h)
  <2> DEFINE p == IF phase[h] = "expiring" THEN "incrementing" ELSE phase[h]
             l == [local[h] EXCEPT !.tries = @ + 1]
  <2>1. /\ phase' = [phase EXCEPT ![h] = p]
        /\ phase[h] \in {"storing", "deleting", "incrementing", "expiring"}
        /\ req' = req /\ mem' = mem /\ b1' = b1 /\ b2' = b2
        /\ local[h].tries < MaxRetries
        /\ local' = [local EXCEPT ![h].tries = @ + 1]
    BY <1>6 DEF Retry, Unanswered, Goto, bufVars
  <2>2. l \in Locals /\ local' = [local EXCEPT ![h] = l] /\ l.ttl = local[h].ttl
    BY <2>1, AsItIs, RetryAssumption DEF Locals
  <2>3. phase'[h] = p
    BY <1>t, <2>1
  <2>4. local'[h] = l
    BY <2>2 DEF RecordInv, HandlerInv
  <2>5. Serving(h) /\ Staged(h)
    BY DEF RecordInv, HandlerInv, StagedInv
  <2>6. Serving(h)'
    BY <1>c, <2>1, <2>3, <2>5 DEF Serving, PutPhases, IncPhases, Known
  <2>7. History(h)' = History(h)
    BY <1>c, <2>1 DEF History
  <2> HIDE DEF l
  <2>8. Staged(h)'
    BY <2>1, <2>2, <2>3, <2>4, <2>5, <2>7 DEF Staged
  <2> QED BY <1>c, <2>1, <2>2, <2>6, <2>8, AsItIs, HandlersAfter
<1> QED BY <1>1, <1>2, <1>3, <1>4, <1>5, <1>6 DEF Proceed

-----------------------------------------------------------------------------
(* A step that leaves the handlers alone leaves what they have in hand.    *)
LEMMA HandlersStay ==
    ASSUME RecordInv, config' = config, phase' = phase, req' = req, local' = local,
           b1' = b1, b2' = b2, \A g \in Handlers : \A x \in Held(g) : mem'[x] = mem[x]
    PROVE  HandlerInv' /\ StagedInv'
<1>1. ASSUME NEW g \in Handlers PROVE Serving(g)' /\ Staged(g)'
  <2>1. phase[g] \in {"reading", "read"} => mem'[b1[g]] = mem[b1[g]]
    BY BufferAssumption DEF RecordInv, BufferInv, BuffersByPhase, Held
  <2>2. phase[g] = "storing" => mem'[b2[g]] = mem[b2[g]]
    BY BufferAssumption DEF RecordInv, BufferInv, BuffersByPhase, Held
  <2>3. Serving(g) /\ Staged(g)
    BY DEF RecordInv, HandlerInv, StagedInv
  <2>4. Serving(g)'
    BY <2>3 DEF Serving, Known
  <2>5. History(g)' = History(g)
    BY DEF History
  <2>6. Staged(g)'
    BY <2>1, <2>2, <2>3, <2>5 DEF Staged
  <2> QED BY <2>4, <2>6
<1> QED BY <1>1 DEF RecordInv, HandlerInv, StagedInv

(* A process that has just started has nothing in hand and nothing under   *)
(* way, and what others left in Redis is not XDAS's.                       *)
LEMMA RecordInit == Init => RecordInv
<1> SUFFICES ASSUME Init PROVE RecordInv
  OBVIOUS
<1>1. BufferInv
  BY BufferInit
<1>2. ConfigOK(config)
  BY StartedOK DEF Init
<1>3. HandlerInv
  <2>1. NoLocal \in Locals
    BY WordAssumption, RetryAssumption DEF NoLocal, Locals, Int64
  <2> QED BY <2>1 DEF Init, HandlerInv, Serving, PutPhases, IncPhases
<1>4. StagedInv
  BY DEF Init, StagedInv, Staged
<1>5. LateInv
  BY DEF Init, LateInv
<1>6. RedisInv
  BY PreloadedAssumption DEF Init, RedisInv, EntryOK, Written
<1> QED BY <1>1, <1>2, <1>3, <1>4, <1>5, <1>6 DEF RecordInv

(* Every step keeps the invariant.                                         *)
LEMMA RecordStep == RecordInv /\ [Next]_vars => RecordInv'
<1> SUFFICES ASSUME RecordInv, [Next]_vars PROVE RecordInv'
  OBVIOUS
<1>b. BufferInv'
  BY BufferStep DEF RecordInv
<1>1. ASSUME NEW b \in Buffers, GC(b) PROVE RecordInv'
  <2>1. /\ b \in pool /\ mem' = Reset(b)
        /\ config' = config /\ redis' = redis /\ late' = late /\ local' = local
        /\ phase' = phase /\ req' = req /\ b1' = b1 /\ b2' = b2
    BY <1>1 DEF GC
  <2>2. \A g \in Handlers : \A x \in Held(g) : mem'[x] = mem[x]
    <3>1. \A x \in Buffers : x # b => mem'[x] = mem[x]
      BY <2>1 DEF Reset, RecordInv, BufferInv, Shape
    <3>2. \A g \in Handlers : b \notin Held(g)
      BY <2>1 DEF RecordInv, BufferInv, BufferExclusive
    <3> QED BY <3>1, <3>2, HeldBuffers DEF RecordInv, BufferInv
  <2>3. HandlerInv' /\ StagedInv'
    BY <2>1, <2>2, HandlersStay
  <2>4. ConfigOK(config)' /\ LateInv' /\ RedisInv'
    BY <2>1 DEF RecordInv, LateInv, RedisInv
  <2> QED BY <1>b, <2>3, <2>4 DEF RecordInv
<1>2. ASSUME NEW k \in DOMAIN redis, Expires(k) PROVE RecordInv'
  <2>1. /\ redis' = Del(k) /\ config' = config /\ late' = late /\ local' = local
        /\ phase' = phase /\ req' = req /\ mem' = mem /\ b1' = b1 /\ b2' = b2
    BY <1>2 DEF Expires, bufVars
  <2>2. HandlerInv' /\ StagedInv'
    BY <2>1, HandlersStay
  <2>3. RedisInv'
    BY <2>1, RedisAfter DEF RecordInv
  <2>4. ConfigOK(config)' /\ LateInv'
    BY <2>1 DEF RecordInv, LateInv
  <2> QED BY <1>b, <2>2, <2>3, <2>4 DEF RecordInv
<1>3. ASSUME NEW s \in Slots, TakesEffect(s) PROVE RecordInv'
  <2>1. /\ late[s] # NoCommand /\ redis' = Run(late[s])
        /\ late' = [late EXCEPT ![s] = After(late[s])]
        /\ config' = config /\ local' = local /\ phase' = phase /\ req' = req
        /\ mem' = mem /\ b1' = b1 /\ b2' = b2
    BY <1>3 DEF TakesEffect
  <2>2. HandlerInv' /\ StagedInv'
    BY <2>1, HandlersStay
  <2>3. CommandOK(late[s])
    BY <2>1 DEF RecordInv, LateInv
  <2>4. RedisInv'
    BY <2>1, <2>3, RunOK DEF RecordInv
  <2>5. After(late[s]) = NoCommand \/ CommandOK(After(late[s]))
    BY <2>3 DEF After, CommandOK, ExpireCommand
  <2>6. LateInv'
    BY <2>1, <2>5 DEF RecordInv, LateInv
  <2>7. ConfigOK(config)'
    BY <2>1 DEF RecordInv
  <2> QED BY <1>b, <2>2, <2>4, <2>6, <2>7 DEF RecordInv
<1>4. CASE Restart
  <2>1. ConfigOK(config)'
    <3>1. PICK c \in Configs : Starts(c) /\ config' = getConfig(c)
      BY <1>4 DEF Restart
    <3> QED BY <3>1, StartedOK
  <2>2. HandlerInv'
    <3>1. NoLocal \in Locals
      BY WordAssumption, RetryAssumption DEF NoLocal, Locals, Int64
    <3> QED BY <1>4, <3>1 DEF Restart, HandlerInv, Serving, PutPhases, IncPhases
  <2>3. StagedInv'
    BY <1>4 DEF Restart, StagedInv, Staged
  <2>4. LateInv' /\ RedisInv'
    BY <1>4 DEF Restart, RecordInv, LateInv, RedisInv
  <2> QED BY <1>b, <2>1, <2>2, <2>3, <2>4 DEF RecordInv
<1>5. CASE UNCHANGED vars
  <2>1. /\ redis' = redis /\ config' = config /\ late' = late /\ local' = local
        /\ phase' = phase /\ req' = req /\ mem' = mem /\ b1' = b1 /\ b2' = b2
    BY <1>5 DEF vars
  <2>2. HandlerInv' /\ StagedInv'
    BY <2>1, HandlersStay
  <2>3. ConfigOK(config)' /\ LateInv' /\ RedisInv'
    BY <2>1 DEF RecordInv, LateInv, RedisInv
  <2> QED BY <1>b, <2>2, <2>3 DEF RecordInv
<1> QED BY RecordArrive, RecordProceed, <1>1, <1>2, <1>3, <1>4, <1>5 DEF Next

(* The inductive invariant holds throughout.                               *)
THEOREM RecordsInOrder == Spec => []RecordInv
BY RecordInit, RecordStep, PTL DEF Spec

-----------------------------------------------------------------------------
(* What follows from it.                                                   *)

(* The variables of the store keep their types: no int64 leaves its range, *)
(* no retry is counted past MaxRetries, no key in Redis has a negative     *)
(* expiry.                                                                 *)
THEOREM StoreTypes == Spec => []TypeOK
<1>1. RecordInv => TypeOK
  BY DEF RecordInv, BufferInv, Shape, HandlerInv, Locals, LateInv, RedisInv, EntryOK, TypeOK
<1> QED BY RecordsInOrder, <1>1, PTL

(* Keeps, in the words of the specification.                               *)
LEMMA MeansSent ==
    ASSUME NEW key, NEW m, NEW d, NEW key0, NEW r, NEW exact \in BOOLEAN,
           Means(key, m, d, key0, Claimed(r), r.body, exact)
    PROVE  SameContent(key, m, d, r, exact)
<1> DEFINE sent == Claimed(r)
           now  == Decrypt(key, m.encryption, d)
<1>1. sent.encryption = 0
  BY DEF Claimed, New, NewMagicByte
<1> HIDE DEF sent
<1>2. Decrypt(key0, sent.encryption, r.body) = Ok(r.body)
      /\ Decrypt(key, sent.encryption, r.body) = Ok(r.body)
  BY <1>1 DEF Decrypt
<1>3. Ok(r.body).data = r.body /\ ~Ok(r.body).err
  BY DEF Ok
<1>4. /\ Peel(key0, sent, r.body) = Decompress(sent.cev, r.body)
      /\ Peel(key, sent, r.body) = Decompress(sent.cev, r.body)
  BY <1>2, <1>3 DEF Peel
<1>5. ~now.err /\ Peel(key, m, d) = Decompress(m.cev, now.data)
  BY DEF Means, Peel
<1>6. UnPackByPB(key0, sent, r.body) = UnPackByPB(key, sent, r.body)
  BY <1>4 DEF UnPackByPB
<1>7. exact => \/ m.cev = sent.cev /\ now.data = r.body
               \/ /\ ~Decompress(m.cev, now.data).err
                  /\ Decompress(m.cev, now.data) = Decompress(sent.cev, r.body)
  BY <1>2, <1>3, <1>4, <1>5 DEF Means, sent
<1>8. ~exact => /\ ~UnPackByPB(key, sent, r.body).err
                /\ ~UnPackByPB(key, m, d).err
                /\ UnPackByPB(key, m, d).data.val = UnPackByPB(key, sent, r.body).data.val
  BY <1>6 DEF Means, sent
<1> QED BY <1>5, <1>7, <1>8 DEF SameContent, sent

(* Every record in Redis is under its writer's key and holds what the      *)
(* writer sent, by its own magic byte: whatever the interleaving of        *)
(* handlers over the pooled buffers, the conversions, the retries and the  *)
(* commands that arrive late, even from a process that is gone.            *)
THEOREM RecordsAsSent == Spec => []StoredAsSent
<1>1. ASSUME RecordInv PROVE StoredAsSent
  <2> SUFFICES ASSUME NEW k \in DOMAIN redis, Written(redis[k])
               PROVE  LET e == redis[k]
                      IN  /\ k = KeyOf(e.by.request)
                          /\ Len(e.val) = 2
                          /\ SameContent(e.by.key, NewFrom(e.val[1]), e.val[2], e.by.request,
                                         NewFrom(e.val[1]).ctv = Claimed(e.by.request).ctv)
    BY DEF StoredAsSent
  <2> DEFINE e == redis[k]
             m == NewFrom(e.val[1])
  <2>1. Record(k, e.val, e.by)
    BY <1>1 DEF RecordInv, RedisInv, EntryOK
  <2> HIDE DEF e
  <2>2. /\ k = KeyOf(e.by.request) /\ Len(e.val) = 2
        /\ Keeps(e.by.key, m, e.val[2], e.by.key, Claimed(e.by.request), e.by.request.body)
    BY <2>1 DEF Record
  <2> HIDE DEF m
  <2>3. SameContent(e.by.key, m, e.val[2], e.by.request, m.ctv = Claimed(e.by.request).ctv)
    BY <2>2, MeansSent DEF Keeps
  <2> QED BY <2>2, <2>3 DEF e, m
<1> QED BY RecordsInOrder, <1>1, PTL

(* Whatever formats are configured, whatever is claimed about a body, and  *)
(* however handlers interleave and restarts intervene: a record written    *)
(* while Encryption was 1 is sealed with the key of that time and its      *)
(* magic byte says so.                                                     *)
THEOREM SealedAtRest == Spec => []EncryptedAtRest
<1>1. RecordInv => EncryptedAtRest
  BY DEF RecordInv, RedisInv, EntryOK, Record, SealedAs, EncryptedAtRest
<1> QED BY RecordsInOrder, <1>1, PTL

(* A record accepted under ValidateContent converts to JSON and protobuf,  *)
(* compressed or not, for as long as it is in Redis.                       *)
THEOREM ValidatedStaysReadable == Spec => []ValidatedReadable
<1>1. ASSUME RecordInv PROVE ValidatedReadable
  <2>1. ASSUME NEW k \in DOMAIN redis, Written(redis[k]), redis[k].by.validated,
               NEW ctv \in {ContentTypeJson, ContentTypeProtoBuf},
               NEW cev \in {ContentEncodingNone, ContentEncodingZstd}
        PROVE  ~Convert(redis[k].by.key, redis[k].by.request.keyspace,
                        NewFrom(redis[k].val[1]), NewMagicByte(cev, ctv, 0),
                        redis[k].val[2]).err
    <3> DEFINE e == redis[k]
    <3>1. Record(k, e.val, e.by)
      BY <1>1, <2>1 DEF RecordInv, RedisInv, EntryOK
    <3>2. /\ e.by.request.keyspace \in pbMessage /\ e.val[1] \in Byte
          /\ ~UnPackByPB(e.by.key, NewFrom(e.val[1]), e.val[2]).err
      BY <2>1, <3>1 DEF Record
    <3> HIDE DEF e
    <3>3. ~Convert(e.by.key, e.by.request.keyspace, NewFrom(e.val[1]),
                   NewMagicByte(cev, ctv, 0), e.val[2]).err
      BY <3>2, ByteType, ConvertReads
    <3> QED BY <3>3 DEF e
  <2> QED BY <2>1 DEF ValidatedReadable
<1> QED BY RecordsInOrder, <1>1, PTL

(* A record is kept for good only when its writer's Xttl says so, whatever *)
(* an INC's EXPIRE does to the key later.                                  *)
THEOREM RetainedByDefault == Spec => []ExpiresByDefault
<1>1. RecordInv => ExpiresByDefault
  BY DEF RecordInv, RedisInv, EntryOK, Retained, ExpiresByDefault
<1> QED BY RecordsInOrder, <1>1, PTL
=============================================================================
