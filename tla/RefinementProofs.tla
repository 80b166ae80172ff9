--------------------------- MODULE RefinementProofs ---------------------------
(***************************************************************************)
(* XdasStore implements RecordService: the proof, for any handlers,        *)
(* buffers, requests, configurations and number of late commands, of what  *)
(* StoreRefinement states.                                                 *)
(***************************************************************************)
EXTENDS StoreRefinement, AnswerProofs

-----------------------------------------------------------------------------
(* What bytes mean.                                                        *)

(* It is in what they decrypt to.                                          *)
LEMMA ContentOpened ==
    ASSUME NEW key, NEW key0, NEW m, NEW d,
           Decrypt(key, m.encryption, d) = Decrypt(key0, m.encryption, d)
    PROVE  Content(key, m, d) = Content(key0, m, d)
<1>1. Peel(key, m, d) = Peel(key0, m, d)
  BY DEF Peel
<1>2. UnPackByPB(key, m, d) = UnPackByPB(key0, m, d)
  BY <1>1 DEF UnPackByPB
<1> QED BY <1>1, <1>2 DEF Content

(* A conversion keeps it.                                                  *)
LEMMA ContentKept ==
    ASSUME NEW key, NEW m, NEW d, NEW key0, NEW m0, NEW d0,
           Keeps(key, m, d, key0, m0, d0)
    PROVE  Content(key, m, d) = Content(key0, m0, d0)
<1>1. CASE m.ctv = m0.ctv
  <2>1. /\ Peel(key, m, d) = Peel(key0, m0, d0)
        /\ UnPackByPB(key, m, d) = UnPackByPB(key0, m0, d0)
    BY <1>1, KeepsPeel
  <2>2. \/ ~Peel(key, m, d).err
        \/ /\ m.cev = m0.cev
           /\ Decrypt(key, m.encryption, d) = Decrypt(key0, m0.encryption, d0)
    BY <1>1 DEF Keeps, Means
  <2> QED BY <1>1, <2>1, <2>2 DEF Content
<1>2. CASE m.ctv # m0.ctv
  <2>1. /\ ~UnPackByPB(key, m, d).err /\ ~UnPackByPB(key0, m0, d0).err
        /\ UnPackByPB(key, m, d).data.val = UnPackByPB(key0, m0, d0).data.val
    BY <1>2 DEF Keeps, Means
  <2> QED BY <2>1 DEF Content
<1> QED BY <1>1, <1>2

(* Bytes that are not sealed mean the same whatever the key.               *)
LEMMA ContentPlain ==
    ASSUME NEW key, NEW key0, NEW m, m.encryption = 0, NEW d
    PROVE  Content(key, m, d) = Content(key0, m, d)
<1>1. Decrypt(key, m.encryption, d) = Decrypt(key0, m.encryption, d)
  BY DEF Decrypt
<1> QED BY <1>1, ContentOpened

(* A record means what its writer sent.                                    *)
LEMMA RecordContent ==
    ASSUME NEW k, NEW v, NEW by, Record(k, v, by)
    PROVE  Content(by.key, NewFrom(v[1]), v[2]) =
           Content(NoRequest, Claimed(by.request), by.request.body)
<1> DEFINE sent == Claimed(by.request)
<1>1. sent.encryption = 0
  BY DEF Claimed, New, NewMagicByte
<1>2. Keeps(by.key, NewFrom(v[1]), v[2], by.key, sent, by.request.body)
  BY DEF Record
<1> HIDE DEF sent
<1>3. Content(by.key, NewFrom(v[1]), v[2]) = Content(by.key, sent, by.request.body)
  BY <1>2, ContentKept
<1>4. Content(by.key, sent, by.request.body) = Content(NoRequest, sent, by.request.body)
  BY <1>1, ContentPlain
<1> QED BY <1>3, <1>4 DEF sent

(* And so does what is sent of it.                                         *)
LEMMA SentContent ==
    ASSUME RecordInv, NEW k \in DOMAIN redis, NEW ks, NEW out \in Formats(0),
           NEW a, Sent(a, k, ks, out), Record(k, redis[k].val, redis[k].by)
    PROVE  Content(NoRequest, Read(a), a.body) = Value(redis[k])
<1> DEFINE v    == redis[k].val
           by   == redis[k].by
           m    == NewFrom(v[1])
           sent == Claimed(by.request)
<1>1. /\ Keeps(config.Key, Read(a), a.body, config.Key, m, v[2])
      /\ Keeps(config.Key, m, v[2], by.key, sent, by.request.body)
  BY SentKeeps
<1>2. Read(a).encryption = 0 /\ sent.encryption = 0
  BY DEF Read, Claimed, New, NewMagicByte
<1>3. Content(by.key, m, v[2]) = Content(NoRequest, sent, by.request.body)
  BY RecordContent
<1>4. Value(redis[k]) = Content(by.key, m, v[2])
  BY SentRecord DEF Value
<1> HIDE DEF v, by, m, sent
<1>5. Content(config.Key, Read(a), a.body) = Content(by.key, sent, by.request.body)
  BY <1>1, ContentKept
<1>6. /\ Content(NoRequest, Read(a), a.body) = Content(config.Key, Read(a), a.body)
      /\ Content(NoRequest, sent, by.request.body) = Content(by.key, sent, by.request.body)
  BY <1>2, ContentPlain
<1> QED BY <1>3, <1>4, <1>5, <1>6

-----------------------------------------------------------------------------
(* What the mapping needs to know of the states, beside AnswerInv: in a    *)
(* Redis no other program writes to every string is a record, ...          *)
Own == \A k \in DOMAIN redis :
          redis[k].kind = "bytes" => Record(k, redis[k].val, redis[k].by)

(* ... the configuration came from a file, and a handler on its way to     *)
(* Redis has the retention of its request.                                 *)
Started == \E c \in Configs : config = getConfig(c)

Timed(f, p, r, l) ==
    /\ p \in {"storing"} \cup IncPhases => /\ r.keyspace \in DOMAIN f.Keyspaces
                                           /\ l.ttl = TTLOf(f, r)
    /\ p = "deleting" => r.op = "del"

TimedInv == \A h \in Handlers : Timed(config, phase[h], req[h], local[h])

RefInv == AnswerInv /\ Own /\ Started /\ TimedInv

(* Every command in order leaves only records behind.                      *)
LEMMA OwnAfter ==
    ASSUME Own, NEW k,
           \/ redis' = redis
           \/ redis' = Del(k)
           \/ \E e : /\ redis' = Store(k, e)
                     /\ e.kind = "bytes" => Record(k, e.val, e.by)
    PROVE  Own'
<1>1. CASE redis' = redis
  BY <1>1 DEF Own
<1>2. CASE redis' = Del(k)
  BY <1>2 DEF Own, Del
<1>3. ASSUME NEW e, redis' = Store(k, e), e.kind = "bytes" => Record(k, e.val, e.by)
      PROVE  Own'
  <2>1. ASSUME NEW x \in DOMAIN redis', redis'[x].kind = "bytes"
        PROVE  Record(x, redis'[x].val, redis'[x].by)
    <3>1. x \in DOMAIN redis \cup {k} /\ redis'[x] = IF x = k THEN e ELSE redis[x]
      BY <1>3, <2>1 DEF Store
    <3> QED BY <1>3, <2>1, <3>1 DEF Own
  <2> QED BY <2>1 DEF Own
<1> QED BY <1>1, <1>2, <1>3

(* So Redis stays our own.                                                 *)
LEMMA OwnRun ==
    ASSUME Own, NEW c, CommandOK(c), redis' = Run(c)
    PROVE  Own'
<1>1. CASE c.op = "set"
  <2> DEFINE e == Entry("bytes", c.val, IF c.ttl > 0 THEN c.ttl ELSE 0, c.by)
  <2>1. redis' = Store(c.key, e)
    BY <1>1 DEF Run, Set
  <2>2. e.val = c.val /\ e.by = c.by
    BY DEF Entry
  <2>3. Record(c.key, c.val, c.by)
    BY <1>1 DEF CommandOK
  <2> HIDE DEF e
  <2> QED BY <2>1, <2>2, <2>3, OwnAfter
<1>2. CASE c.op = "del"
  BY <1>2, OwnAfter DEF Run
<1>3. CASE c.op = "inc"
  <2> DEFINE old == IF Has(c.key) THEN redis[c.key] ELSE Entry("int", 0, 0, Nobody)
             e   == Entry("int", old.val + c.n, old.ttl, old.by)
  <2>1. redis' = redis \/ redis' = Store(c.key, e)
    BY <1>3 DEF Run, IncrBy
  <2>2. e.kind = "int"
    BY DEF Entry
  <2> HIDE DEF e
  <2> QED BY <2>1, <2>2, OwnAfter
<1>4. CASE c.op = "expire"
  <2> DEFINE e == Entry(redis[c.key].kind, redis[c.key].val, c.ttl, redis[c.key].by)
  <2>1. \/ redis' = redis \/ redis' = Del(c.key)
        \/ Has(c.key) /\ redis' = Store(c.key, e)
    BY <1>4 DEF Run, ExpireKey
  <2>2. e.kind = redis[c.key].kind /\ e.val = redis[c.key].val /\ e.by = redis[c.key].by
    BY DEF Entry
  <2>3. Has(c.key) => (redis[c.key].kind = "bytes"
                          => Record(c.key, redis[c.key].val, redis[c.key].by))
    BY DEF Own, Has
  <2> HIDE DEF e
  <2> QED BY <2>1, <2>2, <2>3, OwnAfter
<1> QED BY <1>1, <1>2, <1>3, <1>4 DEF CommandOK

(* A step of one handler h leaves the others where they are.               *)
LEMMA TimedAfter ==
    ASSUME RefInv, NEW h \in Handlers, config' = config,
           NEW p, phase' = [phase EXCEPT ![h] = p],
           NEW q, req' = [req EXCEPT ![h] = q],
           NEW l, local' = [local EXCEPT ![h] = l],
           Timed(config, p, q, l)
    PROVE  TimedInv'
<1>1. DOMAIN phase = Handlers /\ DOMAIN req = Handlers /\ DOMAIN local = Handlers
  BY DEF RefInv, AnswerInv, RecordInv, BufferInv, Shape, HandlerInv
<1>2. ASSUME NEW g \in Handlers PROVE Timed(config', phase'[g], req'[g], local'[g])
  <2>1. CASE g = h
    BY <1>1, <2>1
  <2>2. CASE g # h
    <3>1. phase'[g] = phase[g] /\ req'[g] = req[g] /\ local'[g] = local[g]
      BY <1>1, <2>2
    <3> QED BY <3>1 DEF RefInv, TimedInv
  <2> QED BY <2>1, <2>2
<1> QED BY <1>2 DEF TimedInv

(* The first step of a handler gives it the retention of its request.      *)
LEMMA TimedArrive ==
    ASSUME RefInv, NEW h \in Handlers, NEW r \in Requests, Arrive(h, r)
    PROVE  TimedInv'
<1>1. config' = config /\ req' = [req EXCEPT ![h] = r]
  BY DEF Arrive, PutReject, PutBegin, HandleGet, HandleMultiGet, ReadFails, DelReject,
         DelBegin, IncReject, IncBegin, Accept
<1>2. local = [local EXCEPT ![h] = local[h]] /\ local[h] \in Locals
  BY AsItIs DEF RefInv, AnswerInv
<1>3. CASE IncBegin(h, r)
  <2> DEFINE l == [local[h] EXCEPT !.ttl = TTLOf(config, r)]
  <2>1. /\ phase' = [phase EXCEPT ![h] = "incrementing"]
        /\ r.keyspace \in DOMAIN config.Keyspaces
    BY <1>3 DEF IncBegin, Goto, AtomicKeyspace, Known
  <2>2. local' = [local EXCEPT ![h] = l]
    BY <1>3 DEF IncBegin, TTLOf
  <2>3. l.ttl = TTLOf(config, r)
    BY <1>2 DEF Locals
  <2> HIDE DEF l
  <2>4. Timed(config, "incrementing", r, l)
    BY <2>1, <2>3 DEF Timed
  <2> QED BY <1>1, <2>1, <2>2, <2>4, TimedAfter
<1>4. CASE DelBegin(h, r)
  <2>1. /\ phase' = [phase EXCEPT ![h] = "deleting"] /\ r.op = "del"
        /\ local' = [local EXCEPT ![h] = local[h]]
    BY <1>2, <1>4 DEF DelBegin, Goto
  <2>2. Timed(config, "deleting", r, local[h])
    BY <2>1 DEF Timed, IncPhases
  <2> QED BY <1>1, <2>1, <2>2, TimedAfter
<1>5. CASE \/ PutReject(h, r) \/ PutBegin(h, r) \/ HandleGet(h, r) \/ HandleMultiGet(h, r)
           \/ ReadFails(h, r) \/ DelReject(h, r) \/ IncReject(h, r)
  <2>1. PICK p \in {"reading", "replied"} : phase' = [phase EXCEPT ![h] = p]
    BY <1>5 DEF PutReject, PutBegin, HandleGet, HandleMultiGet, ReadFails, DelReject,
                IncReject, Goto, Reply
  <2>2. local' = [local EXCEPT ![h] = local[h]]
    BY <1>2, <1>5 DEF PutReject, PutBegin, HandleGet, HandleMultiGet, ReadFails, DelReject,
                      IncReject
  <2>3. Timed(config, p, r, local[h])
    BY DEF Timed, IncPhases
  <2> QED BY <1>1, <2>1, <2>2, <2>3, TimedAfter
<1> QED BY <1>3, <1>4, <1>5 DEF Arrive

(* The later steps leave it so.                                            *)
LEMMA TimedProceed ==
    ASSUME RefInv, NEW h \in Handlers, Proceed(h)
    PROVE  TimedInv'
<1>1. config' = config
  BY DEF Proceed, PutRead, PutReadFails, PutConvert, PutConvertFails, PutSet, DelRun,
         IncIncrBy, IncExpire, Retry, GiveUp, Unanswered, Return
<1>2. /\ local = [local EXCEPT ![h] = local[h]] /\ local[h] \in Locals
      /\ req = [req EXCEPT ![h] = req[h]]
  BY AsItIs DEF RefInv, AnswerInv
<1>3. Timed(config, phase[h], req[h], local[h])
  BY DEF RefInv, TimedInv
<1>4. CASE PutConvert(h)
  <2> DEFINE l == [local[h] EXCEPT !.ttl = TTLOf(config, req[h])]
  <2>1. phase' = [phase EXCEPT ![h] = "storing"] /\ phase[h] = "read"
    BY <1>4 DEF PutConvert, Goto
  <2>2. local' = [local EXCEPT ![h] = l] /\ req' = [req EXCEPT ![h] = req[h]]
    BY <1>2, <1>4 DEF PutConvert, TTLOf
  <2>3. l.ttl = TTLOf(config, req[h])
    BY <1>2 DEF Locals
  <2>4. req[h].keyspace \in DOMAIN config.Keyspaces
    BY <2>1 DEF RefInv, AnswerInv, RecordInv, HandlerInv, Serving, PutPhases, Known
  <2> HIDE DEF l
  <2>5. Timed(config, "storing", req[h], l)
    BY <2>3, <2>4 DEF Timed
  <2> QED BY <1>1, <2>1, <2>2, <2>5, TimedAfter
<1>5. CASE IncIncrBy(h)
  <2> DEFINE result == IncrBy(KeyOf(req[h]), IncrementOf(req[h]))
             l == [local[h] EXCEPT !.err = result.err, !.n = result.n]
  <2>1. phase' = [phase EXCEPT ![h] = "expiring"] /\ phase[h] = "incrementing"
    BY <1>5 DEF IncIncrBy, Goto
  <2>2. local' = [local EXCEPT ![h] = l] /\ req' = [req EXCEPT ![h] = req[h]]
    BY <1>2, <1>5 DEF IncIncrBy
  <2>3. l.ttl = local[h].ttl
    BY <1>2 DEF Locals
  <2> HIDE DEF l
  <2>4. Timed(config, "expiring", req[h], l)
    BY <1>3, <2>1, <2>3 DEF Timed, IncPhases
  <2> QED BY <1>1, <2>1, <2>2, <2>4, TimedAfter
<1>6. CASE Retry(h)
  <2> DEFINE l == [local[h] EXCEPT !.tries = @ + 1]
             p == IF phase[h] = "expiring" THEN "incrementing" ELSE phase[h]
  <2>1. phase' = [phase EXCEPT ![h] = p] /\ req' = [req EXCEPT ![h] = req[h]]
    BY <1>2, <1>6 DEF Retry, Goto, Unanswered
  <2>2. local' = [local EXCEPT ![h] = l]
    BY <1>6 DEF Retry
  <2>3. l.ttl = local[h].ttl
    BY <1>2 DEF Locals
  <2> HIDE DEF l
  <2>4. Timed(config, p, req[h], l)
    BY <1>3, <2>3 DEF Timed, IncPhases
  <2> HIDE DEF p
  <2> QED BY <1>1, <2>1, <2>2, <2>4, TimedAfter
<1>7. \A p \in {"idle", "read", "replied"} : \A r, l : Timed(config, p, r, l)
  BY DEF Timed, IncPhases
<1>8. CASE \/ PutRead(h) \/ PutReadFails(h) \/ PutConvertFails(h) \/ PutSet(h) \/ DelRun(h)
           \/ IncExpire(h) \/ GiveUp(h)
  <2>1. PICK p \in {"read", "replied"} : phase' = [phase EXCEPT ![h] = p]
    BY <1>8 DEF PutRead, PutReadFails, PutConvertFails, PutSet, DelRun, IncExpire, GiveUp,
                Goto, Reply
  <2>2. req' = [req EXCEPT ![h] = req[h]] /\ local' = [local EXCEPT ![h] = local[h]]
    BY <1>2, <1>8 DEF PutRead, PutReadFails, PutConvertFails, PutSet, DelRun, IncExpire,
                      GiveUp, Unanswered
  <2> QED BY <1>1, <1>7, <2>1, <2>2, TimedAfter
<1>9. CASE Return(h)
  <2>1. /\ phase' = [phase EXCEPT ![h] = "idle"] /\ req' = [req EXCEPT ![h] = NoRequest]
        /\ local' = [local EXCEPT ![h] = NoLocal]
    BY <1>9 DEF Return
  <2> QED BY <1>1, <1>7, <2>1, TimedAfter
<1> QED BY <1>4, <1>5, <1>6, <1>8, <1>9 DEF Proceed

(* The invariant holds when the process starts on an empty Redis ...       *)
LEMMA RefInit ==
    ASSUME Init, \A db \in Preloaded : DOMAIN db = {}
    PROVE  RefInv
<1>1. AnswerInv
  BY AnswerStart
<1>2. Own /\ Started /\ TimedInv
  BY DEF Init, Own, Started, TimedInv, Timed, IncPhases
<1> QED BY <1>1, <1>2 DEF RefInv

(* ... and after every step.                                               *)
LEMMA RefStep == RefInv /\ [Next]_vars => RefInv'
<1> SUFFICES ASSUME RefInv, [Next]_vars PROVE RefInv'
  OBVIOUS
<1>1. AnswerInv'
  BY AnswerStep DEF RefInv
<1>2. RecordInv /\ Own
  BY DEF RefInv, AnswerInv
<1>3. ASSUME NEW h \in Handlers, NEW r \in Requests, Arrive(h, r) PROVE RefInv'
  <2>1. config' = config /\ redis' = redis
    BY <1>3 DEF Arrive, PutReject, PutBegin, HandleGet, HandleMultiGet, ReadFails, DelReject,
       DelBegin, IncReject, IncBegin
  <2>2. Own' /\ Started'
    BY <2>1 DEF RefInv, Own, Started
  <2> QED BY <1>1, <1>3, <2>2, TimedArrive DEF RefInv
<1>4. ASSUME NEW h \in Handlers, Proceed(h) PROVE RefInv'
  <2>1. config' = config
    BY <1>4 DEF Proceed, PutRead, PutReadFails, PutConvert, PutConvertFails, PutSet, DelRun,
       IncIncrBy, IncExpire, Retry, GiveUp, Unanswered, Return
  <2>2. Started'
    BY <2>1 DEF RefInv, Started
  <2>3. Own'
    <3>1. CASE PutSet(h)
      BY <1>2, <3>1, PutOK, OwnRun DEF PutSet
    <3>2. CASE DelRun(h)
      BY <1>2, <3>2, OthersOK, OwnRun DEF DelRun
    <3>3. CASE IncIncrBy(h)
      BY <1>2, <3>3, OthersOK, OwnRun DEF IncIncrBy, IncPhases
    <3>4. CASE IncExpire(h)
      BY <1>2, <3>4, OthersOK, OwnRun DEF IncExpire, IncPhases
    <3>5. CASE \/ PutRead(h) \/ PutReadFails(h) \/ PutConvert(h) \/ PutConvertFails(h)
               \/ Retry(h) \/ GiveUp(h) \/ Return(h)
      <4>1. redis' = redis
        BY <3>5 DEF PutRead, PutReadFails, PutConvert, PutConvertFails, Retry, GiveUp,
                    Unanswered, Return
      <4> QED BY <1>2, <4>1 DEF Own
    <3> QED BY <1>4, <3>1, <3>2, <3>3, <3>4, <3>5 DEF Proceed
  <2> QED BY <1>1, <1>4, <2>2, <2>3, TimedProceed DEF RefInv
<1>5. CASE \/ \E b \in Buffers : GC(b)
           \/ \E k \in DOMAIN redis : Expires(k)
           \/ \E s \in Slots : TakesEffect(s)
           \/ UNCHANGED vars
  <2>1. config' = config /\ phase' = phase /\ req' = req /\ local' = local
    BY <1>5 DEF GC, Expires, TakesEffect, vars
  <2>2. Started' /\ TimedInv'
    BY <2>1 DEF RefInv, Started, TimedInv, Timed
  <2>3. Own'
    <3>1. CASE (\E b \in Buffers : GC(b)) \/ UNCHANGED vars
      <4>1. redis' = redis
        BY <3>1 DEF GC, vars
      <4> QED BY <1>2, <4>1 DEF Own
    <3>2. ASSUME NEW k \in DOMAIN redis, Expires(k) PROVE Own'
      BY <1>2, <3>2, OwnAfter DEF Expires
    <3>3. ASSUME NEW s \in Slots, TakesEffect(s) PROVE Own'
      <4>1. CommandOK(late[s]) /\ redis' = Run(late[s])
        BY <1>2, <3>3 DEF TakesEffect, RecordInv, LateInv
      <4> QED BY <1>2, <4>1, OwnRun
    <3> QED BY <1>5, <3>1, <3>2, <3>3
  <2> QED BY <1>1, <2>2, <2>3 DEF RefInv
<1>6. CASE Restart
  <2>1. Own'
    BY <1>2, <1>6 DEF Restart, Own
  <2>2. Started'
    BY <1>6 DEF Restart, Started
  <2>3. TimedInv'
    BY <1>6 DEF Restart, TimedInv, Timed, IncPhases
  <2> QED BY <1>1, <2>1, <2>2, <2>3 DEF RefInv
<1> QED BY <1>3, <1>4, <1>5, <1>6 DEF Next

-----------------------------------------------------------------------------
(* Redis as the abstract map: commands are the effects of calls.           *)

(* A key dropped from Redis is removed from the map.                       *)
LEMMA DropsKey ==
    ASSUME NEW k, redis' = Del(k) PROVE dbBar' = Service!Remove(k)
<1>1. DOMAIN redis' = DOMAIN redis \ {k} /\ \A x \in DOMAIN redis' : redis'[x] = redis[x]
  BY DEF Del
<1> QED BY <1>1 DEF dbBar, Service!Remove

(* An entry stored in Redis is put in the map.                             *)
LEMMA StoresKey ==
    ASSUME NEW k, NEW e, redis' = Store(k, e)
    PROVE  dbBar' = Service!Put(k, Value(e), Life(e.ttl, "kept"))
<1>1. /\ DOMAIN redis' = DOMAIN redis \cup {k}
      /\ \A x \in DOMAIN redis' : redis'[x] = IF x = k THEN e ELSE redis[x]
  BY DEF Store
<1>2. DOMAIN dbBar = DOMAIN redis
  BY DEF dbBar
<1>3. \A x \in DOMAIN redis : dbBar[x] = [value |-> Value(redis[x]),
                                          life  |-> Life(redis[x].ttl, "kept")]
  BY DEF dbBar
<1>4. dbBar' = [x \in DOMAIN redis' |-> [value |-> Value(redis'[x]),
                                         life  |-> Life(redis'[x].ttl, "kept")]]
  BY DEF dbBar
<1>5. ASSUME NEW x \in DOMAIN redis'
      PROVE  [value |-> Value(redis'[x]), life |-> Life(redis'[x].ttl, "kept")] =
             IF x = k THEN [value |-> Value(e), life |-> Life(e.ttl, "kept")] ELSE dbBar[x]
  BY <1>1, <1>3
<1> QED BY <1>1, <1>2, <1>4, <1>5 DEF Service!Put

(* The map shows a counter exactly where Redis has an integer.             *)
LEMMA CurrentEntry ==
    ASSUME RedisInv, NEW k
    PROVE  LET old == IF Has(k) THEN redis[k] ELSE Entry("int", 0, 0, Nobody)
               cur == Service!Current(k)
           IN  /\ cur.value = Value(old) /\ cur.life = Life(old.ttl, "kept")
               /\ old.kind = "int" => cur.value = [counter |-> old.val]
               /\ "counter" \in DOMAIN cur.value <=> old.kind = "int"
<1> DEFINE old == IF Has(k) THEN redis[k] ELSE Entry("int", 0, 0, Nobody)
           cur == Service!Current(k)
<1>1. cur.value = Value(old) /\ cur.life = Life(old.ttl, "kept")
  <2>1. CASE Has(k)
    BY <2>1 DEF Service!Current, dbBar, Has
  <2>2. CASE ~Has(k)
    BY <2>2 DEF Service!Current, dbBar, Has, Value, Life, Entry
  <2> QED BY <2>1, <2>2
<1>2. old.kind = "int" => Value(old) = [counter |-> old.val]
  BY DEF Value
<1>3. old.kind # "int" => "counter" \notin DOMAIN Value(old)
  BY DEF Value, Content
<1> HIDE DEF old, cur
<1>4. "counter" \in DOMAIN cur.value <=> old.kind = "int"
  BY <1>1, <1>2, <1>3
<1> QED BY <1>1, <1>2, <1>4 DEF old, cur

(* INCRBY counts as the map does.                                          *)
LEMMA CountsAlike ==
    ASSUME RedisInv, NEW k, NEW n
    PROVE  LET result == IncrBy(k, n)
           IN  /\ result.err <=> ~Service!Counts(k, n)
               /\ ~result.err => result.n = Service!Sum(k, n)
               /\ redis' = result.db => dbBar' = Service!Incremented(k, n)
<1> DEFINE old == IF Has(k) THEN redis[k] ELSE Entry("int", 0, 0, Nobody)
           cur == Service!Current(k)
           e   == Entry("int", old.val + n, old.ttl, old.by)
<1>1. /\ cur.value = Value(old) /\ cur.life = Life(old.ttl, "kept")
      /\ old.kind = "int" => cur.value = [counter |-> old.val]
      /\ "counter" \in DOMAIN cur.value <=> old.kind = "int"
  BY CurrentEntry
<1>2. IncrBy(k, n) = IF old.kind = "int" /\ old.val + n \in Int64
                     THEN [err |-> FALSE, n |-> old.val + n, db |-> Store(k, e)]
                     ELSE [err |-> TRUE, n |-> 0, db |-> redis]
  BY DEF IncrBy
<1>3. e.ttl = old.ttl /\ Value(e) = [counter |-> old.val + n]
  BY DEF Entry, Value
<1> HIDE DEF old, e
<1>4. CASE old.kind = "int" /\ old.val + n \in Int64
  <2>1. Service!Counts(k, n) /\ Service!Sum(k, n) = old.val + n
    BY <1>1, <1>4 DEF Service!Counts, Service!Sum, Int64, cur
  <2>2. /\ ~IncrBy(k, n).err /\ IncrBy(k, n).n = old.val + n
        /\ IncrBy(k, n).db = Store(k, e)
    BY <1>2, <1>4
  <2>3. redis' = Store(k, e) => dbBar' = Service!Incremented(k, n)
    BY <1>1, <1>3, <2>1, StoresKey DEF Service!Incremented, cur
  <2> QED BY <2>1, <2>2, <2>3
<1>5. CASE ~(old.kind = "int" /\ old.val + n \in Int64)
  <2>1. ~Service!Counts(k, n)
    BY <1>1, <1>5 DEF Service!Counts, Int64, cur
  <2>2. IncrBy(k, n).err /\ IncrBy(k, n).db = redis
    BY <1>2, <1>5
  <2>3. redis' = redis => dbBar' = Service!Incremented(k, n)
    BY <2>1 DEF Service!Incremented, dbBar
  <2> QED BY <2>1, <2>2, <2>3
<1> QED BY <1>4, <1>5

(* EXPIRE renews, or removes.                                              *)
LEMMA RenewsAlike ==
    ASSUME NEW k, NEW ttl \in Int64, redis' = ExpireKey(k, ttl)
    PROVE  dbBar' = Service!Renewed(k, Life(ttl, "gone"))
<1> DEFINE e == Entry(redis[k].kind, redis[k].val, ttl, redis[k].by)
<1>1. ttl \in Int
  BY WordAssumption DEF Int64
<1>2. DOMAIN dbBar = DOMAIN redis
  BY DEF dbBar
<1>3. CASE ~Has(k)
  <2>1. redis' = redis
    BY <1>3 DEF ExpireKey
  <2> QED BY <1>2, <1>3, <2>1 DEF Has, Service!Renewed, dbBar
<1>4. CASE Has(k) /\ ttl <= 0
  <2>1. redis' = Del(k)
    BY <1>4 DEF ExpireKey
  <2>2. Life(ttl, "gone") = "gone"
    BY <1>1, <1>4 DEF Life
  <2> QED BY <1>2, <1>4, <2>1, <2>2, DropsKey DEF Has, Service!Renewed
<1>5. CASE Has(k) /\ ~(ttl <= 0)
  <2>1. redis' = Store(k, e)
    BY <1>5 DEF ExpireKey
  <2>2. Life(ttl, "gone") = "transient" /\ Life(ttl, "kept") = "transient"
    BY <1>1, <1>5 DEF Life
  <2>3. Value(e) = Value(redis[k]) /\ e.ttl = ttl
    BY DEF Value, Entry
  <2>4. dbBar[k].value = Value(redis[k])
    BY <1>5 DEF dbBar, Has
  <2> HIDE DEF e
  <2>5. dbBar' = Service!Put(k, Value(e), Life(e.ttl, "kept"))
    BY <2>1, StoresKey
  <2> QED BY <1>2, <1>5, <2>2, <2>3, <2>4, <2>5 DEF Has, Service!Renewed
<1> QED BY <1>3, <1>4, <1>5

(* So a command does what its call promises, ...                           *)
LEMMA RunEffect ==
    ASSUME RedisInv, NEW c, CommandOK(c), redis' = Run(c)
    PROVE  dbBar' = Service!Effect(WriteOf(c))
<1>1. CASE c.op = "set"
  <2> DEFINE e == Entry("bytes", c.val, IF c.ttl > 0 THEN c.ttl ELSE 0, c.by)
             v == Content(c.by.key, NewFrom(c.val[1]), c.val[2])
  <2>1. redis' = Store(c.key, e)
    BY <1>1 DEF Run, Set
  <2>2. Value(e) = v
    BY DEF Value, Entry
  <2>3. Life(e.ttl, "kept") = Life(c.ttl, "kept")
    <3>1. c.ttl \in Int
      BY <1>1, WordAssumption DEF CommandOK, Int64
    <3> QED BY <3>1 DEF Life, Entry
  <2> HIDE DEF e, v
  <2>4. WriteOf(c) = [op |-> "put", key |-> c.key, life |-> Life(c.ttl, "kept"), value |-> v]
    BY <1>1 DEF WriteOf, v
  <2>5. Service!Effect(WriteOf(c)) = Service!Put(c.key, v, Life(c.ttl, "kept"))
    BY <2>4 DEF Service!Effect
  <2> QED BY <2>1, <2>2, <2>3, <2>5, StoresKey
<1>2. CASE c.op = "del"
  <2>1. WriteOf(c) = [op |-> "del", key |-> c.key]
    BY <1>2 DEF WriteOf
  <2>2. Service!Effect(WriteOf(c)) = Service!Remove(c.key)
    BY <2>1 DEF Service!Effect
  <2> QED BY <1>2, <2>2, DropsKey DEF Run
<1>3. CASE c.op = "inc"
  <2>1. WriteOf(c) = [op |-> "inc", key |-> c.key, n |-> c.n, life |-> Life(c.ttl, "gone")]
    BY <1>3 DEF WriteOf
  <2>2. Service!Effect(WriteOf(c)) = Service!Incremented(c.key, c.n)
    BY <2>1 DEF Service!Effect
  <2>3. redis' = IncrBy(c.key, c.n).db
    BY <1>3 DEF Run
  <2> QED BY <2>2, <2>3, CountsAlike
<1>4. CASE c.op = "expire"
  <2>1. WriteOf(c) = [op |-> "renew", key |-> c.key, life |-> Life(c.ttl, "gone")]
    BY <1>4 DEF WriteOf
  <2>2. Service!Effect(WriteOf(c)) = Service!Renewed(c.key, Life(c.ttl, "gone"))
    BY <2>1 DEF Service!Effect
  <2>3. redis' = ExpireKey(c.key, c.ttl) /\ c.ttl \in Int64
    BY <1>4 DEF Run, CommandOK
  <2> QED BY <2>2, <2>3, RenewsAlike
<1> QED BY <1>1, <1>2, <1>3, <1>4 DEF CommandOK

(* ... and leaves behind what the call has left to do.                     *)
LEMMA AfterRest ==
    ASSUME NEW c, CommandOK(c)
    PROVE  WriteOf(After(c)) = Service!Rest(WriteOf(c)) /\ WriteOf(c) # NoCall
<1>1. WriteOf(NoCommand) = NoCall
  BY DEF WriteOf, NoCommand
<1>2. CASE c.op = "inc"
  <2>1. WriteOf(c) = [op |-> "inc", key |-> c.key, n |-> c.n, life |-> Life(c.ttl, "gone")]
    BY <1>2 DEF WriteOf
  <2>2. After(c) = [op |-> "expire", key |-> c.key, ttl |-> c.ttl]
    BY <1>2 DEF After, ExpireCommand
  <2>3. WriteOf(After(c)) = [op |-> "renew", key |-> c.key, life |-> Life(c.ttl, "gone")]
    BY <2>2 DEF WriteOf
  <2>4. Service!Rest(WriteOf(c)) =
          [op |-> "renew", key |-> c.key, life |-> Life(c.ttl, "gone")]
    BY <2>1 DEF Service!Rest
  <2>5. WriteOf(c).op # NoCall.op
    BY <2>1 DEF NoCall
  <2> QED BY <2>3, <2>4, <2>5
<1>3. CASE c.op \in {"set", "del", "expire"}
  <2>1. After(c) = NoCommand
    BY <1>3 DEF After
  <2>2. WriteOf(c).op \in {"put", "del", "renew"}
    BY <1>3 DEF WriteOf
  <2>3. Service!Rest(WriteOf(c)) = NoCall
    BY <2>2 DEF Service!Rest
  <2>4. WriteOf(c).op # NoCall.op
    BY <2>2 DEF NoCall
  <2> QED BY <1>1, <2>1, <2>3, <2>4
<1> QED BY <1>2, <1>3 DEF CommandOK

-----------------------------------------------------------------------------
(* The calls of a handler.                                                 *)

(* The handlers look where the client means.                               *)
LEMMA KeyAsked == ASSUME NEW r PROVE AskedKey(r) = KeyOf(r)
BY DEF AskedKey, KeyOf, redisKey, getID

(* A request that arrived is one of the calls.                             *)
LEMMA CallAllowed ==
    ASSUME RefInv, NEW r \in Requests PROVE CallOf(config, r) \in AllCalls
BY DEF RefInv, Started, AllCalls

(* What a handler waits for is its call, or the rest of it.                *)
LEMMA AwaitedCall ==
    ASSUME RefInv, NEW h \in Handlers
    PROVE  LET w == CallOf(config, req[h])
           IN  /\ phase[h] \in {"storing", "deleting", "incrementing"} =>
                    WriteOf(Awaited(h)) = w
               /\ phase[h] = "expiring" => WriteOf(Awaited(h)) = Service!Rest(w)
               /\ phase[h] = "storing" => w.op = "put"
               /\ phase[h] = "deleting" => w = [op |-> "del", key |-> KeyOf(req[h])]
               /\ phase[h] \in IncPhases =>
                    w = [op |-> "inc", key |-> KeyOf(req[h]), n |-> IncrementOf(req[h]),
                         life |-> Life(local[h].ttl, "gone")]
<1> DEFINE r == req[h]
           w == CallOf(config, r)
<1>1. /\ RecordInv /\ Serving(h) /\ Staged(h) /\ Timed(config, phase[h], r, local[h])
  BY DEF RefInv, AnswerInv, RecordInv, HandlerInv, StagedInv, TimedInv
<1>2. ASSUME phase[h] = "storing" PROVE WriteOf(Awaited(h)) = w /\ w.op = "put"
  <2> DEFINE v == mem[b2[h]]
             c == PutCommand(h)
  <2>1. r.op = "put" /\ r.keyspace \in DOMAIN config.Keyspaces
        /\ local[h].ttl = TTLOf(config, r)
    BY <1>1, <1>2 DEF Serving, Timed, PutPhases
  <2>2. LifeOf(config, r) = Life(local[h].ttl, "kept")
    BY <2>1 DEF LifeOf
  <2>3. w = [op |-> "put", key |-> KeyOf(r), life |-> Life(local[h].ttl, "kept"),
             value |-> Content(NoRequest, Claimed(r), r.body)]
    BY <2>1, <2>2, KeyAsked DEF CallOf, Claimed
  <2>4. /\ c.op = "set" /\ c.key = KeyOf(r) /\ c.ttl = local[h].ttl /\ c.val = v
        /\ c.by = History(h)
    BY DEF PutCommand, SetCommand
  <2>5. History(h).request = r
    BY DEF History
  <2>6. Record(KeyOf(r), v, History(h))
    BY <1>1, <1>2 DEF Staged
  <2>7. Awaited(h) = c
    BY <1>2 DEF Awaited
  <2> HIDE DEF v, c, w, r
  <2>8. Content(History(h).key, NewFrom(v[1]), v[2]) =
        Content(NoRequest, Claimed(r), r.body)
    BY <2>5, <2>6, RecordContent
  <2>9. WriteOf(c) = [op |-> "put", key |-> KeyOf(r), life |-> Life(local[h].ttl, "kept"),
                      value |-> Content(History(h).key, NewFrom(v[1]), v[2])]
    BY <2>4 DEF WriteOf
  <2> QED BY <2>3, <2>7, <2>8, <2>9
<1>3. ASSUME phase[h] = "deleting"
      PROVE  WriteOf(Awaited(h)) = w /\ w = [op |-> "del", key |-> KeyOf(r)]
  <2>1. r.op = "del"
    BY <1>1, <1>3 DEF Timed
  <2>2. w = [op |-> "del", key |-> KeyOf(r)]
    BY <2>1, KeyAsked DEF CallOf
  <2>3. Awaited(h) = [op |-> "del", key |-> KeyOf(r)]
    BY <1>3 DEF Awaited, DelCommand
  <2> QED BY <2>2, <2>3 DEF WriteOf
<1>4. ASSUME phase[h] \in IncPhases
      PROVE  /\ w = [op |-> "inc", key |-> KeyOf(r), n |-> IncrementOf(r),
                     life |-> Life(local[h].ttl, "gone")]
             /\ WriteOf(PipeCommand(h)) = w
             /\ WriteOf(After(PipeCommand(h))) = Service!Rest(w)
  <2>1. r.op = "inc" /\ r.keyspace \in DOMAIN config.Keyspaces
        /\ local[h].ttl = TTLOf(config, r)
    BY <1>1, <1>4 DEF Serving, Timed
  <2>2. LifeOf(config, r) = Life(local[h].ttl, "gone")
    BY <2>1 DEF LifeOf
  <2>3. w = [op |-> "inc", key |-> KeyOf(r), life |-> Life(local[h].ttl, "gone"),
             n |-> IncrementOf(r)]
    BY <2>1, <2>2, KeyAsked DEF CallOf
  <2>4. PipeCommand(h) = [op |-> "inc", key |-> KeyOf(r), n |-> IncrementOf(r),
                          ttl |-> local[h].ttl]
    BY DEF PipeCommand, IncCommand
  <2>5. WriteOf(PipeCommand(h)) = w
    BY <2>3, <2>4 DEF WriteOf
  <2>6. CommandOK(PipeCommand(h))
    BY <1>1, <1>4, OthersOK
  <2> QED BY <2>3, <2>5, <2>6, AfterRest
<1>5. /\ phase[h] = "incrementing" => Awaited(h) = PipeCommand(h)
      /\ phase[h] = "expiring" => Awaited(h) = After(PipeCommand(h))
  BY DEF Awaited
<1> HIDE DEF w
<1>6. /\ phase[h] = "incrementing" => WriteOf(Awaited(h)) = w
      /\ phase[h] = "expiring" => WriteOf(Awaited(h)) = Service!Rest(w)
  BY <1>4, <1>5 DEF IncPhases
<1> QED BY <1>2, <1>3, <1>4, <1>6 DEF w

(* A step of one handler h, ...                                            *)
Moves(h, p, q, l, x) ==
    /\ config' = config
    /\ phase' = [phase EXCEPT ![h] = p] /\ req' = [req EXCEPT ![h] = q]
    /\ local' = [local EXCEPT ![h] = l] /\ resp' = [resp EXCEPT ![h] = x]

(* ... seen through the mapping.                                           *)
Shows(h, p, q, l, x) ==
    /\ callBar' = [callBar EXCEPT ![h] = CallIn(config, p, q)]
    /\ stateBar' = [stateBar EXCEPT ![h] = StateOf(p)]
    /\ answerBar' = [answerBar EXCEPT ![h] = AnswerOf(config, p, q, l, x)]

(* The other clients see nothing of it.                                    *)
LEMMA BarsAfter ==
    ASSUME RefInv, NEW h \in Handlers, NEW p, NEW q, NEW l, NEW x, Moves(h, p, q, l, x)
    PROVE  Shows(h, p, q, l, x)
<1> USE DEF Moves
<1>1. /\ DOMAIN phase = Handlers /\ DOMAIN req = Handlers /\ DOMAIN local = Handlers
      /\ DOMAIN resp = Handlers
  BY DEF RefInv, AnswerInv, RecordInv, RepliesInv, BufferInv, Shape, HandlerInv
<1>2. phase'[h] = p /\ req'[h] = q /\ local'[h] = l /\ resp'[h] = x
  BY <1>1
<1>3. \A g \in Handlers : g # h => /\ phase'[g] = phase[g] /\ req'[g] = req[g]
                                   /\ local'[g] = local[g] /\ resp'[g] = resp[g]
  BY <1>1
<1>4. callBar' = [callBar EXCEPT ![h] = CallIn(config, p, q)]
  <2>1. callBar' = [g \in Handlers |-> CallIn(config', phase'[g], req'[g])]
    BY DEF callBar
  <2>2. callBar = [g \in Handlers |-> CallIn(config, phase[g], req[g])]
    BY DEF callBar
  <2>3. \A g \in Handlers :
          callBar'[g] = IF g = h THEN CallIn(config, p, q) ELSE callBar[g]
    BY <1>2, <1>3, <2>1, <2>2
  <2> QED BY <2>1, <2>2, <2>3
<1>5. stateBar' = [stateBar EXCEPT ![h] = StateOf(p)]
  <2>1. stateBar' = [g \in Handlers |-> StateOf(phase'[g])]
    BY DEF stateBar
  <2>2. stateBar = [g \in Handlers |-> StateOf(phase[g])]
    BY DEF stateBar
  <2>3. \A g \in Handlers : stateBar'[g] = IF g = h THEN StateOf(p) ELSE stateBar[g]
    BY <1>2, <1>3, <2>1, <2>2
  <2> QED BY <2>1, <2>2, <2>3
<1>6. answerBar' = [answerBar EXCEPT ![h] = AnswerOf(config, p, q, l, x)]
  <2>1. answerBar' =
          [g \in Handlers |-> AnswerOf(config', phase'[g], req'[g], local'[g], resp'[g])]
    BY DEF answerBar
  <2>2. answerBar =
          [g \in Handlers |-> AnswerOf(config, phase[g], req[g], local[g], resp[g])]
    BY DEF answerBar
  <2>3. \A g \in Handlers :
          answerBar'[g] = IF g = h THEN AnswerOf(config, p, q, l, x) ELSE answerBar[g]
    BY <1>2, <1>3, <2>1, <2>2
  <2> QED BY <2>1, <2>2, <2>3
<1> QED BY <1>4, <1>5, <1>6 DEF Shows

-----------------------------------------------------------------------------
(* The answers to reads.                                                   *)

(* The value in an answer with a body.                                     *)
LEMMA BodyValue ==
    ASSUME RefInv, NEW k \in DOMAIN redis, NEW ks, NEW out \in Formats(0),
           NEW a, Sent(a, k, ks, out), "raw" \notin DOMAIN a, "atomic" \notin DOMAIN a
    PROVE  /\ ValueOfAnswer(a) = Value(redis[k])
           /\ "content" \in DOMAIN Value(redis[k])
<1>1. RecordInv /\ Own
  BY DEF RefInv, AnswerInv
<1>2. redis[k].kind = "bytes"
  BY <1>1, SentRecord
<1>3. Record(k, redis[k].val, redis[k].by)
  BY <1>1, <1>2 DEF Own
<1>4. ValueOfAnswer(a) = Content(NoRequest, Read(a), a.body)
  BY DEF ValueOfAnswer, Read
<1>5. Content(NoRequest, Read(a), a.body) = Value(redis[k])
  BY <1>1, <1>3, SentContent
<1>6. "content" \in DOMAIN Value(redis[k])
  BY <1>2 DEF Value, Content
<1> QED BY <1>4, <1>5, <1>6

(* How an answer without headers is read.                                  *)
LEMMA ReadAs ==
    ASSUME NEW a, "raw" \in DOMAIN a, "atomic" \notin DOMAIN a
    PROVE  ValueOfAnswer(a) = IF a.read.kind = "int" THEN [counter |-> a.read.val]
                              ELSE Content(a.read.by.key, NewFrom(a.raw[1]), a.raw[2])
BY Zenon DEF ValueOfAnswer

(* The value in an answer with an entry as it is stored.                   *)
LEMMA StoredValue ==
    ASSUME RefInv, NEW k \in DOMAIN redis, NEW a, a.read = redis[k],
           \/ /\ "raw" \in DOMAIN a /\ "atomic" \notin DOMAIN a
              /\ LET stored == redisParseResult(redis[k])
                 IN  a.raw = <<Get(stored.magicByte), stored.data>>
           \/ /\ "raw" \notin DOMAIN a /\ "atomic" \in DOMAIN a
              /\ a.atomic = redis[k].val
    PROVE  ValueOfAnswer(a) = Value(redis[k])
<1> DEFINE e      == redis[k]
           stored == redisParseResult(e)
<1>1. Own /\ EntryOK(k, e)
  BY DEF RefInv, AnswerInv, RecordInv, RedisInv
<1>2. CASE "raw" \notin DOMAIN a
  BY <1>2 DEF ValueOfAnswer, Value
<1>3. CASE "raw" \in DOMAIN a /\ e.kind = "int"
  <2>1. ValueOfAnswer(a) = [counter |-> e.val]
    BY <1>3, ReadAs
  <2> QED BY <1>3, <2>1 DEF Value
<1>4. CASE "raw" \in DOMAIN a /\ e.kind # "int"
  <2>1. e.kind = "bytes" /\ Record(k, e.val, e.by)
    BY <1>1, <1>4 DEF Own, EntryOK
  <2>2. Len(e.val) = 2 /\ e.val[1] \in Byte
    BY <2>1 DEF Record
  <2>3. a.raw = <<Get(stored.magicByte), stored.data>>
    BY <1>4
  <2>4. stored.magicByte = NewFrom(e.val[1]) /\ stored.data = e.val[2]
    <3>1. e.val # <<>>
      BY <2>2
    <3> HIDE DEF e
    <3> QED BY <2>1, <3>1 DEF redisParseResult
  <2> HIDE DEF stored, e
  <2>5. NewFrom(Get(NewFrom(e.val[1]))) = NewFrom(e.val[1])
    BY <2>2, ByteType, RoundTrip
  <2>6. NewFrom(a.raw[1]) = NewFrom(e.val[1]) /\ a.raw[2] = e.val[2]
    BY <2>3, <2>4, <2>5
  <2>7. a.read = e
    BY DEF e
  <2>8. ValueOfAnswer(a) = Content(e.by.key, NewFrom(e.val[1]), e.val[2])
    BY <1>4, <2>6, <2>7, ReadAs
  <2> QED BY <1>4, <2>8 DEF Value, e
<1> QED BY <1>2, <1>3, <1>4

(* What is found is what the map shows.                                    *)
LEMMA FoundShown ==
    ASSUME NEW k \in DOMAIN redis, NEW r, r.op = "get", NEW a, a.code = 200,
           ValueOfAnswer(a) = Value(redis[k])
    PROVE  k \in DOMAIN dbBar /\ AnswerTo(config, r, a) = Service!Found(dbBar[k].value)
<1>1. k \in DOMAIN dbBar /\ dbBar[k].value = Value(redis[k])
  BY DEF dbBar
<1>2. AnswerTo(config, r, a) = Service!Found(ValueOfAnswer(a))
  BY DEF AnswerTo, Service!Found
<1> QED BY <1>1, <1>2

(* A GET is answered with what is there, or with an error.                 *)
LEMMA GetAnswered ==
    ASSUME RefInv, NEW r, r.op = "get", NEW a, a = GetAnswer(r), NEW k, k = KeyOf(r)
    PROVE  \/ AnswerTo(config, r, a) = Service!Error
           \/ k \in DOMAIN dbBar /\ AnswerTo(config, r, a) = Service!Found(dbBar[k].value)
           \/ k \notin DOMAIN dbBar /\ AnswerTo(config, r, a) = Service!Absent
<1>1. CASE ~Known(r.keyspace)
  <2>1. a.code = 400
    BY <1>1 DEF GetAnswer, Code
  <2> QED BY <2>1 DEF AnswerTo, Service!Error
<1>2. CASE Known(r.keyspace) /\ ~Has(k)
  <2>1. a.code = 404
    BY <1>2 DEF GetAnswer, Code
  <2>2. k \notin DOMAIN dbBar
    BY <1>2 DEF dbBar, Has
  <2> QED BY <2>1, <2>2 DEF AnswerTo, Service!Absent
<1>3. CASE Known(r.keyspace) /\ Has(k)
  <2>1. k \in DOMAIN redis
    BY <1>3 DEF Has
  <2>2. SUFFICES \/ a.code \in {400, 500}
                 \/ a.code = 200 /\ ValueOfAnswer(a) = Value(redis[k])
    <3>1. a.code \in {400, 500} => AnswerTo(config, r, a) = Service!Error
      BY DEF AnswerTo, Service!Error
    <3> QED BY <2>1, <2>2, <3>1, FoundShown
  <2>3. CASE config.Keyspaces[r.keyspace].Kind = "atomic"
    <3>1. a = [code |-> 200, atomic |-> redis[k].val, read |-> redis[k]]
      BY <1>3, <2>3 DEF GetAnswer
    <3>2. /\ a.code = 200 /\ a.read = redis[k] /\ a.atomic = redis[k].val
          /\ "raw" \notin DOMAIN a /\ "atomic" \in DOMAIN a
      BY <3>1
    <3> QED BY <2>1, <3>2, StoredValue
  <2>4. CASE config.Keyspaces[r.keyspace].Kind # "atomic"
    <3> DEFINE e      == redis[k]
               stored == redisParseResult(e)
               out    == Convert(config.Key, r.keyspace, stored.magicByte, OutFormat(r),
                                 stored.data)
               raw    == [code |-> 200, raw |-> <<Get(stored.magicByte), stored.data>>,
                          read |-> e]
               x      == [code |-> 200, headers |-> SetContentHeaders(out.magicByte),
                          body |-> out.data, read |-> e]
    <3>1. a = Code(500) \/ a = Code(400) \/ a = raw \/ a = x
      <4>1. a = GetFound(r, e)
        BY <1>3, <2>4 DEF GetAnswer
      <4>2. GetFound(r, e) =
              IF stored.err THEN Code(500)
              ELSE IF r.format = "raw" THEN raw
              ELSE IF r.format # "" /\ OutFormat(r).ctv = ContentTypeUnknown THEN Code(400)
              ELSE IF out.err THEN Code(500)
              ELSE x
        BY DEF GetFound
      <4> HIDE DEF e, stored, out, raw, x
      <4> QED BY <4>1, <4>2, Zenon
    <3>2. CASE a = Code(500) \/ a = Code(400)
      BY <3>2 DEF Code
    <3>3. CASE a = raw
      <4>1. /\ a.code = 200 /\ a.read = redis[k]
            /\ "raw" \in DOMAIN a /\ "atomic" \notin DOMAIN a
            /\ a.raw = <<Get(stored.magicByte), stored.data>>
        BY <3>3
      <4> HIDE DEF raw
      <4>2. ValueOfAnswer(a) = Value(redis[k])
        BY <2>1, <4>1, StoredValue
      <4> QED BY <4>1, <4>2
    <3>4. CASE a = x
      <4>1. /\ a.code = 200 /\ "raw" \notin DOMAIN a /\ "atomic" \notin DOMAIN a
            /\ "body" \in DOMAIN a
        BY <3>4
      <4> HIDE DEF x
      <4>2. a \in Bodies(GetAnswer(r))
        BY <4>1 DEF Bodies
      <4>3. /\ OutFormat(r) \in Formats(0)
            /\ Sent(a, k, r.keyspace, OutFormat(r))
        BY <4>2, GetSent DEF RefInv, AnswerInv
      <4>4. ValueOfAnswer(a) = Value(redis[k])
        BY <2>1, <4>1, <4>3, BodyValue
      <4> QED BY <4>1, <4>4
    <3> QED BY <3>1, <3>2, <3>3, <3>4
  <2> QED BY <2>3, <2>4
<1> QED BY <1>1, <1>2, <1>3

(* A part of a multi GET's answer has headers, a body and its history.     *)
LEMMA PartFields ==
    ASSUME NEW r, "parts" \in DOMAIN MultiAnswer(r), NEW i \in DOMAIN MultiAnswer(r).parts
    PROVE  DOMAIN MultiAnswer(r).parts[i] = {"headers", "body", "read"}
<1> DEFINE ks       == MultiKeyspaces(r)
           found    == {j \in MultiValid(r) : Has(MultiKey(r, ks[j]))}
           included == {j \in found : /\ ~MultiPart(r, ks[j]).err
                                      /\ ks[j] = "ct" => getID(r) \notin Underscored}
           missing  == {ks[j] : j \in MultiValid(r) \ found}
           part(j)  == [headers |-> SetContentHeaders(MultiPart(r, ks[j]).magicByte),
                        body    |-> MultiPart(r, ks[j]).data,
                        read    |-> redis[MultiKey(r, ks[j])]]
           none     == [code |-> 404, findx |-> Miss(r, missing)]
           some     == [code |-> 200, findx |-> Miss(r, missing),
                        parts |-> [j \in included |-> part(j)]]
<1>1. MultiAnswer(r) = IF included = {} THEN none ELSE some
  BY DEF MultiAnswer
<1>2. "parts" \notin DOMAIN none
  OBVIOUS
<1>3. some.parts = [j \in included |-> part(j)]
  OBVIOUS
<1>4. \A j : DOMAIN part(j) = {"headers", "body", "read"}
  OBVIOUS
<1> HIDE DEF none, some, part, included
<1>5. MultiAnswer(r) = some
  BY <1>1, <1>2
<1> QED BY <1>3, <1>4, <1>5

(* A multi GET is answered with some of the records it asked for, all as   *)
(* they are.                                                               *)
LEMMA MultiAnswered ==
    ASSUME RefInv, NEW r, r.op = "multi", NEW a, a = MultiAnswer(r)
    PROVE  \E keys \in SUBSET {k \in CallOf(config, r).keys \cap DOMAIN dbBar :
                                 "content" \in DOMAIN dbBar[k].value} :
             AnswerTo(config, r, a) = Service!Found([k \in keys |-> dbBar[k].value])
<1> DEFINE ks     == Asked(config, r)
           key(i) == MultiKey(r, ks[i])
<1>1. MultiKeyspaces(r) = ks /\ RecordInv
  BY DEF MultiKeyspaces, Asked, RefInv, AnswerInv
<1>2. CallOf(config, r).keys = {key(i) : i \in DOMAIN ks}
  BY DEF CallOf
<1>3. CASE a.code = 404
  <2>1. AnswerTo(config, r, a) = Service!Found([k \in {} |-> 0])
    BY <1>3 DEF AnswerTo, Service!Found
  <2>2. [k \in {} |-> 0] = [k \in {} |-> dbBar[k].value]
    OBVIOUS
  <2> QED BY <2>1, <2>2
<1>4. CASE a.code = 200 /\ "parts" \in DOMAIN a
  <2> DEFINE parts == a.parts
             keys  == {key(i) : i \in DOMAIN parts}
             at(k) == CHOOSE i \in DOMAIN parts : key(i) = k
  <2>1. ASSUME NEW i \in DOMAIN parts
        PROVE  /\ i \in DOMAIN ks /\ key(i) \in DOMAIN redis
               /\ ValueOfAnswer(parts[i]) = Value(redis[key(i)])
               /\ "content" \in DOMAIN Value(redis[key(i)])
    <3>1. /\ i \in DOMAIN ks /\ key(i) \in DOMAIN redis
          /\ config.Keyspaces[ks[i]].Output \in Formats(0)
          /\ Sent(parts[i], key(i), ks[i], config.Keyspaces[ks[i]].Output)
      BY <1>1, <1>4, <2>1, MultiSent
    <3>2. "raw" \notin DOMAIN parts[i] /\ "atomic" \notin DOMAIN parts[i]
      BY <1>4, <2>1, PartFields
    <3> HIDE DEF parts, ks, key
    <3> QED BY <3>1, <3>2, BodyValue
  <2>2. ASSUME NEW k \in keys
        PROVE  at(k) \in DOMAIN parts /\ key(at(k)) = k
    OBVIOUS
  <2>3. AnswerTo(config, r, a) = Service!Found(MultiValue(config, r, parts))
    BY <1>4 DEF AnswerTo, Service!Found
  <2>4. MultiValue(config, r, parts) = [k \in keys |-> ValueOfAnswer(parts[at(k)])]
    BY DEF MultiValue
  <2> HIDE DEF parts, ks, key, at
  <2>5. ASSUME NEW k \in keys
        PROVE  /\ k \in CallOf(config, r).keys \cap DOMAIN dbBar
               /\ "content" \in DOMAIN dbBar[k].value
               /\ ValueOfAnswer(parts[at(k)]) = dbBar[k].value
    <3>1. k \in DOMAIN redis /\ k \in CallOf(config, r).keys
      BY <1>2, <2>1, <2>2
    <3>2. k \in DOMAIN dbBar /\ dbBar[k].value = Value(redis[k])
      BY <3>1 DEF dbBar
    <3> QED BY <2>1, <2>2, <3>1, <3>2
  <2> HIDE DEF keys
  <2>6. MultiValue(config, r, parts) = [k \in keys |-> dbBar[k].value]
    BY <2>4, <2>5
  <2> QED BY <2>3, <2>5, <2>6
<1>5. a.code = 404 \/ (a.code = 200 /\ "parts" \in DOMAIN a)
  BY DEF MultiAnswer
<1> QED BY <1>3, <1>4, <1>5

-----------------------------------------------------------------------------
(* Steps of the store are steps of the service.                            *)

(* A step that leaves Redis and the late commands alone leaves the map and *)
(* the abandoned writes alone.                                             *)
LEMMA SameBars ==
    /\ redis' = redis => dbBar' = dbBar
    /\ late' = late => abandonedBar' = abandonedBar
BY DEF dbBar, abandonedBar

(* A request answered at once is a call answered at once.                  *)
LEMMA AnsweredAtOnce ==
    ASSUME RefInv, NEW h \in Handlers, NEW r \in Requests, Accept(h, r),
           NEW a, Reply(h, a),
           config' = config, redis' = redis, late' = late, local' = local
    PROVE  LET q == CallOf(config, r)
           IN  /\ q \in AllCalls
               /\ Service!Ask(h, q) /\ Service!Tell(h, AnswerTo(config, r, a))
               /\ dbBar' = dbBar /\ abandonedBar' = abandonedBar
<1>1. local = [local EXCEPT ![h] = local[h]]
  BY AsItIs DEF RefInv, AnswerInv
<1>2. Moves(h, "replied", r, local[h], a)
  BY <1>1 DEF Accept, Reply, Moves
<1>3. /\ callBar' = [callBar EXCEPT ![h] = CallIn(config, "replied", r)]
      /\ stateBar' = [stateBar EXCEPT ![h] = StateOf("replied")]
      /\ answerBar' = [answerBar EXCEPT ![h] =
                         AnswerOf(config, "replied", r, local[h], a)]
  BY <1>2, BarsAfter DEF Shows
<1>4. /\ StateOf("replied") = "answered" /\ CallIn(config, "replied", r) = CallOf(config, r)
      /\ AnswerOf(config, "replied", r, local[h], a) = AnswerTo(config, r, a)
      /\ stateBar[h] = "idle"
  BY DEF StateOf, CallIn, AnswerOf, stateBar, Accept
<1>5. Service!Ask(h, CallOf(config, r))
  BY <1>3, <1>4 DEF Service!Ask
<1>6. Service!Tell(h, AnswerTo(config, r, a))
  BY <1>3, <1>4 DEF Service!Tell, Service!Become
<1> QED BY <1>5, <1>6, SameBars, CallAllowed

(* A step of one client.                                                   *)
LEMMA ByCall ==
    ASSUME NEW h \in Handlers, NEW q \in AllCalls,
           \/ Service!Refused(h, q) \/ Service!Get(h, q)
           \/ Service!MultiGet(h, q) \/ Service!Begin(h, q)
    PROVE  Service!Next
BY DEF Service!Next

(* ... without a call.                                                     *)
LEMMA ByClient ==
    ASSUME NEW h \in Handlers,
           Service!Apply(h) \/ Service!Renew(h) \/ Service!Fail(h) \/ Service!End(h)
    PROVE  Service!Next
BY DEF Service!Next

(* A rejected request, or a read that Redis did not answer, is refused.    *)
LEMMA RefusedAtOnce ==
    ASSUME RefInv, NEW h \in Handlers, NEW r \in Requests, Accept(h, r),
           NEW c \in {400, 500}, Reply(h, Code(c)),
           config' = config, redis' = redis, late' = late, local' = local
    PROVE  Service!Next
<1> DEFINE q == CallOf(config, r)
<1>1. AnswerTo(config, r, Code(c)) = Service!Error
  BY DEF AnswerTo, Code, Service!Error
<1>2. /\ q \in AllCalls
      /\ Service!Ask(h, q) /\ Service!Tell(h, AnswerTo(config, r, Code(c)))
      /\ dbBar' = dbBar /\ abandonedBar' = abandonedBar
  BY AnsweredAtOnce
<1> HIDE DEF q
<1>3. Service!Refused(h, q)
  BY <1>1, <1>2 DEF Service!Refused
<1> QED BY <1>2, <1>3, ByCall

(* A GET is the service's Get, or refused.                                 *)
LEMMA GetImplements ==
    ASSUME RefInv, NEW h \in Handlers, NEW r \in Requests, HandleGet(h, r)
    PROVE  Service!Next
<1> DEFINE a == GetAnswer(r)
           q == CallOf(config, r)
           k == KeyOf(r)
<1>1. /\ r.op = "get" /\ Accept(h, r) /\ Reply(h, a)
      /\ config' = config /\ redis' = redis /\ late' = late /\ local' = local
  BY DEF HandleGet
<1>2. q.op = "get" /\ q.key = k
  BY <1>1, KeyAsked DEF CallOf
<1> HIDE DEF q
<1>3. \/ AnswerTo(config, r, a) = Service!Error
      \/ k \in DOMAIN dbBar /\ AnswerTo(config, r, a) = Service!Found(dbBar[k].value)
      \/ k \notin DOMAIN dbBar /\ AnswerTo(config, r, a) = Service!Absent
  BY <1>1, GetAnswered
<1> HIDE DEF a, k
<1>4. /\ q \in AllCalls
      /\ Service!Ask(h, q) /\ Service!Tell(h, AnswerTo(config, r, a))
      /\ dbBar' = dbBar /\ abandonedBar' = abandonedBar
  BY <1>1, AnsweredAtOnce DEF q
<1>5. CASE AnswerTo(config, r, a) = Service!Error
  <2>1. Service!Refused(h, q)
    BY <1>4, <1>5 DEF Service!Refused
  <2> QED BY <1>4, <2>1, ByCall
<1>6. CASE AnswerTo(config, r, a) # Service!Error
  <2>1. AnswerTo(config, r, a) = IF k \in DOMAIN dbBar THEN Service!Found(dbBar[k].value)
                                 ELSE Service!Absent
    BY <1>3, <1>6
  <2>2. Service!Get(h, q)
    BY <1>2, <1>4, <2>1 DEF Service!Get
  <2> QED BY <1>4, <2>2, ByCall
<1> QED BY <1>5, <1>6

(* A multi GET is the service's.                                           *)
LEMMA MultiImplements ==
    ASSUME RefInv, NEW h \in Handlers, NEW r \in Requests, HandleMultiGet(h, r)
    PROVE  Service!Next
<1> DEFINE a == MultiAnswer(r)
           q == CallOf(config, r)
<1>1. /\ r.op = "multi" /\ Accept(h, r) /\ Reply(h, a)
      /\ config' = config /\ redis' = redis /\ late' = late /\ local' = local
  BY DEF HandleMultiGet
<1>2. q.op = "multi"
  BY <1>1 DEF CallOf
<1>3. PICK keys \in SUBSET {k \in q.keys \cap DOMAIN dbBar :
                              "content" \in DOMAIN dbBar[k].value} :
        AnswerTo(config, r, a) = Service!Found([k \in keys |-> dbBar[k].value])
  BY <1>1, MultiAnswered
<1> HIDE DEF a, q
<1>4. /\ q \in AllCalls
      /\ Service!Ask(h, q) /\ Service!Tell(h, AnswerTo(config, r, a))
      /\ dbBar' = dbBar /\ abandonedBar' = abandonedBar
  BY <1>1, AnsweredAtOnce DEF q
<1>5. Service!Tell(h, Service!Found([k \in keys |-> dbBar[k].value]))
  BY <1>3, <1>4
<1>6. Service!MultiGet(h, q)
  BY <1>2, <1>4, <1>5 DEF Service!MultiGet
<1> QED BY <1>4, <1>6, ByCall

(* A write that is accepted is begun.                                      *)
LEMMA BegunImplements ==
    ASSUME RefInv, NEW h \in Handlers, NEW r \in Requests, Accept(h, r),
           r.op \in {"put", "del", "inc"},
           NEW p \in {"reading", "deleting", "incrementing"}, Goto(h, p),
           config' = config, redis' = redis, late' = late,
           NEW l, local' = [local EXCEPT ![h] = l]
    PROVE  Service!Next
<1> DEFINE q == CallOf(config, r)
<1>1. resp = [resp EXCEPT ![h] = resp[h]]
  BY DEF RefInv, AnswerInv, RecordInv, RepliesInv
<1>2. Moves(h, p, r, l, resp[h])
  BY <1>1 DEF Accept, Goto, Moves
<1>3. /\ callBar' = [callBar EXCEPT ![h] = CallIn(config, p, r)]
      /\ stateBar' = [stateBar EXCEPT ![h] = StateOf(p)]
      /\ answerBar' = [answerBar EXCEPT ![h] = AnswerOf(config, p, r, l, resp[h])]
  BY <1>2, BarsAfter DEF Shows
<1>4. /\ StateOf(p) = "called" /\ stateBar[h] = "idle"
      /\ CallIn(config, p, r) = CallOf(config, r)
      /\ AnswerOf(config, p, r, l, resp[h]) = [none |-> TRUE]
      /\ answerBar[h] = [none |-> TRUE]
  BY DEF StateOf, CallIn, AnswerOf, stateBar, answerBar, Accept
<1>5. answerBar' = answerBar
  BY <1>3, <1>4 DEF answerBar
<1>6. q.op \in {"put", "del", "inc"}
  BY DEF CallOf
<1> HIDE DEF q
<1>7. Service!Ask(h, q) /\ Service!Become(h, "called")
  BY <1>3, <1>4 DEF Service!Ask, Service!Become, q
<1>8. Service!Begin(h, q)
  BY <1>5, <1>6, <1>7, SameBars DEF Service!Begin
<1>9. q \in AllCalls
  BY CallAllowed DEF q
<1> QED BY <1>8, <1>9, ByCall

(* The first step of a handler.                                            *)
LEMMA ArriveImplements ==
    ASSUME RefInv, NEW h \in Handlers, NEW r \in Requests, Arrive(h, r)
    PROVE  Service!Next
<1>1. CASE PutReject(h, r) \/ DelReject(h, r) \/ IncReject(h, r) \/ ReadFails(h, r)
  <2>1. /\ Accept(h, r) /\ \E c \in {400, 500} : Reply(h, Code(c))
        /\ config' = config /\ redis' = redis /\ late' = late /\ local' = local
    BY <1>1 DEF PutReject, DelReject, IncReject, ReadFails
  <2> QED BY <2>1, RefusedAtOnce
<1>2. CASE HandleGet(h, r)
  BY <1>2, GetImplements
<1>3. CASE HandleMultiGet(h, r)
  BY <1>3, MultiImplements
<1>4. CASE PutBegin(h, r) \/ DelBegin(h, r)
  <2>1. local = [local EXCEPT ![h] = local[h]]
    BY AsItIs DEF RefInv, AnswerInv
  <2>2. /\ Accept(h, r) /\ r.op \in {"put", "del", "inc"}
        /\ \E p \in {"reading", "deleting", "incrementing"} : Goto(h, p)
        /\ config' = config /\ redis' = redis /\ late' = late
        /\ local' = [local EXCEPT ![h] = local[h]]
    BY <1>4, <2>1 DEF PutBegin, DelBegin
  <2> QED BY <2>2, BegunImplements
<1>5. CASE IncBegin(h, r)
  <2> DEFINE l == [local[h] EXCEPT !.ttl =
                     getTTL(r.xttl, config.Keyspaces[r.keyspace].ttl)]
  <2>1. /\ Accept(h, r) /\ r.op \in {"put", "del", "inc"} /\ Goto(h, "incrementing")
        /\ config' = config /\ redis' = redis /\ late' = late
        /\ local' = [local EXCEPT ![h] = l]
    BY <1>5 DEF IncBegin
  <2> HIDE DEF l
  <2> QED BY <2>1, BegunImplements
<1> QED BY <1>1, <1>2, <1>3, <1>4, <1>5 DEF Arrive

(* A client with a call under way still has it after a step of its handler.*)
LEMMA StepShown ==
    ASSUME RefInv, NEW h \in Handlers, phase[h] # "idle",
           NEW p, p # "idle", NEW l, NEW x, Moves(h, p, req[h], l, x)
    PROVE  /\ callBar' = callBar /\ callBar[h] = CallOf(config, req[h])
           /\ Shows(h, p, req[h], l, x)
<1>1. Shows(h, p, req[h], l, x)
  BY BarsAfter
<1>2. /\ callBar[h] = CallOf(config, req[h])
      /\ CallIn(config, p, req[h]) = CallOf(config, req[h])
  BY DEF callBar, CallIn
<1>3. callBar' = callBar
  BY <1>1, <1>2 DEF Shows, callBar
<1> QED BY <1>1, <1>2, <1>3

(* The step that replies tells it the answer.                              *)
LEMMA ReplyShown ==
    ASSUME RefInv, NEW h \in Handlers, phase[h] # "idle", config' = config, req' = req,
           local' = local, NEW x, Reply(h, x)
    PROVE  /\ callBar' = callBar /\ callBar[h] = CallOf(config, req[h])
           /\ Service!Tell(h, AnswerTo(config, req[h], x))
<1>1. local = [local EXCEPT ![h] = local[h]] /\ req = [req EXCEPT ![h] = req[h]]
  BY AsItIs DEF RefInv, AnswerInv
<1>2. Moves(h, "replied", req[h], local[h], x)
  BY <1>1 DEF Reply, Moves
<1>3. /\ callBar' = callBar /\ callBar[h] = CallOf(config, req[h])
      /\ Shows(h, "replied", req[h], local[h], x)
  BY <1>2, StepShown
<1>4. /\ StateOf("replied") = "answered"
      /\ AnswerOf(config, "replied", req[h], local[h], x) = AnswerTo(config, req[h], x)
  BY DEF StateOf, AnswerOf
<1> QED BY <1>3, <1>4 DEF Shows, Service!Tell, Service!Become

(* A late command is an abandoned write, ...                               *)
LEMMA LateShown == ASSUME NEW s \in Slots PROVE abandonedBar[s] = WriteOf(late[s])
BY DEF abandonedBar

(* ... and its slot can be given another one.                              *)
Takes(s, c) == late' = [late EXCEPT ![s] = c]

Abandons(s, w) == abandonedBar' = [abandonedBar EXCEPT ![s] = w]

(* The other slots keep theirs.                                            *)
LEMMA SlotShown ==
    ASSUME RefInv, NEW s \in Slots, NEW c, Takes(s, c) PROVE Abandons(s, WriteOf(c))
<1>1. DOMAIN late = Slots
  BY DEF RefInv, AnswerInv, RecordInv, LateInv
<1>2. abandonedBar = [t \in Slots |-> WriteOf(late[t])]
  BY DEF abandonedBar
<1>3. abandonedBar' = [t \in Slots |-> WriteOf(late'[t])]
  BY DEF abandonedBar
<1>4. \A t \in Slots : late'[t] = IF t = s THEN c ELSE late[t]
  BY <1>1 DEF Takes
<1>5. \A t \in Slots : abandonedBar'[t] = IF t = s THEN WriteOf(c) ELSE abandonedBar[t]
  BY <1>2, <1>3, <1>4
<1> QED BY <1>2, <1>3, <1>5 DEF Abandons

(* A handler that answers with an error, its command lost or on its way,   *)
(* fails its call.                                                         *)
LEMMA FailImplements ==
    ASSUME RefInv, NEW h \in Handlers, phase[h] \notin {"idle", "replied"},
           NEW c \in {400, 413, 500}, Reply(h, Code(c)),
           config' = config, redis' = redis, req' = req, local' = local,
           \/ late' = late
           \/ /\ phase[h] \in {"storing", "deleting", "incrementing", "expiring"}
              /\ \E s \in Slots : /\ late[s] = NoCommand
                                  /\ late' = [late EXCEPT ![s] = Awaited(h)]
    PROVE  Service!Next
<1> DEFINE w == CallOf(config, req[h])
<1>1. AnswerTo(config, req[h], Code(c)) = Service!Error
  BY DEF AnswerTo, Code, Service!Error
<1>2. /\ callBar' = callBar /\ callBar[h] = w
      /\ Service!Tell(h, Service!Error)
  BY <1>1, ReplyShown
<1>3. /\ stateBar[h] \in {"called", "applied"}
      /\ stateBar[h] = "called" <=> phase[h] # "expiring"
  BY DEF stateBar, StateOf
<1>4. \/ abandonedBar' = abandonedBar
      \/ \E s \in Slots :
           /\ abandonedBar[s] = NoCall
           /\ abandonedBar' = [abandonedBar EXCEPT ![s] =
                IF stateBar[h] = "called" THEN callBar[h] ELSE Service!Rest(callBar[h])]
  <2>1. CASE late' = late
    BY <2>1, SameBars
  <2>2. ASSUME NEW s \in Slots, late[s] = NoCommand,
               late' = [late EXCEPT ![s] = Awaited(h)],
               phase[h] \in {"storing", "deleting", "incrementing", "expiring"}
        PROVE  /\ abandonedBar[s] = NoCall
               /\ abandonedBar' = [abandonedBar EXCEPT ![s] =
                    IF stateBar[h] = "called" THEN callBar[h] ELSE Service!Rest(callBar[h])]
    <3>1. abandonedBar[s] = WriteOf(NoCommand) /\ WriteOf(NoCommand) = NoCall
      <4>1. WriteOf(NoCommand) = NoCall
        BY DEF WriteOf, NoCommand
      <4> QED BY <2>2, <4>1, LateShown
    <3>2. Abandons(s, WriteOf(Awaited(h)))
      <4>1. Takes(s, Awaited(h))
        BY <2>2 DEF Takes
      <4> QED BY <4>1, SlotShown
    <3>3. /\ phase[h] \in {"storing", "deleting", "incrementing"} => WriteOf(Awaited(h)) = w
          /\ phase[h] = "expiring" => WriteOf(Awaited(h)) = Service!Rest(w)
      BY AwaitedCall
    <3> HIDE DEF w
    <3>4. WriteOf(Awaited(h)) = IF stateBar[h] = "called" THEN callBar[h]
                                ELSE Service!Rest(callBar[h])
      BY <1>2, <1>3, <2>2, <3>3
    <3> QED BY <3>1, <3>2, <3>4 DEF Abandons
  <2> QED BY <2>1, <2>2
<1>5. dbBar' = dbBar
  BY SameBars
<1> HIDE DEF w
<1>6. Service!Fail(h)
  BY <1>2, <1>3, <1>4, <1>5 DEF Service!Fail
<1> QED BY <1>6, ByClient

(* A SET that is answered is the effect of the PUT and its answer.         *)
LEMMA SetImplements ==
    ASSUME RefInv, NEW h \in Handlers, PutSet(h) PROVE Service!Next
<1> DEFINE w == CallOf(config, req[h])
<1>1. /\ phase[h] = "storing" /\ Reply(h, Code(200)) /\ redis' = Run(PutCommand(h))
      /\ config' = config /\ req' = req /\ local' = local /\ late' = late
  BY DEF PutSet
<1>2. RecordInv /\ RedisInv /\ req[h].op = "put"
  BY <1>1 DEF RefInv, AnswerInv, RecordInv, HandlerInv, Serving, PutPhases
<1>3. AnswerTo(config, req[h], Code(200)) = Service!Done
  BY <1>2 DEF AnswerTo, Code, Service!Done
<1>4. /\ callBar' = callBar /\ callBar[h] = w
      /\ Service!Tell(h, Service!Done)
  BY <1>1, <1>3, ReplyShown
<1>5. WriteOf(PutCommand(h)) = w /\ w.op = "put"
  BY <1>1, AwaitedCall DEF Awaited
<1> HIDE DEF w
<1>6. dbBar' = Service!Effect(w)
  BY <1>1, <1>2, <1>5, PutOK, RunEffect
<1>7. stateBar[h] = "called"
  BY <1>1 DEF stateBar, StateOf
<1>8. abandonedBar' = abandonedBar
  BY <1>1, SameBars
<1>9. Service!Apply(h)
  BY <1>4, <1>5, <1>6, <1>7, <1>8 DEF Service!Apply
<1> QED BY <1>9, ByClient

(* A DEL that is answered tells whether there was something to delete.     *)
LEMMA DelImplements ==
    ASSUME RefInv, NEW h \in Handlers, DelRun(h) PROVE Service!Next
<1> DEFINE w == CallOf(config, req[h])
           k == KeyOf(req[h])
           a == Code(IF Has(k) THEN 200 ELSE 404)
           t == IF k \in DOMAIN dbBar THEN Service!Done ELSE Service!Absent
<1>1. /\ phase[h] = "deleting" /\ Reply(h, a) /\ redis' = Run(DelCommand(k))
      /\ config' = config /\ req' = req /\ local' = local /\ late' = late
  BY DEF DelRun
<1>2. RecordInv /\ RedisInv /\ req[h].op = "del"
  BY <1>1 DEF RefInv, AnswerInv, RecordInv, TimedInv, Timed
<1>3. AnswerTo(config, req[h], a) = t
  <2>1. Has(k) <=> k \in DOMAIN dbBar
    BY DEF Has, dbBar
  <2>2. /\ AnswerTo(config, req[h], Code(200)) = Service!Done
        /\ AnswerTo(config, req[h], Code(404)) = Service!Absent
    BY <1>2 DEF AnswerTo, Code, Service!Done, Service!Absent
  <2>3. CASE Has(k)
    BY <2>1, <2>2, <2>3
  <2>4. CASE ~Has(k)
    BY <2>1, <2>2, <2>4
  <2> QED BY <2>3, <2>4
<1>4. WriteOf(DelCommand(k)) = w /\ w = [op |-> "del", key |-> k]
  BY <1>1, AwaitedCall DEF Awaited
<1>5. w.op = "del" /\ w.key = k
  BY <1>4
<1>6. CommandOK(DelCommand(k))
  BY <1>2, OthersOK
<1> HIDE DEF a, k
<1>7. /\ callBar' = callBar /\ callBar[h] = w
      /\ Service!Tell(h, AnswerTo(config, req[h], a))
  BY <1>1, ReplyShown
<1> HIDE DEF w
<1>8. dbBar' = Service!Effect(w)
  BY <1>1, <1>2, <1>4, <1>6, RunEffect
<1>9. stateBar[h] = "called"
  BY <1>1 DEF stateBar, StateOf
<1>10. abandonedBar' = abandonedBar
  BY <1>1, SameBars
<1>11. Service!Tell(h, IF w.key \in DOMAIN dbBar THEN Service!Done ELSE Service!Absent)
  BY <1>3, <1>5, <1>7
<1>12. Service!Apply(h)
  BY <1>5, <1>7, <1>8, <1>9, <1>10, <1>11 DEF Service!Apply
<1> QED BY <1>12, ByClient

(* An INCRBY is the effect of the INC, and settles its answer.             *)
LEMMA IncrImplements ==
    ASSUME RefInv, NEW h \in Handlers, IncIncrBy(h) PROVE Service!Next
<1> DEFINE w      == CallOf(config, req[h])
           k      == KeyOf(req[h])
           n      == IncrementOf(req[h])
           result == IncrBy(k, n)
           l      == [local[h] EXCEPT !.err = result.err, !.n = result.n]
           t      == IF Service!Counts(k, n)
                     THEN Service!Found([counter |-> Service!Sum(k, n)])
                     ELSE Service!Error
<1>1. /\ phase[h] = "incrementing" /\ Goto(h, "expiring")
      /\ redis' = Run(PipeCommand(h)) /\ local' = [local EXCEPT ![h] = l]
      /\ config' = config /\ req' = req /\ late' = late
  BY DEF IncIncrBy
<1>2. RecordInv /\ RedisInv /\ phase[h] \in IncPhases /\ local[h] \in Locals
  BY <1>1, AsItIs DEF RefInv, AnswerInv, RecordInv, IncPhases
<1>3. /\ result.err <=> ~Service!Counts(k, n)
      /\ ~result.err => result.n = Service!Sum(k, n)
  BY <1>2, CountsAlike
<1>4. l.err = result.err /\ l.n = result.n
  BY <1>2 DEF Locals
<1>5. /\ WriteOf(PipeCommand(h)) = w
      /\ w = [op |-> "inc", key |-> k, n |-> n, life |-> Life(local[h].ttl, "gone")]
  BY <1>1, <1>2, AwaitedCall DEF Awaited
<1>6. w.op = "inc" /\ w.key = k /\ w.n = n
  BY <1>5
<1> HIDE DEF w, k, n, result, l
<1>7. AnswerOf(config, "expiring", req[h], l, resp[h]) = t
  <2>1. AnswerOf(config, "expiring", req[h], l, resp[h]) =
          IF l.err THEN Service!Error ELSE Service!Found([counter |-> l.n])
    BY DEF AnswerOf, CounterAnswer, Service!Error, Service!Found
  <2>2. CASE result.err
    BY <1>3, <1>4, <2>1, <2>2
  <2>3. CASE ~result.err
    BY <1>3, <1>4, <2>1, <2>3
  <2> QED BY <2>2, <2>3
<1>8. /\ req = [req EXCEPT ![h] = req[h]] /\ resp = [resp EXCEPT ![h] = resp[h]]
  BY AsItIs DEF RefInv, AnswerInv, RepliesInv
<1>9. Moves(h, "expiring", req[h], l, resp[h])
  BY <1>1, <1>8 DEF Goto, Moves
<1>10. /\ callBar' = callBar /\ callBar[h] = w
       /\ Shows(h, "expiring", req[h], l, resp[h])
  BY <1>1, <1>9, StepShown DEF w
<1>11. /\ Service!Become(h, "applied")
       /\ answerBar' = [answerBar EXCEPT ![h] =
            IF Service!Counts(w.key, w.n)
            THEN Service!Found([counter |-> Service!Sum(w.key, w.n)])
            ELSE Service!Error]
  <2>1. StateOf("expiring") = "applied"
    BY DEF StateOf
  <2> QED BY <1>6, <1>7, <1>10, <2>1 DEF Shows, Service!Become
<1>12. dbBar' = Service!Effect(w)
  BY <1>1, <1>2, <1>5, OthersOK, RunEffect
<1>13. stateBar[h] = "called"
  BY <1>1 DEF stateBar, StateOf
<1>14. abandonedBar' = abandonedBar
  BY <1>1, SameBars
<1>15. Service!Apply(h)
  BY <1>6, <1>10, <1>11, <1>12, <1>13, <1>14 DEF Service!Apply
<1> QED BY <1>15, ByClient

(* The EXPIRE behind it renews the counter, and the answer is given.       *)
LEMMA ExpireImplements ==
    ASSUME RefInv, NEW h \in Handlers, IncExpire(h) PROVE Service!Next
<1> DEFINE w == CallOf(config, req[h])
           a == IF local[h].err THEN Code(500) ELSE [code |-> 200, value |-> local[h].n]
<1>1. /\ phase[h] = "expiring" /\ Reply(h, a) /\ redis' = Run(After(PipeCommand(h)))
      /\ config' = config /\ req' = req /\ local' = local /\ late' = late
  BY DEF IncExpire
<1>2. RecordInv /\ RedisInv /\ phase[h] \in IncPhases /\ req[h].op = "inc"
  BY <1>1 DEF RefInv, AnswerInv, RecordInv, HandlerInv, Serving, IncPhases
<1>3. AnswerTo(config, req[h], a) = answerBar[h]
  <2>1. answerBar[h] = IF local[h].err THEN Service!Error
                       ELSE Service!Found([counter |-> local[h].n])
    BY <1>1 DEF answerBar, AnswerOf, CounterAnswer, Service!Error, Service!Found
  <2>2. CASE local[h].err
    <3>1. AnswerTo(config, req[h], Code(500)) = Service!Error
      BY DEF AnswerTo, Code, Service!Error
    <3> QED BY <2>1, <2>2, <3>1
  <2>3. CASE ~local[h].err
    <3>1. AnswerTo(config, req[h], [code |-> 200, value |-> local[h].n]) =
            Service!Found([counter |-> local[h].n])
      BY <1>2 DEF AnswerTo, CounterAnswer, Service!Found
    <3> QED BY <2>1, <2>3, <3>1
  <2> QED BY <2>2, <2>3
<1> HIDE DEF a
<1>4. /\ callBar' = callBar /\ callBar[h] = w
      /\ Service!Tell(h, AnswerTo(config, req[h], a))
  BY <1>1, ReplyShown
<1>5. Service!Become(h, "answered") /\ answerBar' = answerBar
  BY <1>3, <1>4 DEF Service!Tell, answerBar
<1>6. WriteOf(After(PipeCommand(h))) = Service!Rest(w)
  BY <1>1, AwaitedCall DEF Awaited
<1> HIDE DEF w
<1>7. dbBar' = Service!Effect(Service!Rest(w))
  BY <1>1, <1>2, <1>6, OthersOK, RunEffect
<1>8. stateBar[h] = "applied"
  BY <1>1 DEF stateBar, StateOf
<1>9. abandonedBar' = abandonedBar
  BY <1>1, SameBars
<1>10. Service!Renew(h)
  BY <1>4, <1>5, <1>7, <1>8, <1>9 DEF Service!Renew
<1> QED BY <1>10, ByClient

(* What a handler does before it turns to Redis is nothing a client sees.  *)
LEMMA UnseenStep ==
    ASSUME RefInv, NEW h \in Handlers, phase[h] \in {"reading", "read"},
           NEW p \in {"read", "storing"}, Goto(h, p),
           NEW l, local' = [local EXCEPT ![h] = l],
           config' = config, redis' = redis, req' = req, late' = late
    PROVE  UNCHANGED Service!serviceVars
<1>1. req = [req EXCEPT ![h] = req[h]] /\ resp = [resp EXCEPT ![h] = resp[h]]
  BY AsItIs DEF RefInv, AnswerInv, RepliesInv
<1>2. Moves(h, p, req[h], l, resp[h])
  BY <1>1 DEF Goto, Moves
<1>3. callBar' = callBar /\ Shows(h, p, req[h], l, resp[h])
  BY <1>2, StepShown
<1>4. /\ StateOf(p) = "called" /\ stateBar[h] = "called"
      /\ AnswerOf(config, p, req[h], l, resp[h]) = [none |-> TRUE]
      /\ answerBar[h] = [none |-> TRUE]
  BY DEF StateOf, stateBar, AnswerOf, answerBar
<1>5. stateBar' = stateBar /\ answerBar' = answerBar
  <2>1. /\ stateBar' = [stateBar EXCEPT ![h] = stateBar[h]]
        /\ answerBar' = [answerBar EXCEPT ![h] = answerBar[h]]
    BY <1>3, <1>4 DEF Shows
  <2>2. stateBar = [g \in Handlers |-> stateBar[g]]
    BY DEF stateBar
  <2>3. answerBar = [g \in Handlers |-> answerBar[g]]
    BY DEF answerBar
  <2> QED BY <2>1, <2>2, <2>3
<1>6. dbBar' = dbBar /\ abandonedBar' = abandonedBar
  BY SameBars
<1> QED BY <1>3, <1>5, <1>6 DEF Service!serviceVars

(* So for reading a body and converting it.                                *)
LEMMA UnseenSteps ==
    ASSUME RefInv, NEW h \in Handlers, PutRead(h) \/ PutConvert(h)
    PROVE  UNCHANGED Service!serviceVars
<1>1. CASE PutRead(h)
  <2>1. local = [local EXCEPT ![h] = local[h]]
    BY AsItIs DEF RefInv, AnswerInv
  <2>2. /\ phase[h] \in {"reading", "read"} /\ Goto(h, "read")
        /\ local' = [local EXCEPT ![h] = local[h]]
        /\ config' = config /\ redis' = redis /\ req' = req /\ late' = late
    BY <1>1, <2>1 DEF PutRead
  <2> QED BY <2>2, UnseenStep
<1>2. CASE PutConvert(h)
  <2> DEFINE l == [local[h] EXCEPT !.ttl =
                     getTTL(req[h].xttl, config.Keyspaces[req[h].keyspace].ttl)]
  <2>1. /\ phase[h] \in {"reading", "read"} /\ Goto(h, "storing")
        /\ local' = [local EXCEPT ![h] = l]
        /\ config' = config /\ redis' = redis /\ req' = req /\ late' = late
    BY <1>2 DEF PutConvert
  <2> HIDE DEF l
  <2> QED BY <2>1, UnseenStep
<1> QED BY <1>1, <1>2

(* A handler that returns ends its call.                                   *)
LEMMA ReturnImplements ==
    ASSUME RefInv, NEW h \in Handlers, Return(h) PROVE Service!Next
<1>1. /\ phase[h] = "replied" /\ Moves(h, "idle", NoRequest, NoLocal, NoReply)
      /\ redis' = redis /\ late' = late
  BY DEF Return, Moves
<1>2. Shows(h, "idle", NoRequest, NoLocal, NoReply)
  BY <1>1, BarsAfter
<1>3. /\ StateOf("idle") = "idle" /\ CallIn(config, "idle", NoRequest) = NoCall
      /\ AnswerOf(config, "idle", NoRequest, NoLocal, NoReply) = Service!Nothing
      /\ stateBar[h] = "answered"
  BY <1>1 DEF StateOf, CallIn, AnswerOf, stateBar, Service!Nothing
<1>4. dbBar' = dbBar /\ abandonedBar' = abandonedBar
  BY <1>1, SameBars
<1>5. Service!End(h)
  BY <1>2, <1>3, <1>4 DEF Shows, Service!End, Service!Become
<1> QED BY <1>5, ByClient

(* The later steps of a handler whose client library never tries again.    *)
LEMMA ProceedImplements ==
    ASSUME MaxRetries = 0, RefInv, NEW h \in Handlers, Proceed(h)
    PROVE  [Service!Next]_Service!serviceVars
<1>1. CASE PutRead(h) \/ PutConvert(h)
  BY <1>1, UnseenSteps
<1>2. CASE PutReadFails(h) \/ PutConvertFails(h) \/ GiveUp(h)
  <2>1. /\ phase[h] \notin {"idle", "replied"}
        /\ \E c \in {400, 413, 500} : Reply(h, Code(c))
        /\ config' = config /\ redis' = redis /\ req' = req /\ local' = local
    BY <1>2 DEF PutReadFails, PutConvertFails, GiveUp, Unanswered
  <2>2. \/ late' = late
        \/ /\ phase[h] \in {"storing", "deleting", "incrementing", "expiring"}
           /\ \E s \in Slots : /\ late[s] = NoCommand
                               /\ late' = [late EXCEPT ![s] = Awaited(h)]
    BY <1>2 DEF PutReadFails, PutConvertFails, GiveUp, Unanswered
  <2> QED BY <2>1, <2>2, FailImplements
<1>3. CASE PutSet(h)
  BY <1>3, SetImplements
<1>4. CASE DelRun(h)
  BY <1>4, DelImplements
<1>5. CASE IncIncrBy(h)
  BY <1>5, IncrImplements
<1>6. CASE IncExpire(h)
  BY <1>6, ExpireImplements
<1>7. CASE Return(h)
  BY <1>7, ReturnImplements
<1>8. ~Retry(h)
  <2>1. local[h] \in Locals
    BY AsItIs DEF RefInv, AnswerInv
  <2>2. local[h].tries \in 0 .. 0
    BY <2>1 DEF Locals
  <2> QED BY <2>2 DEF Retry
<1> QED BY <1>1, <1>2, <1>3, <1>4, <1>5, <1>6, <1>7, <1>8 DEF Proceed

(* A key that expires vanishes.                                            *)
LEMMA ExpiresImplements ==
    ASSUME RefInv, NEW k \in DOMAIN redis, Expires(k) PROVE Service!Next
<1>1. /\ redis[k].ttl > 0 /\ redis' = Del(k) /\ late' = late
      /\ config' = config /\ phase' = phase /\ req' = req /\ local' = local /\ resp' = resp
  BY DEF Expires
<1>2. k \in DOMAIN dbBar /\ dbBar[k].life = "transient"
  BY <1>1 DEF dbBar, Life
<1>3. dbBar' = Service!Remove(k)
  BY <1>1, DropsKey
<1>4. /\ callBar' = callBar /\ stateBar' = stateBar /\ answerBar' = answerBar
      /\ abandonedBar' = abandonedBar
  BY <1>1 DEF callBar, stateBar, answerBar, abandonedBar
<1>5. Service!Vanish(k)
  BY <1>2, <1>3, <1>4 DEF Service!Vanish
<1> QED BY <1>2, <1>5 DEF Service!Next

(* A command nobody waits for is a write that was given up.                *)
LEMMA LateImplements ==
    ASSUME RefInv, NEW s \in Slots, TakesEffect(s) PROVE Service!Next
<1> DEFINE c == late[s]
<1>1. /\ c # NoCommand /\ redis' = Run(c)
      /\ late' = [late EXCEPT ![s] = After(c)]
      /\ config' = config /\ phase' = phase /\ req' = req /\ local' = local /\ resp' = resp
  BY DEF TakesEffect
<1>2. CommandOK(c) /\ RedisInv
  BY <1>1 DEF RefInv, AnswerInv, RecordInv, LateInv
<1>3. abandonedBar[s] = WriteOf(c)
  BY LateShown
<1> HIDE DEF c
<1>4. dbBar' = Service!Effect(WriteOf(c))
  BY <1>1, <1>2, RunEffect
<1>5. WriteOf(After(c)) = Service!Rest(WriteOf(c)) /\ WriteOf(c) # NoCall
  BY <1>2, AfterRest
<1>6. Abandons(s, Service!Rest(WriteOf(c)))
  <2>1. Takes(s, After(c))
    BY <1>1 DEF Takes
  <2>2. Abandons(s, WriteOf(After(c)))
    BY <2>1, SlotShown
  <2> QED BY <1>5, <2>2
<1>7. callBar' = callBar /\ stateBar' = stateBar /\ answerBar' = answerBar
  BY <1>1 DEF callBar, stateBar, answerBar
<1>8. Service!Late(s)
  BY <1>3, <1>4, <1>5, <1>6, <1>7 DEF Service!Late, Abandons
<1> QED BY <1>8 DEF Service!Next

(* A restart is a crash.                                                   *)
LEMMA RestartImplements == ASSUME Restart PROVE Service!Next
<1>1. /\ redis' = redis /\ late' = late
      /\ phase' = [h \in Handlers |-> "idle"] /\ req' = [h \in Handlers |-> NoRequest]
      /\ local' = [h \in Handlers |-> NoLocal] /\ resp' = [h \in Handlers |-> NoReply]
  BY DEF Restart
<1>2. callBar' = [h \in Handlers |-> NoCall]
  BY <1>1 DEF callBar, CallIn
<1>3. stateBar' = [h \in Handlers |-> "idle"]
  BY <1>1 DEF stateBar, StateOf
<1>4. answerBar' = [h \in Handlers |-> Service!Nothing]
  BY <1>1 DEF answerBar, AnswerOf, Service!Nothing
<1>5. dbBar' = dbBar /\ abandonedBar' = abandonedBar
  BY <1>1, SameBars
<1>6. Service!Crash
  BY <1>2, <1>3, <1>4, <1>5 DEF Service!Crash
<1> QED BY <1>6 DEF Service!Next

(* Every step of the store is a step of the service, or none.              *)
LEMMA StepImplements ==
    ASSUME MaxRetries = 0, RefInv, [Next]_vars
    PROVE  [Service!Next]_Service!serviceVars
<1>1. ASSUME NEW h \in Handlers, NEW r \in Requests, Arrive(h, r) PROVE Service!Next
  BY <1>1, ArriveImplements
<1>2. ASSUME NEW h \in Handlers, Proceed(h) PROVE [Service!Next]_Service!serviceVars
  BY <1>2, ProceedImplements
<1>3. CASE (\E b \in Buffers : GC(b)) \/ UNCHANGED vars
  <2>1. /\ config' = config /\ redis' = redis /\ phase' = phase /\ req' = req
        /\ local' = local /\ resp' = resp /\ late' = late
    BY <1>3 DEF GC, vars
  <2>2. UNCHANGED Service!serviceVars
    BY <2>1 DEF Service!serviceVars, dbBar, callBar, stateBar, answerBar, abandonedBar
  <2> QED BY <2>2
<1>4. ASSUME NEW k \in DOMAIN redis, Expires(k) PROVE Service!Next
  BY <1>4, ExpiresImplements
<1>5. ASSUME NEW s \in Slots, TakesEffect(s) PROVE Service!Next
  BY <1>5, LateImplements
<1>6. CASE Restart
  BY <1>6, RestartImplements
<1> QED BY <1>1, <1>2, <1>3, <1>4, <1>5, <1>6 DEF Next

(* An empty Redis is an empty map.                                         *)
LEMMA InitImplements ==
    ASSUME Init, \A db \in Preloaded : DOMAIN db = {} PROVE Service!Init
<1>1. /\ DOMAIN redis = {} /\ late = [s \in Slots |-> NoCommand]
      /\ phase = [h \in Handlers |-> "idle"]
  BY DEF Init
<1>2. dbBar = [k \in {} |-> Service!Nothing]
  BY <1>1 DEF dbBar
<1>3. callBar = [h \in Handlers |-> NoCall]
  BY <1>1 DEF callBar, CallIn
<1>4. stateBar = [h \in Handlers |-> "idle"]
  BY <1>1 DEF stateBar, StateOf
<1>5. answerBar = [h \in Handlers |-> Service!Nothing]
  BY <1>1 DEF answerBar, AnswerOf, Service!Nothing
<1>6. abandonedBar = [s \in Slots |-> NoCall]
  <2>1. WriteOf(NoCommand) = NoCall
    BY DEF WriteOf, NoCommand
  <2> QED BY <1>1, <2>1 DEF abandonedBar
<1> QED BY <1>2, <1>3, <1>4, <1>5, <1>6 DEF Service!Init

-----------------------------------------------------------------------------
(* The handlers, over a Redis of their own and with                        *)
(* Redis.ClientConfig.MaxRetries = 0, implement the map of records and     *)
(* counters: whatever the interleaving of handlers, the commands that      *)
(* arrive late and the restarts, no answer and no effect is another than   *)
(* the service's.                                                          *)
THEOREM StoreImplements ==
    ASSUME MaxRetries = 0, \A db \in Preloaded : DOMAIN db = {}
    PROVE  Spec => ImplementsService
<1>1. Init => RefInv /\ Service!Init
  BY RefInit, InitImplements
<1>2. RefInv /\ [Next]_vars => RefInv'
  BY RefStep
<1>3. RefInv /\ [Next]_vars => [Service!Next]_Service!serviceVars
  BY StepImplements
<1> QED BY <1>1, <1>2, <1>3, PTL DEF Spec, ImplementsService, Service!Spec

=============================================================================
