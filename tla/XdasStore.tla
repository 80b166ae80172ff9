------------------------------ MODULE XdasStore ------------------------------
(***************************************************************************)
(* The data path of XDAS: the HTTP handlers of cmd/xdas/handler.go and     *)
(* handler_atomic.go running concurrently over one Redis and one pool of   *)
(* byte buffers, across restarts of the process with other configurations. *)
(*                                                                         *)
(* A handler is a goroutine; its steps end where it touches something      *)
(* shared: a pooled buffer, the request body, Redis.  A read (GET, multi   *)
(* GET) is one step.  A write may get no answer: the client library gives  *)
(* up on it, tries again as often as it is configured to, and the command  *)
(* it gave up on may still reach Redis at any later time.                  *)
(***************************************************************************)
EXTENDS Conversion, KeyspaceConfig, FiniteSets

CONSTANTS Handlers,     \* goroutines serving requests
          Buffers,      \* byte buffers, pooled or not
          Requests,     \* the requests clients send
          Configs,      \* the configuration files the process may start with
          ToUpper,      \* strings.ToUpper, a function on the ids of Requests
          Underscored,  \* the (upper-case) ids that contain "_"
          Preloaded,    \* what other programs may have left in Redis
          Slots,        \* bounds the commands that are under way unattended
          MaxRetries,   \* Redis.ClientConfig.MaxRetries
          NoBuffer, NoRequest

ASSUME BufferAssumption == NoBuffer \notin Buffers
ASSUME RetryAssumption  == MaxRetries \in Nat
ASSUME InputAssumption  ==
    /\ \A r \in Requests : /\ r.op \in {"put", "inc"} => IsTime(r.xttl)
                           /\ r.op = "inc" => r.n \in Int
    /\ \A c \in Configs : \A ks \in DOMAIN c.Keyspaces : IsTime(c.Keyspaces[ks].TTL)

VARIABLES config,  \* *Configuration of the running process
          redis,   \* Redis: key -> entry, a key that is not there is redis.Nil
          pool,    \* Server.bufPool
          mem,     \* the chunks written to each buffer since its Reset
          phase,   \* where each handler is
          req,     \* the request each handler serves
          b1, b2,  \* the handler's two pooled buffers
          local,   \* a handler's retention, IncrBy's reply, the retries so far
          resp,    \* what the handler has answered
          late     \* the commands on their way to Redis that nobody waits for

vars == <<config, redis, pool, mem, phase, req, b1, b2, local, resp, late>>
bufVars == <<pool, mem, b1, b2>>

NoReply   == [code |-> 0]
Code(c)   == [code |-> c]
NoLocal   == [ttl |-> 0, err |-> FALSE, n |-> 0, tries |-> 0]

-----------------------------------------------------------------------------
(* Redis (external): strings and integers with an optional expiry, 0 for   *)
(* none.  go-redis sends an expiry with SET only when it is positive;      *)
(* EXPIRE with a time that is not positive deletes the key.  by is history *)
(* that no handler reads: the request and the configuration behind a       *)
(* record.                                                                 *)
Nobody        == [request |-> NoRequest]
Has(k)        == k \in DOMAIN redis
Del(k)        == [x \in DOMAIN redis \ {k} |-> redis[x]]
Store(k, e)   == [x \in DOMAIN redis \cup {k} |-> IF x = k THEN e ELSE redis[x]]
Entry(kind, val, ttl, by) == [kind |-> kind, val |-> val, ttl |-> ttl, by |-> by]

Set(k, chunks, ttl, by) ==
    Store(k, Entry("bytes", chunks, IF ttl > 0 THEN ttl ELSE 0, by))

ExpireKey(k, ttl) ==
    LET e == redis[k]
    IN  CASE ~Has(k)            -> redis
          [] Has(k) /\ ttl <= 0 -> Del(k)
          [] OTHER              -> Store(k, Entry(e.kind, e.val, ttl, e.by))

ASSUME PreloadedAssumption ==
    \A db \in Preloaded : \A k \in DOMAIN db :
        /\ db[k].by = Nobody
        /\ db[k].ttl \in 0 .. MaxInt
        /\ \/ db[k].kind = "int" /\ db[k].val \in Int64
           \/ db[k].kind = "bytes"

(* INCRBY: an error on a value that is not an integer or would leave int64.*)
IncrBy(k, n) ==
    LET old == IF Has(k) THEN redis[k] ELSE Entry("int", 0, 0, Nobody)
    IN  IF old.kind = "int" /\ old.val + n \in Int64
        THEN [err |-> FALSE, n |-> old.val + n,
              db |-> Store(k, Entry("int", old.val + n, old.ttl, old.by))]
        ELSE [err |-> TRUE, n |-> 0, db |-> redis]

(* What XDAS sends to change something.  An INC is a pipeline: INCRBY      *)
(* leaves the EXPIRE behind it.                                            *)
NoCommand                    == [op |-> "none"]
SetCommand(k, val, ttl, by)  == [op |-> "set", key |-> k, val |-> val, ttl |-> ttl, by |-> by]
DelCommand(k)                == [op |-> "del", key |-> k]
IncCommand(k, n, ttl)        == [op |-> "inc", key |-> k, n |-> n, ttl |-> ttl]
ExpireCommand(k, ttl)        == [op |-> "expire", key |-> k, ttl |-> ttl]

Run(c) == CASE c.op = "set"    -> Set(c.key, c.val, c.ttl, c.by)
            [] c.op = "del"    -> Del(c.key)
            [] c.op = "inc"    -> IncrBy(c.key, c.n).db
            [] c.op = "expire" -> ExpireKey(c.key, c.ttl)

After(c) == IF c.op = "inc" THEN ExpireCommand(c.key, c.ttl) ELSE NoCommand

(* A command nobody waits for reaches Redis.                               *)
TakesEffect(s) == /\ late[s] # NoCommand
                  /\ redis' = Run(late[s])
                  /\ late' = [late EXCEPT ![s] = After(@)]
                  /\ UNCHANGED <<config, pool, mem, phase, req, b1, b2, local, resp>>

-----------------------------------------------------------------------------
(* Mutant: the id is taken as it comes.                                    *)
getIDAsIs(r) == r.id

(* Keys and stored values.                                                 *)
redisKey(keyspace, id)         == <<keyspace, id>>
redisKeyCT(keyspace, id, slot) == <<keyspace, id, slot>>
getID(r)                       == ToUpper[r.id]
KeyOf(r)                       == redisKey(r.keyspace, getID(r))
Known(keyspace)                == keyspace \in DOMAIN config.Keyspaces

(* The first character of a decimal number, as a byte.                     *)
LeadingDigit[n \in Nat] == IF n < 10 THEN n ELSE LeadingDigit[n \div 10]
FirstByte(n)            == IF n < 0 THEN 45 ELSE 48 + LeadingDigit[n]

(* redisParseResult: the first byte is the magic byte, whatever the value  *)
(* is; a value without a byte (no handler writes one) is an error.         *)
redisParseResult(e) ==
    CASE e.kind = "int" ->
           [err |-> FALSE, magicByte |-> NewFrom(FirstByte(e.val)), data |-> Text]
      [] e.kind = "bytes" /\ e.val = <<>> ->
           [err |-> TRUE, magicByte |-> NewFrom(0), data |-> Empty]
      [] OTHER ->
           [err |-> FALSE, magicByte |-> NewFrom(e.val[1]), data |-> e.val[2]]

-----------------------------------------------------------------------------
(* sync.Pool: Get returns some pooled buffer or a new one; the garbage     *)
(* collector may empty the pool at any time.                               *)
Held(h)    == {b1[h], b2[h]} \ {NoBuffer}
InUse      == UNION {Held(h) : h \in Handlers}
Obtainable == pool \cup (Buffers \ InUse)

(* bytes.Buffer: Reset empties it, Bytes is all that was written since.    *)
Reset(b)  == [mem EXCEPT ![b] = <<>>]
Bytes(b)  == IF Len(mem[b]) = 1 THEN mem[b][1] ELSE Text

GC(b) == /\ b \in pool
         /\ pool' = pool \ {b}
         /\ mem' = Reset(b)
         /\ UNCHANGED <<config, redis, late, phase, req, b1, b2, local, resp>>

-----------------------------------------------------------------------------
Init == /\ \E c \in Configs : Starts(c) /\ config = getConfig(c)
        /\ redis \in Preloaded
        /\ pool = {}
        /\ mem = [b \in Buffers |-> <<>>]
        /\ phase = [h \in Handlers |-> "idle"]
        /\ req = [h \in Handlers |-> NoRequest]
        /\ b1 = [h \in Handlers |-> NoBuffer]
        /\ b2 = [h \in Handlers |-> NoBuffer]
        /\ local = [h \in Handlers |-> NoLocal]
        /\ resp = [h \in Handlers |-> NoReply]
        /\ late = [s \in Slots |-> NoCommand]

Reply(h, answer) == /\ phase' = [phase EXCEPT ![h] = "replied"]
                    /\ resp' = [resp EXCEPT ![h] = answer]

Accept(h, r) == /\ phase[h] = "idle"
                /\ req' = [req EXCEPT ![h] = r]

Goto(h, p) == /\ phase' = [phase EXCEPT ![h] = p]
              /\ UNCHANGED resp

-----------------------------------------------------------------------------
(* PUT and POST /v2/{keyspace}/{id}: handleFuncXdasPut.                    *)
Claimed(r) == New(r.ce, r.ct, 0)

(* validateKeyspace and the test of the headers against the configuration. *)
Acceptable(r) ==
    /\ Known(r.keyspace)
    /\ LET input == config.Keyspaces[r.keyspace].Input
       IN  /\ input.cev # 0 => input.cev = Claimed(r).cev
           /\ input.ctv # 0 => input.ctv = Claimed(r).ctv

PutReject(h, r) == /\ r.op = "put" /\ ~Acceptable(r)
                   /\ Accept(h, r)
                   /\ Reply(h, Code(400))
                   /\ UNCHANGED <<config, redis, late, local, bufVars>>

PutBegin(h, r) == /\ r.op = "put" /\ Acceptable(r)
                  /\ Accept(h, r)
                  /\ Goto(h, "reading")
                  /\ \E b \in Obtainable : /\ pool' = pool \ {b}
                                           /\ b1' = [b1 EXCEPT ![h] = b]
                                           /\ mem' = Reset(b)
                  /\ UNCHANGED <<config, redis, late, b2, local>>

(* Mutant: b1 goes back to the pool once the body is read.                 *)
PutReadEarlyPut(h) == /\ phase[h] = "reading"
                      /\ Goto(h, "read")
                      /\ mem' = [mem EXCEPT ![b1[h]] = Append(@, req[h].body)]
                      /\ pool' = pool \cup {b1[h]}
                      /\ UNCHANGED <<config, redis, late, b1, b2, req, local>>

(* readAll: the body arrives in b1, or an error (413 when it is too long). *)
PutRead(h) == /\ phase[h] = "reading"
              /\ Goto(h, "read")
              /\ mem' = [mem EXCEPT ![b1[h]] = Append(@, req[h].body)]
              /\ UNCHANGED <<config, redis, late, pool, b1, b2, req, local>>

PutReadFails(h) == /\ phase[h] = "reading"
                   /\ \E code \in {400, 413} : Reply(h, Code(code))
                   /\ UNCHANGED <<config, redis, late, bufVars, req, local>>

(* Mutant: ValidateContent is not looked at.                               *)
PutBadContentUnvalidated(h) ==
    /\ config.Keyspaces[req[h].keyspace].Store.cev = 0
    /\ Claimed(req[h]).cev # 0
    /\ Unpack(config.Key, req[h].keyspace, Claimed(req[h]), Bytes(b1[h])).err

(* The content tests and the conversion to the stored format.              *)
PutBadContent(h) ==
    LET r == req[h]
    IN  /\ \/ config.ValidateContent
           \/ /\ config.Keyspaces[r.keyspace].Store.cev = 0
              /\ Claimed(r).cev # 0
        /\ Unpack(config.Key, r.keyspace, Claimed(r), Bytes(b1[h])).err

ToStored(h) == Convert(config.Key, req[h].keyspace, Claimed(req[h]),
                       config.Keyspaces[req[h].keyspace].Store, Bytes(b1[h]))

(* Mutant: bad content is detected and not answered.                       *)
PutConvertFailsSilently(h) == /\ phase[h] = "read"
                              /\ ~PutBadContent(h) /\ ToStored(h).err
                              /\ Reply(h, Code(500))
                              /\ UNCHANGED <<config, redis, late, bufVars, req, local>>

PutConvertFails(h) == /\ phase[h] = "read"
                      /\ PutBadContent(h) \/ ToStored(h).err
                      /\ Reply(h, Code(IF PutBadContent(h) THEN 400 ELSE 500))
                      /\ UNCHANGED <<config, redis, late, bufVars, req, local>>

(* Mutant: writeToBufPool without its Reset.                               *)
writeToUsedBuf(h, b, mb, data) == /\ pool' = pool \ {b}
                                  /\ b2' = [b2 EXCEPT ![h] = b]
                                  /\ mem' = [mem EXCEPT ![b] = @ \o <<mb, data>>]

(* writeToBufPool copies the magic byte and the data to b2.                *)
writeToBufPool(h, b, mb, data) == /\ pool' = pool \ {b}
                                  /\ b2' = [b2 EXCEPT ![h] = b]
                                  /\ mem' = [mem EXCEPT ![b] = <<mb, data>>]

PutConvert(h) ==
    /\ phase[h] = "read"
    /\ ~PutBadContent(h) /\ ~ToStored(h).err
    /\ local' = [local EXCEPT ![h].ttl =
                   getTTL(req[h].xttl, config.Keyspaces[req[h].keyspace].ttl)]
    /\ \E b \in Obtainable :
         writeToBufPool(h, b, Get(ToStored(h).magicByte), ToStored(h).data)
    /\ Goto(h, "storing")
    /\ UNCHANGED <<config, redis, late, b1, req>>

History(h) == [request |-> req[h], key |-> config.Key,
               encryption |-> config.Encryption, validated |-> config.ValidateContent]

PutCommand(h) == SetCommand(KeyOf(req[h]), mem[b2[h]], local[h].ttl, History(h))

PutSet(h) == /\ phase[h] = "storing"
             /\ redis' = Run(PutCommand(h))
             /\ Reply(h, Code(200))
             /\ UNCHANGED <<config, late, bufVars, req, local>>

(* Mutant: b2 is put back whether or not it was obtained.                  *)
ReturnAlwaysBoth(h) == /\ phase[h] = "replied"
                       /\ phase' = [phase EXCEPT ![h] = "idle"]
                       /\ pool' = pool \cup {b1[h], b2[h]}
                       /\ b1' = [b1 EXCEPT ![h] = NoBuffer]
                       /\ b2' = [b2 EXCEPT ![h] = NoBuffer]
                       /\ req' = [req EXCEPT ![h] = NoRequest]
                       /\ local' = [local EXCEPT ![h] = NoLocal]
                       /\ resp' = [resp EXCEPT ![h] = NoReply]
                       /\ UNCHANGED <<config, redis, late, mem>>

(* The handler returns; its deferred calls put b2 and b1 back, with the    *)
(* bytes still in them.  Which bytes is abstracted to Text: a use of them  *)
(* without a Reset shows whatever they were.                               *)
Return(h) == /\ phase[h] = "replied"
             /\ phase' = [phase EXCEPT ![h] = "idle"]
             /\ pool' = pool \cup Held(h)
             /\ b1' = [b1 EXCEPT ![h] = NoBuffer]
             /\ b2' = [b2 EXCEPT ![h] = NoBuffer]
             /\ req' = [req EXCEPT ![h] = NoRequest]
             /\ local' = [local EXCEPT ![h] = NoLocal]
             /\ resp' = [resp EXCEPT ![h] = NoReply]
             /\ mem' = [b \in Buffers |-> IF b \in Held(h) THEN <<Text>> ELSE mem[b]]
             /\ UNCHANGED <<config, redis, late>>

-----------------------------------------------------------------------------
(* GET /v2/{keyspace}/{id}: handleFuncXdasGet, xdasCommonGet and, for an   *)
(* atomic keyspace, handleFuncXdasAtomicGet.  findx is the set of          *)
(* (keyspace, id) the handler passes to findX; read is history: the entry. *)
Miss(r, keyspaces) ==
    IF r.nofindx THEN {} ELSE {<<ks, getID(r)>> : ks \in keyspaces}

OutFormat(r) ==
    IF r.format = "" THEN config.Keyspaces[r.keyspace].Output ELSE New("", r.format, 0)

GetFound(r, e) ==
    LET stored == redisParseResult(e)
        out    == Convert(config.Key, r.keyspace, stored.magicByte, OutFormat(r),
                          stored.data)
    IN  IF stored.err THEN Code(500)
        ELSE IF r.format = "raw"
        THEN [code |-> 200, raw |-> <<Get(stored.magicByte), stored.data>>, read |-> e]
        ELSE IF r.format # "" /\ OutFormat(r).ctv = ContentTypeUnknown THEN Code(400)
        ELSE IF out.err THEN Code(500)
        ELSE [code |-> 200, headers |-> SetContentHeaders(out.magicByte),
              body |-> out.data, read |-> e]

GetAnswer(r) ==
    IF ~Known(r.keyspace) THEN Code(400)
    ELSE IF config.Keyspaces[r.keyspace].Kind = "atomic"
         THEN IF Has(KeyOf(r))
              THEN [code |-> 200, atomic |-> redis[KeyOf(r)].val, read |-> redis[KeyOf(r)]]
              ELSE Code(404)
    ELSE IF Has(KeyOf(r)) THEN GetFound(r, redis[KeyOf(r)])
    ELSE [code |-> 404, findx |-> Miss(r, {r.keyspace})]

HandleGet(h, r) == /\ r.op = "get"
                   /\ Accept(h, r)
                   /\ Reply(h, GetAnswer(r))
                   /\ UNCHANGED <<config, redis, late, bufVars, local>>

(* GET /v2/multi/{id}: handleFuncXdasMultiGet.  parts maps the positions   *)
(* of the keyspaces that made it into the answer to their parts.           *)
MultiKey(r, ks) ==
    IF ks = "ct" THEN redisKeyCT(ks, getID(r), r.slot) ELSE redisKey(ks, getID(r))

(* Mutant: the part is sent as it is stored.                               *)
MultiPartUnconverted(r, ks) == redisParseResult(redis[MultiKey(r, ks)])

MultiPart(r, ks) ==
    LET stored == redisParseResult(redis[MultiKey(r, ks)])
    IN  IF stored.err THEN stored
        ELSE Convert(config.Key, ks, stored.magicByte, config.Keyspaces[ks].Output,
                     stored.data)

(* The requested keyspaces, or the configured ones; those that do not      *)
(* exist are skipped.                                                      *)
MultiKeyspaces(r) == IF r.ks = <<>> THEN config.Multipart ELSE r.ks
MultiValid(r)     == {i \in DOMAIN MultiKeyspaces(r) : Known(MultiKeyspaces(r)[i])}

MultiAnswer(r) ==
    LET ks       == MultiKeyspaces(r)
        found    == {i \in MultiValid(r) : Has(MultiKey(r, ks[i]))}
        included == {i \in found : /\ ~MultiPart(r, ks[i]).err
                                   /\ ks[i] = "ct" => getID(r) \notin Underscored}
        missing  == {ks[i] : i \in MultiValid(r) \ found}
    IN  IF included = {}
        THEN [code |-> 404, findx |-> Miss(r, missing)]
        ELSE [code |-> 200, findx |-> Miss(r, missing),
              parts |-> [i \in included |->
                          [headers |-> SetContentHeaders(MultiPart(r, ks[i]).magicByte),
                           body    |-> MultiPart(r, ks[i]).data,
                           read    |-> redis[MultiKey(r, ks[i])]]]]

HandleMultiGet(h, r) == /\ r.op = "multi"
                        /\ Accept(h, r)
                        /\ Reply(h, MultiAnswer(r))
                        /\ UNCHANGED <<config, redis, late, bufVars, local>>

(* A read that Redis does not answer: sendRedisReadErr, and no findX.      *)
ReadFails(h, r) == /\ \/ r.op = "get" /\ Known(r.keyspace)
                      \/ r.op = "multi" /\ MultiValid(r) # {}
                   /\ Accept(h, r)
                   /\ Reply(h, Code(500))
                   /\ UNCHANGED <<config, redis, late, bufVars, local>>

-----------------------------------------------------------------------------
(* DELETE /v2/{keyspace}/{id}: handleFuncXdasDel.                          *)
DelReject(h, r) == /\ r.op = "del" /\ ~Known(r.keyspace)
                   /\ Accept(h, r)
                   /\ Reply(h, Code(400))
                   /\ UNCHANGED <<config, redis, late, bufVars, local>>

DelBegin(h, r) == /\ r.op = "del" /\ Known(r.keyspace)
                  /\ Accept(h, r)
                  /\ Goto(h, "deleting")
                  /\ UNCHANGED <<config, redis, late, bufVars, local>>

DelRun(h) == /\ phase[h] = "deleting"
             /\ redis' = Run(DelCommand(KeyOf(req[h])))
             /\ Reply(h, Code(IF Has(KeyOf(req[h])) THEN 200 ELSE 404))
             /\ UNCHANGED <<config, late, bufVars, req, local>>

-----------------------------------------------------------------------------
(* PUT and POST /v2/inc/{keyspace}/{id}: handleFuncXdasAtomicInc.  The     *)
(* pipeline is not a transaction: other clients' commands may come between *)
(* INCRBY and EXPIRE, and EXPIRE runs whether or not INCRBY failed.        *)
AtomicKeyspace(ks) == Known(ks) /\ config.Keyspaces[ks].Kind = "atomic"

(* strconv.ParseInt with its error dropped: a number out of range is       *)
(* clamped, and what is no number is 0; then 0 means 1.                    *)
IncrementOf(r) ==
    LET n == CASE r.n > MaxInt      -> MaxInt
               [] r.n < -MaxInt - 1 -> -MaxInt - 1
               [] OTHER             -> r.n
    IN  IF n = 0 THEN 1 ELSE n

IncReject(h, r) == /\ r.op = "inc" /\ ~AtomicKeyspace(r.keyspace)
                   /\ Accept(h, r)
                   /\ Reply(h, Code(400))
                   /\ UNCHANGED <<config, redis, late, bufVars, local>>

IncBegin(h, r) ==
    /\ r.op = "inc" /\ AtomicKeyspace(r.keyspace)
    /\ Accept(h, r)
    /\ local' = [local EXCEPT ![h].ttl =
                   getTTL(r.xttl, config.Keyspaces[r.keyspace].ttl)]
    /\ Goto(h, "incrementing")
    /\ UNCHANGED <<config, redis, late, bufVars>>

PipeCommand(h) == IncCommand(KeyOf(req[h]), IncrementOf(req[h]), local[h].ttl)

IncIncrBy(h) ==
    /\ phase[h] = "incrementing"
    /\ redis' = Run(PipeCommand(h))
    /\ LET result == IncrBy(KeyOf(req[h]), IncrementOf(req[h]))
       IN  local' = [local EXCEPT ![h].err = result.err, ![h].n = result.n]
    /\ Goto(h, "expiring")
    /\ UNCHANGED <<config, late, bufVars, req>>

IncExpire(h) ==
    /\ phase[h] = "expiring"
    /\ redis' = Run(After(PipeCommand(h)))
    /\ Reply(h, IF local[h].err THEN Code(500)
                ELSE [code |-> 200, value |-> local[h].n])
    /\ UNCHANGED <<config, late, bufVars, req, local>>

-----------------------------------------------------------------------------
(* Mutant: what is left of a broken pipeline is taken for all of it.       *)
AwaitedWhole(h) == CASE phase[h] = "storing"      -> PutCommand(h)
                     [] phase[h] = "deleting"     -> DelCommand(KeyOf(req[h]))
                     [] phase[h] = "incrementing" -> PipeCommand(h)
                     [] phase[h] = "expiring"     -> PipeCommand(h)

(* No answer in time, or a broken connection.  What the handler was        *)
(* waiting for is lost, or still under way.  go-redis (external) starts    *)
(* the command, or the whole pipeline, again while it may; then the        *)
(* handler answers with sendRedisWriteErr.                                 *)
Awaited(h) == CASE phase[h] = "storing"      -> PutCommand(h)
                [] phase[h] = "deleting"     -> DelCommand(KeyOf(req[h]))
                [] phase[h] = "incrementing" -> PipeCommand(h)
                [] phase[h] = "expiring"     -> After(PipeCommand(h))

Unanswered(h) ==
    /\ phase[h] \in {"storing", "deleting", "incrementing", "expiring"}
    /\ \/ late' = late
       \/ \E s \in Slots : /\ late[s] = NoCommand
                           /\ late' = [late EXCEPT ![s] = Awaited(h)]
    /\ UNCHANGED <<config, redis, bufVars, req>>

Retry(h) == /\ local[h].tries < MaxRetries
            /\ Unanswered(h)
            /\ Goto(h, IF phase[h] = "expiring" THEN "incrementing" ELSE phase[h])
            /\ local' = [local EXCEPT ![h].tries = @ + 1]

GiveUp(h) == /\ local[h].tries >= MaxRetries
             /\ Unanswered(h)
             /\ Reply(h, Code(500))
             /\ UNCHANGED local

-----------------------------------------------------------------------------
(* Redis drops a key whose time has come.                                  *)
Expires(k) == /\ Has(k) /\ redis[k].ttl > 0
              /\ redis' = Del(k)
              /\ UNCHANGED <<config, bufVars, phase, req, local, resp, late>>

(* The process ends, at any point of its handlers, and starts again with   *)
(* some configuration; Redis stays.                                        *)
Restart == /\ \E c \in Configs : Starts(c) /\ config' = getConfig(c)
           /\ pool' = {}
           /\ mem' = [b \in Buffers |-> <<>>]
           /\ phase' = [h \in Handlers |-> "idle"]
           /\ req' = [h \in Handlers |-> NoRequest]
           /\ b1' = [h \in Handlers |-> NoBuffer]
           /\ b2' = [h \in Handlers |-> NoBuffer]
           /\ local' = [h \in Handlers |-> NoLocal]
           /\ resp' = [h \in Handlers |-> NoReply]
           /\ UNCHANGED <<redis, late>>

Arrive(h, r) == \/ PutReject(h, r) \/ PutBegin(h, r)
                \/ HandleGet(h, r) \/ HandleMultiGet(h, r) \/ ReadFails(h, r)
                \/ DelReject(h, r) \/ DelBegin(h, r)
                \/ IncReject(h, r) \/ IncBegin(h, r)

Proceed(h) == \/ PutRead(h) \/ PutReadFails(h) \/ PutConvert(h) \/ PutConvertFails(h)
              \/ PutSet(h) \/ DelRun(h) \/ IncIncrBy(h) \/ IncExpire(h)
              \/ Retry(h) \/ GiveUp(h) \/ Return(h)

Next == \/ \E h \in Handlers : \/ \E r \in Requests : Arrive(h, r)
                               \/ Proceed(h)
        \/ \E b \in Buffers : GC(b)
        \/ \E k \in DOMAIN redis : Expires(k)
        \/ \E s \in Slots : TakesEffect(s)
        \/ Restart

Spec == Init /\ [][Next]_vars

(* A goroutine that can run is run, a body read ends (Web.Server's         *)
(* ReadTimeout) and so does a Redis command (the client's timeouts), so a  *)
(* handler that has started finishes; nothing obliges a request to arrive, *)
(* a key to expire, a late command to arrive or the process to restart.    *)
FairSpec == Spec /\ \A h \in Handlers : WF_vars(Proceed(h))

-----------------------------------------------------------------------------
Phases == {"idle", "reading", "read", "storing", "deleting", "incrementing", "expiring",
           "replied"}

(* The kinds of values the variables of the store take.                    *)
TypeOK == /\ pool \in SUBSET Buffers
          /\ DOMAIN mem = Buffers
          /\ phase \in [Handlers -> Phases]
          /\ req \in [Handlers -> Requests \cup {NoRequest}]
          /\ b1 \in [Handlers -> Buffers \cup {NoBuffer}]
          /\ b2 \in [Handlers -> Buffers \cup {NoBuffer}]
          /\ local \in [Handlers -> [ttl : Int64, err : BOOLEAN, n : Int64,
                                    tries : 0 .. MaxRetries]]
          /\ DOMAIN late = Slots
          /\ \A k \in DOMAIN redis : redis[k].ttl \in 0 .. MaxInt

(* No buffer is with two handlers, twice with one, or with a handler and   *)
(* in the pool: what the deferred bufPool.Put calls of handleFuncXdasPut   *)
(* must never bring about, whatever the order in which handlers run.       *)
BufferExclusive ==
    /\ \A h \in Handlers : Held(h) \cap pool = {}
    /\ \A h \in Handlers : b1[h] # NoBuffer => b1[h] # b2[h]
    /\ \A h, g \in Handlers : h # g => Held(h) \cap Held(g) = {}

Written(e) == e.kind = "bytes" /\ e.by # Nobody

(* Bytes d under magic byte m hold what request r sent: the very bytes, or *)
(* the same bytes compressed otherwise; where the content type has been    *)
(* converted (not exact), the same fields of the protobuf definition.      *)
SameContent(key, m, d, r, exact) ==
    LET sent == Claimed(r)
        now  == Decrypt(key, m.encryption, d)
        was  == UnPackByPB(key, sent, r.body)
        is   == UnPackByPB(key, m, d)
    IN  /\ ~now.err
        /\ exact => \/ m.cev = sent.cev /\ now.data = r.body
                    \/ /\ ~Decompress(m.cev, now.data).err
                       /\ Decompress(m.cev, now.data) = Decompress(sent.cev, r.body)
        /\ ~exact => /\ ~was.err
                     /\ ~is.err
                     /\ is.data.val = was.data.val

(* Every record in Redis is under the key of the request that wrote it and *)
(* holds what that request sent, told by its own magic byte alone: no      *)
(* bytes of another request (pooled buffers), no magic byte that does not  *)
(* fit the bytes (Convert).                                                *)
StoredAsSent ==
    \A k \in DOMAIN redis : Written(redis[k]) =>
        LET e == redis[k]
        IN  /\ k = KeyOf(e.by.request)
            /\ Len(e.val) = 2
            /\ SameContent(e.by.key, NewFrom(e.val[1]), e.val[2], e.by.request,
                           NewFrom(e.val[1]).ctv = Claimed(e.by.request).ctv)

(* Encryption at rest: a record is sealed with the key in force when it    *)
(* was written if Redis.Encryption was 1 then, and says so; README,        *)
(* Encryption.  Whatever conversion the record went through.               *)
EncryptedAtRest ==
    \A k \in DOMAIN redis : Written(redis[k]) =>
        LET e == redis[k]
        IN  /\ NewFrom(e.val[1]).encryption = e.by.encryption
            /\ e.by.encryption = 1 => /\ e.val[2].layer = "gcm"
                                      /\ e.val[2].key = e.by.key

(* The bodies a handler has answered with, with the headers it set.        *)
Answers(h) == IF "body" \in DOMAIN resp[h] THEN {resp[h]}
              ELSE IF "parts" \in DOMAIN resp[h]
                   THEN {resp[h].parts[i] : i \in DOMAIN resp[h].parts}
              ELSE {}

(* What a GET or a part of a multi GET returns, read with the headers it   *)
(* comes with, is what the record's writer sent; even when the process was *)
(* restarted with other formats, encryption or key in between.  And        *)
(* ?format=json and ?format=protobuf return that type uncompressed.        *)
AnsweredAsSent ==
    \A h \in Handlers : \A a \in Answers(h) :
        LET m == New(a.headers.ce, a.headers.ct, 0)
        IN  /\ Written(a.read) =>
                 LET r      == a.read.by.request
                     stored == NewFrom(a.read.val[1])
                 IN  SameContent(config.Key, m, a.body, r,
                                 Claimed(r).ctv = stored.ctv /\ stored.ctv = m.ctv)
            /\ req[h].op = "get" /\ req[h].format # "" => m = New("", req[h].format, 0)

(* What was accepted under ValidateContent stays readable: every later     *)
(* conversion to JSON or protobuf, compressed or not, succeeds.            *)
ValidatedReadable ==
    \A k \in DOMAIN redis : Written(redis[k]) /\ redis[k].by.validated =>
        LET e == redis[k]
        IN  \A ctv \in {ContentTypeJson, ContentTypeProtoBuf},
               cev \in {ContentEncodingNone, ContentEncodingZstd} :
              ~Convert(e.by.key, e.by.request.keyspace, NewFrom(e.val[1]),
                       NewMagicByte(cev, ctv, 0), e.val[2]).err

(* A counter of an atomic keyspace has no magic byte; the one a multi GET  *)
(* reads off its digits never lets the digits through as a record.         *)
PartsAreRecords ==
    \A h \in Handlers : \A a \in Answers(h) : a.read.kind = "bytes"

(* Only the writer's own Xttl can keep a record for good: a request without *)
(* one, or with one that does not parse, gets a retention, whatever the     *)
(* keyspace's ttl is (getTTL) and whatever an INC's EXPIRE does to it later.*)
ExpiresByDefault ==
    \A k \in DOMAIN redis :
        Written(redis[k]) /\ redis[k].by.request.xttl.kind \in {"none", "bad"}
            => redis[k].ttl > 0

(* A request that arrived is answered and its handler returns.             *)
Answered == \A h \in Handlers : phase[h] # "idle" ~> phase[h] = "idle"

-----------------------------------------------------------------------------
(* What the README and a comment say, and the code does not do.            *)

(* "All string kind keyspaces stored at rest are encrypted (atomic and     *)
(* hashes are not)", and atomic keyspaces "will not be encrypted".         *)
PlainKinds ==
    \A k \in DOMAIN redis :
        /\ Written(redis[k])
        /\ config.Keyspaces[k[1]].Kind \in {"atomic", "hashes"}
        => redis[k].val[2].layer # "gcm"

(* A multi GET's "GET calls return all the keyspaces set in the config":   *)
(* every record that is there and can be converted is in the answer.       *)
MultiReturnsAll ==
    [][\A h \in Handlers :
         /\ phase[h] = "idle" /\ phase'[h] = "replied"
         /\ req'[h].op = "multi" /\ resp'[h].code # 500
         => LET r == req'[h]
            IN  \A i \in MultiValid(r) :
                  Has(MultiKey(r, MultiKeyspaces(r)[i])) =>
                    \/ MultiPart(r, MultiKeyspaces(r)[i]).err
                    \/ resp'[h].code = 200 /\ i \in DOMAIN resp'[h].parts]_vars

(* "If no time unit is specified, second is assumed": a record for which a *)
(* positive number of seconds was asked has a retention.                   *)
AskedRetention ==
    \A k \in DOMAIN redis :
        /\ Written(redis[k])
        /\ redis[k].by.request.xttl.kind = "int" /\ redis[k].by.request.xttl.n > 0
        => redis[k].ttl > 0
=============================================================================
