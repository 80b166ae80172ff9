--------------------------- MODULE StoreRefinement ---------------------------
(***************************************************************************)
(* XdasStore implements RecordService: what Redis holds and what the       *)
(* handlers answer, read as a client with the encryption key would, is a   *)
(* map of records and counters.  For Redis.ClientConfig.MaxRetries = 0 and *)
(* a Redis no other program writes to.                                     *)
(***************************************************************************)
EXTENDS XdasStore

(* What bytes d under magic byte m mean: the fields, where they are a      *)
(* message; else the bytes, uncompressed where they can be.                *)
Content(key, m, d) ==
    LET pb     == UnPackByPB(key, m, d)
        opened == Peel(key, m, d)
        plain  == Decrypt(key, m.encryption, d)
    IN  [content |-> IF ~pb.err THEN <<"fields", pb.data.val>>
                     ELSE IF ~opened.err THEN <<"bytes", m.ctv, opened.data>>
                     ELSE <<"raw", m.ctv, m.cev, plain.data>>]

(* A stored value, with the key of its writer.                             *)
Value(e) == IF e.kind = "int" THEN [counter |-> e.val]
            ELSE Content(e.by.key, NewFrom(e.val[1]), e.val[2])

Life(ttl, otherwise) == IF ttl > 0 THEN "transient" ELSE otherwise

(* A request as a call to the service that runs under configuration f; the *)
(* key is the keyspace and the upper-case id.                              *)
TTLOf(f, r) == getTTL(r.xttl, f.Keyspaces[r.keyspace].ttl)

LifeOf(f, r) == CASE r.keyspace \notin DOMAIN f.Keyspaces -> "kept"
                  [] r.op = "inc"                         -> Life(TTLOf(f, r), "gone")
                  [] OTHER                                -> Life(TTLOf(f, r), "kept")

Asked(f, r) == IF r.ks = <<>> THEN f.Multipart ELSE r.ks

AskedKey(r) == <<r.keyspace, ToUpper[r.id]>>

CallOf(f, r) ==
    CASE r.op = "put"   -> [op |-> "put", key |-> AskedKey(r), life |-> LifeOf(f, r),
                            value |-> Content(NoRequest, New(r.ce, r.ct, 0), r.body)]
      [] r.op = "get"   -> [op |-> "get", key |-> AskedKey(r)]
      [] r.op = "del"   -> [op |-> "del", key |-> AskedKey(r)]
      [] r.op = "inc"   -> [op |-> "inc", key |-> AskedKey(r), life |-> LifeOf(f, r),
                            n |-> IncrementOf(r)]
      [] r.op = "multi" -> [op |-> "multi",
                            keys |-> {MultiKey(r, Asked(f, r)[i]) : i \in DOMAIN Asked(f, r)}]

AllCalls == {CallOf(getConfig(c), r) : c \in Configs, r \in Requests}

(* A command under way as a call that is still to take effect.             *)
NoCall == [op |-> "none"]

WriteOf(c) ==
    CASE c.op = "none"   -> NoCall
      [] c.op = "set"    -> [op |-> "put", key |-> c.key, life |-> Life(c.ttl, "kept"),
                             value |-> Content(c.by.key, NewFrom(c.val[1]), c.val[2])]
      [] c.op = "del"    -> [op |-> "del", key |-> c.key]
      [] c.op = "inc"    -> [op |-> "inc", key |-> c.key, n |-> c.n,
                             life |-> Life(c.ttl, "gone")]
      [] c.op = "expire" -> [op |-> "renew", key |-> c.key, life |-> Life(c.ttl, "gone")]

(* An answer as its receiver reads it: by the headers it comes with; a     *)
(* value sent as it is stored, by its magic byte and its writer's key.     *)
ValueOfAnswer(a) ==
    CASE "raw" \in DOMAIN a    -> IF a.read.kind = "int" THEN [counter |-> a.read.val]
                                  ELSE Content(a.read.by.key, NewFrom(a.raw[1]), a.raw[2])
      [] "atomic" \in DOMAIN a -> IF a.read.kind = "int" THEN [counter |-> a.atomic]
                                  ELSE Content(a.read.by.key, NewFrom(a.atomic[1]), a.atomic[2])
      [] OTHER                 -> Content(NoRequest, New(a.headers.ce, a.headers.ct, 0), a.body)

MultiValue(f, r, parts) ==
    LET key(i) == MultiKey(r, Asked(f, r)[i])
    IN  [k \in {key(i) : i \in DOMAIN parts} |->
           ValueOfAnswer(parts[CHOOSE i \in DOMAIN parts : key(i) = k])]

(* What the client of a handler in phase p is told, or will be: r is the   *)
(* request, l the handler's local state and a the HTTP answer.             *)
CounterAnswer(n) == [found |-> [counter |-> n]]

AnswerTo(f, r, a) ==
    CASE a.code = 200 /\ r.op = "inc"   -> CounterAnswer(a.value)
      [] a.code = 200 /\ r.op = "get"   -> [found |-> ValueOfAnswer(a)]
      [] a.code = 200 /\ r.op = "multi" -> [found |-> MultiValue(f, r, a.parts)]
      [] a.code = 404 /\ r.op = "multi" -> [found |-> [k \in {} |-> 0]]
      [] a.code = 200 /\ r.op \in {"put", "del"} -> [done |-> TRUE]
      [] a.code = 404 /\ r.op # "multi" -> [absent |-> TRUE]
      [] OTHER                          -> [error |-> TRUE]

AnswerOf(f, p, r, l, a) ==
    CASE p = "expiring" -> IF l.err THEN [error |-> TRUE] ELSE CounterAnswer(l.n)
      [] p = "replied"  -> AnswerTo(f, r, a)
      [] OTHER          -> [none |-> TRUE]

CallIn(f, p, r) == IF p = "idle" THEN NoCall ELSE CallOf(f, r)

StateOf(p) == CASE p = "idle"     -> "idle"
                [] p = "replied"  -> "answered"
                [] p = "expiring" -> "applied"
                [] OTHER          -> "called"

(* The refinement mapping.                                                 *)
dbBar        == [k \in DOMAIN redis |-> [value |-> Value(redis[k]),
                                         life  |-> Life(redis[k].ttl, "kept")]]
callBar      == [h \in Handlers |-> CallIn(config, phase[h], req[h])]
stateBar     == [h \in Handlers |-> StateOf(phase[h])]
answerBar    == [h \in Handlers |->
                   AnswerOf(config, phase[h], req[h], local[h], resp[h])]
abandonedBar == [s \in Slots |-> WriteOf(late[s])]

Service == INSTANCE RecordService WITH
    Clients <- Handlers, Calls <- AllCalls, Limit <- MaxInt,
    db <- dbBar, call <- callBar, state <- stateBar, answer <- answerBar,
    abandoned <- abandonedBar

(* Every answer is one the abstract service could give: a write takes      *)
(* effect at most once, with its own content and life, also when its       *)
(* answer is an error, and a read shows the records of one moment; across  *)
(* handlers interleaved over the pool and Redis, commands that arrive      *)
(* late, expiries and restarts with other formats, encryption and keys.    *)
ImplementsService == Service!Spec
=============================================================================
