------------------------------- MODULE MCStore -------------------------------
(* Instances of XdasStore for TLC.                                         *)
EXTENDS StoreRefinement, TLC

CONSTANTS h1, h2, x1, x2, x3, x4, v1, v2, k1, k2, s1

(* Handlers and buffers are interchangeable.                               *)
Symmetry == Permutations(Handlers) \cup Permutations(Buffers)

EmptyRedis == {[k \in {} |-> Nobody]}
Ids        == [dev |-> "DEV", DEV |-> "DEV", a_b |-> "A_B", oth |-> "OTH"]

None     == [kind |-> "none"]
Secs(n)  == [kind |-> "int", n |-> n]
Ticks(n) == [kind |-> "dur", n |-> n]
Bad      == [kind |-> "bad"]

Format(ce, ct)  == [ContentEncoding |-> ce, ContentType |-> ct]
AnyFormat       == Format("", "")
Keyspace(in, store, out, kind) ==
    [Input |-> in, Store |-> store, Output |-> out, Kind |-> kind, TTL |-> Ticks(4)]
Config(keyspaces, encryption, key, validate) ==
    [Keyspaces |-> keyspaces, Addrs |-> {"redis"}, Encryption |-> encryption,
     EncryptionKey |-> <<key>>,
     ValidateContent |-> validate, Multipart |-> <<"ks", "at">>]

PutReq(ks, id, ce, ct, body, xttl) ==
    [op |-> "put", keyspace |-> ks, id |-> id, ce |-> ce, ct |-> ct, body |-> body,
     xttl |-> xttl]
GetReq(ks, id, format) ==
    [op |-> "get", keyspace |-> ks, id |-> id, format |-> format, nofindx |-> FALSE]
DelReq(ks, id) == [op |-> "del", keyspace |-> ks, id |-> id]
MultiReq(ks, id, nofindx) ==
    [op |-> "multi", ks |-> ks, id |-> id, slot |-> "1_2", nofindx |-> nofindx]
IncReq(ks, id, n, xttl) ==
    [op |-> "inc", keyspace |-> ks, id |-> id, n |-> n, xttl |-> xttl]

-----------------------------------------------------------------------------
(* Formats: one handler, claims about bodies that are true and that are    *)
(* not, restarts between configurations that differ in formats, encryption,*)
(* key and validation.  Keyspace "np" has no protobuf definition.          *)
J  == Plain("json", v1, FALSE)
JX == Plain("json", v1, TRUE)
PX == Plain("protobuf", v1, TRUE)
O  == Plain("other", v1, FALSE)
Z(m) == Compressed("zstd", m)

FormatConfig(in, store, out, kind, encryption, key, validate) ==
    Config([ks |-> Keyspace(in, store, out, kind),
            np |-> Keyspace(in, store, out, "string")], encryption, key, validate)
FormatConfigs ==
    {FormatConfig(AnyFormat, AnyFormat, AnyFormat, "string", 0, k1, FALSE),
     FormatConfig(AnyFormat, AnyFormat, AnyFormat, "string", 1, k2, FALSE),
     FormatConfig(AnyFormat, Format("zstd", "json"), Format("", "protobuf"), "string",
                  1, k1, FALSE),
     FormatConfig(AnyFormat, Format("", "protobuf"), Format("zstd", "json"), "hashes",
                  1, k1, FALSE),
     FormatConfig(Format("zstd", "json"), Format("", "protobuf"), Format("zstd", "json"),
                  "string", 0, k1, TRUE),
     FormatConfig(AnyFormat, Format("zstd", ""), AnyFormat, "string", 1, k1, TRUE),
     FormatConfig(AnyFormat, Format("zlib", ""), AnyFormat, "string", 1, k1, FALSE)}
FormatRequests ==
    {PutReq("ks", "dev", c[1], c[2], c[3], None) :
        c \in {<<"", "json", J>>, <<"", "protobuf", PX>>, <<"", "", O>>,
               <<"zstd", "json", Z(JX)>>, <<"zstd", "protobuf", Z(PX)>>,
               <<"zlib", "json", Compressed("zlib", J)>>, <<"zstd", "protobuf", Empty>>,
               <<"zstd", "json", J>>, <<"", "json", Z(J)>>, <<"zstd", "json", Z(O)>>}}
    \cup {PutReq("np", "dev", "zstd", "json", Z(J), None)}
    \cup {GetReq("ks", "DEV", f) : f \in {"", "raw", "json", "protobuf", "octets"}}
    \cup {GetReq("np", "dev", ""), MultiReq(<<"np", "ks">>, "dev", TRUE),
          MultiReq(<<>>, "dev", TRUE)}

-----------------------------------------------------------------------------
(* Concurrency: two handlers, bodies and ids that tell them apart.         *)
SealedConfig == {Config([ks |-> Keyspace(AnyFormat, Format("", "json"), AnyFormat, "string"),
                         at |-> Keyspace(AnyFormat, AnyFormat, AnyFormat, "atomic")],
                        1, k1, FALSE)}
PlainJson(v)       == Plain("json", v, FALSE)
ConcurrentRequests == {PutReq("ks", "dev", "", "json", PlainJson(v1), None),
                       PutReq("ks", "dev", "zstd", "json", Z(PlainJson(v2)), Secs(0)),
                       DelReq("ks", "dev"), IncReq("at", "dev", 5, None),
                       GetReq("at", "dev", "")}
LiveRequests       == {PutReq("ks", "dev", "", "json", PlainJson(v1), None),
                       PutReq("ks", "dev", "zstd", "json", O, None),
                       IncReq("at", "dev", 7, None)}
LiveConfig         == {Config([ks |-> Keyspace(AnyFormat, AnyFormat, AnyFormat, "string"),
                               at |-> Keyspace(AnyFormat, AnyFormat, AnyFormat, "atomic")],
                              0, k1, FALSE)}

-----------------------------------------------------------------------------
(* Counters and multi GET: records and counters under one id, in keyspaces *)
(* whose kind a restart changes, "ct" slots and an empty value written by  *)
(* another program, unknown keyspaces, retentions at the edges.            *)
CounterConfig(atKind, encryption) ==
    Config([ks |-> Keyspace(AnyFormat, AnyFormat, AnyFormat, "string"),
            at |-> [Keyspace(AnyFormat, AnyFormat, AnyFormat, atKind) EXCEPT !.TTL = Secs(0)],
            ct |-> Keyspace(AnyFormat, AnyFormat, AnyFormat, "string")],
           encryption, k1, FALSE)
CounterConfigs  == {CounterConfig("atomic", 1), CounterConfig("string", 0)}
CounterRequests ==
    {PutReq("at", "dev", "", "", O, None), PutReq("at", "dev", "", "", O, Bad),
     PutReq("at", "dev", "", "", O, Secs(-1)), PutReq("nope", "dev", "", "", O, None),
     IncReq("at", "dev", 6, None), IncReq("at", "dev", -9, Secs(-1)),
     IncReq("at", "dev", 0, Secs(2)), IncReq("ks", "dev", 1, None),
     MultiReq(<<>>, "dev", TRUE), MultiReq(<<"at", "ct", "nope">>, "dev", FALSE),
     MultiReq(<<"at", "ct">>, "a_b", FALSE), MultiReq(<<"nope">>, "dev", FALSE),
     GetReq("at", "dev", ""), GetReq("nope", "dev", ""), GetReq("ks", "dev", "raw"),
     DelReq("at", "dev"), DelReq("nope", "dev")}
CtSlot(id)  == redisKeyCT("ct", id, "1_2")
CtEntry     == Entry("bytes", <<0, O>>, 4, Nobody)
NoBytes     == Entry("bytes", <<>>, 4, Nobody)
CtPreloaded == {[k \in {CtSlot("DEV"), CtSlot("A_B"), redisKey("ks", "DEV")} |->
                   IF k = redisKey("ks", "DEV") THEN NoBytes ELSE CtEntry]}

-----------------------------------------------------------------------------
(* What the documents say.                                                 *)
IncRequests  == {IncReq("at", "dev", 2, None)}
KindConfig   == {Config([at |-> Keyspace(AnyFormat, AnyFormat, AnyFormat, "atomic")],
                        1, k1, FALSE)}
KindRequests == {PutReq("at", "dev", "", "json", J, None), IncReq("at", "dev", 1, None)}
PartConfigs  == {[c EXCEPT !.Multipart = <<"ct", "ks">>] : c \in CounterConfigs}
PartRequests == {MultiReq(<<>>, id, TRUE) : id \in {"dev", "a_b"}}
TtlRequests  == {PutReq("ks", "dev", "", "json", J, Secs(n)) : n \in 1 .. 7}
=============================================================================
