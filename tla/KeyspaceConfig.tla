--------------------------- MODULE KeyspaceConfig ---------------------------
(***************************************************************************)
(* What start-up makes of a configuration file (cmd/xdas/config.go,        *)
(* internal/config/redis.go) and the retention a request asks for          *)
(* (getTTL).  Pure operators.                                              *)
(*                                                                         *)
(* A time text is [kind |-> "none"] (absent), [kind |-> "bad"], a bare     *)
(* number [kind |-> "int", n |-> ...] or one with a unit                   *)
(* [kind |-> "dur", n |-> ...], n an int64 (a text whose number does not   *)
(* fit is bad).  A time.Duration is an int64 number of ticks; the word is  *)
(* scaled down to -MaxInt - 1 .. MaxInt and one second to Second ticks, so *)
(* that its overflow is inside the model.                                  *)
(***************************************************************************)
EXTENDS MagicByte, Sequences

CONSTANTS MaxInt,            \* the largest value of Go's int64
          Second,            \* time.Second, in ticks
          defaultGlobalTTL   \* 168h, in ticks

ASSUME WordAssumption ==
    /\ MaxInt \in Nat \ {0}
    /\ Second \in 1 .. MaxInt
    /\ defaultGlobalTTL \in 1 .. MaxInt

Int64 == (-MaxInt - 1) .. MaxInt

(* A time text: a number that is no int64 does not parse and is bad.       *)
IsTime(t) == \/ t.kind \in {"none", "bad"}
             \/ t.kind \in {"int", "dur"} /\ t.n \in Int64

(* Two's complement wrap-around of an int64 multiplication.                *)
WrapInt64(x) == ((x + MaxInt + 1) % (2 * (MaxInt + 1))) - (MaxInt + 1)

(* time.ParseDuration: a number needs its unit, except zero.               *)
ParseDuration(t) ==
    CASE t.kind = "dur"             -> [err |-> FALSE, d |-> t.n]
      [] t.kind = "int" /\ t.n = 0  -> [err |-> FALSE, d |-> 0]
      [] OTHER                      -> [err |-> TRUE, d |-> 0]

(* Mutant: no default when the keyspace has no positive ttl.               *)
getTTLNoDefault(t, t2) ==
    CASE t.kind = "int"                              -> WrapInt64(t.n * Second)
      [] t.kind # "int" /\ ~ParseDuration(t).err     -> ParseDuration(t).d
      [] OTHER                                       -> t2

getTTL(t, t2) ==
    CASE t.kind = "int"                              -> WrapInt64(t.n * Second)
      [] t.kind # "int" /\ ~ParseDuration(t).err     -> ParseDuration(t).d
      [] OTHER -> IF t2 > 0 THEN t2 ELSE defaultGlobalTTL

(* RedisConfig.Validate.                                                   *)
ValidRedis(c) ==
    /\ c.Addrs # {}
    /\ c.Encryption \in 0 .. 1
    /\ Len(c.EncryptionKey) = 1

(* The texts Kind.UnmarshalText accepts; another one is an error of        *)
(* json.Unmarshal.  No text at all is "string", the zero value.            *)
Kinds == {"string", "dm", "atomic", "hashes"}

(* validateKeyspaceConfig ends the process on a keyspace without a         *)
(* parsable ttl; getConfig ends it on an unknown kind and on an invalid    *)
(* Redis section.                                                          *)
Starts(c) ==
    /\ ValidRedis(c)
    /\ \A ks \in DOMAIN c.Keyspaces : /\ c.Keyspaces[ks].Kind \in Kinds
                                      /\ ~ParseDuration(c.Keyspaces[ks].TTL).err

Inherit(text, from) == IF text = "" THEN from ELSE text

(* The loop body of validateKeyspaceConfig.  Input, Store and Output are   *)
(* [ContentType, ContentEncoding] before and magic bytes after.            *)
validateKeyspaceConfig(value, encryption) ==
    LET storeCE  == Inherit(value.Store.ContentEncoding, value.Input.ContentEncoding)
        storeCT  == Inherit(value.Store.ContentType, value.Input.ContentType)
        wantedCT == IF storeCT = "" THEN "" ELSE value.Output.ContentType
        outputCE == Inherit(value.Output.ContentEncoding, storeCE)
        outputCT == Inherit(wantedCT, storeCT)
    IN  [Input  |-> New(value.Input.ContentEncoding, value.Input.ContentType, 0),
         Store  |-> New(storeCE, storeCT, encryption),
         Output |-> New(outputCE, outputCT, 0),
         Kind   |-> value.Kind,
         ttl    |-> ParseDuration(value.TTL).d]

(* The Configuration the handlers work with.                               *)
getConfig(c) ==
    [Keyspaces       |-> [ks \in DOMAIN c.Keyspaces |->
                            validateKeyspaceConfig(c.Keyspaces[ks], c.Encryption)],
     Encryption      |-> c.Encryption,
     Key             |-> Head(c.EncryptionKey),
     ValidateContent |-> c.ValidateContent,
     Multipart       |-> c.Multipart]
=============================================================================
