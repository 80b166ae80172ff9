---------------------------- MODULE ServerConfig ----------------------------
(***************************************************************************)
(* The rest of what start-up demands of a configuration: the Web and       *)
(* HClient sections (internal/config) and the encryption key               *)
(* (rediscrypto.NewAesGCM).  Pure operators.                               *)
(*                                                                         *)
(* The name of a file is "" (not given), "pem" (a file that loads) or      *)
(* anything else (a file that does not).                                   *)
(***************************************************************************)
EXTENDS KeyspaceConfig

CONSTANT HexKeys  \* the EncryptionKey texts that are 64 hex digits

(* tls.LoadX509KeyPair                                                     *)
LoadX509KeyPair(t) == t.CertFile = "pem" /\ t.KeyFile = "pem"

(* TLS.Validate                                                            *)
ValidTLS(t) == /\ t.CertFile # "" => LoadX509KeyPair(t)
               /\ t.CaFile \in {"", "pem"}

(* HClientConfig.Validate: a JSON null replaces the transport NewHClient   *)
(* sets.                                                                   *)
ValidHClient(c) == ValidTLS(c.HClient.TLS) /\ c.HClient.Transport # "null"

(* WebConfig.Validate: the flag or WEB_ADDR goes before the file, which    *)
(* goes before the default.  The server's own TLS files are not looked at. *)
Addr(c)     == IF c.webAddr # "" THEN c.webAddr ELSE c.Web.Addr
ValidWeb(c) == Addr(c) # ""

(* main serves TLS when it has both names, and learns then whether they    *)
(* load.                                                                   *)
CanListen(c) == LET t == c.Web.TLS
                IN  t.CertFile # "" /\ t.KeyFile # "" => LoadX509KeyPair(t)

(* json.Unmarshal succeeds and getConfig returns.                          *)
Configures(c) == ValidWeb(c) /\ ValidHClient(c) /\ Starts(c)

(* rediscrypto.NewAesGCM, of a list that RedisConfig.Validate has found to *)
(* have one key.                                                           *)
NewAesGCM(hexKey) == hexKey[1] \in HexKeys
=============================================================================
