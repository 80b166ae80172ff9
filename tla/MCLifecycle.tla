----------------------------- MODULE MCLifecycle -----------------------------
(* Instances of Lifecycle for TLC.                                         *)
EXTENDS Lifecycle, TLC

CONSTANTS c1, c2, c3, a, b, bad, k1, k2

NoTLS      == [CertFile |-> "", KeyFile |-> "", CaFile |-> ""]
TTL(t)     == [Kind |-> "string", TTL |-> t]
Hour       == [kind |-> "dur", n |-> 4]

(* A file that is fine; Watched is the keyspace whose FindX is modelled.   *)
Good(watched) ==
    [Web |-> [Addr |-> ":8080", TLS |-> NoTLS], webAddr |-> "",
     HClient |-> [Transport |-> "http", TLS |-> NoTLS],
     Addrs |-> {"redis"}, Encryption |-> 1, EncryptionKey |-> <<k1>>,
     Keyspaces |-> (watched :> TTL(Hour)) @@ [oth |-> TTL(Hour)],
     Watched |-> watched, FindX |-> "URL"]

(* Nothing is wrong here either; without a URL the FindX does not start.   *)
Odd(g) == [g EXCEPT !.Web.Addr = "", !.webAddr = ":80", !.Web.TLS.CertFile = "pem",
                    !.HClient.TLS.CaFile = "pem", !.FindX = "no URL"]

(* One thing wrong at a time.                                              *)
Wrong(g) ==
    {[g EXCEPT !.Web.Addr = ""],
     [g EXCEPT !.Web.TLS.CertFile = "pem", !.Web.TLS.KeyFile = "lost"],
     [g EXCEPT !.HClient.TLS.CertFile = "pem"], [g EXCEPT !.HClient.TLS.CaFile = "lost"],
     [g EXCEPT !.HClient.Transport = "null"],
     [g EXCEPT !.Addrs = {}], [g EXCEPT !.Encryption = 2],
     [g EXCEPT !.EncryptionKey = <<>>], [g EXCEPT !.EncryptionKey = <<k1, k2>>],
     [g EXCEPT !.EncryptionKey = <<k2>>], [g EXCEPT !.Keyspaces.oth.Kind = "list"],
     [g EXCEPT !.Keyspaces.oth.TTL = [kind |-> "none"]]}
AllFiles == {Good("abc"), Good("pld"), Odd(Good("abc"))} \cup Wrong(Good("abc"))
=============================================================================
