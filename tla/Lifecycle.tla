------------------------------ MODULE Lifecycle ------------------------------
(***************************************************************************)
(* The life of the process (cmd/xdas/xdas.go): main's start-up, requests   *)
(* and the lookups their misses start (handler.go, findX), and the         *)
(* shutdown goroutine, composed with the FindX service of one keyspace.    *)
(* The services of other keyspaces would only delay Close.                 *)
(*                                                                         *)
(* Callers of FindX are the HTTP handlers and, for keyspace pld, the bare  *)
(* goroutines findX starts, which Shutdown knows nothing of.  net/http     *)
(* recovers a panic in a handler.  A request is what it does to shared     *)
(* state: one exchange with Redis, then a conversion or a lookup.          *)
(***************************************************************************)
EXTENDS FindX, ServerConfig

CONSTANTS Files,         \* the configuration files main may find
          Names,         \* the keyspaces requests name, configured or not
          NoKeyspace

ASSUME LifecycleAssumption ==
    /\ \A c \in Files : c.Watched \in DOMAIN c.Keyspaces
    /\ NoKeyspace \notin Names

VARIABLES file,       \* the configuration
          proc,       \* where main is
          crypto,     \* rediscrypto.Encrypt and Decrypt are set
          provider,   \* conversion.defaultMetrics
          counters,   \* prometheusMetrics.counters: the keyspaces that have one
          web,        \* the web server
          redisOpen,  \* Redis.Close has not been called
          quit,       \* a signal is, or was, on the quit channel
          stopper,    \* where the shutdown goroutine is
          timedOut,   \* Shutdown gave up on its requests after 30 seconds
          step,       \* what each handler and each pld goroutine is doing
          target,     \* the keyspace of a handler's request
          wanted      \* the id of the request, or of the goroutine

mainVars == <<file, proc, crypto, provider, counters>>
stopVars == <<web, redisOpen, quit, stopper, timedOut>>
callVars == <<step, target, wanted>>
lifeVars == <<vars, mainVars, stopVars, callVars>>

Handlers   == Callers \ Bare
Goroutines == Bare
Keyspaces  == DOMAIN file.Keyspaces

LifeInit == /\ Init
            /\ file \in Files
            /\ proc = "config"
            /\ crypto = FALSE
            /\ provider = "noMetrics"
            /\ counters = {}
            /\ web = "new"
            /\ redisOpen = TRUE
            /\ quit = FALSE
            /\ stopper = "none"
            /\ timedOut = FALSE
            /\ step = [c \in Callers |-> "idle"]
            /\ target = [c \in Callers |-> NoKeyspace]
            /\ wanted = [c \in Callers |-> NoId]

(* logger.Fatal is "fatal", a signal nobody asked to be notified of is     *)
(* "killed"; crashed is FindX's.                                           *)
Ended == proc \in {"exited", "fatal", "killed"} \/ crashed
At(p) == ~Ended /\ proc = p

-----------------------------------------------------------------------------
(* main, up to the web server.                                             *)
GetConfig == /\ At("config")
             /\ proc' = IF Configures(file) THEN "crypto" ELSE "fatal"
             /\ UNCHANGED <<vars, file, crypto, provider, counters, stopVars, callVars>>

InitCrypto == /\ At("crypto")
              /\ proc' = IF NewAesGCM(file.EncryptionKey) THEN "convert" ELSE "fatal"
              /\ crypto' = NewAesGCM(file.EncryptionKey)
              /\ UNCHANGED <<vars, file, provider, counters, stopVars, callVars>>

(* prometheusMetrics.init makes the counters of one keyspace after another *)
(* and registers them, which may fail and end it half-way.                 *)
MetricsInit == {o \in [made : SUBSET Keyspaces, err : BOOLEAN] :
                  o.err \/ o.made = Keyspaces}

(* Mutant: a provider whose init failed half-way is kept.                  *)
ConversionInitKeeps == \E o \in MetricsInit : /\ counters' = o.made
                                              /\ provider' = "prometheus"

(* conversion.Init                                                         *)
ConversionInit ==
    \E o \in MetricsInit : /\ counters' = o.made
                            /\ provider' = IF o.err THEN "noMetrics" ELSE "prometheus"

NewConvert == /\ At("convert")
              /\ ConversionInit
              /\ proc' = "findx"
              /\ UNCHANGED <<vars, file, crypto, stopVars, callVars>>

(* incContentEncodingSuc and the like find a counter; unknown, which they  *)
(* would take instead, is never set.                                       *)
HasCounter(ks) == provider = "noMetrics" \/ ks \in counters

(* newFindX logs a Start that fails.                                       *)
NewFindX == /\ At("findx")
            /\ IF file.FindX = "URL" THEN Start ELSE StartFails
            /\ proc' = "notify"
            /\ UNCHANGED <<file, crypto, provider, counters, stopVars, callVars>>

(* signal.Notify and go s.shutdown.                                        *)
Notify == /\ At("notify")
          /\ proc' = "listen"
          /\ stopper' = "waiting"
          /\ UNCHANGED <<vars, file, crypto, provider, counters, web, redisOpen, quit,
                         timedOut, callVars>>

-----------------------------------------------------------------------------
(* ListenAndServe.  It returns ErrServerClosed as soon as Shutdown has     *)
(* been called, before or after it listens; any other error is fatal.      *)
Listen == /\ At("listen") /\ web = "new" /\ CanListen(file)
          /\ web' = "open"
          /\ proc' = "serving"
          /\ UNCHANGED <<vars, file, crypto, provider, counters, redisOpen, quit, stopper,
                         timedOut, callVars>>

ListenFails == /\ \/ At("listen") /\ web = "new"
                  \/ At("serving") /\ web = "open"
               /\ proc' = "fatal"
               /\ UNCHANGED <<vars, file, crypto, provider, counters, stopVars, callVars>>

ErrServerClosed == /\ \/ At("listen") /\ web # "new"
                      \/ At("serving") /\ web # "open"
                   /\ proc' = "done"
                   /\ UNCHANGED <<vars, file, crypto, provider, counters, stopVars,
                                  callVars>>

(* <-done, and main returns, which ends every other goroutine.             *)
Exit == /\ At("done") /\ stopper = "done"
        /\ proc' = "exited"
        /\ UNCHANGED <<vars, file, crypto, provider, counters, stopVars, callVars>>

-----------------------------------------------------------------------------
(* Requests.  They come over connections, which Shutdown closes once they  *)
(* are idle; until it returns one may still bring its request.             *)
Working   == {c \in Callers : step[c] # "idle"}
Do(c, s)  == step' = [step EXCEPT ![c] = s]
Leave(c)  == /\ Do(c, "idle")
             /\ target' = [target EXCEPT ![c] = NoKeyspace]
             /\ wanted' = [wanted EXCEPT ![c] = NoId]

(* A request for a keyspace that is not configured ends in                 *)
(* validateKeyspace or, in a multi GET, is skipped.                        *)
Arrive(h, ks, id) ==
    /\ ~Ended /\ web \in {"open", "shutting"} /\ step[h] = "idle" /\ caller[h] = "idle"
    /\ calls + Cardinality(Working) < MaxCalls
    /\ ks \in Keyspaces
    /\ Do(h, "redis")
    /\ target' = [target EXCEPT ![h] = ks]
    /\ wanted' = [wanted EXCEPT ![h] = id]
    /\ UNCHANGED <<vars, mainVars, stopVars>>

(* Redis answers a request with something to convert or with a miss, or    *)
(* not at all.  A miss of another keyspace, or with nofindx, is answered   *)
(* like an error: with no further step.                                    *)
Hit(h) == /\ ~Ended /\ step[h] = "redis" /\ redisOpen
          /\ Do(h, "converting")
          /\ UNCHANGED <<vars, mainVars, stopVars, target, wanted>>

Miss(h) == /\ ~Ended /\ step[h] = "redis" /\ redisOpen
           /\ target[h] = file.Watched
           /\ Do(h, "missed")
           /\ UNCHANGED <<vars, mainVars, stopVars, target, wanted>>

Answer(h) == /\ ~Ended /\ step[h] \in {"redis", "converting"}
             /\ Leave(h)
             /\ UNCHANGED <<vars, mainVars, stopVars>>

(* findX: for pld a goroutine goes on, and the handler answers 404.        *)
FindXGo(h, g) == /\ ~Ended /\ step[h] = "missed" /\ file.Watched = "pld"
                 /\ step[g] = "idle" /\ caller[g] = "idle"
                 /\ step' = [step EXCEPT ![h] = "idle", ![g] = "exists"]
                 /\ target' = [target EXCEPT ![h] = NoKeyspace]
                 /\ wanted' = [wanted EXCEPT ![h] = NoId, ![g] = wanted[h]]
                 /\ UNCHANGED <<vars, mainVars, stopVars>>

(* EXISTS in keyspace pa; the value of a failed command is 0.              *)
Exists(g) == /\ ~Ended /\ step[g] = "exists"
             /\ \/ redisOpen /\ Do(g, "missed")
                \/ Do(g, "absent")
             /\ UNCHANGED <<vars, mainVars, stopVars, target, wanted>>

FindXAdd(c) == /\ ~Ended /\ step[c] = "missed"
               /\ c \in Goroutines \/ file.Watched # "pld"
               /\ AddBegin(c, wanted[c]) \/ NotEnabled(c)
               /\ Do(c, "finding")
               /\ UNCHANGED <<mainVars, stopVars, target, wanted>>

FindXReject(g) == /\ ~Ended /\ step[g] = "absent"
                  /\ Reject(g) \/ NotEnabled(g)
                  /\ Do(g, "finding")
                  /\ UNCHANGED <<mainVars, stopVars, target, wanted>>

Adding(c) == /\ ~Ended /\ step[c] = "finding"
             /\ InAdd(c)
             /\ UNCHANGED <<mainVars, stopVars, callVars>>

(* Add has returned, or net/http has recovered its panic.                  *)
Found(c) == /\ ~Ended /\ step[c] = "finding" /\ caller[c] \in {"idle", "panicked"}
            /\ Leave(c)
            /\ UNCHANGED <<vars, mainVars, stopVars>>

Worker(w) == ~Ended /\ Work(w) /\ UNCHANGED <<mainVars, stopVars, callVars>>

-----------------------------------------------------------------------------
(* A signal, once shutdown waits for it or before.                         *)
Signal == /\ ~Ended /\ ~quit /\ stopper # "none"
          /\ quit' = TRUE
          /\ UNCHANGED <<vars, mainVars, web, redisOpen, stopper, timedOut, callVars>>

Kill == /\ ~Ended /\ stopper = "none"
        /\ proc' = "killed"
        /\ UNCHANGED <<vars, file, crypto, provider, counters, stopVars, callVars>>

(* shutdown: the web server first, ...                                     *)
Shutdown == /\ ~Ended /\ stopper = "waiting" /\ quit
            /\ web' = "shutting"
            /\ stopper' = "web"
            /\ UNCHANGED <<vars, mainVars, redisOpen, quit, timedOut, callVars>>

(* Mutant: Shutdown is started and not waited for.                         *)
ShutdownReturnsAtOnce == /\ ~Ended /\ stopper = "web"
                         /\ web' = "closed"
                         /\ stopper' = "redis"
                         /\ UNCHANGED <<vars, mainVars, redisOpen, quit, timedOut, callVars>>

ShutdownReturns == /\ ~Ended /\ stopper = "web"
                   /\ Working \cap Handlers = {}
                   /\ web' = "closed"
                   /\ stopper' = "redis"
                   /\ UNCHANGED <<vars, mainVars, redisOpen, quit, timedOut, callVars>>

ShutdownTimesOut == /\ ~Ended /\ stopper = "web"
                    /\ Working \cap Handlers # {}
                    /\ web' = "closed"
                    /\ timedOut' = TRUE
                    /\ stopper' = "redis"
                    /\ UNCHANGED <<vars, mainVars, redisOpen, quit, callVars>>

(* ... then the Redis client, ...                                          *)
RedisClose == /\ ~Ended /\ stopper = "redis"
              /\ redisOpen' = FALSE
              /\ stopper' = "findx"
              /\ UNCHANGED <<vars, mainVars, web, quit, timedOut, callVars>>

(* Mutant: FindX is closed in a goroutine of its own.                      *)
FindXCloseAsync == /\ ~Ended /\ stopper = "findx"
                   /\ CloseDisables \/ (closer = "off" /\ UNCHANGED vars)
                   /\ stopper' = "done"
                   /\ UNCHANGED <<mainVars, web, redisOpen, quit, timedOut, callVars>>

(* ... then FindX, whose Close does nothing when it is not enabled, ...    *)
FindXClose == /\ ~Ended /\ stopper = "findx"
              /\ CloseDisables \/ (closer = "off" /\ UNCHANGED vars)
              /\ stopper' = "closing"
              /\ UNCHANGED <<mainVars, web, redisOpen, quit, timedOut, callVars>>

FindXCloses == /\ ~Ended /\ Closing
               /\ UNCHANGED <<mainVars, stopVars, callVars>>

(* ... and close(done).                                                    *)
Done == /\ ~Ended /\ stopper = "closing" /\ closer \in {"returned", "off"}
        /\ stopper' = "done"
        /\ UNCHANGED <<vars, mainVars, web, redisOpen, quit, timedOut, callVars>>

-----------------------------------------------------------------------------
Main    == \/ GetConfig \/ InitCrypto \/ NewConvert \/ NewFindX \/ Notify
           \/ Listen \/ ErrServerClosed \/ Exit
Stopper == \/ Shutdown \/ ShutdownReturns \/ ShutdownTimesOut \/ RedisClose
           \/ FindXClose \/ FindXCloses \/ Done
Serve(h) == \/ \E ks \in Names, id \in Ids : Arrive(h, ks, id)
            \/ Hit(h) \/ Miss(h) \/ Answer(h)
            \/ \E g \in Goroutines : FindXGo(h, g)

LifeNext == \/ Main \/ ListenFails
            \/ \E h \in Handlers : Serve(h)
            \/ \E g \in Goroutines : Exists(g) \/ FindXReject(g)
            \/ \E c \in Callers : FindXAdd(c) \/ Adding(c) \/ Found(c)
            \/ \E w \in Workers : Worker(w)
            \/ Signal \/ Kill \/ Stopper

LifeSpec == LifeInit /\ [][LifeNext]_lifeVars

(* main, the shutdown goroutine and the workers run: the file is read,     *)
(* Shutdown's context has a deadline and the lookups' HTTP client a        *)
(* timeout.  Handlers and pld goroutines may be stuck for ever.            *)
LifeFair == /\ LifeSpec
            /\ WF_lifeVars(Main) /\ WF_lifeVars(Stopper)
            /\ \A w \in Workers : WF_lifeVars(Worker(w))

-----------------------------------------------------------------------------
(* The kinds of values.                                                    *)
LifeTypeOK == /\ TypeOK
              /\ file \in Files
              /\ proc \in {"config", "crypto", "convert", "findx", "notify", "listen",
                           "serving", "done", "exited", "fatal", "killed"}
              /\ crypto \in BOOLEAN /\ redisOpen \in BOOLEAN
              /\ quit \in BOOLEAN /\ timedOut \in BOOLEAN
              /\ provider \in {"noMetrics", "prometheus"}
              /\ counters \subseteq Keyspaces
              /\ web \in {"new", "open", "shutting", "closed"}
              /\ stopper \in {"none", "waiting", "web", "redis", "findx", "closing", "done"}
              /\ step \in [Callers -> {"idle", "redis", "converting", "missed",
                                       "exists", "absent", "finding"}]
              /\ target \in [Callers -> Names \cup {NoKeyspace}]
              /\ wanted \in [Callers -> Ids \cup {NoId}]

(* A conversion never follows a nil pointer: the cipher is initialised     *)
(* before a request is served, and a provider with counters has one for    *)
(* the request's keyspace (prometheusMetrics.unknown is never set).        *)
Ready == \A h \in Handlers : step[h] = "converting" =>
            crypto /\ HasCounter(target[h])

(* Unless Shutdown times out, no request loses its Redis client or its     *)
(* process to an orderly stop, and none panics on FindX's closed channel.  *)
GracefulStop ==
    \A h \in Handlers :
        \/ timedOut
        \/ /\ caller[h] # "panicked"
           /\ ~redisOpen \/ closed \/ proc = "exited" => step[h] = "idle"

(* An orderly stop, timed out or not, makes every lookup that was accepted *)
(* before main returns.                                                    *)
LookupsMade ==
    proc = "exited" => /\ ch = <<>>
                       /\ BusySet = {}
                       /\ metrics["addSuc"] + Cardinality(SentSet) = SentTotal

(* A signal ends the process, whatever its requests, the pld goroutines    *)
(* and the lookup service do.                                              *)
Stops == quit ~> Ended
=============================================================================
