--------------------------- MODULE LifecycleProofs ---------------------------
(***************************************************************************)
(* Proofs about Lifecycle, for any handlers, pld goroutines, workers,      *)
(* configuration files and keyspaces: in the process FindX behaves as its  *)
(* own specification allows, so what is proved about FindX holds there;    *)
(* and the order of the shutdown does what it is for.                      *)
(***************************************************************************)
EXTENDS Lifecycle, FindXProofs

(* What callers carry, and the requests' way to a conversion.              *)
Requested ==
    /\ DOMAIN step = Callers /\ DOMAIN target = Callers /\ DOMAIN wanted = Callers
    /\ \A c \in Callers : step[c] # "idle" => wanted[c] \in Ids
    /\ \A h \in Handlers : step[h] # "idle" => crypto /\ target[h] \in Keyspaces

(* What start-up has done by the time it matters.                          *)
StartOrder ==
    /\ proc \in {"config", "crypto"} => ~crypto
    /\ proc \in {"convert", "findx", "notify"} => crypto
    /\ proc \in {"config", "crypto", "convert", "findx", "notify"} =>
           stopper = "none" /\ web = "new"
    /\ stopper # "none" => crypto
    /\ proc \in {"listen", "serving"} \/ web # "new" => stopper # "none"
    /\ provider = "noMetrics" \/ counters = Keyspaces

(* What the shutdown goroutine has done by the time it is past Shutdown.   *)
Past == {"redis", "findx", "closing", "done"}
StopOrder ==
    /\ stopper \in Past => web = "closed"
    /\ ~redisOpen => stopper \in {"findx", "closing", "done"}
    /\ closer \in {"disabled", "waiting", "returned"} => stopper \in {"closing", "done"}
    /\ stopper \in {"closing", "done"} => closer \notin {"new", "running"}
    /\ stopper = "done" => closer \in {"returned", "off"}
    /\ proc = "exited" => stopper = "done"

(* A Shutdown that does not time out leaves no handler behind.             *)
NoneLeft ==
    ~timedOut => \A h \in Handlers : /\ stopper \in Past => step[h] = "idle"
                                     /\ caller[h] # "panicked"

(* A FindX that was not started, or could not be, has nothing to do.       *)
Quiet ==
    closer \in {"new", "off"} =>
        /\ ~enabled /\ ch = <<>>
        /\ \A w \in Workers : worker[w] = "none"
        /\ \A c \in Callers : caller[c] = "idle"
        /\ \A name \in Counters : metrics[name] = 0

LifeInv == Inv /\ Requested /\ StartOrder /\ StopOrder /\ NoneLeft /\ Quiet

-----------------------------------------------------------------------------
(* A process that has just been started satisfies the invariant.           *)
LEMMA LifeInitInv == LifeInit => LifeInv
<1> SUFFICES ASSUME LifeInit PROVE LifeInv
  OBVIOUS
<1>1. Inv
  BY InitInv DEF LifeInit
<1>2. Requested /\ StartOrder /\ StopOrder /\ NoneLeft /\ Quiet
  BY DEF LifeInit, Init, Requested, StartOrder, StopOrder, Past, NoneLeft, Quiet, Handlers
<1> QED BY <1>1, <1>2 DEF LifeInv

(* The steps that leave FindX alone.                                       *)
Aside == \/ GetConfig \/ InitCrypto \/ NewConvert \/ Notify \/ Listen \/ ListenFails
         \/ ErrServerClosed \/ Exit
         \/ \E h \in Handlers : Serve(h)
         \/ \E g \in Goroutines : Exists(g)
         \/ \E c \in Callers : Found(c)
         \/ Signal \/ Kill \/ Shutdown \/ ShutdownReturns \/ ShutdownTimesOut \/ RedisClose
         \/ Done

(* They do.                                                                *)
LEMMA AsideStays == Aside => UNCHANGED vars
BY DEF Aside, GetConfig, InitCrypto, NewConvert, Notify, Listen, ListenFails,
       ErrServerClosed, Exit, Serve, Arrive, Hit, Miss, Answer, FindXGo, Exists, Found,
       Signal, Kill, Shutdown, ShutdownReturns, ShutdownTimesOut, RedisClose, Done

(* Every step of the process is a step of FindX, or none.                  *)
LEMMA FindXStep == LifeInv /\ [LifeNext]_lifeVars => [Next]_vars
<1> SUFFICES ASSUME LifeInv, [LifeNext]_lifeVars PROVE [Next]_vars
  OBVIOUS
<1>1. CASE Aside
  BY <1>1, AsideStays
<1>2. CASE UNCHANGED lifeVars
  BY <1>2 DEF lifeVars
<1>3. CASE NewFindX
  BY <1>3 DEF NewFindX, Next
<1>4. ASSUME NEW c \in Callers, FindXAdd(c) PROVE [Next]_vars
  <2>1. wanted[c] \in Ids
    BY <1>4 DEF FindXAdd, LifeInv, Requested
  <2> QED BY <1>4, <2>1 DEF FindXAdd, Next, Call
<1>5. ASSUME NEW g \in Goroutines, FindXReject(g) PROVE [Next]_vars
  BY <1>5, FindXAssumption DEF FindXReject, Next, Call, Goroutines
<1>6. ASSUME NEW c \in Callers, Adding(c) PROVE [Next]_vars
  BY <1>6 DEF Adding, Next
<1>7. ASSUME NEW w \in Workers, Worker(w) PROVE [Next]_vars
  BY <1>7 DEF Worker, Next
<1>8. CASE FindXClose \/ FindXCloses
  BY <1>8 DEF FindXClose, FindXCloses, Next
<1> QED BY <1>1, <1>2, <1>3, <1>4, <1>5, <1>6, <1>7, <1>8 DEF LifeNext, Aside, Main, Stopper

(* And keeps FindX's invariant.                                            *)
LEMMA InvStep == LifeInv /\ [LifeNext]_lifeVars => Inv'
<1>1. Inv /\ [Next]_vars => Inv'
  BY TypeStep, LifeCycleStep, CrashCauseStep, AccountingStep DEF Inv
<1> QED BY <1>1, FindXStep DEF LifeInv

(* Nothing happens in a FindX that is not enabled.                         *)
LEMMA QuietStep == LifeInv /\ [LifeNext]_lifeVars => Quiet'
<1> SUFFICES ASSUME LifeInv, [LifeNext]_lifeVars PROVE Quiet'
  OBVIOUS
<1>1. [Next]_vars
  BY FindXStep
<1> USE DEF LifeInv, Inv, TypeOK, Quiet
<1>2. CASE Start \/ StartFails
  BY <1>2 DEF Start, StartFails
<1>3. ASSUME NEW c \in Callers, Call(c) PROVE Quiet'
  BY <1>3 DEF Call, AddBegin, NotEnabled, Reject, Reads
<1>4. ASSUME NEW c \in Callers, InAdd(c) PROVE Quiet'
  BY <1>4 DEF InAdd, AddSend, AddDefault, AddPanics, AddSuc
<1>5. ASSUME NEW w \in Workers, Work(w) PROVE Quiet'
  BY <1>5 DEF Work, Receive, RangeEnds, getReq, Refuse, Finish, getReqPanics
<1>6. CASE CloseDisables \/ Closing
  BY <1>6 DEF CloseDisables, Closing, CloseChannel, CloseReturns
<1>7. CASE UNCHANGED vars
  BY <1>7 DEF vars
<1> QED BY <1>1, <1>2, <1>3, <1>4, <1>5, <1>6, <1>7 DEF Next

-----------------------------------------------------------------------------
(* What a handler or a goroutine does to the callers' state.               *)
LEMMA RequestedStep == LifeInv /\ [LifeNext]_lifeVars => Requested'
<1> SUFFICES ASSUME LifeInv, [LifeNext]_lifeVars PROVE Requested'
  OBVIOUS
<1> USE DEF LifeInv, Requested, Handlers, Keyspaces
<1>1. CASE UNCHANGED lifeVars
  BY <1>1 DEF lifeVars, mainVars, callVars
<1>2. CASE Main \/ ListenFails \/ Signal \/ Kill \/ Stopper
  <2>1. step' = step /\ target' = target /\ wanted' = wanted /\ file' = file
    BY <1>2 DEF Main, GetConfig, InitCrypto, NewConvert, NewFindX, Notify, Listen,
                ListenFails, ErrServerClosed, Exit, Signal, Kill, Stopper, Shutdown,
                ShutdownReturns, ShutdownTimesOut, RedisClose, FindXClose, FindXCloses,
                Done, callVars, mainVars
  <2>2. crypto => crypto'
    BY <1>2 DEF Main, GetConfig, InitCrypto, NewConvert, NewFindX, Notify, Listen,
                ListenFails, ErrServerClosed, Exit, Signal, Kill, Stopper, Shutdown,
                ShutdownReturns, ShutdownTimesOut, RedisClose, FindXClose, FindXCloses,
                Done, mainVars, StartOrder, At
  <2> QED BY <2>1, <2>2
<1>3. ASSUME NEW h \in Handlers, NEW ks \in Names, NEW id \in Ids, Arrive(h, ks, id)
      PROVE Requested'
  <2>1. crypto
    BY <1>3 DEF Arrive, StartOrder
  <2> QED BY <1>3, <2>1 DEF Arrive, Do, mainVars
<1>4. ASSUME NEW h \in Handlers, Hit(h) \/ Miss(h) \/ Answer(h) PROVE Requested'
  BY <1>4 DEF Hit, Miss, Answer, Do, Leave, mainVars
<1>5. ASSUME NEW h \in Handlers, NEW g \in Goroutines, FindXGo(h, g) PROVE Requested'
  BY <1>5, FindXAssumption DEF FindXGo, Goroutines, mainVars
<1>6. ASSUME NEW g \in Goroutines, Exists(g) \/ FindXReject(g) PROVE Requested'
  BY <1>6 DEF Exists, FindXReject, Do, mainVars, Goroutines
<1>7. ASSUME NEW c \in Callers, FindXAdd(c) \/ Adding(c) \/ Found(c) PROVE Requested'
  BY <1>7 DEF FindXAdd, Adding, Found, Do, Leave, mainVars, callVars
<1>8. ASSUME NEW w \in Workers, Worker(w) PROVE Requested'
  BY <1>8 DEF Worker, mainVars, callVars
<1> QED BY <1>1, <1>2, <1>3, <1>4, <1>5, <1>6, <1>7, <1>8 DEF LifeNext, Serve

(* The steps of requests and lookups, which leave main and the shutdown    *)
(* goroutine where they are.                                               *)
Elsewhere == \/ \E h \in Handlers : Serve(h)
             \/ \E g \in Goroutines : Exists(g) \/ FindXReject(g)
             \/ \E c \in Callers : FindXAdd(c) \/ Adding(c) \/ Found(c)
             \/ \E w \in Workers : Worker(w)

(* They do, and start or stop no FindX.                                    *)
LEMMA ElsewhereStays ==
    ASSUME Elsewhere
    PROVE  UNCHANGED <<mainVars, stopVars>> /\ closer' = closer
<1>1. UNCHANGED <<mainVars, stopVars>>
  BY DEF Elsewhere, Serve, Arrive, Hit, Miss, Answer, FindXGo, Exists, FindXReject,
         FindXAdd, Adding, Found, Worker
<1>2. closer' = closer
  BY DEF Elsewhere, Serve, Arrive, Hit, Miss, Answer, FindXGo, Exists, FindXReject,
         FindXAdd, Adding, Found, Worker, vars, AddBegin, NotEnabled, Reject, InAdd,
         AddSend, AddDefault, AddPanics, AddSuc, Work, Receive, RangeEnds, getReq, Refuse,
         Finish, getReqPanics
<1> QED BY <1>1, <1>2

(* Start-up does things in their order.                                    *)
LEMMA StartOrderStep == LifeInv /\ [LifeNext]_lifeVars => StartOrder'
<1> SUFFICES ASSUME LifeInv, [LifeNext]_lifeVars PROVE StartOrder'
  OBVIOUS
<1> USE DEF LifeInv, StartOrder, Keyspaces, mainVars, stopVars
<1>1. CASE UNCHANGED lifeVars
  BY <1>1 DEF lifeVars
<1>2. CASE Elsewhere
  BY <1>2, ElsewhereStays
<1>3. CASE NewConvert
  <2>1. /\ proc = "convert" /\ proc' = "findx" /\ file' = file /\ crypto' = crypto
        /\ web' = web /\ stopper' = stopper
    BY <1>3 DEF NewConvert, At
  <2>2. provider' = "noMetrics" \/ counters' = Keyspaces
    BY <1>3 DEF NewConvert, ConversionInit, MetricsInit
  <2> QED BY <2>1, <2>2
<1>4. CASE GetConfig \/ InitCrypto \/ NewFindX \/ Notify \/ Listen \/ ErrServerClosed \/ Exit
  BY <1>4 DEF GetConfig, InitCrypto, NewFindX, Notify, Listen, ErrServerClosed, Exit, At
<1>5. CASE ListenFails \/ Signal \/ Kill \/ Stopper
  BY <1>5 DEF ListenFails, Signal, Kill, Stopper, Shutdown, ShutdownReturns,
              ShutdownTimesOut, RedisClose, FindXClose, FindXCloses, Done
<1> QED BY <1>1, <1>2, <1>3, <1>4, <1>5 DEF LifeNext, Main, Elsewhere

(* And so does the shutdown.                                               *)
LEMMA StopOrderStep == LifeInv /\ [LifeNext]_lifeVars => StopOrder'
<1> SUFFICES ASSUME LifeInv, [LifeNext]_lifeVars PROVE StopOrder'
  OBVIOUS
<1> USE DEF LifeInv, StopOrder, Past, mainVars, stopVars
<1>1. CASE UNCHANGED lifeVars
  BY <1>1 DEF lifeVars, vars
<1>2. CASE Elsewhere
  BY <1>2, ElsewhereStays
<1>3. CASE \/ GetConfig \/ InitCrypto \/ NewConvert \/ Notify \/ Listen \/ ListenFails
           \/ ErrServerClosed \/ Exit \/ Signal \/ Kill
  BY <1>3 DEF GetConfig, InitCrypto, NewConvert, Notify, Listen, ListenFails,
              ErrServerClosed, Exit, Signal, Kill, vars, At, StartOrder
<1>4. CASE NewFindX
  BY <1>4 DEF NewFindX, Start, StartFails, At
<1>5. CASE \/ Shutdown \/ ShutdownReturns \/ ShutdownTimesOut \/ RedisClose \/ Done
  BY <1>5 DEF Shutdown, ShutdownReturns, ShutdownTimesOut, RedisClose, Done, vars
<1>6. CASE FindXClose \/ FindXCloses
  BY <1>6 DEF FindXClose, FindXCloses, CloseDisables, Closing, CloseChannel, CloseReturns,
              vars, Ended
<1> QED BY <1>1, <1>2, <1>3, <1>4, <1>5, <1>6 DEF LifeNext, Main, Stopper, Elsewhere

(* Past a Shutdown that has not timed out no handler works, none comes,    *)
(* and so none meets the closed channel.                                   *)
LEMMA NoneLeftStep == LifeInv /\ [LifeNext]_lifeVars => NoneLeft'
<1> SUFFICES ASSUME LifeInv, [LifeNext]_lifeVars PROVE NoneLeft'
  OBVIOUS
<1> USE DEF LifeInv, NoneLeft, Past, Handlers
<1>1. CASE UNCHANGED lifeVars
  BY <1>1 DEF lifeVars, vars, stopVars, callVars
<1>2. CASE Main \/ ListenFails \/ Signal \/ Kill
  <2>1. /\ step' = step /\ caller' = caller /\ timedOut' = timedOut
        /\ stopper' \in Past => stopper \in Past
    BY <1>2 DEF Main, GetConfig, InitCrypto, NewConvert, NewFindX, Start, StartFails,
                Notify, Listen, ListenFails, ErrServerClosed, Exit, Signal, Kill, vars,
                callVars, stopVars
  <2> QED BY <2>1
<1>3. CASE Stopper
  <2>1. step' = step /\ caller' = caller
    BY <1>3 DEF Stopper, Shutdown, ShutdownReturns, ShutdownTimesOut, RedisClose,
                FindXClose, CloseDisables, FindXCloses, Closing, CloseChannel,
                CloseReturns, Done, vars, callVars
  <2>2. CASE ShutdownReturns
    <3>1. \A h \in Handlers : step[h] = "idle"
      BY <2>2 DEF ShutdownReturns, Working
    <3> QED BY <2>1, <2>2, <3>1 DEF ShutdownReturns
  <2>3. CASE ShutdownTimesOut
    BY <2>3 DEF ShutdownTimesOut
  <2>4. CASE Shutdown \/ RedisClose \/ FindXClose \/ FindXCloses \/ Done
    <3>1. timedOut' = timedOut /\ (stopper' \in Past => stopper \in Past)
      BY <2>4 DEF Shutdown, RedisClose, FindXClose, FindXCloses, Done, stopVars
    <3> QED BY <2>1, <3>1
  <2> QED BY <1>3, <2>2, <2>3, <2>4 DEF Stopper
<1>4. CASE Elsewhere
  <2>1. timedOut' = timedOut /\ stopper' = stopper
    BY <1>4, ElsewhereStays DEF stopVars
  <2>2. ASSUME NEW h \in Handlers, ~timedOut, stopper \in Past PROVE step'[h] = "idle"
    <3>1. step[h] = "idle" /\ web = "closed"
      BY <2>2 DEF StopOrder
    <3>2. h \in Callers /\ h \notin Goroutines
      BY DEF Goroutines
    <3> QED BY <1>4, <3>1, <3>2 DEF Elsewhere, Serve, Arrive, Hit, Miss, Answer, FindXGo,
               Exists, FindXReject, FindXAdd, Adding, Found, Worker, Do, Leave, callVars,
               Requested
  <2>3. ASSUME NEW h \in Handlers, ~timedOut PROVE caller'[h] # "panicked"
    <3>1. caller[h] # "panicked"
      BY <2>3
    <3>2. ASSUME NEW c \in Callers, AddPanics(c), step[c] = "finding" PROVE c # h
      <4>1. closer \in {"waiting", "returned"}
        BY <3>2 DEF AddPanics, Inv, LifeCycle
      <4>2. stopper \in Past
        BY <4>1 DEF StopOrder
      <4> QED BY <2>3, <3>2, <4>2
    <3>3. caller'[h] # caller[h] => \/ \E c \in Callers : step[c] = "finding" /\ InAdd(c)
                                   \/ caller'[h] = "adding"
      BY <1>4 DEF Elsewhere, Serve, Arrive, Hit, Miss, Answer, FindXGo, Exists,
                  FindXReject, FindXAdd, Adding, Found, Worker, vars, AddBegin, NotEnabled,
                  Reject, Work, Receive, RangeEnds, getReq, Refuse, Finish, getReqPanics,
                  Inv, TypeOK
    <3>4. ASSUME NEW c \in Callers, step[c] = "finding", InAdd(c)
          PROVE caller'[h] # "panicked"
      BY <3>1, <3>2, <3>4 DEF InAdd, AddSend, AddDefault, AddPanics, AddSuc, Inv, TypeOK
    <3> QED BY <3>1, <3>3, <3>4
  <2> QED BY <2>1, <2>2, <2>3
<1> QED BY <1>1, <1>2, <1>3, <1>4 DEF LifeNext, Elsewhere

-----------------------------------------------------------------------------
(* The inductive invariant of the process.                                 *)
THEOREM LifeInvariance == LifeSpec => []LifeInv
<1>1. LifeInv /\ [LifeNext]_lifeVars => LifeInv'
  BY InvStep, RequestedStep, StartOrderStep, StopOrderStep, NoneLeftStep, QuietStep
  DEF LifeInv
<1> QED BY LifeInitInv, <1>1, PTL DEF LifeSpec

(* The kinds of values of the process, one step on.                        *)
LEMMA LifeTypeStep ==
    LifeInv /\ LifeInv' /\ LifeTypeOK /\ [LifeNext]_lifeVars => LifeTypeOK'
<1> SUFFICES ASSUME LifeInv, LifeInv', LifeTypeOK, [LifeNext]_lifeVars PROVE LifeTypeOK'
  OBVIOUS
<1> DEFINE MainTypes == /\ file \in Files
                        /\ proc \in {"config", "crypto", "convert", "findx", "notify",
                                     "listen", "serving", "done", "exited", "fatal",
                                     "killed"}
                        /\ crypto \in BOOLEAN
                        /\ provider \in {"noMetrics", "prometheus"}
                        /\ counters \subseteq Keyspaces
           StopTypes == /\ redisOpen \in BOOLEAN /\ quit \in BOOLEAN
                        /\ timedOut \in BOOLEAN
                        /\ web \in {"new", "open", "shutting", "closed"}
                        /\ stopper \in {"none", "waiting", "web", "redis", "findx",
                                        "closing", "done"}
           CallTypes == /\ step \in [Callers -> {"idle", "redis", "converting", "missed",
                                                 "exists", "absent", "finding"}]
                        /\ target \in [Callers -> Names \cup {NoKeyspace}]
                        /\ wanted \in [Callers -> Ids \cup {NoId}]
<1>1. TypeOK'
  BY DEF LifeInv, Inv
<1>2. MainTypes'
  <2> USE DEF LifeTypeOK, Keyspaces, mainVars
  <2>1. CASE NewConvert
    <3>1. file' = file /\ crypto' = crypto /\ proc' = "findx"
      BY <2>1 DEF NewConvert
    <3>2. provider' \in {"noMetrics", "prometheus"} /\ counters' \subseteq Keyspaces
      BY <2>1 DEF NewConvert, ConversionInit, MetricsInit
    <3> QED BY <3>1, <3>2
  <2>2. CASE InitCrypto
    <3>1. crypto' \in BOOLEAN
      BY <2>2 DEF InitCrypto, NewAesGCM
    <3> QED BY <2>2, <3>1 DEF InitCrypto
  <2>3. CASE \/ GetConfig \/ NewFindX \/ Notify \/ Listen \/ ListenFails
             \/ ErrServerClosed \/ Exit \/ Kill
    BY <2>3 DEF GetConfig, NewFindX, Notify, Listen, ListenFails, ErrServerClosed, Exit, Kill
  <2>4. CASE UNCHANGED lifeVars \/ Elsewhere \/ Signal \/ Stopper
    <3>1. UNCHANGED mainVars
      BY <2>4, ElsewhereStays DEF lifeVars, Signal, Stopper, Shutdown, ShutdownReturns,
         ShutdownTimesOut, RedisClose, FindXClose, FindXCloses, Done
    <3> QED BY <3>1
  <2> QED BY <2>1, <2>2, <2>3, <2>4 DEF LifeNext, Main, Elsewhere
<1>3. StopTypes'
  <2> USE DEF LifeTypeOK, stopVars
  <2>1. CASE Main \/ ListenFails \/ Signal \/ Kill
    BY <2>1 DEF Main, GetConfig, InitCrypto, NewConvert, NewFindX, Notify, Listen,
                ListenFails, ErrServerClosed, Exit, Signal, Kill
  <2>2. CASE Stopper
    BY <2>2 DEF Stopper, Shutdown, ShutdownReturns, ShutdownTimesOut, RedisClose,
                FindXClose, FindXCloses, Done
  <2>3. CASE UNCHANGED lifeVars \/ Elsewhere
    BY <2>3, ElsewhereStays DEF lifeVars
  <2> QED BY <2>1, <2>2, <2>3 DEF LifeNext, Elsewhere
<1>4. CallTypes'
  <2> USE DEF LifeTypeOK
  <2>1. CASE UNCHANGED callVars
    BY <2>1 DEF callVars
  <2>2. CASE UNCHANGED lifeVars \/ Main \/ ListenFails \/ Signal \/ Kill \/ Stopper
    BY <2>1, <2>2 DEF lifeVars, Main, GetConfig, InitCrypto, NewConvert, NewFindX, Notify,
       Listen, ListenFails, ErrServerClosed, Exit, Signal, Kill, Stopper, Shutdown,
       ShutdownReturns, ShutdownTimesOut, RedisClose, FindXClose, FindXCloses, Done
  <2>3. ASSUME NEW h \in Handlers, NEW ks \in Names, NEW id \in Ids, Arrive(h, ks, id)
        PROVE CallTypes'
    BY <2>3 DEF Arrive, Do, Handlers
  <2>4. ASSUME NEW h \in Handlers, Hit(h) \/ Miss(h) \/ Answer(h) PROVE CallTypes'
    BY <2>4 DEF Hit, Miss, Answer, Do, Leave, Handlers
  <2>5. ASSUME NEW h \in Handlers, NEW g \in Goroutines, FindXGo(h, g) PROVE CallTypes'
    BY <2>5, FindXAssumption DEF FindXGo, Handlers, Goroutines
  <2>6. ASSUME NEW g \in Goroutines, Exists(g) \/ FindXReject(g) PROVE CallTypes'
    BY <2>6 DEF Exists, FindXReject, Do
  <2>7. ASSUME NEW c \in Callers, FindXAdd(c) \/ Adding(c) \/ Found(c) PROVE CallTypes'
    BY <2>1, <2>7 DEF FindXAdd, Adding, Found, Do, Leave
  <2>8. ASSUME NEW w \in Workers, Worker(w) PROVE CallTypes'
    BY <2>1, <2>8 DEF Worker
  <2> QED BY <2>2, <2>3, <2>4, <2>5, <2>6, <2>7, <2>8 DEF LifeNext, Serve
<1> QED BY <1>1, <1>2, <1>3, <1>4 DEF LifeTypeOK

(* Main, the shutdown goroutine, the handlers and the pld goroutines are   *)
(* only ever where the code has a step for them; the counters that exist   *)
(* are of keyspaces that are configured.                                   *)
THEOREM LifeTypes == LifeSpec => []LifeTypeOK
<1>1. LifeInit => LifeTypeOK
  <2> SUFFICES ASSUME LifeInit PROVE LifeTypeOK
    OBVIOUS
  <2>1. TypeOK
    BY LifeInitInv DEF LifeInv, Inv
  <2> QED BY <2>1 DEF LifeInit, LifeTypeOK
<1> QED BY <1>1, LifeTypeStep, LifeInvariance, PTL DEF LifeSpec

(* The FindX service in the process implements the specification of FindX  *)
(* alone: its theorems hold in the process.                                *)
THEOREM RunsFindX == LifeSpec => Spec
<1>1. LifeInit => Init
  BY DEF LifeInit
<1> QED BY <1>1, LifeInvariance, FindXStep, PTL DEF LifeSpec, Spec

(* No conversion follows a nil cipher or a nil counter, whatever fails on  *)
(* the way to the first request.                                           *)
THEOREM ReadyToConvert == LifeSpec => []Ready
<1>1. LifeInv => Ready
  BY DEF LifeInv, Requested, StartOrder, Ready, HasCounter
<1> QED BY <1>1, LifeInvariance, PTL

(* An orderly stop that does not time out takes nothing away from a        *)
(* request.                                                                *)
THEOREM StopsGracefully == LifeSpec => []GracefulStop
<1>1. LifeInv => GracefulStop
  BY DEF LifeInv, Inv, LifeCycle, NoneLeft, StopOrder, Past, GracefulStop
<1> QED BY <1>1, LifeInvariance, PTL

(* When main returns every lookup that was accepted has been made.         *)
THEOREM LookupsAreMade == LifeSpec => []LookupsMade
<1>1. LifeInv /\ DrainedOnClose => LookupsMade
  <2> SUFFICES ASSUME LifeInv, DrainedOnClose, proc = "exited"
               PROVE /\ ch = <<>>
                     /\ BusySet = {}
                     /\ metrics["addSuc"] + Cardinality(SentSet) = SentTotal
    BY DEF LookupsMade
  <2>1. closer = "returned" \/ closer = "off"
    BY DEF LifeInv, StopOrder
  <2>2. CASE closer = "returned"
    BY <2>2 DEF DrainedOnClose
  <2>3. CASE closer = "off"
    <3>1. ch = <<>> /\ BusySet = {} /\ SentSet = {}
      BY <2>3 DEF LifeInv, Quiet, BusySet, Busy, SentSet
    <3>2. Cardinality(SentSet) = 0
      BY <3>1, FS_EmptySet
    <3>3. metrics["addSuc"] = 0 /\ SentTotal = 0
      BY <2>3 DEF LifeInv, Quiet, Counters, SentTotal
    <3> QED BY <3>1, <3>2, <3>3
  <2> QED BY <2>1, <2>2, <2>3
<1> QED BY <1>1, LifeInvariance, RunsFindX, CloseDrains, PTL
=============================================================================
