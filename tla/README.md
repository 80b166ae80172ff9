# XDAS in TLA+

XDAS is a data cache in front of Redis: a REST service that stores records under
`keyspace` + `id`, converts their format, compresses and encrypts them, keeps counters,
and asks a lookup service (FindX) for what it does not have. This directory models its
data path, its lookup service and the life of the process around them, shows that the
data path implements an abstract record service, checks all of it with TLC on small
instances, and proves every safety property the passing runs check, the implementation
of the abstract service among them, with TLAPS for every value of the constants.

Paths below are relative to the repository.

## 1. Inventory

| Component | State it keeps | Operations | Correct when |
|---|---|---|---|
| Magic byte (`internal/magicbyte`) | none | `New`, `NewFrom`, `Get`, `SetContentHeaders` | the byte loses nothing; headers describe the bytes |
| Conversion (`internal/conversion`) | none (codecs) | `Convert`, `Unpack`, `Pack` and the six codec steps | content is kept, the result fits its magic byte, nothing leaves unsealed that should be sealed |
| Encryption (`internal/rediscrypto`) | the process's AES key | `Init`, `Encrypt`, `Decrypt` | as an authenticated cipher |
| Configuration (`cmd/xdas/config.go`, `internal/config`, `internal/keyspaces`) | `Configuration`, fixed after start | `getConfig`, `validateKeyspaceConfig`, `Validate` | input, store and output formats inherit from each other as described; every stored format carries the encryption setting |
| Retention (`getTTL`) | none | one function | a record gets the retention asked for, else the keyspace's, else the default |
| Record handlers (`handler.go`, `redis.go`, `util.go`) | Redis, the buffer pool | GET, PUT/POST, DELETE, multi GET | what is stored and answered is what was sent; every request is answered |
| Counter handlers (`handler_atomic.go`) | Redis | INC (a pipeline of INCRBY and EXPIRE), GET | counters and records are not mixed up; retention survives |
| Buffer pool (`Server.bufPool`) | pooled `bytes.Buffer`s | Get, Put, dropped by the collector | no buffer in two hands |
| FindX (`internal/findx`) | `enabled`, the channel, worker goroutines, counters | `Start`, `Add`, `Reject`, workers, `Close` | Add never waits, every id is accounted for, Close drains and ends |
| Life cycle (`xdas.go`) | the process | start, restart, shutdown (web server, Redis client, FindX) | nothing is used before it is there; nothing is lost or crashed by stopping; it stops |
| Conversion metrics (`internal/conversion/metrics.go`) | counters per keyspace | `init`, the `inc...` methods | a conversion finds its counter |
| Logging (`internal/logger`), version and health endpoints, `keygen` | - | - | not modelled, see section 8 |

**Interactions.** One goroutine per request runs a handler; all of them share Redis, the
buffer pool and one FindX per keyspace. A GET that misses calls `findX`, which calls `Add`
directly or, for keyspace `pld`, from a goroutine of its own after asking Redis about
keyspace `pa`. FindX workers call the lookup service, which is expected to PUT the record
later. `shutdown` stops the web server (30 s at most), closes the Redis client, then closes
each FindX. Records outlive all of this in Redis and may be read by a process with another
configuration; all that says how to read one is its first byte.

**What is hard here.** Buffers shared between handlers; the order of six codec steps that
has to fit a byte written separately; header claims about bodies nobody checks; records
that outlive the configuration they were written under; a Redis command that reports an
error and takes effect, at once or later, or is sent twice; a pipeline that is not a
transaction; a counter whose digits are read as a magic byte; overflow in a retention; an
unguarded flag between `Add` and `Close`; `Close` waiting for workers; a shutdown that
takes the Redis client and the channels from under whatever still runs; function and
counter pointers that only the order of start-up keeps from being nil. `PROJECT.json` lists these as hazards, each at its
line, with the properties that would catch it.

## 2. Modules

```
MagicByte <- Conversion, KeyspaceConfig <- XdasStore <- StoreRefinement <- MCStore
                                           (StoreRefinement: INSTANCE RecordService)
KeyspaceConfig <- ServerConfig <- Lifecycle <- MCLifecycle
FindX <- Lifecycle,  FindX <- MCFindX

Proofs:
Conversion <- ConversionProofs
XdasStore, ConversionProofs <- StoreProofs <- RecordProofs <- AnswerProofs
StoreRefinement, AnswerProofs <- RefinementProofs
FindX <- FindXProofs;  Lifecycle, FindXProofs <- LifecycleProofs
```

**MagicByte** - pure operators; the bit operations are written as the arithmetic they
compute. A header text that is not in the code's map gets the map's zero value.

**Conversion** - pure operators over terms that say what bytes *really are*
(`Plain`, `Compressed`, `Sealed`, `Empty`, `Text`), whatever a header or magic byte
claims. So a false claim ("this is zstd") fails in the model exactly where the codec would
fail. `Plain` tells the fields the protobuf definition knows (`val`) from the presence of
others (`extra`): protojson discards those, proto keeps them. The empty byte string is a
valid protobuf message and is accepted by the zstd decoder; both are modelled. The map
`pbMessage` is empty in this repository (deployments fill it), so it is a constant: runs
have keyspace `ks` with a definition and `np` without.

**KeyspaceConfig** - what start-up makes of a configuration file, when it refuses to
start, and `getTTL`. **ServerConfig** adds what start-up demands of the web server's and
the HTTP client's sections and of the encryption key. `int64` is scaled down to `-MaxInt-1 .. MaxInt` and a second to
`Second` ticks so that the wrap-around of `time.Duration(i) * time.Second` lies inside the
bounds.

**XdasStore** - the handlers over Redis and the pool. A step ends where a handler touches
something shared:

| Action | Code |
|---|---|
| `PutReject`, `PutBegin`, `PutRead`, `PutReadFails`, `PutConvertFails`, `PutConvert`, `PutSet`, `Return` | `handleFuncXdasPut`: header test; first buffer; body; content tests and conversion; second buffer; SET; the deferred Puts |
| `HandleGet`, `HandleMultiGet`, `ReadFails` | `xdasCommonGet`, `handleFuncXdasAtomicGet`, `handleFuncXdasMultiGet`: one Redis command, so one step |
| `DelReject`, `DelBegin`, `DelRun` | `handleFuncXdasDel` behind `validateKeyspace` |
| `IncReject`, `IncBegin`, `IncIncrBy`, `IncExpire` | `handleFuncXdasAtomicInc`: the two commands of the pipeline |
| `Retry`, `GiveUp` | no answer in time, or a broken connection: go-redis starts again, or the handler answers 500 |
| `TakesEffect` | a command nobody waits for any more reaches Redis |
| `GC`, `Expires`, `Restart` | the collector empties the pool; Redis drops a key; the process ends anywhere and starts with some configuration |

*Fault model of a write.* A handler that has sent a command (`storing`, `deleting`,
`incrementing`, `expiring`) may never see its answer. Then the command is either lost or
goes to a slot of `late`, from where it takes effect at any later time: before or after
the 500, after later writes of the same key, after a restart. A pipeline is broken into
its two commands there too. While `tries < MaxRetries` go-redis starts the command (an
INC: the whole pipeline) again. A command that took effect and whose answer was lost is
one that is late and takes effect at once. `redis[k].by` is history: the request and
configuration behind a record, which no handler reads. A buffer that goes back keeps some
bytes (`Text`): a use without `Reset` would show them.

**RecordService** - what the data path promises, without buffers, formats, encryption or
configuration: a map from keys to contents and counters. A write takes effect once between
call and answer, or is answered with an error and may take effect once later; an increment
has a second half that sets the life of the entry; reads show one moment. It models no
code and is not in the map of `PROJECT.json`.

**StoreRefinement** - the refinement mapping: Redis entries read with the writer's key and
their own magic byte, requests as calls (a call's life, and the keys of a multi GET that
names no keyspaces, depend on the configuration in force), handlers' phases as a call's
states, HTTP answers as their receiver reads them (by their headers; what is sent as it is
stored, by its magic byte, or as the number it is), `late` as abandoned writes, an empty
slot as `NoCall`.

**FindX** - one lookup service. `Add` is three steps (test of `enabled`, the `select`, the
counter), `Close` is three (flag, `close(ch)`, `wg.Wait`). The flag is read without
synchronisation, so a caller that reads it during or after `Close` may see either value.
`Bare` are callers whose panic nobody recovers (the `pld` goroutine); `Unparsable` are
ids for which `http.NewRequest` fails and `getReq` goes on with a nil request; `NoDevice`
are ids `runDM` refuses.

**Lifecycle** - the process, composed with FindX (it EXTENDS it, and every action says
what it does to both). FindX's callers are the handlers and the `pld` goroutines. One
FindX is modelled, that of keyspace `file.Watched`; those of other keyspaces would only
delay `Close`.

| Action | Code |
|---|---|
| `GetConfig`, `InitCrypto`, `NewConvert`, `NewFindX`, `Notify` | `main` up to `go s.shutdown`: each may end it (`Fatal`) or, for metrics and FindX, fail and go on |
| `Listen`, `ListenFails`, `ErrServerClosed`, `Exit` | `ListenAndServe` and how it returns, `<-done` |
| `Arrive`, `Hit`, `Miss`, `Answer` | a request as far as the process is concerned: one exchange with Redis, then a conversion, a miss or an answer |
| `FindXGo`, `Exists`, `FindXAdd`, `FindXReject`, `Adding`, `Found` | `findX`, its goroutine for `pld`, and the call of `Add` or `Reject`; `net/http` recovers a handler's panic |
| `Worker` | FindX's workers, while the process lives |
| `Signal`, `Kill` | a signal after and before `signal.Notify` |
| `Shutdown`, `ShutdownReturns`, `ShutdownTimesOut`, `RedisClose`, `FindXClose`, `FindXCloses`, `Done` | `shutdown`, call by call |

**MCStore**, **MCFindX**, **MCLifecycle** - instances for TLC. **ConversionProofs**,
**StoreProofs**, **RecordProofs**, **AnswerProofs**, **RefinementProofs**,
**FindXProofs**, **LifecycleProofs** - theorems.

Operators marked *Mutant* are plausible slips of the definition that follows them. They
are used by no specification; substituted for it, they make TLC find the property named in
`PROJECT.json` violated.

## 3. Properties

| Property | What it says | Run |
|---|---|---|
| `StoredAsSent` | a record is under its writer's key and, read with its own magic byte, is what the writer sent: the same bytes up to compression, or the same fields where the type was converted | formats, concurrent, counters; proved |
| `EncryptedAtRest` | a record written under `Encryption` 1 is sealed with the key then in force, and says so | formats; proved |
| `AnsweredAsSent` | the body of an answer (or part), read with the headers it comes with, is what the record's writer sent, restarts with other formats or keys in between included; `?format=` gives that type uncompressed | formats; proved |
| `ValidatedReadable` | what was accepted under `ValidateContent` converts to every supported format later | formats; proved |
| `BufferExclusive` | no buffer is with two handlers, twice with one, or with a handler and in the pool | concurrent; proved |
| `PartsAreRecords` | a multi GET never sends a counter's digits as a record | counters; proved |
| `ExpiresByDefault` | without a usable `Xttl` a record has a retention, whatever an INC does to the key later | counters; proved |
| `Answered` | an accepted request is answered and its handler returns | answered |
| `ImplementsService` | the handlers over Redis behave as RecordService allows | formats, concurrent; proved for `MaxRetries` = 0 |
| `TypeOK` (store) | types; retentions and results stay in `int64` | counters; proved |
| `TypeOK` (FindX) | types, and the bound on the channel | findx_service; proved |
| `Accounting` | addSuc + sent-not-yet-counted = queued + in work + sentSuc + sentFail + sentRej | findx_service; proved |
| `DrainedOnClose` | when `Close` has returned, every accepted id has been looked up | findx_service; proved |
| `CrashCause` | FindX ends the process only through an id that makes no URL, or a bare goroutine sending after `Close` | findx_service; proved |
| `AddReturns` | `Add` ends even if no worker runs again | findx_service |
| `LifeTypeOK` | types of the process, FindX's included | stop; proved |
| `Ready` | a conversion finds the cipher set and, if there are counters at all, one for its keyspace | stop; proved |
| `GracefulStop` | unless `Shutdown` times out, no request finds its Redis client or FindX's channel closed, panics, or is cut off by the end of `main` | stop; proved |
| `LookupsMade` | when `main` returns, timed out or not, every accepted id has been looked up | stop; proved |
| `Stops` | a signal ends the process although handlers, `pld` goroutines and lookups may be stuck; in particular `Close` returns | stop |

Six runs show a document, comment or test that disagrees with the code:

| Run | Property | The text | What the code does |
|---|---|---|---|
| kinds | `PlainKinds` | `README.md:39`, `:58`: atomic and hashes keyspaces are not encrypted | PUT never looks at the kind; it stores a sealed record in an atomic keyspace, and INC fails on it afterwards |
| retention | `AskedRetention` | `cmd/xdas/util.go:84`: a bare number is seconds | a large one wraps to a non-positive duration: SET without expiry |
| findx_closing_panic | `ClosingIsOkay` | `internal/findx/findx.go:162`: "Not atomic, but okay" | the send between flag and close panics its caller |
| retried_inc | `ImplementsService` | `README.md:37`: a value "will atomically increment by" n; `handler.go:185`: set `MaxRetries` to retry | with `MaxRetries` > 0 a pipeline whose answer is late runs twice |
| parts | `MultiReturnsAll` | `README.md:49`: a multi GET returns all configured keyspaces | a converted `ct` record is left out when the id has an underscore |
| findx_queue_full | `QueueFull` | `internal/findx/findx_test.go:211`: a channel of `size` takes `size` ids | a worker that has taken one makes room for one more |

A behaviour without a text to disagree with: an INC whose pipeline stops after INCRBY
leaves a *counter* without a retention, which is why `ExpiresByDefault` speaks of records
only (RecordService has it as an error after the first half of an increment). Another:
an EXISTS that fails counts as "not there", so an id may be rejected because Redis did not
answer (`Lifecycle.Exists`).

Three disagreements met while reading that are visible in one line and have no run:
`README.md:42` requires a field for DEL in a hashes keyspace, `handleFuncXdasDel` knows
none and deletes the key; `weblog.go:36` promises the response code, and with `NoMetrics`
set a 200 that no handler wrote explicitly is logged as 0; `configs/config.jsonc:74` gives
ttl a default of 168h, while a keyspace without a ttl ends the process (run stop has such
a file).

## 4. Runs and bounds

| Run | Instance | States |
|---|---|---|
| formats | 1 handler, 2 buffers, 7 configurations (formats, zlib, encryption on/off, two keys, validation), 11 PUTs with true and false claims, 6 GETs, 2 multi GETs (one names no keyspace), restarts | 80 520 |
| concurrent | 2 handlers, 4 buffers, two PUTs, GET, DELETE and INC on one id, a late command, sealed, restarts | 88 545 |
| answered | 2 handlers, 4 buffers, good and bad PUTs, INC, one retry, fairness | 168 176 |
| counters | 1 handler, a late command, 17 requests: PUT, DELETE, INC up and down and over the edge, multi GET on one key whose kind a restart changes; unknown keyspaces, `ct` slots, an empty value, retentions over the edge | 1 692 664 |
| stop | 2 handlers, 1 `pld` goroutine, 2 workers, channel of 1, 2 calls, a good id and one that makes no URL; 15 files: FindX for a plain keyspace, for `pld`, an unusual one that is good (and has no FindX), and 12 with one thing wrong each; registration of metrics failing anywhere; fairness | 679 915 |
| findx_service | 3 callers (1 bare), 2 workers, channel of 2, 4 calls, good, refused and unparsable ids, fairness | 218 147 |

Why these are enough: buffers are the only state handlers share inside the process, so two
handlers and the four buffers they can hold show every kind of sharing; conversion depends
on one record and one configuration, so one handler with many configurations covers it,
and two restarts between writing and reading add nothing to one. One slot of `late` is
enough for a command to overtake, and be overtaken by, everything the handlers do
meanwhile; in run counters it is also what lets another request in between the two
commands of a pipeline, so one handler suffices there. `MaxInt` = 7 with a second of 2
ticks puts every overflow of `getTTL` and INCRBY inside the requests' range, and a counter
shows `-` and the digits 0 to 7; '8' and '9' carry the same encryption bits (1) as the
other digits, so they too fail where sealed data is expected. A channel of 2 with 3 callers
is full, empty and contended; 4 calls fill it, drain it and meet `Close`. `MaxCalls` bounds
a state variable that only counts calls (in Lifecycle also the requests under way). In
Lifecycle two handlers and a goroutine meet each stage of `shutdown` in any order, with a
queue of one that is full when it comes. The refinement is checked for `MaxRetries` = 0,
for which alone it holds (run retried_inc), and for a Redis no other program writes to.

Symmetry under handlers and buffers is used in runs without liveness. The FindX and
Lifecycle runs say `CHECK_DEADLOCK FALSE`: a closed service, or a process that ended, stops.

## 5. Fairness

- `FairSpec` (XdasStore): weak fairness of each handler's own steps. The Go scheduler runs
  a runnable goroutine; a body read ends by `ReadTimeout` (5 s,
  `internal/config/config_web.go`), a Redis command by the client's read and write
  timeouts. Nothing is assumed of arrivals, expiry, the collector or restarts.
- `CallersRun` (FindX): only callers inside `Add` are scheduled. The workers get nothing,
  since "non-blocking" must hold when the lookup service hangs.
- `LifeFair` (Lifecycle): weak fairness of `main`, of the shutdown goroutine (its call of
  `Shutdown` ends by the 30 s of its context) and of each worker. Handlers, `pld`
  goroutines and signals get nothing: `Stops` must hold when they are stuck. The HTTP
  client's `Timeout` (5 s, `internal/config/config_hclient.go`) ends each lookup, which
  justifies the workers'.

## 6. Proofs

All theorems hold for every value of the constants that satisfies the named ASSUMEs, which
TLC evaluates in the runs:

- `WordAssumption`: `MaxInt` is positive; a second and the default retention fit it.
- `BufferAssumption`, `RetryAssumption`: `NoBuffer` is no buffer, `MaxRetries` a natural
  number.
- `InputAssumption`: a retention text, in a header or a configuration, is absent, garbage
  or a number that fits an `int64` (one that does not is garbage to `strconv` and to
  `time.ParseDuration`); the number in the path of an INC is an integer.
- `PreloadedAssumption`: what other programs left in Redis has no writer among our
  requests; Redis itself keeps integers in `int64` and retentions that are not negative.
- `FindXAssumption`: finitely many callers, integers where the code has integers, `NoId`
  is no id. `LifecycleAssumption`: the keyspace whose FindX is modelled is configured,
  `NoKeyspace` is none.

**FindXProofs.** `Invariance` proves the inductive invariant
`Inv == TypeOK /\ LifeCycle /\ CrashCause /\ Accounting`. `LifeCycle` ties the parts of
the state to the life of the service: the channel is closed exactly from `close(ch)` on, a
worker that is done has seen the channel closed and empty (so it stays empty: a closed
channel takes no sends), `Close` has returned only if all workers are done, and a busy
worker holds a real id. `Accounting` follows because every step moves one id between the
terms of its sum; it needs the cardinality of the sets of busy workers and of callers
between send and counter. `CloseDrains` is `Inv` at `closer = "returned"`: there is at
least one worker (`Sizes`), so the channel is empty.

**ConversionProofs.** `RoundTrip`: the byte form of a magic byte loses nothing.
`ConvertSeals`: no successful path of `Convert` forgets the encryption of its target.
`ConvertKeepsContent`: a conversion within one content type keeps what the bytes decrypt
and decompress to. `ConvertKeeps` is the one the record proofs turn on: `Keeps` says that
two strings of bytes, each under its own key and magic byte, mean the same (the same bytes
behind compression and encryption, or, where the types differ, the same fields), and every
successful branch of `Convert` keeps it. `KeepsTwice`: it is transitive, so a record may be
converted on its way in and again, by another process, on its way out. `ConvertReads`: what
can be read as fields converts to every supported format.

**StoreProofs.** `BuffersExclusive` from `BufferInv`: types, which buffers a handler has
in which phase, and exclusivity. The key lemma, `Obtained`: what the pool may hand out is
nobody's.

**RecordProofs.** One inductive invariant, `RecordInv`, of which everything about records
is a corollary. That a record in Redis is right is not inductive: a SET takes its bytes
from a pooled buffer, long after they were converted, or from a command that has been
under way since before a restart. So what is claimed of an entry (`Record`: its key, its
length, its seal, that it keeps what its writer sent, that it can be read if it was
validated; `Retained`: its retention) is claimed of it from the start: of the buffer of
each handler in phase `storing` (`StagedInv`; stable because of `BufferInv`: nobody else
writes to that buffer), of each command in `late` (`LateInv`; it carries the key and the
encryption it was made under), and of Redis (`RedisInv`). `ConfigOK`, what start-up makes
of any file, gives the formats; `Serving` what a handler in mid-request works on; the
types, among them that no `getTTL` and no INCRBY leaves `int64`, do the arithmetic.
`StoreTypes`, `RecordsAsSent`, `SealedAtRest`, `ValidatedStaysReadable` and
`RetainedByDefault` follow.

**AnswerProofs.** `AnswerInv` is `RecordInv` and `RepliesInv`: an answer that stands is
right by the key in force (a restart, which may change the key, ends every answer).
`SentRight` composes two `Keeps`: from the request that wrote the record to the stored
bytes, from those to the body, read by its headers. `OnlyRecordsAnswered` rests on
`CounterByte`: a counter's first character is `-` or a digit, whose bits claim an
encryption, and digits do not open. `LeadingDigit` is recursive; that it is well defined
and a digit, for every number, is proved by least counterexamples (`Least`, from the
library's `WFMin`), since the induction theorems cannot be used.

**RefinementProofs.** `StoreImplements`: with `MaxRetries` = 0 and no foreign entries in
Redis, `Spec => ImplementsService`. Both hypotheses are needed: run retried_inc is the
counterexample to the first, and an entry whose writer is unknown has no content a client
could be promised. The invariant is `RefInv`: `AnswerInv`, `Own` (every string in Redis
is a record of ours), `Started` (the configuration came from a file) and `TimedInv` (a
handler on its way to Redis has the retention of its request). The argument goes
by layers. *Content*: a record's bytes mean what the request's body meant (`RecordContent`),
and so do the bytes sent of it (`SentContent`). *Effects*: a Redis command changes the
mapped Redis as the call it stands for (`RunEffect`; INCRBY by `CountsAlike`), leaving
behind what the call has left (`AfterRest`), and what a handler waits for is its call or
the rest of it (`AwaitedCall`). *Answers*: what a GET or a multi GET is told is what the
map shows at that moment (`GetAnswered`, `MultiAnswered`). *Steps*: one lemma per action
or family of actions; reading and converting a body stutter, a 400, 413 or 500 is
`Refused` or `Fail`, a command that takes effect late is `Late`, a restart is `Crash`.

**LifecycleProofs.** `RunsFindX`: every step of the process is a step of FindX or none, so
`LifeSpec => Spec` and the theorems about FindX hold in the process; that makes FindX's
`Inv` available here. The inductive invariant `LifeInv` adds `Requested` (what callers
carry), `StartOrder` (the cipher and the counters are there before the shutdown goroutine,
hence before the server listens), `StopOrder` (how far the server, the client, FindX and
`main` are, given where `shutdown` is), `NoneLeft` (past a `Shutdown` that did not time out
no handler works and, `Arrive` needing an open server, none comes) and `Quiet` (a FindX
that is off has nothing to do). `Ready` is `Requested` and `StartOrder`; `GracefulStop` is
`NoneLeft` and `StopOrder`: FindX's channel is closed only past `RedisClose`, which is past
`Shutdown`; `LookupsMade` is `StopOrder`, by which `Close` has returned when `main` has,
and FindX's `CloseDrains` (or `Quiet`).

`LifeTypes` is `LifeTypeOK` from `LifeInv` and FindX's types.

## 7. Only model-checked

`Answered`, `AddReturns` and `Stops`: liveness under fairness is outside the prover. Every
invariant of the passing runs, and `ImplementsService`, is proved.

The runs that refute a text (section 3) are model-checked by nature. What remains with
retries is not stated as a specification of its own: RecordService has no action for a
write that happens twice, so for `MaxRetries` > 0 only the invariants are proved, which do
not depend on it.

## 8. Not modelled

- Version and health endpoints (constant answers) and `keygen` (prints random bytes).
- Flags, file reading and JSON of the configuration; `DeviceMapping`, which the code
  validates and nothing reads; the settings handed on to the standard library and to
  go-redis, except for `MaxRetries`; `GetServerTLS`, which nothing calls.
- The values of metrics and their export; logging other than `Fatal`.
- The "hashes" endpoint of the repository's README: the code has the kind, but no handler.
- Redis Cluster, EXPIRE's rounding to whole seconds, and go-redis's reading of a retention
  of exactly -1 ns as KEEPTTL.
- A read that go-redis retries: it changes nothing, and its answer is that of one moment.
- The 64-bit wrap-around of metric counters; panics in codecs or handlers other than
  FindX's and those `Ready` excludes; the registration of the request metrics, which would
  panic before anything is served.
- Wording of responses, `Content-length`, the multipart boundary and `Namespace` headers.

## 9. Plan

1. Done: all modules and runs above, the proofs of section 6.
2. Left: a service for `MaxRetries` > 0, in which a write may take effect once per attempt,
   with the same mapping, and the steps of that refinement; FindX as a queue that loses
   nothing it accepted (an abstract specification of `Add` and the workers, which
   `Accounting` and `DrainedOnClose` speak of), with the refinement from `Inv`.
