-------------------------------- MODULE FindX --------------------------------
(***************************************************************************)
(* One FindX service (internal/findx): callers put ids on a bounded        *)
(* channel without ever waiting, worker goroutines take them off and ask   *)
(* the lookup service over HTTP, Close stops the service.                  *)
(*                                                                         *)
(* Nothing guards f.enabled: Close writes it while callers read it.  A     *)
(* caller that reads it during or after Close sees the new value or the    *)
(* old one.                                                                *)
(***************************************************************************)
EXTENDS Integers, Sequences, FiniteSets

CONSTANTS Callers,            \* goroutines that call Add and Reject
          Bare,               \* those whose panic nobody recovers (go func in findX)
          Ids,                \* what is looked up
          Unparsable,         \* the ids that do not make a URL
          NoDevice,           \* the ids runDM refuses (no comma); none in run
          ChannelBufferSize,  \* as configured
          Thread,             \* as configured
          MaxCalls,           \* bound on the calls of Add and Reject
          NoId

DefaultChannelBufferSize == 128
DefaultThread            == 1

ASSUME FindXAssumption ==
    /\ IsFiniteSet(Callers) /\ Bare \subseteq Callers
    /\ ChannelBufferSize \in Int /\ Thread \in Int /\ MaxCalls \in Nat
    /\ NoId \notin Ids

(* The defaults Start fills in.                                            *)
Capacity == IF ChannelBufferSize < 1 THEN DefaultChannelBufferSize ELSE ChannelBufferSize
Workers  == 1 .. (IF Thread < 1 THEN DefaultThread ELSE Thread)

VARIABLES enabled,   \* f.enabled
          ch,        \* the ids on f.ch
          closed,    \* f.ch is closed
          worker,    \* what each worker goroutine does; "done" is wg.Done
          job,       \* the id a worker has taken
          caller,    \* where each caller is in Add
          arg,       \* the id a caller adds
          closer,    \* the service's life: Start, then the steps of Close
          metrics,   \* f.Metrics
          calls,     \* calls so far, for MaxCalls
          crashed    \* the process died of a panic

vars == <<enabled, ch, closed, worker, job, caller, arg, closer, metrics, calls, crashed>>

Counters == {"addSuc", "addFail", "addRej", "sentSuc", "sentFail", "sentRej"}
Count(name) == metrics' = [metrics EXCEPT ![name] = @ + 1]

-----------------------------------------------------------------------------
Init == /\ enabled = FALSE
        /\ ch = <<>>
        /\ closed = FALSE
        /\ worker = [w \in Workers |-> "none"]
        /\ job = [w \in Workers |-> NoId]
        /\ caller = [c \in Callers |-> "idle"]
        /\ arg = [c \in Callers |-> NoId]
        /\ closer = "new"
        /\ metrics = [name \in Counters |-> 0]
        /\ calls = 0
        /\ crashed = FALSE

Start == /\ closer = "new"
         /\ worker' = [w \in Workers |-> "receiving"]
         /\ enabled' = TRUE
         /\ closer' = "running"
         /\ UNCHANGED <<ch, closed, job, caller, arg, metrics, calls, crashed>>

(* FindX is not enabled for the keyspace, or its URL does not parse.       *)
StartFails == /\ closer = "new"
              /\ closer' = "off"
              /\ UNCHANGED <<enabled, ch, closed, worker, job, caller, arg, metrics,
                             calls, crashed>>

-----------------------------------------------------------------------------
(* Add and Reject.                                                         *)
Reads(c, value) ==
    /\ ~crashed /\ closer # "new" /\ caller[c] = "idle"
    /\ calls < MaxCalls
    /\ calls' = calls + 1
    /\ enabled = value \/ closer \in {"disabled", "waiting", "returned"}

AddBegin(c, id) == /\ Reads(c, TRUE)
                   /\ caller' = [caller EXCEPT ![c] = "adding"]
                   /\ arg' = [arg EXCEPT ![c] = id]
                   /\ UNCHANGED <<enabled, ch, closed, worker, job, closer, metrics, crashed>>

NotEnabled(c) == /\ Reads(c, FALSE)
                 /\ UNCHANGED <<enabled, ch, closed, worker, job, caller, arg, closer,
                                metrics, crashed>>

Reject(c) == /\ Reads(c, TRUE)
             /\ Count("addRej")
             /\ UNCHANGED <<enabled, ch, closed, worker, job, caller, arg, closer, crashed>>

(* Mutant: one id more than the channel holds.                             *)
AddSendOneMore(c) == /\ ~crashed /\ caller[c] = "adding" /\ ~closed
                     /\ Len(ch) <= Capacity
                     /\ ch' = Append(ch, arg[c])
                     /\ caller' = [caller EXCEPT ![c] = "sent"]
                     /\ arg' = [arg EXCEPT ![c] = NoId]
                     /\ UNCHANGED <<enabled, closed, worker, job, closer, metrics, calls,
                                    crashed>>

(* The select: a send on an open channel with room, the default branch, or *)
(* the panic of a send on a closed channel.                                *)
AddSend(c) == /\ ~crashed /\ caller[c] = "adding" /\ ~closed
              /\ Len(ch) < Capacity
              /\ ch' = Append(ch, arg[c])
              /\ caller' = [caller EXCEPT ![c] = "sent"]
              /\ arg' = [arg EXCEPT ![c] = NoId]
              /\ UNCHANGED <<enabled, closed, worker, job, closer, metrics, calls, crashed>>

(* Mutant: a full channel is counted as a success.                         *)
AddDefaultSuc(c) == /\ ~crashed /\ caller[c] = "adding" /\ ~closed
                    /\ Len(ch) >= Capacity
                    /\ Count("addSuc")
                    /\ caller' = [caller EXCEPT ![c] = "idle"]
                    /\ arg' = [arg EXCEPT ![c] = NoId]
                    /\ UNCHANGED <<enabled, ch, closed, worker, job, closer, calls, crashed>>

(* Mutant: the send waits for room, there is no default branch.            *)
AddBlocks(c) == FALSE /\ AddDefaultSuc(c)

AddDefault(c) == /\ ~crashed /\ caller[c] = "adding" /\ ~closed
                 /\ Len(ch) >= Capacity
                 /\ Count("addFail")
                 /\ caller' = [caller EXCEPT ![c] = "idle"]
                 /\ arg' = [arg EXCEPT ![c] = NoId]
                 /\ UNCHANGED <<enabled, ch, closed, worker, job, closer, calls, crashed>>

AddPanics(c) == /\ ~crashed /\ caller[c] = "adding" /\ closed
                /\ caller' = [caller EXCEPT ![c] = "panicked"]
                /\ arg' = [arg EXCEPT ![c] = NoId]
                /\ crashed' = (c \in Bare)
                /\ UNCHANGED <<enabled, ch, closed, worker, job, closer, metrics, calls>>

AddSuc(c) == /\ ~crashed /\ caller[c] = "sent"
             /\ Count("addSuc")
             /\ caller' = [caller EXCEPT ![c] = "idle"]
             /\ UNCHANGED <<enabled, ch, closed, worker, job, arg, closer, calls, crashed>>

-----------------------------------------------------------------------------
(* run and runDM: for id := range f.ch.                                    *)
Receive(w) == /\ ~crashed /\ worker[w] = "receiving" /\ ch # <<>>
              /\ ch' = Tail(ch)
              /\ job' = [job EXCEPT ![w] = Head(ch)]
              /\ worker' = [worker EXCEPT ![w] = "busy"]
              /\ UNCHANGED <<enabled, closed, caller, arg, closer, metrics, calls, crashed>>

(* Mutant: no deferred wg.Done.                                            *)
RangeEndsSilently(w) == /\ ~crashed /\ worker[w] = "receiving" /\ ch = <<>> /\ closed
                        /\ worker' = [worker EXCEPT ![w] = "none"]
                        /\ UNCHANGED <<enabled, ch, closed, job, caller, arg, closer,
                                       metrics, calls, crashed>>

RangeEnds(w) == /\ ~crashed /\ worker[w] = "receiving" /\ ch = <<>> /\ closed
                /\ worker' = [worker EXCEPT ![w] = "done"]
                /\ UNCHANGED <<enabled, ch, closed, job, caller, arg, closer, metrics,
                               calls, crashed>>

Finish(w, name) == /\ ~crashed /\ worker[w] = "busy"
                   /\ Count(name)
                   /\ worker' = [worker EXCEPT ![w] = "receiving"]
                   /\ job' = [job EXCEPT ![w] = NoId]
                   /\ UNCHANGED <<enabled, ch, closed, caller, arg, closer, calls, crashed>>

(* getReq: the service answers below 300, below 500, or otherwise, or the  *)
(* call fails (the client's Timeout included).                             *)
getReq(w) == /\ job[w] \notin NoDevice \cup Unparsable
             /\ \E name \in {"sentSuc", "sentRej", "sentFail"} : Finish(w, name)

(* runDM counts an id without a comma as a failure and goes on.            *)
Refuse(w) == /\ job[w] \in NoDevice
             /\ Finish(w, "sentFail")

(* Mutant: any failed call is followed through a nil pointer.              *)
getReqPanicsOnError(w) == /\ ~crashed /\ worker[w] = "busy"
                          /\ crashed' = TRUE
                          /\ UNCHANGED <<enabled, ch, closed, worker, job, caller, arg,
                                         closer, metrics, calls>>

(* getReq goes on with the nil request http.NewRequest returned.           *)
getReqPanics(w) == /\ ~crashed /\ worker[w] = "busy"
                   /\ job[w] \in Unparsable \ NoDevice
                   /\ crashed' = TRUE
                   /\ UNCHANGED <<enabled, ch, closed, worker, job, caller, arg, closer,
                                  metrics, calls>>

-----------------------------------------------------------------------------
(* Close.                                                                  *)
CloseDisables == /\ ~crashed /\ closer = "running"
                 /\ enabled' = FALSE
                 /\ closer' = "disabled"
                 /\ UNCHANGED <<ch, closed, worker, job, caller, arg, metrics, calls, crashed>>

CloseChannel == /\ ~crashed /\ closer = "disabled"
                /\ closed' = TRUE
                /\ closer' = "waiting"
                /\ UNCHANGED <<enabled, ch, worker, job, caller, arg, metrics, calls, crashed>>

(* Mutant: Close does not wait for the workers.                            *)
CloseReturnsAtOnce == /\ ~crashed /\ closer = "waiting"
                      /\ closer' = "returned"
                      /\ UNCHANGED <<enabled, ch, closed, worker, job, caller, arg,
                                     metrics, calls, crashed>>

(* wg.Wait() *)
CloseReturns == /\ ~crashed /\ closer = "waiting"
                /\ \A w \in Workers : worker[w] = "done"
                /\ closer' = "returned"
                /\ UNCHANGED <<enabled, ch, closed, worker, job, caller, arg, metrics,
                               calls, crashed>>

-----------------------------------------------------------------------------
InAdd(c)  == AddSend(c) \/ AddDefault(c) \/ AddPanics(c) \/ AddSuc(c)
Call(c)   == \/ \E id \in Ids : AddBegin(c, id)
             \/ NotEnabled(c)
             \/ Reject(c)
Work(w)   == Receive(w) \/ RangeEnds(w) \/ getReq(w) \/ Refuse(w) \/ getReqPanics(w)
Closing   == CloseChannel \/ CloseReturns

Next == \/ Start \/ StartFails
        \/ \E c \in Callers : Call(c) \/ InAdd(c)
        \/ \E w \in Workers : Work(w)
        \/ CloseDisables \/ Closing

Spec == Init /\ [][Next]_vars

(* Only callers run: the workers and the lookup service may be stuck.      *)
CallersRun == Spec /\ \A c \in Callers : WF_vars(InAdd(c))

-----------------------------------------------------------------------------
Busy(w)   == worker[w] = "busy"
BusySet   == {w \in Workers : Busy(w)}
SentSet   == {c \in Callers : caller[c] = "sent"}
SentTotal == metrics["sentSuc"] + metrics["sentFail"] + metrics["sentRej"]

(* The kinds of values, and the channel's bound.                           *)
TypeOK == /\ enabled \in BOOLEAN /\ closed \in BOOLEAN /\ crashed \in BOOLEAN
          /\ ch \in Seq(Ids) /\ Len(ch) <= Capacity
          /\ worker \in [Workers -> {"none", "receiving", "busy", "done"}]
          /\ job \in [Workers -> Ids \cup {NoId}]
          /\ caller \in [Callers -> {"idle", "adding", "sent", "panicked"}]
          /\ arg \in [Callers -> Ids \cup {NoId}]
          /\ closer \in {"new", "off", "running", "disabled", "waiting", "returned"}
          /\ metrics \in [Counters -> Nat]
          /\ calls \in Nat

(* Every id that went into the channel is on it, with a worker, or counted *)
(* as sent, exactly once; a caller that has sent and not yet counted is    *)
(* the only way the sent counters can be ahead of addSuc.                  *)
Accounting ==
    metrics["addSuc"] + Cardinality(SentSet)
        = Len(ch) + Cardinality(BusySet) + SentTotal

(* Close returns only after every lookup that was accepted has been made,  *)
(* those accepted while it was closing included.                           *)
DrainedOnClose ==
    closer = "returned" =>
        /\ ch = <<>>
        /\ BusySet = {}
        /\ metrics["addSuc"] + Cardinality(SentSet) = SentTotal

(* The process dies of FindX only through an id that makes no URL, or a    *)
(* bare goroutine that sends after Close closed the channel.               *)
CrashCause ==
    /\ (\E c \in Callers : caller[c] = "panicked") => closed
    /\ crashed => \/ \E c \in Bare : caller[c] = "panicked"
                  \/ \E w \in Workers : Busy(w) /\ job[w] \in Unparsable

(* Add "is non-blocking": it ends even if no worker ever runs again.       *)
AddReturns ==
    \A c \in Callers : caller[c] \in {"adding", "sent"}
                          ~> caller[c] \in {"idle", "panicked"} \/ crashed

-----------------------------------------------------------------------------
(* What a comment and a test say, and the code does not do.                *)

(* "Not atomic, but okay, closing down anyway": closing harms no caller.   *)
ClosingIsOkay == \A c \in Callers : caller[c] # "panicked"

(* TestAdd, "queue full": with no lookup answered yet, no more ids than    *)
(* the channel's size have been added.                                     *)
QueueFull == SentTotal = 0 => metrics["addSuc"] <= Capacity
=============================================================================
