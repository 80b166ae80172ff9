----------------------------- MODULE FindXProofs -----------------------------
(***************************************************************************)
(* Proofs about FindX, for any number of callers and workers, any channel  *)
(* size and any number of calls.                                           *)
(***************************************************************************)
EXTENDS FindX, FiniteSetTheorems, SequenceTheorems, TLAPS

(* How the parts of the state hang together over the service's life.  This *)
(* is what makes Accounting, DrainedOnClose and CrashCause inductive.      *)
LifeCycle ==
    /\ closed <=> closer \in {"waiting", "returned"}
    /\ closer = "new" => /\ \A w \in Workers : worker[w] = "none"
                         /\ ~crashed
    /\ \A w \in Workers : worker[w] = "done" => closed /\ ch = <<>>
    /\ closer = "returned" => \A w \in Workers : worker[w] = "done"
    /\ \A w \in Workers : worker[w] = "busy" => job[w] \in Ids
    /\ \A c \in Callers : caller[c] = "adding" => arg[c] \in Ids

Inv == TypeOK /\ LifeCycle /\ CrashCause /\ Accounting

-----------------------------------------------------------------------------
(* The capacity and the set of workers Start settles on are never empty.   *)
LEMMA Sizes ==
    /\ Capacity \in Nat \ {0}
    /\ 1 \in Workers
    /\ IsFiniteSet(Workers)
<1>1. Capacity \in Nat \ {0}
  BY FindXAssumption DEF Capacity, DefaultChannelBufferSize
<1>2. DEFINE n == IF Thread < 1 THEN DefaultThread ELSE Thread
<1>3. n \in Nat \ {0} /\ Workers = 1 .. n
  BY FindXAssumption DEF Workers, DefaultThread
<1>4. IsFiniteSet(1 .. n)
  BY <1>3, FS_Interval
<1> QED BY <1>1, <1>3, <1>4

(* The sets whose sizes Accounting adds up are finite.                     *)
LEMMA CountedSets ==
    /\ IsFiniteSet(BusySet) /\ Cardinality(BusySet) \in Nat
    /\ IsFiniteSet(SentSet) /\ Cardinality(SentSet) \in Nat
<1>1. BusySet \in SUBSET Workers /\ SentSet \in SUBSET Callers
  BY DEF BusySet, SentSet
<1>2. IsFiniteSet(BusySet) /\ IsFiniteSet(SentSet)
  BY <1>1, Sizes, FindXAssumption, FS_Subset
<1> QED BY <1>2, FS_CardinalityType

-----------------------------------------------------------------------------
(* The service before Start satisfies the invariant.                       *)
LEMMA InitInv == Init => Inv
<1> SUFFICES ASSUME Init PROVE Inv
  OBVIOUS
<1> USE DEF Init
<1>1. TypeOK
  <2>1. ch \in Seq(Ids) /\ Len(ch) = 0
    OBVIOUS
  <2>2. Len(ch) <= Capacity
    BY <2>1, Sizes
  <2>3. metrics \in [Counters -> Nat] /\ calls \in Nat
    OBVIOUS
  <2> QED BY <2>1, <2>2, <2>3 DEF TypeOK
<1>2. LifeCycle
  BY DEF LifeCycle
<1>3. CrashCause
  BY DEF CrashCause, Busy
<1>4. BusySet = {} /\ SentSet = {} /\ Len(ch) = 0 /\ SentTotal = 0
  BY DEF BusySet, Busy, SentSet, SentTotal, Counters
<1>5. Accounting
  BY <1>4, FS_EmptySet DEF Accounting, Counters
<1> QED BY <1>1, <1>2, <1>3, <1>5 DEF Inv

(* Every step keeps the types and the bound on the channel.                *)
LEMMA TypeStep == Inv /\ [Next]_vars => TypeOK'
<1> SUFFICES ASSUME Inv, [Next]_vars PROVE TypeOK'
  OBVIOUS
<1> USE Sizes DEF Inv, TypeOK
<1>1. CASE Start \/ StartFails
  BY <1>1 DEF Start, StartFails
<1>2. ASSUME NEW c \in Callers, Call(c) PROVE TypeOK'
  <2>1. calls' \in Nat
    BY <1>2, FindXAssumption DEF Call, AddBegin, NotEnabled, Reject, Reads
  <2>2. ASSUME NEW id \in Ids, AddBegin(c, id) PROVE TypeOK'
    BY <2>1, <2>2 DEF AddBegin
  <2>3. CASE NotEnabled(c)
    BY <2>1, <2>3 DEF NotEnabled
  <2>4. CASE Reject(c)
    BY <2>1, <2>4 DEF Reject, Count, Counters
  <2> QED BY <1>2, <2>2, <2>3, <2>4 DEF Call
<1>3. ASSUME NEW c \in Callers, AddSend(c) PROVE TypeOK'
  BY <1>3 DEF AddSend, LifeCycle
<1>4. ASSUME NEW c \in Callers, AddDefault(c) \/ AddPanics(c) \/ AddSuc(c) PROVE TypeOK'
  <2>1. CASE AddDefault(c)
    BY <2>1 DEF AddDefault, Count, Counters
  <2>2. CASE AddPanics(c)
    BY <2>2 DEF AddPanics
  <2>3. CASE AddSuc(c)
    BY <2>3 DEF AddSuc, Count, Counters
  <2> QED BY <1>4, <2>1, <2>2, <2>3
<1>5. ASSUME NEW w \in Workers, Receive(w) PROVE TypeOK'
  <2>1. Head(ch) \in Ids /\ Tail(ch) \in Seq(Ids) /\ Len(Tail(ch)) <= Capacity
    BY <1>5 DEF Receive
  <2> QED BY <1>5, <2>1 DEF Receive
<1>6. ASSUME NEW w \in Workers, RangeEnds(w) \/ getReq(w) \/ Refuse(w) \/ getReqPanics(w)
      PROVE TypeOK'
  <2>1. CASE RangeEnds(w) \/ getReqPanics(w)
    BY <2>1 DEF RangeEnds, getReqPanics
  <2>2. ASSUME NEW name \in Counters, Finish(w, name) PROVE TypeOK'
    BY <2>2 DEF Finish, Count
  <2> QED BY <1>6, <2>1, <2>2 DEF getReq, Refuse, Counters
<1>7. CASE CloseDisables \/ Closing
  BY <1>7 DEF CloseDisables, Closing, CloseChannel, CloseReturns
<1>8. CASE UNCHANGED vars
  BY <1>8 DEF vars
<1> QED BY <1>1, <1>2, <1>3, <1>4, <1>5, <1>6, <1>7, <1>8 DEF Next, InAdd, Work

(* Every step keeps the service's parts in line with its life.             *)
LEMMA LifeCycleStep == Inv /\ [Next]_vars => LifeCycle'
<1> SUFFICES ASSUME Inv, [Next]_vars PROVE LifeCycle'
  OBVIOUS
<1> USE Sizes DEF Inv, TypeOK, LifeCycle
<1>1. CASE Start \/ StartFails
  BY <1>1 DEF Start, StartFails
<1>2. ASSUME NEW c \in Callers, Call(c) PROVE LifeCycle'
  BY <1>2 DEF Call, AddBegin, NotEnabled, Reject, Reads
<1>3. ASSUME NEW c \in Callers, AddSend(c) PROVE LifeCycle'
  BY <1>3 DEF AddSend
<1>4. ASSUME NEW c \in Callers, AddDefault(c) \/ AddPanics(c) \/ AddSuc(c)
      PROVE LifeCycle'
  BY <1>4 DEF AddDefault, AddPanics, AddSuc
<1>5. ASSUME NEW w \in Workers, Receive(w) PROVE LifeCycle'
  <2>1. Head(ch) \in Ids
    BY <1>5 DEF Receive
  <2> QED BY <1>5, <2>1 DEF Receive
<1>6. ASSUME NEW w \in Workers, RangeEnds(w) \/ getReq(w) \/ Refuse(w) \/ getReqPanics(w)
      PROVE LifeCycle'
  BY <1>6 DEF RangeEnds, getReq, Refuse, getReqPanics, Finish
<1>7. CASE CloseDisables \/ Closing
  BY <1>7 DEF CloseDisables, Closing, CloseChannel, CloseReturns
<1>8. CASE UNCHANGED vars
  BY <1>8 DEF vars
<1> QED BY <1>1, <1>2, <1>3, <1>4, <1>5, <1>6, <1>7, <1>8 DEF Next, InAdd, Work

(* Every step that panics has one of the two causes.                       *)
LEMMA CrashCauseStep == Inv /\ [Next]_vars => CrashCause'
<1> SUFFICES ASSUME Inv, [Next]_vars PROVE CrashCause'
  OBVIOUS
<1> USE FindXAssumption DEF Inv, TypeOK, LifeCycle, CrashCause, Busy
<1>1. CASE Start \/ StartFails
  BY <1>1 DEF Start, StartFails
<1>2. ASSUME NEW c \in Callers, Call(c) PROVE CrashCause'
  BY <1>2 DEF Call, AddBegin, NotEnabled, Reject, Reads
<1>3. ASSUME NEW c \in Callers, AddSend(c) \/ AddDefault(c) \/ AddSuc(c) PROVE CrashCause'
  BY <1>3 DEF AddSend, AddDefault, AddSuc
<1>4. ASSUME NEW c \in Callers, AddPanics(c) PROVE CrashCause'
  BY <1>4 DEF AddPanics
<1>5. ASSUME NEW w \in Workers, Receive(w) \/ RangeEnds(w) \/ getReq(w) \/ Refuse(w)
      PROVE CrashCause'
  BY <1>5 DEF Receive, RangeEnds, getReq, Refuse, Finish
<1>6. ASSUME NEW w \in Workers, getReqPanics(w) PROVE CrashCause'
  BY <1>6 DEF getReqPanics
<1>7. CASE CloseDisables \/ Closing
  BY <1>7 DEF CloseDisables, Closing, CloseChannel, CloseReturns
<1>8. CASE UNCHANGED vars
  BY <1>8 DEF vars
<1> QED BY <1>1, <1>2, <1>3, <1>4, <1>5, <1>6, <1>7, <1>8 DEF Next, InAdd, Work

(* Each action moves an id from one place Accounting counts to another.    *)
LEMMA AccountingStep == Inv /\ [Next]_vars => Accounting'
<1> SUFFICES ASSUME Inv, [Next]_vars PROVE Accounting'
  OBVIOUS
<1>t. /\ ch \in Seq(Ids) /\ Len(ch) \in Nat
      /\ metrics \in [Counters -> Nat]
      /\ \A name \in Counters : metrics[name] \in Nat
      /\ worker \in [Workers -> {"none", "receiving", "busy", "done"}]
      /\ caller \in [Callers -> {"idle", "adding", "sent", "panicked"}]
  BY DEF Inv, TypeOK
<1>n. /\ Cardinality(BusySet) \in Nat /\ Cardinality(SentSet) \in Nat
      /\ Len(ch) \in Nat /\ SentTotal \in Nat /\ metrics["addSuc"] \in Nat
  BY CountedSets, <1>t DEF SentTotal, Counters
<1>a. metrics["addSuc"] + Cardinality(SentSet)
        = Len(ch) + Cardinality(BusySet) + SentTotal
  BY DEF Inv, Accounting
<1> DEFINE Steady == BusySet' = BusySet /\ SentSet' = SentSet /\ ch' = ch
<1> DEFINE Quiet  == metrics' = metrics
<1>s. ASSUME Steady, Quiet PROVE Accounting'
  BY <1>a, <1>s DEF Accounting, SentTotal
<1>1. CASE Start
  <2>1. BusySet = {} /\ BusySet' = {}
    BY <1>1 DEF Start, BusySet, Busy, Inv, LifeCycle
  <2>2. Steady /\ Quiet
    BY <1>1, <2>1 DEF Start, SentSet
  <2> QED BY <2>2, <1>s
<1>2. CASE StartFails \/ CloseDisables \/ Closing \/ UNCHANGED vars
  <2>1. Steady /\ Quiet
    BY <1>2 DEF StartFails, CloseDisables, Closing, CloseChannel, CloseReturns, vars,
                BusySet, Busy, SentSet
  <2> QED BY <2>1, <1>s
<1>3. ASSUME NEW c \in Callers, (\E id \in Ids : AddBegin(c, id)) \/ NotEnabled(c)
                                \/ AddPanics(c)
      PROVE Accounting'
  <2>1. Steady /\ Quiet
    BY <1>3, <1>t DEF AddBegin, NotEnabled, Reads, AddPanics, BusySet, Busy, SentSet
  <2> QED BY <2>1, <1>s
<1>4. ASSUME NEW c \in Callers, Reject(c) \/ AddDefault(c) PROVE Accounting'
  <2>1. Steady
    BY <1>4, <1>t DEF Reject, Reads, AddDefault, BusySet, Busy, SentSet
  <2>2. metrics'["addSuc"] = metrics["addSuc"] /\ SentTotal' = SentTotal
    BY <1>4, <1>t DEF Reject, AddDefault, Count, Counters, SentTotal
  <2> QED BY <2>1, <2>2, <1>a DEF Accounting
<1>5. ASSUME NEW c \in Callers, AddSend(c) PROVE Accounting'
  <2>1. /\ Cardinality(BusySet') = Cardinality(BusySet)
        /\ SentTotal' = SentTotal /\ metrics'["addSuc"] = metrics["addSuc"]
    BY <1>5 DEF AddSend, BusySet, Busy, SentTotal
  <2>2. c \notin SentSet /\ SentSet' = SentSet \cup {c}
    BY <1>5, <1>t DEF AddSend, SentSet
  <2>3. Cardinality(SentSet') = Cardinality(SentSet) + 1
    BY <2>2, CountedSets, FS_AddElement
  <2>4. Len(ch') = Len(ch) + 1
    <3>1. arg[c] \in Ids
      BY <1>5 DEF AddSend, Inv, LifeCycle
    <3> QED BY <3>1, <1>5, <1>t DEF AddSend
  <2>5. metrics["addSuc"] + (Cardinality(SentSet) + 1)
          = (Len(ch) + 1) + Cardinality(BusySet) + SentTotal
    BY <1>n, <1>a
  <2>6. metrics'["addSuc"] + Cardinality(SentSet')
          = Len(ch') + Cardinality(BusySet') + SentTotal'
    BY <2>1, <2>3, <2>4, <2>5
  <2> QED BY <2>6 DEF Accounting
<1>6. ASSUME NEW c \in Callers, AddSuc(c) PROVE Accounting'
  <2>1. Cardinality(BusySet') = Cardinality(BusySet) /\ Len(ch') = Len(ch)
    BY <1>6 DEF AddSuc, BusySet, Busy
  <2>2. c \in SentSet /\ SentSet' = SentSet \ {c}
    BY <1>6, <1>t DEF AddSuc, SentSet
  <2>3. Cardinality(SentSet') = Cardinality(SentSet) - 1
    BY <2>2, CountedSets, FS_RemoveElement
  <2>4. metrics'["addSuc"] = metrics["addSuc"] + 1 /\ SentTotal' = SentTotal
    BY <1>6, <1>t DEF AddSuc, Count, Counters, SentTotal
  <2>6. metrics'["addSuc"] + Cardinality(SentSet')
          = Len(ch') + Cardinality(BusySet') + SentTotal'
    BY <1>n, <1>a, <2>1, <2>3, <2>4
  <2> QED BY <2>6 DEF Accounting
<1>7. ASSUME NEW w \in Workers, Receive(w) PROVE Accounting'
  <2>1. /\ Cardinality(SentSet') = Cardinality(SentSet)
        /\ SentTotal' = SentTotal /\ metrics'["addSuc"] = metrics["addSuc"]
    BY <1>7 DEF Receive, SentSet, SentTotal
  <2>2. w \notin BusySet /\ BusySet' = BusySet \cup {w}
    BY <1>7, <1>t DEF Receive, BusySet, Busy
  <2>3. Cardinality(BusySet') = Cardinality(BusySet) + 1
    BY <2>2, CountedSets, FS_AddElement
  <2>4. Len(ch') = Len(ch) - 1
    BY <1>7, <1>t DEF Receive
  <2>6. metrics'["addSuc"] + Cardinality(SentSet')
          = Len(ch') + Cardinality(BusySet') + SentTotal'
    BY <1>n, <1>a, <2>1, <2>3, <2>4
  <2> QED BY <2>6 DEF Accounting
<1>8. ASSUME NEW w \in Workers, RangeEnds(w) \/ getReqPanics(w) PROVE Accounting'
  <2>1. Steady /\ Quiet
    BY <1>8, <1>t DEF RangeEnds, getReqPanics, BusySet, Busy, SentSet
  <2> QED BY <2>1, <1>s
<1>9. ASSUME NEW w \in Workers, getReq(w) \/ Refuse(w) PROVE Accounting'
  <2>1. PICK name \in {"sentSuc", "sentRej", "sentFail"} : Finish(w, name)
    BY <1>9 DEF getReq, Refuse
  <2>2. Cardinality(SentSet') = Cardinality(SentSet) /\ Len(ch') = Len(ch)
    BY <2>1 DEF Finish, SentSet
  <2>3. w \in BusySet /\ BusySet' = BusySet \ {w}
    BY <2>1, <1>t DEF Finish, BusySet, Busy
  <2>4. Cardinality(BusySet') = Cardinality(BusySet) - 1
    BY <2>3, CountedSets, FS_RemoveElement
  <2>5. metrics'["addSuc"] = metrics["addSuc"] /\ SentTotal' = SentTotal + 1
    BY <2>1, <1>t DEF Finish, Count, Counters, SentTotal
  <2>7. metrics'["addSuc"] + Cardinality(SentSet')
          = Len(ch') + Cardinality(BusySet') + SentTotal'
    BY <1>n, <1>a, <2>2, <2>4, <2>5
  <2> QED BY <2>7 DEF Accounting
<1> QED BY <1>1, <1>2, <1>3, <1>4, <1>5, <1>6, <1>7, <1>8, <1>9
        DEF Next, Call, InAdd, Work

-----------------------------------------------------------------------------
(* The inductive invariant holds in every state the service reaches.       *)
THEOREM Invariance == Spec => []Inv
<1>1. Inv /\ [Next]_vars => Inv'
  BY TypeStep, LifeCycleStep, CrashCauseStep, AccountingStep DEF Inv
<1> QED BY InitInv, <1>1, PTL DEF Spec

(* The channel never holds more than its capacity, whatever Start was      *)
(* configured with, and every variable keeps its kind of value.            *)
THEOREM TypeCorrect == Spec => []TypeOK
<1>1. Inv => TypeOK
  BY DEF Inv
<1> QED BY Invariance, <1>1, PTL

(* No id is lost or counted twice between Add and the sent counters.       *)
THEOREM AccountingHolds == Spec => []Accounting
<1>1. Inv => Accounting
  BY DEF Inv
<1> QED BY Invariance, <1>1, PTL

(* Close has drained the service when it returns: any worker's end means a *)
(* closed and empty channel, and Accounting leaves nowhere else for an id. *)
THEOREM CloseDrains == Spec => []DrainedOnClose
<1>1. Inv => DrainedOnClose
  <2> SUFFICES ASSUME Inv, closer = "returned"
               PROVE /\ ch = <<>>
                     /\ BusySet = {}
                     /\ metrics["addSuc"] + Cardinality(SentSet) = SentTotal
    BY DEF DrainedOnClose
  <2>1. ch = <<>>
    BY Sizes DEF Inv, LifeCycle
  <2>2. BusySet = {}
    BY DEF Inv, LifeCycle, BusySet, Busy
  <2>3. Len(ch) = 0 /\ Cardinality(BusySet) = 0 /\ SentTotal \in Nat
    BY <2>1, <2>2, FS_EmptySet DEF Inv, TypeOK, SentTotal, Counters
  <2> QED BY <2>1, <2>2, <2>3 DEF Inv, Accounting
<1> QED BY Invariance, <1>1, PTL

(* Only an id that makes no URL, or a bare goroutine that sends on the     *)
(* closed channel, can take the process down.                              *)
THEOREM CrashesExplained == Spec => []CrashCause
<1>1. Inv => CrashCause
  BY DEF Inv
<1> QED BY Invariance, <1>1, PTL
=============================================================================
