----------------------------- MODULE StoreProofs -----------------------------
(***************************************************************************)
(* Proofs about XdasStore, for any handlers, buffers, requests and         *)
(* configurations: the pooled buffers are never shared.                    *)
(***************************************************************************)
EXTENDS XdasStore, ConversionProofs

(* The part of the types that the argument needs.                          *)
Shape == /\ pool \in SUBSET Buffers
         /\ DOMAIN mem = Buffers
         /\ phase \in [Handlers -> Phases]
         /\ DOMAIN req = Handlers
         /\ b1 \in [Handlers -> Buffers \cup {NoBuffer}]
         /\ b2 \in [Handlers -> Buffers \cup {NoBuffer}]

(* Which buffers a handler has where it is.                                *)
Bufferless == {"idle", "deleting", "incrementing", "expiring"}

BuffersByPhase ==
    \A h \in Handlers :
        /\ phase[h] \in Bufferless          => b1[h] = NoBuffer /\ b2[h] = NoBuffer
        /\ phase[h] \in {"reading", "read"} => b1[h] \in Buffers /\ b2[h] = NoBuffer
        /\ phase[h] = "storing"             => b1[h] \in Buffers /\ b2[h] \in Buffers

BufferInv == Shape /\ BuffersByPhase /\ BufferExclusive

-----------------------------------------------------------------------------
(* A buffer the pool may hand out is nobody's.                             *)
LEMMA Obtained ==
    ASSUME BufferExclusive, Shape, NEW b \in Obtainable
    PROVE  b \in Buffers /\ b # NoBuffer /\ \A h \in Handlers : b \notin Held(h)
<1>1. b \in Buffers /\ b # NoBuffer
  BY BufferAssumption DEF Obtainable, Shape
<1>2. ASSUME NEW h \in Handlers PROVE b \notin Held(h)
  BY DEF Obtainable, InUse, BufferExclusive
<1> QED BY <1>1, <1>2

(* What a handler holds are buffers.                                       *)
LEMMA HeldBuffers ==
    ASSUME Shape PROVE \A g \in Handlers : Held(g) \subseteq Buffers
BY DEF Shape, Held

(* A step that leaves the buffers where they are.                          *)
LEMMA BuffersStay ==
    ASSUME BufferInv, NEW h \in Handlers,
           pool' = pool, b1' = b1, b2' = b2, DOMAIN mem' = Buffers,
           DOMAIN req' = Handlers,
           NEW p \in Phases, phase' = [phase EXCEPT ![h] = p],
           \/ p = "replied"
           \/ p \in Bufferless /\ phase[h] \in Bufferless
           \/ p = phase[h]
           \/ p = "read" /\ phase[h] = "reading"
    PROVE  BufferInv'
<1>1. Shape'
  BY DEF BufferInv, Shape
<1>2. BuffersByPhase'
  BY DEF BufferInv, Shape, BuffersByPhase, Bufferless, Phases
<1>3. BufferExclusive'
  BY DEF BufferInv, BufferExclusive, Held
<1> QED BY <1>1, <1>2, <1>3 DEF BufferInv

(* A process that has just started holds no buffers.                       *)
LEMMA BufferInit == Init => BufferInv
<1> SUFFICES ASSUME Init PROVE BufferInv
  OBVIOUS
<1>1. Shape
  BY DEF Init, Shape, Phases
<1>2. BuffersByPhase
  BY DEF Init, BuffersByPhase, Bufferless
<1>3. BufferExclusive
  BY DEF Init, BufferExclusive, Held
<1> QED BY <1>1, <1>2, <1>3 DEF BufferInv

(* The first step of a handler keeps the buffers apart.                    *)
LEMMA BufferArrive ==
    ASSUME BufferInv, NEW h \in Handlers, NEW r \in Requests, Arrive(h, r)
    PROVE  BufferInv'
<1> USE DEF BufferInv
<1>1. CASE PutBegin(h, r)
  <2>1. PICK b \in Obtainable : /\ pool' = pool \ {b}
                                /\ b1' = [b1 EXCEPT ![h] = b]
                                /\ mem' = Reset(b)
    BY <1>1 DEF PutBegin
  <2>2. /\ phase[h] = "idle" /\ phase' = [phase EXCEPT ![h] = "reading"]
        /\ req' = [req EXCEPT ![h] = r] /\ b2' = b2
    BY <1>1 DEF PutBegin, Accept, Goto
  <2>3. b \in Buffers /\ b # NoBuffer /\ \A g \in Handlers : b \notin Held(g)
    BY Obtained
  <2>4. Shape'
    BY <2>1, <2>2, <2>3 DEF Shape, Phases, Reset
  <2>5. BuffersByPhase'
    BY <2>1, <2>2, <2>3 DEF Shape, BuffersByPhase, Bufferless
  <2>6. /\ Held(h)' = {b}
        /\ \A g \in Handlers : g # h => Held(g)' = Held(g)
    BY <2>1, <2>2, <2>3 DEF Shape, BuffersByPhase, Bufferless, Held
  <2>7. BufferExclusive'
    BY <2>1, <2>2, <2>3, <2>6 DEF Shape, BufferExclusive, BuffersByPhase, Bufferless
  <2> QED BY <2>4, <2>5, <2>7
<1>2. CASE DelBegin(h, r) \/ IncBegin(h, r)
  <2>1. PICK p \in {"deleting", "incrementing"} :
          /\ phase[h] = "idle" /\ phase' = [phase EXCEPT ![h] = p]
          /\ req' = [req EXCEPT ![h] = r]
          /\ pool' = pool /\ mem' = mem /\ b1' = b1 /\ b2' = b2
    BY <1>2 DEF DelBegin, IncBegin, Accept, Goto, bufVars
  <2> QED BY <2>1, BuffersStay DEF Shape, Phases, Bufferless
<1>3. CASE \/ PutReject(h, r) \/ HandleGet(h, r) \/ HandleMultiGet(h, r) \/ ReadFails(h, r)
           \/ DelReject(h, r) \/ IncReject(h, r)
  <2>1. /\ phase' = [phase EXCEPT ![h] = "replied"]
        /\ req' = [req EXCEPT ![h] = r]
        /\ pool' = pool /\ mem' = mem /\ b1' = b1 /\ b2' = b2
    BY <1>3 DEF PutReject, HandleGet, HandleMultiGet, ReadFails, DelReject, IncReject,
                Accept, Reply, bufVars
  <2> QED BY <2>1, BuffersStay DEF Shape, Phases
<1> QED BY <1>1, <1>2, <1>3 DEF Arrive

(* So do the later steps of a handler.                                     *)
LEMMA BufferProceed ==
    ASSUME BufferInv, NEW h \in Handlers, Proceed(h)
    PROVE  BufferInv'
<1> USE DEF BufferInv
<1>1. CASE PutRead(h)
  <2>1. DOMAIN mem' = Buffers
    BY <1>1 DEF PutRead, Shape
  <2> QED BY <1>1, <2>1, BuffersStay DEF PutRead, Goto, Shape, Phases
<1>2. CASE \/ PutReadFails(h) \/ PutConvertFails(h) \/ PutSet(h) \/ DelRun(h)
           \/ IncExpire(h) \/ GiveUp(h)
  <2>1. /\ phase' = [phase EXCEPT ![h] = "replied"]
        /\ req' = req /\ pool' = pool /\ mem' = mem /\ b1' = b1 /\ b2' = b2
    BY <1>2 DEF PutReadFails, PutConvertFails, PutSet, DelRun, IncExpire, GiveUp,
                Unanswered, Reply, bufVars
  <2> QED BY <2>1, BuffersStay DEF Shape, Phases
<1>5. CASE IncIncrBy(h)
  <2>1. /\ phase[h] = "incrementing" /\ phase' = [phase EXCEPT ![h] = "expiring"]
        /\ req' = req /\ pool' = pool /\ mem' = mem /\ b1' = b1 /\ b2' = b2
    BY <1>5 DEF IncIncrBy, Goto, bufVars
  <2> QED BY <2>1, BuffersStay DEF Shape, Phases, Bufferless
<1>6. CASE Retry(h)
  <2>1. /\ req' = req /\ pool' = pool /\ mem' = mem /\ b1' = b1 /\ b2' = b2
        /\ \/ phase[h] = "expiring" /\ phase' = [phase EXCEPT ![h] = "incrementing"]
           \/ phase' = [phase EXCEPT ![h] = phase[h]]
    BY <1>6 DEF Retry, Unanswered, Goto, bufVars
  <2>2. phase[h] \in Phases
    BY DEF Shape
  <2> QED BY <2>1, <2>2, BuffersStay DEF Shape, Phases, Bufferless
<1>3. CASE PutConvert(h)
  <2>1. PICK b \in Obtainable :
          writeToBufPool(h, b, Get(ToStored(h).magicByte), ToStored(h).data)
    BY <1>3 DEF PutConvert
  <2>2. /\ phase[h] = "read" /\ phase' = [phase EXCEPT ![h] = "storing"]
        /\ req' = req /\ b1' = b1
    BY <1>3 DEF PutConvert, Goto
  <2>3. /\ pool' = pool \ {b} /\ b2' = [b2 EXCEPT ![h] = b] /\ DOMAIN mem' = Buffers
    BY <2>1 DEF writeToBufPool, Shape
  <2>4. b \in Buffers /\ b # NoBuffer /\ \A g \in Handlers : b \notin Held(g)
    BY Obtained
  <2>5. Shape'
    BY <2>2, <2>3, <2>4 DEF Shape, Phases
  <2>6. BuffersByPhase'
    BY <2>2, <2>3, <2>4 DEF Shape, BuffersByPhase, Bufferless
  <2>7. /\ b1[h] \in Buffers /\ b1'[h] = b1[h] /\ b2'[h] = b /\ b1[h] \in Held(h)
        /\ Held(h)' = Held(h) \cup {b}
        /\ \A g \in Handlers : g # h => /\ Held(g)' = Held(g)
                                        /\ b1'[g] = b1[g] /\ b2'[g] = b2[g]
    BY <2>2, <2>3, <2>4, BufferAssumption DEF Shape, BuffersByPhase, Bufferless, Held
  <2>8. BufferExclusive'
    BY <2>3, <2>4, <2>7 DEF BufferExclusive
  <2> QED BY <2>5, <2>6, <2>8
<1>4. CASE Return(h)
  <2>1. /\ phase' = [phase EXCEPT ![h] = "idle"]
        /\ pool' = pool \cup Held(h)
        /\ b1' = [b1 EXCEPT ![h] = NoBuffer] /\ b2' = [b2 EXCEPT ![h] = NoBuffer]
        /\ req' = [req EXCEPT ![h] = NoRequest] /\ DOMAIN mem' = Buffers
    BY <1>4 DEF Return
  <2>2. Shape'
    BY <2>1 DEF Shape, Phases, Held
  <2>3. BuffersByPhase'
    BY <2>1 DEF Shape, BuffersByPhase, Bufferless
  <2>4. /\ Held(h)' = {} /\ b1'[h] = NoBuffer
        /\ \A g \in Handlers : g # h => /\ Held(g)' = Held(g)
                                        /\ b1'[g] = b1[g] /\ b2'[g] = b2[g]
    BY <2>1 DEF Shape, Held
  <2>5. BufferExclusive'
    BY <2>1, <2>4 DEF BufferExclusive
  <2> QED BY <2>2, <2>3, <2>5
<1> QED BY <1>1, <1>2, <1>3, <1>4, <1>5, <1>6 DEF Proceed

(* And so does every step of the system.                                   *)
LEMMA BufferStep == BufferInv /\ [Next]_vars => BufferInv'
<1> SUFFICES ASSUME BufferInv, [Next]_vars PROVE BufferInv'
  OBVIOUS
<1>1. ASSUME NEW b \in Buffers, GC(b) PROVE BufferInv'
  BY <1>1 DEF GC, BufferInv, Shape, BuffersByPhase, BufferExclusive, Held, Reset
<1>2. CASE \/ \E k \in DOMAIN redis : Expires(k)
           \/ \E s \in Slots : TakesEffect(s)
           \/ UNCHANGED vars
  <2>1. /\ req' = req /\ phase' = phase
        /\ pool' = pool /\ mem' = mem /\ b1' = b1 /\ b2' = b2
    BY <1>2 DEF Expires, TakesEffect, bufVars, vars
  <2> QED BY <2>1 DEF BufferInv, Shape, BuffersByPhase, BufferExclusive, Held
<1>3. CASE Restart
  BY <1>3 DEF Restart, BufferInv, Shape, Phases, BuffersByPhase, Bufferless,
              BufferExclusive, Held
<1> QED BY BufferArrive, BufferProceed, <1>1, <1>2, <1>3 DEF Next

(* No buffer of the pool is ever with two handlers, twice with one, or     *)
(* with a handler and in the pool.                                         *)
THEOREM BuffersExclusive == Spec => []BufferExclusive
<1>1. BufferInv => BufferExclusive
  BY DEF BufferInv
<1> QED BY BufferInit, BufferStep, <1>1, PTL DEF Spec
=============================================================================
