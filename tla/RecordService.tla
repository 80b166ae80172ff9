---------------------------- MODULE RecordService ----------------------------
(***************************************************************************)
(* What XDAS promises its clients: a map from keys to records and counters.*)
(* No buffers, formats, encryption or configuration.  A call that changes  *)
(* something takes effect once, between the call and its answer, or is     *)
(* answered with an error; then it may still take effect, once, later.  A  *)
(* read is answered with what is there at one moment, or with an error.    *)
(*                                                                         *)
(* A value is [content |-> ...] or [counter |-> ...].  A life is           *)
(* "transient" (the entry may vanish), "kept", or, for an increment,       *)
(* "gone" (the entry is removed).                                          *)
(***************************************************************************)
EXTENDS Integers

CONSTANTS Clients,  \* who calls
          Calls,    \* what may be asked for
          Slots,    \* bounds the writes that are still to take effect
          Limit,    \* counters stay in -Limit - 1 .. Limit
          NoCall

VARIABLES db,        \* the entries: key -> [value, life]
          call,      \* what each client has asked for
          state,     \* idle, called, applied (an increment half-way), answered
          answer,    \* what each client is told, or will be
          abandoned  \* writes answered with an error that may still happen

serviceVars == <<db, call, state, answer, abandoned>>

Error    == [error |-> TRUE]
Nothing  == [none |-> TRUE]
Done     == [done |-> TRUE]
Absent   == [absent |-> TRUE]
Found(v) == [found |-> v]

Put(k, v, life) ==
    [x \in DOMAIN db \cup {k} |-> IF x = k THEN [value |-> v, life |-> life] ELSE db[x]]
Remove(k) == [x \in DOMAIN db \ {k} |-> db[x]]

(* An increment counts from 0 where there is nothing, keeps the life of    *)
(* what is there, and fails on a record or at the limit.                   *)
Current(k)    == IF k \in DOMAIN db THEN db[k] ELSE [value |-> [counter |-> 0], life |-> "kept"]
Counts(k, n)  == /\ "counter" \in DOMAIN Current(k).value
                 /\ Current(k).value.counter + n \in (-Limit - 1) .. Limit
Sum(k, n)     == Current(k).value.counter + n
Incremented(k, n) ==
    IF Counts(k, n) THEN Put(k, [counter |-> Sum(k, n)], Current(k).life) ELSE db

(* The second half of an increment: the life of the entry, whatever it is. *)
Renewed(k, life) ==
    IF k \notin DOMAIN db THEN db
    ELSE IF life = "gone" THEN Remove(k) ELSE Put(k, db[k].value, life)

Effect(w) == CASE w.op = "put"   -> Put(w.key, w.value, w.life)
               [] w.op = "del"   -> Remove(w.key)
               [] w.op = "inc"   -> Incremented(w.key, w.n)
               [] w.op = "renew" -> Renewed(w.key, w.life)

Rest(w) == IF w.op = "inc" THEN [op |-> "renew", key |-> w.key, life |-> w.life] ELSE NoCall

-----------------------------------------------------------------------------
Init == /\ db = [k \in {} |-> Nothing]
        /\ call = [c \in Clients |-> NoCall]
        /\ state = [c \in Clients |-> "idle"]
        /\ answer = [c \in Clients |-> Nothing]
        /\ abandoned = [s \in Slots |-> NoCall]

Become(c, s) == state' = [state EXCEPT ![c] = s]
Tell(c, a)   == Become(c, "answered") /\ answer' = [answer EXCEPT ![c] = a]
Ask(c, q)    == state[c] = "idle" /\ call' = [call EXCEPT ![c] = q]

(* A call that is refused, or a read that fails, changes nothing.          *)
Refused(c, q) == /\ Ask(c, q)
                 /\ Tell(c, Error)
                 /\ UNCHANGED <<db, abandoned>>

Get(c, q) == /\ q.op = "get" /\ Ask(c, q)
             /\ Tell(c, IF q.key \in DOMAIN db THEN Found(db[q.key].value) ELSE Absent)
             /\ UNCHANGED <<db, abandoned>>

(* Some of the records asked for, all as they are at the same moment.      *)
MultiGet(c, q) ==
    /\ q.op = "multi" /\ Ask(c, q)
    /\ \E keys \in SUBSET {k \in q.keys \cap DOMAIN db : "content" \in DOMAIN db[k].value} :
         Tell(c, Found([k \in keys |-> db[k].value]))
    /\ UNCHANGED <<db, abandoned>>

Begin(c, q) == /\ q.op \in {"put", "del", "inc"} /\ Ask(c, q)
               /\ Become(c, "called")
               /\ UNCHANGED <<db, answer, abandoned>>

Apply(c) == /\ state[c] = "called"
            /\ db' = Effect(call[c])
            /\ LET w == call[c]
               IN  CASE w.op = "put" -> Tell(c, Done)
                     [] w.op = "del" -> Tell(c, IF w.key \in DOMAIN db THEN Done ELSE Absent)
                     [] w.op = "inc" ->
                          /\ Become(c, "applied")
                          /\ answer' = [answer EXCEPT ![c] =
                               IF Counts(w.key, w.n) THEN Found([counter |-> Sum(w.key, w.n)])
                                                     ELSE Error]
            /\ UNCHANGED <<call, abandoned>>

Renew(c) == /\ state[c] = "applied"
            /\ db' = Effect(Rest(call[c]))
            /\ Become(c, "answered")
            /\ UNCHANGED <<call, answer, abandoned>>

Fail(c) == /\ state[c] \in {"called", "applied"}
           /\ Tell(c, Error)
           /\ \/ abandoned' = abandoned
              \/ \E s \in Slots :
                   /\ abandoned[s] = NoCall
                   /\ abandoned' = [abandoned EXCEPT ![s] =
                        IF state[c] = "called" THEN call[c] ELSE Rest(call[c])]
           /\ UNCHANGED <<db, call>>

End(c) == /\ state[c] = "answered"
          /\ Become(c, "idle")
          /\ call' = [call EXCEPT ![c] = NoCall]
          /\ answer' = [answer EXCEPT ![c] = Nothing]
          /\ UNCHANGED <<db, abandoned>>

Late(s) == /\ abandoned[s] # NoCall
           /\ db' = Effect(abandoned[s])
           /\ abandoned' = [abandoned EXCEPT ![s] = Rest(@)]
           /\ UNCHANGED <<call, state, answer>>

Vanish(k) == /\ db[k].life = "transient"
             /\ db' = Remove(k)
             /\ UNCHANGED <<call, state, answer, abandoned>>

(* The service stops and starts again: who was waiting gets no answer.     *)
Crash == /\ call' = [c \in Clients |-> NoCall]
         /\ state' = [c \in Clients |-> "idle"]
         /\ answer' = [c \in Clients |-> Nothing]
         /\ UNCHANGED <<db, abandoned>>

Next == \/ \E c \in Clients : \/ \E q \in Calls : \/ Refused(c, q) \/ Get(c, q)
                                                  \/ MultiGet(c, q) \/ Begin(c, q)
                              \/ Apply(c) \/ Renew(c) \/ Fail(c) \/ End(c)
        \/ \E s \in Slots : Late(s)
        \/ \E k \in DOMAIN db : Vanish(k)
        \/ Crash

Spec == Init /\ [][Next]_serviceVars
=============================================================================
