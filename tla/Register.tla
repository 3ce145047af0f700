------------------------------ MODULE Register ------------------------------
(***************************************************************************)
(* What a client that makes one call at a time may rely on, whichever of   *)
(* the servers it calls: one copy of every key, that a write replaces      *)
(* between its call and its answer and that a read returns.                *)
(*                                                                         *)
(* The servers may also answer a read with nothing, and fail a call: later *)
(* reads may or may not see a write that was failed.                       *)
(***************************************************************************)
CONSTANTS Clients, Keys, Values, Empty

VARIABLES
    value,   \* value[k]: the values that a read of key k may return
    calls    \* calls[c]: the latest call of client c, a request or its answer

vars == <<value, calls>>

\* val: what a request asks to write (Empty: it is a read), or what a read answers
Request(k, v)     == [state |-> "busy", key |-> k, val |-> v]
Answer(state, k, v) == [state |-> state, key |-> k, val |-> v]

Init ==
    /\ value = [k \in Keys |-> {}]
    /\ calls \in [Clients -> {Answer("idle", k, Empty) : k \in Keys}]

Busy(c) == calls[c].state = "busy"

Begin(c) ==
    /\ ~Busy(c)
    /\ \E k \in Keys, v \in Values \cup {Empty} :
          calls' = [calls EXCEPT ![c] = Request(k, v)]
    /\ UNCHANGED value

\* A read of key k ends.
Read(c, k) ==
    /\ \/ calls' = [calls EXCEPT ![c] = Answer("empty", k, Empty)]
       \/ calls' = [calls EXCEPT ![c] = Answer("error", k, Empty)]
       \/ \E v \in value[k] : calls' = [calls EXCEPT ![c] = Answer("value", k, v)]
    /\ UNCHANGED value

\* A write of v to key k ends.
Write(c, k, v) ==
    \/ /\ calls' = [calls EXCEPT ![c] = Answer("ok", k, Empty)]
       /\ value' = [value EXCEPT ![k] = {v}]
    \/ /\ calls' = [calls EXCEPT ![c] = Answer("error", k, Empty)]
       /\ value' \in {value, [value EXCEPT ![k] = @ \cup {v}]}

\* A call ends; one that finds its answer at once has no beginning of its own.
End(c) ==
    \E k \in Keys, v \in Values \cup {Empty} :
        /\ Busy(c) => calls[c] = Request(k, v)
        /\ IF v = Empty THEN Read(c, k) ELSE Write(c, k, v)

Next == \E c \in Clients : Begin(c) \/ End(c)

Spec == Init /\ [][Next]_vars
=============================================================================
