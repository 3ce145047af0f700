------------------------------- MODULE Events -------------------------------
(***************************************************************************)
(* The event loop of the daemon (events.c): timed events, file descriptors *)
(* with three priorities, and the loop that calls the handlers.  A time is *)
(* a pair of seconds and microseconds.  Which function, code and data a    *)
(* timed event has is one identity, so is a descriptor with its type.      *)
(*                                                                         *)
(*   tq      Time_queue                                                    *)
(*   now     Now, the clock as it was last read                            *)
(*   fds     Fd_queue: per priority, the descriptors and whether active    *)
(*   nactive num_active_fds, per priority                                  *)
(*   mask    Fd_mask                                                       *)
(*   thr     Active_priority                                               *)
(*   rr      Round_robin                                                   *)
(*   first   no timed event is handled while this is set                   *)
(*   pc      the part of the loop: "time", "high" or "low", or "out"       *)
(*   i, j    the priority and the index the loop is at                     *)
(*   ready   current_mask, what select left in it                          *)
(*   num     num_set                                                       *)
(*   treated whether this round called a handler of the upper priorities   *)
(***************************************************************************)
EXTENDS Integers, Sequences, FiniteSetsExt, SequencesExt

CONSTANTS Usec,           \* microseconds of a second
          MAX_FD_EVENTS   \* descriptors of one priority

ASSUME EventsAssumption == Usec \in Nat \ {0} /\ MAX_FD_EVENTS \in Nat

LOW_PRIORITY == 0

Priorities == 0 .. 2

Time(s, u) == [sec |-> s, usec |-> u]

E_neg_time(t) == Time(-t.sec, -t.usec)

\* the microseconds go back to less than a second, then take the sign of the
\* seconds
E_add_time(t, d) ==
    LET s == t.sec + d.sec
        u == t.usec + d.usec
        a == IF u >= Usec THEN Time(s + 1, u - Usec)
             ELSE IF u <= -Usec THEN Time(s - 1, u + Usec) ELSE Time(s, u)
    IN  CASE a.sec > 0 /\ a.usec < 0 -> Time(a.sec - 1, a.usec + Usec)
          [] a.sec < 0 /\ a.usec > 0 -> Time(a.sec + 1, a.usec - Usec)
          [] ~(a.sec > 0 /\ a.usec < 0) /\ ~(a.sec < 0 /\ a.usec > 0) -> a

E_sub_time(t, d) == E_add_time(t, E_neg_time(d))

\* E_compare_time(s, t) < 0
Earlier(s, t) == s.sec < t.sec \/ (s.sec = t.sec /\ s.usec < t.usec)

-----------------------------------------------------------------------------
(* Registrations, which handlers change while the loop runs.               *)

\* mutant: an event like it goes only if the new one is before it.
E_queue_twice(e, id, delta) ==
    LET t == E_add_time(e.now, delta)
        later == {k \in DOMAIN e.tq : Earlier(t, e.tq[k].t)}
        at == Min(later \cup {Len(e.tq) + 1})
    IN  [e EXCEPT !.tq = SubSeq(@, 1, at - 1) \o <<[id |-> id, t |-> t]>>
                         \o SelectSeq(SubSeq(@, at, Len(@)), LAMBDA x : x.id # id)]

\* E_queue: an event like it goes, and it takes its place behind those that are
\* not later
E_queue(e, id, delta) ==
    LET t == E_add_time(e.now, delta)
        others == SelectSeq(e.tq, LAMBDA x : x.id # id)
        later == {k \in DOMAIN others : Earlier(t, others[k].t)}
        at == Min(later \cup {Len(others) + 1})
    IN  [e EXCEPT !.tq = InsertAt(others, at, [id |-> id, t |-> t])]

E_dequeue(e, id) == [e EXCEPT !.tq = SelectSeq(@, LAMBDA x : x.id # id)]

E_in_queue(e, id) == \E k \in DOMAIN e.tq : e.tq[k].id = id

\* where a descriptor is in the queue of a priority, 0 if it is not there
Index(e, fd, p) ==
    LET at == {k \in DOMAIN e.fds[p] : e.fds[p][k].fd = fd}
    IN  IF at = {} THEN 0 ELSE Min(at)

Attached(e, fd) == \E p \in Priorities : Index(e, fd, p) # 0

\* E_attach_fd: one that is there already becomes active
E_attach_fd(e, fd, p) ==
    LET k == Index(e, fd, p)
        more(b) == IF b THEN 1 ELSE 0
    IN  CASE k # 0 -> [e EXCEPT !.fds[p][k].active = TRUE,
                                !.nactive[p] = @ + more(~e.fds[p][k].active)]
          [] k = 0 /\ Len(e.fds[p]) = MAX_FD_EVENTS -> e
          [] k = 0 /\ Len(e.fds[p]) # MAX_FD_EVENTS ->
               [e EXCEPT !.fds[p] = Append(@, [fd |-> fd, active |-> TRUE]),
                         !.nactive[p] = @ + 1,
                         !.mask = IF e.thr <= p THEN @ \cup {fd} ELSE @]

\* E_detach_fd_priority: the last one of the queue takes its place
E_detach_fd_priority(e, fd, p) ==
    LET k == Index(e, fd, p)
        n == Len(e.fds[p])
        q == [e.fds[p] EXCEPT ![k] = e.fds[p][n]]
    IN  IF k = 0 THEN e
        ELSE [e EXCEPT !.fds[p] = SubSeq(q, 1, n - 1), !.mask = @ \ {fd},
                       !.nactive[p] = IF e.fds[p][k].active THEN @ - 1 ELSE @]

E_detach_fd(e, fd) ==
    E_detach_fd_priority(E_detach_fd_priority(E_detach_fd_priority(e, fd, 0), fd, 1), fd, 2)

\* the change of E_activate_fd and E_deactivate_fd to one entry
Turn(e, fd, p, on) ==
    LET k == Index(e, fd, p)
        was == e.fds[p][k].active
    IN  IF k = 0 THEN e
        ELSE [e EXCEPT !.fds[p][k].active = on,
                       !.nactive[p] = @ + (IF on /\ ~was THEN 1 ELSE IF was /\ ~on THEN -1 ELSE 0),
                       !.mask = IF ~on THEN @ \ {fd} ELSE IF p >= e.thr THEN @ \cup {fd} ELSE @]

E_deactivate_fd(e, fd) == Turn(Turn(Turn(e, fd, 0, FALSE), fd, 1, FALSE), fd, 2, FALSE)

E_activate_fd(e, fd) == Turn(Turn(Turn(e, fd, 0, TRUE), fd, 1, TRUE), fd, 2, TRUE)

\* the descriptors that are to be watched
Watched(e, thr) ==
    {e.fds[y[1]][y[2]].fd : y \in {x \in Priorities \X (1 .. MAX_FD_EVENTS) :
        x[1] >= thr /\ x[2] <= Len(e.fds[x[1]]) /\ e.fds[x[1]][x[2]].active}}

E_set_active_threshold(e, p) ==
    IF p = e.thr THEN e ELSE [e EXCEPT !.thr = p, !.mask = Watched(e, p)]

E_exit_events(e) == [e EXCEPT !.pc = "out"]

-----------------------------------------------------------------------------
(* E_handle_events, up to the next call of a handler or of select.         *)

E_init(now) ==
    [tq |-> <<>>, now |-> now, fds |-> [p \in Priorities |-> <<>>],
     nactive |-> [p \in Priorities |-> 0], mask |-> {}, thr |-> LOW_PRIORITY, rr |-> 0,
     first |-> TRUE, pc |-> "out", i |-> 2, j |-> 0, ready |-> {}, num |-> 0,
     treated |-> FALSE]

E_handle_events(e) == [e EXCEPT !.pc = "time", !.first = TRUE]

\* the first timed event is to be handled
Time_due(e) == e.pc = "time" /\ e.tq # <<>> /\ ~e.first /\ ~Earlier(e.now, e.tq[1].t)

Take_time_event(e) == [e EXCEPT !.tq = Tail(@)]

\* the longest that select may wait, the next timed event permitting
Timeout(e, long_timeout) ==
    LET left == E_sub_time(e.tq[1].t, e.now)
    IN  IF e.tq = <<>> THEN long_timeout
        ELSE IF left.sec < 0 THEN Time(0, 0) ELSE left

\* select left the set ready of descriptors; a negative timeout is an error of
\* select, which is told from a timeout by nothing
Selected(e, ready, failed) ==
    [e EXCEPT !.pc = "high", !.i = 2, !.j = 0, !.treated = FALSE, !.ready = ready,
              !.num = IF failed THEN -1 ELSE Cardinality(ready)]

\* the next descriptor of the priority whose handler is to be called
Next_ready(e) ==
    {k \in DOMAIN e.fds[e.i] : k > e.j /\ e.fds[e.i][k].fd \in e.ready}

High_due(e) == e.pc = "high" /\ e.num > 0 /\ Next_ready(e) # {}

Take_high(e) ==
    [e EXCEPT !.j = Min(Next_ready(e)), !.num = @ - 1, !.treated = TRUE]

\* on to the next priority, or to the low ones
End_of_priority(e) ==
    IF e.i - 1 > LOW_PRIORITY /\ e.num > 0 /\ ~e.treated THEN [e EXCEPT !.i = @ - 1, !.j = 0]
    ELSE [e EXCEPT !.pc = "low", !.first = @ /\ e.treated]

\* one descriptor of the low priority, round robin; the threshold may have gone up
Low_ready(e) ==
    LET q == e.fds[LOW_PRIORITY]
    IN  {k \in 0 .. Len(q) - 1 : q[((k + e.rr) % Len(q)) + 1].fd \in e.ready}

Low_due(e) == e.pc = "low" /\ e.num > 0 /\ e.thr = LOW_PRIORITY /\ Low_ready(e) # {}

Low_index(e) == (Min(Low_ready(e)) + e.rr) % Len(e.fds[LOW_PRIORITY])

Take_low(e) ==
    [e EXCEPT !.pc = "time", !.num = @ - 1, !.j = Low_index(e) + 1,
              !.rr = (Low_index(e) + 1) % Len(e.fds[LOW_PRIORITY])]

End_of_round(e) == [e EXCEPT !.pc = "time"]

=============================================================================
