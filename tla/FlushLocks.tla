---------------------------- MODULE FlushLocks ------------------------------
(***************************************************************************)
(* libspread/fl.c: how the threads of a process share the connections of   *)
(* the flush layer.  One mailbox, and the connections that it stands for   *)
(* one after the other, since a descriptor that is closed is used again.   *)
(* Every step takes one mutex, or is what happens after one is dropped; a  *)
(* mutex that a step takes and drops again is free between steps, so       *)
(* reserve_lock needs no holder, and conn_lock has one where a thread is   *)
(* at "call".  The calls of sp.c are steps that look the mailbox up: they  *)
(* find the session that has it then, of whichever connection that is.  A  *)
(* message is read in one step.                                            *)
(***************************************************************************)
EXTENDS Naturals, Sequences, FiniteSets

CONSTANTS Threads, Conns         \* Conns = 1 .. n
No == "no"

ASSUME LocksAssumption ==
    /\ IsFiniteSet(Threads) /\ No \notin Threads
    /\ Conns \subseteq Nat \ {0} /\ 1 \in Conns

VARIABLES
    glob_conns,  \* the connection the mailbox stands for, 0 if none
    glob_lock,   \* the holder of glob_conns_lock between two steps
    sess,        \* the connection whose session of sp.c has the mailbox, 0 if none
    fc,          \* the connections: fl_conn, and of its session whether the stream is
                 \* open (sp), its messages (mail) and SESS_ERROR (err)
    ft           \* the threads: calls left, place, connection, session read, return value

locks == <<glob_conns, glob_lock, sess, fc, ft>>

Fresh_conn == [made |-> FALSE, reservations |-> 0, disconnecting |-> FALSE, destroyed |-> FALSE,
               recv_lock |-> No, sp |-> FALSE, err |-> FALSE, mail |-> 0, woken |-> FALSE]
New_conn(n) == [Fresh_conn EXCEPT !.made = TRUE, !.sp = TRUE, !.mail = n]

\* every use of a connection is recorded, with the state it finds
Goes_to(t, pc)  == [ft EXCEPT ![t].pc = pc, ![t].bad = @ \/ fc[ft[t].c].destroyed]
Moves_to(t, pc) == [ft EXCEPT ![t].pc = pc]
Ends(t, r)  == [ft EXCEPT ![t].pc = "idle", ![t].prog = Tail(@), ![t].ret = r]
Calling_fl(t, ops) == ft[t].pc = "idle" /\ ft[t].prog # <<>> /\ Head(ft[t].prog) \in ops
At(t, pc) == ft[t].pc = pc
C(t) == fc[ft[t].c]
With(t, new) == fc' = [fc EXCEPT ![ft[t].c] = new]

\* the descriptor is free, and there is another connection for it
CanConnect == sess = 0 /\ \E c \in Conns : ~fc[c].made
\* FL_connect: a new connection, under the mailbox that Spread gives; a message may
\* come to it or not
FL_connect(t) ==
    /\ Calling_fl(t, {"connect"}) /\ glob_lock = No /\ CanConnect
    /\ \E c \in Conns, n \in 0 .. 1 :
          /\ ~fc[c].made /\ \A d \in 1 .. c - 1 : fc[d].made
          /\ fc' = [fc EXCEPT ![c] = New_conn(n)]
          /\ glob_conns' = c /\ sess' = c
    /\ ft' = Ends(t, "accepted") /\ UNCHANGED glob_lock

-----------------------------------------------------------------------------
(* make_reservation *)

\* mutant: the table is released before the connection is reserved
Find_conn_and_drop(t) ==
    /\ Calling_fl(t, {"call", "receive"}) /\ glob_lock = No
    /\ IF glob_conns = 0 THEN ft' = Moves_to(t, "disconnect")
       ELSE ft' = [ft EXCEPT ![t].pc = "reserve", ![t].c = glob_conns]
    /\ UNCHANGED <<glob_conns, sess, fc, glob_lock>>

Find_conn(t) ==
    /\ Calling_fl(t, {"call", "receive"}) /\ glob_lock = No
    /\ IF glob_conns = 0 THEN ft' = Moves_to(t, "disconnect") /\ UNCHANGED glob_lock
       ELSE ft' = [ft EXCEPT ![t].pc = "reserve", ![t].c = glob_conns] /\ glob_lock' = t
    /\ UNCHANGED <<glob_conns, sess, fc>>

\* the counter is raised under reserve_lock
Make_reservation(t) ==
    /\ At(t, "reserve")
    /\ With(t, [C(t) EXCEPT !.reservations = @ + IF C(t).disconnecting THEN 0 ELSE 1])
    /\ ft' = Goes_to(t, "reserved")
    /\ glob_lock' = IF glob_lock = t THEN No ELSE glob_lock
    /\ UNCHANGED <<glob_conns, sess>>

\* "return !conn->disconnecting ? conn : 0", read after reserve_lock is dropped
Reserved(t) ==
    /\ At(t, "reserved")
    /\ ft' = Goes_to(t, IF C(t).disconnecting THEN "disconnect"
                        ELSE IF Head(ft[t].prog) = "call" THEN "lock" ELSE "recvlock")
    /\ UNCHANGED <<glob_conns, glob_lock, sess, fc>>

\* cancel_reservation, and what the call does with an error after it
Cancel_reservation(t) ==
    /\ At(t, "cancel")
    /\ With(t, [C(t) EXCEPT !.reservations = @ - 1,
                            !.woken = @ \/ (C(t).reservations = 1 /\ C(t).disconnecting)])
    /\ ft' = IF ft[t].ret = "closed" THEN Goes_to(t, "disconnect") ELSE Ends(t, ft[t].ret)
    /\ UNCHANGED <<glob_conns, glob_lock, sess>>

-----------------------------------------------------------------------------
(* The calls *)

\* nobody holds conn_lock
Conn_unlocked(t) == \A u \in Threads : ~(At(u, "call") /\ ft[u].c = ft[t].c)

\* lock_conn of a multicast.  The other calls differ in that they do not go on to
\* FL_disconnect when the mailbox is not found or the connection is closing.
Lock_conn(t) ==
    /\ At(t, "lock") /\ Conn_unlocked(t)
    /\ ft' = IF C(t).disconnecting THEN [Goes_to(t, "cancel") EXCEPT ![t].ret = "closed"]
             ELSE Goes_to(t, "call")
    /\ UNCHANGED <<glob_conns, glob_lock, sess, fc>>

\* the call of sp.c, with conn_lock held: what is sent on a stream that is closed may
\* be lost, or found out, and then the session is in error
Sp_call(t) ==
    /\ At(t, "call")
    /\ \E r \in {"ok", "closed", "error"} :
          /\ CASE sess = 0      -> r = "closed"
               [] sess # 0 /\ fc[sess].err -> r = "error"
               [] sess # 0 /\ ~fc[sess].err -> r = "ok" \/ (r = "closed" /\ ~fc[sess].sp)
          /\ ft' = [Goes_to(t, "cancel") EXCEPT ![t].ret = r]
          /\ fc' = [c \in Conns |-> [fc[c] EXCEPT !.err = @ \/ (r = "closed" /\ c = sess)]]
    /\ UNCHANGED <<glob_conns, glob_lock, sess>>

\* FL_scat_receive: one thread at a time
Acquire_recv_lock(t) ==
    /\ At(t, "recvlock") /\ C(t).recv_lock = No
    /\ IF C(t).disconnecting
       THEN ft' = [Goes_to(t, "cancel") EXCEPT ![t].ret = "closed"] /\ UNCHANGED fc
       ELSE ft' = Goes_to(t, "look") /\ With(t, [C(t) EXCEPT !.recv_lock = t])
    /\ UNCHANGED <<glob_conns, glob_lock, sess>>

\* acquire_conn_lock, nothing is queued, recv_and_handle drops the lock again
Look_in_queue(t) ==
    /\ At(t, "look") /\ Conn_unlocked(t)
    /\ ft' = [Goes_to(t, IF C(t).disconnecting THEN "recvdone" ELSE "recv")
                 EXCEPT ![t].ret = IF C(t).disconnecting THEN "closed" ELSE "ok"]
    /\ UNCHANGED <<glob_conns, glob_lock, sess, fc>>

\* FL_int_receive: SP_scat_receive looks the mailbox up and takes the recv_mutex of
\* the session it finds.
Sp_lookup(t) ==
    /\ At(t, "recv")
    /\ \/ /\ sess = 0
          /\ ft' = [Goes_to(t, "recvdone") EXCEPT ![t].ret = "closed"]
       \/ /\ sess # 0 /\ fc[sess].err
          /\ ft' = [Goes_to(t, "recvdone") EXCEPT ![t].ret = "error"]
       \/ /\ sess # 0 /\ ~fc[sess].err /\ \A u \in Threads : ~At(u, "read")
          /\ ft' = [Goes_to(t, "read") EXCEPT ![t].s = sess]
    /\ UNCHANGED <<glob_conns, glob_lock, sess, fc>>

\* It returns a message, or that the stream is closed; then the session that has the
\* mailbox by now is in error.
Sp_receive(t) ==
    /\ At(t, "read")
    /\ \/ /\ fc[ft[t].s].mail > 0
          /\ ft' = Goes_to(t, "handle") /\ fc' = [fc EXCEPT ![ft[t].s].mail = @ - 1]
       \/ /\ ~fc[ft[t].s].sp
          /\ ft' = [Goes_to(t, "recvdone") EXCEPT ![t].ret = "closed"]
          /\ fc' = [c \in Conns |-> [fc[c] EXCEPT !.err = @ \/ c = sess]]
    /\ UNCHANGED <<glob_conns, glob_lock, sess>>

\* acquire_conn_lock again; the message is for the user, or lost
Handle(t) ==
    /\ At(t, "handle") /\ Conn_unlocked(t)
    /\ ft' = [Goes_to(t, "recvdone") EXCEPT ![t].ret = IF C(t).disconnecting THEN "closed" ELSE "ok"]
    /\ UNCHANGED <<glob_conns, glob_lock, sess, fc>>

Release_recv_lock(t) ==
    /\ At(t, "recvdone")
    /\ ft' = Goes_to(t, "cancel") /\ With(t, [C(t) EXCEPT !.recv_lock = No])
    /\ UNCHANGED <<glob_conns, glob_lock, sess>>

-----------------------------------------------------------------------------
(* FL_disconnect, called by the user or by a call that failed *)

Unmap(t) ==
    /\ Calling_fl(t, {"disconnect"}) \/ At(t, "disconnect")
    /\ glob_lock = No
    /\ IF glob_conns = 0 THEN ft' = Ends(t, "illegal") /\ UNCHANGED glob_conns
       ELSE ft' = [ft EXCEPT ![t].pc = "close", ![t].c = glob_conns] /\ glob_conns' = 0
    /\ UNCHANGED <<glob_lock, sess, fc>>

\* under reserve_lock; SP_disconnect closes the stream of the mailbox, and so wakes
\* the thread that reads it
Close_conn(t) ==
    /\ At(t, "close")
    /\ fc' = [c \in Conns |-> [fc[c] EXCEPT !.disconnecting = @ \/ c = ft[t].c,
                                            !.sp = @ /\ c # sess]]
    /\ sess' = 0
    /\ ft' = Goes_to(t, IF C(t).reservations # 0 THEN "wait" ELSE "destroy")
    /\ UNCHANGED <<glob_conns, glob_lock>>

Wakes(t) ==
    /\ At(t, "wait") /\ C(t).woken
    /\ ft' = Goes_to(t, "destroy") /\ UNCHANGED <<glob_conns, glob_lock, sess, fc>>

Destroy(t) ==
    /\ At(t, "destroy")
    /\ With(t, [C(t) EXCEPT !.destroyed = TRUE])
    /\ ft' = Ends(t, "ok") /\ UNCHANGED <<glob_conns, glob_lock, sess>>

\* the daemon closes the first connection
CanClose(c) == c = 1 /\ fc[c].sp
Daemon_closes(c) ==
    /\ CanClose(c)
    /\ fc' = [fc EXCEPT ![c].sp = FALSE]
    /\ UNCHANGED <<glob_conns, glob_lock, sess, ft>>

ThreadStep(t) == \/ FL_connect(t) \/ Find_conn(t) \/ Make_reservation(t) \/ Reserved(t)
                 \/ Cancel_reservation(t) \/ Lock_conn(t) \/ Sp_call(t)
                 \/ Acquire_recv_lock(t) \/ Look_in_queue(t) \/ Sp_lookup(t) \/ Sp_receive(t)
                 \/ Handle(t) \/ Release_recv_lock(t)
                 \/ Unmap(t) \/ Close_conn(t) \/ Wakes(t) \/ Destroy(t)

LocksNext == (\E t \in Threads : ThreadStep(t)) \/ \E c \in Conns : Daemon_closes(c)

\* one connection is there; the programs of the threads
LocksInit(programs) ==
    /\ glob_conns = 1 /\ glob_lock = No /\ sess = 1
    /\ fc = [c \in Conns |-> IF c = 1 THEN New_conn(1) ELSE Fresh_conn]
    /\ \E p \in programs : ft = [t \in Threads |->
           [prog |-> p[t], pc |-> "idle", c |-> 1, s |-> 1, ret |-> "ok", bad |-> FALSE]]
=============================================================================
