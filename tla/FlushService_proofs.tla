------------------------ MODULE FlushService_proofs ------------------------
(***************************************************************************)
(* The threads of a process and the connections of the flush layer: for    *)
(* any number of threads, connections and calls, no thread uses a          *)
(* connection that FL_disconnect has reclaimed.                            *)
(***************************************************************************)
EXTENDS FlushService, FiniteSetTheorems, TLAPS

----------------------------------------------------------------------------
(* The inductive invariant.                                                *)

Ops     == {"call", "receive", "disconnect", "connect"}
HoldPCs == {"reserved", "lock", "call", "recvlock", "look", "recv", "read", "handle",
            "recvdone", "cancel"}
Outcomes == {"ok", "closed", "error", "illegal", "accepted"}
ClosePCs == {"close", "wait", "destroy"}
PCs     == {"idle", "reserve", "disconnect"} \cup HoldPCs \cup ClosePCs

ConnRecords == [made : BOOLEAN, reservations : Nat, disconnecting : BOOLEAN,
                destroyed : BOOLEAN, recv_lock : Threads \cup {No}, sp : BOOLEAN,
                err : BOOLEAN, mail : Nat, woken : BOOLEAN]
\* a thread in a call has it as the first of the calls left
ThreadRecords ==
    {x \in [prog : Seq(Ops), pc : PCs, c : Conns, s : Conns,
            ret : Outcomes, bad : BOOLEAN] :
        x.pc # "idle" => x.prog # <<>>}

LocksType ==
    /\ glob_conns \in Conns \cup {0} /\ glob_lock \in Threads \cup {No}
    /\ sess \in Conns \cup {0}
    /\ fc \in [Conns -> ConnRecords]
    /\ ft \in [Threads -> ThreadRecords]

\* the threads with a reservation of c, and those that reclaim it
Holders(c) == {t \in Threads : Holds(t, c)}
Closers(c) == {t \in Threads : ft[t].c = c /\ ft[t].pc \in ClosePCs}

\* Who is about to reserve has the table locked, and the table has its connection.
TableLocked ==
    \A t \in Threads : ft[t].pc = "reserve" => glob_lock = t /\ ft[t].c = glob_conns

\* A connection in the table is there, and nobody is closing it.
TableLive ==
    glob_conns # 0 => /\ fc[glob_conns].made /\ ~fc[glob_conns].disconnecting
                      /\ Closers(glob_conns) = {}

\* The counter is never below the number of threads that have a reservation (it is
\* above where make_reservation found the connection closing and leaked one).
Counted == \A c \in Conns : Cardinality(Holders(c)) <= fc[c].reservations

\* Who wakes up the closing thread was the last.
WokenLast == \A c \in Conns : fc[c].woken => fc[c].disconnecting /\ Holders(c) = {}

\* One thread reclaims a connection, and only when nobody has a reservation.
OneCloser ==
    \A c \in Conns, t \in Threads : t \in Closers(c) =>
        /\ fc[c].made /\ ~fc[c].destroyed /\ Closers(c) = {t}
        /\ ft[t].pc # "close" => fc[c].disconnecting
        /\ ft[t].pc = "destroy" => Holders(c) = {}

\* What is reclaimed, or not there yet, is nobody's.
Unused ==
    \A c \in Conns : fc[c].destroyed \/ ~fc[c].made =>
        /\ fc[c].made => fc[c].disconnecting
        /\ ~fc[c].made => ~fc[c].destroyed
        /\ Holders(c) = {} /\ Closers(c) = {}

LocksInv == /\ LocksType /\ TableLocked /\ TableLive /\ Counted /\ WokenLast
            /\ OneCloser /\ Unused /\ NoUseAfterFree

----------------------------------------------------------------------------
(* Facts about threads.                                                    *)

\* Threads can be counted, and fewer threads count less.
LEMMA ThreadSets ==
    ASSUME NEW S \in SUBSET Threads, NEW T \in SUBSET Threads
    PROVE  /\ Cardinality(S) \in Nat
           /\ S \subseteq T => Cardinality(S) <= Cardinality(T)
           /\ Cardinality(S) = 0 => S = {}
           /\ \A t \in S : Cardinality(S \ {t}) = Cardinality(S) - 1
           /\ \A t \in Threads \ S : Cardinality(S \cup {t}) = Cardinality(S) + 1
  <1>1. IsFiniteSet(S) /\ IsFiniteSet(T)
    BY LocksAssumption, FS_Subset
  <1>2. Cardinality(S) \in Nat
    BY <1>1, FS_CardinalityType
  <1>3. S \subseteq T => Cardinality(S) <= Cardinality(T)
    BY <1>1, FS_Subset
  <1>4. Cardinality(S) = 0 => S = {}
    BY <1>1, FS_EmptySet
  <1>5. \A t \in S : Cardinality(S \ {t}) = Cardinality(S) - 1
    BY <1>1, FS_RemoveElement
  <1>6. \A t \in Threads \ S : Cardinality(S \cup {t}) = Cardinality(S) + 1
    BY <1>1, FS_AddElement
  <1> QED
    BY <1>2, <1>3, <1>4, <1>5, <1>6

\* A thread with a reservation finds its connection there, and so does one that is
\* about to reserve or that reclaims it.
LEMMA InUse ==
    ASSUME LocksInv, NEW t \in Threads,
           ft[t].pc \in HoldPCs \cup ClosePCs \cup {"reserve"}
    PROVE  fc[ft[t].c].made /\ ~fc[ft[t].c].destroyed
  <1> DEFINE c == ft[t].c
  <1>1. c \in Conns
    BY DEF LocksInv, LocksType, ThreadRecords
  <1>2. CASE ft[t].pc \in HoldPCs
    BY <1>1, <1>2 DEF LocksInv, Unused, Holders, Holds, HoldPCs
  <1>3. CASE ft[t].pc \in ClosePCs
    BY <1>1, <1>3 DEF LocksInv, Unused, Closers
  <1>4. CASE ft[t].pc = "reserve"
    <2>1. c = glob_conns /\ glob_conns # 0
      BY <1>1, <1>4, LocksAssumption DEF LocksInv, TableLocked
    <2> QED
      BY <1>1, <2>1 DEF LocksInv, TableLive, Unused, LocksType, ConnRecords
  <1> QED
    BY <1>2, <1>3, <1>4

----------------------------------------------------------------------------
(* What a step of a thread may do to the invariant.                        *)

\* What the invariant says of a connection, besides the threads that use it.
SameConn(c) ==
    /\ fc'[c].made = fc[c].made /\ fc'[c].reservations = fc[c].reservations
    /\ fc'[c].disconnecting = fc[c].disconnecting
    /\ fc'[c].destroyed = fc[c].destroyed /\ fc'[c].woken = fc[c].woken

\* A thread goes on with a reservation it has, or without one.
LEMMA ThreadMoves ==
    ASSUME LocksInv, NEW t \in Threads, ft[t].pc \notin ClosePCs \cup {"reserve"},
           UNCHANGED <<glob_conns, glob_lock, sess>>,
           NEW x \in ThreadRecords, ft' = [ft EXCEPT ![t] = x],
           x.pc \notin ClosePCs \cup {"reserve"}, ~x.bad,
           x.pc \in HoldPCs => ft[t].pc \in HoldPCs /\ x.c = ft[t].c,
           fc' \in [Conns -> ConnRecords], \A c \in Conns : SameConn(c)
    PROVE  LocksInv'
  <1> USE DEF LocksInv
  <1>1. LocksType'
    BY DEF LocksType
  <1>2. \A c \in Conns : Holders(c)' \subseteq Holders(c) /\ Closers(c)' = Closers(c)
    BY DEF Holders, Holds, Closers, HoldPCs, ClosePCs, LocksType
  <1>3. \A u \in Threads : ft'[u].pc \in ClosePCs \cup {"reserve"} =>
                             ft'[u] = ft[u]
    BY DEF HoldPCs, ClosePCs, LocksType
  <1>4. TableLocked'
    BY <1>3 DEF TableLocked
  <1>5. TableLive'
    BY <1>2 DEF TableLive, SameConn, LocksType
  <1>6. Counted'
    <2> SUFFICES ASSUME NEW c \in Conns
                 PROVE  Cardinality(Holders(c)') <= fc'[c].reservations
      BY DEF Counted
    <2>1. Holders(c)' \subseteq Threads /\ Holders(c) \subseteq Threads
      BY DEF Holders
    <2>2. Cardinality(Holders(c)') <= Cardinality(Holders(c))
          /\ Cardinality(Holders(c)') \in Nat /\ Cardinality(Holders(c)) \in Nat
      BY <1>2, <2>1, ThreadSets
    <2>3. fc[c].reservations \in Nat
      BY DEF LocksType, ConnRecords
    <2> QED
      BY <2>2, <2>3 DEF Counted, SameConn
  <1>7. WokenLast'
    BY <1>2 DEF WokenLast, SameConn
  <1>8. OneCloser'
    <2> SUFFICES ASSUME NEW c \in Conns, NEW u \in Threads, u \in Closers(c)'
                 PROVE  /\ fc'[c].made /\ ~fc'[c].destroyed /\ Closers(c)' = {u}
                        /\ ft'[u].pc # "close" => fc'[c].disconnecting
                        /\ ft'[u].pc = "destroy" => Holders(c)' = {}
      BY DEF OneCloser
    <2>1. u \in Closers(c) /\ ft'[u] = ft[u]
      BY <1>2, <1>3 DEF Closers
    <2> QED
      BY <1>2, <2>1 DEF OneCloser, SameConn
  <1>9. Unused'
    BY <1>2 DEF Unused, SameConn
  <1>10. NoUseAfterFree'
    BY DEF NoUseAfterFree, LocksType
  <1> QED
    BY <1>1, <1>4, <1>5, <1>6, <1>7, <1>8, <1>9, <1>10

\* The other threads stay where they are.
LEMMA OthersStay ==
    ASSUME LocksType, NEW t \in Threads, NEW x \in ThreadRecords, ft' = [ft EXCEPT ![t] = x]
    PROVE  /\ ft' \in [Threads -> ThreadRecords] /\ ft'[t] = x
           /\ \A u \in Threads \ {t} : ft'[u] = ft[u]
  BY DEF LocksType

\* The holders of a connection after a thread has moved.
LEMMA HoldersMove ==
    ASSUME LocksType, NEW t \in Threads, NEW x \in ThreadRecords, ft' = [ft EXCEPT ![t] = x],
           NEW c \in Conns
    PROVE  /\ Holders(c) \subseteq Threads
           /\ x.c = c /\ x.pc \in HoldPCs => Holders(c)' = Holders(c) \cup {t}
           /\ x.c # c \/ x.pc \notin HoldPCs => Holders(c)' = Holders(c) \ {t}
           /\ (x.c # c \/ x.pc \notin HoldPCs) /\ (ft[t].c # c \/ ft[t].pc \notin HoldPCs) =>
                Holders(c)' = Holders(c)
           /\ t \in Holders(c) <=> ft[t].c = c /\ ft[t].pc \in HoldPCs
  BY DEF LocksType, Holders, Holds, HoldPCs

\* The threads that reclaim a connection after a thread has moved.
LEMMA ClosersMove ==
    ASSUME LocksType, NEW t \in Threads, NEW x \in ThreadRecords, ft' = [ft EXCEPT ![t] = x],
           NEW c \in Conns
    PROVE  /\ Closers(c) \subseteq Threads
           /\ x.c = c /\ x.pc \in ClosePCs => Closers(c)' = Closers(c) \cup {t}
           /\ x.c # c \/ x.pc \notin ClosePCs => Closers(c)' = Closers(c) \ {t}
           /\ (x.c # c \/ x.pc \notin ClosePCs) /\ (ft[t].c # c \/ ft[t].pc \notin ClosePCs) =>
                Closers(c)' = Closers(c)
           /\ t \in Closers(c) <=> ft[t].c = c /\ ft[t].pc \in ClosePCs
  BY DEF LocksType, Closers, ClosePCs

\* make_reservation, first half: the table is locked.
LEMMA InvFindConn ==
    ASSUME LocksInv, NEW t \in Threads, Find_conn(t)
    PROVE  LocksInv'
  <1> USE DEF LocksInv
  <1>0. ft[t].pc = "idle" /\ ft[t].prog # <<>> /\ glob_lock = No /\ ft[t] \in ThreadRecords
        /\ ~ft[t].bad
    BY DEF Find_conn, Calling_fl, LocksType, NoUseAfterFree
  <1>1. CASE glob_conns = 0
    <2> DEFINE x == [ft[t] EXCEPT !.pc = "disconnect"]
    <2>1. x \in ThreadRecords /\ x.pc = "disconnect" /\ x.bad = ft[t].bad
      BY <1>0 DEF ThreadRecords, PCs
    <2>2. ft' = [ft EXCEPT ![t] = x] /\ UNCHANGED <<glob_conns, glob_lock, sess, fc>>
      BY <1>1 DEF Find_conn, Moves_to, LocksType
    <2>3. \A c \in Conns : SameConn(c)
      BY <2>2 DEF SameConn
    <2>4. fc' \in [Conns -> ConnRecords]
      BY <2>2 DEF LocksType
    <2> HIDE DEF x, LocksInv
    <2> QED
      BY <1>0, <2>1, <2>2, <2>3, <2>4, ThreadMoves DEF ClosePCs, HoldPCs
  <1>2. CASE glob_conns # 0
    <2> DEFINE x == [ft[t] EXCEPT !.pc = "reserve", !.c = glob_conns]
    <2>1. x \in ThreadRecords /\ x.pc = "reserve" /\ x.c = glob_conns /\ x.bad = ft[t].bad
      BY <1>0, <1>2 DEF ThreadRecords, PCs, LocksType
    <2>2. ft' = [ft EXCEPT ![t] = x] /\ glob_lock' = t /\ UNCHANGED <<glob_conns, sess, fc>>
      BY <1>2 DEF Find_conn, LocksType
    <2> HIDE DEF x
    <2>3. /\ ft' \in [Threads -> ThreadRecords] /\ ft'[t] = x
          /\ \A u \in Threads \ {t} : ft'[u] = ft[u]
          /\ \A c \in Conns : Holders(c)' = Holders(c) /\ Closers(c)' = Closers(c)
      <3>0. LocksType
        OBVIOUS
      <3>1. /\ ft' \in [Threads -> ThreadRecords] /\ ft'[t] = x
            /\ \A u \in Threads \ {t} : ft'[u] = ft[u]
        BY <3>0, <2>1, <2>2, OthersStay
      <3>2. ASSUME NEW c \in Conns PROVE Holders(c)' = Holders(c)
        BY <3>0, <1>0, <2>1, <2>2, HoldersMove DEF HoldPCs
      <3>3. ASSUME NEW c \in Conns PROVE Closers(c)' = Closers(c)
        BY <3>0, <1>0, <2>1, <2>2, ClosersMove DEF ClosePCs
      <3> QED
        BY <3>1, <3>2, <3>3
    <2>4. LocksType'
      BY <2>2, <2>3 DEF LocksType
    <2>5. TableLocked'
      BY <1>0, <2>1, <2>2, <2>3, LocksAssumption DEF TableLocked
    <2>6. TableLive' /\ Counted' /\ WokenLast' /\ Unused'
      BY <2>2, <2>3 DEF TableLive, Counted, WokenLast, Unused, LocksType
    <2>7. OneCloser'
      BY <1>0, <2>1, <2>2, <2>3 DEF OneCloser, Closers, ClosePCs
    <2>8. NoUseAfterFree'
      BY <1>0, <2>1, <2>3 DEF NoUseAfterFree
    <2> QED
      BY <2>4, <2>5, <2>6, <2>7, <2>8
  <1> QED
    BY <1>1, <1>2

\* make_reservation, second half: the connection is not closing, so the counter
\* goes up with the number of holders.
LEMMA InvMakeReservation ==
    ASSUME LocksInv, NEW t \in Threads, Make_reservation(t)
    PROVE  LocksInv'
  <1>k0. PICK k \in Conns : k = ft[t].c
    BY DEF LocksInv, LocksType, ThreadRecords
  <1> DEFINE x == [ft[t] EXCEPT !.pc = "reserved"]
             y == [fc[k] EXCEPT !.reservations = @ + 1]
  <1>0. ft[t].pc = "reserve" /\ ft[t] \in ThreadRecords /\ ~ft[t].bad /\ k \in Conns
        /\ glob_lock = t /\ k = glob_conns /\ fc[k] \in ConnRecords
    BY <1>k0 DEF LocksInv, Make_reservation, At, LocksType, ThreadRecords, NoUseAfterFree, TableLocked
  <1>1. fc[k].made /\ ~fc[k].disconnecting /\ ~fc[k].destroyed /\ Closers(k) = {}
    <2>1. glob_conns # 0
      BY <1>0, LocksAssumption
    <2>2. ~fc[k].destroyed
      BY <1>k0, <1>0, InUse
    <2> QED
      BY <1>0, <2>1, <2>2 DEF LocksInv, TableLive
  <1>2. x \in ThreadRecords /\ x.pc = "reserved" /\ x.c = k /\ x.bad = ft[t].bad
    BY <1>k0, <1>0 DEF ThreadRecords, PCs, HoldPCs
  <1>3. y \in ConnRecords /\ y.reservations = fc[k].reservations + 1 /\ y.made = fc[k].made
        /\ y.disconnecting = fc[k].disconnecting /\ y.destroyed = fc[k].destroyed
        /\ y.woken = fc[k].woken
    BY <1>0 DEF ConnRecords
  <1>4. ft' = [ft EXCEPT ![t] = x]
    BY <1>k0, <1>0, <1>1 DEF Make_reservation, Goes_to, LocksInv, LocksType, ThreadRecords
  <1>5. fc' = [fc EXCEPT ![k] = y] /\ glob_lock' = No /\ glob_conns' = glob_conns
        /\ sess' = sess
    BY <1>k0, <1>0, <1>1 DEF Make_reservation, With, C
  <1> HIDE DEF x, y
  <1>a. /\ LocksType /\ TableLocked /\ TableLive /\ Counted /\ WokenLast
        /\ OneCloser /\ Unused /\ NoUseAfterFree
    BY DEF LocksInv
  <1>6. /\ ft' \in [Threads -> ThreadRecords] /\ ft'[t] = x
        /\ \A u \in Threads \ {t} : ft'[u] = ft[u]
    BY <1>a, <1>2, <1>4, OthersStay
  <1>h. ASSUME NEW c \in Conns
        PROVE  /\ c # k => Holders(c)' = Holders(c)
               /\ c = k => Holders(c)' = Holders(c) \cup {t} /\ t \notin Holders(c)
               /\ Holders(c) \subseteq Threads
    BY <1>a, <1>k0, <1>0, <1>2, <1>4, HoldersMove DEF HoldPCs
  <1>k. Holders(k)' = Holders(k) \cup {t} /\ t \in Threads \ Holders(k)
        /\ Holders(k) \in SUBSET Threads
    BY <1>0, <1>h
  <1>c. \A c \in Conns : Closers(c)' = Closers(c)
    BY <1>a, <1>0, <1>2, <1>4, ClosersMove DEF ClosePCs
  <1>7. /\ fc' \in [Conns -> ConnRecords] /\ fc'[k] = y
        /\ \A c \in Conns \ {k} : fc'[c] = fc[c]
    BY <1>a, <1>0, <1>3, <1>5 DEF LocksType
  <1>8. LocksType'
    BY <1>a, <1>5, <1>6, <1>7 DEF LocksType
  <1>9. TableLocked'
    BY <1>a, <1>0, <1>2, <1>5, <1>6 DEF TableLocked
  <1>10. TableLive'
    BY <1>a, <1>0, <1>1, <1>3, <1>5, <1>c, <1>7 DEF TableLive
  <1>11. Counted'
    <2>1. Cardinality(Holders(k)') = Cardinality(Holders(k)) + 1
          /\ Cardinality(Holders(k)) \in Nat
      BY <1>k, ThreadSets
    <2>2. Cardinality(Holders(k)) <= fc[k].reservations /\ fc[k].reservations \in Nat
      BY <1>a, <1>0 DEF Counted, ConnRecords
    <2>3. Cardinality(Holders(k)') <= fc'[k].reservations
      BY <1>3, <1>7, <2>1, <2>2
    <2> QED
      BY <1>a, <1>h, <1>7, <2>3 DEF Counted
  <1>12. WokenLast'
    BY <1>a, <1>0, <1>1, <1>3, <1>h, <1>7 DEF WokenLast
  <1>u. Unused'
    BY <1>a, <1>0, <1>1, <1>3, <1>h, <1>c, <1>7 DEF Unused
  <1>13. OneCloser'
    <2> SUFFICES ASSUME NEW c \in Conns, NEW u \in Threads, u \in Closers(c)'
                 PROVE  /\ fc'[c].made /\ ~fc'[c].destroyed /\ Closers(c)' = {u}
                        /\ ft'[u].pc # "close" => fc'[c].disconnecting
                        /\ ft'[u].pc = "destroy" => Holders(c)' = {}
      BY DEF OneCloser
    <2>1. u \in Closers(c) /\ c # k /\ u # t
      BY <1>0, <1>1, <1>c DEF Closers, ClosePCs
    <2> QED
      BY <1>a, <1>6, <1>h, <1>c, <1>7, <2>1 DEF OneCloser
  <1>14. NoUseAfterFree'
    BY <1>a, <1>0, <1>2, <1>6 DEF NoUseAfterFree
  <1> QED
    BY <1>8, <1>9, <1>10, <1>11, <1>12, <1>u, <1>13, <1>14 DEF LocksInv

\* A thread with a reservation goes on to the next step of its call, or gives the
\* call up; it finds its connection where it was.
LEMMA Continues ==
    ASSUME LocksInv, NEW t \in Threads, ft[t].pc \in HoldPCs,
           NEW p \in HoldPCs \cup {"disconnect"}, NEW r \in Outcomes,
           ft' = [Goes_to(t, p) EXCEPT ![t].ret = r],
           UNCHANGED <<glob_conns, glob_lock, sess>>,
           fc' \in [Conns -> ConnRecords], \A c \in Conns : SameConn(c)
    PROVE  LocksInv'
  <1> DEFINE x == [ft[t] EXCEPT !.pc = p, !.ret = r]
  <1>1. ft[t] \in ThreadRecords /\ ~ft[t].bad /\ ft \in [Threads -> ThreadRecords]
    BY DEF LocksInv, LocksType, NoUseAfterFree
  <1>2. ~fc[ft[t].c].destroyed
    BY InUse
  <1>3. x \in ThreadRecords /\ x.pc = p /\ x.c = ft[t].c /\ ~x.bad
    <2>1. ft[t].pc # "idle" /\ p \in PCs
      BY DEF HoldPCs, PCs
    <2> QED
      BY <1>1, <2>1 DEF ThreadRecords
  <1>4. ft' = [ft EXCEPT ![t] = x]
    BY <1>1, <1>2 DEF Goes_to, ThreadRecords
  <1>5. ft[t].pc \notin ClosePCs \cup {"reserve"} /\ p \notin ClosePCs \cup {"reserve"}
    BY DEF HoldPCs, ClosePCs
  <1> HIDE DEF x
  <1> QED
    BY <1>3, <1>4, <1>5, ThreadMoves

\* The steps of a call that change nothing but the place of the thread.
LEMMA InvCall ==
    ASSUME LocksInv, NEW t \in Threads,
           Reserved(t) \/ Lock_conn(t) \/ Look_in_queue(t) \/ Handle(t)
    PROVE  LocksInv'
  <1>0. /\ ft \in [Threads -> ThreadRecords] /\ fc \in [Conns -> ConnRecords]
        /\ ft[t].ret \in Outcomes
    BY DEF LocksInv, LocksType, ThreadRecords
  <1>1. /\ UNCHANGED <<glob_conns, glob_lock, sess>> /\ fc' \in [Conns -> ConnRecords]
        /\ \A c \in Conns : SameConn(c)
    BY <1>0 DEF SameConn, Reserved, Lock_conn, Look_in_queue, Handle
  <1>2. ft[t].pc \in HoldPCs
    BY DEF HoldPCs, At, Reserved, Lock_conn, Look_in_queue, Handle
  <1>3. ASSUME NEW p, ft' = Goes_to(t, p)
        PROVE  ft' = [Goes_to(t, p) EXCEPT ![t].ret = ft[t].ret]
    BY <1>0, <1>3 DEF Goes_to, ThreadRecords
  <1>4. PICK p \in HoldPCs \cup {"disconnect"}, r \in Outcomes :
          ft' = [Goes_to(t, p) EXCEPT ![t].ret = r]
    <2>1. CASE Reserved(t)
      <3>1. PICK p \in HoldPCs \cup {"disconnect"} : ft' = Goes_to(t, p)
        BY <2>1 DEF Reserved, HoldPCs
      <3> QED
        BY <1>0, <1>3, <3>1
    <2>2. CASE Lock_conn(t)
      <3>1. CASE C(t).disconnecting
        BY <2>2, <3>1 DEF Lock_conn, HoldPCs, Outcomes
      <3>2. CASE ~C(t).disconnecting
        <4>1. ft' = Goes_to(t, "call") /\ "call" \in HoldPCs
          BY <2>2, <3>2 DEF Lock_conn, HoldPCs
        <4> QED
          BY <1>0, <1>3, <4>1
      <3> QED
        BY <3>1, <3>2
    <2>3. CASE Look_in_queue(t)
      BY <2>3 DEF Look_in_queue, HoldPCs, Outcomes
    <2>4. CASE Handle(t)
      BY <2>4 DEF Handle, HoldPCs, Outcomes
    <2> QED
      BY <2>1, <2>2, <2>3, <2>4
  <1> QED
    BY <1>1, <1>2, <1>4, Continues

\* The session that is found in error is no part of what the invariant says.
LEMMA ErrorOnly ==
    ASSUME LocksInv, NEW S, fc' = [c \in Conns |-> [fc[c] EXCEPT !.err = @ \/ c \in S]]
    PROVE  fc' \in [Conns -> ConnRecords] /\ \A c \in Conns : SameConn(c)
  <1>1. ASSUME NEW c \in Conns
        PROVE  /\ fc[c] \in ConnRecords
               /\ [fc[c] EXCEPT !.err = @ \/ c \in S] \in ConnRecords
               /\ SameConn(c)
    <2>1. fc[c] \in ConnRecords
      BY DEF LocksInv, LocksType
    <2>2. fc'[c] = [fc[c] EXCEPT !.err = @ \/ c \in S]
      OBVIOUS
    <2> QED
      BY <2>1, <2>2 DEF ConnRecords, SameConn
  <1> QED
    BY <1>1

\* The call of sp.c.
LEMMA InvSpCall ==
    ASSUME LocksInv, NEW t \in Threads, Sp_call(t)
    PROVE  LocksInv'
  <1>1. PICK r \in {"ok", "closed", "error"} :
          /\ ft' = [Goes_to(t, "cancel") EXCEPT ![t].ret = r]
          /\ fc' = [c \in Conns |-> [fc[c] EXCEPT !.err = @ \/ (r = "closed" /\ c = sess)]]
    BY DEF Sp_call
  <1> DEFINE S == {c \in Conns : r = "closed" /\ c = sess}
  <1>2. fc' = [c \in Conns |-> [fc[c] EXCEPT !.err = @ \/ c \in S]]
    BY <1>1
  <1> HIDE DEF S
  <1>3. fc' \in [Conns -> ConnRecords] /\ \A c \in Conns : SameConn(c)
    BY <1>2, ErrorOnly
  <1>4. /\ UNCHANGED <<glob_conns, glob_lock, sess>> /\ ft[t].pc \in HoldPCs
        /\ "cancel" \in HoldPCs /\ r \in Outcomes
    BY DEF Sp_call, At, HoldPCs, Outcomes
  <1> QED
    BY <1>1, <1>3, <1>4, Continues

\* A receive looks the mailbox up and takes the recv_mutex of the session there.
LEMMA InvLookup ==
    ASSUME LocksInv, NEW t \in Threads, Sp_lookup(t)
    PROVE  LocksInv'
  <1>0. /\ ft[t].pc = "recv" /\ UNCHANGED <<glob_conns, glob_lock, sess, fc>>
        /\ ft \in [Threads -> ThreadRecords] /\ ft[t] \in ThreadRecords /\ ~ft[t].bad
        /\ sess \in Conns \cup {0}
    BY DEF Sp_lookup, At, LocksInv, LocksType, NoUseAfterFree
  <1>1. fc' \in [Conns -> ConnRecords] /\ \A c \in Conns : SameConn(c)
    BY <1>0 DEF LocksInv, LocksType, SameConn
  <1>2. ASSUME NEW r \in Outcomes, ft' = [Goes_to(t, "recvdone") EXCEPT ![t].ret = r]
        PROVE  LocksInv'
    <2>1. ft[t].pc \in HoldPCs /\ "recvdone" \in HoldPCs
      BY <1>0 DEF HoldPCs
    <2> QED
      BY <1>0, <1>1, <1>2, <2>1, Continues
  <1>3. ASSUME sess # 0, ft' = [Goes_to(t, "read") EXCEPT ![t].s = sess]
        PROVE  LocksInv'
    <2>1. ~fc[ft[t].c].destroyed
      BY <1>0, InUse DEF HoldPCs
    <2> DEFINE x == [ft[t] EXCEPT !.pc = "read", !.s = sess]
    <2>2. ft' = [ft EXCEPT ![t] = x]
      BY <1>0, <1>3, <2>1 DEF Goes_to, ThreadRecords
    <2>3. x \in ThreadRecords /\ x.pc = "read" /\ x.c = ft[t].c /\ ~x.bad
      BY <1>0, <1>3 DEF ThreadRecords, PCs, HoldPCs
    <2> HIDE DEF x
    <2>4. ft[t].pc \notin ClosePCs \cup {"reserve"} /\ x.pc \notin ClosePCs \cup {"reserve"}
          /\ ft[t].pc \in HoldPCs
      BY <1>0, <2>3 DEF HoldPCs, ClosePCs
    <2> QED
      BY <1>0, <1>1, <2>2, <2>3, <2>4, ThreadMoves
  <1> QED
    BY <1>2, <1>3 DEF Sp_lookup, Outcomes

\* The steps of a call that take and drop recv_lock, or take a message.
LEMMA InvReceive ==
    ASSUME LocksInv, NEW t \in Threads,
           Acquire_recv_lock(t) \/ Sp_receive(t) \/ Release_recv_lock(t)
    PROVE  LocksInv'
  <1>0. /\ ft \in [Threads -> ThreadRecords] /\ fc \in [Conns -> ConnRecords]
        /\ ft[t].c \in Conns /\ ft[t].s \in Conns /\ C(t) \in ConnRecords
        /\ ft[t].ret \in Outcomes
    BY DEF LocksInv, LocksType, ThreadRecords, C
  <1>1. UNCHANGED <<glob_conns, glob_lock, sess>>
    BY DEF Acquire_recv_lock, Sp_receive, Release_recv_lock
  <1>2. ft[t].pc \in HoldPCs
    BY DEF HoldPCs, At, Acquire_recv_lock, Sp_receive, Release_recv_lock
  <1>3. /\ fc' \in [Conns -> ConnRecords] /\ \A c \in Conns : SameConn(c)
    <2>1. CASE fc' = fc
      BY <1>0, <2>1 DEF SameConn
    <2>2. CASE With(t, [C(t) EXCEPT !.recv_lock = t]) \/ With(t, [C(t) EXCEPT !.recv_lock = No])
      BY <1>0, <2>2 DEF With, SameConn, C, ConnRecords
    <2>3. CASE Sp_receive(t)
      <3>1. PICK k \in Conns : k = ft[t].s
        BY <1>0
      <3>2. CASE fc[k].mail > 0 /\ fc' = [fc EXCEPT ![k].mail = @ - 1]
        <4>1. fc[k].mail \in Nat /\ fc[k].mail - 1 \in Nat
          BY <1>0, <3>2 DEF ConnRecords
        <4> QED
          BY <1>0, <3>2, <4>1 DEF SameConn, ConnRecords
      <3>3. CASE fc' = [c \in Conns |-> [fc[c] EXCEPT !.err = @ \/ c = sess]]
        <4>1. fc' = [c \in Conns |-> [fc[c] EXCEPT !.err = @ \/ c \in {sess}]]
          BY <3>3
        <4> QED
          BY <4>1, ErrorOnly
      <3> QED
        BY <2>3, <3>1, <3>2, <3>3 DEF Sp_receive
    <2> QED
      BY <2>1, <2>2, <2>3 DEF Acquire_recv_lock, Release_recv_lock
  <1>4. ASSUME NEW p, ft' = Goes_to(t, p)
        PROVE  ft' = [Goes_to(t, p) EXCEPT ![t].ret = ft[t].ret]
    BY <1>0, <1>4 DEF Goes_to, ThreadRecords
  <1>5. PICK p \in HoldPCs \cup {"disconnect"}, r \in Outcomes :
          ft' = [Goes_to(t, p) EXCEPT ![t].ret = r]
    <2>1. CASE Acquire_recv_lock(t)
      BY <1>0, <1>4, <2>1 DEF Acquire_recv_lock, HoldPCs, Outcomes
    <2>2. CASE Sp_receive(t)
      BY <1>0, <1>4, <2>2 DEF Sp_receive, HoldPCs, Outcomes
    <2>3. CASE Release_recv_lock(t)
      BY <1>0, <1>4, <2>3 DEF Release_recv_lock, HoldPCs
    <2> QED
      BY <2>1, <2>2, <2>3
  <1> QED
    BY <1>1, <1>2, <1>3, <1>5, Continues

\* The record of a thread whose call has returned.
LEMMA CallEnds ==
    ASSUME LocksInv, NEW t \in Threads, ft[t].pc # "idle" \/ ft[t].prog # <<>>,
           NEW r \in Outcomes
    PROVE  \E x \in ThreadRecords : /\ Ends(t, r) = [ft EXCEPT ![t] = x]
                                    /\ x.pc = "idle" /\ x.c = ft[t].c /\ ~x.bad
  <1>1. ft[t] \in ThreadRecords /\ ~ft[t].bad
    BY DEF LocksInv, LocksType, NoUseAfterFree
  <1>2. ft[t].prog \in Seq(Ops) /\ ft[t].prog # <<>>
    BY <1>1 DEF ThreadRecords
  <1>3. Tail(ft[t].prog) \in Seq(Ops)
    BY <1>2
  <1> DEFINE x == [ft[t] EXCEPT !.pc = "idle", !.prog = Tail(@), !.ret = r]
  <1>4. x \in ThreadRecords /\ x.pc = "idle" /\ x.c = ft[t].c /\ ~x.bad
    BY <1>1, <1>3 DEF ThreadRecords, PCs
  <1>5. Ends(t, r) = [ft EXCEPT ![t] = x]
    BY DEF Ends
  <1> QED
    BY <1>4, <1>5

\* cancel_reservation: the counter goes down with the number of holders, and the
\* thread that wakes up the closing one was the last.
LEMMA InvCancel ==
    ASSUME LocksInv, NEW t \in Threads, Cancel_reservation(t)
    PROVE  LocksInv'
  <1>k. PICK k \in Conns : k = ft[t].c
    BY DEF LocksInv, LocksType, ThreadRecords
  <1>a. /\ LocksType /\ TableLocked /\ TableLive /\ Counted /\ WokenLast
        /\ OneCloser /\ Unused /\ NoUseAfterFree
    BY DEF LocksInv
  <1>0. ft[t].pc = "cancel" /\ ft[t] \in ThreadRecords /\ ~ft[t].bad /\ fc[k] \in ConnRecords
    BY <1>a DEF Cancel_reservation, At, LocksType, NoUseAfterFree
  <1>1. fc[k].made /\ ~fc[k].destroyed
    BY <1>k, <1>0, InUse DEF HoldPCs
  <1>2. PICK x \in ThreadRecords : ft' = [ft EXCEPT ![t] = x] /\ x.pc \in {"idle", "disconnect"}
                                   /\ x.c = k /\ ~x.bad
    <2>1. CASE ft[t].ret # "closed"
      <3>1. ft' = Ends(t, ft[t].ret) /\ ft[t].ret \in Outcomes
        BY <1>0, <2>1 DEF Cancel_reservation, ThreadRecords
      <3> QED
        BY <1>k, <1>0, <3>1, CallEnds
    <2>2. CASE ft[t].ret = "closed"
      <3> DEFINE x == [ft[t] EXCEPT !.pc = "disconnect"]
      <3>1. ft' = [ft EXCEPT ![t] = x]
        BY <1>a, <1>k, <1>0, <1>1, <2>2 DEF Cancel_reservation, Goes_to, LocksType, ThreadRecords
      <3>2. x \in ThreadRecords /\ x.pc = "disconnect" /\ x.c = k /\ ~x.bad
        BY <1>k, <1>0 DEF ThreadRecords, PCs
      <3> QED
        BY <3>1, <3>2
    <2> QED
      BY <2>1, <2>2
  <1>6. /\ ft' \in [Threads -> ThreadRecords] /\ ft'[t] = x
        /\ \A u \in Threads \ {t} : ft'[u] = ft[u]
    BY <1>a, <1>2, OthersStay
  <1>h. ASSUME NEW c \in Conns
        PROVE  /\ c # k => Holders(c)' = Holders(c)
               /\ Holders(c)' = Holders(c) \ {t}
               /\ c = k => t \in Holders(c)
               /\ Holders(c) \subseteq Threads
    <2>1. x.pc \notin HoldPCs /\ ft[t].pc \in HoldPCs
      BY <1>2, <1>0 DEF HoldPCs
    <2> QED
      BY <1>a, <1>k, <1>0, <1>2, <2>1, HoldersMove
  <1>c. ASSUME NEW c \in Conns PROVE Closers(c)' = Closers(c)
    <2>1. x.pc \notin ClosePCs /\ ft[t].pc \notin ClosePCs
      BY <1>2, <1>0 DEF ClosePCs
    <2> QED
      BY <1>a, <1>2, <2>1, ClosersMove
  <1>4. /\ Cardinality(Holders(k)') = Cardinality(Holders(k)) - 1
        /\ Cardinality(Holders(k)) \in Nat /\ Cardinality(Holders(k)') \in Nat
        /\ Cardinality(Holders(k)') = 0 => Holders(k)' = {}
    <2>1. Holders(k) \in SUBSET Threads /\ t \in Holders(k) /\ Holders(k)' = Holders(k) \ {t}
          /\ Holders(k)' \in SUBSET Threads
      BY <1>h
    <2> QED
      BY <2>1, ThreadSets
  <1>5. Cardinality(Holders(k)) <= fc[k].reservations /\ fc[k].reservations \in Nat
    BY <1>a, <1>0 DEF Counted, ConnRecords
  <1> DEFINE y == [fc[k] EXCEPT !.reservations = @ - 1,
                      !.woken = @ \/ (fc[k].reservations = 1 /\ fc[k].disconnecting)]
  <1>3. y \in ConnRecords /\ y.reservations = fc[k].reservations - 1 /\ y.made = fc[k].made
        /\ y.disconnecting = fc[k].disconnecting /\ y.destroyed = fc[k].destroyed
        /\ y.woken = (fc[k].woken \/ (fc[k].reservations = 1 /\ fc[k].disconnecting))
    <2>1. fc[k].reservations - 1 \in Nat
      BY <1>4, <1>5
    <2> QED
      BY <1>0, <2>1 DEF ConnRecords
  <1>7. /\ fc' = [fc EXCEPT ![k] = y] /\ glob_lock' = glob_lock /\ glob_conns' = glob_conns
        /\ sess' = sess
    BY <1>k DEF Cancel_reservation, With, C
  <1> HIDE DEF y
  <1>b. /\ fc' \in [Conns -> ConnRecords] /\ fc'[k] = y
        /\ \A c \in Conns \ {k} : fc'[c] = fc[c]
    BY <1>a, <1>3, <1>7 DEF LocksType
  <1>8. LocksType'
    BY <1>a, <1>6, <1>7, <1>b DEF LocksType
  <1>9. TableLocked'
    BY <1>a, <1>2, <1>6, <1>7 DEF TableLocked
  <1>10. TableLive'
    BY <1>a, <1>3, <1>7, <1>b, <1>c DEF TableLive, LocksType
  <1>11. Counted'
    <2>1. Cardinality(Holders(k)') <= fc'[k].reservations
      BY <1>3, <1>4, <1>5, <1>b
    <2> QED
      BY <1>a, <1>h, <1>b, <2>1 DEF Counted
  <1>12. WokenLast'
    <2>1. fc'[k].woken => fc'[k].disconnecting /\ Holders(k)' = {}
      <3>1. fc[k].woken => fc[k].disconnecting /\ Holders(k)' = {}
        BY <1>a, <1>h DEF WokenLast
      <3>2. fc[k].reservations = 1 => Holders(k)' = {}
        BY <1>4, <1>5
      <3> QED
        BY <1>3, <1>b, <3>1, <3>2
    <2> QED
      BY <1>a, <1>h, <1>b, <2>1 DEF WokenLast
  <1>u. Unused'
    BY <1>a, <1>1, <1>3, <1>h, <1>c, <1>b DEF Unused
  <1>13. OneCloser'
    <2> SUFFICES ASSUME NEW c \in Conns, NEW u \in Threads, u \in Closers(c)'
                 PROVE  /\ fc'[c].made /\ ~fc'[c].destroyed /\ Closers(c)' = {u}
                        /\ ft'[u].pc # "close" => fc'[c].disconnecting
                        /\ ft'[u].pc = "destroy" => Holders(c)' = {}
      BY DEF OneCloser
    <2>1. u \in Closers(c) /\ u # t
      BY <1>0, <1>c DEF Closers, ClosePCs
    <2>2. fc'[c].made = fc[c].made /\ fc'[c].destroyed = fc[c].destroyed
          /\ fc'[c].disconnecting = fc[c].disconnecting /\ Holders(c)' \subseteq Holders(c)
      BY <1>3, <1>b, <1>h
    <2> QED
      BY <1>a, <1>6, <1>c, <2>1, <2>2 DEF OneCloser
  <1>14. NoUseAfterFree'
    BY <1>a, <1>2, <1>6 DEF NoUseAfterFree
  <1> QED
    BY <1>8, <1>9, <1>10, <1>11, <1>12, <1>u, <1>13, <1>14 DEF LocksInv

\* A thread without a reservation, that takes none: the holders are the same.
LEMMA ClosingMoves ==
    ASSUME LocksType, TableLocked, NoUseAfterFree,
           NEW t \in Threads, ft[t].pc \notin HoldPCs \cup {"reserve"},
           NEW x \in ThreadRecords, ft' = [ft EXCEPT ![t] = x],
           x.pc \notin HoldPCs \cup {"reserve"}, ~x.bad,
           glob_lock' = glob_lock, glob_lock # No => glob_conns' = glob_conns
    PROVE  /\ ft' \in [Threads -> ThreadRecords] /\ ft'[t] = x
           /\ \A u \in Threads \ {t} : ft'[u] = ft[u]
           /\ \A c \in Conns : Holders(c)' = Holders(c)
           /\ TableLocked' /\ NoUseAfterFree'
  <1>1. /\ ft' \in [Threads -> ThreadRecords] /\ ft'[t] = x
        /\ \A u \in Threads \ {t} : ft'[u] = ft[u]
    BY OthersStay
  <1>2. ASSUME NEW c \in Conns PROVE Holders(c)' = Holders(c)
    BY HoldersMove
  <1>3. TableLocked'
    BY <1>1, LocksAssumption DEF TableLocked
  <1>4. NoUseAfterFree'
    BY <1>1 DEF NoUseAfterFree
  <1> QED
    BY <1>1, <1>2, <1>3, <1>4

\* FL_disconnect takes the connection out of the table: it is the only one that does.
LEMMA InvUnmap ==
    ASSUME LocksInv, NEW t \in Threads, Unmap(t)
    PROVE  LocksInv'
  <1>a. /\ LocksType /\ TableLocked /\ TableLive /\ Counted /\ WokenLast
        /\ OneCloser /\ Unused /\ NoUseAfterFree
    BY DEF LocksInv
  <1>0. ft[t].pc \in {"idle", "disconnect"} /\ ft[t] \in ThreadRecords /\ ~ft[t].bad
        /\ ft[t].prog # <<>> /\ glob_lock = No
        /\ UNCHANGED <<glob_lock, sess, fc>>
    BY <1>a DEF Unmap, Calling_fl, At, LocksType, NoUseAfterFree, ThreadRecords
  <1>1. CASE glob_conns = 0
    <2>1. ft' = Ends(t, "illegal") /\ glob_conns' = glob_conns
      BY <1>1 DEF Unmap
    <2>2. PICK x \in ThreadRecords : /\ ft' = [ft EXCEPT ![t] = x]
                                     /\ x.pc = "idle" /\ x.c = ft[t].c /\ ~x.bad
      BY <1>0, <2>1, CallEnds DEF Outcomes
    <2>3. fc' \in [Conns -> ConnRecords] /\ \A c \in Conns : SameConn(c)
      BY <1>a, <1>0 DEF LocksType, SameConn
    <2> QED
      BY <1>0, <2>1, <2>2, <2>3, ThreadMoves DEF ClosePCs, HoldPCs
  <1>2. CASE glob_conns # 0
    <2>k. PICK k \in Conns : k = glob_conns
      BY <1>a, <1>2 DEF LocksType
    <2> DEFINE x == [ft[t] EXCEPT !.pc = "close", !.c = k]
    <2>1. x \in ThreadRecords /\ x.pc = "close" /\ x.c = k /\ ~x.bad
      BY <1>0 DEF ThreadRecords, PCs, ClosePCs
    <2>2. ft' = [ft EXCEPT ![t] = x] /\ glob_conns' = 0
      BY <1>a, <1>2, <2>k DEF Unmap, LocksType
    <2> HIDE DEF x
    <2>3. /\ ft' \in [Threads -> ThreadRecords] /\ ft'[t] = x
          /\ \A u \in Threads \ {t} : ft'[u] = ft[u]
          /\ \A c \in Conns : Holders(c)' = Holders(c)
          /\ TableLocked' /\ NoUseAfterFree'
      BY <1>a, <1>0, <2>1, <2>2, ClosingMoves DEF HoldPCs
    <2>4. ASSUME NEW c \in Conns
          PROVE  /\ c = k => Closers(c)' = {t}
                 /\ c # k => Closers(c)' = Closers(c)
      <3>1. c = k => Closers(c) = {}
        BY <1>a, <1>2, <2>k DEF TableLive
      <3>2. ft[t].pc \notin ClosePCs /\ x.pc \in ClosePCs
        BY <1>0, <2>1 DEF ClosePCs
      <3>3. /\ x.c = c /\ x.pc \in ClosePCs => Closers(c)' = Closers(c) \cup {t}
            /\ x.c # c /\ ft[t].pc \notin ClosePCs => Closers(c)' = Closers(c)
        BY <1>a, <2>1, <2>2, ClosersMove
      <3> QED
        BY <2>1, <3>1, <3>2, <3>3
    <2>5. LocksType'
      BY <1>a, <1>0, <2>2, <2>3 DEF LocksType
    <2>6. TableLive' /\ Counted' /\ WokenLast'
      BY <1>a, <1>0, <2>2, <2>3 DEF TableLive, Counted, WokenLast
    <2>7. fc[k].made /\ ~fc[k].disconnecting /\ ~fc[k].destroyed
      BY <1>a, <1>2, <2>k DEF TableLive, Unused, LocksType, ConnRecords
    <2>8. Unused'
      BY <1>a, <1>0, <2>3, <2>4, <2>7 DEF Unused
    <2>9. OneCloser'
      <3> SUFFICES ASSUME NEW c \in Conns, NEW u \in Threads, u \in Closers(c)'
                   PROVE  /\ fc'[c].made /\ ~fc'[c].destroyed /\ Closers(c)' = {u}
                          /\ ft'[u].pc # "close" => fc'[c].disconnecting
                          /\ ft'[u].pc = "destroy" => Holders(c)' = {}
        BY DEF OneCloser
      <3>1. CASE c = k
        BY <1>0, <2>1, <2>3, <2>4, <2>7, <3>1
      <3>2. CASE c # k
        <4>1. u \in Closers(c) /\ u # t
          BY <1>0, <2>4, <3>2 DEF Closers, ClosePCs
        <4> QED
          BY <1>a, <1>0, <2>3, <2>4, <3>2, <4>1 DEF OneCloser
      <3> QED
        BY <3>1, <3>2
    <2> QED
      BY <2>3, <2>5, <2>6, <2>8, <2>9 DEF LocksInv
  <1> QED
    BY <1>1, <1>2

\* The thread that has taken a connection out of the table closes it, sleeps until
\* the last reservation is given back, and wakes up.
LEMMA InvClosing ==
    ASSUME LocksInv, NEW t \in Threads, Close_conn(t) \/ Wakes(t)
    PROVE  LocksInv'
  <1>k. PICK k \in Conns : k = ft[t].c
    BY DEF LocksInv, LocksType, ThreadRecords
  <1>a. /\ LocksType /\ TableLocked /\ TableLive /\ Counted /\ WokenLast
        /\ OneCloser /\ Unused /\ NoUseAfterFree
    BY DEF LocksInv
  <1>0. ft[t].pc \in {"close", "wait"} /\ ft[t] \in ThreadRecords /\ ~ft[t].bad
        /\ fc[k] \in ConnRecords /\ t \in Closers(k)
        /\ UNCHANGED <<glob_conns, glob_lock>> /\ sess' \in Conns \cup {0}
    BY <1>k, <1>a DEF Close_conn, Wakes, At, LocksType, NoUseAfterFree, Closers, ClosePCs
  <1>1. fc[k].made /\ ~fc[k].destroyed /\ Closers(k) = {t} /\ glob_conns # k
        /\ (ft[t].pc = "wait" => fc[k].disconnecting)
    BY <1>a, <1>0, LocksAssumption DEF OneCloser, TableLive
  <1>2. PICK x \in ThreadRecords : /\ ft' = [ft EXCEPT ![t] = x]
                                   /\ x.pc \in {"wait", "destroy"} /\ x.c = k /\ ~x.bad
                                   /\ x.pc = "destroy" => fc[k].reservations = 0 \/ fc[k].woken
    <2>1. PICK p \in {"wait", "destroy"} :
              /\ ft' = Goes_to(t, p)
              /\ p = "destroy" => fc[k].reservations = 0 \/ fc[k].woken
      BY <1>k DEF Close_conn, Wakes, C
    <2> DEFINE x == [ft[t] EXCEPT !.pc = p]
    <2>2. ft' = [ft EXCEPT ![t] = x]
      BY <1>a, <1>k, <1>0, <1>1, <2>1 DEF Goes_to, LocksType, ThreadRecords
    <2>3. x \in ThreadRecords /\ x.pc = p /\ x.c = k /\ ~x.bad
      BY <1>k, <1>0 DEF ThreadRecords, PCs, ClosePCs
    <2> QED
      BY <2>1, <2>2, <2>3
  <1>3. /\ fc' \in [Conns -> ConnRecords] /\ \A c \in Conns \ {k} : SameConn(c)
        /\ fc'[k].made = fc[k].made /\ fc'[k].reservations = fc[k].reservations
        /\ fc'[k].destroyed = fc[k].destroyed /\ fc'[k].woken = fc[k].woken
        /\ fc'[k].disconnecting
    <2>1. CASE Close_conn(t)
      <3>1. fc' = [c \in Conns |-> [fc[c] EXCEPT !.disconnecting = @ \/ c = k,
                                                 !.sp = @ /\ c # sess]]
        BY <1>k, <2>1 DEF Close_conn
      <3>2. ASSUME NEW c \in Conns
            PROVE  /\ fc'[c] \in ConnRecords
                   /\ fc'[c].made = fc[c].made /\ fc'[c].reservations = fc[c].reservations
                   /\ fc'[c].destroyed = fc[c].destroyed /\ fc'[c].woken = fc[c].woken
                   /\ fc'[c].disconnecting = (fc[c].disconnecting \/ c = k)
        <4>1. fc[c] \in ConnRecords
          BY <1>a DEF LocksType
        <4>2. fc'[c] = [fc[c] EXCEPT !.disconnecting = @ \/ c = k, !.sp = @ /\ c # sess]
          BY <3>1
        <4> QED
          BY <4>1, <4>2 DEF ConnRecords
      <3>3. fc' \in [Conns -> ConnRecords]
        BY <3>1, <3>2
      <3>4. ASSUME NEW c \in Conns \ {k} PROVE fc'[c].disconnecting = fc[c].disconnecting
        <4>1. fc[c].disconnecting \in BOOLEAN
          BY <1>a DEF LocksType, ConnRecords
        <4> QED
          BY <3>2, <4>1
      <3>5. \A c \in Conns \ {k} : SameConn(c)
        BY <3>2, <3>4 DEF SameConn
      <3> QED
        BY <3>2, <3>3, <3>5
    <2>2. CASE Wakes(t)
      <3>1. fc' = fc /\ fc[k].disconnecting
        BY <1>1, <2>2 DEF Wakes, At
      <3> QED
        BY <1>a, <3>1 DEF LocksType, SameConn
    <2> QED
      BY <2>1, <2>2
  <1>6. /\ ft' \in [Threads -> ThreadRecords] /\ ft'[t] = x
        /\ \A u \in Threads \ {t} : ft'[u] = ft[u]
        /\ \A c \in Conns : Holders(c)' = Holders(c)
        /\ TableLocked' /\ NoUseAfterFree'
    BY <1>a, <1>0, <1>2, ClosingMoves DEF HoldPCs
  <1>c. ASSUME NEW c \in Conns PROVE Closers(c)' = Closers(c)
    <2>1. ft[t].pc \in ClosePCs /\ x.pc \in ClosePCs
      BY <1>0, <1>2 DEF ClosePCs
    <2>2. /\ x.c = c /\ x.pc \in ClosePCs => Closers(c)' = Closers(c) \cup {t}
          /\ x.c # c /\ ft[t].c # c => Closers(c)' = Closers(c)
      BY <1>a, <1>2, ClosersMove
    <2> QED
      BY <1>k, <1>1, <1>2, <2>1, <2>2
  <1>8. LocksType'
    BY <1>a, <1>0, <1>3, <1>6 DEF LocksType
  <1>10. TableLive'
    BY <1>a, <1>0, <1>1, <1>3, <1>c DEF TableLive, LocksType, SameConn
  <1>11. Counted' /\ WokenLast'
    BY <1>a, <1>3, <1>6 DEF Counted, WokenLast, SameConn
  <1>u. Unused'
    BY <1>a, <1>1, <1>3, <1>6, <1>c DEF Unused, SameConn
  <1>13. x.pc = "destroy" => Holders(k) = {}
    <2>1. CASE fc[k].woken
      BY <1>a, <2>1 DEF WokenLast
    <2>2. CASE fc[k].reservations = 0
      <3>1. Holders(k) \in SUBSET Threads
        BY DEF Holders
      <3>2. Cardinality(Holders(k)) <= 0
        BY <1>a, <2>2 DEF Counted
      <3> QED
        BY <3>1, <3>2, ThreadSets
    <2> QED
      BY <1>2, <2>1, <2>2
  <1>14. OneCloser'
    <2> SUFFICES ASSUME NEW c \in Conns, NEW u \in Threads, u \in Closers(c)'
                 PROVE  /\ fc'[c].made /\ ~fc'[c].destroyed /\ Closers(c)' = {u}
                        /\ ft'[u].pc # "close" => fc'[c].disconnecting
                        /\ ft'[u].pc = "destroy" => Holders(c)' = {}
      BY DEF OneCloser
    <2>1. u \in Closers(c) /\ (c = k <=> u = t)
      BY <1>k, <1>1, <1>c DEF Closers
    <2>2. CASE c = k
      BY <1>1, <1>3, <1>6, <1>c, <1>13, <2>1, <2>2
    <2>3. CASE c # k
      BY <1>a, <1>3, <1>6, <1>c, <2>1, <2>3 DEF OneCloser, SameConn
    <2> QED
      BY <2>2, <2>3
  <1> QED
    BY <1>6, <1>8, <1>10, <1>11, <1>u, <1>14 DEF LocksInv

\* The connection is reclaimed: nobody has a reservation, and nobody else closes it.
LEMMA InvDestroy ==
    ASSUME LocksInv, NEW t \in Threads, Destroy(t)
    PROVE  LocksInv'
  <1>k. PICK k \in Conns : k = ft[t].c
    BY DEF LocksInv, LocksType, ThreadRecords
  <1>a. /\ LocksType /\ TableLocked /\ TableLive /\ Counted /\ WokenLast
        /\ OneCloser /\ Unused /\ NoUseAfterFree
    BY DEF LocksInv
  <1>0. ft[t].pc = "destroy" /\ fc[k] \in ConnRecords /\ t \in Closers(k)
        /\ UNCHANGED <<glob_conns, glob_lock, sess>>
    BY <1>k, <1>a DEF Destroy, At, LocksType, Closers, ClosePCs
  <1>1. fc[k].made /\ fc[k].disconnecting /\ Closers(k) = {t} /\ Holders(k) = {}
        /\ glob_conns # k
    BY <1>a, <1>0, LocksAssumption DEF OneCloser, TableLive
  <1>2. PICK x \in ThreadRecords : /\ ft' = [ft EXCEPT ![t] = x]
                                   /\ x.pc = "idle" /\ x.c = k /\ ~x.bad
    BY <1>k, <1>0, CallEnds DEF Destroy, Outcomes
  <1> DEFINE y == [fc[k] EXCEPT !.destroyed = TRUE]
  <1>3. /\ y \in ConnRecords
        /\ y.made = fc[k].made /\ y.reservations = fc[k].reservations
        /\ y.destroyed /\ y.woken = fc[k].woken
        /\ y.disconnecting = fc[k].disconnecting
    BY <1>0 DEF ConnRecords
  <1>4. fc' = [fc EXCEPT ![k] = y]
    BY <1>k DEF Destroy, With, C
  <1> HIDE DEF y
  <1>6. /\ ft' \in [Threads -> ThreadRecords] /\ ft'[t] = x
        /\ \A u \in Threads \ {t} : ft'[u] = ft[u]
        /\ \A c \in Conns : Holders(c)' = Holders(c)
        /\ TableLocked' /\ NoUseAfterFree'
    BY <1>a, <1>0, <1>2, ClosingMoves DEF HoldPCs
  <1>c. ASSUME NEW c \in Conns
        PROVE  /\ c = k => Closers(c)' = {}
               /\ c # k => Closers(c)' = Closers(c)
    <2>1. x.pc \notin ClosePCs
      BY <1>2 DEF ClosePCs
    <2>2. /\ x.pc \notin ClosePCs => Closers(c)' = Closers(c) \ {t}
          /\ x.pc \notin ClosePCs /\ ft[t].c # c => Closers(c)' = Closers(c)
      BY <1>a, <1>2, ClosersMove
    <2> QED
      BY <1>k, <1>1, <2>1, <2>2
  <1>b. /\ fc' \in [Conns -> ConnRecords] /\ fc'[k] = y
        /\ \A c \in Conns \ {k} : fc'[c] = fc[c]
    BY <1>a, <1>3, <1>4 DEF LocksType
  <1>8. LocksType'
    BY <1>a, <1>0, <1>6, <1>b DEF LocksType
  <1>10. TableLive'
    BY <1>a, <1>0, <1>1, <1>b, <1>c DEF TableLive, LocksType
  <1>11. Counted' /\ WokenLast'
    BY <1>a, <1>3, <1>6, <1>b DEF Counted, WokenLast
  <1>u. Unused'
    BY <1>a, <1>1, <1>3, <1>6, <1>c, <1>b DEF Unused
  <1>14. OneCloser'
    <2> SUFFICES ASSUME NEW c \in Conns, NEW u \in Threads, u \in Closers(c)'
                 PROVE  /\ fc'[c].made /\ ~fc'[c].destroyed /\ Closers(c)' = {u}
                        /\ ft'[u].pc # "close" => fc'[c].disconnecting
                        /\ ft'[u].pc = "destroy" => Holders(c)' = {}
      BY DEF OneCloser
    <2>1. c # k /\ u \in Closers(c)
      BY <1>c
    <2>2. u # t
      BY <1>k, <2>1 DEF Closers
    <2> QED
      BY <1>a, <1>6, <1>b, <1>c, <2>1, <2>2 DEF OneCloser
  <1> QED
    BY <1>6, <1>8, <1>10, <1>11, <1>u, <1>14 DEF LocksInv

\* FL_connect puts a connection into the table that nobody has used.
LEMMA InvConnect ==
    ASSUME LocksInv, NEW t \in Threads, FL_connect(t)
    PROVE  LocksInv'
  <1>a. /\ LocksType /\ TableLocked /\ TableLive /\ Counted /\ WokenLast
        /\ OneCloser /\ Unused /\ NoUseAfterFree
    BY DEF LocksInv
  <1>0. PICK k \in Conns, n \in 0 .. 1 :
            /\ ~fc[k].made /\ fc' = [fc EXCEPT ![k] = New_conn(n)]
            /\ glob_conns' = k /\ sess' = k
    BY DEF FL_connect
  <1> DEFINE y == New_conn(n)
  <1>1. ft[t].pc = "idle" /\ ft[t].prog # <<>> /\ glob_lock = No /\ glob_lock' = No
        /\ ft' = Ends(t, "accepted")
    BY DEF FL_connect, Calling_fl
  <1>2. PICK x \in ThreadRecords : /\ ft' = [ft EXCEPT ![t] = x]
                                   /\ x.pc = "idle" /\ x.c = ft[t].c /\ ~x.bad
    BY <1>1, CallEnds DEF Outcomes
  <1>3. /\ y \in ConnRecords /\ y.made /\ y.reservations = 0 /\ ~y.destroyed
        /\ ~y.woken /\ ~y.disconnecting
    <2>1. n \in Nat
      OBVIOUS
    <2> QED
      BY <2>1 DEF ConnRecords, New_conn, Fresh_conn
  <1>5. fc' = [fc EXCEPT ![k] = y]
    BY <1>0
  <1> HIDE DEF y
  <1>6. /\ ft' \in [Threads -> ThreadRecords] /\ ft'[t] = x
        /\ \A u \in Threads \ {t} : ft'[u] = ft[u]
        /\ \A c \in Conns : Holders(c)' = Holders(c)
        /\ TableLocked' /\ NoUseAfterFree'
    BY <1>a, <1>1, <1>2, ClosingMoves DEF HoldPCs
  <1>c. ASSUME NEW c \in Conns PROVE Closers(c)' = Closers(c)
    <2>1. x.pc \notin ClosePCs /\ ft[t].pc \notin ClosePCs
      BY <1>1, <1>2 DEF ClosePCs
    <2> QED
      BY <1>a, <1>2, <2>1, ClosersMove
  <1>b. /\ fc' \in [Conns -> ConnRecords] /\ fc'[k] = y
        /\ \A c \in Conns \ {k} : fc'[c] = fc[c]
    BY <1>a, <1>3, <1>5 DEF LocksType
  <1>4. Holders(k) = {} /\ Closers(k) = {}
    BY <1>a, <1>0 DEF Unused
  <1>8. LocksType'
    BY <1>a, <1>0, <1>1, <1>6, <1>b DEF LocksType
  <1>10. TableLive'
    BY <1>0, <1>3, <1>4, <1>b, <1>c DEF TableLive
  <1>11. Counted'
    <2>1. Cardinality(Holders(k)') = 0
      BY <1>4, <1>6, FS_EmptySet
    <2>2. Cardinality(Holders(k)') <= fc'[k].reservations
      BY <1>3, <1>b, <2>1
    <2> QED
      BY <1>a, <1>6, <1>b, <2>2 DEF Counted
  <1>12. WokenLast'
    BY <1>a, <1>3, <1>6, <1>b DEF WokenLast
  <1>u. Unused'
    BY <1>a, <1>3, <1>6, <1>c, <1>b DEF Unused
  <1>14. OneCloser'
    <2> SUFFICES ASSUME NEW c \in Conns, NEW u \in Threads, u \in Closers(c)'
                 PROVE  /\ fc'[c].made /\ ~fc'[c].destroyed /\ Closers(c)' = {u}
                        /\ ft'[u].pc # "close" => fc'[c].disconnecting
                        /\ ft'[u].pc = "destroy" => Holders(c)' = {}
      BY DEF OneCloser
    <2>1. c # k /\ u \in Closers(c)
      BY <1>4, <1>c
    <2>2. u # t
      BY <1>1, <2>1 DEF Closers, ClosePCs
    <2> QED
      BY <1>a, <1>6, <1>b, <1>c, <2>1, <2>2 DEF OneCloser
  <1> QED
    BY <1>6, <1>8, <1>10, <1>11, <1>12, <1>u, <1>14 DEF LocksInv

\* Where threads and connections are the same as far as the invariant goes, it holds.
LEMMA InvSame ==
    ASSUME LocksInv, UNCHANGED <<glob_conns, glob_lock, sess, ft>>,
           fc' \in [Conns -> ConnRecords], \A c \in Conns : SameConn(c)
    PROVE  LocksInv'
  <1>1. \A c \in Conns : Holders(c)' = Holders(c) /\ Closers(c)' = Closers(c)
    BY DEF Holders, Holds, Closers
  <1>a. /\ LocksType /\ TableLocked /\ TableLive /\ Counted /\ WokenLast
        /\ OneCloser /\ Unused /\ NoUseAfterFree
    BY DEF LocksInv
  <1>2. LocksType' /\ TableLocked' /\ NoUseAfterFree'
    BY <1>a DEF LocksType, TableLocked, NoUseAfterFree
  <1>3. TableLive'
    BY <1>a, <1>1 DEF TableLive, SameConn, LocksType
  <1>4. Counted' /\ WokenLast' /\ Unused'
    BY <1>a, <1>1 DEF Counted, WokenLast, Unused, SameConn
  <1>5. OneCloser'
    BY <1>a, <1>1 DEF OneCloser, SameConn
  <1> QED
    BY <1>2, <1>3, <1>4, <1>5 DEF LocksInv

----------------------------------------------------------------------------
(* The invariant holds at the start, and every step keeps it.              *)

\* One connection that no thread uses.
LEMMA InvInit ==
    ASSUME NEW programs, programs \subseteq [Threads -> Seq(Ops)], LocksInit(programs)
    PROVE  LocksInv
  <1>1. PICK p \in programs : ft = [t \in Threads |->
            [prog |-> p[t], pc |-> "idle", c |-> 1, s |-> 1, ret |-> "ok", bad |-> FALSE]]
    BY DEF LocksInit
  <1>2. \A t \in Threads : ft[t].pc = "idle" /\ ~ft[t].bad
    BY <1>1
  <1>3. \A c \in Conns : Holders(c) = {} /\ Closers(c) = {}
    BY <1>2 DEF Holders, Holds, Closers, ClosePCs
  <1>4. ft \in [Threads -> ThreadRecords]
    BY <1>1, LocksAssumption DEF ThreadRecords, PCs, Outcomes
  <1>5. /\ fc \in [Conns -> ConnRecords]
        /\ \A c \in Conns : /\ fc[c].reservations = 0 /\ ~fc[c].disconnecting
                             /\ ~fc[c].destroyed /\ ~fc[c].woken
        /\ fc[1].made
    BY LocksAssumption DEF LocksInit, New_conn, Fresh_conn, ConnRecords
  <1>6. glob_conns = 1 /\ glob_lock = No /\ sess = 1
    BY DEF LocksInit
  <1>7. LocksType
    BY <1>4, <1>5, <1>6, LocksAssumption DEF LocksType
  <1>8. Counted
    <2>1. Cardinality({}) = 0
      BY FS_EmptySet
    <2>2. ASSUME NEW c \in Conns PROVE Cardinality(Holders(c)) <= fc[c].reservations
      <3>1. Holders(c) = {} /\ fc[c].reservations = 0
        BY <1>3, <1>5
      <3>2. Cardinality(Holders(c)) = 0
        BY <2>1, <3>1
      <3> QED
        BY <3>1, <3>2
    <2> QED
      BY <2>2 DEF Counted
  <1>9. TableLocked /\ TableLive /\ WokenLast /\ OneCloser /\ Unused /\ NoUseAfterFree
    BY <1>2, <1>3, <1>5, <1>6, LocksAssumption
       DEF TableLocked, TableLive, WokenLast, OneCloser, Unused, NoUseAfterFree
  <1> QED
    BY <1>7, <1>8, <1>9 DEF LocksInv

\* A step of any thread, the daemon closing the session, and the steps that are
\* not of the threads.
LEMMA InvNext ==
    ASSUME LocksInv, [Next]_vars
    PROVE  LocksInv'
  <1>1. ASSUME UNCHANGED locks PROVE LocksInv'
    <2>1. UNCHANGED <<glob_conns, glob_lock, sess, ft, fc>>
      BY <1>1 DEF locks
    <2>2. fc' \in [Conns -> ConnRecords] /\ \A c \in Conns : SameConn(c)
      BY <2>1 DEF LocksInv, LocksType, SameConn
    <2> QED
      BY <2>1, <2>2, InvSame
  <1>2. ASSUME NEW t \in Threads, ThreadStep(t) PROVE LocksInv'
    BY <1>2, InvConnect, InvFindConn, InvMakeReservation, InvCall, InvSpCall, InvLookup,
       InvReceive, InvCancel,
       InvUnmap, InvClosing, InvDestroy DEF ThreadStep
  <1>3. ASSUME NEW d \in Conns, Daemon_closes(d) PROVE LocksInv'
    <2>1. fc \in [Conns -> ConnRecords] /\ fc' = [fc EXCEPT ![d].sp = FALSE]
          /\ UNCHANGED <<glob_conns, glob_lock, sess, ft>>
      BY <1>3 DEF LocksInv, LocksType, Daemon_closes
    <2>2. fc' \in [Conns -> ConnRecords]
      BY <2>1 DEF ConnRecords
    <2>3. ASSUME NEW c \in Conns PROVE SameConn(c)
      BY <2>1 DEF SameConn, ConnRecords
    <2> QED
      BY <2>1, <2>2, <2>3, InvSame
  <1> QED
    BY <1>1, <1>2, <1>3 DEF Next, LocksNext, vars

\* No thread of a process uses a connection of the flush layer after FL_disconnect
\* has reclaimed it (fl.c: make_reservation, cancel_reservation, FL_disconnect),
\* whatever the number of threads and connections and whatever calls they make: the
\* reservation is made before the table is unlocked, and the thread that reclaims
\* waits until the counter says that nobody has one.
THEOREM NoUseAfterFreeCorrect == Spec => []NoUseAfterFree
  <1>1. Init => LocksInv
    <2>1. {[t \in Threads |-> <<>>]} \subseteq [Threads -> Seq(Ops)]
      OBVIOUS
    <2>2. LockPrograms \subseteq [Threads -> Seq(Ops)]
      BY ProgramsAssumption DEF Ops
    <2> QED
      BY <2>1, <2>2, InvInit DEF Init
  <1>2. LocksInv /\ [Next]_vars => LocksInv'
    BY InvNext
  <1>3. LocksInv => NoUseAfterFree
    BY DEF LocksInv
  <1> QED
    BY <1>1, <1>2, <1>3, PTL DEF Spec

=============================================================================
