------------------------ MODULE ClientSession_proofs ------------------------
(***************************************************************************)
(* The table of sessions of libspread/sp.c: for any size of the table, any *)
(* programs of calls and any number of threads, SP_get_session finds every *)
(* session that is connected.  The daemon only matters in what it does not *)
(* do: it leaves the library's variables alone, and closes no connection   *)
(* but its own end.                                                        *)
(***************************************************************************)
EXTENDS ClientSession, FiniteSetTheorems, TLAPS

----------------------------------------------------------------------------
(* Numbers.                                                                *)

\* Min gives the smallest of a set of numbers.
LEMMA MinIsLeast ==
    ASSUME NEW S, S \subseteq Nat, S # {}
    PROVE  Min(S) \in S /\ \A y \in S : Min(S) <= y
  <1> DEFINE U == {0 .. n : n \in S}
  <1>1. U \subseteq FiniteSubsetsOf(Nat) /\ U # {}
    <2>1. \A n \in S : 0 .. n \in FiniteSubsetsOf(Nat)
      BY FS_Interval DEF FiniteSubsetsOf
    <2> QED
      BY <2>1
  <1>2. PICK x \in U : \A y \in U : ~ (<<y, x>> \in StrictSubsetOrdering(Nat))
    <2> HIDE DEF U
    <2> QED
      BY <1>1, FS_StrictSubsetOrderingWellFounded, WFMin
  <1>3. PICK n \in S : x = 0 .. n
    OBVIOUS
  <1>4. ASSUME NEW m \in S, m < n PROVE FALSE
    <2>1. 0 .. m \in U /\ 0 .. m \subseteq 0 .. n /\ n \in 0 .. n /\ n \notin 0 .. m
      BY <1>4
    <2>2. <<0 .. m, 0 .. n>> \in StrictSubsetOrdering(Nat)
      BY <2>1 DEF StrictSubsetOrdering
    <2> QED
      BY <2>1, <2>2, <1>2, <1>3
  <1>5. \E k \in S : \A y \in S : k <= y
    BY <1>4
  <1> QED
    BY <1>5 DEF Min

\* The remainder is the only number below the divisor at a multiple's distance.
LEMMA RemainderIs ==
    ASSUME NEW n \in Nat, n > 0, NEW a \in Int, NEW d \in Int, NEW s \in 0 .. n - 1,
           a = n * d + s
    PROVE  a % n = s
  <1> DEFINE q == a \div n
             r == a % n
  <1>1. r \in 0 .. n - 1 /\ a = n * q + r /\ q \in Int
    OBVIOUS
  <1>2. n * (d - q) = r - s
    BY <1>1
  <1>3. d = q
    <2>1. CASE d - q >= 1
      BY <1>1, <1>2, <2>1
    <2>2. CASE d - q <= -1
      BY <1>1, <1>2, <2>2
    <2> QED
      BY <1>1, <2>1, <2>2
  <1> QED
    BY <1>1, <1>3

\* A search from any slot meets every slot.
LEMMA EverySlotIsMet ==
    ASSUME NEW m \in Int, NEW s \in Slots
    PROVE  \E k \in Slots : (m + k) % MaxLib = s
  <1>1. MaxLib \in Nat /\ MaxLib > 0 /\ s \in Int /\ Slots = 0 .. MaxLib - 1
    BY LibraryAssumption DEF Slots
  <1> DEFINE k == (s - m) % MaxLib
             q == (s - m) \div MaxLib
  <1>2. k \in 0 .. MaxLib - 1 /\ s - m = MaxLib * q + k /\ q \in Int
    BY <1>1
  <1>3. m + k = MaxLib * (-q) + s
    BY <1>1, <1>2
  <1> HIDE DEF k, q
  <1>4. (m + k) % MaxLib = s
    <2>1. m + k \in Int /\ -q \in Int /\ s \in 0 .. MaxLib - 1
      BY <1>1, <1>2
    <2> QED
      BY <1>1, <1>3, <2>1, RemainderIs
  <1> QED
    BY <1>1, <1>2, <1>4

----------------------------------------------------------------------------
(* The invariant.                                                          *)

ThreadFields == {"prog", "pc", "fd", "ses", "units", "saved", "ret"}
SlotFields   == {"mbox", "state", "name", "saved"}
Shape ==
    /\ DOMAIN thr = Threads /\ \A t \in Threads : DOMAIN thr[t] = ThreadFields
    /\ DOMAIN tab = Slots /\ \A s \in Slots : DOMAIN tab[s] = SlotFields
    /\ DOMAIN cfd = Fds
    /\ \E S : net \in Seq(S)

Used(s) == tab[s].state # "unused"
\* a thread has a descriptor that is not in the table yet
Connecting(t) == thr[t].pc \in {"hello", "list", "choice", "answer", "register"}

\* Slots that are in use have open descriptors, and different ones.
TableInv ==
    /\ \A s \in Slots : ~Used(s) => tab[s].mbox = -1
    /\ \A s \in Slots : Used(s) => tab[s].mbox \in Fds /\ cfd[tab[s].mbox] # 0
    /\ \A s, r \in Slots : s # r /\ Used(s) => tab[s].mbox # tab[r].mbox

\* So have threads that connect, and a call works on a descriptor.
ConnectInv ==
    /\ \A t \in Threads : thr[t].pc # "idle" => thr[t].fd \in Fds
    /\ \A t \in Threads : Connecting(t) =>
          /\ cfd[thr[t].fd] # 0
          /\ \A s \in Slots : tab[s].mbox # thr[t].fd
          /\ \A u \in Threads \ {t} : Connecting(u) => thr[u].fd # thr[t].fd

LibInv == Shape /\ TableInv /\ ConnectInv

----------------------------------------------------------------------------
(* SP_get_session.                                                         *)

\* What it finds is a slot with the mailbox, if there is one.
LEMMA GetSession ==
    ASSUME NEW m \in Int
    PROVE  LET ses == SP_get_session(m) IN
           \/ ses = -1 /\ \A s \in Slots : tab[s].mbox # m
           \/ ses \in Slots /\ tab[ses].mbox = m
  <1> DEFINE slot(k) == (m + k) % MaxLib
             at == {k \in Slots : tab[slot(k)].mbox = m}
  <1>1. MaxLib \in Nat /\ MaxLib > 0 /\ Slots = 0 .. MaxLib - 1
    BY LibraryAssumption DEF Slots
  <1>2. SP_get_session(m) = IF at = {} THEN -1 ELSE slot(Min(at))
    BY DEF SP_get_session
  <1>3. CASE at = {}
    <2>1. \A s \in Slots : \E k \in Slots : slot(k) = s
      BY EverySlotIsMet
    <2> QED
      BY <1>2, <1>3, <2>1
  <1>4. CASE at # {}
    <2>1. at \subseteq Nat
      BY <1>1
    <2>2. Min(at) \in at
      <3> HIDE DEF at
      <3> QED
        BY <1>4, <2>1, MinIsLeast
    <2>3. slot(Min(at)) \in Slots /\ tab[slot(Min(at))].mbox = m
      BY <1>1, <2>2
    <2> QED
      BY <1>2, <1>4, <2>3
  <1> QED
    BY <1>3, <1>4

\* A session in the table is found.
LEMMA UsedIsFound == LibInv => SessionsAreFound
  <1> SUFFICES ASSUME LibInv, NEW s \in Slots, Used(s)
               PROVE  SP_get_session(tab[s].mbox) = s
    BY DEF SessionsAreFound, Used
  <1>1. tab[s].mbox \in Int
    <2>1. tab[s].mbox \in Fds
      BY DEF LibInv, TableInv
    <2>2. \A f \in Fds : f \in Int
      BY LibraryAssumption
    <2> QED
      BY <2>1, <2>2
  <1>2. \A r \in Slots : tab[r].mbox = tab[s].mbox => r = s
    BY DEF LibInv, TableInv
  <1> QED
    BY <1>1, <1>2, GetSession

----------------------------------------------------------------------------
(* Steps of the library.                                                   *)

\* The connections are still a sequence when one of them is changed.
NetKept == net' = [c \in DOMAIN net |-> net'[c]]

LEMMA NetStays ==
    ASSUME \E S : net \in Seq(S), NetKept
    PROVE  \E S : net' \in Seq(S)
  <1>1. PICK S : net \in Seq(S)
    OBVIOUS
  <1>2. Len(net) \in Nat /\ DOMAIN net = 1 .. Len(net)
    BY <1>1
  <1> DEFINE T == {net'[c] : c \in 1 .. Len(net)}
  <1>3. net' \in [1 .. Len(net) -> T]
    BY <1>2 DEF NetKept
  <1>4. net' \in Seq(T)
    <2> HIDE DEF T
    <2> QED
      BY <1>2, <1>3
  <1> QED
    BY <1>4

\* A slot is used for the same mailbox or not at all, as before.
SlotsKept ==
    \A s \in Slots : tab'[s].mbox = tab[s].mbox /\ (Used(s)' <=> Used(s))

ShapesKept ==
    /\ DOMAIN thr' = Threads /\ \A t \in Threads : DOMAIN thr'[t] = ThreadFields
    /\ DOMAIN tab' = Slots /\ \A s \in Slots : DOMAIN tab'[s] = SlotFields
    /\ DOMAIN cfd' = Fds

\* A thread that connects has done so before, with the same descriptor.
ThreadsKept ==
    \A t \in Threads : /\ thr'[t].pc # "idle" => thr'[t].fd \in Fds
                       /\ Connecting(t)' => Connecting(t) /\ thr'[t].fd = thr[t].fd

\* A thread goes on in its call, and the table and the descriptors stay.
LEMMA InvGoesOn ==
    ASSUME LibInv, ShapesKept, NetKept, SlotsKept, ThreadsKept, cfd' = cfd
    PROVE  LibInv'
  <1>1. Shape'
    BY NetStays DEF LibInv, Shape, ShapesKept
  <1>2. TableInv'
    BY DEF LibInv, TableInv, SlotsKept
  <1>3. ConnectInv'
    BY DEF LibInv, ConnectInv, SlotsKept, ThreadsKept
  <1> QED
    BY <1>1, <1>2, <1>3 DEF LibInv

\* A thread closes its descriptor and is done; the descriptor leaves the table
\* if it was there.
LEMMA InvCloses ==
    ASSUME LibInv, ShapesKept, NetKept, NEW t \in Threads, ThreadsKept,
           thr'[t].pc = "idle",
           cfd' = [cfd EXCEPT ![thr[t].fd] = 0],
           \/ Connecting(t) /\ SlotsKept
           \/ /\ ~Connecting(t)
              /\ \E r \in Slots :
                    /\ Used(r) /\ tab[r].mbox = thr[t].fd
                    /\ ~Used(r)' /\ tab'[r].mbox = -1
                    /\ \A s \in Slots \ {r} : tab'[s] = tab[s]
    PROVE  LibInv'
  <1> DEFINE fd == thr[t].fd
  <1>1. Shape'
    BY NetStays DEF LibInv, Shape, ShapesKept
  <1>2. \A f \in Fds \ {fd} : cfd'[f] = cfd[f]
    BY DEF LibInv, Shape
  <1>3. \A s \in Slots : Used(s)' => Used(s) /\ tab'[s].mbox = tab[s].mbox /\ tab[s].mbox # fd
    BY DEF LibInv, TableInv, ConnectInv, SlotsKept, Used
  <1>4. \A s \in Slots : ~Used(s)' => tab'[s].mbox = -1
    BY DEF LibInv, TableInv, SlotsKept, Used
  <1>5. \A s \in Slots : tab'[s].mbox = tab[s].mbox \/ tab'[s].mbox = -1
    BY <1>3, <1>4
  <1>6. TableInv'
    <2>1. \A s \in Slots : Used(s)' => tab'[s].mbox \in Fds /\ cfd'[tab'[s].mbox] # 0
      BY <1>2, <1>3 DEF LibInv, TableInv
    <2>2. \A f \in Fds : f # -1
      BY LibraryAssumption
    <2>3. \A s, r \in Slots : s # r /\ Used(s)' => tab'[s].mbox # tab'[r].mbox
      BY <1>3, <1>5, <2>1, <2>2 DEF LibInv, TableInv
    <2> QED
      BY <1>4, <2>1, <2>3 DEF TableInv
  <1>7. \A u \in Threads : Connecting(u)' => u # t /\ Connecting(u) /\ thr'[u].fd = thr[u].fd
                                             /\ thr[u].fd # fd
    <2>1. ASSUME NEW u \in Threads, Connecting(u)' PROVE u # t /\ thr[u].fd # fd
      <3>1. u # t /\ Connecting(u)
        BY <2>1 DEF ThreadsKept, Connecting
      <3> QED
        BY <3>1 DEF LibInv, ConnectInv
    <2> QED
      BY <2>1 DEF ThreadsKept
  <1>8. \A f \in Fds : f # -1
    BY LibraryAssumption
  <1>9. ConnectInv'
    <2>1. \A u \in Threads : thr'[u].pc # "idle" => thr'[u].fd \in Fds
      BY DEF ThreadsKept
    <2>2. ASSUME NEW u \in Threads, Connecting(u)'
          PROVE  /\ thr'[u].fd \in Fds \ {fd}
                 /\ cfd'[thr'[u].fd] # 0
                 /\ \A s \in Slots : tab'[s].mbox # thr'[u].fd
      <3>1. Connecting(u) /\ thr'[u].fd = thr[u].fd /\ thr[u].fd # fd /\ thr[u].fd \in Fds
        BY <1>7, <2>1, <2>2 DEF Connecting
      <3> QED
        BY <1>2, <1>5, <1>8, <3>1 DEF LibInv, ConnectInv
    <2>3. \A u, v \in Threads : u # v /\ Connecting(u)' /\ Connecting(v)' => thr'[u].fd # thr'[v].fd
      BY <1>7 DEF LibInv, ConnectInv
    <2> QED
      BY <2>1, <2>2, <2>3 DEF ConnectInv
  <1> QED
    BY <1>1, <1>6, <1>9 DEF LibInv

\* What a call leaves of a thread: it has ended, or goes on where it was.
LEMMA Returns ==
    ASSUME Shape, NEW t \in Threads, NEW r, thr' = Return(t, r)
    PROVE  /\ DOMAIN thr' = Threads /\ \A u \in Threads : DOMAIN thr'[u] = ThreadFields
           /\ thr'[t].pc = "idle" /\ \A u \in Threads \ {t} : thr'[u] = thr[u]
  BY DEF Shape, Return, Ready, ThreadFields

LEMMA GoesTo ==
    ASSUME Shape, NEW t \in Threads, NEW pc, thr' = Goes(t, pc)
    PROVE  /\ DOMAIN thr' = Threads /\ \A u \in Threads : DOMAIN thr'[u] = ThreadFields
           /\ thr'[t].pc = pc /\ thr'[t].fd = thr[t].fd
           /\ \A u \in Threads \ {t} : thr'[u] = thr[u]
  BY DEF Shape, Goes, ThreadFields

\* Threads that stay, but for one that connects no more or has not begun to.
LEMMA OneThread ==
    ASSUME LibInv, NEW t \in Threads, \A u \in Threads \ {t} : thr'[u] = thr[u],
           \/ thr'[t].pc = "idle"
           \/ thr'[t].fd \in Fds /\ ~Connecting(t)'
           \/ Connecting(t) /\ thr'[t].fd = thr[t].fd
    PROVE  ThreadsKept
  BY DEF LibInv, ConnectInv, ThreadsKept, Connecting

\* The connection of a thread that connects goes on, or is given up.
LEMMA InvConnecting ==
    ASSUME LibInv, NEW t \in Threads,
           Send_n(t) \/ Recv_list(t) \/ Recv_answer(t) \/ Connect_timeout(t)
    PROVE  LibInv'
  <1>1. Connecting(t) /\ UNCHANGED tab
    BY DEF Send_n, Recv_list, Recv_answer, Connect_timeout, Connecting
  <1>2. Shape /\ SlotsKept /\ DOMAIN tab' = Slots /\ \A s \in Slots : DOMAIN tab'[s] = SlotFields
    BY <1>1 DEF LibInv, Shape, SlotsKept, Used
  <1>3. ASSUME NEW r, Give_up(t, r) PROVE LibInv'
    <2>1. NetKept /\ cfd' = [cfd EXCEPT ![thr[t].fd] = 0] /\ DOMAIN cfd' = Fds
      BY <1>2, <1>3 DEF Give_up, Close, NetKept, Shape
    <2>2. ShapesKept /\ ThreadsKept /\ thr'[t].pc = "idle"
      BY <1>2, <1>3, <2>1, Returns, OneThread DEF Give_up, ShapesKept
    <2> QED
      BY <1>1, <1>2, <2>1, <2>2, InvCloses
  <1>4. ASSUME NetKept, cfd' = cfd, NEW x, thr' = [thr EXCEPT ![t] = x],
               DOMAIN x = ThreadFields, x.fd = thr[t].fd
        PROVE  LibInv'
    <2>1. DOMAIN thr' = Threads /\ (\A u \in Threads : DOMAIN thr'[u] = ThreadFields)
          /\ thr'[t].fd = thr[t].fd /\ \A u \in Threads \ {t} : thr'[u] = thr[u]
      BY <1>2, <1>4 DEF Shape
    <2>2. ShapesKept /\ ThreadsKept
      BY <1>1, <1>2, <1>4, <2>1, OneThread DEF ShapesKept, Shape
    <2> QED
      BY <1>2, <1>4, <2>2, InvGoesOn
  <1>5. CASE Send_n(t)
    <2>1. CASE ~net[cfd[thr[t].fd]].dend /\ Give_up(t, Closed)
      BY <1>3, <2>1
    <2>2. CASE net[cfd[thr[t].fd]].dend
      <3>1. PICK k, p :
              /\ net' = [net EXCEPT ![cfd[thr[t].fd]].up = @ \o SubSeq(thr[t].units, 1, k)]
              /\ thr' = [thr EXCEPT ![t].units = Rest(thr[t].units, k), ![t].pc = p]
              /\ cfd' = cfd
        BY <1>5, <2>2 DEF Send_n
      <3> QED
        BY <1>2, <1>4, <3>1 DEF NetKept, Shape, ThreadFields
    <2> QED
      BY <1>5, <2>1, <2>2 DEF Send_n
  <1>6. CASE Recv_list(t)
    <2>1. CASE \E r : Give_up(t, r)
      BY <1>3, <2>1
    <2>2. CASE ~ \E r : Give_up(t, r)
      <3>1. /\ net' = [net EXCEPT ![cfd[thr[t].fd]].down = Tail(@)]
            /\ thr' = [thr EXCEPT ![t].pc = "choice",
                          ![t].units = <<[unit |-> "choice", methods |-> Call(t).methods],
                                         [unit |-> "rest"]>>]
            /\ cfd' = cfd
        BY <1>6, <2>2 DEF Recv_list
      <3> QED
        BY <1>2, <1>4, <3>1 DEF NetKept, Shape, ThreadFields
    <2> QED
      BY <2>1, <2>2
  <1>7. CASE Recv_answer(t)
    <2>1. CASE \E r : Give_up(t, r)
      BY <1>3, <2>1
    <2>2. CASE ~ \E r : Give_up(t, r)
      <3>1. /\ net' = [net EXCEPT ![cfd[thr[t].fd]].down = Tail(@)]
            /\ thr' = [thr EXCEPT ![t].pc = "register",
                                  ![t].units = <<Head(net[cfd[thr[t].fd]].down)>>]
            /\ cfd' = cfd
        BY <1>7, <2>2 DEF Recv_answer
      <3> QED
        BY <1>2, <1>4, <3>1 DEF NetKept, Shape, ThreadFields
    <2> QED
      BY <2>1, <2>2
  <1>8. CASE Connect_timeout(t)
    BY <1>3, <1>8 DEF Connect_timeout
  <1> QED
    BY <1>5, <1>6, <1>7, <1>8

----------------------------------------------------------------------------
(* The steps that change the table.                                        *)

\* connect takes a closed descriptor, which nothing in the table or at work has.
LEMMA InvOpen ==
    ASSUME LibInv, NEW t \in Threads, Connect_open(t)
    PROVE  LibInv'
  <1> DEFINE free == {f \in Fds : cfd[f] = 0}
             fd   == Min(free)
  <1>1. UNCHANGED tab /\ Shape /\ TableInv /\ ConnectInv /\ Calling(t, {"connect"})
    BY DEF Connect_open, LibInv
  <1>2. SlotsKept /\ DOMAIN tab' = Slots /\ \A s \in Slots : DOMAIN tab'[s] = SlotFields
    BY <1>1 DEF Shape, SlotsKept, Used
  <1>3. CASE (\E r : thr' = Return(t, r)) /\ UNCHANGED <<net, cfd>>
    <2>1. ShapesKept /\ ThreadsKept
      BY <1>1, <1>2, <1>3, Returns, OneThread DEF ShapesKept, Shape
    <2>2. NetKept
      BY <1>1, <1>3 DEF NetKept, Shape
    <2> QED
      BY <1>2, <1>3, <2>1, <2>2, InvGoesOn
  <1>4. CASE /\ free # {}
             /\ net' = Append(net, Connection)
             /\ cfd' = [cfd EXCEPT ![fd] = Len(net) + 1]
             /\ thr' = [thr EXCEPT ![t].pc = "hello", ![t].fd = fd, ![t].units = Hello(Call(t))]
    <2>1. fd \in Fds /\ cfd[fd] = 0
      <3>1. free \subseteq Nat
        BY LibraryAssumption
      <3>2. fd \in free
        <4> HIDE DEF free
        <4> QED
          BY <1>4, <3>1, MinIsLeast
      <3> QED
        BY <3>2
    <2> HIDE DEF fd
    <2>2. (\E S : net' \in Seq(S)) /\ Len(net) + 1 # 0
      <3>1. PICK S : net \in Seq(S)
        BY <1>1 DEF Shape
      <3>2. net' \in Seq(S \cup {Connection})
        BY <1>4, <3>1
      <3> QED
        BY <3>1, <3>2
    <2>3. DOMAIN cfd' = Fds /\ cfd'[fd] # 0 /\ \A f \in Fds \ {fd} : cfd'[f] = cfd[f]
      BY <1>1, <1>4, <2>1, <2>2 DEF Shape
    <2>4. /\ DOMAIN thr' = Threads /\ \A u \in Threads : DOMAIN thr'[u] = ThreadFields
          /\ thr'[t].pc = "hello" /\ thr'[t].fd = fd /\ \A u \in Threads \ {t} : thr'[u] = thr[u]
      BY <1>1, <1>4 DEF Shape, ThreadFields
    <2>5. Shape'
      BY <1>2, <2>2, <2>3, <2>4 DEF Shape
    <2>6. \A s \in Slots : tab[s].mbox # fd
      <3>1. \A f \in Fds : f # -1
        BY LibraryAssumption
      <3> QED
        BY <1>1, <2>1, <3>1 DEF TableInv
    <2>7. TableInv'
      BY <1>1, <2>3, <2>6 DEF TableInv, Used
    <2>8. \A u \in Threads \ {t} : Connecting(u)' <=> Connecting(u)
      BY <2>4 DEF Connecting
    <2>9. \A u \in Threads : Connecting(u) => thr[u].fd \in Fds /\ thr[u].fd # fd
      BY <1>1, <2>1 DEF ConnectInv, Connecting
    <2>10. ConnectInv'
      <3>1. \A u \in Threads : thr'[u].pc # "idle" => thr'[u].fd \in Fds
        BY <1>1, <2>1, <2>4 DEF ConnectInv
      <3>2. ASSUME NEW u \in Threads, Connecting(u)'
            PROVE  /\ cfd'[thr'[u].fd] # 0
                   /\ \A s \in Slots : tab'[s].mbox # thr'[u].fd
        BY <1>1, <2>3, <2>4, <2>6, <2>8, <2>9, <3>2 DEF ConnectInv
      <3>3. \A u, v \in Threads : u # v /\ Connecting(u)' /\ Connecting(v)' => thr'[u].fd # thr'[v].fd
        BY <1>1, <2>4, <2>8, <2>9 DEF ConnectInv
      <3> QED
        BY <3>1, <3>2, <3>3 DEF ConnectInv
    <2> QED
      BY <2>5, <2>7, <2>10 DEF LibInv
  <1> QED
    BY <1>3, <1>4 DEF Connect_open

\* A full table is refused; otherwise there is an unused slot.
LEMMA UnusedSlot ==
    Num_sessions < MaxLib => \E s \in Slots : ~Used(s)
  <1> SUFFICES ASSUME \A s \in Slots : Used(s) PROVE ~(Num_sessions < MaxLib)
    OBVIOUS
  <1>1. {s \in Slots : tab[s].state # "unused"} = 0 .. MaxLib - 1
    BY DEF Used, Slots
  <1>2. MaxLib \in Nat /\ MaxLib > 0
    BY LibraryAssumption
  <1>3. Cardinality(0 .. MaxLib - 1) = MaxLib
    BY <1>2, FS_Interval
  <1>4. Num_sessions = MaxLib
    BY <1>1, <1>3 DEF Num_sessions
  <1> QED
    BY <1>2, <1>4

LEMMA InvRegister ==
    ASSUME LibInv, NEW t \in Threads, Connect_register(t)
    PROVE  LibInv'
  <1> DEFINE fd == thr[t].fd
             slot(k) == (fd + k) % MaxLib
             at  == {k \in Slots : tab[slot(k)].state = "unused"}
             ses == slot(Min(at))
  <1>1. Shape /\ TableInv /\ ConnectInv /\ Connecting(t) /\ fd \in Fds
    BY DEF LibInv, Connect_register, Connecting, ConnectInv
  <1>2. MaxLib \in Nat /\ MaxLib > 0 /\ Slots = 0 .. MaxLib - 1
    BY LibraryAssumption DEF Slots
  <1>3. CASE Num_sessions >= MaxLib
    <2>1. Give_up(t, "REJECT_QUOTA") /\ UNCHANGED tab
      BY <1>3 DEF Connect_register
    <2>2. NetKept /\ cfd' = [cfd EXCEPT ![fd] = 0] /\ DOMAIN cfd' = Fds
      BY <1>1, <2>1 DEF Give_up, Close, NetKept, Shape
    <2>3. ShapesKept /\ ThreadsKept /\ thr'[t].pc = "idle"
      BY <1>1, <2>1, <2>2, Returns, OneThread DEF Give_up, ShapesKept, Shape
    <2>4. SlotsKept
      BY <2>1 DEF SlotsKept, Used
    <2> QED
      BY <1>1, <2>2, <2>3, <2>4, InvCloses
  <1>4. CASE ~(Num_sessions >= MaxLib)
    <2>1. /\ tab' = [tab EXCEPT ![ses] = [mbox |-> fd, state |-> "active",
                                          name |-> thr[t].units[1].name, saved |-> <<>>]]
          /\ thr' = Return(t, "ACCEPT_SESSION")
          /\ UNCHANGED <<cfd, net>>
      BY <1>4 DEF Connect_register
    <2>2. \E s \in Slots : tab[s].state = "unused"
      <3>1. Num_sessions \in Nat
        <4>1. IsFiniteSet(Slots)
          BY <1>2, FS_Interval
        <4>2. IsFiniteSet({s \in Slots : tab[s].state # "unused"})
          BY <4>1, FS_Subset
        <4> QED
          BY <4>2, FS_CardinalityType DEF Num_sessions
      <3> QED
        BY <1>2, <1>4, <3>1, UnusedSlot DEF Used
    <2>3. ses \in Slots /\ ~Used(ses)
      <3>1. fd \in Int
        <4>1. \A f \in Fds : f \in Int
          BY LibraryAssumption
        <4> QED
          BY <1>1, <4>1
      <3>2. \A s \in Slots : \E k \in Slots : slot(k) = s
        BY <3>1, EverySlotIsMet
      <3>3. at \subseteq Nat
        BY <1>2
      <3>4. at # {}
        <4>1. PICK s \in Slots : tab[s].state = "unused"
          BY <2>2
        <4>2. PICK k \in Slots : slot(k) = s
          BY <3>2
        <4> QED
          BY <4>1, <4>2
      <3>5. Min(at) \in at
        <4> HIDE DEF at
        <4> QED
          BY <3>3, <3>4, MinIsLeast
      <3>6. PICK k \in Slots : k = Min(at) /\ tab[slot(k)].state = "unused"
        BY <3>5
      <3>7. k \in Int /\ slot(k) \in 0 .. MaxLib - 1
        BY <1>2, <3>1
      <3>8. ses = slot(k)
        BY <3>6
      <3> QED
        BY <1>2, <3>6, <3>7, <3>8 DEF Used
    <2> HIDE DEF ses
    <2>4. /\ DOMAIN tab' = Slots /\ \A s \in Slots : DOMAIN tab'[s] = SlotFields
          /\ tab'[ses].mbox = fd /\ tab'[ses].state # "unused"
          /\ \A s \in Slots \ {ses} : tab'[s] = tab[s]
      <3>1. tab'[ses] = [mbox |-> fd, state |-> "active", name |-> thr[t].units[1].name, saved |-> <<>>]
        BY <1>1, <2>1, <2>3 DEF Shape
      <3>2. DOMAIN tab' = Slots /\ \A s \in Slots \ {ses} : tab'[s] = tab[s]
        BY <1>1, <2>1 DEF Shape
      <3>3. DOMAIN tab'[ses] = SlotFields /\ tab'[ses].mbox = fd /\ tab'[ses].state # "unused"
        BY <3>1 DEF SlotFields
      <3> QED
        BY <1>1, <3>2, <3>3 DEF Shape
    <2>5. /\ DOMAIN thr' = Threads /\ \A u \in Threads : DOMAIN thr'[u] = ThreadFields
          /\ thr'[t].pc = "idle" /\ \A u \in Threads \ {t} : thr'[u] = thr[u]
      BY <1>1, <2>1, Returns
    <2>6. Shape'
      BY <1>1, <2>1, <2>4, <2>5 DEF Shape
    <2>7. cfd[fd] # 0 /\ \A s \in Slots : tab[s].mbox # fd
      BY <1>1 DEF ConnectInv
    <2>8. TableInv'
      <3>1. \A s \in Slots \ {ses} : Used(s)' <=> Used(s)
        BY <2>4 DEF Used
      <3>2. \A s \in Slots : ~Used(s)' => tab'[s].mbox = -1
        BY <1>1, <2>4 DEF TableInv, Used
      <3>3. \A s \in Slots : Used(s)' => tab'[s].mbox \in Fds /\ cfd'[tab'[s].mbox] # 0
        BY <1>1, <2>1, <2>4, <2>7, <3>1 DEF TableInv
      <3>4. \A s, r \in Slots : s # r /\ Used(s)' => tab'[s].mbox # tab'[r].mbox
        BY <1>1, <2>4, <2>7, <3>1 DEF TableInv
      <3> QED
        BY <3>2, <3>3, <3>4 DEF TableInv
    <2>9. \A u \in Threads : Connecting(u)' => u # t /\ Connecting(u) /\ thr'[u] = thr[u]
                                               /\ thr[u].fd # fd
      <3>1. \A u \in Threads : Connecting(u)' => u # t /\ Connecting(u) /\ thr'[u] = thr[u]
        BY <2>5 DEF Connecting
      <3> QED
        BY <1>1, <3>1 DEF ConnectInv
    <2>10. ConnectInv'
      BY <1>1, <2>1, <2>4, <2>5, <2>9 DEF ConnectInv
    <2> QED
      BY <2>6, <2>8, <2>10 DEF LibInv
  <1> QED
    BY <1>3, <1>4

\* SP_kill takes the session out of the table and closes its descriptor.
LEMMA InvKill ==
    ASSUME LibInv, NEW t \in Threads, SP_kill(t)
    PROVE  LibInv'
  <1> DEFINE fd  == thr[t].fd
             ses == SP_get_session(fd)
  <1>1. Shape /\ TableInv /\ fd \in Fds /\ ~Connecting(t) /\ thr' = Return(t, "0")
    BY DEF LibInv, SP_kill, Connecting, ConnectInv
  <1>2. \A f \in Fds : f \in Int /\ f # -1
    BY LibraryAssumption
  <1>3. ThreadsKept /\ thr'[t].pc = "idle" /\ DOMAIN thr' = Threads
        /\ \A u \in Threads : DOMAIN thr'[u] = ThreadFields
    BY <1>1, Returns, OneThread
  <1>4. CASE ses < 0
    <2>1. UNCHANGED <<tab, cfd, net>>
      BY <1>4 DEF SP_kill
    <2>2. ShapesKept /\ NetKept /\ SlotsKept
      BY <1>1, <1>3, <2>1 DEF ShapesKept, Shape, NetKept, SlotsKept, Used
    <2> QED
      BY <1>3, <2>1, <2>2, InvGoesOn
  <1>5. CASE ~(ses < 0)
    <2>1. tab' = [tab EXCEPT ![ses] = Unused] /\ Close(fd)
      BY <1>5 DEF SP_kill
    <2>2. ses \in Slots /\ tab[ses].mbox = fd
      <3>1. ~(-1 < 0) => FALSE
        OBVIOUS
      <3> QED
        BY <1>1, <1>2, <1>5, <3>1, GetSession
    <2>3. Used(ses)
      BY <1>1, <1>2, <2>2 DEF TableInv
    <2> HIDE DEF ses
    <2>4. /\ DOMAIN tab' = Slots /\ tab'[ses] = Unused
          /\ \A s \in Slots \ {ses} : tab'[s] = tab[s]
      BY <1>1, <2>1, <2>2 DEF Shape
    <2>5. DOMAIN tab'[ses] = SlotFields /\ tab'[ses].state = "unused" /\ tab'[ses].mbox = -1
      BY <2>4 DEF Unused, SlotFields
    <2>6. NetKept /\ cfd' = [cfd EXCEPT ![fd] = 0] /\ DOMAIN cfd' = Fds
      BY <1>1, <2>1 DEF Close, NetKept, Shape
    <2>7. ShapesKept
      BY <1>1, <1>3, <2>4, <2>5, <2>6 DEF ShapesKept, Shape
    <2>8. PICK r \in Slots : r = ses
      BY <2>2
    <2>9. /\ Used(r) /\ tab[r].mbox = fd /\ ~Used(r)' /\ tab'[r].mbox = -1
          /\ \A s \in Slots \ {r} : tab'[s] = tab[s]
      BY <2>2, <2>3, <2>4, <2>5, <2>8 DEF Used
    <2> QED
      BY <1>1, <1>3, <2>6, <2>7, <2>9, InvCloses
  <1> QED
    BY <1>4, <1>5

\* An error is entered in the table only at a slot that is in use.
LEMMA FailsKeeps ==
    ASSUME LibInv, NEW t \in Threads, thr[t].fd \in Fds, tab' = Fails(t)
    PROVE  SlotsKept /\ DOMAIN tab' = Slots /\ \A s \in Slots : DOMAIN tab'[s] = SlotFields
  <1> DEFINE ses == thr[t].ses
  <1>1. Shape /\ TableInv
    BY DEF LibInv
  <1>2. CASE ses # SP_get_session(thr[t].fd)
    BY <1>1, <1>2 DEF Fails, SlotsKept, Shape, Used
  <1>3. CASE ses = SP_get_session(thr[t].fd)
    <2>1. \A f \in Fds : f \in Int /\ f # -1
      BY LibraryAssumption
    <2>2. tab' = [tab EXCEPT ![ses].state = "error"]
      BY <1>3 DEF Fails
    <2>3. ses = -1 \/ (ses \in Slots /\ tab[ses].mbox = thr[t].fd)
      BY <1>3, <2>1, GetSession
    <2>4. CASE ses \notin Slots
      <3>1. DOMAIN tab' = Slots /\ \A s \in Slots : tab'[s] = tab[s]
        BY <1>1, <2>2, <2>4 DEF Shape
      <3> QED
        BY <1>1, <3>1 DEF SlotsKept, Shape, Used
    <2>5. CASE ses \in Slots
      <3>1. tab[ses].mbox = thr[t].fd /\ Used(ses)
        <4>1. -1 \notin Slots
          BY LibraryAssumption DEF Slots
        <4>2. tab[ses].mbox = thr[t].fd
          BY <2>3, <2>5, <4>1
        <4> QED
          BY <1>1, <2>1, <2>5, <4>2 DEF TableInv
      <3>2. /\ tab'[ses] = [tab[ses] EXCEPT !.state = "error"] /\ DOMAIN tab' = Slots
            /\ \A s \in Slots \ {ses} : tab'[s] = tab[s]
        BY <1>1, <2>2, <2>5 DEF Shape
      <3>3. DOMAIN tab[ses] = SlotFields
        BY <1>1, <2>5 DEF Shape
      <3>4. /\ tab'[ses].mbox = tab[ses].mbox /\ tab'[ses].state # "unused"
            /\ DOMAIN tab'[ses] = SlotFields
        BY <3>2, <3>3 DEF SlotFields
      <3> QED
        BY <1>1, <3>1, <3>2, <3>4 DEF SlotsKept, Shape, Used
    <2> QED
      BY <2>4, <2>5
  <1> QED
    BY <1>2, <1>3

\* A thread that does not connect goes on in its call, or ends it.
LEMMA InvCall ==
    ASSUME LibInv, NEW t \in Threads, NetKept, SlotsKept, cfd' = cfd,
           DOMAIN tab' = Slots, \A s \in Slots : DOMAIN tab'[s] = SlotFields,
           NEW x, thr' = [thr EXCEPT ![t] = x], DOMAIN x = ThreadFields,
           x.pc = "idle" \/ (x.fd \in Fds /\ x.pc \notin {"hello", "list", "choice", "answer", "register"})
    PROVE  LibInv'
  <1>1. Shape
    BY DEF LibInv
  <1>2. DOMAIN thr' = Threads /\ (\A u \in Threads : DOMAIN thr'[u] = ThreadFields)
        /\ thr'[t] = x /\ \A u \in Threads \ {t} : thr'[u] = thr[u]
    BY <1>1 DEF Shape
  <1>3. ShapesKept
    BY <1>1, <1>2 DEF ShapesKept, Shape
  <1>4. ThreadsKept
    <2>1. x.pc = "idle" \/ (thr'[t].fd \in Fds /\ ~Connecting(t)')
      BY <1>2 DEF Connecting
    <2> QED
      BY <1>2, <2>1, OneThread
  <1> QED
    BY <1>3, <1>4, InvGoesOn

\* Return and Goes, in the form of the lemma above.
LEMMA ReturnForm ==
    ASSUME Shape, NEW t \in Threads, NEW r, thr' = Return(t, r)
    PROVE  \E x : thr' = [thr EXCEPT ![t] = x] /\ DOMAIN x = ThreadFields /\ x.pc = "idle"
  <1> DEFINE x == [Ready(Tail(thr[t].prog)) EXCEPT !.ret = r]
  <1>1. thr' = [thr EXCEPT ![t] = x]
    BY DEF Return, Shape
  <1>2. DOMAIN x = ThreadFields /\ x.pc = "idle"
    BY DEF Ready, ThreadFields
  <1> QED
    BY <1>1, <1>2

\* Calls that send or receive: they look a session up, hold its mutexes, and
\* enter errors and headers in its slot.
LEMMA InvSend ==
    ASSUME LibInv, NEW t \in Threads, Multicast_lookup(t) \/ Send_lock(t) \/ Send_piece(t)
    PROVE  LibInv'
  <1>1. Shape /\ ConnectInv /\ cfd' = cfd
    BY DEF LibInv, Multicast_lookup, Send_lock, Send_piece
  <1>2. ASSUME UNCHANGED tab
        PROVE  SlotsKept /\ DOMAIN tab' = Slots /\ \A s \in Slots : DOMAIN tab'[s] = SlotFields
    BY <1>1, <1>2 DEF SlotsKept, Shape, Used
  <1>3. ASSUME NEW r, thr' = Return(t, r)
        PROVE  \E x : thr' = [thr EXCEPT ![t] = x] /\ DOMAIN x = ThreadFields /\ x.pc = "idle"
    BY <1>1, <1>3, ReturnForm
  <1>4. UNCHANGED net => NetKept
    BY <1>1 DEF Shape, NetKept
  <1>5. CASE Multicast_lookup(t)
    <2> DEFINE mbox == box[Call(t).h]
               ses  == SP_get_session(mbox)
    <2>1. UNCHANGED <<tab, net>> /\ mbox \in Fds
      BY <1>5 DEF Multicast_lookup
    <2>2. \/ \E r : thr' = Return(t, r)
          \/ thr' = [thr EXCEPT ![t].pc = "kill", ![t].fd = mbox]
          \/ \E u : thr' = [thr EXCEPT ![t].pc = "sendlock", ![t].fd = mbox, ![t].ses = ses,
                                       ![t].units = u]
      <3>1. thr' = IF ses < 0 THEN Return(t, "ILLEGAL_SESSION")
                 ELSE IF tab[ses].state # "active"
                      THEN IF Call(t).op = "kill"
                           THEN [thr EXCEPT ![t].pc = "kill", ![t].fd = mbox]
                           ELSE Return(t, "NET_ERROR_ON_SESSION")
                 ELSE IF Call(t).ng + Call(t).len > MaxBody THEN Return(t, "MESSAGE_TOO_LONG")
                 ELSE [thr EXCEPT ![t].pc = "sendlock", ![t].fd = mbox, ![t].ses = ses,
                                  ![t].units = Units(Message_of(t, tab[ses].name))]
        BY <1>5 DEF Multicast_lookup
      <3> HIDE DEF mbox, ses
      <3> QED
        BY <3>1
    <2>3. \E x : /\ thr' = [thr EXCEPT ![t] = x] /\ DOMAIN x = ThreadFields
                 /\ x.pc = "idle" \/ (x.fd \in Fds /\ x.pc \in {"kill", "sendlock"})
      <3> HIDE DEF mbox, ses
      <3>1. CASE \E r : thr' = Return(t, r)
        BY <1>3, <3>1
      <3>2. CASE thr' = [thr EXCEPT ![t].pc = "kill", ![t].fd = mbox]
        <4> DEFINE x == [thr[t] EXCEPT !.pc = "kill", !.fd = mbox]
        <4>1. thr' = [thr EXCEPT ![t] = x]
          BY <1>1, <3>2 DEF Shape
        <4>2. DOMAIN x = ThreadFields /\ x.fd = mbox /\ x.pc = "kill"
          BY <1>1 DEF Shape, ThreadFields
        <4> QED
          BY <2>1, <4>1, <4>2
      <3>3. ASSUME NEW u, thr' = [thr EXCEPT ![t].pc = "sendlock", ![t].fd = mbox, ![t].ses = ses,
                                             ![t].units = u]
            PROVE  \E x : /\ thr' = [thr EXCEPT ![t] = x] /\ DOMAIN x = ThreadFields
                          /\ x.fd \in Fds /\ x.pc = "sendlock"
        <4> DEFINE x == [thr[t] EXCEPT !.pc = "sendlock", !.fd = mbox, !.ses = ses, !.units = u]
        <4>1. thr' = [thr EXCEPT ![t] = x]
          BY <1>1, <3>3 DEF Shape
        <4>2. DOMAIN x = ThreadFields /\ x.fd = mbox /\ x.pc = "sendlock"
          BY <1>1 DEF Shape, ThreadFields
        <4> QED
          BY <2>1, <4>1, <4>2
      <3> QED
        BY <2>2, <3>1, <3>2, <3>3
    <2> QED
      BY <1>1, <1>2, <1>4, <2>1, <2>3, InvCall
  <1>6. ASSUME NEW pc, thr' = Goes(t, pc)
        PROVE  \E x : /\ thr' = [thr EXCEPT ![t] = x] /\ DOMAIN x = ThreadFields
                      /\ x.pc = pc /\ x.fd = thr[t].fd
    <2> DEFINE x == [thr[t] EXCEPT !.pc = pc]
    <2>1. thr' = [thr EXCEPT ![t] = x]
      BY <1>1, <1>6 DEF Goes, Shape
    <2>2. DOMAIN x = ThreadFields /\ x.pc = pc /\ x.fd = thr[t].fd
      BY <1>1 DEF Shape, ThreadFields
    <2> QED
      BY <2>1, <2>2
  <1>7. CASE Send_lock(t)
    <2>1. UNCHANGED <<tab, net>> /\ thr' = Goes(t, "send") /\ thr[t].fd \in Fds
      BY <1>1, <1>7 DEF Send_lock, ConnectInv
    <2> QED
      BY <1>1, <1>2, <1>4, <1>6, <2>1, InvCall
  <1>8. CASE Send_piece(t)
    <2>1. thr[t].pc = "send" /\ thr[t].fd \in Fds
      BY <1>1, <1>8 DEF Send_piece, ConnectInv
    <2>2. ASSUME NEW r, thr' = After_send(t, r)
          PROVE  \E x : /\ thr' = [thr EXCEPT ![t] = x] /\ DOMAIN x = ThreadFields
                        /\ x.pc = "idle" \/ (x.fd \in Fds /\ x.pc = "kill")
      BY <1>3, <1>6, <2>1, <2>2 DEF After_send
    <2>3. \/ NetKept /\ UNCHANGED tab /\ \/ \E r : thr' = After_send(t, r)
                                         \/ \E u : thr' = [thr EXCEPT ![t].units = u]
          \/ UNCHANGED net /\ tab' = Fails(t) /\ \E r : thr' = After_send(t, r)
      <3> DEFINE c == cfd[thr[t].fd]
                 u == thr[t].units
                 k == Least(Len(u), Room - Len(net[c].up))
      <3>1. \/ /\ net' = [net EXCEPT ![c].up = @ \o SubSeq(u, 1, k)]
               /\ tab' = tab
               /\ thr' = After_send(t, "sent") \/ thr' = [thr EXCEPT ![t].units = Rest(u, k)]
            \/ /\ tab' = Fails(t)
               /\ thr' = After_send(t, Closed)
               /\ net' = net
        BY <1>8 DEF Send_piece
      <3>2. ASSUME net' = [net EXCEPT ![c].up = @ \o SubSeq(u, 1, k)] PROVE NetKept
        BY <1>1, <3>2 DEF NetKept, Shape
      <3>3. ASSUME thr' = [thr EXCEPT ![t].units = Rest(u, k)]
            PROVE  \E v : thr' = [thr EXCEPT ![t].units = v]
        BY <3>3
      <3> HIDE DEF c, u, k
      <3>4. \A r : thr' = After_send(t, r) => \E q : thr' = After_send(t, q)
        OBVIOUS
      <3> QED
        BY <3>1, <3>2, <3>3, <3>4
    <2>4. ASSUME NEW u, thr' = [thr EXCEPT ![t].units = u]
          PROVE  \E x : /\ thr' = [thr EXCEPT ![t] = x] /\ DOMAIN x = ThreadFields
                        /\ x.fd \in Fds /\ x.pc = "send"
      <3> DEFINE x == [thr[t] EXCEPT !.units = u]
      <3>1. thr' = [thr EXCEPT ![t] = x]
        BY <1>1, <2>4 DEF Shape
      <3>2. DOMAIN x = ThreadFields /\ x.pc = "send" /\ x.fd = thr[t].fd
        BY <1>1, <2>1 DEF Shape, ThreadFields
      <3> QED
        BY <2>1, <3>1, <3>2
    <2>5. NetKept /\ SlotsKept /\ DOMAIN tab' = Slots /\ \A s \in Slots : DOMAIN tab'[s] = SlotFields
      BY <1>2, <1>4, <2>1, <2>3, FailsKeeps
    <2>6. PICK x : /\ thr' = [thr EXCEPT ![t] = x] /\ DOMAIN x = ThreadFields
                   /\ x.pc = "idle" \/ (x.fd \in Fds /\ x.pc \in {"kill", "send"})
      BY <2>2, <2>3, <2>4
    <2> QED
      BY <1>1, <2>5, <2>6, InvCall
  <1> QED
    BY <1>5, <1>7, <1>8

\* A header that is kept or forgotten, in whatever slot.
LEMMA SavedKeeps ==
    ASSUME Shape, NEW r, NEW v, tab' = [tab EXCEPT ![r].saved = v]
    PROVE  SlotsKept /\ DOMAIN tab' = Slots /\ \A s \in Slots : DOMAIN tab'[s] = SlotFields
  <1>1. DOMAIN tab' = Slots /\ \A s \in Slots : tab'[s] = tab[s] \/ tab'[s] = [tab[s] EXCEPT !.saved = v]
    BY DEF Shape
  <1>2. ASSUME NEW s \in Slots
        PROVE  tab'[s].mbox = tab[s].mbox /\ (Used(s)' <=> Used(s)) /\ DOMAIN tab'[s] = SlotFields
    <2>1. DOMAIN tab[s] = SlotFields
      BY DEF Shape
    <2>2. CASE tab'[s] = tab[s]
      BY <2>1, <2>2 DEF Used
    <2>3. CASE tab'[s] = [tab[s] EXCEPT !.saved = v]
      BY <2>1, <2>3 DEF Used, SlotFields
    <2> QED
      BY <1>1, <2>2, <2>3
  <1> QED
    BY <1>1, <1>2 DEF SlotsKept

LEMMA InvReceive ==
    ASSUME LibInv, NEW t \in Threads,
           \/ Receive_lookup(t) \/ Receive_lock(t) \/ Receive_head(t) \/ Receive_check(t)
           \/ Receive_body(t) \/ Receive_done(t)
    PROVE  LibInv'
  <1> DEFINE working == {"recvlock", "head", "check", "body", "done"}
             Goes_on == \E x : /\ thr' = [thr EXCEPT ![t] = x] /\ DOMAIN x = ThreadFields
                               /\ x.pc = "idle" \/ (x.fd \in Fds /\ x.pc \in working)
             Table_kept == SlotsKept /\ DOMAIN tab' = Slots /\ \A s \in Slots : DOMAIN tab'[s] = SlotFields
  <1>1. Shape /\ ConnectInv /\ cfd' = cfd
    BY DEF LibInv, Receive_lookup, Receive_lock, Receive_head, Receive_check, Receive_body,
           Receive_done
  <1>2. ASSUME NetKept, Table_kept, Goes_on PROVE LibInv'
    BY <1>1, <1>2, InvCall
  <1>3. (\E r : thr' = Return(t, r)) => Goes_on
    BY <1>1, ReturnForm
  <1>4. ASSUME thr[t].fd \in Fds, NEW pc \in working,
               \/ thr' = Goes(t, pc)
               \/ \E u : thr' = [thr EXCEPT ![t].units = u] /\ pc = thr[t].pc
               \/ \E u : thr' = [thr EXCEPT ![t].units = u, ![t].pc = pc]
               \/ \E u, v : thr' = [thr EXCEPT ![t].units = u, ![t].saved = v, ![t].pc = pc]
        PROVE  Goes_on
    <2>1. CASE thr' = Goes(t, pc)
      <3> DEFINE x == [thr[t] EXCEPT !.pc = pc]
      <3>1. thr' = [thr EXCEPT ![t] = x]
        BY <1>1, <2>1 DEF Goes, Shape
      <3>2. DOMAIN x = ThreadFields /\ x.pc = pc /\ x.fd = thr[t].fd
        BY <1>1 DEF Shape, ThreadFields
      <3> QED
        BY <1>4, <3>1, <3>2
    <2>2. ASSUME NEW u, thr' = [thr EXCEPT ![t].units = u], pc = thr[t].pc PROVE Goes_on
      <3> DEFINE x == [thr[t] EXCEPT !.units = u]
      <3>1. thr' = [thr EXCEPT ![t] = x]
        BY <1>1, <2>2 DEF Shape
      <3>2. DOMAIN x = ThreadFields /\ x.pc = pc /\ x.fd = thr[t].fd
        BY <1>1, <2>2 DEF Shape, ThreadFields
      <3> QED
        BY <1>4, <3>1, <3>2
    <2>3. ASSUME NEW u, thr' = [thr EXCEPT ![t].units = u, ![t].pc = pc] PROVE Goes_on
      <3> DEFINE x == [thr[t] EXCEPT !.units = u, !.pc = pc]
      <3>1. thr' = [thr EXCEPT ![t] = x]
        BY <1>1, <2>3 DEF Shape
      <3>2. DOMAIN x = ThreadFields /\ x.pc = pc /\ x.fd = thr[t].fd
        BY <1>1 DEF Shape, ThreadFields
      <3> QED
        BY <1>4, <3>1, <3>2
    <2>4. ASSUME NEW u, NEW v, thr' = [thr EXCEPT ![t].units = u, ![t].saved = v, ![t].pc = pc]
          PROVE  Goes_on
      <3> DEFINE x == [thr[t] EXCEPT !.units = u, !.saved = v, !.pc = pc]
      <3>1. thr' = [thr EXCEPT ![t] = x]
        BY <1>1, <2>4 DEF Shape
      <3>2. DOMAIN x = ThreadFields /\ x.pc = pc /\ x.fd = thr[t].fd
        BY <1>1 DEF Shape, ThreadFields
      <3> QED
        BY <1>4, <3>1, <3>2
    <2> HIDE DEF Goes_on
    <2> QED
      BY <1>4, <2>1, <2>2, <2>3, <2>4
  <1>5. tab' = tab => Table_kept
    BY <1>1 DEF SlotsKept, Shape, Used
  <1>6. thr[t].fd \in Fds /\ tab' = Fails(t) => Table_kept
    BY FailsKeeps
  <1>7. (\E r, v : tab' = [tab EXCEPT ![r].saved = v]) => Table_kept
    BY <1>1, SavedKeeps
  <1>8. net' = net => NetKept
    BY <1>1 DEF Shape, NetKept
  <1>9. thr[t].pc # "idle" => thr[t].fd \in Fds
    BY <1>1 DEF ConnectInv
  <1>10. CASE Receive_lookup(t)
    <2> DEFINE mbox == box[Call(t).h]
               ses  == SP_get_session(mbox)
    <2>1. UNCHANGED <<tab, net>> /\ mbox \in Fds
      BY <1>10 DEF Receive_lookup
    <2>2. \/ \E r : thr' = Return(t, r)
          \/ thr' = [thr EXCEPT ![t].pc = "recvlock", ![t].fd = mbox, ![t].ses = ses]
      <3>1. thr' = IF ses < 0 THEN Return(t, "ILLEGAL_SESSION")
                   ELSE IF tab[ses].state # "active" THEN Return(t, "NET_ERROR_ON_SESSION")
                   ELSE [thr EXCEPT ![t].pc = "recvlock", ![t].fd = mbox, ![t].ses = ses]
        BY <1>10 DEF Receive_lookup
      <3> HIDE DEF mbox, ses
      <3> QED
        BY <3>1
    <2> HIDE DEF mbox, ses
    <2>3. CASE thr' = [thr EXCEPT ![t].pc = "recvlock", ![t].fd = mbox, ![t].ses = ses]
      <3> DEFINE x == [thr[t] EXCEPT !.pc = "recvlock", !.fd = mbox, !.ses = ses]
      <3>1. thr' = [thr EXCEPT ![t] = x]
        BY <1>1, <2>3 DEF Shape
      <3>2. DOMAIN x = ThreadFields /\ x.pc = "recvlock" /\ x.fd = mbox
        BY <1>1 DEF Shape, ThreadFields
      <3>3. Goes_on
        BY <2>1, <3>1, <3>2
      <3> QED
        BY <1>2, <1>5, <1>8, <2>1, <3>3
    <2> HIDE DEF Goes_on, Table_kept
    <2> QED
      BY <1>2, <1>3, <1>5, <1>8, <2>1, <2>2, <2>3
  <1> HIDE DEF Goes_on, Table_kept
  <1>11. CASE Receive_lock(t)
    <2>1. UNCHANGED <<tab, net>> /\ thr[t].fd \in Fds
      BY <1>9, <1>11 DEF Receive_lock
    <2>2. \/ \E r : thr' = Return(t, r)
          \/ \E u, v, p : /\ thr' = [thr EXCEPT ![t].units = u, ![t].saved = v, ![t].pc = p]
                          /\ p \in {"head", "check"}
      <3> DEFINE u == tab[thr[t].ses].saved
                 v == tab[thr[t].ses].saved # <<>>
                 p == IF tab[thr[t].ses].saved = <<>> THEN "head" ELSE "check"
      <3>1. (\E r : thr' = Return(t, r)) \/ thr' = [thr EXCEPT ![t].units = u, ![t].saved = v, ![t].pc = p]
        BY <1>11 DEF Receive_lock
      <3>2. p \in {"head", "check"}
        OBVIOUS
      <3> HIDE DEF u, v, p
      <3> QED
        BY <3>1, <3>2
    <2>3. ASSUME NEW p, p \in {"head", "check"},
                 \E u, v : thr' = [thr EXCEPT ![t].units = u, ![t].saved = v, ![t].pc = p]
          PROVE  Goes_on
      <3>1. p \in working
        BY <2>3
      <3> HIDE DEF working
      <3> QED
        BY <1>4, <2>1, <2>3, <3>1
    <2>4. Goes_on
      BY <1>3, <2>2, <2>3
    <2> QED
      BY <1>2, <1>5, <1>8, <2>1, <2>4
  <1>12. ASSUME Receive_fails(t), thr[t].fd \in Fds PROVE LibInv'
    BY <1>2, <1>3, <1>6, <1>8, <1>12 DEF Receive_fails
  <1>13. CASE Receive_head(t)
    <2> DEFINE c == cfd[thr[t].fd]
    <2>1. CASE Receive_fails(t)
      BY <1>9, <1>12, <1>13, <2>1 DEF Receive_head
    <2>2. CASE ~Receive_fails(t)
      <3>1. /\ net' = [net EXCEPT ![c].down = Tail(@)]
            /\ \E u : thr' = [thr EXCEPT ![t].units = u, ![t].pc = "check"]
            /\ tab' = tab
        BY <1>13, <2>2 DEF Receive_head
      <3>2. NetKept
        BY <1>1, <3>1 DEF Shape, NetKept
      <3>3. thr[t].fd \in Fds
        BY <1>9, <1>13 DEF Receive_head
      <3>4. Goes_on
        BY <1>4, <3>1, <3>3
      <3> QED
        BY <1>2, <1>5, <3>1, <3>2, <3>4
    <2> QED
      BY <2>1, <2>2
  <1>14. CASE Receive_check(t)
    <2>1. net' = net /\ thr[t].fd \in Fds
      BY <1>9, <1>14 DEF Receive_check
    <2>2. tab' = tab \/ \E r, v : tab' = [tab EXCEPT ![r].saved = v]
      BY <1>14 DEF Receive_check
    <2>3. (\E r : thr' = Return(t, r)) \/ thr' = Goes(t, "body")
      BY <1>14 DEF Receive_check
    <2>4. Goes_on
      BY <1>3, <1>4, <2>1, <2>3
    <2> QED
      BY <1>2, <1>5, <1>7, <1>8, <2>1, <2>2, <2>4
  <1>15. CASE Receive_body(t)
    <2> DEFINE c == cfd[thr[t].fd]
               need == Remain(thr[t].units)
               k == Least(need, Len(net[c].down))
    <2>1. CASE Receive_fails(t)
      BY <1>9, <1>12, <1>15, <2>1 DEF Receive_body
    <2>2. CASE ~Receive_fails(t)
      <3>1. /\ tab' = tab
            /\ \/ net' = net /\ thr' = Goes(t, "done")
               \/ /\ net' = [net EXCEPT ![c].down = Rest(@, k)]
                  /\ thr' = [thr EXCEPT ![t].units = @ \o SubSeq(net[c].down, 1, k)]
        BY <1>15, <2>2 DEF Receive_body
      <3> HIDE DEF c, k
      <3>2. NetKept
        BY <1>1, <1>8, <3>1 DEF Shape, NetKept
      <3>3. thr[t].fd \in Fds /\ thr[t].pc = "body"
        BY <1>9, <1>15 DEF Receive_body
      <3>4. thr' = Goes(t, "done") \/ \E u : thr' = [thr EXCEPT ![t].units = u]
        BY <3>1
      <3>5. Goes_on
        BY <1>4, <3>3, <3>4
      <3> QED
        BY <1>2, <1>5, <3>1, <3>2, <3>5
    <2> QED
      BY <2>1, <2>2
  <1>16. CASE Receive_done(t)
    <2>1. \E r : thr' = Return(t, r)
      BY <1>16 DEF Receive_done
    <2>2. tab' = tab \/ \E r, v : tab' = [tab EXCEPT ![r].saved = v]
      BY <1>16 DEF Receive_done
    <2>3. net' = net \/ net' = [net EXCEPT ![cfd[thr[t].fd]].received = Append(@, thr[t].units)]
      BY <1>16 DEF Receive_done
    <2>4. NetKept
      BY <1>1, <1>8, <2>3 DEF Shape, NetKept
    <2> QED
      BY <1>2, <1>3, <1>5, <1>7, <2>1, <2>2, <2>4
  <1> QED
    BY <1>10, <1>11, <1>13, <1>14, <1>15, <1>16

\* Steps that change nothing of the library but its connections: they stay
\* connections.
LEMMA InvElsewhere ==
    ASSUME LibInv, UNCHANGED <<thr, tab, cfd>>, NetKept
    PROVE  LibInv'
  <1>1. ShapesKept /\ SlotsKept
    BY DEF LibInv, Shape, ShapesKept, SlotsKept, Used
  <1>2. ThreadsKept
    BY DEF LibInv, ConnectInv, ThreadsKept, Connecting
  <1> QED
    BY <1>1, <1>2, InvGoesOn

\* The process ends, with everything it has open.
LEMMA InvExit ==
    ASSUME LibInv, NEW t \in Threads, Exit(t)
    PROVE  LibInv'
  <1>1. /\ thr' = [u \in Threads |-> Ready(<<>>)] /\ tab' = [s \in Slots |-> Unused]
        /\ cfd' = [f \in Fds |-> 0]
    BY DEF Exit
  <1>2. NetKept
    BY DEF Exit, NetKept
  <1>3. \E S : net' \in Seq(S)
    BY <1>2, NetStays DEF LibInv, Shape
  <1>4. /\ \A u \in Threads : thr'[u].pc = "idle" /\ DOMAIN thr'[u] = ThreadFields
        /\ \A s \in Slots : tab'[s].mbox = -1 /\ tab'[s].state = "unused" /\ DOMAIN tab'[s] = SlotFields
    BY <1>1 DEF Ready, Unused, ThreadFields, SlotFields
  <1>5. Shape'
    BY <1>1, <1>3, <1>4 DEF Shape
  <1>6. TableInv'
    BY <1>4 DEF TableInv, Used
  <1>7. ConnectInv'
    BY <1>4 DEF ConnectInv, Connecting
  <1> QED
    BY <1>5, <1>6, <1>7 DEF LibInv

----------------------------------------------------------------------------
(* Steps of the daemon: the handlers work on a copy of its state, whose    *)
(* connections are those there were.                                       *)

Nets(st) == DOMAIN st = {"sess", "net", "down"} /\ st.net = [c \in DOMAIN net |-> st.net[c]]

LEMMA NetsOfState == Shape => Nets(State)
  BY DEF Shape, Nets, State

LEMMA NetsOfClear ==
    ASSUME NEW st, NEW f, Nets(st)
    PROVE  Nets(Sess_clear_session(st, f))
  BY DEF Nets, Sess_clear_session

LEMMA NetsOfKill ==
    ASSUME NEW st, NEW f, Nets(st)
    PROVE  Nets(Sess_kill(st, f))
  <1>1. Nets([st EXCEPT !.down = Append(@, Kill_mess(st.sess[f].name))])
    BY DEF Nets
  <1> QED
    BY <1>1, NetsOfClear DEF Sess_kill

LEMMA NetsOfBadger ==
    ASSUME NEW st, NEW f, Nets(st)
    PROVE  Nets(Badger(st, f))
  <1>1. ASSUME NEW c, NEW x, NEW q, NEW n
        PROVE  Nets([st EXCEPT !.net[c].down = x, !.sess[f].queue = q, !.sess[f].sent = n])
    BY DEF Nets
  <1> QED
    BY <1>1 DEF Badger

LEMMA NetsOfWrite ==
    ASSUME NEW st, NEW f, NEW m, Nets(st)
    PROVE  Nets(Sess_write(st, f, m))
  <1>1. Nets([st EXCEPT !.sess[f].queue = Append(@, m), !.net[dfd[f]].written = Append(@, m)])
    BY DEF Nets
  <1> QED
    BY <1>1, NetsOfKill, NetsOfBadger DEF Sess_write

LEMMA NetsOfMessage ==
    ASSUME NEW st, NEW f, NEW units, Nets(st)
    PROVE  Nets(Handle_message(st, f, units))
  <1> DEFINE m  == units[1].of
             s1 == [st EXCEPT !.sess[f].read = <<>>, !.net[dfd[f]].handled = Append(@, units)]
             s2 == [s1 EXCEPT !.down = Append(@, m)]
  <1>1. Nets(s1)
    BY DEF Nets
  <1>2. Nets(s2)
    <2> HIDE DEF s1
    <2> QED
      BY <1>1 DEF Nets
  <1>3. /\ Nets(Sess_write(s1, f, Reject_of(m)))
        /\ Nets(Sess_clear_session(s2, f))
    <2> HIDE DEF s1, s2, m
    <2> QED
      BY <1>1, <1>2, NetsOfWrite, NetsOfClear
  <1>4. \/ Handle_message(st, f, units) = Sess_write(s1, f, Reject_of(m))
        \/ Handle_message(st, f, units) = Sess_clear_session(s2, f)
        \/ Handle_message(st, f, units) = s2
    BY DEF Handle_message
  <1> HIDE DEF s1, s2, m
  <1> QED
    BY <1>2, <1>3, <1>4

LEMMA DaemonKeepsNet ==
    ASSUME Shape, DaemonStep
    PROVE  NetKept
  <1>1. ASSUME NEW c, NEW code, net' = Reject(net, c, code) PROVE NetKept
    BY <1>1 DEF Reject, Shape, NetKept
  <1>2. UNCHANGED net => NetKept
    BY DEF Shape, NetKept
  <1>3. ASSUME NEW st, Nets(st), net' = st.net PROVE NetKept
    BY <1>3 DEF Nets, NetKept
  <1>4. CASE Sess_accept
    BY <1>1, <1>2, <1>4 DEF Sess_accept
  <1>5. ASSUME NEW c, NEW code, Turn_away(c, code) PROVE NetKept
    <2>1. net' = [net EXCEPT ![c].dend = FALSE] \/ net' = Reject(net, c, code)
      BY <1>5 DEF Turn_away
    <2>2. net' = [net EXCEPT ![c].dend = FALSE] => NetKept
      BY DEF Shape, NetKept
    <2> QED
      BY <1>1, <2>1, <2>2
  <1>6. CASE Sess_accept_continue
    <2> DEFINE c  == dfd[acc]
               up == net[c].up
               n  == [net EXCEPT ![c].up = Rest(@, IF up[1].named THEN 2 ELSE 1)]
    <2>1. n = [d \in DOMAIN net |-> n[d]]
      BY DEF Shape
    <2>2. ASSUME NEW name, NEW version, Admit(n, c, name, version) PROVE NetKept
      <3> HIDE DEF n, c
      <3> DEFINE answer == IF version = "new" THEN [unit |-> "list", methods |-> Enabled]
                           ELSE [unit |-> "accept", name |-> name]
                 told(b) == IF b THEN [n EXCEPT ![c].down = Append(@, answer)] ELSE n
      <3>1. PICK b \in BOOLEAN : net' = told(b) \/ net' = Reject(told(b), c, "REJECT_AUTH")
        BY <2>2 DEF Admit
      <3>2. told(b) = [d \in DOMAIN net |-> told(b)[d]]
        <4> HIDE DEF answer
        <4> QED
          BY <2>1
      <3> HIDE DEF told
      <3> QED
        BY <3>1, <3>2 DEF Reject, NetKept
    <2>3. \/ \E code : Turn_away(c, code)
          \/ \E name, version : Admit(n, c, name, version)
      BY <1>6 DEF Sess_accept_continue
    <2> HIDE DEF n, c
    <2> QED
      BY <1>5, <2>2, <2>3
  <1>7. ASSUME NEW f \in DFds, Sess_recv_client_auth(f) PROVE NetKept
    <2>1. \/ net' = Reject(net, dfd[f], "REJECT_AUTH")
          \/ net' = [net EXCEPT ![dfd[f]].up = Rest(@, 2),
                                ![dfd[f]].down = Append(@, [unit |-> "accept", name |-> sess[f].name])]
      BY <1>7 DEF Sess_recv_client_auth
    <2> QED
      BY <1>1, <2>1 DEF Shape, NetKept
  <1>8. ASSUME NEW f \in DFds, Sess_read(f) PROVE NetKept
    <2> DEFINE c    == dfd[f]
               up   == net[c].up
               old  == sess[f].read
               head == IF old = <<>> THEN up[1] ELSE old[1]
               read == Read_more(old, up, Size(head.of))
               took == [State EXCEPT !.net[c].up = Rest(@, Len(read) - Len(old)), !.sess[f].read = read]
               cut  == [State EXCEPT !.net[c].up = Tail(@)]
    <2>1. Nets(State)
      BY NetsOfState
    <2>2. Nets(took)
      <3> HIDE DEF read, old, c
      <3> QED
        BY <2>1 DEF Nets
    <2>3. Nets(cut)
      BY <2>1 DEF Nets
    <2>4. \/ net' = Sess_kill(State, f).net
          \/ net' = Sess_kill(cut, f).net
          \/ net' = Handle_message(took, f, read).net
          \/ net' = Sess_kill(took, f).net
          \/ net' = took.net
      <3> DEFINE st == IF up = <<>> THEN Sess_kill(State, f)
                       ELSE IF old = <<>> /\ ~Valid_header(f, head) THEN Sess_kill(cut, f)
                       ELSE IF Len(read) = Size(head.of) THEN Handle_message(took, f, read)
                       ELSE IF Len(read) = 1 /\ ~net[c].cend THEN Sess_kill(took, f)
                       ELSE took
      <3>1. net' = st.net
        BY <1>8 DEF Sess_read
      <3> HIDE DEF took, cut, read, head, old, up, c
      <3> QED
        BY <3>1
    <2> HIDE DEF took, cut, read
    <2>5. Nets(Sess_kill(State, f)) /\ Nets(Sess_kill(cut, f)) /\ Nets(Sess_kill(took, f))
      BY <2>1, <2>2, <2>3, NetsOfKill
    <2>6. Nets(Handle_message(took, f, read))
      BY <2>2, NetsOfMessage
    <2> QED
      BY <1>3, <2>2, <2>4, <2>5, <2>6
  <1>9. ASSUME NEW f \in DFds, Sess_badger(f) PROVE NetKept
    <2>1. net' = Badger(State, f).net /\ Nets(Badger(State, f))
      BY <1>9, NetsOfState, NetsOfBadger DEF Sess_badger
    <2> QED
      BY <1>3, <2>1
  <1>10. CASE Sess_deliver_message
    <2>1. \E st : net' = [c \in DOMAIN net |-> st.net[c]]
      BY <1>10 DEF Sess_deliver_message
    <2> QED
      BY <2>1 DEF NetKept
  <1> QED
    BY <1>4, <1>6, <1>7, <1>8, <1>9, <1>10 DEF DaemonStep

----------------------------------------------------------------------------
(* The theorem.                                                            *)

LEMMA InitIsGood == Init => LibInv
  <1> SUFFICES ASSUME Init PROVE LibInv
    OBVIOUS
  <1>1. PICK p \in Programs : thr = [t \in Threads |-> Ready(p[t])]
    BY DEF Init, LibInit
  <1>2. /\ tab = [s \in Slots |-> Unused] /\ cfd = [f \in Fds |-> 0] /\ net = <<>>
    BY DEF Init, LibInit
  <1>3. /\ \A u \in Threads : thr[u].pc = "idle" /\ DOMAIN thr[u] = ThreadFields
        /\ \A s \in Slots : tab[s].mbox = -1 /\ tab[s].state = "unused" /\ DOMAIN tab[s] = SlotFields
    BY <1>1, <1>2 DEF Ready, Unused, ThreadFields, SlotFields
  <1>4. net \in Seq({})
    BY <1>2
  <1>5. Shape
    BY <1>1, <1>2, <1>3, <1>4 DEF Shape
  <1>6. TableInv /\ ConnectInv
    BY <1>3 DEF TableInv, ConnectInv, Connecting, Used
  <1> QED
    BY <1>5, <1>6 DEF LibInv

LEMMA NextIsGood ==
    ASSUME LibInv, [Next]_vars
    PROVE  LibInv'
  <1>1. ASSUME NEW t \in Threads, LibStep(t) PROVE LibInv'
    BY <1>1, InvOpen, InvConnecting, InvRegister, InvSend, InvKill, InvReceive, InvExit DEF LibStep
  <1>2. CASE DaemonStep /\ UNCHANGED lib
    <2>1. NetKept
      BY <1>2, DaemonKeepsNet DEF LibInv
    <2> QED
      BY <1>2, <2>1, InvElsewhere DEF lib
  <1>3. CASE UNCHANGED vars
    <2>1. UNCHANGED <<thr, tab, cfd, net>>
      BY <1>3 DEF vars, lib
    <2>2. NetKept
      BY <2>1 DEF LibInv, Shape, NetKept
    <2> QED
      BY <2>1, <2>2, InvElsewhere
  <1> QED
    BY <1>1, <1>2, <1>3 DEF Next

\* A session that is connected is found by SP_get_session under its mailbox, for
\* any size of the table, any descriptors, threads and programs: the table never
\* holds a mailbox twice, because a descriptor is only given out again when it is
\* closed, and nothing closes it while it is in the table.
THEOREM SessionsAreFoundCorrect == Spec => []SessionsAreFound
  <1>1. Init => LibInv
    BY InitIsGood
  <1>2. LibInv /\ [Next]_vars => LibInv'
    BY NextIsGood
  <1>3. LibInv => SessionsAreFound
    BY UsedIsFound
  <1> QED
    BY <1>1, <1>2, <1>3, PTL DEF Spec

=============================================================================
