----------------------------- MODULE SpLibrary ------------------------------
(***************************************************************************)
(* libspread/sp.c: the library a client process talks to its daemon with.  *)
(* Threads of one process call it, each a program of calls.  What          *)
(* Struct_mutex protects is one step; a step ends where a thread may wait: *)
(* for a socket, or for the receive or send mutex of a session.            *)
(***************************************************************************)
EXTENDS Streams

CONSTANTS Threads, Handles,
          MaxLib,        \* MAX_LIB_SESSIONS
          Fds,           \* the descriptors the process may have, 0 .. n
          MaxListen,     \* connections the daemon's socket holds before accept
          MaxBody        \* MAX_MESSAGE_BODY_LEN

ASSUME LibraryAssumption == MaxLib \in Nat \ {0} /\ Fds \subseteq Nat

VARIABLES
    thr,    \* per thread: the calls left, where the current one is and its registers
    tab,    \* Sessions[]: mbox, state and the header of a message that did not fit
    recvm, sendm,  \* per slot: the holder of recv_mutex and of send_mutex
    cfd,    \* the connection a descriptor of the process stands for, 0 if closed
    box     \* the mailbox the application keeps for a handle; a thread calls with a
            \* mailbox, so it waits for the one that connects, -1 until then

lib == <<thr, tab, recvm, sendm, cfd, box>>

None   == "none"
Closed == "CONNECTION_CLOSED"
Slots  == 0 .. MaxLib - 1
Unused == [mbox |-> -1, state |-> "unused", name |-> None, saved |-> <<>>]
Ready(prog) == [prog |-> prog, pc |-> "idle", fd |-> -1, ses |-> -1,
                units |-> <<>>, saved |-> FALSE, ret |-> None]

Call(t)       == Head(thr[t].prog)
Calling(t, ops) == thr[t].pc = "idle" /\ thr[t].prog # <<>> /\ Call(t).op \in ops
Goes(t, pc)   == [thr EXCEPT ![t].pc = pc]
Return(t, r)  == [thr EXCEPT ![t] = [Ready(Tail(@.prog)) EXCEPT !.ret = r]]

\* mutant: a search that gives up at the first free slot
SP_get_session_early(mbox) ==
    LET slot(k) == (mbox + k) % MaxLib
        at == {k \in Slots : tab[slot(k)].mbox = mbox
                             /\ \A j \in 0 .. k : tab[slot(j)].state # "unused"}
    IN  IF at = {} THEN -1 ELSE slot(Min(at))

\* SP_get_session: the whole table is searched, from the slot the mailbox hashes to
SP_get_session(mbox) ==
    LET slot(k) == (mbox + k) % MaxLib
        at == {k \in Slots : tab[slot(k)].mbox = mbox}
    IN  IF at = {} THEN -1 ELSE slot(Min(at))

Num_sessions == Cardinality({s \in Slots : tab[s].state # "unused"})

\* close( s )
Close(fd) == /\ net' = [net EXCEPT ![cfd[fd]].cend = FALSE]
             /\ cfd' = [cfd EXCEPT ![fd] = 0]

-----------------------------------------------------------------------------
(* SP_connect_timeout_low *)

Give_up(t, r) == Close(thr[t].fd) /\ thr' = Return(t, r)

\* the connect message
Hello(c) ==
    <<[unit |-> "hello", version |-> c.version, named |-> c.name # None]>>
    \o IF c.name = None THEN <<>> ELSE <<[unit |-> "name", name |-> c.name]>>

\* socket and connect: the daemon's socket holds the connection until it is accepted.
\* The version is the library's own; clients of older libraries, which know of no
\* authentication ("old") or are not supported ("ancient"), run the same program.
Connect_open(t) ==
    /\ Calling(t, {"connect"})
    /\ UNCHANGED <<tab, recvm, sendm, box>>
    /\ LET free == {f \in Fds : cfd[f] = 0}
           c    == Call(t)
       IN \/ /\ free = {}
             /\ thr' = Return(t, "COULD_NOT_CONNECT")
             /\ UNCHANGED <<net, lst, cfd>>
          \/ /\ free # {}
             /\ Len(lst) < MaxListen
             /\ net' = Append(net, Connection)
             /\ lst' = Append(lst, Len(net) + 1)
             /\ cfd' = [cfd EXCEPT ![Min(free)] = Len(net) + 1]
             /\ thr' = [thr EXCEPT ![t].pc = "hello", ![t].fd = Min(free),
                          ![t].units = Hello(c)]
          \/ \* connect_nointr returned 1, which is not taken for an error: the first
             \* send on the unconnected socket fails
             /\ free # {} /\ Len(lst) = MaxListen /\ c.timeout
             /\ thr' = Return(t, Closed)
             /\ UNCHANGED <<net, lst, cfd>>

\* send_n_nointr_nb: the connect message and the choice of methods, which may
\* reach the daemon in pieces
Send_n(t) ==
    /\ thr[t].pc \in {"hello", "choice"}
    /\ UNCHANGED <<tab, recvm, sendm, box, lst>>
    /\ LET fd == thr[t].fd
           u  == thr[t].units
       IN \/ /\ net[cfd[fd]].dend
             /\ \E k \in 1 .. Len(u) :
                  /\ net' = [net EXCEPT ![cfd[fd]].up = @ \o SubSeq(u, 1, k)]
                  /\ thr' = [thr EXCEPT ![t].units = Rest(u, k),
                               ![t].pc = IF k < Len(u) THEN @
                                         ELSE IF @ = "hello" /\ Call(t).version = "new" THEN "list"
                                         ELSE "answer"]
             /\ UNCHANGED cfd
          \/ ~net[cfd[fd]].dend /\ Give_up(t, Closed)

\* the list of methods: the program's must all be on it (valid_auth_method)
Recv_list(t) ==
    /\ thr[t].pc = "list"
    /\ UNCHANGED <<tab, recvm, sendm, box, lst>>
    /\ LET c == net[cfd[thr[t].fd]]
           u == Head(c.down)
       IN \/ /\ c.down # <<>> /\ u.unit = "list" /\ Call(t).methods \subseteq u.methods
             /\ net' = [net EXCEPT ![cfd[thr[t].fd]].down = Tail(@)]
             /\ thr' = [thr EXCEPT ![t].pc = "choice",
                          ![t].units = <<[unit |-> "choice", methods |-> Call(t).methods],
                                         [unit |-> "rest"]>>]
             /\ UNCHANGED cfd
          \/ /\ c.down # <<>> /\ u.unit = "list" /\ ~(Call(t).methods \subseteq u.methods)
             /\ Give_up(t, "REJECT_AUTH")
          \/ c.down # <<>> /\ u.unit = "code" /\ Give_up(t, u.code)
          \/ c.down = <<>> /\ ~c.dend /\ Give_up(t, Closed)

\* The answer of the daemon and the private group.  With a rejection the daemon
\* sends one byte and closes, which is recognised.
Recv_answer(t) ==
    /\ thr[t].pc = "answer"
    /\ UNCHANGED <<tab, recvm, sendm, box, lst>>
    /\ LET c == net[cfd[thr[t].fd]]
           u == Head(c.down)
       IN \/ /\ c.down # <<>> /\ u.unit = "accept"
             /\ net' = [net EXCEPT ![cfd[thr[t].fd]].down = Tail(@)]
             /\ thr' = [thr EXCEPT ![t].pc = "register", ![t].units = <<u>>]
             /\ UNCHANGED cfd
          \/ c.down # <<>> /\ u.unit = "code" /\ Give_up(t, u.code)
          \/ c.down = <<>> /\ ~c.dend /\ Give_up(t, Closed)

Connect_timeout(t) ==
    /\ thr[t].pc \in {"hello", "list", "choice", "answer"}
    /\ Call(t).timeout
    /\ Give_up(t, Closed)
    /\ UNCHANGED <<tab, recvm, sendm, box, lst>>

\* the session is entered at the first unused slot from the one it hashes to
Connect_register(t) ==
    /\ thr[t].pc = "register"
    /\ UNCHANGED <<recvm, sendm, lst>>
    /\ LET fd == thr[t].fd
           slot(k) == (fd + k) % MaxLib
           ses == slot(Min({k \in Slots : tab[slot(k)].state = "unused"}))
       IN IF Num_sessions >= MaxLib
          THEN Give_up(t, "REJECT_QUOTA") /\ UNCHANGED <<tab, box>>
          ELSE /\ tab' = [tab EXCEPT ![ses] = [mbox |-> fd, state |-> "active",
                                               name |-> thr[t].units[1].name, saved |-> <<>>]]
               /\ box' = [box EXCEPT ![Call(t).h] = fd]
               /\ thr' = Return(t, "ACCEPT_SESSION")
               /\ UNCHANGED <<cfd, net>>

-----------------------------------------------------------------------------
(* SP_internal_multicast: SP_multicast, SP_join, SP_leave and the kill message
   of SP_disconnect *)

\* the message of a call; a kill message, a join and a leave name one group
Message_of(t, name) ==
    LET c == Call(t)
    IN [id |-> <<t, Len(thr[t].prog)>>, from |-> name, kind |-> c.op, to |-> c.to,
        ng |-> c.ng, len |-> c.len]

After_send(t, r) == IF Call(t).op = "kill" THEN Goes(t, "kill") ELSE Return(t, r)

Multicast_lookup(t) ==
    /\ Calling(t, {"reg", "join", "leave", "kill"})
    /\ box[Call(t).h] \in Fds
    /\ UNCHANGED <<tab, recvm, sendm, cfd, box, net, lst>>
    /\ LET mbox == box[Call(t).h]
           ses  == SP_get_session(mbox)
       IN thr' = IF ses < 0 THEN Return(t, "ILLEGAL_SESSION")
                 ELSE IF tab[ses].state # "active"
                      THEN IF Call(t).op = "kill"
                           THEN [thr EXCEPT ![t].pc = "kill", ![t].fd = mbox]
                           ELSE Return(t, "NET_ERROR_ON_SESSION")
                 ELSE IF Call(t).ng + Call(t).len > MaxBody THEN Return(t, "MESSAGE_TOO_LONG")
                 ELSE [thr EXCEPT ![t].pc = "sendlock", ![t].fd = mbox, ![t].ses = ses,
                                  ![t].units = Units(Message_of(t, tab[ses].name))]

Send_lock(t) ==
    /\ thr[t].pc = "sendlock"
    /\ sendm[thr[t].ses] = None
    /\ sendm' = [sendm EXCEPT ![thr[t].ses] = t]
    /\ thr' = Goes(t, "send")
    /\ UNCHANGED <<tab, recvm, cfd, box, net, lst>>

\* SESS_ERROR, unless the session disappeared
Fails(t) == IF thr[t].ses = SP_get_session(thr[t].fd)
            THEN [tab EXCEPT ![thr[t].ses].state = "error"] ELSE tab

Send_piece(t) ==
    /\ thr[t].pc = "send"
    /\ UNCHANGED <<recvm, cfd, box, lst>>
    /\ LET c == cfd[thr[t].fd]
           u == thr[t].units
           k == Least(Len(u), Room - Len(net[c].up))
       IN \/ /\ c # 0 /\ net[c].dend /\ k > 0
             /\ net' = [net EXCEPT ![c].up = @ \o SubSeq(u, 1, k)]
             /\ tab' = tab
             /\ IF k = Len(u)
                THEN /\ sendm' = [sendm EXCEPT ![thr[t].ses] = None]
                     /\ thr' = After_send(t, "sent")
                ELSE /\ sendm' = sendm
                     /\ thr' = [thr EXCEPT ![t].units = Rest(u, k)]
          \/ /\ ~(c # 0 /\ net[c].dend)
             /\ tab' = Fails(t)
             /\ sendm' = [sendm EXCEPT ![thr[t].ses] = None]
             /\ thr' = After_send(t, Closed)
             /\ net' = net

\* SP_kill, the end of SP_disconnect
SP_kill(t) ==
    /\ thr[t].pc = "kill"
    /\ LET ses == SP_get_session(thr[t].fd)
       IN IF ses < 0 THEN UNCHANGED <<tab, cfd, net>>
          ELSE tab' = [tab EXCEPT ![ses] = Unused] /\ Close(thr[t].fd)
    /\ thr' = Return(t, "0")
    /\ UNCHANGED <<recvm, sendm, box, lst>>

-----------------------------------------------------------------------------
(* SP_scat_receive *)

Receive_lookup(t) ==
    /\ Calling(t, {"receive"})
    /\ box[Call(t).h] \in Fds
    /\ UNCHANGED <<tab, recvm, sendm, cfd, box, net, lst>>
    /\ LET mbox == box[Call(t).h]
           ses  == SP_get_session(mbox)
       IN thr' = IF ses < 0 THEN Return(t, "ILLEGAL_SESSION")
                 ELSE IF tab[ses].state # "active" THEN Return(t, "NET_ERROR_ON_SESSION")
                 ELSE [thr EXCEPT ![t].pc = "recvlock", ![t].fd = mbox, ![t].ses = ses]

\* only with the receive mutex is the saved header looked at
Receive_lock(t) ==
    /\ thr[t].pc = "recvlock"
    /\ UNCHANGED <<tab, sendm, cfd, box, net, lst>>
    /\ LET ses == thr[t].ses
       IN /\ recvm[ses] = None
          /\ \/ /\ ses # SP_get_session(thr[t].fd)
                /\ thr' = Return(t, "ILLEGAL_SESSION") /\ UNCHANGED recvm
             \/ /\ ses = SP_get_session(thr[t].fd) /\ tab[ses].state # "active"
                /\ thr' = Return(t, "NET_ERROR_ON_SESSION") /\ UNCHANGED recvm
             \/ /\ ses = SP_get_session(thr[t].fd) /\ tab[ses].state = "active"
                /\ recvm' = [recvm EXCEPT ![ses] = t]
                /\ thr' = [thr EXCEPT ![t].units = tab[ses].saved,
                                      ![t].saved = tab[ses].saved # <<>>,
                                      ![t].pc = IF tab[ses].saved = <<>> THEN "head" ELSE "check"]

Unlock(t) == recvm' = [recvm EXCEPT ![thr[t].ses] = None]

\* mutant: an error that returns with the receive mutex held
Receive_fails_locked(t) ==
    /\ tab' = Fails(t) /\ UNCHANGED recvm /\ thr' = Return(t, Closed) /\ net' = net

\* recv failed or the daemon closed its end
Receive_fails(t) ==
    /\ tab' = Fails(t) /\ Unlock(t) /\ thr' = Return(t, Closed) /\ net' = net

Receive_head(t) ==
    /\ thr[t].pc = "head"
    /\ UNCHANGED <<sendm, cfd, box, lst>>
    /\ LET c == cfd[thr[t].fd]
       IN \/ /\ c # 0 /\ net[c].down # <<>>
             /\ net' = [net EXCEPT ![c].down = Tail(@)]
             /\ thr' = [thr EXCEPT ![t].units = <<Head(net[c].down)>>, ![t].pc = "check"]
             /\ UNCHANGED <<tab, recvm>>
          \/ /\ c # 0 => net[c].down = <<>> /\ ~net[c].dend
             /\ Receive_fails(t)

Too_short(m, c) == m.ng > c.maxg \/ m.len > c.maxl

\* Does the message fit?  If not its header is kept for the next call, and the
\* caller learns what it needs; with DROP_RECV the rest will be thrown away.
Receive_check(t) ==
    /\ thr[t].pc = "check"
    /\ UNCHANGED <<sendm, cfd, box, net, lst>>
    /\ LET c   == Call(t)
           u   == thr[t].units[1]
           m   == u.of
           ses == thr[t].ses
       IN \/ /\ ~Is_header(u)         \* whatever these bytes say as a header
             /\ Unlock(t) /\ thr' = Return(t, "garbage") /\ UNCHANGED tab
          \/ /\ Is_header(u)
             /\ c.drop \/ ~Too_short(m, c)
             /\ thr' = Goes(t, "body") /\ UNCHANGED <<tab, recvm>>
          \/ /\ Is_header(u)
             /\ ~c.drop /\ Too_short(m, c)
             /\ Unlock(t)
             /\ IF ~thr[t].saved /\ ses # SP_get_session(thr[t].fd)
                THEN thr' = Return(t, "ILLEGAL_SESSION") /\ tab' = tab
                ELSE /\ tab' = IF thr[t].saved THEN tab
                               ELSE [tab EXCEPT ![ses].saved = <<u>>]
                     /\ thr' = Return(t, IF m.ng > c.maxg THEN "GROUPS_TOO_SHORT"
                                         ELSE "BUFFER_TOO_SHORT")

\* what is still to be read of a message
Remain(units) == Size(units[1].of) - Len(units)

\* the old type, the groups and the data, what does not fit included
Receive_body(t) ==
    /\ thr[t].pc = "body"
    /\ UNCHANGED <<sendm, cfd, box, lst>>
    /\ LET c    == cfd[thr[t].fd]
           u    == thr[t].units
           need == Remain(u)
           k    == Least(need, Len(net[c].down))
       IN \/ /\ need = 0
             /\ thr' = Goes(t, "done") /\ UNCHANGED <<tab, recvm, net>>
          \/ /\ need > 0 /\ c # 0 /\ net[c].down # <<>>
             /\ net' = [net EXCEPT ![c].down = Rest(@, k)]
             /\ thr' = [thr EXCEPT ![t].units = @ \o SubSeq(net[c].down, 1, k)]
             /\ UNCHANGED <<tab, recvm>>
          \/ /\ need > 0
             /\ c # 0 => net[c].down = <<>> /\ ~net[c].dend
             /\ Receive_fails(t)

\* The message is complete.  A receive that cut it short leaves before the saved
\* header is cleared.
Receive_done(t) ==
    /\ thr[t].pc = "done"
    /\ UNCHANGED <<sendm, cfd, box, lst>>
    /\ Unlock(t)
    /\ LET c   == cfd[thr[t].fd]
           u   == thr[t].units
           cut == u[1].of.len > Call(t).maxl
           same == thr[t].ses = SP_get_session(thr[t].fd)
       IN /\ net' = IF c = 0 THEN net
                    ELSE [net EXCEPT ![c].received = Append(@, u)]
          /\ tab' = IF ~cut /\ thr[t].saved /\ same
                    THEN [tab EXCEPT ![thr[t].ses].saved = <<>>] ELSE tab
          /\ thr' = Return(t, IF cut THEN "BUFFER_TOO_SHORT"
                              ELSE IF thr[t].saved /\ ~same THEN "ILLEGAL_SESSION"
                              ELSE "received")

\* the process ends: the system closes its descriptors
Exit(t) ==
    /\ Calling(t, {"exit"})
    /\ thr' = [s \in Threads |-> Ready(<<>>)]
    /\ tab' = [s \in Slots |-> Unused]
    /\ recvm' = [s \in Slots |-> None] /\ sendm' = [s \in Slots |-> None]
    /\ net' = [c \in DOMAIN net |-> [net[c] EXCEPT !.cend = FALSE]]
    /\ cfd' = [f \in Fds |-> 0]
    /\ UNCHANGED <<box, lst>>

\* sp_initialize
LibInit(programs) ==
    /\ \E p \in programs : thr = [t \in Threads |-> Ready(p[t])]
    /\ tab = [s \in Slots |-> Unused]
    /\ recvm = [s \in Slots |-> None] /\ sendm = [s \in Slots |-> None]
    /\ cfd = [f \in Fds |-> 0]
    /\ box = [h \in Handles |-> -1]

\* a socket has something to read, or recv fails
Wakes(c) == c # 0 => net[c].down # <<>> \/ ~net[c].dend

\* the thread is not waiting
LibCan(t) ==
    LET pc == thr[t].pc
        c  == cfd[thr[t].fd]
        slow == Call(t).op = "connect" /\ Call(t).timeout
    IN \/ pc = "idle" /\ thr[t].prog # <<>> /\ Call(t).op = "exit"
       \/ pc = "idle" /\ thr[t].prog # <<>> /\ Call(t).op = "connect"
          /\ (slow \/ Len(lst) < MaxListen \/ \A f \in Fds : cfd[f] # 0)
       \/ pc = "idle" /\ thr[t].prog # <<>> /\ Call(t).op \notin {"exit", "connect"} /\ box[Call(t).h] \in Fds
       \/ pc \in {"hello", "choice", "register", "kill", "check", "done"}
       \/ pc \in {"list", "answer"} /\ (slow \/ Wakes(c))
       \/ pc = "sendlock" /\ sendm[thr[t].ses] = None
       \/ pc = "recvlock" /\ recvm[thr[t].ses] = None
       \/ pc = "send" /\ (c # 0 /\ net[c].dend => Len(net[c].up) < Room)
       \/ pc \in {"head", "body"} /\ Wakes(c)
       \/ pc = "body" /\ Remain(thr[t].units) = 0

LibStep(t) ==
    \/ Connect_open(t) \/ Send_n(t) \/ Recv_list(t) \/ Recv_answer(t)
    \/ Connect_timeout(t) \/ Connect_register(t)
    \/ Multicast_lookup(t) \/ Send_lock(t) \/ Send_piece(t) \/ SP_kill(t)
    \/ Receive_lookup(t) \/ Receive_lock(t) \/ Receive_head(t) \/ Receive_check(t)
    \/ Receive_body(t) \/ Receive_done(t) \/ Exit(t)
=============================================================================
