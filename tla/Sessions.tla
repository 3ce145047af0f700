------------------------------ MODULE Sessions ------------------------------
(***************************************************************************)
(* daemon/session.c: the clients of one daemon.  A session is accepted,    *)
(* named, authenticated (acm.c, auth-null.c, auth-ip.c), read from and     *)
(* written to, killed, and removed when its kill message has come back     *)
(* through the total order.  An event handler of the daemon is one step.   *)
(*                                                                         *)
(* The protocol below is a queue, down, in which the daemon's own messages *)
(* come back in the order they were sent, and the groups layer above is    *)
(* one group; Groups.tla and Daemons.tla model those.                      *)
(***************************************************************************)
EXTENDS Streams

CONSTANTS MaxSessions,        \* MAX_SESSIONS
          DFds,               \* descriptors of the daemon, 0 .. n
          MaxSessMess,        \* MaxSessionMessages
          MaxGroupsPerMessage, MaxLocal,
          Enabled, Required,  \* authentication methods, of "NULL" and "IP"
          IpRefused,          \* names that connect from an address no rule allows
          Illegal,            \* names with characters that are not allowed
          RandomNames

VARIABLES
    acc,    \* Sessions[MAX_SESSIONS]: the descriptor being accepted, -1 if none
    sess,   \* the sessions by descriptor
    dfd,    \* the connection of a descriptor, 0 if closed
    down,   \* messages handed to the protocol
    grp,    \* the private names in the group, in the order they joined
    fatal   \* an Alarm( EXIT )

dmn == <<acc, sess, dfd, down, grp, fatal>>

Nobody == [status |-> "none"]
Known  == {f \in DFds : sess[f].status # "none"}
Names  == {sess[f].name : f \in Known}
Num_of_sessions == Cardinality(Known)

Sess_get_session(name) == {f \in Known : sess[f].name = name}

\* recv on a descriptor returns: there is something to read or the client is gone
Readable(c) == net[c].up # <<>> \/ ~net[c].cend

\* a short answer on a descriptor that is then closed
Reject(n, c, code) ==
    [n EXCEPT ![c].down = Append(@, [unit |-> "code", code |-> code]), ![c].dend = FALSE]

-----------------------------------------------------------------------------
(* Accepting *)

Sess_accept ==
    /\ acc = -1 /\ lst # <<>>
    /\ LET free == {f \in DFds : dfd[f] = 0}
           c    == Head(lst)
       IN /\ free # {}
          /\ lst' = Tail(lst)
          /\ \/ /\ Num_of_sessions >= MaxSessions
                /\ net' = Reject(net, c, "REJECT_QUOTA")
                /\ UNCHANGED <<acc, dfd, fatal>>
             \/ /\ Num_of_sessions < MaxSessions
                /\ fatal' = (fatal \/ sess[Min(free)].status = "op")
                /\ acc' = Min(free)
                /\ dfd' = [dfd EXCEPT ![acc'] = c]
                /\ UNCHANGED net
    /\ UNCHANGED <<sess, down, grp>>

\* ip_auth_client_connection: some rule of the access file allows the address
Ip_allows(name) == name \notin IpRefused

\* Acm_auth_create_sess_info: the methods the client asked for, and those it has
\* to pass whether it asked or not
Required_auths(methods) == methods \cup Required

\* Sess_session_report_auth_result: every method has to permit; NULL always does
Permits_all(name, methods) == "IP" \in methods => Ip_allows(name)

Permitted(name, methods) ==
    /\ methods # {} /\ methods \subseteq Enabled
    /\ Permits_all(name, Required_auths(methods))

\* a connection that does not become a session
Turn_away(c, code) ==
    /\ net' = IF code = "" THEN [net EXCEPT ![c].dend = FALSE] ELSE Reject(net, c, code)
    /\ dfd' = [dfd EXCEPT ![acc] = 0]
    /\ UNCHANGED <<sess, down, grp, fatal>>

Fresh(name, status) ==
    [status |-> status, name |-> name, queue |-> <<>>, sent |-> 0, read |-> <<>>]

\* Insert the session and ask how it wants to be authenticated; n is the network
\* with the connect message read.  A client with an old library is authenticated
\* by its address, or not at all.
Admit(n, c, name, version) ==
    LET methods == IF "IP" \in Enabled THEN {"IP"} ELSE {"NULL"}
        allowed == \/ version = "new" /\ Enabled # {}
                   \/ /\ version = "old" /\ methods \subseteq Enabled
                      /\ Permits_all(name, methods)
        answer  == IF version = "new" THEN [unit |-> "list", methods |-> Enabled]
                   ELSE [unit |-> "accept", name |-> name]
        status  == IF version = "new" THEN "preauth" ELSE "op"
        told    == IF version = "new" \/ allowed THEN [n EXCEPT ![c].down = Append(@, answer)] ELSE n
    IN /\ UNCHANGED <<down, grp, fatal>>
       /\ IF allowed
          THEN net' = told /\ sess' = [sess EXCEPT ![acc] = Fresh(name, status)] /\ dfd' = dfd
          ELSE net' = Reject(told, c, "REJECT_AUTH") /\ sess' = sess /\ dfd' = [dfd EXCEPT ![acc] = 0]

\* Is the name in use by a session?
Taken_name(name) == name \in Names

\* The connection is readable, or a second has passed.  All of the connect message
\* has to be there.
Sess_accept_continue ==
    /\ acc # -1
    /\ acc' = -1
    /\ UNCHANGED lst
    /\ LET c  == dfd[acc]
           up == net[c].up
           n  == [net EXCEPT ![c].up = Rest(@, IF up[1].named THEN 2 ELSE 1)]
       IN IF up = <<>> THEN Turn_away(c, "")
          ELSE IF up[1].version = "ancient" THEN Turn_away(c, "REJECT_VERSION")
          ELSE IF ~up[1].named
               THEN \E name \in RandomNames : ~Taken_name(name) /\ Admit(n, c, name, up[1].version)
          ELSE IF Len(up) = 1 THEN Turn_away(c, IF net[c].cend THEN "" ELSE "REJECT_ILLEGAL_NAME")
          ELSE IF up[2].name \in Illegal THEN Turn_away(c, "REJECT_ILLEGAL_NAME")
          ELSE IF Taken_name(up[2].name) THEN Turn_away(c, "REJECT_NOT_UNIQUE")
          ELSE Admit(n, c, up[2].name, up[1].version)

\* The methods the client chose, all of them or none; the methods of this build
\* decide at once.
Sess_recv_client_auth(f) ==
    /\ sess[f].status = "preauth"
    /\ LET c  == dfd[f]
           up == net[c].up
           permit == Len(up) >= 2 /\ Permitted(sess[f].name, up[1].methods)
       IN /\ Readable(c)
          /\ IF permit
             THEN /\ net' = [net EXCEPT ![c].up = Rest(@, 2),
                                        ![c].down = Append(@, [unit |-> "accept", name |-> sess[f].name])]
                  /\ sess' = [sess EXCEPT ![f].status = "op"]
                  /\ dfd' = dfd
             ELSE /\ net' = Reject(net, c, "REJECT_AUTH")
                  /\ sess' = [sess EXCEPT ![f] = Nobody]
                  /\ dfd' = [dfd EXCEPT ![f] = 0]
    /\ UNCHANGED <<acc, down, grp, fatal, lst>>

-----------------------------------------------------------------------------
(* What the handlers below change: the sessions, the connections and the
   messages handed to the protocol *)

State == [sess |-> sess, net |-> net, down |-> down]

Sess_clear_session(st, f) ==
    [st EXCEPT !.sess[f] = [Fresh(@.name, "killed") EXCEPT !.read = <<>>]]

Kill_mess(name) == [id |-> <<"kill", name>>, from |-> name, kind |-> "kill", to |-> {}, ng |-> 0, len |-> 0]

\* mutant: a session that is told to go and stays open until it is gone
Sess_kill_only(st, f) == [st EXCEPT !.down = Append(@, Kill_mess(st.sess[f].name))]

\* the session is cleared now and removed when its kill message is delivered
Sess_kill(st, f) ==
    Sess_clear_session([st EXCEPT !.down = Append(@, Kill_mess(st.sess[f].name))], f)

\* mutant: a write that forgets how much of the first message it has written
Badger_again(st, f) ==
    LET s == st.sess[f]
        c == dfd[f]
        k == IF st.net[c].cend THEN Least(Size(s.queue[1]), Room - Len(st.net[c].down)) ELSE 0
    IN IF s.queue = <<>> THEN st
       ELSE [st EXCEPT !.net[c].down = @ \o SubSeq(Units(s.queue[1]), 1, k),
                       !.sess[f].queue = IF k = Size(s.queue[1]) THEN Tail(@) ELSE @]

\* Sess_badger: write what the client's socket takes of what is queued for it
Badger(st, f) ==
    LET s == st.sess[f]
        c == dfd[f]
        out == Rest(FlattenSeq([k \in DOMAIN s.queue |-> Units(s.queue[k])]), s.sent)
        k == IF st.net[c].cend THEN Least(Len(out), Room - Len(st.net[c].down)) ELSE 0
        \* messages that are written completely, and how much of them
        ends == {j \in 0 .. Len(s.queue) :
                   FoldLeft(LAMBDA n, m : n + Size(m), 0, SubSeq(s.queue, 1, j)) <= s.sent + k}
        j == Max(ends)
        gone == FoldLeft(LAMBDA n, m : n + Size(m), 0, SubSeq(s.queue, 1, j))
    IN [st EXCEPT !.net[c].down = @ \o SubSeq(out, 1, k),
                  !.sess[f].queue = Rest(@, j), !.sess[f].sent = s.sent + k - gone]

Sess_write(st, f, m) ==
    IF st.sess[f].status # "op" THEN st
    ELSE IF Len(st.sess[f].queue) >= MaxSessMess THEN Sess_kill(st, f)
    ELSE Badger([st EXCEPT !.sess[f].queue = Append(@, m),
                           !.net[dfd[f]].written = Append(@, m)], f)

Write_all(st, fs, m) == FoldSet(LAMBDA f, acc_st : Sess_write(acc_st, f, m), st, fs)

Sess_badger(f) ==
    /\ sess[f].status = "op" /\ sess[f].queue # <<>>
    /\ net[dfd[f]].cend /\ Len(net[dfd[f]].down) < Room
    /\ LET st == Badger(State, f) IN sess' = st.sess /\ net' = st.net
    /\ UNCHANGED <<acc, dfd, down, grp, fatal, lst>>

-----------------------------------------------------------------------------
(* Reading *)

\* Sess_validate_read_header
Valid_header(f, u) ==
    /\ Is_header(u)
    /\ u.of.from = sess[f].name
    /\ u.of.ng <= MaxGroupsPerMessage

\* a reject carries the groups and the sender
Reject_of(m) == [m EXCEPT !.kind = "reject", !.ng = Least(@ + 1, MaxGroupsPerMessage)]

Handle_message(st, f, units) ==
    LET m  == units[1].of
        s1 == [st EXCEPT !.sess[f].read = <<>>, !.net[dfd[f]].handled = Append(@, units)]
    IN CASE m.kind = "join" /\ Len(grp) = MaxLocal -> Sess_write(s1, f, Reject_of(m))
         [] m.kind = "kill" -> Sess_clear_session([s1 EXCEPT !.down = Append(@, m)], f)
         [] OTHER -> [s1 EXCEPT !.down = Append(@, m)]

\* what was read earlier of a message, and what there is now of the rest
Read_more(old, up, size) == old \o SubSeq(up, 1, Least(Len(up), size - Len(old)))

\* Sess_read: a part of a message is kept for the next time
Sess_read(f) ==
    /\ sess[f].status = "op"
    /\ LET c    == dfd[f]
           up   == net[c].up
           old  == sess[f].read
           head == IF old = <<>> THEN up[1] ELSE old[1]
           read == Read_more(old, up, Size(head.of))
           took == [State EXCEPT !.net[c].up = Rest(@, Len(read) - Len(old)), !.sess[f].read = read]
           st   == IF up = <<>> THEN Sess_kill(State, f)
                   ELSE IF old = <<>> /\ ~Valid_header(f, head)
                   THEN Sess_kill([State EXCEPT !.net[c].up = Tail(@)], f)
                   ELSE IF Len(read) = Size(head.of) THEN Handle_message(took, f, read)
                   ELSE IF Len(read) = 1 /\ ~net[c].cend THEN Sess_kill(took, f)
                   ELSE took
       IN /\ Readable(c)
          /\ sess' = st.sess /\ net' = st.net /\ down' = st.down
    /\ UNCHANGED <<acc, dfd, grp, fatal, lst>>

-----------------------------------------------------------------------------
(* Messages that come back from the protocol *)

Memb(why, name, members) ==
    [id |-> <<why, name>>, kind |-> "memb", from |-> "group", to |-> {}, ng |-> Len(members), len |-> 1]

Sessions_of(members) == UNION {Sess_get_session(n) : n \in members}

\* G_handle_join, G_handle_leave and G_handle_kill for the one group
Notify(st, why, name, members) == Write_all(st, Sessions_of(Range(members)), Memb(why, name, members))

Without(name) == SelectSeq(grp, LAMBDA n : n # name)

\* Sess_handle_kill: the session is removed and its descriptor closed
Sess_remove_session(st, f) ==
    [st EXCEPT !.sess[f] = Nobody, !.net[dfd[f]].dend = FALSE]

\* the message of one session to the others, a change of the group or a kill
Delivered(m, more) ==
    LET st   == [State EXCEPT !.down = Tail(@)]
        mine == Sess_get_session(m.from)
        dest == (IF "group" \in m.to THEN Range(grp) ELSE {}) \cup m.to
        told == IF m.from \in Range(grp) THEN Notify(st, "kill", m.from, Without(m.from)) ELSE st
    IN CASE m.kind = "join" -> IF more = grp THEN st ELSE Notify(st, "join", m.from, more)
         [] m.kind = "leave" ->
              IF m.from \in Range(grp)
              THEN Notify(Write_all(st, mine, Memb("self", m.from, <<>>)),
                          "leave", m.from, Without(m.from))
              ELSE st
         [] m.kind = "kill" -> FoldSet(LAMBDA f, a : Sess_remove_session(a, f), told, mine)
         [] OTHER -> Write_all(st, Sessions_of(dest), m)

Sess_deliver_message ==
    /\ down # <<>>
    /\ LET m    == Head(down)
           mine == Sess_get_session(m.from)
           more == IF m.kind = "join" /\ m.from \notin Range(grp) /\ mine # {}
                   THEN Append(grp, m.from) ELSE grp
           done == Delivered(m, more)
       IN /\ sess' = done.sess /\ down' = done.down
          /\ net' = [c \in DOMAIN net |-> done.net[c]]
          /\ grp' = IF m.kind \in {"leave", "kill"} THEN Without(m.from) ELSE more
          /\ dfd' = IF m.kind = "kill" THEN [f \in DFds |-> IF f \in mine THEN 0 ELSE dfd[f]] ELSE dfd
          /\ fatal' = (fatal \/ (m.kind = "kill" /\ \E f \in mine : sess[f].status = "op"))
    /\ UNCHANGED <<acc, lst>>

\* Sess_init
DaemonInit ==
    /\ acc = -1 /\ sess = [f \in DFds |-> Nobody] /\ dfd = [f \in DFds |-> 0]
    /\ down = <<>> /\ grp = <<>> /\ fatal = FALSE

\* an event handler of the daemon is due
DaemonCan ==
    \/ acc # -1 \/ down # <<>>
    \/ lst # <<>> /\ \E f \in DFds : dfd[f] = 0
    \/ \E f \in Known :
          \/ sess[f].status \in {"preauth", "op"} /\ Readable(dfd[f])
          \/ /\ sess[f].status = "op" /\ sess[f].queue # <<>>
             /\ net[dfd[f]].cend /\ Len(net[dfd[f]].down) < Room

DaemonStep ==
    \/ Sess_accept \/ Sess_accept_continue
    \/ \E f \in DFds : Sess_recv_client_auth(f) \/ Sess_read(f) \/ Sess_badger(f)
    \/ Sess_deliver_message
=============================================================================
