---------------------------- MODULE FlushService ----------------------------
(***************************************************************************)
(* The clients of one group on the flush layer, and Spread between them.   *)
(* Spread (GroupService) is external here: one order of membership changes *)
(* and messages, which each client's daemon delivers at its own pace; a    *)
(* reliable message may be delivered before its turn (Protocol,            *)
(* Deliver_reliable_packets), any other message may not.                   *)
(***************************************************************************)
EXTENDS Flush, FlushLocks

CONSTANT FlushScenarios

VARIABLES
    conn,    \* per client: its connection
    log,     \* what Spread has ordered; a membership message has its place as group id
    pos,     \* per client: how far its daemon has delivered
    early,   \* per client: the reliable messages its daemon delivered before their turn
    todo     \* per client: the calls it still makes; network changes are under Spread

flush == <<conn, log, pos, early, todo>>

Spread == "spread"

\* the members after the first n entries
Members(n) == LET m == {i \in 1 .. n : log[i].k = "memb"}
              IN  IF m = {} THEN {} ELSE log[CHOOSE i \in m : \A j \in m : j <= i].membs

\* who gets an entry at its turn; a leaver gets the change that takes it out
Receives(c, i) ==
    LET e == log[i] IN
    CASE e.k = "memb" -> c \in e.membs \/ (c = e.who /\ e.type = "leave")
      [] e.k = "private" \/ (e.k = "data" /\ e.recvrs # {}) -> c \in e.recvrs
      [] OTHER -> c \in Members(i - 1)

Pending(c) == {i \in pos[c] + 1 .. Len(log) : i \notin early[c] /\ Receives(c, i)}
NextFor(c) == CHOOSE i \in Pending(c) : \A j \in Pending(c) : i <= j

\* Spread orders what a client sends when it sends it: that it may take longer is
\* the same as that the client is slow to receive.  A join of a member and a leave
\* of one who is none are ignored.
Change(type, c, membs) == [k |-> "memb", type |-> type, who |-> c, membs |-> membs]
Ordered(c, m) ==
    LET in == Members(Len(log))
    IN  CASE m.k = "join" -> IF c \in in THEN <<>> ELSE <<Change("join", c, in \cup {c})>>
          [] m.k \in {"leave", "disconnect"} ->
                 IF c \in in THEN <<Change(m.k, c, in \ {c})>> ELSE <<>>
          [] OTHER -> <<m>>

\* connection c becomes x, and what it has sent is ordered
Becomes(c, x) == /\ conn' = [conn EXCEPT ![c] = [x EXCEPT !.out = <<>>]]
                 /\ log'  = log \o FlattenSeq([k \in DOMAIN x.out |-> Ordered(c, x.out[k])])

\* FL_scat_receive: what is queued, else the next message of Spread.  The user reads
\* what is queued before he does anything else.
Reading(c) == conn[c].live /\ conn[c].queue # <<>>
Free(c)    == conn[c].live /\ conn[c].queue = <<>>
Receive_from_queue(c) ==
    /\ Reading(c) /\ Becomes(c, Receive_queued(conn[c]))
    /\ UNCHANGED <<pos, early, todo>>
Receive(c) ==
    /\ Free(c) /\ Pending(c) # {}
    /\ IF conn[c].small THEN Becomes(c, Too_short(conn[c])) /\ UNCHANGED pos
       ELSE /\ pos' = [pos EXCEPT ![c] = NextFor(c)]
            /\ Becomes(c, Returned(Recv_and_handle(conn[c],
                               log[NextFor(c)] @@ [gid |-> NextFor(c)])))
    /\ UNCHANGED <<early, todo>>

\* the reliable messages that are not next
Overtaking(c) == {i \in pos[c] + 1 .. Len(log) :
                     /\ log[i].k = "data" /\ log[i].rel /\ log[i].recvrs = {}
                     /\ i \notin early[c] /\ \E j \in Pending(c) : j # i}

\* A reliable message is delivered before its turn; to no one if the client is not
\* in the group yet as its daemon sees it.
Receive_early(c) ==
    /\ Free(c) /\ ~conn[c].small
    /\ \E i \in Overtaking(c) :
          /\ i # NextFor(c)
          /\ early' = [early EXCEPT ![c] = @ \cup {i}]
          /\ IF c \in Members(pos[c]) THEN Becomes(c, Returned(Recv_and_handle(conn[c], log[i])))
             ELSE UNCHANGED <<conn, log>>
    /\ UNCHANGED <<pos, todo>>

FL_flush(c) == /\ Free(c) /\ CanFlush(conn[c])
               /\ Becomes(c, FL_int_flush(conn[c]))
               /\ UNCHANGED <<pos, early, todo>>

Op(c) == Head(todo[c])
Done(c) == todo' = [todo EXCEPT ![c] = Tail(@)] /\ UNCHANGED <<pos, early>>
Calls(c, op) == Free(c) /\ todo[c] # <<>> /\ Op(c).op = op

Join(c)  == Calls(c, "join") /\ CanJoin(conn[c]) /\ Becomes(c, FL_join(conn[c])) /\ Done(c)
Leave(c) == Calls(c, "leave") /\ CanLeave(conn[c]) /\ Becomes(c, FL_leave(conn[c])) /\ Done(c)
Multicast(c) ==
    /\ Calls(c, "send") /\ CanSend(conn[c]) /\ Op(c).to \subseteq conn[c].g.fl.orig
    /\ Becomes(c, FL_int_scat_multicast(conn[c], Op(c).id, Op(c).rel, Op(c).to))
    /\ Done(c)
\* to the private group of another client, whatever group either is in
Unicast(c) ==
    /\ Calls(c, "private")
    /\ Becomes(c, Send(conn[c], [k |-> "private", id |-> Op(c).id, sent |-> 0,
                                 recvrs |-> Op(c).to]))
    /\ Done(c)
Disconnect(c) == Calls(c, "disconnect") /\ Becomes(c, FL_disconnect(conn[c])) /\ Done(c)

\* the daemon notices that the process of a client has ended
Process_gone(c) ==
    /\ ~conn[c].live /\ c \in Members(Len(log))
    /\ log' = Append(log, Change("disconnect", c, Members(Len(log)) \ {c}))
    /\ UNCHANGED <<conn, pos, early, todo>>

\* daemons part or meet: a transitional signal, then a network change
Network_change ==
    /\ todo[Spread] # <<>>
    /\ log' = log \o <<[k |-> "trans"], Change("network", None, Members(Len(log)))>>
    /\ UNCHANGED conn /\ Done(Spread)

ClientStep(c) == \/ Receive_from_queue(c) \/ Receive(c) \/ Receive_early(c) \/ FL_flush(c)
                 \/ Join(c) \/ Leave(c) \/ Multicast(c) \/ Unicast(c) \/ Disconnect(c)
                 \/ Process_gone(c)

\* The group at the start of a scenario: its members have installed a view and
\* know it everywhere.
Started(s, c) ==
    LET v == [NoView EXCEPT !.gid = 1, !.type = "join", !.delta = None, !.trans = FALSE,
                            !.orig = s.members, !.curr = s.members]
        in == c \in s.members
    IN  [me |-> c, live |-> TRUE, bad |-> {}, um |-> <<>>, queue |-> <<>>, out |-> <<>>,
         small |-> c \in s.small,
         g |-> IF in THEN [NoGroup EXCEPT !.mstate = "JOINED", !.vstate = "STEADY", !.fl = v]
               ELSE NoGroup,
         got |-> IF in THEN <<[k |-> "view", gid |-> 1, type |-> "join", membs |-> s.members,
                               vs |-> {}]>> ELSE <<>>]

FlushInit == \E s \in FlushScenarios :
    /\ conn = [c \in Clients |-> Started(s, c)]
    /\ log  = IF s.members = {} THEN <<>> ELSE <<Change("join", None, s.members)>>
    /\ pos  = [c \in Clients |-> Len(log)]
    /\ early = [c \in Clients |-> {}]
    /\ todo = s.todo

FlushNext == Network_change \/ \E c \in Clients : ClientStep(c)

-----------------------------------------------------------------------------
CONSTANT LockPrograms

ASSUME ProgramsAssumption ==
    LockPrograms \subseteq [Threads -> Seq({"call", "receive", "disconnect", "connect"})]

vars == <<flush, locks>>

\* a group and its messages, or the threads of one process
Init == \/ FlushInit /\ LocksInit({[t \in Threads |-> <<>>]})
        \/ /\ LocksInit(LockPrograms)
           /\ conn = <<>> /\ log = <<>> /\ pos = <<>> /\ early = <<>> /\ todo = <<>>

Next == \/ conn # <<>> /\ FlushNext /\ UNCHANGED locks
        \/ conn = <<>> /\ LocksNext /\ UNCHANGED flush

Spec == Init /\ [][Next]_vars

\* Clients and threads run, users receive and answer flush requests, and Spread
\* orders and delivers: if something can happen, something does.  This is
\* WF_vars(Next) with ENABLED Next spelled out, without the daemon that may close a
\* connection but need not.
ClientCan(c) ==
    \/ ~conn[c].live /\ c \in Members(Len(log))
    \/ /\ conn[c].live
       /\ \/ conn[c].queue # <<>>
          \/ Pending(c) # {}
          \/ CanFlush(conn[c])
          \/ /\ todo[c] # <<>>
             /\ Op(c).op = "join"  => CanJoin(conn[c])
             /\ Op(c).op = "leave" => CanLeave(conn[c])
             /\ Op(c).op = "send"  => CanSend(conn[c]) /\ Op(c).to \subseteq conn[c].g.fl.orig
\* who waits for conn_lock waits for a thread that can go on
ThreadCan(t) ==
    \/ ft[t].pc \notin {"idle", "recvlock", "recv", "read", "wait", "disconnect"}
    \/ At(t, "recvlock") /\ C(t).recv_lock = No
    \/ At(t, "recv") /\ (sess = 0 \/ fc[sess].err \/ \A u \in Threads : ~At(u, "read"))
    \/ At(t, "read") /\ (fc[ft[t].s].mail > 0 \/ ~fc[ft[t].s].sp)
    \/ At(t, "wait") /\ C(t).woken
    \/ /\ glob_lock = No
       /\ \/ At(t, "disconnect")
          \/ Calling_fl(t, {"call", "receive", "disconnect"})
          \/ Calling_fl(t, {"connect"}) /\ CanConnect
Can == IF conn = <<>> THEN \E t \in Threads : ThreadCan(t)
       ELSE todo[Spread] # <<>> \/ \E c \in Clients : ClientCan(c)

FairSpec == Spec /\ ([]<>~Can \/ []<><<Next>>_vars)

-----------------------------------------------------------------------------
Views(c) == {i \in DOMAIN conn[c].got : conn[c].got[i].k = "view"}
\* all that the user of a client has read or will read first
Reads(c) == conn[c].got \o conn[c].queue

\* The types; the queue of changes, the table of changes and the change at work
\* belong together.
TypeOK ==
    /\ \A c \in DOMAIN conn : LET g == conn[c].g IN
          /\ conn[c].um = <<>>
          /\ g.vstate \in {None, "STEADY", "AUTHORIZE", "AGREE", "VERIFY"}
          /\ {i \in DOMAIN g.pmemb : g.pmemb[i].recvd} = Range(g.membq)
          /\ g.curr = IF g.membq = <<>> THEN 0 ELSE Head(g.membq)
          /\ (g.vstate \in {"AGREE", "AUTHORIZE"}) = (g.curr # 0)
          /\ g.messq # <<>> => g.vstate = "AGREE"
    /\ glob_conns \in Conns \cup {0} /\ sess \in Conns \cup {0}
    /\ \A t \in Threads : ft[t].c \in Conns /\ ft[t].s \in Conns

\* No assertion of the handlers of fl.c is false and no error aborts: a change is
\* never complete before this client agreed to it, nor a message put off for a view
\* its sender is not in; and the queue of changes fits the state of the view (TypeOK).
\* The exception is the assertion of FL_int_receive on membership messages, which is
\* false on every one of them: it takes what SP_scat_get_memb_info returns for a size.
AssertsHold == TypeOK /\ \A c \in DOMAIN conn : conn[c].bad \subseteq {"memb_info"}

\* A message is delivered in the view it was sent in, and nothing is delivered to a
\* client that has no view - unless the client has called FL_leave.
SendingView ==
    \A c \in DOMAIN conn : \A i \in DOMAIN Reads(c) :
        Reads(c)[i].k = "data" /\ Reads(c)[i].sent # 0 /\ ~Reads(c)[i].leaving =>
            \E j \in 1 .. i - 1 : /\ Reads(c)[j].k = "view" /\ Reads(c)[j].gid = Reads(c)[i].sent
                                   /\ \A n \in j + 1 .. i : Reads(c)[n].k # "view"

\* the place of view v in what c has read, of the view before, what it read in that
InView(c, v) == {i \in Views(c) : conn[c].got[i].gid = v}
Before(c, i) == {j \in Views(c) : j < i /\ \A n \in j + 1 .. i - 1 : n \notin Views(c)}
ToAll(c, j, i) == {conn[c].got[n].id : n \in {n \in j .. i :
                      conn[c].got[n].k = "data" /\ conn[c].got[n].all /\ ~conn[c].got[n].leaving}}
GidsOf(c, S) == {conn[c].got[j].gid : j \in S}

\* Two clients that go from one view to the next together have read the same
\* messages of the group in it.
VirtualSynchrony ==
    \A c, d \in DOMAIN conn : \A i \in Views(c) :
        \A k \in InView(d, conn[c].got[i].gid) :
            \A j \in Before(c, i), l \in Before(d, k) :
                conn[c].got[j].gid = conn[d].got[l].gid => ToAll(c, j, i) = ToAll(d, l, k)

\* What a view says of where its members come from is true: the others come from
\* one view if a single member came or went, and those that come from the same
\* view as the reader are listed if the change stands for several.
ViewsExplained ==
    \A c, d \in DOMAIN conn : \A i \in Views(c) :
        LET v == conn[c].got[i] IN
        \A k \in InView(d, v.gid) :
            LET same == GidsOf(c, Before(c, i)) = GidsOf(d, Before(d, k)) IN
            /\ v.membs = conn[d].got[k].membs /\ {c, d} \subseteq v.membs
            /\ v.type # "network" => same \/ v.vs \cap {c, d} # {}
            /\ v.type = "network" => same = (d \in v.vs)

\* No thread uses a connection that FL_disconnect has reclaimed.
NoUseAfterFree == \A t \in Threads : ~ft[t].bad

\* a message will not come, to this thread or to the one that has the recv_mutex or
\* the recv_lock before it
Waits_for_mail(t) == At(t, "read") /\ fc[ft[t].s].mail = 0 /\ fc[ft[t].s].sp
Waits_in_sp(t)    == Waits_for_mail(t) \/ (At(t, "recv") /\ \E u \in Threads : Waits_for_mail(u))
Silent(t) == \/ Waits_in_sp(t)
             \/ At(t, "recvlock") /\ \E u \in Threads : C(t).recv_lock = u /\ Waits_in_sp(u)
\* a thread that holds a reservation
Holds(t, c) == ft[t].c = c /\ ft[t].pc \in {"reserved", "lock", "call", "recvlock", "look", "recv",
                                             "read", "handle", "recvdone", "cancel"}
Leaked(c) == fc[c].reservations > Cardinality({t \in Threads : Holds(t, c)})
\* a receive that reads the next connection's session still has its reservation
Strayed(c) == \E t \in Threads : Holds(t, c) /\ Silent(t)
Finished(t) == ft[t].prog = <<>> \/ Silent(t)
Unconnected(t) == Calling_fl(t, {"connect"}) /\ ~CanConnect

\* Every membership change comes to an end - the members of the group are in one
\* view, steadily - if its users answer the flush requests; and every call of a
\* thread returns, but for a receive to which no message comes, and for FL_disconnect
\* once a reservation is lost or while a receive has strayed.
Settled ==
    /\ \A c \in DOMAIN conn : conn[c].live =>
          /\ todo[c] = <<>> /\ conn[c].queue = <<>>
          /\ c \in Members(Len(log)) =>
                /\ conn[c].g.vstate = "STEADY"
                /\ conn[c].g.fl.orig = Members(Len(log))
    /\ \A t \in Threads : \/ Finished(t) \/ Unconnected(t)
                          \/ At(t, "wait") /\ (Leaked(ft[t].c) \/ Strayed(ft[t].c))
EverythingInstalled == <>[]Settled

\* "The client knows exactly which other clients might receive its message when it
\* sends": those of its view.
OnlyTheViewReceives ==
    \A c, d \in DOMAIN conn : \A i \in DOMAIN conn[c].got :
        LET m == conn[c].got[i] IN
        m.k = "data" /\ m.sent # 0 /\ m.from = d =>
            \A j \in InView(d, m.sent) : c \in conn[d].got[j].membs
=============================================================================
