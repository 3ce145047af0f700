--------------------------- MODULE ClientSession ----------------------------
(***************************************************************************)
(* A client process and its daemon: the threads of SpLibrary and the event *)
(* handlers of Sessions, joined by the streams.                            *)
(***************************************************************************)
EXTENDS SpLibrary, Sessions

CONSTANT Programs        \* the programs of calls the threads may run

vars == <<lib, dmn, net, lst>>

Init == LibInit(Programs) /\ DaemonInit /\ net = <<>> /\ lst = <<>>

Next == \/ (\E t \in Threads : LibStep(t)) /\ UNCHANGED dmn
        \/ DaemonStep /\ UNCHANGED lib

Spec == Init /\ [][Next]_vars

\* Threads run, sockets carry what is written to them, and the daemon's event loop
\* calls its handlers: if something can happen, something does.  This is
\* WF_vars(Next), with ENABLED Next spelled out.
Quiet == ~DaemonCan /\ \A t \in Threads : ~LibCan(t)

FairSpec == Spec /\ ([]<>Quiet \/ []<><<Next>>_vars)

-----------------------------------------------------------------------------
Op(f) == sess[f].status = "op"

\* The types of the state; the slots of the library's table hold different
\* mailboxes that are open descriptors, the sessions of the daemon have open
\* descriptors and different names.
TypeOK ==
    /\ \A s \in Slots : tab[s].state = "unused" \/ (tab[s].mbox \in Fds /\ cfd[tab[s].mbox] # 0)
    /\ \A s, r \in Slots : s # r /\ tab[s].state # "unused" => tab[s].mbox # tab[r].mbox
    /\ \A s \in Slots : {recvm[s], sendm[s]} \subseteq Threads \cup {None}
    /\ acc \in DFds \cup {-1}
    /\ \A f \in DFds : sess[f].status # "none" => dfd[f] # 0 /\ net[dfd[f]].dend
    /\ \A f, g \in Known : f # g => sess[f].name # sess[g].name
    /\ Num_of_sessions <= MaxSessions

\* The daemon does not exit: it never accepts a connection on a descriptor that is
\* in use, and a kill message never comes back to a session that has not been
\* killed - a name is free only when the kill message of its last session has
\* been delivered; and the tables of the library and of the daemon agree with the
\* open descriptors (TypeOK).
NeverFatal == TypeOK /\ ~fatal

\* A session the application has connected and not disconnected is found by
\* SP_get_session under its mailbox, whatever was connected and disconnected
\* around it: every later call on the mailbox depends on it.
SessionsAreFound ==
    \A s \in Slots : tab[s].state # "unused" => SP_get_session(tab[s].mbox) = s

\* What a client receives from a connection is what the daemon wrote on it: whole
\* messages, each once, in order, whatever threads received them, however little
\* of a message was there at a time, and however often a buffer was too short.
ReceivedWhole ==
    \A c \in DOMAIN net :
        /\ Len(net[c].received) <= Len(net[c].written)
        /\ \A k \in DOMAIN net[c].received :
               net[c].received[k] = Units(net[c].written[k])
        /\ \A t \in Threads : thr[t].ret # "garbage"

\* What the daemon takes from a connection is what the threads sent: messages of
\* different threads are not mixed up, and the messages of a thread come in the
\* order of its calls.
SentWhole ==
    \A c \in DOMAIN net : LET got == net[c].handled IN
        /\ \A k \in DOMAIN got : got[k] = Units(got[k][1].of)
        /\ \A j, k \in DOMAIN got : j < k /\ got[j][1].of.id[1] = got[k][1].of.id[1]
                                    => got[j][1].of.id[2] > got[k][1].of.id[2]

\* Neither direction of a connection loses its framing.
MessagesWhole == ReceivedWhole /\ SentWhole

\* a thread that waits for a message on a session that lives
Waiting(t) == /\ thr[t].pc \in {"head", "recvlock", "body"}
              /\ cfd[thr[t].fd] # 0
              /\ \E f \in Known : Op(f) /\ dfd[f] = cfd[thr[t].fd]

\* a thread whose mailbox was never connected
Boxless(t) == thr[t].pc = "idle" /\ "h" \in DOMAIN Call(t) /\ box[Call(t).h] = -1

Over == /\ \A t \in Threads : thr[t].prog = <<>> \/ Waiting(t) \/ Boxless(t)
        /\ acc = -1 /\ lst = <<>> /\ down = <<>>
        /\ \A f \in Known : Op(f) /\ net[dfd[f]].cend

\* Every call of the library ends, but for a receive on a session that lives and
\* has nothing to say; the daemon is ready to accept again; and no session
\* outlives its client.
EverythingEnds == <>[]Over
=============================================================================
