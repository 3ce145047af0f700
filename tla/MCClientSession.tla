-------------------------- MODULE MCClientSession ---------------------------
(* Programs that bring the library and the daemon's sessions into the states the
   properties are about.  Every program is the whole life of a client process of
   two threads. *)
EXTENDS ClientSession

Connect(h, name) == [op |-> "connect", h |-> h, name |-> name, version |-> "new",
                     methods |-> {"NULL"}, timeout |-> FALSE]
Send(h, to, len) == [op |-> "reg", h |-> h, to |-> to, ng |-> 1, len |-> len]
Join(h)          == [op |-> "join", h |-> h, to |-> {}, ng |-> 1, len |-> 0]
Leave(h)         == [op |-> "leave", h |-> h, to |-> {}, ng |-> 1, len |-> 0]
Disconnect(h)    == [op |-> "kill", h |-> h, to |-> {}, ng |-> 1, len |-> 0]
Receive(h, g, l) == [op |-> "receive", h |-> h, maxg |-> g, maxl |-> l, drop |-> FALSE]
Drop(h, g, l)    == [op |-> "receive", h |-> h, maxg |-> g, maxl |-> l, drop |-> TRUE]
Stop             == [op |-> "exit"]

Two(p, q) == {[t \in Threads |-> IF t = "t1" THEN p ELSE q]}

\* two threads send on one session and receive what comes back
Two_senders == Two(<<Connect(1, "a"), Join(1), Send(1, {"group"}, 2), Receive(1, 2, 2), Receive(1, 2, 2)>>,
                   <<Send(1, {"a"}, 1), Receive(1, 2, 2), Send(1, {"a"}, 3), Disconnect(1)>>)
\* receives with buffers that are too short, by two threads
Short_buffers == Two(<<Connect(1, "a"), Send(1, {"a"}, 3), Receive(1, 1, 1), Receive(1, 1, 3), Receive(1, 0, 3)>>,
                     <<Send(1, {"a"}, 1), Receive(1, 0, 2), Receive(1, 1, 3), Receive(1, 1, 3)>>)
\* the rest of a message is thrown away
Dropping == Two(<<Connect(1, "a"), Send(1, {"a"}, 3), Send(1, {"a"}, 1)>>,
                <<Drop(1, 0, 1), Drop(1, 1, 1)>>)
\* the same name twice, and again once it is free
Same_name == Two(<<Connect(1, "a"), Disconnect(1), Connect(1, "a")>>,
                 <<[Connect(2, "a") EXCEPT !.timeout = TRUE], Connect(2, "b")>>)
\* more sessions than the library, or the daemon, holds
Quota == Two(<<Connect(1, None), Connect(2, "b"), Disconnect(1), Send(2, {"b"}, 0)>>,
             <<Connect(3, "c"), Disconnect(3), Connect(1, "d")>>)
Many == Two(<<Connect(1, "a"), Connect(2, "b"), Connect(3, "c")>>, <<Connect(4, "d")>>)
\* both threads disconnect, one of them with a receive on its way
Both == Two(<<Connect(1, "a"), Send(1, {"a"}, 2), Disconnect(1)>>,
            <<Receive(1, 0, 1), Disconnect(1)>>)
\* joining and leaving, rejection, and a member that goes
Group == Two(<<Connect(1, "a"), Join(1), Receive(1, 2, 1), Leave(1), Receive(1, 2, 1)>>,
             <<Connect(2, "b"), Join(2), Receive(2, 3, 3), Stop>>)
\* a client that is slow to read is killed
Slow == Two(<<Connect(1, "a"), Send(1, {"a"}, 2), Send(1, {"a"}, 2), Send(1, {"a"}, 2), Receive(1, 1, 2)>>,
            <<Send(1, {"a"}, 2), Disconnect(1)>>)
\* a message the daemon does not accept costs the session, with two threads in receive
Refused == Two(<<Connect(1, "a"), [Send(1, {"a"}, 0) EXCEPT !.ng = 3], Receive(1, 1, 2)>>,
               <<Receive(1, 1, 2), Send(1, {"a"}, 1), Disconnect(1)>>)
\* libraries and methods the daemon does not take
Methods == Two(<<[Connect(1, "a") EXCEPT !.version = "old"], [Connect(1, "z") EXCEPT !.methods = {"IP"}],
                 [Connect(1, "e") EXCEPT !.version = "ancient"]>>,
               <<[Connect(2, "z") EXCEPT !.version = "old"], Connect(2, "!"), Disconnect(2)>>)

MCPrograms == UNION {Two_senders, Short_buffers, Dropping, Same_name, Quota, Many, Both, Group, Slow, Refused, Methods}
=============================================================================
