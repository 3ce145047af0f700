--------------------------- MODULE MCFlushService ---------------------------
(* Instances of FlushService for TLC.                                      *)
EXTENDS FlushService

Does(op) == [op |-> op]
Says(i)  == [op |-> "send", id |-> i, rel |-> FALSE, to |-> {}]
Rel(i)   == [Says(i) EXCEPT !.rel = TRUE]
Sub(i, who) == [Says(i) EXCEPT !.to = who]
Private(i, who) == [op |-> "private", id |-> i, to |-> who]

Scenario(members, small, a, b, c, s) ==
    [members |-> members, small |-> small,
     todo |-> [x \in Clients \cup {Spread} |-> CASE x = "a" -> a [] x = "b" -> b
                                                 [] x = "c" -> c [] OTHER -> s]]

\* a client joins and both speak
Two     == Scenario({"a"}, {}, <<Rel(1)>>, <<Does("join"), Rel(2)>>, <<>>, <<>>)
\* small buffers, and a message past the flush layer
Small   == Scenario({"a"}, {"a", "b"}, <<Says(1), Private(2, {"b"})>>, <<Does("join")>>, <<>>, <<>>)
\* a reliable message around a leave, and around a crash
Leaves  == Scenario({"a", "b", "c"}, {}, <<Rel(1)>>, <<>>, <<Does("leave")>>, <<>>)
Crashes == Scenario({"a", "b", "c"}, {}, <<Rel(1), Says(2)>>, <<>>, <<Does("disconnect")>>, <<>>)
\* one joins while another goes
Both    == Scenario({"a", "b"}, {}, <<>>, <<Does("disconnect")>>, <<Does("join")>>, <<>>)
\* a client joins and goes at once; goes and comes again
Brief   == Scenario({"a"}, {}, <<Says(1)>>, <<Does("join"), Does("disconnect")>>, <<>>, <<>>)
Again   == Scenario({"a", "b"}, {}, <<>>, <<Does("leave"), Does("join"), Sub(1, {"a"}), Does("leave"), Does("join")>>, <<>>, <<>>)
\* daemons part
Parted  == Scenario({"a", "b"}, {}, <<Says(1)>>, <<>>, <<>>, <<Does("part")>>)
MCFlushScenarios == {Two, Small, Leaves, Crashes, Both, Brief, Again, Parted}
\* Two threads use a mailbox while a third one disconnects it, and then connects again;
\* or one connects again while the third one still disconnects.
Program(r, s, d) == [t \in Threads |-> CASE t = "r" -> r [] t = "s" -> s [] OTHER -> d]
MCLockPrograms ==
    {Program(<<"receive", "receive">>, <<"call">>, <<"disconnect", "connect">>),
     Program(<<"receive">>, <<"connect", "receive">>, <<"disconnect">>),
     Program(<<"call", "call">>, <<"connect", "call">>, <<"disconnect">>)}
=============================================================================
