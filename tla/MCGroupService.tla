--------------------------- MODULE MCGroupService ---------------------------
(* Instances of GroupService for TLC.                                      *)
EXTENDS GroupService

Id(p, t) == [proc |-> p, time |-> t]
Trans(S, i) == [kind |-> "trans", memb |-> S, mid |-> i]
Reg(S, i)   == [kind |-> "reg", memb |-> S, mid |-> i]

\* a daemon in a membership, without groups so far
Formed(S, p) ==
  LET mid   == Id(Min(S), 0)
      Mess(q) == [kind |-> "groups", rep |-> q, size |-> 1, type |-> AGREED_TYPE,
                  mid |-> mid, first |-> TRUE, sset |-> {q}, ents |-> <<>>]
  IN  <<Trans({p}, Id(p, -1)), Reg(S, mid)>> \o
      (IF S = {p} THEN <<>>
       ELSE <<[kind |-> "sent"]>> \o [k \in 1 .. Cardinality(S) |-> Mess(In_order(S)[k])])

Connect(n) == <<[kind |-> "connect", name |-> n, mbox |-> n]>>
Join(n, p, g) == <<[kind |-> "join", who |-> <<n, p>>, group |-> g]>>

\* client 1 of every daemon is a member of group 1, in these memberships
Members_in(comps, who) ==
  [p \in Proc |->
     LET S == CHOOSE c \in comps : p \in c
     IN  Formed(S, p) \o (IF p \in who THEN Connect(1) ELSE <<>>) \o
         FlattenSeq([k \in 1 .. Cardinality(S \cap who) |-> Join(1, In_order(S \cap who)[k], 1)])]

View(S)  == [kind |-> "view", memb |-> S]
Crashes(p) == [kind |-> "crash", proc |-> p]
Starts(p)  == [kind |-> "start", proc |-> p]

ToGroup(g) == [to |-> "group", name |-> g]
Says(n, i, type) == [op |-> "msg", name |-> n, id |-> i, type |-> type,
                     dests |-> <<ToGroup(1)>>, discard |-> FALSE]
Does(op, n) == [op |-> op, name |-> n, group |-> 1]
Connects(n, memb) == [op |-> "connect", name |-> n, memb |-> memb]
Joins(n, g) == [op |-> "join", name |-> n, group |-> g]
\* to two groups and to a session, not back to the sender
Multi(n, i) == [Says(n, i, AGREED_TYPE) EXCEPT !.discard = TRUE,
                  !.dests = <<ToGroup(1), ToGroup(2), [to |-> "private", who |-> <<2, 1>>]>>]
Idle == [p \in Proc |-> <<>>]
Singles == {{1}, {2}, {3}}
All == {{1, 2, 3}}

\* daemons that come one by one: the second exchange may cut the first short
Cascade ==
  {[boot |-> Members_in(Singles, {1, 2, 3}), ops |-> Idle, faults |-> views] :
     views \in {<<View({1, 2}), View({1, 2, 3})>>, <<View({1, 2, 3}), View({1, 2, 3})>>}}
\* messages of all three kinds while a daemon is cut off
Partition ==
  {[boot |-> Members_in(All, {1, 2, 3}),
    ops |-> <<<<Says(1, 1, SAFE_TYPE)>>, <<Says(1, 2, AGREED_TYPE)>>, <<Says(1, 3, RELIABLE_TYPE)>>>>,
    faults |-> <<View({1, 2})>>]}
\* a leave and a join around a partition and the merge after it
Join_and_leave ==
  {[boot |-> Members_in(All, {1, 2}),
    ops |-> <<<<>>, <<Does("leave", 1)>>, <<Connects(1, TRUE), Does("join", 1)>>>>,
    faults |-> <<View({1, 2}), View({1, 2, 3})>>]}
\* a session is killed and its name used again
Name_again ==
  {[boot |-> Members_in({{1, 2}, {3}}, {1, 2}),
    ops |-> <<<<Does("fail", 1), Connects(1, TRUE), Does("join", 1)>>,
              <<Says(1, 1, AGREED_TYPE)>>, <<>>>>,
    faults |-> <<View({1, 2, 3})>>]}
\* a daemon crashes and comes back with nothing
Crash_restart ==
  {[boot |-> Members_in({{1, 2}, {3}}, {1, 2}),
    ops |-> <<<<>>, <<Does("kill", 1)>>, <<>>>>,
    faults |-> <<Crashes(1), View({2, 3}), Starts(1), View({1, 2, 3})>>]}
\* and client 2 of daemon 1 is a member of groups 1 and 2
With_second(boot) ==
  [p \in Proc |-> boot[p] \o (IF p = 1 THEN Connect(2) ELSE <<>>) \o
     (IF p = 3 THEN <<>> ELSE Join(2, 1, 1) \o Join(2, 1, 2))]
\* a client that does not read, in two groups a message is sent to at once
Slow_client ==
  {[boot |-> With_second(Members_in({{1, 2}, {3}}, {1, 2})),
    ops |-> <<<<Multi(1, 1), Multi(1, 2), Connects(2, TRUE), Joins(2, 1)>>,
              <<>>, <<>>>>,
    faults |-> <<View({1, 2, 3})>>]}
\* a join beyond the limit, and a session that wants no membership messages
Too_many ==
  {[boot |-> With_second(Members_in({{1, 2}, {3}}, {1, 2})),
    ops |-> <<<<Connects(3, FALSE), Joins(3, 1), Joins(3, 2)>>, <<Says(1, 1, RELIABLE_TYPE)>>,
              <<>>>>,
    faults |-> <<View({1, 2, 3})>>]}
MCScenarios ==
  UNION {Cascade, Partition, Join_and_leave, Name_again, Crash_restart, Slow_client, Too_many}
=============================================================================
