----------------------------- MODULE MCDaemons ------------------------------
(* Instances of Daemons for TLC.                                           *)
EXTENDS Daemons

\* two daemons on one segment, the third on another
MCSeg == <<1, 1, 2>>

\* The timeouts of Memb_init on a local network, in quarters of a second:
\* Alive_timeout and Join_timeout 1, Hurry_timeout and Seg_timeout (gather) 2,
\* Rep_timeout (seg) 2.5, Gather_timeout (form), Form_timeout and Token_timeout
\* (loss) 5; Lookup_timeout, 120, is cut down to the first one after them all.
MCTimeout == [alive |-> 1, join |-> 1, hurry |-> 2, gather |-> 2, seg |-> 3,
              form |-> 5, loss |-> 5, lookup |-> 8]

NoLoad == [p \in Proc |-> <<>>]
Boot(conf, comps) ==
  [conf |-> conf, ring |-> {}, down |-> NoLoad, visits |-> <<>>, crashed |-> {},
   comps |-> comps, crashes |-> {}, lost |-> 0, slow |-> 0]

Message(id, type) == [id |-> id, type |-> type, lens |-> <<3>>]
Load(types) == [p \in Proc |-> IF types[p] = 0 THEN <<>> ELSE <<Message(p, types[p])>>]
Ring(memb, types, visits, crashed, comps) ==
  [Boot(memb, comps) EXCEPT !.ring = memb, !.down = Load(types), !.visits = visits,
                            !.crashed = crashed]

\* Three daemons start while one crashes; two on different segments start with
\* one message lost, repeated or late; in a ring of three one daemon has crashed
\* after an agreed and a safe message that not everyone got, and then a message
\* is lost or late too; such a ring splits; a ring of two splits and merges.
MCScenarios ==
  {[Boot({1, 2, 3}, <<{{1, 2, 3}}>>) EXCEPT !.crashes = {2}],
   [Boot({1, 3}, <<{{1, 3}}>>) EXCEPT !.lost = 1, !.slow = 1],
   [Ring({1, 2, 3}, <<0, AGREED_TYPE, SAFE_TYPE>>, <<{}, {}, {1}>>, {3}, <<{{1, 2, 3}}>>)
      EXCEPT !.slow = 1],
   Ring({1, 2, 3}, <<AGREED_TYPE, 0, SAFE_TYPE>>, <<{3}, {}, {2}>>, {}, <<{{1, 2}, {3}}>>),
   Ring({1, 2}, <<AGREED_TYPE, SAFE_TYPE, 0>>, <<{}, {}>>, {}, <<{{1}, {2}}, {{1, 2}}>>)}
  \cup {Ring({1, 2, 3}, <<0, AGREED_TYPE, SAFE_TYPE>>, <<{}, {}, h>>, {2}, <<{{1, 2, 3}}>>) :
          h \in {{}, {1}}}
  \cup {[Ring({1, 2, 3}, <<0, AGREED_TYPE, SAFE_TYPE>>, <<{}, g, {1}>>, {3}, <<{{1, 2, 3}}>>)
           EXCEPT !.lost = 1] : g \in {{}, {3}}}
=============================================================================
