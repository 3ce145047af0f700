--------------------------- MODULE MCRingProtocol ---------------------------
(* Instances of RingProtocol for TLC.                                      *)
EXTENDS RingProtocol

M(id, type, lens) == [id |-> id, type |-> type, lens |-> lens]

\* two daemons on one segment, the third on another
MCSeg == [p \in Proc |-> IF p < 3 THEN 1 ELSE 2]

\* A message of two packets with a small one behind its end, a safe message
\* and a reliable one.
MCLoad ==
  [p \in Proc |->
     CASE p = 1 -> <<M("a1", FIFO_TYPE, <<3, 1>>), M("a2", AGREED_TYPE, <<1>>)>>
       [] p = 2 -> <<M("b1", SAFE_TYPE, <<1>>)>>
       [] p = 3 -> <<M("c1", RELIABLE_TYPE, <<1>>)>>]

\* no timer of the membership protocol runs in a stable ring
MCTimeout == [e \in {} |-> 0]

\* Two daemons, with a packet or token lost or repeated, with a daemon whose
\* groups are late, with a hurry timeout too early; three daemons on an
\* accelerated ring, where packets are only delayed.
Two(f, e, l) ==
  [memb |-> {1, 2}, queued |-> <<2, 0, 0>>, later |-> <<0, 1, 0>>,
   faults |-> f, early |-> e, late |-> l, accel |-> FALSE]
MCScenarios ==
  {Two(1, 0, {}), Two(0, 0, {2}), Two(0, 1, {}),
   [memb |-> {1, 2, 3}, queued |-> <<0, 1, 1>>, later |-> <<0, 0, 0>>,
    faults |-> 0, early |-> 0, late |-> {}, accel |-> TRUE]}
=============================================================================
