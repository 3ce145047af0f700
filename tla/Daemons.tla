------------------------------ MODULE Daemons -------------------------------
(***************************************************************************)
(* The daemons of a configuration, each running the protocols of Protocol  *)
(* and Membership, over a network that splits, merges, loses and delays.   *)
(* A daemon is one event loop: each action is one event of one daemon      *)
(* (Prot_handle_bcast, Prot_handle_token or a timer) up to its end.        *)
(*                                                                         *)
(* Time passes in steps of the smallest timeout (250 ms) while nothing is  *)
(* under way and no timer is due, which is what the timeouts of Memb_init  *)
(* are chosen for.  A bounded number of times the network is slower than   *)
(* they allow: a timer fires too soon, or a token overtakes what was sent  *)
(* before it.                                                              *)
(***************************************************************************)
EXTENDS Membership

CONSTANTS
  Proc,
  Scenarios      \* what a behaviour starts with and what may happen in it:
                 \*   conf     the configured daemons
                 \*   ring     the membership it starts with, {} for a start-up
                 \*   down     [Proc -> Seq(message)]: what the sessions submitted
                 \*   visits   visits the token has made in the ring before it was
                 \*            lost: for each, who got the packets sent
                 \*   crashed  the daemons that then crashed
                 \*   comps    the components of the network, and the ones it may
                 \*            change to, in order
                 \*   crashes  daemons that may still crash
                 \*   lost     messages that may be lost, or received twice
                 \*   slow     times the network is too slow

VARIABLES
  d,             \* [conf -> record]
  net,           \* the messages under way
  comp,          \* what connects: a partition of conf
  up,            \* the daemons that run
  rest           \* what may still go wrong, and what was submitted (given)

vars == <<d, net, comp, up, rest>>

Connected(p, q) == \E c \in comp : {p, q} \subseteq c

-----------------------------------------------------------------------------

\* a daemon that is starting (before Memb_init), or in an installed membership
Record(p, sc, memb) ==
  [ me |-> p, state |-> "OP", alive |-> FALSE, just |-> FALSE, accel |-> FALSE,
    conf |-> sc.conf, memb |-> memb, rmemb |-> memb, mid |-> [proc |-> Conf_leader(memb), time |-> -1],
    fmemb |-> {}, fmid |-> NoMembId, form1 |-> NoMembId, ltime |-> -1, ftime |-> 0,
    commit |-> [all |-> {p}, trans |-> {p}], fcommit |-> [all |-> {}, trans |-> {}],
    fmem |-> <<>>, freps |-> <<>>, prep |-> <<>>, segrep |-> None, foreign |-> FALSE,
    high |-> 0, myaru |-> 0, aru |-> 0, disc |-> 0, dlvd |-> 0, lastseq |-> 0,
    pk |-> [k \in 0 .. Slots - 1 |-> NoPacket], up |-> [r \in sc.conf |-> <<>>],
    down |-> sc.down[p], cur |-> 0,
    tok |-> [arq |-> 0, ret |-> 0, seq |-> 0, aru |-> 0, last |-> None, fc |-> 0,
             rtr |-> <<>>, mid |-> NoMembId, from |-> None],
    cnt |-> 0, nret |-> 0, nsent |-> 0, thr |-> BLOCK_REGULAR_DELIVERY, evq |-> {},
    tm |-> [e \in {} |-> 0], log |-> <<>>, out |-> {}, fatal |-> FALSE ]

-----------------------------------------------------------------------------
(* What a daemon does with a message or a timer                            *)

\* a packet of my membership keeps the token timers back
Handle_packet(st, m) ==
  LET s1 == IF st.alive THEN E_queue(st, "loss") ELSE st
      s2 == IF st.alive /\ Is_leader(st) THEN E_queue(s1, "hurry") ELSE s1
  IN  IF m.pkt.mid # st.mid THEN Memb_handle_message(st, m) ELSE Prot_handle_bcast(s2, m.pkt)

Hurry(st) ==
  LET h  == Prot_token_hurry(st)
      s1 == Send(h.st, {[kind |-> "tok", from |-> st.me, to |-> h.tok.to, tok |-> h.tok.tok]})
  IN  IF Is_leader(st) THEN E_queue(s1, "hurry") ELSE s1

\* Prot_handle_token; the timers of the token are set before it is answered
Token_timers(st) == E_queue(IF Is_leader(st) THEN E_queue(st, "hurry") ELSE st, "loss")
Send_result(r, p) ==
  Send(r.st, {[kind |-> "pkt", from |-> p, to |-> k.to, pkt |-> k.pkt] : k \in r.pkts}
             \cup {[kind |-> "tok", from |-> p, to |-> t.to, tok |-> t.tok] : t \in r.toks})
Handle_token(st, tok) ==
  IF Token_is_mine(st, tok) /\ Token_is_new(st, tok)
  THEN Send_result(Take_token(Token_timers(st), tok), st.me)
  ELSE IF Token_is_mine(st, tok) /\ Token_is_retrans(st, tok)
  THEN Hurry([st EXCEPT !.tok.ret = tok.ret])
  ELSE st

Handle(st, m) ==
  CASE m.kind = "pkt" -> Handle_packet(st, m)
    [] m.kind = "tok" -> Handle_token(st, m.tok)
    [] OTHER          -> Memb_handle_message(st, m)

Timer(st, e) ==
  CASE e = "alive"  -> E_queue(Scast_alive(st), "alive")
    [] e = "join"   -> Send_join(st)
    [] e = "gather" -> Gather_or_represented(st)
    [] e = "seg"    -> Shift_to_seg(st)
    [] e = "form"   -> Form_or_fail(st)
    [] e = "loss"   -> Memb_token_loss(st)
    [] e = "lookup" -> Memb_lookup_new_members(st)
    [] e = "hurry"  -> Hurry(st)

-----------------------------------------------------------------------------
(* Where a behaviour begins *)

\* In an installed membership the token comes to the leader.
Start(p, sc) ==
  IF p \in sc.ring
  THEN LET id == [proc |-> Conf_leader(sc.ring), time |-> 1]
           s1 == [Record(p, sc, sc.ring) EXCEPT !.alive = TRUE, !.thr = UNRELIABLE_TYPE, !.ltime = 1,
                    !.mid = id, !.log = <<[kind |-> "reg", id |-> id, memb |-> sc.ring]>>]
       IN  IF Is_leader(s1) THEN E_queue(E_queue(E_queue(s1, "loss"), "hurry"), "lookup")
           ELSE E_queue(s1, "loss")
  ELSE Memb_init(Record(p, sc, {p}))

\* A daemon has handled the token as s says, and the daemons in got its packets.
Take_packets(st, pkts) ==
  FoldLeft(Handle_packet, st, SetToSortSeq(pkts, LAMBDA x, y : x.pkt.seq < y.pkt.seq))
After_visit(a, got, s) ==
  LET t == CHOOSE m \in s.out : m.kind = "tok"
  IN  [d |-> [q \in DOMAIN a.d |->
                IF q = a.to THEN [s EXCEPT !.out = {}]
                ELSE IF q \in got
                THEN Take_packets(a.d[q], {m \in s.out : m.kind = "pkt" /\ m.to = q})
                ELSE a.d[q]],
       tok |-> t.tok, to |-> t.to]

\* The visits of the token before the behaviour begins: who got what was sent.
Visited(sc) ==
  LET p0    == Conf_leader(sc.ring)
      start == [d |-> [p \in sc.conf |-> Start(p, sc)],
                tok |-> [arq |-> 0, ret |-> 0, seq |-> 0, aru |-> 0, last |-> None, fc |-> 0,
                         rtr |-> <<>>, mid |-> [proc |-> p0, time |-> 1], from |-> Conf_last(sc.ring)],
                to |-> p0]
      Visit(a, got) == After_visit(a, got, Handle_token(a.d[a.to], a.tok))
  IN  FoldLeft(Visit, start, sc.visits)

Init ==
  \E sc \in Scenarios :
    /\ d = IF sc.ring = {} THEN [p \in sc.conf |-> Start(p, sc)] ELSE Visited(sc).d
    /\ net = {}
    /\ comp = Head(sc.comps) /\ up = sc.conf \ sc.crashed
    /\ rest = [comps |-> Tail(sc.comps), crashes |-> sc.crashes, lost |-> sc.lost, slow |-> sc.slow, given |-> sc.down]

-----------------------------------------------------------------------------
(* Actions                                                                 *)

\* What daemon p has sent leaves for those it is connected to.  A token it sent
\* before and that is still under way is lost then (RingProtocol has the
\* behaviours where it is received after all).
Emit(p, s, under_way) ==
  LET old == {m \in under_way : m.kind = "tok" /\ m.from = p /\ \E t \in s.out : t.kind = "tok"}
  IN  /\ d' = [d EXCEPT ![p] = [s EXCEPT !.out = {}]]
      /\ net' = (under_way \ old) \cup {m \in s.out : m.to \in up /\ Connected(p, m.to)}

\* No token, not even a form token, overtakes what was sent before it.
Tokens == {"tok", "form1", "form2"}
Prompt(m) == m.kind \in Tokens => \A k \in net : k.kind \in Tokens

Settling(p) == d[p].state = "OP" /\ d[p].thr = BLOCK_REGULAR_DELIVERY

Too_slow == rest.slow > 0 /\ rest' = [rest EXCEPT !.slow = @ - 1]
Lossy    == rest.lost > 0 /\ rest' = [rest EXCEPT !.lost = @ - 1]

\* received, or received and received again later
Receive(p) ==
  /\ p \in up
  /\ \E m \in net :
       /\ m.to = p
       /\ \/ /\ IF Prompt(m) THEN UNCHANGED rest ELSE Too_slow
             /\ Emit(p, Handle(d[p], m), net \ {m})
          \/ /\ m.kind # "tok" /\ Prompt(m) /\ Lossy
             /\ Emit(p, Handle(d[p], m), net)
  /\ UNCHANGED <<comp, up>>

\* What is due at the same instant happens in this order, and what was
\* announced at that instant is heard before a membership is formed at it:
\* daemons whose timers coincide for ever could otherwise miss each other for
\* ever.
Rank(e) == IF e \in {"loss", "seg", "gather"} THEN 0 ELSE IF e = "form" THEN 2 ELSE 1
Due(p, e) ==
  /\ d[p].tm[e] = 0
  /\ \A q \in up : \A f \in DOMAIN d[q].tm : d[q].tm[f] = 0 => Rank(e) <= Rank(f)
  /\ e = "form" => \A m \in net : m.kind \in Tokens

\* a queued event of the daemon is due
Fire(p) ==
  /\ p \in up
  /\ \E e \in DOMAIN d[p].tm :
       /\ IF Due(p, e) THEN UNCHANGED rest ELSE Too_slow
       /\ Emit(p, Timer(E_dequeue(d[p], {e}), e), net)
  /\ UNCHANGED <<comp, up>>

\* The group layer has exchanged its state and lets messages through; the
\* deliveries this queues are the next events.
Groups_ready(p) ==
  /\ p \in up /\ Settling(p)
  /\ d' = [d EXCEPT ![p] = Prot_set_delivery_threshold(@, UNRELIABLE_TYPE)]
  /\ UNCHANGED <<net, comp, up, rest>>

Deliver_event(p) ==
  /\ p \in up
  /\ \E e \in d[p].evq : d' = [d EXCEPT ![p] = Run_delivery_event(@, e)]
  /\ UNCHANGED <<net, comp, up, rest>>

Tick ==
  /\ net = {}
  /\ \A p \in up : /\ \A e \in DOMAIN d[p].tm : d[p].tm[e] > 0
                   /\ ~ Settling(p) /\ d[p].evq = {}
  /\ d' = [p \in DOMAIN d |->
             IF p \in up THEN [d[p] EXCEPT !.tm = [e \in DOMAIN @ |-> @[e] - 1]] ELSE d[p]]
  /\ UNCHANGED <<net, comp, up, rest>>

\* The network splits or merges.
Reconnect ==
  /\ rest.comps # <<>>
  /\ comp' = Head(rest.comps) /\ rest' = [rest EXCEPT !.comps = Tail(@)]
  /\ UNCHANGED <<d, net, up>>

Crash(p) ==
  /\ p \in rest.crashes \cap up
  /\ up' = up \ {p} /\ rest' = [rest EXCEPT !.crashes = @ \ {p}]
  /\ UNCHANGED <<d, net, comp>>

\* a message that nothing connects any more to its receiver, or that is lost
Lose ==
  /\ \E m \in net :
       /\ net' = net \ {m}
       /\ IF m.to \in up /\ m.from \in up /\ Connected(m.from, m.to)
          THEN Lossy
          ELSE UNCHANGED rest
  /\ UNCHANGED <<d, comp, up>>

Next ==
  \/ \E p \in DOMAIN d : Receive(p) \/ Fire(p) \/ Groups_ready(p) \/ Deliver_event(p) \/ Crash(p)
  \/ Tick \/ Reconnect \/ Lose

Spec == Init /\ [][Next]_vars

\* Every event loop keeps running.  Some step is always possible, and time
\* passes only when all that is due has happened, so it is enough that the
\* system as a whole does not stop.
FairSpec == Spec /\ []<><<Next>>_vars

-----------------------------------------------------------------------------
(* Properties                                                              *)

States == {"OP", "SEG", "REPRESENTED", "GATHER", "FORM", "EVS"}

\* The records keep their shape, and a token counts (Memb_token_alive) only in
\* the three states whose handlers expect one: whoever leaves a ring, by losing
\* the token or by agreeing to a form token, has given up the old token.
TypeOK ==
  /\ DOMAIN d \subseteq Proc /\ up \subseteq DOMAIN d
  /\ UNION comp = DOMAIN d
  /\ \A p \in DOMAIN d :
       /\ d[p].state \in States /\ d[p].me = p
       /\ p \in d[p].memb /\ d[p].memb \subseteq d[p].conf
       /\ d[p].out = {} /\ DOMAIN d[p].tm \subseteq DOMAIN Timeout
       /\ d[p].alive => d[p].state \in {"OP", "GATHER", "EVS"}

\* No daemon stops itself: none of the Alarmp( SPLOG_FATAL ) checks of the
\* token, of delivery, of Fill_form1 and of Read_form2 is reached, whatever the
\* moment of a crash, a split, a lost or a late message; and the state of the
\* membership algorithm, of the token and of the timers fit together (TypeOK).
NeverFatal == TypeOK /\ \A p \in up : ~ d[p].fatal

\* the regular memberships a daemon delivered, and the messages between two
Views(p) == {k \in DOMAIN d[p].log : d[p].log[k].kind = "reg"}
Delivered_between(p, i, j) == {d[p].log[k].id : k \in {n \in i .. j : d[p].log[n].kind = "msg"}}

\* A membership identifier stands for one set of daemons: Create_form1 and
\* Read_form2 never use the identifier of an earlier or of a concurrent
\* membership again, and all who install it install the same one.
ViewsAgree ==
  \A p, q \in DOMAIN d : \A i \in Views(p), j \in Views(q) :
    d[p].log[i].id = d[q].log[j].id => d[p].log[i].memb = d[q].log[j].memb

\* the transitions of p: from a view to the next one, through its transitional
Moves(p) ==
  {[from |-> d[p].log[i].id, to |-> d[p].log[j].id,
    trans |-> (CHOOSE k \in i .. j : d[p].log[k].kind = "trans"),
    got |-> Delivered_between(p, i, j), who |-> p] :
     <<i, j>> \in {x \in Views(p) \X Views(p) :
                     x[1] < x[2] /\ \A k \in Views(p) : ~ (x[1] < k /\ k < x[2])}}
Trans(m) == d[m.who].log[m.trans]

\* Virtual synchrony, the promise of the toolkit to its users: two daemons that
\* go together from one membership to the next agree on the transitional one
\* and have delivered the same messages in between, whatever each of them had
\* received when the token was lost.
VirtualSynchrony ==
  \A p, q \in DOMAIN d : \A m \in Moves(p), n \in Moves(q) :
    m.from = n.from /\ m.to = n.to =>
      /\ q \in Trans(m).memb <=> p \in Trans(n).memb
      /\ q \in Trans(m).memb => /\ Trans(m).memb = Trans(n).memb /\ Trans(m).id = Trans(n).id
                                /\ m.got = n.got

\* Two daemons deliver the messages they both deliver in the same order, and
\* none of them twice, also across a change of membership and when they were
\* apart in between.
Messages(p) == SelectSeq(d[p].log, LAMBDA e : e.kind = "msg")
TotalOrder ==
  \A p, q \in DOMAIN d :
    LET a == Messages(p)  b == Messages(q)
    IN  \A i, j \in DOMAIN a : \A k, l \in DOMAIN b :
          a[i].id = b[k].id /\ a[j].id = b[l].id => (i <= j <=> k <= l)

\* Self-delivery: what the sessions of a daemon submitted is in its down queue,
\* among its packets or delivered to them; no recovery throws it away, not even
\* behind a hole that Deliver_after_trans has to step over.
OwnMessagesKept ==
  \A p \in up : \A k \in DOMAIN rest.given[p] :
    LET id == rest.given[p][k].id
    IN  \/ \E i \in DOMAIN d[p].log : d[p].log[i].kind = "msg" /\ d[p].log[i].id = id
        \/ \E i \in DOMAIN d[p].down : d[p].down[i].id = id
        \/ \E i \in DOMAIN d[p].pk : d[p].pk[i].ex = 1 /\ d[p].pk[i].pkt.msg.id = id

\* Once the network stops changing, the daemons of a component end up in one
\* membership, the component, and stay in it: the attempts of Form_or_fail,
\* Memb_lookup_new_members and Memb_token_loss do not keep tearing down each
\* other's result.
Stabilises ==
  <>[](\A p \in up : d[p].state \in {"OP", "GATHER"} /\
                     d[p].memb = (CHOOSE c \in comp : p \in c) \cap up)
=============================================================================
