---------------------------- MODULE RingProtocol ----------------------------
(***************************************************************************)
(* The ring of daemons in one membership: the handlers of protocol.c run   *)
(* by every daemon over a network that loses, repeats, delays and reorders *)
(* packets and tokens.  The membership has just been installed, so the     *)
(* token is on its way to the daemon that installed it first.              *)
(***************************************************************************)
EXTENDS Protocol

CONSTANTS
  Proc,          \* the configured daemons
  Load,          \* [Proc -> Seq(message)]: what the sessions may submit
  WaterMark,     \* WATER_MARK: a longer down queue blocks the sessions
  Scenarios      \* the membership, the load and the bounds of a behaviour:
                 \*   memb    the daemons of the membership
                 \*   queued  [Proc -> Nat]: messages that wait at installation
                 \*   later   [Proc -> Nat]: messages submitted after it
                 \*   faults  packets and tokens lost or repeated
                 \*   early   hurry timeouts while the token is not missed
                 \*   late    daemons whose group layer is exchanging its state
                 \*   accel   the accelerated ring is configured

VARIABLES
  d,             \* [daemon of the membership -> its record]
  todo,          \* [the same -> what its sessions have still to submit]
  net,           \* packets, tokens and hurry requests under way
  sent,          \* every packet ever created, in the order of creation
  order,         \* the ids of their ordered messages, in that order
  faults, early  \* how many are still allowed

vars == <<d, todo, net, sent, order, faults, early>>

ring == DOMAIN d     \* the daemons of the membership

-----------------------------------------------------------------------------

MembId(memb) == [proc |-> Conf_leader(memb), time |-> 1]

FirstToken(memb, q, arq) ==
  [arq |-> arq, ret |-> 0, seq |-> 0, aru |-> EvsSeqGap, last |-> q, fc |-> 0,
   rtr |-> <<>>, mid |-> MembId(memb), from |-> Conf_previous(memb, q)]

\* Every daemon has installed the membership, q before all others: it is the
\* one that raised the token's aru, and the token comes back to it.
InitDaemon(p, q, sc) ==
  [ me |-> p, state |-> "OP", alive |-> TRUE, just |-> TRUE, accel |-> sc.accel,
    memb |-> sc.memb, mid |-> MembId(sc.memb), fmemb |-> sc.memb, fmid |-> MembId(sc.memb),
    commit |-> [all |-> {p}, trans |-> {p}], fcommit |-> [all |-> {p}, trans |-> {p}],
    high |-> 0, myaru |-> 0, aru |-> 0, disc |-> 0, dlvd |-> 0, lastseq |-> EvsSeqGap,
    pk |-> [k \in 0 .. Slots - 1 |-> NoPacket], up |-> [r \in Proc |-> <<>>],
    down |-> SubSeq(Load[p], 1, sc.queued[p]), cur |-> 0,
    tok |-> FirstToken(sc.memb, q, IF p < q \/ q = Conf_leader(sc.memb) THEN 1 ELSE 0),
    cnt |-> 0, nret |-> 0, nsent |-> 0,
    thr |-> IF p \in sc.late THEN BLOCK_REGULAR_DELIVERY ELSE UNRELIABLE_TYPE,
    evq |-> {}, log |-> <<>>, fatal |-> FALSE ]

Init ==
  \E sc \in Scenarios : \E q \in sc.memb :
    /\ d = [p \in sc.memb |-> InitDaemon(p, q, sc)]
    /\ todo = [p \in sc.memb |->
                 SubSeq(Load[p], sc.queued[p] + 1, sc.queued[p] + sc.later[p])]
    /\ net = [toks |-> {[to |-> q, tok |-> FirstToken(sc.memb, q, 1)]}, pkts |-> {}, hurry |-> {}]
    /\ sent = <<>> /\ order = <<>>
    /\ faults = sc.faults /\ early = sc.early

\* the messages a packet completes, and which of them are ordered
Messages_of(pkt) == (IF pkt.idx < 0 THEN <<pkt.msg.id>> ELSE <<>>)
                    \o [k \in 1 .. Len(pkt.rest) |-> pkt.rest[k].id]
Ordered_ids(pkt) == IF pkt.type = RELIABLE_TYPE THEN <<>> ELSE Messages_of(pkt)

-----------------------------------------------------------------------------
(* Actions                                                                 *)

\* a received message is taken off the network, or stays there to be
\* received again
Consume(field, m) ==
  \/ net' = [net EXCEPT ![field] = @ \ {m}] /\ UNCHANGED faults
  \/ faults > 0 /\ faults' = faults - 1 /\ UNCHANGED net

\* A session gives the daemon a message; when it is the first one and the
\* leader holds the token, the leader is asked for it.
Prot_new_message(p) ==
  /\ todo[p] # <<>> /\ Len(d[p].down) < WaterMark
  /\ todo' = [todo EXCEPT ![p] = Tail(@)]
  /\ LET s1 == [d[p] EXCEPT !.down = Append(@, Head(todo[p]))]
         wake == Len(s1.down) = 1 /\ Is_token_hold(s1)
         lead == Conf_leader(Memb_active_ptr(s1))
     IN  IF wake /\ lead = p
         THEN LET h == Prot_token_hurry([s1 EXCEPT !.cnt = 0])
              IN  /\ d' = [d EXCEPT ![p] = h.st]
                  /\ net' = [net EXCEPT !.toks = @ \cup {h.tok}]
         ELSE /\ d' = [d EXCEPT ![p] = s1]
              /\ net' = [net EXCEPT !.hurry = IF wake THEN @ \cup {p} ELSE @]
  /\ UNCHANGED <<sent, order, faults, early>>

Recv_bcast(p) ==
  /\ p \in ring
  /\ \E m \in net.pkts :
       /\ m.to = p
       /\ Consume("pkts", m)
       /\ d' = [d EXCEPT ![p] = Prot_handle_bcast(@, m.pkt)]
  /\ UNCHANGED <<todo, sent, order, early>>

\* The leader learns that someone has a message for the ring.
Recv_hurry ==
  /\ \E q \in net.hurry :
       LET p == Conf_leader(ring)
           h == Prot_token_hurry([d[p] EXCEPT !.cnt = 0])
       IN  IF Handle_hurry(d[p], q)
           THEN /\ d' = [d EXCEPT ![p] = h.st]
                /\ net' = [net EXCEPT !.hurry = @ \ {q}, !.toks = @ \cup {h.tok}]
           ELSE net' = [net EXCEPT !.hurry = @ \ {q}] /\ UNCHANGED d
  /\ UNCHANGED <<todo, sent, order, faults, early>>

\* A token that is still under way when the leader comes to its ARQ value
\* again, a whole turn of the field later, is taken to be lost.
Under_way(toks, st) ==
  IF Is_leader(st) THEN {m \in toks : m.tok.arq \notin {st.tok.arq, (st.tok.arq + 1) % ArqMod}} ELSE toks

\* the token m was taken by p, with the result r
Token_taken(p, m, r) ==
  /\ d' = [d EXCEPT ![p] = r.st]
  /\ sent' = sent \o r.new
  /\ order' = FoldLeft(LAMBDA o, k : o \o Ordered_ids(k), order, r.new)
  /\ \/ /\ net' = [net EXCEPT !.toks = Under_way(@ \ {m}, r.st) \cup r.toks,
                             !.pkts = @ \cup r.pkts]
        /\ UNCHANGED faults
     \/ /\ faults > 0 /\ faults' = faults - 1
        /\ net' = [net EXCEPT !.toks = Under_way(@, r.st) \cup r.toks,
                             !.pkts = @ \cup r.pkts]

\* Prot_handle_token: swallow it, send mine again, or take it.
Recv_token(p) ==
  /\ \E m \in net.toks :
       /\ m.to = p
       /\ LET st == d[p] IN
          IF Token_is_mine(st, m.tok) /\ Token_is_new(st, m.tok)
          THEN Token_taken(p, m, Take_token(st, m.tok))
          ELSE IF Token_is_mine(st, m.tok) /\ Token_is_retrans(st, m.tok)
          THEN LET h == Prot_token_hurry([st EXCEPT !.tok.ret = m.tok.ret]) IN
               /\ d' = [d EXCEPT ![p] = h.st]
               /\ net' = [net EXCEPT !.toks = (@ \ {m}) \cup {h.tok}]
               /\ UNCHANGED <<sent, order, faults>>
          ELSE net' = [net EXCEPT !.toks = @ \ {m}] /\ UNCHANGED <<d, sent, order, faults>>
  /\ UNCHANGED <<todo, early>>

\* The token is lost or held while someone has a use for it.
TokenMissed ==
  net.toks = {} /\ \E p \in ring : d[p].down # <<>> \/ d[p].aru < Len(sent)

\* The hurry timeout of the leader: the token is overdue, or only slow.
Prot_token_hurry_event ==
  LET p == Conf_leader(ring)
      h == Prot_token_hurry(d[p])
  IN  /\ d' = [d EXCEPT ![p] = h.st]
      /\ net' = [net EXCEPT !.toks = @ \cup {h.tok}]
      /\ IF TokenMissed THEN UNCHANGED early ELSE early > 0 /\ early' = early - 1
      /\ UNCHANGED <<todo, sent, order, faults>>

\* The group layer has the state of the other daemons: first ordered
\* delivery, then all.
Lower_threshold(p) ==
  /\ d[p].thr > UNRELIABLE_TYPE
  /\ \E t \in {AGREED_TYPE, UNRELIABLE_TYPE} :
       t < d[p].thr /\ d' = [d EXCEPT ![p] = Prot_set_delivery_threshold(@, t)]
  /\ UNCHANGED <<todo, net, sent, order, faults, early>>

Delivery_event(p) ==
  /\ \E e \in d[p].evq : d' = [d EXCEPT ![p] = Run_delivery_event(@, e)]
  /\ UNCHANGED <<todo, net, sent, order, faults, early>>

\* The network loses a packet or a token.
Lose ==
  /\ faults > 0 /\ faults' = faults - 1
  /\ \/ \E m \in net.pkts : net' = [net EXCEPT !.pkts = @ \ {m}]
     \/ \E m \in net.toks : net' = [net EXCEPT !.toks = @ \ {m}]
     \/ \E q \in net.hurry : net' = [net EXCEPT !.hurry = @ \ {q}]
  /\ UNCHANGED <<d, todo, sent, order, early>>

Next ==
  \/ \E p \in ring : \/ Prot_new_message(p) \/ Recv_bcast(p) \/ Recv_token(p)
                     \/ Lower_threshold(p) \/ Delivery_event(p)
  \/ Recv_hurry \/ Prot_token_hurry_event \/ Lose

Spec == Init /\ [][Next]_vars

\* No packet is under way for ever: the one with the lowest number arrives.
Seqs_to(p, n)     == {m.pkt.seq : m \in {k \in n.pkts : k.to = p}}
Lowest_arrives(p) == Recv_bcast(p) /\ Min(Seqs_to(p, net)) \notin Seqs_to(p, net')

\* A daemon whose event loop runs reads what arrived, runs what it queued and
\* its timers; the group layer ends its exchange.
\* Each clause is the weak fairness of one action with its guard spelled out.
Fairness ==
  /\ []<>(\A p \in ring : todo[p] = <<>> \/ Len(d[p].down) >= WaterMark)
       \/ []<><<\E p \in ring : Prot_new_message(p)>>_vars
  /\ \A p \in Proc : []<>(Seqs_to(p, net) = {}) \/ []<><<Lowest_arrives(p)>>_vars
  /\ []<>(net.toks = {}) \/ []<><<\E p \in ring : Recv_token(p)>>_vars
  /\ []<>(net.hurry = {}) \/ []<><<Recv_hurry>>_vars
  /\ []<>(~ TokenMissed) \/ []<><<Prot_token_hurry_event>>_vars
  /\ []<>(\A p \in ring : d[p].thr = UNRELIABLE_TYPE)
       \/ []<><<\E p \in ring : Lower_threshold(p)>>_vars
  /\ []<>(\A p \in ring : d[p].evq = {})
       \/ []<><<\E p \in ring : Delivery_event(p)>>_vars

FairSpec == Spec /\ Fairness

-----------------------------------------------------------------------------
(* Properties                                                              *)

Messages   == UNION {Range(Load[p]) : p \in Proc}
MsgOf == [id \in {m.id : m \in Messages} |-> CHOOSE m \in Messages : m.id = id]
Ordered(l) == SelectSeq(l, LAMBDA e : MsgOf[e.id].type # RELIABLE_TYPE)
Ids(l)     == [k \in 1 .. Len(l) |-> l[k].id]

\* The sequence number of the packet that completes a message.
SeqOfMsg(id) == CHOOSE k \in 1 .. Len(sent) : id \in Range(Messages_of(sent[k]))

\* The state of the daemons is what their declarations say, and the token's
\* fields keep their width.
TypeOK ==
  /\ \A p \in ring :
       /\ d[p].disc \in 0 .. d[p].aru /\ d[p].aru <= d[p].myaru
       /\ d[p].disc <= d[p].dlvd /\ d[p].dlvd <= d[p].myaru /\ d[p].myaru <= d[p].high
       /\ d[p].tok.arq \in 0 .. ArqMod - 1 /\ d[p].tok.ret \in 0 .. RetransMod - 1
       /\ d[p].cnt \in 0 .. 2
  /\ faults \in Nat /\ early \in Nat

\* No check of the code that ends the daemon fires: no retransmission is asked
\* of a packet below Aru, no new packet finds its slot taken, no packet to be
\* delivered or discarded is missing, no fragment is out of sequence and Aru
\* never goes down, whatever the network loses, repeats or delays; and the
\* counters and watermarks keep their order (TypeOK).
NeverFatal == TypeOK /\ \A p \in ring : ~ d[p].fatal

\* Two daemons never hold different packets under one sequence number, and a
\* slot of Packets holds the packet it is looked up for: flow control keeps
\* the numbers in use within the array.
SlotsAreExact ==
  \A p \in ring : \A k \in 0 .. Slots - 1 :
    d[p].pk[k].ex # 0 =>
      /\ d[p].pk[k].pkt = sent[d[p].pk[k].pkt.seq]
      /\ d[p].pk[k].pkt.seq \in (d[p].disc + 1) .. (d[p].disc + Slots)

\* A safe message is delivered at one daemon only when every daemon of the
\* membership has received it.
SafeIsStable ==
  \A p \in ring : \A k \in 1 .. Len(d[p].log) :
    LET id == d[p].log[k].id
    IN  MsgOf[id].type = SAFE_TYPE => \A q \in ring : d[q].myaru >= SeqOfMsg(id)

\* Every message is delivered once, and in one piece: the fragments of a
\* delivered message are exactly its own, in order.
WholeAndOnce ==
  \A p \in ring : \A k \in 1 .. Len(d[p].log) :
    LET e == d[p].log[k]
        n == Len(MsgOf[e.id].lens)
    IN  /\ e.frags = [i \in 1 .. n |-> [id |-> e.id, idx |-> i]]
        /\ \A j \in 1 .. Len(d[p].log) : d[p].log[j].id = e.id => j = k

\* What is kept is exact, and what is delivered is right, whole and not too early:
\* flow control, the retransmissions, the watermark of the token and the assembly of
\* fragments lead to no packet that takes another's slot and to no delivery that is
\* repeated, mixed, or safe in name only.
DeliveriesSound == SlotsAreExact /\ SafeIsStable /\ WholeAndOnce

\* The ring implements the ordered delivery the sessions are promised.
Abstract == INSTANCE OrderedDelivery WITH
  Proc  <- Proc,
  Given <- [p \in Proc |-> Ids(Ordered(Load[p]))],
  order <- order,
  got   <- [p \in Proc |-> IF p \in ring THEN Ids(Ordered(d[p].log)) ELSE <<>>]
ImplementsOrderedDelivery == Abstract!Spec

\* Every message a session submits is delivered by every daemon, whatever was
\* lost on the way.
EverythingArrives ==
  <>(\A p \in ring :
       /\ todo[p] = <<>> /\ d[p].down = <<>>
       /\ \A q \in ring : \A k \in 1 .. Len(sent) : \A m \in Range(Messages_of(sent[k])) :
            \E j \in 1 .. Len(d[q].log) : d[q].log[j].id = m)
=============================================================================
