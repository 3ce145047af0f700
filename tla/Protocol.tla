------------------------------ MODULE Protocol ------------------------------
(***************************************************************************)
(* The ring protocol of a Spread daemon (daemon/protocol.c with the window *)
(* of daemon/flow_control.c and the ring order of                          *)
(* daemon/configuration.c).  The static variables of the daemon are the    *)
(* fields of one record st, and every function of the source is an         *)
(* operator from such a record to the record it leaves, so a handler of    *)
(* the source reads here as the same calls in the same order.  The module  *)
(* has no variables: RingProtocol runs it inside one stable membership and *)
(* Daemons across changes of the membership.                               *)
(*                                                                         *)
(* Daemons are numbered in the order of the configuration file, which is   *)
(* the order of the ring.  The fields of st are                            *)
(*   me, state, alive, just   the daemon, Memb_state(), Memb_token_alive(),*)
(*                            Memb_Just_Installed                          *)
(*   accel                    Conf_get_accelerated_ring_flag               *)
(*   memb, mid, fmemb, fmid   Membership, Membership_id and their Future_  *)
(*   commit, fcommit          Commit_set, Future_commit_set: all, trans    *)
(*   high, myaru, aru, disc, dlvd, lastseq                                 *)
(*                            Highest_seq, My_aru, Aru, Last_discarded,    *)
(*                            Last_delivered, Last_seq                     *)
(*   pk, up                   Packets (ex is .exist), Up_queue             *)
(*   down, cur                the down queue and its cur_element           *)
(*   tok, cnt, nret, nsent    Last_token, Token_counter, Last_num_retrans, *)
(*                            Last_num_sent                                *)
(*   thr, evq                 Prot_delivery_threshold, queued events       *)
(*   tm                       the timed events queued, and how long each   *)
(*                            has still to wait                            *)
(*   log                      what Sess_deliver_* were given, in order     *)
(*   fatal                    an Alarmp( SPLOG_FATAL ) was reached         *)
(*                                                                         *)
(* A message is [id, type, lens]: lens are the lengths of its fragments in *)
(* 32-bit words, the unit to which the source pads them.  A packet carries *)
(* one fragment (msg, idx) and then whole messages (rest).                 *)
(***************************************************************************)
EXTENDS Integers, Sequences, FiniteSets, SequencesExt, FiniteSetsExt

CONSTANTS
  Seg,             \* [daemon -> segment]
  Slots,           \* MAX_PACKETS_IN_STRUCT
  MaxSeqGap,       \* MAX_SEQ_GAP
  Window, PersonalWindow,      \* flow control, as configured
  PacketRoom,      \* words a packet body holds
  TokenRoom,       \* words the token body holds
  ArqMod,          \* values of the ARQ field of the token's type (4 bits)
  RetransMod,      \* values of its RETRANS field (4 bits)
  Timeout          \* [event -> how long it waits once it is queued]

RELIABLE_TYPE == 2
FIFO_TYPE     == 4
AGREED_TYPE   == 8
SAFE_TYPE     == 16
UNRELIABLE_TYPE        == 1
BLOCK_REGULAR_DELIVERY == 32

EvsSeqGap  == 3333
INT32_MAX  == 2147483647
None       == -1

Slot(seq)      == seq % Slots                      \* seq & PACKET_MASK
Interval(a, b) == [k \in 1 .. (b - a + 1) |-> a + k - 1]
NoPacket       == [ex |-> 0]

-----------------------------------------------------------------------------
(* The ring: the order of the daemons of a membership                      *)

Conf_leader(memb)      == Min(memb)
Conf_last(memb)        == Max(memb)
Conf_seg_last(memb, s) == Max({q \in memb : Seg[q] = s})

Conf_previous(memb, p) ==
  IF p = Conf_leader(memb) THEN Conf_last(memb) ELSE Max({q \in memb : q < p})

\* where Net_send_token sends: Net_set_membership keeps the next daemon
Conf_next(memb, p) ==
  IF p = Conf_last(memb) THEN Conf_leader(memb) ELSE Min({q \in memb : q > p})

Memb_active_ptr(st) == IF st.state = "EVS" THEN st.fmemb ELSE st.memb
Memb_active_id(st)  == IF st.state = "EVS" THEN st.fmid ELSE st.mid
Is_leader(st)       == Conf_leader(Memb_active_ptr(st)) = st.me

\* The events the daemon has queued, with the time they are still to wait.
E_queue(st, event)    == [st EXCEPT !.tm = (event :> Timeout[event]) @@ @]
E_queue_now(st, event) == [st EXCEPT !.tm = (event :> 0) @@ @]
E_dequeue(st, events) == [st EXCEPT !.tm = [e \in DOMAIN @ \ events |-> @[e]]]

Fatal(st, bad) == IF bad THEN [st EXCEPT !.fatal = TRUE] ELSE st

-----------------------------------------------------------------------------
(* Delivery                                                                *)

\* A packet goes up: its first fragment is chained to the message under
\* assembly of its sender (reliable messages of one packet have a queue of
\* their own), a message whose last fragment it is is delivered, and then the
\* whole messages packed behind it.  keep is what .exist becomes.
Deliver_packet(st, i, keep) ==
  LET pkt   == st.pk[Slot(i)].pkt
      alone == pkt.type = RELIABLE_TYPE /\ pkt.idx = -1
      chain == IF alone THEN <<>> ELSE st.up[pkt.proc]
      index == IF pkt.idx < 0 THEN -pkt.idx ELSE pkt.idx
      all   == Append(chain, [id |-> pkt.msg.id, idx |-> index])
      first == IF pkt.idx < 0
               THEN <<[kind |-> "msg", id |-> pkt.msg.id, frags |-> all]>> ELSE <<>>
      packed == [k \in 1 .. Len(pkt.rest) |->
                   [kind |-> "msg", id |-> pkt.rest[k].id,
                    frags |-> <<[id |-> pkt.rest[k].id, idx |-> 1]>>]]
      s1 == Fatal(st, Len(chain) + 1 # index)
  IN  [s1 EXCEPT !.up  = IF alone THEN @
                         ELSE [@ EXCEPT ![pkt.proc] = IF pkt.idx < 0 THEN <<>> ELSE all],
                 !.pk  = [@ EXCEPT ![Slot(i)] =
                            IF keep = 0 THEN NoPacket ELSE [@ EXCEPT !.ex = keep]],
                 !.log = @ \o first \o packed]

\* mutant: ordered packets are delivered as they come, too
Deliver_any_packets(st, start_seq, num_packets) ==
  IF st.state = "EVS" \/ st.thr > RELIABLE_TYPE THEN st
  ELSE LET Deliver(s, i) == IF s.pk[Slot(i)].ex = 1 /\ s.pk[Slot(i)].pkt.idx = -1
                            THEN Deliver_packet(s, i, 2) ELSE s
       IN  FoldLeft(Deliver, st, Interval(Max({start_seq, st.dlvd + 1}),
                                          start_seq + num_packets - 1))

Deliver_reliable_packets(st, start_seq, num_packets) ==
  IF st.state = "EVS" \/ st.thr > RELIABLE_TYPE THEN st
  ELSE LET Deliver(s, i) ==
             LET e == s.pk[Slot(i)]
             IN  IF e.ex = 1 /\ e.pkt.type = RELIABLE_TYPE /\ e.pkt.idx = -1
                 THEN Deliver_packet(s, i, 2) ELSE s
       IN  FoldLeft(Deliver, st, Interval(Max({start_seq, st.dlvd + 1}),
                                          start_seq + num_packets - 1))

\* Everything up to My_aru that is not safe, in sequence order, stopping at
\* the first safe packet.
Deliver_agreed_packets(st) ==
  IF st.myaru <= st.dlvd \/ st.state = "EVS" \/ st.thr > AGREED_TYPE THEN st
  ELSE LET Waits(i)  == st.pk[Slot(i)].ex = 1 /\ st.pk[Slot(i)].pkt.type = SAFE_TYPE
           safe      == {i \in (st.dlvd + 1) .. st.myaru : Waits(i)}
           end       == IF safe = {} THEN st.myaru ELSE Min(safe) - 1
           Deliver(s, i) ==
             LET e == s.pk[Slot(i)]
             IN  IF e.ex = 1 THEN [Deliver_packet(s, i, 2) EXCEPT !.dlvd = @ + 1]
                 ELSE IF e.ex = 2
                 THEN [Fatal(s, e.pkt.type >= AGREED_TYPE) EXCEPT !.dlvd = @ + 1]
                 ELSE Fatal(s, TRUE)
       IN  FoldLeft(Deliver, st, Interval(st.dlvd + 1, end))

\* delivered now, or already delivered and only disposed of
Deliver_or_dispose(st, i) ==
  IF st.pk[Slot(i)].ex = 1 THEN Deliver_packet(st, i, 0)
  ELSE [Fatal(st, st.pk[Slot(i)].ex = 0) EXCEPT !.pk[Slot(i)] = NoPacket]

\* Outside EVS: a packet every daemon has is delivered if it was not (it is
\* safe) and forgotten.
Discard_stable(st) ==
  [FoldLeft(Deliver_or_dispose, st, Interval(st.disc + 1, st.aru))
     EXCEPT !.disc = st.aru, !.dlvd = Max({@, st.aru})]

-----------------------------------------------------------------------------
(* EVS: the last messages of the old membership and the new one            *)

\* Messages before the transitional signal: up to the first hole or the first
\* safe message.
Deliver_before_trans(st) ==
  LET Stops(i) == \/ st.pk[Slot(i)].ex = 3
                  \/ st.pk[Slot(i)].ex \in {1, 2} /\ st.pk[Slot(i)].pkt.type = SAFE_TYPE
      stops    == {i \in (st.disc + 1) .. st.high : Stops(i)}
      end      == IF stops = {} THEN st.high ELSE Min(stops) - 1
  IN  [FoldLeft(Deliver_or_dispose, st, Interval(st.disc + 1, end)) EXCEPT !.disc = end]

\* mutant: nothing behind a hole is delivered
Deliver_after_trans_none(st) ==
  LET holes == {i \in (st.disc + 1) .. st.high : st.pk[Slot(i)].ex = 3}
      Deliver(s, i) == IF \A h \in holes : i < h THEN Deliver_or_dispose(s, i)
                       ELSE [s EXCEPT !.pk[Slot(i)] = NoPacket]
  IN  FoldLeft(Deliver, st, Interval(st.disc + 1, st.high))

\* The rest: behind a hole only what the daemons of the commit set sent.
Deliver_after_trans(st) ==
  LET holes == {i \in (st.disc + 1) .. st.high : st.pk[Slot(i)].ex = 3}
      Deliver(s, i) ==
        LET e == s.pk[Slot(i)]
        IN  IF e.ex = 0 THEN Fatal(s, TRUE)
            ELSE IF e.ex = 3 THEN [s EXCEPT !.pk[Slot(i)] = NoPacket]
            ELSE IF (\A h \in holes : i < h) \/ e.pkt.proc \in s.commit.all
            THEN Deliver_or_dispose(s, i)
            ELSE [s EXCEPT !.pk[Slot(i)] = NoPacket]
  IN  FoldLeft(Deliver, st, Interval(st.disc + 1, st.high))

\* The transitional membership: who comes along from my old membership.
Memb_transitional(st) ==
  [st EXCEPT !.log = Append(@, [kind |-> "trans", memb |-> st.commit.trans,
                                id |-> [proc |-> Conf_leader(st.commit.trans), time |-> st.ftime]])]

Memb_regular(st) ==
  LET s1 == [st EXCEPT !.memb = st.fmemb, !.mid = st.fmid, !.rmemb = st.fmemb,
                       !.just = TRUE, !.foreign = FALSE, !.state = "OP",
                       !.commit = [all |-> {st.me}, trans |-> {st.me}],
                       !.log = Append(@, [kind |-> "reg", id |-> st.fmid, memb |-> st.fmemb])]
  IN  IF Conf_leader(st.fmemb) = st.me THEN E_queue(s1, "lookup") ELSE s1

\* Half-assembled messages are dropped; a message of mine that was sent in
\* part starts again in the new membership.
Install(st) ==
  LET s1 == Fatal(st, \E k \in 0 .. Slots - 1 : st.pk[k].ex # 0)
      s2 == Memb_regular([s1 EXCEPT !.cur = 0, !.up = [q \in DOMAIN @ |-> <<>>]])
  IN  [s2 EXCEPT !.high = 0, !.myaru = 0, !.aru = 0, !.disc = 0, !.dlvd = 0, !.cnt = 0]

Discard_packets(st) ==
  IF st.aru <= st.disc THEN st
  ELSE IF st.state # "EVS" THEN Discard_stable(st)
  ELSE IF st.aru # st.lastseq THEN st
  ELSE Install(Deliver_after_trans(Memb_transitional(Deliver_before_trans(st))))

-----------------------------------------------------------------------------
(* Receiving a packet of my membership                                     *)

\* My_aru moves over what is there.
\* mutant: one too far
Raise_my_aru_over(st) ==
  LET gaps == {i \in (st.myaru + 1) .. st.high : st.pk[Slot(i)].ex = 0}
  IN  [st EXCEPT !.myaru = IF gaps = {} THEN Max({@, st.high}) ELSE Min(gaps)]

Raise_my_aru(st) ==
  LET gaps == {i \in (st.myaru + 1) .. st.high : st.pk[Slot(i)].ex = 0}
  IN  [st EXCEPT !.myaru = IF gaps = {} THEN Max({@, st.high}) ELSE Min(gaps) - 1]

Prot_handle_bcast(st, pkt) ==
  IF pkt.seq <= st.disc \/ st.pk[Slot(pkt.seq)].ex # 0 THEN st
  ELSE LET s1 == [st EXCEPT !.pk[Slot(pkt.seq)] = [ex |-> 1, pkt |-> pkt],
                            !.high = Max({@, pkt.seq})]
       IN  IF pkt.seq = st.myaru + 1 THEN Deliver_agreed_packets(Raise_my_aru(s1))
           ELSE Deliver_reliable_packets(s1, pkt.seq, 1)

-----------------------------------------------------------------------------
(* The token: retransmissions, new packets, flow control                   *)

\* who gets a retransmission: one daemon, one segment or everyone
Rtr_dest(st, req) ==
  IF req.proc # None THEN {req.proc}
  ELSE {q \in Memb_active_ptr(st) : req.seg # None => Seg[q] = req.seg} \ {st.me}

Answer_retrans(st, tok) ==
  LET mine    == SelectSeq(tok.rtr, LAMBDA r : r.mid = st.mid)
      asked   == {<<k, i>> \in (1 .. Len(mine)) \X (1 .. st.high) : i \in mine[k].seqs}
      have    == {a \in asked : st.pk[Slot(a[2])].ex # 0}
      missing == asked \ have
  IN  [ st    |-> Fatal(st, \E a \in asked : \/ a[2] < st.aru
                                             \/ st.pk[Slot(a[2])].ex = 3),
        pkts  |-> UNION {{[to |-> q, pkt |-> st.pk[Slot(a[2])].pkt] :
                            q \in Rtr_dest(st, mine[a[1]])} :
                           a \in {b \in have : st.pk[Slot(b[2])].ex # 3}},
        num   |-> Cardinality(have),
        proc  |-> IF missing = {} THEN st.me ELSE None,
        seg   |-> IF \E a \in missing : mine[a[1]].seg # Seg[st.me] THEN None
                  ELSE Seg[st.me],
        other |-> SelectSeq(tok.rtr, LAMBDA r : r.mid # st.mid) ]

FC_allowed(st, flow_control) ==
  IF st.state = "EVS" \/ st.high > st.aru + MaxSeqGap THEN 0
  ELSE Max({0, Min({Window + PersonalWindow - flow_control, Window, PersonalWindow})})

\* One more element of the down queue into the packet, when it fits and the
\* types go together.
Pack_type_ok(t1, t2) ==
  t1 = t2 \/ {t1, t2} \subseteq {FIFO_TYPE, AGREED_TYPE}

\* the fragment at the front leaves the down queue, with its message when it
\* was the last one
Take_fragment(st) ==
  IF st.cur + 1 < Len(Head(st.down).lens) THEN [st EXCEPT !.cur = @ + 1]
  ELSE [st EXCEPT !.cur = 0, !.down = Tail(@)]

Fragment_index(st) ==
  LET n == Len(Head(st.down).lens)
  IN  IF st.cur + 1 < n THEN st.cur + 1 ELSE -n

\* One packet: the next fragment, and whole messages behind it while they fit.
Make_packet(st) ==
  LET msg  == Head(st.down)
      type == msg.type
      fill[k \in Nat] ==
        IF k = 0 THEN [st |-> Take_fragment(st), len |-> msg.lens[st.cur + 1], rest |-> <<>>,
                       more |-> TRUE]
        ELSE LET f == fill[k - 1]
                 next == Head(f.st.down)
                 len  == next.lens[f.st.cur + 1]
             IN  IF f.more /\ f.st.down # <<>>
                 THEN IF len > PacketRoom - f.len - 1 \/ ~ Pack_type_ok(type, next.type)
                      THEN [f EXCEPT !.more = FALSE]
                      ELSE [f EXCEPT !.st = Take_fragment(@), !.len = @ + 1 + len,
                                     !.rest = Append(@, next)]
                 ELSE f
      full == fill[Len(st.down)]
      seq  == st.high + 1
      pkt  == [seq |-> seq, proc |-> st.me, mid |-> st.mid, type |-> type,
               msg |-> msg, idx |-> Fragment_index(st), rest |-> full.rest]
  IN  [ st  |-> [Fatal(full.st, st.pk[Slot(seq)].ex # 0)
                   EXCEPT !.high = seq, !.pk[Slot(seq)] = [ex |-> 1, pkt |-> pkt]],
        pkt |-> pkt ]

Send_new_packets(st, num_allowed) ==
  LET Step(a, k) == IF a.st.down = <<>> THEN a
                    ELSE LET m == Make_packet(a.st)
                         IN  [st |-> m.st, new |-> Append(a.new, m.pkt)]
  IN  FoldLeft(Step, [st |-> st, new |-> <<>>], Interval(1, num_allowed))

\* What I ask for.  On an accelerated ring only what was on the token I sent
\* before: younger packets may still be under way.
My_request(st, other, proc, seg) ==
  LET max_rtr == IF st.accel /\ st.state # "EVS" THEN st.tok.seq ELSE st.high
      used    == FoldLeft(LAMBDA n, r : n + 4 + Cardinality(r.seqs), 0, other)
      room    == TokenRoom - used - 4
      miss    == {i \in (st.myaru + 1) .. max_rtr : st.pk[Slot(i)].ex = 0}
      seqs    == {i \in miss : Cardinality({j \in miss : j < i}) < room}
  IN  IF st.myaru < max_rtr /\ room > 1
      THEN <<[mid |-> st.mid, proc |-> proc, seg |-> seg, seqs |-> seqs]>> ELSE <<>>

Is_token_hold(st) ==
  /\ \/ st.state = "OP"
     \/ st.state = "GATHER" /\ st.alive
  /\ st.tok.ret <= 1 /\ st.aru = st.high /\ st.cnt > 1

\* mutant: the token is not marked as sent again
Prot_token_repeat(st) ==
  [ st  |-> st,
    tok |-> [to |-> Conf_next(Memb_active_ptr(st), st.me), tok |-> [st.tok EXCEPT !.from = st.me]] ]

\* The token is sent again as it was last sent, without its requests.
Prot_token_hurry(st) ==
  LET tok == [st.tok EXCEPT !.rtr = <<>>,
                            !.ret = IF Is_leader(st) THEN (@ + 1) % RetransMod ELSE @]
  IN  [ st  |-> [st EXCEPT !.tok = tok],
        tok |-> [to |-> Conf_next(Memb_active_ptr(st), st.me),
                 tok |-> [tok EXCEPT !.from = st.me]] ]

Handle_hurry(st, q) ==
  Is_leader(st) /\ Is_token_hold(st) /\ q \in Memb_active_ptr(st)

-----------------------------------------------------------------------------
(* Prot_handle_token                                                       *)

\* a token for this ring, from the daemon that should have sent it
Token_is_mine(st, tok) ==
  /\ st.alive
  /\ tok.mid = Memb_active_id(st)
  /\ tok.from = Conf_previous(Memb_active_ptr(st), st.me)

Token_is_new(st, tok) ==
  IF Is_leader(st) THEN tok.arq = st.tok.arq ELSE tok.arq = (st.tok.arq + 1) % ArqMod

\* asked to send my token again: it was almost lost
Token_is_retrans(st, tok) ==
  ~ Is_leader(st) /\ tok.arq = st.tok.arq /\ tok.ret > st.tok.ret

\* The aru of the token: lowered to mine, or raised by who lowered it, or
\* raised by anyone when all had everything.
Token_aru(st, tok) ==
  IF \/ tok.aru > st.myaru
     \/ tok.last = st.me
     \/ tok.aru = tok.seq /\ st.state # "EVS"
  THEN [tok EXCEPT !.aru = st.myaru, !.last = st.me] ELSE tok

\* mutant: one visit is enough
Raise_aru_at_once(st, tok) == [Fatal(st, tok.aru < st.aru) EXCEPT !.aru = tok.aru]

\* Aru is what the token showed on both of its last two visits.
Raise_aru(st, tok) ==
  LET new == Min({tok.aru, st.tok.aru})
  IN  [Fatal(st, new < st.aru) EXCEPT !.aru = new]

\* In EVS a daemon that misses nothing any more says so with its aru and takes
\* the commit set it was given (Memb_commit).
Commit_if_done(st) ==
  IF st.state = "EVS" /\ st.myaru = st.high
  THEN [st EXCEPT !.myaru = st.lastseq, !.commit = st.fcommit] ELSE st

\* the token as it leaves
Stamp_token(st, tok) ==
  [tok EXCEPT !.seq = IF st.state # "EVS" THEN st.high ELSE @, !.from = st.me,
              !.arq = IF Is_leader(st) THEN (@ + 1) % ArqMod ELSE @,
              !.ret = IF Is_leader(st) THEN 0 ELSE @]

\* Token_counter is only ever compared with 1
Count_rounds(st, tok) ==
  [st EXCEPT !.cnt = IF st.high = st.aru THEN Min({@ + 1, 2}) ELSE 0, !.tok = tok]

\* Every new packet is broadcast, before the token or, accelerated, after it.
Prot_flush_bcast(st, new) ==
  {[to |-> q, pkt |-> new[k]] : q \in st.memb \ {st.me}, k \in DOMAIN new}

\* The packets asked of me are sent again, then what the window allows is sent.
Use_token(ans, tok) ==
  [ans |-> ans, sent |-> Send_new_packets(ans.st, FC_allowed(ans.st, tok.fc))]

\* What I have now, the packets I ask for, and whether recovery is done.
Sent_with_token(u) ==
  Raise_my_aru([u.sent.st EXCEPT !.nret = u.ans.num, !.nsent = Len(u.sent.new)])
Request_packets(st, ans) ==
  [st |-> Commit_if_done(st), rtr |-> ans.other \o My_request(st, ans.other, ans.proc, ans.seg)]

\* The token goes on, unless the leader holds it; what it showed lets packets be
\* discarded and delivered.
Deliver_after_visit(st, num) ==
  Deliver_reliable_packets(Deliver_agreed_packets(st), st.high - num + 1, num)
Release_token(st, u, tok) ==
  [ st   |-> Deliver_after_visit(Discard_packets(Count_rounds(Raise_aru(st, tok), tok)),
                                 Len(u.sent.new)),
    new  |-> u.sent.new,
    pkts |-> u.ans.pkts \cup Prot_flush_bcast(st, u.sent.new),
    toks |-> IF Is_leader(st) /\ Is_token_hold(st) THEN {}
             ELSE {[to |-> Conf_next(Memb_active_ptr(st), st.me), tok |-> tok]} ]
Pass_token(r, u, tok) ==
  Release_token(r.st, u,
    Stamp_token(r.st, Token_aru(r.st, [tok EXCEPT !.rtr = r.rtr, !.fc = @ + r.st.nret + r.st.nsent])))

\* A new token: everything the daemon does while it holds it.  Its count of
\* packets under way loses what I sent on my last visit and gains what I send now.
Hold_token(u, tok) == Pass_token(Request_packets(Sent_with_token(u), u.ans), u, tok)
Take_token(st, tok) ==
  LET s0 == [st EXCEPT !.just = FALSE, !.tok.aru = IF st.just THEN 0 ELSE @,
                       !.high = Max({@, tok.seq})]
  IN  Hold_token(Use_token(Answer_retrans(s0, tok), tok),
                 [tok EXCEPT !.fc = @ - st.nret - st.nsent])

-----------------------------------------------------------------------------
(* The delivery threshold                                                  *)

\* Lowering it queues the deliveries it lets through, raising it removes them.
Prot_set_delivery_threshold(st, new) ==
  [st EXCEPT !.thr = new,
     !.evq = IF new < st.thr
             THEN @ \cup (IF new <= RELIABLE_TYPE THEN {"reliable"} ELSE {})
                    \cup (IF new <= AGREED_TYPE THEN {"agreed"} ELSE {})
             ELSE IF new > st.thr
             THEN @ \ ((IF new >= FIFO_TYPE THEN {"reliable"} ELSE {})
                       \cup (IF new >= SAFE_TYPE THEN {"agreed"} ELSE {}))
             ELSE @]

Run_delivery_event(st, e) ==
  LET s1 == [st EXCEPT !.evq = @ \ {e}]
  IN  IF e = "reliable" THEN Deliver_reliable_packets(s1, 1, s1.high)
      ELSE Deliver_agreed_packets(s1)
=============================================================================
