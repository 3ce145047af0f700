----------------------------- MODULE Membership -----------------------------
(***************************************************************************)
(* The membership protocol of a Spread daemon (daemon/membership.c).  Like *)
(* Protocol, the module has no variables: a handler of the source is an    *)
(* operator from the daemon's record to the record it leaves, and what it  *)
(* sends is put into the field out.  The further fields of st are          *)
(*   conf           Cn, the configured daemons                             *)
(*   rmemb          Reg_membership, the last one that was installed        *)
(*   ltime, form1   Last_time_used, Form1_memb_id                          *)
(*   ftime          F_trans_memb_time                                      *)
(*   fmem           F_members, in the order of arrival                     *)
(*   freps, prep    F_reps, Potential_reps                                 *)
(*   segrep         My_seg_rep                                             *)
(*   foreign        Foreign_found                                          *)
(*   out            the messages sent                                      *)
(* A representative is [proc, type] with type "seg", "ring" or "pot"; its  *)
(* seg_index is Seg[proc].  The clock stands still (Clock), the case in    *)
(* which only Last_time_used keeps the identifiers apart.                  *)
(***************************************************************************)
EXTENDS Protocol

CONSTANTS
  MaxReps,         \* MAX_REPS: the room for representatives
  MaxMembers,      \* MAX_PROCS_RING: the room for members
  MaxFormReps      \* MAX_FORM_REPS: the rings a form token has room for

Segments(conf) == {Seg[q] : q \in conf}
NoMembId       == [proc |-> None, time |-> 0]
Members(conf)  == SetToSortSeq(conf, <)              \* in the order of the ring
Conf_seg_leader(conf, s) == Min({q \in conf : Seg[q] = s})
Numbered(S)    == SetToSortSeq(S, <)

Send(st, msgs) == [st EXCEPT !.out = @ \cup msgs]

\* Net_scast to my own segment; my own packets are dropped on reception
Net_scast(st, m) ==
  Send(st, {[m EXCEPT !.to = q] : q \in {r \in st.conf : Seg[r] = Seg[st.me]} \ {st.me}})
Net_ucast(st, q, m) == IF q = st.me THEN st ELSE Send(st, {[m EXCEPT !.to = q]})

Msg(kind, p) == [kind |-> kind, from |-> p, to |-> None]

-----------------------------------------------------------------------------
(* Members and representatives                                             *)

Insert_member(m, q) ==
  IF q \in ToSet(m) \/ Len(m) = MaxMembers THEN m ELSE Append(m, q)

Smallest_member(m) == Min(ToSet(m))
Sort_members(m)    == SortSeq(m, <)

\* mutant: a second representative of a segment is not kept
Insert_rep_one(r, rep) ==
  LET same == {i \in DOMAIN r : Seg[r[i].proc] = Seg[rep.proc]}
  IN  IF same # {} THEN IF rep.type = "pot" THEN r ELSE [r EXCEPT ![Min(same)] = rep]
      ELSE IF Len(r) = MaxReps THEN r ELSE Append(r, rep)

\* A potential one only if nobody stands for its segment; a real one takes the
\* place of a potential one or of its own former type.
Insert_rep(r, rep) ==
  LET same == {i \in DOMAIN r : Seg[r[i].proc] = Seg[rep.proc]}
      over == {i \in same : r[i].type = "pot" \/ r[i].proc = rep.proc}
  IN  IF rep.type = "pot" /\ same # {} THEN r
      ELSE IF rep.type # "pot" /\ over # {} THEN [r EXCEPT ![Min(over)] = rep]
      ELSE IF Len(r) = MaxReps THEN r ELSE Append(r, rep)

Insert_reps(r, reps) == FoldLeft(Insert_rep, r, reps)

\* Segment representatives go before ring leaders: the earliest one of the
\* smallest segment, or the ring leader that is first in the configuration.
Smallest_rep_index(r) ==
  LET segs == {i \in DOMAIN r : r[i].type = "seg"}
      low  == {i \in segs : \A j \in segs : Seg[r[i].proc] <= Seg[r[j].proc]}
  IN  IF segs # {} THEN Min(low)
      ELSE CHOOSE i \in DOMAIN r :
             \A j \in DOMAIN r : r[i].proc < r[j].proc \/ (r[i].proc = r[j].proc /\ i <= j)
Smallest_rep(r) == r[Smallest_rep_index(r)].proc

\* selection sort: the last one takes the place of the one chosen
Sort_reps(r) ==
  LET Step(a, k) ==
        LET i == Smallest_rep_index(a.rest)
            n == Len(a.rest)
        IN  [done |-> Append(a.done, a.rest[i]),
             rest |-> SubSeq([a.rest EXCEPT ![i] = a.rest[n]], 1, n - 1)]
  IN  FoldLeft(Step, [done |-> <<>>, rest |-> r], Interval(1, Len(r))).done

\* somebody to ask in every other segment: the first one of the membership
\* there, or the first one configured
Potential_of(st, memb, type) ==
  LET segs == Numbered(Segments(st.conf) \ {Seg[st.me]})
      Rep(s) == [type |-> type,
                 proc |-> IF \E q \in memb : Seg[q] = s THEN Conf_seg_leader(memb, s)
                          ELSE Conf_seg_leader(st.conf, s)]
  IN  [k \in 1 .. Len(segs) |-> Rep(segs[k])]

\* the other segments' representatives on a form token, in case it fails
Potential_after_form(st, reps) ==
  LET other == SelectSeq(reps, LAMBDA r : Seg[r.proc] # Seg[st.me])
  IN  Insert_reps(<<>>, [k \in 1 .. Len(other) |-> [other[k] EXCEPT !.type = "pot"]])

-----------------------------------------------------------------------------
(* Changes of state                                                        *)

Shift_to_op(st) == [st EXCEPT !.state = "OP"]

Shift_to_seg(st) ==
  E_queue(E_queue_now([st EXCEPT !.state = "SEG", !.fmem = <<st.me>>], "alive"), "gather")

Shift_to_gather(st) ==
  LET type == IF st.alive THEN "ring" ELSE "seg"
      s1 == [st EXCEPT !.state = "GATHER", !.freps = <<[proc |-> st.me, type |-> type]>>]
  IN  E_queue(E_queue_now(E_dequeue(s1, {"alive", "lookup"}), "join"), "form")

Shift_to_represented(st) ==
  E_queue(E_dequeue([st EXCEPT !.state = "REPRESENTED"], {"alive", "gather"}), "seg")

Gather_or_represented(st) ==
  LET s1 == [st EXCEPT !.segrep = None]
  IN  IF Smallest_member(st.fmem) = st.me THEN Shift_to_gather(s1)
      ELSE Shift_to_represented(s1)

\* mutant: the dummy packets stay
Backoff_keep(st) == [st EXCEPT !.aru = st.disc, !.myaru = st.disc]

\* Dummy packets become holes again.
Backoff_membership(st) ==
  LET pk   == [k \in DOMAIN st.pk |-> IF st.pk[k].ex = 3 THEN NoPacket ELSE st.pk[k]]
      gaps == {i \in (st.disc + 1) .. st.high : pk[Slot(i)].ex = 0}
  IN  [st EXCEPT !.pk = pk, !.aru = st.disc,
                 !.myaru = IF gaps = {} THEN Max({st.disc, st.high}) ELSE Min(gaps) - 1]

\* Why the token is lost decides whom to ask; then everything starts again
\* with me alone.  In GATHER temp_rep keeps the type of the last
\* representative gathered (left).
Memb_token_loss(st) ==
  LET left == IF Len(st.freps) > 1 THEN Last(st.freps).type ELSE "pot"
      s1 == CASE st.state = "OP" -> 
                   [st EXCEPT !.prep = Insert_reps(<<>>, Potential_of(st, st.memb, "pot"))]
              [] st.state = "GATHER" ->
                   [Fatal(st, ~ st.alive) EXCEPT
                      !.prep = Insert_reps(<<>>, Tail(st.freps) \o Potential_of(st, st.memb, left))]
              [] st.state = "FORM" -> st
              [] st.state = "EVS" ->
                   [Backoff_membership(st) EXCEPT !.prep = Insert_reps(<<>>, Potential_of(st, st.fmemb, "pot"))]
              [] OTHER -> Fatal(st, TRUE)
      s2 == Prot_set_delivery_threshold([s1 EXCEPT !.alive = FALSE, !.just = FALSE],
                                        BLOCK_REGULAR_DELIVERY)
      s3 == [E_dequeue(s2, {"loss", "join", "form", "hurry", "lookup"}) EXCEPT
               !.tok = [@ EXCEPT !.arq = 0, !.ret = 0, !.seq = 0, !.aru = 0],
               !.memb = {st.me}]
  IN  Shift_to_seg(s3)

-----------------------------------------------------------------------------
(* Alive, join, refer and foreign messages                                 *)

Scast_alive(st) == Net_scast(st, Msg("alive", st.me))

Join_msg(p, reps) == [kind |-> "join", from |-> p, to |-> None, reps |-> reps]

Refer_to(st, q, rep) ==
  Net_ucast(st, q, [kind |-> "refer", from |-> st.me, to |-> None, rep |-> rep])

Send_join(st) ==
  LET m  == Join_msg(st.me, st.freps)
      s1 == IF st.alive THEN st ELSE Net_scast(st, m)
      s2 == FoldLeft(LAMBDA s, r : Net_ucast(s, r.proc, m), s1, st.prep)
  IN  E_queue(s2, "join")

Memb_lookup_new_members(st) ==
  LET reps == <<[proc |-> st.me, type |-> "ring"]>>
      s1   == [st EXCEPT !.prep = <<>>, !.freps = reps, !.fmem = <<>>]
      away == Members(st.conf \ st.rmemb)
  IN  IF st.state # "OP" THEN st
      ELSE IF Cardinality(Segments(st.conf)) = 1
      THEN Shift_to_gather(Net_scast(s1, Join_msg(st.me, reps)))
      ELSE IF away = <<>> THEN s1
      ELSE Shift_to_gather(
             FoldLeft(LAMBDA s, q : Net_ucast(s, q, Join_msg(st.me, reps)), s1, away))

\* Someone of my ring has given it up: so do I, and I know who it was.
Lose_with(st, q) ==
  LET s1 == Memb_token_loss(st) IN [s1 EXCEPT !.fmem = Insert_member(@, q)]

Memb_handle_alive(st, m) ==
  LET meet == [st EXCEPT !.fmem = Insert_member(@, m.from)]
  IN  CASE st.state = "SEG"         -> meet
        [] st.state = "REPRESENTED" -> E_queue(st, "seg")
        [] st.state = "GATHER" /\ ~ st.alive -> meet
        [] st.state \in {"OP", "GATHER"} /\ m.from \in st.memb -> Lose_with(st, m.from)
        [] st.state = "EVS" /\ m.from \in st.fmemb -> Lose_with(st, m.from)
        [] OTHER -> st

\* a representative of my segment
Represents_me(st, m) == Seg[st.me] = Seg[m.from] /\ m.reps[1].type = "seg"

\* In OP: a ring leader starts to gather, the others refer the sender to him,
\* and a member of my ring tells that the token is lost.
Join_in_op(st, m) ==
  LET lead == Conf_leader(st.memb)
  IN  IF m.from \in st.memb
      THEN IF Cardinality(Segments(st.conf)) > 1 THEN Memb_token_loss(st) ELSE st
      ELSE IF lead = st.me
      THEN Shift_to_gather([st EXCEPT !.prep = <<m.reps[1]>>, !.fmem = <<>>])
      ELSE IF \/ Seg[m.reps[1].proc] # Seg[st.me]
              \/ Conf_seg_leader(st.memb, Seg[st.me]) = st.me
      THEN Refer_to(st, m.from, [proc |-> lead, type |-> "ring"])
      ELSE st

Join_in_gather(st, m) ==
  LET s1 == [st EXCEPT !.freps = Insert_rep(@, m.reps[1]), !.prep = Insert_reps(@, m.reps)]
  IN  IF Smallest_rep(s1.freps) = m.reps[1].proc THEN E_queue(s1, "form") ELSE s1

Memb_handle_join(st, m) ==
  CASE st.state = "OP"     -> Join_in_op(st, m)
    [] st.state = "SEG"    -> IF Represents_me(st, m)
                              THEN Scast_alive(Shift_to_represented([st EXCEPT !.segrep = m.from]))
                              ELSE st
    [] st.state = "REPRESENTED" ->
         IF Represents_me(st, m)
         THEN Scast_alive(E_queue([st EXCEPT !.segrep = m.from], "seg"))
         ELSE IF st.segrep # None
         THEN Refer_to(st, m.from, [proc |-> st.segrep, type |-> "seg"]) ELSE st
    [] st.state = "GATHER" -> Join_in_gather(st, m)
    [] st.state = "EVS" /\ m.from \in st.fmemb -> Lose_with(st, m.from)
    [] OTHER -> st

Memb_handle_refer(st, m) ==
  IF st.state = "GATHER" THEN [st EXCEPT !.prep = Insert_rep(@, m.rep)] ELSE st

\* A packet of another membership: the leader looks for it, and the leader of
\* a segment forwards one to him.
Memb_handle_foreign(st, m) ==
  LET lead == Conf_leader(st.memb)
  IN  IF st.state # "OP" THEN st
      ELSE IF lead = st.me THEN Memb_lookup_new_members(st)
      ELSE IF Conf_seg_leader(st.memb, Seg[st.me]) = st.me /\ ~ st.foreign
      THEN Net_ucast([st EXCEPT !.foreign = TRUE], lead, [m EXCEPT !.from = st.me])
      ELSE st

-----------------------------------------------------------------------------
(* Form tokens                                                             *)

Clock == 1                                  \* E_get_time().sec

\* mutant: identifiers are taken from the clock alone
New_time_clock(st) == Clock

New_time(st) == Max({Clock, st.ltime + 1})

\* What I know of my old ring.
My_ring(st, from) ==
  [mid |-> st.mid, tt |-> 0, aru |-> st.aru, high |-> st.high,
   holes  |-> {i \in from .. st.high : st.pk[Slot(i)].ex = 0},
   trans  |-> {st.me}, commit |-> {st.me} \cup st.commit.all]

\* mutant: what the others miss and I have stays a hole
Merge_ring_all(st, r) ==
  [r EXCEPT !.aru   = Max({@, st.aru}), !.high = Max({@, st.high}),
            !.holes = @ \cup {i \in (r.high + 1) .. st.high : st.pk[Slot(i)].ex = 0},
            !.trans = @ \cup {st.me}, !.commit = @ \cup {st.me} \cup st.commit.all]

\* The same with what the ones before me wrote: only what none of us has is a
\* hole.
Merge_ring(st, r) ==
  [r EXCEPT !.tt    = 0,
            !.aru   = Max({@, st.aru}), !.high = Max({@, st.high}),
            !.holes = {i \in @ : st.pk[Slot(i)].ex = 0}
                      \cup {i \in (r.high + 1) .. st.high : st.pk[Slot(i)].ex = 0},
            !.trans = @ \cup {st.me}, !.commit = @ \cup {st.me} \cup st.commit.all]

\* the token goes on: to the next pending member, to the next representative,
\* or, all having filled it, to the first member as form2
Form_next(st, f) ==
  IF f.n < Len(f.members)
  THEN {[f EXCEPT !.to = f.members[f.n + 1], !.from = st.me]}
  ELSE IF f.ri <= Len(f.reps)
  THEN {[f EXCEPT !.to = f.reps[f.ri].proc, !.from = st.me]}
  ELSE LET all == Sort_members(f.members)
       IN  {[kind |-> "form2", from |-> st.me, to |-> all[1], id |-> f.id, seq |-> f.seq,
             members |-> all, n |-> 0, mid |-> NoMembId, rings |-> f.rings]}

Shift_to_form(st) ==
  LET s1 == E_queue(E_dequeue(st, {"join", "hurry"}), "loss")
  IN  [Prot_set_delivery_threshold([s1 EXCEPT !.alive = FALSE], BLOCK_REGULAR_DELIVERY)
         EXCEPT !.state = "FORM"]

\* my members without the representatives among them
Without_reps(st, members, reps) ==
  SelectSeq(members, LAMBDA q : q = st.me \/ \A r \in ToSet(reps) : r.proc # q)

Create_form1(st) ==
  LET id   == [proc |-> st.me, time |-> New_time(st)]
      mine == IF st.freps[1].type = "ring" THEN Members(st.memb) ELSE st.fmem
      reps == Sort_reps(st.freps)
      f == [kind |-> "form1", from |-> st.me, to |-> None, id |-> id, seq |-> st.high + EvsSeqGap,
            members |-> Without_reps(st, mine, st.freps), n |-> 1, reps |-> reps, ri |-> 2,
            rings |-> {My_ring(st, st.myaru + 1)}]
      s1 == [st EXCEPT !.ltime = id.time, !.form1 = id, !.fmem = <<Head(f.members)>>,
                       !.freps = reps, !.prep = Potential_after_form(st, reps)]
  IN  Shift_to_form(Send(s1, Form_next(st, f)))

\* Is the token meant for me, in the state I am in?
Form1_is_mine(st, f) ==
  IF st.state \in {"OP", "REPRESENTED"}
  THEN f.n < Len(f.members) /\ f.members[f.n + 1] = st.me
  ELSE /\ f.n = Len(f.members) /\ f.ri <= Len(f.reps)
       /\ f.reps[f.ri].proc = st.me
       /\ f.reps[f.ri].type = IF st.alive THEN "ring" ELSE "seg"

\* My place on the token: a representative brings its members along, in the
\* case of a segment those that are not there in another role.
Fill_members(st, f) ==
  LET fresh == SelectSeq(Without_reps(st, st.fmem, f.reps \o st.freps),
                         LAMBDA q : q \notin ToSet(f.members))
      mine  == IF st.alive THEN Members(st.memb) ELSE fresh
  IN  IF st.state = "GATHER"
      THEN [f EXCEPT !.members = @ \o mine, !.n = @ + 1, !.ri = @ + 1]
      ELSE [f EXCEPT !.n = @ + 1]

\* My ring on the token; when there is no room for it I leave the attempt.
Fill_rings(st, f) ==
  LET known == {r \in f.rings : r.mid = st.mid}
      other == f.rings \ known
      me    == CHOOSE k \in DOMAIN f.members : f.members[k] = st.me
  IN  IF known # {}
      THEN [f EXCEPT !.rings = other \cup {Merge_ring(st, CHOOSE r \in known : TRUE)}]
      ELSE IF Cardinality(f.rings) + 1 > MaxFormReps
      THEN [f EXCEPT !.members = RemoveAt(@, me), !.n = @ - 1]
      ELSE [f EXCEPT !.rings = other \cup {My_ring(st, st.disc + 1)}]

Fill_form1(st, m) ==
  IF ~ Form1_is_mine(st, m) THEN st
  ELSE LET f1 == Fill_members(st, [m EXCEPT !.seq = Max({@, st.high + EvsSeqGap})])
           f2 == Fill_rings(st, f1)
           s1 == [Fatal(st, \E r \in m.rings : r.mid = st.mid /\ st.me \in r.trans)
                    EXCEPT !.form1 = m.id, !.prep = Potential_after_form(st, m.reps)]
       IN  Shift_to_form(E_dequeue(Send(s1, Form_next(st, f2)), {"form", "seg"}))

\* A leader in OP is never on somebody else's token.
Memb_handle_form1(st, m) ==
  IF \/ st.state = "OP" /\ Conf_leader(st.memb) # st.me
     \/ st.state \in {"REPRESENTED", "GATHER"}
  THEN Fill_form1(st, m) ELSE st

-----------------------------------------------------------------------------
(* The second round: everyone learns the membership and what of the old    *)
(* one is lost                                                             *)

\* a packet that came after form1 is forgotten; its sender must not be here
Forget(st, i) ==
  LET e == st.pk[Slot(i)]
  IN  IF e.ex = 0 THEN st
      ELSE [Fatal(st, e.ex # 1 \/ e.pkt.seq # i \/ e.pkt.proc \in st.fmemb)
              EXCEPT !.pk[Slot(i)] = NoPacket]

\* What every one of us lacks is replaced by a dummy.
Mark_holes(st, holes) ==
  FoldLeft(LAMBDA s, i : [Forget(s, i) EXCEPT !.pk[Slot(i)] = [ex |-> 3]], st, Numbered(holes))

Recompute_my_aru(st) ==
  LET gaps == {i \in (st.disc + 1) .. st.high : st.pk[Slot(i)].ex \in {0, 3}}
      aru  == IF gaps = {} THEN Max({st.disc, st.high}) ELSE Min(gaps) - 1
      aru2 == IF gaps = {} THEN st.myaru ELSE Min({st.myaru, Min(gaps) - 1})
  IN  [Fatal(st, aru # aru2) EXCEPT !.myaru = aru]

Old_ring(st, r) ==
  LET s1 == FoldLeft(Forget, st, Interval(r.high + 1, st.high))
      s2 == [s1 EXCEPT !.myaru = Min({@, r.high}), !.high = r.high, !.aru = r.aru]
  IN  Recompute_my_aru(Mark_holes(Discard_packets(s2), r.holes))

\* A token of a ring that fills the array of members is malformed, and so is one
\* with more holes than the sequence numbers can be apart.
Rings_well_formed(rings) ==
  \A r \in rings : /\ Cardinality(r.trans) \in 1 .. Cardinality(r.commit)
                   /\ Cardinality(r.commit) <= MaxMembers
                   /\ Cardinality(r.holes) <= MaxSeqGap
Form2_is_mine(st, m) ==
  /\ m.id = st.form1
  /\ m.n < Len(m.members) /\ Len(m.members) < MaxMembers
  /\ m.members[m.n + 1] = st.me
  /\ Rings_well_formed(m.rings)
  /\ \E r \in m.rings : r.mid = st.mid

Read_form2(st, m) ==
  LET first == m.n = 0
      ring  == CHOOSE r \in m.rings : r.mid = st.mid
      t0    == New_time(st)
      fmid  == IF first THEN [proc |-> st.me, time |-> t0 + 1] ELSE m.mid
      \* the transitional id of my ring, if I am the first of it
      tt    == IF ring.tt # 0 THEN ring.tt ELSE t0
      ltime == IF first THEN t0 + 1 ELSE IF ring.tt = 0 THEN t0 ELSE st.ltime
      s1 == Old_ring([st EXCEPT !.lastseq = m.seq, !.ltime = ltime, !.fmid = fmid,
                                !.fmemb = ToSet(m.members)], ring)
      s2 == [s1 EXCEPT !.fcommit = [all |-> ring.commit, trans |-> ring.trans], !.ftime = tt,
                       !.alive = TRUE, !.aru = 0, !.state = "EVS", !.nret = 0, !.nsent = 0,
                       !.tok = [@ EXCEPT !.arq = 0, !.ret = 0, !.seq = 0, !.aru = 0]]
      on == [m EXCEPT !.from = st.me, !.n = @ + 1, !.mid = fmid,
                      !.rings = (@ \ {ring}) \cup {[ring EXCEPT !.tt = tt]}]
      tok == [arq |-> 0, ret |-> 0, seq |-> 0, aru |-> INT32_MAX, last |-> None, fc |-> 0,
              rtr |-> <<>>, mid |-> fmid, from |-> st.me]
      next == Conf_next(s2.fmemb, st.me)
  IN  IF ~ Form2_is_mine(st, m) THEN st
      ELSE E_queue(Send(s2, IF Conf_last(s2.fmemb) = st.me
                            THEN {[kind |-> "tok", from |-> st.me, to |-> next, tok |-> tok]}
                            ELSE {[on EXCEPT !.to = next]}), "loss")

Memb_handle_form2(st, m) == IF st.state = "FORM" THEN Read_form2(st, m) ELSE st

-----------------------------------------------------------------------------
(* Starting, dispatching and timers                                        *)

Memb_init(st) == Memb_token_loss(Shift_to_op(st))

Memb_handle_message(st, m) ==
  CASE m.kind = "alive" -> Memb_handle_alive(st, m)
    [] m.kind = "join"  -> Memb_handle_join(st, m)
    [] m.kind = "refer" -> Memb_handle_refer(st, m)
    [] m.kind = "pkt"   -> Memb_handle_foreign(st, m)
    [] m.kind = "form1" -> Memb_handle_form1(st, m)
    [] m.kind = "form2" -> Memb_handle_form2(st, m)

\* Form_or_fail: the smallest representative forms; a ring alone, or one that
\* is not the smallest, goes back; a segment tries again.
Form_or_fail(st) ==
  LET back == Shift_to_op(E_queue(E_dequeue(st, {"join"}), "lookup"))
      small == Smallest_rep(st.freps) = st.me
  IN  IF small /\ ~ (st.alive /\ Len(st.freps) = 1) THEN Create_form1(st)
      ELSE IF st.alive THEN back
      ELSE Shift_to_gather([st EXCEPT !.fmem = <<st.me>>,
                                      !.prep = Insert_reps(<<>>, Tail(st.freps))])
=============================================================================
