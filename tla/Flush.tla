------------------------------- MODULE Flush --------------------------------
(***************************************************************************)
(* libspread/fl.c: the flush layer, which a client may use instead of      *)
(* sp.c.  It holds the membership messages of Spread back until every      *)
(* member has agreed (FL_flush), and so gives the members of a group views *)
(* in which each message is delivered where it was sent.                   *)
(*                                                                         *)
(* One group; a client is one connection, x below: fl_conn with its        *)
(* fl_group.  A handler maps a connection to a connection.  conn_lock      *)
(* makes each handler and each call of the application one step; it is     *)
(* free while a message is awaited from Spread, which changes nothing.     *)
(* The asserts of fl.c are compiled out (NDEBUG); here the place of a      *)
(* false one is recorded in x.bad, with the errors that abort the process. *)
(***************************************************************************)
EXTENDS Naturals, Sequences, FiniteSets, SequencesExt

CONSTANTS Clients, FLOK_AGE_LIMIT

None  == "none"
NoView == [gid |-> 0, type |-> None, delta |-> None, trans |-> TRUE, orig |-> {}, curr |-> {}]
NoGroup == [mstate |-> None, vstate |-> None, curr |-> 0, fl |-> NoView, recvs |-> 0,
            messq |-> <<>>, membq |-> <<>>, pmemb |-> <<>>]

\* create_fl_group, create_view, fill_view: a view with only the connection in it,
\* and the state in which a membership change is agreed to without asking the user
Create_fl_group(me) ==
    [NoGroup EXCEPT !.mstate = "JOINING", !.vstate = "AGREE",
                    !.fl = [NoView EXCEPT !.orig = {me}, !.curr = {me}]]

\* create_sp_memb_change: one of which no membership message has come yet
Create_sp_memb_change == [recvd |-> FALSE, age |-> 0, floks |-> {}, view |-> NoView]

Known(g, gid) == gid \in DOMAIN g.pmemb
\* pmemb_hash with an entry for gid, made if there is none
Lookup(g, gid) == IF Known(g, gid) THEN g
                  ELSE [g EXCEPT !.pmemb = (gid :> Create_sp_memb_change) @@ @]
Forget(g, gids) == [g EXCEPT !.pmemb = [i \in DOMAIN @ \ gids |-> @[i]]]

\* assert( ok ), or an error that aborts if ~ok
Assert_at(x, place, ok) == IF ok THEN x ELSE [x EXCEPT !.bad = @ \cup {place}]
Assert_that(x, ok) == Assert_at(x, "handler", ok)
Enough(s) == s.recvd /\ Cardinality(s.floks) = Cardinality(s.view.orig)

-----------------------------------------------------------------------------
(* What the user reads *)

\* deliver: into the parameters of the receive under way if they are free and
\* nothing waits before it, else queued
Deliver(x, m) ==
    IF x.um = <<>> /\ x.queue = <<>> THEN [x EXCEPT !.um = <<m>>]
    ELSE [x EXCEPT !.queue = Append(@, m)]

Deliver_trans_sig(x) == Deliver([x EXCEPT !.g.fl.trans = TRUE], [k |-> "trans"])
Deliver_flush_req(x) == Deliver(x, [k |-> "req"])
\* the receive returns an error at once
Return_error(x) == [x EXCEPT !.um = <<[k |-> "error"]>>]

Send(x, m) == [x EXCEPT !.out = Append(@, m @@ [from |-> x.me])]

\* mutant: the state is left as it is
FL_int_flush_stay(x) == Send(x, [k |-> "flok", gid |-> x.g.curr])

\* FL_int_flush of a group in state AUTHORIZE: agree to the current change
FL_int_flush(x) ==
    Send([x EXCEPT !.g.vstate = "AGREE"], [k |-> "flok", gid |-> x.g.curr])

-----------------------------------------------------------------------------
(* The handlers of what Spread delivers *)

\* the user is asked about the first change of the queue, unless he is being
\* asked already or has agreed to a change that this one replaces
Handle_next_memb_change(x) ==
    LET y == [x EXCEPT !.g.curr = Head(x.g.membq), !.g.recvs = 0]
    IN  CASE x.g.vstate \in {"STEADY", "VERIFY"} ->
                 Deliver_flush_req([y EXCEPT !.g.vstate = "AUTHORIZE"])
          [] x.g.vstate = "AUTHORIZE" -> y
          [] x.g.vstate = "AGREE" /\ x.g.mstate # "LEAVING" -> FL_int_flush(y)
          [] x.g.vstate = "AGREE" /\ x.g.mstate = "LEAVING" ->
                 Return_error([y EXCEPT !.g.vstate = "AUTHORIZE"])

\* the members that came along from the last view are told after a change that
\* stands for several; else the one who came or went
Install_new_view(x) ==
    LET v == x.g.pmemb[x.g.curr].view
    IN  Deliver(x, [k |-> "view", gid |-> v.gid, type |-> v.type, membs |-> v.orig,
                    vs |-> IF v.type = "network" THEN x.g.fl.curr ELSE {v.delta}])

Update_fl_view(x) ==
    LET g == [x.g EXCEPT !.fl = x.g.pmemb[x.g.curr].view, !.membq = Tail(@), !.curr = 0]
    IN  [x EXCEPT !.g = Forget(g, {x.g.curr})]

\* mutant: without the message that tells the members that the view is everywhere
Install_quietly(x) ==
    LET y == Update_fl_view([Install_new_view(x) EXCEPT
                 !.g.vstate = "VERIFY",
                 !.g.mstate = IF @ = "JOINING" THEN "JOINED" ELSE @])
        z == IF y.g.membq = <<>> THEN y ELSE Handle_next_memb_change(y)
        t == IF z.g.fl.curr # z.g.fl.orig THEN Deliver_trans_sig(z) ELSE z
    IN  [FoldLeft(Deliver, t, t.g.messq) EXCEPT !.g.messq = <<>>]

\* the last agreement has come: the new view, then the question about the next
\* change if there is one, then the messages of the new view that came early
Install(x) ==
    LET y == Update_fl_view([Install_new_view(x) EXCEPT
                 !.g.vstate = "VERIFY",
                 !.g.mstate = IF @ = "JOINING" THEN "JOINED" ELSE @])
        z == IF y.g.membq = <<>>
             THEN Send(y, [k |-> "frecv", gid |-> y.g.fl.gid])
             ELSE Handle_next_memb_change(y)
        t == IF z.g.fl.curr # z.g.fl.orig
             THEN Deliver_trans_sig(Assert_that(z, ~z.g.fl.trans)) ELSE z
    IN  [FoldLeft(Deliver, t, t.g.messq) EXCEPT !.g.messq = <<>>]

Handle_recv_flush_ok(x, m) ==
    LET y == [x EXCEPT !.g = [Lookup(@, m.gid) EXCEPT !.pmemb[m.gid].floks = @ \cup {m.from}]]
        all == Enough(y.g.pmemb[m.gid])
    IN  IF y.g.vstate = "AGREE" /\ m.gid = y.g.curr /\ all THEN Install(y)
        ELSE Assert_that(y, ~all /\ ((y.g.vstate \in {"STEADY", "VERIFY"}) <=> (y.g.curr = 0)))

Handle_recv_flush_recv(x, m) ==
    CASE x.g.vstate = "VERIFY" /\ m.gid = x.g.fl.gid ->
             LET n == x.g.recvs + 1
             IN  [x EXCEPT !.g.recvs = n, !.g.vstate =
                     IF n = Cardinality(x.g.fl.orig) THEN "STEADY" ELSE @]
      [] x.g.vstate = "AGREE" /\ m.gid = x.g.curr ->
             Assert_that([x EXCEPT !.g.recvs = @ + 1],
                         x.g.recvs + 1 < Cardinality(x.g.pmemb[x.g.curr].view.orig))
      [] OTHER -> x

\* what the user gets of a message; to all or to some, and whether he is leaving
Data(x, m) == [k |-> "data", from |-> m.from, id |-> m.id, sent |-> m.sent,
               all |-> m.recvrs = {}, leaving |-> x.g.mstate = "LEAVING"]

\* mutant: without the delay of the messages that belong to the next view
Handle_reg_mess_now(x, m) == IF m.from \in x.g.fl.curr THEN Deliver(x, Data(x, m)) ELSE x

\* a vulnerable message of the view that is being agreed on is put off until that
\* view; others are delivered if they come from a member of the view
Handle_recv_reg_mess(x, m) ==
    IF x.g.vstate = "AGREE" /\ m.vuln # 0 /\ m.vuln = x.g.curr
    THEN IF m.from \in x.g.pmemb[x.g.curr].view.curr
         THEN [x EXCEPT !.g.messq = Append(@, Data(x, m))]
         ELSE Assert_that(x, FALSE)
    ELSE Handle_reg_mess_now(x, m)

Determine_leavers(m) == IF m.type = "join" THEN {} ELSE {m.who}

\* entries that wait too long for their membership message are forgotten, one at
\* a time; the later ones of the hash table are not aged then
Age_and_invalidate_pmembs(g) ==
    LET unknown == SetToSortSeq({i \in DOMAIN g.pmemb : ~g.pmemb[i].recvd}, <)
        old == {i \in Range(unknown) : g.pmemb[i].age >= FLOK_AGE_LIMIT}
        first == CHOOSE i \in old : \A j \in old : i <= j
        aged == {i \in Range(unknown) : old = {} \/ i <= first}
    IN  Forget([g EXCEPT !.pmemb = [i \in DOMAIN @ |->
                    IF i \in aged THEN [@[i] EXCEPT !.age = @ + 1] ELSE @[i]]],
               IF old = {} THEN {} ELSE {first})

\* mutant: the change that takes the place of a dropped one keeps its own cause
Collapse_untold(g, leavers, c) ==
    LET stuck(i) == ((leavers \cap g.pmemb[i].view.curr) \ g.pmemb[i].floks) # {}
        kept     == SelectSeq(g.membq, LAMBDA i : ~stuck(i))
    IN  Forget([g EXCEPT !.membq = kept, !.pmemb =
                   [i \in DOMAIN @ |-> [@[i] EXCEPT !.view.curr =
                       IF i \in Range(kept) THEN @ \ leavers ELSE @]]],
               Range(g.membq) \ Range(kept))

\* A change that a leaver has not agreed to cannot be completed: it is dropped, and
\* the next one stands for both.  A leaver that did agree stays in the view, as a
\* member that is gone.
Collapse_memberships(g, leavers, c) ==
    LET stuck(i)  == ((leavers \cap g.pmemb[i].view.curr) \ g.pmemb[i].floks) # {}
        kept      == SelectSeq(g.membq, LAMBDA i : ~stuck(i))
        Before(i) == LET k == CHOOSE n \in DOMAIN g.membq : g.membq[n] = i
                     IN  k > 1 /\ stuck(g.membq[k - 1])
        merged    == {i \in Range(kept) : Before(i)} \cup
                     (IF g.membq # <<>> /\ stuck(Last(g.membq)) THEN {c} ELSE {})
        View(i)   == [g.pmemb[i].view EXCEPT
                          !.curr = IF i \in Range(kept) THEN @ \ leavers ELSE @,
                          !.type = IF i \in merged THEN "network" ELSE @]
    IN  Forget([g EXCEPT !.membq = kept, !.pmemb =
                   [i \in DOMAIN @ |-> [@[i] EXCEPT !.view = View(i)]]],
               Range(g.membq) \ Range(kept))

Handle_recv_reg_memb_mess(x, m) ==
    LET g0 == IF x.g.mstate = None THEN Create_fl_group(x.me) ELSE x.g
        g1 == [Lookup(g0, m.gid) EXCEPT
                  !.pmemb[m.gid].recvd = TRUE,
                  !.pmemb[m.gid].view = [NoView EXCEPT !.gid = m.gid, !.type = m.type,
                      !.delta = m.who, !.trans = FALSE, !.orig = m.membs, !.curr = m.membs]]
        gone   == Determine_leavers(m)
        shrunk == gone \cap g1.fl.curr # {}
        g2 == Age_and_invalidate_pmembs([g1 EXCEPT !.fl.curr = @ \ gone])
        g3 == Collapse_memberships(g2, gone, m.gid)
        g4 == [g3 EXCEPT !.membq = Append(@, m.gid)]
        y  == Assert_that([x EXCEPT !.g = g4], ~(Known(g0, m.gid) /\ g0.pmemb[m.gid].recvd))
        z  == IF g4.curr = Head(g4.membq) THEN y
              ELSE Handle_next_memb_change([y EXCEPT !.g.messq = <<>>])
    IN  IF shrunk /\ ~z.g.fl.trans THEN Deliver_trans_sig(z) ELSE z

Handle_recv_trans_memb_mess(x) == IF x.g.fl.trans THEN x ELSE Deliver_trans_sig(x)

Handle_recv_self_leave_memb_mess(x) == Deliver([x EXCEPT !.g = NoGroup], [k |-> "self"])

Self_leave(x, m) == m.k = "memb" /\ m.type = "leave" /\ m.who = x.me

SP_scat_get_memb_info == 1      \* what it returns of a membership message
Sizeof_group_id       == 12
\* FL_int_receive of m, which fits: the identifier of a regular membership message is
\* read, and what SP_scat_get_memb_info returned is taken for its size
FL_int_receive(x, m) ==
    IF m.k = "memb" /\ ~Self_leave(x, m)
    THEN Assert_at(x, "memb_info", SP_scat_get_memb_info = Sizeof_group_id)
    ELSE x

\* what m does to the group.  A network change ends the process: determine_leavers
\* passes the bytes of a name to stdhash_erase_key where the table's keys are
\* pointers to names.
Handle_received(x, m) ==
    CASE m.k \in {"flok", "frecv", "data"} /\ x.g.mstate = None -> x   \* a warning
      [] m.k = "private" -> Deliver(x, Data(x, m))
      [] m.k = "flok"  /\ x.g.mstate # None -> Handle_recv_flush_ok(x, m)
      [] m.k = "frecv" /\ x.g.mstate # None -> Handle_recv_flush_recv(x, m)
      [] m.k = "data"  /\ x.g.mstate # None -> Handle_recv_reg_mess(x, m)
      [] m.k = "memb" /\ m.type = "network" -> [x EXCEPT !.live = FALSE]
      [] Self_leave(x, m) -> Handle_recv_self_leave_memb_mess(x)
      [] m.k = "memb" /\ m.type # "network" /\ ~Self_leave(x, m) ->
             Handle_recv_reg_memb_mess(x, m)
      [] m.k = "trans" -> Handle_recv_trans_memb_mess(x)

\* recv_and_handle, with the message m that Spread delivered
Recv_and_handle(x, m) == Handle_received(FL_int_receive(x, m), m)

-----------------------------------------------------------------------------
(* The calls of the application; a call that is refused changes nothing *)

\* FL_scat_receive ends: the user has the message
Returned(x) == [x EXCEPT !.got = @ \o x.um, !.um = <<>>]

\* FL_scat_receive with a message in the queue.  A message that does not fit in
\* the user's buffers stays, and the user comes back with larger ones.
Receive_queued(x) ==
    IF x.small THEN [x EXCEPT !.small = FALSE]
    ELSE [x EXCEPT !.queue = Tail(@), !.got = Append(@, Head(x.queue))]

\* FL_int_receive of m: too short, for whatever it is, and Spread keeps it
Too_short(x) == [x EXCEPT !.small = FALSE]

CanFlush(x) == x.g.mstate \notin {None, "LEAVING"} /\ x.g.vstate = "AUTHORIZE"
CanSend_flushed(x) == x.g.mstate = "JOINED" \* mutant: a member that has flushed may still send
CanSend(x)  == x.g.mstate = "JOINED" /\ x.g.vstate # "AGREE"
CanJoin(x)  == x.g.mstate = None
CanLeave(x) == x.g.mstate = "JOINED"

Is_vulnerable_mess(x, rel) == x.g.vstate \in {"AUTHORIZE", "VERIFY"} /\ rel

\* FL_int_scat_multicast: to the group, or to some members of the view
FL_int_scat_multicast(x, id, rel, recvrs) ==
    Send(x, [k |-> "data", id |-> id, rel |-> rel, sent |-> x.g.fl.gid, recvrs |-> recvrs,
             vuln |-> IF Is_vulnerable_mess(x, rel) THEN x.g.fl.gid ELSE 0])

FL_leave(x) == Send([x EXCEPT !.g.mstate = "LEAVING"], [k |-> "leave"])
FL_join(x)  == Send(x, [k |-> "join"])
FL_disconnect(x) == Send([x EXCEPT !.live = FALSE], [k |-> "disconnect"])
=============================================================================
