------------------------------- MODULE Groups -------------------------------
(***************************************************************************)
(* The process groups of a Spread daemon (daemon/groups.c) with the parts  *)
(* of daemon/session.c through which messages reach the groups and         *)
(* notifications the clients.  As in Protocol, the static variables of the *)
(* daemon are the fields of a record st and every function of the source   *)
(* is an operator from such a record to the record it leaves.              *)
(*                                                                         *)
(*   me                         the daemon                                 *)
(*   gstate                     Gstate                                     *)
(*   tmemb, tmid, rmemb, rmid   Trans_memb and Reg_memb with their ids     *)
(*   grps                       GroupsList: [group -> [id, changed, dm,    *)
(*                              mboxes]], dm being DaemonsList: [daemon -> *)
(*                              [mid, mem]]                                *)
(*   sset                       MySyncedSet                                *)
(*   bufs, fresh                Groups_bufs, Groups_bufs_fresh             *)
(*   mine, gath, num            Gathered.complete, the list Gathered.next, *)
(*                              Num_daemons_gathered                       *)
(*   sess                       Sessions: [name -> [mbox, op, memb, q,     *)
(*                              log]], q being num_mess and log what was   *)
(*                              written to the client                      *)
(*   queue, normal, control     Down_queue_ptr and the two down queues     *)
(*   thr, blocked               Prot_delivery_threshold, and whether       *)
(*                              Session_threshold is MEDIUM_PRIORITY       *)
(*   fatal                      an Alarmp( SPLOG_FATAL ), an EXIT or a     *)
(*                              failing assert was reached                 *)
(*                                                                         *)
(* Groups, sessions and daemons are numbers, in the order of their names   *)
(* and of the configuration: a skip list of the source is a function or a  *)
(* set here, walked in that order.  A member is <<name, daemon>>, its      *)
(* private group.                                                          *)
(***************************************************************************)
EXTENDS Integers, Sequences, FiniteSets, SequencesExt, FiniteSetsExt, Functions

CONSTANTS
  BufRoom,         \* GROUPS_BUF_SIZE, a group, a daemon or a member being 1
  MaxSessMess,     \* Conf_get_max_session_messages()
  MaxLocal,        \* MAX_LOCAL_GROUP_MEMBERS
  Stalled          \* clients that have stopped to read from their socket

UNRELIABLE_TYPE == 1
RELIABLE_TYPE   == 2
AGREED_TYPE     == 8
SAFE_TYPE       == 16

Unknown_memb_id == [proc |-> -1, time |-> -1]
Is_partitioned(dmn) == dmn.mid = Unknown_memb_id

In_order(S)  == SetToSortSeq(S, <)
Without(f, x) == Restrict(f, DOMAIN f \ {x})
Fatal(st, bad) == IF bad THEN [st EXCEPT !.fatal = TRUE] ELSE st

-----------------------------------------------------------------------------
(* Sessions                                                                *)

\* A message goes to the queue the protocol sends from at the moment.
Prot_new_message(st, m) ==
  IF st.queue = "NORMAL" THEN [st EXCEPT !.normal = Append(@, m)]
  ELSE [st EXCEPT !.control = Append(@, m)]

Sess_get_session(st, name) == name \in DOMAIN st.sess
Session_of(st, mbox) == {n \in DOMAIN st.sess : st.sess[n].mbox = mbox}

\* mutant: the name and the mailbox are free again at once
Sess_clear_all(st, name) == [st EXCEPT !.sess = Without(@, name)]

\* nothing is read from the client or written to it any more; its name and its
\* mailbox stay in use
Sess_clear_session(st, name) == [st EXCEPT !.sess[name].op = FALSE, !.sess[name].q = 0]

\* The session is not taken out of its groups here: a message does that, at
\* all daemons at one place of the total order.
Sess_kill(st, name) ==
  LET kill == [kind |-> "kill", who |-> <<name, st.me>>, type |-> SAFE_TYPE]
  IN  Sess_clear_session(Prot_new_message(st, kill), name)

\* What the socket does not take at once is queued, and a client that lets too
\* much queue up is killed.
Sess_write(st, name, m) ==
  IF ~ st.sess[name].op THEN st
  ELSE IF st.sess[name].q >= MaxSessMess THEN Sess_kill(st, name)
  ELSE [st EXCEPT !.sess[name].q   = IF name \in Stalled THEN @ + 1 ELSE 0,
                  !.sess[name].log = Append(@, m)]

\* to the sessions of some mailboxes, in their order
Write_all(st, mboxes, m) ==
  LET Write(s, mbox) == IF Session_of(s, mbox) = {} THEN Fatal(s, TRUE)
                        ELSE Sess_write(s, CHOOSE n \in Session_of(s, mbox) : TRUE, m)
  IN  FoldLeft(Write, st, mboxes)

\* only sessions that asked for membership messages get them
Is_memb_session(st, mbox) == \A n \in Session_of(st, mbox) : st.sess[n].memb
Notify_all(st, mboxes, m) ==
  Write_all(st, SelectSeq(mboxes, LAMBDA b : Is_memb_session(st, b)), m)

-----------------------------------------------------------------------------
(* Groups                                                                  *)

G_get_num_local(st, g) == IF g \in DOMAIN st.grps THEN Len(st.grps[g].mboxes) ELSE 0

Members(grp)  == UNION {grp.dm[p].mem : p \in DOMAIN grp.dm}

NewGroup(mid, index) ==
  [id |-> [mid |-> mid, index |-> index], changed |-> FALSE, dm |-> <<>>, mboxes |-> <<>>]

\* A group that has lost its last member disappears; its lists must be empty.
G_remove_group(st, g) ==
  [Fatal(st, DOMAIN st.grps[g].dm # {} \/ st.grps[g].mboxes # <<>>)
     EXCEPT !.grps = Without(@, g)]

Remove_if_empty(st, g) == IF Members(st.grps[g]) = {} THEN G_remove_group(st, g) ELSE st

\* the last mailbox takes the place of the one removed
G_remove_mailbox(st, g, mbox) ==
  LET boxes == st.grps[g].mboxes
      at    == {k \in DOMAIN boxes : boxes[k] = mbox}
  IN  IF at = {} THEN Fatal(st, TRUE)
      ELSE [st EXCEPT !.grps[g].mboxes = Front([boxes EXCEPT ![Min(at)] = Last(boxes)])]

G_update_daemon_memb_ids(grp) ==
  [grp EXCEPT !.dm = [p \in DOMAIN @ |-> IF Is_partitioned(@[p]) THEN @[p]
                                         ELSE [@[p] EXCEPT !.mid = grp.id.mid]]]

\* a member leaves a group, and an empty list of its daemon with it
Extract_member(grp, who) ==
  LET left == grp.dm[who[2]].mem \ {who}
  IN  [grp EXCEPT !.dm = IF left = {} THEN Without(@, who[2])
                         ELSE [@ EXCEPT ![who[2]].mem = left]]

\* every group, in the order of GroupsList
For_every_group(Op(_, _), st) == FoldLeft(Op, st, In_order(DOMAIN st.grps))

-----------------------------------------------------------------------------
(* Notifications                                                           *)

\* the members of a group, its id, and who came with whom
Memb_message(grp, g, caused, sets, mine) ==
  [kind |-> "memb", group |-> g, id |-> grp.id, mem |-> Members(grp),
   caused |-> caused, vs |-> sets, mine |-> mine]

G_send_lightweight_memb(st, g, caused, who) ==
  LET grp == st.grps[g]
  IN  Notify_all(st, grp.mboxes, Memb_message(grp, g, caused, <<{who}>>, {who}))

G_send_trans_memb(st, g) ==
  Notify_all(st, st.grps[g].mboxes, [kind |-> "trans", group |-> g, id |-> st.grps[g].id])

G_send_self_leave(st, g, name) ==
  Notify_all(st, <<st.sess[name].mbox>>, [kind |-> "left", group |-> g])

\* partitioned daemons come last
G_compare_memb_ids(a, b) ==
  IF a = b THEN 0
  ELSE IF a = Unknown_memb_id THEN 1
  ELSE IF b = Unknown_memb_id THEN -1
  ELSE IF a.proc # b.proc THEN a.proc - b.proc ELSE a.time - b.time

G_compare_daemon_vs_set(grp, p, q) ==
  LET c == G_compare_memb_ids(grp.dm[p].mid, grp.dm[q].mid)
  IN  IF c = 0 THEN p < q ELSE c < 0

\* The virtual synchrony sets of a group: the members of daemons with the same
\* membership id came together, those of a partitioned daemon are a set of their
\* own, and so is one who joins a group that has partitioned daemons.
Vs_sets(st, grp, joiner) ==
  LET In_vs_order(p, q) == G_compare_daemon_vs_set(grp, p, q)
      Add(vs, p) ==
        LET same == vs.cur # {} /\ ~ Is_partitioned(grp.dm[p]) /\ grp.dm[p].mid \in vs.cur
            mem  == grp.dm[p].mem \ joiner
        IN  [sets |-> IF same THEN [vs.sets EXCEPT ![Len(vs.sets)] = @ \cup mem]
                      ELSE Append(vs.sets, mem),
             cur  |-> {grp.dm[p].mid},
             at   |-> IF p = st.me THEN Len(vs.sets) + (IF same THEN 0 ELSE 1) ELSE vs.at]
      all == FoldLeft(Add, [sets |-> <<>>, cur |-> {}, at |-> 1],
                      SetToSortSeq(DOMAIN grp.dm, In_vs_order))
  IN  [sets |-> IF joiner = {} THEN all.sets ELSE Append(all.sets, joiner),
       mine |-> all.sets[all.at]]

\* joiner is the new member as a set, new_mbox its mailbox when it is local
G_send_heavyweight_join(st, g, joiner, new_mbox) ==
  LET grp    == st.grps[g]
      vs     == Vs_sets(st, grp, joiner)
      Mess(mine) == Memb_message(grp, g, "network", vs.sets, mine)
      others == SelectSeq(grp.mboxes, LAMBDA m : m \notin new_mbox)
      s1     == Notify_all(st, others, Mess(vs.mine))
  IN  Notify_all(s1, SetToSeq(new_mbox), Mess(joiner))

G_send_heavyweight_memb(st, g) == G_send_heavyweight_join(st, g, {}, {})

-----------------------------------------------------------------------------
(* Joining and leaving                                                     *)

\* handlers of ordered messages run in GOP and GTRANS only
In_gather(st) == st.gstate \in {"GGATHER", "GGT"}

\* where a member joins: the group and the list of its daemon, made if need be
Join_place(st, g, p) ==
  LET grp == IF g \in DOMAIN st.grps THEN st.grps[g]
             ELSE NewGroup(IF st.gstate = "GOP" THEN st.rmid ELSE st.tmid, 0)
      mid == IF st.gstate = "GOP" \/ p \in st.tmemb THEN grp.id.mid ELSE Unknown_memb_id
  IN  IF p \in DOMAIN grp.dm THEN grp
      ELSE [grp EXCEPT !.dm = (p :> [mid |-> mid, mem |-> {}]) @@ @]

Notify_join(st, g, who, new_mbox) ==
  IF st.grps[g].mboxes = <<>> THEN st
  ELSE IF st.grps[g].changed
  THEN G_send_trans_memb(G_send_heavyweight_join(st, g, {who}, new_mbox), g)
  ELSE G_send_lightweight_memb(st, g, "join", who)

G_handle_join(st, who, g) ==
  LET grp   == Join_place(st, g, who[2])
      local == who[2] = st.me
      mbox  == IF local /\ Sess_get_session(st, who[1]) THEN <<st.sess[who[1]].mbox>> ELSE <<>>
      new   == [grp EXCEPT !.dm[who[2]].mem = @ \cup {who},
                           !.id.index = @ + 1,
                           !.mboxes   = @ \o mbox,
                           !.changed  = @ \/ Is_partitioned(grp.dm[who[2]])]
  IN  IF In_gather(st) THEN Fatal(st, TRUE)
      ELSE IF who \in grp.dm[who[2]].mem THEN st
      ELSE Notify_join([Fatal(st, local /\ mbox = <<>>) EXCEPT !.grps = (g :> new) @@ @],
                       g, who, ToSet(mbox))

\* what is left of a group after a leave or a kill: nothing, or a new group id
\* and a notification
After_extract(st, g, who, caused) ==
  IF Members(st.grps[g]) = {} THEN G_remove_group(st, g)
  ELSE LET s1 == [st EXCEPT !.grps[g].id.index = @ + 1]
       IN  IF s1.grps[g].mboxes = <<>> THEN s1
           ELSE IF s1.grps[g].changed
           THEN G_send_trans_memb(G_send_heavyweight_memb(s1, g), g)
           ELSE G_send_lightweight_memb(s1, g, caused, who)

Is_member(st, g, who) ==
  /\ g \in DOMAIN st.grps /\ who[2] \in DOMAIN st.grps[g].dm
  /\ who \in st.grps[g].dm[who[2]].mem

G_handle_leave(st, who, g) ==
  IF In_gather(st) THEN Fatal(st, TRUE)
  ELSE IF ~ Is_member(st, g, who) THEN st
  ELSE IF who[2] = st.me /\ ~ Sess_get_session(st, who[1]) THEN Fatal(st, TRUE)
  ELSE LET s1 == IF who[2] # st.me THEN st
                 ELSE G_remove_mailbox(G_send_self_leave(st, g, who[1]), g, st.sess[who[1]].mbox)
       IN  After_extract([s1 EXCEPT !.grps[g] = Extract_member(@, who)], g, who, "leave")

G_handle_kill(st, who) ==
  LET mbox(s) == IF Sess_get_session(s, who[1]) THEN s.sess[who[1]].mbox ELSE -1
      Extract(s, g) ==
        IF ~ Is_member(s, g, who) THEN s
        ELSE LET s1 == IF who[2] = s.me THEN G_remove_mailbox(s, g, mbox(s)) ELSE s
             IN  After_extract([s1 EXCEPT !.grps[g] = Extract_member(@, who)],
                               g, who, "disconnect")
  IN  IF In_gather(st) THEN Fatal(st, TRUE) ELSE For_every_group(Extract, st)

-----------------------------------------------------------------------------
(* The state exchange                                                      *)

\* A groups message is [kind, rep, size, type, mid, first, sset, ents].  An
\* entry [group, id, changed, dms] tells of a group, dms of some of its daemons.
Entry(st, g) == [group |-> g, id |-> st.grps[g].id, changed |-> st.grps[g].changed, dms |-> <<>>]
Daemon_info(st, g, p) == [proc |-> p, mid |-> st.grps[g].id.mid, mem |-> st.grps[g].dm[p].mem]

\* One more daemon of a group in the last buffer, or in a new one when it does
\* not fit: what is known of a daemon is never split, and a new buffer names
\* the group again.
Add_daemon(st, b, g, p) ==
  LET need  == 1 + Cardinality(st.grps[g].dm[p].mem)
      last  == Last(b.bufs)
      ents  == last.ents
      known == ents # <<>> /\ Last(ents).group = g
      \* the entry of the group is in the buffer, with or without this daemon
      put   == known \/ b.used + 1 <= BufRoom
      room  == b.used + (IF known THEN 0 ELSE 1) + need <= BufRoom
      start == IF known THEN ents ELSE Append(ents, Entry(st, g))
      With(e) == [e EXCEPT ![Len(e)].dms = Append(@, Daemon_info(st, g, p))]
  IN  IF room
      THEN [bufs |-> Append(Front(b.bufs), [last EXCEPT !.ents = With(start)]),
            used |-> b.used + (IF known THEN 0 ELSE 1) + need]
      ELSE [bufs |-> Append(Append(Front(b.bufs), [last EXCEPT !.ents = IF put THEN start ELSE ents]),
                            [last EXCEPT !.first = FALSE, !.sset = {}, !.ents = With(<<Entry(st, g)>>)]),
            used |-> 1 + need]

\* mutant: the daemon that does not fit is left out
Build_skipping(st) ==
  LET first == [mid |-> st.rmid, first |-> TRUE, sset |-> st.sset, ents |-> <<>>]
      All(g) == [k \in DOMAIN In_order(DOMAIN st.grps[g].dm) |->
                   <<g, In_order(DOMAIN st.grps[g].dm)[k]>>]
      pairs == FlattenSeq([k \in DOMAIN In_order(DOMAIN st.grps) |->
                             All(In_order(DOMAIN st.grps)[k])])
      Add(b, gp) == LET n == Add_daemon(st, b, gp[1], gp[2])
                    IN  IF Len(n.bufs) > Len(b.bufs)
                        THEN [n EXCEPT !.bufs[Len(n.bufs)].ents = <<>>] ELSE n
  IN  [st EXCEPT !.bufs = Reverse(FoldLeft(Add, [bufs |-> <<first>>, used |-> Cardinality(st.sset)],
                                           pairs).bufs)]

\* the buffers, the last one built at the head of the list
G_build_new_groups_bufs(st) ==
  LET first == [mid |-> st.rmid, first |-> TRUE, sset |-> st.sset, ents |-> <<>>]
      All(g) == [k \in DOMAIN In_order(DOMAIN st.grps[g].dm) |->
                   <<g, In_order(DOMAIN st.grps[g].dm)[k]>>]
      pairs == FlattenSeq([k \in DOMAIN In_order(DOMAIN st.grps) |->
                             All(In_order(DOMAIN st.grps)[k])])
      Add(b, gp) == Add_daemon(st, b, gp[1], gp[2])
  IN  [st EXCEPT !.bufs = Reverse(FoldLeft(Add, [bufs |-> <<first>>, used |-> Cardinality(st.sset)],
                                           pairs).bufs)]

\* mutant: the membership id of the messages is not renewed
G_stamp_nothing(st) == st

G_stamp_groups_bufs(st) ==
  [st EXCEPT !.bufs = [k \in DOMAIN @ |-> [@[k] EXCEPT !.mid = st.rmid]]]

\* The last message of the list is the first one built.  It alone is AGREED,
\* and tells the others that they have all.
G_send_groups_messages(st) ==
  LET Mess(k) == [kind |-> "groups", rep |-> st.me, size |-> Cardinality(st.sset),
                  type |-> IF k = Len(st.bufs) THEN AGREED_TYPE ELSE RELIABLE_TYPE] @@ st.bufs[k]
      Send(s, k) == Prot_new_message(s, Mess(k))
  IN  FoldLeft(Send, st, [k \in DOMAIN st.bufs |-> k])

Is_synced_set_leader(st, p) == p = Min(st.sset)

\* one daemon of a group, as another synced set knows it
Add_entry_daemon(grp, d) ==
  [grp EXCEPT !.dm = (d.proc :> [mid |-> d.mid, mem |-> d.mem]) @@ @,
              !.changed = @ \/ d.mid # grp.id.mid]

\* the information of a groups message goes into GroupsList
G_mess_to_groups(st, m) ==
  LET Merge(s, e) ==
        LET grp == IF e.group \in DOMAIN s.grps THEN s.grps[e.group]
                   ELSE NewGroup(e.id.mid, e.id.index)
            new == FoldLeft(Add_entry_daemon, [grp EXCEPT !.changed = @ \/ e.changed], e.dms)
        IN  [s EXCEPT !.grps = (e.group :> new) @@ @]
  IN  FoldLeft(Merge, st, m.ents)

\* Two synced sets are disjoint.
G_add_to_synced_set(st, set) ==
  [Fatal(st, st.sset \cap set # {}) EXCEPT !.sset = @ \cup set]

\* the gathered messages of one representative
Merge_rep(st, link) ==
  LET sset == UNION {link.mess[k].sset : k \in DOMAIN link.mess}
  IN  G_add_to_synced_set(FoldLeft(G_mess_to_groups, st, link.mess), sset)

G_eliminate_daemons(st, g, gone) ==
  Remove_if_empty([st EXCEPT !.grps[g].dm = Restrict(@, DOMAIN @ \ gone)], g)
Partitioned(grp) == {p \in DOMAIN grp.dm : Is_partitioned(grp.dm[p])}

G_shift_to_GOP(st) == [st EXCEPT !.gstate = "GOP", !.thr = UNRELIABLE_TYPE]

\* a group whose daemons are complete gets the id of the membership
New_group_id(st, g) ==
  [st EXCEPT !.grps[g].id = [mid |-> st.rmid, index |-> 1], !.grps[g].changed = FALSE]
Update_ids(st, g) == [st EXCEPT !.grps[g] = G_update_daemon_memb_ids(@)]
Tell_members(st, g) == IF st.grps[g].mboxes = <<>> THEN st ELSE G_send_heavyweight_memb(st, g)

\* mutant: the daemons get their new membership id before the notification
Notify_changed_after(st, g) ==
  IF ~ st.grps[g].changed THEN st ELSE Tell_members(Update_ids(New_group_id(st, g), g), g)

Notify_changed(st, g) ==
  IF ~ st.grps[g].changed THEN st ELSE Update_ids(Tell_members(New_group_id(st, g), g), g)

\* Everything is here: merge it, tell the members of the groups that changed
\* who came with whom, and forget the messages.
G_compute_and_notify(st) ==
  LET s1 == FoldLeft(Merge_rep, st, st.gath)
      s2 == For_every_group(Notify_changed, [s1 EXCEPT !.gath = <<>>])
  IN  [s2 EXCEPT !.mine = FALSE, !.num = 0, !.bufs = <<>>, !.fresh = FALSE]

\* The daemons that stay behind are partitioned from now on.
Partition_group(st, g) ==
  LET gone == DOMAIN st.grps[g].dm \ st.tmemb
      s1   == [st EXCEPT !.grps[g].dm = [p \in DOMAIN @ |->
                 IF p \in gone THEN [@[p] EXCEPT !.mid = Unknown_memb_id] ELSE @[p]]]
      s2   == IF s1.grps[g].mboxes = <<>> THEN s1 ELSE G_send_trans_memb(s1, g)
  IN  IF gone = {} THEN st
      ELSE Update_ids([s2 EXCEPT !.grps[g].id = [mid |-> st.tmid, index |-> 1],
                                 !.grps[g].changed = TRUE], g)

\* In GGATHER nothing is thrown away yet: the exchange may still complete.
Mark_cascade(st, g) ==
  [st EXCEPT !.grps[g].changed = @ \/ ~ (DOMAIN st.grps[g].dm \subseteq st.tmemb)]

G_handle_trans_memb(st, memb, mid) ==
  LET s1 == [st EXCEPT !.tmemb = memb, !.tmid = mid]
  IN  CASE st.gstate = "GOP" ->
             [For_every_group(Partition_group, s1) EXCEPT !.gstate = "GTRANS",
                                                          !.sset = @ \cap memb]
        [] st.gstate = "GGATHER" ->
             [For_every_group(Mark_cascade, s1) EXCEPT !.gstate = "GGT"]
        [] OTHER -> Fatal(st, TRUE)

\* a groups message of somebody else is kept with those of its representative
Gather(st, m) ==
  LET at == {k \in DOMAIN st.gath : st.gath[k].rep = m.rep}
      last == m.type = AGREED_TYPE
  IN  IF Is_synced_set_leader(st, m.rep) THEN [st EXCEPT !.mine = @ \/ last]
      ELSE IF at = {}
      THEN [st EXCEPT !.gath = <<[rep |-> m.rep, complete |-> last, mess |-> <<m>>]>> \o @]
      ELSE [st EXCEPT !.gath[Min(at)] = [@ EXCEPT !.complete = @ \/ last, !.mess = <<m>> \o @]]

\* mutant: messages of an earlier exchange are taken, too
G_handle_groups_any(st, m) ==
  LET s1 == [Gather(st, m) EXCEPT !.num = @ + (IF m.type = AGREED_TYPE THEN m.size ELSE 0)]
      s2 == G_shift_to_GOP(G_compute_and_notify([s1 EXCEPT !.queue = "NORMAL", !.blocked = FALSE]))
  IN  IF ~ In_gather(st) THEN Fatal(st, TRUE)
      ELSE IF s1.num # Cardinality(st.rmemb) THEN s1
      ELSE IF st.gstate = "GGATHER" THEN s2
      ELSE G_handle_trans_memb(s2, st.tmemb, st.tmid)

\* When the messages of all daemons of the membership are here the exchange is
\* over; a transitional membership that came in between is handled now.
G_handle_groups(st, m) ==
  LET s1 == [Gather(st, m) EXCEPT !.num = @ + (IF m.type = AGREED_TYPE THEN m.size ELSE 0)]
      s2 == G_shift_to_GOP(G_compute_and_notify([s1 EXCEPT !.queue = "NORMAL", !.blocked = FALSE]))
  IN  IF ~ In_gather(st) THEN Fatal(st, TRUE)
      ELSE IF m.mid # st.rmid THEN st
      ELSE IF s1.num # Cardinality(st.rmemb) THEN s1
      ELSE IF st.gstate = "GGATHER" THEN s2
      ELSE G_handle_trans_memb(s2, st.tmemb, st.tmid)

\* nobody new: the groups that lost members know all there is to know
Subtract_group(st, g) ==
  IF ~ st.grps[g].changed THEN st
  ELSE LET s1 == G_eliminate_daemons(st, g, Partitioned(st.grps[g]))
       IN  IF g \notin DOMAIN s1.grps THEN s1
           ELSE Tell_members(Update_ids(New_group_id(s1, g), g), g)

Drop_partitioned(st, g) ==
  IF st.grps[g].changed THEN G_eliminate_daemons(st, g, Partitioned(st.grps[g])) ELSE st

Start_exchange(st) ==
  LET s1 == [For_every_group(Drop_partitioned, st)
               EXCEPT !.blocked = TRUE, !.queue = "GROUPS", !.thr = AGREED_TYPE]
      s2 == IF Is_synced_set_leader(s1, s1.me)
            THEN G_send_groups_messages([G_build_new_groups_bufs(s1) EXCEPT !.fresh = TRUE])
            ELSE s1
  IN  [s2 EXCEPT !.gstate = "GGATHER"]

Drop_left_behind(st, g) ==
  LET gone == DOMAIN st.grps[g].dm \ st.tmemb
  IN  IF gone = {} THEN st
      ELSE G_eliminate_daemons([st EXCEPT !.fresh = FALSE, !.grps[g].changed = TRUE], g, gone)

\* The exchange was cut short.  If the messages of my own synced set got
\* through, everybody who comes along has them, and whoever else was complete
\* joins the set; then a new exchange starts.
Merge_complete(st) ==
  LET done == IF st.mine THEN SelectSeq(st.gath, LAMBDA l : l.complete) ELSE <<>>
  IN  [FoldLeft(Merge_rep, st, done) EXCEPT !.gath = <<>>, !.fresh = @ /\ done = <<>>]

Restart_exchange(st) ==
  LET s1 == For_every_group(Drop_left_behind, Merge_complete(st))
      s2 == [s1 EXCEPT !.sset = @ \cap st.tmemb, !.fresh = @ /\ s1.sset \subseteq st.tmemb,
                       !.mine = FALSE, !.num = 0]
      s3 == IF ~ Is_synced_set_leader(s2, s2.me) THEN s2
            ELSE G_send_groups_messages(
                   IF s2.fresh THEN G_stamp_groups_bufs(s2)
                   ELSE [G_build_new_groups_bufs(s2) EXCEPT !.fresh = TRUE])
  IN  [s3 EXCEPT !.gstate = "GGATHER"]

G_handle_reg_memb(st, memb, mid) ==
  LET s1 == [st EXCEPT !.rmemb = memb, !.rmid = mid]
  IN  CASE st.gstate = "GTRANS" ->
             IF Cardinality(st.tmemb) = Cardinality(memb)
             THEN G_shift_to_GOP(For_every_group(Subtract_group, s1))
             ELSE Start_exchange(s1)
        [] st.gstate = "GGT" -> Restart_exchange(s1)
        [] OTHER -> Fatal(st, TRUE)

-----------------------------------------------------------------------------
(* Delivery                                                                *)

\* The mailboxes a message is for, each of them once.  A destination is a
\* group [to |-> "group", name] or a session [to |-> "private", who].
Mailboxes(st, dest) ==
  IF dest.to = "group"
  THEN IF dest.name \in DOMAIN st.grps THEN st.grps[dest.name].mboxes ELSE <<>>
  ELSE IF dest.who[2] = st.me /\ Sess_get_session(st, dest.who[1])
  THEN <<st.sess[dest.who[1]].mbox>> ELSE <<>>

G_analize_groups(st, dests) ==
  FoldLeft(LAMBDA all, d : all \o SelectSeq(Mailboxes(st, d), LAMBDA m : m \notin ToSet(all)),
           <<>>, dests)

Sess_handle_kill(st, who) ==
  LET s1 == G_handle_kill(st, who)
  IN  IF who[2] # st.me \/ ~ Sess_get_session(s1, who[1]) THEN s1
      ELSE [Fatal(s1, s1.sess[who[1]].op) EXCEPT !.sess = Without(@, who[1])]

\* a regular message, which its sender may not want back
Deliver_regular(st, m) ==
  LET known == \E k \in DOMAIN m.dests :
                 m.dests[k].to = "group" /\ m.dests[k].name \in DOMAIN st.grps
      self  == IF m.discard /\ m.who[2] = st.me /\ Sess_get_session(st, m.who[1])
               THEN {st.sess[m.who[1]].mbox} ELSE {}
      boxes == SelectSeq(G_analize_groups(st, m.dests), LAMBDA b : b \notin self)
  IN  Write_all(Fatal(st, known /\ In_gather(st)), boxes, [kind |-> "msg", id |-> m.id])

Sess_deliver_message(st, m) ==
  CASE m.kind = "join"   -> G_handle_join(st, m.who, m.group)
    [] m.kind = "leave"  -> G_handle_leave(st, m.who, m.group)
    [] m.kind = "kill"   -> Sess_handle_kill(st, m.who)
    [] m.kind = "groups" -> G_handle_groups(st, m)
    [] m.kind = "reject" -> IF Sess_get_session(st, m.who[1])
                            THEN Sess_write(st, m.who[1], m) ELSE Fatal(st, TRUE)
    [] m.kind = "msg"    -> Deliver_regular(st, m)

G_init(me) ==
  [me |-> me, gstate |-> "GOP", tmemb |-> {}, tmid |-> Unknown_memb_id,
   rmemb |-> {}, rmid |-> Unknown_memb_id, grps |-> <<>>, sset |-> {me},
   bufs |-> <<>>, fresh |-> FALSE, mine |-> FALSE, gath |-> <<>>, num |-> 0,
   sess |-> <<>>, queue |-> "NORMAL", normal |-> <<>>, control |-> <<>>,
   thr |-> UNRELIABLE_TYPE, blocked |-> FALSE, fatal |-> FALSE]
=============================================================================
