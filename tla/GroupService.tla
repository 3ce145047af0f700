---------------------------- MODULE GroupService ----------------------------
(***************************************************************************)
(* The groups of several daemons (Groups) on top of what the protocol      *)
(* below promises them, which Daemons checks of the code: the messages of  *)
(* a membership are delivered in one order; daemons that go together from  *)
(* one membership to the next deliver the same messages and see the        *)
(* transitional membership at the same place; behind a hole only the       *)
(* messages of daemons that come along are left; a reliable message may be *)
(* delivered early while the delivery threshold of the daemon allows it.   *)
(*                                                                         *)
(* What a change of membership makes a daemon deliver it delivers in one   *)
(* handler, so between its events no client is served.                     *)
(***************************************************************************)
EXTENDS Groups

CONSTANTS
  Proc,          \* the daemons
  Scenarios      \* [boot, ops, faults]: the events every daemon starts with,
                 \* what its clients do, and what happens to the network

VARIABLES
  d,       \* the daemons
  view,    \* [daemon -> the membership whose messages it gets: id, memb]
  seqs,    \* [membership id -> its messages, in order]
  pos,     \* [daemon -> how many of them it has delivered in order]
  early,   \* [daemon -> the places of those delivered before their turn]
  pend,    \* [daemon -> events of a membership it is to install, and its view]
  up,      \* the daemons that run
  rest     \* what clients and network still do: ops, faults; and the count of
           \* memberships

vars == <<d, view, seqs, pos, early, pend, up, rest>>

NoPend == [events |-> <<>>]

\* an event the protocol hands up
Handle(st, e) ==
  CASE e.kind = "trans" -> G_handle_trans_memb(st, e.memb, e.mid)
    [] e.kind = "reg"   -> G_handle_reg_memb(st, e.memb, e.mid)
    [] OTHER            -> Sess_deliver_message(st, e)

NewSession(mbox, memb) == [mbox |-> mbox, op |-> TRUE, memb |-> memb, q |-> 0, log |-> <<>>]

Boot_id(p) == [proc |-> p, time |-> 0]

\* A scenario starts where the boot events of the daemons lead: memberships
\* they have had, sessions that have connected and joined.
Boot(sc, p) ==
  LET Step(st, e) == IF e.kind = "connect"
                     THEN [st EXCEPT !.sess = (e.name :> NewSession(e.mbox, TRUE)) @@ @]
                     ELSE IF e.kind = "sent" THEN [st EXCEPT !.control = <<>>]
                     ELSE Handle(st, e)
  IN  FoldLeft(Step, G_init(p), sc.boot[p])

Init ==
  \E sc \in Scenarios :
    /\ d = [p \in Proc |-> Boot(sc, p)]
    /\ view = [p \in Proc |-> [mid |-> d[p].rmid, memb |-> d[p].rmemb]]
    /\ seqs = [i \in {d[p].rmid : p \in Proc} |-> <<>>]
    /\ pos = [p \in Proc |-> 0] /\ early = [p \in Proc |-> {}]
    /\ pend = [p \in Proc |-> NoPend]
    /\ up = Proc
    /\ rest = [ops |-> sc.ops, faults |-> sc.faults, count |-> 1]

-----------------------------------------------------------------------------
(* The protocol below                                                      *)

Queue(st) == IF st.queue = "NORMAL" THEN st.normal ELSE st.control

\* The token comes by: what is in the down queue gets its place in the order.
Send(p) ==
  LET sent == [k \in DOMAIN Queue(d[p]) |-> [from |-> p] @@ Queue(d[p])[k]]
  IN  /\ p \in up /\ pend[p] = NoPend /\ sent # <<>>
      /\ seqs' = [seqs EXCEPT ![view[p].mid] = @ \o sent]
      /\ d' = [d EXCEPT ![p] = IF @.queue = "NORMAL" THEN [@ EXCEPT !.normal = <<>>]
                               ELSE [@ EXCEPT !.control = <<>>]]
      /\ UNCHANGED <<view, pos, early, pend, up, rest>>

\* What is there, in order and without what was delivered early.  A safe
\* message has to wait, and so does all behind it.
Deliver(p) ==
  LET msgs == seqs[view[p].mid]
      k    == pos[p] + 1
      stop == Min({Len(msgs) + 1} \cup {i \in k + 1 .. Len(msgs) : msgs[i].type = SAFE_TYPE})
      Next_one(st, i) == IF i \in early[p] THEN st ELSE Sess_deliver_message(st, msgs[i])
  IN  /\ p \in up /\ pend[p] = NoPend /\ k <= Len(msgs)
      /\ d' = [d EXCEPT ![p] = FoldLeft(Next_one, @, [i \in 1 .. stop - k |-> pos[p] + i])]
      /\ pos' = [pos EXCEPT ![p] = stop - 1] /\ early' = [early EXCEPT ![p] = @ \ (k .. stop - 1)]
      /\ UNCHANGED <<view, seqs, pend, up, rest>>

\* a reliable message that others precede, when the threshold lets it through
Deliver_early(p) ==
  /\ p \in up /\ pend[p] = NoPend /\ d[p].thr <= RELIABLE_TYPE
  /\ \E k \in DOMAIN seqs[view[p].mid] \ early[p] :
       LET m == seqs[view[p].mid][k]
       IN  /\ k > pos[p] + 1 /\ m.type = RELIABLE_TYPE
           /\ d' = [d EXCEPT ![p] = Sess_deliver_message(@, m)]
           /\ early' = [early EXCEPT ![p] = @ \cup {k}]
  /\ UNCHANGED <<view, seqs, pos, pend, up, rest>>

\* those of S that come from one membership
Companions(S, p) == {q \in S : view[q] = view[p]}

\* What p delivers to get from its membership to S: cut is where the
\* transitional membership comes, and hole the first message nobody has.
Way(p, T, cut, hole, tid, reg) ==
  LET msgs == seqs[view[p].mid]
      had  == UNION {early[q] : q \in T}
      Items(ks) == [i \in DOMAIN In_order(ks) |-> msgs[In_order(ks)[i]]]
      before == {k \in (pos[p] + 1) .. cut : k \notin early[p]}
      after  == {k \in (cut + 1) .. Len(msgs) :
                   (k <= hole \/ msgs[k].from \in T \/ k \in had) /\ k \notin early[p]}
  IN  Items(before) \o <<[kind |-> "trans", memb |-> T, mid |-> tid]>> \o Items(after) \o
      <<[kind |-> "reg", memb |-> reg.memb, mid |-> reg.mid]>>

\* The daemons of S agree on a new membership.  Some may not have installed the
\* one before: they go on from where they are.
Change ==
  LET S     == Head(rest.faults).memb
      old   == {view[p] : p \in S}
      n     == rest.count
      reg   == [mid |-> [proc |-> Min(S), time |-> 2 * n], memb |-> S]
      top   == Max({Len(seqs[v.mid]) : v \in old})
  IN  /\ rest.faults # <<>> /\ Head(rest.faults).kind = "view" /\ S \subseteq up
      /\ \E cut, hole \in [old -> 0 .. top] :
           /\ \A v \in old :
                LET T == {p \in S : view[p] = v}
                IN  /\ cut[v] <= hole[v] /\ hole[v] <= Len(seqs[v.mid])
                    /\ \A p \in T : pos[p] <= cut[v]
                    \* an agreed message waits only behind a safe one
                    /\ cut[v] < hole[v] => seqs[v.mid][cut[v] + 1].type = SAFE_TYPE
           /\ pend' = [p \in Proc |->
                IF p \notin S THEN pend[p]
                ELSE LET T == Companions(S, p)
                     IN  [events |-> Way(p, T, cut[view[p]], hole[view[p]],
                                         [proc |-> Min(T), time |-> 2 * n - 1], reg),
                          view |-> reg]]
      /\ seqs' = (reg.mid :> <<>>) @@ seqs
      /\ rest' = [rest EXCEPT !.faults = Tail(@), !.count = @ + 1]
      /\ UNCHANGED <<d, view, pos, early, up>>

Install(p) ==
  /\ p \in up /\ pend[p] # NoPend
  /\ d' = [d EXCEPT ![p] = FoldLeft(Handle, @, pend[p].events)]
  /\ view' = [view EXCEPT ![p] = pend[p].view]
  /\ pos' = [pos EXCEPT ![p] = 0] /\ early' = [early EXCEPT ![p] = {}]
  /\ pend' = [pend EXCEPT ![p] = NoPend]
  /\ UNCHANGED <<seqs, up, rest>>

Crash ==
  /\ rest.faults # <<>> /\ Head(rest.faults).kind = "crash"
  /\ up' = up \ {Head(rest.faults).proc}
  /\ rest' = [rest EXCEPT !.faults = Tail(@)]
  /\ UNCHANGED <<d, view, seqs, pos, early, pend>>

\* a daemon that crashed starts again, with nothing
Restart ==
  LET p == Head(rest.faults).proc
  IN  /\ rest.faults # <<>> /\ Head(rest.faults).kind = "start" /\ p \notin up
      /\ up' = up \cup {p}
      /\ d' = [d EXCEPT ![p] = G_init(p)]
      /\ view' = [view EXCEPT ![p] = [mid |-> [proc |-> p, time |-> 2 * rest.count], memb |-> {p}]]
      /\ seqs' = ([proc |-> p, time |-> 2 * rest.count] :> <<>>) @@ seqs
      /\ pos' = [pos EXCEPT ![p] = 0] /\ early' = [early EXCEPT ![p] = {}]
      /\ pend' = [pend EXCEPT ![p] = NoPend]
      /\ rest' = [rest EXCEPT !.faults = Tail(@), !.count = @ + 1]

-----------------------------------------------------------------------------
(* Clients                                                                 *)

Free_mbox(st) == Min(1 .. (1 + Cardinality(DOMAIN st.sess)) \
                     {st.sess[n].mbox : n \in DOMAIN st.sess})

\* A client connects, unless its name is in use: also by a session that is
\* killed and whose kill message is still under way.
Sess_connect(st, o) ==
  IF o.name \in DOMAIN st.sess THEN st
  ELSE [st EXCEPT !.sess = (o.name :> NewSession(Free_mbox(st), o.memb)) @@ @]

\* What Sess_read does with a whole message of a session: a join beyond the
\* limit is answered at once, a disconnect silences the session.
Sess_read(st, o) ==
  LET who == <<o.name, st.me>>
      m   == [kind |-> o.op, who |-> who, type |-> AGREED_TYPE]
  IN  IF o.name \notin DOMAIN st.sess \/ ~ st.sess[o.name].op THEN st
      ELSE CASE o.op = "join" /\ G_get_num_local(st, o.group) = MaxLocal ->
                  Sess_deliver_message(st, [kind |-> "reject", who |-> who])
             [] o.op \in {"join", "leave"} -> Prot_new_message(st, [group |-> o.group] @@ m)
             [] o.op = "kill" -> Prot_new_message(Sess_clear_session(st, o.name), m)
             [] o.op = "fail" -> Sess_kill(st, o.name)
             [] o.op = "msg"  -> Prot_new_message(st, [id |-> o.id, dests |-> o.dests,
                                                       discard |-> o.discard, type |-> o.type] @@ m)

\* Events of low priority, and so clients, wait while Session_threshold is
\* raised.
Client(p) ==
  LET o == Head(rest.ops[p])
  IN  /\ p \in up /\ rest.ops[p] # <<>> /\ ~ d[p].blocked
      /\ d' = [d EXCEPT ![p] = IF o.op = "connect" THEN Sess_connect(@, o) ELSE Sess_read(@, o)]
      /\ rest' = [rest EXCEPT !.ops[p] = Tail(@)]
      /\ UNCHANGED <<view, seqs, pos, early, pend, up>>

Next ==
  \/ \E p \in Proc : Send(p) \/ Deliver(p) \/ Deliver_early(p) \/ Install(p) \/ Client(p)
  \/ Change \/ Crash \/ Restart

Spec == Init /\ [][Next]_vars

\* Nobody has anything to do.
Quiet ==
  /\ rest.faults = <<>>
  /\ \A p \in up : /\ Queue(d[p]) = <<>> /\ pend[p] = NoPend
                   /\ pos[p] = Len(seqs[view[p].mid])
                   /\ rest.ops[p] = <<>> \/ d[p].blocked

\* Steps are taken as long as there are any (WF_vars(Next), with the condition
\* under which Next is enabled written out).
FairSpec == Spec /\ ([]<>Quiet \/ []<><<Next>>_vars)

-----------------------------------------------------------------------------
(* Properties                                                              *)

\* While the daemon gathers, and only then, clients are not served, the control
\* queue is the one in use and nothing overtakes: the four are set and reset at
\* different places, and a path that misses one loses or mixes up messages.
TypeOK ==
  \A p \in up :
    /\ d[p].gstate \in {"GOP", "GGATHER"}       \* GTRANS and GGT last for an event
    /\ In_gather(d[p]) <=> d[p].blocked
    /\ In_gather(d[p]) <=> d[p].queue = "GROUPS"
    /\ In_gather(d[p]) <=> d[p].thr = AGREED_TYPE
    /\ ~ In_gather(d[p]) => d[p].gath = <<>> /\ d[p].num = 0 /\ d[p].control = <<>>
    /\ p \in d[p].sset

\* No daemon stops itself, whatever membership changes cut an exchange short,
\* whoever is killed or comes back under the same name in the meantime; and what
\* the states of the group algorithm switch on and off stays in step (TypeOK).
NeverFatal == TypeOK /\ \A p \in up : ~ d[p].fatal

\* what the daemons must agree on: the members with their daemons and the id
Shared(st) == [g \in DOMAIN st.grps |->
                 [id |-> st.grps[g].id, dm |-> st.grps[g].dm, changed |-> st.grps[g].changed]]
Same_place(p, q) ==
  /\ view[p] = view[q] /\ pos[p] = pos[q] /\ early[p] = {} /\ early[q] = {}
  /\ pend[p] = NoPend /\ pend[q] = NoPend
  /\ d[p].gstate = "GOP" /\ d[q].gstate = "GOP" /\ d[p].rmemb = view[p].memb

\* Two daemons that have delivered the same messages of the same membership
\* have the same groups with the same members under the same ids, and the
\* synced set is that membership.
GroupsAgree ==
  \A p, q \in up : Same_place(p, q) =>
    Shared(d[p]) = Shared(d[q]) /\ d[p].sset = view[p].memb

\* the membership messages a client got for a group, by their place in its log
Clients == {<<n, p>> : n \in UNION {DOMAIN d[p].sess : p \in up}, p \in up}
Log(c) == IF c[1] \in DOMAIN d[c[2]].sess THEN d[c[2]].sess[c[1]].log ELSE <<>>
Membs(c) == {k \in DOMAIN Log(c) : Log(c)[k].kind = "memb"}

\* Two copies of a membership message: same group, same id.
Copies(c, i, e, j) == Log(c)[i].group = Log(e)[j].group /\ Log(c)[i].id = Log(e)[j].id

\* A group id that is told with a change of the network stands for one set of
\* members, for whoever gets to see it, and the receiver is one of them.
NetworkIdsAreUnique ==
  \A c, e \in Clients : \A i \in Membs(c), j \in Membs(e) :
    /\ c \in Log(c)[i].mem
    /\ Copies(c, i, e, j) /\ Log(c)[i].caused = "network" /\ Log(e)[j].caused = "network" =>
         Log(c)[i].mem = Log(e)[j].mem

\* from the last membership message before place i of the log, and the messages
\* since
Before(c, g, i) == {k \in Membs(c) : k < i /\ Log(c)[k].group = g}
From(c, g, i) == Log(c)[Max(Before(c, g, i))].id
Got(c, g, i) ==
  {Log(c)[k].id : k \in {x \in Max(Before(c, g, i)) .. i : Log(c)[x].kind = "msg"}}

\* Virtual synchrony as the clients see it: members that a network change lists
\* in the receiver's own set came with it from the same membership of the group
\* and have had the same messages in it.
ClientsSynchronous ==
  \A c, e \in Clients : \A i \in Membs(c), j \in Membs(e) :
    LET m == Log(c)[i]  n == Log(e)[j]
    IN  /\ m.caused = "network" /\ n.caused = "network" /\ m.group = n.group /\ m.id = n.id
        /\ e \in m.mine
        /\ Before(c, m.group, i) # {}
        => /\ Before(e, m.group, j) # {}
           /\ From(c, m.group, i) = From(e, m.group, j)
           /\ Got(c, m.group, i) = Got(e, m.group, j)

\* When the network has been quiet for long enough every exchange is over, what
\* clients asked for has been done, and the groups list exactly the sessions
\* that joined: those that were killed are gone.
Settled ==
  \A p \in up :
    /\ d[p].gstate = "GOP" /\ d[p].normal = <<>> /\ d[p].control = <<>> /\ rest.ops[p] = <<>>
    /\ \A n \in DOMAIN d[p].sess : d[p].sess[n].op
    /\ \A g \in DOMAIN d[p].grps : \A who \in Members(d[p].grps[g]) :
         /\ who[2] \in view[p].memb
         /\ who[2] \in up => who[1] \in DOMAIN d[who[2]].sess
EverythingSettles == <>[]Settled
=============================================================================
