------------------------------ MODULE Library ------------------------------
(***************************************************************************)
(* The libraries below the daemon and the client library, each driven by   *)
(* callers that may do anything the libraries allow in any order: the      *)
(* containers of stdutil, positions in scattered messages, the objects and *)
(* the event loop.  One behaviour exercises one of them (kind): box is its *)
(* concrete state, model what its callers believe they have, and good says *)
(* whether every call so far returned what that belief lets them expect.   *)
(* An allocation may fail in any call (nomem).                             *)
(***************************************************************************)
EXTENDS Arrays, LinkedLists, HashTable, Scatter, Memory, Events, Bags

CONSTANTS Kinds,        \* the libraries that are exercised
          Values,       \* what the containers hold
          Inserts,      \* the sequences of values inserted by one call
          MaxSize,      \* bound on the size of a container
          Capacities,   \* the capacities asked for
          OptionSets,   \* the options containers are made with
          Keys,         \* keys of the skip list and of the hash table
          PairsIn,      \* the pairs of keys and values put in each of them
          MaxPairs,     \* bound on their sizes
          Heights,      \* heights a new node of the skip list gets
          Layouts,      \* lengths of the elements of the scattered messages
          MaxRefs,      \* bound on a reference count
          EventKinds,   \* the programs that use the event loop
          Ids,          \* the identities of the timed events of each
          Deltas,       \* how far ahead they are queued
          Fds,          \* its descriptors, with the priorities they are attached at
          EndOfTime     \* bound on the clock

ASSUME CallersAssumption ==
    /\ Inserts \subseteq Seq(Values) /\ Capacities \subseteq Nat
    /\ EventKinds \cap {"arr", "carr", "dll", "skl", "hash", "scat", "mem"} = {}

VARIABLES kind, box, model, good

vars == <<kind, box, model, good>>

-----------------------------------------------------------------------------
(* Sequences: stdarr, stdcarr and stddll.                                  *)

Sequences_kinds == {"arr", "carr", "dll"}

\* a position no value is in holds nothing that is told apart
Scrubbed(c) ==
    LET used == {Forward(c, c.begin, i) : i \in 0 .. c.size - 1}
    IN  [c EXCEPT !.mem = [i \in DOMAIN @ |-> IF i \in used THEN @[i] ELSE Junk]]

\* the calls for any of the three, by the rank of the iterator
Insert(i, vals, nomem) ==
    CASE kind = "arr" -> Arr_insert(box, i, vals, nomem)
      [] kind = "carr" -> Carr_insert(box, Carr_get(box, i), vals, nomem)
      [] kind = "dll" -> LET r == Dll_insert(box, Dll_get(box, i), vals, nomem)
                         IN  Result(r.l, r.it, r.ret)

Erase_n(i, n, nomem) ==
    CASE kind = "arr" -> Arr_remove_space(box, i, n, nomem)
      [] kind = "carr" -> Carr_erase_n(box, Carr_get(box, i), n, nomem)
      [] kind = "dll" -> LET r == Dll_erase_n(box, Dll_get(box, i), n)
                         IN  Result(r.l, r.it, r.ret)

Push_back(vals, nomem) ==
    CASE kind = "arr" -> Arr_push_back(box, vals, nomem)
      [] kind = "carr" -> Carr_push_back(box, vals, nomem)
      [] kind = "dll" -> LET r == Dll_push_back(box, vals, nomem) IN Result(r.l, r.it, r.ret)

Push_front(vals, nomem) ==
    CASE kind = "carr" -> Carr_push_front(box, vals, nomem)
      [] kind = "dll" -> LET r == Dll_push_front(box, vals, nomem) IN Result(r.l, r.it, r.ret)

Pop_front_n(n, nomem) ==
    CASE kind = "carr" -> Carr_pop_front_n(box, n, nomem)
      [] kind = "dll" -> LET r == Dll_pop_front_n(box, n) IN Result(r.l, r.it, r.ret)

Truncate(n, nomem) ==
    CASE kind = "arr" -> Arr_resize(box, n, nomem)
      [] kind = "carr" -> Carr_resize(box, n, nomem)
      [] kind = "dll" -> LET r == Dll_resize(box, n) IN Result(r.l, r.it, r.ret)

Pop_back_n(n, nomem) ==
    CASE kind = "arr" -> Arr_pop_back_n(box, n, nomem)
      [] kind = "carr" -> Carr_pop_back_n(box, n, nomem)
      [] kind = "dll" -> LET r == Dll_pop_back_n(box, n) IN Result(r.l, r.it, r.ret)

Contents(c) ==
    CASE kind = "arr" -> Arr_contents(c)
      [] kind = "carr" -> Carr_contents(c)
      [] kind = "dll" -> Dll_contents(c)

\* stdarr_get, stdcarr_get and stddll_get
Get(c, i) ==
    CASE kind = "arr" -> i
      [] kind = "carr" -> Carr_get(c, i)
      [] kind = "dll" -> Dll_get(c, i)

\* the caller gets its error or the change it asked for, and an iterator to rank i
Changes(r, i, to) ==
    /\ box' = IF kind = "dll" THEN r.c ELSE Scrubbed(r.c)
    /\ model' = IF r.ret = "success" THEN to ELSE model
    /\ good' = (good /\ (r.ret = "success" => r.it = Get(r.c, i)))
    /\ UNCHANGED kind

\* a call that returns no iterator
NoIterator(r, i) == [r EXCEPT !.it = Get(r.c, i)]

SeqInsert == kind \in Sequences_kinds /\ \E i \in 0 .. Len(model), vals \in Inserts, nomem \in BOOLEAN :
    /\ Len(model) + Len(vals) <= MaxSize
    /\ Changes(Insert(i, vals, nomem), i,
               SubSeq(model, 1, i) \o vals \o SubSeq(model, i + 1, Len(model)))

\* stdcarr_erase_n leaves the iterator behind when it shifts left: a caller has to
\* look its place up again
SeqErase == kind \in Sequences_kinds /\ \E i \in 0 .. Len(model), n \in 0 .. Len(model), nomem \in BOOLEAN :
    /\ i + n <= Len(model)
    /\ Changes(IF kind = "carr" THEN NoIterator(Erase_n(i, n, nomem), i) ELSE Erase_n(i, n, nomem), i,
               SubSeq(model, 1, i) \o SubSeq(model, i + n + 1, Len(model)))

SeqPopBack == kind \in Sequences_kinds /\ \E n \in 0 .. Len(model), nomem \in BOOLEAN :
    /\ Changes(NoIterator(Pop_back_n(n, nomem), 0), 0, SubSeq(model, 1, Len(model) - n))

SeqPopFront == kind \in {"carr", "dll"} /\ \E n \in 0 .. Len(model), nomem \in BOOLEAN :
    /\ Changes(NoIterator(Pop_front_n(n, nomem), 0), 0, SubSeq(model, n + 1, Len(model)))

SeqPush == kind \in Sequences_kinds /\ \E vals \in Inserts, nomem \in BOOLEAN :
    /\ Len(model) + Len(vals) <= MaxSize
    /\ \/ Changes(NoIterator(Push_back(vals, nomem), 0), 0, model \o vals)
       \/ kind # "arr" /\ Changes(NoIterator(Push_front(vals, nomem), 0), 0, vals \o model)

SeqTruncate == kind \in Sequences_kinds /\ \E n \in 0 .. Len(model), nomem \in BOOLEAN :
    /\ Changes(NoIterator(Truncate(n, nomem), 0), 0, SubSeq(model, 1, n))

\* a caller that resizes to a larger size then stores the values it made room for
ArrResize == \E vals \in Inserts, nomem \in BOOLEAN :
    LET n == Len(model) + Len(vals)
        r == IF kind = "arr" THEN Arr_resize(box, n, nomem) ELSE Carr_resize(box, n, nomem)
        at == Get(r.c, Len(model))
    IN  /\ kind \in {"arr", "carr"} /\ n <= MaxSize
        /\ Changes(IF r.ret = "success" /\ vals # <<>>
                   THEN Result(Store(r.c, at, vals), at, r.ret) ELSE NoIterator(r, Len(model)),
                   Len(model), model \o vals)

ArrSetCapacity == \E n \in Capacities, nomem \in BOOLEAN :
    /\ kind \in {"arr", "carr"}
    /\ Changes(NoIterator(IF kind = "arr" THEN Arr_set_capacity(box, n, nomem)
                          ELSE Carr_set_capacity(box, n, nomem), 0), 0, SubSeq(model, 1, Min({n, Len(model)})))

ArrSetEq == \E vals \in Inserts, nomem \in BOOLEAN :
    LET r == IF kind = "arr" THEN Arr_set_eq(box, vals, nomem) ELSE Carr_set_eq(box, vals, nomem)
    IN  /\ kind \in {"arr", "carr"}
        /\ Changes(NoIterator(r, 0), 0, vals)

-----------------------------------------------------------------------------
(* Pairs: stdskl and stdhash.                                              *)

Pairs == PairsIn[kind]

\* the pairs a container holds, how often each
Held(c) ==
    LET at(x) == IF kind = "skl" THEN {n \in DOMAIN c.key : <<c.key[n], c.val[n]>> = x}
                 ELSE {i \in Active(c) : <<c.table[i].k, c.table[i].v>> = x}
    IN  [x \in {y \in Pairs : at(y) # {}} |-> Cardinality(at(x))]

\* the pair an iterator is at, None at the end
PairAt(c, it) ==
    CASE kind = "skl" -> IF it = c.end THEN None ELSE <<c.key[it], c.val[it]>>
      [] kind = "hash" -> IF it = c.cap THEN None ELSE <<c.table[it].k, c.table[it].v>>

Iterators(c) == IF kind = "skl" THEN DOMAIN c.key ELSE Active(c)

Find(c, key) == IF kind = "skl" THEN Skl_find(c, key) ELSE Hash_find(c, key)

\* what an inactive node of a hash table holds is not told apart
Buried(h) == [h EXCEPT !.table = [i \in DOMAIN @ |->
                IF ~Empty(h, i) /\ Inactive(h, i) THEN [h |-> 0, k |-> None, v |-> None] ELSE @[i]]]

PairChange(c, to, ret, right) ==
    /\ box' = IF kind = "hash" THEN Buried(c) ELSE c
    /\ model' = IF ret = "success" THEN to ELSE model
    /\ good' = (good /\ right)
    /\ UNCHANGED kind

\* stdskl_insert and stdskl_put, with a hint or not; put replaces the value of the
\* pair it finds, or adds one
SklInsert == kind = "skl" /\ \E x \in Pairs, put \in BOOLEAN, h \in Heights, nomem \in BOOLEAN,
                hint \in {[given |-> FALSE, at |-> 0]} \cup
                         {[given |-> TRUE, at |-> n] : n \in DOMAIN box.height} :
    LET r == Skl_insert(box, x[1], x[2], hint, put, h, nomem)
        old == PairAt(box, Skl_position(box, x[1], hint))
        replaced == IF put /\ old # None /\ old[1] = x[1] THEN SetToBag({old}) ELSE EmptyBag
    IN  /\ box.size < MaxPairs
        /\ PairChange(r.l, (model (-) replaced) (+) SetToBag({x}), r.ret,
                      r.ret = "success" => PairAt(r.l, r.it) = x)

HashInsert == kind = "hash" /\ \E x \in Pairs, put \in BOOLEAN, nomem \in BOOLEAN :
    LET r == Low_insert(box, x[1], x[2], put, nomem)
        full == box.nodes >= High_thresh(box) /\ "no_grow" \notin box.opts
        grown == IF full THEN Low_rehash(box, box.size + 1, nomem).h ELSE box
        old == PairAt(grown, Hash_find(grown, x[1]))
        replaced == IF put /\ old # None THEN SetToBag({old}) ELSE EmptyBag
    IN  /\ box.size < MaxPairs
        /\ PairChange(r.h, (model (-) replaced) (+) SetToBag({x}), r.ret,
                      r.ret = "success" => PairAt(r.h, r.it) = x)

\* the iterator is at the pair that followed, in a hash table that shrank at the
\* first one
SklErase == kind = "skl" /\ \E from \in DOMAIN box.key, n \in 0 .. box.size :
    LET level == Skl_level(box, 0)
        place == CHOOSE i \in DOMAIN level : level[i] = from
        r == Skl_erase_n(box, from, n)
        gone == SubSeq(level, place, place + n - 1)
    IN  /\ place + n - 1 <= box.size
        /\ PairChange(r.l, FoldLeft(LAMBDA b, y : b (-) SetToBag({PairAt(box, y)}), model, gone),
                      "success", r.it = IF place + n > box.size THEN box.end ELSE level[place + n])

HashErase == kind = "hash" /\ \E at \in Active(box), nomem \in BOOLEAN :
    LET r == Hash_erase(box, at, nomem)
        next == Low_next(box, at)
    IN  PairChange(r.h, model (-) SetToBag({PairAt(box, at)}), "success",
                   PairAt(r.h, r.it) = PairAt(box, next) \/ r.it = r.h.begin)

PairEraseKey == \E key \in Keys, nomem \in BOOLEAN :
    /\ kind \in {"skl", "hash"}
    /\ PairChange(IF kind = "skl" THEN Skl_erase_key(box, key).l
                  ELSE Hash_erase_key(box, key, nomem).h,
                  [x \in {y \in DOMAIN model : y[1] # key} |-> model[x]], "success", TRUE)

PairClear == \E nomem \in BOOLEAN :
    /\ kind \in {"skl", "hash"}
    /\ PairChange(IF kind = "skl" THEN Skl_clear(box) ELSE Hash_clear(box, nomem),
                  EmptyBag, "success", TRUE)

HashReserve == \E n \in Capacities, nomem \in BOOLEAN :
    /\ kind = "hash"
    /\ \/ n >= box.size /\ PairChange(Hash_reserve(box, n, nomem).h, model, "success", TRUE)
       \/ PairChange(Hash_rehash(box, nomem).h, model, "success", TRUE)

-----------------------------------------------------------------------------
(* Positions in two scattered messages, a copy between them.               *)

Flat(s) == FlattenSeq(s)

Offset(s, p) == Bytes(s, 0, p.e - 1) + p.b

\* the elements of a layout, filled with the bytes of f
Filled(layout, f(_)) ==
    LET before(e) == FoldLeft(+, 0, SubSeq(layout, 1, e - 1))
    IN  [e \in DOMAIN layout |-> [b \in 1 .. layout[e] |-> f(before(e) + b)]]

ScatJump == \E n \in 0 .. MaxSize, back \in BOOLEAN :
    LET to == IF back THEN model.d - n ELSE model.d + n
        r  == IF back THEN Scatp_jbackward(box.dst, box.d, n) ELSE Scatp_jforward(box.dst, box.d, n)
        fits == 0 <= to /\ to <= Len(model.flat)
    IN  /\ kind = "scat"
        /\ box' = [box EXCEPT !.d = r.pos]
        /\ model' = [model EXCEPT !.d = IF fits THEN to ELSE @]
        /\ good' = (good /\ r.ret = IF fits THEN n ELSE IF back THEN model.d
                                    ELSE Len(model.flat) - model.d)
        /\ UNCHANGED kind

ScatSeek == \E n \in -MaxSize .. MaxSize, whence \in {"set", "cur", "end"} :
    LET from == CASE whence = "set" -> 0
                  [] whence = "cur" -> model.s
                  [] whence = "end" -> Scat_capacity(box.src)
        r == Scatp_seek(box.src, box.s, n, whence)
        fits == from + n \in 0 .. Scat_capacity(box.src)
    IN  /\ kind = "scat"
        /\ box' = [box EXCEPT !.s = r.pos]
        /\ model' = [model EXCEPT !.s = IF fits THEN from + n ELSE @]
        /\ good' = (good /\ r.ret = IF fits THEN 0 ELSE -1)
        /\ UNCHANGED kind

ScatCopy == \E n \in 1 .. MaxSize, adv_dst \in BOOLEAN, adv_src \in BOOLEAN :
    LET r == Scatp_adv_cpy0(box.dst, box.d, box.src, box.s, n, adv_dst, adv_src)
        m == Min({n, Len(model.flat) - model.d, Scat_capacity(box.src) - model.s})
        at(i) == i - model.d
    IN  /\ kind = "scat"
        /\ box' = [box EXCEPT !.dst = r.dst, !.d = r.d, !.s = r.s]
        /\ model' = [flat |-> [i \in DOMAIN model.flat |->
                                 IF at(i) \in 1 .. m THEN Flat(box.src)[model.s + at(i)]
                                 ELSE model.flat[i]],
                     d |-> IF adv_dst /\ m = n THEN model.d + n ELSE model.d,
                     s |-> IF adv_src /\ m = n THEN model.s + n ELSE model.s]
        /\ good' = (good /\ r.ret = m)
        /\ UNCHANGED kind

-----------------------------------------------------------------------------
(* Objects: model says who holds which, of which type, how often and what  *)
(* was written to it.                                                      *)

Fresh(m) == {None} \cup (Objects \ Allocated(m))

Holds(o, x) == [p \in DOMAIN model \cup {o} |-> IF p = o THEN x ELSE model[p]]

Releases(o) == [p \in DOMAIN model \ {o} |-> model[p]]

\* nobody is given an object that somebody has
MemNew == kind = "mem" /\ \E t \in AllTypes, counted \in BOOLEAN, o \in Fresh(box), word \in Values :
    LET r == IF counted THEN Mem_new_ref_cnt(box, t, o) ELSE Mem_new(box, t, o)
    IN  /\ box' = IF r.obj = None THEN r.m ELSE Mem_write(r.m, r.obj, word)
        /\ model' = IF r.obj = None THEN model
                    ELSE Holds(r.obj, [type |-> t, refs |-> IF counted THEN 1 ELSE 0, word |-> word])
        /\ good' = (good /\ r.obj \notin DOMAIN model)
        /\ UNCHANGED kind

MemCopy == kind = "mem" /\ \E o \in DOMAIN model, f \in Fresh(box) :
    LET r == Mem_copy(box, o, f)
    IN  /\ box' = r.m
        /\ model' = IF r.obj = None THEN model ELSE Holds(r.obj, [model[o] EXCEPT !.refs = 0])
        /\ good' = (good /\ r.obj \notin DOMAIN model)
        /\ UNCHANGED kind

\* dispose of an object without references, or of one of the references
MemRelease == kind = "mem" /\ \E o \in DOMAIN model :
    /\ box' = IF model[o].refs = 0 THEN Mem_dispose(box, o) ELSE Dec_ref_cnt(box, o)
    /\ model' = IF model[o].refs <= 1 THEN Releases(o)
                ELSE [model EXCEPT ![o].refs = @ - 1]
    /\ UNCHANGED <<kind, good>>

MemShare == kind = "mem" /\ \E o \in DOMAIN model :
    /\ model[o].refs \in 1 .. MaxRefs - 1
    /\ box' = Inc_ref_cnt(box, o)
    /\ model' = [model EXCEPT ![o].refs = @ + 1]
    /\ UNCHANGED <<kind, good>>

-----------------------------------------------------------------------------
(* The event loop: model is the timed events in the order they were asked  *)
(* for.  A handler makes one call at most.                                 *)

Total(t) == t.sec * Usec + t.usec

\* what a handler does to the events e it was called with, m being those asked for
Handler(e, m) ==
    \/ box' = e /\ model' = m
    \/ \E id \in Ids[kind], d \in Deltas :
         /\ box' = E_queue(e, id, d)
         /\ model' = Append(SelectSeq(m, LAMBDA x : x.id # id),
                            [id |-> id, t |-> Total(e.now) + Total(d)])
    \/ \E id \in Ids[kind] : /\ E_in_queue(e, id)
                       /\ box' = E_dequeue(e, id)
                       /\ model' = SelectSeq(m, LAMBDA x : x.id # id)
    \/ \E fp \in Fds[kind] : ~Attached(e, fp[1]) /\ box' = E_attach_fd(e, fp[1], fp[2]) /\ model' = m
    \/ \E fp \in Fds[kind] : /\ Attached(e, fp[1]) /\ model' = m
                       /\ \/ box' = E_detach_fd(e, fp[1])
                          \/ box' = E_deactivate_fd(e, fp[1])
                          \/ box' = E_activate_fd(e, fp[1])
    \/ \E p \in Priorities : box' = E_set_active_threshold(e, p) /\ model' = m
    \/ box' = E_exit_events(e) /\ model' = m

\* the clock, which is read again before each use of it
Tick ==
    /\ kind \in EventKinds /\ box.now # EndOfTime[kind]
    /\ box' = [box EXCEPT !.now = E_add_time(@, Time(0, 1))]
    /\ UNCHANGED <<kind, model, good>>

\* before the loop and after it the program registers what it likes
Register == kind \in EventKinds /\ box.pc = "out" /\ Handler(box, model) /\ UNCHANGED <<kind, good>>

Start == kind \in EventKinds /\ box.pc = "out" /\ box' = E_handle_events(box) /\ UNCHANGED <<kind, model, good>>

\* the handler called is that of the event asked for first among the earliest, and
\* not before its time
TimeEvent ==
    /\ kind \in EventKinds /\ Time_due(box)
    /\ LET x == box.tq[1]
       IN  /\ Handler(Take_time_event(box), SelectSeq(model, LAMBDA y : y.id # x.id))
           /\ good' = (good /\ \E k \in DOMAIN model :
                          /\ model[k] = [id |-> x.id, t |-> Total(x.t)]
                          /\ model[k].t <= Total(box.now)
                          /\ \A l \in DOMAIN model : model[k].t <= model[l].t
                          /\ \A l \in 1 .. k - 1 : model[l].t # model[k].t)
    /\ UNCHANGED kind

\* select, called to poll and then to wait
Select ==
    /\ kind \in EventKinds /\ box.pc = "time" /\ ~Time_due(box)
    /\ LET timeout == Timeout(box, Time(EndOfTime[kind].sec + 1, 0))
           failed == timeout.usec < 0
           until == E_add_time(box.now, timeout)
       IN  \/ \E ready \in SUBSET box.mask : ready # {} /\ box' = Selected(box, ready, FALSE)
           \/ failed /\ box' = Selected(box, {}, TRUE)
           \/ /\ ~failed /\ ~Earlier(EndOfTime[kind], until)
              /\ box' = Selected([box EXCEPT !.now = until], {}, FALSE)
    /\ UNCHANGED <<kind, model, good>>

HighEvent ==
    /\ kind \in EventKinds /\ High_due(box)
    /\ Handler(Take_high(box), model)
    /\ UNCHANGED <<kind, good>>

HighEnd ==
    /\ kind \in EventKinds /\ box.pc = "high" /\ ~High_due(box)
    /\ box' = End_of_priority(box)
    /\ UNCHANGED <<kind, model, good>>

LowEvent ==
    /\ kind \in EventKinds /\ Low_due(box)
    /\ Handler(Take_low(box), model)
    /\ UNCHANGED <<kind, good>>

LowEnd ==
    /\ kind \in EventKinds /\ box.pc = "low" /\ ~Low_due(box)
    /\ box' = End_of_round(box)
    /\ UNCHANGED <<kind, model, good>>

-----------------------------------------------------------------------------

Init ==
    /\ good = TRUE
    /\ kind \in Kinds
    /\ \/ /\ kind \in {"arr", "carr"} /\ model = <<>>
          /\ \E opts \in OptionSets : box = Construct_array(opts)
       \/ kind = "dll" /\ box = Dll_construct /\ model = <<>>
       \/ kind = "skl" /\ box = Skl_construct /\ model = EmptyBag
       \/ /\ kind = "hash" /\ model = EmptyBag
          /\ \E opts \in OptionSets : box = Hash_construct(opts)
       \/ /\ kind = "scat"
          /\ \E l1 \in Layouts, l2 \in Layouts :
               LET dst == Filled(l1, LAMBDA i : 0)
                   src == Filled(l2, LAMBDA i : i)
               IN  /\ box = [dst |-> dst, d |-> Scatp_begin(dst), src |-> src, s |-> Scatp_begin(src)]
                   /\ model = [flat |-> Flat(dst), d |-> 0, s |-> 0]
       \/ kind = "mem" /\ box = Mem_init /\ model = [o \in {} |-> None]
       \/ kind \in EventKinds /\ box = E_init(Time(0, 0)) /\ model = <<>>

Next ==
    \/ SeqInsert \/ SeqErase \/ SeqPopBack \/ SeqPopFront
    \/ SeqPush \/ SeqTruncate
    \/ ArrResize \/ ArrSetCapacity \/ ArrSetEq
    \/ SklInsert \/ HashInsert \/ SklErase \/ HashErase
    \/ PairEraseKey \/ PairClear \/ HashReserve
    \/ ScatJump \/ ScatSeek \/ ScatCopy
    \/ MemNew \/ MemCopy \/ MemRelease \/ MemShare
    \/ Tick \/ Register \/ Start \/ TimeEvent \/ Select
    \/ HighEvent \/ HighEnd \/ LowEvent \/ LowEnd

Spec == Init /\ [][Next]_vars

-----------------------------------------------------------------------------
(* What the callers rely on.                                               *)

\* Whatever was called before, and whichever allocations failed, a container holds
\* exactly what its callers put there and did not take out, in the order of a
\* sequence; no move of memory left the block or copied between overlapping parts
\* (the wrap-around shifts of stdcarr); a search ends; the bytes copied between
\* scattered messages and the positions are those of the flat messages; and an
\* object is held by its owners, with their contents, or lies once in the pool of
\* its type, which never exceeds the threshold.  Every call returned what was right.
ContentsExact ==
    /\ kind \notin EventKinds => good
    /\ kind \in Sequences_kinds => Contents(box) = model
    /\ kind = "arr" => Arr_is_legal(box) /\ box.ok
    /\ kind = "carr" => Carr_is_legal(box) /\ box.ok
    /\ kind \in {"skl", "hash"} => Held(box) = model /\ box.size = BagCardinality(model)
    /\ kind = "hash" => Hash_is_legal(box) /\ box.ok
    /\ kind = "scat" =>
         /\ Flat(box.dst) = model.flat
         /\ Scatp_is_legal(box.dst, box.d) /\ Offset(box.dst, box.d) = model.d
         /\ Scatp_is_legal(box.src, box.s) /\ Offset(box.src, box.s) = model.s
    /\ kind = "mem" =>
         /\ box.ok
         /\ \A o \in DOMAIN model :
              /\ o \in Allocated(box) /\ box.type[o] = model[o].type
              /\ box.next[o] = model[o].word
              /\ box.refs[o] = IF model[o].refs = 0 THEN NO_REF_CNT ELSE model[o].refs
         /\ \A t \in AllTypes :
              /\ box.inpool[t] <= Threshold[t]
              /\ IsInjective(Pool(box, t))
              /\ Range(Pool(box, t)) = {o \in Allocated(box) \ DOMAIN model : box.type[o] = t}

\* the pairs with a key that stdhash_find and then stdhash_keyed_next reach
Chain(h, key) ==
    LET n == Cardinality(Active(h))
        on[i \in 0 .. n] ==
            IF i = 0 THEN Hash_find(h, key)
            ELSE IF on[i - 1] \in Active(h) THEN Keyed_next(h, on[i - 1]) ELSE on[i - 1]
    IN  on

\* stdit_advance, stdit_retreat and stdit_distance, by the kind of the iterator; the
\* iterator of rank i of the container
It_advance(c, it, n) ==
    CASE kind = "arr" -> Arr_it_advance(it, n)
      [] kind = "carr" -> Carr_it_advance(c, it, n)
      [] kind = "dll" -> Dll_it_advance(c, it, n)
      [] kind = "skl" -> Skl_it_advance(c, it, n)
      [] kind = "hash" -> Hash_it_advance(c, it, n)

It_retreat(c, it, n) ==
    CASE kind = "arr" -> Arr_it_retreat(it, n)
      [] kind = "carr" -> Carr_it_retreat(c, it, n)
      [] kind = "dll" -> Dll_it_retreat(c, it, n)
      [] kind = "skl" -> Skl_it_retreat(c, it, n)
      [] kind = "hash" -> Hash_it_retreat(c, it, n)

It_distance(c, b, e) ==
    CASE kind = "arr" -> Arr_it_cmp(e, b)
      [] kind = "carr" -> Carr_it_cmp(c, e, b)
      [] kind \notin {"arr", "carr"} -> Min({n \in 0 .. c.size : It_advance(c, b, n) = e})

Ranked(c, i) ==
    CASE kind = "skl" -> Skl_get(c, i)
      [] kind = "hash" -> Hash_get(c, i)
      [] kind \in Sequences_kinds -> Get(c, i)

\* Lookups find what is there: in any container iterators move between two ranks,
\* either way, in as many steps as stdit_distance says; in a sequence the n-th value, from either end; in a
\* hash table the pairs with a key, each once, past the erased ones, forwards and
\* backwards, and the end after them; in a skip list the bounds of a key, on lists
\* that are sorted and linked both ways on every level; in a scattered message the
\* distance of two positions.
LookupsExact ==
    /\ kind \in Sequences_kinds \cup {"skl", "hash"} => \A i \in 0 .. box.size : \A j \in i .. box.size :
         LET b == Ranked(box, i)
             e == Ranked(box, j)
         IN  box.size # 0 => /\ It_advance(box, b, j - i) = e
                             /\ It_retreat(box, e, j - i) = b
                             /\ It_distance(box, b, e) = j - i
    /\ kind = "arr" => \A i \in DOMAIN model : box.mem[Get(box, i - 1)] = model[i]
    /\ kind = "carr" => \A i \in DOMAIN model : /\ box.mem[Get(box, i - 1)] = model[i]
                                                /\ Carr_rank(box, Get(box, i - 1)) = i - 1
    /\ kind = "dll" => \A i \in DOMAIN model : box.val[Get(box, i - 1)] = model[i]
    /\ kind = "hash" => \A key \in Keys :
         LET chain == Chain(box, key)
             there == {i \in Active(box) : box.table[i].k = key}
             n == Cardinality(there)
         IN  box.cap # 0 =>
             /\ {chain[i] : i \in 0 .. n - 1} = there
             /\ chain[n] = box.cap
             /\ \A i \in 1 .. n - 1 : Keyed_prev(box, chain[i]) = chain[i - 1]
             /\ n # 0 => Keyed_prev(box, chain[0]) = box.cap
    /\ kind = "skl" =>
         /\ \A k \in 0 .. box.height[box.end] :
              LET level == Skl_level(box, k)
                  ring == <<box.end>> \o level \o <<box.end>>
              IN  /\ Range(level) = {n \in DOMAIN box.key : box.height[n] >= k}
                  /\ \A i \in 1 .. Len(level) - 1 : box.key[level[i]] <= box.key[level[i + 1]]
                  /\ \A i \in 1 .. Len(ring) - 1 : /\ box.nexts[ring[i]][k] = ring[i + 1]
                                                    /\ box.prevs[ring[i + 1]][k] = ring[i]
         /\ \A key \in Keys :
              LET level == Skl_level(box, 0)
                  first(P(_)) == LET at == {i \in DOMAIN level : P(box.key[level[i]])}
                                 IN  IF at = {} THEN box.end ELSE level[Min(at)]
                  found == Skl_find(box, key)
              IN  /\ Skl_lowerb(box, key) = first(LAMBDA x : x >= key)
                  /\ Skl_upperb(box, key) = first(LAMBDA x : x > key)
                  /\ (found # box.end) = (\E n \in DOMAIN box.key : box.key[n] = key)
                  /\ found # box.end => box.key[found] = key
    /\ kind = "scat" =>
         \A p \in {Scatp_begin(box.dst), Scatp_end(box.dst), box.d} :
              /\ Scatp_comp(box.dst, p, box.d) = Offset(box.dst, p) - model.d
              /\ Scatp_comp(box.dst, box.d, p) = model.d - Offset(box.dst, p)

\* The queue of timed events is what was asked for and not taken back, one of each
\* identity, in the order of their times and, for equal times, of the requests; no
\* handler ran too early or out of turn, though handlers queue and dequeue events
\* while the loop runs; and select watches exactly the active descriptors of the
\* priorities the threshold admits, whatever handlers attached, detached, switched
\* off or on, or did to the threshold in the middle of a round.
EventsExact ==
    kind \in EventKinds =>
      /\ good
      /\ [k \in DOMAIN box.tq |-> [id |-> box.tq[k].id, t |-> Total(box.tq[k].t)]]
           = LET order(x, y) == model[x].t < model[y].t \/ (model[x].t = model[y].t /\ x < y)
                 sorted == SetToSortSeq(DOMAIN model, order)
             IN  [k \in DOMAIN sorted |-> model[sorted[k]]]
      /\ box.mask = Watched(box, box.thr)
      /\ \A p \in Priorities :
           box.nactive[p] = Cardinality({k \in DOMAIN box.fds[p] : box.fds[p][k].active})

=============================================================================
