----------------------------- MODULE LinkedLists -----------------------------
(***************************************************************************)
(* The linked containers of the stdutil library: the doubly linked list    *)
(* (stddll.c) and the skip list (stdskl.c), which holds pairs of a key and *)
(* a value in the order of the keys, several of them with equal keys if    *)
(* they were inserted and not put.  A node is a number; both kinds are     *)
(* circular, closed by an end node.  A node of height h of a skip list is  *)
(* on the levels 0 .. h, and links only to nodes of that level; the end    *)
(* node is as tall as the tallest.  Which height a new node gets is a      *)
(* random choice of the code, so the operations take it as an argument.    *)
(***************************************************************************)
EXTENDS Integers, Sequences, FiniteSetsExt, SequencesExt

CONSTANTS FirstHeight,   \* height of the end node of a new skip list
          MaxHeight      \* STDSKL_MAX_HEIGHT

ASSUME HeightAssumption == FirstHeight \in Nat /\ MaxHeight \in Nat

\* the n least numbers that name no node, as malloc might return them
Fresh_nodes(used, n) ==
    SubSeq(SetToSortSeq((0 .. Max(used) + n) \ used, <), 1, n)

-----------------------------------------------------------------------------
(* stddll: next, prev and val on the nodes, node 0 is the end node.        *)

Dll_construct == [next |-> [n \in {0} |-> 0], prev |-> [n \in {0} |-> 0],
                  val |-> [n \in {} |-> 0], size |-> 0]

Only(f, S) == [n \in S |-> f[n]]

\* stddll_low_insert of the chain that stddll_low_alloc_chain made: nothing
\* changes when one of the allocations fails
Dll_insert(l, at, vals, nomem) ==
    LET chain == Fresh_nodes(DOMAIN l.next, Len(vals))
        n     == Len(vals)
        before == l.prev[at]
        linked == <<before>> \o chain \o <<at>>
        nodes == DOMAIN l.next \cup Range(chain)
        pos(x) == CHOOSE i \in 1 .. n : chain[i] = x
    IN  IF n = 0 THEN [l |-> l, it |-> at, ret |-> "success"]
        ELSE IF nomem THEN [l |-> l, it |-> at, ret |-> "nomem"]
        ELSE [l |-> [next |-> [x \in nodes |-> IF x \in Range(chain) THEN linked[pos(x) + 2]
                                               ELSE IF x = before THEN chain[1] ELSE l.next[x]],
                     prev |-> [x \in nodes |-> IF x \in Range(chain) THEN linked[pos(x)]
                                               ELSE IF x = at THEN chain[n] ELSE l.prev[x]],
                     val  |-> [x \in nodes \ {0} |-> IF x \in Range(chain) THEN vals[pos(x)]
                                                     ELSE l.val[x]],
                     size |-> l.size + n],
              it |-> chain[1], ret |-> "success"]

\* the n nodes that follow a node of a circular list, in the direction of link
Dll_run(link, from, n) ==
    LET run[i \in 1 .. n] == IF i = 1 THEN from ELSE link[run[i - 1]]
    IN  [i \in 1 .. n |-> run[i]]

Dll_unlink(l, gone, before, after) ==
    LET nodes == DOMAIN l.next \ gone
    IN  [next |-> [Only(l.next, nodes) EXCEPT ![before] = after],
         prev |-> [Only(l.prev, nodes) EXCEPT ![after] = before],
         val  |-> Only(l.val, nodes \ {0}), size |-> l.size - Cardinality(gone)]

\* stddll_low_erase: n nodes from a node on; the iterator moves to the next one
Dll_erase_n(l, from, n) ==
    LET run == Dll_run(l.next, from, n)
        after == IF n = 0 THEN from ELSE l.next[Last(run)]
    IN  [l |-> Dll_unlink(l, Range(run), l.prev[from], after), it |-> after,
         ret |-> "success"]

\* stddll_low_rerase from the end: stddll_pop_back_n and a shrinking resize
Dll_pop_back_n(l, n) ==
    LET run == Dll_run(l.prev, l.prev[0], n)
        before == IF n = 0 THEN l.prev[0] ELSE l.prev[Last(run)]
    IN  [l |-> Dll_unlink(l, Range(run), before, 0), it |-> 0, ret |-> "success"]

Dll_it_advance(l, it, n) == Last(Dll_run(l.next, it, n + 1))

Dll_it_retreat(l, it, n) == Last(Dll_run(l.prev, it, n + 1))

Dll_push_front(l, vals, nomem) == Dll_insert(l, l.next[0], vals, nomem)

Dll_push_back(l, vals, nomem) == Dll_insert(l, 0, vals, nomem)

Dll_pop_front_n(l, n) == Dll_erase_n(l, l.next[0], n)

\* stddll_resize to no more than the size; a larger one reads through a null
\* pointer to an iterator, and no caller asks for it
Dll_resize(l, n) == IF n < l.size THEN Dll_pop_back_n(l, l.size - n)
                    ELSE [l |-> l, it |-> 0, ret |-> "success"]

Dll_contents(l) == [i \in 1 .. l.size |-> l.val[Dll_run(l.next, l.next[0], l.size)[i]]]

\* stddll_get: from the nearer end
Dll_get(l, n) ==
    IF n < l.size \div 2 THEN Dll_it_advance(l, l.next[0], n)
    ELSE Dll_it_retreat(l, 0, l.size - n)

-----------------------------------------------------------------------------
(* stdskl: height, nexts and prevs on the nodes, key and val on all but    *)
(* the end node, which is end.                                             *)

Skl_construct ==
    [height |-> [n \in {0} |-> FirstHeight], nexts |-> [n \in {0} |-> [k \in 0 .. FirstHeight |-> 0]],
     prevs |-> [n \in {0} |-> [k \in 0 .. FirstHeight |-> 0]],
     key |-> [n \in {} |-> 0], val |-> [n \in {} |-> 0], size |-> 0, end |-> 0]

\* stdskl_low_find_right: down the levels and right on each; any says that the
\* first match met will do, otherwise the leftmost one is wanted
Skl_find_right(l, key, any) ==
    LET less(n) == n # l.end /\ key > l.key[n]
        hit(n)  == n # l.end /\ key = l.key[n]
        right[n \in DOMAIN l.height] == IF less(n) THEN right[l.nexts[n][0]] ELSE n
        down[k \in 0 .. l.height[l.end], n \in DOMAIN l.height] ==
            IF k = 0 THEN right[l.nexts[n][0]]
            ELSE LET next == l.nexts[n][k]
                 IN  IF less(next) THEN down[k, next]
                     ELSE IF any /\ hit(next) THEN next
                     ELSE down[k - 1, n]
        pos == down[l.height[l.end], l.end]
    IN  [pos |-> pos, found |-> hit(pos)]

\* stdskl_low_find_left, as stdskl_upperb uses it: the rightmost match, or the
\* rightmost node with a lesser key
Skl_find_left(l, key) ==
    LET more(n) == n # l.end /\ key < l.key[n]
        left[n \in DOMAIN l.height] == IF more(n) THEN left[l.prevs[n][0]] ELSE n
        down[k \in 0 .. l.height[l.end], n \in DOMAIN l.height] ==
            IF k = 0 THEN left[l.prevs[n][0]]
            ELSE IF more(l.prevs[n][k]) THEN down[k, l.prevs[n][k]]
            ELSE down[k - 1, n]
    IN  down[l.height[l.end], l.end]

\* a node of height h before the node next: on each level the nearest nodes that
\* are tall enough (stdskl_low_link_left and stdskl_low_link_right)
Skl_climb(l, links, from, h) ==
    LET tall[k \in 0 .. h, n \in DOMAIN l.height] ==
            IF l.height[n] > k THEN n ELSE tall[k, links[n][k]]
        on[k \in 0 .. h] == IF k = 0 THEN from ELSE tall[k - 1, on[k - 1]]
    IN  on

Skl_link(l, next, node, h, key, val) ==
    LET lefts  == Skl_climb(l, l.prevs, l.prevs[next][0], h)
        rights == Skl_climb(l, l.nexts, next, h)
        nodes  == DOMAIN l.height \cup {node}
        added(f, x) == [n \in DOMAIN f \cup {node} |-> IF n = node THEN x ELSE f[n]]
    IN  [l EXCEPT !.height = added(@, h), !.key = added(@, key), !.val = added(@, val),
                  !.size = @ + 1,
                  !.nexts = [n \in nodes |-> IF n = node THEN rights
                      ELSE [k \in DOMAIN @[n] |-> IF k <= h /\ lefts[k] = n THEN node ELSE @[n][k]]],
                  !.prevs = [n \in nodes |-> IF n = node THEN lefts
                      ELSE [k \in DOMAIN @[n] |-> IF k <= h /\ rights[k] = n THEN node ELSE @[n][k]]]]

\* a taller end node takes the place of the old one, which is freed
Skl_new_end(l, new, h) ==
    LET top == Min({h + 1, MaxHeight})
        ren(n) == IF n = l.end THEN new ELSE n
        nodes == (DOMAIN l.height \ {l.end}) \cup {new}
        moved(links) == [n \in nodes |->
            IF n = new THEN [k \in 0 .. top |-> IF k <= l.height[l.end] THEN ren(links[l.end][k])
                                                ELSE new]
            ELSE [k \in DOMAIN links[n] |-> ren(links[n][k])]]
    IN  [l EXCEPT !.height = [n \in nodes |-> IF n = new THEN top ELSE @[n]],
                  !.nexts = moved(@), !.prevs = moved(@), !.end = new]

\* where a pair goes: at or just after the hint if that is right, else where a
\* search says
Skl_position(l, key, hint) ==
    LET right(n) == ~ \/ n # l.end /\ key > l.key[n]
                      \/ LET p == l.prevs[n][0] IN p # l.end /\ key < l.key[p]
        after == l.nexts[hint.at][0]
    IN  IF hint.given /\ right(hint.at) THEN hint.at
        ELSE IF hint.given /\ right(after) THEN after
        ELSE Skl_find_right(l, key, TRUE).pos

\* stdskl_low_insert of one pair
Skl_insert(l, key, val, hint, overwrite, h, nomem) ==
    LET next  == Skl_position(l, key, hint)
        fresh == Fresh_nodes(DOMAIN l.height, 2)
        taller == h > l.height[l.end]
        m     == IF taller THEN Skl_new_end(l, fresh[2], h) ELSE l
        at    == IF next = l.end THEN m.end ELSE next
    IN  IF overwrite /\ next # l.end /\ l.key[next] = key
        THEN [l |-> [l EXCEPT !.val[next] = val], it |-> next, ret |-> "success"]
        ELSE IF nomem THEN [l |-> l, it |-> l.end, ret |-> "nomem"]
        ELSE [l |-> Skl_link(m, at, fresh[1], h, key, val), it |-> fresh[1], ret |-> "success"]

\* stdskl_low_erase of the n nodes from a node on: the levels up to the tallest
\* erased node are stitched together again
Skl_erase_n(l, from, n) ==
    LET gone == Range(Dll_run([x \in DOMAIN l.height |-> l.nexts[x][0]], from, n))
        after == IF n = 0 THEN from
                 ELSE l.nexts[Last(Dll_run([x \in DOMAIN l.height |-> l.nexts[x][0]], from, n))][0]
        top  == Max({0} \cup {l.height[x] : x \in gone})
        lefts  == Skl_climb(l, l.prevs, l.prevs[from][0], top)
        rights == Skl_climb(l, l.nexts, after, top)
        nodes  == DOMAIN l.height \ gone
        kept(f) == [x \in DOMAIN f \ gone |-> f[x]]
    IN  [l |-> [l EXCEPT !.height = kept(@), !.key = kept(@), !.val = kept(@), !.size = @ - n,
                  !.nexts = [x \in nodes |-> [k \in DOMAIN @[x] |->
                      IF k <= top /\ lefts[k] = x THEN rights[k] ELSE @[x][k]]],
                  !.prevs = [x \in nodes |-> [k \in DOMAIN @[x] |->
                      IF k <= top /\ rights[k] = x THEN lefts[k] ELSE @[x][k]]]],
         it |-> after, ret |-> "success"]

\* stdskl_erase_key: every pair with the key, from the leftmost on
Skl_erase_key(l, key) ==
    LET first == Skl_find_right(l, key, FALSE)
        n == Cardinality({x \in DOMAIN l.key : l.key[x] = key})
    IN  Skl_erase_n(l, first.pos, IF first.found THEN n ELSE 0)

\* stdskl_find, stdskl_lowerb and stdskl_upperb
Skl_find(l, key) == LET r == Skl_find_right(l, key, TRUE) IN IF r.found THEN r.pos ELSE l.end

Skl_lowerb(l, key) == Skl_find_right(l, key, FALSE).pos

Skl_upperb(l, key) == l.nexts[Skl_find_left(l, key)][0]

Skl_it_advance(l, it, n) ==
    Last(Dll_run([x \in DOMAIN l.height |-> l.nexts[x][0]], it, n + 1))

Skl_it_retreat(l, it, n) ==
    Last(Dll_run([x \in DOMAIN l.height |-> l.prevs[x][0]], it, n + 1))

\* stdskl_get: from the nearer end
Skl_get(l, n) == IF n < l.size \div 2 THEN Skl_it_advance(l, l.nexts[l.end][0], n)
                 ELSE Skl_it_retreat(l, l.end, l.size - n)

Skl_clear(l) ==
    LET self == [k \in 0 .. l.height[l.end] |-> l.end]
    IN  [l EXCEPT !.height = Only(@, {l.end}), !.nexts = [n \in {l.end} |-> self],
                  !.prevs = [n \in {l.end} |-> self], !.key = [n \in {} |-> 0],
                  !.val = [n \in {} |-> 0], !.size = 0]

\* the nodes of a level, from left to right
Skl_level(l, k) ==
    LET on == {n \in DOMAIN l.key : l.height[n] >= k}
        run == Dll_run([x \in on \cup {l.end} |-> l.nexts[x][k]], l.nexts[l.end][k], Cardinality(on))
    IN  run

=============================================================================
