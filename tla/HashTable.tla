----------------------------- MODULE HashTable -----------------------------
(***************************************************************************)
(* The hash table of the stdutil library (stdhash.c), open addressing with *)
(* double hashing.  A pair that is erased leaves an inactive node behind   *)
(* (its hash code is set to 0), so that the probe sequences that pass over *)
(* it still reach what lies beyond; a rehash drops the inactive nodes.  A  *)
(* table is                                                                *)
(*                                                                         *)
(*   table  NoNode or a node [h, k, v], on the positions 0 .. cap - 1      *)
(*   cap    a power of two, or 0 when nothing was allocated yet            *)
(*   begin  the first position with an active node, cap if there is none   *)
(*   nodes  num_nodes: active and inactive nodes                           *)
(*   size   active nodes                                                   *)
(*   opts   the options NO_AUTO_GROW and NO_AUTO_SHRINK                    *)
(*   ok     FALSE once a search went round the whole table: the code would *)
(*          never return from it                                           *)
(***************************************************************************)
EXTENDS Integers, Sequences, FiniteSetsExt

CONSTANTS MIN_TABLE_ALLOC,   \* STDHASH_MIN_AUTO_ALLOC
          CodeBits,          \* width of a hash code
          Code(_),           \* the hash function of the keys
          NoNode             \* an empty position

ASSUME TableAssumption == MIN_TABLE_ALLOC \in Nat \ {0} /\ CodeBits \in Nat \ {0}

\* stdlg_up, on the powers of two that are used here
Lg(n) == CHOOSE i \in 0 .. CodeBits : 2^i = n

\* stdpow2_up and stdpow2_cap
Pow2_up(n) == Min({2^i : i \in {j \in 0 .. CodeBits : 2^j >= n}})

Pow2_cap(n) == IF Pow2_up(n) < n + (n \div 2) THEN 2 * Pow2_up(n) ELSE Pow2_up(n)

Hash_construct(opts) ==
    [table |-> [i \in {} |-> NoNode], cap |-> 0, begin |-> 0, nodes |-> 0, size |-> 0,
     opts |-> opts, ok |-> TRUE]

High_thresh(h) == h.cap \div 2

Low_thresh(h) == h.cap \div 8

Empty(h, i) == h.table[i] = NoNode

Inactive(h, i) == h.table[i].h = 0

Active(h) == {i \in DOMAIN h.table : ~Empty(h, i) /\ ~Inactive(h, i)}

\* stdhash_low_hcode: 0 is kept for the inactive nodes
Low_hcode(key) == IF Code(key) = 0 THEN 1 ELSE Code(key)

\* stdhash_low_hash: the probe sequence starts at the low bits of the code and
\* advances by its high bits, made odd
Probe(code, cap) ==
    LET h1 == code % cap
        high == code \div 2^(CodeBits - Lg(cap))
        h2 == IF high % 2 = 0 THEN high + 1 ELSE high
    IN  [i \in 0 .. cap - 1 |-> (h1 + i * h2) % cap]

\* the first position of a probe sequence, from its i-th on, where Stop holds,
\* or -1 if the search never stops
First_stop(probe, from, Stop(_)) ==
    LET stops == {i \in DOMAIN probe : i >= from /\ Stop(probe[i])}
    IN  IF stops = {} THEN -1 ELSE probe[Min(stops)]

Matches(h, i, key) == h.table[i].h = Low_hcode(key) /\ h.table[i].k = key

\* stdhash_low_find: a match, or with find_match FALSE a hole to reuse
Low_find(h, find_match, key) ==
    First_stop(Probe(Low_hcode(key), h.cap), 0,
               LAMBDA i : Empty(h, i) \/ IF find_match THEN Matches(h, i, key) ELSE Inactive(h, i))

\* stdhash_low_next
Low_next(h, i) == Min({j \in Active(h) : j > i} \cup {h.cap})

\* stdhash_low_prev; -1 stands for the read before the table
Low_prev(h, i) == Max({j \in Active(h) : j < i} \cup {-1})

Hash_it_advance(h, it, n) ==
    LET on[i \in 0 .. n] == IF i = 0 THEN it ELSE Low_next(h, on[i - 1])
    IN  on[n]

Hash_it_retreat(h, it, n) ==
    LET on[i \in 0 .. n] == IF i = 0 THEN it ELSE Low_prev(h, on[i - 1])
    IN  on[n]

\* stdhash_get: from the nearer end
Hash_get(h, n) == IF n <= h.size \div 2 THEN Hash_it_advance(h, h.begin, n)
                  ELSE Hash_it_retreat(h, h.cap, h.size - n)

\* stdhash_low_rehash: the active nodes, in the order of the old table, go to the
\* first empty position of their new probe sequences
Low_rehash(h, request, nomem) ==
    LET cap  == 2 * Pow2_cap(Max({request, MIN_TABLE_ALLOC}))
        into[i \in 0 .. h.cap] ==
            IF i = 0 THEN [j \in 0 .. cap - 1 |-> NoNode]
            ELSE LET t == into[i - 1]
                     at == First_stop(Probe(h.table[i - 1].h, cap), 0, LAMBDA j : t[j] = NoNode)
                 IN  IF i - 1 \in Active(h) THEN [t EXCEPT ![at] = h.table[i - 1]] ELSE t
        moved == [h EXCEPT !.table = into[h.cap], !.cap = cap, !.nodes = h.size]
    IN  IF nomem THEN [h |-> h, ret |-> "nomem"]
        ELSE [h |-> [moved EXCEPT !.begin = Low_next(moved, -1)], ret |-> "success"]

\* stdhash_low_insert of one pair: stdhash_put overwrites a match, stdhash_insert
\* takes the first hole
Low_insert(h, key, val, overwrite, nomem) ==
    LET full  == h.nodes >= High_thresh(h)
        grown == Low_rehash(h, h.size + 1, nomem)
        g     == IF full THEN grown.h ELSE h
        at    == Low_find(g, overwrite, key)
        fresh == Empty(g, at)
        node  == [h |-> Low_hcode(key), k |-> key, v |-> val]
    IN  CASE full /\ "no_grow" \in h.opts -> [h |-> h, it |-> h.cap, ret |-> "acces"]
          [] full /\ "no_grow" \notin h.opts /\ nomem -> [h |-> h, it |-> h.cap, ret |-> "nomem"]
          [] ~(full /\ ("no_grow" \in h.opts \/ nomem)) ->
               IF at = -1 THEN [h |-> [g EXCEPT !.ok = FALSE], it |-> g.cap, ret |-> "success"]
               ELSE IF fresh /\ nomem THEN [h |-> g, it |-> g.cap, ret |-> "nomem"]
               ELSE [h |-> [g EXCEPT !.table[at] = node, !.begin = Min({@, at}),
                                     !.nodes = IF fresh THEN @ + 1 ELSE @,
                                     !.size = IF fresh \/ ~overwrite THEN @ + 1 ELSE @],
                     it |-> at, ret |-> "success"]

\* mutant: the node is freed and its position is empty again.
Hash_erase_empty(h, at, nomem) ==
    LET left == [h EXCEPT !.table[at] = NoNode, !.size = @ - 1, !.nodes = @ - 1]
        next == Low_next(left, at)
    IN  [h |-> [left EXCEPT !.begin = IF at = @ THEN next ELSE @], it |-> next,
         ret |-> "success"]

\* stdhash_erase: the iterator moves on, or to the first pair if the table shrank
Hash_erase(h, at, nomem) ==
    LET off    == [h EXCEPT !.table[at].h = 0, !.size = @ - 1]
        next   == Low_next(off, at)
        left   == [off EXCEPT !.begin = IF at = @ THEN next ELSE @]
        shrunk == Low_rehash(left, left.size, nomem)
        shrinks == /\ "no_shrink" \notin h.opts
                   /\ h.cap # MIN_TABLE_ALLOC
                   /\ left.size <= Low_thresh(left)
                   /\ ~nomem
    IN  IF shrinks THEN [h |-> shrunk.h, it |-> shrunk.h.begin, ret |-> "success"]
        ELSE [h |-> left, it |-> next, ret |-> "success"]

\* stdhash_find
Hash_find(h, key) ==
    LET at == Low_find(h, TRUE, key)
    IN  IF h.size = 0 THEN h.cap ELSE IF at # -1 /\ Empty(h, at) THEN h.cap ELSE at

\* stdhash_erase_key: erase the first match until there is none
Hash_erase_key(h, key, nomem) ==
    LET n == Cardinality({i \in Active(h) : h.table[i].k = key})
        gone[i \in 0 .. n] ==
            IF i = 0 THEN h
            ELSE LET g == gone[i - 1] at == Hash_find(g, key)
                 IN  IF at \in Active(g) THEN Hash_erase(g, at, nomem).h ELSE g
    IN  [h |-> gone[n], it |-> gone[n].cap, ret |-> "success"]

\* stdhash_clear, which frees the nodes and may give the table back
Hash_clear(h, nomem) ==
    LET bare == [h EXCEPT !.table = [i \in DOMAIN @ |-> NoNode], !.begin = h.cap,
                          !.nodes = 0, !.size = 0]
    IN  IF "no_shrink" \in h.opts \/ h.cap = MIN_TABLE_ALLOC THEN bare
        ELSE Low_rehash(bare, 0, nomem).h

\* stdhash_reserve and stdhash_rehash
Hash_reserve(h, n, nomem) ==
    IF n > High_thresh(h) THEN Low_rehash(h, n, nomem) ELSE [h |-> h, ret |-> "success"]

Hash_rehash(h, nomem) == Low_rehash(h, h.size, nomem)

\* the place of a position in the probe sequence that goes through it
Place(h, at) == CHOOSE i \in 0 .. h.cap - 1 : Probe(h.table[at].h, h.cap)[i] = at

\* stdhash_keyed_next: on along the probe sequence, up to an empty position
Keyed_next(h, at) ==
    LET node == h.table[at]
        i == First_stop(Probe(node.h, h.cap), Place(h, at) + 1,
                        LAMBDA j : Empty(h, j) \/ Matches(h, j, node.k))
    IN  IF i # -1 /\ Empty(h, i) THEN h.cap ELSE i

\* stdhash_keyed_prev: back, up to the start of the probe sequence; -1 stands for
\* the read through an empty position
Keyed_prev(h, at) ==
    LET probe == Probe(h.table[at].h, h.cap)
        back  == {i \in 0 .. Place(h, at) - 1 :
                    Empty(h, probe[i]) \/ Matches(h, probe[i], h.table[at].k)}
    IN  IF back = {} THEN h.cap
        ELSE IF Empty(h, probe[Max(back)]) THEN -1 ELSE probe[Max(back)]

\* STDHASH_IS_LEGAL, and begin where stdhash_low_next would find it
Hash_is_legal(h) ==
    /\ h.size <= h.nodes /\ h.nodes <= h.cap
    /\ h.size = Cardinality(Active(h))
    /\ h.nodes = Cardinality({i \in DOMAIN h.table : ~Empty(h, i)})
    /\ h.begin = Low_next(h, -1)

=============================================================================
