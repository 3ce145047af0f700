------------------------------ MODULE Scatter ------------------------------
(***************************************************************************)
(* Positions in scattered messages (scatp.c), which the flush library uses *)
(* to take the appendages off the messages it receives and to put them     *)
(* back.  A scatter is the sequence of its elements, each a sequence of    *)
(* bytes, possibly empty; a position is the index of an element, from 0,   *)
(* and an index into it, and is never in an empty element.                 *)
(***************************************************************************)
EXTENDS Integers, Sequences, FiniteSetsExt

Elems(s) == 0 .. Len(s) - 1

Length(s, e) == Len(s[e + 1])

\* the bytes of the elements from a up to b
Bytes(s, a, b) == MapThenSumSet(LAMBDA e : Length(s, e), a .. b)

Scat_capacity(s) == Bytes(s, 0, Len(s) - 1)

\* scatp_begin skips the empty elements, scatp_end is one past the last
Scatp_begin(s) == [e |-> Min({e \in Elems(s) : Length(s, e) # 0} \cup {Len(s)}), b |-> 0]

Scatp_end(s) == [e |-> Len(s), b |-> 0]

Scatp_is_end(s, p) == p = Scatp_end(s)

Scatp_is_legal(s, p) ==
    \/ Scatp_is_end(s, p)
    \/ p.e \in Elems(s) /\ p.b \in 0 .. Length(s, p.e) - 1

\* the difference of two positions, in bytes
Scatp_comp(s, p, q) ==
    CASE p.e = q.e -> p.b - q.b
      [] p.e < q.e -> p.b - Length(s, p.e) - Bytes(s, p.e + 1, q.e - 1)
      [] p.e > q.e -> Length(s, q.e) - q.b + Bytes(s, q.e + 1, p.e - 1)

\* scatp_jforward: the position, and how far it could be moved
Scatp_jforward(s, p, n) ==
    LET left  == Length(s, p.e) - p.b
        skip(e) == n - left - Bytes(s, p.e + 1, e)
        stops == {e \in Elems(s) : e > p.e /\ skip(e) < 0}
        e     == Min(stops)
        over  == skip(Len(s) - 1)
    IN  CASE Scatp_is_end(s, p) -> [pos |-> p, ret |-> 0]
          [] ~Scatp_is_end(s, p) /\ left > n -> [pos |-> [p EXCEPT !.b = @ + n], ret |-> n]
          [] ~Scatp_is_end(s, p) /\ left <= n /\ stops = {} /\ over # 0 ->
               [pos |-> p, ret |-> n - over]
          [] ~Scatp_is_end(s, p) /\ left <= n /\ stops = {} /\ over = 0 ->
               [pos |-> Scatp_end(s), ret |-> n]
          [] ~Scatp_is_end(s, p) /\ left <= n /\ stops # {} ->
               [pos |-> [e |-> e, b |-> skip(e) + Length(s, e)], ret |-> n]

\* scatp_jbackward: the first element before, from the right and not empty, that
\* takes the jump up
Scatp_jbackward(s, p, n) ==
    LET skip(e) == n - p.b - Bytes(s, e, p.e - 1)
        stops == {e \in Elems(s) : e < p.e /\ Length(s, e) > 0 /\ skip(e) <= 0}
        e     == Max(stops)
    IN  CASE p.b >= n -> [pos |-> [p EXCEPT !.b = @ - n], ret |-> n]
          [] p.b < n /\ stops = {} -> [pos |-> p, ret |-> n - skip(0)]
          [] p.b < n /\ stops # {} -> [pos |-> [e |-> e, b |-> -skip(e)], ret |-> n]

\* scatp_seek and scatp_set: relative to the start, to the end or to the position
Scatp_seek(s, p, offset, whence) ==
    LET from == CASE whence = "set" -> Scatp_begin(s)
                  [] whence = "cur" -> p
                  [] whence = "end" -> Scatp_end(s)
        r == IF offset >= 0 THEN Scatp_jforward(s, from, offset)
             ELSE Scatp_jbackward(s, from, -offset)
    IN  IF r.ret = Max({offset, -offset}) THEN [pos |-> r.pos, ret |-> 0]
        ELSE [pos |-> p, ret |-> -1]

\* one round of the loop of scatp_adv_cpy0: as much as both elements have; a used
\* up element gives way to the next that is not empty
After_piece(s, p, n) ==
    IF n # Length(s, p.e) - p.b THEN [p EXCEPT !.b = @ + n]
    ELSE [e |-> Min({e \in Elems(s) : e > p.e /\ Length(s, e) # 0} \cup {Len(s)}), b |-> 0]

Copy_piece(c) ==
    LET n == Min({Length(c.dst, c.d.e) - c.d.b, Length(c.src, c.s.e) - c.s.b, c.left})
        filled == [i \in DOMAIN c.dst[c.d.e + 1] |->
                     IF c.d.b < i /\ i <= c.d.b + n THEN c.src[c.s.e + 1][c.s.b + i - c.d.b]
                     ELSE c.dst[c.d.e + 1][i]]
    IN  [c EXCEPT !.dst[c.d.e + 1] = filled, !.left = @ - n,
                  !.d = After_piece(c.dst, @, n), !.s = After_piece(c.src, @, n)]

\* scatp_adv_cpy0: n bytes; a position moves if the copy was whole and it is
\* asked for
Scatp_adv_cpy0(dst, d, src, s, n, adv_dst, adv_src) ==
    LET c0 == [dst |-> dst, d |-> d, src |-> src, s |-> s, left |-> n]
        done(c) == c.left = 0 \/ c.d.e = Len(dst) \/ c.s.e = Len(src)
        loop[i \in 0 .. n] ==
            IF i = 0 THEN c0
            ELSE IF done(loop[i - 1]) THEN loop[i - 1] ELSE Copy_piece(loop[i - 1])
        c == loop[n]
    IN  [dst |-> c.dst, ret |-> n - c.left,
         d |-> IF c.left = 0 /\ adv_dst THEN c.d ELSE d,
         s |-> IF c.left = 0 /\ adv_src THEN c.s ELSE s]

=============================================================================
