------------------------------- MODULE Arrays -------------------------------
(***************************************************************************)
(* The growing array and the growing circular array of the stdutil library *)
(* (stdarr.c and stdcarr.c): a block of memory that holds a sequence, and  *)
(* the moves of parts of it that open and close a gap in the middle.  A    *)
(* value has size one, a pointer into the block is its offset from the     *)
(* base.  An array is                                                      *)
(*                                                                         *)
(*   mem    what the block holds, on 0 .. cap - 1                          *)
(*   cap    the positions allocated, 0 when there is no block              *)
(*   begin  where the first value is (always 0 for stdarr)                 *)
(*   end    where the next value after the last would be                   *)
(*   size   the number of values                                           *)
(*   opts   the options NO_AUTO_GROW and NO_AUTO_SHRINK                     *)
(*   ok     FALSE once a move left the block, or memcpy copied between     *)
(*          overlapping parts, which C leaves undefined                    *)
(*                                                                         *)
(* The operations return the array, the iterator and the error code.       *)
(***************************************************************************)
EXTENDS Integers, Sequences, FiniteSetsExt, SequencesExt

CONSTANTS MIN_AUTO_ALLOC,   \* least capacity the arrays allocate by themselves
          Junk,             \* what a freshly allocated position holds
          ValueSize,        \* vsize, where it matters
          SizeBits          \* width of stdsize and stdssize

ASSUME AllocAssumption == /\ MIN_AUTO_ALLOC \in Nat \ {0} /\ ValueSize \in Nat \ {0}
                          /\ SizeBits \in Nat \ {0}

\* arithmetic the provers do not know: the sizes and half of them
ASSUME PowersAssumption == 2^(SizeBits - 1) \in Nat /\ 2^SizeBits = 2 * 2^(SizeBits - 1)

Result(c, it, ret) == [c |-> c, it |-> it, ret |-> ret]

Block(n) == [i \in 0 .. n - 1 |-> Junk]

Construct_array(opts) ==
    [mem |-> Block(0), cap |-> 0, begin |-> 0, end |-> 0, size |-> 0,
     opts |-> opts, ok |-> TRUE]

High_capacity(c) == IF c.cap # 0 THEN c.cap - 1 ELSE 0

Low_capacity(c) == c.cap \div 4

New_cap(size) == Max({2 * size, MIN_AUTO_ALLOC})

\* memmove of n values from src to dst
Move(c, dst, src, n) ==
    LET inside == n >= 0 /\ \/ n = 0
                            \/ /\ 0 <= dst /\ dst + n <= c.cap
                               /\ 0 <= src /\ src + n <= c.cap
    IN  [c EXCEPT !.ok = @ /\ inside, !.mem =
           [i \in DOMAIN @ |-> IF inside /\ dst <= i /\ i < dst + n
                               THEN c.mem[src + (i - dst)] ELSE c.mem[i]]]

\* memcpy, for parts that do not overlap
Copy(c, dst, src, n) ==
    LET moved == Move(c, dst, src, n)
    IN  [moved EXCEPT !.ok = @ /\ (n <= 0 \/ dst + n <= src \/ src + n <= dst)]

\* mutant: the end of the block is taken for a position of it.
Forward_late(c, p, n) == IF p + n <= c.cap THEN p + n ELSE p + n - c.cap

\* stdcarr_low_forward and stdcarr_low_backward: a step that wraps around
Forward(c, p, n) == IF p + n < c.cap THEN p + n ELSE p + n - c.cap

Backward(c, p, n) == IF p - n >= 0 THEN p - n ELSE p - n + c.cap

\* the values from position b up to position e, as stdcarr_low_copy_to_buf
\* copies them
Copy_to_buf(c, b, e) ==
    IF b <= e THEN [i \in 1 .. e - b |-> c.mem[b + i - 1]]
    ELSE [i \in 1 .. c.cap - b |-> c.mem[b + i - 1]] \o [i \in 1 .. e |-> c.mem[i - 1]]

\* a new block of n positions whose first ones hold the values of seq
Reallocated(c, seq, n) ==
    [c EXCEPT !.mem = [i \in 0 .. n - 1 |-> IF i < Len(seq) THEN seq[i + 1] ELSE Junk],
              !.cap = n, !.begin = 0, !.end = Len(seq), !.size = Len(seq)]

-----------------------------------------------------------------------------
(* stdcarr: opening and closing a gap.                                     *)

\* everything from it on moves right
Opened_right(c, it, delta) ==
    LET over  == c.end + delta - c.cap
        above == c.end - it
        high  == c.cap - it
        low   == Move(c, delta, 0, c.end)
    IN  CASE c.begin <= c.end /\ over <= 0 -> Move(c, it + delta, it, above)
          [] c.begin <= c.end /\ over > 0 /\ above <= over ->
               Copy(c, over - above, it, above)
          [] c.begin <= c.end /\ over > 0 /\ above > over ->
               Move(Copy(c, 0, c.end - over, over), it + delta, it, above - over)
          [] c.begin > c.end /\ above >= 0 -> Move(c, it + delta, it, above)
          [] c.begin > c.end /\ above < 0 /\ high <= delta ->
               Copy(low, delta - high, it, high)
          [] c.begin > c.end /\ above < 0 /\ high > delta ->
               Move(Copy(low, 0, c.cap - delta, delta), it + delta, it, high - delta)

Insert_shift_right(c, it, delta, size) ==
    [Opened_right(c, it, delta) EXCEPT !.size = size, !.end = Forward(c, @, delta)]

\* everything before it moves left
Opened_left(c, it, delta) ==
    LET over  == delta - c.begin
        below == it - c.begin
        high  == Move(c, c.begin - delta, c.begin, c.cap - c.begin)
    IN  CASE c.begin <= c.end /\ over <= 0 ->
               Move(c, c.begin - delta, c.begin, below)
          [] c.begin <= c.end /\ over > 0 /\ below <= over ->
               Copy(c, c.cap - over, c.begin, below)
          [] c.begin <= c.end /\ over > 0 /\ below > over ->
               Move(Copy(c, c.cap - over, c.begin, over), 0, c.begin + over, below - over)
          [] c.begin > c.end /\ below >= 0 ->
               Move(c, c.begin - delta, c.begin, below)
          [] c.begin > c.end /\ below < 0 /\ it <= delta ->
               Copy(high, c.cap - delta, 0, it)
          [] c.begin > c.end /\ below < 0 /\ it > delta ->
               Move(Copy(high, c.cap - delta, 0, delta), 0, delta, it - delta)

Insert_shift_left(c, it, delta, size) ==
    [Opened_left(c, it, delta) EXCEPT !.size = size, !.begin = Backward(c, @, delta)]

\* the values from last on move left over the delta erased ones before it
Closed_left(c, last, delta) ==
    LET first == last - delta
        above == c.end - last
        wraps == delta - last
        high  == Move(c, first, last, c.cap - last)
        mid   == first + (c.cap - last)
    IN  CASE above >= 0 /\ wraps <= 0 -> Move(c, first, last, above)
          [] above >= 0 /\ wraps > 0 /\ above <= wraps ->
               Copy(c, c.cap - wraps, last, above)
          [] above >= 0 /\ wraps > 0 /\ above > wraps ->
               Move(Copy(c, c.cap - wraps, last, wraps), 0, last + wraps, above - wraps)
          [] above < 0 /\ c.end <= delta -> Copy(high, mid, 0, c.end)
          [] above < 0 /\ c.end > delta ->
               Move(Copy(high, mid, 0, delta), 0, delta, c.end - delta)

Erase_shift_left(c, last, delta, size) ==
    [Closed_left(c, last, delta) EXCEPT !.size = size, !.end = Backward(c, @, delta)]

\* the values before first move right over the delta erased ones from it on
Closed_right(c, first, delta) ==
    LET below == first - c.begin
        wraps == first + delta - c.cap
        low   == Move(c, delta, 0, first)
        high  == c.cap - c.begin
    IN  CASE below >= 0 /\ wraps <= 0 -> Move(c, c.begin + delta, c.begin, below)
          [] below >= 0 /\ wraps > 0 /\ wraps >= below ->
               Copy(c, wraps - below, c.begin, below)
          [] below >= 0 /\ wraps > 0 /\ wraps < below ->
               Move(Copy(c, 0, first - wraps, wraps), c.begin + delta, c.begin, below - wraps)
          [] below < 0 /\ high <= delta -> Copy(low, delta - high, c.begin, high)
          [] below < 0 /\ high > delta ->
               Move(Copy(low, 0, c.cap - delta, delta), c.begin + delta, c.begin, high - delta)

Erase_shift_right(c, first, delta, size) ==
    [Closed_right(c, first, delta) EXCEPT !.size = size, !.begin = Forward(c, @, delta)]

\* room for delta values before it; nomem says that malloc returns NULL
Carr_insert_shift(c, it, delta, right, nomem) ==
    LET size == c.size + delta
        before == Copy_to_buf(c, c.begin, it)
        grown  == Reallocated(c, before \o [i \in 1 .. delta |-> Junk]
                                        \o Copy_to_buf(c, it, c.end), New_cap(size))
    IN  CASE delta = 0 -> Result(c, it, "success")
          [] delta # 0 /\ size <= High_capacity(c) /\ right ->
               Result(Insert_shift_right(c, it, delta, size), it, "success")
          [] delta # 0 /\ size <= High_capacity(c) /\ ~right ->
               Result(Insert_shift_left(c, it, delta, size), Backward(c, it, delta), "success")
          [] delta # 0 /\ size > High_capacity(c) ->
               IF "no_grow" \in c.opts THEN Result(c, it, "acces")
               ELSE IF nomem THEN Result(c, it, "nomem")
               ELSE Result(grown, Len(before), "success")

\* delta values go: those from it on when right, those before it otherwise
Carr_erase_shift(c, it, delta, right, nomem) ==
    LET size == c.size - delta
        shrinks == /\ "no_shrink" \notin c.opts
                   /\ size <= Low_capacity(c)
                   /\ c.cap # MIN_AUTO_ALLOC
                   /\ ~nomem
        first  == IF right THEN it ELSE Backward(c, it, delta)
        last   == IF right THEN Forward(c, it, delta) ELSE it
        before == Copy_to_buf(c, c.begin, first)
        shrunk == Reallocated(c, before \o Copy_to_buf(c, last, c.end), New_cap(size))
    IN  CASE delta = 0 -> Result(c, it, "success")
          [] delta # 0 /\ shrinks -> Result(shrunk, Len(before), "success")
          [] delta # 0 /\ ~shrinks /\ right ->
               Result(Erase_shift_right(c, it, delta, size), Forward(c, it, delta), "success")
          [] delta # 0 /\ ~shrinks /\ ~right ->
               Result(Erase_shift_left(c, it, delta, size), it, "success")

-----------------------------------------------------------------------------
(* stdcarr: the operations.                                                *)

\* vals goes to the positions from it on, wrapping around
Store(c, it, vals) ==
    LET rank(i) == IF i >= it THEN i - it ELSE i - it + c.cap
    IN  [c EXCEPT !.mem = [i \in DOMAIN @ |->
           IF rank(i) < Len(vals) THEN vals[rank(i) + 1] ELSE @[i]]]

Ins_shift_right(c, it) ==
    IF it >= c.begin THEN it - c.begin > c.size \div 2 ELSE c.end - it <= c.size \div 2

Ers_shift_right(c, it, n) ==
    IF it >= c.begin THEN it - c.begin < (c.size - n) \div 2
    ELSE c.end - it >= (c.size + n) \div 2

\* stdcarr_insert_n, _seq, _seq_n and _rep: they differ in where vals comes from
Carr_insert(c, it, vals, nomem) ==
    LET r == Carr_insert_shift(c, it, Len(vals), Ins_shift_right(c, it), nomem)
    IN  IF r.ret # "success" THEN r ELSE [r EXCEPT !.c = Store(@, r.it, vals)]

Carr_erase_n(c, it, n, nomem) ==
    LET right == Ers_shift_right(c, it, n)
    IN  Carr_erase_shift(c, IF right THEN it ELSE Forward(c, it, n), n, right, nomem)

Carr_pop_front_n(c, n, nomem) == Carr_erase_shift(c, c.begin, n, TRUE, nomem)

Carr_pop_back_n(c, n, nomem) == Carr_erase_shift(c, c.end, n, FALSE, nomem)

Carr_resize(c, n, nomem) ==
    IF n >= c.size THEN Carr_insert_shift(c, c.end, n - c.size, TRUE, nomem)
    ELSE Carr_pop_back_n(c, c.size - n, nomem)

\* stdcarr_set_capacity: a capacity below the size cuts values off the end
Carr_set_capacity(c, n, nomem) ==
    LET kept == IF n < c.size THEN Forward(c, c.begin, n) ELSE c.end
        done(d) == Result(d, d.begin, "success")
    IN  CASE n = High_capacity(c) -> done(c)
          [] n # High_capacity(c) /\ n = 0 -> done(Construct_array(c.opts))
          [] n # High_capacity(c) /\ n # 0 /\ nomem -> Result(c, c.begin, "nomem")
          [] n # High_capacity(c) /\ n # 0 /\ ~nomem ->
               done(Reallocated(c, Copy_to_buf(c, c.begin, kept), n + 1))

\* stdcarr_set_eq, from an array that holds vals
Carr_set_eq(c, vals, nomem) ==
    LET r == Carr_resize(c, Len(vals), nomem)
        d == [r.c EXCEPT !.begin = 0, !.end = Len(vals)]
    IN  IF r.ret # "success" THEN r ELSE Result(Store(d, 0, vals), 0, "success")

Carr_contents(c) == Copy_to_buf(c, c.begin, c.end)

\* stdcarr_get and stdcarr_rank
Carr_get(c, n) == Forward(c, c.begin, n)

Carr_rank(c, it) == IF it >= c.begin THEN it - c.begin ELSE c.cap - c.begin + it

Carr_push_front(c, vals, nomem) == Carr_insert(c, c.begin, vals, nomem)

Carr_push_back(c, vals, nomem) == Carr_insert(c, c.end, vals, nomem)

Carr_it_advance(c, it, n) == Forward(c, it, n)

Carr_it_retreat(c, it, n) == Backward(c, it, n)

\* stdcarr_it_cmp divides a signed difference by the unsigned size of a value: a
\* negative difference is divided as the large number it is when unsigned
Carr_it_cmp(c, p, q) ==
    LET d == CASE p >= c.begin /\ q >= c.begin -> p - q
               [] p >= c.begin /\ q < c.begin -> (p - c.cap) - q
               [] p < c.begin /\ q < c.begin -> p - q
               [] p < c.begin /\ q >= c.begin -> (c.cap - q) + p
        u == ((d * ValueSize) % 2^SizeBits) \div ValueSize
    IN  IF u < 2^(SizeBits - 1) THEN u ELSE u - 2^SizeBits

\* STDCARR_IS_LEGAL
Carr_is_legal(c) ==
    /\ c.size < c.cap \/ (c.size = 0 /\ c.cap = 0)
    /\ c.cap # 0 => c.begin \in 0 .. c.cap - 1 /\ c.end \in 0 .. c.cap - 1
    /\ c.size = Len(Carr_contents(c))

-----------------------------------------------------------------------------
(* stdarr: the sequence begins at the base of the block.                   *)

Arr_insert_space(a, it, n, nomem) ==
    LET size  == a.size + n
        ncap  == New_cap(size)
        grown == [a EXCEPT !.cap = ncap, !.mem =
                    [i \in 0 .. ncap - 1 |-> IF i < a.cap THEN a.mem[i] ELSE Junk]]
        b     == IF size > a.cap THEN grown ELSE a
        moved == Move(b, it + n, it, a.end - it)
    IN  IF size > a.cap /\ "no_grow" \in a.opts THEN Result(a, it, "acces")
        ELSE IF size > a.cap /\ nomem THEN Result(a, it, "nomem")
        ELSE Result([moved EXCEPT !.size = size, !.end = @ + n], it, "success")

\* the array gives memory back only after the values have moved
Arr_remove_space(a, it, n, nomem) ==
    LET size  == a.size - n
        moved == [Move(a, it, it + n, a.end - (it + n)) EXCEPT !.size = size, !.end = @ - n]
        shrinks == /\ "no_shrink" \notin a.opts
                   /\ size <= Low_capacity(a)
                   /\ a.cap # MIN_AUTO_ALLOC
                   /\ ~nomem
        ncap == New_cap(size)
    IN  Result(IF ~shrinks THEN moved
               ELSE [moved EXCEPT !.cap = ncap, !.mem =
                       [i \in 0 .. ncap - 1 |-> IF i < a.cap THEN moved.mem[i] ELSE Junk]],
               it, "success")

\* stdarr_insert_n, _seq, _seq_n and _rep
Arr_insert(a, it, vals, nomem) ==
    LET r == Arr_insert_space(a, it, Len(vals), nomem)
    IN  IF r.ret # "success" \/ vals = <<>> THEN r ELSE [r EXCEPT !.c = Store(@, it, vals)]

Arr_resize(a, n, nomem) ==
    CASE n > a.size -> Arr_insert_space(a, a.end, n - a.size, nomem)
      [] n < a.size -> Arr_remove_space(a, n, a.size - n, nomem)
      [] n = a.size -> Result(a, n, "success")

Arr_set_capacity(a, n, nomem) ==
    LET size == Min({a.size, n})
        moved == [a EXCEPT !.cap = n, !.size = size, !.end = size, !.mem =
                    [i \in 0 .. n - 1 |-> IF i < a.cap THEN a.mem[i] ELSE Junk]]
    IN  CASE n = a.cap -> Result(a, 0, "success")
          [] n # a.cap /\ n = 0 -> Result(Construct_array(a.opts), 0, "success")
          [] n # a.cap /\ n # 0 /\ nomem -> Result(a, 0, "nomem")
          [] n # a.cap /\ n # 0 /\ ~nomem -> Result(moved, 0, "success")

Arr_set_eq(a, vals, nomem) ==
    LET r == Arr_resize(a, Len(vals), nomem)
    IN  IF r.ret # "success" \/ vals = <<>> THEN r ELSE Result(Store(r.c, 0, vals), 0, "success")

Arr_contents(a) == [i \in 1 .. a.size |-> a.mem[i - 1]]

Arr_push_back(a, vals, nomem) == Arr_insert(a, a.end, vals, nomem)

Arr_pop_back_n(a, n, nomem) == Arr_remove_space(a, a.end - n, n, nomem)

Arr_it_advance(it, n) == it + n

Arr_it_retreat(it, n) == it - n

Arr_it_cmp(p, q) == p - q

\* STDARR_IS_LEGAL
Arr_is_legal(a) == a.begin = 0 /\ a.end = a.size /\ a.size <= a.cap

=============================================================================
