--------------------------- MODULE Library_proofs ---------------------------
(***************************************************************************)
(* Proofs about the libraries of Library, for containers of any size: the  *)
(* growing array and the growing circular array hold what their callers    *)
(* put there, and every object of memory.c is held by its owners or lies   *)
(* in a pool.                                                              *)
(***************************************************************************)
EXTENDS Library, SequenceTheorems, WellFoundedInduction, TLAPS

----------------------------------------------------------------------------
(* Blocks of memory.                                                       *)

Contained == Values \cup {Junk}

Blocks(n) == [0 .. n - 1 -> Contained]

Shape(c) ==
    /\ c = [mem |-> c.mem, cap |-> c.cap, begin |-> c.begin, end |-> c.end,
            size |-> c.size, opts |-> c.opts, ok |-> c.ok]
    /\ c.cap \in Nat /\ c.mem \in Blocks(c.cap)
    /\ c.begin \in Nat /\ c.end \in Nat /\ c.size \in Nat /\ c.ok \in BOOLEAN

\* n positions from p on are in a block of cap positions.
Within(cap, p, n) == 0 <= p /\ p + n <= cap

\* What a block of cap positions that held f holds once n values have been moved from src
\* to dst.
Moved(f, cap, dst, src, n) ==
    [k \in 0 .. cap - 1 |-> IF dst <= k /\ k < dst + n THEN f[src + (k - dst)] ELSE f[k]]

\* c with g in its block.
Refilled(c, g) == [c EXCEPT !.mem = g]

LEMMA MovedBlock ==
    ASSUME NEW cap \in Nat, NEW f \in Blocks(cap),
           NEW dst \in Int, NEW src \in Int, NEW n \in Nat, Within(cap, src, n)
    PROVE  Moved(f, cap, dst, src, n) \in Blocks(cap)
  <1>1. ASSUME NEW k \in 0 .. cap - 1, dst <= k, k < dst + n
        PROVE  f[src + (k - dst)] \in Contained
    <2>1. src + (k - dst) \in 0 .. cap - 1
      BY <1>1 DEF Within
    <2> QED
      BY <2>1 DEF Blocks
  <1> QED
    BY <1>1 DEF Blocks, Moved

\* memmove changes the block and nothing else.
LEMMA MoveMoves ==
    ASSUME NEW c, Shape(c), NEW dst \in Int, NEW src \in Int, NEW n \in Nat,
           Within(c.cap, dst, n), Within(c.cap, src, n)
    PROVE  /\ Move(c, dst, src, n) = Refilled(c, Moved(c.mem, c.cap, dst, src, n))
           /\ Moved(c.mem, c.cap, dst, src, n) \in Blocks(c.cap)
           /\ Shape(Move(c, dst, src, n))
  <1> DEFINE mem == Moved(c.mem, c.cap, dst, src, n)
  <1>1. c.cap \in Nat /\ c.mem \in [0 .. c.cap - 1 -> Contained] /\ DOMAIN c.mem = 0 .. c.cap - 1
    BY DEF Shape, Blocks
  <1>2. mem \in Blocks(c.cap)
    BY <1>1, MovedBlock DEF Blocks
  <1>3. Move(c, dst, src, n) = Refilled(c, mem)
    <2>1. (n >= 0 /\ \/ n = 0
                      \/ /\ 0 <= dst /\ dst + n <= c.cap
                         /\ 0 <= src /\ src + n <= c.cap) = TRUE
      BY <1>1 DEF Within
    <2>2. (c.ok /\ TRUE) = c.ok
      BY DEF Shape
    <2> QED
      BY <1>1, <2>1, <2>2 DEF Move, Moved, Refilled
  <1> HIDE DEF mem
  <1>4. Shape(Refilled(c, mem))
    BY <1>2 DEF Shape, Refilled
  <1> QED
    BY <1>2, <1>3, <1>4 DEF mem

\* memcpy does the same where the two parts do not overlap.
LEMMA CopyMoves ==
    ASSUME NEW c, Shape(c), NEW dst \in Int, NEW src \in Int, NEW n \in Nat,
           Within(c.cap, dst, n), Within(c.cap, src, n),
           n = 0 \/ dst + n <= src \/ src + n <= dst
    PROVE  Copy(c, dst, src, n) = Move(c, dst, src, n)
  <1> DEFINE d == Move(c, dst, src, n)
  <1>1. Shape(d) /\ d.ok \in BOOLEAN
    BY MoveMoves DEF Shape
  <1> HIDE DEF d
  <1>2. Copy(c, dst, src, n) = [d EXCEPT !.ok = @ /\ (n <= 0 \/ dst + n <= src \/ src + n <= dst)]
    BY DEF Copy, d
  <1>3. (n <= 0 \/ dst + n <= src \/ src + n <= dst) = TRUE
    OBVIOUS
  <1>4. (d.ok /\ (n <= 0 \/ dst + n <= src \/ src + n <= dst)) = d.ok
    BY <1>1, <1>3
  <1>5. Copy(c, dst, src, n) = d
    BY <1>1, <1>2, <1>4 DEF Shape
  <1> QED
    BY <1>5 DEF d

\* The same, of an array whose block has been filled anew: by memmove, by memcpy.
LEMMA MoveNext ==
    ASSUME NEW cap \in Nat, NEW c, Shape(c), c.cap = cap, NEW f \in Blocks(cap),
           NEW dst \in Int, NEW src \in Int, NEW n \in Nat,
           Within(cap, dst, n), Within(cap, src, n)
    PROVE  /\ Move(Refilled(c, f), dst, src, n) = Refilled(c, Moved(f, cap, dst, src, n))
           /\ Moved(f, cap, dst, src, n) \in Blocks(cap)
  <1> DEFINE l == Refilled(c, f)
  <1>1. Shape(l) /\ l.cap = cap /\ l.mem = f
    BY DEF Shape, Refilled
  <1>2. \A g : Refilled(l, g) = Refilled(c, g)
    BY DEF Shape, Refilled
  <1> HIDE DEF l
  <1> QED
    BY <1>1, <1>2, MoveMoves DEF l

LEMMA CopyNext ==
    ASSUME NEW cap \in Nat, NEW c, Shape(c), c.cap = cap, NEW f \in Blocks(cap),
           NEW dst \in Int, NEW src \in Int, NEW n \in Nat,
           Within(cap, dst, n), Within(cap, src, n), n = 0 \/ dst + n <= src \/ src + n <= dst
    PROVE  /\ Copy(Refilled(c, f), dst, src, n) = Refilled(c, Moved(f, cap, dst, src, n))
           /\ Moved(f, cap, dst, src, n) \in Blocks(cap)
  <1> DEFINE l == Refilled(c, f)
  <1>1. Shape(l) /\ l.cap = cap
    BY DEF Shape, Refilled
  <1>2. Copy(l, dst, src, n) = Move(l, dst, src, n)
    <2> HIDE DEF l
    <2> QED
      BY <1>1, CopyMoves
  <1> QED
    BY <1>2, MoveNext

\* An array is itself with its own block.
LEMMA OwnBlock == ASSUME NEW c, Shape(c) PROVE Refilled(c, c.mem) = c
  BY DEF Shape, Refilled

----------------------------------------------------------------------------
(* The circular array.                                                     *)

\* No block, or a block with room for one value more than there are.
Legal(c) ==
    /\ Shape(c) /\ c.end = Forward(c, c.begin, c.size)
    /\ \/ c.cap = 0 /\ c.size = 0 /\ c.begin = 0
       \/ c.size < c.cap /\ c.begin < c.cap

\* The value of rank j.
At(c, j) == c.mem[Forward(c, c.begin, j)]

\* d is c with delta positions more before the value of rank i.
Opened(c, d, i, delta) ==
    /\ Legal(d) /\ d.size = c.size + delta /\ d.opts = c.opts /\ d.ok = c.ok
    /\ \A j \in 0 .. i - 1 : At(d, j) = At(c, j)
    /\ \A j \in i .. c.size - 1 : At(d, j + delta) = At(c, j)

\* d is c without the delta values of rank i and more.
Closed(c, d, i, delta) ==
    /\ Legal(d) /\ d.size = c.size - delta /\ d.opts = c.opts /\ d.ok = c.ok
    /\ \A j \in 0 .. i - 1 : At(d, j) = At(c, j)
    /\ \A j \in i .. c.size - delta - 1 : At(d, j) = At(c, j + delta)

\* Position p + n of a block of cap positions, round its end; position p - n likewise.
Round(cap, p, n) == IF p + n < cap THEN p + n ELSE p + n - cap
Back(cap, p, n)  == IF p - n >= 0 THEN p - n ELSE p - n + cap

LEMMA RoundIsForward ==
    ASSUME NEW c, NEW p, NEW n
    PROVE  /\ Forward(c, p, n) = Round(c.cap, p, n) /\ Backward(c, p, n) = Back(c.cap, p, n)
           /\ At(c, n) = c.mem[Round(c.cap, c.begin, n)]
  BY DEF Forward, Backward, Round, Back, At

\* The block of an array of cap positions, and where the s values in it begin and end.
Ring(c, cap, f, b, s, e) ==
    /\ Shape(c) /\ c.cap = cap /\ c.mem = f /\ c.begin = b /\ c.size = s /\ c.end = e
    /\ b < cap /\ s < cap /\ e = Round(cap, b, s)

LEMMA LegalRing ==
    ASSUME NEW c, Legal(c), c.cap # 0
    PROVE  /\ Ring(c, c.cap, c.mem, c.begin, c.size, c.end)
           /\ c.cap \in Nat /\ c.mem \in Blocks(c.cap)
           /\ c.begin \in Nat /\ c.size \in Nat /\ c.end \in Nat
           /\ c.begin < c.cap /\ c.size < c.cap /\ c.end = Round(c.cap, c.begin, c.size)
  BY RoundIsForward DEF Legal, Shape, Ring

\* A block holds g instead of f, and its first value is at b2 instead of b: of the s values,
\* those of rank i and more have moved up by delta ranks.
Spread(cap, f, b, g, b2, s, i, delta) ==
    /\ \A j \in 0 .. i - 1 : g[Round(cap, b2, j)] = f[Round(cap, b, j)]
    /\ \A j \in i .. s - 1 : g[Round(cap, b2, j + delta)] = f[Round(cap, b, j)]

\* Those of rank i + delta and more have moved down by delta ranks.
Drawn(cap, f, b, g, b2, s, i, delta) ==
    /\ \A j \in 0 .. i - 1 : g[Round(cap, b2, j)] = f[Round(cap, b, j)]
    /\ \A j \in i .. s - delta - 1 : g[Round(cap, b2, j)] = f[Round(cap, b, j + delta)]

\* The values from rank i on move up, in one, two or three pieces (stdcarr_low_insert_shift
\* to the right).
LEMMA RightOpens ==
    ASSUME NEW cap \in Nat, NEW f \in Blocks(cap), NEW b \in Nat, NEW s \in Nat, NEW e \in Nat,
           NEW c, Ring(c, cap, f, b, s, e), NEW i \in Nat, NEW delta \in Nat, NEW it \in Nat,
           b < cap, s < cap, e = Round(cap, b, s),
           0 < delta, i <= s, s + delta < cap, it = Round(cap, b, i)
    PROVE  \E g \in Blocks(cap) : /\ Opened_right(c, it, delta) = Refilled(c, g)
                                  /\ Spread(cap, f, b, g, b, s, i, delta)
  <1> DEFINE over == e + delta - cap
             above == e - it
             high == cap - it
             m == Opened_right(c, it, delta)
  <1>1. CASE b <= e /\ over <= 0
    <2> DEFINE g == Moved(f, cap, it + delta, it, above)
    <2>1. m = Move(Refilled(c, f), it + delta, it, above)
      BY <1>1, OwnBlock DEF Ring, Opened_right
    <2>2. /\ above \in Nat /\ it + delta \in Int /\ it \in Int
          /\ Within(cap, it + delta, above) /\ Within(cap, it, above)
      BY <1>1 DEF Within, Round
    <2>3. Move(Refilled(c, f), it + delta, it, above) = Refilled(c, g) /\ g \in Blocks(cap)
      <3> HIDE DEF over, above, high
      <3> QED
        BY <2>2, MoveNext DEF Ring
    <2>4. \A k \in 0 .. cap - 1 :
            g[k] = IF it + delta <= k /\ k < it + delta + above THEN f[it + (k - (it + delta))] ELSE f[k]
      BY DEF Moved
    <2> HIDE DEF m, g
    <2>5. \A j \in 0 .. i - 1 : g[Round(cap, b, j)] = f[Round(cap, b, j)]
      <3> TAKE j \in 0 .. i - 1
      <3> QED
        BY <1>1, <2>4 DEF Round, Back
    <2>6. \A j \in i .. s - 1 : g[Round(cap, b, j + delta)] = f[Round(cap, b, j)]
      BY <1>1, <2>4 DEF Round, Back
    <2> QED
      BY <2>1, <2>3, <2>5, <2>6 DEF Spread, m
  <1>2. CASE b <= e /\ over > 0 /\ above <= over
    <2> DEFINE g == Moved(f, cap, over - above, it, above)
    <2>1. m = Copy(Refilled(c, f), over - above, it, above)
      BY <1>2, OwnBlock DEF Ring, Opened_right
    <2>2. /\ above \in Nat /\ over - above \in Int /\ it \in Int
          /\ Within(cap, over - above, above) /\ Within(cap, it, above)
          /\ above = 0 \/ over - above + above <= it \/ it + above <= over - above
      BY <1>2 DEF Within, Round
    <2>3. Copy(Refilled(c, f), over - above, it, above) = Refilled(c, g) /\ g \in Blocks(cap)
      <3> HIDE DEF over, above, high
      <3> QED
        BY <2>2, CopyNext DEF Ring
    <2>4. \A k \in 0 .. cap - 1 :
            g[k] = IF over - above <= k /\ k < over - above + above THEN f[it + (k - (over - above))] ELSE f[k]
      BY DEF Moved
    <2> HIDE DEF m, g
    <2>5. \A j \in 0 .. i - 1 : g[Round(cap, b, j)] = f[Round(cap, b, j)]
      <3> TAKE j \in 0 .. i - 1
      <3> QED
        BY <1>2, <2>4 DEF Round, Back
    <2>6. \A j \in i .. s - 1 : g[Round(cap, b, j + delta)] = f[Round(cap, b, j)]
      BY <1>2, <2>4 DEF Round, Back
    <2> QED
      BY <2>1, <2>3, <2>5, <2>6 DEF Spread, m
  <1>3. CASE b <= e /\ over > 0 /\ above > over
    <2> DEFINE g1 == Moved(f, cap, 0, e - over, over)
               g == Moved(g1, cap, it + delta, it, above - over)
    <2>1. m = Move(Copy(Refilled(c, f), 0, e - over, over), it + delta, it, above - over)
      BY <1>3, OwnBlock DEF Ring, Opened_right
    <2>2. /\ over \in Nat /\ 0 \in Int /\ e - over \in Int
          /\ Within(cap, 0, over) /\ Within(cap, e - over, over)
          /\ over = 0 \/ 0 + over <= e - over \/ e - over + over <= 0
      BY <1>3 DEF Within, Round
    <2>3. Copy(Refilled(c, f), 0, e - over, over) = Refilled(c, g1) /\ g1 \in Blocks(cap)
      <3> HIDE DEF over, above, high
      <3> QED
        BY <2>2, CopyNext DEF Ring
    <2>4. /\ above - over \in Nat /\ it + delta \in Int /\ it \in Int
          /\ Within(cap, it + delta, above - over) /\ Within(cap, it, above - over)
      BY <1>3 DEF Within, Round
    <2>5. Move(Refilled(c, g1), it + delta, it, above - over) = Refilled(c, g) /\ g \in Blocks(cap)
      <3> HIDE DEF over, above, high, g1
      <3> QED
        BY <2>4, <2>3, MoveNext DEF Ring
    <2>6. \A k \in 0 .. cap - 1 :
            g1[k] = IF 0 <= k /\ k < 0 + over THEN f[e - over + (k - 0)] ELSE f[k]
      BY DEF Moved
    <2>7. \A k \in 0 .. cap - 1 :
            g[k] = IF it + delta <= k /\ k < it + delta + (above - over) THEN g1[it + (k - (it + delta))] ELSE g1[k]
      BY DEF Moved
    <2> HIDE DEF m, g, g1
    <2>8. \A j \in 0 .. i - 1 : g[Round(cap, b, j)] = f[Round(cap, b, j)]
      <3> TAKE j \in 0 .. i - 1
      <3> QED
        BY <1>3, <2>6, <2>7 DEF Round, Back
    <2>9. \A j \in i .. s - 1 : g[Round(cap, b, j + delta)] = f[Round(cap, b, j)]
      BY <1>3, <2>6, <2>7 DEF Round, Back
    <2> QED
      BY <2>1, <2>3, <2>5, <2>8, <2>9 DEF Spread, m
  <1>4. CASE b > e /\ above >= 0
    <2> DEFINE g == Moved(f, cap, it + delta, it, above)
    <2>1. m = Move(Refilled(c, f), it + delta, it, above)
      BY <1>4, OwnBlock DEF Ring, Opened_right
    <2>2. /\ above \in Nat /\ it + delta \in Int /\ it \in Int
          /\ Within(cap, it + delta, above) /\ Within(cap, it, above)
      BY <1>4 DEF Within, Round
    <2>3. Move(Refilled(c, f), it + delta, it, above) = Refilled(c, g) /\ g \in Blocks(cap)
      <3> HIDE DEF over, above, high
      <3> QED
        BY <2>2, MoveNext DEF Ring
    <2>4. \A k \in 0 .. cap - 1 :
            g[k] = IF it + delta <= k /\ k < it + delta + above THEN f[it + (k - (it + delta))] ELSE f[k]
      BY DEF Moved
    <2> HIDE DEF m, g
    <2>5. \A j \in 0 .. i - 1 : g[Round(cap, b, j)] = f[Round(cap, b, j)]
      <3> TAKE j \in 0 .. i - 1
      <3> QED
        BY <1>4, <2>4 DEF Round, Back
    <2>6. \A j \in i .. s - 1 : g[Round(cap, b, j + delta)] = f[Round(cap, b, j)]
      BY <1>4, <2>4 DEF Round, Back
    <2> QED
      BY <2>1, <2>3, <2>5, <2>6 DEF Spread, m
  <1>5. CASE b > e /\ above < 0 /\ high <= delta
    <2> DEFINE g1 == Moved(f, cap, delta, 0, e)
               g == Moved(g1, cap, delta - high, it, high)
    <2>1. m = Copy(Move(Refilled(c, f), delta, 0, e), delta - high, it, high)
      BY <1>5, OwnBlock DEF Ring, Opened_right
    <2>2. /\ e \in Nat /\ delta \in Int /\ 0 \in Int
          /\ Within(cap, delta, e) /\ Within(cap, 0, e)
      BY <1>5 DEF Within, Round
    <2>3. Move(Refilled(c, f), delta, 0, e) = Refilled(c, g1) /\ g1 \in Blocks(cap)
      <3> HIDE DEF over, above, high
      <3> QED
        BY <2>2, MoveNext DEF Ring
    <2>4. /\ high \in Nat /\ delta - high \in Int /\ it \in Int
          /\ Within(cap, delta - high, high) /\ Within(cap, it, high)
          /\ high = 0 \/ delta - high + high <= it \/ it + high <= delta - high
      BY <1>5 DEF Within, Round
    <2>5. Copy(Refilled(c, g1), delta - high, it, high) = Refilled(c, g) /\ g \in Blocks(cap)
      <3> HIDE DEF over, above, high, g1
      <3> QED
        BY <2>4, <2>3, CopyNext DEF Ring
    <2>6. \A k \in 0 .. cap - 1 :
            g1[k] = IF delta <= k /\ k < delta + e THEN f[0 + (k - delta)] ELSE f[k]
      BY DEF Moved
    <2>7. \A k \in 0 .. cap - 1 :
            g[k] = IF delta - high <= k /\ k < delta - high + high THEN g1[it + (k - (delta - high))] ELSE g1[k]
      BY DEF Moved
    <2> HIDE DEF m, g, g1
    <2>8. \A j \in 0 .. i - 1 : g[Round(cap, b, j)] = f[Round(cap, b, j)]
      <3> TAKE j \in 0 .. i - 1
      <3> QED
        BY <1>5, <2>6, <2>7 DEF Round, Back
    <2>9. \A j \in i .. s - 1 : g[Round(cap, b, j + delta)] = f[Round(cap, b, j)]
      BY <1>5, <2>6, <2>7 DEF Round, Back
    <2> QED
      BY <2>1, <2>3, <2>5, <2>8, <2>9 DEF Spread, m
  <1>6. CASE b > e /\ above < 0 /\ high > delta
    <2> DEFINE g1 == Moved(f, cap, delta, 0, e)
               g2 == Moved(g1, cap, 0, cap - delta, delta)
               g == Moved(g2, cap, it + delta, it, high - delta)
    <2>1. m = Move(Copy(Move(Refilled(c, f), delta, 0, e), 0, cap - delta, delta), it + delta, it, high - delta)
      BY <1>6, OwnBlock DEF Ring, Opened_right
    <2>2. /\ e \in Nat /\ delta \in Int /\ 0 \in Int
          /\ Within(cap, delta, e) /\ Within(cap, 0, e)
      BY <1>6 DEF Within, Round
    <2>3. Move(Refilled(c, f), delta, 0, e) = Refilled(c, g1) /\ g1 \in Blocks(cap)
      <3> HIDE DEF over, above, high
      <3> QED
        BY <2>2, MoveNext DEF Ring
    <2>4. /\ delta \in Nat /\ 0 \in Int /\ cap - delta \in Int
          /\ Within(cap, 0, delta) /\ Within(cap, cap - delta, delta)
          /\ delta = 0 \/ 0 + delta <= cap - delta \/ cap - delta + delta <= 0
      BY <1>6 DEF Within, Round
    <2>5. Copy(Refilled(c, g1), 0, cap - delta, delta) = Refilled(c, g2) /\ g2 \in Blocks(cap)
      <3> HIDE DEF over, above, high, g1
      <3> QED
        BY <2>4, <2>3, CopyNext DEF Ring
    <2>6. /\ high - delta \in Nat /\ it + delta \in Int /\ it \in Int
          /\ Within(cap, it + delta, high - delta) /\ Within(cap, it, high - delta)
      BY <1>6 DEF Within, Round
    <2>7. Move(Refilled(c, g2), it + delta, it, high - delta) = Refilled(c, g) /\ g \in Blocks(cap)
      <3> HIDE DEF over, above, high, g1, g2
      <3> QED
        BY <2>6, <2>5, MoveNext DEF Ring
    <2>8. \A k \in 0 .. cap - 1 :
            g1[k] = IF delta <= k /\ k < delta + e THEN f[0 + (k - delta)] ELSE f[k]
      BY DEF Moved
    <2>9. \A k \in 0 .. cap - 1 :
            g2[k] = IF 0 <= k /\ k < 0 + delta THEN g1[cap - delta + (k - 0)] ELSE g1[k]
      BY DEF Moved
    <2>10. \A k \in 0 .. cap - 1 :
            g[k] = IF it + delta <= k /\ k < it + delta + (high - delta) THEN g2[it + (k - (it + delta))] ELSE g2[k]
      BY DEF Moved
    <2> HIDE DEF m, g, g1, g2
    <2>11. \A j \in 0 .. i - 1 : g[Round(cap, b, j)] = f[Round(cap, b, j)]
      <3> TAKE j \in 0 .. i - 1
      <3> QED
        BY <1>6, <2>8, <2>9, <2>10 DEF Round, Back
    <2>12. \A j \in i .. s - 1 : g[Round(cap, b, j + delta)] = f[Round(cap, b, j)]
      BY <1>6, <2>8, <2>9, <2>10 DEF Round, Back
    <2> QED
      BY <2>1, <2>3, <2>5, <2>7, <2>11, <2>12 DEF Spread, m
  <1> QED
    BY <1>1, <1>2, <1>3, <1>4, <1>5, <1>6

\* The values before rank i move down (to the left).
LEMMA LeftOpens ==
    ASSUME NEW cap \in Nat, NEW f \in Blocks(cap), NEW b \in Nat, NEW s \in Nat, NEW e \in Nat,
           NEW c, Ring(c, cap, f, b, s, e), NEW i \in Nat, NEW delta \in Nat, NEW it \in Nat,
           b < cap, s < cap, e = Round(cap, b, s),
           0 < delta, i <= s, s + delta < cap, it = Round(cap, b, i)
    PROVE  \E g \in Blocks(cap) : /\ Opened_left(c, it, delta) = Refilled(c, g)
                                  /\ Spread(cap, f, b, g, Back(cap, b, delta), s, i, delta)
  <1> DEFINE over == delta - b
             below == it - b
             high == cap - b
             m == Opened_left(c, it, delta)
  <1>1. CASE b <= e /\ over <= 0
    <2> DEFINE g == Moved(f, cap, b - delta, b, below)
    <2>1. m = Move(Refilled(c, f), b - delta, b, below)
      BY <1>1, OwnBlock DEF Ring, Opened_left
    <2>2. /\ below \in Nat /\ b - delta \in Int /\ b \in Int
          /\ Within(cap, b - delta, below) /\ Within(cap, b, below)
      BY <1>1 DEF Within, Round
    <2>3. Move(Refilled(c, f), b - delta, b, below) = Refilled(c, g) /\ g \in Blocks(cap)
      <3> HIDE DEF over, below, high
      <3> QED
        BY <2>2, MoveNext DEF Ring
    <2>4. \A k \in 0 .. cap - 1 :
            g[k] = IF b - delta <= k /\ k < b - delta + below THEN f[b + (k - (b - delta))] ELSE f[k]
      BY DEF Moved
    <2> HIDE DEF m, g
    <2>5. \A j \in 0 .. i - 1 : g[Round(cap, Back(cap, b, delta), j)] = f[Round(cap, b, j)]
      <3> TAKE j \in 0 .. i - 1
      <3> QED
        BY <1>1, <2>4 DEF Round, Back
    <2>6. \A j \in i .. s - 1 : g[Round(cap, Back(cap, b, delta), j + delta)] = f[Round(cap, b, j)]
      BY <1>1, <2>4 DEF Round, Back
    <2> QED
      BY <2>1, <2>3, <2>5, <2>6 DEF Spread, m
  <1>2. CASE b <= e /\ over > 0 /\ below <= over
    <2> DEFINE g == Moved(f, cap, cap - over, b, below)
    <2>1. m = Copy(Refilled(c, f), cap - over, b, below)
      BY <1>2, OwnBlock DEF Ring, Opened_left
    <2>2. /\ below \in Nat /\ cap - over \in Int /\ b \in Int
          /\ Within(cap, cap - over, below) /\ Within(cap, b, below)
          /\ below = 0 \/ cap - over + below <= b \/ b + below <= cap - over
      BY <1>2 DEF Within, Round
    <2>3. Copy(Refilled(c, f), cap - over, b, below) = Refilled(c, g) /\ g \in Blocks(cap)
      <3> HIDE DEF over, below, high
      <3> QED
        BY <2>2, CopyNext DEF Ring
    <2>4. \A k \in 0 .. cap - 1 :
            g[k] = IF cap - over <= k /\ k < cap - over + below THEN f[b + (k - (cap - over))] ELSE f[k]
      BY DEF Moved
    <2> HIDE DEF m, g
    <2>5. \A j \in 0 .. i - 1 : g[Round(cap, Back(cap, b, delta), j)] = f[Round(cap, b, j)]
      <3> TAKE j \in 0 .. i - 1
      <3> QED
        BY <1>2, <2>4 DEF Round, Back
    <2>6. \A j \in i .. s - 1 : g[Round(cap, Back(cap, b, delta), j + delta)] = f[Round(cap, b, j)]
      BY <1>2, <2>4 DEF Round, Back
    <2> QED
      BY <2>1, <2>3, <2>5, <2>6 DEF Spread, m
  <1>3. CASE b <= e /\ over > 0 /\ below > over
    <2> DEFINE g1 == Moved(f, cap, cap - over, b, over)
               g == Moved(g1, cap, 0, b + over, below - over)
    <2>1. m = Move(Copy(Refilled(c, f), cap - over, b, over), 0, b + over, below - over)
      BY <1>3, OwnBlock DEF Ring, Opened_left
    <2>2. /\ over \in Nat /\ cap - over \in Int /\ b \in Int
          /\ Within(cap, cap - over, over) /\ Within(cap, b, over)
          /\ over = 0 \/ cap - over + over <= b \/ b + over <= cap - over
      BY <1>3 DEF Within, Round
    <2>3. Copy(Refilled(c, f), cap - over, b, over) = Refilled(c, g1) /\ g1 \in Blocks(cap)
      <3> HIDE DEF over, below, high
      <3> QED
        BY <2>2, CopyNext DEF Ring
    <2>4. /\ below - over \in Nat /\ 0 \in Int /\ b + over \in Int
          /\ Within(cap, 0, below - over) /\ Within(cap, b + over, below - over)
      BY <1>3 DEF Within, Round
    <2>5. Move(Refilled(c, g1), 0, b + over, below - over) = Refilled(c, g) /\ g \in Blocks(cap)
      <3> HIDE DEF over, below, high, g1
      <3> QED
        BY <2>4, <2>3, MoveNext DEF Ring
    <2>6. \A k \in 0 .. cap - 1 :
            g1[k] = IF cap - over <= k /\ k < cap - over + over THEN f[b + (k - (cap - over))] ELSE f[k]
      BY DEF Moved
    <2>7. \A k \in 0 .. cap - 1 :
            g[k] = IF 0 <= k /\ k < 0 + (below - over) THEN g1[b + over + (k - 0)] ELSE g1[k]
      BY DEF Moved
    <2> HIDE DEF m, g, g1
    <2>8. \A j \in 0 .. i - 1 : g[Round(cap, Back(cap, b, delta), j)] = f[Round(cap, b, j)]
      <3> SUFFICES ASSUME NEW j \in 0 .. i - 1
                   PROVE  g[Round(cap, Back(cap, b, delta), j)] = f[Round(cap, b, j)]
        OBVIOUS
      <3>1. CASE b + j < cap /\ delta <= b
        BY <3>1, <1>3, <2>6, <2>7 DEF Round, Back
      <3>2. CASE b + j < cap /\ b < delta
        BY <3>2, <1>3, <2>6, <2>7 DEF Round, Back
      <3>3. CASE cap <= b + j /\ b - delta + j < cap /\ delta <= b
        BY <3>3, <1>3, <2>6, <2>7 DEF Round, Back
      <3>4. CASE cap <= b + j /\ cap <= b - delta + j /\ delta <= b
        BY <3>4, <1>3, <2>6, <2>7 DEF Round, Back
      <3>5. CASE cap <= b + j /\ b < delta
        BY <3>5, <1>3, <2>6, <2>7 DEF Round, Back
      <3> QED
        BY <3>1, <3>2, <3>3, <3>4, <3>5
    <2>9. \A j \in i .. s - 1 : g[Round(cap, Back(cap, b, delta), j + delta)] = f[Round(cap, b, j)]
      BY <1>3, <2>6, <2>7 DEF Round, Back
    <2> QED
      BY <2>1, <2>3, <2>5, <2>8, <2>9 DEF Spread, m
  <1>4. CASE b > e /\ below >= 0
    <2> DEFINE g == Moved(f, cap, b - delta, b, below)
    <2>1. m = Move(Refilled(c, f), b - delta, b, below)
      BY <1>4, OwnBlock DEF Ring, Opened_left
    <2>2. /\ below \in Nat /\ b - delta \in Int /\ b \in Int
          /\ Within(cap, b - delta, below) /\ Within(cap, b, below)
      BY <1>4 DEF Within, Round
    <2>3. Move(Refilled(c, f), b - delta, b, below) = Refilled(c, g) /\ g \in Blocks(cap)
      <3> HIDE DEF over, below, high
      <3> QED
        BY <2>2, MoveNext DEF Ring
    <2>4. \A k \in 0 .. cap - 1 :
            g[k] = IF b - delta <= k /\ k < b - delta + below THEN f[b + (k - (b - delta))] ELSE f[k]
      BY DEF Moved
    <2> HIDE DEF m, g
    <2>5. \A j \in 0 .. i - 1 : g[Round(cap, Back(cap, b, delta), j)] = f[Round(cap, b, j)]
      <3> TAKE j \in 0 .. i - 1
      <3> QED
        BY <1>4, <2>4 DEF Round, Back
    <2>6. \A j \in i .. s - 1 : g[Round(cap, Back(cap, b, delta), j + delta)] = f[Round(cap, b, j)]
      BY <1>4, <2>4 DEF Round, Back
    <2> QED
      BY <2>1, <2>3, <2>5, <2>6 DEF Spread, m
  <1>5. CASE b > e /\ below < 0 /\ it <= delta
    <2> DEFINE g1 == Moved(f, cap, b - delta, b, high)
               g == Moved(g1, cap, cap - delta, 0, it)
    <2>1. m = Copy(Move(Refilled(c, f), b - delta, b, high), cap - delta, 0, it)
      BY <1>5, OwnBlock DEF Ring, Opened_left
    <2>2. /\ high \in Nat /\ b - delta \in Int /\ b \in Int
          /\ Within(cap, b - delta, high) /\ Within(cap, b, high)
      BY <1>5 DEF Within, Round
    <2>3. Move(Refilled(c, f), b - delta, b, high) = Refilled(c, g1) /\ g1 \in Blocks(cap)
      <3> HIDE DEF over, below, high
      <3> QED
        BY <2>2, MoveNext DEF Ring
    <2>4. /\ it \in Nat /\ cap - delta \in Int /\ 0 \in Int
          /\ Within(cap, cap - delta, it) /\ Within(cap, 0, it)
          /\ it = 0 \/ cap - delta + it <= 0 \/ 0 + it <= cap - delta
      BY <1>5 DEF Within, Round
    <2>5. Copy(Refilled(c, g1), cap - delta, 0, it) = Refilled(c, g) /\ g \in Blocks(cap)
      <3> HIDE DEF over, below, high, g1
      <3> QED
        BY <2>4, <2>3, CopyNext DEF Ring
    <2>6. \A k \in 0 .. cap - 1 :
            g1[k] = IF b - delta <= k /\ k < b - delta + high THEN f[b + (k - (b - delta))] ELSE f[k]
      BY DEF Moved
    <2>7. \A k \in 0 .. cap - 1 :
            g[k] = IF cap - delta <= k /\ k < cap - delta + it THEN g1[0 + (k - (cap - delta))] ELSE g1[k]
      BY DEF Moved
    <2> HIDE DEF m, g, g1
    <2>8. \A j \in 0 .. i - 1 : g[Round(cap, Back(cap, b, delta), j)] = f[Round(cap, b, j)]
      <3> SUFFICES ASSUME NEW j \in 0 .. i - 1
                   PROVE  g[Round(cap, Back(cap, b, delta), j)] = f[Round(cap, b, j)]
        OBVIOUS
      <3>1. CASE b + j < cap /\ delta <= b
        BY <3>1, <1>5, <2>6, <2>7 DEF Round, Back
      <3>2. CASE b + j < cap /\ b < delta
        BY <3>2, <1>5, <2>6, <2>7 DEF Round, Back
      <3>3. CASE cap <= b + j /\ b - delta + j < cap /\ delta <= b
        BY <3>3, <1>5, <2>6, <2>7 DEF Round, Back
      <3>4. CASE cap <= b + j /\ cap <= b - delta + j /\ delta <= b
        BY <3>4, <1>5, <2>6, <2>7 DEF Round, Back
      <3>5. CASE cap <= b + j /\ b < delta
        BY <3>5, <1>5, <2>6, <2>7 DEF Round, Back
      <3> QED
        BY <3>1, <3>2, <3>3, <3>4, <3>5
    <2>9. \A j \in i .. s - 1 : g[Round(cap, Back(cap, b, delta), j + delta)] = f[Round(cap, b, j)]
      BY <1>5, <2>6, <2>7 DEF Round, Back
    <2> QED
      BY <2>1, <2>3, <2>5, <2>8, <2>9 DEF Spread, m
  <1>6. CASE b > e /\ below < 0 /\ it > delta
    <2> DEFINE g1 == Moved(f, cap, b - delta, b, high)
               g2 == Moved(g1, cap, cap - delta, 0, delta)
               g == Moved(g2, cap, 0, delta, it - delta)
    <2>1. m = Move(Copy(Move(Refilled(c, f), b - delta, b, high), cap - delta, 0, delta), 0, delta, it - delta)
      BY <1>6, OwnBlock DEF Ring, Opened_left
    <2>2. /\ high \in Nat /\ b - delta \in Int /\ b \in Int
          /\ Within(cap, b - delta, high) /\ Within(cap, b, high)
      BY <1>6 DEF Within, Round
    <2>3. Move(Refilled(c, f), b - delta, b, high) = Refilled(c, g1) /\ g1 \in Blocks(cap)
      <3> HIDE DEF over, below, high
      <3> QED
        BY <2>2, MoveNext DEF Ring
    <2>4. /\ delta \in Nat /\ cap - delta \in Int /\ 0 \in Int
          /\ Within(cap, cap - delta, delta) /\ Within(cap, 0, delta)
          /\ delta = 0 \/ cap - delta + delta <= 0 \/ 0 + delta <= cap - delta
      BY <1>6 DEF Within, Round
    <2>5. Copy(Refilled(c, g1), cap - delta, 0, delta) = Refilled(c, g2) /\ g2 \in Blocks(cap)
      <3> HIDE DEF over, below, high, g1
      <3> QED
        BY <2>4, <2>3, CopyNext DEF Ring
    <2>6. /\ it - delta \in Nat /\ 0 \in Int /\ delta \in Int
          /\ Within(cap, 0, it - delta) /\ Within(cap, delta, it - delta)
      BY <1>6 DEF Within, Round
    <2>7. Move(Refilled(c, g2), 0, delta, it - delta) = Refilled(c, g) /\ g \in Blocks(cap)
      <3> HIDE DEF over, below, high, g1, g2
      <3> QED
        BY <2>6, <2>5, MoveNext DEF Ring
    <2>8. \A k \in 0 .. cap - 1 :
            g1[k] = IF b - delta <= k /\ k < b - delta + high THEN f[b + (k - (b - delta))] ELSE f[k]
      BY DEF Moved
    <2>9. \A k \in 0 .. cap - 1 :
            g2[k] = IF cap - delta <= k /\ k < cap - delta + delta THEN g1[0 + (k - (cap - delta))] ELSE g1[k]
      BY DEF Moved
    <2>10. \A k \in 0 .. cap - 1 :
            g[k] = IF 0 <= k /\ k < 0 + (it - delta) THEN g2[delta + (k - 0)] ELSE g2[k]
      BY DEF Moved
    <2> HIDE DEF m, g, g1, g2
    <2>11. \A j \in 0 .. i - 1 : g[Round(cap, Back(cap, b, delta), j)] = f[Round(cap, b, j)]
      <3> SUFFICES ASSUME NEW j \in 0 .. i - 1
                   PROVE  g[Round(cap, Back(cap, b, delta), j)] = f[Round(cap, b, j)]
        OBVIOUS
      <3>1. CASE b + j < cap /\ delta <= b
        BY <3>1, <1>6, <2>8, <2>9, <2>10 DEF Round, Back
      <3>2. CASE b + j < cap /\ b < delta
        BY <3>2, <1>6, <2>8, <2>9, <2>10 DEF Round, Back
      <3>3. CASE cap <= b + j /\ b - delta + j < cap /\ delta <= b
        BY <3>3, <1>6, <2>8, <2>9, <2>10 DEF Round, Back
      <3>4. CASE cap <= b + j /\ cap <= b - delta + j /\ delta <= b
        BY <3>4, <1>6, <2>8, <2>9, <2>10 DEF Round, Back
      <3>5. CASE cap <= b + j /\ b < delta
        BY <3>5, <1>6, <2>8, <2>9, <2>10 DEF Round, Back
      <3> QED
        BY <3>1, <3>2, <3>3, <3>4, <3>5
    <2>12. \A j \in i .. s - 1 : g[Round(cap, Back(cap, b, delta), j + delta)] = f[Round(cap, b, j)]
      BY <1>6, <2>8, <2>9, <2>10 DEF Round, Back
    <2> QED
      BY <2>1, <2>3, <2>5, <2>7, <2>11, <2>12 DEF Spread, m
  <1> QED
    BY <1>1, <1>2, <1>3, <1>4, <1>5, <1>6

\* The values behind an erased stretch move down over it (stdcarr_low_erase_shift to the
\* left).
LEMMA LeftCloses ==
    ASSUME NEW cap \in Nat, NEW f \in Blocks(cap), NEW b \in Nat, NEW s \in Nat, NEW e \in Nat,
           NEW c, Ring(c, cap, f, b, s, e), NEW i \in Nat, NEW delta \in Nat, NEW it \in Nat,
           b < cap, s < cap, e = Round(cap, b, s),
           0 < delta, i <= s, i + delta <= s, it = Round(cap, b, i + delta)
    PROVE  \E g \in Blocks(cap) : /\ Closed_left(c, it, delta) = Refilled(c, g)
                                  /\ Drawn(cap, f, b, g, b, s, i, delta)
  <1> DEFINE first == it - delta
             above == e - it
             wraps == delta - it
             high == cap - it
             mid == first + (cap - it)
             m == Closed_left(c, it, delta)
  <1>1. CASE above >= 0 /\ wraps <= 0
    <2> DEFINE g == Moved(f, cap, first, it, above)
    <2>1. m = Move(Refilled(c, f), first, it, above)
      BY <1>1, OwnBlock DEF Ring, Closed_left
    <2>2. /\ above \in Nat /\ first \in Int /\ it \in Int
          /\ Within(cap, first, above) /\ Within(cap, it, above)
      BY <1>1 DEF Within, Round
    <2>3. Move(Refilled(c, f), first, it, above) = Refilled(c, g) /\ g \in Blocks(cap)
      <3> HIDE DEF first, above, wraps, high, mid
      <3> QED
        BY <2>2, MoveNext DEF Ring
    <2>4. \A k \in 0 .. cap - 1 :
            g[k] = IF first <= k /\ k < first + above THEN f[it + (k - first)] ELSE f[k]
      BY DEF Moved
    <2> HIDE DEF m, g
    <2>5. \A j \in 0 .. i - 1 : g[Round(cap, b, j)] = f[Round(cap, b, j)]
      <3> TAKE j \in 0 .. i - 1
      <3> QED
        BY <1>1, <2>4 DEF Round, Back
    <2>6. \A j \in i .. s - delta - 1 : g[Round(cap, b, j)] = f[Round(cap, b, j + delta)]
      BY <1>1, <2>4 DEF Round, Back
    <2> QED
      BY <2>1, <2>3, <2>5, <2>6 DEF Drawn, m
  <1>2. CASE above >= 0 /\ wraps > 0 /\ above <= wraps
    <2> DEFINE g == Moved(f, cap, cap - wraps, it, above)
    <2>1. m = Copy(Refilled(c, f), cap - wraps, it, above)
      BY <1>2, OwnBlock DEF Ring, Closed_left
    <2>2. /\ above \in Nat /\ cap - wraps \in Int /\ it \in Int
          /\ Within(cap, cap - wraps, above) /\ Within(cap, it, above)
          /\ above = 0 \/ cap - wraps + above <= it \/ it + above <= cap - wraps
      BY <1>2 DEF Within, Round
    <2>3. Copy(Refilled(c, f), cap - wraps, it, above) = Refilled(c, g) /\ g \in Blocks(cap)
      <3> HIDE DEF first, above, wraps, high, mid
      <3> QED
        BY <2>2, CopyNext DEF Ring
    <2>4. \A k \in 0 .. cap - 1 :
            g[k] = IF cap - wraps <= k /\ k < cap - wraps + above THEN f[it + (k - (cap - wraps))] ELSE f[k]
      BY DEF Moved
    <2> HIDE DEF m, g
    <2>5. \A j \in 0 .. i - 1 : g[Round(cap, b, j)] = f[Round(cap, b, j)]
      <3> TAKE j \in 0 .. i - 1
      <3> QED
        BY <1>2, <2>4 DEF Round, Back
    <2>6. \A j \in i .. s - delta - 1 : g[Round(cap, b, j)] = f[Round(cap, b, j + delta)]
      BY <1>2, <2>4 DEF Round, Back
    <2> QED
      BY <2>1, <2>3, <2>5, <2>6 DEF Drawn, m
  <1>3. CASE above >= 0 /\ wraps > 0 /\ above > wraps
    <2> DEFINE g1 == Moved(f, cap, cap - wraps, it, wraps)
               g == Moved(g1, cap, 0, it + wraps, above - wraps)
    <2>1. m = Move(Copy(Refilled(c, f), cap - wraps, it, wraps), 0, it + wraps, above - wraps)
      BY <1>3, OwnBlock DEF Ring, Closed_left
    <2>2. /\ wraps \in Nat /\ cap - wraps \in Int /\ it \in Int
          /\ Within(cap, cap - wraps, wraps) /\ Within(cap, it, wraps)
          /\ wraps = 0 \/ cap - wraps + wraps <= it \/ it + wraps <= cap - wraps
      BY <1>3 DEF Within, Round
    <2>3. Copy(Refilled(c, f), cap - wraps, it, wraps) = Refilled(c, g1) /\ g1 \in Blocks(cap)
      <3> HIDE DEF first, above, wraps, high, mid
      <3> QED
        BY <2>2, CopyNext DEF Ring
    <2>4. /\ above - wraps \in Nat /\ 0 \in Int /\ it + wraps \in Int
          /\ Within(cap, 0, above - wraps) /\ Within(cap, it + wraps, above - wraps)
      BY <1>3 DEF Within, Round
    <2>5. Move(Refilled(c, g1), 0, it + wraps, above - wraps) = Refilled(c, g) /\ g \in Blocks(cap)
      <3> HIDE DEF first, above, wraps, high, mid, g1
      <3> QED
        BY <2>4, <2>3, MoveNext DEF Ring
    <2>6. \A k \in 0 .. cap - 1 :
            g1[k] = IF cap - wraps <= k /\ k < cap - wraps + wraps THEN f[it + (k - (cap - wraps))] ELSE f[k]
      BY DEF Moved
    <2>7. \A k \in 0 .. cap - 1 :
            g[k] = IF 0 <= k /\ k < 0 + (above - wraps) THEN g1[it + wraps + (k - 0)] ELSE g1[k]
      BY DEF Moved
    <2> HIDE DEF m, g, g1
    <2>8. \A j \in 0 .. i - 1 : g[Round(cap, b, j)] = f[Round(cap, b, j)]
      <3> TAKE j \in 0 .. i - 1
      <3> QED
        BY <1>3, <2>6, <2>7 DEF Round, Back
    <2>9. \A j \in i .. s - delta - 1 : g[Round(cap, b, j)] = f[Round(cap, b, j + delta)]
      BY <1>3, <2>6, <2>7 DEF Round, Back
    <2> QED
      BY <2>1, <2>3, <2>5, <2>8, <2>9 DEF Drawn, m
  <1>4. CASE above < 0 /\ e <= delta
    <2> DEFINE g1 == Moved(f, cap, first, it, high)
               g == Moved(g1, cap, mid, 0, e)
    <2>1. m = Copy(Move(Refilled(c, f), first, it, high), mid, 0, e)
      BY <1>4, OwnBlock DEF Ring, Closed_left
    <2>2. /\ high \in Nat /\ first \in Int /\ it \in Int
          /\ Within(cap, first, high) /\ Within(cap, it, high)
      BY <1>4 DEF Within, Round
    <2>3. Move(Refilled(c, f), first, it, high) = Refilled(c, g1) /\ g1 \in Blocks(cap)
      <3> HIDE DEF first, above, wraps, high, mid
      <3> QED
        BY <2>2, MoveNext DEF Ring
    <2>4. /\ e \in Nat /\ mid \in Int /\ 0 \in Int
          /\ Within(cap, mid, e) /\ Within(cap, 0, e)
          /\ e = 0 \/ mid + e <= 0 \/ 0 + e <= mid
      BY <1>4 DEF Within, Round
    <2>5. Copy(Refilled(c, g1), mid, 0, e) = Refilled(c, g) /\ g \in Blocks(cap)
      <3> HIDE DEF first, above, wraps, high, mid, g1
      <3> QED
        BY <2>4, <2>3, CopyNext DEF Ring
    <2>6. \A k \in 0 .. cap - 1 :
            g1[k] = IF first <= k /\ k < first + high THEN f[it + (k - first)] ELSE f[k]
      BY DEF Moved
    <2>7. \A k \in 0 .. cap - 1 :
            g[k] = IF mid <= k /\ k < mid + e THEN g1[0 + (k - mid)] ELSE g1[k]
      BY DEF Moved
    <2> HIDE DEF m, g, g1
    <2>8. \A j \in 0 .. i - 1 : g[Round(cap, b, j)] = f[Round(cap, b, j)]
      <3> TAKE j \in 0 .. i - 1
      <3> QED
        BY <1>4, <2>6, <2>7 DEF Round, Back
    <2>9. \A j \in i .. s - delta - 1 : g[Round(cap, b, j)] = f[Round(cap, b, j + delta)]
      BY <1>4, <2>6, <2>7 DEF Round, Back
    <2> QED
      BY <2>1, <2>3, <2>5, <2>8, <2>9 DEF Drawn, m
  <1>5. CASE above < 0 /\ e > delta
    <2> DEFINE g1 == Moved(f, cap, first, it, high)
               g2 == Moved(g1, cap, mid, 0, delta)
               g == Moved(g2, cap, 0, delta, e - delta)
    <2>1. m = Move(Copy(Move(Refilled(c, f), first, it, high), mid, 0, delta), 0, delta, e - delta)
      BY <1>5, OwnBlock DEF Ring, Closed_left
    <2>2. /\ high \in Nat /\ first \in Int /\ it \in Int
          /\ Within(cap, first, high) /\ Within(cap, it, high)
      BY <1>5 DEF Within, Round
    <2>3. Move(Refilled(c, f), first, it, high) = Refilled(c, g1) /\ g1 \in Blocks(cap)
      <3> HIDE DEF first, above, wraps, high, mid
      <3> QED
        BY <2>2, MoveNext DEF Ring
    <2>4. /\ delta \in Nat /\ mid \in Int /\ 0 \in Int
          /\ Within(cap, mid, delta) /\ Within(cap, 0, delta)
          /\ delta = 0 \/ mid + delta <= 0 \/ 0 + delta <= mid
      BY <1>5 DEF Within, Round
    <2>5. Copy(Refilled(c, g1), mid, 0, delta) = Refilled(c, g2) /\ g2 \in Blocks(cap)
      <3> HIDE DEF first, above, wraps, high, mid, g1
      <3> QED
        BY <2>4, <2>3, CopyNext DEF Ring
    <2>6. /\ e - delta \in Nat /\ 0 \in Int /\ delta \in Int
          /\ Within(cap, 0, e - delta) /\ Within(cap, delta, e - delta)
      BY <1>5 DEF Within, Round
    <2>7. Move(Refilled(c, g2), 0, delta, e - delta) = Refilled(c, g) /\ g \in Blocks(cap)
      <3> HIDE DEF first, above, wraps, high, mid, g1, g2
      <3> QED
        BY <2>6, <2>5, MoveNext DEF Ring
    <2>8. \A k \in 0 .. cap - 1 :
            g1[k] = IF first <= k /\ k < first + high THEN f[it + (k - first)] ELSE f[k]
      BY DEF Moved
    <2>9. \A k \in 0 .. cap - 1 :
            g2[k] = IF mid <= k /\ k < mid + delta THEN g1[0 + (k - mid)] ELSE g1[k]
      BY DEF Moved
    <2>10. \A k \in 0 .. cap - 1 :
            g[k] = IF 0 <= k /\ k < 0 + (e - delta) THEN g2[delta + (k - 0)] ELSE g2[k]
      BY DEF Moved
    <2> HIDE DEF m, g, g1, g2
    <2>11. \A j \in 0 .. i - 1 : g[Round(cap, b, j)] = f[Round(cap, b, j)]
      <3> TAKE j \in 0 .. i - 1
      <3> QED
        BY <1>5, <2>8, <2>9, <2>10 DEF Round, Back
    <2>12. \A j \in i .. s - delta - 1 : g[Round(cap, b, j)] = f[Round(cap, b, j + delta)]
      BY <1>5, <2>8, <2>9, <2>10 DEF Round, Back
    <2> QED
      BY <2>1, <2>3, <2>5, <2>7, <2>11, <2>12 DEF Drawn, m
  <1> QED
    BY <1>1, <1>2, <1>3, <1>4, <1>5

\* The values before an erased stretch move up over it (to the right).
LEMMA RightCloses ==
    ASSUME NEW cap \in Nat, NEW f \in Blocks(cap), NEW b \in Nat, NEW s \in Nat, NEW e \in Nat,
           NEW c, Ring(c, cap, f, b, s, e), NEW i \in Nat, NEW delta \in Nat, NEW it \in Nat,
           b < cap, s < cap, e = Round(cap, b, s),
           0 < delta, i <= s, i + delta <= s, it = Round(cap, b, i)
    PROVE  \E g \in Blocks(cap) : /\ Closed_right(c, it, delta) = Refilled(c, g)
                                  /\ Drawn(cap, f, b, g, Round(cap, b, delta), s, i, delta)
  <1> DEFINE below == it - b
             wraps == it + delta - cap
             high == cap - b
             m == Closed_right(c, it, delta)
  <1>1. CASE below >= 0 /\ wraps <= 0
    <2> DEFINE g == Moved(f, cap, b + delta, b, below)
    <2>1. m = Move(Refilled(c, f), b + delta, b, below)
      BY <1>1, OwnBlock DEF Ring, Closed_right
    <2>2. /\ below \in Nat /\ b + delta \in Int /\ b \in Int
          /\ Within(cap, b + delta, below) /\ Within(cap, b, below)
      BY <1>1 DEF Within, Round
    <2>3. Move(Refilled(c, f), b + delta, b, below) = Refilled(c, g) /\ g \in Blocks(cap)
      <3> HIDE DEF below, wraps, high
      <3> QED
        BY <2>2, MoveNext DEF Ring
    <2>4. \A k \in 0 .. cap - 1 :
            g[k] = IF b + delta <= k /\ k < b + delta + below THEN f[b + (k - (b + delta))] ELSE f[k]
      BY DEF Moved
    <2> HIDE DEF m, g
    <2>5. \A j \in 0 .. i - 1 : g[Round(cap, Round(cap, b, delta), j)] = f[Round(cap, b, j)]
      <3> SUFFICES ASSUME NEW j \in 0 .. i - 1
                   PROVE  g[Round(cap, Round(cap, b, delta), j)] = f[Round(cap, b, j)]
        OBVIOUS
      <3>1. CASE b + j < cap /\ b + delta + j < cap
        BY <3>1, <1>1, <2>4 DEF Round, Back
      <3>2. CASE b + j < cap /\ b + delta < cap /\ cap <= b + delta + j
        BY <3>2, <1>1, <2>4 DEF Round, Back
      <3>3. CASE b + j < cap /\ cap <= b + delta
        BY <3>3, <1>1, <2>4 DEF Round, Back
      <3>4. CASE cap <= b + j /\ b + delta < cap
        BY <3>4, <1>1, <2>4 DEF Round, Back
      <3>5. CASE cap <= b + j /\ cap <= b + delta
        BY <3>5, <1>1, <2>4 DEF Round, Back
      <3> QED
        BY <3>1, <3>2, <3>3, <3>4, <3>5
    <2>6. \A j \in i .. s - delta - 1 : g[Round(cap, Round(cap, b, delta), j)] = f[Round(cap, b, j + delta)]
      BY <1>1, <2>4 DEF Round, Back
    <2> QED
      BY <2>1, <2>3, <2>5, <2>6 DEF Drawn, m
  <1>2. CASE below >= 0 /\ wraps > 0 /\ wraps >= below
    <2> DEFINE g == Moved(f, cap, wraps - below, b, below)
    <2>1. m = Copy(Refilled(c, f), wraps - below, b, below)
      BY <1>2, OwnBlock DEF Ring, Closed_right
    <2>2. /\ below \in Nat /\ wraps - below \in Int /\ b \in Int
          /\ Within(cap, wraps - below, below) /\ Within(cap, b, below)
          /\ below = 0 \/ wraps - below + below <= b \/ b + below <= wraps - below
      BY <1>2 DEF Within, Round
    <2>3. Copy(Refilled(c, f), wraps - below, b, below) = Refilled(c, g) /\ g \in Blocks(cap)
      <3> HIDE DEF below, wraps, high
      <3> QED
        BY <2>2, CopyNext DEF Ring
    <2>4. \A k \in 0 .. cap - 1 :
            g[k] = IF wraps - below <= k /\ k < wraps - below + below THEN f[b + (k - (wraps - below))] ELSE f[k]
      BY DEF Moved
    <2> HIDE DEF m, g
    <2>5. \A j \in 0 .. i - 1 : g[Round(cap, Round(cap, b, delta), j)] = f[Round(cap, b, j)]
      <3> TAKE j \in 0 .. i - 1
      <3> QED
        BY <1>2, <2>4 DEF Round, Back
    <2>6. \A j \in i .. s - delta - 1 : g[Round(cap, Round(cap, b, delta), j)] = f[Round(cap, b, j + delta)]
      <3> SUFFICES ASSUME NEW j \in i .. s - delta - 1
                   PROVE  g[Round(cap, Round(cap, b, delta), j)] = f[Round(cap, b, j + delta)]
        OBVIOUS
      <3>1. CASE b + delta < cap /\ b + delta + j < cap
        BY <3>1, <1>2, <2>4 DEF Round, Back
      <3>2. CASE b + delta < cap /\ cap <= b + delta + j
        BY <3>2, <1>2, <2>4 DEF Round, Back
      <3>3. CASE cap <= b + delta
        BY <3>3, <1>2, <2>4 DEF Round, Back
      <3> QED
        BY <3>1, <3>2, <3>3
    <2> QED
      BY <2>1, <2>3, <2>5, <2>6 DEF Drawn, m
  <1>3. CASE below >= 0 /\ wraps > 0 /\ wraps < below
    <2> DEFINE g1 == Moved(f, cap, 0, it - wraps, wraps)
               g == Moved(g1, cap, b + delta, b, below - wraps)
    <2>1. m = Move(Copy(Refilled(c, f), 0, it - wraps, wraps), b + delta, b, below - wraps)
      BY <1>3, OwnBlock DEF Ring, Closed_right
    <2>2. /\ wraps \in Nat /\ 0 \in Int /\ it - wraps \in Int
          /\ Within(cap, 0, wraps) /\ Within(cap, it - wraps, wraps)
          /\ wraps = 0 \/ 0 + wraps <= it - wraps \/ it - wraps + wraps <= 0
      BY <1>3 DEF Within, Round
    <2>3. Copy(Refilled(c, f), 0, it - wraps, wraps) = Refilled(c, g1) /\ g1 \in Blocks(cap)
      <3> HIDE DEF below, wraps, high
      <3> QED
        BY <2>2, CopyNext DEF Ring
    <2>4. /\ below - wraps \in Nat /\ b + delta \in Int /\ b \in Int
          /\ Within(cap, b + delta, below - wraps) /\ Within(cap, b, below - wraps)
      BY <1>3 DEF Within, Round
    <2>5. Move(Refilled(c, g1), b + delta, b, below - wraps) = Refilled(c, g) /\ g \in Blocks(cap)
      <3> HIDE DEF below, wraps, high, g1
      <3> QED
        BY <2>4, <2>3, MoveNext DEF Ring
    <2>6. \A k \in 0 .. cap - 1 :
            g1[k] = IF 0 <= k /\ k < 0 + wraps THEN f[it - wraps + (k - 0)] ELSE f[k]
      BY DEF Moved
    <2>7. \A k \in 0 .. cap - 1 :
            g[k] = IF b + delta <= k /\ k < b + delta + (below - wraps) THEN g1[b + (k - (b + delta))] ELSE g1[k]
      BY DEF Moved
    <2> HIDE DEF m, g, g1
    <2>8. \A j \in 0 .. i - 1 : g[Round(cap, Round(cap, b, delta), j)] = f[Round(cap, b, j)]
      <3> TAKE j \in 0 .. i - 1
      <3> QED
        BY <1>3, <2>6, <2>7 DEF Round, Back
    <2>9. \A j \in i .. s - delta - 1 : g[Round(cap, Round(cap, b, delta), j)] = f[Round(cap, b, j + delta)]
      BY <1>3, <2>6, <2>7 DEF Round, Back
    <2> QED
      BY <2>1, <2>3, <2>5, <2>8, <2>9 DEF Drawn, m
  <1>4. CASE below < 0 /\ high <= delta
    <2> DEFINE g1 == Moved(f, cap, delta, 0, it)
               g == Moved(g1, cap, delta - high, b, high)
    <2>1. m = Copy(Move(Refilled(c, f), delta, 0, it), delta - high, b, high)
      BY <1>4, OwnBlock DEF Ring, Closed_right
    <2>2. /\ it \in Nat /\ delta \in Int /\ 0 \in Int
          /\ Within(cap, delta, it) /\ Within(cap, 0, it)
      BY <1>4 DEF Within, Round
    <2>3. Move(Refilled(c, f), delta, 0, it) = Refilled(c, g1) /\ g1 \in Blocks(cap)
      <3> HIDE DEF below, wraps, high
      <3> QED
        BY <2>2, MoveNext DEF Ring
    <2>4. /\ high \in Nat /\ delta - high \in Int /\ b \in Int
          /\ Within(cap, delta - high, high) /\ Within(cap, b, high)
          /\ high = 0 \/ delta - high + high <= b \/ b + high <= delta - high
      BY <1>4 DEF Within, Round
    <2>5. Copy(Refilled(c, g1), delta - high, b, high) = Refilled(c, g) /\ g \in Blocks(cap)
      <3> HIDE DEF below, wraps, high, g1
      <3> QED
        BY <2>4, <2>3, CopyNext DEF Ring
    <2>6. \A k \in 0 .. cap - 1 :
            g1[k] = IF delta <= k /\ k < delta + it THEN f[0 + (k - delta)] ELSE f[k]
      BY DEF Moved
    <2>7. \A k \in 0 .. cap - 1 :
            g[k] = IF delta - high <= k /\ k < delta - high + high THEN g1[b + (k - (delta - high))] ELSE g1[k]
      BY DEF Moved
    <2> HIDE DEF m, g, g1
    <2>8. \A j \in 0 .. i - 1 : g[Round(cap, Round(cap, b, delta), j)] = f[Round(cap, b, j)]
      <3> TAKE j \in 0 .. i - 1
      <3> QED
        BY <1>4, <2>6, <2>7 DEF Round, Back
    <2>9. \A j \in i .. s - delta - 1 : g[Round(cap, Round(cap, b, delta), j)] = f[Round(cap, b, j + delta)]
      BY <1>4, <2>6, <2>7 DEF Round, Back
    <2> QED
      BY <2>1, <2>3, <2>5, <2>8, <2>9 DEF Drawn, m
  <1>5. CASE below < 0 /\ high > delta
    <2> DEFINE g1 == Moved(f, cap, delta, 0, it)
               g2 == Moved(g1, cap, 0, cap - delta, delta)
               g == Moved(g2, cap, b + delta, b, high - delta)
    <2>1. m = Move(Copy(Move(Refilled(c, f), delta, 0, it), 0, cap - delta, delta), b + delta, b, high - delta)
      BY <1>5, OwnBlock DEF Ring, Closed_right
    <2>2. /\ it \in Nat /\ delta \in Int /\ 0 \in Int
          /\ Within(cap, delta, it) /\ Within(cap, 0, it)
      BY <1>5 DEF Within, Round
    <2>3. Move(Refilled(c, f), delta, 0, it) = Refilled(c, g1) /\ g1 \in Blocks(cap)
      <3> HIDE DEF below, wraps, high
      <3> QED
        BY <2>2, MoveNext DEF Ring
    <2>4. /\ delta \in Nat /\ 0 \in Int /\ cap - delta \in Int
          /\ Within(cap, 0, delta) /\ Within(cap, cap - delta, delta)
          /\ delta = 0 \/ 0 + delta <= cap - delta \/ cap - delta + delta <= 0
      BY <1>5 DEF Within, Round
    <2>5. Copy(Refilled(c, g1), 0, cap - delta, delta) = Refilled(c, g2) /\ g2 \in Blocks(cap)
      <3> HIDE DEF below, wraps, high, g1
      <3> QED
        BY <2>4, <2>3, CopyNext DEF Ring
    <2>6. /\ high - delta \in Nat /\ b + delta \in Int /\ b \in Int
          /\ Within(cap, b + delta, high - delta) /\ Within(cap, b, high - delta)
      BY <1>5 DEF Within, Round
    <2>7. Move(Refilled(c, g2), b + delta, b, high - delta) = Refilled(c, g) /\ g \in Blocks(cap)
      <3> HIDE DEF below, wraps, high, g1, g2
      <3> QED
        BY <2>6, <2>5, MoveNext DEF Ring
    <2>8. \A k \in 0 .. cap - 1 :
            g1[k] = IF delta <= k /\ k < delta + it THEN f[0 + (k - delta)] ELSE f[k]
      BY DEF Moved
    <2>9. \A k \in 0 .. cap - 1 :
            g2[k] = IF 0 <= k /\ k < 0 + delta THEN g1[cap - delta + (k - 0)] ELSE g1[k]
      BY DEF Moved
    <2>10. \A k \in 0 .. cap - 1 :
            g[k] = IF b + delta <= k /\ k < b + delta + (high - delta) THEN g2[b + (k - (b + delta))] ELSE g2[k]
      BY DEF Moved
    <2> HIDE DEF m, g, g1, g2
    <2>11. \A j \in 0 .. i - 1 : g[Round(cap, Round(cap, b, delta), j)] = f[Round(cap, b, j)]
      <3> SUFFICES ASSUME NEW j \in 0 .. i - 1
                   PROVE  g[Round(cap, Round(cap, b, delta), j)] = f[Round(cap, b, j)]
        OBVIOUS
      <3>1. CASE b + j < cap /\ b + delta + j < cap
        BY <3>1, <1>5, <2>8, <2>9, <2>10 DEF Round, Back
      <3>2. CASE b + j < cap /\ b + delta < cap /\ cap <= b + delta + j
        BY <3>2, <1>5, <2>8, <2>9, <2>10 DEF Round, Back
      <3>3. CASE b + j < cap /\ cap <= b + delta
        BY <3>3, <1>5, <2>8, <2>9, <2>10 DEF Round, Back
      <3>4. CASE cap <= b + j /\ b + delta < cap
        BY <3>4, <1>5, <2>8, <2>9, <2>10 DEF Round, Back
      <3>5. CASE cap <= b + j /\ cap <= b + delta
        BY <3>5, <1>5, <2>8, <2>9, <2>10 DEF Round, Back
      <3> QED
        BY <3>1, <3>2, <3>3, <3>4, <3>5
    <2>12. \A j \in i .. s - delta - 1 : g[Round(cap, Round(cap, b, delta), j)] = f[Round(cap, b, j + delta)]
      BY <1>5, <2>8, <2>9, <2>10 DEF Round, Back
    <2> QED
      BY <2>1, <2>3, <2>5, <2>7, <2>11, <2>12 DEF Drawn, m
  <1> QED
    BY <1>1, <1>2, <1>3, <1>4, <1>5

----------------------------------------------------------------------------
(* A shift of the values makes room, or takes values out.                  *)

\* c with g in its block instead, size values in it, the first one at b.
Renumbered(c, g, b, size) ==
    [mem |-> g, cap |-> c.cap, begin |-> b, end |-> Round(c.cap, b, size), size |-> size,
     opts |-> c.opts, ok |-> c.ok]

LEMMA RenumberedLegal ==
    ASSUME NEW c, Legal(c), c.cap # 0, NEW g \in Blocks(c.cap), NEW b \in Nat, NEW size \in Nat,
           b < c.cap, size < c.cap
    PROVE  LET d == Renumbered(c, g, b, size)
           IN  /\ Legal(d) /\ d.cap = c.cap /\ d.mem = g /\ d.begin = b /\ d.size = size
               /\ d.opts = c.opts /\ d.ok = c.ok
  <1> DEFINE d == Renumbered(c, g, b, size)
  <1>1. Round(c.cap, b, size) \in Nat /\ c.cap \in Nat /\ c.ok \in BOOLEAN
    BY LegalRing DEF Round, Ring, Shape
  <1>2. /\ d.cap = c.cap /\ d.mem = g /\ d.begin = b /\ d.size = size
        /\ d.opts = c.opts /\ d.ok = c.ok
    BY DEF Renumbered
  <1>3. d.end = Round(d.cap, d.begin, d.size) /\ Shape(d)
    BY <1>1 DEF Renumbered, Shape
  <1> HIDE DEF d
  <1>4. d.end = Forward(d, d.begin, d.size)
    BY <1>2, <1>3, RoundIsForward
  <1> QED
    BY <1>2, <1>3, <1>4 DEF Legal, d

\* Three fields changed.
LEMMA SizeAndEnd ==
    ASSUME NEW c, Shape(c), NEW g, NEW size, NEW e
    PROVE  [Refilled(c, g) EXCEPT !.size = size, !.end = e]
             = [mem |-> g, cap |-> c.cap, begin |-> c.begin, end |-> e, size |-> size,
                opts |-> c.opts, ok |-> c.ok]
  <1> DEFINE r == Refilled(c, g)
             x == [r EXCEPT !.size = size]
  <1>1. r = [mem |-> g, cap |-> c.cap, begin |-> c.begin, end |-> c.end, size |-> c.size,
             opts |-> c.opts, ok |-> c.ok]
    BY DEF Shape, Refilled
  <1> HIDE DEF r
  <1>2. x = [mem |-> g, cap |-> c.cap, begin |-> c.begin, end |-> c.end, size |-> size,
             opts |-> c.opts, ok |-> c.ok]
    BY <1>1
  <1>3. [r EXCEPT !.size = size, !.end = e] = [x EXCEPT !.end = e]
    BY Zenon
  <1> HIDE DEF x
  <1> QED
    BY <1>2, <1>3 DEF r

LEMMA SizeAndBegin ==
    ASSUME NEW c, Shape(c), NEW g, NEW size, NEW b
    PROVE  [Refilled(c, g) EXCEPT !.size = size, !.begin = b]
             = [mem |-> g, cap |-> c.cap, begin |-> b, end |-> c.end, size |-> size,
                opts |-> c.opts, ok |-> c.ok]
  <1> DEFINE r == Refilled(c, g)
             x == [r EXCEPT !.size = size]
  <1>1. r = [mem |-> g, cap |-> c.cap, begin |-> c.begin, end |-> c.end, size |-> c.size,
             opts |-> c.opts, ok |-> c.ok]
    BY DEF Shape, Refilled
  <1> HIDE DEF r
  <1>2. x = [mem |-> g, cap |-> c.cap, begin |-> c.begin, end |-> c.end, size |-> size,
             opts |-> c.opts, ok |-> c.ok]
    BY <1>1
  <1>3. [r EXCEPT !.size = size, !.begin = b] = [x EXCEPT !.begin = b]
    BY Zenon
  <1> HIDE DEF x
  <1> QED
    BY <1>2, <1>3 DEF r

\* What a shift of the values says of the array.
LEMMA SpreadOpens ==
    ASSUME NEW c, Legal(c), c.cap # 0, NEW g \in Blocks(c.cap), NEW b \in Nat, b < c.cap,
           NEW i \in 0 .. c.size, NEW delta \in Nat, NEW size \in Nat, size = c.size + delta,
           size < c.cap,
           Spread(c.cap, c.mem, c.begin, g, b, c.size, i, delta)
    PROVE  LET d == Renumbered(c, g, b, size)
           IN  Opened(c, d, i, delta) /\ Forward(d, d.begin, i) = Round(c.cap, b, i)
  <1> DEFINE d == Renumbered(c, g, b, size)
  <1>1. c.size \in Nat /\ c.cap \in Nat
    BY LegalRing
  <1>2. /\ Legal(d) /\ d.cap = c.cap /\ d.mem = g /\ d.begin = b /\ d.size = size
        /\ d.opts = c.opts /\ d.ok = c.ok
    BY <1>1, RenumberedLegal
  <1> HIDE DEF d
  <1>3. ASSUME NEW j \in 0 .. i - 1 PROVE At(d, j) = At(c, j)
    <2>1. At(d, j) = g[Round(c.cap, b, j)] /\ At(c, j) = c.mem[Round(c.cap, c.begin, j)]
      BY <1>2, RoundIsForward
    <2> QED
      BY <2>1 DEF Spread
  <1>4. ASSUME NEW j \in i .. c.size - 1 PROVE At(d, j + delta) = At(c, j)
    <2>1. /\ At(d, j + delta) = g[Round(c.cap, b, j + delta)]
          /\ At(c, j) = c.mem[Round(c.cap, c.begin, j)]
      BY <1>2, RoundIsForward
    <2> QED
      BY <2>1 DEF Spread
  <1>5. Opened(c, d, i, delta)
    BY <1>1, <1>2, <1>3, <1>4 DEF Opened
  <1>6. Forward(d, d.begin, i) = Round(c.cap, b, i)
    BY <1>2, RoundIsForward
  <1> QED
    BY <1>5, <1>6 DEF d

LEMMA DrawnCloses ==
    ASSUME NEW c, Legal(c), c.cap # 0, NEW g \in Blocks(c.cap), NEW b \in Nat, b < c.cap,
           NEW i \in Nat, NEW delta \in Nat, i + delta <= c.size,
           Drawn(c.cap, c.mem, c.begin, g, b, c.size, i, delta)
    PROVE  Closed(c, Renumbered(c, g, b, c.size - delta), i, delta)
  <1> DEFINE d == Renumbered(c, g, b, c.size - delta)
  <1>1. c.size \in Nat /\ c.size - delta \in Nat /\ c.cap \in Nat /\ c.size - delta < c.cap
    BY LegalRing
  <1>2. /\ Legal(d) /\ d.cap = c.cap /\ d.mem = g /\ d.begin = b /\ d.size = c.size - delta
        /\ d.opts = c.opts /\ d.ok = c.ok
    BY <1>1, RenumberedLegal
  <1> HIDE DEF d
  <1>3. ASSUME NEW j \in 0 .. i - 1 PROVE At(d, j) = At(c, j)
    <2>1. At(d, j) = g[Round(c.cap, b, j)] /\ At(c, j) = c.mem[Round(c.cap, c.begin, j)]
      BY <1>2, RoundIsForward
    <2> QED
      BY <2>1 DEF Drawn
  <1>4. ASSUME NEW j \in i .. c.size - delta - 1 PROVE At(d, j) = At(c, j + delta)
    <2>1. /\ At(d, j) = g[Round(c.cap, b, j)]
          /\ At(c, j + delta) = c.mem[Round(c.cap, c.begin, j + delta)]
      BY <1>2, RoundIsForward
    <2> QED
      BY <2>1 DEF Drawn
  <1>5. Closed(c, d, i, delta)
    BY <1>2, <1>3, <1>4 DEF Closed
  <1> QED
    BY <1>5 DEF d

\* A gap is opened before the value of rank i.
LEMMA InsertRight ==
    ASSUME NEW c, Legal(c), c.cap # 0, NEW i \in 0 .. c.size, NEW delta \in Nat \ {0},
           c.size + delta < c.cap
    PROVE  LET it == Forward(c, c.begin, i)
               d  == Insert_shift_right(c, it, delta, c.size + delta)
           IN  Opened(c, d, i, delta) /\ Forward(d, d.begin, i) = it
  <1> DEFINE it == Forward(c, c.begin, i)
             d  == Insert_shift_right(c, it, delta, c.size + delta)
             b  == c.begin
  <1>1. /\ Ring(c, c.cap, c.mem, c.begin, c.size, c.end)
        /\ c.cap \in Nat /\ c.mem \in Blocks(c.cap) /\ Shape(c)
        /\ c.begin \in Nat /\ c.size \in Nat /\ c.end \in Nat
        /\ c.begin < c.cap /\ c.size < c.cap /\ c.end = Round(c.cap, c.begin, c.size)
        /\ i \in Nat /\ i <= c.size /\ delta \in Nat /\ 0 < delta
    BY LegalRing DEF Legal
  <1>2. it = Round(c.cap, c.begin, i) /\ it \in Nat /\ b \in Nat /\ b < c.cap
    BY <1>1, RoundIsForward DEF Round, Back
  <1>3. PICK g \in Blocks(c.cap) :
          /\ Opened_right(c, it, delta) = Refilled(c, g)
          /\ Spread(c.cap, c.mem, c.begin, g, b, c.size, i, delta)
    <2> HIDE DEF it
    <2> QED
      BY <1>1, <1>2, RightOpens
  <1>4. d = Renumbered(c, g, b, c.size + delta)
    <2>1. Forward(c, Refilled(c, g).end, delta) = Round(c.cap, b, c.size + delta)
      <3>1. Refilled(c, g).end = c.end
        BY <1>1 DEF Shape, Refilled
      <3>2. Round(c.cap, c.end, delta) = Round(c.cap, b, c.size + delta)
        BY <1>1 DEF Round, Back
      <3> QED
        BY <3>1, <3>2, RoundIsForward
    <2>2. d = [Refilled(c, g) EXCEPT !.size = c.size + delta, !.end = Round(c.cap, b, c.size + delta)]
      BY <1>3, <2>1 DEF Insert_shift_right
    <2> HIDE DEF b, d
    <2>3. [Refilled(c, g) EXCEPT !.size = c.size + delta, !.end = Round(c.cap, b, c.size + delta)]
            = [mem |-> g, cap |-> c.cap, begin |-> c.begin, end |-> Round(c.cap, b, c.size + delta),
               size |-> c.size + delta, opts |-> c.opts, ok |-> c.ok]
      BY <1>1, SizeAndEnd
    <2> QED
      BY <2>2, <2>3 DEF Renumbered, b
  <1> HIDE DEF b
  <1>5. /\ Opened(c, Renumbered(c, g, b, c.size + delta), i, delta)
        /\ Forward(Renumbered(c, g, b, c.size + delta), Renumbered(c, g, b, c.size + delta).begin, i)
             = Round(c.cap, b, i)
    BY <1>1, <1>2, <1>3, SpreadOpens, SMTT(30)
  <1>6. Round(c.cap, b, i) = it
    BY <1>1, <1>2, RoundIsForward DEF Round, Back, b
  <1> HIDE DEF d
  <1> QED
    BY <1>4, <1>5, <1>6 DEF d, it

LEMMA InsertLeft ==
    ASSUME NEW c, Legal(c), c.cap # 0, NEW i \in 0 .. c.size, NEW delta \in Nat \ {0},
           c.size + delta < c.cap
    PROVE  LET it == Forward(c, c.begin, i)
               d  == Insert_shift_left(c, it, delta, c.size + delta)
           IN  Opened(c, d, i, delta) /\ Forward(d, d.begin, i) = Backward(c, it, delta)
  <1> DEFINE it == Forward(c, c.begin, i)
             d  == Insert_shift_left(c, it, delta, c.size + delta)
             b  == Back(c.cap, c.begin, delta)
  <1>1. /\ Ring(c, c.cap, c.mem, c.begin, c.size, c.end)
        /\ c.cap \in Nat /\ c.mem \in Blocks(c.cap) /\ Shape(c)
        /\ c.begin \in Nat /\ c.size \in Nat /\ c.end \in Nat
        /\ c.begin < c.cap /\ c.size < c.cap /\ c.end = Round(c.cap, c.begin, c.size)
        /\ i \in Nat /\ i <= c.size /\ delta \in Nat /\ 0 < delta
    BY LegalRing DEF Legal
  <1>2. it = Round(c.cap, c.begin, i) /\ it \in Nat /\ b \in Nat /\ b < c.cap
    BY <1>1, RoundIsForward DEF Round, Back
  <1>3. PICK g \in Blocks(c.cap) :
          /\ Opened_left(c, it, delta) = Refilled(c, g)
          /\ Spread(c.cap, c.mem, c.begin, g, b, c.size, i, delta)
    <2> HIDE DEF it
    <2> QED
      BY <1>1, <1>2, LeftOpens
  <1>4. d = Renumbered(c, g, b, c.size + delta)
    <2>1. Backward(c, Refilled(c, g).begin, delta) = b
      <3>1. Refilled(c, g).begin = c.begin
        BY <1>1 DEF Shape, Refilled
      <3> QED
        BY <3>1, RoundIsForward
    <2>2. d = [Refilled(c, g) EXCEPT !.size = c.size + delta, !.begin = b]
      BY <1>3, <2>1 DEF Insert_shift_left
    <2>3. Round(c.cap, b, c.size + delta) = c.end
      BY <1>1 DEF Round, Back
    <2> HIDE DEF b, d
    <2>4. [Refilled(c, g) EXCEPT !.size = c.size + delta, !.begin = b]
            = [mem |-> g, cap |-> c.cap, begin |-> b, end |-> c.end, size |-> c.size + delta,
               opts |-> c.opts, ok |-> c.ok]
      BY <1>1, SizeAndBegin
    <2> QED
      BY <2>2, <2>3, <2>4 DEF Renumbered
  <1> HIDE DEF b
  <1>5. /\ Opened(c, Renumbered(c, g, b, c.size + delta), i, delta)
        /\ Forward(Renumbered(c, g, b, c.size + delta), Renumbered(c, g, b, c.size + delta).begin, i)
             = Round(c.cap, b, i)
    BY <1>1, <1>2, <1>3, SpreadOpens
  <1>6. Round(c.cap, b, i) = Backward(c, it, delta)
    BY <1>1, <1>2, RoundIsForward DEF Round, Back, b
  <1> HIDE DEF d
  <1> QED
    BY <1>4, <1>5, <1>6 DEF d, it

\* The gap over the erased values is closed.
LEMMA EraseLeft ==
    ASSUME NEW c, Legal(c), c.cap # 0, NEW i \in 0 .. c.size, NEW delta \in Nat \ {0},
           i + delta <= c.size
    PROVE  Closed(c, Erase_shift_left(c, Forward(c, c.begin, i + delta), delta, c.size - delta), i, delta)
  <1> DEFINE it == Forward(c, c.begin, i + delta)
             d  == Erase_shift_left(c, it, delta, c.size - delta)
             b  == c.begin
  <1>1. /\ Ring(c, c.cap, c.mem, c.begin, c.size, c.end)
        /\ c.cap \in Nat /\ c.mem \in Blocks(c.cap) /\ Shape(c)
        /\ c.begin \in Nat /\ c.size \in Nat /\ c.end \in Nat
        /\ c.begin < c.cap /\ c.size < c.cap /\ c.end = Round(c.cap, c.begin, c.size)
        /\ i \in Nat /\ i <= c.size /\ delta \in Nat /\ 0 < delta
    BY LegalRing DEF Legal
  <1>2. it = Round(c.cap, c.begin, i + delta) /\ it \in Nat /\ b \in Nat /\ b < c.cap
    BY <1>1, RoundIsForward DEF Round, Back
  <1>3. PICK g \in Blocks(c.cap) :
          /\ Closed_left(c, it, delta) = Refilled(c, g)
          /\ Drawn(c.cap, c.mem, c.begin, g, b, c.size, i, delta)
    <2> HIDE DEF it
    <2> QED
      BY <1>1, <1>2, LeftCloses
  <1>4. d = Renumbered(c, g, b, c.size - delta)
    <2>1. Backward(c, Refilled(c, g).end, delta) = Round(c.cap, b, c.size - delta)
      <3>1. Refilled(c, g).end = c.end
        BY <1>1 DEF Shape, Refilled
      <3>2. Back(c.cap, c.end, delta) = Round(c.cap, b, c.size - delta)
        BY <1>1 DEF Round, Back
      <3> QED
        BY <3>1, <3>2, RoundIsForward
    <2>2. d = [Refilled(c, g) EXCEPT !.size = c.size - delta, !.end = Round(c.cap, b, c.size - delta)]
      BY <1>3, <2>1 DEF Erase_shift_left
    <2> HIDE DEF b, d
    <2>3. [Refilled(c, g) EXCEPT !.size = c.size - delta, !.end = Round(c.cap, b, c.size - delta)]
            = [mem |-> g, cap |-> c.cap, begin |-> c.begin, end |-> Round(c.cap, b, c.size - delta),
               size |-> c.size - delta, opts |-> c.opts, ok |-> c.ok]
      BY <1>1, SizeAndEnd
    <2> QED
      BY <2>2, <2>3 DEF Renumbered, b
  <1> HIDE DEF b
  <1>5. Closed(c, Renumbered(c, g, b, c.size - delta), i, delta)
    BY <1>1, <1>2, <1>3, DrawnCloses
  <1> QED
    BY <1>4, <1>5

LEMMA EraseRight ==
    ASSUME NEW c, Legal(c), c.cap # 0, NEW i \in 0 .. c.size, NEW delta \in Nat \ {0},
           i + delta <= c.size
    PROVE  Closed(c, Erase_shift_right(c, Forward(c, c.begin, i), delta, c.size - delta), i, delta)
  <1> DEFINE it == Forward(c, c.begin, i)
             d  == Erase_shift_right(c, it, delta, c.size - delta)
             b  == Round(c.cap, c.begin, delta)
  <1>1. /\ Ring(c, c.cap, c.mem, c.begin, c.size, c.end)
        /\ c.cap \in Nat /\ c.mem \in Blocks(c.cap) /\ Shape(c)
        /\ c.begin \in Nat /\ c.size \in Nat /\ c.end \in Nat
        /\ c.begin < c.cap /\ c.size < c.cap /\ c.end = Round(c.cap, c.begin, c.size)
        /\ i \in Nat /\ i <= c.size /\ delta \in Nat /\ 0 < delta
    BY LegalRing DEF Legal
  <1>2. it = Round(c.cap, c.begin, i) /\ it \in Nat /\ b \in Nat /\ b < c.cap
    BY <1>1, RoundIsForward DEF Round, Back
  <1>3. PICK g \in Blocks(c.cap) :
          /\ Closed_right(c, it, delta) = Refilled(c, g)
          /\ Drawn(c.cap, c.mem, c.begin, g, b, c.size, i, delta)
    <2> HIDE DEF it
    <2> QED
      BY <1>1, <1>2, RightCloses
  <1>4. d = Renumbered(c, g, b, c.size - delta)
    <2>1. Forward(c, Refilled(c, g).begin, delta) = b
      <3>1. Refilled(c, g).begin = c.begin
        BY <1>1 DEF Shape, Refilled
      <3> QED
        BY <3>1, RoundIsForward
    <2>2. d = [Refilled(c, g) EXCEPT !.size = c.size - delta, !.begin = b]
      BY <1>3, <2>1 DEF Erase_shift_right
    <2>3. Round(c.cap, b, c.size - delta) = c.end
      BY <1>1 DEF Round, Back
    <2> HIDE DEF b, d
    <2>4. [Refilled(c, g) EXCEPT !.size = c.size - delta, !.begin = b]
            = [mem |-> g, cap |-> c.cap, begin |-> b, end |-> c.end, size |-> c.size - delta,
               opts |-> c.opts, ok |-> c.ok]
      BY <1>1, SizeAndBegin
    <2> QED
      BY <2>2, <2>3, <2>4 DEF Renumbered
  <1> HIDE DEF b
  <1>5. Closed(c, Renumbered(c, g, b, c.size - delta), i, delta)
    BY <1>1, <1>2, <1>3, DrawnCloses
  <1> QED
    BY <1>4, <1>5

----------------------------------------------------------------------------
(* The values as a sequence, and the same values in another block.         *)

\* s is the values of rank i up to rank k.
Lists(s, c, i, k) ==
    /\ s \in Seq(Contained) /\ Len(s) = k - i
    /\ \A j \in 1 .. k - i : s[j] = At(c, i + j - 1)

\* A function on 1 .. m is a sequence.
LEMMA ListOf ==
    ASSUME NEW S, NEW m \in Nat, NEW u \in [1 .. m -> S]
    PROVE  u \in Seq(S) /\ Len(u) = m
  OBVIOUS

\* What is copied out of the block, in one piece or round its end, are the values.
Copied(s, cap, f, b, i, k) ==
    /\ s \in Seq(Contained) /\ Len(s) = k - i
    /\ \A j \in 1 .. k - i : s[j] = f[Round(cap, b, i + j - 1)]

LEMMA BufferLists ==
    ASSUME NEW cap \in Nat, NEW f \in Blocks(cap), NEW b \in Nat, NEW size \in Nat, NEW e \in Nat,
           NEW c, Ring(c, cap, f, b, size, e), b < cap, size < cap,
           NEW i \in Nat, NEW k \in Nat, i <= k, k <= size
    PROVE  Copied(Copy_to_buf(c, Round(cap, b, i), Round(cap, b, k)), cap, f, b, i, k)
  <1> DEFINE x == Round(cap, b, i)
             y == Round(cap, b, k)
             s == Copy_to_buf(c, x, y)
  <1>1. /\ x \in Nat /\ y \in Nat /\ x < cap /\ y < cap
        /\ x <= y => /\ y - x = k - i
                     /\ \A j \in 1 .. k - i : x + j - 1 = Round(cap, b, i + j - 1)
        /\ ~(x <= y) => /\ cap - x + y = k - i
                        /\ \A j \in 1 .. cap - x : x + j - 1 = Round(cap, b, i + j - 1)
                        /\ \A j \in cap - x + 1 .. k - i :
                             j - (cap - x) - 1 = Round(cap, b, i + j - 1)
    BY DEF Round
  <1> HIDE DEF x, y
  <1>2. CASE x <= y
    <2> DEFINE u == [j \in 1 .. y - x |-> f[x + j - 1]]
    <2>1. s = u
      BY <1>2 DEF Copy_to_buf, Ring
    <2>2. u \in [1 .. y - x -> Contained] /\ y - x \in Nat
      BY <1>1, <1>2 DEF Blocks
    <2>3. u \in Seq(Contained) /\ Len(u) = y - x
      <3> HIDE DEF u
      <3> QED
        BY <2>2, ListOf
    <2>4. \A j \in 1 .. k - i : u[j] = f[Round(cap, b, i + j - 1)]
      BY <1>1, <1>2
    <2> HIDE DEF s, u
    <2>5. Copied(s, cap, f, b, i, k)
      BY <1>1, <1>2, <2>1, <2>3, <2>4 DEF Copied
    <2> QED
      BY <2>5 DEF s, x, y
  <1>3. CASE ~(x <= y)
    <2> DEFINE h == cap - x
               u == [j \in 1 .. h |-> f[x + j - 1]]
               v == [j \in 1 .. y |-> f[j - 1]]
    <2>1. s = u \o v
      BY <1>3 DEF Copy_to_buf, Ring
    <2>2. h \in Nat /\ h + y = k - i
      BY <1>1, <1>3
    <2>3. u \in [1 .. h -> Contained]
      BY <1>1, <1>3 DEF Blocks
    <2>4. v \in [1 .. y -> Contained]
      BY <1>1, <1>3 DEF Blocks
    <2>5. \A j \in 1 .. h : u[j] = f[Round(cap, b, i + j - 1)]
      BY <1>1, <1>3
    <2>6. ASSUME NEW j \in h + 1 .. k - i PROVE v[j - h] = f[Round(cap, b, i + j - 1)]
      <3>1. j - h \in 1 .. y
        BY <1>1, <2>2
      <3>2. v[j - h] = f[j - h - 1]
        BY <3>1
      <3>3. j - h - 1 = Round(cap, b, i + j - 1)
        BY <1>1, <1>3
      <3> QED
        BY <3>2, <3>3
    <2> HIDE DEF s, u, v, h
    <2>7. u \in Seq(Contained) /\ Len(u) = h /\ v \in Seq(Contained) /\ Len(v) = y
      BY <1>1, <2>2, <2>3, <2>4, ListOf
    <2>8. /\ u \o v \in Seq(Contained) /\ Len(u \o v) = h + y
          /\ \A j \in 1 .. h + y : (u \o v)[j] = IF j <= h THEN u[j] ELSE v[j - h]
      BY <2>7, ConcatProperties
    <2>9. ASSUME NEW j \in 1 .. k - i PROVE (u \o v)[j] = f[Round(cap, b, i + j - 1)]
      <3>1. CASE j <= h
        BY <1>1, <2>2, <2>5, <2>8, <3>1
      <3>2. CASE ~(j <= h)
        <4>1. j \in h + 1 .. k - i /\ j \in 1 .. h + y
          BY <2>2, <3>2
        <4>2. (u \o v)[j] = v[j - h]
          BY <2>8, <3>2, <4>1
        <4> QED
          BY <2>6, <4>1, <4>2
      <3> QED
        BY <3>1, <3>2
    <2>10. Copied(s, cap, f, b, i, k)
      BY <2>1, <2>2, <2>8, <2>9 DEF Copied
    <2> QED
      BY <2>10 DEF s, x, y
  <1> QED
    BY <1>2, <1>3

LEMMA CopyToBuf ==
    ASSUME NEW c, Legal(c), NEW i \in Nat, NEW k \in Nat, i <= k, k <= c.size
    PROVE  Lists(Copy_to_buf(c, Forward(c, c.begin, i), Forward(c, c.begin, k)), c, i, k)
  <1> DEFINE x == Forward(c, c.begin, i)
             y == Forward(c, c.begin, k)
             s == Copy_to_buf(c, x, y)
  <1>1. CASE c.cap = 0
    <2>1. c.begin = 0 /\ i = 0 /\ k = 0
      BY <1>1 DEF Legal, Shape
    <2>2. x = 0 /\ y = 0
      BY <1>1, <2>1 DEF Forward
    <2>3. s = << >>
      <3> HIDE DEF x, y
      <3> QED
        BY <2>2 DEF Copy_to_buf
    <2> HIDE DEF x, y, s
    <2>4. Lists(s, c, i, k)
      BY <2>1, <2>3 DEF Lists
    <2> QED
      BY <2>4 DEF x, y, s
  <1>2. CASE c.cap # 0
    <2>1. Copied(Copy_to_buf(c, Round(c.cap, c.begin, i), Round(c.cap, c.begin, k)),
                 c.cap, c.mem, c.begin, i, k)
      BY <1>2, LegalRing, BufferLists
    <2>2. x = Round(c.cap, c.begin, i) /\ y = Round(c.cap, c.begin, k)
      BY RoundIsForward
    <2> HIDE DEF x, y
    <2>3. Copied(s, c.cap, c.mem, c.begin, i, k)
      BY <2>1, <2>2
    <2> HIDE DEF s
    <2>4. Lists(s, c, i, k)
      BY <2>3, RoundIsForward DEF Lists, Copied
    <2> QED
      BY <2>4 DEF x, y, s
  <1> QED
    BY <1>1, <1>2

\* A new block holds a sequence from its base on.
Renewed(c, d, seq) ==
    /\ Legal(d) /\ d.size = Len(seq) /\ d.opts = c.opts /\ d.ok = c.ok
    /\ \A j \in 0 .. Len(seq) - 1 : At(d, j) = seq[j + 1]
    /\ \A j \in 0 .. Len(seq) : Forward(d, d.begin, j) = j

LEMMA ReallocatedLegal ==
    ASSUME NEW c, Shape(c), NEW seq \in Seq(Contained), NEW n \in Nat, Len(seq) < n
    PROVE  Renewed(c, Reallocated(c, seq, n), seq)
  <1> DEFINE d == Reallocated(c, seq, n)
             m == [i \in 0 .. n - 1 |-> IF i < Len(seq) THEN seq[i + 1] ELSE Junk]
  <1>1. m \in Blocks(n)
    BY DEF Blocks, Contained
  <1>2. d = [mem |-> m, cap |-> n, begin |-> 0, end |-> Len(seq), size |-> Len(seq),
             opts |-> c.opts, ok |-> c.ok]
    BY DEF Reallocated, Shape
  <1>3. c.ok \in BOOLEAN /\ \A j \in 0 .. Len(seq) - 1 : m[j] = seq[j + 1]
    BY DEF Shape
  <1> HIDE DEF d, m
  <1>4. /\ d.mem = m /\ d.cap = n /\ d.begin = 0 /\ d.end = Len(seq) /\ d.size = Len(seq)
        /\ d.opts = c.opts /\ d.ok = c.ok
    BY <1>2
  <1>5. Shape(d)
    BY <1>1, <1>2, <1>3, <1>4 DEF Shape
  <1>6. ASSUME NEW j \in 0 .. Len(seq) PROVE Forward(d, d.begin, j) = j
    BY <1>4 DEF Forward
  <1>7. Legal(d)
    BY <1>4, <1>5, <1>6 DEF Legal
  <1>8. \A j \in 0 .. Len(seq) - 1 : At(d, j) = seq[j + 1]
    BY <1>3, <1>4, <1>6 DEF At
  <1> QED
    BY <1>4, <1>6, <1>7, <1>8 DEF Renewed, d

\* The capacity an array gives itself has room for one value more than its size.
LEMMA NewCapacity ==
    ASSUME NEW size \in Nat
    PROVE  New_cap(size) \in Nat /\ size < New_cap(size)
  <1>1. MIN_AUTO_ALLOC \in Nat /\ 0 < MIN_AUTO_ALLOC
    BY AllocAssumption
  <1>2. \E x \in {2 * size, MIN_AUTO_ALLOC} : \A y \in {2 * size, MIN_AUTO_ALLOC} : x >= y
    BY <1>1
  <1>3. /\ New_cap(size) \in {2 * size, MIN_AUTO_ALLOC}
        /\ \A y \in {2 * size, MIN_AUTO_ALLOC} : New_cap(size) >= y
    BY <1>2 DEF New_cap, Max
  <1> QED
    BY <1>1, <1>3

----------------------------------------------------------------------------
(* Room is made, and values go, by a shift or in a new block.              *)

\* Steps round the end of the block add up and can be taken back.
LEMMA ForwardAdds ==
    ASSUME NEW c, Legal(c), NEW i \in Nat, NEW n \in Nat, i + n <= c.size
    PROVE  /\ Forward(c, Forward(c, c.begin, i), n) = Forward(c, c.begin, i + n)
           /\ Backward(c, Forward(c, c.begin, i + n), n) = Forward(c, c.begin, i)
           /\ Forward(c, c.begin, 0) = c.begin
  <1> DEFINE b == c.begin
             cap == c.cap
  <1>1. b \in Nat /\ cap \in Nat /\ i + n \in Nat /\ i + n <= c.size /\ c.size \in Nat
    BY DEF Legal, Shape
  <1>2. (cap = 0 /\ c.size = 0 /\ b = 0) \/ (c.size < cap /\ b < cap)
    BY DEF Legal
  <1> HIDE DEF b, cap
  <1>3. /\ Round(cap, Round(cap, b, i), n) = Round(cap, b, i + n)
        /\ Back(cap, Round(cap, b, i + n), n) = Round(cap, b, i)
        /\ Round(cap, b, 0) = b
    BY <1>1, <1>2 DEF Round, Back
  <1> QED
    BY <1>3, RoundIsForward DEF b, cap

\* The result of a call that makes room for delta values before the value of rank i.
MakesRoom(r, c, i, delta) ==
    /\ r = Result(r.c, r.it, r.ret)
    /\ r.ret # "success" => r.c = c
    /\ r.ret = "success" => Opened(c, r.c, i, delta) /\ r.it = Forward(r.c, r.c.begin, i)

LEMMA InsertShift ==
    ASSUME NEW c, Legal(c), NEW i \in 0 .. c.size, NEW delta \in Nat,
           NEW right, NEW nomem
    PROVE  MakesRoom(Carr_insert_shift(c, Forward(c, c.begin, i), delta, right, nomem), c, i, delta)
  <1> DEFINE it == Forward(c, c.begin, i)
             size == c.size + delta
             before == Copy_to_buf(c, c.begin, it)
             junk == [k \in 1 .. delta |-> Junk]
             after == Copy_to_buf(c, it, c.end)
             seq == before \o junk \o after
             r == Carr_insert_shift(c, it, delta, right, nomem)
  <1>1. c.size \in Nat /\ i \in Nat /\ i <= c.size /\ size \in Nat /\ Shape(c) /\ c.cap \in Nat
    BY DEF Legal, Shape
  <1>2. CASE delta = 0
    <2>1. r = Result(c, it, "success")
      BY <1>2 DEF Carr_insert_shift
    <2>2. Opened(c, c, i, delta)
      BY <1>1, <1>2 DEF Opened
    <2> HIDE DEF r, it
    <2> QED
      BY <2>1, <2>2 DEF MakesRoom, Result, r, it
  <1>3. CASE delta # 0 /\ size <= High_capacity(c)
    <2>1. c.cap # 0 /\ size < c.cap
      BY <1>1, <1>3 DEF High_capacity
    <2>4. ~(size > High_capacity(c)) /\ c.size + delta <= High_capacity(c)
      BY <1>1, <1>3 DEF High_capacity
    <2>2. CASE right
      <3> DEFINE d == Insert_shift_right(c, it, delta, size)
      <3>1. r = Result(d, it, "success")
        BY <1>3, <2>2, <2>4, Zenon DEF Carr_insert_shift
      <3>2. Opened(c, d, i, delta) /\ Forward(d, d.begin, i) = it
        BY <1>3, <2>1, InsertRight
      <3> HIDE DEF r, it, d
      <3> QED
        BY <3>1, <3>2 DEF MakesRoom, Result, r, it
    <2>3. CASE ~right
      <3> DEFINE d == Insert_shift_left(c, it, delta, size)
      <3>1. r = Result(d, Backward(c, it, delta), "success")
        BY <1>3, <2>3, <2>4, Zenon DEF Carr_insert_shift
      <3>2. Opened(c, d, i, delta) /\ Forward(d, d.begin, i) = Backward(c, it, delta)
        BY <1>3, <2>1, InsertLeft
      <3> HIDE DEF r, it, d
      <3> QED
        BY <3>1, <3>2 DEF MakesRoom, Result, r, it
    <2> QED
      BY <2>2, <2>3
  <1>4. CASE delta # 0 /\ size > High_capacity(c) /\ ("no_grow" \in c.opts \/ nomem)
    <2>1. r = Result(c, it, "acces") \/ r = Result(c, it, "nomem")
      BY <1>1, <1>4 DEF Carr_insert_shift, High_capacity
    <2> HIDE DEF r, it
    <2> QED
      BY <2>1 DEF MakesRoom, Result, r, it
  <1>5. CASE delta # 0 /\ size > High_capacity(c) /\ "no_grow" \notin c.opts /\ ~nomem
    <2> DEFINE d == Reallocated(c, seq, New_cap(size))
    <2>1. r = Result(d, Len(before), "success")
      BY <1>1, <1>5 DEF Carr_insert_shift, High_capacity
    <2>2. Lists(before, c, 0, i)
      <3>1. Forward(c, c.begin, 0) = c.begin
        BY <1>1, ForwardAdds
      <3> QED
        BY <1>1, <3>1, CopyToBuf
    <2>3. Lists(after, c, i, c.size)
      BY <1>1, CopyToBuf DEF Legal
    <2>4. junk \in Seq(Contained) /\ Len(junk) = delta
      <3>1. junk \in [1 .. delta -> Contained]
        BY DEF Contained
      <3> HIDE DEF junk
      <3> QED
        BY <3>1, ListOf
    <2> HIDE DEF before, junk, after, r, it
    <2>5. /\ before \o junk \in Seq(Contained) /\ Len(before \o junk) = i + delta
          /\ \A j \in 1 .. i : (before \o junk)[j] = At(c, j - 1)
      <3>1. /\ before \in Seq(Contained) /\ Len(before) = i
            /\ \A j \in 1 .. i : before[j] = At(c, j - 1)
        BY <1>1, <2>2 DEF Lists
      <3>2. /\ before \o junk \in Seq(Contained)
            /\ Len(before \o junk) = Len(before) + Len(junk)
            /\ \A j \in 1 .. Len(before) + Len(junk) : (before \o junk)[j]
                 = IF j <= Len(before) THEN before[j] ELSE junk[j - Len(before)]
        BY <2>4, <3>1, ConcatProperties
      <3> QED
        BY <1>1, <2>4, <3>1, <3>2
    <2>6. /\ seq \in Seq(Contained) /\ Len(seq) = size
          /\ \A j \in 0 .. i - 1 : seq[j + 1] = At(c, j)
          /\ \A j \in i .. c.size - 1 : seq[j + delta + 1] = At(c, j)
      <3> DEFINE front == before \o junk
      <3> HIDE DEF front
      <3>1. /\ after \in Seq(Contained) /\ Len(after) = c.size - i
            /\ \A j \in 1 .. c.size - i : after[j] = At(c, i + j - 1)
        BY <1>1, <2>3 DEF Lists
      <3>2. /\ front \in Seq(Contained) /\ Len(front) = i + delta
            /\ \A j \in 1 .. i : front[j] = At(c, j - 1)
        BY <2>5 DEF front
      <3>3. /\ front \o after \in Seq(Contained) /\ Len(front \o after) = size
            /\ \A j \in 1 .. size : (front \o after)[j]
                 = IF j <= i + delta THEN front[j] ELSE after[j - (i + delta)]
        <4>1. /\ front \o after \in Seq(Contained)
              /\ Len(front \o after) = Len(front) + Len(after)
              /\ \A j \in 1 .. Len(front) + Len(after) : (front \o after)[j]
                   = IF j <= Len(front) THEN front[j] ELSE after[j - Len(front)]
          BY <3>1, <3>2, ConcatProperties
        <4>2. Len(front) + Len(after) = size /\ Len(front) = i + delta
          BY <1>1, <3>1, <3>2
        <4> HIDE DEF size
        <4> QED
          BY <4>1, <4>2
      <3>4. ASSUME NEW j \in 0 .. i - 1 PROVE (front \o after)[j + 1] = At(c, j)
        <4>1. j + 1 \in 1 .. i /\ j + 1 \in 1 .. size /\ j + 1 <= i + delta /\ j + 1 - 1 = j
          BY <1>1
        <4>2. (front \o after)[j + 1] = front[j + 1]
          BY <3>3, <4>1
        <4> QED
          BY <3>2, <4>1, <4>2
      <3>5. ASSUME NEW j \in i .. c.size - 1 PROVE (front \o after)[j + delta + 1] = At(c, j)
        <4>1. /\ j + delta + 1 \in 1 .. size /\ ~(j + delta + 1 <= i + delta)
              /\ j + delta + 1 - (i + delta) = j - i + 1 /\ j - i + 1 \in 1 .. c.size - i
              /\ i + (j - i + 1) - 1 = j
          BY <1>1
        <4>2. (front \o after)[j + delta + 1] = after[j - i + 1]
          BY <3>3, <4>1
        <4>3. after[j - i + 1] = At(c, i + (j - i + 1) - 1)
          BY <3>1, <4>1
        <4> QED
          BY <4>1, <4>2, <4>3
      <3> QED
        BY <3>3, <3>4, <3>5 DEF front
    <2> HIDE DEF seq
    <2>7. New_cap(size) \in Nat /\ Len(seq) < New_cap(size)
      BY <1>1, <2>6, NewCapacity
    <2>8. Renewed(c, d, seq)
      BY <1>1, <2>6, <2>7, ReallocatedLegal
    <2> HIDE DEF d
    <2>9. Opened(c, d, i, delta)
      <3>1. ASSUME NEW j \in 0 .. i - 1 PROVE At(d, j) = At(c, j)
        <4>1. j \in 0 .. Len(seq) - 1
          BY <1>1, <2>6
        <4> QED
          BY <2>6, <2>8, <4>1 DEF Renewed
      <3>2. ASSUME NEW j \in i .. c.size - 1 PROVE At(d, j + delta) = At(c, j)
        <4>1. j + delta \in 0 .. Len(seq) - 1
          BY <1>1, <2>6
        <4> QED
          BY <2>6, <2>8, <4>1 DEF Renewed
      <3> QED
        BY <1>1, <2>6, <2>8, <3>1, <3>2 DEF Opened, Renewed
    <2>10. Len(before) = i /\ Forward(d, d.begin, i) = i
      <3>1. i \in 0 .. Len(seq)
        BY <1>1, <2>6
      <3> QED
        BY <1>1, <2>2, <2>8, <3>1 DEF Lists, Renewed
    <2> QED
      BY <2>1, <2>9, <2>10 DEF MakesRoom, Result, r, it
  <1> QED
    BY <1>1, <1>2, <1>3, <1>4, <1>5 DEF High_capacity

\* The result of a call that takes out the delta values of rank i and more.
TakesOut(r, c, i, delta) == r = Result(r.c, r.it, "success") /\ Closed(c, r.c, i, delta)

LEMMA EraseShift ==
    ASSUME NEW c, Legal(c), NEW i \in Nat, NEW delta \in Nat, i + delta <= c.size,
           NEW right, NEW nomem
    PROVE  TakesOut(Carr_erase_shift(c, Forward(c, c.begin, IF right THEN i ELSE i + delta),
                                     delta, right, nomem), c, i, delta)
  <1> DEFINE from == Forward(c, c.begin, i)
             to   == Forward(c, c.begin, i + delta)
             it   == Forward(c, c.begin, IF right THEN i ELSE i + delta)
             size == c.size - delta
             shrinks == /\ "no_shrink" \notin c.opts
                        /\ size <= Low_capacity(c)
                        /\ c.cap # MIN_AUTO_ALLOC
                        /\ ~nomem
             before == Copy_to_buf(c, c.begin, from)
             after  == Copy_to_buf(c, to, c.end)
             r == Carr_erase_shift(c, it, delta, right, nomem)
  <1>1. c.size \in Nat /\ i <= c.size /\ size \in Nat /\ Shape(c) /\ c.cap \in Nat /\ i + delta \in Nat
    BY DEF Legal, Shape
  <1>2. CASE delta = 0
    <2>1. r = Result(c, it, "success")
      BY <1>2 DEF Carr_erase_shift
    <2>2. Closed(c, c, i, delta)
      BY <1>1, <1>2 DEF Closed
    <2> HIDE DEF r, it
    <2> QED
      BY <2>1, <2>2 DEF TakesOut, Result, r, it
  <1>3. CASE delta # 0 /\ ~shrinks
    <2>1. c.cap # 0 /\ delta \in Nat \ {0} /\ i \in 0 .. c.size
      BY <1>1, <1>3 DEF Legal
    <2>2. CASE right
      <3> DEFINE d == Erase_shift_right(c, from, delta, size)
      <3>1. r = Result(d, Forward(c, from, delta), "success")
        BY <1>3, <2>2, Zenon DEF Carr_erase_shift
      <3>2. Closed(c, d, i, delta)
        BY <2>1, EraseRight
      <3> HIDE DEF r, it, d
      <3> QED
        BY <3>1, <3>2 DEF TakesOut, Result, r, it
    <2>3. CASE ~right
      <3> DEFINE d == Erase_shift_left(c, to, delta, size)
      <3>1. r = Result(d, to, "success")
        BY <1>3, <2>3, Zenon DEF Carr_erase_shift
      <3>2. Closed(c, d, i, delta)
        BY <2>1, EraseLeft
      <3> HIDE DEF r, it, d
      <3> QED
        BY <3>1, <3>2 DEF TakesOut, Result, r, it
    <2> QED
      BY <2>2, <2>3
  <1>4. CASE delta # 0 /\ shrinks
    <2> DEFINE seq == before \o after
               d == Reallocated(c, seq, New_cap(size))
    <2>1. r = Result(d, Len(before), "success")
      <3>1. /\ Forward(c, from, delta) = to /\ Backward(c, to, delta) = from
        BY <1>1, ForwardAdds
      <3>2. CASE right
        <4>1. it = from
          BY <3>2
        <4> HIDE DEF from, to, it, d
        <4>2. r = Result(Reallocated(c, Copy_to_buf(c, c.begin, from)
                                          \o Copy_to_buf(c, Forward(c, from, delta), c.end),
                                     New_cap(c.size - delta)),
                         Len(Copy_to_buf(c, c.begin, from)), "success")
          BY <1>4, <3>2, <4>1, Zenon DEF Carr_erase_shift
        <4> QED
          BY <3>1, <4>2, Zenon DEF d
      <3>3. CASE ~right
        <4>1. it = to
          BY <3>3
        <4> HIDE DEF from, to, it, d
        <4>2. r = Result(Reallocated(c, Copy_to_buf(c, c.begin, Backward(c, to, delta))
                                          \o Copy_to_buf(c, to, c.end),
                                     New_cap(c.size - delta)),
                         Len(Copy_to_buf(c, c.begin, Backward(c, to, delta))), "success")
          BY <1>4, <3>3, <4>1, Zenon DEF Carr_erase_shift
        <4> QED
          BY <3>1, <4>2, Zenon DEF d
      <3> QED
        BY <3>2, <3>3
    <2>2. Lists(before, c, 0, i)
      <3>1. Forward(c, c.begin, 0) = c.begin
        BY <1>1, ForwardAdds
      <3> QED
        BY <1>1, <3>1, CopyToBuf
    <2>3. Lists(after, c, i + delta, c.size)
      BY <1>1, CopyToBuf DEF Legal
    <2> HIDE DEF before, after, r, it
    <2>4. /\ seq \in Seq(Contained) /\ Len(seq) = size
          /\ \A j \in 0 .. i - 1 : seq[j + 1] = At(c, j)
          /\ \A j \in i .. size - 1 : seq[j + 1] = At(c, j + delta)
      <3>1. /\ after \in Seq(Contained) /\ Len(after) = size - i
            /\ \A j \in 1 .. size - i : after[j] = At(c, i + delta + j - 1)
        <4>1. c.size - (i + delta) = size - i
          BY <1>1
        <4> HIDE DEF size
        <4> QED
          BY <1>1, <2>3, <4>1 DEF Lists
      <3>2. /\ before \in Seq(Contained) /\ Len(before) = i
            /\ \A j \in 1 .. i : before[j] = At(c, j - 1)
        BY <1>1, <2>2 DEF Lists
      <3>3. /\ seq \in Seq(Contained) /\ Len(seq) = size
            /\ \A j \in 1 .. size : seq[j] = IF j <= i THEN before[j] ELSE after[j - i]
        <4>1. /\ seq \in Seq(Contained) /\ Len(seq) = Len(before) + Len(after)
              /\ \A j \in 1 .. Len(before) + Len(after) : seq[j]
                   = IF j <= Len(before) THEN before[j] ELSE after[j - Len(before)]
          BY <3>1, <3>2, ConcatProperties
        <4>2. Len(before) + Len(after) = size /\ Len(before) = i
          BY <1>1, <3>1, <3>2
        <4> HIDE DEF size, seq
        <4> QED
          BY <4>1, <4>2
      <3> HIDE DEF seq
      <3>4. ASSUME NEW j \in 0 .. i - 1 PROVE seq[j + 1] = At(c, j)
        <4>1. j + 1 \in 1 .. i /\ j + 1 \in 1 .. size /\ j + 1 <= i /\ j + 1 - 1 = j
          BY <1>1
        <4>2. seq[j + 1] = before[j + 1]
          BY <3>3, <4>1
        <4> QED
          BY <3>2, <4>1, <4>2
      <3>5. ASSUME NEW j \in i .. size - 1 PROVE seq[j + 1] = At(c, j + delta)
        <4>1. /\ j + 1 \in 1 .. size /\ ~(j + 1 <= i) /\ j + 1 - i \in 1 .. size - i
              /\ i + delta + (j + 1 - i) - 1 = j + delta
          BY <1>1
        <4>2. seq[j + 1] = after[j + 1 - i]
          BY <3>3, <4>1
        <4>3. after[j + 1 - i] = At(c, i + delta + (j + 1 - i) - 1)
          BY <3>1, <4>1
        <4> QED
          BY <4>1, <4>2, <4>3
      <3> QED
        BY <3>3, <3>4, <3>5
    <2> HIDE DEF seq
    <2>5. New_cap(size) \in Nat /\ Len(seq) < New_cap(size)
      BY <1>1, <2>4, NewCapacity
    <2>6. Renewed(c, d, seq)
      BY <1>1, <2>4, <2>5, ReallocatedLegal
    <2> HIDE DEF d
    <2>7. Closed(c, d, i, delta)
      <3>1. ASSUME NEW j \in 0 .. i - 1 PROVE At(d, j) = At(c, j)
        <4>1. j \in 0 .. Len(seq) - 1
          BY <1>1, <2>4
        <4> QED
          BY <2>4, <2>6, <4>1 DEF Renewed
      <3>2. ASSUME NEW j \in i .. size - 1 PROVE At(d, j) = At(c, j + delta)
        <4>1. j \in 0 .. Len(seq) - 1
          BY <1>1, <2>4
        <4> QED
          BY <2>4, <2>6, <4>1 DEF Renewed
      <3> QED
        BY <1>1, <2>4, <2>6, <3>1, <3>2 DEF Closed, Renewed
    <2> QED
      BY <2>1, <2>7 DEF TakesOut, Result, r, it
  <1> QED
    BY <1>2, <1>3, <1>4

----------------------------------------------------------------------------
(* The sequence an array holds.                                            *)

LEMMA ContainedSeq == ASSUME NEW s \in Seq(Values) PROVE s \in Seq(Contained)
  BY DEF Contained

\* s with vals before its value of rank i; s without n values from that one on.
Inserted(s, i, vals) == SubSeq(s, 1, i) \o vals \o SubSeq(s, i + 1, Len(s))
Erased(s, i, n)      == SubSeq(s, 1, i) \o SubSeq(s, i + n + 1, Len(s))

LEMMA InsertedIs ==
    ASSUME NEW S, NEW s \in Seq(S), NEW i \in 0 .. Len(s), NEW vals \in Seq(S)
    PROVE  LET t == Inserted(s, i, vals)
               n == Len(vals)
           IN  /\ t \in Seq(S) /\ Len(t) = Len(s) + n
               /\ \A j \in 1 .. i : t[j] = s[j]
               /\ \A j \in i + 1 .. i + n : t[j] = vals[j - i]
               /\ \A j \in i + 1 .. Len(s) : t[j + n] = s[j]
  <1> DEFINE n == Len(vals)
             l == Len(s)
             u == SubSeq(s, 1, i)
             w == SubSeq(s, i + 1, l)
             f == u \o vals
             t == f \o w
  <1>1. n \in Nat /\ l \in Nat /\ i \in Nat /\ i <= l
    OBVIOUS
  <1>2. \A j \in 1 .. l : s[j] \in S
    OBVIOUS
  <1> HIDE DEF l
  <1>3. /\ u \in Seq(S) /\ Len(u) = i
        /\ \A j \in 1 .. i : u[j] = s[j]
    <2>1. \A j \in 1 .. i : s[j] \in S
      BY <1>1, <1>2
    <2>2. /\ u \in Seq(S) /\ Len(u) = (IF 1 <= i THEN i - 1 + 1 ELSE 0)
          /\ \A j \in 1 .. i - 1 + 1 : u[j] = s[1 + j - 1]
      BY <1>1, <2>1, SubSeqProperties
    <2> HIDE DEF u
    <2> QED
      BY <1>1, <2>2
  <1>4. /\ w \in Seq(S) /\ Len(w) = l - i
        /\ \A j \in 1 .. l - i : w[j] = s[i + j]
    <2>1. \A j \in i + 1 .. l : s[j] \in S
      BY <1>1, <1>2
    <2>2. /\ w \in Seq(S) /\ Len(w) = (IF i + 1 <= l THEN l - (i + 1) + 1 ELSE 0)
          /\ \A j \in 1 .. l - (i + 1) + 1 : w[j] = s[i + 1 + j - 1]
      BY <1>1, <2>1, SubSeqProperties
    <2> HIDE DEF w
    <2> QED
      BY <1>1, <2>2
  <1> HIDE DEF u, w, n
  <1>5. /\ f \in Seq(S) /\ Len(f) = i + n
        /\ \A j \in 1 .. i + n : f[j] = IF j <= i THEN s[j] ELSE vals[j - i]
    <2>1. /\ f \in Seq(S) /\ Len(f) = Len(u) + Len(vals)
          /\ \A j \in 1 .. Len(u) + Len(vals) : f[j]
               = IF j <= Len(u) THEN u[j] ELSE vals[j - Len(u)]
      BY <1>3, ConcatProperties
    <2> HIDE DEF f
    <2> QED
      BY <1>1, <1>3, <2>1 DEF n
  <1> HIDE DEF f
  <1>6. /\ t \in Seq(S) /\ Len(t) = l + n
        /\ \A j \in 1 .. l + n : t[j] = IF j <= i + n THEN f[j] ELSE w[j - (i + n)]
    <2>1. /\ t \in Seq(S) /\ Len(t) = Len(f) + Len(w)
          /\ \A j \in 1 .. Len(f) + Len(w) : t[j] = IF j <= Len(f) THEN f[j] ELSE w[j - Len(f)]
      BY <1>4, <1>5, ConcatProperties
    <2>2. Len(f) + Len(w) = l + n
      BY <1>1, <1>4, <1>5
    <2> HIDE DEF t
    <2> QED
      BY <1>5, <2>1, <2>2
  <1> HIDE DEF t
  <1>7. ASSUME NEW j \in 1 .. i PROVE t[j] = s[j]
    BY <1>1, <1>5, <1>6
  <1>8. ASSUME NEW j \in i + 1 .. i + n PROVE t[j] = vals[j - i]
    <2>1. j \in 1 .. l + n /\ j \in 1 .. i + n /\ j <= i + n /\ ~(j <= i)
      BY <1>1
    <2> QED
      BY <1>5, <1>6, <2>1
  <1>9. ASSUME NEW j \in i + 1 .. l PROVE t[j + n] = s[j]
    <2>1. /\ j + n \in 1 .. l + n /\ ~(j + n <= i + n) /\ j + n - (i + n) = j - i
          /\ j - i \in 1 .. l - i /\ i + (j - i) = j
      BY <1>1
    <2>2. PICK k \in 1 .. l + n : k = j + n /\ ~(k <= i + n) /\ k - (i + n) = j - i
      BY <1>1, <2>1
    <2>3. t[k] = w[k - (i + n)]
      BY <1>6, <2>2
    <2>4. w[j - i] = s[j]
      BY <1>4, <2>1
    <2> QED
      BY <2>2, <2>3, <2>4
  <1>10. t = Inserted(s, i, vals)
    BY DEF Inserted, t, f, u, w, l
  <1> QED
    BY <1>6, <1>7, <1>8, <1>9, <1>10 DEF n, l

LEMMA ErasedIs ==
    ASSUME NEW S, NEW s \in Seq(S), NEW i \in Nat, NEW n \in Nat, i + n <= Len(s)
    PROVE  LET t == Erased(s, i, n)
           IN  /\ t \in Seq(S) /\ Len(t) = Len(s) - n
               /\ \A j \in 1 .. i : t[j] = s[j]
               /\ \A j \in i + 1 .. Len(s) - n : t[j] = s[j + n]
  <1> DEFINE l == Len(s)
             u == SubSeq(s, 1, i)
             w == SubSeq(s, i + n + 1, l)
             t == u \o w
  <1>1. l \in Nat /\ i + n <= l
    OBVIOUS
  <1>2. \A j \in 1 .. l : s[j] \in S
    OBVIOUS
  <1> HIDE DEF l
  <1>3. /\ u \in Seq(S) /\ Len(u) = i
        /\ \A j \in 1 .. i : u[j] = s[j]
    <2>1. \A j \in 1 .. i : s[j] \in S
      BY <1>1, <1>2
    <2>2. /\ u \in Seq(S) /\ Len(u) = (IF 1 <= i THEN i - 1 + 1 ELSE 0)
          /\ \A j \in 1 .. i - 1 + 1 : u[j] = s[1 + j - 1]
      BY <1>1, <2>1, SubSeqProperties
    <2> HIDE DEF u
    <2> QED
      BY <1>1, <2>2
  <1>4. /\ w \in Seq(S) /\ Len(w) = l - (i + n)
        /\ \A j \in 1 .. l - (i + n) : w[j] = s[i + n + j]
    <2> DEFINE m == i + n
    <2>1. \A j \in m + 1 .. l : s[j] \in S
      BY <1>1, <1>2
    <2>2. m \in Nat /\ m <= l
      BY <1>1
    <2> HIDE DEF m
    <2>3. /\ w \in Seq(S) /\ Len(w) = (IF m + 1 <= l THEN l - (m + 1) + 1 ELSE 0)
          /\ \A j \in 1 .. l - (m + 1) + 1 : w[j] = s[m + 1 + j - 1]
      BY <1>1, <2>1, <2>2, SubSeqProperties DEF m
    <2> HIDE DEF w
    <2>4. /\ w \in Seq(S) /\ Len(w) = l - m
          /\ \A j \in 1 .. l - m : w[j] = s[m + j]
      BY <1>1, <2>2, <2>3
    <2> QED
      BY <2>4 DEF m
  <1> HIDE DEF u, w
  <1>5. /\ t \in Seq(S) /\ Len(t) = l - n
        /\ \A j \in 1 .. l - n : t[j] = IF j <= i THEN u[j] ELSE w[j - i]
    <2>1. /\ t \in Seq(S) /\ Len(t) = Len(u) + Len(w)
          /\ \A j \in 1 .. Len(u) + Len(w) : t[j] = IF j <= Len(u) THEN u[j] ELSE w[j - Len(u)]
      <3>1. u \in Seq(S) /\ w \in Seq(S)
        BY <1>3, <1>4
      <3> QED
        BY <3>1, ConcatProperties
    <2>2. Len(u) + Len(w) = l - n
      BY <1>1, <1>3, <1>4
    <2> HIDE DEF t
    <2> QED
      BY <1>3, <2>1, <2>2
  <1> HIDE DEF t
  <1>6. ASSUME NEW j \in 1 .. i PROVE t[j] = s[j]
    BY <1>1, <1>3, <1>5
  <1>7. ASSUME NEW j \in i + 1 .. l - n PROVE t[j] = s[j + n]
    <2>1. /\ j \in 1 .. l - n /\ ~(j <= i) /\ j - i \in 1 .. l - (i + n) /\ i + n + (j - i) = j + n
      BY <1>1
    <2>2. t[j] = w[j - i]
      BY <1>5, <2>1
    <2> QED
      BY <1>4, <2>1, <2>2
  <1>8. t = Erased(s, i, n)
    BY DEF Erased, t, u, w, l
  <1> QED
    BY <1>5, <1>6, <1>7, <1>8 DEF l

\* The ends: values put behind all, before all; values taken off the end, off the front.
LEMMA Ends ==
    ASSUME NEW S, NEW s \in Seq(S), NEW vals \in Seq(S), NEW n \in 0 .. Len(s)
    PROVE  /\ s \o vals = Inserted(s, Len(s), vals) /\ vals \o s = Inserted(s, 0, vals)
           /\ SubSeq(s, 1, Len(s) - n) = Erased(s, Len(s) - n, n)
           /\ SubSeq(s, n + 1, Len(s)) = Erased(s, 0, n)
  <1>1. Len(s) \in Nat /\ n \in Nat /\ n <= Len(s)
    OBVIOUS
  <1>2. SubSeq(s, 1, Len(s)) = s
    BY SubSeqFull
  <1>3. SubSeq(s, 1, 0) = << >> /\ SubSeq(s, Len(s) + 1, Len(s)) = << >>
    BY <1>1, SubSeqEmpty
  <1>4. s \o vals \in Seq(S) /\ vals \o s \in Seq(S)
    BY ConcatProperties
  <1>5. s \o vals = Inserted(s, Len(s), vals)
    BY <1>2, <1>3, <1>4, ConcatEmptySeq DEF Inserted
  <1>6. vals \o s = Inserted(s, 0, vals)
    BY <1>2, <1>3, <1>4, ConcatEmptySeq DEF Inserted
  <1>7. ASSUME NEW a \in Nat, NEW b \in Nat, 1 <= a, b <= Len(s) PROVE SubSeq(s, a, b) \in Seq(S)
    BY <1>7, SubSeqProperties
  <1>8. SubSeq(s, 1, Len(s) - n) = Erased(s, Len(s) - n, n)
    <2>1. Len(s) - n + n + 1 = Len(s) + 1 /\ Len(s) - n \in Nat /\ Len(s) - n <= Len(s)
      BY <1>1
    <2>2. SubSeq(s, 1, Len(s) - n) \in Seq(S)
      BY <1>7, <2>1
    <2> QED
      BY <1>3, <2>1, <2>2, ConcatEmptySeq DEF Erased
  <1>9. SubSeq(s, n + 1, Len(s)) = Erased(s, 0, n)
    <2>1. 0 + n + 1 = n + 1
      BY <1>1
    <2>2. SubSeq(s, n + 1, Len(s)) \in Seq(S)
      BY <1>1, <1>7
    <2> QED
      BY <1>3, <2>1, <2>2, ConcatEmptySeq DEF Erased
  <1> QED
    BY <1>5, <1>6, <1>8, <1>9

----------------------------------------------------------------------------
(* The operations of the circular array.                                   *)

\* The array is legal, no move of memory has failed, and it holds s.
Keeps(c, s) ==
    /\ Legal(c) /\ c.ok = TRUE
    /\ s \in Seq(Contained) /\ Len(s) = c.size
    /\ \A j \in 1 .. Len(s) : At(c, j - 1) = s[j]

\* Filling the block anew changes the values and nothing else.
LEMMA RefilledLegal ==
    ASSUME NEW c, Legal(c), NEW g \in Blocks(c.cap)
    PROVE  LET d == Refilled(c, g)
           IN  /\ Legal(d) /\ d.size = c.size /\ d.opts = c.opts /\ d.ok = c.ok
               /\ d.begin = c.begin /\ d.cap = c.cap /\ d.mem = g
  <1> DEFINE d == Refilled(c, g)
  <1>1. d = [mem |-> g, cap |-> c.cap, begin |-> c.begin, end |-> c.end, size |-> c.size,
             opts |-> c.opts, ok |-> c.ok]
    BY DEF Legal, Shape, Refilled
  <1> HIDE DEF d
  <1>2. /\ d.mem = g /\ d.cap = c.cap /\ d.begin = c.begin /\ d.end = c.end /\ d.size = c.size
        /\ d.opts = c.opts /\ d.ok = c.ok
    BY <1>1
  <1>3. Shape(d)
    BY <1>1, <1>2 DEF Legal, Shape
  <1>4. d.end = Forward(d, d.begin, d.size)
    BY <1>2 DEF Legal, Forward
  <1> QED
    BY <1>2, <1>3, <1>4 DEF Legal, d

\* Values stored from rank i on.
LEMMA StoreStores ==
    ASSUME NEW c, Legal(c), NEW i \in Nat, NEW vals \in Seq(Contained), i + Len(vals) <= c.size
    PROVE  LET d == Store(c, Forward(c, c.begin, i), vals)
           IN  /\ Legal(d) /\ d.size = c.size /\ d.ok = c.ok /\ d.begin = c.begin /\ d.cap = c.cap
               /\ \A j \in 0 .. c.size - 1 :
                    At(d, j) = IF i <= j /\ j < i + Len(vals) THEN vals[j - i + 1] ELSE At(c, j)
  <1> DEFINE it == Forward(c, c.begin, i)
             n == Len(vals)
             rank(k) == IF k >= it THEN k - it ELSE k - it + c.cap
             g == [k \in 0 .. c.cap - 1 |-> IF rank(k) < n THEN vals[rank(k) + 1] ELSE c.mem[k]]
             d == Store(c, it, vals)
  <1>1. /\ c.cap \in Nat /\ c.mem \in [0 .. c.cap - 1 -> Contained] /\ DOMAIN c.mem = 0 .. c.cap - 1
        /\ c.begin \in Nat /\ c.size \in Nat /\ n \in Nat
    BY DEF Legal, Shape, Blocks
  <1>2. d = Refilled(c, g)
    BY <1>1 DEF Store, Refilled
  <1>3. it \in Nat /\ (c.cap # 0 => it < c.cap)
    BY <1>1 DEF Legal, Forward
  <1>4. g \in Blocks(c.cap)
    <2>1. ASSUME NEW k \in 0 .. c.cap - 1, rank(k) < n PROVE vals[rank(k) + 1] \in Contained
      <3>1. rank(k) \in Nat
        BY <1>1, <1>3
      <3>2. rank(k) + 1 \in 1 .. Len(vals)
        BY <2>1, <3>1
      <3> QED
        BY <3>2
    <2> HIDE DEF rank
    <2> QED
      BY <1>1, <2>1 DEF Blocks
  <1>5. /\ Legal(d) /\ d.size = c.size /\ d.ok = c.ok /\ d.begin = c.begin /\ d.cap = c.cap
        /\ d.mem = g
    <2> HIDE DEF d, g
    <2> QED
      BY <1>2, <1>4, RefilledLegal
  <1>6. ASSUME NEW j \in 0 .. c.size - 1
        PROVE  At(d, j) = IF i <= j /\ j < i + n THEN vals[j - i + 1] ELSE At(c, j)
    <2> DEFINE y == Round(c.cap, c.begin, j)
    <2>1. c.begin < c.cap /\ c.size < c.cap /\ j \in Nat /\ j < c.size
      BY <1>1 DEF Legal
    <2>2. it = Round(c.cap, c.begin, i)
      BY RoundIsForward
    <2>3. y \in 0 .. c.cap - 1
      BY <1>1, <2>1 DEF Round
    <2>4. /\ (rank(y) < n) = (i <= j /\ j < i + n)
          /\ i <= j => rank(y) = j - i
      <3> DEFINE cap == c.cap
                 b == c.begin
                 s == c.size
      <3>1. /\ it = Round(cap, b, i) /\ y = Round(cap, b, j)
            /\ rank(y) = IF y >= it THEN y - it ELSE y - it + cap
        BY <2>2
      <3>2. /\ cap \in Nat /\ b \in Nat /\ s \in Nat /\ b < cap /\ s < cap /\ i + n <= s
            /\ j \in Nat /\ j < s /\ n \in Nat
        BY <1>1, <2>1
      <3> HIDE DEF it, y, rank, cap, b, s, n
      <3> QED
        BY <3>1, <3>2 DEF Round
    <2>5. At(d, j) = g[y] /\ At(c, j) = c.mem[y]
      <3> HIDE DEF d, g
      <3> QED
        BY <1>5, RoundIsForward
    <2>6. g[y] = IF rank(y) < n THEN vals[rank(y) + 1] ELSE c.mem[y]
      BY <2>3
    <2> HIDE DEF d, g, rank, y
    <2> QED
      BY <2>4, <2>5, <2>6
  <1> HIDE DEF d
  <1> QED
    BY <1>5, <1>6 DEF d

\* A gap for vals that vals is stored in.
LEMMA OpenedStored ==
    ASSUME NEW c, NEW s, Keeps(c, s), NEW d, NEW i \in 0 .. Len(s), NEW vals \in Seq(Contained),
           Opened(c, d, i, Len(vals))
    PROVE  LET e == Store(d, Forward(d, d.begin, i), vals)
           IN  Keeps(e, Inserted(s, i, vals)) /\ Forward(e, e.begin, i) = Forward(d, d.begin, i)
  <1> DEFINE e == Store(d, Forward(d, d.begin, i), vals)
             n == Len(vals)
             l == Len(s)
             t == Inserted(s, i, vals)
  <1>1. /\ s \in Seq(Contained) /\ l = c.size /\ n \in Nat /\ l \in Nat /\ i \in Nat /\ i <= l
        /\ Legal(d) /\ d.size = l + n /\ d.ok = TRUE
        /\ \A j \in 1 .. l : At(c, j - 1) = s[j]
    BY DEF Keeps, Opened
  <1>2. \A j \in 0 .. i - 1 : At(d, j) = s[j + 1]
    <2>1. ASSUME NEW j \in 0 .. i - 1 PROVE At(d, j) = s[j + 1]
      <3>1. j + 1 \in 1 .. l /\ j + 1 - 1 = j
        BY <1>1
      <3> QED
        BY <1>1, <3>1 DEF Opened
    <2> QED
      BY <2>1
  <1>3. \A j \in i .. l - 1 : At(d, j + n) = s[j + 1]
    <2>1. ASSUME NEW j \in i .. l - 1 PROVE At(d, j + n) = s[j + 1]
      <3>1. j + 1 \in 1 .. l /\ j + 1 - 1 = j /\ j \in i .. c.size - 1
        BY <1>1
      <3> QED
        BY <1>1, <3>1 DEF Opened
    <2> QED
      BY <2>1
  <1>4. /\ Legal(e) /\ e.size = d.size /\ e.ok = d.ok /\ e.begin = d.begin /\ e.cap = d.cap
        /\ \A j \in 0 .. d.size - 1 :
             At(e, j) = IF i <= j /\ j < i + n THEN vals[j - i + 1] ELSE At(d, j)
    <2>1. i + Len(vals) <= d.size
      BY <1>1
    <2> QED
      BY <1>1, <2>1, StoreStores
  <1>5. /\ t \in Seq(Contained) /\ Len(t) = l + n
        /\ \A j \in 1 .. i : t[j] = s[j]
        /\ \A j \in i + 1 .. i + n : t[j] = vals[j - i]
        /\ \A j \in i + 1 .. l : t[j + n] = s[j]
    <2>1. s \in Seq(Contained) /\ i \in 0 .. Len(s)
      BY <1>1
    <2> QED
      BY <2>1, InsertedIs, Zenon
  <1> HIDE DEF e, t, n, l
  <1>6. ASSUME NEW j \in 1 .. l + n PROVE At(e, j - 1) = t[j]
    <2>1. /\ j - 1 \in 0 .. d.size - 1
          /\ At(e, j - 1) = IF i <= j - 1 /\ j - 1 < i + n THEN vals[j - 1 - i + 1] ELSE At(d, j - 1)
      BY <1>1, <1>4
    <2>2. CASE j <= i
      <3>1. j \in 1 .. i /\ j - 1 \in 0 .. i - 1 /\ j - 1 + 1 = j /\ ~(i <= j - 1)
        BY <1>1, <2>2
      <3> QED
        BY <1>2, <1>5, <2>1, <3>1
    <2>3. CASE i < j /\ j <= i + n
      <3>1. j \in i + 1 .. i + n /\ i <= j - 1 /\ j - 1 < i + n /\ j - 1 - i + 1 = j - i
        BY <1>1, <2>3
      <3> QED
        BY <1>5, <2>1, <3>1
    <2>4. CASE i + n < j
      <3>1. PICK k \in i + 1 .. l : j = k + n
        <4>1. j - n \in i + 1 .. l /\ j = j - n + n
          BY <1>1, <2>4
        <4> QED
          BY <4>1
      <3>2. /\ ~(j - 1 < i + n) /\ k - 1 \in i .. l - 1 /\ k - 1 + 1 = k /\ k - 1 + n = j - 1
        BY <1>1, <2>4, <3>1
      <3>3. At(d, k - 1 + n) = s[k - 1 + 1]
        BY <1>3, <3>2
      <3>4. t[k + n] = s[k]
        BY <1>5
      <3> QED
        BY <2>1, <3>1, <3>2, <3>3, <3>4
    <2> QED
      BY <1>1, <2>2, <2>3, <2>4
  <1>7. Keeps(e, t)
    BY <1>1, <1>4, <1>5, <1>6 DEF Keeps
  <1>8. Forward(e, e.begin, i) = Forward(d, d.begin, i)
    BY <1>4 DEF Forward
  <1> QED
    BY <1>7, <1>8 DEF e, t

\* The gap over erased values closed.
LEMMA ClosedKeeps ==
    ASSUME NEW c, NEW s, Keeps(c, s), NEW d, NEW i \in Nat, NEW n \in Nat, i + n <= Len(s),
           Closed(c, d, i, n)
    PROVE  Keeps(d, Erased(s, i, n))
  <1> DEFINE l == Len(s)
             t == Erased(s, i, n)
  <1>1. /\ s \in Seq(Contained) /\ l = c.size /\ l \in Nat
        /\ Legal(d) /\ d.size = l - n /\ d.ok = TRUE
        /\ \A j \in 1 .. l : At(c, j - 1) = s[j]
    BY DEF Keeps, Closed
  <1>2. /\ t \in Seq(Contained) /\ Len(t) = l - n
        /\ \A j \in 1 .. i : t[j] = s[j]
        /\ \A j \in i + 1 .. l - n : t[j] = s[j + n]
    <2>1. s \in Seq(Contained)
      BY <1>1
    <2> QED
      BY <2>1, ErasedIs, Zenon
  <1> HIDE DEF t, l
  <1>3. i + n <= l
    BY DEF l
  <1>4. ASSUME NEW j \in 1 .. l - n PROVE At(d, j - 1) = t[j]
    <2>1. CASE j <= i
      <3>1. j \in 1 .. i /\ j \in 1 .. l /\ j - 1 \in 0 .. i - 1
        BY <1>1, <1>3, <2>1
      <3>2. At(d, j - 1) = At(c, j - 1)
        BY <3>1 DEF Closed
      <3> QED
        BY <1>1, <1>2, <3>1, <3>2
    <2>2. CASE i < j
      <3>1. /\ j \in i + 1 .. l - n /\ j - 1 \in i .. c.size - n - 1 /\ j + n \in 1 .. l
            /\ j - 1 + n = j + n - 1
        BY <1>1, <1>3, <2>2
      <3>2. At(d, j - 1) = At(c, j - 1 + n)
        BY <3>1 DEF Closed
      <3>3. At(c, j + n - 1) = s[j + n]
        BY <1>1, <3>1
      <3> QED
        BY <1>2, <3>1, <3>2, <3>3
    <2> QED
      BY <2>1, <2>2
  <1> QED
    BY <1>1, <1>2, <1>4 DEF Keeps, t

LEMMA CarrInsert ==
    ASSUME NEW c, NEW s, Keeps(c, s), NEW i \in 0 .. Len(s), NEW vals \in Seq(Contained),
           NEW nomem
    PROVE  LET r == Carr_insert(c, Forward(c, c.begin, i), vals, nomem)
           IN  /\ r = Result(r.c, r.it, r.ret)
               /\ r.ret # "success" => r.c = c
               /\ r.ret = "success" => /\ Keeps(r.c, Inserted(s, i, vals))
                                       /\ r.it = Forward(r.c, r.c.begin, i)
  <1> DEFINE it == Forward(c, c.begin, i)
             right == Ins_shift_right(c, it)
             q == Carr_insert_shift(c, it, Len(vals), right, nomem)
             r == Carr_insert(c, it, vals, nomem)
  <1>1. Legal(c) /\ i \in 0 .. c.size /\ Len(vals) \in Nat
    BY DEF Keeps
  <1> HIDE DEF right
  <1>2. MakesRoom(q, c, i, Len(vals))
    BY <1>1, InsertShift
  <1>3. /\ q = Result(q.c, q.it, q.ret)
        /\ q.ret # "success" => q.c = c
        /\ q.ret = "success" => /\ Opened(c, q.c, i, Len(vals))
                                /\ q.it = Forward(q.c, q.c.begin, i)
    BY <1>2 DEF MakesRoom
  <1> HIDE DEF q
  <1>4. CASE q.ret # "success"
    <2>1. r = q
      BY <1>4 DEF Carr_insert, q, right
    <2> HIDE DEF r
    <2> QED
      BY <1>3, <1>4, <2>1 DEF r, it
  <1>5. CASE q.ret = "success"
    <2> DEFINE e == Store(q.c, Forward(q.c, q.c.begin, i), vals)
    <2>1. r = [q EXCEPT !.c = Store(q.c, q.it, vals)]
      BY <1>5 DEF Carr_insert, q, right
    <2>2. q = [c |-> q.c, it |-> q.it, ret |-> q.ret]
      BY <1>3 DEF Result
    <2>3. r = [c |-> e, it |-> q.it, ret |-> "success"]
      BY <1>3, <1>5, <2>1, <2>2
    <2>4. Keeps(e, Inserted(s, i, vals)) /\ Forward(e, e.begin, i) = Forward(q.c, q.c.begin, i)
      BY <1>3, <1>5, OpenedStored
    <2> HIDE DEF r, e
    <2>5. r.c = e /\ r.it = q.it /\ r.ret = "success" /\ r = Result(r.c, r.it, r.ret)
      BY <2>3 DEF Result
    <2> QED
      BY <1>3, <1>5, <2>4, <2>5 DEF r, it
  <1> QED
    BY <1>4, <1>5

LEMMA CarrErase ==
    ASSUME NEW c, NEW s, Keeps(c, s), NEW i \in Nat, NEW n \in Nat, i + n <= Len(s),
           NEW right, NEW nomem
    PROVE  LET it == Forward(c, c.begin, IF right THEN i ELSE i + n)
               r  == Carr_erase_shift(c, it, n, right, nomem)
           IN  r = Result(r.c, r.it, r.ret) /\ r.ret = "success" /\ Keeps(r.c, Erased(s, i, n))
  <1> DEFINE it == Forward(c, c.begin, IF right THEN i ELSE i + n)
             r  == Carr_erase_shift(c, it, n, right, nomem)
  <1>1. Legal(c) /\ i + n <= c.size
    BY DEF Keeps
  <1>2. TakesOut(r, c, i, n)
    BY <1>1, EraseShift
  <1> HIDE DEF r
  <1>3. r = Result(r.c, r.it, r.ret) /\ r.ret = "success"
    BY <1>2 DEF TakesOut, Result
  <1>4. Keeps(r.c, Erased(s, i, n))
    BY <1>2, ClosedKeeps DEF TakesOut
  <1> QED
    BY <1>3, <1>4 DEF r, it

\* stdcarr_erase_n, stdcarr_pop_front_n, stdcarr_pop_back_n
LEMMA CarrErases ==
    ASSUME NEW c, NEW s, Keeps(c, s), NEW nomem
    PROVE  /\ \A i, n \in Nat : i + n <= Len(s) =>
                LET r == Carr_erase_n(c, Forward(c, c.begin, i), n, nomem)
                IN  r = Result(r.c, r.it, r.ret) /\ r.ret = "success" /\ Keeps(r.c, Erased(s, i, n))
           /\ \A n \in 0 .. Len(s) :
                LET r == Carr_pop_front_n(c, n, nomem)
                IN  r = Result(r.c, r.it, r.ret) /\ r.ret = "success" /\ Keeps(r.c, Erased(s, 0, n))
           /\ \A n \in 0 .. Len(s) :
                LET r == Carr_pop_back_n(c, n, nomem)
                IN  r = Result(r.c, r.it, r.ret) /\ r.ret = "success" /\ Keeps(r.c, Erased(s, Len(s) - n, n))
  <1>1. Legal(c) /\ Len(s) = c.size /\ c.size \in Nat
    BY DEF Keeps, Legal, Shape
  <1>2. ASSUME NEW i \in Nat, NEW n \in Nat, i + n <= Len(s)
        PROVE  LET r == Carr_erase_n(c, Forward(c, c.begin, i), n, nomem)
               IN  r = Result(r.c, r.it, r.ret) /\ r.ret = "success" /\ Keeps(r.c, Erased(s, i, n))
    <2> DEFINE it == Forward(c, c.begin, i)
               right == Ers_shift_right(c, it, n)
    <2>2. Forward(c, it, n) = Forward(c, c.begin, i + n)
      BY <1>1, <1>2, ForwardAdds
    <2>3. (IF right THEN it ELSE Forward(c, it, n)) = Forward(c, c.begin, IF right THEN i ELSE i + n)
      BY <2>2
    <2>4. Carr_erase_n(c, it, n, nomem)
            = Carr_erase_shift(c, Forward(c, c.begin, IF right THEN i ELSE i + n), n, right, nomem)
      BY <2>3 DEF Carr_erase_n
    <2> HIDE DEF right, it
    <2>5. LET r == Carr_erase_shift(c, Forward(c, c.begin, IF right THEN i ELSE i + n), n, right, nomem)
          IN  r = Result(r.c, r.it, r.ret) /\ r.ret = "success" /\ Keeps(r.c, Erased(s, i, n))
      BY <1>2, CarrErase
    <2> QED
      BY <2>4, <2>5 DEF it
  <1>3. ASSUME NEW n \in 0 .. Len(s)
        PROVE  LET r == Carr_pop_front_n(c, n, nomem)
               IN  r = Result(r.c, r.it, r.ret) /\ r.ret = "success" /\ Keeps(r.c, Erased(s, 0, n))
    <2>1. n \in Nat /\ 0 + n <= Len(s) /\ 0 \in Nat /\ 0 + n <= c.size
      BY <1>1
    <2>2. Forward(c, c.begin, 0) = c.begin
      BY <1>1, <2>1, ForwardAdds
    <2>3. LET r == Carr_erase_shift(c, Forward(c, c.begin, IF TRUE THEN 0 ELSE 0 + n), n, TRUE, nomem)
          IN  r = Result(r.c, r.it, r.ret) /\ r.ret = "success" /\ Keeps(r.c, Erased(s, 0, n))
      BY <2>1, CarrErase
    <2> QED
      BY <2>2, <2>3 DEF Carr_pop_front_n
  <1>4. ASSUME NEW n \in 0 .. Len(s)
        PROVE  LET r == Carr_pop_back_n(c, n, nomem)
               IN  r = Result(r.c, r.it, r.ret) /\ r.ret = "success" /\ Keeps(r.c, Erased(s, Len(s) - n, n))
    <2> DEFINE i == Len(s) - n
    <2>1. n \in Nat /\ i \in Nat /\ i + n <= Len(s) /\ i + n = c.size
      BY <1>1
    <2>2. Forward(c, c.begin, c.size) = c.end
      BY <1>1 DEF Legal
    <2> HIDE DEF i
    <2>3. LET r == Carr_erase_shift(c, Forward(c, c.begin, IF FALSE THEN i ELSE i + n), n, FALSE, nomem)
          IN  r = Result(r.c, r.it, r.ret) /\ r.ret = "success" /\ Keeps(r.c, Erased(s, i, n))
      BY <2>1, CarrErase
    <2>4. LET r == Carr_erase_shift(c, c.end, n, FALSE, nomem)
          IN  r = Result(r.c, r.it, r.ret) /\ r.ret = "success" /\ Keeps(r.c, Erased(s, i, n))
      BY <2>1, <2>2, <2>3
    <2> QED
      BY <2>4 DEF Carr_pop_back_n, i
  <1> QED
    BY <1>2, <1>3, <1>4

\* stdcarr_resize makes room behind the values, or takes some off the end.
LEMMA CarrResize ==
    ASSUME NEW c, NEW s, Keeps(c, s), NEW n \in Nat, NEW nomem
    PROVE  LET r == Carr_resize(c, n, nomem)
           IN  /\ r = Result(r.c, r.it, r.ret)
               /\ r.ret # "success" => r.c = c
               /\ r.ret = "success" /\ n >= Len(s) => Opened(c, r.c, Len(s), n - Len(s))
               /\ n < Len(s) => r.ret = "success" /\ Closed(c, r.c, n, Len(s) - n)
  <1> DEFINE r == Carr_resize(c, n, nomem)
  <1>1. Legal(c) /\ Len(s) = c.size /\ c.size \in Nat /\ Forward(c, c.begin, c.size) = c.end
    BY DEF Keeps, Legal, Shape
  <1>2. CASE n >= c.size
    <2> DEFINE delta == n - c.size
               i == c.size
    <2>1. delta \in Nat /\ i \in 0 .. c.size /\ ~(n < c.size)
      BY <1>1, <1>2
    <2>2. r = Carr_insert_shift(c, Forward(c, c.begin, i), delta, TRUE, nomem)
      BY <1>1, <1>2 DEF Carr_resize
    <2> HIDE DEF r, delta, i
    <2>3. MakesRoom(r, c, i, delta)
      <3>1. PICK right : right = TRUE
        OBVIOUS
      <3>2. r = Carr_insert_shift(c, Forward(c, c.begin, i), delta, right, nomem)
        BY <2>2, <3>1
      <3> QED
        BY <1>1, <2>1, <3>2, InsertShift
    <2> QED
      BY <1>1, <2>1, <2>3 DEF MakesRoom, r, delta, i
  <1>3. CASE n < c.size
    <2> DEFINE delta == c.size - n
    <2>1. delta \in Nat /\ n + delta = c.size /\ n + delta <= c.size /\ ~(n >= c.size)
      BY <1>1, <1>3
    <2>2. r = Carr_erase_shift(c, Forward(c, c.begin, n + delta), delta, FALSE, nomem)
      BY <1>1, <2>1 DEF Carr_resize, Carr_pop_back_n
    <2> HIDE DEF r, delta
    <2>3. TakesOut(r, c, n, delta)
      <3>1. PICK right : right = FALSE
        OBVIOUS
      <3>2. r = Carr_erase_shift(c, Forward(c, c.begin, IF right THEN n ELSE n + delta),
                                 delta, right, nomem)
        BY <2>2, <3>1
      <3> QED
        BY <1>1, <2>1, <3>2, EraseShift
    <2>4. r.ret = "success"
      BY <2>3 DEF TakesOut, Result
    <2> QED
      BY <1>1, <1>3, <2>1, <2>3, <2>4 DEF TakesOut, r, delta
  <1> QED
    BY <1>1, <1>2, <1>3

\* A position without a value may hold anything.
LEMMA ScrubbedKeeps ==
    ASSUME NEW c, NEW s, Keeps(c, s)
    PROVE  Keeps(Scrubbed(c), s)
  <1> DEFINE used == {Forward(c, c.begin, i) : i \in 0 .. c.size - 1}
             g == [i \in 0 .. c.cap - 1 |-> IF i \in used THEN c.mem[i] ELSE Junk]
             d == Scrubbed(c)
  <1>1. /\ Legal(c) /\ c.cap \in Nat /\ c.mem \in [0 .. c.cap - 1 -> Contained]
        /\ DOMAIN c.mem = 0 .. c.cap - 1 /\ c.begin \in Nat /\ c.size \in Nat /\ Len(s) = c.size
    BY DEF Keeps, Legal, Shape, Blocks
  <1>2. d = Refilled(c, g)
    BY <1>1 DEF Scrubbed, Refilled
  <1>3. g \in Blocks(c.cap)
    BY <1>1 DEF Blocks, Contained
  <1>4. ASSUME NEW j \in 0 .. c.size - 1 PROVE g[Forward(c, c.begin, j)] = At(c, j)
    <2>1. c.begin < c.cap /\ c.size < c.cap
      BY <1>1 DEF Legal
    <2>2. Forward(c, c.begin, j) \in 0 .. c.cap - 1
      BY <1>1, <2>1 DEF Forward
    <2>3. Forward(c, c.begin, j) \in used
      OBVIOUS
    <2> HIDE DEF used
    <2> QED
      BY <2>2, <2>3 DEF At
  <1> HIDE DEF g, d
  <1>5. /\ Legal(d) /\ d.size = c.size /\ d.ok = c.ok /\ d.begin = c.begin /\ d.cap = c.cap
        /\ d.mem = g
    BY <1>1, <1>2, <1>3, RefilledLegal
  <1>6. ASSUME NEW j \in 1 .. Len(s) PROVE At(d, j - 1) = s[j]
    <2>1. j - 1 \in 0 .. c.size - 1
      BY <1>1
    <2>2. At(d, j - 1) = g[Forward(c, c.begin, j - 1)]
      BY <1>5 DEF At, Forward
    <2> QED
      BY <1>4, <2>1, <2>2 DEF Keeps
  <1> QED
    BY <1>1, <1>5, <1>6 DEF Keeps, d

\* No gap and nothing erased: the same values.
LEMMA OpenedNone ==
    ASSUME NEW c, NEW s, Keeps(c, s), NEW d, Opened(c, d, Len(s), 0)
    PROVE  Keeps(d, s)
  <1>1. /\ s \in Seq(Contained) /\ Len(s) = c.size /\ Len(s) \in Nat
        /\ Legal(d) /\ d.size = c.size /\ d.ok = TRUE
    BY DEF Keeps, Opened, Legal, Shape
  <1>2. ASSUME NEW j \in 1 .. Len(s) PROVE At(d, j - 1) = s[j]
    <2>1. j - 1 \in 0 .. Len(s) - 1
      BY <1>1
    <2>2. At(d, j - 1) = At(c, j - 1)
      BY <2>1 DEF Opened
    <2> QED
      BY <2>2 DEF Keeps
  <1> QED
    BY <1>1, <1>2 DEF Keeps

\* A caller that resizes to a larger size and stores the values it made room for.
LEMMA CarrGrows ==
    ASSUME NEW c, NEW s, Keeps(c, s), NEW vals \in Seq(Contained), NEW nomem
    PROVE  LET r  == Carr_resize(c, Len(s) + Len(vals), nomem)
               at == Forward(r.c, r.c.begin, Len(s))
               e  == Store(r.c, at, vals)
           IN  /\ r = Result(r.c, r.it, r.ret)
               /\ r.ret # "success" => r.c = c
               /\ r.ret = "success" => Keeps(e, s \o vals) /\ Forward(e, e.begin, Len(s)) = at
               /\ r.ret = "success" /\ vals = << >> => Keeps(r.c, s \o vals)
  <1> DEFINE n  == Len(s) + Len(vals)
             r  == Carr_resize(c, n, nomem)
             at == Forward(r.c, r.c.begin, Len(s))
             e  == Store(r.c, at, vals)
  <1>1. s \in Seq(Contained) /\ Len(s) \in Nat /\ Len(vals) \in Nat
    BY DEF Keeps
  <1>2. n \in Nat /\ n >= Len(s) /\ n - Len(s) = Len(vals) /\ Len(s) \in 0 .. Len(s)
    BY <1>1
  <1> HIDE DEF n, r
  <1>3. /\ r = Result(r.c, r.it, r.ret)
        /\ r.ret # "success" => r.c = c
        /\ r.ret = "success" => Opened(c, r.c, Len(s), Len(vals))
    BY <1>2, CarrResize DEF r
  <1>4. s \o vals = Inserted(s, Len(s), vals) /\ 0 \in 0 .. Len(s)
    BY <1>1, Ends
  <1>5. r.ret = "success" => Keeps(e, s \o vals) /\ Forward(e, e.begin, Len(s)) = at
    BY <1>2, <1>3, <1>4, OpenedStored
  <1>6. r.ret = "success" /\ vals = << >> => Keeps(r.c, s \o vals)
    <2>1. vals = << >> => Len(vals) = 0 /\ s \o vals = s
      BY <1>1, ConcatEmptySeq
    <2> QED
      BY <1>3, <2>1, OpenedNone
  <1> QED
    BY <1>3, <1>5, <1>6 DEF r, n

\* A caller that resizes to a smaller size.
LEMMA CarrTruncates ==
    ASSUME NEW c, NEW s, Keeps(c, s), NEW n \in 0 .. Len(s), NEW nomem
    PROVE  LET r == Carr_resize(c, n, nomem)
           IN  /\ r = Result(r.c, r.it, r.ret)
               /\ r.ret # "success" => r.c = c
               /\ r.ret = "success" => Keeps(r.c, SubSeq(s, 1, n))
  <1> DEFINE r == Carr_resize(c, n, nomem)
  <1>1. s \in Seq(Contained) /\ Len(s) \in Nat /\ n \in Nat /\ n <= Len(s)
    BY DEF Keeps
  <1> HIDE DEF r
  <1>2. /\ r = Result(r.c, r.it, r.ret)
        /\ r.ret # "success" => r.c = c
        /\ r.ret = "success" /\ n >= Len(s) => Opened(c, r.c, Len(s), n - Len(s))
        /\ n < Len(s) => r.ret = "success" /\ Closed(c, r.c, n, Len(s) - n)
    BY <1>1, CarrResize DEF r
  <1>3. CASE n = Len(s)
    <2>1. n >= Len(s) /\ n - Len(s) = 0
      BY <1>1, <1>3
    <2>2. r.ret = "success" => Keeps(r.c, s)
      BY <1>2, <2>1, OpenedNone
    <2>3. SubSeq(s, 1, n) = s
      BY <1>1, <1>3, SubSeqFull
    <2> QED
      BY <1>2, <2>2, <2>3 DEF r
  <1>4. CASE n < Len(s)
    <2> DEFINE m == Len(s) - n
    <2>1. m \in 0 .. Len(s) /\ m \in Nat /\ n + m <= Len(s) /\ Len(s) - m = n
      BY <1>1, <1>4
    <2> HIDE DEF m
    <2>2. Closed(c, r.c, n, m)
      BY <1>2, <1>4 DEF m
    <2>3. Keeps(r.c, Erased(s, n, m))
      BY <1>1, <2>1, <2>2, ClosedKeeps
    <2>4. SubSeq(s, 1, Len(s) - m) = Erased(s, Len(s) - m, m)
      BY <1>1, <2>1, Ends
    <2> QED
      BY <1>2, <2>1, <2>3, <2>4 DEF r
  <1> QED
    BY <1>1, <1>3, <1>4

\* An empty array.
LEMMA ConstructKeeps ==
    ASSUME NEW opts
    PROVE  Keeps(Construct_array(opts), << >>)
  <1> DEFINE d == Construct_array(opts)
             m == Block(0)
  <1>1. m \in Blocks(0)
    BY DEF Block, Blocks, Contained
  <1>2. d = [mem |-> m, cap |-> 0, begin |-> 0, end |-> 0, size |-> 0, opts |-> opts, ok |-> TRUE]
    BY DEF Construct_array
  <1> HIDE DEF d, m
  <1>3. /\ d.mem = m /\ d.cap = 0 /\ d.begin = 0 /\ d.end = 0 /\ d.size = 0 /\ d.opts = opts
        /\ d.ok = TRUE
    BY <1>2
  <1>4. Shape(d)
    BY <1>1, <1>2, <1>3 DEF Shape
  <1>5. d.end = Forward(d, d.begin, d.size)
    BY <1>3 DEF Forward
  <1>6. Legal(d)
    BY <1>3, <1>4, <1>5 DEF Legal
  <1>7. << >> \in Seq(Contained) /\ Len(<< >>) = 0
    OBVIOUS
  <1> QED
    BY <1>3, <1>6, <1>7 DEF Keeps, d

LEMMA MinOfTwo ==
    ASSUME NEW a \in Nat, NEW b \in Nat
    PROVE  Min({a, b}) = IF a <= b THEN a ELSE b
  <1>1. \E x \in {a, b} : \A y \in {a, b} : x =< y
    OBVIOUS
  <1>2. Min({a, b}) \in {a, b} /\ \A y \in {a, b} : Min({a, b}) =< y
    BY <1>1 DEF Min
  <1> HIDE <1>1
  <1> QED
    BY <1>2

LEMMA CarrSetCapacity ==
    ASSUME NEW c, NEW s, Keeps(c, s), NEW n \in Nat, NEW nomem
    PROVE  LET r == Carr_set_capacity(c, n, nomem)
           IN  /\ r = Result(r.c, r.it, r.ret)
               /\ r.ret # "success" => r.c = c
               /\ r.ret = "success" => Keeps(r.c, SubSeq(s, 1, Min({n, Len(s)})))
  <1> DEFINE r == Carr_set_capacity(c, n, nomem)
             k == IF n < c.size THEN n ELSE c.size
             kept == Forward(c, c.begin, k)
             buf == Copy_to_buf(c, c.begin, kept)
  <1>1. /\ s \in Seq(Contained) /\ Len(s) = c.size /\ Len(s) \in Nat /\ k \in Nat /\ k <= c.size
        /\ k <= n /\ Legal(c) /\ Shape(c) /\ c.cap \in Nat
    BY DEF Keeps, Legal, Shape
  <1>2. Min({n, Len(s)}) = k
    BY <1>1, MinOfTwo
  <1>3. kept = IF n < c.size THEN Forward(c, c.begin, n) ELSE c.end
    BY <1>1 DEF Legal
  <1>4. CASE n = High_capacity(c)
    <2>1. r = Result(c, c.begin, "success")
      BY <1>4 DEF Carr_set_capacity
    <2>2. k = c.size
      BY <1>1, <1>4 DEF High_capacity, Legal
    <2>3. SubSeq(s, 1, k) = s
      BY <1>1, <2>2, SubSeqFull
    <2> HIDE DEF r, k
    <2>4. r.c = c /\ r.ret = "success" /\ r = Result(r.c, r.it, r.ret)
      BY <2>1 DEF Result
    <2>5. Keeps(r.c, SubSeq(s, 1, k))
      BY <2>2, <2>3, <2>4
    <2> QED
      BY <1>2, <2>4, <2>5 DEF r
  <1>5. CASE n # High_capacity(c) /\ n = 0
    <2>1. r = Result(Construct_array(c.opts), Construct_array(c.opts).begin, "success")
      BY <1>5 DEF Carr_set_capacity
    <2>2. k = 0 /\ SubSeq(s, 1, 0) = << >>
      BY <1>1, <1>5, SubSeqEmpty
    <2> DEFINE d == Construct_array(c.opts)
    <2>3. Keeps(d, << >>)
      BY ConstructKeeps
    <2> HIDE DEF r, k, d
    <2>4. r.c = d /\ r.ret = "success" /\ r = Result(r.c, r.it, r.ret)
      BY <2>1 DEF Result, d
    <2>5. Keeps(r.c, SubSeq(s, 1, k))
      BY <2>2, <2>3, <2>4
    <2> QED
      BY <1>2, <2>4, <2>5 DEF r
  <1>6. CASE n # High_capacity(c) /\ n # 0 /\ nomem
    <2>1. r = Result(c, c.begin, "nomem")
      BY <1>6, Zenon DEF Carr_set_capacity
    <2> HIDE DEF r
    <2> QED
      BY <2>1 DEF Result, r
  <1>7. CASE n # High_capacity(c) /\ n # 0 /\ ~nomem
    <2> DEFINE d == Reallocated(c, buf, n + 1)
    <2>1. r = Result(d, d.begin, "success")
      <3> HIDE DEF k
      <3>1. r = Result(Reallocated(c, Copy_to_buf(c, c.begin,
                                         IF n < c.size THEN Forward(c, c.begin, n) ELSE c.end), n + 1),
                       Reallocated(c, Copy_to_buf(c, c.begin,
                                         IF n < c.size THEN Forward(c, c.begin, n) ELSE c.end), n + 1).begin,
                       "success")
        BY <1>7, Zenon DEF Carr_set_capacity
      <3> QED
        BY <1>3, <3>1, Zenon
    <2> HIDE DEF k
    <2>2. Lists(buf, c, 0, k)
      <3>1. Forward(c, c.begin, 0) = c.begin
        <4>1. 0 \in Nat /\ 0 + 0 <= c.size
          BY <1>1
        <4> QED
          BY <1>1, <4>1, ForwardAdds
      <3> QED
        BY <1>1, <3>1, CopyToBuf
    <2> HIDE DEF buf
    <2>3. Renewed(c, d, buf)
      <3>1. buf \in Seq(Contained) /\ Len(buf) = k
        BY <1>1, <2>2 DEF Lists
      <3>2. n + 1 \in Nat /\ Len(buf) < n + 1
        BY <1>1, <3>1
      <3> QED
        BY <1>1, <3>1, <3>2, ReallocatedLegal
    <2> HIDE DEF d, r
    <2>4. SubSeq(s, 1, k) = Erased(s, k, Len(s) - k)
      <3> DEFINE m == Len(s) - k
      <3>1. m \in 0 .. Len(s) /\ Len(s) - m = k
        BY <1>1
      <3> HIDE DEF m
      <3>2. SubSeq(s, 1, Len(s) - m) = Erased(s, Len(s) - m, m)
        BY <1>1, <3>1, Ends
      <3> QED
        BY <3>1, <3>2 DEF m
    <2>5. Closed(c, d, k, Len(s) - k)
      <3>1. /\ Len(buf) = k /\ \A j \in 1 .. k : buf[j] = At(c, j - 1)
        BY <1>1, <2>2 DEF Lists
      <3>2. ASSUME NEW j \in 0 .. k - 1 PROVE At(d, j) = At(c, j)
        <4>1. j + 1 \in 1 .. k /\ j + 1 - 1 = j /\ j \in 0 .. Len(buf) - 1
          BY <1>1, <3>1
        <4>2. At(d, j) = buf[j + 1]
          BY <2>3, <4>1 DEF Renewed
        <4> QED
          BY <3>1, <4>1, <4>2
      <3>3. c.size - (Len(s) - k) = k /\ k .. c.size - (Len(s) - k) - 1 = {}
        BY <1>1
      <3> QED
        BY <2>3, <3>1, <3>2, <3>3 DEF Closed, Renewed
    <2>6. Keeps(d, SubSeq(s, 1, k))
      <3>1. Len(s) - k \in Nat /\ k + (Len(s) - k) <= Len(s)
        BY <1>1
      <3> QED
        BY <1>1, <2>4, <2>5, <3>1, ClosedKeeps
    <2> QED
      BY <1>2, <2>1, <2>6 DEF Result, r
  <1> QED
    BY <1>4, <1>5, <1>6, <1>7

\* The begin and the end of an array changed.
LEMMA BeginAndEnd ==
    ASSUME NEW c, Shape(c), NEW b, NEW e
    PROVE  [c EXCEPT !.begin = b, !.end = e]
             = [mem |-> c.mem, cap |-> c.cap, begin |-> b, end |-> e, size |-> c.size,
                opts |-> c.opts, ok |-> c.ok]
  <1> DEFINE x == [c EXCEPT !.begin = b]
  <1>1. x = [mem |-> c.mem, cap |-> c.cap, begin |-> b, end |-> c.end, size |-> c.size,
             opts |-> c.opts, ok |-> c.ok]
    BY DEF Shape
  <1>2. [c EXCEPT !.begin = b, !.end = e] = [x EXCEPT !.end = e]
    BY Zenon
  <1> HIDE DEF x
  <1> QED
    BY <1>1, <1>2

LEMMA CarrSetEq ==
    ASSUME NEW c, NEW s, Keeps(c, s), NEW vals \in Seq(Contained), NEW nomem
    PROVE  LET r == Carr_set_eq(c, vals, nomem)
           IN  /\ r = Result(r.c, r.it, r.ret)
               /\ r.ret # "success" => r.c = c
               /\ r.ret = "success" => Keeps(r.c, vals)
  <1> DEFINE n == Len(vals)
             q == Carr_resize(c, n, nomem)
             d == [q.c EXCEPT !.begin = 0, !.end = n]
             r == Carr_set_eq(c, vals, nomem)
  <1>1. n \in Nat /\ s \in Seq(Contained) /\ Len(s) \in Nat /\ Len(s) = c.size /\ c.ok = TRUE
    BY DEF Keeps
  <1>2. /\ q = Result(q.c, q.it, q.ret)
        /\ q.ret # "success" => q.c = c
        /\ q.ret = "success" /\ n >= Len(s) => Opened(c, q.c, Len(s), n - Len(s))
        /\ n < Len(s) => q.ret = "success" /\ Closed(c, q.c, n, Len(s) - n)
    <2> HIDE DEF n
    <2> QED
      BY <1>1, CarrResize
  <1>3. CASE q.ret # "success"
    <2>1. r = q
      BY <1>3 DEF Carr_set_eq
    <2> HIDE DEF r, q
    <2> QED
      BY <1>2, <1>3, <2>1 DEF r
  <1>4. CASE q.ret = "success"
    <2>1. r = Result(Store(d, 0, vals), 0, "success")
      BY <1>4 DEF Carr_set_eq
    <2> HIDE DEF r, q
    <2>2. Legal(q.c) /\ q.c.size = n /\ q.c.ok = TRUE
      <3> HIDE DEF n
      <3> QED
        BY <1>1, <1>2, <1>4 DEF Opened, Closed
    <2>3. Legal(d) /\ d.size = n /\ d.ok = TRUE /\ Forward(d, d.begin, 0) = 0
      <3> DEFINE p == q.c
      <3>1. d = [mem |-> p.mem, cap |-> p.cap, begin |-> 0, end |-> n, size |-> p.size,
                 opts |-> p.opts, ok |-> p.ok]
        BY <2>2, BeginAndEnd DEF Legal
      <3>2. /\ p.cap \in Nat /\ p.mem \in Blocks(p.cap) /\ p.size = n /\ p.ok = TRUE
            /\ (p.cap = 0 /\ n = 0) \/ n < p.cap
        BY <2>2 DEF Legal, Shape
      <3> HIDE DEF p, d, n
      <3>3. /\ d.mem = p.mem /\ d.cap = p.cap /\ d.begin = 0 /\ d.end = n /\ d.size = n
            /\ d.opts = p.opts /\ d.ok = TRUE
        BY <3>1, <3>2
      <3>4. Shape(d)
        BY <1>1, <3>1, <3>2, <3>3 DEF Shape
      <3>5. d.end = Forward(d, d.begin, d.size) /\ Forward(d, d.begin, 0) = 0
        BY <1>1, <3>2, <3>3 DEF Forward
      <3> QED
        BY <1>1, <3>2, <3>3, <3>4, <3>5 DEF Legal
    <2> HIDE DEF d
    <2> DEFINE e == Store(d, 0, vals)
    <2>4. PICK i \in Nat : i = 0
      OBVIOUS
    <2>5. LET x == Store(d, Forward(d, d.begin, i), vals)
          IN  /\ Legal(x) /\ x.size = d.size /\ x.ok = d.ok
              /\ \A j \in 0 .. d.size - 1 :
                   At(x, j) = IF i <= j /\ j < i + Len(vals) THEN vals[j - i + 1] ELSE At(d, j)
      <3>1. i + Len(vals) <= d.size
        BY <1>1, <2>3, <2>4
      <3> QED
        BY <2>3, <3>1, StoreStores
    <2>6. /\ Legal(e) /\ e.size = d.size /\ e.ok = d.ok
          /\ \A j \in 0 .. d.size - 1 :
               At(e, j) = IF i <= j /\ j < i + Len(vals) THEN vals[j - i + 1] ELSE At(d, j)
      BY <2>3, <2>4, <2>5
    <2> HIDE DEF e
    <2>7. ASSUME NEW j \in 1 .. Len(vals) PROVE At(e, j - 1) = vals[j]
      <3>1. j - 1 \in 0 .. d.size - 1 /\ i <= j - 1 /\ j - 1 < i + Len(vals) /\ j - 1 - i + 1 = j
        BY <1>1, <2>3, <2>4
      <3> QED
        BY <2>6, <3>1
    <2>8. Keeps(e, vals)
      BY <2>3, <2>6, <2>7 DEF Keeps
    <2>9. r.c = e /\ r.ret = "success" /\ r = Result(r.c, r.it, r.ret)
      BY <2>1 DEF Result, e
    <2> QED
      BY <2>8, <2>9 DEF r
  <1> QED
    BY <1>3, <1>4

----------------------------------------------------------------------------
(* The growing array.                                                      *)

Arr_legal(a) ==
    /\ Shape(a) /\ a.begin = 0 /\ a.end = a.size /\ a.size <= a.cap /\ a.ok = TRUE

\* The array is legal, no move of memory has failed, and it holds s.
Bears(a, s) ==
    /\ Arr_legal(a)
    /\ s \in Seq(Contained) /\ Len(s) = a.size
    /\ \A j \in 1 .. Len(s) : a.mem[j - 1] = s[j]

\* d is a with n positions more before the value of rank i; without the n values of rank
\* i and more.
Widened(a, d, i, n) ==
    /\ Arr_legal(d) /\ d.size = a.size + n
    /\ \A j \in 0 .. i - 1 : d.mem[j] = a.mem[j]
    /\ \A j \in i .. a.size - 1 : d.mem[j + n] = a.mem[j]

Narrowed(a, d, i, n) ==
    /\ Arr_legal(d) /\ d.size = a.size - n
    /\ \A j \in 0 .. i - 1 : d.mem[j] = a.mem[j]
    /\ \A j \in i .. a.size - n - 1 : d.mem[j] = a.mem[j + n]

\* Two fields changed, of any array.
LEMMA SizeAndEndOf ==
    ASSUME NEW c, Shape(c), NEW size, NEW e
    PROVE  [c EXCEPT !.size = size, !.end = e]
             = [mem |-> c.mem, cap |-> c.cap, begin |-> c.begin, end |-> e, size |-> size,
                opts |-> c.opts, ok |-> c.ok]
  <1> DEFINE x == [c EXCEPT !.size = size]
  <1>1. x = [mem |-> c.mem, cap |-> c.cap, begin |-> c.begin, end |-> c.end, size |-> size,
             opts |-> c.opts, ok |-> c.ok]
    BY DEF Shape
  <1>2. [c EXCEPT !.size = size, !.end = e] = [x EXCEPT !.end = e]
    BY Zenon
  <1> HIDE DEF x
  <1> QED
    BY <1>1, <1>2

LEMMA CapAndMem ==
    ASSUME NEW c, Shape(c), NEW cap, NEW m
    PROVE  [c EXCEPT !.cap = cap, !.mem = m]
             = [mem |-> m, cap |-> cap, begin |-> c.begin, end |-> c.end, size |-> c.size,
                opts |-> c.opts, ok |-> c.ok]
  <1> DEFINE x == [c EXCEPT !.cap = cap]
  <1>1. x = [mem |-> c.mem, cap |-> cap, begin |-> c.begin, end |-> c.end, size |-> c.size,
             opts |-> c.opts, ok |-> c.ok]
    BY DEF Shape
  <1>2. [c EXCEPT !.cap = cap, !.mem = m] = [x EXCEPT !.mem = m]
    BY Zenon
  <1> HIDE DEF x
  <1> QED
    BY <1>1, <1>2

\* realloc keeps what fits in the new block.
Recap(c, n) ==
    [c EXCEPT !.cap = n, !.mem = [i \in 0 .. n - 1 |-> IF i < c.cap THEN c.mem[i] ELSE Junk]]

Recapped(c, d, n) ==
    /\ Shape(d) /\ d.cap = n /\ d.begin = c.begin /\ d.end = c.end /\ d.size = c.size
    /\ d.opts = c.opts /\ d.ok = c.ok
    /\ \A j \in 0 .. n - 1 : j < c.cap => d.mem[j] = c.mem[j]

LEMMA RecapShape ==
    ASSUME NEW c, Shape(c), NEW n \in Nat
    PROVE  Recapped(c, Recap(c, n), n)
  <1> DEFINE m == [i \in 0 .. n - 1 |-> IF i < c.cap THEN c.mem[i] ELSE Junk]
             d == Recap(c, n)
  <1>1. c.cap \in Nat /\ c.mem \in [0 .. c.cap - 1 -> Contained] /\ Junk \in Contained
    BY DEF Shape, Blocks, Contained
  <1>2. m \in Blocks(n)
    BY <1>1 DEF Blocks
  <1>3. \A j \in 0 .. n - 1 : j < c.cap => m[j] = c.mem[j]
    OBVIOUS
  <1>4. d = [c EXCEPT !.cap = n, !.mem = m]
    BY DEF Recap
  <1> HIDE DEF d, m
  <1>5. d = [mem |-> m, cap |-> n, begin |-> c.begin, end |-> c.end, size |-> c.size,
             opts |-> c.opts, ok |-> c.ok]
    BY <1>4, CapAndMem
  <1>6. /\ d.mem = m /\ d.cap = n /\ d.begin = c.begin /\ d.end = c.end /\ d.size = c.size
        /\ d.opts = c.opts /\ d.ok = c.ok
    BY <1>5
  <1>7. Shape(d)
    BY <1>2, <1>5, <1>6 DEF Shape
  <1> QED
    BY <1>3, <1>6, <1>7 DEF Recapped, d

\* The numbers of an array changed, after n of its values have been moved.
Shifted(c, d, dst, src, n, size) ==
    /\ Shape(d) /\ d.cap = c.cap /\ d.begin = c.begin /\ d.end = size /\ d.size = size
    /\ d.opts = c.opts /\ d.ok = c.ok
    /\ \A j \in 0 .. c.cap - 1 :
         d.mem[j] = IF dst <= j /\ j < dst + n THEN c.mem[src + (j - dst)] ELSE c.mem[j]

LEMMA MovedAndNumbered ==
    ASSUME NEW c, Shape(c), NEW dst \in Nat, NEW src \in Nat, NEW n \in Nat,
           dst + n <= c.cap, src + n <= c.cap, NEW size \in Nat
    PROVE  Shifted(c, [Move(c, dst, src, n) EXCEPT !.size = size, !.end = size], dst, src, n, size)
  <1> DEFINE m == Moved(c.mem, c.cap, dst, src, n)
             x == Move(c, dst, src, n)
             d == [x EXCEPT !.size = size, !.end = size]
  <1>1. x = Refilled(c, m) /\ m \in Blocks(c.cap) /\ Shape(x)
    BY MoveMoves DEF Within
  <1>2. \A j \in 0 .. c.cap - 1 :
          m[j] = IF dst <= j /\ j < dst + n THEN c.mem[src + (j - dst)] ELSE c.mem[j]
    BY DEF Moved
  <1> HIDE DEF m, x
  <1>3. d = [mem |-> x.mem, cap |-> x.cap, begin |-> x.begin, end |-> size, size |-> size,
             opts |-> x.opts, ok |-> x.ok]
    BY <1>1, SizeAndEndOf
  <1>4. x.mem = m /\ x.cap = c.cap /\ x.begin = c.begin /\ x.opts = c.opts /\ x.ok = c.ok
    BY <1>1 DEF Shape, Refilled
  <1> HIDE DEF d
  <1>5. /\ d.mem = m /\ d.cap = c.cap /\ d.begin = c.begin /\ d.end = size /\ d.size = size
        /\ d.opts = c.opts /\ d.ok = c.ok
    BY <1>3, <1>4
  <1>6. Shape(d)
    BY <1>1, <1>3, <1>4, <1>5 DEF Shape
  <1> QED
    BY <1>2, <1>5, <1>6 DEF Shifted, d, x

LEMMA ArrInsertSpace ==
    ASSUME NEW a, Arr_legal(a), NEW i \in 0 .. a.size, NEW n \in Nat, NEW nomem
    PROVE  LET r == Arr_insert_space(a, i, n, nomem)
           IN  /\ r = Result(r.c, i, r.ret)
               /\ r.ret # "success" => r.c = a
               /\ r.ret = "success" => Widened(a, r.c, i, n)
  <1> DEFINE size == a.size + n
             b == IF size > a.cap THEN Recap(a, New_cap(size)) ELSE a
             d == [Move(b, i + n, i, a.end - i) EXCEPT !.size = size, !.end = Move(b, i + n, i, a.end - i).end + n]
             r == Arr_insert_space(a, i, n, nomem)
  <1>1. /\ Shape(a) /\ a.begin = 0 /\ a.end = a.size /\ a.size \in Nat /\ a.cap \in Nat
        /\ a.size <= a.cap /\ a.ok = TRUE /\ i \in Nat /\ i <= a.size /\ size \in Nat
    BY DEF Arr_legal, Shape
  <1>2. CASE size > a.cap /\ ("no_grow" \in a.opts \/ nomem)
    <2>1. r = Result(a, i, "acces") \/ r = Result(a, i, "nomem")
      BY <1>2, Zenon DEF Arr_insert_space
    <2> HIDE DEF r
    <2> QED
      BY <2>1 DEF Result, r
  <1>3. CASE ~(size > a.cap) \/ ("no_grow" \notin a.opts /\ ~nomem)
    <2>1. r = Result(d, i, "success")
      <3>1. b = IF size > a.cap THEN [a EXCEPT !.cap = New_cap(size), !.mem =
                    [k \in 0 .. New_cap(size) - 1 |-> IF k < a.cap THEN a.mem[k] ELSE Junk]]
                ELSE a
        BY DEF Recap
      <3> QED
        BY <1>3, <3>1, Zenon DEF Arr_insert_space
    <2>2. /\ Shape(b) /\ b.cap \in Nat /\ size <= b.cap /\ b.begin = 0 /\ b.end = a.size
          /\ b.ok = TRUE
          /\ \A j \in 0 .. a.size - 1 : b.mem[j] = a.mem[j]
      <3>1. CASE size > a.cap
        <4> DEFINE ncap == New_cap(size)
                   g == Recap(a, ncap)
        <4>1. ncap \in Nat /\ size < ncap
          BY <1>1, NewCapacity
        <4> HIDE DEF ncap
        <4>2. Recapped(a, g, ncap)
          BY <1>1, <4>1, RecapShape
        <4>3. b = g
          BY <3>1 DEF ncap
        <4> HIDE DEF g, b, size
        <4>4. \A j \in 0 .. a.size - 1 : j \in 0 .. ncap - 1 /\ j < a.cap
          BY <1>1, <4>1 DEF size
        <4> QED
          BY <1>1, <4>1, <4>2, <4>3, <4>4 DEF Recapped
      <3>2. CASE ~(size > a.cap)
        BY <1>1, <3>2
      <3> QED
        BY <3>1, <3>2
    <2> HIDE DEF b
    <2> DEFINE m == a.end - i
    <2>3. m \in Nat /\ i + n \in Nat /\ (i + n) + m <= b.cap /\ i + m <= b.cap /\ i + m = a.size
      BY <1>1, <2>2
    <2>4. Move(b, i + n, i, m).end = a.size
      <3>1. Move(b, i + n, i, m) = Refilled(b, Moved(b.mem, b.cap, i + n, i, m))
        BY <1>1, <2>2, <2>3, MoveMoves DEF Within
      <3> QED
        BY <2>2, <3>1 DEF Shape, Refilled
    <2>5. d = [Move(b, i + n, i, m) EXCEPT !.size = size, !.end = size]
      BY <2>4
    <2> HIDE DEF d, m, size
    <2>6. Shifted(b, d, i + n, i, m, size)
      BY <1>1, <2>2, <2>3, <2>5, MovedAndNumbered
    <2>7. Arr_legal(d)
      BY <2>2, <2>6 DEF Arr_legal, Shifted
    <2>8. ASSUME NEW j \in 0 .. i - 1 PROVE d.mem[j] = a.mem[j]
      <3>1. j \in 0 .. b.cap - 1 /\ ~(i + n <= j) /\ j \in 0 .. a.size - 1
        BY <1>1, <2>2, <2>3
      <3> QED
        BY <2>2, <2>6, <3>1 DEF Shifted
    <2>9. ASSUME NEW j \in i .. a.size - 1 PROVE d.mem[j + n] = a.mem[j]
      <3>1. PICK k \in 0 .. b.cap - 1 : k = j + n
        BY <1>1, <2>2, <2>3
      <3>2. /\ i + n <= k /\ k < (i + n) + m /\ i + (k - (i + n)) = j /\ j \in 0 .. a.size - 1
        BY <1>1, <2>3, <3>1
      <3>3. d.mem[k] = b.mem[i + (k - (i + n))]
        BY <2>6, <3>2 DEF Shifted
      <3> QED
        BY <2>2, <3>1, <3>2, <3>3
    <2>10. Widened(a, d, i, n)
      BY <2>6, <2>7, <2>8, <2>9 DEF Widened, Shifted, size
    <2> HIDE DEF r
    <2>11. r.c = d /\ r.it = i /\ r.ret = "success" /\ r = Result(r.c, i, r.ret)
      BY <2>1 DEF Result
    <2> QED
      BY <2>10, <2>11 DEF r
  <1> QED
    BY <1>2, <1>3

LEMMA ArrRemoveSpace ==
    ASSUME NEW a, Arr_legal(a), NEW i \in Nat, NEW n \in Nat, i + n <= a.size, NEW nomem
    PROVE  LET r == Arr_remove_space(a, i, n, nomem)
           IN  r = Result(r.c, i, r.ret) /\ r.ret = "success" /\ Narrowed(a, r.c, i, n)
  <1> DEFINE size == a.size - n
             m == a.end - (i + n)
             e == Move(a, i, i + n, m).end
             b == [Move(a, i, i + n, m) EXCEPT !.size = size, !.end = e - n]
             ncap == New_cap(size)
             shrinks == /\ "no_shrink" \notin a.opts
                        /\ size <= Low_capacity(a)
                        /\ a.cap # MIN_AUTO_ALLOC
                        /\ ~nomem
             d == IF ~shrinks THEN b
                  ELSE [b EXCEPT !.cap = ncap, !.mem =
                          [k \in 0 .. ncap - 1 |-> IF k < a.cap THEN b.mem[k] ELSE Junk]]
             r == Arr_remove_space(a, i, n, nomem)
  <1>1. /\ Shape(a) /\ a.begin = 0 /\ a.end = a.size /\ a.size \in Nat /\ a.cap \in Nat
        /\ a.size <= a.cap /\ a.ok = TRUE
    BY DEF Arr_legal, Shape
  <1>2. /\ size \in Nat /\ m \in Nat /\ i + n \in Nat /\ i + m <= a.cap /\ (i + n) + m <= a.cap
        /\ i + m = size /\ (i + n) + m = a.size /\ a.size - n = size
    BY <1>1
  <1>3. r = Result(d, i, "success")
    BY DEF Arr_remove_space
  <1>4. ncap \in Nat /\ size < ncap
    BY <1>2, NewCapacity
  <1> HIDE DEF r, shrinks, ncap, m
  <1>5. e = a.size
    <2>1. Move(a, i, i + n, m) = Refilled(a, Moved(a.mem, a.cap, i, i + n, m))
      BY <1>1, <1>2, MoveMoves DEF Within
    <2> QED
      BY <1>1, <2>1 DEF Shape, Refilled
  <1>6. b = [Move(a, i, i + n, m) EXCEPT !.size = size, !.end = size]
    BY <1>5
  <1> HIDE DEF b, e, size
  <1>7. Shifted(a, b, i, i + n, m, size)
    BY <1>1, <1>2, <1>6, MovedAndNumbered
  <1>8. /\ Shape(b) /\ b.begin = 0 /\ b.end = size /\ b.size = size /\ b.ok = TRUE /\ b.cap = a.cap
        /\ \A j \in 0 .. a.cap - 1 :
             b.mem[j] = IF i <= j /\ j < i + m THEN a.mem[(i + n) + (j - i)] ELSE a.mem[j]
    BY <1>1, <1>7 DEF Shifted
  <1>9. /\ Shape(d) /\ d.begin = 0 /\ d.end = size /\ d.size = size /\ d.ok = TRUE /\ size <= d.cap
        /\ \A j \in 0 .. size - 1 : d.mem[j] = b.mem[j]
    <2>1. CASE ~shrinks
      BY <1>1, <1>2, <1>8, <2>1
    <2>2. CASE shrinks
      <3>1. d = Recap(b, ncap)
        BY <1>8, <2>2 DEF Recap
      <3>2. Recapped(b, Recap(b, ncap), ncap)
        BY <1>4, <1>8, RecapShape
      <3>3. \A j \in 0 .. size - 1 : j \in 0 .. ncap - 1 /\ j < a.cap
        BY <1>1, <1>2, <1>4
      <3> HIDE DEF d
      <3>4. Recapped(b, d, ncap)
        BY <3>1, <3>2
      <3> QED
        BY <1>2, <1>4, <1>8, <3>3, <3>4 DEF Recapped
    <2> QED
      BY <2>1, <2>2
  <1> HIDE DEF d
  <1>10. ASSUME NEW j \in 0 .. i - 1 PROVE d.mem[j] = a.mem[j]
    <2>1. j \in 0 .. size - 1 /\ j \in 0 .. a.cap - 1 /\ ~(i <= j)
      BY <1>1, <1>2
    <2> QED
      BY <1>8, <1>9, <2>1
  <1>11. ASSUME NEW j \in i .. a.size - n - 1 PROVE d.mem[j] = a.mem[j + n]
    <2>1. /\ j \in 0 .. size - 1 /\ j \in 0 .. a.cap - 1 /\ i <= j /\ j < i + m
          /\ (i + n) + (j - i) = j + n
      BY <1>1, <1>2
    <2> QED
      BY <1>8, <1>9, <2>1
  <1>12. Narrowed(a, d, i, n)
    BY <1>2, <1>9, <1>10, <1>11 DEF Narrowed, Arr_legal
  <1>13. r.c = d /\ r.ret = "success" /\ r = Result(r.c, i, r.ret)
    BY <1>3 DEF Result
  <1> QED
    BY <1>12, <1>13 DEF r

\* Filling the block of a growing array anew.
LEMMA RefilledArr ==
    ASSUME NEW a, Arr_legal(a), NEW g \in Blocks(a.cap)
    PROVE  LET d == Refilled(a, g)
           IN  Arr_legal(d) /\ d.size = a.size /\ d.cap = a.cap /\ d.mem = g
  <1> DEFINE d == Refilled(a, g)
  <1>1. d = [mem |-> g, cap |-> a.cap, begin |-> a.begin, end |-> a.end, size |-> a.size,
             opts |-> a.opts, ok |-> a.ok]
    BY DEF Arr_legal, Shape, Refilled
  <1> HIDE DEF d
  <1>2. /\ d.mem = g /\ d.cap = a.cap /\ d.begin = a.begin /\ d.end = a.end /\ d.size = a.size
        /\ d.opts = a.opts /\ d.ok = a.ok
    BY <1>1
  <1>3. Shape(d)
    BY <1>1, <1>2 DEF Arr_legal, Shape
  <1> QED
    BY <1>2, <1>3 DEF Arr_legal, d

\* Values stored in a growing array.
LEMMA ArrStores ==
    ASSUME NEW a, Arr_legal(a), NEW i \in Nat, NEW vals \in Seq(Contained), i + Len(vals) <= a.size
    PROVE  LET d == Store(a, i, vals)
           IN  /\ Arr_legal(d) /\ d.size = a.size
               /\ \A j \in 0 .. a.size - 1 :
                    d.mem[j] = IF i <= j /\ j < i + Len(vals) THEN vals[j - i + 1] ELSE a.mem[j]
  <1> DEFINE n == Len(vals)
             rank(k) == IF k >= i THEN k - i ELSE k - i + a.cap
             g == [k \in 0 .. a.cap - 1 |-> IF rank(k) < n THEN vals[rank(k) + 1] ELSE a.mem[k]]
             d == Store(a, i, vals)
  <1>1. /\ a.cap \in Nat /\ a.mem \in [0 .. a.cap - 1 -> Contained] /\ DOMAIN a.mem = 0 .. a.cap - 1
        /\ a.size \in Nat /\ a.size <= a.cap /\ n \in Nat /\ i + n <= a.size
    BY DEF Arr_legal, Shape, Blocks
  <1>2. d = Refilled(a, g)
    BY <1>1 DEF Store, Refilled
  <1>3. ASSUME NEW k \in 0 .. a.cap - 1
        PROVE  (rank(k) < n) = (i <= k /\ k < i + n) /\ rank(k) \in Nat /\ (i <= k => rank(k) = k - i)
    <2> DEFINE cap == a.cap
               s == a.size
    <2>1. cap \in Nat /\ s \in Nat /\ s <= cap /\ n \in Nat /\ i + n <= s /\ k \in 0 .. cap - 1
      BY <1>1
    <2>2. rank(k) = IF k >= i THEN k - i ELSE k - i + cap
      OBVIOUS
    <2> HIDE DEF rank, cap, s, n
    <2> QED
      BY <2>1, <2>2
  <1>4. g \in Blocks(a.cap)
    <2>1. ASSUME NEW k \in 0 .. a.cap - 1, rank(k) < n PROVE vals[rank(k) + 1] \in Contained
      <3>1. rank(k) + 1 \in 1 .. Len(vals)
        BY <1>3, <2>1
      <3> QED
        BY <3>1
    <2> HIDE DEF rank
    <2> QED
      BY <1>1, <2>1 DEF Blocks
  <1>5. Arr_legal(d) /\ d.size = a.size /\ d.mem = g
    <2> HIDE DEF d, g
    <2> QED
      BY <1>2, <1>4, RefilledArr
  <1>6. ASSUME NEW j \in 0 .. a.size - 1
        PROVE  d.mem[j] = IF i <= j /\ j < i + n THEN vals[j - i + 1] ELSE a.mem[j]
    <2>1. j \in 0 .. a.cap - 1
      BY <1>1
    <2>2. g[j] = IF rank(j) < n THEN vals[rank(j) + 1] ELSE a.mem[j]
      BY <2>1
    <2> HIDE DEF d, g, rank
    <2> QED
      BY <1>3, <1>5, <2>1, <2>2
  <1> HIDE DEF d
  <1> QED
    BY <1>5, <1>6 DEF d

\* A gap for vals that vals is stored in.
LEMMA WidenedStored ==
    ASSUME NEW a, NEW s, Bears(a, s), NEW d, NEW i \in 0 .. Len(s), NEW vals \in Seq(Contained),
           Widened(a, d, i, Len(vals))
    PROVE  Bears(Store(d, i, vals), Inserted(s, i, vals))
  <1> DEFINE e == Store(d, i, vals)
             n == Len(vals)
             l == Len(s)
             t == Inserted(s, i, vals)
  <1>1. /\ s \in Seq(Contained) /\ l = a.size /\ n \in Nat /\ l \in Nat /\ i \in Nat /\ i <= l
        /\ Arr_legal(d) /\ d.size = l + n
        /\ \A j \in 1 .. l : a.mem[j - 1] = s[j]
    BY DEF Bears, Widened
  <1>2. \A j \in 0 .. i - 1 : d.mem[j] = s[j + 1]
    <2>1. ASSUME NEW j \in 0 .. i - 1 PROVE d.mem[j] = s[j + 1]
      <3>1. j + 1 \in 1 .. l /\ j + 1 - 1 = j
        BY <1>1
      <3> QED
        BY <1>1, <3>1 DEF Widened
    <2> QED
      BY <2>1
  <1>3. \A j \in i .. l - 1 : d.mem[j + n] = s[j + 1]
    <2>1. ASSUME NEW j \in i .. l - 1 PROVE d.mem[j + n] = s[j + 1]
      <3>1. j + 1 \in 1 .. l /\ j + 1 - 1 = j /\ j \in i .. a.size - 1
        BY <1>1
      <3> QED
        BY <1>1, <3>1 DEF Widened
    <2> QED
      BY <2>1
  <1>4. /\ Arr_legal(e) /\ e.size = d.size
        /\ \A j \in 0 .. d.size - 1 :
             e.mem[j] = IF i <= j /\ j < i + n THEN vals[j - i + 1] ELSE d.mem[j]
    <2>1. i + Len(vals) <= d.size
      BY <1>1
    <2> QED
      BY <1>1, <2>1, ArrStores
  <1>5. /\ t \in Seq(Contained) /\ Len(t) = l + n
        /\ \A j \in 1 .. i : t[j] = s[j]
        /\ \A j \in i + 1 .. i + n : t[j] = vals[j - i]
        /\ \A j \in i + 1 .. l : t[j + n] = s[j]
    <2>1. s \in Seq(Contained) /\ i \in 0 .. Len(s)
      BY <1>1
    <2> QED
      BY <2>1, InsertedIs, Zenon
  <1> HIDE DEF e, t, n, l
  <1>6. ASSUME NEW j \in 1 .. l + n PROVE e.mem[j - 1] = t[j]
    <2>1. /\ j - 1 \in 0 .. d.size - 1
          /\ e.mem[j - 1] = IF i <= j - 1 /\ j - 1 < i + n THEN vals[j - 1 - i + 1] ELSE d.mem[j - 1]
      BY <1>1, <1>4
    <2>2. CASE j <= i
      <3>1. j \in 1 .. i /\ j - 1 \in 0 .. i - 1 /\ j - 1 + 1 = j /\ ~(i <= j - 1)
        BY <1>1, <2>2
      <3> QED
        BY <1>2, <1>5, <2>1, <3>1
    <2>3. CASE i < j /\ j <= i + n
      <3>1. j \in i + 1 .. i + n /\ i <= j - 1 /\ j - 1 < i + n /\ j - 1 - i + 1 = j - i
        BY <1>1, <2>3
      <3> QED
        BY <1>5, <2>1, <3>1
    <2>4. CASE i + n < j
      <3>1. PICK k \in i + 1 .. l : j = k + n
        <4>1. j - n \in i + 1 .. l /\ j = j - n + n
          BY <1>1, <2>4
        <4> QED
          BY <4>1
      <3>2. /\ ~(j - 1 < i + n) /\ k - 1 \in i .. l - 1 /\ k - 1 + 1 = k /\ k - 1 + n = j - 1
        <4>1. i \in Nat /\ l \in Nat /\ n \in Nat /\ j \in Nat
          BY <1>1
        <4> QED
          BY <2>4, <3>1, <4>1
      <3>3. d.mem[k - 1 + n] = s[k - 1 + 1]
        BY <1>3, <3>2
      <3>4. t[k + n] = s[k]
        BY <1>5
      <3> QED
        BY <2>1, <3>1, <3>2, <3>3, <3>4
    <2> QED
      BY <1>1, <2>2, <2>3, <2>4
  <1> QED
    BY <1>1, <1>4, <1>5, <1>6 DEF Bears, e, t

\* No values, no gap.
LEMMA WidenedNone ==
    ASSUME NEW a, NEW s, Bears(a, s), NEW d, NEW i \in 0 .. Len(s), Widened(a, d, i, 0)
    PROVE  Bears(d, s)
  <1>1. /\ s \in Seq(Contained) /\ Len(s) = a.size /\ Len(s) \in Nat /\ i \in Nat
        /\ Arr_legal(d) /\ d.size = a.size
    BY DEF Bears, Widened, Arr_legal, Shape
  <1>2. ASSUME NEW j \in 1 .. Len(s) PROVE d.mem[j - 1] = s[j]
    <2>1. PICK k : k = j - 1
      OBVIOUS
    <2>2. k \in 0 .. i - 1 \/ k \in i .. a.size - 1
      BY <1>1, <2>1
    <2>3. k + 0 = k
      BY <1>1, <2>1
    <2>4. d.mem[k] = a.mem[k]
      BY <2>2, <2>3 DEF Widened
    <2> QED
      BY <2>1, <2>4 DEF Bears
  <1> QED
    BY <1>1, <1>2 DEF Bears

\* The gap over erased values closed.
LEMMA NarrowedBears ==
    ASSUME NEW a, NEW s, Bears(a, s), NEW d, NEW i \in Nat, NEW n \in Nat, i + n <= Len(s),
           Narrowed(a, d, i, n)
    PROVE  Bears(d, Erased(s, i, n))
  <1> DEFINE l == Len(s)
             t == Erased(s, i, n)
  <1>1. /\ s \in Seq(Contained) /\ l = a.size /\ l \in Nat
        /\ Arr_legal(d) /\ d.size = l - n
        /\ \A j \in 1 .. l : a.mem[j - 1] = s[j]
    BY DEF Bears, Narrowed
  <1>2. /\ t \in Seq(Contained) /\ Len(t) = l - n
        /\ \A j \in 1 .. i : t[j] = s[j]
        /\ \A j \in i + 1 .. l - n : t[j] = s[j + n]
    <2>1. s \in Seq(Contained)
      BY <1>1
    <2> QED
      BY <2>1, ErasedIs, Zenon
  <1> HIDE DEF t, l
  <1>3. i + n <= l
    BY DEF l
  <1>4. ASSUME NEW j \in 1 .. l - n PROVE d.mem[j - 1] = t[j]
    <2>1. CASE j <= i
      <3>1. j \in 1 .. i /\ j \in 1 .. l /\ j - 1 \in 0 .. i - 1
        BY <1>1, <1>3, <2>1
      <3>2. d.mem[j - 1] = a.mem[j - 1]
        BY <3>1 DEF Narrowed
      <3> QED
        BY <1>1, <1>2, <3>1, <3>2
    <2>2. CASE i < j
      <3>1. /\ j \in i + 1 .. l - n /\ j - 1 \in i .. a.size - n - 1 /\ j + n \in 1 .. l
            /\ j - 1 + n = j + n - 1
        BY <1>1, <1>3, <2>2
      <3>2. d.mem[j - 1] = a.mem[j - 1 + n]
        BY <3>1 DEF Narrowed
      <3>3. a.mem[j + n - 1] = s[j + n]
        <4>1. PICK k \in 1 .. l : k = j + n
          BY <3>1
        <4>2. a.mem[k - 1] = s[k]
          BY <1>1
        <4> QED
          BY <4>1, <4>2
      <3> QED
        BY <1>2, <3>1, <3>2, <3>3
    <2> QED
      BY <2>1, <2>2
  <1> QED
    BY <1>1, <1>2, <1>4 DEF Bears, t

\* stdarr_insert_n, _seq, _seq_n and _rep
LEMMA ArrInsert ==
    ASSUME NEW a, NEW s, Bears(a, s), NEW i \in 0 .. Len(s), NEW vals \in Seq(Contained), NEW nomem
    PROVE  LET r == Arr_insert(a, i, vals, nomem)
           IN  /\ r = Result(r.c, i, r.ret)
               /\ r.ret # "success" => r.c = a
               /\ r.ret = "success" => Bears(r.c, Inserted(s, i, vals))
  <1> DEFINE q == Arr_insert_space(a, i, Len(vals), nomem)
             r == Arr_insert(a, i, vals, nomem)
             e == Store(q.c, i, vals)
  <1>1. Arr_legal(a) /\ i \in 0 .. a.size /\ Len(vals) \in Nat /\ s \in Seq(Contained)
    BY DEF Bears
  <1>2. /\ q = Result(q.c, i, q.ret)
        /\ q.ret # "success" => q.c = a
        /\ q.ret = "success" => Widened(a, q.c, i, Len(vals))
    BY <1>1, ArrInsertSpace
  <1>3. r = IF q.ret # "success" \/ vals = << >> THEN q ELSE [q EXCEPT !.c = Store(q.c, i, vals)]
    BY DEF Arr_insert
  <1> HIDE DEF q, r, e
  <1>4. CASE q.ret # "success"
    BY <1>2, <1>3, <1>4 DEF r
  <1>5. CASE q.ret = "success" /\ vals = << >>
    <2>1. Len(vals) = 0 /\ Inserted(s, i, vals) = s
      <3>1. Len(vals) = 0
        BY <1>5
      <3>2. LET t == Inserted(s, i, vals)
                n == Len(vals)
            IN  /\ t \in Seq(Contained) /\ Len(t) = Len(s) + n
                /\ \A j \in 1 .. i : t[j] = s[j]
                /\ \A j \in i + 1 .. i + n : t[j] = vals[j - i]
                /\ \A j \in i + 1 .. Len(s) : t[j + n] = s[j]
        BY <1>1, InsertedIs, Zenon
      <3> DEFINE t == Inserted(s, i, vals)
      <3> HIDE DEF t
      <3>3. /\ t \in Seq(Contained) /\ Len(t) = Len(s)
            /\ \A j \in 1 .. i : t[j] = s[j]
            /\ \A j \in i + 1 .. Len(s) : t[j + 0] = s[j]
        BY <1>1, <3>1, <3>2 DEF t
      <3>4. \A j \in 1 .. Len(s) : t[j] = s[j]
        BY <1>1, <3>3
      <3>5. t = s
        BY <1>1, <3>3, <3>4, SeqEqual
      <3> QED
        BY <3>1, <3>5 DEF t
    <2>2. Bears(q.c, s)
      BY <1>2, <1>5, <2>1, WidenedNone
    <2> QED
      BY <1>2, <1>3, <1>5, <2>1, <2>2 DEF r
  <1>6. CASE q.ret = "success" /\ vals # << >>
    <2>1. Bears(e, Inserted(s, i, vals))
      BY <1>2, <1>6, WidenedStored DEF e
    <2>2. q = [c |-> q.c, it |-> i, ret |-> "success"]
      BY <1>2, <1>6 DEF Result
    <2>3. r = [c |-> e, it |-> i, ret |-> "success"]
      BY <1>3, <1>6, <2>2 DEF e
    <2>4. r.c = e /\ r.ret = "success" /\ r = Result(r.c, i, r.ret)
      BY <2>3 DEF Result
    <2> QED
      BY <2>1, <2>4 DEF r
  <1> QED
    BY <1>4, <1>5, <1>6

\* stdarr_erase_n and stdarr_pop_back_n
LEMMA ArrErases ==
    ASSUME NEW a, NEW s, Bears(a, s), NEW nomem
    PROVE  /\ \A i, n \in Nat : i + n <= Len(s) =>
                LET r == Arr_remove_space(a, i, n, nomem)
                IN  r = Result(r.c, i, r.ret) /\ r.ret = "success" /\ Bears(r.c, Erased(s, i, n))
           /\ \A n \in 0 .. Len(s) :
                LET r == Arr_pop_back_n(a, n, nomem)
                IN  /\ r = Result(r.c, r.it, r.ret) /\ r.ret = "success"
                    /\ Bears(r.c, Erased(s, Len(s) - n, n))
  <1>1. Arr_legal(a) /\ Len(s) = a.size /\ a.size \in Nat /\ a.end = a.size
    BY DEF Bears, Arr_legal, Shape
  <1>2. ASSUME NEW i \in Nat, NEW n \in Nat, i + n <= Len(s)
        PROVE  LET r == Arr_remove_space(a, i, n, nomem)
               IN  r = Result(r.c, i, r.ret) /\ r.ret = "success" /\ Bears(r.c, Erased(s, i, n))
    <2> DEFINE r == Arr_remove_space(a, i, n, nomem)
    <2>1. i + n <= a.size
      BY <1>1, <1>2
    <2>2. r = Result(r.c, i, r.ret) /\ r.ret = "success" /\ Narrowed(a, r.c, i, n)
      BY <1>1, <2>1, ArrRemoveSpace
    <2> HIDE DEF r
    <2>3. Bears(r.c, Erased(s, i, n))
      BY <1>2, <2>2, NarrowedBears
    <2> QED
      BY <2>2, <2>3 DEF r
  <1>3. ASSUME NEW n \in 0 .. Len(s)
        PROVE  LET r == Arr_pop_back_n(a, n, nomem)
               IN  /\ r = Result(r.c, r.it, r.ret) /\ r.ret = "success"
                   /\ Bears(r.c, Erased(s, Len(s) - n, n))
    <2> DEFINE i == Len(s) - n
    <2>1. n \in Nat /\ i \in Nat /\ i + n <= Len(s) /\ a.end - n = i
      BY <1>1
    <2>2. Arr_pop_back_n(a, n, nomem) = Arr_remove_space(a, i, n, nomem)
      BY <2>1 DEF Arr_pop_back_n
    <2> HIDE DEF i
    <2> DEFINE r == Arr_remove_space(a, i, n, nomem)
    <2>3. r = Result(r.c, i, r.ret) /\ r.ret = "success" /\ Bears(r.c, Erased(s, i, n))
      BY <1>2, <2>1
    <2> HIDE DEF r
    <2>4. r = Result(r.c, r.it, r.ret)
      BY <2>3 DEF Result
    <2> QED
      BY <2>2, <2>3, <2>4 DEF i, r
  <1> QED
    BY <1>2, <1>3

LEMMA ArrResizes ==
    ASSUME NEW a, NEW s, Bears(a, s), NEW n \in Nat, NEW nomem
    PROVE  LET r == Arr_resize(a, n, nomem)
           IN  /\ r = Result(r.c, r.it, r.ret)
               /\ r.ret # "success" => r.c = a
               /\ r.ret = "success" /\ n >= Len(s) => Widened(a, r.c, Len(s), n - Len(s))
               /\ n < Len(s) => r.ret = "success" /\ Narrowed(a, r.c, n, Len(s) - n)
  <1> DEFINE r == Arr_resize(a, n, nomem)
  <1>1. /\ Arr_legal(a) /\ Len(s) = a.size /\ a.size \in Nat /\ a.end = a.size
    BY DEF Bears, Arr_legal, Shape
  <1>2. CASE n > a.size
    <2> DEFINE i == a.size
               m == n - a.size
    <2>1. i \in 0 .. a.size /\ m \in Nat /\ ~(n < a.size) /\ n # a.size
      BY <1>1, <1>2
    <2>2. r = Arr_insert_space(a, i, m, nomem)
      BY <1>1, <1>2, <2>1 DEF Arr_resize
    <2> HIDE DEF r, i, m
    <2>3. /\ r = Result(r.c, i, r.ret)
          /\ r.ret # "success" => r.c = a
          /\ r.ret = "success" => Widened(a, r.c, i, m)
      BY <1>1, <2>1, <2>2, ArrInsertSpace
    <2>4. r.it = i
      BY <2>3 DEF Result
    <2> QED
      BY <1>1, <2>1, <2>3, <2>4 DEF i, m, r
  <1>3. CASE n < a.size
    <2> DEFINE m == a.size - n
    <2>1. m \in Nat /\ n + m <= a.size /\ ~(n > a.size) /\ n # a.size /\ ~(n >= a.size)
      BY <1>1, <1>3
    <2>2. r = Arr_remove_space(a, n, m, nomem)
      BY <1>1, <1>3, <2>1 DEF Arr_resize
    <2> HIDE DEF r, m
    <2>3. r = Result(r.c, n, r.ret) /\ r.ret = "success" /\ Narrowed(a, r.c, n, m)
      BY <1>1, <2>1, <2>2, ArrRemoveSpace
    <2>4. r.it = n
      BY <2>3 DEF Result
    <2> QED
      BY <1>1, <2>1, <2>3, <2>4 DEF m, r
  <1>4. CASE n = a.size
    <2>1. ~(n > a.size) /\ ~(n < a.size) /\ n - a.size = 0
      BY <1>1, <1>4
    <2>2. r = Result(a, n, "success")
      BY <1>1, <1>4, <2>1 DEF Arr_resize
    <2> HIDE DEF r
    <2>3. r.c = a /\ r.ret = "success" /\ r = Result(r.c, r.it, r.ret)
      BY <2>2 DEF Result
    <2>4. Widened(a, a, a.size, 0)
      BY <1>1 DEF Widened
    <2> QED
      BY <1>1, <2>1, <2>3, <2>4 DEF r
  <1> QED
    BY <1>1, <1>2, <1>3, <1>4

\* A caller that resizes to a larger size and stores the values it made room for.
LEMMA ArrGrows ==
    ASSUME NEW a, NEW s, Bears(a, s), NEW vals \in Seq(Contained), NEW nomem
    PROVE  LET r  == Arr_resize(a, Len(s) + Len(vals), nomem)
           IN  /\ r = Result(r.c, r.it, r.ret)
               /\ r.ret # "success" => r.c = a
               /\ r.ret = "success" => Bears(Store(r.c, Len(s), vals), s \o vals)
               /\ r.ret = "success" /\ vals = << >> => Bears(r.c, s \o vals)
  <1> DEFINE n  == Len(s) + Len(vals)
             r  == Arr_resize(a, n, nomem)
  <1>1. s \in Seq(Contained) /\ Len(s) \in Nat /\ Len(vals) \in Nat
    BY DEF Bears
  <1>2. n \in Nat /\ n >= Len(s) /\ n - Len(s) = Len(vals) /\ Len(s) \in 0 .. Len(s)
    BY <1>1
  <1> HIDE DEF n, r
  <1>3. /\ r = Result(r.c, r.it, r.ret)
        /\ r.ret # "success" => r.c = a
        /\ r.ret = "success" => Widened(a, r.c, Len(s), Len(vals))
    BY <1>2, ArrResizes DEF r
  <1>4. s \o vals = Inserted(s, Len(s), vals) /\ 0 \in 0 .. Len(s)
    BY <1>1, Ends
  <1>5. r.ret = "success" => Bears(Store(r.c, Len(s), vals), s \o vals)
    BY <1>2, <1>3, <1>4, WidenedStored
  <1>6. r.ret = "success" /\ vals = << >> => Bears(r.c, s \o vals)
    <2>1. vals = << >> => Len(vals) = 0 /\ s \o vals = s
      BY <1>1, ConcatEmptySeq
    <2> QED
      BY <1>2, <1>3, <2>1, WidenedNone
  <1> QED
    BY <1>3, <1>5, <1>6 DEF r, n

\* A caller that resizes to a smaller size.
LEMMA ArrTruncates ==
    ASSUME NEW a, NEW s, Bears(a, s), NEW n \in 0 .. Len(s), NEW nomem
    PROVE  LET r == Arr_resize(a, n, nomem)
           IN  /\ r = Result(r.c, r.it, r.ret)
               /\ r.ret # "success" => r.c = a
               /\ r.ret = "success" => Bears(r.c, SubSeq(s, 1, n))
  <1> DEFINE r == Arr_resize(a, n, nomem)
  <1>1. s \in Seq(Contained) /\ Len(s) \in Nat /\ n \in Nat /\ n <= Len(s)
    BY DEF Bears
  <1> HIDE DEF r
  <1>2. /\ r = Result(r.c, r.it, r.ret)
        /\ r.ret # "success" => r.c = a
        /\ r.ret = "success" /\ n >= Len(s) => Widened(a, r.c, Len(s), n - Len(s))
        /\ n < Len(s) => r.ret = "success" /\ Narrowed(a, r.c, n, Len(s) - n)
    BY <1>1, ArrResizes DEF r
  <1>3. CASE n = Len(s)
    <2>1. n >= Len(s) /\ n - Len(s) = 0 /\ Len(s) \in 0 .. Len(s)
      BY <1>1, <1>3
    <2>2. r.ret = "success" => Bears(r.c, s)
      BY <1>2, <2>1, WidenedNone
    <2>3. SubSeq(s, 1, n) = s
      BY <1>1, <1>3, SubSeqFull
    <2> QED
      BY <1>2, <2>2, <2>3 DEF r
  <1>4. CASE n < Len(s)
    <2> DEFINE m == Len(s) - n
    <2>1. m \in 0 .. Len(s) /\ m \in Nat /\ n + m <= Len(s) /\ Len(s) - m = n
      BY <1>1, <1>4
    <2> HIDE DEF m
    <2>2. Narrowed(a, r.c, n, m)
      BY <1>2, <1>4 DEF m
    <2>3. Bears(r.c, Erased(s, n, m))
      BY <1>1, <2>1, <2>2, NarrowedBears
    <2>4. SubSeq(s, 1, Len(s) - m) = Erased(s, Len(s) - m, m)
      BY <1>1, <2>1, Ends
    <2> QED
      BY <1>2, <2>1, <2>3, <2>4 DEF r
  <1> QED
    BY <1>1, <1>3, <1>4

\* stdarr_set_eq
LEMMA ArrSetsEq ==
    ASSUME NEW a, NEW s, Bears(a, s), NEW vals \in Seq(Contained), NEW nomem
    PROVE  LET r == Arr_set_eq(a, vals, nomem)
           IN  /\ r = Result(r.c, r.it, r.ret)
               /\ r.ret # "success" => r.c = a
               /\ r.ret = "success" => Bears(r.c, vals)
  <1> DEFINE n == Len(vals)
             q == Arr_resize(a, n, nomem)
             e == Store(q.c, 0, vals)
             r == Arr_set_eq(a, vals, nomem)
  <1>1. n \in Nat /\ s \in Seq(Contained) /\ Len(s) \in Nat /\ Len(s) = a.size
    BY DEF Bears
  <1>2. /\ q = Result(q.c, q.it, q.ret)
        /\ q.ret # "success" => q.c = a
        /\ q.ret = "success" /\ n >= Len(s) => Widened(a, q.c, Len(s), n - Len(s))
        /\ n < Len(s) => q.ret = "success" /\ Narrowed(a, q.c, n, Len(s) - n)
    <2> HIDE DEF n
    <2> QED
      BY <1>1, ArrResizes
  <1>3. r = IF q.ret # "success" \/ vals = << >> THEN q ELSE Result(e, 0, "success")
    BY DEF Arr_set_eq
  <1> HIDE DEF q, r
  <1>4. q.ret = "success" => Arr_legal(q.c) /\ q.c.size = n
    <2> HIDE DEF n
    <2> QED
      BY <1>1, <1>2 DEF Widened, Narrowed
  <1>5. CASE q.ret # "success"
    BY <1>2, <1>3, <1>5 DEF r
  <1>6. CASE q.ret = "success" /\ vals = << >>
    <2>1. Bears(q.c, vals)
      <3>1. n = 0 /\ \A j \in 1 .. n : q.c.mem[j - 1] = vals[j]
        BY <1>6
      <3> QED
        BY <1>4, <1>6, <3>1 DEF Bears
    <2> QED
      BY <1>2, <1>3, <1>6, <2>1 DEF r
  <1>7. CASE q.ret = "success" /\ vals # << >>
    <2>1. PICK i \in Nat : i = 0
      OBVIOUS
    <2>2. /\ Arr_legal(e) /\ e.size = q.c.size
          /\ \A j \in 0 .. q.c.size - 1 :
               e.mem[j] = IF i <= j /\ j < i + Len(vals) THEN vals[j - i + 1] ELSE q.c.mem[j]
      <3> DEFINE d == q.c
      <3>1. Arr_legal(d) /\ i + Len(vals) <= d.size /\ e = Store(d, i, vals)
        BY <1>1, <1>4, <1>7, <2>1
      <3> HIDE DEF d, e
      <3> QED
        BY <3>1, ArrStores DEF d
    <2> HIDE DEF e
    <2>3. ASSUME NEW j \in 1 .. n PROVE e.mem[j - 1] = vals[j]
      <3>1. j - 1 \in 0 .. q.c.size - 1 /\ i <= j - 1 /\ j - 1 < i + n /\ j - 1 - i + 1 = j
        BY <1>1, <1>4, <1>7, <2>1
      <3> QED
        BY <2>2, <3>1
    <2>4. Bears(e, vals)
      BY <1>4, <1>7, <2>2, <2>3 DEF Bears
    <2>5. r.c = e /\ r.ret = "success" /\ r = Result(r.c, r.it, r.ret)
      BY <1>3, <1>7 DEF Result
    <2> QED
      BY <2>4, <2>5 DEF r
  <1> QED
    BY <1>5, <1>6, <1>7

\* A position without a value may hold anything.
LEMMA ScrubbedBears ==
    ASSUME NEW a, NEW s, Bears(a, s)
    PROVE  Bears(Scrubbed(a), s)
  <1> DEFINE used == {Forward(a, a.begin, i) : i \in 0 .. a.size - 1}
             g == [i \in 0 .. a.cap - 1 |-> IF i \in used THEN a.mem[i] ELSE Junk]
             d == Scrubbed(a)
  <1>1. /\ Arr_legal(a) /\ a.cap \in Nat /\ a.mem \in [0 .. a.cap - 1 -> Contained]
        /\ DOMAIN a.mem = 0 .. a.cap - 1 /\ a.begin = 0 /\ a.size \in Nat /\ a.size <= a.cap
        /\ Len(s) = a.size
    BY DEF Bears, Arr_legal, Shape, Blocks
  <1>2. d = Refilled(a, g)
    BY <1>1 DEF Scrubbed, Refilled
  <1>3. g \in Blocks(a.cap)
    BY <1>1 DEF Blocks, Contained
  <1>4. ASSUME NEW j \in 0 .. a.size - 1 PROVE g[j] = a.mem[j]
    <2>1. Forward(a, a.begin, j) = j /\ j \in 0 .. a.cap - 1
      BY <1>1 DEF Forward
    <2>2. Forward(a, a.begin, j) \in used
      OBVIOUS
    <2> HIDE DEF used
    <2> QED
      BY <2>1, <2>2
  <1> HIDE DEF g, d
  <1>5. Arr_legal(d) /\ d.size = a.size /\ d.mem = g
    BY <1>1, <1>2, <1>3, RefilledArr
  <1>6. ASSUME NEW j \in 1 .. Len(s) PROVE d.mem[j - 1] = s[j]
    <2>1. j - 1 \in 0 .. a.size - 1
      BY <1>1
    <2> QED
      BY <1>4, <1>5, <2>1 DEF Bears
  <1> QED
    BY <1>1, <1>5, <1>6 DEF Bears, d

\* An empty array.
LEMMA ConstructBears ==
    ASSUME NEW opts
    PROVE  Bears(Construct_array(opts), << >>)
  <1> DEFINE d == Construct_array(opts)
             m == Block(0)
  <1>1. m \in Blocks(0)
    BY DEF Block, Blocks, Contained
  <1>2. d = [mem |-> m, cap |-> 0, begin |-> 0, end |-> 0, size |-> 0, opts |-> opts, ok |-> TRUE]
    BY DEF Construct_array
  <1> HIDE DEF d, m
  <1>3. /\ d.mem = m /\ d.cap = 0 /\ d.begin = 0 /\ d.end = 0 /\ d.size = 0 /\ d.opts = opts
        /\ d.ok = TRUE
    BY <1>2
  <1>4. Shape(d)
    BY <1>1, <1>2, <1>3 DEF Shape
  <1>5. << >> \in Seq(Contained) /\ Len(<< >>) = 0
    OBVIOUS
  <1> QED
    BY <1>3, <1>4, <1>5 DEF Bears, Arr_legal, d

\* Four fields changed.
Recut(c, n, k, m) == [c EXCEPT !.cap = n, !.size = k, !.end = k, !.mem = m]

LEMMA FourFields ==
    ASSUME NEW c, Shape(c), NEW n, NEW k, NEW m
    PROVE  Recut(c, n, k, m)
             = [mem |-> m, cap |-> n, begin |-> c.begin, end |-> k, size |-> k,
                opts |-> c.opts, ok |-> c.ok]
  <1> DEFINE x == [c EXCEPT !.cap = n]
             y == [x EXCEPT !.size = k]
             z == [y EXCEPT !.end = k]
  <1>1. x = [mem |-> c.mem, cap |-> n, begin |-> c.begin, end |-> c.end, size |-> c.size,
             opts |-> c.opts, ok |-> c.ok]
    BY DEF Shape
  <1>2. Recut(c, n, k, m) = [z EXCEPT !.mem = m]
    BY Zenon DEF Recut
  <1> HIDE DEF x
  <1>3. y = [mem |-> c.mem, cap |-> n, begin |-> c.begin, end |-> c.end, size |-> k,
             opts |-> c.opts, ok |-> c.ok]
    BY <1>1
  <1> HIDE DEF y
  <1>4. z = [mem |-> c.mem, cap |-> n, begin |-> c.begin, end |-> k, size |-> k,
             opts |-> c.opts, ok |-> c.ok]
    BY <1>3
  <1> HIDE DEF z
  <1> QED
    BY <1>2, <1>4

\* Another capacity, with the first values of an array.
LEMMA RenumberedRecap ==
    ASSUME NEW a, NEW s, Bears(a, s), NEW n \in Nat, NEW k \in Nat, k <= n, k <= Len(s)
    PROVE  Bears([a EXCEPT !.cap = n, !.size = k, !.end = k, !.mem =
                     [i \in 0 .. n - 1 |-> IF i < a.cap THEN a.mem[i] ELSE Junk]],
                 SubSeq(s, 1, k))
  <1> DEFINE m == [i \in 0 .. n - 1 |-> IF i < a.cap THEN a.mem[i] ELSE Junk]
             d == [a EXCEPT !.cap = n, !.size = k, !.end = k, !.mem = m]
             t == SubSeq(s, 1, k)
  <1>1. /\ Shape(a) /\ a.begin = 0 /\ a.ok = TRUE /\ a.size \in Nat /\ a.cap \in Nat
        /\ a.size <= a.cap /\ Len(s) = a.size /\ s \in Seq(Contained)
        /\ a.mem \in [0 .. a.cap - 1 -> Contained] /\ Junk \in Contained
    BY DEF Bears, Arr_legal, Shape, Blocks, Contained
  <1>2. m \in Blocks(n)
    BY <1>1 DEF Blocks
  <1>3. \A j \in 0 .. k - 1 : m[j] = a.mem[j]
    <2>1. ASSUME NEW j \in 0 .. k - 1 PROVE m[j] = a.mem[j]
      <3>1. j \in 0 .. n - 1 /\ j < a.cap
        BY <1>1
      <3> QED
        BY <3>1
    <2> QED
      BY <2>1
  <1>4. d = [mem |-> m, cap |-> n, begin |-> 0, end |-> k, size |-> k, opts |-> a.opts, ok |-> TRUE]
    <2> HIDE DEF m
    <2>1. d = Recut(a, n, k, m)
      BY DEF Recut
    <2>2. Recut(a, n, k, m) = [mem |-> m, cap |-> n, begin |-> a.begin, end |-> k, size |-> k,
                               opts |-> a.opts, ok |-> a.ok]
      BY <1>1, FourFields
    <2> HIDE DEF d
    <2> QED
      BY <1>1, <2>1, <2>2
  <1> HIDE DEF d, m
  <1>5. /\ d.mem = m /\ d.cap = n /\ d.begin = 0 /\ d.end = k /\ d.size = k /\ d.opts = a.opts
        /\ d.ok = TRUE
    BY <1>4
  <1>6. Arr_legal(d)
    BY <1>2, <1>4, <1>5 DEF Arr_legal, Shape
  <1>7. t \in Seq(Contained) /\ Len(t) = k /\ \A j \in 1 .. k : t[j] = s[j]
    <2>1. \A j \in 1 .. k : s[j] \in Contained
      BY <1>1
    <2>2. /\ t \in Seq(Contained) /\ Len(t) = (IF 1 <= k THEN k - 1 + 1 ELSE 0)
          /\ \A j \in 1 .. k - 1 + 1 : t[j] = s[1 + j - 1]
      BY <2>1, SubSeqProperties
    <2> HIDE DEF t
    <2> QED
      BY <2>2
  <1> HIDE DEF t
  <1>8. ASSUME NEW j \in 1 .. k PROVE d.mem[j - 1] = t[j]
    <2>1. j - 1 \in 0 .. k - 1 /\ j \in 1 .. Len(s)
      BY <1>1
    <2> QED
      BY <1>3, <1>5, <1>7, <2>1 DEF Bears
  <1> QED
    BY <1>5, <1>6, <1>7, <1>8 DEF Bears, d, m, t

\* stdarr_set_capacity
LEMMA ArrSetsCapacity ==
    ASSUME NEW a, NEW s, Bears(a, s), NEW n \in Nat, NEW nomem
    PROVE  LET r == Arr_set_capacity(a, n, nomem)
           IN  /\ r = Result(r.c, r.it, r.ret)
               /\ r.ret # "success" => r.c = a
               /\ r.ret = "success" => Bears(r.c, SubSeq(s, 1, Min({n, Len(s)})))
  <1> DEFINE r == Arr_set_capacity(a, n, nomem)
             k == Min({n, Len(s)})
             m == [i \in 0 .. n - 1 |-> IF i < a.cap THEN a.mem[i] ELSE Junk]
             d == [a EXCEPT !.cap = n, !.size = k, !.end = k, !.mem = m]
  <1>1. s \in Seq(Contained) /\ Len(s) = a.size /\ Len(s) \in Nat /\ a.size <= a.cap /\ a.cap \in Nat
    BY DEF Bears, Arr_legal, Shape
  <1>2. k = (IF n <= Len(s) THEN n ELSE Len(s))
    BY <1>1, MinOfTwo
  <1>3. Min({a.size, n}) = k
    <2>1. {a.size, n} = {n, Len(s)}
      BY <1>1
    <2> QED
      BY <2>1
  <1>4. k \in Nat /\ k <= n /\ k <= Len(s)
    <2> HIDE DEF k
    <2> QED
      BY <1>1, <1>2
  <1>5. CASE n = a.cap
    <2>1. r = Result(a, 0, "success")
      BY <1>5 DEF Arr_set_capacity
    <2>2. k = Len(s)
      <3> HIDE DEF k
      <3> QED
        BY <1>1, <1>2, <1>5
    <2>3. SubSeq(s, 1, k) = s
      BY <1>1, <2>2, SubSeqFull
    <2> HIDE DEF r, k
    <2>4. r.c = a /\ r.ret = "success" /\ r = Result(r.c, r.it, r.ret)
      BY <2>1 DEF Result
    <2>5. Bears(r.c, SubSeq(s, 1, k))
      BY <2>3, <2>4
    <2> QED
      BY <2>4, <2>5 DEF r, k
  <1>6. CASE n # a.cap /\ n = 0
    <2>1. r = Result(Construct_array(a.opts), 0, "success")
      BY <1>6 DEF Arr_set_capacity
    <2>2. k = 0 /\ SubSeq(s, 1, 0) = << >>
      <3> HIDE DEF k
      <3> QED
        BY <1>1, <1>4, <1>6, SubSeqEmpty
    <2> DEFINE x == Construct_array(a.opts)
    <2>3. Bears(x, << >>)
      BY ConstructBears
    <2> HIDE DEF r, k, x
    <2>4. r.c = x /\ r.ret = "success" /\ r = Result(r.c, r.it, r.ret)
      BY <2>1 DEF Result, x
    <2>5. Bears(r.c, SubSeq(s, 1, k))
      BY <2>2, <2>3, <2>4
    <2> QED
      BY <2>4, <2>5 DEF r, k
  <1>7. CASE n # a.cap /\ n # 0 /\ nomem
    <2>1. r = Result(a, 0, "nomem")
      BY <1>7, Zenon DEF Arr_set_capacity
    <2> HIDE DEF r
    <2> QED
      BY <2>1 DEF Result, r
  <1>8. CASE n # a.cap /\ n # 0 /\ ~nomem
    <2>1. r = Result(d, 0, "success")
      <3>1. r = Result([a EXCEPT !.cap = n, !.size = Min({a.size, n}), !.end = Min({a.size, n}),
                                 !.mem = [i \in 0 .. n - 1 |-> IF i < a.cap THEN a.mem[i] ELSE Junk]],
                       0, "success")
        BY <1>8, Zenon DEF Arr_set_capacity
      <3> QED
        BY <1>3, <3>1, Zenon
    <2> HIDE DEF k, r
    <2>2. Bears(d, SubSeq(s, 1, k))
      BY <1>4, RenumberedRecap
    <2> HIDE DEF d
    <2>3. r.c = d /\ r.ret = "success" /\ r = Result(r.c, r.it, r.ret)
      BY <2>1 DEF Result
    <2> QED
      BY <2>2, <2>3 DEF r, k
  <1> QED
    BY <1>5, <1>6, <1>7, <1>8

----------------------------------------------------------------------------
(* The invariant: an array holds what its callers believe it holds.        *)

ArraysInv ==
    /\ kind \in {"arr", "carr"} => good = TRUE
    /\ kind = "arr" => Bears(box, model)
    /\ kind = "carr" => Keeps(box, model)

LEMMA NoIteratorIs ==
    ASSUME NEW r, r = Result(r.c, r.it, r.ret), NEW i
    PROVE  LET x == NoIterator(r, i)
           IN  x.c = r.c /\ x.ret = r.ret /\ x.it = Get(r.c, i)
  <1> DEFINE g == Get(r.c, i)
             x == NoIterator(r, i)
  <1>1. x = [r EXCEPT !.it = g]
    BY DEF NoIterator
  <1>2. r = [c |-> r.c, it |-> r.it, ret |-> r.ret]
    BY DEF Result
  <1> HIDE DEF g, x
  <1>3. x = [c |-> r.c, it |-> g, ret |-> r.ret]
    BY <1>1, <1>2
  <1> QED
    BY <1>3 DEF g, x

\* What a call of a growing array returned.
Answers(r, s, i, to) ==
    /\ r.ret # "success" => r.c = box
    /\ r.ret = "success" => r.it = Get(r.c, i)
    /\ r.ret = "success" => IF kind = "arr" THEN Bears(r.c, to) ELSE Keeps(r.c, to)

LEMMA ChangesKeep ==
    ASSUME ArraysInv, kind \in {"arr", "carr"}, NEW r, NEW i, NEW to,
           Answers(r, model, i, to), Changes(r, i, to)
    PROVE  ArraysInv'
  <1>1. good = TRUE /\ kind' = kind /\ box' = Scrubbed(r.c)
    BY DEF ArraysInv, Changes
  <1>2. good' = TRUE
    BY <1>1 DEF Changes, Answers
  <1>3. CASE kind = "arr"
    <2>1. Bears(r.c, model')
      BY <1>3 DEF ArraysInv, Changes, Answers
    <2>2. Bears(Scrubbed(r.c), model')
      BY <2>1, ScrubbedBears
    <2> QED
      BY <1>1, <1>2, <1>3, <2>2 DEF ArraysInv
  <1>4. CASE kind = "carr"
    <2>1. Keeps(r.c, model')
      BY <1>4 DEF ArraysInv, Changes, Answers
    <2>2. Keeps(Scrubbed(r.c), model')
      BY <2>1, ScrubbedKeeps
    <2> QED
      BY <1>1, <1>2, <1>4, <2>2 DEF ArraysInv
  <1> QED
    BY <1>3, <1>4

\* A call without an iterator.
LEMMA Answered ==
    ASSUME kind \in {"arr", "carr"}, NEW r, NEW i, NEW to,
           r = Result(r.c, r.it, r.ret),
           r.ret # "success" => r.c = box,
           kind = "arr" /\ r.ret = "success" => Bears(r.c, to),
           kind = "carr" /\ r.ret = "success" => Keeps(r.c, to)
    PROVE  Answers(NoIterator(r, i), model, i, to)
  <1> DEFINE x == NoIterator(r, i)
  <1>1. x.c = r.c /\ x.ret = r.ret /\ x.it = Get(r.c, i)
    BY NoIteratorIs
  <1> HIDE DEF x
  <1>2. Answers(x, model, i, to)
    BY <1>1 DEF Answers
  <1> QED
    BY <1>2 DEF x

LEMMA OtherKinds ==
    ASSUME kind \notin {"arr", "carr"}, kind' = kind
    PROVE  ArraysInv'
  BY DEF ArraysInv

\* The values of a call.
LEMMA Given == ASSUME NEW vals \in Inserts PROVE vals \in Seq(Contained)
  <1>1. vals \in Seq(Values)
    BY CallersAssumption
  <1> QED
    BY <1>1, ContainedSeq

\* What an array holds.
LEMMA Holding ==
    ASSUME ArraysInv, kind \in {"arr", "carr"}
    PROVE  model \in Seq(Contained) /\ Len(model) \in Nat
  <1>1. model \in Seq(Contained)
    BY DEF ArraysInv, Bears, Keeps
  <1> QED
    BY <1>1

----------------------------------------------------------------------------
(* One step for each of the calls.                                         *)

LEMMA StepInsert == ASSUME ArraysInv, SeqInsert PROVE ArraysInv'
  <1>1. PICK i \in 0 .. Len(model), vals \in Inserts, nomem \in BOOLEAN :
          Changes(Insert(i, vals, nomem), i,
                  SubSeq(model, 1, i) \o vals \o SubSeq(model, i + 1, Len(model)))
    BY DEF SeqInsert
  <1> DEFINE r == Insert(i, vals, nomem)
             to == Inserted(model, i, vals)
  <1>2. Changes(r, i, to)
    BY <1>1 DEF Inserted
  <1>3. vals \in Seq(Contained)
    BY Given
  <1>4. CASE kind = "arr"
    <2>1. r = Arr_insert(box, i, vals, nomem)
      BY <1>4 DEF Insert
    <2>2. Bears(box, model)
      BY <1>4 DEF ArraysInv
    <2> HIDE DEF r, to
    <2>3. /\ r = Result(r.c, i, r.ret)
          /\ r.ret # "success" => r.c = box
          /\ r.ret = "success" => Bears(r.c, to)
      BY <1>3, <2>1, <2>2, ArrInsert DEF to
    <2>4. r.it = i /\ Get(r.c, i) = i
      BY <1>4, <2>3 DEF Result, Get
    <2>5. Answers(r, model, i, to)
      BY <1>4, <2>3, <2>4 DEF Answers
    <2> QED
      BY <1>2, <1>4, <2>5, ChangesKeep
  <1>5. CASE kind = "carr"
    <2>1. r = Carr_insert(box, Forward(box, box.begin, i), vals, nomem)
      BY <1>5 DEF Insert, Carr_get
    <2>2. Keeps(box, model)
      BY <1>5 DEF ArraysInv
    <2> HIDE DEF r, to
    <2>3. /\ r.ret # "success" => r.c = box
          /\ r.ret = "success" => Keeps(r.c, to) /\ r.it = Forward(r.c, r.c.begin, i)
      BY <1>3, <2>1, <2>2, CarrInsert DEF to
    <2>4. Get(r.c, i) = Forward(r.c, r.c.begin, i)
      BY <1>5 DEF Get, Carr_get
    <2>5. Answers(r, model, i, to)
      BY <1>5, <2>3, <2>4 DEF Answers
    <2> QED
      BY <1>2, <1>5, <2>5, ChangesKeep
  <1>6. CASE kind \notin {"arr", "carr"}
    BY <1>2, <1>6, OtherKinds DEF Changes
  <1> QED
    BY <1>4, <1>5, <1>6

LEMMA StepErase == ASSUME ArraysInv, SeqErase PROVE ArraysInv'
  <1>1. PICK i \in 0 .. Len(model), n \in 0 .. Len(model), nomem \in BOOLEAN :
          /\ i + n <= Len(model)
          /\ Changes(IF kind = "carr" THEN NoIterator(Erase_n(i, n, nomem), i) ELSE Erase_n(i, n, nomem), i,
                     SubSeq(model, 1, i) \o SubSeq(model, i + n + 1, Len(model)))
    BY DEF SeqErase
  <1> DEFINE r == Erase_n(i, n, nomem)
             x == IF kind = "carr" THEN NoIterator(r, i) ELSE r
             to == Erased(model, i, n)
  <1>2. Changes(x, i, to)
    BY <1>1 DEF Erased
  <1>3. CASE kind = "arr"
    <2>1. r = Arr_remove_space(box, i, n, nomem) /\ x = r
      BY <1>3 DEF Erase_n
    <2>2. Bears(box, model) /\ i \in Nat /\ n \in Nat
      BY <1>3 DEF ArraysInv
    <2> HIDE DEF r, to, x
    <2>3. r = Result(r.c, i, r.ret) /\ r.ret = "success" /\ Bears(r.c, to)
      BY <1>1, <2>1, <2>2, ArrErases DEF to
    <2>4. r.it = i /\ Get(r.c, i) = i
      BY <1>3, <2>3 DEF Result, Get
    <2>5. Answers(x, model, i, to)
      BY <1>3, <2>1, <2>3, <2>4 DEF Answers
    <2> QED
      BY <1>2, <1>3, <2>5, ChangesKeep
  <1>4. CASE kind = "carr"
    <2>1. r = Carr_erase_n(box, Forward(box, box.begin, i), n, nomem) /\ x = NoIterator(r, i)
      BY <1>4 DEF Erase_n, Carr_get
    <2>2. Keeps(box, model) /\ i \in Nat /\ n \in Nat
      BY <1>4 DEF ArraysInv
    <2> HIDE DEF r, to, x
    <2>3. r = Result(r.c, r.it, r.ret) /\ r.ret = "success" /\ Keeps(r.c, to)
      <3>1. \A j, m \in Nat : j + m <= Len(model) =>
              LET q == Carr_erase_n(box, Forward(box, box.begin, j), m, nomem)
              IN  q = Result(q.c, q.it, q.ret) /\ q.ret = "success" /\ Keeps(q.c, Erased(model, j, m))
        BY <2>2, CarrErases
      <3> DEFINE q == Carr_erase_n(box, Forward(box, box.begin, i), n, nomem)
      <3>2. q = Result(q.c, q.it, q.ret) /\ q.ret = "success" /\ Keeps(q.c, Erased(model, i, n))
        BY <1>1, <2>2, <3>1
      <3> HIDE DEF q
      <3> QED
        BY <2>1, <3>2 DEF to, q
    <2>4. Answers(x, model, i, to)
      BY <1>4, <2>1, <2>3, Answered
    <2> QED
      BY <1>2, <1>4, <2>4, ChangesKeep
  <1>5. CASE kind \notin {"arr", "carr"}
    BY <1>2, <1>5, OtherKinds DEF Changes
  <1> QED
    BY <1>3, <1>4, <1>5

LEMMA StepPopBack == ASSUME ArraysInv, SeqPopBack PROVE ArraysInv'
  <1>1. PICK n \in 0 .. Len(model), nomem \in BOOLEAN :
          Changes(NoIterator(Pop_back_n(n, nomem), 0), 0, SubSeq(model, 1, Len(model) - n))
    BY DEF SeqPopBack
  <1> DEFINE r == Pop_back_n(n, nomem)
             to == SubSeq(model, 1, Len(model) - n)
  <1>2. CASE kind \in {"arr", "carr"}
    <2>1. to = Erased(model, Len(model) - n, n)
      BY <1>2, Holding, Ends
    <2>2. CASE kind = "arr"
      <3>1. r = Arr_pop_back_n(box, n, nomem) /\ Bears(box, model)
        BY <2>2 DEF Pop_back_n, ArraysInv
      <3> HIDE DEF r, to
      <3>2. r = Result(r.c, r.it, r.ret) /\ r.ret = "success" /\ Bears(r.c, to)
        BY <2>1, <3>1, ArrErases
      <3>3. Answers(NoIterator(r, 0), model, 0, to)
        BY <2>2, <3>2, Answered
      <3> QED
        BY <1>1, <2>2, <3>3, ChangesKeep DEF r, to
    <2>3. CASE kind = "carr"
      <3>1. r = Carr_pop_back_n(box, n, nomem) /\ Keeps(box, model)
        BY <2>3 DEF Pop_back_n, ArraysInv
      <3> HIDE DEF r, to
      <3>2. r = Result(r.c, r.it, r.ret) /\ r.ret = "success" /\ Keeps(r.c, to)
        BY <2>1, <3>1, CarrErases
      <3>3. Answers(NoIterator(r, 0), model, 0, to)
        BY <2>3, <3>2, Answered
      <3> QED
        BY <1>1, <2>3, <3>3, ChangesKeep DEF r, to
    <2> QED
      BY <1>2, <2>2, <2>3
  <1>3. CASE kind \notin {"arr", "carr"}
    BY <1>1, <1>3, OtherKinds DEF Changes
  <1> QED
    BY <1>2, <1>3

LEMMA StepPopFront == ASSUME ArraysInv, SeqPopFront PROVE ArraysInv'
  <1>1. PICK n \in 0 .. Len(model), nomem \in BOOLEAN :
          Changes(NoIterator(Pop_front_n(n, nomem), 0), 0, SubSeq(model, n + 1, Len(model)))
    BY DEF SeqPopFront
  <1> DEFINE r == Pop_front_n(n, nomem)
             to == SubSeq(model, n + 1, Len(model))
  <1>2. CASE kind = "carr"
    <2>1. to = Erased(model, 0, n)
      BY <1>2, Holding, Ends
    <2>2. r = Carr_pop_front_n(box, n, nomem) /\ Keeps(box, model)
      BY <1>2 DEF Pop_front_n, ArraysInv
    <2> HIDE DEF r, to
    <2>3. r = Result(r.c, r.it, r.ret) /\ r.ret = "success" /\ Keeps(r.c, to)
      BY <2>1, <2>2, CarrErases
    <2>4. Answers(NoIterator(r, 0), model, 0, to)
      BY <1>2, <2>3, Answered
    <2> QED
      BY <1>1, <1>2, <2>4, ChangesKeep DEF r, to
  <1>3. CASE kind # "carr"
    <2>1. kind \notin {"arr", "carr"}
      BY <1>3 DEF SeqPopFront
    <2> QED
      BY <1>1, <2>1, OtherKinds DEF Changes
  <1> QED
    BY <1>2, <1>3

LEMMA StepPush == ASSUME ArraysInv, SeqPush PROVE ArraysInv'
  <1>1. PICK vals \in Inserts, nomem \in BOOLEAN :
          \/ Changes(NoIterator(Push_back(vals, nomem), 0), 0, model \o vals)
          \/ kind # "arr" /\ Changes(NoIterator(Push_front(vals, nomem), 0), 0, vals \o model)
    BY DEF SeqPush
  <1>2. vals \in Seq(Contained)
    BY Given
  <1>3. CASE kind \in {"arr", "carr"} /\ Changes(NoIterator(Push_back(vals, nomem), 0), 0, model \o vals)
    <2> DEFINE r == Push_back(vals, nomem)
               to == model \o vals
               l == Len(model)
    <2>1. l \in 0 .. Len(model) /\ 0 \in 0 .. Len(model) /\ model \in Seq(Contained)
      BY <1>3, Holding
    <2>2. to = Inserted(model, l, vals)
      BY <1>2, <2>1, Ends
    <2>3. CASE kind = "arr"
      <3>1. Bears(box, model) /\ box.end = l
        BY <2>3 DEF ArraysInv, Bears, Arr_legal
      <3>2. r = Arr_insert(box, l, vals, nomem)
        BY <2>3, <3>1 DEF Push_back, Arr_push_back
      <3> HIDE DEF r, to
      <3>3. /\ r = Result(r.c, l, r.ret)
            /\ r.ret # "success" => r.c = box
            /\ r.ret = "success" => Bears(r.c, to)
        BY <1>2, <2>1, <2>2, <3>1, <3>2, ArrInsert
      <3>4. r = Result(r.c, r.it, r.ret)
        <4> HIDE DEF l
        <4> QED
          BY <3>3 DEF Result
      <3>5. Answers(NoIterator(r, 0), model, 0, to)
        BY <2>3, <3>3, <3>4, Answered
      <3> QED
        BY <1>3, <2>3, <3>5, ChangesKeep DEF r, to
    <2>4. CASE kind = "carr"
      <3>1. Keeps(box, model) /\ box.end = Forward(box, box.begin, l)
        BY <2>4 DEF ArraysInv, Keeps, Legal
      <3>2. r = Carr_insert(box, Forward(box, box.begin, l), vals, nomem)
        BY <2>4, <3>1 DEF Push_back, Carr_push_back
      <3> HIDE DEF r, to, l
      <3>3. /\ r = Result(r.c, r.it, r.ret)
            /\ r.ret # "success" => r.c = box
            /\ r.ret = "success" => Keeps(r.c, to)
        BY <1>2, <2>1, <2>2, <3>1, <3>2, CarrInsert
      <3>4. Answers(NoIterator(r, 0), model, 0, to)
        BY <2>4, <3>3, Answered
      <3> QED
        BY <1>3, <2>4, <3>4, ChangesKeep DEF r, to
    <2> QED
      BY <1>3, <2>3, <2>4
  <1>4. CASE kind = "carr" /\ Changes(NoIterator(Push_front(vals, nomem), 0), 0, vals \o model)
    <2> DEFINE r == Push_front(vals, nomem)
               to == vals \o model
    <2>1. 0 \in 0 .. Len(model) /\ 0 + 0 <= Len(model) /\ model \in Seq(Contained)
      BY <1>4, Holding
    <2>2. to = Inserted(model, 0, vals)
      BY <1>2, <2>1, Ends
    <2>3. Keeps(box, model)
      BY <1>4 DEF ArraysInv
    <2>4. Forward(box, box.begin, 0) = box.begin
      BY <2>3 DEF Forward, Keeps, Legal, Shape
    <2>5. r = Carr_insert(box, Forward(box, box.begin, 0), vals, nomem)
      BY <1>4, <2>4 DEF Push_front, Carr_push_front
    <2> HIDE DEF r, to
    <2>6. /\ r = Result(r.c, r.it, r.ret)
          /\ r.ret # "success" => r.c = box
          /\ r.ret = "success" => Keeps(r.c, to)
      BY <1>2, <2>1, <2>2, <2>3, <2>5, CarrInsert
    <2>7. Answers(NoIterator(r, 0), model, 0, to)
      BY <1>4, <2>6, Answered
    <2> QED
      BY <1>4, <2>7, ChangesKeep DEF r, to
  <1>5. CASE kind \notin {"arr", "carr"}
    BY <1>1, <1>5, OtherKinds DEF Changes
  <1> QED
    BY <1>1, <1>3, <1>4, <1>5

LEMMA StepTruncate == ASSUME ArraysInv, SeqTruncate PROVE ArraysInv'
  <1>1. PICK n \in 0 .. Len(model), nomem \in BOOLEAN :
          Changes(NoIterator(Truncate(n, nomem), 0), 0, SubSeq(model, 1, n))
    BY DEF SeqTruncate
  <1> DEFINE r == Truncate(n, nomem)
             to == SubSeq(model, 1, n)
  <1>2. CASE kind = "arr"
    <2>1. r = Arr_resize(box, n, nomem) /\ Bears(box, model)
      BY <1>2 DEF Truncate, ArraysInv
    <2> HIDE DEF r
    <2>2. /\ r = Result(r.c, r.it, r.ret)
          /\ r.ret # "success" => r.c = box
          /\ r.ret = "success" => Bears(r.c, to)
      BY <2>1, ArrTruncates
    <2> HIDE DEF to
    <2>3. Answers(NoIterator(r, 0), model, 0, to)
      BY <1>2, <2>2, Answered
    <2> QED
      BY <1>1, <1>2, <2>3, ChangesKeep DEF r, to
  <1>3. CASE kind = "carr"
    <2>1. r = Carr_resize(box, n, nomem) /\ Keeps(box, model)
      BY <1>3 DEF Truncate, ArraysInv
    <2> HIDE DEF r
    <2>2. /\ r = Result(r.c, r.it, r.ret)
          /\ r.ret # "success" => r.c = box
          /\ r.ret = "success" => Keeps(r.c, to)
      BY <2>1, CarrTruncates
    <2> HIDE DEF to
    <2>3. Answers(NoIterator(r, 0), model, 0, to)
      BY <1>3, <2>2, Answered
    <2> QED
      BY <1>1, <1>3, <2>3, ChangesKeep DEF r, to
  <1>4. CASE kind \notin {"arr", "carr"}
    BY <1>1, <1>4, OtherKinds DEF Changes
  <1> QED
    BY <1>2, <1>3, <1>4

LEMMA StepResize == ASSUME ArraysInv, ArrResize PROVE ArraysInv'
  <1>1. PICK vals \in Inserts, nomem \in BOOLEAN :
          LET n == Len(model) + Len(vals)
              r == IF kind = "arr" THEN Arr_resize(box, n, nomem) ELSE Carr_resize(box, n, nomem)
              at == Get(r.c, Len(model))
          IN  /\ kind \in {"arr", "carr"}
              /\ Changes(IF r.ret = "success" /\ vals # << >>
                         THEN Result(Store(r.c, at, vals), at, r.ret) ELSE NoIterator(r, Len(model)),
                         Len(model), model \o vals)
    BY DEF ArrResize
  <1> DEFINE n == Len(model) + Len(vals)
             l == Len(model)
             r == IF kind = "arr" THEN Arr_resize(box, n, nomem) ELSE Carr_resize(box, n, nomem)
             at == Get(r.c, l)
             e == Store(r.c, at, vals)
             stored == r.ret = "success" /\ vals # << >>
             x == IF stored THEN Result(e, at, r.ret) ELSE NoIterator(r, l)
             to == model \o vals
  <1>2. kind \in {"arr", "carr"} /\ Changes(x, l, to)
    BY <1>1
  <1>3. vals \in Seq(Contained)
    BY Given
  <1>4. /\ r = Result(r.c, r.it, r.ret)
        /\ r.ret # "success" => r.c = box
        /\ kind = "arr" /\ r.ret = "success" /\ vals = << >> => Bears(r.c, to)
        /\ kind = "carr" /\ r.ret = "success" /\ vals = << >> => Keeps(r.c, to)
        /\ r.ret = "success" => IF kind = "arr" THEN Bears(e, to) ELSE Keeps(e, to)
        /\ r.ret = "success" => Get(e, l) = at
    <2>1. CASE kind = "arr"
      <3>1. r = Arr_resize(box, n, nomem) /\ Bears(box, model) /\ at = l /\ Get(e, l) = at
        BY <2>1 DEF ArraysInv, Get
      <3>2. LET q == Arr_resize(box, n, nomem)
            IN  /\ q = Result(q.c, q.it, q.ret)
                /\ q.ret # "success" => q.c = box
                /\ q.ret = "success" => Bears(Store(q.c, l, vals), to)
                /\ q.ret = "success" /\ vals = << >> => Bears(q.c, to)
        BY <1>3, <3>1, ArrGrows
      <3> HIDE DEF r, at, to, l, n
      <3>3. /\ r = Result(r.c, r.it, r.ret)
            /\ r.ret # "success" => r.c = box
            /\ r.ret = "success" => Bears(Store(r.c, l, vals), to)
            /\ r.ret = "success" /\ vals = << >> => Bears(r.c, to)
        BY <3>1, <3>2
      <3>4. e = Store(r.c, l, vals)
        BY <3>1
      <3> HIDE DEF e
      <3> QED
        BY <2>1, <3>1, <3>3, <3>4
    <2>2. CASE kind = "carr"
      <3>1. r = Carr_resize(box, n, nomem) /\ Keeps(box, model)
        BY <2>2 DEF ArraysInv
      <3>2. LET q  == Carr_resize(box, n, nomem)
                p == Forward(q.c, q.c.begin, l)
                f  == Store(q.c, p, vals)
            IN  /\ q = Result(q.c, q.it, q.ret)
                /\ q.ret # "success" => q.c = box
                /\ q.ret = "success" => Keeps(f, to) /\ Forward(f, f.begin, l) = p
                /\ q.ret = "success" /\ vals = << >> => Keeps(q.c, to)
        BY <1>3, <3>1, CarrGrows
      <3>3. at = Forward(r.c, r.c.begin, l) /\ Get(e, l) = Forward(e, e.begin, l)
        BY <2>2 DEF Get, Carr_get
      <3> HIDE DEF r, at, to, l, n
      <3>4. LET p == Forward(r.c, r.c.begin, l)
                f  == Store(r.c, p, vals)
            IN  /\ r = Result(r.c, r.it, r.ret)
                /\ r.ret # "success" => r.c = box
                /\ r.ret = "success" => Keeps(f, to) /\ Forward(f, f.begin, l) = p
                /\ r.ret = "success" /\ vals = << >> => Keeps(r.c, to)
        BY <3>1, <3>2
      <3>5. /\ r = Result(r.c, r.it, r.ret)
            /\ r.ret # "success" => r.c = box
            /\ r.ret = "success" => Keeps(e, to) /\ Forward(e, e.begin, l) = at
            /\ r.ret = "success" /\ vals = << >> => Keeps(r.c, to)
        BY <3>3, <3>4
      <3> HIDE DEF e
      <3> QED
        BY <2>2, <3>3, <3>5
    <2> QED
      BY <1>2, <2>1, <2>2
  <1> HIDE DEF r, at, e, to, l, n
  <1>5. Answers(x, model, l, to)
    <2>1. CASE stored
      <3>1. x = Result(e, at, "success")
        BY <2>1
      <3>2. x.c = e /\ x.it = at /\ x.ret = "success"
        BY <3>1 DEF Result
      <3> HIDE DEF x
      <3> QED
        BY <1>4, <2>1, <3>2 DEF Answers
    <2>2. CASE ~stored
      <3>1. x = NoIterator(r, l)
        BY <2>2
      <3>2. /\ kind = "arr" /\ r.ret = "success" => Bears(r.c, to)
            /\ kind = "carr" /\ r.ret = "success" => Keeps(r.c, to)
        BY <1>4, <2>2
      <3> HIDE DEF x
      <3> QED
        BY <1>2, <1>4, <3>1, <3>2, Answered
    <2> QED
      BY <2>1, <2>2
  <1> HIDE DEF x
  <1> QED
    BY <1>2, <1>5, ChangesKeep

LEMMA StepSetCapacity == ASSUME ArraysInv, ArrSetCapacity PROVE ArraysInv'
  <1>1. PICK n \in Capacities, nomem \in BOOLEAN :
          /\ kind \in {"arr", "carr"}
          /\ Changes(NoIterator(IF kind = "arr" THEN Arr_set_capacity(box, n, nomem)
                                ELSE Carr_set_capacity(box, n, nomem), 0), 0,
                     SubSeq(model, 1, Min({n, Len(model)})))
    BY DEF ArrSetCapacity
  <1> DEFINE r == IF kind = "arr" THEN Arr_set_capacity(box, n, nomem)
                  ELSE Carr_set_capacity(box, n, nomem)
             to == SubSeq(model, 1, Min({n, Len(model)}))
  <1>2. kind \in {"arr", "carr"} /\ Changes(NoIterator(r, 0), 0, to)
    BY <1>1
  <1>3. n \in Nat
    BY CallersAssumption
  <1>4. CASE kind = "arr"
    <2>1. r = Arr_set_capacity(box, n, nomem) /\ Bears(box, model)
      BY <1>4 DEF ArraysInv
    <2> HIDE DEF r
    <2>2. /\ r = Result(r.c, r.it, r.ret)
          /\ r.ret # "success" => r.c = box
          /\ r.ret = "success" => Bears(r.c, to)
      BY <1>3, <2>1, ArrSetsCapacity
    <2> HIDE DEF to
    <2>3. Answers(NoIterator(r, 0), model, 0, to)
      BY <1>4, <2>2, Answered
    <2> QED
      BY <1>2, <1>4, <2>3, ChangesKeep
  <1>5. CASE kind = "carr"
    <2>1. r = Carr_set_capacity(box, n, nomem) /\ Keeps(box, model)
      BY <1>5 DEF ArraysInv
    <2> HIDE DEF r
    <2>2. /\ r = Result(r.c, r.it, r.ret)
          /\ r.ret # "success" => r.c = box
          /\ r.ret = "success" => Keeps(r.c, to)
      BY <1>3, <2>1, CarrSetCapacity
    <2> HIDE DEF to
    <2>3. Answers(NoIterator(r, 0), model, 0, to)
      BY <1>5, <2>2, Answered
    <2> QED
      BY <1>2, <1>5, <2>3, ChangesKeep
  <1> QED
    BY <1>2, <1>4, <1>5

LEMMA StepSetEq == ASSUME ArraysInv, ArrSetEq PROVE ArraysInv'
  <1>1. PICK vals \in Inserts, nomem \in BOOLEAN :
          LET r == IF kind = "arr" THEN Arr_set_eq(box, vals, nomem) ELSE Carr_set_eq(box, vals, nomem)
          IN  kind \in {"arr", "carr"} /\ Changes(NoIterator(r, 0), 0, vals)
    BY DEF ArrSetEq
  <1> DEFINE r == IF kind = "arr" THEN Arr_set_eq(box, vals, nomem) ELSE Carr_set_eq(box, vals, nomem)
  <1>2. kind \in {"arr", "carr"} /\ Changes(NoIterator(r, 0), 0, vals)
    BY <1>1
  <1>3. vals \in Seq(Contained)
    BY Given
  <1>4. CASE kind = "arr"
    <2>1. r = Arr_set_eq(box, vals, nomem) /\ Bears(box, model)
      BY <1>4 DEF ArraysInv
    <2> HIDE DEF r
    <2>2. /\ r = Result(r.c, r.it, r.ret)
          /\ r.ret # "success" => r.c = box
          /\ r.ret = "success" => Bears(r.c, vals)
      BY <1>3, <2>1, ArrSetsEq
    <2>3. Answers(NoIterator(r, 0), model, 0, vals)
      BY <1>4, <2>2, Answered
    <2> QED
      BY <1>2, <1>4, <2>3, ChangesKeep
  <1>5. CASE kind = "carr"
    <2>1. r = Carr_set_eq(box, vals, nomem) /\ Keeps(box, model)
      BY <1>5 DEF ArraysInv
    <2> HIDE DEF r
    <2>2. /\ r = Result(r.c, r.it, r.ret)
          /\ r.ret # "success" => r.c = box
          /\ r.ret = "success" => Keeps(r.c, vals)
      BY <1>3, <2>1, CarrSetEq
    <2>3. Answers(NoIterator(r, 0), model, 0, vals)
      BY <1>5, <2>2, Answered
    <2> QED
      BY <1>2, <1>5, <2>3, ChangesKeep
  <1> QED
    BY <1>2, <1>4, <1>5

----------------------------------------------------------------------------

LEMMA ArraysInit == ASSUME Init PROVE ArraysInv
  <1>1. good = TRUE
    BY DEF Init
  <1>2. CASE kind \in {"arr", "carr"}
    <2>1. model = << >> /\ \E opts \in OptionSets : box = Construct_array(opts)
      BY <1>2, CallersAssumption DEF Init
    <2>2. PICK opts \in OptionSets : box = Construct_array(opts)
      BY <2>1
    <2>3. Bears(box, model) /\ Keeps(box, model)
      BY <2>1, <2>2, ConstructBears, ConstructKeeps
    <2> QED
      BY <1>1, <2>3 DEF ArraysInv
  <1>3. CASE kind \notin {"arr", "carr"}
    BY <1>3 DEF ArraysInv
  <1> QED
    BY <1>2, <1>3

LEMMA ArraysNext == ASSUME ArraysInv, [Next]_vars PROVE ArraysInv'
  <1>1. ASSUME SklInsert \/ HashInsert \/ SklErase \/ HashErase \/ PairEraseKey \/ PairClear \/ HashReserve
        PROVE  ArraysInv'
    <2>1. kind \notin {"arr", "carr"} /\ kind' = kind
      <3>1. ASSUME NEW c, NEW to, NEW ret, NEW right, PairChange(c, to, ret, right)
            PROVE  kind' = kind
        BY <3>1 DEF PairChange
      <3>2. CASE SklInsert
        BY <3>1, <3>2 DEF SklInsert
      <3>3. CASE HashInsert
        BY <3>1, <3>3 DEF HashInsert
      <3>4. CASE SklErase
        BY <3>1, <3>4 DEF SklErase
      <3>5. CASE HashErase
        BY <3>1, <3>5 DEF HashErase
      <3>6. CASE PairEraseKey
        BY <3>1, <3>6 DEF PairEraseKey
      <3>7. CASE PairClear
        BY <3>1, <3>7 DEF PairClear
      <3>8. CASE HashReserve
        BY <3>1, <3>8 DEF HashReserve
      <3> QED
        BY <1>1, <3>2, <3>3, <3>4, <3>5, <3>6, <3>7, <3>8
    <2> QED
      BY <2>1, OtherKinds
  <1>2. ASSUME ScatJump \/ ScatSeek \/ ScatCopy \/ MemNew \/ MemCopy \/ MemRelease \/ MemShare
        PROVE  ArraysInv'
    <2>1. kind \notin {"arr", "carr"} /\ kind' = kind
      <3>1. CASE ScatJump
        BY <3>1 DEF ScatJump
      <3>2. CASE ScatSeek
        BY <3>2 DEF ScatSeek
      <3>3. CASE ScatCopy
        BY <3>3, Zenon DEF ScatCopy
      <3>4. CASE MemNew \/ MemCopy
        BY <3>4 DEF MemNew, MemCopy
      <3>5. CASE MemRelease \/ MemShare
        BY <3>5 DEF MemRelease, MemShare
      <3> QED
        BY <1>2, <3>1, <3>2, <3>3, <3>4, <3>5
    <2> QED
      BY <2>1, OtherKinds
  <1>3. ASSUME \/ Tick \/ Register \/ Start \/ TimeEvent \/ Select
               \/ HighEvent \/ HighEnd \/ LowEvent \/ LowEnd
        PROVE  ArraysInv'
    <2>1. kind \in EventKinds /\ kind' = kind
      BY <1>3 DEF Tick, Register, Start, TimeEvent, Select, HighEvent, HighEnd, LowEvent, LowEnd
    <2>2. kind \notin {"arr", "carr"}
      BY <2>1, CallersAssumption
    <2> QED
      BY <2>1, <2>2, OtherKinds
  <1>4. CASE UNCHANGED vars
    BY <1>4 DEF ArraysInv, vars
  <1> QED
    BY <1>1, <1>2, <1>3, <1>4, StepInsert, StepErase, StepPopBack, StepPopFront, StepPush,
       StepTruncate, StepResize, StepSetCapacity, StepSetEq DEF Next

\* The invariant says of the arrays what ContentsExact says of all containers.
LEMMA ArraysExact == ASSUME ArraysInv, kind \in {"arr", "carr"} PROVE ContentsExact
  <1>1. good = TRUE
    BY DEF ArraysInv
  <1>2. CASE kind = "arr"
    <2>1. Bears(box, model)
      BY <1>2 DEF ArraysInv
    <2>2. Arr_is_legal(box) /\ box.ok = TRUE
      BY <2>1 DEF Bears, Arr_legal, Arr_is_legal
    <2>3. Arr_contents(box) = model
      <3> DEFINE n == box.size
                 t == Arr_contents(box)
      <3>1. n \in Nat /\ model \in Seq(Contained) /\ Len(model) = n
            /\ \A j \in 1 .. n : box.mem[j - 1] = model[j]
        BY <2>1 DEF Bears, Arr_legal, Shape
      <3>2. t = [j \in 1 .. n |-> box.mem[j - 1]]
        BY DEF Arr_contents
      <3>3. t = [j \in 1 .. n |-> model[j]]
        BY <3>1, <3>2
      <3>4. \A j \in 1 .. n : model[j] \in Contained
        BY <3>1
      <3> HIDE DEF t, n
      <3>5. t \in Seq(Contained) /\ Len(t) = n /\ \A j \in 1 .. n : t[j] = model[j]
        BY <3>1, <3>3, <3>4, ListOf
      <3> QED
        BY <3>1, <3>5, SeqEqual DEF t
    <2>4. Contents(box) = model
      BY <1>2, <2>3 DEF Contents
    <2> HIDE DEF Contents
    <2> QED
      BY <1>1, <1>2, <2>2, <2>4 DEF ContentsExact
  <1>3. CASE kind = "carr"
    <2>1. Keeps(box, model)
      BY <1>3 DEF ArraysInv
    <2>2. Carr_contents(box) = model
      <3> DEFINE t == Carr_contents(box)
      <3>1. /\ Legal(box) /\ box.size \in Nat /\ box.begin \in Nat /\ model \in Seq(Contained)
            /\ Len(model) = box.size /\ Forward(box, box.begin, box.size) = box.end
            /\ \A j \in 1 .. Len(model) : At(box, j - 1) = model[j]
        BY <2>1 DEF Keeps, Legal, Shape
      <3>2. Forward(box, box.begin, 0) = box.begin
        <4>1. 0 \in Nat /\ 0 + 0 <= box.size
          BY <3>1
        <4> QED
          BY <3>1, <4>1, ForwardAdds
      <3>3. Lists(t, box, 0, box.size)
        <4>1. 0 \in Nat /\ 0 <= box.size /\ box.size <= box.size
          BY <3>1
        <4>2. t = Copy_to_buf(box, Forward(box, box.begin, 0), Forward(box, box.begin, box.size))
          BY <3>1, <3>2 DEF Carr_contents
        <4> HIDE DEF t
        <4> QED
          BY <3>1, <4>1, <4>2, CopyToBuf
      <3> HIDE DEF t
      <3>4. /\ t \in Seq(Contained) /\ Len(t) = box.size
            /\ \A j \in 1 .. box.size : t[j] = At(box, j - 1)
        BY <3>1, <3>3 DEF Lists
      <3> QED
        BY <3>1, <3>4, SeqEqual DEF t
    <2>3. Carr_is_legal(box) /\ box.ok = TRUE
      <3>1. /\ Legal(box) /\ box.size \in Nat /\ box.begin \in Nat /\ box.end \in Nat /\ box.cap \in Nat
            /\ box.ok = TRUE /\ box.end = Forward(box, box.begin, box.size) /\ Len(model) = box.size
        BY <2>1 DEF Keeps, Legal, Shape
      <3>2. /\ box.size < box.cap \/ (box.size = 0 /\ box.cap = 0)
            /\ box.cap # 0 => box.begin < box.cap /\ box.size < box.cap
        BY <3>1 DEF Legal
      <3>3. box.cap # 0 => box.begin \in 0 .. box.cap - 1 /\ box.end \in 0 .. box.cap - 1
        BY <3>1, <3>2 DEF Forward
      <3> QED
        BY <2>2, <3>1, <3>2, <3>3 DEF Carr_is_legal
    <2>4. Contents(box) = model
      BY <1>3, <2>2 DEF Contents
    <2> QED
      BY <1>1, <1>3, <2>3, <2>4 DEF ContentsExact
  <1> QED
    BY <1>2, <1>3

\* Whatever their callers did, in any order, and whichever allocations failed, a growing
\* array (stdarr.c) and a growing circular array (stdcarr.c) of any size hold exactly what
\* was put there and not taken out, in order; every call returned the iterator it should;
\* no memmove left the block, which never is too small; and no memcpy of the shifts that
\* open and close a gap across the end of the block copied between overlapping parts.
THEOREM ContentsCorrect == Spec => [](kind \in {"arr", "carr"} => ContentsExact)
  <1>1. Init => ArraysInv
    BY ArraysInit
  <1>2. ArraysInv /\ [Next]_vars => ArraysInv'
    BY ArraysNext
  <1>3. ArraysInv => (kind \in {"arr", "carr"} => ContentsExact)
    BY ArraysExact
  <1> QED
    BY <1>1, <1>2, <1>3, PTL DEF Spec


----------------------------------------------------------------------------
(* Looking up.                                                             *)

\* The block is smaller than half of what stdsize can count, as all objects in memory
\* are.
Addressable(c) == c.cap * ValueSize < 2^(SizeBits - 1)

\* Iterators move between ranks, as many steps as the ranks are apart.
Reaches(c, i, j) ==
    LET b == Get(c, i)
        e == Get(c, j)
    IN  /\ It_advance(c, b, j - i) = e
        /\ It_retreat(c, e, j - i) = b
        /\ It_distance(c, b, e) = j - i

\* A distance in bytes that is no more than the block is divided without loss.
LEMMA DistanceDivides ==
    ASSUME NEW c, c.cap \in Nat, Addressable(c), NEW n \in Nat, n <= c.cap
    PROVE  /\ ((n * ValueSize) % 2^SizeBits) \div ValueSize = n
           /\ n < 2^(SizeBits - 1)
  <1> DEFINE half == 2^(SizeBits - 1)
  <1>1. ValueSize \in Nat \ {0} /\ half \in Nat /\ 2^SizeBits = 2 * half
    BY AllocAssumption, PowersAssumption
  <1>2. n * ValueSize \in Nat /\ n <= n * ValueSize /\ n * ValueSize <= c.cap * ValueSize
    BY <1>1
  <1>3. c.cap * ValueSize < half
    BY DEF Addressable
  <1> HIDE DEF half
  <1>4. c.cap * ValueSize \in Nat
    BY <1>1
  <1>5. n * ValueSize < 2 * half /\ n < half
    BY <1>1, <1>2, <1>3, <1>4
  <1>6. (n * ValueSize) % (2 * half) = n * ValueSize
    BY <1>1, <1>2, <1>5
  <1>7. (n * ValueSize) \div ValueSize = n
    BY <1>1
  <1> QED
    BY <1>1, <1>5, <1>6, <1>7 DEF half

\* The difference of two iterators of a circular array, the first not before the second.
LEMMA DistanceIs ==
    ASSUME NEW c, Legal(c), c.cap # 0, Addressable(c),
           NEW i \in 0 .. c.size, NEW j \in i .. c.size
    PROVE  Carr_it_cmp(c, Forward(c, c.begin, j), Forward(c, c.begin, i)) = j - i
  <1> DEFINE p == Forward(c, c.begin, j)
             q == Forward(c, c.begin, i)
             d == CASE p >= c.begin /\ q >= c.begin -> p - q
                    [] p >= c.begin /\ q < c.begin -> (p - c.cap) - q
                    [] p < c.begin /\ q < c.begin -> p - q
                    [] p < c.begin /\ q >= c.begin -> (c.cap - q) + p
             u == ((d * ValueSize) % 2^SizeBits) \div ValueSize
  <1>1. /\ c.cap \in Nat /\ c.begin \in Nat /\ c.size \in Nat
        /\ c.begin < c.cap /\ c.size < c.cap
        /\ p = Round(c.cap, c.begin, j) /\ q = Round(c.cap, c.begin, i)
    BY LegalRing, RoundIsForward
  <1> HIDE DEF p, q
  <1>2. d = j - i
    BY <1>1 DEF Round
  <1> HIDE DEF d
  <1>3. j - i \in Nat /\ j - i <= c.cap
    BY <1>1
  <1>4. u = j - i /\ j - i < 2^(SizeBits - 1)
    BY <1>1, <1>2, <1>3, DistanceDivides
  <1>5. Carr_it_cmp(c, p, q) = IF u < 2^(SizeBits - 1) THEN u ELSE u - 2^SizeBits
    BY DEF Carr_it_cmp, d
  <1> HIDE DEF u
  <1> QED
    BY <1>4, <1>5 DEF p, q

LEMMA ArrReaches ==
    ASSUME kind = "arr", Bears(box, model), NEW i \in 0 .. box.size, NEW j \in i .. box.size
    PROVE  Reaches(box, i, j)
  <1>1. i \in Nat /\ j \in Nat
    BY DEF Bears, Arr_legal, Shape
  <1> QED
    BY <1>1 DEF Reaches, Get, It_advance, It_retreat, It_distance, Arr_it_advance,
       Arr_it_retreat, Arr_it_cmp

LEMMA CarrReaches ==
    ASSUME kind = "carr", Keeps(box, model), box.size # 0, Addressable(box),
           NEW i \in 0 .. box.size, NEW j \in i .. box.size
    PROVE  Reaches(box, i, j)
  <1>1. Legal(box) /\ box.size \in Nat /\ box.cap # 0
    BY DEF Keeps, Legal, Shape
  <1>2. i \in Nat /\ j - i \in Nat /\ i + (j - i) = j /\ j <= box.size
    BY <1>1
  <1>3. /\ Forward(box, Forward(box, box.begin, i), j - i) = Forward(box, box.begin, j)
        /\ Backward(box, Forward(box, box.begin, j), j - i) = Forward(box, box.begin, i)
    BY <1>1, <1>2, ForwardAdds
  <1>4. Carr_it_cmp(box, Forward(box, box.begin, j), Forward(box, box.begin, i)) = j - i
    BY <1>1, DistanceIs
  <1> QED
    BY <1>3, <1>4 DEF Reaches, Get, Carr_get, It_advance, It_retreat, It_distance,
       Carr_it_advance, Carr_it_retreat

\* The value of a rank, and the rank of its position.
LEMMA CarrFinds ==
    ASSUME Keeps(box, model), NEW i \in DOMAIN model
    PROVE  /\ box.mem[Carr_get(box, i - 1)] = model[i]
           /\ Carr_rank(box, Carr_get(box, i - 1)) = i - 1
  <1>1. Legal(box) /\ box.size \in Nat /\ i \in 1 .. box.size /\ At(box, i - 1) = model[i]
    BY DEF Keeps, Legal, Shape
  <1>2. /\ box.cap \in Nat /\ box.begin \in Nat /\ box.begin < box.cap /\ box.size < box.cap
        /\ Carr_get(box, i - 1) = Round(box.cap, box.begin, i - 1)
    BY <1>1, LegalRing, RoundIsForward DEF Carr_get, Legal
  <1> QED
    BY <1>1, <1>2 DEF Carr_get, At, Carr_rank, Round

LEMMA ArraysLookup ==
    ASSUME ArraysInv, kind = "arr" \/ (kind = "carr" /\ Addressable(box))
    PROVE  LookupsExact
  <1>1. ASSUME box.size # 0, NEW i \in 0 .. box.size, NEW j \in i .. box.size
        PROVE  Reaches(box, i, j)
    BY <1>1, ArrReaches, CarrReaches DEF ArraysInv
  <1>2. ASSUME NEW i \in 0 .. box.size, NEW j \in i .. box.size
        PROVE  Ranked(box, i) = Get(box, i) /\ Ranked(box, j) = Get(box, j)
    BY DEF Ranked, Sequences_kinds
  <1>3. \A i \in 0 .. box.size : \A j \in i .. box.size :
          LET b == Ranked(box, i)
              e == Ranked(box, j)
          IN  box.size # 0 => /\ It_advance(box, b, j - i) = e
                              /\ It_retreat(box, e, j - i) = b
                              /\ It_distance(box, b, e) = j - i
    BY <1>1, <1>2 DEF Reaches
  <1>4. kind = "arr" => \A i \in DOMAIN model : box.mem[Get(box, i - 1)] = model[i]
    <2> SUFFICES ASSUME kind = "arr", NEW i \in DOMAIN model
                 PROVE  box.mem[i - 1] = model[i]
      BY DEF Get
    <2> QED
      BY DEF ArraysInv, Bears
  <1>5. kind = "carr" => \A i \in DOMAIN model :
                            /\ box.mem[Get(box, i - 1)] = model[i]
                            /\ Carr_rank(box, Get(box, i - 1)) = i - 1
    BY CarrFinds DEF ArraysInv, Get
  <1> QED
    BY <1>3, <1>4, <1>5 DEF LookupsExact

\* Whatever happened before, iterators of a growing array and of a circular array of any
\* size move between two ranks in as many steps as stdit_distance says, across the end of
\* the block too; the n-th value is found, and the rank of its position is n.  The
\* circular array has to be smaller than half of what stdsize can count, because
\* stdcarr_it_cmp takes differences in bytes for signed numbers (stdcarr.c:1357).
THEOREM LookupsCorrect ==
    Spec => [](kind = "arr" \/ (kind = "carr" /\ Addressable(box)) => LookupsExact)
  <1>1. Init => ArraysInv
    BY ArraysInit
  <1>2. ArraysInv /\ [Next]_vars => ArraysInv'
    BY ArraysNext
  <1>3. ArraysInv => (kind = "arr" \/ (kind = "carr" /\ Addressable(box)) => LookupsExact)
    BY ArraysLookup
  <1> QED
    BY <1>1, <1>2, <1>3, PTL DEF Spec

----------------------------------------------------------------------------
(* The pools of objects.                                                   *)

\* A set of natural numbers has a least one.
LEMMA LeastNat ==
    ASSUME NEW T, T \subseteq Nat, T # {}
    PROVE  \E n \in T : \A i \in T : n <= i
  <1> DEFINE R == OpToRel(<, Nat)
  <1>1. IsWellFoundedOn(R, Nat)
    BY NatLessThanWellFounded
  <1>2. \A x, y \in Nat : x < y => <<x, y>> \in R
    BY DEF OpToRel
  <1> HIDE DEF R
  <1>3. PICK n \in T : \A i \in T : <<i, n>> \notin R
    BY <1>1, WFMin
  <1>4. ASSUME NEW i \in T PROVE n <= i
    <2>1. ~ (i < n) /\ i \in Nat /\ n \in Nat
      BY <1>2, <1>3
    <2> QED
      BY <2>1
  <1> QED
    BY <1>4

\* The fields of the objects of memory.c.
MemShape(m) ==
    /\ m = [head |-> m.head, next |-> m.next, inpool |-> m.inpool, type |-> m.type,
            refs |-> m.refs, ok |-> m.ok]
    /\ m.head = [t \in AllTypes |-> m.head[t]]
    /\ m.inpool \in [AllTypes -> Nat]
    /\ m.type \in [Allocated(m) -> AllTypes]
    /\ m.next = [o \in Allocated(m) |-> m.next[o]]
    /\ m.refs \in [Allocated(m) -> Int]
    /\ None \notin Allocated(m)

\* The links of the pool of type t lead through the objects f lists, each once.
Linked(m, t, f) ==
    LET n == m.inpool[t]
    IN  /\ f \in [1 .. n -> Allocated(m)]
        /\ \A i, j \in 1 .. n : f[i] = f[j] => i = j
        /\ m.head[t] = IF n = 0 THEN None ELSE f[1]
        /\ \A i \in 1 .. n : m.next[f[i]] = IF i = n THEN None ELSE f[i + 1]

\* The objects of a type that are not among the owned ones lie in its pool.
Spare(m, D, t) == {o \in Allocated(m) \ D : m.type[o] = t}
Stacked(m, D, t) ==
    \E f \in [1 .. m.inpool[t] -> Allocated(m)] :
        Linked(m, t, f) /\ Spare(m, D, t) = {f[i] : i \in 1 .. m.inpool[t]}

\* The objects in D are owned, all others in their pools, which are no larger than
\* they may be.
Pools(m, D) ==
    /\ MemShape(m) /\ m.ok = TRUE
    /\ D \subseteq Allocated(m)
    /\ \A o \in Allocated(m) \ D : m.refs[o] = NO_REF_CNT
    /\ \A t \in AllTypes : m.inpool[t] <= Threshold[t] /\ Stacked(m, D, t)

\* Objects in D other than o are left alone.
Untouched(m, l, D) ==
    \A p \in D : /\ p \in Allocated(l)
                 /\ l.type[p] = m.type[p] /\ l.next[p] = m.next[p] /\ l.refs[p] = m.refs[p]

\* A pool none of whose objects changes.
LEMMA StaysLinked ==
    ASSUME NEW m, NEW l, NEW D, NEW E, NEW t \in AllTypes,
           MemShape(m), MemShape(l), Stacked(m, D, t),
           l.head[t] = m.head[t], l.inpool[t] = m.inpool[t],
           Spare(l, E, t) = Spare(m, D, t),
           \A o \in Spare(m, D, t) : l.next[o] = m.next[o]
    PROVE  Stacked(l, E, t)
  <1> DEFINE n == m.inpool[t]
  <1>1. PICK f \in [1 .. n -> Allocated(m)] :
          Linked(m, t, f) /\ Spare(m, D, t) = {f[i] : i \in 1 .. n}
    BY DEF Stacked
  <1>2. \A i \in 1 .. n : f[i] \in Spare(m, D, t) /\ f[i] \in Allocated(l)
    BY <1>1 DEF Spare
  <1>3. f \in [1 .. n -> Allocated(l)]
    BY <1>2
  <1>4. Linked(l, t, f)
    BY <1>1, <1>2, <1>3 DEF Linked
  <1> QED
    BY <1>1, <1>3, <1>4 DEF Stacked

\* m with n references to object o.
Counted(m, o, n) == [m EXCEPT !.refs[o] = n]

\* The owner of an object writes to it, or counts its references.
LEMMA OwnerWrites ==
    ASSUME NEW m, NEW D, Pools(m, D), NEW o \in D, NEW x,
           NEW l, l = Mem_write(m, o, x)
    PROVE  /\ Pools(l, D) /\ Untouched(m, l, D \ {o})
           /\ l.next[o] = x /\ l.type[o] = m.type[o] /\ l.refs[o] = m.refs[o]
  <1>1. MemShape(m) /\ o \in Allocated(m)
    BY DEF Pools
  <1>2. /\ l = [head |-> l.head, next |-> l.next, inpool |-> l.inpool, type |-> l.type,
                refs |-> l.refs, ok |-> l.ok]
        /\ l.head = m.head /\ l.inpool = m.inpool /\ l.type = m.type /\ l.refs = m.refs
        /\ l.ok = m.ok /\ l.next = [m.next EXCEPT ![o] = x]
    BY <1>1 DEF MemShape, Mem_write
  <1>3. \A p \in Allocated(m) : l.next[p] = IF p = o THEN x ELSE m.next[p]
    BY <1>1, <1>2 DEF MemShape
  <1>4. Allocated(l) = Allocated(m) /\ l.next = [p \in Allocated(m) |-> l.next[p]]
    BY <1>1, <1>2 DEF MemShape, Allocated
  <1>5. MemShape(l)
    BY <1>1, <1>2, <1>4 DEF MemShape
  <1>6. ASSUME NEW t \in AllTypes PROVE Stacked(l, D, t)
    <2>1. Spare(l, D, t) = Spare(m, D, t)
      BY <1>2, <1>4 DEF Spare
    <2>2. \A p \in Spare(m, D, t) : l.next[p] = m.next[p]
      BY <1>3 DEF Spare
    <2> QED
      BY <1>1, <1>2, <1>5, <2>1, <2>2, StaysLinked DEF Pools
  <1>7. Pools(l, D)
    BY <1>2, <1>4, <1>5, <1>6 DEF Pools
  <1>8. Untouched(m, l, D \ {o})
    BY <1>2, <1>3, <1>4 DEF Untouched, Pools
  <1> QED
    BY <1>1, <1>2, <1>3, <1>7, <1>8

LEMMA OwnerCounts ==
    ASSUME NEW m, NEW D, Pools(m, D), NEW o \in D, NEW n \in Int,
           NEW l, l = Counted(m, o, n)
    PROVE  /\ Pools(l, D) /\ Untouched(m, l, D \ {o})
           /\ l.next[o] = m.next[o] /\ l.type[o] = m.type[o] /\ l.refs[o] = n
  <1>1. MemShape(m) /\ o \in Allocated(m)
    BY DEF Pools
  <1>2. /\ l = [head |-> l.head, next |-> l.next, inpool |-> l.inpool, type |-> l.type,
                refs |-> l.refs, ok |-> l.ok]
        /\ l.head = m.head /\ l.inpool = m.inpool /\ l.type = m.type /\ l.next = m.next
        /\ l.ok = m.ok /\ l.refs = [m.refs EXCEPT ![o] = n]
    BY <1>1 DEF MemShape, Counted
  <1>3. \A p \in Allocated(m) : l.refs[p] = IF p = o THEN n ELSE m.refs[p]
    BY <1>1, <1>2 DEF MemShape
  <1>4. Allocated(l) = Allocated(m) /\ l.refs \in [Allocated(m) -> Int]
    BY <1>1, <1>2 DEF MemShape, Allocated
  <1>5. MemShape(l)
    BY <1>1, <1>2, <1>4 DEF MemShape
  <1>6. ASSUME NEW t \in AllTypes PROVE Stacked(l, D, t)
    <2>1. Spare(l, D, t) = Spare(m, D, t)
      BY <1>2, <1>4 DEF Spare
    <2>2. \A p \in Spare(m, D, t) : l.next[p] = m.next[p]
      BY <1>2 DEF Spare
    <2> QED
      BY <1>1, <1>2, <1>5, <2>1, <2>2, StaysLinked DEF Pools
  <1>7. Pools(l, D)
    BY <1>2, <1>3, <1>4, <1>5, <1>6 DEF Pools
  <1>8. Untouched(m, l, D \ {o})
    BY <1>2, <1>3, <1>4 DEF Untouched, Pools
  <1> QED
    BY <1>1, <1>2, <1>3, <1>7, <1>8

\* An object is taken: from the top of its pool, or fresh.
LEMMA NewIsOwned ==
    ASSUME NEW m, NEW D, Pools(m, D), NEW t \in AllTypes, NEW o, o \notin Allocated(m),
           NEW l, NEW new, new # None, Mem_new(m, t, o) = [m |-> l, obj |-> new]
    PROVE  /\ new \notin D /\ Pools(l, D \cup {new}) /\ Untouched(m, l, D)
           /\ l.type[new] = t /\ l.refs[new] = NO_REF_CNT
  <1>1. MemShape(m) /\ Stacked(m, D, t) /\ D \subseteq Allocated(m)
    BY DEF Pools
  <1>2. CASE m.head[t] = None
    <2>1. new = o /\ l = Mem_calloc(m, t, o)
      BY <1>2 DEF Mem_new
    <2>2. /\ l = [head |-> l.head, next |-> l.next, inpool |-> l.inpool, type |-> l.type,
                  refs |-> l.refs, ok |-> l.ok]
          /\ l.head = m.head /\ l.inpool = m.inpool /\ l.ok = m.ok
          /\ l.next = [p \in DOMAIN m.next \cup {o} |-> IF p = o THEN None ELSE m.next[p]]
          /\ l.type = [p \in DOMAIN m.type \cup {o} |-> IF p = o THEN t ELSE m.type[p]]
          /\ l.refs = [p \in DOMAIN m.refs \cup {o} |-> IF p = o THEN NO_REF_CNT ELSE m.refs[p]]
      BY <1>1, <2>1 DEF MemShape, Mem_calloc
    <2>3. /\ DOMAIN m.next = Allocated(m) /\ DOMAIN m.type = Allocated(m)
          /\ DOMAIN m.refs = Allocated(m)
      BY <1>1 DEF MemShape
    <2>4. Allocated(l) = Allocated(m) \cup {o}
      BY <2>2, <2>3 DEF Allocated
    <2>5. \A p \in Allocated(m) :
             l.next[p] = m.next[p] /\ l.type[p] = m.type[p] /\ l.refs[p] = m.refs[p]
      BY <2>2, <2>3
    <2>6. MemShape(l)
      <3>1. l.next = [p \in Allocated(l) |-> l.next[p]]
        BY <2>2, <2>3, <2>4
      <3>2. l.type \in [Allocated(l) -> AllTypes]
        BY <1>1, <2>2, <2>3, <2>4 DEF MemShape
      <3>3. l.refs \in [Allocated(l) -> Int]
        BY <1>1, <2>2, <2>3, <2>4 DEF MemShape, NO_REF_CNT
      <3> QED
        BY <1>1, <2>1, <2>2, <2>4, <3>1, <3>2, <3>3 DEF MemShape
    <2>7. ASSUME NEW u \in AllTypes PROVE Stacked(l, D \cup {o}, u)
      <3>1. Spare(l, D \cup {o}, u) = Spare(m, D, u)
        BY <2>4, <2>5 DEF Spare
      <3>2. \A p \in Spare(m, D, u) : l.next[p] = m.next[p]
        BY <2>5 DEF Spare
      <3> QED
        BY <1>1, <2>2, <2>6, <3>1, <3>2, StaysLinked DEF Pools
    <2>8. Pools(l, D \cup {o})
      BY <1>1, <2>2, <2>4, <2>5, <2>6, <2>7 DEF Pools
    <2> QED
      BY <1>1, <2>1, <2>2, <2>4, <2>5, <2>8 DEF Untouched
  <1>3. CASE m.head[t] # None
    <2> DEFINE n == m.inpool[t]
    <2>1. PICK f \in [1 .. n -> Allocated(m)] :
            Linked(m, t, f) /\ Spare(m, D, t) = {f[i] : i \in 1 .. n}
      BY <1>1 DEF Stacked
    <2>2. n \in Nat /\ n > 0 /\ m.head[t] = f[1]
      BY <1>1, <1>3, <2>1 DEF Linked, MemShape
    <2>3. new = f[1] /\ new \in Allocated(m) /\ new \notin D /\ m.type[new] = t
      <3>1. new = f[1]
        BY <1>3, <2>2 DEF Mem_new
      <3> QED
        BY <2>1, <2>2, <3>1 DEF Spare
    <2>4. /\ l = [head |-> l.head, next |-> l.next, inpool |-> l.inpool, type |-> l.type,
                  refs |-> l.refs, ok |-> l.ok]
          /\ l.head = [m.head EXCEPT ![t] = m.next[new]]
          /\ l.inpool = [m.inpool EXCEPT ![t] = n - 1]
          /\ l.next = m.next /\ l.type = m.type /\ l.refs = m.refs /\ l.ok = (m.ok /\ n > 0)
      <3>1. l = [m EXCEPT !.head[t] = m.next[new], !.inpool[t] = @ - 1,
                          !.ok = @ /\ m.inpool[t] > 0]
        BY <1>3, <2>2, <2>3 DEF Mem_new
      <3> QED
        BY <1>1, <3>1 DEF MemShape
    <2>5. l.ok = TRUE
      BY <2>2, <2>4 DEF Pools
    <2>6. Allocated(l) = Allocated(m)
      BY <2>4 DEF Allocated
    <2>7. MemShape(l)
      <3>1. l.head = [u \in AllTypes |-> l.head[u]]
        BY <1>1, <2>4 DEF MemShape
      <3>2. l.inpool \in [AllTypes -> Nat]
        BY <1>1, <2>2, <2>4 DEF MemShape
      <3> QED
        BY <1>1, <2>4, <2>6, <3>1, <3>2 DEF MemShape
    <2>8. l.inpool[t] = n - 1 /\ l.head[t] = m.next[f[1]]
      BY <1>1, <2>3, <2>4 DEF MemShape
    <2>9. Stacked(l, D \cup {new}, t)
      <3> DEFINE g == [i \in 1 .. n - 1 |-> f[i + 1]]
      <3>1. g \in [1 .. n - 1 -> Allocated(l)]
        BY <2>2, <2>6
      <3>2. Linked(l, t, g)
        <4>1. \A i, j \in 1 .. n - 1 : g[i] = g[j] => i = j
          BY <2>1, <2>2 DEF Linked
        <4>2. l.head[t] = IF n - 1 = 0 THEN None ELSE g[1]
          BY <2>1, <2>2, <2>8 DEF Linked
        <4>3. \A i \in 1 .. n - 1 : l.next[g[i]] = IF i = n - 1 THEN None ELSE g[i + 1]
          BY <2>1, <2>2, <2>4 DEF Linked
        <4> HIDE DEF g
        <4> QED
          BY <2>8, <3>1, <4>1, <4>2, <4>3 DEF Linked
      <3>3. Spare(l, D \cup {new}, t) = Spare(m, D, t) \ {new}
        BY <2>4, <2>6 DEF Spare
      <3>4. {f[i] : i \in 1 .. n} \ {f[1]} = {g[i] : i \in 1 .. n - 1}
        <4>1. ASSUME NEW i \in 1 .. n, f[i] # f[1] PROVE \E j \in 1 .. n - 1 : f[i] = g[j]
          <5>1. i - 1 \in 1 .. n - 1 /\ g[i - 1] = f[i]
            BY <2>2, <4>1
          <5> QED
            BY <5>1
        <4>2. ASSUME NEW j \in 1 .. n - 1 PROVE g[j] \in {f[i] : i \in 1 .. n} \ {f[1]}
          <5>1. j + 1 \in 1 .. n /\ j + 1 # 1 /\ 1 \in 1 .. n /\ g[j] = f[j + 1]
            BY <2>2
          <5> QED
            BY <5>1, <2>1 DEF Linked
        <4> QED
          <5> HIDE DEF g
          <5> QED
            BY <4>1, <4>2
      <3>5. Spare(l, D \cup {new}, t) = {g[i] : i \in 1 .. n - 1}
        BY <2>1, <2>3, <3>3, <3>4
      <3> HIDE DEF g
      <3> QED
        BY <2>8, <3>1, <3>2, <3>5 DEF Stacked
    <2>10. ASSUME NEW u \in AllTypes, u # t PROVE Stacked(l, D \cup {new}, u)
      <3>1. Spare(l, D \cup {new}, u) = Spare(m, D, u)
        BY <2>3, <2>4, <2>6, <2>10 DEF Spare
      <3>2. l.head[u] = m.head[u] /\ l.inpool[u] = m.inpool[u] /\ Stacked(m, D, u)
        BY <1>1, <2>4, <2>10 DEF MemShape, Pools
      <3> QED
        BY <1>1, <2>4, <2>7, <3>1, <3>2, StaysLinked
    <2>11. \A u \in AllTypes : l.inpool[u] <= m.inpool[u] /\ m.inpool[u] \in Nat
                               /\ m.inpool[u] <= Threshold[u]
      <3> SUFFICES ASSUME NEW u \in AllTypes
                   PROVE  l.inpool[u] <= m.inpool[u] /\ m.inpool[u] \in Nat
                          /\ m.inpool[u] <= Threshold[u]
        OBVIOUS
      <3>1. m.inpool[u] \in Nat /\ m.inpool[u] <= Threshold[u]
        BY <1>1 DEF MemShape, Pools
      <3>2. CASE u = t
        BY <2>2, <2>8, <3>1, <3>2
      <3>3. CASE u # t
        <4>1. l.inpool[u] = m.inpool[u]
          BY <1>1, <2>4, <3>3 DEF MemShape
        <4> QED
          BY <3>1, <4>1
      <3> QED
        BY <3>2, <3>3
    <2>12. \A u \in AllTypes : l.inpool[u] <= Threshold[u]
      <3> SUFFICES ASSUME NEW u \in AllTypes PROVE l.inpool[u] <= Threshold[u]
        OBVIOUS
      <3>1. Threshold[u] \in Nat /\ l.inpool[u] \in Nat
        BY <2>7, MemoryAssumption DEF MemShape, AllTypes
      <3> QED
        BY <2>11, <3>1
    <2>13. Pools(l, D \cup {new})
      BY <1>1, <2>3, <2>4, <2>5, <2>6, <2>7, <2>9, <2>10, <2>12 DEF Pools
    <2>14. l.refs[new] = NO_REF_CNT
      BY <2>3, <2>4 DEF Pools
    <2> QED
      BY <1>1, <2>3, <2>4, <2>6, <2>13, <2>14 DEF Untouched
  <1> QED
    BY <1>2, <1>3

\* An object without references is disposed of: to its pool, or freed.
LEMMA DisposedIsSpare ==
    ASSUME NEW m, NEW D, Pools(m, D), NEW o \in D, m.refs[o] = NO_REF_CNT,
           NEW l, l = Mem_dispose(m, o)
    PROVE  Pools(l, D \ {o}) /\ Untouched(m, l, D \ {o})
  <1> DEFINE t == m.type[o]
             n == m.inpool[t]
             c == [m EXCEPT !.ok = @ /\ m.refs[o] = NO_REF_CNT]
  <1>1. MemShape(m) /\ D \subseteq Allocated(m) /\ o \in Allocated(m) /\ m.ok = TRUE
    BY DEF Pools
  <1>2. /\ t \in AllTypes /\ n \in Nat /\ Threshold[t] \in Nat
    BY <1>1, MemoryAssumption DEF MemShape, AllTypes
  <1>3. c = m
    <2>1. (m.ok /\ m.refs[o] = NO_REF_CNT) = m.ok
      BY <1>1
    <2> QED
      BY <1>1, <2>1 DEF MemShape
  <1>4. /\ DOMAIN m.next = Allocated(m) /\ DOMAIN m.type = Allocated(m)
        /\ DOMAIN m.refs = Allocated(m)
    BY <1>1 DEF MemShape
  <1>5. CASE n >= Threshold[t]
    <2>1. l = Mem_free(m, o)
      BY <1>3, <1>5 DEF Mem_dispose
    <2>2. /\ l = [head |-> l.head, next |-> l.next, inpool |-> l.inpool, type |-> l.type,
                  refs |-> l.refs, ok |-> l.ok]
          /\ l.head = m.head /\ l.inpool = m.inpool /\ l.ok = m.ok
          /\ l.next = [p \in DOMAIN m.next \ {o} |-> m.next[p]]
          /\ l.type = [p \in DOMAIN m.type \ {o} |-> m.type[p]]
          /\ l.refs = [p \in DOMAIN m.refs \ {o} |-> m.refs[p]]
      BY <1>1, <2>1 DEF MemShape, Mem_free
    <2>3. Allocated(l) = Allocated(m) \ {o}
      BY <1>4, <2>2 DEF Allocated
    <2>4. \A p \in Allocated(m) \ {o} :
             l.next[p] = m.next[p] /\ l.type[p] = m.type[p] /\ l.refs[p] = m.refs[p]
      BY <1>4, <2>2
    <2>5. MemShape(l)
      <3>1. l.next = [p \in Allocated(l) |-> l.next[p]]
        BY <1>4, <2>2, <2>3
      <3>2. l.type \in [Allocated(l) -> AllTypes] /\ l.refs \in [Allocated(l) -> Int]
        BY <1>1, <1>4, <2>2, <2>3 DEF MemShape
      <3> QED
        BY <1>1, <2>2, <2>3, <3>1, <3>2 DEF MemShape
    <2>6. ASSUME NEW u \in AllTypes PROVE Stacked(l, D \ {o}, u)
      <3>1. Spare(l, D \ {o}, u) = Spare(m, D, u)
        BY <2>3, <2>4 DEF Spare
      <3>2. \A p \in Spare(m, D, u) : l.next[p] = m.next[p]
        BY <2>4 DEF Spare
      <3> QED
        BY <1>1, <2>2, <2>5, <3>1, <3>2, StaysLinked DEF Pools
    <2>7. Pools(l, D \ {o})
      BY <1>1, <2>2, <2>3, <2>4, <2>5, <2>6 DEF Pools
    <2> QED
      BY <1>1, <2>3, <2>4, <2>7 DEF Untouched
  <1>6. CASE ~ (n >= Threshold[t])
    <2>1. l = [m EXCEPT !.next[o] = m.head[t], !.head[t] = o, !.inpool[t] = @ + 1]
      BY <1>3, <1>6 DEF Mem_dispose
    <2>2. /\ l = [head |-> l.head, next |-> l.next, inpool |-> l.inpool, type |-> l.type,
                  refs |-> l.refs, ok |-> l.ok]
          /\ l.head = [m.head EXCEPT ![t] = o] /\ l.inpool = [m.inpool EXCEPT ![t] = n + 1]
          /\ l.next = [m.next EXCEPT ![o] = m.head[t]]
          /\ l.type = m.type /\ l.refs = m.refs /\ l.ok = m.ok
      BY <1>1, <2>1 DEF MemShape
    <2>3. Allocated(l) = Allocated(m)
      BY <2>2 DEF Allocated
    <2>4. \A p \in Allocated(m) \ {o} : l.next[p] = m.next[p]
      BY <1>4, <2>2
    <2>5. MemShape(l)
      <3>1. l.next = [p \in Allocated(l) |-> l.next[p]]
        BY <1>4, <2>2, <2>3
      <3>2. l.head = [u \in AllTypes |-> l.head[u]]
        BY <1>1, <2>2 DEF MemShape
      <3>3. l.inpool \in [AllTypes -> Nat]
        BY <1>1, <1>2, <2>2 DEF MemShape
      <3> HIDE DEF t, n
      <3> QED
        BY <1>1, <2>2, <2>3, <3>1, <3>2, <3>3 DEF MemShape
    <2>6. l.inpool[t] = n + 1 /\ l.head[t] = o /\ l.next[o] = m.head[t]
      BY <1>1, <1>2, <1>4, <2>2 DEF MemShape
    <2>7. Stacked(l, D \ {o}, t)
      <3>1. PICK f \in [1 .. n -> Allocated(m)] :
              Linked(m, t, f) /\ Spare(m, D, t) = {f[i] : i \in 1 .. n}
        BY <1>2 DEF Stacked, Pools
      <3> DEFINE g == [i \in 1 .. n + 1 |-> IF i = 1 THEN o ELSE f[i - 1]]
      <3> HIDE DEF t, n
      <3>2. \A i \in 1 .. n : f[i] # o /\ f[i] \in Allocated(m)
        BY <3>1 DEF Spare
      <3>3. /\ g[1] = o /\ \A i \in 2 .. n + 1 : i - 1 \in 1 .. n /\ g[i] = f[i - 1]
        BY <1>2
      <3>4. g \in [1 .. n + 1 -> Allocated(l)]
        BY <1>1, <1>2, <2>3, <3>2
      <3> HIDE DEF g
      <3>5. \A i, j \in 1 .. n + 1 : g[i] = g[j] => i = j
        <4> SUFFICES ASSUME NEW i \in 1 .. n + 1, NEW j \in 1 .. n + 1, g[i] = g[j]
                     PROVE  i = j
          OBVIOUS
        <4>1. CASE i = 1 /\ j # 1
          <5>1. j \in 2 .. n + 1
            BY <1>2, <4>1
          <5> QED
            BY <3>2, <3>3, <4>1, <5>1
        <4>2. CASE i # 1 /\ j = 1
          <5>1. i \in 2 .. n + 1
            BY <1>2, <4>2
          <5> QED
            BY <3>2, <3>3, <4>2, <5>1
        <4>3. CASE i # 1 /\ j # 1
          <5>1. i \in 2 .. n + 1 /\ j \in 2 .. n + 1
            BY <1>2, <4>3
          <5>2. i - 1 = j - 1
            BY <3>1, <3>3, <5>1 DEF Linked, n
          <5> QED
            BY <5>1, <5>2
        <4> QED
          BY <4>1, <4>2, <4>3
      <3>6. \A i \in 1 .. n + 1 : l.next[g[i]] = IF i = n + 1 THEN None ELSE g[i + 1]
        <4> SUFFICES ASSUME NEW i \in 1 .. n + 1
                     PROVE  l.next[g[i]] = IF i = n + 1 THEN None ELSE g[i + 1]
          OBVIOUS
        <4>1. CASE i = 1
          <5>1. l.next[g[i]] = m.head[t]
            BY <2>6, <3>3, <4>1
          <5>2. m.head[t] = IF n = 0 THEN None ELSE f[1]
            BY <3>1 DEF Linked, n
          <5>3. CASE n = 0
            BY <4>1, <5>1, <5>2, <5>3
          <5>4. CASE n # 0
            <6>1. g[2] = f[1] /\ i # n + 1 /\ i + 1 = 2
              BY <1>2, <3>3, <4>1, <5>4
            <6> QED
              BY <5>1, <5>2, <5>4, <6>1
          <5> QED
            BY <5>3, <5>4
        <4>2. CASE i # 1
          <5>1. i \in 2 .. n + 1 /\ i - 1 \in 1 .. n
            BY <1>2, <4>2
          <5>2. l.next[g[i]] = m.next[f[i - 1]]
            BY <2>4, <3>2, <3>3, <5>1
          <5>3. m.next[f[i - 1]] = IF i - 1 = n THEN None ELSE f[i - 1 + 1]
            BY <3>1, <5>1 DEF Linked, n
          <5>4. CASE i = n + 1
            BY <1>2, <5>1, <5>2, <5>3, <5>4
          <5>5. CASE i # n + 1
            <6>1. i + 1 \in 2 .. n + 1 /\ i + 1 - 1 = i /\ i - 1 + 1 = i /\ i - 1 # n
              BY <1>2, <5>1, <5>5
            <6> QED
              BY <3>3, <5>2, <5>3, <5>5, <6>1
          <5> QED
            BY <5>4, <5>5
        <4> QED
          BY <4>1, <4>2
      <3>7. Linked(l, t, g)
        BY <1>2, <2>6, <3>3, <3>4, <3>5, <3>6 DEF Linked
      <3>8. Spare(l, D \ {o}, t) = Spare(m, D, t) \cup {o}
        BY <1>1, <2>2, <2>3 DEF Spare, t
      <3>9. {f[i] : i \in 1 .. n} \cup {o} = {g[i] : i \in 1 .. n + 1}
        <4>1. ASSUME NEW i \in 1 .. n PROVE f[i] \in {g[j] : j \in 1 .. n + 1}
          <5>1. i + 1 \in 2 .. n + 1 /\ i + 1 \in 1 .. n + 1 /\ i + 1 - 1 = i
            BY <1>2
          <5>2. g[i + 1] = f[i]
            BY <3>3, <5>1
          <5> QED
            BY <5>1, <5>2
        <4>2. ASSUME NEW j \in 1 .. n + 1, j # 1 PROVE g[j] \in {f[i] : i \in 1 .. n}
          <5>1. j \in 2 .. n + 1
            BY <1>2, <4>2
          <5> QED
            BY <3>3, <5>1
        <4>3. 1 \in 1 .. n + 1
          BY <1>2
        <4> QED
          BY <3>3, <4>1, <4>2, <4>3
      <3>10. Spare(l, D \ {o}, t) = {g[i] : i \in 1 .. n + 1}
        BY <3>1, <3>8, <3>9
      <3> QED
        BY <2>6, <3>4, <3>7, <3>10 DEF Stacked
    <2>8. ASSUME NEW u \in AllTypes, u # t PROVE Stacked(l, D \ {o}, u)
      <3>1. Spare(l, D \ {o}, u) = Spare(m, D, u)
        BY <2>2, <2>3, <2>8 DEF Spare
      <3>2. l.head[u] = m.head[u] /\ l.inpool[u] = m.inpool[u] /\ Stacked(m, D, u)
        BY <1>1, <2>2, <2>8 DEF MemShape, Pools
      <3>3. \A p \in Spare(m, D, u) : l.next[p] = m.next[p]
        BY <2>4 DEF Spare
      <3> HIDE DEF t, n
      <3> QED
        BY <1>1, <2>5, <3>1, <3>2, <3>3, StaysLinked
    <2>9. ASSUME NEW u \in AllTypes PROVE l.inpool[u] <= Threshold[u]
      <3>1. CASE u = t
        BY <1>2, <1>6, <2>6, <3>1
      <3>2. CASE u # t
        <4>1. l.inpool[u] = m.inpool[u] /\ m.inpool[u] <= Threshold[u]
          BY <1>1, <2>2, <3>2 DEF MemShape, Pools
        <4> QED
          BY <4>1
      <3> QED
        BY <3>1, <3>2
    <2>10. \A p \in Allocated(l) \ (D \ {o}) : l.refs[p] = NO_REF_CNT
      BY <2>2, <2>3 DEF Pools
    <2> HIDE DEF t, n
    <2>11. Pools(l, D \ {o})
      BY <1>1, <2>2, <2>3, <2>5, <2>7, <2>8, <2>9, <2>10 DEF Pools
    <2> QED
      BY <1>1, <2>2, <2>3, <2>4, <2>11 DEF Untouched
  <1> QED
    BY <1>5, <1>6

\* The objects of a pool, read from the top, are those the links lead through.
LEMMA PoolIs ==
    ASSUME NEW m, NEW D, Pools(m, D), NEW t \in AllTypes
    PROVE  /\ IsInjective(Pool(m, t)) /\ Range(Pool(m, t)) = Spare(m, D, t)
  <1> DEFINE n == m.inpool[t]
             Below(g) == [i \in 0 .. n |->
                            IF i = 0 THEN m.head[t]
                            ELSE IF g[i - 1] \in Allocated(m) THEN m.next[g[i - 1]] ELSE None]
             down == CHOOSE g : g = Below(g)
  <1>1. Pool(m, t) = [i \in 1 .. n |-> down[i - 1]]
    BY DEF Pool
  <1>2. PICK f \in [1 .. n -> Allocated(m)] :
          Linked(m, t, f) /\ Spare(m, D, t) = {f[i] : i \in 1 .. n}
    BY DEF Pools, Stacked
  <1>3. n \in Nat /\ None \notin Allocated(m)
    BY DEF Pools, MemShape
  <1> DEFINE h == [i \in 0 .. n |-> IF i < n THEN f[i + 1] ELSE None]
  <1>4. h = Below(h)
    <2> SUFFICES ASSUME NEW i \in 0 .. n PROVE h[i] = Below(h)[i]
      OBVIOUS
    <2>1. CASE i = 0
      <3>1. h[0] = m.head[t]
        BY <1>2, <1>3 DEF Linked
      <3> QED
        BY <2>1, <3>1
    <2>2. CASE i # 0
      <3>1. i \in 1 .. n /\ i - 1 \in 0 .. n /\ i - 1 < n /\ i - 1 + 1 = i
        BY <1>3, <2>2
      <3>2. h[i - 1] = f[i] /\ f[i] \in Allocated(m)
        BY <1>2, <3>1
      <3>3. m.next[f[i]] = IF i = n THEN None ELSE f[i + 1]
        BY <1>2, <3>1 DEF Linked
      <3>4. h[i] = IF i = n THEN None ELSE f[i + 1]
        BY <1>3, <3>1
      <3> HIDE DEF h
      <3> QED
        BY <2>2, <3>2, <3>3, <3>4
    <2> QED
      BY <2>1, <2>2
  <1> HIDE DEF h
  <1>5. down = Below(down)
    BY <1>4
  <1> HIDE DEF down
  <1>6. ASSUME NEW i \in 0 .. n
        PROVE  down[i] = IF i = 0 THEN m.head[t]
                         ELSE IF down[i - 1] \in Allocated(m) THEN m.next[down[i - 1]] ELSE None
    BY <1>5
  <1> HIDE DEF Below
  <1>7. ASSUME NEW i \in 1 .. n, down[i - 1] # f[i] PROVE FALSE
    <2> DEFINE T == {j \in 1 .. n : down[j - 1] # f[j]}
    <2>1. PICK k \in T : \A j \in T : k <= j
      <3>1. T \subseteq Nat /\ T # {}
        BY <1>3, <1>7
      <3> HIDE DEF T
      <3> QED
        BY <3>1, LeastNat
    <2>2. k # 1
      <3>1. down[0] = m.head[t] /\ n # 0
        BY <1>3, <1>6
      <3> QED
        BY <1>2, <2>1, <3>1 DEF Linked
    <2>3. k \in 2 .. n /\ k - 1 \in 1 .. n /\ k - 1 \in 0 .. n /\ k - 1 # 0 /\ ~ (k <= k - 1)
      BY <1>3, <2>1, <2>2
    <2>4. k - 1 \notin T
      BY <2>1, <2>3
    <2>5. down[k - 1 - 1] = f[k - 1] /\ f[k - 1] \in Allocated(m)
      BY <1>2, <2>3, <2>4
    <2>6. down[k - 1] = m.next[f[k - 1]]
      BY <1>6, <2>3, <2>5
    <2>7. m.next[f[k - 1]] = f[k]
      <3>1. k - 1 # n /\ k - 1 + 1 = k
        BY <1>3, <2>3
      <3> QED
        BY <1>2, <2>3, <3>1 DEF Linked
    <2> QED
      BY <2>1, <2>6, <2>7
  <1>8. Pool(m, t) = [i \in 1 .. n |-> f[i]]
    BY <1>1, <1>7
  <1>9. Range(Pool(m, t)) = {f[i] : i \in 1 .. n}
    BY <1>8 DEF Range
  <1>10. IsInjective(Pool(m, t))
    BY <1>2, <1>8 DEF IsInjective, Linked
  <1> QED
    BY <1>2, <1>9, <1>10

----------------------------------------------------------------------------
(* What the callers have.                                                  *)

\* Object o is as its callers believe it to be.
Bodily(m, o, x) ==
    /\ x = [type |-> x.type, refs |-> x.refs, word |-> x.word]
    /\ x.refs \in Nat
    /\ m.type[o] = x.type /\ m.next[o] = x.word
    /\ m.refs[o] = IF x.refs = 0 THEN NO_REF_CNT ELSE x.refs

\* The objects somebody has are as they should be, all others in their pools.
Mapping(f) == f = [o \in DOMAIN f |-> f[o]]

Owned(m, held) ==
    /\ Mapping(held)
    /\ Pools(m, DOMAIN held)
    /\ \A o \in DOMAIN held : Bodily(m, o, held[o])

PoolsInv == kind = "mem" => good = TRUE /\ Owned(box, model)

LEMMA UntouchedTwice ==
    ASSUME NEW m, NEW k, NEW l, NEW D, Untouched(m, k, D), Untouched(k, l, D)
    PROVE  Untouched(m, l, D)
  BY DEF Untouched

\* What is held changes in nothing but the objects that change.
LEMMA HeldElse ==
    ASSUME NEW m, NEW l, NEW held, NEW to, NEW D, Owned(m, held), D \subseteq DOMAIN held,
           Untouched(m, l, D), \A p \in D : to[p] = held[p],
           Mapping(to), Pools(l, DOMAIN to), \A p \in DOMAIN to \ D : Bodily(l, p, to[p])
    PROVE  Owned(l, to)
  <1>1. ASSUME NEW p \in D PROVE Bodily(l, p, to[p])
    <2>1. Bodily(m, p, held[p]) /\ to[p] = held[p]
      BY DEF Owned
    <2> QED
      BY <2>1 DEF Untouched, Bodily
  <1> QED
    BY <1>1 DEF Owned

----------------------------------------------------------------------------
(* One step for each of the calls.                                         *)

LEMMA StepNew == ASSUME PoolsInv, MemNew PROVE PoolsInv'
  <1>1. kind = "mem" /\ kind' = kind /\ good = TRUE /\ Owned(box, model)
    BY DEF PoolsInv, MemNew
  <1>2. PICK t \in AllTypes, counted \in BOOLEAN, o \in Fresh(box), word \in Values :
          LET r == IF counted THEN Mem_new_ref_cnt(box, t, o) ELSE Mem_new(box, t, o)
          IN  /\ box' = IF r.obj = None THEN r.m ELSE Mem_write(r.m, r.obj, word)
              /\ model' = IF r.obj = None THEN model
                          ELSE Holds(r.obj, [type |-> t, refs |-> IF counted THEN 1 ELSE 0,
                                             word |-> word])
              /\ good' = (good /\ r.obj \notin DOMAIN model)
    BY DEF MemNew
  <1> DEFINE D == DOMAIN model
             a == Mem_new(box, t, o)
             l == a.m
             new == a.obj
             refs == IF counted THEN 1 ELSE 0
             x == [type |-> t, refs |-> refs, word |-> word]
             r == IF counted THEN Mem_new_ref_cnt(box, t, o) ELSE a
  <1>8. /\ box' = IF r.obj = None THEN r.m ELSE Mem_write(r.m, r.obj, word)
        /\ model' = IF r.obj = None THEN model ELSE Holds(r.obj, x)
        /\ good' = (good /\ r.obj \notin DOMAIN model)
    BY <1>2
  <1>3. /\ Pools(box, D) /\ MemShape(box) /\ None \notin Allocated(box)
        /\ D \subseteq Allocated(box)
    BY <1>1 DEF Owned, Pools, MemShape
  <1>4. a = [m |-> l, obj |-> new]
    BY DEF Mem_new
  <1>5. o \notin Allocated(box)
    BY <1>3 DEF Fresh
  <1>6. CASE new = None
    <2>1. r = a
      BY <1>6 DEF Mem_new_ref_cnt
    <2>2. l = box
      <3>1. CASE box.head[t] = None /\ o = None
        BY <3>1 DEF Mem_new
      <3>2. CASE box.head[t] = None /\ o # None
        BY <1>6, <3>2 DEF Mem_new
      <3>3. CASE box.head[t] # None
        BY <1>6, <3>3 DEF Mem_new
      <3> QED
        BY <3>1, <3>2, <3>3
    <2>3. box' = box /\ model' = model /\ good' = TRUE
      <3>1. r.obj = None /\ r.m = box
        BY <1>6, <2>1, <2>2
      <3> HIDE DEF a, r, new, l, x
      <3> QED
        BY <1>1, <1>3, <1>8, <3>1
    <2> QED
      BY <1>1, <2>3 DEF PoolsInv
  <1>7. CASE new # None
    <2>1. /\ new \notin D /\ Pools(l, D \cup {new}) /\ Untouched(box, l, D)
          /\ l.type[new] = t /\ l.refs[new] = NO_REF_CNT
      <3> HIDE DEF a, l, new, D
      <3> QED
        BY <1>3, <1>4, <1>5, <1>7, NewIsOwned DEF a
    <2> DEFINE E == D \cup {new}
               k == Counted(l, new, 1)
               c == IF counted THEN k ELSE l
               w == Mem_write(c, new, word)
    <2>2. E \ {new} = D /\ new \in E
      BY <2>1
    <2>3. r.obj = new /\ r.m = c
      <3>1. CASE counted = TRUE
        <4>1. Mem_new_ref_cnt(box, t, o) = [a EXCEPT !.m.refs[new] = 1]
          BY <1>7 DEF Mem_new_ref_cnt
        <4>2. [a EXCEPT !.m.refs[new] = 1] = [m |-> k, obj |-> new]
          <5> HIDE DEF a, l, new
          <5> QED
            BY <1>4 DEF Counted
        <4> QED
          BY <3>1, <4>1, <4>2
      <3>2. CASE counted = FALSE
        BY <3>2
      <3> QED
        BY <3>1, <3>2
    <2> HIDE DEF a, l, new, r
    <2>4. /\ Pools(c, E) /\ Untouched(box, c, D) /\ c.type[new] = t
          /\ c.refs[new] = IF refs = 0 THEN NO_REF_CNT ELSE refs
      <3>1. CASE counted = TRUE
        <4>1. /\ Pools(k, E) /\ Untouched(l, k, E \ {new})
              /\ k.type[new] = l.type[new] /\ k.refs[new] = 1
          <5> HIDE DEF E, D
          <5> QED
            BY <2>1, <2>2, OwnerCounts DEF E
        <4> HIDE DEF k, E, D
        <4> QED
          BY <2>1, <2>2, <3>1, <4>1, UntouchedTwice
      <3>2. CASE counted = FALSE
        BY <2>1, <3>2
      <3> QED
        BY <3>1, <3>2
    <2> HIDE DEF c
    <2>5. /\ Pools(w, E) /\ Untouched(c, w, E \ {new})
          /\ w.next[new] = word /\ w.type[new] = c.type[new] /\ w.refs[new] = c.refs[new]
      <3> HIDE DEF E, D
      <3> QED
        BY <2>2, <2>4, OwnerWrites DEF E
    <2> HIDE DEF x
    <2>6. box' = w /\ good' = TRUE
      BY <1>1, <1>7, <1>8, <2>1, <2>3 DEF Mem_write
    <2>7. model' = [p \in E |-> IF p = new THEN x ELSE model[p]]
      BY <1>7, <1>8, <2>3 DEF Holds
    <2> HIDE DEF w
    <2>8. Untouched(box, w, D)
      BY <2>2, <2>4, <2>5, UntouchedTwice
    <2>9. Bodily(w, new, x)
      <3>1. /\ x.type = t /\ x.refs = refs /\ x.word = word /\ refs \in Nat
            /\ x = [type |-> x.type, refs |-> x.refs, word |-> x.word]
        BY DEF x
      <3> QED
        BY <2>4, <2>5, <3>1 DEF Bodily
    <2>10. Owned(w, model')
      <3>1. DOMAIN model' = E /\ Mapping(model')
        BY <2>7 DEF Mapping
      <3>2. model'[new] = x /\ \A p \in D : model'[p] = model[p]
        BY <2>1, <2>2, <2>7
      <3>3. \A p \in DOMAIN model' \ D : Bodily(w, p, model'[p])
        BY <2>9, <3>1, <3>2
      <3> QED
        BY <1>1, <2>5, <2>8, <3>1, <3>2, <3>3, HeldElse
    <2> QED
      BY <1>1, <2>6, <2>10 DEF PoolsInv
  <1> QED
    BY <1>6, <1>7

LEMMA StepCopy == ASSUME PoolsInv, MemCopy PROVE PoolsInv'
  <1>1. kind = "mem" /\ kind' = kind /\ good = TRUE /\ Owned(box, model)
    BY DEF PoolsInv, MemCopy
  <1>2. PICK o \in DOMAIN model, f \in Fresh(box) :
          LET r == Mem_copy(box, o, f)
          IN  /\ box' = r.m
              /\ model' = IF r.obj = None THEN model ELSE Holds(r.obj, [model[o] EXCEPT !.refs = 0])
              /\ good' = (good /\ r.obj \notin DOMAIN model)
    BY DEF MemCopy
  <1> DEFINE D == DOMAIN model
             t == box.type[o]
             a == Mem_new(box, t, f)
             l == a.m
             new == a.obj
             x == [model[o] EXCEPT !.refs = 0]
             r == Mem_copy(box, o, f)
  <1>8. /\ box' = r.m
        /\ model' = IF r.obj = None THEN model ELSE Holds(r.obj, x)
        /\ good' = (good /\ r.obj \notin DOMAIN model)
    BY <1>2
  <1>3. /\ Pools(box, D) /\ MemShape(box) /\ None \notin Allocated(box)
        /\ D \subseteq Allocated(box) /\ t \in AllTypes
    BY <1>1 DEF Owned, Pools, MemShape
  <1>4. a = [m |-> l, obj |-> new]
    BY DEF Mem_new
  <1>5. f \notin Allocated(box)
    BY <1>3 DEF Fresh
  <1>6. CASE new = None
    <2>1. r = a
      BY <1>6 DEF Mem_copy
    <2>2. l = box
      <3>1. CASE box.head[t] = None /\ f = None
        BY <3>1 DEF Mem_new
      <3>2. CASE box.head[t] = None /\ f # None
        BY <1>6, <3>2 DEF Mem_new
      <3>3. CASE box.head[t] # None
        BY <1>6, <3>3 DEF Mem_new
      <3> QED
        BY <3>1, <3>2, <3>3
    <2>3. box' = box /\ model' = model /\ good' = TRUE
      <3>1. r.obj = None /\ r.m = box
        BY <1>6, <2>1, <2>2
      <3> HIDE DEF a, r, new, l, x
      <3> QED
        BY <1>1, <1>3, <1>8, <3>1
    <2> QED
      BY <1>1, <2>3 DEF PoolsInv
  <1>7. CASE new # None
    <2>1. /\ new \notin D /\ Pools(l, D \cup {new}) /\ Untouched(box, l, D)
          /\ l.type[new] = t /\ l.refs[new] = NO_REF_CNT
      <3> HIDE DEF a, l, new, D, t
      <3> QED
        BY <1>3, <1>4, <1>5, <1>7, NewIsOwned DEF a
    <2> DEFINE E == D \cup {new}
               w == Mem_write(l, new, box.next[o])
    <2>2. E \ {new} = D /\ new \in E
      BY <2>1
    <2>3. r.obj = new /\ r.m = w
      <3>1. r = [a EXCEPT !.m.next[new] = box.next[o]]
        BY <1>7 DEF Mem_copy
      <3>2. [a EXCEPT !.m.next[new] = box.next[o]] = [m |-> w, obj |-> new]
        <4> HIDE DEF a, l, new
        <4> QED
          BY <1>4 DEF Mem_write
      <3> QED
        BY <3>1, <3>2
    <2>4. box' = w /\ good' = TRUE /\ model' = [p \in E |-> IF p = new THEN x ELSE model[p]]
      <3> HIDE DEF a, l, new, r, x, w
      <3> QED
        BY <1>1, <1>7, <1>8, <2>1, <2>3 DEF Holds
    <2> HIDE DEF a, l, new, r
    <2>5. /\ Pools(w, E) /\ Untouched(l, w, E \ {new})
          /\ w.next[new] = box.next[o] /\ w.type[new] = l.type[new] /\ w.refs[new] = l.refs[new]
      <3> DEFINE word == box.next[o]
      <3>1. Pools(l, E) /\ new \in E /\ w = Mem_write(l, new, word)
        BY <2>1, <2>2
      <3> HIDE DEF E, D, x, t, w, word
      <3>2. /\ Pools(w, E) /\ Untouched(l, w, E \ {new})
            /\ w.next[new] = word /\ w.type[new] = l.type[new] /\ w.refs[new] = l.refs[new]
        BY <3>1, OwnerWrites
      <3> QED
        BY <3>2 DEF word
    <2> HIDE DEF w
    <2>6. Untouched(box, w, D)
      BY <2>1, <2>2, <2>5, UntouchedTwice
    <2>7. Bodily(w, new, x)
      <3>1. Bodily(box, o, model[o])
        BY <1>1 DEF Owned
      <3>2. /\ x.type = model[o].type /\ x.refs = 0 /\ x.word = model[o].word
            /\ x = [type |-> x.type, refs |-> x.refs, word |-> x.word]
        BY <3>1 DEF Bodily
      <3> HIDE DEF x
      <3> QED
        BY <2>1, <2>5, <3>1, <3>2 DEF Bodily
    <2> HIDE DEF x
    <2>8. Owned(w, model')
      <3>1. DOMAIN model' = E /\ Mapping(model')
        BY <2>4 DEF Mapping
      <3>2. model'[new] = x /\ \A p \in D : model'[p] = model[p]
        BY <2>1, <2>2, <2>4
      <3>3. \A p \in DOMAIN model' \ D : Bodily(w, p, model'[p])
        BY <2>7, <3>1, <3>2
      <3> QED
        BY <1>1, <2>5, <2>6, <3>1, <3>2, <3>3, HeldElse
    <2> QED
      BY <1>1, <2>4, <2>8 DEF PoolsInv
  <1> QED
    BY <1>6, <1>7

\* An assert of memory.c that holds leaves the objects as they are.
LEMMA Asserted ==
    ASSUME NEW m, NEW D, Pools(m, D), NEW o, m.refs[o] > 0
    PROVE  [m EXCEPT !.ok = @ /\ m.refs[o] > 0] = m
  <1>1. (m.ok /\ m.refs[o] > 0) = m.ok
    BY DEF Pools
  <1> QED
    BY <1>1 DEF Pools, MemShape

LEMMA StepRelease == ASSUME PoolsInv, MemRelease PROVE PoolsInv'
  <1>1. kind = "mem" /\ kind' = kind /\ good' = TRUE /\ Owned(box, model)
    BY DEF PoolsInv, MemRelease
  <1>2. PICK o \in DOMAIN model :
          /\ box' = IF model[o].refs = 0 THEN Mem_dispose(box, o) ELSE Dec_ref_cnt(box, o)
          /\ model' = IF model[o].refs <= 1 THEN Releases(o) ELSE [model EXCEPT ![o].refs = @ - 1]
    BY DEF MemRelease
  <1> DEFINE D == DOMAIN model
             n == model[o].refs
  <1>3. /\ Pools(box, D) /\ Bodily(box, o, model[o]) /\ n \in Nat
        /\ box.refs[o] = IF n = 0 THEN NO_REF_CNT ELSE n
    BY <1>1 DEF Owned, Bodily
  <1>4. CASE n = 0
    <2>1. box' = Mem_dispose(box, o) /\ model' = [p \in D \ {o} |-> model[p]]
      BY <1>2, <1>4 DEF Releases
    <2>2. Pools(box', D \ {o}) /\ Untouched(box, box', D \ {o})
      BY <1>3, <1>4, <2>1, DisposedIsSpare
    <2>3. Owned(box', model')
      <3>1. /\ DOMAIN model' = D \ {o} /\ Mapping(model')
            /\ \A p \in D \ {o} : model'[p] = model[p]
        BY <2>1 DEF Mapping
      <3> QED
        BY <1>1, <2>2, <3>1, HeldElse
    <2> QED
      BY <1>1, <2>3 DEF PoolsInv
  <1>5. CASE n = 1
    <2> DEFINE k == Counted(box, o, NO_REF_CNT)
    <2>1. box' = Mem_dispose(k, o) /\ model' = [p \in D \ {o} |-> model[p]]
      <3>1. box.refs[o] = 1 /\ box.refs[o] > 0
        BY <1>3, <1>5
      <3>2. [box EXCEPT !.ok = @ /\ box.refs[o] > 0] = box
        BY <1>3, <3>1, Asserted
      <3>3. Dec_ref_cnt(box, o) = Mem_dispose(k, o)
        BY <3>1, <3>2 DEF Dec_ref_cnt, Counted
      <3>4. n # 0 /\ n <= 1
        BY <1>5
      <3> HIDE DEF k, n
      <3> QED
        BY <1>2, <3>3, <3>4 DEF Releases, n
    <2>2. Pools(k, D) /\ Untouched(box, k, D \ {o}) /\ k.refs[o] = NO_REF_CNT
      <3>1. NO_REF_CNT \in Int
        BY DEF NO_REF_CNT
      <3> HIDE DEF D
      <3> QED
        BY <1>2, <1>3, <3>1, OwnerCounts DEF D
    <2> HIDE DEF k
    <2>3. Pools(box', D \ {o}) /\ Untouched(k, box', D \ {o})
      BY <2>1, <2>2, DisposedIsSpare
    <2>4. Untouched(box, box', D \ {o})
      BY <2>2, <2>3, UntouchedTwice
    <2>5. Owned(box', model')
      <3>1. /\ DOMAIN model' = D \ {o} /\ Mapping(model')
            /\ \A p \in D \ {o} : model'[p] = model[p]
        BY <2>1 DEF Mapping
      <3> QED
        BY <1>1, <2>3, <2>4, <3>1, HeldElse
    <2> QED
      BY <1>1, <2>5 DEF PoolsInv
  <1>6. CASE n > 1
    <2> DEFINE k == Counted(box, o, n - 1)
               x == [model[o] EXCEPT !.refs = n - 1]
    <2>1. box' = k /\ model' = [model EXCEPT ![o] = x]
      <3>1. box.refs[o] = n /\ n # 1 /\ n # 0 /\ ~ (n <= 1) /\ box.refs[o] > 0
        BY <1>3, <1>6
      <3>2. [box EXCEPT !.ok = @ /\ box.refs[o] > 0] = box
        BY <1>3, <3>1, Asserted
      <3>3. Dec_ref_cnt(box, o) = [box EXCEPT !.refs[o] = @ - 1]
        BY <3>1, <3>2 DEF Dec_ref_cnt
      <3>4. [box EXCEPT !.refs[o] = @ - 1] = k
        BY <3>1 DEF Counted
      <3>5. [model EXCEPT ![o].refs = @ - 1] = [model EXCEPT ![o] = x]
        OBVIOUS
      <3> HIDE DEF k, x, n
      <3> QED
        BY <1>2, <3>1, <3>3, <3>4, <3>5 DEF n
    <2>2. /\ Pools(k, D) /\ Untouched(box, k, D \ {o})
          /\ k.next[o] = box.next[o] /\ k.type[o] = box.type[o] /\ k.refs[o] = n - 1
      <3>1. n - 1 \in Int
        BY <1>3
      <3>2. Pools(box, D) /\ o \in D
        BY <1>3
      <3> HIDE DEF D, n, x
      <3> QED
        BY <3>1, <3>2, OwnerCounts
    <2>3. Bodily(k, o, x)
      <3>1. /\ x.type = model[o].type /\ x.refs = n - 1 /\ x.word = model[o].word
            /\ x = [type |-> x.type, refs |-> x.refs, word |-> x.word]
        BY <1>3 DEF Bodily
      <3>2. n - 1 \in Nat /\ n - 1 # 0
        BY <1>3, <1>6
      <3> HIDE DEF k, x, n
      <3> QED
        BY <1>3, <2>2, <3>1, <3>2 DEF Bodily
    <2> HIDE DEF k, x
    <2>4. Owned(box', model')
      <3>1. DOMAIN model' = D /\ Mapping(model') /\ model'[o] = x
            /\ \A p \in D \ {o} : model'[p] = model[p]
        BY <1>1, <2>1 DEF Owned, Mapping
      <3>2. \A p \in DOMAIN model' \ (D \ {o}) : Bodily(k, p, model'[p])
        BY <2>3, <3>1
      <3> QED
        BY <1>1, <2>1, <2>2, <3>1, <3>2, HeldElse
    <2> QED
      BY <1>1, <2>4 DEF PoolsInv
  <1> QED
    BY <1>3, <1>4, <1>5, <1>6

LEMMA StepShare == ASSUME PoolsInv, MemShare PROVE PoolsInv'
  <1>1. kind = "mem" /\ kind' = kind /\ good' = TRUE /\ Owned(box, model)
    BY DEF PoolsInv, MemShare
  <1>2. PICK o \in DOMAIN model :
          /\ model[o].refs \in 1 .. MaxRefs - 1
          /\ box' = Inc_ref_cnt(box, o)
          /\ model' = [model EXCEPT ![o].refs = @ + 1]
    BY DEF MemShare
  <1> DEFINE D == DOMAIN model
             n == model[o].refs
             k == Counted(box, o, n + 1)
             x == [model[o] EXCEPT !.refs = n + 1]
  <1>3. /\ Pools(box, D) /\ Bodily(box, o, model[o]) /\ n \in Nat
        /\ box.refs[o] = IF n = 0 THEN NO_REF_CNT ELSE n
    BY <1>1 DEF Owned, Bodily
  <1>4. n > 0
    BY <1>2, <1>3
  <1>5. box' = k /\ model' = [model EXCEPT ![o] = x]
    <2>1. box.refs[o] = n /\ box.refs[o] > 0
      BY <1>3, <1>4
    <2>2. [box EXCEPT !.refs[o] = @ + 1] = k
      BY <2>1 DEF Counted
    <2>3. [box EXCEPT !.ok = @ /\ box.refs[o] > 0] = box
      BY <1>3, <2>1, Asserted
    <2>4. box' = k
      <3>1. Inc_ref_cnt(box, o) = [[box EXCEPT !.ok = @ /\ box.refs[o] > 0] EXCEPT !.refs[o] = @ + 1]
        BY <1>3 DEF Inc_ref_cnt, Pools, MemShape
      <3> QED
        BY <1>2, <2>2, <2>3, <3>1
    <2> QED
      BY <1>2, <2>4
  <1>6. /\ Pools(k, D) /\ Untouched(box, k, D \ {o})
        /\ k.next[o] = box.next[o] /\ k.type[o] = box.type[o] /\ k.refs[o] = n + 1
    <2>1. n + 1 \in Int
      BY <1>3
    <2> HIDE DEF D, n
    <2> QED
      BY <1>2, <1>3, <2>1, OwnerCounts DEF D
  <1>7. Bodily(k, o, x)
    <2>1. /\ x.type = model[o].type /\ x.refs = n + 1 /\ x.word = model[o].word
          /\ x = [type |-> x.type, refs |-> x.refs, word |-> x.word]
      BY <1>3 DEF Bodily
    <2>2. n + 1 \in Nat /\ n + 1 # 0
      BY <1>3
    <2> HIDE DEF k, x, n
    <2> QED
      BY <1>3, <1>6, <2>1, <2>2 DEF Bodily
  <1> HIDE DEF k, x
  <1>8. Owned(box', model')
    <2>1. DOMAIN model' = D /\ Mapping(model') /\ model'[o] = x
          /\ \A p \in D \ {o} : model'[p] = model[p]
      BY <1>1, <1>5 DEF Owned, Mapping
    <2>2. \A p \in DOMAIN model' \ (D \ {o}) : Bodily(k, p, model'[p])
      BY <1>7, <2>1
    <2> QED
      BY <1>1, <1>5, <1>6, <2>1, <2>2, HeldElse
  <1> QED
    BY <1>1, <1>8 DEF PoolsInv

LEMMA PoolsInit == ASSUME Init PROVE PoolsInv
  <1> SUFFICES ASSUME kind = "mem" PROVE good = TRUE /\ Owned(box, model)
    BY DEF PoolsInv
  <1>1. good = TRUE /\ box = Mem_init /\ model = [o \in {} |-> None]
    BY CallersAssumption DEF Init, Sequences_kinds
  <1>2. DOMAIN model = {} /\ Mapping(model)
    BY <1>1 DEF Mapping
  <1>3. /\ box = [head |-> box.head, next |-> box.next, inpool |-> box.inpool,
                  type |-> box.type, refs |-> box.refs, ok |-> box.ok]
        /\ box.head = [t \in AllTypes |-> None] /\ box.inpool = [t \in AllTypes |-> 0]
        /\ box.next = [o \in {} |-> None] /\ box.type = [o \in {} |-> None]
        /\ box.refs = [o \in {} |-> 0] /\ box.ok = TRUE
    BY <1>1 DEF Mem_init
  <1>4. Allocated(box) = {}
    BY <1>3 DEF Allocated
  <1>5. MemShape(box)
    <2>1. box.type \in [Allocated(box) -> AllTypes] /\ box.refs \in [Allocated(box) -> Int]
      BY <1>3, <1>4
    <2>2. box.next = [o \in Allocated(box) |-> box.next[o]] /\ box.inpool \in [AllTypes -> Nat]
          /\ box.head = [t \in AllTypes |-> box.head[t]]
      BY <1>3, <1>4
    <2> QED
      BY <1>3, <1>4, <2>1, <2>2 DEF MemShape
  <1>6. ASSUME NEW t \in AllTypes PROVE box.inpool[t] <= Threshold[t] /\ Stacked(box, {}, t)
    <2>1. box.inpool[t] = 0 /\ box.head[t] = None /\ Threshold[t] \in Nat
      BY <1>3, MemoryAssumption DEF AllTypes
    <2> DEFINE f == [i \in 1 .. 0 |-> None]
    <2>2. f \in [1 .. 0 -> Allocated(box)] /\ \A i \in 1 .. 0 : FALSE
      OBVIOUS
    <2> HIDE DEF f
    <2>3. Linked(box, t, f)
      BY <2>1, <2>2 DEF Linked
    <2>4. Spare(box, {}, t) = {f[i] : i \in 1 .. box.inpool[t]}
      BY <1>4, <2>1, <2>2 DEF Spare
    <2>5. f \in [1 .. box.inpool[t] -> Allocated(box)]
      BY <2>1, <2>2
    <2>6. box.inpool[t] <= Threshold[t]
      BY <2>1
    <2> QED
      BY <2>3, <2>4, <2>5, <2>6 DEF Stacked
  <1>7. Pools(box, {})
    BY <1>3, <1>4, <1>5, <1>6 DEF Pools
  <1> QED
    BY <1>1, <1>2, <1>7 DEF Owned

LEMMA PoolsNext == ASSUME PoolsInv, [Next]_vars PROVE PoolsInv'
  <1>1. ASSUME kind # "mem", kind' = kind PROVE PoolsInv'
    BY <1>1 DEF PoolsInv
  <1>2. ASSUME \/ SeqInsert \/ SeqErase \/ SeqPopBack \/ SeqPopFront \/ SeqPush \/ SeqTruncate
               \/ ArrResize \/ ArrSetCapacity \/ ArrSetEq
        PROVE  kind # "mem" /\ kind' = kind
    <2>1. ASSUME NEW r, NEW i, NEW to, Changes(r, i, to) PROVE kind' = kind
      BY <2>1 DEF Changes
    <2>2. CASE SeqInsert
      BY <2>1, <2>2 DEF SeqInsert, Sequences_kinds
    <2>3. CASE SeqErase
      BY <2>1, <2>3 DEF SeqErase, Sequences_kinds
    <2>4. CASE SeqPopBack
      BY <2>1, <2>4 DEF SeqPopBack, Sequences_kinds
    <2>5. CASE SeqPopFront
      BY <2>1, <2>5 DEF SeqPopFront
    <2>6. CASE SeqPush
      BY <2>1, <2>6 DEF SeqPush, Sequences_kinds
    <2>7. CASE SeqTruncate
      BY <2>1, <2>7 DEF SeqTruncate, Sequences_kinds
    <2>8. CASE ArrResize
      BY <2>1, <2>8 DEF ArrResize
    <2>9. CASE ArrSetCapacity
      BY <2>1, <2>9 DEF ArrSetCapacity
    <2>10. CASE ArrSetEq
      BY <2>1, <2>10 DEF ArrSetEq
    <2> QED
      BY <1>2, <2>2, <2>3, <2>4, <2>5, <2>6, <2>7, <2>8, <2>9, <2>10
  <1>3. ASSUME SklInsert \/ HashInsert \/ SklErase \/ HashErase \/ PairEraseKey \/ PairClear \/ HashReserve
        PROVE  kind # "mem" /\ kind' = kind
    <2>1. ASSUME NEW c, NEW to, NEW ret, NEW right, PairChange(c, to, ret, right)
          PROVE  kind' = kind
      BY <2>1 DEF PairChange
    <2>2. CASE SklInsert
      BY <2>1, <2>2 DEF SklInsert
    <2>3. CASE HashInsert
      BY <2>1, <2>3 DEF HashInsert
    <2>4. CASE SklErase
      BY <2>1, <2>4 DEF SklErase
    <2>5. CASE HashErase
      BY <2>1, <2>5 DEF HashErase
    <2>6. CASE PairEraseKey
      BY <2>1, <2>6 DEF PairEraseKey
    <2>7. CASE PairClear
      BY <2>1, <2>7 DEF PairClear
    <2>8. CASE HashReserve
      BY <2>1, <2>8 DEF HashReserve
    <2> QED
      BY <1>3, <2>2, <2>3, <2>4, <2>5, <2>6, <2>7, <2>8
  <1>4. ASSUME ScatJump \/ ScatSeek \/ ScatCopy PROVE kind # "mem" /\ kind' = kind
    <2>1. CASE ScatJump
      BY <2>1 DEF ScatJump
    <2>2. CASE ScatSeek
      BY <2>2 DEF ScatSeek
    <2>3. CASE ScatCopy
      <3>1. kind = "scat" /\ kind' = kind
        BY <2>3, Zenon DEF ScatCopy
      <3> QED
        BY <3>1
    <2> QED
      BY <1>4, <2>1, <2>2, <2>3
  <1>5. ASSUME \/ Tick \/ Register \/ Start \/ TimeEvent \/ Select
               \/ HighEvent \/ HighEnd \/ LowEvent \/ LowEnd
        PROVE  kind # "mem" /\ kind' = kind
    <2>1. kind \in EventKinds /\ kind' = kind
      BY <1>5 DEF Tick, Register, Start, TimeEvent, Select, HighEvent, HighEnd, LowEvent, LowEnd
    <2> QED
      BY <2>1, CallersAssumption
  <1>6. CASE UNCHANGED vars
    BY <1>6 DEF PoolsInv, vars
  <1> QED
    BY <1>1, <1>2, <1>3, <1>4, <1>5, <1>6, StepNew, StepCopy, StepRelease, StepShare DEF Next

\* The invariant says of the objects what ContentsExact says of all containers.
LEMMA PoolsExact == ASSUME PoolsInv, kind = "mem" PROVE ContentsExact
  <1>1. good = TRUE /\ Owned(box, model)
    BY DEF PoolsInv
  <1>2. Pools(box, DOMAIN model) /\ box.ok = TRUE /\ DOMAIN model \subseteq Allocated(box)
    BY <1>1 DEF Owned, Pools
  <1>3. ASSUME NEW o \in DOMAIN model
        PROVE  /\ o \in Allocated(box) /\ box.type[o] = model[o].type
               /\ box.next[o] = model[o].word
               /\ box.refs[o] = IF model[o].refs = 0 THEN NO_REF_CNT ELSE model[o].refs
    BY <1>1, <1>2 DEF Owned, Bodily
  <1>4. ASSUME NEW t \in AllTypes
        PROVE  /\ box.inpool[t] <= Threshold[t]
               /\ IsInjective(Pool(box, t))
               /\ Range(Pool(box, t)) = {o \in Allocated(box) \ DOMAIN model : box.type[o] = t}
    <2>1. box.inpool[t] <= Threshold[t]
      BY <1>2 DEF Pools
    <2>2. Spare(box, DOMAIN model, t) = {o \in Allocated(box) \ DOMAIN model : box.type[o] = t}
      BY DEF Spare
    <2> QED
      BY <1>2, <2>1, <2>2, PoolIs
  <1> QED
    BY <1>1, <1>2, <1>3, <1>4 DEF ContentsExact, Sequences_kinds

\* Whatever the callers of memory.c did, in any order, and whichever callocs failed: an
\* object is held by its owners, with the type, the references and the contents they gave
\* it, or lies once in the pool of its type, though the pool is linked through the bodies
\* of its objects; nobody is given an object that somebody has; no pool exceeds its
\* threshold; and no assert of the reference counts fails.
THEOREM PoolsCorrect == Spec => [](kind = "mem" => ContentsExact)
  <1>1. Init => PoolsInv
    BY PoolsInit
  <1>2. PoolsInv /\ [Next]_vars => PoolsInv'
    BY PoolsNext
  <1>3. PoolsInv => (kind = "mem" => ContentsExact)
    BY PoolsExact
  <1> QED
    BY <1>1, <1>2, <1>3, PTL DEF Spec

=============================================================================
