------------------------------- MODULE Memory -------------------------------
(***************************************************************************)
(* The objects of the daemon (memory.c).  An object of a type that is      *)
(* disposed of goes to the pool of its type, a stack linked through the    *)
(* bodies of the objects, as long as the pool is below the threshold of    *)
(* the type; otherwise it is freed.  A block has the type "block", whose   *)
(* threshold is 0.  Packets and messages that several queues share carry   *)
(* a reference count.  The build compiles the asserts out; they are        *)
(* recorded in ok.                                                         *)
(*                                                                         *)
(*   head   list_head: per type, the object on top of the pool, or None    *)
(*   next   what the first word of each object's body holds                *)
(*   inpool num_obj_inpool, per type                                       *)
(*   type   obj_type in the header of each object that is allocated        *)
(*   refs   ref_cnt of each object that is allocated, NO_REF_CNT = -1      *)
(***************************************************************************)
EXTENDS Integers, FiniteSetsExt

CONSTANTS ObjTypes,       \* the types given to Mem_init_object
          Threshold,      \* threshold of each type
          Objects,        \* the addresses calloc may return
          None

ASSUME MemoryAssumption == Threshold \in [ObjTypes \cup {"block"} -> Nat] /\ Threshold["block"] = 0

NO_REF_CNT == -1

AllTypes == ObjTypes \cup {"block"}

\* Mem_init_object with no initial objects
Mem_init == [head |-> [t \in AllTypes |-> None], next |-> [o \in {} |-> None],
             inpool |-> [t \in AllTypes |-> 0], type |-> [o \in {} |-> None],
             refs |-> [o \in {} |-> 0], ok |-> TRUE]

Allocated(m) == DOMAIN m.type

\* calloc of a header and a body
Mem_calloc(m, t, o) ==
    LET with(f, x) == [p \in DOMAIN f \cup {o} |-> IF p = o THEN x ELSE f[p]]
    IN  [m EXCEPT !.next = with(@, None), !.type = with(@, t), !.refs = with(@, NO_REF_CNT)]

\* new and Mem_alloc: the top of the pool, or a fresh object o, None if calloc fails
Mem_new(m, t, o) ==
    LET top == m.head[t]
    IN  IF top = None /\ o = None THEN [m |-> m, obj |-> None]
        ELSE IF top = None THEN [m |-> Mem_calloc(m, t, o), obj |-> o]
        ELSE [m |-> [m EXCEPT !.head[t] = m.next[top], !.inpool[t] = @ - 1,
                              !.ok = @ /\ m.inpool[t] > 0],
              obj |-> top]

Mem_new_ref_cnt(m, t, o) ==
    LET r == Mem_new(m, t, o)
    IN  IF r.obj = None THEN r ELSE [r EXCEPT !.m.refs[r.obj] = 1]

\* the body of an object is written by its owner
Mem_write(m, o, x) == [m EXCEPT !.next[o] = x]

Mem_free(m, o) ==
    LET without(f) == [p \in DOMAIN f \ {o} |-> f[p]]
    IN  [m EXCEPT !.next = without(@), !.type = without(@), !.refs = without(@)]

Mem_dispose(m, o) ==
    LET t == m.type[o]
        c == [m EXCEPT !.ok = @ /\ m.refs[o] = NO_REF_CNT]
    IN  IF m.inpool[t] >= Threshold[t] THEN Mem_free(c, o)
        ELSE [c EXCEPT !.next[o] = m.head[t], !.head[t] = o, !.inpool[t] = @ + 1]

Inc_ref_cnt(m, o) == [m EXCEPT !.refs[o] = @ + 1, !.ok = @ /\ m.refs[o] > 0]

\* dec_ref_cnt: the last reference disposes of the object
Dec_ref_cnt(m, o) ==
    LET c == [m EXCEPT !.ok = @ /\ m.refs[o] > 0]
    IN  IF m.refs[o] = 1 THEN Mem_dispose([c EXCEPT !.refs[o] = NO_REF_CNT], o)
        ELSE [c EXCEPT !.refs[o] = @ - 1]

\* Mem_copy: another object of the type, with the same body and no references
Mem_copy(m, o, fresh) ==
    LET r == Mem_new(m, m.type[o], fresh)
    IN  IF r.obj = None THEN r ELSE [r EXCEPT !.m.next[r.obj] = m.next[o]]

\* the objects of a pool, from the top
Pool(m, t) ==
    LET down[i \in 0 .. m.inpool[t]] ==
            IF i = 0 THEN m.head[t]
            ELSE IF down[i - 1] \in Allocated(m) THEN m.next[down[i - 1]] ELSE None
    IN  [i \in 1 .. m.inpool[t] |-> down[i - 1]]

=============================================================================
