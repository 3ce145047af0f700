-------------------------- MODULE OrderedDelivery --------------------------
(***************************************************************************)
(* What the ring promises the sessions inside one membership, for every    *)
(* message that is not merely reliable: there is one order of the          *)
(* messages, it is only extended, a message enters it once and in the      *)
(* order in which its daemon was given it, and every daemon delivers a     *)
(* prefix of it.                                                           *)
(***************************************************************************)
EXTENDS Naturals, Sequences, SequencesExt, Functions

CONSTANTS Proc, Given       \* Given[p]: what daemon p is given, in order

VARIABLES order, got

vars == <<order, got>>

Init == order = <<>> /\ got = [p \in Proc |-> <<>>]

\* Daemon p puts some of its messages into the order and delivers on.
Advance(p) ==
  /\ \/ UNCHANGED order
     \/ /\ IsPrefix(order, order')
        /\ LET mine == SelectSeq(order', LAMBDA m : m \in Range(Given[p]))
               old  == SelectSeq(order, LAMBDA m : m \in Range(Given[p]))
           IN  /\ IsPrefix(mine, Given[p])
               /\ Len(order') - Len(order) = Len(mine) - Len(old)
  /\ \A q \in Proc \ {p} : got'[q] = got[q]
  /\ IsPrefix(got[p], got'[p])
  /\ IsPrefix(got'[p], order')

Next == \E p \in Proc : Advance(p)

Spec == Init /\ [][Next]_vars
=============================================================================
