------------------------------ MODULE Streams -------------------------------
(***************************************************************************)
(* The stream connections between a Spread daemon and its clients, and the *)
(* units that travel on them.  The operating system is not part of the     *)
(* repository: this is what libspread/sp.c and daemon/session.c make use   *)
(* of.                                                                     *)
(*                                                                         *)
(* A message travels as its header, the old type if it is a reject, a unit *)
(* for every group and a unit for every block of data.  The units know     *)
(* where they come from; the code that reads them does not, it takes what  *)
(* comes next for what it expects next.                                    *)
(***************************************************************************)
EXTENDS Integers, Sequences, FiniteSets, SequencesExt, FiniteSetsExt, Functions

CONSTANT Room            \* units a socket buffers

VARIABLES
    net,                 \* the connections, numbered in the order they were made
    lst                  \* those the daemon has not accepted yet

\* A connection: the units on their way to and from the daemon, whether the
\* client and the daemon have their end open, and, for the properties only, the
\* messages the daemon wrote for the client, those the client took and those the
\* daemon took.
Connection == [up |-> <<>>, down |-> <<>>, cend |-> TRUE, dend |-> TRUE,
               written |-> <<>>, received |-> <<>>, handled |-> <<>>]

Size(m)  == 1 + (IF m.kind = "reject" THEN 1 ELSE 0) + m.ng + m.len
Units(m) == [k \in 1 .. Size(m) |-> [unit |-> k, of |-> m]]

\* the header is the only part that says how long the message is
Is_header(u) == "of" \in DOMAIN u /\ u.unit = 1

Least(a, b) == IF a < b THEN a ELSE b
Rest(s, n)  == SubSeq(s, n + 1, Len(s))
=============================================================================
