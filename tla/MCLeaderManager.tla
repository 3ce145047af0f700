-------------------------- MODULE MCLeaderManager --------------------------
(* Instances of LeaderManager for TLC.                                     *)
EXTENDS LeaderManager, TLC

CONSTANTS s1, s2, s3

\* Server1, Server2 and Server3
MCNameDigit == [s \in Servers |-> CASE s = s1 -> 1 [] s = s2 -> 2 [] OTHER -> 3]
\* all connected to nodes whose names end in 1
MCNodeDigit == [s \in Servers |-> 1]

\* Values are interchangeable, and handler threads where every call may use any
\* of them; servers are not, because of their cardinalities.
ValueSymmetry == Permutations(Values)
Symmetry == Permutations(Threads) \cup Permutations(Values)

Environment(unstable, threads, patient, quiet, orderly, maxOps, maxChanges) ==
    [unstable |-> unstable, threads |-> threads, patient |-> patient, quiet |-> quiet,
     orderly |-> orderly, maxOps |-> maxOps, maxChanges |-> maxChanges]

\* Anything, at any moment, in any order.
AnyOrder == {Environment(Servers \cup {Service}, Threads, FALSE, FALSE, FALSE, 2, 2)}

\* One client and a stable group, with and without timeouts that come early; one
\* crash at any moment; a server that comes and goes twice between calls; two
\* writers at once.
Replication == LET one == {CHOOSE t \in Threads : TRUE} IN
    {Environment({}, one, FALSE, TRUE, FALSE, 5, 0),
     Environment({}, one, TRUE, TRUE, FALSE, 5, 0),
     Environment(Servers, one, TRUE, TRUE, FALSE, 4, 1),
     Environment({s3}, one, TRUE, TRUE, TRUE, 4, 4),
     Environment({}, Threads, TRUE, FALSE, FALSE, 2, 0)}

\* Timeouts that come early, and servers that come and go at any moment: without
\* calls, with one call, and while two calls overlap.
Restless ==
    {Environment(Servers, {}, FALSE, FALSE, FALSE, 0, 6),
     Environment(Servers, {CHOOSE t \in Threads : TRUE}, FALSE, FALSE, FALSE, 1, 4),
     Environment(Servers, Threads, FALSE, FALSE, FALSE, 2, 1)}

\* Two writers of one key, and nothing else.
TwoWriters == {Environment({}, Threads, TRUE, FALSE, FALSE, 2, 0)}
=============================================================================
